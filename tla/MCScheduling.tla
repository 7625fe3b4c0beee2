---------------------------- MODULE MCScheduling ----------------------------
(* Values for checking Scheduling with TLC.  Of the task table:             *)
(* a clock of four minutes, two hours, two days and two months, with a week *)
(* of all four days, and expressions that meet every branch of cron_utils.  *)
EXTENDS Scheduling

Cron(minute, hour, dom, month, dow) ==
    [minute |-> minute, hour |-> hour, dom |-> dom, month |-> month, dow |-> dow]
Any == {Star(1)}
On(a) == {Single(a, 1)}

Weekly == Cron({Single(1, 2)}, {Between(0, 1, 1)}, Any, Any, On(4))   \* 4 is day 0 again
Never == Cron(On(4), Any, Any, Any, Any)                               \* no such minute

NoDay == Cron(On(0), On(0), Any, On(1), On(3))   \* valid, but no day 3 is in month 1

MCExprs ==
    {Weekly, Never, NoDay,
     Cron({Star(5)}, Any, Any, Any, Any),                   \* a step beyond the hour
     Cron(Any, Any, On(1), Any, Any),                       \* more triggers than may be
     Cron({Star(2)}, Any, Any, Any, Any),                   \* every two minutes
     Cron(On(0), On(0), On(2), Any, On(0)),                 \* day of month or of week
     Cron({Between(1, 3, 2)}, On(0), On(1), On(2), Any)}    \* in the second month

MCNewExprs == {Weekly, Never, NoDay}
=============================================================================
