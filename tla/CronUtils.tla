------------------------------ MODULE CronUtils ------------------------------
(***************************************************************************)
(* core/task/cron_utils.py: what a five-field cron expression matches, the *)
(* next match after a time, and the Windows triggers it is translated to.  *)
(* A field is a set of comma items; an item has bounds and a step.  The    *)
(* calendar is a parameter: as many minutes, hours, days and months as the *)
(* constants say, with time counted in minutes and repeating after a       *)
(* Period, so that every case of the code occurs on a clock that a model   *)
(* checker can go round.                                                   *)
(***************************************************************************)
EXTENDS Integers, FiniteSets

CONSTANTS
    MinutesPerHour, HoursPerDay, DaysPerMonth, MonthsPerYear, DaysPerWeek,
    Lookahead,      \* _MAX_LOOKAHEAD_MIN: how many minutes a search tries
    MaxTriggers,    \* _MAX_DISCRETE_TRIGGERS
    Exprs           \* cron expressions

ASSUME CalendarAssumption ==
    /\ {MinutesPerHour, HoursPerDay, DaysPerMonth, MonthsPerYear, DaysPerWeek}
         \subseteq Nat \ {0}
    /\ (DaysPerMonth * MonthsPerYear) % DaysPerWeek = 0
    /\ Lookahead \in Nat /\ MaxTriggers \in Nat
    \* "The worst case is a match within four years" (cron_utils.py:126): the
    \* bound covers all the times there are.
    /\ Lookahead >= MinutesPerHour * HoursPerDay * DaysPerMonth * MonthsPerYear

MinutesPerDay == MinutesPerHour * HoursPerDay
Period == MinutesPerDay * DaysPerMonth * MonthsPerYear
Times == 0 .. Period - 1

MinuteOf(t) == t % MinutesPerHour
HourOf(t) == (t \div MinutesPerHour) % HoursPerDay
DomOf(t) == ((t \div MinutesPerDay) % DaysPerMonth) + 1
MonthOf(t) == ((t \div (MinutesPerDay * DaysPerMonth)) % MonthsPerYear) + 1
DowOf(t) == (t \div MinutesPerDay) % DaysPerWeek

\* A comma item: "*", "a" or "a-b", with "/step" or step 1.  A field is the set of
\* its items, none of them written twice.  Star(1) is "*"; in the minute field, the
\* only one that _iso_step_field is asked about, the code does the same for "*/1",
\* and elsewhere "*/1" is not a star, but the range of the whole field.
Star(step) == [base |-> "star", from |-> 0, to |-> 0, step |-> step]
Single(a, step) == [base |-> "single", from |-> a, to |-> a, step |-> step]
Between(a, b, step) == [base |-> "range", from |-> a, to |-> b, step |-> step]

Invalid == {-1}

ItemFrom(item, lo) == IF item.base = "star" THEN lo ELSE item.from
\* "a/step" runs to the end of the field, but "a/1" is read as "a".
ItemTo(item, hi) ==
    IF item.base = "star" \/ (item.base = "single" /\ item.step > 1) THEN hi ELSE item.to

\* _parse_field: the values of a field, or Invalid.
ParseField(field, lo, hi) ==
    LET stepped == {i \in field : i.step > 0}
        Values(i) == {v \in ItemFrom(i, lo) .. ItemTo(i, hi) : (v - ItemFrom(i, lo)) % i.step = 0}
    IN  IF \/ field = {} \/ stepped # field
           \/ \E i \in field : ItemFrom(i, lo) > ItemTo(i, hi)
           \/ \E i \in field : ~(Values(i) \subseteq lo .. hi)
        THEN Invalid
        ELSE UNION {Values(i) : i \in field}

\* Day of week: one more than the last day is the first again.
ParseDow(field) ==
    LET values == UNION {{v \in ItemFrom(i, 0) .. ItemTo(i, DaysPerWeek - 1) :
                             i.step > 0 /\ (v - ItemFrom(i, 0)) % i.step = 0} : i \in field}
        folded == {IF v = DaysPerWeek THEN 0 ELSE v : v \in values}
    IN  IF \/ field = {} \/ \E i \in field : i.step <= 0
           \/ \E i \in field : ItemFrom(i, 0) > ItemTo(i, DaysPerWeek - 1)
           \/ ~(folded \subseteq 0 .. DaysPerWeek - 1)
        THEN Invalid ELSE folded

IsStar(field) == field = {Star(1)}

\* _Cron: an expression is a record of the five fields.
Parsed(e) ==
    [minute |-> ParseField(e.minute, 0, MinutesPerHour - 1),
     hour |-> ParseField(e.hour, 0, HoursPerDay - 1),
     dom |-> ParseField(e.dom, 1, DaysPerMonth),
     month |-> ParseField(e.month, 1, MonthsPerYear),
     dow |-> ParseDow(e.dow)]

\* validate: no field raises.
Valid(e) == Invalid \notin {Parsed(e)[f] : f \in {"minute", "hour", "dom", "month", "dow"}}

\* Vixie: when day of month and day of week are both restricted, either will do.
DayMatches(e, t) ==
    LET dom == DomOf(t) \in Parsed(e).dom
        dow == DowOf(t) \in Parsed(e).dow
    IN  IF ~IsStar(e.dom) /\ ~IsStar(e.dow) THEN dom \/ dow
        ELSE (IsStar(e.dom) \/ dom) /\ (IsStar(e.dow) \/ dow)

\* _Cron.matches
Matches(e, t) ==
    /\ MinuteOf(t) \in Parsed(e).minute /\ HourOf(t) \in Parsed(e).hour
    /\ MonthOf(t) \in Parsed(e).month
    /\ DayMatches(e, t)

\* next_after: the cursor goes on a minute at a time, Lookahead minutes at most;
\* -1 when it raises.
Cursor(t, k) == (t + k) % Period

NextAfter(e, t) ==
    LET Found[k \in 1 .. Lookahead + 1] ==
            IF k > Lookahead THEN -1
            ELSE IF Matches(e, Cursor(t, k)) THEN Cursor(t, k) ELSE Found[k + 1]
    IN  Found[1]

-----------------------------------------------------------------------------
(* to_windows_xml *)

\* _iso_step_field: the step of "*" or "*/n", however large, 0 for anything else.
IsoStep(field) ==
    IF \E i \in field : i.step \in Nat \ {0} /\ field = {Star(i.step)}
    THEN (CHOOSE i \in field : TRUE).step ELSE 0

EveryDay(e) == IsStar(e.dom) /\ IsStar(e.dow) /\ IsStar(e.month)

\* _windows_day_block: by day, by month or by week; the rest cannot be said.
DayBlock(e) ==
    LET months == Parsed(e).month IN
    CASE ~IsStar(e.dom) /\ ~IsStar(e.dow) -> "error"
      [] ~IsStar(e.dow) /\ ~IsStar(e.month) -> "error"
      [] OTHER -> "block"

DayFires(e, t) ==
    IF ~IsStar(e.dow) THEN DowOf(t) \in Parsed(e).dow
    ELSE (IsStar(e.dom) \/ DomOf(t) \in Parsed(e).dom)
         /\ (IsStar(e.month) \/ MonthOf(t) \in Parsed(e).month)

\* One trigger a day that repeats every so many minutes, or one for each time.
Repeats(e) == IsoStep(e.minute) > 0 /\ IsStar(e.hour) /\ EveryDay(e)

\* The other triggers are a time each, and not too many of them.
Expressible(e) ==
    \/ Repeats(e)
    \/ /\ Cardinality(Parsed(e).hour) * Cardinality(Parsed(e).minute) <= MaxTriggers
       /\ DayBlock(e) = "block"

\* When the generated triggers fire.
WindowsFires(e, t) ==
    IF Repeats(e) THEN (t % MinutesPerDay) % IsoStep(e.minute) = 0
    ELSE /\ HourOf(t) \in Parsed(e).hour /\ MinuteOf(t) \in Parsed(e).minute
         /\ DayFires(e, t)

-----------------------------------------------------------------------------
(* The same over the expressions of a model, as tables *)

ValidExprs == {e \in Exprs : Valid(e)}
MatchTable == [e \in Exprs |-> IF Valid(e) THEN {t \in Times : Matches(e, t)} ELSE {}]
NextTable == [e \in Exprs |-> [t \in Times |-> IF Valid(e) THEN NextAfter(e, t) ELSE -1]]
WindowsTable == [e \in Exprs |-> IF Valid(e) THEN {t \in Times : WindowsFires(e, t)} ELSE {}]
WindowsExprs == {e \in ValidExprs : Expressible(e)}

\* A repetition goes on over the hour's end, an expression starts anew: they are
\* the same when the step divides the hour, or a day has no second hour.
DividesHour ==
    {e \in ValidExprs :
        Repeats(e) => HoursPerDay = 1 \/ MinutesPerHour % IsoStep(e.minute) = 0}
=============================================================================
