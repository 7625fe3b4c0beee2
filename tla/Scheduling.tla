----------------------------- MODULE Scheduling -----------------------------
(***************************************************************************)
(* What schedules the tasks of a deployment: the queue of one task         *)
(* (ScheduleQueue), the back ends that its remote call reaches             *)
(* (TriggerBackends) and the generic task table with the connection its    *)
(* methods share (ScheduledTasks, with the tables of CronUtils). The queue *)
(* takes the platform as a trigger that is written and acknowledged, the   *)
(* back ends take the queue as leases, due times and repeated attempts,    *)
(* and the task table knows neither. A behaviour is about one of them, and *)
(* the others stand still.                                                 *)
(***************************************************************************)
EXTENDS ScheduleQueue, CronUtils

CONSTANTS
    Part,       \* the parts that are studied
    Triggered, Time, Foreign, Request, Loop, MaxTriggerEdits, MaxTriggerFaults,
    Client, Service, NewExprs, Executor, MaxTaskEdits, MaxTaskFaults

VARIABLES
    about,      \* the part that this behaviour is about
    platform, want, due, lease, crontab, source, pusher, triggerEdits, triggerFaults,
    ready, refs, conn, at, pinning, entry, now, method, stage, taskEdits, taskFaults, raced

T == INSTANCE TriggerBackends
       WITH Task <- Triggered, worker <- pusher,
            MaxEdits <- MaxTriggerEdits, MaxFaults <- MaxTriggerFaults,
            edits <- triggerEdits, faults <- triggerFaults

C == INSTANCE ScheduledTasks
       WITH row <- entry, call <- method,
            MaxEdits <- MaxTaskEdits, MaxFaults <- MaxTaskFaults,
            edits <- taskEdits, faults <- taskFaults

ASSUME SchedulingAssumption ==
    /\ Part \subseteq {"queue", "triggers", "tasks"}
    /\ T!ConstantsFit /\ C!ConstantsFit

triggers == <<platform, want, due, lease, crontab, source, pusher, triggerEdits, triggerFaults>>
tasks == <<ready, refs, conn, at, pinning, entry, now, method, stage, taskEdits, taskFaults, raced>>
all == <<vars, about, triggers, tasks>>

AllInit ==
    /\ about \in Part
    /\ Init /\ T!Init /\ C!Init
    /\ about # "triggers" => platform = "linux"
    /\ about # "tasks" => entry = None /\ ~pinning

Queue(step) == about = "queue" /\ step /\ UNCHANGED <<about, triggers, tasks>>
Triggers(step) == about = "triggers" /\ step /\ UNCHANGED <<about, vars, tasks>>
Tasks(step) == about = "tasks" /\ step /\ UNCHANGED <<about, vars, triggers>>

AllNext == Queue(Next) \/ Triggers(T!Next) \/ Tasks(C!Next)

\* What each part asks of its workers and its clock.
AllFairness ==
    /\ \A t \in Task :
         /\ WF_all(Queue(ComesDue(t))) /\ WF_all(Queue(LeaseExpires(t)))
         /\ SF_all(Queue(\E w \in Worker : Begin(w, t)))
         /\ SF_all(Queue(\E c \in Caller : Scan(c, t)))
    /\ \A c \in Caller : WF_all(Queue(EnqueueOwed(c)))
    /\ \A w \in Worker : WF_all(Queue(Dispatched(w))) /\ WF_all(Queue(Complete(w)))
    /\ WF_all(Queue(\E l \in late : Land(l)))
    /\ \A p \in Request \union {Loop} : WF_all(Triggers(T!Step(p)))
    /\ \A t \in Triggered :
         /\ WF_all(Triggers(T!ComesDue(t))) /\ WF_all(Triggers(T!Expire(t)))
         /\ SF_all(Triggers(T!Reconcile(t)))
    /\ \A c \in Client : WF_all(Tasks(C!Method(c)))
    /\ \A e \in Executor : WF_all(Tasks(C!Execute(e))) /\ WF_all(Tasks(C!Handle(e)))
    /\ WF_all(Tasks(C!Serve)) /\ WF_all(Tasks(C!Tick))

AllSpec == AllInit /\ [][AllNext]_all /\ AllFairness

-----------------------------------------------------------------------------
(* Properties: those of ScheduleQueue, and                                  *)

\* The triggers of the platform: no task has two blocks, a crontab written from
\* an up-to-date listing changes the block of one task only, and once edits and
\* faults end every trigger is what its task asks for (stated in
\* TriggerBackends).
TriggersKept == []T!TypeOK /\ T!OthersKept
TriggersHold == TriggersKept /\ T!TriggersConverge

\* The reference count, the shared connection and its callers agree, however
\* entering, failing and closing interleave (stated in Connection).
ConnectionCounted == C!ConnectionCounted

\* An expression that is translated to Windows fires when it matches if, and
\* only if, it does not repeat or its step divides the hour: "*/90" is one that
\* is translated, matches every hour and fires every ninety minutes.
WindowsAgrees ==
    entry # None /\ entry.cron \in WindowsExprs =>
        (WindowsTable[entry.cron] = MatchTable[entry.cron] <=> entry.cron \in DividesHour)

\* The comment says that "*/n" fires every n minutes of the day and cron_utils
\* says that what Task Scheduler cannot express raises (cron_utils.py:214).
WindowsAlwaysAgrees ==
    entry # None /\ entry.cron \in WindowsExprs => WindowsTable[entry.cron] = MatchTable[entry.cron]

\* What is due next here is what the expression says, unless a row was saved that
\* had changed since it was read (stated in ScheduledTasks), and on Windows,
\* exactly for the expressions whose translation does not drift.
TriggersFit == C!NextRunFits /\ WindowsAgrees

\* Every call of the task table ends and gives its reference back.
CallsEnd == C!CallsEnd
=============================================================================
