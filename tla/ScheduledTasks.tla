---------------------------- MODULE ScheduledTasks ----------------------------
(***************************************************************************)
(* The generic task table (core/task/crud.py) behind its with_db wrapper,  *)
(* and the executor that serves it (core/task/run.py and the internal API) *)
(* for every event category but the one of Execution.                      *)
(*                                                                         *)
(* Each method reads the row, decides, and saves the columns it names in a *)
(* second statement, without a transaction: two methods interleave between *)
(* the two, and each needs the connection to be there.                     *)
(***************************************************************************)
EXTENDS Connection

CONSTANTS
    Exprs,      \* cron expressions
    NewExprs,   \* those an edit may ask for
    Executor,   \* the clients that execute; the others edit
    Times, ValidExprs, NextTable, MatchTable,   \* of cron_utils (CronUtils)
    None,
    MaxEdits,   \* bound on edits
    MaxFaults   \* bound on lost reports and failed connections

VARIABLES
    row,        \* the ScheduledTask, or None
    now,
    call,       \* the method each client is in
    stage,      \* how far each executor is with its run
    edits, faults,
    raced       \* history: a column was saved from an outdated row, and not since anew

vars == <<connection, row, now, call, stage, edits, faults, raced>>

\* Its status and last run are written and shown, and decide nothing.
Row == [cron : Exprs, enabled : BOOLEAN, next : Times \union {None}]

Call == [op : {"create", "update", "enable", "disable", "delete", "get", "started", "result"},
         cron : Exprs, seen : Row \union {None}, read : BOOLEAN]

ConstantsFit ==
    /\ NewExprs \subseteq Exprs /\ Executor \subseteq Client
    /\ IsFiniteSet(Client) /\ Service \notin Client /\ (Client # {} => Exprs # {})
    /\ MaxEdits \in Nat /\ MaxFaults \in Nat
    /\ None \notin Times /\ None \notin Row /\ None \notin Call

TypeOK ==
    /\ ConnectionTypeOK
    /\ row \in Row \union {None}
    /\ now \in Times
    /\ call \in [Client -> Call \union {None}]
    /\ stage \in [Executor -> {"idle", "fetched", "running", "handled"}]
    /\ edits \in 0 .. MaxEdits /\ faults \in 0 .. MaxFaults
    /\ raced \in BOOLEAN

Faulted == faults < MaxFaults /\ faults' = faults + 1
Calling(op, cron) == [op |-> op, cron |-> cron, seen |-> None, read |-> FALSE]
AnyCron == CHOOSE e \in Exprs : TRUE

-----------------------------------------------------------------------------
(* with_db around every method *)

Begin(c, new) ==
    /\ call[c] = None /\ Enter(c)
    /\ call' = [call EXCEPT ![c] = new]

\* An API request, or a script.
Edit(c) ==
    /\ c \notin Executor /\ edits < MaxEdits
    /\ \/ \E op \in {"create", "update"}, e \in NewExprs : Begin(c, Calling(op, e))
       \/ \E op \in {"enable", "disable", "delete"} : Begin(c, Calling(op, AnyCron))
    /\ edits' = edits + 1
    /\ UNCHANGED <<row, now, stage, faults, raced>>

\* run_task: fetch the task, report the start, run the handler, report the result.
Execute(e) ==
    /\ e \in Executor
    /\ \/ stage[e] = "idle" /\ row # None /\ row.next = now
          /\ Begin(e, Calling("get", AnyCron))
       \/ stage[e] = "fetched" /\ Begin(e, Calling("started", AnyCron))
       \/ stage[e] = "handled" /\ Begin(e, Calling("result", AnyCron))
    /\ UNCHANGED <<row, now, stage, edits, faults, raced>>

Connected(c) ==
    /\ Connect(c)
    /\ UNCHANGED <<row, now, call, stage, edits, faults, raced>>

Settle(c) == call' = [call EXCEPT ![c] = None]

\* What follows a call of the executor: a disabled or missing task is skipped,
\* a report that fails is only logged (_safe_started, _safe_result).
Advanced(c, failed) ==
    IF c \notin Executor THEN stage
    ELSE [stage EXCEPT ![c] =
            CASE call[c].op = "get" ->
                    IF failed \/ row = None \/ (row # None /\ ~row.enabled) THEN "idle" ELSE "fetched"
              [] call[c].op = "started" -> "running"
              [] OTHER -> "idle"]

\* Mutant: the reference is given back only when the method returns.
NoFinally(c) ==
    /\ call[c] # None
    /\ \/ ConnectFails(c) /\ Faulted
       \/ at[c] = "in" /\ conn # "open" /\ UNCHANGED <<connection, faults>>
    /\ Settle(c) /\ stage' = Advanced(c, TRUE)
    /\ UNCHANGED <<row, now, edits, raced>>

\* The connection cannot be opened, or the statement finds it closed: the method
\* raises.
NoConnection(c) ==
    /\ call[c] # None
    /\ \/ ConnectFails(c) /\ Faulted
       \/ at[c] = "in" /\ conn # "open" /\ Leave(c) /\ UNCHANGED faults
    /\ Settle(c) /\ stage' = Advanced(c, TRUE)
    /\ UNCHANGED <<row, now, edits, raced>>

Close(u) ==
    /\ Closed(u)
    /\ UNCHANGED <<row, now, call, stage, edits, faults, raced>>

\* lifespan and schedule_worker.run: the service takes its reference first and
\* gives it back last.
Serve ==
    /\ pinning
    /\ \/ Enter(Service) \/ Connect(Service)
       \/ /\ \A c \in Client : at[c] = "out" /\ (c \in Executor => stage[c] = "idle")
          /\ edits = MaxEdits
          /\ Leave(Service)
    /\ UNCHANGED <<row, now, call, stage, edits, faults, raced>>

-----------------------------------------------------------------------------
(* The methods *)

Ready(c) == call[c] # None /\ at[c] = "in" /\ conn = "open"

Next0(e) == IF NextTable[e][now] = -1 THEN None ELSE NextTable[e][now]

\* What create leaves.
Created(e, enabled) ==
    [cron |-> e, enabled |-> enabled, next |-> IF enabled THEN Next0(e) ELSE None]

\* The process starts with no task or with one it created earlier.
Init ==
    /\ ConnectionInit
    /\ now = 0
    /\ row \in {None} \union {Created(e, TRUE) : e \in {x \in ValidExprs : NextTable[x][0] # -1}}
    /\ call = [c \in Client |-> None]
    /\ stage = [e \in Executor |-> "idle"]
    /\ edits = 0 /\ faults = 0 /\ raced = FALSE

\* The methods that look at the row first.
Reads == {"update", "enable", "disable", "started", "result"}

\* get_or_none; without a row the method answers that there is none.
Fetch(c) ==
    /\ Ready(c) /\ call[c].op \in Reads /\ ~call[c].read
    /\ IF row # None
       THEN /\ call' = [call EXCEPT ![c].read = TRUE, ![c].seen = row]
            /\ UNCHANGED <<connection, stage>>
       ELSE Leave(c) /\ Settle(c) /\ stage' = Advanced(c, TRUE)
    /\ UNCHANGED <<row, now, edits, faults, raced>>

\* Mutant: a new expression leaves the next run alone.
UpdatedOnly(r, m) == [r EXCEPT !.cron = m.cron]

\* update: the next run is computed for a row that was enabled when read.
Updated(r, m) ==
    [r EXCEPT !.cron = m.cron, !.next = IF m.seen.enabled THEN Next0(m.cron) ELSE @]

\* What save(update_fields) makes of the row r as it is by then.
Saved(r, m) ==
    CASE m.op = "update" -> Updated(r, m)
      [] m.op = "enable" -> [r EXCEPT !.enabled = TRUE, !.next = Next0(m.seen.cron)]
      [] m.op = "disable" -> [r EXCEPT !.enabled = FALSE, !.next = None]
      [] m.op = "started" -> r
      [] m.op = "result" ->
            [r EXCEPT !.next = IF m.seen.enabled THEN Next0(m.seen.cron) ELSE m.seen.next]

\* An expression that validate refuses, or that a search for its next run finds
\* no time for, ends the method with nothing saved.
Refuses(m) ==
    \/ m.op \in {"create", "update"} /\ m.cron \notin ValidExprs
    \/ m.op = "update" /\ m.seen.enabled /\ Next0(m.cron) = None
    \/ m.op = "enable" /\ Next0(m.seen.cron) = None
    \/ m.op = "result" /\ m.seen.enabled /\ Next0(m.seen.cron) = None

\* History: does a column of r no longer go with the others once m is saved?
Raced(r, m) ==
    CASE m.op = "disable" -> FALSE
      [] m.op = "enable" -> r.cron # m.seen.cron
      [] m.op = "started" -> raced
      [] m.op = "update" -> raced \/ r.enabled # m.seen.enabled
      [] m.op = "result" ->
            \/ raced \/ r.cron # m.seen.cron \/ r.enabled # m.seen.enabled
            \/ ~r.enabled /\ r.next # m.seen.next

Save(c) ==
    LET m == call[c] IN
    /\ Ready(c) /\ m.read /\ ~Refuses(m)
    /\ row' = IF row = None THEN None ELSE Saved(row, m)
    /\ raced' = IF row = None THEN raced ELSE Raced(row, m)
    /\ Leave(c) /\ Settle(c) /\ stage' = Advanced(c, FALSE)
    /\ UNCHANGED <<now, edits, faults>>

Refuse(c) ==
    /\ Ready(c) /\ (call[c].read \/ call[c].op = "create") /\ Refuses(call[c])
    /\ Leave(c) /\ Settle(c) /\ stage' = Advanced(c, TRUE)
    /\ UNCHANGED <<row, now, edits, faults, raced>>

\* create, delete and get are one statement.  An enabled task needs a next run,
\* and an id that is taken is refused.
Create(c) ==
    LET m == call[c] IN
    /\ Ready(c) /\ m.op = "create" /\ ~Refuses(m)
    /\ \E enabled \in BOOLEAN :
         IF row = None /\ (enabled => Next0(m.cron) # None)
         THEN row' = Created(m.cron, enabled) /\ raced' = FALSE
         ELSE UNCHANGED <<row, raced>>
    /\ Leave(c) /\ Settle(c)
    /\ UNCHANGED <<now, stage, edits, faults>>

Delete(c) ==
    /\ Ready(c) /\ call[c].op = "delete"
    /\ row' = None
    /\ Leave(c) /\ Settle(c)
    /\ UNCHANGED <<now, stage, edits, faults, raced>>

Get(c) ==
    /\ Ready(c) /\ call[c].op = "get"
    /\ Leave(c) /\ Settle(c) /\ stage' = Advanced(c, FALSE)
    /\ UNCHANGED <<row, now, edits, faults, raced>>

-----------------------------------------------------------------------------

\* The handler returns or raises.
Handle(e) ==
    /\ stage[e] = "running" /\ call[e] = None
    /\ stage' = [stage EXCEPT ![e] = "handled"]
    /\ UNCHANGED <<connection, row, now, call, edits, faults, raced>>

\* The report of a start or a result never arrives.
ReportLost(e) ==
    /\ at[e] = "out" /\ call[e] = None /\ stage[e] \in {"fetched", "handled"}
    /\ stage' = [stage EXCEPT ![e] = IF @ = "fetched" THEN "running" ELSE "idle"]
    /\ Faulted
    /\ UNCHANGED <<connection, row, now, call, edits, raced>>

\* Time moves to the next run.
Tick ==
    /\ row # None /\ row.next \notin {None, now}
    /\ now' = row.next
    /\ UNCHANGED <<connection, row, call, stage, edits, faults, raced>>

Method(c) ==
    \/ Connected(c) \/ NoConnection(c) \/ Close(c)
    \/ Fetch(c) \/ Save(c) \/ Refuse(c) \/ Create(c) \/ Delete(c) \/ Get(c)

Next ==
    \/ \E c \in Client : Edit(c) \/ Method(c)
    \/ \E e \in Executor : Execute(e) \/ Handle(e) \/ ReportLost(e)
    \/ Serve \/ Close(Service) \/ Tick

\* Statements return, handlers end, the platform fires what is due.
Fairness ==
    /\ \A c \in Client : WF_vars(Method(c))
    /\ \A e \in Executor : WF_vars(Execute(e)) /\ WF_vars(Handle(e))
    /\ WF_vars(Serve) /\ WF_vars(Tick)

Spec == Init /\ [][Next]_vars /\ Fairness

-----------------------------------------------------------------------------
(* Properties *)

\* The next run is set exactly for an enabled task, and is a time its expression
\* matches, unless a column was saved from a row that had changed since it was
\* read; one undisturbed enabling or disabling puts it right.
NextRunFits ==
    row # None /\ ~raced =>
        /\ row.enabled <=> row.next # None
        /\ row.next # None => row.next \in MatchTable[row.cron]

\* The count, the connection and the callers agree.
ConnectionCounted == TypeOK /\ CountIsExact /\ PinnedIsWarm /\ LastOneCloses

\* Every call ends, with an answer or an error, and its reference is given back.
CallsEnd == \A c \in Client : call[c] # None ~> call[c] = None /\ at[c] = "out"
=============================================================================
