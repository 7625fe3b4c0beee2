---------------------------- MODULE TaskAdmission ----------------------------
(***************************************************************************)
(* Task admission of core/services/task_capacity.py and tasks.py: a user   *)
(* may enable as many tasks as the quota grants in force allow, and the    *)
(* send times of all enabled tasks, whoever owns them, keep a distance on  *)
(* the clock face.  create, set_enabled and update_owned check and write   *)
(* in one transaction under the admission lock (the policy row).  Pauses   *)
(* and changes of the quota do not take that lock, and reconcile_user      *)
(* pauses what exceeds the quota from what it read a while ago.            *)
(*                                                                         *)
(* Tasks are numbered in the order of their creation.                      *)
(***************************************************************************)
EXTENDS Integers, FiniteSets

CONSTANTS
    User,       \* owners other than administrators, who have no limit
    MaxTasks,   \* bound on the tasks ever created
    Minute,     \* minutes of the day a user may pick
    Day,        \* MINUTES_PER_DAY
    Gap,        \* SLOT_MINUTES
    MaxLimit,   \* the most that grants add up to
    MaxSaved,   \* TaskQuotaPolicy.max_saved_tasks
    Visit,      \* requests that reconcile at the same time
    Serialized, \* write transactions are serial (SQLite); otherwise read committed
    MaxEdits,   \* bound on what users and administrators do
    MaxFaults,  \* bound on requests that die
    None

Task == 1 .. MaxTasks

Row == [owner : User, enabled : BOOLEAN, time : Minute, deleting : BOOLEAN]

\* The local variables of reconcile_user: the limit and, once listed, the excess.
Reconcile == [user : User, limit : Nat, listed : BOOLEAN, excess : SUBSET Task]

ASSUME AdmissionAssumption ==
    /\ MaxTasks \in Nat /\ MaxLimit \in Nat /\ MaxSaved \in Nat
    /\ MaxEdits \in Nat /\ MaxFaults \in Nat
    /\ Day \in Nat /\ Gap \in Nat /\ Minute \subseteq 0 .. Day - 1
    /\ Serialized \in BOOLEAN
    /\ None \notin Row /\ None \notin Reconcile
    /\ None \notin [task : Task, row : Row]

VARIABLES
    task,    \* SparkTask
    created, \* how many tasks have been created
    limit,   \* sum of the grants in force
    txn,     \* the admission transaction that holds the lock: what it will write
    visit,   \* running reconcile_user calls
    edits, faults,
    top      \* history: the highest limit that was ever in force

vars == <<task, created, limit, txn, visit, edits, faults, top>>

TypeOK ==
    /\ task \in [Task -> Row \union {None}]
    /\ created \in 0 .. MaxTasks
    /\ limit \in [User -> Nat] /\ top \in [User -> Nat]
    /\ txn \in [task : Task, row : Row] \union {None}
    /\ visit \in [Visit -> Reconcile \union {None}]
    /\ edits \in Nat /\ faults \in Nat

Init ==
    /\ task = [t \in Task |-> None]
    /\ created = 0
    /\ limit \in [User -> 0 .. MaxLimit]
    /\ txn = None
    /\ visit = [v \in Visit |-> None]
    /\ edits = 0 /\ faults = 0
    /\ top = limit

Edited == edits < MaxEdits /\ edits' = edits + 1
Faulted == faults < MaxFaults /\ faults' = faults + 1

Exists(t) == task[t] # None
Saved(u) == {t \in Task : Exists(t) /\ task[t].owner = u}
Enabled(u) == {t \in Saved(u) : task[t].enabled}

\* Mutant: the day has a beginning and an end.
ApartInLine(x, y) == IF x < y THEN y - x ELSE x - y

\* _minutes_apart: the shorter way round the clock.
Apart(x, y) ==
    LET d == IF x < y THEN y - x ELSE x - y IN IF d < Day - d THEN d ELSE Day - d

\* assert_slot_available, for task t itself not counted.
SlotFree(m, t) ==
    \A o \in Task \ {t} : Exists(o) /\ task[o].enabled => Apart(m, task[o].time) >= Gap

\* assert_can_enable
Entitled(u) == Cardinality(Enabled(u)) < limit[u]

\* SQLite lets nobody else write while a write transaction is open.
Writable == Serialized => txn = None

\* The job of t is not locked by lock_for_change.
JobFree(t) == Writable /\ (txn # None => txn.task # t)

-----------------------------------------------------------------------------
(* Writers under the admission lock *)

Admit(t, row) ==
    /\ txn' = [task |-> t, row |-> row]
    /\ Edited
    /\ UNCHANGED <<task, created, limit, visit, faults, top>>

\* TaskService.create
Create(u, m) ==
    /\ txn = None /\ created < MaxTasks
    /\ Cardinality(Saved(u)) < MaxSaved /\ Entitled(u)
    /\ SlotFree(m, created + 1)
    /\ Admit(created + 1, [owner |-> u, enabled |-> TRUE, time |-> m, deleting |-> FALSE])

\* Mutant: the quota is what create() asks for, and nobody asks again.
SetEnabledFreely(t, enabled) ==
    /\ txn = None /\ Exists(t) /\ ~task[t].deleting
    /\ enabled => SlotFree(task[t].time, t)
    /\ Admit(t, [task[t] EXCEPT !.enabled = enabled])

\* TaskService.set_enabled: the quota is asked for unless the task is enabled
\* already, the slot in any case.
SetEnabled(t, enabled) ==
    /\ txn = None /\ Exists(t) /\ ~task[t].deleting
    /\ enabled => SlotFree(task[t].time, t) /\ (~task[t].enabled => Entitled(task[t].owner))
    /\ Admit(t, [task[t] EXCEPT !.enabled = enabled])

\* TaskService.update_owned saves the whole row, enabled as it was read.
UpdateTime(t, m) ==
    /\ txn = None /\ Exists(t) /\ ~task[t].deleting
    /\ task[t].enabled => SlotFree(m, t)
    /\ Admit(t, [task[t] EXCEPT !.time = m])

Commit ==
    /\ txn # None
    /\ task' = [task EXCEPT ![txn.task] = txn.row]
    /\ created' = IF txn.task > created THEN txn.task ELSE created
    /\ txn' = None
    /\ UNCHANGED <<limit, visit, edits, faults, top>>

\* A unique index is hit, or the process dies.
Rollback ==
    /\ txn # None /\ txn' = None
    /\ Faulted
    /\ UNCHANGED <<task, created, limit, visit, edits, top>>

-----------------------------------------------------------------------------
(* Writers without it *)

Paused(T) == [t \in Task |-> IF t \in T /\ Exists(t) THEN [task[t] EXCEPT !.enabled = FALSE]
                                                     ELSE task[t]]

\* The pause of delete_task, or of all tasks of an account that is deleted.
Pause(T) ==
    /\ Writable /\ T # {}
    /\ task' = Paused(T)
    /\ Edited
    /\ UNCHANGED <<created, limit, txn, visit, faults, top>>

\* The delete request, which is irrevocable.
Delete(t) ==
    /\ JobFree(t) /\ Exists(t) /\ ~task[t].deleting
    /\ task' = [task EXCEPT ![t].deleting = TRUE, ![t].enabled = FALSE]
    /\ Edited
    /\ UNCHANGED <<created, limit, txn, visit, faults, top>>

\* The platform has confirmed that the trigger is gone.
Remove(t) ==
    /\ JobFree(t) /\ Exists(t) /\ task[t].deleting
    /\ task' = [task EXCEPT ![t] = None]
    /\ UNCHANGED <<created, limit, txn, visit, edits, faults, top>>

\* A grant starts, lapses, is added, changed or revoked.
LimitChanges(u, l) ==
    /\ l # limit[u]
    /\ limit' = [limit EXCEPT ![u] = l]
    /\ top' = [top EXCEPT ![u] = IF l > @ THEN l ELSE @]
    /\ Edited
    /\ UNCHANGED <<task, created, txn, visit, faults>>

-----------------------------------------------------------------------------
(* reconcile_user, called for the pages that show tasks or quota *)

ReadLimit(v, u) ==
    /\ visit[v] = None
    /\ visit' = [visit EXCEPT ![v] = [user |-> u, limit |-> limit[u],
                                      listed |-> FALSE, excess |-> {}]]
    /\ UNCHANGED <<task, created, limit, txn, edits, faults, top>>

\* Mutant: one task too many is spared.
ExcessButOne(T, l) == {t \in T : Cardinality({s \in T : s <= t}) > l + 1}

\* enabled[limit:], the oldest tasks come first.
Excess(T, l) == {t \in T : Cardinality({s \in T : s <= t}) > l}

ListEnabled(v) ==
    /\ visit[v] # None /\ ~visit[v].listed
    /\ visit' = [visit EXCEPT ![v].listed = TRUE,
                   ![v].excess = Excess(Enabled(visit[v].user), visit[v].limit)]
    /\ UNCHANGED <<task, created, limit, txn, edits, faults, top>>

Oldest(T) == CHOOSE t \in T : \A s \in T : t <= s

\* One task after the other; a row that is gone is left alone.
PauseNext(v) ==
    /\ visit[v] # None /\ visit[v].excess # {} /\ Writable
    /\ LET t == Oldest(visit[v].excess) IN
         /\ task' = Paused({t})
         /\ visit' = [visit EXCEPT ![v].excess = @ \ {t}]
    /\ UNCHANGED <<created, limit, txn, edits, faults, top>>

Leave(v) ==
    /\ visit[v] # None /\ visit[v].listed /\ visit[v].excess = {}
    /\ visit' = [visit EXCEPT ![v] = None]
    /\ UNCHANGED <<task, created, limit, txn, edits, faults, top>>

\* The request dies with the excess paused in part.
Break(v) ==
    /\ visit[v] # None
    /\ visit' = [visit EXCEPT ![v] = None]
    /\ Faulted
    /\ UNCHANGED <<task, created, limit, txn, edits, top>>

-----------------------------------------------------------------------------

Admission ==
    \/ \E u \in User, m \in Minute : Create(u, m)
    \/ \E t \in Task, enabled \in BOOLEAN : SetEnabled(t, enabled)
    \/ \E t \in Task, m \in Minute : UpdateTime(t, m)
    \/ Commit \/ Rollback
Bare ==
    \/ \E u \in User : \E T \in SUBSET Enabled(u) : Pause(T)
    \/ \E t \in Task : Delete(t) \/ Remove(t)
    \/ \E u \in User, l \in 0 .. MaxLimit : LimitChanges(u, l)
Advance(v) == ListEnabled(v) \/ PauseNext(v) \/ Leave(v)
Reconciling ==
    \E v \in Visit : (\E u \in User : ReadLimit(v, u)) \/ Advance(v) \/ Break(v)

Next == Admission \/ Bare \/ Reconciling

Spec == Init /\ [][Next]_vars

\* Fairness: what has begun goes on, and the owner, or an administrator, keeps
\* opening a page that shows the tasks; nothing else calls reconcile_user.
VisitedSpec ==
    /\ Spec
    /\ WF_vars(Commit)
    /\ \A v \in Visit : WF_vars(Advance(v))
    /\ \A u \in User : SF_vars(\E v \in Visit : ReadLimit(v, u))

-----------------------------------------------------------------------------
(* Properties *)

\* The four minutes of safety: whatever requests meet, nobody who walks on for
\* less than Gap minutes from the time of an enabled task, past midnight if need
\* be, comes to the time of another one; a pause that is overwritten by a request
\* which read the row before does not change that.
Spacing ==
    \A s, t \in Task :
        s # t /\ Exists(s) /\ Exists(t) /\ task[s].enabled /\ task[t].enabled =>
            \A d \in 0 .. Gap - 1 : task[s].time + d \notin {task[t].time, task[t].time + Day}

\* No interleaving of creating, enabling, pausing and reconciling lets a user
\* have more tasks enabled at once than some quota of that user allowed.
NeverBeyondEntitlement == \A u \in User : Cardinality(Enabled(u)) <= top[u]

\* task_capacity.py:4: once a quota has lapsed the tasks in excess are paused,
\* for good, whatever reconciliations died half way or were overwritten.
QuotaRestored == \A u \in User : <>[](Cardinality(Enabled(u)) <= limit[u])
=============================================================================
