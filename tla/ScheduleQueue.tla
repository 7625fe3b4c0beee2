---------------------------- MODULE ScheduleQueue ----------------------------
(***************************************************************************)
(* The durable schedule queue of core/services/task_scheduling.py: a       *)
(* business row (SparkTask) is the authority, a queue row (ScheduleJob)    *)
(* holds the desired trigger, its revision, a lease and a retry clock, and *)
(* workers push the desired trigger to a scheduling platform that cannot   *)
(* compare versions.  Each database transaction is one action; the remote  *)
(* call lies between two transactions and may fail, time out or land late. *)
(*                                                                         *)
(* Times are abstract: `due' is next_attempt_at <= now and `live' is       *)
(* lease_until > now; both change when time passes.  The lease token is    *)
(* the worker that drew it: a worker runs one process_job at a time, and   *)
(* a restarted one never completes the attempt of its dead predecessor.    *)
(***************************************************************************)
EXTENDS Naturals, FiniteSets

CONSTANTS
    Task,       \* ids of business tasks
    SendTime,   \* times of day a task may be scheduled for
    Worker,     \* concurrent process_job calls (API requests and schedule workers)
    Caller,     \* requests and scans caught between two transactions
    None,       \* "no row", "no trigger", "nobody"
    MaxEdits,   \* bound on business edits
    MaxFaults   \* bound on crashes, failed calls and overrun leases

ASSUME SendTimeAssumption == SendTime # {}
ASSUME BoundsAssumption == MaxEdits \in Nat /\ MaxFaults \in Nat

\* The state a trigger is wanted in; also the columns of SparkTask and of
\* ScheduledTask that the queue reads.
Row == [enabled : BOOLEAN, time : SendTime]

ScheduleJob == [revision : Nat, desired : Row, deleting : BOOLEAN,
                holder : Worker \union {None}, live : BOOLEAN, due : BOOLEAN]

\* What process_job keeps in local variables across the remote call.
Attempt == [task : Task, revision : Nat, desired : Row, deleting : BOOLEAN,
            state : {"calling", "ok", "failed"}]

ASSUME NoneAssumption ==
    /\ None \notin Row /\ None \notin ScheduleJob /\ None \notin Attempt
    /\ None \notin SendTime /\ None \notin Worker
    /\ None \notin [task : Task, delete : BOOLEAN]
    /\ None \notin {"pending", "synced", "error"}

VARIABLES
    row,        \* SparkTask
    job,        \* ScheduleJob
    sync,       \* TaskSchedule.state
    proj,       \* ScheduledTask, the projection the execution entry reads
    remote,     \* the platform's trigger
    worker,     \* running process_job calls
    call,       \* callers that still owe an enqueue
    late,       \* remote writes that outlive the call that issued them
    edits,      \* business edits so far
    faults,     \* faults so far
    acked,      \* history: revisions the platform has acknowledged
    overlapped, \* history: the last write was raced by one that may still land
    suspect     \* history: a late result was noticed and no check began since

vars == <<row, job, sync, proj, remote, worker, call, late, edits, faults,
          acked, overlapped, suspect>>
history == <<acked, overlapped, suspect>>

TypeOK ==
    /\ row \in [Task -> Row \union {None}]
    /\ job \in [Task -> ScheduleJob \union {None}]
    /\ sync \in [Task -> {"pending", "synced", "error", None}]
    /\ proj \in [Task -> Row \union {None}]
    /\ remote \in [Task -> SendTime \union {None}]
    /\ worker \in [Worker -> Attempt \union {None}]
    /\ call \in [Caller -> [task : Task, delete : BOOLEAN] \union {None}]
    /\ late \subseteq [id : Nat, task : Task, write : SendTime \union {None}]
    /\ edits \in Nat /\ faults \in Nat
    /\ acked \in [Task -> SUBSET Nat]
    /\ overlapped \in [Task -> BOOLEAN]
    /\ suspect \in [Task -> BOOLEAN]

Init ==
    /\ row = [t \in Task |-> None]
    /\ job = [t \in Task |-> None]
    /\ sync = [t \in Task |-> None]
    /\ proj = [t \in Task |-> None]
    /\ remote = [t \in Task |-> None]
    /\ worker = [w \in Worker |-> None]
    /\ call = [c \in Caller |-> None]
    /\ late = {} /\ edits = 0 /\ faults = 0
    /\ acked = [t \in Task |-> {}]
    /\ overlapped = [t \in Task |-> FALSE]
    /\ suspect = [t \in Task |-> FALSE]

Exists(t) == row[t] # None
Deleting(t) == job[t] # None /\ job[t].deleting
Running(w, t) == worker[w] # None /\ worker[w].task = t
HoldsLease(w) == job[worker[w].task].holder = w
\* Mutant: a lease lasts until it is released.
LeasedForEver(t) == job[t].holder # None
Leased(t) == job[t].holder # None /\ job[t].live

\* A trigger fires at the wanted time, or is absent: dispatcher.sync registers
\* an enabled task and removes the trigger of a disabled one.
Trigger(d) == IF d.enabled THEN d.time ELSE None

\* A remote write of task t, by someone other than w, whose outcome is open.
OutstandingBeside(w, t) ==
    (\E v \in Worker \ {w} : Running(v, t)) \/ (\E l \in late : l.task = t)

Edited == edits < MaxEdits /\ edits' = edits + 1
Faulted == faults < MaxFaults /\ faults' = faults + 1

-----------------------------------------------------------------------------
(* Writers of the desired state *)

\* get_or_create, then a new revision that is due at once; the lease is kept.
Enqueued(j, r, deleting) ==
    IF j = None
    THEN [revision |-> 1, desired |-> r, deleting |-> deleting,
          holder |-> None, live |-> FALSE, due |-> TRUE]
    ELSE [j EXCEPT !.revision = @ + 1, !.desired = r, !.deleting = deleting, !.due = TRUE]

\* Mutant: each request says anew whether to delete.
EnqueueAnew(t, r, delete) ==
    LET desired == [r EXCEPT !.enabled = @ /\ ~delete] IN
    /\ row' = [row EXCEPT ![t] = desired]
    /\ job' = [job EXCEPT ![t] = Enqueued(job[t], desired, delete)]
    /\ sync' = [sync EXCEPT ![t] = "pending"]
    /\ proj' = [proj EXCEPT ![t] = [enabled |-> FALSE, time |-> r.time]]

\* enqueue() inside a transaction that leaves the business row at r.
Enqueue(t, r, delete) ==
    LET deleting == Deleting(t) \/ delete
        desired == [r EXCEPT !.enabled = @ /\ ~deleting]
    IN  /\ row' = [row EXCEPT ![t] = desired]
        /\ job' = [job EXCEPT ![t] = Enqueued(job[t], desired, deleting)]
        /\ sync' = [sync EXCEPT ![t] = "pending"]
        /\ proj' = [proj EXCEPT ![t] = [enabled |-> FALSE, time |-> r.time]]

\* TaskService.create: the row and its first job in one transaction.  A task id
\* is never used twice.
Create(t) ==
    /\ ~Exists(t) /\ job[t] = None
    /\ \E s \in SendTime : Enqueue(t, [enabled |-> TRUE, time |-> s], FALSE)
    /\ Edited
    /\ UNCHANGED <<remote, worker, call, late, faults, history>>

\* TaskService.set_enabled: refused once deletion is requested.
SetEnabled(t) ==
    /\ Exists(t) /\ ~Deleting(t)
    /\ \E e \in BOOLEAN : Enqueue(t, [row[t] EXCEPT !.enabled = e], FALSE)
    /\ Edited
    /\ UNCHANGED <<remote, worker, call, late, faults, history>>

\* TaskService.update_owned: a new send time, enabled or not.
UpdateTime(t) ==
    /\ Exists(t) /\ ~Deleting(t)
    /\ \E s \in SendTime : Enqueue(t, [row[t] EXCEPT !.time = s], FALSE)
    /\ Edited
    /\ UNCHANGED <<remote, worker, call, late, faults, history>>

\* Writers that pause the row in a statement of its own and enqueue in a later
\* transaction: delete_task (delete = TRUE); deletion of the account and quota
\* auto-pause (FALSE).
PauseFirst(c, t) ==
    /\ call[c] = None /\ Exists(t)
    /\ row' = [row EXCEPT ![t].enabled = FALSE]
    /\ \E d \in BOOLEAN : call' = [call EXCEPT ![c] = [task |-> t, delete |-> d]]
    /\ Edited
    /\ UNCHANGED <<job, sync, proj, remote, worker, late, faults, history>>

\* The manual sync endpoint: sync_task without a change.
RequestSync(c, t) ==
    /\ call[c] = None /\ Exists(t)
    /\ call' = [call EXCEPT ![c] = [task |-> t, delete |-> FALSE]]
    /\ Edited
    /\ UNCHANGED <<row, job, sync, proj, remote, worker, late, faults, history>>

\* The scan of reconcile(): reads the row and its job, enqueues afterwards.
Scan(c, t) ==
    /\ call[c] = None /\ Exists(t)
    /\ job[t] = None \/ job[t].desired # row[t]
    /\ call' = [call EXCEPT ![c] = [task |-> t, delete |-> FALSE]]
    /\ UNCHANGED <<row, job, sync, proj, remote, worker, late, edits, faults, history>>

\* The enqueue transaction of such a caller; nothing to do when the row is gone.
EnqueueOwed(c) ==
    /\ call[c] # None
    /\ LET t == call[c].task IN
         IF Exists(t) THEN Enqueue(t, row[t], call[c].delete)
                      ELSE UNCHANGED <<row, job, sync, proj>>
    /\ call' = [call EXCEPT ![c] = None]
    /\ UNCHANGED <<remote, worker, late, edits, faults, history>>

\* The caller dies between its two transactions.
CallerCrash(c) ==
    /\ call[c] # None
    /\ call' = [call EXCEPT ![c] = None]
    /\ Faulted
    /\ UNCHANGED <<row, job, sync, proj, remote, worker, late, edits, history>>

\* UserService.delete removes the user's remaining rows by cascade: a task
\* created after the user's tasks were listed disappears without an enqueue.
CascadeDelete(t) ==
    /\ Exists(t)
    /\ row' = [row EXCEPT ![t] = None]
    /\ Edited
    /\ UNCHANGED <<job, sync, proj, remote, worker, call, late, faults, history>>

-----------------------------------------------------------------------------
(* process_job *)

Drawn(j, w) == [j EXCEPT !.holder = w, !.live = TRUE]
Orphaned(j) ==
    [j EXCEPT !.deleting = TRUE, !.revision = @ + 1, !.desired = [@ EXCEPT !.enabled = FALSE]]
Snapshot(t, j) == [task |-> t, revision |-> j.revision, desired |-> j.desired,
                   deleting |-> j.deleting, state |-> "calling"]

\* First transaction: draw the lease and snapshot the job.  A job whose row is
\* gone without a delete request becomes a deletion.
Begin(w, t) ==
    /\ worker[w] = None
    /\ job[t] # None /\ job[t].due /\ ~Leased(t)
    /\ LET taken == Drawn(IF Exists(t) \/ job[t].deleting THEN job[t] ELSE Orphaned(job[t]), w)
       IN  /\ job' = [job EXCEPT ![t] = taken]
           /\ worker' = [worker EXCEPT ![w] = Snapshot(t, taken)]
    /\ overlapped' = [overlapped EXCEPT ![t] = @ \/ OutstandingBeside(w, t)]
    /\ suspect' = [suspect EXCEPT ![t] = FALSE]
    /\ UNCHANGED <<row, sync, proj, remote, call, late, edits, faults, acked>>

\* The platform applies the write and the worker hears of it.
Dispatched(w) ==
    /\ worker[w] # None /\ worker[w].state = "calling"
    /\ remote' = [remote EXCEPT ![worker[w].task] = Trigger(worker[w].desired)]
    /\ worker' = [worker EXCEPT ![w].state = "ok"]
    /\ acked' = [acked EXCEPT ![worker[w].task] = @ \union {worker[w].revision}]
    /\ overlapped' = [overlapped EXCEPT ![worker[w].task] =
                        ~HoldsLease(w) \/ OutstandingBeside(w, worker[w].task)]
    /\ UNCHANGED <<row, job, sync, proj, call, late, edits, faults, suspect>>

\* The remote write of w, left to land whenever the platform gets to it.
Detached(w) ==
    [id |-> faults, task |-> worker[w].task, write |-> Trigger(worker[w].desired)]

\* The call raises: refused without effect, or timed out with the write still
\* on its way.
DispatchFails(w) ==
    /\ worker[w] # None /\ worker[w].state = "calling"
    /\ worker' = [worker EXCEPT ![w].state = "failed"]
    /\ late' \in {late, late \union {Detached(w)}}
    /\ Faulted
    /\ UNCHANGED <<row, job, sync, proj, remote, call, edits, history>>

\* The process dies or the call is cancelled; the lease stays in the database
\* and the dispatching thread may still deliver its write.
WorkerCrash(w) ==
    /\ worker[w] # None
    /\ late' \in IF worker[w].state = "calling"
                 THEN {late, late \union {Detached(w)}} ELSE {late}
    /\ worker' = [worker EXCEPT ![w] = None]
    /\ Faulted
    /\ UNCHANGED <<row, job, sync, proj, remote, call, edits, history>>

\* A detached write lands.
Land(l) ==
    /\ l \in late
    /\ remote' = [remote EXCEPT ![l.task] = l.write]
    /\ late' = late \ {l}
    /\ UNCHANGED <<row, job, sync, proj, worker, call, edits, faults, history>>

\* An UPDATE of ScheduledTask.enabled, without effect when the row is gone.
Gated(p, enabled) == IF p = None THEN p ELSE [p EXCEPT !.enabled = enabled]

Answered(w) == worker[w] # None /\ worker[w].state \in {"ok", "failed"}
\* Mutants: the revision, or nothing at all, is compared.
ObsoleteByRow(w) == Exists(worker[w].task) /\ row[worker[w].task] # worker[w].desired
ObsoleteNever(w) == FALSE

\* The revision moved on, or a writer changed the row and has not enqueued yet.
Obsolete(w) ==
    LET a == worker[w] IN
    \/ job[a.task].revision # a.revision
    \/ Exists(a.task) /\ row[a.task] # a.desired

\* Second transaction, lease lost to another worker: close the projection and
\* ask for a fresh check.
LateResult(w) ==
    /\ Answered(w) /\ ~HoldsLease(w)
    /\ LET t == worker[w].task IN
         /\ job' = [job EXCEPT ![t].due = TRUE]
         /\ proj' = [proj EXCEPT ![t] = Gated(proj[t], FALSE)]
         /\ sync' = [sync EXCEPT ![t] = IF Exists(t) THEN "pending" ELSE @]
         /\ suspect' = [suspect EXCEPT ![t] = TRUE]
    /\ worker' = [worker EXCEPT ![w] = None]
    /\ UNCHANGED <<row, remote, call, late, edits, faults, acked, overlapped>>

Released(j, due) == [j EXCEPT !.holder = None, !.live = FALSE, !.due = due]

\* Lease held, result obsolete: try again at once, publish nothing.
StaleResult(w) ==
    /\ Answered(w) /\ HoldsLease(w) /\ Obsolete(w)
    /\ LET t == worker[w].task IN
         /\ job' = [job EXCEPT ![t] = Released(job[t], TRUE)]
         /\ sync' = [sync EXCEPT ![t] = IF Exists(t) THEN "pending" ELSE @]
    /\ worker' = [worker EXCEPT ![w] = None]
    /\ UNCHANGED <<row, proj, remote, call, late, edits, faults, history>>

\* Lease held, call failed: back off with the projection closed.
FailedResult(w) ==
    /\ Answered(w) /\ HoldsLease(w) /\ ~Obsolete(w)
    /\ worker[w].state = "failed"
    /\ LET t == worker[w].task IN
         /\ job' = [job EXCEPT ![t] = Released(job[t], FALSE)]
         /\ proj' = [proj EXCEPT ![t] = Gated(proj[t], FALSE)]
         /\ sync' = [sync EXCEPT ![t] = "error"]
    /\ worker' = [worker EXCEPT ![w] = None]
    /\ UNCHANGED <<row, remote, call, late, edits, faults, history>>

\* Lease held, call succeeded: publish, and look again after RECONCILE_INTERVAL.
\* A row that vanished meanwhile is left for the next check to clean up.
SyncedResult(w) ==
    /\ Answered(w) /\ HoldsLease(w) /\ ~Obsolete(w)
    /\ worker[w].state = "ok" /\ ~worker[w].deleting
    /\ LET t == worker[w].task IN
         /\ job' = [job EXCEPT ![t] = Released(job[t], FALSE)]
         /\ IF Exists(t)
            THEN /\ proj' = [proj EXCEPT ![t] = Gated(proj[t], row[t].enabled)]
                 /\ sync' = [sync EXCEPT ![t] = "synced"]
            ELSE UNCHANGED <<proj, sync>>
    /\ worker' = [worker EXCEPT ![w] = None]
    /\ UNCHANGED <<row, remote, call, late, edits, faults, history>>

\* The same for a deletion: the rows go, the job stays behind as a tombstone.
DeletedResult(w) ==
    /\ Answered(w) /\ HoldsLease(w) /\ ~Obsolete(w)
    /\ worker[w].state = "ok" /\ worker[w].deleting
    /\ LET t == worker[w].task IN
         /\ job' = [job EXCEPT ![t] = Released(job[t], FALSE)]
         /\ row' = [row EXCEPT ![t] = None]
         /\ proj' = [proj EXCEPT ![t] = None]
         /\ sync' = [sync EXCEPT ![t] = None]
    /\ worker' = [worker EXCEPT ![w] = None]
    /\ UNCHANGED <<remote, call, late, edits, faults, history>>

-----------------------------------------------------------------------------
(* Time *)

\* The backoff or the ten-minute interval ends.
ComesDue(t) ==
    /\ job[t] # None /\ ~job[t].due
    /\ job' = [job EXCEPT ![t].due = TRUE]
    /\ UNCHANGED <<row, sync, proj, remote, worker, call, late, edits, faults, history>>

\* The lease of a dead worker runs out.
LeaseExpires(t) ==
    /\ job[t] # None /\ Leased(t) /\ ~Running(job[t].holder, t)
    /\ job' = [job EXCEPT ![t].live = FALSE]
    /\ UNCHANGED <<row, sync, proj, remote, worker, call, late, edits, faults, history>>

\* The lease of a worker that is still waiting for the platform runs out.
LeaseOverruns(t) ==
    /\ job[t] # None /\ Leased(t) /\ Running(job[t].holder, t)
    /\ job' = [job EXCEPT ![t].live = FALSE]
    /\ Faulted
    /\ UNCHANGED <<row, sync, proj, remote, worker, call, late, edits, history>>

-----------------------------------------------------------------------------

Writer(t) == Create(t) \/ SetEnabled(t) \/ UpdateTime(t) \/ CascadeDelete(t)
CallerStep(c) ==
    \/ \E t \in Task : PauseFirst(c, t) \/ RequestSync(c, t) \/ Scan(c, t)
    \/ EnqueueOwed(c) \/ CallerCrash(c)
Complete(w) ==
    LateResult(w) \/ StaleResult(w) \/ FailedResult(w) \/ SyncedResult(w) \/ DeletedResult(w)
WorkerStep(w) ==
    \/ \E t \in Task : Begin(w, t)
    \/ Dispatched(w) \/ DispatchFails(w) \/ WorkerCrash(w) \/ Complete(w)
TimePasses(t) == ComesDue(t) \/ LeaseExpires(t) \/ LeaseOverruns(t)

Next ==
    \/ \E t \in Task : Writer(t) \/ TimePasses(t)
    \/ \E c \in Caller : CallerStep(c)
    \/ \E w \in Worker : WorkerStep(w)
    \/ \E l \in late : Land(l)

Spec == Init /\ [][Next]_vars

\* Fairness: time passes, a running call answers and completes, a detached
\* write lands, the wake-up loop keeps scanning, and the oldest due job is taken
\* first (order_by next_attempt_at), so no due job is passed over for ever.
\* Business edits and faults are owed to nobody.
Fairness ==
    /\ \A t \in Task :
         /\ WF_vars(ComesDue(t)) /\ WF_vars(LeaseExpires(t))
         /\ SF_vars(\E w \in Worker : Begin(w, t))
         /\ SF_vars(\E c \in Caller : Scan(c, t))
    /\ \A c \in Caller : WF_vars(EnqueueOwed(c))
    /\ \A w \in Worker : WF_vars(Dispatched(w)) /\ WF_vars(Complete(w))
    /\ WF_vars(\E l \in late : Land(l))

FairSpec == Spec /\ Fairness

-----------------------------------------------------------------------------
(* Properties *)

\* What claim() and _active() in executions.py require of a task before they
\* hand out an execution.
Executable(t) ==
    /\ Exists(t) /\ row[t].enabled
    /\ proj[t] # None /\ proj[t].enabled /\ proj[t].time = row[t].time
    /\ sync[t] = "synced"

\* A task is executable only when the platform has acknowledged the very
\* revision the job is at, and that revision asks for the row as it stands:
\* neither an obsolete completion nor an edit in flight may leave the gate open.
GateConfirmed ==
    \A t \in Task : Executable(t) =>
        /\ job[t] # None /\ ~job[t].deleting
        /\ job[t].desired = row[t]
        /\ job[t].revision \in acked[t]

\* A delete intent is irrevocable (docs/schedule-queue.md:11): no edit, scan or
\* completion that follows withdraws it, enables the row again or asks for a
\* trigger, including an edit that slipped in between the pause and the request.
DeletionSticks ==
    [][\A t \in Task : Deleting(t) =>
          /\ Deleting(t)'
          /\ ~job'[t].desired.enabled
          /\ Exists(t)' => ~row'[t].enabled]_vars

\* Unless the last write overlapped with one that outlived its lease, what
\* the platform holds is what was published: the job's trigger for a task
\* reported as synced, none for a task reported as deleted.
AgreementUnlessOverlapped ==
    \A t \in Task : ~overlapped[t] =>
        /\ Exists(t) /\ sync[t] = "synced" => remote[t] = Trigger(job[t].desired)
        /\ ~Exists(t) /\ Deleting(t) /\ sync[t] = None => remote[t] = None

\* docs/schedule-queue.md:9 says that on noticing a late completion the execution
\* projection is closed and the task is checked again at once.  At the least:
\* while the platform holds another trigger than the job asks for and no check
\* began since the late completion, the projection is shut or a check is due.
LateResultForcesRecheck ==
    \A t \in Task :
        suspect[t] /\ Exists(t) /\ remote[t] # Trigger(job[t].desired) =>
            job[t].due \/ ~proj[t].enabled

\* Where everything is in step.
Settled(t) ==
    IF Exists(t)
    THEN /\ sync[t] = "synced" /\ proj[t] = row[t]
         /\ remote[t] = Trigger(row[t])
    ELSE remote[t] = None /\ proj[t] = None

\* Once edits and faults end, the row, the projection, the reported state and
\* the platform agree for good, whatever was lost, late or overtaken before.
Converges == \A t \in Task : <>[]Settled(t)
=============================================================================
