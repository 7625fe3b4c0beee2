-------------------------- MODULE Scheduling_proofs --------------------------
(***************************************************************************)
(* Proofs about scheduling, for any sets of tasks, times, workers and      *)
(* callers and any bounds on edits and faults: the queue of a task         *)
(* (ScheduleQueue), the back ends behind its remote call (TriggerBackends) *)
(* and the generic task table (ScheduledTasks).                            *)
(***************************************************************************)
EXTENDS Scheduling, FiniteSetTheorems, WellFoundedInduction, TLAPS

-----------------------------------------------------------------------------
(* Records: what the updates of a row, a job and an attempt preserve. *)

LEMMA RowUpdate ==
    ASSUME NEW r \in Row
    PROVE  /\ r.enabled \in BOOLEAN /\ r.time \in SendTime /\ r # None
           /\ \A e \in BOOLEAN : [r EXCEPT !.enabled = e] \in Row
           /\ \A s \in SendTime : [r EXCEPT !.time = s] \in Row
BY NoneAssumption DEF Row

LEMMA RowMade ==
    ASSUME NEW e \in BOOLEAN, NEW s \in SendTime
    PROVE  [enabled |-> e, time |-> s] \in Row
BY DEF Row

LEMMA JobFields ==
    ASSUME NEW j \in ScheduleJob
    PROVE  /\ j.revision \in Nat /\ j.desired \in Row /\ j.deleting \in BOOLEAN
           /\ j.holder \in Worker \union {None} /\ j.live \in BOOLEAN
           /\ j.due \in BOOLEAN /\ j # None
BY NoneAssumption DEF ScheduleJob

LEMMA JobTimes ==
    ASSUME NEW j \in ScheduleJob, NEW b \in BOOLEAN
    PROVE  /\ [j EXCEPT !.due = b] \in ScheduleJob
           /\ [j EXCEPT !.live = b] \in ScheduleJob
           /\ Released(j, b) \in ScheduleJob
BY DEF ScheduleJob, Released

LEMMA JobDrawn ==
    ASSUME NEW j \in ScheduleJob, NEW w \in Worker
    PROVE  Drawn(j, w) \in ScheduleJob
BY DEF ScheduleJob, Drawn

LEMMA JobOrphaned ==
    ASSUME NEW j \in ScheduleJob
    PROVE  Orphaned(j) \in ScheduleJob
<1>1. j.revision + 1 \in Nat
  <2>1. j.revision \in Nat
    BY JobFields
  <2>2. QED BY <2>1
<1>2. [j.desired EXCEPT !.enabled = FALSE] \in Row
  BY JobFields, RowUpdate
<1>3. QED BY <1>1, <1>2, Zenon DEF ScheduleJob, Orphaned

LEMMA JobEnqueued ==
    ASSUME NEW j \in ScheduleJob \union {None}, NEW r \in Row, NEW d \in BOOLEAN
    PROVE  Enqueued(j, r, d) \in ScheduleJob
<1>1. CASE j = None
  <2>1. 1 \in Nat
    OBVIOUS
  <2>2. QED BY <1>1, <2>1, Zenon DEF ScheduleJob, Enqueued
<1>2. CASE j # None
  <2>1. j.revision \in Nat
    BY <1>2, JobFields
  <2>2. j.revision + 1 \in Nat
    BY <2>1
  <2>3. QED BY <1>2, <2>2, Zenon DEF ScheduleJob, Enqueued
<1>3. QED BY <1>1, <1>2

LEMMA EnqueuedFields ==
    ASSUME NEW j \in ScheduleJob \union {None}, NEW r \in Row, NEW d \in BOOLEAN
    PROVE  Enqueued(j, r, d).desired = r /\ Enqueued(j, r, d).deleting = d
<1>1. CASE j = None
  BY <1>1, Zenon DEF Enqueued
<1>2. CASE j # None
  BY <1>2, Zenon DEF Enqueued, ScheduleJob
<1>3. QED BY <1>1, <1>2

LEMMA KeptFields ==
    ASSUME NEW j \in ScheduleJob, NEW b, NEW w
    PROVE  /\ [j EXCEPT !.due = b].revision = j.revision
           /\ [j EXCEPT !.due = b].desired = j.desired
           /\ [j EXCEPT !.due = b].deleting = j.deleting
           /\ [j EXCEPT !.live = b].revision = j.revision
           /\ [j EXCEPT !.live = b].desired = j.desired
           /\ [j EXCEPT !.live = b].deleting = j.deleting
           /\ Released(j, b).revision = j.revision
           /\ Released(j, b).desired = j.desired
           /\ Released(j, b).deleting = j.deleting
           /\ Drawn(j, w).revision = j.revision
           /\ Drawn(j, w).desired = j.desired
           /\ Drawn(j, w).deleting = j.deleting
BY DEF ScheduleJob, Released, Drawn

LEMMA OrphanedFields ==
    ASSUME NEW j \in ScheduleJob
    PROVE  Orphaned(j).deleting /\ ~Orphaned(j).desired.enabled
<1>1. j.desired \in Row
  BY JobFields
<1>2. ~[j.desired EXCEPT !.enabled = FALSE].enabled
  BY <1>1 DEF Row
<1>3. Orphaned(j).deleting = TRUE /\ Orphaned(j).desired = [j.desired EXCEPT !.enabled = FALSE]
  BY Zenon DEF ScheduleJob, Orphaned
<1>4. QED BY <1>2, <1>3

LEMMA GatedType ==
    ASSUME NEW p \in Row \union {None}, NEW e \in BOOLEAN
    PROVE  Gated(p, e) \in Row \union {None}
BY RowUpdate DEF Gated

LEMMA AttemptFields ==
    ASSUME NEW a \in Attempt
    PROVE  /\ a.task \in Task /\ a.revision \in Nat /\ a.desired \in Row
           /\ a.deleting \in BOOLEAN /\ a # None
           /\ \A s \in {"calling", "ok", "failed"} : [a EXCEPT !.state = s] \in Attempt
BY NoneAssumption DEF Attempt

LEMMA AttemptMade ==
    ASSUME NEW j \in ScheduleJob, NEW t \in Task
    PROVE  Snapshot(t, j) \in Attempt
BY JobFields, Zenon DEF Attempt, Snapshot

LEMMA TriggerType ==
    ASSUME NEW d \in Row
    PROVE  Trigger(d) \in SendTime \union {None}
BY RowUpdate DEF Trigger

LEMMA Counting ==
    ASSUME edits \in Nat, faults \in Nat
    PROVE  /\ Edited => edits' \in Nat
           /\ Faulted => faults' \in Nat
BY DEF Edited, Faulted

-----------------------------------------------------------------------------
(* Type correctness *)

LEMMA EnqueueTypes ==
    ASSUME TypeOK, NEW t \in Task, NEW r \in Row, NEW d \in BOOLEAN, Enqueue(t, r, d)
    PROVE  /\ row' \in [Task -> Row \union {None}]
           /\ job' \in [Task -> ScheduleJob \union {None}]
           /\ sync' \in [Task -> {"pending", "synced", "error", None}]
           /\ proj' \in [Task -> Row \union {None}]
<1> DEFINE deleting == Deleting(t) \/ d
           desired == [r EXCEPT !.enabled = @ /\ ~deleting]
<1>1. deleting \in BOOLEAN
  OBVIOUS
<1>2. desired \in Row
  <2>1. (r.enabled /\ ~deleting) \in BOOLEAN
    OBVIOUS
  <2>2. QED BY <2>1, RowUpdate
<1>3. [enabled |-> FALSE, time |-> r.time] \in Row
  BY RowMade, RowUpdate
<1>4. row' = [row EXCEPT ![t] = desired] /\ proj' = [proj EXCEPT ![t] = [enabled |-> FALSE, time |-> r.time]]
  BY DEF Enqueue
<1>5. row' \in [Task -> Row \union {None}] /\ proj' \in [Task -> Row \union {None}]
  BY <1>2, <1>3, <1>4, Zenon DEF TypeOK
<1>6. sync' \in [Task -> {"pending", "synced", "error", None}]
  BY DEF TypeOK, Enqueue
<1>7. job' \in [Task -> ScheduleJob \union {None}]
  <2>1. job' = [job EXCEPT ![t] = Enqueued(job[t], desired, deleting)]
    BY DEF Enqueue
  <2>2. Enqueued(job[t], desired, deleting) \in ScheduleJob
    BY <1>1, <1>2, JobEnqueued DEF TypeOK
  <2>3. QED BY <2>1, <2>2, Zenon DEF TypeOK
<1>8. QED BY <1>5, <1>6, <1>7

LEMMA TypeInit == Init => TypeOK
BY BoundsAssumption DEF Init, TypeOK

\* A running call works on a job that exists; jobs are never removed.
WorkHasJob == \A w \in Worker : worker[w] # None => job[worker[w].task] # None

LEMMA TypeNext == TypeOK /\ WorkHasJob /\ [Next]_vars => TypeOK'
<1> SUFFICES ASSUME TypeOK, WorkHasJob, [Next]_vars PROVE TypeOK'
  OBVIOUS
<1> DEFINE Jobs == [Task -> ScheduleJob \union {None}]
           Rows == [Task -> Row \union {None}]
           Attempts == [Worker -> Attempt \union {None}]
<1>1. ASSUME NEW t \in Task, Writer(t) PROVE TypeOK'
  <2>1. CASE Create(t)
    <3>1. PICK s \in SendTime : Enqueue(t, [enabled |-> TRUE, time |-> s], FALSE)
      BY <2>1 DEF Create
    <3>2. [enabled |-> TRUE, time |-> s] \in Row
      BY RowMade
    <3>3. QED
      BY <2>1, <3>1, <3>2, EnqueueTypes, Counting DEF Create, TypeOK, history
  <2>2. CASE SetEnabled(t)
    <3>1. PICK e \in BOOLEAN : Enqueue(t, [row[t] EXCEPT !.enabled = e], FALSE)
      BY <2>2 DEF SetEnabled
    <3>2. [row[t] EXCEPT !.enabled = e] \in Row
      BY <2>2, RowUpdate DEF SetEnabled, Exists, TypeOK
    <3>3. QED
      BY <2>2, <3>1, <3>2, EnqueueTypes, Counting DEF SetEnabled, TypeOK, history
  <2>3. CASE UpdateTime(t)
    <3>1. PICK s \in SendTime : Enqueue(t, [row[t] EXCEPT !.time = s], FALSE)
      BY <2>3 DEF UpdateTime
    <3>2. [row[t] EXCEPT !.time = s] \in Row
      BY <2>3, RowUpdate DEF UpdateTime, Exists, TypeOK
    <3>3. QED
      BY <2>3, <3>1, <3>2, EnqueueTypes, Counting DEF UpdateTime, TypeOK, history
  <2>4. CASE CascadeDelete(t)
    BY <2>4, Counting DEF CascadeDelete, TypeOK, history
  <2>5. QED BY <1>1, <2>1, <2>2, <2>3, <2>4 DEF Writer
<1>2. ASSUME NEW t \in Task, TimePasses(t) PROVE TypeOK'
  <2>1. job[t] \in ScheduleJob
    BY <1>2 DEF TimePasses, ComesDue, LeaseExpires, LeaseOverruns, TypeOK
  <2>2. [job[t] EXCEPT !.due = TRUE] \in ScheduleJob
    BY <2>1, JobTimes
  <2>3. [job[t] EXCEPT !.live = FALSE] \in ScheduleJob
    BY <2>1, JobTimes
  <2>4. PICK j \in ScheduleJob : job' = [job EXCEPT ![t] = j]
    <3>1. CASE ComesDue(t)
      BY <2>2, <3>1, Zenon DEF ComesDue
    <3>2. CASE LeaseExpires(t)
      BY <2>3, <3>2, Zenon DEF LeaseExpires
    <3>3. CASE LeaseOverruns(t)
      BY <2>3, <3>3, Zenon DEF LeaseOverruns
    <3>4. QED BY <1>2, <3>1, <3>2, <3>3 DEF TimePasses
  <2>5. job' \in Jobs
    BY <2>4, Zenon DEF TypeOK
  <2>6. QED
    BY <1>2, <2>5, Counting
    DEF TimePasses, ComesDue, LeaseExpires, LeaseOverruns, TypeOK, history
<1>3. ASSUME NEW c \in Caller, CallerStep(c) PROVE TypeOK'
  <2>1. ASSUME NEW t \in Task, PauseFirst(c, t) PROVE TypeOK'
    <3>1. [row[t] EXCEPT !.enabled = FALSE] \in Row
      BY <2>1, RowUpdate DEF PauseFirst, Exists, TypeOK
    <3>2. row' \in Rows
      BY <2>1, <3>1, Zenon DEF PauseFirst, TypeOK
    <3>3. call' \in [Caller -> [task : Task, delete : BOOLEAN] \union {None}]
      BY <2>1 DEF PauseFirst, TypeOK
    <3>4. QED BY <2>1, <3>2, <3>3, Counting DEF PauseFirst, TypeOK, history
  <2>2. ASSUME NEW t \in Task, RequestSync(c, t) \/ Scan(c, t) PROVE TypeOK'
    <3>1. call' \in [Caller -> [task : Task, delete : BOOLEAN] \union {None}]
      <4>1. call' = [call EXCEPT ![c] = [task |-> t, delete |-> FALSE]]
        BY <2>2 DEF RequestSync, Scan
      <4>2. QED BY <4>1 DEF TypeOK
    <3>2. QED BY <2>2, <3>1, Counting DEF RequestSync, Scan, TypeOK, history
  <2>3. CASE EnqueueOwed(c)
    <3>1. call[c].task \in Task /\ call[c].delete \in BOOLEAN
      BY <2>3 DEF EnqueueOwed, TypeOK
    <3>2. call' \in [Caller -> [task : Task, delete : BOOLEAN] \union {None}]
      BY <2>3 DEF EnqueueOwed, TypeOK
    <3>3. CASE Exists(call[c].task)
      <4>1. Enqueue(call[c].task, row[call[c].task], call[c].delete)
        BY <2>3, <3>3 DEF EnqueueOwed
      <4>2. row[call[c].task] \in Row
        BY <3>1, <3>3 DEF Exists, TypeOK
      <4>3. QED
        BY <2>3, <3>1, <3>2, <4>1, <4>2, EnqueueTypes DEF EnqueueOwed, TypeOK, history
    <3>4. CASE ~Exists(call[c].task)
      BY <2>3, <3>2, <3>4 DEF EnqueueOwed, TypeOK, history
    <3>5. QED BY <3>3, <3>4
  <2>4. CASE CallerCrash(c)
    <3>1. call' \in [Caller -> [task : Task, delete : BOOLEAN] \union {None}]
      BY <2>4 DEF CallerCrash, TypeOK
    <3>2. QED BY <2>4, <3>1, Counting DEF CallerCrash, TypeOK, history
  <2>5. QED BY <1>3, <2>1, <2>2, <2>3, <2>4 DEF CallerStep
<1>4. ASSUME NEW w \in Worker, WorkerStep(w) PROVE TypeOK'
  <2>1. ASSUME NEW t \in Task, Begin(w, t) PROVE TypeOK'
    <3> DEFINE base == IF Exists(t) \/ job[t].deleting THEN job[t] ELSE Orphaned(job[t])
               taken == Drawn(base, w)
    <3>1. job[t] \in ScheduleJob
      BY <2>1 DEF Begin, TypeOK
    <3>2. base \in ScheduleJob
      BY <3>1, JobOrphaned
    <3>3. taken \in ScheduleJob
      BY <3>2, JobDrawn
    <3>4. Snapshot(t, taken) \in Attempt
      BY <3>3, AttemptMade
    <3>5. job' = [job EXCEPT ![t] = taken] /\ worker' = [worker EXCEPT ![w] = Snapshot(t, taken)]
      BY <2>1 DEF Begin
    <3>6. job' \in Jobs /\ worker' \in Attempts
      BY <3>3, <3>4, <3>5, Zenon DEF TypeOK
    <3>7. overlapped' \in [Task -> BOOLEAN] /\ suspect' \in [Task -> BOOLEAN]
      BY <2>1, Zenon DEF Begin, TypeOK
    <3>8. QED BY <2>1, <3>6, <3>7 DEF Begin, TypeOK
  <2>2. ASSUME worker[w] # None PROVE
          /\ worker[w] \in Attempt /\ worker[w].task \in Task
          /\ \A s \in {"calling", "ok", "failed"} : [worker[w] EXCEPT !.state = s] \in Attempt
          /\ Trigger(worker[w].desired) \in SendTime \union {None}
          /\ worker[w].revision \in Nat
    BY <2>2, AttemptFields, TriggerType DEF TypeOK
  <2>3. CASE Dispatched(w)
    <3>1. worker[w] # None
      BY <2>3 DEF Dispatched
    <3>2. worker' \in Attempts
      BY <2>2, <2>3, <3>1, Zenon DEF Dispatched, TypeOK
    <3>3. remote' \in [Task -> SendTime \union {None}]
      BY <2>2, <2>3, <3>1, Zenon DEF Dispatched, TypeOK
    <3>4. acked' \in [Task -> SUBSET Nat]
      BY <2>2, <2>3, <3>1 DEF Dispatched, TypeOK
    <3>5. overlapped' \in [Task -> BOOLEAN]
      BY <2>2, <2>3, <3>1, Zenon DEF Dispatched, TypeOK
    <3>6. QED BY <2>3, <3>2, <3>3, <3>4, <3>5 DEF Dispatched, TypeOK
  <2>4. ASSUME worker[w] # None
        PROVE  Detached(w) \in [id : Nat, task : Task, write : SendTime \union {None}]
    BY <2>2, <2>4 DEF Detached, TypeOK
  <2>5. CASE DispatchFails(w)
    <3>1. worker[w] # None
      BY <2>5 DEF DispatchFails
    <3>2. worker' \in Attempts
      BY <2>2, <2>5, <3>1, Zenon DEF DispatchFails, TypeOK
    <3>3. late' \subseteq [id : Nat, task : Task, write : SendTime \union {None}]
      BY <2>4, <2>5, <3>1 DEF DispatchFails, TypeOK
    <3>4. QED BY <2>5, <3>2, <3>3, Counting DEF DispatchFails, TypeOK, history
  <2>6. CASE WorkerCrash(w)
    <3>1. worker' \in Attempts
      BY <2>6, Zenon DEF WorkerCrash, TypeOK
    <3>2. late' \subseteq [id : Nat, task : Task, write : SendTime \union {None}]
      BY <2>4, <2>6 DEF WorkerCrash, TypeOK
    <3>3. QED BY <2>6, <3>1, <3>2, Counting DEF WorkerCrash, TypeOK, history
  <2>7. ASSUME Complete(w) PROVE TypeOK'
    <3> DEFINE t == worker[w].task
    <3> HIDE DEF t
    <3>1. worker[w] # None
      BY <2>7 DEF Complete, LateResult, StaleResult, FailedResult,
                  SyncedResult, DeletedResult, Answered
    <3>2. t \in Task /\ job[t] \in ScheduleJob
      BY <2>2, <3>1 DEF t, WorkHasJob, TypeOK
    <3>3. /\ [job[t] EXCEPT !.due = TRUE] \in ScheduleJob
          /\ \A b \in BOOLEAN : Released(job[t], b) \in ScheduleJob
      BY <3>2, JobTimes
    <3>4. \A e \in BOOLEAN : Gated(proj[t], e) \in Row \union {None}
      BY <3>2, GatedType DEF TypeOK
    <3>5. Exists(t) => row[t].enabled \in BOOLEAN
      BY <3>2, RowUpdate DEF Exists, TypeOK
    <3>6. worker' \in Attempts
      BY <2>7, Zenon DEF Complete, LateResult, StaleResult, FailedResult,
                         SyncedResult, DeletedResult, TypeOK
    <3>7. CASE LateResult(w)
      <4>1. job' \in Jobs /\ proj' \in Rows
        BY <3>2, <3>3, <3>4, <3>7, Zenon DEF LateResult, TypeOK, t
      <4>2. sync' \in [Task -> {"pending", "synced", "error", None}]
        BY <3>2, <3>7 DEF LateResult, TypeOK, t
      <4>3. suspect' \in [Task -> BOOLEAN]
        BY <3>2, <3>7, Zenon DEF LateResult, TypeOK, t
      <4>4. QED BY <3>6, <3>7, <4>1, <4>2, <4>3 DEF LateResult, TypeOK
    <3>8. CASE StaleResult(w)
      <4>1. job' \in Jobs
        BY <3>2, <3>3, <3>8, Zenon DEF StaleResult, TypeOK, t
      <4>2. sync' \in [Task -> {"pending", "synced", "error", None}]
        BY <3>2, <3>8 DEF StaleResult, TypeOK, t
      <4>3. QED BY <3>6, <3>8, <4>1, <4>2 DEF StaleResult, TypeOK, history
    <3>9. CASE FailedResult(w)
      <4>1. job' \in Jobs /\ proj' \in Rows
        BY <3>2, <3>3, <3>4, <3>9, Zenon DEF FailedResult, TypeOK, t
      <4>2. sync' \in [Task -> {"pending", "synced", "error", None}]
        BY <3>2, <3>9 DEF FailedResult, TypeOK, t
      <4>3. QED BY <3>6, <3>9, <4>1, <4>2 DEF FailedResult, TypeOK, history
    <3>10. CASE SyncedResult(w)
      <4>1. job' \in Jobs
        BY <3>2, <3>3, <3>10, Zenon DEF SyncedResult, TypeOK, t
      <4>2. proj' \in Rows
        BY <3>2, <3>4, <3>5, <3>10, Zenon DEF SyncedResult, TypeOK, t
      <4>3. sync' \in [Task -> {"pending", "synced", "error", None}]
        BY <3>2, <3>10 DEF SyncedResult, TypeOK, t
      <4>4. QED BY <3>6, <3>10, <4>1, <4>2, <4>3 DEF SyncedResult, TypeOK, history
    <3>11. CASE DeletedResult(w)
      <4>1. job' \in Jobs /\ proj' \in Rows /\ row' \in Rows
        BY <3>2, <3>3, <3>11, Zenon DEF DeletedResult, TypeOK, t
      <4>2. sync' \in [Task -> {"pending", "synced", "error", None}]
        BY <3>2, <3>11 DEF DeletedResult, TypeOK, t
      <4>3. QED BY <3>6, <3>11, <4>1, <4>2 DEF DeletedResult, TypeOK, history
    <3>12. QED BY <2>7, <3>7, <3>8, <3>9, <3>10, <3>11 DEF Complete
  <2>8. QED BY <1>4, <2>1, <2>3, <2>5, <2>6, <2>7 DEF WorkerStep
<1>5. ASSUME NEW l \in late, Land(l) PROVE TypeOK'
  <2>1. l.task \in Task /\ l.write \in SendTime \union {None}
    BY DEF TypeOK
  <2>2. remote' \in [Task -> SendTime \union {None}]
    BY <1>5, <2>1 DEF Land, TypeOK
  <2>3. QED BY <1>5, <2>2 DEF Land, TypeOK, history
<1>6. CASE UNCHANGED vars
  BY <1>6 DEF vars, TypeOK
<1>7. QED BY <1>1, <1>2, <1>3, <1>4, <1>5, <1>6 DEF Next

-----------------------------------------------------------------------------
(* The inductive invariant *)

\* Every row has a job, and an enabled row is what its job asks for: whoever
\* enables a row or moves its time enqueues in the same transaction.
RowHasJob == \A t \in Task : Exists(t) => job[t] # None
Authority == \A t \in Task : Exists(t) /\ row[t].enabled => job[t].desired = row[t]

\* A worker that heard success saw its revision acknowledged.
Acknowledged ==
    \A w \in Worker : worker[w] # None /\ worker[w].state = "ok" =>
        worker[w].revision \in acked[worker[w].task]

\* What is published as synced is an acknowledged revision.
Published ==
    \A t \in Task : Exists(t) /\ sync[t] = "synced" => job[t].revision \in acked[t]

DeletingPaused ==
    \A t \in Task : Deleting(t) =>
        /\ ~job[t].desired.enabled
        /\ Exists(t) => ~row[t].enabled

IInv ==
    /\ TypeOK /\ WorkHasJob /\ RowHasJob /\ Authority
    /\ Acknowledged /\ Published /\ DeletingPaused

\* What a step does to one task: an enqueue replaces row and job together ...
Refreshed(u) ==
    \E q \in Row, d \in BOOLEAN :
        /\ row'[u] = q /\ sync'[u] = "pending"
        /\ job'[u] # None /\ job'[u].desired = q /\ job'[u].deleting = d
        /\ Deleting(u) => d
        /\ d => ~q.enabled

SameIntent(u) ==
    /\ job'[u].revision = job[u].revision
    /\ job'[u].desired = job[u].desired
    /\ job'[u].deleting = job[u].deleting

\* ... and any other step at most pauses or removes the row, keeps what the job
\* asks for unless it turns an orphan into a deletion, and publishes only
\* acknowledged revisions.
Carried(u) ==
    /\ \/ row'[u] = None \/ row'[u] = row[u]
       \/ Exists(u) /\ row'[u] = [row[u] EXCEPT !.enabled = FALSE]
    /\ job[u] = None <=> job'[u] = None
    /\ job[u] # None =>
         \/ SameIntent(u)
         \/ row'[u] = None /\ job'[u].deleting /\ ~job'[u].desired.enabled
    /\ sync'[u] = "synced" /\ row'[u] # None =>
         \/ sync[u] = "synced" /\ row[u] # None
         \/ job'[u].revision \in acked[u]

LEMMA EnqueueRefreshes ==
    ASSUME TypeOK, NEW t \in Task, NEW r \in Row, NEW d \in BOOLEAN, Enqueue(t, r, d)
    PROVE  /\ Refreshed(t)
           /\ \A u \in Task \ {t} : row'[u] = row[u] /\ job'[u] = job[u] /\ sync'[u] = sync[u]
<1> DEFINE deleting == Deleting(t) \/ d
           q == [r EXCEPT !.enabled = @ /\ ~deleting]
<1>1. deleting \in BOOLEAN /\ (r.enabled /\ ~deleting) \in BOOLEAN
  OBVIOUS
<1>2. q \in Row
  BY <1>1, RowUpdate
<1>3. deleting => ~q.enabled
  BY DEF Row
<1>4. /\ row' = [row EXCEPT ![t] = q] /\ sync' = [sync EXCEPT ![t] = "pending"]
      /\ job' = [job EXCEPT ![t] = Enqueued(job[t], q, deleting)]
  BY DEF Enqueue
<1> HIDE DEF q, deleting
<1>5. /\ row'[t] = q /\ sync'[t] = "pending" /\ job'[t] = Enqueued(job[t], q, deleting)
      /\ \A u \in Task \ {t} : row'[u] = row[u] /\ job'[u] = job[u] /\ sync'[u] = sync[u]
  BY <1>4 DEF TypeOK
<1>6. job[t] \in ScheduleJob \union {None}
  BY DEF TypeOK
<1>7. /\ job'[t] # None
      /\ job'[t].desired = q /\ job'[t].deleting = deleting
  <2>1. Enqueued(job[t], q, deleting) # None
    BY <1>1, <1>2, <1>6, JobEnqueued, JobFields, Zenon
  <2>2. QED BY <1>1, <1>2, <1>5, <1>6, <2>1, EnqueuedFields
<1>8. Refreshed(t)
  <2>1. Deleting(t) => deleting
    BY DEF deleting
  <2>2. QED BY <1>1, <1>2, <1>3, <1>5, <1>7, <2>1, Zenon DEF Refreshed
<1>9. QED BY <1>5, <1>8

\* Every step treats every task in one of the two ways, never withdraws an
\* acknowledgement, and keeps the running calls' own part of the invariant.
LEMMA StepShape ==
    ASSUME TypeOK, WorkHasJob, Acknowledged, [Next]_vars
    PROVE  /\ \A u \in Task : Refreshed(u) \/ Carried(u)
           /\ \A u \in Task : acked[u] \subseteq acked'[u]
           /\ WorkHasJob' /\ Acknowledged'
<1> DEFINE Quiet(u) == row'[u] = row[u] /\ job'[u] = job[u] /\ sync'[u] = sync[u]
           Goal == /\ \A u \in Task : Refreshed(u) \/ Carried(u)
                   /\ \A u \in Task : acked[u] \subseteq acked'[u]
                   /\ WorkHasJob' /\ Acknowledged'
<1>1. ASSUME NEW u \in Task, Quiet(u) PROVE Carried(u)
  BY <1>1, Zenon DEF Carried, SameIntent
<1>2. ASSUME UNCHANGED <<worker, acked>>, \A u \in Task : Refreshed(u) \/ Carried(u)
      PROVE  Goal
  <2>1. \A u \in Task : job[u] # None => job'[u] # None
    BY <1>2, Zenon DEF Refreshed, Carried
  <2>2. \A w \in Worker : worker[w] # None => worker[w].task \in Task
    BY AttemptFields DEF TypeOK
  <2>3. WorkHasJob'
    BY <1>2, <2>1, <2>2, Zenon DEF WorkHasJob
  <2>4. Acknowledged'
    BY <1>2, Zenon DEF Acknowledged
  <2>5. QED BY <1>2, <2>3, <2>4
<1> HIDE DEF Quiet
<1>3. ASSUME NEW t \in Task, NEW r \in Row, NEW d \in BOOLEAN, Enqueue(t, r, d),
             UNCHANGED <<worker, acked>>
      PROVE  Goal
  <2>1. \A u \in Task \ {t} : Quiet(u)
    BY <1>3, EnqueueRefreshes DEF Quiet
  <2>2. Refreshed(t)
    BY <1>3, EnqueueRefreshes
  <2>3. QED BY <1>1, <1>2, <1>3, <2>1, <2>2
<1>4. ASSUME NEW t \in Task, Writer(t) PROVE Goal
  <2>1. CASE Create(t)
    <3>1. PICK s \in SendTime : Enqueue(t, [enabled |-> TRUE, time |-> s], FALSE)
      BY <2>1 DEF Create
    <3>2. [enabled |-> TRUE, time |-> s] \in Row
      BY RowMade
    <3>3. QED BY <1>3, <2>1, <3>1, <3>2 DEF Create, history
  <2>2. CASE SetEnabled(t)
    <3>1. PICK e \in BOOLEAN : Enqueue(t, [row[t] EXCEPT !.enabled = e], FALSE)
      BY <2>2 DEF SetEnabled
    <3>2. [row[t] EXCEPT !.enabled = e] \in Row
      BY <2>2, RowUpdate DEF SetEnabled, Exists, TypeOK
    <3>3. QED BY <1>3, <2>2, <3>1, <3>2 DEF SetEnabled, history
  <2>3. CASE UpdateTime(t)
    <3>1. PICK s \in SendTime : Enqueue(t, [row[t] EXCEPT !.time = s], FALSE)
      BY <2>3 DEF UpdateTime
    <3>2. [row[t] EXCEPT !.time = s] \in Row
      BY <2>3, RowUpdate DEF UpdateTime, Exists, TypeOK
    <3>3. QED BY <1>3, <2>3, <3>1, <3>2 DEF UpdateTime, history
  <2>4. CASE CascadeDelete(t)
    <3>1. \A u \in Task \ {t} : Quiet(u)
      BY <2>4 DEF CascadeDelete, TypeOK, Quiet
    <3>2. row'[t] = None /\ job'[t] = job[t]
      BY <2>4 DEF CascadeDelete, TypeOK
    <3>3. Carried(t)
      BY <3>2, Zenon DEF Carried, SameIntent
    <3>4. QED BY <1>1, <1>2, <2>4, <3>1, <3>3 DEF CascadeDelete, history
  <2>5. QED BY <1>4, <2>1, <2>2, <2>3, <2>4 DEF Writer
<1>5. ASSUME NEW t \in Task, NEW j, job' = [job EXCEPT ![t] = j], j # None,
             job[t] \in ScheduleJob, row' = row,
             sync'[t] = "synced" /\ Exists(t) => sync[t] = "synced" \/ j.revision \in acked[t],
             \A u \in Task \ {t} : sync'[u] = sync[u],
             j.revision = job[t].revision, j.desired = job[t].desired,
             j.deleting = job[t].deleting
      PROVE  \A u \in Task : Carried(u)
  <2>1. \A u \in Task \ {t} : Quiet(u)
    BY <1>5 DEF Quiet, TypeOK
  <2>2. job'[t] = j
    BY <1>5 DEF TypeOK
  <2>3. job[t] # None
    BY <1>5, JobFields
  <2>4. Carried(t)
    BY <1>5, <2>2, <2>3, Zenon DEF Carried, SameIntent, Exists
  <2>5. QED BY <1>1, <2>1, <2>4
<1>6. ASSUME NEW t \in Task, TimePasses(t) PROVE Goal
  <2>1. job[t] \in ScheduleJob
    BY <1>6 DEF TimePasses, ComesDue, LeaseExpires, LeaseOverruns, TypeOK
  <2>2. [job[t] EXCEPT !.due = TRUE] # None /\ [job[t] EXCEPT !.live = FALSE] # None
    BY <2>1, JobTimes, JobFields
  <2>3. CASE ComesDue(t)
    <3>1. job' = [job EXCEPT ![t] = [job[t] EXCEPT !.due = TRUE]] /\ UNCHANGED <<row, sync, worker, acked>>
      BY <2>3 DEF ComesDue, history
    <3>2. QED BY <1>2, <1>5, <2>1, <2>2, <3>1, KeptFields
  <2>4. CASE LeaseExpires(t) \/ LeaseOverruns(t)
    <3>1. job' = [job EXCEPT ![t] = [job[t] EXCEPT !.live = FALSE]] /\ UNCHANGED <<row, sync, worker, acked>>
      BY <2>4 DEF LeaseExpires, LeaseOverruns, history
    <3>2. QED BY <1>2, <1>5, <2>1, <2>2, <3>1, KeptFields
  <2>5. QED BY <1>6, <2>3, <2>4 DEF TimePasses
<1>7. ASSUME NEW c \in Caller, CallerStep(c) PROVE Goal
  <2>1. ASSUME NEW t \in Task, PauseFirst(c, t) PROVE Goal
    <3>1. \A u \in Task \ {t} : Quiet(u)
      BY <2>1 DEF PauseFirst, TypeOK, Quiet
    <3>2. /\ row'[t] = [row[t] EXCEPT !.enabled = FALSE]
          /\ Exists(t) /\ job' = job /\ sync' = sync
      BY <2>1 DEF PauseFirst, TypeOK
    <3>3. Carried(t)
      BY <3>2, Zenon DEF Carried, SameIntent, Exists
    <3>4. QED BY <1>1, <1>2, <2>1, <3>1, <3>3 DEF PauseFirst, history
  <2>2. ASSUME UNCHANGED <<row, job, sync, worker, acked>> PROVE Goal
    <3>1. \A u \in Task : Quiet(u)
      BY <2>2 DEF Quiet
    <3>2. QED BY <1>1, <1>2, <2>2, <3>1
  <2>3. ASSUME NEW t \in Task, RequestSync(c, t) \/ Scan(c, t) PROVE Goal
    BY <2>2, <2>3 DEF RequestSync, Scan, history
  <2>4. CASE CallerCrash(c)
    BY <2>2, <2>4 DEF CallerCrash, history
  <2>5. CASE EnqueueOwed(c)
    <3>1. call[c].task \in Task /\ call[c].delete \in BOOLEAN
      BY <2>5 DEF EnqueueOwed, TypeOK
    <3>2. CASE Exists(call[c].task)
      <4>1. Enqueue(call[c].task, row[call[c].task], call[c].delete)
        BY <2>5, <3>2 DEF EnqueueOwed
      <4>2. row[call[c].task] \in Row
        BY <3>1, <3>2 DEF Exists, TypeOK
      <4>3. QED BY <1>3, <2>5, <3>1, <4>1, <4>2 DEF EnqueueOwed, history
    <3>3. CASE ~Exists(call[c].task)
      BY <2>2, <2>5, <3>3 DEF EnqueueOwed, history
    <3>4. QED BY <3>2, <3>3
  <2>6. QED BY <1>7, <2>1, <2>3, <2>4, <2>5 DEF CallerStep
<1>8. ASSUME NEW w \in Worker, WorkerStep(w) PROVE Goal
  <2>1. ASSUME NEW a, worker' = [worker EXCEPT ![w] = a],
               \/ a = None
               \/ job'[a.task] # None /\ (a.state = "ok" => a.revision \in acked'[a.task]),
               \A u \in Task : acked[u] \subseteq acked'[u],
               \A u \in Task : Carried(u)
        PROVE  Goal
    <3>1. \A u \in Task : job[u] # None => job'[u] # None
      BY <2>1, Zenon DEF Carried
    <3>2. \A v \in Worker : worker[v] # None => worker[v].task \in Task
      BY AttemptFields DEF TypeOK
    <3>3. worker'[w] = a /\ \A v \in Worker \ {w} : worker'[v] = worker[v]
      BY <2>1 DEF TypeOK
    <3>4. WorkHasJob'
      <4>1. ASSUME NEW v \in Worker, worker'[v] # None PROVE job'[worker'[v].task] # None
        BY <2>1, <3>1, <3>2, <3>3, <4>1, Zenon DEF WorkHasJob
      <4>2. QED BY <4>1, Zenon DEF WorkHasJob
    <3>5. Acknowledged'
      <4>1. ASSUME NEW v \in Worker, worker'[v] # None, worker'[v].state = "ok"
            PROVE  worker'[v].revision \in acked'[worker'[v].task]
        <5>1. CASE v = w
          BY <2>1, <3>3, <4>1, <5>1
        <5>2. CASE v # w
          BY <2>1, <3>2, <3>3, <4>1, <5>2 DEF Acknowledged
        <5>3. QED BY <5>1, <5>2
      <4>2. QED BY <4>1, Zenon DEF Acknowledged
    <3>6. QED BY <2>1, <3>4, <3>5
  <2>2. ASSUME worker[w] # None
        PROVE  /\ worker[w] \in Attempt /\ worker[w].task \in Task
               /\ job[worker[w].task] \in ScheduleJob
    BY <2>2, AttemptFields DEF TypeOK, WorkHasJob
  <2>3. ASSUME UNCHANGED <<row, job, sync>> PROVE \A u \in Task : Carried(u)
    BY <1>1, <2>3 DEF Quiet
  <2>4. ASSUME NEW t \in Task, Begin(w, t) PROVE Goal
    <3> DEFINE base == IF Exists(t) \/ job[t].deleting THEN job[t] ELSE Orphaned(job[t])
               taken == Drawn(base, w)
    <3>1. job[t] \in ScheduleJob
      BY <2>4 DEF Begin, TypeOK
    <3>2. base \in ScheduleJob
      BY <3>1, JobOrphaned
    <3>3. taken \in ScheduleJob /\ taken # None
      BY <3>2, JobDrawn, JobFields
    <3>4. /\ job' = [job EXCEPT ![t] = taken]
          /\ worker' = [worker EXCEPT ![w] = Snapshot(t, taken)]
          /\ UNCHANGED <<row, sync, acked>>
      BY <2>4 DEF Begin
    <3>5. \A u \in Task : Carried(u)
      <4>1. CASE Exists(t) \/ job[t].deleting
        <5>1. base = job[t]
          BY <4>1
        <5>2. /\ taken.revision = job[t].revision /\ taken.desired = job[t].desired
              /\ taken.deleting = job[t].deleting
          BY <3>1, <5>1, KeptFields
        <5>3. QED BY <1>5, <3>1, <3>3, <3>4, <5>2
      <4>2. CASE ~(Exists(t) \/ job[t].deleting)
        <5>1. base = Orphaned(job[t])
          BY <4>2
        <5>2. taken.deleting /\ ~taken.desired.enabled
          BY <3>1, <3>2, <5>1, OrphanedFields, KeptFields
        <5>3. \A u \in Task \ {t} : Quiet(u)
          BY <3>4 DEF Quiet, TypeOK
        <5>4. job'[t] = taken /\ job[t] # None /\ row'[t] = None /\ row[t] = None
          BY <3>1, <3>4, <4>2, JobFields DEF TypeOK, Exists
        <5> HIDE DEF taken, base
        <5>5. Carried(t)
          BY <3>3, <5>2, <5>4, Zenon DEF Carried
        <5>6. QED BY <1>1, <5>3, <5>5
      <4>3. QED BY <4>1, <4>2
    <3>6. Snapshot(t, taken).task = t /\ Snapshot(t, taken).state = "calling" /\ job'[t] # None
      BY <3>3, <3>4 DEF Snapshot, TypeOK
    <3> HIDE DEF taken, base
    <3>7. QED BY <2>1, <3>4, <3>5, <3>6
  <2>5. CASE Dispatched(w)
    <3> DEFINE t == worker[w].task
    <3> HIDE DEF t
    <3>1. worker[w] # None
      BY <2>5 DEF Dispatched
    <3>2. t \in Task /\ job[t] # None
      BY <2>2, <3>1, JobFields DEF t
    <3>3. acked' = [acked EXCEPT ![t] = acked[t] \union {worker[w].revision}]
      BY <2>5 DEF Dispatched, t
    <3>4. /\ worker[w].revision \in acked'[t]
          /\ \A u \in Task : acked[u] \subseteq acked'[u]
      BY <3>2, <3>3 DEF TypeOK
    <3>5. /\ worker' = [worker EXCEPT ![w] = [worker[w] EXCEPT !.state = "ok"]]
          /\ UNCHANGED <<row, job, sync>>
      BY <2>5 DEF Dispatched
    <3>6. /\ [worker[w] EXCEPT !.state = "ok"].task = t
          /\ [worker[w] EXCEPT !.state = "ok"].revision = worker[w].revision
      BY <2>2, <3>1, Zenon DEF Attempt, t
    <3>7. QED BY <2>1, <2>3, <3>2, <3>4, <3>5, <3>6
  <2>6. CASE DispatchFails(w)
    <3>1. worker[w] # None
      BY <2>6 DEF DispatchFails
    <3>2. /\ worker' = [worker EXCEPT ![w] = [worker[w] EXCEPT !.state = "failed"]]
          /\ UNCHANGED <<row, job, sync, acked>>
      BY <2>6 DEF DispatchFails, history
    <3>3. /\ [worker[w] EXCEPT !.state = "failed"].task = worker[w].task
          /\ [worker[w] EXCEPT !.state = "failed"].state = "failed"
      BY <2>2, <3>1, Zenon DEF Attempt
    <3>4. job'[worker[w].task] # None
      BY <2>2, <3>1, <3>2, JobFields
    <3>5. QED BY <2>1, <2>3, <3>2, <3>3, <3>4
  <2>7. CASE WorkerCrash(w)
    BY <2>1, <2>3, <2>7 DEF WorkerCrash, history
  <2>8. ASSUME Complete(w) PROVE Goal
    <3> DEFINE t == worker[w].task
    <3>1. /\ worker' = [worker EXCEPT ![w] = None] /\ acked' = acked /\ worker[w] # None
      BY <2>8 DEF Complete, LateResult, StaleResult, FailedResult, SyncedResult,
                  DeletedResult, Answered, history
    <3>2. t \in Task /\ job[t] \in ScheduleJob
      BY <2>2, <3>1
    <3>3. /\ [job[t] EXCEPT !.due = TRUE] # None
          /\ \A b \in BOOLEAN : Released(job[t], b) # None
      BY <3>2, JobTimes, JobFields
    <3>4. SUFFICES \A u \in Task : Carried(u)
      BY <2>1, <3>1
    <3>5. CASE LateResult(w)
      <4>1. /\ job' = [job EXCEPT ![t] = [job[t] EXCEPT !.due = TRUE]] /\ row' = row
            /\ sync' = [sync EXCEPT ![t] = IF Exists(t) THEN "pending" ELSE sync[t]]
        BY <3>5 DEF LateResult
      <4>2. /\ Exists(t) => sync'[t] # "synced"
            /\ \A u \in Task \ {t} : sync'[u] = sync[u]
        BY <3>2, <4>1 DEF TypeOK
      <4> HIDE DEF t
      <4>3. QED BY <1>5, <3>2, <3>3, <4>1, <4>2, KeptFields
    <3>6. CASE StaleResult(w)
      <4>1. /\ job' = [job EXCEPT ![t] = Released(job[t], TRUE)] /\ row' = row
            /\ sync' = [sync EXCEPT ![t] = IF Exists(t) THEN "pending" ELSE sync[t]]
        BY <3>6 DEF StaleResult
      <4>2. /\ Exists(t) => sync'[t] # "synced"
            /\ \A u \in Task \ {t} : sync'[u] = sync[u]
        BY <3>2, <4>1 DEF TypeOK
      <4> HIDE DEF t
      <4>3. QED BY <1>5, <3>2, <3>3, <4>1, <4>2, KeptFields
    <3>7. CASE FailedResult(w)
      <4>1. /\ job' = [job EXCEPT ![t] = Released(job[t], FALSE)] /\ row' = row
            /\ sync' = [sync EXCEPT ![t] = "error"]
        BY <3>7 DEF FailedResult
      <4>2. sync'[t] # "synced" /\ \A u \in Task \ {t} : sync'[u] = sync[u]
        BY <3>2, <4>1 DEF TypeOK
      <4> HIDE DEF t
      <4>3. QED BY <1>5, <3>2, <3>3, <4>1, <4>2, KeptFields
    <3>8. CASE SyncedResult(w)
      <4>1. /\ job' = [job EXCEPT ![t] = Released(job[t], FALSE)] /\ row' = row
            /\ ~Obsolete(w) /\ worker[w].state = "ok"
            /\ sync' = [sync EXCEPT ![t] = "synced"] \/ sync' = sync
        BY <3>8 DEF SyncedResult
      <4>2. \A u \in Task \ {t} : sync'[u] = sync[u]
        BY <3>2, <4>1 DEF TypeOK
      <4>3. Released(job[t], FALSE).revision = worker[w].revision
        BY <3>2, <4>1, KeptFields DEF Obsolete
      <4>4. worker[w].revision \in acked[t]
        BY <3>1, <4>1 DEF Acknowledged
      <4> HIDE DEF t
      <4>5. QED BY <1>5, <3>2, <3>3, <4>1, <4>2, <4>3, <4>4, KeptFields
    <3>9. CASE DeletedResult(w)
      <4>1. /\ job' = [job EXCEPT ![t] = Released(job[t], FALSE)]
            /\ row' = [row EXCEPT ![t] = None] /\ sync' = [sync EXCEPT ![t] = None]
        BY <3>9 DEF DeletedResult
      <4> HIDE DEF t
      <4>2. \A u \in Task \ {t} : Quiet(u)
        BY <4>1 DEF Quiet, TypeOK
      <4>3. row'[t] = None /\ job'[t] = Released(job[t], FALSE)
        BY <3>2, <4>1 DEF TypeOK
      <4>4. SameIntent(t)
        <5>1. /\ Released(job[t], FALSE).revision = job[t].revision
              /\ Released(job[t], FALSE).desired = job[t].desired
              /\ Released(job[t], FALSE).deleting = job[t].deleting
          BY <3>2, KeptFields
        <5>2. QED BY <4>3, <5>1, Zenon DEF SameIntent
      <4>5. Carried(t)
        BY <3>2, <3>3, <4>3, <4>4, JobFields, Zenon DEF Carried
      <4>6. QED BY <1>1, <4>2, <4>5
    <3>10. QED BY <2>8, <3>5, <3>6, <3>7, <3>8, <3>9 DEF Complete
  <2>9. QED BY <1>8, <2>4, <2>5, <2>6, <2>7, <2>8 DEF WorkerStep
<1>9. ASSUME NEW l \in late, Land(l) PROVE Goal
  <2>1. \A u \in Task : Quiet(u)
    BY <1>9 DEF Quiet, Land
  <2>2. QED BY <1>1, <1>2, <1>9, <2>1 DEF Land, history
<1>10. CASE UNCHANGED vars
  <2>1. \A u \in Task : Quiet(u)
    BY <1>10 DEF Quiet, vars
  <2>2. QED BY <1>1, <1>2, <1>10, <2>1 DEF vars
<1>11. QED BY <1>4, <1>6, <1>7, <1>8, <1>9, <1>10 DEF Next

LEMMA IInvInit == Init => IInv
BY TypeInit DEF Init, IInv, WorkHasJob, RowHasJob, Authority, Acknowledged,
                Published, DeletingPaused, Exists, Deleting

LEMMA IInvNext == IInv /\ [Next]_vars => IInv'
<1> SUFFICES ASSUME IInv, [Next]_vars PROVE IInv'
  OBVIOUS
<1>1. TypeOK' /\ WorkHasJob' /\ Acknowledged'
  BY TypeNext, StepShape DEF IInv
<1>2. ASSUME NEW t \in Task
      PROVE  /\ Exists(t)' => job'[t] # None
             /\ Exists(t)' /\ row'[t].enabled => job'[t].desired = row'[t]
             /\ Exists(t)' /\ sync'[t] = "synced" => job'[t].revision \in acked'[t]
             /\ Deleting(t)' => ~job'[t].desired.enabled /\ (Exists(t)' => ~row'[t].enabled)
  <2>1. acked[t] \subseteq acked'[t]
    BY StepShape DEF IInv
  <2>2. CASE Refreshed(t)
    BY <2>2 DEF Refreshed, Exists, Deleting
  <2>3. CASE Carried(t)
    <3>1. /\ Exists(t) => job[t] # None
          /\ Exists(t) /\ row[t].enabled => job[t].desired = row[t]
          /\ Exists(t) /\ sync[t] = "synced" => job[t].revision \in acked[t]
          /\ Deleting(t) => ~job[t].desired.enabled /\ (Exists(t) => ~row[t].enabled)
      BY DEF IInv, RowHasJob, Authority, Published, DeletingPaused
    <3>2. Exists(t) => ~[row[t] EXCEPT !.enabled = FALSE].enabled
      BY DEF IInv, TypeOK, Exists, Row
    <3>3. Exists(t)' => Exists(t) /\ (row'[t].enabled => row'[t] = row[t])
      BY <2>3, <3>2 DEF Carried, Exists
    <3>4. CASE job[t] = None
      BY <2>3, <3>1, <3>3, <3>4 DEF Carried, Exists, Deleting
    <3>5. CASE job[t] # None /\ SameIntent(t)
      BY <2>1, <2>3, <3>1, <3>3, <3>5 DEF Carried, SameIntent, Exists, Deleting
    <3>6. CASE row'[t] = None /\ job'[t].deleting /\ ~job'[t].desired.enabled
      BY <3>6 DEF Exists, Deleting
    <3>7. QED BY <2>3, <3>4, <3>5, <3>6 DEF Carried
  <2>4. QED BY <2>2, <2>3, StepShape DEF IInv
<1>3. QED BY <1>1, <1>2 DEF IInv, RowHasJob, Authority, Published, DeletingPaused

LEMMA Inductive == Init /\ [][Next]_vars => []IInv
BY IInvInit, IInvNext, PTL

-----------------------------------------------------------------------------
(* Agreement with the platform: a second invariant on top of the first *)

\* The task is reported as synced, or as deleted.
Reported(t) ==
    \/ Exists(t) /\ sync[t] = "synced"
    \/ ~Exists(t) /\ Deleting(t) /\ sync[t] = None

\* A running call has a snapshot of a revision the job has had, and of no other
\* desired state than the job's if that is still its revision.
SnapshotKnown(t) ==
    \A w \in Worker : Running(w, t) =>
        /\ worker[w].revision <= job[t].revision
        /\ worker[w].revision = job[t].revision =>
             worker[w].desired = job[t].desired /\ worker[w].deleting = job[t].deleting

\* An acknowledged call that nothing has overlapped holds the lease, is alone
\* with its task, and the platform has what it wrote.
OkIsAlone(t) ==
    \A w \in Worker : Running(w, t) /\ worker[w].state = "ok" /\ ~overlapped[t] =>
        /\ HoldsLease(w) /\ ~OutstandingBeside(w, t)
        /\ remote[t] = Trigger(worker[w].desired)

\* The lease of a reported task is held for its current revision.
HolderCurrent(t) ==
    \A w \in Worker : Running(w, t) /\ HoldsLease(w) /\ Reported(t) =>
        worker[w].revision = job[t].revision

\* What the platform has of a reported task that nothing has overlapped, and
\* whatever may still be written to it, is the trigger that the job asks for.
ReportedAgrees(t) ==
    Reported(t) /\ ~overlapped[t] =>
        /\ remote[t] = Trigger(job[t].desired)
        /\ \A w \in Worker : Running(w, t) => worker[w].revision = job[t].revision
        /\ \A l \in late : l.task = t => l.write = Trigger(job[t].desired)

\* A task is without a state only before its first job and after its deletion.
StateKept(t) == job[t] # None /\ sync[t] = None => ~Exists(t) /\ Deleting(t)

Agrees(t) ==
    SnapshotKnown(t) /\ OkIsAlone(t) /\ HolderCurrent(t) /\ ReportedAgrees(t) /\ StateKept(t)
Agreement == \A t \in Task : Agrees(t)

\* A step that writes nothing to the platform and reports nothing anew: calls of
\* the task may end or fail, and a call that was waiting may leave its write.
Wanes(t) ==
    /\ SameIntent(t) /\ (job[t] = None <=> job'[t] = None)
    /\ remote'[t] = remote[t] /\ overlapped'[t] = overlapped[t]
    /\ Reported(t)' => Reported(t)
    /\ job'[t] # None /\ sync'[t] = None => ~Exists(t)' /\ Deleting(t)'
    /\ \A w \in Worker : Running(w, t)' =>
         /\ Running(w, t)
         /\ worker'[w].revision = worker[w].revision
         /\ worker'[w].desired = worker[w].desired
         /\ worker'[w].deleting = worker[w].deleting
         /\ worker'[w].state = "ok" => worker[w].state = "ok"
         /\ job'[t].holder = w => job[t].holder = w
         /\ job[t].holder = w /\ ~OutstandingBeside(w, t) => job'[t].holder = w
    /\ \A l \in late' : l.task = t =>
         \/ l \in late
         \/ \E w \in Worker : /\ Running(w, t) /\ worker[w].state = "calling"
                              /\ l.write = Trigger(worker[w].desired)

LEMMA Waning ==
    ASSUME TypeOK, NEW t \in Task, Agrees(t), Wanes(t)
    PROVE  Agrees(t)'
<1>1. SnapshotKnown(t)'
  BY DEF Agrees, SnapshotKnown, Wanes, SameIntent
<1>2. ASSUME NEW w \in Worker, Running(w, t)', worker'[w].state = "ok", ~overlapped'[t]
      PROVE  /\ HoldsLease(w)' /\ ~OutstandingBeside(w, t)'
             /\ remote'[t] = Trigger(worker'[w].desired)
  <2>1. /\ Running(w, t) /\ worker[w].state = "ok" /\ ~overlapped[t]
        /\ worker'[w].desired = worker[w].desired /\ remote'[t] = remote[t]
    BY <1>2 DEF Wanes
  <2>2. /\ job[t].holder = w /\ ~OutstandingBeside(w, t)
        /\ remote[t] = Trigger(worker[w].desired)
    BY <2>1 DEF Agrees, OkIsAlone, HoldsLease, Running
  <2>3. HoldsLease(w)'
    BY <1>2, <2>2 DEF Wanes, HoldsLease, Running
  <2>4. \A v \in Worker \ {w} : ~Running(v, t)'
    BY <2>2 DEF Wanes, OutstandingBeside
  <2>5. \A l \in late' : l.task # t
    <3> SUFFICES ASSUME NEW l \in late', l.task = t PROVE FALSE
      OBVIOUS
    <3>1. l \notin late
      BY <2>2 DEF OutstandingBeside
    <3>2. PICK v \in Worker : Running(v, t) /\ worker[v].state = "calling"
      BY <3>1 DEF Wanes
    <3>3. QED BY <2>1, <2>2, <3>2 DEF OutstandingBeside
  <2>6. QED BY <2>1, <2>2, <2>3, <2>4, <2>5 DEF OutstandingBeside, Trigger
<1>3. OkIsAlone(t)'
  BY <1>2 DEF OkIsAlone
<1>4. HolderCurrent(t)'
  BY DEF Agrees, HolderCurrent, Wanes, SameIntent, HoldsLease, Running
<1>5. ReportedAgrees(t)'
  <2> SUFFICES ASSUME Reported(t)', ~overlapped'[t]
               PROVE  /\ remote'[t] = Trigger(job'[t].desired)
                      /\ \A w \in Worker : Running(w, t)' => worker'[w].revision = job'[t].revision
                      /\ \A l \in late' : l.task = t => l.write = Trigger(job'[t].desired)
    BY DEF ReportedAgrees, Trigger
  <2>1. Reported(t) /\ ~overlapped[t] /\ remote'[t] = remote[t] /\ SameIntent(t)
    BY DEF Wanes
  <2>2. /\ remote[t] = Trigger(job[t].desired)
        /\ \A w \in Worker : Running(w, t) => worker[w].revision = job[t].revision
        /\ \A l \in late : l.task = t => l.write = Trigger(job[t].desired)
    BY <2>1 DEF Agrees, ReportedAgrees
  <2>3. \A w \in Worker : Running(w, t)' => worker'[w].revision = job'[t].revision
    BY <2>1, <2>2 DEF Wanes, SameIntent
  <2>4. ASSUME NEW l \in late', l.task = t, l \notin late
        PROVE  l.write = Trigger(job[t].desired)
    <3>1. PICK w \in Worker : Running(w, t) /\ l.write = Trigger(worker[w].desired)
      BY <2>4 DEF Wanes
    <3>2. worker[w].desired = job[t].desired
      BY <2>2, <3>1 DEF Agrees, SnapshotKnown
    <3>3. QED BY <3>1, <3>2
  <2>5. QED BY <2>1, <2>2, <2>3, <2>4 DEF SameIntent
<1>6. StateKept(t)'
  BY DEF Wanes, StateKept
<1>7. QED BY <1>1, <1>3, <1>4, <1>5, <1>6 DEF Agrees

\* A step that is not about task t.
Apart(t) ==
    /\ row'[t] = row[t] /\ job'[t] = job[t] /\ sync'[t] = sync[t]
    /\ remote'[t] = remote[t] /\ overlapped'[t] = overlapped[t]
    /\ \A w \in Worker : Running(w, t)' => Running(w, t) /\ worker'[w] = worker[w]
    /\ \A l \in late' : l.task = t => l \in late

LEMMA ApartWanes ==
    ASSUME NEW t \in Task, Agrees(t), Apart(t)
    PROVE  Wanes(t)
BY DEF Apart, Wanes, SameIntent, Reported, Exists, Deleting, Agrees, StateKept

\* A new revision makes what is under way obsolete.
LEMMA EnqueueAgrees ==
    ASSUME TypeOK, WorkHasJob, NEW t \in Task, NEW r \in Row, NEW d \in BOOLEAN,
           Enqueue(t, r, d), Agrees(t), UNCHANGED <<remote, worker, late, overlapped>>
    PROVE  Agrees(t)'
<1> DEFINE deleting == Deleting(t) \/ d
           q == [r EXCEPT !.enabled = @ /\ ~deleting]
<1>1. /\ row' = [row EXCEPT ![t] = q] /\ sync' = [sync EXCEPT ![t] = "pending"]
      /\ job' = [job EXCEPT ![t] = Enqueued(job[t], q, deleting)]
  BY DEF Enqueue
<1>2. q # None
  <2>1. (r.enabled /\ ~deleting) \in BOOLEAN
    OBVIOUS
  <2>2. QED BY <2>1, RowUpdate
<1> HIDE DEF q, deleting
<1>3. Exists(t)' /\ sync'[t] = "pending" /\ job'[t] = Enqueued(job[t], q, deleting)
  BY <1>1, <1>2 DEF TypeOK, Exists
<1>4. ~Reported(t)' /\ sync'[t] # None
  BY <1>3, NoneAssumption DEF Reported
<1>5. job[t] # None => /\ job[t] \in ScheduleJob /\ job'[t].holder = job[t].holder
                       /\ job'[t].revision = job[t].revision + 1
  <2>1. ASSUME job[t] # None PROVE job[t] \in ScheduleJob
    BY <2>1 DEF TypeOK
  <2>2. QED BY <1>3, <2>1, Zenon DEF Enqueued, ScheduleJob
<1>6. \A w \in Worker : Running(w, t) => job[t] # None /\ worker[w].revision \in Nat
  BY AttemptFields DEF Running, WorkHasJob, TypeOK
<1>7. \A w \in Worker : Running(w, t)' <=> Running(w, t)
  BY DEF Running
<1>8. SnapshotKnown(t)'
  <2> SUFFICES ASSUME NEW w \in Worker, Running(w, t)
               PROVE  worker[w].revision < job'[t].revision
    BY <1>5, <1>6, <1>7, JobFields DEF SnapshotKnown
  <2>1. worker[w].revision <= job[t].revision /\ job[t].revision \in Nat
    BY <1>5, <1>6, JobFields DEF Agrees, SnapshotKnown
  <2>2. QED BY <1>5, <1>6, <2>1
<1>9. OkIsAlone(t)'
  <2>1. \A w \in Worker : Running(w, t) => (HoldsLease(w) => HoldsLease(w)')
    BY <1>5, <1>6 DEF HoldsLease, Running
  <2>2. \A w \in Worker : OutstandingBeside(w, t)' <=> OutstandingBeside(w, t)
    BY DEF OutstandingBeside, Running
  <2>3. QED BY <1>7, <2>1, <2>2 DEF Agrees, OkIsAlone, Trigger
<1>10. QED BY <1>4, <1>8, <1>9 DEF Agrees, HolderCurrent, ReportedAgrees, StateKept

\* A lease is drawn for the current revision; whatever is still outstanding then
\* is remembered as an overlap.
LEMMA BeginAgrees ==
    ASSUME TypeOK, WorkHasJob, NEW w \in Worker, NEW t \in Task, Begin(w, t), Agrees(t)
    PROVE  Agrees(t)'
<1> DEFINE base == IF Exists(t) \/ job[t].deleting THEN job[t] ELSE Orphaned(job[t])
           taken == Drawn(base, w)
<1>1. job[t] \in ScheduleJob /\ job[t] # None /\ worker[w] = None
  BY DEF Begin, TypeOK
<1>2. base \in ScheduleJob
  BY <1>1, JobOrphaned
<1>3. taken \in ScheduleJob /\ taken # None
  BY <1>2, JobDrawn, JobFields
<1>4. /\ taken.revision = base.revision /\ taken.desired = base.desired
      /\ taken.deleting = base.deleting /\ taken.holder = w
  <2>1. taken.holder = w
    BY <1>2 DEF Drawn, ScheduleJob
  <2>2. QED BY <1>2, <2>1, KeptFields
<1>5. /\ job' = [job EXCEPT ![t] = taken]
      /\ worker' = [worker EXCEPT ![w] = Snapshot(t, taken)]
      /\ overlapped' = [overlapped EXCEPT ![t] = overlapped[t] \/ OutstandingBeside(w, t)]
      /\ UNCHANGED <<row, sync, remote, late>>
  BY DEF Begin
\* An orphan gets a revision of its own, and has a state: it was not deleted.
<1>6. \/ /\ base.revision = job[t].revision /\ base.desired = job[t].desired
         /\ base.deleting = job[t].deleting
      \/ /\ base.revision = job[t].revision + 1 /\ ~Exists(t) /\ sync[t] # None
         /\ ~job[t].deleting
  <2>1. CASE Exists(t) \/ job[t].deleting
    BY <2>1
  <2>2. CASE ~Exists(t) /\ ~job[t].deleting
    <3>1. base = Orphaned(job[t])
      BY <2>2
    <3>2. base.revision = job[t].revision + 1
      BY <1>1, <3>1, Zenon DEF Orphaned, ScheduleJob
    <3>3. sync[t] # None
      BY <1>1, <2>2 DEF Agrees, StateKept, Deleting
    <3>4. QED BY <2>2, <3>2, <3>3
  <2>3. QED BY <2>1, <2>2
<1>7. job'[t] = taken /\ Snapshot(t, taken).task = t /\ Snapshot(t, taken) # None
  BY <1>3, <1>5, AttemptMade, AttemptFields DEF TypeOK, Snapshot
<1>8. /\ worker'[w] = Snapshot(t, taken) /\ \A v \in Worker \ {w} : worker'[v] = worker[v]
      /\ overlapped'[t] = (overlapped[t] \/ OutstandingBeside(w, t))
  BY <1>5 DEF TypeOK
<1>9. /\ worker'[w].revision = taken.revision /\ worker'[w].desired = taken.desired
      /\ worker'[w].deleting = taken.deleting /\ worker'[w].state = "calling"
  BY <1>8 DEF Snapshot
<1>10. /\ taken.revision \in Nat /\ job[t].revision \in Nat
       /\ \A v \in Worker : Running(v, t) => worker[v].revision \in Nat
  BY <1>1, <1>3, JobFields, AttemptFields DEF Running, TypeOK
<1>11. \A v \in Worker : Running(v, t)' <=> v = w \/ Running(v, t)
  BY <1>1, <1>7, <1>8 DEF Running
<1> HIDE DEF taken, base
<1>12. Reported(t)' => Reported(t) /\ base.desired = job[t].desired /\ base.revision = job[t].revision
  <2>1. CASE /\ base.revision = job[t].revision /\ base.desired = job[t].desired
             /\ base.deleting = job[t].deleting
    BY <1>1, <1>3, <1>4, <1>5, <1>7, <2>1 DEF Reported, Exists, Deleting
  <2>2. CASE base.revision = job[t].revision + 1 /\ ~Exists(t) /\ sync[t] # None
    BY <1>5, <2>2 DEF Reported, Exists
  <2>3. QED BY <1>6, <2>1, <2>2
<1>13. SnapshotKnown(t)'
  <2>1. ASSUME NEW v \in Worker, Running(v, t), v # w
        PROVE  /\ worker'[v].revision <= taken.revision
               /\ worker'[v].revision = taken.revision =>
                    worker'[v].desired = taken.desired /\ worker'[v].deleting = taken.deleting
    <3>1. /\ worker[v].revision <= job[t].revision
          /\ worker[v].revision = job[t].revision =>
               worker[v].desired = job[t].desired /\ worker[v].deleting = job[t].deleting
      BY <2>1 DEF Agrees, SnapshotKnown
    <3>2. QED BY <1>4, <1>6, <1>8, <1>10, <2>1, <3>1
  <2>2. QED BY <1>7, <1>9, <1>10, <1>11, <2>1 DEF SnapshotKnown
<1>14. OkIsAlone(t)'
  <2>1. ASSUME NEW v \in Worker, Running(v, t)', worker'[v].state = "ok"
        PROVE  overlapped'[t]
    <3>1. v # w /\ Running(v, t)
      BY <1>9, <1>11, <2>1
    <3>2. QED BY <1>8, <3>1 DEF OutstandingBeside
  <2>2. QED BY <2>1 DEF OkIsAlone
<1>15. HolderCurrent(t)'
  BY <1>4, <1>7, <1>9 DEF HolderCurrent, HoldsLease, Running
<1>16. ReportedAgrees(t)'
  <2> SUFFICES ASSUME Reported(t)', ~overlapped'[t]
               PROVE  /\ remote'[t] = Trigger(job'[t].desired)
                      /\ \A v \in Worker : Running(v, t)' => worker'[v].revision = job'[t].revision
                      /\ \A l \in late' : l.task = t => l.write = Trigger(job'[t].desired)
    BY DEF ReportedAgrees, Trigger
  <2>1. /\ remote[t] = Trigger(job[t].desired)
        /\ \A v \in Worker : Running(v, t) => worker[v].revision = job[t].revision
        /\ \A l \in late : l.task = t => l.write = Trigger(job[t].desired)
    BY <1>8, <1>12 DEF Agrees, ReportedAgrees
  <2>2. job'[t].desired = job[t].desired /\ job'[t].revision = job[t].revision
    BY <1>4, <1>7, <1>12
  <2>3. QED BY <1>4, <1>5, <1>7, <1>8, <1>9, <1>11, <2>1, <2>2
<1>17. StateKept(t)'
  <2>1. job[t].deleting => taken.deleting
    BY <1>1, <1>4, <1>6 DEF Agrees, StateKept, Deleting
  <2>2. sync[t] = None => ~Exists(t) /\ job[t].deleting
    BY <1>1 DEF Agrees, StateKept, Deleting
  <2>3. QED BY <1>3, <1>5, <1>7, <2>1, <2>2 DEF StateKept, Deleting, Exists
<1>18. QED BY <1>13, <1>14, <1>15, <1>16, <1>17 DEF Agrees

\* The write of a call that holds the lease and has the task to itself decides
\* what the platform has.
LEMMA DispatchAgrees ==
    ASSUME TypeOK, WorkHasJob, NEW w \in Worker, NEW t \in Task, worker[w].task = t,
           Dispatched(w), Agrees(t)
    PROVE  Agrees(t)'
<1> DEFINE a == [worker[w] EXCEPT !.state = "ok"]
<1>1. /\ worker[w] \in Attempt /\ Running(w, t) /\ worker[w].state = "calling"
  BY AttemptFields DEF Dispatched, TypeOK, Running
<1>2. /\ remote' = [remote EXCEPT ![t] = Trigger(worker[w].desired)]
      /\ worker' = [worker EXCEPT ![w] = a]
      /\ overlapped' = [overlapped EXCEPT ![t] = ~HoldsLease(w) \/ OutstandingBeside(w, t)]
      /\ UNCHANGED <<row, job, sync, late>>
  BY DEF Dispatched
<1>3. /\ a.task = t /\ a.revision = worker[w].revision /\ a.desired = worker[w].desired
      /\ a.deleting = worker[w].deleting /\ a.state = "ok" /\ a # None
  BY <1>1, AttemptFields DEF Attempt
<1> HIDE DEF a
<1>4. /\ remote'[t] = Trigger(worker[w].desired) /\ worker'[w] = a
      /\ \A v \in Worker \ {w} : worker'[v] = worker[v]
      /\ overlapped'[t] = (~HoldsLease(w) \/ OutstandingBeside(w, t))
  BY <1>1, <1>2 DEF TypeOK
<1>5. \A v \in Worker :
        /\ Running(v, t)' <=> Running(v, t)
        /\ Running(v, t) => /\ worker'[v].revision = worker[v].revision
                            /\ worker'[v].desired = worker[v].desired
                            /\ worker'[v].deleting = worker[v].deleting
                            /\ HoldsLease(v)' <=> HoldsLease(v)
  BY <1>1, <1>2, <1>3, <1>4 DEF Running, HoldsLease
<1>6. Reported(t)' <=> Reported(t)
  BY <1>2 DEF Reported, Exists, Deleting
<1>7. SnapshotKnown(t)' /\ HolderCurrent(t)' /\ StateKept(t)'
  BY <1>2, <1>5, <1>6 DEF Agrees, SnapshotKnown, HolderCurrent, StateKept, Exists, Deleting
<1>8. ASSUME ~overlapped'[t]
      PROVE  /\ HoldsLease(w) /\ \A v \in Worker \ {w} : ~Running(v, t)
             /\ \A l \in late : l.task # t
  BY <1>4, <1>8 DEF OutstandingBeside
<1>9. OkIsAlone(t)'
  <2> SUFFICES ASSUME NEW v \in Worker, Running(v, t)', ~overlapped'[t]
               PROVE  /\ HoldsLease(v)' /\ ~OutstandingBeside(v, t)'
                      /\ remote'[t] = Trigger(worker'[v].desired)
    BY DEF OkIsAlone
  <2>1. v = w
    BY <1>5, <1>8
  <2>2. ~OutstandingBeside(w, t)'
    BY <1>2, <1>5, <1>8 DEF OutstandingBeside
  <2>3. QED BY <1>1, <1>4, <1>5, <1>8, <2>1, <2>2
<1>10. ReportedAgrees(t)'
  <2> SUFFICES ASSUME Reported(t)', ~overlapped'[t]
               PROVE  /\ remote'[t] = Trigger(job'[t].desired)
                      /\ \A v \in Worker : Running(v, t)' => worker'[v].revision = job'[t].revision
                      /\ \A l \in late' : l.task = t => l.write = Trigger(job'[t].desired)
    BY DEF ReportedAgrees, Trigger
  <2>1. worker[w].revision = job[t].revision
    BY <1>1, <1>6, <1>8 DEF Agrees, HolderCurrent
  <2>2. worker[w].desired = job[t].desired
    BY <1>1, <2>1 DEF Agrees, SnapshotKnown
  <2>3. QED BY <1>2, <1>4, <1>5, <1>8, <2>1, <2>2
<1>11. QED BY <1>7, <1>9, <1>10 DEF Agrees

\* A write that was left behind lands.
LEMMA LandAgrees ==
    ASSUME TypeOK, NEW l \in late, Land(l), Agrees(l.task)
    PROVE  Agrees(l.task)'
<1> DEFINE t == l.task
<1>1. t \in Task /\ UNCHANGED <<row, job, sync, worker, overlapped>> /\ late' = late \ {l}
  BY DEF TypeOK, Land, history
<1>2. remote'[t] = l.write
  BY <1>1 DEF TypeOK, Land
<1> HIDE DEF t
<1>3. SnapshotKnown(t)' /\ HolderCurrent(t)' /\ StateKept(t)'
  BY <1>1 DEF Agrees, t, SnapshotKnown, HolderCurrent, StateKept, Reported, Exists, Deleting,
              HoldsLease, Running
<1>4. OkIsAlone(t)'
  BY <1>1 DEF Agrees, t, OkIsAlone, OutstandingBeside, Running
<1>5. ReportedAgrees(t)'
  BY <1>1, <1>2 DEF Agrees, t, ReportedAgrees, Reported, Exists, Deleting, Running, Trigger
<1>6. QED BY <1>3, <1>4, <1>5 DEF Agrees, t

\* A result that is reported was of the current revision, and what it wrote is there.
LEMMA ReportAgrees ==
    ASSUME TypeOK, WorkHasJob, DeletingPaused, NEW w \in Worker,
           NEW t \in Task, worker[w].task = t, SyncedResult(w) \/ DeletedResult(w), Agrees(t)
    PROVE  Agrees(t)'
<1> DEFINE j == Released(job[t], FALSE)
<1>1. /\ worker[w] # None /\ worker[w].state = "ok" /\ HoldsLease(w) /\ ~Obsolete(w)
      /\ worker' = [worker EXCEPT ![w] = None] /\ UNCHANGED <<remote, late, overlapped>>
      /\ job' = [job EXCEPT ![t] = j]
  BY DEF SyncedResult, DeletedResult, Answered, history
<1>2. job[t] \in ScheduleJob /\ Running(w, t) /\ job[t] # None
  BY <1>1, AttemptFields DEF TypeOK, WorkHasJob, Running
<1>3. /\ j.revision = job[t].revision /\ j.desired = job[t].desired
      /\ j.deleting = job[t].deleting /\ j.holder = None /\ j # None
  <2>1. j \in ScheduleJob /\ j.holder = None
    BY <1>2, JobTimes DEF Released, ScheduleJob
  <2>2. j.revision = job[t].revision /\ j.desired = job[t].desired /\ j.deleting = job[t].deleting
    BY <1>2, KeptFields
  <2> HIDE DEF j
  <2>3. QED BY <2>1, <2>2, JobFields
<1>4. job'[t] = j /\ worker'[w] = None /\ \A v \in Worker \ {w} : worker'[v] = worker[v]
  BY <1>1, <1>2 DEF TypeOK
<1>5. /\ worker[w].revision = job[t].revision /\ worker[w].desired = job[t].desired
      /\ worker[w].deleting = job[t].deleting
  BY <1>1, <1>2 DEF Obsolete, Agrees, SnapshotKnown
<1>6. ~overlapped[t] =>
        /\ remote[t] = Trigger(job[t].desired)
        /\ \A v \in Worker \ {w} : ~Running(v, t)
        /\ \A l \in late : l.task # t
  BY <1>1, <1>2, <1>5 DEF Agrees, OkIsAlone, OutstandingBeside
<1> HIDE DEF j
<1>7. \A v \in Worker : Running(v, t)' => v # w /\ Running(v, t) /\ worker'[v] = worker[v]
  BY <1>4 DEF Running
<1>8. \A v \in Worker : Running(v, t)' => ~HoldsLease(v)'
  BY <1>3, <1>4, <1>7, NoneAssumption DEF HoldsLease, Running
<1>9. StateKept(t)'
  <2>1. CASE SyncedResult(w)
    <3>1. row' = row /\ (sync'[t] = "synced" \/ sync' = sync)
      BY <1>2, <2>1 DEF SyncedResult, TypeOK
    <3>2. sync'[t] = None => sync[t] = None
      BY <3>1, NoneAssumption
    <3>3. QED BY <1>2, <1>3, <1>4, <3>1, <3>2 DEF Agrees, StateKept, Deleting, Exists
  <2>2. CASE DeletedResult(w)
    <3>1. row'[t] = None /\ worker[w].deleting
      BY <1>2, <2>2 DEF DeletedResult, TypeOK
    <3>2. QED BY <1>3, <1>4, <1>5, <3>1 DEF StateKept, Deleting, Exists
  <2>3. QED BY <2>1, <2>2
<1>10. SnapshotKnown(t)' /\ HolderCurrent(t)'
  BY <1>3, <1>4, <1>7, <1>8 DEF Agrees, SnapshotKnown, HolderCurrent
<1>11. OkIsAlone(t)' /\ ReportedAgrees(t)'
  BY <1>1, <1>3, <1>4, <1>6, <1>7 DEF OkIsAlone, ReportedAgrees, Trigger
<1>12. QED BY <1>9, <1>10, <1>11 DEF Agrees

LEMMA AgreementNext ==
    ASSUME IInv, Agreement, [Next]_vars
    PROVE  Agreement'
<1>1. /\ TypeOK /\ WorkHasJob /\ RowHasJob /\ DeletingPaused
      /\ \A t \in Task : Agrees(t)
      /\ \A w \in Worker : worker[w] # None =>
           /\ worker[w] \in Attempt /\ worker[w].task \in Task
           /\ job[worker[w].task] \in ScheduleJob /\ job[worker[w].task] # None
  BY AttemptFields DEF IInv, Agreement, TypeOK, WorkHasJob
\* A step is about one task at most, and wanes there or is one of those above.
<1>2. ASSUME NEW t \in Task, \A u \in Task \ {t} : Apart(u), Wanes(t) \/ Agrees(t)'
      PROVE  Agreement'
  BY <1>1, <1>2, ApartWanes, Waning DEF Agreement
<1>3. ASSUME \A u \in Task : Apart(u) PROVE Agreement'
  BY <1>1, <1>3, ApartWanes, Waning DEF Agreement
<1>4. ASSUME NEW t \in Task, NEW r \in Row, NEW d \in BOOLEAN, Enqueue(t, r, d),
             UNCHANGED <<remote, worker, late, overlapped>>
      PROVE  Agreement'
  <2>1. \A u \in Task \ {t} : Apart(u)
    BY <1>1, <1>4, EnqueueRefreshes DEF Apart, Running
  <2>2. Agrees(t)'
    BY <1>1, <1>4, EnqueueAgrees
  <2>3. QED BY <1>2, <2>1, <2>2
\* The task of a step that leaves the calls, their writes and the platform alone.
<1>5. ASSUME NEW t \in Task, UNCHANGED <<remote, worker, late, overlapped>>,
             SameIntent(t), job[t] = None <=> job'[t] = None,
             job[t] # None => job'[t].holder = job[t].holder,
             Reported(t)' => Reported(t),
             job'[t] # None /\ sync'[t] = None => ~Exists(t)' /\ Deleting(t)'
      PROVE  Wanes(t)
  BY <1>1, <1>5 DEF Wanes, Running
<1>6. ASSUME NEW t \in Task, Writer(t) PROVE Agreement'
  <2>1. CASE Create(t)
    <3>1. PICK s \in SendTime : Enqueue(t, [enabled |-> TRUE, time |-> s], FALSE)
      BY <2>1 DEF Create
    <3>2. [enabled |-> TRUE, time |-> s] \in Row
      BY RowMade
    <3>3. QED BY <1>4, <2>1, <3>1, <3>2 DEF Create, history
  <2>2. CASE SetEnabled(t)
    <3>1. PICK e \in BOOLEAN : Enqueue(t, [row[t] EXCEPT !.enabled = e], FALSE)
      BY <2>2 DEF SetEnabled
    <3>2. [row[t] EXCEPT !.enabled = e] \in Row
      BY <1>1, <2>2, RowUpdate DEF SetEnabled, Exists, TypeOK
    <3>3. QED BY <1>4, <2>2, <3>1, <3>2 DEF SetEnabled, history
  <2>3. CASE UpdateTime(t)
    <3>1. PICK s \in SendTime : Enqueue(t, [row[t] EXCEPT !.time = s], FALSE)
      BY <2>3 DEF UpdateTime
    <3>2. [row[t] EXCEPT !.time = s] \in Row
      BY <1>1, <2>3, RowUpdate DEF UpdateTime, Exists, TypeOK
    <3>3. QED BY <1>4, <2>3, <3>1, <3>2 DEF UpdateTime, history
  <2>4. CASE CascadeDelete(t)
    <3>1. /\ row' = [row EXCEPT ![t] = None] /\ Exists(t)
          /\ UNCHANGED <<job, sync, remote, worker, late, overlapped>>
      BY <2>4 DEF CascadeDelete, history
    <3>2. \A u \in Task \ {t} : Apart(u)
      BY <1>1, <3>1 DEF Apart, TypeOK, Running
    <3>3. sync[t] # None /\ row'[t] = None
      BY <1>1, <3>1 DEF Agrees, StateKept, RowHasJob, TypeOK
    <3>4. ~Reported(t)' /\ sync'[t] # None
      BY <3>1, <3>3 DEF Reported, Exists
    <3>5. Wanes(t)
      BY <1>5, <3>1, <3>4 DEF SameIntent
    <3>6. QED BY <1>2, <3>2, <3>5
  <2>5. QED BY <1>6, <2>1, <2>2, <2>3, <2>4 DEF Writer
<1>7. ASSUME NEW t \in Task, TimePasses(t) PROVE Agreement'
  <2>1. job[t] \in ScheduleJob /\ job[t] # None
    BY <1>1, <1>7 DEF TimePasses, ComesDue, LeaseExpires, LeaseOverruns, TypeOK
  <2>2. UNCHANGED <<row, sync, remote, worker, late, overlapped>>
    BY <1>7 DEF TimePasses, ComesDue, LeaseExpires, LeaseOverruns, history
  <2>3. PICK j : /\ job' = [job EXCEPT ![t] = j]
                 /\ j = [job[t] EXCEPT !.due = TRUE] \/ j = [job[t] EXCEPT !.live = FALSE]
    BY <1>7 DEF TimePasses, ComesDue, LeaseExpires, LeaseOverruns
  <2>4. /\ j # None /\ j.revision = job[t].revision /\ j.desired = job[t].desired
        /\ j.deleting = job[t].deleting /\ j.holder = job[t].holder
    <3>1. j \in ScheduleJob
      BY <2>1, <2>3, JobTimes
    <3>2. QED BY <2>1, <2>3, <3>1, JobFields DEF ScheduleJob
  <2>5. job'[t] = j /\ \A u \in Task \ {t} : job'[u] = job[u]
    BY <1>1, <2>3 DEF TypeOK
  <2>6. \A u \in Task \ {t} : Apart(u)
    BY <2>2, <2>5 DEF Apart, Running
  <2>7. Wanes(t)
    <3>1. (Reported(t)' <=> Reported(t)) /\ (Deleting(t)' <=> Deleting(t))
      BY <2>1, <2>2, <2>4, <2>5 DEF Reported, Exists, Deleting
    <3>2. sync[t] = None => ~Exists(t) /\ Deleting(t)
      BY <1>1, <2>1 DEF Agrees, StateKept
    <3>3. QED BY <1>5, <2>1, <2>2, <2>4, <2>5, <3>1, <3>2 DEF SameIntent, Exists
  <2>8. QED BY <1>2, <2>6, <2>7
<1>8. ASSUME NEW c \in Caller, CallerStep(c) PROVE Agreement'
  <2>1. ASSUME NEW t \in Task, PauseFirst(c, t) PROVE Agreement'
    <3>1. /\ row' = [row EXCEPT ![t] = [row[t] EXCEPT !.enabled = FALSE]] /\ Exists(t)
          /\ UNCHANGED <<job, sync, remote, worker, late, overlapped>>
      BY <2>1 DEF PauseFirst, history
    <3>2. \A u \in Task \ {t} : Apart(u)
      BY <1>1, <3>1 DEF Apart, TypeOK, Running
    <3>3. sync[t] # None
      BY <1>1, <3>1 DEF Agrees, StateKept, RowHasJob
    <3>4. Reported(t)' => Reported(t)
      BY <3>1, <3>3 DEF Reported, Exists
    <3>5. Wanes(t)
      BY <1>5, <3>1, <3>3, <3>4 DEF SameIntent
    <3>6. QED BY <1>2, <3>2, <3>5
  <2>2. ASSUME UNCHANGED <<row, job, sync, remote, worker, late, overlapped>> PROVE Agreement'
    BY <1>3, <2>2 DEF Apart, Running
  <2>3. ASSUME NEW t \in Task, RequestSync(c, t) \/ Scan(c, t) PROVE Agreement'
    BY <2>2, <2>3 DEF RequestSync, Scan, history
  <2>4. CASE CallerCrash(c)
    BY <2>2, <2>4 DEF CallerCrash, history
  <2>5. CASE EnqueueOwed(c)
    <3>1. call[c].task \in Task /\ call[c].delete \in BOOLEAN
      BY <1>1, <2>5 DEF EnqueueOwed, TypeOK
    <3>2. CASE Exists(call[c].task)
      <4>1. row[call[c].task] \in Row
        BY <1>1, <3>1, <3>2 DEF Exists, TypeOK
      <4>2. QED BY <1>4, <2>5, <3>1, <3>2, <4>1 DEF EnqueueOwed, history
    <3>3. CASE ~Exists(call[c].task)
      BY <2>2, <2>5, <3>3 DEF EnqueueOwed, history
    <3>4. QED BY <3>2, <3>3
  <2>6. QED BY <1>8, <2>1, <2>3, <2>4, <2>5 DEF CallerStep
<1>9. ASSUME NEW w \in Worker, WorkerStep(w) PROVE Agreement'
  <2>1. ASSUME NEW t \in Task, Begin(w, t) PROVE Agreement'
    <3> PICK a : a = Snapshot(t, Drawn(IF Exists(t) \/ job[t].deleting
                                       THEN job[t] ELSE Orphaned(job[t]), w))
      OBVIOUS
    <3>1. /\ worker' = [worker EXCEPT ![w] = a] /\ worker[w] = None /\ a.task = t
          /\ UNCHANGED <<row, sync, remote, late>>
          /\ \A u \in Task \ {t} : job'[u] = job[u] /\ overlapped'[u] = overlapped[u]
      BY <1>1, <2>1 DEF Begin, Snapshot, TypeOK
    <3>2. \A v \in Worker, u \in Task \ {t} :
            Running(v, u)' => Running(v, u) /\ worker'[v] = worker[v]
      BY <1>1, <3>1 DEF Running, TypeOK
    <3>3. \A u \in Task \ {t} : Apart(u)
      BY <3>1, <3>2 DEF Apart
    <3>4. QED BY <1>1, <1>2, <2>1, <3>3, BeginAgrees
  <2>2. CASE worker[w] # None
    <3> PICK t \in Task : t = worker[w].task
      BY <1>1, <2>2
    <3>1. /\ worker[w] \in Attempt /\ job[t] \in ScheduleJob /\ job[t] # None /\ Running(w, t)
      BY <1>1, <2>2 DEF Running
    \* The call of w goes on or ends, and nothing but its task is touched.
    <3>2. ASSUME NEW a, worker' = [worker EXCEPT ![w] = a], a # None => a.task = t,
                 \A u \in Task \ {t} : /\ row'[u] = row[u] /\ job'[u] = job[u]
                                       /\ sync'[u] = sync[u] /\ remote'[u] = remote[u]
                                       /\ overlapped'[u] = overlapped[u],
                 \A l \in late' : l.task # t => l \in late
          PROVE  \A u \in Task \ {t} : Apart(u)
      BY <1>1, <3>1, <3>2 DEF Apart, Running, TypeOK
    <3>3. CASE Dispatched(w)
      <4> DEFINE a == [worker[w] EXCEPT !.state = "ok"]
      <4>1. a.task = t /\ worker' = [worker EXCEPT ![w] = a]
        BY <3>1, <3>3 DEF Attempt, Dispatched
      <4> HIDE DEF a
      <4>2. /\ \A u \in Task \ {t} : /\ row'[u] = row[u] /\ job'[u] = job[u]
                                     /\ sync'[u] = sync[u] /\ remote'[u] = remote[u]
                                     /\ overlapped'[u] = overlapped[u]
            /\ late' = late
        BY <1>1, <3>3 DEF Dispatched, TypeOK
      <4>3. \A u \in Task \ {t} : Apart(u)
        BY <3>2, <4>1, <4>2
      <4>4. QED BY <1>1, <1>2, <3>3, <4>3, DispatchAgrees
    <3>4. CASE DispatchFails(w)
      <4> DEFINE a == [worker[w] EXCEPT !.state = "failed"]
      <4>1. /\ a.task = t /\ a.revision = worker[w].revision /\ a.desired = worker[w].desired
            /\ a.deleting = worker[w].deleting /\ a.state = "failed"
            /\ worker' = [worker EXCEPT ![w] = a]
        BY <3>1, <3>4 DEF Attempt, DispatchFails
      <4> HIDE DEF a
      <4>2. /\ UNCHANGED <<row, job, sync, remote, overlapped>>
            /\ late' \in {late, late \union {Detached(w)}} /\ worker[w].state = "calling"
        BY <3>4 DEF DispatchFails, history
      <4>3. Detached(w).task = t /\ Detached(w).write = Trigger(worker[w].desired)
        BY DEF Detached
      <4>4. \A u \in Task \ {t} : Apart(u)
        BY <3>2, <4>1, <4>2, <4>3
      <4>5. worker'[w] = a /\ \A v \in Worker \ {w} : worker'[v] = worker[v]
        BY <1>1, <4>1 DEF TypeOK
      <4>6. Wanes(t)
        <5>1. \A v \in Worker : Running(v, t)' =>
                 /\ Running(v, t) /\ worker'[v].revision = worker[v].revision
                 /\ worker'[v].desired = worker[v].desired
                 /\ worker'[v].deleting = worker[v].deleting
                 /\ worker'[v].state = "ok" => worker[v].state = "ok"
          BY <3>1, <4>1, <4>5 DEF Running
        <5>2. \A l \in late' : l.task = t =>
                 \/ l \in late
                 \/ Running(w, t) /\ worker[w].state = "calling"
                    /\ l.write = Trigger(worker[w].desired)
          BY <3>1, <4>2, <4>3
        <5>3. QED BY <1>1, <4>2, <5>1, <5>2
                  DEF Wanes, SameIntent, Reported, Exists, Deleting, Agrees, StateKept
      <4>7. QED BY <1>2, <4>4, <4>6
    <3>5. CASE WorkerCrash(w)
      <4>1. /\ UNCHANGED <<row, job, sync, remote, overlapped>>
            /\ worker' = [worker EXCEPT ![w] = None]
            /\ late' # late => late' = late \union {Detached(w)} /\ worker[w].state = "calling"
        BY <3>5 DEF WorkerCrash, history
      <4>2. Detached(w).task = t /\ Detached(w).write = Trigger(worker[w].desired)
        BY DEF Detached
      <4>3. \A u \in Task \ {t} : Apart(u)
        BY <3>2, <4>1, <4>2
      <4>4. \A v \in Worker : Running(v, t)' => Running(v, t) /\ worker'[v] = worker[v]
        BY <1>1, <4>1 DEF Running, TypeOK
      <4>5. \A l \in late' : l.task = t =>
               \/ l \in late
               \/ Running(w, t) /\ worker[w].state = "calling"
                  /\ l.write = Trigger(worker[w].desired)
        BY <3>1, <4>1, <4>2
      <4>6. Wanes(t)
        BY <1>1, <4>1, <4>4, <4>5
           DEF Wanes, SameIntent, Reported, Exists, Deleting, Agrees, StateKept
      <4>7. QED BY <1>2, <4>3, <4>6
    \* A completion takes its call away, and with it the lease if it had it.
    <3>6. ASSUME Complete(w)
          PROVE  /\ \A u \in Task \ {t} : Apart(u)
                 /\ \A v \in Worker : Running(v, t)' => v # w /\ Running(v, t) /\ worker'[v] = worker[v]
                 /\ UNCHANGED <<remote, late, overlapped>>
      <4>1. /\ worker' = [worker EXCEPT ![w] = None] /\ UNCHANGED <<remote, late, overlapped>>
        BY <3>6 DEF Complete, LateResult, StaleResult, FailedResult, SyncedResult, DeletedResult,
                    history
      <4>2. \A u \in Task \ {t} : row'[u] = row[u] /\ job'[u] = job[u] /\ sync'[u] = sync[u]
        BY <1>1, <3>6 DEF Complete, LateResult, StaleResult, FailedResult, SyncedResult,
                          DeletedResult, TypeOK
      <4>3. \A v \in Worker : Running(v, t)' => v # w /\ Running(v, t) /\ worker'[v] = worker[v]
        BY <1>1, <4>1 DEF Running, TypeOK
      <4>4. QED BY <3>2, <4>1, <4>2, <4>3
    <3>7. ASSUME LateResult(w) \/ StaleResult(w) \/ FailedResult(w) PROVE Wanes(t)
      <4>1. Complete(w)
        BY <3>7 DEF Complete
      <4>2. PICK j : /\ job' = [job EXCEPT ![t] = j]
                     /\ \/ j = [job[t] EXCEPT !.due = TRUE] /\ ~HoldsLease(w)
                        \/ HoldsLease(w) /\ j \in {Released(job[t], TRUE), Released(job[t], FALSE)}
        BY <3>7 DEF LateResult, StaleResult, FailedResult
      <4>3. /\ j # None /\ j.revision = job[t].revision /\ j.desired = job[t].desired
            /\ j.deleting = job[t].deleting
        <5>1. j # None
          BY <3>1, <4>2, JobTimes, JobFields
        <5>2. CASE j = [job[t] EXCEPT !.due = TRUE]
          BY <3>1, <5>1, <5>2 DEF ScheduleJob
        <5>3. ASSUME NEW b \in BOOLEAN, j = Released(job[t], b)
              PROVE  /\ j.revision = job[t].revision /\ j.desired = job[t].desired
                     /\ j.deleting = job[t].deleting
          BY <3>1, <5>3 DEF ScheduleJob, Released
        <5>4. QED BY <4>2, <5>1, <5>2, <5>3
      <4>4. job'[t] = j
        BY <1>1, <4>2 DEF TypeOK
      <4>5. \A v \in Worker \ {w} : /\ j.holder = v => job[t].holder = v
                                    /\ job[t].holder = v => j.holder = v
        <5>1. CASE j = [job[t] EXCEPT !.due = TRUE]
          BY <3>1, <5>1 DEF ScheduleJob
        <5>2. CASE HoldsLease(w) /\ j \in {Released(job[t], TRUE), Released(job[t], FALSE)}
          <6>1. j.holder = None
            BY <3>1, <5>2 DEF Released, ScheduleJob
          <6>2. QED BY <5>2, <6>1, NoneAssumption DEF HoldsLease
        <5>3. QED BY <4>2, <5>1, <5>2
      <4>6. row' = row /\ (sync'[t] = "synced" => sync[t] = "synced")
            /\ (sync'[t] = None => sync[t] = None)
        BY <1>1, <3>7, NoneAssumption DEF LateResult, StaleResult, FailedResult, TypeOK
      <4>7. (Reported(t)' => Reported(t)) /\ (Deleting(t)' <=> Deleting(t))
        BY <3>1, <4>3, <4>4, <4>6 DEF Reported, Exists, Deleting
      <4>8. sync'[t] = None => ~Exists(t)' /\ Deleting(t)'
        BY <1>1, <3>1, <4>6, <4>7 DEF Agrees, StateKept, Exists
      <4>9. QED BY <3>1, <3>6, <4>1, <4>3, <4>4, <4>5, <4>7, <4>8 DEF Wanes, SameIntent
    <3>8. CASE Complete(w)
      <4>1. CASE LateResult(w) \/ StaleResult(w) \/ FailedResult(w)
        BY <1>2, <3>6, <3>7, <3>8, <4>1
      <4>2. CASE SyncedResult(w) \/ DeletedResult(w)
        BY <1>1, <1>2, <3>6, <3>8, <4>2, ReportAgrees
      <4>3. QED BY <3>8, <4>1, <4>2 DEF Complete
    <3>9. QED BY <1>9, <2>1, <3>3, <3>4, <3>5, <3>8 DEF WorkerStep
  <2>3. CASE worker[w] = None
    BY <1>9, <2>1, <2>3 DEF WorkerStep, Dispatched, DispatchFails, WorkerCrash, Complete,
       LateResult, StaleResult, FailedResult, SyncedResult, DeletedResult, Answered
  <2>4. QED BY <2>2, <2>3
<1>10. ASSUME NEW l \in late, Land(l) PROVE Agreement'
  <2>1. l.task \in Task
    BY <1>1 DEF TypeOK
  <2>2. \A u \in Task \ {l.task} : Apart(u)
    BY <1>1, <1>10 DEF Apart, Land, history, Running, TypeOK
  <2>3. QED BY <1>1, <1>2, <1>10, <2>1, <2>2, LandAgrees
<1>11. CASE UNCHANGED vars
  BY <1>3, <1>11 DEF Apart, vars, Running
<1>12. QED BY <1>6, <1>7, <1>8, <1>9, <1>10, <1>11 DEF Next

LEMMA AgreementInit == Init => Agreement
<1> SUFFICES ASSUME Init, NEW t \in Task PROVE Agrees(t)
  BY DEF Agreement
<1>1. /\ \A w \in Worker : ~Running(w, t)
      /\ ~Reported(t) /\ job[t] = None
  BY NoneAssumption DEF Init, Running, Reported, Exists, Deleting
<1>2. QED BY <1>1 DEF Agrees, SnapshotKnown, OkIsAlone, HolderCurrent, ReportedAgrees, StateKept

LEMMA InductiveAgreement == Init /\ [][Next]_vars => [](IInv /\ Agreement)
<1>1. IInv /\ Agreement /\ [Next]_vars => (IInv /\ Agreement)'
  BY IInvNext, AgreementNext
<1>2. QED BY <1>1, IInvInit, AgreementInit, PTL

-----------------------------------------------------------------------------
(* What the two invariants give *)

LEMMA GateFollows == IInv => GateConfirmed
<1> SUFFICES ASSUME IInv, NEW t \in Task, Executable(t)
             PROVE  /\ job[t] # None /\ ~job[t].deleting
                    /\ job[t].desired = row[t]
                    /\ job[t].revision \in acked[t]
  BY DEF GateConfirmed
<1>1. Exists(t) /\ row[t].enabled /\ sync[t] = "synced"
  BY DEF Executable
<1>2. job[t] # None /\ job[t].desired = row[t] /\ job[t].revision \in acked[t]
  BY <1>1 DEF IInv, RowHasJob, Authority, Published
<1>3. ~job[t].deleting
  BY <1>1, <1>2 DEF IInv, DeletingPaused, Deleting
<1>4. QED BY <1>2, <1>3

LEMMA AgreementFollows == IInv /\ Agreement => AgreementUnlessOverlapped
<1> SUFFICES ASSUME IInv, Agreement, NEW t \in Task, ~overlapped[t]
             PROVE  /\ Exists(t) /\ sync[t] = "synced" => remote[t] = Trigger(job[t].desired)
                    /\ ~Exists(t) /\ Deleting(t) /\ sync[t] = None => remote[t] = None
  BY DEF AgreementUnlessOverlapped
<1>1. Reported(t) => remote[t] = Trigger(job[t].desired)
  BY DEF Agreement, Agrees, ReportedAgrees
<1>2. Deleting(t) => Trigger(job[t].desired) = None
  BY DEF IInv, DeletingPaused, Trigger
<1>3. QED BY <1>1, <1>2 DEF Reported

LEMMA DeletionFollows == Init /\ [][Next]_vars => DeletionSticks
<1> DEFINE Sticks == \A t \in Task : Deleting(t) =>
                       /\ Deleting(t)'
                       /\ ~job'[t].desired.enabled
                       /\ Exists(t)' => ~row'[t].enabled
<1>1. IInv /\ IInv' /\ [Next]_vars => Sticks
  <2> SUFFICES ASSUME IInv, IInv', [Next]_vars, NEW t \in Task, Deleting(t)
               PROVE  /\ Deleting(t)' /\ ~job'[t].desired.enabled
                      /\ Exists(t)' => ~row'[t].enabled
    OBVIOUS
  <2>1. Deleting(t)'
    <3>1. CASE Refreshed(t)
      BY <3>1 DEF Refreshed, Deleting
    <3>2. CASE Carried(t)
      BY <3>2 DEF Carried, SameIntent, Deleting
    <3>3. QED BY <3>1, <3>2, StepShape DEF IInv
  <2>2. QED BY <2>1 DEF IInv, DeletingPaused
<1> HIDE DEF Sticks
<1>2. Init /\ [][Next]_vars => [][Sticks]_vars
  BY <1>1, Inductive, PTL
<1>3. QED BY <1>2 DEF DeletionSticks, Sticks

\* Beside the back ends the queue takes the same steps.
LEMMA QueueSteps == AllSpec => Init /\ [][Next]_vars
<1>1. AllInit => Init
  BY DEF AllInit
<1>2. [AllNext]_all => [Next]_vars
  BY DEF AllNext, Queue, Triggers, Tasks, all
<1>3. QED BY <1>1, <1>2, PTL DEF AllSpec

-----------------------------------------------------------------------------
(* The back ends: types, and what a call in progress has seen. *)

\* No task has two blocks among the lines.
OneBlock(lines) == \A t \in Triggered : \A a, b \in T!BlocksOf(lines, t) : a = b

CallTypes ==
    /\ pusher \in [T!Pusher -> T!Call \union {None}]
    /\ pusher[Loop] # None => pusher[Loop].at # "enqueued"
    /\ \A w \in T!Pusher : pusher[w] # None => OneBlock(pusher[w].seen)
    /\ \A w \in T!Pusher : T!At(w, "reading") \/ T!At(w, "writing") => platform = "linux"
    /\ \A w \in T!Pusher : T!At(w, "pushing") \/ T!At(w, "creating") => platform # "linux"

QueueTypes ==
    /\ want \in [Triggered -> Time \union {None}]
    /\ due \in [Triggered -> BOOLEAN]
    /\ lease \in [Triggered -> T!Pusher \union {None}]
    /\ triggerEdits \in 0 .. MaxTriggerEdits /\ triggerFaults \in 0 .. MaxTriggerFaults

TableTypes ==
    /\ platform \in T!Platform
    /\ crontab \subseteq T!Line /\ OneBlock(crontab)
    /\ source \in [Triggered -> Time \union {None}]
    /\ platform = "linux" => \A t \in Triggered : source[t] = None
    /\ platform # "linux" => crontab \subseteq Foreign

TriggerInv == CallTypes /\ QueueTypes /\ TableTypes

LEMMA TriggerCount ==
    ASSUME NEW n \in Nat, NEW i \in 0 .. n, i < n
    PROVE  i + 1 \in 0 .. n
OBVIOUS

LEMMA CallFields ==
    ASSUME NEW c \in T!Call
    PROVE  /\ c # None /\ c.task \in Triggered /\ c.time \in Time \union {None}
           /\ c.seen \subseteq T!Line
BY SchedulingAssumption DEF T!ConstantsFit, T!Call

LEMMA CallMoves ==
    ASSUME NEW c \in T!Call,
           NEW s \in {"enqueued", "reading", "writing", "pushing", "creating", "ok", "failed"}
    PROVE  /\ [c EXCEPT !.at = s] \in T!Call
           /\ [c EXCEPT !.at = s].at = s
           /\ [c EXCEPT !.at = s].seen = c.seen
           /\ [c EXCEPT !.at = s].task = c.task
BY DEF T!Call

LEMMA CallTimed ==
    ASSUME NEW c \in T!Call, NEW time \in Time \union {None}, NEW s \in {"reading", "pushing"}
    PROVE  /\ [c EXCEPT !.at = s, !.time = time] \in T!Call
           /\ [c EXCEPT !.at = s, !.time = time].at = s
           /\ [c EXCEPT !.at = s, !.time = time].seen = c.seen
BY DEF T!Call

LEMMA CallListed ==
    ASSUME NEW c \in T!Call, NEW lines \in SUBSET T!Line
    PROVE  /\ [c EXCEPT !.at = "writing", !.seen = lines] \in T!Call
           /\ [c EXCEPT !.at = "writing", !.seen = lines].at = "writing"
           /\ [c EXCEPT !.at = "writing", !.seen = lines].seen = lines
BY DEF T!Call

LEMMA CallMade ==
    ASSUME NEW t \in Triggered, NEW time \in Time \union {None},
           NEW s \in {"enqueued", "reading", "writing", "pushing", "creating", "ok", "failed"}
    PROVE  [task |-> t, time |-> time, seen |-> {}, at |-> s] \in T!Call
BY DEF T!Call

LEMMA NoBlocks == OneBlock({})
BY DEF OneBlock, T!BlocksOf

LEMMA RewrittenFits ==
    ASSUME NEW c \in T!Call, OneBlock(c.seen)
    PROVE  T!Rewritten(c) \subseteq T!Line /\ OneBlock(T!Rewritten(c))
<1>1. /\ c.task \in Triggered /\ c.time \in Time \union {None} /\ c.seen \subseteq T!Line
  BY CallFields
<1>2. T!Rewritten(c) \subseteq T!Line
  BY <1>1 DEF T!Rewritten, T!Stripped, T!Line, T!Block
<1>3. ASSUME NEW t \in Triggered, NEW a \in T!BlocksOf(T!Rewritten(c), t),
             NEW b \in T!BlocksOf(T!Rewritten(c), t)
      PROVE  a = b
  <2>1. CASE t = c.task
    BY <2>1 DEF T!BlocksOf, T!Rewritten, T!Stripped
  <2>2. CASE t # c.task
    <3>1. a \in T!BlocksOf(c.seen, t) /\ b \in T!BlocksOf(c.seen, t)
      BY <2>2 DEF T!BlocksOf, T!Rewritten, T!Stripped
    <3>2. QED BY <3>1 DEF OneBlock
  <2>3. QED BY <2>1, <2>2
<1>4. QED BY <1>2, <1>3 DEF OneBlock


\* A step that changes the call of one worker only.
LEMMA CallMoved ==
    ASSUME CallTypes, NEW w \in T!Pusher, NEW c \in T!Call \union {None},
           platform' = platform, pusher' = [pusher EXCEPT ![w] = c],
           c # None =>
             /\ OneBlock(c.seen)
             /\ w = Loop => c.at # "enqueued"
             /\ c.at \in {"reading", "writing"} => platform = "linux"
             /\ c.at \in {"pushing", "creating"} => platform # "linux"
    PROVE  CallTypes'
<1>1. \A v \in T!Pusher : pusher'[v] = IF v = w THEN c ELSE pusher[v]
  BY DEF CallTypes
<1>2. pusher' \in [T!Pusher -> T!Call \union {None}]
  BY DEF CallTypes
<1>3. Loop \in T!Pusher
  BY DEF T!Pusher
<1>4. pusher'[Loop] # None => pusher'[Loop].at # "enqueued"
  BY <1>1, <1>3 DEF CallTypes
<1>5. \A v \in T!Pusher : pusher'[v] # None => OneBlock(pusher'[v].seen)
  BY <1>1 DEF CallTypes
<1>6. \A v \in T!Pusher : T!At(v, "reading")' \/ T!At(v, "writing")' => platform' = "linux"
  BY <1>1 DEF CallTypes, T!At
<1>7. \A v \in T!Pusher : T!At(v, "pushing")' \/ T!At(v, "creating")' => platform' # "linux"
  BY <1>1 DEF CallTypes, T!At
<1>8. QED BY <1>2, <1>4, <1>5, <1>6, <1>7 DEF CallTypes, OneBlock

LEMMA CallsStay == CallTypes /\ UNCHANGED <<platform, pusher>> => CallTypes'
BY DEF CallTypes, OneBlock, T!At

LEMMA QueueStays ==
    QueueTypes /\ UNCHANGED <<want, due, lease, triggerEdits, triggerFaults>> => QueueTypes'
BY DEF QueueTypes

LEMMA TableStays == TableTypes /\ UNCHANGED <<platform, crontab, source>> => TableTypes'
BY DEF TableTypes, OneBlock

\* A step that may count a fault.
LEMMA FaultCounted ==
    ASSUME QueueTypes, T!Faulted \/ UNCHANGED triggerFaults
    PROVE  triggerFaults' \in 0 .. MaxTriggerFaults
BY SchedulingAssumption DEF T!ConstantsFit, QueueTypes, T!Faulted

LEMMA PlatformKept == [T!Next]_triggers => platform' = platform
BY DEF triggers, T!Next, T!Step, T!Draw, T!Complete, T!ReadTab, T!WriteTab, T!PushWindows, T!PushCloud,
       T!CreateSource, T!Crash, T!Edit, T!Reconcile, T!ComesDue, T!Expire, T!EditTab

LEMMA TriggerInit == AllInit => TriggerInv
<1> SUFFICES ASSUME AllInit PROVE TriggerInv
  OBVIOUS
<1>1. T!Init
  BY DEF AllInit
<1>2. CallTypes
  BY <1>1 DEF CallTypes, T!Init, T!At, T!Pusher
<1>3. QueueTypes
  BY <1>1, SchedulingAssumption DEF T!ConstantsFit, QueueTypes, T!Init
<1>4. TableTypes
  BY <1>1, NoBlocks DEF TableTypes, T!Init
<1>5. QED BY <1>2, <1>3, <1>4 DEF TriggerInv

\* The queue around the call.
LEMMA AroundTheCall ==
    ASSUME TriggerInv,
           \/ \E w \in T!Pusher : T!Draw(w) \/ T!Complete(w) \/ T!Crash(w) \/ \E t \in Triggered : T!Edit(w, t)
           \/ \E t \in Triggered : T!Reconcile(t) \/ T!ComesDue(t) \/ T!Expire(t)
    PROVE  TriggerInv'
<1> USE DEF TriggerInv
<1>1. Loop \in T!Pusher
  BY DEF T!Pusher
<1>2. ASSUME NEW w \in T!Pusher, NEW t \in Triggered, T!Edit(w, t) PROVE TriggerInv'
  <2>1. PICK time \in Time \union {None} :
          /\ want' = [want EXCEPT ![t] = time]
          /\ pusher' = [pusher EXCEPT ![w] = [task |-> t, time |-> time, seen |-> {}, at |-> "enqueued"]]
    BY <1>2 DEF T!Edit
  <2>2. CallTypes'
    BY <1>2, <2>1, CallMoved, CallMade, NoBlocks DEF T!Edit
  <2>3. QueueTypes'
    BY <1>2, <2>1, SchedulingAssumption DEF T!ConstantsFit, T!Edit, T!Edited, QueueTypes
  <2>4. TableTypes'
    BY <1>2, TableStays DEF T!Edit
  <2>5. QED BY <2>2, <2>3, <2>4
<1>3. ASSUME NEW w \in T!Pusher, T!Draw(w) PROVE TriggerInv'
  <2>1. TableTypes'
    BY <1>3, TableStays DEF T!Draw
  <2>2. PICK c \in T!Call : c = pusher[w]
    BY <1>3 DEF T!Draw, T!At, CallTypes
  <2>3. c.task \in Triggered /\ c # None
    BY CallFields
  <2>4. want[c.task] \in Time \union {None}
    BY <2>3 DEF QueueTypes
  <2>5. CASE due[c.task] /\ lease[c.task] = None
    <3>1. /\ lease' = [lease EXCEPT ![c.task] = w]
          /\ pusher' = [pusher EXCEPT ![w] = [c EXCEPT !.at = T!First, !.time = want[c.task]]]
      BY <1>3, <2>2, <2>5 DEF T!Draw
    <3>2. QueueTypes'
      BY <1>3, <2>3, <3>1 DEF T!Draw, QueueTypes
    <3>3. T!First \in {"reading", "pushing"} /\ (T!First = "reading" <=> platform = "linux")
      BY DEF T!First
    <3>4. OneBlock(c.seen)
      BY <2>2, <2>3 DEF CallTypes
    <3>5. PICK first \in {"reading", "pushing"} : first = T!First
      BY <3>3
    <3>6. PICK time \in Time \union {None} : time = want[c.task]
      BY <2>4
    <3> DEFINE drawn == [c EXCEPT !.at = first, !.time = time]
    <3>7. drawn \in T!Call /\ drawn.at = first /\ drawn.seen = c.seen
      BY CallTimed DEF T!Call
    <3>8. pusher' = [pusher EXCEPT ![w] = drawn]
      BY <3>1, <3>5, <3>6
    <3> HIDE DEF drawn
    <3>9. CallTypes'
      BY <1>3, <3>3, <3>4, <3>5, <3>7, <3>8, CallMoved DEF T!Draw
    <3>10. QED BY <2>1, <3>2, <3>9
  <2>6. CASE ~(due[c.task] /\ lease[c.task] = None)
    <3>1. pusher' = [pusher EXCEPT ![w] = None] /\ UNCHANGED lease
      BY <1>3, <2>2, <2>6 DEF T!Draw
    <3>2. CallTypes'
      BY <1>3, <3>1, CallMoved DEF T!Draw
    <3>3. QueueTypes'
      BY <1>3, <3>1, QueueStays DEF T!Draw
    <3>4. QED BY <2>1, <3>2, <3>3
  <2>7. QED BY <2>5, <2>6
<1>4. ASSUME NEW w \in T!Pusher, T!Complete(w) PROVE TriggerInv'
  <2>1. CallTypes'
    BY <1>4, CallMoved DEF T!Complete
  <2>2. TableTypes'
    BY <1>4, TableStays DEF T!Complete
  <2>3. T!DueAgain(w) \in BOOLEAN
    BY DEF T!DueAgain
  <2>4. QueueTypes'
    BY <1>4, <2>3 DEF T!Complete, QueueTypes
  <2>5. QED BY <2>1, <2>2, <2>4
<1>5. ASSUME NEW w \in T!Pusher, T!Crash(w) PROVE TriggerInv'
  <2>1. CallTypes'
    BY <1>5, CallMoved DEF T!Crash
  <2>2. QueueTypes'
    BY <1>5, FaultCounted DEF T!Crash, QueueTypes
  <2>3. QED BY <1>5, <2>1, <2>2, TableStays DEF T!Crash
<1>6. ASSUME NEW t \in Triggered, T!Reconcile(t) PROVE TriggerInv'
  <2>1. T!First \in {"reading", "pushing"} /\ (T!First = "reading" <=> platform = "linux")
    BY DEF T!First
  <2>2. want[t] \in Time \union {None}
    BY DEF QueueTypes
  <2>3. CallTypes'
    BY <1>1, <1>6, <2>1, <2>2, CallMade, CallMoved, NoBlocks DEF T!Reconcile
  <2>4. QueueTypes'
    BY <1>1, <1>6 DEF T!Reconcile, QueueTypes
  <2>5. QED BY <1>6, <2>3, <2>4, TableStays DEF T!Reconcile
<1>7. ASSUME NEW t \in Triggered, T!ComesDue(t) PROVE TriggerInv'
  BY <1>7, CallsStay, TableStays DEF T!ComesDue, QueueTypes
<1>8. ASSUME NEW t \in Triggered, T!Expire(t) PROVE TriggerInv'
  <2>1. T!Faulted \/ UNCHANGED triggerFaults
    BY <1>8 DEF T!Expire
  <2>2. QueueTypes'
    BY <1>8, <2>1, FaultCounted DEF T!Expire, QueueTypes
  <2>3. QED BY <1>8, <2>2, CallsStay, TableStays DEF T!Expire
<1>9. QED BY <1>2, <1>3, <1>4, <1>5, <1>6, <1>7, <1>8


\* The crontab: listed, rewritten, edited by hand.
LEMMA CrontabSteps ==
    ASSUME TriggerInv,
           (\E w \in T!Pusher : T!ReadTab(w) \/ T!WriteTab(w)) \/ T!EditTab
    PROVE  TriggerInv'
<1> USE DEF TriggerInv
<1>1. ASSUME NEW w \in T!Pusher, T!ReadTab(w) PROVE TriggerInv'
  <2>1. PICK c \in T!Call : c = pusher[w]
    BY <1>1 DEF T!ReadTab, T!At, CallTypes
  <2>2. c # None /\ OneBlock(c.seen) /\ platform = "linux"
    BY <1>1, <2>1, CallFields DEF T!ReadTab, CallTypes, T!At
  <2>3. QueueTypes'
    BY <1>1, FaultCounted DEF T!ReadTab, QueueTypes
  <2>4. TableTypes'
    BY <1>1, TableStays DEF T!ReadTab
  <2>5. PICK lines \in SUBSET T!Line :
          /\ OneBlock(lines)
          /\ pusher' = [pusher EXCEPT ![w] = [c EXCEPT !.at = "writing", !.seen = lines]]
    <3>1. CASE pusher' = [pusher EXCEPT ![w].at = "writing", ![w].seen = crontab]
      <4>1. pusher' = [pusher EXCEPT ![w] = [c EXCEPT !.at = "writing", !.seen = crontab]]
        BY <2>1, <3>1 DEF CallTypes
      <4>2. QED BY <4>1 DEF TableTypes
    <3>2. CASE pusher' = [pusher EXCEPT ![w].at = "writing"]
      <4>1. pusher' = [pusher EXCEPT ![w] = [c EXCEPT !.at = "writing"]]
        BY <2>1, <3>2 DEF CallTypes
      <4>2. [c EXCEPT !.at = "writing"] = [c EXCEPT !.at = "writing", !.seen = c.seen]
        BY DEF T!Call
      <4>3. c.seen \in SUBSET T!Line
        BY CallFields
      <4>4. QED BY <2>2, <4>1, <4>2, <4>3
    <3>3. QED BY <1>1, <3>1, <3>2 DEF T!ReadTab
  <2> DEFINE listed == [c EXCEPT !.at = "writing", !.seen = lines]
  <2>6. listed \in T!Call /\ listed.at = "writing" /\ listed.seen = lines
    BY CallListed
  <2>7. pusher' = [pusher EXCEPT ![w] = listed]
    BY <2>5
  <2> HIDE DEF listed
  <2>8. CallTypes'
    BY <1>1, <2>2, <2>5, <2>6, <2>7, CallMoved DEF T!ReadTab
  <2>9. QED BY <2>3, <2>4, <2>8
<1>2. ASSUME NEW w \in T!Pusher, T!WriteTab(w) PROVE TriggerInv'
  <2>1. PICK c \in T!Call : c = pusher[w]
    BY <1>2 DEF T!WriteTab, T!At, CallTypes
  <2>2. c # None /\ OneBlock(c.seen) /\ platform = "linux"
    BY <1>2, <2>1, CallFields DEF T!WriteTab, CallTypes, T!At
  <2>3. QueueTypes'
    BY <1>2, FaultCounted DEF T!WriteTab, QueueTypes
  <2>4. TableTypes'
    <3>1. CASE crontab' = T!Rewritten(c)
      BY <1>2, <2>2, <3>1, RewrittenFits DEF T!WriteTab, TableTypes, OneBlock
    <3>2. CASE crontab' = crontab
      BY <1>2, <3>2, TableStays DEF T!WriteTab
    <3>3. QED BY <1>2, <2>1, <3>1, <3>2 DEF T!WriteTab
  <2>5. PICK s \in {"ok", "failed"} : pusher' = [pusher EXCEPT ![w] = [c EXCEPT !.at = s]]
    BY <1>2, <2>1 DEF T!WriteTab
  <2> DEFINE done == [c EXCEPT !.at = s]
  <2>6. done \in T!Call /\ done.at = s /\ done.seen = c.seen
    BY CallMoves DEF T!Call
  <2>7. pusher' = [pusher EXCEPT ![w] = done]
    BY <2>5
  <2> HIDE DEF done
  <2>8. CallTypes'
    BY <1>2, <2>2, <2>5, <2>6, <2>7, CallMoved DEF T!WriteTab
  <2>9. QED BY <2>3, <2>4, <2>8
<1>3. ASSUME T!EditTab PROVE TriggerInv'
  <2>1. PICK f \in Foreign : crontab' = crontab \union {f}
    BY <1>3 DEF T!EditTab
  <2>2. f \in T!Line /\ \A t \in Triggered : f \notin {t} \X Time
    BY SchedulingAssumption DEF T!ConstantsFit, T!Line, T!Block
  <2>3. OneBlock(crontab')
    BY <2>1, <2>2 DEF TableTypes, OneBlock, T!BlocksOf
  <2>4. TableTypes'
    BY <1>3, <2>1, <2>2, <2>3 DEF T!EditTab, TableTypes, OneBlock
  <2>5. QueueTypes'
    BY <1>3, SchedulingAssumption DEF T!ConstantsFit, T!EditTab, T!Edited, QueueTypes
  <2>6. QED BY <1>3, <2>4, <2>5, CallsStay DEF T!EditTab
<1>4. QED BY <1>1, <1>2, <1>3

\* Windows and the cloud: the trigger of one task, and what the call comes to.
LEMMA SourceSteps ==
    ASSUME TriggerInv, NEW w \in T!Pusher,
           T!PushWindows(w) \/ T!PushCloud(w) \/ T!CreateSource(w)
    PROVE  TriggerInv'
<1> USE DEF TriggerInv
<1>1. PICK c \in T!Call : c = pusher[w]
  BY DEF T!PushWindows, T!PushCloud, T!CreateSource, T!At, CallTypes
<1>2. c # None /\ c.task \in Triggered /\ c.time \in Time \union {None} /\ OneBlock(c.seen)
  BY <1>1, CallFields DEF CallTypes
<1>3. platform # "linux"
  BY DEF T!PushWindows, T!PushCloud, T!CreateSource, CallTypes
<1>4. UNCHANGED <<platform, want, due, lease, crontab, triggerEdits>>
  BY DEF T!PushWindows, T!PushCloud, T!CreateSource
<1>5. T!Faulted \/ UNCHANGED triggerFaults
  BY DEF T!PushWindows, T!PushCloud, T!CreateSource
<1>6. UNCHANGED source \/ source' = [source EXCEPT ![c.task] = c.time]
  BY <1>1 DEF T!PushWindows, T!PushCloud, T!CreateSource, T!Set
<1>7. PICK s \in {"ok", "failed", "creating"} : pusher' = [pusher EXCEPT ![w] = [c EXCEPT !.at = s]]
  BY <1>1 DEF T!PushWindows, T!PushCloud, T!CreateSource, T!Set, T!MissingGoes
<1>8. QueueTypes'
  BY <1>4, <1>5, FaultCounted DEF QueueTypes
<1>9. TableTypes'
  BY <1>2, <1>3, <1>4, <1>6 DEF TableTypes, OneBlock
<1> DEFINE done == [c EXCEPT !.at = s]
<1>10. done \in T!Call /\ done.at = s /\ done.seen = c.seen
  BY CallMoves DEF T!Call
<1>11. pusher' = [pusher EXCEPT ![w] = done]
  BY <1>7
<1> HIDE DEF done
<1>12. CallTypes'
  BY <1>2, <1>3, <1>4, <1>7, <1>10, <1>11, CallMoved
<1>13. QED BY <1>8, <1>9, <1>12

LEMMA TriggerNext == TriggerInv /\ [T!Next]_triggers => TriggerInv'
<1>1. ASSUME TriggerInv, UNCHANGED triggers PROVE TriggerInv'
  BY <1>1, CallsStay, QueueStays, TableStays DEF TriggerInv, triggers
<1>2. QED BY <1>1, AroundTheCall, CrontabSteps, SourceSteps DEF T!Next, T!Step

LEMMA TriggerSteps == AllSpec => []TriggerInv /\ [][T!Next]_triggers
<1>1. [AllNext]_all => [T!Next]_triggers
  BY DEF AllNext, Queue, Triggers, Tasks, all
<1>2. QED BY <1>1, TriggerInit, TriggerNext, PTL DEF AllSpec

LEMMA SameBlockCount == \A S : T!Cardinality(S) = Cardinality(S)
BY DEF T!Cardinality, Cardinality

\* The invariant gives the types, blocks counted.
LEMMA TriggersTyped == TriggerInv => T!TypeOK
<1> SUFFICES ASSUME TriggerInv PROVE T!TypeOK
  OBVIOUS
<1> USE DEF TriggerInv
<1>1. ASSUME NEW t \in Triggered PROVE Cardinality(T!BlocksOf(crontab, t)) <= 1
  <2>1. CASE T!BlocksOf(crontab, t) = {}
    BY <2>1, FS_EmptySet
  <2>2. CASE T!BlocksOf(crontab, t) # {}
    <3>1. PICK b \in T!BlocksOf(crontab, t) : T!BlocksOf(crontab, t) = {b}
      BY <2>2 DEF TableTypes, OneBlock
    <3>2. QED BY <3>1, FS_Singleton
  <2>3. QED BY <2>1, <2>2
<1>2. /\ pusher \in [T!Pusher -> T!Call \union {None}]
      /\ pusher[Loop] # None => pusher[Loop].at # "enqueued"
  BY DEF CallTypes
<1>3. /\ want \in [Triggered -> Time \union {None}]
      /\ due \in [Triggered -> BOOLEAN]
      /\ lease \in [Triggered -> T!Pusher \union {None}]
      /\ triggerEdits \in 0 .. MaxTriggerEdits /\ triggerFaults \in 0 .. MaxTriggerFaults
  BY DEF QueueTypes
<1>4. /\ platform \in T!Platform
      /\ crontab \subseteq T!Line
      /\ source \in [Triggered -> Time \union {None}]
      /\ platform = "linux" => \A t \in Triggered : source[t] = None
      /\ platform # "linux" => crontab \subseteq Foreign
  BY DEF TableTypes
<1>5. \A t \in Triggered : T!Cardinality(T!BlocksOf(crontab, t)) <= 1
  BY <1>1, SameBlockCount
<1> HIDE DEF TriggerInv
<1>6. QED BY <1>2, <1>3, <1>4, <1>5, Zenon DEF T!TypeOK

\* Only the write of a worker itself takes its call from writing to done.
LEMMA WriteIsItsOwn ==
    ASSUME TriggerInv, T!Next, NEW w \in T!Pusher, T!At(w, "writing"), T!At(w, "ok")'
    PROVE  T!WriteTab(w)
<1> USE DEF TriggerInv
<1>1. pusher[w] # None /\ pusher[w].at = "writing" /\ pusher' # pusher /\ pusher'[w] # pusher[w]
  BY DEF T!At
<1>2. ASSUME NEW v \in T!Pusher, T!Step(v) \/ T!Crash(v) \/ \E t \in Triggered : T!Edit(v, t)
      PROVE  v = w
  BY <1>1, <1>2 DEF T!Step, T!Crash, T!Edit, T!Draw, T!Complete, T!ReadTab, T!WriteTab,
                    T!PushWindows, T!PushCloud, T!CreateSource, T!Set, CallTypes
<1>3. ASSUME NEW t \in Triggered, T!Reconcile(t) \/ T!ComesDue(t) \/ T!Expire(t) PROVE FALSE
  BY <1>1, <1>3 DEF T!Reconcile, T!ComesDue, T!Expire, CallTypes
<1>4. ~T!EditTab
  BY <1>1 DEF T!EditTab
<1>5. T!Step(w) \/ T!Crash(w) \/ \E t \in Triggered : T!Edit(w, t)
  BY <1>2, <1>3, <1>4 DEF T!Next
<1>6. QED BY <1>1, <1>5 DEF T!Step, T!Crash, T!Edit, T!Draw, T!Complete, T!ReadTab, T!At, T!PushWindows,
                           T!PushCloud, T!CreateSource, CallTypes

\* The lines written back from a listing differ from it in the task's own block.
LEMMA RewriteKeepsOthers ==
    ASSUME NEW c \in T!Call
    PROVE  T!Rewritten(c) \ T!BlocksOf(T!Rewritten(c), c.task) = c.seen \ T!BlocksOf(c.seen, c.task)
<1>1. c.time \in Time \union {None}
  BY CallFields
<1>2. QED BY <1>1 DEF T!Rewritten, T!Stripped, T!BlocksOf


-----------------------------------------------------------------------------
(* The calendar, and what cron_utils computes. *)

LEMMA Product ==
    ASSUME NEW a \in Nat \ {0}, NEW b \in Nat \ {0}
    PROVE  a * b \in Nat \ {0}
OBVIOUS

LEMMA CalendarNumbers ==
    /\ MinutesPerHour \in Nat \ {0} /\ HoursPerDay \in Nat \ {0} /\ DaysPerMonth \in Nat \ {0}
    /\ MonthsPerYear \in Nat \ {0} /\ DaysPerWeek \in Nat \ {0}
BY CalendarAssumption

LEMMA CalendarCounts ==
    /\ MinutesPerDay \in Nat \ {0} /\ Period \in Nat \ {0}
    /\ MinutesPerDay * DaysPerMonth \in Nat \ {0}
<1>1. MinutesPerDay \in Nat \ {0}
  BY CalendarAssumption, Product DEF MinutesPerDay
<1>2. MinutesPerDay * DaysPerMonth \in Nat \ {0}
  BY <1>1, CalendarAssumption, Product
<1>3. MinutesPerDay * DaysPerMonth * MonthsPerYear \in Nat \ {0}
  BY <1>2, CalendarAssumption, Product
<1>4. QED BY <1>1, <1>2, <1>3 DEF Period

LEMMA Remainder ==
    ASSUME NEW a \in Int, NEW n \in Nat \ {0}
    PROVE  a % n \in 0 .. n - 1
OBVIOUS

LEMMA ClockTimes ==
    /\ Times \subseteq Nat /\ 0 \in Times /\ -1 \notin Times
    /\ \A a \in Int : a % Period \in Times
BY CalendarCounts, Remainder DEF Times

\* The least of a set of numbers.
Least(S) == CHOOSE x \in S : \A y \in S : x <= y

LEMMA LeastExists ==
    ASSUME NEW S \in SUBSET Nat, S # {}
    PROVE  Least(S) \in S /\ \A k \in S : Least(S) <= k
<1>1. PICK least \in S : \A k \in S : <<k, least>> \notin OpToRel(<, Nat)
  BY WFMin, NatLessThanWellFounded
<1>2. ASSUME NEW k \in S, k < least PROVE FALSE
  <2>1. <<k, least>> \in Nat \X Nat /\ <<k, least>>[1] = k /\ <<k, least>>[2] = least
    OBVIOUS
  <2>2. <<k, least>> \in OpToRel(<, Nat)
    BY <1>2, <2>1, Zenon DEF OpToRel
  <2>3. QED BY <1>1, <2>2
<1>3. \A k \in S : least <= k
  BY <1>2
<1>4. QED BY <1>3 DEF Least

\* A number has one quotient and one remainder.
LEMMA Division ==
    ASSUME NEW n \in Nat \ {0}, NEW u \in Int, NEW s \in 0 .. n - 1
    PROVE  (n * u + s) % n = s
OBVIOUS

LEMMA Divided ==
    ASSUME NEW a \in Nat, NEW n \in Nat \ {0}
    PROVE  a = n * (a \div n) + (a % n) /\ a \div n \in Nat /\ a % n \in 0 .. n - 1
OBVIOUS

\* The remainder of a remainder, when one divisor divides the other.
LEMMA Nested ==
    ASSUME NEW a \in Nat, NEW n \in Nat \ {0}, NEW q \in Nat \ {0}
    PROVE  (a % (n * q)) % n = a % n
<1> DEFINE m == n * q
<1>1. m \in Nat \ {0}
  BY Product
<1> HIDE DEF m
<1> DEFINE d == a \div m
           r == a % m
<1>2. a = m * d + r /\ d \in Nat /\ r \in Nat
  BY <1>1, Divided
<1> HIDE DEF d, r
<1> DEFINE e == r \div n
           s == r % n
<1>3. r = n * e + s /\ e \in Nat /\ s \in 0 .. n - 1
  BY <1>2, Divided
<1> HIDE DEF e, s
<1>4. m * d = n * (q * d)
  BY <1>2 DEF m
<1>5. q * d \in Nat
  BY <1>2
<1>6. n * (q * d + e) = n * (q * d) + n * e
  BY <1>3, <1>5
<1>7. q * d + e \in Int
  BY <1>3, <1>5
<1>8. n * (q * d) \in Nat /\ n * e \in Nat
  BY <1>3, <1>5
<1>9. a = n * (q * d + e) + s
  BY <1>2, <1>3, <1>4, <1>6, <1>8
<1>10. a % n = s
  BY <1>3, <1>7, <1>9, Division
<1>11. QED BY <1>10 DEF s, r, m

\* The time of the first match among k, k + 1, ..., Lookahead, or -1.
FirstFrom(e, t, k) ==
    LET ahead == {j \in k .. Lookahead : Matches(e, Cursor(t, j))}
    IN  IF ahead = {} THEN -1 ELSE Cursor(t, Least(ahead))

LEMMA LookaheadFits ==
    Lookahead \in Nat /\ Lookahead >= Period /\ 1 \in 1 .. Lookahead + 1
BY CalendarAssumption DEF Period, MinutesPerDay

LEMMA FirstFromIs ==
    ASSUME NEW e, NEW t, NEW k \in 1 .. Lookahead + 1
    PROVE  \/ /\ FirstFrom(e, t, k) = -1
              /\ \A j \in k .. Lookahead : ~Matches(e, Cursor(t, j))
           \/ \E j \in k .. Lookahead :
                /\ FirstFrom(e, t, k) = Cursor(t, j) /\ Matches(e, Cursor(t, j))
                /\ \A i \in k .. Lookahead : Matches(e, Cursor(t, i)) => j <= i
<1> DEFINE ahead == {j \in k .. Lookahead : Matches(e, Cursor(t, j))}
<1>1. FirstFrom(e, t, k) = IF ahead = {} THEN -1 ELSE Cursor(t, Least(ahead))
  BY DEF FirstFrom
<1>2. CASE ahead = {}
  BY <1>1, <1>2
<1>3. CASE ahead # {}
  <2>1. ahead \in SUBSET Nat
    BY LookaheadFits
  <2>2. Least(ahead) \in ahead /\ \A j \in ahead : Least(ahead) <= j
    <3> HIDE DEF ahead
    <3>1. QED BY <1>3, <2>1, LeastExists
  <2>3. QED BY <1>1, <1>3, <2>2
<1>4. QED BY <1>2, <1>3

\* One turn of the loop: this minute, or what the rest finds.
LEMMA FirstFromStep ==
    ASSUME NEW e, NEW t, NEW k \in 1 .. Lookahead + 1
    PROVE  FirstFrom(e, t, k) =
             IF k > Lookahead THEN -1
             ELSE IF Matches(e, Cursor(t, k)) THEN Cursor(t, k) ELSE FirstFrom(e, t, k + 1)
<1> DEFINE Ahead(i) == {j \in i .. Lookahead : Matches(e, Cursor(t, j))}
<1>1. \A i : FirstFrom(e, t, i) = IF Ahead(i) = {} THEN -1 ELSE Cursor(t, Least(Ahead(i)))
  BY DEF FirstFrom
<1>2. CASE k > Lookahead
  <2>1. k .. Lookahead = {}
    BY <1>2, LookaheadFits
  <2>2. Ahead(k) = {}
    BY <2>1
  <2>3. QED BY <1>1, <1>2, <2>2
<1>3. CASE ~(k > Lookahead) /\ Matches(e, Cursor(t, k))
  <2>1. k \in k .. Lookahead
    BY <1>3, LookaheadFits
  <2>2. k \in Ahead(k) /\ \A j \in Ahead(k) : k <= j
    BY <1>3, <2>1
  <2>3. Ahead(k) \in SUBSET Nat /\ Ahead(k) # {}
    BY <2>2, LookaheadFits
  <2>4. Least(Ahead(k)) \in Ahead(k) /\ Least(Ahead(k)) <= k /\ k <= Least(Ahead(k))
    <3>1. Least(Ahead(k)) \in Ahead(k) /\ \A j \in Ahead(k) : Least(Ahead(k)) <= j
      <4> HIDE DEF Ahead
      <4>1. QED BY <2>3, LeastExists
    <3>2. QED BY <2>2, <3>1
  <2>5. Least(Ahead(k)) \in Int
    BY <2>3, <2>4
  <2>6. Least(Ahead(k)) = k
    <3> HIDE DEF Ahead
    <3>1. k \in Int
      BY LookaheadFits
    <3>2. QED BY <2>4, <2>5, <3>1
  <2>7. QED
    <3> HIDE DEF Ahead
    <3>1. QED BY <1>1, <1>3, <2>3, <2>6
<1>4. CASE ~(k > Lookahead) /\ ~Matches(e, Cursor(t, k))
  <2>1. Ahead(k) = Ahead(k + 1)
    <3>1. ASSUME NEW j \in Ahead(k) PROVE j \in Ahead(k + 1)
      BY <1>4, LookaheadFits
    <3>2. ASSUME NEW j \in Ahead(k + 1) PROVE j \in Ahead(k)
      BY LookaheadFits
    <3>3. QED BY <3>1, <3>2
  <2>2. FirstFrom(e, t, k) = FirstFrom(e, t, k + 1)
    BY <1>1, <2>1
  <2>3. QED BY <1>4, <2>2
<1>5. QED BY <1>2, <1>3, <1>4

\* The loop of next_after finds the first match: the function that its recursion
\* defines exists, and a turn that went wrong would have a next one that did.
LEMMA LoopFindsFirst ==
    ASSUME NEW e, NEW t
    PROVE  NextAfter(e, t) = FirstFrom(e, t, 1)
<1> DEFINE L == 1 .. Lookahead + 1
           Turn(f, k) == IF k > Lookahead THEN -1
                         ELSE IF Matches(e, Cursor(t, k)) THEN Cursor(t, k) ELSE f[k + 1]
           Found == CHOOSE f : f = [k \in L |-> Turn(f, k)]
           g == [k \in L |-> FirstFrom(e, t, k)]
<1>1. NextAfter(e, t) = Found[1]
  BY DEF NextAfter
<1>2. \A k \in L : k <= Lookahead => k + 1 \in L
  BY LookaheadFits
<1>3. \A k \in L : g[k] = Turn(g, k)
  <2> SUFFICES ASSUME NEW k \in L PROVE g[k] = Turn(g, k)
    OBVIOUS
  <2>1. g[k] = FirstFrom(e, t, k)
    OBVIOUS
  <2>2. CASE k > Lookahead
    BY <2>1, <2>2, FirstFromStep
  <2>3. CASE ~(k > Lookahead)
    <3>1. k <= Lookahead
      BY <2>3, LookaheadFits
    <3>2. g[k + 1] = FirstFrom(e, t, k + 1)
      BY <1>2, <3>1
    <3>3. QED BY <2>1, <2>3, <3>2, FirstFromStep
  <2>4. QED BY <2>2, <2>3
<1>4. g = [k \in L |-> Turn(g, k)]
  BY <1>3
<1> HIDE DEF Turn
<1>5. Found = [k \in L |-> Turn(Found, k)]
  <2> HIDE DEF g
  <2>1. \E f : f = [k \in L |-> Turn(f, k)]
    BY <1>4
  <2>2. QED BY <2>1
<1> HIDE DEF Found
<1>6. \A k \in L : Found[k] = Turn(Found, k)
  BY <1>5
<1> DEFINE wrong == {d \in 0 .. Lookahead : Found[Lookahead + 1 - d] # g[Lookahead + 1 - d]}
<1>7. wrong = {}
  <2> SUFFICES ASSUME wrong # {} PROVE FALSE
    OBVIOUS
  <2>1. wrong \in SUBSET Nat
    BY LookaheadFits
  <2>2. Least(wrong) \in wrong /\ \A d \in wrong : Least(wrong) <= d
    <3> HIDE DEF wrong
    <3>1. QED BY <2>1, LeastExists
  <2>3. PICK d \in 0 .. Lookahead :
          /\ Found[Lookahead + 1 - d] # g[Lookahead + 1 - d]
          /\ \A c \in wrong : d <= c
    BY <2>2
  <2>4. PICK k \in L : k = Lookahead + 1 - d /\ k \in Nat
    <3>1. Lookahead + 1 - d \in L
      BY LookaheadFits
    <3>2. QED BY <3>1, LookaheadFits
  <2>5. Found[k] # g[k] /\ Found[k] = Turn(Found, k) /\ g[k] = Turn(g, k)
    <3> HIDE DEF g
    <3>1. QED BY <1>3, <1>6, <2>3, <2>4
  <2>6. CASE k > Lookahead
    BY <2>5, <2>6 DEF Turn
  <2>7. CASE ~(k > Lookahead)
    <3>1. d - 1 \in 0 .. Lookahead /\ Lookahead + 1 - (d - 1) = k + 1 /\ ~(d <= d - 1)
      BY <2>4, <2>7, LookaheadFits
    <3>2. d - 1 \notin wrong
      BY <2>3, <3>1
    <3>3. Found[k + 1] = g[k + 1]
      BY <3>1, <3>2
    <3>4. Turn(Found, k) = Turn(g, k)
      <4> HIDE DEF g
      <4>1. QED BY <3>3 DEF Turn
    <3>5. QED BY <2>5, <3>4
  <2>8. QED BY <2>6, <2>7
<1>8. Found[1] = g[1]
  <2>1. Lookahead \in 0 .. Lookahead /\ Lookahead + 1 - Lookahead = 1
    BY LookaheadFits
  <2>2. QED BY <1>7, <2>1
<1>9. QED BY <1>1, <1>8, LookaheadFits

\* What the search of next_after returns.
LEMMA NextIsFirst ==
    ASSUME NEW e, NEW t \in Times
    PROVE  \/ /\ NextAfter(e, t) = -1
              /\ \A k \in 1 .. Lookahead : ~Matches(e, Cursor(t, k))
           \/ \E k \in 1 .. Lookahead :
                /\ NextAfter(e, t) = Cursor(t, k)
                /\ NextAfter(e, t) \in Times /\ Matches(e, NextAfter(e, t))
                /\ \A j \in 1 .. k - 1 : ~Matches(e, Cursor(t, j))
<1>1. NextAfter(e, t) = FirstFrom(e, t, 1)
  BY LoopFindsFirst
<1>2. CASE /\ FirstFrom(e, t, 1) = -1
           /\ \A k \in 1 .. Lookahead : ~Matches(e, Cursor(t, k))
  BY <1>1, <1>2
<1>3. ASSUME NEW k \in 1 .. Lookahead,
             FirstFrom(e, t, 1) = Cursor(t, k), Matches(e, Cursor(t, k)),
             \A i \in 1 .. Lookahead : Matches(e, Cursor(t, i)) => k <= i
      PROVE  /\ NextAfter(e, t) = Cursor(t, k)
             /\ NextAfter(e, t) \in Times /\ Matches(e, NextAfter(e, t))
             /\ \A j \in 1 .. k - 1 : ~Matches(e, Cursor(t, j))
  <2>1. t + k \in Int
    BY LookaheadFits, ClockTimes
  <2>2. Cursor(t, k) \in Times
    BY <2>1, ClockTimes DEF Cursor
  <2>3. ASSUME NEW j \in 1 .. k - 1 PROVE ~Matches(e, Cursor(t, j))
    <3>1. j \in 1 .. Lookahead /\ ~(k <= j)
      BY LookaheadFits
    <3>2. QED BY <1>3, <3>1
  <2>4. QED BY <1>1, <1>3, <2>2, <2>3
<1>4. \/ /\ FirstFrom(e, t, 1) = -1
         /\ \A k \in 1 .. Lookahead : ~Matches(e, Cursor(t, k))
      \/ \E j \in 1 .. Lookahead :
           /\ FirstFrom(e, t, 1) = Cursor(t, j) /\ Matches(e, Cursor(t, j))
           /\ \A i \in 1 .. Lookahead : Matches(e, Cursor(t, i)) => j <= i
  BY FirstFromIs, LookaheadFits
<1>5. QED BY <1>2, <1>3, <1>4

LEMMA NextTabled ==
    ASSUME NEW e \in Exprs, NEW t \in Times
    PROVE  /\ NextTable[e][t] \in Times \union {-1}
           /\ e \in ValidExprs /\ NextTable[e][t] # -1 => NextTable[e][t] \in MatchTable[e]
<1>1. CASE Valid(e)
  BY <1>1, NextIsFirst DEF NextTable, MatchTable
<1>2. CASE ~Valid(e)
  BY <1>2 DEF NextTable, ValidExprs
<1>3. QED BY <1>1, <1>2

\* A field that is "*/n" holds the multiples of n from its first value on.
LEMMA StarredField ==
    ASSUME NEW lo \in Nat, NEW hi \in Nat, lo <= hi, NEW n \in Nat \ {0}
    PROVE  ParseField({Star(n)}, lo, hi) = {v \in lo .. hi : (v - lo) % n = 0}
<1>1. Star(n).base = "star" /\ Star(n).step = n
  BY DEF Star
<1>2. ItemFrom(Star(n), lo) = lo /\ ItemTo(Star(n), hi) = hi
  BY <1>1 DEF ItemFrom, ItemTo
<1>3. {i \in {Star(n)} : i.step > 0} = {Star(n)}
  BY <1>1
<1> DEFINE Values(i) == {v \in ItemFrom(i, lo) .. ItemTo(i, hi) : (v - ItemFrom(i, lo)) % i.step = 0}
<1>4. Values(Star(n)) = {v \in lo .. hi : (v - lo) % n = 0}
  BY <1>1, <1>2
<1>5. Values(Star(n)) \subseteq lo .. hi
  BY <1>4
<1>6. UNION {Values(i) : i \in {Star(n)}} = Values(Star(n))
  OBVIOUS
<1>7. ~(\E i \in {Star(n)} : ItemFrom(i, lo) > ItemTo(i, hi))
  BY <1>2
<1>8. ParseField({Star(n)}, lo, hi) = UNION {Values(i) : i \in {Star(n)}}
  <2> HIDE DEF Values
  <2>1. ParseField({Star(n)}, lo, hi) =
          IF \/ {Star(n)} = {} \/ {i \in {Star(n)} : i.step > 0} # {Star(n)}
             \/ \E i \in {Star(n)} : ItemFrom(i, lo) > ItemTo(i, hi)
             \/ \E i \in {Star(n)} : ~(Values(i) \subseteq lo .. hi)
          THEN Invalid ELSE UNION {Values(i) : i \in {Star(n)}}
    BY DEF ParseField, Values
  <2>2. QED BY <1>3, <1>5, <1>7, <2>1
<1>9. QED BY <1>4, <1>6, <1>8

LEMMA StarIsAll ==
    ASSUME NEW lo \in Nat, NEW hi \in Nat, lo <= hi
    PROVE  ParseField({Star(1)}, lo, hi) = lo .. hi
<1>1. \A v \in lo .. hi : (v - lo) % 1 = 0
  OBVIOUS
<1>2. 1 \in Nat \ {0}
  OBVIOUS
<1>3. ParseField({Star(1)}, lo, hi) = {v \in lo .. hi : (v - lo) % 1 = 0}
  BY <1>2, StarredField
<1>4. QED BY <1>1, <1>3

\* The parts of a time lie in their fields.
LEMMA TimeParts ==
    ASSUME NEW t \in Times
    PROVE  /\ MinuteOf(t) \in 0 .. MinutesPerHour - 1 /\ HourOf(t) \in 0 .. HoursPerDay - 1
           /\ MonthOf(t) \in 1 .. MonthsPerYear
<1>1. t \in Nat
  BY ClockTimes
<1>2. t \div MinutesPerHour \in Int /\ t \div (MinutesPerDay * DaysPerMonth) \in Int
  BY <1>1, Divided, CalendarNumbers, CalendarCounts
<1>3. MinuteOf(t) \in 0 .. MinutesPerHour - 1
  BY <1>1, CalendarNumbers, Remainder DEF MinuteOf
<1>4. HourOf(t) \in 0 .. HoursPerDay - 1
  BY <1>2, CalendarNumbers, Remainder DEF HourOf
<1>5. (t \div (MinutesPerDay * DaysPerMonth)) % MonthsPerYear \in 0 .. MonthsPerYear - 1
  BY <1>2, CalendarNumbers, Remainder
<1>6. MonthOf(t) \in 1 .. MonthsPerYear
  BY <1>5, CalendarNumbers DEF MonthOf
<1>7. QED BY <1>3, <1>4, <1>6

\* A starred hour or month is every one of them.
LEMMA StarredParts ==
    ASSUME NEW e, NEW t \in Times
    PROVE  /\ IsStar(e.hour) => HourOf(t) \in Parsed(e).hour
           /\ IsStar(e.month) => MonthOf(t) \in Parsed(e).month
<1>1. IsStar(e.hour) => Parsed(e).hour = 0 .. HoursPerDay - 1
  <2>1. ParseField({Star(1)}, 0, HoursPerDay - 1) = 0 .. HoursPerDay - 1
    <3>1. HoursPerDay - 1 \in Nat /\ 0 <= HoursPerDay - 1
      BY CalendarNumbers
    <3>2. QED BY <3>1, StarIsAll
  <2>2. QED BY <2>1 DEF IsStar, Parsed
<1>2. IsStar(e.month) => Parsed(e).month = 1 .. MonthsPerYear
  <2>1. ParseField({Star(1)}, 1, MonthsPerYear) = 1 .. MonthsPerYear
    <3>1. 1 \in Nat /\ MonthsPerYear \in Nat /\ 1 <= MonthsPerYear
      BY CalendarNumbers
    <3>2. QED BY <3>1, StarIsAll
  <2>2. QED BY <2>1 DEF IsStar, Parsed
<1>3. QED BY <1>1, <1>2, TimeParts

\* A step is a positive number, and what repeats is "*/n" every hour of every day.
LEMMA StepIs ==
    ASSUME NEW e, Repeats(e)
    PROVE  IsoStep(e.minute) \in Nat \ {0} /\ e.minute = {Star(IsoStep(e.minute))}
<1>1. PICK i \in e.minute : i.step \in Nat \ {0} /\ e.minute = {Star(i.step)}
  <2>1. IsoStep(e.minute) > 0
    BY DEF Repeats
  <2>2. QED BY <2>1 DEF IsoStep
<1>2. (CHOOSE j \in e.minute : TRUE) = Star(i.step)
  BY <1>1
<1>3. Star(i.step).step = i.step
  BY DEF Star
<1>4. IsoStep(e.minute) = i.step
  BY <1>1, <1>2, <1>3 DEF IsoStep
<1>5. QED BY <1>1, <1>4

\* When a repetition matches and when its translation fires.
LEMMA RepetitionIs ==
    ASSUME NEW e, NEW t \in Times, Repeats(e)
    PROVE  /\ Matches(e, t) <=> (t % MinutesPerHour) % IsoStep(e.minute) = 0
           /\ WindowsFires(e, t) <=> (t % MinutesPerDay) % IsoStep(e.minute) = 0
<1> DEFINE n == IsoStep(e.minute)
<1>1. n \in Nat \ {0} /\ e.minute = {Star(n)}
  BY StepIs
<1>2. WindowsFires(e, t) <=> (t % MinutesPerDay) % n = 0
  BY DEF WindowsFires
<1> HIDE DEF n
<1>3. Parsed(e).minute = {v \in 0 .. MinutesPerHour - 1 : (v - 0) % n = 0}
  <2>1. MinutesPerHour - 1 \in Nat /\ 0 <= MinutesPerHour - 1
    BY CalendarNumbers
  <2>2. QED BY <1>1, <2>1, StarredField DEF Parsed
<1>4. MinuteOf(t) \in Parsed(e).minute <=> (t % MinutesPerHour) % n = 0
  BY <1>1, <1>3, TimeParts DEF MinuteOf
<1>5. IsStar(e.hour) /\ IsStar(e.dom) /\ IsStar(e.dow) /\ IsStar(e.month)
  BY DEF Repeats, EveryDay
<1>6. Matches(e, t) <=> MinuteOf(t) \in Parsed(e).minute
  BY <1>5, StarredParts DEF Matches, DayMatches
<1>7. QED BY <1>2, <1>4, <1>6 DEF n

\* A repetition whose step divides the hour falls on the multiples of the step
\* in every hour, wherever the day began.
LEMMA RepetitionAgrees ==
    ASSUME NEW e, NEW t \in Times, Repeats(e), MinutesPerHour % IsoStep(e.minute) = 0
    PROVE  WindowsFires(e, t) <=> Matches(e, t)
<1> DEFINE n == IsoStep(e.minute)
<1>1. n \in Nat \ {0}
  BY StepIs
<1>13. /\ Matches(e, t) <=> (t % MinutesPerHour) % n = 0
       /\ WindowsFires(e, t) <=> (t % MinutesPerDay) % n = 0
  BY RepetitionIs
<1>2. n \in Nat \ {0} /\ MinutesPerHour \in Nat \ {0} /\ HoursPerDay \in Nat \ {0} /\ t \in Nat
  BY <1>1, CalendarNumbers, ClockTimes
<1>14. MinutesPerHour % n = 0
  OBVIOUS
<1> HIDE DEF n
<1> DEFINE q == MinutesPerHour \div n
<1>3. MinutesPerHour = n * q /\ q \in Nat
  <2>1. MinutesPerHour % n = 0
    BY <1>14
  <2>2. MinutesPerHour = n * q + (MinutesPerHour % n) /\ q \in Nat
    BY <1>2, Divided
  <2>3. n * q \in Nat
    BY <1>2, <2>2
  <2> HIDE DEF q
  <2>4. QED BY <2>1, <2>2, <2>3
<1> HIDE DEF q
<1>4. q \in Nat \ {0}
  BY <1>2, <1>3
<1>5. (t % MinutesPerHour) % n = t % n
  BY <1>2, <1>3, <1>4, Nested
<1>6. MinutesPerDay = n * (q * HoursPerDay) /\ q * HoursPerDay \in Nat \ {0}
  BY <1>2, <1>3, <1>4, Product DEF MinutesPerDay
<1>7. (t % MinutesPerDay) % n = t % n
  BY <1>2, <1>6, Nested
<1>8. QED BY <1>5, <1>7, <1>13

\* One whose step does not is missed by the first minute of a day's second hour.
LEMMA RepetitionDrifts ==
    ASSUME NEW e, Repeats(e), HoursPerDay # 1, MinutesPerHour % IsoStep(e.minute) # 0
    PROVE  /\ MinutesPerHour \in Times
           /\ Matches(e, MinutesPerHour) /\ ~WindowsFires(e, MinutesPerHour)
<1> DEFINE n == IsoStep(e.minute)
           m == MinutesPerHour
           rest == DaysPerMonth * MonthsPerYear
<1>1. n \in Nat \ {0} /\ m \in Nat \ {0} /\ HoursPerDay \in Nat \ {0, 1}
  BY StepIs, CalendarNumbers
<1>2. rest \in Nat \ {0}
  BY CalendarNumbers, Product
<1>3. m * HoursPerDay >= m * 2 /\ m * HoursPerDay \in Nat
  BY <1>1
<1>4. m < MinutesPerDay
  BY <1>1, <1>3 DEF MinutesPerDay
<1>5. m < Period
  <2>1. Period = MinutesPerDay * rest
    BY CalendarNumbers DEF Period, MinutesPerDay
  <2>2. ASSUME NEW a \in Nat \ {0}, NEW b \in Nat \ {0} PROVE a * b >= a
    OBVIOUS
  <2>3. MinutesPerDay * rest >= MinutesPerDay
    BY <1>2, <2>2, CalendarCounts
  <2>4. QED BY <1>1, <1>4, <2>1, <2>3, CalendarCounts
<1>6. m \in Times
  BY <1>1, <1>5, CalendarCounts DEF Times
<1>7. m % m = 0 /\ 0 % n = 0 /\ m % MinutesPerDay = m
  <2>1. 0 \in 0 .. m - 1 /\ m * 1 + 0 = m
    BY <1>1
  <2>2. m % m = 0
    BY <1>1, <2>1, Division
  <2>3. 0 \in 0 .. n - 1 /\ n * 0 + 0 = 0
    BY <1>1
  <2>4. 0 % n = 0
    BY <1>1, <2>3, Division
  <2>5. m \in 0 .. MinutesPerDay - 1 /\ MinutesPerDay * 0 + m = m
    BY <1>1, <1>4, CalendarCounts
  <2>6. m % MinutesPerDay = m
    BY <2>5, CalendarCounts, Division
  <2>7. QED BY <2>2, <2>4, <2>6
<1>8. QED BY <1>6, <1>7, RepetitionIs

\* Triggers by day, by week or by month fire on the days the expression names.
LEMMA BlockAgrees ==
    ASSUME NEW e, NEW t \in Times, ~Repeats(e), DayBlock(e) = "block"
    PROVE  WindowsFires(e, t) <=> Matches(e, t)
<1>1. /\ IsStar(e.dom) \/ IsStar(e.dow)
      /\ IsStar(e.dow) \/ IsStar(e.month)
  BY DEF DayBlock
<1>2. IsStar(e.month) => MonthOf(t) \in Parsed(e).month
  BY StarredParts
<1>3. MonthOf(t) \in Parsed(e).month /\ DayMatches(e, t) <=> DayFires(e, t)
  BY <1>1, <1>2 DEF DayMatches, DayFires
<1>4. QED BY <1>3 DEF WindowsFires, Matches

LEMMA TranslationAgrees ==
    ASSUME NEW e \in WindowsExprs
    PROVE  WindowsTable[e] = MatchTable[e] <=> e \in DividesHour
<1> DEFINE divides == HoursPerDay = 1 \/ MinutesPerHour % IsoStep(e.minute) = 0
<1>1. /\ e \in Exprs /\ e \in ValidExprs /\ Valid(e)
      /\ Repeats(e) \/ DayBlock(e) = "block"
      /\ WindowsTable[e] = {t \in Times : WindowsFires(e, t)}
      /\ MatchTable[e] = {t \in Times : Matches(e, t)}
  BY DEF WindowsExprs, ValidExprs, Expressible, WindowsTable, MatchTable
<1>2. e \in DividesHour <=> (Repeats(e) => divides)
  BY <1>1 DEF DividesHour
<1>3. CASE ~Repeats(e)
  <2>1. \A t \in Times : WindowsFires(e, t) <=> Matches(e, t)
    BY <1>1, <1>3, BlockAgrees
  <2>2. QED BY <1>1, <1>2, <1>3, <2>1
<1>4. CASE Repeats(e) /\ HoursPerDay = 1
  <2>1. MinutesPerDay = MinutesPerHour
    BY <1>4, CalendarNumbers DEF MinutesPerDay
  <2>2. \A t \in Times : WindowsFires(e, t) <=> Matches(e, t)
    BY <1>4, <2>1, RepetitionIs
  <2>3. QED BY <1>1, <1>2, <1>4, <2>2
<1>5. CASE Repeats(e) /\ MinutesPerHour % IsoStep(e.minute) = 0
  <2>1. \A t \in Times : WindowsFires(e, t) <=> Matches(e, t)
    BY <1>5, RepetitionAgrees
  <2>2. QED BY <1>1, <1>2, <1>5, <2>1
<1>6. CASE Repeats(e) /\ ~divides
  BY <1>1, <1>2, <1>6, RepetitionDrifts
<1>7. QED BY <1>3, <1>4, <1>5, <1>6

-----------------------------------------------------------------------------
(* The connection: its users, its count and who keeps it alive. *)

LEMMA SameUserCount ==
    /\ \A S : C!Cardinality(S) = Cardinality(S)
    /\ \A S : C!IsFiniteSet(S) <=> IsFiniteSet(S)
BY DEF C!Cardinality, Cardinality, C!IsFiniteSet, IsFiniteSet

Outside == \A u \in C!User : at[u] # "closing"

\* The connection is open or about to be closed only for somebody's sake, and a
\* service that has its reference keeps everybody from closing.
Alive ==
    /\ conn = "open" => C!Inside # {}
    /\ ready => C!Inside # {} \/ ~Outside
    /\ conn = "closing" => ~Outside

Pinned ==
    /\ pinning /\ at[Service] = "in" => ready /\ conn = "open" /\ Outside
    /\ pinning /\ at[Service] # "in" => \A c \in Client : at[c] = "out"
    /\ ~pinning => at[Service] = "out"

ConnectionInv ==
    /\ C!ConnectionTypeOK
    /\ refs = Cardinality(C!Inside)
    /\ Alive /\ Pinned

LEMMA UsersFinite ==
    /\ IsFiniteSet(C!User) /\ Service \in C!User /\ Client \subseteq C!User /\ Service \notin Client
    /\ IsFiniteSet(C!Inside) /\ Cardinality(C!Inside) \in Nat
<1>1. IsFiniteSet(Client) /\ Service \notin Client
  BY SchedulingAssumption, SameUserCount DEF C!ConstantsFit
<1>2. IsFiniteSet(C!User)
  BY <1>1, FS_AddElement DEF C!User
<1>3. C!Inside \subseteq C!User
  BY DEF C!Inside
<1>4. QED BY <1>1, <1>2, <1>3, FS_Subset, FS_CardinalityType DEF C!User

LEMMA UserEnters ==
    ASSUME ConnectionInv, NEW u \in C!User, at[u] # "in", at' = [at EXCEPT ![u] = "in"]
    PROVE  /\ C!Inside' = C!Inside \union {u}
           /\ Cardinality(C!Inside)' = Cardinality(C!Inside) + 1
<1>1. C!Inside' = C!Inside \union {u}
  BY DEF C!Inside, ConnectionInv, C!ConnectionTypeOK
<1>2. u \notin C!Inside
  BY DEF C!Inside
<1>3. QED BY <1>1, <1>2, UsersFinite, FS_AddElement

LEMMA UserLeaves ==
    ASSUME ConnectionInv, NEW u \in C!User, at[u] = "in", NEW s, s # "in", at' = [at EXCEPT ![u] = s]
    PROVE  /\ C!Inside' = C!Inside \ {u} /\ u \in C!Inside
           /\ Cardinality(C!Inside)' = Cardinality(C!Inside) - 1
<1>1. C!Inside' = C!Inside \ {u}
  BY DEF C!Inside, ConnectionInv, C!ConnectionTypeOK
<1>2. u \in C!Inside
  BY DEF C!Inside
<1>3. QED BY <1>1, <1>2, UsersFinite, FS_RemoveElement

LEMMA UserMoves ==
    ASSUME ConnectionInv, NEW u \in C!User, at[u] # "in", NEW s, s # "in", at' = [at EXCEPT ![u] = s]
    PROVE  C!Inside' = C!Inside
BY DEF C!Inside, ConnectionInv, C!ConnectionTypeOK

\* A client goes in only while a pinned connection is held, the service only
\* while it holds nothing yet.
LEMMA EnterKeeps ==
    ASSUME ConnectionInv, NEW u \in C!User, C!Enter(u), u = Service => pinning
    PROVE  ConnectionInv'
<1> USE DEF ConnectionInv
<1>1. at[u] = "out" /\ UNCHANGED <<ready, conn, pinning>> /\ at \in [C!User -> {"out", "connecting", "in", "closing"}]
  BY DEF C!Enter, C!ConnectionTypeOK
<1>2. PICK s \in {"in", "connecting"} :
        /\ at' = [at EXCEPT ![u] = s]
        /\ IF s = "in" THEN ready /\ refs' = refs + 1 ELSE refs' = refs
  BY DEF C!Enter, C!Counted
<1>3. C!ConnectionTypeOK'
  BY <1>1, <1>2 DEF C!ConnectionTypeOK
<1>4. /\ refs' = Cardinality(C!Inside)'
      /\ C!Inside \subseteq C!Inside'
  BY <1>1, <1>2, UserEnters, UserMoves
<1>5. Outside' <=> Outside
  BY <1>1, <1>2 DEF Outside
<1>6. Alive'
  BY <1>1, <1>4, <1>5 DEF Alive
<1>7. CASE u = Service
  <2>1. pinning /\ (\A v \in C!User : at[v] = "out") /\ Service \notin Client
    BY <1>1, <1>7, UsersFinite DEF Pinned, C!User
  <2>2. C!Inside = {} /\ Outside
    BY <2>1 DEF C!Inside, Outside
  <2>3. ~ready
    BY <2>2 DEF Alive
  <2>4. Pinned'
    BY <1>1, <1>2, <1>7, <2>1, <2>3 DEF Pinned, C!User
  <2>5. QED BY <1>3, <1>4, <1>6, <2>4
<1>8. CASE u # Service
  <2>1. pinning => at[Service] = "in"
    BY <1>8 DEF C!Enter
  <2>2. at'[Service] = at[Service]
    BY <1>1, <1>2, <1>8, UsersFinite
  <2>3. Pinned'
    BY <1>1, <1>5, <2>1, <2>2 DEF Pinned
  <2>4. QED BY <1>3, <1>4, <1>6, <2>3
<1>9. QED BY <1>7, <1>8


LEMMA ConnectKeeps ==
    ASSUME ConnectionInv, NEW u \in C!User, C!Connect(u)
    PROVE  ConnectionInv'
<1> USE DEF ConnectionInv
<1>1. /\ at[u] = "connecting" /\ at' = [at EXCEPT ![u] = "in"] /\ refs' = refs + 1 /\ pinning' = pinning
      /\ at \in [C!User -> {"out", "connecting", "in", "closing"}]
  BY DEF C!Connect, C!Counted, C!ConnectionTypeOK
<1>2. IF ready THEN ready' = ready /\ conn' = conn ELSE ready' = TRUE /\ conn' = "open"
  BY DEF C!Connect
<1>3. C!ConnectionTypeOK'
  <2>1. ready' \in BOOLEAN /\ conn' \in {"closed", "open", "closing"}
    BY <1>2 DEF C!ConnectionTypeOK
  <2>2. refs' \in Nat
    BY <1>1 DEF C!ConnectionTypeOK
  <2>3. at' \in [C!User -> {"out", "connecting", "in", "closing"}]
    BY <1>1
  <2>4. pinning' \in BOOLEAN
    BY <1>1 DEF C!ConnectionTypeOK
  <2>5. QED BY <2>1, <2>2, <2>3, <2>4 DEF C!ConnectionTypeOK
<1>4. refs' = Cardinality(C!Inside)' /\ u \in C!Inside'
  BY <1>1, UserEnters
<1>5. Outside' <=> Outside
  BY <1>1 DEF Outside
<1>6. Alive'
  BY <1>2, <1>4, <1>5 DEF Alive
<1>7. CASE u = Service
  <2>1. pinning /\ (\A v \in Client : at[v] = "out") /\ Service \notin Client
    BY <1>1, <1>7, UsersFinite DEF Pinned
  <2>2. C!Inside = {} /\ Outside
    BY <1>1, <1>7, <2>1 DEF C!Inside, C!User, Outside
  <2>3. ready' /\ conn' = "open"
    BY <1>2, <2>2 DEF Alive
  <2>4. Pinned'
    BY <1>1, <1>5, <1>7, <2>1, <2>2, <2>3 DEF Pinned
  <2>5. QED BY <1>3, <1>4, <1>6, <2>4
<1>8. CASE u # Service
  <2>1. u \in Client
    BY <1>8 DEF C!User
  <2>2. at'[Service] = at[Service]
    BY <1>1, <1>8, UsersFinite
  <2>3. pinning => at[Service] = "in"
    BY <1>1, <2>1 DEF Pinned
  <2>4. Pinned'
    BY <1>1, <1>2, <1>5, <2>2, <2>3 DEF Pinned
  <2>5. QED BY <1>3, <1>4, <1>6, <2>4
<1>9. QED BY <1>7, <1>8

LEMMA FailureKeeps ==
    ASSUME ConnectionInv, NEW c \in Client, C!ConnectFails(c)
    PROVE  ConnectionInv'
<1> USE DEF ConnectionInv
<1>1. /\ at[c] = "connecting" /\ ~ready /\ at' = [at EXCEPT ![c] = "out"]
      /\ UNCHANGED <<ready, refs, conn, pinning>> /\ c \in C!User
      /\ at \in [C!User -> {"out", "connecting", "in", "closing"}]
  BY UsersFinite DEF C!ConnectFails, C!ConnectionTypeOK
<1>2. C!Inside' = C!Inside
  BY <1>1, UserMoves
<1>3. Outside' <=> Outside
  BY <1>1 DEF Outside
<1>4. C!ConnectionTypeOK'
  BY <1>1 DEF C!ConnectionTypeOK
<1>5. Alive'
  BY <1>1, <1>2, <1>3 DEF Alive
<1>6. Pinned'
  BY <1>1, UsersFinite DEF Pinned
<1>7. QED BY <1>1, <1>2, <1>4, <1>5, <1>6

\* The service leaves last.
LEMMA LeaveKeeps ==
    ASSUME ConnectionInv, NEW u \in C!User, C!Leave(u),
           u = Service => pinning /\ \A c \in Client : at[c] = "out"
    PROVE  ConnectionInv'
<1> USE DEF ConnectionInv
<1>1. /\ at[u] = "in" /\ UNCHANGED <<ready, pinning>>
      /\ at \in [C!User -> {"out", "connecting", "in", "closing"}] /\ refs \in Nat
  BY DEF C!Leave, C!ConnectionTypeOK
<1>2. CASE refs <= 1
  <2>1. at' = [at EXCEPT ![u] = "closing"] /\ conn' = "closing" /\ refs' = 0
    BY <1>2 DEF C!Leave
  <2>2. /\ C!Inside' = C!Inside \ {u} /\ u \in C!Inside
        /\ Cardinality(C!Inside)' = Cardinality(C!Inside) - 1
    BY <1>1, <2>1, UserLeaves
  <2>3. Cardinality(C!Inside) # 0
    BY <2>2, UsersFinite, FS_EmptySet
  <2>4. refs' = Cardinality(C!Inside)'
    BY <1>1, <1>2, <2>1, <2>2, <2>3
  <2>5. C!Inside' = {}
    <3>1. IsFiniteSet(C!Inside') /\ Cardinality(C!Inside') = 0
      BY <2>1, <2>2, <2>4, UsersFinite, FS_RemoveElement
    <3>2. QED BY <3>1, FS_EmptySet
  <2>6. ~Outside'
    BY <1>1, <2>1 DEF Outside
  <2>7. C!ConnectionTypeOK'
    <3>1. refs' \in Nat /\ conn' \in {"closed", "open", "closing"}
      BY <2>1
    <3>2. at' \in [C!User -> {"out", "connecting", "in", "closing"}]
      BY <1>1, <2>1
    <3>3. QED BY <1>1, <3>1, <3>2 DEF C!ConnectionTypeOK
  <2>8. Alive'
    BY <2>1, <2>6 DEF Alive
  <2>9. CASE u = Service
    <3>1. Pinned'
      BY <1>1, <2>1, <2>9, UsersFinite DEF Pinned
    <3>2. QED BY <2>4, <2>7, <2>8, <3>1
  <2>10. CASE u # Service
    <3>1. Service \notin C!Inside
      BY <2>2, <2>5, <2>10
    <3>2. at[Service] # "in" /\ u \in Client
      BY <2>10, <3>1, UsersFinite DEF C!Inside, C!User
    <3>3. ~pinning
      BY <1>1, <3>2 DEF Pinned
    <3>4. Pinned'
      BY <1>1, <2>1, <2>10, <3>3, UsersFinite DEF Pinned
    <3>5. QED BY <2>4, <2>7, <2>8, <3>4
  <2>11. QED BY <2>4, <2>7, <2>8, <2>9, <2>10
<1>3. CASE refs > 1
  <2>1. at' = [at EXCEPT ![u] = "out"] /\ conn' = conn /\ refs' = refs - 1
    BY <1>1, <1>3 DEF C!Leave
  <2>2. /\ C!Inside' = C!Inside \ {u}
        /\ Cardinality(C!Inside)' = Cardinality(C!Inside) - 1
    BY <1>1, <2>1, UserLeaves
  <2>3. refs' = Cardinality(C!Inside)'
    BY <1>1, <2>1, <2>2
  <2>4. C!Inside' # {}
    <3>1. Cardinality(C!Inside') # 0
      BY <1>1, <1>3, <2>1, <2>3
    <3>2. QED BY <3>1, FS_EmptySet
  <2>5. Outside' <=> Outside
    BY <1>1, <2>1 DEF Outside
  <2>6. C!ConnectionTypeOK'
    BY <1>1, <1>3, <2>1 DEF C!ConnectionTypeOK
  <2>7. Alive'
    BY <1>1, <2>1, <2>4, <2>5 DEF Alive
  <2>8. Pinned'
    BY <1>1, <2>1, <2>5, UsersFinite DEF Pinned
  <2>9. QED BY <2>3, <2>6, <2>7, <2>8
<1>4. QED BY <1>1, <1>2, <1>3

LEMMA ClosedKeeps ==
    ASSUME ConnectionInv, NEW u \in C!User, C!Closed(u)
    PROVE  ConnectionInv'
<1> USE DEF ConnectionInv
<1>1. /\ at[u] = "closing" /\ at' = [at EXCEPT ![u] = "out"] /\ UNCHANGED <<refs, pinning>>
      /\ at \in [C!User -> {"out", "connecting", "in", "closing"}] /\ ready' = FALSE
  BY DEF C!Closed, C!NotReady, C!ConnectionTypeOK
<1>2. conn' \in {"open", "closed"} /\ (conn' = "open" => conn = "open")
  BY DEF C!Closed
<1>3. C!Inside' = C!Inside
  BY <1>1, UserMoves
<1>4. C!ConnectionTypeOK'
  BY <1>1, <1>2 DEF C!ConnectionTypeOK
<1>5. Alive'
  BY <1>1, <1>2, <1>3 DEF Alive
<1>6. ~(pinning /\ at[Service] = "in")
  BY <1>1 DEF Pinned, Outside
<1>7. Pinned'
  BY <1>1, <1>6, UsersFinite DEF Pinned
<1>8. QED BY <1>1, <1>3, <1>4, <1>5, <1>7

LEMMA ConnectionStays == ConnectionInv /\ UNCHANGED <<ready, refs, conn, at, pinning>> => ConnectionInv'
<1> SUFFICES ASSUME ConnectionInv, UNCHANGED <<ready, refs, conn, at, pinning>> PROVE ConnectionInv'
  OBVIOUS
<1>1. C!Inside' = C!Inside /\ (Outside' <=> Outside)
  BY DEF C!Inside, Outside
<1>2. C!ConnectionTypeOK' /\ Pinned'
  BY <1>1 DEF ConnectionInv, C!ConnectionTypeOK, Pinned
<1>3. refs' = Cardinality(C!Inside)'
  BY <1>1 DEF ConnectionInv
<1>4. Alive'
  BY <1>1 DEF ConnectionInv, Alive
<1>5. QED BY <1>2, <1>3, <1>4 DEF ConnectionInv


\* Every step of the task table keeps the connection in order.
LEMMA ConnectionNext == ConnectionInv /\ [C!Next]_tasks => ConnectionInv'
<1> SUFFICES ASSUME ConnectionInv, [C!Next]_tasks PROVE ConnectionInv'
  OBVIOUS
<1>1. Executor \subseteq Client /\ Client \subseteq C!User /\ Service \in C!User /\ Service \notin Client
  BY SchedulingAssumption, UsersFinite DEF C!ConstantsFit
<1>2. CASE UNCHANGED tasks
  BY <1>2, ConnectionStays DEF tasks
<1>3. ASSUME NEW c \in Client, C!Edit(c) PROVE ConnectionInv'
  BY <1>1, <1>3, EnterKeeps DEF C!Edit, C!Begin
<1>4. ASSUME NEW e \in Executor, C!Execute(e) PROVE ConnectionInv'
  BY <1>1, <1>4, EnterKeeps DEF C!Execute, C!Begin
<1>5. ASSUME NEW c \in Client, C!Connected(c) PROVE ConnectionInv'
  BY <1>1, <1>5, ConnectKeeps DEF C!Connected
<1>6. ASSUME NEW c \in Client, C!NoConnection(c) PROVE ConnectionInv'
  BY <1>1, <1>6, FailureKeeps, LeaveKeeps DEF C!NoConnection
<1>7. ASSUME NEW u \in C!User, C!Close(u) PROVE ConnectionInv'
  BY <1>7, ClosedKeeps DEF C!Close
<1>8. ASSUME NEW c \in Client, C!Fetch(c) PROVE ConnectionInv'
  BY <1>1, <1>8, ConnectionStays, LeaveKeeps DEF C!Fetch, C!connection
<1>9. ASSUME NEW c \in Client, C!Save(c) \/ C!Refuse(c) \/ C!Create(c) \/ C!Delete(c) \/ C!Get(c)
      PROVE  ConnectionInv'
  BY <1>1, <1>9, LeaveKeeps DEF C!Save, C!Refuse, C!Create, C!Delete, C!Get
<1>10. ASSUME NEW e \in Executor, C!Handle(e) \/ C!ReportLost(e) PROVE ConnectionInv'
  BY <1>10, ConnectionStays DEF C!Handle, C!ReportLost, C!connection
<1>11. CASE C!Serve
  BY <1>1, <1>11, EnterKeeps, ConnectKeeps, LeaveKeeps DEF C!Serve
<1>12. CASE C!Tick
  BY <1>12, ConnectionStays DEF C!Tick, C!connection
<1>13. QED BY <1>1, <1>2, <1>3, <1>4, <1>5, <1>6, <1>7, <1>8, <1>9, <1>10, <1>11, <1>12
           DEF C!Next, C!Method

-----------------------------------------------------------------------------
(* The task table: the row, what a method has seen of it, its next run. *)

EntryTypes ==
    /\ entry \in C!Row \union {None}
    /\ now \in Times
    /\ taskEdits \in 0 .. MaxTaskEdits /\ taskFaults \in 0 .. MaxTaskFaults
    /\ raced \in BOOLEAN

\* A method that looked at the row saw one, with an expression that was accepted.
MethodFits(m) ==
    /\ m.read => m.seen # None /\ m.op \in C!Reads
    /\ m.seen # None => m.seen.cron \in ValidExprs

MethodTypes ==
    /\ method \in [Client -> C!Call \union {None}]
    /\ stage \in [Executor -> {"idle", "fetched", "running", "handled"}]
    /\ \A c \in Client : method[c] # None => MethodFits(method[c])

RowFits(r) ==
    /\ r.enabled <=> r.next # None
    /\ r.next # None => r.next \in MatchTable[r.cron]

EntryFits == entry # None => entry.cron \in ValidExprs /\ (~raced => RowFits(entry))

TaskInv == EntryTypes /\ MethodTypes /\ EntryFits

LEMMA TaskNames ==
    /\ None \notin Times /\ None \notin C!Row /\ None \notin C!Call
    /\ NewExprs \subseteq Exprs /\ Executor \subseteq Client /\ ValidExprs \subseteq Exprs
    /\ Client # {} => C!AnyCron \in Exprs
    /\ MaxTaskEdits \in Nat /\ MaxTaskFaults \in Nat
BY SchedulingAssumption DEF C!ConstantsFit, ValidExprs, C!AnyCron

LEMMA EntryRowFields ==
    ASSUME NEW r \in C!Row
    PROVE  r.cron \in Exprs /\ r.enabled \in BOOLEAN /\ r.next \in Times \union {None} /\ r # None
BY TaskNames DEF C!Row

LEMMA EntryRowUpdates ==
    ASSUME NEW r \in C!Row, NEW e \in Exprs, NEW b \in BOOLEAN, NEW n \in Times \union {None}
    PROVE  /\ [r EXCEPT !.cron = e, !.next = n] \in C!Row
           /\ [r EXCEPT !.enabled = b, !.next = n] \in C!Row
           /\ [r EXCEPT !.next = n] \in C!Row
           /\ [cron |-> e, enabled |-> b, next |-> n] \in C!Row
BY DEF C!Row

LEMMA NextRun ==
    ASSUME now \in Times, NEW e \in Exprs
    PROVE  /\ C!Next0(e) \in Times \union {None}
           /\ e \in ValidExprs /\ C!Next0(e) # None => C!Next0(e) \in MatchTable[e]
BY NextTabled, ClockTimes DEF C!Next0

LEMMA CreatedFits ==
    ASSUME now \in Times, NEW e \in ValidExprs, NEW b \in BOOLEAN, b => C!Next0(e) # None
    PROVE  /\ C!Created(e, b) \in C!Row
           /\ C!Created(e, b).cron = e /\ RowFits(C!Created(e, b))
<1>1. e \in Exprs
  BY TaskNames
<1> DEFINE n == IF b THEN C!Next0(e) ELSE None
<1>2. n \in Times \union {None} /\ (b <=> n # None) /\ (n # None => n \in MatchTable[e])
  BY <1>1, NextRun
<1> HIDE DEF n
<1>3. C!Created(e, b) = [cron |-> e, enabled |-> b, next |-> n]
  BY DEF C!Created, n
<1>4. [cron |-> e, enabled |-> b, next |-> n] \in C!Row
  BY <1>1, <1>2 DEF C!Row
<1>5. QED BY <1>2, <1>3, <1>4 DEF RowFits

\* What a method saves goes together unless the row changed under it.
LEMMA SavedFits ==
    ASSUME now \in Times, raced \in BOOLEAN, NEW r \in C!Row, NEW m \in C!Call, m.op \in C!Reads,
           m.seen \in C!Row, m.seen.cron \in ValidExprs, r.cron \in ValidExprs,
           ~C!Refuses(m), ~raced => RowFits(r)
    PROVE  /\ C!Saved(r, m) \in C!Row /\ C!Saved(r, m).cron \in ValidExprs
           /\ ~C!Raced(r, m) => RowFits(C!Saved(r, m))
           /\ C!Raced(r, m) \in BOOLEAN
<1>1. /\ r.cron \in Exprs /\ r.enabled \in BOOLEAN /\ r.next \in Times \union {None}
      /\ m.seen.cron \in Exprs /\ m.seen.enabled \in BOOLEAN /\ m.seen.next \in Times \union {None}
  BY EntryRowFields
<1>2. m.cron \in Exprs
  BY DEF C!Call
<1>3. CASE m.op = "update"
  <2> DEFINE n == IF m.seen.enabled THEN C!Next0(m.cron) ELSE r.next
             s == [r EXCEPT !.cron = m.cron, !.next = n]
  <2>1. m.cron \in ValidExprs /\ (m.seen.enabled => C!Next0(m.cron) # None)
    BY <1>3 DEF C!Refuses
  <2>2. n \in Times \union {None}
    BY <1>1, <1>2, NextRun
  <2>3. (m.seen.enabled => n # None /\ n \in MatchTable[m.cron]) /\ (~m.seen.enabled => n = r.next)
    BY <1>2, <2>1, NextRun
  <2> HIDE DEF n
  <2>4. s \in C!Row /\ s.cron = m.cron /\ s.enabled = r.enabled /\ s.next = n
    BY <1>2, <2>2, EntryRowUpdates DEF C!Row
  <2>5. C!Saved(r, m) = s
    BY <1>3 DEF C!Saved, C!Updated, n
  <2>6. C!Raced(r, m) = (raced \/ r.enabled # m.seen.enabled)
    BY <1>3 DEF C!Raced
  <2> HIDE DEF s
  <2>7. ~C!Raced(r, m) => RowFits(s)
    BY <2>3, <2>4, <2>6 DEF RowFits
  <2>8. QED BY <2>1, <2>4, <2>5, <2>6, <2>7
<1>4. CASE m.op = "enable"
  <2> DEFINE n == C!Next0(m.seen.cron)
             s == [r EXCEPT !.enabled = TRUE, !.next = n]
  <2>1. n # None /\ n \in Times \union {None} /\ n \in MatchTable[m.seen.cron]
    BY <1>1, <1>4, NextRun DEF C!Refuses
  <2>2. C!Saved(r, m) = s
    BY <1>4 DEF C!Saved
  <2>3. C!Raced(r, m) = (r.cron # m.seen.cron)
    BY <1>4 DEF C!Raced
  <2> HIDE DEF n
  <2>4. s \in C!Row /\ s.cron = r.cron /\ s.enabled = TRUE /\ s.next = n
    BY <1>1, <2>1, EntryRowUpdates DEF C!Row
  <2> HIDE DEF s
  <2>5. QED BY <2>1, <2>2, <2>3, <2>4 DEF RowFits
<1>5. CASE m.op = "disable"
  <2> DEFINE s == [r EXCEPT !.enabled = FALSE, !.next = None]
  <2>1. C!Saved(r, m) = s
    BY <1>5 DEF C!Saved
  <2>2. s \in C!Row /\ s.cron = r.cron /\ s.enabled = FALSE /\ s.next = None
    BY <1>1, EntryRowUpdates DEF C!Row
  <2>3. C!Raced(r, m) \in BOOLEAN
    BY <1>5 DEF C!Raced
  <2> HIDE DEF s
  <2>4. QED BY <2>1, <2>2, <2>3 DEF RowFits
<1>6. CASE m.op = "started"
  BY <1>6 DEF C!Saved, C!Raced
<1>7. CASE m.op = "result"
  <2> DEFINE n == IF m.seen.enabled THEN C!Next0(m.seen.cron) ELSE m.seen.next
             s == [r EXCEPT !.next = n]
  <2>1. n \in Times \union {None}
    BY <1>1, NextRun
  <2>2. /\ m.seen.enabled => n # None /\ n \in MatchTable[m.seen.cron]
        /\ ~m.seen.enabled => n = m.seen.next
    BY <1>1, <1>7, NextRun DEF C!Refuses
  <2>3. C!Saved(r, m) = s
    BY <1>7 DEF C!Saved
  <2>4. C!Raced(r, m) = (\/ raced \/ r.cron # m.seen.cron \/ r.enabled # m.seen.enabled
                         \/ ~r.enabled /\ r.next # m.seen.next)
    BY <1>7 DEF C!Raced
  <2> HIDE DEF n
  <2>5. s \in C!Row /\ s.cron = r.cron /\ s.enabled = r.enabled /\ s.next = n
    BY <2>1, EntryRowUpdates DEF C!Row
  <2> HIDE DEF s
  <2>6. ~C!Raced(r, m) => RowFits(s)
    BY <2>2, <2>4, <2>5 DEF RowFits
  <2>7. QED BY <2>3, <2>4, <2>5, <2>6
<1>8. QED BY <1>3, <1>4, <1>5, <1>6, <1>7 DEF C!Reads


LEMMA MethodMade ==
    ASSUME NEW op \in {"create", "update", "enable", "disable", "delete", "get", "started", "result"},
           NEW e \in Exprs
    PROVE  C!Calling(op, e) \in C!Call /\ MethodFits(C!Calling(op, e))
BY DEF C!Calling, C!Call, MethodFits

LEMMA MethodRead ==
    ASSUME NEW m \in C!Call, NEW r \in C!Row, m.op \in C!Reads, r.cron \in ValidExprs
    PROVE  /\ [m EXCEPT !.read = TRUE, !.seen = r] \in C!Call
           /\ MethodFits([m EXCEPT !.read = TRUE, !.seen = r])
<1> DEFINE n == [m EXCEPT !.read = TRUE, !.seen = r]
<1>1. n \in C!Call /\ n.op = m.op /\ n.seen = r
  BY DEF C!Call
<1> HIDE DEF n
<1>2. MethodFits(n)
  BY <1>1, EntryRowFields DEF MethodFits
<1>3. QED BY <1>1, <1>2 DEF n

LEMMA StageAdvances ==
    ASSUME MethodTypes, NEW c \in Client, NEW failed \in BOOLEAN
    PROVE  C!Advanced(c, failed) \in [Executor -> {"idle", "fetched", "running", "handled"}]
BY DEF MethodTypes, C!Advanced

\* A step that changes the method of one client only.
LEMMA MethodMoved ==
    ASSUME MethodTypes, NEW c \in Client, NEW m \in C!Call \union {None}, m # None => MethodFits(m),
           method' = [method EXCEPT ![c] = m],
           stage' \in [Executor -> {"idle", "fetched", "running", "handled"}]
    PROVE  MethodTypes'
<1>1. method' \in [Client -> C!Call \union {None}]
  BY DEF MethodTypes
<1>2. \A d \in Client : method'[d] # None => MethodFits(method'[d])
  BY DEF MethodTypes
<1>3. QED BY <1>1, <1>2 DEF MethodTypes, MethodFits

LEMMA MethodsStay ==
    ASSUME MethodTypes, method' = method,
           stage' \in [Executor -> {"idle", "fetched", "running", "handled"}]
    PROVE  MethodTypes'
BY DEF MethodTypes, MethodFits

LEMMA EntryStays ==
    ASSUME EntryTypes, EntryFits, UNCHANGED <<entry, raced, now, taskEdits, taskFaults>>
    PROVE  EntryTypes' /\ EntryFits'
BY DEF EntryTypes, EntryFits, RowFits

\* A step may count a fault.
LEMMA TaskFaultCounted ==
    ASSUME EntryTypes, EntryFits, UNCHANGED <<entry, raced, now, taskEdits>>,
           C!Faulted \/ UNCHANGED taskFaults
    PROVE  EntryTypes' /\ EntryFits'
BY TaskNames DEF EntryTypes, EntryFits, RowFits, C!Faulted

LEMMA MethodBegins ==
    ASSUME MethodTypes, NEW c \in Client, stage' = stage,
           NEW op \in {"create", "update", "enable", "disable", "delete", "get", "started", "result"},
           NEW e \in Exprs, C!Begin(c, C!Calling(op, e))
    PROVE  MethodTypes'
<1>1. stage' \in [Executor -> {"idle", "fetched", "running", "handled"}]
  BY DEF MethodTypes
<1>2. QED BY <1>1, MethodMade, MethodMoved DEF C!Begin

LEMMA MethodEnds ==
    ASSUME MethodTypes, NEW c \in Client, C!Settle(c),
           \/ stage' = stage
           \/ \E failed \in BOOLEAN : stage' = C!Advanced(c, failed)
    PROVE  MethodTypes'
<1>1. stage' \in [Executor -> {"idle", "fetched", "running", "handled"}]
  BY StageAdvances DEF MethodTypes
<1>2. QED BY <1>1, MethodMoved DEF C!Settle

LEMMA TaskNext == TaskInv /\ [C!Next]_tasks => TaskInv'
<1> SUFFICES ASSUME TaskInv, [C!Next]_tasks PROVE TaskInv'
  OBVIOUS
<1> USE DEF TaskInv
<1>1. Executor \subseteq Client
  BY TaskNames
<1>2. stage \in [Executor -> {"idle", "fetched", "running", "handled"}]
  BY DEF MethodTypes
<1>3. CASE UNCHANGED tasks
  BY <1>2, <1>3, EntryStays, MethodsStay DEF tasks
<1>4. ASSUME NEW c \in Client, C!Edit(c) PROVE TaskInv'
  <2>1. PICK op \in {"create", "update", "enable", "disable", "delete"}, e \in Exprs :
          C!Begin(c, C!Calling(op, e))
    BY <1>4, TaskNames DEF C!Edit
  <2>2. MethodTypes'
    BY <1>4, <2>1, MethodBegins DEF C!Edit
  <2>3. EntryTypes' /\ EntryFits'
    BY <1>4, TaskNames DEF C!Edit, EntryTypes, EntryFits, RowFits
  <2>4. QED BY <2>2, <2>3
<1>5. ASSUME NEW x \in Executor, C!Execute(x) PROVE TaskInv'
  <2>1. PICK op \in {"get", "started", "result"} : C!Begin(x, C!Calling(op, C!AnyCron))
    BY <1>5 DEF C!Execute
  <2>2. C!AnyCron \in Exprs
    BY <1>1, TaskNames
  <2>3. MethodTypes'
    BY <1>1, <1>5, <2>1, <2>2, MethodBegins DEF C!Execute
  <2>4. QED BY <1>5, <2>3, EntryStays DEF C!Execute
<1>6. ASSUME NEW u \in C!User, C!Connected(u) \/ C!Close(u) PROVE TaskInv'
  BY <1>2, <1>6, EntryStays, MethodsStay DEF C!Connected, C!Close
<1>7. ASSUME NEW c \in Client, C!NoConnection(c) PROVE TaskInv'
  <2>1. MethodTypes'
    BY <1>7, MethodEnds DEF C!NoConnection
  <2>2. EntryTypes' /\ EntryFits'
    BY <1>7, TaskFaultCounted DEF C!NoConnection
  <2>3. QED BY <2>1, <2>2
<1>8. ASSUME NEW c \in Client, C!Fetch(c) PROVE TaskInv'
  <2>1. EntryTypes' /\ EntryFits'
    BY <1>8, EntryStays DEF C!Fetch
  <2>2. CASE entry # None
    <3>1. PICK m \in C!Call : m = method[c] /\ m.op \in C!Reads
      BY <1>8 DEF C!Fetch, C!Ready, MethodTypes
    <3>2. PICK r \in C!Row : r = entry /\ r.cron \in ValidExprs
      BY <2>2 DEF EntryTypes, EntryFits
    <3>3. method' = [method EXCEPT ![c] = [m EXCEPT !.read = TRUE, !.seen = r]] /\ stage' = stage
      BY <1>8, <2>2, <3>1, <3>2 DEF C!Fetch
    <3> DEFINE n == [m EXCEPT !.read = TRUE, !.seen = r]
    <3>4. n \in C!Call /\ MethodFits(n)
      BY <3>1, <3>2, MethodRead
    <3>5. method' = [method EXCEPT ![c] = n]
      BY <3>3
    <3> HIDE DEF n
    <3>6. MethodTypes'
      BY <1>2, <3>3, <3>4, <3>5, MethodMoved
    <3>7. QED BY <2>1, <3>6
  <2>3. CASE entry = None
    BY <1>8, <2>1, <2>3, MethodEnds DEF C!Fetch
  <2>4. QED BY <2>2, <2>3
<1>9. ASSUME NEW c \in Client, C!Save(c) PROVE TaskInv'
  <2>1. MethodTypes'
    BY <1>9, MethodEnds DEF C!Save
  <2>2. PICK m \in C!Call : m = method[c] /\ m.read /\ ~C!Refuses(m)
    BY <1>9 DEF C!Save, C!Ready, MethodTypes
  <2>3. MethodFits(m) /\ method[c] # None
    BY <1>9, <2>2 DEF C!Save, C!Ready, MethodTypes
  <2>4. m.op \in C!Reads /\ m.seen \in C!Row /\ m.seen.cron \in ValidExprs
    BY <2>2, <2>3 DEF MethodFits, C!Call
  <2>5. UNCHANGED <<now, taskEdits, taskFaults>>
    BY <1>9 DEF C!Save
  <2>6. CASE entry = None
    <3>1. entry' = entry /\ raced' = raced
      BY <1>9, <2>6 DEF C!Save
    <3>2. QED BY <2>1, <2>5, <3>1, EntryStays
  <2>7. CASE entry # None
    <3>1. PICK r \in C!Row : r = entry
      BY <2>7 DEF EntryTypes
    <3>2. r.cron \in ValidExprs /\ (~raced => RowFits(r)) /\ now \in Times /\ raced \in BOOLEAN
      BY <2>7, <3>1 DEF EntryTypes, EntryFits
    <3>3. entry' = C!Saved(r, m) /\ raced' = C!Raced(r, m)
      BY <1>9, <2>2, <2>7, <3>1 DEF C!Save
    <3>4. /\ C!Saved(r, m) \in C!Row /\ C!Saved(r, m).cron \in ValidExprs
          /\ ~C!Raced(r, m) => RowFits(C!Saved(r, m))
          /\ C!Raced(r, m) \in BOOLEAN
      BY <2>2, <2>4, <3>2, SavedFits
    <3>5. EntryTypes'
      BY <2>5, <3>3, <3>4 DEF EntryTypes
    <3>6. EntryFits'
      BY <3>3, <3>4 DEF EntryFits, RowFits
    <3>7. QED BY <2>1, <3>5, <3>6
  <2>8. QED BY <2>6, <2>7
<1>10. ASSUME NEW c \in Client, C!Refuse(c) \/ C!Get(c) PROVE TaskInv'
  <2>1. MethodTypes'
    BY <1>10, MethodEnds DEF C!Refuse, C!Get
  <2>2. QED BY <1>10, <2>1, EntryStays DEF C!Refuse, C!Get
<1>11. ASSUME NEW c \in Client, C!Create(c) PROVE TaskInv'
  <2>1. MethodTypes'
    BY <1>11, MethodEnds DEF C!Create
  <2>2. PICK m \in C!Call : m = method[c] /\ m.op = "create" /\ ~C!Refuses(m)
    BY <1>11 DEF C!Create, C!Ready, MethodTypes
  <2>3. m.cron \in ValidExprs /\ now \in Times
    BY <2>2 DEF C!Refuses, EntryTypes
  <2>4. UNCHANGED <<now, taskEdits, taskFaults>>
    BY <1>11 DEF C!Create
  <2>5. PICK b \in BOOLEAN :
          IF entry = None /\ (b => C!Next0(m.cron) # None)
          THEN entry' = C!Created(m.cron, b) /\ raced' = FALSE
          ELSE UNCHANGED <<entry, raced>>
    BY <1>11, <2>2 DEF C!Create
  <2>6. CASE UNCHANGED <<entry, raced>>
    BY <2>1, <2>4, <2>6, EntryStays
  <2>7. CASE /\ b => C!Next0(m.cron) # None
             /\ entry' = C!Created(m.cron, b) /\ raced' = FALSE
    <3>1. /\ C!Created(m.cron, b) \in C!Row
          /\ C!Created(m.cron, b).cron = m.cron /\ RowFits(C!Created(m.cron, b))
      BY <2>3, <2>7, CreatedFits
    <3>2. EntryTypes'
      BY <2>4, <2>7, <3>1 DEF EntryTypes
    <3>3. EntryFits'
      BY <2>3, <2>7, <3>1 DEF EntryFits, RowFits
    <3>4. QED BY <2>1, <3>2, <3>3
  <2>8. QED BY <2>5, <2>6, <2>7
<1>12. ASSUME NEW c \in Client, C!Delete(c) PROVE TaskInv'
  <2>1. MethodTypes'
    BY <1>12, MethodEnds DEF C!Delete
  <2>2. EntryTypes' /\ EntryFits'
    BY <1>12 DEF C!Delete, EntryTypes, EntryFits
  <2>3. QED BY <2>1, <2>2
<1>13. ASSUME NEW x \in Executor, C!Handle(x) PROVE TaskInv'
  BY <1>2, <1>13, MethodsStay, EntryStays DEF C!Handle
<1>14. ASSUME NEW x \in Executor, C!ReportLost(x) PROVE TaskInv'
  <2>1. MethodTypes'
    BY <1>2, <1>14, MethodsStay DEF C!ReportLost
  <2>2. EntryTypes' /\ EntryFits'
    BY <1>14, TaskFaultCounted DEF C!ReportLost
  <2>3. QED BY <2>1, <2>2
<1>15. CASE C!Serve
  BY <1>2, <1>15, MethodsStay, EntryStays DEF C!Serve
<1>16. CASE C!Tick
  <2>1. now' \in Times
    BY <1>16, EntryRowFields DEF C!Tick, EntryTypes
  <2>2. MethodTypes'
    BY <1>2, <1>16, MethodsStay DEF C!Tick
  <2>3. EntryTypes' /\ EntryFits'
    BY <1>16, <2>1 DEF C!Tick, EntryTypes, EntryFits, RowFits
  <2>4. QED BY <2>2, <2>3
<1>17. Client \subseteq C!User /\ Service \in C!User
  BY UsersFinite
<1>18. QED BY <1>3, <1>4, <1>5, <1>6, <1>7, <1>8, <1>9, <1>10, <1>11, <1>12, <1>13, <1>14, <1>15,
              <1>16, <1>17 DEF C!Next, C!Method


LEMMA TaskInit == AllInit => ConnectionInv /\ TaskInv
<1> SUFFICES ASSUME AllInit PROVE ConnectionInv /\ TaskInv
  OBVIOUS
<1>1. C!Init /\ C!ConnectionInit
  BY DEF AllInit, C!Init
<1>2. C!Inside = {} /\ Outside
  BY <1>1 DEF C!ConnectionInit, C!Inside, Outside
<1>3. Cardinality(C!Inside) = 0
  BY <1>2, FS_EmptySet
<1>4. ConnectionInv
  <2>1. C!ConnectionTypeOK
    BY <1>1 DEF C!ConnectionInit, C!ConnectionTypeOK
  <2>2. Alive
    BY <1>1, <1>2 DEF C!ConnectionInit, Alive
  <2>3. Pinned
    BY <1>1, UsersFinite DEF C!ConnectionInit, Pinned
  <2>4. refs = 0
    BY <1>1 DEF C!ConnectionInit
  <2>5. QED BY <1>3, <2>1, <2>2, <2>3, <2>4 DEF ConnectionInv
<1>5. now = 0 /\ now \in Times
  BY <1>1, ClockTimes DEF C!Init
<1>6. EntryTypes /\ EntryFits
  <2>1. taskEdits = 0 /\ taskFaults = 0 /\ raced = FALSE
    BY <1>1 DEF C!Init
  <2>2. entry \in C!Row \union {None} /\ EntryFits
    <3>1. CASE entry = None
      BY <3>1 DEF EntryFits
    <3>2. CASE entry # None
      <4>1. PICK e \in ValidExprs : NextTable[e][0] # -1 /\ entry = C!Created(e, TRUE)
        BY <1>1, <3>2 DEF C!Init
      <4>2. C!Next0(e) # None
        BY <1>5, <4>1, TaskNames, NextTabled DEF C!Next0
      <4>3. entry \in C!Row /\ entry.cron = e /\ RowFits(entry)
        BY <1>5, <4>1, <4>2, CreatedFits
      <4>4. QED BY <4>3 DEF EntryFits
    <3>3. QED BY <3>1, <3>2
  <2>3. 0 \in 0 .. MaxTaskEdits /\ 0 \in 0 .. MaxTaskFaults
    BY TaskNames
  <2>4. taskEdits \in 0 .. MaxTaskEdits /\ taskFaults \in 0 .. MaxTaskFaults /\ raced \in BOOLEAN
    BY <2>1, <2>3
  <2>5. EntryTypes
    BY <1>5, <2>2, <2>4 DEF EntryTypes
  <2>6. QED BY <2>2, <2>5
<1>7. MethodTypes
  BY <1>1 DEF C!Init, MethodTypes
<1>8. QED BY <1>4, <1>6, <1>7 DEF TaskInv

LEMMA TaskSteps == AllSpec => []ConnectionInv /\ []TaskInv
<1>1. [AllNext]_all => [C!Next]_tasks
  BY DEF AllNext, Queue, Triggers, Tasks, all
<1>2. QED BY <1>1, TaskInit, ConnectionNext, TaskNext, PTL DEF AllSpec


-----------------------------------------------------------------------------
(* Theorems *)

\* Type correctness of the queue: every row, lease, snapshot and detached write
\* stays in its domain whatever transactions, calls and faults interleave.
THEOREM QueueTypeOK == Spec => []TypeOK
<1>1. IInv => TypeOK
  BY DEF IInv
<1>2. QED BY <1>1, Inductive, PTL DEF Spec

\* The execution gate (claim and _active in executions.py) is open only for a
\* revision the platform acknowledged and that asks for the row as it stands.
THEOREM QueueGateConfirmed == Spec => []GateConfirmed
BY GateFollows, Inductive, PTL DEF Spec

\* A delete intent (ScheduleJob.delete_requested) is irrevocable: once requested
\* it stays, the row stays paused and no trigger is asked for.
THEOREM QueueDeletionSticks == Spec => DeletionSticks
BY DeletionFollows, PTL DEF Spec

\* Unless a write outlived its lease, what the platform holds for a task that the
\* queue reports as synced or as deleted is what it was last asked for, though the
\* platform compares no versions and calls fail, time out and land late.
THEOREM QueueAgreement == Spec => []AgreementUnlessOverlapped
BY AgreementFollows, InductiveAgreement, PTL DEF Spec

\* All of it holds of the queue as it stands beside the back ends.
THEOREM QueueBesideTriggers ==
    AllSpec => [](GateConfirmed /\ AgreementUnlessOverlapped) /\ DeletionSticks
BY QueueSteps, GateFollows, AgreementFollows, InductiveAgreement, DeletionFollows, PTL

\* Whatever the back ends do for the requests and the schedule worker, no task has
\* two blocks in the crontab, no back end but the deployment's is touched, and a
\* write from an up-to-date listing leaves the lines of all others as they are
\* (dispatcher.py, _strip_block and the functions around it).
THEOREM TriggersAreKept == AllSpec => TriggersKept
<1> DEFINE Kept == \A w \in T!Pusher :
              T!At(w, "writing") /\ pusher[w].seen = crontab /\ crontab' # crontab /\ T!At(w, "ok")' =>
                  crontab' \ T!BlocksOf(crontab', pusher[w].task) =
                      crontab \ T!BlocksOf(crontab, pusher[w].task)
<1>1. TriggerInv /\ [T!Next]_triggers => Kept
  <2> SUFFICES ASSUME TriggerInv, [T!Next]_triggers, NEW w \in T!Pusher, T!At(w, "writing"),
                      pusher[w].seen = crontab, crontab' # crontab, T!At(w, "ok")'
               PROVE  crontab' \ T!BlocksOf(crontab', pusher[w].task) =
                          crontab \ T!BlocksOf(crontab, pusher[w].task)
    OBVIOUS
  <2>1. T!WriteTab(w)
    BY WriteIsItsOwn DEF triggers
  <2>2. PICK c \in T!Call : c = pusher[w]
    BY DEF T!At, TriggerInv, CallTypes
  <2>3. crontab' = T!Rewritten(c)
    BY <2>1, <2>2 DEF T!WriteTab
  <2>4. QED BY <2>2, <2>3, RewriteKeepsOthers
<1> HIDE DEF Kept
<1>2. AllSpec => [][Kept]_triggers
  BY <1>1, TriggerSteps, PTL
<1>3. AllSpec => T!OthersKept
  BY <1>2 DEF T!OthersKept, T!vars, triggers, Kept
<1>4. QED BY <1>3, TriggerSteps, TriggersTyped, PTL DEF TriggersKept

\* However entering, failing, leaving and closing interleave, the reference count
\* is the number of callers inside, a pinned connection is never lost, and the
\* last one out leaves nothing open (connection.py, _ensure_connected and
\* _release_connected).
THEOREM ConnectionIsCounted == AllSpec => []ConnectionCounted
<1>1. ConnectionInv /\ TaskInv => ConnectionCounted
  <2> SUFFICES ASSUME ConnectionInv, TaskInv PROVE ConnectionCounted
    OBVIOUS
  <2> USE DEF ConnectionInv
  <2>1. C!TypeOK
    BY DEF C!TypeOK, TaskInv, EntryTypes, MethodTypes
  <2>2. C!CountIsExact
    BY SameUserCount DEF C!CountIsExact
  <2>3. C!PinnedIsWarm
    BY DEF C!PinnedIsWarm, Pinned, C!ConnectionTypeOK
  <2>4. C!LastOneCloses
    <3> SUFFICES ASSUME \A u \in C!User : at[u] = "out"
                 PROVE  ~ready /\ conn = "closed" /\ refs = 0
      BY DEF C!LastOneCloses
    <3>1. C!Inside = {} /\ Outside
      BY DEF C!Inside, Outside
    <3>2. refs = 0
      BY <3>1, FS_EmptySet
    <3>3. QED BY <3>1, <3>2 DEF Alive, C!ConnectionTypeOK
  <2>5. QED BY <2>1, <2>2, <2>3, <2>4 DEF ConnectionCounted, C!ConnectionCounted
<1>2. QED BY <1>1, TaskSteps, PTL

\* What is due next is a time the expression matches, unless a column was saved
\* from a row that had changed since it was read, and the Windows triggers fire
\* when the expression does for exactly the expressions that do not repeat or
\* whose minute step divides the hour (cron_utils.py, next_after and
\* to_windows_xml).
THEOREM TriggersAreFit == AllSpec => []TriggersFit
<1>1. TaskInv => TriggersFit
  <2> SUFFICES ASSUME TaskInv PROVE TriggersFit
    OBVIOUS
  <2>1. C!NextRunFits
    BY DEF TaskInv, EntryFits, RowFits, C!NextRunFits
  <2>2. WindowsAgrees
    BY TranslationAgrees DEF WindowsAgrees
  <2>3. QED BY <2>1, <2>2 DEF TriggersFit
<1>2. QED BY <1>1, TaskSteps, PTL

\* The bounded loop of next_after, for every calendar and expression: the time it
\* returns matches, no time between matches, and it raises only when no time of
\* the calendar does.
THEOREM SearchFindsTheFirst ==
    ASSUME NEW e, NEW t \in Times
    PROVE  \/ NextAfter(e, t) = -1 /\ \A s \in Times : ~Matches(e, s)
           \/ \E k \in 1 .. Lookahead :
                /\ NextAfter(e, t) = Cursor(t, k)
                /\ NextAfter(e, t) \in Times /\ Matches(e, NextAfter(e, t))
                /\ \A j \in 1 .. k - 1 : ~Matches(e, Cursor(t, j))
<1>1. SUFFICES ASSUME NextAfter(e, t) = -1, \A k \in 1 .. Lookahead : ~Matches(e, Cursor(t, k)),
                      NEW s \in Times
               PROVE  ~Matches(e, s)
  BY NextIsFirst
<1>2. Period \in Nat \ {0} /\ t \in Nat /\ s \in 0 .. Period - 1 /\ t <= Period - 1
  BY CalendarCounts, ClockTimes DEF Times
<1>3. CASE s > t
  <2>1. s - t \in 1 .. Lookahead /\ t + (s - t) = Period * 0 + s
    BY <1>2, <1>3, LookaheadFits
  <2>2. Cursor(t, s - t) = s
    BY <1>2, <2>1, Division DEF Cursor
  <2>3. QED BY <1>1, <2>1, <2>2
<1>4. CASE s <= t
  <2>1. s - t + Period \in 1 .. Lookahead /\ t + (s - t + Period) = Period * 1 + s
    BY <1>2, <1>4, LookaheadFits
  <2>2. Cursor(t, s - t + Period) = s
    BY <1>2, <2>1, Division DEF Cursor
  <2>3. QED BY <1>1, <2>1, <2>2
<1>5. QED BY <1>2, <1>3, <1>4

\* The translation to Windows, for every calendar: an expression that can be
\* translated fires at the times it matches if, and only if, it does not repeat,
\* its step divides the hour, or a day has only one.
THEOREM WindowsFiresAsWritten ==
    ASSUME NEW e \in WindowsExprs
    PROVE  WindowsTable[e] = MatchTable[e] <=> e \in DividesHour
BY TranslationAgrees
=============================================================================
