--------------------------- MODULE TriggerBackends ---------------------------
(***************************************************************************)
(* What lies inside the remote call of ScheduleQueue: the back ends of     *)
(* core/task/dispatcher.py.  A deployment has one of them.  On Linux all   *)
(* triggers share the crontab, which is listed, changed and written back   *)
(* as a whole without a lock; on Windows schtasks replaces one task at a   *)
(* time; in the cloud an event source is updated, and created when the     *)
(* platform says that it does not exist.                                   *)
(*                                                                         *)
(* A lease serialises the workers of one task (process_job), not those of  *)
(* different tasks: requests push the task they edited while the schedule  *)
(* worker goes through the due ones.                                       *)
(***************************************************************************)
EXTENDS Naturals, FiniteSets

CONSTANTS
    Task,       \* task ids
    Time,       \* cron expressions
    Foreign,    \* crontab lines that belong to nobody here
    Request,    \* API requests that edit and push a task
    Loop,       \* the schedule worker, which takes one task after the other
    None,
    MaxEdits,   \* bound on edits of tasks and of the crontab by hand
    MaxFaults   \* bound on failed commands, crashes and overrun leases

Pusher == Request \union {Loop}
Platform == {"linux", "windows", "fc"}
Block == Task \X Time       \* a marked block: task id and schedule
Line == Block \union Foreign

VARIABLES
    platform,   \* desired_state: target_env of every task of the deployment
    want,       \* ScheduleJob.desired: a schedule, or None for a disabled task
    due, lease, \* ScheduleJob.next_attempt_at <= now, and the holder of its lease
    crontab,    \* the lines of the crontab
    source,     \* the event source or the Windows task of each task
    worker,     \* calls in progress
    edits, faults

vars == <<platform, want, due, lease, crontab, source, worker, edits, faults>>

Call == [task : Task, time : Time \union {None}, seen : SUBSET Line,
         at : {"enqueued", "reading", "writing", "pushing", "creating", "ok", "failed"}]

\* The marks tell a block from any other line.
ConstantsFit ==
    /\ MaxEdits \in Nat /\ MaxFaults \in Nat
    /\ None \notin Time /\ None \notin Pusher /\ None \notin Call /\ Loop \notin Request
    /\ Foreign \intersect Block = {}

BlocksOf(lines, t) == lines \intersect ({t} \X Time)

\* At most one block a task, whoever wrote last; a back end that is not the
\* deployment's is never touched; the schedule worker does not enqueue.
TypeOK ==
    /\ platform \in Platform
    /\ want \in [Task -> Time \union {None}]
    /\ due \in [Task -> BOOLEAN]
    /\ lease \in [Task -> Pusher \union {None}]
    /\ crontab \subseteq Line
    /\ source \in [Task -> Time \union {None}]
    /\ worker \in [Pusher -> Call \union {None}]
    /\ edits \in 0 .. MaxEdits /\ faults \in 0 .. MaxFaults
    /\ \A t \in Task : Cardinality(BlocksOf(crontab, t)) <= 1
    /\ platform = "linux" => \A t \in Task : source[t] = None
    /\ platform # "linux" => crontab \subseteq Foreign
    /\ worker[Loop] # None => worker[Loop].at # "enqueued"

Init ==
    /\ platform \in Platform
    /\ want = [t \in Task |-> None] /\ source = want /\ lease = want
    /\ due = [t \in Task |-> FALSE]
    /\ crontab = {}
    /\ worker = [w \in Pusher |-> None]
    /\ edits = 0 /\ faults = 0

At(w, state) == worker[w] # None /\ worker[w].at = state
Edited == edits < MaxEdits /\ edits' = edits + 1
Faulted == faults < MaxFaults /\ faults' = faults + 1
First == IF platform = "linux" THEN "reading" ELSE "pushing"

-----------------------------------------------------------------------------
(* The queue around the call *)

\* An edit enqueues the task and goes on to push it.
Edit(w, t) ==
    /\ worker[w] = None /\ w # Loop
    /\ \E time \in Time \union {None} :
         /\ want' = [want EXCEPT ![t] = time]
         /\ worker' = [worker EXCEPT ![w] =
                [task |-> t, time |-> time, seen |-> {}, at |-> "enqueued"]]
    /\ due' = [due EXCEPT ![t] = TRUE]
    /\ Edited
    /\ UNCHANGED <<platform, lease, crontab, source, faults>>

\* process_job of a request: not its turn while another worker has the lease.
Draw(w) ==
    /\ At(w, "enqueued")
    /\ LET t == worker[w].task IN
       IF due[t] /\ lease[t] = None
       THEN /\ lease' = [lease EXCEPT ![t] = w]
            /\ worker' = [worker EXCEPT ![w].at = First, ![w].time = want[t]]
       ELSE /\ worker' = [worker EXCEPT ![w] = None]
            /\ UNCHANGED lease
    /\ UNCHANGED <<platform, want, due, crontab, source, edits, faults>>

\* reconcile: the next due task.
Reconcile(t) ==
    /\ worker[Loop] = None /\ due[t] /\ lease[t] = None
    /\ lease' = [lease EXCEPT ![t] = Loop]
    /\ worker' = [worker EXCEPT ![Loop] =
            [task |-> t, time |-> want[t], seen |-> {}, at |-> First]]
    /\ UNCHANGED <<platform, want, due, crontab, source, edits, faults>>

\* The completion asks for another attempt at once when it lost its lease or
\* the task was edited meanwhile.
DueAgain(w) ==
    LET t == worker[w].task IN lease[t] # w \/ want[t] # worker[w].time

\* Second transaction of process_job.  A failure backs off; a success is looked
\* at again after the reconciliation interval.
Complete(w) ==
    /\ At(w, "ok") \/ At(w, "failed")
    /\ LET t == worker[w].task IN
         /\ due' = [due EXCEPT ![t] = IF lease[t] = w THEN DueAgain(w) ELSE TRUE]
         /\ lease' = [lease EXCEPT ![t] = IF @ = w THEN None ELSE @]
    /\ worker' = [worker EXCEPT ![w] = None]
    /\ UNCHANGED <<platform, want, crontab, source, edits, faults>>

\* Backoff or interval over.
ComesDue(t) ==
    /\ ~due[t]
    /\ due' = [due EXCEPT ![t] = TRUE]
    /\ UNCHANGED <<platform, want, lease, crontab, source, worker, edits, faults>>

\* The lease runs out: of a worker that died, or (a fault) of one still at it.
Expire(t) ==
    /\ lease[t] # None
    /\ LET call == worker[lease[t]] IN
         IF call # None /\ call.task = t THEN Faulted ELSE UNCHANGED faults
    /\ lease' = [lease EXCEPT ![t] = None]
    /\ UNCHANGED <<platform, want, due, crontab, source, worker, edits>>

Crash(w) ==
    /\ worker[w] # None
    /\ worker' = [worker EXCEPT ![w] = None]
    /\ Faulted
    /\ UNCHANGED <<platform, want, due, lease, crontab, source, edits>>

-----------------------------------------------------------------------------
(* Linux: the crontab *)

\* crontab -l; an exit code other than 0 reads as an empty table.
ReadTab(w) ==
    /\ At(w, "reading")
    /\ \/ worker' = [worker EXCEPT ![w].at = "writing", ![w].seen = crontab]
          /\ UNCHANGED faults
       \/ crontab # {}
          /\ worker' = [worker EXCEPT ![w].at = "writing"]
          /\ Faulted
    /\ UNCHANGED <<platform, want, due, lease, crontab, source, edits>>

\* Mutants: the old block stays; every marked block goes.
StrippedNot(lines, t) == lines
StrippedAll(lines, t) == lines \intersect Foreign

\* _strip_block: everything but the task's own block.
Stripped(lines, t) == lines \ BlocksOf(lines, t)

\* register_linux and unregister_linux: the lines written back.
Rewritten(call) ==
    Stripped(call.seen, call.task)
        \union (IF call.time = None THEN {} ELSE {<<call.task, call.time>>})

\* crontab -: the whole table is replaced, or the command fails.
WriteTab(w) ==
    /\ At(w, "writing")
    /\ \/ crontab' = Rewritten(worker[w])
          /\ worker' = [worker EXCEPT ![w].at = "ok"]
          /\ UNCHANGED faults
       \/ worker' = [worker EXCEPT ![w].at = "failed"]
          /\ Faulted
          /\ UNCHANGED crontab
    /\ UNCHANGED <<platform, want, due, lease, source, edits>>

\* Somebody edits the crontab by hand.
EditTab ==
    /\ platform = "linux"
    /\ \E f \in Foreign \ crontab : crontab' = crontab \union {f}
    /\ Edited
    /\ UNCHANGED <<platform, want, due, lease, source, worker, faults>>

-----------------------------------------------------------------------------
(* Windows and the cloud: one trigger at a time *)

Set(w, t, time) ==
    /\ source' = [source EXCEPT ![t] = time]
    /\ worker' = [worker EXCEPT ![w].at = "ok"]

\* schtasks /Create /F replaces, or fails; /Delete is not even asked for its
\* exit code.
PushWindows(w) ==
    /\ platform = "windows" /\ At(w, "pushing")
    /\ LET call == worker[w] IN
       \/ Set(w, call.task, call.time) /\ UNCHANGED faults
       \/ /\ worker' = [worker EXCEPT ![w].at = IF call.time = None THEN "ok" ELSE "failed"]
          /\ Faulted /\ UNCHANGED source
    /\ UNCHANGED <<platform, want, due, lease, crontab, edits>>

\* Mutant: a source that is missing was updated all the same.
MissingAfter(w) == "ok"

MissingGoes(w) == "creating"

\* register_fc and unregister_fc: an update of a source that does not exist
\* leads to its creation, a deletion of one that does not exist is done.
PushCloud(w) ==
    /\ platform = "fc" /\ At(w, "pushing")
    /\ LET call == worker[w] IN
       \/ /\ call.time = None \/ source[call.task] # None
          /\ Set(w, call.task, call.time) /\ UNCHANGED faults
       \/ /\ call.time # None /\ source[call.task] = None
          /\ worker' = [worker EXCEPT ![w].at = MissingGoes(w)]
          /\ UNCHANGED <<source, faults>>
       \/ /\ worker' = [worker EXCEPT ![w].at = "failed"]
          /\ Faulted /\ UNCHANGED source
    /\ UNCHANGED <<platform, want, due, lease, crontab, edits>>

\* The creation; refused when someone was faster.
CreateSource(w) ==
    /\ At(w, "creating")
    /\ LET call == worker[w] IN
       \/ /\ source[call.task] = None
          /\ Set(w, call.task, call.time) /\ UNCHANGED faults
       \/ /\ source[call.task] # None
          /\ worker' = [worker EXCEPT ![w].at = "failed"]
          /\ UNCHANGED <<source, faults>>
       \/ /\ worker' = [worker EXCEPT ![w].at = "failed"]
          /\ Faulted /\ UNCHANGED source
    /\ UNCHANGED <<platform, want, due, lease, crontab, edits>>

-----------------------------------------------------------------------------

Step(w) ==
    \/ Draw(w) \/ Complete(w) \/ ReadTab(w) \/ WriteTab(w)
    \/ PushWindows(w) \/ PushCloud(w) \/ CreateSource(w)

Next ==
    \/ \E w \in Pusher : Step(w) \/ Crash(w) \/ \E t \in Task : Edit(w, t)
    \/ \E t \in Task : Reconcile(t) \/ ComesDue(t) \/ Expire(t)
    \/ EditTab

\* Commands return, time passes, and the schedule worker takes the job that has
\* been due longest.
Fairness ==
    /\ \A w \in Pusher : WF_vars(Step(w))
    /\ \A t \in Task : WF_vars(ComesDue(t)) /\ WF_vars(Expire(t)) /\ SF_vars(Reconcile(t))

Spec == Init /\ [][Next]_vars /\ Fairness

-----------------------------------------------------------------------------
(* Properties *)

\* A write of the crontab from an up-to-date listing changes the block of its
\* own task and nothing else: not the blocks of other tasks, not the lines that
\* are not the program's (dispatcher.py:66, _strip_block).
OthersKept ==
    [][\A w \in Pusher :
          At(w, "writing") /\ worker[w].seen = crontab /\ crontab' # crontab /\ At(w, "ok")' =>
              crontab' \ BlocksOf(crontab', worker[w].task) =
                  crontab \ BlocksOf(crontab, worker[w].task)]_vars

Agrees(t) ==
    IF platform = "linux"
    THEN BlocksOf(crontab, t) = IF want[t] = None THEN {} ELSE {<<t, want[t]>>}
    ELSE source[t] = want[t]

\* Two workers that rewrite the crontab for different tasks can lose each
\* other's block or bring back a removed one, and a listing that fails drops
\* them all.  Once edits and faults end, reconciliation makes every trigger what
\* its task asks for, and it stays so, on every back end.
TriggersConverge == \A t \in Task : <>[]Agrees(t)
=============================================================================
