----------------------------- MODULE SparkWorker -----------------------------
(***************************************************************************)
(* The predecessor's sending of messages: the worker process               *)
(* (spark_console/worker.py, scheduler.py, executor.py) against the        *)
(* console that creates, edits, pauses, deletes and retries tasks          *)
(* (services/tasks.py, web/app.py) and the login that renews the account   *)
(* (services/accounts.py).                                                 *)
(*                                                                         *)
(* A run is claimed in one transaction, executed in none, and recorded in  *)
(* another: anything the console does in between, and any end of the       *)
(* process, meets a run that may or may not have submitted its message.    *)
(* The other way round, the console decides about a retry and writes it    *)
(* later: its lock (task_write_lock) holds off its own requests, and       *)
(* nothing holds off the worker.                                           *)
(*                                                                         *)
(* There is one account.  Times are kept as what the code compares them    *)
(* with: a next run is waiting, due, or too late to be sent.               *)
(***************************************************************************)
EXTENDS Naturals, FiniteSets

CONSTANTS
    Task,       \* numbers, in the order of creation
    MaxEdits,   \* bound on what users, administrators and logins do
    MaxFaults,  \* bound on ends of the process
    None, Gone

VARIABLES
    task,       \* SparkTask rows
    account,    \* the DouyinAccount row
    log,        \* what task_runs and the mails about them say of each task
    quota,      \* how many tasks the user may have enabled
    retrying,   \* the task whose retry an administrator's request has decided on
    pc, now, result,    \* the worker: its run_once, the task and the ExecutionResult
    skewed,     \* the clock is wrong (SPARK_CLOCK_OFFSET_SECONDS of the deployment)
    sent,       \* history: messages submitted for the occurrence last claimed
    excused,    \* history: its runs that were interrupted, ordered by a login, or by
                \* a retry written after the run it was meant for was no longer the last
    mails,      \* history: mails that the login expired, since it was last good
    notes,      \* history: mails about failures since the last run that did not fail
    edits, faults

console == <<task, account, log, quota, retrying>>
worker == <<pc, now, result, skewed>>
history == <<sent, excused, mails, notes>>
vars == <<console, worker, history, edits, faults>>

Row == [on : BOOLEAN,
        linked : BOOLEAN,       \* douyin_account_id is set
        next : {"none", "waiting", "due", "missed"},
        again : BOOLEAN]        \* next_run_at repeats the last occurrence

Log == [status : {"none", "running", "success", "failed", "skipped"},
        code : {"none", "retry", "auth", "target", "conversation", "other"},
        streak : 0 .. 4,        \* failed runs at the end of the history, 4 for more
        rerun : {"none", "open", "noted"},  \* the last failure before sending, two hours back
        used : SUBSET {1, 5},   \* retry codes of the last fifteen minutes
        told : SUBSET {"target", "repeated"}]   \* incident keys of this streak

Kind == {"target", "repeated"}

\* What the parameters must be; Console, which composes this module, assumes it.
ConstantsFit ==
    /\ MaxEdits \in Nat /\ MaxFaults \in Nat /\ IsFiniteSet(Task)
    /\ None # Gone /\ None \notin Task /\ None \notin Kind
    /\ None \notin Row /\ Gone \notin Row
    /\ Gone \notin [valid : BOOLEAN, incident : BOOLEAN]

TypeOK ==
    /\ task \in [Task -> Row \union {None, Gone}]
    /\ account \in [valid : BOOLEAN, incident : BOOLEAN] \union {Gone}
    /\ log \in [Task -> Log]
    /\ quota \in 0 .. Cardinality(Task)
    /\ retrying \in Task \union {None}
    /\ pc \in {"down", "idle", "executing", "submitted", "recording"}
    /\ now \in Task \union {None}
    /\ skewed \in BOOLEAN
    /\ sent \in [Task -> Nat] /\ excused \in [Task -> Nat]
    /\ mails \in Nat /\ notes \in [Task -> [Kind -> Nat]]
    /\ edits \in 0 .. MaxEdits /\ faults \in 0 .. MaxFaults

NoLog == [status |-> "none", code |-> "none", streak |-> 0, rerun |-> "none", used |-> {}, told |-> {}]

Init ==
    /\ task = [t \in Task |-> None]
    /\ account = [valid |-> TRUE, incident |-> FALSE]
    /\ log = [t \in Task |-> NoLog]
    /\ quota = Cardinality(Task) /\ retrying = None
    /\ pc = "down" /\ now = None /\ result = None /\ skewed \in BOOLEAN
    /\ sent = [t \in Task |-> 0] /\ excused = sent
    /\ mails = 0 /\ notes = [t \in Task |-> [k \in Kind |-> 0]]
    /\ edits = 0 /\ faults = 0

Edited == edits < MaxEdits /\ edits' = edits + 1
Faulted == faults < MaxFaults /\ faults' = faults + 1

Exists(t) == task[t] \notin {None, Gone}
Enabled(t) == Exists(t) /\ task[t].on
Allowed == Cardinality({t \in Task : Enabled(t)}) < quota

-----------------------------------------------------------------------------
(* The console *)

\* task_write_lock
Unlocked == retrying = None

\* TaskService.create
Create(t) ==
    /\ Unlocked /\ task[t] = None /\ account # Gone /\ Allowed /\ Edited
    /\ task' = [task EXCEPT ![t] = [on |-> TRUE, linked |-> TRUE, next |-> "waiting", again |-> FALSE]]
    /\ UNCHANGED <<account, log, quota, retrying, worker, history, faults>>

\* update_owned: a new time and an account that exists, for a disabled task too.
Edit(t) ==
    /\ Unlocked /\ Exists(t) /\ account # Gone /\ Edited
    /\ task' = [task EXCEPT ![t] = [@ EXCEPT !.linked = TRUE, !.next = "waiting", !.again = FALSE]]
    /\ UNCHANGED <<account, log, quota, retrying, worker, history, faults>>

\* set_enabled: next_run_at stays as it is.
Toggle(t) ==
    /\ Unlocked /\ Exists(t) /\ Edited
    /\ ~task[t].on => task[t].linked /\ Allowed
    /\ task' = [task EXCEPT ![t].on = ~@]
    /\ UNCHANGED <<account, log, quota, retrying, worker, history, faults>>

\* delete_owned, admin_delete_task: the runs go with the task.
Delete(t) ==
    /\ Exists(t) /\ Edited
    /\ task' = [task EXCEPT ![t] = Gone]
    /\ log' = [log EXCEPT ![t] = NoLog]
    /\ notes' = [notes EXCEPT ![t] = [k \in Kind |-> 0]]
    /\ UNCHANGED <<account, quota, retrying, worker, sent, excused, mails, faults>>

\* AccountService.delete_owned
DeleteAccount ==
    /\ account # Gone /\ Edited
    /\ account' = Gone
    /\ task' = [t \in Task |-> IF Exists(t) THEN [task[t] EXCEPT !.on = FALSE, !.linked = FALSE]
                               ELSE task[t]]
    /\ UNCHANGED <<log, quota, retrying, worker, history, faults>>

NewQuota == Edited /\ quota' \in 0 .. Cardinality(Task) /\ quota' # quota

\* reconcile_user: the youngest tasks above the quota are paused.
Reconciled(limit) ==
    LET excess == {t \in Task : Enabled(t) /\ Cardinality({u \in Task : Enabled(u) /\ u < t}) >= limit}
    IN  [t \in Task |-> IF t \in excess THEN [task[t] EXCEPT !.on = FALSE, !.next = "none"] ELSE task[t]]

\* grant and set_limit, and a grant that starts or ends by itself.
Grant ==
    /\ NewQuota
    /\ UNCHANGED <<task, account, log, retrying, worker, history, faults>>

\* update_grant and revoke, which reconcile the user at once.
UpdateGrant ==
    /\ Unlocked /\ NewQuota
    /\ task' = Reconciled(quota')
    /\ UNCHANGED <<account, log, retrying, worker, history, faults>>

Again(row) == [row EXCEPT !.next = "waiting", !.again = TRUE]

\* The failures of SAFE_MANUAL_RETRY_CODES: nothing was sent.
FailedSafely(t) == log[t].status = "failed" /\ log[t].code \in {"conversation", "target"}

\* admin_retry_run reads the task and its latest run, which failed before anything
\* was sent.  How long a waiting run still waits is not told apart: one that the
\* request finds within five minutes of its time is left alone.
ReadRetry(t) ==
    /\ Unlocked /\ Enabled(t) /\ FailedSafely(t) /\ Edited
    /\ retrying' = t
    /\ UNCHANGED <<task, account, log, quota, worker, history, faults>>

\* It writes the next run, whatever the worker has done in the meantime; a task
\* that is gone by then makes it raise.
WriteRetry(t) ==
    /\ retrying = t /\ retrying' = None
    /\ IF Exists(t)
       THEN /\ task' = [task EXCEPT ![t] = Again(@)]
            /\ excused' = IF FailedSafely(t) THEN excused ELSE [excused EXCEPT ![t] = @ + 1]
       ELSE UNCHANGED <<task, excused>>
    /\ UNCHANGED <<account, log, quota, worker, sent, mails, notes, edits, faults>>

\* create_from_storage_state for the same Douyin account, and
\* schedule_recent_safe_failures in the same transaction: the last failure of a
\* safe stage is repeated, unless it was or a success came after it, and noted.
\* A later failure of another stage, with a message submitted, is not asked for.
Rebind ==
    LET repeated == {t \in Task : Enabled(t) /\ task[t].linked /\ log[t].rerun = "open"} IN
    /\ account # Gone /\ Edited
    /\ account' = [valid |-> TRUE, incident |-> FALSE]
    /\ mails' = 0
    /\ task' = [t \in Task |-> IF t \in repeated THEN Again(task[t]) ELSE task[t]]
    /\ log' = [t \in Task |-> IF t \in repeated THEN [log[t] EXCEPT !.rerun = "noted"]
                           ELSE log[t]]
    /\ excused' = [t \in Task |-> excused[t] + IF t \in repeated THEN 1 ELSE 0]
    /\ UNCHANGED <<quota, retrying, worker, sent, notes, faults>>

-----------------------------------------------------------------------------
(* The records of a run *)

\* finish_run: a success ends the streak and forgives the failures before it;
\* a skipped run only ends the streak.
Finished(t, status, code, safe) ==
    LET l == log[t] IN
    IF status = "failed"
    THEN [l EXCEPT !.status = status, !.code = code,
                   !.streak = IF @ = 4 THEN 4 ELSE @ + 1,
                   !.rerun = IF safe THEN "open" ELSE @,
                   !.told = IF l.streak = 0 THEN {} ELSE @]
    ELSE [l EXCEPT !.status = status, !.code = code, !.streak = 0,
                   !.rerun = IF status = "success" THEN "none" ELSE @]

Quiet(t, l) == IF l.streak = 0 THEN [notes EXCEPT ![t] = [k \in Kind |-> 0]] ELSE notes

\* The keys enqueue_template knows: one incident per streak and kind.
Heard(l) == l.told

\* The kind of mail _record_task_failure_incident writes for a run, or None.
Notice(l, code) ==
    LET kind == CASE code = "target" -> "target"
                  [] code \notin {"target", "auth"} /\ l.streak = 3 -> "repeated"
                  [] OTHER -> None
    IN  IF kind \in Heard(l) THEN None ELSE kind

\* The run ended, and if it failed the user is told.
Reported(t, status, code, safe) ==
    LET l == Finished(t, status, code, safe)
        kind == IF status = "failed" THEN Notice(l, code) ELSE None
    IN  /\ log' = [log EXCEPT ![t] = [l EXCEPT !.told = @ \union ({kind} \ {None})]]
        /\ notes' = IF kind = None THEN Quiet(t, l) ELSE [notes EXCEPT ![t][kind] = @ + 1]

-----------------------------------------------------------------------------
(* The worker *)

Interrupted(t) == log[t].status = "running"

\* _recover_interrupted_runs: whatever the run had done, it failed and is
\* repeated in a minute if its task is enabled.
Boot ==
    /\ pc = "down"
    /\ pc' = "idle"
    /\ log' = [t \in Task |-> IF Interrupted(t) THEN Finished(t, "failed", "other", FALSE) ELSE log[t]]
    /\ task' = [t \in Task |-> IF Interrupted(t) /\ Enabled(t) THEN Again(task[t]) ELSE task[t]]
    /\ excused' = [t \in Task |-> excused[t] + IF Interrupted(t) /\ Enabled(t) THEN 1 ELSE 0]
    /\ UNCHANGED <<account, quota, retrying, now, result, skewed, sent, mails, notes, edits, faults>>

\* The first transaction of run_once: reconcile_all, then claim_next_due_task, which
\* moves next_run_at to the next day.  The run fails at once on a bad clock and
\* is skipped when it is late.
Claim ==
    LET rows == Reconciled(quota)
        due == {t \in Task : rows[t] \notin {None, Gone} /\ rows[t].on /\ rows[t].linked
                             /\ rows[t].next \in {"due", "missed"}}
    IN  /\ pc = "idle"
        /\ IF due = {}
           THEN /\ rows # task /\ task' = rows
                /\ UNCHANGED <<account, log, quota, retrying, worker, history, edits, faults>>
           ELSE \E t \in due :
                  /\ task' = [rows EXCEPT ![t] = [@ EXCEPT !.next = "waiting", !.again = FALSE]]
                  /\ sent' = IF rows[t].again THEN sent ELSE [sent EXCEPT ![t] = 0]
                  /\ excused' = IF rows[t].again THEN excused ELSE [excused EXCEPT ![t] = 0]
                  /\ IF skewed \/ rows[t].next = "missed"
                     THEN LET l == Finished(t, IF skewed THEN "failed" ELSE "skipped", "other", FALSE)
                          IN  /\ log' = [log EXCEPT ![t] = l]
                              /\ notes' = Quiet(t, l)
                              /\ UNCHANGED <<pc, now>>
                     ELSE /\ log' = [log EXCEPT ![t].status = "running", ![t].code = "none"]
                          /\ pc' = "executing" /\ now' = t
                          /\ UNCHANGED notes
                  /\ UNCHANGED <<account, quota, retrying, result, skewed, mails, edits, faults>>

\* Enter is pressed.
Submit ==
    /\ pc = "executing"
    /\ pc' = "submitted"
    /\ sent' = [sent EXCEPT ![now] = @ + 1]
    /\ UNCHANGED <<console, now, result, skewed, excused, mails, notes, edits, faults>>

\* Mutant: any failure of the page may be tried again.
RetryableAlways(submitted) == TRUE

\* retryable = not message_submitted
Retryable(submitted) == ~submitted

Failure(code, safe, retry) == [status |-> "failed", code |-> code, safe |-> safe, retry |-> retry]

\* What execute returns, and what the worker makes of a timeout or an exception.
Results(submitted) ==
    {Failure("other", FALSE, FALSE), Failure("other", FALSE, Retryable(submitted))}
    \union
    IF submitted THEN {[status |-> "success", code |-> "none", safe |-> FALSE, retry |-> FALSE]}
    ELSE {Failure("auth", TRUE, FALSE), Failure("target", TRUE, FALSE),
          Failure("conversation", TRUE, TRUE), Failure("other", TRUE, Retryable(submitted))}

Execute ==
    /\ pc \in {"executing", "submitted"}
    /\ result' \in Results(pc = "submitted")
    /\ pc' = "recording"
    /\ UNCHANGED <<console, now, skewed, history, edits, faults>>

Announced == ~account.incident

\* _record_auth_incident: the tasks of the account are paused, and the user
\* gets one mail per incident.
AuthIncident ==
    /\ account' = [valid |-> FALSE, incident |-> TRUE]
    /\ task' = [t \in Task |-> IF Enabled(t) /\ task[t].linked
                               THEN [task[t] EXCEPT !.on = FALSE, !.next = "none"] ELSE task[t]]
    /\ mails' = mails + IF Announced THEN 1 ELSE 0

\* _schedule_retry: the first delay whose code is not in the last fifteen minutes.
RetryScheduled ==
    LET delay == IF 1 \notin log[now].used THEN 1 ELSE 5 IN
    /\ log' = [log EXCEPT ![now] = [Finished(now, "failed", "retry", result.safe)
                                    EXCEPT !.used = @ \union {delay}]]
    /\ task' = [task EXCEPT ![now] = Again(@)]
    /\ UNCHANGED <<account, mails, notes>>

\* The last transaction of run_once.  A run that went with its task, or an
\* expired login whose account was deleted, raises through run_loop.
Record ==
    /\ pc = "recording"
    /\ now' = None /\ result' = None
    /\ IF ~Exists(now) \/ (result.code = "auth" /\ account = Gone)
       THEN pc' = "down" /\ UNCHANGED <<task, account, log, mails, notes>>
       ELSE /\ pc' = "idle"
            /\ \/ result.retry /\ log[now].used # {1, 5} /\ RetryScheduled
               \/ /\ ~result.retry \/ log[now].used = {1, 5}
                  /\ Reported(now, result.status, result.code, result.safe)
                  /\ CASE result.code = "auth" -> AuthIncident
                       [] result.status = "success" /\ account # Gone ->
                            /\ account' = [valid |-> TRUE, incident |-> FALSE]
                            /\ mails' = 0
                            /\ UNCHANGED task
                       [] OTHER -> UNCHANGED <<task, account, mails>>
    /\ UNCHANGED <<quota, retrying, skewed, sent, excused, edits, faults>>

\* The process ends, by a signal or by itself.
Crash ==
    /\ pc # "down" /\ Faulted
    /\ pc' = "down" /\ now' = None /\ result' = None
    /\ UNCHANGED <<console, skewed, history, edits>>

\* Time passes for the next run, and for the failures of the last hours.
Passes(t) ==
    /\ Exists(t) /\ task[t].next \in {"waiting", "due"}
    /\ task' = [task EXCEPT ![t].next = IF @ = "waiting" THEN "due" ELSE "missed"]
    /\ UNCHANGED <<account, log, quota, retrying, worker, history, edits, faults>>

Forgotten(t) ==
    /\ log[t].used # {} \/ log[t].rerun # "none"
    /\ log[t].status # "running"
    /\ \/ \E d \in log[t].used : log' = [log EXCEPT ![t].used = @ \ {d}]
       \/ log' = [log EXCEPT ![t].rerun = "none"]
    /\ UNCHANGED <<task, account, quota, retrying, worker, history, edits, faults>>

-----------------------------------------------------------------------------

Step == Boot \/ Claim \/ Submit \/ Execute \/ Record

Next ==
    \/ \E t \in Task : \/ Create(t) \/ Edit(t) \/ Toggle(t) \/ Delete(t)
                       \/ ReadRetry(t) \/ WriteRetry(t)
                       \/ Passes(t) \/ Forgotten(t)
    \/ DeleteAccount \/ Grant \/ UpdateGrant \/ Rebind
    \/ Step \/ Crash

\* Every execution has a deadline of three minutes, and the container is
\* restarted; users owe nothing.
Fairness == WF_vars(Step)

Spec == Init /\ [][Next]_vars /\ Fairness

-----------------------------------------------------------------------------
(* Properties *)

\* A message is submitted again for the same occurrence only when a run of it
\* was interrupted by the end of the process, a login ordered it again, or a
\* retry was written late, once for each of these; no timeout, failure of the
\* page or retry that is written in time sends it twice.
ResentOnlyIfExcused == \A t \in Task : sent[t] <= 1 + excused[t]

\* One mail about an expired login until it is good again, and one of each kind
\* about a streak of failures, however many runs meet the same trouble and
\* whatever is re-enabled or retried in between.
ToldOnce == mails <= 1 /\ \A t \in Task, k \in Kind : notes[t][k] <= 1

\* A claimed run is recorded in the end, by its worker or by the next one.
RunsEnd == \A t \in Task : (log[t].status = "running") ~> (log[t].status # "running")

\* A message of one occurrence is submitted at most once: what
\* 2026-08-31-task-capacity-quota-dashboard-design.md says, and what an
\* interruption breaks, and a login even without one.
NeverResent == \A t \in Task : sent[t] <= 1

\* An enabled task has a time to run at.
EnabledHasNext == \A t \in Task : Enabled(t) => task[t].next # "none"

\* The third failure in a row is told.
ThirdFailureTold ==
    \A t \in Task : log[t].streak >= 3 /\ log[t].code = "other" => log[t].told # {}
=============================================================================
