------------------------------ MODULE Execution ------------------------------
(***************************************************************************)
(* The execution protocol of core/services/executions.py and its client    *)
(* core/task/run.py with core/handlers/douyin_spark.py.  The platform      *)
(* delivers the event of a plan (a task and a scheduled minute) any number *)
(* of times; every delivery starts an executor, which claims the plan,     *)
(* fetches the task, obtains the right to send, presses Enter and reports  *)
(* a result.  Executors die and their requests time out, which says        *)
(* nothing about whether or when the server handles them.                  *)
(*                                                                         *)
(* `clock' counts instants; two things may happen at the same one.  A      *)
(* digest stands for the content it is computed from: the time of day and  *)
(* the text, which here covers the account and the recipient too.  A run   *)
(* is known by its plan: (task, scheduled_for) is unique.                  *)
(***************************************************************************)
EXTENDS Integers, FiniteSets

CONSTANTS
    Task,
    Text,        \* what a user may want sent
    SendTime,    \* instants of the day a task may be scheduled for
    Day, MaxAge, \* length of a day, MAX_AGE
    Horizon,     \* bound: no claim after this instant
    Legacy,      \* plans an older version has already executed, at the actual time
    Executor,
    Reported,    \* levels a receipt adapter reports; none while there is no adapter
    Shown,       \* what an executor reports once it has seen its message
    Serialized,  \* write transactions are serial (SQLite); otherwise read committed
    MaxEdits,    \* bound on changes of the business side
    MaxFaults,   \* bound on crashes and timeouts
    None

ASSUME TimeAssumption ==
    /\ Day \in Nat /\ MaxAge \in Nat /\ Horizon \in Nat
    /\ MaxEdits \in Nat /\ MaxFaults \in Nat
    /\ SendTime \subseteq 0 .. Day - 1

Slot == 0 .. Horizon
Plan == Task \X Slot
Content == [time : SendTime, text : Text]

Terminal == {"success", "accepted", "submitted", "uncertain", "failed"}
Level == 0 .. 3      \* unknown, accepted, delivered, read

TaskRun == [status : Terminal \union {"running", "legacy"},
            stage : {"preparing", "sending", "confirming", "submitted", "accepted", "confirmed"},
            started : Nat, content : Content,
            level : Level, message : Plan \union {None}]

\* A run_task call between its requests.
Attempt == [plan : Plan, at : {"claimed", "fetched", "granted", "done"},
            content : Content \union {None}, result : Terminal \union {None}]

ASSUME ExecutionAssumption ==
    /\ Legacy \subseteq Plan
    /\ Reported \subseteq Level \ {0}
    /\ Shown \subseteq {"submitted", "accepted", "success"}
    /\ Serialized \in BOOLEAN
    /\ None \notin Content /\ None \notin TaskRun /\ None \notin Attempt
    /\ None \notin Plan /\ None \notin Terminal

VARIABLES
    clock,
    task,     \* SparkTask: what to send, and when
    gate,     \* "open": enabled and synced; "pending": enabled; "paused"
    run,      \* TaskRun with its ExecutionClaim and ExecutionEvidence
    summary,  \* ScheduledTask.status, and the slot of the run it tells of
    executor,
    asked,    \* sending requests the executor no longer waits for
    results,  \* finish requests under way
    open,     \* finish transactions that have read and not yet written
    edits,    \* business changes so far
    faults,   \* faults so far
    sent,     \* history: how often a plan's message was sent
    posted    \* history: what was sent for it last

vars == <<clock, task, gate, run, summary, executor, asked, results, open, edits,
          faults, sent, posted>>
bounds == <<edits, faults>>
server == <<run, summary>>
business == <<task, gate>>
page == <<sent, posted>>

TypeOK ==
    /\ clock \in Nat
    /\ task \in [Task -> Content \union {None}]
    /\ gate \in [Task -> {"open", "pending", "paused"}]
    /\ run \in [Plan -> TaskRun \union {None}]
    /\ summary \in [Task -> [status : Terminal \union {"running", "idle"}, slot : Slot \union {-1}]]
    /\ executor \in [Executor -> Attempt \union {None}]
    /\ asked \subseteq [plan : Plan, content : Content]
    /\ results \subseteq [plan : Plan, status : Terminal]
    /\ open \subseteq [plan : Plan, status : Terminal, newer : BOOLEAN]
    /\ edits \in Nat /\ faults \in Nat
    /\ sent \in [Plan -> Nat]
    /\ posted \in [Plan -> Content \union {None}]

Exists(t) == task[t] # None
\* A row of the old executor: no claim, no token, never touched again.
OldRun(k, c) == [status |-> "legacy", stage |-> "confirmed", started |-> k[2],
                 content |-> c, level |-> 0, message |-> None]

Init ==
    /\ clock = Day
    /\ task \in [Task -> Content]
    /\ gate = [t \in Task |-> "open"]
    /\ \E old \in SUBSET Legacy :
         run = [k \in Plan |-> IF k \in old THEN OldRun(k, task[k[1]]) ELSE None]
    /\ summary = [t \in Task |-> [status |-> "idle", slot |-> -1]]
    /\ executor = [e \in Executor |-> None]
    /\ asked = {} /\ results = {} /\ open = {}
    /\ edits = 0 /\ faults = 0
    /\ sent = [k \in Plan |-> 0]
    /\ posted = [k \in Plan |-> None]

-----------------------------------------------------------------------------
(* Time and the business side *)

Edited == edits < MaxEdits /\ edits' = edits + 1
Faulted == faults < MaxFaults /\ faults' = faults + 1

Tick ==
    /\ clock <= Horizon + MaxAge
    /\ clock' = clock + 1
    /\ UNCHANGED <<business, server, executor, asked, results, open, bounds, page>>

\* A write transaction holds the row of run k.
Locked(k) == \E o \in open : o.plan = k

\* TaskService.update_owned, which leaves the schedule to be synced again.
Edit(t) ==
    /\ Exists(t)
    /\ \E c \in Content : task' = [task EXCEPT ![t] = c]
    /\ gate' = [gate EXCEPT ![t] = IF @ = "paused" THEN "paused" ELSE "pending"]
    /\ Edited
    /\ UNCHANGED <<clock, server, executor, asked, results, open, faults, page>>

\* Pausing, resuming, and the schedule queue publishing or withdrawing a task.
MoveGate(t) ==
    /\ Exists(t)
    /\ \/ gate[t] \in {"open", "pending"} /\ gate' = [gate EXCEPT ![t] = "paused"]
       \/ gate[t] \in {"open", "paused"} /\ gate' = [gate EXCEPT ![t] = "pending"]
       \/ gate[t] = "pending" /\ gate' = [gate EXCEPT ![t] = "open"]
    /\ UNCHANGED <<clock, task, server, executor, asked, results, open, bounds, page>>

\* Deleting a task removes its runs and their tokens with it.
Remove(t) ==
    /\ Exists(t)
    /\ \A k \in Plan : k[1] = t => ~Locked(k)
    /\ task' = [task EXCEPT ![t] = None]
    /\ gate' = [gate EXCEPT ![t] = "paused"]
    /\ run' = [k \in Plan |-> IF k[1] = t THEN None ELSE run[k]]
    /\ summary' = [summary EXCEPT ![t] = [status |-> "idle", slot |-> -1]]
    /\ Edited
    /\ UNCHANGED <<clock, executor, asked, results, open, faults, page>>

-----------------------------------------------------------------------------
(* The server's transactions *)

\* _slot: the minute of the event or, when the caller names none, the latest one
\* scheduled; either way one the task is scheduled for now, and not long past.
SlotMatches(t, s) == s % Day = task[t].time /\ s <= clock /\ clock - s <= MaxAge

InWindow(u, s) == s <= u /\ u < s + MaxAge

\* Mutant: only an attempt at the very minute counts.
AttemptedExactly(t, s) == run[<<t, s>>] # None

\* An attempt whose time lies in the window of slot s, of whichever version.
Attempted(t, s) == \E u \in Slot : InWindow(u, s) /\ run[<<t, u>>] # None

FreshRun(t) == [status |-> "running", stage |-> "preparing", started |-> clock,
                content |-> task[t], level |-> 0, message |-> None]

\* claim(), answered: the caller holds the token of a run of its own.
Claim(e, t) ==
    /\ executor[e] = None
    /\ Exists(t) /\ gate[t] = "open"
    /\ clock <= Horizon
    /\ \E s \in Slot :
         /\ SlotMatches(t, s)
         /\ ~Attempted(t, s) /\ run[<<t, s>>] = None
         /\ run' = [run EXCEPT ![<<t, s>>] = FreshRun(t)]
         /\ summary' = [summary EXCEPT ![t] = [status |-> "running", slot |-> s]]
         /\ executor' = [executor EXCEPT ![e] =
              [plan |-> <<t, s>>, at |-> "claimed", content |-> None, result |-> None]]
    /\ UNCHANGED <<clock, business, asked, results, open, bounds, page>>

\* Mutant: the digest is not compared at all.
GrantedUnread(k, content) ==
    /\ run[k] # None /\ ~Locked(k)
    /\ run[k].status = "running" /\ run[k].stage = "preparing"
    /\ clock - run[k].started <= MaxAge
    /\ gate[k[1]] = "open"

\* Mutant: the digest is compared with the claim, not with the task as it is.
GrantedUnedited(k, content) ==
    /\ run[k] # None /\ ~Locked(k)
    /\ run[k].status = "running" /\ run[k].stage = "preparing"
    /\ content = run[k].content
    /\ clock - run[k].started <= MaxAge
    /\ gate[k[1]] = "open"

Granted(k, content) ==
    /\ run[k] # None /\ ~Locked(k)
    /\ run[k].status = "running" /\ run[k].stage = "preparing"
    /\ content = run[k].content
    /\ clock - run[k].started <= MaxAge
    /\ gate[k[1]] = "open"
    /\ task[k[1]] = run[k].content

\* The write of begin_send().
Sending(k) == run' = [run EXCEPT ![k].stage = "sending"]

\* finish(): evidence is needed for the upper results, the right to send for
\* all that claim a message went out, and a failure after that is uncertain.
Refused(r, status) ==
    \/ status = "success" /\ r.level < 2
    \/ status = "accepted" /\ r.level < 1
    \/ status \in {"success", "accepted", "submitted"} /\ r.stage # "sending"
\* Mutant: the executor is believed when it says that it failed.
OutcomeBelieved(r, status) == status
Outcome(r, status) == IF r.stage = "sending" /\ status = "failed" THEN "uncertain" ELSE status
StageOf == [success |-> "confirmed", accepted |-> "accepted", submitted |-> "submitted",
            uncertain |-> "confirming", failed |-> "preparing"]
Concluded(r, outcome) == [r EXCEPT !.status = outcome, !.stage = StageOf[outcome]]

\* Mutant: every result is the newest.
NewerNever(k) == FALSE

Newer(k) == \E s \in Slot : s > k[2] /\ run[<<k[1], s>>] # None

\* The summary of k's task after a result of run k.
Summarized(k, status, newer) ==
    IF newer THEN summary
             ELSE [summary EXCEPT ![k[1]] = [status |-> status, slot |-> k[2]]]

Finishes(k, outcome, newer) ==
    /\ run' = [run EXCEPT ![k] = Concluded(run[k], outcome)]
    /\ summary' = Summarized(k, outcome, newer)

\* A finish the server does not act upon: an unknown run, one that is over, or
\* a result it refuses.
Void(m) ==
    run[m.plan] # None =>
        run[m.plan].status # "running" \/ Refused(run[m.plan], m.status)

\* finish() in a serial write transaction.
ServeFinish(m) ==
    /\ m \in results /\ ~Locked(m.plan)
    /\ ~Serialized => Void(m)
    /\ IF Void(m) THEN UNCHANGED server
       ELSE Finishes(m.plan, Outcome(run[m.plan], m.status), Newer(m.plan))
    /\ results' = results \ {m}
    /\ UNCHANGED <<clock, business, executor, asked, open, bounds, page>>

\* finish() under read committed: it locks the run, looks for a newer one and
\* writes; the summary row is not locked in between.
FinishReads(m) ==
    /\ m \in results /\ ~Serialized /\ ~Locked(m.plan) /\ ~Void(m)
    /\ open' = open \union {[plan |-> m.plan, newer |-> Newer(m.plan),
                             status |-> Outcome(run[m.plan], m.status)]}
    /\ results' = results \ {m}
    /\ UNCHANGED <<clock, business, server, executor, asked, bounds, page>>

FinishWrites(o) ==
    /\ o \in open
    /\ Finishes(o.plan, o.status, o.newer)
    /\ open' = open \ {o}
    /\ UNCHANGED <<clock, business, executor, asked, results, bounds, page>>

\* A sending request whose caller has given up.
ServeSending(m) ==
    /\ m \in asked
    /\ IF Granted(m.plan, m.content) THEN Sending(m.plan) ELSE UNCHANGED run
    /\ asked' = asked \ {m}
    /\ UNCHANGED <<clock, business, summary, executor, results, open, bounds, page>>

\* Mutant: expiry forgets the runs that were sending.
OverduePreparing(k) ==
    /\ run[k] # None /\ run[k].status = "running" /\ clock - run[k].started > MaxAge
    /\ run[k].stage = "preparing"

Overdue(k) == run[k] # None /\ run[k].status = "running" /\ clock - run[k].started > MaxAge

Expired(r, stage) ==
    [r EXCEPT !.status = IF stage = "preparing" THEN "failed" ELSE "uncertain"]

\* Mutant: finish() does not lock the run it read, so that no expiry waits for it.
ExpireUnlocked(stage, T) ==
    LET late == {k \in Plan : k[1] \in T /\ Overdue(k) /\ run[k].stage = stage} IN
    /\ late # {}
    /\ run' = [k \in Plan |->
         IF k \in late THEN Expired(run[k], stage) ELSE run[k]]
    /\ UNCHANGED <<clock, business, summary, executor, asked, results, open, bounds, page>>

\* expire_runs(): two updates of their own, each of one stage, for the runs of
\* all tasks or of one owner's.  Neither touches the summary.
Expire(stage, T) ==
    LET late == {k \in Plan : k[1] \in T /\ Overdue(k) /\ run[k].stage = stage} IN
    /\ late # {} /\ \A k \in late : ~Locked(k)
    /\ run' = [k \in Plan |->
         IF k \in late THEN Expired(run[k], stage) ELSE run[k]]
    /\ UNCHANGED <<clock, business, summary, executor, asked, results, open, bounds, page>>

Witnessed(r, m, level) ==
    LET status == IF level = 1 THEN "accepted" ELSE "success" IN
    [r EXCEPT !.level = level, !.message = m, !.status = status, !.stage = StageOf[status]]

\* Mutant: a message may belong to several runs.
BindableAnyway(k, m) == run[k].message \in {None, m}

\* One message per run, one run per message (message_key is unique).
Bindable(k, m) ==
    /\ run[k].message \in {None, m}
    /\ \A j \in Plan \ {k} : run[j] # None => run[j].message # m

\* record_receipt(): the adapter saw message m of the same recipient and digest
\* as run k reach a level.  That m was sent for k is for the server to tell.
Receipt(k, m, level) ==
    /\ run[k] # None /\ ~Locked(k)
    /\ sent[m] > 0 /\ posted[m] = run[k].content
    /\ run[k].status \notin {"legacy", "failed"} /\ run[k].stage # "preparing"
    /\ Bindable(k, m) /\ level > run[k].level
    /\ run' = [run EXCEPT ![k] = Witnessed(run[k], m, level)]
    /\ summary' = Summarized(k, Witnessed(run[k], m, level).status, Newer(k))
    /\ UNCHANGED <<clock, business, executor, asked, results, open, bounds, page>>

-----------------------------------------------------------------------------
(* The executor: run_task and the douyin_spark handler *)

At(e, place) == executor[e] # None /\ executor[e].at = place

\* Whatever the handler raises or returns before it has sent is a failure.
Failing(e) == executor' = [executor EXCEPT ![e].at = "done", ![e].result = "failed"]

\* get_spark_task: the content as it is now, refused while paused.
Fetch(e) ==
    /\ At(e, "claimed")
    /\ LET t == executor[e].plan[1] IN
         /\ Exists(t) /\ gate[t] # "paused"
         /\ executor' = [executor EXCEPT ![e].at = "fetched", ![e].content = task[t]]
    /\ UNCHANGED <<clock, business, server, asked, results, open, bounds, page>>

\* A refused or failed fetch, no account, no cookies, no browser, no recipient.
GiveUp(e) ==
    /\ At(e, "claimed") \/ At(e, "fetched")
    /\ Failing(e)
    /\ UNCHANGED <<clock, business, server, asked, results, open, bounds, page>>

\* before_send() answered, with the right to send or with a refusal.
BeginSend(e) ==
    /\ At(e, "fetched")
    /\ LET a == executor[e] IN
         IF Granted(a.plan, a.content)
         THEN /\ Sending(a.plan)
              /\ executor' = [executor EXCEPT ![e].at = "granted"]
         ELSE Failing(e) /\ UNCHANGED run
    /\ UNCHANGED <<clock, business, summary, asked, results, open, bounds, page>>

\* before_send() times out: the request may be served before, later or never.
BeginSendTimesOut(e) ==
    /\ At(e, "fetched")
    /\ asked' = asked \union {[plan |-> executor[e].plan, content |-> executor[e].content]}
    /\ Failing(e)
    /\ Faulted
    /\ UNCHANGED <<clock, business, server, results, open, edits, page>>

\* The last look at the recipient fails after the right was granted.
Withdraw(e) ==
    /\ At(e, "granted")
    /\ Failing(e)
    /\ UNCHANGED <<clock, business, server, asked, results, open, bounds, page>>

Posts(e) ==
    LET k == executor[e].plan IN
    /\ sent' = [sent EXCEPT ![k] = @ + 1]
    /\ posted' = [posted EXCEPT ![k] = executor[e].content]

\* Enter is pressed and the message appears, or it went out unseen, or not.  If
\* leaving the browser raises then, run_task reports a failure all the same.
Press(e) ==
    /\ At(e, "granted")
    /\ \/ Posts(e) /\ \E result \in Shown \union {"uncertain", "failed"} :
             executor' = [executor EXCEPT ![e].at = "done", ![e].result = result]
       \/ UNCHANGED page /\ executor' = [executor EXCEPT ![e].at = "done", ![e].result = "uncertain"]
    /\ UNCHANGED <<clock, business, server, asked, results, open, bounds>>

\* finish_execution() leaves; run_task returns whatever becomes of it, and never
\* asks for another delivery.
Report(e) ==
    /\ At(e, "done")
    /\ results' = results \union {[plan |-> executor[e].plan, status |-> executor[e].result]}
    /\ executor' = [executor EXCEPT ![e] = None]
    /\ UNCHANGED <<clock, business, server, asked, open, bounds, page>>

\* The executor is gone, which includes the lost answer of a claim; between
\* granted and done it may have pressed Enter.
Crash(e) ==
    /\ executor[e] # None
    /\ executor' = [executor EXCEPT ![e] = None]
    /\ \/ UNCHANGED page
       \/ At(e, "granted") /\ Posts(e)
    /\ Faulted
    /\ UNCHANGED <<clock, business, server, asked, results, open, edits>>

-----------------------------------------------------------------------------

Business(t) == Edit(t) \/ MoveGate(t) \/ Remove(t)
ExecutorStep(e) ==
    \/ \E t \in Task : Claim(e, t)
    \/ Fetch(e) \/ GiveUp(e) \/ BeginSend(e) \/ BeginSendTimesOut(e)
    \/ Withdraw(e) \/ Press(e) \/ Report(e) \/ Crash(e)
ServerStep ==
    \/ \E m \in results : ServeFinish(m) \/ FinishReads(m)
    \/ \E o \in open : FinishWrites(o)
    \/ \E m \in asked : ServeSending(m)
    \/ \E stage \in {"preparing", "sending"}, T \in SUBSET Task : Expire(stage, T)
    \/ \E k, m \in Plan, level \in Reported : Receipt(k, m, level)

Next ==
    \/ Tick
    \/ \E t \in Task : Business(t)
    \/ \E e \in Executor : ExecutorStep(e)
    \/ ServerStep

Spec == Init /\ [][Next]_vars

\* Fairness: time passes, a transaction that has begun ends, and somebody opens
\* the list of runs now and then, which is all that expires them.
Fairness ==
    /\ WF_vars(Tick)
    /\ WF_vars(\E o \in open : FinishWrites(o))
    /\ \A stage \in {"preparing", "sending"} : WF_vars(Expire(stage, Task))

FairSpec == Spec /\ Fairness

-----------------------------------------------------------------------------
(* Properties *)

LegacyRun(k) == run[k] # None /\ run[k].status = "legacy"

\* docs/execution-reliability.md:15, at most one attempt per plan: whatever is
\* delivered twice, lost, timed out or served late, a plan's message goes out at
\* most once, and not at all if an older version acted in the plan's window.
AtMostOnce ==
    \A k \in Plan :
        /\ sent[k] <= 1
        /\ \A u \in Slot : InWindow(u, k[2]) /\ LegacyRun(<<k[1], u>>) => sent[k] = 0

\* What goes out is what the run was claimed for: its digest stands for the
\* message, though the executor fetched that message in a request of its own.
SendsWhatWasClaimed ==
    \A k \in Plan : posted[k] # None /\ run[k] # None => posted[k] = run[k].content

\* docs/execution-reliability.md:31, failed means that nothing was sent; and since
\* it stays failed (ResultsAreFinal), nothing will be, by any executor.
FailedMeansUnsent ==
    \A k \in Plan : run[k] # None /\ run[k].status = "failed" =>
        /\ sent[k] = 0
        /\ \A e \in Executor : At(e, "granted") => executor[e].plan # k

\* docs/execution-reliability.md:33, no result claims more than its evidence, and
\* a result that says a message was seen is never given to a run without one.
ResultsHaveEvidence ==
    \A k \in Plan : run[k] # None =>
        /\ run[k].status = "success" => run[k].level >= 2
        /\ run[k].status = "accepted" => run[k].level >= 1
        /\ run[k].status = "submitted" => sent[k] > 0
        /\ run[k].level > 0 => run[k].message # None /\ sent[run[k].message] > 0

\* One server message is evidence for one run, also where two runs of a task
\* sent the same text to the same recipient.
EvidenceNotShared ==
    \A j, k \in Plan :
        /\ run[j] # None /\ run[k] # None
        /\ run[j].message # None /\ run[j].message = run[k].message
        => j = k

\* A result has its evidence, and the evidence is its own.
EvidenceHolds == ResultsHaveEvidence /\ EvidenceNotShared

Rank(status) == CASE status = "running" -> 0
                  [] status \in {"submitted", "uncertain"} -> 1
                  [] status = "accepted" -> 2
                  [] OTHER -> 3

\* A result is final (docs/execution-reliability.md:13): repeated and late
\* reports, expiry and receipts that come out of order never take it back, never
\* turn a failure into a success, and only raise it on evidence.
ResultsAreFinal ==
    [][\A k \in Plan : run[k] # None /\ run'[k] # None /\ run[k].status # "running" =>
          \/ run'[k].status = run[k].status
          \/ /\ Rank(run'[k].status) > Rank(run[k].status)
             /\ run'[k].level > run[k].level
             /\ run[k].status # "failed" /\ run'[k].status # "failed"]_vars

\* The right to send is granted for what the user wants at that moment: the task
\* is published, says what the run was claimed for, and its minute is at most two
\* execution windows ago.
GrantsAreCurrent ==
    [][\A k \in Plan :
          /\ run[k] # None /\ run'[k] # None
          /\ run[k].stage = "preparing" /\ run'[k].stage = "sending"
          => /\ gate[k[1]] = "open" /\ task[k[1]] = run[k].content
             /\ task[k[1]].time = k[2] % Day
             /\ clock - k[2] \in 0 .. 2 * MaxAge]_vars

\* docs/execution-reliability.md:21 and the comment at executions.py:135: a delayed
\* older result does not overwrite the summary of a newer run.
SummaryKeepsNewest ==
    [][\A t \in Task : summary'[t] # summary[t] /\ summary'[t].status \in Terminal =>
          \A s \in Slot : run[<<t, s>>] # None => s <= summary'[t].slot]_vars

Running(k) == run[k] # None /\ run[k].status = "running"

\* Executions implement the single right to send: it is wanted what a task says
\* while its gate is open, the rights in hand are with the executors between
\* begin_send and Enter, and a plan is spent unless it is still to be claimed or
\* its run is preparing, and always where an older version acted.
Wanted == [t \in Task |-> IF gate[t] = "open" THEN task[t] ELSE None]
RightOf(e) == [plan |-> executor[e].plan, content |-> executor[e].content]
InHand == {RightOf(e) : e \in {x \in Executor : At(x, "granted")}}
Attemptable(k) ==
    /\ \/ run[k] = None /\ Exists(k[1])
       \/ Running(k) /\ run[k].stage = "preparing"
    /\ \A p \in Legacy : p[1] = k[1] /\ LegacyRun(p) => ~InWindow(p[2], k[2])
Spent == {k \in Plan : ~Attemptable(k)}

Promise == INSTANCE SendRight WITH wanted <- Wanted, inHand <- InHand, spent <- Spent
GivesOneRight == Promise!RightSpec

\* Of every plan there is one right to send, and it was given for what was wanted
\* at that moment, in time.
OneCurrentRight == GivesOneRight /\ GrantsAreCurrent

\* No run is left running for ever, whatever happened to its executor.
EveryRunEnds == \A k \in Plan : Running(k) ~> ~Running(k)
=============================================================================
