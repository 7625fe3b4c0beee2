--------------------------- MODULE Execution_proofs ---------------------------
(***************************************************************************)
(* Proofs about Execution, for any number of tasks, plans and executors    *)
(* and under either isolation: types, at most one send per plan, what is   *)
(* sent is what was claimed, a failed run has sent nothing; a result has   *)
(* its own evidence and is final, and the right to send is granted for     *)
(* what is wanted now.  With serial transactions the newest run keeps the  *)
(* summary.                                                                *)
(***************************************************************************)
EXTENDS Execution, TLAPS

-----------------------------------------------------------------------------
(* Records *)

LEMMA RunTypes ==
    ASSUME NEW r \in TaskRun
    PROVE  /\ r # None
           /\ [r EXCEPT !.stage = "sending"] \in TaskRun
           /\ \A o \in Terminal : Concluded(r, o) \in TaskRun
           /\ \A stage : Expired(r, stage) \in TaskRun
           /\ \A m \in Plan, l \in Level :
                /\ Witnessed(r, m, l) \in TaskRun
                /\ Witnessed(r, m, l).status \in Terminal
<1>1. r # None
  BY ExecutionAssumption
<1>2. [r EXCEPT !.stage = "sending"] \in TaskRun
  BY DEF TaskRun
<1>3. ASSUME NEW o \in Terminal PROVE Concluded(r, o) \in TaskRun
  <2>1. StageOf[o] \in {"preparing", "confirming", "submitted", "accepted", "confirmed"}
    BY DEF StageOf, Terminal
  <2>2. QED BY <2>1 DEF TaskRun, Concluded
<1>4. ASSUME NEW stage PROVE Expired(r, stage) \in TaskRun
  BY DEF TaskRun, Expired, Terminal
<1>5. ASSUME NEW m \in Plan, NEW l \in Level
      PROVE  /\ Witnessed(r, m, l) \in TaskRun
             /\ Witnessed(r, m, l).status \in Terminal
  BY DEF TaskRun, Witnessed, StageOf, Terminal
<1>6. QED BY <1>1, <1>2, <1>3, <1>4, <1>5

LEMMA RunFields ==
    ASSUME NEW r \in TaskRun
    PROVE  /\ [r EXCEPT !.stage = "sending"].stage = "sending"
           /\ [r EXCEPT !.stage = "sending"].status = r.status
           /\ [r EXCEPT !.stage = "sending"].content = r.content
           /\ \A o \in Terminal : /\ Concluded(r, o).status = o
                                  /\ Concluded(r, o).stage = StageOf[o]
                                  /\ Concluded(r, o).content = r.content
           /\ \A stage : /\ Expired(r, stage).stage = r.stage
                         /\ Expired(r, stage).status =
                              IF stage = "preparing" THEN "failed" ELSE "uncertain"
                         /\ Expired(r, stage).content = r.content
           /\ \A m, l : /\ Witnessed(r, m, l).status \in {"accepted", "success"}
                        /\ Witnessed(r, m, l).stage \in {"accepted", "confirmed"}
                        /\ Witnessed(r, m, l).content = r.content
BY DEF TaskRun, Concluded, Expired, Witnessed, StageOf, Terminal

LEMMA FreshFields ==
    ASSUME NEW t, task[t] \in Content, clock \in Nat
    PROVE  /\ FreshRun(t) \in TaskRun /\ FreshRun(t) # None
           /\ FreshRun(t).status = "running" /\ FreshRun(t).stage = "preparing"
           /\ FreshRun(t).content = task[t]
<1>1. FreshRun(t) \in TaskRun
  BY DEF FreshRun, TaskRun, Level
<1>2. FreshRun(t) # None
  BY <1>1, ExecutionAssumption
<1>3. QED BY <1>1, <1>2 DEF FreshRun

LEMMA OldFields ==
    ASSUME NEW k \in Plan, NEW c \in Content
    PROVE  /\ OldRun(k, c) \in TaskRun /\ OldRun(k, c) # None
           /\ OldRun(k, c).status = "legacy" /\ OldRun(k, c).stage = "confirmed"
<1>1. k[2] \in Nat
  BY TimeAssumption DEF Plan, Slot
<1>2. OldRun(k, c) \in TaskRun
  BY <1>1 DEF OldRun, TaskRun, Level
<1>3. OldRun(k, c) # None
  BY <1>2, ExecutionAssumption
<1>4. QED BY <1>2, <1>3 DEF OldRun

\* An attempt that has been fetched has content, one that is done a result.
LEMMA AttemptTypes ==
    ASSUME NEW a \in Attempt
    PROVE  /\ a # None /\ a.plan \in Plan
           /\ [a EXCEPT !.at = "granted"] \in Attempt
           /\ \A r \in Terminal : [a EXCEPT !.at = "done", !.result = r] \in Attempt
           /\ \A c \in Content : [a EXCEPT !.at = "fetched", !.content = c] \in Attempt
<1>1. a # None /\ a.plan \in Plan
  BY ExecutionAssumption DEF Attempt
<1>2. [a EXCEPT !.at = "granted"] \in Attempt
  BY DEF Attempt
<1>3. ASSUME NEW r \in Terminal PROVE [a EXCEPT !.at = "done", !.result = r] \in Attempt
  BY DEF Attempt
<1>4. ASSUME NEW c \in Content PROVE [a EXCEPT !.at = "fetched", !.content = c] \in Attempt
  BY DEF Attempt
<1>5. QED BY <1>1, <1>2, <1>3, <1>4

LEMMA AttemptFields ==
    ASSUME NEW a \in Attempt
    PROVE  /\ [a EXCEPT !.at = "granted"].plan = a.plan
           /\ [a EXCEPT !.at = "granted"].at = "granted"
           /\ [a EXCEPT !.at = "granted"].content = a.content
           /\ \A r : /\ [a EXCEPT !.at = "done", !.result = r].plan = a.plan
                     /\ [a EXCEPT !.at = "done", !.result = r].at = "done"
           /\ \A c : /\ [a EXCEPT !.at = "fetched", !.content = c].plan = a.plan
                     /\ [a EXCEPT !.at = "fetched", !.content = c].at = "fetched"
BY DEF Attempt

-----------------------------------------------------------------------------

Holds(e, k) == executor[e] # None /\ executor[e].plan = k
MaySend(e, k) == Holds(e, k) /\ executor[e].at = "granted"

(* The inductive invariant *)

\* What has been fetched has content, what is done has a result.
AttemptComplete ==
    \A e \in Executor : executor[e] # None =>
        /\ executor[e].at \in {"fetched", "granted"} => executor[e].content \in Content
        /\ executor[e].at = "done" => executor[e].result \in Terminal

\* The token of a run is with at most one executor.
OneToken == \A e, f \in Executor, k \in Plan : Holds(e, k) /\ Holds(f, k) => e = f

\* Nobody acts for a plan that is still to be claimed, or in whose window an
\* older version acted.
Untouched(k) ==
    \/ run[k] = None /\ Exists(k[1])
    \/ \E u \in Slot : InWindow(u, k[2]) /\ LegacyRun(<<k[1], u>>)
UntouchedIdle ==
    \A k \in Plan : Untouched(k) => sent[k] = 0 /\ \A e \in Executor : ~Holds(e, k)

\* A run that is preparing or has failed has not had the right to send.
Unsent(k) == run[k] # None /\ (run[k].stage = "preparing" \/ run[k].status = "failed")
UnsentIdle ==
    \A k \in Plan : Unsent(k) => sent[k] = 0 /\ \A e \in Executor : ~MaySend(e, k)

\* The right to send is spent by sending.
SpentOnce ==
    \A k \in Plan : /\ sent[k] <= 1
                    /\ \A e \in Executor : MaySend(e, k) => sent[k] = 0

\* What may be sent, and what was, is what the run was claimed for.
SameMessage ==
    \A k \in Plan :
        /\ posted[k] # None => sent[k] > 0
        /\ run[k] # None /\ posted[k] # None => posted[k] = run[k].content
        /\ \A e \in Executor :
             run[k] # None /\ MaySend(e, k) => executor[e].content = run[k].content

\* A running run has not got past sending.
RunningStage ==
    \A k \in Plan : Running(k) => run[k].stage \in {"preparing", "sending"}

\* An open finish holds a running run to itself, and fails it only unsent.
OpenFinish ==
    /\ \A o \in open : Running(o.plan) /\ (o.status = "failed" => run[o.plan].stage = "preparing")
    /\ \A o, p \in open : o.plan = p.plan => o = p

Rights == OneToken /\ UntouchedIdle /\ UnsentIdle /\ SpentOnce /\ SameMessage
IInv == TypeOK /\ AttemptComplete /\ Rights /\ RunningStage /\ OpenFinish

-----------------------------------------------------------------------------
(* Types *)

LEMMA TypeInit == Init => TypeOK /\ AttemptComplete
<1> SUFFICES ASSUME Init PROVE TypeOK /\ AttemptComplete
  OBVIOUS
<1>1. run \in [Plan -> TaskRun \union {None}]
  <2>1. PICK old \in SUBSET Legacy :
          run = [k \in Plan |-> IF k \in old THEN OldRun(k, task[k[1]]) ELSE None]
    BY DEF Init
  <2>2. \A k \in Plan : task[k[1]] \in Content
    BY DEF Init, Plan
  <2>3. QED BY <2>1, <2>2, OldFields
<1>2. clock \in Nat
  BY TimeAssumption DEF Init
<1>3. QED BY <1>1, <1>2 DEF Init, TypeOK, AttemptComplete

LEMMA SlotNat == Slot \subseteq Nat
BY TimeAssumption DEF Slot

LEMMA TypeNext ==
    ASSUME TypeOK, AttemptComplete, OpenFinish, [Next]_vars
    PROVE  TypeOK' /\ AttemptComplete'
<1> DEFINE Types == TypeOK' /\ AttemptComplete'
<1> USE DEF bounds, server, business, page
\* The run of one plan and the summary of its task.
<1>1. ASSUME NEW k \in Plan, NEW r \in TaskRun, NEW st \in Terminal, NEW n,
             run' = [run EXCEPT ![k] = r], summary' = Summarized(k, st, n)
      PROVE  /\ run' \in [Plan -> TaskRun \union {None}]
             /\ summary' \in [Task -> [status : Terminal \union {"running", "idle"},
                                      slot : Slot \union {-1}]]
  <2>1. k[1] \in Task /\ k[2] \in Slot
    BY DEF Plan
  <2>2. [status |-> st, slot |-> k[2]] \in [status : Terminal \union {"running", "idle"},
                                            slot : Slot \union {-1}]
    BY <2>1
  <2>3. QED BY <1>1, <2>2 DEF TypeOK, Summarized
\* An executor moves on, or is gone.
<1>2. ASSUME NEW e \in Executor, NEW a \in Attempt \union {None},
             executor' = [executor EXCEPT ![e] = a],
             a # None =>
               /\ a.at \in {"fetched", "granted"} => a.content \in Content
               /\ a.at = "done" => a.result \in Terminal
      PROVE  executor' \in [Executor -> Attempt \union {None}] /\ AttemptComplete'
  BY <1>2 DEF TypeOK, AttemptComplete
<1>3. ASSUME NEW e \in Executor, executor[e] # None
      PROVE  executor[e] \in Attempt /\ executor[e].plan \in Plan
  BY <1>3, AttemptTypes DEF TypeOK
<1>4. ASSUME NEW e \in Executor, executor[e] # None, NEW r \in Terminal,
             executor' = [executor EXCEPT ![e].at = "done", ![e].result = r]
      PROVE  executor' \in [Executor -> Attempt \union {None}] /\ AttemptComplete'
  <2> DEFINE a == [executor[e] EXCEPT !.at = "done", !.result = r]
  <2>1. executor' = [executor EXCEPT ![e] = a]
    BY <1>4 DEF TypeOK
  <2>2. a \in Attempt
    BY <1>3, <1>4, AttemptTypes
  <2>3. a.at = "done" /\ a.result = r
    BY <1>3, <1>4 DEF Attempt
  <2> HIDE DEF a
  <2>4. QED BY <1>2, <1>4, <2>1, <2>2, <2>3
<1>5. CASE Tick
  BY <1>5 DEF Tick, TypeOK, AttemptComplete
<1>6. ASSUME NEW t \in Task, Business(t) PROVE Types
  <2>1. CASE Edit(t) \/ MoveGate(t)
    BY <2>1 DEF Edit, MoveGate, Edited, TypeOK, AttemptComplete
  <2>2. CASE Remove(t)
    BY <2>2 DEF Remove, Edited, TypeOK, AttemptComplete
  <2>3. QED BY <1>6, <2>1, <2>2 DEF Business
<1>7. ASSUME NEW e \in Executor, ExecutorStep(e) PROVE Types
  <2>1. ASSUME NEW t \in Task, Claim(e, t) PROVE Types
    <3>1. PICK s \in Slot :
            /\ run' = [run EXCEPT ![<<t, s>>] = FreshRun(t)]
            /\ summary' = [summary EXCEPT ![t] = [status |-> "running", slot |-> s]]
            /\ executor' = [executor EXCEPT ![e] =
                 [plan |-> <<t, s>>, at |-> "claimed", content |-> None, result |-> None]]
      BY <2>1 DEF Claim
    <3>2. <<t, s>> \in Plan
      BY DEF Plan
    <3>3. FreshRun(t) \in TaskRun
      BY <2>1, FreshFields DEF Claim, Exists, TypeOK
    <3>4. run' \in [Plan -> TaskRun \union {None}]
      BY <3>1, <3>3 DEF TypeOK
    <3>5. summary' \in [Task -> [status : Terminal \union {"running", "idle"}, slot : Slot \union {-1}]]
      BY <3>1 DEF TypeOK
    <3>6. [plan |-> <<t, s>>, at |-> "claimed", content |-> None, result |-> None] \in Attempt
      BY <3>2 DEF Attempt
    <3>7. executor' \in [Executor -> Attempt \union {None}] /\ AttemptComplete'
      BY <1>2, <3>1, <3>6
    <3>8. QED BY <2>1, <3>4, <3>5, <3>7 DEF Claim, TypeOK
  <2>2. CASE Fetch(e)
    <3> DEFINE c == task[executor[e].plan[1]]
               a == [executor[e] EXCEPT !.at = "fetched", !.content = c]
    <3>1. executor[e] # None
      BY <2>2 DEF Fetch, At
    <3>2. executor[e] \in Attempt /\ executor[e].plan[1] \in Task
      BY <1>3, <3>1 DEF Plan
    <3>3. c \in Content
      BY <2>2, <3>2 DEF Fetch, Exists, TypeOK
    <3>4. executor' = [executor EXCEPT ![e] = a]
      BY <2>2 DEF Fetch, TypeOK
    <3>5. a \in Attempt
      BY <3>2, <3>3, AttemptTypes
    <3>6. a.at = "fetched" /\ a.content = c
      BY <3>2 DEF Attempt
    <3> HIDE DEF a, c
    <3>7. executor' \in [Executor -> Attempt \union {None}] /\ AttemptComplete'
      BY <1>2, <3>3, <3>4, <3>5, <3>6
    <3>8. QED BY <2>2, <3>7 DEF Fetch, TypeOK
  <2>3. CASE GiveUp(e) \/ Withdraw(e)
    <3>1. executor[e] # None
      BY <2>3 DEF GiveUp, Withdraw, At
    <3>2. executor' = [executor EXCEPT ![e].at = "done", ![e].result = "failed"]
      BY <2>3 DEF GiveUp, Withdraw, Failing
    <3>3. "failed" \in Terminal
      BY DEF Terminal
    <3>4. executor' \in [Executor -> Attempt \union {None}] /\ AttemptComplete'
      BY <1>4, <3>1, <3>2, <3>3
    <3>5. QED BY <2>3, <3>4 DEF GiveUp, Withdraw, TypeOK
  <2>4. CASE BeginSend(e)
    <3>1. executor[e] # None /\ executor[e].at = "fetched" /\ executor[e] \in Attempt
      BY <1>3, <2>4 DEF BeginSend, At
    <3>2. CASE Granted(executor[e].plan, executor[e].content)
      <4> DEFINE k == executor[e].plan
                 a == [executor[e] EXCEPT !.at = "granted"]
                 r == [run[k] EXCEPT !.stage = "sending"]
      <4>1. k \in Plan /\ run[k] \in TaskRun
        BY <1>3, <3>1, <3>2 DEF Granted, TypeOK
      <4>2. r \in TaskRun /\ a \in Attempt
        BY <3>1, <4>1, RunTypes, AttemptTypes
      <4>3. run' = [run EXCEPT ![k] = r] /\ executor' = [executor EXCEPT ![e] = a]
        BY <2>4, <3>2 DEF BeginSend, Sending, TypeOK
      <4>4. a.at = "granted" /\ a.content = executor[e].content
        BY <3>1, AttemptFields
      <4>5. executor[e].content \in Content
        BY <3>1 DEF AttemptComplete
      <4> HIDE DEF a, r, k
      <4>6. executor' \in [Executor -> Attempt \union {None}] /\ AttemptComplete'
        BY <1>2, <4>2, <4>3, <4>4, <4>5
      <4>7. run' \in [Plan -> TaskRun \union {None}]
        BY <4>1, <4>2, <4>3 DEF TypeOK
      <4>8. QED BY <2>4, <4>6, <4>7 DEF BeginSend, TypeOK
    <3>3. CASE ~Granted(executor[e].plan, executor[e].content)
      <4>1. executor' = [executor EXCEPT ![e].at = "done", ![e].result = "failed"] /\ run' = run
        BY <2>4, <3>3 DEF BeginSend, Failing
      <4>2. executor' \in [Executor -> Attempt \union {None}] /\ AttemptComplete'
        BY <1>4, <3>1, <4>1 DEF Terminal
      <4>3. QED BY <2>4, <4>1, <4>2 DEF BeginSend, TypeOK
    <3>4. QED BY <3>2, <3>3
  <2>5. CASE BeginSendTimesOut(e)
    <3>1. executor[e] # None /\ executor[e].at = "fetched"
      BY <2>5 DEF BeginSendTimesOut, At
    <3>2. executor' \in [Executor -> Attempt \union {None}] /\ AttemptComplete'
      BY <1>4, <2>5, <3>1 DEF BeginSendTimesOut, Failing, Terminal
    <3>3. executor[e].plan \in Plan /\ executor[e].content \in Content
      BY <1>3, <3>1 DEF AttemptComplete
    <3>4. asked' \subseteq [plan : Plan, content : Content]
      BY <2>5, <3>3 DEF BeginSendTimesOut, TypeOK
    <3>5. QED BY <2>5, <3>2, <3>4 DEF BeginSendTimesOut, Faulted, TypeOK
  <2>6. ASSUME At(e, "granted"), Posts(e) \/ UNCHANGED page
        PROVE  sent' \in [Plan -> Nat] /\ posted' \in [Plan -> Content \union {None}]
    <3>1. executor[e].plan \in Plan /\ executor[e].content \in Content
      BY <1>3, <2>6 DEF At, AttemptComplete
    <3>2. QED BY <2>6, <3>1 DEF Posts, TypeOK
  <2>7. CASE Press(e)
    <3>1. PICK res \in Shown \union {"uncertain", "failed"} :
            executor' = [executor EXCEPT ![e].at = "done", ![e].result = res]
      BY <2>7 DEF Press
    <3>2. res \in Terminal
      BY ExecutionAssumption DEF Terminal
    <3>3. executor[e] # None /\ (Posts(e) \/ UNCHANGED page)
      BY <2>7 DEF Press, At
    <3>4. executor' \in [Executor -> Attempt \union {None}] /\ AttemptComplete'
      BY <1>4, <3>1, <3>2, <3>3
    <3>5. sent' \in [Plan -> Nat] /\ posted' \in [Plan -> Content \union {None}]
      BY <2>6, <2>7, <3>3 DEF Press
    <3>6. QED BY <2>7, <3>4, <3>5 DEF Press, TypeOK
  <2>8. CASE Report(e)
    <3>1. executor[e] # None /\ executor[e].at = "done"
      BY <2>8 DEF Report, At
    <3>2. executor[e].plan \in Plan /\ executor[e].result \in Terminal
      BY <1>3, <3>1 DEF AttemptComplete
    <3>3. results' \subseteq [plan : Plan, status : Terminal]
      BY <2>8, <3>2 DEF Report, TypeOK
    <3>4. executor' \in [Executor -> Attempt \union {None}] /\ AttemptComplete'
      BY <1>2, <2>8 DEF Report
    <3>5. QED BY <2>8, <3>3, <3>4 DEF Report, TypeOK
  <2>9. CASE Crash(e)
    <3>1. executor' \in [Executor -> Attempt \union {None}] /\ AttemptComplete'
      BY <1>2, <2>9 DEF Crash
    <3>2. sent' \in [Plan -> Nat] /\ posted' \in [Plan -> Content \union {None}]
      BY <2>6, <2>9 DEF Crash, TypeOK
    <3>3. QED BY <2>9, <3>1, <3>2 DEF Crash, Faulted, TypeOK
  <2>10. QED BY <1>7, <2>1, <2>2, <2>3, <2>4, <2>5, <2>7, <2>8, <2>9 DEF ExecutorStep
<1>8. CASE ServerStep
  <2>1. ASSUME NEW k \in Plan, NEW st \in Terminal, NEW n, Finishes(k, st, n), run[k] \in TaskRun
        PROVE  /\ run' \in [Plan -> TaskRun \union {None}]
               /\ summary' \in [Task -> [status : Terminal \union {"running", "idle"},
                                        slot : Slot \union {-1}]]
    BY <1>1, <2>1, RunTypes DEF Finishes
  <2>2. ASSUME NEW r, NEW st \in Terminal PROVE Outcome(r, st) \in Terminal
    BY DEF Outcome, Terminal
  <2>3. ASSUME NEW m \in results PROVE m.plan \in Plan /\ m.status \in Terminal
    BY DEF TypeOK
  <2>4. ASSUME NEW m \in results, ServeFinish(m) PROVE Types
    <3>1. CASE Void(m)
      BY <2>4, <3>1 DEF ServeFinish, TypeOK, AttemptComplete
    <3>2. CASE ~Void(m)
      <4>1. run[m.plan] \in TaskRun
        BY <2>3, <3>2 DEF Void, TypeOK
      <4>2. Finishes(m.plan, Outcome(run[m.plan], m.status), Newer(m.plan))
        BY <2>4, <3>2 DEF ServeFinish
      <4>3. QED BY <2>1, <2>2, <2>3, <2>4, <4>1, <4>2 DEF ServeFinish, TypeOK, AttemptComplete
    <3>3. QED BY <3>1, <3>2
  <2>5. ASSUME NEW m \in results, FinishReads(m) PROVE Types
    <3>1. Newer(m.plan) \in BOOLEAN
      BY DEF Newer
    <3>2. open' \subseteq [plan : Plan, status : Terminal, newer : BOOLEAN]
      BY <2>2, <2>3, <2>5, <3>1 DEF FinishReads, TypeOK
    <3>3. QED BY <2>5, <3>2 DEF FinishReads, TypeOK, AttemptComplete
  <2>6. ASSUME NEW o \in open, FinishWrites(o) PROVE Types
    <3>1. o.plan \in Plan /\ o.status \in Terminal /\ run[o.plan] \in TaskRun
      BY DEF TypeOK, OpenFinish, Running
    <3>2. QED BY <2>1, <2>6, <3>1 DEF FinishWrites, TypeOK, AttemptComplete
  <2>7. ASSUME NEW m \in asked, ServeSending(m) PROVE Types
    <3>1. m.plan \in Plan
      BY DEF TypeOK
    <3>2. CASE Granted(m.plan, m.content)
      <4>1. run[m.plan] \in TaskRun
        BY <3>1, <3>2 DEF Granted, TypeOK
      <4>2. run' \in [Plan -> TaskRun \union {None}]
        BY <2>7, <3>1, <3>2, <4>1, RunTypes DEF ServeSending, Sending, TypeOK
      <4>3. QED BY <2>7, <4>2 DEF ServeSending, TypeOK, AttemptComplete
    <3>3. CASE ~Granted(m.plan, m.content)
      BY <2>7, <3>3 DEF ServeSending, TypeOK, AttemptComplete
    <3>4. QED BY <3>2, <3>3
  <2>8. ASSUME NEW stage \in {"preparing", "sending"}, NEW T \in SUBSET Task, Expire(stage, T)
        PROVE  Types
    <3>1. PICK late \in SUBSET Plan :
            /\ \A k \in late : Overdue(k)
            /\ run' = [k \in Plan |-> IF k \in late THEN Expired(run[k], stage) ELSE run[k]]
      BY <2>8 DEF Expire
    <3>2. \A k \in late : run[k] \in TaskRun
      BY <3>1 DEF Overdue, TypeOK
    <3>3. run' \in [Plan -> TaskRun \union {None}]
      BY <3>1, <3>2, RunTypes DEF TypeOK
    <3>4. QED BY <2>8, <3>3 DEF Expire, TypeOK, AttemptComplete
  <2>9. ASSUME NEW k \in Plan, NEW m \in Plan, NEW level \in Reported, Receipt(k, m, level)
        PROVE  Types
    <3>1. run[k] \in TaskRun
      BY <2>9 DEF Receipt, TypeOK
    <3>2. level \in Level
      BY ExecutionAssumption
    <3>3. QED BY <1>1, <2>9, <3>1, <3>2, RunTypes DEF Receipt, TypeOK, AttemptComplete
  <2>10. QED BY <1>8, <2>4, <2>5, <2>6, <2>7, <2>8, <2>9 DEF ServerStep
<1>9. CASE UNCHANGED vars
  BY <1>9 DEF vars, TypeOK, AttemptComplete
<1>10. QED BY <1>5, <1>6, <1>7, <1>8, <1>9 DEF Next

-----------------------------------------------------------------------------
(* What a step does to a run *)

Kept(k) == run'[k] = run[k] /\ (Exists(k[1])' => Exists(k[1]))

\* A run of the new version goes on, never back to where nothing was sent.
Progress(k) ==
    /\ run[k] # None /\ run'[k] # None
    /\ run'[k].content = run[k].content
    /\ run'[k].status # "legacy"
    /\ Unsent(k)' => Unsent(k)

Gone(k) == run'[k] = None /\ ~Exists(k[1])'

\* A plan out of reach after a step was so before, if no legacy run has appeared.
LEMMA UntouchedBefore ==
    ASSUME NEW k \in Plan, Untouched(k)',
           \A j \in Plan : LegacyRun(j)' => LegacyRun(j),
           run'[k] = None /\ Exists(k[1])' => run[k] = None /\ Exists(k[1])
    PROVE  Untouched(k)
<1>1. CASE run'[k] = None /\ Exists(k[1])'
  BY <1>1 DEF Untouched
<1>2. CASE \E u \in Slot : InWindow(u, k[2]) /\ LegacyRun(<<k[1], u>>)'
  <2>1. PICK u \in Slot : InWindow(u, k[2]) /\ LegacyRun(<<k[1], u>>)'
    BY <1>2
  <2>2. <<k[1], u>> \in Plan
    BY DEF Plan
  <2>3. QED BY <2>1, <2>2 DEF Untouched
<1>3. QED BY <1>1, <1>2 DEF Untouched, InWindow

\* Steps that neither send nor claim: no executor takes up a plan, and one that
\* comes to hold the right to send holds it for a run that has not used it.
LEMMA Moves ==
    ASSUME Rights, UNCHANGED page,
           \A k \in Plan : Kept(k) \/ Progress(k) \/ Gone(k),
           \A e \in Executor, k \in Plan : Holds(e, k)' => Holds(e, k),
           \A e \in Executor, k \in Plan : MaySend(e, k)' =>
             \/ MaySend(e, k) /\ executor'[e].content = executor[e].content
             \/ sent[k] = 0 /\ ~Unsent(k)' /\ run'[k] # None
                /\ executor'[e].content = run'[k].content
    PROVE  Rights'
<1>1. sent' = sent /\ posted' = posted
  BY DEF page
<1>2. OneToken'
  BY DEF Rights, OneToken
<1>3. UntouchedIdle'
  <2> SUFFICES ASSUME NEW k \in Plan, Untouched(k)'
               PROVE  sent[k] = 0 /\ \A e \in Executor : ~Holds(e, k)'
    BY <1>1 DEF UntouchedIdle
  <2>1. \A j \in Plan : LegacyRun(j)' => LegacyRun(j)
    <3> SUFFICES ASSUME NEW j \in Plan, LegacyRun(j)' PROVE LegacyRun(j)
      OBVIOUS
    <3>1. QED BY DEF LegacyRun, Kept, Progress, Gone
  <2>2. run'[k] = None /\ Exists(k[1])' => run[k] = None /\ Exists(k[1])
    BY DEF Kept, Progress, Gone
  <2>3. Untouched(k)
    BY <2>1, <2>2, UntouchedBefore
  <2>4. QED BY <2>3 DEF Rights, UntouchedIdle
<1>4. UnsentIdle'
  <2> SUFFICES ASSUME NEW k \in Plan, Unsent(k)'
               PROVE  sent[k] = 0 /\ \A e \in Executor : ~MaySend(e, k)'
    BY <1>1 DEF UnsentIdle
  <2>1. Unsent(k)
    BY DEF Unsent, Kept, Progress, Gone
  <2>2. QED BY <2>1 DEF Rights, UnsentIdle
<1>5. SpentOnce'
  BY <1>1 DEF Rights, SpentOnce
<1>6. SameMessage'
  <2> SUFFICES ASSUME NEW k \in Plan
               PROVE  /\ posted[k] # None => sent[k] > 0
                      /\ run'[k] # None /\ posted[k] # None => posted[k] = run'[k].content
                      /\ \A e \in Executor : run'[k] # None /\ MaySend(e, k)' =>
                           executor'[e].content = run'[k].content
    BY <1>1 DEF SameMessage
  <2>1. run'[k] # None => run[k] # None /\ run'[k].content = run[k].content
    BY DEF Kept, Progress, Gone
  <2>2. QED BY <2>1 DEF Rights, SameMessage
<1>7. QED BY <1>2, <1>3, <1>4, <1>5, <1>6 DEF Rights

\* The step that sends gives up the right to.
LEMMA Sends ==
    ASSUME TypeOK, Rights, NEW e \in Executor, NEW p \in Plan, MaySend(e, p), Posts(e),
           UNCHANGED <<run, task>>,
           \A f \in Executor, k \in Plan : Holds(f, k)' => Holds(f, k),
           \A f \in Executor, k \in Plan : MaySend(f, k)' =>
             f # e /\ MaySend(f, k) /\ executor'[f].content = executor[f].content
    PROVE  Rights'
<1>1. executor[e].plan = p /\ Holds(e, p)
  BY DEF MaySend, Holds
<1>2. /\ sent' = [sent EXCEPT ![p] = sent[p] + 1]
      /\ posted' = [posted EXCEPT ![p] = executor[e].content]
  BY <1>1 DEF Posts
<1>3. sent[p] = 0
  BY DEF Rights, SpentOnce
<1>4. /\ sent'[p] = 1 /\ posted'[p] = executor[e].content
      /\ \A k \in Plan \ {p} : sent'[k] = sent[k] /\ posted'[k] = posted[k]
  BY <1>2, <1>3 DEF TypeOK
<1>5. \A f \in Executor : ~MaySend(f, p)'
  BY <1>1 DEF Rights, OneToken, MaySend
<1>6. OneToken'
  BY DEF Rights, OneToken
<1>7. UntouchedIdle'
  <2>1. ~Untouched(p)
    BY <1>1 DEF Rights, UntouchedIdle
  <2>2. \A k \in Plan : Untouched(k)' => Untouched(k)
    BY UntouchedBefore DEF LegacyRun, Exists
  <2>3. QED BY <1>4, <2>1, <2>2 DEF Rights, UntouchedIdle
<1>8. UnsentIdle'
  <2>1. ~Unsent(p)
    BY DEF Rights, UnsentIdle
  <2>2. \A k \in Plan : Unsent(k)' => Unsent(k)
    BY DEF Unsent
  <2>3. QED BY <1>4, <2>1, <2>2 DEF Rights, UnsentIdle
<1>9. SpentOnce'
  <2> SUFFICES ASSUME NEW k \in Plan
               PROVE  sent'[k] <= 1 /\ \A f \in Executor : MaySend(f, k)' => sent'[k] = 0
    BY DEF SpentOnce
  <2>1. QED BY <1>4, <1>5 DEF Rights, SpentOnce
<1>10. SameMessage'
  <2> SUFFICES ASSUME NEW k \in Plan
               PROVE  /\ posted'[k] # None => sent'[k] > 0
                      /\ run[k] # None /\ posted'[k] # None => posted'[k] = run[k].content
                      /\ \A f \in Executor : run[k] # None /\ MaySend(f, k)' =>
                           executor'[f].content = run[k].content
    BY DEF SameMessage
  <2>1. CASE k = p
    BY <1>4, <1>5, <2>1 DEF Rights, SameMessage
  <2>2. CASE k # p
    BY <1>4, <2>2 DEF Rights, SameMessage
  <2>3. QED BY <2>1, <2>2
<1>11. QED BY <1>6, <1>7, <1>8, <1>9, <1>10 DEF Rights

\* A claim starts from a plan nobody has touched.
LEMMA Claims ==
    ASSUME TypeOK, Rights, NEW e \in Executor, NEW t \in Task, Claim(e, t)
    PROVE  Rights'
<1>1. PICK s \in Slot :
        /\ run[<<t, s>>] = None /\ ~Attempted(t, s)
        /\ run' = [run EXCEPT ![<<t, s>>] = FreshRun(t)]
        /\ executor' = [executor EXCEPT ![e] =
             [plan |-> <<t, s>>, at |-> "claimed", content |-> None, result |-> None]]
  BY DEF Claim
<1> DEFINE p == <<t, s>>
<1>2. p \in Plan /\ p[1] = t /\ p[2] = s
  BY DEF Plan
<1>3. executor[e] = None /\ Exists(t) /\ UNCHANGED <<sent, posted, task>>
  BY DEF Claim, page, business
<1>4. Untouched(p)
  BY <1>1, <1>2, <1>3 DEF Untouched
<1>5. sent[p] = 0 /\ posted[p] = None /\ \A f \in Executor : ~Holds(f, p)
  <2>1. sent[p] = 0 /\ \A f \in Executor : ~Holds(f, p)
    BY <1>2, <1>4 DEF Rights, UntouchedIdle
  <2>2. QED BY <1>2, <2>1 DEF Rights, SameMessage
<1>6. /\ run'[p] # None /\ run'[p].status = "running"
      /\ \A k \in Plan \ {p} : run'[k] = run[k]
  <2>1. FreshRun(t) # None /\ FreshRun(t).status = "running"
    BY <1>3, FreshFields DEF Exists, TypeOK
  <2>2. QED BY <1>1, <1>2, <2>1 DEF TypeOK
<1>7. /\ executor'[e].plan = p /\ executor'[e].at = "claimed"
      /\ \A f \in Executor \ {e} : executor'[f] = executor[f]
  BY <1>1 DEF TypeOK
<1>7a. \A u \in Slot : InWindow(u, p[2]) => ~LegacyRun(<<p[1], u>>)
  BY <1>1, <1>2 DEF Attempted, LegacyRun
<1> HIDE DEF p
<1>8. \A f \in Executor, k \in Plan : Holds(f, k)' => (Holds(f, k) /\ f # e) \/ (f = e /\ k = p)
  BY <1>7 DEF Holds
<1>9. \A f \in Executor, k \in Plan : MaySend(f, k)' =>
         f # e /\ k # p /\ MaySend(f, k) /\ executor'[f] = executor[f]
  BY <1>5, <1>7 DEF MaySend, Holds
<1>10. OneToken'
  BY <1>5, <1>8 DEF Rights, OneToken
<1>11. UntouchedIdle'
  <2>1. \A j \in Plan : LegacyRun(j)' => LegacyRun(j)
    BY <1>6 DEF LegacyRun
  <2>2. ~Untouched(p)'
    <3> SUFFICES ASSUME NEW u \in Slot, InWindow(u, p[2]), LegacyRun(<<p[1], u>>)' PROVE FALSE
      BY <1>6 DEF Untouched, InWindow
    <3>1. <<p[1], u>> \in Plan
      BY <1>2 DEF Plan
    <3>2. QED BY <1>7a, <2>1, <3>1
  <2>3. \A k \in Plan : Untouched(k)' => k # p /\ Untouched(k)
    BY <1>3, <1>6, <2>1, <2>2, UntouchedBefore DEF Exists
  <2>4. QED BY <1>3, <1>8, <2>3 DEF Rights, UntouchedIdle
<1>12. UnsentIdle'
  <2>1. \A k \in Plan : Unsent(k)' => k = p \/ Unsent(k)
    BY <1>6 DEF Unsent
  <2>2. QED BY <1>3, <1>5, <1>9, <2>1 DEF Rights, UnsentIdle
<1>13. SpentOnce'
  BY <1>3, <1>9 DEF Rights, SpentOnce
<1>14. SameMessage'
  BY <1>3, <1>5, <1>6, <1>9 DEF Rights, SameMessage
<1>15. QED BY <1>10, <1>11, <1>12, <1>13, <1>14 DEF Rights

\* An open finish has its run locked, so nothing else moves it.
LEMMA LockHolds ==
    ASSUME RunningStage, OpenFinish, UNCHANGED open,
           \A k \in Plan : \/ run'[k] = run[k]
                           \/ /\ ~Locked(k)
                              /\ Running(k)' => run'[k].stage \in {"preparing", "sending"},
           \A o \in open : o.plan \in Plan
    PROVE  RunningStage' /\ OpenFinish'
<1>1. RunningStage'
  BY DEF RunningStage, Running
<1>2. \A o \in open : run'[o.plan] = run[o.plan]
  BY DEF Locked
<1>3. OpenFinish'
  BY <1>2 DEF OpenFinish, Running
<1>4. QED BY <1>1, <1>3

-----------------------------------------------------------------------------
(* The steps *)

\* What each way of writing a run amounts to.
LEMMA GrantWrites ==
    ASSUME TypeOK, NEW k \in Plan, NEW c, Granted(k, c), Sending(k), UNCHANGED task
    PROVE  /\ \A j \in Plan \ {k} : run'[j] = run[j]
           /\ Unsent(k) /\ ~Unsent(k)' /\ Progress(k) /\ run'[k].stage = "sending"
           /\ run'[k].content = c /\ ~Locked(k)
<1> DEFINE r == [run[k] EXCEPT !.stage = "sending"]
<1>1. run[k] \in TaskRun /\ run[k].status = "running" /\ run[k].stage = "preparing"
      /\ c = run[k].content /\ ~Locked(k)
  BY DEF Granted, TypeOK
<1>2. run'[k] = r /\ \A j \in Plan \ {k} : run'[j] = run[j]
  BY DEF Sending, TypeOK
<1>3. r # None /\ r.stage = "sending" /\ r.status = "running" /\ r.content = c
  BY <1>1, RunTypes, RunFields
<1>4. run[k] # None
  BY <1>1, RunTypes
<1> HIDE DEF r
<1>5. QED BY <1>1, <1>2, <1>3, <1>4 DEF Unsent, Progress

LEMMA FinishWritesRun ==
    ASSUME TypeOK, NEW k \in Plan, NEW st \in Terminal, NEW n, Finishes(k, st, n),
           run[k] # None, st = "failed" => run[k].stage = "preparing"
    PROVE  /\ \A j \in Plan \ {k} : run'[j] = run[j]
           /\ Progress(k) /\ ~Running(k)'
<1>1. run[k] \in TaskRun
  BY DEF TypeOK
<1>2. run'[k] = Concluded(run[k], st) /\ \A j \in Plan \ {k} : run'[j] = run[j]
  BY DEF Finishes, TypeOK
<1>3. /\ Concluded(run[k], st) # None /\ Concluded(run[k], st).status = st
      /\ Concluded(run[k], st).stage = StageOf[st]
      /\ Concluded(run[k], st).content = run[k].content
  BY <1>1, RunTypes, RunFields
<1>4. StageOf[st] = "preparing" => st = "failed"
  BY DEF StageOf, Terminal
<1>5. st # "running" /\ st # "legacy"
  BY DEF Terminal
<1>6. QED BY <1>2, <1>3, <1>4, <1>5 DEF Progress, Unsent, Running

\* A failure is reported as such only for a run that has not begun to send.
LEMMA OutcomeSafe ==
    ASSUME TypeOK, RunningStage, NEW m \in results, ~Void(m)
    PROVE  /\ m.plan \in Plan /\ Running(m.plan)
           /\ Outcome(run[m.plan], m.status) \in Terminal
           /\ Outcome(run[m.plan], m.status) = "failed" => run[m.plan].stage = "preparing"
<1>1. m.plan \in Plan /\ m.status \in Terminal
  BY DEF TypeOK
<1>2. Running(m.plan)
  BY DEF Void, Running
<1>3. run[m.plan].stage \in {"preparing", "sending"}
  BY <1>1, <1>2 DEF RunningStage
<1>4. QED BY <1>1, <1>2, <1>3 DEF Outcome, Terminal

LEMMA StepNext ==
    ASSUME IInv, [Next]_vars
    PROVE  Rights' /\ RunningStage' /\ OpenFinish'
<1> DEFINE Goal == Rights' /\ RunningStage' /\ OpenFinish'
<1>1. TypeOK /\ AttemptComplete /\ Rights /\ RunningStage /\ OpenFinish
  BY DEF IInv
<1>2. /\ \A o \in open : o.plan \in Plan /\ o.status \in Terminal
      /\ \A m \in results : m.plan \in Plan
      /\ \A m \in asked : m.plan \in Plan
      /\ \A e \in Executor : executor[e] # None => executor[e].plan \in Plan
  BY <1>1, AttemptTypes DEF TypeOK
\* Runs and transactions stay as they are.
<1>3. ASSUME UNCHANGED <<run, open>> PROVE RunningStage' /\ OpenFinish'
  BY <1>1, <1>2, <1>3, LockHolds
<1>4. ASSUME \A t \in Task : Exists(t)' => Exists(t), UNCHANGED run
      PROVE  \A k \in Plan : Kept(k)
  BY <1>4 DEF Kept, Plan
\* The server moves runs, the executors do nothing.
<1>5. ASSUME UNCHANGED <<executor, page>>, \A k \in Plan : Kept(k) \/ Progress(k) \/ Gone(k)
      PROVE  Rights'
  <2>1. \A e \in Executor, k \in Plan : Holds(e, k)' => Holds(e, k)
    BY <1>5 DEF Holds
  <2>2. \A e \in Executor, k \in Plan : MaySend(e, k)' =>
          MaySend(e, k) /\ executor'[e].content = executor[e].content
    BY <1>5 DEF MaySend, Holds
  <2>3. QED BY <1>1, <1>5, <2>1, <2>2, Moves
\* An executor moves on within its plan, without the right to send.
<1>6. ASSUME NEW e \in Executor, NEW a, executor' = [executor EXCEPT ![e] = a],
             a # None => executor[e] # None /\ a.plan = executor[e].plan /\ a.at # "granted"
      PROVE  /\ \A f \in Executor, k \in Plan : Holds(f, k)' => Holds(f, k)
             /\ \A f \in Executor, k \in Plan : MaySend(f, k)' =>
                  f # e /\ MaySend(f, k) /\ executor'[f].content = executor[f].content
  <2>1. executor'[e] = a /\ \A f \in Executor \ {e} : executor'[f] = executor[f]
    BY <1>1, <1>6 DEF TypeOK
  <2>2. QED BY <1>6, <2>1 DEF Holds, MaySend
<1>7. ASSUME NEW e \in Executor, NEW a, executor' = [executor EXCEPT ![e] = a],
             a # None => executor[e] # None /\ a.plan = executor[e].plan /\ a.at # "granted",
             UNCHANGED <<run, open, task, page>>
      PROVE  Goal
  <2>1. \A k \in Plan : Kept(k)
    BY <1>4, <1>7 DEF Exists
  <2>2. QED BY <1>1, <1>3, <1>6, <1>7, <2>1, Moves
<1>8. ASSUME NEW e \in Executor, NEW r, executor[e] # None,
             executor' = [executor EXCEPT ![e].at = "done", ![e].result = r]
      PROVE  \E a : /\ executor' = [executor EXCEPT ![e] = a]
                    /\ a.plan = executor[e].plan /\ a.at # "granted"
  <2> DEFINE a == [executor[e] EXCEPT !.at = "done", !.result = r]
  <2>1. executor[e] \in Attempt
    BY <1>1, <1>8 DEF TypeOK
  <2>2. executor' = [executor EXCEPT ![e] = a]
    BY <1>1, <1>8 DEF TypeOK
  <2>3. a.plan = executor[e].plan /\ a.at # "granted"
    BY <2>1, AttemptFields
  <2> HIDE DEF a
  <2>4. QED BY <2>2, <2>3
<1>9. CASE Tick
  <2>1. UNCHANGED <<run, open, task, executor, page>>
    BY <1>9 DEF Tick, business, server
  <2>2. QED BY <1>3, <1>4, <1>5, <2>1 DEF Exists
<1>10. ASSUME NEW t \in Task, Business(t) PROVE Goal
  <2>1. CASE Edit(t) \/ MoveGate(t)
    <3>1. UNCHANGED <<run, open, executor, page>>
      BY <2>1 DEF Edit, MoveGate, server
    <3>2. \A u \in Task : Exists(u)' => Exists(u)
      BY <1>1, <2>1 DEF Edit, MoveGate, Exists, TypeOK
    <3>3. QED BY <1>3, <1>4, <1>5, <3>1, <3>2
  <2>2. CASE Remove(t)
    <3>1. /\ \A k \in Plan : k[1] = t => ~Locked(k)
          /\ task' = [task EXCEPT ![t] = None] /\ UNCHANGED <<open, executor, page>>
          /\ \A k \in Plan : run'[k] = IF k[1] = t THEN None ELSE run[k]
      BY <2>2 DEF Remove
    <3>2. \A u \in Task : Exists(u)' => Exists(u) /\ u # t
      BY <1>1, <3>1 DEF TypeOK, Exists
    <3>3. \A k \in Plan : Kept(k) \/ Gone(k)
      BY <3>1, <3>2 DEF Kept, Gone, Plan
    <3>4. \A k \in Plan : run'[k] = run[k] \/ (~Locked(k) /\ ~Running(k)')
      BY <3>1 DEF Running
    <3>5. RunningStage' /\ OpenFinish'
      BY <1>1, <1>2, <3>1, <3>4, LockHolds
    <3>6. QED BY <1>5, <3>1, <3>3, <3>5
  <2>3. QED BY <1>10, <2>1, <2>2 DEF Business
<1>11. ASSUME NEW e \in Executor, ExecutorStep(e) PROVE Goal
  <2>1. ASSUME NEW t \in Task, Claim(e, t) PROVE Goal
    <3>1. PICK s \in Slot : /\ run[<<t, s>>] = None
                            /\ run' = [run EXCEPT ![<<t, s>>] = FreshRun(t)]
      BY <2>1 DEF Claim
    <3> DEFINE p == <<t, s>>
    <3>2. p \in Plan
      BY DEF Plan
    <3>3. FreshRun(t).stage = "preparing"
      BY DEF FreshRun
    <3>4. run'[p].stage = "preparing" /\ \A k \in Plan \ {p} : run'[k] = run[k]
      BY <1>1, <3>1, <3>2, <3>3 DEF TypeOK
    <3>5. ~Locked(p)
      BY <1>1, <3>1 DEF Locked, OpenFinish, Running
    <3>6. open' = open
      BY <2>1 DEF Claim
    <3> HIDE DEF p
    <3>7. RunningStage' /\ OpenFinish'
      BY <1>1, <1>2, <3>4, <3>5, <3>6, LockHolds
    <3>8. QED BY <1>1, <2>1, <3>7, Claims
  <2>2. CASE Fetch(e)
    <3> DEFINE a == [executor[e] EXCEPT !.at = "fetched", !.content = task[executor[e].plan[1]]]
    <3>1. executor[e] # None /\ UNCHANGED <<run, open, task, page>>
      BY <2>2 DEF Fetch, At, business, server
    <3>2. executor' = [executor EXCEPT ![e] = a]
      BY <1>1, <2>2 DEF Fetch, TypeOK
    <3>3. executor[e] \in Attempt
      BY <1>1, <3>1 DEF TypeOK
    <3>4. a.plan = executor[e].plan /\ a.at # "granted"
      BY <3>3, AttemptFields
    <3> HIDE DEF a
    <3>5. QED BY <1>7, <3>1, <3>2, <3>4
  <2>3. CASE GiveUp(e) \/ Withdraw(e) \/ BeginSendTimesOut(e)
    <3>1. executor[e] # None /\ UNCHANGED <<run, open, task, page>>
      BY <2>3 DEF GiveUp, Withdraw, BeginSendTimesOut, At, business, server
    <3>2. executor' = [executor EXCEPT ![e].at = "done", ![e].result = "failed"]
      BY <2>3 DEF GiveUp, Withdraw, BeginSendTimesOut, Failing
    <3>3. QED BY <1>7, <1>8, <3>1, <3>2
  <2>4. CASE BeginSend(e)
    <3>1. executor[e] # None /\ UNCHANGED <<open, task, page>>
      BY <2>4 DEF BeginSend, At, business
    <3>2. executor[e] \in Attempt
      BY <1>1, <3>1 DEF TypeOK
    <3> PICK p \in Plan : p = executor[e].plan
      BY <1>2, <3>1
    <3> PICK c : c = executor[e].content
      OBVIOUS
    <3>3. CASE Granted(p, c)
      <4> DEFINE a == [executor[e] EXCEPT !.at = "granted"]
      <4>1. Sending(p)
        BY <2>4, <3>3 DEF BeginSend
      <4>2. executor' = [executor EXCEPT ![e] = a]
        BY <1>1, <2>4, <3>3 DEF BeginSend, TypeOK
      <4>3. a.plan = p /\ a.content = c
        BY <3>2, AttemptFields
      <4> HIDE DEF a
      <4>4. /\ \A j \in Plan \ {p} : run'[j] = run[j]
            /\ Unsent(p) /\ ~Unsent(p)' /\ Progress(p) /\ run'[p].stage = "sending"
            /\ run'[p].content = c /\ ~Locked(p)
        BY <1>1, <3>1, <3>3, <4>1, GrantWrites
      <4>5. sent[p] = 0 /\ run'[p] # None
        BY <1>1, <3>1, <4>4 DEF Rights, UnsentIdle, Progress
      <4>6. \A k \in Plan : Kept(k) \/ Progress(k) \/ Gone(k)
        BY <3>1, <4>4 DEF Kept, Exists
      <4>7. executor'[e] = a /\ \A f \in Executor \ {e} : executor'[f] = executor[f]
        BY <1>1, <4>2 DEF TypeOK
      <4>8. \A f \in Executor, k \in Plan : Holds(f, k)' => Holds(f, k)
        BY <3>1, <4>3, <4>7 DEF Holds
      <4>9. \A f \in Executor, k \in Plan : MaySend(f, k)' =>
              \/ MaySend(f, k) /\ executor'[f].content = executor[f].content
              \/ sent[k] = 0 /\ ~Unsent(k)' /\ run'[k] # None
                 /\ executor'[f].content = run'[k].content
        <5> SUFFICES ASSUME NEW f \in Executor, NEW k \in Plan, MaySend(f, k)'
                     PROVE  \/ MaySend(f, k) /\ executor'[f].content = executor[f].content
                            \/ sent[k] = 0 /\ ~Unsent(k)' /\ run'[k] # None
                               /\ executor'[f].content = run'[k].content
          OBVIOUS
        <5>1. CASE f = e
          <6>1. k = p
            BY <4>3, <4>7, <5>1 DEF MaySend, Holds
          <6>2. executor'[f].content = run'[k].content
            BY <4>3, <4>4, <4>7, <5>1, <6>1
          <6>3. QED BY <4>4, <4>5, <6>1, <6>2, Zenon
        <5>2. CASE f # e
          BY <4>7, <5>2 DEF MaySend, Holds
        <5>3. QED BY <5>1, <5>2
      <4>10. Rights'
        BY <1>1, <3>1, <4>6, <4>8, <4>9, Moves
      <4>11. RunningStage' /\ OpenFinish'
        BY <1>1, <1>2, <3>1, <4>4, LockHolds
      <4>12. QED BY <4>10, <4>11
    <3>4. CASE ~Granted(p, c)
      <4>1. executor' = [executor EXCEPT ![e].at = "done", ![e].result = "failed"] /\ run' = run
        BY <2>4, <3>4 DEF BeginSend, Failing
      <4>2. QED BY <1>7, <1>8, <3>1, <4>1
    <3>5. QED BY <3>3, <3>4
  <2>5. ASSUME At(e, "granted"), NEW a, executor' = [executor EXCEPT ![e] = a],
               a # None => a.plan = executor[e].plan /\ a.at # "granted",
               Posts(e) \/ UNCHANGED page, UNCHANGED <<run, open, task>>
        PROVE  Goal
    <3> DEFINE p == executor[e].plan
    <3>1. executor[e] # None /\ p \in Plan /\ MaySend(e, p)
      BY <1>2, <2>5 DEF At, MaySend, Holds
    <3>2. CASE Posts(e)
      <4>1. /\ \A f \in Executor, k \in Plan : Holds(f, k)' => Holds(f, k)
            /\ \A f \in Executor, k \in Plan : MaySend(f, k)' =>
                 f # e /\ MaySend(f, k) /\ executor'[f].content = executor[f].content
        BY <1>6, <2>5, <3>1
      <4>2. Rights'
        BY <1>1, <2>5, <3>1, <3>2, <4>1, Sends
      <4>3. QED BY <1>3, <2>5, <4>2
    <3>3. CASE UNCHANGED page
      BY <1>7, <2>5, <3>1, <3>3
    <3>4. QED BY <2>5, <3>2, <3>3
  <2>6. CASE Press(e)
    <3>1. PICK r \in Shown \union {"uncertain", "failed"} :
            executor' = [executor EXCEPT ![e].at = "done", ![e].result = r]
      BY <2>6 DEF Press
    <3>2. At(e, "granted") /\ executor[e] # None
      BY <2>6 DEF Press, At
    <3>3. PICK a : /\ executor' = [executor EXCEPT ![e] = a]
                   /\ a.plan = executor[e].plan /\ a.at # "granted"
      BY <1>8, <3>1, <3>2
    <3>4. (Posts(e) \/ UNCHANGED page) /\ UNCHANGED <<run, open, task>>
      BY <2>6 DEF Press, business, server
    <3>5. QED BY <2>5, <3>2, <3>3, <3>4
  <2>7. CASE Report(e)
    <3>1. executor' = [executor EXCEPT ![e] = None] /\ UNCHANGED <<run, open, task, page>>
      BY <2>7 DEF Report, business, server
    <3>2. QED BY <1>7, <3>1
  <2>8. CASE Crash(e)
    <3>1. executor' = [executor EXCEPT ![e] = None] /\ UNCHANGED <<run, open, task>>
      BY <2>8 DEF Crash, business, server
    <3>2. CASE UNCHANGED page
      BY <1>7, <3>1, <3>2
    <3>3. CASE At(e, "granted") /\ Posts(e)
      BY <2>5, <3>1, <3>3
    <3>4. QED BY <2>8, <3>2, <3>3 DEF Crash
  <2>9. QED BY <1>11, <2>1, <2>2, <2>3, <2>4, <2>6, <2>7, <2>8 DEF ExecutorStep
<1>12. CASE ServerStep
  \* One unlocked run moves.
  <2>1. ASSUME NEW k \in Plan, \A j \in Plan \ {k} : run'[j] = run[j], Progress(k),
               ~Locked(k), Running(k)' => run'[k].stage \in {"preparing", "sending"},
               UNCHANGED <<open, executor, task, page>>
        PROVE  Goal
    <3>1. \A j \in Plan : Kept(j) \/ Progress(j) \/ Gone(j)
      BY <2>1 DEF Kept, Exists
    <3>2. \A j \in Plan : \/ run'[j] = run[j]
                          \/ /\ ~Locked(j)
                             /\ Running(j)' => run'[j].stage \in {"preparing", "sending"}
      BY <2>1
    <3>3. RunningStage' /\ OpenFinish'
      BY <1>1, <1>2, <2>1, <3>2, LockHolds
    <3>4. QED BY <1>5, <2>1, <3>1, <3>3
  <2>2. ASSUME UNCHANGED <<run, open, executor, task, page>> PROVE Goal
    BY <1>3, <1>4, <1>5, <2>2 DEF Exists
  <2>3. ASSUME NEW m \in results, ServeFinish(m) PROVE Goal
    <3>1. CASE Void(m)
      BY <2>2, <2>3, <3>1 DEF ServeFinish, server, business
    <3>2. CASE ~Void(m)
      <4>1. /\ Finishes(m.plan, Outcome(run[m.plan], m.status), Newer(m.plan))
            /\ ~Locked(m.plan) /\ UNCHANGED <<open, executor, task, page>>
        BY <2>3, <3>2 DEF ServeFinish, business
      <4>2. /\ \A j \in Plan \ {m.plan} : run'[j] = run[j]
            /\ Progress(m.plan) /\ ~Running(m.plan)'
        BY <1>1, <3>2, <4>1, OutcomeSafe, FinishWritesRun DEF Running
      <4>3. QED BY <1>2, <2>1, <4>1, <4>2
    <3>3. QED BY <3>1, <3>2
  <2>4. ASSUME NEW m \in results, FinishReads(m) PROVE Goal
    <3> DEFINE o == [plan |-> m.plan, newer |-> Newer(m.plan),
                     status |-> Outcome(run[m.plan], m.status)]
    <3>1. /\ ~Void(m) /\ ~Locked(m.plan) /\ open' = open \union {o}
          /\ UNCHANGED <<run, executor, task, page>>
      BY <2>4 DEF FinishReads, server, business
    <3>2. Running(m.plan) /\ (o.status = "failed" => run[m.plan].stage = "preparing")
      BY <1>1, <3>1, OutcomeSafe
    <3>3. o.plan = m.plan
      OBVIOUS
    <3> HIDE DEF o
    <3>4. OpenFinish'
      BY <1>1, <3>1, <3>2, <3>3 DEF OpenFinish, Running, Locked
    <3>5. RunningStage'
      BY <1>1, <3>1 DEF RunningStage, Running
    <3>6. Rights'
      BY <1>4, <1>5, <3>1 DEF Exists
    <3>7. QED BY <3>4, <3>5, <3>6
  <2>5. ASSUME NEW o \in open, FinishWrites(o) PROVE Goal
    <3>1. /\ Finishes(o.plan, o.status, o.newer) /\ open' = open \ {o}
          /\ UNCHANGED <<executor, task, page>>
      BY <2>5 DEF FinishWrites, business
    <3>2. /\ o.plan \in Plan /\ o.status \in Terminal /\ run[o.plan] # None
          /\ o.status = "failed" => run[o.plan].stage = "preparing"
      BY <1>1, <1>2 DEF OpenFinish, Running
    <3>3. /\ \A j \in Plan \ {o.plan} : run'[j] = run[j]
          /\ Progress(o.plan) /\ ~Running(o.plan)'
      BY <1>1, <3>1, <3>2, FinishWritesRun
    <3>4. \A j \in Plan : Kept(j) \/ Progress(j) \/ Gone(j)
      BY <3>1, <3>3 DEF Kept, Exists
    <3>5. RunningStage'
      BY <1>1, <3>3 DEF RunningStage, Running
    <3>6. OpenFinish'
      <4>1. \A q \in open' : q \in open /\ q.plan # o.plan
        BY <1>1, <3>1 DEF OpenFinish
      <4>2. QED BY <1>1, <1>2, <3>3, <4>1 DEF OpenFinish, Running
    <3>7. QED BY <1>5, <3>1, <3>4, <3>5, <3>6
  <2>6. ASSUME NEW m \in asked, ServeSending(m) PROVE Goal
    <3>1. UNCHANGED <<open, executor, task, page>>
      BY <2>6 DEF ServeSending, business
    <3>2. CASE Granted(m.plan, m.content)
      <4>1. Sending(m.plan)
        BY <2>6, <3>2 DEF ServeSending
      <4>2. /\ \A j \in Plan \ {m.plan} : run'[j] = run[j]
            /\ Progress(m.plan) /\ run'[m.plan].stage = "sending" /\ ~Locked(m.plan)
        BY <1>1, <1>2, <3>1, <3>2, <4>1, GrantWrites
      <4>3. QED BY <1>2, <2>1, <3>1, <4>2
    <3>3. CASE ~Granted(m.plan, m.content)
      BY <2>2, <2>6, <3>1, <3>3 DEF ServeSending
    <3>4. QED BY <3>2, <3>3
  <2>7. ASSUME NEW stage \in {"preparing", "sending"}, NEW T \in SUBSET Task, Expire(stage, T)
        PROVE  Goal
    <3>1. PICK late \in SUBSET Plan :
            /\ \A k \in late : Overdue(k) /\ ~Locked(k) /\ run[k].stage = stage
            /\ \A k \in Plan : run'[k] = IF k \in late THEN Expired(run[k], stage) ELSE run[k]
      BY <2>7 DEF Expire
    <3>2. UNCHANGED <<open, executor, task, page>>
      BY <2>7 DEF Expire, business
    <3>3. ASSUME NEW k \in late PROVE Progress(k) /\ ~Running(k)'
      <4>1. k \in Plan /\ run[k] \in TaskRun /\ run[k].stage = stage
        BY <1>1, <3>1 DEF Overdue, TypeOK
      <4>2. run'[k] = Expired(run[k], stage)
        BY <3>1, <4>1
      <4>3. /\ Expired(run[k], stage) # None
            /\ Expired(run[k], stage).stage = stage
            /\ Expired(run[k], stage).status = IF stage = "preparing" THEN "failed" ELSE "uncertain"
            /\ Expired(run[k], stage).content = run[k].content
        <5>1. Expired(run[k], stage) # None
          BY <4>1, RunTypes
        <5>2. QED BY <4>1, <5>1, RunFields
      <4>4. run[k] # None
        BY <4>1, RunTypes
      <4>5. QED BY <4>1, <4>2, <4>3, <4>4 DEF Progress, Unsent, Running
    <3>4. \A k \in Plan : Kept(k) \/ Progress(k) \/ Gone(k)
      BY <3>1, <3>2, <3>3 DEF Kept, Exists
    <3>5. \A k \in Plan : run'[k] = run[k] \/ (~Locked(k) /\ ~Running(k)')
      BY <3>1, <3>3
    <3>6. RunningStage' /\ OpenFinish'
      BY <1>1, <1>2, <3>2, <3>5, LockHolds
    <3>7. QED BY <1>5, <3>2, <3>4, <3>6
  <2>8. ASSUME NEW k \in Plan, NEW m \in Plan, NEW level \in Reported, Receipt(k, m, level)
        PROVE  Goal
    <3>1. /\ run[k] # None /\ ~Locked(k) /\ UNCHANGED <<open, executor, task, page>>
          /\ run' = [run EXCEPT ![k] = Witnessed(run[k], m, level)]
      BY <2>8 DEF Receipt, business
    <3>2. run[k] \in TaskRun
      BY <1>1, <3>1 DEF TypeOK
    <3>3. run'[k] = Witnessed(run[k], m, level) /\ \A j \in Plan \ {k} : run'[j] = run[j]
      BY <1>1, <3>1 DEF TypeOK
    <3>4. /\ Witnessed(run[k], m, level) # None
          /\ Witnessed(run[k], m, level).status \in {"accepted", "success"}
          /\ Witnessed(run[k], m, level).stage \in {"accepted", "confirmed"}
          /\ Witnessed(run[k], m, level).content = run[k].content
      <4>1. Witnessed(run[k], m, level) # None
        BY <3>2, RunTypes, ExecutionAssumption
      <4>2. QED BY <3>2, <4>1, RunFields
    <3>5. Progress(k) /\ ~Running(k)'
      BY <3>1, <3>3, <3>4 DEF Progress, Unsent, Running
    <3>6. QED BY <2>1, <3>1, <3>3, <3>5
  <2>9. QED BY <1>12, <2>3, <2>4, <2>5, <2>6, <2>7, <2>8 DEF ServerStep
<1>13. CASE UNCHANGED vars
  <2>1. UNCHANGED <<run, open, executor, task, page>>
    BY <1>13 DEF vars, page
  <2>2. QED BY <1>3, <1>4, <1>5, <2>1 DEF Exists
<1>14. QED BY <1>9, <1>10, <1>11, <1>12, <1>13 DEF Next

LEMMA IInvInit == Init => IInv
<1> SUFFICES ASSUME Init PROVE IInv
  OBVIOUS
<1>1. TypeOK /\ AttemptComplete
  BY TypeInit
<1>2. \A k \in Plan : task[k[1]] \in Content
  BY DEF Init, Plan
<1>3. \A k \in Plan : run[k] # None => run[k].status = "legacy" /\ run[k].stage = "confirmed"
  BY <1>2, OldFields DEF Init
<1>4. /\ executor = [e \in Executor |-> None] /\ open = {}
      /\ sent = [k \in Plan |-> 0] /\ posted = [k \in Plan |-> None]
  BY DEF Init
<1>5. Rights
  BY <1>3, <1>4 DEF Rights, OneToken, UntouchedIdle, UnsentIdle, SpentOnce, SameMessage,
                    Holds, MaySend
<1>6. RunningStage /\ OpenFinish
  BY <1>3, <1>4 DEF RunningStage, OpenFinish, Running
<1>7. QED BY <1>1, <1>5, <1>6 DEF IInv

LEMMA Inductive == Spec => []IInv
<1>1. IInv /\ [Next]_vars => IInv'
  BY TypeNext, StepNext DEF IInv
<1>2. QED BY <1>1, IInvInit, PTL DEF Spec

-----------------------------------------------------------------------------
(* Evidence: a second invariant, inductive together with the first *)

Seen == {"submitted", "accepted", "success"}

\* Who tells that a message was seen does so after it went out.
ReportsTrue ==
    /\ \A e \in Executor :
         executor[e] # None /\ executor[e].at = "done" /\ executor[e].result \in Seen
           => sent[executor[e].plan] > 0
    /\ \A m \in results : m.status \in Seen => sent[m.plan] > 0
    /\ \A o \in open : o.status \in Seen => sent[o.plan] > 0

\* What an open finish is about to write has its evidence.
OpenHasEvidence ==
    \A o \in open : /\ o.status = "success" => run[o.plan].level >= 2
                    /\ o.status = "accepted" => run[o.plan].level >= 1

\* A running run was claimed for the minute its content names, within the window.
OnTime ==
    \A k \in Plan : Running(k) =>
        /\ run[k].content.time = k[2] % Day
        /\ k[2] <= run[k].started /\ run[k].started <= clock
        /\ run[k].started - k[2] <= MaxAge

\* Serial transactions are never seen half done.
SerialFinish == Serialized => open = {}

Evidence == ReportsTrue /\ OpenHasEvidence /\ EvidenceHolds /\ OnTime /\ SerialFinish
IInvEvidence == IInv /\ Evidence

-----------------------------------------------------------------------------
(* What a step does to the evidence of a run *)

Claimed(k) ==
    /\ run[k] = None /\ Exists(k[1]) /\ SlotMatches(k[1], k[2])
    /\ run'[k] = FreshRun(k[1])
Permitted(k) ==
    /\ Granted(k, run[k].content)
    /\ run'[k] = [run[k] EXCEPT !.stage = "sending"]
Ended(k) ==
    \E o \in Terminal :
        /\ Running(k) /\ run'[k] = Concluded(run[k], o)
        /\ o = "success" => run[k].level >= 2
        /\ o = "accepted" => run[k].level >= 1
        /\ o = "submitted" => sent[k] > 0
Lapsed(k) == Running(k) /\ \E stage : run'[k] = Expired(run[k], stage)
Raised(k, m, l) ==
    /\ run[k] # None /\ run[k].status \notin {"legacy", "failed"}
    /\ sent[m] > 0 /\ Bindable(k, m) /\ l > run[k].level
    /\ run'[k] = Witnessed(run[k], m, l)
    /\ \A j \in Plan \ {k} : run'[j] = run[j]

\* A run goes only with its task, and then with all of the task's runs.
Removed(t) == ~Exists(t)' /\ \A j \in Plan : j[1] = t => run'[j] = None

Moved(k) ==
    \/ run'[k] = run[k]
    \/ run'[k] = None /\ Removed(k[1])
    \/ Claimed(k) \/ Permitted(k) \/ Ended(k) \/ Lapsed(k)
    \/ \E m \in Plan, l \in Reported : Raised(k, m, l)

LEMMA EvidenceFields ==
    ASSUME NEW r \in TaskRun
    PROVE  /\ [r EXCEPT !.stage = "sending"].level = r.level
           /\ [r EXCEPT !.stage = "sending"].message = r.message
           /\ [r EXCEPT !.stage = "sending"].started = r.started
           /\ \A o : /\ Concluded(r, o).level = r.level
                     /\ Concluded(r, o).message = r.message
           /\ \A stage : /\ Expired(r, stage).level = r.level
                         /\ Expired(r, stage).message = r.message
           /\ \A m, l : /\ Witnessed(r, m, l).level = l
                        /\ Witnessed(r, m, l).message = m
                        /\ Witnessed(r, m, l).status = IF l = 1 THEN "accepted" ELSE "success"
BY DEF TaskRun, Concluded, Expired, Witnessed

\* A finish that is acted upon has the evidence for its outcome.
LEMMA OutcomeHasEvidence ==
    ASSUME TypeOK, NEW m \in results, ~Void(m)
    PROVE  LET o == Outcome(run[m.plan], m.status) IN
           /\ o = "success" => run[m.plan].level >= 2
           /\ o = "accepted" => run[m.plan].level >= 1
           /\ o \in Seen => m.status = o
<1>1. m.plan \in Plan /\ run[m.plan] # None
  BY DEF Void, TypeOK
<1>2. run[m.plan] \in TaskRun
  BY <1>1 DEF TypeOK
<1>3. run[m.plan].level \in Nat
  BY <1>2 DEF TaskRun, Level
<1>4. QED BY <1>3 DEF Void, Refused, Outcome, Seen

LEMMA RunMoves ==
    ASSUME IInv, Evidence, [Next]_vars
    PROVE  \A k \in Plan : Moved(k) /\ (Locked(k)' => run'[k] = run[k])
<1> DEFINE Goal == \A k \in Plan : Moved(k) /\ (Locked(k)' => run'[k] = run[k])
<1>1. TypeOK /\ OpenFinish /\ RunningStage /\ ReportsTrue /\ OpenHasEvidence
  BY DEF IInv, Evidence
<1>2. /\ \A o \in open : o.plan \in Plan /\ o.status \in Terminal
      /\ \A m \in results : m.plan \in Plan /\ m.status \in Terminal
      /\ \A m \in asked : m.plan \in Plan
      /\ \A e \in Executor : executor[e] # None => executor[e].plan \in Plan
  BY <1>1, AttemptTypes DEF TypeOK
<1>3. ASSUME UNCHANGED run PROVE Goal
  BY <1>3 DEF Moved
\* One run moves while no transaction holds it.
<1>4. ASSUME NEW k \in Plan, \A j \in Plan \ {k} : run'[j] = run[j], Moved(k), ~Locked(k)'
      PROVE  Goal
  BY <1>4 DEF Moved
<1>5. ASSUME NEW k \in Plan, NEW c, Granted(k, c), Sending(k), UNCHANGED open PROVE Goal
  <2>1. c = run[k].content /\ ~Locked(k)'
    BY <1>5 DEF Granted, Locked
  <2>2. run'[k] = [run[k] EXCEPT !.stage = "sending"] /\ \A j \in Plan \ {k} : run'[j] = run[j]
    BY <1>1, <1>5 DEF Sending, TypeOK
  <2>3. Moved(k)
    BY <1>5, <2>1, <2>2 DEF Moved, Permitted
  <2>4. QED BY <1>4, <2>1, <2>2, <2>3
<1>6. ASSUME NEW k \in Plan, NEW o \in Terminal, NEW n, Finishes(k, o, n), Running(k),
             ~Locked(k)', o = "success" => run[k].level >= 2,
             o = "accepted" => run[k].level >= 1, o = "submitted" => sent[k] > 0
      PROVE  Goal
  <2>1. run'[k] = Concluded(run[k], o) /\ \A j \in Plan \ {k} : run'[j] = run[j]
    BY <1>1, <1>6 DEF Finishes, TypeOK
  <2>2. Moved(k)
    BY <1>6, <2>1 DEF Moved, Ended
  <2>3. QED BY <1>4, <1>6, <2>1, <2>2
<1>7. CASE Tick
  BY <1>3, <1>7 DEF Tick, server
<1>8. ASSUME NEW t \in Task, Business(t) PROVE Goal
  <2>1. CASE Edit(t) \/ MoveGate(t)
    BY <1>3, <2>1 DEF Edit, MoveGate, server
  <2>2. CASE Remove(t)
    <3>1. Removed(t)
      BY <1>1, <2>2 DEF Remove, Removed, Exists, TypeOK
    <3>2. QED BY <2>2, <3>1 DEF Remove, Moved, Locked
  <2>3. QED BY <1>8, <2>1, <2>2 DEF Business
<1>9. ASSUME NEW e \in Executor, ExecutorStep(e) PROVE Goal
  <2>1. ASSUME NEW t \in Task, Claim(e, t) PROVE Goal
    <3>1. PICK s \in Slot : /\ SlotMatches(t, s) /\ run[<<t, s>>] = None
                            /\ run' = [run EXCEPT ![<<t, s>>] = FreshRun(t)]
      BY <2>1 DEF Claim
    <3> DEFINE p == <<t, s>>
    <3>2. p \in Plan /\ p[1] = t /\ p[2] = s
      BY DEF Plan
    <3>3. run'[p] = FreshRun(t) /\ \A j \in Plan \ {p} : run'[j] = run[j]
      BY <1>1, <3>1, <3>2 DEF TypeOK
    <3>4. ~Locked(p)'
      BY <1>1, <2>1, <3>1 DEF Claim, Locked, OpenFinish, Running
    <3>5. run[p] = None /\ SlotMatches(p[1], p[2]) /\ Exists(p[1])
      BY <2>1, <3>1, <3>2 DEF Claim
    <3> HIDE DEF p
    <3>6. Moved(p)
      BY <3>2, <3>3, <3>5 DEF Moved, Claimed
    <3>7. QED BY <1>4, <3>2, <3>3, <3>4, <3>6
  <2>2. CASE BeginSend(e)
    <3>1. executor[e].plan \in Plan /\ UNCHANGED open
      BY <1>2, <2>2 DEF BeginSend, At
    <3>2. CASE Granted(executor[e].plan, executor[e].content)
      BY <1>5, <2>2, <3>1, <3>2 DEF BeginSend
    <3>3. CASE ~Granted(executor[e].plan, executor[e].content)
      BY <1>3, <2>2, <3>3 DEF BeginSend
    <3>4. QED BY <3>2, <3>3
  <2>3. CASE \/ Fetch(e) \/ GiveUp(e) \/ BeginSendTimesOut(e) \/ Withdraw(e)
             \/ Press(e) \/ Report(e) \/ Crash(e)
    BY <1>3, <2>3 DEF Fetch, GiveUp, BeginSendTimesOut, Withdraw, Press, Report, Crash, server
  <2>4. QED BY <1>9, <2>1, <2>2, <2>3 DEF ExecutorStep
<1>10. CASE ServerStep
  <2>1. ASSUME NEW m \in results, ServeFinish(m) PROVE Goal
    <3>1. CASE Void(m)
      BY <1>3, <2>1, <3>1 DEF ServeFinish, server
    <3>2. CASE ~Void(m)
      <4> DEFINE o == Outcome(run[m.plan], m.status)
      <4>1. Running(m.plan) /\ o \in Terminal
        BY <1>1, <3>2, OutcomeSafe
      <4>2. /\ o = "success" => run[m.plan].level >= 2
            /\ o = "accepted" => run[m.plan].level >= 1
            /\ o \in Seen => m.status = o
        BY <1>1, <3>2, OutcomeHasEvidence
      <4>3. Finishes(m.plan, o, Newer(m.plan)) /\ ~Locked(m.plan)'
        BY <2>1, <3>2 DEF ServeFinish, Locked
      <4> HIDE DEF o
      <4>4. o = "submitted" => sent[m.plan] > 0
        BY <1>1, <4>2 DEF ReportsTrue, Seen
      <4>5. QED BY <1>2, <1>6, <4>1, <4>2, <4>3, <4>4
    <3>3. QED BY <3>1, <3>2
  <2>2. ASSUME NEW m \in results, FinishReads(m) PROVE Goal
    BY <1>3, <2>2 DEF FinishReads, server
  <2>3. ASSUME NEW o \in open, FinishWrites(o) PROVE Goal
    <3>1. Finishes(o.plan, o.status, o.newer) /\ open' = open \ {o}
      BY <2>3 DEF FinishWrites
    <3>2. Running(o.plan) /\ ~Locked(o.plan)'
      BY <1>1, <3>1 DEF OpenFinish, Locked
    <3>3. /\ o.status = "success" => run[o.plan].level >= 2
          /\ o.status = "accepted" => run[o.plan].level >= 1
          /\ o.status = "submitted" => sent[o.plan] > 0
      BY <1>1 DEF OpenHasEvidence, ReportsTrue, Seen
    <3>4. QED BY <1>2, <1>6, <3>1, <3>2, <3>3
  <2>4. ASSUME NEW m \in asked, ServeSending(m) PROVE Goal
    <3>1. CASE Granted(m.plan, m.content)
      BY <1>2, <1>5, <2>4, <3>1 DEF ServeSending
    <3>2. CASE ~Granted(m.plan, m.content)
      BY <1>3, <2>4, <3>2 DEF ServeSending
    <3>3. QED BY <3>1, <3>2
  <2>5. ASSUME NEW stage \in {"preparing", "sending"}, NEW T \in SUBSET Task, Expire(stage, T)
        PROVE  Goal
    <3>1. PICK late \in SUBSET Plan :
            /\ \A k \in late : Overdue(k) /\ ~Locked(k)
            /\ \A k \in Plan : run'[k] = IF k \in late THEN Expired(run[k], stage) ELSE run[k]
      BY <2>5 DEF Expire
    <3>2. open' = open
      BY <2>5 DEF Expire
    <3>3. QED BY <3>1, <3>2 DEF Moved, Lapsed, Running, Overdue, Locked
  <2>6. ASSUME NEW k \in Plan, NEW m \in Plan, NEW l \in Reported, Receipt(k, m, l)
        PROVE  Goal
    <3>1. /\ run'[k] = Witnessed(run[k], m, l) /\ \A j \in Plan \ {k} : run'[j] = run[j]
          /\ ~Locked(k)'
      BY <1>1, <2>6 DEF Receipt, Locked, TypeOK
    <3>2. Raised(k, m, l)
      BY <2>6, <3>1 DEF Receipt, Raised
    <3>3. QED BY <1>4, <3>1, <3>2 DEF Moved
  <2>7. QED BY <1>10, <2>1, <2>2, <2>3, <2>4, <2>5, <2>6 DEF ServerStep
<1>11. CASE UNCHANGED vars
  BY <1>3, <1>11 DEF vars
<1>12. QED BY <1>7, <1>8, <1>9, <1>10, <1>11 DEF Next

LEMMA SentGrows ==
    ASSUME TypeOK, [Next]_vars
    PROVE  \A k \in Plan : sent'[k] >= sent[k]
<1>1. ASSUME NEW e \in Executor, Posts(e) \/ UNCHANGED page
      PROVE  \A k \in Plan : sent'[k] >= sent[k]
  BY <1>1 DEF Posts, page, TypeOK
<1>2. CASE UNCHANGED page
  BY <1>2 DEF page, TypeOK
<1>3. ASSUME NEW e \in Executor, Press(e) \/ Crash(e)
      PROVE  \A k \in Plan : sent'[k] >= sent[k]
  BY <1>1, <1>3 DEF Press, Crash
<1>4. ASSUME NEW e \in Executor, ExecutorStep(e), ~(Press(e) \/ Crash(e)) PROVE UNCHANGED page
  BY <1>4 DEF ExecutorStep, Claim, Fetch, GiveUp, BeginSend, BeginSendTimesOut, Withdraw, Report
<1>5. ASSUME NEW t \in Task, Business(t) PROVE UNCHANGED page
  BY <1>5 DEF Business, Edit, MoveGate, Remove
<1>6. CASE ServerStep
  <2>1. UNCHANGED page
    BY <1>6 DEF ServerStep, ServeFinish, FinishReads, FinishWrites, ServeSending, Expire, Receipt
  <2>2. QED BY <1>2, <2>1
<1>7. CASE Tick \/ UNCHANGED vars
  BY <1>2, <1>7 DEF Tick, vars, page
<1>8. QED BY <1>2, <1>3, <1>4, <1>5, <1>6, <1>7 DEF Next

\* What is told of a message, by an executor, a request or a transaction.
LEMMA ReportsNext ==
    ASSUME IInv, ReportsTrue, [Next]_vars
    PROVE  ReportsTrue'
<1>1. TypeOK /\ AttemptComplete
  BY DEF IInv
<1>2. \A k \in Plan : sent[k] > 0 => sent'[k] > 0
  <2>1. \A k \in Plan : sent[k] \in Nat /\ sent'[k] \in Nat
    BY <1>1, TypeNext DEF IInv, TypeOK
  <2>2. QED BY <1>1, <2>1, SentGrows
<1>3. /\ \A e \in Executor : executor[e] # None => executor[e] \in Attempt /\ executor[e].plan \in Plan
      /\ \A m \in results : m.plan \in Plan /\ m.status \in Terminal
      /\ \A o \in open : o.plan \in Plan /\ o.status \in Terminal
  BY <1>1, AttemptTypes DEF TypeOK
<1> DEFINE Telling(e) == executor[e] # None /\ executor[e].at = "done" /\ executor[e].result \in Seen
\* The three parts, each with what may be new in it.
<1>4. ASSUME \A m \in results' \ results : m.status \in Seen => sent'[m.plan] > 0,
             \A o \in open' \ open : o.status \in Seen => sent'[o.plan] > 0,
             \A e \in Executor : executor'[e] = executor[e]
                                 \/ (Telling(e)' => sent'[executor'[e].plan] > 0)
      PROVE  ReportsTrue'
  BY <1>2, <1>3, <1>4 DEF ReportsTrue
<1>5. CASE UNCHANGED <<executor, results, open>>
  BY <1>4, <1>5
<1>6. ASSUME NEW e \in Executor, ExecutorStep(e) PROVE ReportsTrue'
  <2>1. ASSUME NEW a, executor' = [executor EXCEPT ![e] = a], UNCHANGED <<results, open>>,
               (a # None /\ a.at = "done" /\ a.result \in Seen) => sent'[a.plan] > 0
        PROVE  ReportsTrue'
    <3>1. executor'[e] = a /\ \A f \in Executor \ {e} : executor'[f] = executor[f]
      BY <1>1, <2>1 DEF TypeOK
    <3> HIDE DEF Telling
    <3>2. \A f \in Executor : executor'[f] = executor[f]
                              \/ (Telling(f)' => sent'[executor'[f].plan] > 0)
      BY <2>1, <3>1 DEF Telling
    <3>3. QED BY <1>4, <2>1, <3>2
  <2>2. ASSUME NEW r, executor[e] # None, r \in Seen => sent'[executor[e].plan] > 0,
               executor' = [executor EXCEPT ![e].at = "done", ![e].result = r],
               UNCHANGED <<results, open>>
        PROVE  ReportsTrue'
    <3> DEFINE a == [executor[e] EXCEPT !.at = "done", !.result = r]
    <3>1. executor' = [executor EXCEPT ![e] = a]
      BY <1>1, <2>2 DEF TypeOK
    <3>2. a.plan = executor[e].plan /\ a.result = r
      BY <1>3, <2>2 DEF Attempt
    <3> HIDE DEF a
    <3>3. QED BY <2>1, <2>2, <3>1, <3>2
  <2>2a. "failed" \notin Seen /\ "uncertain" \notin Seen
    BY DEF Seen
  <2>3. ASSUME NEW t \in Task, Claim(e, t) PROVE ReportsTrue'
    <3>1. PICK s \in Slot :
            executor' = [executor EXCEPT ![e] =
              [plan |-> <<t, s>>, at |-> "claimed", content |-> None, result |-> None]]
      BY <2>3 DEF Claim
    <3>2. QED BY <2>1, <2>3, <3>1 DEF Claim
  <2>4. CASE Fetch(e)
    <3> DEFINE a == [executor[e] EXCEPT !.at = "fetched", !.content = task[executor[e].plan[1]]]
    <3>1. executor[e] \in Attempt /\ UNCHANGED <<results, open>>
      BY <1>3, <2>4 DEF Fetch, At
    <3>2. executor' = [executor EXCEPT ![e] = a]
      BY <1>1, <2>4 DEF Fetch, TypeOK
    <3>3. a.at = "fetched"
      BY <3>1, AttemptFields
    <3> HIDE DEF a
    <3>4. QED BY <2>1, <3>1, <3>2, <3>3
  <2>5. CASE GiveUp(e) \/ Withdraw(e) \/ BeginSendTimesOut(e)
    <3>1. executor[e] # None /\ UNCHANGED <<results, open>>
      BY <2>5 DEF GiveUp, Withdraw, BeginSendTimesOut, At
    <3>2. executor' = [executor EXCEPT ![e].at = "done", ![e].result = "failed"]
      BY <2>5 DEF GiveUp, Withdraw, BeginSendTimesOut, Failing
    <3>3. QED BY <2>2, <2>2a, <3>1, <3>2, Zenon
  <2>6. CASE BeginSend(e)
    <3>1. executor[e] # None /\ executor[e] \in Attempt /\ UNCHANGED <<results, open>>
      BY <1>3, <2>6 DEF BeginSend, At
    <3>2. CASE Granted(executor[e].plan, executor[e].content)
      <4> DEFINE a == [executor[e] EXCEPT !.at = "granted"]
      <4>1. executor' = [executor EXCEPT ![e] = a]
        BY <1>1, <2>6, <3>2 DEF BeginSend, TypeOK
      <4>2. a.at = "granted"
        BY <3>1, AttemptFields
      <4> HIDE DEF a
      <4>3. QED BY <2>1, <3>1, <4>1, <4>2
    <3>3. CASE ~Granted(executor[e].plan, executor[e].content)
      <4>1. executor' = [executor EXCEPT ![e].at = "done", ![e].result = "failed"]
        BY <2>6, <3>3 DEF BeginSend, Failing
      <4>2. QED BY <2>2, <2>2a, <3>1, <4>1, Zenon
    <3>4. QED BY <3>2, <3>3
  <2>7. CASE Press(e)
    <3>1. executor[e] # None /\ executor[e].plan \in Plan /\ UNCHANGED <<results, open>>
      BY <1>3, <2>7 DEF Press, At
    <3>2. CASE Posts(e)
      <4>1. PICK r : executor' = [executor EXCEPT ![e].at = "done", ![e].result = r]
        BY <2>7 DEF Press
      <4>2. sent'[executor[e].plan] > 0
        BY <1>1, <3>1, <3>2 DEF Posts, TypeOK
      <4>3. QED BY <2>2, <3>1, <4>1, <4>2
    <3>3. CASE executor' = [executor EXCEPT ![e].at = "done", ![e].result = "uncertain"]
      BY <2>2, <2>2a, <3>1, <3>3, Zenon
    <3>4. QED BY <2>7, <3>2, <3>3 DEF Press
  <2>8. CASE Report(e)
    <3>1. At(e, "done") /\ executor' = [executor EXCEPT ![e] = None] /\ open' = open
          /\ results' = results \union {[plan |-> executor[e].plan, status |-> executor[e].result]}
      BY <2>8 DEF Report
    <3>2. \A f \in Executor : executor'[f] = executor[f] \/ executor'[f] = None
      BY <1>1, <3>1 DEF TypeOK
    <3>3. executor[e].result \in Seen => sent'[executor[e].plan] > 0
      BY <1>2, <1>3, <3>1 DEF ReportsTrue, At
    <3>4. \A m \in results' \ results : m.status \in Seen => sent'[m.plan] > 0
      BY <3>1, <3>3
    <3>5. QED BY <1>4, <3>1, <3>2, <3>4
  <2>9. CASE Crash(e)
    BY <2>1, <2>9 DEF Crash
  <2>10. QED BY <1>6, <2>3, <2>4, <2>5, <2>6, <2>7, <2>8, <2>9 DEF ExecutorStep
<1>7. CASE ServerStep
  <2>1. ASSUME results' \subseteq results, open' \subseteq open, UNCHANGED executor
        PROVE  ReportsTrue'
    BY <1>4, <2>1
  <2>2. ASSUME NEW m \in results, FinishReads(m) PROVE ReportsTrue'
    <3> DEFINE o == [plan |-> m.plan, newer |-> Newer(m.plan),
                     status |-> Outcome(run[m.plan], m.status)]
    <3>1. ~Void(m) /\ open' = open \union {o} /\ results' \subseteq results /\ UNCHANGED executor
      BY <2>2 DEF FinishReads
    <3>2. o.status \in Seen => m.status = o.status
      BY <1>1, <3>1, OutcomeHasEvidence
    <3>3. o.status \in Seen => sent'[o.plan] > 0
      BY <1>2, <1>3, <3>2 DEF ReportsTrue
    <3> HIDE DEF o
    <3>4. QED BY <1>4, <3>1, <3>3
  <2>3. ASSUME ServerStep, ~\E m \in results : FinishReads(m)
        PROVE  results' \subseteq results /\ open' \subseteq open /\ UNCHANGED executor
    BY <2>3 DEF ServerStep, ServeFinish, FinishWrites, ServeSending, Expire, Receipt
  <2>4. QED BY <1>7, <2>1, <2>2, <2>3
<1>8. CASE Tick
  BY <1>5, <1>8 DEF Tick
<1>9. ASSUME NEW t \in Task, Business(t) PROVE ReportsTrue'
  BY <1>5, <1>9 DEF Business, Edit, MoveGate, Remove
<1>10. CASE UNCHANGED vars
  BY <1>5, <1>10 DEF vars
<1>11. QED BY <1>6, <1>7, <1>8, <1>9, <1>10 DEF Next

\* What is new in `open', and when the clock moves.
LEMMA OpenNext ==
    ASSUME IInv, SerialFinish, [Next]_vars
    PROVE  /\ SerialFinish' /\ clock' >= clock
           /\ \A o \in open' \ open : \E m \in results :
                /\ FinishReads(m) /\ UNCHANGED run
                /\ o.plan = m.plan /\ o.status = Outcome(run[m.plan], m.status)
<1>1. TypeOK
  BY DEF IInv
<1>2. CASE open' \subseteq open /\ clock' >= clock
  BY <1>2 DEF SerialFinish
<1>3. ASSUME NEW m \in results, FinishReads(m)
      PROVE  /\ SerialFinish' /\ clock' >= clock
             /\ \A o \in open' \ open :
                  o.plan = m.plan /\ o.status = Outcome(run[m.plan], m.status)
             /\ UNCHANGED run
  BY <1>1, <1>3 DEF FinishReads, SerialFinish, TypeOK, server
<1>4. ASSUME NEW e \in Executor, ExecutorStep(e) PROVE open' = open /\ clock' = clock
  BY <1>4 DEF ExecutorStep, Claim, Fetch, GiveUp, BeginSend, BeginSendTimesOut, Withdraw, Press,
              Report, Crash
<1>5. ASSUME NEW t \in Task, Business(t) PROVE open' = open /\ clock' = clock
  BY <1>5 DEF Business, Edit, MoveGate, Remove
<1>6. ASSUME ServerStep, ~\E m \in results : FinishReads(m)
      PROVE  open' \subseteq open /\ clock' = clock
  BY <1>6 DEF ServerStep, ServeFinish, FinishWrites, ServeSending, Expire, Receipt
<1>7. CASE Tick
  BY <1>1, <1>2, <1>7 DEF Tick, TypeOK
<1>8. CASE UNCHANGED vars
  BY <1>1, <1>2, <1>8 DEF vars, TypeOK
<1>9. clock' = clock => clock' >= clock
  BY <1>1 DEF TypeOK
<1>10. CASE ServerStep
  BY <1>2, <1>3, <1>6, <1>9, <1>10
<1>11. QED BY <1>2, <1>4, <1>5, <1>7, <1>8, <1>9, <1>10 DEF Next

\* The evidence of one run after a step.
LEMMA EvidenceOfRun ==
    ASSUME IInv, Evidence, [Next]_vars, NEW k \in Plan, run'[k] # None
    PROVE  /\ run'[k].status = "success" => run'[k].level >= 2
           /\ run'[k].status = "accepted" => run'[k].level >= 1
           /\ run'[k].status = "submitted" => sent'[k] > 0
           /\ run'[k].level > 0 => run'[k].message # None /\ sent'[run'[k].message] > 0
           /\ \/ run'[k].message = None
              \/ run[k] # None /\ run'[k].message = run[k].message
              \/ \E m \in Plan, l \in Reported : Raised(k, m, l) /\ run'[k].message = m
           /\ Running(k)' =>
                /\ run'[k].content.time = k[2] % Day
                /\ k[2] <= run'[k].started /\ run'[k].started <= clock'
                /\ run'[k].started - k[2] <= MaxAge
<1> DEFINE Goal ==
      /\ run'[k].status = "success" => run'[k].level >= 2
      /\ run'[k].status = "accepted" => run'[k].level >= 1
      /\ run'[k].status = "submitted" => sent'[k] > 0
      /\ run'[k].level > 0 => run'[k].message # None /\ sent'[run'[k].message] > 0
      /\ \/ run'[k].message = None
         \/ run[k] # None /\ run'[k].message = run[k].message
         \/ \E m \in Plan, l \in Reported : Raised(k, m, l) /\ run'[k].message = m
      /\ Running(k)' =>
           /\ run'[k].content.time = k[2] % Day
           /\ k[2] <= run'[k].started /\ run'[k].started <= clock'
           /\ run'[k].started - k[2] <= MaxAge
<1>1. TypeOK /\ ResultsHaveEvidence /\ OnTime /\ SerialFinish
  BY DEF IInv, Evidence, EvidenceHolds
<1>2. clock \in Nat /\ clock' \in Nat /\ clock' >= clock /\ k[2] \in Nat /\ MaxAge \in Nat
  <2>1. clock' \in Nat
    BY TypeNext DEF IInv, TypeOK
  <2>2. QED BY <1>1, <2>1, OpenNext, TimeAssumption, SlotNat DEF Plan, TypeOK
<1>3. \A j \in Plan : sent[j] > 0 => sent'[j] > 0
  BY <1>1, SentGrows, TypeNext DEF IInv, TypeOK
<1>4. run[k] # None =>
        /\ run[k] \in TaskRun /\ run[k].started \in Nat /\ run[k].level \in Nat
        /\ run[k].message \in Plan \union {None}
  BY <1>1 DEF TypeOK, TaskRun, Level
\* The message, the level and the witness stay, and so does a run's being on time.
<1>5. ASSUME run[k] # None, run'[k].level = run[k].level, run'[k].message = run[k].message,
             run'[k].status = "success" => run[k].level >= 2,
             run'[k].status = "accepted" => run[k].level >= 1,
             run'[k].status = "submitted" => sent[k] > 0,
             Running(k)' => /\ Running(k) /\ run'[k].content = run[k].content
                            /\ run'[k].started = run[k].started
      PROVE  Goal
  <2>1. run[k].level > 0 => run[k].message \in Plan /\ run[k].message # None
                            /\ sent[run[k].message] > 0
    BY <1>1, <1>4, <1>5 DEF ResultsHaveEvidence
  <2>2. Running(k)' => /\ run'[k].content.time = k[2] % Day
                       /\ k[2] <= run'[k].started /\ run'[k].started <= clock'
                       /\ run'[k].started - k[2] <= MaxAge
    BY <1>1, <1>2, <1>4, <1>5 DEF OnTime
  <2>3. QED BY <1>3, <1>5, <2>1, <2>2
<1>6. CASE run'[k] = run[k]
  BY <1>1, <1>5, <1>6 DEF ResultsHaveEvidence, Running
<1>7. CASE Claimed(k)
  <2>1. run'[k] = FreshRun(k[1]) /\ SlotMatches(k[1], k[2]) /\ task[k[1]] \in Content
    BY <1>1, <1>7 DEF Claimed, Exists, Plan, TypeOK
  <2>2. /\ run'[k].status = "running" /\ run'[k].level = 0 /\ run'[k].message = None
        /\ run'[k].started = clock /\ run'[k].content = task[k[1]]
    BY <2>1 DEF FreshRun
  <2>3. k[2] % Day = task[k[1]].time /\ k[2] <= clock /\ clock - k[2] <= MaxAge
    BY <2>1 DEF SlotMatches
  <2>4. QED BY <1>2, <2>2, <2>3
<1>8. CASE Permitted(k)
  <2>1. run[k] # None /\ Running(k)
    BY <1>8 DEF Permitted, Granted, Running
  <2>2. /\ run'[k].level = run[k].level /\ run'[k].message = run[k].message
        /\ run'[k].started = run[k].started /\ run'[k].content = run[k].content
        /\ run'[k].status = run[k].status
    BY <1>4, <1>8, <2>1, EvidenceFields, RunFields DEF Permitted
  <2>3. QED BY <1>5, <2>1, <2>2 DEF Running
<1>9. CASE Ended(k)
  <2>1. PICK o \in Terminal :
          /\ Running(k) /\ run'[k] = Concluded(run[k], o)
          /\ o = "success" => run[k].level >= 2
          /\ o = "accepted" => run[k].level >= 1
          /\ o = "submitted" => sent[k] > 0
    BY <1>9 DEF Ended
  <2>2. run[k] # None
    BY <2>1 DEF Running
  <2>3. run'[k].level = run[k].level /\ run'[k].message = run[k].message /\ run'[k].status = o
    BY <1>4, <2>1, <2>2, EvidenceFields, RunFields
  <2>4. ~Running(k)'
    BY <2>3 DEF Running, Terminal
  <2>5. QED BY <1>5, <2>1, <2>2, <2>3, <2>4
<1>10. CASE Lapsed(k)
  <2>1. PICK stage : run'[k] = Expired(run[k], stage)
    BY <1>10 DEF Lapsed
  <2>2. run[k] # None
    BY <1>10 DEF Lapsed, Running
  <2>3. /\ run'[k].level = run[k].level /\ run'[k].message = run[k].message
        /\ run'[k].status \in {"failed", "uncertain"}
    BY <1>4, <2>1, <2>2, EvidenceFields, RunFields
  <2>4. QED BY <1>5, <2>2, <2>3 DEF Running
<1>11. ASSUME NEW m \in Plan, NEW l \in Reported, Raised(k, m, l) PROVE Goal
  <2>1. run[k] # None /\ run'[k] = Witnessed(run[k], m, l) /\ sent[m] > 0 /\ m # None
    BY <1>11, ExecutionAssumption DEF Raised
  <2>2. /\ run'[k].level = l /\ run'[k].message = m
        /\ run'[k].status = IF l = 1 THEN "accepted" ELSE "success"
    BY <1>4, <2>1, EvidenceFields
  <2>3. l \in 1 .. 3
    BY ExecutionAssumption DEF Level
  <2>4. QED BY <1>3, <1>11, <2>1, <2>2, <2>3 DEF Running
<1>12. Moved(k)
  BY RunMoves
<1>13. QED BY <1>6, <1>7, <1>8, <1>9, <1>10, <1>11, <1>12 DEF Moved

LEMMA EvidenceNext ==
    ASSUME IInv, Evidence, [Next]_vars
    PROVE  Evidence'
<1>1. TypeOK /\ ReportsTrue /\ OpenHasEvidence /\ EvidenceNotShared /\ SerialFinish
  BY DEF IInv, Evidence, EvidenceHolds
<1>2. ReportsTrue' /\ SerialFinish'
  BY <1>1, ReportsNext, OpenNext
<1>3. OpenHasEvidence'
  <2> SUFFICES ASSUME NEW o \in open'
               PROVE  /\ o.status = "success" => run'[o.plan].level >= 2
                      /\ o.status = "accepted" => run'[o.plan].level >= 1
    BY DEF OpenHasEvidence
  <2>1. CASE o \in open
    <3>1. o.plan \in Plan
      BY <1>1, <2>1 DEF TypeOK
    <3>2. run'[o.plan] = run[o.plan]
      BY <3>1, RunMoves DEF Locked
    <3>3. QED BY <1>1, <2>1, <3>2 DEF OpenHasEvidence
  <2>2. CASE o \notin open
    <3>1. PICK m \in results : /\ FinishReads(m) /\ UNCHANGED run
                               /\ o.plan = m.plan /\ o.status = Outcome(run[m.plan], m.status)
      BY <1>1, <2>2, OpenNext
    <3>2. QED BY <1>1, <3>1, OutcomeHasEvidence DEF FinishReads
  <2>3. QED BY <2>1, <2>2
<1>4. ResultsHaveEvidence' /\ OnTime'
  BY EvidenceOfRun DEF ResultsHaveEvidence, OnTime, Running
<1>5. EvidenceNotShared'
  <2>1. ASSUME NEW i \in Plan, NEW m \in Plan, NEW l \in Reported, Raised(i, m, l),
               run'[i].message = m, NEW k \in Plan \ {i}, run'[k] # None
        PROVE  run'[k].message # m
    BY <2>1 DEF Raised, Bindable
  <2>2. ASSUME NEW j \in Plan, NEW k \in Plan, run'[j] # None, run'[k] # None,
               run'[j].message # None, run'[j].message = run'[k].message, j # k
        PROVE  FALSE
    <3>1. ASSUME NEW i \in {j, k}
          PROVE  \/ run[i] # None /\ run'[i].message = run[i].message
                 \/ \E m \in Plan, l \in Reported : Raised(i, m, l) /\ run'[i].message = m
      BY <2>2, <3>1, EvidenceOfRun
    <3>2. ASSUME NEW i \in {j, k}
          PROVE  run[i] # None /\ run'[i].message = run[i].message
      BY <2>1, <2>2, <3>1, <3>2
    <3>3. QED BY <1>1, <2>2, <3>2 DEF EvidenceNotShared
  <2>3. QED BY <2>2 DEF EvidenceNotShared
<1>6. QED BY <1>2, <1>3, <1>4, <1>5 DEF Evidence, EvidenceHolds

LEMMA EvidenceInit == Init => Evidence
<1> SUFFICES ASSUME Init PROVE Evidence
  OBVIOUS
<1>1. \A k \in Plan : run[k] # None =>
        run[k].status = "legacy" /\ run[k].level = 0 /\ run[k].message = None
  BY DEF Init, OldRun
<1>2. executor = [e \in Executor |-> None] /\ open = {} /\ results = {}
  BY DEF Init
<1>3. QED BY <1>1, <1>2 DEF Evidence, ReportsTrue, OpenHasEvidence, EvidenceHolds,
       ResultsHaveEvidence, EvidenceNotShared, OnTime, SerialFinish, Running

LEMMA InductiveEvidence == Spec => []IInvEvidence
<1>1. IInv /\ [Next]_vars => IInv'
  BY TypeNext, StepNext DEF IInv
<1>2. Init => IInvEvidence
  BY IInvInit, EvidenceInit DEF IInvEvidence
<1>3. IInvEvidence /\ [Next]_vars => IInvEvidence'
  BY <1>1, EvidenceNext DEF IInvEvidence
<1>4. QED BY <1>2, <1>3, PTL DEF Spec

-----------------------------------------------------------------------------
(* The single right to send *)

\* A task that is gone stays so.
LEMMA TasksOnlyGo ==
    ASSUME TypeOK, [Next]_vars
    PROVE  \A t \in Task : Exists(t)' => Exists(t)
<1>1. CASE UNCHANGED task
  BY <1>1 DEF Exists
<1>2. ASSUME NEW t \in Task, Business(t) PROVE \A u \in Task : Exists(u)' => Exists(u)
  BY <1>2 DEF Business, Edit, MoveGate, Remove, Exists, TypeOK
<1>3. CASE Tick \/ (\E e \in Executor : ExecutorStep(e)) \/ ServerStep \/ UNCHANGED vars
  <2>1. UNCHANGED task
    BY <1>3 DEF Tick, ExecutorStep, Claim, Fetch, GiveUp, BeginSend, BeginSendTimesOut, Withdraw,
                Press, Report, Crash, ServerStep, ServeFinish, FinishReads, FinishWrites,
                ServeSending, Expire, Receipt, business, vars
  <2>2. QED BY <1>1, <2>1
<1>4. QED BY <1>2, <1>3 DEF Next

\* A plan for which no right will be given stays one.
LEMMA SpentStays ==
    ASSUME IInvEvidence, [Next]_vars
    PROVE  Spent \subseteq Spent'
<1>1. /\ TypeOK /\ \A k \in Plan : Moved(k)
      /\ \A t \in Task : Exists(t)' => Exists(t)
  BY RunMoves, TasksOnlyGo DEF IInvEvidence, IInv
<1> SUFFICES ASSUME NEW k \in Plan, Attemptable(k)' PROVE Attemptable(k)
  BY DEF Spent
<1>2. k[1] \in Task
  BY DEF Plan
<1>3. ASSUME NEW p \in Legacy, p[1] = k[1], LegacyRun(p) PROVE LegacyRun(p)'
  <2>1. p \in Plan /\ run[p] # None /\ run[p].status = "legacy"
    BY <1>3, ExecutionAssumption DEF LegacyRun
  <2>2. run'[p] = run[p] \/ Removed(k[1])
    BY <1>1, <1>3, <2>1 DEF Moved, Claimed, Permitted, Granted, Ended, Lapsed, Running, Raised
  <2>3. ~Removed(k[1])
    BY DEF Removed, Attemptable, Running
  <2>4. QED BY <2>1, <2>2, <2>3 DEF LegacyRun
<1>4. \A p \in Legacy : p[1] = k[1] /\ LegacyRun(p) => ~InWindow(p[2], k[2])
  BY <1>3 DEF Attemptable, InWindow
<1>5. ~Removed(k[1])
  BY DEF Removed, Attemptable, Running
<1>6. CASE run'[k] = run[k]
  BY <1>1, <1>2, <1>4, <1>6 DEF Attemptable, Running
<1>7. CASE Claimed(k)
  BY <1>4, <1>7 DEF Attemptable, Claimed
<1>8. CASE Permitted(k)
  BY <1>4, <1>8 DEF Attemptable, Permitted, Granted, Running
<1>9. CASE run'[k] # run[k] /\ ~Claimed(k) /\ ~Permitted(k)
  <2>1. Ended(k) \/ Lapsed(k) \/ \E m \in Plan, l \in Reported : Raised(k, m, l)
    BY <1>1, <1>5, <1>9 DEF Moved
  <2>2. run[k] \in TaskRun
    BY <1>1, <2>1 DEF Ended, Lapsed, Raised, Running, TypeOK
  <2>3. run'[k] # None /\ run'[k].status # "running"
    <3>1. CASE Ended(k)
      <4>1. PICK o \in Terminal : run'[k] = Concluded(run[k], o)
        BY <3>1 DEF Ended
      <4>2. Concluded(run[k], o) \in TaskRun /\ Concluded(run[k], o).status = o
        BY <2>2, RunTypes, RunFields
      <4>3. o # "running"
        BY DEF Terminal
      <4>4. QED BY <4>1, <4>2, <4>3, ExecutionAssumption
    <3>2. CASE Lapsed(k)
      <4>1. PICK stage : run'[k] = Expired(run[k], stage)
        BY <3>2 DEF Lapsed
      <4>2. Expired(run[k], stage) \in TaskRun /\ Expired(run[k], stage).status # "running"
        BY <2>2, RunTypes, RunFields
      <4>3. QED BY <4>1, <4>2, ExecutionAssumption
    <3>3. ASSUME NEW m \in Plan, NEW l \in Reported, Raised(k, m, l)
          PROVE  run'[k] # None /\ run'[k].status # "running"
      <4>1. run'[k] = Witnessed(run[k], m, l) /\ l \in Level
        BY <3>3, ExecutionAssumption DEF Raised
      <4>2. Witnessed(run[k], m, l) \in TaskRun /\ Witnessed(run[k], m, l).status \in {"accepted", "success"}
        BY <2>2, <4>1, RunTypes, RunFields
      <4>3. QED BY <4>1, <4>2, ExecutionAssumption
    <3>4. QED BY <2>1, <3>1, <3>2, <3>3
  <2>4. QED BY <2>3 DEF Attemptable, Running
<1>10. QED BY <1>6, <1>7, <1>8, <1>9

\* The rights in hand when one executor moves on.
LEMMA HandStays ==
    ASSUME NEW e \in Executor, \A f \in Executor \ {e} : executor'[f] = executor[f],
           ~At(e, "granted"), ~At(e, "granted")'
    PROVE  InHand' = InHand
BY DEF InHand, RightOf, At

LEMMA HandLetsGo ==
    ASSUME OneToken, NEW e \in Executor, \A f \in Executor \ {e} : executor'[f] = executor[f],
           At(e, "granted"), executor[e].plan \in Plan, ~At(e, "granted")'
    PROVE  RightOf(e) \in InHand /\ InHand' = InHand \ {RightOf(e)}
<1>1. RightOf(e) \in InHand
  BY DEF InHand
<1>2. ASSUME NEW f \in Executor \ {e}, At(f, "granted") PROVE RightOf(f) # RightOf(e)
  <2>1. executor[f].plan # executor[e].plan
    BY <1>2 DEF OneToken, Holds, At
  <2>2. QED BY <2>1 DEF RightOf
<1>3. \A f \in Executor \ {e} : At(f, "granted")' <=> At(f, "granted")
  BY DEF At
<1>4. \A f \in Executor \ {e} : RightOf(f)' = RightOf(f)
  BY DEF RightOf
<1>5. QED BY <1>1, <1>2, <1>3, <1>4 DEF InHand

LEMMA HandGains ==
    ASSUME NEW e \in Executor, \A f \in Executor \ {e} : executor'[f] = executor[f],
           ~At(e, "granted"), At(e, "granted")'
    PROVE  InHand' = InHand \union {RightOf(e)'}
<1>1. \A f \in Executor \ {e} : At(f, "granted")' <=> At(f, "granted")
  BY DEF At
<1>2. \A f \in Executor \ {e} : RightOf(f)' = RightOf(f)
  BY DEF RightOf
<1>3. QED BY <1>1, <1>2 DEF InHand

\* Each step of an execution is a step of the promise or leaves it alone.
LEMMA PromiseNext ==
    ASSUME IInvEvidence, [Next]_vars
    PROVE  [Promise!RightNext]_(Promise!promise)
<1> DEFINE Goal == [Promise!RightNext]_(Promise!promise)
<1>1. /\ TypeOK /\ AttemptComplete /\ Rights /\ OneToken
      /\ \A e \in Executor : executor[e] # None => executor[e] \in Attempt /\ executor[e].plan \in Plan
  BY AttemptTypes DEF IInvEvidence, IInv, Rights, TypeOK
<1>2. TypeOK'
  BY TypeNext DEF IInvEvidence, IInv
<1>3. Promise!Plan = Plan
  BY DEF Promise!Plan, Plan
<1>4. ASSUME UNCHANGED page, InHand' = InHand PROVE Goal
  <2>1. Spent \subseteq Spent' /\ Spent' \subseteq Plan
    BY SpentStays DEF Spent
  <2>2. Wanted' \in [Task -> Content \union {None}]
    BY <1>2 DEF Wanted, TypeOK
  <2>3. Promise!Decide
    BY <1>3, <1>4, <2>1, <2>2 DEF Promise!Decide, page
  <2>4. QED BY <2>3 DEF Promise!RightNext
<1>5. ASSUME UNCHANGED <<page, executor>> PROVE Goal
  <2>1. InHand' = InHand
    BY <1>5 DEF InHand, RightOf, At
  <2>2. QED BY <1>4, <1>5, <2>1
\* An executor that fails is done.
<1>6. ASSUME NEW e \in Executor, executor[e] # None, NEW r \in Terminal,
             executor' = [executor EXCEPT ![e].at = "done", ![e].result = r]
      PROVE  /\ ~At(e, "granted")'
             /\ \A f \in Executor \ {e} : executor'[f] = executor[f]
  <2>1. executor'[e] = [executor[e] EXCEPT !.at = "done", !.result = r]
    BY <1>1, <1>6 DEF TypeOK
  <2>2. executor'[e].at = "done"
    <3>1. executor[e] \in Attempt
      BY <1>1, <1>6
    <3>2. QED BY <2>1, <3>1, AttemptFields
  <2>3. QED BY <1>1, <1>6, <2>2 DEF At, TypeOK
\* A right is used, or given back.
<1>7. ASSUME NEW e \in Executor, At(e, "granted"), ~At(e, "granted")',
             \A f \in Executor \ {e} : executor'[f] = executor[f],
             UNCHANGED <<task, gate, run>>, Posts(e) \/ UNCHANGED page
      PROVE  Goal
  <2>1. RightOf(e) \in InHand /\ InHand' = InHand \ {RightOf(e)}
    BY <1>1, <1>7, HandLetsGo DEF At
  <2>2. Wanted' = Wanted /\ Spent' = Spent
    BY <1>7 DEF Wanted, Spent, Attemptable, Running, LegacyRun, Exists
  <2>3. CASE UNCHANGED page
    BY <1>4, <2>1, <2>2, <2>3 DEF Promise!RightNext, Promise!GiveBack, page
  <2>4. CASE Posts(e)
    <3>1. RightOf(e).plan = executor[e].plan /\ RightOf(e).content = executor[e].content
      BY DEF RightOf
    <3>2. Promise!Use(RightOf(e))
      BY <2>1, <2>2, <2>4, <3>1 DEF Promise!Use, Posts
    <3>3. QED BY <2>1, <3>2 DEF Promise!RightNext
  <2>5. QED BY <1>7, <2>3, <2>4
<1>8. CASE Tick \/ UNCHANGED vars
  BY <1>5, <1>8 DEF Tick, page, vars
<1>9. ASSUME NEW t \in Task, Business(t) PROVE Goal
  BY <1>5, <1>9 DEF Business, Edit, MoveGate, Remove, page
<1>10. CASE ServerStep
  BY <1>5, <1>10 DEF ServerStep, ServeFinish, FinishReads, FinishWrites, ServeSending, Expire, Receipt, page
<1>11. ASSUME NEW e \in Executor, ExecutorStep(e) PROVE Goal
  <2>1. ASSUME NEW t \in Task, Claim(e, t) PROVE Goal
    <3>1. /\ executor[e] = None /\ executor'[e].at = "claimed"
          /\ \A f \in Executor \ {e} : executor'[f] = executor[f]
      BY <1>1, <2>1 DEF Claim, TypeOK
    <3>2. InHand' = InHand
      BY <3>1, HandStays DEF At
    <3>3. QED BY <1>4, <2>1, <3>2 DEF Claim
  <2>2. CASE Fetch(e)
    <3> DEFINE a == [executor[e] EXCEPT !.at = "fetched", !.content = task[executor[e].plan[1]]]
    <3>1. executor[e] # None /\ executor[e].at = "claimed"
      BY <2>2 DEF Fetch, At
    <3>2. executor' = [executor EXCEPT ![e] = a]
      BY <1>1, <2>2 DEF Fetch, TypeOK
    <3>3. a.at = "fetched"
      BY <1>1, <3>1, AttemptFields
    <3> HIDE DEF a
    <3>4. executor'[e].at = "fetched" /\ \A f \in Executor \ {e} : executor'[f] = executor[f]
      BY <1>1, <3>2, <3>3 DEF TypeOK
    <3>5. InHand' = InHand
      BY <3>1, <3>4, HandStays DEF At
    <3>6. QED BY <1>4, <2>2, <3>5 DEF Fetch
  <2>3. CASE GiveUp(e) \/ BeginSendTimesOut(e)
    <3>1. /\ executor[e] # None /\ ~At(e, "granted") /\ UNCHANGED page
          /\ executor' = [executor EXCEPT ![e].at = "done", ![e].result = "failed"]
      BY <2>3 DEF GiveUp, BeginSendTimesOut, Failing, At
    <3>2. /\ ~At(e, "granted")'
          /\ \A f \in Executor \ {e} : executor'[f] = executor[f]
      BY <1>6, <3>1 DEF Terminal
    <3>3. InHand' = InHand
      BY <3>1, <3>2, HandStays
    <3>4. QED BY <1>4, <3>1, <3>3
  <2>4. CASE BeginSend(e)
    <3>0. PICK k \in Plan : k = executor[e].plan
      BY <1>1, <2>4 DEF BeginSend, At
    <3>1. executor[e] # None /\ executor[e].at = "fetched" /\ executor[e].plan = k /\ Holds(e, k)
      BY <2>4, <3>0 DEF BeginSend, At, Holds
    <3>2. ~At(e, "granted") /\ UNCHANGED <<task, gate, page>>
      BY <2>4, <3>1 DEF BeginSend, At, business
    <3>3. CASE Granted(k, executor[e].content)
      <4> DEFINE a == [executor[e] EXCEPT !.at = "granted"]
      <4>1. Sending(k) /\ executor' = [executor EXCEPT ![e] = a]
        BY <1>1, <2>4, <3>1, <3>3 DEF BeginSend, TypeOK
      <4>2. a # None /\ a.plan = k /\ a.at = "granted" /\ a.content = executor[e].content
        BY <1>1, <3>1, AttemptTypes, AttemptFields
      <4>3. /\ executor'[e] = a
            /\ \A f \in Executor \ {e} : executor'[f] = executor[f]
        BY <1>1, <4>1 DEF TypeOK
      <4>4. /\ run[k] # None /\ run[k].status = "running" /\ run[k].stage = "preparing"
            /\ gate[k[1]] = "open" /\ task[k[1]] = executor[e].content
        BY <3>3 DEF Granted
      <4>5. executor[e].content \in Content /\ k[1] \in Task
        BY <1>1, <3>1 DEF AttemptComplete, Plan
      <4>6. InHand' = InHand \union {[plan |-> k, content |-> Wanted[k[1]]]}
        <5>1. InHand' = InHand \union {RightOf(e)'}
          BY <3>2, <4>2, <4>3, HandGains DEF At
        <5>2. RightOf(e)' = [plan |-> k, content |-> executor[e].content]
          BY <4>2, <4>3 DEF RightOf
        <5>3. QED BY <4>4, <4>5, <5>1, <5>2 DEF Wanted
      <4>7. Attemptable(k)
        <5>1. ASSUME NEW p \in Legacy, p[1] = k[1], LegacyRun(p) PROVE ~InWindow(p[2], k[2])
          <6>1. p[2] \in Slot /\ p = <<k[1], p[2]>>
            BY <5>1, ExecutionAssumption DEF Plan
          <6>2. ~Untouched(k)
            BY <1>1, <3>1 DEF Rights, UntouchedIdle
          <6>3. QED BY <5>1, <6>1, <6>2 DEF Untouched
        <5>2. QED BY <4>4, <5>1 DEF Attemptable, Running
      <4>8. k \notin Spent /\ Wanted[k[1]] # None
        BY <4>4, <4>5, <4>7, ExecutionAssumption DEF Spent, Wanted
      <4>9. Spent' = Spent \union {k}
        <5>1. ~Attemptable(k)'
          <6>1. run'[k] = [run[k] EXCEPT !.stage = "sending"] /\ run[k] \in TaskRun
            BY <1>1, <3>1, <4>1, <4>4 DEF Sending, TypeOK
          <6>2. run'[k] # None /\ run'[k].stage = "sending"
            BY <6>1, RunTypes, RunFields
          <6>3. QED BY <6>2 DEF Attemptable, Running
        <5>2. ASSUME NEW j \in Plan, j # k, j \in Spent' PROVE j \in Spent
          <6>1. ~Attemptable(j)'
            BY <5>2 DEF Spent
          <6>2. run'[j] = run[j] /\ \A p \in Legacy : LegacyRun(p)' => LegacyRun(p)
            <7>1. /\ \A p \in Plan \ {k} : run'[p] = run[p]
                  /\ run'[k].status = "running"
              BY <1>1, <3>1, <4>1, <4>4, RunFields DEF Sending, TypeOK
            <7>2. QED BY <5>2, <7>1, ExecutionAssumption DEF LegacyRun
          <6>3. \A p \in Legacy : LegacyRun(p) => LegacyRun(p)'
            <7>1. \A p \in Plan \ {k} : run'[p] = run[p]
              BY <1>1, <3>1, <4>1 DEF Sending, TypeOK
            <7>2. ~LegacyRun(k)
              BY <4>4 DEF LegacyRun
            <7>3. QED BY <7>1, <7>2, ExecutionAssumption DEF LegacyRun
          <6>4. QED BY <3>2, <6>1, <6>2, <5>2 DEF Spent, Attemptable, Running, Exists, InWindow
        <5>3. Spent \subseteq Spent' /\ Spent' \subseteq Plan
          BY SpentStays DEF Spent
        <5>4. k \in Spent'
          BY <3>1, <5>1 DEF Spent
        <5>5. QED BY <5>2, <5>3, <5>4
      <4>10. Wanted' = Wanted
        BY <3>2 DEF Wanted
      <4> HIDE DEF a
      <4>11. Promise!Give(k)
        BY <3>2, <4>6, <4>8, <4>9, <4>10 DEF Promise!Give, page
      <4>12. QED BY <1>3, <3>1, <4>11 DEF Promise!RightNext
    <3>4. CASE ~Granted(k, executor[e].content)
      <4>1. executor' = [executor EXCEPT ![e].at = "done", ![e].result = "failed"]
        BY <2>4, <3>1, <3>4 DEF BeginSend, Failing
      <4>2. /\ ~At(e, "granted")'
            /\ \A f \in Executor \ {e} : executor'[f] = executor[f]
        BY <1>6, <3>1, <4>1 DEF Terminal
      <4>3. InHand' = InHand
        BY <3>2, <4>2, HandStays
      <4>4. QED BY <1>4, <3>2, <4>3
    <3>5. QED BY <3>3, <3>4
  <2>5. CASE Withdraw(e) \/ Press(e)
    <3>1. /\ At(e, "granted") /\ executor[e] # None /\ UNCHANGED <<task, gate, run>>
          /\ Posts(e) \/ UNCHANGED page
      BY <2>5 DEF Withdraw, Press, At, business, server
    <3>2. PICK r \in Terminal : executor' = [executor EXCEPT ![e].at = "done", ![e].result = r]
      BY <2>5, ExecutionAssumption DEF Withdraw, Press, Failing, Terminal
    <3>3. QED BY <1>6, <1>7, <3>1, <3>2
  <2>6. CASE Report(e)
    <3>1. /\ ~At(e, "granted") /\ UNCHANGED page /\ executor'[e] = None
          /\ \A f \in Executor \ {e} : executor'[f] = executor[f]
      BY <1>1, <2>6 DEF Report, At, TypeOK
    <3>2. InHand' = InHand
      BY <3>1, HandStays DEF At
    <3>3. QED BY <1>4, <3>1, <3>2
  <2>7. CASE Crash(e)
    <3>1. /\ executor'[e] = None /\ ~At(e, "granted")'
          /\ \A f \in Executor \ {e} : executor'[f] = executor[f]
          /\ UNCHANGED <<task, gate, run>>
      BY <1>1, <2>7 DEF Crash, At, TypeOK, business, server
    <3>2. CASE At(e, "granted")
      BY <1>7, <2>7, <3>1, <3>2 DEF Crash
    <3>3. CASE ~At(e, "granted")
      BY <1>4, <2>7, <3>1, <3>3, HandStays DEF Crash
    <3>4. QED BY <3>2, <3>3
  <2>8. QED BY <1>11, <2>1, <2>2, <2>3, <2>4, <2>5, <2>6, <2>7 DEF ExecutorStep
<1>12. QED BY <1>8, <1>9, <1>10, <1>11 DEF Next

-----------------------------------------------------------------------------
(* Theorems *)

\* Type correctness of runs, attempts, requests and open transactions of
\* executions.py and run.py under every interleaving and fault.
THEOREM ExecutionTypeOK == Spec => []TypeOK
<1>1. IInv => TypeOK
  BY DEF IInv
<1>2. QED BY <1>1, Inductive, PTL

\* The claim and the right to send of executions.py give at most one send per
\* task and scheduled minute, and none after an attempt of the old version.
THEOREM ExecutionAtMostOnce == Spec => []AtMostOnce
<1>1. IInv => AtMostOnce
  BY DEF IInv, Rights, SpentOnce, UntouchedIdle, Untouched, AtMostOnce
<1>2. QED BY <1>1, Inductive, PTL

\* The message digest kept by claim and checked by begin_send makes what is sent
\* what was claimed.
THEOREM ExecutionSendsWhatWasClaimed == Spec => []SendsWhatWasClaimed
<1>1. IInv => SendsWhatWasClaimed
  BY DEF IInv, Rights, SameMessage, SendsWhatWasClaimed
<1>2. QED BY <1>1, Inductive, PTL

\* finish and expire_runs call a run failed only when nothing was sent for it
\* and no executor is about to.
THEOREM ExecutionFailedMeansUnsent == Spec => []FailedMeansUnsent
<1>1. IInv => FailedMeansUnsent
  BY DEF IInv, Rights, UnsentIdle, Unsent, MaySend, Holds, At, FailedMeansUnsent
<1>2. QED BY <1>1, Inductive, PTL

\* finish and record_receipt give a result that says a message was seen only to a
\* run with the evidence for it, and no message is evidence for two runs.
THEOREM ExecutionEvidenceHolds == Spec => []EvidenceHolds
<1>1. IInvEvidence => EvidenceHolds
  BY DEF IInvEvidence, Evidence
<1>2. QED BY <1>1, InductiveEvidence, PTL

\* No late report, expiry or receipt of executions.py takes a result back.
THEOREM ExecutionResultsAreFinal == Spec => ResultsAreFinal
<1> DEFINE Final ==
      \A k \in Plan : run[k] # None /\ run'[k] # None /\ run[k].status # "running" =>
          \/ run'[k].status = run[k].status
          \/ /\ Rank(run'[k].status) > Rank(run[k].status)
             /\ run'[k].level > run[k].level
             /\ run[k].status # "failed" /\ run'[k].status # "failed"
<1>1. ASSUME IInvEvidence, [Next]_vars PROVE Final
  <2>1. TypeOK /\ ResultsHaveEvidence /\ IInv /\ Evidence
    BY <1>1 DEF IInvEvidence, IInv, Evidence, EvidenceHolds
  <2> SUFFICES ASSUME NEW k \in Plan, run[k] # None, run'[k] # None, run[k].status # "running"
               PROVE  \/ run'[k].status = run[k].status
                      \/ /\ Rank(run'[k].status) > Rank(run[k].status)
                         /\ run'[k].level > run[k].level
                         /\ run[k].status # "failed" /\ run'[k].status # "failed"
    OBVIOUS
  <2>2. run[k] \in TaskRun
    BY <2>1 DEF TypeOK
  <2>3. ~Claimed(k) /\ ~Permitted(k) /\ ~Ended(k) /\ ~Lapsed(k)
    BY DEF Claimed, Permitted, Granted, Ended, Lapsed, Running
  <2>4. ASSUME NEW m \in Plan, NEW l \in Reported, Raised(k, m, l)
        PROVE  \/ run'[k].status = run[k].status
               \/ /\ Rank(run'[k].status) > Rank(run[k].status)
                  /\ run'[k].level > run[k].level
                  /\ run[k].status # "failed" /\ run'[k].status # "failed"
    <3>1. /\ run'[k].level = l /\ l > run[k].level
          /\ run'[k].status = IF l = 1 THEN "accepted" ELSE "success"
      BY <2>2, <2>4, EvidenceFields DEF Raised
    <3>2. run[k].status \in {"success", "accepted", "submitted", "uncertain"}
      BY <2>2, <2>4 DEF Raised, TaskRun, Terminal
    <3>3. l \in 1 .. 3 /\ run[k].level \in Nat
      BY <2>2, ExecutionAssumption DEF Level, TaskRun
    <3>4. /\ run[k].status = "success" => run[k].level >= 2
          /\ run[k].status = "accepted" => run[k].level >= 1
      BY <2>1 DEF ResultsHaveEvidence
    <3>5. /\ Rank("success") = 3 /\ Rank("accepted") = 2
          /\ Rank("submitted") = 1 /\ Rank("uncertain") = 1
      BY DEF Rank
    <3>6. QED BY <3>1, <3>2, <3>3, <3>4, <3>5
  <2>5. QED BY <2>1, <2>3, <2>4, RunMoves, <1>1 DEF Moved
<1>2. QED BY <1>1, InductiveEvidence, PTL DEF Spec, ResultsAreFinal

\* begin_send grants the right to send only for what its user wants at that moment,
\* and within two execution windows of the minute.
THEOREM ExecutionGrantsAreCurrent == Spec => GrantsAreCurrent
<1> DEFINE Current ==
      \A k \in Plan :
          /\ run[k] # None /\ run'[k] # None
          /\ run[k].stage = "preparing" /\ run'[k].stage = "sending"
          => /\ gate[k[1]] = "open" /\ task[k[1]] = run[k].content
             /\ task[k[1]].time = k[2] % Day
             /\ clock - k[2] \in 0 .. 2 * MaxAge
<1>1. ASSUME IInvEvidence, [Next]_vars PROVE Current
  <2>1. TypeOK /\ OnTime /\ IInv /\ Evidence
    BY <1>1 DEF IInvEvidence, IInv, Evidence
  <2> SUFFICES ASSUME NEW k \in Plan, run[k] # None, run'[k] # None,
                      run[k].stage = "preparing", run'[k].stage = "sending"
               PROVE  /\ gate[k[1]] = "open" /\ task[k[1]] = run[k].content
                      /\ task[k[1]].time = k[2] % Day
                      /\ clock - k[2] \in 0 .. 2 * MaxAge
    OBVIOUS
  <2>2. run[k] \in TaskRun
    BY <2>1 DEF TypeOK
  <2>3. ~Claimed(k) /\ run'[k] # run[k]
    BY DEF Claimed
  <2>4. ~Ended(k)
    <3> SUFFICES ASSUME NEW o \in Terminal, run'[k] = Concluded(run[k], o) PROVE FALSE
      BY DEF Ended
    <3>1. run'[k].stage = StageOf[o]
      BY <2>2, RunFields
    <3>2. QED BY <3>1 DEF StageOf, Terminal
  <2>5. ~Lapsed(k)
    BY <2>2, RunFields DEF Lapsed
  <2>6. ~\E m \in Plan, l \in Reported : Raised(k, m, l)
    BY <2>2, RunFields DEF Raised
  <2>7. Permitted(k)
    BY <1>1, <2>1, <2>3, <2>4, <2>5, <2>6, RunMoves DEF Moved
  <2>8. /\ Running(k) /\ gate[k[1]] = "open" /\ task[k[1]] = run[k].content
        /\ clock - run[k].started <= MaxAge
    BY <2>7 DEF Permitted, Granted, Running
  <2>9. /\ run[k].content.time = k[2] % Day
        /\ k[2] <= run[k].started /\ run[k].started <= clock /\ run[k].started - k[2] <= MaxAge
    BY <2>1, <2>8 DEF OnTime
  <2>10. k[2] \in Nat /\ clock \in Nat /\ run[k].started \in Nat /\ MaxAge \in Nat
    BY <2>1, <2>2, SlotNat, TimeAssumption DEF TypeOK, TaskRun, Plan
  <2>11. QED BY <2>8, <2>9, <2>10
<1>2. QED BY <1>1, InductiveEvidence, PTL DEF Spec, GrantsAreCurrent

\* Where write transactions are serial, as the default database's are, a delayed
\* older result never overwrites the summary of a newer run.
THEOREM ExecutionSummaryKeepsNewest ==
    ASSUME Serialized PROVE Spec => SummaryKeepsNewest
<1> DEFINE Newest ==
      \A t \in Task : summary'[t] # summary[t] /\ summary'[t].status \in Terminal =>
          \A s \in Slot : run[<<t, s>>] # None => s <= summary'[t].slot
<1>1. ASSUME IInvEvidence, [Next]_vars PROVE Newest
  <2>1. TypeOK /\ open = {}
    BY <1>1 DEF IInvEvidence, IInv, Evidence, SerialFinish
  <2>2. ASSUME NEW k \in Plan, NEW st, summary' = Summarized(k, st, Newer(k)) PROVE Newest
    <3> SUFFICES ASSUME NEW t \in Task, summary'[t] # summary[t],
                        NEW s \in Slot, run[<<t, s>>] # None
                 PROVE  s <= summary'[t].slot
      OBVIOUS
    <3>1. ~Newer(k) /\ summary' = [summary EXCEPT ![k[1]] = [status |-> st, slot |-> k[2]]]
      BY <2>2 DEF Summarized
    <3>2. t = k[1] /\ summary'[t].slot = k[2]
      BY <2>1, <3>1 DEF TypeOK
    <3>3. ~(s > k[2]) /\ s \in Nat /\ k[2] \in Nat
      BY <3>1, <3>2, SlotNat DEF Newer, Plan
    <3>4. QED BY <3>2, <3>3
  <2>3. CASE UNCHANGED summary
    BY <2>3
  <2>4. ASSUME NEW t \in Task, NEW x, x.status \notin Terminal,
               summary' = [summary EXCEPT ![t] = x]
        PROVE  Newest
    BY <2>1, <2>4 DEF TypeOK
  <2>5. ASSUME NEW t \in Task, Business(t) PROVE Newest
    BY <2>3, <2>4, <2>5 DEF Business, Edit, MoveGate, Remove, server, Terminal
  <2>6. ASSUME NEW e \in Executor, ExecutorStep(e) PROVE Newest
    <3>1. ASSUME NEW t \in Task, Claim(e, t) PROVE Newest
      <4>1. PICK s \in Slot :
              summary' = [summary EXCEPT ![t] = [status |-> "running", slot |-> s]]
        BY <3>1 DEF Claim
      <4>2. [status |-> "running", slot |-> s].status \notin Terminal
        BY DEF Terminal
      <4>3. QED BY <2>4, <4>1, <4>2
    <3>2. CASE ~\E t \in Task : Claim(e, t)
      BY <2>3, <2>6, <3>2 DEF ExecutorStep, Fetch, GiveUp, BeginSend, BeginSendTimesOut, Withdraw,
                              Press, Report, Crash, server
    <3>3. QED BY <3>1, <3>2
  <2>7. CASE ServerStep
    <3>1. ASSUME NEW m \in results, ServeFinish(m) PROVE Newest
      <4>1. m.plan \in Plan
        BY <2>1 DEF TypeOK
      <4>2. QED BY <2>2, <2>3, <3>1, <4>1 DEF ServeFinish, Finishes, server
    <3>2. ASSUME NEW k \in Plan, NEW m \in Plan, NEW l \in Reported, Receipt(k, m, l)
          PROVE  Newest
      BY <2>2, <3>2 DEF Receipt
    <3>3. ASSUME ~\E m \in results : ServeFinish(m),
                 ~\E k, m \in Plan, l \in Reported : Receipt(k, m, l)
          PROVE  UNCHANGED summary
      BY <2>1, <2>7, <3>3 DEF ServerStep, FinishReads, ServeSending, Expire, server
    <3>4. QED BY <2>3, <3>1, <3>2, <3>3
  <2>8. CASE Tick \/ UNCHANGED vars
    BY <2>3, <2>8 DEF Tick, vars, server
  <2>9. QED BY <1>1, <2>5, <2>6, <2>7, <2>8 DEF Next
<1>2. QED BY <1>1, InductiveEvidence, PTL DEF Spec, SummaryKeepsNewest

\* Of every plan the right to send is given at most once, for what the user wants at
\* that moment, and sending uses it up, whatever is delivered twice, lost or late:
\* executions.py and run.py implement SendRight.
THEOREM ExecutionGivesOneRight == Spec => GivesOneRight
<1>1. Init => Promise!RightInit
  <2> SUFFICES ASSUME Init PROVE Promise!RightInit
    OBVIOUS
  <2>1. TypeOK
    BY TypeInit
  <2>2. Wanted \in [Task -> Content \union {None}]
    BY <2>1 DEF Wanted, TypeOK
  <2>3. InHand = {}
    BY DEF Init, InHand, At
  <2>4. Promise!Plan = Plan /\ Spent \subseteq Plan
    BY DEF Promise!Plan, Plan, Spent
  <2>5. sent = [k \in Plan |-> 0] /\ posted = [k \in Plan |-> None]
    BY DEF Init
  <2>6. QED BY <2>2, <2>3, <2>4, <2>5 DEF Promise!RightInit
<1>2. IInvEvidence /\ [Next]_vars => [Promise!RightNext]_(Promise!promise)
  BY PromiseNext
<1>3. QED BY <1>1, <1>2, InductiveEvidence, PTL DEF Spec, GivesOneRight, Promise!RightSpec

\* Both together: begin_send of executions.py gives one right for each plan, for what is
\* wanted at that moment and in time.
THEOREM ExecutionOneCurrentRight == Spec => OneCurrentRight
BY ExecutionGivesOneRight, ExecutionGrantsAreCurrent DEF OneCurrentRight
=============================================================================
