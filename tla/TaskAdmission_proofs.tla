-------------------------- MODULE TaskAdmission_proofs --------------------------
(***************************************************************************)
(* Proofs about TaskAdmission for any users, minutes, day, gap, numbers of *)
(* tasks and of concurrent reconciliations, on either kind of database.    *)
(***************************************************************************)
EXTENDS TaskAdmission, FiniteSetTheorems, TLAPS

-----------------------------------------------------------------------------
(* The inductive invariant *)

\* Numbers above the counter have not been given to a task.
Unborn == \A t \in Task : t > created => task[t] = None

\* The open transaction writes a new row or one of the same owner.
TxnFits == txn # None /\ Exists(txn.task) => task[txn.task].owner = txn.row.owner

\* What it is about to enable is still apart from every enabled task.
TxnSpaced == txn # None /\ txn.row.enabled => SlotFree(txn.row.time, txn.task)

\* What it is about to enable is still within what the owner was once granted.
TxnEntitled ==
    txn # None /\ txn.row.enabled =>
        Cardinality(Enabled(txn.row.owner) \union {txn.task}) <= top[txn.row.owner]

LimitBelowTop == \A u \in User : limit[u] <= top[u]

\* Spacing, in the terms the code checks it in.
FarApart ==
    \A s, t \in Task :
        s # t /\ Exists(s) /\ Exists(t) /\ task[s].enabled /\ task[t].enabled
        => Apart(task[s].time, task[t].time) >= Gap

IInv ==
    /\ TypeOK /\ Unborn
    /\ TxnFits /\ TxnSpaced /\ TxnEntitled /\ LimitBelowTop
    /\ FarApart /\ NeverBeyondEntitlement

-----------------------------------------------------------------------------
(* Records *)

LEMMA RowFields ==
    ASSUME NEW r \in Row
    PROVE  /\ r.owner \in User /\ r.enabled \in BOOLEAN /\ r.time \in Minute
           /\ r.deleting \in BOOLEAN /\ r # None
BY AdmissionAssumption DEF Row

\* Two minutes that are Gap apart round the clock are not met by walking on for
\* less than Gap minutes.
LEMMA WithinReach ==
    ASSUME NEW x \in 0 .. Day - 1, NEW y \in 0 .. Day - 1, Apart(x, y) >= Gap,
           NEW d \in 0 .. Gap - 1
    PROVE  x + d \notin {y, y + Day}
<1>1. Day \in Nat /\ Gap \in Nat
  BY AdmissionAssumption
<1>2. x + d # y
  BY <1>1 DEF Apart
<1>3. x + d # y + Day
  BY <1>1 DEF Apart
<1>4. QED BY <1>2, <1>3

\* Enabling, pausing, deleting and moving a row keep it a row of the same owner.
LEMMA RowUpdate ==
    ASSUME NEW r \in Row
    PROVE  /\ \A e \in BOOLEAN : /\ [r EXCEPT !.enabled = e] \in Row
                                 /\ [r EXCEPT !.enabled = e].owner = r.owner
                                 /\ [r EXCEPT !.enabled = e].time = r.time
                                 /\ [r EXCEPT !.enabled = e].enabled = e
           /\ [r EXCEPT !.deleting = TRUE, !.enabled = FALSE] \in Row
           /\ [r EXCEPT !.deleting = TRUE, !.enabled = FALSE].owner = r.owner
           /\ [r EXCEPT !.deleting = TRUE, !.enabled = FALSE].enabled = FALSE
BY DEF Row

LEMMA RowMoved ==
    ASSUME NEW r \in Row, NEW m \in Minute
    PROVE  /\ [r EXCEPT !.time = m] \in Row
           /\ [r EXCEPT !.time = m].owner = r.owner
           /\ [r EXCEPT !.time = m].time = m
           /\ [r EXCEPT !.time = m].enabled = r.enabled
BY DEF Row

LEMMA RowMade ==
    ASSUME NEW u \in User, NEW m \in Minute
    PROVE  [owner |-> u, enabled |-> TRUE, time |-> m, deleting |-> FALSE] \in Row
BY DEF Row

LEMMA TxnFields ==
    ASSUME NEW x \in [task : Task, row : Row]
    PROVE  x.task \in Task /\ x.row \in Row /\ x # None
BY AdmissionAssumption

LEMMA TxnMade ==
    ASSUME NEW t \in Task, NEW r \in Row
    PROVE  [task |-> t, row |-> r] \in [task : Task, row : Row]
OBVIOUS

LEMMA VisitFields ==
    ASSUME NEW x \in Reconcile
    PROVE  /\ x.user \in User /\ x.limit \in Nat /\ x.listed \in BOOLEAN
           /\ x.excess \subseteq Task /\ x # None
BY AdmissionAssumption DEF Reconcile

LEMMA VisitMade ==
    ASSUME NEW u \in User, NEW l \in Nat
    PROVE  [user |-> u, limit |-> l, listed |-> FALSE, excess |-> {}] \in Reconcile
BY DEF Reconcile

LEMMA VisitUpdate ==
    ASSUME NEW x \in Reconcile, NEW T \in SUBSET Task
    PROVE  /\ [x EXCEPT !.listed = TRUE, !.excess = T] \in Reconcile
           /\ [x EXCEPT !.excess = T] \in Reconcile
BY DEF Reconcile

-----------------------------------------------------------------------------
(* Distances and counts *)

LEMMA ApartSymmetric ==
    ASSUME NEW x \in Minute, NEW y \in Minute
    PROVE  Apart(x, y) = Apart(y, x)
<1>1. x \in Int /\ y \in Int /\ Day \in Int
  BY AdmissionAssumption
<1>2. QED BY <1>1 DEF Apart

LEMMA TaskFinite == IsFiniteSet(Task)
<1>1. 1 \in Int /\ MaxTasks \in Int
  BY AdmissionAssumption
<1>2. IsFiniteSet(1 .. MaxTasks)
  BY <1>1, FS_Interval
<1>3. QED BY <1>2 DEF Task

\* A set of tasks has a size, which its subsets do not exceed.
LEMMA TaskCount ==
    ASSUME NEW S \in SUBSET Task, NEW T \in SUBSET S
    PROVE  Cardinality(S) \in Nat /\ Cardinality(T) \in Nat /\ Cardinality(T) <= Cardinality(S)
<1>1. IsFiniteSet(S)
  BY TaskFinite, FS_Subset
<1>2. QED BY <1>1, FS_Subset, FS_CardinalityType

LEMMA TaskCountAdd ==
    ASSUME NEW S \in SUBSET Task, NEW t \in Task
    PROVE  Cardinality(S \union {t}) <= Cardinality(S) + 1
<1>1. IsFiniteSet(S) /\ Cardinality(S) \in Nat
  BY TaskFinite, FS_Subset, FS_CardinalityType
<1>2. Cardinality(S \union {t}) =
          IF t \in S THEN Cardinality(S) ELSE Cardinality(S) + 1
  BY <1>1, FS_AddElement
<1>3. CASE t \in S
  BY <1>1, <1>2, <1>3
<1>4. CASE t \notin S
  BY <1>1, <1>2, <1>4
<1>5. QED BY <1>3, <1>4

LEMMA EnabledTasks ==
    ASSUME NEW u
    PROVE  Enabled(u) \subseteq Task
BY DEF Enabled, Saved

LEMMA EnabledMember ==
    ASSUME NEW u, NEW t \in Task
    PROVE  t \in Enabled(u) <=> Exists(t) /\ task[t].owner = u /\ task[t].enabled
BY DEF Enabled, Saved

-----------------------------------------------------------------------------
(* Type correctness *)

LEMMA TypeInit == Init => TypeOK
<1>1. SUFFICES ASSUME Init PROVE TypeOK
  OBVIOUS
<1>2. task \in [Task -> Row \union {None}] /\ visit \in [Visit -> Reconcile \union {None}]
  BY <1>1 DEF Init
<1>3. created \in 0 .. MaxTasks /\ edits \in Nat /\ faults \in Nat
  BY <1>1, AdmissionAssumption DEF Init
<1>4. limit \in [User -> Nat] /\ top \in [User -> Nat]
  <2>1. 0 .. MaxLimit \subseteq Nat
    BY AdmissionAssumption
  <2>2. QED BY <1>1, <2>1 DEF Init
<1>5. txn \in [task : Task, row : Row] \union {None}
  BY <1>1 DEF Init
<1>6. QED BY <1>2, <1>3, <1>4, <1>5 DEF TypeOK

\* Pausing a set of tasks.
LEMMA PausedType ==
    ASSUME TypeOK, NEW T
    PROVE  /\ Paused(T) \in [Task -> Row \union {None}]
           /\ \A t \in Task :
                /\ Paused(T)[t] # None =>
                     task[t] # None /\ Paused(T)[t].owner = task[t].owner
                /\ Paused(T)[t] # None /\ Paused(T)[t].enabled => Paused(T)[t] = task[t]
<1>1. SUFFICES ASSUME NEW t \in Task
               PROVE  /\ Paused(T)[t] \in Row \union {None}
                      /\ Paused(T)[t] # None =>
                           task[t] # None /\ Paused(T)[t].owner = task[t].owner
                      /\ Paused(T)[t] # None /\ Paused(T)[t].enabled => Paused(T)[t] = task[t]
  BY DEF Paused
<1>2. task[t] \in Row \union {None}
  BY DEF TypeOK
<1>3. CASE t \in T /\ Exists(t)
  <2>1. PICK r \in Row : r = task[t]
    BY <1>2, <1>3 DEF Exists
  <2>2. Paused(T)[t] = [r EXCEPT !.enabled = FALSE]
    BY <1>3, <2>1 DEF Paused
  <2>3. /\ [r EXCEPT !.enabled = FALSE] \in Row
        /\ [r EXCEPT !.enabled = FALSE].owner = r.owner
        /\ [r EXCEPT !.enabled = FALSE].enabled = FALSE
    BY RowUpdate
  <2>4. QED BY <1>3, <2>1, <2>2, <2>3 DEF Exists
<1>4. CASE ~(t \in T /\ Exists(t))
  <2>1. Paused(T)[t] = task[t]
    BY <1>4 DEF Paused
  <2>2. QED BY <1>2, <2>1
<1>5. QED BY <1>3, <1>4

\* What a transaction under the admission lock will write is a row.
LEMMA AdmitType ==
    ASSUME TypeOK, NEW t \in Task, NEW r \in Row, Admit(t, r)
    PROVE  TypeOK'
<1>1. txn' \in [task : Task, row : Row] \union {None}
  BY TxnMade DEF Admit
<1>2. edits' \in Nat
  BY DEF Admit, Edited, TypeOK
<1>3. QED BY <1>1, <1>2 DEF Admit, TypeOK

LEMMA TypeAdmission == TypeOK /\ Admission => TypeOK'
<1>1. SUFFICES ASSUME TypeOK, Admission PROVE TypeOK'
  OBVIOUS
<1>2. ASSUME NEW u \in User, NEW m \in Minute, Create(u, m) PROVE TypeOK'
  <2>1. created + 1 \in Task
    BY <1>1, <1>2, AdmissionAssumption DEF Create, TypeOK, Task
  <2>2. QED BY <1>1, <1>2, <2>1, RowMade, AdmitType DEF Create
<1>3. ASSUME NEW t \in Task, NEW enabled \in BOOLEAN, SetEnabled(t, enabled) PROVE TypeOK'
  <2>1. task[t] \in Row
    BY <1>1, <1>3 DEF SetEnabled, Exists, TypeOK
  <2>2. [task[t] EXCEPT !.enabled = enabled] \in Row
    BY <2>1, RowUpdate
  <2>3. QED BY <1>1, <1>3, <2>2, AdmitType DEF SetEnabled
<1>4. ASSUME NEW t \in Task, NEW m \in Minute, UpdateTime(t, m) PROVE TypeOK'
  <2>1. task[t] \in Row
    BY <1>1, <1>4 DEF UpdateTime, Exists, TypeOK
  <2>2. [task[t] EXCEPT !.time = m] \in Row
    BY <2>1, RowMoved
  <2>3. QED BY <1>1, <1>4, <2>2, AdmitType DEF UpdateTime
<1>5. CASE Commit
  <2>1. PICK x \in [task : Task, row : Row] : x = txn
    BY <1>1, <1>5 DEF Commit, TypeOK
  <2>2. x.task \in Task /\ x.row \in Row
    BY TxnFields
  <2>3. task' \in [Task -> Row \union {None}]
    BY <1>1, <1>5, <2>1, <2>2 DEF Commit, TypeOK
  <2>4. created' \in 0 .. MaxTasks
    <3>1. x.task \in 0 .. MaxTasks /\ created \in 0 .. MaxTasks
      BY <1>1, <2>2, AdmissionAssumption DEF Task, TypeOK
    <3>2. created' = IF x.task > created THEN x.task ELSE created
      BY <1>5, <2>1 DEF Commit
    <3>3. QED BY <3>1, <3>2
  <2>5. QED BY <1>1, <1>5, <2>3, <2>4 DEF Commit, TypeOK
<1>6. CASE Rollback
  BY <1>1, <1>6 DEF Rollback, Faulted, TypeOK
<1>7. QED BY <1>1, <1>2, <1>3, <1>4, <1>5, <1>6 DEF Admission

LEMMA TypeBare == TypeOK /\ Bare => TypeOK'
<1>1. SUFFICES ASSUME TypeOK, Bare PROVE TypeOK'
  OBVIOUS
<1>2. ASSUME NEW T, Pause(T) PROVE TypeOK'
  <2>1. task' \in [Task -> Row \union {None}]
    BY <1>1, <1>2, PausedType DEF Pause
  <2>2. edits' \in Nat
    BY <1>1, <1>2 DEF Pause, Edited, TypeOK
  <2>3. QED BY <1>1, <1>2, <2>1, <2>2 DEF Pause, TypeOK
<1>3. ASSUME NEW t \in Task, Delete(t) PROVE TypeOK'
  <2>1. task[t] \in Row
    BY <1>1, <1>3 DEF Delete, Exists, TypeOK
  <2>2. [task[t] EXCEPT !.deleting = TRUE, !.enabled = FALSE] \in Row
    BY <2>1, RowUpdate
  <2>3. task' = [task EXCEPT ![t] = [task[t] EXCEPT !.deleting = TRUE, !.enabled = FALSE]]
    BY <1>1, <1>3 DEF Delete, TypeOK
  <2>4. edits' \in Nat
    BY <1>1, <1>3 DEF Delete, Edited, TypeOK
  <2>5. QED BY <1>1, <1>3, <2>2, <2>3, <2>4 DEF Delete, TypeOK
<1>4. ASSUME NEW t \in Task, Remove(t) PROVE TypeOK'
  BY <1>1, <1>4 DEF Remove, TypeOK
<1>5. ASSUME NEW u \in User, NEW l \in 0 .. MaxLimit, LimitChanges(u, l) PROVE TypeOK'
  <2>1. l \in Nat
    BY AdmissionAssumption
  <2>2. limit' \in [User -> Nat] /\ top' \in [User -> Nat]
    BY <1>1, <1>5, <2>1 DEF LimitChanges, TypeOK
  <2>3. edits' \in Nat
    BY <1>1, <1>5 DEF LimitChanges, Edited, TypeOK
  <2>4. QED BY <1>1, <1>5, <2>2, <2>3 DEF LimitChanges, TypeOK
<1>6. QED BY <1>1, <1>2, <1>3, <1>4, <1>5 DEF Bare

LEMMA TypeReconciling == TypeOK /\ Reconciling => TypeOK'
<1>1. SUFFICES ASSUME TypeOK, NEW v \in Visit,
                      (\E u \in User : ReadLimit(v, u)) \/ Advance(v) \/ Break(v)
               PROVE  TypeOK'
  BY DEF Reconciling
<1>2. ASSUME NEW u \in User, ReadLimit(v, u) PROVE TypeOK'
  <2>1. limit[u] \in Nat
    BY <1>1 DEF TypeOK
  <2>2. [user |-> u, limit |-> limit[u], listed |-> FALSE, excess |-> {}] \in Reconcile
    BY <2>1, VisitMade
  <2>3. visit' \in [Visit -> Reconcile \union {None}]
    BY <1>1, <1>2, <2>2 DEF ReadLimit, TypeOK
  <2>4. QED BY <1>1, <1>2, <2>3 DEF ReadLimit, TypeOK
<1>3. CASE ListEnabled(v)
  <2>1. PICK x \in Reconcile : x = visit[v]
    BY <1>1, <1>3 DEF ListEnabled, TypeOK
  <2>2. PICK T \in SUBSET Task : T = Excess(Enabled(visit[v].user), visit[v].limit)
    BY EnabledTasks DEF Excess
  <2>3. [x EXCEPT !.listed = TRUE, !.excess = T] \in Reconcile
    BY VisitUpdate
  <2>4. visit' = [visit EXCEPT ![v] = [x EXCEPT !.listed = TRUE, !.excess = T]]
    BY <1>1, <1>3, <2>1, <2>2 DEF ListEnabled, TypeOK
  <2>5. QED BY <1>1, <1>3, <2>3, <2>4 DEF ListEnabled, TypeOK
<1>4. CASE PauseNext(v)
  <2>1. PICK x \in Reconcile : x = visit[v]
    BY <1>1, <1>4 DEF PauseNext, TypeOK
  <2>2. PICK t : t = Oldest(visit[v].excess)
    OBVIOUS
  <2>3. PICK T \in SUBSET Task : T = visit[v].excess \ {t}
    BY <2>1, VisitFields
  <2>4. [x EXCEPT !.excess = T] \in Reconcile
    BY VisitUpdate
  <2>5. visit' = [visit EXCEPT ![v] = [x EXCEPT !.excess = T]]
    BY <1>1, <1>4, <2>1, <2>2, <2>3 DEF PauseNext, TypeOK
  <2>6. task' \in [Task -> Row \union {None}]
    <3>1. task' = Paused({t})
      BY <1>4, <2>2 DEF PauseNext
    <3>2. QED BY <1>1, <3>1, PausedType
  <2>7. QED BY <1>1, <1>4, <2>4, <2>5, <2>6 DEF PauseNext, TypeOK
<1>5. CASE Leave(v)
  BY <1>1, <1>5 DEF Leave, TypeOK
<1>6. CASE Break(v)
  BY <1>1, <1>6 DEF Break, Faulted, TypeOK
<1>7. QED BY <1>1, <1>2, <1>3, <1>4, <1>5, <1>6 DEF Advance

LEMMA TypeNext == TypeOK /\ [Next]_vars => TypeOK'
<1>1. TypeOK /\ UNCHANGED vars => TypeOK'
  BY DEF vars, TypeOK
<1>2. QED BY <1>1, TypeAdmission, TypeBare, TypeReconciling DEF Next

\* Every reachable state is well typed: rows, transactions and reconciliations
\* under way are what the code keeps, and no limit is negative.
THEOREM AdmissionTypeOK == Spec => []TypeOK
<1>1. QED BY TypeInit, TypeNext, PTL DEF Spec

-----------------------------------------------------------------------------
(* Steps that enable nothing: every enabled row was there before, unchanged. *)

Shrinks ==
    /\ \A t \in Task :
         /\ task'[t] # None => task[t] # None /\ task'[t].owner = task[t].owner
         /\ task'[t] # None /\ task'[t].enabled => task'[t] = task[t]
    /\ UNCHANGED <<created, txn>>

\* A quota that was ever in force stays on record.
Grows == \A u \in User : limit'[u] <= top'[u] /\ top[u] <= top'[u]

LEMMA ShrinkEnabled ==
    ASSUME Shrinks, NEW u
    PROVE  Enabled(u)' \subseteq Enabled(u)
<1>1. SUFFICES ASSUME NEW t \in Enabled(u)' PROVE t \in Enabled(u)
  OBVIOUS
<1>2. t \in Task /\ task'[t] # None /\ task'[t].owner = u /\ task'[t].enabled
  BY <1>1 DEF Enabled, Saved, Exists
<1>3. task'[t] = task[t]
  BY <1>2 DEF Shrinks
<1>4. QED BY <1>2, <1>3 DEF Enabled, Saved, Exists

\* ... and so nothing of the invariant is lost.
LEMMA ShrinkStep ==
    ASSUME IInv, TypeOK', Shrinks, Grows
    PROVE  IInv'
<1>1. TypeOK /\ Unborn /\ TxnFits /\ TxnSpaced /\ TxnEntitled /\ FarApart
      /\ NeverBeyondEntitlement
  BY DEF IInv
<1>2. Unborn'
  BY <1>1 DEF Shrinks, Unborn
<1>3. TxnFits'
  <2>1. SUFFICES ASSUME txn' # None, task'[txn'.task] # None
                 PROVE  task'[txn'.task].owner = txn'.row.owner
    BY DEF TxnFits, Exists
  <2>2. txn' = txn /\ txn \in [task : Task, row : Row]
    BY <1>1, <2>1 DEF Shrinks, TypeOK
  <2>3. txn.task \in Task
    BY <2>2, TxnFields
  <2>4. task[txn.task] # None /\ task'[txn.task].owner = task[txn.task].owner
    BY <2>1, <2>2, <2>3 DEF Shrinks
  <2>5. QED BY <1>1, <2>1, <2>2, <2>4 DEF TxnFits, Exists
<1>4. TxnSpaced'
  <2>1. SUFFICES ASSUME txn' # None, txn'.row.enabled, NEW o \in Task \ {txn'.task},
                        task'[o] # None, task'[o].enabled
                 PROVE  Apart(txn'.row.time, task'[o].time) >= Gap
    BY DEF TxnSpaced, SlotFree, Exists
  <2>2. txn' = txn /\ task'[o] = task[o]
    BY <2>1 DEF Shrinks
  <2>3. QED BY <1>1, <2>1, <2>2 DEF TxnSpaced, SlotFree, Exists
<1>5. TxnEntitled'
  <2>1. SUFFICES ASSUME txn' # None, txn'.row.enabled
                 PROVE  (Cardinality(Enabled(txn.row.owner) \union {txn.task})
                          <= top[txn.row.owner])'
    BY DEF TxnEntitled
  <2>2. txn' = txn /\ txn \in [task : Task, row : Row]
    BY <1>1, <2>1 DEF Shrinks, TypeOK
  <2>3. PICK u \in User : u = txn.row.owner
    BY <2>2, TxnFields, RowFields
  <2>4. PICK k \in Task : k = txn.task
    BY <2>2, TxnFields
  <2>5. Cardinality(Enabled(u) \union {k}) <= top[u]
    BY <1>1, <2>1, <2>2, <2>3, <2>4 DEF TxnEntitled
  <2>6. Enabled(u)' \union {k} \subseteq Enabled(u) \union {k}
    BY ShrinkEnabled
  <2>7. Enabled(u) \union {k} \in SUBSET Task
    BY EnabledTasks
  <2>8. /\ Cardinality(Enabled(u)' \union {k}) <= Cardinality(Enabled(u) \union {k})
        /\ Cardinality(Enabled(u)' \union {k}) \in Nat
        /\ Cardinality(Enabled(u) \union {k}) \in Nat
    BY <2>6, <2>7, TaskCount
  <2>9. top[u] \in Nat /\ top'[u] \in Nat /\ top[u] <= top'[u]
    BY <1>1 DEF TypeOK, Grows
  <2>10. Cardinality(Enabled(u)' \union {k}) <= top'[u]
    BY <2>5, <2>8, <2>9
  <2>11. txn'.row.owner = u /\ txn'.task = k
    BY <2>2, <2>3, <2>4
  <2>12. QED BY <2>10, <2>11 DEF Enabled, Saved, Exists
<1>6. LimitBelowTop'
  BY DEF Grows, LimitBelowTop
<1>7. FarApart'
  <2>1. SUFFICES ASSUME NEW s \in Task, NEW t \in Task, s # t,
                        task'[s] # None, task'[t] # None, task'[s].enabled, task'[t].enabled
                 PROVE  Apart(task'[s].time, task'[t].time) >= Gap
    BY DEF FarApart, Exists
  <2>2. task'[s] = task[s] /\ task'[t] = task[t]
    BY <2>1 DEF Shrinks
  <2>3. QED BY <1>1, <2>1, <2>2 DEF FarApart, Exists
<1>8. NeverBeyondEntitlement'
  <2>1. SUFFICES ASSUME NEW u \in User PROVE Cardinality(Enabled(u)') <= top'[u]
    BY DEF NeverBeyondEntitlement, Enabled, Saved, Exists
  <2>2. Cardinality(Enabled(u)) <= top[u]
    BY <1>1 DEF NeverBeyondEntitlement
  <2>3. /\ Cardinality(Enabled(u)') <= Cardinality(Enabled(u))
        /\ Cardinality(Enabled(u)') \in Nat /\ Cardinality(Enabled(u)) \in Nat
    BY ShrinkEnabled, EnabledTasks, TaskCount
  <2>4. top[u] \in Nat /\ top'[u] \in Nat /\ top[u] <= top'[u]
    BY <1>1 DEF TypeOK, Grows
  <2>5. QED BY <2>2, <2>3, <2>4
<1>9. QED BY <1>2, <1>3, <1>4, <1>5, <1>6, <1>7, <1>8 DEF IInv

\* The limits did not change.
LEMMA LimitsKept ==
    ASSUME IInv, UNCHANGED <<limit, top>>
    PROVE  Grows
<1>1. SUFFICES ASSUME NEW u \in User PROVE limit'[u] <= top'[u] /\ top[u] <= top'[u]
  BY DEF Grows
<1>2. limit[u] \in Nat /\ top[u] \in Nat /\ limit[u] <= top[u]
  BY DEF IInv, TypeOK, LimitBelowTop
<1>3. QED BY <1>2

LEMMA PauseShrinks ==
    ASSUME TypeOK, NEW T, task' = Paused(T), UNCHANGED <<created, txn>>
    PROVE  Shrinks
BY PausedType DEF Shrinks

LEMMA StepBare == IInv /\ Bare => IInv'
<1>1. SUFFICES ASSUME IInv, Bare PROVE IInv'
  OBVIOUS
<1>2. TypeOK /\ TypeOK'
  BY <1>1, TypeBare DEF IInv
<1>3. ASSUME NEW T, Pause(T) PROVE IInv'
  <2>1. Shrinks
    BY <1>2, <1>3, PauseShrinks DEF Pause
  <2>2. Grows
    BY <1>1, <1>3, LimitsKept DEF Pause
  <2>3. QED BY <1>1, <1>2, <2>1, <2>2, ShrinkStep
<1>4. ASSUME NEW t \in Task, Delete(t) PROVE IInv'
  <2>1. PICK r \in Row : r = task[t]
    BY <1>2, <1>4 DEF Delete, Exists, TypeOK
  <2>2. PICK d : d = [r EXCEPT !.deleting = TRUE, !.enabled = FALSE]
    OBVIOUS
  <2>3. d \in Row /\ d.owner = r.owner /\ d.enabled = FALSE
    BY <2>2, RowUpdate
  <2>4. task' = [task EXCEPT ![t] = d]
    BY <1>2, <1>4, <2>1, <2>2 DEF Delete, TypeOK
  <2>5. r # None
    BY RowFields
  <2>6. Shrinks
    BY <1>2, <1>4, <2>1, <2>4, <2>5, <2>3 DEF Shrinks, Delete, TypeOK
  <2>7. Grows
    BY <1>1, <1>4, LimitsKept DEF Delete
  <2>8. QED BY <1>1, <1>2, <2>6, <2>7, ShrinkStep
<1>5. ASSUME NEW t \in Task, Remove(t) PROVE IInv'
  <2>1. Shrinks
    BY <1>2, <1>5 DEF Shrinks, Remove, TypeOK
  <2>2. Grows
    BY <1>1, <1>5, LimitsKept DEF Remove
  <2>3. QED BY <1>1, <1>2, <2>1, <2>2, ShrinkStep
<1>6. ASSUME NEW u \in User, NEW l \in 0 .. MaxLimit, LimitChanges(u, l) PROVE IInv'
  <2>1. Shrinks
    BY <1>6 DEF Shrinks, LimitChanges
  <2>2. Grows
    <3>1. SUFFICES ASSUME NEW x \in User PROVE limit'[x] <= top'[x] /\ top[x] <= top'[x]
      BY DEF Grows
    <3>2. limit[x] \in Nat /\ top[x] \in Nat /\ limit[x] <= top[x] /\ l \in Nat
      BY <1>1, AdmissionAssumption DEF IInv, TypeOK, LimitBelowTop
    <3>3. limit'[x] = IF x = u THEN l ELSE limit[x]
      BY <1>2, <1>6 DEF LimitChanges, TypeOK
    <3>4. top'[x] = IF x = u THEN (IF l > top[x] THEN l ELSE top[x]) ELSE top[x]
      BY <1>2, <1>6 DEF LimitChanges, TypeOK
    <3>5. QED BY <3>2, <3>3, <3>4
  <2>3. QED BY <1>1, <1>2, <2>1, <2>2, ShrinkStep
<1>7. QED BY <1>1, <1>3, <1>4, <1>5, <1>6 DEF Bare

LEMMA StepReconciling == IInv /\ Reconciling => IInv'
<1>1. SUFFICES ASSUME IInv, NEW v \in Visit,
                      (\E u \in User : ReadLimit(v, u)) \/ Advance(v) \/ Break(v)
               PROVE  IInv'
  BY DEF Reconciling
<1>2. TypeOK /\ TypeOK'
  BY <1>1, TypeReconciling DEF IInv, Reconciling
<1>3. UNCHANGED <<limit, top, created, txn>>
  BY <1>1 DEF ReadLimit, Advance, ListEnabled, PauseNext, Leave, Break
<1>4. Grows
  BY <1>1, <1>3, LimitsKept
<1>5. CASE PauseNext(v)
  <2>1. \E T : task' = Paused(T)
    BY <1>5 DEF PauseNext
  <2>2. Shrinks
    BY <1>2, <1>3, <2>1, PauseShrinks
  <2>3. QED BY <1>1, <1>2, <1>4, <2>2, ShrinkStep
<1>6. CASE ~PauseNext(v)
  <2>1. task' = task
    BY <1>1, <1>6 DEF ReadLimit, Advance, ListEnabled, Leave, Break
  <2>2. Shrinks
    BY <1>3, <2>1 DEF Shrinks
  <2>3. QED BY <1>1, <1>2, <1>4, <2>2, ShrinkStep
<1>7. QED BY <1>5, <1>6

-----------------------------------------------------------------------------
(* Writers under the admission lock *)

\* A transaction that checked what it is about to write.
LEMMA AdmitStep ==
    ASSUME IInv, NEW t \in Task, NEW r \in Row, Admit(t, r),
           Exists(t) => task[t].owner = r.owner,
           r.enabled => SlotFree(r.time, t),
           r.enabled => Cardinality(Enabled(r.owner) \union {t}) <= top[r.owner]
    PROVE  IInv'
<1>1. TypeOK'
  BY AdmitType DEF IInv
<1>2. UNCHANGED <<task, created, limit, top>> /\ txn'.task = t /\ txn'.row = r
  BY DEF Admit
<1>3. Unborn' /\ LimitBelowTop'
  BY <1>2 DEF IInv, Unborn, LimitBelowTop
<1>4. TxnFits'
  BY <1>2 DEF TxnFits, Exists
<1>5. TxnSpaced'
  BY <1>2 DEF TxnSpaced, SlotFree, Exists
<1>6. TxnEntitled'
  BY <1>2 DEF TxnEntitled, Enabled, Saved, Exists
<1>7. FarApart'
  BY <1>2 DEF IInv, FarApart, Exists
<1>8. NeverBeyondEntitlement'
  BY <1>2 DEF IInv, NeverBeyondEntitlement, Enabled, Saved, Exists
<1>9. QED BY <1>1, <1>3, <1>4, <1>5, <1>6, <1>7, <1>8 DEF IInv

\* A user with room for one more task may have it.
LEMMA EntitledRoom ==
    ASSUME IInv, NEW u \in User, Entitled(u), NEW t \in Task
    PROVE  Cardinality(Enabled(u) \union {t}) <= top[u]
<1>1. Enabled(u) \in SUBSET Task
  BY EnabledTasks
<1>2. Cardinality(Enabled(u) \union {t}) <= Cardinality(Enabled(u)) + 1
  BY <1>1, TaskCountAdd
<1>3. Cardinality(Enabled(u)) \in Nat
  BY <1>1, TaskCount
<1>4. Cardinality(Enabled(u) \union {t}) \in Nat
  BY <1>1, TaskCount
<1>5. limit[u] \in Nat /\ top[u] \in Nat /\ limit[u] <= top[u]
  BY DEF IInv, TypeOK, LimitBelowTop
<1>6. QED BY <1>2, <1>3, <1>4, <1>5 DEF Entitled

\* A task that is enabled already takes up no further room, nor another slot.
LEMMA EnabledRoom ==
    ASSUME IInv, NEW t \in Task, Exists(t), task[t].enabled
    PROVE  /\ Cardinality(Enabled(task[t].owner) \union {t}) <= top[task[t].owner]
           /\ SlotFree(task[t].time, t)
<1>1. task[t] \in Row
  BY DEF IInv, TypeOK, Exists
<1>2. PICK u \in User : u = task[t].owner
  BY <1>1, RowFields
<1>3. Enabled(u) \union {t} = Enabled(u)
  BY <1>2, EnabledMember
<1>4. Cardinality(Enabled(u)) <= top[u]
  BY DEF IInv, NeverBeyondEntitlement
<1>5. SlotFree(task[t].time, t)
  BY DEF IInv, FarApart, SlotFree
<1>6. QED BY <1>2, <1>3, <1>4, <1>5

\* What was checked before is still true when the transaction commits: nobody
\* has enabled anything since.
LEMMA StepCommit == IInv /\ Commit => IInv'
<1>1. SUFFICES ASSUME IInv, Commit PROVE IInv'
  OBVIOUS
<1>2. TypeOK /\ TypeOK'
  BY <1>1, TypeAdmission DEF IInv, Admission
<1>3. PICK x \in [task : Task, row : Row] : x = txn
  BY <1>1, <1>2 DEF Commit, TypeOK
<1>4. PICK k \in Task : k = txn.task
  BY <1>3, TxnFields
<1>5. PICK r \in Row : r = txn.row
  BY <1>3, TxnFields
<1>6. task' = [task EXCEPT ![k] = r] /\ txn' = None /\ UNCHANGED <<limit, top>>
  BY <1>1, <1>4, <1>5 DEF Commit
<1>7. \A t \in Task : task'[t] = IF t = k THEN r ELSE task[t]
  BY <1>2, <1>6 DEF TypeOK
<1>8. r # None /\ r.owner \in User
  BY RowFields
<1>9. Unborn'
  <2>1. SUFFICES ASSUME NEW t \in Task, t > created' PROVE task'[t] = None
    BY DEF Unborn
  <2>2. created \in Int /\ k \in Int /\ t \in Int
    BY <1>2, AdmissionAssumption DEF TypeOK, Task
  <2>3. created' = IF k > created THEN k ELSE created
    BY <1>1, <1>4 DEF Commit
  <2>4. t # k /\ t > created
    BY <2>1, <2>2, <2>3
  <2>5. task[t] = None
    BY <1>1, <2>4 DEF IInv, Unborn
  <2>6. QED BY <1>7, <2>4, <2>5
<1>10. TxnFits' /\ TxnSpaced' /\ TxnEntitled'
  BY <1>6 DEF TxnFits, TxnSpaced, TxnEntitled
<1>11. LimitBelowTop'
  BY <1>1, <1>6 DEF IInv, LimitBelowTop
<1>12. FarApart'
  <2>1. SUFFICES ASSUME NEW s \in Task, NEW t \in Task, s # t,
                        task'[s] # None, task'[t] # None, task'[s].enabled, task'[t].enabled
                 PROVE  Apart(task'[s].time, task'[t].time) >= Gap
    BY DEF FarApart, Exists
  <2>2. r.enabled => \A o \in Task \ {k} : task[o] # None /\ task[o].enabled
                        => Apart(r.time, task[o].time) >= Gap
    BY <1>1, <1>3, <1>4, <1>5, TxnFields DEF IInv, TxnSpaced, SlotFree, Exists
  <2>3. CASE s = k
    BY <1>7, <2>1, <2>2, <2>3
  <2>4. CASE t = k
    <3>1. task'[t] = r /\ task'[s] = task[s]
      BY <1>7, <2>1, <2>4
    <3>2. Apart(r.time, task[s].time) >= Gap
      BY <2>1, <2>2, <2>4, <3>1
    <3>3. task[s] \in Row
      BY <1>2, <2>1, <3>1 DEF TypeOK
    <3>4. Apart(task[s].time, r.time) = Apart(r.time, task[s].time)
      BY <3>3, RowFields, ApartSymmetric
    <3>5. QED BY <3>1, <3>2, <3>4
  <2>5. CASE s # k /\ t # k
    BY <1>1, <1>7, <2>1, <2>5 DEF IInv, FarApart, Exists
  <2>6. QED BY <2>3, <2>4, <2>5
<1>13. NeverBeyondEntitlement'
  <2>1. SUFFICES ASSUME NEW u \in User PROVE Cardinality(Enabled(u)') <= top'[u]
    BY DEF NeverBeyondEntitlement, Enabled, Saved, Exists
  <2>2. top'[u] = top[u] /\ top[u] \in Nat
    BY <1>2, <1>6 DEF TypeOK
  <2>3. CASE u = r.owner /\ r.enabled
    <3>1. Enabled(u)' \subseteq Enabled(u) \union {k}
      BY <1>7 DEF Enabled, Saved, Exists
    <3>2. Enabled(u) \union {k} \in SUBSET Task
      BY EnabledTasks
    <3>3. Cardinality(Enabled(u) \union {k}) <= top[u]
      BY <1>1, <1>3, <1>4, <1>5, <2>3, TxnFields DEF IInv, TxnEntitled
    <3>4. /\ Cardinality(Enabled(u)') <= Cardinality(Enabled(u) \union {k})
          /\ Cardinality(Enabled(u)') \in Nat
          /\ Cardinality(Enabled(u) \union {k}) \in Nat
      BY <3>1, <3>2, TaskCount
    <3>5. QED BY <2>2, <3>3, <3>4
  <2>4. CASE ~(u = r.owner /\ r.enabled)
    <3>1. Enabled(u)' \subseteq Enabled(u)
      BY <1>7, <2>4 DEF Enabled, Saved, Exists
    <3>2. Cardinality(Enabled(u)) <= top[u]
      BY <1>1 DEF IInv, NeverBeyondEntitlement
    <3>3. /\ Cardinality(Enabled(u)') <= Cardinality(Enabled(u))
          /\ Cardinality(Enabled(u)') \in Nat /\ Cardinality(Enabled(u)) \in Nat
      BY <3>1, EnabledTasks, TaskCount
    <3>4. QED BY <2>2, <3>2, <3>3
  <2>5. QED BY <2>3, <2>4
<1>14. QED BY <1>2, <1>9, <1>10, <1>11, <1>12, <1>13 DEF IInv

LEMMA StepAdmission == IInv /\ Admission => IInv'
<1>1. SUFFICES ASSUME IInv, Admission PROVE IInv'
  OBVIOUS
<1>2. TypeOK /\ TypeOK'
  BY <1>1, TypeAdmission DEF IInv
<1>3. ASSUME NEW u \in User, NEW m \in Minute, Create(u, m) PROVE IInv'
  <2>1. PICK t \in Task : t = created + 1
    BY <1>2, <1>3, AdmissionAssumption DEF Create, TypeOK, Task
  <2>2. ~Exists(t)
    <3>1. created \in Int
      BY <1>2, AdmissionAssumption DEF TypeOK
    <3>2. t > created
      BY <2>1, <3>1
    <3>3. QED BY <1>1, <3>2 DEF IInv, Unborn, Exists
  <2>3. PICK r \in Row : /\ r = [owner |-> u, enabled |-> TRUE, time |-> m, deleting |-> FALSE]
                         /\ r.owner = u /\ r.time = m
    BY RowMade
  <2>4. Cardinality(Enabled(u) \union {t}) <= top[u]
    BY <1>1, <1>3, EntitledRoom DEF Create
  <2>5. SlotFree(m, t) /\ Admit(t, r)
    BY <1>3, <2>1, <2>3 DEF Create
  <2>6. QED BY <1>1, <2>2, <2>3, <2>4, <2>5, AdmitStep
<1>4. ASSUME NEW t \in Task, NEW enabled \in BOOLEAN, SetEnabled(t, enabled) PROVE IInv'
  <2>1. Exists(t) /\ task[t] \in Row
    BY <1>2, <1>4 DEF SetEnabled, Exists, TypeOK
  <2>2. PICK r : r = [task[t] EXCEPT !.enabled = enabled]
    OBVIOUS
  <2>3. r \in Row /\ r.owner = task[t].owner /\ r.time = task[t].time /\ r.enabled = enabled
    BY <2>1, <2>2, RowUpdate
  <2>4. Admit(t, r)
    BY <1>4, <2>2 DEF SetEnabled
  <2>5. r.enabled => SlotFree(r.time, t)
    BY <1>4, <2>3 DEF SetEnabled
  <2>6. r.enabled => Cardinality(Enabled(r.owner) \union {t}) <= top[r.owner]
    <3>1. SUFFICES ASSUME enabled
                   PROVE  Cardinality(Enabled(task[t].owner) \union {t}) <= top[task[t].owner]
      BY <2>3
    <3>2. CASE task[t].enabled
      BY <1>1, <2>1, <3>2, EnabledRoom
    <3>3. CASE ~task[t].enabled
      <4>1. PICK u \in User : u = task[t].owner
        BY <2>1, RowFields
      <4>2. Entitled(u)
        BY <1>4, <3>1, <3>3, <4>1 DEF SetEnabled
      <4>3. QED BY <1>1, <4>1, <4>2, EntitledRoom
    <3>4. QED BY <3>2, <3>3
  <2>7. QED BY <1>1, <2>3, <2>4, <2>5, <2>6, AdmitStep
<1>5. ASSUME NEW t \in Task, NEW m \in Minute, UpdateTime(t, m) PROVE IInv'
  <2>1. Exists(t) /\ task[t] \in Row
    BY <1>2, <1>5 DEF UpdateTime, Exists, TypeOK
  <2>2. PICK r : r = [task[t] EXCEPT !.time = m]
    OBVIOUS
  <2>3. r \in Row /\ r.owner = task[t].owner /\ r.time = m /\ r.enabled = task[t].enabled
    <3>1. PICK old \in Row : old = task[t]
      BY <2>1
    <3>2. QED BY <2>2, <3>1, RowMoved
  <2>4. Admit(t, r)
    BY <1>5, <2>2 DEF UpdateTime
  <2>5. r.enabled => SlotFree(r.time, t)
    BY <1>5, <2>3 DEF UpdateTime
  <2>6. r.enabled => Cardinality(Enabled(r.owner) \union {t}) <= top[r.owner]
    BY <1>1, <2>1, <2>3, EnabledRoom
  <2>7. QED BY <1>1, <2>3, <2>4, <2>5, <2>6, AdmitStep
<1>6. CASE Commit
  BY <1>1, <1>6, StepCommit
<1>7. CASE Rollback
  <2>1. UNCHANGED <<task, created, limit, top>> /\ txn' = None
    BY <1>7 DEF Rollback
  <2>2. TxnFits' /\ TxnSpaced' /\ TxnEntitled'
    BY <2>1 DEF TxnFits, TxnSpaced, TxnEntitled
  <2>3. Unborn' /\ LimitBelowTop'
    BY <1>1, <2>1 DEF IInv, Unborn, LimitBelowTop
  <2>4. FarApart'
    BY <1>1, <2>1 DEF IInv, FarApart, Exists
  <2>5. NeverBeyondEntitlement'
    BY <1>1, <2>1 DEF IInv, NeverBeyondEntitlement, Enabled, Saved, Exists
  <2>6. QED BY <1>2, <2>2, <2>3, <2>4, <2>5 DEF IInv
<1>8. QED BY <1>1, <1>3, <1>4, <1>5, <1>6, <1>7 DEF Admission

-----------------------------------------------------------------------------
(* The invariant and what follows from it *)

LEMMA IInvInit == Init => IInv
<1>1. SUFFICES ASSUME Init PROVE IInv
  OBVIOUS
<1>2. TypeOK
  BY <1>1, TypeInit
<1>3. \A t \in Task : task[t] = None
  BY <1>1 DEF Init
<1>4. Unborn /\ FarApart
  BY <1>3 DEF Unborn, FarApart, Exists
<1>5. TxnFits /\ TxnSpaced /\ TxnEntitled
  BY <1>1 DEF Init, TxnFits, TxnSpaced, TxnEntitled
<1>6. LimitBelowTop
  <2>1. top = limit /\ \A u \in User : limit[u] \in Nat
    BY <1>1, <1>2 DEF Init, TypeOK
  <2>2. QED BY <2>1 DEF LimitBelowTop
<1>7. NeverBeyondEntitlement
  <2>1. SUFFICES ASSUME NEW u \in User PROVE Cardinality(Enabled(u)) <= top[u]
    BY DEF NeverBeyondEntitlement
  <2>2. Enabled(u) = {}
    BY <1>3 DEF Enabled, Saved, Exists
  <2>3. Cardinality(Enabled(u)) = 0
    BY <2>2, FS_EmptySet
  <2>4. top[u] \in Nat
    BY <1>2 DEF TypeOK
  <2>5. QED BY <2>3, <2>4
<1>8. QED BY <1>2, <1>4, <1>5, <1>6, <1>7 DEF IInv

LEMMA Inductive == IInv /\ [Next]_vars => IInv'
<1>1. SUFFICES ASSUME IInv, [Next]_vars PROVE IInv'
  OBVIOUS
<1>2. CASE UNCHANGED vars
  <2>1. Shrinks /\ UNCHANGED <<limit, top>>
    BY <1>2 DEF vars, Shrinks
  <2>2. TypeOK'
    BY <1>1, TypeNext DEF IInv
  <2>3. QED BY <1>1, <2>1, <2>2, LimitsKept, ShrinkStep
<1>3. CASE Next
  BY <1>1, <1>3, StepAdmission, StepBare, StepReconciling DEF Next
<1>4. QED BY <1>1, <1>2, <1>3

\* Two enabled tasks are never closer than the safety distance, whatever
\* requests interleave and on either kind of database.
THEOREM AdmissionSpacing == Spec => []Spacing
<1>1. ASSUME IInv  PROVE  Spacing
  <2>1. SUFFICES ASSUME NEW s \in Task, NEW t \in Task, s # t, Exists(s), Exists(t),
                        task[s].enabled, task[t].enabled, NEW d \in 0 .. Gap - 1
                 PROVE  task[s].time + d \notin {task[t].time, task[t].time + Day}
    BY DEF Spacing
  <2>2. task[s].time \in 0 .. Day - 1 /\ task[t].time \in 0 .. Day - 1
    BY <1>1, <2>1, RowFields, AdmissionAssumption DEF IInv, TypeOK, Exists
  <2>3. Apart(task[s].time, task[t].time) >= Gap
    BY <1>1, <2>1 DEF IInv, FarApart
  <2>4. QED BY <2>2, <2>3, WithinReach
<1>2. QED BY <1>1, IInvInit, Inductive, PTL DEF Spec

\* No user ever has more tasks enabled than some quota of that user allowed.
THEOREM AdmissionNeverBeyondEntitlement == Spec => []NeverBeyondEntitlement
<1>1. IInv => NeverBeyondEntitlement
  BY DEF IInv
<1>2. QED BY <1>1, IInvInit, Inductive, PTL DEF Spec
=============================================================================
