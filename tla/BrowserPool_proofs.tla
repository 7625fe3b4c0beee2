-------------------------- MODULE BrowserPool_proofs --------------------------
(***************************************************************************)
(* Proofs about BrowserPool for any number of sessions, of requests at the *)
(* same time, of browsers and of faults, in both deployments.              *)
(***************************************************************************)
EXTENDS BrowserPool, FiniteSetTheorems, TLAPS

-----------------------------------------------------------------------------
(* The inductive invariant *)

\* The browsers that run and have not escaped the table.
Counted == alive \ lost

\* What a request may rely on at each step: the browser it saw was launched, the
\* one it is about to record was launched for its session, and what it is about
\* to delete it has stopped, or it is known to have failed to.
CallFits(c, running) ==
    /\ c.pc # "idle" => c.s \in Session
    /\ c.seen.pid \in Launched \union {0}
    /\ c.pc \in {"probe", "touch"} => c.seen \in Row
    /\ c.pc = "insert" => c.new \in Launched /\ owner[c.new] = c.s
    /\ mode = "local" /\ c.pc = "delete" => c.seen.pid \notin running

ReqsFit == \A r \in Request : CallFits(req[r], Counted)

Record == [s : Session, seen : Row, old : BOOLEAN]
Round == [pc : {"sleep", "judge", "touch", "stop", "delete"}, todo : SUBSET Record,
          s : Session \union {None}, seen : Row \union {NoRow}]

\* The reaper's snapshot is of rows of browsers that were launched.
ReaperFits ==
    /\ reaper \in Round
    /\ \A t \in reaper.todo : t.seen.pid \in Launched
    /\ reaper.pc \in {"touch", "stop", "delete"} =>
          reaper.s \in Session /\ reaper.seen \in Row /\ reaper.seen.pid \in Launched
    /\ reaper.pc = "delete" => reaper.seen.pid \notin Counted

\* A row names a browser that was launched for its session.
RowsOwned == \A s \in Rows : row[s].pid \in Launched /\ owner[row[s].pid] = s

\* Browsers are numbered in the order of their launch.
Numbered == \E k \in 0 .. MaxPid : Launched = 1 .. k

IInv == /\ TypeOK /\ ReqsFit /\ ReaperFits /\ RowsOwned /\ Numbered
        /\ NoUnknownBrowser /\ OvershootBounded

-----------------------------------------------------------------------------
(* Counting *)

Handling == {r \in Request : Handled(r)}

LEMMA CountsAreNat ==
    /\ IsFiniteSet(Rows) /\ Cardinality(Rows) \in Nat
    /\ IsFiniteSet(Handling) /\ Cardinality(Handling) \in Nat
    /\ Cardinality(Handling) <= Cardinality(Request) /\ Cardinality(Request) \in Nat
<1>1. IsFiniteSet(Session) /\ IsFiniteSet(Request)
  BY PoolAssumption
<1>2. Rows \in SUBSET Session /\ Handling \in SUBSET Request
  BY DEF Rows, Handling
<1>3. IsFiniteSet(Rows) /\ IsFiniteSet(Handling) /\ Cardinality(Handling) <= Cardinality(Request)
  BY <1>1, <1>2, FS_Subset
<1>4. QED BY <1>1, <1>3, FS_CardinalityType

LEMMA CountsAreNatNext ==
    /\ IsFiniteSet(Rows') /\ Cardinality(Rows') \in Nat
    /\ IsFiniteSet(Handling') /\ Cardinality(Handling') \in Nat
    /\ Cardinality(Handling') <= Cardinality(Request)
<1>1. IsFiniteSet(Session) /\ IsFiniteSet(Request)
  BY PoolAssumption
<1>2. Rows' \in SUBSET Session /\ Handling' \in SUBSET Request
  BY DEF Rows, Handling
<1>3. IsFiniteSet(Rows') /\ IsFiniteSet(Handling') /\ Cardinality(Handling') <= Cardinality(Request)
  BY <1>1, <1>2, FS_Subset
<1>4. QED BY <1>1, <1>3, FS_CardinalityType

\* The sum falls when rows and creations only end, ...
LEMMA FewerBounded ==
    ASSUME OvershootBounded, Rows' \subseteq Rows, Handling' \subseteq Handling
    PROVE  OvershootBounded'
<1>1. Cardinality(Rows') <= Cardinality(Rows) /\ Cardinality(Handling') <= Cardinality(Handling)
  BY CountsAreNat, FS_Subset
<1>2. OvershootBounded' <=>
        Cardinality(Rows') + Cardinality(Handling') <= Concurrency - 1 + Cardinality(Request)
  BY DEF OvershootBounded, Handling
<1>3. Cardinality(Rows) + Cardinality(Handling) <= Concurrency - 1 + Cardinality(Request)
  BY DEF OvershootBounded, Handling
<1>4. QED BY <1>1, <1>2, <1>3, CountsAreNat, CountsAreNatNext, PoolAssumption

\* ... may grow while the rows are below the limit, ...
LEMMA BelowLimitBounded ==
    ASSUME Rows' = Rows, Cardinality(Rows) < Concurrency
    PROVE  OvershootBounded'
<1>1. OvershootBounded' <=>
        Cardinality(Rows') + Cardinality(Handling') <= Concurrency - 1 + Cardinality(Request)
  BY DEF OvershootBounded, Handling
<1>2. QED BY <1>1, CountsAreNat, CountsAreNatNext, PoolAssumption

\* ... and stays when a creation becomes a row.
LEMMA InsertBounded ==
    ASSUME OvershootBounded, NEW s, Rows' = Rows \union {s},
           NEW r \in Handling, Handling' \subseteq Handling \ {r}
    PROVE  /\ OvershootBounded'
           /\ Cardinality(Rows) < Concurrency - 1 + Cardinality(Request)
<1>1. Cardinality(Rows') <= Cardinality(Rows) + 1
  <2>1. Cardinality(Rows \union {s}) = IF s \in Rows THEN Cardinality(Rows)
                                        ELSE Cardinality(Rows) + 1
    BY CountsAreNat, FS_AddElement
  <2>2. QED BY <2>1, CountsAreNat
<1>2. IsFiniteSet(Handling \ {r}) /\ Cardinality(Handling \ {r}) = Cardinality(Handling) - 1
  BY CountsAreNat, FS_RemoveElement
<1>3. Cardinality(Handling') <= Cardinality(Handling) - 1
  BY <1>2, FS_Subset
<1>4. OvershootBounded' <=>
        Cardinality(Rows') + Cardinality(Handling') <= Concurrency - 1 + Cardinality(Request)
  BY DEF OvershootBounded, Handling
<1>5. Cardinality(Rows) + Cardinality(Handling) <= Concurrency - 1 + Cardinality(Request)
  BY DEF OvershootBounded, Handling
<1>6. QED BY <1>1, <1>3, <1>4, <1>5, CountsAreNat, CountsAreNatNext, PoolAssumption

\* The next browser is a new one.
LEMMA FreshPid ==
    ASSUME IInv, NEW p \in NextPid
    PROVE  /\ p \in Pid /\ p \notin Launched /\ p \notin alive
           /\ p \in 1 .. MaxPid /\ Launched \union {p} = 1 .. p
<1>1. PICK k \in 0 .. MaxPid : Launched = 1 .. k
  BY DEF IInv, Numbered
<1>2. k \in Nat
  BY <1>1, PoolAssumption
<1>3. Cardinality(Launched) = k
  BY <1>1, <1>2, FS_Interval
<1>4. p = k + 1 /\ p \in Pid
  BY <1>3 DEF NextPid
<1>5. alive \subseteq Launched
  BY DEF IInv, TypeOK
<1>6. Launched \union {p} = 1 .. p
  BY <1>1, <1>2, <1>4
<1>7. p \notin Launched
  BY <1>1, <1>2, <1>4
<1>8. QED BY <1>4, <1>5, <1>6, <1>7 DEF Pid

-----------------------------------------------------------------------------
(* Records *)

LEMMA RowFields ==
    ASSUME NEW x \in Row
    PROVE  x.pid \in Pid /\ x.meta \in Pid /\ x.fresh \in BOOLEAN /\ x # NoRow /\ x.pid # 0
BY PoolAssumption DEF Row, NoRow, Pid

\* A row with another birth or another last_used.
LEMMA RowUpdate ==
    ASSUME NEW x \in Row, NEW m \in Pid, NEW b \in BOOLEAN
    PROVE  /\ [x EXCEPT !.meta = m, !.fresh = b] \in Row
           /\ [x EXCEPT !.meta = m, !.fresh = b].pid = x.pid
           /\ [x EXCEPT !.fresh = b] \in Row
           /\ [x EXCEPT !.fresh = b].pid = x.pid
BY DEF Row

LEMMA NoRowFields ==
    NoRow.pid = 0 /\ [NoRow EXCEPT !.fresh = FALSE] = NoRow
<1>1. NoRow.pid = 0
  BY DEF NoRow
<1>2. NoRow \in [pid : {0}, meta : {0}, fresh : {FALSE}]
  BY DEF NoRow
<1>3. [NoRow EXCEPT !.fresh = FALSE] \in [pid : {0}, meta : {0}, fresh : {FALSE}]
  BY <1>2
<1>4. \A x \in [pid : {0}, meta : {0}, fresh : {FALSE}] : x = NoRow
  <2> SUFFICES ASSUME NEW x \in [pid : {0}, meta : {0}, fresh : {FALSE}] PROVE x = NoRow
    OBVIOUS
  <2>1. x = [pid |-> x.pid, meta |-> x.meta, fresh |-> x.fresh]
    OBVIOUS
  <2>2. x.pid = 0 /\ x.meta = 0 /\ x.fresh = FALSE
    OBVIOUS
  <2>3. QED BY <2>1, <2>2 DEF NoRow
<1>5. QED BY <1>1, <1>2, <1>3, <1>4

LEMMA SnapshotFields ==
    ASSUME IInv, NEW s \in Session
    PROVE  /\ Snapshot(s) \in Row \union {NoRow}
           /\ row[s] # NoRow => Snapshot(s) \in Row
           /\ Snapshot(s).pid = row[s].pid
           /\ Snapshot(s).pid \in Launched \union {0}
<1>1. row[s] \in Row \union {NoRow}
  BY DEF IInv, TypeOK
<1>2. CASE row[s] = NoRow
  <2>1. Snapshot(s) = NoRow
    BY <1>2, NoRowFields DEF Snapshot
  <2>2. QED BY <1>2, <2>1, NoRowFields
<1>3. CASE row[s] # NoRow
  <2>1. row[s] \in Row /\ row[s].pid \in Launched
    BY <1>1, <1>3 DEF IInv, RowsOwned, Rows
  <2>2. PICK x \in Row : x = row[s]
    BY <2>1
  <2>3. x.meta \in Pid
    BY RowFields
  <2>4. [x EXCEPT !.fresh = FALSE] \in Row /\ [x EXCEPT !.fresh = FALSE].pid = x.pid
    BY <2>3, RowUpdate
  <2>5. QED BY <2>1, <2>2, <2>4 DEF Snapshot
<1>4. QED BY <1>2, <1>3

Call0 == [pc : Steps, op : Ops \union {"none"}, s : Session \union {None},
          seen : Row \union {NoRow}, new : 0..MaxPid]

LEMMA ReqFields ==
    ASSUME IInv, NEW r \in Request
    PROVE  /\ req[r] \in Call0 /\ req[r].pc \in Steps /\ req[r].s \in Session \union {None}
           /\ req[r].seen \in Row \union {NoRow} /\ req[r].new \in 0 .. MaxPid
BY DEF IInv, TypeOK, Call0

LEMMA IdleIsCall ==
    Idle \in Call0 /\ Idle.pc = "idle" /\ Idle.seen = NoRow /\ Idle.new = 0
BY PoolAssumption DEF Idle, Call0, Steps

\* Request r is at c next, the others where they were.
LEMMA ReqUpdate ==
    ASSUME IInv, NEW r \in Request, NEW c \in Call0, req' = [req EXCEPT ![r] = c]
    PROVE  /\ req' \in [Request -> Call0] /\ req'[r] = c
           /\ \A q \in Request : q # r => req'[q] = req[q]
BY DEF IInv, TypeOK, Call0

LEMMA GoFields ==
    ASSUME IInv, NEW r \in Request, NEW step \in Steps, Go(r, step)
    PROVE  /\ [req[r] EXCEPT !.pc = step] \in Call0
           /\ req' = [req EXCEPT ![r] = [req[r] EXCEPT !.pc = step]]
           /\ [req[r] EXCEPT !.pc = step].pc = step
           /\ [req[r] EXCEPT !.pc = step].s = req[r].s
           /\ [req[r] EXCEPT !.pc = step].seen = req[r].seen
           /\ [req[r] EXCEPT !.pc = step].new = req[r].new
<1>1. req[r] \in Call0
  BY ReqFields
<1>2. PICK c \in Call0 : c = req[r]
  BY <1>1
<1>3. /\ [c EXCEPT !.pc = step] \in Call0 /\ [c EXCEPT !.pc = step].pc = step
      /\ [c EXCEPT !.pc = step].s = c.s /\ [c EXCEPT !.pc = step].seen = c.seen
      /\ [c EXCEPT !.pc = step].new = c.new
  BY DEF Call0
<1>4. req' = [req EXCEPT ![r] = [req[r] EXCEPT !.pc = step]]
  BY DEF Go, IInv, TypeOK
<1>5. QED BY <1>2, <1>3, <1>4

-----------------------------------------------------------------------------
(* What a step leaves alone *)

\* Browsers keep their sessions, and those that have ended do not run again.
Kept == /\ mode' = mode
        /\ \A p \in Launched : owner'[p] = owner[p]
        /\ Counted' \intersect Launched \subseteq Counted

LEMMA LaunchedGrow == Kept => Launched \subseteq Launched'
BY DEF Kept, Counted, Launched

LEMMA StillFits ==
    ASSUME IInv, Kept, alive' \subseteq Pid, NEW q \in Request, req'[q] = req[q]
    PROVE  CallFits(req[q], Counted)'
<1>1. CallFits(req[q], Counted)
  BY DEF IInv, ReqsFit
<1>2. 0 \notin alive'
  BY PoolAssumption DEF Pid
<1>3. Launched \subseteq Launched'
  BY LaunchedGrow
<1>4. mode = "local" /\ req[q].pc = "delete" /\ req[q].seen.pid \in Launched =>
         req[q].seen.pid \notin Counted'
  BY <1>1 DEF CallFits, Kept, Counted
<1>5. QED BY <1>1, <1>2, <1>3, <1>4 DEF CallFits, Kept, Counted

LEMMA ReaperStillFits ==
    ASSUME IInv, Kept, UNCHANGED reaper
    PROVE  ReaperFits'
<1>1. Launched \subseteq Launched'
  BY LaunchedGrow
<1>2. QED BY <1>1 DEF IInv, ReaperFits, Kept, Counted

\* No row is added, and none names another browser than before.
NoneAdded ==
    \A s \in Session : row'[s] # NoRow => row[s] # NoRow /\ row'[s].pid = row[s].pid

LEMMA RowsStillOwned ==
    ASSUME IInv, Kept, NoneAdded
    PROVE  RowsOwned' /\ Rows' \subseteq Rows
<1>1. Launched \subseteq Launched'
  BY LaunchedGrow
<1>2. QED BY <1>1 DEF IInv, RowsOwned, Rows, NoneAdded, Kept, Counted

LEMMA StillNumbered ==
    ASSUME IInv, owner' = owner
    PROVE  Numbered' /\ Launched' = Launched
BY DEF IInv, Numbered, Launched

\* A request that leaves the rows as they are, or changes what they say of the same
\* browsers, and perhaps stops browsers.
LEMMA QuietCall ==
    ASSUME IInv, NEW r \in Request, NEW c \in Call0, req' = [req EXCEPT ![r] = c],
           CallFits(c, Counted'),
           c.pc \in {"launch", "insert"} => Handled(r) \/ Cardinality(Rows) < Concurrency,
           mode = "local" /\ req[r].pc \in {"insert", "stopOwn"} =>
              \/ c.pc \in {"insert", "stopOwn"} /\ c.new = req[r].new
              \/ req[r].new \notin alive' \ lost',
           row' \in [Session -> Row \union {NoRow}],
           \A s \in Session : row'[s].pid = row[s].pid /\ (row'[s] = NoRow <=> row[s] = NoRow),
           alive' \subseteq alive, lost \subseteq lost', lost' \subseteq Launched,
           calls' \in 0 .. MaxCalls, faults' \in 0 .. MaxFaults, refusedEmpty' \in BOOLEAN,
           UNCHANGED <<mode, reaper, owner, aged>>
    PROVE  IInv' /\ Rows' = Rows
<1>1. /\ req' \in [Request -> Call0] /\ req'[r] = c
      /\ \A q \in Request : q # r => req'[q] = req[q]
  BY ReqUpdate
<1>2. Kept /\ alive' \subseteq Pid /\ Launched' = Launched
  BY StillNumbered DEF Kept, Counted, IInv, TypeOK, Launched
<1>3. TypeOK'
  BY <1>1, <1>2 DEF IInv, TypeOK, Call0
<1>4. ReqsFit'
  <2> SUFFICES ASSUME NEW q \in Request PROVE CallFits(req[q], Counted)'
    BY DEF ReqsFit
  <2>1. CASE q = r
    BY <1>1, <1>2, <2>1 DEF CallFits, Counted
  <2>2. CASE q # r
    BY <1>1, <1>2, <2>2, StillFits
  <2>3. QED BY <2>1, <2>2
<1>5. ReaperFits'
  BY <1>2, ReaperStillFits
<1>6. RowsOwned' /\ Numbered' /\ Rows' = Rows
  BY <1>2, RowsStillOwned, StillNumbered DEF NoneAdded, Rows
<1>7. NoUnknownBrowser'
  <2> SUFFICES ASSUME mode = "local", NEW p \in alive' \ lost'
               PROVE  \/ row'[owner[p]].pid = p
                      \/ \E q \in Request : req'[q].new = p /\ req'[q].pc \in {"insert", "stopOwn"}
    BY DEF NoUnknownBrowser
  <2>1. p \in alive \ lost /\ owner[p] \in Session
    BY DEF IInv, TypeOK, Launched
  <2>2. CASE row[owner[p]].pid = p
    BY <2>1, <2>2
  <2>3. CASE \E q \in Request : req[q].new = p /\ req[q].pc \in {"insert", "stopOwn"}
    BY <1>1, <2>3
  <2>4. QED BY <2>1, <2>2, <2>3 DEF IInv, NoUnknownBrowser
<1>8. OvershootBounded'
  <2>1. CASE Cardinality(Rows) < Concurrency
    BY <1>6, <2>1, BelowLimitBounded
  <2>2. CASE c.pc \in {"launch", "insert"} => Handled(r)
    <3>1. Handling' \subseteq Handling
      BY <1>1, <2>2 DEF Handling, Handled, At
    <3>2. QED BY <1>6, <3>1, FewerBounded DEF IInv
  <2>3. QED BY <2>1, <2>2
<1>9. QED BY <1>3, <1>4, <1>5, <1>6, <1>7, <1>8 DEF IInv

\* A step of nobody's request of the same kind.
LEMMA QuietWorld ==
    ASSUME IInv, ReaperFits', row' \in [Session -> Row \union {NoRow}],
           \A s \in Session : row'[s].pid = row[s].pid /\ (row'[s] = NoRow <=> row[s] = NoRow),
           alive' \subseteq alive, aged' \subseteq Launched, faults' \in 0 .. MaxFaults,
           lost \subseteq lost', lost' \subseteq Launched,
           UNCHANGED <<mode, req, owner, calls, refusedEmpty>>
    PROVE  IInv' /\ Rows' = Rows
<1>1. Kept /\ alive' \subseteq Pid /\ Launched' = Launched
  BY StillNumbered DEF Kept, Counted, IInv, TypeOK, Launched
<1>2. TypeOK'
  BY <1>1 DEF IInv, TypeOK, ReaperFits, Round
<1>3. ReqsFit'
  BY <1>1, StillFits DEF ReqsFit
<1>4. RowsOwned' /\ Numbered' /\ Rows' = Rows
  BY <1>1, RowsStillOwned, StillNumbered DEF NoneAdded, Rows
<1>5. NoUnknownBrowser'
  <2> SUFFICES ASSUME mode = "local", NEW p \in alive' \ lost'
               PROVE  \/ row'[owner[p]].pid = p
                      \/ \E q \in Request : req[q].new = p /\ req[q].pc \in {"insert", "stopOwn"}
    BY DEF NoUnknownBrowser
  <2>1. p \in alive \ lost /\ owner[p] \in Session
    BY DEF IInv, TypeOK, Launched
  <2>2. QED BY <2>1 DEF IInv, NoUnknownBrowser
<1>6. OvershootBounded'
  BY <1>4 DEF IInv, OvershootBounded, Handled, At
<1>7. QED BY <1>2, <1>3, <1>4, <1>5, <1>6 DEF IInv

-----------------------------------------------------------------------------
(* Requests *)

\* What QuietCall asks of the rows, the browsers and the counts when they stay.
LEMMA SameTable ==
    ASSUME IInv
    PROVE  /\ UNCHANGED row => row' \in [Session -> Row \union {NoRow}]
           /\ UNCHANGED lost => lost' \subseteq Launched
           /\ UNCHANGED <<calls, faults, refusedEmpty>> =>
                 /\ calls' \in 0 .. MaxCalls /\ faults' \in 0 .. MaxFaults
                 /\ refusedEmpty' \in BOOLEAN
BY DEF IInv, TypeOK

\* A request that asks for nothing fits.
LEMMA IdleFits ==
    ASSUME NEW running, running \subseteq Pid
    PROVE  Idle \in Call0 /\ CallFits(Idle, running) /\ Idle.pc = "idle"
<1>1. Idle.seen.pid = 0
  BY IdleIsCall, NoRowFields
<1>2. QED BY <1>1, IdleIsCall DEF CallFits, Counted

LEMMA CallStarts ==
    ASSUME IInv, NEW r \in Request, NEW s \in Session, NEW op \in Ops, Call(r, s, op)
    PROVE  IInv' /\ Rows' = Rows
<1> DEFINE next == IF op = "destroy" /\ mode = "cloud" THEN "stop" ELSE AfterRead(s, op, FALSE)
           c == [pc |-> next, op |-> op, s |-> s, new |-> 0, seen |-> Snapshot(s)]
<1>1. /\ At(r, "idle") /\ calls < MaxCalls /\ calls' = calls + 1
      /\ req' = [req EXCEPT ![r] = c]
      /\ UNCHANGED <<mode, reaper, refusedEmpty, faults, row, owner, alive, aged, lost>>
  BY DEF Call
<1>2. next \in {"stop", "probe", "count", "idle"} /\ (next = "probe" => row[s] # NoRow)
  BY DEF AfterRead
<1>3. /\ Snapshot(s) \in Row \union {NoRow}
      /\ row[s] # NoRow => Snapshot(s) \in Row
      /\ Snapshot(s).pid \in Launched \union {0}
  BY SnapshotFields
<1>4. c \in Call0
  <2> HIDE DEF next
  <2>1. next \in Steps
    BY <1>2 DEF Steps
  <2>2. 0 \in 0 .. MaxPid
    BY PoolAssumption
  <2>3. QED BY <1>3, <2>1, <2>2 DEF Call0
<1>5. CallFits(c, Counted')
  BY <1>2, <1>3 DEF CallFits, Counted
<1>6. calls' \in 0 .. MaxCalls
  BY <1>1, PoolAssumption DEF IInv, TypeOK
<1>7. faults' \in 0 .. MaxFaults /\ refusedEmpty' \in BOOLEAN
  BY <1>1 DEF IInv, TypeOK
<1>8. c.pc \notin {"launch", "insert"} /\ req[r].pc \notin {"insert", "stopOwn"}
  BY <1>1, <1>2 DEF At
<1> HIDE DEF c
<1>9. QED BY <1>1, <1>4, <1>5, <1>6, <1>7, <1>8, SameTable, QuietCall

\* A request that only goes on.
LEMMA GoesOn ==
    ASSUME IInv, NEW r \in Request, NEW step \in Steps, Go(r, step),
           step \notin {"insert", "idle", "delete"}, req[r].pc \notin {"idle", "insert", "stopOwn"},
           step = "launch" => Cardinality(Rows) < Concurrency,
           step \in {"probe", "touch"} => req[r].pc \in {"probe", "touch"},
           row' \in [Session -> Row \union {NoRow}],
           \A s \in Session : row'[s].pid = row[s].pid /\ (row'[s] = NoRow <=> row[s] = NoRow),
           UNCHANGED <<mode, reaper, refusedEmpty, calls, faults, owner, alive, aged, lost>>
    PROVE  IInv' /\ Rows' = Rows
<1> DEFINE c == [req[r] EXCEPT !.pc = step]
<1>1. /\ c \in Call0 /\ req' = [req EXCEPT ![r] = c]
      /\ c.pc = step /\ c.s = req[r].s /\ c.seen = req[r].seen /\ c.new = req[r].new
  BY GoFields
<1>2. CallFits(req[r], Counted)
  BY DEF IInv, ReqsFit
<1> HIDE DEF c
<1>3. CallFits(c, Counted')
  BY <1>1, <1>2 DEF CallFits, Counted
<1>4. QED BY <1>1, <1>3, SameTable, QuietCall

\* A request that ends, and may have stopped its browser or left it to itself.
LEMMA Ends ==
    ASSUME IInv, NEW r \in Request, Done(r),
           mode = "local" /\ req[r].pc \in {"insert", "stopOwn"} =>
              req[r].new \notin alive' \ lost',
           lost \subseteq lost', lost' \subseteq Launched, faults' \in 0 .. MaxFaults,
           refusedEmpty' \in BOOLEAN,
           UNCHANGED <<mode, reaper, calls, row, owner, alive, aged>>
    PROVE  IInv' /\ Rows' = Rows
<1>1. alive' \subseteq Pid
  BY DEF IInv, TypeOK, Launched
<1>2. Idle \in Call0 /\ CallFits(Idle, Counted') /\ Idle.pc = "idle"
  BY <1>1, IdleFits DEF Counted
<1>3. req' = [req EXCEPT ![r] = Idle]
  BY DEF Done
<1>4. calls' \in 0 .. MaxCalls /\ row' \in [Session -> Row \union {NoRow}]
  BY DEF IInv, TypeOK
<1> HIDE DEF Idle
<1>5. QED BY <1>2, <1>3, <1>4, QuietCall

LEMMA ReadAgainFits ==
    ASSUME IInv, NEW r \in Request, ReadAgain(r)
    PROVE  IInv' /\ Rows' = Rows
<1> DEFINE s == req[r].s
           c == [req[r] EXCEPT !.pc = "probe", !.seen = Snapshot(s)]
<1>1. /\ At(r, "reread") /\ UNCHANGED <<System, row, owner, alive, aged, lost>>
      /\ UNCHANGED <<mode, reaper, refusedEmpty, calls, faults, row, owner, alive, aged, lost>>
  BY DEF ReadAgain, System
<1>2. s \in Session
  BY <1>1 DEF IInv, ReqsFit, CallFits, Counted, At
<1>3. CASE Done(r)
  BY <1>1, <1>3, SameTable, Ends DEF At
<1>4. CASE ~Done(r)
  <2>1. row[s] # NoRow /\ req' = [req EXCEPT ![r].pc = "probe", ![r].seen = Snapshot(s)]
    BY <1>4 DEF ReadAgain, AfterRead
  <2>2. req' = [req EXCEPT ![r] = c]
    BY <2>1 DEF IInv, TypeOK
  <2>3. PICK x \in Call0 : x = req[r]
    BY ReqFields
  <2>4. /\ Snapshot(s) \in Row \union {NoRow} /\ Snapshot(s) \in Row
        /\ Snapshot(s).pid \in Launched \union {0}
    BY <1>2, <2>1, SnapshotFields
  <2>5. c \in Call0 /\ c.pc = "probe" /\ c.s = s /\ c.seen = Snapshot(s)
    BY <2>3, <2>4 DEF Call0, Steps
  <2>6. CallFits(c, Counted')
    BY <1>2, <2>4, <2>5 DEF CallFits, Counted
  <2> HIDE DEF c
  <2>7. QED BY <1>1, <2>2, <2>5, <2>6, SameTable, QuietCall DEF At
<1>5. QED BY <1>3, <1>4

LEMMA ProbeFits ==
    ASSUME IInv, NEW r \in Request, Probe(r)
    PROVE  IInv' /\ Rows' = Rows
<1>1. /\ At(r, "probe")
      /\ UNCHANGED <<mode, reaper, refusedEmpty, calls, faults, row, owner, alive, aged, lost>>
  BY DEF Probe, System
<1>2. PICK step \in {"granted", "touch", "stop"} : Go(r, step)
  BY DEF Probe
<1>3. step \in Steps
  BY DEF Steps
<1>4. QED BY <1>1, <1>2, <1>3, SameTable, GoesOn DEF At

\* The row that is touched, if it is there still, names the browser it named.
LEMMA TouchRowKeeps ==
    ASSUME IInv, NEW s \in Session, NEW seen \in Row, TouchRow(s, seen)
    PROVE  /\ row' \in [Session -> Row \union {NoRow}]
           /\ \A t \in Session : row'[t].pid = row[t].pid /\ (row'[t] = NoRow <=> row[t] = NoRow)
<1>1. row \in [Session -> Row \union {NoRow}]
  BY DEF IInv, TypeOK
<1>2. CASE row[s] = NoRow
  BY <1>1, <1>2 DEF TouchRow
<1>3. CASE row[s] # NoRow
  <2>1. PICK x \in Row : x = row[s]
    BY <1>1, <1>3
  <2>2. seen.meta \in Pid
    BY RowFields
  <2>3. /\ [x EXCEPT !.meta = seen.meta, !.fresh = TRUE] \in Row
        /\ [x EXCEPT !.meta = seen.meta, !.fresh = TRUE].pid = x.pid
    BY <2>2, RowUpdate
  <2>4. row' = [row EXCEPT ![s] = [x EXCEPT !.meta = seen.meta, !.fresh = TRUE]]
    BY <1>1, <1>3, <2>1 DEF TouchRow
  <2>5. QED BY <1>1, <1>3, <2>1, <2>3, <2>4, RowFields
<1>4. QED BY <1>2, <1>3

LEMMA TouchFits ==
    ASSUME IInv, NEW r \in Request, Touch(r)
    PROVE  IInv' /\ Rows' = Rows
<1>1. /\ At(r, "touch") /\ Go(r, "granted") /\ TouchRow(req[r].s, req[r].seen)
      /\ UNCHANGED <<mode, reaper, refusedEmpty, calls, faults, owner, alive, aged, lost>>
  BY DEF Touch, System
<1>2. req[r].s \in Session /\ req[r].seen \in Row
  BY <1>1 DEF IInv, ReqsFit, CallFits, Counted, At
<1>3. "granted" \in Steps
  BY DEF Steps
<1>4. /\ row' \in [Session -> Row \union {NoRow}]
      /\ \A t \in Session : row'[t].pid = row[t].pid /\ (row'[t] = NoRow <=> row[t] = NoRow)
  BY <1>1, <1>2, TouchRowKeeps
<1>5. QED BY <1>1, <1>3, <1>4, GoesOn DEF At

\* A request stops browsers and goes on.
LEMMA StopsThenGoes ==
    ASSUME IInv, NEW r \in Request, NEW step \in {"delete", "reread"}, Go(r, step),
           req[r].pc \in {"stop", "stopOwn"},
           mode = "local" /\ step = "delete" => req[r].seen.pid \notin alive' \ lost',
           req[r].pc = "stopOwn" => req[r].new \notin alive' \ lost',
           alive' \subseteq alive, lost \subseteq lost', lost' \subseteq Launched,
           faults' \in 0 .. MaxFaults,
           UNCHANGED <<mode, reaper, refusedEmpty, calls, row, owner, aged>>
    PROVE  IInv' /\ Rows' = Rows
<1> DEFINE c == [req[r] EXCEPT !.pc = step]
<1>0. step \in Steps
  BY DEF Steps
<1>1. /\ c \in Call0 /\ req' = [req EXCEPT ![r] = c]
      /\ c.pc = step /\ c.s = req[r].s /\ c.seen = req[r].seen /\ c.new = req[r].new
  BY <1>0, GoFields
<1>2. CallFits(req[r], Counted)
  BY DEF IInv, ReqsFit
<1> HIDE DEF c
<1>3. CallFits(c, Counted')
  BY <1>1, <1>2 DEF CallFits, Counted
<1>4. calls' \in 0 .. MaxCalls /\ refusedEmpty' \in BOOLEAN
  BY DEF IInv, TypeOK
<1>5. QED BY <1>1, <1>3, <1>4, SameTable, QuietCall

LEMMA StopFits ==
    ASSUME IInv, NEW r \in Request, Stop(r) \/ DeleteSession(r) \/ StopOwn(r)
    PROVE  IInv' /\ Rows' = Rows
<1>1. CASE Stop(r)
  BY <1>1, SameTable, StopsThenGoes DEF Stop, StopTree, At, System
<1>2. CASE DeleteSession(r)
  BY <1>2, SameTable, StopsThenGoes DEF DeleteSession, At, System
<1>3. CASE StopOwn(r)
  BY <1>3, SameTable, StopsThenGoes DEF StopOwn, StopTree, At, System
<1>4. QED BY <1>1, <1>2, <1>3

\* What a failed stop leaves running is known to be lost.
LEMMA SparedIsLost ==
    ASSUME IInv, NEW pid, Faulted, SpareTree(pid), UNCHANGED owner
    PROVE  /\ UNCHANGED alive /\ pid \notin alive' \ lost'
           /\ lost \subseteq lost' /\ lost' \subseteq Launched
           /\ Counted' \subseteq Counted /\ faults' \in 0 .. MaxFaults
BY PoolAssumption DEF IInv, TypeOK, Faulted, SpareTree, Counted

LEMMA StopFailsFits ==
    ASSUME IInv, NEW r \in Request, StopFails(r) \/ StopOwnFails(r)
    PROVE  IInv' /\ Rows' = Rows
<1>1. CASE StopFails(r)
  BY <1>1, SparedIsLost, StopsThenGoes DEF StopFails, At
<1>2. CASE StopOwnFails(r)
  <2>1. lost' \subseteq Launched /\ refusedEmpty' \in BOOLEAN
    BY <1>2, SparedIsLost DEF StopOwnFails, IInv, TypeOK
  <2>2. QED BY <1>2, <2>1, SparedIsLost, Ends DEF StopOwnFails, At
<1>3. QED BY <1>1, <1>2

LEMMA CountFits ==
    ASSUME IInv, NEW r \in Request, Count(r)
    PROVE  IInv' /\ Rows' = Rows
<1>1. /\ At(r, "count")
      /\ UNCHANGED <<mode, reaper, calls, faults, row, owner, alive, aged, lost>>
  BY DEF Count
<1>2. CASE Full
  <2>1. Done(r) /\ refusedEmpty' \in BOOLEAN
    BY <1>2 DEF Count, IInv, TypeOK
  <2>2. QED BY <1>1, <2>1, SameTable, Ends DEF At, IInv, TypeOK
<1>3. CASE ~Full
  <2>1. Go(r, "launch") /\ UNCHANGED refusedEmpty
    BY <1>3 DEF Count
  <2>2. Cardinality(Rows) < Concurrency
    BY <1>3, CountsAreNat, PoolAssumption DEF Full
  <2>3. "launch" \in Steps
    BY DEF Steps
  <2>4. QED BY <1>1, <2>1, <2>2, <2>3, SameTable, GoesOn DEF At
<1>4. QED BY <1>2, <1>3

LEMMA UseFits ==
    ASSUME IInv, NEW r \in Request, Connect(r) \/ Release(r)
    PROVE  IInv' /\ Rows' = Rows
<1>1. /\ At(r, "granted") \/ At(r, "using")
      /\ UNCHANGED <<mode, reaper, refusedEmpty, calls, faults, row, owner, alive, aged, lost>>
  BY DEF Connect, Release, System
<1>2. Done(r) \/ (Go(r, "using") /\ At(r, "granted"))
  BY DEF Connect, Release
<1>3. CASE Done(r)
  BY <1>1, <1>3, SameTable, Ends DEF At
<1>4. CASE Go(r, "using")
  <2>1. "using" \in Steps
    BY DEF Steps
  <2>2. QED BY <1>1, <1>4, <2>1, SameTable, GoesOn DEF At
<1>5. QED BY <1>2, <1>3, <1>4

\* A delete takes the row of its session, and with it the name of the browser that
\* the row names by then; the one it is meant for has been stopped.
LEMMA DeleteRowFits ==
    ASSUME IInv, NEW s \in Session, NEW seen, DeleteRow(s, seen),
           mode = "local" => seen.pid \notin Counted,
           UNCHANGED <<mode, owner, alive>>
    PROVE  /\ row' \in [Session -> Row \union {NoRow}]
           /\ lost \subseteq lost' /\ lost' \subseteq Launched
           /\ NoneAdded /\ Rows' = Rows \ {s}
           /\ mode = "local" => \A p \in alive \ lost' :
                 row[owner[p]].pid = p => row'[owner[p]].pid = p
<1>1. row \in [Session -> Row \union {NoRow}] /\ lost \subseteq Launched /\ alive \subseteq Launched
  BY DEF IInv, TypeOK
<1>2. \A t \in Session : row'[t] = IF t = s THEN NoRow ELSE row[t]
  BY <1>1 DEF DeleteRow
<1>3. row' \in [Session -> Row \union {NoRow}]
  BY <1>1 DEF DeleteRow
<1>4. NoneAdded /\ Rows' = Rows \ {s}
  BY <1>2 DEF NoneAdded, Rows
<1>5. lost \subseteq lost' /\ lost' \subseteq Launched
  BY <1>1 DEF DeleteRow, IInv, RowsOwned, Rows
<1>6. ASSUME mode = "local", NEW p \in alive \ lost', row[owner[p]].pid = p
      PROVE  row'[owner[p]].pid = p
  <2>1. owner[p] \in Session /\ p # 0
    BY <1>1, PoolAssumption DEF IInv, TypeOK, Launched, Pid
  <2>2. CASE owner[p] = s
    <3>1. row[s] # NoRow /\ row[s].pid = p
      BY <1>6, <2>1, <2>2, NoRowFields
    <3>2. p # seen.pid
      BY <1>5, <1>6 DEF Counted
    <3>3. lost' = lost \union {row[s].pid}
      BY <1>6, <3>1, <3>2 DEF DeleteRow
    <3>4. QED BY <1>6, <3>1, <3>3
  <2>3. CASE owner[p] # s
    BY <1>2, <1>6, <2>1, <2>3
  <2>4. QED BY <2>2, <2>3
<1>7. QED BY <1>3, <1>4, <1>5, <1>6

LEMMA DeleteFits ==
    ASSUME IInv, NEW r \in Request, Delete(r)
    PROVE  IInv' /\ \E s \in Session : Rows' = Rows \ {s}
<1> DEFINE s == req[r].s
           c == [req[r] EXCEPT !.pc = "count", !.seen = NoRow]
<1>1. /\ At(r, "delete") /\ DeleteRow(s, req[r].seen)
      /\ UNCHANGED <<mode, reaper, refusedEmpty, calls, faults, owner, alive, aged>>
  BY DEF Delete, System
<1>2. s \in Session /\ (mode = "local" => req[r].seen.pid \notin Counted)
  BY <1>1 DEF IInv, ReqsFit, CallFits, Counted, At
<1>3. /\ row' \in [Session -> Row \union {NoRow}]
      /\ lost \subseteq lost' /\ lost' \subseteq Launched
      /\ NoneAdded /\ Rows' = Rows \ {s}
      /\ mode = "local" => \A p \in alive \ lost' :
            row[owner[p]].pid = p => row'[owner[p]].pid = p
  BY <1>1, <1>2, DeleteRowFits
<1>4. PICK d \in Call0 : /\ req' = [req EXCEPT ![r] = d] /\ CallFits(d, Counted)
                         /\ d.pc \in {"count", "idle"}
  <2>1. CASE Done(r)
    <3>1. Idle \in Call0 /\ CallFits(Idle, Counted) /\ Idle.pc = "idle"
      BY IdleFits DEF Counted, IInv, TypeOK, Launched
    <3>2. QED BY <2>1, <3>1 DEF Done
  <2>2. CASE req' = [req EXCEPT ![r].pc = "count", ![r].seen = NoRow]
    <3>1. PICK x \in Call0 : x = req[r]
      BY ReqFields
    <3>2. c \in Call0 /\ c.pc = "count" /\ c.s = s /\ c.seen = NoRow
      BY <3>1 DEF Call0, Steps
    <3>3. req' = [req EXCEPT ![r] = c]
      BY <2>2 DEF IInv, TypeOK
    <3>4. CallFits(c, Counted)
      BY <1>2, <3>2, NoRowFields DEF CallFits, Counted
    <3> HIDE DEF c
    <3>5. QED BY <3>2, <3>3, <3>4
  <2>3. QED BY <2>1, <2>2 DEF Delete
<1>5. /\ req' \in [Request -> Call0] /\ req'[r] = d
      /\ \A q \in Request : q # r => req'[q] = req[q]
  BY <1>4, ReqUpdate
<1>6. Kept /\ alive' \subseteq Pid /\ Launched' = Launched
  BY <1>1, <1>3, StillNumbered DEF Kept, Counted, IInv, TypeOK, Launched
<1>7. TypeOK'
  BY <1>1, <1>3, <1>5, <1>6 DEF IInv, TypeOK, Call0
<1>8. ReqsFit'
  <2> SUFFICES ASSUME NEW q \in Request PROVE CallFits(req[q], Counted)'
    BY DEF ReqsFit
  <2>1. CASE q = r
    BY <1>1, <1>4, <1>5, <1>6, <2>1 DEF CallFits, Counted
  <2>2. CASE q # r
    BY <1>5, <1>6, <2>2, StillFits
  <2>3. QED BY <2>1, <2>2
<1>9. ReaperFits' /\ RowsOwned' /\ Numbered'
  BY <1>1, <1>3, <1>6, ReaperStillFits, RowsStillOwned, StillNumbered
<1>10. NoUnknownBrowser'
  <2> SUFFICES ASSUME mode = "local", NEW p \in alive \ lost'
               PROVE  \/ row'[owner[p]].pid = p
                      \/ \E q \in Request : req'[q].new = p /\ req'[q].pc \in {"insert", "stopOwn"}
    BY <1>1 DEF NoUnknownBrowser
  <2>1. p \in alive \ lost
    BY <1>3
  <2>2. CASE row[owner[p]].pid = p
    BY <1>3, <2>2
  <2>3. CASE \E q \in Request : req[q].new = p /\ req[q].pc \in {"insert", "stopOwn"}
    BY <1>1, <1>5, <2>3 DEF At
  <2>4. QED BY <2>1, <2>2, <2>3 DEF IInv, NoUnknownBrowser
<1>11. OvershootBounded'
  <2>1. Handling' \subseteq Handling
    BY <1>4, <1>5 DEF Handling, Handled, At
  <2>2. QED BY <1>3, <2>1, FewerBounded DEF IInv
<1>12. QED BY <1>2, <1>3, <1>7, <1>8, <1>9, <1>10, <1>11 DEF IInv

\* The browser that starts for a session is new, or runs for it already.
LEMMA BrowserStarts ==
    ASSUME IInv, NEW s \in Session, NEW p \in NextPid \union Running(s),
           alive' = alive \union {p}, owner' = [owner EXCEPT ![p] = s], UNCHANGED <<mode, lost>>
    PROVE  /\ Kept /\ Numbered' /\ p \in Launched' /\ owner'[p] = s
           /\ owner' \in [Pid -> Session \union {None}] /\ alive' \subseteq Launched'
           /\ Launched \subseteq Launched' /\ p \in 0 .. MaxPid
<1>1. owner \in [Pid -> Session \union {None}] /\ alive \subseteq Launched /\ Launched \subseteq Pid
  BY DEF IInv, TypeOK, Launched
<1>2. p \in Pid
  BY <1>1, FreshPid DEF Running
<1>3. owner' \in [Pid -> Session \union {None}] /\ owner'[p] = s
  BY <1>1, <1>2
<1>4. \A q \in Pid : owner'[q] = IF q = p THEN s ELSE owner[q]
  BY <1>1, <1>2
<1>5. Launched' = Launched \union {p}
  BY <1>2, <1>4, PoolAssumption DEF Launched
<1>6. Kept /\ Numbered'
  <2>1. CASE p \in NextPid
    <3>1. p \notin Launched /\ Launched \union {p} = 1 .. p /\ p \in 0 .. MaxPid
      BY <2>1, FreshPid, PoolAssumption
    <3>2. Numbered'
      BY <1>5, <3>1 DEF Numbered
    <3>3. Kept
      BY <1>1, <1>4, <3>1 DEF Kept, Counted
    <3>4. QED BY <3>2, <3>3
  <2>2. CASE p \in Running(s)
    <3>1. p \in alive /\ owner[p] = s
      BY <2>2 DEF Running
    <3>2. Launched' = Launched
      BY <1>1, <1>5, <3>1
    <3>3. QED BY <1>1, <1>4, <3>1, <3>2 DEF Kept, Counted, IInv, Numbered
  <2>3. QED BY <2>1, <2>2
<1>7. p \in 0 .. MaxPid
  BY <1>2, PoolAssumption DEF Pid
<1>8. QED BY <1>1, <1>3, <1>5, <1>6, <1>7

\* A browser starts, and the request is to record it or has given up.
LEMMA StartedFits ==
    ASSUME IInv, NEW r \in Request, At(r, "launch"), NEW p \in NextPid \union Running(req[r].s),
           alive' = alive \union {p}, owner' = [owner EXCEPT ![p] = req[r].s],
           NEW c \in Call0, req' = [req EXCEPT ![r] = c],
           \/ c.pc = "insert" /\ c.new = p /\ c.s = req[r].s /\ c.seen = req[r].seen
           \/ mode = "cloud" /\ c = Idle,
           UNCHANGED <<mode, reaper, refusedEmpty, calls, faults, row, aged, lost>>
    PROVE  IInv' /\ Rows' = Rows
<1>1. req[r].s \in Session
  BY DEF IInv, ReqsFit, CallFits, Counted, At
<1>2. /\ Kept /\ Numbered' /\ p \in Launched' /\ owner'[p] = req[r].s
      /\ owner' \in [Pid -> Session \union {None}] /\ alive' \subseteq Launched'
      /\ Launched \subseteq Launched' /\ p \in 0 .. MaxPid
  BY <1>1, BrowserStarts
<1>3. /\ req' \in [Request -> Call0] /\ req'[r] = c
      /\ \A q \in Request : q # r => req'[q] = req[q]
  BY ReqUpdate
<1>4. TypeOK'
  BY <1>2, <1>3 DEF IInv, TypeOK, Call0
<1>5. ReqsFit'
  <2> SUFFICES ASSUME NEW q \in Request PROVE CallFits(req[q], Counted)'
    BY DEF ReqsFit
  <2>1. alive' \subseteq Pid
    BY <1>2 DEF Launched
  <2>2. CASE q # r
    BY <1>2, <1>3, <2>1, <2>2, StillFits
  <2>3. CASE q = r /\ c = Idle
    <3>1. c.seen.pid = 0 /\ c.pc = "idle"
      BY <2>3, IdleIsCall, NoRowFields
    <3>2. QED BY <1>3, <2>3, <3>1 DEF CallFits, Counted
  <2>4. CASE q = r /\ c # Idle
    <3>1. req[r].seen.pid \in Launched \union {0}
      BY DEF IInv, ReqsFit, CallFits, Counted
    <3>2. QED BY <1>1, <1>2, <1>3, <2>4, <3>1 DEF CallFits, Counted
  <2>5. QED BY <2>2, <2>3, <2>4
<1>6. ReaperFits' /\ RowsOwned' /\ Rows' = Rows
  BY <1>2, ReaperStillFits, RowsStillOwned DEF NoneAdded, Rows
<1>7. NoUnknownBrowser'
  <2> SUFFICES ASSUME mode = "local", NEW x \in alive' \ lost
               PROVE  \/ row[owner'[x]].pid = x
                      \/ \E q \in Request : req'[q].new = x /\ req'[q].pc \in {"insert", "stopOwn"}
    BY DEF NoUnknownBrowser
  <2>1. mode # "cloud"
    OBVIOUS
  <2>2. CASE x = p
    BY <1>3, <2>1, <2>2
  <2>3. CASE x # p
    <3>1. x \in alive \ lost /\ owner'[x] = owner[x]
      BY <1>2, <2>3 DEF Kept, Counted, IInv, TypeOK
    <3>2. CASE row[owner[x]].pid = x
      BY <3>1, <3>2
    <3>3. CASE \E q \in Request : req[q].new = x /\ req[q].pc \in {"insert", "stopOwn"}
      BY <1>3, <3>3 DEF At
    <3>4. QED BY <3>1, <3>2, <3>3 DEF IInv, NoUnknownBrowser
  <2>4. QED BY <2>2, <2>3
<1>8. OvershootBounded'
  <2>1. Handling' \subseteq Handling
    BY <1>3 DEF Handling, Handled, At
  <2>2. QED BY <1>6, <2>1, FewerBounded DEF IInv
<1>9. QED BY <1>2, <1>4, <1>5, <1>6, <1>7, <1>8 DEF IInv

LEMMA LaunchFits ==
    ASSUME IInv, NEW r \in Request, Launch(r) \/ Start(r)
    PROVE  IInv' /\ Rows' = Rows
<1>1. /\ At(r, "launch")
      /\ UNCHANGED <<mode, reaper, refusedEmpty, calls, faults, row, aged, lost>>
  BY DEF Launch, Start, System
<1>2. ASSUME NEW p \in NextPid \union Running(req[r].s), Started(r, p) PROVE IInv' /\ Rows' = Rows
  <2> DEFINE c == [req[r] EXCEPT !.pc = "insert", !.new = p]
  <2>1. PICK x \in Call0 : x = req[r]
    BY ReqFields
  <2>2. p \in 0 .. MaxPid
    <3>1. Running(req[r].s) \subseteq Pid
      BY DEF Running, IInv, TypeOK, Launched
    <3>2. p \in Pid
      BY <3>1, FreshPid
    <3>3. QED BY <3>2, PoolAssumption DEF Pid
  <2>3. c \in Call0 /\ c.pc = "insert" /\ c.new = p /\ c.s = req[r].s /\ c.seen = req[r].seen
    BY <2>1, <2>2 DEF Call0, Steps
  <2>4. req' = [req EXCEPT ![r] = c]
    BY <1>2 DEF Started, IInv, TypeOK
  <2>5. alive' = alive \union {p} /\ owner' = [owner EXCEPT ![p] = req[r].s]
    BY <1>2 DEF Started
  <2> HIDE DEF c
  <2>6. QED BY <1>1, <2>3, <2>4, <2>5, StartedFits
<1>3. ASSUME NEW p \in NextPid \union Running(req[r].s), Done(r), mode = "cloud",
             alive' = alive \union {p}, owner' = [owner EXCEPT ![p] = req[r].s]
      PROVE  IInv' /\ Rows' = Rows
  <2>1. Idle \in Call0 /\ req' = [req EXCEPT ![r] = Idle]
    BY <1>3, IdleIsCall DEF Done
  <2> HIDE DEF Idle
  <2>2. QED BY <1>1, <1>3, <2>1, StartedFits
<1>4. CASE Done(r) /\ UNCHANGED <<owner, alive>>
  BY <1>1, <1>4, SameTable, Ends DEF At, IInv, TypeOK
<1>5. CASE Launch(r)
  BY <1>2, <1>4, <1>5 DEF Launch
<1>6. CASE Start(r)
  BY <1>2, <1>3, <1>4, <1>6 DEF Start
<1>7. QED BY <1>5, <1>6

\* The row a browser is recorded in, and what the request knows of it.
LEMMA NewRow ==
    ASSUME NEW p \in Pid, NEW b \in BOOLEAN
    PROVE  /\ [pid |-> p, meta |-> p, fresh |-> b] \in Row
           /\ [[pid |-> p, meta |-> p, fresh |-> b] EXCEPT !.fresh = FALSE] \in Row
           /\ [[pid |-> p, meta |-> p, fresh |-> b] EXCEPT !.fresh = FALSE].pid = p
<1>1. [pid |-> p, meta |-> p, fresh |-> b] \in Row
  BY DEF Row
<1>2. PICK x \in Row : x = [pid |-> p, meta |-> p, fresh |-> b]
  BY <1>1
<1>3. x.pid = p
  BY <1>2
<1>4. [x EXCEPT !.fresh = FALSE] \in Row /\ [x EXCEPT !.fresh = FALSE].pid = x.pid
  BY DEF Row
<1>5. QED BY <1>2, <1>3, <1>4

LEMMA InsertFits ==
    ASSUME IInv, NEW r \in Request, Insert(r)
    PROVE  IInv' /\ \/ Rows' = Rows
                    \/ \E s \in Session :
                          /\ Rows' = Rows \union {s}
                          /\ Cardinality(Rows) < Concurrency - 1 + Cardinality(Request)
<1> DEFINE s == req[r].s
           p == req[r].new
           new == [pid |-> p, meta |-> p, fresh |-> mode = "local"]
           step == IF row[s] = NoRow THEN "granted" ELSE OnConflict
           c == [req[r] EXCEPT !.pc = step, !.seen = [new EXCEPT !.fresh = FALSE]]
<1>1. /\ At(r, "insert")
      /\ UNCHANGED <<mode, reaper, refusedEmpty, calls, faults, owner, alive, aged, lost>>
  BY DEF Insert, System
<1>2. s \in Session /\ p \in Launched /\ owner[p] = s /\ p \in Pid
  BY <1>1 DEF IInv, ReqsFit, CallFits, Counted, At, Launched
<1>3. new \in Row /\ [new EXCEPT !.fresh = FALSE] \in Row /\ [new EXCEPT !.fresh = FALSE].pid = p
  BY <1>2, NewRow
<1>4. step \in {"granted", "stopOwn"} /\ step \in Steps
  BY DEF OnConflict, Steps
<1>5. c \in Call0 /\ c.pc = step /\ c.s = s /\ c.new = p /\ c.seen = [new EXCEPT !.fresh = FALSE]
  <2>1. PICK x \in Call0 : x = req[r]
    BY ReqFields
  <2> HIDE DEF new, step
  <2>2. QED BY <1>3, <1>4, <2>1 DEF Call0
<1>6. req' = [req EXCEPT ![r] = c]
  BY DEF Insert, IInv, TypeOK
<1>7. CallFits(c, Counted)
  <2> HIDE DEF c, new, step
  <2>1. QED BY <1>2, <1>3, <1>4, <1>5 DEF CallFits, Counted
<1>8. CASE row[s] # NoRow
  <2>1. UNCHANGED row /\ (mode = "local" => step = "stopOwn")
    BY <1>8 DEF Insert, OnConflict
  <2> HIDE DEF c, new, step
  <2>2. CallFits(c, Counted')
    BY <1>1, <1>7 DEF CallFits, Counted
  <2>3. QED BY <1>1, <1>4, <1>5, <1>6, <2>1, <2>2, SameTable, QuietCall
<1>9. CASE row[s] = NoRow
  <2>1. row' = [row EXCEPT ![s] = new] /\ row \in [Session -> Row \union {NoRow}]
    BY <1>9 DEF Insert, IInv, TypeOK
  <2>2. \A t \in Session : row'[t] = IF t = s THEN new ELSE row[t]
    BY <1>2, <2>1
  <2>3. row' \in [Session -> Row \union {NoRow}]
    BY <1>3, <2>1
  <2>4. new # NoRow /\ new.pid = p
    BY <1>3, RowFields
  <2> HIDE DEF c, new, step
  <2>5. Rows' = Rows \union {s}
    BY <1>2, <2>2, <2>4 DEF Rows
  <2>6. /\ req' \in [Request -> Call0] /\ req'[r] = c
        /\ \A q \in Request : q # r => req'[q] = req[q]
    BY <1>5, <1>6, ReqUpdate
  <2>7. Kept /\ alive' \subseteq Pid /\ Launched' = Launched
    BY <1>1, StillNumbered DEF Kept, Counted, IInv, TypeOK, Launched
  <2>8. TypeOK'
    BY <1>1, <2>3, <2>6, <2>7 DEF IInv, TypeOK, Call0
  <2>9. ReqsFit'
    <3> SUFFICES ASSUME NEW q \in Request PROVE CallFits(req[q], Counted)'
      BY DEF ReqsFit
    <3>1. CASE q = r
      BY <1>1, <1>7, <2>6, <2>7, <3>1 DEF CallFits, Counted
    <3>2. CASE q # r
      BY <2>6, <2>7, <3>2, StillFits
    <3>3. QED BY <3>1, <3>2
  <2>10. ReaperFits' /\ Numbered'
    BY <1>1, <2>7, ReaperStillFits, StillNumbered
  <2>11. RowsOwned'
    BY <1>1, <1>2, <2>2, <2>4, <2>7 DEF IInv, RowsOwned, Rows
  <2>12. NoUnknownBrowser'
    <3> SUFFICES ASSUME mode = "local", NEW x \in alive \ lost
                 PROVE  \/ row'[owner[x]].pid = x
                        \/ \E q \in Request : req'[q].new = x /\ req'[q].pc \in {"insert", "stopOwn"}
      BY <1>1 DEF NoUnknownBrowser
    <3>1. x # 0 /\ owner[x] \in Session
      BY PoolAssumption DEF IInv, TypeOK, Launched, Pid
    <3>2. CASE row[owner[x]].pid = x
      BY <1>9, <2>2, <3>1, <3>2, NoRowFields
    <3>3. ASSUME NEW q \in Request, req[q].new = x, req[q].pc \in {"insert", "stopOwn"}
          PROVE  \/ row'[owner[x]].pid = x
                 \/ \E t \in Request : req'[t].new = x /\ req'[t].pc \in {"insert", "stopOwn"}
      BY <1>2, <2>2, <2>4, <2>6, <3>3
    <3>4. QED BY <3>2, <3>3 DEF IInv, NoUnknownBrowser
  <2>13. r \in Handling /\ Handling' \subseteq Handling \ {r}
    BY <1>1, <1>4, <1>5, <2>6 DEF Handling, Handled, At
  <2>14. OvershootBounded' /\ Cardinality(Rows) < Concurrency - 1 + Cardinality(Request)
    BY <2>5, <2>13, InsertBounded DEF IInv
  <2>15. QED BY <1>2, <2>5, <2>8, <2>9, <2>10, <2>11, <2>12, <2>14 DEF IInv
<1>10. QED BY <1>8, <1>9

LEMMA InsertFailsFits ==
    ASSUME IInv, NEW r \in Request, InsertFails(r)
    PROVE  IInv' /\ Rows' = Rows
<1>1. /\ At(r, "insert") /\ Done(r) /\ faults < MaxFaults /\ faults' = faults + 1
      /\ lost' = IF mode = "local" THEN lost \union {req[r].new} ELSE lost
      /\ UNCHANGED <<mode, reaper, refusedEmpty, calls, row, owner, alive, aged>>
  BY DEF InsertFails, Faulted
<1>2. req[r].new \in Launched
  BY <1>1 DEF IInv, ReqsFit, CallFits, Counted, At
<1>3. lost \subseteq lost' /\ lost' \subseteq Launched /\ (mode = "local" => req[r].new \in lost')
  BY <1>1, <1>2 DEF IInv, TypeOK
<1>4. faults' \in 0 .. MaxFaults /\ refusedEmpty' \in BOOLEAN
  BY <1>1, PoolAssumption DEF IInv, TypeOK
<1>5. QED BY <1>1, <1>3, <1>4, Ends

-----------------------------------------------------------------------------
(* The reaper *)

LEMMA AfterRecordFits ==
    ASSUME NEW left \in SUBSET Record, \A t \in left : t.seen.pid \in Launched
    PROVE  /\ AfterRecord(left) \in Round
           /\ \A t \in AfterRecord(left).todo : t.seen.pid \in Launched
           /\ AfterRecord(left).pc \in {"sleep", "judge"}
<1>1. Asleep \in Round /\ Asleep.todo = {} /\ Asleep.pc = "sleep"
  BY DEF Asleep, Round
<1>2. PICK x \in Round : x = Asleep
  BY <1>1
<1>3. /\ [x EXCEPT !.pc = "judge", !.todo = left] \in Round
      /\ [x EXCEPT !.pc = "judge", !.todo = left].todo = left
      /\ [x EXCEPT !.pc = "judge", !.todo = left].pc = "judge"
  BY DEF Round
<1>4. QED BY <1>1, <1>2, <1>3 DEF AfterRecord

LEMMA ReaperFields ==
    ASSUME IInv
    PROVE  /\ reaper \in Round /\ reaper.todo \in SUBSET Record
           /\ \A t \in reaper.todo : /\ t.s \in Session /\ t.seen \in Row
                                     /\ t.seen.pid \in Launched
BY DEF IInv, ReaperFits, Round, Record

LEMMA ReaperFitsNext ==
    ASSUME IInv, reaper' \in Round, UNCHANGED owner,
           \A t \in reaper'.todo : t.seen.pid \in Launched,
           reaper'.pc \in {"touch", "stop", "delete"} =>
              reaper'.s \in Session /\ reaper'.seen \in Row /\ reaper'.seen.pid \in Launched,
           reaper'.pc = "delete" => reaper'.seen.pid \notin Counted'
    PROVE  ReaperFits'
<1>1. Launched' = Launched
  BY StillNumbered
<1>2. QED BY <1>1 DEF ReaperFits

\* What QuietWorld asks when the table and the counts stay.
LEMMA SameWorld ==
    ASSUME IInv
    PROVE  /\ UNCHANGED row => row' \in [Session -> Row \union {NoRow}]
           /\ UNCHANGED aged => aged' \subseteq Launched
           /\ UNCHANGED lost => lost' \subseteq Launched
           /\ UNCHANGED faults => faults' \in 0 .. MaxFaults
BY DEF IInv, TypeOK

LEMMA ReapListFits ==
    ASSUME IInv, ReapList
    PROVE  IInv' /\ Rows' = Rows
<1> DEFINE left == {[s |-> s, seen |-> row[s], old |-> row[s].meta \in aged] : s \in Rows}
<1>1. /\ reaper' = [Asleep EXCEPT !.pc = "judge", !.todo = left] /\ Rows # {}
      /\ UNCHANGED <<req, mode, refusedEmpty, calls, faults, row, owner, alive, aged, lost>>
  BY DEF ReapList, Requests
<1>2. \A s \in Rows : s \in Session /\ row[s] \in Row /\ row[s].pid \in Launched
  BY DEF IInv, TypeOK, RowsOwned, Rows
<1>3. left \in SUBSET Record /\ \A t \in left : t.seen.pid \in Launched
  <2> SUFFICES ASSUME NEW t \in left PROVE t \in Record /\ t.seen.pid \in Launched
    OBVIOUS
  <2>1. PICK s \in Rows : t = [s |-> s, seen |-> row[s], old |-> row[s].meta \in aged]
    OBVIOUS
  <2>2. (row[s].meta \in aged) \in BOOLEAN
    OBVIOUS
  <2>3. t \in Record
    BY <1>2, <2>1, <2>2 DEF Record
  <2>4. t.seen = row[s]
    BY <2>1
  <2>5. QED BY <1>2, <2>3, <2>4
<1>4. left # {}
  BY <1>1
<1>5. reaper' = AfterRecord(left)
  BY <1>1, <1>4 DEF AfterRecord
<1> HIDE DEF left
<1>6. /\ reaper' \in Round /\ \A t \in reaper'.todo : t.seen.pid \in Launched
      /\ reaper'.pc \in {"sleep", "judge"}
  BY <1>3, <1>5, AfterRecordFits
<1>7. ReaperFits'
  BY <1>1, <1>6, ReaperFitsNext
<1>8. QED BY <1>1, <1>7, SameWorld, QuietWorld

LEMMA ReapJudgeFits ==
    ASSUME IInv, ReapJudge
    PROVE  IInv' /\ Rows' = Rows
<1>1. PICK t \in reaper.todo :
         LET next == Judged(t)
             left == reaper.todo \ {t}
         IN reaper' = IF next = "judge" THEN AfterRecord(left)
                      ELSE [pc |-> next, todo |-> left, s |-> t.s, seen |-> t.seen]
  BY DEF ReapJudge
<1> DEFINE left == reaper.todo \ {t}
<1>2. UNCHANGED <<req, mode, refusedEmpty, calls, faults, row, owner, alive, aged, lost>>
  BY DEF ReapJudge, Requests
<1>3. t.s \in Session /\ t.seen \in Row /\ t.seen.pid \in Launched
  BY ReaperFields
<1>4. left \in SUBSET Record /\ \A u \in left : u.seen.pid \in Launched
  BY ReaperFields
<1>5. Judged(t) \in {"judge", "stop", "touch"}
  BY DEF Judged
<1>6. CASE Judged(t) = "judge"
  <2>1. reaper' = AfterRecord(left)
    BY <1>1, <1>6
  <2> HIDE DEF left
  <2>2. /\ reaper' \in Round /\ \A u \in reaper'.todo : u.seen.pid \in Launched
        /\ reaper'.pc \in {"sleep", "judge"}
    BY <1>4, <2>1, AfterRecordFits
  <2>3. ReaperFits'
    BY <1>2, <2>2, ReaperFitsNext
  <2>4. QED BY <1>2, <2>3, SameWorld, QuietWorld
<1>7. CASE Judged(t) # "judge"
  <2>1. reaper' = [pc |-> Judged(t), todo |-> left, s |-> t.s, seen |-> t.seen]
    BY <1>1, <1>7
  <2>2. Judged(t) \in {"stop", "touch"}
    BY <1>5, <1>7
  <2> HIDE DEF left
  <2>3. reaper' \in Round
    BY <1>3, <1>4, <2>1, <2>2 DEF Round
  <2>4. /\ reaper'.pc = Judged(t) /\ reaper'.todo = left /\ reaper'.s = t.s
        /\ reaper'.seen = t.seen
    BY <2>1
  <2>5. ReaperFits'
    BY <1>2, <1>3, <1>4, <2>2, <2>3, <2>4, ReaperFitsNext
  <2>6. QED BY <1>2, <2>5, SameWorld, QuietWorld
<1>8. QED BY <1>6, <1>7

LEMMA ReapTouchFits ==
    ASSUME IInv, ReapTouch
    PROVE  IInv' /\ Rows' = Rows
<1>1. /\ reaper.pc = "touch" /\ TouchRow(reaper.s, reaper.seen)
      /\ reaper' = AfterRecord(reaper.todo)
      /\ UNCHANGED <<req, mode, refusedEmpty, calls, faults, owner, alive, aged, lost>>
  BY DEF ReapTouch, Requests
<1>2. reaper.s \in Session /\ reaper.seen \in Row
  BY <1>1 DEF IInv, ReaperFits
<1>3. /\ row' \in [Session -> Row \union {NoRow}]
      /\ \A t \in Session : row'[t].pid = row[t].pid /\ (row'[t] = NoRow <=> row[t] = NoRow)
  BY <1>1, <1>2, TouchRowKeeps
<1>4. /\ reaper' \in Round /\ \A u \in reaper'.todo : u.seen.pid \in Launched
      /\ reaper'.pc \in {"sleep", "judge"}
  BY <1>1, ReaperFields, AfterRecordFits
<1>5. ReaperFits'
  BY <1>1, <1>4, ReaperFitsNext
<1>6. QED BY <1>1, <1>3, <1>5, SameWorld, QuietWorld

LEMMA ReapStopFits ==
    ASSUME IInv, ReapStop \/ ReapStopFails
    PROVE  IInv' /\ Rows' = Rows
<1>1. /\ reaper.pc = "stop" /\ reaper' = [reaper EXCEPT !.pc = "delete"]
      /\ UNCHANGED <<req, mode, refusedEmpty, calls, row, owner, aged>>
  BY DEF ReapStop, ReapStopFails, Requests
<1>2. /\ reaper.s \in Session /\ reaper.seen \in Row /\ reaper.seen.pid \in Launched
      /\ reaper \in Round /\ \A t \in reaper.todo : t.seen.pid \in Launched
  BY <1>1 DEF IInv, ReaperFits
<1>3. PICK x \in Round : x = reaper
  BY <1>2
<1>4. /\ [x EXCEPT !.pc = "delete"] \in Round /\ [x EXCEPT !.pc = "delete"].pc = "delete"
      /\ [x EXCEPT !.pc = "delete"].todo = x.todo /\ [x EXCEPT !.pc = "delete"].s = x.s
      /\ [x EXCEPT !.pc = "delete"].seen = x.seen
  BY DEF Round
<1>5. /\ alive' \subseteq alive /\ reaper.seen.pid \notin alive' \ lost'
      /\ lost \subseteq lost' /\ lost' \subseteq Launched /\ faults' \in 0 .. MaxFaults
  <2>1. CASE ReapStop
    BY <2>1, SameWorld DEF ReapStop, StopTree, Requests
  <2>2. CASE ReapStopFails
    BY <2>2, SparedIsLost DEF ReapStopFails
  <2>3. QED BY <2>1, <2>2
<1>6. ReaperFits'
  BY <1>1, <1>2, <1>3, <1>4, <1>5, ReaperFitsNext DEF Counted
<1>7. QED BY <1>1, <1>5, <1>6, SameWorld, QuietWorld

LEMMA ReapDeleteFits ==
    ASSUME IInv, ReapDelete
    PROVE  IInv' /\ \E s \in Session : Rows' = Rows \ {s}
<1>1. /\ reaper.pc = "delete" /\ DeleteRow(reaper.s, reaper.seen)
      /\ reaper' = AfterRecord(reaper.todo)
      /\ UNCHANGED <<req, mode, refusedEmpty, calls, faults, owner, alive, aged>>
  BY DEF ReapDelete, Requests
<1>2. reaper.s \in Session /\ reaper.seen.pid \notin Counted
  BY <1>1 DEF IInv, ReaperFits
<1>3. /\ row' \in [Session -> Row \union {NoRow}]
      /\ lost \subseteq lost' /\ lost' \subseteq Launched
      /\ NoneAdded /\ Rows' = Rows \ {reaper.s}
      /\ mode = "local" => \A p \in alive \ lost' :
            row[owner[p]].pid = p => row'[owner[p]].pid = p
  BY <1>1, <1>2, DeleteRowFits
<1>4. /\ reaper' \in Round /\ \A u \in reaper'.todo : u.seen.pid \in Launched
      /\ reaper'.pc \in {"sleep", "judge"}
  BY <1>1, ReaperFields, AfterRecordFits
<1>5. ReaperFits'
  BY <1>1, <1>4, ReaperFitsNext
<1>6. Kept /\ alive' \subseteq Pid /\ Launched' = Launched
  BY <1>1, <1>3, StillNumbered DEF Kept, Counted, IInv, TypeOK, Launched
<1>7. TypeOK'
  BY <1>1, <1>3, <1>4, <1>6 DEF IInv, TypeOK, Round
<1>8. ReqsFit' /\ RowsOwned' /\ Numbered'
  BY <1>1, <1>3, <1>6, StillFits, RowsStillOwned, StillNumbered DEF ReqsFit
<1>9. NoUnknownBrowser'
  BY <1>1, <1>3 DEF IInv, NoUnknownBrowser
<1>10. OvershootBounded'
  <2>1. Handling' \subseteq Handling
    BY <1>1 DEF Handling, Handled, At
  <2>2. QED BY <1>3, <2>1, FewerBounded DEF IInv
<1>11. QED BY <1>2, <1>3, <1>5, <1>7, <1>8, <1>9, <1>10 DEF IInv

-----------------------------------------------------------------------------
(* The world *)

LEMMA WorldFits ==
    ASSUME IInv, \/ \E p \in Pid : Vanish(p) \/ Age(p)
                 \/ \E s \in Session : IdleOut(s)
    PROVE  IInv' /\ Rows' = Rows
<1>1. ASSUME NEW p \in Pid, Vanish(p) PROVE IInv' /\ Rows' = Rows
  <2>1. /\ alive' = alive \ {p} /\ faults' = faults + 1 /\ faults < MaxFaults
        /\ UNCHANGED <<mode, reaper, refusedEmpty, calls, req, row, owner, aged, lost>>
    BY <1>1 DEF Vanish, Faulted
  <2>2. faults' \in 0 .. MaxFaults
    BY <2>1, PoolAssumption DEF IInv, TypeOK
  <2>3. ReaperFits'
    BY <2>1, ReaperStillFits DEF Kept, Counted
  <2>4. QED BY <2>1, <2>2, <2>3, SameWorld, QuietWorld
<1>2. ASSUME NEW p \in Pid, Age(p) PROVE IInv' /\ Rows' = Rows
  <2>1. /\ aged' = aged \union {p} /\ p \in Launched
        /\ UNCHANGED <<mode, reaper, refusedEmpty, calls, faults, req, row, owner, alive, lost>>
    BY <1>2 DEF Age, System
  <2>2. ReaperFits'
    BY <2>1, ReaperStillFits DEF Kept, Counted
  <2>3. aged' \subseteq Launched
    BY <2>1 DEF IInv, TypeOK
  <2>4. QED BY <2>1, <2>2, <2>3, SameWorld, QuietWorld
<1>3. ASSUME NEW s \in Session, IdleOut(s) PROVE IInv' /\ Rows' = Rows
  <2>1. /\ row[s].fresh /\ row' = [row EXCEPT ![s].fresh = FALSE]
        /\ UNCHANGED <<mode, reaper, refusedEmpty, calls, faults, req, owner, alive, aged, lost>>
    BY <1>3 DEF IdleOut, System
  <2>2. row \in [Session -> Row \union {NoRow}]
    BY DEF IInv, TypeOK
  <2>3. PICK x \in Row : x = row[s]
    BY <2>1, <2>2 DEF NoRow
  <2>4. [x EXCEPT !.fresh = FALSE] \in Row /\ [x EXCEPT !.fresh = FALSE].pid = x.pid
    BY DEF Row
  <2>5. row' = [row EXCEPT ![s] = [x EXCEPT !.fresh = FALSE]]
    BY <2>1, <2>2, <2>3
  <2>6. /\ row' \in [Session -> Row \union {NoRow}]
        /\ \A t \in Session : row'[t].pid = row[t].pid /\ (row'[t] = NoRow <=> row[t] = NoRow)
    BY <2>2, <2>3, <2>4, <2>5, RowFields
  <2>7. ReaperFits'
    BY <2>1, ReaperStillFits DEF Kept, Counted
  <2>8. QED BY <2>1, <2>6, <2>7, SameWorld, QuietWorld
<1>4. QED BY <1>1, <1>2, <1>3

LEMMA RestartFits ==
    ASSUME IInv, Restart
    PROVE  IInv' /\ Rows' = Rows
<1>1. /\ faults < MaxFaults /\ faults' = faults + 1
      /\ req' = [r \in Request |-> Idle] /\ reaper' = Asleep
      /\ lost' = IF mode = "local" THEN lost \union (alive \ {row[s].pid : s \in Rows}) ELSE lost
      /\ UNCHANGED <<mode, refusedEmpty, calls, row, owner, alive, aged>>
  BY DEF Restart, Faulted
<1>2. Kept /\ alive' \subseteq Pid /\ Launched' = Launched
  BY <1>1, StillNumbered DEF Kept, Counted, IInv, TypeOK, Launched
<1>3. Idle \in Call0 /\ CallFits(Idle, Counted) /\ Idle.pc = "idle"
  BY IdleFits DEF Counted, IInv, TypeOK, Launched
<1>4. Asleep \in Round /\ Asleep.todo = {} /\ Asleep.pc = "sleep"
  BY DEF Asleep, Round
<1>5. faults' \in 0 .. MaxFaults
  BY <1>1, PoolAssumption DEF IInv, TypeOK
<1> HIDE DEF Idle, Asleep
<1>6. \A q \in Request : req'[q] = Idle
  BY <1>1
<1>7. TypeOK'
  BY <1>1, <1>2, <1>3, <1>4, <1>5 DEF IInv, TypeOK, Call0
<1>8. ReqsFit'
  BY <1>1, <1>2, <1>3, <1>6 DEF ReqsFit, CallFits, Counted
<1>9. ReaperFits'
  BY <1>1, <1>4, ReaperFitsNext
<1>10. RowsOwned' /\ Numbered' /\ Rows' = Rows
  BY <1>1, <1>2, RowsStillOwned, StillNumbered DEF NoneAdded, Rows
<1>11. NoUnknownBrowser'
  BY <1>1 DEF IInv, NoUnknownBrowser, RowsOwned
<1>12. OvershootBounded'
  <2>1. Handling' \subseteq Handling
    BY <1>3, <1>6 DEF Handling, Handled, At
  <2>2. QED BY <1>10, <2>1, FewerBounded DEF IInv
<1>13. QED BY <1>7, <1>8, <1>9, <1>10, <1>11, <1>12 DEF IInv

-----------------------------------------------------------------------------
(* The invariant *)

LEMMA InitFits == Init => IInv
<1> SUFFICES ASSUME Init PROVE IInv
  OBVIOUS
<1>0. PICK S \in {{}} \union {{s} : s \in Inherited} :
         /\ row = [s \in Session |-> IF s \in S THEN [pid |-> 1, meta |-> 1, fresh |-> FALSE]
                                   ELSE NoRow]
         /\ owner = [p \in Pid |-> IF p = 1 /\ S # {} THEN CHOOSE s \in S : TRUE ELSE None]
  BY DEF Init
<1>1. /\ S \in {{}} \union {{s} : s \in Session}
      /\ row = [s \in Session |-> IF s \in S THEN [pid |-> 1, meta |-> 1, fresh |-> FALSE]
                                ELSE NoRow]
      /\ owner = [p \in Pid |-> IF p = 1 /\ S # {} THEN CHOOSE s \in S : TRUE ELSE None]
  BY <1>0, PoolAssumption
<1>2. /\ mode \in Mode /\ alive \subseteq Launched /\ aged = {} /\ lost = {}
      /\ req = [r \in Request |-> Idle] /\ reaper = Asleep
      /\ refusedEmpty = FALSE /\ calls = 0 /\ faults = 0
  BY DEF Init
<1>3. 1 \in Pid
  BY PoolAssumption DEF Pid
<1>4. [pid |-> 1, meta |-> 1, fresh |-> FALSE] \in Row
  BY <1>3 DEF Row
<1>5. [pid |-> 1, meta |-> 1, fresh |-> FALSE] # NoRow
  BY <1>4, RowFields
<1>6. row \in [Session -> Row \union {NoRow}] /\ Rows = S
  BY <1>1, <1>4, <1>5 DEF Rows
<1>7. S # {} => \E s \in Session : S = {s} /\ owner[1] = s
  BY <1>1, <1>3
<1>8. owner \in [Pid -> Session \union {None}]
  BY <1>1, <1>7
<1>9. Launched = IF S = {} THEN {} ELSE {1}
  <2>1. CASE S = {}
    BY <1>1, <2>1 DEF Launched
  <2>2. CASE S # {}
    BY <1>1, <1>3, <1>7, <2>2, PoolAssumption DEF Launched
  <2>3. QED BY <2>1, <2>2
<1>10. Idle \in Call0 /\ CallFits(Idle, Counted) /\ Idle.pc = "idle"
  BY <1>2, IdleFits DEF Counted, Launched
<1>11. Asleep \in Round /\ Asleep.todo = {} /\ Asleep.pc = "sleep"
  BY DEF Asleep, Round
<1>12. 0 \in 0 .. MaxCalls /\ 0 \in 0 .. MaxFaults
  BY PoolAssumption
<1> HIDE DEF Idle, Asleep
<1>13. TypeOK
  BY <1>2, <1>6, <1>8, <1>10, <1>11, <1>12 DEF TypeOK, Call0
<1>14. ReqsFit /\ ReaperFits
  BY <1>2, <1>10, <1>11 DEF ReqsFit, ReaperFits
<1>15. \A s \in Rows : row[s].pid = 1
  BY <1>1, <1>6
<1>16. RowsOwned
  BY <1>6, <1>7, <1>9, <1>15 DEF RowsOwned
<1>17. Numbered
  <2>1. CASE S = {}
    <3>1. Launched = 1 .. 0 /\ 0 \in 0 .. MaxPid
      BY <1>9, <2>1, PoolAssumption
    <3>2. QED BY <3>1 DEF Numbered
  <2>2. CASE S # {}
    <3>1. Launched = 1 .. 1 /\ 1 \in 0 .. MaxPid
      BY <1>9, <2>2, PoolAssumption
    <3>2. QED BY <3>1 DEF Numbered
  <2>3. QED BY <2>1, <2>2
<1>18. NoUnknownBrowser
  BY <1>2, <1>6, <1>7, <1>9, <1>15 DEF NoUnknownBrowser
<1>19. OvershootBounded
  <2>1. Handling = {}
    BY <1>2, <1>10 DEF Handling, Handled, At
  <2>2. Cardinality(Handling) = 0
    BY <2>1, FS_EmptySet
  <2>3. Cardinality(Rows) <= 1
    <3>1. Cardinality({}) = 0 /\ \A s \in Session : Cardinality({s}) = 1
      BY FS_EmptySet, FS_Singleton
    <3>2. Rows = {} \/ \E s \in Session : Rows = {s}
      BY <1>6, <1>7
    <3>3. QED BY <3>1, <3>2
  <2>4. Cardinality(Request) # 0
    BY PoolAssumption, FS_EmptySet
  <2>5. QED BY <2>2, <2>3, <2>4, CountsAreNat, PoolAssumption DEF OvershootBounded, Handling
<1>20. QED BY <1>13, <1>14, <1>16, <1>17, <1>18, <1>19 DEF IInv

\* What a step may do to the set of sessions that have a row.
RowsMove ==
    \/ Rows' = Rows
    \/ \E s \in Session : Rows' = Rows \ {s}
    \/ \E s \in Session :
          Rows' = Rows \union {s} /\ Cardinality(Rows) < Concurrency - 1 + Cardinality(Request)

LEMMA NextFits == IInv /\ [Next]_vars => IInv' /\ RowsMove
<1> SUFFICES ASSUME IInv, [Next]_vars PROVE IInv' /\ RowsMove
  OBVIOUS
<1>1. ASSUME NEW r \in Request, NEW s \in Session, NEW op \in Ops, Call(r, s, op)
      PROVE  IInv' /\ RowsMove
  BY <1>1, CallStarts DEF RowsMove
<1>2. ASSUME NEW r \in Request, Serve(r) PROVE IInv' /\ RowsMove
  <2>1. CASE ReadAgain(r)
    BY <2>1, ReadAgainFits DEF RowsMove
  <2>2. CASE Probe(r)
    BY <2>2, ProbeFits DEF RowsMove
  <2>3. CASE Touch(r)
    BY <2>3, TouchFits DEF RowsMove
  <2>4. CASE Stop(r) \/ DeleteSession(r) \/ StopOwn(r)
    BY <2>4, StopFits DEF RowsMove
  <2>5. CASE Delete(r)
    BY <2>5, DeleteFits DEF RowsMove
  <2>6. CASE Count(r)
    BY <2>6, CountFits DEF RowsMove
  <2>7. CASE Launch(r) \/ Start(r)
    BY <2>7, LaunchFits DEF RowsMove
  <2>8. CASE Insert(r)
    BY <2>8, InsertFits DEF RowsMove
  <2>9. QED BY <1>2, <2>1, <2>2, <2>3, <2>4, <2>5, <2>6, <2>7, <2>8 DEF Serve
<1>3. ASSUME NEW r \in Request,
             \/ InsertFails(r) \/ StopFails(r) \/ StopOwnFails(r)
             \/ Connect(r) \/ Release(r)
      PROVE  IInv' /\ RowsMove
  BY <1>3, InsertFailsFits, StopFailsFits, UseFits DEF RowsMove
<1>4. CASE ReaperStep \/ ReapStopFails
  BY <1>4, ReapListFits, ReapJudgeFits, ReapTouchFits, ReapStopFits, ReapDeleteFits
     DEF ReaperStep, RowsMove
<1>5. CASE (\E p \in Pid : Vanish(p) \/ Age(p)) \/ (\E s \in Session : IdleOut(s)) \/ Restart
  BY <1>5, WorldFits, RestartFits DEF RowsMove
<1>6. CASE UNCHANGED vars
  <2>1. UNCHANGED <<mode, row, owner, alive, aged, req, reaper, lost, refusedEmpty, calls, faults>>
    BY <1>6 DEF vars
  <2>2. ReaperFits'
    BY <2>1, ReaperStillFits DEF Kept, Counted
  <2>3. QED BY <2>1, <2>2, SameWorld, QuietWorld DEF RowsMove
<1>7. QED BY <1>1, <1>2, <1>3, <1>4, <1>5, <1>6 DEF Next

LEMMA Invariance == Spec => []IInv
BY InitFits, NextFits, PTL DEF Spec

-----------------------------------------------------------------------------
(* The theorems *)

\* The rows and the creations under way stay within the limit and the requests that
\* may be between check and creation, and every running local browser is named by
\* the row of its session, handled by a request, or one that another actor's delete,
\* a restart, a failed insert or a failed stop is known to have lost.
THEOREM PoolIsAccounted == Spec => []PoolAccounted
<1>1. IInv => PoolAccounted
  BY DEF IInv, PoolAccounted
<1>2. QED BY <1>1, Invariance, PTL

\* The abstract specification counts as this one does.
LEMMA SameCount == \A S : Lease!Cardinality(S) = Cardinality(S)
BY DEF Lease!Cardinality, Cardinality

\* However requests, the reaper, faults and restarts overlap, sessions gain and lose
\* a row one at a time, and none gains one past the limit that is really kept.
THEOREM PoolImplementsLease == Spec => ImplementsLease
<1>1. IInv => Lease!LeaseInit
  <2> SUFFICES ASSUME IInv PROVE Lease!LeaseInit
    OBVIOUS
  <2>1. Rows \in SUBSET Session
    BY DEF Rows
  <2>2. Cardinality(Rows) + Cardinality(Handling) <= Concurrency - 1 + Cardinality(Request)
    BY DEF IInv, OvershootBounded, Handling
  <2>3. Cardinality(Rows) <= Concurrency - 1 + Cardinality(Request)
    BY <2>2, CountsAreNat, PoolAssumption
  <2>4. QED BY <2>1, <2>3, SameCount DEF Lease!LeaseInit
<1>2. RowsMove => [Lease!LeaseNext]_Rows
  <2>1. CASE Rows' = Rows
    BY <2>1
  <2>2. ASSUME NEW s \in Session, Rows' = Rows \ {s}, Rows' # Rows PROVE Lease!LeaseNext
    BY <2>2 DEF Lease!LeaseNext, Lease!Withdraw
  <2>3. ASSUME NEW s \in Session, Rows' = Rows \union {s}, Rows' # Rows,
               Cardinality(Rows) < Concurrency - 1 + Cardinality(Request)
        PROVE  Lease!LeaseNext
    BY <2>3, SameCount DEF Lease!LeaseNext, Lease!Grant
  <2>4. QED BY <2>1, <2>2, <2>3 DEF RowsMove
<1>3. QED BY <1>1, <1>2, InitFits, NextFits, Invariance, PTL
             DEF Spec, ImplementsLease, Lease!LeaseSpec
=============================================================================
