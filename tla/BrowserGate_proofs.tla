-------------------------- MODULE BrowserGate_proofs --------------------------
(***************************************************************************)
(* Proofs about BrowserGate for any number of sessions, connections,       *)
(* browsers and crashes.                                                   *)
(***************************************************************************)
EXTENDS BrowserGate, FiniteSetTheorems, TLAPS

-----------------------------------------------------------------------------
(* The inductive invariant *)

\* Who holds the manager's lock is starting a browser: what it waits for is its own
\* session's, and what it is about to stop has nobody connected or does not run.
HolderFits(c) ==
    /\ conn[c].pc \in {"stop", "ready"} <=> lock = c
    /\ conn[c].pc \in {"lock", "stop", "ready"} => conn[c].sid \in Session
    /\ conn[c].pc = "ready" => gate.sid = conn[c].sid
    /\ conn[c].pc = "stop" /\ conn[c].busy => ~Running

HoldersFit == \A c \in Client : HolderFits(c)

WatchFits == watch = "ready" <=> lock = "watchdog"

\* The manager's object is of the session its process was started for.
GateBorn == gate.proc # 0 => bornFor[gate.proc] = gate.sid

IInv == TypeOK /\ HoldersFit /\ WatchFits /\ GateBorn /\ EveryProcessOwned

-----------------------------------------------------------------------------
(* Processes *)

Procs ==
    /\ gate \in Browser \union {NoBrowser}
    /\ bornFor \in [Pid -> Session \union {None}]
    /\ procs \subseteq Started /\ leaked \subseteq Started /\ port \in procs \union {0}
    /\ GateBorn /\ EveryProcessOwned

LEMMA ProcsHold == IInv => Procs
BY DEF IInv, TypeOK, Procs

LEMMA SameProcs ==
    ASSUME IInv, UNCHANGED <<gate, bornFor, procs, port, leaked>>
    PROVE  Procs'
BY DEF IInv, TypeOK, Procs, Started, GateBorn, EveryProcessOwned

LEMMA NoBrowserFields == NoBrowser.proc = 0 /\ NoBrowser.sid = None
BY DEF NoBrowser

LEMMA BrowserFields ==
    ASSUME NEW sid \in Session, NEW p \in 0 .. MaxPid
    PROVE  /\ [sid |-> sid, proc |-> p] \in Browser
           /\ [sid |-> sid, proc |-> p].sid = sid /\ [sid |-> sid, proc |-> p].proc = p
BY DEF Browser

\* Processes other than the manager's are those it forgot.
LEMMA RestIsLeaked ==
    ASSUME IInv
    PROVE  /\ procs \ {gate.proc} \subseteq leaked
           /\ ~Running => procs \subseteq leaked
           /\ ~Exists => ~Running
           /\ procs \subseteq Pid /\ 0 \notin procs
<1>1. procs \subseteq Pid /\ 0 \notin procs
  BY GateAssumption DEF IInv, TypeOK, Started, Pid
<1>2. ~Exists => gate.proc = 0
  BY NoBrowserFields DEF Exists
<1>3. QED BY <1>1, <1>2 DEF IInv, EveryProcessOwned, Running

LEMMA SpawnFits ==
    ASSUME IInv, NEW sid \in Session, NEW p \in NextPid, NEW rest \in SUBSET procs,
           rest \subseteq leaked, Spawn(sid, p, rest), UNCHANGED leaked
    PROVE  Procs' /\ gate'.sid = sid /\ gate'.proc = p /\ Running'
<1>1. p \in Pid /\ p \in 0 .. MaxPid
  BY GateAssumption DEF NextPid, Pid
<1>2. gate' \in Browser /\ gate'.sid = sid /\ gate'.proc = p
  BY <1>1, BrowserFields DEF Spawn
<1>3. bornFor \in [Pid -> Session \union {None}] /\ procs \subseteq Started /\ leaked \subseteq Started
  BY DEF IInv, TypeOK
<1>4. bornFor' \in [Pid -> Session \union {None}] /\ bornFor'[p] = sid
  BY <1>1, <1>3 DEF Spawn
<1>5. Started' = Started \union {p}
  BY <1>1, <1>3, GateAssumption DEF Spawn, Started
<1>6. procs' = rest \union {p} /\ port' \in procs' \union {0}
  BY DEF Spawn
<1>7. procs' \subseteq Started' /\ leaked' \subseteq Started'
  BY <1>3, <1>5, <1>6
<1>8. GateBorn' /\ EveryProcessOwned' /\ Running'
  BY <1>2, <1>4, <1>6 DEF GateBorn, EveryProcessOwned, Running
<1>9. QED BY <1>2, <1>4, <1>6, <1>7, <1>8 DEF Procs

LEMMA SpawnFailsFits ==
    ASSUME IInv, NEW sid \in Session, NEW rest \in SUBSET procs, rest \subseteq leaked,
           SpawnFails(sid, rest), UNCHANGED leaked
    PROVE  Procs' /\ gate'.proc = 0 /\ procs' = rest
<1>1. 0 \in 0 .. MaxPid
  BY GateAssumption
<1>2. gate' \in Browser /\ gate'.proc = 0
  BY <1>1, BrowserFields DEF SpawnFails
<1>3. Started' = Started /\ procs' = rest /\ port' \in procs' \union {0}
  BY DEF SpawnFails, Started
<1>4. bornFor' \in [Pid -> Session \union {None}] /\ procs' \subseteq Started' /\ leaked' \subseteq Started'
  BY <1>3 DEF SpawnFails, IInv, TypeOK
<1>5. QED BY <1>2, <1>3, <1>4 DEF Procs, GateBorn, EveryProcessOwned

\* The manager forgets its browser, when its process has ended, is to end or leaks.
LEMMA ForgetFits ==
    ASSUME IInv, gate' = NoBrowser, procs' \subseteq procs, leaked \subseteq leaked',
           leaked' \subseteq Started, procs' \subseteq leaked', port' \in procs' \union {0},
           UNCHANGED bornFor
    PROVE  Procs'
<1>1. Started' = Started
  BY DEF Started
<1>2. QED BY <1>1, NoBrowserFields DEF IInv, TypeOK, Procs, GateBorn, EveryProcessOwned

LEMMA EndedFits ==
    ASSUME IInv, NEW p, Ended(p), UNCHANGED <<gate, bornFor, leaked>>
    PROVE  Procs' /\ procs' \subseteq procs
<1>1. Started' = Started /\ procs' = procs \ {p}
  BY DEF Started, Ended
<1>2. port' \in procs' \union {0}
  BY <1>1 DEF Ended, IInv, TypeOK
<1>3. QED BY <1>1, <1>2 DEF IInv, TypeOK, Procs, GateBorn, EveryProcessOwned

-----------------------------------------------------------------------------
(* Connections *)

Conn == [pc : Steps, op : {"none", "start", "ws", "query"}, sid : Session \union {None},
         busy : BOOLEAN, to : 0..MaxPid]

Counted == {c \in Client : conn[c].pc \in {"route", "relay"}}

LEMMA CountedIsFinite ==
    /\ IsFiniteSet(Counted) /\ Cardinality(Counted) \in Nat
    /\ IsFiniteSet(Counted') /\ Cardinality(Counted') \in Nat
<1>1. Counted \in SUBSET Client /\ Counted' \in SUBSET Client
  BY DEF Counted
<1>2. IsFiniteSet(Counted) /\ IsFiniteSet(Counted')
  BY <1>1, FS_Subset, GateAssumption
<1>3. QED BY <1>2, FS_CardinalityType

LEMMA FreeFields ==
    /\ Free \in Conn /\ Free.pc = "free" /\ Free.busy = FALSE /\ Free.sid = None
<1>1. 0 \in 0 .. MaxPid
  BY GateAssumption
<1>2. QED BY <1>1 DEF Free, Conn, Steps

LEMMA ConnFields ==
    ASSUME IInv, NEW c \in Client
    PROVE  conn[c] \in Conn
BY DEF IInv, TypeOK, Conn

LEMMA ConnUpdate ==
    ASSUME IInv, NEW c \in Client, NEW d \in Conn, conn' = [conn EXCEPT ![c] = d]
    PROVE  /\ conn' \in [Client -> Conn] /\ conn'[c] = d
           /\ \A q \in Client : q # c => conn'[q] = conn[q]
BY DEF IInv, TypeOK, Conn

LEMMA GoFields ==
    ASSUME IInv, NEW c \in Client, NEW step \in Steps, Go(c, step)
    PROVE  \E d \in Conn : /\ conn' = [conn EXCEPT ![c] = d]
                           /\ d.pc = step /\ d.sid = conn[c].sid /\ d.busy = conn[c].busy
<1>1. PICK x \in Conn : x = conn[c]
  BY ConnFields
<1>2. /\ [x EXCEPT !.pc = step] \in Conn /\ [x EXCEPT !.pc = step].pc = step
      /\ [x EXCEPT !.pc = step].sid = x.sid /\ [x EXCEPT !.pc = step].busy = x.busy
  BY DEF Conn
<1>3. conn' = [conn EXCEPT ![c] = [x EXCEPT !.pc = step]]
  BY <1>1 DEF Go, IInv, TypeOK
<1>4. QED BY <1>1, <1>2, <1>3

\* A connection that is not the lock's holder, and one that is but whose browser
\* nobody else has changed, fit as before.
LEMMA OthersFit ==
    ASSUME IInv, NEW q \in Client, conn'[q] = conn[q], lock' = q <=> lock = q,
           lock = q => gate' = gate /\ procs' \subseteq procs
    PROVE  HolderFits(q)'
BY DEF IInv, HoldersFit, HolderFits, Running

\* Connection c goes on to d.
LEMMA CallStep ==
    ASSUME IInv, Procs', NEW c \in Client, NEW d \in Conn, conn' = [conn EXCEPT ![c] = d],
           lock' \in Client \union {None, "watchdog"},
           \A q \in Client : q # c => (lock' = q <=> lock = q),
           \A q \in Client : q # c /\ lock = q => gate' = gate /\ procs' \subseteq procs,
           d.pc \in {"stop", "ready"} <=> lock' = c,
           d.pc \in {"lock", "stop", "ready"} => d.sid \in Session,
           d.pc = "ready" => gate'.sid = d.sid,
           d.pc = "stop" /\ d.busy => ~Running',
           lock' = "watchdog" <=> lock = "watchdog",
           active' = Cardinality(Counted'),
           calls' \in 0 .. MaxCalls,
           UNCHANGED <<watch, phase, crashes>>
    PROVE  IInv'
<1>1. /\ conn' \in [Client -> Conn] /\ conn'[c] = d
      /\ \A q \in Client : q # c => conn'[q] = conn[q]
  BY ConnUpdate
<1>2. TypeOK'
  BY <1>1 DEF IInv, TypeOK, Procs, Conn, Counted
<1>3. HoldersFit'
  <2> SUFFICES ASSUME NEW q \in Client PROVE HolderFits(q)'
    BY DEF HoldersFit
  <2>1. CASE q = c
    BY <1>1, <2>1 DEF HolderFits
  <2>2. CASE q # c
    BY <1>1, <2>2, OthersFit
  <2>3. QED BY <2>1, <2>2
<1>4. WatchFits'
  BY DEF IInv, WatchFits
<1>5. QED BY <1>2, <1>3, <1>4 DEF IInv, Procs

\* A connection that is counted neither before nor after a step leaves the count.
LEMMA NotCounted ==
    ASSUME IInv, NEW c \in Client, NEW d \in Conn, conn' = [conn EXCEPT ![c] = d],
           conn[c].pc \notin {"route", "relay"}, d.pc \notin {"route", "relay"}, UNCHANGED active
    PROVE  active' = Cardinality(Counted')
<1>1. /\ conn'[c] = d /\ \A q \in Client : q # c => conn'[q] = conn[q]
  BY ConnUpdate
<1>2. Counted' = Counted
  BY <1>1 DEF Counted
<1>3. QED BY <1>2 DEF IInv, TypeOK, Counted

LEMMA SameCalls == IInv /\ UNCHANGED calls => calls' \in 0 .. MaxCalls
BY DEF IInv, TypeOK

-----------------------------------------------------------------------------
(* GET /start *)

LEMMA CallFits ==
    ASSUME IInv, NEW c \in Client,
           \/ \E sid \in Session : CallStart(c, sid)
           \/ \E sid \in Session \union {None}, op \in {"ws", "query"} : CallUse(c, sid, op)
    PROVE  IInv'
<1>1. /\ conn[c].pc = "free" /\ calls < MaxCalls /\ calls' = calls + 1
      /\ UNCHANGED <<active, watch, phase, crashes, gate, bornFor, procs, port, lock, leaked>>
  BY DEF CallStart, CallUse, At, Rest
<1>2. \E d \in Conn : /\ conn' = [conn EXCEPT ![c] = d] /\ d.pc \in {"lock", "wait"}
                      /\ d.pc = "lock" => d.sid \in Session
  <2>1. PICK f \in Conn : f = Free
    BY FreeFields
  <2>2. ASSUME NEW sid \in Session, NEW b \in BOOLEAN
        PROVE  /\ [f EXCEPT !.pc = "lock", !.op = "start", !.sid = sid, !.busy = b] \in Conn
               /\ [f EXCEPT !.pc = "lock", !.op = "start", !.sid = sid, !.busy = b].pc = "lock"
               /\ [f EXCEPT !.pc = "lock", !.op = "start", !.sid = sid, !.busy = b].sid = sid
    BY <2>1 DEF Conn, Steps
  <2>3. ASSUME NEW sid \in Session \union {None}, NEW op \in {"ws", "query"}
        PROVE  /\ [f EXCEPT !.pc = "wait", !.op = op, !.sid = sid] \in Conn
               /\ [f EXCEPT !.pc = "wait", !.op = op, !.sid = sid].pc = "wait"
    BY <2>1 DEF Conn, Steps
  <2>4. CASE \E sid \in Session : CallStart(c, sid)
    <3>1. PICK sid \in Session : CallStart(c, sid)
      BY <2>4
    <3>2. (active > 0) \in BOOLEAN
      OBVIOUS
    <3>3. conn' = [conn EXCEPT ![c] = [f EXCEPT !.pc = "lock", !.op = "start", !.sid = sid,
                                                !.busy = active > 0]]
      BY <2>1, <3>1 DEF CallStart
    <3>4. QED BY <2>2, <3>2, <3>3
  <2>5. CASE \E sid \in Session \union {None}, op \in {"ws", "query"} : CallUse(c, sid, op)
    BY <2>1, <2>3, <2>5 DEF CallUse
  <2>6. QED BY <2>4, <2>5
<1>3. calls' \in 0 .. MaxCalls
  BY <1>1, GateAssumption DEF IInv, TypeOK
<1>4. lock # c /\ lock \in Client \union {None, "watchdog"}
  BY <1>1 DEF IInv, HoldersFit, HolderFits, TypeOK
<1>5. Procs'
  BY <1>1, SameProcs
<1>6. PICK d \in Conn : /\ conn' = [conn EXCEPT ![c] = d] /\ d.pc \in {"lock", "wait"}
                        /\ d.pc = "lock" => d.sid \in Session
  BY <1>2
<1>7. active' = Cardinality(Counted')
  BY <1>1, <1>6, NotCounted
<1>8. QED BY <1>1, <1>3, <1>4, <1>5, <1>6, <1>7, CallStep

\* Connection c takes the lock, or leaves it alone and is answered.
LEMMA TakesLock ==
    ASSUME IInv, Procs', NEW c \in Client, At(c, "lock"), lock = None,
           NEW step \in {"stop", "ready"}, Go(c, step), lock' = c,
           step = "ready" => gate'.sid = conn[c].sid,
           step = "stop" /\ conn[c].busy => ~Running',
           UNCHANGED <<active, watch, phase, crashes, calls>>
    PROVE  IInv'
<1>1. step \in Steps
  BY DEF Steps
<1>2. PICK d \in Conn : /\ conn' = [conn EXCEPT ![c] = d]
                        /\ d.pc = step /\ d.sid = conn[c].sid /\ d.busy = conn[c].busy
  BY <1>1, GoFields
<1>3. conn[c].sid \in Session
  BY DEF IInv, HoldersFit, HolderFits, At
<1>4. \A q \in Client : lock # q /\ (q # c => lock' # q)
  BY GateAssumption
<1>5. active' = Cardinality(Counted')
  BY <1>2, NotCounted DEF At
<1>6. lock' # "watchdog" /\ lock # "watchdog"
  BY GateAssumption
<1>7. QED BY <1>2, <1>3, <1>4, <1>5, <1>6, SameCalls, CallStep

\* Connection c is answered, and gives up the lock if it holds it.
LEMMA AnsweredFits ==
    ASSUME IInv, Procs', NEW c \in Client, Answered(c), conn[c].pc \notin {"route", "relay"},
           \/ /\ lock' = lock /\ lock # c
              /\ \/ lock = None
                 \/ gate' = gate /\ procs' \subseteq procs
           \/ lock = c /\ lock' = None,
           UNCHANGED <<active, watch, phase, crashes, calls>>
    PROVE  IInv'
<1>1. PICK d \in Conn : conn' = [conn EXCEPT ![c] = d] /\ d.pc = "free"
  BY FreeFields DEF Answered
<1>2. active' = Cardinality(Counted')
  BY <1>1, NotCounted
<1>3. /\ lock' \in Client \union {None, "watchdog"} /\ lock' # c
      /\ lock' = "watchdog" <=> lock = "watchdog"
      /\ \A q \in Client : q # c => (lock' = q <=> lock = q)
      /\ \A q \in Client : q # c /\ lock = q => gate' = gate /\ procs' \subseteq procs
  BY GateAssumption DEF IInv, TypeOK
<1>4. QED BY <1>1, <1>2, <1>3, SameCalls, CallStep

LEMMA EnsureFits ==
    ASSUME IInv, NEW c \in Client, Ensure(c)
    PROVE  IInv'
<1> DEFINE sid == conn[c].sid
<1>1. /\ At(c, "lock") /\ lock = None
      /\ UNCHANGED <<active, watch, phase, crashes, leaked, calls>>
  BY DEF Ensure, Rest
<1>2. sid \in Session /\ lock # c /\ conn[c].pc = "lock"
  BY <1>1, GateAssumption DEF IInv, HoldersFit, HolderFits, At
<1>3. CASE Answered(c) /\ UNCHANGED <<gate, bornFor, procs, port, lock>>
  <2>1. Procs'
    BY <1>1, <1>3, SameProcs
  <2>2. QED BY <1>1, <1>2, <1>3, <2>1, AnsweredFits
<1>4. CASE Reusable(sid) /\ Go(c, "ready") /\ lock' = c /\ UNCHANGED <<gate, bornFor, procs, port>>
  <2>1. Procs' /\ gate'.sid = sid
    BY <1>1, <1>4, SameProcs DEF Reusable
  <2>2. QED BY <1>1, <1>4, <2>1, TakesLock
<1>5. CASE /\ ~Refused(c) /\ ~Reusable(sid) /\ Go(c, "stop") /\ lock' = c
           /\ UNCHANGED <<gate, bornFor, procs, port>>
  <2>1. Procs' /\ (conn[c].busy => ~Running')
    BY <1>1, <1>5, SameProcs DEF Refused, Running
  <2>2. QED BY <1>1, <1>5, <2>1, TakesLock
<1>6. CASE /\ ~Replaces /\ Go(c, "ready") /\ lock' = c
           /\ \E p \in NextPid : Spawn(sid, p, procs)
  <2>1. PICK p \in NextPid : Spawn(sid, p, procs)
    BY <1>6
  <2>2. procs \subseteq leaked
    BY <1>6, RestIsLeaked DEF Replaces
  <2>3. Procs' /\ gate'.sid = sid
    BY <1>1, <1>2, <2>1, <2>2, SpawnFits
  <2>4. QED BY <1>1, <1>6, <2>3, TakesLock
<1>7. CASE ~Replaces /\ SpawnFails(sid, procs) /\ Answered(c) /\ UNCHANGED lock
  <2>1. procs \subseteq leaked
    BY <1>7, RestIsLeaked DEF Replaces
  <2>2. Procs'
    BY <1>1, <1>2, <1>7, <2>1, SpawnFailsFits
  <2>3. QED BY <1>1, <1>2, <1>7, <2>2, AnsweredFits
<1>8. QED BY <1>3, <1>4, <1>5, <1>6, <1>7 DEF Ensure

LEMMA StopOldFits ==
    ASSUME IInv, NEW c \in Client, StopOld(c)
    PROVE  IInv'
<1> DEFINE sid == conn[c].sid
           rest == procs \ {gate.proc}
<1>1. /\ conn[c].pc = "stop" /\ UNCHANGED <<active, watch, phase, crashes, leaked, calls>>
  BY DEF StopOld, Rest, At
<1>2. sid \in Session /\ lock = c
  BY <1>1 DEF IInv, HoldersFit, HolderFits
<1>3. rest \in SUBSET procs /\ rest \subseteq leaked
  BY RestIsLeaked
<1>4. CASE (\E p \in NextPid : Spawn(sid, p, rest)) /\ Go(c, "ready") /\ UNCHANGED lock
  <2>1. PICK p \in NextPid : Spawn(sid, p, rest)
    BY <1>4
  <2>2. Procs' /\ gate'.sid = sid
    BY <1>1, <1>2, <1>3, <2>1, SpawnFits
  <2>3. "ready" \in Steps
    BY DEF Steps
  <2>4. PICK d \in Conn : /\ conn' = [conn EXCEPT ![c] = d]
                          /\ d.pc = "ready" /\ d.sid = conn[c].sid /\ d.busy = conn[c].busy
    BY <1>4, <2>3, GoFields
  <2>5. active' = Cardinality(Counted')
    BY <1>1, <2>4, NotCounted
  <2>6. lock \in Client \union {None, "watchdog"} /\ lock # "watchdog"
    BY <1>2, GateAssumption
  <2>7. QED BY <1>1, <1>2, <1>4, <2>2, <2>4, <2>5, <2>6, SameCalls, CallStep
<1>5. CASE SpawnFails(sid, rest) /\ Answered(c) /\ Unlock
  <2>1. Procs'
    BY <1>1, <1>2, <1>3, <1>5, SpawnFailsFits
  <2>2. QED BY <1>1, <1>2, <1>5, <2>1, AnsweredFits DEF Unlock
<1>6. QED BY <1>4, <1>5 DEF StopOld

LEMMA AnswerFits ==
    ASSUME IInv, NEW c \in Client, Ready(c) \/ NotReady(c)
    PROVE  IInv'
<1>1. /\ conn[c].pc = "ready" /\ Answered(c) /\ Unlock
      /\ UNCHANGED <<active, watch, phase, crashes, gate, bornFor, procs, port, leaked, calls>>
  BY DEF Ready, NotReady, Rest, At
<1>2. Procs' /\ lock = c
  BY <1>1, SameProcs DEF IInv, HoldersFit, HolderFits
<1>3. QED BY <1>1, <1>2, AnsweredFits DEF Unlock

-----------------------------------------------------------------------------
(* Upgrades and queries *)

\* A step of a connection that has nothing to do with the lock.
LEMMA Unlocked ==
    ASSUME IInv, NEW c \in Client, NEW d \in Conn, conn' = [conn EXCEPT ![c] = d],
           conn[c].pc \notin {"stop", "ready"}, d.pc \notin {"lock", "stop", "ready"},
           active' = Cardinality(Counted'),
           UNCHANGED <<gate, bornFor, procs, port, lock, watch, phase, leaked, calls, crashes>>
    PROVE  IInv'
<1>1. Procs'
  BY SameProcs
<1>2. lock # c /\ lock \in Client \union {None, "watchdog"}
  BY DEF IInv, HoldersFit, HolderFits, TypeOK
<1>3. QED BY <1>1, <1>2, SameCalls, CallStep

\* One connection more is counted, and so it is by the handler.
LEMMA OneMore ==
    ASSUME IInv, NEW c \in Client, NEW d \in Conn, conn' = [conn EXCEPT ![c] = d],
           conn[c].pc \notin {"route", "relay"}, d.pc \in {"route", "relay"},
           active' = active + 1
    PROVE  active' = Cardinality(Counted')
<1>1. /\ conn'[c] = d /\ \A q \in Client : q # c => conn'[q] = conn[q]
  BY ConnUpdate
<1>2. Counted' = Counted \union {c} /\ c \notin Counted
  BY <1>1 DEF Counted
<1>3. Cardinality(Counted') = Cardinality(Counted) + 1
  BY <1>2, CountedIsFinite, FS_AddElement
<1>4. QED BY <1>3 DEF IInv, TypeOK, Counted

LEMMA OneLess ==
    ASSUME IInv, NEW c \in Client, NEW d \in Conn, conn' = [conn EXCEPT ![c] = d],
           conn[c].pc \in {"route", "relay"}, d.pc \notin {"route", "relay"}, active' = Left
    PROVE  active' = Cardinality(Counted')
<1>1. /\ conn'[c] = d /\ \A q \in Client : q # c => conn'[q] = conn[q]
  BY ConnUpdate
<1>2. Counted' = Counted \ {c} /\ c \in Counted
  BY <1>1 DEF Counted
<1>3. Cardinality(Counted') = Cardinality(Counted) - 1
  BY <1>2, CountedIsFinite, FS_RemoveElement
<1>4. QED BY <1>3 DEF IInv, TypeOK, Counted, Left

LEMMA UseFits ==
    ASSUME IInv, NEW c \in Client,
           Query(c) \/ Upgrade(c) \/ Open(c) \/ Route(c) \/ Relayed(c)
    PROVE  IInv'
<1>1. UNCHANGED <<gate, bornFor, procs, port, lock, watch, phase, leaked, calls, crashes>>
  BY DEF Query, Upgrade, Open, Route, Relayed, Rest
<1>2. PICK f \in Conn : f = Free /\ f.pc = "free"
  BY FreeFields
<1>3. CASE Answered(c) /\ conn[c].pc = "wait" /\ UNCHANGED active
  <2>1. conn' = [conn EXCEPT ![c] = f]
    BY <1>2, <1>3 DEF Answered
  <2>2. active' = Cardinality(Counted')
    BY <1>2, <1>3, <2>1, NotCounted
  <2>3. QED BY <1>1, <1>2, <1>3, <2>1, <2>2, Unlocked
<1>4. CASE Go(c, "open") /\ conn[c].pc = "wait" /\ UNCHANGED active
  <2>1. "open" \in Steps
    BY DEF Steps
  <2>2. PICK d \in Conn : conn' = [conn EXCEPT ![c] = d] /\ d.pc = "open"
    BY <1>4, <2>1, GoFields
  <2>3. active' = Cardinality(Counted')
    BY <1>4, <2>2, NotCounted
  <2>4. QED BY <1>1, <1>4, <2>2, <2>3, Unlocked
<1>5. CASE Open(c)
  <2>1. "route" \in Steps
    BY DEF Steps
  <2>2. PICK d \in Conn : conn' = [conn EXCEPT ![c] = d] /\ d.pc = "route"
    BY <1>5, <2>1, GoFields DEF Open
  <2>3. active' = Cardinality(Counted')
    BY <1>5, <2>2, OneMore DEF Open, At
  <2>4. QED BY <1>1, <1>5, <2>2, <2>3, Unlocked DEF Open, At
<1>6. CASE Answered(c) /\ conn[c].pc \in {"route", "relay"} /\ active' = Left
  <2>1. conn' = [conn EXCEPT ![c] = f]
    BY <1>2, <1>6 DEF Answered
  <2>2. active' = Cardinality(Counted')
    BY <1>2, <1>6, <2>1, OneLess
  <2>3. QED BY <1>1, <1>2, <1>6, <2>1, <2>2, Unlocked
<1>7. CASE Route(c) /\ port # 0
  <2>1. port \in 0 .. MaxPid
    BY GateAssumption DEF IInv, TypeOK, Started, Pid
  <2>2. PICK x \in Conn : x = conn[c]
    BY ConnFields
  <2>3. [x EXCEPT !.pc = "relay", !.to = port] \in Conn /\ [x EXCEPT !.pc = "relay", !.to = port].pc = "relay"
    BY <2>1 DEF Conn, Steps
  <2>4. PICK d \in Conn : conn' = [conn EXCEPT ![c] = d] /\ d.pc = "relay"
    BY <1>7, <2>2, <2>3 DEF Route, IInv, TypeOK
  <2>5. conn[c].pc = "route" /\ UNCHANGED active
    BY <1>7 DEF Route, At
  <2>6. Counted' = Counted
    BY <2>4, <2>5, ConnUpdate DEF Counted
  <2>7. active' = Cardinality(Counted')
    BY <2>5, <2>6 DEF IInv, TypeOK, Counted
  <2>8. QED BY <1>1, <2>4, <2>5, <2>7, Unlocked
<1>8. QED BY <1>3, <1>4, <1>5, <1>6, <1>7 DEF Query, Upgrade, Route, Relayed, At, Rest

-----------------------------------------------------------------------------
(* The watchdog and the end of the instance *)

\* A step that is no connection's: the lock's holder, if it is one, keeps its browser
\* or loses it to a crash.
LEMMA WorldStep ==
    ASSUME IInv, Procs', UNCHANGED <<conn, active, calls>>,
           lock' \in Client \union {None, "watchdog"},
           \A q \in Client : lock' = q <=> lock = q,
           \A q \in Client : lock = q => gate' = gate /\ procs' \subseteq procs,
           watch' \in {"look", "lock", "ready"}, watch' = "ready" <=> lock' = "watchdog",
           phase' \in {"up", "stopping", "down"}, crashes' \in 0 .. MaxCrashes
    PROVE  IInv'
<1>1. TypeOK'
  BY DEF IInv, TypeOK, Procs
<1>2. HoldersFit'
  BY OthersFit DEF HoldersFit
<1>3. QED BY <1>1, <1>2 DEF IInv, Procs, WatchFits

LEMMA GuardFits ==
    ASSUME IInv, Guard
    PROVE  IInv'
<1>1. UNCHANGED <<conn, active, calls, phase, crashes>> /\ phase \in {"up", "stopping", "down"}
      /\ crashes \in 0 .. MaxCrashes
  BY DEF Guard, Look, Restart, Restarted, RestartFails, Conns, IInv, TypeOK
<1>2. "watchdog" \notin Client /\ "watchdog" # None /\ None \notin Client
  BY GateAssumption
<1>3. CASE Look
  <2>1. UNCHANGED <<gate, bornFor, procs, port, leaked, lock>> /\ watch = "look" /\ watch' = "lock"
    BY <1>3 DEF Look
  <2>2. Procs'
    BY <2>1, SameProcs
  <2>3. QED BY <1>1, <1>2, <2>1, <2>2, WorldStep DEF IInv, WatchFits, TypeOK
<1>4. CASE Restart
  <2>1. watch = "lock" /\ lock = None /\ UNCHANGED leaked
    BY <1>4 DEF Restart
  <2>2. \A q \in Client : lock # q
    BY <1>2, <2>1
  <2>3. CASE watch' = "look" /\ UNCHANGED <<gate, bornFor, procs, port, lock>>
    <3>1. Procs'
      BY <2>1, <2>3, SameProcs
    <3>2. QED BY <1>1, <1>2, <2>1, <2>2, <2>3, <3>1, WorldStep
  <2>4. CASE watch' = "ready" /\ lock' = "watchdog" /\ UNCHANGED <<gate, bornFor, procs, port>>
    <3>1. Procs'
      BY <2>1, <2>4, SameProcs
    <3>2. QED BY <1>1, <1>2, <2>1, <2>2, <2>4, <3>1, WorldStep
  <2>5. CASE /\ Exists /\ ~Running /\ \E p \in NextPid : Spawn(gate.sid, p, procs)
             /\ watch' = "ready" /\ lock' = "watchdog"
    <3>1. PICK p \in NextPid : Spawn(gate.sid, p, procs)
      BY <2>5
    <3>2. gate.sid \in Session
      BY <2>5 DEF Exists, IInv, TypeOK, Browser
    <3>3. procs \subseteq leaked
      BY <2>5, RestIsLeaked
    <3>4. Procs'
      BY <2>1, <3>1, <3>2, <3>3, SpawnFits
    <3>5. QED BY <1>1, <1>2, <2>1, <2>2, <2>5, <3>4, WorldStep
  <2>6. CASE /\ ~Running /\ gate' = NoBrowser /\ watch' = "look"
             /\ UNCHANGED <<bornFor, procs, port, lock>>
    <3>1. procs \subseteq leaked
      BY <2>6, RestIsLeaked
    <3>2. Procs'
      BY <2>1, <2>6, <3>1, ForgetFits DEF IInv, TypeOK
    <3>3. QED BY <1>1, <1>2, <2>1, <2>2, <2>6, <3>2, WorldStep
  <2>7. QED BY <1>4, <2>3, <2>4, <2>5, <2>6 DEF Restart
<1>5. CASE Restarted \/ RestartFails
  <2>1. watch = "ready" /\ watch' = "look" /\ lock' = None /\ lock = "watchdog"
    BY <1>5 DEF Restarted, RestartFails, Unlock, IInv, WatchFits
  <2>2. CASE Restarted
    <3>1. Procs'
      BY <2>2, SameProcs DEF Restarted
    <3>2. QED BY <1>1, <1>2, <2>1, <3>1, WorldStep
  <2>3. CASE RestartFails
    <3>1. /\ gate' = NoBrowser /\ leaked' = leaked \union (procs \intersect {gate.proc})
          /\ UNCHANGED <<bornFor, procs, port>>
      BY <2>3 DEF RestartFails
    <3>2. procs \subseteq leaked'
      BY <3>1, RestIsLeaked
    <3>3. Procs'
      BY <3>1, <3>2, ForgetFits DEF IInv, TypeOK
    <3>4. QED BY <1>1, <1>2, <2>1, <3>3, WorldStep
  <2>4. QED BY <1>5, <2>2, <2>3
<1>6. QED BY <1>3, <1>4, <1>5 DEF Guard

\* The signal ends every connection but the lock's holder, which is not counted.
LEMMA SignalFits ==
    ASSUME IInv, Signal
    PROVE  IInv'
<1>1. /\ phase' = "stopping" /\ active' = 0 /\ watch' = "look"
      /\ conn' = [c \in Client |-> IF lock = c THEN conn[c] ELSE Free]
      /\ lock' = IF lock = "watchdog" THEN None ELSE lock
      /\ UNCHANGED <<gate, bornFor, procs, port, leaked, calls, crashes>>
  BY DEF Signal
<1>2. conn' \in [Client -> Conn]
  BY <1>1, FreeFields DEF IInv, TypeOK, Conn
<1>3. \A c \in Client : conn'[c].pc \notin {"route", "relay"}
  BY <1>1, FreeFields DEF IInv, HoldersFit, HolderFits
<1>4. active' = Cardinality(Counted')
  BY <1>1, <1>3, FS_EmptySet DEF Counted
<1>5. "watchdog" \notin Client /\ "watchdog" # None /\ None \notin Client
  BY GateAssumption
<1>6. Procs'
  BY <1>1, SameProcs
<1>7. TypeOK'
  BY <1>1, <1>2, <1>4, <1>6 DEF IInv, TypeOK, Procs, Conn, Counted
<1>8. HoldersFit'
  <2> SUFFICES ASSUME NEW c \in Client PROVE HolderFits(c)'
    BY DEF HoldersFit
  <2>1. CASE lock = c
    <3>1. conn'[c] = conn[c] /\ lock' = lock
      BY <1>1, <1>5, <2>1
    <3>2. QED BY <1>1, <3>1, OthersFit
  <2>2. CASE lock # c
    <3>1. conn'[c] = Free /\ lock' # c
      BY <1>1, <1>5, <2>2
    <3>2. conn'[c].pc = "free"
      BY <3>1, FreeFields
    <3>3. QED BY <3>1, <3>2 DEF HolderFits
  <2>3. QED BY <2>1, <2>2
<1>9. QED BY <1>1, <1>5, <1>6, <1>7, <1>8 DEF IInv, Procs, WatchFits

LEMMA EndFits ==
    ASSUME IInv, Shutdown \/ (\E p \in Pid : Crash(p))
    PROVE  IInv'
<1>1. /\ lock \in Client \union {None, "watchdog"} /\ watch \in {"look", "lock", "ready"}
      /\ watch = "ready" <=> lock = "watchdog"
      /\ phase \in {"up", "stopping", "down"} /\ crashes \in 0 .. MaxCrashes
      /\ None \notin Client
  BY GateAssumption DEF IInv, TypeOK, WatchFits
<1>2. CASE Shutdown
  <2>1. /\ lock = None /\ phase' = "down" /\ Ended(gate.proc) /\ gate' = NoBrowser
        /\ UNCHANGED <<conn, active, calls, bornFor, lock, watch, leaked, crashes>>
    BY <1>2 DEF Shutdown, Stopped, Conns
  <2>2. procs' \subseteq leaked /\ procs' \subseteq procs
    BY <2>1, RestIsLeaked DEF Ended
  <2>3. port' \in procs' \union {0}
    BY <2>1 DEF Ended, IInv, TypeOK
  <2>4. Procs'
    BY <2>1, <2>2, <2>3, ForgetFits DEF IInv, TypeOK
  <2>5. QED BY <1>1, <2>1, <2>4, WorldStep
<1>3. ASSUME NEW p \in Pid, Crash(p) PROVE IInv'
  <2>1. /\ Ended(p) /\ crashes < MaxCrashes /\ crashes' = crashes + 1
        /\ UNCHANGED <<conn, active, calls, gate, bornFor, lock, watch, phase, leaked>>
    BY <1>3 DEF Crash, Conns
  <2>2. Procs' /\ procs' \subseteq procs
    BY <2>1, EndedFits
  <2>3. crashes' \in 0 .. MaxCrashes
    BY <1>1, <2>1, GateAssumption
  <2>4. QED BY <1>1, <2>1, <2>2, <2>3, WorldStep
<1>4. QED BY <1>2, <1>3

-----------------------------------------------------------------------------
(* The invariant *)

LEMMA InitFits == Init => IInv
<1> SUFFICES ASSUME Init PROVE IInv
  OBVIOUS
<1>1. /\ gate = NoBrowser /\ bornFor = [p \in Pid |-> None] /\ procs = {} /\ port = 0
      /\ lock = None /\ conn = [c \in Client |-> Free] /\ active = 0
      /\ watch = "look" /\ phase = "up" /\ leaked = {} /\ calls = 0 /\ crashes = 0
  BY DEF Init
<1>2. \A c \in Client : conn[c] \in Conn /\ conn[c].pc = "free"
  BY <1>1, FreeFields
<1>3. active = Cardinality(Counted)
  BY <1>1, <1>2, FS_EmptySet DEF Counted
<1>4. TypeOK
  BY <1>1, <1>2, <1>3, GateAssumption DEF TypeOK, Conn, Counted
<1>5. HoldersFit
  BY <1>1, <1>2, GateAssumption DEF HoldersFit, HolderFits
<1>6. WatchFits /\ GateBorn /\ EveryProcessOwned
  BY <1>1, NoBrowserFields, GateAssumption DEF WatchFits, GateBorn, EveryProcessOwned
<1>7. QED BY <1>4, <1>5, <1>6 DEF IInv

LEMMA NextFits == IInv /\ [Next]_vars => IInv'
<1> SUFFICES ASSUME IInv, [Next]_vars PROVE IInv'
  OBVIOUS
<1>1. ASSUME NEW c \in Client,
             \/ \E sid \in Session : CallStart(c, sid)
             \/ \E sid \in Session \union {None}, op \in {"ws", "query"} : CallUse(c, sid, op)
      PROVE  IInv'
  BY <1>1, CallFits
<1>2. ASSUME NEW c \in Client, Serve(c) \/ Relayed(c) PROVE IInv'
  BY <1>2, EnsureFits, StopOldFits, AnswerFits, UseFits DEF Serve
<1>3. CASE Guard \/ Signal \/ Shutdown \/ (\E p \in Pid : Crash(p))
  BY <1>3, GuardFits, SignalFits, EndFits
<1>4. CASE UNCHANGED vars
  <2>1. UNCHANGED <<gate, bornFor, procs, port, lock, conn, active, watch, phase, leaked, calls, crashes>>
    BY <1>4 DEF vars
  <2>2. Procs'
    BY <2>1, SameProcs
  <2>3. QED BY <2>1, <2>2, WorldStep DEF IInv, TypeOK, WatchFits
<1>5. QED BY <1>1, <1>2, <1>3, <1>4 DEF Next

LEMMA Invariance == Spec => []IInv
BY InitFits, NextFits, PTL DEF Spec

-----------------------------------------------------------------------------
(* The theorems *)

\* The gate's own state agrees with the processes that run: every running browser is
\* the manager's, or one that a failed restart let go of.
THEOREM GateIsSound == Spec => []GateSound
<1>1. IInv => GateSound
  BY DEF IInv, GateSound
<1>2. QED BY <1>1, Invariance, PTL

\* What a start that is answered with success finds at the port.
LEMMA OwnServed ==
    ASSUME IInv, NEW c \in Client, conn[c].pc = "ready", Running, port # 0, leaked = {}
    PROVE  gate.sid = conn[c].sid /\ bornFor[port] = conn[c].sid
<1>1. gate.sid = conn[c].sid
  BY DEF IInv, HoldersFit, HolderFits
<1>2. port = gate.proc
  BY DEF IInv, TypeOK, EveryProcessOwned
<1>3. QED BY <1>1, <1>2 DEF IInv, GateBorn

\* No step of a start that counted connections stops the browser they use.
LEMMA BusySpared ==
    ASSUME IInv, [Next]_vars, NEW c \in Client, conn[c].busy, lock = c, gate.proc \in procs
    PROVE  gate.proc \in procs' \/ crashes' # crashes
<1>1. conn[c].pc = "ready" /\ lock \in Client /\ lock # None
  BY GateAssumption DEF IInv, HoldersFit, HolderFits, Running
<1>2. \A q \in Client : conn[q].pc = "stop" => FALSE
  BY <1>1 DEF IInv, HoldersFit, HolderFits
<1>3. ASSUME NEW q \in Client, Serve(q) \/ Relayed(q) PROVE UNCHANGED procs
  BY <1>1, <1>2, <1>3 DEF Serve, Ensure, StopOld, Ready, NotReady, Query, Upgrade, Open, Route,
     Relayed, At
<1>4. ASSUME NEW q \in Client,
             \/ \E sid \in Session : CallStart(q, sid)
             \/ \E sid \in Session \union {None}, op \in {"ws", "query"} : CallUse(q, sid, op)
      PROVE  UNCHANGED procs
  BY <1>4 DEF CallStart, CallUse
<1>5. ASSUME Guard \/ Signal \/ Shutdown PROVE UNCHANGED procs
  BY <1>1, <1>5 DEF Guard, Look, Restart, Restarted, RestartFails, Signal, Shutdown
<1>6. ASSUME NEW p \in Pid, Crash(p) PROVE crashes' # crashes
  BY <1>6 DEF Crash, IInv, TypeOK
<1>7. CASE UNCHANGED vars
  BY <1>7 DEF vars
<1>8. QED BY <1>3, <1>4, <1>5, <1>6, <1>7 DEF Next

\* A start that answers 200 while no browser has been forgotten has its own session's
\* at the port, and no start stops a browser that it found in use, whatever the order
\* in which starts, crashes and restarts get the lock.
THEOREM StartsAreSafe == Spec => StartsHold
<1>1. IInv /\ [Next]_vars =>
        [\A c \in Client : (conn[c].pc = "ready" /\ conn'[c].pc = "free" /\ Running /\ lock' = None
                          /\ port # 0 /\ phase' = "up" /\ leaked = {})
          => (gate.sid = conn[c].sid /\ bornFor[port] = conn[c].sid)]_vars
  BY OwnServed
<1>2. IInv /\ [Next]_vars =>
        [\A c \in Client : (conn[c].busy /\ lock = c /\ gate.proc \in procs)
          => (gate.proc \in procs' \/ crashes' # crashes)]_vars
  BY BusySpared
<1>3. QED BY <1>1, <1>2, Invariance, PTL DEF Spec, StartsHold, StartServesOwn, BusyIsRespected
=============================================================================
