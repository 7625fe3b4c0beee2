----------------------------- MODULE BrowserGate -----------------------------
(***************************************************************************)
(* aliyunFC/cloakbrowser/app: the supervisor of one function instance.  It  *)
(* serves HTTP and WebSocket on one port and keeps one Chromium behind it,  *)
(* started on GET /start by session, switched when idle, restarted by a     *)
(* watchdog when it crashes.  All of it is one event loop; the steps are    *)
(* what happens between two awaits.  Every Chromium is told to listen on    *)
(* the same CDP port, which belongs to the first that binds it.             *)
(***************************************************************************)
EXTENDS Naturals, FiniteSets

CONSTANTS Session,    \* sessionID headers
          Client,     \* connections to the port
          MaxPid,     \* bound: Chromium processes started
          MaxCalls,   \* bound: requests
          MaxCrashes, \* bound: Chromium processes that end by themselves
          None

ASSUME GateAssumption ==
    /\ MaxPid \in Nat /\ MaxCalls \in Nat /\ MaxCrashes \in Nat
    /\ None \notin Session /\ IsFiniteSet(Client)
    /\ None \notin Client /\ "watchdog" \notin Client \union {None}

VARIABLES gate,     \* the manager: its browser object, or none
          bornFor,  \* the session each process was started for
          procs,    \* the processes that run
          port,     \* the process that listens on the CDP port, or 0
          lock,     \* who holds the manager's lock
          conn,     \* the requests in progress
          active,   \* active_ws: connections inside the WebSocket handler
          watch,    \* the watchdog's step
          phase,    \* up, stopping, down
          leaked,   \* history: running processes the manager let go of
          calls, crashes

vars == <<gate, bornFor, procs, port, lock, conn, active, watch, phase, leaked, calls, crashes>>

Pid == 1..MaxPid
Started == {p \in Pid : bornFor[p] # None}

\* The object exists from its construction until it is stopped or dropped;
\* its process may have failed to start (0) or have ended.
NoBrowser == [sid |-> None, proc |-> 0]
Browser == [sid : Session, proc : 0..MaxPid]
Exists == gate # NoBrowser
Running == gate.proc \in procs

Free == [pc |-> "free", op |-> "none", sid |-> None, busy |-> FALSE, to |-> 0]
Steps == {"free", "lock", "stop", "ready", "wait", "open", "route", "relay"}

TypeOK ==
    /\ gate \in Browser \union {NoBrowser}
    /\ bornFor \in [Pid -> Session \union {None}]
    /\ procs \subseteq Started /\ leaked \subseteq Started /\ port \in procs \union {0}
    /\ lock \in Client \union {None, "watchdog"}
    /\ conn \in [Client -> [pc : Steps, op : {"none", "start", "ws", "query"},
                            sid : Session \union {None}, busy : BOOLEAN, to : 0..MaxPid]]
    /\ active = Cardinality({c \in Client : conn[c].pc \in {"route", "relay"}})
    /\ watch \in {"look", "lock", "ready"} /\ phase \in {"up", "stopping", "down"}
    /\ calls \in 0..MaxCalls /\ crashes \in 0..MaxCrashes

Init ==
    /\ gate = NoBrowser /\ bornFor = [p \in Pid |-> None] /\ procs = {} /\ port = 0
    /\ lock = None /\ conn = [c \in Client |-> Free] /\ active = 0
    /\ watch = "look" /\ phase = "up" /\ leaked = {} /\ calls = 0 /\ crashes = 0

-----------------------------------------------------------------------------
(* Processes.                                                               *)

At(c, step) == phase # "down" /\ conn[c].pc = step
Go(c, step) == conn' = [conn EXCEPT ![c].pc = step]
Answered(c) == conn' = [conn EXCEPT ![c] = Free]

Ended(p) ==
    /\ procs' = procs \ {p}
    /\ port' = IF port = p THEN 0 ELSE port

\* Popen: the new process listens if nobody does, and runs anyway if somebody
\* else still holds the port; rest are the processes that run besides it.
Spawn(sid, p, rest) ==
    /\ gate' = [sid |-> sid, proc |-> p]
    /\ bornFor' = [bornFor EXCEPT ![p] = sid]
    /\ procs' = rest \union {p}
    /\ port' = IF port \in rest THEN port ELSE p
NextPid == {Cardinality(Started) + 1} \intersect Pid

\* Popen raises: the object stays, without a process.
SpawnFails(sid, rest) ==
    /\ gate' = [sid |-> sid, proc |-> 0]
    /\ procs' = rest
    /\ port' = IF port \in rest THEN port ELSE 0
    /\ UNCHANGED bornFor

-----------------------------------------------------------------------------
(* GET /start: ensure() under the manager's lock.                            *)

Rest == <<active, watch, phase, crashes>>

\* The number of active connections is read before the lock is waited for.
CallStart(c, sid) ==
    /\ phase = "up" /\ At(c, "free") /\ calls < MaxCalls
    /\ calls' = calls + 1
    /\ conn' = [conn EXCEPT ![c] = [Free EXCEPT !.pc = "lock", !.op = "start", !.sid = sid,
                                                !.busy = active > 0]]
    /\ UNCHANGED <<Rest, gate, bornFor, procs, port, lock, leaked>>

\* Mutant: any running browser will do.
ReuseAny(sid) == Running
Reusable(sid) == Running /\ gate.sid = sid

\* Mutant: the old browser is not stopped first.
ReplacesNothing == FALSE
Replaces == Exists

\* Another session's browser runs, and connections were active.
Refused(c) == ~Reusable(conn[c].sid) /\ Running /\ conn[c].busy

\* Mutant: a failure leaves the lock taken.
StayLocked == UNCHANGED lock
Unlock == lock' = None

\* Reuse, refuse to throw others out, switch after a stop, or start afresh.
Ensure(c) ==
    LET sid == conn[c].sid
    IN /\ At(c, "lock") /\ lock = None
       /\ IF Refused(c)
          THEN Answered(c) /\ UNCHANGED <<gate, bornFor, procs, port, lock>>
          ELSE \/ /\ Reusable(sid)
                  /\ Go(c, "ready") /\ lock' = c /\ UNCHANGED <<gate, bornFor, procs, port>>
               \/ /\ ~Reusable(sid) /\ Replaces
                  /\ Go(c, "stop") /\ lock' = c /\ UNCHANGED <<gate, bornFor, procs, port>>
               \/ /\ ~Reusable(sid) /\ ~Replaces
                  /\ \E p \in NextPid : Spawn(sid, p, procs)
                  /\ Go(c, "ready") /\ lock' = c
               \/ /\ ~Reusable(sid) /\ ~Replaces
                  /\ SpawnFails(sid, procs)
                  /\ Answered(c) /\ UNCHANGED lock
       /\ UNCHANGED <<Rest, leaked, calls>>

\* The old process is stopped in a thread, its object replaced after it.
StopOld(c) ==
    LET sid == conn[c].sid
        rest == procs \ {gate.proc}
    IN /\ At(c, "stop")
       /\ \/ (\E p \in NextPid : Spawn(sid, p, rest)) /\ Go(c, "ready") /\ UNCHANGED lock
          \/ SpawnFails(sid, rest) /\ Answered(c) /\ Unlock
       /\ UNCHANGED <<Rest, leaked, calls>>

\* wait_ready polls the port, whoever answers there: 200.
Ready(c) ==
    /\ At(c, "ready") /\ Running /\ port # 0
    /\ Answered(c) /\ Unlock
    /\ UNCHANGED <<Rest, gate, bornFor, procs, port, leaked, calls>>

\* The process has ended, or does not answer in time: 503, the object stays.
NotReady(c) ==
    /\ At(c, "ready")
    /\ Answered(c) /\ Unlock
    /\ UNCHANGED <<Rest, gate, bornFor, procs, port, leaked, calls>>

-----------------------------------------------------------------------------
(* WebSocket upgrades and the /json endpoints.                               *)

\* The checks of process_request: a browser exists, and it is the session's;
\* an upgrade without a session header is not compared.
CallUse(c, sid, op) ==
    /\ phase = "up" /\ At(c, "free") /\ calls < MaxCalls
    /\ calls' = calls + 1
    /\ Exists /\ (sid = None \/ gate.sid = sid)
    /\ conn' = [conn EXCEPT ![c] = [Free EXCEPT !.pc = "wait", !.op = op, !.sid = sid]]
    /\ UNCHANGED <<Rest, gate, bornFor, procs, port, lock, leaked>>

\* The wait for the port ends: the query is answered from it, or with 503.
Query(c) ==
    /\ At(c, "wait") /\ conn[c].op = "query"
    /\ Answered(c)
    /\ UNCHANGED <<Rest, gate, bornFor, procs, port, lock, leaked, calls>>

\* The port answers and the upgrade shakes hands, or nothing does in time: 503.
Upgrade(c) ==
    /\ At(c, "wait") /\ conn[c].op = "ws"
    /\ (port # 0 /\ Go(c, "open")) \/ Answered(c)
    /\ UNCHANGED <<Rest, gate, bornFor, procs, port, lock, leaked, calls>>

Left == active - 1

\* The handler counts the connection, ...
Open(c) ==
    /\ At(c, "open")
    /\ Go(c, "route") /\ active' = active + 1
    /\ UNCHANGED <<gate, bornFor, procs, port, lock, watch, phase, leaked, calls, crashes>>

\* ... asks the port which browser there is now, ...
Route(c) ==
    /\ At(c, "route")
    /\ IF port = 0 THEN Answered(c) /\ active' = Left
       ELSE conn' = [conn EXCEPT ![c].pc = "relay", ![c].to = port] /\ UNCHANGED active
    /\ UNCHANGED <<gate, bornFor, procs, port, lock, watch, phase, leaked, calls, crashes>>

\* ... and relays until the client leaves or that browser is gone.
Relayed(c) ==
    /\ At(c, "relay")
    /\ Answered(c) /\ active' = Left
    /\ UNCHANGED <<gate, bornFor, procs, port, lock, watch, phase, leaked, calls, crashes>>

-----------------------------------------------------------------------------
(* The watchdog and the end of the instance.                                 *)

Conns == <<conn, active, calls>>

\* A process that was started and has ended.
Crashed == gate.proc # 0 /\ ~Running

Look ==
    /\ phase = "up" /\ watch = "look" /\ Crashed
    /\ watch' = "lock"
    /\ UNCHANGED <<Conns, gate, bornFor, procs, port, lock, phase, leaked, crashes>>

\* restart_current: start() is a no-op on a process that runs again by now.
Restart ==
    /\ phase = "up" /\ watch = "lock" /\ lock = None
    /\ \/ /\ ~Exists /\ watch' = "look" /\ UNCHANGED <<gate, bornFor, procs, port, lock>>
       \/ /\ Exists /\ Running
          /\ watch' = "ready" /\ lock' = "watchdog" /\ UNCHANGED <<gate, bornFor, procs, port>>
       \/ /\ Exists /\ ~Running
          /\ \E p \in NextPid : Spawn(gate.sid, p, procs)
          /\ watch' = "ready" /\ lock' = "watchdog"
       \/ /\ Exists /\ ~Running
          /\ gate' = NoBrowser /\ watch' = "look" /\ UNCHANGED <<bornFor, procs, port, lock>>
    /\ UNCHANGED <<Conns, phase, leaked, crashes>>

Restarted ==
    /\ phase = "up" /\ watch = "ready" /\ Running /\ port # 0
    /\ watch' = "look" /\ Unlock
    /\ UNCHANGED <<Conns, gate, bornFor, procs, port, phase, leaked, crashes>>

\* The restarted browser is not ready in time: the manager forgets it, and a
\* process that still runs is nobody's.
RestartFails ==
    /\ phase = "up" /\ watch = "ready"
    /\ gate' = NoBrowser
    /\ leaked' = leaked \union (procs \intersect {gate.proc})
    /\ watch' = "look" /\ Unlock
    /\ UNCHANGED <<Conns, bornFor, procs, port, phase, crashes>>

\* SIGTERM: the watchdog and the server are cancelled, connections end; a
\* start that holds the lock is waited for by the manager's own stop.
Signal ==
    /\ phase = "up"
    /\ phase' = "stopping"
    /\ conn' = [c \in Client |-> IF lock = c THEN conn[c] ELSE Free]
    /\ active' = 0 /\ watch' = "look"
    /\ lock' = IF lock = "watchdog" THEN None ELSE lock
    /\ UNCHANGED <<gate, bornFor, procs, port, leaked, calls, crashes>>

Stopped == Ended(gate.proc)

Shutdown ==
    /\ phase = "stopping" /\ lock = None
    /\ phase' = "down"
    /\ Stopped
    /\ gate' = NoBrowser
    /\ UNCHANGED <<Conns, bornFor, lock, watch, leaked, crashes>>

Crash(p) ==
    /\ p \in procs /\ crashes < MaxCrashes
    /\ crashes' = crashes + 1
    /\ Ended(p)
    /\ UNCHANGED <<Conns, gate, bornFor, lock, watch, phase, leaked>>

Serve(c) == Ensure(c) \/ StopOld(c) \/ Ready(c) \/ NotReady(c) \/ Query(c) \/ Upgrade(c) \/ Open(c) \/ Route(c)
Guard == Look \/ Restart \/ Restarted \/ RestartFails

Next ==
    \/ \E c \in Client :
         \/ \E sid \in Session : CallStart(c, sid)
         \/ \E sid \in Session \union {None}, op \in {"ws", "query"} : CallUse(c, sid, op)
         \/ Serve(c)
         \/ Relayed(c)
    \/ Guard
    \/ Signal \/ Shutdown
    \/ \E p \in Pid : Crash(p)

Spec == Init /\ [][Next]_vars

\* The event loop runs every task; a relay lasts as long as its client likes.
Fairness == WF_vars(Guard) /\ WF_vars(Shutdown) /\ \A c \in Client : WF_vars(Serve(c))
FairSpec == Spec /\ Fairness

-----------------------------------------------------------------------------
(* Properties.                                                              *)

\* Every running process is the manager's, except those a failed restart let
\* go of (browser.py:405): switching and restarting stop what they replace.
EveryProcessOwned == procs \ leaked \subseteq {gate.proc}

\* The gate's own state agrees with the processes that run.
GateSound == TypeOK /\ EveryProcessOwned

\* A start that answers 200 has the session's own browser on the port, unless
\* a forgotten process still holds it: reuse, switch and restart happen under
\* one lock, kept until the port answers.
StartServesOwn ==
    [][\A c \in Client : (conn[c].pc = "ready" /\ conn'[c].pc = "free" /\ Running /\ lock' = None
                          /\ port # 0 /\ phase' = "up" /\ leaked = {})
          => (gate.sid = conn[c].sid /\ bornFor[port] = conn[c].sid)]_vars

\* A counted connection pins its session's browser against every start that
\* asks afterwards, however long that start waits for the lock behind others.
BusyIsRespected ==
    [][\A c \in Client : (conn[c].busy /\ lock = c /\ gate.proc \in procs)
          => (gate.proc \in procs' \/ crashes' # crashes)]_vars

\* A start gets its own browser, and takes nobody's that is counted.
StartsHold == StartServesOwn /\ BusyIsRespected

\* A crashed browser is running again, or forgotten, while the instance is up.
CrashHeals == (gate.proc # 0 /\ ~Running) ~> (gate.proc = 0 \/ Running \/ phase # "up")

\* Every request is answered or becomes a relay; nobody waits for the lock
\* for ever, and shutting down ends.
EveryoneAnswered ==
    \A c \in Client : (conn[c].pc # "free") ~> (conn[c].pc \in {"free", "relay"})
ShutsDown == (phase = "stopping") ~> (phase = "down" /\ procs \subseteq leaked)

\* Crashes heal, requests are answered, and a signal ends the instance.
GateSettles == CrashHeals /\ EveryoneAnswered /\ ShutsDown

\* What ws_proxy.py:401 says of a request of another session: this instance's
\* browser never serves it.
NeverServesOther ==
    \A c \in Client : (conn[c].pc = "relay" /\ conn[c].sid # None /\ leaked = {})
        => bornFor[conn[c].to] = conn[c].sid

\* What browser.py:288 says: a session with active connections is not thrown
\* out by another's start.
NeverThrowsOut ==
    [][\A c \in Client, d \in Client :
          (conn[c].pc = "stop" /\ conn'[c].pc # "stop" /\ phase' = phase
           /\ conn[d].pc = "relay" /\ conn[d].to = gate.proc) => conn[d].to \in procs']_vars

\* What browser.py:282 says: at most one browser process per instance.
AtMostOneBrowser == Cardinality(procs) <= 1
=============================================================================
