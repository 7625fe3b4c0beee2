----------------------------- MODULE BrowserPool -----------------------------
(***************************************************************************)
(* core/browser: the manager that hands out browsers by business session,  *)
(* its two back ends and the table browser_instance they share.            *)
(*   local  the server launches Chrome itself and a reaper in the same      *)
(*          process stops idle and old ones;                                *)
(*   cloud  a function starts Chrome on GET /start and its platform ends    *)
(*          idle sessions on its own; nothing runs between requests.        *)
(* Every await of acquire, get, destroy and of the reaper is a step, so     *)
(* requests overlap with each other, with the reaper and with a restart.    *)
(***************************************************************************)
EXTENDS Naturals, FiniteSets

CONSTANTS Session,      \* business session ids
          Inherited,    \* bound: those that may have a row from an earlier run
          Request,      \* coroutines that call the manager
          Concurrency,  \* browser_concurrency
          MaxPid,       \* bound: browsers launched in a behaviour
          MaxCalls,     \* bound: calls of the manager
          MaxFaults,    \* bound: browsers that end by themselves, restarts, failed stops
          Mode,         \* the deployments considered
          None          \* no session

ASSUME PoolAssumption ==
    /\ IsFiniteSet(Session) /\ Inherited \subseteq Session /\ IsFiniteSet(Request) /\ Request # {}
    /\ Concurrency \in Nat \ {0} /\ MaxPid \in Nat \ {0} /\ MaxCalls \in Nat /\ MaxFaults \in Nat
    /\ Mode \subseteq {"local", "cloud"} /\ None \notin Session

VARIABLES mode,      \* which back end the deployment uses
          row,       \* table browser_instance
          owner,     \* the session each launched browser was launched for
          alive,     \* the browsers that run
          aged,      \* those older than the longest life allowed (ttl)
          req,       \* the requests in flight
          reaper,    \* the reaper's round
          lost,      \* history: local browsers that left the table running
          refusedEmpty,  \* history: refused at capacity with no browser running
          calls,     \* calls and faults so far
          faults

vars == <<mode, row, owner, alive, aged, req, reaper, lost, refusedEmpty, calls, faults>>

Pid == 1..MaxPid
Launched == {p \in Pid : owner[p] # None}

\* cfg is decoded run-time data: the browser whose port and birth it
\* describes (meta) and whether last_used lies within the idle limit.
NoRow == [pid |-> 0, meta |-> 0, fresh |-> FALSE]
Row == [pid : Pid, meta : Pid, fresh : BOOLEAN]
Rows == {s \in Session : row[s] # NoRow}

Idle == [pc |-> "idle", op |-> "none", s |-> None, seen |-> NoRow, new |-> 0]
Ops == {"acquire", "get", "destroy"}
Steps == {"probe", "touch", "stop", "delete", "count", "launch", "insert",
          "stopOwn", "reread", "granted", "using", "idle"}
Asleep == [pc |-> "sleep", todo |-> {}, s |-> None, seen |-> NoRow]

TypeOK ==
    /\ mode \in Mode
    /\ row \in [Session -> Row \union {NoRow}]
    /\ owner \in [Pid -> Session \union {None}]
    /\ alive \subseteq Launched /\ aged \subseteq Launched /\ lost \subseteq Launched
    /\ req \in [Request -> [pc : Steps, op : Ops \union {"none"}, s : Session \union {None},
                            seen : Row \union {NoRow}, new : 0..MaxPid]]
    /\ reaper.pc \in {"sleep", "judge", "touch", "stop", "delete"}
    /\ refusedEmpty \in BOOLEAN /\ calls \in 0..MaxCalls /\ faults \in 0..MaxFaults

\* The server may start on a table that an earlier run left with one row,
\* whose browser still runs or does not.
Init ==
    /\ mode \in Mode
    /\ \E S \in {{}} \union {{s} : s \in Inherited} :
         /\ row = [s \in Session |-> IF s \in S THEN [pid |-> 1, meta |-> 1, fresh |-> FALSE]
                                   ELSE NoRow]
         /\ owner = [p \in Pid |-> IF p = 1 /\ S # {} THEN CHOOSE s \in S : TRUE ELSE None]
    /\ alive \in SUBSET Launched /\ aged = {} /\ lost = {}
    /\ req = [r \in Request |-> Idle]
    /\ reaper = Asleep
    /\ refusedEmpty = FALSE /\ calls = 0 /\ faults = 0

-----------------------------------------------------------------------------
(* Shared pieces.                                                           *)

At(r, step) == req[r].pc = step
Go(r, step) == req' = [req EXCEPT ![r].pc = step]
Done(r) == req' = [req EXCEPT ![r] = Idle]
System == <<mode, reaper, refusedEmpty, calls, faults>>

\* The function's session key is a hash of the business session; a local
\* browser answers at its port.
Running(s) == {p \in alive : owner[p] = s}
StopTree(pid) == alive' = alive \ {pid}
\* The attempt ends with an exception, and the process runs on.
SpareTree(pid) == lost' = lost \union ({pid} \intersect alive) /\ UNCHANGED alive
Faulted == faults < MaxFaults /\ faults' = faults + 1

\* A live process whose debugging port answers; a session that answers.
Lives(pid) == pid \in alive
PortAnswers(pid) == Lives(pid)
SessionAnswers(s) == Running(s) # {}

\* A CDP client is connected to the debugging port of browser p.
Connected(p) == \E r \in Request : At(r, "using") /\ req[r].seen.meta = p

\* DELETE ... WHERE sessionid = s, whatever browser the row now names.
DeleteRow(s, seen) ==
    /\ row' = [row EXCEPT ![s] = NoRow]
    /\ lost' = IF mode = "local" /\ row[s] # NoRow /\ row[s].pid # seen.pid
               THEN lost \union {row[s].pid} ELSE lost

\* UPDATE of cfg alone: the pid column keeps the browser it names.
TouchRow(s, seen) ==
    row' = IF row[s] = NoRow THEN row
           ELSE [row EXCEPT ![s].meta = seen.meta, ![s].fresh = TRUE]

-----------------------------------------------------------------------------
(* Requests.                                                                *)

\* A request uses the pid and the run-time data it read, never last_used.
Snapshot(s) == [row[s] EXCEPT !.fresh = FALSE]

\* The row is read once; everything until the next write relies on it.
AfterRead(s, op, again) ==
    IF row[s] # NoRow THEN IF op = "destroy" THEN "stop" ELSE "probe"
    ELSE IF op = "acquire" /\ ~again THEN "count" ELSE "idle"

\* A caller asks for a browser, fetches the one it has, or ends it.
Call(r, s, op) ==
    LET next == IF op = "destroy" /\ mode = "cloud" THEN "stop"
                ELSE AfterRead(s, op, FALSE)
    IN /\ At(r, "idle") /\ calls < MaxCalls /\ next # "idle"
       /\ calls' = calls + 1
       /\ req' = [req EXCEPT ![r] = [pc |-> next, op |-> op, s |-> s, new |-> 0,
                                     seen |-> Snapshot(s)]]
       /\ UNCHANGED <<mode, reaper, refusedEmpty, faults, row, owner, alive, aged, lost>>

\* The loser of an insert looks for the winner's browser.
ReadAgain(r) ==
    LET s == req[r].s
    IN /\ At(r, "reread")
       /\ IF AfterRead(s, "acquire", TRUE) = "idle" THEN Done(r)
          ELSE req' = [req EXCEPT ![r].pc = "probe", ![r].seen = Snapshot(s)]
       /\ UNCHANGED <<System, row, owner, alive, aged, lost>>

\* Reuse needs both; a browser that hangs is treated as dead.
Probe(r) ==
    LET seen == req[r].seen
    IN /\ At(r, "probe")
       /\ \/ /\ IF mode = "cloud" THEN SessionAnswers(req[r].s)
                ELSE Lives(seen.pid) /\ PortAnswers(seen.meta)
             /\ Go(r, IF mode = "cloud" THEN "granted" ELSE "touch")
          \/ Go(r, "stop")
       /\ UNCHANGED <<System, row, owner, alive, aged, lost>>

\* Reuse refreshes last_used from the run-time data read before the probe.
Touch(r) ==
    /\ At(r, "touch")
    /\ TouchRow(req[r].s, req[r].seen)
    /\ Go(r, "granted")
    /\ UNCHANGED <<System, owner, alive, aged, lost>>

\* The local back end kills the process tree of the pid it read.
Stop(r) ==
    /\ mode = "local" /\ At(r, "stop")
    /\ StopTree(req[r].seen.pid)
    /\ Go(r, "delete")
    /\ UNCHANGED <<System, row, owner, aged, lost>>

\* A signal that is not permitted, say, is logged; the row goes all the same.
StopFails(r) ==
    /\ mode = "local" /\ At(r, "stop") /\ Faulted
    /\ SpareTree(req[r].seen.pid)
    /\ Go(r, "delete")
    /\ UNCHANGED <<mode, reaper, refusedEmpty, calls, row, owner, aged>>

\* DeleteSession ends whatever the function runs for the session; that it
\* fails is ignored.
DeleteSession(r) ==
    /\ mode = "cloud" /\ At(r, "stop")
    /\ alive' = alive \ Running(req[r].s) \/ UNCHANGED alive
    /\ Go(r, "delete")
    /\ UNCHANGED <<System, row, owner, aged, lost>>

\* After a failed reuse an acquire goes on to create, unless it came here
\* from the conflict of its own insert.
Delete(r) ==
    /\ At(r, "delete")
    /\ DeleteRow(req[r].s, req[r].seen)
    /\ IF req[r].op = "acquire" /\ req[r].new = 0 THEN req' = [req EXCEPT ![r].pc = "count", ![r].seen = NoRow]
       ELSE Done(r)
    /\ UNCHANGED <<System, owner, alive, aged>>

\* Mutant: one row too many is let in.
FullBeyond == Cardinality(Rows) > Concurrency
Full == Cardinality(Rows) >= Concurrency

\* The limit is compared with the rows; nothing holds the place that is left.
Count(r) ==
    /\ At(r, "count")
    /\ IF Full
       THEN /\ Done(r)
            /\ refusedEmpty' = (refusedEmpty \/ alive = {})
       ELSE Go(r, "launch") /\ UNCHANGED refusedEmpty
    /\ UNCHANGED <<mode, reaper, calls, faults, row, owner, alive, aged, lost>>

\* Browser p starts for the session and is to be recorded next.
Started(r, p) ==
    /\ alive' = alive \union {p}
    /\ owner' = [owner EXCEPT ![p] = req[r].s]
    /\ req' = [req EXCEPT ![r].pc = "insert", ![r].new = p]
NextPid == {Cardinality(Launched) + 1} \intersect Pid

\* A launch that fails at any point leaves no process behind.
Launch(r) ==
    /\ mode = "local" /\ At(r, "launch")
    /\ \/ \E p \in NextPid : Started(r, p)
       \/ Done(r) /\ UNCHANGED <<owner, alive>>
    /\ UNCHANGED <<System, row, aged, lost>>

\* /start answers with the browser the function runs for the session, or
\* starts one; given up as late, it may leave a session nobody recorded.
Start(r) ==
    LET s == req[r].s
        p == IF Running(s) # {} THEN Running(s) ELSE NextPid
    IN /\ mode = "cloud" /\ At(r, "launch")
       /\ \/ \E q \in p : Started(r, q)
          \/ /\ \E q \in p : alive' = alive \union {q} /\ owner' = [owner EXCEPT ![q] = s]
             /\ Done(r)
          \/ Done(r) /\ UNCHANGED <<owner, alive>>
       /\ UNCHANGED <<System, row, aged, lost>>

\* Mutant: the loser goes straight for the winner's browser.
LeaveOwn == IF mode = "cloud" THEN "granted" ELSE "reread"
OnConflict == IF mode = "cloud" THEN "granted" ELSE "stopOwn"

\* The primary key lets one insert of a session win.  The local loser stops
\* the browser it has just launched; the cloud loser shares the winner's.
Insert(r) ==
    LET s == req[r].s
        new == [pid |-> req[r].new, meta |-> req[r].new, fresh |-> mode = "local"]
    IN /\ At(r, "insert")
       /\ IF row[s] = NoRow THEN row' = [row EXCEPT ![s] = new] ELSE UNCHANGED row
       /\ req' = [req EXCEPT
            ![r].pc = IF row[s] = NoRow THEN "granted" ELSE OnConflict,
            ![r].seen = [new EXCEPT !.fresh = FALSE]]
       /\ UNCHANGED <<System, owner, alive, aged, lost>>

\* The insert fails for another reason than the key: the error is reported,
\* and nobody stops the browser.
InsertFails(r) ==
    /\ At(r, "insert") /\ Faulted
    /\ lost' = IF mode = "local" THEN lost \union {req[r].new} ELSE lost
    /\ Done(r)
    /\ UNCHANGED <<mode, reaper, refusedEmpty, calls, row, owner, alive, aged>>

StopOwn(r) ==
    /\ At(r, "stopOwn")
    /\ StopTree(req[r].new)
    /\ Go(r, "reread")
    /\ UNCHANGED <<System, row, owner, aged, lost>>

\* Here nothing catches the exception: the acquire ends with an error.
StopOwnFails(r) ==
    /\ At(r, "stopOwn") /\ Faulted
    /\ SpareTree(req[r].new)
    /\ Done(r)
    /\ UNCHANGED <<mode, reaper, refusedEmpty, calls, row, owner, aged>>

\* The caller connects to the address it was told, or fails to, and leaves.
Connect(r) ==
    /\ At(r, "granted")
    /\ IF (IF mode = "cloud" THEN SessionAnswers(req[r].s) ELSE PortAnswers(req[r].seen.meta))
       THEN Go(r, "using") ELSE Done(r)
    /\ UNCHANGED <<System, row, owner, alive, aged, lost>>

Release(r) ==
    /\ At(r, "using")
    /\ Done(r)
    /\ UNCHANGED <<System, row, owner, alive, aged, lost>>

-----------------------------------------------------------------------------
(* The reaper of the local back end: one pass over a snapshot of the table. *)

Requests == <<req, mode, refusedEmpty, calls, faults>>
AfterRecord(left) ==
    IF left = {} THEN Asleep ELSE [Asleep EXCEPT !.pc = "judge", !.todo = left]

\* list_all, with the time of the pass: age and idleness are judged by it.
ReapList ==
    /\ mode = "local" /\ reaper.pc = "sleep" /\ Rows # {}
    /\ reaper' = [Asleep EXCEPT !.pc = "judge", !.todo =
                    {[s |-> s, seen |-> row[s], old |-> row[s].meta \in aged] : s \in Rows}]
    /\ UNCHANGED <<Requests, row, owner, alive, aged, lost>>

\* Mutant: connected browsers are kept before their age is looked at.
ClientsFirst(t) ==
    IF ~Lives(t.seen.pid) THEN "stop"
    ELSE IF Connected(t.seen.meta) THEN "touch"
    ELSE IF t.old \/ ~t.seen.fresh THEN "stop" ELSE "judge"
\* A browser that is dead or too old goes, clients or not; one with a client
\* connected is kept; otherwise last_used of the snapshot decides.
Judged(t) ==
    IF ~Lives(t.seen.pid) \/ t.old THEN "stop"
    ELSE IF Connected(t.seen.meta) THEN "touch"
    ELSE IF t.seen.fresh THEN "judge" ELSE "stop"

ReapJudge ==
    /\ reaper.pc = "judge"
    /\ \E t \in reaper.todo :
         LET next == Judged(t)
             left == reaper.todo \ {t}
         IN reaper' = IF next = "judge" THEN AfterRecord(left)
                      ELSE [pc |-> next, todo |-> left, s |-> t.s, seen |-> t.seen]
    /\ UNCHANGED <<Requests, row, owner, alive, aged, lost>>

ReapTouch ==
    /\ reaper.pc = "touch"
    /\ TouchRow(reaper.s, reaper.seen)
    /\ reaper' = AfterRecord(reaper.todo)
    /\ UNCHANGED <<Requests, owner, alive, aged, lost>>

ReapStop ==
    /\ reaper.pc = "stop"
    /\ StopTree(reaper.seen.pid)
    /\ reaper' = [reaper EXCEPT !.pc = "delete"]
    /\ UNCHANGED <<Requests, row, owner, aged, lost>>

\* The same in the reaper's round, which goes on to delete the row.
ReapStopFails ==
    /\ reaper.pc = "stop" /\ Faulted
    /\ SpareTree(reaper.seen.pid)
    /\ reaper' = [reaper EXCEPT !.pc = "delete"]
    /\ UNCHANGED <<req, mode, refusedEmpty, calls, row, owner, aged>>

ReapDelete ==
    /\ reaper.pc = "delete"
    /\ DeleteRow(reaper.s, reaper.seen)
    /\ reaper' = AfterRecord(reaper.todo)
    /\ UNCHANGED <<Requests, owner, alive, aged>>

ReaperStep == ReapList \/ ReapJudge \/ ReapTouch \/ ReapStop \/ ReapDelete

-----------------------------------------------------------------------------
(* The world.                                                               *)

\* A browser crashes; in the cloud also: the platform ends an idle session.
Vanish(p) ==
    /\ p \in alive /\ Faulted
    /\ alive' = alive \ {p}
    /\ UNCHANGED <<mode, reaper, refusedEmpty, calls, req, row, owner, aged, lost>>

\* Time passes the longest life of the oldest browsers first.
Age(p) ==
    /\ mode = "local" /\ p \in Launched \ aged /\ \A q \in 1..(p - 1) : q \in aged
    /\ aged' = aged \union {p}
    /\ UNCHANGED <<System, req, row, owner, alive, lost>>

\* Time passes the idle limit since last_used.
IdleOut(s) ==
    /\ mode = "local" /\ row[s].fresh
    /\ row' = [row EXCEPT ![s].fresh = FALSE]
    /\ UNCHANGED <<System, req, owner, alive, aged, lost>>

\* The server process ends and starts again: requests and the round are
\* gone, the browsers (process groups of their own) and the rows stay.
Restart ==
    /\ Faulted
    /\ req' = [r \in Request |-> Idle]
    /\ reaper' = Asleep
    /\ lost' = IF mode = "local" THEN lost \union (alive \ {row[s].pid : s \in Rows}) ELSE lost
    /\ UNCHANGED <<mode, refusedEmpty, calls, row, owner, alive, aged>>

Serve(r) == \/ ReadAgain(r) \/ Probe(r) \/ Touch(r) \/ Stop(r) \/ DeleteSession(r)
            \/ Delete(r) \/ Count(r) \/ Launch(r) \/ Start(r) \/ Insert(r) \/ StopOwn(r)

Next ==
    \/ \E r \in Request :
         \/ \E s \in Session, op \in Ops : Call(r, s, op)
         \/ Serve(r)
         \/ InsertFails(r) \/ StopFails(r) \/ StopOwnFails(r)
         \/ Connect(r)
         \/ Release(r)
    \/ ReaperStep \/ ReapStopFails
    \/ \E p \in Pid : Vanish(p) \/ Age(p)
    \/ \E s \in Session : IdleOut(s)
    \/ Restart

Spec == Init /\ [][Next]_vars

\* The reaper's task and every request run on the server's event loop, and
\* the idle limit runs out; callers may stop calling, browsers need not
\* crash, and none need grow too old (a ttl of 0 means no cap).
Fairness ==
    /\ WF_vars(ReaperStep)
    /\ \A r \in Request : WF_vars(Serve(r) \/ Connect(r))
    /\ \A s \in Session : WF_vars(IdleOut(s))

FairSpec == Spec /\ Fairness

-----------------------------------------------------------------------------
(* Properties.                                                              *)

Handled(r) == At(r, "launch") \/ At(r, "insert")

\* The check before a creation (manager.py:199) is not atomic with it, yet
\* the rows and the creations under way never exceed the limit by more than
\* the other requests that may be between the two.
OvershootBounded ==
    Cardinality(Rows) + Cardinality({r \in Request : Handled(r)})
        <= Concurrency - 1 + Cardinality(Request)

\* A running local browser is named by the row of its session, or is in the
\* hands of a request about to record or stop it; the only browsers that
\* escape both are those whose row another actor deleted by session id, those
\* launched when the server died, those whose insert met an error, and those
\* whose stop failed, the row being deleted all the same (local.py:690-694).
NoUnknownBrowser ==
    mode = "local" => \A p \in alive \ lost :
        \/ row[owner[p]].pid = p
        \/ \E r \in Request : req[r].new = p /\ req[r].pc \in {"insert", "stopOwn"}

Named(p) == \E s \in Rows : row[s].pid = p

\* The limit and the table hold of the same browsers.
PoolAccounted == TypeOK /\ OvershootBounded /\ NoUnknownBrowser

\* The TTL is a hard cap (local.py:726): whatever its callers do, a browser
\* past it loses its row, and has then ended unless it escaped in one of the
\* four ways above, of which an escaped one may run for ever.
TtlIsHardCap ==
    \A p \in Pid : []<>(p \in aged => ~Named(p) /\ p \notin alive \ lost)

\* The row of a browser nobody asks for any more is recycled (local.py:738).
IdleIsReclaimed ==
    \A s \in Session : []<>(mode = "local" =>
                             s \notin Rows \/ \E r \in Request : req[r].s = s)

\* No browser keeps its place for ever, by use or by neglect.
LeasesEnd == TtlIsHardCap /\ IdleIsReclaimed

\* The pool implements the lease of scarce browsers, with the overshoot as
\* its limit: sessions gain and lose a browser one at a time.
Lease == INSTANCE BrowserLease WITH
            leased <- Rows, Limit <- Concurrency - 1 + Cardinality(Request)
ImplementsLease == Lease!LeaseSpec

\* What local.py:479 says of the reaper ("connected: in use, never recycled")
\* short of the cap: it does not stop a browser somebody is connected to.
UsedIsSpared ==
    [][\A p \in alive \ alive' : reaper.pc = "stop" /\ reaper'.pc = "delete"
          => (p \in aged \/ ~Connected(p))]_vars

\* What cloud.py:13 says of expired records ("lazily cleaned at acquire and
\* get"): an acquire is not refused on account of records without browsers.
AcquireClearsExpired == ~(mode = "cloud" /\ refusedEmpty)
=============================================================================
