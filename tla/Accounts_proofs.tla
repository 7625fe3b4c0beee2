---------------------------- MODULE Accounts_proofs ----------------------------
(***************************************************************************)
(* Proofs about Accounts for any number of scans, synchronisations,         *)
(* requests, contacts, accounts and tasks: what each part keeps while the   *)
(* other works on the same pool and the same accounts.                      *)
(***************************************************************************)
EXTENDS Accounts, FiniteSetTheorems, TLAPS

-----------------------------------------------------------------------------
(* The inductive invariant: scans *)

Closing == {"cookies", "create", "release"}

\* A request that is starting a scan is alone with it and nobody was told its
\* id; every other request was made with an id that was told.
ScanFits(r) ==
    /\ poll[r].pc \in {"open", "undo"} =>
          poll[r].s \notin known /\ \A q \in ScanRequest : poll[q].s = poll[r].s => q = r
    /\ poll[r].pc \notin {"idle", "open", "undo"} => poll[r].s \in known

ScansFit == \A r \in ScanRequest : ScanFits(r)

\* One request at a time turns a login into an account, and once there is an
\* account the scan's browser is gone or about to be destroyed.
OnceOnly(s) ==
    /\ \A q, r \in ScanRequest :
         poll[q].s = s /\ poll[r].s = s /\ poll[q].pc \in Closing /\ poll[r].pc \in Closing => q = r
    /\ \A a, b \in S!Account : maker[a] = s /\ maker[b] = s => a = b
    /\ \A a \in S!Account : maker[a] = s =>
         /\ s \in known
         /\ \A r \in ScanRequest : poll[r].s = s => poll[r].pc \notin {"cookies", "create"}
         /\ s \in leased => \E r \in ScanRequest : poll[r].s = s /\ poll[r].pc = "release"

LoginsOnce == \A s \in Scan \ excused : OnceOnly(s)

ScanInv == S!TypeOK /\ ScansFit /\ LoginsOnce /\ S!SuccessIsLogin /\ S!LeaseIsReachable

-----------------------------------------------------------------------------
(* The inductive invariant: records *)

Edits == {"save", "enable"}
Scheduling == {"sync", "enqueue"}

\* What a request still knows of what it read: its account was made, its task
\* exists, its target is a contact as long as the account lives, and only a
\* deletion has tasks to bring up to date, whose state it knows when it read it.
JobFits(x) ==
    /\ IF x.a = None THEN x.pc = "enable" /\ ~x.on ELSE x.a \in 0..made
    /\ x.pc \in {"update", "save", "enable", "enqueue"} => x.t \in R!Tasks
    /\ x.pc \in {"create", "update", "save"} /\ x.a \in live => x.uids \subseteq contact[x.a]
    /\ x.tasks \subseteq R!Tasks
    /\ x.pc \notin {"unbind", "sync", "enqueue"} => x.tasks = {}
    /\ x.pc = "enqueue" => x.t \in x.tasks /\ (x.t \in raced \/ x.on = task[x.t].on)

\* A deletion listed the tasks of its account, but for those bound meanwhile;
\* once it has unbound them, only those are bound to it.
DeletionFits(x) ==
    /\ x.pc = "unbind" => \A t \in R!Tasks \ raced : task[t].acct = x.a => t \in x.tasks
    /\ x.pc \in {"sync", "enqueue", "drop"} => \A t \in R!Tasks : task[t].acct = x.a => t \in raced

JobsFit == \A r \in RecordRequest : JobFits(job[r]) /\ DeletionFits(job[r])

\* One request at a time has read a task it will save; an account that it saw at
\* a task to be enabled is there still, or its deletion has the task's schedule
\* before it, which it cannot write as long as the request holds the lock.
SeesTo(y, a, t) == y.pc \in Scheduling /\ y.a = a /\ t \in y.tasks
EnableFits(x) ==
    x.pc = "enable" /\ x.on =>
        \/ x.t \in raced \/ task[x.t].acct = x.a
        \/ \E q \in RecordRequest : SeesTo(job[q], x.a, x.t)

EditsFit ==
    /\ \A q, r \in RecordRequest : job[q].pc \in Edits /\ job[r].pc \in Edits => q = r
    /\ \A r \in RecordRequest : EnableFits(job[r])

\* A schedule says what its task says, or a deletion will still see to it.
SchedulesOwed ==
    \A t \in R!Tasks \ raced :
        (t \in armed) = task[t].on \/ \E r \in RecordRequest : t \in job[r].tasks

RecordInv == /\ R!TypeOK /\ JobsFit /\ EditsFit /\ SchedulesOwed
             /\ R!EnabledHasAccount /\ R!TargetStaysKnown

IInv == ScanInv /\ RecordInv

-----------------------------------------------------------------------------
(* The state space of the two parts, and the steps of one request.           *)

Polls == [pc : S!Steps, op : S!Ops, s : Scan]
Jobs == [pc : R!Steps, a : R!Account \union {None}, t : R!Task \union {0}, on : BOOLEAN,
         uids : SUBSET Uid, tasks : SUBSET R!Task]
TaskRows == [acct : R!Account \union {None}, uid : Uid, on : BOOLEAN]

LEMMA PollTypes ==
    ASSUME S!TypeOK, NEW r \in ScanRequest
    PROVE  /\ poll[r].pc = "idle" => poll[r] = S!Idle /\ poll[r].s = None /\ poll[r].s \notin Scan
           /\ poll[r].pc # "idle" => poll[r] \in Polls /\ poll[r].s \in Scan /\ poll[r].op \in S!Ops
           /\ poll[r].s \in Scan => poll[r].pc # "idle"
<1>1. poll[r] \in Polls \union {S!Idle}
  BY DEF S!TypeOK, Polls
<1>2. CASE poll[r] = S!Idle
  BY <1>2, AccountsAssumption DEF S!Idle
<1>3. CASE poll[r] \in Polls
  BY <1>3 DEF Polls, S!Steps
<1>4. QED BY <1>1, <1>2, <1>3

LEMMA PollGo ==
    ASSUME S!TypeOK, NEW r \in ScanRequest, poll[r].pc # "idle", NEW step \in S!Steps, S!Go(r, step)
    PROVE  /\ poll' \in [ScanRequest -> Polls \union {S!Idle}]
           /\ poll'[r].pc = step /\ poll'[r].s = poll[r].s
           /\ \A q \in ScanRequest : q # r => poll'[q] = poll[q]
<1>1. poll \in [ScanRequest -> Polls \union {S!Idle}]
  BY DEF S!TypeOK, Polls
<1>2. poll[r] \in Polls
  BY PollTypes
<1>3. poll' = [poll EXCEPT ![r] = [poll[r] EXCEPT !.pc = step]]
  BY DEF S!Go
<1>4. [poll[r] EXCEPT !.pc = step] \in Polls
  BY <1>2 DEF Polls
<1>5. [poll[r] EXCEPT !.pc = step].pc = step /\ [poll[r] EXCEPT !.pc = step].s = poll[r].s
  BY <1>2 DEF Polls
<1>6. poll'[r] = [poll[r] EXCEPT !.pc = step]
  BY <1>1, <1>3
<1>7. QED BY <1>1, <1>3, <1>4, <1>5, <1>6

LEMMA PollAnswer ==
    ASSUME S!TypeOK, NEW r \in ScanRequest, S!Answer(r)
    PROVE  /\ poll' \in [ScanRequest -> Polls \union {S!Idle}]
           /\ poll'[r].pc = "idle" /\ poll'[r].s = None
           /\ \A q \in ScanRequest : q # r => poll'[q] = poll[q]
<1>1. poll \in [ScanRequest -> Polls \union {S!Idle}]
  BY DEF S!TypeOK, Polls
<1>2. S!Idle.pc = "idle" /\ S!Idle.s = None
  BY DEF S!Idle
<1>3. QED BY <1>1, <1>2 DEF S!Answer

LEMMA PollBegin ==
    ASSUME S!TypeOK, NEW r \in ScanRequest, NEW step \in S!Steps, NEW op \in S!Ops, NEW s \in Scan,
           poll' = [poll EXCEPT ![r] = [pc |-> step, op |-> op, s |-> s]]
    PROVE  /\ poll' \in [ScanRequest -> Polls \union {S!Idle}]
           /\ poll'[r].pc = step /\ poll'[r].s = s
           /\ \A q \in ScanRequest : q # r => poll'[q] = poll[q]
<1>1. poll \in [ScanRequest -> Polls \union {S!Idle}]
  BY DEF S!TypeOK, Polls
<1>2. [pc |-> step, op |-> op, s |-> s] \in Polls
  BY DEF Polls
<1>3. QED BY <1>1, <1>2

-----------------------------------------------------------------------------
(* Scans: what most steps are, for the invariant.                            *)

\* Counters and accounts.
Counted == made \in 0..MaxAccounts /\ live \subseteq 1..made /\ calls \in 0..MaxCalls /\ faults \in 0..MaxFaults

\* Nothing that was told or made changes, no scan gets a browser, and a page
\* that is logged in stays so as long as it is there.
PagesKept ==
    /\ leased' \subseteq Lessee /\ leased' \intersect Scan \subseteq leased
    /\ page' \in [Scan -> S!Pages]
    /\ \A s \in Scan : page[s] \in {"in", "closed"} => page'[s] \in {"in", "closed"}
    /\ \A s \in Scan : s \notin leased' => page'[s] = "closed"
    /\ known' = known /\ maker' = maker /\ excused' = excused

\* A request that is not about to account for a browser answers or looks on.
LooksOn(q) ==
    \/ poll'[q] = poll[q]
    \/ /\ poll[q].pc \notin {"open", "undo", "release"}
       /\ poll'[q].pc \in {"idle", "page", "findQr", "prepare"}
       /\ poll'[q].pc # "idle" => poll'[q].s \in known

PollsType == poll' \in [ScanRequest -> Polls \union {S!Idle}]

LEMMA QuietStep ==
    ASSUME ScanInv, Counted', PagesKept, PollsType, \A q \in ScanRequest : LooksOn(q)
    PROVE  ScanInv'
<1>1. S!TypeOK'
  BY DEF ScanInv, S!TypeOK, Counted, PagesKept, PollsType, Polls
<1> USE DEF ScanInv
<1>2. \A q \in ScanRequest :
        /\ poll[q].pc = "idle" => poll[q].s \notin Scan
        /\ poll[q].pc # "idle" => poll[q].s \in Scan
  BY PollTypes
<1>3. \A q \in ScanRequest :
        /\ poll'[q].pc = "idle" => poll'[q].s \notin Scan
        /\ poll'[q].pc # "idle" => poll'[q].s \in Scan
  <2>1. ASSUME NEW q \in ScanRequest
        PROVE  /\ poll'[q].pc = "idle" => poll'[q].s \notin Scan
               /\ poll'[q].pc # "idle" => poll'[q].s \in Scan
    <3>1. poll'[q] \in Polls \union {S!Idle}
      BY DEF PollsType
    <3>2. CASE poll'[q] = S!Idle
      BY <3>2, AccountsAssumption DEF S!Idle
    <3>3. CASE poll'[q] \in Polls
      BY <3>3 DEF Polls, S!Steps
    <3>4. QED BY <3>1, <3>2, <3>3
  <2>2. QED BY <2>1
<1>4. known \subseteq Scan /\ known' = known
  BY DEF S!TypeOK, PagesKept
<1>5. ScansFit'
  <2>1. ASSUME NEW r \in ScanRequest PROVE ScanFits(r)'
    BY <1>2, <1>3, <1>4 DEF ScansFit, ScanFits, LooksOn
  <2>2. QED BY <2>1 DEF ScansFit
<1>6. LoginsOnce'
  <2>1. ASSUME NEW s \in Scan, s \notin excused' PROVE OnceOnly(s)'
    <3>1. OnceOnly(s)
      BY <2>1 DEF LoginsOnce, PagesKept
    <3>2. QED BY <3>1, <1>4 DEF OnceOnly, LooksOn, PagesKept, Closing
  <2>2. QED BY <2>1 DEF LoginsOnce
<1>7. S!SuccessIsLogin'
  BY <1>2 DEF S!SuccessIsLogin, LooksOn, PagesKept
<1>8. S!LeaseIsReachable'
  <2>1. ASSUME NEW s \in leased' \intersect Scan, s \notin excused'
        PROVE  s \in known' \/ \E r \in ScanRequest : poll'[r].s = s
    <3>1. s \in leased \intersect Scan /\ s \notin excused
      BY <2>1 DEF PagesKept
    <3>2. CASE s \in known
      BY <3>2, <1>4
    <3>3. CASE \E r \in ScanRequest : poll[r].s = s
      <4>1. PICK r \in ScanRequest : poll[r].s = s
        BY <3>3
      <4>2. CASE poll'[r] = poll[r]
        BY <4>1, <4>2
      <4>3. CASE poll'[r] # poll[r]
        BY <4>1, <4>3, <1>2, <1>4, <3>1 DEF LooksOn, ScansFit, ScanFits
      <4>4. QED BY <4>2, <4>3
    <3>4. QED BY <3>1, <3>2, <3>3 DEF S!LeaseIsReachable
  <2>2. QED BY <2>1 DEF S!LeaseIsReachable
<1>9. QED BY <1>1, <1>5, <1>6, <1>7, <1>8

-----------------------------------------------------------------------------
(* Scans: the parts of an action.                                            *)

LEMMA Shown ==
    ASSUME S!TypeOK, NEW s \in Scan, NEW p \in S!Pages, S!Shows(s, p)
    PROVE  /\ page' \in [Scan -> S!Pages] /\ page'[s] = p
           /\ \A x \in Scan : x # s => page'[x] = page[x]
BY DEF S!TypeOK, S!Shows

LEMMA CountedKept ==
    ASSUME S!TypeOK, made' = made, live' = live,
           calls' = calls \/ S!Called, faults' = faults \/ S!Fails
    PROVE  Counted'
BY AccountsAssumption DEF S!TypeOK, Counted, S!Called, S!Fails

LEMMA Answered ==
    ASSUME S!TypeOK, NEW r \in ScanRequest, poll[r].pc \notin {"open", "undo", "release"}, S!Answer(r)
    PROVE  PollsType /\ \A q \in ScanRequest : LooksOn(q)
BY PollAnswer DEF PollsType, LooksOn

LEMMA Looked ==
    ASSUME ScanInv, NEW r \in ScanRequest, poll[r].pc = "page",
           NEW step \in {"findQr", "prepare"}, S!Go(r, step)
    PROVE  PollsType /\ \A q \in ScanRequest : LooksOn(q)
<1>1. step \in S!Steps
  BY DEF S!Steps
<1>2. poll[r].s \in known
  BY DEF ScanInv, ScansFit, ScanFits
<1>3. QED BY <1>1, <1>2, PollGo DEF PollsType, LooksOn, ScanInv

LEMMA PollsSame ==
    ASSUME S!TypeOK, poll' = poll
    PROVE  PollsType /\ \A q \in ScanRequest : LooksOn(q)
BY DEF S!TypeOK, PollsType, LooksOn, Polls

\* The page of one scan moves, and not from a login.
LEMMA PageMoved ==
    ASSUME S!TypeOK, NEW s \in leased \intersect Scan, NEW p \in S!Pages,
           page' = page \/ (S!Shows(s, p) /\ (page[s] \in {"in", "closed"} => p \in {"in", "closed"})),
           UNCHANGED <<leased, known, maker, excused>>
    PROVE  PagesKept
<1>1. CASE page' = page
  BY <1>1 DEF S!TypeOK, PagesKept
<1>2. CASE S!Shows(s, p) /\ (page[s] \in {"in", "closed"} => p \in {"in", "closed"})
  BY <1>2, Shown DEF S!TypeOK, PagesKept
<1>3. QED BY <1>1, <1>2

LEMMA PagesSame ==
    ASSUME S!TypeOK, UNCHANGED <<page, known, maker, excused>>,
           leased' \subseteq Lessee, leased' \intersect Scan = leased \intersect Scan
    PROVE  PagesKept
BY DEF S!TypeOK, PagesKept

\* A browser is destroyed or taken, with its page.
LEMMA PageClosed ==
    ASSUME S!TypeOK, NEW s \in Scan, leased' = leased \ {s}, S!Shows(s, "closed"),
           UNCHANGED <<known, maker, excused>>
    PROVE  PagesKept
<1>1. "closed" \in S!Pages
  BY DEF S!Pages
<1>2. QED BY <1>1, Shown DEF S!TypeOK, PagesKept

LEMMA DestroyedGone ==
    ASSUME NEW s, S!Destroyed(s)
    PROVE  leased' = leased \ {s} /\ S!Shows(s, "closed")
BY DEF S!Destroyed, S!Pool!Withdraw

-----------------------------------------------------------------------------
(* Scans: the steps that only look, click or take a browser away.            *)

LEMMA BrokenKeeps ==
    ASSUME ScanInv, NEW r \in ScanRequest, S!Broken(r)
    PROVE  ScanInv'
<1>1. S!TypeOK /\ S!Answer(r) /\ UNCHANGED <<leased, made, maker, live, page, known, excused, calls, faults>>
  BY DEF S!Broken, S!Records, ScanInv
<1>2. poll[r].pc \notin {"open", "undo", "release"}
  BY DEF S!Broken
<1>3. PollsType /\ \A q \in ScanRequest : LooksOn(q)
  BY <1>1, <1>2, Answered
<1>4. Counted'
  BY <1>1, CountedKept
<1>5. PagesKept
  BY <1>1, PagesSame DEF S!TypeOK
<1>6. QED BY <1>3, <1>4, <1>5, QuietStep

LEMMA PageRead ==
    ASSUME ScanInv, NEW r \in ScanRequest,
           S!GetQr(r) \/ S!FindQr(r) \/ (S!Detect(r) /\ ~S!LoggedIn(poll[r].s))
    PROVE  ScanInv'
<1>1. S!TypeOK /\ UNCHANGED <<leased, made, maker, live, page, known, calls, faults>>
  BY DEF S!GetQr, S!FindQr, S!Detect, S!Records, ScanInv
<1>2. excused' = excused
  BY DEF S!GetQr, S!FindQr, S!Detect
<1>3. Counted'
  BY <1>1, CountedKept
<1>4. PagesKept
  BY <1>1, <1>2, PagesSame DEF S!TypeOK
<1>5. PollsType /\ \A q \in ScanRequest : LooksOn(q)
  <2>1. CASE S!GetQr(r)
    BY <2>1, Looked DEF S!GetQr, S!On, S!At
  <2>2. CASE S!FindQr(r)
    BY <1>1, <2>2, Answered DEF S!FindQr, S!At
  <2>3. CASE S!Detect(r) /\ ~S!LoggedIn(poll[r].s)
    BY <1>1, <2>3, Looked, Answered DEF S!Detect, S!On, S!At
  <2>4. QED BY <2>1, <2>2, <2>3
<1>6. QED BY <1>3, <1>4, <1>5, QuietStep

\* A click moves the page of a scan that is not logged in; a right code logs in.
LEMMA ClickKeeps ==
    ASSUME ScanInv, NEW r \in ScanRequest,
           S!Prepare(r) \/ S!Refresh(r) \/ S!Verify(r) \/ S!Resend(r)
    PROVE  ScanInv'
<1> DEFINE s == poll[r].s
<1>1. /\ S!TypeOK /\ S!Answer(r) /\ UNCHANGED <<leased, made, maker, live, known, excused, calls, faults>>
      /\ poll[r].pc \in {"page", "prepare"} /\ s \in leased
  BY DEF S!Prepare, S!Refresh, S!Verify, S!Resend, S!On, S!At, S!Records, ScanInv
<1>2. PollsType /\ \A q \in ScanRequest : LooksOn(q)
  BY <1>1, Answered
<1>3. s \in leased \intersect Scan
  BY <1>1, PollTypes
<1>4. PICK p \in {"sms", "loading", "in"} :
        page' = page \/ (S!Shows(s, p) /\ page[s] \in {"verify", "expired", "sms", "resendable"})
  BY DEF S!Prepare, S!Refresh, S!Verify, S!Resend, S!MayResend
<1>5. p \in S!Pages
  BY DEF S!Pages
<1>6. PagesKept
  BY <1>1, <1>3, <1>4, <1>5, PageMoved
<1>7. Counted'
  BY <1>1, CountedKept
<1>8. QED BY <1>2, <1>6, <1>7, QuietStep

LEMMA CallPageKeeps ==
    ASSUME ScanInv, NEW r \in ScanRequest, NEW s \in Scan, NEW op \in S!Ops, S!CallPage(r, s, op)
    PROVE  ScanInv'
<1>1. /\ S!TypeOK /\ S!Called /\ poll[r].pc = "idle" /\ s \in known
      /\ poll' = [poll EXCEPT ![r] = [pc |-> "page", op |-> op, s |-> s]]
      /\ UNCHANGED <<leased, made, maker, live, page, known, excused, faults>>
  BY DEF S!CallPage, S!Records, S!At, ScanInv
<1>2. "page" \in S!Steps
  BY DEF S!Steps
<1>3. PollsType /\ \A q \in ScanRequest : LooksOn(q)
  BY <1>1, <1>2, PollBegin DEF PollsType, LooksOn
<1>4. Counted'
  BY <1>1, CountedKept
<1>5. PagesKept
  BY <1>1, PagesSame DEF S!TypeOK
<1>6. QED BY <1>3, <1>4, <1>5, QuietStep

\* Cancelling, the platform and the page itself.
LEMMA PageLeaves ==
    ASSUME ScanInv, NEW s \in Scan, S!Cancel(s) \/ S!PageMoves(s) \/ S!Taken(s)
    PROVE  ScanInv'
<1>1. S!TypeOK /\ UNCHANGED <<made, maker, live, known, excused, poll>>
  BY DEF S!Cancel, S!PageMoves, S!Taken, S!Records, ScanInv
<1>2. Counted'
  <2>1. calls' = calls \/ S!Called
    BY DEF S!Cancel, S!PageMoves, S!Taken
  <2>2. faults' = faults \/ S!Fails
    BY DEF S!Cancel, S!PageMoves, S!Taken, S!Succeeds
  <2>3. QED BY <1>1, <2>1, <2>2, CountedKept
<1>3. PagesKept
  <2>1. CASE S!Cancel(s)
    <3>1. CASE S!Destroyed(s)
      BY <1>1, <3>1, DestroyedGone, PageClosed
    <3>2. CASE UNCHANGED <<leased, page>>
      BY <1>1, <3>2, PagesSame DEF S!TypeOK
    <3>3. QED BY <2>1, <3>1, <3>2 DEF S!Cancel
  <2>2. CASE S!PageMoves(s)
    <3>1. PICK p \in S!Move[page[s]] : S!Shows(s, p)
      BY <2>2 DEF S!PageMoves
    <3>2. page[s] \in S!Pages
      BY <1>1 DEF S!TypeOK
    <3>3. p \in S!Pages /\ page[s] \notin {"in", "closed"}
      BY <3>1, <3>2 DEF S!Move, S!Pages
    <3>4. QED BY <1>1, <2>2, <3>1, <3>3, PageMoved DEF S!PageMoves
  <2>3. CASE S!Taken(s)
    BY <1>1, <2>3, PageClosed DEF S!Taken, S!Pool!Withdraw
  <2>4. QED BY <2>1, <2>2, <2>3
<1>4. QED BY <1>1, <1>2, <1>3, PollsSame, QuietStep

-----------------------------------------------------------------------------
(* Scans: the steps that take, hand on or account for a browser.             *)

\* What a step has to show beside its types.
LEMMA ScanInvOf ==
    ASSUME Counted', PollsType, ScansFit', LoginsOnce', S!SuccessIsLogin', S!LeaseIsReachable',
           leased' \subseteq Lessee, page' \in [Scan -> S!Pages],
           known' \subseteq Scan, excused' \subseteq Scan, maker' \in [S!Account -> Scan \union {None}],
           \A s \in Scan : s \notin leased' => page'[s] = "closed"
    PROVE  ScanInv'
BY DEF ScanInv, S!TypeOK, Counted, PollsType, Polls

LEMMA PollsIn ==
    ASSUME S!TypeOK
    PROVE  \A r \in ScanRequest : /\ poll[r].pc = "idle" => poll[r].s \notin Scan
                                  /\ poll[r].pc # "idle" => poll[r].s \in Scan
BY PollTypes

LEMMA StartKeeps ==
    ASSUME ScanInv, NEW r \in ScanRequest, NEW s \in Scan, S!CallStart(r, s)
    PROVE  ScanInv'
<1>1. /\ S!TypeOK /\ S!Called /\ poll[r].pc = "idle" /\ page[s] = "closed" /\ s \notin known
      /\ s \notin excused /\ S!Same(r, s) = {}
      /\ leased' = leased \union {s} /\ S!Shows(s, "blank")
      /\ poll' = [poll EXCEPT ![r] = [pc |-> "open", op |-> "start", s |-> s]]
      /\ UNCHANGED <<made, maker, live, known, excused, faults>>
  BY DEF S!CallStart, S!Records, S!At, S!Pool!Grant, ScanInv
<1>2. "open" \in S!Steps /\ "start" \in S!Ops /\ "blank" \in S!Pages
  BY DEF S!Steps, S!Ops, S!Pages
<1>3. PollsType /\ poll'[r].pc = "open" /\ poll'[r].s = s /\ \A q \in ScanRequest : q # r => poll'[q] = poll[q]
  BY <1>1, <1>2, PollBegin DEF PollsType
<1>4. Counted'
  BY <1>1, CountedKept
<1>5. \A q \in ScanRequest : q # r => poll[q].s # s
  BY <1>1 DEF S!Same
<1>6. page' \in [Scan -> S!Pages] /\ page'[s] = "blank" /\ \A x \in Scan : x # s => page'[x] = page[x]
  BY <1>1, <1>2, Shown
<1>7. ScansFit'
  <2>1. ASSUME NEW q \in ScanRequest PROVE ScanFits(q)'
    BY <1>1, <1>3, <1>5 DEF ScanInv, ScansFit, ScanFits
  <2>2. QED BY <2>1 DEF ScansFit
<1>8. LoginsOnce'
  <2>1. ASSUME NEW x \in Scan, x \notin excused' PROVE OnceOnly(x)'
    <3>1. OnceOnly(x)
      BY <1>1, <2>1 DEF ScanInv, LoginsOnce
    <3>2. CASE x = s
      BY <1>1, <1>3, <1>5, <3>1, <3>2 DEF OnceOnly, Closing
    <3>3. CASE x # s
      BY <1>1, <1>3, <3>1, <3>3, PollsIn DEF OnceOnly, Closing
    <3>4. QED BY <3>2, <3>3
  <2>2. QED BY <2>1 DEF LoginsOnce
<1>9. S!SuccessIsLogin'
  BY <1>3, <1>5, <1>6, PollsIn, <1>1 DEF ScanInv, S!SuccessIsLogin
<1>10. S!LeaseIsReachable'
  <2>1. ASSUME NEW x \in leased' \intersect Scan, x \notin excused', x # s
        PROVE  x \in known' \/ \E q \in ScanRequest : poll'[q].s = x
    <3>1. x \in known \/ \E q \in ScanRequest : poll[q].s = x
      BY <1>1, <2>1 DEF ScanInv, S!LeaseIsReachable
    <3>2. poll[r].s # x
      BY <1>1, <2>1, PollsIn
    <3>3. QED BY <1>1, <1>3, <3>1, <3>2
  <2>2. QED BY <1>3, <2>1 DEF S!LeaseIsReachable
<1>11. QED BY <1>1, <1>3, <1>4, <1>6, <1>7, <1>8, <1>9, <1>10, ScanInvOf DEF S!TypeOK, Lessee

\* One request moves on, from a step at which it is alone with its scan or has
\* seen the login.  What it leaves behind is excused or nobody's.
LEMMA OpenKeeps ==
    ASSUME ScanInv, NEW r \in ScanRequest, S!Open(r)
    PROVE  ScanInv'
<1> DEFINE s == poll[r].s
<1>1. /\ S!TypeOK /\ poll[r].pc = "open"
      /\ UNCHANGED <<leased, made, maker, live, excused, calls>>
  BY DEF S!Open, S!At, S!Records, ScanInv
<1>2. s \in Scan /\ s \notin known /\ \A q \in ScanRequest : poll[q].s = s => q = r
  BY <1>1, PollTypes DEF ScanInv, ScansFit, ScanFits
<1>3. Counted'
  <2>1. faults' = faults \/ S!Fails
    BY DEF S!Open, S!Succeeds
  <2>2. QED BY <1>1, <2>1, CountedKept
<1>4. CASE s \in leased /\ S!Shows(s, "loading") /\ known' = known \union {s} /\ S!Answer(r)
  <2>1. PollsType /\ poll'[r].pc = "idle" /\ poll'[r].s = None
        /\ \A q \in ScanRequest : q # r => poll'[q] = poll[q]
    BY <1>1, <1>4, PollAnswer DEF PollsType
  <2>2. "loading" \in S!Pages
    BY DEF S!Pages
  <2>3. page' \in [Scan -> S!Pages] /\ page'[s] = "loading" /\ \A x \in Scan : x # s => page'[x] = page[x]
    BY <1>1, <1>2, <1>4, <2>2, Shown
  <2>4. ScansFit'
    <3>1. ASSUME NEW q \in ScanRequest PROVE ScanFits(q)'
      BY <1>1, <1>2, <1>4, <2>1, PollsIn, AccountsAssumption DEF ScanInv, ScansFit, ScanFits
    <3>2. QED BY <3>1 DEF ScansFit
  <2>5. LoginsOnce'
    <3>1. ASSUME NEW x \in Scan, x \notin excused' PROVE OnceOnly(x)'
      <4>1. OnceOnly(x)
        BY <1>1, <3>1 DEF ScanInv, LoginsOnce
      <4>2. QED BY <1>1, <1>2, <1>4, <2>1, <4>1 DEF OnceOnly, Closing
    <3>2. QED BY <3>1 DEF LoginsOnce
  <2>6. S!SuccessIsLogin'
    BY <1>1, <1>2, <2>1, <2>3, PollsIn DEF ScanInv, S!SuccessIsLogin
  <2>7. S!LeaseIsReachable'
    BY <1>1, <1>4, <2>1 DEF ScanInv, S!LeaseIsReachable
  <2>8. QED BY <1>1, <1>2, <1>3, <1>4, <2>1, <2>3, <2>4, <2>5, <2>6, <2>7, ScanInvOf DEF S!TypeOK
<1>5. CASE S!Go(r, "undo") /\ UNCHANGED <<page, known>>
  <2>1. PollsType /\ poll'[r].pc = "undo" /\ poll'[r].s = s
        /\ \A q \in ScanRequest : q # r => poll'[q] = poll[q]
    <3>1. "undo" \in S!Steps
      BY DEF S!Steps
    <3>2. QED BY <1>1, <1>5, <3>1, PollGo DEF PollsType
  <2>2. ScansFit'
    <3>1. ASSUME NEW q \in ScanRequest PROVE ScanFits(q)'
      BY <1>1, <1>2, <1>5, <2>1 DEF ScanInv, ScansFit, ScanFits
    <3>2. QED BY <3>1 DEF ScansFit
  <2>3. LoginsOnce'
    <3>1. ASSUME NEW x \in Scan, x \notin excused' PROVE OnceOnly(x)'
      <4>1. OnceOnly(x)
        BY <1>1, <3>1 DEF ScanInv, LoginsOnce
      <4>2. QED BY <1>1, <1>2, <1>5, <2>1, <4>1 DEF OnceOnly, Closing
    <3>2. QED BY <3>1 DEF LoginsOnce
  <2>4. S!SuccessIsLogin'
    BY <1>1, <1>5, <2>1 DEF ScanInv, S!SuccessIsLogin
  <2>5. S!LeaseIsReachable'
    BY <1>1, <1>5, <2>1 DEF ScanInv, S!LeaseIsReachable
  <2>6. QED BY <1>1, <1>3, <1>5, <2>1, <2>2, <2>3, <2>4, <2>5, ScanInvOf DEF S!TypeOK
<1>6. QED BY <1>4, <1>5 DEF S!Open

\* A request that answers for its browser: it is destroyed with its page, or
\* what is left behind is excused.
LEMMA LeaveKeeps ==
    ASSUME ScanInv, NEW r \in ScanRequest, S!Undo(r) \/ S!Release(r)
    PROVE  ScanInv'
<1> DEFINE s == poll[r].s
<1>1. /\ S!TypeOK /\ poll[r].pc \in {"undo", "release"} /\ S!Answer(r)
      /\ UNCHANGED <<made, maker, live, known, calls>>
  BY DEF S!Undo, S!Release, S!At, S!Records, ScanInv
<1>2. s \in Scan
  BY <1>1, PollTypes
<1>3. Counted'
  <2>1. faults' = faults \/ S!Fails
    BY DEF S!Undo, S!Release, S!Succeeds
  <2>2. QED BY <1>1, <2>1, CountedKept
<1>4. PollsType /\ poll'[r].pc = "idle" /\ poll'[r].s = None
      /\ \A q \in ScanRequest : q # r => poll'[q] = poll[q]
  BY <1>1, PollAnswer DEF PollsType
<1>5. \/ leased' = leased \ {s} /\ S!Shows(s, "closed") /\ excused' = excused
      \/ excused' = excused \union {s} /\ UNCHANGED <<leased, page>>
  BY DestroyedGone DEF S!Undo, S!Release, S!UndoRelease, S!SuccessRelease
<1>6. /\ page' \in [Scan -> S!Pages] /\ \A x \in Scan : x \notin leased' => page'[x] = "closed"
      /\ \A x \in Scan : page'[x] \in {page[x], "closed"}
  <2>1. "closed" \in S!Pages
    BY DEF S!Pages
  <2>2. CASE leased' = leased \ {s} /\ S!Shows(s, "closed")
    <3>1. page' \in [Scan -> S!Pages] /\ page'[s] = "closed" /\ \A x \in Scan : x # s => page'[x] = page[x]
      BY <1>1, <1>2, <2>1, <2>2, Shown
    <3>2. QED BY <1>1, <2>2, <3>1 DEF S!TypeOK
  <2>3. CASE UNCHANGED <<leased, page>>
    BY <1>1, <2>3 DEF S!TypeOK
  <2>4. QED BY <1>5, <2>2, <2>3
<1>7. ScansFit'
  <2>1. ASSUME NEW q \in ScanRequest PROVE ScanFits(q)'
    BY <1>1, <1>4, PollsIn, AccountsAssumption DEF ScanInv, ScansFit, ScanFits
  <2>2. QED BY <2>1 DEF ScansFit
<1>8. LoginsOnce'
  <2>1. ASSUME NEW x \in Scan, x \notin excused' PROVE OnceOnly(x)'
    <3>1. OnceOnly(x)
      BY <1>5, <2>1 DEF ScanInv, LoginsOnce
    <3>2. leased' \subseteq leased
      BY <1>5
    <3>3. CASE x = s
      <4>1. x \notin leased'
        BY <1>5, <2>1, <3>3
      <4>2. QED BY <1>1, <1>4, <3>1, <3>3, <4>1, AccountsAssumption DEF OnceOnly, Closing
    <3>4. CASE x # s
      BY <1>1, <1>4, <3>1, <3>2, <3>4, AccountsAssumption DEF OnceOnly, Closing
    <3>5. QED BY <3>3, <3>4
  <2>2. QED BY <2>1 DEF LoginsOnce
<1>9. S!SuccessIsLogin'
  <2>1. ASSUME NEW q \in ScanRequest, poll'[q].pc \in {"cookies", "create", "release"}
        PROVE  page'[poll'[q].s] \in {"in", "closed"}
    <3>1. q # r /\ poll'[q] = poll[q]
      BY <1>4, <2>1
    <3>2. poll[q].s \in Scan /\ page[poll[q].s] \in {"in", "closed"}
      BY <1>1, <2>1, <3>1, PollsIn DEF ScanInv, S!SuccessIsLogin
    <3>3. QED BY <1>6, <3>1, <3>2
  <2>2. QED BY <2>1 DEF S!SuccessIsLogin
<1>10. S!LeaseIsReachable'
  <2>1. ASSUME NEW x \in leased' \intersect Scan, x \notin excused'
        PROVE  x \in known' \/ \E q \in ScanRequest : poll'[q].s = x
    <3>1. x # s /\ x \in leased /\ x \notin excused
      BY <1>5, <2>1
    <3>2. x \in known \/ \E q \in ScanRequest : poll[q].s = x
      BY <2>1, <3>1 DEF ScanInv, S!LeaseIsReachable
    <3>3. QED BY <1>1, <1>4, <3>1, <3>2
  <2>2. QED BY <2>1 DEF S!LeaseIsReachable
<1>11. leased' \subseteq Lessee /\ excused' \subseteq Scan
  BY <1>1, <1>2, <1>5 DEF S!TypeOK
<1>12. QED BY <1>1, <1>3, <1>4, <1>6, <1>7, <1>8, <1>9, <1>10, <1>11, ScanInvOf DEF S!TypeOK

\* A request goes on from the login it saw to the cookies and to the account;
\* where another is on the same way, the scan is excused.
LEMMA CloserKeeps ==
    ASSUME ScanInv, NEW r \in ScanRequest, NEW step \in Closing, S!Go(r, step), Counted',
           poll[r].pc \notin {"idle", "open", "undo"}, page[poll[r].s] \in {"in", "closed"},
           UNCHANGED <<leased, page, known>>,
           excused \subseteq excused' /\ excused' \subseteq Scan,
           maker' \in [S!Account -> Scan \union {None}],
           \A x \in Scan : x \notin excused' =>
              /\ x # poll[r].s => \A a \in S!Account : maker'[a] = x => maker[a] = x
              /\ x = poll[r].s => OnceOnly(x)'
    PROVE  ScanInv'
<1> DEFINE s == poll[r].s
<1>1. S!TypeOK /\ s \in Scan /\ step \in S!Steps
  BY PollTypes DEF Closing, S!Steps, ScanInv
<1>2. PollsType /\ poll'[r].pc = step /\ poll'[r].s = s
      /\ \A q \in ScanRequest : q # r => poll'[q] = poll[q]
  BY <1>1, PollGo DEF PollsType
<1>3. s \in known
  BY DEF ScanInv, ScansFit, ScanFits
<1>4. ScansFit'
  <2>1. ASSUME NEW q \in ScanRequest PROVE ScanFits(q)'
    BY <1>2, <1>3 DEF ScanInv, ScansFit, ScanFits, Closing
  <2>2. QED BY <2>1 DEF ScansFit
<1>5. LoginsOnce'
  <2>1. ASSUME NEW x \in Scan, x \notin excused' PROVE OnceOnly(x)'
    <3>1. OnceOnly(x)
      BY <2>1 DEF ScanInv, LoginsOnce
    <3>2. CASE x # s
      BY <1>2, <2>1, <3>1, <3>2 DEF OnceOnly, Closing
    <3>3. QED BY <2>1, <3>2
  <2>2. QED BY <2>1 DEF LoginsOnce
<1>6. S!SuccessIsLogin'
  BY <1>2 DEF ScanInv, S!SuccessIsLogin
<1>7. S!LeaseIsReachable'
  BY <1>2 DEF ScanInv, S!LeaseIsReachable
<1>8. QED BY <1>1, <1>2, <1>4, <1>5, <1>6, <1>7, ScanInvOf DEF S!TypeOK

LEMMA DetectKeeps ==
    ASSUME ScanInv, NEW r \in ScanRequest, S!Detect(r)
    PROVE  ScanInv'
<1> DEFINE s == poll[r].s
<1>1. CASE ~S!LoggedIn(s)
  BY <1>1, PageRead
<1>2. CASE S!LoggedIn(s)
  <2>1. /\ S!TypeOK /\ poll[r].pc = "page" /\ s \in leased /\ page[s] = "in" /\ S!Go(r, "cookies")
        /\ UNCHANGED <<leased, made, maker, live, page, known, calls, faults>>
    BY <1>2 DEF S!Detect, S!On, S!At, S!Records, S!LoggedIn, ScanInv
  <2>2. excused' = IF \E q \in S!Same(r, s) : poll[q].pc \in Closing
                   THEN excused \union {s} ELSE excused
    BY <1>2 DEF S!Detect, Closing
  <2>3. s \in Scan /\ "cookies" \in S!Steps /\ "cookies" \in Closing
    BY <2>1, PollTypes DEF S!Steps, Closing
  <2>4. poll'[r].pc = "cookies" /\ poll'[r].s = s /\ \A q \in ScanRequest : q # r => poll'[q] = poll[q]
    BY <2>1, <2>3, PollGo
  <2>5. ASSUME NEW x \in Scan, x = s, x \notin excused' PROVE OnceOnly(x)'
    <3>1. x \notin excused /\ \A q \in ScanRequest : q # r /\ poll[q].s = x => poll[q].pc \notin Closing
      BY <2>2, <2>5 DEF S!Same
    <3>2. OnceOnly(x)
      BY <3>1 DEF ScanInv, LoginsOnce
    <3>3. \A a \in S!Account : maker[a] # x
      <4>1. ASSUME NEW a \in S!Account, maker[a] = x PROVE FALSE
        <5>1. PICK q \in ScanRequest : poll[q].s = x /\ poll[q].pc = "release"
          BY <2>1, <2>5, <3>2, <4>1 DEF OnceOnly
        <5>2. q # r /\ poll[q].pc \in Closing
          BY <2>1, <5>1 DEF Closing
        <5>3. QED BY <3>1, <5>1, <5>2
      <4>2. QED BY <4>1
    <3>4. QED BY <2>1, <2>4, <2>5, <3>1, <3>3 DEF OnceOnly
  <2>6. Counted'
    BY <2>1, CountedKept
  <2>7. excused \subseteq excused' /\ excused' \subseteq Scan
    BY <2>1, <2>2, <2>3 DEF S!TypeOK
  <2>8. maker' \in [S!Account -> Scan \union {None}]
    BY <2>1 DEF S!TypeOK
  <2>9. \A x \in Scan : x \notin excused' =>
          /\ x # s => \A a \in S!Account : maker'[a] = x => maker[a] = x
          /\ x = s => OnceOnly(x)'
    BY <2>1, <2>5
  <2>10. poll[r].pc \notin {"idle", "open", "undo"} /\ page[poll[r].s] \in {"in", "closed"}
    BY <2>1
  <2>11. QED BY <2>1, <2>3, <2>6, <2>7, <2>8, <2>9, <2>10, CloserKeeps
<1>3. QED BY <1>1, <1>2

LEMMA CookiesKeep ==
    ASSUME ScanInv, NEW r \in ScanRequest, S!Cookies(r)
    PROVE  ScanInv'
<1>1. /\ S!TypeOK /\ poll[r].pc = "cookies" /\ page[poll[r].s] \in {"in", "closed"}
      /\ UNCHANGED <<leased, made, maker, live, page, known, excused, calls>>
  BY DEF S!Cookies, S!At, S!Records, ScanInv, S!SuccessIsLogin
<1>2. Counted'
  <2>1. faults' = faults \/ S!Fails
    BY DEF S!Cookies, S!Succeeds
  <2>2. QED BY <1>1, <2>1, CountedKept
<1>3. CASE S!Answer(r)
  <2>1. PagesKept
    BY <1>1, PagesSame DEF S!TypeOK
  <2>2. PollsType /\ \A q \in ScanRequest : LooksOn(q)
    BY <1>1, <1>3, Answered
  <2>3. QED BY <1>2, <2>1, <2>2, QuietStep
<1>4. CASE S!Go(r, "create")
  <2>1. "create" \in S!Steps /\ "create" \in Closing
    BY DEF S!Steps, Closing
  <2>2. poll'[r].pc = "create" /\ poll'[r].s = poll[r].s /\ \A q \in ScanRequest : q # r => poll'[q] = poll[q]
    BY <1>1, <1>4, <2>1, PollGo
  <2>3. ASSUME NEW x \in Scan, x = poll[r].s, x \notin excused' PROVE OnceOnly(x)'
    <3>1. OnceOnly(x)
      BY <1>1, <2>3 DEF ScanInv, LoginsOnce
    <3>2. QED BY <1>1, <2>2, <2>3, <3>1 DEF OnceOnly, Closing
  <2>4. \A x \in Scan : x \notin excused' =>
          /\ x # poll[r].s => \A a \in S!Account : maker'[a] = x => maker[a] = x
          /\ x = poll[r].s => OnceOnly(x)'
    BY <1>1, <2>3
  <2>5. excused \subseteq excused' /\ excused' \subseteq Scan /\ maker' \in [S!Account -> Scan \union {None}]
    BY <1>1 DEF S!TypeOK
  <2>6. QED BY <1>1, <1>2, <1>4, <2>1, <2>4, <2>5, CloserKeeps
<1>5. QED BY <1>3, <1>4 DEF S!Cookies

LEMMA CreateKeeps ==
    ASSUME ScanInv, NEW r \in ScanRequest, S!Create(r)
    PROVE  ScanInv'
<1>1. /\ S!TypeOK /\ poll[r].pc = "create" /\ page[poll[r].s] \in {"in", "closed"}
      /\ UNCHANGED <<leased, page, known, excused, calls>>
  BY DEF S!Create, S!At, ScanInv, S!SuccessIsLogin
<1>2. CASE S!Answer(r) /\ UNCHANGED S!Records
  <2>1. faults' = faults \/ S!Fails
    BY DEF S!Create, S!Succeeds
  <2>2. Counted'
    BY <1>1, <1>2, <2>1, CountedKept DEF S!Records
  <2>3. PagesKept
    BY <1>1, <1>2, PagesSame DEF S!TypeOK, S!Records
  <2>4. PollsType /\ \A q \in ScanRequest : LooksOn(q)
    BY <1>1, <1>2, Answered
  <2>5. QED BY <2>2, <2>3, <2>4, QuietStep
<1>3. CASE /\ made + 1 \in S!Account /\ made' = made + 1 /\ live' = live \union {made + 1}
           /\ maker' = [maker EXCEPT ![made + 1] = poll[r].s]
           /\ S!Go(r, "release") /\ S!Succeeds
  <2>1. "release" \in S!Steps /\ "release" \in Closing
    BY DEF S!Steps, Closing
  <2>2. poll'[r].pc = "release" /\ poll'[r].s = poll[r].s /\ \A q \in ScanRequest : q # r => poll'[q] = poll[q]
    BY <1>1, <1>3, <2>1, PollGo
  <2>3. poll[r].s \in Scan /\ poll[r].s \in known
    BY <1>1, PollTypes DEF ScanInv, ScansFit, ScanFits
  <2>4. Counted'
    BY <1>1, <1>3, AccountsAssumption DEF S!TypeOK, Counted, S!Account, S!Succeeds
  <2>5. /\ maker' \in [S!Account -> Scan \union {None}]
        /\ maker'[made + 1] = poll[r].s
        /\ \A a \in S!Account : a # made + 1 => maker'[a] = maker[a]
    BY <1>1, <1>3, <2>3 DEF S!TypeOK
  <2>6. ASSUME NEW x \in Scan, x = poll[r].s, x \notin excused' PROVE OnceOnly(x)'
    <3>1. OnceOnly(x)
      BY <1>1, <2>6 DEF ScanInv, LoginsOnce
    <3>2. \A a \in S!Account : maker[a] # x
      BY <1>1, <2>6, <3>1 DEF OnceOnly
    <3>3. \A a \in S!Account : maker'[a] = x => a = made + 1
      BY <2>5, <3>2
    <3>4. \A q \in ScanRequest : q # r /\ poll'[q].s = x => poll'[q].pc \notin Closing
      BY <1>1, <2>2, <2>6, <3>1 DEF OnceOnly, Closing
    <3>5. \A q, p \in ScanRequest :
            poll'[q].s = x /\ poll'[p].s = x /\ poll'[q].pc \in Closing /\ poll'[p].pc \in Closing => p = q
      BY <3>4
    <3>6. \A q \in ScanRequest : poll'[q].s = x => poll'[q].pc \notin {"cookies", "create"}
      BY <2>2, <3>4 DEF Closing
    <3>7. x \in known' /\ poll'[r].s = x /\ poll'[r].pc = "release"
      BY <1>1, <2>2, <2>3, <2>6
    <3>8. QED BY <3>3, <3>5, <3>6, <3>7 DEF OnceOnly
  <2>7. \A x \in Scan : x \notin excused' =>
          /\ x # poll[r].s => \A a \in S!Account : maker'[a] = x => maker[a] = x
          /\ x = poll[r].s => OnceOnly(x)'
    BY <2>5, <2>6
  <2>8. excused \subseteq excused' /\ excused' \subseteq Scan
    BY <1>1 DEF S!TypeOK
  <2>9. poll[r].pc \notin {"idle", "open", "undo"} /\ S!Go(r, "release")
    BY <1>1, <1>3
  <2>10. QED BY <1>1, <2>1, <2>4, <2>5, <2>7, <2>8, <2>9, CloserKeeps
<1>4. QED BY <1>2, <1>3 DEF S!Create

\* The end of the server excuses what its requests had not yet told anybody of
\* or not yet destroyed.
LEMMA ServerEndsScans ==
    ASSUME ScanInv, ServerEnds
    PROVE  ScanInv'
<1>1. /\ S!TypeOK /\ UNCHANGED <<leased, made, live, calls, page, known, maker>> /\ S!Fails
      /\ poll' = [r \in ScanRequest |-> S!Idle]
      /\ excused' = excused \union {poll[r].s : r \in {q \in ScanRequest : poll[q].pc \in {"open", "undo", "release"}}}
  BY DEF ServerEnds, S!ScanDies, ScanInv
<1>2. Counted'
  BY <1>1, CountedKept
<1>3. S!Idle.pc = "idle" /\ S!Idle.s = None
  BY DEF S!Idle
<1>4. PollsType /\ \A q \in ScanRequest : poll'[q].pc = "idle" /\ poll'[q].s = None
  BY <1>1, <1>3 DEF PollsType
<1>5. excused' \subseteq Scan
  BY <1>1, PollTypes DEF S!TypeOK
<1>6. ScansFit'
  BY <1>4 DEF ScansFit, ScanFits
<1>7. LoginsOnce'
  <2>1. ASSUME NEW x \in Scan, x \notin excused' PROVE OnceOnly(x)'
    <3>1. OnceOnly(x)
      BY <1>1, <2>1 DEF ScanInv, LoginsOnce
    <3>2. \A q \in ScanRequest : poll[q].s = x => poll[q].pc # "release"
      BY <1>1, <2>1
    <3>3. QED BY <1>1, <1>4, <3>1, <3>2, AccountsAssumption DEF OnceOnly, Closing
  <2>2. QED BY <2>1 DEF LoginsOnce
<1>8. S!SuccessIsLogin'
  BY <1>4 DEF S!SuccessIsLogin
<1>9. S!LeaseIsReachable'
  <2>1. ASSUME NEW x \in leased' \intersect Scan, x \notin excused'
        PROVE  x \in known'
    <3>1. x \in known \/ \E q \in ScanRequest : poll[q].s = x
      BY <1>1, <2>1 DEF ScanInv, S!LeaseIsReachable
    <3>2. ASSUME NEW q \in ScanRequest, poll[q].s = x PROVE x \in known
      <4>1. poll[q].pc \notin {"open", "undo", "release"} /\ poll[q].pc # "idle"
        BY <1>1, <2>1, <3>2, PollsIn
      <4>2. QED BY <3>2, <4>1 DEF ScanInv, ScansFit, ScanFits
    <3>3. QED BY <1>1, <3>1, <3>2
  <2>2. QED BY <2>1 DEF S!LeaseIsReachable
<1>10. QED BY <1>1, <1>2, <1>4, <1>5, <1>6, <1>7, <1>8, <1>9, ScanInvOf DEF S!TypeOK

-----------------------------------------------------------------------------
(* Scans: every step of either part.                                         *)

\* Records take and give browsers of their own, and add and remove accounts.
LEMMA RecordsKeepScans ==
    ASSUME ScanInv, R!RecordsNext, UNCHANGED scanVars
    PROVE  ScanInv'
<1>1. S!TypeOK /\ UNCHANGED <<page, known, poll, maker, excused>>
  BY DEF scanVars, ScanInv
<1>2. leased' \subseteq Lessee /\ leased' \intersect Scan = leased \intersect Scan
  <2>1. leased' = leased \/ \E s \in Syncing : leased' = leased \union {s} \/ leased' = leased \ {s}
    BY DEF R!RecordsNext, R!HandleRecords, R!CreateAccount, R!CallSync, R!ScanContacts, R!TakenSync, R!ReleaseSync,
           R!Merge, R!CallCreate, R!CallUpdate, R!CommitCreate, R!ReadUpdate, R!SaveUpdate, R!ReadEnable,
           R!SaveEnable, R!CallDelete, R!Unbind, R!ReadOne, R!WriteOne, R!Drop, R!Pool!Grant, R!Pool!Withdraw
  <2>2. QED BY <1>1, <2>1, AccountsAssumption DEF S!TypeOK, Lessee
<1>3. Counted'
  <2>1. /\ calls' = calls \/ S!Called
        /\ faults' = faults \/ S!Fails
        /\ \/ UNCHANGED <<made, live>>
           \/ made' = made + 1 /\ made' \in R!Account /\ live' = live \union {made + 1}
           \/ made' = made /\ live' \subseteq live
    <3> DEFINE Kept == /\ calls' = calls \/ S!Called
                       /\ faults' = faults \/ S!Fails
                       /\ \/ UNCHANGED <<made, live>>
                          \/ made' = made + 1 /\ made' \in R!Account /\ live' = live \union {made + 1}
                          \/ made' = made /\ live' \subseteq live
    <3>1. CASE R!CreateAccount
      BY <3>1 DEF R!CreateAccount, R!Called, S!Called
    <3>2. CASE \E s \in Syncing : R!TakenSync(s)
      BY <3>2 DEF R!TakenSync
    <3>3. ASSUME NEW r \in RecordRequest, NEW a \in R!Account, NEW s \in Syncing, R!CallSync(r, a, s) PROVE Kept
      BY <3>3 DEF R!CallSync, R!Called, S!Called
    <3>4. ASSUME NEW r \in RecordRequest, NEW a \in R!Account, NEW u \in Uid,
                 R!CallCreate(r, a, u) \/ \E t \in R!Task : R!CallUpdate(r, t, a, u)
          PROVE  Kept
      BY <3>4 DEF R!CallCreate, R!CallUpdate, R!Called, S!Called
    <3>5. ASSUME NEW r \in RecordRequest,
                 \/ \E a \in R!Account : R!CallDelete(r, a)
                 \/ \E t \in R!Task, on \in BOOLEAN : R!ReadEnable(r, t, on)
          PROVE  Kept
      BY <3>5 DEF R!CallDelete, R!ReadEnable, R!Called, S!Called
    <3>6. ASSUME NEW r \in RecordRequest, R!HandleRecords(r) PROVE Kept
      <4>1. CASE \E s \in Syncing : R!ReleaseSync(r, s)
        BY <4>1 DEF R!ReleaseSync, R!Fails, S!Fails
      <4>2. CASE R!Drop(r)
        BY <4>2 DEF R!Drop
      <4>3. QED BY <3>6, <4>1, <4>2 DEF R!HandleRecords, R!ScanContacts, R!Merge, R!CommitCreate,
               R!ReadUpdate, R!SaveUpdate, R!SaveEnable, R!Unbind, R!ReadOne, R!WriteOne
    <3>7. QED BY <3>1, <3>2, <3>3, <3>4, <3>5, <3>6 DEF R!RecordsNext
  <2>4. calls' \in 0..MaxCalls /\ faults' \in 0..MaxFaults
    BY <1>1, <2>1, AccountsAssumption DEF S!TypeOK, S!Called, S!Fails
  <2>5. made' \in 0..MaxAccounts /\ live' \subseteq 1..made'
    <3>1. made \in 0..MaxAccounts /\ live \subseteq 1..made /\ MaxAccounts \in Nat
      BY <1>1, AccountsAssumption DEF S!TypeOK
    <3>2. CASE UNCHANGED <<made, live>>
      BY <3>1, <3>2
    <3>3. CASE made' = made + 1 /\ made' \in R!Account /\ live' = live \union {made + 1}
      <4>1. made' \in 0..MaxAccounts
        BY <3>1, <3>3 DEF R!Account
      <4>2. ASSUME NEW x \in live' PROVE x \in 1..made'
        BY <3>1, <3>3, <4>2
      <4>3. QED BY <4>1, <4>2
    <3>4. CASE made' = made /\ live' \subseteq live
      BY <3>1, <3>4
    <3>5. QED BY <2>1, <3>2, <3>3, <3>4
  <2>6. QED BY <2>4, <2>5 DEF Counted
<1>4. QED BY <1>1, <1>2, <1>3, PagesSame, PollsSame, QuietStep

LEMMA ScanInvNext ==
    ASSUME ScanInv, [Next]_vars
    PROVE  ScanInv'
<1>1. CASE S!ScanNext
  <2>1. ASSUME NEW r \in ScanRequest, S!Handle(r) PROVE ScanInv'
    BY <2>1, OpenKeeps, LeaveKeeps, BrokenKeeps, DetectKeeps, PageRead, ClickKeeps, CookiesKeep, CreateKeeps
       DEF S!Handle
  <2>2. QED BY <1>1, <2>1, StartKeeps, CallPageKeeps, PageLeaves DEF S!ScanNext
<1>2. CASE R!RecordsNext /\ UNCHANGED scanVars
  BY <1>2, RecordsKeepScans
<1>3. CASE ServerEnds
  BY <1>3, ServerEndsScans
<1>4. CASE UNCHANGED vars
  <2>1. S!TypeOK /\ UNCHANGED <<leased, made, live, calls, faults, page, known, poll, maker, excused>>
    BY <1>4 DEF vars, scanVars, ScanInv
  <2>2. QED BY <2>1, CountedKept, PagesSame, PollsSame, QuietStep DEF S!TypeOK
<1>5. QED BY <1>1, <1>2, <1>3, <1>4 DEF Next

-----------------------------------------------------------------------------
(* Records: the state space and the steps of one request.                    *)

LEMMA JobTypes ==
    ASSUME R!TypeOK, NEW r \in RecordRequest
    PROVE  /\ job[r].pc = "idle" => job[r] = R!Idle /\ job[r].tasks = {}
           /\ job[r].pc # "idle" => job[r] \in Jobs
           /\ job[r].tasks \subseteq R!Task /\ job[r].uids \subseteq Uid
<1>1. job[r] \in Jobs \union {R!Idle}
  BY DEF R!TypeOK, Jobs
<1>2. CASE job[r] = R!Idle
  BY <1>2 DEF R!Idle
<1>3. CASE job[r] \in Jobs
  BY <1>3 DEF Jobs, R!Steps
<1>4. QED BY <1>1, <1>2, <1>3

\* Request r goes on with the record x, the others stay.
Moves(r, x) ==
    /\ job' \in [RecordRequest -> Jobs \union {R!Idle}]
    /\ job'[r] = x
    /\ \A q \in RecordRequest : q # r => job'[q] = job[q]

LEMMA JobMoves ==
    ASSUME R!TypeOK, NEW r \in RecordRequest, NEW x \in Jobs \union {R!Idle},
           job' = [job EXCEPT ![r] = x]
    PROVE  Moves(r, x)
<1>1. job \in [RecordRequest -> Jobs \union {R!Idle}]
  BY DEF R!TypeOK, Jobs
<1>2. QED BY <1>1 DEF Moves

LEMMA JobGoes ==
    ASSUME R!TypeOK, NEW r \in RecordRequest, job[r].pc # "idle", NEW step \in R!Steps, R!Go(r, step)
    PROVE  /\ Moves(r, [job[r] EXCEPT !.pc = step])
           /\ job'[r].pc = step /\ job'[r].a = job[r].a /\ job'[r].t = job[r].t
           /\ job'[r].on = job[r].on
           /\ job'[r].uids = job[r].uids /\ job'[r].tasks = job[r].tasks
<1>1. job[r] \in Jobs
  BY JobTypes
<1>2. job' = [job EXCEPT ![r] = [job[r] EXCEPT !.pc = step]]
  BY DEF R!Go
<1> DEFINE x == [job[r] EXCEPT !.pc = step]
<1>3. /\ x \in Jobs
      /\ x.pc = step /\ x.a = job[r].a /\ x.t = job[r].t /\ x.on = job[r].on
      /\ x.uids = job[r].uids /\ x.tasks = job[r].tasks
  BY <1>1 DEF Jobs
<1>4. job' = [job EXCEPT ![r] = x]
  BY <1>2
<1> HIDE DEF x
<1>5. Moves(r, x)
  BY <1>3, <1>4, JobMoves
<1>6. job'[r] = x
  BY <1>5 DEF Moves
<1>7. Moves(r, [job[r] EXCEPT !.pc = step])
  BY <1>5 DEF x
<1>8. QED BY <1>3, <1>6, <1>7

LEMMA JobAnswered ==
    ASSUME R!TypeOK, NEW r \in RecordRequest, R!Answer(r)
    PROVE  /\ Moves(r, R!Idle)
           /\ job'[r].pc = "idle" /\ job'[r].tasks = {} /\ job'[r].a = 0
<1>1. Moves(r, R!Idle)
  BY JobMoves DEF R!Answer
<1>2. QED BY <1>1 DEF Moves, R!Idle

\* What a request knows stays true while tasks only come, accounts only come or
\* keep their contacts, and nobody binds a task to its account unnoticed.
LEMMA FitsOn ==
    ASSUME NEW x, JobFits(x), DeletionFits(x), 0..made \subseteq 0..made',
           R!Tasks \subseteq R!Tasks', raced \subseteq raced',
           x.a \in live' => x.a \in live /\ contact[x.a] \subseteq contact'[x.a],
           x.pc \in {"unbind", "sync", "enqueue", "drop"} =>
             \A t \in R!Tasks' \ raced' : task'[t].acct = x.a => t \in R!Tasks /\ task[t].acct = x.a,
           x.pc = "enqueue" => x.t \in raced' \/ task'[x.t].on = task[x.t].on
    PROVE  JobFits(x)' /\ DeletionFits(x)'
BY DEF JobFits, DeletionFits

-----------------------------------------------------------------------------
(* Records: the steps that change no task, contact or schedule.              *)

JobsType == job' \in [RecordRequest -> Jobs \union {R!Idle}]

\* An account may come.
Grows == \/ UNCHANGED <<made, live>>
         \/ made' = made + 1 /\ made + 1 \in R!Account /\ live' = live \union {made + 1}

LEMMA GrownAccounts ==
    ASSUME Counted, Grows
    PROVE  /\ 0..made \subseteq 0..made' /\ live \subseteq live'
           /\ \A a \in 0..made : a \in live' => a \in live
           /\ live \subseteq R!Account
BY AccountsAssumption DEF Counted, Grows, R!Account

\* Who may save keeps what it read, and what an account it saw has become.
LEMMA EditsGoOn ==
    ASSUME EditsFit, raced \subseteq raced',
           \A q \in RecordRequest : job'[q].pc \in Edits => job'[q] = job[q],
           \A q \in RecordRequest : job[q].pc = "enable" /\ job'[q] = job[q] =>
             /\ task[job[q].t].acct = job[q].a =>
                  \/ task'[job[q].t].acct = job[q].a \/ job[q].t \in raced'
                  \/ \E p \in RecordRequest : SeesTo(job'[p], job[q].a, job[q].t)
             /\ \A p \in RecordRequest : SeesTo(job[p], job[q].a, job[q].t) => SeesTo(job'[p], job[q].a, job[q].t)
    PROVE  EditsFit'
<1>1. \A q, r \in RecordRequest : job'[q].pc \in Edits /\ job'[r].pc \in Edits => q = r
  BY DEF EditsFit
<1>2. ASSUME NEW q \in RecordRequest, job'[q].pc = "enable", job'[q].on
      PROVE  \/ job'[q].t \in raced' \/ task'[job'[q].t].acct = job'[q].a
             \/ \E p \in RecordRequest : SeesTo(job'[p], job'[q].a, job'[q].t)
  <2>1. job'[q] = job[q]
    BY <1>2 DEF Edits
  <2>2. EnableFits(job[q])
    BY DEF EditsFit
  <2>3. QED BY <1>2, <2>1, <2>2 DEF EnableFits
<1>3. QED BY <1>1, <1>2 DEF EditsFit, EnableFits

\* Requests that have no schedule to see to go on with what they rightly know,
\* and so do those that look at one; one request may read what it will save.
GoesRight(q) ==
    /\ \/ job[q].tasks = {}
       \/ /\ job[q].pc \in Scheduling /\ job'[q].pc \in Scheduling
          /\ job'[q].a = job[q].a /\ job'[q].tasks = job[q].tasks
    /\ JobFits(job'[q]) /\ DeletionFits(job'[q])
    /\ job'[q].pc \in Edits =>
         /\ R!Unlocked /\ \A p \in RecordRequest : p # q => job'[p] = job[p]
         /\ job'[q].pc = "enable" => task[job'[q].t].acct = job'[q].a

JobsGoOn ==
    /\ JobsType
    /\ \A q \in RecordRequest : job'[q] = job[q] \/ GoesRight(q)

LEMMA RecordQuiet ==
    ASSUME RecordInv, Counted, Grows, JobsGoOn, UNCHANGED <<contact, task, armed, raced>>
    PROVE  RecordInv'
<1>1. R!Tasks' = R!Tasks
  BY DEF R!Tasks
<1>2. R!TypeOK'
  <2>1. live \subseteq live' /\ live \subseteq R!Account
    BY GrownAccounts
  <2>2. QED BY <1>1, <2>1 DEF RecordInv, R!TypeOK, JobsGoOn, JobsType, Jobs
<1>3. JobsFit'
  <2>1. ASSUME NEW q \in RecordRequest PROVE JobFits(job[q])' /\ DeletionFits(job[q])'
    <3>1. PICK x : x = job'[q]
      OBVIOUS
    <3>2. JobFits(x) /\ DeletionFits(x)
      BY <3>1 DEF RecordInv, JobsFit, JobsGoOn, GoesRight
    <3>3. x.a \in live' => x.a \in live /\ contact[x.a] \subseteq contact'[x.a]
      <4>1. live' \subseteq R!Account
        BY GrownAccounts, AccountsAssumption DEF Counted, Grows, R!Account
      <4>2. None \notin R!Account
        BY AccountsAssumption DEF R!Account
      <4>3. QED BY <3>2, <4>1, <4>2, GrownAccounts DEF JobFits
    <3>4. JobFits(x)' /\ DeletionFits(x)'
      BY <1>1, <3>2, <3>3, GrownAccounts, FitsOn
    <3>5. QED BY <3>1, <3>4
  <2>2. QED BY <2>1 DEF JobsFit
<1>4. EditsFit'
  <2>1. CASE \A q \in RecordRequest : job'[q].pc \in Edits => job'[q] = job[q]
    <3>1. ASSUME NEW p \in RecordRequest, NEW a, NEW t, SeesTo(job[p], a, t)
          PROVE  SeesTo(job'[p], a, t)
      <4>1. CASE job'[p] = job[p]
        BY <3>1, <4>1
      <4>2. CASE GoesRight(p)
        BY <3>1, <4>2 DEF GoesRight, SeesTo
      <4>3. QED BY <4>1, <4>2 DEF JobsGoOn
    <3>2. QED BY <2>1, <3>1, EditsGoOn DEF RecordInv
  <2>2. ASSUME NEW q \in RecordRequest, job'[q].pc \in Edits, job'[q] # job[q]
        PROVE  EditsFit'
    <3>1. R!Unlocked /\ (\A p \in RecordRequest : p # q => job'[p] = job[p])
          /\ (job'[q].pc = "enable" => task[job'[q].t].acct = job'[q].a)
      BY <2>2 DEF JobsGoOn, GoesRight
    <3>2. \A p \in RecordRequest : p # q => job'[p].pc \notin Edits
      BY <3>1 DEF R!Unlocked, R!Admitting, Edits
    <3>3. \A p \in RecordRequest : EnableFits(job[p])'
      BY <3>1, <3>2 DEF EnableFits, Edits
    <3>4. QED BY <3>2, <3>3 DEF EditsFit
  <2>3. QED BY <2>1, <2>2
<1>5. SchedulesOwed'
  <2>1. \A q \in RecordRequest : job[q].tasks = {} \/ job'[q].tasks = job[q].tasks
    BY DEF JobsGoOn, GoesRight
  <2>2. QED BY <1>1, <2>1 DEF RecordInv, SchedulesOwed
<1>6. R!EnabledHasAccount' /\ R!TargetStaysKnown'
  BY <1>1 DEF RecordInv, R!EnabledHasAccount, R!TargetStaysKnown
<1>7. QED BY <1>2, <1>3, <1>4, <1>5, <1>6 DEF RecordInv

\* A request that is not deleting answers.
LEMMA AnswerFits ==
    ASSUME RecordInv, Counted, NEW r \in RecordRequest, R!Answer(r), job[r].tasks = {}
    PROVE  JobsGoOn
<1>1. R!TypeOK /\ made \in Nat
  BY AccountsAssumption DEF RecordInv, Counted
<1>2. Moves(r, R!Idle) /\ job'[r].pc = "idle" /\ job'[r].tasks = {} /\ job'[r].a = 0
  BY <1>1, JobAnswered
<1>3. JobFits(job'[r]) /\ DeletionFits(job'[r])
  BY <1>1, <1>2, AccountsAssumption DEF JobFits, DeletionFits
<1>4. GoesRight(r)
  BY <1>2, <1>3 DEF GoesRight, Edits
<1>5. QED BY <1>2, <1>4 DEF Moves, JobsType, JobsGoOn

\* A request goes on, or is called, with what it read.
LEMMA GoesOn ==
    ASSUME R!TypeOK, NEW r \in RecordRequest, NEW x \in Jobs, job' = [job EXCEPT ![r] = x],
           job[r].tasks = {}, JobFits(x), DeletionFits(x),
           x.pc \in Edits => R!Unlocked /\ (x.pc = "enable" => task[x.t].acct = x.a)
    PROVE  JobsGoOn
<1>1. Moves(r, x)
  BY JobMoves
<1>2. GoesRight(r)
  BY <1>1 DEF Moves, GoesRight
<1>3. QED BY <1>1, <1>2 DEF Moves, JobsType, JobsGoOn

LEMMA CallsKeep ==
    ASSUME RecordInv, Counted, NEW r \in RecordRequest, NEW a \in R!Account,
           \/ \E s \in Syncing : R!CallSync(r, a, s)
           \/ \E u \in Uid : R!CallCreate(r, a, u) \/ \E t \in R!Task : R!CallUpdate(r, t, a, u)
           \/ R!CallDelete(r, a)
    PROVE  RecordInv'
<1>1. /\ R!TypeOK /\ a \in live /\ a \in 0..made /\ a # None /\ job[r].tasks = {}
      /\ UNCHANGED <<made, live, contact, task, armed, raced>>
  <2>1. R!TypeOK /\ job[r].pc = "idle" /\ a \in live /\ UNCHANGED <<made, live, contact, task, armed, raced>>
    BY DEF RecordInv, R!CallSync, R!CallCreate, R!CallUpdate, R!CallDelete, R!At
  <2>2. QED BY <2>1, JobTypes, AccountsAssumption DEF Counted
<1>2. JobsGoOn
  <2>1. CASE \E s \in Syncing : R!CallSync(r, a, s)
    <3> DEFINE x == [pc |-> "scan", a |-> a, t |-> 0, on |-> FALSE, uids |-> {}, tasks |-> {}]
    <3>1. job' = [job EXCEPT ![r] = x]
      BY <2>1 DEF R!CallSync, R!Begin, R!Holds
    <3>2. x \in Jobs /\ JobFits(x) /\ DeletionFits(x) /\ x.pc \notin Edits
      BY <1>1 DEF Jobs, R!Steps, JobFits, DeletionFits, Edits
    <3>3. QED BY <1>1, <3>1, <3>2, GoesOn
  <2>2. ASSUME NEW u \in Uid, R!CallCreate(r, a, u) PROVE JobsGoOn
    <3> DEFINE x == [pc |-> "create", a |-> a, t |-> 0, on |-> FALSE, uids |-> {u}, tasks |-> {}]
    <3>1. job' = [job EXCEPT ![r] = x] /\ u \in contact[a]
      BY <2>2 DEF R!CallCreate, R!Begin, R!Holds, R!TargetBelongs
    <3>2. x \in Jobs /\ x.pc \notin Edits
      BY DEF Jobs, R!Steps, Edits
    <3>3. JobFits(x) /\ DeletionFits(x)
      BY <1>1, <3>1 DEF JobFits, DeletionFits
    <3>4. QED BY <1>1, <3>1, <3>2, <3>3, GoesOn
  <2>3. ASSUME NEW u \in Uid, NEW t \in R!Task, R!CallUpdate(r, t, a, u) PROVE JobsGoOn
    <3> DEFINE x == [pc |-> "update", a |-> a, t |-> t, on |-> FALSE, uids |-> {u}, tasks |-> {}]
    <3>1. job' = [job EXCEPT ![r] = x] /\ u \in contact[a] /\ t \in R!Tasks
      BY <2>3 DEF R!CallUpdate, R!Begin, R!Holds, R!TargetBelongs
    <3>2. x \in Jobs /\ x.pc \notin Edits
      BY DEF Jobs, R!Steps, Edits
    <3>3. JobFits(x) /\ DeletionFits(x)
      BY <1>1, <3>1 DEF JobFits, DeletionFits
    <3>4. QED BY <1>1, <3>1, <3>2, <3>3, GoesOn
  <2>4. CASE R!CallDelete(r, a)
    <3> DEFINE x == [pc |-> "unbind", a |-> a, t |-> 0, on |-> FALSE, uids |-> {}, tasks |-> R!Bound(a)]
    <3>1. job' = [job EXCEPT ![r] = x]
      BY <2>4 DEF R!CallDelete, R!Begin, R!Holds
    <3>2. x \in Jobs /\ x.pc \notin Edits
      BY DEF Jobs, R!Steps, R!Bound, R!Tasks, Edits
    <3>3. JobFits(x) /\ DeletionFits(x)
      BY <1>1 DEF JobFits, DeletionFits, R!Bound
    <3>4. QED BY <1>1, <3>1, <3>2, <3>3, GoesOn
  <2>5. QED BY <2>1, <2>2, <2>3, <2>4
<1>3. QED BY <1>1, <1>2, RecordQuiet DEF Grows

\* A request reads, under the locks, the task that it will save.
LEMMA ReadsKeep ==
    ASSUME RecordInv, Counted, NEW r \in RecordRequest,
           R!ReadUpdate(r) \/ \E t \in R!Task, on \in BOOLEAN : R!ReadEnable(r, t, on)
    PROVE  RecordInv'
<1>1. /\ R!TypeOK /\ R!Unlocked /\ JobFits(job[r])
      /\ UNCHANGED <<made, live, contact, task, armed, raced>>
  BY DEF RecordInv, JobsFit, R!ReadUpdate, R!ReadEnable
<1>2. CASE R!ReadUpdate(r)
  <2> DEFINE x == [pc |-> "save", a |-> job[r].a, t |-> job[r].t, on |-> task[job[r].t].on,
                   uids |-> job[r].uids, tasks |-> {}]
  <2>1. job' = [job EXCEPT ![r] = x] /\ job[r].pc = "update"
    BY <1>2 DEF R!ReadUpdate, R!Holds, R!At
  <2>2. job[r] \in Jobs /\ job[r].tasks = {} /\ job[r].t \in R!Tasks
    BY <1>1, <2>1, JobTypes DEF JobFits
  <2>3. task[job[r].t].on \in BOOLEAN
    BY <1>1, <2>2 DEF R!TypeOK, R!Tasks
  <2>4. x \in Jobs /\ x.pc = "save"
    BY <2>2, <2>3 DEF Jobs, R!Steps
  <2>5. JobFits(x) /\ DeletionFits(x)
    BY <1>1, <2>1, <2>2 DEF JobFits, DeletionFits
  <2>6. JobsGoOn
    BY <1>1, <2>1, <2>2, <2>4, <2>5, GoesOn
  <2>7. QED BY <1>1, <2>6, RecordQuiet DEF Grows
<1>3. ASSUME NEW t \in R!Task, NEW on \in BOOLEAN, R!ReadEnable(r, t, on) PROVE RecordInv'
  <2> DEFINE x == [pc |-> "enable", a |-> task[t].acct, t |-> t, on |-> on, uids |-> {}, tasks |-> {}]
  <2>1. /\ job' = [job EXCEPT ![r] = x] /\ job[r].pc = "idle" /\ t \in R!Tasks
        /\ on => task[t].acct # None
    BY <1>3 DEF R!ReadEnable, R!Holds, R!At, R!MayEnable
  <2>2. job[r].tasks = {}
    BY <1>1, <2>1, JobTypes
  <2>3. task[t].acct \in live \union {None} /\ live \subseteq 1..made /\ made \in 0..MaxAccounts
    BY <1>1, <2>1 DEF R!TypeOK, Counted
  <2>4. task[t].acct \in R!Account \union {None} /\ (task[t].acct # None => task[t].acct \in 0..made)
    <3>1. \A b \in 1..made : b \in R!Account /\ b \in 0..made
      BY <2>3, AccountsAssumption DEF R!Account
    <3>2. QED BY <2>3, <3>1
  <2>5. x \in Jobs
    BY <2>4 DEF Jobs, R!Steps
  <2>6. JobFits(x) /\ DeletionFits(x)
    BY <2>1, <2>4 DEF JobFits, DeletionFits
  <2>7. JobsGoOn
    BY <1>1, <2>1, <2>2, <2>5, <2>6, GoesOn
  <2>8. QED BY <1>1, <2>7, RecordQuiet DEF Grows
<1>4. QED BY <1>2, <1>3

LEMMA SyncKeeps ==
    ASSUME RecordInv, Counted, NEW r \in RecordRequest,
           R!ScanContacts(r) \/ \E s \in Syncing : R!ReleaseSync(r, s)
    PROVE  RecordInv'
<1>1. R!TypeOK /\ JobFits(job[r]) /\ UNCHANGED <<made, live, contact, task, armed, raced>>
  BY DEF RecordInv, JobsFit, R!ScanContacts, R!ReleaseSync
<1>2. CASE R!ScanContacts(r)
  <2>1. PICK found \in SUBSET Uid : job' = [job EXCEPT ![r].pc = "release", ![r].uids = found]
    BY <1>2 DEF R!ScanContacts
  <2>2. job[r] \in Jobs /\ job[r].pc = "scan" /\ job[r].tasks = {}
    BY <1>1, <1>2, JobTypes DEF R!ScanContacts, R!At, JobFits
  <2>3. job' = [job EXCEPT ![r] = [job[r] EXCEPT !.pc = "release", !.uids = found]]
    BY <2>1
  <2> DEFINE x == [job[r] EXCEPT !.pc = "release", !.uids = found]
  <2>4. x \in Jobs /\ x.pc = "release" /\ x.a = job[r].a /\ x.tasks = {}
    BY <2>2 DEF Jobs, R!Steps
  <2>5. job' = [job EXCEPT ![r] = x]
    BY <2>3
  <2> HIDE DEF x
  <2>6. JobFits(x) /\ DeletionFits(x) /\ x.pc \notin Edits
    BY <1>1, <2>2, <2>4 DEF JobFits, DeletionFits, Edits
  <2>7. JobsGoOn
    BY <1>1, <2>2, <2>4, <2>5, <2>6, GoesOn
  <2>8. QED BY <1>1, <2>7, RecordQuiet DEF Grows
<1>3. CASE \E s \in Syncing : R!ReleaseSync(r, s)
  <2>1. job[r].pc = "release" /\ job[r].tasks = {} /\ (R!Answer(r) \/ R!Go(r, "merge"))
    BY <1>1, <1>3 DEF R!ReleaseSync, R!At, JobFits
  <2>2. CASE R!Answer(r)
    BY <1>1, <2>1, <2>2, AnswerFits, RecordQuiet DEF Grows
  <2>3. CASE R!Go(r, "merge")
    <3>1. "merge" \in R!Steps
      BY DEF R!Steps
    <3>2. /\ Moves(r, [job[r] EXCEPT !.pc = "merge"])
          /\ job'[r].pc = "merge" /\ job'[r].a = job[r].a /\ job'[r].tasks = job[r].tasks
      BY <1>1, <2>1, <2>3, <3>1, JobGoes
    <3>3. JobFits(job'[r]) /\ DeletionFits(job'[r])
      BY <1>1, <2>1, <3>2 DEF JobFits, DeletionFits
    <3>4. JobsGoOn
      BY <2>1, <3>2, <3>3 DEF Moves, JobsType, JobsGoOn, GoesRight, Edits
    <3>5. QED BY <1>1, <3>4, RecordQuiet DEF Grows
  <2>4. QED BY <2>1, <2>2, <2>3
<1>4. QED BY <1>2, <1>3

LEMMA OthersKeepRecords ==
    ASSUME RecordInv, Counted, Grows, UNCHANGED <<contact, task, armed, job, raced>>
    PROVE  RecordInv'
<1>1. JobsGoOn
  BY DEF RecordInv, R!TypeOK, JobsType, Jobs, JobsGoOn
<1>2. QED BY <1>1, RecordQuiet

-----------------------------------------------------------------------------
(* Records: the steps that bind, unbind and schedule tasks.                  *)

LEMMA TaskTypes ==
    ASSUME R!TypeOK, NEW t \in R!Task
    PROVE  /\ task[t] \in TaskRows \union {R!NoTask}
           /\ t \in R!Tasks => task[t] \in TaskRows
           /\ t \notin R!Tasks => task[t].acct = None /\ task[t].on = FALSE
           /\ R!NoTask \notin TaskRows
<1>1. task[t] \in TaskRows \union {R!NoTask}
  BY DEF R!TypeOK, TaskRows
<1>2. R!NoTask.acct = None /\ R!NoTask.on = FALSE /\ R!NoTask.uid = None
  BY DEF R!NoTask
<1>3. \A row \in TaskRows : row.uid \in Uid
  BY DEF TaskRows
<1>4. R!NoTask \notin TaskRows
  BY <1>2, <1>3, AccountsAssumption
<1>5. QED BY <1>1, <1>2, <1>4 DEF R!Tasks

\* The tasks of an account are written anew, row by row; a written one exists.
LEMMA TasksWritten ==
    ASSUME R!TypeOK, task' \in [R!Task -> TaskRows \union {R!NoTask}],
           \A t \in R!Task : task'[t] = task[t] \/ task'[t] \in TaskRows
    PROVE  /\ R!Tasks \subseteq R!Tasks'
           /\ \A t \in R!Tasks' : t \in R!Tasks \/ task'[t] # task[t]
           /\ \A t \in R!Task : task'[t] \in TaskRows => t \in R!Tasks'
BY TaskTypes DEF R!Tasks

\* One task gets a row that is right by what is there now, its schedule with it,
\* but for one whose account is being deleted, or that a deletion has read, which
\* is noted.
Binds(t, row) ==
    /\ task' = [task EXCEPT ![t] = row]
    /\ armed' = IF row.on THEN armed \union {t} ELSE armed \ {t}
    /\ row.acct # None => row.acct \in live /\ row.uid \in contact[row.acct]
    /\ row.on /\ row.acct = None => t \in raced'
    /\ raced' = raced \union {t} \/ raced' = raced
    /\ row.acct # None /\ R!Deleting(row.acct) =>
          t \in raced' \/ (t \in R!Tasks /\ task[t].acct = row.acct)
    /\ R!ReadBefore(t) => t \in raced'
    /\ UNCHANGED <<made, live, contact>>

LEMMA BindKeeps ==
    ASSUME RecordInv, Counted, NEW t \in R!Task, NEW row \in TaskRows, Binds(t, row),
           \E r \in RecordRequest : R!Answer(r) /\ job[r].tasks = {},
           \A q \in RecordRequest : job'[q].pc \notin Edits
    PROVE  RecordInv'
<1>1. R!TypeOK /\ task \in [R!Task -> TaskRows \union {R!NoTask}]
  BY DEF RecordInv, R!TypeOK, TaskRows
<1>2. /\ task' \in [R!Task -> TaskRows \union {R!NoTask}]
      /\ task'[t] = row /\ \A x \in R!Task : x # t => task'[x] = task[x]
  BY <1>1 DEF Binds
<1>3. R!Tasks' = R!Tasks \union {t}
  BY <1>1, <1>2, TaskTypes DEF R!Tasks
<1>4. JobsType /\ \A q \in RecordRequest :
        \/ job'[q] = job[q]
        \/ job[q].tasks = {} /\ job'[q].a = 0 /\ job'[q].pc = "idle" /\ job'[q].tasks = {}
  BY <1>1, JobAnswered DEF Moves, JobsType
<1>5. armed' \subseteq R!Tasks' /\ raced' \subseteq R!Task /\ raced \subseteq raced'
  BY <1>1, <1>3 DEF R!TypeOK, Binds
<1>6. row.acct \in live \union {None}
  BY DEF Binds
<1>7. R!TypeOK'
  <2>1. \A x \in R!Tasks' : task'[x].acct \in live' \union {None}
    BY <1>1, <1>2, <1>3, <1>6 DEF R!TypeOK, Binds
  <2>2. \A a \in R!Account \ live' : contact'[a] = {}
    BY <1>1 DEF R!TypeOK, Binds
  <2>3. contact' \in [R!Account -> SUBSET Uid]
    BY <1>1 DEF R!TypeOK, Binds
  <2>4. QED BY <1>2, <1>4, <1>5, <2>1, <2>2, <2>3 DEF R!TypeOK, TaskRows, JobsType, Jobs
<1>8. JobsFit'
  <2>1. ASSUME NEW q \in RecordRequest PROVE JobFits(job[q])' /\ DeletionFits(job[q])'
    <3>1. PICK x : x = job'[q]
      OBVIOUS
    <3>2. CASE job'[q] = job[q]
      <4>1. JobFits(x) /\ DeletionFits(x)
        BY <3>1, <3>2 DEF RecordInv, JobsFit
      <4>2. ASSUME x.pc \in {"unbind", "sync", "enqueue", "drop"}, NEW u \in R!Tasks' \ raced', task'[u].acct = x.a
            PROVE  u \in R!Tasks /\ task[u].acct = x.a
        <5>1. CASE u = t
          <6>1. row.acct = job[q].a /\ job[q].pc \in {"unbind", "sync", "enqueue", "drop"}
            BY <1>2, <3>1, <3>2, <4>2, <5>1
          <6>2. job[q].a # None
            BY <3>1, <3>2, <4>1, <4>2 DEF JobFits
          <6>3. R!Deleting(row.acct)
            BY <6>1 DEF R!Deleting
          <6>4. QED BY <1>2, <4>2, <5>1, <6>1, <6>2, <6>3 DEF Binds
        <5>2. CASE u # t
          BY <1>2, <1>3, <4>2, <5>2 DEF R!Tasks
        <5>3. QED BY <5>1, <5>2
      <4>3. made' = made /\ live' = live /\ contact' = contact
        BY DEF Binds
      <4>4. ASSUME x.pc = "enqueue" PROVE x.t \in raced' \/ task'[x.t].on = task[x.t].on
        <5>1. CASE x.t = t
          BY <3>1, <3>2, <4>4, <5>1 DEF R!ReadBefore, R!At, Binds
        <5>2. CASE x.t # t
          BY <1>2, <4>1, <4>4, <5>2 DEF JobFits, R!Tasks
        <5>3. QED BY <5>1, <5>2
      <4>5. JobFits(x)' /\ DeletionFits(x)'
        BY <1>3, <1>5, <4>1, <4>2, <4>3, <4>4, FitsOn
      <4>6. QED BY <3>1, <4>5
    <3>3. CASE job'[q].a = 0 /\ job'[q].pc = "idle" /\ job'[q].tasks = {}
      <4>1. made' \in Nat
        BY AccountsAssumption DEF Counted, Binds
      <4>2. QED BY <3>3, <4>1, AccountsAssumption DEF JobFits, DeletionFits
    <3>4. QED BY <1>4, <3>2, <3>3
  <2>2. QED BY <2>1 DEF JobsFit
<1>9. SchedulesOwed'
  <2>1. ASSUME NEW u \in R!Tasks' \ raced', u # t
        PROVE  (u \in armed') = task'[u].on \/ \E r \in RecordRequest : u \in job'[r].tasks
    <3>1. u \in R!Tasks \ raced /\ task'[u] = task[u] /\ (u \in armed') = (u \in armed)
      BY <1>2, <1>3, <1>5, <2>1 DEF R!Tasks, Binds
    <3>2. (u \in armed) = task[u].on \/ \E r \in RecordRequest : u \in job[r].tasks
      BY <3>1 DEF RecordInv, SchedulesOwed
    <3>3. QED BY <1>4, <3>1, <3>2
  <2>2. (t \in armed') = task'[t].on
    <3>1. row.on \in BOOLEAN
      BY DEF TaskRows
    <3>2. QED BY <1>2, <3>1 DEF Binds
  <2>3. QED BY <2>1, <2>2 DEF SchedulesOwed
<1>10. R!EnabledHasAccount'
  BY <1>2, <1>3, <1>5 DEF RecordInv, R!EnabledHasAccount, Binds, R!Tasks
<1>11. R!TargetStaysKnown'
  BY <1>2, <1>3 DEF RecordInv, R!TargetStaysKnown, Binds, R!Tasks
<1>12. EditsFit'
  BY DEF EditsFit, EnableFits, Edits
<1>13. QED BY <1>7, <1>8, <1>9, <1>10, <1>11, <1>12 DEF RecordInv

\* Who answers holds no lock any more, nor does anybody else.
LEMMA LockFree ==
    ASSUME RecordInv, NEW r \in RecordRequest, R!Answer(r), R!Unlocked \/ job[r].pc \in Edits
    PROVE  \A q \in RecordRequest : job'[q].pc \notin Edits
<1>1. Moves(r, R!Idle) /\ job'[r].pc = "idle"
  BY JobAnswered DEF RecordInv
<1>2. ASSUME NEW q \in RecordRequest, q # r PROVE job[q].pc \notin Edits
  BY <1>2 DEF RecordInv, EditsFit, R!Unlocked, R!Admitting, Edits
<1>3. QED BY <1>1, <1>2 DEF Moves, Edits

LEMMA CommitsKeep ==
    ASSUME RecordInv, Counted, NEW r \in RecordRequest, R!CommitCreate(r) \/ R!SaveUpdate(r)
    PROVE  RecordInv'
<1> DEFINE a == job[r].a
<1>1. /\ R!TypeOK /\ job[r].pc \in {"create", "save"} /\ R!Answer(r)
      /\ R!Unlocked \/ job[r].pc \in Edits
      /\ UNCHANGED <<made, live, contact>>
  BY DEF R!CommitCreate, R!SaveUpdate, R!At, RecordInv, Edits
<1>2. job[r] \in Jobs /\ JobFits(job[r]) /\ job[r].tasks = {}
  BY <1>1, JobTypes DEF RecordInv, JobsFit, JobFits
<1>3. a \in R!Account /\ a # None /\ job[r].uids \subseteq Uid
  BY <1>1, <1>2 DEF Jobs, JobFits
<1>4. CASE UNCHANGED <<task, armed, raced>>
  BY <1>1, <1>2, <1>4, AnswerFits, RecordQuiet DEF Grows
<1>5. ASSUME a \in live, NEW u \in job[r].uids, NEW t \in R!Task, NEW on \in BOOLEAN,
             task' = [task EXCEPT ![t] = [acct |-> a, uid |-> u, on |-> on]],
             armed' = IF on THEN armed \union {t} ELSE armed \ {t},
             R!Raced(t, a)
      PROVE  RecordInv'
  <2> DEFINE row == [acct |-> a, uid |-> u, on |-> on]
  <2>1. row \in TaskRows
    BY <1>3, <1>5 DEF TaskRows
  <2>2. u \in contact[a]
    BY <1>1, <1>2, <1>5 DEF JobFits
  <2>3. Binds(t, row)
    BY <1>1, <1>3, <1>5, <2>2 DEF Binds, R!Raced
  <2>4. QED BY <1>1, <1>2, <2>1, <2>3, BindKeeps, LockFree
<1>6. CASE R!CommitCreate(r)
  BY <1>4, <1>5, <1>6 DEF R!CommitCreate, R!Refers
<1>7. CASE R!SaveUpdate(r)
  <2>1. CASE ~R!Refers(a)
    BY <1>4, <1>7, <2>1 DEF R!SaveUpdate
  <2>2. CASE R!Refers(a)
    <3> DEFINE t == job[r].t
    <3>1. t \in R!Task /\ job[r].on \in BOOLEAN
      BY <1>2, <1>7 DEF JobFits, Jobs, R!SaveUpdate, R!At, R!Tasks
    <3>2. PICK u \in job[r].uids : task' = [task EXCEPT ![t] = [acct |-> a, uid |-> u, on |-> job[r].on]]
      BY <1>7, <2>2 DEF R!SaveUpdate
    <3>3. armed' = (IF job[r].on THEN armed \union {t} ELSE armed \ {t}) /\ R!Raced(t, a)
      BY <1>7, <2>2 DEF R!SaveUpdate, R!Armed
    <3>4. a \in live
      BY <2>2 DEF R!Refers
    <3>5. QED BY <1>5, <3>1, <3>2, <3>3, <3>4
  <2>3. QED BY <2>1, <2>2
<1>8. QED BY <1>6, <1>7

\* What is enabled has the account that it was seen with, or that is noted.
LEMMA SaveEnableKeeps ==
    ASSUME RecordInv, Counted, NEW r \in RecordRequest, R!SaveEnable(r)
    PROVE  RecordInv'
<1> DEFINE t == job[r].t
           on == job[r].on
           a == job[r].a
<1>1. /\ R!TypeOK /\ job[r].pc = "enable" /\ R!Answer(r)
      /\ task' = [task EXCEPT ![t].on = on]
      /\ armed' = IF on THEN armed \union {t} ELSE armed \ {t}
      /\ R!Raced(t, a)
      /\ UNCHANGED <<made, live, contact>>
  BY DEF R!SaveEnable, R!Armed, R!At, RecordInv
<1>2. job[r] \in Jobs /\ JobFits(job[r]) /\ EnableFits(job[r])
  BY <1>1, JobTypes DEF RecordInv, JobsFit, EditsFit
<1>3. job[r].tasks = {} /\ t \in R!Tasks /\ t \in R!Task /\ on \in BOOLEAN
  BY <1>1, <1>2 DEF JobFits, Jobs, R!Tasks
<1>4. task[t] \in TaskRows
  BY <1>1, <1>3, TaskTypes
<1>5. task' = [task EXCEPT ![t] = [task[t] EXCEPT !.on = on]]
  BY <1>1
<1> DEFINE row == [task[t] EXCEPT !.on = on]
<1>6. row \in TaskRows /\ row.acct = task[t].acct /\ row.uid = task[t].uid /\ row.on = on
  BY <1>3, <1>4 DEF TaskRows
<1>7. task' = [task EXCEPT ![t] = row]
  BY <1>5
<1> HIDE DEF row
<1>8. task[t].acct # None => task[t].acct \in live /\ task[t].uid \in contact[task[t].acct]
  BY <1>1, <1>3 DEF RecordInv, R!TypeOK, R!TargetStaysKnown
<1>9. ASSUME on, task[t].acct = None PROVE t \in raced'
  <2>1. a # None
    BY <1>2, <1>9 DEF JobFits
  <2>2. CASE t \in raced
    BY <1>1, <2>2 DEF R!Raced
  <2>3. CASE \E q \in RecordRequest : SeesTo(job[q], a, t)
    BY <1>1, <2>3 DEF SeesTo, Scheduling, R!Deleting, R!Raced
  <2>4. QED BY <1>1, <1>2, <1>9, <2>1, <2>2, <2>3 DEF EnableFits
<1>10. Binds(t, row)
  BY <1>1, <1>3, <1>6, <1>7, <1>8, <1>9 DEF Binds, R!Raced
<1>11. \A q \in RecordRequest : job'[q].pc \notin Edits
  BY <1>1, LockFree DEF Edits
<1>12. QED BY <1>1, <1>3, <1>6, <1>10, <1>11, BindKeeps

\* A synchronisation merges what it found into an account that is still there.
LEMMA MergeKeeps ==
    ASSUME RecordInv, Counted, NEW r \in RecordRequest, R!Merge(r)
    PROVE  RecordInv'
<1> DEFINE a == job[r].a
<1>1. /\ R!TypeOK /\ job[r].pc = "merge" /\ R!Answer(r)
      /\ contact' = IF a \in live THEN [contact EXCEPT ![a] = @ \union job[r].uids] ELSE contact
      /\ UNCHANGED <<made, live, task, armed, raced>>
  BY DEF R!Merge, R!Merged, R!At, RecordInv
<1>2. job[r] \in Jobs /\ job[r].tasks = {} /\ job[r].uids \subseteq Uid
  BY <1>1, JobTypes DEF RecordInv, JobsFit, JobFits
<1>3. contact \in [R!Account -> SUBSET Uid] /\ a \in R!Account
  BY <1>1, <1>2 DEF R!TypeOK, Jobs, RecordInv, JobsFit, JobFits
<1>4. /\ contact' \in [R!Account -> SUBSET Uid]
      /\ \A b \in R!Account : contact[b] \subseteq contact'[b]
      /\ \A b \in R!Account \ live : contact'[b] = {}
  BY <1>1, <1>2, <1>3 DEF R!TypeOK
<1>5. Moves(r, R!Idle) /\ job'[r].pc = "idle" /\ job'[r].tasks = {} /\ job'[r].a = 0
  BY <1>1, JobAnswered
<1>6. R!Tasks' = R!Tasks /\ live \subseteq R!Account
  BY <1>1, AccountsAssumption DEF R!Tasks, Counted, R!Account
<1>7. R!TypeOK'
  BY <1>1, <1>4, <1>5, <1>6 DEF R!TypeOK, Moves, Jobs
<1>8. JobsFit'
  <2>1. ASSUME NEW q \in RecordRequest PROVE JobFits(job[q])' /\ DeletionFits(job[q])'
    <3>1. PICK x : x = job'[q]
      OBVIOUS
    <3>2. CASE q # r
      <4>1. JobFits(x) /\ DeletionFits(x)
        BY <1>5, <3>1, <3>2 DEF RecordInv, JobsFit, Moves
      <4>2. x.a \in live' => x.a \in live /\ contact[x.a] \subseteq contact'[x.a]
        BY <1>1, <1>4, <1>6
      <4>3. JobFits(x)' /\ DeletionFits(x)'
        BY <1>1, <1>6, <4>1, <4>2, FitsOn
      <4>4. QED BY <3>1, <4>3
    <3>3. CASE q = r
      <4>1. made' \in Nat
        BY <1>1, AccountsAssumption DEF Counted
      <4>2. QED BY <1>5, <3>3, <4>1, AccountsAssumption DEF JobFits, DeletionFits
    <3>4. QED BY <3>2, <3>3
  <2>2. QED BY <2>1 DEF JobsFit
<1>9. SchedulesOwed'
  BY <1>1, <1>2, <1>5, <1>6 DEF RecordInv, SchedulesOwed, Moves
<1>10. R!EnabledHasAccount'
  BY <1>1, <1>6 DEF RecordInv, R!EnabledHasAccount
<1>11. R!TargetStaysKnown'
  <2>1. \A t \in R!Tasks : task[t].acct # None => task[t].acct \in R!Account
    BY <1>1, <1>6 DEF R!TypeOK
  <2>2. QED BY <1>1, <1>4, <1>6, <2>1 DEF RecordInv, R!TargetStaysKnown
<1>12. EditsFit'
  BY <1>1, <1>2, <1>5, EditsGoOn DEF RecordInv, Moves, Edits, SeesTo
<1>13. QED BY <1>7, <1>8, <1>9, <1>10, <1>11, <1>12 DEF RecordInv

\* A deletion reads the next task, or has none left to look at.
LEMMA ReadOneKeeps ==
    ASSUME RecordInv, Counted, NEW r \in RecordRequest, R!ReadOne(r)
    PROVE  RecordInv'
<1>1. /\ R!TypeOK /\ job[r].pc = "sync" /\ UNCHANGED <<made, live, contact, task, armed, raced>>
      /\ JobFits(job[r]) /\ DeletionFits(job[r])
  BY DEF R!ReadOne, R!At, RecordInv, JobsFit
<1>2. job[r] \in Jobs
  BY <1>1, JobTypes
<1>3. CASE job[r].tasks = {} /\ R!Go(r, "drop")
  <2>1. "drop" \in R!Steps
    BY DEF R!Steps
  <2>2. /\ Moves(r, [job[r] EXCEPT !.pc = "drop"])
        /\ job'[r].pc = "drop" /\ job'[r].a = job[r].a /\ job'[r].tasks = job[r].tasks
    BY <1>1, <1>3, <2>1, JobGoes
  <2>3. JobFits(job'[r]) /\ DeletionFits(job'[r])
    BY <1>1, <1>3, <2>2 DEF JobFits, DeletionFits
  <2>4. JobsGoOn
    BY <1>3, <2>2, <2>3 DEF Moves, JobsType, JobsGoOn, GoesRight, Edits
  <2>5. QED BY <1>1, <2>4, RecordQuiet DEF Grows
<1>4. ASSUME NEW t \in job[r].tasks, R!Holds(r, "enqueue", job[r].a, t, task[t].on, {}, job[r].tasks)
      PROVE  RecordInv'
  <2> DEFINE x == [pc |-> "enqueue", a |-> job[r].a, t |-> t, on |-> task[t].on, uids |-> {},
                   tasks |-> job[r].tasks]
  <2>1. job' = [job EXCEPT ![r] = x]
    BY <1>4 DEF R!Holds
  <2>2. t \in R!Task /\ t \in R!Tasks /\ task[t].on \in BOOLEAN
    BY <1>1, <1>4 DEF JobFits, R!Tasks, R!TypeOK
  <2>3. x \in Jobs
    BY <1>2, <2>2 DEF Jobs, R!Steps
  <2>4. JobFits(x) /\ DeletionFits(x)
    BY <1>1, <1>4, <2>2 DEF JobFits, DeletionFits
  <2>5. x.pc = "enqueue" /\ x.a = job[r].a /\ x.tasks = job[r].tasks
    OBVIOUS
  <2> HIDE DEF x
  <2>6. Moves(r, x)
    BY <1>1, <2>1, <2>3, JobMoves
  <2>7. GoesRight(r)
    BY <1>1, <2>4, <2>5, <2>6 DEF GoesRight, Moves, Scheduling, Edits
  <2>8. JobsGoOn
    BY <2>6, <2>7 DEF JobsGoOn, Moves, JobsType
  <2>9. QED BY <1>1, <2>8, RecordQuiet DEF Grows
<1>5. QED BY <1>3, <1>4 DEF R!ReadOne

\* One schedule is told what its task said, which it still says if nobody wrote
\* it meanwhile; who reads the task to save it holds this off.
LEMMA WriteOneKeeps ==
    ASSUME RecordInv, Counted, NEW r \in RecordRequest, R!WriteOne(r)
    PROVE  RecordInv'
<1> DEFINE t == job[r].t
<1>1. /\ R!TypeOK /\ job[r].pc = "enqueue" /\ UNCHANGED <<made, live, contact, task, raced>>
      /\ JobFits(job[r]) /\ DeletionFits(job[r]) /\ R!JobFree(t)
      /\ armed' = IF job[r].on THEN armed \union {t} ELSE armed \ {t}
  BY DEF R!WriteOne, R!Armed, R!At, RecordInv, JobsFit
<1>2. job[r] \in Jobs
  BY <1>1, JobTypes
<1>3. t \in R!Tasks /\ t \in R!Task /\ (t \in raced \/ job[r].on = task[t].on) /\ job[r].on \in BOOLEAN
  BY <1>1, <1>2 DEF JobFits, R!Tasks, Jobs
<1>4. QED
  <2> DEFINE x == [pc |-> "sync", a |-> job[r].a, t |-> 0, on |-> FALSE, uids |-> {},
                   tasks |-> job[r].tasks \ {t}]
  <2>1. job' = [job EXCEPT ![r] = x]
    BY DEF R!WriteOne, R!Begin, R!Holds
  <2>2. x \in Jobs /\ x.pc = "sync" /\ x.a = job[r].a /\ x.tasks = job[r].tasks \ {t}
    BY <1>2 DEF Jobs, R!Steps
  <2> HIDE DEF x
  <2>3. Moves(r, x)
    BY <1>1, <2>1, <2>2, JobMoves
  <2>4. JobFits(x) /\ DeletionFits(x)
    BY <1>1, <2>2 DEF JobFits, DeletionFits
  <2>5. R!Tasks' = R!Tasks
    BY <1>1 DEF R!Tasks
  <2>6. armed' \subseteq R!Tasks
    BY <1>1, <1>3 DEF R!TypeOK
  <2>7. R!TypeOK'
    BY <1>1, <2>3, <2>5, <2>6 DEF R!TypeOK, Moves, Jobs
  <2>8. JobsFit'
    <3>1. ASSUME NEW q \in RecordRequest PROVE JobFits(job[q])' /\ DeletionFits(job[q])'
      <4>1. PICK y : y = job'[q]
        OBVIOUS
      <4>2. JobFits(y) /\ DeletionFits(y)
        BY <2>3, <2>4, <4>1 DEF RecordInv, JobsFit, Moves
      <4>3. JobFits(y)' /\ DeletionFits(y)'
        BY <1>1, <2>5, <4>2, FitsOn
      <4>4. QED BY <4>1, <4>3
    <3>2. QED BY <3>1 DEF JobsFit
  <2>9. EditsFit'
    <3>1. ASSUME NEW q \in RecordRequest, job[q].pc = "enable", NEW p \in RecordRequest,
                 SeesTo(job[p], job[q].a, job[q].t)
          PROVE  SeesTo(job'[p], job[q].a, job[q].t)
      <4>1. job[q].t # t
        BY <1>1, <3>1 DEF R!JobFree, R!Admitting
      <4>2. CASE p # r
        BY <2>3, <3>1, <4>2 DEF Moves
      <4>3. CASE p = r
        BY <2>2, <2>3, <3>1, <4>1, <4>3 DEF Moves, SeesTo, Scheduling
      <4>4. QED BY <4>2, <4>3
    <3>2. \A q \in RecordRequest : job'[q].pc \in Edits => job'[q] = job[q]
      BY <2>2, <2>3 DEF Moves, Edits
    <3>3. QED BY <1>1, <3>1, <3>2, EditsGoOn DEF RecordInv
  <2>10. SchedulesOwed'
    <3>1. ASSUME NEW u \in R!Tasks' \ raced', u # t
          PROVE  (u \in armed') = task'[u].on \/ \E q \in RecordRequest : u \in job'[q].tasks
      <4>1. (u \in armed) = task[u].on \/ \E q \in RecordRequest : u \in job[q].tasks
        BY <1>1, <2>5, <3>1 DEF RecordInv, SchedulesOwed
      <4>2. (u \in armed') = (u \in armed)
        BY <1>1, <3>1
      <4>3. \A q \in RecordRequest : u \in job[q].tasks => u \in job'[q].tasks
        BY <2>2, <2>3, <3>1 DEF Moves
      <4>4. QED BY <1>1, <4>1, <4>2, <4>3
    <3>2. t \notin raced' => (t \in armed') = task'[t].on
      BY <1>1, <1>3
    <3>3. QED BY <3>1, <3>2 DEF SchedulesOwed
  <2>11. R!EnabledHasAccount' /\ R!TargetStaysKnown'
    BY <1>1, <2>5 DEF RecordInv, R!EnabledHasAccount, R!TargetStaysKnown
  <2>12. QED BY <2>7, <2>8, <2>9, <2>10, <2>11 DEF RecordInv

\* The tasks of an account are unbound and disabled.
LEMMA UnbindKeeps ==
    ASSUME RecordInv, Counted, NEW r \in RecordRequest, R!Unbind(r)
    PROVE  RecordInv'
<1> DEFINE a == job[r].a
<1>1. /\ R!TypeOK /\ job[r].pc = "unbind" /\ R!Go(r, "sync")
      /\ task' = [t \in R!Task |-> IF t \in R!Bound(a) THEN R!Unbound(task[t]) ELSE task[t]]
      /\ raced' = raced \union {t \in R!Bound(a) : R!ReadBefore(t)}
      /\ UNCHANGED <<made, live, contact, armed>>
      /\ JobFits(job[r]) /\ DeletionFits(job[r])
  BY DEF R!Unbind, R!At, RecordInv, JobsFit
<1>2. job[r] \in Jobs /\ a \in R!Account /\ a # None
  BY <1>1, JobTypes DEF Jobs, JobFits
<1>3. "sync" \in R!Steps
  BY DEF R!Steps
<1>4. /\ Moves(r, [job[r] EXCEPT !.pc = "sync"])
      /\ job'[r].pc = "sync" /\ job'[r].a = a /\ job'[r].tasks = job[r].tasks
  BY <1>1, <1>3, JobGoes
<1>5. \A t \in R!Bound(a) : /\ t \in R!Task /\ t \in R!Tasks
                            /\ task'[t] \in TaskRows /\ task'[t].acct = None /\ task'[t].on = FALSE
  <2>1. ASSUME NEW t \in R!Bound(a)
        PROVE  /\ t \in R!Task /\ t \in R!Tasks
               /\ task'[t] \in TaskRows /\ task'[t].acct = None /\ task'[t].on = FALSE
    <3>1. t \in R!Task /\ t \in R!Tasks
      BY DEF R!Bound, R!Tasks
    <3>2. task[t] \in TaskRows
      BY <1>1, <3>1, TaskTypes
    <3>3. task'[t] = [task[t] EXCEPT !.acct = None, !.on = FALSE]
      BY <1>1, <3>1 DEF R!Unbound
    <3>4. QED BY <3>1, <3>2, <3>3 DEF TaskRows
  <2>2. QED BY <2>1
<1>6. \A t \in R!Task : t \notin R!Bound(a) => task'[t] = task[t]
  BY <1>1
<1>7. task' \in [R!Task -> TaskRows \union {R!NoTask}]
  <2>1. \A t \in R!Task : task'[t] \in TaskRows \union {R!NoTask}
    BY <1>1, <1>5, <1>6, TaskTypes
  <2>2. QED BY <1>1, <2>1
<1>8. R!Tasks' = R!Tasks
  BY <1>1, <1>5, <1>6, TaskTypes DEF R!Tasks
<1>9. \A t \in R!Tasks : task'[t].acct # None => t \notin R!Bound(a) /\ task'[t] = task[t] /\ task[t].acct # a
  BY <1>5, <1>6 DEF R!Bound, R!Tasks
<1>10. R!TypeOK'
  <2>1. raced' \subseteq R!Task
    BY <1>1, <1>5 DEF R!TypeOK
  <2>2. QED BY <1>1, <1>4, <1>7, <1>8, <1>9, <2>1 DEF R!TypeOK, Moves, Jobs, TaskRows
<1>11. JobsFit'
  <2>1. ASSUME NEW q \in RecordRequest PROVE JobFits(job[q])' /\ DeletionFits(job[q])'
    <3>1. PICK x : x = job'[q]
      OBVIOUS
    <3>2. CASE q # r
      <4>1. JobFits(x) /\ DeletionFits(x) /\ x = job[q]
        BY <1>4, <3>1, <3>2 DEF RecordInv, JobsFit, Moves
      <4>2. ASSUME x.pc \in {"unbind", "sync", "enqueue", "drop"}, NEW t \in R!Tasks' \ raced', task'[t].acct = x.a
            PROVE  t \in R!Tasks /\ task[t].acct = x.a
        <5>1. x.a # None
          BY <4>1, <4>2 DEF JobFits
        <5>2. QED BY <1>8, <1>9, <4>2, <5>1
      <4>3. ASSUME x.pc = "enqueue" PROVE x.t \in raced' \/ task'[x.t].on = task[x.t].on
        <5>1. x.t \in R!Task
          BY <4>1, <4>3 DEF JobFits, R!Tasks
        <5>2. CASE x.t \in R!Bound(a)
          BY <1>1, <4>1, <4>3, <5>2 DEF R!ReadBefore, R!At
        <5>3. CASE x.t \notin R!Bound(a)
          BY <1>6, <5>1, <5>3
        <5>4. QED BY <5>2, <5>3
      <4>4. JobFits(x)' /\ DeletionFits(x)'
        BY <1>1, <1>8, <4>1, <4>2, <4>3, FitsOn
      <4>5. QED BY <3>1, <4>4
    <3>3. CASE q = r
      BY <1>1, <1>2, <1>4, <1>8, <1>9, <3>3 DEF JobFits, DeletionFits
    <3>4. QED BY <3>2, <3>3
  <2>2. QED BY <2>1 DEF JobsFit
<1>12. SchedulesOwed'
  <2>1. ASSUME NEW t \in R!Tasks' \ raced'
        PROVE  (t \in armed') = task'[t].on \/ \E q \in RecordRequest : t \in job'[q].tasks
    <3>1. t \in R!Tasks \ raced /\ t \in R!Task
      BY <1>1, <1>8, <2>1 DEF R!Tasks
    <3>2. CASE t \in R!Bound(a)
      <4>1. t \in job[r].tasks
        BY <1>1, <3>1, <3>2 DEF DeletionFits, R!Bound
      <4>2. QED BY <1>4, <4>1
    <3>3. CASE t \notin R!Bound(a)
      <4>1. (t \in armed) = task[t].on \/ \E q \in RecordRequest : t \in job[q].tasks
        BY <3>1 DEF RecordInv, SchedulesOwed
      <4>2. \A q \in RecordRequest : job'[q].tasks = job[q].tasks
        BY <1>4 DEF Moves
      <4>3. QED BY <1>1, <1>6, <3>1, <3>3, <4>1, <4>2
    <3>4. QED BY <3>2, <3>3
  <2>2. QED BY <2>1 DEF SchedulesOwed
<1>13. R!EnabledHasAccount'
  BY <1>1, <1>5, <1>6, <1>8 DEF RecordInv, R!EnabledHasAccount, R!Tasks
<1>14. R!TargetStaysKnown'
  BY <1>1, <1>8, <1>9 DEF RecordInv, R!TargetStaysKnown
<1>15. EditsFit'
  <2>1. \A q \in RecordRequest : job'[q].pc \in Edits => job'[q] = job[q]
    BY <1>4 DEF Moves, Edits
  <2>2. ASSUME NEW q \in RecordRequest, NEW t, NEW b, task[t].acct = b, t \in R!Tasks
        PROVE  \/ task'[t].acct = b \/ t \in raced' \/ \E p \in RecordRequest : SeesTo(job'[p], b, t)
    <3>1. t \in R!Task
      BY <2>2 DEF R!Tasks
    <3>2. CASE t \notin R!Bound(a)
      BY <1>6, <2>2, <3>1, <3>2
    <3>3. CASE t \in R!Bound(a)
      <4>1. b = a
        BY <2>2, <3>3 DEF R!Bound
      <4>2. t \in raced \/ t \in job[r].tasks
        BY <1>1, <2>2, <4>1 DEF DeletionFits
      <4>3. QED BY <1>1, <1>4, <4>1, <4>2 DEF SeesTo, Scheduling
    <3>4. QED BY <3>2, <3>3
  <2>3. ASSUME NEW p \in RecordRequest, NEW b, NEW t, SeesTo(job[p], b, t)
        PROVE  SeesTo(job'[p], b, t)
    BY <1>1, <1>4, <2>3 DEF SeesTo, Scheduling, Moves
  <2>4. \A q \in RecordRequest : job[q].pc = "enable" => job[q].t \in R!Tasks
    BY DEF RecordInv, JobsFit, JobFits
  <2>5. QED BY <1>1, <2>1, <2>2, <2>3, <2>4, EditsGoOn DEF RecordInv
<1>16. QED BY <1>10, <1>11, <1>12, <1>13, <1>14, <1>15 DEF RecordInv

\* The account goes with its contacts; what is still bound to it was noted.
LEMMA DropKeeps ==
    ASSUME RecordInv, Counted, NEW r \in RecordRequest, R!Drop(r)
    PROVE  RecordInv'
<1> DEFINE a == job[r].a
<1>1. /\ R!TypeOK /\ job[r].pc = "drop" /\ R!Answer(r)
      /\ live' = live \ {a} /\ contact' = [contact EXCEPT ![a] = {}]
      /\ task' = [t \in R!Task |-> IF t \in R!Bound(a) THEN [task[t] EXCEPT !.acct = None] ELSE task[t]]
      /\ UNCHANGED <<made, armed, raced>>
      /\ JobFits(job[r]) /\ DeletionFits(job[r])
  BY DEF R!Drop, R!At, RecordInv, JobsFit
<1>2. job[r] \in Jobs /\ a \in R!Account /\ a # None /\ job[r].tasks = {}
  BY <1>1, JobTypes DEF Jobs, JobFits
<1>3. Moves(r, R!Idle) /\ job'[r].pc = "idle" /\ job'[r].tasks = {} /\ job'[r].a = 0
  BY <1>1, JobAnswered
<1>4. \A t \in R!Bound(a) : /\ t \in R!Task /\ t \in R!Tasks /\ t \in raced
                            /\ task'[t] \in TaskRows /\ task'[t].acct = None
                            /\ task'[t].on = task[t].on
  <2>1. ASSUME NEW t \in R!Bound(a)
        PROVE  /\ t \in R!Task /\ t \in R!Tasks /\ t \in raced
               /\ task'[t] \in TaskRows /\ task'[t].acct = None /\ task'[t].on = task[t].on
    <3>1. t \in R!Task /\ t \in R!Tasks /\ task[t].acct = a
      BY DEF R!Bound, R!Tasks
    <3>2. t \in raced
      BY <1>1, <3>1 DEF DeletionFits
    <3>3. task[t] \in TaskRows
      BY <1>1, <3>1, TaskTypes
    <3>4. task'[t] = [task[t] EXCEPT !.acct = None]
      BY <1>1, <3>1
    <3>5. QED BY <3>1, <3>2, <3>3, <3>4 DEF TaskRows
  <2>2. QED BY <2>1
<1>5. \A t \in R!Task : t \notin R!Bound(a) => task'[t] = task[t]
  BY <1>1
<1>6. task' \in [R!Task -> TaskRows \union {R!NoTask}]
  <2>1. \A t \in R!Task : task'[t] \in TaskRows \union {R!NoTask}
    BY <1>1, <1>4, <1>5, TaskTypes
  <2>2. QED BY <1>1, <2>1
<1>7. R!Tasks' = R!Tasks
  BY <1>1, <1>4, <1>5, TaskTypes DEF R!Tasks
<1>8. \A t \in R!Tasks : /\ task'[t].on = task[t].on
                         /\ task'[t].acct # None =>
                              t \notin R!Bound(a) /\ task'[t] = task[t] /\ task[t].acct # a
  BY <1>4, <1>5 DEF R!Bound, R!Tasks
<1>9. contact \in [R!Account -> SUBSET Uid]
  BY <1>1 DEF R!TypeOK
<1>10. /\ contact' \in [R!Account -> SUBSET Uid]
       /\ contact'[a] = {} /\ \A b \in R!Account : b # a => contact'[b] = contact[b]
  BY <1>1, <1>2, <1>9
<1>11. R!TypeOK'
  <2>1. \A b \in R!Account \ live' : contact'[b] = {}
    BY <1>1, <1>10 DEF R!TypeOK
  <2>2. \A t \in R!Tasks' : task'[t].acct \in live' \union {None}
    <3>1. \A t \in R!Tasks : task[t].acct \in live \union {None}
      BY <1>1 DEF R!TypeOK
    <3>2. ASSUME NEW t \in R!Tasks, task'[t].acct # None PROVE task'[t].acct \in live \ {a}
      <4>1. task'[t].acct = task[t].acct /\ task[t].acct # a
        BY <1>8, <3>2
      <4>2. QED BY <3>1, <3>2, <4>1
    <3>3. QED BY <1>1, <1>7, <3>2
  <2>3. armed' \subseteq R!Tasks' /\ raced' \subseteq R!Task
    BY <1>1, <1>7 DEF R!TypeOK
  <2>4. QED BY <1>3, <1>6, <1>10, <2>1, <2>2, <2>3 DEF R!TypeOK, Moves, Jobs, TaskRows
<1>12. JobsFit'
  <2>1. ASSUME NEW q \in RecordRequest PROVE JobFits(job[q])' /\ DeletionFits(job[q])'
    <3>1. PICK x : x = job'[q]
      OBVIOUS
    <3>2. CASE q # r
      <4>1. JobFits(x) /\ DeletionFits(x) /\ x = job[q]
        BY <1>3, <3>1, <3>2 DEF RecordInv, JobsFit, Moves
      <4>2. ASSUME x.pc \in {"unbind", "sync", "enqueue", "drop"}, NEW t \in R!Tasks' \ raced', task'[t].acct = x.a
            PROVE  t \in R!Tasks /\ task[t].acct = x.a
        <5>1. x.a # None
          BY <4>1, <4>2 DEF JobFits
        <5>2. QED BY <1>7, <1>8, <4>2, <5>1
      <4>3. x.a \in live' => x.a \in live /\ contact[x.a] \subseteq contact'[x.a]
        <5>1. live \subseteq R!Account
          BY AccountsAssumption DEF Counted, R!Account
        <5>2. QED BY <1>1, <1>10, <5>1
      <4>4. x.pc = "enqueue" => task'[x.t].on = task[x.t].on
        BY <1>8, <4>1 DEF JobFits
      <4>5. JobFits(x)' /\ DeletionFits(x)'
        BY <1>1, <1>7, <4>1, <4>2, <4>3, <4>4, FitsOn
      <4>6. QED BY <3>1, <4>5
    <3>3. CASE q = r
      <4>1. made' \in Nat
        BY <1>1, AccountsAssumption DEF Counted
      <4>2. QED BY <1>3, <3>3, <4>1, AccountsAssumption DEF JobFits, DeletionFits
    <3>4. QED BY <3>2, <3>3
  <2>2. QED BY <2>1 DEF JobsFit
<1>13. SchedulesOwed'
  BY <1>1, <1>2, <1>3, <1>7, <1>8 DEF RecordInv, SchedulesOwed, Moves
<1>14. R!EnabledHasAccount'
  BY <1>1, <1>4, <1>5, <1>7 DEF RecordInv, R!EnabledHasAccount, R!Tasks
<1>15. R!TargetStaysKnown'
  <2>1. \A t \in R!Tasks : task[t].acct # None => task[t].acct \in R!Account
    BY <1>1, AccountsAssumption DEF R!TypeOK, Counted, R!Account
  <2>2. QED BY <1>7, <1>8, <1>10, <2>1 DEF RecordInv, R!TargetStaysKnown
<1>16. EditsFit'
  <2>1. \A q \in RecordRequest : job'[q].pc \in Edits => job'[q] = job[q]
    BY <1>3 DEF Moves, Edits
  <2>2. \A t \in R!Tasks : task'[t].acct = task[t].acct \/ t \in raced'
    BY <1>1, <1>4, <1>5 DEF R!Tasks
  <2>3. ASSUME NEW p \in RecordRequest, NEW b, NEW t, SeesTo(job[p], b, t)
        PROVE  SeesTo(job'[p], b, t)
    BY <1>1, <1>3, <2>3 DEF SeesTo, Scheduling, Moves
  <2>4. \A q \in RecordRequest : job[q].pc = "enable" => job[q].t \in R!Tasks
    BY DEF RecordInv, JobsFit, JobFits
  <2>5. QED BY <1>1, <2>1, <2>2, <2>3, <2>4, EditsGoOn DEF RecordInv
<1>17. QED BY <1>11, <1>12, <1>13, <1>14, <1>15, <1>16 DEF RecordInv

\* The server ends: schedules nobody will see to any more are noted.
LEMMA ServerEndsRecords ==
    ASSUME RecordInv, Counted, ServerEnds
    PROVE  RecordInv'
<1>1. /\ R!TypeOK /\ UNCHANGED <<made, live, contact, task, armed>>
      /\ job' = [r \in RecordRequest |-> R!Idle]
      /\ raced' = raced \union UNION {job[r].tasks : r \in RecordRequest}
  BY DEF ServerEnds, R!RecordsDie, RecordInv
<1>2. R!Idle.pc = "idle" /\ R!Idle.a = 0 /\ R!Idle.tasks = {}
  BY DEF R!Idle
<1>3. /\ job' \in [RecordRequest -> Jobs \union {R!Idle}]
      /\ \A q \in RecordRequest : job'[q].pc = "idle" /\ job'[q].a = 0 /\ job'[q].tasks = {}
  BY <1>1, <1>2
<1>4. R!Tasks' = R!Tasks
  BY <1>1 DEF R!Tasks
<1>5. \A q \in RecordRequest : job[q].tasks \subseteq R!Task
  BY <1>1, JobTypes
<1>6. raced' \subseteq R!Task /\ raced \subseteq raced'
  <2>1. raced \subseteq R!Task
    BY <1>1 DEF R!TypeOK
  <2>2. QED BY <1>1, <1>5, <2>1
<1>7. R!TypeOK'
  BY <1>1, <1>3, <1>4, <1>6 DEF R!TypeOK, Jobs
<1>8. JobsFit'
  <2>1. made' \in Nat
    BY <1>1, AccountsAssumption DEF Counted
  <2>2. QED BY <1>3, <2>1, AccountsAssumption DEF JobsFit, JobFits, DeletionFits
<1>9. SchedulesOwed'
  <2>1. ASSUME NEW t \in R!Tasks' \ raced'
        PROVE  (t \in armed') = task'[t].on
    <3>1. t \in R!Tasks \ raced /\ \A q \in RecordRequest : t \notin job[q].tasks
      BY <1>1, <1>4, <2>1
    <3>2. QED BY <1>1, <3>1 DEF RecordInv, SchedulesOwed
  <2>2. QED BY <2>1 DEF SchedulesOwed
<1>10. R!EnabledHasAccount' /\ R!TargetStaysKnown'
  BY <1>1, <1>4, <1>6 DEF RecordInv, R!EnabledHasAccount, R!TargetStaysKnown
<1>11. EditsFit'
  BY <1>3 DEF EditsFit, EnableFits, Edits
<1>12. QED BY <1>7, <1>8, <1>9, <1>10, <1>11 DEF RecordInv

LEMMA RecordInvNext ==
    ASSUME RecordInv, Counted, [Next]_vars
    PROVE  RecordInv'
<1>1. CASE S!ScanNext /\ UNCHANGED recordVars
  <2>1. UNCHANGED <<contact, task, armed, job, raced>>
    BY <1>1 DEF recordVars
  <2>2. Grows
    BY <1>1 DEF S!ScanNext, S!Handle, S!Open, S!Undo, S!Broken, S!Detect, S!GetQr, S!FindQr, S!Prepare, S!Refresh,
                S!Verify, S!Resend, S!Cookies, S!Create, S!Release, S!CallStart, S!CallPage, S!Cancel,
                S!PageMoves, S!Taken, S!Records, S!Account, R!Account, Grows
  <2>3. QED BY <2>1, <2>2, OthersKeepRecords
<1>2. CASE R!RecordsNext
  <2>1. CASE R!CreateAccount
    BY <2>1, OthersKeepRecords DEF R!CreateAccount, Grows
  <2>2. CASE \E s \in Syncing : R!TakenSync(s)
    BY <2>2, OthersKeepRecords DEF R!TakenSync, Grows
  <2>3. ASSUME NEW r \in RecordRequest, R!HandleRecords(r) PROVE RecordInv'
    BY <2>3, SyncKeeps, MergeKeeps, ReadsKeep, CommitsKeep, SaveEnableKeeps, UnbindKeeps,
       ReadOneKeeps, WriteOneKeeps, DropKeeps DEF R!HandleRecords
  <2>4. QED BY <1>2, <2>1, <2>2, <2>3, CallsKeep, ReadsKeep DEF R!RecordsNext
<1>3. CASE ServerEnds
  BY <1>3, ServerEndsRecords
<1>4. CASE UNCHANGED vars
  BY <1>4, OthersKeepRecords DEF vars, scanVars, recordVars, Grows
<1>5. QED BY <1>1, <1>2, <1>3, <1>4 DEF Next

-----------------------------------------------------------------------------
(* The invariant holds at all times, and with it what the parts promise.     *)

LEMMA Initially ==
    ASSUME Init
    PROVE  IInv
<1>1. /\ live \in {{}, {1}} /\ made = Cardinality(live) /\ calls = 0 /\ faults = 0
      /\ leased = known /\ S!ScanInit /\ R!RecordsInit
  BY DEF Init
<1>2. made \in 0..MaxAccounts /\ live \subseteq 1..made /\ live \subseteq R!Account
  <2>1. Cardinality({}) = 0 /\ Cardinality({1}) = 1
    BY FS_EmptySet, FS_Singleton
  <2>2. 1 \in 1..MaxAccounts /\ 0 \in 0..MaxAccounts /\ 1 \in 0..MaxAccounts /\ 1 \in 1..1
    BY AccountsAssumption
  <2>3. QED BY <1>1, <2>1, <2>2 DEF R!Account
<1>3. Counted
  BY <1>1, <1>2, AccountsAssumption DEF Counted
<1>4. S!Idle.pc = "idle" /\ S!Idle.s = None /\ R!Idle.pc = "idle" /\ R!Idle.a = 0 /\ R!Idle.tasks = {}
  BY DEF S!Idle, R!Idle
<1>5. ScanInv
  <2>1. PICK s \in Scan, p \in {"closed", "qr", "verify", "in"} :
          /\ page = [[x \in Scan |-> "closed"] EXCEPT ![s] = p]
          /\ known = IF p = "closed" THEN {} ELSE {s}
    BY <1>1 DEF S!ScanInit
  <2>2. poll = [r \in ScanRequest |-> S!Idle] /\ maker = [a \in S!Account |-> None] /\ excused = {}
    BY <1>1 DEF S!ScanInit
  <2>3. page \in [Scan -> S!Pages] /\ \A x \in Scan : x \notin leased => page[x] = "closed"
    BY <1>1, <2>1 DEF S!Pages
  <2>4. S!TypeOK
    BY <1>1, <1>3, <2>1, <2>2, <2>3 DEF S!TypeOK, Counted, Lessee
  <2>5. ScansFit
    BY <1>4, <2>2 DEF ScansFit, ScanFits
  <2>6. \A a \in S!Account, x \in Scan : maker[a] # x
    BY <2>2, AccountsAssumption
  <2>7. LoginsOnce
    BY <1>4, <2>2, <2>6 DEF LoginsOnce, OnceOnly, Closing
  <2>8. S!SuccessIsLogin
    BY <1>4, <2>2 DEF S!SuccessIsLogin
  <2>9. S!LeaseIsReachable
    BY <1>1 DEF S!LeaseIsReachable
  <2>10. QED BY <2>4, <2>5, <2>7, <2>8, <2>9 DEF ScanInv
<1>6. RecordInv
  <2> DEFINE u == CHOOSE v \in Uid : TRUE
  <2>1. u \in Uid
    BY AccountsAssumption
  <2>2. /\ contact = [a \in R!Account |-> IF a \in live THEN {u} ELSE {}]
        /\ task = [t \in R!Task |-> IF t = 1 /\ 1 \in live
                                    THEN [acct |-> 1, uid |-> u, on |-> TRUE] ELSE R!NoTask]
        /\ armed = R!Tasks /\ job = [r \in RecordRequest |-> R!Idle] /\ raced = {}
    BY <1>1 DEF R!RecordsInit
  <2> HIDE DEF u
  <2>3. \A t \in R!Task : task[t] = R!NoTask \/ (1 \in live /\ task[t] = [acct |-> 1, uid |-> u, on |-> TRUE])
    BY <2>2
  <2>4. \A t \in R!Tasks : t \in R!Task /\ 1 \in live /\ task[t] = [acct |-> 1, uid |-> u, on |-> TRUE]
    BY <2>3 DEF R!Tasks
  <2>5. contact \in [R!Account -> SUBSET Uid] /\ \A a \in R!Account \ live : contact[a] = {}
    BY <2>1, <2>2
  <2>6. \A t \in R!Task : task[t] \in TaskRows \union {R!NoTask}
    <3>1. ASSUME 1 \in live PROVE [acct |-> 1, uid |-> u, on |-> TRUE] \in TaskRows
      BY <1>2, <2>1, <3>1 DEF TaskRows
    <3>2. QED BY <2>3, <3>1
  <2>7. task \in [R!Task -> TaskRows \union {R!NoTask}]
    BY <2>2, <2>6
  <2>8. \A t \in R!Tasks : task[t].acct \in live /\ task[t].on = TRUE /\ task[t].acct = 1 /\ task[t].uid = u
    BY <2>4
  <2>9. R!TypeOK
    BY <2>2, <2>5, <2>7, <2>8 DEF R!TypeOK, TaskRows, R!Tasks
  <2>10. JobsFit
    <3>1. 0 # None /\ 0 \in 0..made
      BY <1>2, AccountsAssumption
    <3>2. \A q \in RecordRequest : job[q].pc = "idle" /\ job[q].a = 0 /\ job[q].tasks = {}
      BY <1>4, <2>2
    <3>3. QED BY <3>1, <3>2 DEF JobsFit, JobFits, DeletionFits
  <2>11. SchedulesOwed
    BY <2>2, <2>8 DEF SchedulesOwed
  <2>12. R!EnabledHasAccount
    BY <1>2, <2>8, AccountsAssumption DEF R!EnabledHasAccount, R!Account
  <2>13. R!TargetStaysKnown
    BY <1>2, <2>2, <2>8 DEF R!TargetStaysKnown
  <2>14. EditsFit
    BY <1>4, <2>2 DEF EditsFit, EnableFits, Edits
  <2>15. QED BY <2>9, <2>10, <2>11, <2>12, <2>13, <2>14 DEF RecordInv
<1>7. QED BY <1>5, <1>6 DEF IInv

LEMMA ScansCount ==
    ASSUME ScanInv
    PROVE  Counted
BY DEF ScanInv, S!TypeOK, Counted

LEMMA InductiveAccounts == Spec => []IInv
<1>1. Init => IInv
  BY Initially
<1>2. IInv /\ [Next]_vars => IInv'
  BY ScanInvNext, RecordInvNext, ScansCount DEF IInv
<1>3. QED BY <1>1, <1>2, PTL DEF Spec

\* The instance counts as the library does.
LEMMA SameCount == \A X : S!Cardinality(X) = Cardinality(X)
BY DEF S!Cardinality, Cardinality

\* At most one account per login: no set of accounts of one scan has two.
LEMMA AtMostOneAccount ==
    ASSUME ScanInv
    PROVE  S!OneAccountPerLogin
<1> SUFFICES ASSUME NEW s \in Scan \ excused
             PROVE  Cardinality({a \in S!Account : maker[a] = s}) <= 1
  BY SameCount DEF S!OneAccountPerLogin
<1> DEFINE Mine == {a \in S!Account : maker[a] = s}
<1>1. \A a, b \in Mine : a = b
  BY DEF ScanInv, LoginsOnce, OnceOnly
<1>2. CASE Mine = {}
  BY <1>2, FS_EmptySet
<1>3. CASE Mine # {}
  <2>1. PICK a \in Mine : TRUE
    BY <1>3
  <2>2. Mine = {a}
    BY <1>1, <2>1
  <2>3. Cardinality({a}) = 1
    BY FS_Singleton
  <2>4. QED BY <2>2, <2>3
<1>4. QED BY <1>2, <1>3

\* A scan's login becomes one account, an account comes of a page that was
\* logged in, and every browser of a scan can be given back by somebody, for any
\* number of requests on the scan and whatever synchronisations and the pool do
\* (poll_scan, finish and cancel of account_scan.py).
THEOREM AccountsScansSound == Spec => []ScansSound
<1>1. IInv => ScansSound
  BY AtMostOneAccount DEF IInv, ScanInv, ScansSound
<1>2. QED BY <1>1, InductiveAccounts, PTL

\* An enabled task has an account, its target is a contact of that account, and
\* its schedule says what it says once nothing is in progress, for any number of
\* deletions, synchronisations, edits and scans at the same time, each edit and
\* each enqueue with its read apart from its write, but for the tasks in `raced':
\* bound to or enabled on an account under deletion, or written between a
\* deletion's read and its enqueue (accounts.py, tasks.py, contacts.py).
THEOREM AccountsRecordsSound == Spec => []RecordsSound
<1>1. IInv => RecordsSound
  <2>1. ASSUME IInv PROVE R!ScheduleFollowsTask
    <3>1. R!Idle.tasks = {}
      BY DEF R!Idle
    <3>2. QED BY <2>1, <3>1 DEF IInv, RecordInv, SchedulesOwed, R!ScheduleFollowsTask
  <2>2. QED BY <2>1 DEF IInv, RecordInv, RecordsSound
<1>2. QED BY <1>1, InductiveAccounts, PTL

\* No step of anybody takes a contact from an account that remains (the merge of
\* contacts.py, also after a failed scan).
THEOREM AccountsContactsOnlyGrow == Spec => ContactsOnlyGrow
<1> DEFINE Grow == \A a \in live \intersect live' : contact[a] \subseteq contact'[a]
<1>1. ASSUME IInv, [Next]_vars PROVE [Grow]_(R!vars)
  <2>1. live \subseteq R!Account /\ contact \in [R!Account -> SUBSET Uid]
    BY <1>1, ScansCount, AccountsAssumption DEF IInv, RecordInv, R!TypeOK, Counted, R!Account
  <2>2. CASE contact' = contact
    BY <2>2
  <2>3. ASSUME NEW r \in RecordRequest, R!Merge(r) PROVE Grow
    <3>1. contact' = IF job[r].a \in live
                     THEN [contact EXCEPT ![job[r].a] = @ \union job[r].uids] ELSE contact
      BY <2>3 DEF R!Merge, R!Merged
    <3>2. QED BY <2>1, <3>1
  <2>4. ASSUME NEW r \in RecordRequest, R!Drop(r) PROVE Grow
    <3>1. contact' = [contact EXCEPT ![job[r].a] = {}] /\ live' = live \ {job[r].a}
      BY <2>4 DEF R!Drop
    <3>2. QED BY <2>1, <3>1
  <2>5. contact' = contact \/ \E r \in RecordRequest : R!Merge(r) \/ R!Drop(r)
    BY <1>1 DEF Next, vars, recordVars, ServerEnds, R!RecordsDie, R!RecordsNext, R!HandleRecords, R!CreateAccount,
           R!CallSync, R!ScanContacts, R!TakenSync, R!ReleaseSync, R!CallCreate, R!CallUpdate, R!CommitCreate,
           R!ReadUpdate, R!SaveUpdate, R!ReadEnable, R!SaveEnable, R!CallDelete, R!Unbind, R!ReadOne,
           R!WriteOne
  <2>6. QED BY <2>2, <2>3, <2>4, <2>5
<1>2. QED BY <1>1, InductiveAccounts, PTL DEF Spec, ContactsOnlyGrow, R!ContactsOnlyGrow

=============================================================================
