----------------------------- MODULE AccountScan -----------------------------
(***************************************************************************)
(* core/services/account_scan.py: a user logs in to Douyin by a QR code     *)
(* shown in a remote browser.  The server keeps no state of a scan: the     *)
(* browser's page is the state, each request connects, reads or clicks, and *)
(* leaves.  The browser is leased from the pool under the scan's id, given  *)
(* back when the login became an account, and may be taken at any time.     *)
(***************************************************************************)
EXTENDS Naturals, FiniteSets

CONSTANTS Scan,        \* session ids of scans
          Lessee,      \* all that lease browsers: scans and contact synchronisations
          Places,      \* browsers the pool hands out
          Request,     \* requests to the server
          MaxAccounts, \* bound: accounts ever made
          MaxCalls,    \* bound: requests
          MaxFaults,   \* bound: failures of the server and of its calls
          None

VARIABLES leased,  \* who holds a browser
          page,    \* what the page of each scan shows
          known,   \* the scans whose id a client was given
          poll,    \* the requests in progress
          made,    \* how many accounts were made
          maker,   \* the scan each account came from
          live,    \* the accounts that exist
          excused, \* history: scans with overlapping successes, failed releases or deaths
          calls, faults

Pool == INSTANCE BrowserLease WITH Session <- Lessee, Limit <- Places

Account == 1..MaxAccounts
Pages == {"closed", "blank", "loading", "qr", "expired", "confirming", "verify", "sms", "resendable", "in"}
Ops == {"start", "qr", "status", "refresh", "verify", "resend"}
Steps == {"open", "undo", "page", "findQr", "prepare", "cookies", "create", "release"}
Idle == [pc |-> "idle", op |-> None, s |-> None]

TypeOK ==
    /\ leased \subseteq Lessee
    /\ page \in [Scan -> Pages] /\ known \subseteq Scan /\ excused \subseteq Scan
    /\ poll \in [Request -> [pc : Steps, op : Ops, s : Scan] \union {Idle}]
    /\ made \in 0..MaxAccounts /\ live \subseteq 1..made
    /\ maker \in [Account -> Scan \union {None}]
    /\ calls \in 0..MaxCalls /\ faults \in 0..MaxFaults
    /\ \A s \in Scan : s \notin leased => page[s] = "closed"

\* A scan may have begun; its page shows anything.
ScanInit ==
    /\ \E s \in Scan, p \in {"closed", "qr", "verify", "in"} :
         /\ page = [[x \in Scan |-> "closed"] EXCEPT ![s] = p]
         /\ known = IF p = "closed" THEN {} ELSE {s}
    /\ poll = [r \in Request |-> Idle]
    /\ maker = [a \in Account |-> None] /\ excused = {}

-----------------------------------------------------------------------------
Called == calls < MaxCalls /\ calls' = calls + 1
Fails == faults < MaxFaults /\ faults' = faults + 1
Succeeds == UNCHANGED faults

At(r, step) == poll[r].pc = step
Go(r, step) == poll' = [poll EXCEPT ![r].pc = step]
Answer(r) == poll' = [poll EXCEPT ![r] = Idle]
Shows(s, p) == page' = [page EXCEPT ![s] = p]
Same(r, s) == {q \in Request \ {r} : poll[q].s = s}

\* What destroy does to a scan's browser, if it is there.
Destroyed(s) ==
    /\ IF s \in leased THEN Pool!Withdraw(s) ELSE UNCHANGED leased
    /\ Shows(s, "closed")
Records == <<made, maker, live>>

\* Mutant: destroy is not called.
Kept(s) == UNCHANGED <<leased, page>>

-----------------------------------------------------------------------------
(* start                                                                    *)

\* The id is new; at capacity the request ends with 503.
CallStart(r, s) ==
    /\ Called /\ At(r, "idle")
    /\ page[s] = "closed" /\ s \notin known /\ Same(r, s) = {} /\ s \notin excused
    /\ Pool!Grant(s)
    /\ poll' = [poll EXCEPT ![r] = [pc |-> "open", op |-> "start", s |-> s]]
    /\ Shows(s, "blank")
    /\ UNCHANGED <<Records, known, excused, faults>>

\* The login page is open and the client is given the id; the browser was
\* taken or does not obey otherwise.
Open(r) ==
    LET s == poll[r].s
    IN /\ At(r, "open")
       /\ \/ /\ s \in leased /\ Succeeds
             /\ Shows(s, "loading") /\ known' = known \union {s} /\ Answer(r)
          \/ /\ (IF s \in leased THEN Fails ELSE Succeeds)
             /\ Go(r, "undo") /\ UNCHANGED <<page, known>>
       /\ UNCHANGED <<leased, Records, excused, calls>>

UndoRelease(s) == Destroyed(s)

\* The error is answered whether the browser could be destroyed or not.
Undo(r) ==
    LET s == poll[r].s
    IN /\ At(r, "undo") /\ Answer(r)
       /\ \/ UndoRelease(s) /\ Succeeds /\ UNCHANGED excused
          \/ Fails /\ excused' = excused \union {s} /\ UNCHANGED <<leased, page>>
       /\ UNCHANGED <<Records, known, calls>>

-----------------------------------------------------------------------------
(* Requests on a scan: connect, look or click, disconnect.                   *)

\* The record of the browser is there, else 404.
CallPage(r, s, op) ==
    /\ Called /\ At(r, "idle") /\ op \in Ops \ {"start"}
    /\ s \in known /\ s \in leased
    /\ poll' = [poll EXCEPT ![r] = [pc |-> "page", op |-> op, s |-> s]]
    /\ UNCHANGED <<leased, Records, page, known, excused, faults>>

\* Mutant: a request waits for a browser that is gone.
NeverGone(s) == FALSE
Gone(s) == s \notin leased

\* The browser is gone from under the request: an error.
Broken(r) ==
    /\ poll[r].pc \in {"page", "findQr", "prepare", "cookies"} /\ Gone(poll[r].s)
    /\ Answer(r)
    /\ UNCHANGED <<leased, Records, page, known, excused, calls, faults>>

On(r, op) == At(r, "page") /\ poll[r].op = op /\ poll[r].s \in leased

LoggedIn(s) == page[s] = "in"

Detect(r) ==
    LET s == poll[r].s
    IN /\ On(r, "status")
       /\ \/ LoggedIn(s) /\ Go(r, "cookies")
          \/ ~LoggedIn(s) /\ page[s] \in {"verify", "sms", "resendable"} /\ Go(r, "prepare")
          \/ ~LoggedIn(s) /\ page[s] = "confirming" /\ Answer(r)
          \/ ~LoggedIn(s) /\ page[s] \in {"blank", "loading", "qr", "expired"} /\ Go(r, "findQr")
       /\ excused' = IF LoggedIn(s) /\ (\E q \in Same(r, s) : poll[q].pc \in {"cookies", "create", "release"})
                     THEN excused \union {s} ELSE excused
       /\ UNCHANGED <<leased, Records, page, known, calls, faults>>

\* get_qr looks for the code at once.
GetQr(r) ==
    /\ On(r, "qr") /\ Go(r, "findQr")
    /\ UNCHANGED <<leased, Records, page, known, excused, calls, faults>>

\* The text was read; the QR code is looked for in the page as it is by now.
FindQr(r) ==
    /\ At(r, "findQr") /\ poll[r].s \in leased /\ Answer(r)
    /\ UNCHANGED <<leased, Records, page, known, excused, calls, faults>>

\* The button that has the code sent is clicked, if it is still there.
Prepare(r) ==
    LET s == poll[r].s
    IN /\ At(r, "prepare") /\ s \in leased /\ Answer(r)
       /\ IF page[s] = "verify" THEN Shows(s, "sms") ELSE UNCHANGED page
       /\ UNCHANGED <<leased, Records, known, excused, calls, faults>>

\* The expired code is clicked for a new one.
Refresh(r) ==
    LET s == poll[r].s
    IN /\ On(r, "refresh") /\ Answer(r)
       /\ IF page[s] = "expired" THEN Shows(s, "loading") ELSE UNCHANGED page
       /\ UNCHANGED <<leased, Records, known, excused, calls, faults>>

\* The code is typed where an input shows; it may be right.
Verify(r) ==
    LET s == poll[r].s
    IN /\ On(r, "verify") /\ Answer(r)
       /\ (page[s] \in {"sms", "resendable"} /\ Shows(s, "in")) \/ UNCHANGED page
       /\ UNCHANGED <<leased, Records, known, excused, calls, faults>>

MayResend(s) == page[s] = "resendable"

\* The countdown is over and another code is asked for.
Resend(r) ==
    LET s == poll[r].s
    IN /\ On(r, "resend") /\ Answer(r)
       /\ IF MayResend(s) THEN Shows(s, "sms") ELSE UNCHANGED page
       /\ UNCHANGED <<leased, Records, known, excused, calls, faults>>

\* cancel destroys whatever the id names.
Cancel(s) ==
    /\ Called /\ s \in known
    /\ \/ Destroyed(s) /\ Succeeds
       \/ Fails /\ UNCHANGED <<leased, page>>
    /\ UNCHANGED <<Records, known, poll, excused>>

-----------------------------------------------------------------------------
(* A login becomes an account.                                               *)

\* No cookies, or none that can be read: an error, and the browser stays.
Cookies(r) ==
    /\ At(r, "cookies") /\ poll[r].s \in leased
    /\ \/ Go(r, "create") /\ Succeeds
       \/ Answer(r) /\ Fails
    /\ UNCHANGED <<leased, Records, page, known, excused, calls>>

\* A name that is refused: an error, and the browser stays.
Create(r) ==
    LET a == made + 1
    IN /\ At(r, "create")
       /\ \/ /\ a \in Account
             /\ made' = a /\ maker' = [maker EXCEPT ![a] = poll[r].s] /\ live' = live \union {a}
             /\ Go(r, "release") /\ Succeeds
          \/ Answer(r) /\ UNCHANGED Records /\ (IF a \in Account THEN Fails ELSE Succeeds)
       /\ UNCHANGED <<leased, page, known, excused, calls>>

SuccessRelease(s) == Destroyed(s)

\* The browser is destroyed at once; a failure of that is not looked at.
Release(r) ==
    LET s == poll[r].s
    IN /\ At(r, "release") /\ Answer(r)
       /\ \/ SuccessRelease(s) /\ Succeeds /\ UNCHANGED excused
          \/ Fails /\ excused' = excused \union {s} /\ UNCHANGED <<leased, page>>
       /\ UNCHANGED <<Records, known, calls>>

-----------------------------------------------------------------------------
(* What others do.                                                           *)

Move == [blank |-> {}, closed |-> {}, loading |-> {"qr"}, qr |-> {"expired", "confirming"},
         expired |-> {}, confirming |-> {"verify", "in"}, verify |-> {}, sms |-> {"resendable"},
         resendable |-> {}, in |-> {}]

\* The page loads, the user scans and confirms, time passes.
PageMoves(s) ==
    /\ s \in leased /\ \E p \in Move[page[s]] : Shows(s, p)
    /\ UNCHANGED <<leased, Records, known, poll, excused, calls, faults>>

\* The pool or the platform takes an idle or old browser.
Taken(s) ==
    /\ Pool!Withdraw(s) /\ Shows(s, "closed")
    /\ UNCHANGED <<Records, known, poll, excused, calls, faults>>

\* The server ends with its requests; browsers outlive it.
ScanDies ==
    /\ poll' = [r \in Request |-> Idle]
    /\ excused' = excused \union {poll[r].s : r \in {q \in Request : poll[q].pc \in {"open", "undo", "release"}}}
    /\ UNCHANGED <<page, known, maker>>

Handle(r) ==
    \/ Open(r) \/ Undo(r) \/ Broken(r)
    \/ Detect(r) \/ GetQr(r) \/ FindQr(r) \/ Prepare(r) \/ Refresh(r) \/ Verify(r) \/ Resend(r)
    \/ Cookies(r) \/ Create(r) \/ Release(r)

ScanNext ==
    \/ \E r \in Request :
         \/ \E s \in Scan : CallStart(r, s) \/ \E op \in Ops : CallPage(r, s, op)
         \/ Handle(r)
    \/ \E s \in Scan : Cancel(s) \/ PageMoves(s) \/ Taken(s)

-----------------------------------------------------------------------------
(* Properties.                                                              *)

\* A login becomes one account: more come only from polls that saw the success
\* together, from a browser that could not be released, or from a server that
\* ended in between.
OneAccountPerLogin ==
    \A s \in Scan \ excused : Cardinality({a \in Account : maker[a] = s}) <= 1

\* An account is made from a page that was logged in, never from one that is
\* still to be confirmed, whatever the user, the pool and other requests do
\* between seeing the success, reading the cookies and writing the row.
SuccessIsLogin ==
    \A r \in Request : poll[r].pc \in {"cookies", "create", "release"}
        => page[poll[r].s] \in {"in", "closed"}

\* Every browser of a scan can be released by somebody: by a client that was
\* given the id, or by the request that is starting it.
LeaseIsReachable ==
    \A s \in (leased \intersect Scan) \ excused :
        s \in known \/ \E r \in Request : poll[r].s = s
=============================================================================
