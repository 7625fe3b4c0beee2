----------------------------- MODULE AuthWorker -----------------------------
(***************************************************************************)
(* The predecessor's login by QR code: users at the scan routes            *)
(* (web/account_scan_routes.py), the worker process that shows one login   *)
(* page at a time (auth_worker.py) and the watching of that page           *)
(* (auth_scanner.py), all on the table of ScanSessions.                    *)
(*                                                                         *)
(* The worker keeps a login page warm before anybody asks.  A run takes    *)
(* it over, publishes its QR code, and waits for the first of many things: *)
(* signs of a scan, a login, a demand for verification, the user's         *)
(* cancellation, the deadline, or a stop signal; it stores the account and *)
(* completes the session in one transaction.                               *)
(***************************************************************************)
EXTENDS ScanSessions

CONSTANTS
    Worker,
    MaxFaults   \* bound on crashes and failures of the browser

VARIABLES
    pc,         \* what each worker does
    mine,       \* the session it has claimed
    warm,       \* it has a prepared page
    context,    \* the page of its run is open
    page,       \* what that page shows
    confirmed,  \* confirm_once has run
    code,       \* the failure it is about to record
    stopping,   \* a stop signal arrived
    typing,     \* a code it took out of the table
    typed,      \* history: how often each code reached which session's page
    saved,      \* sessions whose credentials are stored with the owner's account
    faults

table == <<scan, input>>
run == <<pc, mine, warm, context, page, confirmed, code, stopping, typing>>
vars == <<table, run, typed, saved, faults>>

\* What the parameters must be; Console, which composes this module, assumes it.
ConstantsFit ==
    /\ MaxFaults \in Nat
    /\ None \notin Scan /\ None \notin Code /\ None \notin Session /\ None \notin Input

TypeOK ==
    /\ scan \in [Scan -> Session \union {None}]
    /\ input \in [Code -> Input \union {None}]
    /\ pc \in [Worker -> {"down", "idle", "loading", "waiting", "reading", "saving", "failing"}]
    /\ mine \in [Worker -> Scan \union {None}]
    /\ warm \in [Worker -> BOOLEAN] /\ context \in [Worker -> BOOLEAN]
    /\ page \in [Worker -> {"qr", "scanned", "verify", "in"}]
    /\ confirmed \in [Worker -> BOOLEAN] /\ stopping \in [Worker -> BOOLEAN]
    /\ code \in [Worker -> {None, "cancelled", "login_timeout", "verification_required",
                            "credential_invalid", "automation_failed"}]
    /\ typing \in [Worker -> Code \union {None}]
    /\ typed \in [Code -> SUBSET Scan]
    /\ saved \subseteq Scan
    /\ faults \in 0 .. MaxFaults

Init ==
    /\ scan = [s \in Scan |-> None]
    /\ input = [c \in Code |-> None]
    /\ pc = [w \in Worker |-> "down"]
    /\ mine = [w \in Worker |-> None]
    /\ warm = [w \in Worker |-> FALSE] /\ context = warm /\ confirmed = warm /\ stopping = warm
    /\ page = [w \in Worker |-> "qr"]
    /\ code = mine /\ typing = mine
    /\ typed = [c \in Code |-> {}]
    /\ saved = {} /\ faults = 0

Faulted == faults < MaxFaults /\ faults' = faults + 1
Running(w) == pc[w] \in {"loading", "waiting", "reading"}

-----------------------------------------------------------------------------
(* Users *)

\* start_scan: expired sessions are swept first; who meets a taken slot gets
\* their own session or a refusal.
Start(u) ==
    /\ scan' = IF \E s \in Scan : Swept[s] # None /\ Swept[s].slot
               THEN Swept
               ELSE LET free == {s \in Scan : scan[s] = None} IN
                    IF free = {} THEN Swept
                    ELSE [Swept EXCEPT ![CHOOSE s \in free : TRUE] = Fresh(u)]
    /\ scan' # scan
    /\ UNCHANGED <<input, run, typed, saved, faults>>

\* cancel_scan
Cancel(s) ==
    /\ scan[s] # None
    /\ scan' = IF scan[s].late THEN Swept ELSE After(s, "CANCELLED")
    /\ scan' # scan
    /\ UNCHANGED <<input, run, typed, saved, faults>>

\* scan_status, scan_qr and scan_qr_crop sweep before they answer.
Look ==
    /\ scan' = Swept /\ scan' # scan
    /\ UNCHANGED <<input, run, typed, saved, faults>>

\* interact_scan: a code for an active session, even one that is late.
Enter(s, c) ==
    /\ InProgress(s) /\ input[c] = None
    /\ input' = [input EXCEPT ![c] = [scan |-> s, consumed |-> FALSE]]
    /\ UNCHANGED <<scan, run, typed, saved, faults>>

Expires(s) ==
    /\ InProgress(s) /\ ~scan[s].late
    /\ scan' = [scan EXCEPT ![s].late = TRUE]
    /\ UNCHANGED <<input, run, typed, saved, faults>>

-----------------------------------------------------------------------------
(* The worker's loop *)

\* Mutant: sessions of a dead predecessor are left as they are.
BootTrusting == Swept

Booted == Recovered

\* AuthWorker.__init__
Boot(w) ==
    /\ pc[w] = "down"
    /\ scan' = Booted
    /\ pc' = [pc EXCEPT ![w] = "idle"]
    /\ stopping' = [stopping EXCEPT ![w] = FALSE]
    /\ UNCHANGED <<input, mine, warm, context, page, confirmed, code, typing, typed, saved, faults>>

\* prepare_scanner: a page with a QR code in sight, replaced when it is too old.
\* On a failure everything is closed and tried again.
Prepare(w) ==
    /\ pc[w] = "idle" /\ ~warm[w] /\ ~stopping[w]
    /\ \/ warm' = [warm EXCEPT ![w] = TRUE] /\ UNCHANGED faults
       \/ Faulted /\ UNCHANGED warm
    /\ UNCHANGED <<table, pc, mine, context, page, confirmed, code, stopping, typing, typed, saved>>

\* run_once: claim_next, then run_prepared takes the page over.  A late session
\* is expired instead.
Claim(w, s) ==
    /\ pc[w] = "idle" /\ warm[w] /\ ~stopping[w]
    /\ Holds(s) /\ scan[s].status = "QUEUED"
    /\ scan' = After(s, "LOADING_QR")
    /\ IF Answer(s, "LOADING_QR") = "done"
       THEN /\ pc' = [pc EXCEPT ![w] = "loading"]
            /\ mine' = [mine EXCEPT ![w] = s]
            /\ warm' = [warm EXCEPT ![w] = FALSE]
            /\ context' = [context EXCEPT ![w] = TRUE]
            /\ page' = [page EXCEPT ![w] = "qr"]
            /\ confirmed' = [confirmed EXCEPT ![w] = FALSE]
       ELSE UNCHANGED <<pc, mine, warm, context, page, confirmed>>
    /\ UNCHANGED <<input, code, stopping, typing, typed, saved, faults>>

Shut(w) == [context EXCEPT ![w] = FALSE]

\* The finally of run_prepared.
PageClosed(w) == Shut(w)

\* The run ends with an exception.
Fails(w, reason) ==
    /\ pc' = [pc EXCEPT ![w] = "failing"]
    /\ code' = [code EXCEPT ![w] = reason]
    /\ context' = PageClosed(w)
    /\ typing' = [typing EXCEPT ![w] = None]

\* on_qr: publish_qr.  A session that turned out late is expired without an
\* error, and the run goes on until it notices.
PublishQr(w) ==
    /\ pc[w] = "loading"
    /\ scan' = After(mine[w], "AWAITING_SCAN")
    /\ IF Answer(mine[w], "AWAITING_SCAN") = "conflict"
       THEN Fails(w, "automation_failed")
       ELSE pc' = [pc EXCEPT ![w] = "waiting"] /\ UNCHANGED <<code, context, typing>>
    /\ UNCHANGED <<input, mine, warm, page, confirmed, stopping, typed, saved, faults>>

\* cancelled(), which every stage and the wait poll.
Cancelled(w) ==
    /\ Running(w)
    /\ stopping[w] \/ ~InProgress(mine[w])
    /\ Fails(w, "cancelled")
    /\ UNCHANGED <<table, mine, warm, page, confirmed, stopping, typed, saved, faults>>

\* _checkpoint and the timeout of _await_stage.
TimedOut(w) ==
    /\ Running(w)
    /\ InProgress(mine[w]) => scan[mine[w]].late
    /\ Fails(w, "login_timeout")
    /\ UNCHANGED <<table, mine, warm, page, confirmed, stopping, typed, saved, faults>>

\* Playwright raises anywhere.
BrowserFails(w) ==
    /\ Running(w)
    /\ Fails(w, "automation_failed")
    /\ Faulted
    /\ UNCHANGED <<table, mine, warm, page, confirmed, stopping, typed, saved>>

-----------------------------------------------------------------------------
(* The login page *)

\* The phone: scanned, asked for verification, logged in.
PageMoves(w) ==
    /\ pc[w] = "waiting" /\ page[w] # "in"
    /\ \E p \in {"scanned", "verify", "in"} \ {page[w]} :
         /\ p = "scanned" => page[w] = "qr"
         /\ page' = [page EXCEPT ![w] = p]
    /\ UNCHANGED <<table, pc, mine, warm, context, confirmed, code, stopping, typing,
                   typed, saved, faults>>

\* confirm_once, from whichever watcher sees the first sign of a scan.
Confirm(w) ==
    /\ pc[w] = "waiting" /\ page[w] # "qr" /\ ~confirmed[w]
    /\ scan' = After(mine[w], "CONFIRMING")
    /\ confirmed' = [confirmed EXCEPT ![w] = TRUE]
    /\ IF Answer(mine[w], "CONFIRMING") = "conflict"
       THEN Fails(w, "automation_failed")
       ELSE UNCHANGED <<pc, code, context, typing>>
    /\ UNCHANGED <<input, mine, warm, page, stopping, typed, saved, faults>>

\* The words that ask for verification end the run, before any sign of success
\* is looked at.
Verify(w) ==
    /\ pc[w] = "waiting" /\ page[w] = "verify"
    /\ Fails(w, "verification_required")
    /\ UNCHANGED <<table, mine, warm, page, confirmed, stopping, typed, saved, faults>>

\* A conversation list or an authenticated account session, once confirmed.
LoggedIn(w) ==
    /\ pc[w] = "waiting" /\ page[w] = "in" /\ confirmed[w]
    /\ pc' = [pc EXCEPT ![w] = "reading"]
    /\ typing' = [typing EXCEPT ![w] = None]
    /\ UNCHANGED <<table, mine, warm, context, page, confirmed, code, stopping, typed, saved, faults>>

Taken(c) == [input EXCEPT ![c].consumed = TRUE]

\* _stream_browser_view: take one code of the session, type it; publish_view
\* raises once the session has ended.
TakeCode(w) ==
    /\ pc[w] = "waiting" /\ typing[w] = None
    /\ \E c \in Unconsumed(mine[w]) :
         /\ input' = Taken(c)
         /\ typing' = [typing EXCEPT ![w] = c]
    /\ UNCHANGED <<scan, pc, mine, warm, context, page, confirmed, code, stopping,
                   typed, saved, faults>>

TypeCode(w) ==
    /\ pc[w] = "waiting" /\ typing[w] # None
    /\ typed' = [typed EXCEPT ![typing[w]] = @ \union {mine[w]}]
    /\ typing' = [typing EXCEPT ![w] = None]
    /\ UNCHANGED <<table, pc, mine, warm, context, page, confirmed, code, stopping, saved, faults>>

PublishView(w) ==
    /\ pc[w] = "waiting" /\ (~InProgress(mine[w]) \/ scan[mine[w]].late)
    /\ Fails(w, "automation_failed")
    /\ UNCHANGED <<table, mine, warm, page, confirmed, stopping, typed, saved, faults>>

\* The rest of run_prepared and the check of the credentials.
Collect(w) ==
    /\ pc[w] = "reading"
    /\ \/ /\ pc' = [pc EXCEPT ![w] = "saving"]
          /\ context' = PageClosed(w)
          /\ UNCHANGED <<code, typing>>
       \/ Fails(w, "credential_invalid")
    /\ UNCHANGED <<table, mine, warm, page, confirmed, stopping, typed, saved, faults>>

-----------------------------------------------------------------------------
(* The outcome *)

\* Mutant: the account is committed before the session is completed.
KeptAnyway(s) == TRUE

\* The transaction commits only when complete() answers SUCCEEDED.
Commits(s) == Answer(s, "SUCCEEDED") = "done"

\* create_from_storage_state and complete, one transaction: everything or
\* nothing, the expiry of a late session included.
Save(w) ==
    LET s == mine[w] IN
    /\ pc[w] = "saving"
    /\ IF stopping[w]
       THEN Fails(w, "cancelled") /\ UNCHANGED <<scan, saved, mine>>
       ELSE IF Commits(s)
       THEN /\ saved' = saved \union {s}
            /\ scan' = After(s, "SUCCEEDED")
            /\ pc' = [pc EXCEPT ![w] = "idle"]
            /\ mine' = [mine EXCEPT ![w] = None]
            /\ UNCHANGED <<code, context, typing>>
       ELSE /\ Fails(w, IF Answer(s, "SUCCEEDED") = "expired" THEN "login_timeout"
                        ELSE "automation_failed")
            /\ UNCHANGED <<scan, saved, mine>>
    /\ UNCHANGED <<input, warm, page, confirmed, stopping, typed, faults>>

\* _record_failure: nothing to say about a session that has ended by itself.
RecordFailure(w) ==
    /\ pc[w] = "failing"
    /\ scan' = IF InProgress(mine[w]) THEN After(mine[w], "FAILED") ELSE scan
    /\ pc' = [pc EXCEPT ![w] = "idle"]
    /\ mine' = [mine EXCEPT ![w] = None]
    /\ code' = [code EXCEPT ![w] = None]
    /\ UNCHANGED <<input, warm, context, page, confirmed, stopping, typing, typed, saved, faults>>

\* A signal; the loop ends between two runs and closes the browser.
Stop(w) ==
    /\ pc[w] # "down" /\ ~stopping[w] /\ Faulted
    /\ stopping' = [stopping EXCEPT ![w] = TRUE]
    /\ UNCHANGED <<table, pc, mine, warm, context, page, confirmed, code, typing, typed, saved>>

Ends(w) ==
    /\ pc' = [pc EXCEPT ![w] = "down"]
    /\ mine' = [mine EXCEPT ![w] = None]
    /\ warm' = [warm EXCEPT ![w] = FALSE]
    /\ code' = [code EXCEPT ![w] = None]
    /\ typing' = [typing EXCEPT ![w] = None]

Quit(w) ==
    /\ pc[w] = "idle" /\ stopping[w]
    /\ Ends(w)
    /\ UNCHANGED <<table, context, page, confirmed, stopping, typed, saved, faults>>

\* The process dies with its browser.
Crash(w) ==
    /\ pc[w] # "down"
    /\ Ends(w) /\ context' = Shut(w)
    /\ Faulted
    /\ UNCHANGED <<table, page, confirmed, stopping, typed, saved>>

-----------------------------------------------------------------------------

Step(w) ==
    \/ Prepare(w) \/ (\E s \in Scan : Claim(w, s)) \/ PublishQr(w)
    \/ Cancelled(w) \/ TimedOut(w) \/ Confirm(w) \/ Verify(w) \/ LoggedIn(w)
    \/ TakeCode(w) \/ TypeCode(w) \/ PublishView(w) \/ Collect(w)
    \/ Save(w) \/ RecordFailure(w) \/ Quit(w)

Next ==
    \/ \E u \in User : Start(u)
    \/ \E s \in Scan : Cancel(s) \/ Expires(s) \/ \E c \in Code : Enter(s, c)
    \/ Look
    \/ \E w \in Worker : Step(w) \/ Boot(w) \/ PageMoves(w) \/ BrowserFails(w)
                         \/ Stop(w) \/ Crash(w)

\* The clock runs, a started process goes on, and the service manager starts it
\* again.  Users and their phones owe nothing.
Fairness ==
    /\ \A s \in Scan : WF_vars(Expires(s))
    /\ \A w \in Worker : WF_vars(Step(w)) /\ WF_vars(Boot(w))

Spec == Init /\ [][Next]_vars /\ Fairness

-----------------------------------------------------------------------------
(* Properties *)

\* One login page for everybody: at most one session holds the slot, exactly the
\* active ones do, and what an ended one showed is erased.
OneActiveAndWiped ==
    /\ \A s, r \in Scan : Holds(s) /\ Holds(r) => s = r
    /\ \A s \in Scan : scan[s] # None =>
         /\ scan[s].slot <=> scan[s].status \in Active
         /\ scan[s].qr => scan[s].slot

\* The credentials of a login are stored exactly when its session succeeded,
\* whatever cancellation, expiry, restart or stop came in between: no account
\* appears after "cancelled", and no "bound" without an account.
SavedIffSucceeded ==
    \A s \in Scan :
        /\ s \in saved <=> scan[s] # None /\ scan[s].status = "SUCCEEDED"
        /\ scan[s] # None => (scan[s].account <=> s \in saved)

\* An ended session stays as it ended: late transitions of the worker, the
\* sweep and the recovery at a restart do not reopen or relabel it.
EndedStays ==
    [][\A s \in Scan : scan[s] # None /\ scan[s].status \in Terminal =>
          scan'[s].status = scan[s].status]_vars

\* A code is typed at most once, into the page of the session it was entered
\* for, and is erased by then.
CodeOnceInItsPage ==
    /\ \A c \in Code : typed[c] # {} =>
         typed[c] = {input[c].scan} /\ input[c].consumed
    /\ \A v, w \in Worker : typing[v] # None =>
         typing[v] \notin Unconsumed(mine[v]) /\ (v # w => typing[v] # typing[w])

\* Every page a worker opened is its warm one or that of the run in progress.
PagesAccounted == \A w \in Worker : context[w] => Running(w)

\* Every session ends by itself and frees the slot, even if nobody asks again:
\* the worker, or the one that is started after it, carries it on, notices its
\* deadline or expires it in the queue.
SessionsEnd == \A s \in Scan : InProgress(s) ~> ~InProgress(s)
=============================================================================
