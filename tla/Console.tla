------------------------------- MODULE Console -------------------------------
(***************************************************************************)
(* The predecessor's processes (compose.console.yml): the web console with *)
(* its registration (Registration), the login worker (AuthWorker), the     *)
(* notifier (Outbox) and the sending worker (SparkWorker), the latter each *)
(* with the part of the console that writes its tables.  They share a      *)
(* database and no row of it, except that a login renews an account and a  *)
(* run or a registration announces mails, which either part does with the  *)
(* other's effect in its own model.  So one of them runs in a behaviour,   *)
(* and the others stand still.                                             *)
(***************************************************************************)
EXTENDS Naturals, FiniteSets

CONSTANTS
    Process,    \* the processes that are studied
    Name, Address, Invite, Pending, Request, Client, MAX_ATTEMPTS, MaxSends, MaxRows, Unbound,
    User, Scan, Code, Worker, MaxAuthFaults,
    Event, Notifier, Delays, MaxTries, MaxMailFaults,
    Task, MaxEdits, MaxSparkFaults, None, Gone

VARIABLES
    running,    \* the process that this behaviour is about
    user, invite, pending, request, mailed, handling, spent, joined,
    scan, input, pc, mine, warm, context, page, confirmed, code, stopping, typing, typed, saved,
    event, paused, at, doing, answer, accepted,
    task, account, log, quota, retrying, stage, now, result, skewed, sent, excused, mails, notes, edits,
    authFaults, mailFaults, sparkFaults

G == INSTANCE Registration WITH doing <- handling
A == INSTANCE AuthWorker WITH MaxFaults <- MaxAuthFaults, faults <- authFaults
O == INSTANCE Outbox WITH MaxFaults <- MaxMailFaults, faults <- mailFaults
W == INSTANCE SparkWorker WITH MaxFaults <- MaxSparkFaults, faults <- sparkFaults, pc <- stage

ASSUME ConsoleAssumption ==
    /\ Process \subseteq {"spark-web", "spark-auth", "spark-notifier", "spark-worker"}
    /\ G!ConstantsFit /\ A!ConstantsFit /\ O!ConstantsFit /\ W!ConstantsFit

webVars == <<user, invite, pending, request, mailed, handling, spent, joined>>
authVars == <<scan, input, pc, mine, warm, context, page, confirmed, code, stopping, typing,
              typed, saved, authFaults>>
mailVars == <<event, paused, at, doing, answer, accepted, mailFaults>>
sparkVars == <<task, account, log, quota, retrying, stage, now, result, skewed, sent, excused, mails,
               notes, edits, sparkFaults>>
vars == <<running, webVars, authVars, mailVars, sparkVars>>

Init ==
    /\ running \in Process
    /\ G!Init /\ A!Init /\ O!Init /\ W!Init
    /\ skewed => running = "spark-worker"

Web(step) == running = "spark-web" /\ step /\ UNCHANGED <<running, authVars, mailVars, sparkVars>>
Auth(step) == running = "spark-auth" /\ step /\ UNCHANGED <<running, webVars, mailVars, sparkVars>>
Mails(step) == running = "spark-notifier" /\ step /\ UNCHANGED <<running, webVars, authVars, sparkVars>>
Sending(step) == running = "spark-worker" /\ step /\ UNCHANGED <<running, webVars, authVars, mailVars>>

Next == Web(G!Next) \/ Auth(A!Next) \/ Mails(O!Next) \/ Sending(W!Next)

\* What each part asks of its clock, its process and Docker.
Fairness ==
    /\ \A s \in Scan : WF_vars(Auth(A!Expires(s)))
    /\ \A w \in Worker : WF_vars(Auth(A!Step(w))) /\ WF_vars(Auth(A!Boot(w)))
    /\ \A n \in Notifier : WF_vars(Mails(O!Step(n)))
    /\ \A e \in Event : WF_vars(Mails(O!Passes(e)))
    /\ WF_vars(Sending(W!Step))

Spec == Init /\ [][Next]_vars /\ Fairness

-----------------------------------------------------------------------------
(* Properties: those of the parts, which state and explain each in its      *)
(* module.                                                                  *)

\* Registration: no address belongs to two users, however registrations, bindings
\* and their checks overlap.
AddressesUnique == G!AddressesUnique

\* Registration: an invitation is consumed for one registration at most, in the
\* commit that creates its user, and never after it was revoked or has expired,
\* with any number of registrations waiting for it.
InviteSpentOnce == G!InviteSpentOnce

\* Registration: a user has at most one open request of each purpose, and a
\* registration gets at most MaxSends mails, even when its page is submitted
\* twice at once.
RequestsBounded == G!RequestsBounded

\* The login worker: one page for everybody, credentials stored exactly when a
\* session succeeds, codes typed once and only where they belong, and what an
\* ended session showed erased and closed.
LoginSound ==
    /\ running = "spark-auth" => A!TypeOK
    /\ A!OneActiveAndWiped /\ A!SavedIffSucceeded /\ A!CodeOnceInItsPage /\ A!PagesAccounted

\* The notifier: nobody gets a mail twice, and a mail is recorded as sent, and
\* erased, exactly when it was.
MailedOnce == (running = "spark-notifier" => O!TypeOK) /\ O!MailedOnce

\* The sending worker: a message is sent again only after an interruption, by
\* order of a login, or by a retry that was overtaken by a run, and its user is
\* told once of each trouble.
SendingSound ==
    /\ running = "spark-worker" => W!TypeOK
    /\ W!ResentOnlyIfExcused /\ W!ToldOnce

\* What is under way: a session, a mail that is not held back, a run.  Only the
\* part that runs can have any.
UnderWay(s, e, t) ==
    A!InProgress(s) \/ (O!Open(e) /\ ~paused) \/ log[t].status = "running"

\* Every session, mail and run ends, whichever process dies, and a session or
\* mail that has ended stays so: SessionsEnd, MailSettles and RunsEnd of the
\* parts in one, since a behaviour is about one of them.
EndsOnce ==
    /\ A!EndedStays /\ O!SentIsFinal
    /\ \A s \in Scan, e \in Event, t \in Task : UnderWay(s, e, t) ~> ~UnderWay(s, e, t)
=============================================================================
