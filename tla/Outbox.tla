------------------------------- MODULE Outbox -------------------------------
(***************************************************************************)
(* The predecessor's mails: rows of notification_events                    *)
(* (spark_console/services/notifications.py), the notifier process that    *)
(* claims one, sends it and marks it (notifier.py), the provider behind    *)
(* resend.py, and the administrator's page (web/email_routes.py).          *)
(*                                                                         *)
(* No transaction is open while a mail is sent.  A row that stays claimed  *)
(* for five minutes is offered again, whether its notifier died or is only *)
(* slow, and what a slow notifier reports is recorded whoever holds the    *)
(* row by then.                                                            *)
(***************************************************************************)
EXTENDS Naturals, FiniteSets

CONSTANTS
    Event,      \* mails, by their dedupe keys
    Notifier,
    Delays,     \* Len(RETRY_DELAYS)
    MaxTries,   \* bound on the administrator's retries
    MaxFaults,  \* bound on crashes and on notifiers slower than five minutes
    None, Gone

VARIABLES
    event,      \* NotificationEvent rows
    paused,     \* the setting email_paused
    at,         \* what each notifier does
    doing,      \* the mail it has claimed
    answer,     \* what the provider told it
    accepted,   \* the provider's: idempotency keys under which it mailed
    faults

vars == <<event, paused, at, doing, answer, accepted, faults>>
notifier == <<at, doing, answer>>

Mail == [status : {"pending", "sending", "sent", "failed"},
         tries : 0 .. MaxTries + MaxFaults + 1,
         due : BOOLEAN,         \* next_attempt_at <= now
         stale : BOOLEAN,       \* claimed more than five minutes ago
         payload : BOOLEAN]     \* the encrypted fields of the template, codes included

\* What the parameters must be; Console, which composes this module, assumes it.
\* The bound on retries of the administrator is not below those of the code.
ConstantsFit ==
    /\ Delays \in Nat /\ MaxTries \in Nat /\ MaxFaults \in Nat /\ Delays <= MaxTries
    /\ None # Gone /\ None \notin Event
    /\ None \notin Mail /\ Gone \notin Mail

TypeOK ==
    /\ event \in [Event -> Mail \union {None, Gone}]
    /\ paused \in BOOLEAN
    /\ at \in [Notifier -> {"down", "idle", "sending", "marking"}]
    /\ doing \in [Notifier -> Event \union {None}]
    /\ answer \in [Notifier -> {"success", "retry", "reject"}]
    /\ accepted \in [Event -> SUBSET (Event \X Nat)]
    /\ faults \in 0 .. MaxFaults

Init ==
    /\ event = [e \in Event |-> None]
    /\ paused = FALSE
    /\ at = [w \in Notifier |-> "down"]
    /\ doing = [w \in Notifier |-> None]
    /\ answer = [w \in Notifier |-> "success"]
    /\ accepted = [e \in Event |-> {}]
    /\ faults = 0

Is(e, status) == event[e] \notin {None, Gone} /\ event[e].status = status
Open(e) == Is(e, "pending") \/ Is(e, "sending")
Faulted == faults < MaxFaults /\ faults' = faults + 1

-----------------------------------------------------------------------------
(* The console *)

\* enqueue_template: a row per dedupe key.
Enqueue(e) ==
    /\ event[e] = None
    /\ event' = [event EXCEPT ![e] = [status |-> "pending", tries |-> 0, due |-> TRUE,
                                      stale |-> FALSE, payload |-> TRUE]]
    /\ UNCHANGED <<paused, notifier, accepted, faults>>

\* UserService.delete: the user's mails go with the user, claimed ones too.
DeleteUser(e) ==
    /\ event[e] \notin {None, Gone}
    /\ event' = [event EXCEPT ![e] = Gone]
    /\ UNCHANGED <<paused, notifier, accepted, faults>>

\* retry_failed: the count of attempts goes on.
RetryFailed(e) ==
    /\ Is(e, "failed") /\ event[e].tries < MaxTries
    /\ event' = [event EXCEPT ![e].status = "pending", ![e].due = TRUE]
    /\ UNCHANGED <<paused, notifier, accepted, faults>>

\* set_paused
SetPaused ==
    /\ paused' = ~paused
    /\ UNCHANGED <<event, notifier, accepted, faults>>

-----------------------------------------------------------------------------
(* The notifier *)

\* recover_stale
StaleRecovered ==
    [e \in Event |-> IF Is(e, "sending") /\ event[e].stale
                     THEN [event[e] EXCEPT !.status = "pending", !.due = TRUE, !.stale = FALSE]
                     ELSE event[e]]

Boot(w) ==
    /\ at[w] = "down"
    /\ at' = [at EXCEPT ![w] = "idle"]
    /\ UNCHANGED <<event, paused, doing, answer, accepted, faults>>

\* The first transaction of run_once: the stale claims are taken back, pause or
\* not, and a mail that is due is claimed.
Claim(w) ==
    LET rows == StaleRecovered
        due == {e \in Event : rows[e] \notin {None, Gone}
                              /\ rows[e].status = "pending" /\ rows[e].due}
    IN  /\ at[w] = "idle"
        /\ IF paused \/ due = {}
           THEN event' = rows /\ rows # event /\ UNCHANGED <<at, doing>>
           ELSE \E e \in due :
                  /\ event' = [rows EXCEPT ![e].status = "sending", ![e].tries = @ + 1,
                                           ![e].stale = FALSE]
                  /\ at' = [at EXCEPT ![w] = "sending"]
                  /\ doing' = [doing EXCEPT ![w] = e]
        /\ UNCHANGED <<paused, answer, accepted, faults>>

\* Mutant: every attempt has a key of its own.
KeyOfAttempt(e) == <<e, IF event[e] = Gone THEN 0 ELSE event[e].tries>>

\* The Idempotency-Key header: the id of the row.
Key(e) == <<e, 0>>

\* send: the provider takes the mail, unless it knows the key, or refuses it, or
\* is not available; a timeout tells nothing of which.
Send(w) ==
    LET e == doing[w] IN
    /\ at[w] = "sending"
    /\ \/ /\ accepted' = [accepted EXCEPT ![e] = @ \union {Key(e)}]
          /\ \E a \in {"success", "retry"} : answer' = [answer EXCEPT ![w] = a]
       \/ /\ answer' = [answer EXCEPT ![w] = "retry"]
          /\ UNCHANGED accepted
       \/ /\ Key(e) \notin accepted[e]
          /\ answer' = [answer EXCEPT ![w] = "reject"]
          /\ UNCHANGED accepted
    /\ at' = [at EXCEPT ![w] = "marking"]
    /\ UNCHANGED <<event, paused, doing, faults>>

\* mark_failed
Failed(r, retryable) ==
    IF retryable /\ r.tries - 1 < Delays
    THEN [r EXCEPT !.status = "pending", !.due = FALSE, !.stale = FALSE]
    ELSE [r EXCEPT !.status = "failed", !.stale = FALSE]

\* mark_sent or mark_failed
Marked(r, a) ==
    IF a = "success" THEN [r EXCEPT !.status = "sent", !.payload = FALSE, !.stale = FALSE]
    ELSE Failed(r, a = "retry")

\* Both refuse a row that is not being sent, without asking by whom.
Markable(e) == Is(e, "sending")

\* The second transaction.  Refused, it raises through run_loop.
Mark(w) ==
    LET e == doing[w] IN
    /\ at[w] = "marking"
    /\ IF Markable(e)
       THEN /\ event' = [event EXCEPT ![e] = Marked(@, answer[w])]
            /\ at' = [at EXCEPT ![w] = "idle"]
       ELSE /\ at' = [at EXCEPT ![w] = "down"]
            /\ UNCHANGED event
    /\ doing' = [doing EXCEPT ![w] = None]
    /\ UNCHANGED <<paused, answer, accepted, faults>>

Crash(w) ==
    /\ at[w] # "down" /\ Faulted
    /\ at' = [at EXCEPT ![w] = "down"]
    /\ doing' = [doing EXCEPT ![w] = None]
    /\ UNCHANGED <<event, paused, answer, accepted>>

\* Time passes: a delay is over, or five minutes since a claim are, with nobody
\* at work on it or somebody slow.
Due(e) ==
    /\ Is(e, "pending") /\ ~event[e].due
    /\ event' = [event EXCEPT ![e].due = TRUE]
    /\ UNCHANGED <<paused, notifier, accepted, faults>>

Stale(e) ==
    /\ Is(e, "sending") /\ ~event[e].stale
    /\ event' = [event EXCEPT ![e].stale = TRUE]
    /\ IF \E w \in Notifier : doing[w] = e THEN Faulted ELSE UNCHANGED faults
    /\ UNCHANGED <<paused, notifier, accepted>>

-----------------------------------------------------------------------------

Step(w) == Claim(w) \/ Send(w) \/ Mark(w) \/ Boot(w)
Passes(e) == Due(e) \/ Stale(e)

Next ==
    \/ \E e \in Event : Enqueue(e) \/ DeleteUser(e) \/ RetryFailed(e) \/ Passes(e)
    \/ SetPaused
    \/ \E w \in Notifier : Step(w) \/ Crash(w)

\* The clock runs, the notifier goes on and its container is restarted.
Fairness ==
    /\ \A w \in Notifier : WF_vars(Step(w))
    /\ \A e \in Event : WF_vars(Passes(e))

Spec == Init /\ [][Next]_vars /\ Fairness

-----------------------------------------------------------------------------
(* Properties *)

\* Nobody gets a mail twice, whatever notifiers crash, are slow or hear nothing
\* from the provider; a mail recorded as sent was sent, and exactly then its
\* code or text is erased from the table.
MailedOnce ==
    /\ \A e \in Event : Cardinality(accepted[e]) <= 1
    /\ \A e \in Event : event[e] \notin {None, Gone} =>
         /\ Is(e, "sent") <=> ~event[e].payload
         /\ Is(e, "sent") => accepted[e] # {}

\* A mail recorded as sent stays so: a slow notifier that reports on a row
\* somebody else took over in the meantime cannot put it back.
SentIsFinal == [][\A e \in Event : Is(e, "sent") => event'[e] \in {event[e], Gone}]_vars

\* Unless mails are paused, every mail is sent or given up, with no help from an
\* administrator and however often notifiers die: the delays run out.
MailSettles == \A e \in Event : Open(e) ~> (~Open(e) \/ paused)
=============================================================================
