---------------------------- MODULE ScanSessions ----------------------------
(***************************************************************************)
(* The predecessor's table of login scans                                  *)
(* (spark_console/services/scan_sessions.py): one "global" slot, held by   *)
(* the only active session, and compare-and-set transitions between its    *)
(* states.  Each service method runs in one database transaction, so it is *)
(* an operator from the table to what it answers and to the table after    *)
(* it; AuthWorker makes them the steps of its processes.                   *)
(***************************************************************************)
EXTENDS Naturals, FiniteSets

CONSTANTS
    User,
    Scan,       \* ids of sessions, never used twice
    Code,       \* verification codes somebody may type, each entered once
    None

VARIABLES
    scan,       \* DouyinLoginSession rows
    input       \* DouyinLoginInput rows: code -> session and whether it was consumed

Active == {"QUEUED", "LOADING_QR", "AWAITING_SCAN", "CONFIRMING"}
Terminal == {"SUCCEEDED", "FAILED", "EXPIRED", "CANCELLED"}

Session == [owner : User, status : Active \union Terminal, slot : BOOLEAN,
            late : BOOLEAN,     \* expires_at <= now
            qr : BOOLEAN,       \* a picture of the login page is stored
            account : BOOLEAN]  \* account_id is set

Input == [scan : Scan, consumed : BOOLEAN]

\* ALLOWED, read backwards: the states a transition may start from.
Sources(target) ==
    CASE target = "LOADING_QR" -> {"QUEUED"}
      [] target = "AWAITING_SCAN" -> {"LOADING_QR"}
      [] target = "CONFIRMING" -> {"AWAITING_SCAN"}
      [] target = "SUCCEEDED" -> {"AWAITING_SCAN", "CONFIRMING"}
      [] OTHER -> Active

Holds(s) == scan[s] # None /\ scan[s].slot
InProgress(s) == Holds(s) /\ scan[s].status \in Active

\* What every terminal transition writes.
Ended(r, status) ==
    [r EXCEPT !.status = status, !.slot = FALSE, !.qr = FALSE, !.account = status = "SUCCEEDED"]

Moved(r, target) ==
    IF target \in Terminal THEN Ended(r, target)
    ELSE [r EXCEPT !.status = target, !.qr = @ \/ target = "AWAITING_SCAN"]

\* The WHERE clause of _cas_transition.
Cas(s, target) == InProgress(s) /\ scan[s].status \in Sources(target) /\ ~scan[s].late

\* _cas_transition: the transition, or the expiry of a late session, or Conflict.
Answer(s, target) ==
    IF Cas(s, target) THEN "done" ELSE IF InProgress(s) /\ scan[s].late THEN "expired" ELSE "conflict"

After(s, target) ==
    CASE Answer(s, target) = "done" -> [scan EXCEPT ![s] = Moved(@, target)]
      [] Answer(s, target) = "expired" -> [scan EXCEPT ![s] = Ended(@, "EXPIRED")]
      [] OTHER -> scan

\* expire_stale, over all rows.
Swept ==
    [s \in Scan |-> IF InProgress(s) /\ scan[s].late THEN Ended(scan[s], "EXPIRED") ELSE scan[s]]

\* fail_abandoned_browser_sessions, after expire_stale.
Recovered ==
    [s \in Scan |->
        IF Swept[s] # None /\ Swept[s].slot /\ Swept[s].status # "QUEUED"
        THEN Ended(Swept[s], "FAILED") ELSE Swept[s]]

Fresh(u) ==
    [owner |-> u, status |-> "QUEUED", slot |-> TRUE, late |-> FALSE, qr |-> FALSE, account |-> FALSE]

\* claim_interaction for typed codes: the oldest that is not consumed; its
\* ciphertext is erased in the same statement.
Unconsumed(s) == {c \in Code : input[c] # None /\ input[c].scan = s /\ ~input[c].consumed}
=============================================================================
