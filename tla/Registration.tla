----------------------------- MODULE Registration -----------------------------
(***************************************************************************)
(* The predecessor's registration by invitation and mailed code, binding   *)
(* of an address and reset of a password (services/email_verification.py,  *)
(* invites.py, users.py; web/registration_routes.py, email_routes.py).     *)
(*                                                                         *)
(* Requests run in threads.  With SQLite as the code opens it, what a      *)
(* handler reads is not locked until it first writes: a handler is one     *)
(* step that reads the row and one that decides by what was read and       *)
(* commits, where only unique indexes and the WHERE clause of an UPDATE    *)
(* see the rows as they are by then.  Console puts it beside the other     *)
(* processes.                                                              *)
(***************************************************************************)
EXTENDS Naturals, FiniteSets

CONSTANTS
    Name,           \* user names
    Address,        \* mail addresses
    Invite, Pending, Request,   \* ids, random and never used twice
    Client,         \* threads of the console that handle requests
    MAX_ATTEMPTS,
    MaxSends,       \* the limit of send_count
    MaxRows,        \* bound on registrations and requests together
    None, Gone,
    Unbound     \* the address of a user without one

VARIABLES
    user,       \* User rows by name: the verified address
    invite,     \* InviteCode rows
    pending,    \* PendingRegistration rows
    request,    \* EmailVerificationRequest rows
    mailed,     \* mails handed to the outbox, by dedupe key
    doing,      \* what each client's handler has read
    spent,      \* history: the registrations that each invitation was consumed for
    joined      \* history: those whose user was created although it could not be

rows == <<user, invite, pending, request, mailed>>
vars == <<rows, doing, spent, joined>>

Signup == [name : Name, address : Address, invite : Invite,
           fails : 0 .. MAX_ATTEMPTS, sends : 1 .. MaxSends,
           matches : BOOLEAN,   \* the code in the row is the one mailed last
           stale : BOOLEAN,     \* the code has expired
           cool : BOOLEAN]      \* resend_available_at has passed

Open == [user : Name, purpose : {"bind", "reset"}, address : Address,
         fails : 0 .. MAX_ATTEMPTS, consumed : BOOLEAN, stale : BOOLEAN]

\* A handler in progress: its row, whether the code was right, and the number it
\* goes on from.
Work == [op : {"verify", "resend"}, id : Pending, right : BOOLEAN, n : Nat,
         name : Name, address : Address, invite : Invite]
        \union [op : {"bind", "reset"}, id : Request, right : BOOLEAN, n : Nat,
                name : Name, address : Address]

\* What the parameters must be; Console, which composes this module, assumes it.
ConstantsFit ==
    /\ MAX_ATTEMPTS \in Nat /\ MaxSends \in Nat \ {0}
    /\ None # Gone /\ None \notin Address /\ Unbound \notin Address \union {None}
    /\ \A x \in {None, Gone} : /\ x \notin {"open", "used", "revoked", "late"}
                              /\ x \notin Signup \union Open \union Work

TypeOK ==
    /\ user \in [Name -> Address \union {Unbound, None}]
    /\ invite \in [Invite -> {None, Gone, "open", "used", "revoked", "late"}]
    /\ pending \in [Pending -> Signup \union {None, Gone}]
    /\ request \in [Request -> Open \union {None, Gone}]
    /\ mailed \subseteq Pending \X Nat
    /\ doing \in [Client -> Work \union {None}]
    /\ spent \in [Invite -> SUBSET Pending] /\ joined \subseteq Pending

Init ==
    /\ user = [n \in Name |-> None]
    /\ invite = [i \in Invite |-> None]
    /\ pending = [p \in Pending |-> None]
    /\ request = [r \in Request |-> None]
    /\ mailed = {}
    /\ doing = [c \in Client |-> None]
    /\ spent = [i \in Invite |-> {}] /\ joined = {}

Unused(table) == {key \in DOMAIN table : table[key] = None}
There(table, key) == table[key] \notin {None, Gone}
Registered == {n \in Name : user[n] # None}
Addresses == {user[n] : n \in Registered} \ {Unbound}
Room == Cardinality(Unused(pending)) + Cardinality(Unused(request)) + MaxRows
            > Cardinality(Pending) + Cardinality(Request)
Available(i) == invite[i] = "open"
Idle(c) == doing[c] = None
Done(c) == doing' = [doing EXCEPT ![c] = None]

-----------------------------------------------------------------------------
(* Invitations *)

\* create
Invited ==
    /\ \E i \in Unused(invite) : invite' = [invite EXCEPT ![i] = "open"]
    /\ UNCHANGED <<user, pending, request, mailed, doing, spent, joined>>

\* revoke
Revoke(i) ==
    /\ Available(i)
    /\ invite' = [invite EXCEPT ![i] = "revoked"]
    /\ UNCHANGED <<user, pending, request, mailed, doing, spent, joined>>

\* delete: the registrations that wait for it go with it.
DeleteInvite(i) ==
    /\ There(invite, i)
    /\ invite' = [invite EXCEPT ![i] = Gone]
    /\ pending' = [p \in Pending |-> IF There(pending, p) /\ pending[p].invite = i THEN Gone
                                     ELSE pending[p]]
    /\ UNCHANGED <<user, request, mailed, doing, spent, joined>>

-----------------------------------------------------------------------------
(* Registration *)

\* start_registration: no row promises the name, the address or the invitation.
StartRegistration(n, a, i) ==
    /\ user[n] = None /\ a \notin Addresses /\ Available(i) /\ Room
    /\ \E p \in Unused(pending) :
           /\ pending' = [pending EXCEPT ![p] =
                [name |-> n, address |-> a, invite |-> i, fails |-> 0, sends |-> 1,
                 matches |-> TRUE, stale |-> FALSE, cool |-> FALSE]]
           /\ mailed' = mailed \union {<<p, 1>>}
    /\ UNCHANGED <<user, invite, request, doing, spent, joined>>

Expired(r) == r.stale \/ r.fails >= MAX_ATTEMPTS

\* Mutant: the number of mails is not limited.
ResendableAlways(r) == r.cool

Resendable(r) == r.cool /\ r.sends < MaxSends

Handles(c, work) == Idle(c) /\ doing' = [doing EXCEPT ![c] = work] /\ UNCHANGED <<rows, spent, joined>>

\* verify_registration and resend_registration up to their first write.
\* A row that is refused already has no further effect.
Read(c, p) ==
    LET r == pending[p]
        Reads(op, right, n) == Handles(c, [op |-> op, id |-> p, right |-> right, n |-> n,
                                           name |-> r.name, address |-> r.address, invite |-> r.invite])
    IN  /\ There(pending, p)
        /\ \/ ~Expired(r) /\ \E right \in BOOLEAN : Reads("verify", right, r.fails + 1)
           \/ Resendable(r) /\ Reads("resend", TRUE, r.sends + 1)

\* A wrong code: failed_attempts is written as what was read plus one.
Counted(table, w) == IF There(table, w.id) THEN [table EXCEPT ![w.id].fails = w.n] ELSE table

\* Mutant: the invitation is marked by its id alone.
ConsumableById(i) == invite[i] \notin {None, Gone}

\* The WHERE clause of consume_id.
Consumable(i) == Available(i)

\* Mutant: nothing but the queries before the write looks for the address.
FreeByQuery(n, a) == user[n] = None

\* The unique indexes of users.
Free(n, a) == user[n] = None /\ a \notin Addresses

\* verify_registration commits.  The route catches what it raises inside the
\* transaction, so when the invitation cannot be consumed any more the user
\* stays, without quota, and the registration waits on.  It is not missed when
\* it has been deleted since it was read.
Verify(c) ==
    LET w == doing[c] IN
    /\ w # None /\ w.op = "verify"
    /\ Done(c)
    /\ IF ~w.right
       THEN pending' = Counted(pending, w) /\ UNCHANGED <<user, invite, spent, joined>>
       ELSE IF ~Free(w.name, w.address)
       THEN UNCHANGED <<user, invite, pending, spent, joined>>
       ELSE /\ user' = [user EXCEPT ![w.name] = w.address]
            /\ IF Consumable(w.invite)
               THEN /\ invite' = [invite EXCEPT ![w.invite] = "used"]
                    /\ spent' = [spent EXCEPT ![w.invite] = @ \union {w.id}]
                    /\ pending' = [pending EXCEPT ![w.id] = Gone]
                    /\ UNCHANGED joined
               ELSE /\ joined' = joined \union {w.id}
                    /\ UNCHANGED <<invite, pending, spent>>
    /\ UNCHANGED <<request, mailed>>

\* resend_registration commits: a new code in the row, and a mail with it unless
\* one of this number is in the outbox already.
Resend(c) ==
    LET w == doing[c]
        known == <<w.id, w.n>> \in mailed
    IN  /\ w # None /\ w.op = "resend"
        /\ Done(c)
        /\ IF There(pending, w.id)
           THEN /\ pending' = [pending EXCEPT ![w.id] =
                        [@ EXCEPT !.sends = w.n, !.fails = 0, !.matches = ~known,
                                  !.stale = FALSE, !.cool = FALSE]]
                /\ mailed' = mailed \union {<<w.id, w.n>>}
           ELSE UNCHANGED <<pending, mailed>>
        /\ UNCHANGED <<user, invite, request, spent, joined>>

-----------------------------------------------------------------------------
(* Addresses and passwords of users *)

\* What a new request of a user closes.
EarlierConsumed(n, purposes) ==
    [r \in Request |-> IF There(request, r) /\ request[r].user = n /\ request[r].purpose \in purposes
                       THEN [request[r] EXCEPT !.consumed = TRUE] ELSE request[r]]

Requested(n, purpose, a, earlier) ==
    /\ n \in Registered /\ Room
    /\ \E r \in Unused(request) :
          request' = [EarlierConsumed(n, earlier) EXCEPT ![r] =
                        [user |-> n, purpose |-> purpose, address |-> a, fails |-> 0,
                         consumed |-> FALSE, stale |-> FALSE]]
    /\ UNCHANGED <<user, invite, pending, mailed, doing, spent, joined>>

\* start_binding closes the resets as well.  Either start begins with an UPDATE
\* and so runs alone.
StartBinding(n, a) ==
    /\ a \notin Addresses \ {user[n]}
    /\ Requested(n, "bind", a, {"bind", "reset"})

\* start_password_reset, for the user of an address; the page looks the same
\* when there is none.
StartPasswordReset(a) ==
    \E n \in Registered : user[n] = a /\ Requested(n, "reset", a, {"reset"})

\* verify_binding and complete_password_reset up to their first write.
ReadRequest(c, q) ==
    LET r == request[q] IN
    /\ There(request, q) /\ ~Expired(r) /\ ~r.consumed
    /\ \E right \in BOOLEAN :
         Handles(c, [op |-> r.purpose, id |-> q, right |-> right, n |-> r.fails + 1,
                     name |-> r.user, address |-> r.address])

\* The address must be free, or the user's own, when the row is written.
Bindable(w) == w.address \notin Addresses \ {user[w.name]}

Consumed(w) == request' = [request EXCEPT ![w.id].consumed = TRUE]

\* verify_binding commits.
VerifyBinding(c) ==
    LET w == doing[c] IN
    /\ w # None /\ w.op = "bind"
    /\ Done(c)
    /\ IF ~w.right
       THEN request' = Counted(request, w) /\ UNCHANGED user
       ELSE IF There(request, w.id) /\ Bindable(w)
       THEN Consumed(w) /\ user' = [user EXCEPT ![w.name] = w.address]
       ELSE UNCHANGED <<request, user>>
    /\ UNCHANGED <<invite, pending, mailed, spent, joined>>

\* complete_password_reset commits; the password itself is left out.
CompletePasswordReset(c) ==
    LET w == doing[c] IN
    /\ w # None /\ w.op = "reset"
    /\ Done(c)
    /\ IF ~w.right
       THEN request' = Counted(request, w)
       ELSE IF There(request, w.id) THEN Consumed(w) ELSE UNCHANGED request
    /\ UNCHANGED <<user, invite, pending, mailed, spent, joined>>

-----------------------------------------------------------------------------

\* UserService.create, for an administrator: no invitation and no address.
CreateUser(n) ==
    /\ user[n] = None
    /\ user' = [user EXCEPT ![n] = Unbound]
    /\ UNCHANGED <<invite, pending, request, mailed, doing, spent, joined>>

\* UserService.delete
DeleteUser(n) ==
    /\ n \in Registered
    /\ user' = [user EXCEPT ![n] = None]
    /\ request' = [r \in Request |-> IF There(request, r) /\ request[r].user = n THEN Gone
                                     ELSE request[r]]
    /\ UNCHANGED <<invite, pending, mailed, doing, spent, joined>>

\* cleanup_expired, by the notifier: rows that are late or consumed.
Cleanup ==
    /\ pending' \in [Pending -> {None, Gone} \union {pending[p] : p \in Pending}]
    /\ \A p \in Pending : \/ pending'[p] = pending[p]
                          \/ There(pending, p) /\ pending[p].stale /\ pending'[p] = Gone
    /\ request' = [r \in Request |-> IF There(request, r) /\ (request[r].consumed \/ request[r].stale)
                                     THEN Gone ELSE request[r]]
    /\ <<pending', request'>> # <<pending, request>>
    /\ UNCHANGED <<user, invite, mailed, doing, spent, joined>>

\* Time passes for an invitation, a code or the pause before another mail.
Passes ==
    /\ \/ \E i \in Invite : /\ Available(i)
                            /\ invite' = [invite EXCEPT ![i] = "late"]
                            /\ UNCHANGED <<pending, request>>
       \/ \E p \in Pending : /\ There(pending, p)
                             /\ IF pending[p].cool
                                THEN pending' = [pending EXCEPT ![p].stale = TRUE]
                                ELSE pending' = [pending EXCEPT ![p].cool = TRUE]
                             /\ pending' # pending
                             /\ UNCHANGED <<invite, request>>
       \/ \E r \in Request : /\ There(request, r) /\ ~request[r].stale
                             /\ request' = [request EXCEPT ![r].stale = TRUE]
                             /\ UNCHANGED <<invite, pending>>
    /\ UNCHANGED <<user, mailed, doing, spent, joined>>

Next ==
    \/ Invited \/ \E i \in Invite : Revoke(i) \/ DeleteInvite(i)
    \/ \E n \in Name, a \in Address, i \in Invite : StartRegistration(n, a, i)
    \/ \E c \in Client :
         \/ \E p \in Pending : Read(c, p)
         \/ \E r \in Request : ReadRequest(c, r)
         \/ Verify(c) \/ Resend(c) \/ VerifyBinding(c) \/ CompletePasswordReset(c)
    \/ \E a \in Address : StartPasswordReset(a) \/ \E n \in Name : StartBinding(n, a)
    \/ \E n \in Name : CreateUser(n) \/ DeleteUser(n)
    \/ Cleanup \/ Passes

Spec == Init /\ [][Next]_vars

-----------------------------------------------------------------------------
(* Properties *)

\* No address belongs to two users, however registrations, bindings and their
\* checks overlap.
AddressesUnique ==
    \A m, n \in Registered : m # n /\ user[m] # Unbound => user[m] # user[n]

\* An invitation is consumed for one registration at most, and marked used by the
\* very commit that creates that registration's user; while it is open, and once
\* it was revoked or has expired, it was consumed for none.  Any number of
\* registrations may wait for it.  That nobody else gets in is not said: whom the
\* route lets in although the invitation was refused is in joined
\* (EveryUserInvited).
InviteSpentOnce ==
    \A i \in Invite :
        /\ Cardinality(spent[i]) <= 1
        /\ invite[i] = "used" => spent[i] # {}
        /\ invite[i] \in {"open", "revoked", "late"} => spent[i] = {}

\* A user has at most one open request of each purpose, and a registration gets
\* at most MaxSends mails, even when its page is submitted twice at once.
RequestsBounded ==
    /\ TypeOK
    /\ \A q, r \in Request :
         There(request, q) /\ There(request, r) /\ ~request[q].consumed /\ ~request[r].consumed
           /\ request[q].user = request[r].user /\ request[q].purpose = request[r].purpose => q = r
    /\ \A p \in Pending : Cardinality({m \in mailed : m[1] = p}) <= MaxSends

\* Every registered user was let in by an invitation of their own.
EveryUserInvited == joined = {}

\* The code a registration expects is the one that was mailed last.
MailedCodeWorks == \A p \in Pending : There(pending, p) => pending[p].matches
=============================================================================
