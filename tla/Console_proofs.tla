---------------------------- MODULE Console_proofs ----------------------------
(***************************************************************************)
(* Proofs about the predecessor's processes, for any number of users,      *)
(* invitations, handlers, mails, sessions, workers and tasks.              *)
(***************************************************************************)
EXTENDS Console, FiniteSetTheorems, TLAPS

-----------------------------------------------------------------------------
(* The web console: the inductive invariant *)

\* What a handler goes on from was counted from a row below its limit.
WorkFits(w) ==
    /\ w.op = "resend" => w.n \in 1 .. MaxSends
    /\ w.op # "resend" => w.n <= MAX_ATTEMPTS

WorksFit == \A c \in Client : handling[c] # None => WorkFits(handling[c])

\* Mails are numbered by the limit, whatever became of their registrations.
MailsNumbered == mailed \subseteq Pending \X (1 .. MaxSends)

\* An invitation that was consumed is used, or was deleted since.
SpentIsOver ==
    \A i \in Invite : \/ spent[i] = {} /\ invite[i] # "used"
                      \/ /\ invite[i] \in {"used", Gone}
                         /\ \E p \in Pending : spent[i] = {p}

\* The second part of RequestsBounded.
OneOpen ==
    \A q, r \in Request :
         G!There(request, q) /\ G!There(request, r) /\ ~request[q].consumed /\ ~request[r].consumed
           /\ request[q].user = request[r].user /\ request[q].purpose = request[r].purpose => q = r

WebInv == /\ G!TypeOK /\ WorksFit /\ MailsNumbered
        /\ SpentIsOver /\ OneOpen /\ G!AddressesUnique

-----------------------------------------------------------------------------
(* Records *)

LEMMA RegistrationAssumption ==
    /\ MAX_ATTEMPTS \in Nat /\ MaxSends \in Nat \ {0}
    /\ None # Gone /\ None \notin Address /\ Unbound \notin Address \union {None}
    /\ \A x \in {None, Gone} : /\ x \notin {"open", "used", "revoked", "late"}
                              /\ x \notin G!Signup \union G!Open \union G!Work
BY ConsoleAssumption DEF G!ConstantsFit

LEMMA SameCount == \A S : G!Cardinality(S) = Cardinality(S)
BY DEF G!Cardinality, Cardinality

LEMMA RowsAreThere ==
    /\ \A x \in G!Signup \union G!Open \union G!Work : x # None /\ x # Gone
    /\ \A x \in Address \union {Unbound} : x # None
BY RegistrationAssumption

LEMMA SignupFields ==
    ASSUME NEW x \in G!Signup
    PROVE  /\ x.name \in Name /\ x.address \in Address /\ x.invite \in Invite
           /\ x.fails \in 0 .. MAX_ATTEMPTS /\ x.sends \in 1 .. MaxSends
BY DEF G!Signup

LEMMA SignupUpdate ==
    ASSUME NEW x \in G!Signup
    PROVE  /\ \A n \in 0 .. MAX_ATTEMPTS : [x EXCEPT !.fails = n] \in G!Signup
           /\ [x EXCEPT !.stale = TRUE] \in G!Signup
           /\ [x EXCEPT !.cool = TRUE] \in G!Signup
           /\ \A n \in 1 .. MaxSends, b \in BOOLEAN :
                 [x EXCEPT !.sends = n, !.fails = 0, !.matches = b,
                           !.stale = FALSE, !.cool = FALSE] \in G!Signup
<1>1. 0 \in 0 .. MAX_ATTEMPTS
  BY RegistrationAssumption
<1>2. QED BY <1>1 DEF G!Signup

LEMMA OpenFields ==
    ASSUME NEW x \in G!Open
    PROVE  /\ x.user \in Name /\ x.purpose \in {"bind", "reset"} /\ x.address \in Address
           /\ x.fails \in 0 .. MAX_ATTEMPTS /\ x.consumed \in BOOLEAN
BY DEF G!Open

\* A request that is counted, consumed or late stays whose and what it is.
LEMMA OpenUpdate ==
    ASSUME NEW x \in G!Open
    PROVE  /\ \A n \in 0 .. MAX_ATTEMPTS :
                /\ [x EXCEPT !.fails = n] \in G!Open
                /\ [x EXCEPT !.fails = n].user = x.user
                /\ [x EXCEPT !.fails = n].purpose = x.purpose
                /\ [x EXCEPT !.fails = n].consumed = x.consumed
           /\ /\ [x EXCEPT !.consumed = TRUE] \in G!Open
              /\ [x EXCEPT !.consumed = TRUE].consumed = TRUE
           /\ /\ [x EXCEPT !.stale = TRUE] \in G!Open
              /\ [x EXCEPT !.stale = TRUE].user = x.user
              /\ [x EXCEPT !.stale = TRUE].purpose = x.purpose
              /\ [x EXCEPT !.stale = TRUE].consumed = x.consumed
BY DEF G!Open

LEMMA WorkFields ==
    ASSUME NEW w \in G!Work
    PROVE  /\ w.op \in {"verify", "resend", "bind", "reset"}
           /\ w.right \in BOOLEAN /\ w.n \in Nat /\ w.name \in Name /\ w.address \in Address
           /\ w.op \in {"verify", "resend"} => w.id \in Pending /\ w.invite \in Invite
           /\ w.op \in {"bind", "reset"} => w.id \in Request
BY DEF G!Work

\* The numbers a commit writes are within the columns' limits.
LEMMA WorkBounds ==
    ASSUME WebInv, NEW c \in Client, handling[c] # None
    PROVE  /\ handling[c] \in G!Work
           /\ handling[c].op # "resend" => handling[c].n \in 0 .. MAX_ATTEMPTS
           /\ handling[c].op = "resend" => handling[c].n \in 1 .. MaxSends
<1>1. handling[c] \in G!Work
  BY DEF WebInv, G!TypeOK
<1>2. handling[c].n \in Nat
  BY <1>1, WorkFields
<1>3. WorkFits(handling[c])
  BY DEF WebInv, WorksFit
<1>4. QED BY <1>1, <1>2, <1>3, RegistrationAssumption DEF WorkFits

-----------------------------------------------------------------------------
(* Parts of the invariant *)

\* A handler begins with work that fits, or ends.
LEMMA WorksStillFit ==
    ASSUME WebInv, NEW c \in Client, NEW w \in G!Work \union {None}, w # None => WorkFits(w),
           handling' = [handling EXCEPT ![c] = w]
    PROVE  WorksFit' /\ handling' \in [Client -> G!Work \union {None}]
<1>1. handling \in [Client -> G!Work \union {None}]
  BY DEF WebInv, G!TypeOK
<1>2. \A d \in Client : handling'[d] = IF d = c THEN w ELSE handling[d]
  BY <1>1
<1>3. QED BY <1>1, <1>2 DEF WebInv, WorksFit, WorkFits

LEMMA DoneFits ==
    ASSUME WebInv, NEW c \in Client, G!Done(c)
    PROVE  WorksFit' /\ handling' \in [Client -> G!Work \union {None}]
BY WorksStillFit DEF G!Done

\* Every open request after the step was open before, with the same user and purpose.
NoneOpens ==
    \A r \in Request :
        G!There(request', r) /\ ~request'[r].consumed =>
            /\ G!There(request, r) /\ ~request[r].consumed
            /\ request'[r].user = request[r].user /\ request'[r].purpose = request[r].purpose

LEMMA StillOneOpen ==
    ASSUME WebInv, NoneOpens
    PROVE  OneOpen'
BY DEF WebInv, OneOpen, NoneOpens, G!There

\* One user is given an address that no other has, or none.
LEMMA StillUnique ==
    ASSUME WebInv, NEW n \in Name, NEW a \in Address \union {Unbound, None},
           user' = [user EXCEPT ![n] = a],
           a \in Address => \A m \in G!Registered : m # n => user[m] # a
    PROVE  G!AddressesUnique' /\ user' \in [Name -> Address \union {Unbound, None}]
<1>1. user \in [Name -> Address \union {Unbound, None}]
  BY DEF WebInv, G!TypeOK
<1>2. \A m \in Name : user'[m] = IF m = n THEN a ELSE user[m]
  BY <1>1
<1>3. QED BY <1>1, <1>2 DEF WebInv, G!AddressesUnique, G!Registered

\* The parts that follow from what does not change.
LEMMA RowsUnchanged ==
    ASSUME WebInv
    PROVE  /\ UNCHANGED <<user, pending, request, mailed, handling, spent, joined>>
                /\ SpentIsOver'
                /\ invite' \in [Invite -> {None, Gone, "open", "used", "revoked", "late"}]
              => WebInv'
           /\ UNCHANGED <<user, request>> => OneOpen' /\ G!AddressesUnique'
           /\ UNCHANGED handling => WorksFit'
           /\ UNCHANGED mailed => MailsNumbered'
           /\ UNCHANGED <<invite, spent>> => SpentIsOver'
<1>1. UNCHANGED <<user, request>> => OneOpen' /\ G!AddressesUnique'
  BY DEF WebInv, OneOpen, G!There, G!AddressesUnique, G!Registered
<1>2. UNCHANGED handling => WorksFit'
  BY DEF WebInv, WorksFit, WorkFits
<1>3. UNCHANGED mailed => MailsNumbered'
  BY DEF WebInv, MailsNumbered
<1>4. UNCHANGED <<invite, spent>> => SpentIsOver'
  BY DEF WebInv, SpentIsOver
<1>5. QED BY <1>1, <1>2, <1>3, <1>4 DEF WebInv, G!TypeOK

-----------------------------------------------------------------------------
(* The steps *)

\* Only invitations change, and none that was consumed.
LEMMA InvitesFit ==
    ASSUME WebInv, NEW i \in Invite, NEW s \in {Gone, "open", "revoked", "late"},
           invite' = [invite EXCEPT ![i] = s],
           s = Gone \/ spent[i] = {},
           spent' = spent
    PROVE  SpentIsOver' /\ invite' \in [Invite -> {None, Gone, "open", "used", "revoked", "late"}]
<1>1. invite \in [Invite -> {None, Gone, "open", "used", "revoked", "late"}]
  BY DEF WebInv, G!TypeOK
<1>2. \A j \in Invite : invite'[j] = IF j = i THEN s ELSE invite[j]
  BY <1>1
<1>3. QED BY <1>1, <1>2, RegistrationAssumption DEF WebInv, SpentIsOver

\* An invitation that is not used was not consumed.
LEMMA UnspentIsEmpty ==
    ASSUME WebInv, NEW i \in Invite, invite[i] \in {None, "open", "revoked", "late"}
    PROVE  spent[i] = {}
BY RegistrationAssumption DEF WebInv, SpentIsOver

LEMMA InvitationFits ==
    ASSUME WebInv,
           G!Invited \/ (\E i \in Invite : G!Revoke(i) \/ G!DeleteInvite(i))
    PROVE  WebInv'
<1>1. CASE G!Invited
  <2>1. PICK i \in G!Unused(invite) : invite' = [invite EXCEPT ![i] = "open"]
    BY <1>1 DEF G!Invited
  <2>2. i \in Invite /\ invite[i] = None
    BY <2>1 DEF G!Unused, WebInv, G!TypeOK
  <2>3. SpentIsOver' /\ invite' \in [Invite -> {None, Gone, "open", "used", "revoked", "late"}]
    BY <1>1, <2>1, <2>2, UnspentIsEmpty, InvitesFit DEF G!Invited
  <2>4. QED BY <1>1, <2>3, RowsUnchanged DEF G!Invited
<1>2. ASSUME NEW i \in Invite, G!Revoke(i) PROVE WebInv'
  <2>1. spent[i] = {}
    BY <1>2, UnspentIsEmpty DEF G!Revoke, G!Available
  <2>2. SpentIsOver' /\ invite' \in [Invite -> {None, Gone, "open", "used", "revoked", "late"}]
    BY <1>2, <2>1, InvitesFit DEF G!Revoke
  <2>3. QED BY <1>2, <2>2, RowsUnchanged DEF G!Revoke
<1>3. ASSUME NEW i \in Invite, G!DeleteInvite(i) PROVE WebInv'
  <2>1. SpentIsOver' /\ invite' \in [Invite -> {None, Gone, "open", "used", "revoked", "late"}]
    BY <1>3, InvitesFit DEF G!DeleteInvite
  <2>2. pending' \in [Pending -> G!Signup \union {None, Gone}]
    BY <1>3 DEF G!DeleteInvite, WebInv, G!TypeOK
  <2>3. QED BY <1>3, <2>1, <2>2 DEF G!DeleteInvite, WebInv, G!TypeOK, WorksFit, WorkFits,
              MailsNumbered, OneOpen, G!There, G!AddressesUnique, G!Registered
<1>4. QED BY <1>1, <1>2, <1>3

LEMMA StartFits ==
    ASSUME WebInv, NEW n \in Name, NEW a \in Address, NEW i \in Invite, G!StartRegistration(n, a, i)
    PROVE  WebInv'
<1>1. PICK p \in G!Unused(pending) :
           /\ pending' = [pending EXCEPT ![p] =
                [name |-> n, address |-> a, invite |-> i, fails |-> 0, sends |-> 1,
                 matches |-> TRUE, stale |-> FALSE, cool |-> FALSE]]
           /\ mailed' = mailed \union {<<p, 1>>}
  BY DEF G!StartRegistration
<1>2. p \in Pending
  BY <1>1 DEF G!Unused, WebInv, G!TypeOK
<1>3. 1 \in 1 .. MaxSends /\ 0 \in 0 .. MAX_ATTEMPTS /\ 1 \in Nat
  BY RegistrationAssumption
<1>4. pending' \in [Pending -> G!Signup \union {None, Gone}]
  BY <1>1, <1>2, <1>3 DEF WebInv, G!TypeOK, G!Signup
<1>5. MailsNumbered' /\ mailed' \subseteq Pending \X Nat
  BY <1>1, <1>2, <1>3 DEF WebInv, MailsNumbered, G!TypeOK
<1>6. UNCHANGED <<user, invite, request, handling, spent, joined>>
  BY DEF G!StartRegistration
<1>7. G!TypeOK'
  BY <1>4, <1>5, <1>6 DEF WebInv, G!TypeOK
<1>8. QED BY <1>5, <1>6, <1>7, RowsUnchanged DEF WebInv

\* What a handler has read bounds what it goes on to write.
LEMMA HandlesFits ==
    ASSUME WebInv, NEW c \in Client, NEW w \in G!Work, WorkFits(w), G!Handles(c, w)
    PROVE  WebInv'
<1>1. WorksFit' /\ handling' \in [Client -> G!Work \union {None}]
  BY WorksStillFit DEF G!Handles
<1>2. UNCHANGED <<user, invite, pending, request, mailed, spent, joined>>
  BY DEF G!Handles, G!rows
<1>3. G!TypeOK'
  BY <1>1, <1>2 DEF WebInv, G!TypeOK
<1>4. QED BY <1>1, <1>2, <1>3, RowsUnchanged DEF WebInv

LEMMA ReadFits ==
    ASSUME WebInv, NEW c \in Client, NEW p \in Pending, G!Read(c, p)
    PROVE  WebInv'
<1> DEFINE Begun(op, right, n) ==
       [op |-> op, id |-> p, right |-> right, n |-> n, name |-> pending[p].name,
        address |-> pending[p].address, invite |-> pending[p].invite]
<1>1. pending[p] \in G!Signup
  BY DEF G!Read, G!There, WebInv, G!TypeOK
<1>2. PICK x \in G!Signup : x = pending[p]
  BY <1>1
<1>3. /\ x.name \in Name /\ x.address \in Address /\ x.invite \in Invite
      /\ x.fails \in 0 .. MAX_ATTEMPTS /\ x.sends \in 1 .. MaxSends
  BY SignupFields
<1>4. CASE \E right \in BOOLEAN : ~G!Expired(x) /\ G!Handles(c, Begun("verify", right, x.fails + 1))
  <2>1. PICK right \in BOOLEAN : ~G!Expired(x) /\ G!Handles(c, Begun("verify", right, x.fails + 1))
    BY <1>4
  <2>2. x.fails + 1 \in Nat /\ x.fails + 1 <= MAX_ATTEMPTS
    BY <1>3, <2>1, RegistrationAssumption DEF G!Expired
  <2>3. Begun("verify", right, x.fails + 1) \in G!Work /\ WorkFits(Begun("verify", right, x.fails + 1))
    BY <1>2, <1>3, <2>2 DEF G!Work, WorkFits
  <2>4. QED BY <2>1, <2>3, HandlesFits
<1>5. CASE G!Resendable(x) /\ G!Handles(c, Begun("resend", TRUE, x.sends + 1))
  <2>1. x.sends + 1 \in Nat /\ x.sends + 1 \in 1 .. MaxSends
    BY <1>3, <1>5, RegistrationAssumption DEF G!Resendable
  <2>2. Begun("resend", TRUE, x.sends + 1) \in G!Work /\ WorkFits(Begun("resend", TRUE, x.sends + 1))
    BY <1>2, <1>3, <2>1 DEF G!Work, WorkFits
  <2>3. QED BY <1>5, <2>2, HandlesFits
<1>6. QED BY <1>2, <1>4, <1>5 DEF G!Read

LEMMA ReadRequestFits ==
    ASSUME WebInv, NEW c \in Client, NEW q \in Request, G!ReadRequest(c, q)
    PROVE  WebInv'
<1>1. request[q] \in G!Open
  BY DEF G!ReadRequest, G!There, WebInv, G!TypeOK
<1>2. PICK x \in G!Open : x = request[q]
  BY <1>1
<1> DEFINE Begun(right) == [op |-> x.purpose, id |-> q, right |-> right, n |-> x.fails + 1,
                        name |-> x.user, address |-> x.address]
<1>3. x.user \in Name /\ x.purpose \in {"bind", "reset"} /\ x.address \in Address
      /\ x.fails \in 0 .. MAX_ATTEMPTS
  BY OpenFields
<1>4. PICK right \in BOOLEAN : G!Handles(c, Begun(right))
  BY <1>2 DEF G!ReadRequest
<1>5. x.fails + 1 \in Nat /\ x.fails + 1 <= MAX_ATTEMPTS
  BY <1>2, <1>3, RegistrationAssumption DEF G!ReadRequest, G!Expired
<1>6. Begun(right) \in G!Work /\ WorkFits(Begun(right))
  BY <1>3, <1>5 DEF G!Work, WorkFits
<1>7. QED BY <1>4, <1>6, HandlesFits

\* A wrong code is counted in a row that is still there.
LEMMA CountedSignup ==
    ASSUME WebInv, NEW c \in Client, handling[c] # None, handling[c].op = "verify"
    PROVE  G!Counted(pending, handling[c]) \in [Pending -> G!Signup \union {None, Gone}]
<1>1. handling[c].n \in 0 .. MAX_ATTEMPTS
  BY WorkBounds
<1>2. G!There(pending, handling[c].id) /\ handling[c].id \in Pending => pending[handling[c].id] \in G!Signup
  BY DEF G!There, WebInv, G!TypeOK
<1>3. handling[c].id \in Pending
  BY WorkBounds, WorkFields
<1>4. pending \in [Pending -> G!Signup \union {None, Gone}]
  BY DEF WebInv, G!TypeOK
<1>5. G!There(pending, handling[c].id) =>
         [pending[handling[c].id] EXCEPT !.fails = handling[c].n] \in G!Signup
  BY <1>1, <1>2, <1>3, SignupUpdate
<1>6. QED BY <1>3, <1>4, <1>5 DEF G!Counted

LEMMA CountedOpen ==
    ASSUME WebInv, NEW c \in Client, handling[c] # None, handling[c].op \in {"bind", "reset"},
           request' = G!Counted(request, handling[c])
    PROVE  request' \in [Request -> G!Open \union {None, Gone}] /\ NoneOpens
<1>1. handling[c].n \in 0 .. MAX_ATTEMPTS
  BY WorkBounds
<1>2. handling[c].id \in Request
  BY WorkBounds, WorkFields
<1>3. request \in [Request -> G!Open \union {None, Gone}]
  BY DEF WebInv, G!TypeOK
<1>4. CASE G!There(request, handling[c].id)
  <2>1. request[handling[c].id] \in G!Open
    BY <1>2, <1>3, <1>4 DEF G!There
  <2>2. PICK x \in G!Open : x = request[handling[c].id]
    BY <2>1
  <2>3. /\ [x EXCEPT !.fails = handling[c].n] \in G!Open
        /\ [x EXCEPT !.fails = handling[c].n].user = x.user
        /\ [x EXCEPT !.fails = handling[c].n].purpose = x.purpose
        /\ [x EXCEPT !.fails = handling[c].n].consumed = x.consumed
    BY <1>1, OpenUpdate
  <2>4. request' = [request EXCEPT ![handling[c].id] = [x EXCEPT !.fails = handling[c].n]]
    BY <1>3, <1>4, <2>2 DEF G!Counted
  <2>5. \A r \in Request : request'[r] = IF r = handling[c].id THEN [x EXCEPT !.fails = handling[c].n]
                                         ELSE request[r]
    BY <1>3, <2>4
  <2>6. request' \in [Request -> G!Open \union {None, Gone}]
    BY <1>3, <2>3, <2>4
  <2>7. NoneOpens
    BY <1>4, <2>2, <2>3, <2>5 DEF NoneOpens, G!There
  <2>8. QED BY <2>6, <2>7
<1>5. CASE ~G!There(request, handling[c].id)
  BY <1>3, <1>5 DEF G!Counted, NoneOpens, G!There
<1>6. QED BY <1>4, <1>5

LEMMA ConsumedOpen ==
    ASSUME WebInv, NEW c \in Client, handling[c] # None, handling[c].op \in {"bind", "reset"},
           G!There(request, handling[c].id), G!Consumed(handling[c])
    PROVE  request' \in [Request -> G!Open \union {None, Gone}] /\ NoneOpens
<1>2. handling[c].id \in Request
  BY WorkBounds, WorkFields
<1>3. request \in [Request -> G!Open \union {None, Gone}]
  BY DEF WebInv, G!TypeOK
<1>4. PICK x \in G!Open : x = request[handling[c].id]
  BY <1>2, <1>3 DEF G!There
<1>5. [x EXCEPT !.consumed = TRUE] \in G!Open /\ [x EXCEPT !.consumed = TRUE].consumed = TRUE
  BY OpenUpdate
<1>6. request' = [request EXCEPT ![handling[c].id] = [x EXCEPT !.consumed = TRUE]]
  BY <1>2, <1>3, <1>4 DEF G!Consumed
<1>7. request' \in [Request -> G!Open \union {None, Gone}]
  BY <1>3, <1>5, <1>6
<1>8. \A r \in Request : request'[r] = IF r = handling[c].id THEN [x EXCEPT !.consumed = TRUE]
                                       ELSE request[r]
  BY <1>3, <1>6
<1>9. NoneOpens
  BY <1>5, <1>8 DEF NoneOpens, G!There
<1>10. QED BY <1>7, <1>9

\* An address that the unique index lets in is nobody else's.
LEMMA FreeIsUnique ==
    ASSUME WebInv, NEW n \in Name, NEW a \in Address, G!Free(n, a), user' = [user EXCEPT ![n] = a]
    PROVE  G!AddressesUnique' /\ user' \in [Name -> Address \union {Unbound, None}]
<1>1. \A m \in G!Registered : user[m] # a
  BY RegistrationAssumption DEF G!Free, G!Addresses
<1>2. QED BY <1>1, StillUnique

\* The registration that consumes the invitation is the only one.
LEMMA ConsumeFits ==
    ASSUME WebInv, NEW p \in Pending, NEW i \in Invite, G!Consumable(i),
           invite' = [invite EXCEPT ![i] = "used"],
           spent' = [spent EXCEPT ![i] = @ \union {p}]
    PROVE  /\ SpentIsOver' /\ spent' \in [Invite -> SUBSET Pending]
           /\ invite' \in [Invite -> {None, Gone, "open", "used", "revoked", "late"}]
<1>1. spent[i] = {}
  BY UnspentIsEmpty DEF G!Consumable, G!Available
<1>2. /\ spent \in [Invite -> SUBSET Pending]
      /\ invite \in [Invite -> {None, Gone, "open", "used", "revoked", "late"}]
  BY DEF WebInv, G!TypeOK
<1>3. \A j \in Invite : /\ spent'[j] = IF j = i THEN {p} ELSE spent[j]
                        /\ invite'[j] = IF j = i THEN "used" ELSE invite[j]
  BY <1>1, <1>2
<1>4. SpentIsOver'
  BY <1>3 DEF WebInv, SpentIsOver
<1>5. spent' \in [Invite -> SUBSET Pending]
  BY <1>1, <1>2
<1>6. invite' \in [Invite -> {None, Gone, "open", "used", "revoked", "late"}]
  BY <1>2
<1>7. QED BY <1>4, <1>5, <1>6

LEMMA VerifyFits ==
    ASSUME WebInv, NEW c \in Client, G!Verify(c)
    PROVE  WebInv'
<1> DEFINE w == handling[c]
<1>1. w # None /\ w.op = "verify" /\ G!Done(c) /\ UNCHANGED <<request, mailed>>
  BY DEF G!Verify
<1>2. w.name \in Name /\ w.address \in Address /\ w.id \in Pending /\ w.invite \in Invite
  BY <1>1, WorkBounds, WorkFields
<1>3. WorksFit' /\ handling' \in [Client -> G!Work \union {None}]
  BY <1>1, DoneFits
<1>4. MailsNumbered' /\ OneOpen'
  BY <1>1 DEF WebInv, MailsNumbered, OneOpen, G!There
<1>5. CASE ~w.right
  <2>1. pending' \in [Pending -> G!Signup \union {None, Gone}]
    BY <1>1, <1>5, CountedSignup DEF G!Verify
  <2>2. UNCHANGED <<user, invite, spent, joined>>
    BY <1>5 DEF G!Verify
  <2>3. G!TypeOK'
    BY <1>1, <1>3, <2>1, <2>2 DEF WebInv, G!TypeOK
  <2>4. SpentIsOver' /\ G!AddressesUnique'
    BY <1>1, <2>2, RowsUnchanged
  <2>5. QED BY <1>3, <1>4, <2>3, <2>4 DEF WebInv
<1>6. CASE w.right /\ ~G!Free(w.name, w.address)
  <2>1. UNCHANGED <<user, invite, pending, spent, joined>>
    BY <1>6 DEF G!Verify
  <2>2. G!TypeOK'
    BY <1>1, <1>3, <2>1 DEF WebInv, G!TypeOK
  <2>3. SpentIsOver' /\ G!AddressesUnique'
    BY <1>1, <2>1, RowsUnchanged
  <2>4. QED BY <1>3, <1>4, <2>2, <2>3 DEF WebInv
<1>7. CASE w.right /\ G!Free(w.name, w.address)
  <2>1. user' = [user EXCEPT ![w.name] = w.address]
    BY <1>7 DEF G!Verify
  <2>2. G!AddressesUnique' /\ user' \in [Name -> Address \union {Unbound, None}]
    BY <1>2, <1>7, <2>1, FreeIsUnique
  <2>3. CASE G!Consumable(w.invite)
    <3>1. /\ invite' = [invite EXCEPT ![w.invite] = "used"]
          /\ spent' = [spent EXCEPT ![w.invite] = @ \union {w.id}]
          /\ pending' = [pending EXCEPT ![w.id] = Gone]
          /\ UNCHANGED joined
      BY <1>7, <2>3 DEF G!Verify
    <3>2. /\ SpentIsOver' /\ spent' \in [Invite -> SUBSET Pending]
          /\ invite' \in [Invite -> {None, Gone, "open", "used", "revoked", "late"}]
      BY <1>2, <2>3, <3>1, ConsumeFits
    <3>3. G!TypeOK'
      BY <1>1, <1>3, <2>2, <3>1, <3>2 DEF WebInv, G!TypeOK
    <3>4. QED BY <1>3, <1>4, <2>2, <3>2, <3>3 DEF WebInv
  <2>4. CASE ~G!Consumable(w.invite)
    <3>1. joined' = joined \union {w.id} /\ UNCHANGED <<invite, pending, spent>>
      BY <1>7, <2>4 DEF G!Verify
    <3>2. G!TypeOK'
      BY <1>1, <1>2, <1>3, <2>2, <3>1 DEF WebInv, G!TypeOK
    <3>3. SpentIsOver'
      BY <3>1, RowsUnchanged
    <3>4. QED BY <1>3, <1>4, <2>2, <3>2, <3>3 DEF WebInv
  <2>5. QED BY <2>3, <2>4
<1>8. QED BY <1>5, <1>6, <1>7

LEMMA ResendFits ==
    ASSUME WebInv, NEW c \in Client, G!Resend(c)
    PROVE  WebInv'
<1> DEFINE w == handling[c]
           known == <<w.id, w.n>> \in mailed
<1>1. w # None /\ w.op = "resend" /\ G!Done(c) /\ UNCHANGED <<user, invite, request, spent, joined>>
  BY DEF G!Resend
<1>2. w.id \in Pending /\ w.n \in 1 .. MaxSends /\ w.n \in Nat
  BY <1>1, WorkBounds, WorkFields
<1>3. WorksFit' /\ handling' \in [Client -> G!Work \union {None}]
  BY <1>1, DoneFits
<1>4. ASSUME G!There(pending, w.id)
      PROVE  /\ pending' \in [Pending -> G!Signup \union {None, Gone}]
             /\ MailsNumbered' /\ mailed' \subseteq Pending \X Nat
  <2>1. PICK x \in G!Signup : x = pending[w.id]
    BY <1>2, <1>4 DEF G!There, WebInv, G!TypeOK
  <2>2. pending' = [pending EXCEPT ![w.id] =
                        [x EXCEPT !.sends = w.n, !.fails = 0, !.matches = ~known,
                                  !.stale = FALSE, !.cool = FALSE]]
        /\ mailed' = mailed \union {<<w.id, w.n>>}
    BY <1>2, <1>4, <2>1 DEF G!Resend, WebInv, G!TypeOK
  <2>3. (~known) \in BOOLEAN
    OBVIOUS
  <2>4. [x EXCEPT !.sends = w.n, !.fails = 0, !.matches = ~known,
                  !.stale = FALSE, !.cool = FALSE] \in G!Signup
    BY <1>2, <2>3, SignupUpdate
  <2>5. pending' \in [Pending -> G!Signup \union {None, Gone}]
    BY <2>2, <2>4 DEF WebInv, G!TypeOK
  <2>6. MailsNumbered' /\ mailed' \subseteq Pending \X Nat
    BY <1>2, <2>2 DEF WebInv, MailsNumbered, G!TypeOK
  <2>7. QED BY <2>5, <2>6
<1>5. ASSUME ~G!There(pending, w.id)
      PROVE  /\ pending' \in [Pending -> G!Signup \union {None, Gone}]
             /\ MailsNumbered' /\ mailed' \subseteq Pending \X Nat
  BY <1>5 DEF G!Resend, WebInv, G!TypeOK, MailsNumbered
<1>6. /\ pending' \in [Pending -> G!Signup \union {None, Gone}]
      /\ MailsNumbered' /\ mailed' \subseteq Pending \X Nat
  BY <1>4, <1>5
<1>7. G!TypeOK'
  BY <1>1, <1>3, <1>6 DEF WebInv, G!TypeOK
<1>8. QED BY <1>1, <1>3, <1>6, <1>7, RowsUnchanged DEF WebInv

\* A new request closes those that it would compete with.
LEMMA RequestedFits ==
    ASSUME WebInv, NEW n \in Name, NEW purpose \in {"bind", "reset"}, NEW a \in Address,
           NEW earlier \in SUBSET {"bind", "reset"}, purpose \in earlier,
           G!Requested(n, purpose, a, earlier)
    PROVE  WebInv'
<1> DEFINE New == [user |-> n, purpose |-> purpose, address |-> a, fails |-> 0,
                   consumed |-> FALSE, stale |-> FALSE]
<1>1. PICK r \in G!Unused(request) : request' = [G!EarlierConsumed(n, earlier) EXCEPT ![r] = New]
  BY DEF G!Requested
<1>2. r \in Request /\ request \in [Request -> G!Open \union {None, Gone}]
  BY <1>1 DEF G!Unused, WebInv, G!TypeOK
<1>3. UNCHANGED <<user, invite, pending, mailed, handling, spent, joined>>
  BY DEF G!Requested
<1>4. New \in G!Open
  BY RegistrationAssumption DEF G!Open
<1>5. \A q \in Request : request'[q] =
         IF q = r THEN New
         ELSE IF G!There(request, q) /\ request[q].user = n /\ request[q].purpose \in earlier
         THEN [request[q] EXCEPT !.consumed = TRUE] ELSE request[q]
  BY <1>1, <1>2 DEF G!EarlierConsumed
<1>6. \A q \in Request : G!There(request, q) => request[q] \in G!Open
  BY <1>2 DEF G!There
<1>7. \A q \in Request : G!There(request, q) =>
         /\ [request[q] EXCEPT !.consumed = TRUE] \in G!Open
         /\ [request[q] EXCEPT !.consumed = TRUE].consumed = TRUE
  BY <1>6, OpenUpdate
<1>8. request' \in [Request -> G!Open \union {None, Gone}]
  <2>1. \A q \in Request : request'[q] \in G!Open \union {None, Gone}
    BY <1>2, <1>4, <1>5, <1>7
  <2>2. request' = [q \in Request |-> request'[q]]
    BY <1>1, <1>2 DEF G!EarlierConsumed
  <2>3. QED BY <2>1, <2>2
<1>9. OneOpen'
  <2>1. \A q \in Request : q # r /\ G!There(request', q) /\ ~request'[q].consumed =>
           /\ G!There(request, q) /\ request'[q] = request[q]
           /\ ~(request[q].user = n /\ request[q].purpose = purpose)
    BY <1>5, <1>7 DEF G!There
  <2>2. request'[r].user = n /\ request'[r].purpose = purpose
    <3>1. request'[r] = New
      BY <1>2, <1>5
    <3>2. QED BY <3>1
  <2>3. QED BY <2>1, <2>2 DEF WebInv, OneOpen, G!There
<1>10. G!TypeOK'
  BY <1>3, <1>8 DEF WebInv, G!TypeOK
<1>11. G!AddressesUnique'
  BY <1>3 DEF WebInv, G!AddressesUnique, G!Registered
<1>12. QED BY <1>3, <1>9, <1>10, <1>11, RowsUnchanged DEF WebInv

LEMMA RequestFits ==
    ASSUME WebInv, NEW a \in Address,
           G!StartPasswordReset(a) \/ (\E n \in Name : G!StartBinding(n, a))
    PROVE  WebInv'
<1>1. ASSUME NEW n \in Name, G!StartBinding(n, a) PROVE WebInv'
  BY <1>1, RequestedFits DEF G!StartBinding
<1>2. ASSUME NEW n \in G!Registered, G!Requested(n, "reset", a, {"reset"}) PROVE WebInv'
  <2>1. n \in Name
    BY DEF G!Registered
  <2>2. QED BY <1>2, <2>1, RequestedFits
<1>3. QED BY <1>1, <1>2 DEF G!StartPasswordReset

\* Requests only close, and perhaps a user changes its address.
LEMMA RequestsClose ==
    ASSUME WebInv, NoneOpens, WorksFit', G!AddressesUnique',
           request' \in [Request -> G!Open \union {None, Gone}],
           user' \in [Name -> Address \union {Unbound, None}],
           handling' \in [Client -> G!Work \union {None}],
           UNCHANGED <<invite, pending, mailed, spent, joined>>
    PROVE  WebInv'
<1>1. G!TypeOK'
  BY DEF WebInv, G!TypeOK
<1>2. OneOpen'
  BY StillOneOpen
<1>3. QED BY <1>1, <1>2, RowsUnchanged DEF WebInv

LEMMA SameRequests ==
    ASSUME WebInv, UNCHANGED request
    PROVE  request' \in [Request -> G!Open \union {None, Gone}] /\ NoneOpens
BY DEF WebInv, G!TypeOK, NoneOpens, G!There

LEMMA SameUsers ==
    ASSUME WebInv, UNCHANGED user
    PROVE  G!AddressesUnique' /\ user' \in [Name -> Address \union {Unbound, None}]
BY DEF WebInv, G!TypeOK, G!AddressesUnique, G!Registered

LEMMA VerifyBindingFits ==
    ASSUME WebInv, NEW c \in Client, G!VerifyBinding(c)
    PROVE  WebInv'
<1> DEFINE w == handling[c]
<1>1. w # None /\ w.op = "bind" /\ G!Done(c) /\ UNCHANGED <<invite, pending, mailed, spent, joined>>
  BY DEF G!VerifyBinding
<1>2. w.name \in Name /\ w.address \in Address
  BY <1>1, WorkBounds, WorkFields
<1>3. WorksFit' /\ handling' \in [Client -> G!Work \union {None}]
  BY <1>1, DoneFits
<1>4. CASE ~w.right
  <2>1. request' = G!Counted(request, w) /\ UNCHANGED user
    BY <1>4 DEF G!VerifyBinding
  <2>2. request' \in [Request -> G!Open \union {None, Gone}] /\ NoneOpens
    BY <1>1, <2>1, CountedOpen
  <2>3. QED BY <1>1, <1>3, <2>1, <2>2, SameUsers, RequestsClose
<1>5. CASE w.right /\ G!There(request, w.id) /\ G!Bindable(w)
  <2>1. G!Consumed(w) /\ user' = [user EXCEPT ![w.name] = w.address]
    BY <1>5 DEF G!VerifyBinding
  <2>2. request' \in [Request -> G!Open \union {None, Gone}] /\ NoneOpens
    BY <1>1, <1>5, <2>1, ConsumedOpen
  <2>3. \A m \in G!Registered : m # w.name => user[m] # w.address
    <3>1. ASSUME NEW m \in G!Registered, m # w.name, user[m] = w.address PROVE FALSE
      <4>1. w.address \in G!Addresses /\ w.address # None /\ w.address # Unbound
        BY <1>2, <3>1, RegistrationAssumption DEF G!Addresses
      <4>2. w.address = user[w.name]
        BY <1>5, <4>1 DEF G!Bindable
      <4>3. w.name \in G!Registered
        BY <1>2, <4>1, <4>2 DEF G!Registered
      <4>4. QED BY <3>1, <4>1, <4>2, <4>3 DEF WebInv, G!AddressesUnique
    <3>2. QED BY <3>1
  <2>4. G!AddressesUnique' /\ user' \in [Name -> Address \union {Unbound, None}]
    BY <1>2, <2>1, <2>3, StillUnique
  <2>5. QED BY <1>1, <1>3, <2>2, <2>4, RequestsClose
<1>6. CASE w.right /\ ~(G!There(request, w.id) /\ G!Bindable(w))
  <2>1. UNCHANGED <<request, user>>
    BY <1>6 DEF G!VerifyBinding
  <2>2. QED BY <1>1, <1>3, <2>1, SameRequests, SameUsers, RequestsClose
<1>7. QED BY <1>4, <1>5, <1>6

LEMMA CompleteFits ==
    ASSUME WebInv, NEW c \in Client, G!CompletePasswordReset(c)
    PROVE  WebInv'
<1> DEFINE w == handling[c]
<1>1. /\ w # None /\ w.op = "reset" /\ G!Done(c)
      /\ UNCHANGED <<user, invite, pending, mailed, spent, joined>>
  BY DEF G!CompletePasswordReset
<1>2. WorksFit' /\ handling' \in [Client -> G!Work \union {None}]
  BY <1>1, DoneFits
<1>3. request' \in [Request -> G!Open \union {None, Gone}] /\ NoneOpens
  BY <1>1, CountedOpen, ConsumedOpen, SameRequests DEF G!CompletePasswordReset
<1>4. QED BY <1>1, <1>2, <1>3, SameUsers, RequestsClose

LEMMA UserFits ==
    ASSUME WebInv, NEW n \in Name, G!CreateUser(n) \/ G!DeleteUser(n)
    PROVE  WebInv'
<1>1. WorksFit' /\ handling' \in [Client -> G!Work \union {None}]
  BY RowsUnchanged DEF G!CreateUser, G!DeleteUser, WebInv, G!TypeOK
<1>2. CASE G!CreateUser(n)
  <2>1. G!AddressesUnique' /\ user' \in [Name -> Address \union {Unbound, None}]
    BY <1>2, StillUnique, RegistrationAssumption DEF G!CreateUser
  <2>2. QED BY <1>1, <1>2, <2>1, SameRequests, RequestsClose DEF G!CreateUser
<1>3. CASE G!DeleteUser(n)
  <2>1. G!AddressesUnique' /\ user' \in [Name -> Address \union {Unbound, None}]
    BY <1>3, StillUnique, RegistrationAssumption DEF G!DeleteUser
  <2>2. request' \in [Request -> G!Open \union {None, Gone}]
    BY <1>3 DEF G!DeleteUser, WebInv, G!TypeOK
  <2>3. NoneOpens
    BY <1>3 DEF G!DeleteUser, NoneOpens, G!There
  <2>4. QED BY <1>1, <1>3, <2>1, <2>2, <2>3, RequestsClose DEF G!DeleteUser
<1>4. QED BY <1>2, <1>3

\* Registrations that stay are rows of the table, whatever else happens to them.
LEMMA PendingMoves ==
    ASSUME WebInv, pending' \in [Pending -> G!Signup \union {None, Gone}],
           UNCHANGED <<user, invite, mailed, handling, spent, joined>>,
           request' \in [Request -> G!Open \union {None, Gone}], NoneOpens
    PROVE  WebInv'
<1>1. G!TypeOK'
  BY DEF WebInv, G!TypeOK
<1>2. OneOpen'
  BY StillOneOpen
<1>3. G!AddressesUnique'
  BY SameUsers
<1>4. QED BY <1>1, <1>2, <1>3, RowsUnchanged DEF WebInv

LEMMA CleanupFits ==
    ASSUME WebInv, G!Cleanup
    PROVE  WebInv'
<1>1. pending' \in [Pending -> G!Signup \union {None, Gone}]
  BY DEF G!Cleanup, WebInv, G!TypeOK
<1>2. request' \in [Request -> G!Open \union {None, Gone}]
  BY DEF G!Cleanup, WebInv, G!TypeOK
<1>3. NoneOpens
  BY DEF G!Cleanup, NoneOpens, G!There
<1>4. QED BY <1>1, <1>2, <1>3, PendingMoves DEF G!Cleanup

LEMMA PassesFits ==
    ASSUME WebInv, G!Passes
    PROVE  WebInv'
<1>1. UNCHANGED <<user, mailed, handling, spent, joined>>
  BY DEF G!Passes
<1>2. ASSUME NEW i \in Invite, G!Available(i), invite' = [invite EXCEPT ![i] = "late"],
             UNCHANGED <<pending, request>>
      PROVE  WebInv'
  <2>1. SpentIsOver' /\ invite' \in [Invite -> {None, Gone, "open", "used", "revoked", "late"}]
    BY <1>1, <1>2, UnspentIsEmpty, InvitesFit DEF G!Available
  <2>2. QED BY <1>1, <1>2, <2>1, RowsUnchanged
<1>3. ASSUME NEW p \in Pending, G!There(pending, p),
             \/ pending' = [pending EXCEPT ![p].stale = TRUE]
             \/ pending' = [pending EXCEPT ![p].cool = TRUE],
             UNCHANGED <<invite, request>>
      PROVE  WebInv'
  <2>1. pending \in [Pending -> G!Signup \union {None, Gone}]
    BY DEF WebInv, G!TypeOK
  <2>2. PICK x \in G!Signup : x = pending[p]
    BY <1>3, <2>1 DEF G!There
  <2>3. [x EXCEPT !.stale = TRUE] \in G!Signup /\ [x EXCEPT !.cool = TRUE] \in G!Signup
    BY SignupUpdate
  <2>4. pending' \in [Pending -> G!Signup \union {None, Gone}]
    BY <1>3, <2>1, <2>2, <2>3
  <2>5. QED BY <1>1, <1>3, <2>4, SameRequests, PendingMoves
<1>4. ASSUME NEW r \in Request, G!There(request, r), request' = [request EXCEPT ![r].stale = TRUE],
             UNCHANGED <<invite, pending>>
      PROVE  WebInv'
  <2>1. request \in [Request -> G!Open \union {None, Gone}]
    BY DEF WebInv, G!TypeOK
  <2>2. PICK x \in G!Open : x = request[r]
    BY <1>4, <2>1 DEF G!There
  <2>3. /\ [x EXCEPT !.stale = TRUE] \in G!Open
        /\ [x EXCEPT !.stale = TRUE].user = x.user
        /\ [x EXCEPT !.stale = TRUE].purpose = x.purpose
        /\ [x EXCEPT !.stale = TRUE].consumed = x.consumed
    BY OpenUpdate
  <2>4. request' = [request EXCEPT ![r] = [x EXCEPT !.stale = TRUE]]
    BY <1>4, <2>1, <2>2
  <2>5. request' \in [Request -> G!Open \union {None, Gone}]
    BY <2>1, <2>3, <2>4
  <2>6. \A q \in Request : request'[q] = IF q = r THEN [x EXCEPT !.stale = TRUE] ELSE request[q]
    BY <2>1, <2>4
  <2>7. NoneOpens
    BY <1>4, <2>2, <2>3, <2>6 DEF NoneOpens, G!There
  <2>8. pending' \in [Pending -> G!Signup \union {None, Gone}]
    BY <1>4 DEF WebInv, G!TypeOK
  <2>9. QED BY <1>1, <1>4, <2>5, <2>7, <2>8, PendingMoves
<1>5. QED BY <1>2, <1>3, <1>4 DEF G!Passes

-----------------------------------------------------------------------------
(* The invariant *)

LEMMA WebInitFits == G!Init => WebInv
<1> SUFFICES ASSUME G!Init PROVE WebInv
  OBVIOUS
<1>1. G!TypeOK
  BY DEF G!Init, G!TypeOK
<1>2. WorksFit /\ MailsNumbered /\ SpentIsOver
  BY RegistrationAssumption DEF G!Init, WorksFit, MailsNumbered, SpentIsOver
<1>3. OneOpen
  BY DEF G!Init, OneOpen, G!There
<1>4. G!AddressesUnique
  BY DEF G!Init, G!AddressesUnique, G!Registered
<1>5. QED BY <1>1, <1>2, <1>3, <1>4 DEF WebInv

LEMMA WebNextFits == WebInv /\ [G!Next]_webVars => WebInv'
<1> SUFFICES ASSUME WebInv, [G!Next]_webVars PROVE WebInv'
  OBVIOUS
<1>1. CASE G!Invited \/ (\E i \in Invite : G!Revoke(i) \/ G!DeleteInvite(i))
  BY <1>1, InvitationFits
<1>2. CASE \E n \in Name, a \in Address, i \in Invite : G!StartRegistration(n, a, i)
  BY <1>2, StartFits
<1>3. ASSUME NEW c \in Client,
             \/ \E p \in Pending : G!Read(c, p)
             \/ \E r \in Request : G!ReadRequest(c, r)
             \/ G!Verify(c) \/ G!Resend(c) \/ G!VerifyBinding(c) \/ G!CompletePasswordReset(c)
      PROVE  WebInv'
  BY <1>3, ReadFits, ReadRequestFits, VerifyFits, ResendFits, VerifyBindingFits, CompleteFits
<1>4. ASSUME NEW a \in Address, G!StartPasswordReset(a) \/ (\E n \in Name : G!StartBinding(n, a))
      PROVE  WebInv'
  BY <1>4, RequestFits
<1>5. CASE (\E n \in Name : G!CreateUser(n) \/ G!DeleteUser(n)) \/ G!Cleanup \/ G!Passes
  BY <1>5, UserFits, CleanupFits, PassesFits
<1>6. CASE UNCHANGED webVars
  <2>1. G!TypeOK'
    BY <1>6 DEF webVars, WebInv, G!TypeOK
  <2>2. QED BY <1>6, <2>1, RowsUnchanged DEF webVars, WebInv
<1>7. QED BY <1>1, <1>2, <1>3, <1>4, <1>5, <1>6 DEF G!Next

LEMMA WebInvariance == Spec => []WebInv
<1>1. Init => WebInv
  BY WebInitFits DEF Init
<1>2. [Next]_vars => [G!Next]_webVars
  BY DEF Next, vars, Web, Auth, Mails, Sending
<1>3. WebInv /\ [Next]_vars => WebInv'
  BY <1>2, WebNextFits
<1>4. QED BY <1>1, <1>3, PTL DEF Spec

-----------------------------------------------------------------------------
(* The theorems *)

\* Mails that are numbered by the limit are no more than the limit.
LEMMA MailsCounted ==
    ASSUME MailsNumbered, NEW p \in Pending
    PROVE  Cardinality({m \in mailed : m[1] = p}) <= MaxSends
<1> DEFINE S == {m \in mailed : m[1] = p}
           f == [m \in S |-> m[2]]
<1>1. \A m \in S : m = <<p, m[2]>> /\ m[2] \in 1 .. MaxSends
  BY DEF MailsNumbered
<1>2. f \in Injection(S, 1 .. MaxSends)
  <2>1. f \in [S -> 1 .. MaxSends]
    BY <1>1
  <2>2. \A x, y \in S : f[x] = f[y] => x = y
    BY <1>1
  <2>3. QED BY <2>1, <2>2 DEF Injection, IsInjective
<1>3. IsFiniteSet(1 .. MaxSends) /\ Cardinality(1 .. MaxSends) = MaxSends
  BY FS_Interval, RegistrationAssumption
<1>4. Cardinality(S) <= Cardinality(1 .. MaxSends)
  BY <1>2, <1>3, FS_Injection
<1>5. QED BY <1>3, <1>4

\* No address is ever two users', for any number of users and of handlers that
\* overlap between reading a row and committing.
THEOREM AddressOfOneUser == Spec => []AddressesUnique
<1>1. WebInv => AddressesUnique
  BY DEF WebInv, AddressesUnique
<1>2. QED BY <1>1, WebInvariance, PTL

\* An invitation is consumed for one registration at most, in the commit that
\* creates its user, and never once it was revoked or has expired, for any number
\* of registrations that wait for it.
THEOREM InvitationSpentOnce == Spec => []InviteSpentOnce
<1>1. WebInv => InviteSpentOnce
  <2> SUFFICES ASSUME WebInv, NEW i \in Invite
               PROVE  /\ Cardinality(spent[i]) <= 1
                      /\ invite[i] = "used" => spent[i] # {}
                      /\ invite[i] \in {"open", "revoked", "late"} => spent[i] = {}
    BY SameCount DEF InviteSpentOnce, G!InviteSpentOnce
  <2>1. CASE spent[i] = {} /\ invite[i] # "used"
    BY <2>1, FS_EmptySet
  <2>2. ASSUME NEW p \in Pending, spent[i] = {p}, invite[i] \in {"used", Gone}
        PROVE  /\ Cardinality(spent[i]) <= 1 /\ spent[i] # {}
               /\ invite[i] \notin {"open", "revoked", "late"}
    <3>1. invite[i] \notin {"open", "revoked", "late"}
      BY <2>2, RegistrationAssumption
    <3>2. Cardinality(spent[i]) = 1
      BY <2>2, FS_Singleton
    <3>3. QED BY <2>2, <3>1, <3>2
  <2>3. QED BY <2>1, <2>2 DEF WebInv, SpentIsOver
<1>2. QED BY <1>1, WebInvariance, PTL

\* The rows are what they are declared to be, a user has at most one open request
\* of each purpose, and a registration is sent at most MaxSends mails.
THEOREM RequestsAndMailsBounded == Spec => []RequestsBounded
<1>1. WebInv => RequestsBounded
  BY MailsCounted, SameCount DEF WebInv, OneOpen, RequestsBounded, G!RequestsBounded
<1>2. QED BY <1>1, WebInvariance, PTL

-----------------------------------------------------------------------------
(* The notifier: the inductive invariant *)

LEMMA OutboxAssumption ==
    /\ Delays \in Nat /\ MaxTries \in Nat /\ MaxMailFaults \in Nat /\ Delays <= MaxTries
    /\ None # Gone /\ None \notin Event
    /\ None \notin O!Mail /\ Gone \notin O!Mail
BY ConsoleAssumption DEF O!ConstantsFit

\* A mail is in the hands of a notifier exactly while it sends or marks it.
HandsFit ==
    \A w \in Notifier : /\ at[w] \in {"sending", "marking"} => doing[w] \in Event
                        /\ at[w] \in {"down", "idle"} => doing[w] = None

\* The provider knows one key of each mail, and whoever was told of success was
\* told the truth.
ProviderKnows ==
    /\ \A e \in Event : accepted[e] \subseteq {O!Key(e)}
    /\ \A w \in Notifier : at[w] = "marking" /\ answer[w] = "success" => accepted[doing[w]] # {}

\* The attempts at a mail beyond those the code and the administrator order are
\* paid for with faults: of a row in work as soon as nobody works on it, or too
\* slowly.  A mail recorded as sent was sent, and erased.
MailFits(r, alone, counted, taken) ==
    /\ r.status = "pending" => r.tries <= MaxTries + counted
    /\ r.status = "sending" => r.tries <= MaxTries + counted + 1
    /\ r.status = "sending" /\ (r.stale \/ alone) => r.tries <= MaxTries + counted
    /\ r.status = "sent" <=> ~r.payload
    /\ r.status = "sent" => taken # {}

There(e) == event[e] \notin {None, Gone}
Alone(e) == \A w \in Notifier : doing[w] # e

MailsFit == \A e \in Event : There(e) => MailFits(event[e], Alone(e), mailFaults, accepted[e])

MailInv == O!TypeOK /\ HandsFit /\ ProviderKnows /\ MailsFit

-----------------------------------------------------------------------------
(* Rows of mails *)

LEMMA MailFields ==
    ASSUME NEW r \in O!Mail
    PROVE  /\ r # None /\ r # Gone
           /\ r.status \in {"pending", "sending", "sent", "failed"}
           /\ r.tries \in Nat /\ r.tries <= MaxTries + MaxMailFaults + 1
           /\ r.due \in BOOLEAN /\ r.stale \in BOOLEAN /\ r.payload \in BOOLEAN
BY OutboxAssumption DEF O!Mail

\* What each update of a row leaves alone.
LEMMA MailRecovered ==
    ASSUME NEW r \in O!Mail
    PROVE  LET q == [r EXCEPT !.status = "pending", !.due = TRUE, !.stale = FALSE]
           IN  /\ q \in O!Mail /\ q.status = "pending" /\ q.tries = r.tries
               /\ q.due = TRUE /\ q.payload = r.payload
BY DEF O!Mail

LEMMA MailRetried ==
    ASSUME NEW r \in O!Mail
    PROVE  LET q == [r EXCEPT !.status = "pending", !.due = TRUE]
           IN  /\ q \in O!Mail /\ q.status = "pending" /\ q.tries = r.tries
               /\ q.payload = r.payload
BY DEF O!Mail

LEMMA MailTimed ==
    ASSUME NEW r \in O!Mail
    PROVE  /\ LET q == [r EXCEPT !.due = TRUE]
              IN  /\ q \in O!Mail /\ q.status = r.status /\ q.tries = r.tries
                  /\ q.stale = r.stale /\ q.payload = r.payload
           /\ LET q == [r EXCEPT !.stale = TRUE]
              IN  /\ q \in O!Mail /\ q.status = r.status /\ q.tries = r.tries
                  /\ q.stale = TRUE /\ q.payload = r.payload
BY DEF O!Mail

LEMMA MailClaimed ==
    ASSUME NEW r \in O!Mail, r.tries <= MaxTries + MaxMailFaults
    PROVE  LET q == [r EXCEPT !.status = "sending", !.tries = r.tries + 1, !.stale = FALSE]
           IN  /\ q \in O!Mail /\ q.status = "sending" /\ q.tries = r.tries + 1
               /\ q.stale = FALSE /\ q.payload = r.payload
<1>1. r.tries + 1 \in 0 .. MaxTries + MaxMailFaults + 1
  BY MailFields, OutboxAssumption
<1>2. QED BY <1>1 DEF O!Mail

\* mark_sent and mark_failed: a mail that is tried again has tries left.
LEMMA MailMarked ==
    ASSUME NEW r \in O!Mail, NEW a \in {"success", "retry", "reject"}, r.status = "sending", r.payload
    PROVE  /\ O!Marked(r, a) \in O!Mail
           /\ O!Marked(r, a).status \in {"sent", "pending", "failed"}
           /\ O!Marked(r, a).status = "sent" <=> a = "success"
           /\ O!Marked(r, a).status = "sent" <=> ~O!Marked(r, a).payload
           /\ O!Marked(r, a).status = "pending" => O!Marked(r, a).tries <= MaxTries
<1>1. CASE a = "success"
  BY <1>1 DEF O!Marked, O!Mail
<1>2. CASE a = "retry" /\ r.tries - 1 < Delays
  <2>1. O!Marked(r, a) = [r EXCEPT !.status = "pending", !.due = FALSE, !.stale = FALSE]
    BY <1>2 DEF O!Marked, O!Failed
  <2>2. r.tries <= MaxTries
    BY <1>2, MailFields, OutboxAssumption
  <2>3. QED BY <1>2, <2>1, <2>2 DEF O!Mail
<1>3. CASE a # "success" /\ ~(a = "retry" /\ r.tries - 1 < Delays)
  <2>1. O!Marked(r, a) = [r EXCEPT !.status = "failed", !.stale = FALSE]
    BY <1>3 DEF O!Marked, O!Failed
  <2>2. QED BY <1>3, <2>1 DEF O!Mail
<1>4. QED BY <1>1, <1>2, <1>3

-----------------------------------------------------------------------------
(* The steps of mails *)

\* One row is written, by somebody else than a notifier.
LEMMA OneMailFits ==
    ASSUME MailInv, NEW e \in Event, NEW r \in O!Mail \union {Gone},
           event' = [event EXCEPT ![e] = r],
           mailFaults' \in 0 .. MaxMailFaults, mailFaults <= mailFaults',
           UNCHANGED <<at, doing, answer, accepted>>, paused' \in BOOLEAN,
           r # Gone => MailFits(r, Alone(e), mailFaults', accepted[e])
    PROVE  MailInv'
<1>1. event \in [Event -> O!Mail \union {None, Gone}] /\ mailFaults \in 0 .. MaxMailFaults
  BY DEF MailInv, O!TypeOK
<1>2. \A f \in Event : event'[f] = IF f = e THEN r ELSE event[f]
  BY <1>1
<1>3. O!TypeOK'
  BY <1>1 DEF MailInv, O!TypeOK
<1>4. HandsFit' /\ ProviderKnows'
  BY DEF MailInv, HandsFit, ProviderKnows, O!Key
<1>5. MailsFit'
  <2> SUFFICES ASSUME NEW f \in Event, There(f)'
               PROVE  MailFits(event'[f], Alone(f), mailFaults', accepted[f])
    BY DEF MailsFit, Alone
  <2>1. CASE f = e
    BY <1>2, <2>1 DEF There
  <2>2. CASE f # e
    <3>1. event'[f] = event[f] /\ event[f] \in O!Mail
      BY <1>1, <1>2, <2>2 DEF There
    <3>2. PICK x \in O!Mail : x = event[f]
      BY <3>1
    <3>3. MailFits(x, Alone(f), mailFaults, accepted[f])
      BY <3>1, <3>2 DEF MailInv, MailsFit, There
    <3>4. x.tries \in Nat
      BY MailFields
    <3>5. QED BY <1>1, <3>1, <3>2, <3>3, <3>4, OutboxAssumption DEF MailFits
  <2>3. QED BY <2>1, <2>2
<1>6. QED BY <1>3, <1>4, <1>5 DEF MailInv

LEMMA MailConsoleFits ==
    ASSUME MailInv, NEW e \in Event, O!Enqueue(e) \/ O!DeleteUser(e) \/ O!RetryFailed(e)
    PROVE  MailInv'
<1>1. /\ event \in [Event -> O!Mail \union {None, Gone}] /\ mailFaults \in 0 .. MaxMailFaults
      /\ paused \in BOOLEAN
  BY DEF MailInv, O!TypeOK
<1>2. UNCHANGED <<at, doing, answer, accepted, paused, mailFaults>>
  BY DEF O!Enqueue, O!DeleteUser, O!RetryFailed, O!notifier
<1>3. mailFaults' \in 0 .. MaxMailFaults /\ mailFaults <= mailFaults' /\ paused' \in BOOLEAN
  BY <1>1, <1>2, OutboxAssumption
<1>4. CASE O!Enqueue(e)
  <2> DEFINE r == [status |-> "pending", tries |-> 0, due |-> TRUE, stale |-> FALSE, payload |-> TRUE]
  <2>1. r \in O!Mail
    BY OutboxAssumption DEF O!Mail
  <2>2. r.status = "pending" /\ r.tries = 0 /\ r.payload
    OBVIOUS
  <2>3. event' = [event EXCEPT ![e] = r]
    BY <1>4 DEF O!Enqueue
  <2> HIDE DEF r
  <2>4. ASSUME NEW f \in 0 .. MaxMailFaults PROVE MailFits(r, Alone(e), f, accepted[e])
    BY <2>2, OutboxAssumption DEF MailFits
  <2>5. QED BY <1>2, <1>3, <2>1, <2>3, <2>4, OneMailFits
<1>5. CASE O!DeleteUser(e)
  BY <1>2, <1>3, <1>5, OneMailFits DEF O!DeleteUser
<1>6. CASE O!RetryFailed(e)
  <2>1. PICK x \in O!Mail : x = event[e]
    BY <1>1, <1>6 DEF O!RetryFailed, O!Is
  <2> DEFINE r == [x EXCEPT !.status = "pending", !.due = TRUE]
  <2>2. r \in O!Mail /\ r.status = "pending" /\ r.tries = x.tries /\ r.payload = x.payload
    BY MailRetried
  <2>3. x.tries \in Nat /\ x.tries < MaxTries /\ x.status = "failed" /\ x.payload \in BOOLEAN
    BY <1>6, <2>1, MailFields DEF O!RetryFailed, O!Is
  <2>4. MailFits(x, Alone(e), mailFaults, accepted[e])
    BY <1>6, <2>1 DEF O!RetryFailed, O!Is, MailInv, MailsFit, There
  <2>5. event' = [event EXCEPT ![e] = r]
    BY <1>1, <1>6, <2>1 DEF O!RetryFailed
  <2> HIDE DEF r
  <2>6. MailFits(r, Alone(e), mailFaults', accepted[e])
    BY <1>1, <1>3, <2>2, <2>3, <2>4, OutboxAssumption DEF MailFits
  <2>7. QED BY <1>2, <1>3, <2>2, <2>5, <2>6, OneMailFits
<1>7. QED BY <1>4, <1>5, <1>6

\* Time passes.  A claim that a notifier outlives costs a fault.
LEMMA MailTimeFits ==
    ASSUME MailInv, NEW e \in Event, O!Due(e) \/ O!Stale(e)
    PROVE  MailInv'
<1>1. /\ event \in [Event -> O!Mail \union {None, Gone}] /\ mailFaults \in 0 .. MaxMailFaults
      /\ paused \in BOOLEAN
  BY DEF MailInv, O!TypeOK
<1>2. UNCHANGED <<at, doing, answer, accepted, paused>>
  BY DEF O!Due, O!Stale, O!notifier
<1>3. PICK x \in O!Mail : x = event[e]
  BY <1>1 DEF O!Due, O!Stale, O!Is
<1>4. x.tries \in Nat /\ There(e)
  BY <1>3, MailFields DEF There
<1>5. MailFits(x, Alone(e), mailFaults, accepted[e])
  BY <1>3, <1>4 DEF MailInv, MailsFit
<1>6. CASE O!Due(e)
  <2> DEFINE r == [x EXCEPT !.due = TRUE]
  <2>1. /\ r \in O!Mail /\ r.status = x.status /\ r.tries = x.tries
        /\ r.stale = x.stale /\ r.payload = x.payload
    BY MailTimed
  <2>2. event' = [event EXCEPT ![e] = r] /\ UNCHANGED mailFaults
    BY <1>1, <1>3, <1>6 DEF O!Due
  <2> HIDE DEF r
  <2>3. MailFits(r, Alone(e), mailFaults', accepted[e])
    BY <1>5, <2>1, <2>2 DEF MailFits
  <2>4. mailFaults' \in 0 .. MaxMailFaults /\ mailFaults <= mailFaults' /\ paused' \in BOOLEAN
    BY <1>1, <1>2, <2>2, OutboxAssumption
  <2>5. QED BY <1>2, <2>1, <2>2, <2>3, <2>4, OneMailFits
<1>7. CASE O!Stale(e)
  <2> DEFINE r == [x EXCEPT !.stale = TRUE]
  <2>1. /\ r \in O!Mail /\ r.status = x.status /\ r.tries = x.tries
        /\ r.stale = TRUE /\ r.payload = x.payload
    BY MailTimed
  <2>2. event' = [event EXCEPT ![e] = r]
    BY <1>1, <1>3, <1>7 DEF O!Stale
  <2> HIDE DEF r
  <2>3. /\ IF Alone(e) THEN mailFaults' = mailFaults
           ELSE mailFaults < MaxMailFaults /\ mailFaults' = mailFaults + 1
        /\ x.status = "sending"
    BY <1>3, <1>7 DEF O!Stale, O!Faulted, Alone, O!Is
  <2>4. mailFaults' \in 0 .. MaxMailFaults /\ mailFaults <= mailFaults' /\ paused' \in BOOLEAN
    BY <1>1, <1>2, <2>3, OutboxAssumption
  <2>5. MailFits(r, Alone(e), mailFaults', accepted[e])
    BY <1>1, <1>4, <1>5, <2>1, <2>3, OutboxAssumption DEF MailFits
  <2>6. QED BY <1>2, <2>1, <2>2, <2>4, <2>5, OneMailFits
<1>8. QED BY <1>6, <1>7

\* A claim that is taken back has its fault counted.
LEMMA RecoveredMailFits ==
    ASSUME MailInv, NEW e \in Event
    PROVE  /\ O!StaleRecovered[e] \in O!Mail \union {None, Gone}
           /\ ~There(e) => O!StaleRecovered[e] = event[e]
           /\ There(e) => /\ O!StaleRecovered[e] \in O!Mail
                          /\ MailFits(O!StaleRecovered[e], Alone(e), mailFaults, accepted[e])
<1>1. event \in [Event -> O!Mail \union {None, Gone}]
  BY DEF MailInv, O!TypeOK
<1>2. O!StaleRecovered[e] = IF O!Is(e, "sending") /\ event[e].stale
                            THEN [event[e] EXCEPT !.status = "pending", !.due = TRUE, !.stale = FALSE]
                            ELSE event[e]
  BY DEF O!StaleRecovered
<1>3. CASE ~There(e)
  BY <1>1, <1>2, <1>3 DEF There, O!Is
<1>4. CASE There(e)
  <2>1. PICK x \in O!Mail : x = event[e]
    BY <1>1, <1>4 DEF There
  <2>2. MailFits(x, Alone(e), mailFaults, accepted[e])
    BY <1>4, <2>1 DEF MailInv, MailsFit
  <2>3. x.tries \in Nat
    BY MailFields
  <2>4. CASE x.status = "sending" /\ x.stale
    <3> DEFINE q == [x EXCEPT !.status = "pending", !.due = TRUE, !.stale = FALSE]
    <3>1. /\ q \in O!Mail /\ q.status = "pending" /\ q.tries = x.tries
          /\ q.due = TRUE /\ q.payload = x.payload
      BY MailRecovered
    <3>2. O!StaleRecovered[e] = q
      BY <1>2, <1>4, <2>1, <2>4 DEF O!Is, There
    <3> HIDE DEF q
    <3>3. MailFits(q, Alone(e), mailFaults, accepted[e])
      BY <2>2, <2>4, <3>1 DEF MailFits
    <3>4. QED BY <1>4, <3>1, <3>2, <3>3
  <2>5. CASE ~(x.status = "sending" /\ x.stale)
    <3>1. O!StaleRecovered[e] = x
      BY <1>2, <1>4, <2>1, <2>5 DEF O!Is, There
    <3>2. QED BY <1>4, <2>2, <3>1
  <2>6. QED BY <2>4, <2>5
<1>5. QED BY <1>3, <1>4

LEMMA MailClaimFits ==
    ASSUME MailInv, NEW w \in Notifier, O!Claim(w)
    PROVE  MailInv'
<1> DEFINE table == O!StaleRecovered
<1>1. /\ event \in [Event -> O!Mail \union {None, Gone}] /\ mailFaults \in 0 .. MaxMailFaults
      /\ at \in [Notifier -> {"down", "idle", "sending", "marking"}]
      /\ doing \in [Notifier -> Event \union {None}]
  BY DEF MailInv, O!TypeOK
<1>2. at[w] = "idle" /\ doing[w] = None /\ UNCHANGED <<paused, answer, accepted, mailFaults>>
  BY DEF O!Claim, MailInv, HandsFit
<1>3. table = [e \in Event |-> table[e]] /\ \A e \in Event : table[e] \in O!Mail \union {None, Gone}
  BY RecoveredMailFits DEF O!StaleRecovered
<1>4. CASE event' = table /\ UNCHANGED <<at, doing>>
  <2>1. O!TypeOK'
    BY <1>2, <1>3, <1>4 DEF MailInv, O!TypeOK
  <2>2. HandsFit' /\ ProviderKnows'
    BY <1>2, <1>4 DEF MailInv, HandsFit, ProviderKnows, O!Key
  <2>3. MailsFit'
    <3> SUFFICES ASSUME NEW e \in Event, There(e)'
                 PROVE  MailFits(table[e], Alone(e), mailFaults, accepted[e])
      BY <1>2, <1>4 DEF MailsFit, Alone
    <3>1. There(e)
      BY <1>4, RecoveredMailFits DEF There
    <3>2. QED BY <3>1, RecoveredMailFits
  <2>4. QED BY <2>1, <2>2, <2>3 DEF MailInv
<1>5. ASSUME NEW e \in Event, table[e] \notin {None, Gone}, table[e].status = "pending",
             event' = [table EXCEPT ![e].status = "sending", ![e].tries = @ + 1, ![e].stale = FALSE],
             at' = [at EXCEPT ![w] = "sending"], doing' = [doing EXCEPT ![w] = e]
      PROVE  MailInv'
  <2>1. There(e)
    BY <1>5, RecoveredMailFits DEF There
  <2>2. PICK x \in O!Mail : x = table[e]
    BY <2>1, RecoveredMailFits
  <2>3. MailFits(x, Alone(e), mailFaults, accepted[e])
    BY <2>1, <2>2, RecoveredMailFits
  <2>4. x.tries \in Nat /\ x.status = "pending" /\ x.payload \in BOOLEAN
    BY <1>5, <2>2, MailFields
  <2>5. x.tries <= MaxTries + mailFaults /\ x.payload
    BY <2>3, <2>4 DEF MailFits
  <2>6. x.tries <= MaxTries + MaxMailFaults
    BY <1>1, <2>4, <2>5, OutboxAssumption
  <2> DEFINE q == [x EXCEPT !.status = "sending", !.tries = x.tries + 1, !.stale = FALSE]
  <2>7. /\ q \in O!Mail /\ q.status = "sending" /\ q.tries = x.tries + 1
        /\ q.stale = FALSE /\ q.payload = x.payload
    BY <2>6, MailClaimed
  <2> HIDE DEF table
  <2>8. event' = [table EXCEPT ![e] = q]
    BY <1>3, <1>5, <2>2
  <2> HIDE DEF q
  <2>9. \A f \in Event : event'[f] = IF f = e THEN q ELSE table[f]
    BY <1>3, <2>8
  <2>10. event' \in [Event -> O!Mail \union {None, Gone}]
    BY <1>3, <2>7, <2>8
  <2>11. O!TypeOK'
    BY <1>1, <1>2, <1>5, <2>10 DEF MailInv, O!TypeOK
  <2>12. HandsFit' /\ ProviderKnows'
    BY <1>1, <1>2, <1>5 DEF MailInv, HandsFit, ProviderKnows, O!Key
  <2>13. MailsFit'
    <3> SUFFICES ASSUME NEW f \in Event, There(f)'
                 PROVE  MailFits(event'[f], Alone(f)', mailFaults, accepted[f])
      BY <1>2 DEF MailsFit
    <3>1. CASE f = e
      <4>1. event'[f] = q /\ ~Alone(f)'
        BY <1>1, <1>5, <2>9, <3>1 DEF Alone
      <4>2. \A n, m \in Nat : n <= MaxTries + m => n + 1 <= MaxTries + m + 1
        BY OutboxAssumption
      <4>3. q.tries <= MaxTries + mailFaults + 1
        BY <1>1, <2>4, <2>5, <2>7, <4>2, OutboxAssumption
      <4>4. QED BY <2>5, <2>7, <4>1, <4>3 DEF MailFits
    <3>2. CASE f # e
      <4>1. event'[f] = table[f]
        BY <2>9, <3>2
      <4>2. There(f) /\ MailFits(table[f], Alone(f), mailFaults, accepted[f])
        BY <4>1, RecoveredMailFits DEF There, table
      <4>3. Alone(f)' <=> Alone(f)
        BY <1>1, <1>2, <1>5, <3>2, OutboxAssumption DEF Alone
      <4>4. QED BY <4>1, <4>2, <4>3 DEF MailFits
    <3>3. QED BY <3>1, <3>2
  <2>14. QED BY <2>11, <2>12, <2>13 DEF MailInv
<1>6. QED BY <1>4, <1>5 DEF O!Claim

LEMMA MailSendFits ==
    ASSUME MailInv, NEW w \in Notifier, O!Send(w)
    PROVE  MailInv'
<1> DEFINE e == doing[w]
<1>1. /\ event \in [Event -> O!Mail \union {None, Gone}]
      /\ at \in [Notifier -> {"down", "idle", "sending", "marking"}]
      /\ doing \in [Notifier -> Event \union {None}]
      /\ answer \in [Notifier -> {"success", "retry", "reject"}]
      /\ accepted \in [Event -> SUBSET (Event \X Nat)]
  BY DEF MailInv, O!TypeOK
<1>2. /\ at[w] = "sending" /\ at' = [at EXCEPT ![w] = "marking"] /\ e \in Event
      /\ UNCHANGED <<event, paused, doing, mailFaults>>
  BY DEF O!Send, MailInv, HandsFit
<1>3. /\ accepted' \in [Event -> SUBSET (Event \X Nat)]
      /\ \A f \in Event : accepted[f] \subseteq accepted'[f] /\ accepted'[f] \subseteq {O!Key(f)}
  <2>1. O!Key(e) \in Event \X Nat
    BY <1>2 DEF O!Key
  <2>2. \A f \in Event : accepted[f] \subseteq {O!Key(f)}
    BY DEF MailInv, ProviderKnows
  <2>3. CASE accepted' = [accepted EXCEPT ![e] = @ \union {O!Key(e)}]
    <3>1. \A f \in Event : accepted'[f] = IF f = e THEN accepted[f] \union {O!Key(f)} ELSE accepted[f]
      BY <1>1, <2>3
    <3>2. accepted' \in [Event -> SUBSET (Event \X Nat)]
      BY <1>1, <1>2, <2>1, <2>3
    <3>3. QED BY <2>2, <3>1, <3>2
  <2>4. CASE UNCHANGED accepted
    BY <1>1, <2>2, <2>4
  <2>5. QED BY <2>3, <2>4 DEF O!Send
<1>4. /\ answer' \in [Notifier -> {"success", "retry", "reject"}]
      /\ \A v \in Notifier : v # w => answer'[v] = answer[v]
      /\ answer'[w] = "success" => accepted'[e] # {}
  BY <1>1, <1>2 DEF O!Send
<1>5. O!TypeOK'
  BY <1>1, <1>2, <1>3, <1>4 DEF MailInv, O!TypeOK
<1>6. HandsFit'
  BY <1>1, <1>2 DEF MailInv, HandsFit
<1>7. ProviderKnows'
  <2>1. ASSUME NEW v \in Notifier, at'[v] = "marking", answer'[v] = "success"
        PROVE  accepted'[doing'[v]] # {}
    <3>1. CASE v = w
      BY <1>2, <1>4, <2>1, <3>1
    <3>2. CASE v # w
      <4>1. at[v] = "marking" /\ answer[v] = "success"
        BY <1>1, <1>2, <1>4, <2>1, <3>2
      <4>2. accepted[doing[v]] # {} /\ doing[v] \in Event
        BY <4>1 DEF MailInv, ProviderKnows, HandsFit
      <4>3. QED BY <1>2, <1>3, <4>2
    <3>3. QED BY <3>1, <3>2
  <2>2. QED BY <1>3, <2>1 DEF ProviderKnows, O!Key
<1>8. MailsFit'
  <2> SUFFICES ASSUME NEW f \in Event, There(f)
               PROVE  MailFits(event[f], Alone(f), mailFaults, accepted'[f])
    BY <1>2 DEF MailsFit, There, Alone
  <2>1. MailFits(event[f], Alone(f), mailFaults, accepted[f])
    BY DEF MailInv, MailsFit
  <2>2. QED BY <1>3, <2>1 DEF MailFits
<1>9. QED BY <1>5, <1>6, <1>7, <1>8 DEF MailInv

\* Whoever marks a row, what it was told is true of the mail.
LEMMA MailMarkFits ==
    ASSUME MailInv, NEW w \in Notifier, O!Mark(w)
    PROVE  MailInv'
<1> DEFINE e == doing[w]
<1>1. /\ event \in [Event -> O!Mail \union {None, Gone}] /\ mailFaults \in 0 .. MaxMailFaults
      /\ at \in [Notifier -> {"down", "idle", "sending", "marking"}]
      /\ doing \in [Notifier -> Event \union {None}]
      /\ answer \in [Notifier -> {"success", "retry", "reject"}]
  BY DEF MailInv, O!TypeOK
<1>2. /\ at[w] = "marking" /\ doing' = [doing EXCEPT ![w] = None] /\ e \in Event
      /\ UNCHANGED <<paused, answer, accepted, mailFaults>>
  BY DEF O!Mark, MailInv, HandsFit
<1>3. answer[w] = "success" => accepted[e] # {}
  BY <1>2 DEF MailInv, ProviderKnows
<1>4. PICK p \in {"idle", "down"} : at' = [at EXCEPT ![w] = p]
  BY DEF O!Mark
<1>5. HandsFit' /\ ProviderKnows'
  BY <1>1, <1>2, <1>4 DEF MailInv, HandsFit, ProviderKnows, O!Key
<1>6. \A f \in Event : f # e => (Alone(f)' <=> Alone(f))
  BY <1>1, <1>2, OutboxAssumption DEF Alone
<1>7. \A f \in Event : There(f) => MailFits(event[f], Alone(f), mailFaults, accepted[f])
  BY DEF MailInv, MailsFit
<1>8. CASE O!Markable(e)
  <2>1. PICK x \in O!Mail : x = event[e]
    BY <1>1, <1>2, <1>8 DEF O!Markable, O!Is
  <2>2. x.status = "sending" /\ There(e) /\ x.payload \in BOOLEAN
    BY <1>8, <2>1, MailFields DEF O!Markable, O!Is, There
  <2>3. MailFits(x, Alone(e), mailFaults, accepted[e])
    BY <1>2, <1>7, <2>1, <2>2
  <2>4. x.payload
    BY <2>2, <2>3 DEF MailFits
  <2> DEFINE q == O!Marked(x, answer[w])
  <2>5. /\ q \in O!Mail /\ q.status \in {"sent", "pending", "failed"}
        /\ q.status = "sent" <=> answer[w] = "success"
        /\ q.status = "sent" <=> ~q.payload
        /\ q.status = "pending" => q.tries <= MaxTries
    BY <1>1, <2>2, <2>4, MailMarked
  <2>6. event' = [event EXCEPT ![e] = q]
    BY <1>8, <2>1 DEF O!Mark
  <2> HIDE DEF q
  <2>7. \A f \in Event : event'[f] = IF f = e THEN q ELSE event[f]
    BY <1>1, <2>6
  <2>8. O!TypeOK'
    BY <1>1, <1>2, <1>4, <2>5, <2>6 DEF MailInv, O!TypeOK
  <2>9. MailsFit'
    <3> SUFFICES ASSUME NEW f \in Event, There(f)'
                 PROVE  MailFits(event'[f], Alone(f)', mailFaults, accepted[f])
      BY <1>2 DEF MailsFit
    <3>1. CASE f = e
      <4>1. q.tries \in Nat
        BY <2>5, MailFields
      <4>2. \A n, m \in Nat : n <= MaxTries => n <= MaxTries + m
        BY OutboxAssumption
      <4>3. q.status = "pending" => q.tries <= MaxTries + mailFaults
        BY <1>1, <2>5, <4>1, <4>2, OutboxAssumption
      <4>4. event'[f] = q
        BY <2>7, <3>1
      <4>5. QED BY <1>3, <2>5, <3>1, <4>3, <4>4 DEF MailFits
    <3>2. CASE f # e
      <4>1. event'[f] = event[f] /\ There(f)
        BY <2>7, <3>2 DEF There
      <4>2. QED BY <1>6, <1>7, <3>2, <4>1 DEF MailFits
    <3>3. QED BY <3>1, <3>2
  <2>10. QED BY <1>5, <2>8, <2>9 DEF MailInv
<1>9. CASE ~O!Markable(e)
  <2>1. UNCHANGED event
    BY <1>9 DEF O!Mark
  <2>2. O!TypeOK'
    BY <1>1, <1>2, <1>4, <2>1 DEF MailInv, O!TypeOK
  <2>3. MailsFit'
    <3> SUFFICES ASSUME NEW f \in Event, There(f)
                 PROVE  MailFits(event[f], Alone(f)', mailFaults, accepted[f])
      BY <1>2, <2>1 DEF MailsFit, There
    <3>1. CASE f = e
      BY <1>7, <1>9, <3>1 DEF MailFits, O!Markable, O!Is, There
    <3>2. CASE f # e
      BY <1>6, <1>7, <3>2 DEF MailFits
    <3>3. QED BY <3>1, <3>2
  <2>4. QED BY <1>5, <2>2, <2>3 DEF MailInv
<1>10. QED BY <1>8, <1>9

\* The death of a notifier pays for the attempt it leaves behind.
LEMMA MailCrashFits ==
    ASSUME MailInv, NEW w \in Notifier, O!Crash(w)
    PROVE  MailInv'
<1>1. /\ event \in [Event -> O!Mail \union {None, Gone}] /\ mailFaults \in 0 .. MaxMailFaults
      /\ at \in [Notifier -> {"down", "idle", "sending", "marking"}]
      /\ doing \in [Notifier -> Event \union {None}]
  BY DEF MailInv, O!TypeOK
<1>2. /\ at' = [at EXCEPT ![w] = "down"] /\ doing' = [doing EXCEPT ![w] = None]
      /\ mailFaults < MaxMailFaults /\ mailFaults' = mailFaults + 1
      /\ UNCHANGED <<event, paused, answer, accepted>>
  BY DEF O!Crash, O!Faulted
<1>3. mailFaults' \in 0 .. MaxMailFaults
  BY <1>1, <1>2, OutboxAssumption
<1>4. O!TypeOK'
  BY <1>1, <1>2, <1>3 DEF MailInv, O!TypeOK
<1>5. HandsFit' /\ ProviderKnows'
  BY <1>1, <1>2 DEF MailInv, HandsFit, ProviderKnows, O!Key
<1>6. MailsFit'
  <2> SUFFICES ASSUME NEW e \in Event, There(e)
               PROVE  MailFits(event[e], Alone(e)', mailFaults', accepted[e])
    BY <1>2 DEF MailsFit, There
  <2>1. PICK x \in O!Mail : x = event[e]
    BY <1>1 DEF There
  <2>2. MailFits(x, Alone(e), mailFaults, accepted[e])
    BY <2>1 DEF MailInv, MailsFit
  <2>3. x.tries \in Nat
    BY MailFields
  <2>4. \A n, m \in Nat : /\ n <= MaxTries + m => n <= MaxTries + (m + 1)
                          /\ n <= MaxTries + m + 1 => n <= MaxTries + (m + 1)
                          /\ n <= MaxTries + m + 1 => n <= MaxTries + (m + 1) + 1
    BY OutboxAssumption
  <2>5. mailFaults \in Nat
    BY <1>1, OutboxAssumption
  <2>6. /\ x.tries <= MaxTries + mailFaults => x.tries <= MaxTries + mailFaults'
        /\ x.tries <= MaxTries + mailFaults + 1 => x.tries <= MaxTries + mailFaults'
        /\ x.tries <= MaxTries + mailFaults + 1 => x.tries <= MaxTries + mailFaults' + 1
    BY <1>2, <2>3, <2>4, <2>5
  <2>7. QED BY <2>1, <2>2, <2>6 DEF MailFits
<1>7. QED BY <1>4, <1>5, <1>6 DEF MailInv

\* What leaves the rows, the provider and the hands alone.
LEMMA MailRestFits ==
    ASSUME MailInv, UNCHANGED <<event, doing, answer, accepted, mailFaults>>, paused' \in BOOLEAN,
           \/ UNCHANGED at
           \/ \E w \in Notifier : at[w] = "down" /\ at' = [at EXCEPT ![w] = "idle"]
    PROVE  MailInv'
<1>1. at \in [Notifier -> {"down", "idle", "sending", "marking"}]
  BY DEF MailInv, O!TypeOK
<1>2. O!TypeOK'
  BY <1>1 DEF MailInv, O!TypeOK
<1>3. HandsFit' /\ ProviderKnows'
  BY <1>1 DEF MailInv, HandsFit, ProviderKnows, O!Key
<1>4. MailsFit'
  BY DEF MailInv, MailsFit, There, Alone
<1>5. QED BY <1>2, <1>3, <1>4 DEF MailInv

LEMMA MailInitFits == O!Init => MailInv
<1> SUFFICES ASSUME O!Init PROVE MailInv
  OBVIOUS
<1>1. O!TypeOK
  <2>1. 0 \in 0 .. MaxMailFaults
    BY OutboxAssumption
  <2>2. QED BY <2>1 DEF O!Init, O!TypeOK
<1>2. HandsFit /\ ProviderKnows
  BY DEF O!Init, HandsFit, ProviderKnows
<1>3. MailsFit
  BY DEF O!Init, MailsFit, There
<1>4. QED BY <1>1, <1>2, <1>3 DEF MailInv

LEMMA MailNextFits == MailInv /\ [O!Next]_mailVars => MailInv'
<1> SUFFICES ASSUME MailInv, [O!Next]_mailVars PROVE MailInv'
  OBVIOUS
<1>1. ASSUME NEW e \in Event, O!Enqueue(e) \/ O!DeleteUser(e) \/ O!RetryFailed(e) \/ O!Passes(e)
      PROVE  MailInv'
  BY <1>1, MailConsoleFits, MailTimeFits DEF O!Passes
<1>2. ASSUME NEW w \in Notifier, O!Claim(w) \/ O!Send(w) \/ O!Mark(w) \/ O!Crash(w)
      PROVE  MailInv'
  BY <1>2, MailClaimFits, MailSendFits, MailMarkFits, MailCrashFits
<1>3. paused \in BOOLEAN
  BY DEF MailInv, O!TypeOK
<1>4. ASSUME NEW w \in Notifier, O!Boot(w) PROVE MailInv'
  BY <1>3, <1>4, MailRestFits DEF O!Boot
<1>5. CASE O!SetPaused
  BY <1>3, <1>5, MailRestFits DEF O!SetPaused, O!notifier
<1>6. CASE UNCHANGED mailVars
  BY <1>3, <1>6, MailRestFits DEF mailVars
<1>7. QED BY <1>1, <1>2, <1>4, <1>5, <1>6 DEF O!Next, O!Step

LEMMA MailInvariance == Spec => []MailInv
<1>1. Init => MailInv
  BY MailInitFits DEF Init
<1>2. [Next]_vars => [O!Next]_mailVars
  BY DEF Next, vars, Web, Auth, Mails, Sending
<1>3. MailInv /\ [Next]_vars => MailInv'
  BY <1>2, MailNextFits
<1>4. QED BY <1>1, <1>3, PTL DEF Spec

LEMMA SameMailCount == \A S : O!Cardinality(S) = Cardinality(S)
BY DEF O!Cardinality, Cardinality

\* Nobody gets a mail twice, for any number of mails, notifiers and faults, and a
\* mail recorded as sent was sent and is erased.
THEOREM MailsOnce == Spec => []MailedOnce
<1>1. MailInv => MailedOnce
  <2> SUFFICES ASSUME MailInv PROVE O!MailedOnce
    BY DEF MailInv, MailedOnce
  <2>1. ASSUME NEW e \in Event PROVE Cardinality(accepted[e]) <= 1
    <3>1. accepted[e] = {} \/ accepted[e] = {O!Key(e)}
      BY DEF MailInv, ProviderKnows
    <3>2. Cardinality({}) = 0
      BY FS_EmptySet
    <3>3. Cardinality({O!Key(e)}) = 1
      BY FS_Singleton
    <3>4. QED BY <3>1, <3>2, <3>3
  <2>2. ASSUME NEW e \in Event, There(e)
        PROVE  /\ O!Is(e, "sent") <=> ~event[e].payload
               /\ O!Is(e, "sent") => accepted[e] # {}
    BY <2>2 DEF MailInv, MailsFit, MailFits, O!Is, There
  <2>3. QED BY <2>1, <2>2, SameMailCount DEF O!MailedOnce, There
<1>2. QED BY <1>1, MailInvariance, PTL

\* A mail recorded as sent stays so, until its user is deleted.
THEOREM SentMailsStaySent == Spec => O!SentIsFinal
<1> DEFINE Final == \A e \in Event : O!Is(e, "sent") => event'[e] \in {event[e], Gone}
<1>1. MailInv /\ [O!Next]_mailVars => Final
  <2> SUFFICES ASSUME MailInv, [O!Next]_mailVars, NEW e \in Event, O!Is(e, "sent")
               PROVE  event'[e] \in {event[e], Gone}
    OBVIOUS
  <2>1. event \in [Event -> O!Mail \union {None, Gone}]
    BY DEF MailInv, O!TypeOK
  <2>2. event[e] \notin {None, Gone} /\ event[e].status = "sent"
    BY DEF O!Is
  <2>3. ASSUME NEW f \in Event,
               O!Enqueue(f) \/ O!DeleteUser(f) \/ O!RetryFailed(f) \/ O!Passes(f)
        PROVE  event'[e] \in {event[e], Gone}
    BY <2>1, <2>2, <2>3
       DEF O!Enqueue, O!DeleteUser, O!RetryFailed, O!Passes, O!Due, O!Stale, O!Is
  <2>4. ASSUME NEW w \in Notifier, O!Claim(w) PROVE event'[e] \in {event[e], Gone}
    <3>1. O!StaleRecovered[e] = event[e]
      BY <2>2 DEF O!StaleRecovered, O!Is
    <3>2. QED BY <2>2, <2>4, <3>1 DEF O!Claim, O!StaleRecovered
  <2>5. ASSUME NEW w \in Notifier, O!Mark(w) PROVE event'[e] \in {event[e], Gone}
    BY <2>1, <2>2, <2>5 DEF O!Mark, O!Markable, O!Is
  <2>6. ASSUME NEW w \in Notifier, O!Send(w) \/ O!Boot(w) \/ O!Crash(w)
        PROVE  event'[e] \in {event[e], Gone}
    BY <2>6 DEF O!Send, O!Boot, O!Crash
  <2>7. CASE O!SetPaused \/ UNCHANGED mailVars
    BY <2>7 DEF O!SetPaused, mailVars
  <2>8. QED BY <2>3, <2>4, <2>5, <2>6, <2>7 DEF O!Next, O!Step
<1>2. MailInv /\ [Next]_vars => [Final]_O!vars
  BY <1>1 DEF Next, vars, Web, Auth, Mails, Sending, mailVars, O!vars
<1>3. QED BY <1>2, MailInvariance, PTL DEF Spec, O!SentIsFinal

-----------------------------------------------------------------------------
(* The login worker: the inductive invariant *)

LEMMA AuthAssumption ==
    /\ MaxAuthFaults \in Nat
    /\ None \notin Scan /\ None \notin Code /\ None \notin A!Session /\ None \notin A!Input
BY ConsoleAssumption DEF A!ConstantsFit

\* What each row says about itself.
RowFits(r) == /\ r.slot <=> r.status \in A!Active
              /\ r.qr => r.slot
              /\ r.account <=> r.status = "SUCCEEDED"

SessionsFit ==
    /\ \A s \in Scan : scan[s] # None => RowFits(scan[s])
    /\ \A s \in Scan : s \in saved <=> scan[s] # None /\ scan[s].status = "SUCCEEDED"
    /\ \A s, r \in Scan : A!Holds(s) /\ A!Holds(r) => s = r

\* A worker beyond its claim has a session, types only while it waits, and has a
\* page only in the run.
RunFits(w) == /\ pc[w] \notin {"down", "idle"} => mine[w] \in Scan
              /\ typing[w] # None => pc[w] = "waiting"
              /\ context[w] => A!Running(w)

RunsFit == \A w \in Worker : RunFits(w)

\* A code that was typed was consumed for that session; one in the hands of a
\* worker is consumed, not typed yet, and in nobody else's hands.
CodesFit ==
    /\ \A c \in Code : typed[c] # {} =>
         input[c] \in A!Input /\ input[c].consumed /\ typed[c] = {input[c].scan}
    /\ \A w \in Worker : typing[w] # None =>
         /\ input[typing[w]] \in A!Input /\ input[typing[w]].consumed
         /\ input[typing[w]].scan = mine[w] /\ typed[typing[w]] = {}
    /\ \A v, w \in Worker : typing[v] # None /\ typing[v] = typing[w] => v = w

AuthInv == A!TypeOK /\ SessionsFit /\ RunsFit /\ CodesFit

-----------------------------------------------------------------------------
(* Rows of sessions *)

\* What becomes of a row when no login succeeds.
Follows(r, q) ==
    /\ q \in A!Session /\ RowFits(q)
    /\ q.slot => r.slot
    /\ q.status = "SUCCEEDED" <=> r.status = "SUCCEEDED"
    /\ r.status \in A!Terminal => q.status = r.status

LEMMA RowEnded ==
    ASSUME NEW r \in A!Session, RowFits(r), r.slot,
           NEW status \in {"FAILED", "EXPIRED", "CANCELLED"}
    PROVE  Follows(r, A!Ended(r, status)) /\ ~A!Ended(r, status).slot
<1> DEFINE q == A!Ended(r, status)
<1>1. /\ q \in A!Session /\ q.status = status /\ ~q.slot /\ ~q.qr /\ ~q.account
  BY DEF A!Ended, A!Session, A!Terminal, A!Active
<1>2. r.status \in A!Active
  BY DEF RowFits
<1>3. QED BY <1>1, <1>2 DEF Follows, RowFits, A!Active, A!Terminal

LEMMA RowMoved ==
    ASSUME NEW r \in A!Session, RowFits(r), r.slot,
           NEW target \in {"LOADING_QR", "AWAITING_SCAN", "CONFIRMING"}
    PROVE  Follows(r, A!Moved(r, target))
<1> DEFINE q == A!Moved(r, target)
<1>1. /\ q \in A!Session /\ q.status = target /\ q.slot = r.slot /\ q.account = r.account
  BY DEF A!Moved, A!Session, A!Terminal, A!Active
<1>2. r.status \in A!Active
  BY DEF RowFits
<1>3. QED BY <1>1, <1>2 DEF Follows, RowFits, A!Active, A!Terminal

LEMMA RowLate ==
    ASSUME NEW r \in A!Session, RowFits(r)
    PROVE  Follows(r, [r EXCEPT !.late = TRUE])
<1> DEFINE q == [r EXCEPT !.late = TRUE]
<1>1. /\ q \in A!Session /\ q.status = r.status /\ q.slot = r.slot /\ q.account = r.account
      /\ q.qr = r.qr
  BY DEF A!Session
<1> HIDE DEF q
<1>2. Follows(r, q)
  BY <1>1 DEF Follows, RowFits
<1>3. QED BY <1>2 DEF q

-----------------------------------------------------------------------------
(* The table of sessions *)

\* Every row stays or follows.
TableFollows(table) ==
    \A s \in Scan : table[s] = scan[s] \/ (scan[s] # None /\ table[s] # None /\ Follows(scan[s], table[s]))

LEMMA TheRow ==
    ASSUME AuthInv, NEW s \in Scan, scan[s] # None
    PROVE  scan[s] \in A!Session /\ RowFits(scan[s])
BY DEF AuthInv, A!TypeOK, SessionsFit

\* One row is written.
LEMMA OneRowFollows ==
    ASSUME AuthInv, NEW s \in Scan, NEW q \in A!Session, scan[s] # None, Follows(scan[s], q)
    PROVE  /\ [scan EXCEPT ![s] = q] \in [Scan -> A!Session \union {None}]
           /\ TableFollows([scan EXCEPT ![s] = q])
<1>1. scan \in [Scan -> A!Session \union {None}]
  BY DEF AuthInv, A!TypeOK
<1>2. \A r \in Scan : [scan EXCEPT ![s] = q][r] = IF r = s THEN q ELSE scan[r]
  BY <1>1
<1>3. QED BY <1>1, <1>2, AuthAssumption DEF TableFollows

\* A transition that is not the success.
LEMMA AfterFollows ==
    ASSUME AuthInv, NEW s \in Scan,
           NEW target \in {"LOADING_QR", "AWAITING_SCAN", "CONFIRMING", "FAILED", "CANCELLED"}
    PROVE  A!After(s, target) \in [Scan -> A!Session \union {None}] /\ TableFollows(A!After(s, target))
<1>1. scan \in [Scan -> A!Session \union {None}]
  BY DEF AuthInv, A!TypeOK
<1>2. CASE A!Answer(s, target) = "done"
  <2>1. A!InProgress(s)
    BY <1>2 DEF A!Answer, A!Cas
  <2>2. scan[s] # None /\ scan[s].slot
    BY <2>1 DEF A!InProgress, A!Holds
  <2>3. A!Moved(scan[s], target) \in A!Session /\ Follows(scan[s], A!Moved(scan[s], target))
    <3>1. CASE target \in {"FAILED", "CANCELLED"}
      <4>1. A!Moved(scan[s], target) = A!Ended(scan[s], target)
        BY <3>1 DEF A!Moved, A!Terminal
      <4>2. Follows(scan[s], A!Ended(scan[s], target))
        BY <2>2, <3>1, TheRow, RowEnded
      <4>3. QED BY <4>1, <4>2 DEF Follows
    <3>2. CASE target \in {"LOADING_QR", "AWAITING_SCAN", "CONFIRMING"}
      BY <2>2, <3>2, TheRow, RowMoved DEF Follows
    <3>3. QED BY <3>1, <3>2
  <2>4. A!After(s, target) = [scan EXCEPT ![s] = A!Moved(scan[s], target)]
    BY <1>1, <1>2 DEF A!After
  <2>5. QED BY <2>2, <2>3, <2>4, OneRowFollows
<1>3. CASE A!Answer(s, target) = "expired"
  <2>1. A!InProgress(s)
    BY <1>3 DEF A!Answer
  <2>2. scan[s] # None /\ scan[s].slot
    BY <2>1 DEF A!InProgress, A!Holds
  <2>3. A!Ended(scan[s], "EXPIRED") \in A!Session /\ Follows(scan[s], A!Ended(scan[s], "EXPIRED"))
    BY <2>2, TheRow, RowEnded DEF Follows
  <2>4. A!After(s, target) = [scan EXCEPT ![s] = A!Ended(scan[s], "EXPIRED")]
    BY <1>1, <1>3 DEF A!After
  <2>5. QED BY <2>2, <2>3, <2>4, OneRowFollows
<1>4. CASE A!Answer(s, target) \notin {"done", "expired"}
  BY <1>1, <1>4 DEF A!After, TableFollows
<1>5. QED BY <1>2, <1>3, <1>4

\* A sweep over all rows ends some of them.
LEMMA SweptFollows ==
    ASSUME AuthInv
    PROVE  /\ A!Swept \in [Scan -> A!Session \union {None}] /\ TableFollows(A!Swept)
           /\ A!Recovered \in [Scan -> A!Session \union {None}] /\ TableFollows(A!Recovered)
<1>1. scan \in [Scan -> A!Session \union {None}]
  BY DEF AuthInv, A!TypeOK
<1>2. ASSUME NEW s \in Scan, scan[s] = None
      PROVE  A!Swept[s] = None /\ A!Recovered[s] = None
  BY <1>2 DEF A!Swept, A!Recovered, A!InProgress, A!Holds
<1>3. ASSUME NEW s \in Scan, scan[s] # None
      PROVE  /\ A!Swept[s] \in A!Session
             /\ A!Swept[s] = scan[s] \/ Follows(scan[s], A!Swept[s])
             /\ A!Recovered[s] \in A!Session
             /\ A!Recovered[s] = scan[s] \/ Follows(scan[s], A!Recovered[s])
  <2>1. scan[s] \in A!Session /\ RowFits(scan[s])
    BY <1>3, TheRow
  <2>2. scan[s].slot => /\ Follows(scan[s], A!Ended(scan[s], "EXPIRED"))
                        /\ ~A!Ended(scan[s], "EXPIRED").slot
                        /\ Follows(scan[s], A!Ended(scan[s], "FAILED"))
    BY <2>1, RowEnded
  <2>3. A!Swept[s] = scan[s] \/ (scan[s].slot /\ A!Swept[s] = A!Ended(scan[s], "EXPIRED"))
    BY DEF A!Swept, A!InProgress, A!Holds
  <2>4. \/ A!Recovered[s] = A!Swept[s]
        \/ A!Swept[s].slot /\ A!Recovered[s] = A!Ended(A!Swept[s], "FAILED")
    BY DEF A!Recovered
  <2>5. QED BY <2>1, <2>2, <2>3, <2>4 DEF Follows
<1>4. A!Swept = [s \in Scan |-> A!Swept[s]] /\ A!Recovered = [s \in Scan |-> A!Recovered[s]]
  BY DEF A!Swept, A!Recovered
<1>5. \A s \in Scan : A!Swept[s] \in A!Session \union {None} /\ A!Recovered[s] \in A!Session \union {None}
  BY <1>2, <1>3
<1>6. A!Swept \in [Scan -> A!Session \union {None}] /\ A!Recovered \in [Scan -> A!Session \union {None}]
  BY <1>4, <1>5
<1>7. QED BY <1>2, <1>3, <1>6, AuthAssumption DEF TableFollows

\* Where every row stays or follows, the table fits as before.
LEMMA TableFits ==
    ASSUME AuthInv, scan' \in [Scan -> A!Session \union {None}], TableFollows(scan'), UNCHANGED saved
    PROVE  SessionsFit'
<1>1. \A s \in Scan : scan'[s] # None <=> scan[s] # None
  BY DEF TableFollows
<1>2. \A s \in Scan : scan'[s] # None =>
         /\ RowFits(scan'[s])
         /\ scan'[s].slot => scan[s].slot
         /\ scan'[s].status = "SUCCEEDED" <=> scan[s].status = "SUCCEEDED"
  BY DEF TableFollows, Follows, AuthInv, SessionsFit
<1>3. QED BY <1>1, <1>2 DEF AuthInv, SessionsFit, A!Holds, RowFits

-----------------------------------------------------------------------------
(* Users *)

LEMMA AuthTypes ==
    ASSUME AuthInv
    PROVE  /\ scan \in [Scan -> A!Session \union {None}]
           /\ input \in [Code -> A!Input \union {None}]
           /\ pc \in [Worker -> {"down", "idle", "loading", "waiting", "reading", "saving", "failing"}]
           /\ mine \in [Worker -> Scan \union {None}]
           /\ context \in [Worker -> BOOLEAN]
           /\ typing \in [Worker -> Code \union {None}]
           /\ typed \in [Code -> SUBSET Scan]
           /\ saved \subseteq Scan /\ authFaults \in 0 .. MaxAuthFaults
BY DEF AuthInv, A!TypeOK

\* Only the table of sessions changes, or nothing.
LEMMA OnlyTable ==
    ASSUME AuthInv, SessionsFit', scan' \in [Scan -> A!Session \union {None}],
           UNCHANGED <<input, pc, mine, warm, context, page, confirmed, code, stopping, typing,
                       typed, saved, authFaults>>
    PROVE  AuthInv'
<1>1. A!TypeOK'
  BY DEF AuthInv, A!TypeOK
<1>2. RunsFit' /\ CodesFit'
  BY DEF AuthInv, RunsFit, RunFits, CodesFit, A!Running
<1>3. QED BY <1>1, <1>2 DEF AuthInv

\* A session is queued where the table holds none.
LEMMA QueuedFits ==
    ASSUME AuthInv, NEW u \in User, NEW s \in Scan, scan[s] = None,
           \A r \in Scan : ~(A!Swept[r] # None /\ A!Swept[r].slot),
           scan' = [A!Swept EXCEPT ![s] = A!Fresh(u)], UNCHANGED saved
    PROVE  SessionsFit' /\ scan' \in [Scan -> A!Session \union {None}]
<1>1. A!Swept \in [Scan -> A!Session \union {None}] /\ TableFollows(A!Swept)
  BY SweptFollows
<1>2. A!Fresh(u) \in A!Session /\ RowFits(A!Fresh(u)) /\ A!Fresh(u).status = "QUEUED"
  BY DEF A!Fresh, A!Session, A!Active, RowFits
<1>3. \A r \in Scan : scan'[r] = IF r = s THEN A!Fresh(u) ELSE A!Swept[r]
  BY <1>1
<1>4. scan' \in [Scan -> A!Session \union {None}]
  BY <1>1, <1>2
<1>5. A!Fresh(u) # None
  BY <1>2, AuthAssumption
<1>6. \A r \in Scan : r # s /\ scan'[r] # None =>
         /\ RowFits(scan'[r]) /\ ~scan'[r].slot /\ scan[r] # None
         /\ scan'[r].status = "SUCCEEDED" <=> scan[r].status = "SUCCEEDED"
  BY <1>1, <1>3 DEF TableFollows, Follows, AuthInv, SessionsFit
<1>7. \A r \in Scan : r # s /\ scan'[r] = None => scan[r] = None
  BY <1>1, <1>3 DEF TableFollows
<1>8. \A r \in Scan : scan'[r] # None => RowFits(scan'[r])
  BY <1>2, <1>3, <1>6
<1>9. \A r \in Scan : r \in saved' <=> scan'[r] # None /\ scan'[r].status = "SUCCEEDED"
  BY <1>2, <1>3, <1>5, <1>6, <1>7 DEF AuthInv, SessionsFit
<1>10. \A r \in Scan : A!Holds(r)' => r = s
  BY <1>6 DEF A!Holds
<1>11. QED BY <1>4, <1>8, <1>9, <1>10 DEF SessionsFit

LEMMA StartFitsScan ==
    ASSUME AuthInv, NEW u \in User, A!Start(u)
    PROVE  AuthInv'
<1>1. UNCHANGED <<input, pc, mine, warm, context, page, confirmed, code, stopping, typing,
                  typed, saved, authFaults>>
  BY DEF A!Start, A!run
<1>2. CASE scan' = A!Swept
  BY <1>1, <1>2, SweptFollows, TableFits, OnlyTable
<1>3. CASE scan' # A!Swept
  <2> DEFINE free == {s \in Scan : scan[s] = None}
  <2>1. /\ \A r \in Scan : ~(A!Swept[r] # None /\ A!Swept[r].slot)
        /\ free # {} /\ scan' = [A!Swept EXCEPT ![CHOOSE s \in free : TRUE] = A!Fresh(u)]
    BY <1>3 DEF A!Start
  <2>2. PICK s \in free : s = CHOOSE x \in free : TRUE
    BY <2>1
  <2>3. QED BY <1>1, <2>1, <2>2, QueuedFits, OnlyTable
<1>4. QED BY <1>2, <1>3

LEMMA VisitFits ==
    ASSUME AuthInv, A!Look \/ (\E s \in Scan : A!Cancel(s))
    PROVE  AuthInv'
<1>1. UNCHANGED <<input, pc, mine, warm, context, page, confirmed, code, stopping, typing,
                  typed, saved, authFaults>>
  BY DEF A!Look, A!Cancel, A!run
<1>2. scan' \in [Scan -> A!Session \union {None}] /\ TableFollows(scan')
  BY SweptFollows, AfterFollows DEF A!Look, A!Cancel
<1>3. QED BY <1>1, <1>2, TableFits, OnlyTable

LEMMA ExpiryFits ==
    ASSUME AuthInv, NEW s \in Scan, A!Expires(s)
    PROVE  AuthInv'
<1>1. UNCHANGED <<input, pc, mine, warm, context, page, confirmed, code, stopping, typing,
                  typed, saved, authFaults>>
  BY DEF A!Expires, A!run
<1>2. scan[s] # None /\ scan' = [scan EXCEPT ![s] = [scan[s] EXCEPT !.late = TRUE]]
  BY AuthTypes DEF A!Expires, A!InProgress, A!Holds
<1>3. Follows(scan[s], [scan[s] EXCEPT !.late = TRUE])
  BY <1>2, TheRow, RowLate
<1>4. scan' \in [Scan -> A!Session \union {None}] /\ TableFollows(scan')
  BY <1>2, <1>3, OneRowFollows DEF Follows
<1>5. QED BY <1>1, <1>4, TableFits, OnlyTable

\* A code is entered: nobody typed it and nobody has it.
LEMMA EnterFits ==
    ASSUME AuthInv, NEW s \in Scan, NEW c \in Code, A!Enter(s, c)
    PROVE  AuthInv'
<1> DEFINE row == [scan |-> s, consumed |-> FALSE]
<1>1. /\ input[c] = None /\ input' = [input EXCEPT ![c] = row]
      /\ UNCHANGED <<scan, pc, mine, warm, context, page, confirmed, code, stopping, typing,
                     typed, saved, authFaults>>
  BY DEF A!Enter, A!run
<1>2. row \in A!Input
  BY DEF A!Input
<1>3. A!TypeOK'
  BY <1>1, <1>2 DEF AuthInv, A!TypeOK
<1>4. SessionsFit' /\ RunsFit'
  BY <1>1 DEF AuthInv, SessionsFit, RunsFit, RunFits, A!Holds, A!Running, RowFits
<1>5. typed[c] = {} /\ \A w \in Worker : typing[w] # c
  BY <1>1, AuthAssumption DEF AuthInv, CodesFit
<1>6. \A d \in Code : d # c => input'[d] = input[d]
  BY <1>1, AuthTypes
<1>7. CodesFit'
  BY <1>1, <1>5, <1>6, AuthTypes, AuthAssumption DEF AuthInv, CodesFit
<1>8. QED BY <1>3, <1>4, <1>7 DEF AuthInv

-----------------------------------------------------------------------------
(* The worker *)

\* One worker moves, and the codes stay in its hands or leave them.
LEMMA OneRunFits ==
    ASSUME AuthInv, NEW w \in Worker,
           \A v \in Worker : v # w => /\ pc'[v] = pc[v] /\ mine'[v] = mine[v]
                                      /\ typing'[v] = typing[v] /\ context'[v] = context[v],
           RunFits(w)'
    PROVE  RunsFit'
<1>1. \A v \in Worker : RunFits(v)
  BY DEF AuthInv, RunsFit
<1>2. ASSUME NEW v \in Worker, v # w PROVE RunFits(v)'
  BY <1>1, <1>2 DEF RunFits, A!Running
<1>3. QED BY <1>2 DEF RunsFit

LEMMA CodesKept ==
    ASSUME AuthInv, UNCHANGED <<input, typed>>,
           \A v \in Worker : typing'[v] = None \/ (typing'[v] = typing[v] /\ mine'[v] = mine[v])
    PROVE  CodesFit'
BY DEF AuthInv, CodesFit

\* A run ends with an exception: its page is closed and its code dropped.
LEMMA FailsFit ==
    ASSUME AuthInv, NEW w \in Worker, pc[w] \notin {"down", "idle"},
           NEW reason \in {"cancelled", "login_timeout", "verification_required",
                           "credential_invalid", "automation_failed"},
           A!Fails(w, reason), UNCHANGED <<input, mine, warm, stopping, typed, saved>>,
           page' \in [Worker -> {"qr", "scanned", "verify", "in"}],
           confirmed' \in [Worker -> BOOLEAN], authFaults' \in 0 .. MaxAuthFaults,
           scan' \in [Scan -> A!Session \union {None}], SessionsFit'
    PROVE  AuthInv'
<1>1. /\ pc' = [pc EXCEPT ![w] = "failing"] /\ code' = [code EXCEPT ![w] = reason]
      /\ context' = [context EXCEPT ![w] = FALSE] /\ typing' = [typing EXCEPT ![w] = None]
  BY DEF A!Fails, A!PageClosed, A!Shut
<1>2. A!TypeOK'
  BY <1>1 DEF AuthInv, A!TypeOK
<1>3. mine[w] \in Scan
  BY DEF AuthInv, RunsFit, RunFits
<1>4. RunFits(w)'
  BY <1>1, <1>3, AuthTypes DEF RunFits
<1>5. RunsFit'
  BY <1>1, <1>4, AuthTypes, OneRunFits
<1>6. CodesFit'
  BY <1>1, AuthTypes, CodesKept
<1>7. QED BY <1>2, <1>5, <1>6 DEF AuthInv

LEMMA SameTable ==
    ASSUME AuthInv, UNCHANGED <<scan, saved>>
    PROVE  SessionsFit' /\ scan' \in [Scan -> A!Session \union {None}]
BY DEF AuthInv, A!TypeOK, SessionsFit, A!Holds, RowFits

LEMMA BootFits ==
    ASSUME AuthInv, NEW w \in Worker, A!Boot(w)
    PROVE  AuthInv'
<1>1. /\ pc[w] = "down" /\ pc' = [pc EXCEPT ![w] = "idle"]
      /\ UNCHANGED <<input, mine, warm, page, context, confirmed, code, typing, typed, saved, authFaults>>
  BY DEF A!Boot
<1>2. scan' \in [Scan -> A!Session \union {None}] /\ TableFollows(scan')
  BY SweptFollows DEF A!Boot, A!Booted
<1>3. A!TypeOK'
  BY <1>2 DEF A!Boot, AuthInv, A!TypeOK
<1>4. SessionsFit'
  BY <1>1, <1>2, TableFits
<1>5. RunFits(w)
  BY DEF AuthInv, RunsFit
<1>6. RunFits(w)'
  BY <1>1, <1>5, AuthTypes DEF RunFits, A!Running
<1>7. RunsFit' /\ CodesFit'
  BY <1>1, <1>6, AuthTypes, OneRunFits, CodesKept
<1>8. QED BY <1>3, <1>4, <1>7 DEF AuthInv

\* What a worker does to its own page, its switch or itself.
LEMMA QuietRunFits ==
    ASSUME AuthInv, NEW w \in Worker,
           A!Prepare(w) \/ A!PageMoves(w) \/ A!Stop(w)
    PROVE  AuthInv'
<1>1. UNCHANGED <<scan, input, pc, mine, context, typing, typed, saved>>
  BY DEF A!Prepare, A!PageMoves, A!Stop, A!table
<1>2. authFaults' \in 0 .. MaxAuthFaults
  BY AuthTypes, AuthAssumption DEF A!Prepare, A!PageMoves, A!Stop, A!Faulted
<1>3. A!TypeOK'
  BY <1>1, <1>2 DEF A!Prepare, A!PageMoves, A!Stop, AuthInv, A!TypeOK
<1>4. SessionsFit'
  BY <1>1, SameTable
<1>5. RunsFit' /\ CodesFit'
  BY <1>1 DEF AuthInv, RunsFit, RunFits, CodesFit, A!Running
<1>6. QED BY <1>3, <1>4, <1>5 DEF AuthInv

LEMMA ClaimScanFits ==
    ASSUME AuthInv, NEW w \in Worker, NEW s \in Scan, A!Claim(w, s)
    PROVE  AuthInv'
<1>1. /\ pc[w] = "idle" /\ scan' = A!After(s, "LOADING_QR")
      /\ UNCHANGED <<input, code, stopping, typing, typed, saved, authFaults>>
  BY DEF A!Claim
<1>2. scan' \in [Scan -> A!Session \union {None}] /\ SessionsFit'
  BY <1>1, AfterFollows, TableFits
<1>3. CASE A!Answer(s, "LOADING_QR") # "done"
  BY <1>1, <1>2, <1>3, OnlyTable DEF A!Claim
<1>4. CASE A!Answer(s, "LOADING_QR") = "done"
  <2>1. /\ pc' = [pc EXCEPT ![w] = "loading"] /\ mine' = [mine EXCEPT ![w] = s]
        /\ warm' = [warm EXCEPT ![w] = FALSE] /\ context' = [context EXCEPT ![w] = TRUE]
        /\ page' = [page EXCEPT ![w] = "qr"] /\ confirmed' = [confirmed EXCEPT ![w] = FALSE]
    BY <1>4 DEF A!Claim
  <2>2. A!TypeOK'
    BY <1>1, <1>2, <2>1 DEF AuthInv, A!TypeOK
  <2>3. typing[w] = None
    BY <1>1 DEF AuthInv, RunsFit, RunFits
  <2>4. RunFits(w)'
    BY <1>1, <2>1, <2>3, AuthTypes DEF RunFits, A!Running
  <2>5. RunsFit'
    BY <1>1, <2>1, <2>4, AuthTypes, OneRunFits
  <2>6. CodesFit'
    BY <1>1, <2>1, <2>3, AuthTypes, CodesKept
  <2>7. QED BY <1>2, <2>2, <2>5, <2>6 DEF AuthInv
<1>5. QED BY <1>3, <1>4

\* The ways a run ends before it has an outcome.
LEMMA BreakFits ==
    ASSUME AuthInv, NEW w \in Worker,
           \/ A!Cancelled(w) \/ A!TimedOut(w) \/ A!BrowserFails(w) \/ A!Verify(w) \/ A!PublishView(w)
    PROVE  AuthInv'
<1>1. /\ pc[w] \notin {"down", "idle"}
      /\ UNCHANGED <<scan, input, mine, warm, page, confirmed, stopping, typed, saved>>
  BY DEF A!Cancelled, A!TimedOut, A!BrowserFails, A!Verify, A!PublishView, A!Running, A!table
<1>2. PICK reason \in {"cancelled", "login_timeout", "verification_required", "automation_failed"} :
         A!Fails(w, reason)
  BY DEF A!Cancelled, A!TimedOut, A!BrowserFails, A!Verify, A!PublishView
<1>3. authFaults' \in 0 .. MaxAuthFaults
  BY AuthTypes, AuthAssumption
     DEF A!Cancelled, A!TimedOut, A!BrowserFails, A!Verify, A!PublishView, A!Faulted
<1>4. page' \in [Worker -> {"qr", "scanned", "verify", "in"}] /\ confirmed' \in [Worker -> BOOLEAN]
  BY <1>1 DEF AuthInv, A!TypeOK
<1>5. QED BY <1>1, <1>2, <1>3, <1>4, SameTable, FailsFit

\* A step of the run that may end it, with a transition of the session.
LEMMA ShownFits ==
    ASSUME AuthInv, NEW w \in Worker, A!PublishQr(w) \/ A!Confirm(w)
    PROVE  AuthInv'
<1>1. /\ pc[w] \in {"loading", "waiting"}
      /\ UNCHANGED <<input, mine, warm, page, stopping, typed, saved, authFaults>>
  BY DEF A!PublishQr, A!Confirm
<1>2. mine[w] \in Scan
  BY <1>1 DEF AuthInv, RunsFit, RunFits
<1>3. scan' \in [Scan -> A!Session \union {None}] /\ SessionsFit'
  BY <1>1, <1>2, AfterFollows, TableFits DEF A!PublishQr, A!Confirm
<1>4. /\ page' \in [Worker -> {"qr", "scanned", "verify", "in"}] /\ confirmed' \in [Worker -> BOOLEAN]
      /\ authFaults' \in 0 .. MaxAuthFaults
  BY <1>1 DEF AuthInv, A!TypeOK, A!PublishQr, A!Confirm
<1>5. CASE A!Fails(w, "automation_failed")
  BY <1>1, <1>3, <1>4, <1>5, FailsFit
<1>6. ASSUME NEW p \in {"loading", "waiting"}, pc' = [pc EXCEPT ![w] = p], p = "loading" => pc[w] = "loading",
             UNCHANGED <<code, context, typing>>
      PROVE  AuthInv'
  <2>1. A!TypeOK'
    BY <1>1, <1>3, <1>4, <1>6 DEF AuthInv, A!TypeOK
  <2>2. RunFits(w)
    BY DEF AuthInv, RunsFit
  <2>3. RunFits(w)'
    BY <1>1, <1>6, <2>2, AuthTypes DEF RunFits, A!Running
  <2>4. RunsFit' /\ CodesFit'
    BY <1>1, <1>6, <2>3, AuthTypes, OneRunFits, CodesKept
  <2>5. QED BY <1>3, <2>1, <2>4 DEF AuthInv
<1>7. pc = [pc EXCEPT ![w] = pc[w]]
  BY AuthTypes
<1>8. QED BY <1>1, <1>5, <1>6, <1>7 DEF A!PublishQr, A!Confirm

LEMMA LoggedInFits ==
    ASSUME AuthInv, NEW w \in Worker, A!LoggedIn(w)
    PROVE  AuthInv'
<1>1. /\ pc[w] = "waiting" /\ pc' = [pc EXCEPT ![w] = "reading"] /\ typing' = [typing EXCEPT ![w] = None]
      /\ UNCHANGED <<scan, input, mine, warm, context, page, confirmed, code, stopping, typed, saved,
                     authFaults>>
  BY DEF A!LoggedIn, A!table
<1>2. A!TypeOK'
  BY <1>1 DEF AuthInv, A!TypeOK
<1>3. RunFits(w)
  BY DEF AuthInv, RunsFit
<1>4. RunFits(w)'
  BY <1>1, <1>3, AuthTypes DEF RunFits, A!Running
<1>5. RunsFit' /\ CodesFit'
  BY <1>1, <1>4, AuthTypes, OneRunFits, CodesKept
<1>6. QED BY <1>1, <1>2, <1>5, SameTable DEF AuthInv

\* A code is consumed as it is taken, so nobody else has it or takes it again.
LEMMA TakeCodeFits ==
    ASSUME AuthInv, NEW w \in Worker, A!TakeCode(w)
    PROVE  AuthInv'
<1>1. PICK c \in A!Unconsumed(mine[w]) :
         input' = [input EXCEPT ![c].consumed = TRUE] /\ typing' = [typing EXCEPT ![w] = c]
  BY DEF A!TakeCode, A!Taken
<1>2. /\ pc[w] = "waiting"
      /\ UNCHANGED <<scan, pc, mine, warm, context, page, confirmed, code, stopping, typed, saved,
                     authFaults>>
  BY DEF A!TakeCode
<1>3. c \in Code /\ input[c] \in A!Input /\ ~input[c].consumed /\ input[c].scan = mine[w]
  BY <1>1, AuthTypes DEF A!Unconsumed
<1>4. PICK x \in A!Input : x = input[c]
  BY <1>3
<1> DEFINE q == [x EXCEPT !.consumed = TRUE]
<1>5. q \in A!Input /\ q.consumed /\ q.scan = x.scan
  BY DEF A!Input
<1>6. input' = [input EXCEPT ![c] = q]
  BY <1>1, <1>4, AuthTypes
<1> HIDE DEF q
<1>7. \A d \in Code : input'[d] = IF d = c THEN q ELSE input[d]
  BY <1>6, AuthTypes
<1>8. \A v \in Worker : typing'[v] = IF v = w THEN c ELSE typing[v]
  BY <1>1, AuthTypes
<1>9. A!TypeOK'
  BY <1>1, <1>2, <1>3, <1>5, <1>6 DEF AuthInv, A!TypeOK
<1>10. RunFits(w)
  BY DEF AuthInv, RunsFit
<1>11. RunFits(w)'
  BY <1>2, <1>10 DEF RunFits, A!Running
<1>12. RunsFit'
  BY <1>2, <1>8, <1>11, OneRunFits
<1>13. typed[c] = {} /\ \A v \in Worker : typing[v] # c
  BY <1>3, AuthAssumption DEF AuthInv, CodesFit
<1>14. CodesFit'
  <2>1. ASSUME NEW d \in Code, typed[d] # {}
        PROVE  input'[d] \in A!Input /\ input'[d].consumed /\ typed[d] = {input'[d].scan}
    BY <1>7, <1>13, <2>1 DEF AuthInv, CodesFit
  <2>2. ASSUME NEW v \in Worker, typing'[v] # None
        PROVE  /\ input'[typing'[v]] \in A!Input /\ input'[typing'[v]].consumed
               /\ input'[typing'[v]].scan = mine[v] /\ typed[typing'[v]] = {}
    <3>1. CASE v = w
      BY <1>3, <1>4, <1>5, <1>7, <1>8, <1>13, <3>1
    <3>2. CASE v # w
      <4>1. typing'[v] = typing[v] /\ typing[v] \in Code /\ typing[v] # c
        BY <1>8, <1>13, <2>2, <3>2, AuthTypes
      <4>2. QED BY <1>7, <2>2, <4>1 DEF AuthInv, CodesFit
    <3>3. QED BY <3>1, <3>2
  <2>3. ASSUME NEW u \in Worker, NEW v \in Worker, typing'[u] # None, typing'[u] = typing'[v]
        PROVE  u = v
    BY <1>8, <1>13, <2>3 DEF AuthInv, CodesFit
  <2>4. QED BY <1>2, <2>1, <2>2, <2>3 DEF CodesFit
<1>15. QED BY <1>2, <1>9, <1>12, <1>14, SameTable DEF AuthInv

LEMMA TypeCodeFits ==
    ASSUME AuthInv, NEW w \in Worker, A!TypeCode(w)
    PROVE  AuthInv'
<1> DEFINE c == typing[w]
<1>1. /\ pc[w] = "waiting" /\ c # None
      /\ typed' = [typed EXCEPT ![c] = @ \union {mine[w]}] /\ typing' = [typing EXCEPT ![w] = None]
      /\ UNCHANGED <<scan, input, pc, mine, warm, context, page, confirmed, code, stopping, saved,
                     authFaults>>
  BY DEF A!TypeCode, A!table
<1>2. /\ c \in Code /\ mine[w] \in Scan /\ typed[c] = {}
      /\ input[c] \in A!Input /\ input[c].consumed /\ input[c].scan = mine[w]
  BY <1>1, AuthTypes DEF AuthInv, RunsFit, RunFits, CodesFit
<1>3. /\ \A d \in Code : typed'[d] = IF d = c THEN {mine[w]} ELSE typed[d]
      /\ \A v \in Worker : typing'[v] = IF v = w THEN None ELSE typing[v]
  BY <1>1, <1>2, AuthTypes
<1>4. A!TypeOK'
  BY <1>1, <1>2 DEF AuthInv, A!TypeOK
<1>5. RunFits(w)
  BY DEF AuthInv, RunsFit
<1>6. RunFits(w)'
  BY <1>1, <1>3, <1>5 DEF RunFits, A!Running
<1>7. RunsFit'
  BY <1>1, <1>3, <1>6, OneRunFits
<1>8. \A v \in Worker : v # w /\ typing[v] # None => typing[v] # c /\ typing[v] \in Code
  BY <1>1, AuthTypes DEF AuthInv, CodesFit
<1>9. CodesFit'
  BY <1>1, <1>2, <1>3, <1>8 DEF AuthInv, CodesFit
<1>10. QED BY <1>1, <1>4, <1>7, <1>9, SameTable DEF AuthInv

LEMMA CollectFits ==
    ASSUME AuthInv, NEW w \in Worker, A!Collect(w)
    PROVE  AuthInv'
<1>1. /\ pc[w] = "reading"
      /\ UNCHANGED <<scan, input, mine, warm, page, confirmed, stopping, typed, saved, authFaults>>
  BY DEF A!Collect, A!table
<1>2. /\ page' \in [Worker -> {"qr", "scanned", "verify", "in"}] /\ confirmed' \in [Worker -> BOOLEAN]
      /\ authFaults' \in 0 .. MaxAuthFaults
  BY <1>1 DEF AuthInv, A!TypeOK
<1>3. CASE A!Fails(w, "credential_invalid")
  BY <1>1, <1>2, <1>3, SameTable, FailsFit
<1>4. CASE pc' = [pc EXCEPT ![w] = "saving"] /\ context' = A!PageClosed(w) /\ UNCHANGED <<code, typing>>
  <2>1. context' = [context EXCEPT ![w] = FALSE]
    BY <1>4 DEF A!PageClosed, A!Shut
  <2>2. A!TypeOK'
    BY <1>1, <1>2, <1>4, <2>1 DEF AuthInv, A!TypeOK
  <2>3. RunFits(w)
    BY DEF AuthInv, RunsFit
  <2>4. RunFits(w)'
    BY <1>1, <1>4, <2>1, <2>3, AuthTypes DEF RunFits, A!Running
  <2>5. RunsFit' /\ CodesFit'
    BY <1>1, <1>4, <2>1, <2>4, AuthTypes, OneRunFits, CodesKept
  <2>6. QED BY <1>1, <2>2, <2>5, SameTable DEF AuthInv
<1>5. QED BY <1>3, <1>4 DEF A!Collect

\* A login succeeds while its session is in progress: account and session at once.
LEMMA SucceededFits ==
    ASSUME AuthInv, NEW s \in Scan, A!Answer(s, "SUCCEEDED") = "done",
           scan' = A!After(s, "SUCCEEDED"), saved' = saved \union {s}
    PROVE  /\ SessionsFit' /\ scan' \in [Scan -> A!Session \union {None}]
           /\ scan[s] # None /\ scan[s].status \in A!Active
           /\ \A r \in Scan : r # s => scan'[r] = scan[r]
<1>1. scan[s] # None /\ scan[s].slot /\ scan[s].status \in A!Active
  BY DEF A!Answer, A!Cas, A!InProgress, A!Holds
<1>2. PICK x \in A!Session : x = scan[s]
  BY <1>1, TheRow
<1> DEFINE q == A!Ended(x, "SUCCEEDED")
<1>3. q \in A!Session /\ q.status = "SUCCEEDED" /\ ~q.slot /\ ~q.qr /\ q.account
  BY DEF A!Ended, A!Session, A!Terminal, A!Active
<1>4. scan' = [scan EXCEPT ![s] = q]
  BY <1>2, AuthTypes DEF A!After, A!Moved, A!Terminal
<1> HIDE DEF q
<1>5. \A r \in Scan : scan'[r] = IF r = s THEN q ELSE scan[r]
  BY <1>4, AuthTypes
<1>6. scan' \in [Scan -> A!Session \union {None}]
  BY <1>3, <1>4, AuthTypes
<1>7. RowFits(q)
  BY <1>3 DEF RowFits, A!Active
<1>8. q # None
  BY <1>3, AuthAssumption
<1>9. \A r \in Scan : scan'[r] # None => RowFits(scan'[r])
  BY <1>5, <1>7 DEF AuthInv, SessionsFit
<1>10. \A r \in Scan : r \in saved' <=> scan'[r] # None /\ scan'[r].status = "SUCCEEDED"
  BY <1>3, <1>5, <1>8 DEF AuthInv, SessionsFit
<1>11. \A r, t \in Scan : A!Holds(r)' /\ A!Holds(t)' => r = t
  BY <1>3, <1>5 DEF AuthInv, SessionsFit, A!Holds
<1>12. QED BY <1>1, <1>5, <1>6, <1>9, <1>10, <1>11 DEF SessionsFit

LEMMA SaveFits ==
    ASSUME AuthInv, NEW w \in Worker, A!Save(w)
    PROVE  AuthInv'
<1> DEFINE s == mine[w]
<1>1. pc[w] = "saving" /\ UNCHANGED <<input, warm, page, confirmed, stopping, typed, authFaults>>
  BY DEF A!Save
<1>2. s \in Scan /\ typing[w] = None /\ ~context[w]
  BY <1>1, AuthTypes DEF AuthInv, RunsFit, RunFits, A!Running
<1>3. /\ page' \in [Worker -> {"qr", "scanned", "verify", "in"}] /\ confirmed' \in [Worker -> BOOLEAN]
      /\ authFaults' \in 0 .. MaxAuthFaults
  BY <1>1 DEF AuthInv, A!TypeOK
<1>4. CASE ~stopping[w] /\ A!Commits(s)
  <2>1. /\ saved' = saved \union {s} /\ scan' = A!After(s, "SUCCEEDED")
        /\ pc' = [pc EXCEPT ![w] = "idle"] /\ mine' = [mine EXCEPT ![w] = None]
        /\ UNCHANGED <<code, context, typing>>
    BY <1>4 DEF A!Save
  <2>2. SessionsFit' /\ scan' \in [Scan -> A!Session \union {None}]
    BY <1>2, <1>4, <2>1, SucceededFits DEF A!Commits
  <2>3. A!TypeOK'
    BY <1>1, <1>2, <2>1, <2>2 DEF AuthInv, A!TypeOK
  <2>4. RunFits(w)'
    BY <1>2, <2>1, AuthTypes DEF RunFits
  <2>5. RunsFit' /\ CodesFit'
    BY <1>1, <1>2, <2>1, <2>4, AuthTypes, OneRunFits, CodesKept
  <2>6. QED BY <2>2, <2>3, <2>5 DEF AuthInv
<1>5. CASE ~(~stopping[w] /\ A!Commits(s))
  <2>1. UNCHANGED <<scan, saved, mine>>
    BY <1>5 DEF A!Save
  <2>2. PICK reason \in {"cancelled", "login_timeout", "automation_failed"} : A!Fails(w, reason)
    BY <1>5 DEF A!Save
  <2>3. QED BY <1>1, <1>3, <2>1, <2>2, SameTable, FailsFit
<1>6. QED BY <1>4, <1>5

\* A worker gives its session up, ends or dies.
LEMMA LeavesFit ==
    ASSUME AuthInv, NEW w \in Worker,
           A!RecordFailure(w) \/ A!Quit(w) \/ A!Crash(w)
    PROVE  AuthInv'
<1>1. /\ UNCHANGED <<input, page, confirmed, stopping, typed, saved>>
      /\ authFaults' \in 0 .. MaxAuthFaults
  BY AuthTypes, AuthAssumption
     DEF A!RecordFailure, A!Quit, A!Crash, A!Faulted, A!table
<1>2. RunFits(w)
  BY DEF AuthInv, RunsFit
<1>3. scan' \in [Scan -> A!Session \union {None}] /\ SessionsFit'
  <2>1. CASE A!RecordFailure(w)
    <3>1. mine[w] \in Scan
      BY <1>2, <2>1 DEF A!RecordFailure, RunFits
    <3>2. CASE A!InProgress(mine[w])
      BY <1>1, <2>1, <3>1, <3>2, AfterFollows, TableFits DEF A!RecordFailure
    <3>3. CASE ~A!InProgress(mine[w])
      BY <1>1, <2>1, <3>3, SameTable DEF A!RecordFailure
    <3>4. QED BY <3>2, <3>3
  <2>2. CASE A!Quit(w) \/ A!Crash(w)
    BY <1>1, <2>2, SameTable DEF A!Quit, A!Crash, A!table
  <2>3. QED BY <2>1, <2>2
<1>4. PICK p \in {"idle", "down"} : pc' = [pc EXCEPT ![w] = p]
  BY DEF A!RecordFailure, A!Quit, A!Crash, A!Ends
<1>5. /\ mine' = [mine EXCEPT ![w] = None] /\ code' = [code EXCEPT ![w] = None]
      /\ UNCHANGED warm \/ warm' = [warm EXCEPT ![w] = FALSE]
      /\ UNCHANGED typing \/ typing' = [typing EXCEPT ![w] = None]
      /\ UNCHANGED context \/ context' = [context EXCEPT ![w] = FALSE]
  BY DEF A!RecordFailure, A!Quit, A!Crash, A!Ends, A!Shut
<1>6. typing'[w] = None /\ ~context'[w]
  BY <1>2, <1>5, AuthTypes DEF A!RecordFailure, A!Quit, A!Crash, A!Ends, A!Shut, RunFits, A!Running
<1>7. A!TypeOK'
  BY <1>1, <1>3, <1>4, <1>5 DEF AuthInv, A!TypeOK
<1>8. RunFits(w)'
  BY <1>4, <1>6, AuthTypes DEF RunFits
<1>9. \A v \in Worker : v # w => /\ pc'[v] = pc[v] /\ mine'[v] = mine[v]
                                 /\ typing'[v] = typing[v] /\ context'[v] = context[v]
  BY <1>4, <1>5, AuthTypes
<1>10. RunsFit' /\ CodesFit'
  BY <1>1, <1>6, <1>8, <1>9, OneRunFits, CodesKept
<1>11. QED BY <1>3, <1>7, <1>10 DEF AuthInv

LEMMA AuthInitFits == A!Init => AuthInv
<1> SUFFICES ASSUME A!Init PROVE AuthInv
  OBVIOUS
<1>1. A!TypeOK
  <2>1. 0 \in 0 .. MaxAuthFaults
    BY AuthAssumption
  <2>2. QED BY <2>1 DEF A!Init, A!TypeOK
<1>2. SessionsFit
  BY DEF A!Init, SessionsFit, A!Holds
<1>3. RunsFit /\ CodesFit
  BY DEF A!Init, RunsFit, RunFits, CodesFit
<1>4. QED BY <1>1, <1>2, <1>3 DEF AuthInv

LEMMA AuthNextFits == AuthInv /\ [A!Next]_authVars => AuthInv'
<1> SUFFICES ASSUME AuthInv, [A!Next]_authVars PROVE AuthInv'
  OBVIOUS
<1>1. ASSUME NEW u \in User, A!Start(u) PROVE AuthInv'
  BY <1>1, StartFitsScan
<1>2. ASSUME NEW s \in Scan, A!Cancel(s) \/ A!Expires(s) \/ \E c \in Code : A!Enter(s, c)
      PROVE  AuthInv'
  BY <1>2, VisitFits, ExpiryFits, EnterFits
<1>3. CASE A!Look
  BY <1>3, VisitFits
<1>4. ASSUME NEW w \in Worker, A!Step(w) PROVE AuthInv'
  BY <1>4, QuietRunFits, ClaimScanFits, ShownFits, BreakFits, LoggedInFits, TakeCodeFits,
     TypeCodeFits, CollectFits, SaveFits, LeavesFit DEF A!Step
<1>5. ASSUME NEW w \in Worker,
             A!Boot(w) \/ A!PageMoves(w) \/ A!BrowserFails(w) \/ A!Stop(w) \/ A!Crash(w)
      PROVE  AuthInv'
  BY <1>5, BootFits, QuietRunFits, BreakFits, LeavesFit
<1>6. CASE UNCHANGED authVars
  BY <1>6, SameTable, OnlyTable DEF authVars
<1>7. QED BY <1>1, <1>2, <1>3, <1>4, <1>5, <1>6 DEF A!Next

LEMMA AuthInvariance == Spec => []AuthInv
<1>1. Init => AuthInv
  BY AuthInitFits DEF Init
<1>2. [Next]_vars => [A!Next]_authVars
  BY DEF Next, vars, Web, Auth, Mails, Sending
<1>3. AuthInv /\ [Next]_vars => AuthInv'
  BY <1>2, AuthNextFits
<1>4. QED BY <1>1, <1>3, PTL DEF Spec

\* One login page for everybody, credentials stored exactly when a session
\* succeeds, codes typed once and only into the page they were entered for, and
\* pages closed with their runs: for any number of users, sessions, codes,
\* workers and faults.
THEOREM LoginIsSound == Spec => []LoginSound
<1>1. AuthInv => LoginSound
  <2> SUFFICES ASSUME AuthInv
               PROVE  /\ A!OneActiveAndWiped /\ A!SavedIffSucceeded
                      /\ A!CodeOnceInItsPage /\ A!PagesAccounted
    BY DEF AuthInv, LoginSound
  <2>1. A!OneActiveAndWiped
    BY DEF AuthInv, SessionsFit, RowFits, A!OneActiveAndWiped
  <2>2. A!SavedIffSucceeded
    BY DEF AuthInv, SessionsFit, RowFits, A!SavedIffSucceeded
  <2>3. A!CodeOnceInItsPage
    BY AuthTypes DEF AuthInv, CodesFit, A!CodeOnceInItsPage, A!Unconsumed
  <2>4. A!PagesAccounted
    BY DEF AuthInv, RunsFit, RunFits, A!PagesAccounted
  <2>5. QED BY <2>1, <2>2, <2>3, <2>4
<1>2. QED BY <1>1, AuthInvariance, PTL

\* A session that has ended is not relabelled.
Kept(table) ==
    \A s \in Scan : scan[s] # None /\ scan[s].status \in A!Terminal => table[s].status = scan[s].status

LEMMA FollowersKeep ==
    ASSUME NEW table, TableFollows(table)
    PROVE  Kept(table)
BY DEF Kept, TableFollows, Follows

LEMMA EndedKept == AuthInv /\ A!Next => Kept(scan')
<1> SUFFICES ASSUME AuthInv, A!Next PROVE Kept(scan')
  OBVIOUS
<1>1. CASE UNCHANGED scan
  BY <1>1 DEF Kept
<1>2. ASSUME NEW u \in User, A!Start(u) PROVE Kept(scan')
  <2>1. A!Swept \in [Scan -> A!Session \union {None}] /\ Kept(A!Swept)
    BY SweptFollows, FollowersKeep
  <2>2. CASE scan' = A!Swept
    BY <2>1, <2>2
  <2>3. CASE scan' # A!Swept
    <3> DEFINE free == {s \in Scan : scan[s] = None}
    <3>1. free # {} /\ scan' = [A!Swept EXCEPT ![CHOOSE s \in free : TRUE] = A!Fresh(u)]
      BY <1>2, <2>3 DEF A!Start
    <3>2. PICK s \in free : s = CHOOSE x \in free : TRUE
      BY <3>1
    <3>3. QED BY <2>1, <3>1, <3>2 DEF Kept
  <2>4. QED BY <2>2, <2>3
<1>3. CASE A!Look \/ \E s \in Scan : A!Cancel(s)
  BY <1>3, SweptFollows, AfterFollows, FollowersKeep DEF A!Cancel, A!Look
<1>4. ASSUME NEW s \in Scan, A!Expires(s) PROVE Kept(scan')
  BY <1>4, AuthTypes DEF A!Expires, A!InProgress, A!Holds, A!Active, A!Terminal, Kept
<1>5. ASSUME NEW w \in Worker, A!Boot(w) PROVE Kept(scan')
  BY <1>5, SweptFollows, FollowersKeep DEF A!Boot, A!Booted
<1>6. ASSUME NEW w \in Worker, NEW s \in Scan, A!Claim(w, s) PROVE Kept(scan')
  BY <1>6, AfterFollows, FollowersKeep DEF A!Claim
<1>7. ASSUME NEW w \in Worker, A!PublishQr(w) \/ A!Confirm(w) PROVE Kept(scan')
  <2>1. mine[w] \in Scan
    BY <1>7 DEF A!PublishQr, A!Confirm, AuthInv, RunsFit, RunFits
  <2>2. QED BY <1>7, <2>1, AfterFollows, FollowersKeep DEF A!PublishQr, A!Confirm
<1>8. ASSUME NEW w \in Worker, A!RecordFailure(w) PROVE Kept(scan')
  <2>1. mine[w] \in Scan
    BY <1>8 DEF A!RecordFailure, AuthInv, RunsFit, RunFits
  <2>2. QED BY <1>1, <1>8, <2>1, AfterFollows, FollowersKeep DEF A!RecordFailure
<1>9. ASSUME NEW w \in Worker, A!Save(w) PROVE Kept(scan')
  <2>1. mine[w] \in Scan
    BY <1>9 DEF A!Save, AuthInv, RunsFit, RunFits
  <2>2. CASE ~stopping[w] /\ A!Commits(mine[w])
    <3>1. /\ scan[mine[w]].status \in A!Active
          /\ \A r \in Scan : r # mine[w] => scan'[r] = scan[r]
      BY <1>9, <2>1, <2>2, SucceededFits DEF A!Save, A!Commits
    <3>2. QED BY <2>1, <3>1 DEF Kept, A!Active, A!Terminal
  <2>3. CASE ~(~stopping[w] /\ A!Commits(mine[w]))
    BY <1>1, <1>9, <2>3 DEF A!Save
  <2>4. QED BY <2>2, <2>3
<1>10. ASSUME NEW s \in Scan, NEW c \in Code, A!Enter(s, c) PROVE UNCHANGED scan
  BY <1>10 DEF A!Enter
<1>11. ASSUME NEW w \in Worker,
              \/ A!Prepare(w) \/ A!Cancelled(w) \/ A!TimedOut(w) \/ A!Verify(w) \/ A!LoggedIn(w)
              \/ A!TakeCode(w) \/ A!TypeCode(w) \/ A!PublishView(w) \/ A!Collect(w) \/ A!Quit(w)
              \/ A!PageMoves(w) \/ A!BrowserFails(w) \/ A!Stop(w) \/ A!Crash(w)
       PROVE  UNCHANGED scan
  BY <1>11 DEF A!Prepare, A!Cancelled, A!TimedOut, A!Verify, A!LoggedIn, A!TakeCode, A!TypeCode,
               A!PublishView, A!Collect, A!Quit, A!PageMoves, A!BrowserFails, A!Stop, A!Crash, A!table
<1>12. QED BY <1>1, <1>2, <1>3, <1>4, <1>5, <1>6, <1>7, <1>8, <1>9, <1>10, <1>11 DEF A!Next, A!Step

\* A login session that has ended stays as it ended: late transitions, sweeps and
\* the recovery at a restart neither reopen nor relabel it.
THEOREM EndedSessionsStay == Spec => A!EndedStays
<1> DEFINE Stays == \A s \in Scan : scan[s] # None /\ scan[s].status \in A!Terminal =>
                       scan'[s].status = scan[s].status
<1>1. AuthInv /\ [Next]_vars => [Stays]_A!vars
  <2> SUFFICES ASSUME AuthInv, [Next]_vars PROVE [Stays]_A!vars
    OBVIOUS
  <2>1. CASE A!Next
    BY <2>1, EndedKept DEF Kept
  <2>2. CASE UNCHANGED authVars
    BY <2>2 DEF authVars, A!vars, A!table, A!run
  <2>3. QED BY <2>1, <2>2 DEF Next, vars, Web, Auth, Mails, Sending
<1>2. QED BY <1>1, AuthInvariance, PTL DEF Spec, A!EndedStays

-----------------------------------------------------------------------------
(* The sending worker: the inductive invariant *)

LEMMA SparkAssumption ==
    /\ MaxEdits \in Nat /\ MaxSparkFaults \in Nat /\ Cardinality(Task) \in Nat
    /\ \A S : W!Cardinality(S) = Cardinality(S)
    /\ None # Gone /\ None \notin Task /\ None \notin {"target", "repeated"}
    /\ None \notin W!Row /\ Gone \notin W!Row
    /\ Gone \notin [valid : BOOLEAN, incident : BOOLEAN]
<1>1. \A S : W!Cardinality(S) = Cardinality(S)
  BY DEF W!Cardinality, Cardinality
<1>2. IsFiniteSet(Task)
  BY ConsoleAssumption DEF W!ConstantsFit, W!IsFiniteSet, IsFiniteSet
<1>3. Cardinality(Task) \in Nat
  BY <1>2, FS_CardinalityType
<1>4. QED BY <1>1, <1>3, ConsoleAssumption DEF W!ConstantsFit, W!Kind

\* Codes of failures before anything is sent, which an administrator may retry.
Unsent == {"conversation", "target"}

Outcome ==
    {r \in [status : {"success", "failed"}, safe : BOOLEAN, retry : BOOLEAN,
            code : {"none", "auth", "target", "conversation", "other"}] :
        r.status = "success" => r.code = "none"}

Busy == stage \in {"executing", "submitted", "recording"}

\* The worker at work has a run that is recorded as running, or went with its task.
WorkFitsRun ==
    /\ Busy => now \in Task /\ log[now].status \in {"running", "none"}
    /\ stage = "recording" => result \in Outcome

Again(t) == W!Exists(t) /\ task[t].again

\* A run that was ordered again, or may be, is paid for: each message beyond the
\* first has its interruption or login, and one is left for the next.
SendsPaid ==
    \A t \in Task :
        /\ sent[t] <= 1 + excused[t]
        /\ Again(t) \/ (log[t].status = "failed" /\ log[t].code \in Unsent) => sent[t] <= excused[t]

\* The run in progress has not sent yet, or is not repeated for what it reports.
RunPaid ==
    /\ stage = "executing" => /\ sent[now] <= excused[now]
                              /\ Again(now) => sent[now] + 1 <= excused[now]
    /\ stage = "recording" /\ (result.retry \/ result.code \in Unsent) => sent[now] <= excused[now]

\* Mails about a streak are those the keys remember.
StreakFits(l, n) ==
    /\ \A k \in W!Kind : n[k] <= 1 /\ (n[k] = 1 => k \in l.told)
    /\ l.streak = 0 => \A k \in W!Kind : n[k] = 0

NotesFit == \A t \in Task : StreakFits(log[t], notes[t])

IncidentFits == mails <= 1 /\ (mails = 1 /\ account # Gone => account.incident)

SendInv == W!TypeOK /\ WorkFitsRun /\ SendsPaid /\ RunPaid /\ NotesFit /\ IncidentFits

-----------------------------------------------------------------------------
(* Rows of tasks and logs *)

LEMMA SendTypes ==
    ASSUME SendInv
    PROVE  /\ task \in [Task -> W!Row \union {None, Gone}]
           /\ log \in [Task -> W!Log]
           /\ quota \in 0 .. Cardinality(Task) /\ retrying \in Task \union {None}
           /\ sent \in [Task -> Nat] /\ excused \in [Task -> Nat]
           /\ mails \in Nat /\ notes \in [Task -> [W!Kind -> Nat]]
           /\ edits \in 0 .. MaxEdits /\ sparkFaults \in 0 .. MaxSparkFaults
BY SparkAssumption DEF SendInv, W!TypeOK

LEMMA RowChanged ==
    ASSUME NEW r \in W!Row
    PROVE  /\ \A b \in BOOLEAN : [r EXCEPT !.on = b] \in W!Row /\ [r EXCEPT !.on = b].again = r.again
           /\ [r EXCEPT !.on = FALSE, !.linked = FALSE] \in W!Row
           /\ [r EXCEPT !.on = FALSE, !.linked = FALSE].again = r.again
           /\ [r EXCEPT !.on = FALSE, !.next = "none"] \in W!Row
           /\ [r EXCEPT !.on = FALSE, !.next = "none"].again = r.again
           /\ [r EXCEPT !.linked = TRUE, !.next = "waiting", !.again = FALSE] \in W!Row
           /\ ~[r EXCEPT !.linked = TRUE, !.next = "waiting", !.again = FALSE].again
           /\ [r EXCEPT !.next = "waiting", !.again = FALSE] \in W!Row
           /\ ~[r EXCEPT !.next = "waiting", !.again = FALSE].again
           /\ \A n \in {"due", "missed"} : [r EXCEPT !.next = n] \in W!Row
                                           /\ [r EXCEPT !.next = n].again = r.again
           /\ W!Again(r) \in W!Row
<1>1. \A b \in BOOLEAN : [r EXCEPT !.on = b] \in W!Row /\ [r EXCEPT !.on = b].again = r.again
  BY DEF W!Row
<1>2. /\ [r EXCEPT !.on = FALSE, !.linked = FALSE] \in W!Row
      /\ [r EXCEPT !.on = FALSE, !.linked = FALSE].again = r.again
  BY DEF W!Row
<1>3. /\ [r EXCEPT !.on = FALSE, !.next = "none"] \in W!Row
      /\ [r EXCEPT !.on = FALSE, !.next = "none"].again = r.again
  BY DEF W!Row
<1>4. /\ [r EXCEPT !.linked = TRUE, !.next = "waiting", !.again = FALSE] \in W!Row
      /\ ~[r EXCEPT !.linked = TRUE, !.next = "waiting", !.again = FALSE].again
  BY DEF W!Row
<1>5. /\ [r EXCEPT !.next = "waiting", !.again = FALSE] \in W!Row
      /\ ~[r EXCEPT !.next = "waiting", !.again = FALSE].again
  BY DEF W!Row
<1>6. \A n \in {"due", "missed"} : [r EXCEPT !.next = n] \in W!Row /\ [r EXCEPT !.next = n].again = r.again
  BY DEF W!Row
<1>7. W!Again(r) \in W!Row
  BY DEF W!Row, W!Again
<1>8. QED BY <1>1, <1>2, <1>3, <1>4, <1>5, <1>6, <1>7

LEMMA LogFields ==
    ASSUME NEW l \in W!Log
    PROVE  /\ l.status \in {"none", "running", "success", "failed", "skipped"}
           /\ l.streak \in 0 .. 4 /\ l.used \subseteq {1, 5} /\ l.told \subseteq W!Kind
BY DEF W!Log, W!Kind

\* No task is ordered again by the step.
NoneAgain == \A t \in Task : Again(t)' => Again(t)

\* A pause of the youngest tasks leaves what they are to do again.
LEMMA ReconciledKeeps ==
    ASSUME SendInv, NEW limit
    PROVE  /\ W!Reconciled(limit) \in [Task -> W!Row \union {None, Gone}]
           /\ \A t \in Task : W!Reconciled(limit)[t] \notin {None, Gone} =>
                 /\ W!Exists(t) /\ W!Reconciled(limit)[t] \in W!Row
                 /\ W!Reconciled(limit)[t].again = task[t].again
           /\ \A t \in Task : W!Exists(t) => W!Reconciled(limit)[t] \in W!Row
<1> DEFINE R == W!Reconciled(limit)
<1>1. \A t \in Task : \/ R[t] = task[t]
                      \/ W!Exists(t) /\ R[t] = [task[t] EXCEPT !.on = FALSE, !.next = "none"]
  BY DEF W!Reconciled, W!Enabled
<1>2. \A t \in Task : W!Exists(t) => task[t] \in W!Row
  BY SendTypes DEF W!Exists
<1>3. \A t \in Task : W!Exists(t) =>
         /\ [task[t] EXCEPT !.on = FALSE, !.next = "none"] \in W!Row
         /\ [task[t] EXCEPT !.on = FALSE, !.next = "none"].again = task[t].again
  BY <1>2, RowChanged
<1>4. R = [t \in Task |-> R[t]]
  BY DEF W!Reconciled
<1>5. \A t \in Task : R[t] \in W!Row \union {None, Gone}
  BY <1>1, <1>3, SendTypes
<1>6. R \in [Task -> W!Row \union {None, Gone}]
  BY <1>4, <1>5
<1>7. QED BY <1>1, <1>2, <1>3, <1>6, SparkAssumption DEF W!Exists

\* A run that ended: its record, and the mails that its streak may have had.
LEMMA FinishedFits ==
    ASSUME SendInv, NEW t \in Task, NEW status \in {"success", "failed", "skipped"},
           NEW why \in {"none", "retry", "auth", "target", "conversation", "other"},
           NEW safe
    PROVE  /\ W!Finished(t, status, why, safe) \in W!Log
           /\ W!Finished(t, status, why, safe).status = status
           /\ W!Finished(t, status, why, safe).code = why
           /\ status = "failed" => /\ W!Finished(t, status, why, safe).streak \in 1 .. 4
                                   /\ StreakFits(W!Finished(t, status, why, safe), notes[t])
           /\ status # "failed" => W!Finished(t, status, why, safe).streak = 0
<1> DEFINE l == log[t]
<1>1. l \in W!Log /\ StreakFits(l, notes[t]) /\ notes[t] \in [W!Kind -> Nat]
  BY SendTypes DEF SendInv, NotesFit
<1>2. PICK x \in W!Log : x = l
  BY <1>1
<1> DEFINE open == IF safe THEN "open" ELSE x.rerun
           keys == IF x.streak = 0 THEN {} ELSE x.told
           left == IF status = "success" THEN "none" ELSE x.rerun
           a == [x EXCEPT !.status = status, !.code = why]
           g(n, r) == [a EXCEPT !.streak = n, !.rerun = r]
           f(n, r, told) == [g(n, r) EXCEPT !.told = told]
           count == IF x.streak = 4 THEN 4 ELSE x.streak + 1
<1>3. W!Finished(t, status, why, safe)
        = IF status = "failed" THEN f(count, open, keys) ELSE g(0, left)
  BY <1>2 DEF W!Finished
<1>4. x.streak \in 0 .. 4 /\ x.told \subseteq {"target", "repeated"}
  BY DEF W!Log
<1>5. a \in W!Log /\ a.status = status /\ a.code = why
  BY DEF W!Log
<1>6. \A n \in 0 .. 4, r \in {"none", "open", "noted"} :
         g(n, r) \in W!Log /\ g(n, r).status = status /\ g(n, r).code = why /\ g(n, r).streak = n
  <2> HIDE DEF a
  <2>1. \A n \in 0 .. 4, r \in {"none", "open", "noted"} : g(n, r) \in W!Log
    BY <1>5 DEF W!Log
  <2>2. QED BY <1>5, <2>1 DEF W!Log
<1>7. \A n \in 0 .. 4, r \in {"none", "open", "noted"}, told \in SUBSET {"target", "repeated"} :
         /\ f(n, r, told) \in W!Log
         /\ f(n, r, told).status = status /\ f(n, r, told).code = why
         /\ f(n, r, told).streak = n /\ f(n, r, told).told = told
  <2> HIDE DEF g
  <2>1. \A l1 \in W!Log, told \in SUBSET {"target", "repeated"} :
           LET d == [l1 EXCEPT !.told = told]
           IN  /\ d \in W!Log /\ d.status = l1.status /\ d.code = l1.code
               /\ d.streak = l1.streak /\ d.told = told
    BY DEF W!Log
  <2>2. QED BY <1>6, <2>1
<1>8. /\ count \in 1 .. 4 /\ count \in 0 .. 4
      /\ open \in {"none", "open", "noted"} /\ left \in {"none", "open", "noted"}
      /\ keys \in SUBSET {"target", "repeated"}
  BY <1>4 DEF W!Log
<1> HIDE DEF f, g, open, left, count
<1>9. ASSUME status = "failed"
      PROVE  /\ f(count, open, keys) \in W!Log
             /\ f(count, open, keys).status = status /\ f(count, open, keys).code = why
             /\ f(count, open, keys).streak \in 1 .. 4
             /\ StreakFits(f(count, open, keys), notes[t])
  <2>1. \A k \in W!Kind : notes[t][k] <= 1 /\ (notes[t][k] = 1 => k \in keys)
    BY <1>1, <1>2 DEF StreakFits
  <2> HIDE DEF keys
  <2>2. PICK d : d = f(count, open, keys)
    OBVIOUS
  <2>3. /\ d \in W!Log /\ d.status = status /\ d.code = why
        /\ d.streak \in 1 .. 4 /\ d.told = keys
    BY <1>7, <1>8, <2>2
  <2>4. StreakFits(d, notes[t])
    BY <2>1, <2>3 DEF StreakFits
  <2>5. QED BY <2>2, <2>3, <2>4
<1>10. g(0, left) \in W!Log /\ g(0, left).status = status /\ g(0, left).code = why /\ g(0, left).streak = 0
  <2>1. 0 \in 0 .. 4
    OBVIOUS
  <2>2. QED BY <1>6, <1>8, <2>1
<1> HIDE DEF keys
<1>11. QED BY <1>3, <1>9, <1>10

\* A step of the console that neither claims, records nor orders again.
SameStory == \A t \in Task : /\ log'[t].status = log[t].status /\ log'[t].code = log[t].code
                             /\ log'[t].streak = log[t].streak /\ log'[t].told = log[t].told

LEMMA EditFits ==
    ASSUME SendInv, NoneAgain,
           task' \in [Task -> W!Row \union {None, Gone}],
           log' \in [Task -> W!Log], SameStory,
           account' \in {account, Gone}, quota' \in 0 .. Cardinality(Task),
           retrying' \in Task \union {None}, edits' \in 0 .. MaxEdits,
           UNCHANGED <<stage, now, result, skewed, sent, excused, mails, notes, sparkFaults>>
    PROVE  SendInv'
<1>1. W!TypeOK'
  BY SendTypes, SparkAssumption DEF SendInv, W!TypeOK
<1>2. WorkFitsRun' /\ IncidentFits'
  BY SparkAssumption DEF SendInv, WorkFitsRun, Busy, IncidentFits, SameStory
<1>3. NotesFit'
  BY DEF SendInv, NotesFit, StreakFits, SameStory
<1>4. SendsPaid'
  BY DEF SendInv, SendsPaid, NoneAgain, SameStory
<1>5. RunPaid'
  BY DEF SendInv, RunPaid, WorkFitsRun, Busy, NoneAgain
<1>6. QED BY <1>1, <1>2, <1>3, <1>4, <1>5 DEF SendInv

LEMMA EditCounted ==
    ASSUME SendInv, W!Edited
    PROVE  edits' \in 0 .. MaxEdits
BY SendTypes, SparkAssumption DEF W!Edited

\* One row is written.
LEMMA OneRowFits ==
    ASSUME SendInv, NEW t \in Task, NEW r \in W!Row, task' = [task EXCEPT ![t] = r],
           r.again => Again(t)
    PROVE  task' \in [Task -> W!Row \union {None, Gone}] /\ NoneAgain
<1>1. task' \in [Task -> W!Row \union {None, Gone}]
  BY SendTypes
<1>2. \A s \in Task : task'[s] = IF s = t THEN r ELSE task[s]
  BY SendTypes
<1>3. NoneAgain
  BY <1>2 DEF NoneAgain, Again, W!Exists
<1>4. QED BY <1>1, <1>3

LEMMA OneTaskEdited ==
    ASSUME SendInv, NEW t \in Task, W!Create(t) \/ W!Edit(t) \/ W!Toggle(t) \/ W!Passes(t)
    PROVE  SendInv'
<1>1. account' = account /\ quota' = quota /\ edits' \in 0 .. MaxEdits /\ log' = log
      /\ UNCHANGED <<retrying, stage, now, result, skewed, sent, excused, mails, notes, sparkFaults>>
  BY EditCounted, SendTypes DEF W!Create, W!Edit, W!Toggle, W!Passes, W!worker, W!history
<1>2. quota' \in 0 .. Cardinality(Task)
  BY <1>1, SendTypes
<1>3. W!Exists(t) => task[t] \in W!Row
  BY SendTypes DEF W!Exists
<1>4. \E r \in W!Row : task' = [task EXCEPT ![t] = r] /\ (r.again => Again(t))
  <2>1. CASE W!Create(t)
    <3> DEFINE r == [on |-> TRUE, linked |-> TRUE, next |-> "waiting", again |-> FALSE]
    <3>1. r \in W!Row /\ ~r.again
      BY DEF W!Row
    <3>2. QED BY <2>1, <3>1 DEF W!Create
  <2>2. CASE W!Edit(t)
    BY <1>3, <2>2, RowChanged DEF W!Edit
  <2>3. CASE W!Toggle(t)
    <3>1. PICK r \in W!Row : r = task[t]
      BY <1>3, <2>3 DEF W!Toggle
    <3>2. [r EXCEPT !.on = ~r.on] \in W!Row /\ [r EXCEPT !.on = ~r.on].again = r.again
      BY DEF W!Row
    <3>3. task' = [task EXCEPT ![t] = [r EXCEPT !.on = ~r.on]]
      BY <2>3, <3>1 DEF W!Toggle
    <3>4. QED BY <2>3, <3>1, <3>2, <3>3 DEF W!Toggle, Again
  <2>4. CASE W!Passes(t)
    <3>1. PICK r \in W!Row : r = task[t]
      BY <1>3, <2>4 DEF W!Passes
    <3> DEFINE n == IF r.next = "waiting" THEN "due" ELSE "missed"
    <3>2. [r EXCEPT !.next = n] \in W!Row /\ [r EXCEPT !.next = n].again = r.again
      BY RowChanged
    <3>3. task' = [task EXCEPT ![t] = [r EXCEPT !.next = n]]
      BY <2>4, <3>1 DEF W!Passes
    <3>4. QED BY <2>4, <3>1, <3>2, <3>3 DEF W!Passes, Again
  <2>5. QED BY <2>1, <2>2, <2>3, <2>4
<1>5. task' \in [Task -> W!Row \union {None, Gone}] /\ NoneAgain
  BY <1>4, OneRowFits
<1>6. log' \in [Task -> W!Log] /\ SameStory
  BY <1>1, SendTypes DEF SameStory
<1>7. QED BY <1>1, <1>2, <1>5, <1>6, SendTypes, EditFits

LEMMA ForgottenFits ==
    ASSUME SendInv, NEW t \in Task, W!Forgotten(t)
    PROVE  SendInv'
<1>1. PICK l \in W!Log : l = log[t]
  BY SendTypes
<1>2. PICK u \in SUBSET {1, 5}, r \in {"none", "open", "noted"} :
         \/ log' = [log EXCEPT ![t] = [l EXCEPT !.used = u]]
         \/ log' = [log EXCEPT ![t] = [l EXCEPT !.rerun = r]]
  <2>1. CASE \E d \in log[t].used : log' = [log EXCEPT ![t].used = @ \ {d}]
    <3>1. PICK d \in log[t].used : log' = [log EXCEPT ![t].used = @ \ {d}]
      BY <2>1
    <3>2. l.used \ {d} \in SUBSET {1, 5}
      BY LogFields
    <3>3. log' = [log EXCEPT ![t] = [l EXCEPT !.used = l.used \ {d}]]
      BY <1>1, <3>1
    <3>4. QED BY <3>2, <3>3
  <2>2. CASE log' = [log EXCEPT ![t].rerun = "none"]
    BY <1>1, <2>2
  <2>3. QED BY <2>1, <2>2 DEF W!Forgotten
<1>3. /\ [l EXCEPT !.used = u] \in W!Log /\ [l EXCEPT !.rerun = r] \in W!Log
      /\ \A m \in {[l EXCEPT !.used = u], [l EXCEPT !.rerun = r]} :
            m.status = l.status /\ m.code = l.code /\ m.streak = l.streak /\ m.told = l.told
  BY DEF W!Log
<1>4. PICK m \in W!Log : /\ log' = [log EXCEPT ![t] = m]
                         /\ m.status = l.status /\ m.code = l.code
                         /\ m.streak = l.streak /\ m.told = l.told
  BY <1>2, <1>3
<1>5. log' \in [Task -> W!Log] /\ SameStory
  BY <1>1, <1>4, SendTypes DEF SameStory
<1>6. UNCHANGED <<task, account, quota, retrying, stage, now, result, skewed, sent, excused, mails, notes,
                  edits, sparkFaults>>
  BY DEF W!Forgotten, W!worker, W!history
<1>7. NoneAgain
  BY <1>6 DEF NoneAgain, Again, W!Exists
<1>8. QED BY <1>5, <1>6, <1>7, SendTypes, EditFits

LEMMA QuotaFits ==
    ASSUME SendInv, W!DeleteAccount \/ W!Grant \/ W!UpdateGrant
    PROVE  SendInv'
<1>1. /\ account' \in {account, Gone} /\ edits' \in 0 .. MaxEdits /\ log' = log
      /\ UNCHANGED <<retrying, stage, now, result, skewed, sent, excused, mails, notes, sparkFaults>>
  BY EditCounted DEF W!DeleteAccount, W!Grant, W!UpdateGrant, W!NewQuota, W!worker, W!history
<1>2. quota' \in 0 .. Cardinality(Task)
  BY SendTypes, SparkAssumption DEF W!DeleteAccount, W!Grant, W!UpdateGrant, W!NewQuota
<1>3. task' \in [Task -> W!Row \union {None, Gone}] /\ NoneAgain
  <2>1. CASE W!DeleteAccount
    <3>1. \A t \in Task : W!Exists(t) => task[t] \in W!Row
      BY SendTypes DEF W!Exists
    <3>2. \A t \in Task : task'[t] = IF W!Exists(t) THEN [task[t] EXCEPT !.on = FALSE, !.linked = FALSE]
                                     ELSE task[t]
      BY <2>1 DEF W!DeleteAccount
    <3>3. \A t \in Task : W!Exists(t) =>
             /\ [task[t] EXCEPT !.on = FALSE, !.linked = FALSE] \in W!Row
             /\ [task[t] EXCEPT !.on = FALSE, !.linked = FALSE].again = task[t].again
      BY <3>1, RowChanged
    <3>4. \A t \in Task : task'[t] \in W!Row \union {None, Gone}
      BY <3>2, <3>3, SendTypes
    <3>5. task' \in [Task -> W!Row \union {None, Gone}]
      BY <2>1, <3>4 DEF W!DeleteAccount
    <3>6. NoneAgain
      BY <3>2, <3>3 DEF NoneAgain, Again, W!Exists
    <3>7. QED BY <3>5, <3>6
  <2>2. CASE W!Grant
    BY <2>2, SendTypes DEF W!Grant, NoneAgain, Again, W!Exists
  <2>3. CASE W!UpdateGrant
    BY <2>3, ReconciledKeeps DEF W!UpdateGrant, NoneAgain, Again, W!Exists
  <2>4. QED BY <2>1, <2>2, <2>3
<1>4. log' \in [Task -> W!Log] /\ SameStory
  BY <1>1, SendTypes DEF SameStory
<1>5. QED BY <1>1, <1>2, <1>3, <1>4, SendTypes, EditFits

LEMMA DeleteFits ==
    ASSUME SendInv, NEW t \in Task, W!Delete(t)
    PROVE  SendInv'
<1>1. /\ UNCHANGED <<account, quota, retrying, stage, now, result, skewed, sent, excused, mails, sparkFaults>>
      /\ edits' \in 0 .. MaxEdits
  BY EditCounted DEF W!Delete, W!worker
<1>2. W!NoLog \in W!Log /\ W!NoLog.status = "none"
      /\ StreakFits(W!NoLog, [k \in W!Kind |-> 0])
  BY DEF W!NoLog, W!Log, W!Kind, StreakFits
<1>3. /\ task' \in [Task -> W!Row \union {None, Gone}]
      /\ log' \in [Task -> W!Log] /\ notes' \in [Task -> [W!Kind -> Nat]]
  BY <1>2, SendTypes DEF W!Delete
<1>4. \A s \in Task : IF s = t THEN /\ ~Again(s)' /\ log'[s] = W!NoLog
                                    /\ notes'[s] = [k \in W!Kind |-> 0]
                      ELSE /\ Again(s)' <=> Again(s)
                           /\ log'[s] = log[s] /\ notes'[s] = notes[s]
  BY SendTypes DEF W!Delete, Again, W!Exists
<1>5. W!TypeOK'
  BY <1>1, <1>3, SparkAssumption DEF SendInv, W!TypeOK
<1>6. WorkFitsRun' /\ IncidentFits'
  BY <1>1, <1>2, <1>4 DEF SendInv, WorkFitsRun, Busy, IncidentFits
<1>7. NotesFit'
  BY <1>2, <1>4 DEF SendInv, NotesFit
<1>8. SendsPaid'
  BY <1>1, <1>2, <1>4 DEF SendInv, SendsPaid
<1>9. RunPaid'
  BY <1>1, <1>4 DEF SendInv, RunPaid, WorkFitsRun, Busy
<1>10. QED BY <1>5, <1>6, <1>7, <1>8, <1>9 DEF SendInv

LEMMA ReadRetryFits ==
    ASSUME SendInv, NEW t \in Task, W!ReadRetry(t)
    PROVE  SendInv'
<1>1. /\ UNCHANGED <<task, account, log, quota, stage, now, result, skewed, sent, excused, mails,
                     notes, sparkFaults>>
      /\ edits' \in 0 .. MaxEdits /\ retrying' \in Task \union {None}
  BY EditCounted DEF W!ReadRetry, W!worker, W!history
<1>2. NoneAgain
  BY <1>1 DEF NoneAgain, Again, W!Exists
<1>3. log' \in [Task -> W!Log] /\ SameStory
  BY <1>1, SendTypes DEF SameStory
<1>4. QED BY <1>1, <1>2, <1>3, SendTypes, EditFits

\* Ordered again by an administrator: nothing was sent that is not paid for, or
\* the run it was for is no longer the last, and the retry is an excuse itself.
LEMMA WriteRetryFits ==
    ASSUME SendInv, NEW t \in Task, W!WriteRetry(t)
    PROVE  SendInv'
<1>1. /\ UNCHANGED <<account, log, quota, stage, now, result, skewed, sent, mails, notes, edits,
                     sparkFaults>>
      /\ retrying' = None
  BY DEF W!WriteRetry, W!worker
<1>2. CASE ~W!Exists(t)
  <2>1. UNCHANGED <<task, excused>>
    BY <1>2 DEF W!WriteRetry
  <2>2. W!TypeOK'
    BY <1>1, <2>1, SparkAssumption DEF SendInv, W!TypeOK
  <2>3. WorkFitsRun' /\ RunPaid' /\ IncidentFits' /\ NotesFit' /\ SendsPaid'
    BY <1>1, <2>1 DEF SendInv, WorkFitsRun, Busy, RunPaid, IncidentFits, NotesFit, SendsPaid,
                     Again, W!Exists
  <2>4. QED BY <2>2, <2>3 DEF SendInv
<1>3. CASE W!Exists(t)
  <2>1. task' = [task EXCEPT ![t] = W!Again(task[t])] /\ W!Again(task[t]) \in W!Row
    <3>1. task[t] \in W!Row
      BY <1>3, SendTypes DEF W!Exists
    <3>2. QED BY <1>3, <3>1, RowChanged DEF W!WriteRetry
  <2>2. task' \in [Task -> W!Row \union {None, Gone}]
    BY <2>1, SendTypes
  <2>3. \A s \in Task : s # t => (Again(s)' => Again(s))
    BY <2>1, SendTypes DEF Again, W!Exists
  <2>4. sent[t] \in Nat /\ excused[t] \in Nat /\ sent[t] <= 1 + excused[t]
    BY SendTypes DEF SendInv, SendsPaid
  <2>5. /\ excused' \in [Task -> Nat] /\ \A s \in Task : s # t => excused'[s] = excused[s]
        /\ excused'[t] = IF W!FailedSafely(t) THEN excused[t] ELSE excused[t] + 1
    BY <1>3, SendTypes DEF W!WriteRetry
  <2>6. sent[t] <= excused'[t] /\ excused[t] <= excused'[t]
    <3>1. W!FailedSafely(t) => sent[t] <= excused[t]
      BY DEF SendInv, SendsPaid, W!FailedSafely, Unsent
    <3>2. QED BY <2>4, <2>5, <3>1
  <2>7. W!TypeOK'
    BY <1>1, <2>2, <2>5, SparkAssumption DEF SendInv, W!TypeOK
  <2>8. WorkFitsRun' /\ IncidentFits' /\ NotesFit'
    BY <1>1 DEF SendInv, WorkFitsRun, Busy, IncidentFits, NotesFit
  <2>9. SendsPaid'
    <3> SUFFICES ASSUME NEW s \in Task
                 PROVE  /\ sent'[s] <= 1 + excused'[s]
                        /\ Again(s)' \/ (log'[s].status = "failed" /\ log'[s].code \in Unsent)
                             => sent'[s] <= excused'[s]
      BY DEF SendsPaid
    <3>1. CASE s = t
      <4>1. excused'[t] \in Nat
        BY <2>5
      <4>2. QED BY <1>1, <2>4, <2>6, <3>1, <4>1
    <3>2. CASE s # t
      BY <1>1, <2>3, <2>5, <3>2 DEF SendInv, SendsPaid
    <3>3. QED BY <3>1, <3>2
  <2>10. RunPaid'
    <3>1. CASE Busy /\ now = t
      <4>1. log[t].status \in {"running", "none"}
        BY <3>1 DEF SendInv, WorkFitsRun
      <4>2. excused'[t] = excused[t] + 1
        BY <2>5, <4>1 DEF W!FailedSafely
      <4>3. QED BY <1>1, <2>4, <2>6, <3>1, <4>2 DEF SendInv, RunPaid, Busy
    <3>2. CASE Busy /\ now # t
      <4>1. now \in Task
        BY <3>2 DEF SendInv, WorkFitsRun
      <4>2. QED BY <1>1, <2>3, <2>5, <3>2, <4>1 DEF SendInv, RunPaid
    <3>3. CASE ~Busy
      BY <1>1, <3>3 DEF RunPaid, Busy
    <3>4. QED BY <3>1, <3>2, <3>3
  <2>11. QED BY <2>7, <2>8, <2>9, <2>10 DEF SendInv
<1>4. QED BY <1>2, <1>3

\* A step that excuses what it orders again.
LEMMA ExcusedFits ==
    ASSUME SendInv, NEW again \in SUBSET Task,
           task' = [t \in Task |-> IF t \in again THEN W!Again(task[t]) ELSE task[t]],
           excused' = [t \in Task |-> excused[t] + IF t \in again THEN 1 ELSE 0],
           \A t \in again : W!Exists(t), UNCHANGED sent
    PROVE  /\ task' \in [Task -> W!Row \union {None, Gone}] /\ excused' \in [Task -> Nat]
           /\ \A t \in Task : /\ sent'[t] <= 1 + excused'[t]
                              /\ Again(t)' => sent'[t] <= excused'[t]
                              /\ sent[t] <= excused[t] =>
                                    /\ sent'[t] <= excused'[t]
                                    /\ Again(t)' => Again(t) \/ sent'[t] + 1 <= excused'[t]
                              /\ sent[t] + 1 <= excused[t] => sent'[t] + 1 <= excused'[t]
<1>1. \A t \in again : task[t] \in W!Row
  BY SendTypes DEF W!Exists
<1>2. \A t \in again : W!Again(task[t]) \in W!Row
  BY <1>1, RowChanged
<1>3. task' \in [Task -> W!Row \union {None, Gone}]
  BY <1>2, SendTypes
<1>4. \A t \in Task : excused'[t] = IF t \in again THEN excused[t] + 1 ELSE excused[t]
  BY SendTypes
<1>5. excused' \in [Task -> Nat]
  BY SendTypes
<1>6. \A t \in Task : t \notin again => (Again(t)' <=> Again(t))
  BY DEF Again, W!Exists
<1>7. ASSUME NEW t \in Task
      PROVE  /\ sent'[t] <= 1 + excused'[t]
             /\ Again(t)' => sent'[t] <= excused'[t]
             /\ sent[t] <= excused[t] =>
                   /\ sent'[t] <= excused'[t]
                   /\ Again(t)' => Again(t) \/ sent'[t] + 1 <= excused'[t]
             /\ sent[t] + 1 <= excused[t] => sent'[t] + 1 <= excused'[t]
  <2>1. sent[t] \in Nat /\ excused[t] \in Nat /\ sent'[t] = sent[t]
    BY SendTypes
  <2>2. sent[t] <= 1 + excused[t] /\ (Again(t) => sent[t] <= excused[t])
    BY DEF SendInv, SendsPaid
  <2>3. CASE t \in again
    BY <1>4, <2>1, <2>2, <2>3
  <2>4. CASE t \notin again
    BY <1>4, <1>6, <2>1, <2>2, <2>4
  <2>5. QED BY <2>3, <2>4
<1>8. QED BY <1>3, <1>5, <1>7

\* A login orders its tasks again, and is the next excuse of each.
LEMMA RebindFits ==
    ASSUME SendInv, W!Rebind
    PROVE  SendInv'
<1> DEFINE repeated == {t \in Task : W!Enabled(t) /\ task[t].linked /\ log[t].rerun = "open"}
<1>1. /\ task' = [t \in Task |-> IF t \in repeated THEN W!Again(task[t]) ELSE task[t]]
      /\ log' = [t \in Task |-> IF t \in repeated THEN [log[t] EXCEPT !.rerun = "noted"] ELSE log[t]]
      /\ excused' = [t \in Task |-> excused[t] + IF t \in repeated THEN 1 ELSE 0]
  BY DEF W!Rebind
<1>2. /\ UNCHANGED <<quota, retrying, stage, now, result, skewed, sent, notes, sparkFaults>>
      /\ edits' \in 0 .. MaxEdits
      /\ account' = [valid |-> TRUE, incident |-> FALSE] /\ mails' = 0
  BY EditCounted DEF W!Rebind, W!worker
<1>3. \A l \in W!Log : /\ [l EXCEPT !.rerun = "noted"] \in W!Log
                       /\ [l EXCEPT !.rerun = "noted"].status = l.status
                       /\ [l EXCEPT !.rerun = "noted"].code = l.code
                       /\ [l EXCEPT !.rerun = "noted"].streak = l.streak
                       /\ [l EXCEPT !.rerun = "noted"].told = l.told
  BY DEF W!Log
<1>4. repeated \in SUBSET Task /\ \A t \in repeated : W!Exists(t)
  BY DEF W!Enabled
<1> HIDE DEF repeated
<1>5. log' \in [Task -> W!Log] /\ SameStory
  BY <1>1, <1>3, SendTypes DEF SameStory
<1>6. /\ task' \in [Task -> W!Row \union {None, Gone}] /\ excused' \in [Task -> Nat]
      /\ \A t \in Task : /\ sent'[t] <= 1 + excused'[t]
                         /\ Again(t)' => sent'[t] <= excused'[t]
                         /\ sent[t] <= excused[t] =>
                               /\ sent'[t] <= excused'[t]
                               /\ Again(t)' => Again(t) \/ sent'[t] + 1 <= excused'[t]
                         /\ sent[t] + 1 <= excused[t] => sent'[t] + 1 <= excused'[t]
  BY <1>1, <1>2, <1>4, ExcusedFits
<1>7. W!TypeOK'
  BY <1>2, <1>5, <1>6, SparkAssumption DEF SendInv, W!TypeOK
<1>8. WorkFitsRun' /\ IncidentFits'
  BY <1>2, <1>5 DEF SendInv, WorkFitsRun, Busy, IncidentFits, SameStory
<1>9. NotesFit'
  BY <1>2, <1>5 DEF SendInv, NotesFit, StreakFits, SameStory
<1>10. SendsPaid'
  BY <1>5, <1>6 DEF SendInv, SendsPaid, SameStory
<1>11. RunPaid'
  BY <1>2, <1>6 DEF SendInv, RunPaid, WorkFitsRun, Busy
<1>12. QED BY <1>7, <1>8, <1>9, <1>10, <1>11 DEF SendInv

-----------------------------------------------------------------------------
(* The sending worker *)

\* What an interruption leaves is a failure, and its task is excused once more.
LEMMA BootSendFits ==
    ASSUME SendInv, W!Boot
    PROVE  SendInv'
<1> DEFINE again == {t \in Task : W!Interrupted(t) /\ W!Enabled(t)}
           ended(t) == W!Finished(t, "failed", "other", FALSE)
<1>1. /\ stage' = "idle" /\ stage = "down"
      /\ log' = [t \in Task |-> IF W!Interrupted(t) THEN ended(t) ELSE log[t]]
      /\ task' = [t \in Task |-> IF t \in again THEN W!Again(task[t]) ELSE task[t]]
      /\ excused' = [t \in Task |-> excused[t] + IF t \in again THEN 1 ELSE 0]
      /\ UNCHANGED <<account, quota, retrying, now, result, skewed, sent, mails, notes, edits, sparkFaults>>
  BY DEF W!Boot
<1>2. \A t \in Task : /\ ended(t) \in W!Log /\ ended(t).status = "failed" /\ ended(t).code = "other"
                      /\ StreakFits(ended(t), notes[t])
  <2>1. /\ "failed" \in {"success", "failed", "skipped"}
        /\ "other" \in {"none", "retry", "auth", "target", "conversation", "other"}
    OBVIOUS
  <2> HIDE DEF again
  <2>2. SUFFICES ASSUME NEW t \in Task
                 PROVE  /\ W!Finished(t, "failed", "other", FALSE) \in W!Log
                        /\ W!Finished(t, "failed", "other", FALSE).status = "failed"
                        /\ W!Finished(t, "failed", "other", FALSE).code = "other"
                        /\ StreakFits(W!Finished(t, "failed", "other", FALSE), notes[t])
    OBVIOUS
  <2>3. /\ W!Finished(t, "failed", "other", FALSE) \in W!Log
    BY <2>1, FinishedFits
  <2>4. \A s \in {"success", "failed", "skipped"},
           w \in {"none", "retry", "auth", "target", "conversation", "other"}, safe \in BOOLEAN :
           W!Finished(t, s, w, safe).status = s /\ W!Finished(t, s, w, safe).code = w
    BY FinishedFits
  <2>5. /\ W!Finished(t, "failed", "other", FALSE).status = "failed"
        /\ W!Finished(t, "failed", "other", FALSE).code = "other"
    BY <2>1, <2>4, Zenon
  <2>6. StreakFits(W!Finished(t, "failed", "other", FALSE), notes[t])
    BY <2>1, FinishedFits
  <2>7. QED BY <2>3, <2>4, <2>5, <2>6
<1>3. again \in SUBSET Task /\ \A t \in again : W!Exists(t)
  BY DEF W!Enabled
<1> HIDE DEF again, ended
<1>4. /\ task' \in [Task -> W!Row \union {None, Gone}] /\ excused' \in [Task -> Nat]
      /\ \A t \in Task : /\ sent'[t] <= 1 + excused'[t]
                         /\ Again(t)' => sent'[t] <= excused'[t]
                         /\ sent[t] <= excused[t] => sent'[t] <= excused'[t]
  BY <1>1, <1>3, ExcusedFits
<1>5. log' \in [Task -> W!Log]
  BY <1>1, <1>2, SendTypes
<1>6. W!TypeOK'
  BY <1>1, <1>4, <1>5 DEF SendInv, W!TypeOK
<1>7. WorkFitsRun' /\ RunPaid' /\ IncidentFits'
  BY <1>1 DEF SendInv, WorkFitsRun, Busy, RunPaid, IncidentFits
<1>8. NotesFit'
  BY <1>1, <1>2 DEF SendInv, NotesFit
<1>9. SendsPaid'
  BY <1>1, <1>2, <1>4 DEF SendInv, SendsPaid, Unsent
<1>10. QED BY <1>6, <1>7, <1>8, <1>9 DEF SendInv

LEMMA CrashFits ==
    ASSUME SendInv, W!Crash
    PROVE  SendInv'
<1>1. /\ stage' = "down" /\ now' = None /\ sparkFaults' \in 0 .. MaxSparkFaults
      /\ UNCHANGED <<task, account, log, quota, retrying, skewed, sent, excused, mails, notes, edits>>
  BY SendTypes, SparkAssumption DEF W!Crash, W!Faulted, W!console, W!history
<1>2. W!TypeOK'
  BY <1>1 DEF SendInv, W!TypeOK
<1>3. WorkFitsRun' /\ RunPaid' /\ IncidentFits' /\ NotesFit'
  BY <1>1 DEF SendInv, WorkFitsRun, Busy, RunPaid, IncidentFits, NotesFit
<1>4. SendsPaid'
  BY <1>1 DEF SendInv, SendsPaid, Again, W!Exists
<1>5. QED BY <1>2, <1>3, <1>4 DEF SendInv

\* Enter is pressed by a run that is paid for.
LEMMA SubmitFits ==
    ASSUME SendInv, W!Submit
    PROVE  SendInv'
<1>1. /\ stage = "executing" /\ stage' = "submitted"
      /\ sent' = [sent EXCEPT ![now] = @ + 1]
      /\ UNCHANGED <<task, account, log, quota, retrying, now, result, skewed, excused, mails, notes, edits,
                     sparkFaults>>
  BY DEF W!Submit, W!console
<1>2. /\ now \in Task /\ log[now].status \in {"running", "none"}
      /\ sent[now] <= excused[now] /\ (Again(now) => sent[now] + 1 <= excused[now])
  BY <1>1 DEF SendInv, WorkFitsRun, Busy, RunPaid
<1>3. sent' \in [Task -> Nat]
  BY <1>1, <1>2, SendTypes
<1>4. W!TypeOK'
  BY <1>1, <1>3 DEF SendInv, W!TypeOK
<1>5. WorkFitsRun' /\ RunPaid' /\ IncidentFits' /\ NotesFit'
  BY <1>1 DEF SendInv, WorkFitsRun, Busy, RunPaid, IncidentFits, NotesFit
<1>6. ASSUME NEW t \in Task
      PROVE  /\ sent'[t] <= 1 + excused[t]
             /\ Again(t) \/ (log[t].status = "failed" /\ log[t].code \in Unsent) => sent'[t] <= excused[t]
  <2>1. sent[t] \in Nat /\ excused[t] \in Nat
    BY SendTypes
  <2>2. CASE t = now
    <3>1. sent'[t] = sent[t] + 1
      BY <1>1, <1>2, <2>2, SendTypes
    <3>2. QED BY <1>2, <2>1, <2>2, <3>1
  <2>3. CASE t # now
    <3>1. sent'[t] = sent[t]
      BY <1>1, <2>3, SendTypes
    <3>2. QED BY <3>1 DEF SendInv, SendsPaid
  <2>4. QED BY <2>2, <2>3
<1>7. SendsPaid'
  BY <1>1, <1>6 DEF SendsPaid, Again, W!Exists
<1>8. QED BY <1>4, <1>5, <1>7 DEF SendInv

\* What a run reports after it sent is never a reason to repeat it.
LEMMA ResultsFit ==
    ASSUME NEW submitted \in BOOLEAN, NEW r \in W!Results(submitted)
    PROVE  /\ r \in Outcome
           /\ submitted => ~r.retry /\ r.code \notin Unsent
<1> DEFINE F(why, safe, retry) == [status |-> "failed", code |-> why, safe |-> safe, retry |-> retry]
           success == [status |-> "success", code |-> "none", safe |-> FALSE, retry |-> FALSE]
<1>1. \A why \in {"auth", "target", "conversation", "other"}, safe, retry \in BOOLEAN :
         F(why, safe, retry) \in Outcome
  BY DEF Outcome
<1>2. success \in Outcome
  BY DEF Outcome
<1>3. CASE submitted
  <2>1. r \in {F("other", FALSE, FALSE), success}
    BY <1>3 DEF W!Results, W!Failure, W!Retryable
  <2>2. F("other", FALSE, FALSE) \in Outcome
    BY <1>1
  <2>3. \A x \in {F("other", FALSE, FALSE), success} : ~x.retry /\ x.code \notin Unsent
    BY DEF Unsent
  <2> HIDE DEF F, success
  <2>4. r \in Outcome
    BY <1>2, <2>1, <2>2
  <2>5. QED BY <2>1, <2>3, <2>4
<1>4. CASE ~submitted
  <2>1. /\ F("other", FALSE, FALSE) \in Outcome /\ F("other", FALSE, TRUE) \in Outcome
        /\ F("auth", TRUE, FALSE) \in Outcome /\ F("target", TRUE, FALSE) \in Outcome
        /\ F("conversation", TRUE, TRUE) \in Outcome /\ F("other", TRUE, TRUE) \in Outcome
    BY <1>1
  <2>2. \/ r \in {F("other", FALSE, FALSE), F("other", FALSE, TRUE), F("auth", TRUE, FALSE)}
        \/ r \in {F("target", TRUE, FALSE), F("conversation", TRUE, TRUE), F("other", TRUE, TRUE)}
    BY <1>4 DEF W!Results, W!Failure, W!Retryable
  <2> HIDE DEF F
  <2>3. r \in Outcome
    BY <2>1, <2>2
  <2>4. QED BY <1>4, <2>3
<1>5. QED BY <1>3, <1>4

LEMMA ExecuteFits ==
    ASSUME SendInv, W!Execute
    PROVE  SendInv'
<1>1. /\ stage \in {"executing", "submitted"} /\ stage' = "recording"
      /\ result' \in W!Results(stage = "submitted")
      /\ UNCHANGED <<task, account, log, quota, retrying, now, skewed, sent, excused, mails, notes, edits,
                     sparkFaults>>
  BY DEF W!Execute, W!console, W!history
<1>2. /\ result' \in Outcome
      /\ stage = "submitted" => ~result'.retry /\ result'.code \notin Unsent
  BY <1>1, ResultsFit
<1>3. W!TypeOK'
  BY <1>1 DEF SendInv, W!TypeOK
<1>4. WorkFitsRun' /\ IncidentFits' /\ NotesFit'
  BY <1>1, <1>2 DEF SendInv, WorkFitsRun, Busy, IncidentFits, NotesFit
<1>5. RunPaid'
  BY <1>1, <1>2 DEF SendInv, RunPaid
<1>6. SendsPaid'
  BY <1>1 DEF SendInv, SendsPaid, Again, W!Exists
<1>7. QED BY <1>3, <1>4, <1>5, <1>6 DEF SendInv

\* A run that is recorded, and a mail about its streak if one is due: the keys
\* tell which mails there were.
LEMMA ReportedFits ==
    ASSUME SendInv, NEW t \in Task, NEW status \in {"success", "failed"},
           NEW why \in {"none", "auth", "target", "conversation", "other"}, NEW safe \in BOOLEAN,
           W!Reported(t, status, why, safe)
    PROVE  /\ log' \in [Task -> W!Log] /\ notes' \in [Task -> [W!Kind -> Nat]] /\ NotesFit'
           /\ log'[t].status = status /\ log'[t].code = why
           /\ \A s \in Task : s # t => log'[s] = log[s]
<1> DEFINE l == W!Finished(t, status, why, safe)
           kind == IF status = "failed" THEN W!Notice(l, why) ELSE None
           told == l.told \union ({kind} \ {None})
<1>1. /\ l \in W!Log /\ l.status = status /\ l.code = why
      /\ status = "failed" => l.streak # 0 /\ StreakFits(l, notes[t])
      /\ status # "failed" => l.streak = 0
  BY FinishedFits
<1>2. kind \in {"target", "repeated", None} /\ kind \notin l.told \ {None}
  BY SparkAssumption DEF W!Notice, W!Heard
<1>3. /\ log' = [log EXCEPT ![t] = [l EXCEPT !.told = told]]
      /\ notes' = IF kind = None THEN W!Quiet(t, l) ELSE [notes EXCEPT ![t][kind] = @ + 1]
  BY DEF W!Reported
<1> HIDE DEF l, kind
<1>4. l.told \subseteq {"target", "repeated"} /\ None \notin {"target", "repeated"}
  BY <1>1, SparkAssumption DEF W!Log
<1>5. told \in SUBSET {"target", "repeated"}
  BY <1>2, <1>4
<1>6. told = IF kind = None THEN l.told ELSE l.told \union {kind}
  BY <1>4
<1> HIDE DEF told
<1>7. PICK m \in W!Log : /\ m = [l EXCEPT !.told = told]
                         /\ m.status = status /\ m.code = why /\ m.streak = l.streak /\ m.told = told
  <2> DEFINE a == [l EXCEPT !.told = told]
  <2>1. a \in W!Log
    BY <1>1, <1>5 DEF W!Log
  <2>2. a.status = l.status /\ a.code = l.code /\ a.streak = l.streak /\ a.told = told
    BY <1>1 DEF W!Log
  <2>3. a = [l EXCEPT !.told = told]
    OBVIOUS
  <2> HIDE DEF a
  <2>4. QED BY <1>1, <2>1, <2>2, <2>3
<1>8. /\ log' \in [Task -> W!Log] /\ log'[t] = m
      /\ \A s \in Task : s # t => log'[s] = log[s]
  BY <1>3, <1>7, SendTypes
<1>9. notes' \in [Task -> [W!Kind -> Nat]] /\ StreakFits(m, notes'[t])
      /\ \A s \in Task : s # t => notes'[s] = notes[s]
  <2>1. CASE kind = None /\ l.streak = 0
    <3>1. notes' = [notes EXCEPT ![t] = [k \in W!Kind |-> 0]]
      BY <1>3, <2>1 DEF W!Quiet
    <3>2. notes'[t] = [k \in W!Kind |-> 0] /\ notes' \in [Task -> [W!Kind -> Nat]]
          /\ \A s \in Task : s # t => notes'[s] = notes[s]
      BY <3>1, SendTypes
    <3>3. QED BY <1>7, <2>1, <3>2 DEF StreakFits
  <2>2. CASE kind = None /\ l.streak # 0
    <3>1. notes' = notes
      BY <1>3, <2>2 DEF W!Quiet
    <3>2. QED BY <1>1, <1>6, <1>7, <2>2, <3>1, SendTypes DEF StreakFits
  <2>3. CASE kind # None
    <3>1. kind \in W!Kind /\ status = "failed"
      BY <1>2, <2>3 DEF W!Kind, kind
    <3>2. notes' = [notes EXCEPT ![t][kind] = @ + 1]
      BY <1>3, <2>3
    <3>3. notes[t] \in [W!Kind -> Nat]
      BY SendTypes
    <3>4. notes[t][kind] = 0
      <4>1. notes[t][kind] \in Nat /\ notes[t][kind] <= 1 /\ notes[t][kind] # 1
        BY <1>1, <1>2, <2>3, <3>1, <3>3 DEF StreakFits
      <4>2. QED BY <4>1
    <3>5. notes'[t] = [notes[t] EXCEPT ![kind] = 1] /\ notes' \in [Task -> [W!Kind -> Nat]]
          /\ \A s \in Task : s # t => notes'[s] = notes[s]
      BY <3>1, <3>2, <3>3, <3>4, SendTypes
    <3>6. \A k \in W!Kind : notes'[t][k] = IF k = kind THEN 1 ELSE notes[t][k]
      BY <3>3, <3>5
    <3>7. QED BY <1>1, <1>6, <1>7, <2>3, <3>1, <3>5, <3>6 DEF StreakFits
  <2>4. QED BY <2>1, <2>2, <2>3
<1>10. NotesFit'
  BY <1>8, <1>9 DEF SendInv, NotesFit
<1>11. QED BY <1>7, <1>8, <1>9, <1>10

\* The retry of a run that sent nothing unpaid for.
LEMMA RetryFits ==
    ASSUME SendInv, stage = "recording", W!Exists(now), result.retry, W!RetryScheduled,
           stage' = "idle", now' = None,
           UNCHANGED <<quota, retrying, skewed, sent, excused, edits, sparkFaults>>
    PROVE  SendInv'
<1> DEFINE delay == IF 1 \notin log[now].used THEN 1 ELSE 5
           l == W!Finished(now, "failed", "retry", result.safe)
<1>1. now \in Task /\ result \in Outcome /\ sent[now] <= excused[now]
  BY DEF SendInv, WorkFitsRun, Busy, RunPaid
<1>2. /\ log' = [log EXCEPT ![now] = [l EXCEPT !.used = @ \union {delay}]]
      /\ task' = [task EXCEPT ![now] = W!Again(task[now])]
      /\ UNCHANGED <<account, mails, notes>>
  BY DEF W!RetryScheduled
<1>3. \A s \in {"success", "failed", "skipped"},
         w \in {"none", "retry", "auth", "target", "conversation", "other"} :
         /\ W!Finished(now, s, w, result.safe) \in W!Log
         /\ W!Finished(now, s, w, result.safe).status = s /\ W!Finished(now, s, w, result.safe).code = w
         /\ s = "failed" => StreakFits(W!Finished(now, s, w, result.safe), notes[now])
  BY <1>1, FinishedFits
<1>4. l \in W!Log /\ l.status = "failed" /\ l.code = "retry" /\ StreakFits(l, notes[now])
  BY <1>3, Zenon
<1> HIDE DEF l
<1>5. l.used \union {delay} \in SUBSET {1, 5}
  BY <1>4 DEF W!Log
<1> HIDE DEF delay
<1>6. PICK m \in W!Log : /\ m = [l EXCEPT !.used = @ \union {delay}]
                         /\ m.status = "failed" /\ m.code = "retry"
                         /\ m.streak = l.streak /\ m.told = l.told
  <2> DEFINE a == [l EXCEPT !.used = @ \union {delay}]
  <2>1. a \in W!Log
    BY <1>4, <1>5 DEF W!Log
  <2>2. a.status = l.status /\ a.code = l.code /\ a.streak = l.streak /\ a.told = l.told
    BY <1>4 DEF W!Log
  <2>3. a = [l EXCEPT !.used = @ \union {delay}]
    OBVIOUS
  <2> HIDE DEF a
  <2>4. QED BY <1>4, <2>1, <2>2, <2>3
<1>7. /\ log' \in [Task -> W!Log] /\ log'[now] = m
      /\ \A s \in Task : s # now => log'[s] = log[s]
  BY <1>1, <1>2, <1>6, SendTypes
<1>8. task[now] \in W!Row
  BY <1>1, SendTypes DEF W!Exists
<1>9. /\ task' \in [Task -> W!Row \union {None, Gone}]
      /\ \A s \in Task : s # now => (Again(s)' <=> Again(s))
  <2>1. W!Again(task[now]) \in W!Row
    BY <1>8, RowChanged
  <2>2. /\ task' \in [Task -> W!Row \union {None, Gone}]
        /\ \A s \in Task : s # now => task'[s] = task[s]
    BY <1>1, <1>2, <2>1, SendTypes
  <2>3. QED BY <2>2 DEF Again, W!Exists
<1>10. W!TypeOK'
  BY <1>2, <1>7, <1>9 DEF SendInv, W!TypeOK
<1>11. WorkFitsRun' /\ RunPaid' /\ IncidentFits'
  BY <1>2 DEF SendInv, WorkFitsRun, Busy, RunPaid, IncidentFits
<1>12. NotesFit'
  BY <1>2, <1>4, <1>6, <1>7 DEF SendInv, NotesFit, StreakFits
<1>13. SendsPaid'
  BY <1>1, <1>7, <1>9 DEF SendInv, SendsPaid
<1>14. QED BY <1>10, <1>11, <1>12, <1>13 DEF SendInv

\* What the record of a run does to the account, its tasks and its user.
LEMMA AccountFits ==
    ASSUME SendInv,
           CASE result.code = "auth" -> W!AuthIncident
             [] result.status = "success" /\ account # Gone ->
                  /\ account' = [valid |-> TRUE, incident |-> FALSE]
                  /\ mails' = 0
                  /\ UNCHANGED task
             [] OTHER -> UNCHANGED <<task, account, mails>>,
           result \in Outcome, result.code = "auth" => account # Gone
    PROVE  /\ task' \in [Task -> W!Row \union {None, Gone}] /\ NoneAgain
           /\ account' \in [valid : BOOLEAN, incident : BOOLEAN] \union {Gone}
           /\ mails' \in Nat /\ IncidentFits'
<1>1. CASE result.code = "auth"
  <2>1. /\ account' = [valid |-> FALSE, incident |-> TRUE]
        /\ task' = [t \in Task |-> IF W!Enabled(t) /\ task[t].linked
                                   THEN [task[t] EXCEPT !.on = FALSE, !.next = "none"] ELSE task[t]]
        /\ mails' = mails + IF ~account.incident THEN 1 ELSE 0
    <3>1. result.status # "success"
      BY <1>1 DEF Outcome
    <3>2. QED BY <1>1, <3>1 DEF W!AuthIncident, W!Announced
  <2>2. \A t \in Task : W!Exists(t) => task[t] \in W!Row
    BY SendTypes DEF W!Exists
  <2>3. \A t \in Task : W!Exists(t) =>
           /\ [task[t] EXCEPT !.on = FALSE, !.next = "none"] \in W!Row
           /\ [task[t] EXCEPT !.on = FALSE, !.next = "none"].again = task[t].again
    BY <2>2, RowChanged
  <2>4. \A t \in Task : \/ task'[t] = task[t]
                        \/ W!Exists(t) /\ task'[t] = [task[t] EXCEPT !.on = FALSE, !.next = "none"]
    BY <2>1 DEF W!Enabled
  <2>5. \A t \in Task : task'[t] \in W!Row \union {None, Gone}
    BY <2>3, <2>4, SendTypes
  <2>6. task' = [t \in Task |-> task'[t]]
    BY <2>1
  <2>7. task' \in [Task -> W!Row \union {None, Gone}]
    BY <2>5, <2>6
  <2>8. NoneAgain
    BY <2>3, <2>4 DEF NoneAgain, Again, W!Exists
  <2>9. account' \in [valid : BOOLEAN, incident : BOOLEAN] /\ account'.incident
    BY <2>1
  <2>10. mails' \in Nat /\ mails' <= 1
    <3>1. mails \in Nat /\ mails <= 1 /\ (mails = 1 => account.incident)
      BY <1>1, SendTypes DEF SendInv, IncidentFits
    <3>2. CASE account.incident
      <4>1. mails' = mails + 0
        BY <2>1, <3>2
      <4>2. mails' = mails
        BY <3>1, <4>1
      <4>3. QED BY <3>1, <4>2
    <3>3. CASE ~account.incident
      <4>1. mails = 0
        BY <3>1, <3>3
      <4>2. mails' = 0 + 1
        BY <2>1, <3>3, <4>1
      <4>3. QED BY <4>2
    <3>4. QED BY <3>2, <3>3
  <2>11. IncidentFits'
    BY <2>9, <2>10 DEF IncidentFits
  <2>12. QED BY <2>7, <2>8, <2>9, <2>10, <2>11
<1>2. CASE result.code # "auth" /\ result.status = "success" /\ account # Gone
  <2>1. /\ account' = [valid |-> TRUE, incident |-> FALSE] /\ mails' = 0 /\ task' = task
    BY <1>2
  <2>2. account' \in [valid : BOOLEAN, incident : BOOLEAN] /\ IncidentFits'
    BY <2>1 DEF IncidentFits
  <2>3. QED BY <2>1, <2>2, SendTypes DEF NoneAgain, Again, W!Exists
<1>3. CASE result.code # "auth" /\ ~(result.status = "success" /\ account # Gone)
  <2>1. task' = task /\ account' = account /\ mails' = mails
    BY <1>3
  <2>2. QED BY <2>1, SendTypes DEF SendInv, W!TypeOK, IncidentFits, NoneAgain, Again, W!Exists
<1>4. QED BY <1>1, <1>2, <1>3

LEMMA RecordSendFits ==
    ASSUME SendInv, W!Record
    PROVE  SendInv'
<1>1. /\ stage = "recording" /\ now' = None /\ stage' \in {"idle", "down"}
      /\ UNCHANGED <<quota, retrying, skewed, sent, excused, edits, sparkFaults>>
  BY DEF W!Record
<1>2. /\ now \in Task /\ result \in Outcome /\ log[now].status \in {"running", "none"}
      /\ result.retry \/ result.code \in Unsent => sent[now] <= excused[now]
  BY <1>1 DEF SendInv, WorkFitsRun, Busy, RunPaid
<1>3. WorkFitsRun' /\ RunPaid'
  BY <1>1 DEF WorkFitsRun, Busy, RunPaid
<1>4. CASE UNCHANGED <<task, account, log, mails, notes>>
  <2>1. W!TypeOK'
    BY <1>1, <1>4 DEF SendInv, W!TypeOK
  <2>2. IncidentFits' /\ NotesFit'
    BY <1>4 DEF SendInv, IncidentFits, NotesFit
  <2>3. SendsPaid'
    BY <1>1, <1>4 DEF SendInv, SendsPaid, Again, W!Exists
  <2>4. QED BY <1>3, <2>1, <2>2, <2>3 DEF SendInv
<1>5. CASE /\ W!Exists(now) /\ stage' = "idle" /\ ~(result.code = "auth" /\ account = Gone)
           /\ result.retry /\ W!RetryScheduled
  BY <1>1, <1>5, RetryFits
<1>6. CASE /\ W!Exists(now) /\ stage' = "idle" /\ ~(result.code = "auth" /\ account = Gone)
           /\ W!Reported(now, result.status, result.code, result.safe)
           /\ CASE result.code = "auth" -> W!AuthIncident
                [] result.status = "success" /\ account # Gone ->
                     /\ account' = [valid |-> TRUE, incident |-> FALSE]
                     /\ mails' = 0
                     /\ UNCHANGED task
                [] OTHER -> UNCHANGED <<task, account, mails>>
  <2>1. /\ result.status \in {"success", "failed"} /\ result.safe \in BOOLEAN
        /\ result.code \in {"none", "auth", "target", "conversation", "other"}
    BY <1>2 DEF Outcome
  <2>2. /\ log' \in [Task -> W!Log] /\ notes' \in [Task -> [W!Kind -> Nat]] /\ NotesFit'
        /\ log'[now].status = result.status /\ log'[now].code = result.code
        /\ \A s \in Task : s # now => log'[s] = log[s]
    BY <1>2, <1>6, <2>1, ReportedFits
  <2>3. result.code = "auth" => account # Gone
    BY <1>6
  <2>4. /\ task' \in [Task -> W!Row \union {None, Gone}] /\ NoneAgain
        /\ account' \in [valid : BOOLEAN, incident : BOOLEAN] \union {Gone}
        /\ mails' \in Nat /\ IncidentFits'
    BY <1>2, <1>6, <2>3, AccountFits
  <2>5. W!TypeOK'
    BY <1>1, <2>2, <2>4 DEF SendInv, W!TypeOK
  <2>6. SendsPaid'
    <3> SUFFICES ASSUME NEW t \in Task
                 PROVE  /\ sent[t] <= 1 + excused[t]
                        /\ Again(t)' \/ (log'[t].status = "failed" /\ log'[t].code \in Unsent)
                             => sent[t] <= excused[t]
      BY <1>1 DEF SendsPaid
    <3>1. CASE t = now
      BY <1>2, <2>2, <2>4, <3>1 DEF SendInv, SendsPaid, NoneAgain
    <3>2. CASE t # now
      BY <2>2, <2>4, <3>2 DEF SendInv, SendsPaid, NoneAgain
    <3>3. QED BY <3>1, <3>2
  <2>7. QED BY <1>3, <2>2, <2>4, <2>5, <2>6 DEF SendInv
<1>7. QED BY <1>1, <1>4, <1>5, <1>6 DEF W!Record

\* A run is claimed: an occurrence that is repeated was paid for, and a new one
\* starts from nothing.
LEMMA ClaimSendFits ==
    ASSUME SendInv, W!Claim
    PROVE  SendInv'
<1> DEFINE rows == W!Reconciled(quota)
           due == {t \in Task : rows[t] \notin {None, Gone} /\ rows[t].on /\ rows[t].linked
                                /\ rows[t].next \in {"due", "missed"}}
<1>1. /\ rows \in [Task -> W!Row \union {None, Gone}]
      /\ \A t \in Task : rows[t] \notin {None, Gone} =>
            W!Exists(t) /\ rows[t] \in W!Row /\ rows[t].again = task[t].again
  BY ReconciledKeeps
<1>2. CASE due = {}
  <2>1. /\ task' = rows
        /\ UNCHANGED <<account, log, quota, retrying, stage, now, result, skewed, sent, excused, mails, notes,
                       edits, sparkFaults>>
    BY <1>2 DEF W!Claim, W!worker, W!history
  <2> HIDE DEF rows
  <2>2. NoneAgain
    BY <1>1, <2>1 DEF NoneAgain, Again, W!Exists
  <2>3. log' \in [Task -> W!Log] /\ SameStory
    BY <2>1, SendTypes DEF SameStory
  <2>4. QED BY <1>1, <2>1, <2>2, <2>3, SendTypes, EditFits
<1>3. ASSUME NEW t \in due,
             task' = [rows EXCEPT ![t] = [@ EXCEPT !.next = "waiting", !.again = FALSE]],
             sent' = IF rows[t].again THEN sent ELSE [sent EXCEPT ![t] = 0],
             excused' = IF rows[t].again THEN excused ELSE [excused EXCEPT ![t] = 0],
             \/ \E status \in {"failed", "skipped"} :
                   /\ log' = [log EXCEPT ![t] = W!Finished(t, status, "other", FALSE)]
                   /\ notes' = W!Quiet(t, W!Finished(t, status, "other", FALSE))
                   /\ UNCHANGED <<stage, now>>
             \/ /\ log' = [log EXCEPT ![t].status = "running", ![t].code = "none"]
                /\ stage' = "executing" /\ now' = t
                /\ UNCHANGED notes,
             stage = "idle",
             UNCHANGED <<account, quota, retrying, result, skewed, mails, edits, sparkFaults>>
      PROVE  SendInv'
  <2>1. t \in Task /\ rows[t] \in W!Row /\ (rows[t].again => Again(t))
    BY <1>1, <1>3 DEF Again
  <2> HIDE DEF rows, due
  <2>2. PICK r \in W!Row : r = [rows[t] EXCEPT !.next = "waiting", !.again = FALSE] /\ ~r.again
    BY <2>1, RowChanged
  <2>3. /\ task' \in [Task -> W!Row \union {None, Gone}]
        /\ \A s \in Task : task'[s] = IF s = t THEN r ELSE rows[s]
    BY <1>1, <1>3, <2>1, <2>2
  <2>4. \A s \in Task : Again(s)' => s # t /\ Again(s)
    BY <1>1, <2>2, <2>3 DEF Again, W!Exists
  <2>5. /\ sent' \in [Task -> Nat] /\ excused' \in [Task -> Nat]
        /\ \A s \in Task : s # t => sent'[s] = sent[s] /\ excused'[s] = excused[s]
    BY <1>3, <2>1, SendTypes
  <2>6. sent'[t] <= excused'[t]
    <3>1. CASE rows[t].again
      BY <1>3, <2>1, <3>1 DEF SendInv, SendsPaid
    <3>2. CASE ~rows[t].again
      <4>1. sent'[t] = 0 /\ excused'[t] = 0
        BY <1>3, <2>1, <3>2, SendTypes
      <4>2. QED BY <4>1
    <3>3. QED BY <3>1, <3>2
  <2>7. IncidentFits'
    BY <1>3 DEF SendInv, IncidentFits
  <2>8. SUFFICES /\ log' \in [Task -> W!Log] /\ notes' \in [Task -> [W!Kind -> Nat]]
                 /\ StreakFits(log'[t], notes'[t])
                 /\ \A s \in Task : s # t => log'[s] = log[s] /\ notes'[s] = notes[s]
                 /\ log'[t].status = "failed" => log'[t].code \notin Unsent
                 /\ \/ stage' = "idle" /\ now' = now
                    \/ stage' = "executing" /\ now' = t /\ log'[t].status = "running"
    <3> SUFFICES ASSUME /\ log' \in [Task -> W!Log] /\ notes' \in [Task -> [W!Kind -> Nat]]
                        /\ StreakFits(log'[t], notes'[t])
                        /\ \A s \in Task : s # t => log'[s] = log[s] /\ notes'[s] = notes[s]
                        /\ log'[t].status = "failed" => log'[t].code \notin Unsent
                        /\ \/ stage' = "idle" /\ now' = now
                           \/ stage' = "executing" /\ now' = t /\ log'[t].status = "running"
                 PROVE  SendInv'
      OBVIOUS
    <3>1. W!TypeOK'
      BY <1>3, <2>1, <2>3, <2>5 DEF SendInv, W!TypeOK
    <3>2. WorkFitsRun'
      BY <2>1 DEF WorkFitsRun, Busy
    <3>3. RunPaid'
      BY <2>1, <2>4, <2>6 DEF RunPaid
    <3>4. NotesFit'
      BY DEF SendInv, NotesFit
    <3>5. SendsPaid'
      <4> SUFFICES ASSUME NEW s \in Task
                   PROVE  /\ sent'[s] <= 1 + excused'[s]
                          /\ Again(s)' \/ (log'[s].status = "failed" /\ log'[s].code \in Unsent)
                               => sent'[s] <= excused'[s]
        BY DEF SendsPaid
      <4>1. CASE s = t
        <5>1. \A m, n \in Nat : m <= n => m <= 1 + n
          OBVIOUS
        <5>2. QED BY <2>4, <2>5, <2>6, <4>1, <5>1
      <4>2. CASE s # t
        BY <2>4, <2>5, <4>2 DEF SendInv, SendsPaid
      <4>3. QED BY <4>1, <4>2
    <3>6. QED BY <2>7, <3>1, <3>2, <3>3, <3>4, <3>5 DEF SendInv
  <2>9. CASE \E status \in {"failed", "skipped"} :
                /\ log' = [log EXCEPT ![t] = W!Finished(t, status, "other", FALSE)]
                /\ notes' = W!Quiet(t, W!Finished(t, status, "other", FALSE))
                /\ UNCHANGED <<stage, now>>
    <3>1. PICK status \in {"failed", "skipped"} :
             /\ log' = [log EXCEPT ![t] = W!Finished(t, status, "other", FALSE)]
             /\ notes' = W!Quiet(t, W!Finished(t, status, "other", FALSE))
             /\ UNCHANGED <<stage, now>>
      BY <2>9
    <3>2. \A s \in {"success", "failed", "skipped"},
             w \in {"none", "retry", "auth", "target", "conversation", "other"}, safe \in BOOLEAN :
             /\ W!Finished(t, s, w, safe) \in W!Log
             /\ W!Finished(t, s, w, safe).status = s /\ W!Finished(t, s, w, safe).code = w
             /\ s = "failed" => StreakFits(W!Finished(t, s, w, safe), notes[t])
             /\ s # "failed" => W!Finished(t, s, w, safe).streak = 0
      BY <2>1, FinishedFits
    <3>3. PICK l : /\ l = W!Finished(t, status, "other", FALSE)
                   /\ l \in W!Log /\ l.status = status /\ l.code = "other"
                   /\ status = "failed" => StreakFits(l, notes[t])
                   /\ status # "failed" => l.streak = 0
      <4> DEFINE ended == W!Finished(t, status, "other", FALSE)
      <4>1. /\ status \in {"success", "failed", "skipped"} /\ FALSE \in BOOLEAN
            /\ "other" \in {"none", "retry", "auth", "target", "conversation", "other"}
        OBVIOUS
      <4>2. ended \in W!Log
        BY <3>2, <4>1
      <4>3. \A s \in {"success", "failed", "skipped"},
               w \in {"none", "retry", "auth", "target", "conversation", "other"}, safe \in BOOLEAN :
               W!Finished(t, s, w, safe).status = s /\ W!Finished(t, s, w, safe).code = w
        BY <3>2
      <4>4. ended.status = status /\ ended.code = "other"
        BY <4>1, <4>3, Zenon
      <4>5. status = "failed" => StreakFits(ended, notes[t])
        BY <3>2, <4>1
      <4>6. status # "failed" => ended.streak = 0
        BY <3>2, <4>1
      <4>7. QED BY <4>2, <4>4, <4>5, <4>6
    <3>4. log' \in [Task -> W!Log] /\ log'[t] = l /\ \A s \in Task : s # t => log'[s] = log[s]
      BY <2>1, <3>1, <3>3, SendTypes
    <3>5. notes' = IF l.streak = 0 THEN [notes EXCEPT ![t] = [k \in W!Kind |-> 0]] ELSE notes
      BY <3>1, <3>3 DEF W!Quiet
    <3>6. /\ notes' \in [Task -> [W!Kind -> Nat]]
          /\ \A s \in Task : s # t => notes'[s] = notes[s]
          /\ notes'[t] = IF l.streak = 0 THEN [k \in W!Kind |-> 0] ELSE notes[t]
      BY <2>1, <3>5, SendTypes
    <3>7. StreakFits(l, notes'[t])
      <4>1. CASE l.streak = 0
        <5>1. notes'[t] = [k \in W!Kind |-> 0]
          BY <3>6, <4>1
        <5>2. QED BY <4>1, <5>1 DEF StreakFits
      <4>2. CASE l.streak # 0
        BY <3>3, <3>6, <4>2
      <4>3. QED BY <4>1, <4>2
    <3>8. QED BY <1>3, <3>1, <3>3, <3>4, <3>6, <3>7 DEF Unsent
  <2>10. CASE /\ log' = [log EXCEPT ![t].status = "running", ![t].code = "none"]
              /\ stage' = "executing" /\ now' = t
              /\ UNCHANGED notes
    <3>1. PICK l \in W!Log : l = log[t]
      BY <2>1, SendTypes
    <3>2. PICK m \in W!Log : /\ m = [l EXCEPT !.status = "running", !.code = "none"]
                             /\ m.status = "running" /\ m.streak = l.streak /\ m.told = l.told
      <4> DEFINE a == [l EXCEPT !.status = "running", !.code = "none"]
      <4>1. a \in W!Log
        BY DEF W!Log
      <4>2. a.status = "running" /\ a.streak = l.streak /\ a.told = l.told
        BY DEF W!Log
      <4>3. a = [l EXCEPT !.status = "running", !.code = "none"]
        OBVIOUS
      <4> HIDE DEF a
      <4>4. QED BY <4>1, <4>2, <4>3
    <3>3. log' = [log EXCEPT ![t] = m]
      BY <2>1, <2>10, <3>1, <3>2, SendTypes
    <3>4. log' \in [Task -> W!Log] /\ log'[t] = m /\ \A s \in Task : s # t => log'[s] = log[s]
      BY <2>1, <3>3, SendTypes
    <3>5. StreakFits(m, notes[t])
      BY <2>1, <3>1, <3>2 DEF SendInv, NotesFit, StreakFits
    <3>6. QED BY <2>10, <3>2, <3>4, <3>5, SendTypes
  <2>11. QED BY <1>3, <2>9, <2>10
<1>4. QED
  <2>1. CASE due # {}
    <3>1. PICK t \in due :
             /\ task' = [rows EXCEPT ![t] = [@ EXCEPT !.next = "waiting", !.again = FALSE]]
             /\ sent' = IF rows[t].again THEN sent ELSE [sent EXCEPT ![t] = 0]
             /\ excused' = IF rows[t].again THEN excused ELSE [excused EXCEPT ![t] = 0]
             /\ IF skewed \/ rows[t].next = "missed"
                THEN LET l == W!Finished(t, IF skewed THEN "failed" ELSE "skipped", "other", FALSE)
                     IN  /\ log' = [log EXCEPT ![t] = l]
                         /\ notes' = W!Quiet(t, l)
                         /\ UNCHANGED <<stage, now>>
                ELSE /\ log' = [log EXCEPT ![t].status = "running", ![t].code = "none"]
                     /\ stage' = "executing" /\ now' = t
                     /\ UNCHANGED notes
             /\ UNCHANGED <<account, quota, retrying, result, skewed, mails, edits, sparkFaults>>
      BY <2>1 DEF W!Claim
    <3>2. stage = "idle"
      BY DEF W!Claim
    <3>3. PICK status \in {"failed", "skipped"} : status = IF skewed THEN "failed" ELSE "skipped"
      OBVIOUS
    <3> HIDE DEF rows, due
    <3>4. \/ /\ log' = [log EXCEPT ![t] = W!Finished(t, status, "other", FALSE)]
             /\ notes' = W!Quiet(t, W!Finished(t, status, "other", FALSE))
             /\ UNCHANGED <<stage, now>>
          \/ /\ log' = [log EXCEPT ![t].status = "running", ![t].code = "none"]
             /\ stage' = "executing" /\ now' = t
             /\ UNCHANGED notes
      BY <3>1, <3>3
    <3>5. QED BY <1>3, <3>1, <3>2, <3>4
  <2>2. QED BY <1>2, <2>1

LEMMA SparkInitFits == W!Init => SendInv
<1> SUFFICES ASSUME W!Init PROVE SendInv
  OBVIOUS
<1>1. \A m \in Nat : 0 \in 0 .. m /\ m \in 0 .. m
  OBVIOUS
<1>2. W!NoLog \in W!Log /\ W!NoLog.status = "none"
      /\ StreakFits(W!NoLog, [k \in W!Kind |-> 0])
  BY DEF W!NoLog, W!Log, W!Kind, StreakFits
<1>3. W!TypeOK
  BY <1>1, <1>2, SparkAssumption DEF W!Init, W!TypeOK
<1>4. WorkFitsRun /\ RunPaid /\ IncidentFits
  BY DEF W!Init, WorkFitsRun, Busy, RunPaid, IncidentFits
<1>5. NotesFit
  BY <1>2 DEF W!Init, NotesFit
<1>6. SendsPaid
  BY DEF W!Init, SendsPaid, Again, W!Exists
<1>7. QED BY <1>3, <1>4, <1>5, <1>6 DEF SendInv

LEMMA SparkNextFits == SendInv /\ [W!Next]_sparkVars => SendInv'
<1> SUFFICES ASSUME SendInv, [W!Next]_sparkVars PROVE SendInv'
  OBVIOUS
<1>1. ASSUME NEW t \in Task,
             \/ W!Create(t) \/ W!Edit(t) \/ W!Toggle(t) \/ W!Delete(t)
             \/ W!ReadRetry(t) \/ W!WriteRetry(t) \/ W!Passes(t) \/ W!Forgotten(t)
      PROVE  SendInv'
  BY <1>1, OneTaskEdited, DeleteFits, ReadRetryFits, WriteRetryFits, ForgottenFits
<1>2. CASE W!DeleteAccount \/ W!Grant \/ W!UpdateGrant \/ W!Rebind
  BY <1>2, QuotaFits, RebindFits
<1>3. CASE W!Step \/ W!Crash
  BY <1>3, BootSendFits, ClaimSendFits, SubmitFits, ExecuteFits, RecordSendFits, CrashFits DEF W!Step
<1>4. CASE UNCHANGED sparkVars
  BY <1>4 DEF sparkVars, SendInv, W!TypeOK, WorkFitsRun, Busy, SendsPaid, Again, W!Exists, RunPaid,
              NotesFit, IncidentFits
<1>5. QED BY <1>1, <1>2, <1>3, <1>4 DEF W!Next

LEMMA SendInvariance == Spec => []SendInv
<1>1. Init => SendInv
  BY SparkInitFits DEF Init
<1>2. [Next]_vars => [W!Next]_sparkVars
  BY DEF Next, vars, Web, Auth, Mails, Sending
<1>3. SendInv /\ [Next]_vars => SendInv'
  BY <1>2, SparkNextFits
<1>4. QED BY <1>1, <1>3, PTL DEF Spec

\* A message is sent again for one occurrence only as often as a run of it was
\* interrupted, ordered by a login or by a retry that a run had overtaken, and a
\* user is told once of each trouble:
\* for any number of tasks, edits and ends of the process.
THEOREM SendingIsSound == Spec => []SendingSound
<1>1. SendInv => SendingSound
  <2> SUFFICES ASSUME SendInv PROVE W!TypeOK /\ W!ResentOnlyIfExcused /\ W!ToldOnce
    BY DEF SendingSound
  <2>1. W!ResentOnlyIfExcused
    BY DEF SendInv, SendsPaid, W!ResentOnlyIfExcused
  <2>2. W!ToldOnce
    BY DEF SendInv, IncidentFits, NotesFit, StreakFits, W!ToldOnce
  <2>3. QED BY <2>1, <2>2 DEF SendInv
<1>2. QED BY <1>1, SendInvariance, PTL
=============================================================================
