------------------------- MODULE Installation_proofs -------------------------
(***************************************************************************)
(* Proofs about Installation for any number of requests at the same time,  *)
(* of installations, of faults and of interventions in the console; and,   *)
(* where nobody discards or intervenes, what late answers cannot undo.     *)
(***************************************************************************)
EXTENDS Installation, TLAPS

-----------------------------------------------------------------------------
(* The inductive invariant *)

\* Steps that a request reaches only once there is a stack.
WithStack == {"record", "recover", "query", "commit", "check", "delete", "conclude"}
\* Steps that a request reaches only once its row has a stack id.
WithId == {"query", "commit", "check", "delete", "conclude"}
\* Steps that carry an answer of ROS.
Answered == {"commit", "conclude"}

\* The copy of a row that is out of date in status and credentials only: stacks
\* and stack ids do not go away, and what is deleted stays deleted.
CallFits(c) ==
    /\ c.token <= issued
    /\ c.at \in WithStack => stack[c.token] # None
    /\ c.at \in WithId /\ Installed /\ row.token = c.token => row.known
    /\ c.at \in Answered =>
          c.seen # None /\ (c.seen = "DELETE_COMPLETE" => stack[c.token] = "DELETE_COMPLETE")
    /\ c.at = "conclude" => c.seen # "CREATE_COMPLETE"
    /\ c.at = "verify" => Installed

CallsFit == \A r \in Request : call[r] # None => CallFits(call[r])

RowFits ==
    Installed =>
        /\ row.token <= issued
        /\ row.known => stack[row.token] # None
        /\ row.status # "SUBMITTING" => row.known
        /\ row.status = "DELETE_COMPLETE" => stack[row.token] = "DELETE_COMPLETE"
        /\ row.status = "CREATE_COMPLETE" => settings = row.token

\* Every token ever drawn is the record's, or discarded, or its stack is gone.
Accounted ==
    \A t \in Token :
        IF t > issued THEN stack[t] = None
        ELSE \/ Installed /\ row.token = t
             \/ t \in discarded
             \/ stack[t] = "DELETE_COMPLETE"

IInv == TypeOK /\ CallsFit /\ RowFits /\ Accounted

-----------------------------------------------------------------------------
(* Records *)

LEMMA RowFields ==
    ASSUME NEW x \in Row
    PROVE  /\ x.token \in Token /\ x.known \in BOOLEAN /\ x.usable \in BOOLEAN
           /\ x.status \in Status /\ x # None
BY InstallationAssumption DEF Row

LEMMA CallFields ==
    ASSUME NEW c \in Call
    PROVE  /\ c.at \in Step /\ c.polls \in BOOLEAN /\ c.token \in Token
           /\ c.usable \in BOOLEAN /\ c.seen \in StackState \union {None} /\ c # None
BY InstallationAssumption DEF Call

LEMMA TokenIsNat == Token \subseteq Nat
BY InstallationAssumption DEF Token

LEMMA IssuedIsNat == TypeOK => issued \in Nat
BY InstallationAssumption DEF TypeOK

\* A row with another status, other credentials, and perhaps a stack id.
LEMMA RowUpdate ==
    ASSUME NEW x \in Row
    PROVE  /\ \A s \in Status : /\ [x EXCEPT !.status = s] \in Row
                                /\ [x EXCEPT !.status = s].status = s
                                /\ [x EXCEPT !.status = s].token = x.token
                                /\ [x EXCEPT !.status = s].known = x.known
           /\ \A u \in BOOLEAN : /\ [x EXCEPT !.usable = u] \in Row
                                 /\ [x EXCEPT !.usable = u].status = x.status
                                 /\ [x EXCEPT !.usable = u].token = x.token
                                 /\ [x EXCEPT !.usable = u].known = x.known
           /\ \A s \in Status : /\ [x EXCEPT !.known = TRUE, !.status = s] \in Row
                                /\ [x EXCEPT !.known = TRUE, !.status = s].status = s
                                /\ [x EXCEPT !.known = TRUE, !.status = s].token = x.token
                                /\ [x EXCEPT !.known = TRUE, !.status = s].known = TRUE
BY DEF Row

LEMMA CallUpdate ==
    ASSUME NEW c \in Call, NEW s \in Step, NEW a \in StackState \union {None}
    PROVE  /\ [c EXCEPT !.at = s] \in Call
           /\ [c EXCEPT !.at = s].at = s
           /\ [c EXCEPT !.at = s].token = c.token
           /\ [c EXCEPT !.at = s].seen = c.seen
           /\ [c EXCEPT !.at = s, !.seen = a] \in Call
           /\ [c EXCEPT !.at = s, !.seen = a].at = s
           /\ [c EXCEPT !.at = s, !.seen = a].token = c.token
           /\ [c EXCEPT !.at = s, !.seen = a].seen = a
BY DEF Call

LEMMA CopyFields ==
    ASSUME row \in Row, NEW s \in Step, NEW p \in BOOLEAN, NEW a \in StackState \union {None}
    PROVE  /\ Copy(s, p, a) \in Call
           /\ Copy(s, p, a).at = s /\ Copy(s, p, a).token = row.token
           /\ Copy(s, p, a).seen = a
BY RowFields DEF Copy, Call

-----------------------------------------------------------------------------
(* What a step leaves alone *)

\* The record, if it is the one of this copy after the step, was so before and
\* has not lost its stack id.
SameOrGone(c) ==
    Installed' /\ row'.token = c.token =>
        Installed /\ row.token = c.token /\ (row.known => row'.known)

StacksGrow ==
    /\ issued <= issued'
    /\ \A t \in Token : /\ stack[t] # None => stack'[t] # None
                        /\ stack[t] = "DELETE_COMPLETE" => stack'[t] = "DELETE_COMPLETE"

LEMMA StillFits ==
    ASSUME TypeOK, TypeOK', StacksGrow, NEW c \in Call, CallFits(c), SameOrGone(c),
           c.at = "verify" => Installed'
    PROVE  CallFits(c)'
<1>0. c.token \in Token
  BY CallFields
<1>1. c.token \in Nat /\ issued \in Nat /\ issued' \in Nat /\ c.token \in Token
  <2>1. issued' \in Nat
    BY InstallationAssumption DEF TypeOK
  <2>2. QED BY <1>0, <2>1, TokenIsNat, IssuedIsNat
<1>2. c.token <= issued'
  BY <1>1 DEF CallFits, StacksGrow
<1>3. /\ stack[c.token] # None => stack'[c.token] # None
      /\ stack[c.token] = "DELETE_COMPLETE" => stack'[c.token] = "DELETE_COMPLETE"
  BY <1>1 DEF StacksGrow
<1>4. QED BY <1>2, <1>3 DEF CallFits, SameOrGone

\* The steps of request r: its own call changes to one that fits, the others keep
\* theirs.
LEMMA CallsStillFit ==
    ASSUME IInv, TypeOK', StacksGrow, NEW r \in Request,
           NEW c \in Call \union {None}, call' = [call EXCEPT ![r] = c],
           c # None => CallFits(c)',
           \A q \in Request : call[q] # None /\ q # r =>
              SameOrGone(call[q]) /\ (call[q].at = "verify" => Installed')
    PROVE  CallsFit'
<1> SUFFICES ASSUME NEW q \in Request, call'[q] # None PROVE CallFits(call[q])'
  BY DEF CallsFit
<1>1. CASE q = r
  <2>1. call'[q] = c
    BY <1>1 DEF IInv, TypeOK
  <2>2. QED BY <2>1
<1>2. CASE q # r
  <2>1. call'[q] = call[q]
    BY <1>2 DEF IInv, TypeOK
  <2>2. call[q] \in Call /\ CallFits(call[q])
    BY <2>1 DEF IInv, TypeOK, CallsFit
  <2>3. SameOrGone(call[q]) /\ (call[q].at = "verify" => Installed')
    BY <1>2, <2>1
  <2>4. PICK d \in Call : d = call[q]
    BY <2>2
  <2>5. CallFits(d) /\ SameOrGone(d) /\ (d.at = "verify" => Installed')
    BY <2>2, <2>3, <2>4 DEF SameOrGone
  <2>6. CallFits(d)'
    BY <2>5, StillFits DEF IInv
  <2>7. QED BY <2>1, <2>4, <2>6
<1>3. QED BY <1>1, <1>2

\* A step that only changes what request r is at.
LEMMA OnlyCall ==
    ASSUME IInv, NEW r \in Request, NEW c \in Call \union {None},
           call' = [call EXCEPT ![r] = c], c # None => CallFits(c),
           edits' \in Nat, faults' \in Nat, console' \in Nat,
           UNCHANGED <<row, issued, stack, settings, discarded>>
    PROVE  IInv'
<1>1. TypeOK'
  BY DEF IInv, TypeOK
<1>2. StacksGrow
  BY IssuedIsNat DEF IInv, StacksGrow
<1>3. c # None => CallFits(c)'
  BY DEF CallFits, Installed
<1>4. CallsFit'
  <2>1. \A q \in Request : call[q] # None /\ q # r =>
           SameOrGone(call[q]) /\ (call[q].at = "verify" => Installed')
    BY DEF IInv, CallsFit, CallFits, SameOrGone, Installed
  <2>2. QED BY <1>1, <1>2, <1>3, <2>1, CallsStillFit
<1>5. RowFits' /\ Accounted'
  BY DEF IInv, RowFits, Accounted, Installed
<1>6. QED BY <1>1, <1>4, <1>5 DEF IInv

\* A stack that may be there moves, and none comes back.
LEMMA OnlyStack ==
    ASSUME IInv, NEW t \in Token, NEW s \in StackState, stack' = [stack EXCEPT ![t] = s],
           t <= issued, stack[t] = "DELETE_COMPLETE" => s = "DELETE_COMPLETE",
           UNCHANGED <<row, issued, settings, discarded>>
    PROVE  StacksGrow /\ RowFits' /\ Accounted'
<1>1. \A u \in Token : stack'[u] = IF u = t THEN s ELSE stack[u]
  BY DEF IInv, TypeOK
<1>2. s # None
  BY InstallationAssumption
<1>3. StacksGrow
  BY <1>1, <1>2, IssuedIsNat DEF IInv, StacksGrow
<1>4. RowFits'
  <2>1. Installed => row.token \in Token
    BY RowFields DEF IInv, TypeOK, Installed
  <2>2. QED BY <1>1, <1>2, <2>1 DEF IInv, RowFits, Installed
<1>5. Accounted'
  <2> SUFFICES ASSUME NEW u \in Token
               PROVE  IF u > issued THEN stack'[u] = None
                      ELSE \/ Installed /\ row.token = u
                           \/ u \in discarded
                           \/ stack'[u] = "DELETE_COMPLETE"
    BY DEF Accounted, Installed
  <2>1. u \in Nat /\ t \in Nat /\ issued \in Nat
    BY TokenIsNat, IssuedIsNat DEF IInv
  <2>2. QED BY <1>1, <2>1 DEF IInv, Accounted
<1>6. QED BY <1>3, <1>4, <1>5

\* Request r moves a stack and goes on.
LEMMA CallAndStack ==
    ASSUME IInv, TypeOK', NEW r \in Request, NEW c \in Call \union {None},
           call' = [call EXCEPT ![r] = c], c # None => CallFits(c)',
           NEW t \in Token, NEW s \in StackState, stack' = [stack EXCEPT ![t] = s],
           t <= issued, stack[t] = "DELETE_COMPLETE" => s = "DELETE_COMPLETE",
           UNCHANGED <<row, issued, settings, discarded>>
    PROVE  IInv'
<1>1. StacksGrow /\ RowFits' /\ Accounted'
  BY OnlyStack
<1>2. \A q \in Request : call[q] # None /\ q # r =>
         SameOrGone(call[q]) /\ (call[q].at = "verify" => Installed')
  BY DEF IInv, CallsFit, CallFits, SameOrGone, Installed
<1>3. CallsFit'
  BY <1>1, <1>2, CallsStillFit
<1>4. QED BY <1>1, <1>3 DEF IInv

\* A stack moves on its own.
LEMMA StackAlone ==
    ASSUME IInv, TypeOK', NEW t \in Token, NEW s \in StackState,
           stack' = [stack EXCEPT ![t] = s], stack[t] # None,
           stack[t] = "DELETE_COMPLETE" => s = "DELETE_COMPLETE",
           UNCHANGED <<row, issued, settings, discarded, call>>
    PROVE  IInv'
<1>1. t <= issued
  <2>1. t \in Nat /\ issued \in Nat
    BY TokenIsNat, IssuedIsNat DEF IInv
  <2>2. QED BY <2>1 DEF IInv, Accounted
<1>2. StacksGrow /\ RowFits' /\ Accounted'
  BY <1>1, OnlyStack
<1>3. CallsFit'
  <2> SUFFICES ASSUME NEW q \in Request, call'[q] # None PROVE CallFits(call[q])'
    BY DEF CallsFit
  <2>1. PICK d \in Call : d = call[q]
    BY DEF IInv, TypeOK
  <2>2. CallFits(d) /\ SameOrGone(d) /\ (d.at = "verify" => Installed')
    BY <2>1 DEF IInv, CallsFit, CallFits, SameOrGone, Installed
  <2>3. CallFits(d)'
    BY <1>2, <2>2, StillFits DEF IInv
  <2>4. QED BY <2>1, <2>3
<1>4. QED BY <1>2, <1>3 DEF IInv

\* Request r changes the record and goes on, or ends.
LEMMA CallAndRow ==
    ASSUME IInv, TypeOK', NEW r \in Request, NEW c \in Call \union {None},
           call' = [call EXCEPT ![r] = c], c # None => CallFits(c)',
           Installed, row' \in Row, row'.token = row.token, row.known => row'.known,
           RowFits', UNCHANGED <<issued, stack, discarded>>
    PROVE  IInv'
<1>1. StacksGrow
  BY IssuedIsNat DEF IInv, StacksGrow
<1>2. Installed'
  BY RowFields DEF Installed
<1>3. \A q \in Request : call[q] # None /\ q # r =>
         SameOrGone(call[q]) /\ (call[q].at = "verify" => Installed')
  BY <1>2 DEF SameOrGone
<1>4. CallsFit'
  BY <1>1, <1>3, CallsStillFit
<1>5. Accounted'
  BY <1>2 DEF IInv, Accounted
<1>6. QED BY <1>4, <1>5 DEF IInv

\* The record goes; no request was verifying, since the row was not locked.
LEMMA CallAndNoRow ==
    ASSUME IInv, TypeOK', NEW r \in Request, NEW c \in Call \union {None},
           call' = [call EXCEPT ![r] = c], c = None, Unlocked, Installed, row' = None,
           row.token \in discarded' \/ row.status = "DELETE_COMPLETE",
           discarded \subseteq discarded',
           UNCHANGED <<issued, stack>>
    PROVE  IInv'
<1>1. StacksGrow
  BY IssuedIsNat DEF IInv, StacksGrow
<1>2. ~Installed'
  BY DEF Installed
<1>3. \A q \in Request : call[q] # None /\ q # r =>
         SameOrGone(call[q]) /\ (call[q].at = "verify" => Installed')
  BY <1>2 DEF SameOrGone, Unlocked, At
<1>4. CallsFit'
  BY <1>1, <1>3, CallsStillFit
<1>5. RowFits'
  BY <1>2 DEF RowFits
<1>6. Accounted'
  BY <1>2 DEF IInv, Accounted, RowFits
<1>7. QED BY <1>4, <1>5, <1>6 DEF IInv

-----------------------------------------------------------------------------
(* The steps *)

\* A copy of the row as it is fits wherever it is enough to have the stack id.
LEMMA CopyFits ==
    ASSUME IInv, Installed, NEW s \in Step, NEW p \in BOOLEAN,
           NEW a \in StackState \union {None},
           s \in WithStack => row.known,
           s \in Answered => a = "CREATE_COMPLETE" /\ s # "conclude"
    PROVE  /\ Copy(s, p, a) \in Call
           /\ CallFits(Copy(s, p, a))
<1>1. row \in Row
  BY DEF IInv, TypeOK, Installed
<1>2. /\ Copy(s, p, a) \in Call
      /\ Copy(s, p, a).at = s /\ Copy(s, p, a).token = row.token
      /\ Copy(s, p, a).seen = a
  BY <1>1, CopyFields
<1>3. "CREATE_COMPLETE" # None
  BY InstallationAssumption DEF StackState
<1>4. WithId \subseteq WithStack
  BY DEF WithId, WithStack
<1>5. QED BY <1>2, <1>3, <1>4 DEF IInv, CallFits, RowFits, Answered

\* A call that goes on to a step with no new demands.
LEMMA ProceedFits ==
    ASSUME IInv, NEW r \in Request, call[r] # None, NEW s \in Step, s \notin WithStack,
           s # "verify"
    PROVE  /\ [call[r] EXCEPT !.at = s] \in Call
           /\ CallFits([call[r] EXCEPT !.at = s])
<1>1. call[r] \in Call /\ CallFits(call[r])
  BY DEF IInv, TypeOK, CallsFit
<1>2. /\ [call[r] EXCEPT !.at = s] \in Call
      /\ [call[r] EXCEPT !.at = s].at = s
      /\ [call[r] EXCEPT !.at = s].token = call[r].token
  BY <1>1, CallUpdate
<1>3. s \notin WithId /\ s \notin Answered /\ s # "conclude"
  BY DEF WithStack, WithId, Answered
<1>4. QED BY <1>1, <1>2, <1>3 DEF CallFits

LEMMA AskForFits ==
    ASSUME IInv, NEW r \in Request, Installed, row.known, AskFor(r)
    PROVE  \E c \in Call : call' = [call EXCEPT ![r] = c] /\ CallFits(c)
<1>1. /\ {"commit", "query"} \subseteq Step
      /\ "CREATE_COMPLETE" \in StackState
      /\ "query" \notin Answered /\ "commit" # "conclude"
  BY DEF Step, StackState, Answered
<1>2. CASE row.status = "CREATE_COMPLETE"
  <2>1. LET c == Copy("commit", TRUE, "CREATE_COMPLETE") IN c \in Call /\ CallFits(c)
    BY <1>1, CopyFits
  <2>2. QED BY <1>2, <2>1 DEF AskFor
<1>3. CASE row.status # "CREATE_COMPLETE"
  <2>1. LET c == Copy("query", TRUE, None) IN c \in Call /\ CallFits(c)
    BY <1>1, CopyFits
  <2>2. QED BY <1>3, <2>1 DEF AskFor
<1>4. QED BY <1>2, <1>3

LEMMA DeployFits ==
    ASSUME IInv, NEW r \in Request, NEW u \in BOOLEAN, Deploy(r, u)
    PROVE  IInv'
<1> DEFINE x == [token |-> issued + 1, known |-> FALSE, usable |-> u, status |-> "SUBMITTING"]
           c == [at |-> "create", polls |-> FALSE, token |-> issued + 1,
                 usable |-> u, seen |-> None]
<1>1. issued \in Nat /\ issued + 1 \in Token /\ issued' = issued + 1
  BY InstallationAssumption, IssuedIsNat DEF IInv, TypeOK, Deploy, Token
<1>2. /\ x \in Row /\ c \in Call /\ row' = x /\ call' = [call EXCEPT ![r] = c]
      /\ UNCHANGED <<stack, settings, discarded, console, faults>> /\ edits' \in Nat
  BY <1>1 DEF Row, Call, Step, Status, Deploy, Edited, IInv, TypeOK
<1>3. TypeOK'
  BY <1>1, <1>2, InstallationAssumption DEF IInv, TypeOK, Token
<1>4. ~Installed /\ Installed'
  BY <1>2, RowFields DEF Installed, Deploy
<1>5. \A t \in Token : t <= issued => t # issued + 1
  BY <1>1, TokenIsNat
<1>6. CallsFit'
  <2> SUFFICES ASSUME NEW q \in Request, call'[q] # None PROVE CallFits(call[q])'
    BY DEF CallsFit
  <2>1. CASE q = r
    <3>1. call'[q] = c
      BY <1>2, <2>1 DEF IInv, TypeOK
    <3>2. /\ c.at = "create" /\ c.token = issued'
      BY <1>1
    <3>3. issued' <= issued'
      BY <1>1
    <3>4. QED BY <3>1, <3>2, <3>3 DEF CallFits, WithStack, WithId, Answered
  <2>2. CASE q # r
    <3>1. PICK d \in Call : d = call[q] /\ call'[q] = d
      BY <1>2, <2>2 DEF IInv, TypeOK
    <3>2. CallFits(d)
      BY <3>1 DEF IInv, CallsFit
    <3>3. d.token \in Token /\ d.token # issued + 1
      BY <1>5, <3>2, CallFields DEF CallFits
    <3>4. SameOrGone(d) /\ StacksGrow
      BY <1>1, <1>2, <3>3 DEF SameOrGone, StacksGrow
    <3>5. CallFits(d)'
      BY <1>3, <1>4, <3>2, <3>4, StillFits DEF IInv
    <3>6. QED BY <3>1, <3>5
  <2>3. QED BY <2>1, <2>2
<1>7. RowFits'
  BY <1>1, <1>2 DEF RowFits
<1>8. Accounted'
  <2> SUFFICES ASSUME NEW t \in Token
               PROVE  IF t > issued' THEN stack'[t] = None
                      ELSE \/ Installed' /\ row'.token = t
                           \/ t \in discarded'
                           \/ stack'[t] = "DELETE_COMPLETE"
    BY DEF Accounted
  <2>1. t \in Nat
    BY TokenIsNat
  <2>2. t > issued' => t > issued
    BY <1>1, <2>1
  <2>3. ~(t > issued') => t = issued + 1 \/ ~(t > issued)
    BY <1>1, <2>1
  <2>4. QED BY <1>2, <1>4, <2>2, <2>3 DEF IInv, Accounted
<1>9. QED BY <1>3, <1>6, <1>7, <1>8 DEF IInv

\* The requests that only read the row to start with.
LEMMA ReadingStartFits ==
    ASSUME IInv, NEW r \in Request,
           DeployAgain(r) \/ Refresh(r) \/ StartRepair(r) \/ Discard(r)
    PROVE  IInv'
<1>1. /\ Installed /\ UNCHANGED <<row, issued, stack, settings, discarded, faults, console>>
      /\ faults' \in Nat /\ console' \in Nat /\ edits' \in Nat
  <2>1. edits \in Nat /\ faults \in Nat /\ console \in Nat
    BY DEF IInv, TypeOK
  <2>2. CASE DeployAgain(r)
    BY <2>1, <2>2 DEF DeployAgain, Edited
  <2>3. CASE Refresh(r)
    BY <2>1, <2>3 DEF Refresh
  <2>4. CASE StartRepair(r)
    BY <2>1, <2>4 DEF StartRepair, Repairable, Edited
  <2>5. CASE Discard(r)
    BY <2>1, <2>5 DEF Discard, Edited
  <2>6. QED BY <2>2, <2>3, <2>4, <2>5
<1>2. /\ {"create", "check", "verify", "replay"} \subseteq Step
      /\ {"create", "verify", "replay"} \cap WithStack = {}
      /\ {"create", "check", "verify", "replay"} \cap Answered = {}
  BY DEF Step, WithStack, Answered
<1>3. \A s \in {"create", "verify", "replay"}, p \in BOOLEAN :
         Copy(s, p, None) \in Call /\ CallFits(Copy(s, p, None))
  BY <1>1, <1>2, CopyFits
<1>4. row.known => Copy("check", TRUE, None) \in Call /\ CallFits(Copy("check", TRUE, None))
  BY <1>1, <1>2, CopyFits
<1>5. row.status = "DELETE_REQUESTED" => row.known
  BY <1>1 DEF IInv, RowFits
<1>6. \E c \in Call : call' = [call EXCEPT ![r] = c] /\ CallFits(c)
  <2>1. CASE DeployAgain(r) \/ StartRepair(r) \/ Discard(r)
    BY <1>3, <2>1 DEF DeployAgain, StartRepair, Discard
  <2>2. CASE Refresh(r)
    <3>1. CASE row.status = "DELETE_REQUESTED"
      BY <1>4, <1>5, <2>2, <3>1 DEF Refresh
    <3>2. CASE row.status # "DELETE_REQUESTED" /\ ~row.known
      BY <1>3, <2>2, <3>2 DEF Refresh
    <3>3. CASE row.status # "DELETE_REQUESTED" /\ row.known
      BY <1>1, <2>2, <3>3, AskForFits DEF Refresh
    <3>4. QED BY <3>1, <3>2, <3>3
  <2>3. QED BY <2>1, <2>2
<1>7. PICK c \in Call : call' = [call EXCEPT ![r] = c] /\ CallFits(c)
  BY <1>6
<1>8. QED BY <1>1, <1>7, OnlyCall

\* The requests that change the row to start with.
LEMMA WritingStartFits ==
    ASSUME IInv, NEW r \in Request,
           Cleanup(r) \/ Reset(r) \/ (\E u \in BOOLEAN : Repair(r, u))
    PROVE  IInv'
<1>1. Installed /\ row \in Row
  BY DEF Cleanup, Reset, Repair, Repairable, Installed, IInv, TypeOK
<1>2. edits \in Nat /\ faults \in Nat /\ console \in Nat
  BY DEF IInv, TypeOK
<1>3. CASE Cleanup(r)
  <2> DEFINE x == [row EXCEPT !.status = "DELETE_REQUESTED"]
             c == Copy("check", FALSE, None)
  <2>1. /\ x \in Row /\ x.status = "DELETE_REQUESTED" /\ x.token = row.token
        /\ x.known = row.known
    BY <1>1, RowUpdate DEF Status
  <2>2. /\ row' = x /\ call' = [call EXCEPT ![r] = c] /\ row.known /\ edits' \in Nat
        /\ UNCHANGED <<issued, stack, settings, console, faults, discarded>>
    BY <1>2, <1>3 DEF Cleanup, Edited
  <2>3. c \in Call /\ CallFits(c) /\ c.at = "check" /\ c.token = row.token
    <3>1. "check" \in Step /\ "check" \notin Answered
      BY DEF Step, Answered
    <3>2. c \in Call /\ CallFits(c)
      BY <1>1, <2>2, <3>1, CopyFits
    <3>3. c.at = "check" /\ c.token = row.token
      BY <1>1, <3>1, CopyFields
    <3>4. QED BY <3>2, <3>3
  <2>4. PICK d \in Call : d = c
    BY <2>3
  <2>5. TypeOK'
    BY <2>1, <2>2, <2>3 DEF IInv, TypeOK
  <2>6. CallFits(d)'
    BY <1>1, <2>1, <2>2, <2>3, <2>4 DEF CallFits, Installed, Answered
  <2>7. RowFits'
    BY <1>1, <2>1, <2>2 DEF IInv, RowFits
  <2>8. QED BY <1>1, <2>1, <2>2, <2>4, <2>5, <2>6, <2>7, CallAndRow
<1>4. CASE Reset(r)
  <2>1. call' = [call EXCEPT ![r] = None]
    BY <1>4 DEF Reset, IInv, TypeOK
  <2>2. TypeOK'
    BY <1>2, <1>4 DEF Reset, Edited, IInv, TypeOK
  <2>3. /\ Unlocked /\ row' = None /\ row.status = "DELETE_COMPLETE"
        /\ UNCHANGED <<issued, stack, discarded>>
    BY <1>4 DEF Reset
  <2>4. QED BY <1>1, <2>1, <2>2, <2>3, CallAndNoRow
<1>5. CASE \E u \in BOOLEAN : Repair(r, u)
  <2>1. PICK u \in BOOLEAN : Repair(r, u)
    BY <1>5
  <2> DEFINE x == [row EXCEPT !.usable = u]
  <2>2. /\ x \in Row /\ x.status = row.status /\ x.token = row.token
        /\ x.known = row.known
    BY <1>1, RowUpdate
  <2>3. /\ row' = x /\ call[r] = None /\ call' = call /\ edits' \in Nat
        /\ UNCHANGED <<issued, stack, settings, console, faults, discarded>>
    BY <1>2, <2>1 DEF Repair, Edited
  <2>4. call' = [call EXCEPT ![r] = None]
    BY <2>3 DEF IInv, TypeOK
  <2>5. TypeOK'
    BY <2>2, <2>3 DEF IInv, TypeOK
  <2>6. RowFits'
    BY <1>1, <2>2, <2>3 DEF IInv, RowFits
  <2>7. QED BY <1>1, <2>2, <2>3, <2>4, <2>5, <2>6, CallAndRow
<1>6. QED BY <1>3, <1>4, <1>5

\* The answer to CreateStack, for a submission and for a replay.
LEMMA CreateFits ==
    ASSUME IInv, NEW r \in Request,
           \/ Create(r) \/ CreateUnanswered(r) \/ Replay(r) \/ ReplayUnanswered(r)
    PROVE  IInv'
<1>1. call[r] \in Call /\ CallFits(call[r])
  BY DEF Create, CreateUnanswered, Replay, ReplayUnanswered, At, IInv, TypeOK, CallsFit
<1>2. PICK t \in Token : t = call[r].token
  BY <1>1, CallFields
<1>3. t <= issued
  BY <1>1, <1>2 DEF CallFits
<1>4. PICK s \in StackState : s = IF stack[t] = None THEN "CREATE_IN_PROGRESS" ELSE stack[t]
  BY DEF IInv, TypeOK, StackState
<1>5. stack' = [stack EXCEPT ![t] = s]
  BY <1>2, <1>4 DEF Create, CreateUnanswered, Replay, ReplayUnanswered, CreateStack
<1>6. stack[t] = "DELETE_COMPLETE" => s = "DELETE_COMPLETE"
  BY <1>4, InstallationAssumption DEF StackState, Deleting
<1>7. UNCHANGED <<row, issued, settings, discarded>>
  BY DEF Create, CreateUnanswered, Replay, ReplayUnanswered
<1>8. faults' \in Nat /\ edits' \in Nat /\ console' \in Nat
  <2>1. edits \in Nat /\ faults \in Nat /\ console \in Nat
    BY DEF IInv, TypeOK
  <2>2. CASE Create(r) \/ Replay(r)
    BY <2>1, <2>2 DEF Create, Replay
  <2>3. CASE CreateUnanswered(r) \/ ReplayUnanswered(r)
    BY <2>1, <2>3 DEF CreateUnanswered, ReplayUnanswered, Faulted
  <2>4. QED BY <2>2, <2>3
<1>9. s # None /\ stack'[t] = s
  BY <1>5, InstallationAssumption DEF IInv, TypeOK
<1>10. CASE Create(r) \/ Replay(r) \/ ReplayUnanswered(r)
  <2>1. PICK at \in {"record", "recover", "drop"} : call' = [call EXCEPT ![r].at = at]
    BY <1>10 DEF Create, Replay, ReplayUnanswered, Proceed
  <2>2. at \in Step /\ at \notin WithId /\ at \notin Answered /\ at # "verify" /\ at # "conclude"
    BY DEF Step, WithId, Answered
  <2>3. PICK c \in Call : c = [call[r] EXCEPT !.at = at]
    BY <1>1, <2>2, CallUpdate
  <2>4. c.at = at /\ c.token = t
    BY <1>1, <1>2, <2>2, <2>3, CallUpdate
  <2>5. call' = [call EXCEPT ![r] = c]
    BY <2>1, <2>3 DEF IInv, TypeOK
  <2>6. TypeOK'
    BY <1>5, <1>7, <1>8, <2>5 DEF IInv, TypeOK
  <2>7. CallFits(c)'
    BY <1>3, <1>7, <1>9, <2>2, <2>4 DEF CallFits
  <2>8. QED BY <1>3, <1>5, <1>6, <1>7, <2>5, <2>6, <2>7, CallAndStack
<1>11. CASE CreateUnanswered(r)
  <2>1. call' = [call EXCEPT ![r] = None]
    BY <1>11 DEF CreateUnanswered, Finish
  <2>2. TypeOK'
    BY <1>5, <1>7, <1>8, <2>1 DEF IInv, TypeOK
  <2>3. QED BY <1>3, <1>5, <1>6, <1>7, <2>1, <2>2, CallAndStack
<1>12. QED BY <1>10, <1>11

\* The answer to DeleteStack.
LEMMA DeleteFits ==
    ASSUME IInv, NEW r \in Request, Delete(r) \/ DeleteUnanswered(r)
    PROVE  IInv'
<1>1. call[r] \in Call /\ CallFits(call[r]) /\ call[r].at = "delete"
  BY DEF Delete, DeleteUnanswered, At, IInv, TypeOK, CallsFit
<1>2. PICK t \in Token : t = call[r].token
  BY <1>1, CallFields
<1>3. t <= issued
  BY <1>1, <1>2 DEF CallFits
<1>4. PICK s \in StackState :
         s = IF stack[t] = "DELETE_COMPLETE" THEN stack[t] ELSE "DELETE_IN_PROGRESS"
  BY DEF StackState, Deleting
<1>5. stack' = [stack EXCEPT ![t] = s]
  BY <1>2, <1>4 DEF Delete, DeleteUnanswered, DeleteStack
<1>6. UNCHANGED <<row, issued, settings, discarded>>
  BY DEF Delete, DeleteUnanswered
<1>7. faults' \in Nat /\ edits' \in Nat /\ console' \in Nat
  <2>1. edits \in Nat /\ faults \in Nat /\ console \in Nat
    BY DEF IInv, TypeOK
  <2>2. CASE Delete(r)
    BY <2>1, <2>2 DEF Delete
  <2>3. CASE DeleteUnanswered(r)
    BY <2>1, <2>3 DEF DeleteUnanswered, Faulted
  <2>4. QED BY <2>2, <2>3
<1>8. s # None /\ stack'[t] = s
  BY <1>5, InstallationAssumption DEF IInv, TypeOK
<1>9. CASE Delete(r)
  <2>1. PICK c \in Call : /\ c = [call[r] EXCEPT !.at = "conclude", !.seen = "DELETE_IN_PROGRESS"]
                          /\ c.at = "conclude" /\ c.token = t /\ c.seen = "DELETE_IN_PROGRESS"
    <3>1. PICK c : c = [call[r] EXCEPT !.at = "conclude", !.seen = "DELETE_IN_PROGRESS"]
      OBVIOUS
    <3>2. "conclude" \in Step /\ "DELETE_IN_PROGRESS" \in StackState \union {None}
      BY DEF Step, StackState, Deleting
    <3>3. /\ c \in Call /\ c.at = "conclude" /\ c.token = call[r].token
          /\ c.seen = "DELETE_IN_PROGRESS"
      BY <1>1, <3>1, <3>2 DEF Call
    <3>4. QED BY <1>2, <3>1, <3>3
  <2>2. call' = [call EXCEPT ![r] = c]
    BY <1>9, <2>1 DEF Delete, Learn, IInv, TypeOK
  <2>3. TypeOK'
    BY <1>5, <1>6, <1>7, <2>2 DEF IInv, TypeOK
  <2>4. "DELETE_IN_PROGRESS" # None
    BY InstallationAssumption DEF StackState, Deleting
  <2>5. CallFits(c)'
    BY <1>1, <1>2, <1>3, <1>6, <1>8, <2>1, <2>4 DEF CallFits, WithId, Installed
  <2>6. QED BY <1>3, <1>4, <1>5, <1>6, <2>2, <2>3, <2>5, CallAndStack
<1>10. CASE DeleteUnanswered(r)
  <2>1. call' = [call EXCEPT ![r] = None]
    BY <1>10 DEF DeleteUnanswered, Finish
  <2>2. TypeOK'
    BY <1>5, <1>6, <1>7, <2>1 DEF IInv, TypeOK
  <2>3. QED BY <1>3, <1>4, <1>5, <1>6, <2>1, <2>2, CallAndStack
<1>11. QED BY <1>9, <1>10

\* The answers to GetStack.
LEMMA AnswerFits ==
    ASSUME IInv, NEW r \in Request, Query(r) \/ Check(r)
    PROVE  IInv'
<1>1. /\ call[r] \in Call /\ CallFits(call[r])
      /\ call[r].at \in {"query", "check"}
  BY DEF Query, Check, At, IInv, TypeOK, CallsFit
<1>2. /\ UNCHANGED <<row, issued, stack, settings, discarded>>
      /\ edits' \in Nat /\ faults' \in Nat /\ console' \in Nat
  BY DEF Query, Check, IInv, TypeOK
<1>3. PICK t \in Token : t = call[r].token /\ stack[t] \in StackState
  BY <1>1, CallFields DEF CallFits, WithStack, IInv, TypeOK
<1>4. PICK at \in {"commit", "conclude", "delete"}, a \in StackState :
         /\ call' = [call EXCEPT ![r].at = at, ![r].seen = a]
         /\ at # "delete" /\ a = "DELETE_COMPLETE" => stack[t] = "DELETE_COMPLETE"
         /\ at = "conclude" => a # "CREATE_COMPLETE"
  <2>1. CASE Query(r)
    BY <1>3, <2>1 DEF Query, Learn
  <2>2. CASE Check(r)
    <3>1. "CREATE_IN_PROGRESS" \in StackState
      BY DEF StackState
    <3>2. CASE stack[t] \in {"DELETE_COMPLETE", "DELETE_IN_PROGRESS"}
      <4>1. call' = [call EXCEPT ![r].at = "conclude", ![r].seen = stack[t]]
        BY <1>3, <2>2, <3>2 DEF Check, Learn, FailedStates
      <4>2. QED BY <1>3, <3>2, <4>1
    <3>3. CASE stack[t] \in FailedStates
      <4>1. call' = [call EXCEPT ![r].at = "delete", ![r].seen = stack[t]]
        BY <1>3, <2>2, <3>3 DEF Check, Learn, FailedStates
      <4>2. QED BY <1>3, <4>1
    <3>4. CASE stack[t] \notin FailedStates \union {"DELETE_COMPLETE", "DELETE_IN_PROGRESS"}
      <4>1. call' = [call EXCEPT ![r].at = "conclude", ![r].seen = "CREATE_IN_PROGRESS"]
        BY <1>3, <2>2, <3>4 DEF Check, Learn
      <4>2. QED BY <3>1, <4>1
    <3>5. QED BY <3>2, <3>3, <3>4
  <2>3. QED BY <2>1, <2>2
<1>5. at \in Step
  BY DEF Step
<1>6. PICK c \in Call : /\ c = [call[r] EXCEPT !.at = at, !.seen = a]
                        /\ c.at = at /\ c.token = t /\ c.seen = a
  <2>1. PICK c : c = [call[r] EXCEPT !.at = at, !.seen = a]
    OBVIOUS
  <2>2. a \in StackState \union {None}
    OBVIOUS
  <2>3. c \in Call /\ c.at = at /\ c.token = call[r].token /\ c.seen = a
    BY <1>1, <1>5, <2>1, <2>2 DEF Call
  <2>4. QED BY <1>3, <2>1, <2>3
<1>7. call' = [call EXCEPT ![r] = c]
  BY <1>4, <1>6 DEF IInv, TypeOK
<1>8. a # None
  BY InstallationAssumption
<1>9. CallFits(c)
  BY <1>1, <1>3, <1>4, <1>6, <1>8 DEF CallFits, WithStack, WithId, Answered
<1>10. QED BY <1>2, <1>7, <1>9, OnlyCall

\* Steps after which only the call of r has changed, and it needs no stack.
LEMMA QuietFits ==
    ASSUME IInv, NEW r \in Request,
           \/ Unauthorized(r) \/ CreateRefused(r) \/ Fail(r)
           \/ ReplayRefused(r) \/ ReplayFails(r)
    PROVE  IInv'
<1>1. UNCHANGED <<row, issued, stack, settings, discarded>> /\ call[r] # None
  BY DEF Unauthorized, CreateRefused, Fail, ReplayRefused, ReplayFails, At
<1>2. edits' \in Nat /\ faults' \in Nat /\ console' \in Nat
  <2>1. edits \in Nat /\ faults \in Nat /\ console \in Nat
    BY DEF IInv, TypeOK
  <2>2. CASE Unauthorized(r) \/ CreateRefused(r) \/ ReplayRefused(r)
    BY <2>1, <2>2 DEF Unauthorized, CreateRefused, ReplayRefused
  <2>3. CASE Fail(r) \/ ReplayFails(r)
    BY <2>1, <2>3 DEF Fail, ReplayFails, Faulted
  <2>4. QED BY <2>2, <2>3
<1>3. CASE Unauthorized(r) \/ CreateRefused(r) \/ Fail(r)
  <2>1. call' = [call EXCEPT ![r] = None]
    BY <1>3 DEF Unauthorized, CreateRefused, Fail, Finish
  <2>2. QED BY <1>1, <1>2, <2>1, OnlyCall
<1>4. CASE ReplayRefused(r) \/ ReplayFails(r)
  <2>1. "drop" \in Step /\ "drop" \notin WithStack
    BY DEF Step, WithStack
  <2>2. PICK c \in Call : c = [call[r] EXCEPT !.at = "drop"] /\ CallFits(c)
    BY <1>1, <2>1, ProceedFits
  <2>3. call' = [call EXCEPT ![r] = c]
    BY <1>4, <2>2 DEF ReplayRefused, ReplayFails, Proceed, IInv, TypeOK
  <2>4. QED BY <1>1, <1>2, <2>2, <2>3, OnlyCall
<1>5. QED BY <1>3, <1>4

LEMMA RereadFits ==
    ASSUME IInv, NEW r \in Request, Reread(r)
    PROVE  IInv'
<1>1. /\ UNCHANGED <<row, issued, stack, settings, discarded>>
      /\ edits' \in Nat /\ faults' \in Nat /\ console' \in Nat
  BY DEF Reread, IInv, TypeOK
<1>2. CASE Installed /\ row.known
  <2>1. PICK c \in Call : call' = [call EXCEPT ![r] = c] /\ CallFits(c)
    BY <1>2, AskForFits DEF Reread
  <2>2. QED BY <1>1, <2>1, OnlyCall
<1>3. CASE ~(Installed /\ row.known)
  <2>1. call' = [call EXCEPT ![r] = None]
    BY <1>3 DEF Reread, Finish
  <2>2. QED BY <1>1, <2>1, OnlyCall
<1>4. QED BY <1>2, <1>3

LEMMA RecordFits ==
    ASSUME IInv, NEW r \in Request, Record(r)
    PROVE  IInv'
<1>1. /\ call[r] \in Call /\ CallFits(call[r]) /\ call[r].at = "record"
      /\ stack[call[r].token] # None
  BY DEF Record, At, IInv, TypeOK, CallsFit, CallFits, WithStack
<1>2. /\ UNCHANGED <<issued, stack, settings, discarded>>
      /\ edits' \in Nat /\ faults' \in Nat /\ console' \in Nat
  BY DEF Record, IInv, TypeOK
<1>3. PICK c \in Call \union {None} : /\ call' = [call EXCEPT ![r] = c]
                                      /\ c # None => CallFits(c) /\ c.at = "reread"
  <2>1. "reread" \in Step /\ "reread" \notin WithStack
    BY DEF Step, WithStack
  <2>2. CASE call[r].polls
    <3>1. PICK c \in Call : c = [call[r] EXCEPT !.at = "reread"] /\ CallFits(c)
      BY <1>1, <2>1, CallFields, ProceedFits
    <3>2. c.at = "reread"
      BY <1>1, <2>1, <3>1, CallUpdate
    <3>3. call' = [call EXCEPT ![r] = c]
      BY <2>2, <3>1 DEF Record, Proceed, IInv, TypeOK
    <3>4. QED BY <3>1, <3>2, <3>3
  <2>3. CASE ~call[r].polls
    BY <2>3 DEF Record, Finish
  <2>4. QED BY <2>2, <2>3
<1>4. CASE SameInstall(r) /\ ~row.known /\ row.status = "SUBMITTING"
  <2> DEFINE x == [row EXCEPT !.known = TRUE, !.status = "CREATE_IN_PROGRESS"]
  <2>1. Installed /\ row \in Row /\ row.token = call[r].token
    BY <1>4 DEF SameInstall, Installed, IInv, TypeOK
  <2>2. /\ x \in Row /\ x.status = "CREATE_IN_PROGRESS" /\ x.token = row.token
        /\ x.known = TRUE /\ row' = x
    BY <1>4, <2>1, RowUpdate DEF Status, StackState, Record
  <2>3. TypeOK'
    BY <1>2, <1>3, <2>2 DEF IInv, TypeOK
  <2>4. RowFits'
    BY <1>1, <1>2, <2>1, <2>2 DEF IInv, RowFits
  <2>5. c # None => CallFits(c)'
    BY <1>2, <1>3, <2>1, <2>2 DEF CallFits, WithStack, WithId, Answered
  <2>6. QED BY <1>2, <1>3, <2>1, <2>2, <2>3, <2>4, <2>5, CallAndRow
<1>5. CASE ~(SameInstall(r) /\ ~row.known /\ row.status = "SUBMITTING")
  <2>1. row' = row
    BY <1>5 DEF Record
  <2>2. QED BY <1>2, <1>3, <2>1, OnlyCall
<1>6. QED BY <1>4, <1>5

LEMMA CommitFits ==
    ASSUME IInv, NEW r \in Request, Commit(r)
    PROVE  IInv'
<1>1. /\ call[r] \in Call /\ CallFits(call[r]) /\ call[r].at = "commit"
      /\ call[r].seen \in StackState
  BY CallFields DEF Commit, At, IInv, TypeOK, CallsFit, CallFits, Answered
<1>2. /\ UNCHANGED <<issued, stack, discarded>> /\ call' = [call EXCEPT ![r] = None]
      /\ edits' \in Nat /\ faults' \in Nat /\ console' \in Nat
  BY DEF Commit, Finish, IInv, TypeOK
<1> DEFINE state == IF row.status = "CREATE_COMPLETE" THEN "CREATE_COMPLETE" ELSE call[r].seen
<1>3. CASE SameInstall(r) /\ row' = [row EXCEPT !.status = state]
           /\ settings' = IF state = "CREATE_COMPLETE" THEN call[r].token ELSE settings
  <2>1. Installed /\ row \in Row /\ row.token = call[r].token /\ row.known
    BY <1>1, <1>3 DEF SameInstall, Installed, IInv, TypeOK, CallFits, WithId
  <2>2. state \in Status
    BY <1>1 DEF Status, StackState
  <2>3. /\ row' \in Row /\ row'.status = state /\ row'.token = row.token
        /\ row'.known = row.known
    BY <1>3, <2>1, <2>2, RowUpdate
  <2>4. TypeOK'
    BY <1>1, <1>2, <1>3, <2>3, CallFields DEF IInv, TypeOK
  <2>5. state = "DELETE_COMPLETE" => stack[row.token] = "DELETE_COMPLETE"
    BY <1>1, <2>1 DEF CallFits, Answered
  <2>6. RowFits'
    BY <1>2, <1>3, <2>1, <2>3, <2>5 DEF IInv, RowFits
  <2>7. QED BY <1>2, <2>1, <2>3, <2>4, <2>6, CallAndRow
<1>4. CASE UNCHANGED <<row, settings>>
  BY <1>2, <1>4, OnlyCall
<1>5. QED BY <1>3, <1>4 DEF Commit

LEMMA ConcludeFits ==
    ASSUME IInv, NEW r \in Request, Conclude(r)
    PROVE  IInv'
<1>1. /\ call[r] \in Call /\ CallFits(call[r]) /\ call[r].at = "conclude"
      /\ call[r].seen \in StackState
  BY CallFields DEF Conclude, At, IInv, TypeOK, CallsFit, CallFits, Answered
<1>2. /\ UNCHANGED <<issued, stack, settings, discarded>> /\ call' = [call EXCEPT ![r] = None]
      /\ edits' \in Nat /\ faults' \in Nat /\ console' \in Nat
  BY DEF Conclude, Finish, IInv, TypeOK
<1>3. CASE SameInstall(r)
  <2>1. Installed /\ row \in Row /\ row.token = call[r].token /\ row.known
    BY <1>1, <1>3 DEF SameInstall, Installed, IInv, TypeOK, CallFits, WithId
  <2>2. /\ row' \in Row /\ row'.status = call[r].seen /\ row'.token = row.token
        /\ row'.known = row.known
    BY <1>1, <1>3, <2>1, RowUpdate DEF Conclude, Status
  <2>3. TypeOK'
    BY <1>2, <2>2 DEF IInv, TypeOK
  <2>4. /\ call[r].seen = "DELETE_COMPLETE" => stack[row.token] = "DELETE_COMPLETE"
        /\ call[r].seen # "CREATE_COMPLETE"
    BY <1>1, <2>1 DEF CallFits, Answered
  <2>5. RowFits'
    BY <1>2, <2>1, <2>2, <2>4 DEF IInv, RowFits
  <2>6. QED BY <1>2, <2>1, <2>2, <2>3, <2>5, CallAndRow
<1>4. CASE ~SameInstall(r)
  <2>1. row' = row
    BY <1>4 DEF Conclude
  <2>2. QED BY <1>2, <2>1, OnlyCall
<1>5. QED BY <1>3, <1>4

LEMMA VerifyFits ==
    ASSUME IInv, NEW r \in Request, Verify(r)
    PROVE  IInv'
<1>1. Installed /\ row \in Row
  BY DEF Verify, At, IInv, TypeOK, CallsFit, CallFits, Installed
<1>2. /\ UNCHANGED <<issued, stack, settings, discarded>> /\ call' = [call EXCEPT ![r] = None]
      /\ edits' \in Nat /\ faults' \in Nat /\ console' \in Nat
  BY DEF Verify, Finish, IInv, TypeOK
<1>3. /\ row' \in Row /\ row'.status = row.status /\ row'.token = row.token
      /\ row'.known = row.known
  BY <1>1, RowUpdate DEF Verify
<1>4. TypeOK'
  BY <1>2, <1>3 DEF IInv, TypeOK
<1>5. RowFits'
  BY <1>1, <1>2, <1>3 DEF IInv, RowFits
<1>6. QED BY <1>1, <1>2, <1>3, <1>4, <1>5, CallAndRow

LEMMA RecoverFits ==
    ASSUME IInv, NEW r \in Request, Recover(r)
    PROVE  IInv'
<1>1. call[r] \in Call /\ CallFits(call[r]) /\ stack[call[r].token] # None
  BY DEF Recover, At, IInv, TypeOK, CallsFit, CallFits, WithStack
<1>2. /\ UNCHANGED <<issued, stack, settings, discarded>> /\ call' = [call EXCEPT ![r] = None]
      /\ edits' \in Nat /\ faults' \in Nat /\ console' \in Nat
  BY DEF Recover, Finish, IInv, TypeOK
<1>3. CASE SameInstall(r)
  <2>1. Installed /\ row \in Row /\ row.token = call[r].token
    BY <1>3 DEF SameInstall, Installed, IInv, TypeOK
  <2>2. /\ row' \in Row /\ row'.status = "CREATE_IN_PROGRESS" /\ row'.token = row.token
        /\ row'.known = TRUE
    BY <1>3, <2>1, RowUpdate DEF Recover, Status, StackState
  <2>3. TypeOK'
    BY <1>2, <2>2 DEF IInv, TypeOK
  <2>4. RowFits'
    BY <1>1, <1>2, <2>1, <2>2 DEF IInv, RowFits
  <2>5. QED BY <1>2, <2>1, <2>2, <2>3, <2>4, CallAndRow
<1>4. CASE ~SameInstall(r)
  <2>1. row' = row
    BY <1>4 DEF Recover
  <2>2. QED BY <1>2, <2>1, OnlyCall
<1>5. QED BY <1>3, <1>4

LEMMA DropFits ==
    ASSUME IInv, NEW r \in Request, Drop(r)
    PROVE  IInv'
<1>1. /\ UNCHANGED <<issued, stack, settings>> /\ call' = [call EXCEPT ![r] = None]
      /\ edits' \in Nat /\ faults' \in Nat /\ console' \in Nat
  BY DEF Drop, Finish, IInv, TypeOK
<1>2. CASE SameInstall(r)
  <2>1. Installed /\ row \in Row /\ row.token \in Token
    BY <1>2, RowFields DEF SameInstall, Installed, IInv, TypeOK
  <2>2. Unlocked /\ row' = None /\ discarded' = discarded \union {row.token}
    BY <1>2 DEF Drop
  <2>3. TypeOK'
    BY <1>1, <2>1, <2>2 DEF IInv, TypeOK
  <2>4. QED BY <1>1, <2>1, <2>2, <2>3, CallAndNoRow
<1>3. CASE ~SameInstall(r)
  <2>1. UNCHANGED <<row, discarded>>
    BY <1>3 DEF Drop
  <2>2. QED BY <1>1, <2>1, OnlyCall
<1>4. QED BY <1>2, <1>3

LEMMA CloudFits ==
    ASSUME IInv, NEW t \in Token, StackMoves(t) \/ ConsoleContinues(t)
    PROVE  IInv'
<1>1. /\ UNCHANGED <<row, issued, settings, discarded, call>>
      /\ edits' \in Nat /\ faults' \in Nat /\ console' \in Nat
  <2>1. edits \in Nat /\ faults \in Nat /\ console \in Nat
    BY DEF IInv, TypeOK
  <2>2. CASE StackMoves(t)
    BY <2>1, <2>2 DEF StackMoves
  <2>3. CASE ConsoleContinues(t)
    BY <2>1, <2>3 DEF ConsoleContinues
  <2>4. QED BY <2>2, <2>3
<1>2. /\ stack[t] \in {"CREATE_IN_PROGRESS", "DELETE_IN_PROGRESS", "CREATE_FAILED"}
      /\ \E s \in StackState : stack' = [stack EXCEPT ![t] = s]
  BY DEF StackMoves, ConsoleContinues, StackState, Deleting
<1>3. PICK s \in StackState : stack' = [stack EXCEPT ![t] = s]
  BY <1>2
<1>4. stack[t] # None /\ stack[t] # "DELETE_COMPLETE"
  BY <1>2, InstallationAssumption DEF StackState, Deleting
<1>5. TypeOK'
  BY <1>1, <1>3 DEF IInv, TypeOK
<1>6. QED BY <1>1, <1>3, <1>4, <1>5, StackAlone

-----------------------------------------------------------------------------
(* The theorems *)

LEMMA InitFits == Init => IInv
BY InstallationAssumption
   DEF Init, IInv, TypeOK, CallsFit, RowFits, Accounted, Installed, Token

LEMMA NextFits == IInv /\ [Next]_vars => IInv'
<1> SUFFICES ASSUME IInv, [Next]_vars PROVE IInv'
  OBVIOUS
<1>1. ASSUME NEW r \in Request, RequestStarts(r) PROVE IInv'
  <2>1. CASE \E u \in BOOLEAN : Deploy(r, u)
    BY <2>1, DeployFits
  <2>2. CASE DeployAgain(r) \/ Refresh(r) \/ StartRepair(r) \/ Discard(r)
    BY <2>2, ReadingStartFits
  <2>3. CASE Cleanup(r) \/ Reset(r) \/ (\E u \in BOOLEAN : Repair(r, u))
    BY <2>3, WritingStartFits
  <2>4. QED BY <1>1, <2>1, <2>2, <2>3 DEF RequestStarts
<1>2. ASSUME NEW r \in Request, RequestGoesOn(r) PROVE IInv'
  <2>1. CASE Create(r) \/ Replay(r)
    BY <2>1, CreateFits
  <2>2. CASE Record(r)
    BY <2>2, RecordFits
  <2>3. CASE Reread(r)
    BY <2>3, RereadFits
  <2>4. CASE Query(r) \/ Check(r)
    BY <2>4, AnswerFits
  <2>5. CASE Commit(r)
    BY <2>5, CommitFits
  <2>6. CASE Delete(r)
    BY <2>6, DeleteFits
  <2>7. CASE Conclude(r)
    BY <2>7, ConcludeFits
  <2>8. CASE Verify(r)
    BY <2>8, VerifyFits
  <2>9. CASE ReplayRefused(r) \/ CreateRefused(r) \/ Unauthorized(r)
    BY <2>9, QuietFits
  <2>10. CASE Recover(r)
    BY <2>10, RecoverFits
  <2>11. CASE Drop(r)
    BY <2>11, DropFits
  <2>12. QED
    BY <1>2, <2>1, <2>2, <2>3, <2>4, <2>5, <2>6, <2>7, <2>8, <2>9, <2>10, <2>11
       DEF RequestGoesOn
<1>3. ASSUME NEW r \in Request, RequestFails(r) PROVE IInv'
  <2>1. CASE CreateUnanswered(r) \/ ReplayUnanswered(r)
    BY <2>1, CreateFits
  <2>2. CASE DeleteUnanswered(r)
    BY <2>2, DeleteFits
  <2>3. CASE ReplayFails(r) \/ Fail(r)
    BY <2>3, QuietFits
  <2>4. QED BY <1>3, <2>1, <2>2, <2>3 DEF RequestFails
<1>4. ASSUME NEW t \in Token, StackMoves(t) \/ ConsoleContinues(t) PROVE IInv'
  BY <1>4, CloudFits
<1>5. CASE UNCHANGED vars
  BY <1>5 DEF vars, IInv, TypeOK, CallsFit, CallFits, RowFits, Accounted, Installed
<1>6. QED BY <1>1, <1>2, <1>3, <1>4, <1>5 DEF Next

LEMMA Invariance == Spec => []IInv
BY InitFits, NextFits, PTL DEF Spec

\* The row, the stacks, the settings and the requests are always what they are
\* declared to be; a status that ROS has not reported is never saved.
THEOREM TypeCorrect == Spec => []TypeOK
<1>1. IInv => TypeOK
  BY DEF IInv
<1>2. QED BY <1>1, Invariance, PTL

\* A live stack always belongs to the record or to a discarded one, for any number
\* of installations, of concurrent requests and of lost answers.
THEOREM StacksAccountedFor == Spec => []OrphansWereDiscarded
<1>1. IInv => OrphansWereDiscarded
  <2> SUFFICES ASSUME IInv, NEW t \in Token, Live(t)
               PROVE  (Installed /\ row.token = t) \/ t \in discarded
    BY DEF OrphansWereDiscarded
  <2>1. stack[t] # None /\ stack[t] # "DELETE_COMPLETE"
    BY DEF Live
  <2>2. QED BY <2>1 DEF IInv, Accounted
<1>2. QED BY <1>1, Invariance, PTL

\* An installation that says it is complete has a stack, and the settings in
\* system_config are the outputs of that stack.
THEOREM CompletionIsReal == Spec => []InstalledIsReal
<1>1. IInv => InstalledIsReal
  BY DEF IInv, RowFits, InstalledIsReal
<1>2. QED BY <1>1, Invariance, PTL

-----------------------------------------------------------------------------
(* What late and repeated answers cannot undo                                *)

\* A stack that will not be used: its creation failed, or its deletion began.
Doomed(t) == stack[t] \in Deleting \union {"CREATE_FAILED"}

\* The deletion of a stack is intended by the record as it stands.
Intended(t) == Installed /\ row.token = t /\ row.status = "DELETE_REQUESTED"

\* What a request with an old copy may still rely on when nobody discards a record
\* or continues a failed stack in the console: the stack it is about to delete has
\* failed and its deletion is intended, unless it has begun; and what it was told
\* at the end of a creation or in a deletion is so for ever.
Lasting(c) ==
    /\ c.at \notin {"replay", "recover", "drop"}
    /\ c.at \in {"check", "delete"} =>
          stack[c.token] \in Deleting \/ (stack[c.token] = "CREATE_FAILED" /\ Intended(c.token))
    /\ c.at = "conclude" => stack[c.token] \in Deleting
    /\ c.at = "commit" =>
          /\ c.seen \in Deleting => stack[c.token] \in Deleting
          /\ c.seen = "CREATE_FAILED" => Doomed(c.token)
          /\ c.seen = "CREATE_COMPLETE" => stack[c.token] = "CREATE_COMPLETE"
    /\ c.at = "verify" => Installed /\ row.status # "CREATE_COMPLETE"

RowLasts ==
    Installed =>
        /\ row.status \in Deleting \union {"CREATE_FAILED", "DELETE_REQUESTED"} => Doomed(row.token)
        /\ row.status = "CREATE_COMPLETE" => stack[row.token] = "CREATE_COMPLETE"

History == RowLasts /\ \A r \in Request : call[r] # None => Lasting(call[r])

IInvHistory == IInv /\ History

\* How the calls move: r's own, and no other.
Others(r) == \A q \in Request : q # r => call'[q] = call[q]

LEMMA CallMoves ==
    ASSUME IInv, NEW r \in Request
    PROVE  /\ Finish(r) => call'[r] = None /\ Others(r)
           /\ \A s \in Step : call[r] # None /\ Proceed(r, s) =>
                /\ call'[r].at = s /\ call'[r].token = call[r].token
                /\ Others(r)
           /\ \A s \in Step, a \in StackState \union {None} : call[r] # None /\ Learn(r, s, a) =>
                /\ call'[r].at = s /\ call'[r].token = call[r].token /\ call'[r].seen = a
                /\ Others(r)
           /\ \A s \in Step, p \in BOOLEAN, a \in StackState \union {None} :
                Installed /\ call' = [call EXCEPT ![r] = Copy(s, p, a)] =>
                /\ call'[r].at = s /\ call'[r].token = row.token /\ call'[r].seen = a
                /\ Others(r)
<1>1. call \in [Request -> Call \union {None}] /\ (Installed => row \in Row)
  BY DEF IInv, TypeOK, Installed
<1>2. Finish(r) => call'[r] = None /\ Others(r)
  BY <1>1 DEF Finish, Others
<1>3. ASSUME NEW s \in Step, call[r] # None, Proceed(r, s)
      PROVE  call'[r].at = s /\ call'[r].token = call[r].token /\ Others(r)
  <2>1. call[r] \in Call
    BY <1>1, <1>3
  <2>2. call'[r] = [call[r] EXCEPT !.at = s] /\ Others(r)
    BY <1>1, <1>3 DEF Proceed, Others
  <2>3. QED BY <2>1, <2>2 DEF Call
<1>4. ASSUME NEW s \in Step, NEW a \in StackState \union {None}, call[r] # None, Learn(r, s, a)
      PROVE  /\ call'[r].at = s /\ call'[r].token = call[r].token /\ call'[r].seen = a
             /\ Others(r)
  <2>1. call[r] \in Call
    BY <1>1, <1>4
  <2>2. call'[r] = [call[r] EXCEPT !.at = s, !.seen = a] /\ Others(r)
    BY <1>1, <1>4 DEF Learn, Others
  <2>3. QED BY <2>1, <2>2 DEF Call
<1>5. ASSUME NEW s \in Step, NEW p \in BOOLEAN, NEW a \in StackState \union {None},
             Installed, call' = [call EXCEPT ![r] = Copy(s, p, a)]
      PROVE  /\ call'[r].at = s /\ call'[r].token = row.token /\ call'[r].seen = a
             /\ Others(r)
  <2>1. Copy(s, p, a).at = s /\ Copy(s, p, a).token = row.token /\ Copy(s, p, a).seen = a
    BY DEF Copy
  <2>2. call'[r] = Copy(s, p, a) /\ Others(r)
    BY <1>1, <1>5 DEF Others
  <2>3. QED BY <2>1, <2>2
<1>6. QED BY <1>2, <1>3, <1>4, <1>5

\* Stacks that are complete, that failed or whose deletion began remain so, and an
\* intent to delete remains until the deletion begins.
Aging ==
    \A t \in Token : /\ stack[t] \in Deleting => stack'[t] \in Deleting
                     /\ Doomed(t) => Doomed(t)'
                     /\ stack[t] = "CREATE_COMPLETE" => stack'[t] = "CREATE_COMPLETE"
                     /\ Intended(t) => Intended(t)' \/ stack'[t] \in Deleting

LEMMA LastingOn ==
    ASSUME Aging, NEW c \in Call, Lasting(c),
           c.at = "verify" => Installed' /\ row'.status # "CREATE_COMPLETE"
    PROVE  Lasting(c)'
<1>1. c.token \in Token
  BY CallFields
<1>2. stack[c.token] = "CREATE_FAILED" => Doomed(c.token)
  BY DEF Doomed
<1>3. Doomed(c.token)' <=> stack'[c.token] \in Deleting \union {"CREATE_FAILED"}
  BY DEF Doomed
<1>4. QED BY <1>1, <1>2, <1>3 DEF Lasting, Aging

LEMMA HistoryStep ==
    ASSUME IInv, History, Aging, RowLasts', NEW r \in Request, Others(r),
           call'[r] # None => Lasting(call[r])',
           \A q \in Request : q # r /\ At(q, "verify") => Installed' /\ row'.status # "CREATE_COMPLETE"
    PROVE  History'
<1>1. ASSUME NEW q \in Request, call'[q] # None, q # r PROVE Lasting(call[q])'
  <2>1. call'[q] = call[q] /\ call[q] \in Call /\ Lasting(call[q])
    BY <1>1 DEF Others, History, IInv, TypeOK
  <2>2. PICK c \in Call : c = call[q]
    BY <2>1
  <2>3. Lasting(c) /\ (c.at = "verify" => Installed' /\ row'.status # "CREATE_COMPLETE")
    BY <1>1, <2>1, <2>2 DEF At
  <2>4. Lasting(c)'
    BY <2>3, LastingOn
  <2>5. QED BY <2>1, <2>2, <2>4
<1>2. QED BY <1>1 DEF History

\* Where the stacks and the record stay, only the new call is in question.
LEMMA HistoryOfCall ==
    ASSUME IInv, History, UNCHANGED <<row, stack>>, NEW r \in Request, Others(r),
           call'[r] # None => Lasting(call'[r])
    PROVE  History'
<1>1. Aging
  BY DEF Aging, Doomed, Intended, Installed
<1>2. RowLasts'
  BY DEF History, RowLasts, Installed, Doomed
<1>3. \A q \in Request : At(q, "verify") => Installed' /\ row'.status # "CREATE_COMPLETE"
  BY DEF History, Lasting, At, Installed
<1>4. call'[r] # None => Lasting(call[r])'
  BY DEF Lasting, Installed, Doomed, Intended
<1>5. QED BY <1>1, <1>2, <1>3, <1>4, HistoryStep
\* Steps that rely on nothing that was learnt.
LEMMA NothingLearnt ==
    ASSUME NEW c, c.at \in {"create", "record", "reread", "query"}
    PROVE  Lasting(c)
BY DEF Lasting

LEMMA AskForLasts ==
    ASSUME IInv, History, NEW r \in Request, Installed, AskFor(r)
    PROVE  Others(r) /\ Lasting(call'[r])
<1>1. /\ "commit" \in Step /\ "query" \in Step
      /\ "CREATE_COMPLETE" \in StackState \union {None}
      /\ "CREATE_COMPLETE" \notin Deleting
  BY DEF Step, StackState, Deleting
<1>2. CASE row.status = "CREATE_COMPLETE"
  <2>0. PICK a \in StackState \union {None} :
           a = "CREATE_COMPLETE" /\ call' = [call EXCEPT ![r] = Copy("commit", TRUE, a)]
    BY <1>1, <1>2 DEF AskFor
  <2>1. /\ call'[r].at = "commit" /\ call'[r].token = row.token
        /\ call'[r].seen = "CREATE_COMPLETE" /\ Others(r)
    <3>1. \A s \in Step, p \in BOOLEAN :
             call' = [call EXCEPT ![r] = Copy(s, p, a)] =>
                /\ call'[r].at = s /\ call'[r].token = row.token /\ call'[r].seen = a
                /\ Others(r)
      BY CallMoves
    <3>2. QED BY <1>1, <2>0, <3>1
  <2>2. stack[row.token] = "CREATE_COMPLETE"
    BY <1>2 DEF History, RowLasts
  <2>3. QED BY <1>1, <2>1, <2>2 DEF Lasting
<1>3. CASE row.status # "CREATE_COMPLETE"
  <2>1. call'[r].at = "query" /\ Others(r)
    BY <1>1, <1>3, CallMoves DEF AskFor
  <2>2. QED BY <2>1, NothingLearnt
<1>4. QED BY <1>2, <1>3

LEMMA ReadingHistory ==
    ASSUME IInv, History, NEW r \in Request,
           DeployAgain(r) \/ Refresh(r) \/ StartRepair(r) \/ Reread(r)
    PROVE  History' /\ UNCHANGED <<row, stack>>
<1>1. {"create", "check", "verify"} \subseteq Step
  BY DEF Step
<1>2. UNCHANGED <<row, stack>>
  BY DEF DeployAgain, Refresh, StartRepair, Reread
<1>3. Others(r) /\ (call'[r] # None => Lasting(call'[r]))
  <2>1. CASE DeployAgain(r)
    <3>1. call'[r].at = "create" /\ Others(r)
      BY <1>1, <2>1, CallMoves DEF DeployAgain
    <3>2. QED BY <3>1, NothingLearnt
  <2>2. CASE StartRepair(r)
    <3>1. call'[r].at = "verify" /\ Others(r)
      BY <1>1, <2>2, CallMoves DEF StartRepair, Repairable
    <3>2. Installed /\ row.status # "CREATE_COMPLETE"
      BY <2>2 DEF StartRepair, Repairable, FailedStates
    <3>3. QED BY <3>1, <3>2 DEF Lasting
  <2>3. CASE Refresh(r)
    <3>1. Installed
      BY <2>3 DEF Refresh
    <3>2. CASE row.status = "DELETE_REQUESTED"
      <4>1. call'[r].at = "check" /\ call'[r].token = row.token /\ Others(r)
        BY <1>1, <2>3, <3>1, <3>2, CallMoves DEF Refresh
      <4>2. Intended(row.token) /\ Doomed(row.token)
        BY <3>1, <3>2 DEF Intended, History, RowLasts
      <4>3. QED BY <4>1, <4>2 DEF Lasting, Doomed
    <3>3. CASE row.status # "DELETE_REQUESTED" /\ ~row.known
      <4>1. call'[r].at = "create" /\ Others(r)
        BY <1>1, <2>3, <3>1, <3>3, CallMoves DEF Refresh
      <4>2. QED BY <4>1, NothingLearnt
    <3>4. CASE row.status # "DELETE_REQUESTED" /\ row.known
      BY <2>3, <3>1, <3>4, AskForLasts DEF Refresh
    <3>5. QED BY <3>2, <3>3, <3>4
  <2>4. CASE Reread(r)
    <3>1. CASE Installed /\ row.known
      BY <2>4, <3>1, AskForLasts DEF Reread
    <3>2. CASE ~(Installed /\ row.known)
      BY <2>4, <3>2, CallMoves DEF Reread
    <3>3. QED BY <3>1, <3>2
  <2>5. QED BY <2>1, <2>2, <2>3, <2>4
<1>4. QED BY <1>2, <1>3, HistoryOfCall

LEMMA EndingHistory ==
    ASSUME IInv, History, NEW r \in Request,
           Unauthorized(r) \/ CreateRefused(r) \/ Fail(r)
    PROVE  History' /\ UNCHANGED <<row, stack>>
<1>1. UNCHANGED <<row, stack>> /\ Finish(r)
  BY DEF Unauthorized, CreateRefused, Fail
<1>2. QED BY <1>1, CallMoves, HistoryOfCall

\* What ROS answers is so, and a stack on its way to deletion is not found in use.
LEMMA AnswerHistory ==
    ASSUME IInv, History, NEW r \in Request, Query(r) \/ Check(r)
    PROVE  History' /\ UNCHANGED <<row, stack>>
<1>1. /\ call[r] \in Call /\ call[r] # None /\ CallFits(call[r]) /\ Lasting(call[r])
      /\ call[r].at \in {"query", "check"}
  BY DEF Query, Check, At, IInv, TypeOK, CallsFit, History
<1>2. PICK t \in Token : t = call[r].token /\ stack[t] \in StackState
  BY <1>1, CallFields DEF CallFits, WithStack, IInv, TypeOK
<1>3. {"commit", "conclude", "delete"} \subseteq Step
  BY DEF Step
<1>4. UNCHANGED <<row, stack>>
  BY DEF Query, Check
<1>5. Others(r) /\ Lasting(call'[r])
  <2>1. CASE Query(r)
    <3>1. /\ call'[r].at = "commit" /\ call'[r].token = t /\ call'[r].seen = stack[t]
          /\ Others(r)
      BY <1>1, <1>2, <1>3, <2>1, CallMoves DEF Query
    <3>2. QED BY <3>1 DEF Lasting, Doomed
  <2>2. CASE Check(r)
    <3>1. stack[t] \in Deleting \/ (stack[t] = "CREATE_FAILED" /\ Intended(t))
      BY <1>1, <1>2, <2>2 DEF Lasting, Check, At
    <3>2. CASE stack[t] \in {"DELETE_COMPLETE", "DELETE_IN_PROGRESS"}
      <4>1. Learn(r, "conclude", stack[t])
        BY <1>2, <2>2, <3>2 DEF Check, FailedStates
      <4>2. call'[r].at = "conclude" /\ call'[r].token = t /\ Others(r)
        BY <1>1, <1>2, <1>3, <4>1, CallMoves
      <4>3. QED BY <3>2, <4>2 DEF Lasting, Deleting
    <3>3. CASE stack[t] \in FailedStates
      <4>1. Learn(r, "delete", stack[t])
        BY <1>2, <2>2, <3>3 DEF Check, FailedStates
      <4>2. call'[r].at = "delete" /\ call'[r].token = t /\ Others(r)
        BY <1>1, <1>2, <1>3, <4>1, CallMoves
      <4>3. QED BY <3>1, <4>2 DEF Lasting
    <3>4. QED BY <3>1, <3>2, <3>3 DEF Deleting, FailedStates
  <2>3. QED BY <2>1, <2>2
<1>6. QED BY <1>4, <1>5, HistoryOfCall
\* What HistoryKept says of one step.
Keeps ==
    /\ Installed /\ row.status = "CREATE_COMPLETE" => row' = row
    /\ \A t \in Token : stack[t] # None /\ stack[t] \notin Deleting /\ stack'[t] \in Deleting =>
          /\ stack[t] = "CREATE_FAILED"
          /\ Installed /\ row.token = t /\ row.status = "DELETE_REQUESTED"
    /\ Installed /\ row.known /\ (row' = None \/ row'.token # row.token) =>
          row.status = "DELETE_COMPLETE"

LEMMA RowLastsOn ==
    ASSUME IInv, History, Aging, UNCHANGED row
    PROVE  RowLasts'
<1>1. Installed => row.token \in Token
  BY RowFields DEF IInv, TypeOK, Installed
<1>2. \A t \in Token : Doomed(t) => Doomed(t)'
  BY DEF Aging
<1>3. QED BY <1>1, <1>2 DEF History, RowLasts, Aging, Installed, Doomed

\* Request r moves a stack and goes on.
LEMMA HistoryOfStack ==
    ASSUME IInv, History, Aging, UNCHANGED row, NEW r \in Request, Others(r),
           call'[r] # None => Lasting(call[r])'
    PROVE  History'
<1>1. \A q \in Request : At(q, "verify") => Installed' /\ row'.status # "CREATE_COMPLETE"
  BY DEF History, Lasting, At, Installed
<1>2. QED BY <1>1, RowLastsOn, HistoryStep

\* Request r, which is alone in having the row locked, writes it and goes on.
LEMMA HistoryOfRow ==
    ASSUME IInv, History, UNCHANGED stack, NEW r \in Request, Others(r),
           call'[r] # None => Lasting(call[r])', RowLasts',
           \A t \in Token : Intended(t) => Intended(t)' \/ stack[t] \in Deleting,
           \A q \in Request : q # r => ~At(q, "verify")
    PROVE  History'
<1>1. Aging
  BY DEF Aging, Doomed
<1>2. QED BY <1>1, HistoryStep

LEMMA CreateHistory ==
    ASSUME IInv, History, NEW r \in Request, Create(r) \/ CreateUnanswered(r)
    PROVE  History' /\ Keeps
<1>1. /\ call[r] \in Call /\ call[r] # None /\ UNCHANGED row
      /\ CreateStack(call[r].token)
  BY DEF Create, CreateUnanswered, At, IInv, TypeOK
<1>2. PICK t \in Token : t = call[r].token
  BY <1>1, CallFields
<1>3. \A u \in Token : stack'[u] = IF u = t /\ stack[u] = None THEN "CREATE_IN_PROGRESS"
                                   ELSE stack[u]
  BY <1>1, <1>2 DEF CreateStack, IInv, TypeOK
<1>4. /\ None \notin Deleting \union {"CREATE_COMPLETE", "CREATE_FAILED"}
      /\ "CREATE_IN_PROGRESS" \notin Deleting
  BY InstallationAssumption DEF StackState, Deleting
<1>5. Aging
  BY <1>1, <1>3, <1>4 DEF Aging, Doomed, Intended, Installed
<1>6. Others(r) /\ (call'[r] # None => call'[r].at = "record")
  <2>1. CASE Create(r)
    <3>1. "record" \in Step
      BY DEF Step
    <3>2. QED BY <1>1, <2>1, <3>1, CallMoves DEF Create
  <2>2. CASE CreateUnanswered(r)
    BY <2>2, CallMoves DEF CreateUnanswered
  <2>3. QED BY <2>1, <2>2
<1>7. call'[r] # None => Lasting(call[r])'
  BY <1>6 DEF Lasting
<1>8. Keeps
  BY <1>1, <1>3, <1>4 DEF Keeps, Installed
<1>9. QED BY <1>1, <1>5, <1>6, <1>7, <1>8, HistoryOfStack

LEMMA DeleteHistory ==
    ASSUME IInv, History, NEW r \in Request, Delete(r) \/ DeleteUnanswered(r)
    PROVE  History' /\ Keeps
<1>1. /\ call[r] \in Call /\ call[r] # None /\ UNCHANGED row
      /\ call[r].at = "delete" /\ Lasting(call[r]) /\ DeleteStack(call[r].token)
  BY DEF Delete, DeleteUnanswered, At, IInv, TypeOK, History
<1>2. PICK t \in Token : t = call[r].token
  BY <1>1, CallFields
<1>3. \A u \in Token : IF u = t THEN stack'[u] \in Deleting ELSE stack'[u] = stack[u]
  BY <1>1, <1>2 DEF DeleteStack, IInv, TypeOK, Deleting
<1>4. stack[t] \in Deleting \/ (stack[t] = "CREATE_FAILED" /\ Intended(t))
  BY <1>1, <1>2 DEF Lasting
<1>5. "CREATE_COMPLETE" \notin Deleting \union {"CREATE_FAILED"}
  BY DEF Deleting
<1>6. Aging
  BY <1>1, <1>3, <1>4, <1>5 DEF Aging, Doomed, Intended, Installed
<1>7. Others(r) /\ (call'[r] # None => call'[r].at = "conclude" /\ call'[r].token = t)
  <2>1. CASE Delete(r)
    <3>1. "conclude" \in Step /\ "DELETE_IN_PROGRESS" \in StackState \union {None}
      BY DEF Step, StackState, Deleting
    <3>2. QED BY <1>1, <1>2, <2>1, <3>1, CallMoves DEF Delete
  <2>2. CASE DeleteUnanswered(r)
    BY <2>2, CallMoves DEF DeleteUnanswered
  <2>3. QED BY <2>1, <2>2
<1>8. call'[r] # None => Lasting(call[r])'
  BY <1>3, <1>7 DEF Lasting
<1>9. Keeps
  BY <1>1, <1>3, <1>4 DEF Keeps, Intended, Installed
<1>10. QED BY <1>1, <1>6, <1>7, <1>8, <1>9, HistoryOfStack

LEMMA MovesHistory ==
    ASSUME IInv, History, NEW t \in Token, StackMoves(t)
    PROVE  History' /\ Keeps
<1>1. UNCHANGED <<row, call>>
  BY DEF StackMoves
<1>2. \A u \in Token : u # t => stack'[u] = stack[u]
  BY DEF StackMoves, IInv, TypeOK
<1>3. \/ stack[t] = "CREATE_IN_PROGRESS" /\ stack'[t] \in {"CREATE_COMPLETE", "CREATE_FAILED"}
      \/ stack[t] = "DELETE_IN_PROGRESS" /\ stack'[t] \in {"DELETE_COMPLETE", "DELETE_FAILED"}
  BY DEF StackMoves, IInv, TypeOK
<1>4. Aging
  <2>1. \A u \in Token : Intended(u) => Intended(u)'
    BY <1>1 DEF Intended, Installed
  <2>2. QED BY <1>2, <1>3, <2>1 DEF Aging, Doomed, Deleting
<1>5. ASSUME NEW q \in Request, call'[q] # None PROVE Lasting(call[q])'
  <2>1. PICK c \in Call : c = call[q] /\ Lasting(c) /\ call'[q] = c
    BY <1>1, <1>5 DEF History, IInv, TypeOK
  <2>2. c.at = "verify" => Installed' /\ row'.status # "CREATE_COMPLETE"
    BY <1>1, <2>1 DEF Lasting, Installed
  <2>3. Lasting(c)'
    BY <1>4, <2>1, <2>2, LastingOn
  <2>4. QED BY <2>1, <2>3
<1>6. Keeps
  BY <1>1, <1>2, <1>3 DEF Keeps, Installed, Deleting
<1>7. QED BY <1>1, <1>4, <1>5, <1>6, RowLastsOn DEF History
LEMMA DeployHistory ==
    ASSUME IInv, History, NEW r \in Request, NEW u \in BOOLEAN, Deploy(r, u)
    PROVE  History' /\ Keeps
<1> DEFINE x == [token |-> issued + 1, known |-> FALSE, usable |-> u, status |-> "SUBMITTING"]
           c == [at |-> "create", polls |-> FALSE, token |-> issued + 1,
                 usable |-> u, seen |-> None]
<1>1. /\ ~Installed /\ row' = x /\ UNCHANGED stack /\ call' = [call EXCEPT ![r] = c]
  BY DEF Deploy
<1>2. call'[r] = c /\ Others(r)
  BY <1>1 DEF IInv, TypeOK, Others
<1>3. call'[r] # None => Lasting(call[r])'
  BY <1>2 DEF Lasting
<1>4. RowLasts'
  BY <1>1 DEF RowLasts, Deleting
<1>5. \A q \in Request : ~At(q, "verify")
  BY <1>1 DEF At, IInv, CallsFit, CallFits
<1>6. Keeps
  BY <1>1 DEF Keeps
<1>7. \A t \in Token : ~Intended(t)
  BY <1>1 DEF Intended
<1>8. QED BY <1>1, <1>2, <1>3, <1>4, <1>5, <1>6, <1>7, HistoryOfRow

LEMMA RecordHistory ==
    ASSUME IInv, History, NEW r \in Request, Record(r)
    PROVE  History' /\ Keeps
<1>1. call[r] # None /\ UNCHANGED stack /\ Unlocked
  BY DEF Record, At
<1>2. Others(r) /\ (call'[r] # None => call'[r].at = "reread")
  <2>1. "reread" \in Step
    BY DEF Step
  <2>2. QED BY <1>1, <2>1, CallMoves DEF Record
<1>3. CASE SameInstall(r) /\ ~row.known /\ row.status = "SUBMITTING"
  <2> DEFINE x == [row EXCEPT !.known = TRUE, !.status = "CREATE_IN_PROGRESS"]
  <2>1. Installed /\ row \in Row /\ "CREATE_IN_PROGRESS" \in Status
    BY <1>3 DEF SameInstall, Installed, IInv, TypeOK, Status, StackState
  <2>2. row' = x /\ x.status = "CREATE_IN_PROGRESS" /\ x \in Row
    BY <1>3, <2>1, RowUpdate DEF Record
  <2>3. RowLasts'
    BY <2>2 DEF RowLasts, Deleting
  <2>4. call'[r] # None => Lasting(call[r])'
    BY <1>2 DEF Lasting
  <2>5. \A t \in Token : ~Intended(t)
    BY <1>3 DEF Intended
  <2>6. Keeps
    BY <1>1, <1>3, <2>1 DEF Keeps
  <2>7. QED BY <1>1, <1>2, <2>3, <2>4, <2>5, <2>6, HistoryOfRow DEF Unlocked
<1>4. CASE ~(SameInstall(r) /\ ~row.known /\ row.status = "SUBMITTING")
  <2>1. UNCHANGED <<row, stack>>
    BY <1>1, <1>4 DEF Record
  <2>2. call'[r] # None => Lasting(call'[r])
    BY <1>2, NothingLearnt
  <2>3. Keeps
    BY <2>1 DEF Keeps, Installed
  <2>4. QED BY <1>2, <2>1, <2>2, <2>3, HistoryOfCall
<1>5. QED BY <1>3, <1>4

\* The answer is written only if it cannot undo what the row says.
LEMMA CommitHistory ==
    ASSUME IInv, History, NEW r \in Request, Commit(r)
    PROVE  History' /\ Keeps
<1>1. /\ call[r] \in Call /\ call[r] # None /\ call[r].at = "commit"
      /\ Lasting(call[r]) /\ call[r].seen \in StackState
  BY CallFields DEF Commit, At, IInv, TypeOK, CallsFit, CallFits, Answered, History
<1>2. UNCHANGED stack /\ Unlocked /\ call'[r] = None /\ Others(r)
  BY CallMoves DEF Commit
<1> DEFINE state == IF row.status = "CREATE_COMPLETE" THEN "CREATE_COMPLETE" ELSE call[r].seen
<1>3. CASE /\ SameInstall(r) /\ row' = [row EXCEPT !.status = state]
           /\ row.status \in Deleting \union {"DELETE_REQUESTED"} => call[r].seen \in Deleting
  <2>1. Installed /\ row \in Row /\ row.token = call[r].token /\ row.token \in Token
    BY <1>1, <1>3, CallFields DEF SameInstall, Installed, IInv, TypeOK
  <2>2. state \in StackState
    BY <1>1 DEF StackState
  <2>3. /\ row' \in Row /\ row'.status = state /\ row'.token = row.token
        /\ row'.known = row.known
    <3>1. PICK s \in Status : s = state
      BY <2>2 DEF Status
    <3>2. row' = [row EXCEPT !.status = s]
      BY <1>3, <3>1
    <3>3. /\ row' \in Row /\ row'.status = s /\ row'.token = row.token
          /\ row'.known = row.known
      BY <2>1, <3>2, RowUpdate
    <3>4. QED BY <3>1, <3>3
  <2>4. row.status = "CREATE_COMPLETE" => row' = row
    BY <1>3, <2>1 DEF Row
  <2>5. row.status = "DELETE_REQUESTED" => stack[row.token] \in Deleting
    BY <1>1, <1>3, <2>1 DEF Lasting
  <2>6. /\ state \in Deleting \union {"CREATE_FAILED"} => Doomed(row.token)
        /\ state = "CREATE_COMPLETE" => stack[row.token] = "CREATE_COMPLETE"
    <3>1. CASE row.status = "CREATE_COMPLETE"
      BY <2>1, <3>1 DEF History, RowLasts, Deleting
    <3>2. CASE row.status # "CREATE_COMPLETE"
      BY <1>1, <2>1, <3>2 DEF Lasting, Doomed
    <3>3. QED BY <3>1, <3>2
  <2>7. "DELETE_REQUESTED" \notin StackState
    BY DEF StackState, Deleting
  <2>8. RowLasts'
    BY <1>2, <2>2, <2>3, <2>6, <2>7 DEF RowLasts, Doomed
  <2>9. \A t \in Token : Intended(t) => stack[t] \in Deleting
    BY <2>5 DEF Intended
  <2>10. Keeps
    BY <1>2, <2>1, <2>3, <2>4, RowFields DEF Keeps
  <2>11. QED BY <1>2, <2>8, <2>9, <2>10, HistoryOfRow DEF Unlocked
<1>4. CASE UNCHANGED row
  <2>1. Keeps
    BY <1>2, <1>4 DEF Keeps, Installed
  <2>2. QED BY <1>2, <1>4, <2>1, HistoryOfCall
<1>5. QED BY <1>3, <1>4 DEF Commit

LEMMA CleanupHistory ==
    ASSUME IInv, History, NEW r \in Request, Cleanup(r)
    PROVE  History' /\ Keeps
<1>1. /\ Installed /\ row \in Row /\ UNCHANGED stack /\ Unlocked
      /\ row.status \in Deleting \union {"CREATE_FAILED", "DELETE_REQUESTED"}
      /\ row' = [row EXCEPT !.status = "DELETE_REQUESTED"]
      /\ call' = [call EXCEPT ![r] = Copy("check", FALSE, None)]
  BY DEF Cleanup, Installed, IInv, TypeOK, FailedStates, Deleting
<1>2. /\ row' \in Row /\ row'.status = "DELETE_REQUESTED" /\ row'.token = row.token
      /\ row'.known = row.known /\ Installed'
  <2>1. "DELETE_REQUESTED" \in Status
    BY DEF Status
  <2>2. QED BY <1>1, <2>1, RowUpdate, RowFields DEF Installed
<1>3. call'[r].at = "check" /\ call'[r].token = row.token /\ Others(r)
  <2>1. "check" \in Step
    BY DEF Step
  <2>2. QED BY <1>1, <2>1, CallMoves
<1>4. Doomed(row.token)
  BY <1>1 DEF History, RowLasts
<1>5. Intended(row.token)'
  BY <1>2 DEF Intended
<1>6. call'[r] # None => Lasting(call[r])'
  <2>1. stack'[row'.token] \in Deleting \union {"CREATE_FAILED"}
    BY <1>1, <1>2, <1>4 DEF Doomed
  <2>2. call'[r].at = "check" /\ call'[r].token = row'.token
    BY <1>2, <1>3
  <2>3. QED BY <1>2, <2>1, <2>2 DEF Lasting, Intended
<1>7. RowLasts'
  BY <1>1, <1>2, <1>4 DEF RowLasts, Doomed, Deleting
<1>8. \A t \in Token : Intended(t) => Intended(t)'
  BY <1>2 DEF Intended
<1>9. Keeps
  BY <1>1, <1>2, RowFields DEF Keeps, Deleting
<1>10. QED BY <1>1, <1>3, <1>6, <1>7, <1>8, <1>9, HistoryOfRow DEF Unlocked

LEMMA ConcludeHistory ==
    ASSUME IInv, History, NEW r \in Request, Conclude(r)
    PROVE  History' /\ Keeps
<1>1. /\ call[r] \in Call /\ call[r].at = "conclude" /\ CallFits(call[r])
      /\ Lasting(call[r]) /\ call[r].seen \in StackState
  BY CallFields DEF Conclude, At, IInv, TypeOK, CallsFit, CallFits, Answered, History
<1>2. UNCHANGED stack /\ Unlocked /\ call'[r] = None /\ Others(r)
  BY CallMoves DEF Conclude
<1>3. stack[call[r].token] \in Deleting /\ call[r].seen # "CREATE_COMPLETE"
  BY <1>1 DEF Lasting, CallFits
<1>4. CASE SameInstall(r)
  <2>1. Installed /\ row \in Row /\ row.token = call[r].token /\ row.token \in Token
    BY <1>1, <1>4, CallFields DEF SameInstall, Installed, IInv, TypeOK
  <2>2. /\ row' \in Row /\ row'.status = call[r].seen /\ row'.token = row.token
        /\ row'.known = row.known
    BY <1>1, <1>4, <2>1, RowUpdate DEF Conclude, Status
  <2>3. row.status # "CREATE_COMPLETE"
    BY <1>3, <2>1 DEF History, RowLasts, Deleting
  <2>4. RowLasts'
    BY <1>2, <1>3, <2>1, <2>2 DEF RowLasts, Doomed
  <2>5. \A t \in Token : Intended(t) => stack[t] \in Deleting
    BY <1>3, <2>1 DEF Intended
  <2>6. Keeps
    BY <1>2, <2>1, <2>2, <2>3, RowFields DEF Keeps
  <2>7. QED BY <1>2, <2>4, <2>5, <2>6, HistoryOfRow DEF Unlocked
<1>5. CASE ~SameInstall(r)
  <2>1. UNCHANGED row
    BY <1>5 DEF Conclude
  <2>2. Keeps
    BY <1>2, <2>1 DEF Keeps, Installed
  <2>3. QED BY <1>2, <2>1, <2>2, HistoryOfCall
<1>6. QED BY <1>4, <1>5

LEMMA ResetHistory ==
    ASSUME IInv, History, NEW r \in Request, Reset(r)
    PROVE  History' /\ Keeps
<1>1. /\ row.status = "DELETE_COMPLETE" /\ row' = None /\ Unlocked
      /\ UNCHANGED <<stack, call>> /\ call[r] = None
  BY DEF Reset
<1>2. RowLasts'
  BY <1>1 DEF RowLasts, Installed
<1>3. \A t \in Token : ~Intended(t)
  BY <1>1 DEF Intended
<1>4. Keeps
  BY <1>1 DEF Keeps
<1>5. Others(r)
  BY <1>1 DEF Others
<1>6. QED BY <1>1, <1>2, <1>3, <1>4, <1>5, HistoryOfRow DEF Unlocked

\* New credentials for an installation that is not complete.
LEMMA CredentialsHistory ==
    ASSUME IInv, History, NEW r \in Request, Verify(r) \/ (\E u \in BOOLEAN : Repair(r, u))
    PROVE  History' /\ Keeps
<1>1. /\ Installed /\ row \in Row /\ row.status # "CREATE_COMPLETE"
      /\ UNCHANGED stack /\ Others(r) /\ call'[r] = None
  <2>1. CASE Verify(r)
    BY <2>1, CallMoves DEF Verify, At, IInv, TypeOK, Installed, History, Lasting
  <2>2. CASE \E u \in BOOLEAN : Repair(r, u)
    BY <2>2 DEF Repair, Repairable, FailedStates, IInv, TypeOK, Installed, Others
  <2>3. QED BY <2>1, <2>2
<1>2. PICK u \in BOOLEAN : row' = [row EXCEPT !.usable = u]
  BY DEF Verify, Repair
<1>3. /\ row' \in Row /\ row'.status = row.status /\ row'.token = row.token
      /\ row'.known = row.known /\ Installed'
  <2> DEFINE x == [row EXCEPT !.usable = u]
  <2>1. /\ x \in Row /\ x.status = row.status /\ x.token = row.token
        /\ x.known = row.known
    BY <1>1, RowUpdate
  <2>2. row' = x
    BY <1>2
  <2>3. QED BY <2>1, <2>2, RowFields DEF Installed
<1>4. Aging
  BY <1>1, <1>3 DEF Aging, Doomed, Intended, Installed
<1>5. RowLasts'
  BY <1>1, <1>3 DEF History, RowLasts, Doomed
<1>6. Keeps
  BY <1>1, <1>3, RowFields DEF Keeps
<1>7. QED BY <1>1, <1>3, <1>4, <1>5, <1>6, HistoryStep
LEMMA HistoryInit == Init => History
BY InstallationAssumption DEF Init, History, RowLasts, Installed

\* No record is discarded and no stack is continued in the console.
Undisturbed == "discard" \notin Offered /\ MaxConsole = 0

LEMMA HistoryNext ==
    ASSUME Undisturbed, IInv, History, [Next]_vars
    PROVE  History' /\ (Keeps \/ UNCHANGED vars)
<1>1. ASSUME UNCHANGED <<row, stack>> PROVE Keeps
  BY <1>1 DEF Keeps, Installed
<1>2. ASSUME NEW r \in Request
      PROVE  ~Discard(r) /\ \A s \in {"replay", "recover", "drop"} : ~At(r, s)
  BY DEF Discard, Edited, Undisturbed, At, History, Lasting
<1>3. ASSUME NEW r \in Request, RequestStarts(r) PROVE History' /\ Keeps
  <2>1. CASE \E u \in BOOLEAN : Deploy(r, u)
    BY <2>1, DeployHistory
  <2>2. CASE DeployAgain(r) \/ Refresh(r) \/ StartRepair(r)
    BY <1>1, <2>2, ReadingHistory
  <2>3. CASE Cleanup(r)
    BY <2>3, CleanupHistory
  <2>4. CASE Reset(r)
    BY <2>4, ResetHistory
  <2>5. CASE \E u \in BOOLEAN : Repair(r, u)
    BY <2>5, CredentialsHistory
  <2>6. QED BY <1>2, <1>3, <2>1, <2>2, <2>3, <2>4, <2>5 DEF RequestStarts
<1>4. ASSUME NEW r \in Request, RequestGoesOn(r) PROVE History' /\ Keeps
  <2>1. CASE Create(r)
    BY <2>1, CreateHistory
  <2>2. CASE Record(r)
    BY <2>2, RecordHistory
  <2>3. CASE Reread(r)
    BY <1>1, <2>3, ReadingHistory
  <2>4. CASE Query(r) \/ Check(r)
    BY <1>1, <2>4, AnswerHistory
  <2>5. CASE Commit(r)
    BY <2>5, CommitHistory
  <2>6. CASE Delete(r)
    BY <2>6, DeleteHistory
  <2>7. CASE Conclude(r)
    BY <2>7, ConcludeHistory
  <2>8. CASE Verify(r)
    BY <2>8, CredentialsHistory
  <2>9. CASE Unauthorized(r) \/ CreateRefused(r)
    BY <1>1, <2>9, EndingHistory
  <2>10. ~(Replay(r) \/ ReplayRefused(r) \/ Recover(r) \/ Drop(r))
    BY <1>2 DEF Replay, ReplayRefused, Recover, Drop
  <2>11. QED
    BY <1>4, <2>1, <2>2, <2>3, <2>4, <2>5, <2>6, <2>7, <2>8, <2>9, <2>10 DEF RequestGoesOn
<1>5. ASSUME NEW r \in Request, RequestFails(r) PROVE History' /\ Keeps
  <2>1. CASE CreateUnanswered(r)
    BY <2>1, CreateHistory
  <2>2. CASE DeleteUnanswered(r)
    BY <2>2, DeleteHistory
  <2>3. CASE Fail(r)
    BY <1>1, <2>3, EndingHistory
  <2>4. ~(ReplayFails(r) \/ ReplayUnanswered(r))
    BY <1>2 DEF ReplayFails, ReplayUnanswered
  <2>5. QED BY <1>5, <2>1, <2>2, <2>3, <2>4 DEF RequestFails
<1>6. ASSUME NEW t \in Token, StackMoves(t) \/ ConsoleContinues(t) PROVE History' /\ Keeps
  <2>1. ~ConsoleContinues(t)
    BY DEF ConsoleContinues, Undisturbed, IInv, TypeOK
  <2>2. QED BY <1>6, <2>1, MovesHistory
<1>7. CASE UNCHANGED vars
  <2>1. History'
    BY <1>7 DEF vars, History, RowLasts, Lasting, Doomed, Intended, Installed
  <2>2. QED BY <1>7, <2>1
<1>8. QED BY <1>3, <1>4, <1>5, <1>6, <1>7 DEF Next

\* A completed installation stays so, only failed stacks that are intended to be
\* deleted are, and a record with a stack id stays until its stack is gone: for any
\* number of requests, installations, lost answers and crashes, as long as nobody
\* discards a record or continues a failed stack in the ROS console.
THEOREM InstallationHistoryKept == ASSUME Undisturbed PROVE Spec => HistoryKept
<1> DEFINE Sticks == Installed /\ row.status = "CREATE_COMPLETE" => row' = row
           Failed ==
             \A t \in Token : stack[t] # None /\ stack[t] \notin Deleting /\ stack'[t] \in Deleting =>
                /\ stack[t] = "CREATE_FAILED"
                /\ Installed /\ row.token = t /\ row.status = "DELETE_REQUESTED"
           Kept ==
             Installed /\ row.known /\ (row' = None \/ row'.token # row.token) =>
                row.status = "DELETE_COMPLETE"
<1>1. Init => IInvHistory
  BY InitFits, HistoryInit DEF IInvHistory
<1>2. IInvHistory /\ [Next]_vars => IInvHistory'
  BY NextFits, HistoryNext DEF IInvHistory
<1>3. IInvHistory /\ [Next]_vars => [Sticks]_vars /\ [Failed]_vars /\ [Kept]_vars
  <2>1. Keeps => Sticks /\ Failed /\ Kept
    BY DEF Keeps
  <2>2. QED BY <2>1, HistoryNext DEF IInvHistory
<1>4. QED
  BY <1>1, <1>2, <1>3, PTL
     DEF Spec, HistoryKept, CompletionSticks, DeletesWhatFailed, KnownStackKept

=============================================================================
