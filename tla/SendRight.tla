------------------------------ MODULE SendRight ------------------------------
(***************************************************************************)
(* What executions promise their users: of every plan, a task and a minute *)
(* it is due, the right to send is given at most once, for what the user   *)
(* wants at that moment, and is used up by sending.  Execution is shown to *)
(* implement it.                                                           *)
(***************************************************************************)
EXTENDS Naturals

CONSTANTS Task, Slot, Content, None

VARIABLES
    wanted,   \* what each task is to send as things stand, None while it is not to
    inHand,   \* rights to send that somebody holds
    spent,    \* plans that no right will be given for any more
    sent,     \* how often a plan's message was sent
    posted    \* what was sent for it last

promise == <<wanted, inHand, spent, sent, posted>>

Plan == Task \X Slot

RightInit ==
    /\ wanted \in [Task -> Content \union {None}]
    /\ inHand = {} /\ spent \in SUBSET Plan
    /\ sent = [k \in Plan |-> 0] /\ posted = [k \in Plan |-> None]

\* Users decide anew, and plans pass without a right.
Decide ==
    /\ UNCHANGED <<inHand, sent, posted>>
    /\ spent \subseteq spent' /\ spent' \subseteq Plan
    /\ wanted' \in [Task -> Content \union {None}]

Give(k) ==
    /\ k \notin spent /\ wanted[k[1]] # None
    /\ inHand' = inHand \union {[plan |-> k, content |-> wanted[k[1]]]}
    /\ spent' = spent \union {k}
    /\ UNCHANGED <<wanted, sent, posted>>

Use(r) ==
    /\ inHand' = inHand \ {r}
    /\ sent' = [sent EXCEPT ![r.plan] = @ + 1]
    /\ posted' = [posted EXCEPT ![r.plan] = r.content]
    /\ UNCHANGED <<wanted, spent>>

GiveBack(r) ==
    /\ inHand' = inHand \ {r}
    /\ UNCHANGED <<wanted, spent, sent, posted>>

RightNext ==
    \/ Decide
    \/ \E k \in Plan : Give(k)
    \/ \E r \in inHand : Use(r) \/ GiveBack(r)

RightSpec == RightInit /\ [][RightNext]_promise
=============================================================================
