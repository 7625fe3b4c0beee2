---------------------------- MODULE BrowserLease ----------------------------
(***************************************************************************)
(* What the browser manager promises about a deployment as a whole: which  *)
(* business sessions hold one of the scarce browsers.  BrowserPool is shown *)
(* to implement it, with the limit its unlocked capacity check really      *)
(* keeps.                                                                   *)
(***************************************************************************)
EXTENDS Naturals, FiniteSets

CONSTANTS Session,  \* business session ids
          Limit     \* how many sessions may hold a browser at a time

VARIABLE leased     \* the sessions that hold one

\* Sessions may hold browsers when a server takes over the table.
LeaseInit == leased \in SUBSET Session /\ Cardinality(leased) <= Limit

\* One session is given a browser, if the limit leaves room for it.
Grant(s) ==
    /\ s \notin leased
    /\ Cardinality(leased) < Limit
    /\ leased' = leased \union {s}

\* One session gives up its browser or has it taken away.
Withdraw(s) ==
    /\ s \in leased
    /\ leased' = leased \ {s}

LeaseNext == \E s \in Session : Grant(s) \/ Withdraw(s)

LeaseSpec == LeaseInit /\ [][LeaseNext]_leased
=============================================================================
