----------------------------- MODULE MCConsole -----------------------------
(* Model values for checking Console with TLC.  The symmetry is for runs of *)
(* the web console: no property of theirs is a liveness one and the model   *)
(* compares these values only for equality.                                 *)
EXTENDS Console, TLC

Symmetry ==
    Permutations(Name) \union Permutations(Address) \union Permutations(Pending)
        \union Permutations(Request) \union Permutations(Client)
=============================================================================
