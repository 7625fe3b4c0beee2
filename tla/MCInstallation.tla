--------------------------- MODULE MCInstallation ---------------------------
(* Small instances of Installation. *)
EXTENDS Installation, TLC

Symmetry == Permutations(Request)
=============================================================================
