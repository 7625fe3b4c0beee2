--------------------------- MODULE MCTaskAdmission ---------------------------
(* Small instances of TaskAdmission: a short day that wraps. *)
EXTENDS TaskAdmission, TLC

Symmetry == Permutations(User) \union Permutations(Visit)
=============================================================================
