----------------------------- MODULE MCExecution -----------------------------
(* Execution for model checking: a day of two or three instants, so that the   *)
(* next day's run of the same task, with the same message, may fall within the *)
(* horizon.                                                                    *)
EXTENDS Execution, TLC

CONSTANTS t1, MCLegacySlots
MCLegacy == {<<t1, s>> : s \in MCLegacySlots}
Symmetry == Permutations(Executor) \union Permutations(Text)
=============================================================================
