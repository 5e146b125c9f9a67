--------------------------- MODULE MCJobRecovery ---------------------------
(***************************************************************************)
(* Instances of JobRecovery for TLC.                                       *)
(***************************************************************************)
EXTENDS JobRecovery, TLC

Symmetry == Permutations(Workers) \cup Permutations(Jobs)

============================================================================
