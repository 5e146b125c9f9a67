------------------------- MODULE MCDistributedLock -------------------------
(***************************************************************************)
(* Instances of DistributedLock for TLC.                                   *)
(***************************************************************************)
EXTENDS DistributedLock, TLC

Symmetry == Permutations(Procs \ NoRedis)

============================================================================
