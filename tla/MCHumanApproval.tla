-------------------------- MODULE MCHumanApproval --------------------------
(***************************************************************************)
(* Instances of HumanApproval for TLC.                                     *)
(***************************************************************************)
EXTENDS HumanApproval

CONSTANTS r1, r2, d1, d2

\* Both requests under one id, or each under its own.
SameOrNot == {[r \in Requests |-> d1], [r \in Requests |-> IF r = r1 THEN d1 ELSE d2]}

============================================================================
