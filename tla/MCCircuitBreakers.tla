-------------------------- MODULE MCCircuitBreakers --------------------------
(***************************************************************************)
(* Instances of CircuitBreakers for TLC.                                   *)
(***************************************************************************)
EXTENDS CircuitBreakers

=============================================================================
