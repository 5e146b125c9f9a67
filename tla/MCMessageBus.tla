---------------------------- MODULE MCMessageBus ----------------------------
(***************************************************************************)
(* Instances of MessageBus for TLC.                                        *)
(***************************************************************************)
EXTENDS MessageBus, TLC

CONSTANTS s1, k1

\* A message of high priority with a key, and one of low priority without.
BothKinds == {[shard |-> s1, prio |-> 5, key |-> k1], [shard |-> s1, prio |-> 0, key |-> NoKey]}

\* The calls are interchangeable: none occurs in the specification by name.
Symmetry == Permutations(Pubs)

=============================================================================
