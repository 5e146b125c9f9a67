---------------------------- MODULE MCTaskRunner ----------------------------
(***************************************************************************)
(* Instances of TaskRunner for TLC.                                        *)
(***************************************************************************)
EXTENDS TaskRunner, TLC

CONSTANTS t1, t2, t3

\* Two tasks of the same priority and a more urgent one.
Priorities == (t1 :> 1) @@ (t2 :> 1) @@ (t3 :> 0)

=============================================================================
