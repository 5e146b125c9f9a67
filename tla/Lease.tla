------------------------------- MODULE Lease -------------------------------
(***************************************************************************)
(* A lock by lease, as those who use it see it.  Who asks is let in while  *)
(* nobody holds the lease, is refused, or goes in alone because there is   *)
(* nobody to ask; a lease may run out before its holder leaves.  Nothing   *)
(* else changes how anybody stands, in particular nobody is put out by     *)
(* another.  There are no keys, replies or retries here: DistributedLock   *)
(* shows that with them the lock is such a lease.                          *)
(***************************************************************************)
CONSTANT Procs

VARIABLE mode  \* mode[p]: "out", "asking", "holding", "overdue" or "alone"

Init == mode = [p \in Procs |-> "out"]

Turn(p, from, to) == mode[p] = from /\ mode' = [mode EXCEPT ![p] = to]

Ask(p) == Turn(p, "out", "asking")
Refuse(p) == Turn(p, "asking", "out")
Grant(p) == Turn(p, "asking", "holding") /\ \A q \in Procs : mode[q] # "holding"
EnterAlone(p) == Turn(p, "asking", "alone")
RunOut(p) == Turn(p, "holding", "overdue")

\* By its own release or crash.
Leave(p) == mode' = [mode EXCEPT ![p] = "out"]

Next == \E p \in Procs : \/ Ask(p) \/ Refuse(p) \/ Grant(p) \/ EnterAlone(p)
                         \/ RunOut(p) \/ Leave(p)

Spec == Init /\ [][Next]_mode

=============================================================================
