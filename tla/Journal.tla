------------------------------ MODULE Journal -------------------------------
(***************************************************************************)
(* What an audit log promises those who log to it.  Events are numbered in *)
(* the order they are logged, each is chained to the one before it except  *)
(* the first after a restart, and they are put down in that order.  What   *)
(* is logged and not yet put down may be lost, by a failure, by a restart  *)
(* or by a caller that goes away, and is never put down later.  A critical *)
(* event is confirmed when nothing up to it is under way any more.  There  *)
(* are no batches, threads, locks or files here: AuditChain shows that     *)
(* with them the log is such a journal.                                    *)
(***************************************************************************)
EXTENDS Naturals, Sequences

VARIABLES logged,     \* the number of events
          kept, lost, \* those that are put down, those that never will be
          lines,      \* what is put down: events, and 0 for a note of a failure
          apart,      \* events not chained to the one before them
          whole,      \* the next one will be chained to the last one
          confirmed,  \* critical events whose caller knows
          failures, restarts,
          deserted    \* a caller went away from what it was putting down

vars == <<logged, kept, lost, lines, apart, whole, confirmed, failures, restarts, deserted>>

Pending == (1 .. logged) \ (kept \cup lost)

\* A desertion leaves things under way that others do not wait for.
NoneBefore(i) == deserted \/ \A j \in Pending : i <= j

\* What one failure takes: the next event to put down, or all that wait for it.
Fails(S, more) ==
    /\ S \subseteq Pending
    /\ deserted \/ S = Pending \/ \E i \in S : S = {i} /\ NoneBefore(i)
    /\ lost' = lost \cup S \cup more
    /\ lines' \in {lines, Append(lines, 0)}
    /\ failures' = failures + 1

Init == /\ logged = 0 /\ kept = {} /\ lost = {} /\ lines = <<>>
        /\ apart = {} /\ whole = TRUE /\ confirmed = {}
        /\ failures = 0 /\ restarts = 0 /\ deserted = FALSE

Number == /\ logged' = logged + 1
          /\ apart' = IF whole THEN apart ELSE apart \cup {logged + 1}
          /\ whole' = TRUE

Log ==
    /\ Number
    /\ UNCHANGED <<kept, lost, lines, confirmed, failures, restarts, deserted>>

LogAndPutDown ==
    /\ Number /\ (deserted \/ Pending = {})
    /\ kept' = kept \cup {logged + 1} /\ lines' = Append(lines, logged + 1)
    /\ UNCHANGED <<lost, confirmed, failures, restarts, deserted>>

LogInVain(S) ==
    /\ Number /\ Fails(S, {logged + 1})
    /\ UNCHANGED <<kept, confirmed, restarts, deserted>>

PutDown(i) ==
    /\ i \in Pending /\ NoneBefore(i)
    /\ kept' = kept \cup {i} /\ lines' = Append(lines, i)
    /\ UNCHANGED <<logged, lost, apart, whole, confirmed, failures, restarts, deserted>>

Fail(S) ==
    /\ Fails(S, {})
    /\ UNCHANGED <<logged, kept, apart, whole, confirmed, restarts, deserted>>

Confirm(i) ==
    /\ i \in 1 .. logged /\ (deserted \/ Pending \cap (1 .. i) = {})
    /\ confirmed' = confirmed \cup {i}
    /\ UNCHANGED <<logged, kept, lost, lines, apart, whole, failures, restarts, deserted>>

Desert(S) ==
    /\ deserted' = TRUE
    /\ S \subseteq Pending /\ lost' = lost \cup S
    /\ UNCHANGED <<logged, kept, lines, apart, whole, confirmed, failures, restarts>>

Restart ==
    /\ restarts' = restarts + 1
    /\ lost' = lost \cup Pending
    /\ whole' = (logged = 0)
    /\ UNCHANGED <<logged, kept, lines, apart, confirmed, failures, deserted>>

Next == \/ Log \/ LogAndPutDown \/ Restart
        \/ \E S \in SUBSET Pending : LogInVain(S) \/ Fail(S) \/ Desert(S)
        \/ \E i \in 1 .. logged : PutDown(i) \/ Confirm(i)

Spec == Init /\ [][Next]_vars

=============================================================================
