------------------------------- MODULE Breaker -------------------------------
(***************************************************************************)
(* What a circuit breaker promises those who call through it: it opens     *)
(* when a streak of failures is full and not before, an open one lets      *)
(* nothing through until its timeout is over, a full streak starts the     *)
(* timeout anew, and only a success closes it.  CircuitBreakers shows that *)
(* the seven implementations keep this, with calls that overlap.           *)
(***************************************************************************)
EXTENDS Naturals

CONSTANTS Callers, Threshold

VARIABLES out,     \* the callers with a call under way
          streak,  \* consecutive failures reported
          open,    \* not closed: a trial call may be out
          cooled   \* the timeout is over

vars == <<out, streak, open, cooled>>

Init == out = {} /\ streak = 0 /\ open = FALSE /\ cooled = FALSE

\* A trial may begin a new streak.
Admit(c) ==
    /\ c \notin out /\ (open => cooled)
    /\ out' = out \cup {c}
    /\ streak' \in IF open THEN {0, streak} ELSE {streak}
    /\ UNCHANGED <<open, cooled>>

\* A call that has reported ends, or goes on and reports once more.
Reported(c) == c \in out /\ out' \in {out, out \ {c}}

Fail(c) ==
    /\ Reported(c)
    /\ streak' = IF streak < Threshold THEN streak + 1 ELSE streak
    /\ open' = (open \/ streak' = Threshold)
    /\ cooled' \in {cooled, FALSE} /\ (streak' = Threshold => ~cooled')

Succeed(c) ==
    /\ Reported(c)
    /\ streak' = 0
    /\ open' \in {open, FALSE}
    /\ UNCHANGED cooled

Abandon(c) == c \in out /\ out' = out \ {c} /\ UNCHANGED <<streak, open, cooled>>

Elapse == ~cooled /\ cooled' = TRUE /\ UNCHANGED <<out, streak, open>>

Next == Elapse \/ \E c \in Callers : Admit(c) \/ Fail(c) \/ Succeed(c) \/ Abandon(c)

Spec == Init /\ [][Next]_vars

=============================================================================
