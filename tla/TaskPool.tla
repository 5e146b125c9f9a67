------------------------------ MODULE TaskPool ------------------------------
(***************************************************************************)
(* What the test runner promises those who give it tasks.  A task that is  *)
(* submitted waits; the most urgent ones are begun, no more at once than   *)
(* the limit, or sent away, and those sent away may be taken back.  The    *)
(* runner may start anew: what runs then ends, and what waits is kept,     *)
(* unless its record is broken or was not up to date.  No task is begun    *)
(* twice, but for what an old record brought back.  There are no heap,     *)
(* file, worker or replies here: TaskRunner shows that with them the       *)
(* runner is such a pool.                                                  *)
(***************************************************************************)
EXTENDS Integers, FiniteSets

CONSTANTS Tasks, Priority, Limit

VARIABLES place,    \* "new", "waiting", "slot", "direct", "away" or "past"
          begun,    \* tasks begun, since ever
          excused,  \* those of them an old record has brought back
          unsaved,  \* waiting without being in the record
          torn      \* the record is an old one

vars == <<place, begun, excused, unsaved, torn>>

At(w) == {t \in Tasks : place[t] = w}
Move(S, to) == place' = [t \in Tasks |-> IF t \in S THEN to ELSE place[t]]
Urgent(S) == \A t \in S, u \in At("waiting") \ S : Priority[t] <= Priority[u]

\* The record is written, or remains as it was.
Record == \/ unsaved' = {} /\ ~torn'
          \/ unsaved' \subseteq unsaved /\ torn'

Init == /\ place = [t \in Tasks |-> "new"]
        /\ begun = {} /\ excused = {} /\ unsaved = {} /\ torn = FALSE

Submit(t) ==
    /\ place[t] = "new" /\ Move({t}, "waiting") /\ Record
    /\ UNCHANGED <<begun, excused>>

\* By the request itself, which the limit is not for.
RunNow(t) ==
    /\ place[t] = "new" /\ Move({t}, "direct")
    /\ begun' = begun \cup {t}
    /\ UNCHANGED <<excused, unsaved, torn>>

Begin(t) ==
    /\ place[t] = "waiting" /\ Urgent({t}) /\ Move({t}, "slot")
    /\ Cardinality(At("slot")) < Limit
    /\ t \in begun => t \in excused
    /\ begun' = begun \cup {t} /\ Record
    /\ UNCHANGED excused

Finish(t) ==
    /\ place[t] \in {"slot", "direct"} /\ Move({t}, "past")
    /\ UNCHANGED <<begun, excused, unsaved, torn>>

Send(S) ==
    /\ S \subseteq At("waiting") /\ Urgent(S) /\ At("away") = {} /\ Move(S, "away")
    /\ unsaved' = unsaved \ S
    /\ UNCHANGED <<begun, excused, torn>>

TakeBack ==
    /\ Move(At("away"), "waiting")
    /\ unsaved' = unsaved \cup At("away")
    /\ UNCHANGED <<begun, excused, torn>>

\* Those who have them begin them.
GiveUp ==
    /\ Move(At("away"), "past")
    /\ UNCHANGED <<begun, excused, unsaved, torn>>

Restart(kept) ==
    /\ kept = {} \/ torn \/ At("waiting") \ unsaved \subseteq kept
    /\ place' = [t \in Tasks |-> IF t \in kept THEN "waiting"
                                 ELSE IF place[t] = "new" THEN "new" ELSE "past"]
    /\ kept \cap At("new") = {}
    /\ IF torn THEN excused \subseteq excused' /\ excused' \subseteq Tasks
               ELSE UNCHANGED excused
    /\ kept \cap begun \subseteq excused'
    /\ unsaved' = kept /\ torn' = FALSE
    /\ UNCHANGED begun

Next == \/ \E t \in Tasks : Submit(t) \/ RunNow(t) \/ Begin(t) \/ Finish(t)
        \/ \E S \in SUBSET Tasks : Send(S) \/ Restart(S)
        \/ TakeBack \/ GiveUp

Spec == Init /\ [][Next]_vars

=============================================================================
