------------------------------ MODULE Inquiry ------------------------------
(***************************************************************************)
(* What asking a human promises.  A call that asks is decided once, by an  *)
(* answer about its own id that is on record by then, or by the deadline,  *)
(* and returns what was decided; an answer decides one call at most, and   *)
(* none that a call waits for under an id of its own is wasted.  There are *)
(* no futures, tables, awaits or retries here: HumanApproval shows that    *)
(* with them the promise is kept.                                          *)
(***************************************************************************)
CONSTANTS Requests, Answers, Ids, IdChoices, None

VARIABLES id,       \* id[r]: the id under which call r asks
          call,     \* call[r]: "new", "asking", "done", "raised"
          verdict,  \* verdict[r]: "none", "open", "cancelled" or an answer
          result,   \* result[r]: what call r returned
          about,    \* about[a]: the id answer a is about, None before it came
          onRecord, \* answers the log has, or is known not to have
          spent     \* answers that have been delivered

vars == <<id, call, verdict, result, about, onRecord, spent>>

Init == /\ id \in IdChoices
        /\ call = [r \in Requests |-> "new"]
        /\ verdict = [r \in Requests |-> "none"]
        /\ result = [r \in Requests |-> "none"]
        /\ about = [a \in Answers |-> None]
        /\ onRecord = {} /\ spent = {}

Ask(r) == /\ call[r] = "new" /\ call' = [call EXCEPT ![r] = "asking"]
          /\ verdict[r] = "none" /\ verdict' = [verdict EXCEPT ![r] = "open"]
          /\ UNCHANGED <<id, result, about, onRecord, spent>>

\* An answer comes, and goes on record.
Come(a) == /\ about[a] = None
           /\ \E r \in Requests : about' = [about EXCEPT ![a] = id[r]]
           /\ UNCHANGED <<id, call, verdict, result, onRecord, spent>>

Record(a) == /\ about[a] # None
             /\ onRecord' = onRecord \cup {a}
             /\ UNCHANGED <<id, call, verdict, result, about, spent>>

Deliver(a) == a \in onRecord \ spent /\ spent' = spent \cup {a}

Decide(r, a) == /\ Deliver(a) /\ about[a] = id[r]
                /\ verdict[r] = "open" /\ verdict' = [verdict EXCEPT ![r] = a]
                /\ UNCHANGED <<id, call, result, about, onRecord>>

\* It came too early or too late, or others use its id.
Waits(r) == call[r] = "asking" /\ verdict[r] = "open"
Waste(a) == /\ Deliver(a)
            /\ \A r \in Requests : Waits(r) /\ about[a] = id[r]
                                       => \E q \in Requests \ {r} : id[q] = id[r]
            /\ UNCHANGED <<id, call, verdict, result, about, onRecord>>

Expire(r) == /\ Waits(r)
             /\ verdict' = [verdict EXCEPT ![r] = "cancelled"]
             /\ UNCHANGED <<id, call, result, about, onRecord, spent>>

Return(r) == /\ call[r] = "asking" /\ call' = [call EXCEPT ![r] = "done"]
             /\ \/ verdict[r] \in Answers /\ result' = [result EXCEPT ![r] = verdict[r]]
                \/ verdict[r] = "cancelled" /\ result' = [result EXCEPT ![r] = "timeout"]
             /\ UNCHANGED <<id, verdict, about, onRecord, spent>>

\* Nobody could be asked.
Raise(r) == /\ call[r] = "asking" /\ call' = [call EXCEPT ![r] = "raised"]
            /\ UNCHANGED <<id, verdict, result, about, onRecord, spent>>

Next == \/ \E r \in Requests : \/ Ask(r) \/ Expire(r) \/ Return(r) \/ Raise(r)
                               \/ \E a \in Answers : Decide(r, a)
        \/ \E a \in Answers : Come(a) \/ Record(a) \/ Waste(a)

Spec == Init /\ [][Next]_vars

=============================================================================
