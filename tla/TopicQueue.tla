----------------------------- MODULE TopicQueue -----------------------------
(***************************************************************************)
(* What the message bus promises its users: every message publish() takes  *)
(* gets a place in one order, with a key the bus remembers it is not taken *)
(* again, and the subscribers get it at most once, after the messages of   *)
(* its shard and priority that have a place before it.  An error may halt  *)
(* the delivery for one shard and class of priorities; shutdown ends all   *)
(* of it, and calls the bus drained when it has delivered what it had      *)
(* taken by then.  There are no queues, locks, pauses or dispatchers here: *)
(* MessageBus shows that with them the promise is kept.                    *)
(***************************************************************************)
EXTENDS Naturals, Sequences

CONSTANTS Pubs, NoKey, Shards,
          HighFrom, \* the least of the high priorities
          Messages  \* of the calls: by whom, shard, priority, key

VARIABLES accepted,    \* the messages taken, in their order
          delivered,   \* the messages the subscribers were called with
          answer,      \* answer[p]: what publish() returned to p
          dead,        \* calls whose message is in the dead letter queue as well
          remembered,  \* keys
          early,       \* whose messages were taken before the delivery ended
          halted,      \* shards and classes whose messages are not delivered any more
          ended, drained

vars == <<accepted, delivered, answer, dead, remembered, early, halted, ended, drained>>

Lines == Shards \X {"normal", "high"}
LineOf(m) == <<m.shard, IF m.prio >= HighFrom THEN "high" ELSE "normal">>

By(seq) == {seq[i].by : i \in DOMAIN seq}
Answers(p, a) == answer[p] = "none" /\ answer' = [answer EXCEPT ![p] = a]

Init == /\ accepted = <<>> /\ delivered = <<>>
        /\ answer = [p \in Pubs |-> "none"] /\ dead = {}
        /\ remembered = {} /\ early = {}
        /\ halted = {} /\ ended = FALSE /\ drained = FALSE

\* The call may hear of it later.
Accept(m) ==
    /\ answer[m.by] = "none" /\ answer' \in {answer, [answer EXCEPT ![m.by] = "true"]}
    /\ m.key \notin remembered /\ remembered' = remembered \cup ({m.key} \ {NoKey})
    /\ m.by \notin By(accepted) /\ accepted' = Append(accepted, m)
    /\ UNCHANGED <<delivered, dead, early, halted, ended, drained>>

\* "false": taken, but not saved.
Answer(p) ==
    /\ \/ Answers(p, "true") /\ UNCHANGED dead
       \/ Answers(p, "false") /\ dead' = dead \cup {p}
    /\ p \in By(accepted)
    /\ UNCHANGED <<accepted, delivered, remembered, early, halted, ended, drained>>

Refuse(p) ==
    /\ Answers(p, "duplicate")
    /\ p \notin By(accepted) /\ remembered # {}
    /\ UNCHANGED <<accepted, delivered, dead, remembered, early, halted, ended, drained>>

Forget(k) ==
    /\ k \in remembered /\ remembered' = remembered \ {k}
    /\ UNCHANGED <<accepted, delivered, answer, dead, early, halted, ended, drained>>

\* The next message of its shard and priority.
Deliver(i) ==
    /\ LineOf(accepted[i]) \notin halted
    /\ accepted[i].by \notin By(delivered)
    /\ \A j \in 1 .. i - 1 :
          /\ accepted[j].shard = accepted[i].shard /\ accepted[j].prio = accepted[i].prio
          => accepted[j].by \in By(delivered)
    /\ delivered' = Append(delivered, accepted[i])
    /\ UNCHANGED <<accepted, answer, dead, remembered, early, halted, ended, drained>>

\* An error after a delivery, or the end is near.
Halt(l) ==
    /\ l \notin halted /\ halted' = halted \cup {l}
    /\ UNCHANGED <<accepted, delivered, answer, dead, remembered, early, ended, drained>>

End == /\ ~ended /\ ended' = TRUE /\ halted' = Lines
       /\ early' = By(accepted)
       /\ UNCHANGED <<accepted, delivered, answer, dead, remembered, drained>>

Drain == /\ ended /\ ~drained /\ drained' = TRUE
         /\ early \subseteq By(delivered)
         /\ UNCHANGED <<accepted, delivered, answer, dead, remembered, early, halted, ended>>

Next == \/ \E m \in Messages : Accept(m)
        \/ \E p \in Pubs : Answer(p) \/ Refuse(p)
        \/ \E k \in remembered : Forget(k)
        \/ \E i \in DOMAIN accepted : Deliver(i)
        \/ \E l \in Lines : Halt(l)
        \/ End \/ Drain

Spec == Init /\ [][Next]_vars

=============================================================================
