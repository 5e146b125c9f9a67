----------------------------- MODULE MessageBus -----------------------------
(***************************************************************************)
(* The local message bus of omnicore_engine/message_bus: publish() puts a  *)
(* message into one of the two priority queues of its topic's shard, one   *)
(* dispatcher task per queue hands it to the subscribers, and the          *)
(* BackpressureManager pauses a shard whose queues fill up.                *)
(*                                                                         *)
(* publish() is called by users of the bus (Pubs, one call each) and by    *)
(* the dispatchers themselves, for the events of the BackpressureManager.  *)
(* All of it runs on one event loop: a step is the code between two        *)
(* awaits.  A shard stands for the topics hashed to it; it is fixed (no    *)
(* add_shard, remove_shard, adjust_shards), and there is no Redis.         *)
(***************************************************************************)
EXTENDS Naturals, Sequences, FiniteSets

CONSTANTS Pubs,           \* calls of publish(), each with its message
          Shards,
          Keys,           \* idempotency keys
          NoKey, Nobody,
          Kinds,          \* of the users' messages: shard, priority, key
          HighFrom,       \* priority_threshold: from here on the high queue
          EventShard,     \* of the topic "message_bus.backpressure"
          EventPriority,  \* the 10 of check_and_notify
          MaxQueue,       \* max_queue_size
          PauseAt,        \* the size that is BACKPRESSURE_THRESHOLD of it
          Persisting,     \* does the bus have a database
          MaxRaises       \* bound: Kafka bridge and hooks raise no more once a
                          \* queue has so many messages left that they did

Classes == {"normal", "high"}
Dispatchers == Shards \X Classes
Callers == Pubs \cup Dispatchers

ASSUME BusAssumption == /\ Pubs \cap Dispatchers = {} /\ Nobody \notin Callers
                        /\ NoKey \notin Keys
                        /\ EventShard \in Shards
                        /\ Kinds \subseteq [shard : Shards, prio : Nat, key : Keys \cup {NoKey}]
                        /\ HighFrom \in Nat /\ EventPriority \in Nat
                        /\ MaxQueue \in Nat \ {0} /\ PauseAt \in 1 .. MaxQueue
                        /\ Persisting \in BOOLEAN
                        /\ MaxRaises \in Nat

VARIABLES
    lock,        \* the caller that holds _publish_lock, or Nobody
    at,          \* at[c]: the await the call, or the dispatcher, c is at
    msg,         \* msg[p]: the message p publishes
    answer,      \* answer[p]: what publish() returned to p
    queue,       \* queue[s][k]: queues and high_priority_queues, sorted
    unfinished,  \* unfinished[s][k]: the queue's count of tasks for join()
    hand,        \* hand[d]: the message dispatcher d has taken
    paused,      \* paused[s]: shard_paused, and is_paused of the manager
    dedup,       \* dedup_cache
    dlq,         \* callers whose message went to the dead letter queue
    phase,       \* "up"; shutdown(): "stopping", then "joining"
    joined       \* queues whose join() in shutdown() has returned

\* History: users' messages in the order they were enqueued, and dispatched;
\* keys the cache has forgotten; what was enqueued when the dispatchers ended.
VARIABLES order, dispatched, forgotten, early

publishing == <<lock, at, msg, answer, dlq>>
queues == <<queue, unfinished, hand, paused>>
shutdown == <<phase, joined>>
history == <<order, dispatched, forgotten, early>>
vars == <<publishing, queues, dedup, shutdown, history>>

Message == [by : Callers \cup {Nobody}, shard : Shards, prio : Nat, key : Keys \cup {NoKey}]
NoMsg == [by |-> Nobody, shard |-> EventShard, prio |-> 0, key |-> NoKey]

UserMsg(p, k) == [by |-> p, shard |-> k.shard, prio |-> k.prio, key |-> k.key]

\* The message of a caller; a dispatcher publishes backpressure events.
Msg(c) == IF c \in Pubs
             THEN msg[c]
             ELSE [by |-> c, shard |-> EventShard, prio |-> EventPriority, key |-> NoKey]

TypeOK ==
    /\ lock \in Callers \cup {Nobody}
    /\ at \in [Callers -> {"idle", "lock", "gate", "put", "persist", "done",
                           "get", "check", "submit", "bridge", "stopped"}]
    /\ msg \in [Pubs -> Message]
    /\ answer \in [Pubs -> {"none", "true", "false", "duplicate"}]
    /\ queue \in [Shards -> [Classes -> Seq(Message)]]
    /\ \A s \in Shards, k \in Classes : Len(queue[s][k]) <= MaxQueue
    /\ unfinished \in [Shards -> [Classes -> Nat]]
    /\ hand \in [Dispatchers -> Message]
    /\ paused \in [Shards -> BOOLEAN]
    /\ dedup \subseteq Keys /\ forgotten \subseteq Keys
    /\ dlq \subseteq Callers
    /\ phase \in {"up", "stopping", "joining"} /\ joined \subseteq Dispatchers
    /\ order \in Seq(Pubs) /\ dispatched \in Seq(Pubs) /\ early \subseteq Pubs

Init ==
    /\ lock = Nobody
    /\ at = [c \in Callers |-> IF c \in Pubs THEN "idle" ELSE "get"]
    /\ msg = [p \in Pubs |-> NoMsg]
    /\ answer = [p \in Pubs |-> "none"]
    /\ queue = [s \in Shards |-> [k \in Classes |-> <<>>]]
    /\ unfinished = [s \in Shards |-> [k \in Classes |-> 0]]
    /\ hand = [d \in Dispatchers |-> NoMsg]
    /\ paused = [s \in Shards |-> FALSE]
    /\ dedup = {} /\ dlq = {}
    /\ phase = "up" /\ joined = {}
    /\ order = <<>> /\ dispatched = <<>> /\ forgotten = {} /\ early = {}

----------------------------------------------------------------------------
(* publish() *)

Goto(c, there) == at' = [at EXCEPT ![c] = there]

\* Mutant: after its event a dispatcher goes for the next message.
ReturnForgetting(c, a) ==
    IF c \in Pubs THEN Goto(c, "done") /\ answer' = [answer EXCEPT ![c] = a]
                  ELSE Goto(c, "get") /\ UNCHANGED answer

\* The answer; a dispatcher ignores it and goes on with the message in hand.
Return(c, a) ==
    IF c \in Pubs THEN Goto(c, "done") /\ answer' = [answer EXCEPT ![c] = a]
                  ELSE Goto(c, "submit") /\ UNCHANGED answer

\* Rate limit, size, signature, hooks, encryption, validation: False, and
\* nothing has happened.  Of interest for events only: a user's call that is
\* refused is like one that was not made.
Refuse(d) ==
    /\ at[d] = "lock"
    /\ Return(d, "false")
    /\ UNCHANGED <<lock, msg, dlq, queues, dedup, shutdown, history>>

ClassOf(m) == IF m.prio >= HighFrom THEN "high" ELSE "normal"

\* Mutant: a message goes before those of its priority.
InsertFirst(q, m) ==
    LET i == Cardinality({n \in DOMAIN q : q[n].prio < m.prio})
    IN  SubSeq(q, 1, i) \o <<m>> \o SubSeq(q, i + 1, Len(q))

\* PriorityQueue.put((priority, message)): the smaller priority first, the
\* older of two messages of one priority first (their timestamps are taken
\* under the lock that is still held, so older is enqueued earlier).
Insert(q, m) ==
    LET i == Cardinality({n \in DOMAIN q : q[n].prio <= m.prio})
    IN  SubSeq(q, 1, i) \o <<m>> \o SubSeq(q, i + 1, Len(q))

\* Mutant: a queue has no size limit.
FullNever(m) == FALSE
Full(m) == Len(queue[m.shard][ClassOf(m)]) = MaxQueue

\* Mutant: the key of a message that is saved is not remembered.
RememberUnsaved(m) ==
    dedup' = dedup \cup IF Persisting /\ ClassOf(m) = "high" THEN {} ELSE {m.key} \ {NoKey}
Remember(m) == dedup' = dedup \cup ({m.key} \ {NoKey})

\* put(), then the key is remembered and a message of high priority saved.
Enqueue(c, m) ==
    /\ queue' = [queue EXCEPT ![m.shard][ClassOf(m)] = Insert(@, m)]
    /\ unfinished' = [unfinished EXCEPT ![m.shard][ClassOf(m)] = @ + 1]
    /\ Remember(m)
    /\ order' = IF c \in Pubs THEN Append(order, c) ELSE order
    /\ IF Persisting /\ ClassOf(m) = "high"
          THEN Goto(c, "persist") /\ lock' = c /\ UNCHANGED answer
          ELSE Return(c, "true") /\ lock' = Nobody
    /\ UNCHANGED <<dlq, hand, paused, shutdown, dispatched, forgotten, early>>

\* c waits, with the lock held.
WaitAt(c, here) ==
    /\ Goto(c, here)
    /\ lock' = c
    /\ UNCHANGED <<answer, dlq, queues, dedup, shutdown, history>>

\* put() does not raise QueueFull, it waits.
GoPut(c, m) == IF Full(m) THEN WaitAt(c, "put") ELSE Enqueue(c, m)

PausedFor(m) == paused[m.shard] /\ phase = "up"

\* Mutant: a paused shard does not stop its publishers.
GoGateOpen(c, m) == GoPut(c, m)

\* "Wait for shard to resume if paused (backpressure enforcement)".
GoGate(c, m) == IF PausedFor(m) THEN WaitAt(c, "gate") ELSE GoPut(c, m)

\* The lock, and under it the deduplication.
TakeLock(c, m) ==
    /\ lock = Nobody
    /\ IF m.key \in dedup
          THEN /\ Return(c, "duplicate")
               /\ UNCHANGED <<lock, dlq, queues, dedup, shutdown, history>>
          ELSE GoGate(c, m)

\* A user's call, from the moment it gets the lock: until then it has no effect.
Call(p, m) ==
    /\ at[p] = "idle"
    /\ msg' = [msg EXCEPT ![p] = m]
    /\ TakeLock(p, m)

\* A dispatcher waits for the lock, to publish its event.
Event(d) == at[d] = "lock" /\ TakeLock(d, Msg(d)) /\ UNCHANGED msg

Gate(c) == at[c] = "gate" /\ ~PausedFor(Msg(c)) /\ GoPut(c, Msg(c)) /\ UNCHANGED msg

Put(c) == at[c] = "put" /\ ~Full(Msg(c)) /\ Enqueue(c, Msg(c)) /\ UNCHANGED msg

\* save_preferences ends.  If it raises, the message is in its queue as well as
\* in the dead letter queue, and the answer is False.
Persist(c) ==
    /\ at[c] = "persist"
    /\ \/ Return(c, "true") /\ UNCHANGED dlq
       \/ Return(c, "false") /\ dlq' = dlq \cup {c}
    /\ lock' = Nobody
    /\ UNCHANGED <<msg, queues, dedup, shutdown, history>>

\* An entry of the cache is evicted or outlives its ttl.
Forget(k) ==
    /\ k \in dedup
    /\ dedup' = dedup \ {k}
    /\ forgotten' = forgotten \cup {k}
    /\ UNCHANGED <<publishing, queues, shutdown, order, dispatched, early>>

----------------------------------------------------------------------------
(* _dispatcher_loop *)

\* queue.get(): the first message, for the await that resumes later.
Get(d) ==
    LET s == d[1] k == d[2] IN
    /\ at[d] = "get" /\ queue[s][k] # <<>>
    /\ hand' = [hand EXCEPT ![d] = Head(queue[s][k])]
    /\ queue' = [queue EXCEPT ![s][k] = Tail(@)]
    /\ Goto(d, "check")
    /\ UNCHANGED <<lock, msg, answer, dlq, unfinished, paused, dedup, shutdown, history>>

\* should_pause of check_and_notify.
Over(s) == \E k \in Classes : Len(queue[s][k]) >= PauseAt

\* The BackpressureManager looks at the shard: if it has to be paused or
\* resumed, the dispatcher publishes an event.
Check(d) ==
    LET s == d[1] IN
    /\ at[d] = "check"
    /\ paused' = [paused EXCEPT ![s] = Over(s)]
    /\ Goto(d, IF Over(s) = paused[s] THEN "submit" ELSE "lock")
    /\ UNCHANGED <<lock, msg, answer, dlq, queue, unfinished, hand, dedup, shutdown, history>>

\* The message goes to the executor that runs the subscribers' callbacks.
Submit(d) ==
    /\ at[d] = "submit"
    /\ dispatched' = IF hand[d].by \in Pubs THEN Append(dispatched, hand[d].by) ELSE dispatched
    /\ Goto(d, "bridge")
    /\ UNCHANGED <<lock, msg, answer, dlq, queues, dedup, shutdown, order, forgotten, early>>

\* The loop is through with the message in hand.
Leave(d, there) ==
    /\ Goto(d, there)
    /\ hand' = [hand EXCEPT ![d] = NoMsg]
    /\ UNCHANGED <<lock, msg, answer, dlq, queue, paused, dedup, shutdown, history>>

\* "while self.running"
Onward == IF phase = "up" THEN "get" ELSE "stopped"

\* The bridges and the hooks are done: task_done().
Done(d) ==
    /\ at[d] = "bridge"
    /\ unfinished' = [unfinished EXCEPT ![d[1]][d[2]] = @ - 1]
    /\ Leave(d, Onward)

\* Messages of d's queue that the loop is through with, and that still count.
Unmarked(d) ==
    unfinished[d[1]][d[2]] - Len(queue[d[1]][d[2]]) - IF hand[d] = NoMsg THEN 0 ELSE 1

\* The Kafka bridge raises, or a hook does and then the handler for that.
Raises(d) ==
    /\ at[d] = "bridge"
    /\ \A e \in Dispatchers : Unmarked(e) < MaxRaises
    /\ UNCHANGED unfinished

\* A TimeoutError is taken for that of wait_for: the loop goes on.
TimeOut(d) == Raises(d) /\ Leave(d, Onward)

\* Mutant: what was raised is handled, and the message tried once more.
DieRetrying(d) ==
    /\ Raises(d) /\ Goto(d, "submit")
    /\ UNCHANGED <<lock, msg, answer, dlq, queue, hand, paused, dedup, shutdown, history>>

\* The handler of everything else counts the error without one of the two labels
\* of the counter and raises ValueError: the dispatcher has ended, and nothing
\* starts another one for its queue.
Die(d) == Raises(d) /\ Leave(d, "stopped")

----------------------------------------------------------------------------
(* shutdown() *)

Stop ==
    /\ phase = "up"
    /\ phase' = "stopping"
    /\ UNCHANGED <<publishing, queues, dedup, joined, history>>

Dropping == /\ at' = [c \in Callers |-> IF c \in Pubs THEN at[c] ELSE "stopped"]
            /\ hand' = [d \in Dispatchers |-> NoMsg]
            /\ lock' = IF lock \in Dispatchers THEN Nobody ELSE lock
            /\ early' = {order[i] : i \in DOMAIN order}
            /\ phase = "stopping" /\ phase' = "joining"

\* Mutant: a cancelled dispatcher marks its message as done ("finally").
CancelMarking ==
    /\ Dropping
    /\ unfinished' = [s \in Shards |-> [k \in Classes |->
                        unfinished[s][k] - IF hand[<<s, k>>] = NoMsg THEN 0 ELSE 1]]
    /\ UNCHANGED <<msg, answer, dlq, queue, paused, dedup, joined, order, dispatched, forgotten>>

\* The dispatchers are cancelled wherever they are; a message in hand is gone.
CancelDispatchers ==
    /\ Dropping
    /\ UNCHANGED <<msg, answer, dlq, queue, unfinished, paused, dedup, joined,
                   order, dispatched, forgotten>>

\* The queues are joined one after the other, the normal ones first.
Join(s, k) ==
    /\ phase = "joining" /\ <<s, k>> \notin joined
    /\ k = "high" => \A t \in Shards : <<t, "normal">> \in joined
    /\ unfinished[s][k] = 0
    /\ joined' = joined \cup {<<s, k>>}
    /\ UNCHANGED <<publishing, queues, dedup, phase, history>>

----------------------------------------------------------------------------
Publish(c) == Gate(c) \/ Put(c) \/ Persist(c)
Dispatch(d) == Refuse(d) \/ Event(d) \/ Get(d) \/ Check(d) \/ Submit(d)
               \/ Done(d) \/ TimeOut(d) \/ Die(d)
Shutdown == Stop \/ CancelDispatchers \/ \E s \in Shards, k \in Classes : Join(s, k)

Next == \/ \E p \in Pubs, k \in Kinds : Call(p, UserMsg(p, k))
        \/ \E c \in Callers : Publish(c)
        \/ \E d \in Dispatchers : Dispatch(d)
        \/ \E k \in Keys : Forget(k)
        \/ Shutdown

Spec == Init /\ [][Next]_vars

\* The event loop runs what can run, and asyncio.Lock serves its waiters in
\* turn; nobody is obliged to publish, to forget a key or to shut down.
FairSpec == /\ Spec
            /\ \A c \in Callers : WF_vars(Publish(c))
            /\ \A d \in Dispatchers : WF_vars(Dispatch(d)) /\ SF_vars(Refuse(d) \/ Event(d))

----------------------------------------------------------------------------
(* Correctness *)

Enqueued == {order[i] : i \in DOMAIN order}
Handled == {dispatched[i] : i \in DOMAIN dispatched}
Queued == {p \in Pubs : \E s \in Shards, k \in Classes :
                            \E i \in DOMAIN queue[s][k] : queue[s][k][i].by = p}
Before(seq, p, q) == \E i, j \in DOMAIN seq : i < j /\ seq[i] = p /\ seq[j] = q

\* A message that publish() accepted is queued, in the hands of a dispatcher or
\* dispatched, whatever events, full queues and failed saves come between and
\* whichever dispatcher dies, which leaves its queue as it is; only the
\* cancellation of the dispatchers drops one.  One it answered False after
\* enqueuing it is in the dead letter queue.
NothingLost ==
    /\ \A p \in Pubs : answer[p] = "true" => p \in Enqueued
    /\ phase # "joining" =>
          Enqueued \subseteq Queued \cup Handled \cup {hand[d].by : d \in Dispatchers}
    /\ \A p \in Enqueued : answer[p] = "false" => p \in dlq

\* Concurrent calls with one idempotency key enqueue one message, also when the
\* first waits for a paused shard or a full queue, unless the cache forgot it.
KeyedOnce ==
    \A i, j \in DOMAIN order :
        /\ msg[order[i]].key = msg[order[j]].key /\ i # j
        /\ msg[order[i]].key # NoKey
        => msg[order[i]].key \in forgotten

\* Messages of one topic and one priority reach the subscribers in the order
\* they were enqueued.
InOrder ==
    \A p, q \in Pubs :
        /\ Before(order, p, q) /\ q \in Handled
        /\ msg[p].shard = msg[q].shard /\ msg[p].prio = msg[q].prio
        => Before(dispatched, p, q)

\* "backpressure enforcement": while a shard is paused nothing enters its
\* queues but the message of a caller that already waited for a place.
PauseHolds ==
    [][\A s \in Shards, k \in Classes :
            /\ phase = "up" /\ paused[s] /\ Len(queue'[s][k]) > Len(queue[s][k])
            => \E c \in Callers : lock = c /\ at[c] = "put" /\ Msg(c).shard = s]_vars

\* "All internal message queues drained": once shutdown() has joined them all,
\* every message enqueued before the dispatchers ended has been dispatched.
DrainedIsDispatched == joined = Dispatchers => early \subseteq Handled

\* The queues nobody serves any more.
Halted == {d \in Dispatchers : at[d] = "stopped"}

Texts(seq) == [i \in DOMAIN seq |-> msg[seq[i]]]
Service == INSTANCE TopicQueue
    WITH Messages <- {UserMsg(p, k) : p \in Pubs, k \in Kinds},
         accepted <- Texts(order), delivered <- Texts(dispatched),
         dead <- dlq \cap Pubs, remembered <- dedup, halted <- Halted,
         ended <- (phase = "joining"), drained <- (joined = Dispatchers)

\* Whatever waits, fails or is cancelled: to its users the bus is one queue that
\* takes a remembered key once and delivers a message at most once, in its turn.
\* A delivery that raises is not repeated; the dispatcher it ends takes all later
\* deliveries of its shard and class with it, and a bus that lost some that way
\* is never called drained.
ActsAsQueue == Service!Spec

\* "Wait for shard to resume if paused": it is resumed.  The code does not keep
\* this: the event of the pause, and every call that waits for the shard, hold
\* the one _publish_lock the dispatchers need.
PauseEnds == \A s \in Shards : paused[s] ~> ~paused[s] \/ phase # "up"

=============================================================================
