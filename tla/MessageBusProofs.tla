-------------------------- MODULE MessageBusProofs --------------------------
(***************************************************************************)
(* publish() and the dispatchers: accepted messages are not lost or put in *)
(* another order, and a key is enqueued once, for any calls, shards, queue *)
(* sizes and outcomes.                                                     *)
(***************************************************************************)
EXTENDS MessageBus, SequenceTheorems, FiniteSetTheorems, TLAPS

\* A call in the critical section holds the lock.
Excl == \A c \in Callers : at[c] \in {"gate", "put", "persist"} => lock = c

\* A queue counts its messages, and the one its dispatcher has in hand.
Busy(d) == at[d] \notin {"get", "stopped"}
Counted == \A d \in Dispatchers :
    /\ unfinished[d[1]][d[2]] >= Len(queue[d[1]][d[2]])
    /\ Busy(d) => unfinished[d[1]][d[2]] > Len(queue[d[1]][d[2]])

\* The key of a call past the deduplication is not in the cache, that of an
\* enqueued message is or has been.
Fresh == \A c \in Callers : at[c] \in {"gate", "put"} => Msg(c).key \notin dedup
Known == \A p \in Enqueued : /\ at[p] \in {"persist", "done"}
                             /\ msg[p].key \in dedup \cup forgotten \cup {NoKey}
KeyInv == TypeOK /\ Excl /\ Counted /\ Fresh /\ Known /\ KeyedOnce

\* A call works on its own message, and answers once.
Own == \A p \in Pubs : at[p] \in {"gate", "put"} => msg[p].by = p
Answers == \A p \in Pubs : /\ at[p] # "done" => answer[p] = "none"
                           /\ at[p] = "persist" => p \in Enqueued

\* What a dispatcher has in hand, it holds until it is dispatched.
Hands == \A d \in Dispatchers :
    /\ at[d] \in {"get", "stopped"} => hand[d] = NoMsg
    /\ at[d] = "bridge" /\ hand[d].by \in Pubs => hand[d].by \in Handled

KeptInv == Own /\ Answers /\ Hands /\ NothingLost

\* A dispatcher is its shard and its class, and no user's call.
LEMMA DispatcherParts ==
    ASSUME NEW d \in Dispatchers
    PROVE  d[1] \in Shards /\ d[2] \in Classes /\ d = <<d[1], d[2]>> /\ d \notin Pubs
             /\ d \in Callers
BY BusAssumption DEF Dispatchers, Callers

\* The types of one queue.
LEMMA QueueTypes ==
    ASSUME TypeOK, NEW s \in Shards, NEW k \in Classes
    PROVE  /\ queue[s][k] \in Seq(Message) /\ Len(queue[s][k]) \in 0 .. MaxQueue
           /\ unfinished[s][k] \in Nat
<1>1. /\ queue \in [Shards -> [Classes -> Seq(Message)]]
      /\ unfinished \in [Shards -> [Classes -> Nat]]
      /\ Len(queue[s][k]) <= MaxQueue
  BY DEF TypeOK
<1>2. queue[s] \in [Classes -> Seq(Message)] /\ unfinished[s] \in [Classes -> Nat]
  BY <1>1
<1>3. queue[s][k] \in Seq(Message) /\ unfinished[s][k] \in Nat
  BY <1>2
<1> QED
  BY <1>1, <1>3, BusAssumption

\* A message is inserted between those it follows and those it precedes.
LEMMA InsertShape ==
    ASSUME NEW q \in Seq(Message), NEW m \in Message
    PROVE  \E i \in 0 .. Len(q) :
             /\ i = Cardinality({n \in DOMAIN q : q[n].prio <= m.prio})
             /\ Insert(q, m) \in Seq(Message) /\ Len(Insert(q, m)) = Len(q) + 1
             /\ \A n \in 1 .. i : Insert(q, m)[n] = q[n]
             /\ Insert(q, m)[i + 1] = m
             /\ \A n \in i + 2 .. Len(q) + 1 : Insert(q, m)[n] = q[n - 1]
<1> DEFINE before == {n \in DOMAIN q : q[n].prio <= m.prio}
           i == Cardinality(before)
           low == SubSeq(q, 1, i)
           high == SubSeq(q, i + 1, Len(q))
<1>1. IsFiniteSet(1 .. Len(q)) /\ Cardinality(1 .. Len(q)) = Len(q)
  <2>1. Len(q) \in Nat /\ 1 \in Int
    OBVIOUS
  <2>2. /\ IsFiniteSet(1 .. Len(q))
        /\ Cardinality(1 .. Len(q)) = IF 1 > Len(q) THEN 0 ELSE Len(q) - 1 + 1
    BY <2>1, FS_Interval
  <2> QED
    BY <2>1, <2>2
<1>2. IsFiniteSet(before) /\ i <= Len(q)
  BY <1>1, FS_Subset, before \subseteq 1 .. Len(q)
<1>3. i \in 0 .. Len(q)
  BY <1>2, FS_CardinalityType
<1> HIDE DEF i
<1>4. /\ low \in Seq(Message) /\ Len(low) = i
      /\ \A n \in 1 .. i : low[n] = q[n]
  <2>1. \A n \in 1 .. i : q[n] \in Message
    BY <1>3
  <2> QED
    BY <1>3, <2>1, SubSeqProperties
<1>5. /\ high \in Seq(Message) /\ Len(high) = Len(q) - i
      /\ \A n \in 1 .. Len(q) - i : high[n] = q[i + n]
  <2>1. \A n \in i + 1 .. Len(q) : q[n] \in Message
    BY <1>3
  <2> QED
    BY <1>3, <2>1, SubSeqProperties
<1> HIDE DEF low, high
<1> DEFINE front == low \o <<m>>
           r == front \o high
<1>6. /\ front \in Seq(Message) /\ Len(front) = i + 1
      /\ \A n \in 1 .. i : front[n] = q[n]
      /\ front[i + 1] = m
  BY <1>3, <1>4, ConcatProperties
<1>7. Insert(q, m) = r
  BY DEF Insert, low, high, i
<1> HIDE DEF front
<1>8. /\ r \in Seq(Message) /\ Len(r) = Len(q) + 1
      /\ \A n \in 1 .. i : r[n] = q[n]
      /\ r[i + 1] = m
      /\ \A n \in i + 2 .. Len(q) + 1 : r[n] = q[n - 1]
  <2>1. /\ r \in Seq(Message) /\ Len(r) = Len(q) + 1
        /\ \A n \in 1 .. Len(q) + 1 : r[n] = IF n <= i + 1 THEN front[n] ELSE high[n - (i + 1)]
    BY <1>3, <1>5, <1>6, ConcatProperties
  <2>2. \A n \in i + 2 .. Len(q) + 1 : high[n - (i + 1)] = q[n - 1]
    BY <1>3, <1>5
  <2> QED
    BY <1>3, <1>6, <2>1, <2>2
<1> HIDE DEF r
<1>9. i = Cardinality({n \in DOMAIN q : q[n].prio <= m.prio})
  BY DEF i
<1> QED
  BY <1>3, <1>7, <1>8, <1>9 DEF r

\* A queue grows by the message that is inserted.
LEMMA InsertProperties ==
    ASSUME NEW q \in Seq(Message), NEW m \in Message
    PROVE  /\ Insert(q, m) \in Seq(Message)
           /\ Len(Insert(q, m)) = Len(q) + 1
           /\ DOMAIN Insert(q, m) = 1 .. Len(q) + 1
           /\ \E n \in 1 .. Len(q) + 1 : Insert(q, m)[n] = m
           /\ \A k \in 1 .. Len(q) : \E n \in 1 .. Len(q) + 1 : Insert(q, m)[n] = q[k]
<1> DEFINE r == Insert(q, m)
<1>1. PICK i \in 0 .. Len(q) :
        /\ r \in Seq(Message) /\ Len(r) = Len(q) + 1
        /\ \A n \in 1 .. i : r[n] = q[n]
        /\ r[i + 1] = m
        /\ \A n \in i + 2 .. Len(q) + 1 : r[n] = q[n - 1]
  BY InsertShape
<1> HIDE DEF r
<1>2. ASSUME NEW k \in 1 .. Len(q) PROVE \E n \in 1 .. Len(q) + 1 : r[n] = q[k]
  <2>1. CASE k <= i
    <3>1. k \in 1 .. i /\ k \in 1 .. Len(q) + 1
      BY <2>1
    <3> QED
      BY <1>1, <3>1
  <2>2. CASE k > i
    <3>1. k + 1 \in i + 2 .. Len(q) + 1 /\ k + 1 \in 1 .. Len(q) + 1 /\ (k + 1) - 1 = k
      BY <2>2
    <3>2. r[k + 1] = q[(k + 1) - 1]
      BY <1>1, <3>1
    <3> QED
      BY <3>1, <3>2
  <2> QED
    BY <2>1, <2>2
<1>3. \E n \in 1 .. Len(q) + 1 : r[n] = m
  BY <1>1, i + 1 \in 1 .. Len(q) + 1
<1>4. DOMAIN r = 1 .. Len(q) + 1
  BY <1>1
<1> QED
  BY <1>1, <1>2, <1>3, <1>4 DEF r


(* Keys *)

\* c goes on from the deduplication, or from a wait, with message m.
Publishes(c, m) ==
    /\ at[c] \in {"idle", "lock", "gate", "put"}
    /\ lock \in {Nobody, c}
    /\ m.key \notin dedup
    /\ c \in Dispatchers => m.key = NoKey
    /\ msg' = [p \in Pubs |-> IF p = c THEN m ELSE msg[p]]

\* The order consists of users' calls.
LEMMA EnqueuedPubs ==
    ASSUME TypeOK
    PROVE  Enqueued \subseteq Pubs /\ \A i \in DOMAIN order : order[i] \in Enqueued
<1>1. order \in Seq(Pubs)
  BY DEF TypeOK
<1> QED
  BY <1>1 DEF Enqueued

\* A call that goes on with its message has not enqueued it.
LEMMA NotYet ==
    ASSUME Known, NEW c, NEW m, Publishes(c, m)
    PROVE  c \notin Enqueued
BY DEF Known, Publishes

\* Initially nothing is published.
LEMMA InitKeyInv == Init => KeyInv
<1> SUFFICES ASSUME Init PROVE KeyInv
  OBVIOUS
<1>1. TypeOK
  BY BusAssumption DEF Init, TypeOK, NoMsg, Message, Callers, Dispatchers, Classes
<1>2. Counted
  BY DispatcherParts DEF Init, Counted, Busy
<1>3. Excl /\ Fresh
  BY DEF Init, Excl, Fresh
<1>4. Known /\ KeyedOnce
  BY DEF Init, Known, KeyedOnce, Enqueued
<1> QED
  BY <1>1, <1>2, <1>3, <1>4 DEF KeyInv

\* The queues after a message is enqueued.
LEMMA EnqueueQueues ==
    ASSUME TypeOK, NEW c \in Callers, NEW m \in Message, Enqueue(c, m)
    PROVE  /\ m.shard \in Shards /\ ClassOf(m) \in Classes
           /\ queue' = [s \in Shards |-> [k \in Classes |->
                          IF s = m.shard /\ k = ClassOf(m) THEN Insert(queue[s][k], m)
                                                           ELSE queue[s][k]]]
           /\ unfinished' = [s \in Shards |-> [k \in Classes |->
                               IF s = m.shard /\ k = ClassOf(m) THEN unfinished[s][k] + 1
                                                                ELSE unfinished[s][k]]]
<1>1. m.shard \in Shards /\ ClassOf(m) \in Classes
  BY DEF Message, ClassOf, Classes
<1>2. /\ queue \in [Shards -> [Classes -> Seq(Message)]]
      /\ unfinished \in [Shards -> [Classes -> Nat]]
  BY DEF TypeOK
<1>3. /\ queue' = [queue EXCEPT ![m.shard] =
                     [queue[m.shard] EXCEPT ![ClassOf(m)] = Insert(queue[m.shard][ClassOf(m)], m)]]
      /\ unfinished' = [unfinished EXCEPT ![m.shard] =
                     [unfinished[m.shard] EXCEPT ![ClassOf(m)] = unfinished[m.shard][ClassOf(m)] + 1]]
  BY DEF Enqueue
<1>4. \A s \in Shards : /\ queue[s] = [k \in Classes |-> queue[s][k]]
                        /\ unfinished[s] = [k \in Classes |-> unfinished[s][k]]
  BY <1>2
<1> HIDE DEF Classes
<1>5. queue' = [s \in Shards |-> [k \in Classes |->
                  IF s = m.shard /\ k = ClassOf(m) THEN Insert(queue[s][k], m)
                                                   ELSE queue[s][k]]]
  BY <1>1, <1>2, <1>3, <1>4
<1>6. unfinished' = [s \in Shards |-> [k \in Classes |->
                       IF s = m.shard /\ k = ClassOf(m) THEN unfinished[s][k] + 1
                                                        ELSE unfinished[s][k]]]
  BY <1>1, <1>2, <1>3, <1>4
<1> QED
  BY <1>1, <1>5, <1>6

\* A message that fits enters its queue once, and its key the cache.
LEMMA EnqueueKeys ==
    ASSUME KeyInv, NEW c \in Callers, NEW m \in Message,
           Publishes(c, m), ~Full(m), Enqueue(c, m)
    PROVE  KeyInv'
<1> USE BusAssumption
<1>1. TypeOK /\ Excl /\ Counted /\ Fresh /\ Known /\ KeyedOnce
  BY DEF KeyInv
<1>2. \E there \in {"done", "persist", "submit"} :
          /\ at' = [at EXCEPT ![c] = there]
          /\ c \in Pubs => there # "submit"
          /\ there = "persist" => lock' = c
  BY DEF Enqueue, Return, Goto
<1>2a. /\ at' \in [Callers -> {"idle", "lock", "gate", "put", "persist", "done",
                               "get", "check", "submit", "bridge", "stopped"}]
       /\ at'[c] \in {"done", "persist", "submit"}
       /\ c \in Pubs => at'[c] \in {"done", "persist"}
       /\ \A b \in Callers : b # c => at'[b] = at[b]
       /\ at'[c] = "persist" => lock' = c
  BY <1>1, <1>2 DEF TypeOK
<1>2b. answer' \in [Pubs -> {"none", "true", "false", "duplicate"}] /\ lock' \in Callers \cup {Nobody}
  BY <1>1 DEF Enqueue, Return, TypeOK
<1>3. /\ dedup' = dedup \cup ({m.key} \ {NoKey})
      /\ order' = IF c \in Pubs THEN Append(order, c) ELSE order
      /\ forgotten' = forgotten
  BY DEF Enqueue, Remember
<1>4. TypeOK'
  <2>1. \A s \in Shards, k \in Classes :
            /\ Insert(queue[s][k], m) \in Seq(Message)
            /\ Len(Insert(queue[s][k], m)) = Len(queue[s][k]) + 1
    BY <1>1, QueueTypes, InsertProperties
  <2>2. /\ queue' \in [Shards -> [Classes -> Seq(Message)]]
        /\ \A s \in Shards, k \in Classes : Len(queue'[s][k]) <= MaxQueue
        /\ unfinished' \in [Shards -> [Classes -> Nat]]
    <3>1. Len(queue[m.shard][ClassOf(m)]) # MaxQueue
      BY DEF Full
    <3>2. queue' \in [Shards -> [Classes -> Seq(Message)]]
      <4>1. \A s \in Shards, k \in Classes : queue[s][k] \in Seq(Message)
        BY <1>1, QueueTypes
      <4>2. ASSUME NEW s \in Shards, NEW k \in Classes PROVE queue'[s][k] \in Seq(Message)
        <5>1. queue'[s][k] = Insert(queue[s][k], m) \/ queue'[s][k] = queue[s][k]
          BY <1>1, EnqueueQueues
        <5> QED
          BY <2>1, <4>1, <5>1
      <4>3. queue' = [s \in Shards |-> [k \in Classes |-> queue'[s][k]]]
        BY <1>1, EnqueueQueues
      <4> QED
        BY <4>2, <4>3
    <3>3. unfinished' \in [Shards -> [Classes -> Nat]]
      BY <1>1, QueueTypes, EnqueueQueues
    <3>4. ASSUME NEW s \in Shards, NEW k \in Classes PROVE Len(queue'[s][k]) <= MaxQueue
      <4>1. CASE s = m.shard /\ k = ClassOf(m)
        BY <1>1, <2>1, <3>1, <4>1, QueueTypes, EnqueueQueues
      <4>2. CASE ~(s = m.shard /\ k = ClassOf(m))
        BY <1>1, <4>2, QueueTypes, EnqueueQueues
      <4> QED
        BY <4>1, <4>2
    <3> QED
      BY <3>2, <3>3, <3>4
  <2>3. msg' \in [Pubs -> Message]
    BY <1>1 DEF Publishes, TypeOK
  <2>4. dedup' \subseteq Keys /\ forgotten' \subseteq Keys
    BY <1>1, <1>3 DEF TypeOK, Message
  <2>5. order' \in Seq(Pubs)
    BY <1>1, <1>3 DEF TypeOK
  <2>6. UNCHANGED <<dlq, hand, paused, phase, joined, dispatched, early>>
    BY DEF Enqueue, shutdown
  <2> QED
    BY <1>1, <1>2a, <1>2b, <2>2, <2>3, <2>4, <2>5, <2>6 DEF TypeOK
<1>5. Excl' /\ Fresh'
  <2>1. \A b \in Callers : b # c => at[b] \notin {"gate", "put", "persist"}
    BY <1>1 DEF Excl, Publishes
  <2> QED
    BY <1>2a, <2>1 DEF Excl, Fresh
<1>6. Counted'
  <2> SUFFICES ASSUME NEW d \in Dispatchers
               PROVE  /\ unfinished'[d[1]][d[2]] >= Len(queue'[d[1]][d[2]])
                      /\ Busy(d)' => unfinished'[d[1]][d[2]] > Len(queue'[d[1]][d[2]])
    BY DEF Counted
  <2> DEFINE s == d[1]
             k == d[2]
  <2>1. Busy(d)' => Busy(d)
    BY <1>2a, DispatcherParts DEF Busy, Publishes
  <2>2. s \in Shards /\ k \in Classes
    BY DispatcherParts
  <2>3. /\ unfinished[s][k] \in Nat /\ queue[s][k] \in Seq(Message)
        /\ unfinished[s][k] >= Len(queue[s][k])
        /\ Busy(d) => unfinished[s][k] > Len(queue[s][k])
    BY <1>1, <2>2, QueueTypes DEF Counted
  <2> HIDE DEF s, k
  <2>4. /\ Len(queue'[s][k]) = Len(queue[s][k]) /\ unfinished'[s][k] = unfinished[s][k]
        \/ /\ Len(queue'[s][k]) = Len(queue[s][k]) + 1
           /\ unfinished'[s][k] = unfinished[s][k] + 1
    <3>1. CASE s = m.shard /\ k = ClassOf(m)
      <4>1. queue'[s][k] = Insert(queue[s][k], m) /\ unfinished'[s][k] = unfinished[s][k] + 1
        BY <1>1, <2>2, <3>1, EnqueueQueues
      <4>2. Len(Insert(queue[s][k], m)) = Len(queue[s][k]) + 1
        BY <2>3, InsertProperties
      <4> QED
        BY <4>1, <4>2
    <3>2. CASE ~(s = m.shard /\ k = ClassOf(m))
      BY <1>1, <2>2, <3>2, EnqueueQueues
    <3> QED
      BY <3>1, <3>2
  <2>5. Len(queue[s][k]) \in Nat
    BY <2>3
  <2>6. /\ unfinished'[s][k] >= Len(queue'[s][k])
        /\ Busy(d)' => unfinished'[s][k] > Len(queue'[s][k])
    BY <2>1, <2>3, <2>4, <2>5
  <2> QED
    BY <2>6 DEF s, k
<1>7. Known' /\ KeyedOnce'
  <2>1. CASE c \notin Pubs
    <3>1. Enqueued' = Enqueued /\ order' = order /\ dedup \subseteq dedup'
          /\ \A p \in Pubs : msg'[p] = msg[p] /\ at'[p] = at[p]
      BY <1>2a, <1>3, <2>1 DEF Enqueued, Publishes, Callers
    <3>2. Enqueued \subseteq Pubs
      BY <1>1 DEF Enqueued, TypeOK
    <3>3. Known'
      BY <1>1, <1>3, <3>1, <3>2 DEF Known
    <3>4. KeyedOnce'
      BY <1>1, <1>3, <3>1, <3>2 DEF KeyedOnce, TypeOK
    <3> QED
      BY <3>3, <3>4
  <2>2. CASE c \in Pubs
    <3>1. c \notin Enqueued /\ Enqueued \subseteq Pubs
      BY <1>1, NotYet, EnqueuedPubs
    <3>2. /\ order \in Seq(Pubs) /\ order' = Append(order, c) /\ Len(order') = Len(order) + 1
          /\ \A i \in 1 .. Len(order) : order'[i] = order[i] /\ order[i] \in Enqueued
          /\ order'[Len(order) + 1] = c
      BY <1>1, <1>3, <2>2, AppendProperties DEF TypeOK, Enqueued
    <3>3. Enqueued' = Enqueued \cup {c}
      BY <3>2 DEF Enqueued
    <3>4. /\ msg'[c] = m
          /\ \A p \in Enqueued : msg'[p] = msg[p] /\ at'[p] = at[p]
      BY <1>2a, <2>2, <3>1 DEF Publishes, Callers
    <3>5. Known'
      BY <1>1, <1>2a, <1>3, <2>2, <3>3, <3>4 DEF Known
    <3>6. \A p \in Enqueued : msg[p].key = m.key /\ m.key # NoKey => m.key \in forgotten
      BY <1>1 DEF Known, Publishes
    <3>7. KeyedOnce'
      <4> SUFFICES ASSUME NEW i \in 1 .. Len(order) + 1, NEW j \in 1 .. Len(order) + 1,
                          msg'[order'[i]].key = msg'[order'[j]].key, i # j,
                          msg'[order'[i]].key # NoKey
                   PROVE  msg'[order'[i]].key \in forgotten
        BY <1>3, <3>2 DEF KeyedOnce
      <4>1. CASE i \in 1 .. Len(order) /\ j \in 1 .. Len(order)
        BY <1>1, <3>2, <3>4, <4>1 DEF KeyedOnce
      <4>2. CASE i = Len(order) + 1
        BY <3>2, <3>4, <3>6, <4>2
      <4>3. CASE j = Len(order) + 1
        BY <3>2, <3>4, <3>6, <4>3
      <4> QED
        BY <3>2, <4>1, <4>2, <4>3
    <3> QED
      BY <3>5, <3>7
  <2> QED
    BY <2>1, <2>2
<1> QED
  BY <1>4, <1>5, <1>6, <1>7 DEF KeyInv

\* A call that waits for its shard, or for a place, takes the lock along.
LEMMA WaitKeys ==
    ASSUME KeyInv, NEW c \in Callers, NEW m \in Message,
           Publishes(c, m), NEW here \in {"gate", "put"}, WaitAt(c, here)
    PROVE  KeyInv'
<1> USE BusAssumption
<1>1. TypeOK /\ Excl /\ Counted /\ Fresh /\ Known /\ KeyedOnce
  BY DEF KeyInv
<1>2. /\ at' = [at EXCEPT ![c] = here] /\ lock' = c
      /\ msg' \in [Pubs -> Message]
      /\ UNCHANGED <<answer, dlq, queue, unfinished, hand, paused, dedup, phase, joined,
                     order, dispatched, forgotten, early>>
  BY <1>1 DEF WaitAt, Goto, Publishes, TypeOK, queues, shutdown, history
<1>3. TypeOK'
  BY <1>1, <1>2 DEF TypeOK
<1>4. /\ at'[c] = here /\ \A b \in Callers : b # c => at'[b] = at[b]
      /\ \A b \in Callers : b # c => at[b] \notin {"gate", "put", "persist"}
  BY <1>1, <1>2 DEF TypeOK, Excl, Publishes
<1>5. Excl'
  BY <1>2, <1>4 DEF Excl
<1>6. Fresh'
  <2>1. Msg(c)'.key \notin dedup
    BY DEF Publishes, Msg, Callers
  <2> QED
    BY <1>2, <1>4, <2>1 DEF Fresh
<1>7. Counted'
  BY <1>1, <1>2, <1>4, DispatcherParts DEF Counted, Busy, Publishes
<1>8. Known' /\ KeyedOnce'
  <2>1. /\ c \notin Enqueued /\ Enqueued \subseteq Pubs
        /\ \A i \in DOMAIN order : order[i] \in Enqueued
    BY <1>1, NotYet, EnqueuedPubs
  <2>1a. Enqueued' = Enqueued
    BY <1>2 DEF Enqueued
  <2>2. \A p \in Enqueued : msg'[p] = msg[p] /\ at'[p] = at[p]
    BY <1>4, <2>1 DEF Publishes, Callers
  <2>3. Known'
    BY <1>1, <1>2, <2>1, <2>1a, <2>2 DEF Known
  <2>4. KeyedOnce'
    BY <1>1, <1>2, <2>1, <2>1a, <2>2 DEF KeyedOnce
  <2> QED
    BY <2>3, <2>4
<1> QED
  BY <1>3, <1>5, <1>6, <1>7, <1>8 DEF KeyInv

\* Past the deduplication a call waits or enqueues.
LEMMA GoKeys ==
    ASSUME KeyInv, NEW c \in Callers, NEW m \in Message, Publishes(c, m),
           GoGate(c, m) \/ GoPut(c, m) \/ (~Full(m) /\ Enqueue(c, m))
    PROVE  KeyInv'
<1>1. CASE WaitAt(c, "gate") \/ WaitAt(c, "put")
  BY <1>1, WaitKeys
<1>2. CASE ~Full(m) /\ Enqueue(c, m)
  BY <1>2, EnqueueKeys
<1> QED
  BY <1>1, <1>2 DEF GoGate, GoPut

\* A step of a caller that enqueues nothing and lets go of the lock, or that
\* is not about the lock, keeps the keys.
LEMMA QuietKeys ==
    ASSUME KeyInv, NEW c \in Callers, NEW there,
           at' = [at EXCEPT ![c] = there],
           at[c] \in {"get", "stopped"} => there \in {"get", "stopped"},
           there \notin {"gate", "put", "persist"},
           c \in Enqueued => there = "done",
           lock' = lock \/ (lock = c /\ lock' = Nobody),
           \A p \in Pubs : p # c => msg'[p] = msg[p],
           c \in Enqueued => msg'[c] = msg[c],
           UNCHANGED <<queue, unfinished, dedup, order, forgotten>>
    PROVE  Excl' /\ Counted' /\ Fresh' /\ Known' /\ KeyedOnce'
<1>1. TypeOK /\ Excl /\ Counted /\ Fresh /\ Known /\ KeyedOnce
  BY DEF KeyInv
<1>2. at'[c] = there /\ \A b \in Callers : b # c => at'[b] = at[b]
  BY <1>1 DEF TypeOK
<1>3. Excl'
  BY <1>1, <1>2 DEF Excl
<1>4. Fresh'
  BY <1>1, <1>2 DEF Fresh, Msg, Callers
<1>5. Counted'
  BY <1>1, <1>2, DispatcherParts DEF Counted, Busy
<1>6. /\ Enqueued' = Enqueued /\ Enqueued \subseteq Pubs
      /\ \A i \in DOMAIN order : order[i] \in Enqueued
  BY <1>1 DEF Enqueued, TypeOK
<1>7. \A p \in Enqueued : msg'[p] = msg[p] /\ (at'[p] = at[p] \/ at'[p] = "done")
  BY <1>2, <1>6 DEF Callers
<1>8. Known'
  BY <1>1, <1>6, <1>7 DEF Known
<1>9. KeyedOnce'
  BY <1>1, <1>6, <1>7 DEF KeyedOnce
<1> QED
  BY <1>3, <1>4, <1>5, <1>8, <1>9

\* A call that has waited goes on with its message.
LEMMA WaiterPublishes ==
    ASSUME KeyInv, NEW c \in Callers, Gate(c) \/ Put(c)
    PROVE  Msg(c) \in Message /\ Publishes(c, Msg(c))
<1>1. TypeOK /\ Excl /\ Fresh
  BY DEF KeyInv
<1>2. Msg(c) \in Message
  BY <1>1, BusAssumption DEF Msg, TypeOK, Message, Callers
<1>3. at[c] \in {"gate", "put"} /\ msg' = msg /\ lock = c /\ Msg(c).key \notin dedup
  BY <1>1 DEF Gate, Put, Excl, Fresh
<1>4. c \in Dispatchers => Msg(c).key = NoKey
  BY DispatcherParts DEF Msg
<1>5. msg' = [p \in Pubs |-> IF p = c THEN Msg(c) ELSE msg[p]]
  BY <1>1, <1>3 DEF TypeOK, Msg
<1> QED
  BY <1>2, <1>3, <1>4, <1>5 DEF Publishes

\* An event has no key: it is no duplicate.
LEMMA EventPublishes ==
    ASSUME KeyInv, NEW d \in Dispatchers, Event(d)
    PROVE  Msg(d) \in Message /\ Publishes(d, Msg(d)) /\ GoGate(d, Msg(d))
<1>1. TypeOK /\ d \in Callers /\ d \notin Pubs
  BY DispatcherParts DEF KeyInv
<1>2. Msg(d) \in Message /\ Msg(d).key = NoKey
  BY <1>1, BusAssumption DEF Msg, Message
<1> QED
  BY <1>1, <1>2, BusAssumption DEF Publishes, Event, TakeLock, TypeOK

\* Every step keeps the types and the keys.
LEMMA KeyStep == KeyInv /\ [Next]_vars => KeyInv'
<1> USE BusAssumption
<1> SUFFICES ASSUME KeyInv, [Next]_vars PROVE KeyInv'
  OBVIOUS
<1>1. TypeOK /\ Excl /\ Counted /\ Fresh /\ Known /\ KeyedOnce
  BY DEF KeyInv
<1> USE DEF publishing, queues, shutdown, history
<1>2. ASSUME NEW p \in Pubs, NEW k \in Kinds, Call(p, UserMsg(p, k)) PROVE KeyInv'
  <2> DEFINE m == UserMsg(p, k)
  <2>1. m \in Message /\ m.by = p /\ p \in Callers /\ p \notin Dispatchers
    BY DEF UserMsg, Message, Callers
  <2>2. /\ at[p] = "idle" /\ TakeLock(p, m) /\ msg' = [msg EXCEPT ![p] = m]
    BY <1>2 DEF Call
  <2>3. msg' = [b \in Pubs |-> IF b = p THEN m ELSE msg[b]]
    BY <1>1, <2>2 DEF TypeOK
  <2> HIDE DEF m
  <2>4. CASE m.key \notin dedup
    <3>1. Publishes(p, m) /\ GoGate(p, m)
      BY <2>1, <2>2, <2>3, <2>4 DEF Publishes, TakeLock
    <3> QED
      BY <2>1, <3>1, GoKeys
  <2>5. CASE m.key \in dedup
    <3>1. /\ at' = [at EXCEPT ![p] = "done"] /\ answer' = [answer EXCEPT ![p] = "duplicate"]
          /\ UNCHANGED <<lock, dlq, queues, dedup, shutdown, history>>
      BY <2>2, <2>5 DEF TakeLock, Return, Goto
    <3>2. TypeOK'
      BY <1>1, <2>1, <2>3, <3>1 DEF TypeOK
    <3>3. p \notin Enqueued
      BY <1>1, <2>2 DEF Known
    <3>4. Excl' /\ Counted' /\ Fresh' /\ Known' /\ KeyedOnce'
      BY <2>1, <2>2, <2>3, <3>1, <3>3, QuietKeys
    <3> QED
      BY <3>2, <3>4 DEF KeyInv
  <2> QED
    BY <2>4, <2>5
<1>3. ASSUME NEW c \in Callers, Publish(c) PROVE KeyInv'
  <2>1. CASE Gate(c) \/ Put(c)
    <3>1. Msg(c) \in Message /\ Publishes(c, Msg(c))
      BY <2>1, WaiterPublishes
    <3> QED
      BY <2>1, <3>1, GoKeys DEF Gate, Put
  <2>2. CASE Persist(c)
    <3>1. /\ at[c] = "persist" /\ lock' = Nobody
          /\ UNCHANGED <<msg, queues, dedup, shutdown, history>>
          /\ \E a \in {"true", "false"} : Return(c, a)
      BY <2>2 DEF Persist
    <3>2. /\ at' = [at EXCEPT ![c] = IF c \in Pubs THEN "done" ELSE "submit"]
          /\ lock = c /\ answer' \in [Pubs -> {"none", "true", "false", "duplicate"}]
      BY <1>1, <3>1 DEF Return, Goto, Excl, TypeOK
    <3>3. dlq' \subseteq Callers
      BY <1>1, <2>2 DEF Persist, TypeOK
    <3>4. TypeOK'
      BY <1>1, <3>1, <3>2, <3>3 DEF TypeOK
    <3>5. c \in Enqueued => c \in Pubs
      BY <1>1, EnqueuedPubs
    <3>6. Excl' /\ Counted' /\ Fresh' /\ Known' /\ KeyedOnce'
      BY <3>1, <3>2, <3>5, QuietKeys
    <3> QED
      BY <3>4, <3>6 DEF KeyInv
  <2> QED
    BY <1>3, <2>1, <2>2 DEF Publish
<1>4. ASSUME NEW d \in Dispatchers, Dispatch(d) PROVE KeyInv'
  <2>1. /\ d[1] \in Shards /\ d[2] \in Classes /\ d \in Callers /\ d \notin Pubs
        /\ d \notin Enqueued
    BY <1>1, DispatcherParts, EnqueuedPubs
  <2>2. CASE Event(d)
    <3>1. Msg(d) \in Message /\ Publishes(d, Msg(d)) /\ GoGate(d, Msg(d))
      BY <2>2, EventPublishes
    <3> QED
      BY <2>1, <3>1, GoKeys
  <2>3. CASE Refuse(d)
    <3>1. /\ at[d] = "lock" /\ at' = [at EXCEPT ![d] = "submit"]
          /\ UNCHANGED <<lock, msg, answer, dlq, queues, dedup, shutdown, history>>
      BY <2>1, <2>3 DEF Refuse, Return, Goto
    <3>2. TypeOK'
      BY <1>1, <3>1 DEF TypeOK
    <3> QED
      BY <2>1, <3>1, <3>2, QuietKeys DEF KeyInv
  <2>4. CASE Check(d)
    <3>1. /\ at[d] = "check" /\ \E there \in {"submit", "lock"} : at' = [at EXCEPT ![d] = there]
          /\ paused' = [paused EXCEPT ![d[1]] = Over(d[1])] /\ Over(d[1]) \in BOOLEAN
          /\ UNCHANGED <<lock, msg, answer, dlq, queue, unfinished, hand, dedup, shutdown, history>>
      BY <2>4 DEF Check, Goto, Over
    <3>1a. paused' \in [Shards -> BOOLEAN]
      BY <1>1, <3>1 DEF TypeOK
    <3>2. /\ at' \in [Callers -> {"idle", "lock", "gate", "put", "persist", "done",
                                   "get", "check", "submit", "bridge", "stopped"}]
      BY <1>1, <3>1 DEF TypeOK
    <3>3. TypeOK'
      BY <1>1, <3>1, <3>1a, <3>2 DEF TypeOK
    <3> QED
      BY <2>1, <3>1, <3>3, QuietKeys DEF KeyInv
  <2>5. CASE Submit(d)
    <3>1. /\ at[d] = "submit" /\ at' = [at EXCEPT ![d] = "bridge"] /\ dispatched' \in Seq(Pubs)
          /\ UNCHANGED <<lock, msg, answer, dlq, queues, dedup, shutdown, order, forgotten, early>>
      BY <1>1, <2>5 DEF Submit, Goto, TypeOK
    <3>2. TypeOK'
      BY <1>1, <3>1 DEF TypeOK
    <3> QED
      BY <2>1, <3>1, <3>2, QuietKeys DEF KeyInv
  <2> DEFINE s == d[1]
             k == d[2]
  <2>6. /\ queue[s][k] \in Seq(Message) /\ Len(queue[s][k]) \in 0 .. MaxQueue
        /\ unfinished[s][k] \in Nat /\ unfinished[s][k] >= Len(queue[s][k])
        /\ Busy(d) => unfinished[s][k] > Len(queue[s][k])
    BY <1>1, <2>1, QueueTypes DEF Counted
  <2>6a. /\ s \in Shards /\ k \in Classes
         /\ \A e \in Dispatchers : e # d => ~(e[1] = s /\ e[2] = k)
    BY <2>1, DispatcherParts
  <2>7. CASE Get(d)
    <3>1. /\ at[d] = "get" /\ at' = [at EXCEPT ![d] = "check"] /\ queue[s][k] # <<>>
          /\ hand' = [hand EXCEPT ![d] = Head(queue[s][k])]
          /\ queue' = [queue EXCEPT ![s][k] = Tail(queue[s][k])]
          /\ UNCHANGED <<lock, msg, answer, dlq, unfinished, paused, dedup, shutdown, history>>
      BY <2>7 DEF Get, Goto
    <3>2. /\ Head(queue[s][k]) \in Message /\ Tail(queue[s][k]) \in Seq(Message)
          /\ Len(Tail(queue[s][k])) = Len(queue[s][k]) - 1
      BY <2>6, <3>1, HeadTailProperties
    <3>3. /\ queue'[s][k] = Tail(queue[s][k])
          /\ \A t \in Shards, l \in Classes : ~(t = s /\ l = k) => queue'[t][l] = queue[t][l]
          /\ queue' \in [Shards -> [Classes -> Seq(Message)]]
      BY <1>1, <2>1, <3>1, <3>2 DEF TypeOK
    <3>4. ASSUME NEW t \in Shards, NEW l \in Classes PROVE Len(queue'[t][l]) <= MaxQueue
      <4>1. CASE t = s /\ l = k
        <5>1. Len(queue'[t][l]) = Len(queue[s][k]) - 1
          BY <3>2, <3>3, <4>1
        <5> QED
          BY <2>6, <5>1
      <4>2. CASE ~(t = s /\ l = k)
        BY <1>1, <3>3, <4>2 DEF TypeOK
      <4> QED
        BY <4>1, <4>2
    <3>5. TypeOK'
      <4>1. hand' \in [Dispatchers -> Message]
        BY <1>1, <3>1, <3>2 DEF TypeOK
      <4> QED
        BY <1>1, <3>1, <3>3, <3>4, <4>1 DEF TypeOK
    <3>6. ASSUME NEW e \in Dispatchers, e # d
          PROVE  at'[e] = at[e] /\ queue'[e[1]][e[2]] = queue[e[1]][e[2]]
      <4>1. e[1] \in Shards /\ e[2] \in Classes /\ e \in Callers
        BY DispatcherParts
      <4>2. at'[e] = at[e]
        BY <1>1, <3>1, <3>6, <4>1 DEF TypeOK
      <4> QED
        BY <2>6a, <3>3, <3>6, <4>1, <4>2
    <3>7. Counted'
      <4>1. /\ unfinished'[s][k] >= Len(queue'[s][k])
            /\ unfinished'[s][k] > Len(queue'[s][k])
        BY <2>6, <3>1, <3>2, <3>3
      <4>2. \A e \in Dispatchers : e # d => /\ unfinished'[e[1]][e[2]] = unfinished[e[1]][e[2]]
                                            /\ Busy(e)' = Busy(e)
        BY <3>1, <3>6 DEF Busy
      <4> QED
        BY <1>1, <3>6, <4>1, <4>2 DEF Counted
    <3>8. \A b \in Callers : at'[b] \in {"gate", "put", "persist", "done"} => at'[b] = at[b]
      BY <1>1, <3>1 DEF TypeOK
    <3>9. \A b \in Pubs : at'[b] = at[b]
      BY <1>1, <2>1, <3>1 DEF TypeOK, Callers
    <3>10. Excl' /\ Fresh'
      BY <1>1, <3>1, <3>8 DEF Excl, Fresh, Msg
    <3>11. Known' /\ KeyedOnce'
      BY <1>1, <3>1, <3>9, EnqueuedPubs DEF Known, KeyedOnce, Enqueued
    <3> QED
      BY <3>5, <3>7, <3>10, <3>11 DEF KeyInv
  <2>8. CASE Done(d) \/ TimeOut(d) \/ Die(d)
    <3>1. /\ at[d] = "bridge" /\ \E there \in {"get", "stopped"} : at' = [at EXCEPT ![d] = there]
          /\ hand' = [hand EXCEPT ![d] = NoMsg]
          /\ unfinished' \in {unfinished, [unfinished EXCEPT ![s][k] = unfinished[s][k] - 1]}
          /\ UNCHANGED <<lock, msg, answer, dlq, queue, paused, dedup, shutdown, history>>
      BY <2>8 DEF Done, TimeOut, Die, Raises, Leave, Onward, Goto
    <3>2. unfinished[s][k] - 1 \in Nat /\ unfinished[s][k] - 1 >= Len(queue[s][k])
      <4>1. unfinished[s][k] > Len(queue[s][k])
        BY <2>6, <3>1 DEF Busy
      <4> QED
        BY <2>6, <4>1
    <3>3. /\ unfinished'[s][k] \in {unfinished[s][k], unfinished[s][k] - 1}
          /\ \A t \in Shards, l \in Classes : ~(t = s /\ l = k) => unfinished'[t][l] = unfinished[t][l]
          /\ unfinished' \in [Shards -> [Classes -> Nat]]
      <4>1. unfinished \in [Shards -> [Classes -> Nat]]
        BY <1>1 DEF TypeOK
      <4>2. CASE unfinished' = unfinished
        BY <2>6a, <4>1, <4>2
      <4>3. CASE unfinished' = [unfinished EXCEPT ![s][k] = unfinished[s][k] - 1]
        BY <2>6a, <3>2, <4>1, <4>3
      <4> QED
        BY <3>1, <4>2, <4>3
    <3>4. NoMsg \in Message
      BY DEF NoMsg, Message
    <3>5. TypeOK'
      <4>1. hand' \in [Dispatchers -> Message]
        BY <1>1, <3>1, <3>4 DEF TypeOK
      <4>2. at' \in [Callers -> {"idle", "lock", "gate", "put", "persist", "done",
                                 "get", "check", "submit", "bridge", "stopped"}]
        BY <1>1, <3>1 DEF TypeOK
      <4> QED
        BY <1>1, <3>1, <3>3, <4>1, <4>2 DEF TypeOK
    <3>6. /\ at'[d] \in {"get", "stopped"}
          /\ \A e \in Callers : e # d => at'[e] = at[e]
      BY <1>1, <2>1, <3>1 DEF TypeOK
    <3>7. Counted'
      <4>1. unfinished'[s][k] >= Len(queue'[s][k]) /\ ~Busy(d)'
        BY <2>6, <3>1, <3>2, <3>3, <3>6 DEF Busy
      <4>2. ASSUME NEW e \in Dispatchers, e # d
            PROVE  unfinished'[e[1]][e[2]] = unfinished[e[1]][e[2]] /\ Busy(e)' = Busy(e)
        <5>1. e[1] \in Shards /\ e[2] \in Classes /\ e \in Callers
          BY DispatcherParts
        <5> QED
          BY <2>6a, <3>3, <3>6, <4>2, <5>1 DEF Busy
      <4> QED
        BY <1>1, <3>1, <4>1, <4>2 DEF Counted
    <3>8. \A b \in Callers : at'[b] \in {"gate", "put", "persist", "done"} => at'[b] = at[b]
      BY <1>1, <3>1 DEF TypeOK
    <3>9. \A b \in Pubs : at'[b] = at[b]
      BY <1>1, <2>1, <3>1 DEF TypeOK, Callers
    <3>10. Excl' /\ Fresh'
      BY <1>1, <3>1, <3>8 DEF Excl, Fresh, Msg
    <3>11. Known' /\ KeyedOnce'
      BY <1>1, <3>1, <3>9, EnqueuedPubs DEF Known, KeyedOnce, Enqueued
    <3> QED
      BY <3>5, <3>7, <3>10, <3>11 DEF KeyInv
  <2> QED
    BY <1>4, <2>2, <2>3, <2>4, <2>5, <2>7, <2>8 DEF Dispatch
<1>5. ASSUME NEW k \in Keys, Forget(k) PROVE KeyInv'
  <2>1. TypeOK'
    BY <1>1, <1>5 DEF Forget, TypeOK
  <2>2. Excl' /\ Counted' /\ Fresh'
    BY <1>1, <1>5 DEF Forget, Excl, Counted, Busy, Fresh, Msg
  <2>3. Known' /\ KeyedOnce'
    BY <1>1, <1>5 DEF Forget, Known, KeyedOnce, Enqueued
  <2> QED
    BY <2>1, <2>2, <2>3 DEF KeyInv
<1>6. CASE Shutdown
  <2>1. CASE Stop \/ \E s \in Shards, k \in Classes : Join(s, k)
    <3>1. /\ UNCHANGED <<publishing, queues, dedup, history>>
          /\ phase' \in {"stopping", phase}
          /\ \/ joined' = joined
             \/ \E s \in Shards, k \in Classes : joined' = joined \cup {<<s, k>>}
      BY <2>1 DEF Stop, Join
    <3>1a. phase' \in {"up", "stopping", "joining"} /\ joined' \subseteq Dispatchers
      BY <1>1, <3>1 DEF TypeOK, Dispatchers
    <3>2. TypeOK'
      BY <1>1, <3>1, <3>1a DEF TypeOK
    <3> QED
      BY <1>1, <3>1, <3>2 DEF KeyInv, Excl, Counted, Busy, Fresh, Msg, Known, KeyedOnce, Enqueued
  <2>2. CASE CancelDispatchers
    <3>1. /\ at' = [c \in Callers |-> IF c \in Pubs THEN at[c] ELSE "stopped"]
          /\ hand' = [d \in Dispatchers |-> NoMsg]
          /\ lock' = IF lock \in Dispatchers THEN Nobody ELSE lock
          /\ early' = Enqueued /\ phase' = "joining"
          /\ UNCHANGED <<msg, answer, dlq, queue, unfinished, paused, dedup, joined,
                         order, dispatched, forgotten>>
      BY <2>2 DEF CancelDispatchers, Dropping, Enqueued
    <3>2. NoMsg \in Message /\ Enqueued \subseteq Pubs
      BY <1>1, EnqueuedPubs DEF NoMsg, Message
    <3>3. TypeOK'
      BY <1>1, <3>1, <3>2 DEF TypeOK, Callers
    <3>4. /\ \A p \in Pubs : at'[p] = at[p]
          /\ \A d \in Dispatchers : at'[d] = "stopped"
      BY <3>1, DispatcherParts DEF Callers
    <3>5. Excl' /\ Fresh'
      BY <1>1, <3>1, <3>4 DEF Excl, Fresh, Msg, Callers
    <3>6. Counted'
      BY <1>1, <3>1, <3>4 DEF Counted, Busy
    <3>7. Known' /\ KeyedOnce'
      BY <1>1, <3>1, <3>2, <3>4 DEF Known, KeyedOnce, Enqueued
    <3> QED
      BY <3>3, <3>5, <3>6, <3>7 DEF KeyInv
  <2> QED
    BY <1>6, <2>1, <2>2 DEF Shutdown
<1>7. CASE UNCHANGED vars
  BY <1>1, <1>7 DEF KeyInv, vars, TypeOK, Excl, Counted, Busy, Fresh, Msg, Known, KeyedOnce, Enqueued
<1> QED
  BY <1>2, <1>3, <1>4, <1>5, <1>6, <1>7 DEF Next

\* The types, and one message per key, for any instance.
THEOREM KeysSafe == Spec => [](TypeOK /\ KeyedOnce)
<1>1. KeyInv => TypeOK /\ KeyedOnce
  BY DEF KeyInv
<1> QED
  BY <1>1, InitKeyInv, KeyStep, PTL DEF Spec

\* The types: queues, hands, the place of every caller.
THEOREM TypeCorrect == Spec => []TypeOK
<1> QED
  BY KeysSafe, PTL


(* Messages *)

\* Messages that are in a queue, dispatched or in the hands of a dispatcher.
Carried == Queued \cup Handled \cup {hand[d].by : d \in Dispatchers}

\* Initially nobody has a message.
LEMMA InitKeptInv == Init => KeptInv
<1> SUFFICES ASSUME Init PROVE KeptInv
  OBVIOUS
<1>1. Enqueued = {}
  BY DEF Init, Enqueued
<1>2. Own /\ Answers /\ NothingLost
  BY <1>1 DEF Init, Own, Answers, NothingLost, Callers
<1>3. Hands
  BY DispatcherParts DEF Init, Hands
<1> QED
  BY <1>2, <1>3 DEF KeptInv

\* An enqueued message is queued, and those that were still are.
LEMMA EnqueueCarries ==
    ASSUME TypeOK, NEW c \in Callers, NEW m \in Message, Enqueue(c, m)
    PROVE  Carried \subseteq Carried' /\ (m.by \in Pubs => m.by \in Carried')
<1>1. UNCHANGED <<hand, dispatched>>
  BY DEF Enqueue
<1>2. /\ \A s \in Shards, k \in Classes : queue[s][k] \in Seq(Message)
      /\ m.shard \in Shards /\ ClassOf(m) \in Classes
      /\ \A s \in Shards, k \in Classes :
            queue'[s][k] = IF s = m.shard /\ k = ClassOf(m) THEN Insert(queue[s][k], m)
                                                            ELSE queue[s][k]
  BY QueueTypes, EnqueueQueues
<1>3. ASSUME NEW p \in Queued PROVE p \in Queued'
  <2>1. PICK s \in Shards, k \in Classes : \E i \in DOMAIN queue[s][k] : queue[s][k][i].by = p
    BY <1>3 DEF Queued
  <2>2. \E i \in DOMAIN queue'[s][k] : queue'[s][k][i].by = p
    <3>1. CASE s = m.shard /\ k = ClassOf(m)
      <4>1. PICK i \in 1 .. Len(queue[s][k]) : queue[s][k][i].by = p
        BY <1>2, <2>1
      <4>2. queue[s][k] \in Seq(Message)
        BY <1>2
      <4>2a. \A j \in 1 .. Len(queue[s][k]) : \E n \in 1 .. Len(queue[s][k]) + 1 :
                 Insert(queue[s][k], m)[n] = queue[s][k][j]
        BY <4>2, InsertProperties
      <4>3. DOMAIN Insert(queue[s][k], m) = 1 .. Len(queue[s][k]) + 1
        BY <4>2, InsertProperties
      <4> QED
        <5>1. queue'[s][k] = Insert(queue[s][k], m)
          BY <1>2, <3>1
        <5>2. PICK n \in 1 .. Len(queue[s][k]) + 1 : Insert(queue[s][k], m)[n] = queue[s][k][i]
          BY <4>1, <4>2a
        <5> QED
          BY <4>1, <4>3, <5>1, <5>2
    <3>2. CASE ~(s = m.shard /\ k = ClassOf(m))
      BY <1>2, <2>1, <3>2
    <3> QED
      BY <3>1, <3>2
  <2> QED
    BY <2>2 DEF Queued
<1>4. ASSUME m.by \in Pubs PROVE m.by \in Queued'
  <2> DEFINE q == queue[m.shard][ClassOf(m)]
  <2>1. /\ \E n \in 1 .. Len(q) + 1 : Insert(q, m)[n] = m
        /\ DOMAIN Insert(q, m) = 1 .. Len(q) + 1
    <3>1. q \in Seq(Message)
      BY <1>2
    <3> HIDE DEF q
    <3> QED
      BY <3>1, InsertProperties
  <2>2. \E i \in DOMAIN queue'[m.shard][ClassOf(m)] : queue'[m.shard][ClassOf(m)][i].by = m.by
    BY <1>2, <2>1
  <2> QED
    BY <1>2, <1>4, <2>2 DEF Queued
<1> QED
  BY <1>1, <1>3, <1>4 DEF Carried, Handled

\* The message a dispatcher takes leaves its queue for the dispatcher's hands.
LEMMA GetCarries ==
    ASSUME TypeOK, NEW d \in Dispatchers, Get(d), hand[d] = NoMsg
    PROVE  Carried \cap Pubs \subseteq Carried'
<1> DEFINE s == d[1]
           k == d[2]
<1>1. /\ s \in Shards /\ k \in Classes /\ queue[s][k] \in Seq(Message) /\ queue[s][k] # <<>>
      /\ queue \in [Shards -> [Classes -> Seq(Message)]]
      /\ hand \in [Dispatchers -> Message]
  BY DispatcherParts, QueueTypes DEF Get, TypeOK
<1>2. /\ hand' = [hand EXCEPT ![d] = Head(queue[s][k])]
      /\ queue' = [queue EXCEPT ![s][k] = Tail(queue[s][k])]
      /\ dispatched' = dispatched
  BY DEF Get, history
<1> HIDE DEF s, k
<1>3. /\ hand'[d] = Head(queue[s][k])
      /\ \A e \in Dispatchers : e # d => hand'[e] = hand[e]
      /\ queue'[s][k] = Tail(queue[s][k])
      /\ \A t \in Shards, l \in Classes : ~(t = s /\ l = k) => queue'[t][l] = queue[t][l]
  BY <1>1, <1>2
<1>4. ASSUME NEW p \in Queued PROVE p \in Carried'
  <2>1. PICK t \in Shards, l \in Classes : \E i \in DOMAIN queue[t][l] : queue[t][l][i].by = p
    BY <1>4 DEF Queued
  <2>2. CASE ~(t = s /\ l = k)
    <3>1. \E i \in DOMAIN queue'[t][l] : queue'[t][l][i].by = p
      BY <1>3, <2>1, <2>2
    <3> QED
      BY <3>1 DEF Queued, Carried
  <2>3. CASE t = s /\ l = k
    <3>1. PICK i \in 1 .. Len(queue[s][k]) : queue[s][k][i].by = p
      BY <1>1, <2>1, <2>3
    <3>2. /\ Len(Tail(queue[s][k])) = Len(queue[s][k]) - 1
          /\ Tail(queue[s][k]) \in Seq(Message)
          /\ \A n \in 1 .. Len(Tail(queue[s][k])) : Tail(queue[s][k])[n] = queue[s][k][n + 1]
      BY <1>1, HeadTailProperties
    <3>3. CASE i = 1
      <4>1. hand'[d].by = p
        BY <1>1, <1>3, <3>1, <3>3
      <4> QED
        BY <4>1 DEF Carried
    <3>4. CASE i # 1
      <4>1. i - 1 \in 1 .. Len(Tail(queue[s][k])) /\ Tail(queue[s][k])[i - 1].by = p
        BY <1>1, <3>1, <3>2, <3>4
      <4>2. DOMAIN Tail(queue[s][k]) = 1 .. Len(Tail(queue[s][k]))
        BY <3>2
      <4>3. \E n \in DOMAIN queue'[s][k] : queue'[s][k][n].by = p
        BY <1>3, <4>1, <4>2
      <4> QED
        BY <1>1, <1>4, <4>3 DEF Queued, Carried
    <3> QED
      BY <3>3, <3>4
  <2> QED
    BY <2>2, <2>3
<1>5. ASSUME NEW e \in Dispatchers, hand[e].by \in Pubs PROVE hand[e].by \in Carried'
  <2>1. e # d
    BY <1>5, BusAssumption DEF NoMsg, Callers
  <2> QED
    BY <1>3, <2>1 DEF Carried
<1>6. Handled \subseteq Carried'
  BY <1>2 DEF Carried, Handled
<1> QED
  BY <1>4, <1>5, <1>6 DEF Carried

\* A message that goes to the subscribers has been handled.
LEMMA SubmitCarries ==
    ASSUME TypeOK, NEW d \in Dispatchers, Submit(d)
    PROVE  /\ Carried \subseteq Carried' /\ Handled \subseteq Handled'
           /\ hand[d].by \in Pubs => hand[d].by \in Handled'
<1>1. UNCHANGED <<queue, hand>> /\ dispatched \in Seq(Pubs)
  BY DEF Submit, queues, TypeOK
<1>2. dispatched' = IF hand[d].by \in Pubs THEN Append(dispatched, hand[d].by) ELSE dispatched
  BY DEF Submit
<1>3. CASE hand[d].by \notin Pubs
  BY <1>1, <1>2, <1>3 DEF Carried, Queued, Handled
<1>4. CASE hand[d].by \in Pubs
  <2>1. /\ Len(dispatched') = Len(dispatched) + 1 /\ dispatched' \in Seq(Pubs)
        /\ \A i \in 1 .. Len(dispatched) : dispatched'[i] = dispatched[i]
        /\ dispatched'[Len(dispatched) + 1] = hand[d].by
    BY <1>1, <1>2, <1>4, AppendProperties
  <2>2. Handled \subseteq Handled'
    BY <1>1, <2>1 DEF Handled
  <2>3. hand[d].by \in Handled'
    BY <1>1, <2>1 DEF Handled
  <2> QED
    BY <1>1, <2>2, <2>3 DEF Carried, Queued
<1> QED
  BY <1>3, <1>4

\* A call that goes on with its own message and enqueues it accounts for it.
LEMMA EnqueueKept ==
    ASSUME KeyInv, KeyInv', KeptInv, NEW c \in Callers, NEW m \in Message,
           Publishes(c, m), c \in Pubs => m.by = c, Enqueue(c, m)
    PROVE  KeptInv'
<1> USE BusAssumption
<1>1. /\ TypeOK /\ Own /\ Answers /\ Hands /\ NothingLost /\ Excl /\ Known
  BY DEF KeyInv, KeptInv
<1>2. /\ UNCHANGED <<hand, dispatched, dlq, phase>>
      /\ order' = IF c \in Pubs THEN Append(order, c) ELSE order
  BY DEF Enqueue, shutdown
<1>3. \E there \in {"persist", "done", "submit"} :
          /\ at' = [at EXCEPT ![c] = there]
          /\ \/ there = "persist" /\ answer' = answer
             \/ there = "done" /\ c \in Pubs /\ answer' = [answer EXCEPT ![c] = "true"]
             \/ there = "submit" /\ c \notin Pubs /\ answer' = answer
  BY DEF Enqueue, Return, Goto
<1>4. /\ at'[c] \in {"persist", "done", "submit"}
      /\ \A b \in Callers : b # c => at'[b] = at[b]
      /\ \A p \in Pubs : p # c => answer'[p] = answer[p]
      /\ c \in Pubs => \/ at'[c] = "persist" /\ answer'[c] = answer[c]
                       \/ at'[c] = "done" /\ answer'[c] = "true"
  BY <1>1, <1>3 DEF TypeOK
<1>5. /\ Enqueued' = IF c \in Pubs THEN Enqueued \cup {c} ELSE Enqueued
  <2>1. CASE c \notin Pubs
    BY <1>2, <2>1 DEF Enqueued
  <2>2. CASE c \in Pubs
    <3>1. /\ order \in Seq(Pubs) /\ Len(order') = Len(order) + 1 /\ order' \in Seq(Pubs)
          /\ \A i \in 1 .. Len(order) : order'[i] = order[i]
          /\ order'[Len(order) + 1] = c
      BY <1>1, <1>2, <2>2, AppendProperties DEF TypeOK
    <3> QED
      BY <2>2, <3>1 DEF Enqueued
  <2> QED
    BY <2>1, <2>2
<1>6. Own'
  BY <1>1, <1>4 DEF Own, Publishes, Callers
<1>7. c \in Pubs => answer[c] = "none"
  BY <1>1 DEF Answers, Publishes
<1>8. Answers'
  BY <1>1, <1>4, <1>5, <1>7 DEF Answers, Callers
<1>9. Hands'
  BY <1>1, <1>2, <1>4, DispatcherParts DEF Hands, Handled
<1>10. NothingLost'
  <2>1. Carried \subseteq Carried' /\ (c \in Pubs => c \in Carried')
    BY <1>1, EnqueueCarries
  <2>2. \A p \in Pubs : answer'[p] = "true" => p \in Enqueued'
    BY <1>1, <1>4, <1>5 DEF NothingLost
  <2>3. phase' # "joining" => Enqueued' \subseteq Carried'
    BY <1>1, <1>2, <1>5, <2>1 DEF NothingLost, Carried
  <2>4. \A p \in Enqueued' : answer'[p] = "false" => p \in dlq'
    <3>1. Enqueued \subseteq Pubs
      BY <1>1, EnqueuedPubs
    <3> QED
      BY <1>1, <1>2, <1>4, <1>5, <1>7, <3>1 DEF NothingLost
  <2> QED
    BY <2>2, <2>3, <2>4 DEF NothingLost, Carried
<1> QED
  BY <1>6, <1>8, <1>9, <1>10 DEF KeptInv

\* A call that waits does so with its own message.
LEMMA WaitKept ==
    ASSUME KeyInv, KeptInv, NEW c \in Callers, NEW m \in Message,
           Publishes(c, m), c \in Pubs => m.by = c, NEW here \in {"gate", "put"}, WaitAt(c, here)
    PROVE  KeptInv'
<1> USE BusAssumption
<1>1. TypeOK /\ Own /\ Answers /\ Hands /\ NothingLost
  BY DEF KeyInv, KeptInv
<1>2. /\ at' = [at EXCEPT ![c] = here]
      /\ UNCHANGED <<answer, dlq, queue, hand, phase, order, dispatched>>
  BY DEF WaitAt, Goto, queues, shutdown, history
<1>3. at'[c] = here /\ \A b \in Callers : b # c => at'[b] = at[b]
  BY <1>1, <1>2 DEF TypeOK
<1>4. Own'
  BY <1>1, <1>3 DEF Own, Publishes, Callers
<1>5. Answers'
  BY <1>1, <1>2, <1>3 DEF Answers, Publishes, Enqueued, Callers
<1>6. Hands'
  BY <1>1, <1>2, <1>3, DispatcherParts DEF Hands, Handled
<1>7. NothingLost'
  BY <1>1, <1>2 DEF NothingLost, Enqueued, Queued, Handled
<1> QED
  BY <1>4, <1>5, <1>6, <1>7 DEF KeptInv

LEMMA GoKept ==
    ASSUME KeyInv, KeyInv', KeptInv, NEW c \in Callers, NEW m \in Message,
           Publishes(c, m), c \in Pubs => m.by = c,
           GoGate(c, m) \/ GoPut(c, m) \/ Enqueue(c, m)
    PROVE  KeptInv'
<1>1. CASE WaitAt(c, "gate") \/ WaitAt(c, "put")
  BY <1>1, WaitKept
<1>2. CASE Enqueue(c, m)
  BY <1>2, EnqueueKept
<1> QED
  BY <1>1, <1>2 DEF GoGate, GoPut

\* A step that enqueues nothing and takes nothing out of a queue.
LEMMA QuietKept ==
    ASSUME TypeOK, KeptInv, NEW c \in Callers, NEW there,
           at' = [at EXCEPT ![c] = there], there \notin {"gate", "put", "persist", "get", "stopped", "bridge"},
           UNCHANGED <<queue, hand, dispatched, order, phase>>,
           dlq \subseteq dlq',
           \A p \in Pubs : p # c => answer'[p] = answer[p],
           c \in Pubs => /\ there = "done"
                         /\ answer'[c] = "true" => c \in Enqueued
                         /\ answer'[c] = "false" => c \in dlq',
           \A p \in Pubs : p # c => msg'[p] = msg[p]
    PROVE  KeptInv'
<1>1. Own /\ Answers /\ Hands /\ NothingLost
  BY DEF KeptInv
<1>2. at'[c] = there /\ \A b \in Callers : b # c => at'[b] = at[b]
  BY DEF TypeOK
<1>3. Own'
  BY <1>1, <1>2 DEF Own, Callers
<1>4. Answers'
  BY <1>1, <1>2 DEF Answers, Callers, Enqueued
<1>5. Hands'
  BY <1>1, <1>2, DispatcherParts DEF Hands, Handled
<1>6. Enqueued' = Enqueued /\ Enqueued \subseteq Pubs /\ Carried' = Carried
  BY EnqueuedPubs DEF Enqueued, Carried, Queued, Handled
<1>7. NothingLost'
  <2>1. \A p \in Pubs : answer'[p] = "true" => p \in Enqueued'
    BY <1>1, <1>6 DEF NothingLost
  <2>2. phase' # "joining" => Enqueued' \subseteq Carried'
    BY <1>1, <1>6 DEF NothingLost, Carried
  <2>3. \A p \in Enqueued' : answer'[p] = "false" => p \in dlq'
    BY <1>1, <1>6 DEF NothingLost
  <2> QED
    BY <2>1, <2>2, <2>3 DEF NothingLost, Carried
<1> QED
  BY <1>3, <1>4, <1>5, <1>7 DEF KeptInv

\* Every step accounts for the messages.
LEMMA KeptStep == KeyInv /\ KeyInv' /\ KeptInv /\ [Next]_vars => KeptInv'
<1> USE BusAssumption
<1> SUFFICES ASSUME KeyInv, KeyInv', KeptInv, [Next]_vars PROVE KeptInv'
  OBVIOUS
<1>1. TypeOK /\ Known /\ Own /\ Answers /\ Hands /\ NothingLost
  BY DEF KeyInv, KeptInv
<1> USE DEF publishing, queues, shutdown, history
<1>2. ASSUME NEW p \in Pubs, NEW k \in Kinds, Call(p, UserMsg(p, k)) PROVE KeptInv'
  <2> DEFINE m == UserMsg(p, k)
  <2>1. m \in Message /\ m.by = p /\ p \in Callers /\ p \notin Dispatchers
    BY DEF UserMsg, Message, Callers
  <2>2. /\ at[p] = "idle" /\ TakeLock(p, m) /\ msg' = [msg EXCEPT ![p] = m]
    BY <1>2 DEF Call
  <2>3. msg' = [b \in Pubs |-> IF b = p THEN m ELSE msg[b]]
    BY <1>1, <2>2 DEF TypeOK
  <2> HIDE DEF m
  <2>4. CASE m.key \notin dedup
    <3>1. Publishes(p, m) /\ GoGate(p, m)
      BY <2>1, <2>2, <2>3, <2>4 DEF Publishes, TakeLock
    <3> QED
      BY <2>1, <3>1, GoKept
  <2>5. CASE m.key \in dedup
    <3>1. /\ at' = [at EXCEPT ![p] = "done"] /\ answer' = [answer EXCEPT ![p] = "duplicate"]
          /\ UNCHANGED <<lock, dlq, queues, dedup, shutdown, history>>
      BY <2>2, <2>5 DEF TakeLock, Return, Goto
    <3>2. answer'[p] = "duplicate" /\ \A b \in Pubs : b # p => answer'[b] = answer[b]
      BY <1>1, <3>1 DEF TypeOK
    <3> QED
      BY <1>1, <2>1, <2>3, <3>1, <3>2, QuietKept
  <2> QED
    BY <2>4, <2>5
<1>3. ASSUME NEW c \in Callers, Publish(c) PROVE KeptInv'
  <2>1. CASE Gate(c) \/ Put(c)
    <3>1. Msg(c) \in Message /\ Publishes(c, Msg(c))
      BY <2>1, WaiterPublishes
    <3>2. c \in Pubs => Msg(c).by = c
      BY <1>1, <2>1 DEF Own, Msg, Gate, Put
    <3> QED
      BY <2>1, <3>1, <3>2, GoKept DEF Gate, Put
  <2>2. CASE Persist(c)
    <3>1. /\ at[c] = "persist"
          /\ UNCHANGED <<msg, queues, dedup, shutdown, history>>
      BY <2>2 DEF Persist
    <3>2. at' = [at EXCEPT ![c] = IF c \in Pubs THEN "done" ELSE "submit"] /\ dlq \subseteq dlq'
      BY <2>2 DEF Persist, Return, Goto
    <3>3. /\ c \in Pubs => \/ answer'[c] = "true"
                           \/ answer'[c] = "false" /\ c \in dlq'
          /\ \A b \in Pubs : b # c => answer'[b] = answer[b]
      BY <1>1, <2>2 DEF Persist, Return, TypeOK
    <3>4. c \in Pubs => c \in Enqueued
      BY <1>1, <3>1 DEF Answers
    <3> QED
      BY <1>1, <3>1, <3>2, <3>3, <3>4, QuietKept
  <2> QED
    BY <1>3, <2>1, <2>2 DEF Publish
<1>4. ASSUME NEW d \in Dispatchers, Dispatch(d) PROVE KeptInv'
  <2>1. d \in Callers /\ d \notin Pubs
    BY DispatcherParts
  <2>2. CASE Event(d)
    <3>1. Msg(d) \in Message /\ Publishes(d, Msg(d)) /\ GoGate(d, Msg(d))
      BY <2>2, EventPublishes
    <3> QED
      BY <2>1, <3>1, GoKept
  <2>3. CASE Refuse(d)
    <3>1. /\ at' = [at EXCEPT ![d] = "submit"]
          /\ UNCHANGED <<lock, msg, answer, dlq, queues, dedup, shutdown, history>>
      BY <2>1, <2>3 DEF Refuse, Return, Goto
    <3> QED
      BY <1>1, <2>1, <3>1, QuietKept
  <2>4. CASE Check(d)
    <3>1. /\ \E there \in {"submit", "lock"} : at' = [at EXCEPT ![d] = there]
          /\ UNCHANGED <<lock, msg, answer, dlq, queue, unfinished, hand, dedup, shutdown, history>>
      BY <2>4 DEF Check, Goto
    <3> QED
      BY <1>1, <2>1, <3>1, QuietKept
  <2>5. CASE Submit(d)
    <3>1. /\ at' = [at EXCEPT ![d] = "bridge"]
          /\ UNCHANGED <<msg, answer, dlq, queue, hand, phase, order>>
      BY <2>5 DEF Submit, Goto
    <3>2. /\ Carried \subseteq Carried' /\ Handled \subseteq Handled'
          /\ hand[d].by \in Pubs => hand[d].by \in Handled'
      BY <1>1, <2>5, SubmitCarries
    <3>3. /\ \A p \in Pubs : at'[p] = at[p]
          /\ \A e \in Dispatchers : e # d => at'[e] = at[e]
          /\ at'[d] = "bridge"
      BY <1>1, <2>1, <3>1, DispatcherParts DEF TypeOK, Callers
    <3>4. Own' /\ Answers'
      BY <1>1, <3>1, <3>3 DEF Own, Answers, Enqueued
    <3>5. Hands'
      BY <1>1, <3>1, <3>2, <3>3 DEF Hands
    <3>6. NothingLost'
      BY <1>1, <3>1, <3>2 DEF NothingLost, Carried, Enqueued
    <3> QED
      BY <3>4, <3>5, <3>6 DEF KeptInv
  <2>6. CASE Get(d)
    <3>1. /\ at[d] = "get" /\ at' = [at EXCEPT ![d] = "check"]
          /\ \E x : hand' = [hand EXCEPT ![d] = x]
          /\ UNCHANGED <<msg, answer, dlq, phase, order, dispatched>>
      BY <2>6 DEF Get, Goto
    <3>2. Carried \cap Pubs \subseteq Carried'
      BY <1>1, <2>6, <3>1, GetCarries DEF Hands
    <3>3. /\ \A p \in Pubs : at'[p] = at[p]
          /\ \A e \in Dispatchers : e # d => at'[e] = at[e] /\ hand'[e] = hand[e]
          /\ at'[d] = "check"
      BY <1>1, <2>1, <3>1, DispatcherParts DEF TypeOK, Callers
    <3>4. Own' /\ Answers'
      BY <1>1, <3>1, <3>3 DEF Own, Answers, Enqueued
    <3>5. Hands'
      BY <1>1, <3>1, <3>3 DEF Hands, Handled
    <3>6. NothingLost'
      BY <1>1, <3>1, <3>2, EnqueuedPubs DEF NothingLost, Carried, Enqueued
    <3> QED
      BY <3>4, <3>5, <3>6 DEF KeptInv
  <2>7. CASE Done(d) \/ TimeOut(d) \/ Die(d)
    <3>1. /\ at[d] = "bridge" /\ \E there \in {"get", "stopped"} : at' = [at EXCEPT ![d] = there]
          /\ hand' = [hand EXCEPT ![d] = NoMsg]
          /\ UNCHANGED <<msg, answer, dlq, queue, phase, order, dispatched>>
      BY <2>7 DEF Done, TimeOut, Die, Raises, Leave, Onward, Goto
    <3>2. /\ \A p \in Pubs : at'[p] = at[p]
          /\ \A e \in Dispatchers : e # d => at'[e] = at[e] /\ hand'[e] = hand[e]
          /\ at'[d] \in {"get", "stopped"} /\ hand'[d] = NoMsg
      BY <1>1, <2>1, <3>1, DispatcherParts DEF TypeOK, Callers
    <3>3. Handled' = Handled /\ Queued' = Queued /\ Enqueued' = Enqueued /\ Enqueued \subseteq Pubs
      BY <1>1, <3>1, EnqueuedPubs DEF Handled, Queued, Enqueued
    <3>4. Carried \cap Pubs \subseteq Carried'
      BY <1>1, <3>1, <3>2, <3>3 DEF Carried, Hands
    <3>5. Own' /\ Answers'
      BY <1>1, <3>1, <3>2, <3>3 DEF Own, Answers
    <3>6. Hands'
      BY <1>1, <3>2, <3>3 DEF Hands
    <3>7. NothingLost'
      BY <1>1, <3>1, <3>3, <3>4 DEF NothingLost, Carried
    <3> QED
      BY <3>5, <3>6, <3>7 DEF KeptInv
  <2> QED
    BY <1>4, <2>2, <2>3, <2>4, <2>5, <2>6, <2>7 DEF Dispatch
<1>5. ASSUME NEW k \in Keys, Forget(k) PROVE KeptInv'
  BY <1>1, <1>5 DEF Forget, KeptInv, Own, Answers, Hands, NothingLost, Enqueued, Queued, Handled
<1>6. CASE Shutdown
  <2>1. CASE Stop \/ \E s \in Shards, k \in Classes : Join(s, k)
    <3>1. /\ UNCHANGED <<publishing, queues, dedup, history>>
          /\ phase' # "joining" => phase # "joining"
      BY <2>1 DEF Stop, Join
    <3> QED
      BY <1>1, <3>1 DEF KeptInv, Own, Answers, Hands, NothingLost, Enqueued, Queued, Handled
  <2>2. CASE CancelDispatchers
    <3>1. /\ at' = [c \in Callers |-> IF c \in Pubs THEN at[c] ELSE "stopped"]
          /\ phase' = "joining" /\ hand' = [d \in Dispatchers |-> NoMsg]
          /\ UNCHANGED <<msg, answer, dlq, queue, order, dispatched>>
      BY <2>2 DEF CancelDispatchers, Dropping
    <3>2. /\ \A p \in Pubs : at'[p] = at[p]
          /\ \A d \in Dispatchers : at'[d] = "stopped"
      BY <3>1, DispatcherParts DEF Callers
    <3>3. Own' /\ Answers' /\ Hands'
      BY <1>1, <3>1, <3>2 DEF Own, Answers, Hands, Enqueued
    <3>4. NothingLost'
      BY <1>1, <3>1 DEF NothingLost, Enqueued
    <3> QED
      BY <3>3, <3>4 DEF KeptInv
  <2> QED
    BY <1>6, <2>1, <2>2 DEF Shutdown
<1>7. CASE UNCHANGED vars
  BY <1>1, <1>7 DEF KeptInv, vars, Own, Answers, Hands, NothingLost, Enqueued, Queued, Handled
<1> QED
  BY <1>2, <1>3, <1>4, <1>5, <1>6, <1>7 DEF Next

\* What publish() accepted is never lost by a running bus, for any instance.
THEOREM MessagesSafe == Spec => []NothingLost
<1>1. KeptInv => NothingLost
  BY DEF KeptInv
<1> QED
  BY <1>1, InitKeyInv, InitKeptInv, KeyStep, KeptStep, PTL DEF Spec


(* Shutdown *)

\* While the queues are joined nobody marks messages as done: a queue with one
\* that is not stays unfinished.
Unfinished == \E d \in Dispatchers : unfinished[d[1]][d[2]] > 0 /\ d \notin joined
DrainInv ==
    /\ phase # "joining" => joined = {} /\ early = {}
    /\ phase = "joining" => \A d \in Dispatchers : at[d] = "stopped"
    /\ \A p \in early : p \in Handled \/ Unfinished

\* What the running bus carries is dispatched or counted by its queue.
LEMMA CarriedCounted ==
    ASSUME KeyInv, KeptInv, joined = {}, NEW p \in Pubs, p \in Carried
    PROVE  p \in Handled \/ Unfinished
<1>1. TypeOK /\ Counted /\ Hands
  BY DEF KeyInv, KeptInv
<1>2. CASE p \in Queued
  <2>1. PICK s \in Shards, k \in Classes : \E i \in DOMAIN queue[s][k] : queue[s][k][i].by = p
    BY <1>2 DEF Queued
  <2>2. queue[s][k] \in Seq(Message) /\ unfinished[s][k] \in Nat
    BY <1>1, QueueTypes
  <2>3. Len(queue[s][k]) > 0
    BY <2>1, <2>2
  <2>4. <<s, k>> \in Dispatchers /\ <<s, k>>[1] = s /\ <<s, k>>[2] = k
    BY DEF Dispatchers
  <2>5. unfinished[s][k] >= Len(queue[s][k])
    BY <1>1, <2>4 DEF Counted
  <2> QED
    BY <2>2, <2>3, <2>4, <2>5 DEF Unfinished
<1>3. CASE \E d \in Dispatchers : hand[d].by = p
  <2>1. PICK d \in Dispatchers : hand[d].by = p
    BY <1>3
  <2>2. Busy(d)
    BY <1>1, <2>1, BusAssumption DEF Hands, Busy, NoMsg, Callers
  <2>3. d[1] \in Shards /\ d[2] \in Classes
    BY DispatcherParts
  <2>4. queue[d[1]][d[2]] \in Seq(Message) /\ unfinished[d[1]][d[2]] \in Nat
    BY <1>1, <2>3, QueueTypes
  <2>5. unfinished[d[1]][d[2]] > Len(queue[d[1]][d[2]])
    BY <1>1, <2>2 DEF Counted
  <2>6. Len(queue[d[1]][d[2]]) \in Nat
    BY <2>4
  <2>7. unfinished[d[1]][d[2]] > 0
    BY <2>4, <2>5, <2>6
  <2> QED
    BY <2>7 DEF Unfinished
<1> QED
  BY <1>2, <1>3 DEF Carried

\* Once the dispatchers have ended, a step of a call adds to the counts only.
LEMMA CallCounts ==
    ASSUME KeyInv, phase = "joining", \A d \in Dispatchers : at[d] = "stopped",
           \/ \E p \in Pubs, k \in Kinds : Call(p, UserMsg(p, k))
           \/ \E c \in Callers : Publish(c)
    PROVE  /\ UNCHANGED <<phase, joined, early, dispatched>>
           /\ \A d \in Dispatchers : at'[d] = at[d] /\ unfinished'[d[1]][d[2]] >= unfinished[d[1]][d[2]]
<1>1. TypeOK
  BY DEF KeyInv
<1> DEFINE Result == /\ UNCHANGED <<phase, joined, early, dispatched>>
                     /\ \A d \in Dispatchers : /\ at'[d] = at[d]
                                               /\ unfinished'[d[1]][d[2]] >= unfinished[d[1]][d[2]]
<1>2. ASSUME NEW p \in Pubs, NEW m \in Message, Enqueue(p, m) PROVE Result
  <2>1. UNCHANGED <<phase, joined, early, dispatched>>
    BY <1>2 DEF Enqueue, shutdown
  <2>2. \E there : at' = [at EXCEPT ![p] = there]
    BY <1>2 DEF Enqueue, Return, Goto
  <2>3. ASSUME NEW d \in Dispatchers
        PROVE  at'[d] = at[d] /\ unfinished'[d[1]][d[2]] >= unfinished[d[1]][d[2]]
    <3>1. d[1] \in Shards /\ d[2] \in Classes /\ d # p /\ d \in Callers
      BY DispatcherParts
    <3>2. unfinished[d[1]][d[2]] \in Nat
      BY <1>1, <3>1, QueueTypes
    <3>3. unfinished'[d[1]][d[2]] \in {unfinished[d[1]][d[2]], unfinished[d[1]][d[2]] + 1}
      BY <1>1, <1>2, <3>1, EnqueueQueues DEF Callers
    <3>4. at'[d] = at[d]
      BY <1>1, <2>2, <3>1 DEF TypeOK
    <3> QED
      BY <3>2, <3>3, <3>4
  <2> QED
    BY <2>1, <2>3
<1>3. ASSUME NEW p \in Pubs, \E there : at' = [at EXCEPT ![p] = there],
             UNCHANGED <<queues, shutdown, history>>
      PROVE  Result
  <2>1. ASSUME NEW d \in Dispatchers PROVE at'[d] = at[d] /\ unfinished[d[1]][d[2]] \in Nat
    <3>1. d[1] \in Shards /\ d[2] \in Classes /\ d # p /\ d \in Callers
      BY DispatcherParts
    <3> QED
      BY <1>1, <1>3, <3>1, QueueTypes DEF TypeOK
  <2> QED
    BY <1>3, <2>1 DEF queues, shutdown, history
<1>4. ASSUME NEW p \in Pubs, NEW m \in Message, GoGate(p, m) \/ GoPut(p, m) PROVE Result
  <2>1. CASE Enqueue(p, m)
    BY <1>2, <2>1
  <2>2. CASE WaitAt(p, "gate") \/ WaitAt(p, "put")
    <3>1. (\E there : at' = [at EXCEPT ![p] = there]) /\ UNCHANGED <<queues, shutdown, history>>
      BY <2>2 DEF WaitAt, Goto
    <3> QED
      BY <1>3, <3>1
  <2> QED
    BY <1>4, <2>1, <2>2 DEF GoGate, GoPut
<1>5. ASSUME NEW p \in Pubs, NEW k \in Kinds, Call(p, UserMsg(p, k)) PROVE Result
  <2>1. UserMsg(p, k) \in Message
    BY BusAssumption DEF UserMsg, Message, Callers
  <2>2. CASE Return(p, "duplicate") /\ UNCHANGED <<queues, shutdown, history>>
    BY <1>3, <2>2 DEF Return, Goto
  <2> QED
    BY <1>4, <1>5, <2>1, <2>2 DEF Call, TakeLock
<1>6. ASSUME NEW c \in Callers, Publish(c) PROVE Result
  <2>1. c \in Pubs
    BY <1>6 DEF Publish, Gate, Put, Persist, Callers
  <2>2. CASE Gate(c) \/ Put(c)
    <3>1. Msg(c) \in Message
      BY <2>2, WaiterPublishes
    <3> QED
      BY <1>2, <1>4, <2>1, <2>2, <3>1 DEF Gate, Put
  <2>3. CASE Persist(c)
    <3>1. (\E there : at' = [at EXCEPT ![c] = there]) /\ UNCHANGED <<queues, shutdown, history>>
      BY <2>3 DEF Persist, Return, Goto
    <3> QED
      BY <1>3, <2>1, <3>1
  <2> QED
    BY <1>6, <2>2, <2>3 DEF Publish
<1> QED
  BY <1>5, <1>6

LEMMA InitDrainInv == Init => DrainInv
BY DEF Init, DrainInv

\* Before the dispatchers end nothing is joined, then nothing is marked as done.
LEMMA DrainStep == KeyInv /\ KeptInv /\ DrainInv /\ [Next]_vars => DrainInv'
<1> SUFFICES ASSUME KeyInv, KeptInv, DrainInv, [Next]_vars PROVE DrainInv'
  OBVIOUS
<1>1. TypeOK /\ NothingLost
  BY DEF KeyInv, KeptInv
<1>2. CASE phase # "joining" /\ ~CancelDispatchers
  <2>1. phase' # "joining" /\ UNCHANGED <<joined, early>>
    <3>1. ASSUME NEW c, NEW m, GoGate(c, m) \/ GoPut(c, m) \/ Enqueue(c, m)
          PROVE  UNCHANGED <<phase, joined, early>>
      BY <3>1 DEF GoGate, GoPut, Enqueue, WaitAt, shutdown, history
    <3>2. CASE \E p \in Pubs, k \in Kinds : Call(p, UserMsg(p, k))
      BY <1>2, <3>1, <3>2 DEF Call, TakeLock, shutdown, history
    <3>3. CASE \E c \in Callers : Publish(c)
      BY <1>2, <3>1, <3>3 DEF Publish, Gate, Put, Persist, shutdown, history
    <3>4. CASE \E d \in Dispatchers : Dispatch(d)
      BY <1>2, <3>1, <3>4 DEF Dispatch, Event, TakeLock, Refuse, Get, Check, Submit, Done,
                              TimeOut, Die, Leave, shutdown, history
    <3>5. CASE \E k \in Keys : Forget(k)
      BY <1>2, <3>5 DEF Forget, shutdown
    <3>6. CASE Shutdown
      BY <1>2, <3>6 DEF Shutdown, Stop, Join, history
    <3>7. CASE UNCHANGED vars
      BY <1>2, <3>7 DEF vars, shutdown, history
    <3> QED
      BY <3>2, <3>3, <3>4, <3>5, <3>6, <3>7 DEF Next
  <2> QED
    BY <1>2, <2>1 DEF DrainInv
<1>3. CASE CancelDispatchers
  <2>1. /\ phase = "stopping" /\ phase' = "joining" /\ early' = Enqueued
        /\ at' = [c \in Callers |-> IF c \in Pubs THEN at[c] ELSE "stopped"]
        /\ UNCHANGED <<unfinished, joined, dispatched>>
    BY <1>3 DEF CancelDispatchers, Dropping, Enqueued
  <2>2. \A d \in Dispatchers : at'[d] = "stopped"
    BY <2>1, DispatcherParts
  <2>3. joined = {} /\ Enqueued \subseteq Carried /\ Enqueued \subseteq Pubs
    BY <1>1, <2>1, EnqueuedPubs DEF DrainInv, NothingLost, Carried
  <2>4. \A p \in early' : p \in Handled \/ Unfinished
    BY <2>1, <2>3, CarriedCounted
  <2> QED
    BY <2>1, <2>2, <2>4 DEF DrainInv, Handled, Unfinished
<1>4. CASE phase = "joining" /\ ~CancelDispatchers
  <2>1. \A d \in Dispatchers : at[d] = "stopped"
    BY <1>4 DEF DrainInv
  <2>2. ASSUME UNCHANGED <<phase, joined, early, dispatched>>,
               \A d \in Dispatchers : at'[d] = at[d] /\ unfinished'[d[1]][d[2]] >= unfinished[d[1]][d[2]]
        PROVE  DrainInv'
    <3>1. Handled' = Handled
      BY <2>2 DEF Handled
    <3>2. \A d \in Dispatchers : unfinished[d[1]][d[2]] \in Nat
      BY <1>1, DispatcherParts, QueueTypes
    <3>3. Unfinished => Unfinished'
      <4> SUFFICES ASSUME NEW d \in Dispatchers, unfinished[d[1]][d[2]] > 0, d \notin joined
                   PROVE  Unfinished'
        BY DEF Unfinished
      <4>1. unfinished'[d[1]][d[2]] > 0
        <5>1. unfinished'[d[1]][d[2]] >= unfinished[d[1]][d[2]] /\ unfinished[d[1]][d[2]] \in Nat
          BY <2>2, <3>2
        <5>2. unfinished' \in [Shards -> [Classes -> Nat]]
          BY KeyStep DEF KeyInv, TypeOK
        <5>3. unfinished'[d[1]][d[2]] \in Nat
          BY <5>2, DispatcherParts
        <5> QED
          BY <5>1, <5>3
      <4> QED
        BY <2>2, <4>1 DEF Unfinished
    <3> QED
      BY <1>4, <2>1, <2>2, <3>1, <3>3 DEF DrainInv
  <2>3. CASE \/ \E p \in Pubs, k \in Kinds : Call(p, UserMsg(p, k))
             \/ \E c \in Callers : Publish(c)
    BY <1>4, <2>1, <2>2, <2>3, CallCounts
  <2>4. CASE (\E k \in Keys : Forget(k)) \/ UNCHANGED vars
    <3>1. UNCHANGED <<at, unfinished, phase, joined, early, dispatched>>
      BY <2>4 DEF Forget, vars, publishing, queues, shutdown, history
    <3>2. \A d \in Dispatchers : unfinished[d[1]][d[2]] \in Nat
      BY <1>1, DispatcherParts, QueueTypes
    <3> QED
      BY <2>2, <3>1, <3>2
  <2>5. ~ \E d \in Dispatchers : Dispatch(d)
    BY <2>1 DEF Dispatch, Refuse, Event, Get, Check, Submit, Done, TimeOut, Die, Raises, Leave
  <2>6. ASSUME NEW s \in Shards, NEW k \in Classes, Join(s, k) PROVE DrainInv'
    <3>1. /\ unfinished[s][k] = 0 /\ joined' = joined \cup {<<s, k>>}
          /\ UNCHANGED <<at, unfinished, phase, early, dispatched>>
      BY <2>6 DEF Join, publishing, queues, history
    <3>2. Unfinished => Unfinished'
      <4> SUFFICES ASSUME NEW d \in Dispatchers, unfinished[d[1]][d[2]] > 0, d \notin joined
                   PROVE  Unfinished'
        BY DEF Unfinished
      <4>1. d # <<s, k>>
        BY <3>1
      <4> QED
        BY <3>1, <4>1 DEF Unfinished
    <3> QED
      BY <1>4, <2>1, <3>1, <3>2 DEF DrainInv, Handled
  <2>7. ~Stop
    BY <1>4 DEF Stop
  <2> QED
    BY <1>4, <2>3, <2>4, <2>5, <2>6, <2>7 DEF Next, Shutdown
<1> QED
  BY <1>2, <1>3, <1>4

\* "All internal message queues drained" is true when it is said.
THEOREM DrainSafe == Spec => []DrainedIsDispatched
<1>1. DrainInv => DrainedIsDispatched
  BY DEF DrainInv, Unfinished, DrainedIsDispatched
<1> QED
  BY <1>1, InitKeyInv, InitKeptInv, InitDrainInv, KeyStep, KeptStep, DrainStep, PTL DEF Spec

(* Order *)

\* Behind those of its priority and of smaller ones, in a queue that is sorted.
LEMMA InsertSorted ==
    ASSUME NEW q \in Seq(Message), NEW m \in Message,
           \A a, b \in 1 .. Len(q) : a < b => q[a].prio <= q[b].prio
    PROVE  \E i \in 0 .. Len(q) :
             /\ Insert(q, m) \in Seq(Message) /\ Len(Insert(q, m)) = Len(q) + 1
             /\ \A n \in 1 .. i : Insert(q, m)[n] = q[n] /\ q[n].prio <= m.prio
             /\ Insert(q, m)[i + 1] = m
             /\ \A n \in i + 2 .. Len(q) + 1 : Insert(q, m)[n] = q[n - 1]
             /\ \A n \in i + 1 .. Len(q) : m.prio < q[n].prio
<1> DEFINE before == {n \in DOMAIN q : q[n].prio <= m.prio}
           r == Insert(q, m)
<1>1. PICK i \in 0 .. Len(q) :
        /\ i = Cardinality(before)
        /\ r \in Seq(Message) /\ Len(r) = Len(q) + 1
        /\ \A n \in 1 .. i : r[n] = q[n]
        /\ r[i + 1] = m
        /\ \A n \in i + 2 .. Len(q) + 1 : r[n] = q[n - 1]
  BY InsertShape
<1> HIDE DEF r
<1>2. /\ Len(q) \in Nat /\ DOMAIN q = 1 .. Len(q)
      /\ \A n \in 1 .. Len(q) : q[n] \in Message /\ q[n].prio \in Nat
      /\ m.prio \in Nat
  <2>1. Len(q) \in Nat /\ DOMAIN q = 1 .. Len(q) /\ \A n \in 1 .. Len(q) : q[n] \in Message
    OBVIOUS
  <2> QED
    BY <2>1 DEF Message
<1>3. \A n \in Nat : IsFiniteSet(1 .. n) /\ Cardinality(1 .. n) = n
  <2> SUFFICES ASSUME NEW n \in Nat PROVE IsFiniteSet(1 .. n) /\ Cardinality(1 .. n) = n
    OBVIOUS
  <2>1. IsFiniteSet(1 .. n) /\ Cardinality(1 .. n) = IF 1 > n THEN 0 ELSE n - 1 + 1
    BY FS_Interval, n \in Int, 1 \in Int
  <2> QED
    BY <2>1
<1>4. IsFiniteSet(before)
  BY <1>2, <1>3, FS_Subset, before \subseteq 1 .. Len(q)
<1>5. ASSUME NEW n \in 1 .. Len(q), q[n].prio <= m.prio PROVE n <= i
  <2>1. ASSUME NEW k \in 1 .. n PROVE k \in before
    <3>1. k \in 1 .. Len(q) /\ (k = n \/ k < n)
      BY <1>2
    <3>2. q[k].prio <= q[n].prio
      BY <1>2, <3>1
    <3> QED
      BY <1>2, <1>5, <3>1, <3>2
  <2>2. Cardinality(1 .. n) <= Cardinality(before)
    BY <1>4, <2>1, FS_Subset, 1 .. n \subseteq before
  <2> QED
    BY <1>1, <1>3, <2>2
<1>6. ASSUME NEW n \in 1 .. i PROVE q[n].prio <= m.prio
  <2> SUFFICES ASSUME ~(q[n].prio <= m.prio) PROVE FALSE
    OBVIOUS
  <2>1. n \in 1 .. Len(q)
    BY <1>1, <1>2
  <2>2. ASSUME NEW k \in before PROVE k \in 1 .. n - 1
    <3>1. k \in 1 .. Len(q) /\ q[k].prio <= m.prio
      BY <1>2
    <3>2. CASE n < k
      <4>1. q[n].prio <= q[k].prio
        BY <2>1, <3>1, <3>2
      <4> QED
        BY <1>2, <2>1, <3>1, <4>1
    <3>3. k # n
      BY <3>1
    <3> QED
      BY <1>2, <3>1, <3>2, <3>3
  <2>3. Cardinality(before) <= Cardinality(1 .. n - 1)
    BY <1>3, <2>1, <2>2, FS_Subset, before \subseteq 1 .. n - 1, n - 1 \in Nat
  <2>4. Cardinality(1 .. n - 1) = n - 1
    BY <1>3, <2>1, n - 1 \in Nat
  <2> QED
    BY <1>1, <2>1, <2>3, <2>4
<1>7. ASSUME NEW n \in i + 1 .. Len(q) PROVE m.prio < q[n].prio
  <2>1. n \in 1 .. Len(q) /\ ~(n <= i)
    BY <1>1, <1>2
  <2>2. ~(q[n].prio <= m.prio)
    BY <1>5, <2>1
  <2> QED
    BY <1>2, <2>1, <2>2
<1> QED
  BY <1>1, <1>6, <1>7 DEF r

\* The queue that dispatcher d serves.
Q(d) == queue[d[1]][d[2]]

\* What is on its way is the message of the call that enqueued it, at the
\* dispatcher of its shard and class.
Placed(m, d) == m.by \in Pubs => /\ m.by \in Enqueued /\ m = msg[m.by]
                                 /\ m.shard = d[1] /\ ClassOf(m) = d[2]
AllPlaced == /\ Handled \subseteq Enqueued
             /\ \A d \in Dispatchers : Placed(hand[d], d)
             /\ \A d \in Dispatchers : \A i \in 1 .. Len(Q(d)) : Placed(Q(d)[i], d)

Sorted == \A d \in Dispatchers : \A i, j \in 1 .. Len(Q(d)) : i < j => Q(d)[i].prio <= Q(d)[j].prio

\* p was enqueued before q, and is ahead of it as long as q is on its way.
Precedes(p, q) == /\ Before(order, p, q)
                  /\ msg[p].shard = msg[q].shard /\ msg[p].prio = msg[q].prio
DispatchedBehind(p, q) == q \in Handled => Before(dispatched, p, q)
TakenBehind(p, q) == \A d \in Dispatchers : hand[d].by = q => p \in Handled
QueuedBehind(p, q) ==
    phase # "joining" =>
        \A d \in Dispatchers : \A j \in 1 .. Len(Q(d)) : Q(d)[j].by = q =>
            \/ p \in Handled \/ hand[d].by = p
            \/ \E i \in 1 .. Len(Q(d)) : i < j /\ Q(d)[i].by = p
Follows(p, q) == DispatchedBehind(p, q) /\ TakenBehind(p, q) /\ QueuedBehind(p, q)
OrderInv == AllPlaced /\ Sorted /\ \A p, q \in Pubs : Precedes(p, q) => Follows(p, q)

\* The queue of a dispatcher is a sequence of messages.
LEMMA QTypes ==
    ASSUME TypeOK, NEW d \in Dispatchers
    PROVE  /\ Q(d) \in Seq(Message) /\ Len(Q(d)) \in Nat /\ DOMAIN Q(d) = 1 .. Len(Q(d))
           /\ \A i \in 1 .. Len(Q(d)) : Q(d)[i] \in Message
<1>1. Q(d) \in Seq(Message)
  BY DispatcherParts, QueueTypes DEF Q
<1> QED
  BY <1>1

\* What has a place in the order is enqueued.
LEMMA BeforeEnqueued ==
    ASSUME NEW p, NEW q, Before(order, p, q)
    PROVE  p \in Enqueued /\ q \in Enqueued
BY DEF Before, Enqueued

\* Initially nothing is on its way.
LEMMA InitOrderInv == Init => OrderInv
<1> SUFFICES ASSUME Init PROVE OrderInv
  OBVIOUS
<1>1. Handled = {} /\ Enqueued = {}
  BY DEF Init, Handled, Enqueued
<1>2. \A d \in Dispatchers : Q(d) = <<>> /\ hand[d].by \notin Pubs
  BY DispatcherParts, BusAssumption DEF Init, Q, NoMsg, Callers
<1>3. AllPlaced /\ Sorted
  BY <1>1, <1>2 DEF AllPlaced, Sorted, Placed
<1>4. \A p, q : ~Precedes(p, q)
  BY <1>1, BeforeEnqueued DEF Precedes
<1> QED
  BY <1>3, <1>4 DEF OrderInv

\* A step that moves no message.
LEMMA QuietOrder ==
    ASSUME TypeOK, OrderInv, UNCHANGED <<queue, hand, order, dispatched>>,
           phase' # "joining" => phase # "joining",
           \A p \in Enqueued : msg'[p] = msg[p]
    PROVE  OrderInv'
<1>1. Enqueued' = Enqueued /\ Handled' = Handled /\ \A d : Q(d)' = Q(d)
  BY DEF Enqueued, Handled, Q
<1>2. AllPlaced'
  BY <1>1 DEF OrderInv, AllPlaced, Placed, ClassOf
<1>3. Sorted'
  BY <1>1 DEF OrderInv, Sorted
<1>4. ASSUME NEW p \in Pubs, NEW q \in Pubs, Precedes(p, q)' PROVE Follows(p, q)'
  <2>1. Before(order, p, q) /\ p \in Enqueued /\ q \in Enqueued
    BY <1>4, BeforeEnqueued DEF Precedes
  <2>2. Precedes(p, q)
    BY <1>4, <2>1 DEF Precedes
  <2>3. Follows(p, q)
    BY <2>2 DEF OrderInv
  <2>4. DispatchedBehind(p, q)'
    BY <1>1, <2>3 DEF Follows, DispatchedBehind, Before
  <2>5. TakenBehind(p, q)'
    BY <1>1, <2>3 DEF Follows, TakenBehind
  <2>6. QueuedBehind(p, q)'
    <3>1. ASSUME phase' # "joining", NEW d \in Dispatchers, NEW j \in 1 .. Len(Q(d)), Q(d)[j].by = q
          PROVE  \/ p \in Handled \/ hand[d].by = p
                 \/ \E i \in 1 .. Len(Q(d)) : i < j /\ Q(d)[i].by = p
      BY <2>3, <3>1 DEF Follows, QueuedBehind
    <3>2. \A d : Q(d)' = Q(d) /\ hand'[d] = hand[d]
      BY <1>1
    <3>3. (p \in Handled)' <=> p \in Handled
      BY <1>1
    <3> QED
      BY <3>1, <3>2, <3>3 DEF QueuedBehind
  <2> QED
    BY <2>4, <2>5, <2>6 DEF Follows
<1> QED
  BY <1>2, <1>3, <1>4 DEF OrderInv

\* The queue stays sorted.
LEMMA InsertKeepsSorted ==
    ASSUME NEW q \in Seq(Message), NEW m \in Message,
           \A a, b \in 1 .. Len(q) : a < b => q[a].prio <= q[b].prio
    PROVE  \A a, b \in 1 .. Len(Insert(q, m)) : a < b => Insert(q, m)[a].prio <= Insert(q, m)[b].prio
<1> DEFINE r == Insert(q, m)
<1>1. PICK i \in 0 .. Len(q) :
        /\ Len(r) = Len(q) + 1
        /\ \A n \in 1 .. i : r[n] = q[n] /\ q[n].prio <= m.prio
        /\ r[i + 1] = m
        /\ \A n \in i + 2 .. Len(q) + 1 : r[n] = q[n - 1]
        /\ \A n \in i + 1 .. Len(q) : m.prio < q[n].prio
  BY InsertSorted
<1> HIDE DEF r
<1>2. m.prio \in Nat /\ Len(q) \in Nat /\ \A n \in 1 .. Len(q) : q[n].prio \in Nat
  <2>1. Len(q) \in Nat /\ \A n \in 1 .. Len(q) : q[n] \in Message
    OBVIOUS
  <2> QED
    BY <2>1 DEF Message
<1>3. ASSUME NEW a \in 1 .. Len(r), NEW b \in 1 .. Len(r), a < b PROVE r[a].prio <= r[b].prio
  <2>1. CASE b <= i
    BY <1>1, <1>2, <1>3, <2>1
  <2>2. CASE b = i + 1
    BY <1>1, <1>2, <1>3, <2>2
  <2>3. CASE b > i + 1
    <3>1. b \in i + 2 .. Len(q) + 1 /\ b - 1 \in i + 1 .. Len(q) /\ b - 1 \in 1 .. Len(q)
      BY <1>1, <1>2, <1>3, <2>3
    <3>2. r[b] = q[b - 1] /\ m.prio < q[b - 1].prio
      BY <1>1, <3>1
    <3>3. CASE a <= i
      <4>1. a \in 1 .. i /\ a \in 1 .. Len(q)
        BY <1>1, <1>2, <3>3
      <4> QED
        BY <1>1, <1>2, <3>1, <3>2, <4>1
    <3>4. CASE a = i + 1
      BY <1>1, <1>2, <3>1, <3>2, <3>4
    <3>5. CASE a > i + 1
      <4>1. a \in i + 2 .. Len(q) + 1 /\ a - 1 \in 1 .. Len(q) /\ a - 1 < b - 1
        BY <1>1, <1>2, <1>3, <3>5
      <4>2. q[a - 1].prio <= q[b - 1].prio
        BY <3>1, <4>1
      <4> QED
        BY <1>1, <3>2, <4>1, <4>2
    <3> QED
      BY <1>1, <1>2, <3>3, <3>4, <3>5
  <2> QED
    BY <1>1, <1>2, <2>1, <2>2, <2>3
<1> QED
  BY <1>3 DEF r

\* The message of a call goes behind those enqueued before it.
LEMMA EnqueueOrder ==
    ASSUME KeyInv, KeptInv, OrderInv, NEW c \in Callers, NEW m \in Message,
           Publishes(c, m), m.by = c, Enqueue(c, m)
    PROVE  OrderInv'
<1> DEFINE e == <<m.shard, ClassOf(m)>>
<1>1. /\ TypeOK /\ Known /\ NothingLost /\ AllPlaced /\ Sorted
  BY DEF KeyInv, KeptInv, OrderInv
<1>2. /\ UNCHANGED <<hand, dispatched, phase>> /\ Handled' = Handled
      /\ order' = IF c \in Pubs THEN Append(order, c) ELSE order
  BY DEF Enqueue, shutdown, Handled
<1>3. /\ e \in Dispatchers /\ e[1] = m.shard /\ e[2] = ClassOf(m)
      /\ Q(e)' = Insert(Q(e), m)
      /\ \A d \in Dispatchers : d # e => Q(d)' = Q(d)
  <2>1. /\ m.shard \in Shards /\ ClassOf(m) \in Classes
        /\ \A s \in Shards, k \in Classes :
              queue'[s][k] = IF s = m.shard /\ k = ClassOf(m) THEN Insert(queue[s][k], m)
                                                              ELSE queue[s][k]
    BY <1>1, EnqueueQueues
  <2>2. ASSUME NEW d \in Dispatchers, d # e PROVE Q(d)' = Q(d)
    BY <2>1, <2>2, DispatcherParts DEF Q
  <2>3. e \in Dispatchers
    BY <2>1 DEF Dispatchers
  <2>4. Q(e)' = Insert(Q(e), m)
    BY <2>1 DEF Q
  <2> QED
    BY <2>2, <2>3, <2>4
<1> HIDE DEF e
<1>4. /\ c \notin Enqueued /\ Enqueued \subseteq Pubs
      /\ \A p \in Enqueued : msg'[p] = msg[p]
      /\ c \in Pubs => msg'[c] = m
  BY <1>1, NotYet, EnqueuedPubs DEF Publishes
<1>5. /\ Enqueued' = Enqueued \cup ({c} \cap Pubs)
      /\ \A p, q : Before(order', p, q) =>
            \/ Before(order, p, q) /\ q # c
            \/ q = c /\ c \in Pubs /\ p \in Enqueued
  <2>1. CASE c \notin Pubs
    <3>1. order' = order /\ Enqueued' = Enqueued
      BY <1>2, <2>1 DEF Enqueued
    <3>2. \A p, q : Before(order', p, q) => Before(order, p, q) /\ q \in Pubs
      BY <1>4, <3>1, BeforeEnqueued
    <3> QED
      BY <2>1, <3>1, <3>2
  <2>2. CASE c \in Pubs
    <3>1. /\ order \in Seq(Pubs) /\ order' \in Seq(Pubs) /\ Len(order') = Len(order) + 1
          /\ \A n \in 1 .. Len(order) : order'[n] = order[n] /\ order[n] \in Enqueued
          /\ order'[Len(order) + 1] = c
      BY <1>1, <1>2, <2>2, AppendProperties DEF TypeOK, Enqueued
    <3>2. Enqueued' = Enqueued \cup {c}
      <4>1. /\ Enqueued = {order[n] : n \in 1 .. Len(order)}
            /\ Enqueued' = {order'[n] : n \in 1 .. Len(order) + 1}
        BY <3>1 DEF Enqueued
      <4>2. Len(order) \in Nat
        BY <3>1
      <4> QED
        BY <3>1, <4>1, <4>2
    <3>3. ASSUME NEW p, NEW q, Before(order', p, q)
          PROVE  \/ Before(order, p, q) /\ q # c
                 \/ q = c /\ p \in Enqueued
      <4>1. PICK a, b \in 1 .. Len(order) + 1 : a < b /\ order'[a] = p /\ order'[b] = q
        BY <3>1, <3>3 DEF Before
      <4>2. a \in 1 .. Len(order) /\ order[a] = p /\ p \in Enqueued
        BY <3>1, <4>1
      <4>3. CASE b = Len(order) + 1
        BY <3>1, <4>1, <4>2, <4>3
      <4>4. CASE b # Len(order) + 1
        <5>1. b \in 1 .. Len(order) /\ order[b] = q /\ q \in Enqueued
          BY <3>1, <4>1, <4>4
        <5> QED
          BY <1>4, <3>1, <4>1, <4>2, <5>1 DEF Before
      <4> QED
        BY <4>3, <4>4
    <3> QED
      BY <2>2, <3>2, <3>3
  <2> QED
    BY <2>1, <2>2
<1>6. /\ Q(e) \in Seq(Message)
      /\ \A d \in Dispatchers : Q(d) \in Seq(Message) /\ Len(Q(d)) \in Nat
      /\ \A n \in 1 .. Len(Q(e)) : Q(e)[n] \in Message /\ Q(e)[n].prio \in Nat
      /\ m.prio \in Nat
      /\ \A a, b \in 1 .. Len(Q(e)) : a < b => Q(e)[a].prio <= Q(e)[b].prio
  <2>1. /\ \A d \in Dispatchers : Q(d) \in Seq(Message) /\ Len(Q(d)) \in Nat
        /\ \A n \in 1 .. Len(Q(e)) : Q(e)[n] \in Message
    BY <1>1, <1>3, QTypes
  <2> QED
    BY <1>1, <1>3, <2>1 DEF Sorted, Message
<1>7. PICK i \in 0 .. Len(Q(e)) :
        /\ Len(Q(e)') = Len(Q(e)) + 1
        /\ \A n \in 1 .. i : Q(e)'[n] = Q(e)[n] /\ Q(e)[n].prio <= m.prio
        /\ Q(e)'[i + 1] = m
        /\ \A n \in i + 2 .. Len(Q(e)) + 1 : Q(e)'[n] = Q(e)[n - 1]
        /\ \A n \in i + 1 .. Len(Q(e)) : m.prio < Q(e)[n].prio
  <2> DEFINE q == Q(e)
  <2>1. q \in Seq(Message) /\ \A a, b \in 1 .. Len(q) : a < b => q[a].prio <= q[b].prio
    BY <1>6
  <2> HIDE DEF q
  <2>2. \E i \in 0 .. Len(q) :
        /\ Len(Insert(q, m)) = Len(q) + 1
        /\ \A n \in 1 .. i : Insert(q, m)[n] = q[n] /\ q[n].prio <= m.prio
        /\ Insert(q, m)[i + 1] = m
        /\ \A n \in i + 2 .. Len(q) + 1 : Insert(q, m)[n] = q[n - 1]
        /\ \A n \in i + 1 .. Len(q) : m.prio < q[n].prio
    BY <2>1, InsertSorted
  <2> QED
    BY <1>3, <2>2 DEF q
\* A message in the longer queue is the new one, or it has kept its order.
<1>8. \A n \in 1 .. Len(Q(e)) + 1 :
        \/ n = i + 1 /\ Q(e)'[n] = m
        \/ n \in 1 .. i /\ n \in 1 .. Len(Q(e)) /\ Q(e)'[n] = Q(e)[n]
        \/ n - 1 \in i + 1 .. Len(Q(e)) /\ n - 1 \in 1 .. Len(Q(e)) /\ Q(e)'[n] = Q(e)[n - 1]
  <2> SUFFICES ASSUME NEW n \in 1 .. Len(Q(e)) + 1
               PROVE  \/ n = i + 1 /\ Q(e)'[n] = m
                      \/ n \in 1 .. i /\ n \in 1 .. Len(Q(e)) /\ Q(e)'[n] = Q(e)[n]
                      \/ n - 1 \in i + 1 .. Len(Q(e)) /\ n - 1 \in 1 .. Len(Q(e)) /\ Q(e)'[n] = Q(e)[n - 1]
    OBVIOUS
  <2>1. Len(Q(e)) \in Nat
    BY <1>3, <1>6
  <2>2. CASE n <= i
    BY <1>7, <2>1, <2>2
  <2>3. CASE n = i + 1
    BY <1>7, <2>3
  <2>4. CASE n > i + 1
    <3>1. n \in i + 2 .. Len(Q(e)) + 1 /\ n - 1 \in i + 1 .. Len(Q(e)) /\ n - 1 \in 1 .. Len(Q(e))
      BY <1>7, <2>1, <2>4
    <3> QED
      BY <1>7, <3>1
  <2> QED
    BY <1>7, <2>1, <2>2, <2>3, <2>4
<1>9. AllPlaced'
  <2> DEFINE Fits(x, d) == x.by \in Pubs => /\ x.by \in Enqueued' /\ x = msg'[x.by]
                                           /\ x.shard = d[1] /\ ClassOf(x) = d[2]
  <2>1. ASSUME NEW x, NEW d, Placed(x, d) PROVE Fits(x, d)
    BY <1>4, <1>5, <2>1 DEF Placed
  <2>2. Fits(m, e)
    BY <1>3, <1>4, <1>5
  <2> HIDE DEF Fits
  <2>3. \A d \in Dispatchers : Fits(hand[d], d)
    BY <1>1, <2>1 DEF AllPlaced
  <2>4. ASSUME NEW d \in Dispatchers, NEW n \in 1 .. Len(Q(d)') PROVE Fits(Q(d)'[n], d)
    <3>1. CASE d # e
      <4>1. Q(d)' = Q(d) /\ n \in 1 .. Len(Q(d))
        BY <1>3, <2>4, <3>1
      <4>2. Fits(Q(d)[n], d)
        BY <1>1, <2>1, <4>1 DEF AllPlaced
      <4> QED
        BY <4>1, <4>2
    <3>2. CASE d = e
      <4>1. \/ Q(e)'[n] = m
            \/ \E k \in 1 .. Len(Q(e)) : Q(e)'[n] = Q(e)[k]
        BY <1>7, <1>8, <3>2
      <4>2. \A k \in 1 .. Len(Q(e)) : Fits(Q(e)[k], e)
        BY <1>1, <1>3, <2>1 DEF AllPlaced
      <4> QED
        BY <2>2, <3>2, <4>1, <4>2
    <3> QED
      BY <3>1, <3>2
  <2> QED
    BY <1>1, <1>2, <1>5, <2>3, <2>4 DEF AllPlaced, Placed, Fits, ClassOf
<1>10. Sorted'
  <2>1. \A a, b \in 1 .. Len(Q(e)') : a < b => Q(e)'[a].prio <= Q(e)'[b].prio
    <3> DEFINE q == Q(e)
    <3>1. q \in Seq(Message) /\ \A a, b \in 1 .. Len(q) : a < b => q[a].prio <= q[b].prio
      BY <1>6
    <3> HIDE DEF q
    <3>2. \A a, b \in 1 .. Len(Insert(q, m)) : a < b => Insert(q, m)[a].prio <= Insert(q, m)[b].prio
      BY <3>1, InsertKeepsSorted
    <3> QED
      BY <1>3, <3>2 DEF q
  <2> QED
    BY <1>1, <1>3, <2>1 DEF Sorted
<1>11. ASSUME NEW p \in Pubs, c \in Pubs, p \in Enqueued,
              msg[p].shard = m.shard, msg[p].prio = m.prio
       PROVE  Follows(p, c)'
  <2>1. ASSUME NEW x, NEW d, Placed(x, d) PROVE x.by # c /\ (x.by = p => d[1] = m.shard /\ d[2] = ClassOf(m) /\ x.prio = m.prio)
    BY <1>4, <1>11, <2>1 DEF Placed, ClassOf
  <2>2. DispatchedBehind(p, c)' /\ TakenBehind(p, c)'
    BY <1>1, <1>2, <1>4, <2>1 DEF AllPlaced, DispatchedBehind, TakenBehind
  <2>3. ASSUME phase # "joining", NEW d \in Dispatchers, NEW j \in 1 .. Len(Q(d)'), Q(d)'[j].by = c
        PROVE  \/ p \in Handled \/ hand[d].by = p
               \/ \E n \in 1 .. Len(Q(d)') : n < j /\ Q(d)'[n].by = p
    <3>1. d = e /\ j = i + 1
      <4>1. \A f \in Dispatchers : \A n \in 1 .. Len(Q(f)) : Q(f)[n].by # c
        BY <1>1, <2>1 DEF AllPlaced
      <4>2. d = e
        BY <1>3, <2>3, <4>1
      <4> QED
        BY <1>3, <1>7, <1>8, <2>3, <4>1, <4>2
    <3>2. p \in Carried
      BY <1>1, <1>11, <2>3 DEF NothingLost, Carried
    <3>3. CASE \E f \in Dispatchers : hand[f].by = p
      <4>1. PICK f \in Dispatchers : hand[f].by = p
        BY <3>3
      <4>2. f[1] = m.shard /\ f[2] = ClassOf(m)
        BY <1>1, <2>1, <4>1 DEF AllPlaced
      <4> QED
        BY <3>1, <4>1, <4>2, DispatcherParts DEF e
    <3>4. CASE p \in Queued
      <4>1. PICK s \in Shards, k \in Classes : \E n \in DOMAIN queue[s][k] : queue[s][k][n].by = p
        BY <3>4 DEF Queued
      <4>2. <<s, k>> \in Dispatchers /\ Q(<<s, k>>) = queue[s][k]
        BY DEF Dispatchers, Q
      <4>3. PICK n \in 1 .. Len(Q(<<s, k>>)) : Q(<<s, k>>)[n].by = p
        BY <1>1, <4>1, <4>2, QTypes
      <4>4. Placed(Q(<<s, k>>)[n], <<s, k>>)
        BY <1>1, <4>2, <4>3 DEF AllPlaced
      <4>5. <<s, k>> = e /\ Q(e)[n].prio = m.prio
        BY <2>1, <4>3, <4>4 DEF e
      <4>6. n \in 1 .. Len(Q(e)) /\ Q(e)[n].by = p
        BY <4>3, <4>5
      <4>7. n \in 1 .. i
        BY <1>3, <1>6, <1>7, <4>5, <4>6
      <4> QED
        BY <1>3, <1>6, <1>7, <3>1, <4>6, <4>7
    <3> QED
      BY <3>2, <3>3, <3>4 DEF Carried
  <2>4. QueuedBehind(p, c)'
    BY <1>2, <2>3 DEF QueuedBehind
  <2> QED
    BY <2>2, <2>4 DEF Follows
<1>12. ASSUME NEW p \in Pubs, NEW q \in Pubs, q # c, Follows(p, q) PROVE Follows(p, q)'
  <2>1. DispatchedBehind(p, q)' /\ TakenBehind(p, q)'
    BY <1>2, <1>12 DEF Follows, DispatchedBehind, TakenBehind, Before
  <2>2. ASSUME phase # "joining", NEW d \in Dispatchers, NEW j \in 1 .. Len(Q(d)'), Q(d)'[j].by = q
        PROVE  \/ p \in Handled \/ hand[d].by = p
               \/ \E n \in 1 .. Len(Q(d)') : n < j /\ Q(d)'[n].by = p
    <3>1. \A k \in 1 .. Len(Q(d)) : Q(d)[k].by = q =>
             \/ p \in Handled \/ hand[d].by = p
             \/ \E n \in 1 .. Len(Q(d)) : n < k /\ Q(d)[n].by = p
      BY <1>12, <2>2 DEF Follows, QueuedBehind
    <3>2. CASE d # e
      BY <1>3, <2>2, <3>1, <3>2
    <3>3. CASE d = e
      <4>1. \/ j \in 1 .. i /\ j \in 1 .. Len(Q(e)) /\ Q(e)[j].by = q
            \/ j - 1 \in i + 1 .. Len(Q(e)) /\ j - 1 \in 1 .. Len(Q(e)) /\ Q(e)[j - 1].by = q
        BY <1>7, <1>8, <1>12, <2>2, <3>3
      <4>2. ASSUME NEW n \in 1 .. Len(Q(e)), Q(e)[n].by = p
            PROVE  \E l \in 1 .. Len(Q(e)') :
                      Q(e)'[l].by = p /\ (l = n \/ (n > i /\ l = n + 1))
        <5>1. CASE n <= i
          <6>1. n \in 1 .. i /\ n \in 1 .. Len(Q(e)')
            BY <1>3, <1>6, <1>7, <5>1
          <6>2. Q(e)'[n].by = p
            BY <1>7, <4>2, <6>1
          <6> QED
            BY <6>1, <6>2
        <5>2. CASE n > i
          <6>1. /\ n + 1 \in i + 2 .. Len(Q(e)) + 1 /\ n + 1 \in 1 .. Len(Q(e)')
                /\ (n + 1) - 1 = n
            BY <1>3, <1>6, <1>7, <5>2
          <6>2. Q(e)'[n + 1] = Q(e)[(n + 1) - 1]
            BY <1>7, <6>1
          <6> QED
            BY <4>2, <5>2, <6>1, <6>2
        <5> QED
          BY <1>3, <1>6, <1>7, <5>1, <5>2
      <4>3. CASE j \in 1 .. i /\ j \in 1 .. Len(Q(e)) /\ Q(e)[j].by = q
        <5>1. \/ p \in Handled \/ hand[e].by = p
              \/ \E n \in 1 .. Len(Q(e)) : n < j /\ Q(e)[n].by = p
          BY <3>1, <3>3, <4>3
        <5>2. ASSUME NEW n \in 1 .. Len(Q(e)), n < j, Q(e)[n].by = p
              PROVE  \E l \in 1 .. Len(Q(e)') : l < j /\ Q(e)'[l].by = p
          <6>1. PICK l \in 1 .. Len(Q(e)') : Q(e)'[l].by = p /\ (l = n \/ (n > i /\ l = n + 1))
            BY <4>2, <5>2
          <6>2. ~(n > i)
            BY <1>7, <4>3, <5>2
          <6> QED
            BY <5>2, <6>1, <6>2
        <5> QED
          BY <3>3, <5>1, <5>2
      <4>4. CASE j - 1 \in i + 1 .. Len(Q(e)) /\ j - 1 \in 1 .. Len(Q(e)) /\ Q(e)[j - 1].by = q
        <5>1. \/ p \in Handled \/ hand[e].by = p
              \/ \E n \in 1 .. Len(Q(e)) : n < j - 1 /\ Q(e)[n].by = p
          BY <3>1, <3>3, <4>4
        <5>2. ASSUME NEW n \in 1 .. Len(Q(e)), n < j - 1, Q(e)[n].by = p
              PROVE  \E l \in 1 .. Len(Q(e)') : l < j /\ Q(e)'[l].by = p
          <6>1. PICK l \in 1 .. Len(Q(e)') : Q(e)'[l].by = p /\ (l = n \/ (n > i /\ l = n + 1))
            BY <4>2, <5>2
          <6>2. l < j
            BY <2>2, <3>3, <5>2, <6>1
          <6> QED
            BY <6>1, <6>2
        <5> QED
          BY <3>3, <5>1, <5>2
      <4> QED
        BY <4>1, <4>3, <4>4
    <3> QED
      BY <3>2, <3>3
  <2>3. QueuedBehind(p, q)'
    BY <1>2, <2>2 DEF QueuedBehind
  <2> QED
    BY <2>1, <2>3 DEF Follows
<1>13. ASSUME NEW p \in Pubs, NEW q \in Pubs, Precedes(p, q)' PROVE Follows(p, q)'
  <2>1. CASE Before(order, p, q) /\ q # c
    <3>1. Precedes(p, q)
      BY <1>4, <1>13, <2>1, BeforeEnqueued DEF Precedes
    <3> QED
      BY <1>12, <2>1, <3>1 DEF OrderInv
  <2>2. CASE q = c /\ c \in Pubs /\ p \in Enqueued
    <3>1. msg[p].shard = m.shard /\ msg[p].prio = m.prio
      BY <1>4, <1>13, <2>2 DEF Precedes
    <3> QED
      BY <1>11, <2>2, <3>1
  <2> QED
    BY <1>5, <1>13, <2>1, <2>2 DEF Precedes
<1> QED
  BY <1>9, <1>10, <1>13 DEF OrderInv

\* A call that goes on with its own message, whether it waits or enqueues it.
LEMMA GoOrder ==
    ASSUME KeyInv, KeptInv, OrderInv, NEW c \in Callers, NEW m \in Message,
           Publishes(c, m), m.by = c, GoGate(c, m) \/ GoPut(c, m) \/ Enqueue(c, m)
    PROVE  OrderInv'
<1>1. CASE WaitAt(c, "gate") \/ WaitAt(c, "put")
  <2>1. UNCHANGED <<queue, hand, order, dispatched, phase>>
    BY <1>1 DEF WaitAt, queues, history, shutdown
  <2>2. TypeOK /\ Known
    BY DEF KeyInv
  <2>3. \A p \in Enqueued : msg'[p] = msg[p]
    BY <2>2, NotYet, EnqueuedPubs DEF Publishes
  <2> QED
    BY <2>1, <2>2, <2>3, QuietOrder
<1>2. CASE Enqueue(c, m)
  BY <1>2, EnqueueOrder
<1> QED
  BY <1>1, <1>2 DEF GoGate, GoPut

\* A dispatcher takes the first of its queue in hand.
LEMMA GetMoves ==
    ASSUME TypeOK, NEW d \in Dispatchers, Get(d)
    PROVE  /\ Len(Q(d)) \in Nat /\ 1 \in 1 .. Len(Q(d)) /\ hand'[d] = Q(d)[1]
           /\ Len(Q(d)') = Len(Q(d)) - 1
           /\ \A n \in 1 .. Len(Q(d)') : n + 1 \in 1 .. Len(Q(d)) /\ Q(d)'[n] = Q(d)[n + 1]
           /\ \A e \in Dispatchers : e # d => hand'[e] = hand[e] /\ Q(e)' = Q(e)
<1>1. Q(d) # <<>>
  BY DEF Get, Q
<1>2. /\ \A e \in Dispatchers : Q(e) \in Seq(Message)
      /\ hand \in [Dispatchers -> Message]
  BY QTypes DEF TypeOK
<1>3. /\ hand'[d] = Head(Q(d)) /\ Q(d)' = Tail(Q(d))
      /\ \A e \in Dispatchers : e # d => hand'[e] = hand[e] /\ Q(e)' = Q(e)
  <2>1. /\ hand' = [hand EXCEPT ![d] = Head(queue[d[1]][d[2]])]
        /\ queue' = [queue EXCEPT ![d[1]][d[2]] = Tail(queue[d[1]][d[2]])]
    BY DEF Get
  <2>2. d[1] \in Shards /\ d[2] \in Classes /\ queue \in [Shards -> [Classes -> Seq(Message)]]
    BY DispatcherParts DEF TypeOK
  <2>3. hand'[d] = Head(Q(d)) /\ \A e \in Dispatchers : e # d => hand'[e] = hand[e]
    BY <1>2, <2>1 DEF Q
  <2>4. Q(d)' = Tail(Q(d))
    BY <2>1, <2>2 DEF Q
  <2>5. ASSUME NEW e \in Dispatchers, e # d PROVE Q(e)' = Q(e)
    <3>1. e[1] \in Shards /\ e[2] \in Classes /\ (e[1] # d[1] \/ e[2] # d[2])
      BY <2>5, DispatcherParts
    <3> QED
      BY <2>1, <2>2, <3>1 DEF Q
  <2> QED
    BY <2>3, <2>4, <2>5
<1>4. /\ Len(Q(d)) \in Nat /\ 1 \in 1 .. Len(Q(d)) /\ hand'[d] = Q(d)[1]
      /\ Len(Q(d)') = Len(Q(d)) - 1
      /\ \A n \in 1 .. Len(Q(d)') : n + 1 \in 1 .. Len(Q(d)) /\ Q(d)'[n] = Q(d)[n + 1]
  <2> DEFINE q == Q(d)
  <2>1. q \in Seq(Message) /\ q # <<>>
    BY <1>1, <1>2
  <2> HIDE DEF q
  <2>2. /\ Head(q) = q[1] /\ Len(q) \in Nat /\ 1 \in 1 .. Len(q)
        /\ Len(Tail(q)) = Len(q) - 1
        /\ \A n \in 1 .. Len(Tail(q)) : n + 1 \in 1 .. Len(q) /\ Tail(q)[n] = q[n + 1]
    BY <2>1, HeadTailProperties
  <2> QED
    BY <1>3, <2>2 DEF q
<1> QED
  BY <1>3, <1>4

\* The first of a queue has nothing of its priority before it.
LEMMA GetOrder ==
    ASSUME TypeOK, Hands, OrderInv, phase # "joining", NEW d \in Dispatchers, Get(d)
    PROVE  OrderInv'
<1>1. /\ at[d] = "get" /\ hand[d] = NoMsg /\ Q(d) # <<>>
      /\ AllPlaced /\ Sorted
      /\ UNCHANGED <<msg, order, dispatched, phase>>
  BY DEF Get, Q, Hands, OrderInv, shutdown, history
<1>2. /\ \A e \in Dispatchers : Q(e) \in Seq(Message) /\ Len(Q(e)) \in Nat
      /\ hand \in [Dispatchers -> Message]
  BY QTypes DEF TypeOK
<1>3. \A e \in Dispatchers : e # d => hand'[e] = hand[e] /\ Q(e)' = Q(e)
  BY GetMoves
<1>4. /\ Len(Q(d)) \in Nat /\ 1 \in 1 .. Len(Q(d)) /\ hand'[d] = Q(d)[1]
      /\ Len(Q(d)') = Len(Q(d)) - 1
      /\ \A n \in 1 .. Len(Q(d)') : n + 1 \in 1 .. Len(Q(d)) /\ Q(d)'[n] = Q(d)[n + 1]
  BY GetMoves
<1>5. Enqueued' = Enqueued /\ Handled' = Handled
  BY <1>1 DEF Enqueued, Handled
<1>6. AllPlaced'
  <2>1. \A e \in Dispatchers : Placed(hand'[e], e)
    BY <1>1, <1>3, <1>4 DEF AllPlaced
  <2>2. \A e \in Dispatchers : \A n \in 1 .. Len(Q(e)') : Placed(Q(e)'[n], e)
    BY <1>1, <1>3, <1>4 DEF AllPlaced
  <2> QED
    BY <1>1, <1>5, <2>1, <2>2 DEF AllPlaced, Placed, ClassOf
<1>7. Sorted'
  <2>1. ASSUME NEW a \in 1 .. Len(Q(d)'), NEW b \in 1 .. Len(Q(d)'), a < b
        PROVE  Q(d)'[a].prio <= Q(d)'[b].prio
    <3>1. /\ a + 1 \in 1 .. Len(Q(d)) /\ b + 1 \in 1 .. Len(Q(d)) /\ a + 1 < b + 1
          /\ Q(d)'[a] = Q(d)[a + 1] /\ Q(d)'[b] = Q(d)[b + 1]
      BY <1>4, <2>1
    <3> QED
      BY <1>1, <3>1 DEF Sorted
  <2> QED
    BY <1>1, <1>3, <2>1 DEF Sorted
<1>8. ASSUME NEW p \in Pubs, NEW q \in Pubs, Precedes(p, q)' PROVE Follows(p, q)'
  <2>1. Precedes(p, q)
    BY <1>1, <1>8 DEF Precedes, Before
  <2>2. DispatchedBehind(p, q) /\ TakenBehind(p, q)
    BY <2>1 DEF OrderInv, Follows
  <2>3. \A e \in Dispatchers : \A j \in 1 .. Len(Q(e)) : Q(e)[j].by = q =>
           \/ p \in Handled \/ hand[e].by = p
           \/ \E i \in 1 .. Len(Q(e)) : i < j /\ Q(e)[i].by = p
    BY <1>1, <2>1 DEF OrderInv, Follows, QueuedBehind
  <2>4. DispatchedBehind(p, q)'
    BY <1>1, <1>5, <2>2 DEF DispatchedBehind, Before
  <2>5. hand[d].by # p
    BY <1>1, BusAssumption DEF NoMsg, Callers
  <2>6. hand'[d].by = q => p \in Handled
    BY <1>4, <2>3, <2>5
  <2>7. TakenBehind(p, q)'
    BY <1>3, <1>5, <2>2, <2>6 DEF TakenBehind
  <2>8. ASSUME NEW j \in 1 .. Len(Q(d)'), Q(d)'[j].by = q
        PROVE  \/ p \in Handled \/ hand'[d].by = p
               \/ \E i \in 1 .. Len(Q(d)') : i < j /\ Q(d)'[i].by = p
    <3>1. j + 1 \in 1 .. Len(Q(d)) /\ Q(d)[j + 1].by = q
      BY <1>4, <2>8
    <3>2. p \in Handled \/ \E i \in 1 .. Len(Q(d)) : i < j + 1 /\ Q(d)[i].by = p
      BY <2>3, <2>5, <3>1
    <3>3. ASSUME NEW i \in 1 .. Len(Q(d)), i < j + 1, Q(d)[i].by = p, i # 1
          PROVE  \E n \in 1 .. Len(Q(d)') : n < j /\ Q(d)'[n].by = p
      <4>1. i - 1 \in 1 .. Len(Q(d)') /\ i - 1 < j /\ (i - 1) + 1 = i
        BY <1>4, <2>8, <3>3
      <4> QED
        BY <1>4, <3>3, <4>1
    <3> QED
      BY <1>4, <3>2, <3>3
  <2>9. ASSUME NEW e \in Dispatchers, NEW j \in 1 .. Len(Q(e)'), Q(e)'[j].by = q
        PROVE  \/ p \in Handled \/ hand'[e].by = p
               \/ \E i \in 1 .. Len(Q(e)') : i < j /\ Q(e)'[i].by = p
    <3>1. CASE e = d
      BY <2>8, <2>9, <3>1
    <3>2. CASE e # d
      <4>1. Q(e)' = Q(e) /\ hand'[e] = hand[e]
        BY <1>3, <3>2
      <4> QED
        BY <2>3, <2>9, <4>1
    <3> QED
      BY <3>1, <3>2
  <2>10. QueuedBehind(p, q)'
    BY <1>5, <2>9 DEF QueuedBehind
  <2> QED
    BY <2>4, <2>7, <2>10 DEF Follows
<1> QED
  BY <1>6, <1>7, <1>8 DEF OrderInv

\* What was ahead of the message in hand has been dispatched.
LEMMA SubmitOrder ==
    ASSUME TypeOK, OrderInv, NEW d \in Dispatchers, Submit(d)
    PROVE  OrderInv'
<1>1. /\ UNCHANGED <<msg, queue, hand, order, phase>> /\ AllPlaced /\ Sorted
      /\ dispatched \in Seq(Pubs)
      /\ dispatched' = IF hand[d].by \in Pubs THEN Append(dispatched, hand[d].by) ELSE dispatched
  BY DEF Submit, queues, shutdown, OrderInv, TypeOK
<1>2. CASE hand[d].by \notin Pubs
  BY <1>1, <1>2, QuietOrder
<1>3. CASE hand[d].by \in Pubs
  <2>1. /\ Len(dispatched') = Len(dispatched) + 1 /\ dispatched' \in Seq(Pubs)
        /\ \A i \in 1 .. Len(dispatched) : dispatched'[i] = dispatched[i]
        /\ dispatched'[Len(dispatched) + 1] = hand[d].by
        /\ Len(dispatched) \in Nat
    BY <1>1, <1>3, AppendProperties
  <2>2. Handled' = Handled \cup {hand[d].by} /\ Enqueued' = Enqueued
    BY <1>1, <2>1 DEF Handled, Enqueued
  <2>3. hand[d].by \in Enqueued
    BY <1>1, <1>3 DEF AllPlaced, Placed
  <2>4. \A e : Q(e)' = Q(e) /\ hand'[e] = hand[e]
    BY <1>1 DEF Q
  <2>5. AllPlaced' /\ Sorted'
    BY <1>1, <2>2, <2>3, <2>4 DEF AllPlaced, Placed, ClassOf, Sorted
  <2>6. ASSUME NEW p \in Pubs, NEW q \in Pubs, Precedes(p, q)' PROVE Follows(p, q)'
    <3>1. Precedes(p, q)
      BY <1>1, <2>6 DEF Precedes, Before
    <3>2. DispatchedBehind(p, q) /\ TakenBehind(p, q) /\ QueuedBehind(p, q)
      BY <3>1 DEF OrderInv, Follows
    <3>3. ASSUME q \in Handled PROVE DispatchedBehind(p, q)'
      <4>1. Before(dispatched, p, q)
        BY <3>2, <3>3 DEF DispatchedBehind
      <4>2. Before(dispatched', p, q)
        BY <1>1, <2>1, <4>1 DEF Before
      <4> QED
        BY <4>2 DEF DispatchedBehind
    <3>4. ASSUME q = hand[d].by PROVE DispatchedBehind(p, q)'
      <4>1. p \in Handled
        BY <3>2, <3>4 DEF TakenBehind
      <4>2. PICK i \in 1 .. Len(dispatched) : dispatched[i] = p
        BY <1>1, <4>1 DEF Handled
      <4>3. i \in 1 .. Len(dispatched') /\ Len(dispatched) + 1 \in 1 .. Len(dispatched') /\ i < Len(dispatched) + 1
        BY <2>1
      <4>4. Before(dispatched', p, q)
        BY <2>1, <3>4, <4>2, <4>3 DEF Before
      <4> QED
        BY <4>4 DEF DispatchedBehind
    <3>5. DispatchedBehind(p, q)'
      BY <2>2, <3>3, <3>4 DEF DispatchedBehind
    <3>6. TakenBehind(p, q)'
      BY <2>2, <2>4, <3>2 DEF TakenBehind
    <3>7. QueuedBehind(p, q)'
      BY <1>1, <2>2, <2>4, <3>2 DEF QueuedBehind
    <3> QED
      BY <3>5, <3>6, <3>7 DEF Follows
  <2> QED
    BY <2>5, <2>6 DEF OrderInv
<1> QED
  BY <1>2, <1>3

\* Hands are emptied, of what is dispatched or when nothing goes on.
LEMMA DropOrder ==
    ASSUME TypeOK, OrderInv, UNCHANGED <<msg, queue, order, dispatched>>,
           phase' # "joining" => phase # "joining",
           \A d \in Dispatchers : \/ hand'[d] = hand[d]
                                  \/ /\ hand'[d] = NoMsg
                                     /\ \/ phase' = "joining"
                                        \/ hand[d].by \in Pubs => hand[d].by \in Handled
    PROVE  OrderInv'
<1>1. Enqueued' = Enqueued /\ Handled' = Handled /\ \A d : Q(d)' = Q(d)
  BY DEF Enqueued, Handled, Q
<1>2. NoMsg.by \notin Pubs
  BY BusAssumption DEF NoMsg, Callers
<1>3. AllPlaced' /\ Sorted'
  BY <1>1, <1>2 DEF OrderInv, AllPlaced, Placed, ClassOf, Sorted
<1>4. ASSUME NEW p \in Pubs, NEW q \in Pubs, Precedes(p, q)' PROVE Follows(p, q)'
  <2>1. Precedes(p, q)
    BY <1>4 DEF Precedes, Before
  <2>2. DispatchedBehind(p, q) /\ TakenBehind(p, q) /\ QueuedBehind(p, q)
    BY <2>1 DEF OrderInv, Follows
  <2>3. DispatchedBehind(p, q)'
    BY <1>1, <2>2 DEF DispatchedBehind, Before
  <2>4. TakenBehind(p, q)'
    BY <1>1, <1>2, <2>2 DEF TakenBehind
  <2>5. ASSUME phase' # "joining", NEW d \in Dispatchers, hand[d].by = p
        PROVE  hand'[d].by = p \/ p \in Handled
    BY <2>5
  <2>6. QueuedBehind(p, q)'
    BY <1>1, <2>2, <2>5 DEF QueuedBehind
  <2> QED
    BY <2>3, <2>4, <2>6 DEF Follows
<1> QED
  BY <1>3, <1>4 DEF OrderInv

\* Every step keeps the order.
LEMMA OrderStep == KeyInv /\ KeptInv /\ DrainInv /\ OrderInv /\ [Next]_vars => OrderInv'
<1> SUFFICES ASSUME KeyInv, KeptInv, DrainInv, OrderInv, [Next]_vars PROVE OrderInv'
  OBVIOUS
<1>1. TypeOK /\ Known /\ Own /\ Hands
  BY DEF KeyInv, KeptInv
<1>2. ASSUME UNCHANGED <<queue, hand, order, dispatched, phase>>,
             UNCHANGED msg \/ \E p \in Pubs : \E x : p \notin Enqueued /\ msg' = [msg EXCEPT ![p] = x]
      PROVE  OrderInv'
  <2>1. \A p \in Enqueued : msg'[p] = msg[p]
    BY <1>1, <1>2, EnqueuedPubs DEF TypeOK
  <2> QED
    BY <1>1, <1>2, <2>1, QuietOrder
<1>3. ASSUME NEW p \in Pubs, NEW k \in Kinds, Call(p, UserMsg(p, k)) PROVE OrderInv'
  <2> DEFINE m == UserMsg(p, k)
  <2>1. m \in Message /\ m.by = p /\ p \in Callers /\ p \notin Dispatchers
    BY BusAssumption DEF UserMsg, Message, Callers
  <2>2. at[p] = "idle" /\ TakeLock(p, m) /\ msg' = [msg EXCEPT ![p] = m]
    BY <1>3 DEF Call
  <2>3. msg' = [b \in Pubs |-> IF b = p THEN m ELSE msg[b]]
    BY <1>1, <2>2 DEF TypeOK
  <2> HIDE DEF m
  <2>4. CASE m.key \notin dedup
    <3>1. Publishes(p, m) /\ GoGate(p, m)
      BY <2>1, <2>2, <2>3, <2>4 DEF Publishes, TakeLock
    <3> QED
      BY <2>1, <3>1, GoOrder
  <2>5. CASE m.key \in dedup
    <3>1. p \notin Enqueued
      BY <1>1, <2>2 DEF Known
    <3>2. UNCHANGED <<queue, hand, order, dispatched, phase>>
      BY <2>2, <2>5 DEF TakeLock, queues, shutdown, history
    <3> QED
      BY <1>2, <2>2, <3>1, <3>2
  <2> QED
    BY <2>4, <2>5
<1>4. ASSUME NEW c \in Callers, Publish(c) PROVE OrderInv'
  <2>1. CASE Gate(c) \/ Put(c)
    <3>1. Msg(c) \in Message /\ Publishes(c, Msg(c))
      BY <2>1, WaiterPublishes
    <3>2. Msg(c).by = c
      BY <1>1, <2>1 DEF Own, Msg, Gate, Put
    <3> QED
      BY <2>1, <3>1, <3>2, GoOrder DEF Gate, Put
  <2>2. CASE Persist(c)
    BY <1>2, <2>2 DEF Persist, queues, shutdown, history
  <2> QED
    BY <1>4, <2>1, <2>2 DEF Publish
<1>5. ASSUME NEW d \in Dispatchers, Dispatch(d) PROVE OrderInv'
  <2>1. d \in Callers /\ d \notin Pubs
    BY DispatcherParts
  <2>2. CASE Event(d)
    <3>1. Msg(d) \in Message /\ Publishes(d, Msg(d)) /\ GoGate(d, Msg(d))
      BY <2>2, EventPublishes
    <3>2. Msg(d).by = d
      BY <2>1 DEF Msg
    <3> QED
      BY <2>1, <3>1, <3>2, GoOrder
  <2>3. CASE Refuse(d)
    BY <1>2, <2>3 DEF Refuse, queues, shutdown, history
  <2>4. CASE Check(d)
    BY <1>2, <2>4 DEF Check, shutdown, history
  <2>5. CASE Submit(d)
    BY <1>1, <2>5, SubmitOrder
  <2>6. CASE Get(d)
    <3>1. phase # "joining"
      BY <2>6 DEF Get, DrainInv
    <3> QED
      BY <1>1, <2>6, <3>1, GetOrder
  <2>7. CASE Done(d) \/ TimeOut(d) \/ Die(d)
    <3>1. /\ at[d] = "bridge" /\ hand' = [hand EXCEPT ![d] = NoMsg]
          /\ UNCHANGED <<msg, queue, order, dispatched, phase>>
      BY <2>7 DEF Done, TimeOut, Die, Raises, Leave, Onward, shutdown, history
    <3>2. \A e \in Dispatchers : \/ hand'[e] = hand[e]
                                 \/ /\ hand'[e] = NoMsg
                                    /\ hand[e].by \in Pubs => hand[e].by \in Handled
      BY <1>1, <3>1 DEF TypeOK, Hands
    <3> QED
      BY <1>1, <3>1, <3>2, DropOrder
  <2> QED
    BY <1>5, <2>2, <2>3, <2>4, <2>5, <2>6, <2>7 DEF Dispatch
<1>6. CASE (\E k \in Keys : Forget(k)) \/ UNCHANGED vars
  BY <1>2, <1>6 DEF Forget, vars, publishing, queues, shutdown, history
<1>7. CASE Shutdown
  <2>1. CASE Stop
    <3>1. UNCHANGED <<msg, queue, hand, order, dispatched>> /\ phase # "joining"
      BY <2>1 DEF Stop, publishing, queues, history
    <3> QED
      BY <1>1, <3>1, QuietOrder
  <2>2. CASE \E s \in Shards, k \in Classes : Join(s, k)
    BY <1>2, <2>2 DEF Join, publishing, queues, history
  <2>3. CASE CancelDispatchers
    <3>1. /\ phase' = "joining" /\ hand' = [d \in Dispatchers |-> NoMsg]
          /\ UNCHANGED <<msg, queue, order, dispatched>>
      BY <2>3 DEF CancelDispatchers, Dropping
    <3> QED
      BY <1>1, <3>1, DropOrder
  <2> QED
    BY <1>7, <2>1, <2>2, <2>3 DEF Shutdown
<1> QED
  BY <1>3, <1>4, <1>5, <1>6, <1>7 DEF Next

\* Messages of one topic and priority reach the subscribers as they were
\* enqueued, whatever waits, failures and urgent messages come between.
THEOREM OrderKept == Spec => []InOrder
<1>1. OrderInv => InOrder
  BY DEF OrderInv, Precedes, Follows, DispatchedBehind, InOrder
<1> QED
  BY <1>1, InitKeyInv, InitKeptInv, InitDrainInv, InitOrderInv,
     KeyStep, KeptStep, DrainStep, OrderStep, PTL DEF Spec


(* Pauses *)

\* A queue that grows is that of the message that is enqueued.
LEMMA PauseStep ==
    ASSUME KeyInv, [Next]_vars, NEW s \in Shards, NEW k \in Classes,
           phase = "up", paused[s], Len(queue'[s][k]) > Len(queue[s][k])
    PROVE  \E c \in Callers : lock = c /\ at[c] = "put" /\ Msg(c).shard = s
<1>1. TypeOK /\ Excl
  BY DEF KeyInv
<1>2. queue[s][k] \in Seq(Message)
  BY <1>1, QueueTypes
<1>3. queue' # queue
  <2>1. Len(queue[s][k]) \in Nat
    BY <1>2
  <2> QED
    BY <2>1
<1>4. ASSUME NEW c \in Callers, NEW m \in Message, Enqueue(c, m) PROVE m.shard = s
  <2>1. CASE m.shard # s
    <3>1. queue'[s][k] = queue[s][k]
      BY <1>1, <1>4, <2>1, EnqueueQueues
    <3>2. Len(queue[s][k]) \in Nat
      BY <1>2
    <3> QED
      BY <3>1, <3>2
  <2> QED
    BY <2>1
<1>5. ASSUME NEW c \in Callers, NEW m \in Message, GoGate(c, m) PROVE FALSE
  <2>1. CASE PausedFor(m)
    BY <1>3, <1>5, <2>1 DEF GoGate, WaitAt, queues
  <2>2. CASE ~PausedFor(m)
    <3>1. Enqueue(c, m)
      BY <1>3, <1>5, <2>2 DEF GoGate, GoPut, WaitAt, queues
    <3> QED
      BY <1>4, <2>2, <3>1 DEF PausedFor
  <2> QED
    BY <2>1, <2>2
<1>6. ASSUME NEW c \in Callers, Publish(c)
      PROVE  lock = c /\ at[c] = "put" /\ Msg(c).shard = s
  <2>1. CASE Gate(c)
    <3>1. Msg(c) \in Message
      BY <2>1, WaiterPublishes
    <3>2. ~PausedFor(Msg(c)) /\ Enqueue(c, Msg(c))
      BY <1>3, <2>1 DEF Gate, GoPut, WaitAt, queues
    <3> QED
      BY <1>4, <3>1, <3>2 DEF PausedFor
  <2>2. CASE Put(c)
    <3>1. Msg(c) \in Message
      BY <2>2, WaiterPublishes
    <3> QED
      BY <1>1, <1>4, <2>2, <3>1 DEF Put, Excl
  <2>3. CASE Persist(c)
    BY <1>3, <2>3 DEF Persist, queues
  <2> QED
    BY <1>6, <2>1, <2>2, <2>3 DEF Publish
<1>7. ASSUME NEW p \in Pubs, NEW j \in Kinds, Call(p, UserMsg(p, j)) PROVE FALSE
  <2>1. UserMsg(p, j) \in Message /\ p \in Callers
    BY BusAssumption DEF UserMsg, Message, Callers
  <2> QED
    BY <1>3, <1>5, <1>7, <2>1 DEF Call, TakeLock, queues
<1>8. ASSUME NEW d \in Dispatchers, Dispatch(d) PROVE FALSE
  <2>1. d \in Callers /\ d[1] \in Shards /\ d[2] \in Classes
    BY DispatcherParts
  <2>2. CASE Event(d)
    BY <1>5, <2>1, <2>2, EventPublishes
  <2>3. CASE Get(d)
    <3>1. /\ queue[d[1]][d[2]] # <<>>
          /\ queue' = [queue EXCEPT ![d[1]][d[2]] = Tail(queue[d[1]][d[2]])]
          /\ queue \in [Shards -> [Classes -> Seq(Message)]]
          /\ queue[d[1]][d[2]] \in Seq(Message)
      BY <1>1, <2>1, <2>3, QueueTypes DEF Get, TypeOK
    <3>2. Len(Tail(queue[d[1]][d[2]])) = Len(queue[d[1]][d[2]]) - 1
      BY <3>1, HeadTailProperties
    <3>3. CASE d[1] = s /\ d[2] = k
      <4>1. queue'[s][k] = Tail(queue[s][k])
        BY <2>1, <3>1, <3>3
      <4>2. Len(queue[s][k]) \in Nat
        BY <1>2
      <4> QED
        BY <3>2, <3>3, <4>1, <4>2
    <3>4. CASE ~(d[1] = s /\ d[2] = k)
      <4>1. queue'[s][k] = queue[s][k]
        BY <2>1, <3>1, <3>4
      <4>2. Len(queue[s][k]) \in Nat
        BY <1>2
      <4> QED
        BY <4>1, <4>2
    <3> QED
      BY <3>3, <3>4
  <2>4. CASE Refuse(d) \/ Check(d) \/ Submit(d) \/ Done(d) \/ TimeOut(d) \/ Die(d)
    BY <1>3, <2>4 DEF Refuse, Check, Submit, Done, TimeOut, Die, Leave, queues
  <2> QED
    BY <1>8, <2>2, <2>3, <2>4 DEF Dispatch
<1>9. CASE (\E j \in Keys : Forget(j)) \/ Shutdown \/ UNCHANGED vars
  BY <1>3, <1>9 DEF Forget, Shutdown, Stop, CancelDispatchers, Dropping, Join, vars, queues
<1> QED
  BY <1>6, <1>7, <1>8, <1>9 DEF Next

\* Nothing enters a paused shard but what had already passed the gate.
THEOREM PausesSafe == Spec => PauseHolds
<1>1. KeyInv /\ [Next]_vars =>
        [\A s \in Shards, k \in Classes :
            /\ phase = "up" /\ paused[s] /\ Len(queue'[s][k]) > Len(queue[s][k])
            => \E c \in Callers : lock = c /\ at[c] = "put" /\ Msg(c).shard = s]_vars
  BY PauseStep
<1> QED
  BY <1>1, InitKeyInv, KeyStep, PTL DEF Spec, PauseHolds


(* Delivery *)

\* A call has the message of its caller.
UserMsgs == {UserMsg(p, k) : p \in Pubs, k \in Kinds}
Named == \A p \in Pubs : at[p] # "idle" => msg[p] \in UserMsgs /\ msg[p].by = p

\* A message that is not dispatched yet is in one place.
HandOnce(d) == at[d] # "bridge" /\ hand[d].by \in Pubs => hand[d].by \notin Handled
QueueOnce(d) ==
    \A i \in 1 .. Len(Q(d)) : Q(d)[i].by \in Pubs =>
        /\ Q(d)[i].by \notin Handled /\ hand[d].by # Q(d)[i].by
        /\ \A j \in 1 .. Len(Q(d)) : Q(d)[j].by = Q(d)[i].by => j = i
Once == \A d \in Dispatchers : HandOnce(d) /\ QueueOnce(d)

\* A message enters the queue of its shard and class, between two parts of it.
LEMMA EnqueueMoves ==
    ASSUME TypeOK, NEW c \in Callers, NEW m \in Message, Enqueue(c, m),
           NEW e, e = <<m.shard, ClassOf(m)>>
    PROVE  /\ e \in Dispatchers /\ \A d \in Dispatchers : d # e => Q(d)' = Q(d)
           /\ \E i \in 0 .. Len(Q(e)) :
                /\ Len(Q(e)') = Len(Q(e)) + 1
                /\ \A n \in 1 .. Len(Q(e)) + 1 :
                      \/ n = i + 1 /\ Q(e)'[n] = m
                      \/ n \in 1 .. i /\ n \in 1 .. Len(Q(e)) /\ Q(e)'[n] = Q(e)[n]
                      \/ n - 1 \in i + 1 .. Len(Q(e)) /\ n - 1 \in 1 .. Len(Q(e)) /\ Q(e)'[n] = Q(e)[n - 1]
<1>1. /\ m.shard \in Shards /\ ClassOf(m) \in Classes
      /\ \A s \in Shards, k \in Classes :
            queue'[s][k] = IF s = m.shard /\ k = ClassOf(m) THEN Insert(queue[s][k], m)
                                                            ELSE queue[s][k]
  BY EnqueueQueues
<1>2. e \in Dispatchers /\ e[1] = m.shard /\ e[2] = ClassOf(m)
  BY <1>1 DEF Dispatchers
<1>3. ASSUME NEW d \in Dispatchers, d # e PROVE Q(d)' = Q(d)
  BY <1>1, <1>3, DispatcherParts DEF Q
<1>4. Q(e)' = Insert(Q(e), m)
  BY <1>1, <1>2 DEF Q
<1>6. PICK i \in 0 .. Len(Q(e)) :
        /\ Len(Q(e)') = Len(Q(e)) + 1
        /\ \A n \in 1 .. i : Q(e)'[n] = Q(e)[n]
        /\ Q(e)'[i + 1] = m
        /\ \A n \in i + 2 .. Len(Q(e)) + 1 : Q(e)'[n] = Q(e)[n - 1]
  <2> DEFINE q == Q(e)
  <2>1. q \in Seq(Message)
    BY <1>2, QTypes
  <2> HIDE DEF q
  <2>2. \E i \in 0 .. Len(q) :
        /\ Len(Insert(q, m)) = Len(q) + 1
        /\ \A n \in 1 .. i : Insert(q, m)[n] = q[n]
        /\ Insert(q, m)[i + 1] = m
        /\ \A n \in i + 2 .. Len(q) + 1 : Insert(q, m)[n] = q[n - 1]
    BY <2>1, InsertShape
  <2>3. Insert(q, m) = Q(e)'
    BY <1>4 DEF q
  <2>4. \E i \in 0 .. Len(q) :
        /\ Len(Q(e)') = Len(q) + 1
        /\ \A n \in 1 .. i : Q(e)'[n] = q[n]
        /\ Q(e)'[i + 1] = m
        /\ \A n \in i + 2 .. Len(q) + 1 : Q(e)'[n] = q[n - 1]
    BY <2>2, <2>3
  <2> QED
    BY <2>4 DEF q
<1>7. ASSUME NEW n \in 1 .. Len(Q(e)) + 1
      PROVE  \/ n = i + 1 /\ Q(e)'[n] = m
             \/ n \in 1 .. i /\ n \in 1 .. Len(Q(e)) /\ Q(e)'[n] = Q(e)[n]
             \/ n - 1 \in i + 1 .. Len(Q(e)) /\ n - 1 \in 1 .. Len(Q(e)) /\ Q(e)'[n] = Q(e)[n - 1]
  <2>1. Len(Q(e)) \in Nat
    BY <1>2, QTypes
  <2>2. CASE n <= i
    <3>1. n \in 1 .. i /\ n \in 1 .. Len(Q(e))
      BY <2>1, <2>2
    <3> QED
      BY <1>6, <3>1
  <2>3. CASE n = i + 1
    BY <1>6, <2>3
  <2>4. CASE n > i + 1
    <3>1. n \in i + 2 .. Len(Q(e)) + 1 /\ n - 1 \in i + 1 .. Len(Q(e)) /\ n - 1 \in 1 .. Len(Q(e))
      BY <1>6, <2>1, <2>4
    <3> QED
      BY <1>6, <3>1
  <2> QED
    BY <1>6, <2>1, <2>2, <2>3, <2>4
<1> QED
  BY <1>2, <1>3, <1>6, <1>7

\* Initially nothing is in any place.
LEMMA InitOnce == Init => Named /\ Once
<1> SUFFICES ASSUME Init PROVE Named /\ Once
  OBVIOUS
<1>1. \A d \in Dispatchers : Q(d) = <<>> /\ hand[d].by \notin Pubs
  BY DispatcherParts, BusAssumption DEF Init, Q, NoMsg, Callers
<1>2. Once
  BY <1>1 DEF Once, HandOnce, QueueOnce
<1>3. Named
  BY DEF Init, Named, Callers
<1> QED
  BY <1>2, <1>3

\* Hands are kept or emptied.
LEMMA DropOnce ==
    ASSUME Once, UNCHANGED <<queue, dispatched>>,
           \A d \in Dispatchers : \/ hand'[d] = NoMsg
                                  \/ hand'[d] = hand[d] /\ (at[d] = "bridge" => at'[d] = "bridge")
    PROVE  Once'
<1>1. Handled' = Handled /\ \A d : Q(d)' = Q(d)
  BY DEF Handled, Q
<1>2. NoMsg.by \notin Pubs
  BY BusAssumption DEF NoMsg, Callers
<1>3. ASSUME NEW d \in Dispatchers PROVE HandOnce(d)'
  <2>1. HandOnce(d)
    BY DEF Once
  <2> QED
    BY <1>1, <1>2, <2>1 DEF HandOnce
<1>4. ASSUME NEW d \in Dispatchers PROVE QueueOnce(d)'
  <2>1. QueueOnce(d)
    BY DEF Once
  <2>2. \A p \in Pubs : hand[d].by # p => hand'[d].by # p
    BY <1>2
  <2> QED
    BY <1>1, <2>1, <2>2 DEF QueueOnce
<1> QED
  BY <1>3, <1>4 DEF Once

\* A message that is enqueued was in no place yet.
LEMMA EnqueueOnce ==
    ASSUME KeyInv, OrderInv, Once, NEW c \in Callers, NEW m \in Message,
           Publishes(c, m), m.by = c, Enqueue(c, m)
    PROVE  Once'
<1> DEFINE e == <<m.shard, ClassOf(m)>>
<1>1. TypeOK /\ Known /\ AllPlaced
  BY DEF KeyInv, OrderInv
<1>2. /\ UNCHANGED <<hand, dispatched>> /\ Handled' = Handled
      /\ \A d \in Dispatchers : at[d] = "bridge" => at'[d] = "bridge"
  <2>1. /\ UNCHANGED <<hand, dispatched>> /\ at[c] # "bridge"
        /\ \E there : at' = [at EXCEPT ![c] = there]
    BY DEF Enqueue, Return, Goto, Publishes
  <2> QED
    BY <1>1, <2>1, DispatcherParts DEF TypeOK, Handled
<1>3. /\ c \notin Enqueued
      /\ \A d \in Dispatchers : hand[d].by \in Pubs => hand[d].by # c
      /\ \A d \in Dispatchers : \A n \in 1 .. Len(Q(d)) : Q(d)[n].by \in Pubs => Q(d)[n].by # c
      /\ c \in Pubs => c \notin Handled
  BY <1>1, NotYet DEF AllPlaced, Placed
<1>4. /\ e \in Dispatchers /\ \A d \in Dispatchers : d # e => Q(d)' = Q(d)
      /\ \E i \in 0 .. Len(Q(e)) :
           /\ Len(Q(e)') = Len(Q(e)) + 1
           /\ \A n \in 1 .. Len(Q(e)) + 1 :
                 \/ n = i + 1 /\ Q(e)'[n] = m
                 \/ n \in 1 .. i /\ n \in 1 .. Len(Q(e)) /\ Q(e)'[n] = Q(e)[n]
                 \/ n - 1 \in i + 1 .. Len(Q(e)) /\ n - 1 \in 1 .. Len(Q(e)) /\ Q(e)'[n] = Q(e)[n - 1]
  BY <1>1, EnqueueMoves
<1> HIDE DEF e
<1>5. PICK i \in 0 .. Len(Q(e)) :
        /\ Len(Q(e)') = Len(Q(e)) + 1
        /\ \A n \in 1 .. Len(Q(e)) + 1 :
              \/ n = i + 1 /\ Q(e)'[n] = m
              \/ n \in 1 .. i /\ n \in 1 .. Len(Q(e)) /\ Q(e)'[n] = Q(e)[n]
              \/ n - 1 \in i + 1 .. Len(Q(e)) /\ n - 1 \in 1 .. Len(Q(e)) /\ Q(e)'[n] = Q(e)[n - 1]
  BY <1>4
<1>6. QueueOnce(e) /\ Len(Q(e)) \in Nat
  BY <1>1, <1>4, QTypes DEF Once
<1>7. ASSUME NEW n \in 1 .. Len(Q(e)'), Q(e)'[n].by \in Pubs
      PROVE  /\ Q(e)'[n].by \notin Handled /\ hand[e].by # Q(e)'[n].by
             /\ \A j \in 1 .. Len(Q(e)') : Q(e)'[j].by = Q(e)'[n].by => j = n
  <2>1. CASE n = i + 1 /\ Q(e)'[n] = m
    <3>1. ASSUME NEW j \in 1 .. Len(Q(e)'), Q(e)'[j].by = c PROVE j = n
      <4>1. j \in 1 .. Len(Q(e)) + 1
        BY <1>5
      <4> QED
        BY <1>3, <1>4, <1>5, <1>7, <2>1, <3>1, <4>1
    <3> QED
      BY <1>3, <1>4, <1>7, <2>1, <3>1
  <2>2. ASSUME NEW a \in 1 .. Len(Q(e)), Q(e)'[n] = Q(e)[a],
               (a = n /\ n \in 1 .. i) \/ (a = n - 1 /\ n - 1 \in i + 1 .. Len(Q(e)))
        PROVE  /\ Q(e)'[n].by \notin Handled /\ hand[e].by # Q(e)'[n].by
               /\ \A j \in 1 .. Len(Q(e)') : Q(e)'[j].by = Q(e)'[n].by => j = n
    <3>1. /\ Q(e)[a].by \in Pubs /\ Q(e)[a].by \notin Handled /\ hand[e].by # Q(e)[a].by
          /\ \A b \in 1 .. Len(Q(e)) : Q(e)[b].by = Q(e)[a].by => b = a
      BY <1>6, <1>7, <2>2 DEF QueueOnce
    <3>2. ASSUME NEW j \in 1 .. Len(Q(e)'), Q(e)'[j].by = Q(e)[a].by PROVE j = n
      <4>1. j \in 1 .. Len(Q(e)) + 1
        BY <1>5
      <4>2. CASE Q(e)'[j] = m
        BY <1>3, <1>4, <3>1, <3>2, <4>2
      <4>3. CASE j \in 1 .. i /\ j \in 1 .. Len(Q(e)) /\ Q(e)'[j] = Q(e)[j]
        <5>1. j = a
          BY <3>1, <3>2, <4>3
        <5> QED
          BY <1>5, <2>2, <4>3, <5>1
      <4>4. CASE j - 1 \in i + 1 .. Len(Q(e)) /\ j - 1 \in 1 .. Len(Q(e)) /\ Q(e)'[j] = Q(e)[j - 1]
        <5>1. j - 1 = a
          BY <3>1, <3>2, <4>4
        <5> QED
          BY <1>5, <2>2, <4>1, <4>4, <5>1
      <4> QED
        BY <1>5, <4>1, <4>2, <4>3, <4>4
    <3> QED
      BY <2>2, <3>1, <3>2
  <2>3. CASE n \in 1 .. i /\ n \in 1 .. Len(Q(e)) /\ Q(e)'[n] = Q(e)[n]
    BY <2>2, <2>3
  <2>4. CASE n - 1 \in i + 1 .. Len(Q(e)) /\ n - 1 \in 1 .. Len(Q(e)) /\ Q(e)'[n] = Q(e)[n - 1]
    <3>1. PICK a \in 1 .. Len(Q(e)) : a = n - 1 /\ n - 1 \in i + 1 .. Len(Q(e)) /\ Q(e)'[n] = Q(e)[a]
      BY <2>4
    <3> QED
      BY <2>2, <3>1
  <2>5. n \in 1 .. Len(Q(e)) + 1
    BY <1>5
  <2> QED
    BY <1>5, <2>1, <2>3, <2>4, <2>5
<1>8. ASSUME NEW d \in Dispatchers PROVE HandOnce(d)'
  BY <1>2 DEF Once, HandOnce
<1>9. ASSUME NEW d \in Dispatchers PROVE QueueOnce(d)'
  <2>1. QueueOnce(e)'
    BY <1>2, <1>7 DEF QueueOnce
  <2>2. CASE d # e
    <3>1. Q(d)' = Q(d) /\ QueueOnce(d)
      BY <1>4, <2>2 DEF Once
    <3> QED
      BY <1>2, <3>1 DEF QueueOnce
  <2> QED
    BY <2>1, <2>2
<1> QED
  BY <1>8, <1>9 DEF Once

\* The message a dispatcher takes is in its hands only.
LEMMA GetOnce ==
    ASSUME TypeOK, Once, NEW d \in Dispatchers, Get(d)
    PROVE  Once'
<1>1. /\ Handled' = Handled
      /\ \A e \in Dispatchers : e # d => at'[e] = at[e]
  BY DispatcherParts DEF Get, Goto, Handled, history, TypeOK
<1>2. /\ Len(Q(d)) \in Nat /\ 1 \in 1 .. Len(Q(d)) /\ hand'[d] = Q(d)[1]
      /\ Len(Q(d)') = Len(Q(d)) - 1
      /\ \A n \in 1 .. Len(Q(d)') : n + 1 \in 1 .. Len(Q(d)) /\ Q(d)'[n] = Q(d)[n + 1]
      /\ \A e \in Dispatchers : e # d => hand'[e] = hand[e] /\ Q(e)' = Q(e)
  BY GetMoves
<1>3. QueueOnce(d)
  BY DEF Once
<1>4. HandOnce(d)'
  BY <1>1, <1>2, <1>3 DEF HandOnce, QueueOnce
<1>5. QueueOnce(d)'
  <2>1. ASSUME NEW n \in 1 .. Len(Q(d)'), Q(d)'[n].by \in Pubs
        PROVE  /\ Q(d)'[n].by \notin Handled /\ hand'[d].by # Q(d)'[n].by
               /\ \A j \in 1 .. Len(Q(d)') : Q(d)'[j].by = Q(d)'[n].by => j = n
    <3>1. n + 1 \in 1 .. Len(Q(d)) /\ Q(d)'[n] = Q(d)[n + 1] /\ n + 1 # 1
      BY <1>2
    <3>2. /\ Q(d)[n + 1].by \notin Handled
          /\ \A b \in 1 .. Len(Q(d)) : Q(d)[b].by = Q(d)[n + 1].by => b = n + 1
      BY <1>3, <2>1, <3>1 DEF QueueOnce
    <3>3. hand'[d].by # Q(d)'[n].by
      BY <1>2, <3>1, <3>2
    <3>4. ASSUME NEW j \in 1 .. Len(Q(d)'), Q(d)'[j].by = Q(d)'[n].by PROVE j = n
      <4>1. j + 1 \in 1 .. Len(Q(d)) /\ Q(d)[j + 1].by = Q(d)[n + 1].by
        BY <1>2, <3>1, <3>4
      <4>2. j + 1 = n + 1
        BY <3>2, <4>1
      <4>3. j \in Int /\ n \in Int
        OBVIOUS
      <4> QED
        BY <4>2, <4>3
    <3> QED
      BY <3>1, <3>2, <3>3, <3>4
  <2> QED
    BY <1>1, <2>1 DEF QueueOnce
<1>6. ASSUME NEW e \in Dispatchers, e # d PROVE HandOnce(e)' /\ QueueOnce(e)'
  <2>1. HandOnce(e) /\ QueueOnce(e) /\ Q(e)' = Q(e) /\ hand'[e] = hand[e]
    BY <1>2, <1>6 DEF Once
  <2>2. HandOnce(e)'
    BY <1>1, <1>6, <2>1 DEF HandOnce
  <2>3. QueueOnce(e)'
    BY <1>1, <2>1 DEF QueueOnce
  <2> QED
    BY <2>2, <2>3
<1> QED
  BY <1>4, <1>5, <1>6 DEF Once

\* What a dispatcher hands out was at no other.
LEMMA SubmitOnce ==
    ASSUME TypeOK, OrderInv, Once, NEW d \in Dispatchers, Submit(d)
    PROVE  Once'
<1>1. /\ UNCHANGED <<queue, hand>> /\ AllPlaced
      /\ at' = [at EXCEPT ![d] = "bridge"]
      /\ dispatched' = IF hand[d].by \in Pubs THEN Append(dispatched, hand[d].by) ELSE dispatched
  BY DEF Submit, Goto, queues, OrderInv
<1>2. at'[d] = "bridge" /\ \A e \in Dispatchers : e # d => at'[e] = at[e]
  BY <1>1, DispatcherParts DEF TypeOK
<1>3. CASE hand[d].by \notin Pubs
  <2>1. dispatched' = dispatched
    BY <1>1, <1>3
  <2> QED
    BY <1>1, <1>2, <2>1, DropOnce
<1>4. CASE hand[d].by \in Pubs
  <2> DEFINE p == hand[d].by
  <2>1. \A x : x \in Handled' => x \in Handled \/ x = p
    <3>1. dispatched \in Seq(Pubs) /\ dispatched' = Append(dispatched, p) /\ p \in Pubs
      BY <1>1, <1>4 DEF TypeOK
    <3> HIDE DEF p
    <3>2. /\ dispatched' \in Seq(Pubs) /\ Len(dispatched') = Len(dispatched) + 1 /\ Len(dispatched) \in Nat
          /\ \A i \in 1 .. Len(dispatched) : dispatched'[i] = dispatched[i]
          /\ dispatched'[Len(dispatched) + 1] = p
      BY <3>1, AppendProperties
    <3> QED
      BY <3>1, <3>2 DEF Handled
  <2>2. p \in Pubs /\ msg[p].shard = d[1] /\ ClassOf(msg[p]) = d[2]
    BY <1>1, <1>4 DEF AllPlaced, Placed
  <2>3. ASSUME NEW e \in Dispatchers, NEW x, Placed(x, e), x.by = p PROVE e = d
    <3>1. x = msg[p] /\ x.shard = e[1] /\ ClassOf(x) = e[2]
      BY <2>2, <2>3 DEF Placed
    <3>2. e[1] = d[1] /\ e[2] = d[2]
      BY <2>2, <3>1
    <3> QED
      BY <3>2, DispatcherParts
  <2> HIDE DEF p
  <2>4. ASSUME NEW e \in Dispatchers PROVE HandOnce(e)'
    <3>1. e # d => hand[e].by # p
      BY <1>1, <2>3 DEF AllPlaced
    <3>2. HandOnce(e)
      BY DEF Once
    <3>3. hand'[e] = hand[e] /\ (at'[e] # "bridge" => at[e] # "bridge" /\ e # d)
      BY <1>1, <1>2
    <3>4. at'[e] # "bridge" /\ hand[e].by \in Pubs => hand[e].by \notin Handled'
      BY <2>1, <3>1, <3>2, <3>3 DEF HandOnce
    <3> QED
      BY <3>3, <3>4 DEF HandOnce
  <2>5. ASSUME NEW e \in Dispatchers PROVE QueueOnce(e)'
    <3>1. QueueOnce(e) /\ QueueOnce(d) /\ Q(e)' = Q(e) /\ hand' = hand
      BY <1>1 DEF Once, Q
    <3>2. ASSUME NEW i \in 1 .. Len(Q(e)), Q(e)[i].by \in Pubs PROVE Q(e)[i].by # p
      <4>1. CASE e = d
        BY <3>1, <3>2, <4>1 DEF QueueOnce, p
      <4>2. CASE e # d
        BY <1>1, <2>3, <4>2 DEF AllPlaced
      <4> QED
        BY <4>1, <4>2
    <3>3. \A i \in 1 .. Len(Q(e)) : Q(e)[i].by \in Pubs => Q(e)[i].by \notin Handled'
      BY <2>1, <3>1, <3>2 DEF QueueOnce
    <3> QED
      BY <3>1, <3>3 DEF QueueOnce
  <2> QED
    BY <2>4, <2>5 DEF Once
<1> QED
  BY <1>3, <1>4

\* A call keeps its message, and takes one when it begins.
LEMMA NamedStep == TypeOK /\ Named /\ [Next]_vars => Named'
<1> SUFFICES ASSUME TypeOK, Named, [Next]_vars PROVE Named'
  OBVIOUS
<1>1. ASSUME msg' = msg, \A p \in Pubs : at[p] = "idle" => at'[p] = "idle" PROVE Named'
  BY <1>1 DEF Named
<1>2. ASSUME msg' = msg, NEW c \in Callers, at[c] # "idle" \/ c \notin Pubs,
             \E there : at' = [at EXCEPT ![c] = there]
      PROVE  Named'
  <2>1. \A p \in Pubs : at[p] = "idle" => at'[p] = "idle"
    BY <1>2 DEF TypeOK, Callers
  <2> QED
    BY <1>1, <1>2, <2>1
<1>3. ASSUME NEW c, NEW m, GoPut(c, m) PROVE \E there : at' = [at EXCEPT ![c] = there]
  BY <1>3 DEF GoPut, WaitAt, Enqueue, Return, Goto
<1>4. ASSUME NEW c, NEW m, TakeLock(c, m) PROVE \E there : at' = [at EXCEPT ![c] = there]
  BY <1>3, <1>4 DEF TakeLock, GoGate, WaitAt, Return, Goto
<1>5. ASSUME NEW p \in Pubs, NEW k \in Kinds, Call(p, UserMsg(p, k)) PROVE Named'
  <2>1. PICK there : at' = [at EXCEPT ![p] = there]
    BY <1>4, <1>5 DEF Call
  <2>2. \A q \in Pubs : q # p => at'[q] = at[q]
    BY <2>1 DEF TypeOK, Callers
  <2>3. msg' = [msg EXCEPT ![p] = UserMsg(p, k)]
    BY <1>5 DEF Call
  <2>4. msg'[p] = UserMsg(p, k) /\ \A q \in Pubs : q # p => msg'[q] = msg[q]
    BY <2>3 DEF TypeOK
  <2>5. UserMsg(p, k) \in UserMsgs /\ UserMsg(p, k).by = p
    BY DEF UserMsgs, UserMsg
  <2> QED
    BY <2>2, <2>4, <2>5 DEF Named
<1>6. ASSUME NEW c \in Callers, Publish(c) PROVE Named'
  <2>1. msg' = msg /\ at[c] # "idle"
    BY <1>6 DEF Publish, Gate, Put, Persist
  <2>2. \E there : at' = [at EXCEPT ![c] = there]
    <3>1. CASE Gate(c) \/ Put(c)
      BY <1>3, <3>1 DEF Gate, Put, Enqueue, Return, Goto
    <3>2. CASE Persist(c)
      BY <3>2 DEF Persist, Return, Goto
    <3> QED
      BY <1>6, <3>1, <3>2 DEF Publish
  <2> QED
    BY <1>2, <2>1, <2>2
<1>7. ASSUME NEW d \in Dispatchers, Dispatch(d) PROVE Named'
  <2>1. d \in Callers /\ d \notin Pubs
    BY DispatcherParts
  <2>2. msg' = msg
    BY <1>7 DEF Dispatch, Refuse, Event, Get, Check, Submit, Done, TimeOut, Die, Raises, Leave
  <2>3. \E there : at' = [at EXCEPT ![d] = there]
    <3>1. CASE Event(d)
      BY <1>4, <3>1 DEF Event
    <3>2. CASE Refuse(d)
      BY <3>2 DEF Refuse, Return, Goto
    <3>3. CASE Get(d) \/ Check(d) \/ Submit(d) \/ Done(d) \/ TimeOut(d) \/ Die(d)
      BY <3>3 DEF Get, Check, Submit, Done, TimeOut, Die, Leave, Goto
    <3> QED
      BY <1>7, <3>1, <3>2, <3>3 DEF Dispatch
  <2> QED
    BY <1>2, <2>1, <2>2, <2>3
<1>8. CASE CancelDispatchers
  <2>1. msg' = msg /\ at' = [c \in Callers |-> IF c \in Pubs THEN at[c] ELSE "stopped"]
    BY <1>8 DEF CancelDispatchers, Dropping
  <2>2. \A p \in Pubs : at'[p] = at[p]
    BY <2>1 DEF Callers
  <2> QED
    BY <1>1, <2>1, <2>2
<1>9. CASE Stop \/ (\E s \in Shards, k \in Classes : Join(s, k)) \/ (\E k \in Keys : Forget(k)) \/ UNCHANGED vars
  <2>1. msg' = msg /\ at' = at
    BY <1>9 DEF Stop, Join, Forget, vars, publishing
  <2> QED
    BY <1>1, <2>1
<1> QED
  BY <1>5, <1>6, <1>7, <1>8, <1>9 DEF Next, Shutdown

\* Every step keeps a message in one place.
LEMMA OnceStep == KeyInv /\ KeptInv /\ OrderInv /\ Once /\ [Next]_vars => Once'
<1> SUFFICES ASSUME KeyInv, KeptInv, OrderInv, Once, [Next]_vars PROVE Once'
  OBVIOUS
<1>1. TypeOK /\ Own
  BY DEF KeyInv, KeptInv
<1>2. ASSUME UNCHANGED <<queue, hand, dispatched>>,
             \A d \in Dispatchers : at[d] = "bridge" => at'[d] = "bridge"
      PROVE  Once'
  BY <1>2, DropOnce
<1>3. ASSUME UNCHANGED <<queue, hand, dispatched>>, NEW c \in Callers, at[c] # "bridge",
             \E there : at' = [at EXCEPT ![c] = there]
      PROVE  Once'
  <2>1. \A d \in Dispatchers : at[d] = "bridge" => at'[d] = "bridge"
    BY <1>1, <1>3, DispatcherParts DEF TypeOK
  <2> QED
    BY <1>2, <1>3, <2>1
<1>4. ASSUME NEW c \in Callers, NEW m \in Message, Publishes(c, m), m.by = c,
             GoGate(c, m) \/ GoPut(c, m) \/ Enqueue(c, m)
      PROVE  Once'
  <2>1. CASE WaitAt(c, "gate") \/ WaitAt(c, "put")
    <3>1. UNCHANGED <<queue, hand, dispatched>> /\ at[c] # "bridge"
      BY <1>4, <2>1 DEF WaitAt, queues, history, Publishes
    <3>2. \E there : at' = [at EXCEPT ![c] = there]
      BY <2>1 DEF WaitAt, Goto
    <3> QED
      BY <1>3, <3>1, <3>2
  <2>2. CASE Enqueue(c, m)
    BY <1>4, <2>2, EnqueueOnce
  <2> QED
    BY <1>4, <2>1, <2>2 DEF GoGate, GoPut
<1>5. ASSUME NEW p \in Pubs, NEW k \in Kinds, Call(p, UserMsg(p, k)) PROVE Once'
  <2> DEFINE m == UserMsg(p, k)
  <2>1. m \in Message /\ m.by = p /\ p \in Callers /\ p \notin Dispatchers
    BY BusAssumption DEF UserMsg, Message, Callers
  <2>2. at[p] = "idle" /\ TakeLock(p, m) /\ msg' = [msg EXCEPT ![p] = m]
    BY <1>5 DEF Call
  <2>3. msg' = [b \in Pubs |-> IF b = p THEN m ELSE msg[b]]
    BY <1>1, <2>2 DEF TypeOK
  <2> HIDE DEF m
  <2>4. CASE m.key \notin dedup
    <3>1. Publishes(p, m) /\ GoGate(p, m)
      BY <2>1, <2>2, <2>3, <2>4 DEF Publishes, TakeLock
    <3> QED
      BY <1>4, <2>1, <3>1
  <2>5. CASE m.key \in dedup
    <3>1. UNCHANGED <<queue, hand, dispatched>>
      BY <2>2, <2>5 DEF TakeLock, queues, history
    <3>2. \E there : at' = [at EXCEPT ![p] = there]
      BY <2>2, <2>5 DEF TakeLock, Return, Goto
    <3> QED
      BY <1>3, <2>1, <2>2, <3>1, <3>2
  <2> QED
    BY <2>4, <2>5
<1>6. ASSUME NEW c \in Callers, Publish(c) PROVE Once'
  <2>1. CASE Gate(c) \/ Put(c)
    <3>1. Msg(c) \in Message /\ Publishes(c, Msg(c))
      BY <2>1, WaiterPublishes
    <3>2. Msg(c).by = c
      BY <1>1, <2>1 DEF Own, Msg, Gate, Put
    <3> QED
      BY <1>4, <2>1, <3>1, <3>2 DEF Gate, Put
  <2>2. CASE Persist(c)
    <3>1. UNCHANGED <<queue, hand, dispatched>> /\ at[c] # "bridge"
      BY <2>2 DEF Persist, queues, history
    <3>2. \E there : at' = [at EXCEPT ![c] = there]
      BY <2>2 DEF Persist, Return, Goto
    <3> QED
      BY <1>3, <3>1, <3>2
  <2> QED
    BY <1>6, <2>1, <2>2 DEF Publish
<1>7. ASSUME NEW d \in Dispatchers, Dispatch(d) PROVE Once'
  <2>1. d \in Callers /\ d \notin Pubs
    BY DispatcherParts
  <2>2. CASE Event(d)
    <3>1. Msg(d) \in Message /\ Publishes(d, Msg(d)) /\ GoGate(d, Msg(d))
      BY <2>2, EventPublishes
    <3>2. Msg(d).by = d
      BY <2>1 DEF Msg
    <3> QED
      BY <1>4, <2>1, <3>1, <3>2
  <2>3. CASE Refuse(d) \/ Check(d)
    <3>1. UNCHANGED <<queue, hand, dispatched>> /\ at[d] # "bridge"
      BY <2>3 DEF Refuse, Check, queues, history
    <3>2. \E there : at' = [at EXCEPT ![d] = there]
      BY <2>3 DEF Refuse, Check, Return, Goto
    <3> QED
      BY <1>3, <2>1, <3>1, <3>2
  <2>4. CASE Submit(d)
    BY <1>1, <2>4, SubmitOnce
  <2>5. CASE Get(d)
    BY <1>1, <2>5, GetOnce
  <2>6. CASE Done(d) \/ TimeOut(d) \/ Die(d)
    <3>1. /\ UNCHANGED <<queue, dispatched>> /\ hand' = [hand EXCEPT ![d] = NoMsg]
          /\ \E there : at' = [at EXCEPT ![d] = there]
      BY <2>6 DEF Done, TimeOut, Die, Raises, Leave, Onward, Goto, history
    <3>2. \A e \in Dispatchers : \/ hand'[e] = NoMsg
                                 \/ hand'[e] = hand[e] /\ (at[e] = "bridge" => at'[e] = "bridge")
      BY <1>1, <3>1, DispatcherParts DEF TypeOK
    <3> QED
      BY <3>1, <3>2, DropOnce
  <2> QED
    BY <1>7, <2>2, <2>3, <2>4, <2>5, <2>6 DEF Dispatch
<1>8. CASE CancelDispatchers
  <2>1. UNCHANGED <<queue, dispatched>> /\ hand' = [d \in Dispatchers |-> NoMsg]
    BY <1>8 DEF CancelDispatchers, Dropping
  <2> QED
    BY <2>1, DropOnce
<1>9. CASE Stop \/ (\E s \in Shards, k \in Classes : Join(s, k)) \/ (\E k \in Keys : Forget(k)) \/ UNCHANGED vars
  <2>1. UNCHANGED <<queue, hand, dispatched, at>>
    BY <1>9 DEF Stop, Join, Forget, vars, publishing, queues, history
  <2> QED
    BY <1>2, <2>1
<1> QED
  BY <1>5, <1>6, <1>7, <1>8, <1>9 DEF Next, Shutdown


(* The queue the bus stands for *)

\* The messages of a sequence of calls.
LEMMA TextsTypes ==
    ASSUME TypeOK, NEW seq \in Seq(Pubs)
    PROVE  /\ Texts(seq) \in Seq(Message) /\ Len(Texts(seq)) = Len(seq)
           /\ DOMAIN Texts(seq) = 1 .. Len(seq)
           /\ \A i \in 1 .. Len(seq) : Texts(seq)[i] = msg[seq[i]]
<1>1. Len(seq) \in Nat /\ DOMAIN seq = 1 .. Len(seq) /\ \A i \in 1 .. Len(seq) : seq[i] \in Pubs
  OBVIOUS
<1>2. \A p \in Pubs : msg[p] \in Message
  BY DEF TypeOK
<1>3. Texts(seq) = [i \in 1 .. Len(seq) |-> msg[seq[i]]]
  BY <1>1 DEF Texts
<1>4. Texts(seq) \in [1 .. Len(seq) -> Message]
  BY <1>1, <1>2, <1>3
<1>5. Texts(seq) \in Seq(Message)
  BY <1>1, <1>4, SeqDef
<1> QED
  BY <1>1, <1>3, <1>5

\* They stay while the calls keep their messages.
LEMMA TextsKept ==
    ASSUME NEW seq, \A i \in DOMAIN seq : msg'[seq[i]] = msg[seq[i]]
    PROVE  [i \in DOMAIN seq |-> msg'[seq[i]]] = Texts(seq)
BY DEF Texts

\* One more call is one more message.
LEMMA TextsAppend ==
    ASSUME TypeOK, NEW seq \in Seq(Pubs), NEW p \in Pubs, NEW m \in Message,
           msg'[p] = m, \A i \in 1 .. Len(seq) : msg'[seq[i]] = msg[seq[i]],
           NEW longer, longer = Append(seq, p)
    PROVE  [i \in DOMAIN longer |-> msg'[longer[i]]] = Append(Texts(seq), m)
<1> DEFINE now == [i \in DOMAIN longer |-> msg'[longer[i]]]
           then == Append(Texts(seq), m)
<1>1. /\ longer \in Seq(Pubs) /\ Len(longer) = Len(seq) + 1 /\ Len(seq) \in Nat
      /\ \A i \in 1 .. Len(seq) : longer[i] = seq[i]
      /\ longer[Len(seq) + 1] = p
  BY AppendProperties
<1>2. DOMAIN longer = 1 .. Len(seq) + 1
  BY <1>1
<1>3. /\ Texts(seq) \in Seq(Message) /\ Len(Texts(seq)) = Len(seq)
      /\ \A i \in 1 .. Len(seq) : Texts(seq)[i] = msg[seq[i]]
  BY TextsTypes
<1> DEFINE old == Texts(seq)
<1> HIDE DEF old
<1>4. /\ old \in Seq(Message) /\ Len(old) = Len(seq)
      /\ \A i \in 1 .. Len(seq) : old[i] = msg[seq[i]]
  BY <1>3 DEF old
<1>5. /\ Append(old, m) \in Seq(Message) /\ Len(Append(old, m)) = Len(seq) + 1
      /\ \A i \in 1 .. Len(seq) : Append(old, m)[i] = msg[seq[i]]
      /\ Append(old, m)[Len(seq) + 1] = m
  BY <1>4, AppendProperties
<1>6. now = [i \in 1 .. Len(seq) + 1 |-> msg'[longer[i]]]
  BY <1>2
<1>7. \A i \in 1 .. Len(seq) + 1 : now[i] = Append(old, m)[i]
  <2> SUFFICES ASSUME NEW i \in 1 .. Len(seq) + 1 PROVE msg'[longer[i]] = Append(old, m)[i]
    BY <1>6
  <2>1. CASE i = Len(seq) + 1
    BY <1>1, <1>5, <2>1
  <2>2. CASE i # Len(seq) + 1
    <3>1. i \in 1 .. Len(seq)
      BY <1>1, <2>2
    <3> QED
      BY <1>1, <1>5, <3>1
  <2> QED
    BY <2>1, <2>2
<1>8. Append(old, m) = [i \in 1 .. Len(seq) + 1 |-> Append(old, m)[i]]
  <2> DEFINE r == Append(old, m)
  <2>1. r \in [1 .. Len(r) -> Message] /\ Len(r) = Len(seq) + 1
    BY <1>5, LenProperties
  <2> QED
    BY <2>1
<1> QED
  BY <1>6, <1>7, <1>8 DEF old

\* The abstract queue has taken what is enqueued, and delivered what is handled.
LEMMA ByTexts ==
    ASSUME TypeOK, Known, Named, Handled \subseteq Enqueued
    PROVE  /\ Service!By(Texts(order)) = Enqueued
           /\ Service!By(Texts(dispatched)) = Handled
           /\ \A p \in Enqueued : p \in Pubs /\ msg[p].by = p
<1>1. \A p \in Enqueued : p \in Pubs /\ msg[p].by = p
  BY EnqueuedPubs DEF Known, Named
<1>2. order \in Seq(Pubs) /\ dispatched \in Seq(Pubs)
  BY DEF TypeOK
<1>3. ASSUME NEW seq \in Seq(Pubs), \A i \in DOMAIN seq : seq[i] \in Enqueued
      PROVE  Service!By(Texts(seq)) = {seq[i] : i \in DOMAIN seq}
  <2>1. /\ DOMAIN Texts(seq) = 1 .. Len(seq) /\ DOMAIN seq = 1 .. Len(seq)
        /\ \A i \in 1 .. Len(seq) : Texts(seq)[i] = msg[seq[i]]
    BY <1>3, TextsTypes
  <2>2. \A i \in 1 .. Len(seq) : Texts(seq)[i].by = seq[i]
    BY <1>1, <1>3, <2>1
  <2> QED
    BY <2>1, <2>2 DEF Service!By
<1>4. Service!By(Texts(order)) = Enqueued
  BY <1>2, <1>3 DEF Enqueued
<1>5. Service!By(Texts(dispatched)) = Handled
  <2>1. \A i \in DOMAIN dispatched : dispatched[i] \in Enqueued
    BY DEF Handled
  <2> QED
    BY <1>2, <1>3, <2>1 DEF Handled
<1> QED
  BY <1>1, <1>4, <1>5

\* What the proof of a step needs of the state before it.
QueueInv == KeyInv /\ KeptInv /\ DrainInv /\ OrderInv /\ Named /\ Once

LEMMA QueueParts ==
    ASSUME QueueInv
    PROVE  /\ TypeOK /\ Known /\ Named /\ Once /\ Answers /\ AllPlaced
           /\ Handled \subseteq Enqueued /\ Enqueued \subseteq Pubs
           /\ Service!By(Texts(order)) = Enqueued
           /\ Service!By(Texts(dispatched)) = Handled
           /\ \A p \in Enqueued : p \in Pubs /\ msg[p].by = p
<1>1. /\ TypeOK /\ Known /\ Named /\ Once /\ Answers /\ AllPlaced
      /\ Handled \subseteq Enqueued
  BY DEF QueueInv, KeyInv, KeptInv, OrderInv, AllPlaced
<1> QED
  BY <1>1, ByTexts, EnqueuedPubs

\* The texts stay in a step that adds none.
LEMMA TextsSame ==
    ASSUME QueueInv, order' = order, dispatched' = dispatched,
           \A p \in Enqueued : msg'[p] = msg[p]
    PROVE  Texts(order)' = Texts(order) /\ Texts(dispatched)' = Texts(dispatched)
<1>1. Handled \subseteq Enqueued
  BY QueueParts
<1>2. \A i \in DOMAIN order : msg'[order[i]] = msg[order[i]]
  BY DEF Enqueued
<1>3. \A i \in DOMAIN dispatched : msg'[dispatched[i]] = msg[dispatched[i]]
  BY <1>1 DEF Handled
<1> QED
  BY <1>2, <1>3, TextsKept DEF Texts

\* A caller that goes from one await to another ends no dispatcher.
LEMMA HaltedGo ==
    ASSUME TypeOK, NEW c \in Callers, NEW there, at' = [at EXCEPT ![c] = there],
           c \in Dispatchers => at[c] # "stopped" /\ there # "stopped"
    PROVE  Halted' = Halted
<1>1. \A d \in Dispatchers : at'[d] = IF d = c THEN there ELSE at[d]
  BY DispatcherParts DEF TypeOK
<1>2. \A d \in Dispatchers : at'[d] = "stopped" <=> at[d] = "stopped"
  BY <1>1
<1> QED
  BY <1>2 DEF Halted

\* Waits, pauses, events and the dispatchers' steps between two deliveries.
LEMMA QuietQueue ==
    ASSUME QueueInv, Halted' = Halted, UNCHANGED <<order, dispatched, answer, dedup, early>>,
           \A p \in Enqueued : msg'[p] = msg[p],
           dlq' \cap Pubs = dlq \cap Pubs,
           phase' = "joining" <=> phase = "joining",
           joined' = Dispatchers <=> joined = Dispatchers
    PROVE  UNCHANGED Service!vars
<1>1. Texts(order)' = Texts(order) /\ Texts(dispatched)' = Texts(dispatched)
  BY TextsSame
<1>2. (phase = "joining")' = (phase = "joining") /\ (joined = Dispatchers)' = (joined = Dispatchers)
  OBVIOUS
<1> QED
  BY <1>1, <1>2 DEF Service!vars

\* Where a caller goes that enqueues its message.
LEMMA EnqueueGoes ==
    ASSUME NEW c \in Callers, NEW m \in Message, Publishes(c, m), Enqueue(c, m)
    PROVE  /\ at[c] # "stopped"
           /\ \E there : there # "stopped" /\ at' = [at EXCEPT ![c] = there]
BY DEF Publishes, Enqueue, Return, Goto

\* A user's message is taken at the end of the order.
LEMMA EnqueueAccepts ==
    ASSUME QueueInv, NEW p \in Pubs, NEW m \in Message, m.by = p,
           Publishes(p, m), Enqueue(p, m)
    PROVE  Service!Accept(m)
<1>1. /\ TypeOK /\ Known /\ Answers /\ Handled \subseteq Enqueued /\ Enqueued \subseteq Pubs
      /\ Service!By(Texts(order)) = Enqueued
  BY QueueParts
<1>2. /\ p \notin Enqueued /\ m.key \notin dedup /\ answer[p] = "none"
      /\ msg'[p] = m /\ \A q \in Enqueued : msg'[q] = msg[q]
  BY <1>1, NotYet DEF Publishes, Answers
<1>3. /\ order' = Append(order, p)
      /\ dedup' = dedup \cup ({m.key} \ {NoKey})
      /\ answer' = answer \/ answer' = [answer EXCEPT ![p] = "true"]
      /\ UNCHANGED <<dispatched, dlq, early, phase, joined>>
  BY DEF Enqueue, Remember, Return, shutdown
<1>4. Texts(order)' = Append(Texts(order), m)
  <2>1. order \in Seq(Pubs) /\ DOMAIN order = 1 .. Len(order)
    BY <1>1, LenProperties DEF TypeOK
  <2>1a. \A i \in 1 .. Len(order) : msg'[order[i]] = msg[order[i]]
    BY <1>1, <1>2, <2>1, EnqueuedPubs
  <2>2. [i \in DOMAIN order' |-> msg'[order'[i]]] = Append(Texts(order), m)
    BY <1>1, <1>2, <1>3, <2>1, <2>1a, TextsAppend
  <2> QED
    BY <2>2 DEF Texts
<1>5. Texts(dispatched)' = Texts(dispatched)
  <2>1. \A i \in DOMAIN dispatched : msg'[dispatched[i]] = msg[dispatched[i]]
    BY <1>1, <1>2 DEF Handled
  <2> QED
    BY <1>3, <2>1, TextsKept DEF Texts
<1>6. (phase = "joining")' = (phase = "joining") /\ (joined = Dispatchers)' = (joined = Dispatchers)
  BY <1>3
<1>7. m.by \notin Service!By(Texts(order))
  BY <1>1, <1>2
<1>8. Halted' = Halted
  BY <1>1, EnqueueGoes, HaltedGo DEF Callers
<1> QED
  BY <1>2, <1>3, <1>4, <1>5, <1>6, <1>7, <1>8 DEF Service!Accept

\* A caller that goes on with its message has it taken, or waits.
LEMMA GoAccepts ==
    ASSUME QueueInv, NEW c \in Callers, NEW m \in Message, Publishes(c, m),
           c \in Pubs => m.by = c /\ m \in UserMsgs,
           GoGate(c, m) \/ GoPut(c, m) \/ Enqueue(c, m)
    PROVE  Service!Next \/ UNCHANGED Service!vars
<1>1. TypeOK /\ \A p \in Enqueued : msg'[p] = msg[p]
  BY QueueParts, NotYet DEF Publishes
<1>2. CASE WaitAt(c, "gate") \/ WaitAt(c, "put")
  <2>1. UNCHANGED <<order, dispatched, answer, dedup, early, dlq, phase, joined>>
    BY <1>2 DEF WaitAt, shutdown, history
  <2>2. Halted' = Halted
    BY <1>1, <1>2, HaltedGo DEF WaitAt, Goto, Publishes
  <2> QED
    BY <1>1, <2>1, <2>2, QuietQueue
<1>3. CASE Enqueue(c, m) /\ c \in Pubs
  <2>1. Service!Accept(m) /\ m \in {UserMsg(p, k) : p \in Pubs, k \in Kinds}
    BY <1>3, EnqueueAccepts DEF UserMsgs
  <2> QED
    BY <2>1 DEF Service!Next
<1>4. CASE Enqueue(c, m) /\ c \notin Pubs
  <2>1. UNCHANGED <<order, dispatched, answer, early, dlq, phase, joined>>
    BY <1>4 DEF Enqueue, Return, shutdown
  <2>2. dedup' = dedup
    BY <1>4 DEF Enqueue, Remember, Publishes, Callers
  <2>3. Halted' = Halted
    BY <1>1, <1>4, EnqueueGoes, HaltedGo
  <2> QED
    BY <1>1, <2>1, <2>2, <2>3, QuietQueue
<1> QED
  BY <1>2, <1>3, <1>4 DEF GoGate, GoPut

\* A user's message that goes to the subscribers is the next of its kind.
LEMMA SubmitDelivers ==
    ASSUME QueueInv, NEW d \in Dispatchers, Submit(d), hand[d].by \in Pubs
    PROVE  \E i \in DOMAIN Texts(order) : Service!Deliver(i)
<1> DEFINE p == hand[d].by
<1>1. /\ TypeOK /\ Once /\ AllPlaced /\ Handled \subseteq Enqueued
      /\ Service!By(Texts(dispatched)) = Handled
      /\ \A q \in Enqueued : q \in Pubs /\ msg[q].by = q
  BY QueueParts
<1>2. /\ p \in Pubs /\ p \in Enqueued /\ hand[d] = msg[p]
      /\ p \notin Handled /\ phase # "joining"
  BY <1>1 DEF AllPlaced, Placed, Once, HandOnce, Submit, QueueInv, DrainInv
<1>3. /\ dispatched' = Append(dispatched, p)
      /\ UNCHANGED <<msg, order, answer, dlq, dedup, early, phase, joined>>
  BY DEF Submit, shutdown
<1> HIDE DEF p
<1>4. /\ order \in Seq(Pubs) /\ dispatched \in Seq(Pubs) /\ msg[p] \in Message
      /\ DOMAIN Texts(order) = 1 .. Len(order)
      /\ \A i \in 1 .. Len(order) : Texts(order)[i] = msg[order[i]]
  BY <1>1, <1>2, TextsTypes DEF TypeOK
<1>5. PICK i \in 1 .. Len(order) : order[i] = p
  BY <1>2, <1>4 DEF Enqueued
<1>6. Texts(order)[i] = msg[p] /\ Texts(order)[i].by = p
  BY <1>1, <1>2, <1>4, <1>5
<1>7. ASSUME NEW j \in 1 .. i - 1,
             Texts(order)[j].shard = Texts(order)[i].shard,
             Texts(order)[j].prio = Texts(order)[i].prio
      PROVE  Texts(order)[j].by \in Handled
  <2>1. j \in 1 .. Len(order) /\ j < i /\ Texts(order)[j] = msg[order[j]]
    BY <1>4
  <2>2. order[j] \in Pubs /\ order[j] \in Enqueued
    BY <1>4, <2>1 DEF Enqueued
  <2>3. Before(order, order[j], p)
    BY <1>4, <1>5, <2>1 DEF Before
  <2>4. Precedes(order[j], p)
    BY <1>6, <1>7, <2>1, <2>3 DEF Precedes
  <2>5. TakenBehind(order[j], p)
    BY <1>2, <2>2, <2>4 DEF QueueInv, OrderInv, Follows
  <2>6. order[j] \in Handled
    BY <2>5 DEF TakenBehind, p
  <2> QED
    BY <1>1, <2>1, <2>2, <2>6
<1>8. Texts(dispatched)' = Append(Texts(dispatched), Texts(order)[i])
  <2>1. [n \in DOMAIN dispatched' |-> msg'[dispatched'[n]]] = Append(Texts(dispatched), msg[p])
    <3> DEFINE m == msg[p]
    <3>1. m \in Message /\ msg'[p] = m
      BY <1>3, <1>4
    <3>2. \A n \in 1 .. Len(dispatched) : msg'[dispatched[n]] = msg[dispatched[n]]
      BY <1>3
    <3>3. /\ TypeOK /\ dispatched \in Seq(Pubs) /\ p \in Pubs
          /\ dispatched' = Append(dispatched, p)
      BY <1>1, <1>2, <1>3, <1>4
    <3> HIDE DEF m
    <3>4. [n \in DOMAIN dispatched' |-> msg'[dispatched'[n]]] = Append(Texts(dispatched), m)
      BY <3>1, <3>2, <3>3, TextsAppend
    <3> QED
      BY <3>4 DEF m
  <2> QED
    BY <1>6, <2>1 DEF Texts
<1>9. Texts(order)' = Texts(order)
  BY <1>3 DEF Texts
<1>10. (phase = "joining")' = (phase = "joining") /\ (joined = Dispatchers)' = (joined = Dispatchers)
  BY <1>3
<1>11. Service!LineOf(Texts(order)[i]) \notin Halted
  <2>1. msg[p].shard = d[1] /\ ClassOf(msg[p]) = d[2]
    BY <1>1, <1>2 DEF AllPlaced, Placed
  <2>2. Service!LineOf(msg[p]) = d
    BY <2>1, DispatcherParts DEF Service!LineOf, ClassOf
  <2>3. d \notin Halted
    BY DEF Halted, Submit
  <2> QED
    BY <1>6, <2>2, <2>3
<1>12. Halted' = Halted
  BY <1>1, HaltedGo, DispatcherParts DEF Submit, Goto
<1>13. Service!Deliver(i)
  BY <1>1, <1>2, <1>3, <1>6, <1>7, <1>8, <1>9, <1>10, <1>11, <1>12 DEF Service!Deliver
<1> QED
  BY <1>4, <1>13

\* Initially the abstract queue is empty, and there is something to drain.
LEMMA InitQueue == Init => Service!Init
<1> SUFFICES ASSUME Init PROVE Service!Init
  OBVIOUS
<1>1. /\ order = <<>> /\ dispatched = <<>> /\ answer = [p \in Pubs |-> "none"]
      /\ dlq \cap Pubs = {} /\ dedup = {} /\ early = {} /\ phase = "up" /\ joined = {}
  BY DEF Init
<1>2. Texts(<<>>) = <<>>
  BY DEF Texts
<1>3. (phase = "joining") = FALSE
  BY <1>1
<1>4. (joined = Dispatchers) = FALSE
  <2>1. <<EventShard, "normal">> \in Dispatchers
    BY BusAssumption DEF Dispatchers, Classes
  <2> QED
    BY <1>1, <2>1
<1>5. Halted = {}
  BY DispatcherParts DEF Init, Halted
<1> QED
  BY <1>1, <1>2, <1>3, <1>4, <1>5 DEF Service!Init

\* The calls: what they do after the deduplication, and the rest.
LEMMA CallPromised ==
    ASSUME QueueInv, NEW p \in Pubs, NEW k \in Kinds, Call(p, UserMsg(p, k))
    PROVE  Service!Next \/ UNCHANGED Service!vars
<1> DEFINE m == UserMsg(p, k)
<1>1. /\ TypeOK /\ Known /\ Answers /\ Service!By(Texts(order)) = Enqueued
      /\ Enqueued \subseteq Pubs
  BY QueueParts
<1>2. /\ m \in Message /\ m.by = p /\ m \in UserMsgs
      /\ p \in Callers /\ p \notin Dispatchers
  BY BusAssumption DEF UserMsg, UserMsgs, Message, Callers
<1>3. at[p] = "idle" /\ TakeLock(p, m) /\ msg' = [msg EXCEPT ![p] = m]
  BY DEF Call
<1>4. msg' = [b \in Pubs |-> IF b = p THEN m ELSE msg[b]]
  BY <1>1, <1>3 DEF TypeOK
<1> HIDE DEF m
<1>5. CASE m.key \notin dedup
  <2>1. Publishes(p, m) /\ GoGate(p, m)
    BY <1>2, <1>3, <1>4, <1>5 DEF Publishes, TakeLock
  <2> QED
    BY <1>2, <2>1, GoAccepts
<1>6. CASE m.key \in dedup
  <2>1. /\ answer' = [answer EXCEPT ![p] = "duplicate"]
        /\ UNCHANGED <<order, dispatched, dedup, dlq, early, phase, joined>>
    BY <1>3, <1>6 DEF TakeLock, Return, shutdown, history
  <2>2. p \notin Enqueued /\ answer[p] = "none"
    BY <1>1, <1>3 DEF Known, Answers
  <2>3. \A q \in Enqueued : msg'[q] = msg[q]
    BY <1>1, <1>4, <2>2
  <2>4. Texts(order)' = Texts(order) /\ Texts(dispatched)' = Texts(dispatched)
    BY <2>1, <2>3, TextsSame
  <2>5. (phase = "joining")' = (phase = "joining") /\ (joined = Dispatchers)' = (joined = Dispatchers)
    BY <2>1
  <2>6. dedup # {} /\ p \notin Service!By(Texts(order))
    BY <1>1, <1>6, <2>2
  <2>7. Halted' = Halted
    BY <1>1, <1>2, <1>3, <1>6, HaltedGo DEF TakeLock, Return, Goto
  <2>8. Service!Refuse(p)
    BY <2>1, <2>2, <2>4, <2>5, <2>6, <2>7 DEF Service!Refuse, Service!Answers
  <2> QED
    BY <2>8 DEF Service!Next
<1> QED
  BY <1>5, <1>6

\* The answer after a save; that of an event is heard by nobody.
LEMMA PersistPromised ==
    ASSUME QueueInv, NEW c \in Callers, Persist(c)
    PROVE  Service!Next \/ UNCHANGED Service!vars
<1>1. TypeOK /\ Answers /\ Service!By(Texts(order)) = Enqueued
  BY QueueParts
<1>2. /\ at[c] = "persist"
      /\ UNCHANGED <<msg, order, dispatched, dedup, early, phase, joined>>
  BY DEF Persist, shutdown, history
<1>3. \/ Return(c, "true") /\ dlq' = dlq
      \/ Return(c, "false") /\ dlq' = dlq \cup {c}
  BY DEF Persist
<1>3a. Halted' = Halted
  <2>1. \E there : there # "stopped" /\ at' = [at EXCEPT ![c] = there]
    BY <1>3 DEF Return, Goto
  <2> QED
    BY <1>1, <1>2, <2>1, HaltedGo
<1>4. CASE c \in Pubs
  <2>1. answer[c] = "none" /\ c \in Service!By(Texts(order))
    BY <1>1, <1>2, <1>4 DEF Answers
  <2>2. Texts(order)' = Texts(order) /\ Texts(dispatched)' = Texts(dispatched)
    BY <1>2, TextsSame
  <2>3. (phase = "joining")' = (phase = "joining") /\ (joined = Dispatchers)' = (joined = Dispatchers)
    BY <1>2
  <2>4. \/ answer' = [answer EXCEPT ![c] = "true"] /\ (dlq \cap Pubs)' = dlq \cap Pubs
        \/ answer' = [answer EXCEPT ![c] = "false"] /\ (dlq \cap Pubs)' = (dlq \cap Pubs) \cup {c}
    <3>1. CASE Return(c, "true") /\ dlq' = dlq
      BY <1>4, <3>1 DEF Return
    <3>2. CASE Return(c, "false") /\ dlq' = dlq \cup {c}
      BY <1>4, <3>2 DEF Return
    <3> QED
      BY <1>3, <3>1, <3>2
  <2>5. Service!Answer(c)
    BY <1>2, <1>3a, <2>1, <2>2, <2>3, <2>4 DEF Service!Answer, Service!Answers
  <2> QED
    BY <1>4, <2>5 DEF Service!Next
<1>5. CASE c \notin Pubs
  <2>1. answer' = answer /\ dlq' \cap Pubs = dlq \cap Pubs
    BY <1>3, <1>5 DEF Return
  <2> QED
    BY <1>2, <1>3a, <2>1, QuietQueue
<1> QED
  BY <1>4, <1>5

\* A dispatcher that is through with a message goes for the next one, which the
\* users do not see, or has ended, and the deliveries of its queue with it.
LEMMA LeavePromised ==
    ASSUME QueueInv, NEW d \in Dispatchers, Done(d) \/ TimeOut(d) \/ Die(d)
    PROVE  Service!Next \/ UNCHANGED Service!vars
<1>1. TypeOK /\ d \in Callers
  BY QueueParts, DispatcherParts
<1>2. UNCHANGED <<msg, order, dispatched, answer, dedup, early, dlq, phase, joined>>
  BY DEF Done, TimeOut, Die, Leave, shutdown, history
<1>3. /\ at[d] = "bridge"
      /\ at' = [at EXCEPT ![d] = "get"] \/ at' = [at EXCEPT ![d] = "stopped"]
  BY DEF Done, TimeOut, Die, Raises, Leave, Onward, Goto
<1>4. CASE at' = [at EXCEPT ![d] = "get"]
  <2>1. Halted' = Halted
    BY <1>1, <1>3, <1>4, HaltedGo
  <2> QED
    BY <1>2, <2>1, QuietQueue
<1>5. CASE at' = [at EXCEPT ![d] = "stopped"]
  <2>1. \A e \in Dispatchers : at'[e] = IF e = d THEN "stopped" ELSE at[e]
    BY <1>1, <1>5, DispatcherParts DEF TypeOK
  <2>2. Halted' = Halted \cup {d} /\ d \notin Halted
    BY <1>3, <2>1 DEF Halted
  <2>3. Texts(order)' = Texts(order) /\ Texts(dispatched)' = Texts(dispatched)
    BY <1>2, TextsSame
  <2>4. (phase = "joining")' = (phase = "joining") /\ (joined = Dispatchers)' = (joined = Dispatchers)
    BY <1>2
  <2>5. Service!Halt(d)
    BY <1>2, <2>2, <2>3, <2>4 DEF Service!Halt
  <2>6. d \in Service!Lines
    BY DEF Service!Lines, Dispatchers, Classes
  <2> QED
    BY <2>5, <2>6 DEF Service!Next
<1> QED
  BY <1>3, <1>4, <1>5

\* The dispatchers: a delivery, the end of one of them, or nothing the users see.
LEMMA DispatchPromised ==
    ASSUME QueueInv, NEW d \in Dispatchers, Dispatch(d)
    PROVE  Service!Next \/ UNCHANGED Service!vars
<1>1. d \in Callers /\ d \notin Pubs /\ KeyInv /\ TypeOK
  BY DispatcherParts DEF QueueInv, KeyInv
<1>2. CASE Event(d)
  <2>1. Msg(d) \in Message /\ Publishes(d, Msg(d)) /\ GoGate(d, Msg(d))
    BY <1>1, <1>2, EventPublishes
  <2> QED
    BY <1>1, <2>1, GoAccepts
<1>3. CASE Refuse(d)
  <2>1. UNCHANGED <<msg, order, dispatched, answer, dedup, early, dlq, phase, joined>>
    BY <1>1, <1>3 DEF Refuse, Return, shutdown, history
  <2>2. Halted' = Halted
    BY <1>1, <1>3, HaltedGo DEF Refuse, Return, Goto
  <2> QED
    BY <2>1, <2>2, QuietQueue
<1>4. CASE Get(d) \/ Check(d)
  <2>1. UNCHANGED <<msg, order, dispatched, answer, dedup, early, dlq, phase, joined>>
    BY <1>4 DEF Get, Check, shutdown, history
  <2>2. /\ at[d] # "stopped"
        /\ \E there : there # "stopped" /\ at' = [at EXCEPT ![d] = there]
    BY <1>4 DEF Get, Check, Goto
  <2>3. Halted' = Halted
    BY <1>1, <2>2, HaltedGo
  <2> QED
    BY <2>1, <2>3, QuietQueue
<1>5. CASE Submit(d) /\ hand[d].by \in Pubs
  BY <1>5, SubmitDelivers DEF Service!Next
<1>6. CASE Submit(d) /\ hand[d].by \notin Pubs
  <2>1. UNCHANGED <<msg, order, dispatched, answer, dedup, early, dlq, phase, joined>>
    BY <1>6 DEF Submit, shutdown
  <2>2. Halted' = Halted
    BY <1>1, <1>6, HaltedGo DEF Submit, Goto
  <2> QED
    BY <2>1, <2>2, QuietQueue
<1>7. CASE Done(d) \/ TimeOut(d) \/ Die(d)
  BY <1>7, LeavePromised
<1> QED
  BY <1>2, <1>3, <1>4, <1>5, <1>6, <1>7 DEF Dispatch

\* shutdown(): the end of the delivery, and the last queue that is joined.
LEMMA ShutdownPromised ==
    ASSUME QueueInv, QueueInv', Shutdown
    PROVE  Service!Next \/ UNCHANGED Service!vars
<1>1. CASE Stop
  <2>1. UNCHANGED <<msg, order, dispatched, answer, dedup, early, dlq, joined>>
    BY <1>1 DEF Stop, publishing, history
  <2>2. phase' = "joining" <=> phase = "joining"
    BY <1>1 DEF Stop
  <2>3. Halted' = Halted
    BY <1>1 DEF Stop, publishing, Halted
  <2> QED
    BY <2>1, <2>2, <2>3, QuietQueue
<1>2. CASE CancelDispatchers
  <2>1. /\ UNCHANGED <<msg, order, dispatched, answer, dedup, dlq, joined>>
        /\ phase = "stopping" /\ phase' = "joining" /\ early' = Enqueued
    BY <1>2 DEF CancelDispatchers, Dropping, Enqueued
  <2>2. Texts(order)' = Texts(order) /\ Texts(dispatched)' = Texts(dispatched)
    BY <2>1, TextsSame
  <2>3. (phase = "joining") = FALSE /\ (phase = "joining")' = TRUE
    BY <2>1
  <2>4. (joined = Dispatchers)' = (joined = Dispatchers) /\ early' = Service!By(Texts(order))
    BY <2>1, QueueParts
  <2>5. Halted' = Service!Lines
    <3>1. at' = [c \in Callers |-> IF c \in Pubs THEN at[c] ELSE "stopped"]
      BY <1>2 DEF CancelDispatchers, Dropping
    <3>2. \A d \in Dispatchers : at'[d] = "stopped"
      BY <3>1, DispatcherParts
    <3> QED
      BY <3>2 DEF Halted, Service!Lines, Dispatchers, Classes
  <2>6. Service!End
    BY <2>1, <2>2, <2>3, <2>4, <2>5 DEF Service!End
  <2> QED
    BY <2>6 DEF Service!Next
<1>3. ASSUME NEW s \in Shards, NEW k \in Classes, Join(s, k)
      PROVE  Service!Next \/ UNCHANGED Service!vars
  <2>1. /\ UNCHANGED <<msg, order, dispatched, answer, dedup, early, dlq, phase>>
        /\ phase = "joining" /\ <<s, k>> \notin joined
    BY <1>3 DEF Join, publishing, queues, history
  <2>2. joined # Dispatchers /\ Halted' = Halted
    BY <1>3, <2>1 DEF Join, publishing, Dispatchers, Halted
  <2>3. CASE joined' # Dispatchers
    BY <2>1, <2>2, <2>3, QuietQueue
  <2>4. CASE joined' = Dispatchers
    <3>1. early \subseteq Handled
      <4>1. DrainInv'
        BY DEF QueueInv
      <4>2. early' \subseteq Handled'
        BY <2>4, <4>1 DEF DrainInv, Unfinished
      <4> QED
        BY <2>1, <4>2 DEF Handled
    <3>2. early \subseteq Service!By(Texts(dispatched))
      BY <3>1, QueueParts
    <3>3. Texts(order)' = Texts(order) /\ Texts(dispatched)' = Texts(dispatched)
      BY <2>1, TextsSame
    <3>4. (phase = "joining") = TRUE /\ (phase = "joining")' = TRUE
      BY <2>1
    <3>5. (joined = Dispatchers) = FALSE /\ (joined = Dispatchers)' = TRUE
      BY <2>2, <2>4
    <3>6. Service!Drain
      BY <2>1, <2>2, <3>2, <3>3, <3>4, <3>5 DEF Service!Drain
    <3> QED
      BY <3>6 DEF Service!Next
  <2> QED
    BY <2>3, <2>4
<1> QED
  BY <1>1, <1>2, <1>3 DEF Shutdown

\* Every step is a step of the abstract queue, or none.
LEMMA QueueStep == QueueInv /\ QueueInv' /\ [Next]_vars => [Service!Next]_(Service!vars)
<1> SUFFICES ASSUME QueueInv, QueueInv', [Next]_vars
             PROVE  Service!Next \/ UNCHANGED Service!vars
  OBVIOUS
<1>1. KeyInv /\ TypeOK /\ Named
  BY DEF QueueInv, KeyInv
<1>2. ASSUME NEW c \in Callers, Publish(c) PROVE Service!Next \/ UNCHANGED Service!vars
  <2>1. CASE Gate(c) \/ Put(c)
    <3>1. Msg(c) \in Message /\ Publishes(c, Msg(c))
      BY <1>1, <2>1, WaiterPublishes
    <3>2. c \in Pubs => Msg(c).by = c /\ Msg(c) \in UserMsgs
      BY <1>1, <2>1 DEF Named, Msg, Gate, Put
    <3>3. GoPut(c, Msg(c)) \/ Enqueue(c, Msg(c))
      BY <2>1 DEF Gate, Put
    <3> QED
      BY <3>1, <3>2, <3>3, GoAccepts
  <2>2. CASE Persist(c)
    BY <2>2, PersistPromised
  <2> QED
    BY <1>2, <2>1, <2>2 DEF Publish
<1>3. ASSUME NEW k \in Keys, Forget(k) PROVE Service!Next \/ UNCHANGED Service!vars
  <2>1. /\ UNCHANGED <<msg, order, dispatched, answer, early, dlq, phase, joined>>
        /\ k \in dedup /\ dedup' = dedup \ {k}
    BY <1>3 DEF Forget, publishing, shutdown
  <2>2. Texts(order)' = Texts(order) /\ Texts(dispatched)' = Texts(dispatched)
    BY <2>1, TextsSame
  <2>3. (phase = "joining")' = (phase = "joining") /\ (joined = Dispatchers)' = (joined = Dispatchers)
    BY <2>1
  <2>4. Halted' = Halted
    BY <1>3 DEF Forget, publishing, Halted
  <2>5. Service!Forget(k)
    BY <2>1, <2>2, <2>3, <2>4 DEF Service!Forget
  <2> QED
    BY <2>1, <2>5 DEF Service!Next
<1>4. CASE UNCHANGED vars
  <2>1. UNCHANGED <<msg, order, dispatched, answer, dedup, early, dlq, phase, joined>>
    BY <1>4 DEF vars, publishing, shutdown, history
  <2>2. Halted' = Halted
    BY <1>4 DEF vars, publishing, Halted
  <2> QED
    BY <2>1, <2>2, QuietQueue
<1>5. ASSUME NEW p \in Pubs, NEW k \in Kinds, Call(p, UserMsg(p, k))
      PROVE  Service!Next \/ UNCHANGED Service!vars
  BY <1>5, CallPromised
<1>6. ASSUME NEW d \in Dispatchers, Dispatch(d) PROVE Service!Next \/ UNCHANGED Service!vars
  BY <1>6, DispatchPromised
<1>7. CASE Shutdown
  BY <1>7, ShutdownPromised
<1> QED
  BY <1>2, <1>3, <1>4, <1>5, <1>6, <1>7 DEF Next

\* The bus, with its locks, waits, pauses and dispatchers, is one queue that
\* takes a message once and delivers it at most once, in its turn, until an error
\* or shutdown ends the dispatcher of its shard and class.
THEOREM ImplementsQueue == Spec => ActsAsQueue
<1>1. Init => QueueInv
  BY InitKeyInv, InitKeptInv, InitDrainInv, InitOrderInv, InitOnce DEF QueueInv
<1>2. QueueInv /\ [Next]_vars => QueueInv'
  <2> SUFFICES ASSUME QueueInv, [Next]_vars PROVE QueueInv'
    OBVIOUS
  <2>1. KeyInv /\ KeptInv /\ DrainInv /\ OrderInv /\ Named /\ Once /\ TypeOK
    BY DEF QueueInv, KeyInv
  <2>2. KeyInv'
    BY <2>1, KeyStep
  <2>3. KeptInv' /\ DrainInv' /\ OrderInv'
    BY <2>1, <2>2, KeptStep, DrainStep, OrderStep
  <2>4. Named' /\ Once'
    BY <2>1, NamedStep, OnceStep
  <2> QED
    BY <2>2, <2>3, <2>4 DEF QueueInv
<1> QED
  BY <1>1, <1>2, InitQueue, QueueStep, PTL DEF Spec, ActsAsQueue, Service!Spec

=============================================================================
