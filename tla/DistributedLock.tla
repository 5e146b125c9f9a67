-------------------------- MODULE DistributedLock --------------------------
(***************************************************************************)
(* The Redis lock of server/distributed_lock.py: SET NX EX to acquire, a   *)
(* Lua check-and-delete to release, expiry instead of renewal, and a       *)
(* fallback to "single-instance mode" when Redis cannot be reached.        *)
(*                                                                         *)
(* Each process has one DistributedLock object (get_startup_lock is a      *)
(* singleton).  Every round trip to Redis is one step, so the operations   *)
(* of different processes interleave between them.  The object's uuid is   *)
(* its process; a process that crashes comes back with a fresh uuid, and   *)
(* the key it left in Redis then belongs to nobody: its value is Stale.    *)
(***************************************************************************)
EXTENDS Naturals

CONSTANTS Procs,        \* the processes (containers) sharing one Redis
          NoRedis,      \* those started with SKIP_REDIS_LOCK or a bad URL
          MaxRetries,   \* DistributedLock.max_retries
          Free, Stale   \* values of the key that are no process's uuid

ASSUME LockAssumption == /\ NoRedis \subseteq Procs
                         /\ MaxRetries \in Nat \ {0}
                         /\ Free \notin Procs
                         /\ Stale \notin Procs
                         /\ Free # Stale

VARIABLES key,        \* lock:platform_startup in Redis
          redisUp,    \* does Redis answer within the 1s socket timeout
          client,     \* client[p]: is self._redis_client cached
          acquired,   \* acquired[p]: self._acquired
          pc,         \* where p is in acquire()
          blocking,   \* blocking[p]: the argument of the acquire() under way
          attempts,   \* attempts[p]: the local of that acquire()
          solo,       \* solo[p]: p was let in without Redis (history)
          lapsed      \* lapsed[p]: p's key expired while p was inside (history)

vars == <<key, redisUp, client, acquired, pc, blocking, attempts, solo, lapsed>>

TypeOK == /\ key \in Procs \cup {Free, Stale}
          /\ redisUp \in BOOLEAN
          /\ client \in [Procs -> BOOLEAN]
          /\ acquired \in [Procs -> BOOLEAN]
          /\ pc \in [Procs -> {"idle", "ping", "set", "inside"}]
          /\ blocking \in [Procs -> BOOLEAN]
          /\ attempts \in [Procs -> 0 .. MaxRetries]
          /\ solo \in [Procs -> BOOLEAN]
          /\ lapsed \in [Procs -> BOOLEAN]

Init == /\ key = Free
        /\ redisUp = TRUE
        /\ client = [p \in Procs |-> FALSE]
        /\ acquired = [p \in Procs |-> FALSE]
        /\ pc = [p \in Procs |-> "idle"]
        /\ blocking = [p \in Procs |-> FALSE]
        /\ attempts = [p \in Procs |-> 0]
        /\ solo = [p \in Procs |-> FALSE]
        /\ lapsed = [p \in Procs |-> FALSE]

Inside(p) == pc[p] = "inside"

----------------------------------------------------------------------------
(* acquire() *)

\* acquire() is called; _get_redis_client returns the cached client at once.
Acquire(p, b) ==
    /\ pc[p] = "idle"
    /\ blocking' = [blocking EXCEPT ![p] = b]
    /\ attempts' = [attempts EXCEPT ![p] = 0]
    /\ pc' = [pc EXCEPT ![p] = IF client[p] THEN "set" ELSE "ping"]
    /\ UNCHANGED <<key, redisUp, client, acquired, solo, lapsed>>

\* p enters because there is no Redis client to ask.
EnterAlone(p) ==
    /\ acquired' = [acquired EXCEPT ![p] = TRUE]
    /\ solo' = [solo EXCEPT ![p] = TRUE]
    /\ pc' = [pc EXCEPT ![p] = "inside"]

\* The first call creates the client, caches it, and only then pings: a ping
\* that fails lets p in alone, and leaves the client cached for later calls.
Connect(p) ==
    /\ pc[p] = "ping"
    /\ IF p \in NoRedis
          THEN EnterAlone(p) /\ UNCHANGED client
          ELSE /\ client' = [client EXCEPT ![p] = TRUE]
               /\ IF redisUp THEN /\ pc' = [pc EXCEPT ![p] = "set"]
                                  /\ UNCHANGED <<acquired, solo>>
                             ELSE EnterAlone(p)
    /\ UNCHANGED <<key, redisUp, blocking, attempts, lapsed>>

\* Mutant: the SET has no NX.
SetWithoutNX(p) ==
    /\ pc[p] = "set" /\ redisUp
    /\ key' = p
    /\ acquired' = [acquired EXCEPT ![p] = TRUE]
    /\ pc' = [pc EXCEPT ![p] = "inside"]
    /\ UNCHANGED <<redisUp, client, blocking, attempts, solo, lapsed>>

\* SET NX EX found the key free.
SetWins(p) ==
    /\ pc[p] = "set" /\ redisUp /\ key = Free
    /\ key' = p
    /\ acquired' = [acquired EXCEPT ![p] = TRUE]
    /\ pc' = [pc EXCEPT ![p] = "inside"]
    /\ UNCHANGED <<redisUp, client, blocking, attempts, solo, lapsed>>

\* Mutant: the attempts are not counted.
RetryUncounted(p) ==
    /\ pc' = [pc EXCEPT ![p] = IF blocking[p] THEN "set" ELSE "idle"]
    /\ UNCHANGED attempts

\* One attempt is spent; a non-blocking caller, and one that has used up
\* max_retries, gets False.
Retry(p) ==
    /\ attempts' = [attempts EXCEPT ![p] = @ + 1]
    /\ pc' = [pc EXCEPT ![p] = IF blocking[p] /\ attempts[p] + 1 < MaxRetries
                               THEN "set" ELSE "idle"]

\* SET NX EX found the key set.
SetLoses(p) ==
    /\ pc[p] = "set" /\ redisUp /\ key # Free
    /\ Retry(p)
    /\ UNCHANGED <<key, redisUp, client, acquired, blocking, solo, lapsed>>

\* Mutant: an error lets p in, as a failed ping does, but as one with the key.
SetRaisesEntering(p) ==
    /\ pc[p] = "set"
    /\ \/ ~redisUp /\ UNCHANGED key
       \/ redisUp /\ key' = IF key = Free THEN p ELSE key
    /\ acquired' = [acquired EXCEPT ![p] = TRUE]
    /\ pc' = [pc EXCEPT ![p] = "inside"]
    /\ UNCHANGED <<redisUp, client, blocking, attempts, solo, lapsed>>

\* The SET raises: Redis is down, or it ran and its reply was lost, in which
\* case the key is now p's although p's object does not know it.
SetRaises(p) ==
    /\ pc[p] = "set"
    /\ \/ ~redisUp /\ UNCHANGED key
       \/ redisUp /\ key' = IF key = Free THEN p ELSE key
    /\ Retry(p)
    /\ UNCHANGED <<redisUp, client, acquired, blocking, solo, lapsed>>

----------------------------------------------------------------------------
(* release(), and what happens around the lock *)

\* Mutants: a plain DEL instead of the script; _acquired kept when the script
\* deleted nothing.
ReleaseByDelete(p) ==
    /\ Inside(p)
    /\ key' = IF redisUp /\ client[p] THEN Free ELSE key
    /\ acquired' = [acquired EXCEPT ![p] = FALSE]
    /\ pc' = [pc EXCEPT ![p] = "idle"]
    /\ solo' = [solo EXCEPT ![p] = FALSE]
    /\ lapsed' = [lapsed EXCEPT ![p] = FALSE]
    /\ UNCHANGED <<redisUp, client, blocking, attempts>>
ReleaseRemembering(p) ==
    /\ Inside(p)
    /\ key' = IF redisUp /\ key = p THEN Free ELSE key
    /\ acquired' = [acquired EXCEPT ![p] = redisUp /\ key # p]
    /\ pc' = [pc EXCEPT ![p] = "idle"]
    /\ solo' = [solo EXCEPT ![p] = FALSE]
    /\ lapsed' = [lapsed EXCEPT ![p] = FALSE]
    /\ UNCHANGED <<redisUp, client, blocking, attempts>>

\* Only the holder of the uuid in the key deletes it; an unreachable Redis
\* keeps the key until it expires, yet the object forgets it all the same.
\* A process that entered alone also runs the script, on its cached client.
Release(p) ==
    /\ Inside(p)
    /\ \/ /\ redisUp /\ client[p]
          /\ key' = IF key = p THEN Free ELSE key
       \/ UNCHANGED key
    /\ acquired' = [acquired EXCEPT ![p] = FALSE]
    /\ pc' = [pc EXCEPT ![p] = "idle"]
    /\ solo' = [solo EXCEPT ![p] = FALSE]
    /\ lapsed' = [lapsed EXCEPT ![p] = FALSE]
    /\ UNCHANGED <<redisUp, client, blocking, attempts>>

\* Redis drops the key when its EX runs out; nothing renews it.
Expire ==
    /\ key # Free
    /\ lapsed' = [p \in Procs |-> lapsed[p] \/ (key = p /\ Inside(p))]
    /\ key' = Free
    /\ UNCHANGED <<redisUp, client, acquired, pc, blocking, attempts, solo>>

\* p dies and is restarted: a new object with a new uuid.
Crash(p) ==
    /\ key' = IF key = p THEN Stale ELSE key
    /\ client' = [client EXCEPT ![p] = FALSE]
    /\ acquired' = [acquired EXCEPT ![p] = FALSE]
    /\ pc' = [pc EXCEPT ![p] = "idle"]
    /\ blocking' = [blocking EXCEPT ![p] = FALSE]
    /\ attempts' = [attempts EXCEPT ![p] = 0]
    /\ solo' = [solo EXCEPT ![p] = FALSE]
    /\ lapsed' = [lapsed EXCEPT ![p] = FALSE]
    /\ UNCHANGED redisUp

RedisFlips ==
    /\ redisUp' = ~redisUp
    /\ UNCHANGED <<key, client, acquired, pc, blocking, attempts, solo, lapsed>>

Step(p) == \/ \E b \in BOOLEAN : Acquire(p, b)
           \/ Connect(p) \/ SetWins(p) \/ SetLoses(p) \/ SetRaises(p)
           \/ Release(p)

Next == \/ \E p \in Procs : Step(p) \/ Crash(p)
        \/ Expire
        \/ RedisFlips

Spec == Init /\ [][Next]_vars

\* Redis runs down the key's time to live whatever the processes do, and an
\* acquire() or a release() under way is carried on by its event loop.
FairSpec == /\ Spec
            /\ WF_vars(Expire)
            /\ \A p \in Procs : WF_vars(pc[p] # "idle" /\ Step(p))

----------------------------------------------------------------------------
(* Correctness *)

\* The header promises "exactly-once execution in distributed environments".
\* What the code keeps of it: two processes are inside at once only if one of
\* them was let in without Redis or has outlived its lease.  Retries, lost
\* replies, crashes and releases by others never break the exclusion.
ExclusionUnderLease ==
    \A p, q \in Procs :
        /\ Inside(p) /\ ~solo[p] /\ ~lapsed[p]
        /\ Inside(q) /\ ~solo[q] /\ ~lapsed[q]
        => p = q

\* Lua check-and-delete "prevents accidental release by other instances": a
\* process holding the lock loses its key only by leaving, by its own crash
\* or to the expiry, which the history variable then records.
OnlyOwnerReleases ==
    [][\A p \in Procs : key = p /\ Inside(p) /\ key' # p
                            => pc'[p] = "idle" \/ lapsed'[p]]_vars

\* _acquired is what release() goes by: it is TRUE exactly while the caller
\* is inside, in particular never after a False answer of acquire().
AcquiredIffInside == \A p \in Procs : acquired[p] <=> Inside(p)

\* Whatever replies are lost, keys expire, processes crash or release what is not
\* theirs, the lock is a lease: granted while nobody holds it, and kept until
\* its holder leaves or its time is up.
Mode == [p \in Procs |->
            IF pc[p] = "idle" THEN "out" ELSE IF pc[p] # "inside" THEN "asking"
            ELSE IF solo[p] THEN "alone" ELSE IF lapsed[p] THEN "overdue" ELSE "holding"]
Granted == INSTANCE Lease WITH mode <- Mode
ActsAsLease == Granted!Spec

\* acquire() gives its caller an answer, whatever Redis does.
AcquireReturns ==
    \A p \in Procs : pc[p] \in {"ping", "set"} ~> pc[p] \in {"idle", "inside"}

============================================================================
