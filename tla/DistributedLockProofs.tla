----------------------- MODULE DistributedLockProofs -----------------------
(***************************************************************************)
(* Type correctness and the exclusion that leases give, for any set of     *)
(* processes and any number of retries.                                    *)
(***************************************************************************)
EXTENDS DistributedLock, TLAPS

\* An acquire() under way has an attempt left: what keeps the count in type.
AttemptsLeft == \A p \in Procs : pc[p] \in {"ping", "set"} => attempts[p] < MaxRetries

TypeInv == TypeOK /\ AttemptsLeft

\* A process inside with a live lease is the one whose uuid Redis holds.
HoldsLease(p) == Inside(p) /\ ~solo[p] /\ ~lapsed[p]
LeaseInv == \A p \in Procs : HoldsLease(p) => key = p

\* Initially no acquire() is under way and nobody is inside.
LEMMA InitInv == Init => TypeInv /\ LeaseInv
  BY LockAssumption DEF Init, TypeInv, TypeOK, AttemptsLeft, LeaseInv, HoldsLease, Inside

\* Every operation of the lock keeps its types and its attempt count.
LEMMA TypeStep == TypeInv /\ [Next]_vars => TypeInv'
<1> SUFFICES ASSUME TypeInv, [Next]_vars
             PROVE  TypeInv'
  OBVIOUS
<1> USE LockAssumption DEF TypeInv, TypeOK, AttemptsLeft
<1>1. ASSUME NEW p \in Procs, NEW b \in BOOLEAN, Acquire(p, b)
      PROVE  TypeInv'
  BY <1>1 DEF Acquire
<1>2. ASSUME NEW p \in Procs, Connect(p)
      PROVE  TypeInv'
  BY <1>2 DEF Connect, EnterAlone
<1>3. ASSUME NEW p \in Procs, SetWins(p)
      PROVE  TypeInv'
  BY <1>3 DEF SetWins
<1>4. ASSUME NEW p \in Procs, SetLoses(p)
      PROVE  TypeInv'
  BY <1>4 DEF SetLoses, Retry
<1>5. ASSUME NEW p \in Procs, SetRaises(p)
      PROVE  TypeInv'
  BY <1>5 DEF SetRaises, Retry
<1>6. ASSUME NEW p \in Procs, Release(p)
      PROVE  TypeInv'
  BY <1>6 DEF Release
<1>7. ASSUME NEW p \in Procs, Crash(p)
      PROVE  TypeInv'
  BY <1>7 DEF Crash
<1>8. CASE Expire
  BY <1>8 DEF Expire, Inside
<1>9. CASE RedisFlips
  BY <1>9 DEF RedisFlips
<1>10. CASE UNCHANGED vars
  BY <1>10 DEF vars
<1> QED
  BY <1>1, <1>2, <1>3, <1>4, <1>5, <1>6, <1>7, <1>8, <1>9, <1>10 DEF Next, Step

\* Every operation keeps a live lease and the key in Redis together: the key
\* is taken only when free, freed only by its owner or by the expiry, which
\* ends the lease.
LEMMA LeaseStep == TypeInv /\ LeaseInv /\ [Next]_vars => LeaseInv'
<1> SUFFICES ASSUME TypeInv, LeaseInv, [Next]_vars,
                    NEW q \in Procs, HoldsLease(q)'
             PROVE  key' = q
  BY DEF LeaseInv
<1> USE LockAssumption DEF TypeInv, TypeOK, LeaseInv, HoldsLease, Inside
<1>1. ASSUME NEW p \in Procs, NEW b \in BOOLEAN, Acquire(p, b)
      PROVE  key' = q
  BY <1>1 DEF Acquire
<1>2. ASSUME NEW p \in Procs, Connect(p)
      PROVE  key' = q
  BY <1>2 DEF Connect, EnterAlone
<1>3. ASSUME NEW p \in Procs, SetWins(p)
      PROVE  key' = q
  BY <1>3 DEF SetWins
<1>4. ASSUME NEW p \in Procs, SetLoses(p) \/ SetRaises(p)
      PROVE  key' = q
  BY <1>4 DEF SetLoses, SetRaises, Retry
<1>5. ASSUME NEW p \in Procs, Release(p)
      PROVE  key' = q
  BY <1>5 DEF Release
<1>6. ASSUME NEW p \in Procs, Crash(p)
      PROVE  key' = q
  BY <1>6 DEF Crash
<1>7. CASE Expire
  BY <1>7 DEF Expire
<1>8. CASE RedisFlips
  BY <1>8 DEF RedisFlips
<1>9. CASE UNCHANGED vars
  BY <1>9 DEF vars
<1> QED
  BY <1>1, <1>2, <1>3, <1>4, <1>5, <1>6, <1>7, <1>8, <1>9 DEF Next, Step

\* The lock's state is well typed in every behaviour.
THEOREM TypeCorrect == Spec => []TypeOK
<1>1. TypeInv => TypeOK
  BY DEF TypeInv
<1> QED
  BY <1>1, InitInv, TypeStep, PTL DEF Spec

\* Processes let in through Redis and within their lease exclude one another,
\* whatever crashes, lost replies, retries and foreign releases there are.
THEOREM LeasesExclude == Spec => []ExclusionUnderLease
<1>1. LeaseInv => ExclusionUnderLease
  BY DEF LeaseInv, HoldsLease, ExclusionUnderLease
<1> QED
  BY <1>1, InitInv, TypeStep, LeaseStep, PTL DEF Spec

\* No step of another process takes the key away from a process inside: it
\* loses it by leaving, by its own crash, or to the expiry.
THEOREM OwnerOnlyReleases == Spec => OnlyOwnerReleases
<1> DEFINE Kept == \A p \in Procs : key = p /\ Inside(p) /\ key' # p
                                        => pc'[p] = "idle" \/ lapsed'[p]
<1>1. TypeInv /\ [Next]_vars => [Kept]_vars
  <2> SUFFICES ASSUME TypeInv, Next,
                      NEW q \in Procs, key = q, Inside(q), key' # q
               PROVE  pc'[q] = "idle" \/ lapsed'[q]
    OBVIOUS
  <2> USE LockAssumption DEF TypeInv, TypeOK, Inside
  <2>1. ASSUME NEW p \in Procs, Step(p)
        PROVE  pc'[q] = "idle" \/ lapsed'[q]
    BY <2>1 DEF Step, Acquire, Connect, EnterAlone, SetWins, SetLoses,
                SetRaises, Retry, Release
  <2>2. ASSUME NEW p \in Procs, Crash(p)
        PROVE  pc'[q] = "idle" \/ lapsed'[q]
    BY <2>2 DEF Crash
  <2>3. CASE Expire
    BY <2>3 DEF Expire
  <2>4. CASE RedisFlips
    BY <2>4 DEF RedisFlips
  <2> QED
    BY <2>1, <2>2, <2>3, <2>4 DEF Next
<1> QED
  BY <1>1, InitInv, TypeStep, PTL DEF Spec, OnlyOwnerReleases

\* The flag says who is inside: every way in sets it, every way out clears it.
LEMMA FlagStep == TypeInv /\ AcquiredIffInside /\ [Next]_vars => AcquiredIffInside'
<1> SUFFICES ASSUME TypeInv, AcquiredIffInside, [Next]_vars
             PROVE  AcquiredIffInside'
  OBVIOUS
<1> USE DEF TypeInv, TypeOK, AcquiredIffInside, Inside
<1>1. ASSUME NEW p \in Procs, NEW b \in BOOLEAN, Acquire(p, b)
      PROVE  AcquiredIffInside'
  BY <1>1 DEF Acquire
<1>2. ASSUME NEW p \in Procs, Connect(p)
      PROVE  AcquiredIffInside'
  BY <1>2 DEF Connect, EnterAlone
<1>3. ASSUME NEW p \in Procs, SetWins(p)
      PROVE  AcquiredIffInside'
  BY <1>3 DEF SetWins
<1>4. ASSUME NEW p \in Procs, SetLoses(p) \/ SetRaises(p)
      PROVE  AcquiredIffInside'
  BY <1>4 DEF SetLoses, SetRaises, Retry
<1>5. ASSUME NEW p \in Procs, Release(p)
      PROVE  AcquiredIffInside'
  BY <1>5 DEF Release
<1>6. ASSUME NEW p \in Procs, Crash(p)
      PROVE  AcquiredIffInside'
  BY <1>6 DEF Crash
<1>7. CASE Expire \/ RedisFlips
  BY <1>7 DEF Expire, RedisFlips
<1>8. CASE UNCHANGED vars
  BY <1>8 DEF vars
<1> QED
  BY <1>1, <1>2, <1>3, <1>4, <1>5, <1>6, <1>7, <1>8 DEF Next, Step

\* No False answer, failed ping, lost reply or release leaves the flag wrong.
THEOREM FlagCorrect == Spec => []AcquiredIffInside
<1>1. Init => AcquiredIffInside
  BY DEF Init, AcquiredIffInside, Inside
<1> QED
  BY <1>1, InitInv, TypeStep, FlagStep, PTL DEF Spec

----------------------------------------------------------------------------
(* The lock is a lease *)

\* Who comes in through Redis comes in with a fresh lease.
FreshOutside == \A p \in Procs : ~Inside(p) => ~solo[p] /\ ~lapsed[p]

LEMMA FreshStep == TypeInv /\ FreshOutside /\ [Next]_vars => FreshOutside'
<1> SUFFICES ASSUME TypeInv, FreshOutside, [Next]_vars PROVE FreshOutside'
  OBVIOUS
<1> USE DEF TypeInv, TypeOK, FreshOutside, Inside
<1>1. ASSUME NEW p \in Procs, NEW b \in BOOLEAN, Acquire(p, b) PROVE FreshOutside'
  BY <1>1 DEF Acquire
<1>2. ASSUME NEW p \in Procs, Connect(p) PROVE FreshOutside'
  BY <1>2 DEF Connect, EnterAlone
<1>3. ASSUME NEW p \in Procs, SetWins(p) PROVE FreshOutside'
  BY <1>3 DEF SetWins
<1>4. ASSUME NEW p \in Procs, SetLoses(p) \/ SetRaises(p) PROVE FreshOutside'
  BY <1>4 DEF SetLoses, SetRaises, Retry
<1>5. ASSUME NEW p \in Procs, Release(p) \/ Crash(p) PROVE FreshOutside'
  BY <1>5 DEF Release, Crash
<1>6. CASE Expire \/ RedisFlips
  BY <1>6 DEF Expire, RedisFlips
<1>7. CASE UNCHANGED vars
  BY <1>7 DEF vars
<1> QED
  BY <1>1, <1>2, <1>3, <1>4, <1>5, <1>6, <1>7 DEF Next, Step

\* How p stands, read from the variables of its own.
Stand(p) == IF pc[p] = "idle" THEN "out" ELSE IF pc[p] # "inside" THEN "asking"
            ELSE IF solo[p] THEN "alone" ELSE IF lapsed[p] THEN "overdue" ELSE "holding"

\* A step that changes the variables of one process turns no other.
LEMMA OneTurns ==
    ASSUME NEW p \in Procs, NEW to, Stand(p)' = to,
           \A q \in Procs \ {p} : /\ pc'[q] = pc[q]
                                  /\ solo'[q] = solo[q] /\ lapsed'[q] = lapsed[q]
    PROVE  Mode[p] = Stand(p) /\ Mode' = [Mode EXCEPT ![p] = to]
<1>1. \A q \in Procs : Mode[q] = Stand(q) /\ Mode'[q] = Stand(q)'
  BY DEF Mode, Stand
<1>2. \A q \in Procs \ {p} : Mode'[q] = Mode[q]
  BY DEF Mode
<1>3. Mode' = [q \in Procs |-> Mode'[q]] /\ Mode = [q \in Procs |-> Mode[q]]
  BY DEF Mode
<1> QED
  BY <1>1, <1>2, <1>3

\* A step that leaves everybody where he stood.
LEMMA NobodyTurns ==
    ASSUME \A q \in Procs : Stand(q)' = Stand(q)
    PROVE  Mode' = Mode
BY DEF Mode, Stand

\* Every operation is a step of the lease, or none.
LEMMA LeaseSteps ==
    TypeInv /\ LeaseInv /\ FreshOutside /\ [Next]_vars => [Granted!Next]_Mode
<1> SUFFICES ASSUME TypeInv, LeaseInv, FreshOutside, [Next]_vars
             PROVE  Granted!Next \/ Mode' = Mode
  OBVIOUS
<1> USE DEF TypeInv, TypeOK
<1>1. ASSUME NEW p \in Procs, NEW b \in BOOLEAN, Acquire(p, b) PROVE Granted!Ask(p)
  <2>1. Stand(p) = "out" /\ Stand(p)' = "asking"
    BY <1>1 DEF Acquire, Stand
  <2> QED
    BY <1>1, <2>1, OneTurns DEF Acquire, Granted!Ask, Granted!Turn
<1>2. ASSUME NEW p \in Procs, Connect(p) PROVE Granted!EnterAlone(p) \/ Mode' = Mode
  <2>1. /\ Stand(p) = "asking" /\ Stand(p)' \in {"asking", "alone"}
        /\ \A q \in Procs \ {p} : /\ pc'[q] = pc[q]
                                  /\ solo'[q] = solo[q] /\ lapsed'[q] = lapsed[q]
    BY <1>2 DEF Connect, EnterAlone, Stand
  <2>2. CASE Stand(p)' = "alone"
    BY <2>1, <2>2, OneTurns DEF Granted!EnterAlone, Granted!Turn
  <2>3. CASE Stand(p)' = "asking"
    <3>1. \A q \in Procs : Stand(q)' = Stand(q)
      BY <2>1, <2>3 DEF Stand
    <3> QED
      BY <3>1, NobodyTurns
  <2> QED
    BY <2>1, <2>2, <2>3
<1>3. ASSUME NEW p \in Procs, SetWins(p) PROVE Granted!Grant(p)
  <2>1. Stand(p) = "asking" /\ Stand(p)' = "holding"
    BY <1>3 DEF SetWins, Stand, FreshOutside, Inside
  <2>2. \A q \in Procs : Mode[q] # "holding"
    <3>1. key = Free
      BY <1>3 DEF SetWins
    <3> QED
      BY <3>1, LockAssumption DEF LeaseInv, HoldsLease, Inside, Mode
  <2> QED
    BY <1>3, <2>1, <2>2, OneTurns DEF SetWins, Granted!Grant, Granted!Turn
<1>4. ASSUME NEW p \in Procs, SetLoses(p) \/ SetRaises(p) PROVE Granted!Refuse(p) \/ Mode' = Mode
  <2>1. /\ Stand(p) = "asking" /\ Stand(p)' \in {"asking", "out"}
        /\ \A q \in Procs \ {p} : /\ pc'[q] = pc[q]
                                  /\ solo'[q] = solo[q] /\ lapsed'[q] = lapsed[q]
    BY <1>4 DEF SetLoses, SetRaises, Retry, Stand
  <2>2. CASE Stand(p)' = "out"
    BY <2>1, <2>2, OneTurns DEF Granted!Refuse, Granted!Turn
  <2>3. CASE Stand(p)' = "asking"
    <3>1. \A q \in Procs : Stand(q)' = Stand(q)
      BY <2>1, <2>3 DEF Stand
    <3> QED
      BY <3>1, NobodyTurns
  <2> QED
    BY <2>1, <2>2, <2>3
<1>5. ASSUME NEW p \in Procs, Release(p) \/ Crash(p) PROVE Granted!Leave(p)
  <2>1. /\ Stand(p)' = "out"
        /\ \A q \in Procs \ {p} : /\ pc'[q] = pc[q]
                                  /\ solo'[q] = solo[q] /\ lapsed'[q] = lapsed[q]
    BY <1>5 DEF Release, Crash, Stand
  <2> QED
    BY <2>1, OneTurns DEF Granted!Leave
<1>6. ASSUME Expire PROVE (\E p \in Procs : Granted!RunOut(p)) \/ Mode' = Mode
  <2>1. UNCHANGED <<pc, solo>> /\ \A q \in Procs : lapsed'[q] = (lapsed[q] \/ (key = q /\ Inside(q)))
    BY <1>6 DEF Expire
  <2>2. CASE \E p \in Procs : key = p /\ HoldsLease(p)
    <3>1. PICK p \in Procs : key = p /\ HoldsLease(p)
      BY <2>2
    <3>2. /\ Stand(p) = "holding" /\ Stand(p)' = "overdue"
          /\ \A q \in Procs \ {p} : /\ pc'[q] = pc[q]
                                    /\ solo'[q] = solo[q] /\ lapsed'[q] = lapsed[q]
      BY <2>1, <3>1 DEF Stand, HoldsLease, Inside
    <3>3. Granted!RunOut(p)
      BY <3>2, OneTurns DEF Granted!RunOut, Granted!Turn
    <3> QED
      BY <3>3
  <2>3. CASE ~ \E p \in Procs : key = p /\ HoldsLease(p)
    <3>1. \A q \in Procs : Stand(q)' = Stand(q)
      BY <2>1, <2>3 DEF Stand, HoldsLease, Inside
    <3> QED
      BY <3>1, NobodyTurns
  <2> QED
    BY <2>2, <2>3
<1>7. CASE RedisFlips \/ UNCHANGED vars
  BY <1>7 DEF RedisFlips, vars, Mode
<1> QED
  BY <1>1, <1>2, <1>3, <1>4, <1>5, <1>6, <1>7 DEF Next, Step, Granted!Next

\* With its key, its lost replies, retries and crashes, the lock is a lease.
THEOREM ImplementsLease == Spec => ActsAsLease
<1>1. Init => FreshOutside /\ Granted!Init
  BY DEF Init, FreshOutside, Inside, Granted!Init, Mode
<1> QED
  BY <1>1, InitInv, TypeStep, LeaseStep, FreshStep, LeaseSteps, PTL
     DEF Spec, ActsAsLease, Granted!Spec

============================================================================
