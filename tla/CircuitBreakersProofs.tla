------------------------ MODULE CircuitBreakersProofs ------------------------
(***************************************************************************)
(* What the breakers have in common, for every threshold, number of        *)
(* callers and choice of implementations.                                  *)
(***************************************************************************)
EXTENDS CircuitBreakers, TLAPS

\* The count is never behind the streak, and a closed breaker's count is the
\* streak: closing forgets both.
Tally == failures >= streak /\ (state = "closed" => failures = streak /\ failures < Threshold)

\* A full streak within its timeout has opened the breaker; that of the bus may
\* still be half-open.
Shut == streak = Threshold /\ ~cooled =>
            state = "open" \/ (kind = "bus" /\ state = "half-open")

BreakerInv == TypeOK /\ Tally /\ Shut

\* Counting stays below the threshold, and in order.
LEMMA Counting ==
    ASSUME NEW n \in 0 .. Threshold
    PROVE  /\ Bump(n) \in 0 .. Threshold
           /\ \A k \in 0 .. Threshold : k <= n => Bump(k) <= Bump(n)
  BY BreakerAssumption DEF Bump

\* Initially the breaker is closed and nothing has failed.
LEMMA InitInv == Init => BreakerInv
<1> SUFFICES ASSUME Init
             PROVE  BreakerInv
  OBVIOUS
<1>1. 0 \in 0 .. Threshold /\ 0 \in 0 .. RecoveryThreshold - 1 /\ 0 < Threshold
  BY BreakerAssumption
<1>2. attempt \in [Callers -> 0 .. MaxRetries]
  BY BreakerAssumption DEF Init
<1>3. healthy \in BOOLEAN /\ cooled \in BOOLEAN
  BY DEF Init
<1> QED
  BY <1>1, <1>2, <1>3 DEF Init, BreakerInv, TypeOK, Tally, Shut

\* A call that goes through changes no count, and passes a full streak only
\* when its timeout is over.
LEMMA AdmitStep == ASSUME BreakerInv, NEW c \in Callers, Admit(c) PROVE BreakerInv'
<1> USE BreakerAssumption DEF BreakerInv, TypeOK, Tally, Shut
<1>1. attempt' \in [Callers -> 0 .. MaxRetries] /\ UNCHANGED <<kind, cooled, healthy>>
  BY DEF Admit
<1>2. CASE UNCHANGED breaker
  BY <1>1, <1>2 DEF breaker
<1>3. CASE Trial /\ UNCHANGED <<failures, streak>> /\ successes' \in {0, successes}
  BY <1>1, <1>3 DEF Trial
<1>4. CASE Trial /\ failures' = 0 /\ streak' = 0 /\ UNCHANGED successes
  BY <1>1, <1>4 DEF Trial
<1> QED
  BY <1>2, <1>3, <1>4
     DEF Admit, Call, IsOpen, AllowRequest, CanAttempt, KafkaAvailable, CircuitClosed,
         IsPolicyOpen, Through

\* What every failure does to the counts, whichever breaker records it.
LEMMA FailEffect ==
    ASSUME BreakerInv, NEW c \in Callers, Fail(c)
    PROVE  /\ Count /\ UNCHANGED <<kind, healthy>>
           /\ successes' \in {0, successes}
           /\ cooled' \in BOOLEAN
           /\ kind # "bus" => OpenAtThreshold
           /\ kind = "bus" => state' = IF state = "closed" /\ Bump(failures) = Threshold
                                          THEN "open" ELSE state
           /\ ~cooled' => ~cooled \/ kind # "guard" \/ Bump(failures) = Threshold
           /\ attempt' \in [Callers -> 0 .. MaxRetries]
<1> USE BreakerAssumption DEF BreakerInv, TypeOK
<1>1. attempt' \in [Callers -> 0 .. MaxRetries]
  <2>1. Afterwards(c, TRUE) \subseteq 0 .. MaxRetries
    BY DEF Afterwards
  <2>2. PICK a \in Afterwards(c, TRUE) : attempt' = [attempt EXCEPT ![c] = a]
    BY DEF Fail
  <2> QED
    BY <2>1, <2>2
<1> QED
  BY <1>1 DEF Fail, CallFailed, InstanceFailure, ProviderFailure, BusFailure, KafkaFailure,
       DatabaseFailure, PolicyFailure, Count, OpenAtThreshold

\* A failure that fills the streak opens the breaker.
LEMMA FailStep == ASSUME BreakerInv, NEW c \in Callers, Fail(c) PROVE BreakerInv'
<1> USE BreakerAssumption DEF BreakerInv, TypeOK, Tally, Shut
<1>1. failures' = Bump(failures) /\ streak' = Bump(streak)
  BY FailEffect DEF Count
<1>2. failures' \in 0 .. Threshold /\ streak' \in 0 .. Threshold /\ failures' >= streak'
  BY <1>1, Counting
<1>3. /\ state' \in {"closed", "open", "half-open"} /\ kind' = kind
      /\ state' = "closed" => state = "closed" /\ failures' # Threshold
  BY <1>1, FailEffect DEF OpenAtThreshold
<1>4. TypeOK'
  BY <1>2, <1>3, FailEffect
<1>5. Tally'
  BY <1>1, <1>2, <1>3
<1>6. Shut'
  <2> SUFFICES ASSUME streak' = Threshold, ~cooled'
               PROVE  state' = "open" \/ (kind' = "bus" /\ state' = "half-open")
    OBVIOUS
  <2>1. Bump(failures) = Threshold
    BY <1>1, <1>2
  <2>2. CASE kind # "bus"
    BY <2>1, <2>2, FailEffect DEF OpenAtThreshold
  <2>3. CASE kind = "bus"
    BY <2>1, <2>3, <1>3, FailEffect
  <2> QED
    BY <2>2, <2>3
<1> QED
  BY <1>4, <1>5, <1>6

\* A success empties the streak, and what closes the breaker empties the count.
LEMMA SucceedStep == ASSUME BreakerInv, NEW c \in Callers, Succeed(c) PROVE BreakerInv'
<1> USE BreakerAssumption DEF BreakerInv, TypeOK, Tally, Shut
<1>1. attempt' \in [Callers -> 0 .. MaxRetries]
  <2>1. Afterwards(c, FALSE) \subseteq 0 .. MaxRetries
    BY DEF Afterwards
  <2>2. PICK a \in Afterwards(c, FALSE) : attempt' = [attempt EXCEPT ![c] = a]
    BY DEF Succeed
  <2> QED
    BY <2>1, <2>2
<1>2. streak' = 0 /\ UNCHANGED <<kind, cooled, healthy>>
  BY DEF Succeed
<1>3. CASE Reset /\ successes' \in {0, successes}
  BY <1>1, <1>2, <1>3 DEF Reset
<1>4. CASE /\ state = "half-open" /\ successes + 1 < RecoveryThreshold
           /\ successes' = successes + 1 /\ UNCHANGED <<state, failures>>
  BY <1>1, <1>2, <1>4
<1>5. CASE failures' = 0 /\ UNCHANGED <<state, successes>>
  BY <1>1, <1>2, <1>5
<1> QED
  BY <1>3, <1>4, <1>5
     DEF Succeed, CallSucceeded, InstanceSuccess, ProviderSuccess, BusSuccess, KafkaSuccess,
         DatabaseSuccess, PolicySuccess

\* Every step keeps the counts, the state and the timeout in agreement.
LEMMA Step == BreakerInv /\ [Next]_vars => BreakerInv'
<1> SUFFICES ASSUME BreakerInv, [Next]_vars
             PROVE  BreakerInv'
  OBVIOUS
<1>1. ASSUME NEW c \in Callers, Abandon(c)
      PROVE  BreakerInv'
  BY <1>1, BreakerAssumption DEF Abandon, breaker, BreakerInv, TypeOK, Tally, Shut
<1>2. CASE Elapse
  BY <1>2 DEF Elapse, breaker, BreakerInv, TypeOK, Tally, Shut
<1>3. CASE Heal
  BY <1>3 DEF Heal, breaker, BreakerInv, TypeOK, Tally, Shut
<1>4. CASE UNCHANGED vars
  BY <1>4 DEF vars, breaker, BreakerInv, TypeOK, Tally, Shut
<1> QED
  BY <1>1, <1>2, <1>3, <1>4, AdmitStep, FailStep, SucceedStep DEF Next

\* The counters stay in range, whichever breaker runs: no count passes its
\* threshold without the state following it.
THEOREM TypeCorrect == Spec => []TypeOK
<1>1. BreakerInv => TypeOK
  BY DEF BreakerInv
<1> QED
  BY InitInv, Step, <1>1, PTL DEF Spec

\* A closed breaker opens only on a full streak of failures.
THEOREM OpensOnStreak == Spec => TripsOnStreak
<1>1. BreakerInv /\ [Next]_vars =>
        [state = "closed" /\ state' = "open" => streak' = Threshold]_vars
  <2> SUFFICES ASSUME BreakerInv, Next, state = "closed", state' = "open"
               PROVE  streak' = Threshold
    BY DEF vars
  <2>1. ASSUME NEW c \in Callers, Fail(c)
        PROVE  streak' = Threshold
    <3>1. Bump(failures) = Threshold
      BY <2>1, FailEffect DEF OpenAtThreshold
    <3> QED
      BY <2>1, <3>1, FailEffect DEF Count, BreakerInv, Tally
  <2>2. ASSUME NEW c \in Callers, Admit(c)
        PROVE  FALSE
    BY <2>2 DEF Admit, Call, IsOpen, AllowRequest, CanAttempt, KafkaAvailable, CircuitClosed,
                IsPolicyOpen, Through, Trial, breaker
  <2>3. ASSUME NEW c \in Callers, Succeed(c)
        PROVE  FALSE
    BY <2>3 DEF Succeed, CallSucceeded, InstanceSuccess, ProviderSuccess, BusSuccess,
                KafkaSuccess, DatabaseSuccess, PolicySuccess, Reset
  <2> QED
    BY <2>1, <2>2, <2>3 DEF Next, Abandon, Elapse, Heal, breaker
<1> QED
  BY InitInv, Step, <1>1, PTL DEF Spec, TripsOnStreak

\* After a full streak nothing goes through within the timeout.
THEOREM ShieldsService == Spec => Shields
<1> DEFINE Admitted == \A c \in Callers : attempt[c] = 0 => attempt'[c] = 0
<1>1. BreakerInv /\ [Next]_vars => [streak = Threshold /\ ~cooled => Admitted]_vars
  <2> SUFFICES ASSUME BreakerInv, Next, streak = Threshold, ~cooled
               PROVE  Admitted
    BY DEF vars
  <2>1. state = "open" \/ (kind = "bus" /\ state = "half-open")
    BY DEF BreakerInv, Shut
  <2>2. ASSUME NEW c \in Callers, Admit(c)
        PROVE  FALSE
    BY <2>1, <2>2 DEF Admit, Call, IsOpen, AllowRequest, CanAttempt, KafkaAvailable,
                      CircuitClosed, IsPolicyOpen, Trial
  <2>3. ASSUME NEW c \in Callers, Fail(c) \/ Succeed(c) \/ Abandon(c)
        PROVE  Admitted
    <3> SUFFICES ASSUME NEW d \in Callers, attempt[d] = 0
                 PROVE  attempt'[d] = 0
      OBVIOUS
    <3>1. attempt[c] > 0 /\ \E a : attempt' = [attempt EXCEPT ![c] = a]
      BY <2>3 DEF Fail, Succeed, Abandon
    <3>2. d # c
      BY <3>1
    <3> QED
      BY <3>1, <3>2 DEF BreakerInv, TypeOK
  <2> QED
    BY <2>2, <2>3 DEF Next, Elapse, Heal
<1> QED
  BY InitInv, Step, <1>1, PTL DEF Spec, Shields

----------------------------------------------------------------------------
(* The seven breakers implement the abstract one. *)

\* While a trial may be out the timeout is over, except for the bus: what fails
\* then either opens the breaker again or, a guard's, leaves the timeout alone.
\* That of the database has no timeout.
Cooling == /\ state = "half-open" /\ kind # "bus" => cooled /\ kind # "database"
           /\ state # "closed" /\ kind \notin {"guard", "database"} => failures = Threshold
           /\ kind = "database" => ~cooled

\* A new breaker is closed.
LEMMA InitCooling == Init => Cooling
  BY DEF Init, Cooling

\* A trial starts when the timeout is over.
LEMMA AdmitCooling == ASSUME BreakerInv, Cooling, NEW c \in Callers, Admit(c) PROVE Cooling'
<1>1. UNCHANGED <<kind, cooled>>
  BY DEF Admit
<1>2. CASE UNCHANGED breaker
  BY <1>1, <1>2 DEF breaker, Cooling
<1>3. CASE /\ Trial /\ kind # "database"
           /\ kind # "guard" => UNCHANGED failures
  BY <1>1, <1>3 DEF Trial, Cooling
<1> QED
  BY <1>2, <1>3
     DEF Admit, Call, IsOpen, AllowRequest, CanAttempt, KafkaAvailable, CircuitClosed,
         IsPolicyOpen, Through, Trial

\* A failure of a trial opens the breaker, or is a guard's.
LEMMA FailCooling == ASSUME BreakerInv, Cooling, NEW c \in Callers, Fail(c) PROVE Cooling'
<1> USE BreakerAssumption DEF BreakerInv, TypeOK
<1>1. failures' = Bump(failures) /\ kind' = kind
  BY FailEffect DEF Count
<1>2. CASE kind = "guard"
  BY <1>1, <1>2 DEF Fail, CallFailed, InstanceFailure, ProviderFailure, BusFailure, KafkaFailure,
                    DatabaseFailure, PolicyFailure, OpenAtThreshold, Cooling
<1>3. CASE kind = "database"
  <2>1. DatabaseFailure
    BY <1>3 DEF Fail, CallFailed, InstanceFailure, ProviderFailure, BusFailure, KafkaFailure,
                PolicyFailure
  <2>2. cooled' = cooled /\ state' \in {"open", state}
    BY <2>1 DEF DatabaseFailure, OpenAtThreshold
  <2> QED
    BY <1>1, <1>3, <2>2 DEF Cooling
<1>4. CASE kind = "bus"
  <2>1. state' # "closed" => failures' = Threshold
    BY <1>1, <1>4, FailEffect DEF Cooling, Bump
  <2> QED
    BY <1>1, <1>4, <2>1 DEF Cooling
<1>5. CASE kind \notin {"guard", "database", "bus"}
  <2>1. state # "closed" => Bump(failures) = Threshold
    BY <1>5 DEF Cooling, Bump
  <2>2. state' = IF Bump(failures) = Threshold THEN "open" ELSE state
    BY <1>5, FailEffect DEF OpenAtThreshold
  <2> QED
    BY <1>1, <1>5, <2>1, <2>2 DEF Cooling
<1> QED
  BY <1>2, <1>3, <1>4, <1>5

\* A success closes the breaker or leaves it as it is.
LEMMA SucceedCooling == ASSUME BreakerInv, Cooling, NEW c \in Callers, Succeed(c) PROVE Cooling'
<1>1. UNCHANGED <<kind, cooled>>
  BY DEF Succeed
<1>2. CASE Reset
  BY <1>1, <1>2 DEF Reset, Cooling
<1>3. CASE UNCHANGED <<state, failures>>
  BY <1>1, <1>3 DEF Cooling
<1>4. CASE kind = "database" /\ UNCHANGED state
  BY <1>1, <1>4 DEF Cooling
<1> QED
  BY <1>2, <1>3, <1>4
     DEF Succeed, CallSucceeded, InstanceSuccess, ProviderSuccess, BusSuccess, KafkaSuccess,
         DatabaseSuccess, PolicySuccess

\* Every step keeps the timeout in agreement with the state.
LEMMA CoolingStep == BreakerInv /\ Cooling /\ [Next]_vars => Cooling'
<1> SUFFICES ASSUME BreakerInv, Cooling, [Next]_vars
             PROVE  Cooling'
  OBVIOUS
<1>1. ASSUME NEW c \in Callers, Abandon(c)
      PROVE  Cooling'
  BY <1>1 DEF Abandon, breaker, Cooling
<1>2. CASE Elapse \/ Heal
  BY <1>2 DEF Elapse, Heal, breaker, Cooling
<1>3. CASE UNCHANGED vars
  BY <1>3 DEF vars, breaker, Cooling
<1> QED
  BY <1>1, <1>2, <1>3, AdmitCooling, FailCooling, SucceedCooling DEF Next

\* The callers with a call under way.
Out == {c \in Callers : attempt[c] > 0}

\* A caller that is at attempt a from now on.
LEMMA OutAfter ==
    ASSUME TypeOK, NEW c \in Callers, NEW a \in 0 .. MaxRetries,
           attempt' = [attempt EXCEPT ![c] = a]
    PROVE  Out' = IF a > 0 THEN Out \cup {c} ELSE Out \ {c}
  BY BreakerAssumption DEF TypeOK, Out

\* A call that has reported ends or goes on.
LEMMA ReportedOut ==
    ASSUME TypeOK, NEW c \in Callers, NEW failed \in BOOLEAN, attempt[c] > 0,
           \E a \in Afterwards(c, failed) : attempt' = [attempt EXCEPT ![c] = a]
    PROVE  c \in Out /\ Out' \in {Out, Out \ {c}}
<1>1. PICK a \in Afterwards(c, failed) : attempt' = [attempt EXCEPT ![c] = a]
  OBVIOUS
<1>2. a \in 0 .. MaxRetries
  BY BreakerAssumption DEF TypeOK, Afterwards
<1>3. c \in Out
  BY DEF Out
<1>4. Out' = IF a > 0 THEN Out \cup {c} ELSE Out \ {c}
  BY <1>1, <1>2, OutAfter
<1> QED
  BY <1>3, <1>4

\* A call that goes through does so while the breaker is closed or its timeout
\* is over.
LEMMA AdmitPromised ==
    ASSUME BreakerInv, Cooling, NEW c \in Callers, Admit(c)
    PROVE  Promised!Admit(c)
<1>1. c \notin Out /\ Out' = Out \cup {c}
  <2>1. attempt[c] = 0 /\ attempt' = [attempt EXCEPT ![c] = 1] /\ 1 \in 0 .. MaxRetries
    BY BreakerAssumption DEF Admit
  <2>2. Out' = IF 1 > 0 THEN Out \cup {c} ELSE Out \ {c}
    BY <2>1, OutAfter DEF BreakerInv
  <2>3. c \notin Out
    BY <2>1 DEF Out
  <2> QED
    BY <2>2, <2>3
<1>2. /\ state # "closed" => cooled
      /\ streak' \in IF state # "closed" THEN {0, streak} ELSE {streak}
      /\ (state' # "closed") = (state # "closed") /\ cooled' = cooled
  <2>1. CASE UNCHANGED breaker
    <3>1. state = "closed" \/ (state = "half-open" /\ kind # "bus")
      BY <2>1 DEF Admit, Call, IsOpen, AllowRequest, CanAttempt, KafkaAvailable, CircuitClosed,
             IsPolicyOpen, Trial, breaker, BreakerInv, TypeOK
    <3> QED
      BY <2>1, <3>1 DEF Admit, breaker, Cooling
  <2>2. CASE Trial /\ streak' \in {0, streak}
    BY <2>2 DEF Trial, Admit
  <2> QED
    BY <2>1, <2>2
       DEF Admit, Call, IsOpen, AllowRequest, CanAttempt, KafkaAvailable, CircuitClosed,
           IsPolicyOpen, Through
<1> QED
  BY <1>1, <1>2 DEF Promised!Admit, Out

\* A failure opens the breaker when it fills the streak, and not before.
LEMMA FailPromised ==
    ASSUME BreakerInv, Cooling, NEW c \in Callers, Fail(c)
    PROVE  Promised!Fail(c)
<1> USE BreakerAssumption DEF BreakerInv, TypeOK, Tally
<1>1. c \in Out /\ Out' \in {Out, Out \ {c}}
  BY ReportedOut DEF Fail
<1>2. failures' = Bump(failures) /\ streak' = Bump(streak) /\ Bump(streak) <= Bump(failures)
  BY FailEffect, Counting DEF Count
<1>3. (state' # "closed") = (state # "closed" \/ streak' = Threshold)
  <2>1. CASE state = "closed"
    <3>1. streak' = Bump(failures)
      BY <1>2, <2>1
    <3>2. state' = IF Bump(failures) = Threshold THEN "open" ELSE state
      BY <2>1, FailEffect DEF OpenAtThreshold
    <3> QED
      BY <2>1, <3>1, <3>2
  <2>2. CASE state # "closed"
    BY <2>2, FailEffect DEF OpenAtThreshold
  <2> QED
    BY <2>1, <2>2
<1>4. cooled' \in {cooled, FALSE} /\ (streak' = Threshold => ~cooled')
  <2>1. streak' = Threshold => Bump(failures) = Threshold
    BY <1>2, Counting
  <2>2. CASE kind = "guard"
    <3>1. cooled' = (cooled /\ Bump(failures) # Threshold)
      BY <2>2 DEF Fail, CallFailed, InstanceFailure, ProviderFailure, BusFailure, KafkaFailure,
                  DatabaseFailure, PolicyFailure
    <3> QED
      BY <2>1, <3>1
  <2>3. CASE kind = "database"
    <3>1. cooled' = cooled
      BY <2>3 DEF Fail, CallFailed, InstanceFailure, ProviderFailure, BusFailure, KafkaFailure,
                  DatabaseFailure, PolicyFailure
    <3> QED
      BY <2>3, <3>1 DEF Cooling
  <2>4. CASE kind \notin {"guard", "database"}
    BY <2>4 DEF Fail, CallFailed, InstanceFailure, ProviderFailure, BusFailure, KafkaFailure,
                DatabaseFailure, PolicyFailure
  <2> QED
    BY <2>2, <2>4, <2>3
<1> QED
  BY <1>1, <1>2, <1>3, <1>4 DEF Promised!Fail, Promised!Reported, Out, Bump

\* A success ends the streak, and may close the breaker.
LEMMA SucceedPromised ==
    ASSUME BreakerInv, NEW c \in Callers, Succeed(c)
    PROVE  Promised!Succeed(c)
<1>1. c \in Out /\ Out' \in {Out, Out \ {c}}
  BY ReportedOut DEF Succeed, BreakerInv
<1>2. (state' # "closed") \in {state # "closed", FALSE}
  BY DEF Succeed, CallSucceeded, InstanceSuccess, ProviderSuccess, BusSuccess, KafkaSuccess,
         DatabaseSuccess, PolicySuccess, Reset
<1>3. streak' = 0 /\ UNCHANGED cooled
  BY DEF Succeed
<1> QED
  BY <1>1, <1>2, <1>3 DEF Promised!Succeed, Promised!Reported, Out

\* Every step of a breaker is one of the abstract breaker, or none.
LEMMA PromisedStep ==
    BreakerInv /\ Cooling /\ [Next]_vars => [Promised!Next]_(Promised!vars)
<1> SUFFICES ASSUME BreakerInv, Cooling, [Next]_vars
             PROVE  Promised!Next \/ UNCHANGED <<Out, streak, state # "closed", cooled>>
  BY DEF Promised!vars, Out
<1>1. ASSUME NEW c \in Callers, Admit(c) \/ Fail(c) \/ Succeed(c)
      PROVE  Promised!Next
  BY <1>1, AdmitPromised, FailPromised, SucceedPromised DEF Promised!Next
<1>2. ASSUME NEW c \in Callers, Abandon(c)
      PROVE  Promised!Next
  <2>1. attempt[c] > 0 /\ attempt' = [attempt EXCEPT ![c] = 0] /\ 0 \in 0 .. MaxRetries
    BY <1>2, BreakerAssumption DEF Abandon
  <2>2. Out' = IF 0 > 0 THEN Out \cup {c} ELSE Out \ {c}
    BY <2>1, OutAfter DEF BreakerInv
  <2>3. c \in Out /\ Out' = Out \ {c}
    BY <2>1, <2>2 DEF Out
  <2>4. UNCHANGED <<state, streak, cooled>>
    BY <1>2 DEF Abandon, breaker
  <2> QED
    BY <2>3, <2>4 DEF Promised!Next, Promised!Abandon, Out
<1>3. CASE Elapse
  <2>1. Out' = Out /\ UNCHANGED <<state, streak>>
    BY <1>3 DEF Elapse, breaker, Out
  <2>2. ~cooled /\ cooled' = TRUE
    BY <1>3 DEF Elapse
  <2> QED
    BY <2>1, <2>2 DEF Promised!Next, Promised!Elapse, Out
<1>4. CASE Heal \/ UNCHANGED vars
  BY <1>4 DEF Heal, vars, breaker, Out
<1> QED
  BY <1>1, <1>2, <1>3, <1>4 DEF Next

\* Each of the seven implementations is the abstract breaker, for any threshold
\* and any number of calls that overlap.
THEOREM ImplementsBreaker == Spec => ActsAsBreaker
<1>1. Init => Promised!Init
  BY DEF Init, Promised!Init
<1> QED
  BY InitInv, InitCooling, Step, CoolingStep, PromisedStep, <1>1, PTL
     DEF Spec, ActsAsBreaker, Promised!Spec

=============================================================================
