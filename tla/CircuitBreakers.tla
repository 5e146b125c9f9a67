--------------------------- MODULE CircuitBreakers ---------------------------
(***************************************************************************)
(* The circuit breakers of the platform, each guarding one service:        *)
(*   "wrap", "guard", "provider"  the three styles of                      *)
(*               shared/circuit_breaker.py (subprocesses, clarifier, LLMs) *)
(*   "bus"       message_bus/resilience.py (Kafka and Redis bridges)       *)
(*   "kafka"     the module-level breaker of dispatch_service.py           *)
(*   "database"  the one inside _retry_with_backoff of persistence.py      *)
(*   "policy"    arbiter/policy/circuit_breaker.py, its state in memory    *)
(* They read alike and differ in what a failure, a success and a trial     *)
(* call do; kind, chosen at the start, says which one runs.                *)
(*                                                                         *)
(* A call is admitted in one step and reports in a later one, or never     *)
(* (cancelled, answered from a cache, nothing to do): in between others    *)
(* are admitted and report.  Each step is one section under the breaker's  *)
(* lock, or without an await.  A refused call changes nothing.             *)
(***************************************************************************)
EXTENDS Naturals

CONSTANTS Callers,
          Kinds,
          Threshold,          \* failures that open the breaker
          RecoveryThreshold,  \* successes that close a provider's breaker
          MaxRetries          \* attempts of one database operation

AllKinds == {"wrap", "guard", "provider", "bus", "kafka", "database", "policy"}

ASSUME BreakerAssumption == /\ Kinds \subseteq AllKinds
                            /\ Threshold \in Nat \ {0}
                            /\ RecoveryThreshold \in Nat \ {0}
                            /\ MaxRetries \in Nat \ {0}

VARIABLES
    kind,       \* which implementation guards the service
    state,      \* CLOSED, OPEN, HALF-OPEN; of a guard, OPEN is _tripped
    failures,   \* the failure count; only "at least Threshold" is looked at
    successes,  \* a provider's successes in HALF-OPEN
    cooled,     \* has the recovery timeout passed since the time it looks at
    attempt,    \* attempt[c]: 0, or which attempt of its call c is at
    healthy     \* the service answers every call from now on

\* History: consecutive failures reported, since a guard's trial at the most.
VARIABLE streak

breaker == <<state, failures, successes, streak>>
vars == <<kind, breaker, cooled, attempt, healthy>>

TypeOK ==
    /\ kind \in Kinds
    /\ state \in {"closed", "open", "half-open"}
    /\ failures \in 0 .. Threshold
    /\ successes \in 0 .. RecoveryThreshold - 1
    /\ cooled \in BOOLEAN
    /\ attempt \in [Callers -> 0 .. MaxRetries]
    /\ healthy \in BOOLEAN
    /\ streak \in 0 .. Threshold

Init ==
    /\ kind \in Kinds
    /\ state = "closed" /\ failures = 0 /\ successes = 0 /\ cooled = FALSE
    /\ attempt = [c \in Callers |-> 0]
    /\ healthy = FALSE
    /\ streak = 0

----------------------------------------------------------------------------
(* May a call go through? *)

Through == UNCHANGED breaker

\* The timeout is over: this call is the trial.
Trial == state = "open" /\ cooled /\ state' = "half-open"

Call ==
    /\ kind = "wrap"
    /\ \/ state # "open" /\ Through
       \/ Trial /\ UNCHANGED <<failures, successes, streak>>

\* A guard forgets its failures when the timeout is over.
IsOpen ==
    /\ kind = "guard"
    /\ \/ state # "open" /\ Through
       \/ Trial /\ failures' = 0 /\ streak' = 0 /\ UNCHANGED successes

AllowRequest ==
    /\ kind = "provider"
    /\ \/ state # "open" /\ Through
       \/ Trial /\ successes' = 0 /\ UNCHANGED <<failures, streak>>

\* Mutant: HALF-OPEN lets calls through.
CanAttemptHalfOpen ==
    /\ kind = "bus"
    /\ \/ state # "open" /\ Through
       \/ Trial /\ UNCHANGED <<failures, successes, streak>>

\* One trial call; the others wait for what it reports.
CanAttempt ==
    /\ kind = "bus"
    /\ \/ state = "closed" /\ Through
       \/ Trial /\ UNCHANGED <<failures, successes, streak>>

\* Mutant: KAFKA_HALF_OPEN_MAX_CALLS is enforced, by the state alone.
KafkaAvailableOnce ==
    /\ kind = "kafka"
    /\ \/ state = "closed" /\ Through
       \/ Trial /\ UNCHANGED <<failures, successes, streak>>

KafkaAvailable ==
    /\ kind = "kafka"
    /\ \/ state # "open" /\ Through
       \/ Trial /\ UNCHANGED <<failures, successes, streak>>

\* Looked at before the first attempt only, and never closed again.
CircuitClosed == kind = "database" /\ state = "closed" /\ Through

\* "Allowing one request": there is no half-open state to see, so the others
\* come through as well.
IsPolicyOpen ==
    /\ kind = "policy"
    /\ \/ state # "open" /\ Through
       \/ Trial /\ UNCHANGED <<failures, successes, streak>>

----------------------------------------------------------------------------
(* A failure is reported. *)

Bump(n) == IF n < Threshold THEN n + 1 ELSE n

Count == failures' = Bump(failures) /\ streak' = Bump(streak)
OpenAtThreshold == state' = IF Bump(failures) = Threshold THEN "open" ELSE state

CallFailed ==
    /\ kind = "wrap" /\ Count /\ OpenAtThreshold
    /\ cooled' = FALSE /\ UNCHANGED successes

\* Mutant: the time is not taken when a guard opens once more.
InstanceFailureUntimed ==
    /\ kind = "guard" /\ Count /\ OpenAtThreshold
    /\ UNCHANGED <<cooled, successes>>

\* The time is taken only when the threshold is reached.
InstanceFailure ==
    /\ kind = "guard" /\ Count /\ OpenAtThreshold
    /\ cooled' = (cooled /\ Bump(failures) # Threshold)
    /\ UNCHANGED successes

ProviderFailure ==
    /\ kind = "provider" /\ Count /\ OpenAtThreshold
    /\ cooled' = FALSE /\ successes' = 0

\* Only a closed breaker opens: a failed trial leaves it half-open.
BusFailure ==
    /\ kind = "bus" /\ Count
    /\ state' = IF state = "closed" /\ Bump(failures) = Threshold THEN "open" ELSE state
    /\ cooled' = FALSE /\ UNCHANGED successes

KafkaFailure ==
    /\ kind = "kafka" /\ Count /\ OpenAtThreshold
    /\ cooled' = FALSE /\ UNCHANGED successes

DatabaseFailure ==
    /\ kind = "database" /\ Count /\ OpenAtThreshold
    /\ UNCHANGED <<cooled, successes>>

\* The back-off starts anew with every failure.
PolicyFailure ==
    /\ kind = "policy" /\ Count /\ OpenAtThreshold
    /\ cooled' = FALSE /\ UNCHANGED successes

----------------------------------------------------------------------------
(* A success is reported: late ones close an open breaker. *)

Reset == state' = "closed" /\ failures' = 0

\* Mutant: the failures of before are kept.
CallSucceededKeeping == kind = "wrap" /\ state' = "closed" /\ UNCHANGED <<failures, successes>>
CallSucceeded == kind = "wrap" /\ Reset /\ UNCHANGED successes

InstanceSuccess == kind = "guard" /\ Reset /\ UNCHANGED successes

ProviderSuccess ==
    /\ kind = "provider"
    /\ IF state = "half-open" /\ successes + 1 < RecoveryThreshold
          THEN successes' = successes + 1 /\ UNCHANGED <<state, failures>>
          ELSE Reset /\ successes' = 0

BusSuccess == kind = "bus" /\ Reset /\ UNCHANGED successes
KafkaSuccess == kind = "kafka" /\ Reset /\ UNCHANGED successes
DatabaseSuccess == kind = "database" /\ failures' = 0 /\ UNCHANGED <<state, successes>>
PolicySuccess == kind = "policy" /\ Reset /\ UNCHANGED successes

----------------------------------------------------------------------------
Admit(c) ==
    /\ attempt[c] = 0
    /\ attempt' = [attempt EXCEPT ![c] = 1]
    /\ \/ Call \/ IsOpen \/ AllowRequest \/ CanAttempt \/ KafkaAvailable
       \/ CircuitClosed \/ IsPolicyOpen
    /\ UNCHANGED <<kind, cooled, healthy>>

\* Where a call is after a report: a database operation is tried again without
\* a look at the breaker, the clarifier's call may go on and report once more.
Afterwards(c, failed) ==
    CASE kind = "database" /\ failed -> {(attempt[c] + 1) % (MaxRetries + 1)}
      [] kind = "guard"              -> {0, attempt[c]}
      [] OTHER                       -> {0}

Fail(c) ==
    /\ attempt[c] > 0 /\ ~healthy
    /\ \/ CallFailed \/ InstanceFailure \/ ProviderFailure
       \/ BusFailure \/ KafkaFailure \/ DatabaseFailure \/ PolicyFailure
    /\ \E a \in Afterwards(c, TRUE) : attempt' = [attempt EXCEPT ![c] = a]
    /\ UNCHANGED <<kind, healthy>>

Succeed(c) ==
    /\ attempt[c] > 0
    /\ \/ CallSucceeded \/ InstanceSuccess \/ ProviderSuccess
       \/ BusSuccess \/ KafkaSuccess \/ DatabaseSuccess \/ PolicySuccess
    /\ streak' = 0
    /\ \E a \in Afterwards(c, FALSE) : attempt' = [attempt EXCEPT ![c] = a]
    /\ UNCHANGED <<kind, cooled, healthy>>

\* The call ends and reports nothing: it is cancelled, the answer is cached,
\* the Redis listener got no message.
Abandon(c) ==
    /\ attempt[c] > 0 /\ ~healthy
    /\ attempt' = [attempt EXCEPT ![c] = 0]
    /\ UNCHANGED <<kind, breaker, cooled, healthy>>

Elapse ==
    /\ ~cooled /\ kind # "database"
    /\ cooled' = TRUE
    /\ UNCHANGED <<kind, breaker, attempt, healthy>>

\* The outage is over, and the last of its failures has been reported.
Heal ==
    /\ ~healthy
    /\ healthy' = TRUE
    /\ UNCHANGED <<kind, breaker, cooled, attempt>>

Next == \/ \E c \in Callers : Admit(c) \/ Fail(c) \/ Succeed(c) \/ Abandon(c)
        \/ Elapse \/ Heal

Spec == Init /\ [][Next]_vars

\* Time passes, callers come back (loops and later jobs), and a call to a
\* healthy service gets its answer.  No outage has to end.
FairSpec == /\ Spec
            /\ WF_vars(Elapse)
            /\ \A c \in Callers : WF_vars(Admit(c)) /\ WF_vars(Succeed(c))

----------------------------------------------------------------------------
(* Correctness *)

\* "failure_threshold: number of consecutive failures before the breaker
\* opens": late and interleaved reports do not open it on fewer.
TripsOnStreak == [][state = "closed" /\ state' = "open" => streak' = Threshold]_vars

\* After that many failures without a success no call goes through until the
\* timeout is over, also when trials have failed or are still out.
Shields ==
    [][streak = Threshold /\ ~cooled =>
          \A c \in Callers : attempt[c] = 0 => attempt'[c] = 0]_vars

\* Whichever of the seven guards a service, its callers see a breaker that opens
\* on a full streak, keeps calls out until the timeout is over, and is closed by
\* a success only.
Promised == INSTANCE Breaker WITH out <- {c \in Callers : attempt[c] > 0},
                                  open <- (state # "closed")
ActsAsBreaker == Promised!Spec

\* A service that is healthy again is used again, whatever calls were out or
\* abandoned when it recovered.
Recovers == healthy /\ kind \in {"wrap", "guard", "provider", "kafka", "policy"} ~> state = "closed"

=============================================================================
