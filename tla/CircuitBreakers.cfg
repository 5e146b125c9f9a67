\* Every breaker, three calls that overlap.
CONSTANTS
    c1 = c1
    c2 = c2
    c3 = c3
    Callers = {c1, c2, c3}
    Kinds = {"wrap", "guard", "provider", "bus", "kafka", "database", "policy"}
    Threshold = 3
    RecoveryThreshold = 2
    MaxRetries = 3
SPECIFICATION FairSpec
\* A breaker that refuses for ever ends the instance: bus and database.
CHECK_DEADLOCK FALSE
PROPERTIES ActsAsBreaker TripsOnStreak Shields Recovers
