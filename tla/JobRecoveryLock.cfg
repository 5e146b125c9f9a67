\* Two workers with Redis, one job, one request, two crashes; liveness, so no symmetry.
CONSTANTS
    w1 = w1
    w2 = w2
    j1 = j1
    Workers = {w1, w2}
    Jobs = {j1}
    Outcomes = {"completed"}
    MaxRequests = 1
    MaxCrashes = 2
    NoRedis = {}
    Free = Free
    Stale = Stale
    NoJob = NoJob
SPECIFICATION FairSpec
INVARIANTS RecoveryExclusive
PROPERTIES LockKept StartupEnds
