\* Two workers that both recover (no Redis), one job, three requests, one crash.
CONSTANTS
    w1 = w1
    w2 = w2
    j1 = j1
    Workers = {w1, w2}
    Jobs = {j1}
    Outcomes = {"completed"}
    MaxRequests = 3
    MaxCrashes = 1
    NoRedis = {w1, w2}
    Free = Free
    Stale = Stale
    NoJob = NoJob
SPECIFICATION Spec
SYMMETRY Symmetry
INVARIANTS CreatedIsDurable
PROPERTIES RecoveredIsSettled
