\* Three calls, one shard, queues of two places.
CONSTANTS
    p1 = p1
    p2 = p2
    p3 = p3
    s1 = s1
    k1 = k1
    Pubs = {p1, p2, p3}
    Shards = {s1}
    Keys = {k1}
    NoKey = NoKey
    Nobody = Nobody
    Kinds <- BothKinds
    HighFrom = 5
    EventShard = s1
    EventPriority = 10
    MaxQueue = 2
    PauseAt = 1
    Persisting = TRUE
    MaxRaises = 1
SPECIFICATION Spec
SYMMETRY Symmetry
\* Shutdown ends the bus, and a paused shard can block it.
CHECK_DEADLOCK FALSE
INVARIANTS TypeOK NothingLost KeyedOnce InOrder DrainedIsDispatched
PROPERTIES ActsAsQueue PauseHolds
