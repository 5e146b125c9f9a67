\* Two calls, one shard, which is also that of the events.
CONSTANTS
    p1 = p1
    p2 = p2
    s1 = s1
    k1 = k1
    Pubs = {p1, p2}
    Shards = {s1}
    Keys = {k1}
    NoKey = NoKey
    Nobody = Nobody
    Kinds <- BothKinds
    HighFrom = 5
    EventShard = s1
    EventPriority = 10
    MaxQueue = 2
    PauseAt = 1
    Persisting = TRUE
    MaxRaises = 0
SPECIFICATION FairSpec
\* Shutdown ends the bus, and a paused shard can block it.
CHECK_DEADLOCK FALSE
PROPERTIES PauseEnds
