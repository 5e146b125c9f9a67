\* Two processes with Redis and one without.  Liveness, so no symmetry.
CONSTANTS
    p1 = p1
    p2 = p2
    p3 = p3
    Procs = {p1, p2, p3}
    NoRedis = {p3}
    MaxRetries = 2
    Free = Free
    Stale = Stale
SPECIFICATION FairSpec
INVARIANTS ExclusionUnderLease AcquiredIffInside
PROPERTIES OnlyOwnerReleases ActsAsLease AcquireReturns
