\* Three tasks, two of them in one batch, one slot, a restart at any point.
CONSTANTS
    t1 = t1
    t2 = t2
    t3 = t3
    Tasks = {t1, t2, t3}
    Priority <- Priorities
    MaxConcurrent = 1
    BatchSize = 2
    Replies = {"enqueued", "batch_enqueued"}
    MaxEnds = 1
SPECIFICATION FairSpec
\* Every task has ended and the restarts are used up.
CHECK_DEADLOCK FALSE
INVARIANTS Accounted RunOnce OnDisk
PROPERTIES ActsAsPool TasksEnd
