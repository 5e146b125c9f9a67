\* Two callers and the loop, batches of two, one failed write, one restart.
CONSTANTS
    c1 = c1
    c2 = c2
    Callers = {c1, c2}
    Loop = Loop
    Nobody = Nobody
    h1 = h1
    h2 = h2
    Threads = {h1, h2}
    BatchSize = 2
    MaxEntries = 3
    MaxFaults = 1
    MaxRestarts = 1
    MaxFiles = 2
SPECIFICATION FairSpec
\* The entries are used up.
CHECK_DEADLOCK FALSE
INVARIANTS BreaksExplained CriticalOnDisk
PROPERTIES IsJournal QueueMoves
