\* Two jobs and two pipeline tasks for one slot; liveness, so no symmetry.
CONSTANTS
    j1 = j1
    j2 = j2
    t1 = t1
    t2 = t2
    Jobs = {j1, j2}
    Tasks = {t1, t2}
    MaxConcurrent = 1
    Outcomes = {"ok", "warnings", "coldStart", "raised", "noCode"}
    NoJob = NoJob
SPECIFICATION FairSpec
\* The process exits.
CHECK_DEADLOCK FALSE
INVARIANTS OneGeneration GuardsMatchTasks DispatchedOnce
PROPERTIES LivesOnce FinalOnce TasksEnd
