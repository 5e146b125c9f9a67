\* One job, one pipeline of it.
CONSTANTS
    j1 = j1
    t1 = t1
    Jobs = {j1}
    Tasks = {t1}
    MaxConcurrent = 1
    Outcomes = {"ok", "warnings", "coldStart", "artifacts", "syntax", "raised", "noCode"}
    NoJob = NoJob
SPECIFICATION Spec
\* The process exits.
CHECK_DEADLOCK FALSE
PROPERTIES CancelSticks
