\* Two requests, with the same decision id or not, and two answers.
CONSTANTS
    r1 = r1
    r2 = r2
    Requests = {r1, r2}
    a1 = a1
    a2 = a2
    Answers = {a1, a2}
    d1 = d1
    d2 = d2
    Ids = {d1, d2}
    IdChoices <- SameOrNot
    None = None
    MaxAttempts = 2
SPECIFICATION FairSpec
\* All requests have returned.
CHECK_DEADLOCK FALSE
INVARIANTS LoggedFirst Answerable
PROPERTIES DecidesOnce Returns
