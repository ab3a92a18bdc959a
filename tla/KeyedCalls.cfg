SPECIFICATION FairSpec
CONSTANTS
    Instances = {i1, i2}
    Requests = {q1, q2}
    Calls = {c1, c2}
    MaxLife = 1
    MaxRuns = 2
    MaxFaults = 1
    None = None
    Doors <- OneAndAny
    i1 = i1
    c1 = c1
    q1 = q1
    q2 = q2
CHECK_DEADLOCK FALSE
INVARIANTS NotRunExact OneRunReaches AnswersAgree DrainWaits
PROPERTIES VerdictStands CancelMeetsCall EverythingEnds
