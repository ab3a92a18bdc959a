CONSTANTS
    h1 = h1
    h2 = h2
    i1 = i1
    i2 = i2
    Calls = {h1, h2}
    Ids = {i1, i2}
    IdOf <- TwoIds
    NoAbandon = {h2}
    Resumes = {r}
    Deletes = {x}
    Kept = 2
    MaxTasks = 2
    MaxPods = 2
    MaxLost = 1
SPECIFICATION FairSpec
INVARIANTS AbandonOrHead AbandonedStays WorkingInSlot
PROPERTY Answered
CHECK_DEADLOCK FALSE
