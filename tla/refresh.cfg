CONSTANTS
    k1 = k1
    k2 = k2
    c1 = c1
    c2 = c2
    Keys = {k1, k2}
    Callers = {c1, c2}
    MaxTasks = 2
SPECIFICATION FairSpec
INVARIANTS NoneLeftBehind RefreshesCounted
PROPERTIES CallersReturn
CHECK_DEADLOCK FALSE
