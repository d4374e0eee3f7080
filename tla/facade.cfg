CONSTANTS
    a = a
    s1 = s1
    s2 = s2
    k1 = k1
    k2 = k2
    Calls = {a}
    Submissions = {s1, s2}
    Copiers = {s1}
    Closers = {k1, k2}
    Sizes = {1, 2}
SPECIFICATION FairSpec
INVARIANTS ShutdownOrder
PROPERTIES CallersReturn CloseEnds
CHECK_DEADLOCK FALSE
