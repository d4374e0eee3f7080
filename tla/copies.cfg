CONSTANTS
    c1 = c1
    c2 = c2
    c3 = c3
    c4 = c4
    k1 = k1
    k2 = k2
    Copies = {c1, c2, c3, c4}
    Deadlined = {c1}
    Cancellable = {c1}
    Failing = {c2}
    Closers = {k1, k2}
    Timed = {k1}
    MaxConcurrency = 2
SPECIFICATION FairSpec
ACTION_CONSTRAINT FourWithoutShutdown
INVARIANTS SlotsExact ShutdownSound HealthTruthful
PROPERTIES ShutdownCompletes CopiesArePool
CHECK_DEADLOCK FALSE
