CONSTANTS
    p1 = p1
    p2 = p2
    c1 = c1
    c2 = c2
    c3 = c3
    Producers = {p1, p2}
    Closers = {c1, c2, c3}
    Drains = {c1, c3}
    Timed = {c1}
    Policies <- AllPolicies
    Sizes = {1, 2}
    MaxRecords = 4
SPECIFICATION FairSpec
INVARIANTS CountersExact DeliveryOrder ShutdownClean BufferHealthTruthful
PROPERTIES WorkerStops
CHECK_DEADLOCK FALSE
