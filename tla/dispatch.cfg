CONSTANTS
    Items = 4
    MaxTasks = 3
    MaxCancels = 2
SPECIFICATION DispatchFairSpec
INVARIANTS EndsComplete
PROPERTIES FailureEndsCall
CHECK_DEADLOCK FALSE
