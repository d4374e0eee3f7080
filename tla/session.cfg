CONSTANTS
    x = x
    d = d
    e = e
    f = f
    Base = {x}
    Derived = {d, e}
    DepsOf <- Chain
    Requests <- Stages
    MaxVersion <- Limits
    MaxCalls = 3
SPECIFICATION Spec
ACTION_CONSTRAINT ThirdIfSmooth
INVARIANTS TypeOK
PROPERTIES VisiblePinned PinsStable ForcedIsFresh
CHECK_DEADLOCK FALSE
