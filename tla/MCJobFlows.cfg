SPECIFICATION FairSpec
CHECK_DEADLOCK FALSE
CONSTANTS
    a = a
    b = b
    top = top
    side = side
    None = None
    Jobs = {a, b, top, side}
    MaxStops = 2
    Settings <- MCSettings
INVARIANTS
    NoEarlyStart
    FailureReachesParent
PROPERTIES
    PinsHold
    ReadyIsPromoted
