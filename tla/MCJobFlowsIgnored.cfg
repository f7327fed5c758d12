SPECIFICATION FairSpec
CHECK_DEADLOCK FALSE
CONSTANTS
    a = a
    b = b
    top = top
    side = side
    None = None
    Jobs = {a, b, top, side}
    MaxStops = 1
    Settings <- MCIgnored
PROPERTIES
    ReadyIsPromoted
