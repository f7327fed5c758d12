SPECIFICATION Spec
CONSTANTS
    j1 = j1
    j2 = j2
    j3 = j3
    c1 = c1
    c2 = c2
    NoJob = NoJob
    Jobs = {j1, j2, j3}
    Clients = {c1, c2}
    Limit = 1
    MaxAttempts = 2
    MaxStalls = 2
    MaxDeliveries = 2
    Hazards = {"stall"}
SYMMETRY Symmetry
INVARIANTS
    LimitHonoured
