SPECIFICATION Spec
CONSTANTS
    j1 = j1
    c1 = c1
    c2 = c2
    NoJob = NoJob
    Jobs = {j1}
    Clients = {c1, c2}
    Limit = 1
    MaxAttempts = 3
    MaxStalls = 3
    MaxDeliveries = 3
    Hazards = {"lease", "disconnect"}
SYMMETRY Symmetry
INVARIANTS
    ReleasesOwn
