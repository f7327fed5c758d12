SPECIFICATION FairSpec
CONSTANTS
    j1 = j1
    c1 = c1
    c2 = c2
    NoJob = NoJob
    Jobs = {j1}
    Clients = {c1, c2}
    Limit = 1
    MaxAttempts = 3
    MaxStalls = 2
    MaxDeliveries = 3
    Hazards = {"callback", "move", "stall", "lease", "disconnect"}
INVARIANTS
    TypeOK
    OnePlace
    IndexAgrees
    NoSlotLeak
    RetryBudget
    StallBudget
PROPERTIES
    TerminalIsFinal
    CurrentKeepsLease
    AbandonedIsReclaimed
