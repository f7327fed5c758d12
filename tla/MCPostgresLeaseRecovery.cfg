SPECIFICATION FairSpec
CHECK_DEADLOCK FALSE
CONSTANTS
    a1 = a1
    a2 = a2
    b1 = b1
    j1 = j1
    j2 = j2
    c1 = c1
    c2 = c2
    NoProcess = NoProcess
    NoLimit = NoLimit
    Jobs = {j1, j2}
    Processes = {a1, a2, b1}
    BrokerIds = {"a", "b"}
    IdOf <- MCIdOf
    Connections = {c1, c2}
    MaxAttempts = 2
    Lease = 2
    Stale = 2
    Settings <- MCRecovery
PROPERTIES ExpiredIsRecovered
