SPECIFICATION FairSpec
CONSTANTS
    p1 = p1
    p2 = p2
    Pullers = {p1, p2}
    Batchers = {p2}
    Count = 2
    Limit = 2
    MaxJobs = 2
    MaxBatch = 2
    MaxCalls = 1
    MaxEntries = 3
    HazardSets <- MCHazardSets
INVARIANTS
    ActiveCountsLive
    PendingMeansNobodySleeps
    ActiveWithinLimit
    NoLostWakeup
PROPERTIES
    PullReturns
