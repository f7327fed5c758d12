SPECIFICATION FairSpec
CHECK_DEADLOCK FALSE
CONSTANTS
    j1 = j1
    j2 = j2
    Jobs = {j1, j2}
    BufferSize = 2
    MaxRetries = 2
    Settings <- MCSettings
INVARIANTS
    DiskMirrorsMemory
    RunBudget
    FinishedNeverRuns
    DurableSurvives
    NothingSilentlyLost
PROPERTIES BufferDrains
