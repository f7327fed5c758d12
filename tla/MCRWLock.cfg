SPECIFICATION FairSpec
CONSTANTS
    t1 = t1
    t2 = t2
    t3 = t3
    Tasks = {t1, t2, t3}
    MaxQueue = 4
INVARIANTS
    TypeOK
    MutualExclusion
    CountersMatchGuards
    NoStrandedWaiter
PROPERTIES
    ImplementsWriterPriority
    WritersAreServed
