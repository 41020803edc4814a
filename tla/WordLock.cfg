CONSTANTS
    Threads = {t1, t2, t3}
    Null = Null
    SpinLimit = 1
    WeakCASFails = TRUE
SPECIFICATION FairSpec
INVARIANTS
    MutualExclusion
    BitsTellTheTruth
    QueueIsList
PROPERTIES
    QueueIsFIFO
    SleepersWake
    IsMutex
