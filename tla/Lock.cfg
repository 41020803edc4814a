CONSTANTS
    Threads = {t1, t2, t3}
    Null = Null
    a1 = a1
    a2 = a2
    b1 = b1
    Cond = c1
    Waiters = {}
    Notifiers = {}
    Buckets = {b1}
    Locks = {a1, a2}
    bucketOf <- TwoLocks
    TimedThreads = {}
    SpinLimit = 1
    WeakCASFails = TRUE
SPECIFICATION FairSpec
INVARIANTS
    ParkedBitIsSet
PROPERTIES
    ParkedGetUnparked
    IsMutex
