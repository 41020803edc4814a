CONSTANTS
    Threads = {t1, t2, t3}
    Null = Null
    a1 = a1
    a2 = a2
    b1 = b1
    Cond = c1
    Waiters = {t1, t2, t3}
    Notifiers = {t1, t2, t3}
    Buckets = {b1}
    Locks = {a1}
    bucketOf <- OneLock
    TimedThreads = {}
    SpinLimit = 0
    WeakCASFails = TRUE
SPECIFICATION FairSpec
INVARIANTS
    HasWaitersIsHonest
    NoSpuriousWakeup
PROPERTIES
    NotifyAllWakesEveryone
CHECK_DEADLOCK FALSE
