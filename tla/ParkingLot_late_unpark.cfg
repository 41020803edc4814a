CONSTANTS
    Threads = {t1, t2, t3}
    Null = Null
    a1 = a1
    a2 = a2
    b1 = b1
    Buckets = {b1}
    bucketOf <- Colliding
    TimedThreads = {t1}
    MaxParks <- Twice
SPECIFICATION ClientSpec
INVARIANTS
    ReturnsTheTruth
CHECK_DEADLOCK FALSE
