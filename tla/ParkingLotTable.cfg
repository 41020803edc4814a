CONSTANTS
    Threads = {t1, t2, t3}
    a1 = a1
    a2 = a2
    Addresses = {a1, a2}
    Null = Null
    hash <- Hash
    maxLoadFactor = 1
    growthFactor = 1
SPECIFICATION Spec
CHECK_DEADLOCK FALSE
SYMMETRY Symmetry
INVARIANTS
    EveryoneFindable
    NoBucketLeaked
    LocksInOrder
PROPERTIES
    OrderIsKept
