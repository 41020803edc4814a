SPECIFICATION FairSpec
CONSTANTS
    Main = Main
    None = None
    w1 = w1
    w2 = w2
    m1 = m1
    m2 = m2
    Workers = {w1, w2}
    Timers = {}
    MaxTime = 1
    MaxJobs = 2
    MaxPushes = 2
    MaxOps = 1
INVARIANTS
    NoStrandedJob
    WaitingMethodsFirst
PROPERTIES
    EveryJobRuns
    
CHECK_DEADLOCK FALSE
