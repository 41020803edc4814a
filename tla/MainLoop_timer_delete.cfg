SPECIFICATION FairSpec
CONSTANTS
    Main = Main
    None = None
    w1 = w1
    w2 = w2
    m1 = m1
    m2 = m2
    Workers = {}
    Timers = {m1}
    MaxTime = 1
    MaxJobs = 0
    MaxPushes = 0
    MaxOps = 1
PROPERTIES
    TimerThreadEnds
CHECK_DEADLOCK FALSE
