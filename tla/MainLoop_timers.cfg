SPECIFICATION FairSpec
CONSTANTS
    Main = Main
    None = None
    w1 = w1
    w2 = w2
    m1 = m1
    m2 = m2
    Workers = {}
    Timers = {m1, m2}
    MaxTime = 2
    MaxJobs = 0
    MaxPushes = 0
    MaxOps = 3
INVARIANTS
    NoStrandedTimer
PROPERTIES
    TimersFire
CHECK_DEADLOCK FALSE
