SPECIFICATION FairPoolSpec
CONSTANTS
    Clients = {c1, c2}
    None = None
    MaxThreads = 3
    MaxTasks = 2
INVARIANTS
    FinishWaitsForAll
    EveryoneHelps
PROPERTIES
    WaitsReturn
CHECK_DEADLOCK FALSE
