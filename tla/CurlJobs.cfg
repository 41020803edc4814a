CONSTANTS
    Jobs = {j1, j2}
    URLs = {u1, u2}
    None = None
    Chunks = 2
    StorageLimit = 4
    DiskErrors = TRUE
    MaxRunningJobs = 2
    StartFails = TRUE
    SelectFails = TRUE
SPECIFICATION Spec
INVARIANTS
    
    References
    TimerCoversWork
    LoadingEntryHasOwner
    UsableEntryIsWhole
    
SYMMETRY Symmetric
CHECK_DEADLOCK FALSE
