SPECIFICATION FairSpec
CONSTANTS
    Lobe = {l1}
    None = None
    Snapshots = TRUE
    Pruning = TRUE
    MaxBacklog = 1
    BatchLimit = 2
    SyncEvery = 2
    Faults = {"disconnect", "restart", "crash", "wipe", "cortex", "remove", "busy", "apply"}
    MaxFaults = 2
    MaxSeq = 3
    MaxWire = 2
INVARIANT HolesAreExplained
PROPERTY CursorCatchesUp
CHECK_DEADLOCK FALSE
