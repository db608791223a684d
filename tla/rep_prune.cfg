SPECIFICATION FairSpec
CONSTANTS
    Lobe = {l1}
    None = None
    Snapshots = FALSE
    Pruning = TRUE
    MaxBacklog = 0
    BatchLimit = 2
    SyncEvery = 2
    Faults = {"disconnect", "restart", "cortex", "remove", "sdown"}
    MaxFaults = 3
    MaxSeq = 3
    MaxWire = 2
INVARIANT PrunedIsApplied
PROPERTY Converges
CHECK_DEADLOCK FALSE
