SPECIFICATION Spec
CONSTANTS
    Lobe = {l1, l2}
    None = None
    Snapshots = FALSE
    Pruning = FALSE
    MaxBacklog = 0
    BatchLimit = 2
    SyncEvery = 2
    Faults = {"disconnect", "restart", "cortex", "remove", "sdown"}
    MaxFaults = 2
    MaxSeq = 2
    MaxWire = 2
INVARIANT TypeOK
INVARIANT NoGap
INVARIANT NothingSkipped
INVARIANT AckIsTrue
PROPERTY RefinesPrefix
CHECK_DEADLOCK FALSE
