SPECIFICATION Spec
CONSTANTS
    Job = {j1, j2}
    Worker = {w1, w2}
    Capacity = 1
    BatchSize = 2
    Faults = 1
INVARIANT TypeOK
INVARIANT PendingCounts
INVARIANT StopDrains
INVARIANT NothingVanishes
PROPERTY JobsAreDealtWith
PROPERTY StopReturns
