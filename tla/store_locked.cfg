SPECIFICATION Spec
CONSTANTS
    p1 = p1
    p2 = p2
    Proc = {p1, p2}
    Op = {"confidence", "soft", "tags", "touch", "finish", "reopen", "claim", "release", "delete", "patch", "restore", "read", "scan"}
    Nobody = Nobody
    Gone = Gone
    NoLease = NoLease
    TTL = 0
    CasMaxRetries = 2
    MaxNow = 1
    MaxOps = 3
SYMMETRY Symmetry
INVARIANT LockWillBeReleased
INVARIANT GrantIsLease
INVARIANT IndexExact
INVARIANT CacheCoherent
INVARIANT FollowerAgrees
PROPERTY LockedReadsAreFresh
PROPERTY NoLostUpdate
CHECK_DEADLOCK FALSE
