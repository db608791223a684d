SPECIFICATION Spec
CONSTANTS
    None = None
    Node = {1, 2, 3}
    Lobe = {}
    Attempts = 2
    Faults = 1
CHECK_DEADLOCK FALSE
INVARIANT LeadershipIsKept
INVARIANT DualIsBrief
