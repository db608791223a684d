SPECIFICATION Spec
CONSTANTS
    Node = {1, 2, 3}
    Designated = 1
    MaxWrites = 3
    MaxReigns = 2
INVARIANT AckedIsHeld
CHECK_DEADLOCK FALSE
