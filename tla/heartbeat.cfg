SPECIFICATION Spec
CONSTANTS
    w1 = w1
    w2 = w2
    w3 = w3
    Watcher = {w1, w2, w3}
    Observer = {w3}
    Steady = {w1, w2}
    Missed = 0
INVARIANT ODownHasQuorum
INVARIANT LatchEndsWithEpisode
PROPERTY CrashIsDeclared
