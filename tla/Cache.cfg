CONSTANTS
    Keys = {k1, k2, k3}
    Threads = {t1, t2}
    MaxSize = 2
    TTL = 1
    MaxLoad = 1
    MaxClock = 3
    MaxEdits = 1
    None = None
SYMMETRY Symmetry
SPECIFICATION Spec
INVARIANT TypeOK
PROPERTIES
    StalenessBound
    ClearTakesEffect
CHECK_DEADLOCK FALSE
