CONSTANTS
    Keys = {k1}
    Threads = {t1, t2}
    Unit = 2
    Rates = {0, 1}
    Capacities = {0, 4}
    MaxAge = 8
    MaxLag = 2
    MaxClock = 14
    None = None
SYMMETRY Symmetry
SPECIFICATION Spec
INVARIANTS
    TypeOK
    WindowBound
    RetryAfterIsExact
