CONSTANTS
    Macs = {m1}
    Threads = {t1, t2}
    Objects = {o1, o2, o3}
    Targets = {"booting", "complete"}
    MaxHistory = 3
    MaxCrashes = 1
    None = None
SYMMETRY Symmetry
SPECIFICATION Spec
INVARIANTS
    TypeOK
    PersistedUnlessPending
    NotifiedIsDurable
    StateIsRecent
