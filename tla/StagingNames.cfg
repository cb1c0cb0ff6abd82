CONSTANTS
    Threads = {t1, t2}
    Firmware = {f1, f2}
    Targets = {n1}
    Temps = {x1, x2, x3}
    Collisions = TRUE
    None = None
SYMMETRY Symmetry
SPECIFICATION Spec
INVARIANT SourcesAreRead
