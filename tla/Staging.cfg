CONSTANTS
    Threads = {t1, t2}
    Firmware = {f1, f2}
    Targets = {n1}
    Temps = {x1, x2, x3}
    Collisions = FALSE
    None = None
SYMMETRY Symmetry
SPECIFICATION Spec
INVARIANTS
    TypeOK
    NoLitter
PROPERTIES
    ImplementsDirectory
    NeverUnserved
