CONSTANTS
    Macs = {m1, m2}
    Values = {v1, v2}
    Threads = {t1, t2}
    Nothing = Nothing
    Torn = Torn
    None = None
SPECIFICATION MigratingSpec
INVARIANTS
    TypeOK
    MigratedIsWhole
PROPERTIES
    ImplementsRecordStore
    LockIsReleased
