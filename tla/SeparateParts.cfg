CONSTANTS
    Threads = {t1, t2}
    None = None
    Torn = Torn
    Absent = Absent
    Raised = Raised
    Keys = {"a", "b", "host"}
    Values = {v1, v2}
    FileOf <- MCFileOf
    Own = {"host.json"}
    Names = {n1, n2}
    Images = {i1}
    Filenames = {f1, f2}
    Sources = {s1, s2}
    Remote = {s2}
    Part = Part
    MaxGenerations = 3
    Kinds = {k1, k2}
    BufferSize = 2
    MaxEntries = 3
    MaxLoggers = 2
    MaxConnections = 3
SPECIFICATION Spec
SYMMETRY Symmetry
INVARIANTS
    TypeOK
    ChangesAreKept
    FileIsMemory
    SyncedIsThere
    ListedIsDelivered
    PairMatches
    AnswerIsRight
    ConnectionIsOwned
    DetectionIsRight
