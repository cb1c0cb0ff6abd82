CONSTANTS
    Order <- MCOrder
    Events = {"e1", "e2"}
    Listed <- MCListed
    RetryCount <- MCRetryCount
    Workers = {w1, w2}
    Callers = {c1}
    MaxDeliveries = 2
    MaxJobs = 3
SPECIFICATION Spec
INVARIANTS
    TypeOK
    VerdictIsRight
    ShutdownDrains
PROPERTY BegunIsRecorded
CHECK_DEADLOCK FALSE
