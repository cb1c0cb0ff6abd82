CONSTANTS
    Threads = {t1, t2}
    HostSeq <- MCHostSeq
    RoleOf <- MCRoleOf
    Orders <- MCOrders
    None = None
    Torn = Torn
SPECIFICATION Spec
INVARIANTS
    TypeOK
    SummaryIsTruthful
    ProvisioningIsRunning
    RolesInOrder
PROPERTY ProvisioningEnds
