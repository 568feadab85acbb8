SPECIFICATION Spec
CONSTANTS
    w1 = w1
    r1 = r1
    e1 = e1
    e2 = e2
    Instances <- MCInstances
    Workers <- MCWorkers
    TableOf <- MCTableOf
    Events <- MCEvents
    TenantOf <- MCTenantOf
    RotateAt = 1
    HardMax = 2
    Stale = 1
    MaxCrashes = 1
INVARIANTS
    TypeOK
    OneOwnerUnlessGap
    DeadLettersKept
PROPERTIES
    NextBootIsNotBlocked
CHECK_DEADLOCK FALSE
