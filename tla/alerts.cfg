SPECIFICATION Spec
CONSTANTS
    t1 = t1
    t2 = t2
    i1 = i1
    k1 = k1
    k2 = k2
    Free = Free
    Orphan = Orphan
    Ticks <- MCTicks
    Instances <- MCInstances
    InstanceOf <- MCInstanceOf
    Kinds <- MCKinds
    Faults <- MCFaults
    MinKinds = 2
    Cooldown = 1
    ResolveAfter = 1
    EscalateAfter = 1
    MaxTime = 2
SYMMETRY Symmetry
INVARIANTS
    TypeOK
    SingleFlight
    EveryOpenAlertWasTold
    IncidentIsBacked
PROPERTIES
    ResolvedOnlyWhenStale
    CooldownRespected
    AckUndoneOnlyWithinRun
CHECK_DEADLOCK FALSE
