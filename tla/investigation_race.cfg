SPECIFICATION Spec
CONSTANTS
    Requests = {q1, q2}
    Executors = {x1, x2}
    MaxClaims = 2
    MaxTries = 2
    MaxStalls = 1
    Faults = {"refuse", "query", "transient", "commit", "close", "stall"}
    Free = Free
SYMMETRY Symmetry
INVARIANTS
    TypeOK
    OneRunPerIncident
    ReadyHasItsVersion
    NoOrphanResult
    ToldFailedIsFinal
    JobClosesItsAttempt
PROPERTIES
    LifecycleSpec
CHECK_DEADLOCK FALSE
