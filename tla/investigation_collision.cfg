SPECIFICATION Spec
CONSTANTS
    Requests = {q1, q2}
    Executors = {x1, x2}
    MaxClaims = 2
    MaxTries = 3
    MaxStalls = 1
    Faults = {}
    Free = Free
SYMMETRY Symmetry
INVARIANTS
    CurrentResultIsKept
CHECK_DEADLOCK FALSE
