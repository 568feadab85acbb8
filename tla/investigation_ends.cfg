SPECIFICATION Spec
CONSTANTS
    Requests = {q1}
    Executors = {x1}
    MaxClaims = 2
    MaxTries = 2
    MaxStalls = 1
    Faults = {"refuse", "unanswered", "web", "incident", "query", "transient", "commit", "close", "death"}
    Free = Free
PROPERTIES
    PendingEnds
CHECK_DEADLOCK FALSE
