SPECIFICATION Spec
CONSTANTS
    Events = {e1, e2, e3}
    HardMax = 4
    RotateAt = 2
    CrashPoints = {}
    MaxCrashes = 0
    Torn = Torn
    Uncounted = Uncounted
    Passes = {j1, j2}
    Drainers = {j1, j2}
    DrainerOf <- OwnDrainer
    BatchSize = 2
    MaxAttempts = 2
    MaxBatches = 2
    Unstorable = {}
    Odd = {}
    StoreStates = {"up"}
INVARIANTS
    NoEventLost
