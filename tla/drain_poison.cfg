SPECIFICATION Spec
CONSTANTS
    Events = {e1, e2, e3}
    HardMax = 4
    RotateAt = 2
    CrashPoints = {}
    MaxCrashes = 0
    Torn = Torn
    Uncounted = Uncounted
    Passes = {j1}
    Drainers = {j1}
    DrainerOf <- OwnDrainer
    BatchSize = 2
    MaxAttempts = 2
    MaxBatches = 2
    Unstorable = {}
    Odd = {e1}
    StoreStates = {"up"}
PROPERTIES
    PoisonDoesNotBlock
