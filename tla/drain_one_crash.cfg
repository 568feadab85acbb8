SPECIFICATION Spec
CONSTANTS
    Events = {e1, e2, e3, e4}
    HardMax = 5
    RotateAt = 2
    CrashPoints = {"idle", "append", "commit", "rotate", "settle"}
    MaxCrashes = 1
    Torn = Torn
    Uncounted = Uncounted
    Passes = {j1}
    Drainers = {j1}
    DrainerOf <- OwnDrainer
    BatchSize = 2
    MaxAttempts = 2
    MaxBatches = 2
    Unstorable = {e1}
    Odd = {e2}
    StoreStates = {"up", "down", "flaky", "unmigrated"}
INVARIANTS
    LossBoundedByCrashes
