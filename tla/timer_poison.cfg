SPECIFICATION TimerSpec
CONSTANTS
    Events = {e1, e2, e3}
    HardMax = 4
    RotateAt = 2
    CrashPoints = {"idle", "commit", "settle"}
    MaxCrashes = 1
    Torn = Torn
    Uncounted = Uncounted
    Passes = {t1}
    Drainers = {drainer}
    DrainerOf <- OneDrainer
    BatchSize = 2
    MaxAttempts = 2
    Unstorable = {}
    Odd = {e1}
    StoreStates = {"up", "down", "flaky"}
INVARIANTS
    NoEventLost
PROPERTIES
    PoisonDoesNotBlock
