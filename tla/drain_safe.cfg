SPECIFICATION Spec
CONSTANTS
    Events = {e1, e2, e3, e4}
    HardMax = 4
    RotateAt = 2
    CrashPoints = {"idle", "commit", "settle"}
    MaxCrashes = 1
    Torn = Torn
    Uncounted = Uncounted
    Passes = {j1}
    Drainers = {j1}
    DrainerOf <- OwnDrainer
    BatchSize = 2
    MaxAttempts = 2
    MaxBatches = 2
    Unstorable = {e1}
    Odd = {}
    StoreStates = {"up", "down", "flaky"}
INVARIANTS
    JobTypeOK
    NoEventLost
    BacklogIsWhatWaits
    OnlyUnstorableDeadLettered
PROPERTIES
    QueueSpec
    AcceptedIsResolved
