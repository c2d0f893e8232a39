SPECIFICATION Spec
CONSTANTS
    Workers = {w1, w2}
    Accounts = {a1}
    NoWorker = NoWorker
    NJobs = 1
    HandModes = {"RESET", "PREVIEW"}
    MaxConcurrent = 2
    MaxRetries = 1
    StaleAfter = 2
    RetryAfter = 3
    Cooldown = 1
    WorkerFresh = 1
    AllowLive = TRUE
    Readback = TRUE
    LagMax = 1
    CallMax = 1
    MaxFaults = 1
CHECK_DEADLOCK FALSE
SYMMETRY Symmetric
INVARIANTS RetriesBounded ResumeFollowsOwnReset
