SPECIFICATION FairSpec
CONSTANTS
    Workers = {w1}
    Accounts = {a1}
    NoWorker = NoWorker
    NJobs = 2
    HandModes = {"PREVIEW"}
    MaxConcurrent = 2
    MaxRetries = 1
    StaleAfter = 1
    RetryAfter = 2
    Cooldown = 0
    WorkerFresh = 1
    AllowLive = TRUE
    Readback = FALSE
    LagMax = 1
    CallMax = 0
    MaxFaults = 1
CHECK_DEADLOCK FALSE
PROPERTIES RunningEnds QueuedIsServed
