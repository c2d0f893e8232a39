SPECIFICATION Spec
CONSTANTS
    Workers = {w1, w2}
    Accounts = {a1}
    NoWorker = NoWorker
    NJobs = 2
    HandModes = {}
    MaxConcurrent = 2
    MaxRetries = 1
    StaleAfter = 1
    RetryAfter = 2
    Cooldown = 0
    WorkerFresh = 1
    AllowLive = TRUE
    Readback = FALSE
    LagMax = 0
    CallMax = 0
    MaxFaults = 1
CHECK_DEADLOCK FALSE
SYMMETRY Symmetric
INVARIANTS TypeOK SameAccountSerialized CompletedIsRestored RunningIsNotClaimable
PROPERTY AccountsTakeTurns
