SPECIFICATION FairSpec
CONSTANTS
    Plan <- CalendarPlan
    Pool <- CalendarPool
    Emails <- OnePipe
    Pipes = {"p"}
    Shared = "*"
    Drift = {}
    MaxRetries = 2
    Wiping = {TRUE, FALSE}
    LiveReclaim = FALSE
    MaxFaults = 0
    MaxCrashes = 0
    MaxPushes = 2
    MaxReclaims = 1
PROPERTIES WipeThenRestore
CHECK_DEADLOCK FALSE
