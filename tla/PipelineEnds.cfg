SPECIFICATION FairSpec
CONSTANTS
    Plan <- MailPlan
    Pool <- MailPool
    Emails <- TwoPipes
    Pipes = {"p", "q"}
    Shared = "*"
    Drift = {}
    MaxRetries = 2
    Wiping = {FALSE}
    LiveReclaim = FALSE
    MaxFaults = 1
    MaxCrashes = 0
    MaxPushes = 1
    MaxReclaims = 1
PROPERTY PushEnds
CHECK_DEADLOCK FALSE
