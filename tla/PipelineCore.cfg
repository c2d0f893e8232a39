SPECIFICATION Spec
CONSTANTS
    Plan <- DrivePlan
    Pool <- DrivePool
    Emails <- OnePipe
    Pipes = {"p"}
    Shared = "*"
    Drift <- AnnEdits
    MaxRetries = 2
    Wiping = {TRUE}
    LiveReclaim = FALSE
    MaxFaults = 1
    MaxCrashes = 1
    MaxPushes = 2
    MaxReclaims = 1
INVARIANTS OneToken NoOrphan SuccessIsThere NoSpareCopies NoFailureUncalled StoppedQuiet
PROPERTY LeftoversRemoved
CHECK_DEADLOCK FALSE
