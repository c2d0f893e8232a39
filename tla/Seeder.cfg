SPECIFICATION FairSpec
CONSTANTS
    NRows = 2
    EmailOf <- OneAccount
    Folder <- TwoFolders
    Uploaded = {1}
    Recorded = {"ann"}
    NoPersona = NoPersona
    Earlier = {NoPersona, "B"}
    NJobs = 3
    MaxTroubles = 1
INVARIANTS IdleAccountIsPure
PROPERTY AccountsTakeTurns
CHECK_DEADLOCK FALSE
PROPERTY LocksAreFreed
