SPECIFICATION FairSpec
CONSTANTS
    NSessions = 3
    Accounts = {a1}
    Personas = {p1, p2}
    Backends = {"engine", "seeder"}
    Explicit = {}
    ResetSlots = 1
    SeedSlots = 1
    Prompt = TRUE
    NoPersona = NoPersona
    MaxFaults = 1
CHECK_DEADLOCK FALSE
INVARIANTS TypeOK OneEngine LastIsContent
PROPERTIES SeedsOnlyNew RunningEnds QueuedStarts
