SPECIFICATION FairSpec
CONSTANTS
    NSessions = 1
    Accounts = {a1}
    Personas = {p1, p2}
    Backends = {"engine"}
    Explicit = {"delta"}
    ResetSlots = 1
    SeedSlots = 1
    Prompt = TRUE
    NoPersona = NoPersona
    MaxFaults = 1
CHECK_DEADLOCK FALSE
PROPERTY NoAccountBlocked
