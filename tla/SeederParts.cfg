SPECIFICATION PartsSpec
CONSTANTS
    Writers = {w1, w2}
    Readers = {r1, r2}
    MaxLines = 2
    NLines = 3
    NRecords = 3
    Emails = {ann, bob}
    Threads = {t1, t2}
    NoEmail = NoEmail
    NConsents = 2
    MaxTroubles = 1
    MaxSid = 6
    MaxSize = 1
    Users = {u1, u2}
    Rels = {f, g}
    Free = Free
    Invalid = {2}
    MaxVersion = 3
    MaxFaults = 2
    Workers = {k1, k2}
    Accounts = {ann}
    Service = calendar
    Token = 2
    Rate = 2
    MinRate = 1
    MaxRate = 3
    Burst = 4
    AccountRate = 2
    AdjustAfter = 2
    Recent = 4
    MaxTime = 5
    MaxCalls = 3
    Callers = {c1}
    Ticker = Ticker
    Main = Main
    Services = {}
    Common = Common
    MaxReports = 2
    MaxMishaps = 1
INVARIANTS StreamIsTrue EveryRowGetsItsTurn CacheIsTrue CallsKeepTheRate LogIsTrue
PROPERTY TokenComesFromItsConsent
CHECK_DEADLOCK FALSE
