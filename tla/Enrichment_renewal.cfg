SPECIFICATION EnrichSpec
CONSTANTS
    Askers = {c1, c2}
    Keys = {k1, k2}
    NoKey = NoKey
    Fetches = {f1, f2}
    Modes = {"fail_open", "fail_closed"}
    Ttl = 3
    NegTtl = 1
    FailuresToOpen = 2
    Window = 1
    OpenFor = 1
    Capacity = 1
    MaxAge = 3
    MaxFlips = 2
PROPERTY EntrySurvives
