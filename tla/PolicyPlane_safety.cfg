SPECIFICATION Spec
CONSTANTS
    k1 = k1
    k2 = k2
    Caller = {c1, c2}
    Call = {k1, k2}
    Addon = {}
    MaxVersion = 2
    CacheMax = 1
    CacheTtl = 1
    PdpTtl = 1
    GrantMax = 1
    DiscoveryTtl = 1
    PdpConfigured = TRUE
    FailMode = "deny"
    AllowedBy <- MCAllowedBy
    Approvable = {}
    GrantTtl = 0
    StreamMax = 1
    MaxLags = 1
    MaxToggles = 0
    MaxTicks = 0
    Faults = {"4xx", "probe", "nohash", "401", "body", "webhook", "malformed"}
INVARIANTS AllowIsBacked CacheCoherent
SYMMETRY Symmetry
