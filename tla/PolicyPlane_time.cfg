SPECIFICATION FairSpec
CONSTANTS
    k1 = k1
    k2 = k2
    Caller = {c1, c2}
    Call = {k1}
    Addon = {a1}
    MaxVersion = 1
    CacheMax = 1
    CacheTtl = 1
    PdpTtl = 1
    GrantMax = 1
    DiscoveryTtl = 1
    PdpConfigured = TRUE
    FailMode = "deny"
    AllowedBy <- MCAllowedBy
    Approvable = {k1}
    GrantTtl = 1
    StreamMax = 1
    MaxLags = 0
    MaxToggles = 2
    MaxTicks = 2
    Faults = {"probe", "oldpdp"}
INVARIANTS GrantWithinApproval CachedAgeBounded
PROPERTIES GrantUseIsApproved SuspensionConverges
