SPECIFICATION FairSpec
CONSTANTS
    Threshold = 1
    ResetTimeout = 1
    Request = {r1, r2}
    Key = {k1}
    Anonymous = {}
    CacheMax = 1
    CacheTtl = 1
    FailMode = "cached"
    Framework = "nestjs"
    Verdicts = {"allow", "flagged", "waived"}
    HitlEnabled = TRUE
    HasHook = TRUE
    HasHealth = TRUE
    Flaky = FALSE
    Checks = {h1, h2}
    MaxFlips = 2
    MaxEdits = 1
INVARIANTS BreakerConsistent AllowIsVouched EscalationsUncached
PROPERTY GuardRecovers
