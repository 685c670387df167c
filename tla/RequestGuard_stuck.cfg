SPECIFICATION Spec
CONSTANTS
    Threshold = 1
    ResetTimeout = 1
    Request = {r1}
    Key = {k1}
    Anonymous = {}
    CacheMax = 1
    CacheTtl = 1
    FailMode = "closed"
    Framework = "express"
    Verdicts = {"allow", "deny", "advice"}
    HitlEnabled = TRUE
    HasHook = TRUE
    HasHealth = TRUE
    Flaky = FALSE
    Checks = {h1}
    MaxFlips = 2
    MaxEdits = 0
INVARIANT HalfOpenHasProbe
CHECK_DEADLOCK FALSE
