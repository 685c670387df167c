SPECIFICATION Spec
CONSTANTS
    Callers = {c1, c2}
    None = None
    Options <- UdsOptions
    Hashing <- MCHashing
    MaxVersion = 2
    MaxRefreshes = 2
    MaxShutdowns = 1
INVARIANT OneRuntime
CHECK_DEADLOCK FALSE
