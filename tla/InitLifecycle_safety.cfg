SPECIFICATION FairSpec
CONSTANTS
    Callers = {c1, c2}
    None = None
    Options <- MCOptions
    Hashing <- MCHashing
    MaxVersion = 2
    MaxRefreshes = 2
    MaxShutdowns = 1
INVARIANTS OneRuntime AbortBeforeWiring
PROPERTIES SchemaMonotone SchemaConverges
CHECK_DEADLOCK FALSE
