SPECIFICATION McpFairSpec
CONSTANTS
    Jobs = {j1, j2}
    McpWorkload <- MCWorkload
    Clients = {"c1"}
    Endpoints <- MCEndpoints
    NameOf <- MCNameOf
    Calls <- MCCalls
    KeyOf <- MCKeyOf
    NoName = "none"
    OwnOrigin = {"own"}
    Prefixed = {"e2"}
    McpConfigs <- MCConfigs
    Earlier <- MCEarlier
    MaxEndpoints = 1
    MaxTokens = 1
    TokenTtl = 1
    MaxTicks = 1
    MaxPatches = 1
INVARIANTS TokenSound BatchWhole
PROPERTIES NameSticks CallsSettle
CHECK_DEADLOCK FALSE
