SPECIFICATION McpSpec
CONSTANTS
    Jobs = {j1, j2, j3}
    McpWorkload <- MCReconnect
    Clients = {"c1"}
    Endpoints <- MCEndpoints
    NameOf <- MCNameOf
    Calls <- MCCalls
    KeyOf <- MCKeyOf
    NoName = "none"
    OwnOrigin = {"own"}
    Prefixed = {"e2"}
    McpConfigs <- MCConfigs
    Earlier <- MCFresh
    MaxEndpoints = 1
    MaxTokens = 1
    TokenTtl = 1
    MaxTicks = 0
    MaxPatches = 0
INVARIANTS ActionNamesServer
CHECK_DEADLOCK FALSE
