SPECIFICATION FairSpec
CONSTANTS
    BufferSize = 2
    BatchSize = 2
    Interval = 1
    MaxBackoff = 2
    Retries = 1
    HasRefresh = TRUE
    Leaky = {2}
    Orderly = FALSE
    MaxEvents = 4
    MaxFaults = 3
INVARIANT CloseLeavesNothing
