SPECIFICATION FairSpec
CONSTANTS
    BufferSize = 2
    BatchSize = 2
    Interval = 1
    MaxBackoff = 2
    Retries = 1
    HasRefresh = TRUE
    Leaky = {2}
    Orderly = TRUE
    MaxEvents = 5
    MaxFaults = 3
INVARIANTS NothingLost OrderKept LeakNeverSent
PROPERTY EventSettles
