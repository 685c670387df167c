SPECIFICATION ToolsFairSpec
CONSTANTS
    Calls = {c1}
    Jobs <- MCJobs
    Layouts <- MCLayouts
    MaxPasses = 2
    MaxToggles = 2
    PollInterval = 2
    MaxWait = 5
INVARIANTS ReplaySound GuardSound OneEnd
PROPERTIES CallsSettle
CHECK_DEADLOCK FALSE
