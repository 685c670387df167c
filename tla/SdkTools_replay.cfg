SPECIFICATION ToolsSpec
CONSTANTS
    Calls = {c1}
    Jobs <- TextJobs
    Layouts <- LiveLayout
    MaxPasses = 0
    MaxToggles = 1
    PollInterval = 2
    MaxWait = 5
INVARIANTS ReplayUnchanged
CHECK_DEADLOCK FALSE
