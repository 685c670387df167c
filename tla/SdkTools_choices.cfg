SPECIFICATION ToolsSpec
CONSTANTS
    Calls = {c1}
    Jobs <- ChoiceJobs
    Layouts <- LiveLayout
    MaxPasses = 0
    MaxToggles = 1
    PollInterval = 2
    MaxWait = 5
INVARIANTS EveryCallEvaluated
CHECK_DEADLOCK FALSE
