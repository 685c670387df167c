SPECIFICATION Spec
CONSTANTS
    Reqs = {r1}
    Workload <- MCWorkload
    Answers <- MCAnswers
    Configs <- MCConfigs
    MaxBlocks = 4
    MaxRetries = 1
    MaxFlips = 1
INVARIANTS CallsGoverned AnswerGoverned OneEnforcer PlaceholderKept
CHECK_DEADLOCK FALSE
