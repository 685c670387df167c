SPECIFICATION Spec
CONSTANTS
    Reqs = {r1}
    Workload <- MCWorkload
    Answers <- MCNameless
    Configs <- MCConfigs
    MaxBlocks = 4
    MaxRetries = 1
    MaxFlips = 0
INVARIANTS AnswerGoverned
CHECK_DEADLOCK FALSE
