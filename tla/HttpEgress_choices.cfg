SPECIFICATION Spec
CONSTANTS
    Reqs = {r1}
    Workload <- MCWorkload
    Answers <- MCChoices
    Configs <- MCConfigs
    MaxBlocks = 4
    MaxRetries = 1
    MaxFlips = 0
INVARIANTS EveryCallGoverned
CHECK_DEADLOCK FALSE
