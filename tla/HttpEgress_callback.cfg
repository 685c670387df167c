SPECIFICATION FairSpec
CONSTANTS
    Reqs = {r1}
    Workload <- MCCallback
    Answers <- MCAnswers
    Configs <- MCConfigs
    MaxBlocks = 4
    MaxRetries = 1
    MaxFlips = 0
PROPERTIES CallerHears
CHECK_DEADLOCK FALSE
