SPECIFICATION Spec
CONSTANTS
    Callers = {c1, c2}
    Approvers = {c1}
    Runs = {x1, x2}
    Timeout = 2
    PollEvery = 1
    MaxMints = 3
    MaxCalls = 2
INVARIANT ApprovalSound
PROPERTY TokenMonotone
CHECK_DEADLOCK FALSE
