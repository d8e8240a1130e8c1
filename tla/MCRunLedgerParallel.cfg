\* Two tool calls at once step over the soft limit.
SPECIFICATION Spec
CONSTANTS
    AskEvery = 4
    MaxTotal = 8
    f1 = f1
    f2 = f2
    t1 = t1
    t2 = t2
    Failures <- MCFailures
    Lanes <- TwoLanes
INVARIANTS
    SoftLimitHolds
CHECK_DEADLOCK FALSE
