\* The default limits, two tool calls of a message at once.
SPECIFICATION Spec
CONSTANTS
    AskEvery = 4
    MaxTotal = 8
    f1 = f1
    f2 = f2
    t1 = t1
    t2 = t2
    Failures <- MCFailures
    Lanes <- TwoLanes
INVARIANTS
    OvershootBounded
PROPERTIES
    StopIsFinal
    BlockIsForever
CHECK_DEADLOCK FALSE
