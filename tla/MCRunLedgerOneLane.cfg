\* The default limits, calls one at a time.
SPECIFICATION Spec
CONSTANTS
    AskEvery = 4
    MaxTotal = 8
    f1 = f1
    f2 = f2
    t1 = t1
    t2 = t2
    Failures <- MCFailures
    Lanes <- OneLane
INVARIANTS
    LimitsKept
PROPERTIES
    KeepsPromise
CHECK_DEADLOCK FALSE
