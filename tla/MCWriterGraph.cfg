\* The default limits of limits.py.  Two failure texts: the code only compares
\* a text with the one before it.
SPECIFICATION FairSpec
CONSTANTS
    AskEvery = 4
    MaxTotal = 8
    f1 = f1
    f2 = f2
    Failures <- MCFailures
INVARIANTS
    TypeOK
    LimitsKept
    NoWorkAfterStop
PROPERTIES
    RepeatedFailureIsAsked
    Terminates
    KeepsPromise
CHECK_DEADLOCK FALSE
