\* "resolve --as bug_fix" tries the test on another code than the one before the fix.
SPECIFICATION Spec
CONSTANTS
    method = method
    Targets <- MCTargets
    Born <- MCBornAtOnce
    MaxVersion = 2
    MaxQuestions = 2
INVARIANTS
    StatedFixIsReproduced
