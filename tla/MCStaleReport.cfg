SPECIFICATION ToolsSpec
CONSTANTS
    TestVersions <- MCTestVersions
    TargetLines = {1}
    Methods = {"m"}
    LineMin = 80
    BranchMin = 70
    MutationMin = 50
    OldSources <- MCOldSources
    NoContent = "absent"
    RoundMax = 2
INVARIANT MeasuredIsThisRun
CHECK_DEADLOCK FALSE
