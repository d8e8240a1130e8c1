SPECIFICATION PartsSpec
CONSTANTS
    Files <- MCFiles
    MinVotes = 2
    MaxDepth = 4
    MaxVisit = 4
    l1 = l1
    l2 = l2
    Lanes = {l1, l2}
    Kind <- MCKind
    Replies <- MCReplies
    Budgets <- MCBudgets
    NoBudget = NoBudget
    MaxAnswers = 2
    Keys <- MCKeys
    Absent = Absent
    Sources <- MCSources
    Projects <- MCProjects
    Seconds <- MCSeconds
    Reasoning = {"gpt-5", "o3"}
    Codes <- MCCodes
    b1 = b1
    b2 = b2
    Builders = {b1, b2}
    Plans <- MCPlans
    ImpactMax = 2
    TestVersions <- MCTestVersions
    TargetLines = {1, 2}
    Methods <- MCMethods
    LineMin = 80
    BranchMin = 70
    MutationMin = 50
    OldSources <- MCOldSources
    NoContent = "absent"
    RoundMax = 2
    Classes <- MCClasses
    TestFiles <- MCTestFiles
    Fragments <- MCFragments
    WholeFiles <- MCWholeFiles
    NoFile = NoFile
    Authorized <- MCAuthorized
    AttemptMax = 2
    Diffs <- MCDiffs
    Answers <- MCAnswers
    Histories <- MCHistories
    MemoTargets <- MCTargets
    Messages = {"fix"}
    Alike <- MCAlike
    Models <- MCModels
    NoModel <- MCNoModel
    MaxShown = 2
    MaxMemos = 3
    LastInstant = 1
    Defects <- MCDefects
    Intents <- MCIntents
    Categories = {"bug_fix", "unclear"}
    RecordMax = 2
SYMMETRY MCSymmetry
INVARIANTS
    CompleteObjectsOnly
    DominatorsCorrect
    RetainedIsFreed
    PathsAreShortest
    BudgetOvershoot
    RecordingKeeps
    ReplayedAsRecorded
    ReplayEndsTheSame
    ProjectsDoNotMix
    GraphIsWhole
    StatusOfThisRun
    DerivedOnce
    CoverageIsThisRun
    OnlyKillsLeaveOldCode
    MergeKeepsExisting
    AssertsKept
    ChangesAttributed
    DecisionsResurface
    RowsAreOfTheirCase
CHECK_DEADLOCK FALSE
