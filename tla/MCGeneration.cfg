\* Two gate attempts of one write each, one class under test.
SPECIFICATION FairSpec
CONSTANTS
    target = target
    other = other
    h = h
    a = a
    Classes <- MCClasses
    Paths <- MCPaths
    Asserts <- MCAsserts
    AgentTexts <- MCAgentTexts
    HumanTexts <- MCHumanTexts
    AuthChoices <- MCAuthChoices
    MaxRetries = 2
    MaxWrites = 1
    MaxFaults = 1
INVARIANTS
    OnlyFaultsLeaveTraces
    LabelIsEarned
    AcceptedRan
    PendingKept
PROPERTIES
    Terminates
    KeepsDeveloperPromise
