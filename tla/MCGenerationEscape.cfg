\* An exception outside the try leaves the waiting proposal in the sources.
SPECIFICATION Spec
CONSTANTS
    target = target
    other = other
    h = h
    a = a
    Classes <- MCClasses
    Paths <- MCPaths
    Asserts <- MCAsserts
    AgentTexts <- MCAgentTexts
    HumanTexts <- MCHumanTexts
    AuthChoices <- NoAuth
    MaxRetries = 2
    MaxWrites = 1
    MaxFaults = 1
INVARIANTS
    RestoredWhenItDies
