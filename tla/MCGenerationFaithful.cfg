\* A reviewed proposal becomes the baseline of the next run.
SPECIFICATION Spec
CONSTANTS
    target = target
    other = other
    h = h
    a = a
    Classes <- MCClasses
    Paths <- MCPaths
    Asserts <- MCAsserts
    AgentTexts <- MCAgentTexts
    HumanTexts <- MCHumanTexts
    AuthChoices <- NoAuth
    MaxRetries = 2
    MaxWrites = 1
    MaxFaults = 1
INVARIANTS
    AcceptedIsFaithful
