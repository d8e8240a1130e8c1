\* One target, two questions.
SPECIFICATION Spec
CONSTANTS
    method = method
    Targets <- MCTargets
    Born <- MCBorn
    MaxVersion = 2
    MaxQuestions = 2
INVARIANTS
    OrderedRewrites
    MaintainReproduces
PROPERTIES
    DecisionsAreKept
    KeptUntilProposed
