\* "resolve --as" drops a question that brought no proposal.
SPECIFICATION Spec
CONSTANTS
    method = method
    Targets <- MCTargets
    Born <- MCBorn
    MaxVersion = 2
    MaxQuestions = 2
PROPERTIES
    AnswerYieldsProposal
