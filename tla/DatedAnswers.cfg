\* Production settings: the dated evidence of README.md:67.
SPECIFICATION Spec
CONSTANTS
    MaxRetries = 2
    MaxEvidenceItems = 12
    MaxItems = 3
    Deployments <- ProductionOnly
    LearnedBudgets = {4, 12}
INVARIANT
    FreshAnswersAreDated
