\* Three deployments, every retrieval outcome and verdict.
SPECIFICATION Spec
CONSTANTS
    MaxRetries = 2
    MaxEvidenceItems = 12
    MaxItems = 3
    Deployments <- MCDeployments
    LearnedBudgets = {4, 12}
INVARIANTS
    TypeOK
    AttemptsBounded
    ModesNotRepeated
    AnswersRestOnLiveEvidence
    AnswersHaveEvidence
    FreshnessIsNeverDropped
    FreshEvidenceIsDated
    TemporalAnswersAreNotParaphrased
    OnlyLiveEvidenceIsRemembered
    LoopInvariant
PROPERTIES
    KeepsContract
