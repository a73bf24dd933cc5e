\* Seven names, room for four; a path may take two hops; one site that evicts and
\* one that saves and restarts.
SPECIFICATION Spec
CONSTANTS
    Key = {"a", "b", "c", "d", "e", "f", "context"}
    Predicate = {"uses", "contains"}
    MaxNodes = 4
    MaxHops = 2
    Sites <- MCSites
INVARIANTS
    TypeOK
    AdjacencyAgrees
    AnswersAreSound
    EdgesWereStated
    PromotionIsAnswered
    SnapshotIsNeverTorn
    RestartRestores
PROPERTY
    ImplementsKnowledge
