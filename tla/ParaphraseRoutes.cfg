\* The paraphrase cache and freshness routes (README.md:88).
SPECIFICATION Spec
CONSTANTS
    Request <- MCRequest
    Form <- MCForm
    RouteFresh <- MCRouteFresh
    Worker = {w1, w2}
    MaxSize = 3
    DefaultTTL = 2
    FreshnessTTL = 1
    Horizon = 3
INVARIANT
    ParaphraseAvoidsFreshRoutes
