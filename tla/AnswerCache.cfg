\* Two requests at a time, four questions, room for three answers.
SPECIFICATION Spec
CONSTANTS
    Request <- MCRequest
    Form <- MCForm
    RouteFresh <- MCRouteFresh
    Worker = {w1, w2}
    MaxSize = 3
    DefaultTTL = 2
    FreshnessTTL = 1
    Horizon = 3
INVARIANTS
    TypeOK
    AnswersExpire
    HitsFitTheRequest
