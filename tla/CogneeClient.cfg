\* Three coroutines, each deployment, sessions closed and opened again.
SPECIFICATION Spec
CONSTANTS
    Worker = {w1, w2, w3}
    Deployments = {"remote", "embedded", "unconfigured"}
    MaxSessions = 4
INVARIANTS
    TypeOK
    SessionsBounded
    AckTellsTheTruth
PROPERTY
    SearchesEnd
