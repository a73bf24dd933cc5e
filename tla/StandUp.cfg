\* Every combination of keys, providers and missing prerequisites.
SPECIFICATION Spec
CONSTANTS
    Givens <- MCGivens
    SmokeModes <- MCSmokeModes
INVARIANTS
    OutcomesAreEarned
    ExplicitSettingsSurvive
    BridgedPairsFit
