\* Retrievals of up to four items; a budget of two that may grow to three.
SPECIFICATION Spec
CONSTANTS
    Text <- MCText
    Blank = "blank"
    Cost <- MCCost
    Keyword <- MCKeyword
    Covers <- MCCovers
    Matches <- MCMatches
    Dated <- MCDated
    Retrievals <- MCRetrievals
    Budgets = {2, 3}
    MaxEvidenceItems = 3
    ThinBelow = 2
    TokenFloor = 2
    TokenBudget = 6
    Affordable = {0, 2}
    MaxItems = 3
INVARIANTS
    NothingIsLost
    WithinBudgets
    CutsLeastEvidential
    WideningKeepsEvidence
    PacksFitTheLoop
