\* Every query of up to two signals; a worker that may die once.
SPECIFICATION Spec
CONSTANTS
    Word <- MCWord
    NodeSet <- MCNodeSet
    NameWords <- MCNameWords
    IndexFile <- MCIndexFile
    StopWords <- MCStopWords
    Requests <- MCRequests
    MaxCrashes = 1
    SearchTimeouts <- MCSearchTimeouts
    RetrieveTimeout = 30
    Predicted <- MCPredicted
INVARIANTS
    
    SignalsPullTheirWay
    ConfidenceIsAMargin
    RoutesFitTheLoop
    ScopeSurvivesParaphrase
PROPERTY
    WorkflowEnds
