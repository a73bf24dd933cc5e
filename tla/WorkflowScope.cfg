\* The requests of Router.cfg, some with the caller's own NodeSets.
SPECIFICATION Spec
CONSTANTS
    Word <- MCWord
    NodeSet <- MCNodeSet
    NameWords <- MCNameWords
    IndexFile <- MCIndexFile
    StopWords <- MCStopWords
    Requests <- MCRequests
    MaxCrashes = 1
    SearchTimeouts <- MCSearchTimeouts
    RetrieveTimeout = 30
    Predicted <- MCPredicted
INVARIANT
    CallerScopeWins
