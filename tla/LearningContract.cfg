\* The triplets of the Cognee client (orchestrator.py:440).
SPECIFICATION Spec
CONSTANTS
    Key = {"a", "b", "c", "d", "e", "f", "context"}
    Predicate = {"uses", "contains"}
    MaxNodes = 4
    MaxHops = 2
    Sites <- CrowdedOnly
INVARIANT
    SlowPathTeaches
