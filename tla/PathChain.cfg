\* The chain a path answer prints (memgraph.py:14).
SPECIFICATION Spec
CONSTANTS
    Key = {"a", "b", "c", "d", "e", "f", "context"}
    Predicate = {"uses", "contains"}
    MaxNodes = 4
    MaxHops = 2
    Sites <- Untaught
INVARIANT
    ChainIsGrounded
