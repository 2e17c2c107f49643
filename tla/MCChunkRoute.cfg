CONSTANTS
    Sizes = {1, 2, 3, 4, 5}
    ChunkSize = 2
    Workers = {v, w}
    MaxAttempts = 2
    MaxFaults = 2
    None = None
SPECIFICATION FairSpec
INVARIANTS
    TypeOK
    ServedIsOwed
    CompletedIsReadable
PROPERTIES
    RouteSettles
CHECK_DEADLOCK FALSE
