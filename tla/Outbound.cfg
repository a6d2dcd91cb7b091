SPECIFICATION Spec
CONSTANTS
    Single = {one}
    Fanout = {many}
    Chunks = 2
    MaxRetries = 1
    MaxInFlight = 1
    MaxFaults = 1
    MaxBlocks = 1
INVARIANTS
    AnnouncedAfterCommit
    StopsWhereItFails

    
CHECK_DEADLOCK FALSE
