SPECIFICATION LogSpec
CONSTANTS
    Producers = {p}
    Operators = {o}
    BufferSize = 2
    BatchSize = 2
    FailureLimit = 1
    MaxEvents = 2
    MaxBuffers = 2
    MaxCalls = 2
    MaxFaults = 1
INVARIANTS
    
    GapsAddUp

    
CHECK_DEADLOCK FALSE
