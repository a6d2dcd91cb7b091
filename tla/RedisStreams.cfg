SPECIFICATION StreamsSpec
CONSTANTS
    Me = Me
    Peer = Peer
    NoOne = NoOne
    Streams = 2
    Entries = 2
    Strangers = {{}, {1}}
    Page = 1
    MaxInFlight = 2
    MaxFaults = 1
    MaxMoves = 2

    
PROPERTIES
    Implements
    
CHECK_DEADLOCK FALSE
