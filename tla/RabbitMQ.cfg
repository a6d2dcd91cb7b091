SPECIFICATION RabbitSpec
CONSTANTS
    Queue = {q1, q2}
    Own = q1
    Messages = 2
    MaxInFlight = 2
    MaxChannels = 2
    MaxTag = 6
    MaxMoves = 2
PROPERTIES
    Implements
    
CHECK_DEADLOCK FALSE
