SPECIFICATION ContainerSpec
CONSTANTS
    q1 = q1
    q2 = q2
    q3 = q3
    Queue <- MCQueue
    Own = q3
    LaneOf <- MCLaneOf
    Namings <- MCNamings
    Tables <- MCTables
    MaxConsumers = 3
    MaxChanges = 2
    MaxMishaps = 1
INVARIANTS
    OneThreadALane
    
PROPERTIES
    Converges
CHECK_DEADLOCK FALSE
