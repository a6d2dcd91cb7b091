SPECIFICATION CallSpec
CONSTANTS
    m1 = m1
    m2 = m2
    b1 = b1
    Rows = 2
    Mover = {m1, m2}
    NoMover = NoMover
    Bot = {b1}
    NoBot = NoBot
    Never = Never
    Settings <- Various
    Followed <- MCFollowed
    Ceiling = 1
    MaxDelay = 1
    MaxAge = 2
    MaxPass = 1
    MaxFaults = 2
INVARIANTS
    NothingLost
    GivenUpOnce
    LeaseCoversCall
PROPERTIES
    ScheduledIsMoved
