SPECIFICATION WebSpec
CONSTANTS
    Send = {s1}
    Upd = {u1, u2}
    NoOne = NoOne
    MaxLoops = 2
    MaxCloses = 1
INVARIANTS
    NothingLost
PROPERTIES
    HandOffKept
    RequestsReturn
CHECK_DEADLOCK FALSE
