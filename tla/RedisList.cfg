SPECIFICATION Spec
CONSTANTS
    w1 = w1
    w2 = w2
    Worker = {w1, w2}
    NoWorker = NoWorker
    Messages = 2
    MaxInFlight = 2
    MaxFaults = 1
SYMMETRY Interchangeable
INVARIANTS
    KeptOnce
    OrderKept
PROPERTIES
    DropsOnlyWhatItMay
    Implements
