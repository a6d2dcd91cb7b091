SPECIFICATION Spec
CONSTANTS
    Process = {p, q}
    Bots = 2
    Lease = 1
    Ceiling = 1
    Upsets <- MCUpsets
    Most <- MCMost
INVARIANTS
    OnePoller
PROPERTIES
    StopsForCause
    RowCatchesUp
    Converges
