SPECIFICATION Spec
CONSTANTS
    Run = {r1, r2, r3}
    m = m
    n = n
    Endings <- MCEndings
    Unargued <- MCUnargued
    Late = {m}
    Window = 2
    Attempts = 2
    Lease = 1
    Limit = 1
    Setup = {"ready", "no log", "disabled", "no kind"}
    MaxTime = 2
SYMMETRY Symmetry

    
    
PROPERTIES
    FinishedStands
CHECK_DEADLOCK FALSE
