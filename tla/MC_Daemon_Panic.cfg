CONSTANTS
    N = 1
    Modes <- MCModes
    Overlap = FALSE
    Unwind = FALSE
SPECIFICATION Spec
INVARIANT PanicCleansUp
CHECK_DEADLOCK FALSE
