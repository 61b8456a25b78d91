CONSTANTS
    N = 2
    Modes <- MCModes
    Overlap = TRUE
    Unwind = FALSE
SPECIFICATION Spec
PROPERTY SkipWhenDetached
CHECK_DEADLOCK FALSE
