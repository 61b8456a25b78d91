CONSTANTS
    N = 2
    Modes <- MCModes
    Overlap = FALSE
    Unwind = FALSE
SPECIFICATION Spec
INVARIANTS NoZombie ExitLosesNothing
PROPERTIES ParentReturns SignalStops Answered
CHECK_DEADLOCK FALSE
