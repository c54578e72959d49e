SPECIFICATION MCSpec
CONSTANTS
    Ops <- Everything
    Unlocked <- Both
    Cancels <- Callers
    EarlyConfig = TRUE
    MaxOps = 4
    MaxFaults = 2
INVARIANTS
    LeavesNothing
    StopsWhatItLeaves
    GoesOnWhenPlain
PROPERTIES
    RefusesExisting
    OperationsEnd
CHECK_DEADLOCK FALSE
