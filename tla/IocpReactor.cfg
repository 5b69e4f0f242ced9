SPECIFICATION FairSpec
CONSTANTS
    MaxSocks = 2
    Slots = {a1, a2}
    Faults = TRUE
    NULL = NULL
INVARIANTS
    CountIsOpen
    DeletedAlone
    UserEndsClean
PROPERTIES
    LifeSpec
    ClosedIsFreed
    AcceptReturns
CHECK_DEADLOCK FALSE
