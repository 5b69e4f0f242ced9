SPECIFICATION FairSpec
CONSTANTS
    MaxSocks = 2
    MaxData = 4
    Retry = 0
    Faults = FALSE
PROPERTIES
    ShutdownIsNotified
CHECK_DEADLOCK FALSE
