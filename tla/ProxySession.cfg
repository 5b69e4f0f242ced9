SPECIFICATION FairSpec
CONSTANTS
    MaxSocks = 4
    MaxData = 4
    Retry = 2
    Faults = TRUE
INVARIANTS
    SocketsMatch
    DeletedAlone
    RecordsPaired
PROPERTIES
    SessionEnds
    RequestAnswered
CHECK_DEADLOCK FALSE
