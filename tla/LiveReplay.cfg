SPECIFICATION FairReplaySpec
CONSTANTS
    Sessions = {s1, s2}
    MaxTime = 3
    Faults = FALSE
    Renames = FALSE
    Readers = TRUE
    LoopModes = {1, 2}
    PageSize = 2
INVARIANTS
    ReplayTypeOK
    ReplayFollows
PROPERTIES
    StoredIsPushed
    EveryRecordWritten
