SPECIFICATION FairSpec
CONSTANTS
    MaxLogs = 3
    MaxLog = 2
    MaxFd = 2
    Threads = 1
    Faults = TRUE
INVARIANTS
    DescriptorsAreOwn
PROPERTIES
    LogsGoOn
CHECK_DEADLOCK FALSE
