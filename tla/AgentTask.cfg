SPECIFICATION FairSpec
CONSTANTS
    Users = {u1, u2}
    Timers = {t1, t2}
    Threads = {r1, r2}
    Workers = {w1}
    MaxAdd = 2
    NULL = NULL
INVARIANTS
    TimersAreOwn
    EndedUserIsIdle
    NothingFreedIsUsed
PROPERTIES
    NoNewCallback
    StopCompletes
    DeadUserIsOffered
CHECK_DEADLOCK FALSE
