SPECIFICATION FairSpec
CONSTANTS
    MaxId = 2
    Cfgs = {k1, k2}
    Runs = {r1, r2}
    Consoles = {c1}
    NULL = NULL
INVARIANTS
    RunningIsRegistered
    IdsConserved
    ListInUse
PROPERTIES
    StopEnds
CHECK_DEADLOCK FALSE
