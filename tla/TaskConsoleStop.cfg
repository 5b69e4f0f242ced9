SPECIFICATION FairSpec
CONSTANTS
    MaxId = 2
    Cfgs = {k1}
    Runs = {r1}
    Consoles = {c1}
    NULL = NULL
PROPERTIES
    EveryStopEnds
CHECK_DEADLOCK FALSE
