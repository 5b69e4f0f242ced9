SPECIFICATION FairSpec
CONSTANTS
    Sizes <- MCSizes
    MaxEvents = 2
INVARIANTS
    OneLink
    
PROPERTIES
    
    AgentReturns
    StopDisconnects
CHECK_DEADLOCK FALSE
