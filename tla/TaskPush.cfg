SPECIFICATION FairSpec
CONSTANTS
    Agents = {a1, a2}
    Socks = {s1, s2}
    FirstTotal = 2
    MaxTotal = 2
    OnceUser = 2
    Half = 4
    MaxEvents = 3
    NULL = NULL
INVARIANTS
    TypeOK
    AgentsFollow
    BookedIsTold
PROPERTIES
    TotalIsTold
