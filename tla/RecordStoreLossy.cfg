SPECIFICATION Spec
CONSTANTS
    Sessions = {s1, s2}
    MaxTime = 3
    Faults = TRUE
    Renames = TRUE
    Readers = TRUE
SYMMETRY Symmetry
INVARIANTS
    SessionOrder
PROPERTIES
    LogSpec
