CONSTANTS
    Backend = "sqlite"
    Sessions = {s1, s2}
    Conns = {c1, c2}
    Nobody = Nobody
    Faults = {"busy", "statement", "cancel"}
    MaxToks = 2
    MaxOpens = 4
    MaxCrashes = 1
SYMMETRY Symmetry
SPECIFICATION Spec
INVARIANTS
    AckedDurable
    NothingLeftOver
    ConnsInOrder
CHECK_DEADLOCK FALSE
