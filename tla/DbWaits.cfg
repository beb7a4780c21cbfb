CONSTANTS
    Backend = "postgres"
    Sessions = {1, 2, 3}
    Conns = {1, 2}
    Nobody = Nobody
    Faults = {"statement"}
    MaxToks = 2
    MaxOpens = 4
    MaxCrashes = 0
SPECIFICATION WaitsSpec
INVARIANTS
    AckedDurable
PROPERTIES
    CallsReturn
CHECK_DEADLOCK FALSE
