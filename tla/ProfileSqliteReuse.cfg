CONSTANTS
    Backend = "sqlite"
    Names = {p1, p2}
    EmptyName = EmptyName
    NoKey = NoKey
    Instances = {a, b}
    Sessions = {s1}
    StoreKeys = {k1}
    KeyMethods = {"kdf"}
    MaxKeys = 3
    MaxCaches = 2
    MaxCalls = 2
SYMMETRY Symmetry
SPECIFICATION Spec
INVARIANTS
    RowsUnderProfileKey
CHECK_DEADLOCK FALSE
