CONSTANTS
    Backend = "postgres"
    Names = {p1, p2}
    EmptyName = EmptyName
    NoKey = NoKey
    Instances = {a, b}
    Sessions = {s1}
    StoreKeys = {k1}
    SqliteKeys = {k1, k2}
    KeyMethods = {"raw", "kdf"}
    MaxKeys = 3
    MaxCaches = 2
    MaxCalls = 2
SYMMETRY Symmetry
SPECIFICATION BothSpec
INVARIANTS
    ProfilesLoadable
    RowsUnderProfileKey
    PingTruthful
    TxnProfilePresent
    SessionKeyOfItsProfile
PROPERTIES
    RekeyAtomic
CHECK_DEADLOCK FALSE
