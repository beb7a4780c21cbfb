SPECIFICATION Spec
CONSTANTS
    Backends = {"sqlite", "postgres"}
    Sessions = {s1, s2}
    KeyNames = {k}
    ItemNames = {i}
    d1 = d1
    d2 = d2
    m1 = m1
    u1 = u1
    Data = {d1, d2}
    Metas = {m1}
    UserTags = {u1}
    Given <- MCGiven
    Changes <- MCChanges
    None = None
    PageSize = 1
    MaxId = 3
    MaxOps = 4
    MaxTime = 1
SYMMETRY Symmetry
VIEW View
INVARIANTS
    RowsInOrder
    UpdateKeyIsolated
    ScanConsistent
PROPERTIES
    ImplementsMap
CHECK_DEADLOCK FALSE
