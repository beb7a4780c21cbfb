CONSTANTS
    Sessions = {s1, s2}
    Conns = {c1, c2}
    Profiles = {p1, p2}
    Default = p1
    Names = {a, b}
    TagSets <- MCTagSets
    Nobody = Nobody
    FirstItems = {2}
    MaxCalls = 2
    MaxOpens = 3
    MaxCrashes = 1
    Queries <- MCQueries
    Expiring = {1}
SYMMETRY Symmetry
SPECIFICATION MCSpec
INVARIANTS
    PoolClean
    OutcomesHold
    ReadsTrue
    KeysAgree
CHECK_DEADLOCK FALSE
