CONSTANTS
    Sessions = {s1}
    Conns = {c1}
    Profiles = {p1}
    Default = p1
    Names = {a, b}
    TagSets = {{}, {x}}
    Nobody = Nobody
    FirstItems = {1, 2}
    MaxCalls = 3
    MaxOpens = 1
    MaxCrashes = 0
SPECIFICATION Spec
INVARIANT TagsOfLastUpdate
CHECK_DEADLOCK FALSE
