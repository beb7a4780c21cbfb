CONSTANTS
    Backend = "sqlite"
    Calls = {c1, c2, c3}
    MaxStores = 1
    Dropping = TRUE
    MaxRes = 2
    Requests <- Everything
SPECIFICATION Spec
SYMMETRY Symmetry
INVARIANTS
    AnsweredOnce
    HandlesInOrder
    WorksAlone
    ClosedQuiet
CHECK_DEADLOCK FALSE
