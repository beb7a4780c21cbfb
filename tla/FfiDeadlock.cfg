CONSTANTS
    Backend = "postgres"
    Calls = {1, 2, 3, 4}
    MaxStores = 1
    Dropping = FALSE
    MaxRes = 2
    Requests <- AtLast
SPECIFICATION OpenedSpec
PROPERTIES
    StoreCloseReturns
CHECK_DEADLOCK FALSE
