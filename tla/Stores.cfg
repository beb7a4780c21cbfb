SPECIFICATION Spec
CONSTANTS
    Backends = {"sqlite", "postgres", "odbc"}
    Procs = {p1, p2}
    Calls <- MCCalls
    Wallet = {"v", "w"}
    WalletKey <- MCWalletKey
    Source <- MCSource
    MaxCalls = 3
    MaxCrashes = 1
INVARIANTS
    InstancesInOrder
    StoreOpensAgain
    RecreateWorks
    CopyWhole
    WalletKept
    NobodyStuck
PROPERTIES
    FailureKeepsStore
SYMMETRY Symmetry
CHECK_DEADLOCK FALSE
