------------------------------ MODULE MCStores ------------------------------
EXTENDS Stores, TLC

Call(op, method, pass, profile, recreate) ==
    [op |-> op, method |-> method, pass |-> pass, profile |-> profile, recreate |-> recreate,
     pool |-> 2]

MCCalls ==
    {Call("open", None, "right", None, FALSE), Call("open", "kdf", "wrong", "main", FALSE),
     Call("provision", "kdf", "right", "main", FALSE),
     [Call("provision", "kdf", "right", "main", FALSE) EXCEPT !.pool = 1], Call("provision", "raw", Absent, "main", FALSE),
     Call("provision", "none", Absent, "main", TRUE), Call("provision", "kdf", Absent, "main", TRUE),
     Call("remove", None, Absent, None, FALSE),
     Call("copy", "kdf", "right", "main", FALSE), Call("copy", "kdf", "right", "main", TRUE),
     Call("migrate", "kdf", "right", "main", FALSE), Call("migrate", "raw", "right", "main", FALSE)}

MCSource == <<[name |-> "main", items |-> {"a", "b"}], [name |-> "side", items |-> {"c"}]>>

MCWalletKey == <<"kdf", "right">>

Symmetry == Permutations(Procs)
============================================================================
