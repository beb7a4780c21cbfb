----------------------------- MODULE StoreFiles -----------------------------
(***************************************************************************)
(* What is stored at one store URL, and the calls that work on it by name: *)
(* open, provision, remove, the copy of a store to it, and the migration   *)
(* of an Indy wallet that lies there.  Provisioning, WalletMigration and   *)
(* StoreCopy say how each call goes, Stores puts them together.            *)
(*                                                                         *)
(* "files" holds every file (SQLite) or database (Postgres, ODBC) there    *)
(* has been, "at" the one the URL names now: a SQLite file that was        *)
(* removed lives on for who has it open.  A call is a process; it works in *)
(* steps, and between any two of them another one may step or the machine  *)
(* may crash.                                                              *)
(***************************************************************************)
EXTENDS Naturals, Sequences, FiniteSets

CONSTANTS
    Backends,      \* the schemes of the URL to look at
    Procs,         \* calls at a time
    Calls,         \* the calls: op, method, pass, profile, recreate, and the size of the
                   \* pool its URL asks for (max_connections)
    Wallet,        \* the items of the Indy wallet
    WalletKey,     \* its key method and pass key
    Source,        \* the profiles of the store that is copied: name and items
    MaxCalls,      \* bound: calls
    MaxCrashes     \* bound: crashes

\* provision and copy take a StoreKeyMethod, open an optional one.
ASSUME StoresAssumption ==
    /\ Backends \subseteq {"sqlite", "postgres", "odbc"}
    /\ \A c \in Calls :
         /\ c.op \in {"open", "provision", "remove", "copy", "migrate"}
         /\ c.op \in {"provision", "copy"} => c.method \in {"kdf", "raw", "none"}

VARIABLES
    backend,       \* scheme of the URL
    files,         \* all there has been at the URL
    at,            \* index of what is there now, 0 for nothing
    proc,          \* the calls, and the instances they returned
    fresh,         \* last salt, random key or profile key drawn
    calls, crashes

vars == <<backend, files, at, proc, fresh, calls, crashes>>

None == "nil"
Absent == "absent"
----------------------------------------------------------------------------
(***************************************************************************)
(* Contents.                                                               *)
(***************************************************************************)
Tables == <<"config", "profiles", "items", "items_tags">>

NoConfig == [profile |-> None, key |-> <<>>, version |-> None]

\* Kept for the properties: the items of the wallet it was (wallet), the pass key the store
\* was made with (by), and whether a call that was connected before the last replacement
\* has written to it (mixed).
Empty == [tables |-> {}, config |-> NoConfig, profs |-> {}, items |-> {}, old |-> {},
          wallet |-> {}, by |-> None, mixed |-> FALSE]

\* An Indy wallet: its items are in a table that is called items too.
IndyWallet == [Empty EXCEPT !.tables = {"metadata", "items"}, !.old = Wallet, !.wallet = Wallet]

\* An item, under the key of its profile, with or without its tags.
Item(id, key, i, tagged) == [id |-> id, key |-> key, item |-> i, tagged |-> tagged]

ProfileRow(id, name, wrap, key) == [id |-> id, name |-> name, wrap |-> wrap, key |-> key]

\* What init_db leaves: four tables, three rows of config, one profile.
Provisioned(name, keys, pass) ==
    [tables |-> {Tables[i] : i \in 1..4},
     config |-> [profile |-> name, key |-> keys.ref, version |-> "1"],
     profs  |-> {ProfileRow(1, name, keys.skey, keys.pkey)},
     items  |-> {}, old |-> {}, wallet |-> {}, by |-> pass, mixed |-> FALSE]

NextId(f) == 1 + Cardinality(f.profs)

HasConfig(f) == "config" \in f.tables
----------------------------------------------------------------------------
(***************************************************************************)
(* Store keys.  A key is what has to be equal for an unwrap to succeed: a  *)
(* derived key is its pass key and salt, a raw key is the pass key, or a   *)
(* random key nobody knows, and no key is the empty sequence.              *)
(***************************************************************************)
\* StoreKeyMethod::resolve, with n as the salt or the random key; none for an error.
Resolve(method, pass, n) ==
    CASE method = "kdf" -> IF pass = Absent THEN {}
                           ELSE {[skey |-> <<"kdf", pass, n>>, ref |-> <<"kdf", n>>]}
      [] method = "raw" -> IF pass = Absent THEN {[skey |-> <<"random", n>>, ref |-> <<"raw">>]}
                           ELSE {[skey |-> <<"raw", pass>>, ref |-> <<"raw">>]}
      [] method = "none" -> {[skey |-> <<>>, ref |-> <<"none">>]}

\* Mutant: an existing reference is resolved with a new salt.
ResolveRefNewSalt(ref, pass) ==
    CASE ref[1] = "kdf" -> IF pass = Absent THEN {} ELSE {<<"kdf", pass, fresh + 1>>}
      [] ref[1] = "raw" -> IF pass = Absent THEN {} ELSE {<<"raw", pass>>}
      [] ref[1] = "none" -> {<<>>}

\* StoreKeyReference::resolve.
ResolveRef(ref, pass) ==
    CASE ref[1] = "kdf" -> IF pass = Absent THEN {} ELSE {<<"kdf", pass, ref[2]>>}
      [] ref[1] = "raw" -> IF pass = Absent THEN {} ELSE {<<"raw", pass>>}
      [] ref[1] = "none" -> {<<>>}

CompareMethod(ref, method) == method = None \/ ref[1] = method

\* init_keys: a profile key wrapped under a new store key.
InitKeys(c) ==
    {[skey |-> k.skey, ref |-> k.ref, pkey |-> fresh + 1] : k \in Resolve(c.method, c.pass, fresh + 1)}
----------------------------------------------------------------------------
(***************************************************************************)
(* Calls.  "file" is the file the call is connected to, "txn" says that it *)
(* holds the lock of that file, "inst" is the instance it has made.  Kept  *)
(* for the properties: whether another call was in flight at any time      *)
(* (alone), what was at the URL at its start (first), and whether someone  *)
(* has replaced the contents since it connected (stale).                   *)
(***************************************************************************)
NoInst == [skey |-> <<>>, name |-> None, ids |-> {}]

NoCall == [op |-> None, method |-> None, pass |-> Absent, profile |-> None, recreate |-> FALSE,
           pool |-> 1]

Free == [pc |-> "free", call |-> NoCall, file |-> 0, txn |-> FALSE, stale |-> FALSE,
         keys |-> NoInst, todo |-> <<>>, inst |-> NoInst, alone |-> TRUE, first |-> Empty]

InFlight(p) == proc[p].pc \notin {"free", "open", "failed", "done"}

There == IF at = 0 THEN Empty ELSE files[at]

Start(p, c) ==
    /\ proc[p].pc = "free" /\ calls < MaxCalls
    /\ c.op = "migrate" => backend = "sqlite"
    /\ calls' = calls + 1
    /\ proc' = [q \in Procs |->
                  IF q = p
                  THEN [Free EXCEPT !.pc = "connect", !.call = c,
                                    !.alone = \A o \in Procs \ {p} : ~InFlight(o),
                                    !.first = IF \E o \in Procs \ {p} : InFlight(o) THEN Empty ELSE There]
                  ELSE IF InFlight(q) THEN [proc[q] EXCEPT !.alone = FALSE, !.first = Empty] ELSE proc[q]]
    /\ UNCHANGED <<backend, files, at, fresh, crashes>>

\* The caller is done with the answer, or closes the instance.
End(p) ==
    /\ proc[p].pc \in {"open", "failed", "done"}
    /\ proc' = [proc EXCEPT ![p] = Free]
    /\ UNCHANGED <<backend, files, at, fresh, calls, crashes>>

To(p, pc) == proc' = [proc EXCEPT ![p].pc = pc]

\* A call that returns nothing to work on.
Done(p) == proc' = [proc EXCEPT ![p] = [Free EXCEPT !.pc = "done"]]

\* The call returns an error; its connections are dropped and its transaction with them.
Fail(p) ==
    proc' = [proc EXCEPT ![p] = [Free EXCEPT !.pc = "failed", !.call = proc[p].call,
                                             !.alone = proc[p].alone, !.first = proc[p].first]]

\* No other call holds the lock of the file.
Unlocked(p) == \A q \in Procs \ {p} : ~(proc[q].txn /\ proc[q].file = proc[p].file)

\* No other call is in a transaction on the file at all.
Idle(p) ==
    Unlocked(p) /\ \A q \in Procs \ {p} : ~(proc[q].pc = "import" /\ proc[q].file = proc[p].file)

\* The contents of the call's file change; what a stale call writes is marked.
Put(p, f) == files' = [files EXCEPT ![proc[p].file] = [f EXCEPT !.mixed = @ \/ proc[p].stale]]

\* The contents are replaced or emptied under all others who are connected.
Outdated(p) ==
    [q \in Procs |-> IF q # p /\ proc[q].file = proc[p].file /\ proc[q].file # 0
                     THEN [proc[q] EXCEPT !.stale = TRUE] ELSE proc[q]]

Crash ==
    /\ crashes < MaxCrashes
    /\ \E p \in Procs : InFlight(p)
    /\ crashes' = crashes + 1
    /\ proc' = [p \in Procs |-> Free]
    /\ UNCHANGED <<backend, files, at, fresh, calls>>
============================================================================
