---------------------------- MODULE Provisioning ----------------------------
(***************************************************************************)
(* open, provision and remove for the three backends.                      *)
(*                                                                         *)
(* SQLite removes the file, creates it, and fills it with one script in a  *)
(* transaction.  Postgres creates the database if need be, and drops and   *)
(* creates the tables in one transaction.  ODBC drops tables, creates them *)
(* and inserts the first rows by statements that commit one by one.        *)
(***************************************************************************)
EXTENDS StoreFiles

Op(p) == proc[p].call.op
Recreate(p) == proc[p].call.recreate
File(p) == files[proc[p].file]
Creates(p) == Op(p) \in {"provision", "copy"}

\* What the call goes on with once it has an instance.
OpenedIn(procs, p, inst) ==
    LET opened == [procs EXCEPT ![p].inst = inst, ![p].txn = FALSE, ![p].keys = NoInst, ![p].first = Empty]
    IN CASE Op(p) = "copy" -> [opened EXCEPT ![p].pc = "create_profile", ![p].todo = Source]
         [] Op(p) = "migrate" -> [procs EXCEPT ![p] = [Free EXCEPT !.pc = "done"]]
         [] OTHER -> [opened EXCEPT ![p].pc = "open", ![p].todo = <<>>]

Opened(p, inst) == proc' = OpenedIn(proc, p, inst)

Instance(name, skey, id, key) == [skey |-> skey, name |-> name, ids |-> {<<name, id, key>>}]
----------------------------------------------------------------------------
(***************************************************************************)
(* Connecting.                                                             *)
(***************************************************************************)
\* Mutant: recreate leaves the file where it is.
UnlinkNothing(p) ==
    /\ backend = "sqlite" /\ proc[p].pc = "connect"
    /\ Op(p) = "remove" \/ (Creates(p) /\ Recreate(p))
    /\ IF Op(p) = "remove" THEN Done(p) ELSE To(p, "create")
    /\ UNCHANGED <<backend, files, at, fresh, calls, crashes>>

\* try_remove_file: no file is no error.
Unlink(p) ==
    /\ backend = "sqlite" /\ proc[p].pc = "connect"
    /\ Op(p) = "remove" \/ (Creates(p) /\ Recreate(p))
    /\ at' = 0
    /\ IF Op(p) = "remove" THEN Done(p) ELSE To(p, "create")
    /\ UNCHANGED <<backend, files, fresh, calls, crashes>>

\* pool(true) of SQLite, which creates a missing file.
CreateFile(p) ==
    /\ backend = "sqlite" /\ Creates(p)
    /\ proc[p].pc = IF Recreate(p) THEN "create" ELSE "connect"
    /\ IF at = 0 THEN files' = Append(files, Empty) /\ at' = Len(files) + 1
                 ELSE UNCHANGED <<files, at>>
    /\ proc' = [proc EXCEPT ![p].file = at', ![p].pc = IF Recreate(p) THEN "keys" ELSE "check"]
    /\ UNCHANGED <<backend, fresh, calls, crashes>>

\* pool(false) of SQLite: no file is NotFound.
ConnectFile(p) ==
    /\ backend = "sqlite" /\ Op(p) = "open" /\ proc[p].pc = "connect"
    /\ IF at = 0 THEN Fail(p) ELSE proc' = [proc EXCEPT ![p].file = at, ![p].pc = "config"]
    /\ UNCHANGED <<backend, files, at, fresh, calls, crashes>>

\* Postgres: error 3D000, no such database, is NotFound.
ConnectServer(p) ==
    /\ backend = "postgres" /\ Op(p) = "open" /\ proc[p].pc = "connect"
    /\ IF at = 0 THEN Fail(p) ELSE proc' = [proc EXCEPT ![p].file = at, ![p].pc = "config"]
    /\ UNCHANGED <<backend, files, at, fresh, calls, crashes>>

\* create_db_pool of Postgres: the first attempt to connect.
ConnectDatabase(p) ==
    /\ backend = "postgres" /\ Creates(p) /\ proc[p].pc = "connect"
    /\ proc' = IF at = 0 THEN [proc EXCEPT ![p].pc = "create"]
               ELSE [proc EXCEPT ![p].file = at, ![p].pc = "check"]
    /\ UNCHANGED <<backend, files, at, fresh, calls, crashes>>

\* CREATE DATABASE: one that another call has created by now is as good.
CreateDatabase(p) ==
    /\ backend = "postgres" /\ proc[p].pc = "create"
    /\ IF at = 0 THEN files' = Append(files, Empty) /\ at' = Len(files) + 1
                 ELSE UNCHANGED <<files, at>>
    /\ To(p, "reconnect")
    /\ UNCHANGED <<backend, fresh, calls, crashes>>

Reconnect(p) ==
    /\ proc[p].pc = "reconnect"
    /\ IF at = 0 THEN Fail(p) ELSE proc' = [proc EXCEPT ![p].file = at, ![p].pc = "check"]
    /\ UNCHANGED <<backend, files, at, fresh, calls, crashes>>

\* DROP DATABASE, refused while anyone is connected.
DropDatabase(p) ==
    /\ backend = "postgres" /\ Op(p) = "remove" /\ proc[p].pc = "connect"
    /\ IF at # 0 /\ \E q \in Procs : proc[q].file = at
       THEN Fail(p) /\ at' = at
       ELSE Done(p) /\ at' = 0
    /\ UNCHANGED <<backend, files, fresh, calls, crashes>>

\* open_pool of ODBC.
OpenPool(p) ==
    /\ backend = "odbc" /\ proc[p].pc = "connect"
    /\ proc' = [proc EXCEPT ![p].file = at, ![p].pc = IF Op(p) = "open" THEN "config" ELSE "check"]
    /\ UNCHANGED <<backend, files, at, fresh, calls, crashes>>
----------------------------------------------------------------------------
(***************************************************************************)
(* Is there a store?                                                       *)
(***************************************************************************)
\* SQLite asks only if it has not just removed the file.
CheckSqlite(p) ==
    /\ backend = "sqlite" /\ proc[p].pc = "check"
    /\ To(p, IF HasConfig(File(p)) THEN "config" ELSE "keys")
    /\ UNCHANGED <<backend, files, at, fresh, calls, crashes>>

\* Mutant: the tables are dropped outside of the transaction.
CheckPostgresLoose(p) ==
    /\ backend = "postgres" /\ proc[p].pc = "check"
    /\ IF ~Recreate(p)
       THEN To(p, IF HasConfig(File(p)) THEN "acquire" ELSE "keys") /\ files' = files
       ELSE Idle(p) /\ To(p, "keys") /\ Put(p, Empty)
    /\ UNCHANGED <<backend, at, fresh, calls, crashes>>

\* Postgres, on a connection of the call's own pool and in a transaction: reset_db locks the
\* tables it drops until the transaction ends.  The early return to open_db keeps both, the
\* connection and a transaction that has locked no table.
CheckPostgres(p) ==
    /\ backend = "postgres" /\ proc[p].pc = "check"
    /\ IF ~Recreate(p)
       THEN To(p, IF HasConfig(File(p)) THEN "acquire" ELSE "keys")
       ELSE IF File(p).tables = {} THEN To(p, "keys")
       ELSE Idle(p) /\ proc' = [proc EXCEPT ![p].pc = "keys", ![p].txn = TRUE]
    /\ UNCHANGED <<backend, files, at, fresh, calls, crashes>>

\* Mutant: the pool has no acquire timeout.
AcquireForever(p) ==
    /\ backend = "postgres" /\ proc[p].pc = "acquire"
    /\ proc[p].call.pool > 1
    /\ To(p, "config")
    /\ UNCHANGED <<backend, files, at, fresh, calls, crashes>>

\* open_db takes another connection of the same pool.  In a pool of one there is none but
\* the one the early return keeps: the acquire fails when its timeout is over.
Acquire(p) ==
    /\ backend = "postgres" /\ proc[p].pc = "acquire"
    /\ IF proc[p].call.pool > 1 THEN To(p, "config") ELSE Fail(p)
    /\ UNCHANGED <<backend, files, at, fresh, calls, crashes>>

\* The order in which ODBC drops its tables.
DropOrder == <<"items_tags", "items", "profiles", "config">>

CheckOdbc(p) ==
    /\ backend = "odbc" /\ Creates(p) /\ proc[p].pc = "check"
    /\ proc' = CASE ~HasConfig(File(p)) -> [proc EXCEPT ![p].pc = "keys"]
                 [] HasConfig(File(p)) /\ ~Recreate(p) -> [proc EXCEPT ![p].pc = "config"]
                 [] OTHER -> [proc EXCEPT ![p].pc = "drop", ![p].todo = DropOrder]
    /\ UNCHANGED <<backend, files, at, fresh, calls, crashes>>

RemoveOdbc(p) ==
    /\ backend = "odbc" /\ Op(p) = "remove" /\ proc[p].pc = "check"
    /\ IF HasConfig(File(p))
       THEN proc' = [proc EXCEPT ![p].pc = "drop", ![p].todo = DropOrder]
       ELSE Done(p)
    /\ UNCHANGED <<backend, files, at, fresh, calls, crashes>>

Dropped(f, t) ==
    [f EXCEPT !.tables = @ \ {t},
              !.config = IF t = "config" THEN NoConfig ELSE @,
              !.profs = IF t = "profiles" THEN {} ELSE @,
              !.items = IF t = "items" THEN {} ELSE @,
              !.by = IF t = "config" THEN None ELSE @]

\* drop_tables: DROP TABLE of a table that is missing is an error.
DropTable(p) ==
    LET t == Head(proc[p].todo) IN
    /\ proc[p].pc = "drop"
    /\ IF t \notin File(p).tables
       THEN Fail(p) /\ files' = files
       ELSE /\ Put(p, Dropped(File(p), t))
            /\ proc' = [Outdated(p) EXCEPT
                          ![p].todo = Tail(@),
                          ![p].pc = CASE Len(proc[p].todo) > 1 -> "drop"
                                      [] Op(p) = "remove" -> "done" [] OTHER -> "keys"]
    /\ UNCHANGED <<backend, at, fresh, calls, crashes>>
----------------------------------------------------------------------------
(***************************************************************************)
(* A new store.                                                            *)
(***************************************************************************)
Keys(p) ==
    /\ proc[p].pc = "keys"
    /\ IF InitKeys(proc[p].call) = {}
       THEN Fail(p) /\ fresh' = fresh
       ELSE \E k \in InitKeys(proc[p].call) :
              /\ proc' = [proc EXCEPT ![p].keys = k, ![p].todo = Tables,
                                      ![p].pc = IF backend = "odbc" THEN "schema" ELSE "init"]
              /\ fresh' = fresh + 1
    /\ UNCHANGED <<backend, files, at, calls, crashes>>

NewInstance(p, id) == Instance(proc[p].call.profile, proc[p].keys.skey, id, proc[p].keys.pkey)

\* Mutant: tables that exist are no error.
InitDbOver(p) ==
    /\ proc[p].pc = "init" /\ ~proc[p].txn /\ Unlocked(p)
    /\ Put(p, Provisioned(proc[p].call.profile, proc[p].keys, proc[p].call.pass))
    /\ Opened(p, NewInstance(p, 1))
    /\ UNCHANGED <<backend, at, fresh, calls, crashes>>

\* init_db of SQLite and Postgres: tables, config and profile in one transaction.  A table
\* that exists is an error.
InitDb(p) ==
    /\ proc[p].pc = "init" /\ ~proc[p].txn /\ Unlocked(p)
    /\ IF File(p).tables # {}
       THEN Fail(p) /\ files' = files
       ELSE /\ Put(p, Provisioned(proc[p].call.profile, proc[p].keys, proc[p].call.pass))
            /\ Opened(p, NewInstance(p, 1))
    /\ UNCHANGED <<backend, at, fresh, calls, crashes>>

\* Whoever had the old tables of Postgres open is stale from the commit on.
Replace(p) ==
    /\ proc[p].pc = "init" /\ proc[p].txn
    /\ Put(p, Provisioned(proc[p].call.profile, proc[p].keys, proc[p].call.pass))
    /\ proc' = OpenedIn(Outdated(p), p, NewInstance(p, 1))
    /\ UNCHANGED <<backend, at, fresh, calls, crashes>>

\* The schema file, statement by statement.
CreateTable(p) ==
    LET t == Head(proc[p].todo) IN
    /\ proc[p].pc = "schema"
    /\ IF t \in File(p).tables
       THEN Fail(p) /\ files' = files
       ELSE /\ Put(p, [File(p) EXCEPT !.tables = @ \cup {t}])
            /\ proc' = [proc EXCEPT ![p].todo = Tail(@),
                                    ![p].pc = IF Len(proc[p].todo) > 1 THEN "schema" ELSE "insert_config"]
    /\ UNCHANGED <<backend, at, fresh, calls, crashes>>

InsertConfig(p) ==
    /\ proc[p].pc = "insert_config"
    /\ IF ~HasConfig(File(p)) \/ File(p).config # NoConfig
       THEN Fail(p) /\ files' = files
       ELSE /\ Put(p, [File(p) EXCEPT !.config = [profile |-> proc[p].call.profile,
                                                  key |-> proc[p].keys.ref, version |-> "1"],
                                      !.by = proc[p].call.pass])
            /\ To(p, "insert_profile")
    /\ UNCHANGED <<backend, at, fresh, calls, crashes>>

InsertProfile(p) ==
    LET name == proc[p].call.profile
        id == NextId(File(p))
    IN
    /\ proc[p].pc = "insert_profile"
    /\ IF "profiles" \notin File(p).tables \/ \E r \in File(p).profs : r.name = name
       THEN Fail(p) /\ files' = files
       ELSE /\ Put(p, [File(p) EXCEPT !.profs = @ \cup {ProfileRow(id, name, proc[p].keys.skey, proc[p].keys.pkey)}])
            /\ Opened(p, NewInstance(p, id))
    /\ UNCHANGED <<backend, at, fresh, calls, crashes>>
----------------------------------------------------------------------------
(***************************************************************************)
(* open_db: the config table, then the profile.                            *)
(***************************************************************************)
VersionOk(f) == f.config.version = "1"

OpenConfig(p) ==
    LET f == File(p)
        c == proc[p].call
        name == IF c.profile = None \/ c.op = "migrate" THEN f.config.profile ELSE c.profile
    IN
    /\ proc[p].pc = "config"
    /\ IF ~HasConfig(f) \/ ~VersionOk(f) \/ name = None \/ f.config.key = <<>>
       THEN Fail(p)
       ELSE IF ~CompareMethod(f.config.key, c.method) \/ ResolveRef(f.config.key, c.pass) = {}
       THEN Fail(p)
       ELSE \E k \in ResolveRef(f.config.key, c.pass) :
              proc' = [proc EXCEPT ![p].keys = [skey |-> k, name |-> name, ids |-> {}],
                                   ![p].pc = "profile"]
    /\ UNCHANGED <<backend, files, at, fresh, calls, crashes>>

OpenProfile(p) ==
    LET k == proc[p].keys
        rows == {r \in File(p).profs : r.name = k.name /\ r.wrap = k.skey}
    IN
    /\ proc[p].pc = "profile"
    /\ IF rows = {} THEN Fail(p)
       ELSE \E r \in rows : Opened(p, Instance(r.name, r.wrap, r.id, r.key))
    /\ UNCHANGED <<backend, files, at, fresh, calls, crashes>>

OpenDb(p) == OpenConfig(p) \/ OpenProfile(p)

OpenSqlite(p) == backend = "sqlite" /\ OpenDb(p)

\* The lock of a transaction that drops the tables holds up their readers.
OpenPostgres(p) == backend = "postgres" /\ Unlocked(p) /\ OpenDb(p)

OpenOdbc(p) == backend = "odbc" /\ OpenDb(p)

ProvisioningStep(p) ==
    \/ Unlink(p) \/ CreateFile(p) \/ ConnectFile(p) \/ ConnectServer(p)
    \/ ConnectDatabase(p) \/ CreateDatabase(p) \/ Reconnect(p) \/ DropDatabase(p) \/ OpenPool(p)
    \/ CheckSqlite(p) \/ CheckPostgres(p) \/ Acquire(p) \/ CheckOdbc(p) \/ RemoveOdbc(p) \/ DropTable(p)
    \/ Keys(p) \/ InitDb(p) \/ Replace(p) \/ CreateTable(p) \/ InsertConfig(p) \/ InsertProfile(p)
    \/ OpenSqlite(p) \/ OpenPostgres(p) \/ OpenOdbc(p)
============================================================================
