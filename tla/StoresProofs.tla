---------------------------- MODULE StoresProofs ----------------------------
(***************************************************************************)
(* What holds of the stores at one URL, whatever the number of calls, of   *)
(* crashes, of items and of profiles: no item of a wallet is lost, a store *)
(* opens again with the pass key it was made with, and the instances of a  *)
(* store work on a whole store and agree.                                  *)
(*                                                                         *)
(* None of the three is inductive.  They need what a call knows about its  *)
(* file at each of its steps (On), and which two calls cannot be under way *)
(* on one file (Apart): two that migrate, two of ODBC that are about to    *)
(* insert the first profile, one that drops tables and one that creates    *)
(* them.  The last two hold among calls whose file was not replaced since  *)
(* they connected.                                                         *)
(***************************************************************************)
EXTENDS Stores, TLAPS

\* The record of a file, and that of a call, have their fields.
IsFile(f) ==
    /\ f \in [tables : {f.tables}, config : {f.config}, profs : {f.profs}, items : {f.items},
              old : {f.old}, wallet : {f.wallet}, by : {f.by}, mixed : BOOLEAN]
    /\ f.config \in [profile : {f.config.profile}, key : {f.config.key}, version : {f.config.version}]

IsProc(k) ==
    /\ k \in [pc : {k.pc}, call : {k.call}, file : Nat, txn : BOOLEAN, stale : BOOLEAN, keys : {k.keys},
              todo : {k.todo}, inst : {k.inst}, alone : {k.alone}, first : {k.first}]
    /\ k.inst \in [skey : {k.inst.skey}, name : {k.inst.name}, ids : {k.inst.ids}]

\* The items that are complete under the key of a profile of the file.
Moved(f) == {t.item : t \in {t \in f.items : t.tagged /\ \E r \in f.profs : r.id = t.id /\ r.key = t.key}}

\* The file opens with the pass key its store was made with.
OpensAgain(f) ==
    \E k \in ResolveRef(f.config.key, f.by), r \in f.profs : r.name = f.config.profile /\ r.wrap = k

\* A file of a store with scheme b.
FileOK(b, f) ==
    /\ f.wallet # {} => b = "sqlite" /\ f.tables # {}
    /\ f.wallet \subseteq f.old \cup Moved(f)
    /\ f.config.version = "1" \/ b # "sqlite" => f.old = {}
    /\ b = "sqlite" => ~f.mixed
    /\ b = "sqlite" /\ f.tables # {} => "items" \in f.tables
    /\ b # "odbc" /\ f.config.version = "1" => AllTables \subseteq f.tables
    /\ b # "odbc" /\ f.tables = {} => ~f.mixed
    /\ ~HasConfig(f) => f.config = NoConfig
    /\ ~f.mixed =>
         /\ \A q, r \in f.profs : q.wrap = r.wrap /\ (q.name = r.name => q = r)
         /\ \A r \in f.profs : r = ProfileRow(r.id, r.name, r.wrap, r.key)
         /\ b = "odbc" /\ f.profs # {} => f.config.version = "1" /\ "profiles" \in f.tables
         /\ f.config.version = "1" /\ f.by # Absent /\ ~(b = "odbc" /\ f.profs = {}) => OpensAgain(f)

\* The steps of a call by what it has in hand.
Upgrading == {"insert", "tags", "delete", "fetch", "finish"}
Migrating == {"indy_key", "default_profile", "config_key", "init_profile"} \cup Upgrading
Provides == {"init", "schema", "insert_config", "insert_profile"}
Holds == {"create_profile", "count", "import", "open"}
OdbcOnly == {"drop", "schema", "insert_config", "insert_profile"}
Apiece == {"free", "connect", "create", "reconnect", "reopen", "failed"}
Connected == Migrating \cup Provides \cup Holds \cup {"check", "drop", "keys", "acquire", "config",
                                                      "profile", "is_migrated", "pre_upgrade"}

DropRests == {DropOrder, <<"items", "profiles", "config">>, <<"profiles", "config">>, <<"config">>}
TableRests == {Tables, <<"profiles", "items", "items_tags">>, <<"items", "items_tags">>, <<"items_tags">>}

\* What a call is where it is.
Placed(b, k) ==
    /\ k.pc \in Connected => k.file # 0
    /\ k.pc \in Apiece => k.file = 0 /\ ~k.stale
    /\ k.pc \notin {"free", "done"} => k.call \in Calls /\ (k.call.op = "migrate" => b = "sqlite")
    /\ k.pc \in {"create", "reconnect", "keys"} \cup Provides => k.call.op \in {"provision", "copy"}
    /\ k.pc = "check" /\ b # "odbc" => k.call.op \in {"provision", "copy"}
    /\ k.pc \in {"check", "drop"} => k.call.op \in {"provision", "copy", "remove"}
    /\ k.pc \in OdbcOnly => b = "odbc"
    /\ k.pc = "init" => b # "odbc"
    /\ k.txn => k.pc = "import" \/ (b = "postgres" /\ k.pc \in {"keys", "init"})
    /\ k.pc \in Migrating \cup {"is_migrated", "pre_upgrade"} => b = "sqlite"
    /\ b = "sqlite" => ~k.stale
    /\ k.pc = "drop" => k.todo \in DropRests
    /\ k.pc = "schema" => k.todo \in TableRests
    /\ k.pc \in Provides /\ k.call.pass # Absent => k.keys.skey \in ResolveRef(k.keys.ref, k.call.pass)
    /\ k.pc \in Migrating \ {"indy_key"} => k.keys.skey \in ResolveRef(k.keys.ref, k.call.pass)

\* What a call that migrates has done to its file f.
OnMigrating(k, f) ==
    /\ HasConfig(f) /\ AllTables \subseteq f.tables /\ f.config.version # "1"
    /\ k.pc \notin {"indy_key", "default_profile"} => f.config.profile = k.call.profile
    /\ k.pc \in {"init_profile"} \cup Upgrading => f.config.key = k.keys.ref
    /\ k.pc \in Upgrading => ProfileRow(1, k.call.profile, k.keys.skey, k.keys.pkey) \in f.profs
    /\ k.pc = "delete" => Item(1, k.keys.pkey, k.todo[1], TRUE) \in f.items
    /\ k.pc = "finish" => f.old = {}

\* What a call knows of its file f if nobody has written to it who should not.
OnCurrent(k, f) ==
    /\ k.pc \in Holds \cup {"profile"} => f.config.version = "1"
    /\ k.pc \in Holds =>
         /\ \A e \in k.inst.ids : e = <<e[1], e[2], e[3]>>
                                  /\ ProfileRow(e[2], e[1], k.inst.skey, e[3]) \in f.profs
         /\ \E e \in k.inst.ids : e[1] = k.inst.name
    /\ k.pc = "insert_profile" =>
         /\ f.config = [profile |-> k.call.profile, key |-> k.keys.ref, version |-> "1"]
         /\ f.by = k.call.pass /\ f.profs = {}
    /\ k.pc = "drop" => HasConfig(f) /\ (k.todo = <<"config">> => "profiles" \notin f.tables)

On(b, k, f) ==
    /\ k.stale /\ b # "odbc" => f.tables # {}
    /\ k.pc = "pre_upgrade" => f.tables # {}
    /\ k.pc \in Migrating => OnMigrating(k, f)
    /\ ~k.stale /\ ~f.mixed => OnCurrent(k, f)

\* Two calls on one file f.
Apart(j, k, f) ==
    /\ ~(j.pc \in Migrating /\ k.pc \in Migrating)
    /\ ~j.stale /\ ~k.stale /\ ~f.mixed =>
         /\ ~(j.pc = "insert_profile" /\ k.pc = "insert_profile")
         /\ ~(j.pc = "drop" /\ j.todo # DropOrder /\ k.pc = "schema" /\ k.todo # Tables)

\* The inductive invariant.
FilesOK ==
    /\ \A i \in DOMAIN files : IsFile(files[i]) /\ FileOK(backend, files[i])
    /\ at \in DOMAIN files \cup {0}
    /\ backend = "odbc" => at # 0

ProcsOK ==
    \A p \in Procs : /\ IsProc(proc[p]) /\ Placed(backend, proc[p])
                     /\ proc[p].file \in DOMAIN files \cup {0}

ProcsOn == \A p \in Procs : proc[p].file # 0 => On(backend, proc[p], files[proc[p].file])

ProcsApart ==
    \A p, q \in Procs : p # q /\ proc[p].file = proc[q].file /\ proc[p].file # 0
                        => Apart(proc[p], proc[q], files[proc[p].file])

SInv ==
    /\ backend \in {"sqlite", "postgres", "odbc"}
    /\ \E S : files \in Seq(S)
    /\ proc = [p \in Procs |-> proc[p]]
    /\ FilesOK /\ ProcsOK /\ ProcsOn /\ ProcsApart
----------------------------------------------------------------------------
(***************************************************************************)
(* The frame: what remains to be shown when one call and one file change.  *)
(***************************************************************************)
LEMMA PutFile ==
    ASSUME NEW fs, NEW S, fs \in Seq(S), NEW i \in DOMAIN fs, NEW g
    PROVE  /\ \E T : [fs EXCEPT ![i] = g] \in Seq(T)
           /\ DOMAIN [fs EXCEPT ![i] = g] = DOMAIN fs
           /\ [fs EXCEPT ![i] = g][i] = g
           /\ \A j \in DOMAIN fs \ {i} : [fs EXCEPT ![i] = g][j] = fs[j]
  <1> DEFINE T == S \cup {g}
  <1>1. [fs EXCEPT ![i] = g] \in Seq(T)
    BY SMTT(60)
  <1> QED
    BY <1>1, SMTT(60)

LEMMA AddFile ==
    ASSUME NEW fs, NEW S, fs \in Seq(S), NEW g
    PROVE  /\ \E T : Append(fs, g) \in Seq(T)
           /\ DOMAIN Append(fs, g) = DOMAIN fs \cup {Len(fs) + 1}
           /\ Len(fs) + 1 \in Nat \ {0} /\ Len(fs) + 1 \notin DOMAIN fs
           /\ Append(fs, g)[Len(fs) + 1] = g
           /\ \A j \in DOMAIN fs : Append(fs, g)[j] = fs[j]
  <1> DEFINE T == S \cup {g}
  <1>1. fs \in Seq(T) /\ g \in T
    BY SMTT(60)
  <1>2. Append(fs, g) \in Seq(T)
    BY <1>1, SMTT(60)
  <1> QED
    BY <1>1, <1>2, SMTT(60)

LEMMA PutProc ==
    ASSUME NEW P, NEW ps, ps = [q \in P |-> ps[q]], NEW p \in P, NEW k
    PROVE  /\ [ps EXCEPT ![p] = k] = [q \in P |-> [ps EXCEPT ![p] = k][q]]
           /\ [ps EXCEPT ![p] = k][p] = k
           /\ \A q \in P \ {p} : [ps EXCEPT ![p] = k][q] = ps[q]
  BY Zenon

\* The numbers of files are not 0.
LEMMA FileNumbers ==
    ASSUME NEW fs, NEW S, fs \in Seq(S)
    PROVE  0 \notin DOMAIN fs /\ \A i \in DOMAIN fs : i \in Nat
  BY SMTT(60)

\* A call goes on and its file stays.
Moves(p, k) ==
    /\ backend' = backend /\ files' = files
    /\ proc' = [proc EXCEPT ![p] = k]
    /\ at' \in DOMAIN files \cup {0} /\ (backend = "odbc" => at' # 0)
    /\ IsProc(k) /\ Placed(backend, k)
    /\ k.file \in DOMAIN files \cup {0}
    /\ k.file # 0 => On(backend, k, files[k.file])
    /\ \A q \in Procs \ {p} : proc[q].file = k.file /\ k.file # 0
                              => Apart(k, proc[q], files[k.file]) /\ Apart(proc[q], k, files[k.file])

LEMMA MovesKeeps ==
    ASSUME SInv, NEW p \in Procs, NEW k, Moves(p, k)
    PROVE  SInv'
  <1>1. /\ proc' = [q \in Procs |-> proc'[q]]
        /\ proc'[p] = k
        /\ \A q \in Procs \ {p} : proc'[q] = proc[q]
    BY PutProc, Zenon DEF Moves, SInv
  <1>2. FilesOK'
    BY Zenon DEF SInv, FilesOK, Moves
  <1>3. ProcsOK'
    BY <1>1, Zenon DEF SInv, ProcsOK, Moves
  <1>4. ProcsOn'
    BY <1>1, Zenon DEF SInv, ProcsOn, Moves
  <1>5. ProcsApart'
    BY <1>1, Zenon DEF SInv, ProcsApart, Moves
  <1> QED
    BY <1>1, <1>2, <1>3, <1>4, <1>5, Zenon DEF SInv, Moves

\* A call goes on and changes file i to g.
Writes(p, k, i, g) ==
    /\ backend' = backend /\ at' = at
    /\ i \in DOMAIN files /\ files' = [files EXCEPT ![i] = g]
    /\ proc' = [proc EXCEPT ![p] = k]
    /\ IsFile(g) /\ FileOK(backend, g) /\ (files[i].mixed => g.mixed)
    /\ IsProc(k) /\ Placed(backend, k)
    /\ k.file \in {i, 0}
    /\ k.file # 0 => On(backend, k, g)
    /\ \A q \in Procs \ {p} : proc[q].file = i =>
         /\ On(backend, proc[q], g)
         /\ k.file # 0 => Apart(k, proc[q], g) /\ Apart(proc[q], k, g)

LEMMA WritesKeeps ==
    ASSUME SInv, NEW p \in Procs, NEW k, NEW i, NEW g, Writes(p, k, i, g)
    PROVE  SInv'
  <1>1. /\ proc' = [q \in Procs |-> proc'[q]]
        /\ proc'[p] = k
        /\ \A q \in Procs \ {p} : proc'[q] = proc[q]
    BY PutProc, Zenon DEF Writes, SInv
  <1>2. PICK S : files \in Seq(S)
    BY Zenon DEF SInv
  <1>3. /\ \E T : files' \in Seq(T)
        /\ DOMAIN files' = DOMAIN files
        /\ files'[i] = g
        /\ \A j \in DOMAIN files \ {i} : files'[j] = files[j]
    BY <1>2, PutFile, Zenon DEF Writes
  <1>4. FilesOK'
    BY <1>3, Zenon DEF SInv, FilesOK, Writes
  <1>5. ProcsOK'
    BY <1>1, <1>3, Zenon DEF SInv, ProcsOK, Writes
  <1>6. ASSUME NEW q \in Procs, proc'[q].file # 0
        PROVE  On(backend', proc'[q], files'[proc'[q].file])
    <2>1. CASE q = p
      BY <1>1, <1>3, <1>6, <2>1, Zenon DEF Writes
    <2>2. CASE q # p /\ proc[q].file = i
      BY <1>1, <1>3, <2>2, Zenon DEF Writes
    <2>3. CASE q # p /\ proc[q].file # i
      BY <1>1, <1>3, <1>6, <2>3, Zenon DEF SInv, ProcsOn, ProcsOK, Writes
    <2> QED
      BY <2>1, <2>2, <2>3
  <1>7. ProcsOn'
    BY <1>6, Zenon DEF ProcsOn
  <1>8. ASSUME NEW q \in Procs, NEW r \in Procs, q # r, proc'[q].file = proc'[r].file, proc'[q].file # 0
        PROVE  Apart(proc'[q], proc'[r], files'[proc'[q].file])
    <2>1. CASE q = p
      BY <1>1, <1>3, <1>8, <2>1, Zenon DEF Writes
    <2>2. CASE r = p
      BY <1>1, <1>3, <1>8, <2>2, ZenonT(60) DEF Writes
    <2>3. CASE q # p /\ r # p
      <3>1. Apart(proc[q], proc[r], files[proc[q].file]) /\ proc'[q] = proc[q] /\ proc'[r] = proc[r]
        BY <1>1, <1>8, <2>3, Zenon DEF SInv, ProcsApart
      <3>2. CASE proc[q].file = i
        BY <1>3, <3>1, <3>2, Zenon DEF Apart, Writes
      <3>3. CASE proc[q].file # i
        BY <1>3, <1>8, <3>1, <3>3, Zenon DEF SInv, ProcsOK
      <3> QED
        BY <3>2, <3>3
    <2> QED
      BY <2>1, <2>2, <2>3
  <1>9. ProcsApart'
    BY <1>8, Zenon DEF ProcsApart
  <1> QED
    BY <1>1, <1>3, <1>4, <1>5, <1>7, <1>9, Zenon DEF SInv, Writes

\* A call replaces or empties its file, and makes all others on it stale.
Replaces(p, k, g) ==
    /\ backend' = backend /\ at' = at /\ backend # "sqlite"
    /\ proc[p].file \in DOMAIN files
    /\ files' = [files EXCEPT ![proc[p].file] = g]
    /\ proc' = [Outdated(p) EXCEPT ![p] = k]
    /\ IsFile(g) /\ FileOK(backend, g) /\ (backend # "odbc" => g.tables # {})
    /\ IsProc(k) /\ Placed(backend, k)
    /\ k.file = proc[p].file
    /\ On(backend, k, g)

LEMMA StaleStays ==
    ASSUME NEW b, b # "sqlite", NEW j, IsProc(j), Placed(b, j), j.file # 0,
           NEW f, b # "odbc" => f.tables # {}
    PROVE  LET k == [j EXCEPT !.stale = TRUE] IN
           /\ IsProc(k) /\ Placed(b, k) /\ On(b, k, f)
           /\ k.file = j.file /\ k.stale /\ k.pc \notin Migrating
  <1> DEFINE k == [j EXCEPT !.stale = TRUE]
  <1>1. /\ k.pc = j.pc /\ k.call = j.call /\ k.file = j.file /\ k.txn = j.txn /\ k.stale
        /\ k.keys = j.keys /\ k.todo = j.todo /\ k.inst = j.inst
    BY Zenon DEF IsProc
  <1>2. IsProc(k)
    BY Zenon DEF IsProc
  <1> HIDE DEF k
  <1>3. Placed(b, k)
    BY <1>1, ZenonT(60) DEF Placed
  <1>4. k.pc \notin Migrating /\ k.pc # "pre_upgrade"
    BY <1>3, Zenon DEF Placed
  <1>5. On(b, k, f)
    BY <1>1, <1>4, Zenon DEF On
  <1>6. IsProc(k) /\ Placed(b, k) /\ On(b, k, f) /\ k.file = j.file /\ k.stale /\ k.pc \notin Migrating
    BY <1>1, <1>2, <1>3, <1>4, <1>5, Zenon
  <1> QED
    BY <1>6, Zenon DEF k

LEMMA ReplacesKeeps ==
    ASSUME SInv, NEW p \in Procs, NEW k, NEW g, Replaces(p, k, g)
    PROVE  SInv'
  <1> DEFINE i == proc[p].file
  <1>1. PICK S : files \in Seq(S)
    BY Zenon DEF SInv
  <1>2. i \in DOMAIN files /\ i # 0
    BY <1>1, FileNumbers, Zenon DEF Replaces
  <1>3. /\ \E T : files' \in Seq(T)
        /\ DOMAIN files' = DOMAIN files
        /\ files'[i] = g
        /\ \A j \in DOMAIN files \ {i} : files'[j] = files[j]
    BY <1>1, PutFile, Zenon DEF Replaces
  <1>4. /\ proc' = [q \in Procs |-> proc'[q]]
        /\ proc'[p] = k
        /\ \A q \in Procs \ {p} : proc[q].file = i => proc'[q] = [proc[q] EXCEPT !.stale = TRUE]
        /\ \A q \in Procs \ {p} : proc[q].file # i => proc'[q] = proc[q]
    <2>1. Outdated(p) = [q \in Procs |-> Outdated(p)[q]]
      BY Zenon DEF Outdated
    <2>2. /\ proc' = [q \in Procs |-> proc'[q]]
          /\ proc'[p] = k
          /\ \A q \in Procs \ {p} : proc'[q] = Outdated(p)[q]
      BY <2>1, PutProc, Zenon DEF Replaces
    <2>3. \A q \in Procs \ {p} :
            Outdated(p)[q] = IF q # p /\ proc[q].file = i /\ proc[q].file # 0
                             THEN [proc[q] EXCEPT !.stale = TRUE] ELSE proc[q]
      BY Zenon DEF Outdated
    <2> HIDE DEF i
    <2>4. \A q \in Procs \ {p} : proc[q].file = i => proc'[q] = [proc[q] EXCEPT !.stale = TRUE]
      BY <1>2, <2>2, <2>3, Zenon
    <2>5. \A q \in Procs \ {p} : proc[q].file # i => proc'[q] = proc[q]
      BY <2>2, <2>3, Zenon
    <2> QED
      BY <2>2, <2>4, <2>5, Zenon
  <1> HIDE DEF i
  <1>5. \A q \in Procs : IsProc(proc[q]) /\ Placed(backend, proc[q]) /\ proc[q].file \in DOMAIN files \cup {0}
    BY Zenon DEF SInv, ProcsOK
  <1>6. backend # "sqlite" /\ (backend # "odbc" => g.tables # {}) /\ k.file = i /\ backend' = backend
    BY Zenon DEF Replaces, i
  <1>7. \A q \in Procs \ {p} : proc[q].file = i =>
          /\ IsProc(proc'[q]) /\ Placed(backend, proc'[q]) /\ On(backend, proc'[q], g)
          /\ proc'[q].file = i /\ proc'[q].stale /\ proc'[q].pc \notin Migrating
    <2> TAKE q \in Procs \ {p}
    <2> HAVE proc[q].file = i
    <2> DEFINE j == proc[q]
    <2>1. proc'[q] = [j EXCEPT !.stale = TRUE] /\ j.file = i
      BY <1>4, Zenon
    <2>2. IsProc(j) /\ Placed(backend, j) /\ j.file # 0
      BY <1>2, <1>5, Zenon
    <2> HIDE DEF j
    <2>3. LET m == [j EXCEPT !.stale = TRUE] IN
          /\ IsProc(m) /\ Placed(backend, m) /\ On(backend, m, g)
          /\ m.file = j.file /\ m.stale /\ m.pc \notin Migrating
      BY <1>6, <2>2, StaleStays, Zenon
    <2> QED
      BY <2>1, <2>3, Zenon
  <1>8. k.pc \notin Migrating
    BY <1>6, Zenon DEF Replaces, Placed
  <1>9. FilesOK'
    BY <1>3, Zenon DEF SInv, FilesOK, Replaces, i
  <1>10. ProcsOK'
    <2> SUFFICES ASSUME NEW q \in Procs
                 PROVE  /\ IsProc(proc'[q]) /\ Placed(backend, proc'[q])
                        /\ proc'[q].file \in DOMAIN files \cup {0}
      BY <1>3, <1>6, Zenon DEF ProcsOK
    <2>1. CASE q = p
      BY <1>2, <1>4, <1>6, <2>1, Zenon DEF Replaces
    <2>2. CASE q # p /\ proc[q].file = i
      BY <1>2, <1>7, <2>2, Zenon
    <2>3. CASE q # p /\ proc[q].file # i
      BY <1>4, <1>5, <2>3, Zenon
    <2> QED
      BY <2>1, <2>2, <2>3
  <1>11. ProcsOn'
    <2> SUFFICES ASSUME NEW q \in Procs, proc'[q].file # 0
                 PROVE  On(backend, proc'[q], files'[proc'[q].file])
      BY <1>6, Zenon DEF ProcsOn
    <2>1. CASE q = p
      BY <1>3, <1>4, <1>6, <2>1, Zenon DEF Replaces
    <2>2. CASE q # p /\ proc[q].file = i
      BY <1>3, <1>7, <2>2, Zenon
    <2>3. CASE q # p /\ proc[q].file # i
      BY <1>3, <1>4, <1>5, <2>3, Zenon DEF SInv, ProcsOn
    <2> QED
      BY <2>1, <2>2, <2>3
  <1>12. ProcsApart'
    <2> SUFFICES ASSUME NEW q \in Procs, NEW r \in Procs, q # r,
                        proc'[q].file = proc'[r].file, proc'[q].file # 0
                 PROVE  Apart(proc'[q], proc'[r], files'[proc'[q].file])
      BY Zenon DEF ProcsApart
    <2>1. CASE q # p /\ proc[q].file = i
      <3>1. proc'[q].stale /\ proc'[q].pc \notin Migrating
        BY <1>7, <2>1, Zenon
      <3> QED
        BY <3>1, Zenon DEF Apart
    <2>2. CASE r # p /\ proc[r].file = i
      <3>1. proc'[r].stale /\ proc'[r].pc \notin Migrating
        BY <1>7, <2>2, Zenon
      <3> QED
        BY <3>1, Zenon DEF Apart
    <2>3. CASE q # p /\ proc[q].file # i /\ r # p /\ proc[r].file # i
      BY <1>3, <1>4, <1>5, <2>3, Zenon DEF SInv, ProcsApart
    <2>4. q # p \/ r # p
      OBVIOUS
    <2>5. /\ q = p /\ r # p => proc[r].file = i
          /\ r = p /\ q # p => proc[q].file = i
      BY <1>4, <1>6, Zenon
    <2> QED
      BY <1>4, <1>7, <2>1, <2>2, <2>3, <2>4, <2>5, Zenon
  <1> QED
    BY <1>3, <1>4, <1>6, <1>9, <1>10, <1>11, <1>12, Zenon DEF SInv

\* A call makes a file, or creates the database.
Founds(p, k) ==
    /\ backend' = backend /\ backend # "odbc"
    /\ files' = Append(files, Empty) /\ at' = Len(files) + 1
    /\ proc' = [proc EXCEPT ![p] = k]
    /\ IsProc(k) /\ Placed(backend, k)
    /\ k.file \in {0, Len(files) + 1}
    /\ k.file # 0 => On(backend, k, Empty)

LEMMA EmptyOK ==
    ASSUME NEW b
    PROVE  IsFile(Empty) /\ FileOK(b, Empty)
  <1>1. "1" # None
    BY SMT DEF None
  <1> QED
    BY <1>1, Zenon DEF IsFile, FileOK, Empty, NoConfig, HasConfig

LEMMA FoundsKeeps ==
    ASSUME SInv, NEW p \in Procs, NEW k, Founds(p, k)
    PROVE  SInv'
  <1> DEFINE i == Len(files) + 1
  <1>1. /\ proc' = [q \in Procs |-> proc'[q]]
        /\ proc'[p] = k
        /\ \A q \in Procs \ {p} : proc'[q] = proc[q]
    BY PutProc, Zenon DEF Founds, SInv
  <1>2. PICK S : files \in Seq(S)
    BY Zenon DEF SInv
  <1>3. /\ \E T : files' \in Seq(T)
        /\ DOMAIN files' = DOMAIN files \cup {i}
        /\ i \in Nat \ {0} /\ i \notin DOMAIN files
        /\ files'[i] = Empty
        /\ \A j \in DOMAIN files : files'[j] = files[j]
    <2>1. files' = Append(files, Empty)
      BY Zenon DEF Founds
    <2>2. /\ \E T : Append(files, Empty) \in Seq(T)
          /\ DOMAIN Append(files, Empty) = DOMAIN files \cup {i}
          /\ i \in Nat \ {0} /\ i \notin DOMAIN files
          /\ Append(files, Empty)[i] = Empty
          /\ \A j \in DOMAIN files : Append(files, Empty)[j] = files[j]
      BY <1>2, AddFile, Zenon
    <2> QED
      BY <2>1, <2>2, Zenon
  <1>4. /\ at' = i /\ k.file \in {0, i} /\ backend' = backend
        /\ IsFile(Empty) /\ FileOK(backend, Empty)
    BY EmptyOK, Zenon DEF Founds
  <1> HIDE DEF i
  <1>5. i # 0
    BY <1>3, Zenon
  <1>6. FilesOK'
    BY <1>3, <1>4, <1>5, Zenon DEF SInv, FilesOK
  <1>7. ProcsOK'
    BY <1>1, <1>3, <1>4, Zenon DEF SInv, ProcsOK, Founds
  <1>8. ProcsOn'
    <2> SUFFICES ASSUME NEW q \in Procs, proc'[q].file # 0
                 PROVE  On(backend, proc'[q], files'[proc'[q].file])
      BY <1>4, Zenon DEF ProcsOn
    <2>1. CASE q = p
      BY <1>1, <1>3, <1>4, <2>1, Zenon DEF Founds
    <2>2. CASE q # p
      <3>1. proc'[q] = proc[q] /\ proc[q].file \in DOMAIN files \cup {0}
        BY <1>1, <2>2, Zenon DEF SInv, ProcsOK
      <3> QED
        BY <1>3, <3>1, Zenon DEF SInv, ProcsOn
    <2> QED
      BY <2>1, <2>2
  <1>9. ProcsApart'
    <2> SUFFICES ASSUME NEW q \in Procs, NEW r \in Procs, q # r,
                        proc'[q].file = proc'[r].file, proc'[q].file # 0
                 PROVE  Apart(proc'[q], proc'[r], files'[proc'[q].file])
      BY Zenon DEF ProcsApart
    <2>1. \A o \in Procs : proc[o].file \in DOMAIN files \cup {0}
      BY Zenon DEF SInv, ProcsOK
    <2>2. proc'[p].file # 0 => proc'[p].file \notin DOMAIN files \cup {0}
      BY <1>1, <1>3, <1>4, Zenon
    <2>3. \A o \in Procs \ {p} : proc'[o].file \in DOMAIN files \cup {0}
      BY <1>1, <2>1, Zenon
    <2>4. q # p /\ r # p
      BY <2>2, <2>3, Zenon
    <2> QED
      BY <1>1, <1>3, <2>1, <2>4, Zenon DEF SInv, ProcsApart
  <1> QED
    BY <1>1, <1>3, <1>4, <1>6, <1>7, <1>8, <1>9, Zenon DEF SInv

\* Steps at which a call knows nothing of its file, and keeps nobody off it.
LEMMA PlainOn ==
    ASSUME NEW b, NEW k, NEW f, k.stale /\ b # "odbc" => f.tables # {},
           k.pc = "pre_upgrade" => f.tables # {},
           k.pc \in {"check", "keys", "acquire", "config", "is_migrated", "pre_upgrade", "init",
                     "schema", "insert_config", "done"}
    PROVE  On(b, k, f)
  BY Zenon DEF On, OnCurrent, Migrating, Upgrading, Holds

LEMMA PlainApart ==
    ASSUME NEW j, NEW k, NEW f, k.pc \notin Migrating \cup {"insert_profile", "drop", "schema"}
    PROVE  Apart(j, k, f) /\ Apart(k, j, f)
  BY Zenon DEF Apart

\* A call that is not connected.
LEMMA ApieceKeeps ==
    ASSUME SInv, NEW p \in Procs, NEW k, IsProc(k), Placed(backend, k), k.file = 0,
           proc' = [proc EXCEPT ![p] = k], backend' = backend, files' = files,
           at' \in DOMAIN files \cup {0}, backend = "odbc" => at' # 0
    PROVE  SInv'
  <1>1. Moves(p, k)
    BY Zenon DEF Moves
  <1> QED
    BY <1>1, MovesKeeps, Zenon

LEMMA FailKeeps ==
    ASSUME SInv, NEW p \in Procs, Fail(p), proc[p].pc \notin {"free", "done"},
           backend' = backend, files' = files, at' = at
    PROVE  SInv'
  <1> DEFINE k == [Free EXCEPT !.pc = "failed", !.call = proc[p].call,
                               !.alone = proc[p].alone, !.first = proc[p].first]
  <1>1. proc' = [proc EXCEPT ![p] = k]
    BY Zenon DEF Fail
  <1>2. IsProc(k) /\ k.pc = "failed" /\ k.call = proc[p].call /\ k.file = 0 /\ ~k.stale /\ ~k.txn
    <2>1. 0 \in Nat
      BY SMT
    <2> QED
      BY <2>1, Zenon DEF IsProc, Free, NoInst
  <1> HIDE DEF k
  <1>3. proc[p].call \in Calls /\ (proc[p].call.op = "migrate" => backend = "sqlite")
    BY Zenon DEF SInv, ProcsOK, Placed
  <1>4. Placed(backend, k)
    BY <1>2, <1>3, ZenonT(60) DEF Placed, Connected, Provides, Migrating, Upgrading, Holds, OdbcOnly
  <1>5. at \in DOMAIN files \cup {0} /\ (backend = "odbc" => at # 0)
    BY Zenon DEF SInv, FilesOK
  <1> QED
    BY <1>1, <1>2, <1>4, <1>5, ApieceKeeps, Zenon

LEMMA FreeOK ==
    ASSUME NEW b
    PROVE  /\ IsProc(Free) /\ Placed(b, Free) /\ Free.file = 0
           /\ LET k == [Free EXCEPT !.pc = "done"] IN IsProc(k) /\ Placed(b, k) /\ k.file = 0
  <1> DEFINE k == [Free EXCEPT !.pc = "done"]
  <1>1. /\ IsProc(Free) /\ Free.pc = "free" /\ Free.file = 0 /\ ~Free.stale /\ ~Free.txn
        /\ IsProc(k) /\ k.pc = "done" /\ k.file = 0 /\ ~k.stale /\ ~k.txn
    <2>1. 0 \in Nat
      BY SMT
    <2> QED
      BY <2>1, Zenon DEF IsProc, Free, NoInst
  <1> HIDE DEF k
  <1>2. Placed(b, Free) /\ Placed(b, k)
    BY <1>1, Zenon DEF Placed, Connected, Provides, Migrating, Upgrading, Holds, OdbcOnly, Apiece
  <1> QED
    BY <1>1, <1>2, Zenon DEF k

LEMMA SameKeeps ==
    ASSUME NEW j, NEW k, k.pc = j.pc, k.call = j.call, k.file = j.file, k.txn = j.txn, k.stale = j.stale,
           k.keys = j.keys, k.todo = j.todo, k.inst = j.inst,
           NEW b, NEW f
    PROVE  /\ Placed(b, j) => Placed(b, k)
           /\ On(b, j, f) => On(b, k, f)
  <1>1. Placed(b, j) => Placed(b, k)
    BY SMTT(60) DEF Placed
  <1>2. OnMigrating(j, f) => OnMigrating(k, f)
    BY Zenon DEF OnMigrating
  <1>3. OnCurrent(j, f) => OnCurrent(k, f)
    BY Zenon DEF OnCurrent
  <1>4. On(b, j, f) => On(b, k, f)
    BY <1>2, <1>3, Zenon DEF On
  <1> QED
    BY <1>1, <1>4

\* A call goes on to a step at which it knows nothing of its file.
LEMMA PlainKeeps ==
    ASSUME SInv, NEW p \in Procs, NEW k, IsProc(k), Placed(backend, k),
           proc' = [proc EXCEPT ![p] = k], backend' = backend, files' = files, at' = at,
           k.file \in DOMAIN files, k.stale => proc[p].stale /\ proc[p].file = k.file,
           k.pc \in {"check", "keys", "acquire", "config", "is_migrated", "pre_upgrade", "init"},
           k.pc = "pre_upgrade" => files[k.file].tables # {}
    PROVE  SInv'
  <1>1. PICK S : files \in Seq(S)
    BY Zenon DEF SInv
  <1>2. k.file # 0
    BY <1>1, FileNumbers, Zenon
  <1>3. On(backend, proc[p], files[k.file]) \/ ~k.stale
    BY <1>2, Zenon DEF SInv, ProcsOn
  <1>4. k.stale /\ backend # "odbc" => files[k.file].tables # {}
    BY <1>3, Zenon DEF On
  <1>5. On(backend, k, files[k.file])
    BY <1>4, PlainOn, Zenon
  <1>6. k.pc \notin Migrating \cup {"insert_profile", "drop", "schema"}
    BY Zenon DEF Migrating, Upgrading
  <1>7. Moves(p, k)
    BY <1>5, <1>6, PlainApart, Zenon DEF Moves, SInv, FilesOK
  <1> QED
    BY <1>7, MovesKeeps, Zenon

\* What an action says of its call, as a record.
LEMMA ChangePc ==
    ASSUME NEW p \in Procs, proc = [q \in Procs |-> proc[q]], IsProc(proc[p]), NEW pc
    PROVE  LET k == [proc[p] EXCEPT !.pc = pc] IN
           /\ [proc EXCEPT ![p].pc = pc] = [proc EXCEPT ![p] = k]
           /\ IsProc(k) /\ k.pc = pc
           /\ k.call = proc[p].call /\ k.file = proc[p].file /\ k.txn = proc[p].txn /\ k.stale = proc[p].stale
           /\ k.keys = proc[p].keys /\ k.todo = proc[p].todo /\ k.inst = proc[p].inst
  BY Zenon DEF IsProc

\* Of a call p of a state that satisfies the invariant.
LEMMA Facts ==
    ASSUME SInv, NEW p \in Procs
    PROVE  /\ proc = [q \in Procs |-> proc[q]] /\ IsProc(proc[p]) /\ Placed(backend, proc[p])
           /\ proc[p].file \in DOMAIN files \cup {0}
           /\ proc[p].pc \in Connected => proc[p].file \in DOMAIN files
           /\ at \in DOMAIN files \cup {0} /\ at \in Nat /\ (backend = "odbc" => at \in DOMAIN files)
           /\ backend \in {"sqlite", "postgres", "odbc"}
  <1>1. PICK S : files \in Seq(S)
    BY Zenon DEF SInv
  <1>2. /\ proc = [q \in Procs |-> proc[q]] /\ IsProc(proc[p]) /\ Placed(backend, proc[p])
        /\ proc[p].file \in DOMAIN files \cup {0}
        /\ at \in DOMAIN files \cup {0} /\ (backend = "odbc" => at # 0)
        /\ backend \in {"sqlite", "postgres", "odbc"}
    BY Zenon DEF SInv, ProcsOK, FilesOK
  <1>3. proc[p].pc \in Connected => proc[p].file # 0
    BY <1>2, Zenon DEF Placed
  <1>4. 0 \in Nat /\ \A i \in DOMAIN files : i \in Nat
    BY <1>1, FileNumbers, SMT
  <1> QED
    BY <1>2, <1>3, <1>4, Zenon
----------------------------------------------------------------------------
(***************************************************************************)
(* Connecting, and asking whether there is a store.                        *)
(***************************************************************************)
LEMMA StartOK ==
    ASSUME SInv, NEW p \in Procs, NEW c \in Calls, Start(p, c)
    PROVE  SInv'
  <1> DEFINE k == proc'[p]
  <1>1. /\ proc' = [q \in Procs |-> proc'[q]]
        /\ backend' = backend /\ files' = files /\ at' = at
        /\ c.op = "migrate" => backend = "sqlite"
    BY Zenon DEF Start
  <1>2. IsProc(k) /\ k.pc = "connect" /\ k.call = c /\ k.file = 0 /\ ~k.txn /\ ~k.stale
    <2>1. 0 \in Nat
      BY SMT
    <2> DEFINE a == \A o \in Procs \ {p} : ~InFlight(o)
               f == IF \E o \in Procs \ {p} : InFlight(o) THEN Empty ELSE There
    <2>2. k = [Free EXCEPT !.pc = "connect", !.call = c, !.alone = a, !.first = f]
      BY Zenon DEF Start
    <2> HIDE DEF a, f, k
    <2> QED
      BY <2>1, <2>2, Zenon DEF IsProc, Free, NoInst
  <1>3. ASSUME NEW q \in Procs \ {p}
        PROVE  /\ IsProc(proc'[q])
               /\ proc'[q].pc = proc[q].pc /\ proc'[q].call = proc[q].call /\ proc'[q].file = proc[q].file
               /\ proc'[q].txn = proc[q].txn /\ proc'[q].stale = proc[q].stale /\ proc'[q].keys = proc[q].keys
               /\ proc'[q].todo = proc[q].todo /\ proc'[q].inst = proc[q].inst
    <2>1. IsProc(proc[q])
      BY Facts, Zenon
    <2>2. proc'[q] = [proc[q] EXCEPT !.alone = FALSE, !.first = Empty] \/ proc'[q] = proc[q]
      BY Zenon DEF Start
    <2> QED
      BY <2>1, <2>2, Zenon DEF IsProc
  <1>4. Placed(backend, k)
    BY <1>1, <1>2, ZenonT(60) DEF Placed, Connected, Provides, Migrating, Upgrading, Holds, OdbcOnly
  <1> HIDE DEF k
  <1>5. ASSUME NEW q \in Procs \ {p} PROVE Placed(backend, proc'[q])
    <2>1. Placed(backend, proc[q])
      BY Facts, Zenon
    <2> QED
      BY <1>3, <2>1, SameKeeps, Zenon
  <1>6. ProcsOK'
    BY <1>1, <1>2, <1>3, <1>4, <1>5, Zenon DEF SInv, ProcsOK, k
  <1>7. ProcsOn'
    <2> SUFFICES ASSUME NEW q \in Procs, proc'[q].file # 0
                 PROVE  On(backend, proc'[q], files[proc'[q].file])
      BY <1>1, Zenon DEF ProcsOn
    <2>1. q # p /\ On(backend, proc[q], files[proc'[q].file])
      BY <1>2, <1>3, Zenon DEF SInv, ProcsOn, k
    <2>2. /\ proc'[q].pc = proc[q].pc /\ proc'[q].call = proc[q].call /\ proc'[q].file = proc[q].file
          /\ proc'[q].txn = proc[q].txn /\ proc'[q].stale = proc[q].stale /\ proc'[q].keys = proc[q].keys
          /\ proc'[q].todo = proc[q].todo /\ proc'[q].inst = proc[q].inst
      BY <1>3, <2>1, Zenon
    <2> DEFINE f == files[proc'[q].file]
               j == proc[q]
               m == proc'[q]
    <2>3. On(backend, j, f)
      BY <2>1
    <2>4. /\ m.pc = j.pc /\ m.call = j.call /\ m.file = j.file /\ m.txn = j.txn
          /\ m.stale = j.stale /\ m.keys = j.keys /\ m.todo = j.todo /\ m.inst = j.inst
      BY <2>2
    <2> HIDE DEF f, j, m
    <2>5. On(backend, m, f)
      BY <2>3, <2>4, SameKeeps, Zenon
    <2> QED
      BY <2>5 DEF m, f
  <1>8. ProcsApart'
    <2> SUFFICES ASSUME NEW q \in Procs, NEW r \in Procs, q # r,
                        proc'[q].file = proc'[r].file, proc'[q].file # 0
                 PROVE  Apart(proc'[q], proc'[r], files[proc'[q].file])
      BY <1>1, Zenon DEF ProcsApart
    <2>1. q # p /\ r # p
      BY <1>2, Zenon DEF k
    <2>2. Apart(proc[q], proc[r], files[proc'[q].file])
      BY <1>3, <2>1, Zenon DEF SInv, ProcsApart
    <2> QED
      BY <1>3, <2>1, <2>2, Zenon DEF Apart
  <1> QED
    BY <1>1, <1>6, <1>7, <1>8, Zenon DEF SInv, FilesOK

LEMMA EndOK ==
    ASSUME SInv, NEW p \in Procs, End(p)
    PROVE  SInv'
  <1>1. IsProc(Free) /\ Placed(backend, Free) /\ Free.file = 0
    BY FreeOK, Zenon
  <1>3. proc' = [proc EXCEPT ![p] = Free] /\ backend' = backend /\ files' = files /\ at' = at
    BY Zenon DEF End
  <1>4. at' \in DOMAIN files \cup {0} /\ (backend = "odbc" => at' # 0)
    BY <1>3, Zenon DEF SInv, FilesOK
  <1> QED
    BY <1>1, <1>3, <1>4, ApieceKeeps, Zenon

LEMMA CrashOK ==
    ASSUME SInv, Crash
    PROVE  SInv'
  <1>1. IsProc(Free) /\ Placed(backend, Free) /\ Free.file = 0
    BY FreeOK, Zenon
  <1>2. /\ proc' = [p \in Procs |-> Free] /\ \A p \in Procs : proc'[p] = Free
        /\ backend' = backend /\ files' = files /\ at' = at
    BY Zenon DEF Crash
  <1>3. proc' = [p \in Procs |-> proc'[p]]
    BY <1>2, Zenon
  <1>4. FilesOK' /\ ProcsOK' /\ ProcsOn' /\ ProcsApart'
    BY <1>1, <1>2, Zenon DEF SInv, FilesOK, ProcsOK, ProcsOn, ProcsApart
  <1> QED
    BY <1>2, <1>3, <1>4, Zenon DEF SInv

LEMMA DoneKeeps ==
    ASSUME SInv, NEW p \in Procs, Done(p), backend' = backend, files' = files,
           at' \in DOMAIN files \cup {0}, backend = "odbc" => at' # 0
    PROVE  SInv'
  <1> DEFINE k == [Free EXCEPT !.pc = "done"]
  <1>1. IsProc(k) /\ Placed(backend, k) /\ k.file = 0
    BY FreeOK, Zenon
  <1>2. proc' = [proc EXCEPT ![p] = k]
    BY Zenon DEF Done
  <1> HIDE DEF k
  <1> QED
    BY <1>1, <1>2, ApieceKeeps, Zenon

\* Where a call goes before it knows anything.
LEMMA Arrives ==
    ASSUME NEW b, NEW k, k.call \in Calls, k.call.op = "migrate" => b = "sqlite", b = "sqlite" => ~k.stale,
           k.txn => b = "postgres" /\ k.pc = "keys",
           \/ /\ k.pc \in {"create", "reconnect"} /\ k.file = 0 /\ ~k.stale
              /\ k.call.op \in {"provision", "copy"}
           \/ /\ k.pc = "check" /\ k.file # 0
              /\ k.call.op \in {"provision", "copy"} \/ (b = "odbc" /\ k.call.op = "remove")
           \/ /\ k.pc = "keys" /\ k.file # 0 /\ k.call.op \in {"provision", "copy"}
           \/ k.pc \in {"acquire", "config"} /\ k.file # 0
           \/ k.pc \in {"is_migrated", "pre_upgrade"} /\ k.file # 0 /\ b = "sqlite"
    PROVE  Placed(b, k)
  BY Zenon DEF Placed, Connected, Provides, Migrating, Upgrading, Holds, OdbcOnly, Apiece

\* What is known of a call that is about to connect.
LEMMA Unconnected ==
    ASSUME SInv, NEW p \in Procs, proc[p].pc \in {"connect", "create", "reconnect", "reopen"}
    PROVE  /\ proc[p].file = 0 /\ ~proc[p].stale /\ ~proc[p].txn /\ proc[p].call \in Calls
           /\ Op(p) = "migrate" => backend = "sqlite"
           /\ proc[p].pc \in {"create", "reconnect"} => proc[p].call.op \in {"provision", "copy"}
  BY Facts, Zenon DEF Placed, Apiece, Op

LEMMA UnlinkOK ==
    ASSUME SInv, NEW p \in Procs, Unlink(p)
    PROVE  SInv'
  <1>1. /\ backend = "sqlite" /\ proc[p].pc = "connect" /\ at' = 0 /\ backend' = backend /\ files' = files
        /\ backend # "odbc"
    BY Zenon DEF Unlink
  <1>2. CASE Op(p) = "remove"
    BY <1>1, <1>2, DoneKeeps, Zenon DEF Unlink
  <1>3. CASE Op(p) # "remove"
    <2> DEFINE k == [proc[p] EXCEPT !.pc = "create"]
    <2>1. proc' = [proc EXCEPT ![p].pc = "create"] /\ Creates(p)
      BY <1>3, Zenon DEF Unlink, To
    <2>2. /\ proc' = [proc EXCEPT ![p] = k]
          /\ IsProc(k) /\ k.pc = "create" /\ k.call = proc[p].call /\ k.file = proc[p].file
          /\ k.txn = proc[p].txn /\ k.stale = proc[p].stale
      BY <2>1, Facts, ChangePc, Zenon
    <2> HIDE DEF k
    <2>3. /\ k.file = 0 /\ ~k.stale /\ ~k.txn /\ k.call \in Calls
          /\ k.call.op \in {"provision", "copy"}
      BY <1>1, <2>1, <2>2, Unconnected, Zenon DEF Creates, Op
    <2>4. Placed(backend, k)
      BY <1>1, <2>2, <2>3, Arrives, Zenon
    <2> QED
      BY <1>1, <2>2, <2>3, <2>4, ApieceKeeps, Zenon
  <1> QED
    BY <1>2, <1>3

\* A call connects to what is at the URL.
LEMMA ConnectKeeps ==
    ASSUME SInv, NEW p \in Procs, NEW pc, at # 0,
           proc[p].pc \in {"connect", "create", "reconnect", "reopen"},
           proc' = [proc EXCEPT ![p].file = at, ![p].pc = pc],
           backend' = backend, files' = files, at' = at,
           \/ pc = "check" /\ (Creates(p) \/ (backend = "odbc" /\ Op(p) = "remove"))
           \/ pc = "keys" /\ Creates(p)
           \/ pc = "config"
           \/ pc = "is_migrated" /\ backend = "sqlite"
    PROVE  SInv'
  <1> DEFINE k == [proc[p] EXCEPT !.file = at, !.pc = pc]
  <1>1. at \in Nat /\ at \in DOMAIN files
    BY Facts, Zenon
  <1>2. /\ proc' = [proc EXCEPT ![p] = k]
        /\ IsProc(k) /\ k.pc = pc /\ k.file = at /\ k.call = proc[p].call
        /\ k.txn = proc[p].txn /\ k.stale = proc[p].stale
    <2>1. proc = [q \in Procs |-> proc[q]] /\ IsProc(proc[p])
      BY Facts, Zenon
    <2>2. /\ [proc EXCEPT ![p].file = at, ![p].pc = pc] = [proc EXCEPT ![p] = k]
          /\ IsProc(k) /\ k.pc = pc /\ k.file = at /\ k.call = proc[p].call
          /\ k.txn = proc[p].txn /\ k.stale = proc[p].stale
      BY <1>1, <2>1, Zenon DEF IsProc
    <2> QED
      BY <2>2, Zenon
  <1> HIDE DEF k
  <1>3. ~k.stale /\ ~k.txn /\ k.call \in Calls /\ (k.call.op = "migrate" => backend = "sqlite")
    BY <1>2, Unconnected, Zenon DEF Op
  <1>4. Placed(backend, k)
    BY <1>2, <1>3, Arrives, Zenon DEF Creates, Op
  <1> QED
    BY <1>1, <1>2, <1>3, <1>4, PlainKeeps, Zenon

LEMMA CreateFileOK ==
    ASSUME SInv, NEW p \in Procs, CreateFile(p)
    PROVE  SInv'
  <1> DEFINE pc == IF Recreate(p) THEN "keys" ELSE "check"
  <1>1. /\ backend = "sqlite" /\ Creates(p) /\ proc[p].pc \in {"connect", "create"} /\ backend' = backend
        /\ proc' = [proc EXCEPT ![p].file = at', ![p].pc = pc]
        /\ backend # "odbc" /\ pc \in {"keys", "check"}
    BY Zenon DEF CreateFile
  <1> HIDE DEF pc
  <1>2. ~proc[p].stale /\ proc[p].call \in Calls /\ ~proc[p].txn
    BY <1>1, Unconnected, Zenon
  <1>3. CASE at # 0
    <2>1. files' = files /\ at' = at
      BY <1>3, Zenon DEF CreateFile
    <2>2. proc' = [proc EXCEPT ![p].file = at, ![p].pc = pc]
      BY <1>1, <2>1, Zenon
    <2> QED
      BY <1>1, <1>2, <1>3, <2>1, <2>2, ConnectKeeps, Zenon
  <1>4. CASE at = 0
    <2> DEFINE k == [proc[p] EXCEPT !.file = Len(files) + 1, !.pc = pc]
    <2>1. files' = Append(files, Empty) /\ at' = Len(files) + 1
      BY <1>4, Zenon DEF CreateFile
    <2>2. Len(files) + 1 \in Nat /\ Len(files) + 1 # 0
      <3>1. PICK S : files \in Seq(S)
        BY Zenon DEF SInv
      <3> QED
        BY <3>1, AddFile, Zenon
    <2>3. /\ proc' = [proc EXCEPT ![p] = k]
          /\ IsProc(k) /\ k.pc = pc /\ k.file = Len(files) + 1 /\ k.call = proc[p].call
          /\ k.txn = proc[p].txn /\ k.stale = proc[p].stale
      <3>1. proc = [q \in Procs |-> proc[q]] /\ IsProc(proc[p])
        BY Facts, Zenon
      <3> QED
        BY <1>1, <2>1, <2>2, <3>1, Zenon DEF IsProc
    <2> HIDE DEF k
    <2>4. Placed(backend, k)
      BY <1>1, <1>2, <2>2, <2>3, Arrives, Zenon DEF Creates, Op
    <2>5. On(backend, k, Empty)
      BY <1>1, <1>2, <2>3, PlainOn, Zenon
    <2>6. Founds(p, k)
      BY <1>1, <2>1, <2>3, <2>4, <2>5, Zenon DEF Founds
    <2> QED
      BY <2>6, FoundsKeeps, Zenon
  <1> QED
    BY <1>3, <1>4

LEMMA ConnectOK ==
    ASSUME SInv, NEW p \in Procs,
           ConnectFile(p) \/ ConnectServer(p) \/ Reconnect(p) \/ OpenPool(p) \/ ConnectWallet(p) \/ Reopen(p)
    PROVE  SInv'
  <1>1. /\ backend' = backend /\ files' = files /\ at' = at
        /\ proc[p].pc \in {"connect", "reconnect", "reopen"}
    BY Zenon DEF ConnectFile, ConnectServer, Reconnect, OpenPool, ConnectWallet, Reopen
  <1>2. CASE Fail(p)
    BY <1>1, <1>2, FailKeeps, Zenon
  <1>3. CASE ~Fail(p)
    <2>1. backend = "odbc" => at # 0
      BY Zenon DEF SInv, FilesOK
    <2>2. CASE ConnectFile(p) \/ ConnectServer(p) \/ Reopen(p)
      <3>1. at # 0 /\ proc' = [proc EXCEPT ![p].file = at, ![p].pc = "config"]
        BY <1>3, <2>2, Zenon DEF ConnectFile, ConnectServer, Reopen
      <3> QED
        BY <1>1, <3>1, ConnectKeeps, Zenon
    <2>3. CASE Reconnect(p)
      <3>1. /\ at # 0 /\ proc' = [proc EXCEPT ![p].file = at, ![p].pc = "check"]
            /\ proc[p].pc = "reconnect"
        BY <1>3, <2>3, Zenon DEF Reconnect
      <3>2. Creates(p)
        BY <3>1, Unconnected, Zenon DEF Creates, Op
      <3> QED
        BY <1>1, <3>1, <3>2, ConnectKeeps, Zenon
    <2>4. CASE OpenPool(p)
      <3>1. /\ at # 0 /\ backend = "odbc"
            /\ proc' = [proc EXCEPT ![p].file = at, ![p].pc = IF Op(p) = "open" THEN "config" ELSE "check"]
        BY <2>1, <2>4, Zenon DEF OpenPool
      <3>2. CASE Op(p) = "open"
        BY <1>1, <3>1, <3>2, ConnectKeeps, Zenon
      <3>3. CASE Op(p) \in {"provision", "copy", "remove"}
        BY <1>1, <3>1, <3>3, ConnectKeeps, Zenon DEF Creates
      <3> QED
        BY <1>1, <3>1, <3>2, <3>3, Unconnected, StoresAssumption, Zenon DEF Op
    <2>5. CASE ConnectWallet(p)
      <3>1. /\ at # 0 /\ proc' = [proc EXCEPT ![p].file = at, ![p].pc = "is_migrated"]
            /\ backend = "sqlite"
        BY <1>1, <1>3, <2>5, Unconnected, Zenon DEF ConnectWallet
      <3> QED
        BY <1>1, <3>1, ConnectKeeps, Zenon
    <2> QED
      BY <2>2, <2>3, <2>4, <2>5
  <1> QED
    BY <1>2, <1>3

LEMMA ConnectDatabaseOK ==
    ASSUME SInv, NEW p \in Procs, ConnectDatabase(p)
    PROVE  SInv'
  <1>1. /\ backend = "postgres" /\ Creates(p) /\ proc[p].pc = "connect"
        /\ backend' = backend /\ files' = files /\ at' = at
    BY Zenon DEF ConnectDatabase
  <1>2. CASE at # 0
    <2>1. proc' = [proc EXCEPT ![p].file = at, ![p].pc = "check"]
      BY <1>2, Zenon DEF ConnectDatabase
    <2> QED
      BY <1>1, <1>2, <2>1, ConnectKeeps, Zenon
  <1>3. CASE at = 0
    <2> DEFINE k == [proc[p] EXCEPT !.pc = "create"]
    <2>1. /\ proc' = [proc EXCEPT ![p] = k]
          /\ IsProc(k) /\ k.pc = "create" /\ k.call = proc[p].call /\ k.file = proc[p].file
          /\ k.txn = proc[p].txn /\ k.stale = proc[p].stale
      BY <1>3, Facts, ChangePc, Zenon DEF ConnectDatabase
    <2> HIDE DEF k
    <2>2. /\ k.file = 0 /\ ~k.stale /\ ~k.txn /\ k.call \in Calls
          /\ k.call.op \in {"provision", "copy"}
      BY <1>1, <2>1, Unconnected, Zenon DEF Creates, Op
    <2>3. Placed(backend, k)
      BY <1>1, <2>1, <2>2, Arrives, Zenon
    <2>4. at' \in DOMAIN files \cup {0} /\ (backend = "odbc" => at' # 0)
      BY <1>1, Facts, Zenon
    <2> QED
      BY <1>1, <2>1, <2>2, <2>3, <2>4, ApieceKeeps, Zenon
  <1> QED
    BY <1>2, <1>3

LEMMA CreateDatabaseOK ==
    ASSUME SInv, NEW p \in Procs, CreateDatabase(p)
    PROVE  SInv'
  <1> DEFINE k == [proc[p] EXCEPT !.pc = "reconnect"]
  <1>1. /\ backend = "postgres" /\ backend # "odbc" /\ proc[p].pc = "create" /\ backend' = backend
        /\ proc' = [proc EXCEPT ![p].pc = "reconnect"]
    BY Zenon DEF CreateDatabase, To
  <1>2. /\ proc' = [proc EXCEPT ![p] = k]
        /\ IsProc(k) /\ k.pc = "reconnect" /\ k.call = proc[p].call /\ k.file = proc[p].file
        /\ k.txn = proc[p].txn /\ k.stale = proc[p].stale
    BY <1>1, Facts, ChangePc, Zenon
  <1> HIDE DEF k
  <1>3. /\ k.file = 0 /\ ~k.stale /\ ~k.txn /\ k.call \in Calls
        /\ k.call.op \in {"provision", "copy"}
    BY <1>1, <1>2, Unconnected, Zenon
  <1>4. Placed(backend, k)
    BY <1>1, <1>2, <1>3, Arrives, Zenon
  <1>5. CASE at = 0
    <2>1. files' = Append(files, Empty) /\ at' = Len(files) + 1
      BY <1>5, Zenon DEF CreateDatabase
    <2>2. Founds(p, k)
      BY <1>1, <1>2, <1>3, <1>4, <2>1, Zenon DEF Founds
    <2> QED
      BY <2>2, FoundsKeeps, Zenon
  <1>6. CASE at # 0
    <2>1. files' = files /\ at' \in DOMAIN files \cup {0} /\ (backend = "odbc" => at' # 0)
      BY <1>1, <1>6, Facts, Zenon DEF CreateDatabase
    <2> QED
      BY <1>1, <1>2, <1>3, <1>4, <2>1, ApieceKeeps, Zenon
  <1> QED
    BY <1>5, <1>6

LEMMA DropDatabaseOK ==
    ASSUME SInv, NEW p \in Procs, DropDatabase(p)
    PROVE  SInv'
  <1>1. /\ proc[p].pc = "connect" /\ backend = "postgres" /\ backend' = backend /\ files' = files
        /\ (Fail(p) /\ at' = at) \/ (Done(p) /\ at' = 0)
    BY Zenon DEF DropDatabase
  <1>2. CASE Fail(p) /\ at' = at
    BY <1>1, <1>2, FailKeeps, Zenon
  <1>3. CASE Done(p) /\ at' = 0
    <2>1. at' \in DOMAIN files \cup {0} /\ (backend = "odbc" => at' # 0)
      BY <1>1, <1>3, Zenon
    <2> QED
      BY <1>1, <1>3, <2>1, DoneKeeps, Zenon
  <1> QED
    BY <1>1, <1>2, <1>3

\* A connected call goes on to a step at which it knows nothing of its file.
LEMMA GoOn ==
    ASSUME SInv, NEW p \in Procs, proc[p].pc \in {"check", "acquire", "is_migrated"},
           backend' = backend, files' = files, at' = at,
           \/ To(p, "keys") /\ Creates(p)
           \/ To(p, "acquire") \/ To(p, "config")
           \/ To(p, "pre_upgrade") /\ backend = "sqlite" /\ File(p).tables # {}
    PROVE  SInv'
  <1>1. PICK pc : /\ \/ pc = "keys" /\ Creates(p)
                     \/ pc \in {"acquire", "config"}
                     \/ pc = "pre_upgrade" /\ backend = "sqlite" /\ File(p).tables # {}
                  /\ proc' = [proc EXCEPT ![p].pc = pc]
    BY Zenon DEF To
  <1> DEFINE k == [proc[p] EXCEPT !.pc = pc]
  <1>2. /\ proc' = [proc EXCEPT ![p] = k]
        /\ IsProc(k) /\ k.pc = pc /\ k.call = proc[p].call /\ k.file = proc[p].file
        /\ k.txn = proc[p].txn /\ k.stale = proc[p].stale
    BY <1>1, Facts, ChangePc, Zenon
  <1> HIDE DEF k
  <1>3. Placed(backend, proc[p]) /\ proc[p].file \in DOMAIN files
    BY Facts, Zenon DEF Connected
  <1>4. /\ k.call \in Calls /\ (k.call.op = "migrate" => backend = "sqlite")
        /\ backend = "sqlite" => ~k.stale
        /\ ~k.txn /\ k.file # 0
    BY <1>2, <1>3, Zenon DEF Placed, Connected
  <1>5. Placed(backend, k)
    BY <1>1, <1>2, <1>4, Arrives, Zenon DEF Creates, Op
  <1>6. k.pc = "pre_upgrade" => files[k.file].tables # {}
    BY <1>1, <1>2, Zenon DEF File
  <1> QED
    BY <1>1, <1>2, <1>3, <1>5, <1>6, PlainKeeps, Zenon

LEMMA CheckOK ==
    ASSUME SInv, NEW p \in Procs, CheckSqlite(p) \/ IsMigrated(p)
    PROVE  SInv'
  <1>1. Placed(backend, proc[p])
    BY Facts, Zenon
  <1>2. CASE CheckSqlite(p)
    <2>1. /\ proc[p].pc = "check" /\ backend = "sqlite" /\ backend # "odbc"
          /\ backend' = backend /\ files' = files /\ at' = at
          /\ To(p, "config") \/ To(p, "keys")
      BY <1>2, Zenon DEF CheckSqlite
    <2>2. Creates(p)
      BY <1>1, <2>1, Zenon DEF Placed, Creates, Op
    <2> QED
      BY <2>1, <2>2, GoOn, Zenon
  <1>3. CASE IsMigrated(p)
    <2>1. /\ proc[p].pc = "is_migrated" /\ backend' = backend /\ files' = files /\ at' = at
          /\ Fail(p) \/ (To(p, "pre_upgrade") /\ File(p).tables # {})
      BY <1>3, Zenon DEF IsMigrated
    <2>2. backend = "sqlite"
      BY <1>1, <2>1, Zenon DEF Placed
    <2> QED
      BY <2>1, <2>2, GoOn, FailKeeps, Zenon
  <1> QED
    BY <1>2, <1>3

LEMMA CheckPostgresOK ==
    ASSUME SInv, NEW p \in Procs, CheckPostgres(p)
    PROVE  SInv'
  <1>1. /\ proc[p].pc = "check" /\ backend = "postgres" /\ backend # "odbc"
        /\ backend' = backend /\ files' = files /\ at' = at
        /\ \/ To(p, "acquire") \/ To(p, "keys")
           \/ proc' = [proc EXCEPT ![p].pc = "keys", ![p].txn = TRUE]
    BY Zenon DEF CheckPostgres
  <1>2. Placed(backend, proc[p]) /\ proc[p].file \in DOMAIN files
    BY <1>1, Facts, Zenon DEF Connected
  <1>3. Creates(p)
    BY <1>1, <1>2, Zenon DEF Placed, Creates, Op
  <1>4. CASE To(p, "acquire") \/ To(p, "keys")
    BY <1>1, <1>3, <1>4, GoOn, Zenon
  <1>5. CASE proc' = [proc EXCEPT ![p].pc = "keys", ![p].txn = TRUE]
    <2> DEFINE k == [proc[p] EXCEPT !.pc = "keys", !.txn = TRUE]
    <2>1. proc = [q \in Procs |-> proc[q]] /\ IsProc(proc[p])
      BY Facts, Zenon
    <2>2. /\ proc' = [proc EXCEPT ![p] = k]
          /\ IsProc(k) /\ k.pc = "keys" /\ k.call = proc[p].call /\ k.file = proc[p].file
          /\ k.stale = proc[p].stale
      BY <1>5, <2>1, Zenon DEF IsProc
    <2> HIDE DEF k
    <2>3. k.call \in Calls /\ (k.call.op = "migrate" => backend = "sqlite") /\ k.file # 0
      BY <1>1, <1>2, <2>2, Zenon DEF Placed, Connected
    <2>4. Placed(backend, k)
      BY <1>1, <1>3, <2>2, <2>3, Arrives, Zenon DEF Creates, Op
    <2> QED
      BY <1>1, <1>2, <2>2, <2>4, PlainKeeps, Zenon
  <1> QED
    BY <1>1, <1>4, <1>5

LEMMA AcquireOK ==
    ASSUME SInv, NEW p \in Procs, Acquire(p)
    PROVE  SInv'
  <1>1. /\ proc[p].pc = "acquire" /\ backend' = backend /\ files' = files /\ at' = at
        /\ To(p, "config") \/ Fail(p)
    BY Zenon DEF Acquire
  <1> QED
    BY <1>1, GoOn, FailKeeps, Zenon

\* What a connected call has, wherever it is.
LEMMA ConnectedFacts ==
    ASSUME SInv, NEW p \in Procs, proc[p].pc \in Connected
    PROVE  /\ proc = [q \in Procs |-> proc[q]] /\ IsProc(proc[p]) /\ Placed(backend, proc[p])
           /\ proc[p].file \in DOMAIN files /\ proc[p].file # 0
           /\ proc[p].call \in Calls /\ (Op(p) = "migrate" => backend = "sqlite")
           /\ IsFile(File(p)) /\ FileOK(backend, File(p)) /\ On(backend, proc[p], File(p))
  <1>1. /\ proc = [q \in Procs |-> proc[q]] /\ IsProc(proc[p]) /\ Placed(backend, proc[p])
        /\ proc[p].file \in DOMAIN files
    BY Facts, Zenon
  <1>2. proc[p].pc \notin {"free", "done"}
    BY Zenon DEF Connected, Migrating, Upgrading, Provides, Holds
  <1>3. /\ proc[p].file # 0
        /\ proc[p].call \in Calls /\ (Op(p) = "migrate" => backend = "sqlite")
    BY <1>1, <1>2, Zenon DEF Placed, Op
  <1>4. IsFile(File(p)) /\ FileOK(backend, File(p)) /\ On(backend, proc[p], File(p))
    BY <1>1, <1>3, Zenon DEF SInv, FilesOK, ProcsOn, File
  <1> QED
    BY <1>1, <1>3, <1>4

LEMMA StartDropKeeps ==
    ASSUME SInv, NEW p \in Procs, proc[p].pc = "check", backend = "odbc", HasConfig(File(p)),
           proc' = [proc EXCEPT ![p].pc = "drop", ![p].todo = DropOrder],
           backend' = backend, files' = files, at' = at
    PROVE  SInv'
  <1> DEFINE k == [proc[p] EXCEPT !.pc = "drop", !.todo = DropOrder]
  <1>1. /\ proc = [q \in Procs |-> proc[q]] /\ IsProc(proc[p]) /\ Placed(backend, proc[p])
        /\ proc[p].file \in DOMAIN files /\ proc[p].file # 0
        /\ proc[p].call \in Calls /\ (Op(p) = "migrate" => backend = "sqlite")
    BY ConnectedFacts, Zenon DEF Connected
  <1>2. /\ proc' = [proc EXCEPT ![p] = k]
        /\ IsProc(k) /\ k.pc = "drop" /\ k.call = proc[p].call /\ k.file = proc[p].file
        /\ k.stale = proc[p].stale /\ k.txn = proc[p].txn /\ k.todo = DropOrder
    BY <1>1, Zenon DEF IsProc
  <1> HIDE DEF k
  <1>3. ~k.txn /\ k.call.op \in {"provision", "copy", "remove"}
    BY <1>1, <1>2, Zenon DEF Placed
  <1>4. Placed(backend, k)
    BY <1>1, <1>2, <1>3, Zenon DEF Placed, Provides, Migrating, Upgrading, Holds, OdbcOnly, Apiece, DropRests, Op
  <1>5. DropOrder # <<"config">>
    <2>1. Len(DropOrder) = 4 /\ Len(<<"config">>) = 1
      BY DEF DropOrder
    <2> QED
      BY <2>1
  <1>6. On(backend, k, File(p))
    BY <1>2, <1>5, Zenon DEF On, OnCurrent, Migrating, Upgrading, Holds
  <1>7. \A q \in Procs : Apart(k, proc[q], File(p)) /\ Apart(proc[q], k, File(p))
    BY <1>2, Zenon DEF Apart, Migrating, Upgrading
  <1>8. files[k.file] = File(p) /\ k.file \in DOMAIN files /\ at' \in DOMAIN files \cup {0} /\ at' # 0
    BY <1>1, <1>2, Zenon DEF SInv, FilesOK, File
  <1>9. Moves(p, k)
    BY <1>2, <1>4, <1>6, <1>7, <1>8, Zenon DEF Moves
  <1> QED
    BY <1>9, MovesKeeps, Zenon

LEMMA CheckOdbcOK ==
    ASSUME SInv, NEW p \in Procs, CheckOdbc(p) \/ RemoveOdbc(p)
    PROVE  SInv'
  <1>1. /\ backend = "odbc" /\ proc[p].pc = "check" /\ backend' = backend /\ files' = files /\ at' = at
        /\ CheckOdbc(p) => Creates(p)
    BY Zenon DEF CheckOdbc, RemoveOdbc
  <1>2. \/ HasConfig(File(p)) /\ proc' = [proc EXCEPT ![p].pc = "drop", ![p].todo = DropOrder]
        \/ Done(p)
        \/ To(p, "keys") /\ Creates(p)
        \/ To(p, "config")
    <2>1. CASE CheckOdbc(p)
      BY <1>1, <2>1, Zenon DEF CheckOdbc, To
    <2>2. CASE RemoveOdbc(p)
      BY <2>2, Zenon DEF RemoveOdbc
    <2> QED
      BY <2>1, <2>2
  <1>3. CASE HasConfig(File(p)) /\ proc' = [proc EXCEPT ![p].pc = "drop", ![p].todo = DropOrder]
    BY <1>1, <1>3, StartDropKeeps, Zenon
  <1>4. CASE Done(p)
    <2>1. at' \in DOMAIN files \cup {0} /\ (backend = "odbc" => at' # 0)
      BY <1>1, Zenon DEF SInv, FilesOK
    <2> QED
      BY <1>1, <1>4, <2>1, DoneKeeps, Zenon
  <1>5. CASE (To(p, "keys") /\ Creates(p)) \/ To(p, "config")
    BY <1>1, <1>5, GoOn, Zenon
  <1> QED
    BY <1>2, <1>3, <1>4, <1>5

\* What a call writes to its file, with the mark of a stale one.
LEMMA PutFields ==
    ASSUME NEW h, IsFile(h), NEW s \in BOOLEAN
    PROVE  LET g == [h EXCEPT !.mixed = h.mixed \/ s] IN
           /\ IsFile(g) /\ g.mixed = (h.mixed \/ s)
           /\ g.tables = h.tables /\ g.config = h.config /\ g.profs = h.profs /\ g.items = h.items
           /\ g.old = h.old /\ g.wallet = h.wallet /\ g.by = h.by
  <1> DEFINE m == h.mixed \/ s
             g == [h EXCEPT !.mixed = m]
  <1>1. m \in BOOLEAN
    BY DEF IsFile
  <1> HIDE DEF m
  <1>2. /\ IsFile(g) /\ g.mixed = m
        /\ g.tables = h.tables /\ g.config = h.config /\ g.profs = h.profs /\ g.items = h.items
        /\ g.old = h.old /\ g.wallet = h.wallet /\ g.by = h.by
    BY <1>1, Zenon DEF IsFile
  <1> QED
    BY <1>2, Zenon DEF m

LEMMA PutGives ==
    ASSUME SInv, NEW p \in Procs, NEW h, Put(p, h), IsFile(h), proc[p].stale \in BOOLEAN
    PROVE  \E g : /\ files' = [files EXCEPT ![proc[p].file] = g]
                  /\ IsFile(g) /\ g.mixed = (h.mixed \/ proc[p].stale)
                  /\ g.tables = h.tables /\ g.config = h.config /\ g.profs = h.profs /\ g.items = h.items
                  /\ g.old = h.old /\ g.wallet = h.wallet /\ g.by = h.by
  <1> DEFINE g == [h EXCEPT !.mixed = h.mixed \/ proc[p].stale]
  <1>1. files' = [files EXCEPT ![proc[p].file] = g]
    BY Zenon DEF Put
  <1>2. /\ IsFile(g) /\ g.mixed = (h.mixed \/ proc[p].stale)
        /\ g.tables = h.tables /\ g.config = h.config /\ g.profs = h.profs /\ g.items = h.items
        /\ g.old = h.old /\ g.wallet = h.wallet /\ g.by = h.by
    BY PutFields, Zenon
  <1> HIDE DEF g
  <1> QED
    BY <1>1, <1>2, Zenon
----------------------------------------------------------------------------
(***************************************************************************)
(* ODBC, whose statements commit one by one.                               *)
(***************************************************************************)
LEMMA DropRest ==
    ASSUME NEW s \in DropRests
    PROVE  /\ Len(s) > 1 => /\ Tail(s) \in DropRests /\ Head(s) # "config"
                            /\ Tail(s) = <<"config">> => Head(s) = "profiles"
           /\ ~(Len(s) > 1) => s = <<"config">> /\ Head(s) = "config"
  <1>1. CASE s = DropOrder
    BY <1>1 DEF DropOrder, DropRests
  <1>2. CASE s = <<"items", "profiles", "config">>
    BY <1>2 DEF DropRests
  <1>3. CASE s = <<"profiles", "config">>
    BY <1>3 DEF DropRests
  <1>4. CASE s = <<"config">>
    BY <1>4 DEF DropRests
  <1> QED
    BY <1>1, <1>2, <1>3, <1>4, Zenon DEF DropRests

LEMMA TableRest ==
    ASSUME NEW s \in TableRests
    PROVE  /\ Len(s) > 1 => Tail(s) \in TableRests
           /\ Head(s) = "config" <=> s = Tables
  <1>1. CASE s = Tables
    BY <1>1 DEF Tables, TableRests
  <1>2. CASE s = <<"profiles", "items", "items_tags">>
    BY <1>2 DEF TableRests, Tables
  <1>3. CASE s = <<"items", "items_tags">>
    BY <1>3 DEF TableRests, Tables
  <1>4. CASE s = <<"items_tags">>
    BY <1>4 DEF TableRests, Tables
  <1> QED
    BY <1>1, <1>2, <1>3, <1>4, Zenon DEF TableRests

LEMMA DroppedOK ==
    ASSUME NEW f, IsFile(f), FileOK("odbc", f), NEW t, NEW g, IsFile(g),
           ~g.mixed => ~f.mixed,
           ~g.mixed /\ t = "config" => "profiles" \notin f.tables,
           g.tables = Dropped(f, t).tables, g.config = Dropped(f, t).config, g.profs = Dropped(f, t).profs,
           g.items = Dropped(f, t).items, g.old = Dropped(f, t).old, g.wallet = Dropped(f, t).wallet,
           g.by = Dropped(f, t).by
    PROVE  FileOK("odbc", g)
  <1>1. /\ g.tables = f.tables \ {t} /\ g.config = (IF t = "config" THEN NoConfig ELSE f.config)
        /\ g.profs = (IF t = "profiles" THEN {} ELSE f.profs)
        /\ g.old = f.old /\ g.wallet = f.wallet
        /\ g.by = (IF t = "config" THEN None ELSE f.by)
    BY Zenon DEF Dropped, IsFile
  <1>2. "odbc" # "sqlite" /\ NoConfig.version # "1"
    BY DEF NoConfig, None
  <1>3. g.wallet = {}
    BY <1>1, <1>2, Zenon DEF FileOK
  <1>4. g.config.version = "1" => t # "config" /\ g.config = f.config /\ g.by = f.by
    BY <1>1, <1>2, Zenon
  <1>5. g.profs # {} => t # "profiles" /\ g.profs = f.profs
    BY <1>1, Zenon
  <1>6. g.old = {}
    BY <1>1, <1>2, Zenon DEF FileOK
  <1>7. ~HasConfig(g) => g.config = NoConfig
    BY <1>1, Zenon DEF FileOK, HasConfig
  <1>8. ASSUME ~g.mixed
        PROVE  /\ \A q, r \in g.profs : q.wrap = r.wrap /\ (q.name = r.name => q = r)
               /\ \A r \in g.profs : r = ProfileRow(r.id, r.name, r.wrap, r.key)
               /\ g.profs # {} => g.config.version = "1" /\ "profiles" \in g.tables
               /\ g.config.version = "1" /\ g.by # Absent /\ g.profs # {} => OpensAgain(g)
    <2>1. /\ \A q, r \in g.profs : q.wrap = r.wrap /\ (q.name = r.name => q = r)
          /\ \A r \in g.profs : r = ProfileRow(r.id, r.name, r.wrap, r.key)
      BY <1>5, <1>8, Zenon DEF FileOK
    <2>2. g.profs # {} => t # "config" /\ g.config.version = "1" /\ "profiles" \in g.tables
      BY <1>1, <1>5, <1>8, Zenon DEF FileOK
    <2>3. g.config.version = "1" /\ g.by # Absent /\ g.profs # {} => OpensAgain(f)
      BY <1>4, <1>5, <1>8, Zenon DEF FileOK
    <2>4. g.config.version = "1" /\ g.by # Absent /\ g.profs # {} => OpensAgain(g)
      BY <1>4, <1>5, <2>3, Zenon DEF OpensAgain
    <2> QED
      BY <2>1, <2>2, <2>4
  <1> QED
    BY <1>2, <1>3, <1>6, <1>7, <1>8, Zenon DEF FileOK

LEMMA DropTableOK ==
    ASSUME SInv, NEW p \in Procs, DropTable(p)
    PROVE  SInv'
  <1> DEFINE t == Head(proc[p].todo)
             rest == Tail(proc[p].todo)
             pc == CASE Len(proc[p].todo) > 1 -> "drop" [] Op(p) = "remove" -> "done" [] OTHER -> "keys"
             k == [proc[p] EXCEPT !.todo = rest, !.pc = pc]
             f == File(p)
             h == Dropped(f, t)
  <1>1. /\ proc[p].pc = "drop" /\ backend' = backend /\ at' = at
        /\ \/ Fail(p) /\ files' = files
           \/ /\ Put(p, h)
              /\ proc' = [Outdated(p) EXCEPT ![p].todo = rest, ![p].pc = pc]
    <2>1. Outdated(p)[p] = proc[p]
      BY Zenon DEF Outdated
    <2> QED
      BY <2>1, Zenon DEF DropTable
  <1>2. /\ proc = [q \in Procs |-> proc[q]] /\ IsProc(proc[p]) /\ Placed(backend, proc[p])
        /\ proc[p].file \in DOMAIN files /\ proc[p].file # 0
        /\ proc[p].call \in Calls
        /\ IsFile(f) /\ FileOK(backend, f) /\ On(backend, proc[p], f)
    BY <1>1, ConnectedFacts, Zenon DEF Connected
  <1>3. CASE Fail(p) /\ files' = files
    BY <1>1, <1>3, FailKeeps, Zenon
  <1>4. CASE Put(p, h) /\ proc' = [Outdated(p) EXCEPT ![p].todo = rest, ![p].pc = pc]
    <2>1. /\ backend = "odbc" /\ proc[p].todo \in DropRests /\ ~proc[p].txn
          /\ proc[p].call.op \in {"provision", "copy", "remove"}
      BY <1>1, <1>2, Zenon DEF Placed, OdbcOnly
    <2>2. /\ Len(proc[p].todo) > 1 => /\ rest \in DropRests /\ t # "config"
                                      /\ rest = <<"config">> => t = "profiles"
          /\ ~(Len(proc[p].todo) > 1) => proc[p].todo = <<"config">> /\ t = "config"
      BY <2>1, DropRest, Zenon
    <2>3. /\ pc \in {"drop", "done", "keys"}
          /\ pc = "drop" => Len(proc[p].todo) > 1
          /\ pc = "keys" => proc[p].call.op \in {"provision", "copy"}
      BY <2>1, Zenon DEF Op
    <2>4. proc' = [Outdated(p) EXCEPT ![p] = k]
      <3>1. Outdated(p)[p] = proc[p] /\ Outdated(p) = [q \in Procs |-> Outdated(p)[q]]
        BY Zenon DEF Outdated
      <3> HIDE DEF t, rest, pc
      <3> QED
        BY <1>4, <3>1, Zenon
    <2> HIDE DEF t, rest, pc
    <2>5. /\ IsProc(k) /\ k.pc = pc /\ k.todo = rest /\ k.call = proc[p].call /\ k.file = proc[p].file
          /\ k.stale = proc[p].stale /\ k.txn = proc[p].txn
      BY <1>2, Zenon DEF IsProc
    <2> HIDE DEF k
    <2>6. Placed(backend, k)
      <3>1. k.file # 0 /\ ~k.txn /\ k.call \in Calls /\ k.call.op # "migrate" /\ backend # "sqlite"
        BY <1>2, <2>1, <2>5, Zenon
      <3>2. CASE pc = "drop"
        BY <2>1, <2>2, <2>3, <2>5, <3>1, <3>2, Zenon
           DEF Placed, Provides, Migrating, Upgrading, Holds, OdbcOnly, Apiece
      <3>3. CASE pc = "keys"
        BY <2>3, <2>5, <3>1, <3>3, Arrives, Zenon
      <3>4. CASE pc = "done"
        BY <2>5, <3>1, <3>4, Zenon DEF Placed, Provides, Migrating, Upgrading, Holds, OdbcOnly, Apiece, Connected
      <3> QED
        BY <2>3, <3>2, <3>3, <3>4
    <2>7. IsFile(h) /\ h.mixed = f.mixed /\ h.tables = f.tables \ {t}
      BY <1>2, Zenon DEF IsFile, Dropped, NoConfig
    <2>8. proc[p].stale \in BOOLEAN
      BY <1>2, Zenon DEF IsProc
    <2>9. PICK g : /\ files' = [files EXCEPT ![proc[p].file] = g]
                   /\ IsFile(g) /\ g.mixed = (h.mixed \/ proc[p].stale)
                   /\ g.tables = h.tables /\ g.config = h.config /\ g.profs = h.profs /\ g.items = h.items
                   /\ g.old = h.old /\ g.wallet = h.wallet /\ g.by = h.by
      BY <1>4, <2>7, <2>8, PutGives, Zenon
    <2>10. ~g.mixed => ~f.mixed /\ ~proc[p].stale
      BY <2>7, <2>9, Zenon
    <2>11. ~g.mixed => OnCurrent(proc[p], f)
      BY <1>2, <2>10, Zenon DEF On
    <2>12. ~g.mixed => HasConfig(f) /\ (t = "config" => "profiles" \notin f.tables)
      BY <1>1, <2>2, <2>11, Zenon DEF OnCurrent
    <2>13. FileOK("odbc", f)
      BY <1>2, <2>1, Zenon
    <2> HIDE DEF f
    <2>14. FileOK("odbc", g)
      BY <1>2, <2>9, <2>10, <2>12, <2>13, DroppedOK, Zenon
    <2>15. On(backend, k, g)
      <3>1. CASE pc = "drop"
        <4>1. ~g.mixed => HasConfig(g) /\ (k.todo = <<"config">> => "profiles" \notin g.tables)
          BY <2>2, <2>3, <2>5, <2>7, <2>9, <2>12, <3>1, Zenon DEF HasConfig
        <4> QED
          BY <2>1, <2>5, <3>1, <4>1, Zenon DEF On, OnCurrent, Migrating, Upgrading, Holds
      <3>2. CASE pc # "drop"
        BY <2>1, <2>3, <2>5, <3>2, PlainOn, Zenon
      <3> QED
        BY <3>1, <3>2
    <2>16. Replaces(p, k, g)
      BY <1>1, <1>2, <2>1, <2>4, <2>5, <2>6, <2>9, <2>14, <2>15, Zenon DEF Replaces
    <2> QED
      BY <2>16, ReplacesKeeps, Zenon
  <1> QED
    BY <1>1, <1>3, <1>4, ZenonT(60)

LEMMA InitKeysOK ==
    ASSUME NEW c \in Calls, c.op \in {"provision", "copy"}, NEW k \in InitKeys(c), c.pass # Absent
    PROVE  k.skey \in ResolveRef(k.ref, c.pass)
  <1>1. PICK j \in Resolve(c.method, c.pass, fresh + 1) : k = [skey |-> j.skey, ref |-> j.ref, pkey |-> fresh + 1]
    BY Zenon DEF InitKeys
  <1>2. k.skey = j.skey /\ k.ref = j.ref
    BY <1>1, Zenon
  <1>3. c.method \in {"kdf", "raw", "none"}
    BY StoresAssumption, Zenon
  <1>4. CASE c.method = "kdf"
    <2>1. j = [skey |-> <<"kdf", c.pass, fresh + 1>>, ref |-> <<"kdf", fresh + 1>>]
      BY <1>1, <1>4, Zenon DEF Resolve
    <2>2. j.skey = <<"kdf", c.pass, j.ref[2]>> /\ j.ref[1] = "kdf"
      BY <2>1
    <2>3. ResolveRef(j.ref, c.pass) = {<<"kdf", c.pass, j.ref[2]>>}
      BY <2>2, Zenon DEF ResolveRef
    <2> QED
      BY <1>2, <2>2, <2>3, Zenon
  <1>5. CASE c.method = "raw"
    <2>1. j = [skey |-> <<"raw", c.pass>>, ref |-> <<"raw">>]
      BY <1>1, <1>5, Zenon DEF Resolve
    <2>2. j.skey = <<"raw", c.pass>> /\ j.ref[1] = "raw"
      BY <2>1
    <2>3. ResolveRef(j.ref, c.pass) = {<<"raw", c.pass>>}
      BY <2>2, Zenon DEF ResolveRef
    <2> QED
      BY <1>2, <2>2, <2>3, Zenon
  <1>6. CASE c.method = "none"
    <2>1. j = [skey |-> <<>>, ref |-> <<"none">>]
      BY <1>1, <1>6, Zenon DEF Resolve
    <2>2. j.skey = <<>> /\ j.ref[1] = "none"
      BY <2>1
    <2>3. ResolveRef(j.ref, c.pass) = {<<>>}
      BY <2>2, ZenonT(60) DEF ResolveRef
    <2> QED
      BY <1>2, <2>2, <2>3, Zenon
  <1> QED
    BY <1>3, <1>4, <1>5, <1>6

LEMMA KeysStep ==
    ASSUME SInv, NEW p \in Procs, Keys(p)
    PROVE  SInv'
  <1>1. /\ proc[p].pc = "keys" /\ backend' = backend /\ files' = files /\ at' = at
        /\ \/ Fail(p)
           \/ \E m \in InitKeys(proc[p].call) :
                proc' = [proc EXCEPT ![p].keys = m, ![p].todo = Tables,
                                     ![p].pc = IF backend = "odbc" THEN "schema" ELSE "init"]
    BY Zenon DEF Keys
  <1>2. /\ proc = [q \in Procs |-> proc[q]] /\ IsProc(proc[p]) /\ Placed(backend, proc[p])
        /\ proc[p].file \in DOMAIN files /\ proc[p].file # 0
        /\ proc[p].call \in Calls /\ On(backend, proc[p], File(p))
    BY <1>1, ConnectedFacts, Zenon DEF Connected
  <1>3. CASE Fail(p)
    BY <1>1, <1>3, FailKeeps, Zenon
  <1>4. ASSUME NEW m \in InitKeys(proc[p].call),
               proc' = [proc EXCEPT ![p].keys = m, ![p].todo = Tables,
                                    ![p].pc = IF backend = "odbc" THEN "schema" ELSE "init"]
        PROVE  SInv'
    <2> DEFINE pc == IF backend = "odbc" THEN "schema" ELSE "init"
               k == [proc[p] EXCEPT !.keys = m, !.todo = Tables, !.pc = pc]
    <2>1. /\ pc \in {"schema", "init"} /\ (pc = "schema" <=> backend = "odbc")
          /\ proc' = [proc EXCEPT ![p].keys = m, ![p].todo = Tables, ![p].pc = pc]
      BY <1>4, Zenon
    <2> HIDE DEF pc
    <2>2. /\ proc' = [proc EXCEPT ![p] = k]
          /\ IsProc(k) /\ k.pc = pc /\ k.call = proc[p].call /\ k.file = proc[p].file
          /\ k.stale = proc[p].stale /\ k.txn = proc[p].txn /\ k.keys = m /\ k.todo = Tables
      BY <1>2, <2>1, Zenon DEF IsProc
    <2> HIDE DEF k
    <2>3. /\ k.call.op \in {"provision", "copy"} /\ (k.txn => backend = "postgres")
          /\ backend = "sqlite" => ~k.stale
      BY <1>1, <1>2, <2>2, Zenon DEF Placed
    <2>4. k.call.pass # Absent => k.keys.skey \in ResolveRef(k.keys.ref, k.call.pass)
      BY <1>2, <2>2, <2>3, InitKeysOK, Zenon
    <2>5. k.file # 0 /\ k.call \in Calls /\ k.call.op # "migrate" /\ k.todo \in TableRests
      BY <1>2, <2>2, <2>3, Zenon DEF TableRests
    <2>6. Placed(backend, k)
      <3>1. CASE pc = "schema"
        <4>1. backend = "odbc" /\ ~k.txn /\ backend # "sqlite"
          BY <2>1, <2>3, <3>1, Zenon
        <4> QED
          BY <2>2, <2>3, <2>4, <2>5, <3>1, <4>1, Zenon
             DEF Placed, Provides, Migrating, Upgrading, Holds, OdbcOnly, Apiece, Connected
      <3>2. CASE pc = "init"
        BY <2>1, <2>2, <2>3, <2>4, <2>5, <3>2, Zenon
           DEF Placed, Provides, Migrating, Upgrading, Holds, OdbcOnly, Apiece, Connected
      <3> QED
        BY <2>1, <3>1, <3>2
    <2>7. files[k.file] = File(p) /\ k.file \in DOMAIN files
          /\ at' \in DOMAIN files \cup {0} /\ (backend = "odbc" => at' # 0)
      BY <1>1, <1>2, <2>2, Zenon DEF SInv, FilesOK, File
    <2>8. On(backend, k, File(p))
      <3>1. k.stale /\ backend # "odbc" => File(p).tables # {}
        BY <1>2, <2>2, Zenon DEF On
      <3> QED
        BY <2>1, <2>2, <3>1, PlainOn, Zenon
    <2>9. \A q \in Procs : Apart(k, proc[q], File(p)) /\ Apart(proc[q], k, File(p))
      BY <2>1, <2>2, Zenon DEF Apart, Migrating, Upgrading
    <2>10. Moves(p, k)
      BY <1>1, <2>2, <2>6, <2>7, <2>8, <2>9, Zenon DEF Moves
    <2> QED
      BY <2>10, MovesKeeps, Zenon
  <1> QED
    BY <1>1, <1>3, <1>4, ZenonT(60)

\* What a call knows stays true when its file grows.
LEMMA OnGrows ==
    ASSUME NEW b, NEW j, NEW f, NEW g, On(b, j, f), f.mixed => g.mixed,
           f.tables \subseteq g.tables, g.config = f.config, f.profs \subseteq g.profs,
           f.items \subseteq g.items, g.old = f.old, g.by = f.by,
           ~j.stale /\ ~g.mixed /\ j.pc = "insert_profile" => g.profs = {},
           ~j.stale /\ ~g.mixed /\ j.pc = "drop" /\ j.todo = <<"config">> => "profiles" \notin g.tables
    PROVE  On(b, j, g)
  <1>1. j.stale /\ b # "odbc" => g.tables # {}
    BY Zenon DEF On
  <1>2. OnMigrating(j, f) => OnMigrating(j, g)
    BY Zenon DEF OnMigrating, HasConfig
  <1>3. ASSUME ~j.stale /\ ~g.mixed
        PROVE  OnCurrent(j, g)
    <2>1. OnCurrent(j, f)
      BY <1>3, Zenon DEF On
    <2> QED
      BY <1>3, <2>1, Zenon DEF OnCurrent, HasConfig
  <1> QED
    BY <1>1, <1>2, <1>3, Zenon DEF On

\* What the others on the file of a call know.
LEMMA OthersFacts ==
    ASSUME SInv, NEW p \in Procs, proc[p].file # 0, NEW q \in Procs \ {p}, proc[q].file = proc[p].file
    PROVE  /\ On(backend, proc[q], File(p)) /\ Placed(backend, proc[q])
           /\ Apart(proc[p], proc[q], File(p)) /\ Apart(proc[q], proc[p], File(p))
  BY Zenon DEF SInv, ProcsOK, ProcsOn, ProcsApart, File

LEMMA CreateTableOK ==
    ASSUME SInv, NEW p \in Procs, CreateTable(p)
    PROVE  SInv'
  <1> DEFINE t == Head(proc[p].todo)
             rest == Tail(proc[p].todo)
             pc == IF Len(proc[p].todo) > 1 THEN "schema" ELSE "insert_config"
             k == [proc[p] EXCEPT !.todo = rest, !.pc = pc]
             f == File(p)
             h == [f EXCEPT !.tables = f.tables \cup {t}]
  <1>1. /\ proc[p].pc = "schema" /\ backend' = backend /\ at' = at
        /\ \/ Fail(p) /\ files' = files
           \/ /\ t \notin f.tables /\ Put(p, h)
              /\ proc' = [proc EXCEPT ![p].todo = rest, ![p].pc = pc]
    BY Zenon DEF CreateTable
  <1>2. /\ proc = [q \in Procs |-> proc[q]] /\ IsProc(proc[p]) /\ Placed(backend, proc[p])
        /\ proc[p].file \in DOMAIN files /\ proc[p].file # 0
        /\ proc[p].call \in Calls
        /\ IsFile(f) /\ FileOK(backend, f) /\ On(backend, proc[p], f)
    BY <1>1, ConnectedFacts, Zenon DEF Connected, Provides
  <1>3. CASE Fail(p) /\ files' = files
    BY <1>1, <1>3, FailKeeps, Zenon
  <1>4. CASE /\ t \notin f.tables /\ Put(p, h)
             /\ proc' = [proc EXCEPT ![p].todo = rest, ![p].pc = pc]
    <2>1. /\ backend = "odbc" /\ proc[p].todo \in TableRests /\ ~proc[p].txn
          /\ proc[p].call.op \in {"provision", "copy"}
          /\ proc[p].call.pass # Absent => proc[p].keys.skey \in ResolveRef(proc[p].keys.ref, proc[p].call.pass)
      BY <1>1, <1>2, Zenon DEF Placed, OdbcOnly, Provides
    <2>2. (pc = "schema" => rest \in TableRests) /\ (t = "config" <=> proc[p].todo = Tables)
          /\ pc \in {"schema", "insert_config"}
      BY <2>1, TableRest, Zenon
    <2>3. /\ proc' = [proc EXCEPT ![p] = k]
          /\ IsProc(k) /\ k.pc = pc /\ k.todo = rest /\ k.call = proc[p].call /\ k.file = proc[p].file
          /\ k.stale = proc[p].stale /\ k.txn = proc[p].txn /\ k.keys = proc[p].keys
      <3> HIDE DEF t, rest, pc
      <3> QED
        BY <1>2, <1>4, Zenon DEF IsProc
    <2>4. IsFile(h) /\ h.mixed = f.mixed /\ h.tables = f.tables \cup {t} /\ h.config = f.config
          /\ h.profs = f.profs /\ h.items = f.items /\ h.old = f.old /\ h.wallet = f.wallet /\ h.by = f.by
      <3> HIDE DEF t, f
      <3> QED
        BY <1>2, Zenon DEF IsFile
    <2>5. proc[p].stale \in BOOLEAN
      BY <1>2, Zenon DEF IsProc
    <2> HIDE DEF t, rest, pc, k
    <2>6. PICK g : /\ files' = [files EXCEPT ![proc[p].file] = g]
                   /\ IsFile(g) /\ g.mixed = (h.mixed \/ proc[p].stale)
                   /\ g.tables = h.tables /\ g.config = h.config /\ g.profs = h.profs /\ g.items = h.items
                   /\ g.old = h.old /\ g.wallet = h.wallet /\ g.by = h.by
      BY <1>4, <2>4, <2>5, PutGives, ZenonT(60)
    <2> HIDE DEF h
    <2>7. /\ g.tables = f.tables \cup {t} /\ g.config = f.config /\ g.profs = f.profs /\ g.items = f.items
          /\ g.old = f.old /\ g.wallet = f.wallet /\ g.by = f.by
          /\ ~g.mixed => ~f.mixed /\ ~proc[p].stale
      BY <2>4, <2>6, Zenon
    <2>8. FileOK(backend, g)
      <3>1. backend # "sqlite" /\ FileOK("odbc", f) /\ (~HasConfig(g) => ~HasConfig(f))
        BY <1>2, <2>1, <2>7, Zenon DEF HasConfig
      <3>2. g.wallet = {}
        BY <2>7, <3>1, Zenon DEF FileOK
      <3>3. OpensAgain(f) => OpensAgain(g)
        BY <2>7, Zenon DEF OpensAgain
      <3> HIDE DEF f
      <3> QED
        BY <2>1, <2>7, <3>1, <3>2, <3>3, Zenon DEF FileOK
    <2>9. Placed(backend, k)
      <3>1. /\ k.file # 0 /\ k.call \in Calls /\ k.call.op # "migrate" /\ backend # "sqlite" /\ ~k.txn
            /\ k.call.pass # Absent => k.keys.skey \in ResolveRef(k.keys.ref, k.call.pass)
            /\ k.call.op \in {"provision", "copy"}
        BY <1>2, <2>1, <2>3, Zenon
      <3>2. CASE pc = "schema"
        BY <2>1, <2>2, <2>3, <3>1, <3>2, Zenon
           DEF Placed, Provides, Migrating, Upgrading, Holds, OdbcOnly, Apiece, Connected
      <3>3. CASE pc = "insert_config"
        BY <2>1, <2>3, <3>1, <3>3, Zenon
           DEF Placed, Provides, Migrating, Upgrading, Holds, OdbcOnly, Apiece, Connected
      <3> QED
        BY <2>2, <3>2, <3>3
    <2>10. On(backend, k, g)
      BY <2>1, <2>2, <2>3, PlainOn, Zenon
    <2>11. ASSUME NEW q \in Procs \ {p}, proc[q].file = proc[p].file
           PROVE  On(backend, proc[q], g) /\ Apart(k, proc[q], g) /\ Apart(proc[q], k, g)
      <3>1. On(backend, proc[q], f) /\ Apart(proc[p], proc[q], f) /\ Apart(proc[q], proc[p], f)
        BY <1>2, <2>11, OthersFacts, Zenon
      <3>2. ASSUME ~proc[q].stale, ~g.mixed, proc[q].pc = "drop"
            PROVE  proc[q].todo = DropOrder
        <4>1. OnCurrent(proc[q], f)
          BY <2>7, <3>1, <3>2, Zenon DEF On
        <4>2. "config" \in f.tables
          BY <3>2, <4>1, Zenon DEF OnCurrent, HasConfig
        <4>3. proc[p].todo # Tables
          BY <1>4, <2>2, <4>2, Zenon
        <4> QED
          BY <1>1, <2>7, <3>1, <3>2, <4>3, Zenon DEF Apart
      <3>3. DropOrder # <<"config">>
        <4>1. Len(DropOrder) = 4 /\ Len(<<"config">>) = 1
          BY DEF DropOrder
        <4> QED
          BY <4>1
      <3>4. ~proc[q].stale /\ ~g.mixed /\ proc[q].pc = "insert_profile" => g.profs = {}
        <4>1. ~proc[q].stale /\ ~g.mixed => OnCurrent(proc[q], f)
          BY <2>7, <3>1, Zenon DEF On
        <4> QED
          BY <2>7, <4>1, Zenon DEF OnCurrent
      <3>5. f.tables \subseteq g.tables /\ f.profs \subseteq g.profs /\ f.items \subseteq g.items
            /\ (f.mixed => g.mixed)
        BY <2>7, Zenon
      <3> HIDE DEF f
      <3>6. On(backend, proc[q], g)
        BY <2>7, <3>1, <3>2, <3>3, <3>4, <3>5, OnGrows, Zenon
      <3>7. Apart(k, proc[q], g) /\ Apart(proc[q], k, g)
        BY <2>2, <2>3, <3>2, Zenon DEF Apart, Migrating, Upgrading
      <3> QED
        BY <3>6, <3>7
    <2>12. Writes(p, k, proc[p].file, g)
      <3>1. (files[proc[p].file].mixed => g.mixed) /\ k.file \in {proc[p].file, 0}
        BY <2>3, <2>7, Zenon DEF File
      <3> QED
        BY <1>1, <1>2, <2>3, <2>6, <2>8, <2>9, <2>10, <2>11, <3>1, Zenon DEF Writes
    <2> QED
      BY <2>12, WritesKeeps, Zenon
  <1> QED
    BY <1>1, <1>3, <1>4, ZenonT(60)

LEMMA InsertConfigOK ==
    ASSUME SInv, NEW p \in Procs, InsertConfig(p)
    PROVE  SInv'
  <1> DEFINE c == [profile |-> proc[p].call.profile, key |-> proc[p].keys.ref, version |-> "1"]
             k == [proc[p] EXCEPT !.pc = "insert_profile"]
             f == File(p)
             h == [f EXCEPT !.config = c, !.by = proc[p].call.pass]
  <1>1. /\ proc[p].pc = "insert_config" /\ backend' = backend /\ at' = at
        /\ \/ Fail(p) /\ files' = files
           \/ /\ HasConfig(f) /\ f.config = NoConfig /\ Put(p, h)
              /\ proc' = [proc EXCEPT ![p].pc = "insert_profile"]
    BY Zenon DEF InsertConfig, To
  <1>2. /\ proc = [q \in Procs |-> proc[q]] /\ IsProc(proc[p]) /\ Placed(backend, proc[p])
        /\ proc[p].file \in DOMAIN files /\ proc[p].file # 0
        /\ proc[p].call \in Calls
        /\ IsFile(f) /\ FileOK(backend, f) /\ On(backend, proc[p], f)
    BY <1>1, ConnectedFacts, Zenon DEF Connected, Provides
  <1>3. CASE Fail(p) /\ files' = files
    BY <1>1, <1>3, FailKeeps, Zenon
  <1>4. CASE /\ HasConfig(f) /\ f.config = NoConfig /\ Put(p, h)
             /\ proc' = [proc EXCEPT ![p].pc = "insert_profile"]
    <2>1. /\ backend = "odbc" /\ ~proc[p].txn
          /\ proc[p].call.op \in {"provision", "copy"}
          /\ proc[p].call.pass # Absent => proc[p].keys.skey \in ResolveRef(proc[p].keys.ref, proc[p].call.pass)
      BY <1>1, <1>2, Zenon DEF Placed, OdbcOnly, Provides
    <2>2. /\ proc' = [proc EXCEPT ![p] = k]
          /\ IsProc(k) /\ k.pc = "insert_profile" /\ k.call = proc[p].call /\ k.file = proc[p].file
          /\ k.stale = proc[p].stale /\ k.txn = proc[p].txn /\ k.keys = proc[p].keys
      BY <1>2, <1>4, ChangePc, ZenonT(60)
    <2>3. IsFile(h) /\ h.mixed = f.mixed /\ h.tables = f.tables /\ h.config = c
          /\ h.profs = f.profs /\ h.items = f.items /\ h.old = f.old /\ h.wallet = f.wallet
          /\ h.by = proc[p].call.pass
      <3> HIDE DEF f
      <3> QED
        BY <1>2, Zenon DEF IsFile
    <2>4. c.version = "1" /\ NoConfig.version # "1"
      BY DEF NoConfig, None
    <2>5. proc[p].stale \in BOOLEAN
      BY <1>2, Zenon DEF IsProc
    <2> HIDE DEF c, k
    <2>6. PICK g : /\ files' = [files EXCEPT ![proc[p].file] = g]
                   /\ IsFile(g) /\ g.mixed = (h.mixed \/ proc[p].stale)
                   /\ g.tables = h.tables /\ g.config = h.config /\ g.profs = h.profs /\ g.items = h.items
                   /\ g.old = h.old /\ g.wallet = h.wallet /\ g.by = h.by
      BY <1>4, <2>3, <2>5, PutGives, Zenon
    <2> HIDE DEF h
    <2>7. /\ g.tables = f.tables /\ g.config = c /\ g.profs = f.profs /\ g.items = f.items
          /\ g.old = f.old /\ g.wallet = f.wallet /\ g.by = proc[p].call.pass
          /\ ~g.mixed => ~f.mixed /\ ~proc[p].stale
      BY <2>3, <2>6, Zenon
    <2>8. /\ f.config.version # "1" /\ backend # "sqlite"
          /\ f.wallet = {} /\ f.old = {} /\ (~f.mixed => f.profs = {})
      <3>1. f.config.version # "1" /\ backend # "sqlite"
        BY <1>4, <2>1, <2>4, Zenon
      <3> HIDE DEF f
      <3> QED
        BY <1>2, <2>1, <3>1, Zenon DEF FileOK
    <2>9. FileOK(backend, g)
      <3>1. HasConfig(g)
        BY <1>4, <2>7, Zenon DEF HasConfig
      <3> HIDE DEF f
      <3> QED
        BY <2>1, <2>7, <2>8, <3>1, Zenon DEF FileOK
    <2>10. Placed(backend, k)
      <3>1. /\ k.file # 0 /\ k.call \in Calls /\ k.call.op # "migrate" /\ backend # "sqlite" /\ ~k.txn
            /\ k.call.pass # Absent => k.keys.skey \in ResolveRef(k.keys.ref, k.call.pass)
            /\ k.call.op \in {"provision", "copy"}
        BY <1>2, <2>1, <2>2, Zenon
      <3> QED
        BY <2>1, <2>2, <3>1, Zenon
           DEF Placed, Provides, Migrating, Upgrading, Holds, OdbcOnly, Apiece, Connected
    <2>11. On(backend, k, g)
      <3>1. g.config = [profile |-> k.call.profile, key |-> k.keys.ref, version |-> "1"] /\ g.by = k.call.pass
        BY <2>2, <2>7, Zenon DEF c
      <3>2. ~g.mixed => g.profs = {}
        BY <2>7, <2>8, Zenon
      <3> QED
        BY <2>1, <2>2, <3>1, <3>2, Zenon DEF On, OnCurrent, Migrating, Upgrading, Holds
    <2>12. ASSUME NEW q \in Procs \ {p}, proc[q].file = proc[p].file
           PROVE  On(backend, proc[q], g) /\ Apart(k, proc[q], g) /\ Apart(proc[q], k, g)
      <3>1. On(backend, proc[q], f) /\ Placed(backend, proc[q])
        BY <1>2, <2>12, OthersFacts, Zenon
      <3>2. proc[q].pc \notin Migrating
        BY <2>8, <3>1, Zenon DEF Placed
      <3>3. ASSUME ~proc[q].stale, ~g.mixed
            PROVE  OnCurrent(proc[q], g) /\ proc[q].pc # "insert_profile"
        <4>1. OnCurrent(proc[q], f)
          BY <2>7, <3>1, <3>3, Zenon DEF On
        <4>2. proc[q].pc \notin Holds \cup {"profile"}
          BY <2>8, <4>1, Zenon DEF OnCurrent
        <4>3. proc[q].pc # "insert_profile"
          <5>1. proc[q].pc = "insert_profile" =>
                  f.config = [profile |-> proc[q].call.profile, key |-> proc[q].keys.ref, version |-> "1"]
            BY <4>1, Zenon DEF OnCurrent
          <5> HIDE DEF f
          <5> QED
            BY <2>8, <5>1
        <4>4. proc[q].pc = "drop" => HasConfig(g) /\ (proc[q].todo = <<"config">> => "profiles" \notin g.tables)
          BY <2>7, <4>1, Zenon DEF OnCurrent, HasConfig
        <4> QED
          BY <4>2, <4>3, <4>4, Zenon DEF OnCurrent
      <3>4. On(backend, proc[q], g)
        BY <2>1, <2>7, <3>1, <3>2, <3>3, Zenon DEF On
      <3>5. Apart(k, proc[q], g) /\ Apart(proc[q], k, g)
        BY <2>2, <3>2, <3>3, Zenon DEF Apart
      <3> QED
        BY <3>4, <3>5
    <2>13. Writes(p, k, proc[p].file, g)
      <3>1. (files[proc[p].file].mixed => g.mixed) /\ k.file \in {proc[p].file, 0}
        BY <2>2, <2>7, Zenon DEF File
      <3> QED
        BY <1>1, <1>2, <2>2, <2>6, <2>9, <2>10, <2>11, <2>12, <3>1, Zenon DEF Writes
    <2> QED
      BY <2>13, WritesKeeps, Zenon
  <1> QED
    BY <1>1, <1>3, <1>4
----------------------------------------------------------------------------
(***************************************************************************)
(* Calls that come to an instance.                                         *)
(***************************************************************************)
\* The call k that came of j when it had its instance.
Has(k, j, inst) ==
    /\ IsProc(k)
    /\ \/ k = [Free EXCEPT !.pc = "done"] /\ j.call.op = "migrate"
       \/ /\ k.pc \in {"create_profile", "open"} /\ k.inst = inst /\ ~k.txn
          /\ k.call = j.call /\ k.file = j.file /\ k.stale = j.stale

LEMMA OpenedGives ==
    ASSUME NEW ps, NEW p \in Procs, ps = [q \in Procs |-> ps[q]], ps[p] = proc[p], IsProc(proc[p]),
           NEW inst, inst \in [skey : {inst.skey}, name : {inst.name}, ids : {inst.ids}]
    PROVE  \E k : OpenedIn(ps, p, inst) = [ps EXCEPT ![p] = k] /\ Has(k, proc[p], inst)
  <1> DEFINE j == proc[p]
             base == [j EXCEPT !.inst = inst, !.txn = FALSE, !.keys = NoInst, !.first = Empty]
             opened == [ps EXCEPT ![p].inst = inst, ![p].txn = FALSE, ![p].keys = NoInst, ![p].first = Empty]
  <1>1. IsProc(j) /\ opened = [ps EXCEPT ![p] = base]
    BY Zenon DEF IsProc
  <1>2. opened = [q \in Procs |-> opened[q]] /\ opened[p] = base
    BY <1>1, PutProc, Zenon
  <1>3. CASE Op(p) = "copy"
    <2> DEFINE k == [base EXCEPT !.pc = "create_profile", !.todo = Source]
    <2>1. OpenedIn(ps, p, inst) = [opened EXCEPT ![p].pc = "create_profile", ![p].todo = Source]
      BY <1>3, Zenon DEF OpenedIn
    <2>2. OpenedIn(ps, p, inst) = [ps EXCEPT ![p] = k]
      <3> HIDE DEF base
      <3> QED
        BY <1>1, <1>2, <2>1, Zenon
    <2>3. /\ IsProc(k) /\ k.pc = "create_profile" /\ k.inst = inst /\ k.txn = FALSE
          /\ k.call = j.call /\ k.file = j.file /\ k.stale = j.stale
      <3> HIDE DEF j
      <3> QED
        BY <1>1, Zenon DEF IsProc
    <2> HIDE DEF k
    <2> QED
      BY <2>2, <2>3, Zenon DEF Has
  <1>4. CASE Op(p) = "migrate"
    <2>1. OpenedIn(ps, p, inst) = [ps EXCEPT ![p] = [Free EXCEPT !.pc = "done"]]
      BY <1>4, Zenon DEF OpenedIn
    <2> QED
      BY <1>4, <2>1, FreeOK, Zenon DEF Has, Op
  <1>5. CASE Op(p) \notin {"copy", "migrate"}
    <2> DEFINE k == [base EXCEPT !.pc = "open", !.todo = <<>>]
    <2>1. OpenedIn(ps, p, inst) = [opened EXCEPT ![p].pc = "open", ![p].todo = <<>>]
      BY <1>5, Zenon DEF OpenedIn
    <2>2. OpenedIn(ps, p, inst) = [ps EXCEPT ![p] = k]
      <3> HIDE DEF base
      <3> QED
        BY <1>1, <1>2, <2>1, Zenon
    <2>3. /\ IsProc(k) /\ k.pc = "open" /\ k.inst = inst /\ k.txn = FALSE
          /\ k.call = j.call /\ k.file = j.file /\ k.stale = j.stale
      <3> HIDE DEF j
      <3> QED
        BY <1>1, Zenon DEF IsProc
    <2> HIDE DEF k
    <2> QED
      BY <2>2, <2>3, Zenon DEF Has
  <1> QED
    BY <1>3, <1>4, <1>5

LEMMA InstanceFields ==
    ASSUME NEW name, NEW skey, NEW id, NEW key
    PROVE  LET i == Instance(name, skey, id, key) IN
           /\ i \in [skey : {i.skey}, name : {i.name}, ids : {i.ids}]
           /\ i.skey = skey /\ i.name = name /\ i.ids = {<<name, id, key>>}
  BY Zenon DEF Instance

LEMMA Triples ==
    ASSUME NEW x, NEW y, NEW z
    PROVE  <<x, y, z>>[1] = x /\ <<x, y, z>>[2] = y /\ <<x, y, z>>[3] = z
  OBVIOUS

\* The call that came to an instance is in its place and on its file g.
LEMMA HasOK ==
    ASSUME NEW b, NEW j, Placed(b, j), j.pc \notin {"free", "done"}, j.file # 0,
           NEW name, NEW skey, NEW id, NEW key, NEW k, Has(k, j, Instance(name, skey, id, key)),
           NEW g, j.stale /\ b # "odbc" => g.tables # {},
           ~j.stale /\ ~g.mixed => g.config.version = "1" /\ ProfileRow(id, name, skey, key) \in g.profs
    PROVE  /\ IsProc(k) /\ Placed(b, k) /\ k.file \in {j.file, 0}
           /\ k.file = 0 => j.call.op = "migrate"
           /\ k.pc \notin Migrating \cup {"insert_profile", "drop", "schema"}
           /\ k.file # 0 => On(b, k, g)
  <1>1. CASE k = [Free EXCEPT !.pc = "done"] /\ j.call.op = "migrate"
    <2>1. k.pc = "done"
      BY <1>1, Zenon DEF Free
    <2>2. IsProc(k) /\ Placed(b, k) /\ k.file = 0
      BY <1>1, FreeOK, Zenon
    <2> QED
      BY <1>1, <2>1, <2>2, Zenon DEF Migrating, Upgrading
  <1>2. CASE /\ k.pc \in {"create_profile", "open"} /\ k.inst = Instance(name, skey, id, key) /\ ~k.txn
             /\ k.call = j.call /\ k.file = j.file /\ k.stale = j.stale
    <2>1. /\ k.call \in Calls /\ (k.call.op = "migrate" => b = "sqlite") /\ (b = "sqlite" => ~k.stale)
          /\ k.file # 0
      BY <1>2, Zenon DEF Placed
    <2>2. Placed(b, k)
      BY <1>2, <2>1, Zenon DEF Placed, Provides, Migrating, Upgrading, Holds, OdbcOnly, Apiece, Connected
    <2>3. k.pc \notin Migrating \cup {"insert_profile", "drop", "schema"}
      BY <1>2, Zenon DEF Migrating, Upgrading
    <2>4. k.inst.skey = skey /\ k.inst.name = name /\ k.inst.ids = {<<name, id, key>>}
      <3> DEFINE i == Instance(name, skey, id, key)
      <3>1. i.skey = skey /\ i.name = name /\ i.ids = {<<name, id, key>>} /\ k.inst = i
        BY <1>2, SMTT(60) DEF Instance
      <3> HIDE DEF i
      <3> QED
        BY <3>1, Zenon
    <2>5. ASSUME ~k.stale, ~g.mixed
          PROVE  /\ \A e \in k.inst.ids : e = <<e[1], e[2], e[3]>>
                                          /\ ProfileRow(e[2], e[1], k.inst.skey, e[3]) \in g.profs
                 /\ \E e \in k.inst.ids : e[1] = k.inst.name
      <3> DEFINE e == <<name, id, key>>
      <3>1. e[1] = name /\ e[2] = id /\ e[3] = key
        BY Triples, Zenon
      <3>2. e = <<e[1], e[2], e[3]>>
        BY <3>1, Zenon
      <3>3. ProfileRow(e[2], e[1], k.inst.skey, e[3]) \in g.profs
        <4>1. ProfileRow(id, name, skey, key) \in g.profs
          BY <1>2, <2>5, Zenon
        <4> HIDE DEF e
        <4> QED
          BY <2>4, <3>1, <4>1, Zenon
      <3>4. \A d \in k.inst.ids : d = e
        BY <2>4, Zenon
      <3>5. e \in k.inst.ids
        BY <2>4, Zenon
      <3> HIDE DEF e
      <3> QED
        BY <2>4, <3>1, <3>2, <3>3, <3>4, <3>5, Zenon
    <2>6. On(b, k, g)
      BY <1>2, <2>3, <2>5, Zenon DEF On, OnCurrent
    <2> QED
      BY <1>2, <2>2, <2>3, <2>6, Zenon DEF Has
  <1> QED
    BY <1>1, <1>2, Zenon DEF Has

LEMMA InsertProfileOK ==
    ASSUME SInv, NEW p \in Procs, InsertProfile(p)
    PROVE  SInv'
  <1> DEFINE name == proc[p].call.profile
             keys == proc[p].keys
             f == File(p)
             id == NextId(f)
             row == ProfileRow(id, name, keys.skey, keys.pkey)
             inst == Instance(name, keys.skey, id, keys.pkey)
             h == [f EXCEPT !.profs = f.profs \cup {row}]
  <1>1. /\ proc[p].pc = "insert_profile" /\ backend' = backend /\ at' = at
        /\ \/ Fail(p) /\ files' = files
           \/ /\ "profiles" \in f.tables /\ Put(p, h)
              /\ proc' = OpenedIn(proc, p, inst)
    BY Zenon DEF InsertProfile, Opened, NewInstance
  <1>2. /\ proc = [q \in Procs |-> proc[q]] /\ IsProc(proc[p]) /\ Placed(backend, proc[p])
        /\ proc[p].file \in DOMAIN files /\ proc[p].file # 0
        /\ proc[p].call \in Calls
        /\ IsFile(f) /\ FileOK(backend, f) /\ On(backend, proc[p], f)
    BY <1>1, ConnectedFacts, Zenon DEF Connected, Provides
  <1>3. CASE Fail(p) /\ files' = files
    BY <1>1, <1>3, FailKeeps, Zenon
  <1>4. CASE "profiles" \in f.tables /\ Put(p, h) /\ proc' = OpenedIn(proc, p, inst)
    <2>1. /\ backend = "odbc" /\ backend # "sqlite"
          /\ proc[p].call.pass # Absent => keys.skey \in ResolveRef(keys.ref, proc[p].call.pass)
      BY <1>1, <1>2, Zenon DEF Placed, OdbcOnly, Provides
    <2>2. inst \in [skey : {inst.skey}, name : {inst.name}, ids : {inst.ids}]
      BY InstanceFields, Zenon
    <2> HIDE DEF inst
    <2>3. PICK k : proc' = [proc EXCEPT ![p] = k] /\ Has(k, proc[p], inst)
      BY <1>2, <1>4, <2>2, OpenedGives, Zenon
    <2>4. IsFile(h) /\ h.mixed = f.mixed /\ h.tables = f.tables /\ h.config = f.config
          /\ h.profs = f.profs \cup {row} /\ h.items = f.items /\ h.old = f.old /\ h.wallet = f.wallet
          /\ h.by = f.by
      <3> HIDE DEF f, row
      <3> QED
        BY <1>2, Zenon DEF IsFile
    <2>5. proc[p].stale \in BOOLEAN
      BY <1>2, Zenon DEF IsProc
    <2>6. row.name = name /\ row.wrap = keys.skey /\ row = ProfileRow(row.id, row.name, row.wrap, row.key)
      BY Zenon DEF ProfileRow
    <2> HIDE DEF row
    <2>7. PICK g : /\ files' = [files EXCEPT ![proc[p].file] = g]
                   /\ IsFile(g) /\ g.mixed = (h.mixed \/ proc[p].stale)
                   /\ g.tables = h.tables /\ g.config = h.config /\ g.profs = h.profs /\ g.items = h.items
                   /\ g.old = h.old /\ g.wallet = h.wallet /\ g.by = h.by
      BY <1>4, <2>4, <2>5, PutGives, Zenon
    <2> HIDE DEF h
    <2>8. /\ g.tables = f.tables /\ g.config = f.config /\ g.profs = f.profs \cup {row} /\ g.items = f.items
          /\ g.old = f.old /\ g.wallet = f.wallet /\ g.by = f.by
          /\ ~g.mixed => ~f.mixed /\ ~proc[p].stale
      BY <2>4, <2>7, Zenon
    <2>9. ASSUME ~g.mixed
          PROVE  /\ f.config = [profile |-> name, key |-> keys.ref, version |-> "1"]
                 /\ f.by = proc[p].call.pass /\ f.profs = {} /\ g.profs = {row}
      <3>1. OnCurrent(proc[p], f)
        BY <1>2, <2>8, <2>9, Zenon DEF On
      <3> QED
        BY <1>1, <2>8, <3>1, Zenon DEF OnCurrent
    <2>10. ~g.mixed => g.config.version = "1" /\ g.config.profile = name /\ g.config.key = keys.ref
      <3> HIDE DEF f, name, keys
      <3> QED
        BY <2>8, <2>9
    <2>11. FileOK(backend, g)
      <3>1. g.wallet = {} /\ g.old = {} /\ (~HasConfig(g) => g.config = NoConfig)
        BY <1>2, <2>1, <2>8, Zenon DEF FileOK, HasConfig
      <3>2. ~g.mixed /\ g.by # Absent => OpensAgain(g)
        <4>1. ~g.mixed /\ g.by # Absent => keys.skey \in ResolveRef(g.config.key, g.by)
          BY <2>1, <2>8, <2>9, <2>10, Zenon
        <4> QED
          BY <2>6, <2>9, <2>10, <4>1, Zenon DEF OpensAgain
      <3> HIDE DEF f
      <3> QED
        BY <1>4, <2>1, <2>6, <2>8, <2>9, <2>10, <3>1, <3>2, Zenon DEF FileOK
    <2>12. /\ IsProc(k) /\ Placed(backend, k) /\ k.file \in {proc[p].file, 0}
           /\ k.pc \notin Migrating \cup {"insert_profile", "drop", "schema"}
           /\ k.file # 0 => On(backend, k, g)
      <3>1. ~proc[p].stale /\ ~g.mixed => g.config.version = "1" /\ ProfileRow(id, name, keys.skey, keys.pkey) \in g.profs
        BY <2>8, <2>10, Zenon DEF row
      <3>2. Has(k, proc[p], Instance(name, keys.skey, id, keys.pkey))
        BY <2>3, Zenon DEF inst
      <3>3. Placed(backend, proc[p]) /\ proc[p].pc \notin {"free", "done"}
        BY <1>1, <1>2, Zenon
      <3> HIDE DEF id, name, keys, f
      <3> QED
        BY <1>2, <2>1, <3>1, <3>2, <3>3, HasOK, ZenonT(60)
    <2>13. ASSUME NEW q \in Procs \ {p}, proc[q].file = proc[p].file
           PROVE  On(backend, proc[q], g)
      <3>1. On(backend, proc[q], f) /\ Apart(proc[p], proc[q], f)
        BY <1>2, <2>13, OthersFacts, Zenon
      <3>2. ~proc[q].stale /\ ~g.mixed => OnCurrent(proc[q], f) /\ proc[q].pc # "insert_profile"
        BY <1>1, <2>8, <3>1, Zenon DEF On, Apart
      <3>3. ~proc[q].stale /\ ~g.mixed /\ proc[q].pc = "drop" /\ proc[q].todo = <<"config">>
              => "profiles" \notin g.tables
        BY <2>8, <3>2, Zenon DEF OnCurrent
      <3>4. f.tables \subseteq g.tables /\ f.profs \subseteq g.profs /\ f.items \subseteq g.items
            /\ (f.mixed => g.mixed)
        BY <2>8, Zenon
      <3> HIDE DEF f
      <3> QED
        BY <2>8, <3>1, <3>2, <3>3, <3>4, OnGrows, Zenon
    <2>14. Writes(p, k, proc[p].file, g)
      <3>1. files[proc[p].file].mixed => g.mixed
        BY <2>8, Zenon DEF File
      <3>2. \A q \in Procs : Apart(k, proc[q], g) /\ Apart(proc[q], k, g)
        BY <2>12, PlainApart, Zenon
      <3> QED
        BY <1>1, <1>2, <2>3, <2>7, <2>11, <2>12, <2>13, <3>1, <3>2, Zenon DEF Writes
    <2> QED
      BY <2>14, WritesKeeps, Zenon
  <1> QED
    BY <1>1, <1>3, <1>4

\* A store as init_db leaves it.
LEMMA ProvisionedFields ==
    ASSUME NEW name, NEW keys, NEW pass
    PROVE  LET h == Provisioned(name, keys, pass) IN
           /\ IsFile(h) /\ ~h.mixed /\ h.tables = AllTables
           /\ h.config = [profile |-> name, key |-> keys.ref, version |-> "1"]
           /\ h.profs = {ProfileRow(1, name, keys.skey, keys.pkey)}
           /\ h.items = {} /\ h.old = {} /\ h.wallet = {} /\ h.by = pass
  <1> DEFINE tables == {Tables[i] : i \in 1..4}
             config == [profile |-> name, key |-> keys.ref, version |-> "1"]
             profs == {ProfileRow(1, name, keys.skey, keys.pkey)}
             h == [tables |-> tables, config |-> config, profs |-> profs, items |-> {}, old |-> {},
                   wallet |-> {}, by |-> pass, mixed |-> FALSE]
  <1>1. config \in [profile : {config.profile}, key : {config.key}, version : {config.version}]
    BY Zenon
  <1> HIDE DEF tables, config, profs
  <1>2. /\ IsFile(h) /\ ~h.mixed /\ h.tables = tables /\ h.config = config /\ h.profs = profs
        /\ h.items = {} /\ h.old = {} /\ h.wallet = {} /\ h.by = pass
    BY <1>1, Zenon DEF IsFile
  <1> QED
    BY <1>2, Zenon DEF Provisioned, tables, config, profs, AllTables

LEMMA ProvisionedOK ==
    ASSUME NEW b, b # "odbc", NEW name, NEW keys, NEW pass,
           pass # Absent => keys.skey \in ResolveRef(keys.ref, pass),
           NEW g, IsFile(g), b = "sqlite" => ~g.mixed, g.tables = AllTables,
           g.config = [profile |-> name, key |-> keys.ref, version |-> "1"],
           g.profs = {ProfileRow(1, name, keys.skey, keys.pkey)},
           g.items = {}, g.old = {}, g.wallet = {}, g.by = pass
    PROVE  FileOK(b, g) /\ g.config.version = "1" /\ g.tables # {}
  <1> DEFINE row == ProfileRow(1, name, keys.skey, keys.pkey)
  <1>1. row.name = name /\ row.wrap = keys.skey /\ row = ProfileRow(row.id, row.name, row.wrap, row.key)
    BY Zenon DEF ProfileRow
  <1>2. g.config.version = "1" /\ g.config.profile = name /\ g.config.key = keys.ref
    BY SMTT(60)
  <1>3. "items" \in AllTables /\ "config" \in AllTables
    BY SMT DEF AllTables, Tables
  <1> HIDE DEF row
  <1>4. g.profs = {row}
    BY Zenon DEF row
  <1>5. g.by # Absent => OpensAgain(g)
    BY <1>1, <1>2, <1>4, Zenon DEF OpensAgain
  <1>6. HasConfig(g) /\ g.tables # {} /\ "items" \in g.tables
    BY <1>3, Zenon DEF HasConfig
  <1>7. \A q, r \in g.profs : q.wrap = r.wrap /\ (q.name = r.name => q = r)
    BY <1>4, Zenon
  <1>8. \A r \in g.profs : r = ProfileRow(r.id, r.name, r.wrap, r.key)
    BY <1>1, <1>4, Zenon
  <1>9. g.wallet \subseteq g.old \cup Moved(g)
    BY Zenon
  <1> QED
    BY <1>2, <1>5, <1>6, <1>7, <1>8, <1>9, Zenon DEF FileOK

\* A file without tables has no calls that rely on it.
LEMMA EmptyFile ==
    ASSUME NEW b, b # "odbc", NEW k, Placed(b, k), NEW f, f.tables = {}, FileOK(b, f), On(b, k, f), NEW g
    PROVE  On(b, k, g) /\ ~k.stale /\ ~f.mixed
  <1>1. ~HasConfig(f) /\ ~(AllTables \subseteq f.tables)
    <2>1. "config" \in AllTables
      BY SMT DEF AllTables, Tables
    <2> QED
      BY <2>1, Zenon DEF HasConfig
  <1>2. ~k.stale /\ k.pc # "pre_upgrade" /\ ~f.mixed
    BY Zenon DEF On, FileOK
  <1>3. k.pc \notin Migrating
    BY <1>1, Zenon DEF On, OnMigrating
  <1>4. OnCurrent(k, f) /\ f.config.version # "1"
    BY <1>1, <1>2, Zenon DEF On, FileOK
  <1>5. k.pc \notin Holds \cup {"profile"}
    BY <1>4, Zenon DEF OnCurrent
  <1>6. k.pc \notin {"insert_profile", "drop"}
    BY Zenon DEF Placed, OdbcOnly
  <1> QED
    BY <1>2, <1>3, <1>5, <1>6, Zenon DEF On, OnCurrent

LEMMA InitDbOK ==
    ASSUME SInv, NEW p \in Procs, InitDb(p)
    PROVE  SInv'
  <1> DEFINE name == proc[p].call.profile
             keys == proc[p].keys
             pass == proc[p].call.pass
             f == File(p)
             inst == Instance(name, keys.skey, 1, keys.pkey)
             h == Provisioned(name, keys, pass)
  <1>1. /\ proc[p].pc = "init" /\ backend' = backend /\ at' = at
        /\ \/ Fail(p) /\ files' = files
           \/ f.tables = {} /\ Put(p, h) /\ proc' = OpenedIn(proc, p, inst)
    BY Zenon DEF InitDb, Opened, NewInstance
  <1>2. /\ proc = [q \in Procs |-> proc[q]] /\ IsProc(proc[p]) /\ Placed(backend, proc[p])
        /\ proc[p].file \in DOMAIN files /\ proc[p].file # 0
        /\ IsFile(f) /\ FileOK(backend, f) /\ On(backend, proc[p], f)
    BY <1>1, ConnectedFacts, Zenon DEF Connected, Provides
  <1>3. CASE Fail(p) /\ files' = files
    BY <1>1, <1>3, FailKeeps, Zenon
  <1>4. CASE f.tables = {} /\ Put(p, h) /\ proc' = OpenedIn(proc, p, inst)
    <2>1. backend # "odbc" /\ (pass # Absent => keys.skey \in ResolveRef(keys.ref, pass))
      BY <1>1, <1>2, Zenon DEF Placed, Provides
    <2>2. ~proc[p].stale /\ proc[p].stale \in BOOLEAN /\ ~f.mixed
      <3> HIDE DEF f
      <3> QED
        BY <1>2, <1>4, <2>1, EmptyFile, Zenon DEF IsProc
    <2>3. inst \in [skey : {inst.skey}, name : {inst.name}, ids : {inst.ids}]
      BY InstanceFields, Zenon
    <2> HIDE DEF inst
    <2>4. PICK k : proc' = [proc EXCEPT ![p] = k] /\ Has(k, proc[p], inst)
      BY <1>2, <1>4, <2>3, OpenedGives, Zenon
    <2> HIDE DEF name, keys, pass
    <2>5. /\ IsFile(h) /\ ~h.mixed /\ h.tables = AllTables
          /\ h.config = [profile |-> name, key |-> keys.ref, version |-> "1"]
          /\ h.profs = {ProfileRow(1, name, keys.skey, keys.pkey)}
          /\ h.items = {} /\ h.old = {} /\ h.wallet = {} /\ h.by = pass
      BY ProvisionedFields, SMTT(60)
    <2> HIDE DEF h
    <2>6. PICK g : /\ files' = [files EXCEPT ![proc[p].file] = g]
                   /\ IsFile(g) /\ g.mixed = (h.mixed \/ proc[p].stale)
                   /\ g.tables = h.tables /\ g.config = h.config /\ g.profs = h.profs /\ g.items = h.items
                   /\ g.old = h.old /\ g.wallet = h.wallet /\ g.by = h.by
      BY <1>4, <2>2, <2>5, PutGives, Zenon
    <2>7. FileOK(backend, g) /\ g.config.version = "1" /\ g.tables # {}
      <3>1. /\ IsFile(g) /\ ~g.mixed /\ g.tables = AllTables
            /\ g.config = [profile |-> name, key |-> keys.ref, version |-> "1"]
            /\ g.profs = {ProfileRow(1, name, keys.skey, keys.pkey)}
            /\ g.items = {} /\ g.old = {} /\ g.wallet = {} /\ g.by = pass
        BY <2>2, <2>5, <2>6, Zenon
      <3> QED
        BY <2>1, <3>1, ProvisionedOK, SMTT(60)
    <2>8. /\ IsProc(k) /\ Placed(backend, k) /\ k.file \in {proc[p].file, 0}
          /\ k.pc \notin Migrating \cup {"insert_profile", "drop", "schema"}
          /\ k.file # 0 => On(backend, k, g)
      <3>1. ProfileRow(1, name, keys.skey, keys.pkey) \in g.profs
        BY <2>5, <2>6, Zenon
      <3>2. Has(k, proc[p], Instance(name, keys.skey, 1, keys.pkey))
        BY <2>4, Zenon DEF inst
      <3>3. Placed(backend, proc[p]) /\ proc[p].pc \notin {"free", "done"}
        BY <1>1, <1>2, Zenon
      <3> QED
        BY <1>2, <2>2, <2>7, <3>1, <3>2, <3>3, HasOK, SMTT(60)
    <2>9. ASSUME NEW q \in Procs \ {p}, proc[q].file = proc[p].file
          PROVE  On(backend, proc[q], g)
      <3>1. On(backend, proc[q], f) /\ Placed(backend, proc[q])
        BY <1>2, <2>9, OthersFacts, Zenon
      <3> HIDE DEF f
      <3> QED
        BY <1>2, <1>4, <2>1, <3>1, EmptyFile, Zenon
    <2>10. Writes(p, k, proc[p].file, g)
      <3>1. ~files[proc[p].file].mixed
        BY <2>2, Zenon DEF File
      <3>2. \A q \in Procs : Apart(k, proc[q], g) /\ Apart(proc[q], k, g)
        BY <2>8, PlainApart, Zenon
      <3> QED
        BY <1>1, <1>2, <2>4, <2>6, <2>7, <2>8, <2>9, <3>1, <3>2, ZenonT(60) DEF Writes
    <2> QED
      BY <2>10, WritesKeeps, Zenon
  <1> QED
    BY <1>1, <1>3, <1>4

LEMMA ReplaceOK ==
    ASSUME SInv, NEW p \in Procs, Replace(p)
    PROVE  SInv'
  <1> DEFINE name == proc[p].call.profile
             keys == proc[p].keys
             pass == proc[p].call.pass
             inst == Instance(name, keys.skey, 1, keys.pkey)
             h == Provisioned(name, keys, pass)
  <1>1. /\ proc[p].pc = "init" /\ proc[p].txn /\ backend' = backend /\ at' = at
        /\ Put(p, h) /\ proc' = OpenedIn(Outdated(p), p, inst)
    BY Zenon DEF Replace, NewInstance
  <1>2. /\ proc = [q \in Procs |-> proc[q]] /\ IsProc(proc[p]) /\ Placed(backend, proc[p])
        /\ proc[p].file \in DOMAIN files /\ proc[p].file # 0
    BY <1>1, ConnectedFacts, Zenon DEF Connected, Provides
  <1>3. /\ backend = "postgres" /\ backend # "odbc" /\ backend # "sqlite"
        /\ pass # Absent => keys.skey \in ResolveRef(keys.ref, pass)
        /\ proc[p].call.op # "migrate" /\ proc[p].stale \in BOOLEAN
    BY <1>1, <1>2, Zenon DEF Placed, Provides, IsProc
  <1>4. inst \in [skey : {inst.skey}, name : {inst.name}, ids : {inst.ids}]
    BY InstanceFields, Zenon
  <1>5. Outdated(p) = [q \in Procs |-> Outdated(p)[q]] /\ Outdated(p)[p] = proc[p]
    BY Zenon DEF Outdated
  <1> HIDE DEF inst
  <1>6. PICK k : proc' = [Outdated(p) EXCEPT ![p] = k] /\ Has(k, proc[p], inst)
    BY <1>1, <1>2, <1>4, <1>5, OpenedGives, Zenon
  <1> HIDE DEF name, keys, pass
  <1>7. /\ IsFile(h) /\ ~h.mixed /\ h.tables = AllTables
        /\ h.config = [profile |-> name, key |-> keys.ref, version |-> "1"]
        /\ h.profs = {ProfileRow(1, name, keys.skey, keys.pkey)}
        /\ h.items = {} /\ h.old = {} /\ h.wallet = {} /\ h.by = pass
    BY ProvisionedFields, SMTT(60)
  <1> HIDE DEF h
  <1>8. PICK g : /\ files' = [files EXCEPT ![proc[p].file] = g]
                 /\ IsFile(g) /\ g.mixed = (h.mixed \/ proc[p].stale)
                 /\ g.tables = h.tables /\ g.config = h.config /\ g.profs = h.profs /\ g.items = h.items
                 /\ g.old = h.old /\ g.wallet = h.wallet /\ g.by = h.by
    BY <1>1, <1>3, <1>7, PutGives, Zenon
  <1>9. FileOK(backend, g) /\ g.config.version = "1" /\ g.tables # {}
    <2>1. /\ IsFile(g) /\ g.tables = AllTables
          /\ g.config = [profile |-> name, key |-> keys.ref, version |-> "1"]
          /\ g.profs = {ProfileRow(1, name, keys.skey, keys.pkey)}
          /\ g.items = {} /\ g.old = {} /\ g.wallet = {} /\ g.by = pass
      BY <1>7, <1>8, Zenon
    <2>2. backend = "sqlite" => ~g.mixed
      BY <1>3, Zenon
    <2> QED
      BY <1>3, <2>1, <2>2, ProvisionedOK, SMTT(60)
  <1>10. IsProc(k) /\ Placed(backend, k) /\ k.file = proc[p].file /\ On(backend, k, g)
    <2>1. ProfileRow(1, name, keys.skey, keys.pkey) \in g.profs
      BY <1>7, <1>8, Zenon
    <2>2. Has(k, proc[p], Instance(name, keys.skey, 1, keys.pkey))
      BY <1>6, Zenon DEF inst
    <2>3. Placed(backend, proc[p]) /\ proc[p].pc \notin {"free", "done"}
      BY <1>1, <1>2, Zenon
    <2> QED
      BY <1>2, <1>3, <1>9, <2>1, <2>2, <2>3, HasOK, SMTT(60)
  <1>11. Replaces(p, k, g)
    BY <1>1, <1>2, <1>3, <1>6, <1>8, <1>9, <1>10, Zenon DEF Replaces
  <1> QED
    BY <1>11, ReplacesKeeps, Zenon

LEMMA OpenConfigOK ==
    ASSUME SInv, NEW p \in Procs, OpenConfig(p)
    PROVE  SInv'
  <1> DEFINE f == File(p)
  <1>1. /\ proc[p].pc = "config" /\ backend' = backend /\ files' = files /\ at' = at
        /\ \/ Fail(p)
           \/ /\ f.config.version = "1"
              /\ \E c : proc' = [proc EXCEPT ![p].keys = c, ![p].pc = "profile"]
    BY Zenon DEF OpenConfig, VersionOk
  <1>2. /\ proc = [q \in Procs |-> proc[q]] /\ IsProc(proc[p]) /\ Placed(backend, proc[p])
        /\ proc[p].file \in DOMAIN files /\ proc[p].file # 0
        /\ proc[p].call \in Calls /\ (proc[p].call.op = "migrate" => backend = "sqlite")
        /\ On(backend, proc[p], f)
    BY <1>1, ConnectedFacts, Zenon DEF Connected, Op
  <1>3. CASE Fail(p)
    BY <1>1, <1>3, FailKeeps, Zenon
  <1>4. ASSUME f.config.version = "1", NEW c, proc' = [proc EXCEPT ![p].keys = c, ![p].pc = "profile"]
        PROVE  SInv'
    <2> DEFINE k == [proc[p] EXCEPT !.keys = c, !.pc = "profile"]
    <2>1. /\ proc' = [proc EXCEPT ![p] = k]
          /\ IsProc(k) /\ k.pc = "profile" /\ k.call = proc[p].call /\ k.file = proc[p].file
          /\ k.txn = proc[p].txn /\ k.stale = proc[p].stale
      BY <1>2, <1>4, Zenon DEF IsProc
    <2> HIDE DEF k
    <2>2. ~k.txn /\ (backend = "sqlite" => ~k.stale)
      BY <1>1, <1>2, <2>1, Zenon DEF Placed
    <2>3. Placed(backend, k)
      BY <1>2, <2>1, <2>2, Zenon
         DEF Placed, Provides, Migrating, Upgrading, Holds, OdbcOnly, Apiece, Connected
    <2>4. On(backend, k, f)
      <3> HIDE DEF f
      <3> QED
        BY <1>2, <1>4, <2>1, Zenon DEF On, OnCurrent, Migrating, Upgrading, Holds
    <2>5. k.pc \notin Migrating \cup {"insert_profile", "drop", "schema"}
      BY <2>1, Zenon DEF Migrating, Upgrading
    <2>6. Moves(p, k)
      BY <1>1, <1>2, <2>1, <2>3, <2>4, <2>5, PlainApart, Zenon DEF Moves, SInv, FilesOK, File
    <2> QED
      BY <2>6, MovesKeeps, Zenon
  <1> QED
    BY <1>1, <1>3, <1>4, ZenonT(60)

LEMMA OpenProfileOK ==
    ASSUME SInv, NEW p \in Procs, OpenProfile(p)
    PROVE  SInv'
  <1> DEFINE f == File(p)
  <1>1. /\ proc[p].pc = "profile" /\ backend' = backend /\ files' = files /\ at' = at
        /\ \/ Fail(p)
           \/ \E r \in f.profs : proc' = OpenedIn(proc, p, Instance(r.name, r.wrap, r.id, r.key))
    BY Zenon DEF OpenProfile, Opened
  <1>2. /\ proc = [q \in Procs |-> proc[q]] /\ IsProc(proc[p]) /\ Placed(backend, proc[p])
        /\ proc[p].file \in DOMAIN files /\ proc[p].file # 0
        /\ On(backend, proc[p], f) /\ FileOK(backend, f)
    BY <1>1, ConnectedFacts, Zenon DEF Connected
  <1>3. CASE Fail(p)
    BY <1>1, <1>3, FailKeeps, Zenon
  <1>4. ASSUME NEW r \in f.profs, proc' = OpenedIn(proc, p, Instance(r.name, r.wrap, r.id, r.key))
        PROVE  SInv'
    <2> DEFINE inst == Instance(r.name, r.wrap, r.id, r.key)
    <2>1. inst \in [skey : {inst.skey}, name : {inst.name}, ids : {inst.ids}]
      BY InstanceFields, Zenon
    <2> HIDE DEF inst
    <2>2. PICK k : proc' = [proc EXCEPT ![p] = k] /\ Has(k, proc[p], inst)
      <3>1. proc' = OpenedIn(proc, p, inst)
        BY <1>4, Zenon DEF inst
      <3> QED
        BY <1>2, <2>1, <3>1, OpenedGives, Zenon
    <2>3. /\ proc[p].stale /\ backend # "odbc" => f.tables # {}
          /\ ~proc[p].stale /\ ~f.mixed => f.config.version = "1" /\ ProfileRow(r.id, r.name, r.wrap, r.key) \in f.profs
      <3>1. ~proc[p].stale /\ ~f.mixed => OnCurrent(proc[p], f)
        BY <1>2, Zenon DEF On
      <3>2. ~f.mixed => r = ProfileRow(r.id, r.name, r.wrap, r.key)
        BY <1>2, <1>4, Zenon DEF FileOK
      <3> HIDE DEF f
      <3> QED
        BY <1>1, <1>2, <1>4, <3>1, <3>2, Zenon DEF On, OnCurrent
    <2>4. /\ IsProc(k) /\ Placed(backend, k) /\ k.file \in {proc[p].file, 0}
          /\ k.pc \notin Migrating \cup {"insert_profile", "drop", "schema"}
          /\ k.file # 0 => On(backend, k, f)
      <3>1. Has(k, proc[p], Instance(r.name, r.wrap, r.id, r.key))
        BY <2>2, Zenon DEF inst
      <3>2. Placed(backend, proc[p]) /\ proc[p].pc \notin {"free", "done"}
        BY <1>1, <1>2, Zenon
      <3> HIDE DEF f
      <3> QED
        BY <1>2, <2>3, <3>1, <3>2, HasOK, ZenonT(60)
    <2>5. Moves(p, k)
      BY <1>1, <1>2, <2>2, <2>4, PlainApart, Zenon DEF Moves, SInv, FilesOK, File
    <2> QED
      BY <2>5, MovesKeeps, Zenon
  <1> QED
    BY <1>1, <1>3, <1>4
----------------------------------------------------------------------------
(***************************************************************************)
(* The migration.  A wallet is a SQLite file, so nobody is stale on it,    *)
(* and the one call that migrates it has it to itself but for those that   *)
(* look for a store and find none.                                         *)
(***************************************************************************)
LEMMA MigrationFacts ==
    ASSUME SInv, NEW p \in Procs, proc[p].pc \in Migrating \cup {"pre_upgrade"}
    PROVE  /\ backend = "sqlite" /\ backend # "odbc"
           /\ proc = [q \in Procs |-> proc[q]] /\ IsProc(proc[p]) /\ Placed(backend, proc[p])
           /\ proc[p].file \in DOMAIN files /\ proc[p].file # 0 /\ proc[p].call \in Calls
           /\ ~proc[p].stale /\ proc[p].stale \in BOOLEAN /\ ~proc[p].txn
           /\ IsFile(File(p)) /\ FileOK(backend, File(p)) /\ ~File(p).mixed
           /\ proc[p].pc \in Migrating => OnMigrating(proc[p], File(p))
           /\ proc[p].pc = "pre_upgrade" => File(p).tables # {}
           /\ proc[p].pc \in Migrating \ {"indy_key"}
                => proc[p].keys.skey \in ResolveRef(proc[p].keys.ref, proc[p].call.pass)
           /\ proc[p].pc \notin {"free", "done"}
  <1>1. proc[p].pc \in Connected /\ proc[p].pc \notin {"free", "done", "import", "keys", "init"}
    BY Zenon DEF Connected, Migrating, Upgrading
  <1>2. /\ proc = [q \in Procs |-> proc[q]] /\ IsProc(proc[p]) /\ Placed(backend, proc[p])
        /\ proc[p].file \in DOMAIN files /\ proc[p].file # 0 /\ proc[p].call \in Calls
        /\ IsFile(File(p)) /\ FileOK(backend, File(p)) /\ On(backend, proc[p], File(p))
    BY <1>1, ConnectedFacts, Zenon
  <1> DEFINE f == File(p)
             j == proc[p]
  <1> HIDE DEF f, j
  <1>3. IsProc(j) /\ Placed(backend, j) /\ FileOK(backend, f) /\ On(backend, j, f)
        /\ j.pc \in Migrating \cup {"pre_upgrade"} /\ j.pc \notin {"import", "keys", "init"}
    BY <1>1, <1>2, Zenon DEF f, j
  <1>4. /\ backend = "sqlite" /\ ~j.stale /\ j.stale \in BOOLEAN /\ ~j.txn
        /\ j.pc \in Migrating \ {"indy_key"} => j.keys.skey \in ResolveRef(j.keys.ref, j.call.pass)
    BY <1>3, Zenon DEF Placed, IsProc
  <1>5. ~f.mixed /\ (j.pc \in Migrating => OnMigrating(j, f)) /\ (j.pc = "pre_upgrade" => f.tables # {})
    BY <1>3, <1>4, Zenon DEF FileOK, On
  <1> QED
    BY <1>1, <1>2, <1>4, <1>5, Zenon DEF f, j

\* The others on the file of a call that migrates it, or begins to.
LEMMA BystandersFacts ==
    ASSUME SInv, NEW p \in Procs,
           proc[p].pc \in Migrating \/ (proc[p].pc = "pre_upgrade" /\ ~HasConfig(File(p))),
           NEW q \in Procs \ {p}, proc[q].file = proc[p].file
    PROVE  /\ proc[q].pc \notin Migrating \cup {"insert_profile", "drop", "schema"}
           /\ OnCurrent(proc[q], File(p)) /\ ~proc[q].stale
  <1>1. backend = "sqlite" /\ backend # "odbc" /\ proc[p].file # 0 /\ ~File(p).mixed
    BY MigrationFacts, Zenon
  <1>2. On(backend, proc[q], File(p)) /\ Placed(backend, proc[q]) /\ Apart(proc[p], proc[q], File(p))
    BY <1>1, OthersFacts, Zenon
  <1>3. proc[q].pc \notin Migrating
    BY <1>2, Zenon DEF Apart, On, OnMigrating
  <1>4. proc[q].pc \notin {"insert_profile", "drop", "schema"} /\ ~proc[q].stale
    BY <1>1, <1>2, Zenon DEF Placed, OdbcOnly
  <1> QED
    BY <1>1, <1>2, <1>3, <1>4, Zenon DEF On

LEMMA MigrateKeeps ==
    ASSUME SInv, NEW p \in Procs,
           proc[p].pc \in Migrating \/ (proc[p].pc = "pre_upgrade" /\ ~HasConfig(File(p))),
           NEW k, NEW g, proc' = [proc EXCEPT ![p] = k], files' = [files EXCEPT ![proc[p].file] = g],
           backend' = backend, at' = at,
           IsFile(g), FileOK(backend, g), g.tables # {}, File(p).profs \subseteq g.profs,
           File(p).config.version = "1" => g.config.version = "1",
           IsProc(k), Placed(backend, k), k.file \in {proc[p].file, 0}, k.file # 0 => On(backend, k, g)
    PROVE  SInv'
  <1>1. backend = "sqlite" /\ proc[p].file \in DOMAIN files /\ ~File(p).mixed
    BY MigrationFacts, Zenon
  <1>2. ASSUME NEW q \in Procs \ {p}, proc[q].file = proc[p].file
        PROVE  On(backend, proc[q], g) /\ Apart(k, proc[q], g) /\ Apart(proc[q], k, g)
    <2> DEFINE j == proc[q]
               f == File(p)
    <2>1. /\ j.pc \notin Migrating \cup {"insert_profile", "drop", "schema"}
          /\ OnCurrent(j, f) /\ ~j.stale
      BY <1>2, BystandersFacts, Zenon
    <2>2. f.profs \subseteq g.profs /\ (f.config.version = "1" => g.config.version = "1")
      BY Zenon
    <2> HIDE DEF j, f
    <2>3. OnCurrent(j, g)
      BY <2>1, <2>2, Zenon DEF OnCurrent
    <2>4. On(backend, j, g)
      BY <2>1, <2>3, Zenon DEF On
    <2>5. Apart(k, j, g) /\ Apart(j, k, g)
      BY <2>1, PlainApart, Zenon
    <2> QED
      BY <2>4, <2>5, Zenon DEF j
  <1>3. Writes(p, k, proc[p].file, g)
    BY <1>1, <1>2, Zenon DEF Writes, File
  <1> QED
    BY <1>3, WritesKeeps, Zenon

LEMMA MigrateMoves ==
    ASSUME SInv, NEW p \in Procs, proc[p].pc \in Migrating,
           NEW k, proc' = [proc EXCEPT ![p] = k], files' = files, backend' = backend, at' = at,
           IsProc(k), Placed(backend, k), k.file = proc[p].file, On(backend, k, File(p))
    PROVE  SInv'
  <1>1. proc[p].file \in DOMAIN files
    BY MigrationFacts, Zenon
  <1>2. ASSUME NEW q \in Procs \ {p}, proc[q].file = proc[p].file
        PROVE  Apart(k, proc[q], File(p)) /\ Apart(proc[q], k, File(p))
    BY <1>2, BystandersFacts, PlainApart, Zenon
  <1>3. Moves(p, k)
    BY <1>1, <1>2, Zenon DEF Moves, File, SInv, FilesOK
  <1> QED
    BY <1>3, MovesKeeps, Zenon

\* A call that is at a step of the migration.
LEMMA MigratingPlaced ==
    ASSUME NEW k, k.pc \in Migrating, k.file # 0, k.call \in Calls, ~k.txn, ~k.stale,
           k.pc # "indy_key" => k.keys.skey \in ResolveRef(k.keys.ref, k.call.pass)
    PROVE  Placed("sqlite", k)
  <1>1. k.pc \notin {"free", "done", "check", "drop", "keys", "schema"} \cup Apiece \cup Provides \cup OdbcOnly
                     \cup {"create", "reconnect"}
    BY Zenon DEF Migrating, Upgrading, Apiece, Provides, OdbcOnly
  <1> QED
    BY <1>1, Zenon DEF Placed, Provides

LEMMA MigratingOn ==
    ASSUME NEW k, k.pc \in Migrating, ~k.stale, NEW g, OnMigrating(k, g)
    PROVE  On("sqlite", k, g)
  <1>1. k.pc \notin Holds \cup {"profile", "pre_upgrade", "insert_profile", "drop"}
    BY Zenon DEF Migrating, Upgrading, Holds
  <1> QED
    BY <1>1, Zenon DEF On, OnCurrent

\* A wallet on its way.
LEMMA MigratingFile ==
    ASSUME NEW g, g.config.version # "1", HasConfig(g), "items" \in g.tables, ~g.mixed,
           g.wallet \subseteq g.old \cup Moved(g),
           \A q, r \in g.profs : q.wrap = r.wrap /\ (q.name = r.name => q = r),
           \A r \in g.profs : r = ProfileRow(r.id, r.name, r.wrap, r.key)
    PROVE  FileOK("sqlite", g) /\ g.tables # {}
  BY Zenon DEF FileOK

LEMMA MovedGrows ==
    ASSUME NEW f, NEW g, \A t \in f.items : t.tagged => t \in g.items, f.profs \subseteq g.profs
    PROVE  Moved(f) \subseteq Moved(g)
  BY Zenon DEF Moved

LEMMA AllTablesAre == AllTables = {"config", "profiles", "items", "items_tags"}
  <1>1. 1..4 = {1, 2, 3, 4}
    BY SMT
  <1> QED
    BY <1>1, SMTT(60) DEF AllTables, Tables

LEMMA PreUpgradeOK ==
    ASSUME SInv, NEW p \in Procs, PreUpgrade(p)
    PROVE  SInv'
  <1> DEFINE f == File(p)
             new == {"config", "profiles", "items_old", "items_tags"}
             h == [f EXCEPT !.tables = f.tables \cup new]
             k == [proc[p] EXCEPT !.pc = "indy_key"]
  <1>1. /\ proc[p].pc = "pre_upgrade" /\ backend' = backend /\ at' = at
        /\ \/ Fail(p) /\ files' = files
           \/ ~HasConfig(f) /\ Put(p, h) /\ proc' = [proc EXCEPT ![p].pc = "indy_key"]
    BY Zenon DEF PreUpgrade, To
  <1>2. /\ backend = "sqlite" /\ backend # "odbc"
        /\ proc = [q \in Procs |-> proc[q]] /\ IsProc(proc[p])
        /\ proc[p].file \in DOMAIN files /\ proc[p].file # 0 /\ proc[p].call \in Calls
        /\ ~proc[p].stale /\ proc[p].stale \in BOOLEAN /\ ~proc[p].txn
        /\ IsFile(f) /\ FileOK(backend, f) /\ ~f.mixed /\ f.tables # {}
    BY <1>1, MigrationFacts, Zenon
  <1>3. CASE Fail(p) /\ files' = files
    BY <1>1, <1>3, FailKeeps, Zenon
  <1>4. CASE ~HasConfig(f) /\ Put(p, h) /\ proc' = [proc EXCEPT ![p].pc = "indy_key"]
    <2>1. /\ proc' = [proc EXCEPT ![p] = k] /\ IsProc(k) /\ k.pc = "indy_key"
          /\ k.call = proc[p].call /\ k.file = proc[p].file /\ ~k.txn /\ ~k.stale
      BY <1>2, <1>4, ChangePc, ZenonT(60)
    <2> HIDE DEF k
    <2>2. IsFile(h) /\ h.mixed = f.mixed /\ h.tables = f.tables \cup new /\ h.config = f.config
          /\ h.profs = f.profs /\ h.items = f.items /\ h.old = f.old /\ h.wallet = f.wallet
      <3> HIDE DEF f, new
      <3> QED
        BY <1>2, Zenon DEF IsFile
    <2> HIDE DEF h
    <2>3. PICK g : /\ files' = [files EXCEPT ![proc[p].file] = g]
                   /\ IsFile(g) /\ g.mixed = (h.mixed \/ proc[p].stale)
                   /\ g.tables = h.tables /\ g.config = h.config /\ g.profs = h.profs /\ g.items = h.items
                   /\ g.old = h.old /\ g.wallet = h.wallet /\ g.by = h.by
      BY <1>2, <1>4, <2>2, PutGives, Zenon
    <2>4. /\ ~g.mixed /\ g.tables = f.tables \cup new /\ g.config = f.config
          /\ g.profs = f.profs /\ g.items = f.items /\ g.old = f.old /\ g.wallet = f.wallet
      BY <1>2, <2>2, <2>3, Zenon
    <2>5. f.config.version # "1" /\ "items" \in f.tables
      <3>1. f.config = NoConfig /\ "items" \in f.tables
        BY <1>2, <1>4, Zenon DEF FileOK
      <3>2. NoConfig.version # "1"
        BY DEF NoConfig, None
      <3> QED
        BY <3>1, <3>2, Zenon
    <2>6. g.config.version # "1" /\ HasConfig(g) /\ AllTables \subseteq g.tables /\ "items" \in g.tables
      BY <2>4, <2>5, AllTablesAre, Zenon DEF HasConfig
    <2>7. FileOK(backend, g) /\ g.tables # {}
      <3>1. Moved(f) \subseteq Moved(g)
        BY <2>4, MovedGrows, Zenon
      <3>2. g.wallet \subseteq g.old \cup Moved(g)
        BY <1>2, <2>4, <3>1, Zenon DEF FileOK
      <3>3. /\ \A q, r \in g.profs : q.wrap = r.wrap /\ (q.name = r.name => q = r)
            /\ \A r \in g.profs : r = ProfileRow(r.id, r.name, r.wrap, r.key)
        BY <1>2, <2>4, Zenon DEF FileOK
      <3> QED
        BY <1>2, <2>4, <2>6, <3>2, <3>3, MigratingFile, Zenon
    <2>8. k.pc \in Migrating
      BY <2>1, Zenon DEF Migrating
    <2>9. Placed(backend, k)
      BY <1>2, <2>1, <2>8, MigratingPlaced, Zenon
    <2>10. On(backend, k, g)
      <3>1. OnMigrating(k, g)
        BY <2>1, <2>6, Zenon DEF OnMigrating, Upgrading
      <3> QED
        BY <1>2, <2>1, <2>8, <3>1, MigratingOn, Zenon
    <2>11. File(p).profs \subseteq g.profs /\ (File(p).config.version = "1" => g.config.version = "1")
      BY <2>4, Zenon
    <2> HIDE DEF f
    <2> QED
      BY <1>1, <1>4, <2>1, <2>3, <2>7, <2>9, <2>10, <2>11, MigrateKeeps, ZenonT(60) DEF f
  <1> QED
    BY <1>1, <1>3, <1>4

LEMMA FetchIndyKeyOK ==
    ASSUME SInv, NEW p \in Procs, FetchIndyKey(p)
    PROVE  SInv'
  <1> DEFINE ref == ToStoreKeyReference(proc[p].call.method, 0)
             keys(s) == [skey |-> s, ref |-> ref, pkey |-> fresh + 1]
  <1>1. /\ proc[p].pc = "indy_key" /\ backend' = backend /\ at' = at /\ files' = files
        /\ \/ Fail(p)
           \/ \E s \in ResolveRef(ref, proc[p].call.pass) :
                proc' = [proc EXCEPT ![p].pc = "default_profile", ![p].keys = keys(s)]
    BY Zenon DEF FetchIndyKey
  <1>2. proc[p].pc \in Migrating
    BY <1>1, Zenon DEF Migrating
  <1>3. /\ backend = "sqlite"
        /\ proc = [q \in Procs |-> proc[q]] /\ IsProc(proc[p])
        /\ proc[p].file # 0 /\ proc[p].call \in Calls /\ ~proc[p].stale /\ ~proc[p].txn
        /\ OnMigrating(proc[p], File(p))
    BY <1>2, MigrationFacts, Zenon
  <1>4. CASE Fail(p)
    BY <1>1, <1>4, FailKeeps, Zenon
  <1>5. ASSUME NEW s \in ResolveRef(ref, proc[p].call.pass),
               proc' = [proc EXCEPT ![p].pc = "default_profile", ![p].keys = keys(s)]
        PROVE  SInv'
    <2> DEFINE c == keys(s)
               k == [proc[p] EXCEPT !.pc = "default_profile", !.keys = c]
    <2>1. c.skey = s /\ c.ref = ref
      BY Zenon
    <2> HIDE DEF c, ref
    <2>2. /\ proc' = [proc EXCEPT ![p] = k] /\ IsProc(k) /\ k.pc = "default_profile" /\ k.keys = c
          /\ k.call = proc[p].call /\ k.file = proc[p].file /\ ~k.txn /\ ~k.stale
      BY <1>3, <1>5, Zenon DEF IsProc, c
    <2> HIDE DEF k
    <2>3. k.pc \in Migrating
      BY <2>2, Zenon DEF Migrating
    <2>4. Placed(backend, k)
      BY <1>3, <1>5, <2>1, <2>2, <2>3, MigratingPlaced, ZenonT(60)
    <2>5. OnMigrating(k, File(p))
      BY <1>3, <2>2, Zenon DEF OnMigrating, Upgrading
    <2>6. On(backend, k, File(p))
      BY <1>3, <2>2, <2>3, <2>5, MigratingOn, Zenon
    <2> QED
      BY <1>1, <1>2, <2>2, <2>4, <2>6, MigrateMoves, Zenon
  <1> QED
    BY <1>1, <1>4, <1>5

\* A step of the migration that writes h and goes on as k.
LEMMA MigrateWrites ==
    ASSUME SInv, NEW p \in Procs, proc[p].pc \in Migrating \ {"indy_key"}, backend' = backend, at' = at,
           NEW h, Put(p, h), IsFile(h), ~h.mixed, h.wallet \subseteq h.old \cup Moved(h),
           File(p).profs \subseteq h.profs,
           \A q, r \in h.profs : q.wrap = r.wrap /\ (q.name = r.name => q = r),
           \A r \in h.profs : r = ProfileRow(r.id, r.name, r.wrap, r.key),
           NEW k, proc' = [proc EXCEPT ![p] = k], IsProc(k), k.pc \in Migrating \ {"indy_key"},
           k.call = proc[p].call, k.file = proc[p].file, k.txn = proc[p].txn, k.stale = proc[p].stale,
           k.keys = proc[p].keys, OnMigrating(k, h)
    PROVE  SInv'
  <1>1. /\ backend = "sqlite" /\ backend # "odbc" /\ proc[p].file # 0 /\ proc[p].call \in Calls
        /\ ~proc[p].stale /\ proc[p].stale \in BOOLEAN /\ ~proc[p].txn
        /\ OnMigrating(proc[p], File(p))
        /\ proc[p].keys.skey \in ResolveRef(proc[p].keys.ref, proc[p].call.pass)
    BY MigrationFacts, Zenon
  <1>2. PICK g : /\ files' = [files EXCEPT ![proc[p].file] = g]
                 /\ IsFile(g) /\ g.mixed = (h.mixed \/ proc[p].stale)
                 /\ g.tables = h.tables /\ g.config = h.config /\ g.profs = h.profs /\ g.items = h.items
                 /\ g.old = h.old /\ g.wallet = h.wallet /\ g.by = h.by
    BY <1>1, PutGives, ZenonT(60)
  <1>3. OnMigrating(k, g) /\ Moved(g) = Moved(h) /\ ~g.mixed
    <2>1. OnMigrating(k, g)
      BY <1>2, Zenon DEF OnMigrating, HasConfig
    <2>2. Moved(g) = Moved(h)
      BY <1>2, ZenonT(60) DEF Moved
    <2> QED
      BY <1>1, <1>2, <2>1, <2>2, Zenon
  <1>4. /\ HasConfig(g) /\ "items" \in g.tables /\ g.config.version # "1"
        /\ File(p).config.version # "1"
    <2>1. HasConfig(g) /\ AllTables \subseteq g.tables /\ g.config.version # "1"
      BY <1>3, Zenon DEF OnMigrating
    <2>2. File(p).config.version # "1"
      BY <1>1, Zenon DEF OnMigrating
    <2>3. "items" \in AllTables
      BY AllTablesAre, Zenon
    <2> QED
      BY <2>1, <2>2, <2>3, Zenon
  <1>5. FileOK(backend, g) /\ g.tables # {}
    <2>1. /\ g.wallet \subseteq g.old \cup Moved(g)
          /\ \A q, r \in g.profs : q.wrap = r.wrap /\ (q.name = r.name => q = r)
          /\ \A r \in g.profs : r = ProfileRow(r.id, r.name, r.wrap, r.key)
      BY <1>2, <1>3, Zenon
    <2> QED
      BY <1>1, <1>3, <1>4, <2>1, MigratingFile, Zenon
  <1>6. /\ k.pc \in Migrating /\ k.file # 0 /\ k.call \in Calls /\ ~k.txn /\ ~k.stale
        /\ k.keys.skey \in ResolveRef(k.keys.ref, k.call.pass)
    BY <1>1, Zenon
  <1>7. Placed(backend, k)
    BY <1>1, <1>6, MigratingPlaced, Zenon
  <1>8. On(backend, k, g)
    BY <1>1, <1>3, <1>6, MigratingOn, Zenon
  <1> QED
    BY <1>2, <1>4, <1>5, <1>7, <1>8, MigrateKeeps, Zenon

LEMMA CreateConfigOK ==
    ASSUME SInv, NEW p \in Procs, CreateConfig(p)
    PROVE  SInv'
  <1> DEFINE f == File(p)
             name == proc[p].call.profile
             ref == proc[p].keys.ref
  <1>1. /\ proc[p].pc \in {"default_profile", "config_key"} /\ backend' = backend /\ at' = at
        /\ \/ /\ proc[p].pc = "default_profile"
              /\ Put(p, [f EXCEPT !.config.profile = name]) /\ proc' = [proc EXCEPT ![p].pc = "config_key"]
           \/ /\ proc[p].pc = "config_key"
              /\ Put(p, [f EXCEPT !.config.key = ref]) /\ proc' = [proc EXCEPT ![p].pc = "init_profile"]
    BY Zenon DEF CreateConfig, To
  <1>2. proc[p].pc \in Migrating \ {"indy_key"} /\ proc[p].pc \in Migrating
    BY <1>1, Zenon DEF Migrating
  <1>3. /\ backend = "sqlite"
        /\ proc = [q \in Procs |-> proc[q]] /\ IsProc(proc[p])
        /\ IsFile(f) /\ FileOK(backend, f) /\ ~f.mixed /\ OnMigrating(proc[p], f)
    BY <1>2, MigrationFacts, Zenon
  <1>4. /\ f.wallet \subseteq f.old \cup Moved(f)
        /\ \A q, r \in f.profs : q.wrap = r.wrap /\ (q.name = r.name => q = r)
        /\ \A r \in f.profs : r = ProfileRow(r.id, r.name, r.wrap, r.key)
    BY <1>3, Zenon DEF FileOK
  <1>5. CASE /\ proc[p].pc = "default_profile"
             /\ Put(p, [f EXCEPT !.config.profile = name]) /\ proc' = [proc EXCEPT ![p].pc = "config_key"]
    <2> DEFINE h == [f EXCEPT !.config.profile = name]
               k == [proc[p] EXCEPT !.pc = "config_key"]
    <2>1. /\ IsFile(h) /\ h.config.profile = name /\ h.config.version = f.config.version
          /\ h.mixed = f.mixed /\ h.tables = f.tables /\ h.profs = f.profs /\ h.items = f.items
          /\ h.old = f.old /\ h.wallet = f.wallet
      <3> HIDE DEF f, name
      <3> QED
        BY <1>3, Zenon DEF IsFile
    <2>2. /\ proc' = [proc EXCEPT ![p] = k] /\ IsProc(k) /\ k.pc = "config_key"
          /\ k.call = proc[p].call /\ k.file = proc[p].file /\ k.txn = proc[p].txn
          /\ k.stale = proc[p].stale /\ k.keys = proc[p].keys
      BY <1>3, <1>5, ChangePc, ZenonT(60)
    <2>3. Put(p, h)
      BY <1>5, Zenon
    <2> HIDE DEF h, k
    <2>4. OnMigrating(k, h)
      BY <1>3, <2>1, <2>2, Zenon DEF OnMigrating, Upgrading, HasConfig
    <2>5. h.wallet \subseteq h.old \cup Moved(h)
      BY <1>4, <2>1, Zenon DEF Moved
    <2>6. k.pc \in Migrating \ {"indy_key"}
      BY <2>2, Zenon DEF Migrating
    <2>7. /\ \A q, r \in h.profs : q.wrap = r.wrap /\ (q.name = r.name => q = r)
          /\ \A r \in h.profs : r = ProfileRow(r.id, r.name, r.wrap, r.key)
          /\ File(p).profs \subseteq h.profs /\ ~h.mixed
      BY <1>3, <1>4, <2>1, ZenonT(60)
    <2> HIDE DEF f
    <2> QED
      BY <1>1, <1>2, <2>1, <2>2, <2>3, <2>4, <2>5, <2>6, <2>7, MigrateWrites, ZenonT(60)
  <1>6. CASE /\ proc[p].pc = "config_key"
             /\ Put(p, [f EXCEPT !.config.key = ref]) /\ proc' = [proc EXCEPT ![p].pc = "init_profile"]
    <2> DEFINE h == [f EXCEPT !.config.key = ref]
               k == [proc[p] EXCEPT !.pc = "init_profile"]
    <2>1. /\ IsFile(h) /\ h.config.profile = f.config.profile /\ h.config.version = f.config.version
          /\ h.config.key = ref
          /\ h.mixed = f.mixed /\ h.tables = f.tables /\ h.profs = f.profs /\ h.items = f.items
          /\ h.old = f.old /\ h.wallet = f.wallet
      <3> HIDE DEF f, ref
      <3> QED
        BY <1>3, Zenon DEF IsFile
    <2>2. /\ proc' = [proc EXCEPT ![p] = k] /\ IsProc(k) /\ k.pc = "init_profile"
          /\ k.call = proc[p].call /\ k.file = proc[p].file /\ k.txn = proc[p].txn
          /\ k.stale = proc[p].stale /\ k.keys = proc[p].keys
      BY <1>3, <1>6, ChangePc, ZenonT(60)
    <2>3. Put(p, h)
      BY <1>6, Zenon
    <2> HIDE DEF h, k
    <2>4. OnMigrating(k, h)
      BY <1>3, <1>6, <2>1, <2>2, Zenon DEF OnMigrating, Upgrading, HasConfig
    <2>5. h.wallet \subseteq h.old \cup Moved(h)
      BY <1>4, <2>1, ZenonT(60) DEF Moved
    <2>6. k.pc \in Migrating \ {"indy_key"}
      BY <2>2, Zenon DEF Migrating
    <2>7. /\ \A q, r \in h.profs : q.wrap = r.wrap /\ (q.name = r.name => q = r)
          /\ \A r \in h.profs : r = ProfileRow(r.id, r.name, r.wrap, r.key)
          /\ File(p).profs \subseteq h.profs /\ ~h.mixed
      BY <1>3, <1>4, <2>1, ZenonT(60)
    <2> HIDE DEF f
    <2> QED
      BY <1>1, <1>2, <2>1, <2>2, <2>3, <2>4, <2>5, <2>6, <2>7, MigrateWrites, Zenon
  <1> QED
    BY <1>1, <1>5, <1>6

LEMMA InitProfileOK ==
    ASSUME SInv, NEW p \in Procs, InitProfile(p)
    PROVE  SInv'
  <1> DEFINE f == File(p)
             row == ProfileRow(1, proc[p].call.profile, proc[p].keys.skey, proc[p].keys.pkey)
             h == [f EXCEPT !.profs = {row}]
             k == [proc[p] EXCEPT !.pc = "fetch"]
  <1>1. /\ proc[p].pc = "init_profile" /\ backend' = backend /\ at' = at
        /\ \/ Fail(p) /\ files' = files
           \/ f.profs = {} /\ Put(p, h) /\ proc' = [proc EXCEPT ![p].pc = "fetch"]
    BY Zenon DEF InitProfile, To
  <1>2. proc[p].pc \in Migrating \ {"indy_key"} /\ proc[p].pc \in Migrating /\ proc[p].pc \notin {"free", "done"}
    BY <1>1, Zenon DEF Migrating
  <1>3. /\ backend = "sqlite"
        /\ proc = [q \in Procs |-> proc[q]] /\ IsProc(proc[p])
        /\ IsFile(f) /\ FileOK(backend, f) /\ ~f.mixed /\ OnMigrating(proc[p], f)
    BY <1>2, MigrationFacts, Zenon
  <1>4. CASE Fail(p) /\ files' = files
    BY <1>1, <1>2, <1>4, FailKeeps, Zenon
  <1>5. CASE f.profs = {} /\ Put(p, h) /\ proc' = [proc EXCEPT ![p].pc = "fetch"]
    <2>1. row = ProfileRow(row.id, row.name, row.wrap, row.key)
      BY Zenon DEF ProfileRow
    <2> HIDE DEF row
    <2>2. /\ IsFile(h) /\ h.config = f.config /\ h.mixed = f.mixed /\ h.tables = f.tables
          /\ h.profs = {row} /\ h.items = f.items /\ h.old = f.old /\ h.wallet = f.wallet
      <3> HIDE DEF f
      <3> QED
        BY <1>3, Zenon DEF IsFile
    <2>3. /\ proc' = [proc EXCEPT ![p] = k] /\ IsProc(k) /\ k.pc = "fetch"
          /\ k.call = proc[p].call /\ k.file = proc[p].file /\ k.txn = proc[p].txn
          /\ k.stale = proc[p].stale /\ k.keys = proc[p].keys
      BY <1>3, <1>5, ChangePc, ZenonT(60)
    <2>4. Put(p, h)
      BY <1>5, Zenon
    <2> HIDE DEF h, k
    <2>5. OnMigrating(k, h)
      <3>1. ProfileRow(1, k.call.profile, k.keys.skey, k.keys.pkey) = row
        BY <2>3, Zenon DEF row
      <3>2. ProfileRow(1, k.call.profile, k.keys.skey, k.keys.pkey) \in h.profs
        BY <2>2, <3>1, Zenon
      <3>3. /\ HasConfig(h) /\ AllTables \subseteq h.tables /\ h.config.version # "1"
            /\ h.config.profile = k.call.profile /\ h.config.key = k.keys.ref
        BY <1>1, <1>3, <2>2, <2>3, Zenon DEF OnMigrating, HasConfig
      <3> QED
        BY <2>3, <3>2, <3>3, Zenon DEF OnMigrating
    <2>6. h.wallet \subseteq h.old \cup Moved(h)
      <3>1. f.wallet \subseteq f.old \cup Moved(f)
        BY <1>3, Zenon DEF FileOK
      <3>2. Moved(f) \subseteq Moved(h)
        BY <1>5, <2>2, MovedGrows, Zenon
      <3> QED
        BY <2>2, <3>1, <3>2, Zenon
    <2>7. k.pc \in Migrating \ {"indy_key"}
      BY <2>3, Zenon DEF Migrating, Upgrading
    <2>8. /\ \A q, r \in h.profs : q.wrap = r.wrap /\ (q.name = r.name => q = r)
          /\ \A r \in h.profs : r = ProfileRow(r.id, r.name, r.wrap, r.key)
          /\ File(p).profs \subseteq h.profs /\ ~h.mixed
      BY <1>3, <1>5, <2>1, <2>2, Zenon
    <2> HIDE DEF f
    <2> QED
      BY <1>1, <1>2, <2>2, <2>3, <2>4, <2>5, <2>6, <2>7, <2>8, MigrateWrites, ZenonT(60)
  <1> QED
    BY <1>1, <1>4, <1>5

LEMMA FetchPendingOK ==
    ASSUME SInv, NEW p \in Procs, FetchPending(p)
    PROVE  SInv'
  <1> DEFINE f == File(p)
  <1>1. /\ proc[p].pc = "fetch" /\ backend' = backend /\ at' = at /\ files' = files
        /\ \/ f.old = {} /\ proc' = [proc EXCEPT ![p].pc = "finish"]
           \/ \E i : proc' = [proc EXCEPT ![p].pc = "insert", ![p].todo = i]
    BY Zenon DEF FetchPending, To
  <1>2. proc[p].pc \in Migrating \ {"indy_key"} /\ proc[p].pc \in Migrating /\ proc[p].pc \in Upgrading
    BY <1>1, Zenon DEF Migrating, Upgrading
  <1>3. /\ backend = "sqlite"
        /\ proc = [q \in Procs |-> proc[q]] /\ IsProc(proc[p])
        /\ proc[p].file # 0 /\ proc[p].call \in Calls /\ ~proc[p].stale /\ ~proc[p].txn
        /\ OnMigrating(proc[p], f)
        /\ proc[p].keys.skey \in ResolveRef(proc[p].keys.ref, proc[p].call.pass)
    BY <1>2, MigrationFacts, Zenon
  <1>4. PICK k : /\ proc' = [proc EXCEPT ![p] = k] /\ IsProc(k)
                 /\ k.pc = "insert" \/ (k.pc = "finish" /\ f.old = {})
                 /\ k.call = proc[p].call /\ k.file = proc[p].file /\ k.keys = proc[p].keys
                 /\ k.txn = proc[p].txn /\ k.stale = proc[p].stale
    <2>1. CASE f.old = {} /\ proc' = [proc EXCEPT ![p].pc = "finish"]
      <3> DEFINE k == [proc[p] EXCEPT !.pc = "finish"]
      <3>1. /\ proc' = [proc EXCEPT ![p] = k] /\ IsProc(k) /\ k.pc = "finish"
            /\ k.call = proc[p].call /\ k.file = proc[p].file /\ k.keys = proc[p].keys
            /\ k.txn = proc[p].txn /\ k.stale = proc[p].stale
        BY <1>3, <2>1, ChangePc, ZenonT(60)
      <3> HIDE DEF k
      <3> QED
        BY <2>1, <3>1, Zenon
    <2>2. ASSUME NEW i, proc' = [proc EXCEPT ![p].pc = "insert", ![p].todo = i]
          PROVE  \E k : /\ proc' = [proc EXCEPT ![p] = k] /\ IsProc(k)
                        /\ k.pc = "insert" \/ (k.pc = "finish" /\ f.old = {})
                        /\ k.call = proc[p].call /\ k.file = proc[p].file /\ k.keys = proc[p].keys
                        /\ k.txn = proc[p].txn /\ k.stale = proc[p].stale
      <3> DEFINE k == [proc[p] EXCEPT !.pc = "insert", !.todo = i]
      <3>1. /\ proc' = [proc EXCEPT ![p] = k] /\ IsProc(k) /\ k.pc = "insert"
            /\ k.call = proc[p].call /\ k.file = proc[p].file /\ k.keys = proc[p].keys
            /\ k.txn = proc[p].txn /\ k.stale = proc[p].stale
        BY <1>3, <2>2, Zenon DEF IsProc
      <3> HIDE DEF k
      <3> QED
        BY <3>1, Zenon
    <2> QED
      BY <1>1, <2>1, <2>2
  <1>5. k.pc \in Migrating /\ k.pc \in Upgrading
    BY <1>4, Zenon DEF Migrating, Upgrading
  <1>6. Placed(backend, k)
    <2>1. /\ k.file # 0 /\ k.call \in Calls /\ ~k.txn /\ ~k.stale
          /\ k.keys.skey \in ResolveRef(k.keys.ref, k.call.pass)
      BY <1>3, <1>4, Zenon
    <2> QED
      BY <1>3, <1>5, <2>1, MigratingPlaced, Zenon
  <1>7. OnMigrating(k, f)
    <2>1. /\ HasConfig(f) /\ AllTables \subseteq f.tables /\ f.config.version # "1"
          /\ f.config.profile = proc[p].call.profile /\ f.config.key = proc[p].keys.ref
          /\ ProfileRow(1, proc[p].call.profile, proc[p].keys.skey, proc[p].keys.pkey) \in f.profs
      BY <1>1, <1>2, <1>3, Zenon DEF OnMigrating
    <2>2. k.pc # "delete" /\ (k.pc = "finish" => f.old = {})
      BY <1>4, Zenon
    <2> HIDE DEF f
    <2> QED
      BY <1>4, <2>1, <2>2, Zenon DEF OnMigrating
  <1>8. On(backend, k, f)
    BY <1>3, <1>4, <1>5, <1>7, MigratingOn, Zenon
  <1> QED
    BY <1>1, <1>2, <1>4, <1>6, <1>8, MigrateMoves, Zenon

\* What a step of update_items_in_db of call j makes of its file f.
Updates(f, j, h) ==
    \/ /\ j.pc = "insert"
       /\ h = [f EXCEPT !.items = f.items \cup {Item(1, j.keys.pkey, j.todo[1], FALSE)}]
    \/ /\ j.pc = "tags"
       /\ h = [f EXCEPT !.items = (f.items \ {Item(1, j.keys.pkey, j.todo[1], FALSE)})
                                    \cup {Item(1, j.keys.pkey, j.todo[1], TRUE)}]
    \/ /\ j.pc = "delete"
       /\ h = [f EXCEPT !.old = f.old \ {j.todo[1]}]

\* The item call j is at, with its tags.
Whole(j) == Item(1, j.keys.pkey, j.todo[1], TRUE)

LEMMA UpdateItemOK ==
    ASSUME NEW f, NEW j, NEW h, Updates(f, j, h), IsFile(f), OnMigrating(j, f),
           f.wallet \subseteq f.old \cup Moved(f)
    PROVE  /\ IsFile(h) /\ h.config = f.config /\ h.mixed = f.mixed /\ h.tables = f.tables
           /\ h.profs = f.profs /\ h.wallet = f.wallet
           /\ h.wallet \subseteq h.old \cup Moved(h)
           /\ j.pc = "tags" => Whole(j) \in h.items
  <1> DEFINE new == Item(1, j.keys.pkey, j.todo[1], FALSE)
             whole == Item(1, j.keys.pkey, j.todo[1], TRUE)
  <1>1. ~new.tagged
    BY SMTT(60) DEF Item
  <1>2. CASE j.pc = "insert" /\ h = [f EXCEPT !.items = f.items \cup {new}]
    <2> HIDE DEF new
    <2>1. /\ IsFile(h) /\ h.config = f.config /\ h.mixed = f.mixed /\ h.tables = f.tables
          /\ h.profs = f.profs /\ h.wallet = f.wallet /\ h.old = f.old /\ h.items = f.items \cup {new}
      BY <1>2, Zenon DEF IsFile
    <2>2. Moved(f) \subseteq Moved(h)
      BY <2>1, MovedGrows, Zenon
    <2> QED
      BY <1>2, <2>1, <2>2, Zenon
  <1>3. CASE j.pc = "tags" /\ h = [f EXCEPT !.items = (f.items \ {new}) \cup {whole}]
    <2> HIDE DEF new, whole
    <2>1. /\ IsFile(h) /\ h.config = f.config /\ h.mixed = f.mixed /\ h.tables = f.tables
          /\ h.profs = f.profs /\ h.wallet = f.wallet /\ h.old = f.old
          /\ h.items = (f.items \ {new}) \cup {whole}
      BY <1>3, Zenon DEF IsFile
    <2>2. \A t \in f.items : t.tagged => t \in h.items
      BY <1>1, <2>1, Zenon
    <2>3. Moved(f) \subseteq Moved(h)
      BY <2>1, <2>2, MovedGrows, Zenon
    <2> QED
      BY <1>3, <2>1, <2>3, Zenon DEF whole, Whole
  <1>4. CASE j.pc = "delete" /\ h = [f EXCEPT !.old = f.old \ {j.todo[1]}]
    <2> DEFINE i == j.todo[1]
    <2> HIDE DEF i
    <2>1. /\ IsFile(h) /\ h.config = f.config /\ h.mixed = f.mixed /\ h.tables = f.tables
          /\ h.profs = f.profs /\ h.wallet = f.wallet /\ h.old = f.old \ {i} /\ h.items = f.items
      BY <1>4, Zenon DEF IsFile, i
    <2>2. Moved(h) = Moved(f)
      BY <2>1, Zenon DEF Moved
    <2> DEFINE r == ProfileRow(1, j.call.profile, j.keys.skey, j.keys.pkey)
    <2>3. whole \in f.items /\ r \in f.profs
      BY <1>4, Zenon DEF OnMigrating, Upgrading
    <2>4. whole.tagged /\ whole.item = i /\ r.id = whole.id /\ r.key = whole.key
      BY SMTT(60) DEF Item, ProfileRow, i
    <2> HIDE DEF r, whole
    <2>5. i \in Moved(f)
      BY <2>3, <2>4, Zenon DEF Moved
    <2> QED
      BY <1>4, <2>1, <2>2, <2>5, Zenon
  <1> QED
    BY <1>2, <1>3, <1>4, Zenon DEF Updates

LEMMA UpdateItemsOK ==
    ASSUME SInv, NEW p \in Procs, UpdateItems(p)
    PROVE  SInv'
  <1> DEFINE f == File(p)
             j == proc[p]
             h == UpdateItem(p, j.pc).f
             to == UpdateItem(p, j.pc).to
             k == [proc[p] EXCEPT !.pc = to]
  <1>1. /\ j.pc \in {"insert", "tags", "delete"} /\ backend' = backend /\ at' = at
        /\ Put(p, h) /\ proc' = [proc EXCEPT ![p].pc = to]
    BY Zenon DEF UpdateItems, To
  <1>2. /\ to \in {"tags", "delete", "fetch"} /\ (to = "delete" => j.pc = "tags")
        /\ Updates(f, j, h)
    <2>1. CASE j.pc = "insert"
      <3> DEFINE g == [f EXCEPT !.items = f.items \cup {Item(1, j.keys.pkey, j.todo[1], FALSE)}]
      <3>1. UpdateItem(p, "insert") = [to |-> "tags", f |-> g]
        BY SMTT(60) DEF UpdateItem, Updated
      <3> DEFINE u == UpdateItem(p, j.pc)
      <3>2. u = UpdateItem(p, "insert")
        BY <2>1, Zenon
      <3> HIDE DEF g, u
      <3>3. u.f = g /\ u.to = "tags"
        BY <3>1, <3>2, SMTT(60)
      <3>4. h = g /\ to = "tags"
        BY <3>3, Zenon DEF u
      <3> HIDE DEF h, to
      <3> QED
        BY <2>1, <3>4, Zenon DEF g, Updates
    <2>2. CASE j.pc = "tags"
      <3> DEFINE g == [f EXCEPT !.items = (f.items \ {Item(1, j.keys.pkey, j.todo[1], FALSE)})
                                      \cup {Item(1, j.keys.pkey, j.todo[1], TRUE)}]
      <3>1. UpdateItem(p, "tags") = [to |-> "delete", f |-> g]
        BY SMTT(60) DEF UpdateItem, Updated
      <3> DEFINE u == UpdateItem(p, j.pc)
      <3>2. u = UpdateItem(p, "tags")
        BY <2>2, Zenon
      <3> HIDE DEF g, u
      <3>3. u.f = g /\ u.to = "delete"
        BY <3>1, <3>2, SMTT(60)
      <3>4. h = g /\ to = "delete"
        BY <3>3, Zenon DEF u
      <3> HIDE DEF h, to
      <3> QED
        BY <2>2, <3>4, Zenon DEF g, Updates
    <2>3. CASE j.pc = "delete"
      <3> DEFINE g == [f EXCEPT !.old = f.old \ {j.todo[1]}]
      <3>1. UpdateItem(p, "delete") = [to |-> "fetch", f |-> g]
        BY SMTT(60) DEF UpdateItem, Updated
      <3> DEFINE u == UpdateItem(p, j.pc)
      <3>2. u = UpdateItem(p, "delete")
        BY <2>3, Zenon
      <3> HIDE DEF g, u
      <3>3. u.f = g /\ u.to = "fetch"
        BY <3>1, <3>2, SMTT(60)
      <3>4. h = g /\ to = "fetch"
        BY <3>3, Zenon DEF u
      <3> HIDE DEF h, to
      <3> QED
        BY <2>3, <3>4, Zenon DEF g, Updates
    <2> QED
      BY <1>1, <2>1, <2>2, <2>3
  <1>3. proc[p].pc \in Migrating \ {"indy_key"} /\ proc[p].pc \in Migrating /\ proc[p].pc \in Upgrading
    BY <1>1, Zenon DEF Migrating, Upgrading
  <1>4. /\ backend = "sqlite"
        /\ proc = [q \in Procs |-> proc[q]] /\ IsProc(proc[p])
        /\ IsFile(f) /\ FileOK(backend, f) /\ ~f.mixed /\ OnMigrating(j, f)
    BY <1>3, MigrationFacts, Zenon
  <1>5. /\ f.wallet \subseteq f.old \cup Moved(f)
        /\ \A q, r \in f.profs : q.wrap = r.wrap /\ (q.name = r.name => q = r)
        /\ \A r \in f.profs : r = ProfileRow(r.id, r.name, r.wrap, r.key)
    BY <1>4, Zenon DEF FileOK
  <1> HIDE DEF f, h, to
  <1>6. /\ IsFile(h) /\ h.config = f.config /\ h.mixed = f.mixed /\ h.tables = f.tables
        /\ h.profs = f.profs /\ h.wallet = f.wallet
        /\ h.wallet \subseteq h.old \cup Moved(h)
        /\ j.pc = "tags" => Whole(j) \in h.items
    <2> HIDE DEF j
    <2>1. /\ Updates(f, j, h) /\ IsFile(f) /\ OnMigrating(j, f)
          /\ f.wallet \subseteq f.old \cup Moved(f)
      BY <1>1, <1>2, <1>4, <1>5, Zenon
    <2> QED
      BY <2>1, UpdateItemOK, Zenon
  <1>7. /\ proc' = [proc EXCEPT ![p] = k] /\ IsProc(k) /\ k.pc = to
        /\ k.call = proc[p].call /\ k.file = proc[p].file /\ k.txn = proc[p].txn
        /\ k.stale = proc[p].stale /\ k.keys = proc[p].keys /\ k.todo = proc[p].todo
    BY <1>1, <1>4, ChangePc, ZenonT(60)
  <1> HIDE DEF k
  <1>8. k.pc \in Migrating \ {"indy_key"} /\ k.pc \in Upgrading
    BY <1>2, <1>7, Zenon DEF Migrating, Upgrading
  <1>9. OnMigrating(k, h)
    <2>1. /\ HasConfig(f) /\ AllTables \subseteq f.tables /\ f.config.version # "1"
          /\ f.config.profile = proc[p].call.profile /\ f.config.key = proc[p].keys.ref
          /\ ProfileRow(1, proc[p].call.profile, proc[p].keys.skey, proc[p].keys.pkey) \in f.profs
      BY <1>1, <1>3, <1>4, Zenon DEF OnMigrating
    <2>2. k.pc # "finish" /\ (k.pc = "delete" => Item(1, k.keys.pkey, k.todo[1], TRUE) \in h.items)
      BY <1>2, <1>6, <1>7, Zenon DEF Whole
    <2> QED
      BY <1>6, <1>7, <2>1, <2>2, Zenon DEF OnMigrating, HasConfig
  <1>10. /\ \A q, r \in h.profs : q.wrap = r.wrap /\ (q.name = r.name => q = r)
         /\ \A r \in h.profs : r = ProfileRow(r.id, r.name, r.wrap, r.key)
         /\ File(p).profs \subseteq h.profs /\ ~h.mixed
    BY <1>4, <1>5, <1>6, Zenon DEF f
  <1> QED
    BY <1>1, <1>3, <1>6, <1>7, <1>8, <1>9, <1>10, MigrateWrites, Zenon

LEMMA FinishUpgradeOK ==
    ASSUME SInv, NEW p \in Procs, FinishUpgrade(p)
    PROVE  SInv'
  <1> DEFINE f == File(p)
             gone == {"items_old", "metadata"}
             pass == proc[p].call.pass
             h == [f EXCEPT !.tables = f.tables \ gone, !.old = {}, !.config.version = "1", !.by = pass]
             k == [proc[p] EXCEPT !.pc = "reopen", !.file = 0]
  <1>1. /\ proc[p].pc = "finish" /\ backend' = backend /\ at' = at
        /\ Put(p, h) /\ proc' = [proc EXCEPT ![p].pc = "reopen", ![p].file = 0]
    BY Zenon DEF FinishUpgrade
  <1>2. proc[p].pc \in Migrating \ {"indy_key"} /\ proc[p].pc \in Migrating /\ proc[p].pc \in Upgrading
    BY <1>1, Zenon DEF Migrating, Upgrading
  <1>3. /\ backend = "sqlite" /\ backend # "odbc"
        /\ proc = [q \in Procs |-> proc[q]] /\ IsProc(proc[p])
        /\ proc[p].call \in Calls /\ ~proc[p].stale /\ proc[p].stale \in BOOLEAN /\ ~proc[p].txn
        /\ IsFile(f) /\ FileOK(backend, f) /\ ~f.mixed /\ OnMigrating(proc[p], f)
        /\ proc[p].keys.skey \in ResolveRef(proc[p].keys.ref, pass)
    BY <1>2, MigrationFacts, Zenon
  <1>4. /\ proc' = [proc EXCEPT ![p] = k] /\ IsProc(k) /\ k.pc = "reopen" /\ k.file = 0
        /\ k.call = proc[p].call /\ ~k.txn /\ ~k.stale
    <2>1. 0 \in Nat
      BY SMT
    <2> QED
      BY <1>1, <1>3, <2>1, Zenon DEF IsProc
  <1> HIDE DEF k
  <1>5. Placed(backend, k)
    BY <1>3, <1>4, Zenon DEF Placed, Connected, Provides, Migrating, Upgrading, Holds, OdbcOnly, Apiece
  <1>6. /\ IsFile(h) /\ h.mixed = f.mixed /\ h.tables = f.tables \ gone /\ h.profs = f.profs /\ h.items = f.items
        /\ h.old = {} /\ h.wallet = f.wallet /\ h.by = pass
        /\ h.config.version = "1" /\ h.config.profile = f.config.profile /\ h.config.key = f.config.key
    <2> HIDE DEF f, gone, pass
    <2> QED
      BY <1>3, Zenon DEF IsFile
  <1>7. Put(p, h)
    BY <1>1, Zenon
  <1> HIDE DEF h
  <1>8. PICK g : /\ files' = [files EXCEPT ![proc[p].file] = g]
                 /\ IsFile(g) /\ g.mixed = (h.mixed \/ proc[p].stale)
                 /\ g.tables = h.tables /\ g.config = h.config /\ g.profs = h.profs /\ g.items = h.items
                 /\ g.old = h.old /\ g.wallet = h.wallet /\ g.by = h.by
    BY <1>3, <1>6, <1>7, PutGives, Zenon
  <1>9. /\ ~g.mixed /\ g.tables = f.tables \ gone /\ g.profs = f.profs /\ g.items = f.items
        /\ g.old = {} /\ g.wallet = f.wallet /\ g.by = pass
        /\ g.config.version = "1" /\ g.config.profile = f.config.profile /\ g.config.key = f.config.key
    BY <1>3, <1>6, <1>8, Zenon
  <1> DEFINE row == ProfileRow(1, proc[p].call.profile, proc[p].keys.skey, proc[p].keys.pkey)
  <1>10. /\ AllTables \subseteq f.tables /\ f.old = {}
         /\ f.config.profile = proc[p].call.profile /\ f.config.key = proc[p].keys.ref
         /\ row \in f.profs
    BY <1>1, <1>2, <1>3, Zenon DEF OnMigrating
  <1>11. row.name = proc[p].call.profile /\ row.wrap = proc[p].keys.skey
    BY Zenon DEF ProfileRow
  <1> HIDE DEF row, gone
  <1>12. OpensAgain(g)
    <2>1. row \in g.profs /\ row.name = g.config.profile /\ row.wrap \in ResolveRef(g.config.key, g.by)
      BY <1>3, <1>9, <1>10, <1>11, Zenon
    <2> QED
      BY <2>1, Zenon DEF OpensAgain
  <1>13. AllTables \subseteq g.tables /\ HasConfig(g) /\ "items" \in g.tables
    <2>1. \A t \in AllTables : t \notin gone
      BY AllTablesAre, Zenon DEF gone
    <2>2. "config" \in AllTables /\ "items" \in AllTables
      BY AllTablesAre, Zenon
    <2> QED
      BY <1>9, <1>10, <2>1, <2>2, Zenon DEF HasConfig
  <1>14. /\ g.wallet \subseteq g.old \cup Moved(g)
         /\ \A q, r \in g.profs : q.wrap = r.wrap /\ (q.name = r.name => q = r)
         /\ \A r \in g.profs : r = ProfileRow(r.id, r.name, r.wrap, r.key)
    <2>1. /\ f.wallet \subseteq f.old \cup Moved(f)
          /\ \A q, r \in f.profs : q.wrap = r.wrap /\ (q.name = r.name => q = r)
          /\ \A r \in f.profs : r = ProfileRow(r.id, r.name, r.wrap, r.key)
      BY <1>3, Zenon DEF FileOK
    <2>2. Moved(g) = Moved(f)
      BY <1>9, Zenon DEF Moved
    <2> HIDE DEF f
    <2> QED
      BY <1>9, <1>10, <2>1, <2>2, Zenon
  <1>15. FileOK(backend, g) /\ g.tables # {}
    <2> HIDE DEF f
    <2> QED
      BY <1>3, <1>9, <1>12, <1>13, <1>14, Zenon DEF FileOK
  <1>16. File(p).profs \subseteq g.profs
    BY <1>9, Zenon
  <1> HIDE DEF f
  <1> QED
    BY <1>1, <1>2, <1>4, <1>5, <1>8, <1>9, <1>15, <1>16, MigrateKeeps, Zenon
----------------------------------------------------------------------------
(***************************************************************************)
(* The copy.  A call that has an instance adds profiles and items.         *)
(***************************************************************************)
\* k is call j, further on, with its instance.
HeldOn(k, j) ==
    /\ IsProc(k) /\ k.pc \in Holds /\ k.call = j.call /\ k.file = j.file /\ k.stale = j.stale
    /\ k.txn => k.pc = "import"

LEMMA HoldsFacts ==
    ASSUME SInv, NEW p \in Procs, proc[p].pc \in Holds
    PROVE  /\ proc = [q \in Procs |-> proc[q]] /\ IsProc(proc[p]) /\ Placed(backend, proc[p])
           /\ proc[p].file \in DOMAIN files /\ proc[p].file # 0 /\ proc[p].stale \in BOOLEAN
           /\ IsFile(File(p)) /\ FileOK(backend, File(p)) /\ On(backend, proc[p], File(p))
           /\ ~proc[p].stale /\ ~File(p).mixed => OnCurrent(proc[p], File(p))
           /\ backend = "sqlite" => ~proc[p].stale
           /\ proc[p].pc \notin {"free", "done"}
           /\ proc[p].txn => proc[p].pc = "import"
  <1>1. proc[p].pc \in Connected /\ proc[p].pc \notin {"free", "done", "keys", "init"}
    BY Zenon DEF Connected, Holds
  <1>2. /\ proc = [q \in Procs |-> proc[q]] /\ IsProc(proc[p]) /\ Placed(backend, proc[p])
        /\ proc[p].file \in DOMAIN files /\ proc[p].file # 0
        /\ IsFile(File(p)) /\ FileOK(backend, File(p)) /\ On(backend, proc[p], File(p))
    BY <1>1, ConnectedFacts, Zenon
  <1>3. /\ proc[p].stale \in BOOLEAN /\ (backend = "sqlite" => ~proc[p].stale)
        /\ proc[p].txn => proc[p].pc = "import"
    BY <1>1, <1>2, Zenon DEF Placed, IsProc
  <1>4. ~proc[p].stale /\ ~File(p).mixed => OnCurrent(proc[p], File(p))
    BY <1>2, Zenon DEF On
  <1> QED
    BY <1>1, <1>2, <1>3, <1>4, Zenon

LEMMA HeldOnPlaced ==
    ASSUME NEW b, NEW j, NEW k, HeldOn(k, j), Placed(b, j), j.pc \in Holds,
           NEW f, NEW g, On(b, j, f), f.tables \subseteq g.tables,
           ~j.stale /\ ~g.mixed => OnCurrent(k, g)
    PROVE  /\ Placed(b, k) /\ On(b, k, g)
           /\ k.pc \notin Migrating \cup {"insert_profile", "drop", "schema"}
  <1>1. /\ k.pc \notin Apiece \cup {"free", "done", "check", "drop", "keys", "schema"} \cup Provides \cup OdbcOnly
        /\ k.pc \notin {"create", "reconnect"}
        /\ k.pc \notin Migrating \cup {"insert_profile", "drop", "schema", "is_migrated", "pre_upgrade"}
        /\ j.pc \in Connected /\ j.pc \notin {"free", "done"}
    BY Zenon DEF HeldOn, Holds, Apiece, Provides, OdbcOnly, Migrating, Upgrading, Connected
  <1>2. /\ j.file # 0 /\ j.call \in Calls /\ (j.call.op = "migrate" => b = "sqlite")
        /\ b = "sqlite" => ~j.stale
    BY <1>1, Zenon DEF Placed
  <1>3. Placed(b, k)
    BY <1>1, <1>2, Zenon DEF Placed, HeldOn, Provides
  <1>4. On(b, k, g)
    BY <1>1, Zenon DEF On, HeldOn
  <1> QED
    BY <1>1, <1>3, <1>4, Zenon

LEMMA HoldsMoves ==
    ASSUME SInv, NEW p \in Procs, proc[p].pc \in Holds, NEW k, HeldOn(k, proc[p]),
           ~proc[p].stale /\ ~File(p).mixed => OnCurrent(k, File(p)),
           proc' = [proc EXCEPT ![p] = k], backend' = backend, files' = files, at' = at
    PROVE  SInv'
  <1>1. /\ Placed(backend, proc[p]) /\ proc[p].file \in DOMAIN files /\ proc[p].file # 0
        /\ On(backend, proc[p], File(p))
    BY HoldsFacts, Zenon
  <1>2. /\ Placed(backend, k) /\ On(backend, k, File(p))
        /\ k.pc \notin Migrating \cup {"insert_profile", "drop", "schema"}
    <2> DEFINE j == proc[p]
               f == File(p)
    <2>1. /\ HeldOn(k, j) /\ Placed(backend, j) /\ j.pc \in Holds /\ On(backend, j, f)
          /\ f.tables \subseteq f.tables /\ (~j.stale /\ ~f.mixed => OnCurrent(k, f))
      BY <1>1, Zenon
    <2> HIDE DEF j, f
    <2>2. /\ Placed(backend, k) /\ On(backend, k, f)
          /\ k.pc \notin Migrating \cup {"insert_profile", "drop", "schema"}
      BY <2>1, HeldOnPlaced, Zenon
    <2> QED
      BY <2>2, Zenon DEF f
  <1>3. Moves(p, k)
    BY <1>1, <1>2, PlainApart, Zenon DEF Moves, HeldOn, File, SInv, FilesOK
  <1> QED
    BY <1>3, MovesKeeps, Zenon

LEMMA HoldsWrites ==
    ASSUME SInv, NEW p \in Procs, proc[p].pc \in Holds, NEW k, HeldOn(k, proc[p]),
           NEW g, IsFile(g), FileOK(backend, g), ~g.mixed => ~File(p).mixed /\ ~proc[p].stale,
           g.tables = File(p).tables, g.config = File(p).config, g.by = File(p).by, g.old = File(p).old,
           File(p).profs \subseteq g.profs, File(p).items \subseteq g.items,
           ~g.mixed => OnCurrent(k, g) /\ (g.profs = File(p).profs \/ File(p).profs # {}),
           files' = [files EXCEPT ![proc[p].file] = g],
           proc' = [proc EXCEPT ![p] = k], backend' = backend, at' = at
    PROVE  SInv'
  <1> DEFINE f == File(p)
             j == proc[p]
  <1>1. /\ Placed(backend, j) /\ proc[p].file \in DOMAIN files /\ proc[p].file # 0
        /\ On(backend, j, f)
    BY HoldsFacts, Zenon
  <1>2. /\ HeldOn(k, j) /\ j.pc \in Holds /\ (~g.mixed => ~f.mixed /\ ~j.stale)
        /\ g.tables = f.tables /\ g.config = f.config /\ g.by = f.by /\ g.old = f.old
        /\ f.profs \subseteq g.profs /\ f.items \subseteq g.items /\ f.tables \subseteq g.tables
        /\ ~g.mixed => OnCurrent(k, g) /\ (g.profs = f.profs \/ f.profs # {})
        /\ ~j.stale /\ ~g.mixed => OnCurrent(k, g)
        /\ f.mixed => g.mixed
    BY Zenon
  <1>3. ASSUME NEW q \in Procs \ {p}, proc[q].file = proc[p].file
        PROVE  On(backend, proc[q], f)
    BY <1>1, <1>3, OthersFacts, Zenon
  <1>4. files[proc[p].file] = f
    BY Zenon DEF File
  <1> HIDE DEF f, j
  <1>5. /\ Placed(backend, k) /\ On(backend, k, g)
        /\ k.pc \notin Migrating \cup {"insert_profile", "drop", "schema"}
    <2>1. /\ HeldOn(k, j) /\ Placed(backend, j) /\ j.pc \in Holds /\ On(backend, j, f)
          /\ f.tables \subseteq g.tables /\ (~j.stale /\ ~g.mixed => OnCurrent(k, g))
      BY <1>1, <1>2, Zenon
    <2> QED
      BY <2>1, HeldOnPlaced, Zenon
  <1>6. ASSUME NEW q \in Procs \ {p}, proc[q].file = proc[p].file
        PROVE  On(backend, proc[q], g)
    <2> DEFINE m == proc[q]
    <2>1. On(backend, m, f)
      BY <1>3, <1>6, Zenon
    <2> HIDE DEF m
    <2>2. ~m.stale /\ ~g.mixed => OnCurrent(m, f)
      BY <1>2, <2>1, Zenon DEF On
    <2>3. ~m.stale /\ ~g.mixed /\ m.pc = "insert_profile" => g.profs = {}
      BY <1>2, <2>2, Zenon DEF OnCurrent
    <2>4. ~m.stale /\ ~g.mixed /\ m.pc = "drop" /\ m.todo = <<"config">> => "profiles" \notin g.tables
      BY <1>2, <2>2, Zenon DEF OnCurrent
    <2>5. On(backend, m, g)
      BY <1>2, <2>1, <2>3, <2>4, OnGrows, Zenon
    <2> QED
      BY <2>5, Zenon DEF m
  <1>7. Writes(p, k, proc[p].file, g)
    <2>1. \A q \in Procs : Apart(k, proc[q], g) /\ Apart(proc[q], k, g)
      BY <1>5, PlainApart, Zenon
    <2>2. IsProc(k) /\ k.file = proc[p].file
      BY Zenon DEF HeldOn
    <2> QED
      BY <1>1, <1>2, <1>4, <1>5, <1>6, <2>1, <2>2, ZenonT(60) DEF Writes
  <1> QED
    BY <1>7, WritesKeeps, Zenon

\* The instance's store key is that of the profiles.
LEMMA HeldKey ==
    ASSUME NEW b, NEW f, NEW j, j.pc \in Holds, OnCurrent(j, f), FileOK(b, f), ~f.mixed
    PROVE  /\ f.profs # {} /\ \A r \in f.profs : r.wrap = j.inst.skey
           /\ f.config.version = "1" /\ (f.by # Absent => OpensAgain(f))
           /\ \A q, r \in f.profs : q.name = r.name => q = r
           /\ \A r \in f.profs : r = ProfileRow(r.id, r.name, r.wrap, r.key)
  <1>1. PICK e \in j.inst.ids : ProfileRow(e[2], e[1], j.inst.skey, e[3]) \in f.profs
    BY Zenon DEF OnCurrent
  <1> DEFINE r == ProfileRow(e[2], e[1], j.inst.skey, e[3])
  <1>2. r \in f.profs /\ r.wrap = j.inst.skey
    BY <1>1, Zenon DEF ProfileRow
  <1> HIDE DEF r
  <1>3. f.config.version = "1"
    BY Zenon DEF OnCurrent
  <1>4. /\ \A q, s \in f.profs : q.wrap = s.wrap /\ (q.name = s.name => q = s)
        /\ \A s \in f.profs : s = ProfileRow(s.id, s.name, s.wrap, s.key)
        /\ f.by # Absent => OpensAgain(f)
    BY <1>2, <1>3, ZenonT(60) DEF FileOK
  <1> QED
    BY <1>2, <1>3, <1>4, Zenon

LEMMA CreateProfileOK ==
    ASSUME SInv, NEW p \in Procs, CreateProfile(p)
    PROVE  SInv'
  <1> DEFINE f == File(p)
             j == proc[p]
             name == Target(p).name
             id == NextId(f)
             key == fresh + 1
             row == ProfileRow(id, name, j.inst.skey, key)
             e == <<row.name, row.id, row.key>>
             h == [f EXCEPT !.profs = f.profs \cup {row}]
  <1>1. /\ j.pc = "create_profile" /\ backend' = backend /\ at' = at
        /\ \/ /\ \A r \in f.profs : r.name # name
              /\ "profiles" \in f.tables /\ Put(p, h)
              /\ proc' = [proc EXCEPT ![p].pc = "count", ![p].inst.ids = proc[p].inst.ids \cup {e}]
           \/ proc' = [proc EXCEPT ![p].pc = "count"] /\ files' = files
           \/ Fail(p) /\ files' = files
    <2> DEFINE rows == {r \in f.profs : r.name = name}
    <2>1. CASE rows = {} /\ "profiles" \in f.tables
      BY <2>1, Zenon DEF CreateProfile
    <2>2. CASE rows # {} /\ backend # "odbc"
      BY <2>2, Zenon DEF CreateProfile, To
    <2>3. CASE ~(rows = {} /\ "profiles" \in f.tables) /\ ~(rows # {} /\ backend # "odbc")
      BY <2>3, Zenon DEF CreateProfile
    <2> QED
      BY <2>1, <2>2, <2>3
  <1>2. j.pc \in Holds
    BY <1>1, Zenon DEF Holds
  <1>3. /\ proc = [q \in Procs |-> proc[q]] /\ IsProc(j) /\ j.stale \in BOOLEAN /\ ~j.txn
        /\ IsFile(f) /\ FileOK(backend, f) /\ (~j.stale /\ ~f.mixed => OnCurrent(j, f))
        /\ backend = "sqlite" => ~j.stale
        /\ j.pc \notin {"free", "done"}
    BY <1>1, <1>2, HoldsFacts, Zenon
  <1>4. CASE Fail(p) /\ files' = files
    BY <1>1, <1>3, <1>4, FailKeeps, Zenon
  <1>5. CASE proc' = [proc EXCEPT ![p].pc = "count"] /\ files' = files
    <2> DEFINE k == [proc[p] EXCEPT !.pc = "count"]
    <2>1. /\ proc' = [proc EXCEPT ![p] = k] /\ IsProc(k) /\ k.pc = "count" /\ k.call = j.call
          /\ k.file = j.file /\ k.txn = j.txn /\ k.stale = j.stale /\ k.inst = j.inst
      BY <1>3, <1>5, ChangePc, ZenonT(60)
    <2> HIDE DEF k
    <2>2. HeldOn(k, proc[p])
      BY <1>3, <2>1, Zenon DEF HeldOn, Holds
    <2>3. ~proc[p].stale /\ ~File(p).mixed => OnCurrent(k, File(p))
      BY <1>2, <1>3, <2>1, Zenon DEF OnCurrent
    <2> QED
      BY <1>1, <1>2, <1>5, <2>1, <2>2, <2>3, HoldsMoves, ZenonT(60)
  <1>6. CASE /\ \A r \in f.profs : r.name # name
             /\ "profiles" \in f.tables /\ Put(p, h)
             /\ proc' = [proc EXCEPT ![p].pc = "count", ![p].inst.ids = proc[p].inst.ids \cup {e}]
    <2> DEFINE ids == proc[p].inst.ids \cup {e}
               k == [proc[p] EXCEPT !.pc = "count", !.inst.ids = ids]
    <2>1. /\ row.name = name /\ row.wrap = j.inst.skey /\ row.id = id /\ row.key = key
          /\ row = ProfileRow(row.id, row.name, row.wrap, row.key)
      BY Zenon DEF ProfileRow
    <2> HIDE DEF row, id, key, name
    <2>2. e = <<e[1], e[2], e[3]>> /\ e[1] = row.name /\ e[2] = row.id /\ e[3] = row.key
      BY Triples, SMTT(60)
    <2> HIDE DEF e, ids
    <2>3. /\ proc' = [proc EXCEPT ![p] = k] /\ IsProc(k) /\ k.pc = "count" /\ k.call = j.call
          /\ k.file = j.file /\ k.txn = j.txn /\ k.stale = j.stale
          /\ k.inst.ids = ids /\ k.inst.skey = j.inst.skey /\ k.inst.name = j.inst.name
      BY <1>3, <1>6, Zenon DEF IsProc, ids
    <2> HIDE DEF k
    <2>4. HeldOn(k, proc[p])
      BY <1>3, <2>3, Zenon DEF HeldOn, Holds
    <2>5. /\ IsFile(h) /\ h.mixed = f.mixed /\ h.tables = f.tables /\ h.config = f.config
          /\ h.profs = f.profs \cup {row} /\ h.items = f.items /\ h.old = f.old /\ h.wallet = f.wallet
          /\ h.by = f.by
      <3> HIDE DEF f
      <3> QED
        BY <1>3, Zenon DEF IsFile
    <2>6. Put(p, h)
      BY <1>6, Zenon
    <2> HIDE DEF h
    <2>7. PICK g : /\ files' = [files EXCEPT ![proc[p].file] = g]
                   /\ IsFile(g) /\ g.mixed = (h.mixed \/ proc[p].stale)
                   /\ g.tables = h.tables /\ g.config = h.config /\ g.profs = h.profs /\ g.items = h.items
                   /\ g.old = h.old /\ g.wallet = h.wallet /\ g.by = h.by
      BY <1>3, <2>5, <2>6, PutGives, ZenonT(60)
    <2>8. /\ g.tables = f.tables /\ g.config = f.config /\ g.profs = f.profs \cup {row} /\ g.items = f.items
          /\ g.old = f.old /\ g.wallet = f.wallet /\ g.by = f.by
          /\ ~g.mixed => ~f.mixed /\ ~j.stale
          /\ f.profs \subseteq g.profs /\ f.items \subseteq g.items
          /\ backend = "sqlite" => ~g.mixed
      <3>1. backend = "sqlite" => ~f.mixed
        BY <1>3, Zenon DEF FileOK
      <3> QED
        BY <1>3, <2>5, <2>7, <3>1, Zenon
    <2>9. "profiles" \in f.tables /\ \A r \in f.profs : r.name # name
      BY <1>6, Zenon
    <2> HIDE DEF f, j
    <2>10. ASSUME ~g.mixed
           PROVE  /\ f.profs # {} /\ \A r \in f.profs : r.wrap = j.inst.skey
                  /\ f.config.version = "1" /\ (f.by # Absent => OpensAgain(f))
                  /\ \A q, r \in f.profs : q.name = r.name => q = r
                  /\ \A r \in f.profs : r = ProfileRow(r.id, r.name, r.wrap, r.key)
      BY <1>2, <1>3, <2>8, <2>10, HeldKey, ZenonT(60)
    <2>11. FileOK(backend, g)
      <3>1. g.wallet \subseteq g.old \cup Moved(g)
        <4>1. Moved(f) \subseteq Moved(g)
          BY <2>8, MovedGrows, Zenon
        <4> QED
          BY <1>3, <2>8, <4>1, Zenon DEF FileOK
      <3>2. ASSUME ~g.mixed
            PROVE  /\ \A q, r \in g.profs : q.wrap = r.wrap /\ (q.name = r.name => q = r)
                   /\ \A r \in g.profs : r = ProfileRow(r.id, r.name, r.wrap, r.key)
                   /\ g.config.version = "1" /\ (g.by # Absent => OpensAgain(g))
        <4>1. \A q, r \in g.profs : q.wrap = r.wrap
          BY <2>1, <2>8, <2>10, <3>2, ZenonT(60)
        <4>2. \A q, r \in g.profs : q.name = r.name => q = r
          BY <2>1, <2>8, <2>9, <2>10, <3>2, ZenonT(60)
        <4>3. \A r \in g.profs : r = ProfileRow(r.id, r.name, r.wrap, r.key)
          BY <2>1, <2>8, <2>10, <3>2, ZenonT(60)
        <4>4. g.config.version = "1" /\ (g.by # Absent => OpensAgain(g))
          BY <2>8, <2>10, <3>2, Zenon DEF OpensAgain
        <4> QED
          BY <4>1, <4>2, <4>3, <4>4, ZenonT(60)
      <3>3. /\ g.wallet # {} => backend = "sqlite" /\ g.tables # {}
            /\ g.config.version = "1" \/ backend # "sqlite" => g.old = {}
            /\ backend = "sqlite" /\ g.tables # {} => "items" \in g.tables
            /\ backend # "odbc" /\ g.config.version = "1" => AllTables \subseteq g.tables
            /\ ~HasConfig(g) => g.config = NoConfig
            /\ "profiles" \in g.tables /\ g.tables # {}
        BY <1>3, <2>8, <2>9, ZenonT(60) DEF FileOK, HasConfig
      <3> QED
        BY <2>8, <3>1, <3>2, <3>3, ZenonT(60) DEF FileOK
    <2>12. ASSUME ~g.mixed
           PROVE  OnCurrent(k, g)
      <3>1. OnCurrent(j, f) /\ g.config.version = "1"
        BY <1>3, <2>8, <2>10, <2>12, ZenonT(60)
      <3>2. ASSUME NEW d \in ids
            PROVE  d = <<d[1], d[2], d[3]>> /\ ProfileRow(d[2], d[1], k.inst.skey, d[3]) \in g.profs
        <4>1. CASE d = e
          <5>1. ProfileRow(e[2], e[1], k.inst.skey, e[3]) = row
            BY <2>1, <2>2, <2>3, Zenon
          <5> QED
            BY <2>2, <2>8, <4>1, <5>1, ZenonT(60)
        <4>2. CASE d \in j.inst.ids
          BY <1>2, <2>3, <2>8, <3>1, <4>2, ZenonT(60) DEF OnCurrent
        <4> QED
          BY <3>2, <4>1, <4>2, Zenon DEF ids, j
      <3>3. \E d \in ids : d[1] = k.inst.name
        <4>1. \E d \in j.inst.ids : d[1] = k.inst.name
          BY <1>2, <2>3, <3>1, Zenon DEF OnCurrent
        <4> QED
          BY <4>1, Zenon DEF ids, j
      <3> QED
        BY <2>3, <3>1, <3>2, <3>3, ZenonT(60) DEF OnCurrent
    <2>13. ~g.mixed => OnCurrent(k, g) /\ (g.profs = f.profs \/ f.profs # {})
      BY <2>10, <2>12, ZenonT(60)
    <2> QED
      BY <1>1, <1>2, <2>3, <2>4, <2>7, <2>8, <2>11, <2>13, HoldsWrites, ZenonT(60) DEF f, j
  <1> QED
    BY <1>1, <1>4, <1>5, <1>6, ZenonT(60)

LEMMA CountOK ==
    ASSUME SInv, NEW p \in Procs, Count(p)
    PROVE  SInv'
  <1> DEFINE f == File(p)
             j == proc[p]
             known == {e \in proc[p].inst.ids : e[1] = Target(p).name}
             rows == {r \in f.profs : r.name = Target(p).name /\ r.wrap = proc[p].inst.skey}
             found == IF known # {} THEN known ELSE {<<r.name, r.id, r.key>> : r \in rows}
             ids == proc[p].inst.ids \cup found
             txn == backend = "sqlite"
             k == [proc[p] EXCEPT !.pc = "import", !.txn = txn, !.inst.ids = ids]
  <1>1. /\ j.pc = "count" /\ backend' = backend /\ at' = at /\ files' = files
        /\ \/ Fail(p)
           \/ proc' = [proc EXCEPT ![p].pc = "import", ![p].txn = txn, ![p].inst.ids = ids]
    BY Zenon DEF Count
  <1>2. j.pc \in Holds
    BY <1>1, Zenon DEF Holds
  <1>3. /\ proc = [q \in Procs |-> proc[q]] /\ IsProc(j)
        /\ FileOK(backend, f) /\ (~j.stale /\ ~f.mixed => OnCurrent(j, f))
        /\ j.pc \notin {"free", "done"}
    BY <1>1, <1>2, HoldsFacts, Zenon
  <1>4. CASE Fail(p)
    BY <1>1, <1>3, <1>4, FailKeeps, Zenon
  <1>5. CASE proc' = [proc EXCEPT ![p].pc = "import", ![p].txn = txn, ![p].inst.ids = ids]
    <2>1. txn \in BOOLEAN
      BY Zenon
    <2>2. \A d \in ids : d \in j.inst.ids \/ \E r \in f.profs : r.wrap = j.inst.skey /\ d = <<r.name, r.id, r.key>>
      BY Zenon
    <2>3. j.inst.ids \subseteq ids
      BY Zenon
    <2> HIDE DEF ids, txn
    <2>4. /\ proc' = [proc EXCEPT ![p] = k] /\ IsProc(k) /\ k.pc = "import" /\ k.call = j.call
          /\ k.file = j.file /\ k.stale = j.stale
          /\ k.inst.ids = ids /\ k.inst.skey = j.inst.skey /\ k.inst.name = j.inst.name
      BY <1>3, <1>5, <2>1, Zenon DEF IsProc
    <2> HIDE DEF k
    <2>5. HeldOn(k, proc[p])
      BY <2>4, Zenon DEF HeldOn, Holds
    <2> HIDE DEF f, j
    <2>6. ASSUME ~j.stale, ~f.mixed
          PROVE  OnCurrent(k, f)
      <3>1. OnCurrent(j, f) /\ f.config.version = "1"
            /\ \A r \in f.profs : r = ProfileRow(r.id, r.name, r.wrap, r.key)
        BY <1>2, <1>3, <2>6, Zenon DEF FileOK, OnCurrent
      <3>2. ASSUME NEW d \in ids
            PROVE  d = <<d[1], d[2], d[3]>> /\ ProfileRow(d[2], d[1], k.inst.skey, d[3]) \in f.profs
        <4>1. CASE d \in j.inst.ids
          BY <1>2, <2>4, <3>1, <4>1, Zenon DEF OnCurrent
        <4>2. ASSUME NEW r \in f.profs, r.wrap = j.inst.skey, d = <<r.name, r.id, r.key>>
              PROVE  d = <<d[1], d[2], d[3]>> /\ ProfileRow(d[2], d[1], k.inst.skey, d[3]) \in f.profs
          <5>1. d[1] = r.name /\ d[2] = r.id /\ d[3] = r.key
            BY <4>2, Triples, SMTT(60)
          <5>2. r = ProfileRow(r.id, r.name, r.wrap, r.key)
            BY <3>1, <4>2, Zenon
          <5> QED
            BY <2>4, <4>2, <5>1, <5>2, Zenon
        <4> QED
          BY <2>2, <3>2, <4>1, <4>2, Zenon
      <3>3. \E d \in ids : d[1] = k.inst.name
        BY <1>2, <2>3, <2>4, <3>1, Zenon DEF OnCurrent
      <3> QED
        BY <2>4, <3>1, <3>2, <3>3, Zenon DEF OnCurrent
    <2>7. ~proc[p].stale /\ ~File(p).mixed => OnCurrent(k, File(p))
      BY <2>6, Zenon DEF f, j
    <2> QED
      BY <1>1, <1>2, <2>4, <2>5, <2>7, HoldsMoves, ZenonT(60) DEF j
  <1> QED
    BY <1>1, <1>4, <1>5

LEMMA ImportScanOK ==
    ASSUME SInv, NEW p \in Procs, ImportScan(p)
    PROVE  SInv'
  <1> DEFINE f == File(p)
             j == proc[p]
             rows == {Item(Cached(p)[2], Cached(p)[3], i, TRUE) : i \in Target(p).items}
             h == [f EXCEPT !.items = f.items \cup rows]
             rest == Tail(proc[p].todo)
             to == IF Len(proc[p].todo) > 1 THEN "create_profile" ELSE "open"
             k == [proc[p] EXCEPT !.txn = FALSE, !.todo = rest, !.pc = to]
  <1>1. /\ j.pc = "import" /\ backend' = backend /\ at' = at
        /\ \/ Fail(p) /\ files' = files
           \/ /\ Put(p, h)
              /\ proc' = [proc EXCEPT ![p].txn = FALSE, ![p].todo = rest, ![p].pc = to]
    BY Zenon DEF ImportScan
  <1>2. j.pc \in Holds
    BY <1>1, Zenon DEF Holds
  <1>3. /\ proc = [q \in Procs |-> proc[q]] /\ IsProc(j) /\ j.stale \in BOOLEAN
        /\ IsFile(f) /\ FileOK(backend, f) /\ On(backend, j, f) /\ (~j.stale /\ ~f.mixed => OnCurrent(j, f))
        /\ backend = "sqlite" => ~j.stale
        /\ j.pc \notin {"free", "done"}
    BY <1>1, <1>2, HoldsFacts, Zenon
  <1>4. CASE Fail(p) /\ files' = files
    BY <1>1, <1>3, <1>4, FailKeeps, Zenon
  <1>5. CASE /\ Put(p, h)
             /\ proc' = [proc EXCEPT ![p].txn = FALSE, ![p].todo = rest, ![p].pc = to]
    <2>1. to \in {"create_profile", "open"}
      BY Zenon
    <2> HIDE DEF rest, to, rows
    <2>2. /\ proc' = [proc EXCEPT ![p] = k] /\ IsProc(k) /\ k.pc = to /\ k.call = j.call
          /\ k.file = j.file /\ ~k.txn /\ k.stale = j.stale /\ k.inst = j.inst
      BY <1>3, <1>5, Zenon DEF IsProc
    <2> HIDE DEF k
    <2>3. HeldOn(k, proc[p])
      BY <2>1, <2>2, Zenon DEF HeldOn, Holds
    <2>4. /\ IsFile(h) /\ h.mixed = f.mixed /\ h.tables = f.tables /\ h.config = f.config
          /\ h.profs = f.profs /\ h.items = f.items \cup rows /\ h.old = f.old /\ h.wallet = f.wallet
          /\ h.by = f.by
      <3> HIDE DEF f
      <3> QED
        BY <1>3, Zenon DEF IsFile
    <2>5. Put(p, h)
      BY <1>5, Zenon
    <2> HIDE DEF h
    <2>6. PICK g : /\ files' = [files EXCEPT ![proc[p].file] = g]
                   /\ IsFile(g) /\ g.mixed = (h.mixed \/ proc[p].stale)
                   /\ g.tables = h.tables /\ g.config = h.config /\ g.profs = h.profs /\ g.items = h.items
                   /\ g.old = h.old /\ g.wallet = h.wallet /\ g.by = h.by
      BY <1>3, <2>4, <2>5, PutGives, Zenon
    <2>7. /\ g.tables = f.tables /\ g.config = f.config /\ g.profs = f.profs
          /\ g.old = f.old /\ g.wallet = f.wallet /\ g.by = f.by
          /\ ~g.mixed => ~f.mixed /\ ~j.stale
          /\ g.mixed => f.mixed \/ j.stale
          /\ f.profs \subseteq g.profs /\ f.items \subseteq g.items
      BY <1>3, <2>4, <2>6, Zenon
    <2> HIDE DEF f, j
    <2>8. FileOK(backend, g)
      <3>1. Moved(f) \subseteq Moved(g)
        BY <2>7, MovedGrows, Zenon
      <3>2. g.wallet \subseteq g.old \cup Moved(g)
        BY <1>3, <2>7, <3>1, ZenonT(60) DEF FileOK
      <3>3. /\ backend = "sqlite" => ~g.mixed
            /\ backend # "odbc" /\ g.tables = {} => ~g.mixed
        BY <1>3, <2>7, Zenon DEF FileOK, On
      <3>4. OpensAgain(f) => OpensAgain(g)
        BY <2>7, Zenon DEF OpensAgain
      <3>5. ~HasConfig(g) => g.config = NoConfig
        BY <1>3, <2>7, Zenon DEF FileOK, HasConfig
      <3> QED
        BY <1>3, <2>7, <3>2, <3>3, <3>4, <3>5, ZenonT(60) DEF FileOK
    <2>9. ~g.mixed => OnCurrent(k, g) /\ (g.profs = f.profs \/ f.profs # {})
      <3>1. to # "insert_profile" /\ to # "drop" /\ to # "profile"
        BY <2>1, Zenon
      <3> QED
        BY <1>2, <1>3, <2>2, <2>7, <3>1, ZenonT(60) DEF OnCurrent
    <2> QED
      BY <1>1, <1>2, <2>2, <2>3, <2>6, <2>7, <2>8, <2>9, HoldsWrites, ZenonT(60) DEF f, j
  <1> QED
    BY <1>1, <1>4, <1>5, ZenonT(60)
----------------------------------------------------------------------------
(***************************************************************************)
(* The invariant holds.                                                    *)
(***************************************************************************)
LEMMA WalletOK == IsFile(IndyWallet) /\ FileOK("sqlite", IndyWallet)
  <1> DEFINE f == IndyWallet
             tables == {"metadata", "items"}
  <1>1. NoConfig.version # "1"
    BY DEF NoConfig, None
  <1>2. IsFile(Empty)
    BY EmptyOK, Zenon
  <1>3. /\ f.tables = tables /\ f.config = NoConfig /\ f.profs = {} /\ f.items = {} /\ f.old = Wallet
        /\ f.wallet = Wallet /\ ~f.mixed
    BY Zenon DEF IndyWallet, Empty
  <1>4. IsFile(f)
    <2> HIDE DEF tables
    <2>1. f = [Empty EXCEPT !.tables = tables, !.old = Wallet, !.wallet = Wallet]
      BY Zenon DEF IndyWallet, tables
    <2> HIDE DEF f
    <2> QED
      BY <1>2, <2>1, Zenon DEF IsFile
  <1> HIDE DEF f
  <1>5. FileOK("sqlite", f)
    BY <1>1, <1>3, Zenon DEF FileOK, HasConfig
  <1> QED
    BY <1>4, <1>5, Zenon DEF f

LEMMA OneFile ==
    ASSUME NEW f
    PROVE  /\ \E S : <<f>> \in Seq(S)
           /\ DOMAIN <<f>> = {1} /\ <<f>>[1] = f /\ Len(<<f>>) = 1
  <1> DEFINE S == {f}
  <1>1. <<f>> \in Seq(S)
    BY SMTT(60)
  <1>2. DOMAIN <<f>> = {1} /\ <<f>>[1] = f /\ Len(<<f>>) = 1
    BY SMTT(60)
  <1> HIDE DEF S
  <1> QED
    BY <1>1, <1>2, Zenon

LEMMA InitOK ==
    ASSUME Init
    PROVE  SInv
  <1>1. backend \in {"sqlite", "postgres", "odbc"}
    BY StoresAssumption, Zenon DEF Init
  <1>2. /\ \/ files = <<>> /\ backend # "odbc"
           \/ files = <<IndyWallet>> /\ backend = "sqlite"
           \/ files = <<Empty>> /\ backend = "odbc"
        /\ at = Len(files)
    BY <1>1, SMTT(60) DEF Init
  <1>3. (\E S : files \in Seq(S)) /\ FilesOK
    <2>1. CASE files = <<>> /\ backend # "odbc"
      <3>1. files \in Seq({}) /\ DOMAIN files = {} /\ Len(files) = 0
        BY <2>1, SMTT(60)
      <3> QED
        BY <1>2, <2>1, <3>1, Zenon DEF FilesOK
    <2>2. CASE files = <<IndyWallet>> /\ backend = "sqlite"
      <3>1. (\E S : files \in Seq(S)) /\ DOMAIN files = {1} /\ files[1] = IndyWallet /\ at = 1
        BY <1>2, <2>2, OneFile, Zenon
      <3> QED
        BY <2>2, <3>1, WalletOK, Zenon DEF FilesOK
    <2>3. CASE files = <<Empty>> /\ backend = "odbc"
      <3>1. (\E S : files \in Seq(S)) /\ DOMAIN files = {1} /\ files[1] = Empty /\ at = 1
        BY <1>2, <2>3, OneFile, Zenon
      <3>2. 1 # 0
        BY SMT
      <3> QED
        BY <2>3, <3>1, <3>2, EmptyOK, Zenon DEF FilesOK
    <2> QED
      BY <1>2, <2>1, <2>2, <2>3
  <1>4. proc = [p \in Procs |-> Free] /\ \A p \in Procs : proc[p] = Free
    BY Zenon DEF Init
  <1>5. IsProc(Free) /\ Placed(backend, Free) /\ Free.file = 0
    BY FreeOK, Zenon
  <1> HIDE DEF Init
  <1> QED
    BY <1>1, <1>3, <1>4, <1>5, ZenonT(60) DEF SInv, ProcsOK, ProcsOn, ProcsApart

LEMMA StepOK ==
    ASSUME SInv, NEW p \in Procs, Step(p)
    PROVE  SInv'
  <1>1. CASE ProvisioningStep(p)
    <2>1. CASE Unlink(p)
      BY <2>1, UnlinkOK
    <2>2. CASE CreateFile(p)
      BY <2>2, CreateFileOK
    <2>3. CASE ConnectFile(p) \/ ConnectServer(p) \/ Reconnect(p) \/ OpenPool(p)
      BY <2>3, ConnectOK, SMTT(60)
    <2>4. CASE ConnectDatabase(p)
      BY <2>4, ConnectDatabaseOK
    <2>5. CASE CreateDatabase(p)
      BY <2>5, CreateDatabaseOK
    <2>6. CASE DropDatabase(p)
      BY <2>6, DropDatabaseOK
    <2>7. CASE CheckSqlite(p)
      BY <2>7, CheckOK
    <2>8. CASE CheckPostgres(p)
      BY <2>8, CheckPostgresOK
    <2>18. CASE Acquire(p)
      BY <2>18, AcquireOK
    <2>9. CASE CheckOdbc(p) \/ RemoveOdbc(p)
      BY <2>9, CheckOdbcOK, SMTT(60)
    <2>10. CASE DropTable(p)
      BY <2>10, DropTableOK
    <2>11. CASE Keys(p)
      BY <2>11, KeysStep
    <2>12. CASE InitDb(p)
      BY <2>12, InitDbOK
    <2>13. CASE Replace(p)
      BY <2>13, ReplaceOK
    <2>14. CASE CreateTable(p)
      BY <2>14, CreateTableOK
    <2>15. CASE InsertConfig(p)
      BY <2>15, InsertConfigOK
    <2>16. CASE InsertProfile(p)
      BY <2>16, InsertProfileOK
    <2>17. CASE OpenSqlite(p) \/ OpenPostgres(p) \/ OpenOdbc(p)
      BY <2>17, OpenConfigOK, OpenProfileOK DEF OpenSqlite, OpenPostgres, OpenOdbc, OpenDb
    <2> QED
      BY <1>1, <2>1, <2>2, <2>3, <2>4, <2>5, <2>6, <2>7, <2>8, <2>9, <2>10, <2>11,
         <2>12, <2>13, <2>14, <2>15, <2>16, <2>17, <2>18, ZenonT(60) DEF ProvisioningStep
  <1>2. CASE MigrationStep(p)
    <2>1. CASE ConnectWallet(p) \/ Reopen(p)
      BY <2>1, ConnectOK
    <2>2. CASE IsMigrated(p)
      BY <2>2, CheckOK, SMTT(60)
    <2>3. CASE PreUpgrade(p)
      BY <2>3, PreUpgradeOK
    <2>4. CASE FetchIndyKey(p)
      BY <2>4, FetchIndyKeyOK
    <2>5. CASE CreateConfig(p)
      BY <2>5, CreateConfigOK
    <2>6. CASE InitProfile(p)
      BY <2>6, InitProfileOK
    <2>7. CASE FetchPending(p)
      BY <2>7, FetchPendingOK
    <2>8. CASE UpdateItems(p)
      BY <2>8, UpdateItemsOK
    <2>9. CASE FinishUpgrade(p)
      BY <2>9, FinishUpgradeOK
    <2> QED
      BY <1>2, <2>1, <2>2, <2>3, <2>4, <2>5, <2>6, <2>7, <2>8, <2>9, ZenonT(60) DEF MigrationStep
  <1>3. CASE CopyStep(p)
    BY <1>3, CreateProfileOK, CountOK, ImportScanOK, Zenon DEF CopyStep
  <1> QED
    BY <1>1, <1>2, <1>3, Zenon DEF Step

\* What the stores at the URL are at every moment, whatever calls overlap or crash.
THEOREM StoresInvariant == Spec => []SInv
  <1>1. Init => SInv
    BY InitOK
  <1>2. SInv /\ [Next]_vars => SInv'
    <2> SUFFICES ASSUME SInv, [Next]_vars PROVE SInv'
      OBVIOUS
    <2>1. ASSUME NEW p \in Procs, Step(p) PROVE SInv'
      BY <2>1, StepOK
    <2>2. ASSUME NEW p \in Procs, End(p) PROVE SInv'
      BY <2>2, EndOK
    <2>3. ASSUME NEW p \in Procs, NEW c \in Calls, Start(p, c) PROVE SInv'
      BY <2>3, StartOK
    <2>4. CASE Crash
      BY <2>4, CrashOK
    <2>5. CASE UNCHANGED vars
      BY <2>5, Zenon DEF vars, SInv, FilesOK, ProcsOK, ProcsOn, ProcsApart
    <2> QED
      BY <2>1, <2>2, <2>3, <2>4, <2>5, Zenon DEF Next
  <1> QED
    BY <1>1, <1>2, PTL DEF Spec

\* No item of a wallet is lost by its migration, at whichever statement it stops: it is an
\* old one still, or complete under the new profile.
THEOREM WalletIsKept == Spec => []WalletKept
  <1>1. SInv => WalletKept
    <2> SUFFICES ASSUME SInv, NEW i \in DOMAIN files
                 PROVE  LET f == files[i]
                            moved == {t.item : t \in {t \in f.items :
                                        t.tagged /\ \E r \in f.profs : r.id = t.id /\ r.key = t.key}}
                        IN /\ f.wallet \subseteq f.old \cup moved
                           /\ f.wallet # {} /\ f.config.version = "1" => f.wallet \subseteq moved /\ f.old = {}
      BY Zenon DEF WalletKept
    <2> DEFINE f == files[i]
    <2>1. FileOK(backend, f)
      BY Zenon DEF SInv, FilesOK
    <2> HIDE DEF f
    <2>2. f.wallet \subseteq f.old \cup Moved(f) /\ (f.config.version = "1" => f.old = {})
      BY <2>1, Zenon DEF FileOK
    <2>3. f.wallet # {} /\ f.config.version = "1" => f.wallet \subseteq Moved(f) /\ f.old = {}
      BY <2>2, Zenon
    <2> QED
      BY <2>2, <2>3, Zenon DEF Moved, f
  <1> QED
    BY <1>1, StoresInvariant, PTL

\* What says it is a store of version 1 opens with the pass key it was made with.
THEOREM StoresOpenAgain == Spec => []StoreOpensAgain
  <1>1. SInv => StoreOpensAgain
    <2> SUFFICES ASSUME SInv, NEW i \in DOMAIN files
                 PROVE  LET f == files[i] IN
                        f.config.version = "1" /\ ~f.mixed /\ f.by # Absent /\ ~(backend = "odbc" /\ f.profs = {})
                        => \E k \in ResolveRef(f.config.key, f.by), r \in f.profs :
                             r.name = f.config.profile /\ r.wrap = k
      BY Zenon DEF StoreOpensAgain
    <2> DEFINE f == files[i]
    <2>1. FileOK(backend, f)
      BY Zenon DEF SInv, FilesOK
    <2> HIDE DEF f
    <2>2. f.config.version = "1" /\ ~f.mixed /\ f.by # Absent /\ ~(backend = "odbc" /\ f.profs = {}) => OpensAgain(f)
      BY <2>1, Zenon DEF FileOK
    <2> QED
      BY <2>2, Zenon DEF OpensAgain, f
  <1> QED
    BY <1>1, StoresInvariant, PTL

\* What an instance has in its store.
LEMMA OpenFacts ==
    ASSUME SInv, NEW p \in Procs, proc[p].pc = "open", ~proc[p].stale, ~File(p).mixed
    PROVE  /\ proc[p].pc \in Holds /\ OnCurrent(proc[p], File(p)) /\ FileOK(backend, File(p))
  <1>1. proc[p].pc \in Holds
    BY Zenon DEF Holds
  <1> QED
    BY <1>1, HoldsFacts, Zenon

\* Two instances agree on the store key, and on every profile both know.
Agree(i, o) == i.skey = o.skey /\ \A d \in i.ids, e \in o.ids : d[1] = e[1] => d = e

LEMMA HoldersAgree ==
    ASSUME NEW b, NEW f, FileOK(b, f), ~f.mixed,
           NEW j, j.pc \in Holds, OnCurrent(j, f), NEW k, k.pc \in Holds, OnCurrent(k, f)
    PROVE  Agree(j.inst, k.inst)
  <1>1. f.profs # {} /\ \A r \in f.profs : r.wrap = j.inst.skey
    BY HeldKey, Zenon
  <1>2. \A r \in f.profs : r.wrap = k.inst.skey
    BY HeldKey, Zenon
  <1>3. j.inst.skey = k.inst.skey
    BY <1>1, <1>2, Zenon
  <1>4. ASSUME NEW d \in j.inst.ids, NEW e \in k.inst.ids, d[1] = e[1]
        PROVE  d = e
    <2> DEFINE q == ProfileRow(d[2], d[1], j.inst.skey, d[3])
               r == ProfileRow(e[2], e[1], k.inst.skey, e[3])
    <2>1. q \in f.profs /\ r \in f.profs /\ d = <<d[1], d[2], d[3]>> /\ e = <<e[1], e[2], e[3]>>
      BY <1>4, Zenon DEF OnCurrent
    <2>2. /\ q.name = d[1] /\ q.id = d[2] /\ q.key = d[3]
          /\ r.name = e[1] /\ r.id = e[2] /\ r.key = e[3]
      BY Zenon DEF ProfileRow
    <2> HIDE DEF q, r
    <2>3. q = r
      BY <1>4, <2>1, <2>2, HeldKey, Zenon
    <2>4. d[1] = e[1] /\ d[2] = e[2] /\ d[3] = e[3]
      BY <1>4, <2>2, <2>3, ZenonT(60)
    <2> QED
      BY <2>1, <2>4, SMTT(60)
  <1> QED
    BY <1>3, <1>4, Zenon DEF Agree

\* An instance works on a whole store, and two instances of one store agree, also when their
\* calls were provisioning, migrating, copying or replacing it at the same time.
THEOREM InstancesStayInOrder == Spec => []InstancesInOrder
  <1>1. SInv => OpenedIsWhole
    <2> SUFFICES ASSUME SInv, NEW p \in Procs, proc[p].pc = "open", ~proc[p].stale, ~File(p).mixed
                 PROVE  LET f == File(p)
                            i == proc[p].inst
                        IN /\ AllTables \subseteq f.tables \/ backend = "odbc"
                           /\ f.config.version = "1" /\ f.old = {}
                           /\ \A e \in i.ids : ProfileRow(e[2], e[1], i.skey, e[3]) \in f.profs
                           /\ f.config.profile = i.name => \E r \in f.profs : r.name = i.name /\ r.wrap = i.skey
      BY Zenon DEF OpenedIsWhole
    <2> DEFINE f == File(p)
               j == proc[p]
    <2>1. j.pc \in Holds /\ OnCurrent(j, f) /\ FileOK(backend, f)
      BY OpenFacts, Zenon
    <2> HIDE DEF f, j
    <2>2. /\ f.config.version = "1" /\ \A e \in j.inst.ids : ProfileRow(e[2], e[1], j.inst.skey, e[3]) \in f.profs
          /\ \E e \in j.inst.ids : e[1] = j.inst.name
      BY <2>1, Zenon DEF OnCurrent
    <2>3. f.old = {} /\ (AllTables \subseteq f.tables \/ backend = "odbc")
      BY <2>1, <2>2, ZenonT(60) DEF FileOK
    <2>4. \E r \in f.profs : r.name = j.inst.name /\ r.wrap = j.inst.skey
      <3>1. PICK e \in j.inst.ids : e[1] = j.inst.name
        BY <2>2, Zenon
      <3> DEFINE r == ProfileRow(e[2], e[1], j.inst.skey, e[3])
      <3>2. r \in f.profs
        BY <2>2, <3>1, Zenon
      <3>3. r.name = j.inst.name /\ r.wrap = j.inst.skey
        BY <3>1, Zenon DEF ProfileRow
      <3> HIDE DEF r
      <3> QED
        BY <3>2, <3>3, Zenon
    <2> QED
      BY <2>2, <2>3, <2>4, Zenon DEF f, j
  <1>2. SInv => InstancesAgree
    <2> SUFFICES ASSUME SInv, NEW p \in Procs, NEW q \in Procs, proc[p].pc = "open", proc[q].pc = "open",
                        proc[p].file = proc[q].file, ~proc[p].stale, ~proc[q].stale, ~File(p).mixed
                 PROVE  /\ proc[p].inst.skey = proc[q].inst.skey
                        /\ \A d \in proc[p].inst.ids, e \in proc[q].inst.ids : d[1] = e[1] => d = e
      BY Zenon DEF InstancesAgree
    <2> DEFINE f == File(p)
               j == proc[p]
               k == proc[q]
    <2>1. f = File(q)
      BY Zenon DEF File
    <2>2. /\ j.pc \in Holds /\ OnCurrent(j, f) /\ FileOK(backend, f) /\ ~f.mixed
          /\ k.pc \in Holds /\ OnCurrent(k, f)
      BY <2>1, OpenFacts, Zenon
    <2> HIDE DEF f, j, k
    <2>3. Agree(j.inst, k.inst)
      BY <2>2, HoldersAgree, Zenon
    <2> QED
      BY <2>3, Zenon DEF Agree, j, k
  <1>3. SInv => InstancesInOrder
    BY <1>1, <1>2 DEF InstancesInOrder
  <1> QED
    BY <1>3, StoresInvariant, PTL
=============================================================================
