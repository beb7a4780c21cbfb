------------------------- MODULE StoresFailureProofs ------------------------
(***************************************************************************)
(* What a call that fails leaves behind, and when recreate may fail, for   *)
(* any number of calls and crashes.                                        *)
(*                                                                         *)
(* Both are about a call that had the store to itself.  They need what     *)
(* such a call knows of the file at the URL at each of its steps (Known):  *)
(* that it is as it was at the start, or, for ODBC, which tables are left  *)
(* to drop and which are still to be created.                              *)
(***************************************************************************)
EXTENDS StoresProofs

\* The calls that FailureKeepsStore is about, and the steps they take.
Plain == {"open", "provision", "remove"}
Ways == {"connect", "create", "reconnect", "check", "acquire", "config", "profile", "drop", "keys",
         "init", "schema", "insert_config", "insert_profile"}

\* The steps of a call in flight that have changed nothing but by creating an empty file.
Reads == {"connect", "reconnect", "check", "acquire", "config", "profile"}

Elements(s) == {s[i] : i \in DOMAIN s}

\* ODBC can drop the tables of the store that was there, or create them where none was.
NoGap(k) == k.first.tables \in {{}, AllTables}

\* No rows in what is at the URL.
Bare(f) == f.profs = {} /\ f.config = NoConfig

\* What a call k of ODBC knows of the file f at the URL.
KnownOdbc(k, f) ==
    /\ k.pc = "drop" => f.tables = Elements(k.todo) /\ (k.call.op = "provision" => k.call.recreate)
    /\ k.pc = "keys" => f.tables = {} /\ (~k.call.recreate => f = k.first)
    /\ k.pc = "schema" => f.tables = AllTables \ Elements(k.todo) /\ Bare(f)
    /\ k.pc = "insert_config" => f.tables = AllTables /\ Bare(f)
    /\ k.pc = "insert_profile" => f.tables = AllTables /\ f.profs = {}

\* What a call k that is alone knows of what is at the URL, file a with contents f.
Known(b, k, f, a) ==
    /\ k.pc \in Ways
    /\ k.file \in {0, a}
    /\ k.pc \in Reads => f = k.first
    /\ k.pc = "reconnect" => a # 0 /\ b = "postgres"
    /\ k.pc = "create" => IF b = "sqlite" THEN f.tables = {} ELSE f = k.first
    /\ k.pc \in {"acquire", "config", "profile"} /\ k.call.op = "provision" => ~k.call.recreate
    /\ k.pc = "check" /\ b = "sqlite" => ~k.call.recreate
    /\ k.pc \in {"keys", "init"} /\ b = "sqlite" => IF k.call.recreate THEN f.tables = {} ELSE f = k.first
    /\ k.pc \in {"keys", "init"} /\ b = "postgres" => f = k.first /\ (k.call.recreate /\ ~k.txn => f.tables = {})
    /\ b = "odbc" /\ NoGap(k) => KnownOdbc(k, f)

\* The rows of ODBC go with their table.
RowsHaveTable == backend = "odbc" => \A i \in DOMAIN files : "profiles" \notin files[i].tables => files[i].profs = {}

Alone == \A p \in Procs : InFlight(p) /\ proc[p].alone => \A q \in Procs \ {p} : ~InFlight(q)

AloneKnow ==
    \A p \in Procs : InFlight(p) /\ proc[p].alone /\ Op(p) \in Plain => Known(backend, proc[p], There, at)

\* The inductive invariant, together with SInv.
AInv == RowsHaveTable /\ Alone /\ AloneKnow /\ RecreateWorks
----------------------------------------------------------------------------
(***************************************************************************)
(* A step of one call, seen by the others, and by itself if it is alone.   *)
(***************************************************************************)
Ended == {"open", "done"}

\* A call that may fail, with f at the URL: what the two properties say of it.
MayFail(b, k, f) ==
    /\ (k.call.recreate => b = "postgres") /\ (b = "odbc" => NoGap(k)) => f = k.first
    /\ k.call.op = "provision" /\ k.call.recreate =>
         (k.call.method = "kdf" /\ k.call.pass = Absent) \/ (b = "odbc" /\ ~NoGap(k))

Bystanders(p) ==
    \A q \in Procs \ {p} : /\ proc'[q].pc = proc[q].pc /\ proc'[q].call = proc[q].call
                           /\ proc'[q].alone = proc[q].alone /\ proc'[q].first = proc[q].first

\* What a call that is alone has after its step.
Learns(p) ==
    \/ proc'[p].pc \in Ended
    \/ /\ proc'[p].pc = "failed" /\ proc'[p].first = proc[p].first
       /\ There' = There /\ MayFail(backend, proc[p], There)
    \/ /\ proc'[p].pc # "failed" /\ proc'[p].first = proc[p].first
       /\ Known(backend, proc'[p], There', at')

Turn(p) ==
    /\ InFlight(p) /\ backend' = backend
    /\ RowsHaveTable => RowsHaveTable'
    /\ Bystanders(p)
    /\ proc'[p].pc \in Ended \/ (proc'[p].call = proc[p].call /\ proc'[p].alone = proc[p].alone)
    /\ RowsHaveTable /\ proc[p].alone /\ Op(p) \in Plain /\ Known(backend, proc[p], There, at) => Learns(p)

\* The call is put at another step, and nobody else is touched.
LEMMA MoveTurn ==
    ASSUME SInv, NEW p \in Procs, InFlight(p), NEW k, proc' = [proc EXCEPT ![p] = k], backend' = backend,
           k.call = proc[p].call, k.alone = proc[p].alone, k.first = proc[p].first, k.pc # "failed",
           RowsHaveTable => RowsHaveTable',
           RowsHaveTable /\ proc[p].alone /\ Op(p) \in Plain /\ Known(backend, proc[p], There, at) => Known(backend, k, There', at')
    PROVE  Turn(p)
  <1>1. proc'[p] = k /\ \A q \in Procs \ {p} : proc'[q] = proc[q]
    BY PutProc, Zenon DEF SInv
  <1>2. Bystanders(p)
    BY <1>1, Zenon DEF Bystanders
  <1> QED
    BY <1>1, <1>2, Zenon DEF Turn, Learns

\* The call is where it has nothing more to say.
LEMMA EndTurn ==
    ASSUME SInv, NEW p \in Procs, InFlight(p), NEW k, proc' = [proc EXCEPT ![p] = k], backend' = backend,
           k.pc \in Ended, RowsHaveTable => RowsHaveTable'
    PROVE  Turn(p)
  <1>1. proc'[p] = k /\ \A q \in Procs \ {p} : proc'[q] = proc[q]
    BY PutProc, Zenon DEF SInv
  <1>2. Bystanders(p)
    BY <1>1, Zenon DEF Bystanders
  <1> QED
    BY <1>1, <1>2, Zenon DEF Turn, Learns

LEMMA SameFiles ==
    ASSUME backend' = backend, files' = files
    PROVE  RowsHaveTable => RowsHaveTable'
  BY Zenon DEF RowsHaveTable

LEMMA OtherBackend ==
    ASSUME backend' = backend, backend # "odbc"
    PROVE  RowsHaveTable => RowsHaveTable'
  BY Zenon DEF RowsHaveTable

LEMMA DoneTurn ==
    ASSUME SInv, NEW p \in Procs, InFlight(p), Done(p), backend' = backend, files' = files
    PROVE  Turn(p)
  <1> DEFINE k == [Free EXCEPT !.pc = "done"]
  <1>1. proc' = [proc EXCEPT ![p] = k] /\ k.pc = "done"
    BY Zenon DEF Done, Free
  <1> HIDE DEF k
  <1> QED
    BY <1>1, EndTurn, SameFiles, Zenon DEF Ended

LEMMA FailTurn ==
    ASSUME SInv, NEW p \in Procs, InFlight(p), Fail(p), backend' = backend, files' = files, at' = at,
           RowsHaveTable /\ proc[p].alone /\ Op(p) \in Plain /\ Known(backend, proc[p], There, at)
           => MayFail(backend, proc[p], There)
    PROVE  Turn(p)
  <1> DEFINE k == [Free EXCEPT !.pc = "failed", !.call = proc[p].call,
                               !.alone = proc[p].alone, !.first = proc[p].first]
  <1>1. proc' = [proc EXCEPT ![p] = k]
    BY Zenon DEF Fail
  <1>2. k.pc = "failed" /\ k.call = proc[p].call /\ k.alone = proc[p].alone /\ k.first = proc[p].first
    BY Zenon DEF Free
  <1> HIDE DEF k
  <1>3. proc'[p] = k /\ \A q \in Procs \ {p} : proc'[q] = proc[q]
    BY <1>1, PutProc, Zenon DEF SInv
  <1>4. Bystanders(p) /\ There' = There /\ (RowsHaveTable => RowsHaveTable')
    BY <1>3, SameFiles, Zenon DEF Bystanders, There
  <1> QED
    BY <1>2, <1>3, <1>4, Zenon DEF Turn, Learns

\* A call that fails where it has changed nothing.
LEMMA FailReads ==
    ASSUME NEW b, NEW k, NEW f, NEW a, Known(b, k, f, a), k.pc \in Reads,
           ~(k.call.op = "provision" /\ k.call.recreate)
    PROVE  MayFail(b, k, f)
  BY Zenon DEF Known, MayFail

\* The call becomes k, at step pc, with file a, lock txn and todo before it.
Becomes(p, k, pc, a, txn, todo) ==
    /\ proc' = [proc EXCEPT ![p] = k]
    /\ k.pc = pc /\ k.file = a /\ k.txn = txn /\ k.todo = todo
    /\ k.call = proc[p].call /\ k.alone = proc[p].alone /\ k.first = proc[p].first

LEMMA ToGives ==
    ASSUME SInv, NEW p \in Procs, NEW pc, To(p, pc)
    PROVE  \E k : Becomes(p, k, pc, proc[p].file, proc[p].txn, proc[p].todo)
  <1> DEFINE k == [proc[p] EXCEPT !.pc = pc]
  <1>1. proc = [q \in Procs |-> proc[q]] /\ IsProc(proc[p])
    BY Facts, Zenon
  <1>2. Becomes(p, k, pc, proc[p].file, proc[p].txn, proc[p].todo)
    BY <1>1, Zenon DEF IsProc, To, Becomes
  <1> QED
    BY <1>2, Zenon

LEMMA ConnectGives ==
    ASSUME SInv, NEW p \in Procs, NEW pc, NEW a, proc' = [proc EXCEPT ![p].file = a, ![p].pc = pc]
    PROVE  \E k : Becomes(p, k, pc, a, proc[p].txn, proc[p].todo)
  <1> DEFINE k == [proc[p] EXCEPT !.file = a, !.pc = pc]
  <1>1. proc = [q \in Procs |-> proc[q]] /\ IsProc(proc[p])
    BY Facts, Zenon
  <1>2. Becomes(p, k, pc, a, proc[p].txn, proc[p].todo)
    BY <1>1, Zenon DEF IsProc, Becomes
  <1> QED
    BY <1>2, Zenon

LEMMA BecomesTurn ==
    ASSUME SInv, NEW p \in Procs, InFlight(p), NEW k, NEW pc, NEW a, NEW txn, NEW todo,
           Becomes(p, k, pc, a, txn, todo), backend' = backend, pc # "failed",
           RowsHaveTable => RowsHaveTable',
           RowsHaveTable /\ proc[p].alone /\ Op(p) \in Plain /\ Known(backend, proc[p], There, at) => Known(backend, k, There', at')
    PROVE  Turn(p)
  BY MoveTurn, Zenon DEF Becomes

----------------------------------------------------------------------------
(***************************************************************************)
(* Connecting.                                                             *)
(***************************************************************************)
LEMMA ReadsKnow ==
    ASSUME NEW b, NEW k, NEW f, NEW a, k.pc \in Reads, f = k.first, k.file \in {0, a},
           k.pc = "reconnect" => a # 0 /\ b = "postgres",
           k.pc \in {"acquire", "config", "profile"} /\ k.call.op = "provision" => ~k.call.recreate,
           k.pc = "check" /\ b = "sqlite" => ~k.call.recreate
    PROVE  Known(b, k, f, a)
  BY Zenon DEF Known, KnownOdbc, Reads, Ways

\* The calls that have no file.
LEMMA NotConnected ==
    ASSUME SInv, NEW p \in Procs, proc[p].pc \in {"connect", "create", "reconnect", "reopen"}
    PROVE  InFlight(p) /\ proc[p].file = 0
  BY Unconnected, Zenon DEF InFlight

LEMMA UnlinkTurn ==
    ASSUME SInv, NEW p \in Procs, Unlink(p)
    PROVE  Turn(p)
  <1>1. /\ backend = "sqlite" /\ backend # "odbc" /\ proc[p].pc = "connect" /\ at' = 0
        /\ backend' = backend /\ files' = files
        /\ Done(p) \/ To(p, "create")
    BY Zenon DEF Unlink
  <1>2. InFlight(p) /\ proc[p].file = 0
    BY <1>1, NotConnected, Zenon
  <1>3. CASE Done(p)
    BY <1>1, <1>2, <1>3, DoneTurn, Zenon
  <1>4. CASE To(p, "create")
    <2>1. PICK k : Becomes(p, k, "create", proc[p].file, proc[p].txn, proc[p].todo)
      BY <1>4, ToGives, Zenon
    <2>2. There' = Empty /\ Empty.tables = {}
      BY <1>1, Zenon DEF There, Empty
    <2>3. Known(backend, k, There', at')
      BY <1>1, <1>2, <2>1, <2>2, Zenon DEF Known, Ways, Reads, Becomes
    <2> QED
      BY <1>1, <1>2, <2>1, <2>3, BecomesTurn, OtherBackend, Zenon
  <1> QED
    BY <1>1, <1>3, <1>4

\* A new file at the URL is empty, as no file was.
LEMMA FoundedThere ==
    ASSUME SInv, IF at = 0 THEN files' = Append(files, Empty) /\ at' = Len(files) + 1
                           ELSE UNCHANGED <<files, at>>
    PROVE  There' = There /\ at' # 0
  <1>1. PICK S : files \in Seq(S)
    BY Zenon DEF SInv
  <1>2. CASE at = 0
    <2>1. files' = Append(files, Empty) /\ at' = Len(files) + 1
      BY <1>2, Zenon
    <2>2. at' # 0 /\ files'[at'] = Empty
      BY <1>1, <2>1, AddFile, Zenon
    <2> QED
      BY <1>2, <2>2, Zenon DEF There
  <1>3. CASE at # 0
    BY <1>3, Zenon DEF There
  <1> QED
    BY <1>2, <1>3

LEMMA CreateFileTurn ==
    ASSUME SInv, NEW p \in Procs, CreateFile(p)
    PROVE  Turn(p)
  <1> DEFINE pc == IF Recreate(p) THEN "keys" ELSE "check"
  <1>1. /\ backend = "sqlite" /\ backend # "odbc" /\ backend' = backend
        /\ proc[p].pc = (IF Recreate(p) THEN "create" ELSE "connect")
        /\ proc' = [proc EXCEPT ![p].file = at', ![p].pc = pc]
        /\ IF at = 0 THEN files' = Append(files, Empty) /\ at' = Len(files) + 1
                     ELSE UNCHANGED <<files, at>>
    BY Zenon DEF CreateFile
  <1>2. proc[p].pc \in {"connect", "create"} /\ pc \in {"keys", "check"}
    BY <1>1, Zenon
  <1>3. InFlight(p) /\ There' = There
    BY <1>1, <1>2, NotConnected, FoundedThere, Zenon
  <1>4. PICK k : Becomes(p, k, pc, at', proc[p].txn, proc[p].todo)
    BY <1>1, ConnectGives, Zenon
  <1>5. ASSUME Known(backend, proc[p], There, at)
        PROVE  Known(backend, k, There', at')
    <2>1. CASE Recreate(p)
      <3>1. There'.tables = {} /\ k.pc = "keys" /\ k.call.recreate
        BY <1>1, <1>3, <1>4, <1>5, <2>1, Zenon DEF Known, Recreate, Becomes
      <3> QED
        BY <1>1, <1>4, <3>1, Zenon DEF Known, Ways, Reads, Becomes
    <2>2. CASE ~Recreate(p)
      <3>1. There' = k.first /\ k.pc = "check" /\ ~k.call.recreate
        BY <1>1, <1>3, <1>4, <1>5, <2>2, Zenon DEF Known, Recreate, Reads, Becomes
      <3>2. k.pc \in Reads /\ k.file \in {0, at'}
        BY <1>4, <3>1, Zenon DEF Reads, Becomes
      <3> QED
        BY <3>1, <3>2, ReadsKnow, Zenon
    <2> QED
      BY <2>1, <2>2
  <1>6. pc # "failed"
    BY <1>2, Zenon
  <1> HIDE DEF pc
  <1> QED
    BY <1>1, <1>3, <1>4, <1>5, <1>6, BecomesTurn, OtherBackend, Zenon

LEMMA ConnectTurn ==
    ASSUME SInv, NEW p \in Procs,
           ConnectFile(p) \/ ConnectServer(p) \/ Reconnect(p) \/ OpenPool(p) \/ ConnectWallet(p) \/ Reopen(p)
    PROVE  Turn(p)
  <1>1. /\ backend' = backend /\ files' = files /\ at' = at /\ There' = There
        /\ proc[p].pc \in {"connect", "reconnect", "reopen"}
    BY Zenon DEF ConnectFile, ConnectServer, Reconnect, OpenPool, ConnectWallet, Reopen, There
  <1>2. InFlight(p) /\ (RowsHaveTable => RowsHaveTable')
    BY <1>1, NotConnected, SameFiles, Zenon
  <1>3. Op(p) \in Plain => Op(p) # "migrate"
    BY Zenon DEF Plain
  <1>4. CASE Fail(p)
    <2>1. ASSUME Op(p) \in Plain, Known(backend, proc[p], There, at)
          PROVE  MayFail(backend, proc[p], There)
      <3>1. proc[p].pc \in Ways
        BY <2>1, Zenon DEF Known
      <3>2. proc[p].pc # "reopen"
        BY <3>1, Zenon DEF Ways
      <3>3. proc[p].pc = "reconnect" => at # 0
        BY <2>1, Zenon DEF Known
      <3>4. ~Reconnect(p) /\ ~Reopen(p) /\ ~ConnectWallet(p)
        <4>1. ~Reconnect(p)
          <5> SUFFICES ASSUME Reconnect(p) PROVE FALSE
            OBVIOUS
          <5>1. at # 0 /\ proc' = [proc EXCEPT ![p].file = at, ![p].pc = "check"]
            BY <3>3, Zenon DEF Reconnect
          <5>2. PICK k : Becomes(p, k, "check", at, proc[p].txn, proc[p].todo)
            BY <5>1, ConnectGives, Zenon
          <5>3. proc'[p].pc = "check"
            BY <5>2, PutProc, Zenon DEF SInv, Becomes
          <5>4. proc'[p].pc = "failed"
            BY <1>4, PutProc, Zenon DEF SInv, Fail, Free
          <5> QED
            BY <5>3, <5>4, Zenon
        <4> QED
          BY <1>3, <2>1, <3>2, <4>1, Zenon DEF Reopen, ConnectWallet
      <3>5. Op(p) = "open" \/ OpenPool(p)
        BY <3>4, Zenon DEF ConnectFile, ConnectServer
      <3>6. ~OpenPool(p)
        <4> SUFFICES ASSUME OpenPool(p) PROVE FALSE
          OBVIOUS
        <4> DEFINE pc == IF Op(p) = "open" THEN "config" ELSE "check"
        <4>1. proc' = [proc EXCEPT ![p].file = at, ![p].pc = pc] /\ pc # "failed"
          BY Zenon DEF OpenPool
        <4> HIDE DEF pc
        <4>2. PICK k : Becomes(p, k, pc, at, proc[p].txn, proc[p].todo)
          BY <4>1, ConnectGives, Zenon
        <4>3. proc'[p].pc = pc
          BY <4>2, PutProc, Zenon DEF SInv, Becomes
        <4>4. proc'[p].pc = "failed"
          BY <1>4, PutProc, Zenon DEF SInv, Fail, Free
        <4> QED
          BY <4>1, <4>3, <4>4, Zenon
      <3>7. proc[p].call.op # "provision" /\ proc[p].pc \in Reads
        BY <1>1, <3>2, <3>5, <3>6, Zenon DEF Op, Reads
      <3> QED
        BY <2>1, <3>7, FailReads, Zenon
    <2> QED
      BY <1>1, <1>2, <1>4, <2>1, FailTurn, Zenon
  <1>5. CASE ~Fail(p)
    <2>1. PICK pc : /\ proc' = [proc EXCEPT ![p].file = at, ![p].pc = pc]
                    /\ \/ pc = "config" /\ (Op(p) = "open" \/ proc[p].pc = "reopen")
                       \/ pc = "check" /\ backend # "sqlite"
                       \/ pc = "is_migrated" /\ Op(p) = "migrate"
                       \/ pc = "check" /\ proc[p].pc = "reconnect"
      <3>1. CASE OpenPool(p)
        <4>1. backend # "sqlite"
          BY <3>1, Zenon DEF OpenPool
        <4>2. CASE Op(p) = "open"
          BY <3>1, <4>2, Zenon DEF OpenPool
        <4>3. CASE Op(p) # "open"
          BY <3>1, <4>1, <4>3, Zenon DEF OpenPool
        <4> QED
          BY <4>2, <4>3
      <3>2. CASE ~OpenPool(p)
        BY <1>5, <3>2, Zenon DEF ConnectFile, ConnectServer, Reconnect, ConnectWallet, Reopen
      <3> QED
        BY <3>1, <3>2
    <2>2. PICK k : Becomes(p, k, pc, at, proc[p].txn, proc[p].todo)
      BY <2>1, ConnectGives, Zenon
    <2>3. ASSUME Op(p) \in Plain, Known(backend, proc[p], There, at)
          PROVE  Known(backend, k, There', at')
      <3>1. proc[p].pc \in Ways /\ proc[p].pc # "reopen" /\ pc # "is_migrated" /\ proc[p].pc \in Reads
        BY <1>1, <1>3, <2>1, <2>3, Zenon DEF Known, Ways, Reads
      <3>2. There' = k.first
        BY <1>1, <2>2, <2>3, <3>1, Zenon DEF Known, Becomes
      <3>3. backend = "sqlite" => pc # "check" \/ proc[p].pc = "reconnect"
        BY <2>1, <3>1, Zenon
      <3>4. proc[p].pc = "reconnect" => backend # "sqlite"
        BY <2>3, Zenon DEF Known
      <3>5. /\ k.pc \in Reads /\ k.pc # "reconnect" /\ k.file \in {0, at'}
            /\ k.pc \in {"acquire", "config", "profile"} => k.call.op # "provision"
            /\ k.pc = "check" => backend # "sqlite"
        BY <1>1, <2>1, <2>2, <3>1, <3>3, <3>4, Zenon DEF Reads, Op, Becomes
      <3> QED
        BY <3>2, <3>5, ReadsKnow, Zenon
    <2>4. pc # "failed"
      BY <2>1, Zenon
    <2> QED
      BY <1>1, <1>2, <2>2, <2>3, <2>4, BecomesTurn, Zenon
  <1> QED
    BY <1>4, <1>5
LEMMA ConnectDatabaseTurn ==
    ASSUME SInv, NEW p \in Procs, ConnectDatabase(p) \/ CreateDatabase(p)
    PROVE  Turn(p)
  <1>1. /\ backend = "postgres" /\ backend # "odbc" /\ backend # "sqlite" /\ backend' = backend
        /\ proc[p].pc \in {"connect", "create"}
    BY Zenon DEF ConnectDatabase, CreateDatabase
  <1>2. InFlight(p) /\ proc[p].file = 0 /\ (RowsHaveTable => RowsHaveTable')
    BY <1>1, NotConnected, OtherBackend, Zenon
  <1>3. Known(backend, proc[p], There, at) => There = proc[p].first
    BY <1>1, Zenon DEF Known, Reads
  <1>4. CASE ConnectDatabase(p) /\ at = 0
    <2>1. To(p, "create") /\ There' = There
      BY <1>4, Zenon DEF ConnectDatabase, To, There
    <2>2. PICK k : Becomes(p, k, "create", proc[p].file, proc[p].txn, proc[p].todo)
      BY <2>1, ToGives, Zenon
    <2>3. Known(backend, proc[p], There, at) => Known(backend, k, There', at')
      BY <1>1, <1>2, <1>3, <2>1, <2>2, Zenon DEF Known, Ways, Reads, Becomes
    <2> QED
      BY <1>1, <1>2, <2>2, <2>3, BecomesTurn, Zenon
  <1>5. CASE ConnectDatabase(p) /\ at # 0
    <2>1. proc' = [proc EXCEPT ![p].file = at, ![p].pc = "check"] /\ There' = There /\ at' = at
      BY <1>5, Zenon DEF ConnectDatabase, There
    <2>2. PICK k : Becomes(p, k, "check", at, proc[p].txn, proc[p].todo)
      BY <2>1, ConnectGives, Zenon
    <2>3. k.pc = "check" /\ k.pc \in Reads /\ k.first = proc[p].first /\ k.file \in {0, at'}
      BY <2>1, <2>2, Zenon DEF Becomes, Reads
    <2>4. Known(backend, proc[p], There, at) => Known(backend, k, There', at')
      BY <1>1, <1>3, <2>1, <2>3, ReadsKnow, Zenon
    <2> QED
      BY <1>1, <1>2, <2>2, <2>4, BecomesTurn, Zenon
  <1>6. CASE CreateDatabase(p)
    <2>1. To(p, "reconnect") /\ There' = There /\ at' # 0
      BY <1>6, FoundedThere, Zenon DEF CreateDatabase
    <2>2. PICK k : Becomes(p, k, "reconnect", proc[p].file, proc[p].txn, proc[p].todo)
      BY <2>1, ToGives, Zenon
    <2>3. k.pc = "reconnect" /\ k.pc \in Reads /\ k.first = proc[p].first /\ k.file \in {0, at'}
      BY <1>2, <2>2, Zenon DEF Becomes, Reads
    <2>4. Known(backend, proc[p], There, at) => Known(backend, k, There', at')
      BY <1>1, <1>3, <2>1, <2>3, ReadsKnow, Zenon
    <2> QED
      BY <1>1, <1>2, <2>2, <2>4, BecomesTurn, Zenon
  <1> QED
    BY <1>4, <1>5, <1>6

LEMMA DropDatabaseTurn ==
    ASSUME SInv, NEW p \in Procs, DropDatabase(p)
    PROVE  Turn(p)
  <1>1. /\ proc[p].pc = "connect" /\ Op(p) = "remove" /\ backend' = backend /\ files' = files
        /\ (Fail(p) /\ at' = at) \/ Done(p)
    BY Zenon DEF DropDatabase
  <1>2. InFlight(p) /\ proc[p].pc \in Reads /\ proc[p].call.op # "provision"
    BY <1>1, NotConnected, Zenon DEF Reads, Op
  <1>3. CASE Done(p)
    BY <1>1, <1>2, <1>3, DoneTurn, Zenon
  <1>4. CASE Fail(p) /\ at' = at
    <2>1. Known(backend, proc[p], There, at) => MayFail(backend, proc[p], There)
      BY <1>2, FailReads, Zenon
    <2> QED
      BY <1>1, <1>2, <1>4, <2>1, FailTurn, Zenon
  <1> QED
    BY <1>1, <1>3, <1>4
----------------------------------------------------------------------------
(***************************************************************************)
(* Is there a store?                                                       *)
(***************************************************************************)
\* A call that is alone and connected is connected to what is at the URL.
LEMMA ThereIsFile ==
    ASSUME SInv, NEW p \in Procs, proc[p].pc \in Connected, Known(backend, proc[p], There, at)
    PROVE  File(p) = There /\ proc[p].file = at /\ at # 0 /\ at \in DOMAIN files
  <1>1. proc[p].file # 0 /\ proc[p].file \in DOMAIN files
    BY ConnectedFacts, Zenon
  <1>2. proc[p].file = at
    BY <1>1, Zenon DEF Known
  <1> QED
    BY <1>1, <1>2, Zenon DEF File, There

LEMMA CheckConnected ==
    ASSUME NEW pc \in {"check", "drop", "keys", "init", "schema", "insert_config", "insert_profile",
                       "acquire", "config", "profile"}
    PROVE  pc \in Connected /\ pc \notin {"free", "open", "failed", "done"}
  BY Zenon DEF Connected, Provides

LEMMA CheckSqliteTurn ==
    ASSUME SInv, NEW p \in Procs, CheckSqlite(p)
    PROVE  Turn(p)
  <1> DEFINE pc == IF HasConfig(File(p)) THEN "config" ELSE "keys"
  <1>1. /\ backend = "sqlite" /\ backend # "odbc" /\ backend # "postgres" /\ proc[p].pc = "check"
        /\ backend' = backend /\ There' = There /\ at' = at /\ To(p, pc)
    BY Zenon DEF CheckSqlite, There
  <1>2. pc \in {"config", "keys"}
    BY Zenon
  <1> HIDE DEF pc
  <1>3. InFlight(p)
    BY <1>1, CheckConnected, Zenon DEF InFlight
  <1>4. PICK k : Becomes(p, k, pc, proc[p].file, proc[p].txn, proc[p].todo)
    BY <1>1, ToGives, Zenon
  <1>5. ASSUME Known(backend, proc[p], There, at)
        PROVE  Known(backend, k, There', at')
    <2>1. There' = k.first /\ ~k.call.recreate /\ k.file \in {0, at'}
      BY <1>1, <1>4, <1>5, Zenon DEF Known, Reads, Becomes
    <2>2. k.pc \in {"config", "keys"}
      BY <1>2, <1>4, Zenon DEF Becomes
    <2> QED
      BY <1>1, <2>1, <2>2, Zenon DEF Known, Ways, Reads
  <1>6. pc # "failed"
    BY <1>2, Zenon
  <1> QED
    BY <1>1, <1>3, <1>4, <1>5, <1>6, BecomesTurn, OtherBackend, Zenon

LEMMA CheckPostgresTurn ==
    ASSUME SInv, NEW p \in Procs, CheckPostgres(p)
    PROVE  Turn(p)
  <1>1. /\ backend = "postgres" /\ backend # "odbc" /\ backend # "sqlite" /\ proc[p].pc = "check"
        /\ backend' = backend /\ There' = There /\ at' = at
    BY Zenon DEF CheckPostgres, There
  <1>2. proc[p].pc \in Connected /\ InFlight(p)
    BY <1>1, CheckConnected, Zenon DEF InFlight
  <1>3. PICK k, pc, txn :
           /\ Becomes(p, k, pc, proc[p].file, txn, proc[p].todo)
           /\ \/ pc \in {"acquire", "keys"} /\ ~Recreate(p)
              \/ pc = "keys" /\ (~txn => File(p).tables = {})
    <2>1. CASE ~Recreate(p)
      <3>1. PICK pc : pc \in {"acquire", "keys"} /\ To(p, pc)
        BY <2>1, Zenon DEF CheckPostgres
      <3>2. PICK k : Becomes(p, k, pc, proc[p].file, proc[p].txn, proc[p].todo)
        BY <3>1, ToGives, Zenon
      <3> QED
        BY <2>1, <3>1, <3>2, Zenon
    <2>2. CASE Recreate(p) /\ File(p).tables = {}
      <3>1. To(p, "keys")
        BY <2>2, Zenon DEF CheckPostgres
      <3>2. PICK k : Becomes(p, k, "keys", proc[p].file, proc[p].txn, proc[p].todo)
        BY <3>1, ToGives, Zenon
      <3> QED
        BY <2>2, <3>2, Zenon
    <2>3. CASE Recreate(p) /\ File(p).tables # {}
      <3> DEFINE k == [proc[p] EXCEPT !.pc = "keys", !.txn = TRUE]
      <3>1. proc' = [proc EXCEPT ![p].pc = "keys", ![p].txn = TRUE]
        BY <2>3, Zenon DEF CheckPostgres
      <3>2. proc = [q \in Procs |-> proc[q]] /\ IsProc(proc[p])
        BY Facts, Zenon
      <3>3. Becomes(p, k, "keys", proc[p].file, TRUE, proc[p].todo)
        BY <3>1, <3>2, Zenon DEF IsProc, Becomes
      <3> HIDE DEF k
      <3> QED
        BY <3>3, Zenon
    <2> QED
      BY <2>1, <2>2, <2>3
  <1>4. ASSUME Known(backend, proc[p], There, at)
        PROVE  Known(backend, k, There', at')
    <2>1. There' = k.first /\ k.file \in {0, at'} /\ File(p) = There /\ k.pc = pc /\ k.call = proc[p].call
          /\ k.txn = txn
      BY <1>1, <1>2, <1>3, <1>4, ThereIsFile, Zenon DEF Known, Reads, Becomes
    <2>2. CASE pc \in {"acquire", "keys"} /\ ~Recreate(p)
      BY <1>1, <2>1, <2>2, Zenon DEF Known, Ways, Reads, Recreate
    <2>3. CASE pc = "keys" /\ (~txn => File(p).tables = {})
      BY <1>1, <2>1, <2>3, Zenon DEF Known, Ways, Reads
    <2> QED
      BY <1>3, <2>2, <2>3
  <1>5. pc # "failed"
    BY <1>3, Zenon
  <1> QED
    BY <1>1, <1>2, <1>3, <1>4, <1>5, BecomesTurn, OtherBackend, Zenon

LEMMA AcquireTurn ==
    ASSUME SInv, NEW p \in Procs, Acquire(p)
    PROVE  Turn(p)
  <1>1. /\ backend = "postgres" /\ backend # "odbc" /\ backend # "sqlite" /\ proc[p].pc = "acquire"
        /\ backend' = backend /\ files' = files /\ There' = There /\ at' = at
        /\ To(p, "config") \/ Fail(p)
    BY Zenon DEF Acquire, There
  <1>2. proc[p].pc \in Reads /\ InFlight(p)
    BY <1>1, CheckConnected, Zenon DEF InFlight, Reads
  <1>3. ASSUME Known(backend, proc[p], There, at)
        PROVE  ~(proc[p].call.op = "provision" /\ proc[p].call.recreate)
    BY <1>1, <1>3, Zenon DEF Known
  <1>4. CASE Fail(p)
    BY <1>1, <1>2, <1>3, <1>4, FailReads, FailTurn, Zenon
  <1>5. CASE To(p, "config")
    <2>1. PICK k : Becomes(p, k, "config", proc[p].file, proc[p].txn, proc[p].todo)
      BY <1>5, ToGives, Zenon
    <2>2. ASSUME Known(backend, proc[p], There, at)
          PROVE  Known(backend, k, There', at')
      <3>1. /\ There' = k.first /\ k.file \in {0, at'} /\ k.pc = "config" /\ k.pc \in Reads
            /\ k.call.op = "provision" => ~k.call.recreate
        BY <1>1, <1>2, <1>3, <2>1, <2>2, Zenon DEF Known, Reads, Becomes
      <3> QED
        BY <3>1, ReadsKnow, Zenon
    <2> QED
      BY <1>1, <1>2, <2>1, <2>2, BecomesTurn, OtherBackend, Zenon
  <1> QED
    BY <1>1, <1>4, <1>5
----------------------------------------------------------------------------
(***************************************************************************)
(* ODBC, whose statements commit one by one.                               *)
(***************************************************************************)
OdbcSteps == {"drop", "keys", "schema", "insert_config", "insert_profile"}

LEMMA OdbcKnow ==
    ASSUME NEW k, NEW f, NEW a, k.pc \in OdbcSteps,
           k.file \in {0, a}, NoGap(k) => KnownOdbc(k, f)
    PROVE  Known("odbc", k, f, a)
  BY Zenon DEF Known, Ways, Reads, OdbcSteps

LEMMA AllTablesFour == AllTables = {"config", "profiles", "items", "items_tags"}
  BY AllTablesAre

LEMMA DropElements ==
    ASSUME NEW s \in DropRests
    PROVE  /\ Head(s) \in Elements(s)
           /\ Len(s) > 1 => Elements(Tail(s)) = Elements(s) \ {Head(s)}
           /\ ~(Len(s) > 1) => Elements(s) = {Head(s)}
           /\ Elements(DropOrder) = AllTables
  <1>1. /\ Elements(DropOrder) = {"items_tags", "items", "profiles", "config"}
        /\ Elements(<<"items", "profiles", "config">>) = {"items", "profiles", "config"}
        /\ Elements(<<"profiles", "config">>) = {"profiles", "config"}
        /\ Elements(<<"config">>) = {"config"}
    <2>1. Elements(DropOrder) = {"items_tags", "items", "profiles", "config"}
      BY SMTT(60) DEF Elements, DropOrder
    <2>2. Elements(<<"items", "profiles", "config">>) = {"items", "profiles", "config"}
      BY SMTT(60) DEF Elements
    <2>3. Elements(<<"profiles", "config">>) = {"profiles", "config"}
      BY SMTT(60) DEF Elements
    <2>4. Elements(<<"config">>) = {"config"}
      BY SMTT(60) DEF Elements
    <2> QED
      BY <2>1, <2>2, <2>3, <2>4
  <1>2. CASE s = DropOrder
    <2>1. Head(s) = "items_tags" /\ Tail(s) = <<"items", "profiles", "config">> /\ Len(s) > 1
      BY <1>2 DEF DropOrder
    <2> QED
      BY <1>1, <1>2, <2>1, AllTablesFour
  <1>3. CASE s = <<"items", "profiles", "config">>
    <2>1. Head(s) = "items" /\ Tail(s) = <<"profiles", "config">> /\ Len(s) > 1
      BY <1>3
    <2> QED
      BY <1>1, <1>3, <2>1, AllTablesFour
  <1>4. CASE s = <<"profiles", "config">>
    <2>1. Head(s) = "profiles" /\ Tail(s) = <<"config">> /\ Len(s) > 1
      BY <1>4
    <2> QED
      BY <1>1, <1>4, <2>1, AllTablesFour
  <1>5. CASE s = <<"config">>
    <2>1. Head(s) = "config" /\ ~(Len(s) > 1)
      BY <1>5
    <2> QED
      BY <1>1, <1>5, <2>1, AllTablesFour
  <1> QED
    BY <1>2, <1>3, <1>4, <1>5, Zenon DEF DropRests

LEMMA TableElements ==
    ASSUME NEW s \in TableRests
    PROVE  /\ Head(s) \in Elements(s) /\ Head(s) \in AllTables
           /\ Len(s) > 1 => Elements(Tail(s)) = Elements(s) \ {Head(s)}
           /\ ~(Len(s) > 1) => Elements(s) = {Head(s)}
           /\ Elements(Tables) = AllTables
  <1>1. /\ Elements(Tables) = {"config", "profiles", "items", "items_tags"}
        /\ Elements(<<"profiles", "items", "items_tags">>) = {"profiles", "items", "items_tags"}
        /\ Elements(<<"items", "items_tags">>) = {"items", "items_tags"}
        /\ Elements(<<"items_tags">>) = {"items_tags"}
    <2>1. Elements(Tables) = {"config", "profiles", "items", "items_tags"}
      BY SMTT(60) DEF Elements, Tables
    <2>2. Elements(<<"profiles", "items", "items_tags">>) = {"profiles", "items", "items_tags"}
      BY SMTT(60) DEF Elements
    <2>3. Elements(<<"items", "items_tags">>) = {"items", "items_tags"}
      BY SMTT(60) DEF Elements
    <2>4. Elements(<<"items_tags">>) = {"items_tags"}
      BY SMTT(60) DEF Elements
    <2> QED
      BY <2>1, <2>2, <2>3, <2>4
  <1>2. CASE s = Tables
    <2>1. Head(s) = "config" /\ Tail(s) = <<"profiles", "items", "items_tags">> /\ Len(s) > 1
      BY <1>2 DEF Tables
    <2> QED
      BY <1>1, <1>2, <2>1, AllTablesFour
  <1>3. CASE s = <<"profiles", "items", "items_tags">>
    <2>1. Head(s) = "profiles" /\ Tail(s) = <<"items", "items_tags">> /\ Len(s) > 1
      BY <1>3
    <2> QED
      BY <1>1, <1>3, <2>1, AllTablesFour
  <1>4. CASE s = <<"items", "items_tags">>
    <2>1. Head(s) = "items" /\ Tail(s) = <<"items_tags">> /\ Len(s) > 1
      BY <1>4
    <2> QED
      BY <1>1, <1>4, <2>1, AllTablesFour
  <1>5. CASE s = <<"items_tags">>
    <2>1. Head(s) = "items_tags" /\ ~(Len(s) > 1)
      BY <1>5
    <2> QED
      BY <1>1, <1>5, <2>1, AllTablesFour
  <1> QED
    BY <1>2, <1>3, <1>4, <1>5, Zenon DEF TableRests

LEMMA CheckOdbcTurn ==
    ASSUME SInv, NEW p \in Procs, CheckOdbc(p) \/ RemoveOdbc(p)
    PROVE  Turn(p)
  <1>1. /\ backend = "odbc" /\ proc[p].pc = "check" /\ backend' = backend /\ files' = files /\ at' = at
        /\ There' = There
    BY Zenon DEF CheckOdbc, RemoveOdbc, There
  <1>2. proc[p].pc \in Connected /\ InFlight(p) /\ (RowsHaveTable => RowsHaveTable')
    BY <1>1, CheckConnected, SameFiles, Zenon DEF InFlight
  <1>3. \/ /\ HasConfig(File(p)) /\ (Op(p) = "provision" => Recreate(p))
           /\ proc' = [proc EXCEPT ![p].pc = "drop", ![p].todo = DropOrder]
        \/ Done(p)
        \/ To(p, "keys") /\ ~HasConfig(File(p))
        \/ To(p, "config") /\ ~Recreate(p)
    <2>1. CASE CheckOdbc(p)
      BY <1>1, <2>1, Zenon DEF CheckOdbc, To
    <2>2. CASE RemoveOdbc(p)
      BY <2>2, Zenon DEF RemoveOdbc
    <2> QED
      BY <2>1, <2>2
  <1>4. Known(backend, proc[p], There, at) => /\ There = proc[p].first /\ proc[p].file \in {0, at}
                                              /\ File(p) = There
    BY <1>1, <1>2, ThereIsFile, Zenon DEF Known, Reads
  <1>5. "config" \in AllTables
    BY AllTablesFour, Zenon
  <1>6. CASE Done(p)
    BY <1>1, <1>2, <1>6, DoneTurn, Zenon
  <1>7. CASE To(p, "config") /\ ~Recreate(p)
    <2>1. PICK k : Becomes(p, k, "config", proc[p].file, proc[p].txn, proc[p].todo)
      BY <1>7, ToGives, Zenon
    <2>2. k.pc = "config" /\ k.pc \in Reads /\ k.first = proc[p].first /\ k.file = proc[p].file /\ ~k.call.recreate
      BY <1>7, <2>1, Zenon DEF Becomes, Reads, Recreate
    <2>3. Known(backend, proc[p], There, at) => Known(backend, k, There', at')
      BY <1>1, <1>4, <2>2, ReadsKnow, Zenon
    <2> QED
      BY <1>1, <1>2, <2>1, <2>3, BecomesTurn, Zenon
  <1>8. CASE To(p, "keys") /\ ~HasConfig(File(p))
    <2>1. PICK k : Becomes(p, k, "keys", proc[p].file, proc[p].txn, proc[p].todo)
      BY <1>8, ToGives, Zenon
    <2>2. k.pc = "keys" /\ k.first = proc[p].first /\ k.file = proc[p].file
      BY <2>1, Zenon DEF Becomes
    <2>3. ASSUME Known(backend, proc[p], There, at) PROVE Known("odbc", k, There', at')
      <3>1. NoGap(k) => There.tables = {}
        BY <1>4, <1>5, <1>8, <2>2, <2>3, Zenon DEF NoGap, HasConfig
      <3>2. NoGap(k) => KnownOdbc(k, There')
        BY <1>1, <1>4, <2>2, <2>3, <3>1, Zenon DEF KnownOdbc
      <3>3. k.file \in {0, at'} /\ k.pc \in OdbcSteps
        BY <1>1, <1>4, <2>2, <2>3, Zenon DEF OdbcSteps
      <3> QED
        BY <3>2, <3>3, OdbcKnow, Zenon
    <2> QED
      BY <1>1, <1>2, <2>1, <2>3, BecomesTurn, Zenon
  <1>9. CASE /\ HasConfig(File(p)) /\ (Op(p) = "provision" => Recreate(p))
             /\ proc' = [proc EXCEPT ![p].pc = "drop", ![p].todo = DropOrder]
    <2> DEFINE k == [proc[p] EXCEPT !.pc = "drop", !.todo = DropOrder]
    <2>1. proc = [q \in Procs |-> proc[q]] /\ IsProc(proc[p])
      BY Facts, Zenon
    <2>2. Becomes(p, k, "drop", proc[p].file, proc[p].txn, DropOrder)
      BY <1>9, <2>1, Zenon DEF IsProc, Becomes
    <2> HIDE DEF k
    <2>3. /\ k.pc = "drop" /\ k.first = proc[p].first /\ k.file = proc[p].file /\ k.todo = DropOrder
          /\ k.call.op = "provision" => k.call.recreate
      BY <1>9, <2>2, Zenon DEF Becomes, Recreate, Op
    <2>4. ASSUME Known(backend, proc[p], There, at) PROVE Known("odbc", k, There', at')
      <3>1. NoGap(k) => There.tables = AllTables
        BY <1>4, <1>9, <2>3, <2>4, Zenon DEF NoGap, HasConfig
      <3>2. Elements(DropOrder) = AllTables
        BY DropElements, Zenon DEF DropRests
      <3>3. NoGap(k) => KnownOdbc(k, There')
        BY <1>1, <2>3, <3>1, <3>2, Zenon DEF KnownOdbc
      <3>4. k.file \in {0, at'} /\ k.pc \in OdbcSteps
        BY <1>1, <1>4, <2>3, <2>4, Zenon DEF OdbcSteps
      <3> QED
        BY <3>3, <3>4, OdbcKnow, Zenon
    <2> QED
      BY <1>1, <1>2, <2>2, <2>4, BecomesTurn, Zenon
  <1> QED
    BY <1>3, <1>6, <1>7, <1>8, <1>9
\* A call writes to its file, which is the one at the URL if it is alone.
LEMMA RowsWrite ==
    ASSUME SInv, NEW i \in DOMAIN files, NEW g, files' = [files EXCEPT ![i] = g], backend' = backend,
           ("profiles" \notin files[i].tables => files[i].profs = {})
           => ("profiles" \notin g.tables => g.profs = {})
    PROVE  RowsHaveTable => RowsHaveTable'
  <1>1. PICK S : files \in Seq(S)
    BY Zenon DEF SInv
  <1>2. DOMAIN files' = DOMAIN files /\ files'[i] = g /\ \A j \in DOMAIN files \ {i} : files'[j] = files[j]
    BY <1>1, PutFile, Zenon
  <1> QED
    BY <1>2, Zenon DEF RowsHaveTable

LEMMA ThereWritten ==
    ASSUME SInv, at \in DOMAIN files, at # 0, at' = at, NEW g, files' = [files EXCEPT ![at] = g]
    PROVE  There' = g
  <1>1. PICK S : files \in Seq(S)
    BY Zenon DEF SInv
  <1>2. files'[at] = g
    BY <1>1, PutFile, Zenon
  <1> QED
    BY <1>2, Zenon DEF There

\* The call's file is g now, with the mark of a stale call.
Wrote(p, g, h) ==
    /\ files' = [files EXCEPT ![proc[p].file] = g]
    /\ g.tables = h.tables /\ g.config = h.config /\ g.profs = h.profs

LEMMA PutWrites ==
    ASSUME SInv, NEW p \in Procs, proc[p].pc \in Connected, NEW h, IsFile(h), Put(p, h)
    PROVE  \E g : Wrote(p, g, h)
  <1>1. IsProc(proc[p])
    BY Facts, Zenon
  <1>2. proc[p].stale \in BOOLEAN
    BY <1>1, Zenon DEF IsProc
  <1> DEFINE g == [h EXCEPT !.mixed = h.mixed \/ proc[p].stale]
  <1>3. files' = [files EXCEPT ![proc[p].file] = g]
    BY Zenon DEF Put
  <1>4. g.tables = h.tables /\ g.config = h.config /\ g.profs = h.profs
    BY <1>2, PutFields, Zenon
  <1> HIDE DEF g
  <1> QED
    BY <1>3, <1>4, Zenon DEF Wrote

\* What a writer that is alone finds at the URL afterwards.
LEMMA WroteThere ==
    ASSUME SInv, NEW p \in Procs, proc[p].pc \in Connected, NEW g, NEW h, Wrote(p, g, h), at' = at,
           Known(backend, proc[p], There, at)
    PROVE  There' = g
  <1>1. proc[p].file = at /\ at # 0 /\ at \in DOMAIN files
    BY ThereIsFile, Zenon
  <1>2. files' = [files EXCEPT ![at] = g]
    BY <1>1, Zenon DEF Wrote
  <1> QED
    BY <1>1, <1>2, ThereWritten, Zenon

\* Others may become stale.
LEMMA OutdatedBystanders ==
    ASSUME SInv, NEW p \in Procs, NEW k, proc' = [Outdated(p) EXCEPT ![p] = k]
    PROVE  proc'[p] = k /\ Bystanders(p)
  <1>1. Outdated(p) = [q \in Procs |-> Outdated(p)[q]]
    BY Zenon DEF Outdated
  <1>2. proc'[p] = k /\ \A q \in Procs \ {p} : proc'[q] = Outdated(p)[q]
    BY <1>1, PutProc, Zenon
  <1>3. ASSUME NEW q \in Procs \ {p}
        PROVE  /\ proc'[q].pc = proc[q].pc /\ proc'[q].call = proc[q].call
               /\ proc'[q].alone = proc[q].alone /\ proc'[q].first = proc[q].first
    <2>1. proc'[q] = proc[q] \/ proc'[q] = [proc[q] EXCEPT !.stale = TRUE]
      BY <1>2, Zenon DEF Outdated
    <2>2. IsProc(proc[q])
      BY Facts, Zenon
    <2> DEFINE j == [proc[q] EXCEPT !.stale = TRUE]
    <2>3. j.pc = proc[q].pc /\ j.call = proc[q].call /\ j.alone = proc[q].alone /\ j.first = proc[q].first
      BY <2>2, Zenon DEF IsProc
    <2>4. proc'[q] = proc[q] \/ proc'[q] = j
      BY <2>1
    <2> HIDE DEF j
    <2> QED
      BY <2>3, <2>4, Zenon
  <1> QED
    BY <1>2, <1>3, Zenon DEF Bystanders

LEMMA DropTableTurn ==
    ASSUME SInv, NEW p \in Procs, DropTable(p)
    PROVE  Turn(p)
  <1> DEFINE t == Head(proc[p].todo)
             rest == Tail(proc[p].todo)
             pc == CASE Len(proc[p].todo) > 1 -> "drop" [] Op(p) = "remove" -> "done" [] OTHER -> "keys"
             k == [proc[p] EXCEPT !.todo = rest, !.pc = pc]
             f == File(p)
             h == Dropped(f, t)
  <1>1. /\ proc[p].pc = "drop" /\ backend' = backend /\ at' = at
        /\ \/ Fail(p) /\ files' = files /\ t \notin f.tables
           \/ /\ Put(p, h)
              /\ proc' = [Outdated(p) EXCEPT ![p].todo = rest, ![p].pc = pc]
    <2>1. Outdated(p)[p] = proc[p]
      BY Zenon DEF Outdated
    <2> QED
      BY <2>1, Zenon DEF DropTable
  <1>2. proc[p].pc \in Connected /\ InFlight(p)
    BY <1>1, CheckConnected, Zenon DEF InFlight
  <1>3. /\ IsProc(proc[p]) /\ Placed(backend, proc[p]) /\ IsFile(f) /\ proc[p].file \in DOMAIN files
        /\ proc = [q \in Procs |-> proc[q]]
    BY <1>2, ConnectedFacts, Zenon
  <1>4. backend = "odbc" /\ proc[p].todo \in DropRests /\ Op(p) \in {"provision", "copy", "remove"}
    BY <1>1, <1>3, Zenon DEF Placed, OdbcOnly, Op
  <1>5. /\ t \in Elements(proc[p].todo)
        /\ Len(proc[p].todo) > 1 => Elements(rest) = Elements(proc[p].todo) \ {t}
        /\ ~(Len(proc[p].todo) > 1) => Elements(proc[p].todo) = {t}
    BY <1>4, DropElements, Zenon
  <1>6. Known(backend, proc[p], There, at) =>
          /\ f = There /\ proc[p].file = at
          /\ NoGap(proc[p]) => There.tables = Elements(proc[p].todo) /\ (Op(p) = "provision" => Recreate(p))
    BY <1>1, <1>2, <1>4, ThereIsFile, Zenon DEF Known, KnownOdbc, Op, Recreate
  <1>7. CASE Fail(p) /\ files' = files /\ t \notin f.tables
    <2>1. Known(backend, proc[p], There, at) => MayFail(backend, proc[p], There)
      BY <1>4, <1>5, <1>6, <1>7, Zenon DEF MayFail
    <2> QED
      BY <1>1, <1>2, <1>7, <2>1, FailTurn, Zenon
  <1>8. CASE Put(p, h) /\ proc' = [Outdated(p) EXCEPT ![p].todo = rest, ![p].pc = pc]
    <2>1. proc' = [Outdated(p) EXCEPT ![p] = k]
      <3>1. Outdated(p)[p] = proc[p] /\ Outdated(p) = [q \in Procs |-> Outdated(p)[q]]
        BY Zenon DEF Outdated
      <3> HIDE DEF t, rest, pc
      <3> QED
        BY <1>8, <3>1, Zenon
    <2>2. /\ pc \in {"drop", "done", "keys"}
          /\ pc = "drop" => Len(proc[p].todo) > 1
          /\ pc = "keys" => ~(Len(proc[p].todo) > 1) /\ Op(p) # "remove"
      BY Zenon
    <2>3. /\ IsFile(h) /\ h.tables = f.tables \ {t}
          /\ h.profs = IF t = "profiles" THEN {} ELSE f.profs
      <3> HIDE DEF t, f
      <3> QED
        BY <1>3, Zenon DEF IsFile, Dropped, NoConfig
    <2>4. proc'[p] = k /\ Bystanders(p)
      BY <2>1, OutdatedBystanders, Zenon
    <2>5. PICK g : Wrote(p, g, h)
      BY <1>2, <1>8, <2>3, PutWrites, Zenon
    <2>6. RowsHaveTable => RowsHaveTable'
      <3>1. g.tables = f.tables \ {t} /\ g.profs = (IF t = "profiles" THEN {} ELSE f.profs)
            /\ files' = [files EXCEPT ![proc[p].file] = g]
        BY <2>3, <2>5, Zenon DEF Wrote
      <3> HIDE DEF t
      <3>2. ("profiles" \notin f.tables => f.profs = {}) => ("profiles" \notin g.tables => g.profs = {})
        BY <3>1, Zenon
      <3> QED
        BY <1>1, <1>3, <3>1, <3>2, RowsWrite, Zenon DEF File
    <2> HIDE DEF t, rest, pc, f, h
    <2>7. /\ k.pc = pc /\ k.todo = rest /\ k.call = proc[p].call /\ k.file = proc[p].file
          /\ k.alone = proc[p].alone /\ k.first = proc[p].first
      BY <1>3, Zenon DEF IsProc
    <2> HIDE DEF k
    <2>8. CASE pc = "done"
      BY <1>1, <1>2, <2>4, <2>6, <2>7, <2>8, Zenon DEF Turn, Learns, Ended
    <2>9. CASE pc # "done"
      <3>1. ASSUME Op(p) \in Plain, Known(backend, proc[p], There, at)
            PROVE  Known(backend, k, There', at')
        <4>1. There' = g
          BY <1>1, <1>2, <2>5, <3>1, WroteThere, Zenon
        <4>2. NoGap(k) => NoGap(proc[p])
          BY <2>7, Zenon DEF NoGap
        <4>3. NoGap(k) => /\ There'.tables = Elements(proc[p].todo) \ {t}
                          /\ Op(p) = "provision" => Recreate(p)
          BY <1>6, <2>3, <2>5, <3>1, <4>1, <4>2, Zenon DEF Wrote
        <4>4. NoGap(k) => KnownOdbc(k, There')
          <5>1. CASE pc = "drop"
            BY <1>5, <2>2, <2>7, <4>3, <5>1, Zenon DEF KnownOdbc, Op, Recreate
          <5>2. CASE pc = "keys"
            <6>1. Op(p) = "provision"
              BY <1>4, <2>2, <3>1, <5>2, Zenon DEF Plain
            <6>2. NoGap(k) => There'.tables = {} /\ k.call.recreate
              BY <1>5, <2>2, <2>7, <4>3, <5>2, <6>1, Zenon DEF Recreate
            <6> QED
              BY <2>7, <5>2, <6>2, Zenon DEF KnownOdbc
          <5> QED
            BY <2>2, <2>9, <5>1, <5>2
        <4>5. k.pc \in OdbcSteps /\ k.file \in {0, at'}
          BY <1>1, <1>6, <2>2, <2>7, <2>9, <3>1, Zenon DEF OdbcSteps
        <4>6. Known("odbc", k, There', at')
          BY <4>4, <4>5, OdbcKnow, Zenon
        <4> QED
          BY <1>4, <4>6, Zenon
      <3>2. k.pc # "failed"
        BY <2>2, <2>7, Zenon
      <3> QED
        BY <1>1, <1>2, <2>4, <2>6, <2>7, <3>1, <3>2, Zenon DEF Turn, Learns
    <2> QED
      BY <2>8, <2>9
  <1> QED
    BY <1>1, <1>7, <1>8, ZenonT(60)
----------------------------------------------------------------------------
(***************************************************************************)
(* A new store.                                                            *)
(***************************************************************************)
LEMMA KeysTurn ==
    ASSUME SInv, NEW p \in Procs, Keys(p)
    PROVE  Turn(p)
  <1>1. /\ proc[p].pc = "keys" /\ backend' = backend /\ files' = files /\ at' = at /\ There' = There
        /\ \/ Fail(p) /\ InitKeys(proc[p].call) = {}
           \/ \E m \in InitKeys(proc[p].call) :
                proc' = [proc EXCEPT ![p].keys = m, ![p].todo = Tables,
                                     ![p].pc = IF backend = "odbc" THEN "schema" ELSE "init"]
    BY Zenon DEF Keys, There
  <1>2. proc[p].pc \in Connected /\ InFlight(p) /\ (RowsHaveTable => RowsHaveTable')
    BY <1>1, CheckConnected, SameFiles, Zenon DEF InFlight
  <1>3. /\ proc = [q \in Procs |-> proc[q]] /\ IsProc(proc[p]) /\ proc[p].call \in Calls
        /\ Placed(backend, proc[p]) /\ FileOK(backend, File(p)) /\ backend \in {"sqlite", "postgres", "odbc"}
        /\ proc[p].file \in DOMAIN files
    BY <1>2, ConnectedFacts, Zenon DEF SInv
  <1>4. CASE Fail(p) /\ InitKeys(proc[p].call) = {}
    <2>1. Resolve(proc[p].call.method, proc[p].call.pass, fresh + 1) = {}
      BY <1>4, Zenon DEF InitKeys
    <2>2. proc[p].call.method \in {"kdf", "raw", "none"}
      BY <1>1, <1>3, StoresAssumption, Zenon DEF Placed
    <2>3. proc[p].call.method = "kdf" /\ proc[p].call.pass = Absent
      <3>1. CASE proc[p].call.method = "kdf"
        BY <2>1, <3>1, Zenon DEF Resolve
      <3>2. CASE proc[p].call.method = "raw"
        BY <2>1, <3>2, Zenon DEF Resolve
      <3>3. CASE proc[p].call.method = "none"
        BY <2>1, <3>3, Zenon DEF Resolve
      <3> QED
        BY <2>2, <3>1, <3>2, <3>3
    <2>4. ASSUME Known(backend, proc[p], There, at) PROVE MayFail(backend, proc[p], There)
      <3>1. (proc[p].call.recreate => backend = "postgres") /\ (backend = "odbc" => NoGap(proc[p]))
            => There = proc[p].first
        <4>1. CASE backend = "sqlite"
          BY <1>1, <2>4, <4>1, Zenon DEF Known
        <4>2. CASE backend = "postgres"
          BY <1>1, <2>4, <4>2, Zenon DEF Known
        <4>3. CASE backend = "odbc"
          BY <1>1, <2>4, <4>3, Zenon DEF Known, KnownOdbc
        <4> QED
          BY <1>3, <4>1, <4>2, <4>3
      <3> QED
        BY <2>3, <3>1, Zenon DEF MayFail
    <2> QED
      BY <1>1, <1>2, <1>4, <2>4, FailTurn, Zenon
  <1>5. ASSUME NEW m \in InitKeys(proc[p].call),
               proc' = [proc EXCEPT ![p].keys = m, ![p].todo = Tables,
                                    ![p].pc = IF backend = "odbc" THEN "schema" ELSE "init"]
        PROVE  Turn(p)
    <2> DEFINE pc == IF backend = "odbc" THEN "schema" ELSE "init"
               k == [proc[p] EXCEPT !.keys = m, !.todo = Tables, !.pc = pc]
    <2>1. /\ pc \in {"schema", "init"} /\ (pc = "schema" <=> backend = "odbc")
          /\ proc' = [proc EXCEPT ![p].keys = m, ![p].todo = Tables, ![p].pc = pc]
      BY <1>5, Zenon
    <2> HIDE DEF pc
    <2>2. Becomes(p, k, pc, proc[p].file, proc[p].txn, Tables)
      <3> HIDE DEF Tables
      <3> QED
        BY <1>3, <2>1, Zenon DEF IsProc, Becomes
    <2> HIDE DEF k
    <2>3. /\ k.pc = pc /\ k.file = proc[p].file /\ k.txn = proc[p].txn /\ k.todo = Tables
          /\ k.call = proc[p].call /\ k.first = proc[p].first
      BY <2>2, Zenon DEF Becomes
    <2>4. ASSUME RowsHaveTable, Known(backend, proc[p], There, at) PROVE Known(backend, k, There', at')
      <3>1. k.file \in {0, at'}
        BY <1>1, <2>3, <2>4, Zenon DEF Known
      <3>2. CASE backend = "odbc"
        <4>1. k.pc = "schema" /\ k.pc \in OdbcSteps
          BY <2>1, <2>3, <3>2, Zenon DEF OdbcSteps
        <4>2. NoGap(k) => There.tables = {}
          BY <1>1, <2>3, <2>4, <3>2, Zenon DEF Known, KnownOdbc, NoGap
        <4>3. There = File(p)
          BY <1>2, <2>4, ThereIsFile, Zenon
        <4>4. NoGap(k) => Bare(There)
          BY <1>3, <2>4, <3>2, <4>2, <4>3, Zenon DEF Bare, FileOK, HasConfig, RowsHaveTable, File
        <4>5. Elements(Tables) = AllTables
          BY TableElements, Zenon DEF TableRests
        <4>6. NoGap(k) => There.tables = AllTables \ Elements(k.todo)
          BY <2>3, <4>2, <4>5
        <4>7. NoGap(k) => KnownOdbc(k, There')
          BY <1>1, <4>1, <4>4, <4>6, Zenon DEF KnownOdbc
        <4>8. Known("odbc", k, There', at')
          BY <3>1, <4>1, <4>7, OdbcKnow, Zenon
        <4> QED
          BY <3>2, <4>8
      <3>3. CASE backend # "odbc"
        <4>1. k.pc = "init"
          BY <2>1, <2>3, <3>3, Zenon
        <4>2. backend = "sqlite" => IF k.call.recreate THEN There'.tables = {} ELSE There' = k.first
          BY <1>1, <2>3, <2>4, Zenon DEF Known
        <4>3. backend = "postgres" => There' = k.first /\ (k.call.recreate /\ ~k.txn => There'.tables = {})
          BY <1>1, <2>3, <2>4, Zenon DEF Known
        <4> QED
          BY <3>1, <3>3, <4>1, <4>2, <4>3, Zenon DEF Known, Ways, Reads
      <3> QED
        BY <3>2, <3>3
    <2>5. pc # "failed"
      BY <2>1, Zenon
    <2> QED
      BY <1>1, <1>2, <2>2, <2>4, <2>5, BecomesTurn, Zenon
  <1> QED
    BY <1>1, <1>4, <1>5

\* A call that has its instance: open or, if it migrated, done.  A copy goes on.
LEMMA OpenedTurn ==
    ASSUME SInv, NEW p \in Procs, InFlight(p), NEW ps, ps = [q \in Procs |-> ps[q]], ps[p] = proc[p],
           NEW inst, proc' = OpenedIn(ps, p, inst), backend' = backend, RowsHaveTable => RowsHaveTable',
           ps = proc \/ ps = Outdated(p)
    PROVE  Turn(p)
  <1> DEFINE j == proc[p]
             base == [j EXCEPT !.inst = inst, !.txn = FALSE, !.keys = NoInst, !.first = Empty]
             opened == [ps EXCEPT ![p].inst = inst, ![p].txn = FALSE, ![p].keys = NoInst, ![p].first = Empty]
  <1>1. IsProc(j)
    BY Facts, Zenon
  <1>2. opened = [ps EXCEPT ![p] = base]
    BY <1>1, Zenon DEF IsProc
  <1>3. opened = [q \in Procs |-> opened[q]] /\ opened[p] = base
    BY <1>2, PutProc, Zenon
  <1>4. /\ base \in [pc : {j.pc}, call : {j.call}, file : Nat, txn : {FALSE}, stale : BOOLEAN, keys : {NoInst},
                     todo : {j.todo}, inst : {inst}, alone : {j.alone}, first : {Empty}]
    <2> HIDE DEF j
    <2> QED
      BY <1>1, Zenon DEF IsProc
  <1> HIDE DEF base
  <1>5. PICK k : /\ proc' = [ps EXCEPT ![p] = k]
                 /\ k.pc \in Ended \/ (k.call = j.call /\ k.alone = j.alone /\ Op(p) = "copy")
    <2>1. CASE Op(p) = "copy"
      <3> DEFINE k == [base EXCEPT !.pc = "create_profile", !.todo = Source]
      <3>1. proc' = [opened EXCEPT ![p].pc = "create_profile", ![p].todo = Source]
        BY <2>1, Zenon DEF OpenedIn
      <3>2. proc' = [ps EXCEPT ![p] = k]
        BY <1>2, <1>3, <3>1, Zenon
      <3>3. k.call = j.call /\ k.alone = j.alone
        <4> HIDE DEF j
        <4> QED
          BY <1>4, Zenon
      <3> QED
        BY <2>1, <3>2, <3>3, Zenon
    <2>2. CASE Op(p) = "migrate"
      <3>1. proc' = [ps EXCEPT ![p] = [Free EXCEPT !.pc = "done"]]
        BY <2>2, Zenon DEF OpenedIn
      <3>2. [Free EXCEPT !.pc = "done"].pc \in Ended
        BY Zenon DEF Free, Ended
      <3> QED
        BY <3>1, <3>2, Zenon
    <2>3. CASE Op(p) \notin {"copy", "migrate"}
      <3> DEFINE k == [base EXCEPT !.pc = "open", !.todo = <<>>]
      <3>1. proc' = [opened EXCEPT ![p].pc = "open", ![p].todo = <<>>]
        BY <2>3, Zenon DEF OpenedIn
      <3>2. proc' = [ps EXCEPT ![p] = k]
        BY <1>2, <1>3, <3>1, Zenon
      <3>3. k.pc = "open"
        <4> HIDE DEF j
        <4> QED
          BY <1>4, Zenon
      <3> QED
        BY <3>2, <3>3, Zenon DEF Ended
    <2> QED
      BY <2>1, <2>2, <2>3
  <1>6. proc'[p] = k /\ Bystanders(p)
    <2>1. CASE ps = proc
      <3>1. proc'[p] = k /\ \A q \in Procs \ {p} : proc'[q] = proc[q]
        BY <1>5, <2>1, PutProc, Zenon DEF SInv
      <3> QED
        BY <3>1, Zenon DEF Bystanders
    <2>2. CASE ps = Outdated(p)
      BY <1>5, <2>2, OutdatedBystanders, Zenon
    <2> QED
      BY <2>1, <2>2
  <1>7. Op(p) = "copy" => Op(p) \notin Plain
    BY Zenon DEF Plain
  <1> QED
    BY <1>5, <1>6, <1>7, Zenon DEF Turn, Learns

LEMMA InitDbTurn ==
    ASSUME SInv, NEW p \in Procs, InitDb(p) \/ Replace(p)
    PROVE  Turn(p)
  <1>1. /\ proc[p].pc = "init" /\ backend' = backend /\ at' = at
        /\ \/ Fail(p) /\ files' = files /\ File(p).tables # {} /\ ~proc[p].txn
           \/ \E i : proc' = OpenedIn(proc, p, NewInstance(p, i)) \/ proc' = OpenedIn(Outdated(p), p, NewInstance(p, i))
    BY Zenon DEF InitDb, Replace, Opened
  <1>2. proc[p].pc \in Connected /\ InFlight(p)
    BY <1>1, CheckConnected, Zenon DEF InFlight
  <1>3. Placed(backend, proc[p]) /\ backend \in {"sqlite", "postgres", "odbc"}
    BY <1>2, ConnectedFacts, Zenon DEF SInv
  <1>4. backend # "odbc" /\ (RowsHaveTable => RowsHaveTable')
    BY <1>1, <1>3, OtherBackend, Zenon DEF Placed
  <1>5. CASE Fail(p) /\ files' = files /\ File(p).tables # {} /\ ~proc[p].txn
    <2>1. ASSUME Known(backend, proc[p], There, at) PROVE MayFail(backend, proc[p], There)
      <3>1. There.tables # {}
        BY <1>2, <1>5, <2>1, ThereIsFile, Zenon
      <3>2. CASE backend = "sqlite"
        BY <1>1, <2>1, <3>1, <3>2, Zenon DEF Known, MayFail
      <3>3. CASE backend = "postgres"
        BY <1>1, <1>5, <2>1, <3>1, <3>3, Zenon DEF Known, MayFail
      <3> QED
        BY <1>3, <1>4, <3>2, <3>3
    <2> QED
      BY <1>1, <1>2, <1>5, <2>1, FailTurn, Zenon
  <1>6. ASSUME NEW i, proc' = OpenedIn(proc, p, NewInstance(p, i)) PROVE Turn(p)
    <2>1. proc = [q \in Procs |-> proc[q]]
      BY Zenon DEF SInv
    <2> QED
      BY <1>1, <1>2, <1>4, <1>6, <2>1, OpenedTurn, Zenon
  <1>7. ASSUME NEW i, proc' = OpenedIn(Outdated(p), p, NewInstance(p, i)) PROVE Turn(p)
    <2>1. Outdated(p) = [q \in Procs |-> Outdated(p)[q]] /\ Outdated(p)[p] = proc[p]
      BY Zenon DEF Outdated
    <2> QED
      BY <1>1, <1>2, <1>4, <1>7, <2>1, OpenedTurn, Zenon
  <1> QED
    BY <1>1, <1>5, <1>6, <1>7

LEMMA CreateTableTurn ==
    ASSUME SInv, NEW p \in Procs, CreateTable(p)
    PROVE  Turn(p)
  <1> DEFINE t == Head(proc[p].todo)
             rest == Tail(proc[p].todo)
             pc == IF Len(proc[p].todo) > 1 THEN "schema" ELSE "insert_config"
             k == [proc[p] EXCEPT !.todo = rest, !.pc = pc]
             f == File(p)
             h == [f EXCEPT !.tables = f.tables \cup {t}]
  <1>1. /\ proc[p].pc = "schema" /\ backend' = backend /\ at' = at
        /\ \/ Fail(p) /\ files' = files /\ t \in f.tables
           \/ Put(p, h) /\ proc' = [proc EXCEPT ![p].todo = rest, ![p].pc = pc]
    BY Zenon DEF CreateTable
  <1>2. proc[p].pc \in Connected /\ InFlight(p)
    BY <1>1, CheckConnected, Zenon DEF InFlight
  <1>3. /\ IsProc(proc[p]) /\ Placed(backend, proc[p]) /\ IsFile(f) /\ proc[p].file \in DOMAIN files
        /\ proc = [q \in Procs |-> proc[q]]
    BY <1>2, ConnectedFacts, Zenon
  <1>4. backend = "odbc" /\ proc[p].todo \in TableRests
    BY <1>1, <1>3, Zenon DEF Placed, OdbcOnly
  <1>5. /\ t \in Elements(proc[p].todo) /\ t \in AllTables
        /\ Len(proc[p].todo) > 1 => Elements(rest) = Elements(proc[p].todo) \ {t}
        /\ ~(Len(proc[p].todo) > 1) => Elements(proc[p].todo) = {t}
    BY <1>4, TableElements, Zenon
  <1>6. Known(backend, proc[p], There, at) =>
          /\ f = There /\ proc[p].file = at
          /\ NoGap(proc[p]) => There.tables = AllTables \ Elements(proc[p].todo) /\ Bare(There)
    BY <1>1, <1>2, <1>4, ThereIsFile, Zenon DEF Known, KnownOdbc
  <1>7. CASE Fail(p) /\ files' = files /\ t \in f.tables
    <2>1. Known(backend, proc[p], There, at) => MayFail(backend, proc[p], There)
      BY <1>4, <1>5, <1>6, <1>7, Zenon DEF MayFail
    <2> QED
      BY <1>1, <1>2, <1>7, <2>1, FailTurn, Zenon
  <1>8. CASE Put(p, h) /\ proc' = [proc EXCEPT ![p].todo = rest, ![p].pc = pc]
    <2>1. /\ pc \in {"schema", "insert_config"}
          /\ pc = "schema" => Len(proc[p].todo) > 1
          /\ pc = "insert_config" => ~(Len(proc[p].todo) > 1)
      BY Zenon
    <2>2. IsFile(h) /\ h.tables = f.tables \cup {t} /\ h.profs = f.profs /\ h.config = f.config
      <3> HIDE DEF t, f
      <3> QED
        BY <1>3, Zenon DEF IsFile
    <2> HIDE DEF t, rest, pc, h
    <2>3. Becomes(p, k, pc, proc[p].file, proc[p].txn, rest)
      BY <1>3, <1>8, Zenon DEF IsProc, Becomes
    <2> HIDE DEF k
    <2>4. PICK g : Wrote(p, g, h)
      BY <1>2, <1>8, <2>2, PutWrites, Zenon
    <2>5. g.tables = f.tables \cup {t} /\ g.profs = f.profs /\ g.config = f.config
          /\ files' = [files EXCEPT ![proc[p].file] = g]
      BY <2>2, <2>4, Zenon DEF Wrote
    <2>6. RowsHaveTable => RowsHaveTable'
      <3>1. ("profiles" \notin f.tables => f.profs = {}) => ("profiles" \notin g.tables => g.profs = {})
        BY <2>5, Zenon
      <3> QED
        BY <1>1, <1>3, <2>5, <3>1, RowsWrite, Zenon DEF File
    <2>7. ASSUME Known(backend, proc[p], There, at)
          PROVE  Known(backend, k, There', at')
      <3>1. There' = g
        BY <1>1, <1>2, <2>4, <2>7, WroteThere, Zenon
      <3>2. /\ k.pc = pc /\ k.todo = rest /\ k.call = proc[p].call /\ k.file = proc[p].file
            /\ k.first = proc[p].first
        BY <2>3, Zenon DEF Becomes
      <3>3. NoGap(k) => NoGap(proc[p])
        BY <3>2, Zenon DEF NoGap
      <3>4. NoGap(k) => There'.tables = (AllTables \ Elements(proc[p].todo)) \cup {t} /\ Bare(There')
        BY <1>6, <2>5, <2>7, <3>1, <3>3, Zenon DEF Bare
      <3>5. NoGap(k) => KnownOdbc(k, There')
        <4>1. CASE pc = "schema"
          <5>1. NoGap(k) => There'.tables = AllTables \ Elements(rest)
            BY <1>5, <2>1, <3>4, <4>1, Zenon
          <5> QED
            BY <3>2, <3>4, <4>1, <5>1, Zenon DEF KnownOdbc
        <4>2. CASE pc = "insert_config"
          <5>1. NoGap(k) => There'.tables = AllTables
            BY <1>5, <2>1, <3>4, <4>2, Zenon
          <5> QED
            BY <3>2, <3>4, <4>2, <5>1, Zenon DEF KnownOdbc
        <4> QED
          BY <2>1, <4>1, <4>2
      <3>6. k.pc \in OdbcSteps /\ k.file \in {0, at'}
        BY <1>1, <1>6, <2>1, <2>7, <3>2, Zenon DEF OdbcSteps
      <3>7. Known("odbc", k, There', at')
        BY <3>5, <3>6, OdbcKnow, Zenon
      <3> QED
        BY <1>4, <3>7, Zenon
    <2>8. pc # "failed"
      BY <2>1, Zenon
    <2> QED
      BY <1>1, <1>2, <2>3, <2>6, <2>7, <2>8, BecomesTurn, Zenon
  <1> QED
    BY <1>1, <1>7, <1>8, ZenonT(60)

LEMMA InsertConfigTurn ==
    ASSUME SInv, NEW p \in Procs, InsertConfig(p)
    PROVE  Turn(p)
  <1> DEFINE c == [profile |-> proc[p].call.profile, key |-> proc[p].keys.ref, version |-> "1"]
             f == File(p)
             h == [f EXCEPT !.config = c, !.by = proc[p].call.pass]
  <1>1. /\ proc[p].pc = "insert_config" /\ backend' = backend /\ at' = at
        /\ \/ Fail(p) /\ files' = files /\ ~(HasConfig(f) /\ f.config = NoConfig)
           \/ Put(p, h) /\ To(p, "insert_profile")
    BY Zenon DEF InsertConfig
  <1>2. proc[p].pc \in Connected /\ InFlight(p)
    BY <1>1, CheckConnected, Zenon DEF InFlight
  <1>3. /\ IsProc(proc[p]) /\ Placed(backend, proc[p]) /\ IsFile(f) /\ proc[p].file \in DOMAIN files
    BY <1>2, ConnectedFacts, Zenon
  <1>4. backend = "odbc" /\ "config" \in AllTables
    BY <1>1, <1>3, AllTablesFour, Zenon DEF Placed, OdbcOnly
  <1>5. Known(backend, proc[p], There, at) =>
          /\ f = There /\ proc[p].file = at
          /\ NoGap(proc[p]) => There.tables = AllTables /\ Bare(There)
    BY <1>1, <1>2, <1>4, ThereIsFile, Zenon DEF Known, KnownOdbc
  <1>6. CASE Fail(p) /\ files' = files /\ ~(HasConfig(f) /\ f.config = NoConfig)
    <2>1. Known(backend, proc[p], There, at) => MayFail(backend, proc[p], There)
      BY <1>4, <1>5, <1>6, Zenon DEF MayFail, HasConfig, Bare
    <2> QED
      BY <1>1, <1>2, <1>6, <2>1, FailTurn, Zenon
  <1>7. CASE Put(p, h) /\ To(p, "insert_profile")
    <2>1. IsFile(h) /\ h.tables = f.tables /\ h.profs = f.profs
      <3> HIDE DEF f
      <3> QED
        BY <1>3, Zenon DEF IsFile
    <2> HIDE DEF h, c
    <2>2. PICK k : Becomes(p, k, "insert_profile", proc[p].file, proc[p].txn, proc[p].todo)
      BY <1>7, ToGives, Zenon
    <2>3. PICK g : Wrote(p, g, h)
      BY <1>2, <1>7, <2>1, PutWrites, Zenon
    <2>4. g.tables = f.tables /\ g.profs = f.profs /\ files' = [files EXCEPT ![proc[p].file] = g]
      BY <2>1, <2>3, Zenon DEF Wrote
    <2>5. RowsHaveTable => RowsHaveTable'
      <3>1. ("profiles" \notin f.tables => f.profs = {}) => ("profiles" \notin g.tables => g.profs = {})
        BY <2>4, Zenon
      <3> QED
        BY <1>1, <1>3, <2>4, <3>1, RowsWrite, Zenon DEF File
    <2>6. ASSUME Known(backend, proc[p], There, at)
          PROVE  Known(backend, k, There', at')
      <3>1. There' = g
        BY <1>1, <1>2, <2>3, <2>6, WroteThere, Zenon
      <3>2. k.pc = "insert_profile" /\ k.file = proc[p].file /\ k.first = proc[p].first
        BY <2>2, Zenon DEF Becomes
      <3>3. NoGap(k) => There'.tables = AllTables /\ There'.profs = {}
        BY <1>5, <2>4, <2>6, <3>1, <3>2, Zenon DEF Bare, NoGap
      <3>4. NoGap(k) => KnownOdbc(k, There')
        BY <3>2, <3>3, Zenon DEF KnownOdbc
      <3>5. k.pc \in OdbcSteps /\ k.file \in {0, at'}
        BY <1>1, <1>5, <2>6, <3>2, Zenon DEF OdbcSteps
      <3>6. Known("odbc", k, There', at')
        BY <3>4, <3>5, OdbcKnow, Zenon
      <3> QED
        BY <1>4, <3>6, Zenon
    <2> QED
      BY <1>1, <1>2, <2>2, <2>5, <2>6, BecomesTurn, Zenon
  <1> QED
    BY <1>1, <1>6, <1>7

LEMMA InsertProfileTurn ==
    ASSUME SInv, NEW p \in Procs, InsertProfile(p)
    PROVE  Turn(p)
  <1> DEFINE f == File(p)
             row == ProfileRow(NextId(f), proc[p].call.profile, proc[p].keys.skey, proc[p].keys.pkey)
             h == [f EXCEPT !.profs = f.profs \cup {row}]
  <1>1. /\ proc[p].pc = "insert_profile" /\ backend' = backend /\ at' = at
        /\ \/ Fail(p) /\ files' = files /\ ~("profiles" \in f.tables /\ f.profs = {})
           \/ "profiles" \in f.tables /\ Put(p, h) /\ proc' = OpenedIn(proc, p, NewInstance(p, NextId(f)))
    BY Zenon DEF InsertProfile, Opened
  <1>2. proc[p].pc \in Connected /\ InFlight(p)
    BY <1>1, CheckConnected, Zenon DEF InFlight
  <1>3. /\ IsProc(proc[p]) /\ Placed(backend, proc[p]) /\ IsFile(f) /\ proc[p].file \in DOMAIN files
        /\ proc = [q \in Procs |-> proc[q]]
    BY <1>2, ConnectedFacts, Zenon
  <1>4. backend = "odbc" /\ "profiles" \in AllTables
    BY <1>1, <1>3, AllTablesFour, Zenon DEF Placed, OdbcOnly
  <1>5. Known(backend, proc[p], There, at) =>
          f = There /\ (NoGap(proc[p]) => There.tables = AllTables /\ There.profs = {})
    BY <1>1, <1>2, <1>4, ThereIsFile, Zenon DEF Known, KnownOdbc
  <1>6. CASE Fail(p) /\ files' = files /\ ~("profiles" \in f.tables /\ f.profs = {})
    <2>1. Known(backend, proc[p], There, at) => MayFail(backend, proc[p], There)
      BY <1>4, <1>5, <1>6, Zenon DEF MayFail
    <2> QED
      BY <1>1, <1>2, <1>6, <2>1, FailTurn, Zenon
  <1>7. CASE "profiles" \in f.tables /\ Put(p, h) /\ proc' = OpenedIn(proc, p, NewInstance(p, NextId(f)))
    <2>1. IsFile(h) /\ h.tables = f.tables
      <3> HIDE DEF f, row
      <3> QED
        BY <1>3, Zenon DEF IsFile
    <2> HIDE DEF h
    <2>2. PICK g : Wrote(p, g, h)
      BY <1>2, <1>7, <2>1, PutWrites, Zenon
    <2>3. "profiles" \in g.tables /\ files' = [files EXCEPT ![proc[p].file] = g]
      BY <1>7, <2>1, <2>2, Zenon DEF Wrote
    <2>4. RowsHaveTable => RowsHaveTable'
      BY <1>1, <1>3, <2>3, RowsWrite, Zenon
    <2> QED
      BY <1>1, <1>2, <1>3, <1>7, <2>4, OpenedTurn, Zenon
  <1> QED
    BY <1>1, <1>6, <1>7

LEMMA OpenConfigTurn ==
    ASSUME SInv, NEW p \in Procs, OpenConfig(p)
    PROVE  Turn(p)
  <1>1. /\ proc[p].pc = "config" /\ backend' = backend /\ files' = files /\ at' = at /\ There' = There
        /\ \/ Fail(p)
           \/ \E m : proc' = [proc EXCEPT ![p].keys = m, ![p].pc = "profile"]
    BY Zenon DEF OpenConfig, There
  <1>2. InFlight(p) /\ (RowsHaveTable => RowsHaveTable') /\ proc[p].pc \in Reads
    BY <1>1, CheckConnected, SameFiles, Zenon DEF InFlight, Reads
  <1>3. Known(backend, proc[p], There, at) =>
          There = proc[p].first /\ proc[p].file \in {0, at} /\ ~(proc[p].call.op = "provision" /\ proc[p].call.recreate)
    BY <1>1, <1>2, Zenon DEF Known
  <1>4. CASE Fail(p)
    <2>1. Known(backend, proc[p], There, at) => MayFail(backend, proc[p], There)
      BY <1>2, <1>3, FailReads, Zenon
    <2> QED
      BY <1>1, <1>2, <1>4, <2>1, FailTurn, Zenon
  <1>5. ASSUME NEW m, proc' = [proc EXCEPT ![p].keys = m, ![p].pc = "profile"]
        PROVE  Turn(p)
    <2> DEFINE k == [proc[p] EXCEPT !.keys = m, !.pc = "profile"]
    <2>1. proc = [q \in Procs |-> proc[q]] /\ IsProc(proc[p])
      BY Facts, Zenon
    <2>2. Becomes(p, k, "profile", proc[p].file, proc[p].txn, proc[p].todo)
      BY <1>5, <2>1, Zenon DEF IsProc, Becomes
    <2> HIDE DEF k
    <2>3. k.pc = "profile" /\ k.pc \in Reads /\ k.file = proc[p].file /\ k.first = proc[p].first /\ k.call = proc[p].call
      BY <2>2, Zenon DEF Becomes, Reads
    <2>4. Known(backend, proc[p], There, at) => Known(backend, k, There', at')
      BY <1>1, <1>3, <2>3, ReadsKnow, Zenon
    <2> QED
      BY <1>1, <1>2, <2>2, <2>4, BecomesTurn, Zenon
  <1> QED
    BY <1>1, <1>4, <1>5

LEMMA OpenProfileTurn ==
    ASSUME SInv, NEW p \in Procs, OpenProfile(p)
    PROVE  Turn(p)
  <1>1. /\ proc[p].pc = "profile" /\ backend' = backend /\ files' = files /\ at' = at
        /\ Fail(p) \/ \E i : proc' = OpenedIn(proc, p, i)
    BY Zenon DEF OpenProfile, Opened
  <1>2. InFlight(p) /\ (RowsHaveTable => RowsHaveTable') /\ proc[p].pc \in Reads
    BY <1>1, CheckConnected, SameFiles, Zenon DEF InFlight, Reads
  <1>3. CASE Fail(p)
    <2>1. Known(backend, proc[p], There, at) => ~(proc[p].call.op = "provision" /\ proc[p].call.recreate)
      BY <1>1, Zenon DEF Known
    <2>2. Known(backend, proc[p], There, at) => MayFail(backend, proc[p], There)
      BY <1>2, <2>1, FailReads, Zenon
    <2> QED
      BY <1>1, <1>2, <1>3, <2>2, FailTurn, Zenon
  <1>4. ASSUME NEW i, proc' = OpenedIn(proc, p, i) PROVE Turn(p)
    <2>1. proc = [q \in Procs |-> proc[q]]
      BY Zenon DEF SInv
    <2> QED
      BY <1>1, <1>2, <1>4, <2>1, OpenedTurn, Zenon
  <1> QED
    BY <1>1, <1>3, <1>4
----------------------------------------------------------------------------
(***************************************************************************)
(* Migrations and copies, which are not among the calls in question but go *)
(* on beside the instances that other calls have opened.                   *)
(***************************************************************************)
LEMMA SideTurn ==
    ASSUME SInv, NEW p \in Procs, InFlight(p), proc[p].pc \notin Ways, NEW k, proc' = [proc EXCEPT ![p] = k],
           k.call = proc[p].call, k.alone = proc[p].alone, backend' = backend, RowsHaveTable => RowsHaveTable'
    PROVE  Turn(p)
  <1>1. proc'[p] = k /\ \A q \in Procs \ {p} : proc'[q] = proc[q]
    BY PutProc, Zenon DEF SInv
  <1>2. Bystanders(p) /\ ~Known(backend, proc[p], There, at)
    BY <1>1, Zenon DEF Bystanders, Known
  <1> QED
    BY <1>1, <1>2, Zenon DEF Turn

LEMMA SideFail ==
    ASSUME SInv, NEW p \in Procs, InFlight(p), proc[p].pc \notin Ways, Fail(p), backend' = backend, files' = files
    PROVE  Turn(p)
  <1> DEFINE k == [Free EXCEPT !.pc = "failed", !.call = proc[p].call,
                               !.alone = proc[p].alone, !.first = proc[p].first]
  <1>1. proc' = [proc EXCEPT ![p] = k] /\ k.call = proc[p].call /\ k.alone = proc[p].alone
    BY Zenon DEF Fail, Free
  <1> HIDE DEF k
  <1> QED
    BY <1>1, SideTurn, SameFiles, Zenon

LEMMA SideTo ==
    ASSUME SInv, NEW p \in Procs, InFlight(p), proc[p].pc \notin Ways, NEW pc, To(p, pc),
           backend' = backend, RowsHaveTable => RowsHaveTable'
    PROVE  Turn(p)
  <1>1. PICK k : Becomes(p, k, pc, proc[p].file, proc[p].txn, proc[p].todo)
    BY ToGives, Zenon
  <1> QED
    BY <1>1, SideTurn, Zenon DEF Becomes

LEMMA MigrationTurn ==
    ASSUME SInv, NEW p \in Procs, MigrationStep(p), ~ConnectWallet(p), ~Reopen(p)
    PROVE  Turn(p)
  <1>1. proc[p].pc \in Migrating \cup {"is_migrated", "pre_upgrade"} /\ backend' = backend
    BY ZenonT(60) DEF MigrationStep, IsMigrated, PreUpgrade, FetchIndyKey, CreateConfig, InitProfile,
          FetchPending, UpdateItems, FinishUpgrade, Migrating, Upgrading
  <1>2. InFlight(p) /\ proc[p].pc \notin Ways
    BY <1>1, ZenonT(60) DEF InFlight, Ways, Migrating, Upgrading
  <1>3. /\ proc = [q \in Procs |-> proc[q]] /\ IsProc(proc[p]) /\ Placed(backend, proc[p])
    BY Facts, Zenon
  <1>4. backend = "sqlite"
    BY <1>1, <1>3, Zenon DEF Placed
  <1>5. RowsHaveTable => RowsHaveTable'
    BY <1>1, <1>4, OtherBackend, Zenon
  <1>6. CASE IsMigrated(p)
    BY <1>1, <1>2, <1>5, <1>6, SideFail, SideTo, Zenon DEF IsMigrated
  <1>7. CASE PreUpgrade(p)
    BY <1>1, <1>2, <1>5, <1>7, SideFail, SideTo, Zenon DEF PreUpgrade
  <1>8. CASE FetchIndyKey(p)
    <2>1. CASE Fail(p)
      BY <1>1, <1>2, <1>8, <2>1, SideFail, Zenon DEF FetchIndyKey
    <2>2. CASE ~Fail(p)
      <3>1. PICK m : proc' = [proc EXCEPT ![p].pc = "default_profile", ![p].keys = m]
        BY <1>8, <2>2, Zenon DEF FetchIndyKey
      <3> DEFINE k == [proc[p] EXCEPT !.pc = "default_profile", !.keys = m]
      <3>2. proc' = [proc EXCEPT ![p] = k] /\ k.call = proc[p].call /\ k.alone = proc[p].alone
        BY <1>3, <3>1, Zenon DEF IsProc
      <3> HIDE DEF k
      <3> QED
        BY <1>1, <1>2, <1>5, <3>2, SideTurn, Zenon
    <2> QED
      BY <2>1, <2>2
  <1>9. CASE CreateConfig(p)
    <2>1. PICK pc : To(p, pc)
      BY <1>9, Zenon DEF CreateConfig
    <2> QED
      BY <1>1, <1>2, <1>5, <2>1, SideTo, Zenon
  <1>10. CASE InitProfile(p)
    BY <1>1, <1>2, <1>5, <1>10, SideFail, SideTo, Zenon DEF InitProfile
  <1>11. CASE FetchPending(p)
    <2>1. CASE To(p, "finish")
      BY <1>1, <1>2, <1>5, <2>1, SideTo, Zenon
    <2>2. CASE ~To(p, "finish")
      <3>1. PICK i : proc' = [proc EXCEPT ![p].pc = "insert", ![p].todo = <<i>>]
        BY <1>11, <2>2, Zenon DEF FetchPending
      <3> DEFINE k == [proc[p] EXCEPT !.pc = "insert", !.todo = <<i>>]
      <3>2. proc' = [proc EXCEPT ![p] = k] /\ k.call = proc[p].call /\ k.alone = proc[p].alone
        BY <1>3, <3>1, Zenon DEF IsProc
      <3> HIDE DEF k
      <3> QED
        BY <1>1, <1>2, <1>5, <3>2, SideTurn, Zenon
    <2> QED
      BY <2>1, <2>2
  <1>12. CASE UpdateItems(p)
    <2>1. PICK pc : To(p, pc)
      BY <1>12, Zenon DEF UpdateItems
    <2> QED
      BY <1>1, <1>2, <1>5, <2>1, SideTo, Zenon
  <1>13. CASE FinishUpgrade(p)
    <2> DEFINE k == [proc[p] EXCEPT !.pc = "reopen", !.file = 0]
    <2>1. proc' = [proc EXCEPT ![p] = k] /\ k.call = proc[p].call /\ k.alone = proc[p].alone
      BY <1>3, <1>13, Zenon DEF IsProc, FinishUpgrade
    <2> HIDE DEF k
    <2> QED
      BY <1>1, <1>2, <1>5, <2>1, SideTurn, Zenon
  <1> QED
    BY <1>6, <1>7, <1>8, <1>9, <1>10, <1>11, <1>12, <1>13, ZenonT(60) DEF MigrationStep

LEMMA CopyTurn ==
    ASSUME SInv, NEW p \in Procs, CopyStep(p)
    PROVE  Turn(p)
  <1> DEFINE f == File(p)
  <1>1. proc[p].pc \in {"create_profile", "count", "import"} /\ backend' = backend
    BY Zenon DEF CopyStep, CreateProfile, Count, ImportScan
  <1>2. InFlight(p) /\ proc[p].pc \notin Ways /\ proc[p].pc \in Connected
    BY <1>1, ZenonT(60) DEF InFlight, Ways, Connected, Holds
  <1>3. /\ proc = [q \in Procs |-> proc[q]] /\ IsProc(proc[p]) /\ IsFile(f) /\ proc[p].file \in DOMAIN files
    BY <1>2, ConnectedFacts, Zenon
  <1>4. CASE Fail(p) /\ files' = files
    BY <1>1, <1>2, <1>4, SideFail, Zenon
  <1>5. CASE CreateProfile(p) /\ ~(Fail(p) /\ files' = files)
    <2> DEFINE row == ProfileRow(NextId(f), Target(p).name, proc[p].inst.skey, fresh + 1)
               h == [f EXCEPT !.profs = f.profs \cup {row}]
               e == <<row.name, row.id, row.key>>
    <2>1. \/ /\ "profiles" \in f.tables /\ Put(p, h)
             /\ proc' = [proc EXCEPT ![p].pc = "count", ![p].inst.ids = @ \cup {e}]
          \/ To(p, "count") /\ files' = files
      BY <1>5, ZenonT(60) DEF CreateProfile
    <2>2. CASE To(p, "count") /\ files' = files
      BY <1>1, <1>2, <2>2, SideTo, SameFiles, Zenon
    <2>3. CASE /\ "profiles" \in f.tables /\ Put(p, h)
               /\ proc' = [proc EXCEPT ![p].pc = "count", ![p].inst.ids = @ \cup {e}]
      <3> HIDE DEF e
      <3>1. IsFile(h) /\ h.tables = f.tables
        <4> HIDE DEF f, row
        <4> QED
          BY <1>3, Zenon DEF IsFile
      <3> DEFINE k == [proc[p] EXCEPT !.pc = "count", !.inst.ids = proc[p].inst.ids \cup {e}]
      <3>2. proc' = [proc EXCEPT ![p] = k] /\ k.call = proc[p].call /\ k.alone = proc[p].alone
        BY <1>3, <2>3, Zenon DEF IsProc
      <3> HIDE DEF h, k
      <3>3. PICK g : Wrote(p, g, h)
        BY <1>2, <2>3, <3>1, PutWrites, Zenon
      <3>4. "profiles" \in g.tables /\ files' = [files EXCEPT ![proc[p].file] = g]
        BY <2>3, <3>1, <3>3, Zenon DEF Wrote
      <3>5. RowsHaveTable => RowsHaveTable'
        BY <1>1, <1>3, <3>4, RowsWrite, Zenon
      <3> QED
        BY <1>1, <1>2, <3>2, <3>5, SideTurn, Zenon
    <2> QED
      BY <2>1, <2>2, <2>3
  <1>6. CASE Count(p) /\ ~(Fail(p) /\ files' = files)
    <2>1. files' = files /\ ~Fail(p)
      BY <1>6, Zenon DEF Count
    <2>2. PICK found : proc' = [proc EXCEPT ![p].pc = "import", ![p].txn = backend = "sqlite",
                                            ![p].inst.ids = @ \cup found]
      BY <1>6, <2>1, Zenon DEF Count
    <2> DEFINE b == backend = "sqlite"
               k == [proc[p] EXCEPT !.pc = "import", !.txn = b, !.inst.ids = proc[p].inst.ids \cup found]
    <2>3. proc' = [proc EXCEPT ![p].pc = "import", ![p].txn = b, ![p].inst.ids = @ \cup found]
      BY <2>2
    <2> HIDE DEF b
    <2>4. proc' = [proc EXCEPT ![p] = k] /\ k.call = proc[p].call /\ k.alone = proc[p].alone
      BY <1>3, <2>3, Zenon DEF IsProc
    <2> HIDE DEF k
    <2> QED
      BY <1>1, <1>2, <2>1, <2>4, SideTurn, SameFiles, Zenon
  <1>7. CASE ImportScan(p) /\ ~(Fail(p) /\ files' = files)
    <2> DEFINE rows == {Item(Cached(p)[2], Cached(p)[3], i, TRUE) : i \in Target(p).items}
               h == [f EXCEPT !.items = f.items \cup rows]
               pc == IF Len(proc[p].todo) > 1 THEN "create_profile" ELSE "open"
               rest == Tail(proc[p].todo)
               k == [proc[p] EXCEPT !.txn = FALSE, !.todo = rest, !.pc = pc]
    <2>1. Put(p, h) /\ proc' = [proc EXCEPT ![p].txn = FALSE, ![p].todo = rest, ![p].pc = pc]
      BY <1>7, ZenonT(60) DEF ImportScan
    <2> HIDE DEF pc, rest
    <2>2. proc' = [proc EXCEPT ![p] = k] /\ k.call = proc[p].call /\ k.alone = proc[p].alone
      BY <1>3, <2>1, Zenon DEF IsProc
    <2>3. IsFile(h) /\ h.tables = f.tables /\ h.profs = f.profs
      <3> HIDE DEF f, rows
      <3> QED
        BY <1>3, Zenon DEF IsFile
    <2> HIDE DEF h, k
    <2>4. PICK g : Wrote(p, g, h)
      BY <1>2, <2>1, <2>3, PutWrites, Zenon
    <2>5. g.tables = f.tables /\ g.profs = f.profs /\ files' = [files EXCEPT ![proc[p].file] = g]
      BY <2>3, <2>4, Zenon DEF Wrote
    <2>6. ("profiles" \notin f.tables => f.profs = {}) => ("profiles" \notin g.tables => g.profs = {})
      BY <2>5, Zenon
    <2>7. RowsHaveTable => RowsHaveTable'
      BY <1>1, <1>3, <2>5, <2>6, RowsWrite, Zenon DEF File
    <2> QED
      BY <1>1, <1>2, <2>2, <2>7, SideTurn, Zenon
  <1> QED
    BY <1>4, <1>5, <1>6, <1>7, Zenon DEF CopyStep
----------------------------------------------------------------------------
(***************************************************************************)
(* All together.                                                           *)
(***************************************************************************)
LEMMA StepTurn ==
    ASSUME SInv, NEW p \in Procs, Step(p)
    PROVE  Turn(p)
  <1>1. CASE ProvisioningStep(p)
    <2>1. CASE Unlink(p)
      BY <2>1, UnlinkTurn
    <2>2. CASE CreateFile(p)
      BY <2>2, CreateFileTurn
    <2>3. CASE ConnectFile(p) \/ ConnectServer(p) \/ Reconnect(p) \/ OpenPool(p)
      BY <2>3, ConnectTurn, SMTT(60)
    <2>4. CASE ConnectDatabase(p) \/ CreateDatabase(p)
      BY <2>4, ConnectDatabaseTurn
    <2>5. CASE DropDatabase(p)
      BY <2>5, DropDatabaseTurn
    <2>6. CASE CheckSqlite(p)
      BY <2>6, CheckSqliteTurn
    <2>7. CASE CheckPostgres(p)
      BY <2>7, CheckPostgresTurn
    <2>16. CASE Acquire(p)
      BY <2>16, AcquireTurn
    <2>8. CASE CheckOdbc(p) \/ RemoveOdbc(p)
      BY <2>8, CheckOdbcTurn
    <2>9. CASE DropTable(p)
      BY <2>9, DropTableTurn
    <2>10. CASE Keys(p)
      BY <2>10, KeysTurn
    <2>11. CASE InitDb(p) \/ Replace(p)
      BY <2>11, InitDbTurn
    <2>12. CASE CreateTable(p)
      BY <2>12, CreateTableTurn
    <2>13. CASE InsertConfig(p)
      BY <2>13, InsertConfigTurn
    <2>14. CASE InsertProfile(p)
      BY <2>14, InsertProfileTurn
    <2>15. CASE OpenSqlite(p) \/ OpenPostgres(p) \/ OpenOdbc(p)
      BY <2>15, OpenConfigTurn, OpenProfileTurn DEF OpenSqlite, OpenPostgres, OpenOdbc, OpenDb
    <2> QED
      BY <1>1, <2>1, <2>2, <2>3, <2>4, <2>5, <2>6, <2>7, <2>8, <2>9, <2>10, <2>11,
         <2>12, <2>13, <2>14, <2>15, <2>16, ZenonT(60) DEF ProvisioningStep
  <1>2. CASE MigrationStep(p)
    <2>1. CASE ConnectWallet(p) \/ Reopen(p)
      BY <2>1, ConnectTurn
    <2>2. CASE ~ConnectWallet(p) /\ ~Reopen(p)
      BY <1>2, <2>2, MigrationTurn
    <2> QED
      BY <2>1, <2>2
  <1>3. CASE CopyStep(p)
    BY <1>3, CopyTurn
  <1> QED
    BY <1>1, <1>2, <1>3, Zenon DEF Step

\* The steps that FailureKeepsStore is about.
FailsAlone(p) ==
    /\ InFlight(p) /\ proc'[p].pc = "failed" /\ proc[p].alone
    /\ Op(p) \in Plain
    /\ Recreate(p) => backend = "postgres"
    /\ backend = "odbc" => proc[p].first.tables \in {{}, AllTables}

LEMMA TurnKeeps ==
    ASSUME AInv, NEW p \in Procs, Turn(p)
    PROVE  /\ AInv'
           /\ \A q \in Procs : FailsAlone(q) => There' = proc[q].first
  <1>1. /\ InFlight(p) /\ backend' = backend /\ RowsHaveTable /\ RowsHaveTable' /\ Bystanders(p)
        /\ proc'[p].pc \in Ended \/ (proc'[p].call = proc[p].call /\ proc'[p].alone = proc[p].alone)
    BY Zenon DEF Turn, AInv
  <1>2. \A q \in Procs \ {p} : ~(InFlight(q) /\ proc[q].alone)
    BY <1>1, Zenon DEF AInv, Alone
  <1>3. \A q \in Procs \ {p} : InFlight(q)' <=> InFlight(q)
    BY <1>1, Zenon DEF Bystanders, InFlight
  <1>4. \A q \in Procs \ {p} : ~(InFlight(q)' /\ proc'[q].alone)
    BY <1>1, <1>2, <1>3, Zenon DEF Bystanders
  <1>5. proc[p].alone /\ Op(p) \in Plain => Learns(p)
    BY <1>1, Zenon DEF Turn, AInv, AloneKnow
  <1>6. Alone'
    <2> SUFFICES ASSUME NEW q \in Procs, InFlight(q)', proc'[q].alone, NEW r \in Procs \ {q}
                 PROVE  ~InFlight(r)'
      BY Zenon DEF Alone
    <2>1. q = p
      BY <1>4, Zenon
    <2>2. proc[p].alone
      BY <1>1, <2>1, Zenon DEF InFlight, Ended
    <2>3. ~InFlight(r)
      BY <1>1, <2>1, <2>2, Zenon DEF AInv, Alone
    <2> QED
      BY <1>3, <2>1, <2>3, Zenon
  <1>7. AloneKnow'
    <2> SUFFICES ASSUME NEW q \in Procs, InFlight(q)', proc'[q].alone, Op(q)' \in Plain
                 PROVE  Known(backend', proc'[q], There', at')
      BY Zenon DEF AloneKnow
    <2>1. q = p
      BY <1>4, Zenon
    <2>2. /\ proc'[p].pc \notin Ended /\ proc'[p].pc # "failed"
      BY <2>1, Zenon DEF InFlight, Ended
    <2>3. proc[p].alone /\ Op(p) \in Plain
      BY <1>1, <2>1, <2>2, Zenon DEF Op
    <2> QED
      BY <1>1, <1>5, <2>1, <2>2, <2>3, Zenon DEF Learns
  <1>8. RecreateWorks'
    <2> SUFFICES ASSUME NEW q \in Procs, proc'[q].pc = "failed", Op(q)' = "provision", Recreate(q)', proc'[q].alone
                 PROVE  \/ proc'[q].call.method = "kdf" /\ proc'[q].call.pass = Absent
                        \/ backend' = "odbc" /\ proc'[q].first.tables \notin {{}, AllTables}
      BY Zenon DEF RecreateWorks
    <2>1. CASE q = p
      <3>1. proc'[p].pc \notin Ended
        BY <2>1, Zenon DEF Ended
      <3>2. proc'[p].call = proc[p].call /\ proc[p].alone /\ Op(p) = "provision" /\ Recreate(p)
        BY <1>1, <2>1, <3>1, Zenon DEF Op, Recreate
      <3>3. proc'[p].first = proc[p].first /\ MayFail(backend, proc[p], There)
        BY <1>5, <2>1, <3>1, <3>2, Zenon DEF Learns, Plain
      <3> QED
        BY <1>1, <2>1, <3>2, <3>3, Zenon DEF MayFail, NoGap, Op, Recreate
    <2>2. CASE q # p
      <3>1. /\ proc'[q].pc = proc[q].pc /\ proc'[q].call = proc[q].call
            /\ proc'[q].alone = proc[q].alone /\ proc'[q].first = proc[q].first
        BY <1>1, <2>2, Zenon DEF Bystanders
      <3>2. proc[q].pc = "failed" /\ Op(q) = "provision" /\ Recreate(q) /\ proc[q].alone
        BY <3>1, Zenon DEF Op, Recreate
      <3>3. \/ proc[q].call.method = "kdf" /\ proc[q].call.pass = Absent
            \/ backend = "odbc" /\ proc[q].first.tables \notin {{}, AllTables}
        BY <3>2, Zenon DEF AInv, RecreateWorks
      <3> QED
        BY <1>1, <3>1, <3>3, Zenon
    <2> QED
      BY <2>1, <2>2
  <1>9. ASSUME NEW q \in Procs, FailsAlone(q)
        PROVE  There' = proc[q].first
    <2>1. q = p
      BY <1>2, <1>9, Zenon DEF FailsAlone
    <2>2. /\ proc'[p].pc = "failed" /\ proc'[p].pc \notin Ended /\ proc[p].alone /\ Op(p) \in Plain
          /\ proc[p].call.recreate => backend = "postgres"
          /\ backend = "odbc" => NoGap(proc[p])
      BY <1>9, <2>1, Zenon DEF FailsAlone, Ended, Recreate, NoGap
    <2>3. There' = There /\ MayFail(backend, proc[p], There)
      BY <1>5, <2>2, Zenon DEF Learns
    <2> QED
      BY <2>1, <2>2, <2>3, Zenon DEF MayFail
  <1> QED
    BY <1>1, <1>6, <1>7, <1>8, <1>9, Zenon DEF AInv

\* Calls are given up, or answers, and nothing else happens.
LEMMA QuietKeeps ==
    ASSUME AInv, backend' = backend, files' = files, at' = at,
           \A q \in Procs : proc'[q] = proc[q] \/ proc'[q] = Free
    PROVE  AInv' /\ \A q \in Procs : ~FailsAlone(q)
  <1>1. There' = There /\ RowsHaveTable'
    BY SameFiles, Zenon DEF There, AInv
  <1>2. Free.pc = "free"
    BY Zenon DEF Free
  <1>3. ASSUME NEW q \in Procs, InFlight(q)' PROVE proc'[q] = proc[q] /\ InFlight(q)
    BY <1>2, <1>3, Zenon DEF InFlight
  <1>4. ASSUME NEW q \in Procs, proc'[q].pc = "failed" PROVE proc'[q] = proc[q]
    BY <1>2, <1>4, Zenon
  <1>5. Alone'
    BY <1>3, Zenon DEF AInv, Alone
  <1>6. AloneKnow'
    BY <1>1, <1>3, Zenon DEF AInv, AloneKnow, Op
  <1>7. RecreateWorks'
    BY <1>4, Zenon DEF AInv, RecreateWorks, Op, Recreate
  <1>8. \A q \in Procs : ~FailsAlone(q)
    BY <1>4, Zenon DEF FailsAlone, InFlight
  <1> QED
    BY <1>1, <1>5, <1>6, <1>7, <1>8, Zenon DEF AInv

LEMMA StartKeeps ==
    ASSUME SInv, AInv, NEW p \in Procs, NEW c \in Calls, Start(p, c)
    PROVE  AInv' /\ \A q \in Procs : ~FailsAlone(q)
  <1> DEFINE k == proc'[p]
             a == \A o \in Procs \ {p} : ~InFlight(o)
             f == IF \E o \in Procs \ {p} : InFlight(o) THEN Empty ELSE There
  <1>1. proc[p].pc = "free" /\ backend' = backend /\ files' = files /\ at' = at /\ There' = There
    BY Zenon DEF Start, There
  <1>2. k = [Free EXCEPT !.pc = "connect", !.call = c, !.alone = a, !.first = f]
    BY Zenon DEF Start
  <1>3. a => f = There
    BY Zenon
  <1>4. \A q \in Procs \ {p} : proc'[q] = IF InFlight(q) THEN [proc[q] EXCEPT !.alone = FALSE, !.first = Empty]
                                                         ELSE proc[q]
    BY Zenon DEF Start
  <1>5. ASSUME NEW q \in Procs \ {p}, ~InFlight(q) PROVE proc'[q] = proc[q]
    BY <1>4, <1>5, Zenon
  <1>6. k.alone => a
    <2> HIDE DEF a, f, k
    <2> QED
      BY <1>2, Zenon DEF Free
  <1>7. k.pc = "connect" /\ k.file = 0 /\ (k.alone => k.first = There)
    <2> HIDE DEF a, f, k
    <2> QED
      BY <1>2, <1>3, <1>6, Zenon DEF Free
  <1>8. a <=> \A o \in Procs \ {p} : ~InFlight(o)
    OBVIOUS
  <1>9. proc'[p] = k
    OBVIOUS
  <1> HIDE DEF a, f, k
  <1>10. RowsHaveTable'
    BY <1>1, SameFiles, Zenon DEF AInv
  <1>11. ASSUME NEW q \in Procs \ {p}, InFlight(q)' PROVE InFlight(q) /\ ~proc'[q].alone
    <2>1. InFlight(q)
      BY <1>5, <1>11, Zenon DEF InFlight
    <2>2. proc'[q] = [proc[q] EXCEPT !.alone = FALSE, !.first = Empty]
      BY <1>4, <2>1, Zenon
    <2>3. IsProc(proc[q])
      BY Facts, Zenon
    <2> QED
      BY <2>1, <2>2, <2>3, Zenon DEF IsProc
  <1>12. Alone'
    BY <1>6, <1>8, <1>9, <1>11, Zenon DEF Alone
  <1>13. AloneKnow'
    <2> SUFFICES ASSUME NEW q \in Procs, InFlight(q)', proc'[q].alone
                 PROVE  Known(backend', proc'[q], There', at')
      BY Zenon DEF AloneKnow
    <2>1. q = p
      BY <1>11, Zenon
    <2>2. /\ k.pc \in Reads /\ There = k.first /\ k.file \in {0, at}
          /\ k.pc # "reconnect" /\ k.pc \notin {"acquire", "config", "profile"} /\ k.pc # "check"
      BY <1>7, <1>9, <2>1, Zenon DEF Reads
    <2>3. Known(backend, k, There, at)
      BY <2>2, ReadsKnow, Zenon
    <2> QED
      BY <1>1, <1>9, <2>1, <2>3, Zenon
  <1>14. ASSUME NEW q \in Procs, proc'[q].pc = "failed" PROVE proc'[q] = proc[q] /\ q # p /\ ~InFlight(q)
    <2>1. q # p
      BY <1>7, <1>9, <1>14, Zenon
    <2>2. CASE InFlight(q)
      <3>1. proc'[q] = [proc[q] EXCEPT !.alone = FALSE, !.first = Empty]
        BY <1>4, <2>1, <2>2, Zenon
      <3>2. IsProc(proc[q])
        BY Facts, Zenon
      <3>3. proc'[q].pc = proc[q].pc
        BY <3>1, <3>2, Zenon DEF IsProc
      <3> QED
        BY <1>14, <2>2, <3>3, Zenon DEF InFlight
    <2> QED
      BY <1>5, <2>1, <2>2, Zenon
  <1>15. RecreateWorks'
    BY <1>1, <1>14, Zenon DEF AInv, RecreateWorks, Op, Recreate
  <1> QED
    BY <1>10, <1>12, <1>13, <1>14, <1>15, Zenon DEF AInv, FailsAlone

LEMMA InitKnows ==
    ASSUME Init
    PROVE  AInv
  <1>1. \A p \in Procs : proc[p].pc = "free"
    <2>1. \A p \in Procs : proc[p] = Free
      BY Zenon DEF Init
    <2>2. Free.pc = "free"
      BY Zenon DEF Free
    <2> QED
      BY <2>1, <2>2, Zenon
  <1>2. RowsHaveTable
    <2> SUFFICES ASSUME backend = "odbc", NEW i \in DOMAIN files PROVE files[i].profs = {}
      BY Zenon DEF RowsHaveTable
    <2>1. files = <<Empty>>
      BY SMTT(60) DEF Init
    <2>2. i \in {1} /\ files[1] = Empty
      BY <2>1, OneFile, Zenon
    <2>3. Empty.profs = {}
      BY Zenon DEF Empty
    <2> QED
      BY <2>2, <2>3, Zenon
  <1> QED
    BY <1>1, <1>2, Zenon DEF AInv, Alone, AloneKnow, RecreateWorks, InFlight

LEMMA NextKeeps ==
    ASSUME SInv, AInv, [Next]_vars
    PROVE  AInv' /\ \A q \in Procs : FailsAlone(q) => There' = proc[q].first
  <1>1. ASSUME NEW p \in Procs, Step(p)
        PROVE  AInv' /\ \A q \in Procs : FailsAlone(q) => There' = proc[q].first
    BY <1>1, StepTurn, TurnKeeps
  <1>2. ASSUME NEW p \in Procs, End(p)
        PROVE  AInv' /\ \A q \in Procs : FailsAlone(q) => There' = proc[q].first
    <2>1. proc' = [proc EXCEPT ![p] = Free] /\ backend' = backend /\ files' = files /\ at' = at
      BY <1>2, Zenon DEF End
    <2>2. \A q \in Procs : proc'[q] = proc[q] \/ proc'[q] = Free
      BY <2>1, PutProc, Zenon DEF SInv
    <2> QED
      BY <2>1, <2>2, QuietKeeps, Zenon
  <1>3. ASSUME NEW p \in Procs, NEW c \in Calls, Start(p, c)
        PROVE  AInv' /\ \A q \in Procs : FailsAlone(q) => There' = proc[q].first
    BY <1>3, StartKeeps, Zenon
  <1>4. CASE Crash
    <2>1. (\A q \in Procs : proc'[q] = Free) /\ backend' = backend /\ files' = files /\ at' = at
      BY <1>4, Zenon DEF Crash
    <2> QED
      BY <2>1, QuietKeeps, Zenon
  <1>5. CASE UNCHANGED vars
    <2>1. proc' = proc /\ backend' = backend /\ files' = files /\ at' = at
      BY <1>5, Zenon DEF vars
    <2> QED
      BY <2>1, QuietKeeps, Zenon
  <1> QED
    BY <1>1, <1>2, <1>3, <1>4, <1>5, Zenon DEF Next

\* What a call knows that has the store to itself holds at each of its steps, up to the
\* early return it fails by, whatever calls and crashes came before it.
THEOREM AloneInvariant == Spec => []AInv
  <1>1. Init => AInv
    BY InitKnows
  <1>2. SInv /\ AInv /\ [Next]_vars => AInv'
    BY NextKeeps
  <1> QED
    BY <1>1, <1>2, StoresInvariant, PTL DEF Spec

\* A provision with recreate that fails with no other call in flight had no pass key to
\* derive from, or ODBC met a store with a gap in its tables.
THEOREM RecreateAlwaysWorks == Spec => []RecreateWorks
  <1>1. AInv => RecreateWorks
    BY Zenon DEF AInv
  <1> QED
    BY <1>1, AloneInvariant, PTL

\* An open, a provision or a remove that fails with no other call in flight leaves what was
\* at the URL as it was, whichever early return it took.
THEOREM FailuresKeepStore == Spec => FailureKeepsStore
  <1>1. SInv /\ AInv /\ [Next]_vars =>
          [\A p \in Procs :
             /\ InFlight(p) /\ proc'[p].pc = "failed" /\ proc[p].alone
             /\ Op(p) \in {"open", "provision", "remove"}
             /\ Recreate(p) => backend = "postgres"
             /\ backend = "odbc" => proc[p].first.tables \in {{}, AllTables}
             => There' = proc[p].first]_vars
    BY NextKeeps, Zenon DEF FailsAlone, Plain
  <1> QED
    BY <1>1, StoresInvariant, AloneInvariant, PTL DEF Spec, FailureKeepsStore
=============================================================================
