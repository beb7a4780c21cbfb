------------------------------ MODULE Entries ------------------------------
(***************************************************************************)
(* The entries of one profile in the sqlx backends: the tables items and   *)
(* items_tags, the operations of sessions on them (insert, replace,        *)
(* remove, remove_all, and the key operations of src/store.rs built from   *)
(* them), expiry, and the paged scan.                                      *)
(*                                                                         *)
(* DbSession shows that an operation of a plain session, and all of a      *)
(* transaction session, is committed at once or not at all; here they are  *)
(* single steps, and the interleavings that remain are those between the   *)
(* two halves of update_key, between the operations of a transaction       *)
(* session, and between the pages of a scan.  There is at most one         *)
(* transaction session at a time: it holds the write lock of SQLite, or    *)
(* Postgres' lock on the profile row.                                      *)
(***************************************************************************)
EXTENDS Naturals, Sequences, FiniteSets, FiniteSetsExt

CONSTANTS
    Backends,      \* subset of {"sqlite", "postgres"}
    Sessions,
    KeyNames,      \* names of keys (EntryKind::Kms)
    ItemNames,     \* names of items (EntryKind::Item)
    Data,          \* values of items, key material of keys
    Metas,         \* metadata of keys
    UserTags,      \* the tags callers give
    Given,         \* what callers insert or replace by: [data, meta, tags, ttl]
    Changes,       \* what callers of update_key give: [meta, tags, ttl]
    None,          \* no row, no session, no metadata, no expiry
    PageSize,      \* PAGE_SIZE
    MaxId,         \* bound: row ids
    MaxOps,        \* bound: operations that write
    MaxTime        \* bound: the clock

Names == KeyNames \cup ItemNames
Ids == 1 .. MaxId
Never == MaxTime + 1
Times == 0 .. Never

\* The tags of a key: what it is (alg and thumb, abstracted to the key material they
\* derive from) and the caller's, under "user:"
OwnTag(d) == [user |-> FALSE, tag |-> d]
UserTag(t) == [user |-> TRUE, tag |-> t]
Tag == {OwnTag(d) : d \in Data} \cup {UserTag(t) : t \in UserTags}

Row == [id : Ids, data : Data, meta : Metas \cup {None}, expiry : Times]
Entry == [data : Data, meta : Metas \cup {None}, tags : SUBSET Tag, expiry : Times]
Tables == [rows : [Names -> Row \cup {None}], tags : [Ids -> SUBSET Tag]]
Pending == [name : KeyNames, entry : Entry, change : Changes]

ASSUME EntriesAssumption ==
    /\ Backends \subseteq {"sqlite", "postgres"}
    /\ KeyNames \cap ItemNames = {}
    /\ None \notin Sessions \cup Metas \cup Nat
    /\ None \notin Row \cup Entry \cup Pending
    /\ Given \subseteq [data : Data, meta : Metas \cup {None}, tags : SUBSET UserTags, ttl : Nat \cup {None}]
    /\ Changes \subseteq [meta : Metas \cup {None}, tags : SUBSET UserTags, ttl : Nat \cup {None}]
    /\ PageSize \in Nat \ {0}
    /\ {MaxId, MaxOps, MaxTime} \subseteq Nat

VARIABLES
    backend,
    now,           \* the clock of the database
    db,            \* committed tables: rows by name, tags by row id
    nextId,        \* the sequence of Postgres
    txn,           \* the transaction session, or None
    work,          \* its tables, of the rows it holds
    held,          \* the names whose rows are locked for it
    batch,         \* its operations
    pending,       \* sessions between the halves of update_key: what they fetched
    scan,          \* the scan (bound: a behaviour has one; it leaves the tables alone)
    ops,           \* operations so far
    last           \* history: the batch committed last

vars == <<backend, now, db, nextId, txn, work, held, batch, pending, scan, ops, last>>

NoRows == [rows |-> [n \in Names |-> None], tags |-> [i \in Ids |-> {}]]
NoScan == [st |-> "off", kinds |-> {}, rest |-> {}, snap |-> {}, got |-> {}, count |-> 0]

TypeOK ==
    /\ backend \in Backends
    /\ now \in 0 .. MaxTime
    /\ db \in Tables
    /\ nextId \in 1 .. MaxId + 1
    /\ txn \in Sessions \cup {None}
    /\ work \in Tables
    /\ held \subseteq Names
    /\ pending \in [Sessions -> Pending \cup {None}]
    /\ scan.st \in {"off", "ready", "on", "done", "over"}
    /\ ops \in 0 .. MaxOps
    /\ \A m, n \in Names : db.rows[m] # None /\ db.rows[n] # None /\ db.rows[m].id = db.rows[n].id => m = n

Init ==
    /\ backend \in Backends
    /\ now = 0
    /\ db = NoRows
    /\ nextId = 1
    /\ txn = None
    /\ work = NoRows
    /\ held = {}
    /\ batch = <<>>
    /\ pending = [s \in Sessions |-> None]
    /\ scan = NoScan
    /\ ops = 0
    /\ last = <<>>
-----------------------------------------------------------------------------
(* Tables.                                                                 *)

\* The ids of the rows of names
IdsOf(tables, names) == {tables.rows[n].id : n \in {m \in names : tables.rows[m] # None}}

\* The committed tables with the rows of "names" and their tags from "over"
Merge(over, names) ==
    [rows |-> [n \in Names |-> IF n \in names THEN over.rows[n] ELSE db.rows[n]],
     tags |-> [i \in Ids |-> IF i \in IdsOf(over, names) \cup IdsOf(db, names)
                             THEN over.tags[i] ELSE db.tags[i]]]

\* What a session sees: its own changes, else what is committed
Seen(s) == IF s = txn THEN Merge(work, held) ELSE db

\* SQLite takes one more than the largest id, Postgres the next of a sequence
FreshId(t) ==
    IF backend = "postgres" THEN nextId
    ELSE 1 + Max({0} \cup IdsOf(t, Names))

EntryAt(t, n) ==
    IF t.rows[n] = None THEN None
    ELSE [data |-> t.rows[n].data, meta |-> t.rows[n].meta,
          tags |-> t.tags[t.rows[n].id], expiry |-> t.rows[n].expiry]

\* The expiry condition of the queries that read
Live(e) == e.expiry > now

\* fetch: the entry unless it has expired
Fetched(t, n) == IF EntryAt(t, n) # None /\ Live(EntryAt(t, n)) THEN EntryAt(t, n) ELSE None

\* perform_insert of a new row: the row, then its tags (on top of what is there)
InsertRow(t, n, e) ==
    LET id == FreshId(t)
    IN  [rows |-> [t.rows EXCEPT ![n] = [id |-> id, data |-> e.data, meta |-> e.meta, expiry |-> e.expiry]],
         tags |-> [t.tags EXCEPT ![id] = @ \cup e.tags]]

\* perform_insert of an existing row: UPDATE, delete its tags, insert the new ones
ReplaceRow(t, n, e) ==
    LET id == t.rows[n].id
    IN  [rows |-> [t.rows EXCEPT ![n] = [id |-> id, data |-> e.data, meta |-> e.meta, expiry |-> e.expiry]],
         tags |-> [t.tags EXCEPT ![id] = e.tags]]

\* Rows removed without the cascade to their tags
RemoveRowsOnly(t, names) ==
    [t EXCEPT !.rows = [n \in Names |-> IF n \in names THEN None ELSE @[n]]]

\* DELETE, which cascades to the tags
RemoveRows(t, names) ==
    [rows |-> [n \in Names |-> IF n \in names THEN None ELSE t.rows[n]],
     tags |-> [i \in Ids |-> IF i \in IdsOf(t, names) THEN {} ELSE t.tags[i]]]

Map == INSTANCE EntryMap WITH Absent <- None, map <- [n \in Names |-> EntryAt(db, n)]

-----------------------------------------------------------------------------
(* Sessions.                                                               *)

\* Store::transaction: its ping makes the session active, which takes the lock
Begin(s) ==
    /\ txn = None
    /\ pending[s] = None
    /\ txn' = s
    /\ held' = IF backend = "sqlite" THEN Names ELSE {}
    /\ work' = db
    /\ UNCHANGED <<backend, now, db, nextId, batch, pending, scan, ops, last>>

\* Writing the tables t, which differ at "names", by an operation: by a plain session at
\* once, unless a row is locked; by the transaction into its own tables
Write(s, t, names, op) ==
    /\ ops < MaxOps
    /\ ops' = ops + 1
    /\ IF s = txn
       THEN /\ work' = t
            /\ held' = held \cup names
            /\ batch' = Append(batch, op)
            /\ UNCHANGED <<db, last>>
       ELSE /\ names \cap held = {}
            /\ backend = "sqlite" => txn = None
            /\ db' = t
            /\ last' = <<op>>
            /\ UNCHANGED <<work, held, batch>>
    /\ UNCHANGED <<backend, now, txn, scan>>

\* EntryOperation::Insert; an expired row still takes the name
Insert(s, n, e) ==
    /\ pending[s] = None
    /\ Seen(s).rows[n] = None
    /\ FreshId(Seen(s)) \in Ids
    /\ Write(s, InsertRow(Seen(s), n, e), {n}, Map!OpOn("insert", {n}, e))
    /\ nextId' = IF backend = "postgres" THEN nextId + 1 ELSE nextId
    /\ UNCHANGED pending

\* EntryOperation::Replace, whether or not the row has expired
Replace(s, n, e) ==
    /\ pending[s] = None
    /\ Seen(s).rows[n] # None
    /\ Write(s, ReplaceRow(Seen(s), n, e), {n}, Map!OpOn("replace", {n}, e))
    /\ UNCHANGED <<nextId, pending>>

\* EntryOperation::Remove, of items and of keys
RemoveEntry(s, n) ==
    /\ pending[s] = None
    /\ Seen(s).rows[n] # None
    /\ Write(s, RemoveRows(Seen(s), {n}), {n}, Map!OpOn("remove", {n}, None))
    /\ UNCHANGED <<nextId, pending>>

\* remove_all: every matching row, the expired ones too
RemoveAll(s, tag) ==
    LET t == Seen(s)
        gone == {n \in ItemNames : t.rows[n] # None /\ tag \in t.tags[t.rows[n].id]}
    IN  /\ pending[s] = None
        /\ gone # {}
        /\ Write(s, RemoveRows(t, gone), gone, Map!OpOn("remove", gone, None))
        /\ UNCHANGED <<nextId, pending>>

\* expiry_timestamp: counted from when the statement is made
Expiry(ttl) == IF ttl = None THEN Never ELSE Min({now + ttl, Never})

\* The entries of insert and replace: items have no metadata
ItemEntry(g) ==
    [data |-> g.data, meta |-> None, tags |-> {UserTag(u) : u \in g.tags}, expiry |-> Expiry(g.ttl)]

\* insert_key: the tags of the key itself and the caller's
KeyEntry(g) ==
    [data |-> g.data, meta |-> g.meta, tags |-> {OwnTag(g.data)} \cup {UserTag(u) : u \in g.tags},
     expiry |-> Expiry(g.ttl)]

\* The first half without the lock FOR NO KEY UPDATE of Postgres
UpdateKeyFetchUnlocked(s, n, c) ==
    /\ pending[s] = None
    /\ Fetched(Seen(s), n) # None
    /\ pending' = [pending EXCEPT ![s] = [name |-> n, entry |-> Fetched(Seen(s), n), change |-> c]]
    /\ UNCHANGED <<backend, now, db, nextId, txn, work, held, batch, scan, ops, last>>

\* update_key, first half: fetch for update, which locks the row in a transaction
UpdateKeyFetch(s, n, c) ==
    /\ pending[s] = None
    /\ Fetched(Seen(s), n) # None
    /\ pending' = [pending EXCEPT ![s] = [name |-> n, entry |-> Fetched(Seen(s), n), change |-> c]]
    /\ IF s = txn
       THEN work' = Seen(s) /\ held' = held \cup {n}
       ELSE UNCHANGED <<work, held>>
    /\ UNCHANGED <<backend, now, db, nextId, txn, batch, scan, ops, last>>

\* Own tags taken from nowhere: only the caller's are written
UpdatedCallers(p) ==
    [data |-> p.entry.data, meta |-> p.change.meta,
     tags |-> {UserTag(u) : u \in p.change.tags},
     expiry |-> Expiry(p.change.ttl)]

\* The new entry: metadata and the caller's tags replaced, the rest as fetched
Updated(p) ==
    [data |-> p.entry.data, meta |-> p.change.meta,
     tags |-> {UserTag(u) : u \in p.change.tags} \cup {t \in p.entry.tags : ~t.user},
     expiry |-> Expiry(p.change.ttl)]

\* update_key, second half: replace by name, if there still is a row
UpdateKeyStore(s) ==
    LET p == pending[s]
    IN  /\ p # None
        /\ pending' = [pending EXCEPT ![s] = None]
        /\ IF Seen(s).rows[p.name] # None
           THEN Write(s, ReplaceRow(Seen(s), p.name, Updated(p)), {p.name},
                      Map!OpOn("replace", {p.name}, Updated(p)))
           ELSE UNCHANGED <<backend, now, db, txn, work, held, batch, scan, ops, last>>
        /\ UNCHANGED nextId

\* Session::commit and rollback, or the session is dropped
End(s, commit) ==
    /\ s = txn
    /\ pending[s] = None
    /\ IF commit
       THEN db' = Merge(work, held) /\ last' = batch
       ELSE UNCHANGED <<db, last>>
    /\ txn' = None
    /\ work' = NoRows
    /\ held' = {}
    /\ batch' = <<>>
    /\ UNCHANGED <<backend, now, nextId, pending, scan, ops>>
-----------------------------------------------------------------------------
(* Scans and copies.                                                       *)

\* Store::scan (items only) and the scan of copy_profile (all kinds); the query itself
\* is not run before the first page is asked for
ScanOpen(names) ==
    /\ scan.st = "off"
    /\ scan' = [NoScan EXCEPT !.st = "ready", !.kinds = names]
    /\ UNCHANGED <<backend, now, db, nextId, txn, work, held, batch, pending, ops, last>>

\* The committed entries of names, live ones, as [name, entry]; in which order the rows
\* come is up to the database
Result(names) ==
    {[name |-> n, entry |-> EntryAt(db, n)] : n \in {m \in names : Fetched(db, m) # None}}

\* SQLite evaluates the expiry of a row when it gets to it, Postgres when the query starts
StillLive(rows) ==
    IF backend = "sqlite" THEN {r \in rows : Live(r.entry)} ELSE rows

\* A page that is not full by one row ends the scan: off by one
EndsAfterFull(page) == Cardinality(page) <= PageSize

\* Scan::fetch_next drops the stream after a page that is not full
EndsAfter(page) == Cardinality(page) < PageSize

\* perform_scan yields when it has PAGE_SIZE rows, or all that there are
Pages(rows) ==
    {page \in SUBSET rows : Cardinality(page) = Min({PageSize, Cardinality(rows)})}

\* Scan::fetch_next; the first call runs the query
FetchNext ==
    /\ scan.st \in {"ready", "on"}
    /\ LET first == scan.st = "ready"
           rows == IF first THEN Result(scan.kinds) ELSE scan.rest
           live == StillLive(rows)
       IN  \E page \in Pages(live) :
             scan' = [scan EXCEPT !.st = IF EndsAfter(page) THEN "done" ELSE "on",
                                  !.snap = IF first THEN rows ELSE @,
                                  !.rest = IF EndsAfter(page) THEN {} ELSE live \ page,
                                  !.got = @ \cup page,
                                  !.count = @ + Cardinality(page)]
    /\ UNCHANGED <<backend, now, db, nextId, txn, work, held, batch, pending, ops, last>>

\* The scan is freed
ScanEnd ==
    /\ scan.st = "done"
    /\ scan' = [NoScan EXCEPT !.st = "over"]
    /\ UNCHANGED <<backend, now, db, nextId, txn, work, held, batch, pending, ops, last>>

Tick ==
    /\ now < MaxTime
    /\ now' = now + 1
    /\ UNCHANGED <<backend, db, nextId, txn, work, held, batch, pending, scan, ops, last>>

Next ==
    \/ Tick
    \/ FetchNext
    \/ ScanEnd
    \/ \E names \in {ItemNames, Names} : ScanOpen(names)
    \/ \E s \in Sessions :
        \/ Begin(s)
        \/ \E commit \in BOOLEAN : End(s, commit)
        \/ \E n \in ItemNames, g \in Given : Insert(s, n, ItemEntry(g)) \/ Replace(s, n, ItemEntry(g))
        \/ \E n \in KeyNames, g \in Given : Insert(s, n, KeyEntry(g))
        \/ \E n \in Names : RemoveEntry(s, n)
        \/ \E u \in UserTags : RemoveAll(s, UserTag(u))
        \/ \E n \in KeyNames, c \in Changes : UpdateKeyFetch(s, n, c)
        \/ UpdateKeyStore(s)

Spec == Init /\ [][Next]_vars
-----------------------------------------------------------------------------
(* Properties.                                                             *)

\* The joined tables behave like the map of EntryMap: every commit is a batch of
\* operations applied in order, each to the map it needs, and replaces whole entries.
\* No tag survives a replace, and none is inherited from a removed row whose id SQLite
\* gives out again.
ImplementsMap == Map!Spec

\* The tags of a stored key that say what it is always describe the key material in the
\* same row, whatever update_key, remove_key and insert_key do in between, and a caller's
\* tags never pass for them.
KeyTagsMatch ==
    \A n \in KeyNames : db.rows[n] # None =>
        {t \in db.tags[db.rows[n].id] : ~t.user} = {OwnTag(db.rows[n].data)}

\* Between the two halves of update_key in a transaction session, the row that was
\* fetched is still the row that will be replaced, so that only metadata and the
\* caller's tags change.
UpdateKeyIsolated ==
    \A s \in Sessions : s = txn /\ pending[s] # None =>
        EntryAt(Seen(s), pending[s].name) = pending[s].entry

\* A finished scan has returned rows of one moment only,
\* each once, with the tags they had then, and has left out none that is still live,
\* however many pages it took and whatever was written in between.
ScanConsistent ==
    scan.st = "done" =>
        /\ scan.got \subseteq scan.snap
        /\ Cardinality(scan.got) = scan.count
        /\ \A r \in scan.snap : Live(r.entry) => r \in scan.got

\* The tables are in order: their types, with no row id in use twice, and KeyTagsMatch.
RowsInOrder == TypeOK /\ KeyTagsMatch
=============================================================================
