# aries-askar: a TLA+ model of the store

Askar is an encrypted key-value and key store: a Rust library (`src/src`) with a
C interface, on a storage crate (`src/askar-storage`) with backends for SQLite,
Postgres (both through sqlx) and ODBC, and a crate of algorithms
(`src/askar-crypto`). This directory holds TLA+ specifications of its parts, the TLC
models that check them, and TLAPS proofs about the key hierarchy, the sessions, the
entries, the ODBC backend, the calls on a store's URL and the C interface.

## 1. The system

```
 application ── C calls, callbacks ──► src/ffi         handle maps, one task per call
                                         │
                                       src/store.rs    Store, Session; keys as entries
                                         │
                       askar-storage/any.rs, backend/  backend, session, scan, copy
              ┌──────────────────────────┼───────────────────────────┐
         backend/sqlite            backend/postgres              backend/odbc
              └── db_utils.rs: DbSession, DbSessionTxn, paging ──┘    │
                    │                    │                            │
              protect/: StoreKey wraps ProfileKey encrypts entries and tags
              wql/:     tag filter → tag query → SQL clause + arguments
              migration/: Indy wallet → askar store (SQLite)
```

* A **store** is a database. Its `config` table refers to one store key; each row
  of `profiles` holds a profile key wrapped under it; each row of `items` is
  encrypted under the key of its profile; `items_tags` holds the searchable tags.
* A **backend instance** has a connection pool and a `KeyCache` (store key, and a
  map from profile name to id and key). Several instances may be open on one
  database. Nothing tells a cache of what others do to the table.
* A **session** takes a connection at its first operation, begins a transaction
  if it is a transaction session, and resolves its profile through the cache.
* A **scan** is a stream of pages with a connection of its own.
* The **C interface** keeps stores, sessions and scans in maps behind async
  locks; every call is a task that answers through a callback.

### Inventory

| part | source | state | modelled by |
|---|---|---|---|
| profiles, key cache, rekey, open | `backend/{sqlite,postgres}/mod.rs`, `protect/mod.rs` | tables, caches, calls in flight | `ProfileStore` |
| sessions and transactions | `backend/db_utils.rs`, `start_transaction`, `update` | pool, transaction depth, locks | `DbSession` |
| entries, tags, expiry, keys as entries, scans | `backend/*/mod.rs`, `entry.rs`, `src/store.rs` | items, tags, pages | `Entries`, refining `EntryMap` |
| tag filters | `wql/*.rs`, `db_utils.rs`, `fetch_all_keys` | none: a translation | `Wql` |
| C handles | `src/ffi/{store,handle,mod}.rs` | handle maps, tasks, mutexes | `FfiHandles` |
| ODBC backend | `backend/odbc/*` | pool, autocommit, tables, caches | `OdbcBackend`, `OdbcReads` |
| open, provision, remove | `backend/*/provision.rs`, `any.rs`, `protect/store_key.rs` | what lies at a URL, calls in flight | `StoreFiles`, `Provisioning` |
| copy | `backend/mod.rs`, `Store::copy_to` | the target store | `StoreCopy` |
| Indy migration | `migration/*.rs` | one wallet file | `WalletMigration` |
| key types, raw bytes, JWK | `askar-crypto/src/{alg,jwk}` | none: symbolic functions | `KeyForms`, `Jwk`, `AnyKeys` |
| encryption, key wrap, boxes, ECDH, signatures | `askar-crypto/src/{alg/aes,encrypt,kdf,sign.rs}` | none: symbolic functions | `KeyCrypto` |
| local keys, envelopes, stored keys | `src/kms/*.rs`, `src/ffi/key.rs` | handles, what was exported, one entry | `LocalKeys` |
| FFI of lists, tags, buffers, logs | `src/ffi/{result_list,tags,secret,log}.rs` | reference counts | not modelled |
| hardware keys, executor, buffers | `alg/p256_hardware.rs`, `future.rs`, `buffer/` | none of their own | not modelled |

`PROJECT.json` lists every part with its status, and the hazards of the code at
the line where each bites, with the property that would catch it.

## 2. Modules

### ProfileStore: profiles, key cache, rekey

One action for each stretch of code between two awaits at which another actor can
interfere: `create_profile` is `CreateProfile` (key made and wrapped on a blocking
thread), `InsertProfile`, `CacheProfile`; `rekey` is `RekeyRead`, `RekeyCommit`,
`RekeySwap`; `open_db` is `OpenConfig`, `OpenLoad`; `make_active` with
`resolve_profile_key` is `ResolveCached`, or `ResolveSelect` then `ResolveAdd`.
`DropCreate`, `DropRekey` drop a future at an await; `CloseInstance` ends a process
with whatever is in flight. Keys are abstract: a profile key is the pair of the
name it was made for and a serial number, and "wrapped under" is a field.

SQLite and Postgres differ where the module tests `Sqlite`: row ids (SQLite reuses
the largest one), the snapshot of a rekey (a SQLite transaction that has read an old
snapshot cannot write; Postgres runs in READ COMMITTED), and the lock
`FOR NO KEY UPDATE` on the profile row that a Postgres transaction session holds.

### DbSession: sessions and transactions

`DbSession`, `DbSessionActive` and `DbSessionTxn` over a model of the sqlx pool.
A connection has a stack of open transactions (the outermost one and savepoints);
`txn_depth` is the count the code keeps next to it. Operations are `insert` (a row,
then its tags, in a transaction of its own unless there is one), `remove` (one
statement), `fetch` and `bump` (read a counter and write it back, to see lost
updates). What can go wrong is the constant `Faults`: the busy timeout, a refused
statement, a dropped future. The process may crash at any time.

### Entries, EntryMap: what a profile stores

`EntryMap` is the promise: a map from names to entries that changes by batches of
insert, replace and remove. `Entries` has the two tables, row ids as each database
gives them out, the cascade from rows to tags, expiry, plain sessions and one
transaction session with its uncommitted tables (there is at most one: it holds
the write lock of SQLite, or Postgres' lock on the profile row), the two halves of
`update_key`, and a scan whose pages are fetched while others write. The
refinement mapping joins the tables; `last` is the history variable that tells
`EntryMap` which batch a step commits.

### Wql: tag filters

A behaviour takes one filter along its path: JSON, query, renamed query for keys,
SQL clause with arguments, rows. `Encode` threads the number of arguments pushed so
far, because comparisons number their placeholders by it while `IN` and existence
leave theirs to `replace_arg_placeholders`. `Means` is the reference: what a filter
says of a set of tags. Encrypted values are opaque pairs of a nonce and the rest,
compared as the database compares them.

### FfiHandles: the C interface

Calls are tasks at a `pc`; sessions and scans are resources in two maps with the
same code. A session is started before its handle is given out: `Connect` takes a
connection from the pool (which a close has shut by then, or not), `Started` begins the
transaction and looks the profile up, and there a transaction session waits for the one
before it; `Insert` puts it in its map. `borrow` holds the read lock of the map while it
waits for the mutex of one resource (pc "mutex"); whoever waits to write (pc "write")
keeps new readers out. An operation (`Use`) waits in the database when its session is no
transaction and a transaction is in its way (`Blocked`): at the write lock of SQLite,
until the busy timeout, or on Postgres at a row that the transaction has written. A
resource goes with its last reference, and its connection and locks with it.

### OdbcBackend, OdbcReads: the third backend

It shares no session code with the others. A session takes its pooled connection when
it is made (`NewSession`); a transaction is a connection with autocommit off; an update
is a sequence of statements (`UpdateItem`, `DeleteTags`, `GetItemId`, `InsertTag`, ...),
each of which commits by itself in a plain session and each of which may be refused
(`StatementFails`). `DropSession` returns the connection as it is, `Reap` is the pool
closing one, `RekeyRow` one row of a rekey. The tables are one set of rows; the log is
a history of what became of every change. The locks between connections are those of the
database (external).

`OdbcReads` extends it with one read at a time beside the calls: `Found` and `Scanned` are
the item query of fetch and scan, `GetTags` the query for the tags of one row after
another, each a statement of its own that sees what is committed by then, and
`ReadReturns` the answer. `Expire` lets an entry expire, at any time; `Live` is the
predicate by which the queries leave it out. `Shown` is what a connection is shown of the
entries; `calm` remembers that nobody changed that since the read began. A fetch whose `next_row` meets an error of the driver answers
as if there were no row (`lost`).

### StoreFiles, Provisioning, WalletMigration, StoreCopy, Stores: calls on a URL

`StoreFiles` has what lies at one URL and the calls in flight on it, each with a `pc`.
`Provisioning` has the steps of open, provision and remove: for SQLite a file that is
unlinked, created and filled by one script; for Postgres a database and one transaction
for its tables; for ODBC single statements. A provision that meets a Postgres store keeps
its connection and transaction while `open_db` asks the pool for another (`Acquire`): with
`max_connections=1` there is none, and the call fails when the acquire times out.
`WalletMigration` has the steps of the Indy
upgrade and `StoreCopy` those of `copy_to` once its target is provisioned. `Stores`
composes them: any two calls overlap, and a crash may fall between any two steps. A
SQLite file that was removed lives on for whoever has it open; `stale` marks an instance
whose store was replaced under it, and `mixed` a store that such a call has written to.

### KeyForms, Jwk, AnyKeys, KeyCrypto, LocalKeys: keys

A chain of modules, each extending the one before. `KeyForms` has the key types and their
raw bytes, `Jwk` the members of a JWK in the order they are written, thumbprints and
import, `AnyKeys` the dispatch over the types, `KeyCrypto` what keys are used for, and
`LocalKeys` the state machine: an application with three handles, the last thing it
exported, encrypted or signed (`wire`), and one stored key entry. Its actions are the
calls of `src/ffi/key.rs`, and `insert_key` and `fetch_key` of a session.

Primitives are ideal and symbolic: a secret is a term that names where its bytes come
from, the public key of `s` on curve `c` is `<<c, s>>`, a ciphertext is a term over key,
nonce, associated data and message. What the code does around them is kept: lengths and
the errors they lead to, where tag, nonce and ephemeral key lie in a buffer and where
they are looked for, the order of the bytes that are hashed. The key wrap is also there
as rounds over chunks with a small invertible cipher (`KwWrap`, `KwUnwrap`). The three
elliptic curves have the same code, so the `Ec` operators refer to `p256.rs`.

### Composition

The modules meet at named boundaries. `DbSession` shows that an operation of a plain
session, and the whole of a transaction session, takes effect at once or not at all;
`Entries` takes that as its grain. `ProfileStore` shows that a session has the id and
key of its profile; `Entries` has one profile. `FfiHandles` has who waits for whom in the
database, which `DbSession` derives from the locks. `Stores`
composes provisioning, copying and migration on one URL; `ProfileStore` begins with a
provisioned store, and `Stores` shows that what `open` returns is one. `LocalKeys` stores
one key and loads it again; `Entries` has what happens to key entries under concurrency.

## 3. Runs

| run | module / cfg | expects | shows |
|---|---|---|---|
| `profiles` | `MCProfileBoth` / `Profile` | pass | SQLite, two instances, two store keys: no order of create, remove, rekey, open, crash and dropped future leaves a profile the store key does not unwrap, unless a rekey was committed behind the back of another open instance; rekey is all or nothing. Postgres, with a session: items are encrypted under the key of their profile; `ping` finds the profile the session resolved; a transaction session keeps its profile; a session's key was made for the name it asked for |
| `profile_sqlite_reuse` | `MCProfileStore` / `ProfileSqliteReuse` | violation | on SQLite items are not always under the key of their profile (finding 1) |
| `session_sqlite` | `MCDbSession` / `DbSqlite` | pass | what was reported done is durable, what was undone is never seen, half an insert is never committed by itself, the pool is clean and `txn_depth` agrees with the connection, each with the exceptions the property names |
| `session_waits` | `MCDbWaits` / `DbWaits` | pass | on both backends, with more sessions than connections: every call returns, though calls wait for the pool, for the write lock and for rows; what was reported done is durable, and no update of a transaction session is lost |
| `ffi_handles` | `MCFfiHandles` / `Ffi` | pass | one answer for each call, closed handles stay closed, rekey and commit are alone on what they work on, and when a close is reported nothing of the store has a connection or gets one |
| `ffi_close_postgres` | `FfiDeadlock` | violation | closing a store may wait for ever on Postgres (finding 2) |
| `wql` | `MCWql` / `Wql` | pass | every argument is bound to its placeholder in all three backends, a filter selects what it means, printing and optimising keep it |
| `entries` | `MCEntries` / `Entries` | pass | the tables implement `EntryMap`; a key's tags describe the key; `update_key` is isolated in a transaction; a scan returns one moment |
| `odbc` | `MCOdbcBackend` / `Odbc` | pass | the pool is clean, what was undone is gone and what was kept stays, a read returns entries with tags of their own, nothing that was undone, and exactly what is there when no change ran into it, profile keys are under the store key; the exceptions are named in section 5 |
| `odbc_tags` | `OdbcBackend` / `OdbcTags` | violation | a replace deletes the tags of another entry (finding 3) |
| `stores` | `MCStores` / `Stores` | pass | what is opened is whole and instances agree; a store that was made opens again; recreate works; a call that fails leaves the store; a copy is all or nothing per profile; no wallet item is lost; whoever waits, waits for a call that can go on |
| `keys` | `MCKeys` / `Keys` | pass | a key is the same key along every path; every form reads back; a stored key is found and loads; both parties derive the same key; what is sealed opens with its key only; signatures verify for their message only |

Each property of a passing run has a mutated definition next to the one it replaces
(comments "Mutant:" or the sentence that says what the bug is) which makes TLC report
that property violated.

### Bounds

* `MaxKeys`, `MaxCaches`, `MaxCalls` (ProfileStore): with two names, two keys made
  after the first, three caches and two calls in flight there is a create that
  overlaps a rekey, a removal and second creation of the same name while a session
  holds the first, and an instance that opens during a rekey. The Postgres store has
  one store key, since what is claimed of it is not about wrapping, and one session; the
  SQLite store has two store keys and no session, for which section 4 and
  `profile_sqlite_reuse` stand.
* `MaxToks`, `MaxOpens`, `MaxCrashes` (DbSession): two sessions and two connections
  suffice for one to wait for the other's lock; a third session gets a connection
  another one has used, which is where a dirty connection shows, and two writes for
  one to be lost under the other.
* `session_waits` has three sessions on two connections, so that one waits for the pool
  while the other two wait for each other or for a lock. It checks liveness, so it has no
  symmetry: the sessions are created already (as many as connections, with two writes to
  come, on Postgres; or three, with one write, on either backend), a free connection is
  the first one (`FirstTaken`), and there are no dropped futures and no crash. Nor is
  there the busy timeout, which `DbSession` allows once per connection: the waits end
  here because transaction sessions are closed, without its help.
* `MaxStores`, `MaxRes`, three `Calls` (FfiHandles): a close beside the start of a session
  and an operation on another. The deadlock takes two operations on a plain session, the
  end of a transaction session, and a close; `ffi_close_postgres` begins where the store
  and both sessions have been opened, one thread for each of these calls.
  What is proved in section 4 does not depend on these bounds.
* `MaxOps` = 4 (Entries): insert, remove, insert of the same name, and the second
  half of an `update_key` that was begun before. `MaxId` = 3, `MaxTime` = 1 (an
  entry that expires), `PageSize` = 1 with two names (a page boundary between two
  rows), one scan in a behaviour: a scan leaves the tables alone, so a second one
  meets nothing new. The view of the run leaves out the history variable `last`,
  which no guard reads.
* `Inputs` (Wql): all filters up to the depth `MCWql` gives, with a plaintext and an
  encrypted tag, on all three backends, as item and as key filters.
* `MaxCalls` = 2, `MaxOpens` = 3, `MaxCrashes` = 1 (OdbcBackend): two changes, so that
  one replaces, deletes or follows the other; a third session, which takes a
  connection that was used before; one crash, after which the store is opened again.
  The second case of the run, for the reads, begins with a stored entry and with both
  sessions open, and has two more changes (insert, replace, remove, remove_profile) beside
  fetches, scans and the expiry of an entry. In `odbc_tags`, `FirstItems` = {1, 2} lets an
  entry have the id of a profile, which is what `DELETE_TAG` confuses.
* `MaxCalls` = 3, `MaxCrashes` = 1 (Stores): two calls that overlap, and a third that
  meets what they, or a crash in one of them, have left. `MCCalls` has each operation
  with a right, a wrong and no pass key where it makes a difference, and one provision with
  a pool of a single connection; two wallet items and two profiles let a call stop between
  them.
* `MaxCalls` = 4, `MaxDraws` = 3, three handles (LocalKeys): two keys made, one used,
  the result read back; or sender, recipient and ephemeral key of ECDH-1PU and the
  derivation. Generated: one algorithm of each family; imported: these and some of the
  wrong type; content tags on both sides of the limit of 124 bytes; messages of no
  chunk and of one.

Deadlock is not checked: the application may stop calling at any time, and the
bounded counters run out.

### Fairness

Two runs rest on fairness. `CallsReturn`: a call that can go on does (the runtime
polls it, the database answers, `acquire` expires), and a caller does not keep a
transaction session for ever (strong fairness of closing it, since a session is between
calls again and again). `StoreCloseReturns`: the runtime polls tasks that can go on, and
async-lock is eventually fair, so a task that can step infinitely often does (strong
fairness); and the application calls `session_close` for every session it was given
(strong fairness of `Ends`), without which it would be no wonder that a close waits.
`NobodyStuck` of `Stores` is an invariant: a call in flight can step, or a call that has
the lock of its file can; since every step takes its call further, weak fairness of the
steps, which `Spec` states, is all that is needed for the calls to return.

## 4. Proofs

Each theorem holds for every value of the constants (any number of names, instances,
sessions, connections, calls, handles, rows and every value of the bounds), and rests on
the named assumption on the constants of its module alone (`ProfileStoreAssumption`,
`DbSessionAssumption`, `EntriesAssumption`, `OdbcAssumption`, `StoresAssumption`,
`FfiAssumption`). Every inductive invariant was checked with TLC before it was proved.

| theorem | module | states |
|---|---|---|
| `TypeCorrect` | `ProfileStoreProofs` | `Spec => []TypeOK` |
| `SessionKeys` | `ProfileStoreProofs` | `Spec => []SessionKeyOfItsProfile` |
| `RowsSeparated` | `ProfileStoreProofs` | Postgres: `Spec => []RowsUnderProfileKey` |
| `PingFindsOwnProfile` | `ProfileStoreProofs` | Postgres: `Spec => []PingTruthful` |
| `TxnHoldsProfile` | `ProfileStoreProofs` | Postgres: `Spec => []TxnProfilePresent` |
| `NoProfileLost` | `ProfileStoreProofs` | SQLite: `Spec => []ProfilesLoadable` |
| `RekeyAllOrNothing` | `ProfileStoreProofs` | SQLite: `Spec => RekeyAtomic` |
| `ConnectionsInOrder` | `DbSessionProofs` | `Spec => []ConnsInOrder` |
| `AckedStaysDurable` | `DbSessionProofs` | `Spec => []AckedDurable` |
| `GivenUpIsGone` | `DbSessionProofs` | `Spec => []NothingLeftOver` |
| `EntriesInOrder` | `EntriesProofs` | `Spec => []RowsInOrder` |
| `UpdateKeyReplacesFetched` | `EntriesProofs` | `Spec => []UpdateKeyIsolated` |
| `ScansAreConsistent` | `EntriesProofs` | `Spec => []ScanConsistent` |
| `TablesImplementMap` | `EntriesProofs` | `Spec => ImplementsMap`, the refinement of `EntryMap` |
| `OdbcInvariant` | `OdbcProofs` | `Spec => []OInv` |
| `OdbcPoolClean` | `OdbcProofs` | `Spec => []PoolClean` |
| `OdbcOutcomesHold` | `OdbcProofs` | `Spec => []OutcomesHold` |
| `OdbcKeysAgree` | `OdbcProofs` | `Spec => []KeysAgree` |
| `StoresInvariant` | `StoresProofs` | `Spec => []SInv` |
| `InstancesStayInOrder` | `StoresProofs` | `Spec => []InstancesInOrder` |
| `StoresOpenAgain` | `StoresProofs` | `Spec => []StoreOpensAgain` |
| `WalletIsKept` | `StoresProofs` | `Spec => []WalletKept` |
| `AloneInvariant` | `StoresFailureProofs` | `Spec => []AInv` |
| `RecreateAlwaysWorks` | `StoresFailureProofs` | `Spec => []RecreateWorks` |
| `FailuresKeepStore` | `StoresFailureProofs` | `Spec => FailureKeepsStore` |
| `EveryCallAnswered` | `FfiHandlesProofs` | `Spec => []AnsweredOnce` |
| `ClosedStaysClosed` | `FfiHandlesProofs` | `Spec => []HandlesInOrder` |
| `RekeyAndCommitAlone` | `FfiHandlesProofs` | `Spec => []WorksAlone` |
| `ClosedStaysQuiet` | `FfiHandlesProofs` | `Spec => []ClosedQuiet` |

**ProfileStore.** `TypeOK` is not inductive. `Typing` adds that an instance holds a
cache that has been allocated (`inst[i] <= Len(caches)`) and that a session that has
resolved its profile has a name and a key; every later proof assumes it.

`SessionKeyOfItsProfile` needs the same of everything a session may take its key from:
`KeysNamed` says that the table, the caches, the creates in flight and the sessions pair a
name with a key made for that name. The interesting steps are `CacheProfile`, which
may write a stale pair (of the right name), and `ResolveAdd`, which caches after an
await.

`Separation` (Postgres) is four facts. `OneKeyPerId`: an id goes with one key in every
place that binds the two (`Bindings`: the table, the caches, the creates that have their
row, the resolved sessions). `IdsGivenOut`: no bound id is beyond the sequence.
`RowsUnderProfileKey` itself, and `TxnRowHeld`: the profile row of a resolved
transaction is there. It is inductive because a sequence never gives an id out twice.
That is the step SQLite lacks, and `profile_sqlite_reuse` is the counterexample.

`RekeyInv` (SQLite) is three facts. `SnapshotCurrent`: a rekey that has read the table
and was not overtaken since has exactly the profiles of the table in its hands, which
the snapshot rule of SQLite gives and READ COMMITTED does not. `KeysDistinct`: no two
rows share a key, and the key of a create in flight is not yet in the table.
`UnderConfig`, until some rekey has left another instance behind (`tainted`): every
profile, open instance and create in flight has the store key of the config, except an
instance between the commit of its rekey and the swap of its cache (`Swapping`).

**DbSession.** `ConnsInOrder` says nothing of a connection inside `start_transaction`,
where a transaction is open that `txn_depth` does not count yet, and nothing of who owns
what. The invariant adds both. `Placed`: what each state of a session allows of its
depth and connection. `Owned`: session and connection name each other. `Nested`: the
stack of a connection in use has as many levels as `Levels` says of its session, which
counts the one begun by `start_transaction`; a connection nobody has has none; the lock
is held only with a transaction open; and only SQLite leaks. The lemmas say what
`Begun`, `Committed` and `RolledBack` do to the stack, and what it takes for a step of
one session to keep the facts of all others.

Durability has a second invariant on top, `DInv`. `Carries`: the transaction of a
session adds facts and deletes none, all of them facts of its own operations, those it
has reported done among them; and the counter it fetched is the one that is there, since
from the fetch to the end of the transaction the session has the lock. So a commit only
adds to the database. `Tokens`: an operation is in the hands of one session, or in the
database, or undone, and never two of these. `Leaks`: a transaction that was given up on
lies below those of the session, so that what is committed above it goes nowhere. `Kept`
is `AckedDurable` itself, and that no insert is there by half.

**Entries.** `Good` tables have one row per id, no tags without a row, and tags of a key
that describe it; every statement keeps tables `Good` and does to the joined tables what
its operation does to the map. Of the open transaction only the rows it holds matter:
they can take the place of the committed ones (`Fits`) however other sessions change the
rest. With the ids given out and the rows fetched for `update_key` this is `TablesInv`.
`BatchInv` says that the batch of the transaction, replayed on any map that has the
committed entries at the names it holds, gives what its tables have; it goes through the
length of the batch by a least counterexample, since the induction theorems of the
library cannot be instantiated. `ScanInv` splits the rows of a scan's first moment into
those returned, those to come and some that have expired, with their numbers.

**OdbcBackend.** `OInv` (`OdbcStatementProofs`) has five parts. `Types`; `Holding`, who
has a connection and in which mode (with autocommit on nothing is pending); `InFlight`,
which ties the calls of the sessions to the open changes of the log; `BooksKept`, that
rows and log add up: a row in a table is of a change that stands, a pending row of such a
change or of its own transaction, and an insert whose row is gone was overwritten by a
change at least as good; `KeyInv`, the store key through a rekey, row by row. `Books` is a
statement about sets and functions alone, so that a statement, a commit, a rollback and
a connection passed on with its work are each shown once (`BooksPending`, `BooksAuto`,
`BooksCommit`, `BooksRollback`). `OdbcStatementProofs` has the statements and the ends of
transactions, `OdbcProofs` the sessions, the crash, the rekey and the theorems.

**Stores.** `SInv` says what a file can hold (`FileOK`), where a call may be (`Placed`),
what it knows of its file at each step (`On`), and which two calls cannot be under way
on one file (`Apart`): two that migrate, two of ODBC that are about to insert the first
profile, one that drops tables and one that creates them. The last two are claimed of
calls whose file was not replaced since they connected. `AInv` (`StoresFailureProofs`)
is about a call that has had the store to itself (`Alone`): at each step it knows that
what is at the URL is what was there at the start, or, for ODBC, which tables are left to
drop and to create (`Known`). Each action is shown to be a `Turn`: it leaves the other
calls as they are, and from `Known` it gets to `Known` again, or to the end, or fails
where failing is allowed. The theorem about failures is an action property; it follows
from `AInv` before the step.

**FfiHandles.** `Callback` and `Placed` say, call by call, that the callback is pending
exactly as long as the call is, and where a call of each kind may be. `TakenOut`: a store
that a rekey or a close has taken is in no map, is not closed yet, and is taken by one
call only, so that what `Replace` puts back cannot be closed. `Mapped`: a resource is in
the map its callers wait for, and out of it while it is committed. `Apart` is
`WorksAlone`, pair by pair. `ClosedQuiet` needs that the pool of a store is shut before its
close waits for the connections. The cases of `Next` go through one lemma that says what a
step of one call has to show.

Only model-checked:

* `CallsReturn` and `StoreCloseReturns`, which are liveness, and `NobodyStuck`, which
  says `ENABLED`: out of the prover's reach.
* The four properties of `Wql`, whose operators recurse over trees.
* `CopyWhole` of `Stores`: it takes the ids of profiles, the items at each and the
  progress of every copy through the source, none of which `SInv` has.
* `ReadsTrue` of `OdbcReads`, which is about rows in sorted order and what changed since a
  read began.
* The six properties of `LocalKeys`: they are about terms that the functions of
  `KeyForms` to `KeyCrypto` build and take apart, case by case over the key types, and
  hardly about steps; TLC goes through these cases.

## 5. Findings

1. **SQLite profile ids are reused under a stale cache** (`sqlite/mod.rs:189`).
   `remove_profile` leaves the cache entry; the next profile may get the same id; a
   session on the removed name then writes rows into it under the old key.
2. **Closing a store can wait for ever on Postgres** (`src/ffi/store.rs:97`): `borrow`
   awaits a session's mutex under the read lock of the map of all sessions. An operation
   of a plain session waits for a row that a transaction session has written; a second
   one on that session waits for its mutex and has the read lock; the close of the
   transaction session, which would free the row, waits for the write lock, and so does
   the close of the store.
3. **ODBC: a replace deletes the tags of another entry** (`odbc/mod.rs:865`):
   `DELETE_TAG` is given the id of the profile where it takes that of the item. The
   replaced entry keeps its old tags, and the entry whose id is that of the profile loses
   its own.

`PROJECT.json` quotes the line of the repository each one disagrees with.

Other behaviour of the code that a reader of the properties meets as a named exception:

* `DbSession`: a transaction is leaked when `start_transaction` meets the busy timeout
  after `BEGIN` (`sqlite/mod.rs:581`), and what later sessions on that connection report
  done is not committed; the commit of an aborted Postgres transaction returns Ok
  (`db_utils.rs:159`). `AckedDurable` leaves out these two (`clean`).
* `OdbcBackend`: a transaction session dropped without `close` leaves its work on the
  connection, and the next session there commits it (`dirty`), where the comment at
  `src/ffi/store.rs:1133` has "rollback is automatic for txn". A rekey that stops half way leaves two store keys (`torn`).
* `Stores`: recreate on SQLite and ODBC removes the old store before the new keys are
  derived. ODBC may leave a store that lacks tables, which neither provision nor remove
  gets past. Copying to an ODBC store fails at its default profile, since `create_profile`
  there does not report a `Duplicate`. A migration that crashed cannot be started again,
  although its items are all still there.
* `LocalKeys`: a symmetric key can be stored but not loaded (`alg/any.rs:631`). The
  default thumbprint of a G1G2 key is not one its entry is indexed by. ECDH-1PU accepts
  content tags up to 124 bytes, not the 128 it checks for. An empty message wraps to the
  same bytes under every key-wrap key.

## 6. Not modelled

* What the ciphers, curves and derivations compute: a wrong key is "does not unwrap", and
  `KeyCrypto` takes the primitives as ideal. Secret bytes of the elliptic curves are taken
  to be in range; for BLS `InRange` says which are. The multi-pass `ConcatKDF::derive_key`
  is called by nothing in the library.
* The text of JSON and base64 in JWKs, `key_ops`, the ephemeral flag, hardware keys (a
  feature that is off by default: the calls answer Unsupported), and getters.
* I/O errors at COMMIT, and a COMMIT whose future is dropped inside
  `DbSessionTxn::commit` before it is sent (`db_utils.rs:341` clears `rollback` first).
* Reads inside a leaked SQLite transaction, which see its old snapshot.
* `get/set_default_profile` and `list_profiles` of the sqlx backends: single statements.
* A create during a rekey on Postgres (READ COMMITTED): `ProfileStore` has the behaviour
  (`LeavesStale`), and `ProfilesLoadable` is claimed for SQLite only.
* Parsing of store options, in-memory SQLite, and the `schema` parameter of Postgres.
* `LAST_ERROR` of the C interface, which is one for the process (`src/ffi/error.rs:84`),
  and how wrappers in other languages use it.
* `fetch_next` after an error: the stream is gone and the scan looks finished
  (`entry.rs:337`).
* Expiry in copies: `import_scan` passes none (`backend/mod.rs:164`).
* The negation of `$exist` with several names, plaintext tags in key filters
  (`src/store.rs:436`), and filters with empty lists of parts on Postgres (refused as
  SQL): `Solid` names what `SelectsMeaning` leaves out.
* Memory: allocation, zeroing and reference counts of buffers, lists and strings.

## 7. Open ends

* A proof of `CopyWhole`, with the invariants section 4 says it needs.
* `OdbcBackend` against `EntryMap`: a plain session is no refinement, since its updates
  are not atomic; a transaction session that is closed may be.
