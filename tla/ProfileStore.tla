---------------------------- MODULE ProfileStore ----------------------------
(***************************************************************************)
(* Profiles and the key hierarchy of an askar store.                       *)
(*                                                                         *)
(* A store has one store key; each row of the profiles table holds the key *)
(* of that profile wrapped under the store key; each row of the items      *)
(* table is encrypted under the key of the profile it belongs to.  Several *)
(* open backends ("instances": processes, or handles of one process) may   *)
(* share a database.  Each has its own KeyCache, which is never told of    *)
(* what another instance, or remove_profile, does to the table.            *)
(*                                                                         *)
(* The SQLite and Postgres backends run the same code but for the points   *)
(* where this module tests Sqlite.                                         *)
(***************************************************************************)
EXTENDS Naturals, Sequences, FiniteSets

CONSTANTS
    Backend,       \* "sqlite" or "postgres"
    Names,         \* profile names
    NoKey,         \* stands for the key of a session that has not resolved one
    EmptyName,     \* the String::new() that make_active swaps into a session
    Instances,     \* the backend values (SqliteBackend, PostgresBackend)
    Sessions,      \* DbSession values
    StoreKeys,     \* store keys a pass key can resolve to
    KeyMethods,    \* store key methods in use: a subset of {"raw", "kdf"}
    MaxKeys,       \* bound: calls of ProfileKey::new
    MaxCaches,     \* bound: KeyCache objects ever allocated
    MaxCalls       \* bound: create_profile, rekey and open_db calls in flight

ASSUME ProfileStoreAssumption ==
    /\ Backend \in {"sqlite", "postgres"}
    /\ EmptyName \notin Names
    /\ NoKey \notin [of : Names, no : Nat]
    /\ MaxKeys \in Nat
    /\ MaxCaches \in Nat
    /\ MaxCalls \in Nat

VARIABLES
    profiles,      \* profiles table: records [name, id, key, wrap]; key is wrapped under wrap
    config,        \* the store key the config table refers to
    items,         \* items table: records [pid, key], key being the one the row is encrypted under
    lastId,        \* where the id sequence stands (Postgres BIGSERIAL)
    nextKey,       \* next fresh profile key
    caches,        \* KeyCache objects in allocation order: the store_key of each
    cached,        \* their profile_info maps: records [cache, name, id, key]
    inst,          \* index of the KeyCache an instance holds, 0 while it is not open
    creates,       \* create_profile calls in flight
    rekeys,        \* rekey calls in flight
    opens,         \* open_db calls in flight
    sess,          \* the sessions
    tainted        \* history: some rekey was committed behind the back of an open instance

vars == <<profiles, config, items, lastId, nextKey, caches, cached,
          inst, creates, rekeys, opens, sess, tainted>>
----------------------------------------------------------------------------
Sqlite == Backend = "sqlite"

Closed == 0

\* A profile key: the no-th one generated, for a profile called "of".
Key     == [of : Names, no : Nat]
Profile == [name : Names, id : Nat, key : Key, wrap : StoreKeys]
Item    == [pid : Nat, key : Key]
Cached  == [cache : Nat, name : Names, id : Nat, key : Key]
Create  == [inst : Instances, name : Names, key : Key, wrap : StoreKeys, id : Nat]
Rekey   == [inst : Instances, wrap : StoreKeys, ids : SUBSET Nat,
            stale : BOOLEAN, done : BOOLEAN]
Open    == [inst : Instances, name : Names, sk : StoreKeys]
Session == [st : {"free", "pending", "loading", "active"}, cache : Nat,
            name : Names \cup {EmptyName}, txn : BOOLEAN, id : Nat, key : Key \cup {NoKey}]

FreeSession == [st |-> "free", cache |-> 0, name |-> EmptyName,
                txn |-> FALSE, id |-> 0, key |-> NoKey]

TypeOK ==
    /\ profiles \subseteq Profile
    /\ config \in StoreKeys
    /\ items \subseteq Item
    /\ lastId \in Nat
    /\ nextKey \in Nat
    /\ caches \in Seq(StoreKeys)
    /\ cached \subseteq Cached
    /\ inst \in [Instances -> Nat]
    /\ creates \subseteq Create
    /\ rekeys \subseteq Rekey
    /\ opens \subseteq Open
    /\ sess \in [Sessions -> Session]
    /\ tainted \in BOOLEAN
----------------------------------------------------------------------------
(***************************************************************************)
(* What SQL statements and the KeyCache return.                            *)
(***************************************************************************)
Named(n) == {p \in profiles : p.name = n}

HasId(id) == \E p \in profiles : p.id = id

\* Mutant: Postgres ids reused like SQLite's.
FreshIdsReused ==
    {id \in 1 .. nextKey : (\A p \in profiles : p.id < id) /\ (id = 1 \/ HasId(id - 1))}

\* The id a new row gets.  SQLite: an INTEGER PRIMARY KEY without AUTOINCREMENT
\* is one more than the largest id in the table.  Postgres: the next of a sequence.
FreshIds ==
    IF Sqlite
    THEN {id \in 1 .. nextKey : /\ \A p \in profiles : p.id < id
                                /\ id = 1 \/ HasId(id - 1)}
    ELSE {lastId + 1}

\* Mutant: the lookup ignores the profile name.
CachedUnderAnyName(c, n) == {e \in cached : e.cache = c}

CachedUnder(c, n) == {e \in cached : e.cache = c /\ e.name = n}

\* KeyCache::add_profile: the entry replaces one of the same name.
AddCached(c, n, id, key) ==
    (cached \ CachedUnder(c, n)) \cup {[cache |-> c, name |-> n, id |-> id, key |-> key]}

\* A KeyCache is reference counted: it goes with the last instance or session that holds it.
StillHeld(e) == \/ \E i \in Instances : inst'[i] = e.cache
                \/ \E s \in Sessions : sess'[s].cache = e.cache

FreeCaches == cached' = {e \in cached : StillHeld(e)}

StoreKey(i) == caches[inst[i]]

\* Mutant: the row is read without FOR NO KEY UPDATE.
RowNotLocked(id) == FALSE

\* A Postgres transaction session holds FOR NO KEY UPDATE on its profile row.
RowLocked(id) ==
    /\ ~Sqlite
    /\ \E s \in Sessions : sess[s].txn /\ sess[s].st \in {"loading", "active"} /\ sess[s].id = id

\* SQLite in WAL mode: a write by anybody makes the read snapshot of a rekey
\* transaction in progress too old to be upgraded to a write.
Overtake(calls) == {[r EXCEPT !.stale = @ \/ (Sqlite /\ ~r.done)] : r \in calls}

\* `&mut self` of rekey, and Arc::get_mut above it: the call is alone on its instance.
Exclusive(i) == \E r \in rekeys : r.inst = i

CallSlot == Cardinality(creates) + Cardinality(rekeys) + Cardinality(opens) < MaxCalls

Shared(i) == inst[i] # Closed /\ ~Exclusive(i)
----------------------------------------------------------------------------
(***************************************************************************)
(* init_db: a freshly provisioned store, opened by the provisioning        *)
(* instance, with its default profile in the cache.                        *)
(***************************************************************************)
Init ==
    /\ \E i \in Instances, n \in Names, sk \in StoreKeys :
          /\ profiles = {[name |-> n, id |-> 1, key |-> [of |-> n, no |-> 1], wrap |-> sk]}
          /\ config = sk
          /\ caches = <<sk>>
          /\ cached = {[cache |-> 1, name |-> n, id |-> 1, key |-> [of |-> n, no |-> 1]]}
          /\ inst = [j \in Instances |-> IF j = i THEN 1 ELSE Closed]
    /\ items = {}
    /\ lastId = 1
    /\ nextKey = 2
    /\ creates = {}
    /\ rekeys = {}
    /\ opens = {}
    /\ sess = [s \in Sessions |-> FreeSession]
    /\ tainted = FALSE
----------------------------------------------------------------------------
(***************************************************************************)
(* create_profile.  The profile key is generated and wrapped on a blocking *)
(* thread, the row is inserted, and then the cache is written.             *)
(***************************************************************************)
CreateProfile(i, n) ==
    /\ Shared(i)
    /\ nextKey <= MaxKeys /\ CallSlot
    /\ creates' = creates \cup {[inst |-> i, name |-> n, key |-> [of |-> n, no |-> nextKey],
                                 wrap |-> StoreKey(i), id |-> 0]}
    /\ nextKey' = nextKey + 1
    /\ UNCHANGED <<profiles, config, items, lastId, caches, cached, inst,
                   rekeys, opens, sess, tainted>>

\* INSERT ... ON CONFLICT DO NOTHING: no row inserted is the Duplicate error.
InsertProfile(c) ==
    /\ c.id = 0
    /\ \/ /\ Named(c.name) # {}
          /\ creates' = creates \ {c}
          /\ UNCHANGED <<profiles, lastId, rekeys>>
       \/ /\ Named(c.name) = {}
          /\ \E id \in FreshIds :
                /\ profiles' = profiles \cup
                     {[name |-> c.name, id |-> id, key |-> c.key, wrap |-> c.wrap]}
                /\ creates' = (creates \ {c}) \cup {[c EXCEPT !.id = id]}
                /\ lastId' = IF Sqlite THEN lastId ELSE id
          /\ rekeys' = Overtake(rekeys)
    /\ UNCHANGED <<config, items, nextKey, caches, cached, inst, opens, sess, tainted>>

CacheProfile(c) ==
    /\ c.id # 0
    /\ cached' = AddCached(inst[c.inst], c.name, c.id, c.key)
    /\ creates' = creates \ {c}
    /\ UNCHANGED <<profiles, config, items, lastId, nextKey, caches, inst,
                   rekeys, opens, sess, tainted>>

\* The items of the profile go with it (ON DELETE CASCADE); no cache is touched.
RemoveProfile(i, n) ==
    /\ Shared(i)
    /\ \E p \in Named(n) :
          /\ ~RowLocked(p.id)
          /\ profiles' = profiles \ {p}
          /\ items' = {x \in items : x.pid # p.id}
    /\ rekeys' = Overtake(rekeys)
    /\ UNCHANGED <<config, lastId, nextKey, caches, cached, inst, creates,
                   opens, sess, tainted>>
----------------------------------------------------------------------------
(***************************************************************************)
(* rekey.  One transaction reads and unwraps every profile key, then       *)
(* writes them back under the new store key together with the reference to *)
(* it; the instance takes a new, empty KeyCache after the commit.          *)
(***************************************************************************)
RekeyRead(i, sk) ==
    /\ Shared(i)
    /\ \A c \in creates : c.inst # i
    /\ Len(caches) < MaxCaches /\ CallSlot
    /\ \A p \in profiles : p.wrap = StoreKey(i)     \* else load_key fails and so does rekey
    /\ rekeys' = rekeys \cup {[inst |-> i, wrap |-> sk, ids |-> {p.id : p \in profiles},
                               stale |-> FALSE, done |-> FALSE]}
    /\ UNCHANGED <<profiles, config, items, lastId, nextKey, caches, cached,
                   inst, creates, opens, sess, tainted>>

\* Mutant: the write does not notice that the snapshot is old.
RekeyFailsOnCountOnly(r) == \E id \in r.ids : ~HasId(id)

\* An UPDATE that finds no row, or a SQLite snapshot that is too old, is an error
\* and the transaction rolls back.
RekeyFails(r) ==
    \/ r.stale
    \/ \E id \in r.ids : ~HasId(id)

\* Mutant: the update loop stops one row early.
RewrappedAllButOne(r) ==
    {IF p.id \in r.ids /\ (\E id \in r.ids : id < p.id)
     THEN [p EXCEPT !.wrap = r.wrap] ELSE p : p \in profiles}

Rewrapped(r) ==
    {IF p.id \in r.ids THEN [p EXCEPT !.wrap = r.wrap] ELSE p : p \in profiles}

\* Whether somebody else goes on with another store key than the one committed.
LeavesStale(r) ==
    \/ \E j \in Instances \ {r.inst} : inst[j] # Closed /\ StoreKey(j) # r.wrap
    \/ \E q \in rekeys \ {r} : q.done /\ q.wrap # r.wrap
    \/ \E c \in creates : c.wrap # r.wrap

RekeyCommit(r) ==
    /\ ~r.done
    /\ \/ /\ RekeyFails(r)
          /\ rekeys' = rekeys \ {r}
          /\ UNCHANGED <<profiles, config, tainted>>
       \/ /\ ~RekeyFails(r)
          /\ \A id \in r.ids : ~RowLocked(id)
          /\ profiles' = Rewrapped(r)
          /\ config' = r.wrap
          /\ rekeys' = Overtake(rekeys \ {r}) \cup {[r EXCEPT !.done = TRUE, !.ids = {}]}
          /\ tainted' = (tainted \/ LeavesStale(r))
    /\ UNCHANGED <<items, lastId, nextKey, caches, cached, inst, creates,
                   opens, sess>>

\* self.key_cache = Arc::new(KeyCache::new(store_key)); sessions keep the old one.
RekeySwap(r) ==
    /\ r.done
    /\ caches' = Append(caches, r.wrap)
    /\ inst' = [inst EXCEPT ![r.inst] = Len(caches) + 1]
    /\ rekeys' = rekeys \ {r}
    /\ UNCHANGED <<profiles, config, items, lastId, nextKey, creates,
                   opens, sess, tainted>>
    /\ FreeCaches

\* The future is dropped at an await.  A transaction not yet committed rolls back;
\* one that was leaves the instance with its old KeyCache.
DropCreate(c) ==
    /\ creates' = creates \ {c}
    /\ UNCHANGED <<profiles, config, items, lastId, nextKey, caches, cached,
                   inst, rekeys, opens, sess, tainted>>

DropRekey(r) ==
    /\ rekeys' = rekeys \ {r}
    /\ tainted' = (tainted \/ r.done)
    /\ UNCHANGED <<profiles, config, items, lastId, nextKey, caches, cached,
                   inst, creates, opens, sess>>
----------------------------------------------------------------------------
(***************************************************************************)
(* open_db.  The config rows are read, the store key is resolved from the  *)
(* pass key and the stored reference, and the profile row is read by a     *)
(* second statement.                                                       *)
(***************************************************************************)
\* A raw key is the pass key itself.  A derived key comes out right only when the pass
\* phrase is the one the stored reference was made with; another derives a key that
\* unwraps nothing, and open fails with no effect.
ResolvesTo(sk) == \/ "raw" \in KeyMethods
                  \/ "kdf" \in KeyMethods /\ sk = config

OpenConfig(i, n, sk) ==
    /\ inst[i] = Closed
    /\ \A o \in opens : o.inst # i
    /\ Len(caches) < MaxCaches /\ CallSlot
    /\ ResolvesTo(sk)
    /\ opens' = opens \cup {[inst |-> i, name |-> n, sk |-> sk]}
    /\ UNCHANGED <<profiles, config, items, lastId, nextKey, caches, cached,
                   inst, creates, rekeys, sess, tainted>>

\* The profile is missing, or its key does not unwrap: open fails.
OpenLoad(o) ==
    /\ opens' = opens \ {o}
    /\ \/ /\ \A p \in Named(o.name) : p.wrap # o.sk
          /\ UNCHANGED <<caches, cached, inst>>
       \/ \E p \in Named(o.name) :
             /\ p.wrap = o.sk
             /\ caches' = Append(caches, o.sk)
             /\ cached' = AddCached(Len(caches) + 1, o.name, p.id, p.key)
             /\ inst' = [inst EXCEPT ![o.inst] = Len(caches) + 1]
    /\ UNCHANGED <<profiles, config, items, lastId, nextKey, creates,
                   rekeys, sess, tainted>>

\* The process ends, or the last handle is dropped, with calls in flight or not.
CloseInstance(i) ==
    /\ inst[i] # Closed
    /\ inst' = [inst EXCEPT ![i] = Closed]
    /\ creates' = {c \in creates : c.inst # i}
    /\ rekeys' = {r \in rekeys : r.inst # i}
    /\ UNCHANGED <<profiles, config, items, lastId, nextKey, caches,
                   opens, sess, tainted>>
    /\ FreeCaches
----------------------------------------------------------------------------
(***************************************************************************)
(* Sessions: make_active with resolve_profile_key, and the item writes     *)
(* that use the (profile id, profile key) pair it returns.                 *)
(***************************************************************************)
\* txn is the in_txn flag of resolve_profile_key, which SQLite ignores.
NewSession(s, i, n, txn) ==
    /\ sess[s].st = "free"
    /\ Sqlite => ~txn
    /\ Shared(i)
    /\ sess' = [sess EXCEPT ![s] = [st |-> "pending", cache |-> inst[i], name |-> n,
                                    txn |-> txn, id |-> 0, key |-> NoKey]]
    /\ UNCHANGED <<profiles, config, items, lastId, nextKey, caches, cached,
                   inst, creates, rekeys, opens, tainted>>

\* mem::swap(profile, ""): a failed resolution leaves the session without its name.
Unresolved(s) == [sess EXCEPT ![s].name = EmptyName]

ResolvedTo(s, st, id, key) ==
    [sess EXCEPT ![s] = [st |-> st, cache |-> @.cache, name |-> @.name,
                         txn |-> @.txn, id |-> id, key |-> key]]

\* Cache hit.  SQLite asks the database nothing; Postgres, in a transaction,
\* locks the row of the cached id and fails if it is gone.
ResolveCached(s) ==
    /\ sess[s].st = "pending"
    /\ \E e \in CachedUnder(sess[s].cache, sess[s].name) :
          LET check == ~Sqlite /\ sess[s].txn IN
          \/ /\ check /\ ~HasId(e.id)
             /\ sess' = Unresolved(s)
          \/ /\ ~check \/ (HasId(e.id) /\ ~RowLocked(e.id))
             /\ sess' = ResolvedTo(s, "active", e.id, e.key)
    /\ UNCHANGED <<profiles, config, items, lastId, nextKey, caches, cached,
                   inst, creates, rekeys, opens, tainted>>

\* Cache miss: the row is read by name (locked, in Postgres) and its key unwrapped
\* with the store key of the session's KeyCache.
ResolveSelect(s) ==
    /\ sess[s].st = "pending"
    /\ CachedUnder(sess[s].cache, sess[s].name) = {}
    /\ \/ /\ \A p \in Named(sess[s].name) : p.wrap # caches[sess[s].cache]
          /\ sess' = Unresolved(s)
       \/ \E p \in Named(sess[s].name) :
             /\ ~RowLocked(p.id)
             /\ p.wrap = caches[sess[s].cache]
             /\ sess' = ResolvedTo(s, "loading", p.id, p.key)
    /\ UNCHANGED <<profiles, config, items, lastId, nextKey, caches, cached,
                   inst, creates, rekeys, opens, tainted>>

ResolveAdd(s) ==
    /\ sess[s].st = "loading"
    /\ cached' = AddCached(sess[s].cache, sess[s].name, sess[s].id, sess[s].key)
    /\ sess' = [sess EXCEPT ![s].st = "active"]
    /\ UNCHANGED <<profiles, config, items, lastId, nextKey, caches,
                   inst, creates, rekeys, opens, tainted>>

\* Insert: the foreign key refuses the row when no profile has the id.
InsertItem(s) ==
    /\ sess[s].st = "active"
    /\ HasId(sess[s].id)
    /\ items' = items \cup {[pid |-> sess[s].id, key |-> sess[s].key]}
    /\ rekeys' = Overtake(rekeys)
    /\ UNCHANGED <<profiles, config, lastId, nextKey, caches, cached,
                   inst, creates, opens, sess, tainted>>

\* remove_all without a filter deletes by profile id alone.
RemoveItems(s) ==
    /\ sess[s].st = "active"
    /\ items' = {x \in items : x.pid # sess[s].id}
    /\ rekeys' = Overtake(rekeys)
    /\ UNCHANGED <<profiles, config, lastId, nextKey, caches, cached,
                   inst, creates, opens, sess, tainted>>

CloseSession(s) ==
    /\ sess[s].st # "free"
    /\ sess' = [sess EXCEPT ![s] = FreeSession]
    /\ UNCHANGED <<profiles, config, items, lastId, nextKey, caches,
                   inst, creates, rekeys, opens, tainted>>
    /\ FreeCaches
----------------------------------------------------------------------------
InstanceStep(i) ==
    \/ \E n \in Names : CreateProfile(i, n) \/ RemoveProfile(i, n)
    \/ \E sk \in StoreKeys : RekeyRead(i, sk)
    \/ \E n \in Names, sk \in StoreKeys : OpenConfig(i, n, sk)
    \/ CloseInstance(i)

CallStep ==
    \/ \E c \in creates : InsertProfile(c) \/ CacheProfile(c) \/ DropCreate(c)
    \/ \E r \in rekeys : RekeyCommit(r) \/ RekeySwap(r) \/ DropRekey(r)
    \/ \E o \in opens : OpenLoad(o)

SessionStep(s) ==
    \/ \E i \in Instances, n \in Names, txn \in BOOLEAN : NewSession(s, i, n, txn)
    \/ ResolveCached(s) \/ ResolveSelect(s) \/ ResolveAdd(s)
    \/ InsertItem(s) \/ RemoveItems(s) \/ CloseSession(s)

Next ==
    \/ \E i \in Instances : InstanceStep(i)
    \/ CallStep
    \/ \E s \in Sessions : SessionStep(s)

Spec == Init /\ [][Next]_vars
----------------------------------------------------------------------------
(***************************************************************************)
(* Properties.                                                             *)
(***************************************************************************)
\* Profile separation: every item row belongs to a profile that exists and is
\* encrypted under that profile's key, so that a scan of the profile decrypts every
\* row it finds and no profile holds the data of another (docs/storage.md: profiles
\* "create separation between multiple sets of data").
RowsUnderProfileKey ==
    \A x \in items : \E p \in profiles : p.id = x.pid /\ p.key = x.key

\* ping looks the profile up by id: what it finds is the profile the session resolved
\* and never a later one that was given the same id.
PingTruthful ==
    \A s \in Sessions : sess[s].st = "active" =>
        \A p \in profiles : p.id = sess[s].id => p.key = sess[s].key

\* A Postgres transaction session does not check for its profile in ping ("the profile
\* row is locked"): no interleaving of remove_profile takes the row from under it.
TxnProfilePresent ==
    \A s \in Sessions : sess[s].txn /\ sess[s].st = "active" => HasId(sess[s].id)

\* The key a session works with was made for the profile the session asked for, through
\* every race of the cache with create_profile, remove_profile, rekey and open.
SessionKeyOfItsProfile ==
    \A s \in Sessions : sess[s].st = "active" => sess[s].key.of = sess[s].name

\* As long as no instance was left behind by a rekey of another one, every profile key
\* in the table unwraps under the store key the config refers to: no order of create,
\* rekey, open, crash and dropped futures loses a profile.
ProfilesLoadable ==
    ~tainted => \A p \in profiles : p.wrap = config

\* Some profile key is wrapped anew.
Rewraps == \E p \in profiles, q \in profiles' : p.key = q.key /\ p.wrap # q.wrap

\* A step that changes the store key, or the wrapping of any profile, leaves every profile
\* there is wrapped under the store key of the config (docs/storage.md: rekeying "re-encrypts
\* the profile keys under the new key before updating the store key metadata"): rekey is all
\* or nothing.
RekeyAtomic ==
    [][config' # config \/ Rewraps => \A p \in profiles' : p.wrap = config']_vars
============================================================================
