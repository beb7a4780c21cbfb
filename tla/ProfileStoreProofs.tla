------------------------- MODULE ProfileStoreProofs -------------------------
(***************************************************************************)
(* Proofs about ProfileStore, for any sets of names, instances, sessions   *)
(* and store keys and any value of the bounds.                             *)
(***************************************************************************)
EXTENDS ProfileStore, TLAPS

\* TypeOK is inductive together with two facts: instances hold allocated caches, and
\* a session that has resolved has a name and a key.
Resolved(s) == sess[s].st \in {"loading", "active"}

Typing ==
    /\ TypeOK
    /\ \A i \in Instances : inst[i] <= Len(caches)
    /\ \A s \in Sessions : Resolved(s) => sess[s].name \in Names /\ sess[s].key \in Key

\* The store key an open instance wraps new profile keys with is a store key.
LEMMA StoreKeyType ==
    ASSUME Typing, NEW i \in Instances, inst[i] # Closed
    PROVE  StoreKey(i) \in StoreKeys
  BY DEF Typing, TypeOK, StoreKey, Closed

\* Resolution gives the session a status, an id and a key and leaves the rest alone.
LEMMA ResolvedToSession ==
    ASSUME Typing, NEW s \in Sessions, NEW st \in {"loading", "active"},
           NEW id \in Nat, NEW key \in Key
    PROVE  LET new == ResolvedTo(s, st, id, key)
           IN  /\ new \in [Sessions -> Session]
               /\ \A t \in Sessions \ {s} : new[t] = sess[t]
               /\ new[s].st = st /\ new[s].id = id /\ new[s].key = key
               /\ new[s].cache = sess[s].cache
               /\ new[s].name = sess[s].name
               /\ new[s].txn = sess[s].txn
  <1> DEFINE v == [st |-> st, cache |-> sess[s].cache, name |-> sess[s].name,
                   txn |-> sess[s].txn, id |-> id, key |-> key]
  <1>1. sess \in [Sessions -> Session]
    BY Zenon DEF Typing, TypeOK
  <1>2. sess[s] \in Session
    BY <1>1, Zenon
  <1>3. v \in Session
    BY <1>2, Zenon DEF Session
  <1>4. /\ v.st = st /\ v.id = id /\ v.key = key
        /\ v.cache = sess[s].cache
        /\ v.name = sess[s].name
        /\ v.txn = sess[s].txn
    BY Zenon
  <1>5. ResolvedTo(s, st, id, key) = [sess EXCEPT ![s] = v]
    BY Zenon DEF ResolvedTo
  <1> HIDE DEF v
  <1> QED
    BY <1>1, <1>3, <1>4, <1>5, Zenon

\* A failed resolution takes the name from the session and leaves the rest alone.
LEMMA UnresolvedSession ==
    ASSUME Typing, NEW s \in Sessions
    PROVE  LET new == Unresolved(s)
           IN  /\ new \in [Sessions -> Session]
               /\ \A t \in Sessions \ {s} : new[t] = sess[t]
               /\ new[s].st = sess[s].st
               /\ new[s].cache = sess[s].cache
               /\ new[s].txn = sess[s].txn
  BY ZenonT(60) DEF Typing, TypeOK, Unresolved, Session

LEMMA TypingInit == Init => Typing
  <1> SUFFICES ASSUME Init PROVE Typing
    BY Zenon
  <1> PICK i \in Instances, n \in Names, sk \in StoreKeys :
          /\ profiles = {[name |-> n, id |-> 1, key |-> [of |-> n, no |-> 1], wrap |-> sk]}
          /\ config = sk
          /\ caches = <<sk>>
          /\ cached = {[cache |-> 1, name |-> n, id |-> 1, key |-> [of |-> n, no |-> 1]]}
          /\ inst = [j \in Instances |-> IF j = i THEN 1 ELSE Closed]
    BY Zenon DEF Init
  <1>1. caches \in Seq(StoreKeys) /\ Len(caches) = 1
    OBVIOUS
  <1>2. inst \in [Instances -> Nat] /\ \A j \in Instances : inst[j] <= 1
    BY DEF Closed
  <1>3. sess \in [Sessions -> Session] /\ \A s \in Sessions : ~Resolved(s)
    BY Zenon DEF Init, FreeSession, Session, Resolved
  <1>4. profiles \subseteq Profile /\ cached \subseteq Cached
    BY DEF Profile, Cached, Key
  <1>5. /\ items \subseteq Item
        /\ creates \subseteq Create
        /\ rekeys \subseteq Rekey
        /\ opens \subseteq Open
        /\ lastId \in Nat
        /\ nextKey \in Nat
    BY Zenon DEF Init
  <1>6. tainted \in BOOLEAN
    BY Zenon DEF Init
  <1> QED
    BY <1>1, <1>2, <1>3, <1>4, <1>5, <1>6, Zenon DEF Typing, TypeOK

LEMMA TypingNext == Typing /\ [Next]_vars => Typing'
  <1> SUFFICES ASSUME Typing, [Next]_vars PROVE Typing'
    BY Zenon
  <1> USE DEF Typing, TypeOK, Closed, Resolved
  <1>1. ASSUME NEW i \in Instances, NEW n \in Names, CreateProfile(i, n) PROVE Typing'
    <2>1. StoreKey(i) \in StoreKeys
      BY <1>1, StoreKeyType, Zenon DEF CreateProfile, Shared
    <2> DEFINE c == [inst |-> i, name |-> n, key |-> [of |-> n, no |-> nextKey],
                     wrap |-> StoreKey(i), id |-> 0]
    <2>2. c \in Create
      BY <2>1, Zenon DEF Create, Key
    <2> HIDE DEF c
    <2>3. creates' \subseteq Create
      BY <1>1, <2>2, Zenon DEF CreateProfile, c
    <2> QED
      BY <1>1, <2>3 DEF CreateProfile
  <1>2. ASSUME NEW i \in Instances, NEW n \in Names, RemoveProfile(i, n) PROVE Typing'
    <2>1. Overtake(rekeys) \subseteq Rekey
      BY Zenon DEF Overtake, Rekey
    <2> QED
      BY <1>2, <2>1, Zenon DEF RemoveProfile
  <1>3. ASSUME NEW i \in Instances, NEW sk \in StoreKeys, RekeyRead(i, sk) PROVE Typing'
    <2> DEFINE r == [inst |-> i, wrap |-> sk, ids |-> {p.id : p \in profiles},
                     stale |-> FALSE, done |-> FALSE]
    <2>1. {p.id : p \in profiles} \subseteq Nat
      BY Zenon DEF Profile
    <2>2. r \in Rekey
      BY <2>1, Zenon DEF Rekey
    <2> HIDE DEF r
    <2>3. rekeys' \subseteq Rekey
      BY <1>3, <2>2, Zenon DEF RekeyRead, r
    <2> QED
      BY <1>3, <2>3, Zenon DEF RekeyRead
  <1>4. ASSUME NEW i \in Instances, NEW n \in Names, NEW sk \in StoreKeys, OpenConfig(i, n, sk)
        PROVE  Typing'
    BY <1>4 DEF OpenConfig, Open
  <1>5. ASSUME NEW i \in Instances, CloseInstance(i) PROVE Typing'
    BY <1>5 DEF CloseInstance, FreeCaches
  <1>6. ASSUME NEW c \in creates, InsertProfile(c) PROVE Typing'
    <2>1. Overtake(rekeys) \subseteq Rekey
      BY Zenon DEF Overtake, Rekey
    <2>2. FreshIds \subseteq Nat
      BY DEF FreshIds
    <2>3. CASE UNCHANGED <<profiles, lastId, rekeys>> /\ creates' = creates \ {c}
      BY <1>6, <2>3, Zenon DEF InsertProfile
    <2>4. ASSUME NEW id \in FreshIds,
                 profiles' = profiles \cup
                     {[name |-> c.name, id |-> id, key |-> c.key, wrap |-> c.wrap]},
                 creates' = (creates \ {c}) \cup {[c EXCEPT !.id = id]},
                 lastId' = IF Sqlite THEN lastId ELSE id,
                 rekeys' = Overtake(rekeys)
          PROVE  Typing'
      <3>1. c \in Create /\ id \in Nat
        BY <2>2, Zenon
      <3>2. [name |-> c.name, id |-> id, key |-> c.key, wrap |-> c.wrap] \in Profile
        BY <3>1, Zenon DEF Create, Profile
      <3>3. [c EXCEPT !.id = id] \in Create
        BY <3>1, Zenon DEF Create
      <3>4. profiles' \subseteq Profile
        BY <2>4, <3>2, Zenon
      <3>5. creates' \subseteq Create
        BY <2>4, <3>3, Zenon
      <3>6. lastId' \in Nat
        BY <2>4, <3>1, Zenon
      <3> QED
        BY <1>6, <2>1, <2>4, <3>4, <3>5, <3>6, Zenon DEF InsertProfile
    <2> QED
      BY <1>6, <2>3, <2>4, Zenon DEF InsertProfile
  <1>7. ASSUME NEW c \in creates, CacheProfile(c) PROVE Typing'
    <2>1. /\ inst[c.inst] \in Nat /\ c.name \in Names
          /\ c.id \in Nat /\ c.key \in Key
      BY Zenon DEF Create
    <2>2. cached' \subseteq Cached
      BY <1>7, <2>1 DEF CacheProfile, AddCached, Cached
    <2> QED
      BY <1>7, <2>2, Zenon DEF CacheProfile
  <1>8. ASSUME NEW c \in creates, DropCreate(c) PROVE Typing'
    BY <1>8, Zenon DEF DropCreate
  <1>9. ASSUME NEW r \in rekeys, RekeyCommit(r) PROVE Typing'
    <2>1. Rewrapped(r) \subseteq Profile
      BY Zenon DEF Rewrapped, Profile, Rekey
    <2>2. Overtake(rekeys \ {r}) \subseteq Rekey
      BY ZenonT(60) DEF Overtake, Rekey
    <2>3. [r EXCEPT !.done = TRUE, !.ids = {}] \in Rekey
      BY Zenon DEF Rekey
    <2>4. r.wrap \in StoreKeys
      BY Zenon DEF Rekey
    <2> QED
      BY <1>9, <2>1, <2>2, <2>3, <2>4, Zenon DEF RekeyCommit
  <1>10. ASSUME NEW r \in rekeys, RekeySwap(r) PROVE Typing'
    <2>1. caches' \in Seq(StoreKeys) /\ Len(caches') = Len(caches) + 1
      BY <1>10 DEF RekeySwap, Rekey
    <2>2. cached' \subseteq cached
      BY <1>10, Zenon DEF RekeySwap, FreeCaches
    <2>3. r.inst \in Instances /\ Len(caches) \in Nat
      BY DEF Rekey
    <2>4. inst' \in [Instances -> Nat] /\ \A i \in Instances : inst'[i] <= Len(caches')
      BY <1>10, <2>1, <2>3 DEF RekeySwap
    <2> QED
      BY <1>10, <2>1, <2>2, <2>4, Zenon DEF RekeySwap
  <1>11. ASSUME NEW r \in rekeys, DropRekey(r) PROVE Typing'
    <2>1. tainted' \in BOOLEAN
      BY <1>11, Zenon DEF DropRekey
    <2> QED
      BY <1>11, <2>1, Zenon DEF DropRekey
  <1>12. ASSUME NEW o \in opens, OpenLoad(o) PROVE Typing'
    <2>1. o.inst \in Instances /\ o.name \in Names /\ o.sk \in StoreKeys
      BY Zenon DEF Open
    <2>2. CASE UNCHANGED <<caches, cached, inst>>
      BY <1>12, <2>2, Zenon DEF OpenLoad
    <2>3. ASSUME NEW p \in profiles,
                 caches' = Append(caches, o.sk),
                 cached' = AddCached(Len(caches) + 1, o.name, p.id, p.key),
                 inst' = [inst EXCEPT ![o.inst] = Len(caches) + 1]
          PROVE  Typing'
      <3>1. caches' \in Seq(StoreKeys) /\ Len(caches') = Len(caches) + 1 /\ Len(caches) \in Nat
        BY <2>1, <2>3
      <3>2. cached' \subseteq Cached
        BY <2>1, <2>3, <3>1 DEF AddCached, Cached, Profile
      <3>3. inst' \in [Instances -> Nat] /\ \A i \in Instances : inst'[i] <= Len(caches')
        BY <2>1, <2>3, <3>1
      <3> QED
        BY <1>12, <3>1, <3>2, <3>3, Zenon DEF OpenLoad
    <2> QED
      BY <1>12, <2>2, <2>3, Zenon DEF OpenLoad, Named
  <1>13. ASSUME NEW s \in Sessions, NEW i \in Instances, NEW n \in Names, NEW txn \in BOOLEAN,
                NewSession(s, i, n, txn)
         PROVE  Typing'
    <2> DEFINE v == [st |-> "pending", cache |-> inst[i], name |-> n,
                     txn |-> txn, id |-> 0, key |-> NoKey]
    <2>1. v \in Session /\ v.st = "pending"
      BY Zenon DEF Session
    <2> HIDE DEF v
    <2>2. sess' = [sess EXCEPT ![s] = v]
      BY <1>13, Zenon DEF NewSession, v
    <2> QED
      BY <1>13, <2>1, <2>2, Zenon DEF NewSession
  <1>14. ASSUME NEW s \in Sessions, ResolveCached(s) PROVE Typing'
    <2>1. PICK e \in CachedUnder(sess[s].cache, sess[s].name) :
             \/ sess' = Unresolved(s)
             \/ sess' = ResolvedTo(s, "active", e.id, e.key)
      BY <1>14, Zenon DEF ResolveCached
    <2>2. e.name = sess[s].name /\ e.name \in Names /\ e.id \in Nat /\ e.key \in Key
      BY Zenon DEF CachedUnder, Cached
    <2>3. sess[s].st = "pending"
      BY <1>14, Zenon DEF ResolveCached
    <2>4. sess' \in [Sessions -> Session]
      BY <2>1, <2>2, ResolvedToSession, UnresolvedSession, SMTT(60)
    <2>5. /\ \A t \in Sessions \ {s} : sess'[t] = sess[t]
          /\ sess'[s].st = "pending" \/ (sess'[s].name \in Names /\ sess'[s].key \in Key)
      BY <2>1, <2>2, <2>3, ResolvedToSession, UnresolvedSession, SMTT(60)
    <2> QED
      BY <1>14, <2>4, <2>5, Zenon DEF ResolveCached
  <1>15. ASSUME NEW s \in Sessions, ResolveSelect(s) PROVE Typing'
    <2>1. \/ sess' = Unresolved(s)
          \/ \E p \in profiles :
                /\ p.name = sess[s].name
                /\ sess' = ResolvedTo(s, "loading", p.id, p.key)
      BY <1>15, Zenon DEF ResolveSelect, Named
    <2>2. sess[s].st = "pending"
      BY <1>15, Zenon DEF ResolveSelect
    <2>3. sess' \in [Sessions -> Session]
      BY <2>1, ResolvedToSession, UnresolvedSession, SMTT(30) DEF Profile
    <2>4. /\ \A t \in Sessions \ {s} : sess'[t] = sess[t]
          /\ sess'[s].st = "pending" \/ (sess'[s].name \in Names /\ sess'[s].key \in Key)
      BY <2>1, <2>2, ResolvedToSession, UnresolvedSession, SMTT(60) DEF Profile
    <2> QED
      BY <1>15, <2>3, <2>4, Zenon DEF ResolveSelect
  <1>16. ASSUME NEW s \in Sessions, ResolveAdd(s) PROVE Typing'
    <2>1. /\ sess[s].name \in Names /\ sess[s].key \in Key
          /\ sess[s].id \in Nat /\ sess[s].cache \in Nat
      BY <1>16, Zenon DEF ResolveAdd, Session
    <2>2. cached' \subseteq Cached
      BY <1>16, <2>1 DEF ResolveAdd, AddCached, Cached
    <2>3. sess' \in [Sessions -> Session]
      BY <1>16, ZenonT(60) DEF ResolveAdd, Session
    <2> QED
      BY <1>16, <2>2, <2>3 DEF ResolveAdd
  <1>17. ASSUME NEW s \in Sessions, InsertItem(s) PROVE Typing'
    <2>1. Overtake(rekeys) \subseteq Rekey
      BY Zenon DEF Overtake, Rekey
    <2>2. [pid |-> sess[s].id, key |-> sess[s].key] \in Item
      BY <1>17, Zenon DEF InsertItem, Session, Item
    <2> QED
      BY <1>17, <2>1, <2>2, Zenon DEF InsertItem
  <1>18. ASSUME NEW s \in Sessions, RemoveItems(s) PROVE Typing'
    <2>1. Overtake(rekeys) \subseteq Rekey
      BY Zenon DEF Overtake, Rekey
    <2> QED
      BY <1>18, <2>1, Zenon DEF RemoveItems
  <1>19. ASSUME NEW s \in Sessions, CloseSession(s) PROVE Typing'
    <2>1. FreeSession \in Session /\ FreeSession.st = "free"
      BY Zenon DEF FreeSession, Session
    <2>2. cached' \subseteq cached
      BY <1>19, Zenon DEF CloseSession, FreeCaches
    <2> QED
      BY <1>19, <2>1, <2>2, Zenon DEF CloseSession
  <1>20. CASE UNCHANGED vars
    BY <1>20, Zenon DEF vars
  <1> QED
    BY <1>1, <1>2, <1>3, <1>4, <1>5, <1>6, <1>7, <1>8, <1>9, <1>10, <1>11, <1>12, <1>13,
       <1>14, <1>15, <1>16, <1>17, <1>18, <1>19, <1>20, Zenon
    DEF Next, InstanceStep, CallStep, SessionStep

\* TypeOK holds in every reachable state, with any number of instances, sessions and keys.
THEOREM TypeCorrect == Spec => []TypeOK
  <1>1. Typing => TypeOK
    BY Zenon DEF Typing
  <1> QED
    BY <1>1, TypingInit, TypingNext, PTL DEF Spec

LEMMA TypingAlways == Spec => []Typing
  BY TypingInit, TypingNext, PTL DEF Spec
----------------------------------------------------------------------------
(***************************************************************************)
(* Keys and names.  Every place a profile key passes through, the table,   *)
(* a KeyCache, a call in flight or a session, has it under the name it was *)
(* made for.                                                               *)
(***************************************************************************)
KeysNamed ==
    /\ \A p \in profiles : p.key.of = p.name
    /\ \A e \in cached : e.key.of = e.name
    /\ \A c \in creates : c.key.of = c.name
    /\ \A s \in Sessions : Resolved(s) => sess[s].key.of = sess[s].name

\* Entries of AddCached are old entries or the new one.
LEMMA AddCachedEntries ==
    ASSUME NEW c, NEW n, NEW id, NEW key
    PROVE  AddCached(c, n, id, key) \subseteq
               cached \cup {[cache |-> c, name |-> n, id |-> id, key |-> key]}
  BY Zenon DEF AddCached

\* The update loop of rekey changes the wrapping of the rows it has read and nothing else.
Rewrapping(r, p, q) ==
    /\ q.name = p.name /\ q.id = p.id /\ q.key = p.key
    /\ q.wrap = IF p.id \in r.ids THEN r.wrap ELSE p.wrap

LEMMA RewrappedRow ==
    ASSUME Typing, NEW r \in rekeys, NEW p \in profiles
    PROVE  Rewrapping(r, p, IF p.id \in r.ids THEN [p EXCEPT !.wrap = r.wrap] ELSE p)
  <1>1. p \in Profile
    BY Zenon DEF Typing, TypeOK
  <1> QED
    BY <1>1, Zenon DEF Rewrapping, Profile

LEMMA RewrappedFrom ==
    ASSUME Typing, NEW r \in rekeys, NEW q \in Rewrapped(r)
    PROVE  \E p \in profiles : Rewrapping(r, p, q)
  <1>1. PICK p \in profiles : q = IF p.id \in r.ids THEN [p EXCEPT !.wrap = r.wrap] ELSE p
    BY Zenon DEF Rewrapped
  <1> QED
    BY <1>1, RewrappedRow, Zenon

LEMMA RewrappedTo ==
    ASSUME Typing, NEW r \in rekeys, NEW p \in profiles
    PROVE  \E q \in Rewrapped(r) : Rewrapping(r, p, q)
  BY RewrappedRow, Zenon DEF Rewrapped

LEMMA KeysNamedInit == Init => KeysNamed
  BY DEF Init, KeysNamed, Resolved, FreeSession

LEMMA KeysNamedNext == Typing /\ KeysNamed /\ [Next]_vars => KeysNamed'
  <1> SUFFICES ASSUME Typing, KeysNamed, [Next]_vars PROVE KeysNamed'
    BY Zenon
  <1> USE DEF KeysNamed, Resolved
  <1>1. ASSUME NEW i \in Instances, NEW n \in Names, CreateProfile(i, n) PROVE KeysNamed'
    BY <1>1, SMTT(30) DEF CreateProfile
  <1>2. ASSUME NEW i \in Instances, NEW n \in Names, RemoveProfile(i, n) PROVE KeysNamed'
    BY <1>2, Zenon DEF RemoveProfile
  <1>3. ASSUME NEW i \in Instances, NEW sk \in StoreKeys, RekeyRead(i, sk) PROVE KeysNamed'
    BY <1>3, Zenon DEF RekeyRead
  <1>4. ASSUME NEW i \in Instances, NEW n \in Names, NEW sk \in StoreKeys, OpenConfig(i, n, sk)
        PROVE  KeysNamed'
    BY <1>4, Zenon DEF OpenConfig
  <1>5. ASSUME NEW i \in Instances, CloseInstance(i) PROVE KeysNamed'
    BY <1>5, Zenon DEF CloseInstance, FreeCaches
  <1>6. ASSUME NEW c \in creates, InsertProfile(c) PROVE KeysNamed'
    <2>1. \A d \in creates' : d.key.of = d.name
      BY <1>6, SMTT(30) DEF InsertProfile, Typing, TypeOK, Create
    <2>2. \A p \in profiles' : p.key.of = p.name
      BY <1>6 DEF InsertProfile
    <2> QED
      BY <1>6, <2>1, <2>2, Zenon DEF InsertProfile
  <1>7. ASSUME NEW c \in creates, CacheProfile(c) PROVE KeysNamed'
    BY <1>7, AddCachedEntries, SMTT(30) DEF CacheProfile
  <1>8. ASSUME NEW c \in creates, DropCreate(c) PROVE KeysNamed'
    BY <1>8, Zenon DEF DropCreate
  <1>9. ASSUME NEW r \in rekeys, RekeyCommit(r) PROVE KeysNamed'
    <2>1. \A p \in profiles' : p.key.of = p.name
      BY <1>9, RewrappedFrom, SMTT(60) DEF RekeyCommit, Rewrapping
    <2> QED
      BY <1>9, <2>1, Zenon DEF RekeyCommit
  <1>10. ASSUME NEW r \in rekeys, RekeySwap(r) PROVE KeysNamed'
    BY <1>10, Zenon DEF RekeySwap, FreeCaches
  <1>11. ASSUME NEW r \in rekeys, DropRekey(r) PROVE KeysNamed'
    BY <1>11, Zenon DEF DropRekey
  <1>12. ASSUME NEW o \in opens, OpenLoad(o) PROVE KeysNamed'
    <2>1. CASE UNCHANGED <<caches, cached, inst>>
      BY <1>12, <2>1, Zenon DEF OpenLoad
    <2>2. CASE \E p \in Named(o.name) : cached' = AddCached(Len(caches) + 1, o.name, p.id, p.key)
      BY <1>12, <2>2, AddCachedEntries, SMTT(60) DEF OpenLoad, Named
    <2> QED
      BY <1>12, <2>1, <2>2, Zenon DEF OpenLoad
  <1>13. ASSUME NEW s \in Sessions, NEW i \in Instances, NEW n \in Names, NEW txn \in BOOLEAN,
                NewSession(s, i, n, txn)
         PROVE  KeysNamed'
    BY <1>13, Zenon DEF NewSession, Typing, TypeOK
  <1>14. ASSUME NEW s \in Sessions, ResolveCached(s) PROVE KeysNamed'
    <2>1. PICK e \in CachedUnder(sess[s].cache, sess[s].name) :
             \/ sess' = Unresolved(s)
             \/ sess' = ResolvedTo(s, "active", e.id, e.key)
      BY <1>14, Zenon DEF ResolveCached
    <2>2. e.key.of = sess[s].name /\ e.id \in Nat /\ e.key \in Key /\ sess[s].st = "pending"
      BY <1>14, Zenon DEF CachedUnder, ResolveCached, Typing, TypeOK, Cached
    <2>3. /\ \A t \in Sessions \ {s} : sess'[t] = sess[t]
          /\ sess'[s].st = "pending" \/ sess'[s].key.of = sess'[s].name
      BY <2>1, <2>2, ResolvedToSession, UnresolvedSession, SMTT(60)
    <2> QED
      BY <1>14, <2>3, Zenon DEF ResolveCached
  <1>15. ASSUME NEW s \in Sessions, ResolveSelect(s) PROVE KeysNamed'
    <2>1. \/ sess' = Unresolved(s)
          \/ \E p \in profiles :
                /\ p.name = sess[s].name
                /\ sess' = ResolvedTo(s, "loading", p.id, p.key)
      BY <1>15, Zenon DEF ResolveSelect, Named
    <2>2. sess[s].st = "pending"
      BY <1>15, Zenon DEF ResolveSelect
    <2>3. CASE sess' = Unresolved(s)
      <3>1. /\ \A t \in Sessions \ {s} : sess'[t] = sess[t]
            /\ sess'[s].st = "pending"
        BY <2>2, <2>3, UnresolvedSession, Zenon
      <3> QED
        BY <1>15, <3>1, Zenon DEF ResolveSelect
    <2>4. ASSUME NEW p \in profiles, p.name = sess[s].name,
                 sess' = ResolvedTo(s, "loading", p.id, p.key)
          PROVE  KeysNamed'
      <3>1. p.key.of = sess[s].name /\ p.id \in Nat /\ p.key \in Key
        BY <2>4, Zenon DEF Typing, TypeOK, Profile
      <3>2. /\ \A t \in Sessions \ {s} : sess'[t] = sess[t]
            /\ sess'[s].key.of = sess'[s].name
        BY <2>2, <2>4, <3>1, ResolvedToSession
      <3> QED
        BY <1>15, <3>2, Zenon DEF ResolveSelect
    <2> QED
      BY <2>1, <2>3, <2>4, Zenon
  <1>16. ASSUME NEW s \in Sessions, ResolveAdd(s) PROVE KeysNamed'
    BY <1>16, AddCachedEntries, SMTT(30) DEF ResolveAdd, Typing, TypeOK, Session
  <1>17. ASSUME NEW s \in Sessions, InsertItem(s) PROVE KeysNamed'
    BY <1>17, Zenon DEF InsertItem
  <1>18. ASSUME NEW s \in Sessions, RemoveItems(s) PROVE KeysNamed'
    BY <1>18, Zenon DEF RemoveItems
  <1>19. ASSUME NEW s \in Sessions, CloseSession(s) PROVE KeysNamed'
    BY <1>19, Zenon DEF CloseSession, FreeCaches, FreeSession, Typing, TypeOK
  <1>20. CASE UNCHANGED vars
    BY <1>20, Zenon DEF vars
  <1> QED
    BY <1>1, <1>2, <1>3, <1>4, <1>5, <1>6, <1>7, <1>8, <1>9, <1>10, <1>11, <1>12, <1>13,
       <1>14, <1>15, <1>16, <1>17, <1>18, <1>19, <1>20, Zenon
    DEF Next, InstanceStep, CallStep, SessionStep

\* A session works with a key made for the profile it asked for, whatever the races of
\* its KeyCache with create_profile, remove_profile, rekey and open.
THEOREM SessionKeys == Spec => []SessionKeyOfItsProfile
  <1>1. KeysNamed => SessionKeyOfItsProfile
    BY Zenon DEF KeysNamed, SessionKeyOfItsProfile, Resolved
  <1> QED
    BY <1>1, TypingAlways, KeysNamedInit, KeysNamedNext, PTL DEF Spec

-----------------------------------------------------------------------------
(***************************************************************************)
(* Profile separation on Postgres, where the ids of profiles come from a   *)
(* sequence.  The argument: an id, once given out with a key, is bound to  *)
(* that key wherever the pair is kept (the table, a KeyCache, a call in    *)
(* flight, a session), even after the row is gone.  None of this holds for *)
(* SQLite, which gives the id of a removed profile to the next one.        *)
(***************************************************************************)

Pair(id, key) == [id |-> id, key |-> key]

Bindings ==
    {Pair(p.id, p.key) : p \in profiles}
    \cup {Pair(e.id, e.key) : e \in cached}
    \cup {Pair(c.id, c.key) : c \in {c \in creates : c.id # 0}}
    \cup {Pair(sess[s].id, sess[s].key) : s \in {s \in Sessions : Resolved(s)}}

OneKeyPerId == \A a, b \in Bindings : a.id = b.id => a.key = b.key

IdsGivenOut == \A a \in Bindings : a.id <= lastId

TxnRowHeld == \A s \in Sessions : sess[s].txn /\ Resolved(s) => HasId(sess[s].id)

Separation ==
    /\ OneKeyPerId
    /\ IdsGivenOut
    /\ RowsUnderProfileKey
    /\ TxnRowHeld

\* The four places a pair is found in.
LEMMA BindingPlaces ==
    /\ \A p \in profiles : Pair(p.id, p.key) \in Bindings
    /\ \A e \in cached : Pair(e.id, e.key) \in Bindings
    /\ \A c \in creates : c.id # 0 => Pair(c.id, c.key) \in Bindings
    /\ \A s \in Sessions : Resolved(s) => Pair(sess[s].id, sess[s].key) \in Bindings
  BY Zenon DEF Bindings

LEMMA BindingCases ==
    ASSUME NEW a \in Bindings
    PROVE  \/ \E p \in profiles : a = Pair(p.id, p.key)
           \/ \E e \in cached : a = Pair(e.id, e.key)
           \/ \E c \in creates : c.id # 0 /\ a = Pair(c.id, c.key)
           \/ \E s \in Sessions : Resolved(s) /\ a = Pair(sess[s].id, sess[s].key)
  BY Zenon DEF Bindings

\* A step that moves pairs around and makes none keeps the invariant on pairs.
LEMMA PairsKept ==
    ASSUME OneKeyPerId, IdsGivenOut, Bindings' \subseteq Bindings, lastId' = lastId
    PROVE  OneKeyPerId' /\ IdsGivenOut'
  BY Zenon DEF OneKeyPerId, IdsGivenOut

\* So does one that makes a pair with the next id of the sequence.
LEMMA PairsFresh ==
    ASSUME Typing, OneKeyPerId, IdsGivenOut, NEW key,
           Bindings' \subseteq Bindings \cup {Pair(lastId + 1, key)},
           lastId' = lastId + 1,
           \A a \in Bindings : a.id \in Nat
    PROVE  OneKeyPerId' /\ IdsGivenOut'
  BY DEF OneKeyPerId, IdsGivenOut, Pair, Typing, TypeOK

LEMMA BindingIds == Typing => \A a \in Bindings : a.id \in Nat
  BY DEF Bindings, Pair, Typing, TypeOK, Profile, Cached, Create, Session

LEMMA SeparationInit == Init => Separation
  <1> SUFFICES ASSUME Init PROVE Separation
    BY Zenon
  <1>1. PICK n \in Names : \A a \in Bindings : a = Pair(1, [of |-> n, no |-> 1])
    BY DEF Init, Bindings, FreeSession, Resolved
  <1> QED
    BY <1>1 DEF Init, Separation, OneKeyPerId, IdsGivenOut, RowsUnderProfileKey, TxnRowHeld,
                Pair, FreeSession, Resolved

\* What a step leaves alone when it touches neither the tables nor the sessions.
LEMMA TablesKept ==
    ASSUME UNCHANGED <<profiles, items, sess>>
    PROVE  (RowsUnderProfileKey => RowsUnderProfileKey') /\ (TxnRowHeld => TxnRowHeld')
  BY Zenon DEF RowsUnderProfileKey, TxnRowHeld, HasId, Resolved

LEMMA SeparationNext ==
    ASSUME Backend = "postgres"
    PROVE  Typing /\ Separation /\ [Next]_vars => Separation'
  <1> SUFFICES ASSUME Typing, Separation, [Next]_vars PROVE Separation'
    BY Zenon
  <1>a. OneKeyPerId /\ IdsGivenOut /\ RowsUnderProfileKey /\ TxnRowHeld
    BY Zenon DEF Separation
  <1>b. SUFFICES /\ OneKeyPerId' /\ IdsGivenOut'
                 /\ RowsUnderProfileKey' /\ TxnRowHeld'
    BY Zenon DEF Separation
  <1> DEFINE Goal == OneKeyPerId' /\ IdsGivenOut' /\ RowsUnderProfileKey' /\ TxnRowHeld'
  <1>c. ~Sqlite
    BY Zenon DEF Sqlite
  <1>1. ASSUME NEW i \in Instances, NEW n \in Names, CreateProfile(i, n) PROVE Goal
    <2>1. Bindings' \subseteq Bindings
      BY <1>1 DEF CreateProfile, Bindings, Resolved
    <2> QED
      BY <1>1, <2>1, <1>a, PairsKept, TablesKept, Zenon DEF CreateProfile
  <1>2. ASSUME NEW i \in Instances, NEW n \in Names, RemoveProfile(i, n) PROVE Goal
    <2>1. PICK p \in profiles : /\ ~RowLocked(p.id)
                                /\ profiles' = profiles \ {p}
                                /\ items' = {x \in items : x.pid # p.id}
      BY <1>2, Zenon DEF RemoveProfile, Named
    <2>2. Bindings' \subseteq Bindings
      BY <1>2, <2>1, Zenon DEF RemoveProfile, Bindings, Resolved
    <2>3. RowsUnderProfileKey'
      BY <1>a, <2>1, Zenon DEF RowsUnderProfileKey
    <2>4. TxnRowHeld'
      BY <1>a, <1>c, <1>2, <2>1, Zenon DEF TxnRowHeld, RowLocked, RemoveProfile, HasId, Resolved
    <2> QED
      BY <1>2, <2>2, <2>3, <2>4, <1>a, PairsKept, Zenon DEF RemoveProfile
  <1>3. ASSUME NEW i \in Instances, NEW sk \in StoreKeys, RekeyRead(i, sk) PROVE Goal
    <2>1. Bindings' \subseteq Bindings
      BY <1>3, Zenon DEF RekeyRead, Bindings, Resolved
    <2> QED
      BY <1>3, <2>1, <1>a, PairsKept, TablesKept, Zenon DEF RekeyRead
  <1>4. ASSUME NEW i \in Instances, NEW n \in Names, NEW sk \in StoreKeys, OpenConfig(i, n, sk)
        PROVE  Goal
    <2>1. Bindings' \subseteq Bindings
      BY <1>4, Zenon DEF OpenConfig, Bindings, Resolved
    <2> QED
      BY <1>4, <2>1, <1>a, PairsKept, TablesKept, Zenon DEF OpenConfig
  <1>5. ASSUME NEW i \in Instances, CloseInstance(i) PROVE Goal
    <2>1. Bindings' \subseteq Bindings
      BY <1>5, Zenon DEF CloseInstance, FreeCaches, Bindings, Resolved
    <2> QED
      BY <1>5, <2>1, <1>a, PairsKept, TablesKept, Zenon DEF CloseInstance
  <1>6. ASSUME NEW c \in creates, InsertProfile(c) PROVE Goal
    <2>1. CASE creates' = creates \ {c} /\ UNCHANGED <<profiles, lastId, rekeys>>
      <3>1. Bindings' \subseteq Bindings
        BY <1>6, <2>1, Zenon DEF InsertProfile, Bindings, Resolved
      <3> QED
        BY <1>6, <2>1, <3>1, <1>a, PairsKept, TablesKept, Zenon DEF InsertProfile
    <2>2. CASE /\ profiles' = profiles \cup {[name |-> c.name, id |-> lastId + 1,
                                              key |-> c.key, wrap |-> c.wrap]}
               /\ creates' = (creates \ {c}) \cup {[c EXCEPT !.id = lastId + 1]}
               /\ lastId' = lastId + 1
      <3>1. /\ [c EXCEPT !.id = lastId + 1].id = lastId + 1
            /\ [c EXCEPT !.id = lastId + 1].key = c.key
        BY Zenon DEF Typing, TypeOK, Create
      <3>2. Bindings' \subseteq Bindings \cup {Pair(lastId + 1, c.key)}
        <4>1. \A p \in profiles' : p \in profiles \/ (p.id = lastId + 1 /\ p.key = c.key)
          BY <2>2
        <4>2. \A d \in creates' : d \in creates \/ (d.id = lastId + 1 /\ d.key = c.key)
          BY <2>2, <3>1, Zenon
        <4> QED
          BY <1>6, <4>1, <4>2, Zenon DEF InsertProfile, Bindings, Resolved
      <3>3. OneKeyPerId' /\ IdsGivenOut'
        BY <2>2, <3>2, <1>a, PairsFresh, BindingIds, Zenon
      <3>4. RowsUnderProfileKey' /\ TxnRowHeld'
        BY <1>a, <1>6, <2>2, Zenon DEF InsertProfile, RowsUnderProfileKey, TxnRowHeld, HasId, Resolved
      <3> QED
        BY <3>3, <3>4, Zenon
    <2> QED
      BY <1>6, <1>c, <2>1, <2>2, Zenon DEF InsertProfile, FreshIds
  <1>7. ASSUME NEW c \in creates, CacheProfile(c) PROVE Goal
    <2>1. Bindings' \subseteq Bindings
      BY <1>7, AddCachedEntries DEF CacheProfile, Bindings, Resolved
    <2> QED
      BY <1>7, <2>1, <1>a, PairsKept, TablesKept, Zenon DEF CacheProfile
  <1>8. ASSUME NEW c \in creates, DropCreate(c) PROVE Goal
    <2>1. Bindings' \subseteq Bindings
      BY <1>8, Zenon DEF DropCreate, Bindings, Resolved
    <2> QED
      BY <1>8, <2>1, <1>a, PairsKept, TablesKept, Zenon DEF DropCreate
  <1>9. ASSUME NEW r \in rekeys, RekeyCommit(r) PROVE Goal
    <2>1. \/ profiles' = profiles
          \/ profiles' = Rewrapped(r)
      BY <1>9, Zenon DEF RekeyCommit
    <2>2. \A q \in profiles' : \E p \in profiles : q.id = p.id /\ q.key = p.key
      BY <2>1, RewrappedFrom, ZenonT(60) DEF Rewrapping
    <2>3. \A p \in profiles : \E q \in profiles' : q.id = p.id /\ q.key = p.key
      BY <2>1, RewrappedTo, ZenonT(60) DEF Rewrapping
    <2>4. Bindings' \subseteq Bindings
      BY <1>9, <2>2, ZenonT(60) DEF RekeyCommit, Bindings, Resolved
    <2>5. RowsUnderProfileKey'
      BY <1>a, <1>9, <2>3 DEF RekeyCommit, RowsUnderProfileKey
    <2>6. TxnRowHeld'
      BY <1>a, <1>9, <2>3 DEF RekeyCommit, TxnRowHeld, HasId, Resolved
    <2> QED
      BY <1>9, <2>4, <2>5, <2>6, <1>a, PairsKept, Zenon DEF RekeyCommit
  <1>10. ASSUME NEW r \in rekeys, RekeySwap(r) PROVE Goal
    <2>1. Bindings' \subseteq Bindings
      BY <1>10, Zenon DEF RekeySwap, FreeCaches, Bindings, Resolved
    <2> QED
      BY <1>10, <2>1, <1>a, PairsKept, TablesKept, Zenon DEF RekeySwap
  <1>11. ASSUME NEW r \in rekeys, DropRekey(r) PROVE Goal
    <2>1. Bindings' \subseteq Bindings
      BY <1>11, Zenon DEF DropRekey, Bindings, Resolved
    <2> QED
      BY <1>11, <2>1, <1>a, PairsKept, TablesKept, Zenon DEF DropRekey
  <1>12. ASSUME NEW o \in opens, OpenLoad(o) PROVE Goal
    <2>1. \/ cached' = cached
          \/ \E p \in profiles : cached' = AddCached(Len(caches) + 1, o.name, p.id, p.key)
      BY <1>12, Zenon DEF OpenLoad, Named
    <2>2. Bindings' \subseteq Bindings
      BY <1>12, <2>1, AddCachedEntries DEF OpenLoad, Bindings, Resolved
    <2> QED
      BY <1>12, <2>2, <1>a, PairsKept, TablesKept, Zenon DEF OpenLoad
  <1>13. ASSUME NEW s \in Sessions, NEW i \in Instances, NEW n \in Names, NEW txn \in BOOLEAN,
                NewSession(s, i, n, txn)
         PROVE  Goal
    <2>1. \A t \in Sessions : Resolved(t)' => sess'[t] = sess[t] /\ Resolved(t)
      BY <1>13, Zenon DEF NewSession, Resolved, Typing, TypeOK
    <2>2. Bindings' \subseteq Bindings
      BY <1>13, <2>1, Zenon DEF NewSession, Bindings
    <2>3. TxnRowHeld' /\ RowsUnderProfileKey'
      BY <1>a, <1>13, <2>1, SMTT(30) DEF NewSession, TxnRowHeld, RowsUnderProfileKey, HasId
    <2> QED
      BY <1>13, <2>2, <2>3, <1>a, PairsKept, Zenon DEF NewSession
  <1>14. ASSUME NEW s \in Sessions, ResolveCached(s) PROVE Goal
    <2>1. PICK e \in cached :
             \/ sess' = Unresolved(s)
             \/ /\ sess' = ResolvedTo(s, "active", e.id, e.key)
                /\ sess[s].txn => HasId(e.id)
      BY <1>14, <1>c, Zenon DEF ResolveCached, CachedUnder
    <2>2. sess[s].st = "pending" /\ e.id \in Nat /\ e.key \in Key
      BY <1>14, Zenon DEF ResolveCached, Typing, TypeOK, Cached
    <2>3. /\ \A t \in Sessions \ {s} : sess'[t] = sess[t]
          /\ \/ sess'[s].st = "pending"
             \/ /\ sess'[s].id = e.id /\ sess'[s].key = e.key
                /\ sess'[s].txn => HasId(e.id)
      BY <2>1, <2>2, ResolvedToSession, UnresolvedSession, SMTT(60)
    <2>4. Bindings' \subseteq Bindings
      <3>1. \A t \in Sessions : Resolved(t)' =>
               \/ Resolved(t) /\ sess'[t] = sess[t]
               \/ sess'[t].id = e.id /\ sess'[t].key = e.key
        BY <2>3, Zenon DEF Resolved
      <3> QED
        BY <1>14, <3>1 DEF ResolveCached, Bindings
    <2>5. TxnRowHeld' /\ RowsUnderProfileKey'
      BY <1>a, <1>14, <2>3, ZenonT(60)
      DEF ResolveCached, TxnRowHeld, RowsUnderProfileKey, HasId, Resolved
    <2> QED
      BY <1>14, <2>4, <2>5, <1>a, PairsKept, Zenon DEF ResolveCached
  <1>15. ASSUME NEW s \in Sessions, ResolveSelect(s) PROVE Goal
    <2>1. \/ sess' = Unresolved(s)
          \/ \E p \in profiles : sess' = ResolvedTo(s, "loading", p.id, p.key)
      BY <1>15, Zenon DEF ResolveSelect, Named
    <2>2. sess[s].st = "pending" /\ \A p \in profiles : p.id \in Nat /\ p.key \in Key
      BY <1>15, Zenon DEF ResolveSelect, Typing, TypeOK, Profile
    <2>3. /\ \A t \in Sessions \ {s} : sess'[t] = sess[t]
          /\ \/ sess'[s].st = "pending"
             \/ \E p \in profiles : sess'[s].id = p.id /\ sess'[s].key = p.key
      <3>1. CASE sess' = Unresolved(s)
        BY <2>2, <3>1, UnresolvedSession, Zenon
      <3>2. ASSUME NEW p \in profiles, sess' = ResolvedTo(s, "loading", p.id, p.key)
            PROVE  /\ \A t \in Sessions \ {s} : sess'[t] = sess[t]
                   /\ sess'[s].id = p.id /\ sess'[s].key = p.key
        BY <2>2, <3>2, ResolvedToSession, SMTT(60)
      <3> QED
        BY <2>1, <3>1, <3>2, Zenon
    <2>4. Bindings' \subseteq Bindings
      BY <1>15, <2>3, ZenonT(60) DEF ResolveSelect, Bindings, Resolved
    <2>5. TxnRowHeld' /\ RowsUnderProfileKey'
      BY <1>a, <1>15, <2>3, ZenonT(60) DEF ResolveSelect, TxnRowHeld, RowsUnderProfileKey, HasId, Resolved
    <2> QED
      BY <1>15, <2>4, <2>5, <1>a, PairsKept, Zenon DEF ResolveSelect
  <1>16. ASSUME NEW s \in Sessions, ResolveAdd(s) PROVE Goal
    <2>1. /\ Resolved(s)
          /\ \A t \in Sessions : /\ Resolved(t)' => Resolved(t)
                                 /\ sess'[t].id = sess[t].id
                                 /\ sess'[t].key = sess[t].key
                                 /\ sess'[t].txn = sess[t].txn
      BY <1>16, Zenon DEF ResolveAdd, Resolved, Typing, TypeOK, Session
    <2>2. Bindings' \subseteq Bindings
      BY <1>16, <2>1, AddCachedEntries DEF ResolveAdd, Bindings
    <2>3. TxnRowHeld' /\ RowsUnderProfileKey'
      BY <1>a, <1>16, <2>1, ZenonT(60) DEF ResolveAdd, TxnRowHeld, RowsUnderProfileKey, HasId
    <2> QED
      BY <1>16, <2>2, <2>3, <1>a, PairsKept, Zenon DEF ResolveAdd
  <1>17. ASSUME NEW s \in Sessions, InsertItem(s) PROVE Goal
    <2>1. PICK p \in profiles : p.id = sess[s].id
      BY <1>17, Zenon DEF InsertItem, HasId
    <2>2. p.key = sess[s].key
      BY <1>a, <1>17, <2>1, BindingPlaces, ZenonT(60) DEF InsertItem, OneKeyPerId, Pair, Resolved
    <2>3. Bindings' \subseteq Bindings
      BY <1>17, Zenon DEF InsertItem, Bindings, Resolved
    <2>4. TxnRowHeld' /\ RowsUnderProfileKey'
      BY <1>a, <1>17, <2>1, <2>2
      DEF InsertItem, TxnRowHeld, RowsUnderProfileKey, HasId, Resolved
    <2> QED
      BY <1>17, <2>3, <2>4, <1>a, PairsKept, Zenon DEF InsertItem
  <1>18. ASSUME NEW s \in Sessions, RemoveItems(s) PROVE Goal
    <2>1. Bindings' \subseteq Bindings
      BY <1>18, Zenon DEF RemoveItems, Bindings, Resolved
    <2>2. TxnRowHeld' /\ RowsUnderProfileKey'
      BY <1>a, <1>18, Zenon DEF RemoveItems, TxnRowHeld, RowsUnderProfileKey, HasId, Resolved
    <2> QED
      BY <1>18, <2>1, <2>2, <1>a, PairsKept, Zenon DEF RemoveItems
  <1>19. ASSUME NEW s \in Sessions, CloseSession(s) PROVE Goal
    <2>1. \A t \in Sessions : Resolved(t)' => sess'[t] = sess[t] /\ Resolved(t)
      BY <1>19, Zenon DEF CloseSession, FreeSession, Resolved, Typing, TypeOK
    <2>2. Bindings' \subseteq Bindings
      BY <1>19, <2>1, Zenon DEF CloseSession, FreeCaches, Bindings
    <2>3. TxnRowHeld' /\ RowsUnderProfileKey'
      BY <1>a, <1>19, <2>1 DEF CloseSession, TxnRowHeld, RowsUnderProfileKey, HasId
    <2> QED
      BY <1>19, <2>2, <2>3, <1>a, PairsKept, Zenon DEF CloseSession
  <1>20. CASE UNCHANGED vars
    <2>1. Bindings' = Bindings
      BY <1>20, Zenon DEF vars, Bindings, Resolved
    <2> QED
      BY <1>20, <2>1, <1>a, PairsKept, TablesKept, Zenon DEF vars
  <1> QED
    BY <1>1, <1>2, <1>3, <1>4, <1>5, <1>6, <1>7, <1>8, <1>9, <1>10, <1>11, <1>12, <1>13,
       <1>14, <1>15, <1>16, <1>17, <1>18, <1>19, <1>20, Zenon
    DEF Next, InstanceStep, CallStep, SessionStep

LEMMA SeparationAlways ==
    ASSUME Backend = "postgres" PROVE Spec => []Separation
  BY TypingAlways, SeparationInit, SeparationNext, PTL DEF Spec

\* Postgres: every item is encrypted under the key of the profile its row belongs to.
THEOREM RowsSeparated ==
    ASSUME Backend = "postgres" PROVE Spec => []RowsUnderProfileKey
  <1>1. Separation => RowsUnderProfileKey
    BY Zenon DEF Separation
  <1> QED
    BY <1>1, SeparationAlways, PTL

\* Postgres: the profile a session's ping finds is the one the session resolved.
THEOREM PingFindsOwnProfile ==
    ASSUME Backend = "postgres" PROVE Spec => []PingTruthful
  <1>1. Separation => PingTruthful
    BY BindingPlaces, Zenon DEF Separation, OneKeyPerId, PingTruthful, Pair, Resolved
  <1> QED
    BY <1>1, SeparationAlways, PTL

\* Postgres: the profile of a transaction session stays for as long as the session.
THEOREM TxnHoldsProfile ==
    ASSUME Backend = "postgres" PROVE Spec => []TxnProfilePresent
  <1>1. Separation => TxnProfilePresent
    BY Zenon DEF Separation, TxnRowHeld, TxnProfilePresent, Resolved
  <1> QED
    BY <1>1, SeparationAlways, PTL

-----------------------------------------------------------------------------
(***************************************************************************)
(* rekey on SQLite is all or nothing, and loses no profile.  The argument: *)
(* a rekey whose read snapshot is not stale has read every row there is,   *)
(* so its commit rewraps the whole table; and as long as no instance was   *)
(* left behind, whatever is about to write a row (an open instance, a call *)
(* of create_profile) wraps keys under the store key of the config.  On    *)
(* Postgres the first half fails: READ COMMITTED lets a profile in between *)
(* the read and the update.                                                *)
(***************************************************************************)

\* A transaction that can still commit has read the ids that are in the table.
SnapshotCurrent ==
    \A r \in rekeys : ~r.done /\ ~r.stale => r.ids = {p.id : p \in profiles}

\* Keys are fresh: no two rows share one, and one about to be inserted is in no row.
KeysDistinct ==
    /\ \A p, q \in profiles : p.key = q.key => p = q
    /\ \A p \in profiles : p.key.no < nextKey
    /\ \A c \in creates : c.key.no < nextKey
    /\ \A c, d \in creates : c.key = d.key => c = d
    /\ \A c \in creates : c.id = 0 => \A p \in profiles : p.key # c.key

\* Until the rekey of an instance has put a new KeyCache in place, the instance is
\* between two store keys; every other writer agrees with the config.
Swapping(i) == \E r \in rekeys : r.inst = i /\ r.done

UnderConfig ==
    /\ \A p \in profiles : p.wrap = config
    /\ \A i \in Instances : inst[i] # Closed /\ ~Swapping(i) => StoreKey(i) = config
    /\ \A c \in creates : c.wrap = config
    /\ \A r \in rekeys : r.done => r.wrap = config

RekeyInv == SnapshotCurrent /\ KeysDistinct /\ (~tainted => UnderConfig)

LEMMA RekeyInit == Init => RekeyInv
  <1> SUFFICES ASSUME Init PROVE RekeyInv
    BY Zenon
  <1> PICK i \in Instances, n \in Names, sk \in StoreKeys :
          /\ profiles = {[name |-> n, id |-> 1, key |-> [of |-> n, no |-> 1], wrap |-> sk]}
          /\ config = sk
          /\ caches = <<sk>>
          /\ inst = [j \in Instances |-> IF j = i THEN 1 ELSE Closed]
    BY Zenon DEF Init
  <1>1. creates = {} /\ rekeys = {} /\ nextKey = 2
    BY Zenon DEF Init
  <1>2. SnapshotCurrent /\ KeysDistinct
    BY <1>1 DEF SnapshotCurrent, KeysDistinct
  <1>3. UnderConfig
    BY <1>1 DEF UnderConfig, StoreKey
  <1> QED
    BY <1>2, <1>3, Zenon DEF RekeyInv

\* A write makes every rekey transaction that is not committed stale, and changes
\* nothing else about it.
LEMMA Overtaken ==
    ASSUME Typing, Backend = "sqlite", NEW calls \in SUBSET rekeys, NEW q \in Overtake(calls)
    PROVE  /\ ~q.done => q.stale
           /\ \E r \in calls : q.inst = r.inst /\ q.done = r.done /\ q.wrap = r.wrap
  <1>1. PICK r \in calls : q = [r EXCEPT !.stale = r.stale \/ (Sqlite /\ ~r.done)]
    BY Zenon DEF Overtake
  <1>2. r \in Rekey /\ Sqlite
    BY Zenon DEF Typing, TypeOK, Sqlite
  <1>3. q = [r EXCEPT !.stale = r.stale \/ ~r.done]
    BY <1>1, <1>2, Zenon
  <1>4. q.inst = r.inst /\ q.done = r.done /\ q.wrap = r.wrap /\ q.stale = (r.stale \/ ~r.done)
    BY <1>2, <1>3, Zenon DEF Rekey
  <1> QED
    BY <1>4, Zenon

LEMMA OvertakenFrom ==
    ASSUME Typing, NEW calls \in SUBSET rekeys, NEW r \in calls
    PROVE  \E q \in Overtake(calls) : q.inst = r.inst /\ q.done = r.done /\ q.wrap = r.wrap
  <1> DEFINE q == [r EXCEPT !.stale = r.stale \/ (Sqlite /\ ~r.done)]
  <1>1. q \in Overtake(calls)
    BY Zenon DEF Overtake
  <1>2. r \in Rekey
    BY Zenon DEF Typing, TypeOK
  <1>3. q.inst = r.inst /\ q.done = r.done /\ q.wrap = r.wrap
    BY <1>2, Zenon DEF Rekey
  <1> QED
    BY <1>1, <1>3, Zenon

\* After a write by somebody else: no snapshot is current any more, and who is between
\* two store keys is unchanged.
LEMMA WriteOvertakes ==
    ASSUME Typing, Backend = "sqlite", rekeys' = Overtake(rekeys)
    PROVE  /\ SnapshotCurrent'
           /\ \A q \in rekeys' : q.done => \E r \in rekeys : r.done /\ r.wrap = q.wrap
           /\ \A i \in Instances : Swapping(i)' <=> Swapping(i)
  <1>1. SnapshotCurrent'
    BY Overtaken, Zenon DEF SnapshotCurrent
  <1>2. \A q \in rekeys' : q.done => \E r \in rekeys : r.done /\ r.wrap = q.wrap
    BY Overtaken, Zenon
  <1>3. \A i \in Instances : Swapping(i)' <=> Swapping(i)
    BY Overtaken, OvertakenFrom DEF Swapping
  <1> QED
    BY <1>1, <1>2, <1>3, Zenon

\* Steps that touch none of what RekeyInv is about.
LEMMA RekeyUntouched ==
    ASSUME RekeyInv,
           UNCHANGED <<profiles, config, nextKey, caches, inst, creates, rekeys, tainted>>
    PROVE  RekeyInv'
  BY Zenon DEF RekeyInv, SnapshotCurrent, KeysDistinct, UnderConfig, Swapping, StoreKey

\* Item writes overtake the snapshots and touch nothing else of it.
LEMMA RekeyItemWrite ==
    ASSUME Typing, RekeyInv, Backend = "sqlite", rekeys' = Overtake(rekeys),
           UNCHANGED <<profiles, config, nextKey, caches, inst, creates, tainted>>
    PROVE  RekeyInv'
  <1>1. KeysDistinct'
    BY Zenon DEF RekeyInv, KeysDistinct
  <1>2. ASSUME ~tainted' PROVE UnderConfig'
    BY <1>2, WriteOvertakes, Zenon DEF RekeyInv, UnderConfig, StoreKey
  <1> QED
    BY <1>1, <1>2, WriteOvertakes DEF RekeyInv

LEMMA RekeyNext ==
    ASSUME Backend = "sqlite"
    PROVE  Typing /\ RekeyInv /\ [Next]_vars => RekeyInv'
  <1> SUFFICES ASSUME Typing, RekeyInv, [Next]_vars PROVE RekeyInv'
    BY Zenon
  <1>a. SnapshotCurrent /\ KeysDistinct /\ (~tainted => UnderConfig)
    BY Zenon DEF RekeyInv
  <1>b. SUFFICES SnapshotCurrent' /\ KeysDistinct' /\ (~tainted' => UnderConfig')
    BY Zenon DEF RekeyInv
  <1> DEFINE Goal == SnapshotCurrent' /\ KeysDistinct' /\ (~tainted' => UnderConfig')
  <1>c. Sqlite /\ nextKey \in Nat
    BY Zenon DEF Sqlite, Typing, TypeOK
  <1>1. ASSUME NEW i \in Instances, NEW n \in Names, CreateProfile(i, n) PROVE Goal
    <2>1. SnapshotCurrent'
      BY <1>a, <1>1, Zenon DEF CreateProfile, SnapshotCurrent
    <2>2. \A x \in profiles \cup creates : x.key.no \in Nat
      BY Zenon DEF Typing, TypeOK, Profile, Create, Key
    <2>3. KeysDistinct'
      BY <1>a, <1>c, <1>1, <2>2 DEF CreateProfile, KeysDistinct
    <2>4. ASSUME ~tainted' PROVE UnderConfig'
      BY <1>a, <1>1, <2>4
      DEF CreateProfile, UnderConfig, Swapping, StoreKey, Shared, Exclusive
    <2> QED
      BY <2>1, <2>3, <2>4, Zenon
  <1>2. ASSUME NEW i \in Instances, NEW n \in Names, RemoveProfile(i, n) PROVE Goal
    <2>1. rekeys' = Overtake(rekeys) /\ profiles' \subseteq profiles
      BY <1>2, Zenon DEF RemoveProfile
    <2>2. KeysDistinct'
      BY <1>a, <1>2, <2>1, ZenonT(60) DEF RemoveProfile, KeysDistinct
    <2>3. ASSUME ~tainted' PROVE UnderConfig'
      BY <1>a, <1>2, <2>1, <2>3, WriteOvertakes DEF RemoveProfile, UnderConfig, StoreKey
    <2> QED
      BY <2>1, <2>2, <2>3, WriteOvertakes, Zenon
  <1>3. ASSUME NEW i \in Instances, NEW sk \in StoreKeys, RekeyRead(i, sk) PROVE Goal
    <2>1. SnapshotCurrent'
      BY <1>a, <1>3 DEF RekeyRead, SnapshotCurrent
    <2>2. KeysDistinct'
      BY <1>a, <1>3, ZenonT(60) DEF RekeyRead, KeysDistinct
    <2>3. ASSUME ~tainted' PROVE UnderConfig'
      BY <1>a, <1>3, <2>3, SMTT(60) DEF RekeyRead, UnderConfig, StoreKey, Swapping
    <2> QED
      BY <2>1, <2>2, <2>3, Zenon
  <1>4. ASSUME NEW i \in Instances, NEW n \in Names, NEW sk \in StoreKeys, OpenConfig(i, n, sk)
        PROVE  Goal
    BY <1>4, RekeyUntouched DEF OpenConfig, RekeyInv
  <1>5. ASSUME NEW i \in Instances, CloseInstance(i) PROVE Goal
    <2>1. SnapshotCurrent' /\ KeysDistinct'
      BY <1>a, <1>5 DEF CloseInstance, SnapshotCurrent, KeysDistinct
    <2>2. ASSUME ~tainted' PROVE UnderConfig'
      BY <1>a, <1>5, <2>2, Zenon
      DEF CloseInstance, UnderConfig, StoreKey, Swapping, Closed, Typing, TypeOK
    <2> QED
      BY <2>1, <2>2, ZenonT(60)
  <1>6. ASSUME NEW c \in creates, InsertProfile(c) PROVE Goal
    <2>1. CASE creates' = creates \ {c} /\ UNCHANGED <<profiles, lastId, rekeys>>
      <3>1. SnapshotCurrent' /\ KeysDistinct'
        BY <1>a, <1>6, <2>1, Zenon DEF InsertProfile, SnapshotCurrent, KeysDistinct
      <3>2. ASSUME ~tainted' PROVE UnderConfig'
        BY <1>a, <1>6, <2>1, <3>2, Zenon DEF InsertProfile, UnderConfig, StoreKey, Swapping
      <3> QED
        BY <3>1, <3>2, Zenon
    <2>2. ASSUME NEW id \in FreshIds,
                 profiles' = profiles \cup
                   {[name |-> c.name, id |-> id, key |-> c.key, wrap |-> c.wrap]},
                 creates' = (creates \ {c}) \cup {[c EXCEPT !.id = id]},
                 rekeys' = Overtake(rekeys)
          PROVE  Goal
      <3>1. /\ [c EXCEPT !.id = id].id = id /\ id # 0
            /\ [c EXCEPT !.id = id].key = c.key
            /\ [c EXCEPT !.id = id].wrap = c.wrap
        BY <1>c DEF Typing, TypeOK, Create, FreshIds
      <3>2. c.id = 0 /\ UNCHANGED <<config, nextKey, caches, inst, tainted>>
        BY <1>6, Zenon DEF InsertProfile
      <3> DEFINE row == [name |-> c.name, id |-> id, key |-> c.key, wrap |-> c.wrap]
                 call == [c EXCEPT !.id = id]
      <3>3. /\ profiles' = profiles \cup {row} /\ row.key = c.key /\ row.wrap = c.wrap
            /\ creates' = (creates \ {c}) \cup {call}
            /\ call.id # 0 /\ call.key = c.key /\ call.wrap = c.wrap
        BY <2>2, <3>1, Zenon
      <3> HIDE DEF row, call
      <3>4. KeysDistinct'
        BY <1>a, <3>2, <3>3 DEF KeysDistinct
      <3>5. ASSUME ~tainted' PROVE UnderConfig'
        BY <1>a, <2>2, <3>2, <3>3, <3>5, WriteOvertakes DEF UnderConfig, StoreKey
      <3> QED
        BY <2>2, <3>4, <3>5, WriteOvertakes, Zenon
    <2> QED
      BY <1>6, <2>1, <2>2, Zenon DEF InsertProfile
  <1>7. ASSUME NEW c \in creates, CacheProfile(c) PROVE Goal
    <2>1. SnapshotCurrent' /\ KeysDistinct'
      BY <1>a, <1>7, Zenon DEF CacheProfile, SnapshotCurrent, KeysDistinct
    <2>2. ASSUME ~tainted' PROVE UnderConfig'
      BY <1>a, <1>7, <2>2, Zenon DEF CacheProfile, UnderConfig, StoreKey, Swapping
    <2> QED
      BY <2>1, <2>2, Zenon
  <1>8. ASSUME NEW c \in creates, DropCreate(c) PROVE Goal
    <2>1. SnapshotCurrent' /\ KeysDistinct'
      BY <1>a, <1>8, Zenon DEF DropCreate, SnapshotCurrent, KeysDistinct
    <2>2. ASSUME ~tainted' PROVE UnderConfig'
      BY <1>a, <1>8, <2>2, Zenon DEF DropCreate, UnderConfig, StoreKey, Swapping
    <2> QED
      BY <2>1, <2>2, Zenon
  <1>9. ASSUME NEW r \in rekeys, RekeyCommit(r) PROVE Goal
    <2>1. CASE rekeys' = rekeys \ {r} /\ UNCHANGED <<profiles, config, tainted>>
      <3>1. SnapshotCurrent' /\ KeysDistinct'
        BY <1>a, <1>9, <2>1, Zenon DEF RekeyCommit, SnapshotCurrent, KeysDistinct
      <3>2. ASSUME ~tainted' PROVE UnderConfig'
        BY <1>a, <1>9, <2>1, <3>2, Zenon DEF RekeyCommit, UnderConfig, StoreKey, Swapping
      <3> QED
        BY <3>1, <3>2, Zenon
    <2>2. ASSUME ~RekeyFails(r),
                 profiles' = Rewrapped(r),
                 config' = r.wrap,
                 rekeys' = Overtake(rekeys \ {r}) \cup {[r EXCEPT !.done = TRUE, !.ids = {}]},
                 tainted' = (tainted \/ LeavesStale(r))
          PROVE  Goal
      <3> DEFINE call == [r EXCEPT !.done = TRUE, !.ids = {}]
      <3>1. call.done /\ call.inst = r.inst /\ call.wrap = r.wrap
        BY Zenon DEF Typing, TypeOK, Rekey
      <3> HIDE DEF call
      <3>2. rekeys' = Overtake(rekeys \ {r}) \cup {call}
        BY <2>2, Zenon DEF call
      <3>3. UNCHANGED <<nextKey, caches, inst, creates>> /\ ~r.done
        BY <1>9, Zenon DEF RekeyCommit
      <3>4. \A q \in profiles' : \E p \in profiles : Rewrapping(r, p, q)
        BY <2>2, RewrappedFrom, Zenon
      <3>5. SnapshotCurrent'
        BY <3>1, <3>2, Overtaken, Zenon DEF SnapshotCurrent
      <3>6. KeysDistinct'
        <4>1. ASSUME NEW q1 \in profiles', NEW q2 \in profiles', q1.key = q2.key PROVE q1 = q2
          <5> DEFINE f(p) == IF p.id \in r.ids THEN [p EXCEPT !.wrap = r.wrap] ELSE p
          <5>1. PICK p1 \in profiles, p2 \in profiles : q1 = f(p1) /\ q2 = f(p2)
            BY <2>2, Zenon DEF Rewrapped
          <5>2. f(p1).key = p1.key /\ f(p2).key = p2.key
            BY RewrappedRow, Zenon DEF Rewrapping
          <5> HIDE DEF f
          <5>3. p1 = p2
            BY <1>a, <4>1, <5>1, <5>2, Zenon DEF KeysDistinct
          <5> QED
            BY <5>1, <5>3, Zenon
        <4> QED
          BY <1>a, <3>3, <3>4, <4>1 DEF KeysDistinct, Rewrapping
      <3>7. \A p \in profiles : p.id \in r.ids
        BY <1>a, <2>2, <3>3, Zenon DEF SnapshotCurrent, RekeyFails
      <3>8. ASSUME ~tainted' PROVE UnderConfig'
        <4>1. ~LeavesStale(r)
          BY <2>2, <3>8, Zenon
        <4>2. \A p \in profiles' : p.wrap = config'
          BY <2>2, <3>4, <3>7, Zenon DEF Rewrapping
        <4>3. \A i \in Instances : inst'[i] # Closed /\ ~Swapping(i)' => StoreKey(i)' = config'
          BY <2>2, <3>1, <3>2, <3>3, <4>1, Zenon DEF LeavesStale, Swapping, StoreKey
        <4>4. \A c \in creates' : c.wrap = config'
          BY <2>2, <3>3, <4>1, Zenon DEF LeavesStale
        <4>5. \A q \in rekeys' : q.done => q.wrap = config'
          BY <2>2, <3>1, <3>2, <4>1, Overtaken DEF LeavesStale
        <4> QED
          BY <4>2, <4>3, <4>4, <4>5, Zenon DEF UnderConfig
      <3> QED
        BY <3>5, <3>6, <3>8, Zenon
    <2> QED
      BY <1>9, <2>1, <2>2, Zenon DEF RekeyCommit
  <1>10. ASSUME NEW r \in rekeys, RekeySwap(r) PROVE Goal
    <2>1. SnapshotCurrent' /\ KeysDistinct'
      BY <1>a, <1>10, Zenon DEF RekeySwap, SnapshotCurrent, KeysDistinct
    <2>2. ASSUME ~tainted' PROVE UnderConfig'
      <3>1. UnderConfig
        BY <1>a, <1>10, <2>2, Zenon DEF RekeySwap
      <3>2. r.inst \in Instances /\ r.wrap = config
        BY <1>10, <3>1, Zenon DEF RekeySwap, UnderConfig, Typing, TypeOK, Rekey
      <3>3. ASSUME NEW i \in Instances, inst'[i] # Closed, ~Swapping(i)'
            PROVE  StoreKey(i)' = config'
        <4>1. CASE i = r.inst
          BY <1>10, <3>2, <4>1 DEF RekeySwap, StoreKey, Typing, TypeOK
        <4>2. CASE i # r.inst
          <5>1. inst'[i] = inst[i] /\ ~Swapping(i)
            BY <1>10, <3>3, <4>2, Zenon DEF RekeySwap, Swapping, Typing, TypeOK
          <5>2. StoreKey(i)' = StoreKey(i)
            BY <1>10, <3>3, <5>1, SMTT(60) DEF RekeySwap, StoreKey, Typing, TypeOK, Closed
          <5> QED
            BY <1>10, <3>1, <3>3, <5>1, <5>2, Zenon DEF UnderConfig, RekeySwap
        <4> QED
          BY <4>1, <4>2, Zenon
      <3> QED
        BY <1>10, <3>1, <3>3, Zenon DEF RekeySwap, UnderConfig
    <2> QED
      BY <2>1, <2>2, Zenon
  <1>11. ASSUME NEW r \in rekeys, DropRekey(r) PROVE Goal
    <2>1. SnapshotCurrent' /\ KeysDistinct'
      BY <1>a, <1>11 DEF DropRekey, SnapshotCurrent, KeysDistinct
    <2>2. ASSUME ~tainted' PROVE UnderConfig'
      <3>1. UnderConfig /\ ~r.done
        BY <1>a, <1>11, <2>2, Zenon DEF DropRekey
      <3> QED
        BY <1>11, <3>1, Zenon DEF DropRekey, UnderConfig, StoreKey, Swapping
    <2> QED
      BY <2>1, <2>2, Zenon
  <1>12. ASSUME NEW o \in opens, OpenLoad(o) PROVE Goal
    <2>1. CASE UNCHANGED <<caches, cached, inst>>
      BY <1>12, <2>1, RekeyUntouched, Zenon DEF OpenLoad, RekeyInv
    <2>2. ASSUME NEW p \in profiles, p.wrap = o.sk,
                 caches' = Append(caches, o.sk),
                 inst' = [inst EXCEPT ![o.inst] = Len(caches) + 1]
          PROVE  Goal
      <3>1. SnapshotCurrent' /\ KeysDistinct'
        BY <1>a, <1>12, Zenon DEF OpenLoad, SnapshotCurrent, KeysDistinct
      <3>2. ASSUME ~tainted' PROVE UnderConfig'
        <4>1. UnderConfig /\ o.inst \in Instances /\ UNCHANGED <<config, rekeys>>
          BY <1>a, <1>12, <3>2, Zenon DEF OpenLoad, Typing, TypeOK, Open
        <4>2. o.sk = config /\ o.sk \in StoreKeys
          BY <2>2, <4>1, Zenon DEF UnderConfig, Typing, TypeOK, Profile
        <4>3. ASSUME NEW i \in Instances, inst'[i] # Closed, ~Swapping(i)'
              PROVE  StoreKey(i)' = config'
          <5>1. CASE i = o.inst
            BY <2>2, <4>1, <4>2, <5>1, SMTT(30) DEF StoreKey, Typing, TypeOK
          <5>2. CASE i # o.inst
            <6>1. inst'[i] = inst[i] /\ ~Swapping(i)
              BY <2>2, <4>1, <4>3, <5>2, Zenon DEF Swapping, Typing, TypeOK
            <6>2. StoreKey(i)' = StoreKey(i)
              BY <2>2, <4>3, <6>1, SMTT(30) DEF StoreKey, Typing, TypeOK, Closed
            <6> QED
              BY <4>1, <4>3, <6>1, <6>2, Zenon DEF UnderConfig
          <5> QED
            BY <5>1, <5>2, Zenon
        <4> QED
          BY <1>12, <4>1, <4>3, Zenon DEF OpenLoad, UnderConfig
      <3> QED
        BY <3>1, <3>2, Zenon
    <2> QED
      BY <1>12, <2>1, <2>2, Zenon DEF OpenLoad, Named
  <1>13. ASSUME NEW s \in Sessions, SessionStep(s) PROVE Goal
    <2>1. CASE UNCHANGED rekeys
      BY <1>13, <2>1, RekeyUntouched, Zenon
      DEF SessionStep, NewSession, ResolveCached, ResolveSelect, ResolveAdd, InsertItem,
          RemoveItems, CloseSession, RekeyInv
    <2>2. CASE rekeys' = Overtake(rekeys)
      BY <1>13, <2>2, RekeyItemWrite, Zenon
      DEF SessionStep, NewSession, ResolveCached, ResolveSelect, ResolveAdd, InsertItem,
          RemoveItems, CloseSession, RekeyInv
    <2> QED
      BY <1>13, <2>1, <2>2, Zenon
      DEF SessionStep, NewSession, ResolveCached, ResolveSelect, ResolveAdd, InsertItem,
          RemoveItems, CloseSession
  <1>14. CASE UNCHANGED vars
    BY <1>14, RekeyUntouched, Zenon DEF vars, RekeyInv
  <1> QED
    BY <1>1, <1>2, <1>3, <1>4, <1>5, <1>6, <1>7, <1>8, <1>9, <1>10, <1>11, <1>12, <1>13, <1>14, Zenon
    DEF Next, InstanceStep, CallStep

LEMMA RekeyAlways == ASSUME Backend = "sqlite" PROVE Spec => []RekeyInv
  BY TypingAlways, RekeyInit, RekeyNext, PTL DEF Spec

\* SQLite: no order of creates, removals, rekeys, opens, crashes and dropped futures
\* leaves a profile that the store key of the config does not unwrap, unless a rekey
\* was committed behind the back of another open instance.
THEOREM NoProfileLost == ASSUME Backend = "sqlite" PROVE Spec => []ProfilesLoadable
  <1>1. RekeyInv => ProfilesLoadable
    BY Zenon DEF RekeyInv, UnderConfig, ProfilesLoadable
  <1> QED
    BY <1>1, RekeyAlways, PTL

\* Only the commit of a rekey changes the config or the wrapping of a row, and it
\* rewraps the whole table.
LEMMA RekeyAtomicStep ==
    ASSUME Backend = "sqlite", Typing, RekeyInv, [Next]_vars, config' # config \/ Rewraps
    PROVE  \A p \in profiles' : p.wrap = config'
  <1>a. SnapshotCurrent /\ KeysDistinct
    BY Zenon DEF RekeyInv
  <1>1. ASSUME NEW r \in rekeys, RekeyCommit(r), profiles' # profiles \/ config' # config
        PROVE  \A p \in profiles' : p.wrap = config'
    <2>1. ~RekeyFails(r) /\ ~r.done /\ profiles' = Rewrapped(r) /\ config' = r.wrap
      BY <1>1, Zenon DEF RekeyCommit
    <2>2. \A p \in profiles : p.id \in r.ids
      BY <1>a, <2>1, Zenon DEF SnapshotCurrent, RekeyFails
    <2> QED
      BY <2>1, <2>2, RewrappedFrom DEF Rewrapping
  <1>2. ASSUME profiles' \subseteq profiles, config' = config PROVE FALSE
    BY <1>a, <1>2, Zenon DEF Rewraps, KeysDistinct
  <1>3. ASSUME NEW c \in creates, InsertProfile(c) PROVE FALSE
    <2>1. \A q \in profiles' : q \in profiles \/ (c.id = 0 /\ q.key = c.key)
      BY <1>3 DEF InsertProfile
    <2> QED
      BY <1>a, <1>3, <2>1, Zenon DEF InsertProfile, Rewraps, KeysDistinct
  <1>4. CASE \E c \in creates : CacheProfile(c) \/ DropCreate(c)
    BY <1>2, <1>4, Zenon DEF CacheProfile, DropCreate
  <1>5. CASE \E r \in rekeys : RekeySwap(r) \/ DropRekey(r)
    BY <1>2, <1>5, ZenonT(60) DEF RekeySwap, DropRekey
  <1>6. CASE \E i \in Instances : InstanceStep(i)
    BY <1>2, <1>6
    DEF InstanceStep, CreateProfile, RemoveProfile, RekeyRead, OpenConfig, CloseInstance
  <1>7. CASE \E s \in Sessions : SessionStep(s)
    BY <1>2, <1>7, ZenonT(60)
    DEF SessionStep, NewSession, ResolveCached, ResolveSelect, ResolveAdd, InsertItem,
        RemoveItems, CloseSession
  <1>8. CASE \E o \in opens : OpenLoad(o)
    BY <1>2, <1>8 DEF OpenLoad
  <1>9. CASE UNCHANGED vars
    BY <1>2, <1>9, Zenon DEF vars
  <1> QED
    BY <1>1, <1>2, <1>3, <1>4, <1>5, <1>6, <1>7, <1>8, <1>9, Zenon DEF Next, CallStep

\* SQLite: rekey is all or nothing in every step of every behaviour.
THEOREM RekeyAllOrNothing == ASSUME Backend = "sqlite" PROVE Spec => RekeyAtomic
  <1>1. Typing /\ RekeyInv /\ [Next]_vars =>
          [config' # config \/ Rewraps => \A p \in profiles' : p.wrap = config']_vars
    BY RekeyAtomicStep, Zenon
  <1> QED
    BY <1>1, TypingAlways, RekeyAlways, PTL DEF Spec, RekeyAtomic
============================================================================
