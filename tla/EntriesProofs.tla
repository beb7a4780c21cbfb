--------------------------- MODULE EntriesProofs ---------------------------
(***************************************************************************)
(* The entries of a profile, for every set of names, sessions and values   *)
(* and every page size: the tables stay in order (RowsInOrder), update_key *)
(* in a transaction session replaces the row it fetched                    *)
(* (UpdateKeyIsolated), a scan returns the rows of one moment              *)
(* (ScanConsistent), and the joined tables implement the map of EntryMap   *)
(* (ImplementsMap).                                                        *)
(*                                                                         *)
(* First the tables, one state at a time.  They are Good when no two rows  *)
(* share an id, no tags are left at an id without a row, and the tags of a *)
(* key describe it; each statement keeps them Good and does to the joined  *)
(* tables what its operation does to the map.  Of the transaction, only    *)
(* the rows it holds matter: they Fit the committed tables, however other  *)
(* sessions change the rest of them.  Every action of Entries is one of a  *)
(* few kinds of step, and each kind keeps TablesInv.                       *)
(*                                                                         *)
(* To TablesInv come two parts: the batch of the transaction does to the   *)
(* map what it did to its tables (BatchInv), and the rows of a scan are    *)
(* returned, still to come, or expired (ScanInv).  They need induction     *)
(* over the length of a batch, as a least counterexample, and facts about  *)
(* the size of finite sets.                                                *)
(***************************************************************************)
EXTENDS Entries, FiniteSetTheorems, TLAPS

\* The joined tables: the entry of each name
MapOf(t) == [n \in Names |-> EntryAt(t, n)]

\* The tags that say what a key is
Own(tags) == {t \in tags : ~t.user}

Good(t) ==
    /\ t \in Tables
    /\ \A m, n \in Names : t.rows[m] # None /\ t.rows[n] # None /\ t.rows[m].id = t.rows[n].id => m = n
    /\ \A i \in Ids : i \notin IdsOf(t, Names) => t.tags[i] = {}
    /\ \A n \in KeyNames : t.rows[n] # None => Own(t.tags[t.rows[n].id]) = {OwnTag(t.rows[n].data)}

\* The rows of the names h in t can take the place of those in the tables b
Fits(b, t, h) ==
    /\ \A m, n \in h : t.rows[m] # None /\ t.rows[n] # None /\ t.rows[m].id = t.rows[n].id => m = n
    /\ IdsOf(t, h) \cap IdsOf(b, Names \ h) = {}
    /\ \A i \in IdsOf(b, h) \ IdsOf(t, h) : t.tags[i] = {}
    /\ \A n \in KeyNames \cap h : t.rows[n] # None => Own(t.tags[t.rows[n].id]) = {OwnTag(t.rows[n].data)}

Maps == [Names -> Entry \cup {None}]
Ops == [op : {"insert", "replace", "remove"}, names : SUBSET Names, entry : Entry \cup {None}]

\* The sequence of Postgres is ahead of every row
Ahead == backend = "postgres" => \A i \in IdsOf(db, Names) \cup IdsOf(work, held) : i < nextId

\* What a session fetched for update_key; in the transaction, a row it holds
Fetches ==
    \A s \in Sessions : pending[s] # None =>
        /\ Own(pending[s].entry.tags) = {OwnTag(pending[s].entry.data)}
        /\ s = txn => pending[s].name \in held /\ EntryAt(work, pending[s].name) = pending[s].entry

\* The tables, and the transaction that is under way
TablesInv ==
    /\ TypeOK
    /\ Good(db)
    /\ Fits(db, work, held)
    /\ Ahead
    /\ txn = None => held = {} /\ batch = <<>>
    /\ Fetches
----------------------------------------------------------------------------
(***************************************************************************)
(* Tables and what the statements make of them.                            *)
(***************************************************************************)

\* What tables are made of
LEMMA TablesType ==
    ASSUME NEW t \in Tables, NEW n \in Names, t.rows[n] # None
    PROVE  /\ t.rows[n] \in Row
           /\ t.rows[n].id \in Ids
           /\ t.tags[t.rows[n].id] \subseteq Tag
  BY Zenon DEF Tables, Row

\* The joined row of a name: an entry, and None only if there is no row
LEMMA EntryAtType ==
    ASSUME NEW t \in Tables, NEW n \in Names
    PROVE  /\ EntryAt(t, n) \in Entry \cup {None}
           /\ EntryAt(t, n) = None <=> t.rows[n] = None
           /\ MapOf(t)[n] = EntryAt(t, n)
  <1>1. MapOf(t)[n] = EntryAt(t, n)
    BY Zenon DEF MapOf
  <1>2. CASE t.rows[n] = None
    BY <1>1, <1>2, Zenon DEF EntryAt
  <1>3. CASE t.rows[n] # None
    <2>1. t.rows[n] \in Row /\ t.tags[t.rows[n].id] \subseteq Tag
      BY <1>3, TablesType, Zenon
    <2>2. EntryAt(t, n) \in Entry
      BY <1>3, <2>1, Zenon DEF EntryAt, Entry, Row
    <2> QED
      BY <1>1, <1>3, <2>2, EntriesAssumption, Zenon
  <1> QED
    BY <1>2, <1>3, Zenon

LEMMA MapOfType == ASSUME NEW t \in Tables PROVE MapOf(t) \in Maps
  BY EntryAtType, Zenon DEF MapOf, Maps

\* Tables without rows are Good.
LEMMA NoRowsGood ==
    NoRows \in Tables /\ Good(NoRows) /\ MapOf(NoRows) = [n \in Names |-> None] /\ IdsOf(NoRows, Names) = {}
  <1>1. NoRows \in Tables
    BY Zenon DEF NoRows, Tables
  <1>2. \A n \in Names : NoRows.rows[n] = None
    BY Zenon DEF NoRows
  <1>3. \A i \in Ids : NoRows.tags[i] = {}
    BY Zenon DEF NoRows
  <1>4. IdsOf(NoRows, Names) = {}
    BY <1>2, Zenon DEF IdsOf
  <1>5. Good(NoRows)
    BY <1>1, <1>2, <1>3, Zenon DEF Good, Names
  <1>6. MapOf(NoRows) = [n \in Names |-> None]
    BY <1>2, Zenon DEF MapOf, EntryAt
  <1> QED
    BY <1>1, <1>4, <1>5, <1>6, Zenon

\* An entry that may be written under a name: that of a key has the tags of the key
Suits(n, e) == e \in Entry /\ (n \in KeyNames => Own(e.tags) = {OwnTag(e.data)})

\* The tables u come from t by the operation o
Performs(t, u, o) ==
    /\ Good(u)
    /\ o \in Ops
    /\ \A n \in Names \ o.names : u.rows[n] = t.rows[n] /\ EntryAt(u, n) = EntryAt(t, n)
    /\ \A n \in o.names :
         /\ (t.rows[n] = None) <=> (o.op = "insert")
         /\ EntryAt(u, n) = IF o.op = "remove" THEN None ELSE o.entry
         /\ u.rows[n] # None =>
              u.rows[n].id = IF o.op = "insert" THEN FreshId(t) ELSE t.rows[n].id

\* The INSERT of a row and its tags, at an id that is not in use
LEMMA InsertPerforms ==
    ASSUME NEW t, Good(t), NEW n \in Names, NEW e, Suits(n, e), t.rows[n] = None,
           FreshId(t) \in Ids, FreshId(t) \notin IdsOf(t, Names)
    PROVE  Performs(t, InsertRow(t, n, e), Map!OpOn("insert", {n}, e))
  <1> DEFINE id == FreshId(t)
             u == InsertRow(t, n, e)
             o == Map!OpOn("insert", {n}, e)
             r == [id |-> id, data |-> e.data, meta |-> e.meta, expiry |-> e.expiry]
  <1>1. e \in Entry /\ t \in Tables
    BY Zenon DEF Suits, Good
  <1>2. r \in Row /\ r # None
    BY <1>1, EntriesAssumption DEF Row, Entry
  <1>3. t.tags[id] = {} /\ \A m \in Names : t.rows[m] # None => t.rows[m].id # id
    BY Zenon DEF Good, IdsOf
  <1>4. /\ u.rows = [t.rows EXCEPT ![n] = r]
        /\ u.tags = [t.tags EXCEPT ![id] = e.tags]
        /\ u = [rows |-> u.rows, tags |-> u.tags]
    BY <1>1, <1>3, Zenon DEF InsertRow, Tables
  <1>a. o.op = "insert" /\ o.names = {n} /\ o.entry = e /\ o \in Ops
    BY <1>1, Zenon DEF Map!OpOn, Ops
  <1> HIDE DEF id, u, o
  <1>5. u.rows[n] = r /\ u.tags[id] = e.tags
    BY <1>1, <1>4, Zenon DEF Tables, id
  <1>6. \A m \in Names \ {n} : u.rows[m] = t.rows[m]
    BY <1>1, <1>4, Zenon DEF Tables
  <1>7. \A i \in Ids \ {id} : u.tags[i] = t.tags[i]
    BY <1>1, <1>4, Zenon DEF Tables
  <1>8. u \in Tables
    BY <1>1, <1>2, <1>4 DEF Tables, Entry, id
  <1>9. \A m \in Names \ {n} : EntryAt(u, m) = EntryAt(t, m)
    BY <1>1, <1>3, <1>6, <1>7, TablesType, Zenon DEF EntryAt
  <1>10. EntryAt(u, n) = e
    BY <1>1, <1>2, <1>5 DEF EntryAt, Entry
  <1>11. \A m, l \in Names : u.rows[m] # None /\ u.rows[l] # None /\ u.rows[m].id = u.rows[l].id => m = l
    BY <1>3, <1>5, <1>6 DEF Good
  <1>12. \A i \in Ids : i \notin IdsOf(u, Names) => u.tags[i] = {}
    <2>1. SUFFICES ASSUME NEW i \in Ids, i \notin IdsOf(u, Names) PROVE u.tags[i] = {}
      BY Zenon
    <2>2. i # id
      BY <1>2, <1>5, <2>1 DEF IdsOf
    <2>3. i \notin IdsOf(t, Names)
      BY <1>6, <2>1, Zenon DEF IdsOf
    <2> QED
      BY <1>7, <2>2, <2>3, Zenon DEF Good
  <1>13. \A m \in KeyNames : u.rows[m] # None => Own(u.tags[u.rows[m].id]) = {OwnTag(u.rows[m].data)}
    <2>1. SUFFICES ASSUME NEW m \in KeyNames, u.rows[m] # None
                   PROVE  Own(u.tags[u.rows[m].id]) = {OwnTag(u.rows[m].data)}
      BY Zenon
    <2>2. m \in Names
      BY Zenon DEF Names
    <2>3. CASE m = n
      BY <1>5, <2>3 DEF Suits
    <2>4. CASE m # n
      BY SMTT(60), <1>1, <1>3, <1>6, <1>7, <2>1, <2>2, <2>4, TablesType DEF Good
    <2> QED
      BY <2>3, <2>4, Zenon
  <1>14. Good(u)
    BY <1>8, <1>11, <1>12, <1>13, Zenon DEF Good
  <1> QED
    BY <1>14, <1>a, <1>5, <1>6, <1>9, <1>10, SMTT(60) DEF Performs, id, u, o

\* The UPDATE of a row, with its tags deleted and inserted again
LEMMA ReplacePerforms ==
    ASSUME NEW t, Good(t), NEW n \in Names, NEW e, Suits(n, e), t.rows[n] # None
    PROVE  Performs(t, ReplaceRow(t, n, e), Map!OpOn("replace", {n}, e))
  <1> DEFINE id == t.rows[n].id
             u == ReplaceRow(t, n, e)
             o == Map!OpOn("replace", {n}, e)
             r == [id |-> id, data |-> e.data, meta |-> e.meta, expiry |-> e.expiry]
  <1>1. e \in Entry /\ t \in Tables
    BY Zenon DEF Suits, Good
  <1>2. r \in Row /\ r # None /\ id \in Ids
    BY <1>1, TablesType, EntriesAssumption DEF Row, Entry
  <1>3. \A m \in Names \ {n} : t.rows[m] # None => t.rows[m].id # id
    BY Zenon DEF Good
  <1>4. /\ u.rows = [t.rows EXCEPT ![n] = r]
        /\ u.tags = [t.tags EXCEPT ![id] = e.tags]
        /\ u = [rows |-> u.rows, tags |-> u.tags]
    BY Zenon DEF ReplaceRow
  <1>a. o.op = "replace" /\ o.names = {n} /\ o.entry = e /\ o \in Ops
    BY <1>1, Zenon DEF Map!OpOn, Ops
  <1> HIDE DEF id, u, o
  <1>5. u.rows[n] = r /\ u.tags[id] = e.tags
    BY <1>1, <1>2, <1>4, Zenon DEF Tables
  <1>6. \A m \in Names \ {n} : u.rows[m] = t.rows[m]
    BY <1>1, <1>4, Zenon DEF Tables
  <1>7. \A i \in Ids \ {id} : u.tags[i] = t.tags[i]
    BY <1>1, <1>4, Zenon DEF Tables
  <1>8. u \in Tables
    BY <1>1, <1>2, <1>4, ZenonT(60) DEF Tables, Entry
  <1>9. \A m \in Names \ {n} : EntryAt(u, m) = EntryAt(t, m)
    BY <1>1, <1>3, <1>6, <1>7, TablesType, Zenon DEF EntryAt
  <1>10. EntryAt(u, n) = e
    BY <1>1, <1>2, <1>5 DEF EntryAt, Entry
  <1>11. \A m, l \in Names : u.rows[m] # None /\ u.rows[l] # None /\ u.rows[m].id = u.rows[l].id => m = l
    BY <1>3, <1>5, <1>6 DEF Good
  <1>12. \A i \in Ids : i \notin IdsOf(u, Names) => u.tags[i] = {}
    <2>1. SUFFICES ASSUME NEW i \in Ids, i \notin IdsOf(u, Names) PROVE u.tags[i] = {}
      BY Zenon
    <2>2. i # id
      BY <1>2, <1>5, <2>1 DEF IdsOf
    <2>3. i \notin IdsOf(t, Names)
      BY <1>6, <2>1, <2>2, Zenon DEF IdsOf, id
    <2> QED
      BY <1>7, <2>2, <2>3, Zenon DEF Good
  <1>13. \A m \in KeyNames : u.rows[m] # None => Own(u.tags[u.rows[m].id]) = {OwnTag(u.rows[m].data)}
    <2>1. SUFFICES ASSUME NEW m \in KeyNames, u.rows[m] # None
                   PROVE  Own(u.tags[u.rows[m].id]) = {OwnTag(u.rows[m].data)}
      BY Zenon
    <2>2. m \in Names
      BY Zenon DEF Names
    <2>3. CASE m = n
      BY <1>5, <2>3 DEF Suits
    <2>4. CASE m # n
      BY SMTT(60), <1>1, <1>3, <1>6, <1>7, <2>1, <2>2, <2>4, TablesType DEF Good
    <2> QED
      BY <2>3, <2>4, Zenon
  <1>14. Good(u)
    BY <1>8, <1>11, <1>12, <1>13, Zenon DEF Good
  <1> QED
    BY SMTT(60), <1>14, <1>a, <1>5, <1>6, <1>9, <1>10 DEF Performs, id, u, o

\* The DELETE of rows, which takes their tags along
LEMMA RemovePerforms ==
    ASSUME NEW t, Good(t), NEW h \in SUBSET Names, \A n \in h : t.rows[n] # None
    PROVE  Performs(t, RemoveRows(t, h), Map!OpOn("remove", h, None))
  <1> DEFINE u == RemoveRows(t, h)
             o == Map!OpOn("remove", h, None)
  <1>1. t \in Tables
    BY Zenon DEF Good
  <1>a. o.op = "remove" /\ o.names = h /\ o \in Ops
    BY Zenon DEF Map!OpOn, Ops
  <1>2. /\ \A n \in Names : u.rows[n] = IF n \in h THEN None ELSE t.rows[n]
        /\ \A i \in Ids : u.tags[i] = IF i \in IdsOf(t, h) THEN {} ELSE t.tags[i]
        /\ u \in Tables
    BY <1>1, Zenon DEF RemoveRows, Tables
  <1> HIDE DEF u, o
  <1>3. \A n \in Names \ h : t.rows[n] # None => t.rows[n].id \notin IdsOf(t, h)
    BY Zenon DEF IdsOf, Good
  <1>4. \A n \in Names \ h : u.rows[n] = t.rows[n] /\ EntryAt(u, n) = EntryAt(t, n)
    BY <1>1, <1>2, <1>3, TablesType, Zenon DEF EntryAt
  <1>5. \A n \in h : EntryAt(u, n) = None /\ u.rows[n] = None
    BY <1>2, Zenon DEF EntryAt
  <1>6. \A m, l \in Names : u.rows[m] # None /\ u.rows[l] # None /\ u.rows[m].id = u.rows[l].id => m = l
    BY <1>2, Zenon DEF Good
  <1>7. \A i \in Ids : i \notin IdsOf(u, Names) => u.tags[i] = {}
    BY <1>2 DEF Good, IdsOf
  <1>8. \A m \in KeyNames : u.rows[m] # None => Own(u.tags[u.rows[m].id]) = {OwnTag(u.rows[m].data)}
    BY SMTT(60), <1>1, <1>2, <1>3, <1>4, <1>5, TablesType DEF Good, Names
  <1>9. Good(u)
    BY <1>2, <1>6, <1>7, <1>8, Zenon DEF Good
  <1> QED
    BY <1>9, <1>a, <1>4, <1>5, Zenon DEF Performs, u, o

\* What an operation on the tables does to the map
LEMMA PerformsEffect ==
    ASSUME NEW t \in Tables, NEW u, NEW o, Performs(t, u, o)
    PROVE  Map!Legal(MapOf(t), o) /\ MapOf(u) = Map!Effect(MapOf(t), o)
  <1>1. o \in Ops /\ o.names \subseteq Names
    BY Zenon DEF Performs, Ops
  <1>2. \A n \in Names : MapOf(t)[n] = EntryAt(t, n) /\ (EntryAt(t, n) = None <=> t.rows[n] = None)
    BY EntryAtType, Zenon
  <1>3. Map!Legal(MapOf(t), o)
    BY <1>1, <1>2, Zenon DEF Performs, Map!Legal
  <1>4. \A n \in Names : EntryAt(u, n) = IF n \in o.names THEN IF o.op = "remove" THEN None ELSE o.entry
                                          ELSE MapOf(t)[n]
    BY <1>2, Zenon DEF Performs
  <1>5. MapOf(u) = Map!Effect(MapOf(t), o)
    BY <1>4, Zenon DEF MapOf, Map!Effect
  <1> QED
    BY <1>3, <1>5, Zenon
----------------------------------------------------------------------------
(***************************************************************************)
(* The rows of the transaction among the committed ones.                   *)
(***************************************************************************)

\* Rows that fit make Good tables with the committed ones, and each name keeps the
\* entry of the tables its row comes from.
LEMMA MergeGood ==
    ASSUME Good(db), NEW t \in Tables, NEW h \in SUBSET Names, Fits(db, t, h)
    PROVE  /\ Good(Merge(t, h))
           /\ \A n \in h : Merge(t, h).rows[n] = t.rows[n] /\ EntryAt(Merge(t, h), n) = EntryAt(t, n)
           /\ \A n \in Names \ h :
                Merge(t, h).rows[n] = db.rows[n] /\ EntryAt(Merge(t, h), n) = EntryAt(db, n)
  <1> DEFINE u == Merge(t, h)
             over == IdsOf(t, h) \cup IdsOf(db, h)
  <1>1. db \in Tables
    BY Zenon DEF Good
  <1>2. /\ \A n \in Names : u.rows[n] = IF n \in h THEN t.rows[n] ELSE db.rows[n]
        /\ \A i \in Ids : u.tags[i] = IF i \in over THEN t.tags[i] ELSE db.tags[i]
        /\ u \in Tables
    BY <1>1, Zenon DEF Merge, Tables
  <1> HIDE DEF u
  <1>3. \A n \in h : t.rows[n] # None => t.rows[n].id \in over
    BY Zenon DEF IdsOf
  <1>4. \A n \in Names \ h : db.rows[n] # None => db.rows[n].id \notin over
    <2>1. SUFFICES ASSUME NEW n \in Names \ h, db.rows[n] # None PROVE db.rows[n].id \notin over
      BY Zenon
    <2>2. db.rows[n].id \in IdsOf(db, Names \ h)
      BY <2>1, Zenon DEF IdsOf
    <2>3. db.rows[n].id \notin IdsOf(t, h)
      BY <2>2, Zenon DEF Fits
    <2>4. db.rows[n].id \notin IdsOf(db, h)
      BY <2>1, Zenon DEF IdsOf, Good
    <2> QED
      BY <2>3, <2>4, Zenon
  <1>5. \A n \in h : u.rows[n] = t.rows[n] /\ EntryAt(u, n) = EntryAt(t, n)
    BY <1>2, <1>3, TablesType, Zenon DEF EntryAt
  <1>6. \A n \in Names \ h : u.rows[n] = db.rows[n] /\ EntryAt(u, n) = EntryAt(db, n)
    BY <1>1, <1>2, <1>4, TablesType, Zenon DEF EntryAt
  <1>7. \A m, n \in Names : u.rows[m] # None /\ u.rows[n] # None /\ u.rows[m].id = u.rows[n].id => m = n
    <2>1. SUFFICES ASSUME NEW m \in Names, NEW n \in Names,
                          u.rows[m] # None, u.rows[n] # None, u.rows[m].id = u.rows[n].id
                   PROVE  m = n
      BY Zenon
    <2>2. CASE m \in h /\ n \in h
      BY <1>5, <2>1, <2>2, Zenon DEF Fits
    <2>3. CASE m \notin h /\ n \notin h
      BY <1>6, <2>1, <2>3, Zenon DEF Good
    <2>4. CASE m \in h /\ n \notin h
      BY <1>3, <1>4, <1>5, <1>6, <2>1, <2>4, Zenon
    <2>5. CASE m \notin h /\ n \in h
      BY <1>3, <1>4, <1>5, <1>6, <2>1, <2>5, Zenon
    <2> QED
      BY <2>2, <2>3, <2>4, <2>5, Zenon
  <1>8. \A i \in Ids : i \notin IdsOf(u, Names) => u.tags[i] = {}
    <2>1. SUFFICES ASSUME NEW i \in Ids, i \notin IdsOf(u, Names) PROVE u.tags[i] = {}
      BY Zenon
    <2>2. i \notin IdsOf(t, h) /\ i \notin IdsOf(db, Names \ h)
      BY <1>5, <1>6, <2>1, Zenon DEF IdsOf
    <2>3. CASE i \in IdsOf(db, h)
      BY <1>2, <2>2, <2>3, Zenon DEF Fits
    <2>4. CASE i \notin IdsOf(db, h)
      <3>1. i \notin IdsOf(db, Names)
        BY <2>2, <2>4, Zenon DEF IdsOf
      <3> QED
        BY <1>2, <2>2, <2>4, <3>1, Zenon DEF Good
    <2> QED
      BY <2>3, <2>4, Zenon
  <1>9. \A n \in KeyNames : u.rows[n] # None => Own(u.tags[u.rows[n].id]) = {OwnTag(u.rows[n].data)}
    <2>1. SUFFICES ASSUME NEW n \in KeyNames, u.rows[n] # None
                   PROVE  Own(u.tags[u.rows[n].id]) = {OwnTag(u.rows[n].data)}
      BY Zenon
    <2>2. n \in Names
      BY Zenon DEF Names
    <2>3. CASE n \in h
      BY <1>2, <1>3, <2>1, <2>2, <2>3, TablesType, ZenonT(60) DEF Fits
    <2>4. CASE n \notin h
      BY <1>1, <1>2, <1>4, <2>1, <2>2, <2>4, TablesType, ZenonT(60) DEF Good
    <2> QED
      BY <2>3, <2>4, Zenon
  <1>10. Good(u)
    BY <1>2, <1>7, <1>8, <1>9, Zenon DEF Good
  <1> QED
    BY <1>5, <1>6, <1>10, Zenon DEF u

\* Good tables with the rows of b outside h fit there.
LEMMA GoodFits ==
    ASSUME NEW b, Good(b), NEW t, Good(t), NEW h \in SUBSET Names,
           \A n \in Names \ h : t.rows[n] = b.rows[n]
    PROVE  Fits(b, t, h)
  <1>1. \A m, n \in h : t.rows[m] # None /\ t.rows[n] # None /\ t.rows[m].id = t.rows[n].id => m = n
    BY Zenon DEF Good
  <1>2. IdsOf(t, h) \cap IdsOf(b, Names \ h) = {}
    BY DEF Good, IdsOf
  <1>3. \A i \in IdsOf(b, h) \ IdsOf(t, h) : t.tags[i] = {}
    <2>1. SUFFICES ASSUME NEW i \in IdsOf(b, h), i \notin IdsOf(t, h) PROVE t.tags[i] = {}
      BY Zenon
    <2>2. i \in Ids
      BY TablesType, ZenonT(60) DEF IdsOf, Good
    <2>3. i \notin IdsOf(t, Names)
      BY SMTT(60), <2>1 DEF IdsOf, Good
    <2> QED
      BY <2>2, <2>3, Zenon DEF Good
  <1>4. \A n \in KeyNames \cap h : t.rows[n] # None => Own(t.tags[t.rows[n].id]) = {OwnTag(t.rows[n].data)}
    BY Zenon DEF Good
  <1> QED
    BY ZenonT(60), <1>1, <1>2, <1>3, <1>4 DEF Fits

\* What another session commits outside h leaves rows that fit in their place.
LEMMA FitsKept ==
    ASSUME NEW b, Good(b), NEW c, NEW h \in SUBSET Names, NEW t, Fits(b, t, h),
           NEW o, Performs(b, c, o), o.names \cap h = {},
           o.op = "insert" => FreshId(b) \notin IdsOf(t, h)
    PROVE  Fits(c, t, h) /\ \A n \in h : EntryAt(c, n) = EntryAt(b, n)
  <1>1. \A n \in h : c.rows[n] = b.rows[n] /\ EntryAt(c, n) = EntryAt(b, n)
    BY Zenon DEF Performs
  <1>2. IdsOf(c, h) = IdsOf(b, h)
    BY <1>1, Zenon DEF IdsOf
  <1>3. IdsOf(t, h) \cap IdsOf(c, Names \ h) = {}
    <2>1. SUFFICES ASSUME NEW n \in Names \ h, c.rows[n] # None, c.rows[n].id \in IdsOf(t, h)
                   PROVE  FALSE
      BY Zenon DEF IdsOf
    <2>2. CASE n \in o.names /\ o.op = "insert"
      BY <2>1, <2>2, Zenon DEF Performs
    <2>3. CASE ~(n \in o.names /\ o.op = "insert")
      <3>1. b.rows[n] # None /\ c.rows[n].id = b.rows[n].id
        BY <2>1, <2>3, Zenon DEF Performs
      <3>2. b.rows[n].id \in IdsOf(b, Names \ h)
        BY <3>1, Zenon DEF IdsOf
      <3> QED
        BY <2>1, <3>1, <3>2, Zenon DEF Fits
    <2> QED
      BY <2>2, <2>3, Zenon
  <1>4. Fits(c, t, h)
    BY ZenonT(60), <1>2, <1>3 DEF Fits
  <1> QED
    BY <1>1, <1>4, Zenon
----------------------------------------------------------------------------
(***************************************************************************)
(* The entries that the operations write.                                  *)
(***************************************************************************)
LEMMA MinOfTwo ==
    ASSUME NEW a \in Nat, NEW b \in Nat
    PROVE  /\ Min({a, b}) \in {a, b}
           /\ Min({a, b}) <= a
           /\ Min({a, b}) <= b
  <1>1. \E x \in {a, b} : \A y \in {a, b} : x <= y
    OBVIOUS
  <1>2. Min({a, b}) \in {a, b} /\ \A y \in {a, b} : Min({a, b}) <= y
    BY <1>1, Zenon DEF Min
  <1> QED
    BY <1>2, Zenon

LEMMA ExpiryType == ASSUME TypeOK, NEW ttl \in Nat \cup {None} PROVE Expiry(ttl) \in Times
  <1>1. MaxTime \in Nat /\ now \in Nat /\ Never \in Nat
    BY EntriesAssumption DEF TypeOK, Never
  <1>2. CASE ttl = None
    BY <1>1, <1>2 DEF Expiry, Times
  <1>3. CASE ttl # None
    <2>1. now + ttl \in Nat
      BY <1>1, <1>3
    <2>2. Min({now + ttl, Never}) \in Nat /\ Min({now + ttl, Never}) <= Never
      BY <1>1, <2>1, MinOfTwo, Zenon
    <2> QED
      BY <1>1, <1>3, <2>2 DEF Expiry, Times
  <1> QED
    BY <1>2, <1>3, Zenon

LEMMA ItemEntrySuits ==
    ASSUME TypeOK, NEW g \in Given, NEW n \in ItemNames
    PROVE  Suits(n, ItemEntry(g))
  <1>1. g.data \in Data /\ g.tags \subseteq UserTags /\ g.ttl \in Nat \cup {None}
    BY EntriesAssumption, Zenon
  <1>2. {UserTag(u) : u \in g.tags} \subseteq Tag
    BY <1>1, Zenon DEF Tag
  <1>3. ItemEntry(g) \in Entry
    BY ZenonT(60), <1>1, <1>2, ExpiryType DEF ItemEntry, Entry
  <1> QED
    BY <1>3, EntriesAssumption, Zenon DEF Suits

LEMMA KeyEntrySuits ==
    ASSUME TypeOK, NEW g \in Given, NEW n
    PROVE  Suits(n, KeyEntry(g))
  <1>1. /\ g.data \in Data /\ g.tags \subseteq UserTags
        /\ g.meta \in Metas \cup {None} /\ g.ttl \in Nat \cup {None}
    BY EntriesAssumption, Zenon
  <1> DEFINE tags == {OwnTag(g.data)} \cup {UserTag(u) : u \in g.tags}
  <1>2. tags \subseteq Tag
    BY <1>1, Zenon DEF Tag
  <1>3. KeyEntry(g) \in Entry
    BY ZenonT(60), <1>1, <1>2, ExpiryType DEF KeyEntry, Entry
  <1>4. Own(tags) = {OwnTag(g.data)}
    BY DEF Own, OwnTag, UserTag
  <1>5. KeyEntry(g).tags = tags /\ KeyEntry(g).data = g.data
    BY Zenon DEF KeyEntry
  <1> QED
    BY <1>3, <1>4, <1>5, Zenon DEF Suits

LEMMA UpdatedSuits ==
    ASSUME TypeOK, NEW p \in Pending, NEW n, Own(p.entry.tags) = {OwnTag(p.entry.data)}
    PROVE  Suits(n, Updated(p))
  <1>1. p.entry \in Entry /\ p.change \in Changes
    BY Zenon DEF Pending
  <1>2. /\ p.change.tags \subseteq UserTags
        /\ p.change.meta \in Metas \cup {None}
        /\ p.change.ttl \in Nat \cup {None}
    BY <1>1, EntriesAssumption, Zenon
  <1>3. p.entry.data \in Data /\ p.entry.tags \subseteq Tag
    BY <1>1, Zenon DEF Entry
  <1> DEFINE tags == {UserTag(u) : u \in p.change.tags} \cup {t \in p.entry.tags : ~t.user}
  <1>4. tags \subseteq Tag
    BY <1>2, <1>3, Zenon DEF Tag
  <1>5. Updated(p) \in Entry
    BY <1>2, <1>3, <1>4, ExpiryType, Zenon DEF Updated, Entry
  <1>6. Own(tags) = Own(p.entry.tags)
    BY SMTT(60) DEF Own, UserTag
  <1>7. Updated(p).tags = tags /\ Updated(p).data = p.entry.data
    BY Zenon DEF Updated
  <1> QED
    BY <1>5, <1>6, <1>7, Zenon DEF Suits
----------------------------------------------------------------------------
(***************************************************************************)
(* The actions that write.                                                 *)
(***************************************************************************)

\* What a session sees
LEMMA SeenGood ==
    ASSUME TablesInv, NEW s \in Sessions
    PROVE  /\ Good(Seen(s)) /\ Seen(s) \in Tables
           /\ backend = "postgres" => \A i \in IdsOf(Seen(s), Names) : i < nextId
           /\ s # txn => Seen(s) = db
           /\ s = txn =>
                /\ \A n \in held : /\ Seen(s).rows[n] = work.rows[n]
                                    /\ EntryAt(Seen(s), n) = EntryAt(work, n)
                /\ \A n \in Names \ held : /\ Seen(s).rows[n] = db.rows[n]
                                            /\ EntryAt(Seen(s), n) = EntryAt(db, n)
  <1>1. Good(db) /\ Fits(db, work, held) /\ work \in Tables /\ held \subseteq Names /\ Ahead
    BY Zenon DEF TablesInv, TypeOK
  <1>2. CASE s # txn
    BY <1>1, <1>2, Zenon DEF Seen, Good, Ahead
  <1>3. CASE s = txn
    <2> DEFINE u == Merge(work, held)
    <2>1. Seen(s) = u
      BY <1>3, Zenon DEF Seen
    <2> HIDE DEF u
    <2>2. /\ Good(u)
          /\ \A n \in held : u.rows[n] = work.rows[n] /\ EntryAt(u, n) = EntryAt(work, n)
          /\ \A n \in Names \ held : u.rows[n] = db.rows[n] /\ EntryAt(u, n) = EntryAt(db, n)
      BY <1>1, MergeGood, Zenon DEF u
    <2>3. IdsOf(u, Names) \subseteq IdsOf(db, Names) \cup IdsOf(work, held)
      BY <2>2, Zenon DEF IdsOf
    <2> QED
      BY <1>1, <1>3, <2>1, <2>2, <2>3, Zenon DEF Ahead, Good
  <1> QED
    BY <1>2, <1>3, Zenon

\* A step that writes: an operation performed on what the session sees
Writes(s, t, o) ==
    /\ Performs(Seen(s), t, o)
    /\ Write(s, t, o.names, o)
    /\ o.op = "insert" => FreshId(Seen(s)) \in Ids
    /\ nextId' = IF o.op = "insert" /\ backend = "postgres" THEN nextId + 1 ELSE nextId
    /\ pending' = [pending EXCEPT ![s] = None]

LEMMA InsertWrites ==
    ASSUME TablesInv, NEW s \in Sessions, NEW n \in Names, NEW e, Suits(n, e), Insert(s, n, e),
           FreshId(Seen(s)) \notin IdsOf(Seen(s), Names)
    PROVE  \E t, o : Writes(s, t, o)
  <1> DEFINE t == InsertRow(Seen(s), n, e)
             o == Map!OpOn("insert", {n}, e)
  <1>1. nextId \in Nat /\ pending \in [Sessions -> Pending \cup {None}]
    BY EntriesAssumption DEF TablesInv, TypeOK
  <1>3. Performs(Seen(s), t, o)
    BY ZenonT(60), SeenGood, InsertPerforms DEF Insert
  <1>4. o.op = "insert" /\ o.names = {n}
    BY Zenon DEF Map!OpOn
  <1>5. /\ Write(s, t, {n}, o) /\ FreshId(Seen(s)) \in Ids
        /\ nextId' = IF backend = "postgres" THEN nextId + 1 ELSE nextId
        /\ pending' = pending /\ pending[s] = None
    BY Zenon DEF Insert
  <1>6. pending' = [pending EXCEPT ![s] = None]
    BY <1>1, <1>5, Zenon
  <1> HIDE DEF t, o
  <1> QED
    BY ZenonT(60), <1>3, <1>4, <1>5, <1>6 DEF Writes

LEMMA ReplaceWrites ==
    ASSUME TablesInv, NEW s \in Sessions, NEW n \in Names, NEW e, Suits(n, e), Replace(s, n, e)
    PROVE  \E t, o : Writes(s, t, o)
  <1> DEFINE t == ReplaceRow(Seen(s), n, e)
             o == Map!OpOn("replace", {n}, e)
  <1>1. pending \in [Sessions -> Pending \cup {None}]
    BY Zenon DEF TablesInv, TypeOK
  <1>2. Performs(Seen(s), t, o)
    BY SeenGood, ReplacePerforms, Zenon DEF Replace
  <1>3. o.op = "replace" /\ o.names = {n}
    BY Zenon DEF Map!OpOn
  <1>4. Write(s, t, {n}, o) /\ nextId' = nextId /\ pending' = pending /\ pending[s] = None
    BY Zenon DEF Replace
  <1>5. pending' = [pending EXCEPT ![s] = None]
    BY <1>1, <1>4, Zenon
  <1> HIDE DEF t, o
  <1> QED
    BY ZenonT(60), <1>2, <1>3, <1>4, <1>5 DEF Writes

\* Both kinds of removal: the rows of some names
LEMMA RemoveWrites ==
    ASSUME TablesInv, NEW s \in Sessions, NEW h \in SUBSET Names, \A n \in h : Seen(s).rows[n] # None,
           pending[s] = None, UNCHANGED <<nextId, pending>>,
           Write(s, RemoveRows(Seen(s), h), h, Map!OpOn("remove", h, None))
    PROVE  \E t, o : Writes(s, t, o)
  <1> DEFINE t == RemoveRows(Seen(s), h)
             o == Map!OpOn("remove", h, None)
  <1>1. pending \in [Sessions -> Pending \cup {None}]
    BY Zenon DEF TablesInv, TypeOK
  <1>2. Performs(Seen(s), t, o)
    BY SeenGood, RemovePerforms, Zenon
  <1>3. o.op = "remove" /\ o.names = h
    BY Zenon DEF Map!OpOn
  <1>4. pending' = [pending EXCEPT ![s] = None]
    BY <1>1, Zenon
  <1> HIDE DEF t, o
  <1> QED
    BY ZenonT(60), <1>2, <1>3, <1>4 DEF Writes, t, o

\* The second half of update_key, when there still is a row
LEMMA UpdateKeyWrites ==
    ASSUME TablesInv, NEW s \in Sessions, UpdateKeyStore(s), Seen(s).rows[pending[s].name] # None
    PROVE  \E t, o : Writes(s, t, o)
  <1> DEFINE p == pending[s]
             t == ReplaceRow(Seen(s), p.name, Updated(p))
             o == Map!OpOn("replace", {p.name}, Updated(p))
  <1>1. pending \in [Sessions -> Pending \cup {None}] /\ p # None /\ TypeOK
    BY Zenon DEF TablesInv, TypeOK, UpdateKeyStore
  <1>2. p \in Pending /\ p.name \in Names
    BY <1>1, Zenon DEF Pending, Names
  <1>3. Own(p.entry.tags) = {OwnTag(p.entry.data)}
    BY <1>1, Zenon DEF TablesInv, Fetches
  <1>4. Suits(p.name, Updated(p))
    BY <1>1, <1>2, <1>3, UpdatedSuits, Zenon
  <1>5. Performs(Seen(s), t, o)
    BY <1>2, <1>4, SeenGood, ReplacePerforms, Zenon
  <1>6. o.op = "replace" /\ o.names = {p.name}
    BY Zenon DEF Map!OpOn
  <1>7. Write(s, t, {p.name}, o) /\ nextId' = nextId /\ pending' = [pending EXCEPT ![s] = None]
    BY ZenonT(60) DEF UpdateKeyStore
  <1> HIDE DEF t, o, p
  <1> QED
    BY ZenonT(60), <1>5, <1>6, <1>7 DEF Writes

\* A step of the transaction session that writes
LEMMA TransactionWrites ==
    ASSUME TablesInv, NEW s \in Sessions, NEW t, NEW o, Writes(s, t, o), s = txn
    PROVE  /\ Good(db') /\ Fits(db', work', held') /\ Ahead'
           /\ db' = db /\ work' = t /\ held' = held \cup o.names /\ o.names \subseteq Names
           /\ t \in Tables
  <1>1. /\ db' = db /\ work' = t /\ held' = held \cup o.names /\ backend' = backend
        /\ nextId' = IF o.op = "insert" /\ backend = "postgres" THEN nextId + 1 ELSE nextId
        /\ Performs(Seen(s), t, o)
    BY Zenon DEF Writes, Write
  <1>2. Good(t) /\ t \in Tables /\ o.names \subseteq Names
    BY <1>1, Zenon DEF Performs, Ops, Good
  <1>3. Good(db) /\ held \subseteq Names /\ nextId \in Nat /\ Ahead
    <2>1. Good(db) /\ Ahead /\ held \in SUBSET Names /\ nextId \in 1 .. MaxId + 1
      BY ZenonT(60) DEF TablesInv, TypeOK
    <2> QED
      BY SMTT(60), <2>1, EntriesAssumption
  <1> DEFINE h == held \cup o.names
  <1>4. \A n \in Names \ h : t.rows[n] = db.rows[n]
    BY <1>1, SeenGood, ZenonT(60) DEF Performs
  <1>5. Fits(db, t, h)
    BY <1>2, <1>3, <1>4, GoodFits, Zenon
  <1>6. Good(db')
    BY <1>1, <1>3, Zenon
  <1>7. Fits(db', work', held')
    BY <1>1, <1>5, Zenon
  <1>8. Ahead'
    <2>1. SUFFICES ASSUME backend = "postgres", NEW i, i \in IdsOf(db, Names) \cup IdsOf(t, h)
                   PROVE  i < nextId'
      BY <1>1, Zenon DEF Ahead, IdsOf
    <2>2. CASE i \in IdsOf(db, Names)
      <3>1. i < nextId /\ i \in Nat
        BY SMTT(60), <1>3, <2>1, <2>2, TablesType DEF Ahead, IdsOf, Good, Ids
      <3> QED
        BY SMTT(60), <1>1, <1>3, <3>1
    <2>3. CASE i \in IdsOf(t, h)
      <3>1. PICK n \in h : t.rows[n] # None /\ t.rows[n].id = i
        BY <2>3, Zenon DEF IdsOf
      <3>2. i \in Nat
        BY SMTT(60), <1>2, <1>3, <3>1, TablesType DEF Ids
      <3>3. CASE n \in o.names /\ o.op = "insert"
        <4>1. i = nextId
          BY <1>1, <2>1, <3>1, <3>3, Zenon DEF Performs, FreshId
        <4> QED
          BY SMTT(60), <1>1, <1>3, <2>1, <3>3, <4>1
      <3>4. CASE ~(n \in o.names /\ o.op = "insert")
        <4>1. Seen(s).rows[n] # None /\ Seen(s).rows[n].id = i
          BY <1>1, <1>2, <1>3, <3>1, <3>4, Zenon DEF Performs
        <4>2. i \in IdsOf(Seen(s), Names)
          BY <1>2, <1>3, <4>1, Zenon DEF IdsOf
        <4>3. i < nextId
          BY <2>1, <4>2, SeenGood, Zenon
        <4> QED
          BY SMTT(60), <1>1, <1>3, <3>2, <4>3
      <3> QED
        BY <3>3, <3>4, Zenon
    <2> QED
      BY <2>1, <2>2, <2>3, Zenon
  <1> QED
    BY <1>1, <1>2, <1>6, <1>7, <1>8, Zenon

\* A step of a plain session that writes
LEMMA PlainWrites ==
    ASSUME TablesInv, NEW s \in Sessions, NEW t, NEW o, Writes(s, t, o), s # txn
    PROVE  /\ Good(db') /\ Fits(db', work', held') /\ Ahead'
           /\ db' = t /\ work' = work /\ held' = held
           /\ \A n \in held : EntryAt(db', n) = EntryAt(db, n)
           /\ Performs(db, db', o) /\ t \in Tables
  <1>1. /\ db' = t /\ work' = work /\ held' = held /\ backend' = backend
        /\ nextId' = IF o.op = "insert" /\ backend = "postgres" THEN nextId + 1 ELSE nextId
        /\ o.names \cap held = {}
        /\ backend = "sqlite" => txn = None
    BY Zenon DEF Writes, Write
  <1>2. Performs(db, t, o)
    BY SeenGood, Zenon DEF Writes
  <1>3. Good(t) /\ t \in Tables /\ o.names \subseteq Names
    BY <1>2, Zenon DEF Performs, Ops, Good
  <1>4. /\ Good(db) /\ held \subseteq Names /\ nextId \in Nat /\ Ahead /\ work \in Tables
        /\ Fits(db, work, held) /\ backend \in {"sqlite", "postgres"} /\ (txn = None => held = {})
    BY EntriesAssumption DEF TablesInv, TypeOK
  <1>5. FreshId(db) \notin IdsOf(work, held)
    <2>1. CASE backend = "sqlite"
      BY <1>1, <1>4, <2>1, Zenon DEF IdsOf
    <2>2. CASE backend = "postgres"
      BY SMTT(60), <1>4, <2>2 DEF FreshId, Ahead
    <2> QED
      BY <1>4, <2>1, <2>2, Zenon
  <1>6. Good(db')
    BY <1>1, <1>3, Zenon
  <1>7. Performs(db, db', o)
    BY ZenonT(60), <1>1, <1>2
  <1>8. Fits(t, work, held) /\ \A n \in held : EntryAt(t, n) = EntryAt(db, n)
    BY <1>1, <1>2, <1>4, <1>5, FitsKept, Zenon
  <1>9. Fits(db', work', held') /\ \A n \in held : EntryAt(db', n) = EntryAt(db, n)
    BY <1>1, <1>8, Zenon
  <1>10. Ahead'
    <2>1. SUFFICES ASSUME backend = "postgres", NEW i, i \in IdsOf(t, Names) \cup IdsOf(work, held)
                   PROVE  i < nextId'
      BY <1>1, Zenon DEF Ahead, IdsOf
    <2>2. CASE i \in IdsOf(work, held)
      <3>1. i < nextId /\ i \in Nat
        BY <1>4, <2>1, <2>2, TablesType DEF Ahead, IdsOf, Ids
      <3> QED
        BY SMTT(60), <1>1, <1>4, <3>1
    <2>3. CASE i \in IdsOf(t, Names)
      <3>1. PICK n \in Names : t.rows[n] # None /\ t.rows[n].id = i
        BY <2>3, Zenon DEF IdsOf
      <3>2. i \in Nat
        BY <1>3, <3>1, TablesType, SMTT(60) DEF Ids
      <3>3. CASE n \in o.names /\ o.op = "insert"
        <4>1. i = nextId
          BY <1>2, <2>1, <3>1, <3>3, Zenon DEF Performs, FreshId
        <4> QED
          BY SMTT(60), <1>1, <1>4, <2>1, <3>3, <4>1
      <3>4. CASE ~(n \in o.names /\ o.op = "insert")
        <4>1. db.rows[n] # None /\ db.rows[n].id = i
          BY <1>2, <1>3, <3>1, <3>4, Zenon DEF Performs
        <4>2. i < nextId
          BY <1>4, <2>1, <4>1, Zenon DEF Ahead, IdsOf
        <4> QED
          BY SMTT(60), <1>1, <1>4, <3>2, <4>2
      <3> QED
        BY <3>3, <3>4, Zenon
    <2> QED
      BY <2>1, <2>2, <2>3, Zenon
  <1> QED
    BY <1>1, <1>3, <1>6, <1>7, <1>9, <1>10, Zenon

LEMMA WritesKeepTables ==
    ASSUME TablesInv, NEW s \in Sessions, NEW t, NEW o, Writes(s, t, o)
    PROVE  TablesInv'
  <1>1. /\ TypeOK /\ Fetches
        /\ s = txn => txn # None
        /\ txn = None => held = {} /\ batch = <<>>
    BY EntriesAssumption, Zenon DEF TablesInv
  <1>2. /\ Good(db') /\ Fits(db', work', held') /\ Ahead'
        /\ work' \in Tables /\ held' \in SUBSET Names
    BY <1>1, TransactionWrites, PlainWrites, Zenon DEF TypeOK
  <1>3. /\ ops' = ops + 1 /\ ops < MaxOps
        /\ backend' = backend /\ now' = now /\ txn' = txn /\ scan' = scan
        /\ s # txn => work' = work /\ held' = held /\ batch' = batch
        /\ o.op = "insert" => FreshId(Seen(s)) \in Ids
        /\ nextId' = IF o.op = "insert" /\ backend = "postgres" THEN nextId + 1 ELSE nextId
        /\ pending' = [pending EXCEPT ![s] = None]
    BY Zenon DEF Writes, Write
  <1>4. nextId' \in 1 .. MaxId + 1
    BY SMTT(60), <1>1, <1>3, EntriesAssumption DEF TypeOK, FreshId, Ids
  <1>5. ops' \in 0 .. MaxOps
    <2>1. ops \in 0 .. MaxOps
      BY ZenonT(60), <1>1 DEF TypeOK
    <2> QED
      BY SMTT(60), <1>3, <2>1, EntriesAssumption
  <1>6. pending' \in [Sessions -> Pending \cup {None}]
    BY <1>1, <1>3, Zenon DEF TypeOK
  <1>7. TypeOK'
    BY ZenonT(60), <1>1, <1>2, <1>3, <1>4, <1>5, <1>6 DEF TypeOK, Good
  <1>8. txn' = None => held' = {} /\ batch' = <<>>
    BY <1>1, <1>3, Zenon
  <1>9. Fetches'
    <2>1. SUFFICES ASSUME NEW r \in Sessions, pending'[r] # None
                   PROVE  /\ Own(pending'[r].entry.tags) = {OwnTag(pending'[r].entry.data)}
                          /\ r = txn' => /\ pending'[r].name \in held'
                                         /\ EntryAt(work', pending'[r].name) = pending'[r].entry
      BY ZenonT(60) DEF Fetches, Own, EntryAt
    <2>2. r # s /\ pending'[r] = pending[r]
      BY <1>1, <1>3, <2>1, Zenon DEF TypeOK
    <2> QED
      BY <1>1, <1>3, <2>1, <2>2, Zenon DEF Fetches
  <1> QED
    BY <1>2, <1>7, <1>8, <1>9, Zenon DEF TablesInv
----------------------------------------------------------------------------
(***************************************************************************)
(* The other actions of sessions.                                          *)
(***************************************************************************)

\* The transaction starts from the committed tables.
LEMMA BeginKeepsTables ==
    ASSUME TablesInv, NEW s \in Sessions, Begin(s)
    PROVE  TablesInv'
  <1>1. /\ TypeOK /\ Fetches /\ Good(db) /\ Ahead
        /\ held = {} /\ batch = <<>> /\ pending[s] = None
    BY Zenon DEF TablesInv, Begin
  <1>2. /\ txn' = s /\ work' = db /\ db' = db /\ batch' = batch /\ nextId' = nextId
        /\ held' \in SUBSET Names /\ backend' = backend /\ pending' = pending
        /\ now' = now /\ scan' = scan /\ ops' = ops /\ last' = last
    BY Zenon DEF Begin
  <1>3. Fits(db', work', held')
    BY <1>1, <1>2, GoodFits, Zenon
  <1>4. Ahead'
    BY <1>1, <1>2, Zenon DEF Ahead, IdsOf
  <1>5. TypeOK'
    BY <1>1, <1>2, Zenon DEF TypeOK
  <1>6. Fetches'
    BY ZenonT(60), <1>1, <1>2 DEF Fetches, Own, EntryAt
  <1>7. txn' # None
    BY <1>2, EntriesAssumption, Zenon
  <1>8. Good(db')
    BY <1>1, <1>2, Zenon
  <1> QED
    BY <1>3, <1>4, <1>5, <1>6, <1>7, <1>8, Zenon DEF TablesInv

\* The first half of update_key: in the transaction, the row is held from now on.
LEMMA FetchKeepsTables ==
    ASSUME TablesInv, NEW s \in Sessions, NEW n \in KeyNames, NEW c \in Changes,
           UpdateKeyFetch(s, n, c)
    PROVE  TablesInv'
  <1> DEFINE u == Seen(s)
             e == EntryAt(Seen(s), n)
             p == [name |-> n, entry |-> e, change |-> c]
  <1>1. /\ TypeOK /\ Fetches /\ Good(db) /\ Ahead /\ Fits(db, work, held) /\ held \subseteq Names
        /\ txn = None => held = {} /\ batch = <<>>
        /\ n \in Names
    BY ZenonT(60) DEF TablesInv, TypeOK, Names
  <1>2. /\ e # None /\ pending' = [pending EXCEPT ![s] = p]
        /\ IF s = txn THEN work' = u /\ held' = held \cup {n} ELSE work' = work /\ held' = held
        /\ txn' = txn /\ db' = db /\ batch' = batch /\ nextId' = nextId /\ backend' = backend
        /\ now' = now /\ scan' = scan /\ ops' = ops /\ last' = last
    BY ZenonT(60) DEF UpdateKeyFetch, Fetched
  <1>3. Good(u) /\ u \in Tables /\ (backend = "postgres" => \A i \in IdsOf(u, Names) : i < nextId)
    BY SeenGood, Zenon
  <1>4. s = txn => \A l \in Names \ (held \cup {n}) : u.rows[l] = db.rows[l]
    BY SeenGood, Zenon
  <1>5. u.rows[n] # None /\ e \in Entry /\ Own(e.tags) = {OwnTag(e.data)}
    BY ZenonT(60), <1>1, <1>2, <1>3, EntryAtType DEF EntryAt, Good
  <1>a. p \in Pending /\ p.entry = e /\ p.name = n
    BY <1>5, Zenon DEF Pending
  <1> HIDE DEF u, e, p
  <1>6. Fits(db', work', held') /\ work' \in Tables /\ held' \in SUBSET Names
    BY <1>1, <1>2, <1>3, <1>4, GoodFits, ZenonT(60) DEF TypeOK
  <1>7. Ahead'
    <2>1. IdsOf(u, held \cup {n}) \subseteq IdsOf(u, Names)
      BY ZenonT(60), <1>1 DEF IdsOf
    <2> QED
      BY ZenonT(60), <1>1, <1>2, <1>3, <2>1 DEF Ahead, IdsOf
  <1>8. pending' \in [Sessions -> Pending \cup {None}]
    BY ZenonT(60), <1>1, <1>2, <1>a DEF TypeOK
  <1>9. TypeOK'
    BY ZenonT(60), <1>1, <1>2, <1>6, <1>8 DEF TypeOK
  <1>10. Fetches'
    <2>1. SUFFICES ASSUME NEW r \in Sessions, pending'[r] # None
                   PROVE  /\ Own(pending'[r].entry.tags) = {OwnTag(pending'[r].entry.data)}
                          /\ r = txn' => /\ pending'[r].name \in held'
                                         /\ EntryAt(work', pending'[r].name) = pending'[r].entry
      BY ZenonT(60) DEF Fetches, Own, EntryAt
    <2>2. CASE r = s
      <3>1. pending'[r] = p
        BY ZenonT(60), <1>1, <1>2, <2>2 DEF TypeOK
      <3>2. r = txn' => n \in held' /\ EntryAt(work', n) = e
        BY <1>2, <2>2, Zenon DEF u, e
      <3> QED
        BY ZenonT(60), <1>5, <1>a, <3>1, <3>2
    <2>3. CASE r # s
      <3>1. pending'[r] = pending[r]
        BY <1>1, <1>2, <2>3, Zenon DEF TypeOK
      <3>2. r = txn' => work' = work /\ held' = held
        BY <1>2, <2>3, Zenon
      <3> QED
        BY <1>1, <1>2, <2>1, <3>1, <3>2, Zenon DEF Fetches
    <2> QED
      BY <2>2, <2>3, Zenon
  <1>11. txn' = None => held' = {} /\ batch' = <<>>
    BY <1>1, <1>2, EntriesAssumption, Zenon
  <1>12. Good(db')
    BY <1>1, <1>2, Zenon
  <1> QED
    BY <1>6, <1>7, <1>9, <1>10, <1>11, <1>12, Zenon DEF TablesInv

\* The end of the transaction.
LEMMA EndKeepsTables ==
    ASSUME TablesInv, NEW s \in Sessions, NEW commit \in BOOLEAN, End(s, commit)
    PROVE  TablesInv'
  <1> DEFINE u == Merge(work, held)
  <1>1. /\ TypeOK /\ Fetches /\ Good(db) /\ Ahead /\ Fits(db, work, held) /\ db \in Tables
        /\ work \in Tables /\ held \subseteq Names
    BY ZenonT(60) DEF TablesInv, TypeOK
  <1>2. /\ s = txn /\ pending[s] = None /\ txn' = None /\ work' = NoRows /\ held' = {} /\ batch' = <<>>
        /\ IF commit THEN db' = u /\ last' = batch ELSE db' = db /\ last' = last
        /\ backend' = backend /\ now' = now /\ nextId' = nextId /\ pending' = pending
        /\ scan' = scan /\ ops' = ops
    BY Zenon DEF End
  <1>3. /\ Good(u) /\ IdsOf(u, Names) \subseteq IdsOf(db, Names) \cup IdsOf(work, held)
        /\ \A n \in held : EntryAt(u, n) = EntryAt(work, n)
        /\ \A n \in Names \ held : EntryAt(u, n) = EntryAt(db, n)
    <2> HIDE DEF u
    <2>1. /\ Good(u)
          /\ \A n \in held : u.rows[n] = work.rows[n] /\ EntryAt(u, n) = EntryAt(work, n)
          /\ \A n \in Names \ held : u.rows[n] = db.rows[n] /\ EntryAt(u, n) = EntryAt(db, n)
      BY <1>1, MergeGood, ZenonT(60) DEF u
    <2>2. IdsOf(u, Names) \subseteq IdsOf(db, Names) \cup IdsOf(work, held)
      BY <2>1, Zenon DEF IdsOf
    <2> QED
      BY ZenonT(60), <2>1, <2>2
  <1> HIDE DEF u
  <1>4. Good(db') /\ IdsOf(db', Names) \subseteq IdsOf(db, Names) \cup IdsOf(work, held)
    BY <1>1, <1>2, <1>3, Zenon
  <1>5. Fits(db', work', held') /\ work' \in Tables
    <2>1. work' \in Tables /\ held' = {}
      BY <1>2, NoRowsGood, Zenon
    <2>2. IdsOf(db', {}) = {} /\ IdsOf(work', {}) = {}
      BY Zenon DEF IdsOf
    <2> QED
      BY <2>1, <2>2, Zenon DEF Fits
  <1>6. Ahead'
    <2>1. IdsOf(work', held') = {}
      BY <1>2, Zenon DEF IdsOf
    <2> QED
      BY ZenonT(60), <1>1, <1>2, <1>4, <2>1 DEF Ahead, IdsOf
  <1>7. TypeOK'
    BY ZenonT(60), <1>1, <1>2, <1>4, <1>5 DEF TypeOK, Good
  <1>8. Fetches'
    BY ZenonT(60), <1>1, <1>2, EntriesAssumption DEF Fetches, Own
  <1> QED
    BY ZenonT(60), <1>2, <1>4, <1>5, <1>6, <1>7, <1>8 DEF TablesInv

\* Nothing that the tables depend on changes but, maybe, the clock, and a session that
\* gives up what it fetched.
Stays ==
    /\ UNCHANGED <<backend, db, nextId, txn, work, held, batch, ops, last>>
    /\ now' \in 0 .. MaxTime
    /\ \/ pending' = pending
       \/ \E s \in Sessions : pending' = [pending EXCEPT ![s] = None]

LEMMA StaysKeepsTables ==
    ASSUME TablesInv, Stays, scan'.st \in {"off", "ready", "on", "done", "over"}
    PROVE  TablesInv'
  <1>1. pending \in [Sessions -> Pending \cup {None}] /\ TypeOK
    BY Zenon DEF TablesInv, TypeOK
  <1>2. pending' \in [Sessions -> Pending \cup {None}]
    BY <1>1, Zenon DEF Stays
  <1>3. \A r \in Sessions : pending'[r] # None => pending'[r] = pending[r]
    BY <1>1, Zenon DEF Stays
  <1>4. TypeOK'
    BY <1>1, <1>2, Zenon DEF TypeOK, Stays
  <1>5. Good(db') /\ Fits(db', work', held')
    BY Zenon DEF TablesInv, Stays
  <1>6. Ahead'
    BY Zenon DEF TablesInv, Ahead, IdsOf, Stays
  <1>7. Fetches'
    BY <1>3, ZenonT(60) DEF TablesInv, Fetches, Own, EntryAt, Stays
  <1> QED
    BY <1>4, <1>5, <1>6, <1>7, Zenon DEF TablesInv, Stays

\* What a step is to the tables
LEMMA StepCases ==
    ASSUME TablesInv, [Next]_vars, \A s \in Sessions : FreshId(Seen(s)) \notin IdsOf(Seen(s), Names)
    PROVE  \/ \E s \in Sessions : \E t, o : Writes(s, t, o)
           \/ \E s \in Sessions : Begin(s)
           \/ \E s \in Sessions, n \in KeyNames, c \in Changes : UpdateKeyFetch(s, n, c)
           \/ \E s \in Sessions, commit \in BOOLEAN : End(s, commit)
           \/ Stays
  <1>1. TypeOK /\ now \in 0 .. MaxTime /\ MaxTime \in Nat
    BY ZenonT(60), EntriesAssumption DEF TablesInv, TypeOK
  <1>2. CASE Tick
    <2>1. now' \in 0 .. MaxTime
      BY <1>1, <1>2 DEF Tick
    <2> QED
      BY <1>2, <2>1, Zenon DEF Tick, Stays
  <1>3. CASE FetchNext
    BY <1>1, <1>3, Zenon DEF FetchNext, Stays
  <1>4. CASE ScanEnd
    BY <1>1, <1>4, Zenon DEF ScanEnd, Stays
  <1>5. CASE \E names \in {ItemNames, Names} : ScanOpen(names)
    BY <1>1, <1>5, Zenon DEF ScanOpen, Stays
  <1>6. CASE UNCHANGED vars
    BY <1>1, <1>6, Zenon DEF vars, Stays
  <1>7. CASE \E s \in Sessions, n \in ItemNames, g \in Given :
                Insert(s, n, ItemEntry(g)) \/ Replace(s, n, ItemEntry(g))
    <2>1. PICK s \in Sessions, n \in ItemNames, g \in Given :
            Insert(s, n, ItemEntry(g)) \/ Replace(s, n, ItemEntry(g))
      BY <1>7, Zenon
    <2>2. Suits(n, ItemEntry(g)) /\ n \in Names
      BY <1>1, ItemEntrySuits, Zenon DEF Names
    <2> QED
      BY <2>1, <2>2, InsertWrites, ReplaceWrites, Zenon
  <1>8. CASE \E s \in Sessions, n \in KeyNames, g \in Given : Insert(s, n, KeyEntry(g))
    <2>1. PICK s \in Sessions, n \in KeyNames, g \in Given : Insert(s, n, KeyEntry(g))
      BY <1>8, Zenon
    <2>2. Suits(n, KeyEntry(g)) /\ n \in Names
      BY <1>1, KeyEntrySuits, Zenon DEF Names
    <2> QED
      BY <2>1, <2>2, InsertWrites, Zenon
  <1>9. CASE \E s \in Sessions, n \in Names : RemoveEntry(s, n)
    <2>1. PICK s \in Sessions, n \in Names : RemoveEntry(s, n)
      BY <1>9, Zenon
    <2>2. /\ pending[s] = None /\ UNCHANGED <<nextId, pending>>
          /\ Seen(s).rows[n] # None
          /\ Write(s, RemoveRows(Seen(s), {n}), {n}, Map!OpOn("remove", {n}, None))
      BY ZenonT(60), <2>1 DEF RemoveEntry
    <2>3. {n} \in SUBSET Names /\ \A k \in {n} : Seen(s).rows[k] # None
      BY ZenonT(60), <2>2
    <2>4. \E t, o : Writes(s, t, o)
      BY ZenonT(60), <2>2, <2>3, RemoveWrites
    <2> QED
      BY <2>4, Zenon
  <1>10. CASE \E s \in Sessions, u \in UserTags : RemoveAll(s, UserTag(u))
    <2>1. PICK s \in Sessions, u \in UserTags : RemoveAll(s, UserTag(u))
      BY <1>10, Zenon
    <2> DEFINE gone == {n \in ItemNames : Seen(s).rows[n] # None
                                            /\ UserTag(u) \in Seen(s).tags[Seen(s).rows[n].id]}
    <2>2. /\ pending[s] = None /\ UNCHANGED <<nextId, pending>>
          /\ Write(s, RemoveRows(Seen(s), gone), gone, Map!OpOn("remove", gone, None))
      BY ZenonT(60), <2>1 DEF RemoveAll
    <2>3. gone \in SUBSET Names /\ \A n \in gone : Seen(s).rows[n] # None
      BY Zenon DEF Names
    <2> HIDE DEF gone
    <2>4. \E t, o : Writes(s, t, o)
      BY ZenonT(60), <2>2, <2>3, RemoveWrites
    <2> QED
      BY <2>4, Zenon
  <1>11. CASE \E s \in Sessions : UpdateKeyStore(s)
    <2>1. PICK s \in Sessions : UpdateKeyStore(s)
      BY <1>11, Zenon
    <2>2. CASE Seen(s).rows[pending[s].name] # None
      BY ZenonT(60), <2>1, <2>2, UpdateKeyWrites
    <2>3. CASE Seen(s).rows[pending[s].name] = None
      <3>1. /\ UNCHANGED <<backend, now, db, nextId, txn, work, held, batch, scan, ops, last>>
            /\ pending' = [pending EXCEPT ![s] = None]
        BY ZenonT(60), <2>1, <2>3 DEF UpdateKeyStore
      <3> QED
        BY ZenonT(60), <1>1, <3>1 DEF Stays
    <2> QED
      BY ZenonT(60), <2>2, <2>3
  <1> QED
    BY ZenonT(60), <1>2, <1>3, <1>4, <1>5, <1>6, <1>7, <1>8, <1>9, <1>10, <1>11 DEF Next

\* Every step keeps the tables in order.
LEMMA StepKeepsTables ==
    ASSUME TablesInv, [Next]_vars, scan'.st \in {"off", "ready", "on", "done", "over"},
           \A s \in Sessions : FreshId(Seen(s)) \notin IdsOf(Seen(s), Names)
    PROVE  TablesInv'
  <1>1. CASE \E s \in Sessions : \E t, o : Writes(s, t, o)
    BY <1>1, WritesKeepTables, Zenon
  <1>2. CASE \E s \in Sessions : Begin(s)
    BY <1>2, BeginKeepsTables, Zenon
  <1>3. CASE \E s \in Sessions, n \in KeyNames, c \in Changes : UpdateKeyFetch(s, n, c)
    BY <1>3, FetchKeepsTables, Zenon
  <1>4. CASE \E s \in Sessions, commit \in BOOLEAN : End(s, commit)
    BY <1>4, EndKeepsTables, Zenon
  <1>5. CASE Stays
    BY <1>5, StaysKeepsTables, Zenon
  <1> QED
    BY <1>1, <1>2, <1>3, <1>4, <1>5, StepCases, Zenon
----------------------------------------------------------------------------
(***************************************************************************)
(* The batch of the transaction, and the scan.                             *)
(***************************************************************************)
\* The batch of the transaction does to any map that has the committed entries at the
\* names it holds what the transaction has done to its tables
BatchInv ==
    /\ batch \in Seq(Ops)
    /\ \A m \in Maps : (\A n \in held : m[n] = EntryAt(db, n)) =>
         Map!Replay(m, batch) =
           [ok |-> TRUE, map |-> [n \in Names |-> IF n \in held THEN EntryAt(work, n) ELSE m[n]]]

Scanned == [name : Names, entry : Entry]

\* A scan under way: the rows of its first page's moment, split into those returned,
\* those to come, and some that have expired
ScanInv ==
    /\ scan \in [st : {"off", "ready", "on", "done", "over"}, kinds : SUBSET Names,
                 rest : SUBSET Scanned, snap : SUBSET Scanned, got : SUBSET Scanned, count : Nat]
    /\ scan.st = "ready" => scan.got = {} /\ scan.count = 0
    /\ scan.st \in {"on", "done"} =>
         /\ IsFiniteSet(scan.snap)
         /\ scan.got \cup scan.rest \subseteq scan.snap
         /\ scan.got \cap scan.rest = {}
         /\ Cardinality(scan.got) = scan.count
         /\ \A r \in scan.snap : Live(r.entry) => r \in scan.got \cup scan.rest
    /\ scan.st = "done" => scan.rest = {}
----------------------------------------------------------------------------
(***************************************************************************)
(* Numbers and finite sets.                                                *)
(***************************************************************************)
\* A counterexample to a fact about naturals has a least one.
LEMMA LeastExists ==
    ASSUME NEW S \in SUBSET Nat, S # {}
    PROVE  \E k \in S : \A l \in S : k <= l
  <1>1. PICK k \in S : \A l \in S : ~(<<l, k>> \in OpToRel(<, Nat))
    BY ZenonT(60), NatLessThanWellFounded, WFMin
  <1>2. \A l \in S : ~(l < k)
    BY ZenonT(60), <1>1 DEF OpToRel
  <1> QED
    BY <1>2

\* A set of naturals with an upper bound has a largest element.
LEMMA LargestExists ==
    ASSUME NEW S \in SUBSET Nat, S # {}, NEW u \in Nat, \A x \in S : x <= u
    PROVE  Max(S) \in S /\ \A x \in S : x <= Max(S)
  <1> DEFINE B == {b \in Nat : \A x \in S : x <= b}
  <1>1. PICK b \in B : \A c \in B : ~(<<c, b>> \in OpToRel(<, Nat))
    <2>1. B # {} /\ B \subseteq Nat
      BY Zenon
    <2> QED
      BY ZenonT(60), <2>1, NatLessThanWellFounded, WFMin
  <1>2. \A c \in B : ~(c < b)
    BY ZenonT(60), <1>1 DEF OpToRel
  <1>3. b \in S
    <2>1. SUFFICES ASSUME b \notin S PROVE FALSE
      BY Zenon
    <2>2. \A x \in S : x < b
      BY <2>1
    <2>3. PICK x \in S : TRUE
      BY ZenonT(60)
    <2>4. b # 0
      BY <2>2, <2>3
    <2>5. b - 1 \in B
      BY <2>2, <2>4
    <2> QED
      BY <1>2, <2>5
  <1>4. \E x \in S : \A y \in S : x >= y
    BY <1>3, Zenon
  <1>5. Max(S) \in S /\ \A y \in S : Max(S) >= y
    BY ZenonT(60), <1>4 DEF Max
  <1> QED
    BY <1>5, Zenon

\* The id of a new row is not in use, on either backend.
LEMMA FreshIdFree ==
    ASSUME NEW t \in Tables, backend = "postgres" => \A i \in IdsOf(t, Names) : i < nextId,
           nextId \in Nat
    PROVE  FreshId(t) \notin IdsOf(t, Names)
  <1>1. IdsOf(t, Names) \subseteq Ids
    BY TablesType, Zenon DEF IdsOf
  <1>2. CASE backend = "postgres"
    BY <1>1, <1>2 DEF FreshId, Ids
  <1>3. CASE backend # "postgres"
    <2> DEFINE S == {0} \cup IdsOf(t, Names)
    <2>1. S \subseteq Nat /\ S # {} /\ MaxId \in Nat /\ \A x \in S : x <= MaxId
      BY <1>1, EntriesAssumption DEF Ids
    <2>2. Max(S) \in S /\ \A x \in S : x <= Max(S)
      BY <2>1, LargestExists, Zenon
    <2>3. FreshId(t) = 1 + Max(S)
      BY <1>3, Zenon DEF FreshId
    <2>4. PICK k \in Nat : k = Max(S) /\ \A x \in S : x <= k
      BY <2>1, <2>2, Zenon
    <2>5. 1 + k \notin S
      BY <2>1, <2>4
    <2> QED
      BY <2>3, <2>4, <2>5, ZenonT(60)
  <1> QED
    BY <1>2, <1>3, Zenon

\* Neither backend gives a session an id that is in use.
LEMMA SeenFresh ==
    ASSUME TablesInv
    PROVE  \A s \in Sessions : FreshId(Seen(s)) \notin IdsOf(Seen(s), Names)
  <1>1. nextId \in Nat
    BY EntriesAssumption DEF TablesInv, TypeOK
  <1> QED
    BY <1>1, SeenGood, FreshIdFree, ZenonT(60)
----------------------------------------------------------------------------
(***************************************************************************)
(* Replaying a batch on a map.                                             *)
(***************************************************************************)

\* The replay of one operation more
Then(r, o) == [ok |-> r.ok /\ Map!Legal(r.map, o), map |-> Map!Effect(r.map, o)]

\* f is the replay of the first k operations of b
IsRun(f, m, b, k) ==
    f = [i \in 0 .. k |-> IF i = 0 THEN [ok |-> TRUE, map |-> m] ELSE Then(f[i - 1], b[i])]

\* The recursive definition of Run defines a function.
LEMMA RunExists ==
    ASSUME NEW m, NEW b, NEW k \in Nat
    PROVE  \E f : IsRun(f, m, b, k)
  <1> DEFINE S == {l \in Nat : ~\E f : IsRun(f, m, b, l)}
  <1>1. SUFFICES ASSUME S # {} PROVE FALSE
    BY Zenon
  <1>2. PICK l \in S : \A j \in S : l <= j
    BY ZenonT(60), <1>1, LeastExists
  <1>3. CASE l = 0
    <2>1. IsRun([i \in 0 .. 0 |-> [ok |-> TRUE, map |-> m]], m, b, 0)
      BY DEF IsRun
    <2> QED
      BY <1>2, <1>3, <2>1, Zenon
  <1>4. CASE l # 0
    <2>1. l - 1 \in Nat /\ l - 1 \notin S
      BY <1>2, <1>4
    <2>2. PICK f : IsRun(f, m, b, l - 1)
      BY <2>1, Zenon
    <2> DEFINE g == [i \in 0 .. l |-> IF i = l THEN Then(f[l - 1], b[l]) ELSE f[i]]
    <2>3. \A i \in 0 .. l - 1 : g[i] = f[i] /\ g[l] = Then(f[l - 1], b[l])
      BY <2>1
    <2>4. \A i \in 0 .. l - 1 : f[i] = IF i = 0 THEN [ok |-> TRUE, map |-> m] ELSE Then(f[i - 1], b[i])
      BY ZenonT(60), <2>2 DEF IsRun
    <2>5. ASSUME NEW i \in 0 .. l
          PROVE  g[i] = IF i = 0 THEN [ok |-> TRUE, map |-> m] ELSE Then(g[i - 1], b[i])
      <3>1. CASE i = l
        <4>1. l - 1 \in 0 .. l - 1
          BY <2>1
        <4> QED
          BY <1>4, <2>3, <3>1, <4>1, ZenonT(60)
      <3>2. CASE i # l
        <4>1. i \in 0 .. l - 1 /\ (i # 0 => i - 1 \in 0 .. l - 1)
          BY <3>2
        <4> QED
          BY ZenonT(60), <2>3, <2>4, <4>1
      <3> QED
        BY <3>1, <3>2, Zenon
    <2>6. IsRun(g, m, b, l)
      <3>1. g = [i \in 0 .. l |-> g[i]]
        BY Zenon
      <3> HIDE DEF g
      <3> QED
        BY ZenonT(60), <2>5, <3>1 DEF IsRun
    <2> QED
      BY <1>2, <2>6, Zenon
  <1> QED
    BY <1>3, <1>4, Zenon

\* What Run is: the replay of all operations
LEMMA RunIsRun ==
    ASSUME NEW m, NEW b \in Seq(Ops)
    PROVE  IsRun(Map!Run(m, b), m, b, Len(b))
  <1>1. Len(b) \in Nat
    OBVIOUS
  <1>2. \E f : IsRun(f, m, b, Len(b))
    BY ZenonT(60), <1>1, RunExists
  <1>3. Map!Run(m, b) = CHOOSE f : IsRun(f, m, b, Len(b))
    BY Zenon DEF Map!Run, IsRun, Then
  <1> QED
    BY <1>2, <1>3, Zenon

\* Replaying nothing
LEMMA ReplayEmpty ==
    ASSUME NEW m
    PROVE  Map!Replay(m, <<>>) = [ok |-> TRUE, map |-> m]
  <1> DEFINE f == Map!Run(m, <<>>)
  <1>1. <<>> \in Seq(Ops) /\ Len(<<>>) = 0
    OBVIOUS
  <1>2. IsRun(f, m, <<>>, 0)
    BY ZenonT(60), <1>1, RunIsRun
  <1> HIDE DEF f
  <1>3. f[0] = [ok |-> TRUE, map |-> m]
    BY <1>2 DEF IsRun
  <1> QED
    BY <1>1, <1>3, Zenon DEF Map!Replay, f

\* Replaying one operation more
LEMMA ReplayAppend ==
    ASSUME NEW m, NEW b \in Seq(Ops), NEW o \in Ops
    PROVE  Map!Replay(m, Append(b, o)) = Then(Map!Replay(m, b), o)
  <1> DEFINE c == Append(b, o)
             f == Map!Run(m, b)
             g == Map!Run(m, c)
             k == Len(b)
             S == {i \in 0 .. k : g[i] # f[i]}
  <1>1. /\ k \in Nat
        /\ c \in Seq(Ops)
        /\ Len(c) = k + 1
        /\ c[k + 1] = o
        /\ \A i \in 1 .. k : c[i] = b[i]
    OBVIOUS
  <1>2. IsRun(f, m, b, k) /\ IsRun(g, m, c, k + 1)
    BY <1>1, RunIsRun, ZenonT(60)
  <1> HIDE DEF f, g, c, k
  <1>3. \A i \in 0 .. k : f[i] = IF i = 0 THEN [ok |-> TRUE, map |-> m] ELSE Then(f[i - 1], b[i])
    BY ZenonT(60), <1>2 DEF IsRun
  <1>4. \A i \in 0 .. k + 1 : g[i] = IF i = 0 THEN [ok |-> TRUE, map |-> m] ELSE Then(g[i - 1], c[i])
    BY ZenonT(60), <1>2 DEF IsRun
  <1>5. S = {}
    <2>1. SUFFICES ASSUME S # {} PROVE FALSE
      BY Zenon
    <2>2. S \subseteq Nat
      BY <1>1
    <2>3. PICK i \in S : \A l \in S : i <= l
      BY ZenonT(60), <2>1, <2>2, LeastExists
    <2>4. i \in 0 .. k /\ i \in 0 .. k + 1 /\ i # 0
      <3>1. 0 \in 0 .. k /\ 0 \in 0 .. k + 1
        BY <1>1
      <3>2. g[0] = f[0]
        BY <1>3, <1>4, <3>1, ZenonT(60)
      <3> QED
        BY <1>1, <3>2
    <2>5. i - 1 \in 0 .. k /\ i - 1 \notin S /\ i \in 1 .. k
      BY <1>1, <2>3, <2>4
    <2>6. g[i - 1] = f[i - 1] /\ c[i] = b[i]
      BY <1>1, <2>5, Zenon
    <2> QED
      BY <1>3, <1>4, <2>3, <2>4, <2>6, ZenonT(60)
  <1>6. g[k] = f[k]
    BY <1>1, <1>5
  <1>7. g[k + 1] = Then(g[k], o)
    <2>1. k + 1 \in 0 .. k + 1 /\ k + 1 # 0 /\ (k + 1) - 1 = k
      BY <1>1
    <2> QED
      BY <1>1, <1>4, <2>1, Zenon
  <1> QED
    BY <1>1, <1>6, <1>7, ZenonT(60) DEF Map!Replay, f, g, c, k

\* Replaying a single operation
LEMMA ReplayOne ==
    ASSUME NEW m, NEW o \in Ops
    PROVE  Map!Replay(m, <<o>>) = [ok |-> Map!Legal(m, o), map |-> Map!Effect(m, o)]
  <1>1. <<>> \in Seq(Ops) /\ Append(<<>>, o) = <<o>>
    OBVIOUS
  <1>2. Map!Replay(m, <<o>>) = Then(Map!Replay(m, <<>>), o)
    BY ZenonT(60), <1>1, ReplayAppend
  <1>3. Map!Replay(m, <<>>) = [ok |-> TRUE, map |-> m]
    BY ReplayEmpty, Zenon
  <1>4. Then([ok |-> TRUE, map |-> m], o) = [ok |-> Map!Legal(m, o), map |-> Map!Effect(m, o)]
    BY ZenonT(60) DEF Then, Map!Legal
  <1> QED
    BY ZenonT(60), <1>2, <1>3, <1>4
----------------------------------------------------------------------------
(***************************************************************************)
(* The batch of the transaction.                                           *)
(***************************************************************************)

\* The batch of the transaction grows with its tables; what other sessions commit does
\* not touch the names it holds.
LEMMA WritesKeepBatch ==
    ASSUME TablesInv, BatchInv, NEW s \in Sessions, NEW t, NEW o, Writes(s, t, o)
    PROVE  BatchInv'
  <1> DEFINE Agrees(m, b, h) == \A n \in h : m[n] = EntryAt(b, n)
             Done(m, w, h) == [ok |-> TRUE, map |-> [n \in Names |-> IF n \in h THEN EntryAt(w, n) ELSE m[n]]]
  <1>1. batch \in Seq(Ops) /\ \A m \in Maps : Agrees(m, db, held) => Map!Replay(m, batch) = Done(m, work, held)
    BY Zenon DEF BatchInv
  <1>2. o \in Ops /\ o.names \subseteq Names
    BY Zenon DEF Writes, Performs, Ops
  <1>3. SUFFICES /\ batch' \in Seq(Ops)
                 /\ \A m \in Maps : Agrees(m, db', held') => Map!Replay(m, batch') = Done(m, work', held')
    BY Zenon DEF BatchInv, EntryAt
  <1>4. CASE s # txn
    <2>1. batch' = batch /\ work' = work /\ held' = held
      BY <1>4, Zenon DEF Writes, Write
    <2>2. \A m : Agrees(m, db', held') => Agrees(m, db, held)
      BY <1>4, <2>1, PlainWrites, Zenon
    <2> HIDE DEF Agrees, Done
    <2> QED
      BY <1>1, <2>1, <2>2, ZenonT(60)
  <1>5. CASE s = txn
    <2>1. batch' = Append(batch, o) /\ work' = t /\ held' = held \cup o.names /\ db' = db
      BY <1>5, Zenon DEF Writes, Write
    <2>2. batch' \in Seq(Ops)
      BY SMTT(60), <1>1, <1>2, <2>1
    <2>3. ASSUME NEW m \in Maps, Agrees(m, db', held')
          PROVE  Map!Replay(m, batch') = Done(m, work', held')
      <3> DEFINE c == [n \in Names |-> IF n \in held THEN EntryAt(work, n) ELSE m[n]]
      <3>1. Agrees(m, db, held)
        BY <2>1, <2>3, Zenon
      <3>2. Map!Replay(m, batch) = [ok |-> TRUE, map |-> c]
        BY <1>1, <3>1, Zenon
      <3>3. Map!Replay(m, batch') = Then([ok |-> TRUE, map |-> c], o)
        <4>1. Map!Replay(m, Append(batch, o)) = Then(Map!Replay(m, batch), o)
          BY <1>1, <1>2, ReplayAppend, Zenon
        <4> HIDE DEF c
        <4> QED
          BY <2>1, <3>2, <4>1, Zenon
      <3>4. \A n \in o.names : c[n] = EntryAt(Seen(s), n)
        BY <1>2, <1>5, <2>1, <2>3, SeenGood, ZenonT(60)
      <3>5. Performs(Seen(s), t, o)
        BY Zenon DEF Writes
      <3>6. Map!Legal(c, o)
        BY <1>2, <3>4, <3>5, SeenGood, EntryAtType, SMTT(60) DEF Map!Legal, Performs
      <3>7. ASSUME NEW n \in Names
            PROVE  Map!Effect(c, o)[n] = IF n \in held \cup o.names THEN EntryAt(t, n) ELSE m[n]
        <4>1. CASE n \in o.names
          BY <3>5, <4>1, Zenon DEF Performs, Map!Effect
        <4>2. CASE n \notin o.names /\ n \in held
          BY <1>5, <3>5, <4>2, SeenGood, Zenon DEF Performs, Map!Effect
        <4>3. CASE n \notin o.names /\ n \notin held
          BY <4>3, Zenon DEF Map!Effect
        <4> QED
          BY <4>1, <4>2, <4>3, Zenon
      <3>8. Map!Effect(c, o) = [n \in Names |-> IF n \in held \cup o.names THEN EntryAt(t, n) ELSE m[n]]
        <4>1. Map!Effect(c, o) = [n \in Names |-> Map!Effect(c, o)[n]]
          BY Zenon DEF Map!Effect
        <4> QED
          BY <3>7, <4>1, Zenon
      <3> HIDE DEF c
      <3>9. Then([ok |-> TRUE, map |-> c], o) = [ok |-> TRUE, map |-> Map!Effect(c, o)]
        BY ZenonT(60), <3>6 DEF Then
      <3> QED
        BY <2>1, <3>3, <3>8, <3>9, ZenonT(60)
    <2> QED
      BY <2>2, <2>3, Zenon
  <1> QED
    BY <1>4, <1>5, Zenon

\* A step of the map, or none
Commits ==
    \/ UNCHANGED <<db, last>>
    \/ LET after == Map!Replay(MapOf(db), last')
       IN  after.ok /\ MapOf(db') = after.map

LEMMA WritesCommit ==
    ASSUME TablesInv, NEW s \in Sessions, NEW t, NEW o, Writes(s, t, o)
    PROVE  Commits
  <1>1. CASE s = txn
    BY <1>1, Zenon DEF Writes, Write, Commits
  <1>2. CASE s # txn
    <2>1. db \in Tables /\ Performs(db, db', o) /\ last' = <<o>>
      BY ZenonT(60), <1>2, PlainWrites DEF TablesInv, TypeOK, Writes, Write
    <2>2. o \in Ops /\ Map!Legal(MapOf(db), o) /\ MapOf(db') = Map!Effect(MapOf(db), o)
      BY <2>1, PerformsEffect, Zenon DEF Performs
    <2>3. Map!Replay(MapOf(db), last') = [ok |-> Map!Legal(MapOf(db), o), map |-> Map!Effect(MapOf(db), o)]
      BY <2>1, <2>2, ReplayOne, ZenonT(60)
    <2> QED
      BY <2>2, <2>3 DEF Commits
  <1> QED
    BY <1>1, <1>2, Zenon

\* The transaction starts with an empty batch.
LEMMA BeginKeepsBatch ==
    ASSUME TablesInv, NEW s \in Sessions, Begin(s)
    PROVE  BatchInv' /\ Commits
  <1>1. held = {} /\ batch = <<>>
    BY Zenon DEF TablesInv, Begin
  <1>2. /\ work' = db /\ db' = db /\ batch' = batch /\ held' \in SUBSET Names /\ last' = last
    BY Zenon DEF Begin
  <1>3. BatchInv'
    <2>1. batch' = <<>> /\ <<>> \in Seq(Ops)
      BY <1>1, <1>2
    <2>2. SUFFICES ASSUME NEW m \in Maps, \A n \in held' : m[n] = EntryAt(db', n)
                   PROVE  Map!Replay(m, batch') =
                            [ok |-> TRUE, map |-> [n \in Names |-> IF n \in held' THEN EntryAt(work', n) ELSE m[n]]]
      BY <2>1, Zenon DEF BatchInv, EntryAt
    <2>3. m = [n \in Names |-> IF n \in held' THEN EntryAt(work', n) ELSE m[n]]
      BY <1>2, <2>2, Zenon DEF Maps
    <2>4. Map!Replay(m, <<>>) = [ok |-> TRUE, map |-> m]
      BY ReplayEmpty, Zenon
    <2> QED
      BY ZenonT(60), <2>1, <2>3, <2>4
  <1> QED
    BY <1>2, <1>3, Zenon DEF Commits

\* A row that is held from now on is, in the batch, as committed.
LEMMA FetchKeepsBatch ==
    ASSUME TablesInv, BatchInv, NEW s \in Sessions, NEW n \in KeyNames, NEW c \in Changes,
           UpdateKeyFetch(s, n, c)
    PROVE  BatchInv' /\ Commits
  <1> DEFINE u == Seen(s)
  <1>1. held \subseteq Names /\ n \in Names
    BY Zenon DEF TablesInv, TypeOK, Names
  <1>2. /\ IF s = txn THEN work' = u /\ held' = held \cup {n} ELSE work' = work /\ held' = held
        /\ db' = db /\ batch' = batch /\ last' = last
    BY Zenon DEF UpdateKeyFetch
  <1> HIDE DEF u
  <1>3. BatchInv'
    <2>1. batch \in Seq(Ops) /\ \A m \in Maps : (\A l \in held : m[l] = EntryAt(db, l)) =>
            Map!Replay(m, batch) =
              [ok |-> TRUE, map |-> [l \in Names |-> IF l \in held THEN EntryAt(work, l) ELSE m[l]]]
      BY Zenon DEF BatchInv
    <2>2. SUFFICES ASSUME NEW m \in Maps, \A l \in held' : m[l] = EntryAt(db', l)
                   PROVE  Map!Replay(m, batch') =
                            [ok |-> TRUE, map |-> [l \in Names |-> IF l \in held' THEN EntryAt(work', l) ELSE m[l]]]
      BY ZenonT(60), <1>2, <2>1 DEF BatchInv, EntryAt
    <2>3. Map!Replay(m, batch) =
            [ok |-> TRUE, map |-> [l \in Names |-> IF l \in held THEN EntryAt(work, l) ELSE m[l]]]
      BY <1>2, <2>1, <2>2, Zenon
    <2>4. \A l \in Names : (IF l \in held' THEN EntryAt(work', l) ELSE m[l])
                            = (IF l \in held THEN EntryAt(work, l) ELSE m[l])
      <3>1. CASE s # txn
        BY <1>2, <3>1, Zenon
      <3>2. CASE s = txn
        <4>1. \A l \in held : EntryAt(u, l) = EntryAt(work, l)
          BY <3>2, SeenGood, Zenon DEF u
        <4>2. n \notin held => EntryAt(u, n) = EntryAt(db, n) /\ m[n] = EntryAt(db, n)
          BY <1>1, <1>2, <2>2, <3>2, SeenGood, ZenonT(60) DEF u
        <4> QED
          BY <1>2, <3>2, <4>1, <4>2, ZenonT(60)
      <3> QED
        BY <3>1, <3>2, Zenon
    <2> QED
      BY ZenonT(60), <1>2, <2>3, <2>4
  <1> QED
    BY <1>2, <1>3, Zenon DEF Commits

\* Without a transaction the batch is empty, and done.
LEMMA NoBatch ==
    ASSUME NEW w, NEW m \in Maps
    PROVE  Map!Replay(m, <<>>) =
             [ok |-> TRUE, map |-> [n \in Names |-> IF n \in {} THEN EntryAt(w, n) ELSE m[n]]]
  <1>1. m = [n \in Names |-> IF n \in {} THEN EntryAt(w, n) ELSE m[n]]
    BY Zenon DEF Maps
  <1>2. Map!Replay(m, <<>>) = [ok |-> TRUE, map |-> m]
    BY ReplayEmpty, Zenon
  <1> QED
    BY ZenonT(60), <1>1, <1>2

\* A commit is the batch of the transaction, in one step.
LEMMA EndKeepsBatch ==
    ASSUME TablesInv, BatchInv, NEW s \in Sessions, NEW commit \in BOOLEAN, End(s, commit)
    PROVE  BatchInv' /\ Commits
  <1> DEFINE u == Merge(work, held)
  <1>1. Good(db) /\ Fits(db, work, held) /\ db \in Tables /\ work \in Tables /\ held \subseteq Names
    BY Zenon DEF TablesInv, TypeOK
  <1>2. /\ held' = {} /\ batch' = <<>>
        /\ IF commit THEN db' = u /\ last' = batch ELSE db' = db /\ last' = last
    BY Zenon DEF End
  <1> HIDE DEF u
  <1>3. /\ \A n \in held : EntryAt(u, n) = EntryAt(work, n)
        /\ \A n \in Names \ held : EntryAt(u, n) = EntryAt(db, n)
    BY <1>1, MergeGood, ZenonT(60) DEF u
  <1>4. BatchInv'
    <2>1. held' = {} /\ batch' = <<>> /\ <<>> \in Seq(Ops)
      BY SMTT(60), <1>2
    <2>2. \A m \in Maps : Map!Replay(m, <<>>) =
             [ok |-> TRUE, map |-> [n \in Names |-> IF n \in {} THEN EntryAt(work', n) ELSE m[n]]]
      BY NoBatch, Zenon
    <2> QED
      BY <2>1, <2>2, Zenon DEF BatchInv, EntryAt
  <1>5. Commits
    <2>1. CASE ~commit
      BY <1>2, <2>1, Zenon DEF Commits
    <2>2. CASE commit
      <3> DEFINE m == MapOf(db)
      <3>1. m \in Maps /\ \A n \in Names : m[n] = EntryAt(db, n)
        BY <1>1, MapOfType, EntryAtType, ZenonT(60)
      <3> HIDE DEF m
      <3>2. Map!Replay(m, batch) =
              [ok |-> TRUE, map |-> [n \in Names |-> IF n \in held THEN EntryAt(work, n) ELSE m[n]]]
        BY <1>1, <3>1, Zenon DEF BatchInv
      <3>3. MapOf(u) = [n \in Names |-> IF n \in held THEN EntryAt(work, n) ELSE m[n]]
        BY <1>3, <3>1, ZenonT(60) DEF MapOf
      <3>4. db' = u /\ last' = batch
        BY <1>2, <2>2, ZenonT(60)
      <3> QED
        BY SMTT(60), <3>2, <3>3, <3>4 DEF Commits, m
    <2> QED
      BY <2>1, <2>2, Zenon
  <1> QED
    BY <1>4, <1>5, Zenon

\* Every step keeps the batch in step with the tables, and is a step of the map or none.
LEMMA StepKeepsBatch ==
    ASSUME TablesInv, BatchInv, [Next]_vars
    PROVE  BatchInv' /\ Commits
  <1>1. CASE \E s \in Sessions : \E t, o : Writes(s, t, o)
    BY <1>1, WritesKeepBatch, WritesCommit, ZenonT(60)
  <1>2. CASE \E s \in Sessions : Begin(s)
    BY <1>2, BeginKeepsBatch, Zenon
  <1>3. CASE \E s \in Sessions, n \in KeyNames, c \in Changes : UpdateKeyFetch(s, n, c)
    BY <1>3, FetchKeepsBatch, Zenon
  <1>4. CASE \E s \in Sessions, commit \in BOOLEAN : End(s, commit)
    BY <1>4, EndKeepsBatch, ZenonT(60)
  <1>5. CASE Stays
    BY SMTT(60), <1>5 DEF Stays, BatchInv, EntryAt, Commits
  <1> QED
    BY <1>1, <1>2, <1>3, <1>4, <1>5, StepCases, SeenFresh, ZenonT(60)
----------------------------------------------------------------------------
(***************************************************************************)
(* The pages of a scan.                                                    *)
(***************************************************************************)

\* A query returns finitely many rows: each has its own id.
LEMMA ResultFinite ==
    ASSUME Good(db), NEW h \in SUBSET Names
    PROVE  Result(h) \subseteq Scanned /\ IsFiniteSet(Result(h))
  <1>1. Good(db) /\ db \in Tables
    BY Zenon DEF Good
  <1>2. \A r \in Result(h) : /\ r.name \in Names /\ db.rows[r.name] # None
                             /\ r = [name |-> r.name, entry |-> EntryAt(db, r.name)]
                             /\ EntryAt(db, r.name) \in Entry
    <2>1. SUFFICES ASSUME NEW n \in h, Fetched(db, n) # None
                   PROVE  db.rows[n] # None /\ EntryAt(db, n) \in Entry
      BY DEF Result
    <2>2. EntryAt(db, n) # None
      BY <2>1, Zenon DEF Fetched
    <2> QED
      BY <1>1, <2>2, EntryAtType, ZenonT(60)
  <1>3. Result(h) \subseteq Scanned
    BY SMTT(60), <1>2 DEF Scanned
  <1> DEFINE R == Result(h)
             f == [r \in R |-> db.rows[r.name].id]
  <1> HIDE DEF R
  <1>4. \A r \in R : db.rows[r.name].id \in Ids
    BY <1>1, <1>2, TablesType, ZenonT(60) DEF R
  <1>5. \A q, r \in R : db.rows[q.name].id = db.rows[r.name].id => q = r
    BY SMTT(60), <1>1, <1>2 DEF R, Good
  <1>6. f \in [R -> Ids] /\ \A q, r \in R : f[q] = f[r] => q = r
    BY <1>4, <1>5, Zenon
  <1> HIDE DEF f
  <1>7. f \in Injection(R, Ids)
    BY <1>6, Zenon DEF Injection, IsInjective
  <1>8. IsFiniteSet(Ids)
    BY SMTT(60), FS_Interval, EntriesAssumption DEF Ids
  <1>9. IsFiniteSet(R)
    BY <1>7, <1>8, FS_Injection, Zenon
  <1> QED
    BY <1>3, <1>9, Zenon DEF R

\* A page: rows that are live, all of them unless it is full
LEMMA PageOf ==
    ASSUME NEW rows, IsFiniteSet(rows), NEW page \in Pages(rows)
    PROVE  /\ page \subseteq rows /\ IsFiniteSet(page) /\ Cardinality(page) \in Nat
           /\ EndsAfter(page) => page = rows
  <1>1. page \in SUBSET rows /\ Cardinality(page) = Min({PageSize, Cardinality(rows)})
    BY Zenon DEF Pages
  <1>2. IsFiniteSet(page) /\ (Cardinality(rows) = Cardinality(page) => rows = page)
    BY <1>1, FS_Subset, Zenon
  <1>3. Cardinality(page) \in Nat /\ Cardinality(rows) \in Nat /\ PageSize \in Nat
    BY <1>2, FS_CardinalityType, EntriesAssumption, Zenon
  <1>4. Cardinality(page) \in {PageSize, Cardinality(rows)}
    BY <1>1, <1>3, MinOfTwo, Zenon
  <1>5. EndsAfter(page) => Cardinality(page) = Cardinality(rows)
    BY SMTT(60), <1>3, <1>4 DEF EndsAfter
  <1> QED
    BY <1>1, <1>2, <1>3, <1>5, ZenonT(60)

\* Rows that come with a page are counted once.
LEMMA PageCounted ==
    ASSUME NEW got, NEW page, IsFiniteSet(got), IsFiniteSet(page), got \cap page = {}
    PROVE  Cardinality(got \cup page) = Cardinality(got) + Cardinality(page)
  <1>1. Cardinality(got \cup page) = Cardinality(got) + Cardinality(page) - Cardinality({})
    BY SMTT(60), FS_Union
  <1>2. Cardinality(got) \in Nat /\ Cardinality(page) \in Nat /\ Cardinality({}) = 0
    BY FS_CardinalityType, FS_EmptySet, Zenon
  <1> QED
    BY SMTT(60), <1>1, <1>2

\* Some rows of finitely many are finitely many.
LEMMA SomeFinite ==
    ASSUME NEW S, IsFiniteSet(S), NEW T, T \subseteq S
    PROVE  IsFiniteSet(T)
  BY FS_Subset, Zenon

LEMMA NoneCounted == Cardinality({}) = 0 /\ IsFiniteSet({})
  BY FS_EmptySet, Zenon

\* What FetchNext does to the scan, whether or not it runs the query
LEMMA FetchNextEffect ==
    ASSUME ScanInv, FetchNext
    PROVE  LET first == scan.st = "ready"
               rows == IF first THEN Result(scan.kinds) ELSE scan.rest
           IN  \E page \in Pages(StillLive(rows)) :
                 /\ scan'.st = IF EndsAfter(page) THEN "done" ELSE "on"
                 /\ scan'.kinds = scan.kinds
                 /\ scan'.snap = IF first THEN rows ELSE scan.snap
                 /\ scan'.rest = IF EndsAfter(page) THEN {} ELSE StillLive(rows) \ page
                 /\ scan'.got = scan.got \cup page
                 /\ scan'.count = scan.count + Cardinality(page)
                 /\ scan' = [st |-> scan'.st, kinds |-> scan'.kinds, rest |-> scan'.rest,
                             snap |-> scan'.snap, got |-> scan'.got, count |-> scan'.count]
  <1> DEFINE first == scan.st = "ready"
             rows == IF first THEN Result(scan.kinds) ELSE scan.rest
             live == StillLive(rows)
  <1>1. PICK page \in Pages(live) :
          scan' = [scan EXCEPT !.st = IF EndsAfter(page) THEN "done" ELSE "on",
                               !.snap = IF first THEN rows ELSE @,
                               !.rest = IF EndsAfter(page) THEN {} ELSE live \ page,
                               !.got = @ \cup page,
                               !.count = @ + Cardinality(page)]
    BY ZenonT(60) DEF FetchNext
  <1>2. scan = [st |-> scan.st, kinds |-> scan.kinds, rest |-> scan.rest,
                snap |-> scan.snap, got |-> scan.got, count |-> scan.count]
    BY Zenon DEF ScanInv
  <1> HIDE DEF first, rows, live
  <1>3. scan' = [st |-> IF EndsAfter(page) THEN "done" ELSE "on", kinds |-> scan.kinds,
                 rest |-> IF EndsAfter(page) THEN {} ELSE live \ page,
                 snap |-> IF first THEN rows ELSE scan.snap,
                 got |-> scan.got \cup page, count |-> scan.count + Cardinality(page)]
    BY ZenonT(60), <1>1, <1>2
  <1> QED
    BY ZenonT(60), <1>3 DEF first, rows, live

\* The next page comes from the rows that are left; a page that is not full is the last.
LEMMA FetchNextKeeps ==
    ASSUME TablesInv, ScanInv, FetchNext
    PROVE  ScanInv'
  <1> DEFINE first == scan.st = "ready"
             rows == IF first THEN Result(scan.kinds) ELSE scan.rest
             live == StillLive(rows)
             snap == IF first THEN rows ELSE scan.snap
  <1>1. PICK page \in Pages(live) :
                 /\ scan'.st = IF EndsAfter(page) THEN "done" ELSE "on"
                 /\ scan'.kinds = scan.kinds
                 /\ scan'.snap = snap
                 /\ scan'.rest = IF EndsAfter(page) THEN {} ELSE live \ page
                 /\ scan'.got = scan.got \cup page
                 /\ scan'.count = scan.count + Cardinality(page)
                 /\ scan' = [st |-> scan'.st, kinds |-> scan'.kinds, rest |-> scan'.rest,
                             snap |-> scan'.snap, got |-> scan'.got, count |-> scan'.count]
    BY FetchNextEffect, Zenon
  <1>2. /\ scan.kinds \in SUBSET Names /\ scan.rest \subseteq Scanned /\ scan.snap \subseteq Scanned
        /\ scan.got \subseteq Scanned /\ scan.count \in Nat
        /\ scan.st = "ready" => scan.got = {} /\ scan.count = 0
        /\ scan.st \in {"on", "done"} =>
             /\ IsFiniteSet(scan.snap)
             /\ scan.got \cup scan.rest \subseteq scan.snap
             /\ scan.got \cap scan.rest = {}
             /\ Cardinality(scan.got) = scan.count
             /\ \A r \in scan.snap : Live(r.entry) => r \in scan.got \cup scan.rest
        /\ scan.st \in {"ready", "on"}
    BY Zenon DEF ScanInv, FetchNext
  <1>3. Result(scan.kinds) \subseteq Scanned /\ IsFiniteSet(Result(scan.kinds))
    BY <1>2, ResultFinite, ZenonT(60) DEF TablesInv
  <1>4. /\ snap \subseteq Scanned /\ IsFiniteSet(snap)
        /\ scan.got \cup rows \subseteq snap
        /\ scan.got \cap rows = {}
        /\ Cardinality(scan.got) = scan.count
        /\ \A r \in snap : Live(r.entry) => r \in scan.got \cup rows
    BY <1>2, <1>3, NoneCounted, ZenonT(60)
  <1>5. live \subseteq rows /\ \A r \in rows : Live(r.entry) => r \in live
    BY Zenon DEF StillLive
  <1>6. now' = now
    BY Zenon DEF FetchNext
  <1> HIDE DEF first, rows, live, snap
  <1>7. IsFiniteSet(live) /\ IsFiniteSet(scan.got)
    BY <1>4, <1>5, SomeFinite, ZenonT(60)
  <1>8. /\ page \subseteq live /\ IsFiniteSet(page) /\ Cardinality(page) \in Nat
        /\ EndsAfter(page) => page = live
    BY <1>1, <1>7, PageOf, ZenonT(60)
  <1>9. scan.got \cap page = {}
    BY <1>4, <1>5, <1>8, ZenonT(60)
  <1>10. Cardinality(scan'.got) = scan'.count
    BY <1>1, <1>4, <1>7, <1>8, <1>9, PageCounted, ZenonT(60)
  <1>11. scan'.got \cup scan'.rest \subseteq scan'.snap /\ scan'.got \cap scan'.rest = {}
    BY <1>1, <1>4, <1>5, <1>8, ZenonT(60)
  <1>12. \A r \in scan'.snap : Live(r.entry) => r \in scan'.got \cup scan'.rest
    BY <1>1, <1>4, <1>5, <1>8, ZenonT(60)
  <1>13. scan' \in [st : {"off", "ready", "on", "done", "over"}, kinds : SUBSET Names,
                    rest : SUBSET Scanned, snap : SUBSET Scanned, got : SUBSET Scanned, count : Nat]
    <2>1. scan'.st \in {"on", "done"} /\ scan'.count \in Nat /\ scan'.kinds \in SUBSET Names
      BY <1>1, <1>2, <1>8, SMTT(60)
    <2>2. scan'.snap \subseteq Scanned /\ scan'.got \subseteq Scanned /\ scan'.rest \subseteq Scanned
      BY <1>1, <1>4, <1>11, ZenonT(60)
    <2> QED
      BY <1>1, <2>1, <2>2, ZenonT(60)
  <1>14. scan'.st \in {"on", "done"} /\ IsFiniteSet(scan'.snap) /\ (scan'.st = "done" => scan'.rest = {})
    BY <1>1, <1>4, ZenonT(60)
  <1> QED
    BY <1>6, <1>10, <1>11, <1>12, <1>13, <1>14, ZenonT(60) DEF ScanInv, Live

\* The other actions leave the scan alone, open it or end it; rows only expire.
LEMMA ScanStays ==
    ASSUME TypeOK, ScanInv, now' \in Nat, now <= now',
           \/ scan' = scan
           \/ ScanEnd
           \/ \E names \in SUBSET Names : ScanOpen(names)
    PROVE  ScanInv'
  <1>1. CASE scan' = scan
    <2>1. \A r \in scan.snap : r.entry.expiry \in Nat
      <3>1. \A r \in scan.snap : r.entry \in Entry
        BY Zenon DEF ScanInv, Scanned
      <3>2. \A e \in Entry : e.expiry \in Nat
        BY EntriesAssumption, SMTT(60) DEF Entry, Times, Never
      <3> QED
        BY <3>1, <3>2, ZenonT(60)
    <2>2. now \in Nat
      BY EntriesAssumption DEF TypeOK
    <2>3. \A r \in scan.snap : Live(r.entry)' => Live(r.entry)
      BY <2>1, <2>2 DEF Live
    <2> QED
      BY <1>1, <2>3, ZenonT(60) DEF ScanInv, Live
  <1>2. CASE ScanEnd
    BY <1>2, Zenon DEF ScanEnd, ScanInv, NoScan
  <1>3. CASE \E names \in SUBSET Names : ScanOpen(names)
    <2>1. PICK names \in SUBSET Names : scan' = [NoScan EXCEPT !.st = "ready", !.kinds = names]
      BY ZenonT(60), <1>3 DEF ScanOpen
    <2>2. scan' = [st |-> "ready", kinds |-> names, rest |-> {}, snap |-> {}, got |-> {}, count |-> 0]
      BY ZenonT(60), <2>1 DEF NoScan
    <2> QED
      BY <2>2, Zenon DEF ScanInv
  <1> QED
    BY <1>1, <1>2, <1>3, ZenonT(60)
----------------------------------------------------------------------------
(***************************************************************************)
(* The invariant, and what follows from it.                                *)
(***************************************************************************)
IInv == TablesInv /\ BatchInv /\ ScanInv

LEMMA InitIInv == ASSUME Init PROVE IInv
  <1>1. /\ backend \in Backends /\ now = 0 /\ db = NoRows /\ nextId = 1 /\ txn = None /\ work = NoRows
        /\ held = {} /\ batch = <<>> /\ pending = [s \in Sessions |-> None] /\ ops = 0 /\ scan = NoScan
    BY Zenon DEF Init
  <1>2. Good(db) /\ db \in Tables /\ work \in Tables /\ IdsOf(db, Names) = {}
    BY <1>1, NoRowsGood, Zenon
  <1>3. TypeOK
    <2>1. /\ now \in 0 .. MaxTime /\ nextId \in 1 .. MaxId + 1 /\ ops \in 0 .. MaxOps
      BY SMTT(60), <1>1, EntriesAssumption
    <2>2. /\ txn \in Sessions \cup {None} /\ held \subseteq Names /\ scan.st = "off"
          /\ pending \in [Sessions -> Pending \cup {None}]
      BY <1>1, Zenon DEF NoScan
    <2>3. \A m, n \in Names : db.rows[m] # None /\ db.rows[n] # None /\ db.rows[m].id = db.rows[n].id => m = n
      BY ZenonT(60), <1>2 DEF Good
    <2> QED
      BY <1>1, <1>2, <2>1, <2>2, <2>3, ZenonT(60) DEF TypeOK
  <1>4. Fits(db, work, held) /\ IdsOf(work, held) = {}
    <2>1. \A t : IdsOf(t, {}) = {}
      BY Zenon DEF IdsOf
    <2> QED
      BY ZenonT(60), <1>1, <2>1 DEF Fits
  <1>5. TablesInv
    BY <1>1, <1>2, <1>3, <1>4, ZenonT(60) DEF TablesInv, Ahead, Fetches
  <1>6. BatchInv
    BY <1>1, NoBatch, SMTT(60) DEF BatchInv
  <1>7. ScanInv
    BY <1>1, Zenon DEF ScanInv, NoScan
  <1> QED
    BY <1>5, <1>6, <1>7, ZenonT(60) DEF IInv

LEMMA StepKeepsScan == ASSUME TablesInv, ScanInv, [Next]_vars PROVE ScanInv'
  <1>1. TypeOK /\ now \in Nat
    BY SMTT(60), EntriesAssumption DEF TablesInv, TypeOK
  <1>2. CASE FetchNext
    BY <1>2, FetchNextKeeps, ZenonT(60)
  <1>3. ASSUME scan' = scan, now' = now PROVE ScanInv'
    BY <1>1, <1>3, ScanStays, SMTT(60)
  <1>4. CASE Tick
    BY <1>1, <1>4, ScanStays, SMTT(60) DEF Tick
  <1>5. CASE ScanEnd
    BY <1>1, <1>5, ScanStays, SMTT(60) DEF ScanEnd
  <1>6. CASE \E names \in {ItemNames, Names} : ScanOpen(names)
    <2>1. \E names \in SUBSET Names : ScanOpen(names)
      BY <1>6, ZenonT(60) DEF Names
    <2>2. now' = now
      BY <2>1, ZenonT(60) DEF ScanOpen
    <2>3. now' \in Nat /\ now <= now'
      BY <1>1, <2>2, SMTT(60)
    <2> QED
      BY <1>1, <2>1, <2>3, ScanStays, ZenonT(60)
  <1>7. CASE UNCHANGED vars
    BY <1>3, <1>7, ZenonT(60) DEF vars
  <1>8. ASSUME NEW s \in Sessions, NEW t, NEW names, NEW o, Write(s, t, names, o) PROVE ScanInv'
    BY <1>3, <1>8, ZenonT(60) DEF Write
  <1>9. CASE \E s \in Sessions :
               \/ Begin(s)
               \/ \E commit \in BOOLEAN : End(s, commit)
               \/ \E n \in KeyNames, c \in Changes : UpdateKeyFetch(s, n, c)
    BY <1>3, <1>9, ZenonT(60) DEF Begin, End, UpdateKeyFetch
  <1>10. CASE \E s \in Sessions :
               \/ \E n \in ItemNames, g \in Given : Insert(s, n, ItemEntry(g)) \/ Replace(s, n, ItemEntry(g))
               \/ \E n \in KeyNames, g \in Given : Insert(s, n, KeyEntry(g))
               \/ \E n \in Names : RemoveEntry(s, n)
               \/ \E u \in UserTags : RemoveAll(s, UserTag(u))
    BY <1>8, <1>10, ZenonT(60) DEF Insert, Replace, RemoveEntry, RemoveAll
  <1>11. CASE \E s \in Sessions : UpdateKeyStore(s)
    BY ZenonT(60), <1>3, <1>8, <1>11 DEF UpdateKeyStore
  <1> QED
    BY <1>2, <1>4, <1>5, <1>6, <1>7, <1>9, <1>10, <1>11, ZenonT(60) DEF Next

\* The invariant is inductive, and every step is a step of the map or none.
LEMMA IInvStep == ASSUME IInv, [Next]_vars PROVE IInv' /\ Commits
  <1>1. TablesInv /\ BatchInv /\ ScanInv
    BY Zenon DEF IInv
  <1>2. ScanInv'
    BY <1>1, StepKeepsScan, Zenon
  <1>3. scan'.st \in {"off", "ready", "on", "done", "over"}
    BY <1>2, Zenon DEF ScanInv
  <1>4. TablesInv'
    BY <1>1, <1>3, StepKeepsTables, SeenFresh, ZenonT(60)
  <1>5. BatchInv' /\ Commits
    BY <1>1, StepKeepsBatch, Zenon
  <1> QED
    BY <1>2, <1>4, <1>5, ZenonT(60) DEF IInv

LEMMA IInvAlways == Spec => []IInv
  <1>1. IInv /\ [Next]_vars => IInv'
    BY IInvStep, Zenon
  <1> QED
    BY <1>1, InitIInv, PTL DEF Spec

\* The tables are in order in every reachable state: no two rows share an id, although
\* SQLite gives out ids again and Postgres' sequence moves on when an insert is rolled
\* back, and the tags of a key describe the key material of its row.
THEOREM EntriesInOrder == Spec => []RowsInOrder
  <1>1. IInv => RowsInOrder
    BY ZenonT(60) DEF IInv, TablesInv, Good, RowsInOrder, KeyTagsMatch, Own
  <1> QED
    BY <1>1, IInvAlways, PTL

\* In a transaction session, update_key replaces the row that it fetched: whatever other
\* sessions do in between, they cannot change it.
THEOREM UpdateKeyReplacesFetched == Spec => []UpdateKeyIsolated
  <1>1. IInv => UpdateKeyIsolated
    BY SeenGood, ZenonT(60) DEF IInv, TablesInv, Fetches, UpdateKeyIsolated
  <1> QED
    BY <1>1, IInvAlways, PTL

\* A scan returns rows of the moment of its first page, each once, and every one that is
\* still live, for every page size.
THEOREM ScansAreConsistent == Spec => []ScanConsistent
  <1>1. IInv => ScanConsistent
    BY Zenon DEF IInv, ScanInv, ScanConsistent
  <1> QED
    BY <1>1, IInvAlways, PTL

\* The joined tables implement the map of EntryMap: each commit, of one operation or of
\* the batch of a transaction, is one step in which every operation finds the map it
\* needs and replaces whole entries.
THEOREM TablesImplementMap == Spec => ImplementsMap
  <1>1. Init => Map!Init
    <2>1. \A n \in Names : EntryAt(NoRows, n) = None
      BY Zenon DEF NoRows, EntryAt
    <2> QED
      BY <2>1, Zenon DEF Init, Map!Init
  <1>2. IInv /\ [Next]_vars => [Map!Next]_<<[n \in Names |-> EntryAt(db, n)], last>>
    <2>1. SUFFICES ASSUME Commits PROVE [Map!Next]_<<[n \in Names |-> EntryAt(db, n)], last>>
      BY IInvStep, Zenon
    <2>2. CASE UNCHANGED <<db, last>>
      BY <2>2, Zenon DEF EntryAt
    <2>3. CASE LET after == Map!Replay(MapOf(db), last')
               IN  after.ok /\ MapOf(db') = after.map
      <3>1. Map!Next
        BY ZenonT(60), <2>3 DEF Map!Next, MapOf, EntryAt
      <3> QED
        BY <3>1, Zenon
    <2> QED
      BY <2>1, <2>2, <2>3, ZenonT(60) DEF Commits
  <1> QED
    BY <1>1, <1>2, IInvAlways, PTL DEF Spec, ImplementsMap, Map!Spec
=============================================================================
