------------------------- MODULE OdbcStatementProofs -------------------------
(***************************************************************************)
(* The invariant OInv of OdbcBackend, and the steps that run statements:   *)
(* those of a call of a session, and the direct calls on the backend; and  *)
(* what ends a transaction, or passes it on with its connection.           *)
(*                                                                         *)
(* OInv has five parts.  Types is what the variables hold.  Holding is who *)
(* has a connection and in which mode: with autocommit nothing is pending. *)
(* InFlight ties the calls of the sessions to the open changes of the log. *)
(* BooksKept makes rows and log add up: a row in a table is of a change    *)
(* that stands, a pending row of such a change or of its own transaction,  *)
(* and an insert whose row is gone was overwritten by a change at least as *)
(* good as itself.  KeyInv follows the store key through a rekey, row by   *)
(* row.  Books is a statement about sets and functions alone, so that what *)
(* a commit, a rollback or a statement does to it is shown once.           *)
(***************************************************************************)
EXTENDS OdbcBackend, TLAPS

(***************************************************************************)
(* What the variables hold.                                                *)
(***************************************************************************)
ProfRows == [t : {"prof"}, id : Nat, name : Profiles, wrap : Nat, tok : Nat]
ItemRows == [t : {"item"}, id : Nat, pid : Nat, name : Names, tok : Nat]
TagRows == [t : {"tag"}, item : Nat, tag : UNION TagSets, tok : Nat]
ConfigRows == [t : {"config"}, name : {"key"}, value : Nat]
              \cup [t : {"config"}, name : {"default_profile"}, value : Profiles]

Row == ProfRows \cup ItemRows \cup TagRows \cup ConfigRows

Conn == [holder : Sessions \cup {Nobody, "rekey"}, auto : BOOLEAN,
         add : SUBSET Row, del : SUBSET Row]

Fates == {"open", "kept", "dropped", "leaked", "undone"}

Entry == [op : {"insert", "replace", "remove", "remove_all", "create", "drop", "default", "rekey"},
          conn : Conns \cup {Nobody}, at : Nat \X (Names \cup Profiles),
          tags : SUBSET UNION TagSets, fate : Fates, ok : BOOLEAN, over : SUBSET Nat]

IdleSession == [st : {"open"}, conn : Conns, txn : BOOLEAN, gen : Nat, profile : Profiles,
                pc : {"idle"}]
BusySession == [st : {"open"}, conn : Conns, txn : BOOLEAN, gen : Nat, profile : Profiles,
                pc : {"insert", "replace", "remove", "remove_all", "delete_tags", "item_id", "tag"},
                pid : Nat, name : Names, tok : Nat, item : Nat, tags : SUBSET UNION TagSets]
Session == {FreeSession} \cup IdleSession \cup BusySession

Adm == {NoCall}
       \cup [op : {"create"}, name : Profiles, pid : Nat]
       \cup [op : {"rekey"}, conn : Conns, todo : SUBSET ProfRows, any : BOOLEAN, key : Nat]

Types ==
    /\ db \subseteq Row
    /\ conn \in [Conns -> Conn]
    /\ caches \in Seq([key : Nat, ids : SUBSET (Profiles \X Nat)]) /\ caches # <<>>
    /\ sess \in [Sessions -> Session]
    /\ \A s \in Sessions : sess[s].st = "open" => sess[s].gen \in DOMAIN caches
    /\ adm \in Adm
    /\ nextId \in [prof : Nat, item : Nat]
    /\ log \in Seq(Entry)
    /\ dirty \subseteq Conns
    /\ torn \in BOOLEAN

(***************************************************************************)
(* Who has a connection, and in which mode.                                *)
(***************************************************************************)
IsOpen(s) == sess[s].st = "open"

Holding ==
    /\ \A c \in Conns : conn[c].auto => conn[c].add = {} /\ conn[c].del = {}
    /\ \A s \in Sessions : IsOpen(s) =>
          conn[sess[s].conn].holder = s /\ sess[s].txn = ~conn[sess[s].conn].auto
    /\ \A c \in Conns \ dirty : conn[c].holder \in {Nobody, "rekey"} => conn[c].auto
    /\ adm.op = "rekey" => conn[adm.conn].holder = "rekey"

(***************************************************************************)
(* The log, and what is in the tables of each change.                      *)
(***************************************************************************)
Busy(s) == IsOpen(s) /\ sess[s].pc # "idle"

Live(t) == log[t].fate \in {"open", "dropped"}

InFlight ==
    /\ \A s \in Sessions : Busy(s) =>
          /\ sess[s].tok \in Tokens
          /\ log[sess[s].tok].conn = sess[s].conn
          /\ log[sess[s].tok].fate = "open" /\ ~log[sess[s].tok].ok
          /\ log[sess[s].tok].op \in {"insert", "replace", "remove", "remove_all"}
          /\ sess[s].pc = "insert" => log[sess[s].tok].op = "insert"
          /\ log[sess[s].tok].op = "insert" => sess[s].pc \in {"insert", "item_id", "tag"}
          /\ sess[s].pc \in {"item_id", "tag"} => sess[s].tags # {}
    /\ \A t \in Tokens : Live(t) =>
          /\ log[t].conn \in Conns
          /\ conn[log[t].conn].auto => \E s \in Sessions : Busy(s) /\ sess[s].tok = t
    /\ \A t \in Tokens : log[t].op \in {"create", "drop", "default", "rekey"} => log[t].fate # "open"

\* A change that nothing takes back any more.
Fixed(t) == \/ log[t].fate \in {"kept", "leaked"}
            \/ log[t].fate = "open" /\ conn[log[t].conn].auto

FixedToks == {t \in Tokens : Fixed(t)}

\* The changes that are part of the transaction a connection has open.
TxnToks == [c \in Conns |-> IF conn[c].auto THEN {} ELSE OpenOn(c)]

\* The inserts that have put their row in place.
Inserted ==
    {t \in Tokens : /\ log[t].op \in {"insert", "create"}
                    /\ \/ log[t].ok
                       \/ \E s \in Sessions : /\ Busy(s) /\ sess[s].tok = t
                                              /\ sess[s].pc \in {"item_id", "tag"}}

Adds == [c \in Conns |-> conn[c].add]
Dels == [c \in Conns |-> conn[c].del]
Overs == [t \in Tokens |-> log[t].over]

Wrote(r) == r.t \in {"item", "tag", "prof"} /\ r.tok # 0
Main(r) == r.t \in {"item", "prof"} /\ r.tok # 0

\* The row of change t is among the rows, or another of the changes has deleted it.
Accounted(t, rows, toks, over) ==
    \/ \E r \in rows : Main(r) /\ r.tok = t
    \/ \E u \in toks : t \in over[u]

\* The books: rows in the table are of changes F that stand, rows pending on a connection
\* c of those or of the changes O[c] of its transaction; and no row of an insert is gone
\* but by a change as good as its own.
Books(D, A, X, F, O, I, over) ==
    /\ 0 \notin F /\ \A c \in Conns : 0 \notin O[c]
    /\ \A r \in D : Wrote(r) => r.tok \in F
    /\ \A c \in Conns : \A r \in A[c] : Wrote(r) => r.tok \in F \cup O[c]
    /\ \A t \in F \cap I : Accounted(t, D, F, over)
    /\ \A c \in Conns : \A t \in O[c] \cap I : Accounted(t, A[c], O[c], over)
    /\ \A c \in Conns : \A r \in X[c] : Main(r) => Accounted(r.tok, A[c], O[c], over)

BooksKept == Books(db, Adds, Dels, FixedToks, TxnToks, Inserted, Overs)

(***************************************************************************)
(* The store key.                                                          *)
(***************************************************************************)
KeyRow(k) == k.t = "config" /\ k.name = "key"

\* A profile that has to be under the store key.
Good(r) == r.t = "prof" /\ (r.tok # 0 => log[r.tok].fate = "kept")

Rewrapping == adm.op = "rekey" /\ adm.any

KeyInv ==
    /\ \A r \in db : r.t = "prof" /\ r.tok # 0 => log[r.tok].op = "create"
    /\ \A c \in Conns : \A r \in conn[c].add : r.t = "prof" /\ r.tok # 0 => log[r.tok].op = "create"
    /\ ~torn =>
        /\ \A k, j \in db : KeyRow(k) /\ KeyRow(j) => k.value = j.value
        /\ up => \A k \in db : KeyRow(k) => k.value = Backend.key
        /\ \A c \in Conns : \A k \in Pending(c) : ~KeyRow(k)
        /\ \A c \in Conns : \A r \in conn[c].add : r.t = "prof" =>
              \/ r.tok # 0 /\ log[r.tok].fate \in {"dropped", "leaked"}
              \/ Rewrapping /\ adm.conn = c
        /\ ~(Rewrapping /\ conn[adm.conn].auto) =>
              \A r, k \in db : Good(r) /\ KeyRow(k) => r.wrap = k.value
        /\ adm.op = "rekey" /\ conn[adm.conn].auto =>
              \A r \in db : Good(r) => r.wrap = adm.key \/ \E q \in adm.todo : q.id = r.id
----------------------------------------------------------------------------
(***************************************************************************)
(* The books, apart from the state that they are about.                    *)
(***************************************************************************)
\* What is accounted for stays so as long as rows go only where a change says so.
LEMMA AccountedStays ==
    ASSUME NEW t, NEW R, NEW Q, NEW U, NEW V, NEW o, NEW p,
           Accounted(t, R, U, o),
           \A u \in U : u \in V /\ o[u] \subseteq p[u],
           \A r \in R : Main(r) => Accounted(r.tok, Q, V, p)
    PROVE  Accounted(t, Q, V, p)
  <1>1. CASE \E r \in R : Main(r) /\ r.tok = t
    BY <1>1, Zenon
  <1>2. CASE \E u \in U : t \in o[u]
    BY <1>2, Zenon DEF Accounted
  <1> QED
    BY <1>1, <1>2, Zenon DEF Accounted

\* The change has more to its name than before, or as much.
More(F, G, O, P, o, p) ==
    /\ 0 \notin G /\ \A c \in Conns : 0 \notin P[c]
    /\ \A t \in F : t \in G /\ o[t] \subseteq p[t]
    /\ \A c \in Conns : \A t \in O[c] : t \in P[c] /\ o[t] \subseteq p[t]

\* No row changes.
SameRows(D, A, X, F, G, O, P, I, J, o, p) ==
    /\ Books(D, A, X, F, O, I, o)
    /\ More(F, G, O, P, o, p)
    /\ \A t \in G \cap J : t \in F \cap I
    /\ \A c \in Conns : \A t \in P[c] \cap J : t \in O[c] \cap I

LEMMA BooksSame ==
    ASSUME NEW D, NEW A, NEW X, NEW F, NEW G, NEW O, NEW P, NEW I, NEW J, NEW o, NEW p,
           SameRows(D, A, X, F, G, O, P, I, J, o, p)
    PROVE  Books(D, A, X, G, P, J, p)
  <1> USE DEF SameRows
  <1>1. ASSUME NEW t \in G \cap J PROVE Accounted(t, D, G, p)
    <2>1. Accounted(t, D, F, o)
      BY Zenon DEF Books
    <2> QED
      BY <2>1, Zenon DEF Accounted, More
  <1>2. ASSUME NEW c \in Conns, NEW t, Accounted(t, A[c], O[c], o)
        PROVE  Accounted(t, A[c], P[c], p)
    BY <1>2, Zenon DEF Accounted, More
  <1> QED
    BY <1>1, <1>2, Zenon DEF Books, More

\* What a statement may do to the rows: what it adds is of the changes toks, and what it
\* deletes it puts back, or one of the changes U answers for it.
Answers(del, add, toks, U, p) ==
    /\ \A r \in add : Wrote(r) => r.tok \in toks
    /\ \A r \in del : Main(r) => Accounted(r.tok, add, U, p)

\* A statement in the transaction of connection c.
PendingRows(D, A, B, X, Y, F, G, O, P, I, J, o, p, c, del, add) ==
    /\ Books(D, A, X, F, O, I, o)
    /\ More(F, G, O, P, o, p)
    /\ \A d \in Conns \ {c} : B[d] = A[d] /\ Y[d] = X[d]
    /\ B[c] = (A[c] \ del) \cup add
    /\ Y[c] = X[c] \cup del
    /\ Answers(del, add, G \cup P[c], P[c], p)
    /\ \A t \in G \cap J : t \in F \cap I
    /\ \A d \in Conns \ {c} : \A t \in P[d] \cap J : t \in O[d] \cap I
    /\ \A t \in P[c] \cap J : t \in O[c] \cap I \/ \E q \in add : Main(q) /\ q.tok = t

LEMMA BooksPending ==
    ASSUME NEW D, NEW A, NEW B, NEW X, NEW Y, NEW F, NEW G, NEW O, NEW P, NEW I, NEW J,
           NEW o, NEW p, NEW c \in Conns, NEW del, NEW add,
           PendingRows(D, A, B, X, Y, F, G, O, P, I, J, o, p, c, del, add)
    PROVE  Books(D, B, Y, G, P, J, p)
  <1> USE DEF PendingRows
  <1>1. ASSUME NEW t \in G \cap J PROVE Accounted(t, D, G, p)
    <2>1. Accounted(t, D, F, o)
      BY Zenon DEF Books
    <2> QED
      BY <2>1, Zenon DEF Accounted, More
  <1>2. ASSUME NEW d \in Conns \ {c}, NEW t, Accounted(t, A[d], O[d], o)
        PROVE  Accounted(t, B[d], P[d], p)
    BY <1>2, Zenon DEF Accounted, More
  <1>3. ASSUME NEW t, Accounted(t, A[c], O[c], o)
        PROVE  Accounted(t, B[c], P[c], p)
    <2>1. ASSUME NEW r \in A[c], Main(r) PROVE Accounted(r.tok, B[c], P[c], p)
      BY <2>1, Zenon DEF Accounted, Answers
    <2>2. CASE \E r \in A[c] : Main(r) /\ r.tok = t
      BY <2>1, <2>2, Zenon
    <2>3. CASE \E v \in O[c] : t \in o[v]
      BY <2>3, Zenon DEF Accounted, More
    <2> QED
      BY <1>3, <2>2, <2>3, Zenon DEF Accounted
  <1>4. ASSUME NEW r \in del, Main(r) PROVE Accounted(r.tok, B[c], P[c], p)
    BY <1>4, Zenon DEF Accounted, Answers
  <1>5. ASSUME NEW d \in Conns, NEW t \in P[d] \cap J PROVE Accounted(t, B[d], P[d], p)
    <2>1. CASE d = c
      <3>1. CASE t \in O[c] \cap I
        BY <2>1, <3>1, <1>3, Zenon DEF Books
      <3>2. CASE \E q \in add : Main(q) /\ q.tok = t
        BY <2>1, <3>2, Zenon DEF Accounted
      <3> QED
        BY <2>1, <3>1, <3>2, Zenon
    <2>2. CASE d # c
      BY <2>2, <1>2, Zenon DEF Books
    <2> QED
      BY <2>1, <2>2, Zenon
  <1>6. ASSUME NEW d \in Conns, NEW r \in Y[d], Main(r) PROVE Accounted(r.tok, B[d], P[d], p)
    <2>1. CASE d = c
      <3>1. CASE r \in X[c]
        BY <2>1, <3>1, <1>3, <1>6, Zenon DEF Books
      <3>2. CASE r \in del
        BY <2>1, <3>2, <1>4, <1>6, Zenon
      <3> QED
        BY <2>1, <3>1, <3>2, Zenon
    <2>2. CASE d # c
      BY <2>2, <1>2, <1>6, Zenon DEF Books
    <2> QED
      BY <2>1, <2>2, Zenon
  <1>7. ASSUME NEW d \in Conns, NEW r \in B[d], Wrote(r) PROVE r.tok \in G \cup P[d]
    <2>1. CASE d = c
      BY <2>1, <1>7, Zenon DEF Books, More, Answers
    <2>2. CASE d # c
      BY <2>2, <1>7, Zenon DEF Books, More
    <2> QED
      BY <2>1, <2>2, Zenon
  <1>8. \A r \in D : Wrote(r) => r.tok \in G
    BY Zenon DEF Books, More
  <1> QED
    BY <1>1, <1>5, <1>6, <1>7, <1>8, Zenon DEF Books, More

\* A statement with autocommit.
AutoRows(D, A, X, F, G, O, P, I, J, o, p, del, add) ==
    /\ Books(D, A, X, F, O, I, o)
    /\ More(F, G, O, P, o, p)
    /\ Answers(del, add, G, G, p)
    /\ \A c \in Conns : \A t \in P[c] \cap J : t \in O[c] \cap I
    /\ \A t \in G \cap J : t \in F \cap I \/ \E q \in add : Main(q) /\ q.tok = t

LEMMA BooksAuto ==
    ASSUME NEW D, NEW A, NEW X, NEW F, NEW G, NEW O, NEW P, NEW I, NEW J,
           NEW o, NEW p, NEW del, NEW add,
           AutoRows(D, A, X, F, G, O, P, I, J, o, p, del, add)
    PROVE  Books((D \ del) \cup add, A, X, G, P, J, p)
  <1> USE DEF AutoRows
  <1> DEFINE E == (D \ del) \cup add
  <1>1. ASSUME NEW t \in G \cap J PROVE Accounted(t, E, G, p)
    <2>1. CASE t \in F \cap I
      <3>1. Accounted(t, D, F, o)
        BY <2>1, Zenon DEF Books
      <3>2. ASSUME NEW r \in D, Main(r) PROVE Accounted(r.tok, E, G, p)
        BY <3>2, Zenon DEF Accounted, Answers
      <3>3. \A v \in F : v \in G /\ o[v] \subseteq p[v]
        BY Zenon DEF More
      <3> HIDE DEF E
      <3> QED
        BY <3>1, <3>2, <3>3, AccountedStays, Zenon
    <2>2. CASE \E q \in add : Main(q) /\ q.tok = t
      BY <2>2, Zenon DEF Accounted
    <2> QED
      BY <2>1, <2>2, Zenon
  <1>2. ASSUME NEW c \in Conns, NEW t, Accounted(t, A[c], O[c], o)
        PROVE  Accounted(t, A[c], P[c], p)
    BY <1>2, Zenon DEF Accounted, More
  <1>3. \A r \in E : Wrote(r) => r.tok \in G
    BY Zenon DEF Books, More, Answers
  <1> HIDE DEF E
  <1>4. Books(E, A, X, G, P, J, p)
    BY <1>1, <1>2, <1>3, Zenon DEF Books, More
  <1> QED
    BY <1>4, Zenon DEF E

\* The transaction of connection c ends: its rows are committed, and its changes stand.
CommittedRows(D, A, B, X, Y, F, G, O, P, I, J, o, p, c) ==
    /\ Books(D, A, X, F, O, I, o)
    /\ 0 \notin G
    /\ \A d \in Conns : 0 \notin P[d]
    /\ \A t \in F \cup O[c] : t \in G /\ o[t] \subseteq p[t]
    /\ \A d \in Conns \ {c} : \A t \in O[d] : t \in P[d] /\ o[t] \subseteq p[t]
    /\ \A d \in Conns \ {c} : B[d] = A[d] /\ Y[d] = X[d]
    /\ B[c] = {}
    /\ Y[c] = {}
    /\ P[c] = {}
    /\ \A t \in G \cap J : t \in (F \cup O[c]) \cap I
    /\ \A d \in Conns \ {c} : \A t \in P[d] \cap J : t \in O[d] \cap I

LEMMA BooksCommit ==
    ASSUME NEW D, NEW A, NEW B, NEW X, NEW Y, NEW F, NEW G, NEW O, NEW P, NEW I, NEW J,
           NEW o, NEW p, NEW c \in Conns,
           CommittedRows(D, A, B, X, Y, F, G, O, P, I, J, o, p, c)
    PROVE  Books((D \ X[c]) \cup A[c], B, Y, G, P, J, p)
  <1> USE DEF CommittedRows
  <1> DEFINE E == (D \ X[c]) \cup A[c]
  <1>1. ASSUME NEW t, Accounted(t, A[c], O[c], o) PROVE Accounted(t, E, G, p)
    BY <1>1, Zenon DEF Accounted
  <1>2. ASSUME NEW t, Accounted(t, A[c], O[c], p) PROVE Accounted(t, E, G, p)
    BY <1>2, Zenon DEF Accounted
  <1>3. ASSUME NEW t, Accounted(t, D, F, o) PROVE Accounted(t, E, G, p)
    <2>1. ASSUME NEW r \in D, Main(r) PROVE Accounted(r.tok, E, G, p)
      <3>1. CASE r \in X[c]
        BY <2>1, <3>1, <1>1, Zenon DEF Books
      <3>2. CASE r \notin X[c]
        BY <2>1, <3>2, Zenon DEF Accounted
      <3> QED
        BY <3>1, <3>2, Zenon
    <2>2. \A v \in F : v \in G /\ o[v] \subseteq p[v]
      BY Zenon
    <2> HIDE DEF E
    <2> QED
      BY <1>3, <2>1, <2>2, AccountedStays, SMTT(60)
  <1>4. ASSUME NEW d \in Conns \ {c}, NEW t, Accounted(t, A[d], O[d], o)
        PROVE  Accounted(t, B[d], P[d], p)
    BY <1>4, Zenon DEF Accounted
  <1>5. \A r \in E : Wrote(r) => r.tok \in G
    BY Zenon DEF Books
  <1>6. \A d \in Conns : \A r \in B[d] : Wrote(r) => r.tok \in G \cup P[d]
    <2> SUFFICES ASSUME NEW d \in Conns, NEW r \in B[d], Wrote(r) PROVE r.tok \in G \cup P[d]
      BY Zenon
    <2>1. d # c
      BY Zenon
    <2> QED
      BY <2>1, Zenon DEF Books
  <1>7. \A t \in G \cap J : Accounted(t, E, G, p)
    BY <1>1, <1>3, Zenon DEF Books
  <1>8. \A d \in Conns : \A t \in P[d] \cap J : Accounted(t, B[d], P[d], p)
    <2> SUFFICES ASSUME NEW d \in Conns, NEW t \in P[d] \cap J PROVE Accounted(t, B[d], P[d], p)
      BY Zenon
    <2>1. d # c
      BY Zenon
    <2> QED
      BY <1>4, <2>1, Zenon DEF Books
  <1>9. \A d \in Conns : \A r \in Y[d] : Main(r) => Accounted(r.tok, B[d], P[d], p)
    <2> SUFFICES ASSUME NEW d \in Conns, NEW r \in Y[d], Main(r) PROVE Accounted(r.tok, B[d], P[d], p)
      BY Zenon
    <2>1. d # c
      BY Zenon
    <2> QED
      BY <1>4, <2>1, Zenon DEF Books
  <1> HIDE DEF E
  <1>10. Books(E, B, Y, G, P, J, p)
    BY <1>5, <1>6, <1>7, <1>8, <1>9, Zenon DEF Books
  <1> QED
    BY <1>10, Zenon DEF E

\* Transactions end and leave nothing: those of the connections in C.
DroppedRows(D, A, B, X, Y, F, G, O, P, I, J, o, p, C) ==
    /\ Books(D, A, X, F, O, I, o)
    /\ 0 \notin G
    /\ \A d \in Conns : 0 \notin P[d]
    /\ \A t \in F : t \in G /\ o[t] \subseteq p[t]
    /\ \A d \in Conns \ C : \A t \in O[d] : t \in P[d] /\ o[t] \subseteq p[t]
    /\ \A d \in Conns \ C : B[d] = A[d] /\ Y[d] = X[d]
    /\ \A d \in Conns \cap C : B[d] = {} /\ Y[d] = {} /\ P[d] = {}
    /\ \A t \in G \cap J : t \in F \cap I
    /\ \A d \in Conns \ C : \A t \in P[d] \cap J : t \in O[d] \cap I

LEMMA BooksRollback ==
    ASSUME NEW D, NEW A, NEW B, NEW X, NEW Y, NEW F, NEW G, NEW O, NEW P, NEW I, NEW J,
           NEW o, NEW p, NEW C,
           DroppedRows(D, A, B, X, Y, F, G, O, P, I, J, o, p, C)
    PROVE  Books(D, B, Y, G, P, J, p)
  <1> USE DEF DroppedRows
  <1>1. ASSUME NEW t \in G \cap J PROVE Accounted(t, D, G, p)
    <2>1. Accounted(t, D, F, o)
      BY Zenon DEF Books
    <2> QED
      BY <2>1, Zenon DEF Accounted
  <1>2. ASSUME NEW d \in Conns \ C, NEW t, Accounted(t, A[d], O[d], o)
        PROVE  Accounted(t, B[d], P[d], p)
    BY <1>2, Zenon DEF Accounted
  <1>3. \A d \in Conns : \A r \in B[d] : Wrote(r) => r.tok \in G \cup P[d]
    <2> SUFFICES ASSUME NEW d \in Conns, NEW r \in B[d], Wrote(r) PROVE r.tok \in G \cup P[d]
      BY Zenon
    <2>1. d \notin C
      BY Zenon
    <2> QED
      BY <2>1, Zenon DEF Books
  <1>4. \A d \in Conns : \A t \in P[d] \cap J : Accounted(t, B[d], P[d], p)
    <2> SUFFICES ASSUME NEW d \in Conns, NEW t \in P[d] \cap J PROVE Accounted(t, B[d], P[d], p)
      BY Zenon
    <2>1. d \notin C
      BY Zenon
    <2> QED
      BY <1>2, <2>1, Zenon DEF Books
  <1>5. \A d \in Conns : \A r \in Y[d] : Main(r) => Accounted(r.tok, B[d], P[d], p)
    <2> SUFFICES ASSUME NEW d \in Conns, NEW r \in Y[d], Main(r) PROVE Accounted(r.tok, B[d], P[d], p)
      BY Zenon
    <2>1. d \notin C
      BY Zenon
    <2> QED
      BY <1>2, <2>1, Zenon DEF Books
  <1>6. \A r \in D : Wrote(r) => r.tok \in G
    BY Zenon DEF Books
  <1> QED
    BY <1>1, <1>3, <1>4, <1>5, <1>6, Zenon DEF Books
----------------------------------------------------------------------------
(***************************************************************************)
(* The log as a sequence.                                                  *)
(***************************************************************************)
\* A function on the indices of a sequence is a sequence of the same length.
LEMMA SeqLike ==
    ASSUME NEW S, NEW l \in Seq(S), NEW m,
           m = [t \in 1..Len(l) |-> m[t]], \A t \in 1..Len(l) : m[t] \in S
    PROVE  m \in Seq(S) /\ Len(m) = Len(l)
  BY SMTT(60)

LEMMA LogTyped ==
    ASSUME Types
    PROVE  /\ \A t \in Tokens : t \in Nat /\ t # 0 /\ log[t] \in Entry
           /\ DOMAIN log = Tokens
           /\ log = [t \in Tokens |-> log[t]]
           /\ Len(log) + 1 \in Nat /\ Len(log) + 1 # 0 /\ Len(log) + 1 \notin Tokens
           /\ 0 \notin Tokens
  BY SMTT(60) DEF Types, Tokens

\* The log after a step that starts no change.
LEMMA LogChanged ==
    ASSUME Types, log' = [t \in Tokens |-> log'[t]], \A t \in Tokens : log'[t] \in Entry
    PROVE  log' \in Seq(Entry) /\ Tokens' = Tokens
  <1>1. log \in Seq(Entry)
    BY Zenon DEF Types
  <1>2. log' = [t \in 1..Len(log) |-> log'[t]] /\ \A t \in 1..Len(log) : log'[t] \in Entry
    BY Zenon DEF Tokens
  <1>3. log' \in Seq(Entry) /\ Len(log') = Len(log)
    BY <1>1, <1>2, SeqLike, SMTT(60)
  <1> QED
    BY <1>3, Zenon DEF Tokens

\* The log after a step that starts change n and leaves the others as they are.
Started(n, e) ==
    /\ n \notin Tokens /\ n # 0
    /\ log' \in Seq(Entry)
    /\ Tokens' = Tokens \cup {n}
    /\ log'[n] = e
    /\ \A t \in Tokens : log'[t] = log[t]

LEMMA LogAppended ==
    ASSUME Types, NEW e \in Entry, log' = Append(log, e)
    PROVE  Started(Len(log) + 1, e)
  BY SMTT(60) DEF Types, Tokens, Started

LEMMA LogReplaced ==
    ASSUME Types, NEW d \in Entry, NEW e \in Entry,
           log' = [Append(log, d) EXCEPT ![Len(log) + 1] = e]
    PROVE  Started(Len(log) + 1, e)
  <1> DEFINE l == Append(log, d)
             n == Len(log) + 1
  <1>1. /\ log \in Seq(Entry) /\ n \in Nat /\ n \notin Tokens /\ n # 0
        /\ l \in Seq(Entry) /\ DOMAIN l = 1..Len(l) /\ Len(l) = n /\ l[n] = d
        /\ \A t \in Tokens : l[t] = log[t] /\ t # n /\ t \in 1..Len(l) /\ log[t] \in Entry
        /\ 1..n = Tokens \cup {n}
    BY SMTT(60) DEF Types, Tokens
  <1> HIDE DEF l, n
  <1>2. log' = [l EXCEPT ![n] = e]
    BY Zenon DEF l, n
  <1>3. \A t \in 1..Len(l) : l[t] \in Entry
    BY <1>1, Zenon
  <1>4. log' = [t \in 1..Len(l) |-> log'[t]] /\ \A t \in 1..Len(l) : log'[t] \in Entry
    BY <1>1, <1>2, <1>3, SMTT(60)
  <1>5. log' \in Seq(Entry) /\ Len(log') = Len(l)
    BY <1>1, <1>4, SeqLike, SMTT(60)
  <1>6. Tokens' = Tokens \cup {n}
    BY <1>1, <1>5, Zenon DEF Tokens
  <1>7. log'[n] = e /\ \A t \in Tokens : log'[t] = log[t]
    BY <1>1, <1>2, Zenon
  <1>8. Started(n, e)
    BY <1>1, <1>5, <1>6, <1>7, Zenon DEF Started
  <1> QED
    BY <1>8, Zenon DEF n

\* What settling a change, and its call's answer, make of its entry.
SettledAs(e, f, d) ==
    /\ d \in Entry /\ d.op = e.op /\ d.over = e.over /\ d.fate = f
    /\ f \in {"open", "dropped"} => d.conn = e.conn
    /\ f \notin {"open", "dropped"} => d.conn = Nobody

LEMMA SettledEntry ==
    ASSUME NEW e \in Entry, NEW f \in Fates
    PROVE  /\ SettledAs(e, f, Settled(e, f)) /\ Settled(e, f).ok = e.ok
           /\ \A b \in BOOLEAN : /\ SettledAs(e, f, [Settled(e, f) EXCEPT !.ok = b])
                                 /\ [Settled(e, f) EXCEPT !.ok = b].ok = b
  <1> DEFINE c == IF f \in {"open", "dropped"} THEN e.conn ELSE Nobody
  <1>1. c \in Conns \cup {Nobody} /\ f \in Fates
    BY Zenon DEF Entry
  <1>2. Settled(e, f) = [e EXCEPT !.fate = f, !.conn = c]
    BY SMTT(60) DEF Settled, Entry
  <1> HIDE DEF c
  <1>3. DEFINE k == [e EXCEPT !.fate = f, !.conn = c]
  <1>4. /\ k \in Entry /\ k.op = e.op /\ k.ok = e.ok /\ k.over = e.over
        /\ k.fate = f /\ k.conn = c
    <2>1. /\ k.op = e.op /\ k.ok = e.ok /\ k.over = e.over /\ k.at = e.at /\ k.tags = e.tags
          /\ k.fate = f /\ k.conn = c
      BY SMTT(60) DEF Entry
    <2>2. k \in Entry
      BY <1>1, ZenonT(60) DEF Entry
    <2> QED
      BY <2>1, <2>2, Zenon
  <1> HIDE DEF k
  <1>5. \A b \in BOOLEAN : /\ [k EXCEPT !.ok = b] \in Entry
                           /\ [k EXCEPT !.ok = b].op = k.op
                           /\ [k EXCEPT !.ok = b].ok = b
                           /\ [k EXCEPT !.ok = b].over = k.over
                           /\ [k EXCEPT !.ok = b].fate = k.fate
                           /\ [k EXCEPT !.ok = b].conn = k.conn
    BY <1>4, SMTT(60) DEF Entry
  <1>6. Settled(e, f) = k
    BY <1>2, Zenon DEF k
  <1>7. /\ f \in {"open", "dropped"} => c = e.conn
        /\ f \notin {"open", "dropped"} => c = Nobody
    BY Zenon DEF c
  <1>8. SettledAs(e, f, k) /\ k.ok = e.ok
    BY <1>4, <1>7, Zenon DEF SettledAs
  <1>9. \A b \in BOOLEAN : SettledAs(e, f, [k EXCEPT !.ok = b]) /\ [k EXCEPT !.ok = b].ok = b
    BY <1>4, <1>5, <1>7, Zenon DEF SettledAs
  <1> QED
    BY <1>6, <1>8, <1>9, Zenon
----------------------------------------------------------------------------
(***************************************************************************)
(* Rows, and statements that change them.                                  *)
(***************************************************************************)
LEMMA RowKinds ==
    ASSUME NEW r \in Row
    PROVE  /\ r.t = "prof" => r \in ProfRows
           /\ r.t = "item" => r \in ItemRows
           /\ r.t = "tag" => r \in TagRows
           /\ r.t = "config" => r \in ConfigRows
           /\ r.t \in {"prof", "item", "tag"} => "tok" \in DOMAIN r /\ r.tok \in Nat
           /\ r.t \in {"prof", "item", "tag", "config"}
  BY SMTT(60) DEF Row, ProfRows, ItemRows, TagRows, ConfigRows

LEMMA ConnTyped ==
    ASSUME Types, NEW c \in Conns
    PROVE  /\ conn[c] \in Conn /\ conn[c].holder \in Sessions \cup {Nobody, "rekey"}
           /\ conn[c].auto \in BOOLEAN
           /\ conn[c].add \subseteq Row /\ conn[c].del \subseteq Row
           /\ View(c) \subseteq Row
  BY Zenon DEF Types, Conn, View

\* What a statement on connection c does to the rows.
Moved(c, del, add) ==
    /\ \A d \in Conns : conn'[d].auto = conn[d].auto
    /\ \A d \in Conns \ {c} : conn'[d].add = conn[d].add /\ conn'[d].del = conn[d].del
    /\ conn[c].auto => /\ db' = (db \ del) \cup add
                       /\ conn'[c].add = conn[c].add /\ conn'[c].del = conn[c].del
    /\ ~conn[c].auto => /\ db' = db
                        /\ conn'[c].add = (conn[c].add \ del) \cup add
                        /\ conn'[c].del = conn[c].del \cup del

\* All it does to the tables and to the connections.
Ran(c, del, add) ==
    /\ Moved(c, del, add)
    /\ db' \subseteq Row
    /\ conn' \in [Conns -> Conn]
    /\ \A d \in Conns : conn'[d].holder = conn[d].holder

LEMMA ExecRan ==
    ASSUME Types, NEW c \in Conns, NEW del \in SUBSET Row, NEW add \in SUBSET Row,
           Exec(c, del, add)
    PROVE  Ran(c, del, add)
  <1>1. CASE conn[c].auto
    BY <1>1, Zenon DEF Types, Exec, Ran, Moved
  <1>2. CASE ~conn[c].auto
    <2> DEFINE a == (conn[c].add \ del) \cup add
               x == conn[c].del \cup del
    <2>1. db' = db /\ conn' = [conn EXCEPT ![c].add = a, ![c].del = x]
      BY <1>2, Zenon DEF Exec
    <2>2. a \in SUBSET Row /\ x \in SUBSET Row
      BY ConnTyped, Zenon
    <2> HIDE DEF a, x
    <2>3. /\ conn' \in [Conns -> Conn]
          /\ \A d \in Conns \ {c} : conn'[d] = conn[d]
          /\ conn'[c].auto = conn[c].auto /\ conn'[c].holder = conn[c].holder
          /\ conn'[c].add = a /\ conn'[c].del = x
      <3> DEFINE k == [conn[c] EXCEPT !.add = a, !.del = x]
      <3>1. conn' = [conn EXCEPT ![c] = k] /\ conn \in [Conns -> Conn]
        BY <2>1, Zenon DEF Types
      <3>2. k \in Conn /\ k.auto = conn[c].auto /\ k.holder = conn[c].holder
        BY <2>2, ConnTyped, ZenonT(60) DEF Conn
      <3>3. k.add = a /\ k.del = x
        BY ConnTyped, ZenonT(60) DEF Conn
      <3> HIDE DEF k
      <3> QED
        BY <3>1, <3>2, <3>3, Zenon
    <2>4. \A d \in Conns : conn'[d].auto = conn[d].auto /\ conn'[d].holder = conn[d].holder
      BY <2>3, Zenon
    <2>5. /\ conn'[c].add = (conn[c].add \ del) \cup add
          /\ conn'[c].del = conn[c].del \cup del
      BY <2>3, Zenon DEF a, x
    <2>6. db' \subseteq Row
      BY <2>1, Zenon DEF Types
    <2> QED
      BY <1>2, <2>1, <2>3, <2>4, <2>5, <2>6, Zenon DEF Ran, Moved
  <1> QED
    BY <1>1, <1>2, Zenon

\* A statement that leaves no change of its own open does not disturb who holds what.
LEMMA RanHolding ==
    ASSUME Holding, NEW c \in Conns, NEW del, NEW add, Ran(c, del, add),
           dirty' = dirty,
           adm'.op = "rekey" => adm.op = "rekey" /\ adm'.conn = adm.conn /\ adm.conn \in Conns,
           \A s \in Sessions : IsOpen(s)' => /\ IsOpen(s) /\ sess[s].conn \in Conns
                                             /\ sess'[s].conn = sess[s].conn
                                             /\ sess'[s].txn = sess[s].txn
    PROVE  Holding'
  <1>1. \A d \in Conns : conn'[d].auto => conn'[d].add = {} /\ conn'[d].del = {}
    BY Zenon DEF Holding, Ran, Moved
  <1>2. \A s \in Sessions : IsOpen(s)' =>
           conn'[sess'[s].conn].holder = s /\ sess'[s].txn = ~conn'[sess'[s].conn].auto
    <2> SUFFICES ASSUME NEW s \in Sessions, IsOpen(s)'
                 PROVE  conn'[sess'[s].conn].holder = s /\ sess'[s].txn = ~conn'[sess'[s].conn].auto
      BY Zenon
    <2> DEFINE d == sess[s].conn
    <2>1. d \in Conns /\ sess'[s].conn = d /\ sess'[s].txn = sess[s].txn
      BY Zenon
    <2>2. conn[d].holder = s /\ sess[s].txn = ~conn[d].auto
      BY Zenon DEF Holding
    <2> HIDE DEF d
    <2>3. conn'[d].holder = conn[d].holder /\ conn'[d].auto = conn[d].auto
      BY <2>1, Zenon DEF Ran, Moved
    <2> QED
      BY <2>1, <2>2, <2>3
  <1>3. \A d \in Conns \ dirty' : conn'[d].holder \in {Nobody, "rekey"} => conn'[d].auto
    BY Zenon DEF Holding, Ran, Moved
  <1>4. adm'.op = "rekey" => conn'[adm'.conn].holder = "rekey"
    <2> SUFFICES ASSUME adm'.op = "rekey" PROVE conn'[adm'.conn].holder = "rekey"
      BY Zenon
    <2>1. adm.op = "rekey" /\ adm'.conn = adm.conn /\ adm.conn \in Conns
      BY Zenon
    <2>2. conn[adm.conn].holder = "rekey"
      BY <2>1, Zenon DEF Holding
    <2>3. conn'[adm.conn].holder = conn[adm.conn].holder
      BY <2>1, Zenon DEF Ran, Moved
    <2> QED
      BY <2>1, <2>2, <2>3
  <1> QED
    BY <1>1, <1>2, <1>3, <1>4, Zenon DEF Holding

\* The changes whose rows a statement may add and that answer for those it deletes.
Allowed(c) == IF conn[c].auto THEN FixedToks ELSE TxnToks[c]

\* A statement on connection c whose rows the changes it may act for answer for.
RanFor(c, del, add) ==
    /\ Moved(c, del, add)
    /\ More(FixedToks, FixedToks', TxnToks, TxnToks', Overs, Overs')
    /\ Answers(del, add, FixedToks' \cup Allowed(c)', Allowed(c)', Overs')
    /\ \A t \in Inserted' \ Inserted :
          /\ \E q \in add : Main(q) /\ q.tok = t
          /\ conn[c].auto => \A d \in Conns : t \notin TxnToks'[d]
          /\ ~conn[c].auto => t \notin FixedToks' /\ \A d \in Conns \ {c} : t \notin TxnToks'[d]
    /\ \A t \in Inserted : t \in FixedToks' => t \in FixedToks
    /\ \A t \in Inserted : \A d \in Conns : t \in TxnToks'[d] => t \in TxnToks[d]

LEMMA RanBooks ==
    ASSUME NEW c \in Conns, NEW del, NEW add, RanFor(c, del, add), BooksKept
    PROVE  BooksKept'
  <1> USE DEF RanFor
  <1>0. /\ \A d \in Conns : /\ Adds[d] = conn[d].add /\ Dels[d] = conn[d].del
                            /\ Adds'[d] = conn'[d].add /\ Dels'[d] = conn'[d].del
        /\ conn'[c].auto = conn[c].auto
    BY Zenon DEF Adds, Dels, Moved
  <1>1. CASE conn[c].auto
    <2>1. Answers(del, add, FixedToks', FixedToks', Overs')
      BY <1>0, <1>1, Zenon DEF Allowed, Answers
    <2>2. Adds' = Adds /\ Dels' = Dels
      <3>1. \A d \in Conns : conn'[d].add = conn[d].add /\ conn'[d].del = conn[d].del
        BY <1>1, Zenon DEF Moved
      <3> QED
        BY <3>1, Zenon DEF Adds, Dels
    <2>3. \A d \in Conns : \A t \in TxnToks'[d] \cap Inserted' : t \in TxnToks[d] \cap Inserted
      BY <1>1, Zenon
    <2>4. \A t \in FixedToks' \cap Inserted' :
             t \in FixedToks \cap Inserted \/ \E q \in add : Main(q) /\ q.tok = t
      BY Zenon
    <2>5. AutoRows(db, Adds, Dels, FixedToks, FixedToks', TxnToks, TxnToks', Inserted, Inserted',
                   Overs, Overs', del, add)
      BY <2>1, <2>3, <2>4, Zenon DEF BooksKept, AutoRows
    <2>7. Books((db \ del) \cup add, Adds, Dels, FixedToks', TxnToks', Inserted', Overs')
      BY <2>5, BooksAuto, Zenon
    <2>6. db' = (db \ del) \cup add
      BY <1>1, Zenon DEF Moved
    <2> QED
      BY <2>2, <2>6, <2>7, Zenon DEF BooksKept
  <1>2. CASE ~conn[c].auto
    <2>1. Answers(del, add, FixedToks' \cup TxnToks'[c], TxnToks'[c], Overs')
      BY <1>0, <1>2, Zenon DEF Allowed, Answers
    <2>2. /\ \A d \in Conns \ {c} : Adds'[d] = Adds[d] /\ Dels'[d] = Dels[d]
          /\ Adds'[c] = (Adds[c] \ del) \cup add /\ Dels'[c] = Dels[c] \cup del
      <3>1. /\ \A d \in Conns \ {c} : conn'[d].add = conn[d].add /\ conn'[d].del = conn[d].del
            /\ conn'[c].add = (conn[c].add \ del) \cup add /\ conn'[c].del = conn[c].del \cup del
        BY <1>2, Zenon DEF Moved
      <3>2. ASSUME NEW d \in Conns \ {c} PROVE Adds'[d] = Adds[d] /\ Dels'[d] = Dels[d]
        <4>1. /\ Adds[d] = conn[d].add /\ Dels[d] = conn[d].del
              /\ Adds'[d] = conn'[d].add /\ Dels'[d] = conn'[d].del
          BY <1>0, Zenon
        <4>2. conn'[d].add = conn[d].add /\ conn'[d].del = conn[d].del
          BY <3>1, Zenon
        <4> QED
          BY <4>1, <4>2
      <3>3. Adds'[c] = (Adds[c] \ del) \cup add /\ Dels'[c] = Dels[c] \cup del
        BY <1>0, <3>1, SMTT(60)
      <3> QED
        BY <3>2, <3>3, Zenon
    <2>3. \A t \in FixedToks' \cap Inserted' : t \in FixedToks \cap Inserted
      BY <1>2, Zenon
    <2>4. \A d \in Conns \ {c} : \A t \in TxnToks'[d] \cap Inserted' : t \in TxnToks[d] \cap Inserted
      BY <1>2, Zenon
    <2>5. \A t \in TxnToks'[c] \cap Inserted' :
             t \in TxnToks[c] \cap Inserted \/ \E q \in add : Main(q) /\ q.tok = t
      BY Zenon
    <2>8. PendingRows(db, Adds, Adds', Dels, Dels', FixedToks, FixedToks', TxnToks, TxnToks',
                      Inserted, Inserted', Overs, Overs', c, del, add)
      BY <2>1, <2>2, <2>3, <2>4, <2>5, Zenon DEF BooksKept, PendingRows
    <2>6. Books(db, Adds', Dels', FixedToks', TxnToks', Inserted', Overs')
      BY <2>8, BooksPending, Zenon
    <2>7. db' = db
      BY <1>2, Zenon DEF Moved
    <2> QED
      BY <2>6, <2>7, Zenon DEF BooksKept
  <1> QED
    BY <1>1, <1>2, Zenon
----------------------------------------------------------------------------
(***************************************************************************)
(* The store key, in the steps that are not of a rekey.                    *)
(***************************************************************************)
\* The changes that have rows are in the log.
RowsLogged ==
    /\ \A r \in db : Wrote(r) => r.tok \in Tokens
    /\ \A c \in Conns : \A r \in conn[c].add : Wrote(r) => r.tok \in Tokens

LEMMA BooksLogged ==
    ASSUME BooksKept
    PROVE  RowsLogged
  <1>1. FixedToks \subseteq Tokens /\ \A c \in Conns : TxnToks[c] \subseteq Tokens
    BY Zenon DEF FixedToks, TxnToks, OpenOn
  <1>2. \A r \in db : Wrote(r) => r.tok \in FixedToks
    BY Zenon DEF BooksKept, Books
  <1>3. \A c \in Conns : \A r \in conn[c].add : Wrote(r) => r.tok \in FixedToks \cup TxnToks[c]
    <2>1. \A c \in Conns : Adds[c] = conn[c].add
      BY Zenon DEF Adds
    <2> QED
      BY <2>1, Zenon DEF BooksKept, Books
  <1> QED
    BY <1>1, <1>2, <1>3, Zenon DEF RowsLogged

Stray(t) == log[t].fate \in {"dropped", "leaked"}

\* What a step may do to profile rows and key rows, to the fates of profiles and to the
\* call in flight.
Creations ==
    \A t \in Tokens : log[t].op = "create" =>
        log'[t].op = "create" /\ (log'[t].fate = "kept" => log[t].fate = "kept")

ProfAdded(r) ==
    /\ r.tok # 0 => log'[r.tok].op = "create"
    /\ ~torn' => /\ r.tok # 0
                 /\ \/ log'[r.tok].fate # "kept"
                    \/ adm'.op # "rekey" /\ \A k \in db : KeyRow(k) => r.wrap = k.value

DbStep ==
    /\ \A r \in db' : r.t = "prof" => r \in db \/ ProfAdded(r)
    /\ \A k \in db' : KeyRow(k) /\ ~torn' => k \in db

ConnStep ==
    /\ \A c \in Conns : \A r \in conn'[c].add : r.t = "prof" =>
          \/ r \in conn[c].add /\ (~torn' /\ r.tok # 0 /\ Stray(r.tok) => Stray(r.tok)')
          \/ r.tok # 0 /\ log'[r.tok].op = "create" /\ Stray(r.tok)'
    /\ \A c \in Conns : \A k \in Pending(c)' : KeyRow(k) /\ ~torn' => k \in Pending(c)

AdmStep ==
    /\ ~torn' => ~torn
    /\ \/ adm' = adm /\ (adm.op = "rekey" => conn'[adm.conn].auto = conn[adm.conn].auto)
       \/ adm'.op # "rekey" /\ (~torn' => ~Rewrapping)
    /\ \/ up' => up /\ Backend'.key = Backend.key
       \/ ~torn' => \A k \in db : KeyRow(k) => k.value = Backend'.key

LEMMA KeyKept ==
    ASSUME KeyInv, RowsLogged, Creations, DbStep, ConnStep, AdmStep
    PROVE  KeyInv'
  <1>0. /\ \A r \in db : r.t = "prof" /\ r.tok # 0 => r.tok \in Tokens /\ log[r.tok].op = "create"
        /\ \A c \in Conns : \A r \in conn[c].add :
              r.t = "prof" /\ r.tok # 0 => r.tok \in Tokens /\ log[r.tok].op = "create"
    BY Zenon DEF KeyInv, RowsLogged, Wrote
  <1>1. \A r \in db' : r.t = "prof" /\ r.tok # 0 => log'[r.tok].op = "create"
    BY <1>0, Zenon DEF DbStep, ProfAdded, Creations
  <1>2. \A c \in Conns : \A r \in conn'[c].add : r.t = "prof" /\ r.tok # 0 => log'[r.tok].op = "create"
    BY <1>0, Zenon DEF ConnStep, Creations
  <1>3. ASSUME ~torn'
        PROVE  /\ \A k, j \in db' : KeyRow(k) /\ KeyRow(j) => k.value = j.value
               /\ up' => \A k \in db' : KeyRow(k) => k.value = Backend'.key
               /\ \A c \in Conns : \A k \in Pending(c)' : ~KeyRow(k)
               /\ \A c \in Conns : \A r \in conn'[c].add : r.t = "prof" =>
                     \/ r.tok # 0 /\ log'[r.tok].fate \in {"dropped", "leaked"}
                     \/ Rewrapping' /\ adm'.conn = c
               /\ ~(Rewrapping' /\ conn'[adm'.conn].auto) =>
                     \A r, k \in db' : Good(r)' /\ KeyRow(k) => r.wrap = k.value
               /\ adm'.op = "rekey" /\ conn'[adm'.conn].auto =>
                     \A r \in db' : Good(r)' => r.wrap = adm'.key \/ \E q \in adm'.todo : q.id = r.id
    <2>0. /\ ~torn
          /\ \A k \in db' : KeyRow(k) => k \in db
          /\ \A r \in db : Good(r)' => Good(r)
      <3>1. \A r \in db : Good(r)' => Good(r)
        BY <1>0, Zenon DEF Good, Creations
      <3> QED
        BY <1>3, <3>1, Zenon DEF AdmStep, DbStep
    <2>1. \A k, j \in db' : KeyRow(k) /\ KeyRow(j) => k.value = j.value
      BY <2>0, Zenon DEF KeyInv
    <2>2. up' => \A k \in db' : KeyRow(k) => k.value = Backend'.key
      BY <1>3, <2>0, Zenon DEF KeyInv, AdmStep
    <2>3. \A c \in Conns : \A k \in Pending(c)' : ~KeyRow(k)
      BY <1>3, <2>0, Zenon DEF KeyInv, ConnStep
    <2>4. ASSUME NEW c \in Conns, NEW r \in conn'[c].add, r.t = "prof"
          PROVE  \/ r.tok # 0 /\ log'[r.tok].fate \in {"dropped", "leaked"}
                 \/ Rewrapping' /\ adm'.conn = c
      <3>1. CASE r.tok # 0 /\ log'[r.tok].op = "create" /\ Stray(r.tok)'
        BY <3>1, Zenon DEF Stray
      <3>2. CASE r \in conn[c].add /\ (~torn' /\ r.tok # 0 /\ Stray(r.tok) => Stray(r.tok)')
        <4>1. \/ r.tok # 0 /\ Stray(r.tok)
              \/ Rewrapping /\ adm.conn = c
          BY <2>0, <2>4, <3>2, Zenon DEF KeyInv, Stray
        <4>2. CASE r.tok # 0 /\ Stray(r.tok)
          BY <1>3, <3>2, <4>2, Zenon DEF Stray
        <4>3. CASE Rewrapping /\ adm.conn = c
          BY <1>3, <4>3, Zenon DEF AdmStep, Rewrapping
        <4> QED
          BY <4>1, <4>2, <4>3, Zenon
      <3> QED
        BY <2>4, <3>1, <3>2, Zenon DEF ConnStep
    <2>5. ASSUME ~(Rewrapping' /\ conn'[adm'.conn].auto), NEW r \in db', NEW k \in db',
                 Good(r)', KeyRow(k)
          PROVE  r.wrap = k.value
      <3>1. ~(Rewrapping /\ conn[adm.conn].auto)
        BY <1>3, <2>5, Zenon DEF AdmStep, Rewrapping
      <3>2. CASE r \in db
        BY <2>0, <2>5, <3>1, <3>2, Zenon DEF KeyInv
      <3>3. CASE ProfAdded(r)
        BY <1>3, <2>0, <2>5, <3>3, Zenon DEF ProfAdded, Good
      <3> QED
        BY <2>5, <3>2, <3>3, Zenon DEF DbStep, Good
    <2>6. ASSUME adm'.op = "rekey", conn'[adm'.conn].auto, NEW r \in db', Good(r)'
          PROVE  r.wrap = adm'.key \/ \E q \in adm'.todo : q.id = r.id
      <3>1. adm' = adm /\ conn[adm.conn].auto
        BY <2>6, Zenon DEF AdmStep
      <3>2. CASE r \in db
        BY <2>0, <2>6, <3>1, <3>2, Zenon DEF KeyInv
      <3>3. CASE ProfAdded(r)
        BY <1>3, <2>6, <3>3, Zenon DEF ProfAdded, Good
      <3> QED
        BY <2>6, <3>2, <3>3, Zenon DEF DbStep, Good
    <2> QED
      BY <2>1, <2>2, <2>3, <2>4, <2>5, <2>6, Zenon
  <1> QED
    BY <1>1, <1>2, <1>3, Zenon DEF KeyInv
----------------------------------------------------------------------------
(***************************************************************************)
(* A step of a call that a session has in flight.                          *)
(***************************************************************************)
\* The session becomes k and the entry of its change e: the call goes on, or it returns
\* and its change is durable with autocommit, else part of the transaction.
GoesOn(s, k, e) ==
    /\ k \in BusySession /\ k.tok = sess[s].tok
    /\ e.conn = sess[s].conn /\ e.fate = "open" /\ ~e.ok
    /\ k.pc = "insert" => e.op = "insert"
    /\ e.op = "insert" => k.pc \in {"insert", "item_id", "tag"}
    /\ k.pc \in {"item_id", "tag"} => k.tags # {}

Returns(s, k, e) ==
    /\ k \in IdleSession
    /\ IF conn[sess[s].conn].auto THEN e.fate = "kept"
       ELSE e.fate = "open" /\ e.conn = sess[s].conn

Stepped(s, k, e) ==
    /\ Busy(s)
    /\ sess' = [sess EXCEPT ![s] = k]
    /\ log' = [log EXCEPT ![sess[s].tok] = e]
    /\ k.conn = sess[s].conn /\ k.txn = sess[s].txn /\ k.gen = sess[s].gen
    /\ e \in Entry /\ e.op = log[sess[s].tok].op /\ log[sess[s].tok].over \subseteq e.over
    /\ GoesOn(s, k, e) \/ Returns(s, k, e)

LEMMA BusyTyped ==
    ASSUME Types, NEW s \in Sessions, Busy(s)
    PROVE  /\ sess[s] \in BusySession /\ sess[s].conn \in Conns /\ sess[s].pid \in Nat
           /\ sess[s].name \in Names /\ sess[s].tok \in Nat /\ sess[s].item \in Nat
           /\ sess[s].tags \subseteq UNION TagSets /\ sess[s].gen \in DOMAIN caches
  <1>1. sess[s] \in Session /\ sess[s].gen \in DOMAIN caches
    BY Zenon DEF Types, Busy, IsOpen
  <1>2. sess[s] # FreeSession
    BY SMTT(60) DEF Busy, IsOpen, FreeSession
  <1>3. sess[s] \notin IdleSession
    BY Zenon DEF Busy, IdleSession
  <1>4. sess[s] \in BusySession
    BY <1>1, <1>2, <1>3, Zenon DEF Session
  <1> QED
    BY <1>1, <1>4, Zenon DEF BusySession

LEMMA OpenTyped ==
    ASSUME Types, NEW s \in Sessions, IsOpen(s)
    PROVE  /\ sess[s].conn \in Conns /\ sess[s].txn \in BOOLEAN /\ sess[s].gen \in Nat
           /\ sess[s].profile \in Profiles /\ sess[s].gen \in DOMAIN caches
           /\ sess[s].pc \in {"idle", "insert", "replace", "remove", "remove_all", "delete_tags",
                              "item_id", "tag"}
           /\ sess[s] \in IdleSession \cup BusySession
  <1>1. sess[s] \in Session /\ sess[s].gen \in DOMAIN caches
    BY Zenon DEF Types, IsOpen
  <1>2. sess[s] # FreeSession
    BY SMTT(60) DEF IsOpen, FreeSession
  <1>3. sess[s] \in IdleSession \cup BusySession
    BY <1>1, <1>2, Zenon DEF Session
  <1>4. CASE sess[s] \in IdleSession
    BY <1>1, <1>4, Zenon DEF IdleSession
  <1>5. CASE sess[s] \in BusySession
    BY <1>1, <1>5, Zenon DEF BusySession
  <1> QED
    BY <1>3, <1>4, <1>5, Zenon

\* No two sessions have the same change in flight.
LEMMA OwnChange ==
    ASSUME Types, Holding, InFlight, NEW s \in Sessions, NEW u \in Sessions, Busy(s), Busy(u),
           sess[s].tok = sess[u].tok
    PROVE  s = u
  <1>0. log[sess[s].tok].conn = sess[s].conn /\ log[sess[u].tok].conn = sess[u].conn
    BY Zenon DEF InFlight
  <1>1. sess[s].conn = sess[u].conn
    BY <1>0
  <1>2. conn[sess[s].conn].holder = s /\ conn[sess[u].conn].holder = u
    BY Zenon DEF Holding, Busy
  <1> QED
    BY <1>1, <1>2

\* The sessions and the log after the step, in terms the other lemmas use.
AfterStep(s, k, e) ==
    /\ sess' \in [Sessions -> Session] /\ log' \in Seq(Entry)
    /\ Tokens' = Tokens /\ sess[s].tok \in Tokens
    /\ sess'[s] = k /\ k.st = "open"
    /\ \A u \in Sessions \ {s} : sess'[u] = sess[u]
    /\ log'[sess[s].tok] = e
    /\ \A t \in Tokens \ {sess[s].tok} : log'[t] = log[t]
    /\ \A u \in Sessions : IsOpen(u)' => /\ IsOpen(u) /\ sess[u].conn \in Conns
                                         /\ sess'[u].conn = sess[u].conn
                                         /\ sess'[u].txn = sess[u].txn
                                         /\ sess'[u].gen = sess[u].gen

LEMMA SteppedState ==
    ASSUME NEW s \in Sessions, NEW k, NEW e, Stepped(s, k, e), Types, InFlight
    PROVE  AfterStep(s, k, e)
  <1>1. k \in Session /\ k.st = "open"
    BY Zenon DEF Stepped, GoesOn, Returns, Session, BusySession, IdleSession
  <1>2. sess[s].tok \in Tokens /\ IsOpen(s)
    BY Zenon DEF Stepped, InFlight, Busy
  <1>3. /\ sess' \in [Sessions -> Session] /\ sess'[s] = k
        /\ \A u \in Sessions \ {s} : sess'[u] = sess[u]
    BY <1>1, Zenon DEF Stepped, Types
  <1>4. /\ log = [t \in Tokens |-> log[t]] /\ \A t \in Tokens : log[t] \in Entry
    BY LogTyped, Zenon
  <1>5. log' = [log EXCEPT ![sess[s].tok] = e] /\ e \in Entry
    BY Zenon DEF Stepped
  <1>6. /\ log'[sess[s].tok] = e /\ \A t \in Tokens \ {sess[s].tok} : log'[t] = log[t]
        /\ log' = [t \in Tokens |-> log'[t]]
    BY <1>2, <1>4, <1>5, LogTyped, SMTT(60)
  <1>7. \A t \in Tokens : log'[t] \in Entry
    BY <1>4, <1>5, <1>6, Zenon
  <1>8. log' \in Seq(Entry) /\ Tokens' = Tokens
    BY <1>6, <1>7, LogChanged, Zenon
  <1>9. ASSUME NEW u \in Sessions, IsOpen(u)'
        PROVE  /\ IsOpen(u) /\ sess[u].conn \in Conns
               /\ sess'[u].conn = sess[u].conn /\ sess'[u].txn = sess[u].txn
               /\ sess'[u].gen = sess[u].gen
    <2>1. IsOpen(u)
      BY <1>2, <1>3, <1>9, Zenon DEF IsOpen
    <2>2. sess[u].conn \in Conns
      BY <2>1, OpenTyped, Zenon
    <2> QED
      BY <1>3, <2>1, <2>2, Zenon DEF Stepped
  <1> QED
    BY <1>1, <1>2, <1>3, <1>6, <1>8, <1>9, Zenon DEF AfterStep

LEMMA SteppedInFlight ==
    ASSUME NEW s \in Sessions, NEW k, NEW e, Stepped(s, k, e), Types, Holding, InFlight,
           \A c \in Conns : conn'[c].auto = conn[c].auto
    PROVE  InFlight'
  <1> DEFINE t0 == sess[s].tok
             c0 == sess[s].conn
  <1>0. Busy(s) /\ c0 \in Conns /\ e \in Entry
    BY BusyTyped, Zenon DEF Stepped
  <1>1. /\ Tokens' = Tokens /\ t0 \in Tokens /\ sess'[s] = k
        /\ \A u \in Sessions \ {s} : sess'[u] = sess[u]
        /\ log'[t0] = e /\ \A t \in Tokens \ {t0} : log'[t] = log[t]
    <2>1. AfterStep(s, k, e)
      BY SteppedState, Zenon
    <2> QED
      BY <2>1, Zenon DEF AfterStep
  <1>2. /\ e.op \in {"insert", "replace", "remove", "remove_all"}
        /\ log[t0].conn = c0 /\ log[t0].fate = "open"
        /\ k.conn = c0 /\ e.op = log[t0].op
    BY <1>0, Zenon DEF Stepped, InFlight
  <1>3. \A u \in Sessions \ {s} : Busy(u) => sess[u].tok # t0
    BY <1>0, OwnChange, Zenon
  <1>4. GoesOn(s, k, e) => /\ Busy(s)' /\ k.tok = t0 /\ k.conn = c0
                           /\ e.conn = c0 /\ e.fate = "open" /\ ~e.ok
                           /\ k.pc = "insert" => e.op = "insert"
                           /\ e.op = "insert" => k.pc \in {"insert", "item_id", "tag"}
                           /\ k.pc \in {"item_id", "tag"} => k.tags # {}
    BY <1>1, <1>2, Zenon DEF GoesOn, Busy, IsOpen, BusySession
  <1>5. Returns(s, k, e) => ~Busy(s)'
    BY <1>1, Zenon DEF Returns, Busy, IdleSession
  <1>6. GoesOn(s, k, e) \/ Returns(s, k, e)
    BY Zenon DEF Stepped
  <1>7. Returns(s, k, e) => IF conn[c0].auto THEN e.fate = "kept" ELSE e.fate = "open" /\ e.conn = c0
    BY Zenon DEF Returns
  <1>8. \A u \in Sessions \ {s} : Busy(u)' <=> Busy(u)
    BY <1>1, Zenon DEF Busy, IsOpen
  <1> HIDE DEF t0, c0
  <1>9. ASSUME NEW u \in Sessions, Busy(u)'
        PROVE  /\ sess'[u].tok \in Tokens'
               /\ log'[sess'[u].tok].conn = sess'[u].conn
               /\ log'[sess'[u].tok].fate = "open" /\ ~log'[sess'[u].tok].ok
               /\ log'[sess'[u].tok].op \in {"insert", "replace", "remove", "remove_all"}
               /\ sess'[u].pc = "insert" => log'[sess'[u].tok].op = "insert"
               /\ log'[sess'[u].tok].op = "insert" => sess'[u].pc \in {"insert", "item_id", "tag"}
               /\ sess'[u].pc \in {"item_id", "tag"} => sess'[u].tags # {}
    <2>1. CASE u = s
      <3>1. GoesOn(s, k, e)
        BY <1>5, <1>6, <1>9, <2>1, Zenon
      <3>2. sess'[u] = k /\ k.tok = t0 /\ log'[t0] = e
        BY <1>1, <1>4, <2>1, <3>1, Zenon
      <3> QED
        BY <1>1, <1>2, <1>4, <3>1, <3>2
    <2>2. CASE u # s
      <3>1. Busy(u) /\ sess'[u] = sess[u] /\ sess[u].tok # t0
        BY <1>1, <1>3, <1>8, <1>9, <2>2, Zenon
      <3> DEFINE t == sess[u].tok
      <3>2. /\ t \in Tokens /\ log[t].conn = sess[u].conn /\ log[t].fate = "open" /\ ~log[t].ok
            /\ log[t].op \in {"insert", "replace", "remove", "remove_all"}
            /\ sess[u].pc = "insert" => log[t].op = "insert"
            /\ log[t].op = "insert" => sess[u].pc \in {"insert", "item_id", "tag"}
            /\ sess[u].pc \in {"item_id", "tag"} => sess[u].tags # {}
        BY <3>1, Zenon DEF InFlight
      <3>3. log'[t] = log[t]
        BY <1>1, <3>1, <3>2, Zenon
      <3> QED
        BY <1>1, <3>1, <3>2, <3>3
    <2> QED
      BY <2>1, <2>2, Zenon
  <1>10. ASSUME NEW t \in Tokens', Live(t)'
         PROVE  /\ log'[t].conn \in Conns
                /\ conn'[log'[t].conn].auto => \E u \in Sessions : Busy(u)' /\ sess'[u].tok = t
    <2>1. CASE t = t0
      <3>1. log'[t] = e
        BY <1>1, <2>1, Zenon
      <3>2. e.conn = c0 /\ (GoesOn(s, k, e) \/ ~conn[c0].auto)
        BY <1>4, <1>6, <1>7, <1>10, <3>1, SMTT(60) DEF Live
      <3>3. GoesOn(s, k, e) => Busy(s)' /\ sess'[s].tok = t
        BY <1>1, <1>4, <2>1, Zenon
      <3> QED
        BY <1>0, <3>1, <3>2, <3>3, SMTT(60) DEF c0
    <2>2. CASE t # t0
      <3>1. log'[t] = log[t] /\ t \in Tokens /\ Live(t)
        BY <1>1, <1>10, <2>2, Zenon DEF Live
      <3>2. /\ log[t].conn \in Conns
            /\ conn[log[t].conn].auto => \E u \in Sessions : Busy(u) /\ sess[u].tok = t
        BY <3>1, Zenon DEF InFlight
      <3>3. \A u \in Sessions : Busy(u) /\ sess[u].tok = t => Busy(u)' /\ sess'[u].tok = t
        BY <1>1, <1>8, <2>2, Zenon DEF t0
      <3> QED
        BY <3>1, <3>2, <3>3, Zenon
    <2> QED
      BY <2>1, <2>2, Zenon
  <1>11. ASSUME NEW t \in Tokens', log'[t].op \in {"create", "drop", "default", "rekey"}
         PROVE  log'[t].fate # "open"
    <2>1. CASE t = t0
      BY <1>1, <1>2, <1>11, <2>1
    <2>2. CASE t # t0
      BY <1>1, <1>11, <2>2, ZenonT(60) DEF InFlight
    <2> QED
      BY <2>1, <2>2, Zenon
  <1> QED
    BY <1>9, <1>10, <1>11, Zenon DEF InFlight

\* The changes that stand and those of the transactions stay what they are, and at most
\* the insert itself comes to have its row.
ToksStay(s, k, e) ==
    /\ FixedToks' = FixedToks /\ TxnToks' = TxnToks
    /\ sess[s].tok \in Allowed(sess[s].conn)
    /\ \A t \in Tokens : Overs[t] \subseteq Overs'[t]
    /\ Overs'[sess[s].tok] = e.over
    /\ \A t \in Inserted' \ Inserted :
          t = sess[s].tok /\ sess[s].pc = "insert" /\ (e.ok \/ k.pc # "idle")

LEMMA SteppedToks ==
    ASSUME NEW s \in Sessions, NEW k, NEW e, Stepped(s, k, e), Types, Holding, InFlight,
           \A c \in Conns : conn'[c].auto = conn[c].auto
    PROVE  ToksStay(s, k, e)
  <1> DEFINE t0 == sess[s].tok
             c0 == sess[s].conn
  <1>0. Busy(s) /\ c0 \in Conns /\ e \in Entry
    BY BusyTyped, Zenon DEF Stepped
  <1>1. /\ Tokens' = Tokens /\ t0 \in Tokens /\ sess'[s] = k
        /\ \A u \in Sessions \ {s} : sess'[u] = sess[u]
        /\ log'[t0] = e /\ \A t \in Tokens \ {t0} : log'[t] = log[t]
    <2>1. AfterStep(s, k, e)
      BY SteppedState, Zenon
    <2> QED
      BY <2>1, Zenon DEF AfterStep
  <1>2. /\ log[t0].conn = c0 /\ log[t0].fate = "open" /\ ~log[t0].ok
        /\ sess[s].pc = "insert" => log[t0].op = "insert"
        /\ log[t0].op = "insert" => sess[s].pc \in {"insert", "item_id", "tag"}
        /\ log[t0].op \in {"insert", "replace", "remove", "remove_all"}
    BY <1>0, Zenon DEF InFlight
  <1>3. /\ e.op = log[t0].op /\ log[t0].over \subseteq e.over
        /\ \/ e.fate = "open" /\ e.conn = c0 /\ ~e.ok /\ k.pc # "idle" /\ k.tok = t0 /\ k.st = "open"
              /\ (e.op = "insert" => k.pc \in {"insert", "item_id", "tag"})
           \/ k.pc = "idle" /\ IF conn[c0].auto THEN e.fate = "kept" ELSE e.fate = "open" /\ e.conn = c0
    BY Zenon DEF Stepped, GoesOn, Returns, BusySession, IdleSession
  <1>4. \A u \in Sessions \ {s} : Busy(u) => sess[u].tok # t0
    BY <1>0, OwnChange, Zenon
  <1>5. \A u \in Sessions \ {s} : Busy(u)' <=> Busy(u)
    BY <1>1, Zenon DEF Busy, IsOpen
  <1>6. k.pc # "idle" /\ k.st = "open" => Busy(s)'
    BY <1>1, Zenon DEF Busy, IsOpen
  <1>7. Busy(s)' => k.pc # "idle"
    BY <1>1, Zenon DEF Busy
  <1> HIDE DEF t0, c0
  <1>10. ASSUME NEW t \in Tokens PROVE Fixed(t)' <=> Fixed(t)
    <2>1. CASE t = t0
      BY <1>0, <1>1, <1>2, <1>3, <2>1, SMTT(60) DEF Fixed
    <2>2. CASE t # t0
      <3>1. log'[t] = log[t]
        BY <1>1, <2>2, Zenon
      <3>2. log[t].fate = "open" => log[t].conn \in Conns
        BY Zenon DEF InFlight, Live
      <3> QED
        BY <3>1, <3>2, Zenon DEF Fixed
    <2> QED
      BY <2>1, <2>2, Zenon
  <1>11. FixedToks' = FixedToks
    BY <1>1, <1>10, Zenon DEF FixedToks
  <1>12. ASSUME NEW c \in Conns, ~conn[c].auto PROVE OpenOn(c)' = OpenOn(c)
    <2>1. ASSUME NEW t \in Tokens
          PROVE  log'[t].conn = c /\ log'[t].fate \in {"open", "dropped"}
                 <=> log[t].conn = c /\ log[t].fate \in {"open", "dropped"}
      <3>1. CASE t = t0
        BY <1>1, <1>2, <1>3, <1>12, <3>1, SMTT(60)
      <3>2. CASE t # t0
        BY <1>1, <3>2, Zenon
      <3> QED
        BY <3>1, <3>2, Zenon
    <2> QED
      BY <1>1, <2>1, Zenon DEF OpenOn
  <1>13. TxnToks' = TxnToks
    <2>1. \A c \in Conns : (IF conn'[c].auto THEN {} ELSE OpenOn(c)') = (IF conn[c].auto THEN {} ELSE OpenOn(c))
      BY <1>12, Zenon
    <2> QED
      BY <2>1, Zenon DEF TxnToks
  <1>14. t0 \in Allowed(c0)
    <2>1. conn[c0].auto => t0 \in FixedToks
      BY <1>1, <1>2, Zenon DEF FixedToks, Fixed
    <2>2. ~conn[c0].auto => t0 \in TxnToks[c0]
      BY <1>0, <1>1, <1>2, Zenon DEF TxnToks, OpenOn
    <2> QED
      BY <2>1, <2>2, Zenon DEF Allowed
  <1>15. /\ \A t \in Tokens : Overs[t] = log[t].over /\ Overs'[t] = log'[t].over
    BY <1>1, Zenon DEF Overs
  <1>16. \A t \in Tokens : Overs[t] \subseteq Overs'[t]
    BY <1>1, <1>3, <1>15, ZenonT(60)
  <1>17. Overs'[t0] = e.over
    BY <1>1, <1>15, Zenon
  <1>18. ASSUME NEW t \in Tokens, t # t0 PROVE t \in Inserted' <=> t \in Inserted
    <2>1. log'[t] = log[t]
      BY <1>1, <1>18, Zenon
    <2>2. ASSUME NEW u \in Sessions
          PROVE  (Busy(u)' /\ sess'[u].tok = t /\ sess'[u].pc \in {"item_id", "tag"})
                 <=> (Busy(u) /\ sess[u].tok = t /\ sess[u].pc \in {"item_id", "tag"})
      <3>1. CASE u = s
        BY <1>1, <1>3, <1>7, <1>18, <3>1, Zenon DEF t0
      <3>2. CASE u # s
        BY <1>1, <1>5, <3>2, Zenon
      <3> QED
        BY <3>1, <3>2, Zenon
    <2> QED
      BY <1>1, <2>1, <2>2, Zenon DEF Inserted
  <1>19. t0 \in Inserted' => t0 \in Inserted \/ (sess[s].pc = "insert" /\ (e.ok \/ k.pc # "idle"))
    <2> SUFFICES ASSUME t0 \in Inserted'
                 PROVE  t0 \in Inserted \/ (sess[s].pc = "insert" /\ (e.ok \/ k.pc # "idle"))
      BY Zenon
    <2>1. e.op \in {"insert", "create"}
      BY <1>1, Zenon DEF Inserted
    <2>2. log[t0].op = "insert"
      BY <1>2, <1>3, <2>1
    <2>3. sess[s].pc \in {"item_id", "tag"} => t0 \in Inserted
      BY <1>0, <1>1, <2>2, Zenon DEF Inserted, t0
    <2>4. e.ok \/ k.pc # "idle"
      <3>1. e.ok \/ \E u \in Sessions : Busy(u)' /\ sess'[u].tok = t0
        BY <1>1, Zenon DEF Inserted
      <3>2. \A u \in Sessions : Busy(u)' /\ sess'[u].tok = t0 => u = s
        BY <1>1, <1>4, <1>5, Zenon
      <3> QED
        BY <1>7, <3>1, <3>2, Zenon
    <2> QED
      BY <1>2, <2>2, <2>3, <2>4, Zenon
  <1>20. Inserted' \subseteq Tokens /\ Inserted \subseteq Tokens
    BY <1>1, Zenon DEF Inserted
  <1> QED
    BY <1>11, <1>13, <1>14, <1>16, <1>17, <1>18, <1>19, <1>20, Zenon DEF t0, c0, ToksStay

\* The inductive invariant.
OInv == Types /\ Holding /\ InFlight /\ BooksKept /\ KeyInv

\* No change is part of two transactions, or of one and of what stands.
LEMMA TxnsApart ==
    ASSUME NEW c \in Conns, NEW d \in Conns, NEW t
    PROVE  /\ t \in TxnToks[c] => t \notin FixedToks
           /\ t \in TxnToks[c] /\ c # d => t \notin TxnToks[d]
  <1>1. \A b \in Conns : t \in TxnToks[b] => ~conn[b].auto /\ log[t].conn = b /\ log[t].fate \in {"open", "dropped"}
    BY Zenon DEF TxnToks, OpenOn
  <1>2. t \in FixedToks => \/ log[t].fate \in {"kept", "leaked"}
                           \/ log[t].fate = "open" /\ conn[log[t].conn].auto
    BY Zenon DEF FixedToks, Fixed
  <1> QED
    BY <1>1, <1>2, SMTT(60)

LEMMA BooksNumbers ==
    ASSUME Types
    PROVE  0 \notin FixedToks /\ \A c \in Conns : 0 \notin TxnToks[c]
  <1>1. 0 \notin Tokens
    BY LogTyped, Zenon
  <1> QED
    BY <1>1, Zenon DEF FixedToks, TxnToks, OpenOn

LEMMA AdmTyped ==
    ASSUME Types
    PROVE  /\ adm.op = "rekey" => /\ adm.conn \in Conns /\ adm.todo \subseteq ProfRows
                                  /\ adm.any \in BOOLEAN /\ adm.key \in Nat
                                  /\ adm \in [op : {"rekey"}, conn : Conns, todo : SUBSET ProfRows,
                                              any : BOOLEAN, key : Nat]
           /\ adm.op = "create" => adm.name \in Profiles /\ adm.pid \in Nat
           /\ NoCall \in Adm /\ NoCall.op = "none"
  <1>1. adm \in Adm
    BY Zenon DEF Types
  <1>2. NoCall.op = "none"
    BY Zenon DEF NoCall
  <1>3. adm.op = "rekey" => adm \in [op : {"rekey"}, conn : Conns, todo : SUBSET ProfRows,
                                     any : BOOLEAN, key : Nat]
    BY <1>1, <1>2, Zenon DEF Adm
  <1>4. adm.op = "create" => adm \in [op : {"create"}, name : Profiles, pid : Nat]
    BY <1>1, <1>2, Zenon DEF Adm
  <1> QED
    BY <1>2, <1>3, <1>4, Zenon DEF Adm

\* One statement of a call, or none: it deals with entries and tags, what it adds is its
\* call's and what it deletes its call answers for.
Statement(s, k, e, del, add) ==
    /\ Stepped(s, k, e)
    /\ Ran(sess[s].conn, del, add)
    /\ \A r \in add \cup del : r.t \in {"item", "tag"}
    /\ \A r \in add : r.tok = sess[s].tok
    /\ \A r \in del : Main(r) => r.tok \in e.over
    /\ sess[s].pc = "insert" /\ (e.ok \/ k.pc # "idle") => \E q \in add : q.t = "item"
    /\ nextId' \in [prof : Nat, item : Nat]
    /\ caches' = caches /\ adm' = adm /\ up' = up /\ dirty' = dirty /\ torn' = torn

LEMMA StatementBooks ==
    ASSUME NEW s \in Sessions, NEW k, NEW e, NEW del, NEW add, Statement(s, k, e, del, add),
           OInv
    PROVE  BooksKept'
  <1>a. /\ Stepped(s, k, e) /\ Types /\ Holding /\ InFlight /\ BooksKept /\ Busy(s)
        /\ Ran(sess[s].conn, del, add)
    BY Zenon DEF OInv, Statement, Stepped
  <1>b. PICK c0 \in Conns, t0 \in Nat : c0 = sess[s].conn /\ t0 = sess[s].tok
    BY <1>a, BusyTyped, Zenon
  <1>0. /\ Stepped(s, k, e) /\ Types /\ Holding /\ InFlight /\ BooksKept /\ Busy(s)
        /\ Ran(c0, del, add)
    BY <1>a, <1>b, Zenon
  <1>1. c0 \in Conns /\ t0 \in Nat
    BY <1>b, Zenon
  <1>2. \A c \in Conns : conn'[c].auto = conn[c].auto
    BY <1>0, Zenon DEF Ran, Moved
  <1>3. /\ FixedToks' = FixedToks /\ TxnToks' = TxnToks
        /\ t0 \in Allowed(c0)
        /\ \A t \in Tokens : Overs[t] \subseteq Overs'[t]
        /\ Overs'[t0] = e.over
        /\ \A t \in Inserted' \ Inserted :
                 t = t0 /\ sess[s].pc = "insert" /\ (e.ok \/ k.pc # "idle")
    <2>1. ToksStay(s, k, e)
      BY <1>0, <1>2, SteppedToks, Zenon
    <2> QED
      BY <1>b, <2>1, Zenon DEF ToksStay
  <1>4. /\ \A r \in add : r.tok = t0 /\ r.t \in {"item", "tag"}
        /\ \A r \in del : Main(r) => r.tok \in e.over
        /\ sess[s].pc = "insert" /\ (e.ok \/ k.pc # "idle") => \E q \in add : q.t = "item"
    BY <1>b, Zenon DEF Statement
  <1>5. 0 \notin FixedToks /\ \A c \in Conns : 0 \notin TxnToks[c]
    BY <1>0, BooksNumbers, Zenon
  <1>6. /\ conn[c0].auto => t0 \in FixedToks
        /\ ~conn[c0].auto => t0 \in TxnToks[c0]
    BY <1>3, Zenon DEF Allowed
  <1>7. t0 # 0
    BY <1>1, <1>5, <1>6, Zenon
  <1>8. Allowed(c0)' = Allowed(c0)
    BY <1>1, <1>2, <1>3, Zenon DEF Allowed
  <1>9. FixedToks \subseteq Tokens /\ \A c \in Conns : TxnToks[c] \subseteq Tokens
    BY Zenon DEF FixedToks, TxnToks, OpenOn
  <1>10. More(FixedToks, FixedToks', TxnToks, TxnToks', Overs, Overs')
    BY <1>3, <1>5, <1>9, Zenon DEF More
  <1>11. Answers(del, add, FixedToks' \cup Allowed(c0)', Allowed(c0)', Overs')
    <2>1. \A r \in del : Main(r) => Accounted(r.tok, add, Allowed(c0)', Overs')
      BY <1>3, <1>4, <1>8, Zenon DEF Accounted
    <2>2. \A r \in add : Wrote(r) => r.tok \in FixedToks' \cup Allowed(c0)'
      BY <1>3, <1>4, <1>8, Zenon
    <2> QED
      BY <2>1, <2>2, Zenon DEF Answers
  <1>12. \A t \in Inserted' \ Inserted : \E q \in add : Main(q) /\ q.tok = t
    BY <1>3, <1>4, <1>7, Zenon DEF Main
  <1>13. \A t \in Inserted' \ Inserted : conn[c0].auto => \A d \in Conns : t \notin TxnToks'[d]
    BY <1>1, <1>3, <1>6, TxnsApart, Zenon
  <1>14. \A t \in Inserted' \ Inserted : ~conn[c0].auto =>
              t \notin FixedToks' /\ \A d \in Conns \ {c0} : t \notin TxnToks'[d]
    BY <1>1, <1>3, <1>6, TxnsApart, Zenon
  <1>15. /\ \A t \in Inserted : t \in FixedToks' => t \in FixedToks
         /\ \A t \in Inserted : \A d \in Conns : t \in TxnToks'[d] => t \in TxnToks[d]
    BY <1>3, Zenon
  <1>16. c0 \in Conns /\ Ran(c0, del, add) /\ BooksKept
    BY <1>0, <1>1, Zenon
  <1> QED
    <2>1. RanFor(c0, del, add)
      BY <1>10, <1>11, <1>12, <1>13, <1>14, <1>15, <1>16, Zenon DEF RanFor, Ran
    <2> QED
      BY <1>16, <2>1, RanBooks, Zenon

LEMMA StatementKeys ==
    ASSUME NEW s \in Sessions, NEW k, NEW e, NEW del, NEW add, Statement(s, k, e, del, add),
           OInv
    PROVE  KeyInv'
  <1>0. /\ Stepped(s, k, e) /\ Types /\ InFlight /\ BooksKept /\ KeyInv /\ Busy(s)
        /\ Ran(sess[s].conn, del, add)
    BY Zenon DEF OInv, Statement, Stepped
  <1>1. /\ AfterStep(s, k, e) /\ sess[s].conn \in Conns
    BY <1>0, SteppedState, BusyTyped, Zenon
  <1>2. log[sess[s].tok].op \in {"insert", "replace", "remove", "remove_all"}
    BY <1>0, Zenon DEF InFlight
  <1>3. \A t \in Tokens : log[t].op = "create" => log'[t] = log[t]
    BY <1>1, <1>2, Zenon DEF AfterStep
  <1>4. Creations
    BY <1>3, Zenon DEF Creations
  <1>5. RowsLogged
    BY <1>0, BooksLogged, Zenon
  <1>6. \A r \in add \cup del : r.t \in {"item", "tag"}
    BY Zenon DEF Statement
  <1>7. DbStep
    BY <1>0, <1>6, Zenon DEF Ran, Moved, DbStep, KeyRow
  <1>8. \A c \in Conns : \A r \in conn'[c].add : r \in conn[c].add \/ r \in add
    BY <1>0, <1>1, Zenon DEF Ran, Moved
  <1>9. \A c \in Conns : \A r \in conn'[c].del : r \in conn[c].del \/ r \in del
    BY <1>0, <1>1, Zenon DEF Ran, Moved
  <1>10. ConnStep
    <2>1. ASSUME NEW c \in Conns, NEW r \in conn'[c].add, r.t = "prof"
          PROVE  r \in conn[c].add /\ (~torn' /\ r.tok # 0 /\ Stray(r.tok) => Stray(r.tok)')
      <3>1. r \in conn[c].add
        BY <1>6, <1>8, <2>1, Zenon
      <3>2. r.tok # 0 => r.tok \in Tokens /\ log[r.tok].op = "create"
        BY <1>0, <1>5, <2>1, <3>1, Zenon DEF RowsLogged, KeyInv, Wrote
      <3> QED
        BY <1>3, <3>1, <3>2, Zenon DEF Stray
    <2>2. \A c \in Conns : \A r \in Pending(c)' : KeyRow(r) => r \in Pending(c)
      BY <1>6, <1>8, <1>9, Zenon DEF Pending, KeyRow
    <2> QED
      BY <2>1, <2>2, Zenon DEF ConnStep
  <1>11. AdmStep
    <2>1. caches' = caches /\ adm' = adm /\ up' = up /\ torn' = torn
      BY Zenon DEF Statement
    <2>2. adm.op = "rekey" => conn'[adm.conn].auto = conn[adm.conn].auto
      BY <1>0, AdmTyped, Zenon DEF Ran, Moved
    <2>3. Backend' = Backend
      BY <2>1, Zenon DEF Backend
    <2> QED
      BY <2>1, <2>2, <2>3, Zenon DEF AdmStep
  <1> QED
    BY <1>0, <1>4, <1>5, <1>7, <1>10, <1>11, KeyKept, Zenon

LEMMA StatementKeeps ==
    ASSUME NEW s \in Sessions, NEW k, NEW e, NEW del, NEW add, Statement(s, k, e, del, add),
           OInv
    PROVE  OInv'
  <1>0. /\ Stepped(s, k, e) /\ Types /\ InFlight /\ Holding /\ Busy(s)
        /\ Ran(sess[s].conn, del, add)
    BY Zenon DEF OInv, Statement, Stepped
  <1>1. AfterStep(s, k, e) /\ sess[s].conn \in Conns
    BY <1>0, SteppedState, BusyTyped, Zenon
  <1>2. /\ caches' = caches /\ adm' = adm /\ up' = up /\ torn' = torn /\ dirty' = dirty
        /\ nextId' \in [prof : Nat, item : Nat]
    BY Zenon DEF Statement
  <1>3. Types'
    <2>1. \A u \in Sessions : sess'[u].st = "open" => sess'[u].gen \in DOMAIN caches'
      BY <1>0, <1>1, <1>2, Zenon DEF AfterStep, Types, IsOpen
    <2>2. db' \subseteq Row /\ conn' \in [Conns -> Conn]
      BY <1>0, Zenon DEF Ran, Moved
    <2>3. sess' \in [Sessions -> Session] /\ log' \in Seq(Entry)
      BY <1>1, Zenon DEF AfterStep
    <2>4. /\ caches' \in Seq([key : Nat, ids : SUBSET (Profiles \X Nat)]) /\ caches' # <<>>
          /\ adm' \in Adm /\ dirty' \subseteq Conns /\ torn' \in BOOLEAN
      BY <1>0, <1>2, Zenon DEF Types
    <2> QED
      BY <1>2, <2>1, <2>2, <2>3, <2>4, Zenon DEF Types
  <1>4. Holding'
    <2>1. \A u \in Sessions : IsOpen(u)' => /\ IsOpen(u) /\ sess[u].conn \in Conns
                                            /\ sess'[u].conn = sess[u].conn
                                            /\ sess'[u].txn = sess[u].txn
      BY <1>1, Zenon DEF AfterStep
    <2>2. adm'.op = "rekey" => adm.op = "rekey" /\ adm'.conn = adm.conn /\ adm.conn \in Conns
      BY <1>0, <1>2, AdmTyped, Zenon
    <2> QED
      BY <1>0, <1>1, <1>2, <2>1, <2>2, RanHolding, ZenonT(60)
  <1>5. \A c \in Conns : conn'[c].auto = conn[c].auto
    BY <1>0, Zenon DEF Ran, Moved
  <1>6. InFlight'
    BY <1>0, <1>5, SteppedInFlight, Zenon
  <1>7. BooksKept' /\ KeyInv'
    BY StatementBooks, StatementKeys, Zenon
  <1> QED
    BY <1>3, <1>4, <1>6, <1>7, Zenon DEF OInv

\* The entry of the change while its call runs: what its statements deleted is added.
Noted(s, f) ==
    /\ f \in Entry
    /\ f.op = log[sess[s].tok].op /\ f.conn = log[sess[s].tok].conn
    /\ f.fate = log[sess[s].tok].fate /\ f.ok = log[sess[s].tok].ok
    /\ log[sess[s].tok].over \subseteq f.over

LEMMA OverwroteNoted ==
    ASSUME NEW s \in Sessions, NEW rows \in SUBSET Row, Types, InFlight, Busy(s)
    PROVE  \E f : /\ Noted(s, f) /\ Overwrote(log, sess[s].tok, rows) = [log EXCEPT ![sess[s].tok] = f]
                  /\ \A r \in rows : Main(r) => r.tok \in f.over
  <1>1. PICK t \in Tokens : t = sess[s].tok
    BY Zenon DEF InFlight
  <1>2. log[t] \in Entry /\ t \in DOMAIN log
    BY LogTyped, Zenon
  <1> DEFINE O == {r.tok : r \in {q \in rows : "tok" \in DOMAIN q}}
             f == [log[t] EXCEPT !.over = @ \cup O]
  <1>3. O \subseteq Nat
    <2>1. \A r \in Row : "tok" \in DOMAIN r => r.tok \in Nat
      <3> SUFFICES ASSUME NEW r \in Row, "tok" \in DOMAIN r PROVE r.tok \in Nat
        BY Zenon
      <3>1. r \notin ConfigRows
        BY SMTT(60) DEF ConfigRows
      <3> QED
        BY <3>1, RowKinds, Zenon DEF Row, ProfRows, ItemRows, TagRows
    <2> QED
      BY <2>1, Zenon
  <1>4. \A r \in rows : Main(r) => r.tok \in O
    BY RowKinds, Zenon DEF Main
  <1>5. Overwrote(log, t, rows) = [log EXCEPT ![t] = f]
    BY Zenon DEF Overwrote
  <1> HIDE DEF O
  <1>6. /\ f.op = log[t].op /\ f.conn = log[t].conn /\ f.fate = log[t].fate /\ f.ok = log[t].ok
        /\ f.over = log[t].over \cup O
    BY <1>2, ZenonT(60) DEF Entry
  <1>7. f \in Entry
    <2>1. log[t].over \cup O \in SUBSET Nat
      BY <1>2, <1>3, Zenon DEF Entry
    <2> QED
      BY <1>2, <2>1, ZenonT(60) DEF Entry
  <1> HIDE DEF f
  <1>8. Noted(s, f)
    BY <1>1, <1>6, <1>7, Zenon DEF Noted
  <1> QED
    BY <1>1, <1>4, <1>5, <1>6, <1>8, Zenon

LEMMA LogNoted ==
    ASSUME NEW s \in Sessions, Types, InFlight, Busy(s)
    PROVE  Noted(s, log[sess[s].tok]) /\ log = [log EXCEPT ![sess[s].tok] = log[sess[s].tok]]
  <1>1. sess[s].tok \in Tokens
    BY Zenon DEF InFlight
  <1>2. log[sess[s].tok] \in Entry /\ log = [t \in Tokens |-> log[t]]
    BY <1>1, LogTyped, Zenon
  <1> QED
    BY <1>2, Zenon DEF Noted

\* The call returns.
Returning(s, f, l, ok) ==
    /\ Noted(s, f) /\ l = [log EXCEPT ![sess[s].tok] = f]
    /\ sess' = Idle(s) /\ log' = Returned(s, l, ok)

LEMMA CallReturns ==
    ASSUME NEW s \in Sessions, NEW f, NEW l, NEW ok \in BOOLEAN, Returning(s, f, l, ok),
           Types, InFlight, Busy(s)
    PROVE  \E k, e : Stepped(s, k, e) /\ e.over = f.over /\ e.ok = ok /\ k.pc = "idle"
  <1> DEFINE t == sess[s].tok
             g == IF conn[sess[s].conn].auto THEN "kept" ELSE "open"
             e == [Settled(f, g) EXCEPT !.ok = ok]
             k == [st |-> "open", conn |-> sess[s].conn, txn |-> sess[s].txn, gen |-> sess[s].gen,
                   profile |-> sess[s].profile, pc |-> "idle"]
  <1> USE DEF Returning
  <1>1. t \in Tokens /\ IsOpen(s) /\ log[t].conn = sess[s].conn
    BY Zenon DEF InFlight, Busy
  <1>2. /\ sess[s].conn \in Conns /\ sess[s].txn \in BOOLEAN /\ sess[s].gen \in Nat
        /\ sess[s].profile \in Profiles
    BY <1>1, OpenTyped, Zenon
  <1>3. k \in IdleSession /\ k.conn = sess[s].conn /\ k.txn = sess[s].txn /\ k.gen = sess[s].gen
        /\ k.pc = "idle"
    BY <1>2, Zenon DEF IdleSession
  <1>4. sess' = [sess EXCEPT ![s] = k]
    BY Zenon DEF Idle
  <1>5. log = [u \in Tokens |-> log[u]] /\ f \in Entry
    BY LogTyped, Zenon DEF Noted
  <1>6. l[t] = f
    BY <1>1, <1>5, Zenon
  <1>7. log' = [l EXCEPT ![t] = e]
    BY <1>6, Zenon DEF Returned
  <1> HIDE DEF k
  <1>8. g \in Fates
    BY Zenon DEF Fates
  <1>9. /\ conn[sess[s].conn].auto => g = "kept"
        /\ ~conn[sess[s].conn].auto => g = "open"
    BY Zenon
  <1> HIDE DEF g
  <1>10. SettledAs(f, g, e) /\ e.ok = ok
    BY <1>5, <1>8, SettledEntry, SMTT(60)
  <1> HIDE DEF e
  <1>11. log' = [log EXCEPT ![t] = e]
    BY <1>1, <1>5, <1>7, Zenon
  <1>12. f.op = log[t].op /\ f.conn = log[t].conn /\ log[t].over \subseteq f.over
    BY Zenon DEF Noted
  <1>13. Returns(s, k, e)
    <2>1. ~conn[sess[s].conn].auto => e.conn = sess[s].conn
      BY <1>1, <1>9, <1>10, <1>12, Zenon DEF SettledAs
    <2> QED
      BY <1>3, <1>9, <1>10, <2>1, Zenon DEF Returns, SettledAs
  <1>14. Stepped(s, k, e)
    BY <1>3, <1>4, <1>10, <1>11, <1>12, <1>13, Zenon DEF Stepped, SettledAs
  <1> QED
    BY <1>3, <1>10, <1>14, Zenon DEF SettledAs

\* The call goes on.
LEMMA CallGoesOn ==
    ASSUME NEW s \in Sessions, NEW k, NEW f, Noted(s, f), k \in BusySession,
           log' = [log EXCEPT ![sess[s].tok] = f],
           sess' = [sess EXCEPT ![s] = k],
           k.conn = sess[s].conn, k.txn = sess[s].txn, k.gen = sess[s].gen, k.tok = sess[s].tok,
           k.pc # "insert", log[sess[s].tok].op = "insert" => k.pc \in {"item_id", "tag"},
           k.pc \in {"item_id", "tag"} => k.tags # {},
           Types, InFlight, Busy(s)
    PROVE  Stepped(s, k, f)
  <1>1. /\ log[sess[s].tok].conn = sess[s].conn
        /\ log[sess[s].tok].fate = "open" /\ ~log[sess[s].tok].ok
    BY Zenon DEF InFlight
  <1>2. GoesOn(s, k, f)
    BY <1>1, Zenon DEF GoesOn, Noted
  <1> QED
    BY <1>2, Zenon DEF Stepped, Noted

LEMMA ContinueSteps ==
    ASSUME NEW s \in Sessions, NEW f, NEW l, NEW pc, Noted(s, f),
           l = [log EXCEPT ![sess[s].tok] = f],
           Continue(s, l, pc), pc \in {"done", "delete_tags", "item_id"},
           log[sess[s].tok].op = "insert" => pc \in {"done", "item_id"},
           pc = "item_id" => sess[s].tags # {},
           Types, InFlight, Busy(s)
    PROVE  \E k, e : Stepped(s, k, e) /\ e.over = f.over
  <1>1. CASE pc = "done"
    <2>0. PICK ok \in BOOLEAN : ok = TRUE
      BY Zenon
    <2>1. sess' = Idle(s) /\ log' = Returned(s, l, ok)
      BY <1>1, <2>0, SMTT(60) DEF Continue
    <2>2. \E k, e : Stepped(s, k, e) /\ e.over = f.over /\ e.ok = ok /\ k.pc = "idle"
      <3>1. Returning(s, f, l, ok)
        BY <2>1, Zenon DEF Returning
      <3> QED
        BY <3>1, CallReturns, SMTT(60)
    <2> QED
      BY <2>2, Zenon
  <1>2. CASE pc # "done"
    <2> DEFINE k == [sess[s] EXCEPT !.pc = pc]
    <2>1. sess' = [sess EXCEPT ![s] = k] /\ log' = [log EXCEPT ![sess[s].tok] = f]
      BY <1>2, Zenon DEF Continue
    <2>2. sess[s] \in BusySession
      BY BusyTyped, Zenon
    <2>3. /\ k \in BusySession /\ k.conn = sess[s].conn /\ k.txn = sess[s].txn /\ k.gen = sess[s].gen
          /\ k.tok = sess[s].tok /\ k.pc = pc /\ k.tags = sess[s].tags
      BY <1>2, <2>2, ZenonT(60) DEF BusySession
    <2> HIDE DEF k
    <2>4. /\ k.pc # "insert" /\ (log[sess[s].tok].op = "insert" => k.pc \in {"item_id", "tag"})
          /\ k.pc \in {"item_id", "tag"} => k.tags # {}
      BY <1>2, <2>3, SMTT(60)
    <2>5. Stepped(s, k, f)
      BY <2>1, <2>3, <2>4, CallGoesOn, ZenonT(60)
    <2> QED
      BY <2>5, Zenon
  <1> QED
    BY <1>1, <1>2, Zenon

(***************************************************************************)
(* The actions of a call in flight.                                        *)
(***************************************************************************)
LEMMA RowsAtTyped ==
    ASSUME NEW s \in Sessions, Types, Busy(s)
    PROVE  /\ RowsAt(s) \subseteq ItemRows /\ RowsAt(s) \subseteq Row
           /\ View(sess[s].conn) \subseteq Row
           /\ \A r \in RowsAt(s) : r.t = "item"
  <1>1. View(sess[s].conn) \subseteq Row
    BY BusyTyped, ConnTyped, Zenon
  <1> QED
    BY <1>1, RowKinds, Zenon DEF RowsAt

LEMMA TagsOfTyped ==
    ASSUME NEW c, NEW ids, View(c) \subseteq Row
    PROVE  TagsOf(c, ids) \subseteq Row /\ \A r \in TagsOf(c, ids) : r.t = "tag" /\ ~Main(r)
  BY Zenon DEF TagsOf, Main

LEMMA InsertItemKeeps ==
    ASSUME NEW s \in Sessions, InsertItem(s), OInv
    PROVE  OInv'
  <1>0. Types /\ InFlight /\ Busy(s)
    BY Zenon DEF OInv, InsertItem, Busy, IsOpen
  <1>1. /\ sess[s].conn \in Conns /\ sess[s].pid \in Nat /\ sess[s].name \in Names
        /\ sess[s].tok \in Nat
    BY <1>0, BusyTyped, Zenon
  <1>2. PICK row : row = ItemRow(nextId.item, sess[s].pid, sess[s].name, sess[s].tok)
    BY Zenon
  <1>3. nextId \in [prof : Nat, item : Nat]
    BY <1>0, Zenon DEF Types
  <1>4. row \in ItemRows /\ row \in Row /\ row.t = "item" /\ row.tok = sess[s].tok
    <2>1. row \in ItemRows /\ row.t = "item" /\ row.tok = sess[s].tok
      BY <1>1, <1>2, <1>3, SMTT(60) DEF ItemRow, ItemRows
    <2> QED
      BY <2>1, Zenon DEF Row
  <1>5. Exec(sess[s].conn, {}, {row}) /\ Continue(s, log, TagStep(s))
    BY <1>2, Zenon DEF InsertItem
  <1>6. Ran(sess[s].conn, {}, {row})
    <2>1. {} \in SUBSET Row /\ {row} \in SUBSET Row
      BY <1>4, Zenon
    <2> QED
      BY <1>0, <1>1, <1>5, <2>1, ExecRan, Zenon
  <1>7. TagStep(s) \in {"done", "item_id"} /\ (TagStep(s) = "item_id" => sess[s].tags # {})
    BY Zenon DEF TagStep
  <1>8. \E k, e : Stepped(s, k, e)
    <2>1. Noted(s, log[sess[s].tok]) /\ log = [log EXCEPT ![sess[s].tok] = log[sess[s].tok]]
      BY <1>0, LogNoted, Zenon
    <2>2. TagStep(s) \in {"done", "delete_tags", "item_id"}
      BY <1>7, Zenon
    <2> QED
      BY <1>0, <1>5, <1>7, <2>1, <2>2, ContinueSteps, ZenonT(60)
  <1>9. PICK k, e : Stepped(s, k, e)
    BY <1>8, Zenon
  <1>10. nextId' \in [prof : Nat, item : Nat]
    BY <1>3, SMTT(60) DEF InsertItem
  <1>11. Statement(s, k, e, {}, {row})
    BY <1>4, <1>6, <1>9, <1>10, Zenon DEF Statement, InsertItem
  <1> QED
    BY <1>11, StatementKeeps, Zenon

LEMMA UpdateItemKeeps ==
    ASSUME NEW s \in Sessions, UpdateItem(s), OInv
    PROVE  OInv'
  <1>0. Types /\ InFlight /\ Busy(s) /\ sess[s].pc = "replace"
    BY Zenon DEF OInv, UpdateItem, Busy, IsOpen
  <1>1. sess[s].conn \in Conns /\ sess[s].tok \in Nat
    BY <1>0, BusyTyped, Zenon
  <1>2. PICK rows, add : rows = RowsAt(s) /\ add = {[r EXCEPT !.tok = sess[s].tok] : r \in RowsAt(s)}
    BY Zenon
  <1>3. rows \subseteq ItemRows /\ rows \subseteq Row /\ \A r \in rows : r.t = "item"
    BY <1>0, <1>2, RowsAtTyped, Zenon
  <1>4. add \subseteq Row /\ \A r \in add : r.t = "item" /\ r.tok = sess[s].tok
    <2>1. ASSUME NEW r \in ItemRows, NEW q, q = [r EXCEPT !.tok = sess[s].tok]
          PROVE  q \in ItemRows /\ q.t = "item" /\ q.tok = sess[s].tok
      BY <1>1, <2>1, SMTT(60) DEF ItemRows
    <2>2. \A q \in add : q \in ItemRows /\ q.t = "item" /\ q.tok = sess[s].tok
      <3> SUFFICES ASSUME NEW q \in add
                   PROVE  q \in ItemRows /\ q.t = "item" /\ q.tok = sess[s].tok
        BY Zenon
      <3>1. PICK r \in rows : q = [r EXCEPT !.tok = sess[s].tok]
        BY <1>2, Zenon
      <3> QED
        BY <1>3, <2>1, <3>1, Zenon
    <2> QED
      BY <2>2, Zenon DEF Row
  <1>5. /\ Exec(sess[s].conn, rows, add)
        /\ Continue(s, Overwrote(log, sess[s].tok, rows), "delete_tags")
    BY <1>2, Zenon DEF UpdateItem
  <1>6. Ran(sess[s].conn, rows, add)
    BY <1>0, <1>1, <1>3, <1>4, <1>5, ExecRan, Zenon
  <1>7. PICK f : /\ Noted(s, f) /\ Overwrote(log, sess[s].tok, rows) = [log EXCEPT ![sess[s].tok] = f]
                 /\ \A r \in rows : Main(r) => r.tok \in f.over
    BY <1>0, <1>3, OverwroteNoted, Zenon
  <1>8. PICK k, e : Stepped(s, k, e) /\ e.over = f.over
    <2>1. log[sess[s].tok].op # "insert"
      BY <1>0, Zenon DEF InFlight
    <2>2. PICK pc : pc = "delete_tags"
      BY Zenon
    <2>3. /\ pc \in {"done", "delete_tags", "item_id"}
          /\ log[sess[s].tok].op = "insert" => pc \in {"done", "item_id"}
          /\ pc = "item_id" => sess[s].tags # {}
          /\ Continue(s, Overwrote(log, sess[s].tok, rows), pc)
      BY <1>5, <2>1, <2>2, Zenon
    <2> QED
      BY <1>0, <1>7, <2>3, ContinueSteps, ZenonT(60)
  <1>9. Statement(s, k, e, rows, add)
    BY <1>0, <1>3, <1>4, <1>6, <1>7, <1>8, Zenon DEF Statement, UpdateItem, Types
  <1> QED
    BY <1>9, StatementKeeps, Zenon

LEMMA DeleteTagsKeeps ==
    ASSUME NEW s \in Sessions, DeleteTags(s), OInv
    PROVE  OInv'
  <1>0. Types /\ InFlight /\ Busy(s) /\ sess[s].pc = "delete_tags"
    BY Zenon DEF OInv, DeleteTags, Busy, IsOpen
  <1>1. sess[s].conn \in Conns
    BY <1>0, BusyTyped, Zenon
  <1>2. PICK rows : rows = TagsOf(sess[s].conn, {sess[s].pid})
    BY Zenon
  <1>3. rows \subseteq Row /\ \A r \in rows : r.t = "tag" /\ ~Main(r)
    BY <1>0, <1>2, RowsAtTyped, TagsOfTyped, Zenon
  <1>4. Exec(sess[s].conn, rows, {}) /\ Continue(s, log, TagStep(s))
    BY <1>2, Zenon DEF DeleteTags
  <1>5. Ran(sess[s].conn, rows, {})
    <2>1. {} \in SUBSET Row /\ rows \in SUBSET Row
      BY <1>3, Zenon
    <2> QED
      BY <1>0, <1>1, <1>4, <2>1, ExecRan, Zenon
  <1>6. PICK k, e : Stepped(s, k, e)
    <2>1. Noted(s, log[sess[s].tok]) /\ log = [log EXCEPT ![sess[s].tok] = log[sess[s].tok]]
      BY <1>0, LogNoted, Zenon
    <2>2. /\ TagStep(s) \in {"done", "delete_tags", "item_id"}
          /\ log[sess[s].tok].op = "insert" => TagStep(s) \in {"done", "item_id"}
          /\ TagStep(s) = "item_id" => sess[s].tags # {}
      BY Zenon DEF TagStep
    <2> QED
      BY <1>0, <1>4, <2>1, <2>2, ContinueSteps, ZenonT(60)
  <1>7. Statement(s, k, e, rows, {})
    BY <1>0, <1>3, <1>5, <1>6, Zenon DEF Statement, DeleteTags, Types
  <1> QED
    BY <1>7, StatementKeeps, Zenon

LEMMA NoRows ==
    ASSUME NEW c \in Conns, Types, db' = db, conn' = conn
    PROVE  Ran(c, {}, {})
  BY Zenon DEF Ran, Moved, Types

LEMMA GetItemIdKeeps ==
    ASSUME NEW s \in Sessions, GetItemId(s), OInv
    PROVE  OInv'
  <1>0. Types /\ InFlight /\ Busy(s)
    BY Zenon DEF OInv, GetItemId, Busy, IsOpen
  <1>1. sess[s].conn \in Conns /\ sess[s] \in BusySession
    BY <1>0, BusyTyped, Zenon
  <1>2. PICK r \in RowsAt(s) : sess' = [sess EXCEPT ![s].pc = "tag", ![s].item = r.id]
    BY Zenon DEF GetItemId
  <1>3. r.id \in Nat
    BY <1>0, RowsAtTyped, Zenon DEF ItemRows
  <1>4. PICK k : k = [sess[s] EXCEPT !.pc = "tag", !.item = r.id]
    BY Zenon
  <1>5. /\ k \in BusySession /\ k.conn = sess[s].conn /\ k.txn = sess[s].txn /\ k.gen = sess[s].gen
        /\ k.tok = sess[s].tok /\ k.pc = "tag" /\ k.tags = sess[s].tags
    <2>1. k \in BusySession
      BY <1>1, <1>3, <1>4, ZenonT(60) DEF BusySession
    <2> QED
      BY <1>1, <1>4, <2>1, ZenonT(60) DEF BusySession
  <1>6. sess' = [sess EXCEPT ![s] = k]
    BY <1>0, <1>2, <1>4, Zenon DEF Types
  <1>7. PICK f : f = log[sess[s].tok]
    BY Zenon
  <1>8. Noted(s, f) /\ log' = [log EXCEPT ![sess[s].tok] = f]
    BY <1>0, <1>7, LogNoted, Zenon DEF GetItemId
  <1>9. k.pc # "insert" /\ k.pc \in {"item_id", "tag"} /\ k.tags # {}
    <2>1. sess[s].tags # {}
      BY <1>0, Zenon DEF GetItemId, InFlight
    <2> QED
      BY <1>5, <2>1, Zenon
  <1>10. Stepped(s, k, f)
    BY <1>0, <1>5, <1>6, <1>8, <1>9, CallGoesOn, ZenonT(60)
  <1>11. sess[s].pc # "insert"
    BY Zenon DEF GetItemId
  <1>12. Ran(sess[s].conn, {}, {})
    BY <1>0, <1>1, NoRows, Zenon DEF GetItemId
  <1>13. Statement(s, k, f, {}, {})
    BY <1>0, <1>10, <1>11, <1>12, Zenon DEF Statement, GetItemId, Types
  <1> QED
    BY <1>13, StatementKeeps, Zenon

LEMMA StatementFailsKeeps ==
    ASSUME NEW s \in Sessions, StatementFails(s), OInv
    PROVE  OInv'
  <1>0. Types /\ InFlight /\ Busy(s)
    BY Zenon DEF OInv, StatementFails, Busy, IsOpen
  <1>1. sess[s].conn \in Conns
    BY <1>0, BusyTyped, Zenon
  <1>2. PICK ok \in BOOLEAN : ok = FALSE
    BY Zenon
  <1>3. PICK f : f = log[sess[s].tok]
    BY Zenon
  <1>4. Returning(s, f, log, ok)
    <2>1. Noted(s, f) /\ log = [log EXCEPT ![sess[s].tok] = f]
      BY <1>0, <1>3, LogNoted, Zenon
    <2>2. sess' = Idle(s) /\ log' = Returned(s, log, ok)
      BY <1>2, Zenon DEF StatementFails
    <2> QED
      BY <2>1, <2>2, Zenon DEF Returning
  <1>5. PICK k, e : Stepped(s, k, e) /\ e.over = f.over /\ e.ok = ok /\ k.pc = "idle"
    BY <1>0, <1>4, CallReturns, SMTT(60)
  <1>6. ~(e.ok \/ k.pc # "idle")
    BY <1>2, <1>5, SMTT(60)
  <1>7. Ran(sess[s].conn, {}, {})
    BY <1>0, <1>1, NoRows, Zenon DEF StatementFails
  <1>8. Statement(s, k, e, {}, {})
    BY <1>0, <1>5, <1>6, <1>7, Zenon DEF Statement, StatementFails, Types
  <1> QED
    BY <1>8, StatementKeeps, Zenon

LEMMA InsertTagKeeps ==
    ASSUME NEW s \in Sessions, InsertTag(s), OInv
    PROVE  OInv'
  <1>0. Types /\ InFlight /\ Busy(s) /\ sess[s].pc = "tag"
    BY Zenon DEF OInv, InsertTag, Busy, IsOpen
  <1>1. /\ sess[s].conn \in Conns /\ sess[s] \in BusySession /\ sess[s].tok \in Nat
        /\ sess[s].item \in Nat /\ sess[s].tags \subseteq UNION TagSets
    BY <1>0, BusyTyped, Zenon
  <1>2. PICK tag : tag = CHOOSE g \in sess[s].tags : TRUE
    BY Zenon
  <1>3. tag \in sess[s].tags
    <2>1. sess[s].tags # {}
      BY <1>0, Zenon DEF InFlight
    <2>2. \E g \in sess[s].tags : TRUE
      BY <2>1, Zenon
    <2> QED
      BY <1>2, <2>2, Zenon
  <1>4. PICK row : row = TagRow(sess[s].item, tag, sess[s].tok)
    BY Zenon
  <1>5. row \in Row /\ row.t = "tag" /\ row.tok = sess[s].tok
    <2>1. row \in TagRows /\ row.t = "tag" /\ row.tok = sess[s].tok
      BY <1>1, <1>3, <1>4, SMTT(60) DEF TagRow, TagRows
    <2> QED
      BY <2>1, Zenon DEF Row
  <1>6. /\ Exec(sess[s].conn, {}, {row})
        /\ IF sess[s].tags = {tag} THEN Continue(s, log, "done")
           ELSE sess' = [sess EXCEPT ![s].tags = @ \ {tag}] /\ log' = log
    BY <1>2, <1>4, Zenon DEF InsertTag
  <1>7. Ran(sess[s].conn, {}, {row})
    <2>1. {} \in SUBSET Row /\ {row} \in SUBSET Row
      BY <1>5, Zenon
    <2> QED
      BY <1>0, <1>1, <1>6, <2>1, ExecRan, Zenon
  <1>8. PICK f : f = log[sess[s].tok]
    BY Zenon
  <1>9. Noted(s, f) /\ log = [log EXCEPT ![sess[s].tok] = f]
    BY <1>0, <1>8, LogNoted, Zenon
  <1>10. \E k, e : Stepped(s, k, e)
    <2>1. CASE sess[s].tags = {tag}
      <3>1. PICK pc : pc = "done"
        BY Zenon
      <3>2. /\ pc \in {"done", "delete_tags", "item_id"} /\ pc \in {"done", "item_id"}
            /\ pc = "item_id" => sess[s].tags # {}
            /\ Continue(s, log, pc)
        BY <1>6, <2>1, <3>1, Zenon
      <3> QED
        BY <1>0, <1>9, <3>2, ContinueSteps, ZenonT(60)
    <2>2. CASE sess[s].tags # {tag}
      <3>1. PICK k : k = [sess[s] EXCEPT !.tags = sess[s].tags \ {tag}]
        BY Zenon
      <3>2. sess' = [sess EXCEPT ![s] = k] /\ log' = [log EXCEPT ![sess[s].tok] = f]
        BY <1>0, <1>6, <1>9, <2>2, <3>1, Zenon DEF Types
      <3>3. sess[s].tags \ {tag} \in SUBSET UNION TagSets /\ sess[s].tags \ {tag} # {}
        BY <1>1, <1>3, <2>2, SMTT(60)
      <3>4. k \in BusySession
        BY <1>1, <3>1, <3>3, ZenonT(60) DEF BusySession
      <3>5. /\ k.conn = sess[s].conn /\ k.txn = sess[s].txn /\ k.gen = sess[s].gen
            /\ k.tok = sess[s].tok /\ k.pc = "tag" /\ k.tags # {}
        BY <1>0, <1>1, <3>1, <3>3, ZenonT(60) DEF BusySession
      <3>6. k.pc # "insert" /\ k.pc \in {"item_id", "tag"}
        BY <3>5, Zenon
      <3>7. Stepped(s, k, f)
        BY <1>0, <1>9, <3>2, <3>4, <3>5, <3>6, CallGoesOn, ZenonT(60)
      <3> QED
        BY <3>7, Zenon
    <2> QED
      BY <2>1, <2>2, Zenon
  <1>11. PICK k, e : Stepped(s, k, e)
    BY <1>10, Zenon
  <1>12. Statement(s, k, e, {}, {row})
    BY <1>0, <1>5, <1>7, <1>11, Zenon DEF Statement, InsertTag, Types
  <1> QED
    BY <1>12, StatementKeeps, Zenon

LEMMA DeleteItemsKeeps ==
    ASSUME NEW s \in Sessions, DeleteItems(s), OInv
    PROVE  OInv'
  <1>0. Types /\ InFlight /\ Busy(s) /\ sess[s].pc \in {"remove", "remove_all"}
    BY Zenon DEF OInv, DeleteItems, Busy, IsOpen
  <1>1. sess[s].conn \in Conns
    BY <1>0, BusyTyped, Zenon
  <1>2. PICK rows : rows = IF sess[s].pc = "remove" THEN RowsAt(s)
                           ELSE {r \in View(sess[s].conn) : r.t = "item" /\ r.pid = sess[s].pid}
    BY Zenon
  <1>3. PICK tags : tags = TagsOf(sess[s].conn, {r.id : r \in rows})
    BY Zenon
  <1>4. rows \subseteq Row /\ \A r \in rows : r.t = "item"
    BY <1>0, <1>2, RowsAtTyped, Zenon
  <1>5. tags \subseteq Row /\ \A r \in tags : r.t = "tag" /\ ~Main(r)
    BY <1>0, <1>3, RowsAtTyped, TagsOfTyped, Zenon
  <1>6. /\ Exec(sess[s].conn, rows \cup tags, {})
        /\ Continue(s, Overwrote(log, sess[s].tok, rows), "done")
    BY <1>2, <1>3, Zenon DEF DeleteItems
  <1>7. PICK del : del = rows \cup tags
    BY Zenon
  <1>8. Ran(sess[s].conn, del, {})
    <2>1. {} \in SUBSET Row /\ del \in SUBSET Row /\ Exec(sess[s].conn, del, {})
      BY <1>4, <1>5, <1>6, <1>7, Zenon
    <2> QED
      BY <1>0, <1>1, <2>1, ExecRan, Zenon
  <1>9. PICK f : /\ Noted(s, f) /\ Overwrote(log, sess[s].tok, rows) = [log EXCEPT ![sess[s].tok] = f]
                 /\ \A r \in rows : Main(r) => r.tok \in f.over
    BY <1>0, <1>4, OverwroteNoted, Zenon
  <1>10. PICK k, e : Stepped(s, k, e) /\ e.over = f.over
    <2>1. PICK pc : pc = "done"
      BY Zenon
    <2>2. /\ pc \in {"done", "delete_tags", "item_id"} /\ pc \in {"done", "item_id"}
          /\ pc = "item_id" => sess[s].tags # {}
          /\ Continue(s, Overwrote(log, sess[s].tok, rows), pc)
      BY <1>6, <2>1, Zenon
    <2> QED
      BY <1>0, <1>9, <2>2, ContinueSteps, ZenonT(60)
  <1>11. /\ \A r \in del : r.t \in {"item", "tag"}
         /\ \A r \in del : Main(r) => r.tok \in e.over
    BY <1>4, <1>5, <1>7, <1>9, <1>10, Zenon
  <1>12. Statement(s, k, e, del, {})
    BY <1>0, <1>8, <1>10, <1>11, Zenon DEF Statement, DeleteItems, Types
  <1> QED
    BY <1>12, StatementKeeps, Zenon
----------------------------------------------------------------------------
(***************************************************************************)
(* Steps that touch no row: the caches, the start of a call.               *)
(***************************************************************************)
\* The caches grow, or get one more id: none goes, and each keeps its key.
CachesStep ==
    /\ caches' \in Seq([key : Nat, ids : SUBSET (Profiles \X Nat)]) /\ caches' # <<>>
    /\ DOMAIN caches \subseteq DOMAIN caches'

LEMMA SameCaches ==
    ASSUME Types, caches' = caches
    PROVE  CachesStep /\ Backend'.key = Backend.key
  BY Zenon DEF Types, CachesStep, Backend

LEMMA WithIdTyped ==
    ASSUME NEW gen \in DOMAIN caches, NEW p \in Profiles, NEW pid \in Nat, Types,
           caches' = WithId(gen, p, pid)
    PROVE  CachesStep /\ Backend'.key = Backend.key
  <1> DEFINE Cache == [key : Nat, ids : SUBSET (Profiles \X Nat)]
  <1>1. PICK i : i = {e \in caches[gen].ids : e[1] # p} \cup {<<p, pid>>}
    BY Zenon
  <1>2. /\ caches \in Seq(Cache) /\ caches # <<>> /\ Len(caches) \in Nat
        /\ DOMAIN caches = 1..Len(caches) /\ caches = [g \in 1..Len(caches) |-> caches[g]]
        /\ Len(caches) \in 1..Len(caches)
        /\ \A g \in 1..Len(caches) : caches[g] \in Cache
    <2>1. caches \in Seq(Cache) /\ caches # <<>>
      BY Zenon DEF Types
    <2> HIDE DEF Cache
    <2> QED
      BY <2>1, SMTT(60)
  <1>3. <<p, pid>> \in Profiles \X Nat
    BY Zenon
  <1>4. i \in SUBSET (Profiles \X Nat)
    BY <1>1, <1>2, <1>3, Zenon
  <1>5. PICK k : k = [caches[gen] EXCEPT !.ids = i]
    BY Zenon
  <1>6. caches' = [caches EXCEPT ![gen] = k]
    BY <1>1, <1>5, Zenon DEF WithId
  <1>7. k \in Cache /\ k.key = caches[gen].key
    BY <1>2, <1>4, <1>5, Zenon
  <1> HIDE DEF Cache
  <1>8. caches' = [g \in 1..Len(caches) |-> caches'[g]] /\ \A g \in 1..Len(caches) : caches'[g] \in Cache
    BY <1>2, <1>6, <1>7, Zenon
  <1>9. caches' \in Seq(Cache) /\ Len(caches') = Len(caches)
    BY <1>2, <1>8, SeqLike, SMTT(60)
  <1>10. caches' # <<>> /\ DOMAIN caches' = DOMAIN caches
    <2>1. DOMAIN caches' = DOMAIN caches
      BY <1>2, <1>8, Zenon
    <2>2. Len(caches') # 0
      BY <1>2, <1>9, SMTT(60)
    <2> QED
      BY <2>1, <2>2, SMTT(60)
  <1>11. \A g \in 1..Len(caches) : caches'[g].key = caches[g].key
    BY <1>2, <1>6, <1>7, Zenon
  <1>12. Backend'.key = Backend.key
    BY <1>2, <1>9, <1>11, Zenon DEF Backend
  <1> QED
    BY <1>9, <1>10, <1>12, Zenon DEF CachesStep, Cache

LEMMA AcquireTyped ==
    ASSUME NEW s \in Sessions, NEW pid \in Nat, AcquireKey(s, pid), Types, IsOpen(s)
    PROVE  CachesStep /\ Backend'.key = Backend.key
  <1>1. sess[s].gen \in DOMAIN caches /\ sess[s].profile \in Profiles
    BY OpenTyped, Zenon
  <1>2. CASE caches' = caches
    BY <1>2, SameCaches, Zenon
  <1>3. CASE caches' = WithId(sess[s].gen, sess[s].profile, pid)
    BY <1>1, <1>3, WithIdTyped, Zenon
  <1> QED
    BY <1>2, <1>3, Zenon DEF AcquireKey

LEMMA QuietKeeps ==
    ASSUME OInv, CachesStep, AdmStep, adm' \in Adm,
           adm'.op = "rekey" => adm' = adm,
           db' = db, conn' = conn, sess' = sess, log' = log, dirty' = dirty, torn' = torn,
           nextId' = nextId
    PROVE  OInv'
  <1>1. Types'
    BY Zenon DEF OInv, Types, CachesStep
  <1>2. Holding'
    BY Zenon DEF OInv, Holding, IsOpen
  <1>3. InFlight'
    BY Zenon DEF OInv, InFlight, Busy, IsOpen, Live, Tokens
  <1>4. Tokens' = Tokens
    BY Zenon DEF Tokens
  <1>5. BooksKept'
    <2>1. FixedToks' = FixedToks /\ TxnToks' = TxnToks /\ Overs' = Overs
      BY <1>4, Zenon DEF FixedToks, Fixed, TxnToks, OpenOn, Overs
    <2>2. Inserted' = Inserted
      BY <1>4, Zenon DEF Inserted, Busy, IsOpen
    <2>3. Adds' = Adds /\ Dels' = Dels
      BY Zenon DEF Adds, Dels
    <2> QED
      BY <2>1, <2>2, <2>3, Zenon DEF OInv, BooksKept
  <1>6. KeyInv'
    <2>1. Creations /\ DbStep
      BY Zenon DEF Creations, DbStep
    <2>2. ConnStep
      BY Zenon DEF ConnStep, Pending, Stray
    <2>3. RowsLogged /\ KeyInv
      BY BooksLogged, Zenon DEF OInv
    <2> QED
      BY <2>1, <2>2, <2>3, KeyKept, Zenon
  <1> QED
    BY <1>1, <1>2, <1>3, <1>5, <1>6, Zenon DEF OInv

LEMMA ReadKeeps ==
    ASSUME NEW s \in Sessions, Read(s), OInv
    PROVE  OInv'
  <1>0. Types /\ IsOpen(s)
    BY Zenon DEF OInv, Read, IsOpen
  <1>1. PICK pid \in 1..nextId.prof : AcquireKey(s, pid)
    BY Zenon DEF Read
  <1>2. pid \in Nat
    BY <1>0, SMTT(60) DEF Types
  <1>3. CachesStep /\ Backend'.key = Backend.key
    BY <1>0, <1>1, <1>2, AcquireTyped, Zenon
  <1>4. adm' = adm /\ db' = db /\ conn' = conn /\ sess' = sess /\ log' = log /\ dirty' = dirty
        /\ torn' = torn /\ nextId' = nextId /\ up' = up
    BY Zenon DEF Read
  <1>5. AdmStep
    BY <1>3, <1>4, Zenon DEF AdmStep
  <1>6. adm' \in Adm
    BY <1>0, <1>4, Zenon DEF Types
  <1> QED
    BY <1>3, <1>4, <1>5, <1>6, QuietKeeps, Zenon

LEMMA CacheProfileKeeps ==
    ASSUME CacheProfile, OInv
    PROVE  OInv'
  <1>0. Types /\ adm.op = "create" /\ caches' = WithId(Len(caches), adm.name, adm.pid) /\ adm' = NoCall
        /\ db' = db /\ conn' = conn /\ sess' = sess /\ log' = log /\ dirty' = dirty
        /\ torn' = torn /\ nextId' = nextId /\ up' = up
    BY Zenon DEF OInv, CacheProfile
  <1>1. adm.name \in Profiles /\ adm.pid \in Nat /\ NoCall \in Adm /\ NoCall.op = "none"
    BY <1>0, AdmTyped, Zenon
  <1>2. Len(caches) \in DOMAIN caches
    BY <1>0, SMTT(60) DEF Types
  <1>3. CachesStep /\ Backend'.key = Backend.key
    BY <1>0, <1>1, <1>2, WithIdTyped, Zenon
  <1>4. AdmStep
    BY <1>0, <1>1, <1>3, Zenon DEF AdmStep, Rewrapping
  <1> QED
    BY <1>0, <1>1, <1>3, <1>4, QuietKeeps, Zenon

LEMMA OpenKeeps ==
    ASSUME Open, OInv
    PROVE  OInv'
  <1>0. Types /\ KeyInv /\ adm' = adm /\ db' = db /\ conn' = conn /\ sess' = sess /\ log' = log
        /\ dirty' = dirty /\ torn' = torn /\ nextId' = nextId
    BY Zenon DEF OInv, Open
  <1>1. PICK k \in db, r \in db :
           /\ KeyRow(k) /\ r.t = "prof"
           /\ caches' = Append(caches, [key |-> k.value, ids |-> {<<r.name, r.id>>}])
    BY Zenon DEF Open, KeyRow
  <1>2. k.value \in Nat /\ r.name \in Profiles /\ r.id \in Nat
    <2>1. k \in ConfigRows /\ r \in ProfRows
      BY <1>0, <1>1, RowKinds, Zenon DEF Types, KeyRow
    <2>2. k.value \in Nat
      BY <1>1, <2>1, Zenon DEF ConfigRows, KeyRow
    <2> QED
      BY <2>1, <2>2, Zenon DEF ProfRows
  <1>3. PICK i : i = [key |-> k.value, ids |-> {<<r.name, r.id>>}]
    BY Zenon
  <1>4. i \in [key : Nat, ids : SUBSET (Profiles \X Nat)] /\ i.key = k.value
    BY <1>2, <1>3, SMTT(60)
  <1>5. CachesStep /\ Backend'.key = k.value
    BY <1>0, <1>1, <1>3, <1>4, SMTT(60) DEF Types, CachesStep, Backend
  <1>6. ~torn => \A j \in db : KeyRow(j) => j.value = k.value
    BY <1>0, <1>1, Zenon DEF KeyInv
  <1>7. AdmStep
    BY <1>0, <1>5, <1>6, Zenon DEF AdmStep
  <1>8. adm' \in Adm
    BY <1>0, Zenon DEF Types
  <1> QED
    BY <1>0, <1>5, <1>7, <1>8, QuietKeeps, Zenon

\* What a new change n with entry e adds to the changes that stand or are of a transaction.
StartedToksAs(n, e) ==
    /\ \A t \in Tokens : t \in FixedToks' <=> t \in FixedToks
    /\ \A t \in Tokens, c \in Conns : t \in TxnToks'[c] <=> t \in TxnToks[c]
    /\ \A t \in Tokens : Overs'[t] = Overs[t]
    /\ Overs'[n] = e.over
    /\ n \in FixedToks' <=> \/ e.fate \in {"kept", "leaked"}
                            \/ e.fate = "open" /\ conn[e.conn].auto
    /\ \A c \in Conns : n \in TxnToks'[c] <=>
          ~conn[c].auto /\ e.conn = c /\ e.fate \in {"open", "dropped"}
    /\ \A t \in FixedToks' : t \in Tokens \/ t = n
    /\ \A c \in Conns : \A t \in TxnToks'[c] : t \in Tokens \/ t = n
    /\ More(FixedToks, FixedToks', TxnToks, TxnToks', Overs, Overs')

LEMMA StartedToks ==
    ASSUME NEW n, NEW e, Started(n, e), Types, InFlight,
           e.fate = "open" => e.conn \in Conns,
           \A c \in Conns : conn'[c].auto = conn[c].auto
    PROVE  StartedToksAs(n, e)
  <1>1. /\ n \notin Tokens /\ n # 0 /\ Tokens' = Tokens \cup {n} /\ log'[n] = e
        /\ \A t \in Tokens : log'[t] = log[t]
    BY Zenon DEF Started
  <1>2. \A t \in Tokens : log[t].fate = "open" => log[t].conn \in Conns
    BY Zenon DEF InFlight, Live
  <1>3. \A t \in Tokens : Fixed(t)' <=> Fixed(t)
    BY <1>1, <1>2, Zenon DEF Fixed
  <1>4. \A t \in Tokens : t \in FixedToks' <=> t \in FixedToks
    BY <1>1, <1>3, Zenon DEF FixedToks
  <1>5. \A c \in Conns : TxnToks[c] = IF conn[c].auto THEN {} ELSE OpenOn(c)
    BY Zenon DEF TxnToks
  <1>6. \A c \in Conns : TxnToks'[c] = IF conn[c].auto THEN {} ELSE OpenOn(c)'
    BY Zenon DEF TxnToks
  <1>7. \A t \in Tokens, c \in Conns : t \in OpenOn(c)' <=> t \in OpenOn(c)
    BY <1>1, Zenon DEF OpenOn
  <1>8. \A t \in Tokens, c \in Conns : t \in TxnToks'[c] <=> t \in TxnToks[c]
    BY <1>5, <1>6, <1>7, Zenon
  <1>9. \A t \in Tokens : Overs'[t] = Overs[t]
    BY <1>1, Zenon DEF Overs
  <1>10. Overs'[n] = e.over
    BY <1>1, Zenon DEF Overs
  <1>11. n \in FixedToks' <=> \/ e.fate \in {"kept", "leaked"}
                              \/ e.fate = "open" /\ conn[e.conn].auto
    BY <1>1, Zenon DEF FixedToks, Fixed
  <1>12. \A c \in Conns : n \in OpenOn(c)' <=> e.conn = c /\ e.fate \in {"open", "dropped"}
    BY <1>1, Zenon DEF OpenOn
  <1>13. \A c \in Conns : n \in TxnToks'[c] <=>
            ~conn[c].auto /\ e.conn = c /\ e.fate \in {"open", "dropped"}
    BY <1>6, <1>12, Zenon
  <1>14. \A t \in FixedToks' : t \in Tokens \/ t = n
    BY <1>1, Zenon DEF FixedToks
  <1>15. \A c \in Conns : \A t \in TxnToks'[c] : t \in Tokens \/ t = n
    BY <1>1, <1>6, Zenon DEF OpenOn
  <1>16. 0 \notin FixedToks /\ \A c \in Conns : 0 \notin TxnToks[c]
    BY BooksNumbers, Zenon
  <1>17. FixedToks \subseteq Tokens /\ \A c \in Conns : TxnToks[c] \subseteq Tokens
    BY Zenon DEF FixedToks, TxnToks, OpenOn
  <1>18. 0 \notin FixedToks' /\ \A c \in Conns : 0 \notin TxnToks'[c]
    BY <1>1, <1>4, <1>8, <1>14, <1>15, <1>16, Zenon
  <1>19. More(FixedToks, FixedToks', TxnToks, TxnToks', Overs, Overs')
    BY <1>4, <1>8, <1>9, <1>17, <1>18, Zenon DEF More
  <1> QED
    BY <1>4, <1>8, <1>9, <1>10, <1>11, <1>13, <1>14, <1>15, <1>19, Zenon DEF StartedToksAs

\* No row changes.
LEMMA QuietBooks ==
    ASSUME BooksKept, db' = db,
           \A c \in Conns : conn'[c].add = conn[c].add /\ conn'[c].del = conn[c].del,
           More(FixedToks, FixedToks', TxnToks, TxnToks', Overs, Overs'),
           \A t \in FixedToks' \cap Inserted' : t \in FixedToks \cap Inserted,
           \A c \in Conns : \A t \in TxnToks'[c] \cap Inserted' : t \in TxnToks[c] \cap Inserted
    PROVE  BooksKept'
  <1>1. Adds' = Adds /\ Dels' = Dels
    BY Zenon DEF Adds, Dels
  <1>2. SameRows(db, Adds, Dels, FixedToks, FixedToks', TxnToks, TxnToks', Inserted, Inserted',
                 Overs, Overs')
    BY Zenon DEF SameRows, BooksKept
  <1>3. Books(db, Adds, Dels, FixedToks', TxnToks', Inserted', Overs')
    BY <1>2, BooksSame, Zenon
  <1> QED
    BY <1>1, <1>3, Zenon DEF BooksKept

LEMMA CallKeeps ==
    ASSUME NEW s \in Sessions, NEW op \in {"insert", "replace", "remove", "remove_all"},
           NEW n \in Names, NEW tags \in TagSets, Call(s, op, n, tags), OInv
    PROVE  OInv'
  <1>0. Types /\ Holding /\ InFlight /\ BooksKept /\ KeyInv /\ IsOpen(s) /\ sess[s].pc = "idle"
    BY Zenon DEF OInv, Call, IsOpen
  <1>1. /\ sess[s].conn \in Conns /\ sess[s].txn \in BOOLEAN /\ sess[s].gen \in Nat
        /\ sess[s].profile \in Profiles /\ sess[s].gen \in DOMAIN caches
    BY <1>0, OpenTyped, Zenon
  <1>2. PICK pid \in 1..nextId.prof :
           /\ AcquireKey(s, pid)
           /\ log' = Logged(op, sess[s].conn, <<pid, n>>, tags)
           /\ sess' = [sess EXCEPT ![s] =
                        [st |-> "open", conn |-> @.conn, txn |-> @.txn, gen |-> @.gen,
                         profile |-> @.profile, pc |-> op, pid |-> pid, name |-> n,
                         tok |-> Len(log) + 1, item |-> 0, tags |-> tags]]
    BY Zenon DEF Call
  <1>3. pid \in Nat
    BY <1>0, SMTT(60) DEF Types
  <1>4. CachesStep /\ Backend'.key = Backend.key
    BY <1>0, <1>2, <1>3, AcquireTyped, Zenon
  <1>5. PICK m : m = Len(log) + 1
    BY Zenon
  <1>6. PICK k : k = [st |-> "open", conn |-> sess[s].conn, txn |-> sess[s].txn,
                      gen |-> sess[s].gen, profile |-> sess[s].profile, pc |-> op, pid |-> pid,
                      name |-> n, tok |-> m, item |-> 0, tags |-> tags]
    BY Zenon
  <1>7. PICK e : e = [op |-> op, conn |-> sess[s].conn, at |-> <<pid, n>>, tags |-> tags,
                      fate |-> "open", ok |-> FALSE, over |-> {}]
    BY Zenon
  <1>8. m \in Nat
    BY <1>0, <1>5, LogTyped, Zenon
  <1>9. /\ k \in BusySession /\ k.st = "open" /\ k.conn = sess[s].conn /\ k.txn = sess[s].txn
        /\ k.gen = sess[s].gen /\ k.tok = m /\ k.pc = op
    BY <1>1, <1>3, <1>6, <1>8, SMTT(60) DEF BusySession
  <1>10. e \in Entry
    <2>1. <<pid, n>> \in Nat \X (Names \cup Profiles)
      BY <1>3, Zenon
    <2>2. tags \in SUBSET UNION TagSets /\ {} \in SUBSET Nat /\ "open" \in Fates
      BY Zenon DEF Fates
    <2>3. op \in {"insert", "replace", "remove", "remove_all", "create", "drop", "default", "rekey"}
      BY Zenon
    <2> QED
      BY <1>1, <1>7, <2>1, <2>2, <2>3, ZenonT(60) DEF Entry
  <1>11. /\ e.op = op /\ e.conn = sess[s].conn /\ e.fate = "open" /\ ~e.ok /\ e.over = {}
    BY <1>7, SMTT(60)
  <1>12. sess' = [sess EXCEPT ![s] = k]
    BY <1>2, <1>5, <1>6, Zenon
  <1>13. Started(m, e)
    <2>1. log' = Append(log, e)
      BY <1>2, <1>7, Zenon DEF Logged
    <2> QED
      BY <1>0, <1>5, <1>10, <2>1, LogAppended, Zenon
  <1>14. /\ db' = db /\ conn' = conn /\ adm' = adm /\ up' = up /\ nextId' = nextId
         /\ dirty' = dirty /\ torn' = torn
    BY Zenon DEF Call
  <1>15. /\ m \notin Tokens /\ Tokens' = Tokens \cup {m} /\ log'[m] = e
         /\ \A t \in Tokens : log'[t] = log[t]
    BY <1>13, Zenon DEF Started
  <1>16. /\ sess' \in [Sessions -> Session] /\ sess'[s] = k
         /\ \A u \in Sessions \ {s} : sess'[u] = sess[u]
    <2>1. k \in Session
      BY <1>9, Zenon DEF Session
    <2> QED
      BY <1>0, <1>12, <2>1, Zenon DEF Types
  <1>17. /\ Busy(s)' /\ ~Busy(s)
         /\ \A u \in Sessions \ {s} : Busy(u)' <=> Busy(u)
    BY <1>0, <1>9, <1>16, SMTT(60) DEF Busy, IsOpen
  <1>18. Types'
    <2>1. \A u \in Sessions : sess'[u].st = "open" => sess'[u].gen \in DOMAIN caches'
      BY <1>0, <1>1, <1>4, <1>9, <1>16, Zenon DEF Types, CachesStep
    <2> QED
      BY <1>0, <1>4, <1>13, <1>14, <1>16, <2>1, Zenon DEF Types, CachesStep, Started
  <1>19. Holding'
    <2>1. \A u \in Sessions : IsOpen(u)' => IsOpen(u) /\ sess'[u].conn = sess[u].conn /\ sess'[u].txn = sess[u].txn
      BY <1>0, <1>9, <1>16, Zenon DEF IsOpen
    <2> QED
      BY <1>0, <1>14, <2>1, Zenon DEF Holding
  <1>20. InFlight'
    <2>1. ASSUME NEW u \in Sessions, Busy(u)'
          PROVE  /\ sess'[u].tok \in Tokens'
                 /\ log'[sess'[u].tok].conn = sess'[u].conn
                 /\ log'[sess'[u].tok].fate = "open" /\ ~log'[sess'[u].tok].ok
                 /\ log'[sess'[u].tok].op \in {"insert", "replace", "remove", "remove_all"}
                 /\ sess'[u].pc = "insert" => log'[sess'[u].tok].op = "insert"
                 /\ log'[sess'[u].tok].op = "insert" => sess'[u].pc \in {"insert", "item_id", "tag"}
                 /\ sess'[u].pc \in {"item_id", "tag"} => sess'[u].tags # {}
      <3>1. CASE u = s
        BY <1>9, <1>11, <1>15, <1>16, <3>1, SMTT(60)
      <3>2. CASE u # s
        <4>1. Busy(u) /\ sess'[u] = sess[u]
          BY <1>16, <1>17, <2>1, <3>2, Zenon
        <4>2. sess[u].tok \in Tokens /\ log'[sess[u].tok] = log[sess[u].tok]
          BY <1>0, <1>15, <4>1, Zenon DEF InFlight
        <4>3. sess[u].tok \in Tokens'
          BY <1>15, <4>2, Zenon
        <4> QED
          BY <1>0, <4>1, <4>2, <4>3, SMTT(60) DEF InFlight
      <3> QED
        BY <3>1, <3>2, Zenon
    <2>2. ASSUME NEW t \in Tokens', Live(t)'
          PROVE  /\ log'[t].conn \in Conns
                 /\ conn'[log'[t].conn].auto => \E u \in Sessions : Busy(u)' /\ sess'[u].tok = t
      <3>1. CASE t = m
        BY <1>1, <1>9, <1>11, <1>15, <1>16, <1>17, <3>1, Zenon
      <3>2. CASE t # m
        <4>1. t \in Tokens /\ log'[t] = log[t] /\ Live(t)
          BY <1>15, <2>2, <3>2, Zenon DEF Live
        <4>2. /\ log[t].conn \in Conns
              /\ conn[log[t].conn].auto => \E u \in Sessions : Busy(u) /\ sess[u].tok = t
          BY <1>0, <4>1, Zenon DEF InFlight
        <4>3. \A u \in Sessions : Busy(u) => Busy(u)' /\ sess'[u] = sess[u]
          BY <1>16, <1>17, Zenon
        <4> QED
          BY <1>14, <4>1, <4>2, <4>3, Zenon
      <3> QED
        BY <3>1, <3>2, Zenon
    <2>3. ASSUME NEW t \in Tokens', log'[t].op \in {"create", "drop", "default", "rekey"}
          PROVE  log'[t].fate # "open"
      <3>1. t # m
        BY <1>11, <1>15, <2>3, SMTT(60)
      <3> QED
        BY <1>0, <1>15, <2>3, <3>1, Zenon DEF InFlight
    <2> QED
      BY <2>1, <2>2, <2>3, Zenon DEF InFlight
  <1>21. BooksKept'
    <2>1. StartedToksAs(m, e)
      BY <1>0, <1>1, <1>11, <1>13, <1>14, StartedToks, Zenon
    <2>2. \A u \in Sessions : Busy(u)' /\ sess'[u].pc \in {"item_id", "tag"} => Busy(u) /\ sess'[u] = sess[u]
      BY <1>9, <1>16, <1>17, SMTT(60)
    <2>3. \A u \in Sessions : Busy(u) => sess[u].tok \in Tokens
      BY <1>0, Zenon DEF InFlight
    <2>4. \A t \in Inserted' : t \in Tokens
      <3>1. m \notin Inserted'
        <4>1. ~log'[m].ok
          BY <1>11, <1>15, Zenon
        <4>2. \A u \in Sessions : Busy(u)' /\ sess'[u].pc \in {"item_id", "tag"} => sess'[u].tok # m
          BY <1>15, <2>2, <2>3, Zenon
        <4> QED
          BY <4>1, <4>2, Zenon DEF Inserted
      <3>2. Inserted' \subseteq Tokens'
        BY Zenon DEF Inserted
      <3> QED
        BY <1>15, <3>1, <3>2, Zenon
    <2>5. \A t \in Inserted' : t \in Inserted
      BY <1>15, <2>2, <2>4, Zenon DEF Inserted
    <2>6. /\ \A t \in FixedToks' \cap Inserted' : t \in FixedToks \cap Inserted
          /\ \A c \in Conns : \A t \in TxnToks'[c] \cap Inserted' : t \in TxnToks[c] \cap Inserted
          /\ More(FixedToks, FixedToks', TxnToks, TxnToks', Overs, Overs')
      BY <2>1, <2>4, <2>5, Zenon DEF StartedToksAs
    <2>7. \A c \in Conns : conn'[c].add = conn[c].add /\ conn'[c].del = conn[c].del
      BY <1>14, Zenon
    <2> QED
      BY <1>0, <1>14, <2>6, <2>7, QuietBooks, Zenon
  <1>22. KeyInv'
    <2>1. RowsLogged
      BY <1>0, BooksLogged, Zenon
    <2>2. Creations /\ DbStep
      BY <1>14, <1>15, Zenon DEF Creations, DbStep
    <2>3. ConnStep
      BY <1>14, <1>15, <2>1, Zenon DEF ConnStep, Pending, Stray, RowsLogged, Wrote
    <2>4. AdmStep
      BY <1>4, <1>14, Zenon DEF AdmStep
    <2> QED
      BY <1>0, <2>1, <2>2, <2>3, <2>4, KeyKept, Zenon
  <1> QED
    BY <1>18, <1>19, <1>20, <1>21, <1>22, Zenon DEF OInv

(***************************************************************************)
(* The calls on the backend: each is one statement, and done.              *)
(***************************************************************************)
Direct(c, m, e, del, add) ==
    /\ Ran(c, del, add)
    /\ Started(m, e)
    /\ e.op \in {"create", "drop", "default"}
    /\ IF conn[c].auto THEN e.fate = "kept" ELSE e.fate = "dropped" /\ e.conn = c
    /\ \A r \in add : Wrote(r) => r.tok = m
    /\ \A r \in del : Main(r) => r.tok \in e.over
    /\ e.op = "create" => \E q \in add : Main(q) /\ q.tok = m
    /\ \A r \in add \cup del : ~KeyRow(r)
    /\ \A r \in add : r.t = "prof" => e.op = "create" /\ r.tok = m /\ r.wrap = Backend.key
    /\ adm' \in Adm /\ adm.op # "rekey" /\ adm'.op # "rekey"
    /\ nextId' \in [prof : Nat, item : Nat]
    /\ up /\ up' = up /\ caches' = caches /\ sess' = sess /\ dirty' = dirty /\ torn' = torn

\* A call that has been answered is not in flight any more.
AnsweredCall(c, m, e) ==
    /\ Started(m, e)
    /\ IF conn[c].auto THEN e.fate = "kept" ELSE e.fate = "dropped" /\ e.conn = c
    /\ sess' = sess
    /\ \A d \in Conns : conn'[d].auto = conn[d].auto

LEMMA AnsweredInFlight ==
    ASSUME NEW c \in Conns, NEW m, NEW e, AnsweredCall(c, m, e), InFlight
    PROVE  InFlight'
  <1>1. /\ m \notin Tokens /\ Tokens' = Tokens \cup {m} /\ log'[m] = e
        /\ \A t \in Tokens : log'[t] = log[t]
    BY Zenon DEF AnsweredCall, Started
  <1>2. sess' = sess /\ \A d \in Conns : conn'[d].auto = conn[d].auto
    BY Zenon DEF AnsweredCall
  <1>3. /\ e.fate # "open"
        /\ e.fate = "dropped" => e.conn = c /\ ~conn[c].auto
    BY SMTT(60) DEF AnsweredCall
  <1>4. \A u \in Sessions : Busy(u)' <=> Busy(u)
    BY <1>2, Zenon DEF Busy, IsOpen
  <1>5. ASSUME NEW u \in Sessions, Busy(u)'
        PROVE  /\ sess'[u].tok \in Tokens'
               /\ log'[sess'[u].tok].conn = sess'[u].conn
               /\ log'[sess'[u].tok].fate = "open" /\ ~log'[sess'[u].tok].ok
               /\ log'[sess'[u].tok].op \in {"insert", "replace", "remove", "remove_all"}
               /\ sess'[u].pc = "insert" => log'[sess'[u].tok].op = "insert"
               /\ log'[sess'[u].tok].op = "insert" => sess'[u].pc \in {"insert", "item_id", "tag"}
               /\ sess'[u].pc \in {"item_id", "tag"} => sess'[u].tags # {}
    <2>1. Busy(u) /\ sess'[u] = sess[u]
      BY <1>2, <1>4, <1>5, Zenon
    <2>2. sess[u].tok \in Tokens
      BY <2>1, Zenon DEF InFlight
    <2>3. sess[u].tok \in Tokens' /\ log'[sess[u].tok] = log[sess[u].tok]
      BY <1>1, <2>2, Zenon
    <2> QED
      BY <2>1, <2>2, <2>3, SMTT(60) DEF InFlight
  <1>6. ASSUME NEW t \in Tokens', Live(t)'
        PROVE  /\ log'[t].conn \in Conns
               /\ conn'[log'[t].conn].auto => \E u \in Sessions : Busy(u)' /\ sess'[u].tok = t
    <2>1. CASE t = m
      <3>1. log'[t] = e /\ e.fate = "dropped"
        BY <1>1, <1>3, <1>6, <2>1, SMTT(60) DEF Live
      <3>2. e.conn = c /\ ~conn'[c].auto
        BY <1>2, <1>3, <3>1, Zenon
      <3>3. PICK d : d = log'[t].conn
        BY Zenon
      <3>4. d = c
        BY <3>1, <3>2, <3>3, Zenon
      <3> QED
        BY <3>2, <3>3, <3>4, Zenon
    <2>2. CASE t # m
      <3>1. t \in Tokens /\ log'[t] = log[t] /\ Live(t)
        BY <1>1, <1>6, <2>2, Zenon DEF Live
      <3>2. /\ log[t].conn \in Conns
            /\ conn[log[t].conn].auto => \E u \in Sessions : Busy(u) /\ sess[u].tok = t
        BY <3>1, Zenon DEF InFlight
      <3>3. conn'[log[t].conn].auto = conn[log[t].conn].auto
        BY <1>2, <3>2, Zenon
      <3> QED
        BY <1>2, <1>4, <3>1, <3>2, <3>3, Zenon
    <2> QED
      BY <2>1, <2>2, Zenon
  <1>7. ASSUME NEW t \in Tokens', log'[t].op \in {"create", "drop", "default", "rekey"}
        PROVE  log'[t].fate # "open"
    <2>1. CASE t = m
      BY <1>1, <1>3, <2>1, Zenon
    <2>2. CASE t # m
      BY <1>1, <1>7, <2>2, Zenon DEF InFlight
    <2> QED
      BY <2>1, <2>2, Zenon
  <1> QED
    BY <1>5, <1>6, <1>7, Zenon DEF InFlight

LEMMA DirectBooks ==
    ASSUME NEW c \in Conns, NEW m, NEW e, NEW del, NEW add, Direct(c, m, e, del, add), OInv
    PROVE  BooksKept'
  <1>0. /\ Types /\ InFlight /\ BooksKept /\ Ran(c, del, add) /\ Started(m, e)
    BY Zenon DEF OInv, Direct
  <1>1. /\ m \notin Tokens /\ Tokens' = Tokens \cup {m} /\ log'[m] = e
        /\ \A t \in Tokens : log'[t] = log[t]
    BY <1>0, Zenon DEF Started
  <1>2. \A d \in Conns : conn'[d].auto = conn[d].auto
    BY <1>0, Zenon DEF Ran, Moved
  <1>3. /\ e.fate # "open" /\ e.fate \notin {"leaked"}
        /\ conn[c].auto => e.fate = "kept"
        /\ ~conn[c].auto => e.fate = "dropped" /\ e.conn = c
    BY SMTT(60) DEF Direct
  <1>4. StartedToksAs(m, e)
    BY <1>0, <1>2, <1>3, StartedToks, Zenon
  <1>5. /\ conn[c].auto => m \in FixedToks' /\ \A d \in Conns : m \notin TxnToks'[d]
        /\ ~conn[c].auto => /\ m \in TxnToks'[c] /\ m \notin FixedToks'
                            /\ \A d \in Conns \ {c} : m \notin TxnToks'[d]
    BY <1>3, <1>4, SMTT(60) DEF StartedToksAs
  <1>6. m \in Allowed(c)'
    BY <1>2, <1>5, Zenon DEF Allowed
  <1>7. Overs'[m] = e.over
    BY <1>4, Zenon DEF StartedToksAs
  <1>8. Answers(del, add, FixedToks' \cup Allowed(c)', Allowed(c)', Overs')
    <2>1. \A r \in del : Main(r) => r.tok \in e.over
      BY Zenon DEF Direct
    <2>2. \A r \in add : Wrote(r) => r.tok = m
      BY Zenon DEF Direct
    <2>3. \A r \in del : Main(r) => Accounted(r.tok, add, Allowed(c)', Overs')
      BY <1>6, <1>7, <2>1, Zenon DEF Accounted
    <2> QED
      BY <1>6, <2>2, <2>3, Zenon DEF Answers
  <1>9. \A t \in Tokens : t \in Inserted' <=> t \in Inserted
    <2>1. sess' = sess
      BY Zenon DEF Direct
    <2>2. \A u \in Sessions : Busy(u)' <=> Busy(u)
      BY <2>1, Zenon DEF Busy, IsOpen
    <2> QED
      BY <1>1, <2>1, <2>2, Zenon DEF Inserted
  <1>10. Inserted \subseteq Tokens /\ Inserted' \subseteq Tokens'
    BY Zenon DEF Inserted
  <1>11. \A t \in Inserted' \ Inserted : t = m
    BY <1>1, <1>9, <1>10, Zenon
  <1>12. m \in Inserted' => \E q \in add : Main(q) /\ q.tok = m
    <2>1. m \in Inserted' => e.op \in {"insert", "create"}
      BY <1>1, Zenon DEF Inserted
    <2>2. e.op \in {"create", "drop", "default"} /\ (e.op = "create" => \E q \in add : Main(q) /\ q.tok = m)
      BY Zenon DEF Direct
    <2> QED
      BY <2>1, <2>2, SMTT(60)
  <1>13. /\ \A t \in Inserted : t \in FixedToks' => t \in FixedToks
         /\ \A t \in Inserted : \A d \in Conns : t \in TxnToks'[d] => t \in TxnToks[d]
    BY <1>4, <1>10, Zenon DEF StartedToksAs
  <1>14. More(FixedToks, FixedToks', TxnToks, TxnToks', Overs, Overs')
    BY <1>4, Zenon DEF StartedToksAs
  <1>15. \A t \in Inserted' \ Inserted :
            /\ \E q \in add : Main(q) /\ q.tok = t
            /\ conn[c].auto => \A d \in Conns : t \notin TxnToks'[d]
            /\ ~conn[c].auto => t \notin FixedToks' /\ \A d \in Conns \ {c} : t \notin TxnToks'[d]
    BY <1>5, <1>11, <1>12, Zenon
  <1>16. RanFor(c, del, add)
    BY <1>0, <1>8, <1>13, <1>14, <1>15, Zenon DEF RanFor, Ran
  <1> QED
    BY <1>0, <1>16, RanBooks, Zenon

LEMMA DirectKeys ==
    ASSUME NEW c \in Conns, NEW m, NEW e, NEW del, NEW add, Direct(c, m, e, del, add), OInv
    PROVE  KeyInv'
  <1>0. /\ BooksKept /\ KeyInv /\ Ran(c, del, add)
    BY Zenon DEF OInv, Direct
  <1>1. /\ m \notin Tokens /\ m # 0 /\ log'[m] = e /\ \A t \in Tokens : log'[t] = log[t]
    BY Zenon DEF Direct, Started
  <1>2. /\ \A r \in add \cup del : ~KeyRow(r)
        /\ \A r \in add : r.t = "prof" => e.op = "create" /\ r.tok = m /\ r.wrap = Backend.key
        /\ adm.op # "rekey" /\ adm'.op # "rekey"
        /\ up /\ up' = up /\ caches' = caches /\ torn' = torn
    BY Zenon DEF Direct
  <1>3. RowsLogged
    BY <1>0, BooksLogged, Zenon
  <1>4. Creations
    BY <1>1, Zenon DEF Creations
  <1>5. DbStep
    <2>1. \A r \in db' : r \in db \/ r \in add
      BY <1>0, Zenon DEF Ran, Moved
    <2>2. \A r \in add : r.t = "prof" => ProfAdded(r)
      BY <1>0, <1>1, <1>2, Zenon DEF ProfAdded, KeyInv
    <2> QED
      BY <1>2, <2>1, <2>2, Zenon DEF DbStep
  <1>6. ConnStep
    <2>1. \A d \in Conns : \A r \in conn'[d].add : r \in conn[d].add \/ (r \in add /\ ~conn[c].auto)
      BY <1>0, Zenon DEF Ran, Moved
    <2>2. \A d \in Conns : \A r \in conn'[d].del : r \in conn[d].del \/ r \in del
      BY <1>0, Zenon DEF Ran, Moved
    <2>3. \A d \in Conns : \A r \in conn[d].add : r.t = "prof" /\ r.tok # 0 => r.tok \in Tokens
      BY <1>3, Zenon DEF RowsLogged, Wrote
    <2>4. ~conn[c].auto => e.fate = "dropped"
      BY Zenon DEF Direct
    <2>5. \A d \in Conns : \A r \in conn[d].add : r.t = "prof" =>
             (~torn' /\ r.tok # 0 /\ Stray(r.tok) => Stray(r.tok)')
      BY <1>1, <2>3, Zenon DEF Stray
    <2>6. ~conn[c].auto => \A r \in add : r.t = "prof" =>
             r.tok # 0 /\ log'[r.tok].op = "create" /\ Stray(r.tok)'
      BY <1>1, <1>2, <2>4, Zenon DEF Stray
    <2>7. \A d \in Conns : \A k \in Pending(d)' : KeyRow(k) /\ ~torn' => k \in Pending(d)
      BY <1>2, <2>1, <2>2, Zenon DEF Pending
    <2> QED
      BY <2>1, <2>5, <2>6, <2>7, Zenon DEF ConnStep
  <1>7. AdmStep
    <2>1. Backend' = Backend
      BY <1>2, Zenon DEF Backend
    <2> QED
      BY <1>2, <2>1, Zenon DEF AdmStep, Rewrapping
  <1> QED
    BY <1>0, <1>3, <1>4, <1>5, <1>6, <1>7, KeyKept, Zenon

LEMMA DirectKeeps ==
    ASSUME NEW c \in Conns, NEW m, NEW e, NEW del, NEW add, Direct(c, m, e, del, add), OInv
    PROVE  OInv'
  <1>0. /\ Types /\ Holding /\ InFlight /\ Ran(c, del, add) /\ Started(m, e)
        /\ adm' \in Adm /\ adm'.op # "rekey" /\ nextId' \in [prof : Nat, item : Nat]
        /\ caches' = caches /\ sess' = sess /\ dirty' = dirty /\ torn' = torn
    BY Zenon DEF OInv, Direct
  <1>1. Types'
    BY <1>0, Zenon DEF Types, Ran, Moved, Started
  <1>2. Holding'
    <2>1. \A s \in Sessions : IsOpen(s)' => /\ IsOpen(s) /\ sess[s].conn \in Conns
                                            /\ sess'[s].conn = sess[s].conn
                                            /\ sess'[s].txn = sess[s].txn
      BY <1>0, OpenTyped, Zenon DEF IsOpen
    <2> QED
      BY <1>0, <2>1, RanHolding, Zenon
  <1>3. InFlight'
    <2>1. AnsweredCall(c, m, e)
      BY <1>0, Zenon DEF Direct, Ran, Moved, AnsweredCall
    <2> QED
      BY <1>0, <2>1, AnsweredInFlight, Zenon
  <1>4. BooksKept' /\ KeyInv'
    BY DirectBooks, DirectKeys, Zenon
  <1> QED
    BY <1>1, <1>2, <1>3, <1>4, Zenon DEF OInv

\* The log with one more change, whose entry is e.
Appended(l, e) == \E d \in Entry : l = [Append(log, d) EXCEPT ![Len(log) + 1] = e]

\* The entry of a call that has returned.
AnsweredAs(e, op, c) ==
    /\ e \in Entry /\ e.op = op /\ e.over = {} /\ e.ok
    /\ IF conn[c].auto THEN e.fate = "kept" ELSE e.fate = "dropped" /\ e.conn = c

LEMMA AnsweredLog ==
    ASSUME NEW c \in Conns, NEW op \in {"create", "drop", "default", "rekey"}, NEW p \in Profiles,
           Types
    PROVE  \E e : /\ AnsweredAs(e, op, c)
                  /\ Appended(Answered(Logged(op, c, <<0, p>>, {}), Len(log) + 1, c), e)
  <1>1. PICK d : d = [op |-> op, conn |-> c, at |-> <<0, p>>, tags |-> {},
                      fate |-> "open", ok |-> FALSE, over |-> {}]
    BY Zenon
  <1>2. d \in Entry /\ d.op = op /\ d.conn = c /\ d.over = {}
    <2>1. <<0, p>> \in Nat \X (Names \cup Profiles)
      BY SMTT(60)
    <2>2. {} \in SUBSET UNION TagSets /\ {} \in SUBSET Nat /\ "open" \in Fates /\ FALSE \in BOOLEAN
      BY Zenon DEF Fates
    <2>3. op \in {"insert", "replace", "remove", "remove_all", "create", "drop", "default", "rekey"}
          /\ c \in Conns \cup {Nobody}
      BY Zenon
    <2>4. d \in Entry
      BY <1>1, <2>1, <2>2, <2>3, ZenonT(60) DEF Entry
    <2>5. d.op = op /\ d.conn = c /\ d.over = {}
      BY <1>1, Zenon
    <2> QED
      BY <2>4, <2>5, Zenon
  <1>3. PICK f : f = IF conn[c].auto THEN "kept" ELSE "dropped"
    BY Zenon
  <1>4. f \in Fates
    BY <1>3, SMTT(60) DEF Fates
  <1>5. PICK e : e = [Settled(d, f) EXCEPT !.ok = TRUE]
    BY Zenon
  <1>6. SettledAs(d, f, e) /\ e.ok
    <2>1. PICK b \in BOOLEAN : b = TRUE
      BY Zenon
    <2>2. e = [Settled(d, f) EXCEPT !.ok = b]
      BY <1>5, <2>1, SMTT(60)
    <2>3. SettledAs(d, f, [Settled(d, f) EXCEPT !.ok = b]) /\ [Settled(d, f) EXCEPT !.ok = b].ok = b
      BY <1>2, <1>4, SettledEntry, SMTT(60)
    <2>4. SettledAs(d, f, e)
      BY <2>2, <2>3, Zenon
    <2>5. e.ok = b
      BY <2>2, <2>3, Zenon
    <2> QED
      BY <2>1, <2>4, <2>5, Zenon
  <1>7. AnsweredAs(e, op, c)
    <2>1. e \in Entry /\ e.op = op /\ e.over = {} /\ e.ok /\ e.fate = f
          /\ (f \in {"open", "dropped"} => e.conn = c)
      BY <1>2, <1>6, Zenon DEF SettledAs
    <2> QED
      BY <1>3, <2>1, SMTT(60) DEF AnsweredAs
  <1>8. Append(log, d)[Len(log) + 1] = d
    BY <1>2, SMTT(60) DEF Types
  <1>9. Logged(op, c, <<0, p>>, {}) = Append(log, d)
    BY <1>1, Zenon DEF Logged
  <1>10. Answered(Logged(op, c, <<0, p>>, {}), Len(log) + 1, c) = [Append(log, d) EXCEPT ![Len(log) + 1] = e]
    BY <1>3, <1>5, <1>8, <1>9, Zenon DEF Answered
  <1> QED
    BY <1>2, <1>7, <1>10, Zenon DEF Appended

LEMMA AppendedStarted ==
    ASSUME NEW l, NEW e \in Entry, Appended(l, e), Types, log' = l
    PROVE  Started(Len(log) + 1, e)
  BY LogReplaced, Zenon DEF Appended

\* The changes whose rows these are.
LEMMA RowToks ==
    ASSUME NEW rows \in SUBSET Row
    PROVE  /\ {r.tok : r \in {q \in rows : "tok" \in DOMAIN q}} \subseteq Nat
           /\ \A r \in rows : Main(r) => r.tok \in {q.tok : q \in {o \in rows : "tok" \in DOMAIN o}}
  <1>1. \A r \in Row : "tok" \in DOMAIN r => r.tok \in Nat
    <2> SUFFICES ASSUME NEW r \in Row, "tok" \in DOMAIN r PROVE r.tok \in Nat
      BY Zenon
    <2>1. r \notin ConfigRows
      BY SMTT(60) DEF ConfigRows
    <2> QED
      BY <2>1, RowKinds, Zenon DEF Row, ProfRows, ItemRows, TagRows
  <1>2. \A r \in rows : Main(r) => r.tok \in {q.tok : q \in {o \in rows : "tok" \in DOMAIN o}}
    BY RowKinds, Zenon DEF Main
  <1> QED
    BY <1>1, <1>2, Zenon

LEMMA OverwroteAppended ==
    ASSUME NEW l, NEW e \in Entry, NEW rows \in SUBSET Row, Appended(l, e), Types
    PROVE  \E f \in Entry : /\ f.op = e.op /\ f.fate = e.fate /\ f.conn = e.conn /\ f.ok = e.ok
                            /\ \A r \in rows : Main(r) => r.tok \in f.over
                            /\ Appended(Overwrote(l, Len(log) + 1, rows), f)
  <1>1. PICK O : O = {r.tok : r \in {q \in rows : "tok" \in DOMAIN q}}
    BY Zenon
  <1>2. O \subseteq Nat /\ \A r \in rows : Main(r) => r.tok \in O
    BY <1>1, RowToks, Zenon
  <1>3. PICK d \in Entry : l = [Append(log, d) EXCEPT ![Len(log) + 1] = e]
    BY Zenon DEF Appended
  <1>4. PICK m : m = Len(log) + 1
    BY Zenon
  <1>5. PICK a : a = Append(log, d)
    BY Zenon
  <1>6. m \in DOMAIN a
    BY <1>4, <1>5, SMTT(60) DEF Types
  <1>7. l = [a EXCEPT ![m] = e]
    BY <1>3, <1>4, <1>5, Zenon
  <1>8. PICK f : f = [e EXCEPT !.over = e.over \cup O]
    BY Zenon
  <1>9. f \in Entry
    <2>1. e.over \cup O \in SUBSET Nat
      BY <1>2, Zenon DEF Entry
    <2> QED
      BY <1>8, <2>1, ZenonT(60) DEF Entry
  <1>10. f.op = e.op /\ f.fate = e.fate /\ f.conn = e.conn /\ f.ok = e.ok /\ f.over = e.over \cup O
    BY <1>8, SMTT(60) DEF Entry
  <1>11. Overwrote(l, m, rows) = [l EXCEPT ![m] = [l[m] EXCEPT !.over = l[m].over \cup O]]
    BY <1>1, Zenon DEF Overwrote
  <1>12. l[m] = e
    BY <1>6, <1>7, Zenon
  <1>13. Overwrote(l, m, rows) = [l EXCEPT ![m] = f]
    BY <1>8, <1>11, <1>12, Zenon
  <1>14. [l EXCEPT ![m] = f] = [a EXCEPT ![m] = f]
    BY <1>7, Zenon
  <1>15. Appended(Overwrote(l, Len(log) + 1, rows), f)
    BY <1>4, <1>5, <1>13, <1>14, Zenon DEF Appended
  <1> QED
    BY <1>2, <1>9, <1>10, <1>15, Zenon

LEMMA SeqLast ==
    ASSUME NEW S, NEW q \in Seq(S), q # <<>>
    PROVE  q[Len(q)] \in S
  BY SMTT(60)

LEMMA CreateProfileKeeps ==
    ASSUME NEW p \in Profiles, CreateProfile(p), OInv
    PROVE  OInv'
  <1>0. Types /\ adm = NoCall
    BY Zenon DEF OInv, CreateProfile
  <1>1. PICK c \in Conns :
           /\ Exec(c, {}, {ProfRow(nextId.prof, p, Backend.key, Len(log) + 1)})
           /\ log' = Answered(Logged("create", c, <<0, p>>, {}), Len(log) + 1, c)
           /\ adm' = [op |-> "create", name |-> p, pid |-> nextId.prof]
    BY Zenon DEF CreateProfile
  <1>2. PICK m : m = Len(log) + 1
    BY Zenon
  <1>3. PICK row : row = ProfRow(nextId.prof, p, Backend.key, m)
    BY Zenon
  <1>4. m \in Nat /\ m # 0 /\ nextId.prof \in Nat /\ Backend.key \in Nat
    <2>1. m \in Nat /\ m # 0
      BY <1>0, <1>2, LogTyped, Zenon
    <2>2. nextId.prof \in Nat
      BY <1>0, Zenon DEF Types
    <2>3. Backend \in [key : Nat, ids : SUBSET (Profiles \X Nat)]
      BY <1>0, SeqLast, Zenon DEF Types, Backend
    <2> QED
      BY <2>1, <2>2, <2>3, Zenon
  <1>5. row \in Row /\ row.t = "prof" /\ row.tok = m /\ row.wrap = Backend.key
    BY <1>3, <1>4, SMTT(60) DEF ProfRow, Row, ProfRows
  <1>6. PICK add : add = {row}
    BY Zenon
  <1>7. Ran(c, {}, add)
    <2>1. {} \in SUBSET Row /\ add \in SUBSET Row
      BY <1>5, <1>6, Zenon
    <2>2. Exec(c, {}, add)
      BY <1>1, <1>2, <1>3, <1>6, Zenon
    <2> QED
      BY <1>0, <2>1, <2>2, ExecRan, Zenon
  <1>8. PICK op : op = "create"
    BY Zenon
  <1>9. PICK e : /\ AnsweredAs(e, op, c)
                 /\ Appended(Answered(Logged(op, c, <<0, p>>, {}), Len(log) + 1, c), e)
    <2>1. op \in {"create", "drop", "default", "rekey"}
      BY <1>8, Zenon
    <2> QED
      BY <1>0, <2>1, AnsweredLog, Zenon
  <1>10. Started(m, e)
    <2>1. e \in Entry /\ Appended(log', e)
      BY <1>1, <1>8, <1>9, Zenon DEF AnsweredAs
    <2> QED
      BY <1>0, <1>2, <2>1, AppendedStarted, Zenon
  <1>11. /\ e.op = "create"
         /\ IF conn[c].auto THEN e.fate = "kept" ELSE e.fate = "dropped" /\ e.conn = c
    BY <1>8, <1>9, Zenon DEF AnsweredAs
  <1>12. adm' \in Adm /\ adm.op # "rekey" /\ adm'.op # "rekey"
    <2>1. adm' \in [op : {"create"}, name : Profiles, pid : Nat]
      BY <1>1, <1>4, Zenon
    <2> QED
      BY <1>0, <2>1, SMTT(60) DEF Adm, NoCall
  <1>13. nextId' \in [prof : Nat, item : Nat]
    BY <1>0, SMTT(60) DEF Types, CreateProfile
  <1>14. /\ up /\ up' = up /\ caches' = caches /\ sess' = sess /\ dirty' = dirty /\ torn' = torn
    BY Zenon DEF CreateProfile
  <1>15. /\ \A r \in add : r.t = "prof" /\ r.tok = m /\ r.wrap = Backend.key /\ Main(r) /\ ~KeyRow(r)
         /\ \E q \in add : Main(q) /\ q.tok = m
    BY <1>4, <1>5, <1>6, SMTT(60) DEF Main, KeyRow
  <1>16. Direct(c, m, e, {}, add)
    BY <1>7, <1>10, <1>11, <1>12, <1>13, <1>14, <1>15, Zenon DEF Direct
  <1> QED
    BY <1>16, DirectKeeps, Zenon

LEMMA RemoveProfileKeeps ==
    ASSUME NEW p \in Profiles, RemoveProfile(p), OInv
    PROVE  OInv'
  <1>0. Types /\ adm.op # "rekey"
    BY Zenon DEF OInv, RemoveProfile
  <1> DEFINE profs(c) == {r \in View(c) : r.t = "prof" /\ r.name = p}
             items(c) == {r \in View(c) : r.t = "item" /\ \E q \in profs(c) : q.id = r.pid}
             gone(c) == profs(c) \cup items(c) \cup TagsOf(c, {r.id : r \in items(c)})
  <1>1. PICK c \in Conns :
           /\ Exec(c, gone(c), {})
           /\ log' = Overwrote(Answered(Logged("drop", c, <<0, p>>, {}), Len(log) + 1, c),
                               Len(log) + 1, gone(c))
    BY Zenon DEF RemoveProfile
  <1>2. PICK rows : rows = gone(c)
    BY Zenon
  <1>3. View(c) \subseteq Row
    BY <1>0, ConnTyped, Zenon
  <1>4. rows \subseteq Row /\ \A r \in rows : r.t \in {"prof", "item", "tag"}
    BY <1>2, <1>3, Zenon DEF TagsOf
  <1> HIDE DEF profs, items, gone
  <1>5. PICK m : m = Len(log) + 1
    BY Zenon
  <1>6. Ran(c, rows, {})
    <2>1. {} \in SUBSET Row /\ rows \in SUBSET Row
      BY <1>4, Zenon
    <2>2. Exec(c, rows, {})
      BY <1>1, <1>2, Zenon
    <2> QED
      BY <1>0, <2>1, <2>2, ExecRan, Zenon
  <1>7. PICK op : op = "drop"
    BY Zenon
  <1>8. PICK l : l = Answered(Logged(op, c, <<0, p>>, {}), Len(log) + 1, c)
    BY Zenon
  <1>9. PICK e : AnsweredAs(e, op, c) /\ Appended(l, e)
    <2>1. op \in {"create", "drop", "default", "rekey"}
      BY <1>7, Zenon
    <2> QED
      BY <1>0, <1>8, <2>1, AnsweredLog, Zenon
  <1>10. PICK f \in Entry : /\ f.op = e.op /\ f.fate = e.fate /\ f.conn = e.conn
                            /\ \A r \in rows : Main(r) => r.tok \in f.over
                            /\ Appended(Overwrote(l, Len(log) + 1, rows), f)
    <2>1. e \in Entry /\ rows \in SUBSET Row
      BY <1>4, <1>9, Zenon DEF AnsweredAs
    <2> QED
      BY <1>0, <1>9, <2>1, OverwroteAppended, Zenon
  <1>11. Started(m, f)
    <2>1. Appended(log', f)
      BY <1>1, <1>2, <1>7, <1>8, <1>10, Zenon
    <2> QED
      BY <1>0, <1>5, <2>1, AppendedStarted, Zenon
  <1>12. /\ f.op = "drop"
         /\ IF conn[c].auto THEN f.fate = "kept" ELSE f.fate = "dropped" /\ f.conn = c
    BY <1>7, <1>9, <1>10, Zenon DEF AnsweredAs
  <1>13. /\ up /\ up' = up /\ caches' = caches /\ sess' = sess /\ dirty' = dirty /\ torn' = torn
         /\ adm' \in Adm /\ adm'.op # "rekey" /\ nextId' \in [prof : Nat, item : Nat]
    BY <1>0, Zenon DEF RemoveProfile, Types
  <1>14. \A r \in rows : ~KeyRow(r)
    BY <1>4, Zenon DEF KeyRow
  <1>15. f.op # "create" /\ f.op \in {"create", "drop", "default"}
    BY <1>12, Zenon
  <1>16. Direct(c, m, f, rows, {})
    BY <1>0, <1>6, <1>10, <1>11, <1>12, <1>13, <1>14, <1>15, Zenon DEF Direct
  <1> QED
    BY <1>16, DirectKeeps, Zenon

LEMMA SetDefaultProfileKeeps ==
    ASSUME NEW p \in Profiles, SetDefaultProfile(p), OInv
    PROVE  OInv'
  <1>0. Types /\ adm.op # "rekey"
    BY Zenon DEF OInv, SetDefaultProfile
  <1>1. PICK c \in Conns :
           /\ Exec(c, {r \in View(c) : r.t = "config" /\ r.name = "default_profile"},
                   {ConfigRow("default_profile", p)})
           /\ log' = Answered(Logged("default", c, <<0, p>>, {}), Len(log) + 1, c)
    BY Zenon DEF SetDefaultProfile
  <1>2. PICK del : del = {r \in View(c) : r.t = "config" /\ r.name = "default_profile"}
    BY Zenon
  <1>3. PICK row : row = ConfigRow("default_profile", p)
    BY Zenon
  <1>4. row \in Row /\ row.t = "config" /\ row.name = "default_profile"
    BY <1>3, SMTT(60) DEF ConfigRow, Row, ConfigRows
  <1>5. PICK add : add = {row}
    BY Zenon
  <1>6. PICK m : m = Len(log) + 1
    BY Zenon
  <1>7. Ran(c, del, add)
    <2>1. View(c) \subseteq Row
      BY <1>0, ConnTyped, Zenon
    <2>2. del \in SUBSET Row /\ add \in SUBSET Row
      BY <1>2, <1>4, <1>5, <2>1, Zenon
    <2>3. Exec(c, del, add)
      BY <1>1, <1>2, <1>3, <1>5, Zenon
    <2> QED
      BY <1>0, <2>2, <2>3, ExecRan, Zenon
  <1>8. PICK op : op = "default"
    BY Zenon
  <1>9. PICK e : /\ AnsweredAs(e, op, c)
                 /\ Appended(Answered(Logged(op, c, <<0, p>>, {}), Len(log) + 1, c), e)
    <2>1. op \in {"create", "drop", "default", "rekey"}
      BY <1>8, Zenon
    <2> QED
      BY <1>0, <2>1, AnsweredLog, Zenon
  <1>10. Started(m, e)
    <2>1. e \in Entry /\ Appended(log', e)
      BY <1>1, <1>8, <1>9, Zenon DEF AnsweredAs
    <2> QED
      BY <1>0, <1>6, <2>1, AppendedStarted, Zenon
  <1>11. /\ e.op = "default"
         /\ IF conn[c].auto THEN e.fate = "kept" ELSE e.fate = "dropped" /\ e.conn = c
    BY <1>8, <1>9, Zenon DEF AnsweredAs
  <1>12. /\ up /\ up' = up /\ caches' = caches /\ sess' = sess /\ dirty' = dirty /\ torn' = torn
         /\ adm' \in Adm /\ adm'.op # "rekey" /\ nextId' \in [prof : Nat, item : Nat]
    BY <1>0, Zenon DEF SetDefaultProfile, Types
  <1>13. \A r \in add \cup del : r.t = "config" /\ r.name = "default_profile"
    BY <1>2, <1>4, <1>5, Zenon
  <1>14. \A r \in add \cup del : ~KeyRow(r) /\ ~Wrote(r) /\ ~Main(r) /\ r.t # "prof"
    BY <1>13, Zenon DEF KeyRow, Wrote, Main
  <1>15. e.op # "create" /\ e.op \in {"create", "drop", "default"}
    BY <1>11, Zenon
  <1>16. Direct(c, m, e, del, add)
    BY <1>0, <1>7, <1>10, <1>11, <1>12, <1>14, <1>15, Zenon DEF Direct
  <1> QED
    BY <1>16, DirectKeeps, Zenon
----------------------------------------------------------------------------
(***************************************************************************)
(* The end of a transaction: what is pending on connection c is committed  *)
(* or rolled back, and the connection commits by itself again.             *)
(***************************************************************************)
Ends(c) ==
    /\ conn[c].holder # "rekey"
    /\ \A u \in Sessions : Busy(u) => sess[u].conn # c
    /\ log' \in Seq(Entry) /\ Tokens' = Tokens
    /\ \A t \in Tokens : /\ log'[t].op = log[t].op /\ log'[t].ok = log[t].ok
                         /\ log'[t].over = log[t].over
    /\ \A t \in Tokens \ OpenOn(c) : log'[t] = log[t]
    /\ \A t \in OpenOn(c) : log'[t].conn = Nobody /\ (log'[t].fate = "kept" => log[t].fate = "open")
    /\ \/ db' = View(c) /\ \A t \in OpenOn(c) : log'[t].fate \in {"kept", "leaked"}
       \/ db' = db /\ \A t \in OpenOn(c) : log'[t].fate = "undone"
    /\ conn' \in [Conns -> Conn]
    /\ \A d \in Conns \ {c} : conn'[d] = conn[d]
    /\ conn'[c].auto /\ conn'[c].add = {} /\ conn'[c].del = {}
    /\ sess' \in [Sessions -> Session]
    /\ \A u \in Sessions : IsOpen(u)' => sess'[u].gen \in DOMAIN caches
    /\ \A u \in Sessions : Busy(u)' <=> Busy(u)
    /\ \A u \in Sessions : Busy(u) => sess'[u] = sess[u]
    /\ \A u \in Sessions : IsOpen(u)' =>
          \/ IsOpen(u) /\ sess'[u] = sess[u] /\ sess[u].conn # c
          \/ sess'[u].conn = c /\ ~sess'[u].txn /\ conn'[c].holder = u
    /\ dirty' = dirty \ {c}
    /\ caches' = caches /\ adm' = adm /\ up' = up /\ nextId' = nextId /\ torn' = torn

\* What the transaction consists of, and what becomes of it.
EndToks(c) ==
    /\ TxnToks[c] = OpenOn(c) /\ TxnToks'[c] = {}
    /\ \A d \in Conns \ {c} : TxnToks'[d] = TxnToks[d]
    /\ \A t \in Tokens \ OpenOn(c) : t \in FixedToks' <=> t \in FixedToks
    /\ \A t \in OpenOn(c) : t \notin FixedToks
    /\ \A t \in OpenOn(c) : t \in FixedToks' <=> log'[t].fate \in {"kept", "leaked"}
    /\ Inserted' = Inserted /\ Overs' = Overs

LEMMA EndsToks ==
    ASSUME NEW c \in Conns, Ends(c), Types, Holding, InFlight
    PROVE  EndToks(c)
  <1>0. Nobody \notin Conns
    BY OdbcAssumption, Zenon
  <1>1. /\ Tokens' = Tokens /\ \A t \in Tokens \ OpenOn(c) : log'[t] = log[t]
        /\ \A t \in OpenOn(c) : log'[t].conn = Nobody
        /\ \A d \in Conns \ {c} : conn'[d] = conn[d]
        /\ conn'[c].auto
    BY Zenon DEF Ends
  <1>2. conn[c].auto => OpenOn(c) = {}
    <2> SUFFICES ASSUME conn[c].auto, NEW t \in OpenOn(c) PROVE FALSE
      BY Zenon
    <2>1. t \in Tokens /\ Live(t) /\ log[t].conn = c
      BY Zenon DEF OpenOn, Live
    <2>2. PICK u \in Sessions : Busy(u) /\ sess[u].tok = t
      BY <2>1, Zenon DEF InFlight
    <2>3. log[t].conn = sess[u].conn
      BY <2>2, Zenon DEF InFlight
    <2> QED
      BY <2>1, <2>2, <2>3, Zenon DEF Ends
  <1>3. TxnToks[c] = OpenOn(c) /\ TxnToks'[c] = {}
    BY <1>1, <1>2, Zenon DEF TxnToks
  <1>4. ASSUME NEW d \in Conns \ {c} PROVE TxnToks'[d] = TxnToks[d]
    <2>1. \A t \in Tokens : t \in OpenOn(d)' <=> t \in OpenOn(d)
      <3> SUFFICES ASSUME NEW t \in Tokens PROVE t \in OpenOn(d)' <=> t \in OpenOn(d)
        BY Zenon
      <3>1. CASE t \in OpenOn(c)
        <4>1. log[t].conn = c /\ log'[t].conn = Nobody
          BY <1>1, <3>1, Zenon DEF OpenOn
        <4> QED
          BY <1>0, <4>1, Zenon DEF OpenOn
      <3>2. CASE t \notin OpenOn(c)
        BY <1>1, <3>2, Zenon DEF OpenOn
      <3> QED
        BY <3>1, <3>2, Zenon
    <2>2. OpenOn(d)' \subseteq Tokens /\ OpenOn(d) \subseteq Tokens
      BY <1>1, Zenon DEF OpenOn
    <2>3. OpenOn(d)' = OpenOn(d)
      BY <2>1, <2>2, Zenon
    <2>4. conn'[d].auto = conn[d].auto
      BY <1>1, Zenon
    <2> QED
      BY <2>3, <2>4, Zenon DEF TxnToks
  <1>5. ASSUME NEW t \in Tokens \ OpenOn(c) PROVE t \in FixedToks' <=> t \in FixedToks
    <2>1. log'[t] = log[t]
      BY <1>1, Zenon
    <2>2. log[t].fate = "open" => log[t].conn \in Conns \ {c}
      BY Zenon DEF InFlight, Live, OpenOn
    <2>3. Fixed(t)' <=> Fixed(t)
      BY <1>1, <2>1, <2>2, Zenon DEF Fixed
    <2> QED
      BY <1>1, <2>3, Zenon DEF FixedToks
  <1>6. \A t \in OpenOn(c) : t \notin FixedToks
    BY <1>3, TxnsApart, Zenon
  <1>7. ASSUME NEW t \in OpenOn(c) PROVE t \in FixedToks' <=> log'[t].fate \in {"kept", "leaked"}
    <2>1. log'[t].fate # "open" /\ t \in Tokens
      BY Zenon DEF Ends, OpenOn
    <2> QED
      BY <1>1, <2>1, Zenon DEF FixedToks, Fixed
  <1>8. Inserted' = Inserted
    <2>1. \A t \in Tokens : log'[t].op = log[t].op /\ log'[t].ok = log[t].ok
      BY Zenon DEF Ends
    <2>2. \A u \in Sessions : (Busy(u)' <=> Busy(u)) /\ (Busy(u) => sess'[u] = sess[u])
      BY Zenon DEF Ends
    <2>3. \A t \in Tokens : t \in Inserted' <=> t \in Inserted
      BY <1>1, <2>1, <2>2, ZenonT(60) DEF Inserted
    <2>4. Inserted' \subseteq Tokens /\ Inserted \subseteq Tokens
      BY <1>1, Zenon DEF Inserted
    <2> QED
      BY <2>3, <2>4, Zenon
  <1>9. Overs' = Overs
    <2>1. \A t \in Tokens : log'[t].over = log[t].over
      BY Zenon DEF Ends
    <2> QED
      BY <1>1, <2>1, Zenon DEF Overs
  <1> QED
    BY <1>3, <1>4, <1>5, <1>6, <1>7, <1>8, <1>9, Zenon DEF EndToks

LEMMA EndsLog ==
    ASSUME NEW c \in Conns, Ends(c), InFlight
    PROVE  InFlight'
  <1>1. /\ Tokens' = Tokens /\ \A t \in Tokens \ OpenOn(c) : log'[t] = log[t]
        /\ \A d \in Conns \ {c} : conn'[d] = conn[d]
        /\ \A u \in Sessions : Busy(u)' <=> Busy(u)
        /\ \A u \in Sessions : Busy(u) => sess'[u] = sess[u] /\ sess[u].conn # c
    BY Zenon DEF Ends
  <1>2. \A t \in OpenOn(c) : log'[t].fate \notin {"open", "dropped"}
    BY Zenon DEF Ends
  <1>3. ASSUME NEW u \in Sessions, Busy(u)'
        PROVE  /\ sess'[u].tok \in Tokens'
               /\ log'[sess'[u].tok].conn = sess'[u].conn
               /\ log'[sess'[u].tok].fate = "open" /\ ~log'[sess'[u].tok].ok
               /\ log'[sess'[u].tok].op \in {"insert", "replace", "remove", "remove_all"}
               /\ sess'[u].pc = "insert" => log'[sess'[u].tok].op = "insert"
               /\ log'[sess'[u].tok].op = "insert" => sess'[u].pc \in {"insert", "item_id", "tag"}
               /\ sess'[u].pc \in {"item_id", "tag"} => sess'[u].tags # {}
    <2>1. Busy(u) /\ sess'[u] = sess[u] /\ sess[u].conn # c
      BY <1>1, <1>3, Zenon
    <2>2. sess[u].tok \in Tokens /\ log[sess[u].tok].conn = sess[u].conn
      BY <2>1, Zenon DEF InFlight
    <2>3. sess[u].tok \notin OpenOn(c)
      BY <2>1, <2>2, Zenon DEF OpenOn
    <2>4. sess[u].tok \in Tokens' /\ log'[sess[u].tok] = log[sess[u].tok]
      BY <1>1, <2>2, <2>3, Zenon
    <2> QED
      BY <2>1, <2>2, <2>4, SMTT(60) DEF InFlight
  <1>4. ASSUME NEW t \in Tokens', Live(t)'
        PROVE  /\ log'[t].conn \in Conns
               /\ conn'[log'[t].conn].auto => \E u \in Sessions : Busy(u)' /\ sess'[u].tok = t
    <2>1. t \in Tokens \ OpenOn(c)
      BY <1>1, <1>2, <1>4, Zenon DEF Live
    <2>2. log'[t] = log[t] /\ Live(t)
      BY <1>1, <1>4, <2>1, Zenon DEF Live
    <2>3. /\ log[t].conn \in Conns
          /\ conn[log[t].conn].auto => \E u \in Sessions : Busy(u) /\ sess[u].tok = t
      BY <2>1, <2>2, Zenon DEF InFlight
    <2>4. log[t].conn # c
      BY <2>1, <2>2, Zenon DEF OpenOn, Live
    <2>5. conn'[log[t].conn].auto = conn[log[t].conn].auto
      BY <1>1, <2>3, <2>4, Zenon
    <2>6. \A u \in Sessions : Busy(u) /\ sess[u].tok = t => Busy(u)' /\ sess'[u].tok = t
      BY <1>1, Zenon
    <2> QED
      BY <2>2, <2>3, <2>5, <2>6, Zenon
  <1>5. ASSUME NEW t \in Tokens', log'[t].op \in {"create", "drop", "default", "rekey"}
        PROVE  log'[t].fate # "open"
    <2>1. CASE t \in OpenOn(c)
      BY <1>2, <2>1, Zenon
    <2>2. CASE t \notin OpenOn(c)
      BY <1>1, <1>5, <2>2, Zenon DEF InFlight
    <2> QED
      BY <2>1, <2>2, Zenon
  <1> QED
    BY <1>3, <1>4, <1>5, Zenon DEF InFlight

LEMMA EndsBooks ==
    ASSUME NEW c \in Conns, Ends(c), Types, Holding, InFlight, BooksKept
    PROVE  BooksKept'
  <1>1. /\ TxnToks[c] = OpenOn(c) /\ TxnToks'[c] = {}
        /\ \A d \in Conns \ {c} : TxnToks'[d] = TxnToks[d]
        /\ \A t \in Tokens \ OpenOn(c) : t \in FixedToks' <=> t \in FixedToks
        /\ \A t \in OpenOn(c) : t \notin FixedToks
        /\ \A t \in OpenOn(c) : t \in FixedToks' <=> log'[t].fate \in {"kept", "leaked"}
        /\ Inserted' = Inserted /\ Overs' = Overs
    BY EndsToks, Zenon DEF EndToks
  <1>2. 0 \notin FixedToks /\ \A d \in Conns : 0 \notin TxnToks[d]
    BY BooksNumbers, Zenon
  <1>3. FixedToks \subseteq Tokens /\ FixedToks' \subseteq Tokens
    BY Zenon DEF FixedToks, Ends
  <1>4. 0 \notin Tokens
    BY LogTyped, Zenon
  <1>5. 0 \notin FixedToks' /\ \A d \in Conns : 0 \notin TxnToks'[d]
    BY <1>1, <1>2, <1>3, <1>4, Zenon
  <1>6. /\ \A d \in Conns \ {c} : Adds'[d] = Adds[d] /\ Dels'[d] = Dels[d]
        /\ Adds'[c] = {} /\ Dels'[c] = {}
        /\ Adds[c] = conn[c].add /\ Dels[c] = conn[c].del
    BY Zenon DEF Ends, Adds, Dels
  <1>7. CASE db' = View(c) /\ \A t \in OpenOn(c) : log'[t].fate \in {"kept", "leaked"}
    <2>1. \A t \in FixedToks \cup TxnToks[c] : t \in FixedToks'
      BY <1>1, <1>3, <1>7, Zenon
    <2>2. \A t \in FixedToks' : t \in FixedToks \cup TxnToks[c]
      BY <1>1, <1>3, Zenon
    <2>3. CommittedRows(db, Adds, Adds', Dels, Dels', FixedToks, FixedToks', TxnToks, TxnToks',
                        Inserted, Inserted', Overs, Overs', c)
      BY <1>1, <1>5, <1>6, <2>1, <2>2, Zenon DEF CommittedRows, BooksKept
    <2>4. Books((db \ Dels[c]) \cup Adds[c], Adds', Dels', FixedToks', TxnToks', Inserted', Overs')
      BY <2>3, BooksCommit, Zenon
    <2>5. db' = (db \ Dels[c]) \cup Adds[c]
      BY <1>6, <1>7, Zenon DEF View
    <2> QED
      BY <2>4, <2>5, Zenon DEF BooksKept
  <1>8. CASE db' = db /\ \A t \in OpenOn(c) : log'[t].fate = "undone"
    <2>1. \A t \in Tokens : t \in FixedToks' <=> t \in FixedToks
      BY <1>1, <1>8, Zenon
    <2>2. PICK C : C = {c}
      BY Zenon
    <2>3. DroppedRows(db, Adds, Adds', Dels, Dels', FixedToks, FixedToks', TxnToks, TxnToks',
                      Inserted, Inserted', Overs, Overs', C)
      BY <1>1, <1>3, <1>5, <1>6, <2>1, <2>2, Zenon DEF DroppedRows, BooksKept
    <2>4. Books(db, Adds', Dels', FixedToks', TxnToks', Inserted', Overs')
      BY <2>3, BooksRollback, Zenon
    <2> QED
      BY <1>8, <2>4, Zenon DEF BooksKept
  <1> QED
    BY <1>7, <1>8, Zenon DEF Ends

LEMMA EndsKeys ==
    ASSUME NEW c \in Conns, Ends(c), OInv
    PROVE  KeyInv'
  <1>0. Types /\ Holding /\ InFlight /\ BooksKept /\ KeyInv
    BY Zenon DEF OInv
  <1>1. /\ Tokens' = Tokens /\ \A t \in Tokens \ OpenOn(c) : log'[t] = log[t]
        /\ \A t \in Tokens : log'[t].op = log[t].op
        /\ \A t \in OpenOn(c) : log'[t].fate = "kept" => log[t].fate = "open"
        /\ \A d \in Conns \ {c} : conn'[d] = conn[d]
        /\ conn'[c].add = {} /\ conn'[c].del = {}
        /\ caches' = caches /\ adm' = adm /\ up' = up /\ torn' = torn
    BY Zenon DEF Ends
  <1>2. RowsLogged
    BY <1>0, BooksLogged, Zenon
  <1>3. Creations
    <2>1. \A t \in Tokens : log[t].op = "create" => log[t].fate # "open"
      BY <1>0, Zenon DEF InFlight
    <2> QED
      BY <1>1, <2>1, Zenon DEF Creations, OpenOn
  <1>4. adm.op = "rekey" => adm.conn \in Conns /\ adm.conn # c
    BY <1>0, AdmTyped, Zenon DEF Holding, Ends
  <1>5. DbStep
    <2>1. \A r \in db' : r \in db \/ r \in conn[c].add
      BY Zenon DEF Ends, View
    <2>2. ASSUME NEW r \in conn[c].add, r.t = "prof" PROVE ProfAdded(r)
      <3>1. r.tok # 0 => log'[r.tok].op = "create" /\ r.tok \in Tokens /\ log[r.tok].op = "create"
        BY <1>0, <1>1, <1>2, <2>2, Zenon DEF KeyInv, RowsLogged, Wrote
      <3>2. ASSUME ~torn' PROVE r.tok # 0 /\ log'[r.tok].fate # "kept"
        <4>1. r.tok # 0 /\ log[r.tok].fate \in {"dropped", "leaked"}
          BY <1>0, <1>1, <1>4, <2>2, <3>2, Zenon DEF KeyInv, Rewrapping
        <4> QED
          BY <1>3, <3>1, <4>1, Zenon DEF Creations
      <3> QED
        BY <3>1, <3>2, Zenon DEF ProfAdded
    <2>3. ~torn' => \A k \in conn[c].add : ~KeyRow(k)
      BY <1>0, <1>1, Zenon DEF KeyInv, Pending
    <2> QED
      BY <2>1, <2>2, <2>3, Zenon DEF DbStep
  <1>6. ConnStep
    <2>1. ASSUME NEW d \in Conns, NEW r \in conn'[d].add, r.t = "prof"
          PROVE  r \in conn[d].add /\ (r.tok # 0 /\ Stray(r.tok) => Stray(r.tok)')
      <3>1. d # c /\ r \in conn[d].add
        BY <1>1, <2>1, Zenon
      <3>2. ASSUME r.tok # 0 PROVE r.tok \in FixedToks \cup TxnToks[d]
        <4>1. Wrote(r) /\ r \in Adds[d]
          BY <2>1, <3>1, <3>2, Zenon DEF Wrote, Adds
        <4> QED
          BY <1>0, <4>1, Zenon DEF BooksKept, Books
      <3>3. r.tok # 0 => r.tok \notin OpenOn(c) /\ r.tok \in Tokens
        <4>1. TxnToks[c] = OpenOn(c)
          BY <1>0, EndsToks, Zenon DEF EndToks
        <4>2. FixedToks \subseteq Tokens /\ TxnToks[d] \subseteq Tokens
          BY Zenon DEF FixedToks, TxnToks, OpenOn
        <4>3. r.tok \in OpenOn(c) => r.tok \notin FixedToks /\ r.tok \notin TxnToks[d]
          BY <3>1, <4>1, TxnsApart, Zenon
        <4> QED
          BY <3>2, <4>2, <4>3, Zenon
      <3> QED
        BY <1>1, <3>1, <3>3, Zenon DEF Stray
    <2>2. \A d \in Conns : \A k \in Pending(d)' : k \in Pending(d)
      BY <1>1, Zenon DEF Pending
    <2> QED
      BY <2>1, <2>2, Zenon DEF ConnStep
  <1>7. AdmStep
    BY <1>1, <1>4, Zenon DEF AdmStep, Backend
  <1> QED
    BY <1>0, <1>2, <1>3, <1>5, <1>6, <1>7, KeyKept, Zenon

LEMMA EndsKeeps ==
    ASSUME NEW c \in Conns, Ends(c), OInv
    PROVE  OInv'
  <1>0. Types /\ Holding /\ InFlight /\ BooksKept
    BY Zenon DEF OInv
  <1>1. Types'
    <2>1. db' \subseteq Row
      <3>1. View(c) \subseteq Row /\ db \subseteq Row
        BY <1>0, ConnTyped, Zenon DEF Types
      <3>2. db' = View(c) \/ db' = db
        BY Zenon DEF Ends
      <3> QED
        BY <3>1, <3>2, Zenon
    <2>2. dirty' \subseteq Conns
      BY <1>0, Zenon DEF Types, Ends
    <2> QED
      BY <1>0, <2>1, <2>2, Zenon DEF Types, Ends, IsOpen
  <1>2. Holding'
    <2>1. /\ \A d \in Conns \ {c} : conn'[d] = conn[d]
          /\ conn'[c].auto /\ conn'[c].add = {} /\ conn'[c].del = {}
          /\ conn[c].holder # "rekey" /\ adm' = adm /\ dirty' = dirty \ {c}
      BY Zenon DEF Ends
    <2>2. \A d \in Conns : conn'[d].auto => conn'[d].add = {} /\ conn'[d].del = {}
      BY <1>0, <2>1, Zenon DEF Holding
    <2>3. ASSUME NEW u \in Sessions, IsOpen(u)'
          PROVE  /\ conn'[sess'[u].conn].holder = u
                 /\ sess'[u].txn = ~conn'[sess'[u].conn].auto
      <3>1. CASE IsOpen(u) /\ sess'[u] = sess[u] /\ sess[u].conn # c
        <4>1. sess[u].conn \in Conns
          BY <1>0, <3>1, OpenTyped, Zenon
        <4>2. conn'[sess[u].conn] = conn[sess[u].conn]
          BY <2>1, <3>1, <4>1, Zenon
        <4> QED
          BY <1>0, <3>1, <4>2, Zenon DEF Holding
      <3>2. CASE sess'[u].conn = c /\ ~sess'[u].txn /\ conn'[c].holder = u
        <4>1. sess'[u] \in IdleSession \cup BusySession
          <5>1. sess'[u] \in Session /\ sess'[u].st = "open"
            BY <2>3, Zenon DEF Ends, IsOpen
          <5>2. FreeSession.st = "free"
            BY Zenon DEF FreeSession
          <5> QED
            BY <5>1, <5>2, SMTT(60) DEF Session
        <4>2. sess'[u].txn \in BOOLEAN
          BY <4>1, Zenon DEF IdleSession, BusySession
        <4> QED
          BY <2>1, <3>2, <4>2, Zenon
      <3> QED
        BY <2>3, <3>1, <3>2, Zenon DEF Ends
    <2>4. \A d \in Conns \ dirty' : conn'[d].holder \in {Nobody, "rekey"} => conn'[d].auto
      BY <1>0, <2>1, Zenon DEF Holding
    <2>5. adm'.op = "rekey" => conn'[adm'.conn].holder = "rekey"
      BY <1>0, <2>1, AdmTyped, Zenon DEF Holding
    <2> QED
      BY <2>2, <2>3, <2>4, <2>5, Zenon DEF Holding
  <1>3. InFlight' /\ BooksKept' /\ KeyInv'
    BY <1>0, EndsLog, EndsBooks, EndsKeys, Zenon
  <1> QED
    BY <1>1, <1>2, <1>3, Zenon DEF OInv

\* The changes T get the fate f.
FatedAs(T, f) ==
    /\ log' \in Seq(Entry) /\ Tokens' = Tokens
    /\ \A t \in Tokens : /\ log'[t].op = log[t].op /\ log'[t].ok = log[t].ok
                         /\ log'[t].over = log[t].over
    /\ \A t \in Tokens \ T : log'[t] = log[t]
    /\ \A t \in T : /\ log'[t].fate = f
                    /\ log'[t].conn = IF f \in {"open", "dropped"} THEN log[t].conn ELSE Nobody

LEMMA FatedLog ==
    ASSUME NEW T \in SUBSET Tokens, NEW f \in Fates, Types, log' = Fated(log, T, f)
    PROVE  FatedAs(T, f)
  <1>1. /\ DOMAIN log = Tokens /\ \A t \in Tokens : log[t] \in Entry
    BY LogTyped, Zenon
  <1>2. log' = [t \in Tokens |-> IF t \in T THEN Settled(log[t], f) ELSE log[t]]
    BY <1>1, Zenon DEF Fated
  <1>3. \A t \in T : log'[t] = Settled(log[t], f) /\ SettledAs(log[t], f, log'[t]) /\ log'[t].ok = log[t].ok
    <2> SUFFICES ASSUME NEW t \in T
                 PROVE  /\ log'[t] = Settled(log[t], f) /\ SettledAs(log[t], f, log'[t])
                        /\ log'[t].ok = log[t].ok
      BY Zenon
    <2>1. PICK e \in Entry : e = log[t]
      BY <1>1, Zenon
    <2>2. log'[t] = Settled(e, f)
      BY <1>2, <2>1, Zenon
    <2>3. SettledAs(e, f, Settled(e, f)) /\ Settled(e, f).ok = e.ok
      BY SettledEntry, SMTT(60)
    <2> QED
      BY <2>1, <2>2, <2>3, Zenon
  <1>4. \A t \in Tokens \ T : log'[t] = log[t]
    BY <1>2, Zenon
  <1>5. \A t \in Tokens : log'[t] \in Entry /\ log'[t].op = log[t].op /\ log'[t].ok = log[t].ok
                          /\ log'[t].over = log[t].over
    BY <1>1, <1>3, <1>4, Zenon DEF SettledAs
  <1>6. log' = [t \in Tokens |-> log'[t]]
    BY <1>2, Zenon
  <1>7. log' \in Seq(Entry) /\ Tokens' = Tokens
    BY <1>5, <1>6, LogChanged, Zenon
  <1>8. \A t \in T : /\ log'[t].fate = f
                     /\ log'[t].conn = IF f \in {"open", "dropped"} THEN log[t].conn ELSE Nobody
    BY <1>3, Zenon DEF SettledAs
  <1> QED
    BY <1>4, <1>5, <1>7, <1>8, Zenon DEF FatedAs

\* A connection that commits by itself and has nothing pending.
Fresh(k, h) == k \in Conn /\ k.auto /\ k.add = {} /\ k.del = {} /\ k.holder = h

LEMMA FreshConn ==
    ASSUME NEW c \in Conns, NEW h \in Sessions \cup {Nobody, "rekey"}, Types
    PROVE  /\ Fresh([AutocommitConn(c, TRUE) EXCEPT !.holder = h], h)
           /\ \A b \in BOOLEAN : conn[c].holder = h =>
                 Fresh([AutocommitConn(c, b) EXCEPT !.add = {}, !.del = {}, !.auto = TRUE], h)
  <1>1. conn[c] \in Conn
    BY ConnTyped, Zenon
  <1>2. PICK k : k = conn[c]
    BY Zenon
  <1>3. {} \in SUBSET Row /\ TRUE \in BOOLEAN /\ FALSE \in BOOLEAN
    BY Zenon
  <1>4. AutocommitConn(c, TRUE) = [[k EXCEPT !.add = {}, !.del = {}] EXCEPT !.auto = TRUE]
    BY <1>2, Zenon DEF AutocommitConn, CommittedConn
  <1>5. AutocommitConn(c, FALSE) = [k EXCEPT !.auto = FALSE]
    BY <1>2, Zenon DEF AutocommitConn, CommittedConn
  <1>6. PICK a : a = AutocommitConn(c, TRUE)
    BY Zenon
  <1>7. a \in Conn /\ a.add = {} /\ a.del = {} /\ a.auto /\ a.holder = k.holder
    <2>1. PICK b : b = [k EXCEPT !.add = {}, !.del = {}]
      BY Zenon
    <2>2. b \in Conn
      BY <1>1, <1>2, <1>3, <2>1, ZenonT(60) DEF Conn
    <2>3. b.add = {} /\ b.del = {} /\ b.holder = k.holder
      BY <1>1, <1>2, <2>1, SMTT(60) DEF Conn
    <2>4. a = [b EXCEPT !.auto = TRUE]
      BY <1>4, <1>6, <2>1, Zenon
    <2>5. a \in Conn /\ a.auto
      BY <1>3, <2>2, <2>4, ZenonT(60) DEF Conn
    <2>6. a.add = b.add /\ a.del = b.del /\ a.holder = b.holder
      BY <2>2, <2>4, SMTT(60) DEF Conn
    <2> QED
      BY <2>3, <2>5, <2>6, Zenon
  <1>8. PICK z : z = AutocommitConn(c, FALSE)
    BY Zenon
  <1>9. z \in Conn /\ z.holder = k.holder
    <2>1. z \in Conn
      BY <1>1, <1>2, <1>3, <1>5, <1>8, ZenonT(60) DEF Conn
    <2>2. z.holder = k.holder
      BY <1>1, <1>2, <1>5, <1>8, ZenonT(60) DEF Conn
    <2> QED
      BY <2>1, <2>2, Zenon
  <1>10. ASSUME NEW x \in Conn, x.holder = h
         PROVE  Fresh([x EXCEPT !.add = {}, !.del = {}, !.auto = TRUE], h)
    <2>1. PICK y : y = [x EXCEPT !.add = {}, !.del = {}, !.auto = TRUE]
      BY Zenon
    <2>2. y \in Conn /\ y.auto
      BY <1>3, <2>1, ZenonT(60) DEF Conn
    <2>3. y.add = {} /\ y.del = {} /\ y.holder = h
      BY <1>10, <2>1, ZenonT(60) DEF Conn
    <2> QED
      BY <2>1, <2>2, <2>3, Zenon DEF Fresh
  <1>11. Fresh([a EXCEPT !.holder = h], h)
    <2>1. PICK y : y = [a EXCEPT !.holder = h]
      BY Zenon
    <2>2. y \in Conn /\ y.auto
      BY <1>7, <2>1, ZenonT(60) DEF Conn
    <2>3. y.add = {} /\ y.del = {} /\ y.holder = h
      BY <1>7, <2>1, ZenonT(60) DEF Conn
    <2> QED
      BY <2>1, <2>2, <2>3, Zenon DEF Fresh
  <1>12. ASSUME NEW b \in BOOLEAN, conn[c].holder = h
         PROVE  Fresh([AutocommitConn(c, b) EXCEPT !.add = {}, !.del = {}, !.auto = TRUE], h)
    <2>1. PICK x : x = AutocommitConn(c, b)
      BY Zenon
    <2>2. x = a \/ x = z
      BY <1>6, <1>8, <2>1, Zenon DEF AutocommitConn
    <2>3. x \in Conn /\ x.holder = h
      BY <1>2, <1>7, <1>9, <1>12, <2>2, Zenon
    <2> QED
      BY <1>10, <2>1, <2>3, Zenon
  <1> QED
    BY <1>6, <1>11, <1>12, Zenon

\* No open session has a connection of the pool.
LEMMA PoolFree ==
    ASSUME NEW c \in Conns, PoolHas(c), Holding
    PROVE  /\ \A u \in Sessions : IsOpen(u) => sess[u].conn # c
           /\ conn[c].holder # "rekey"
           /\ adm.op = "rekey" => adm.conn # c
  <1>1. conn[c].holder = Nobody /\ Nobody # "rekey" /\ \A u \in Sessions : u # Nobody
    BY OdbcAssumption, Zenon DEF PoolHas
  <1> QED
    BY <1>1, Zenon DEF Holding

LEMMA ReapKeeps ==
    ASSUME NEW c \in Conns, Reap(c), OInv
    PROVE  OInv'
  <1>0. Types /\ Holding /\ PoolHas(c)
    BY Zenon DEF OInv, Reap
  <1>1. /\ \A u \in Sessions : IsOpen(u) => sess[u].conn # c
        /\ conn[c].holder # "rekey"
    BY <1>0, PoolFree, Zenon
  <1>2. PICK k : k = [AutocommitConn(c, TRUE) EXCEPT !.holder = Nobody]
    BY Zenon
  <1>3. Fresh(k, Nobody)
    BY <1>0, <1>2, FreshConn, Zenon
  <1>4. conn' = [conn EXCEPT ![c] = k]
    BY <1>2, Zenon DEF Reap
  <1>5. /\ conn' \in [Conns -> Conn] /\ conn'[c] = k
        /\ \A d \in Conns \ {c} : conn'[d] = conn[d]
    BY <1>0, <1>3, <1>4, Zenon DEF Types, Fresh
  <1>6. PICK f \in Fates : f = "undone"
    BY Zenon DEF Fates
  <1>7. FatedAs(OpenOn(c), f)
    <2>1. OpenOn(c) \in SUBSET Tokens
      BY Zenon DEF OpenOn
    <2>2. log' = Fated(log, OpenOn(c), f)
      BY <1>6, Zenon DEF Reap
    <2> QED
      BY <1>0, <2>1, <2>2, FatedLog, Zenon
  <1>8. \A t \in OpenOn(c) : log'[t].fate = "undone" /\ log'[t].conn = Nobody
    BY <1>6, <1>7, SMTT(60) DEF FatedAs
  <1>9. /\ sess' = sess /\ db' = db /\ dirty' = dirty \ {c}
        /\ caches' = caches /\ adm' = adm /\ up' = up /\ nextId' = nextId /\ torn' = torn
    BY Zenon DEF Reap
  <1>10. /\ \A u \in Sessions : (Busy(u)' <=> Busy(u)) /\ (IsOpen(u)' <=> IsOpen(u))
         /\ \A u \in Sessions : Busy(u) => sess[u].conn # c
    BY <1>1, <1>9, Zenon DEF Busy, IsOpen
  <1>11. /\ sess \in [Sessions -> Session]
         /\ \A u \in Sessions : IsOpen(u) => sess[u].gen \in DOMAIN caches
    BY <1>0, Zenon DEF Types, IsOpen
  <1>12. Ends(c)
    BY <1>1, <1>3, <1>5, <1>7, <1>8, <1>9, <1>10, <1>11, Zenon DEF Ends, FatedAs, Fresh
  <1> QED
    BY <1>12, EndsKeeps, Zenon

(***************************************************************************)
(* A connection changes hands with what is pending on it.                  *)
(***************************************************************************)
Passes(c) ==
    /\ conn[c].holder # "rekey"
    /\ \A u \in Sessions : Busy(u) => sess[u].conn # c
    /\ db' = db
    /\ log' \in Seq(Entry) /\ Tokens' = Tokens
    /\ \A t \in Tokens : /\ log'[t].op = log[t].op /\ log'[t].ok = log[t].ok
                         /\ log'[t].over = log[t].over /\ log'[t].conn = log[t].conn
    /\ \A t \in Tokens : log'[t] = log[t] \/ (t \in OpenOn(c) /\ log'[t].fate = "dropped")
    /\ conn' \in [Conns -> Conn]
    /\ \A d \in Conns \ {c} : conn'[d] = conn[d]
    /\ conn'[c].add = conn[c].add /\ conn'[c].del = conn[c].del
    /\ conn'[c].auto => conn[c].auto
    /\ conn'[c].holder \in {Nobody, "rekey"} => conn'[c].auto \/ c \in dirty'
    /\ sess' \in [Sessions -> Session]
    /\ \A u \in Sessions : IsOpen(u)' => sess'[u].gen \in DOMAIN caches
    /\ \A u \in Sessions : Busy(u)' <=> Busy(u)
    /\ \A u \in Sessions : Busy(u) => sess'[u] = sess[u]
    /\ \A u \in Sessions : IsOpen(u)' =>
          \/ IsOpen(u) /\ sess'[u] = sess[u] /\ sess[u].conn # c
          \/ sess'[u].conn = c /\ conn'[c].holder = u /\ sess'[u].txn = ~conn'[c].auto
    /\ dirty' \subseteq Conns /\ dirty \subseteq dirty'
    /\ caches' = caches /\ adm' = adm /\ up' = up /\ nextId' = nextId /\ torn' = torn

LEMMA PassesToks ==
    ASSUME NEW c \in Conns, Passes(c), InFlight
    PROVE  /\ FixedToks' = FixedToks /\ TxnToks' = TxnToks
           /\ Inserted' = Inserted /\ Overs' = Overs
           /\ conn[c].auto => OpenOn(c) = {}
  <1>1. /\ Tokens' = Tokens
        /\ \A t \in Tokens : log'[t].conn = log[t].conn
        /\ \A t \in Tokens : log'[t] = log[t] \/ (t \in OpenOn(c) /\ log'[t].fate = "dropped")
        /\ \A d \in Conns \ {c} : conn'[d] = conn[d]
        /\ conn'[c].auto => conn[c].auto
    BY Zenon DEF Passes
  <1>2. conn[c].auto => OpenOn(c) = {}
    <2> SUFFICES ASSUME conn[c].auto, NEW t \in OpenOn(c) PROVE FALSE
      BY Zenon
    <2>1. t \in Tokens /\ Live(t) /\ log[t].conn = c
      BY Zenon DEF OpenOn, Live
    <2>2. PICK u \in Sessions : Busy(u) /\ sess[u].tok = t
      BY <2>1, Zenon DEF InFlight
    <2>3. log[t].conn = sess[u].conn
      BY <2>2, Zenon DEF InFlight
    <2> QED
      BY <2>1, <2>2, <2>3, Zenon DEF Passes
  <1>3. ASSUME NEW t \in Tokens PROVE Fixed(t)' <=> Fixed(t)
    <2>1. CASE t \in OpenOn(c)
      <3>1. log[t].conn = c /\ log'[t].conn = c /\ log[t].fate \in {"open", "dropped"}
            /\ log'[t].fate \in {"open", "dropped"}
        BY <1>1, <2>1, Zenon DEF OpenOn
      <3>2. ~conn[c].auto /\ ~conn'[c].auto
        BY <1>1, <1>2, <2>1, Zenon
      <3> QED
        BY <3>1, <3>2, SMTT(60) DEF Fixed
    <2>2. CASE t \notin OpenOn(c)
      <3>1. log'[t] = log[t]
        BY <1>1, <2>2, Zenon
      <3>2. log[t].fate = "open" => log[t].conn \in Conns \ {c}
        BY <2>2, Zenon DEF InFlight, Live, OpenOn
      <3> QED
        BY <1>1, <3>1, <3>2, Zenon DEF Fixed
    <2> QED
      BY <2>1, <2>2, Zenon
  <1>4. FixedToks' = FixedToks
    BY <1>1, <1>3, Zenon DEF FixedToks
  <1>5. ASSUME NEW d \in Conns PROVE OpenOn(d)' = OpenOn(d)
    <2>1. \A t \in Tokens : log'[t].fate \in {"open", "dropped"} <=> log[t].fate \in {"open", "dropped"}
      BY <1>1, Zenon DEF OpenOn
    <2> QED
      BY <1>1, <2>1, Zenon DEF OpenOn
  <1>6. TxnToks' = TxnToks
    <2>1. \A d \in Conns : (IF conn'[d].auto THEN {} ELSE OpenOn(d)') = (IF conn[d].auto THEN {} ELSE OpenOn(d))
      BY <1>1, <1>2, <1>5, Zenon
    <2> QED
      BY <2>1, Zenon DEF TxnToks
  <1>7. Inserted' = Inserted
    <2>1. \A t \in Tokens : log'[t].op = log[t].op /\ log'[t].ok = log[t].ok
      BY Zenon DEF Passes
    <2>2. \A u \in Sessions : (Busy(u)' <=> Busy(u)) /\ (Busy(u) => sess'[u] = sess[u])
      BY Zenon DEF Passes
    <2>3. \A t \in Tokens : t \in Inserted' <=> t \in Inserted
      BY <1>1, <2>1, <2>2, ZenonT(60) DEF Inserted
    <2>4. Inserted' \subseteq Tokens /\ Inserted \subseteq Tokens
      BY <1>1, Zenon DEF Inserted
    <2> QED
      BY <2>3, <2>4, Zenon
  <1>8. Overs' = Overs
    <2>1. \A t \in Tokens : log'[t].over = log[t].over
      BY Zenon DEF Passes
    <2> QED
      BY <1>1, <2>1, Zenon DEF Overs
  <1> QED
    BY <1>2, <1>4, <1>6, <1>7, <1>8, Zenon

LEMMA PassesLog ==
    ASSUME NEW c \in Conns, Passes(c), InFlight
    PROVE  InFlight'
  <1>1. /\ Tokens' = Tokens
        /\ \A t \in Tokens : log'[t].conn = log[t].conn /\ log'[t].op = log[t].op
        /\ \A t \in Tokens : log'[t] = log[t] \/ (t \in OpenOn(c) /\ log'[t].fate = "dropped")
        /\ \A d \in Conns \ {c} : conn'[d] = conn[d]
        /\ conn'[c].auto => conn[c].auto
        /\ \A u \in Sessions : Busy(u)' <=> Busy(u)
        /\ \A u \in Sessions : Busy(u) => sess'[u] = sess[u] /\ sess[u].conn # c
    BY Zenon DEF Passes
  <1>2. ASSUME NEW u \in Sessions, Busy(u)'
        PROVE  /\ sess'[u].tok \in Tokens'
               /\ log'[sess'[u].tok].conn = sess'[u].conn
               /\ log'[sess'[u].tok].fate = "open" /\ ~log'[sess'[u].tok].ok
               /\ log'[sess'[u].tok].op \in {"insert", "replace", "remove", "remove_all"}
               /\ sess'[u].pc = "insert" => log'[sess'[u].tok].op = "insert"
               /\ log'[sess'[u].tok].op = "insert" => sess'[u].pc \in {"insert", "item_id", "tag"}
               /\ sess'[u].pc \in {"item_id", "tag"} => sess'[u].tags # {}
    <2>1. Busy(u) /\ sess'[u] = sess[u] /\ sess[u].conn # c
      BY <1>1, <1>2, Zenon
    <2>2. sess[u].tok \in Tokens /\ log[sess[u].tok].conn = sess[u].conn
      BY <2>1, Zenon DEF InFlight
    <2>3. sess[u].tok \notin OpenOn(c)
      BY <2>1, <2>2, Zenon DEF OpenOn
    <2>4. sess[u].tok \in Tokens' /\ log'[sess[u].tok] = log[sess[u].tok]
      BY <1>1, <2>2, <2>3, Zenon
    <2> QED
      BY <2>1, <2>2, <2>4, SMTT(60) DEF InFlight
  <1>3. ASSUME NEW t \in Tokens', Live(t)'
        PROVE  /\ log'[t].conn \in Conns
               /\ conn'[log'[t].conn].auto => \E u \in Sessions : Busy(u)' /\ sess'[u].tok = t
    <2>1. t \in Tokens /\ Live(t)
      BY <1>1, <1>3, Zenon DEF Live, OpenOn
    <2>2. PICK d : d = log[t].conn
      BY Zenon
    <2>3. log'[t].conn = d
      BY <1>1, <2>1, <2>2, Zenon
    <2>4. d \in Conns /\ (conn[d].auto => \E u \in Sessions : Busy(u) /\ sess[u].tok = t)
      BY <2>1, <2>2, Zenon DEF InFlight
    <2>5. conn'[d].auto => conn[d].auto
      BY <1>1, <2>4, Zenon
    <2>6. \A u \in Sessions : Busy(u) /\ sess[u].tok = t => Busy(u)' /\ sess'[u].tok = t
      BY <1>1, Zenon
    <2>7. conn'[d].auto => \E u \in Sessions : Busy(u)' /\ sess'[u].tok = t
      BY <2>4, <2>5, <2>6, Zenon
    <2> QED
      BY <2>3, <2>4, <2>7, Zenon
  <1>4. ASSUME NEW t \in Tokens', log'[t].op \in {"create", "drop", "default", "rekey"}
        PROVE  log'[t].fate # "open"
    <2>1. CASE log'[t].fate = "dropped"
      BY <2>1, Zenon
    <2>2. CASE log'[t] = log[t]
      <3>1. t \in Tokens /\ log[t].op \in {"create", "drop", "default", "rekey"}
        BY <1>1, <1>4, <2>2, Zenon
      <3>2. log[t].fate # "open"
        BY <3>1, Zenon DEF InFlight
      <3> QED
        BY <2>2, <3>2, Zenon
    <2> QED
      BY <1>1, <2>1, <2>2, Zenon
  <1> QED
    BY <1>2, <1>3, <1>4, Zenon DEF InFlight

LEMMA PassesKeeps ==
    ASSUME NEW c \in Conns, Passes(c), OInv
    PROVE  OInv'
  <1>0. Types /\ Holding /\ InFlight /\ BooksKept /\ KeyInv
    BY Zenon DEF OInv
  <1>1. /\ Tokens' = Tokens /\ db' = db
        /\ \A t \in Tokens : log'[t].op = log[t].op
        /\ \A t \in Tokens : log'[t] = log[t] \/ (t \in OpenOn(c) /\ log'[t].fate = "dropped")
        /\ \A d \in Conns \ {c} : conn'[d] = conn[d]
        /\ conn'[c].add = conn[c].add /\ conn'[c].del = conn[c].del
        /\ conn'[c].auto => conn[c].auto
        /\ dirty' \subseteq Conns /\ dirty \subseteq dirty'
        /\ caches' = caches /\ adm' = adm /\ up' = up /\ nextId' = nextId /\ torn' = torn
        /\ conn[c].holder # "rekey"
    BY Zenon DEF Passes
  <1>2. \A d \in Conns : conn'[d].add = conn[d].add /\ conn'[d].del = conn[d].del
    BY <1>1, Zenon
  <1>3. adm.op = "rekey" => adm.conn \in Conns /\ adm.conn # c
    BY <1>0, <1>1, AdmTyped, Zenon DEF Holding
  <1>4. Types'
    BY <1>0, <1>1, Zenon DEF Types, Passes, IsOpen
  <1>5. Holding'
    <2>1. \A d \in Conns : conn'[d].auto => conn'[d].add = {} /\ conn'[d].del = {}
      BY <1>0, <1>1, Zenon DEF Holding
    <2>2. ASSUME NEW u \in Sessions, IsOpen(u)'
          PROVE  /\ conn'[sess'[u].conn].holder = u
                 /\ sess'[u].txn = ~conn'[sess'[u].conn].auto
      <3>1. CASE IsOpen(u) /\ sess'[u] = sess[u] /\ sess[u].conn # c
        <4>1. sess[u].conn \in Conns
          BY <1>0, <3>1, OpenTyped, Zenon
        <4>2. conn'[sess[u].conn] = conn[sess[u].conn]
          BY <1>1, <3>1, <4>1, Zenon
        <4> QED
          BY <1>0, <3>1, <4>2, Zenon DEF Holding
      <3>2. CASE sess'[u].conn = c /\ conn'[c].holder = u /\ sess'[u].txn = ~conn'[c].auto
        BY <3>2, Zenon
      <3> QED
        BY <2>2, <3>1, <3>2, Zenon DEF Passes
    <2>3. \A d \in Conns \ dirty' : conn'[d].holder \in {Nobody, "rekey"} => conn'[d].auto
      <3>1. conn'[c].holder \in {Nobody, "rekey"} => conn'[c].auto \/ c \in dirty'
        BY Zenon DEF Passes
      <3>2. \A d \in Conns \ dirty' : d # c => conn'[d] = conn[d] /\ d \notin dirty
        BY <1>1, Zenon
      <3> QED
        BY <1>0, <3>1, <3>2, Zenon DEF Holding
    <2>4. adm'.op = "rekey" => conn'[adm'.conn].holder = "rekey"
      BY <1>0, <1>1, <1>3, Zenon DEF Holding
    <2> QED
      BY <2>1, <2>2, <2>3, <2>4, Zenon DEF Holding
  <1>6. InFlight'
    BY <1>0, PassesLog, Zenon
  <1>7. BooksKept'
    <2>1. /\ FixedToks' = FixedToks /\ TxnToks' = TxnToks
          /\ Inserted' = Inserted /\ Overs' = Overs
      BY <1>0, PassesToks, Zenon
    <2>2. Adds' = Adds /\ Dels' = Dels
      BY <1>2, Zenon DEF Adds, Dels
    <2> QED
      BY <1>0, <1>1, <2>1, <2>2, Zenon DEF BooksKept
  <1>8. KeyInv'
    <2>1. RowsLogged
      BY <1>0, BooksLogged, Zenon
    <2>2. Creations /\ DbStep
      BY <1>1, Zenon DEF Creations, DbStep
    <2>3. ConnStep
      <3>1. \A t \in Tokens : Stray(t) => Stray(t)'
        BY <1>1, Zenon DEF Stray
      <3>2. \A d \in Conns : Pending(d)' = Pending(d)
        BY <1>2, Zenon DEF Pending
      <3>3. \A d \in Conns : \A r \in conn[d].add : r.t = "prof" /\ r.tok # 0 => r.tok \in Tokens
        BY <2>1, Zenon DEF RowsLogged, Wrote
      <3> QED
        BY <1>2, <3>1, <3>2, <3>3, Zenon DEF ConnStep
    <2>4. AdmStep
      BY <1>1, <1>3, Zenon DEF AdmStep, Backend
    <2> QED
      BY <1>0, <2>1, <2>2, <2>3, <2>4, KeyKept, Zenon
  <1> QED
    BY <1>4, <1>5, <1>6, <1>7, <1>8, Zenon DEF OInv
=============================================================================
