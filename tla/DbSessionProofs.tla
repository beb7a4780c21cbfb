-------------------------- MODULE DbSessionProofs --------------------------
(***************************************************************************)
(* The connections of the pool are in order, whatever the number of        *)
(* sessions and connections and on both backends: a connection that goes   *)
(* back has no transaction and no lock (PoolClean), and txn_depth is the   *)
(* nesting depth of the connection (DepthAgrees).                          *)
(*                                                                         *)
(* Neither is inductive.  They need who has which connection, and how many *)
(* transactions are open on a connection while start_transaction is under  *)
(* way, when txn_depth does not yet count the one that was begun.          *)
(***************************************************************************)
EXTENDS DbSession, TLAPS

\* What a session looks like in each of its states.
Placed(k) ==
    /\ k.st = "free" => k.pc = "idle"
    /\ k.st = "pending" => k.pc \in {"idle", "acquire", "begin"}
    /\ k.st = "active" => k.pc \notin {"acquire", "begin"} /\ k.conn # Nobody
    /\ k.st # "active" => k.depth = 0 /\ (k.conn # Nobody <=> k.pc = "begin")
    /\ k.depth \in {0, 1}
    /\ k.own => k.depth = 1 /\ k.pc \in {"row", "tag", "commit"}
    /\ k.pc = "opbegin" => k.depth = 0
    /\ k.pc \in {"begin", "opbegin"} => Sqlite

\* The transactions a session has open on its connection.
Levels(k) == IF k.pc \in {"begin", "opbegin"} THEN 1 ELSE k.depth

Owned ==
    /\ \A s \in Sessions : sess[s].conn # Nobody => conn[sess[s].conn].owner = s
    /\ \A c \in Conns : conn[c].owner # Nobody => sess[conn[c].owner].conn = c

Nested ==
    /\ \A s \in Sessions : sess[s].conn # Nobody /\ sess[s].conn \notin leaked
                              => Len(conn[sess[s].conn].stack) = Levels(sess[s])
    /\ \A c \in Conns \ leaked : conn[c].owner = Nobody => conn[c].stack = <<>>
    /\ \A c \in Conns \ leaked : lock = c => conn[c].stack # <<>>
    /\ ~Sqlite => leaked = {}

\* The inductive invariant.
IInv ==
    /\ TypeOK
    /\ \A s \in Sessions : Placed(sess[s])
    /\ Owned
    /\ Nested
----------------------------------------------------------------------------
(***************************************************************************)
(* What the operations on a connection make of its stack.                  *)
(***************************************************************************)
LEMMA ConnType ==
    ASSUME IInv, NEW c \in Conns
    PROVE  /\ conn[c] \in Conn
           /\ conn[c].owner \in Sessions \cup {Nobody}
           /\ conn[c].stack \in Seq(Delta)
           /\ conn[c].aborted \in BOOLEAN
           /\ Len(conn[c].stack) \in Nat
  <1>1. conn[c] \in Conn
    BY DEF IInv, TypeOK
  <1> QED
    BY <1>1 DEF Conn

LEMMA TopType ==
    ASSUME IInv, NEW c \in Conns
    PROVE  Top(c) \in Delta /\ View(c) \subseteq Fact
  <1>1. conn[c].stack \in Seq(Delta)
    BY ConnType
  <1>2. NoDelta \in Delta
    BY DEF NoDelta, Delta
  <1>3. Top(c) \in Delta
    BY <1>1, <1>2 DEF Top, InTxn
  <1>4. db \subseteq Fact
    BY DEF IInv, TypeOK
  <1> QED
    BY <1>3, <1>4 DEF View, Delta

LEMMA BegunConn ==
    ASSUME IInv, NEW c \in Conns
    PROVE  /\ Begun(c) \in Conn
           /\ Begun(c).owner = conn[c].owner
           /\ Len(Begun(c).stack) = Len(conn[c].stack) + 1
  <1> DEFINE t == Append(conn[c].stack, Top(c))
  <1>1. t \in Seq(Delta) /\ Len(t) = Len(conn[c].stack) + 1
    BY ConnType, TopType
  <1>2. Begun(c) = [conn[c] EXCEPT !.stack = t]
    BY DEF Begun
  <1> HIDE DEF t
  <1>3. Begun(c) \in Conn /\ Begun(c).owner = conn[c].owner /\ Begun(c).stack = t
    BY <1>1, <1>2, ConnType DEF Conn
  <1> QED
    BY <1>1, <1>3

LEMMA WriteConn ==
    ASSUME IInv, NEW c \in Conns, NEW add \in SUBSET Fact, NEW del \in SUBSET Fact,
           Write(c, add, del)
    PROVE  /\ db' \subseteq Fact
           /\ \E x \in Conn : /\ conn' = [conn EXCEPT ![c] = x]
                              /\ x.owner = conn[c].owner
                              /\ Len(x.stack) = Len(conn[c].stack)
  <1>1. db \subseteq Fact /\ conn \in [Conns -> Conn]
    BY DEF IInv, TypeOK
  <1>2. CASE ~InTxn(c)
    <2>1. conn' = [conn EXCEPT ![c] = conn[c]] /\ db' \subseteq Fact
      BY <1>1, <1>2 DEF Write
    <2> QED
      BY ZenonT(60), <2>1, ConnType
  <1>3. CASE InTxn(c)
    <2> DEFINE n == Len(conn[c].stack)
               t == conn[c].stack[n]
               u == [add |-> (t.add \ del) \cup add, del |-> (t.del \ add) \cup del]
               x == [conn[c] EXCEPT !.stack = [@ EXCEPT ![n] = u]]
    <2>1. conn[c].stack \in Seq(Delta) /\ n \in Nat /\ n # 0
      BY <1>3, ConnType DEF InTxn
    <2>2. t \in Delta
      BY <2>1
    <2>3. u \in Delta
      BY <2>2 DEF Delta
    <2>4. conn' = [conn EXCEPT ![c] = x] /\ db' = db
      BY <1>1, <1>3 DEF Write
    <2> HIDE DEF u
    <2>5. [conn[c].stack EXCEPT ![n] = u] \in Seq(Delta) /\ Len([conn[c].stack EXCEPT ![n] = u]) = n
      BY <2>1, <2>3
    <2>6. x \in Conn /\ x.owner = conn[c].owner /\ Len(x.stack) = n
      BY <2>5, ConnType DEF Conn
    <2> QED
      BY ZenonT(60), <1>1, <2>4, <2>6
  <1> QED
    BY <1>2, <1>3

LEMMA CommittedConn ==
    ASSUME IInv, NEW c \in Conns
    PROVE  /\ Committed(c) \in Conn
           /\ Committed(c).owner = conn[c].owner
           /\ Len(conn[c].stack) <= 1 => Committed(c).stack = <<>>
           /\ CommittedDb(c) \subseteq Fact
  <1> DEFINE s == conn[c].stack
             t == IF Len(s) > 1 THEN Append(Popped(Popped(s)), Top(c)) ELSE <<>>
  <1>1. s \in Seq(Delta) /\ Top(c) \in Delta
    BY ConnType, TopType
  <1>2. t \in Seq(Delta)
    BY <1>1 DEF Popped
  <1>3. Committed(c) = [conn[c] EXCEPT !.stack = t, !.aborted = FALSE]
    BY DEF Committed
  <1>4. Len(s) <= 1 => t = <<>>
    BY <1>1
  <1> HIDE DEF t
  <1>5. Committed(c) \in Conn /\ Committed(c).owner = conn[c].owner /\ Committed(c).stack = t
    BY ZenonT(60), <1>2, <1>3, ConnType DEF Conn
  <1>6. CommittedDb(c) \subseteq Fact
    BY TopType DEF CommittedDb, IInv, TypeOK
  <1> QED
    BY <1>4, <1>5, <1>6

LEMMA RolledBackConn ==
    ASSUME IInv, NEW c \in Conns
    PROVE  /\ RolledBack(c) \in Conn
           /\ RolledBack(c).owner = conn[c].owner
           /\ Len(conn[c].stack) <= 1 => RolledBack(c).stack = <<>>
  <1> DEFINE s == conn[c].stack
             t == IF s = <<>> THEN s ELSE Popped(s)
  <1>1. s \in Seq(Delta)
    BY ConnType
  <1>2. t \in Seq(Delta) /\ (Len(s) <= 1 => t = <<>>)
    BY <1>1 DEF Popped
  <1>3. RolledBack(c) = [conn[c] EXCEPT !.stack = t, !.aborted = FALSE]
    BY DEF RolledBack
  <1> HIDE DEF t
  <1>4. RolledBack(c) \in Conn /\ RolledBack(c).owner = conn[c].owner /\ RolledBack(c).stack = t
    BY ZenonT(60), <1>2, <1>3, ConnType DEF Conn
  <1> QED
    BY <1>2, <1>4
----------------------------------------------------------------------------
(***************************************************************************)
(* What an action of a session has to show.                                *)
(***************************************************************************)
\* The state k it leaves the session in.
Becomes(s, k) == sess' = [sess EXCEPT ![s] = k] /\ k \in Session /\ Placed(k)

\* The connections stay as they are; the lock may have been taken for that of the session.
Stays(s, k) ==
    /\ conn' = conn
    /\ k.conn = sess[s].conn
    /\ k.conn # Nobody /\ k.conn \notin leaked' => Levels(k) = Levels(sess[s])
    /\ \/ lock' = lock
       \/ lock' = k.conn /\ (k.conn \notin leaked' => conn[k.conn].stack # <<>>)

\* Connection c, which is free or the session's, becomes x.
Swaps(s, k, c, x) ==
    /\ conn' = [conn EXCEPT ![c] = x]
    /\ x \in Conn
    /\ conn[c].owner \in {Nobody, s}
    /\ sess[s].conn \in {Nobody, c} /\ k.conn \in {Nobody, c}
    /\ x.owner = IF k.conn = c THEN s ELSE Nobody
    /\ c \notin leaked' => Len(x.stack) = IF k.conn = c THEN Levels(k) ELSE 0
    /\ \A d \in Conns \ leaked' : lock' = d => IF d = c THEN x.stack # <<>> ELSE lock = d

\* The rest of the state.
Rest ==
    /\ db' \subseteq Fact
    /\ lock' \in Conns \cup {Nobody}
    /\ nextTok' \in Nat /\ opens' \in Nat /\ crashes' \in Nat
    /\ acked' \subseteq [tok : Nat, op : Kinds, clean : BOOLEAN]
    /\ undone' \subseteq Nat /\ loose' \subseteq Nat
    /\ leaked \subseteq leaked' /\ leaked' \subseteq Conns
    /\ ~Sqlite => leaked' = {}

LEMMA NobodyElse == Nobody \notin Sessions /\ Nobody \notin Conns
  BY DbSessionAssumption DEF DbSessionAssumption

LEMMA StaysKeeps ==
    ASSUME IInv, NEW s \in Sessions, NEW k, Becomes(s, k), Stays(s, k), Rest
    PROVE  IInv'
  <1>1. /\ sess' \in [Sessions -> Session]
        /\ sess'[s] = k
        /\ \A o \in Sessions \ {s} : sess'[o] = sess[o]
    BY DEF IInv, TypeOK, Becomes
  <1>2. TypeOK'
    BY <1>1 DEF IInv, TypeOK, Stays, Rest
  <1>3. \A o \in Sessions : Placed(sess'[o]) /\ sess'[o].conn = sess[o].conn
    BY SMTT(60), <1>1 DEF IInv, Becomes, Stays
  <1>4. Owned'
    BY <1>3, ConnType DEF IInv, Owned, Stays
  <1>5. \A o \in Sessions : sess'[o].conn # Nobody /\ sess'[o].conn \notin leaked'
                              => Len(conn'[sess'[o].conn].stack) = Levels(sess'[o])
    BY SMTT(60), <1>1, <1>3 DEF IInv, Nested, Stays, Rest
  <1>6. /\ \A c \in Conns \ leaked' : conn'[c].owner = Nobody => conn'[c].stack = <<>>
        /\ \A c \in Conns \ leaked' : lock' = c => conn'[c].stack # <<>>
    BY DEF IInv, Nested, Stays, Rest
  <1>7. Nested'
    BY <1>5, <1>6 DEF Nested, Rest, Levels, Sqlite
  <1> QED
    BY <1>2, <1>3, <1>4, <1>7 DEF IInv, Placed, Sqlite

LEMMA SwapsKeeps ==
    ASSUME IInv, NEW s \in Sessions, NEW k, NEW c \in Conns, NEW x,
           Becomes(s, k), Swaps(s, k, c, x), Rest
    PROVE  IInv'
  <1>1. /\ sess' \in [Sessions -> Session]
        /\ sess'[s] = k
        /\ \A o \in Sessions \ {s} : sess'[o] = sess[o]
    BY DEF IInv, TypeOK, Becomes
  <1>2. /\ conn' \in [Conns -> Conn]
        /\ conn'[c] = x
        /\ \A d \in Conns \ {c} : conn'[d] = conn[d]
    BY DEF IInv, TypeOK, Swaps
  <1>3. TypeOK'
    BY <1>1, <1>2 DEF TypeOK, Rest
  <1>4. \A o \in Sessions : Placed(sess'[o])
    BY <1>1 DEF IInv, Becomes
  <1>5. \A o \in Sessions \ {s} : sess[o].conn # c
    BY NobodyElse DEF IInv, Owned, Swaps
  <1>6. \A d \in Conns \ {c} : conn[d].owner # s
    BY NobodyElse, ConnType DEF IInv, Owned, Swaps
  <1>7. Owned'
    <2>1. \A o \in Sessions : sess'[o].conn # Nobody => conn'[sess'[o].conn].owner = o
      <3> SUFFICES ASSUME NEW o \in Sessions, sess'[o].conn # Nobody
                   PROVE  conn'[sess'[o].conn].owner = o
        OBVIOUS
      <3>1. CASE o = s
        BY <1>1, <1>2, <3>1 DEF Swaps
      <3>2. CASE o # s
        <4>1. sess'[o].conn \in Conns \ {c}
          BY <1>1, <1>5, <3>2 DEF IInv, TypeOK, Session
        <4> QED
          BY <1>1, <1>2, <3>2, <4>1 DEF IInv, Owned
      <3> QED
        BY <3>1, <3>2
    <2>2. \A d \in Conns : conn'[d].owner # Nobody => sess'[conn'[d].owner].conn = d
      <3> SUFFICES ASSUME NEW d \in Conns, conn'[d].owner # Nobody
                   PROVE  sess'[conn'[d].owner].conn = d
        OBVIOUS
      <3>1. CASE d = c
        BY <1>1, <1>2, <3>1 DEF Swaps
      <3>2. CASE d # c
        <4>1. conn[d].owner \in Sessions \ {s} /\ conn'[d] = conn[d]
          BY SMTT(60), <1>2, <1>6, <3>2, ConnType
        <4> QED
          BY <1>1, <4>1, NobodyElse DEF IInv, Owned
      <3> QED
        BY <3>1, <3>2
    <2> QED
      BY <2>1, <2>2 DEF Owned
  <1>8. Nested'
    <2>1. ASSUME NEW o \in Sessions, sess'[o].conn # Nobody, sess'[o].conn \notin leaked'
          PROVE  Len(conn'[sess'[o].conn].stack) = Levels(sess'[o])
      <3>1. CASE o = s
        BY SMTT(60), <1>1, <1>2, <2>1, <3>1 DEF Swaps
      <3>2. CASE o # s
        <4>1. sess'[o].conn \in Conns \ {c}
          BY <1>1, <1>5, <2>1, <3>2 DEF IInv, TypeOK, Session
        <4> QED
          BY SMTT(60), <1>1, <1>2, <2>1, <3>2, <4>1 DEF IInv, Nested, Rest
      <3> QED
        BY <3>1, <3>2
    <2>2. \A d \in Conns \ leaked' : conn'[d].owner = Nobody => conn'[d].stack = <<>>
      <3> SUFFICES ASSUME NEW d \in Conns \ leaked', conn'[d].owner = Nobody
                   PROVE  conn'[d].stack = <<>>
        OBVIOUS
      <3>1. CASE d = c
        <4>1. Len(x.stack) = 0 /\ x.stack \in Seq(Delta)
          BY SMTT(60), <1>2, <3>1, NobodyElse DEF Swaps, Conn
        <4> QED
          BY <1>2, <3>1, <4>1
      <3>2. CASE d # c
        BY SMTT(60), <1>2, <3>2 DEF IInv, Nested, Rest
      <3> QED
        BY <3>1, <3>2
    <2>3. \A d \in Conns \ leaked' : lock' = d => conn'[d].stack # <<>>
      BY <1>2 DEF IInv, Nested, Swaps, Rest
    <2> QED
      BY <2>1, <2>2, <2>3 DEF Nested, Rest, Levels, Sqlite
  <1> QED
    BY <1>3, <1>4, <1>7, <1>8 DEF IInv, Placed, Sqlite
----------------------------------------------------------------------------
LEMMA SessType ==
    ASSUME IInv, NEW s \in Sessions
    PROVE  /\ sess[s] \in Session
           /\ Placed(sess[s])
           /\ sess[s].conn \in Conns \cup {Nobody}
           /\ sess[s].tok \in Nat
           /\ sess[s].op \in Kinds
           /\ sess[s].wrote \subseteq Nat
           /\ sess[s].depth \in Nat
  <1>1. sess[s] \in Session
    BY SMTT(60) DEF IInv, TypeOK
  <1> QED
    BY <1>1 DEF IInv, Session

\* A call in flight on an active session has the connection of the session.
LEMMA HasConn ==
    ASSUME IInv, NEW s \in Sessions, sess[s].conn # Nobody
    PROVE  /\ sess[s].conn \in Conns
           /\ conn[sess[s].conn].owner = s
           /\ sess[s].conn \notin leaked => Len(conn[sess[s].conn].stack) = Levels(sess[s])
  BY SessType DEF IInv, Owned, Nested

LEMMA EndedFields ==
    ASSUME IInv, NEW s \in Sessions
    PROVE  /\ Ended(s) \in Session
           /\ Ended(s).st = sess[s].st /\ Ended(s).conn = sess[s].conn
           /\ Ended(s).depth = sess[s].depth /\ Ended(s).pc = "idle" /\ ~Ended(s).own
  BY ZenonT(60), SessType DEF Ended, Session

LEMMA RestSame ==
    ASSUME IInv, UNCHANGED <<db, lock, nextTok, opens, crashes, acked, undone, loose, leaked>>
    PROVE  Rest
  BY DEF IInv, TypeOK, Nested, Rest

LEMMA NewSessionKeeps ==
    ASSUME IInv, NEW s \in Sessions, NEW txn \in BOOLEAN, NewSession(s, txn)
    PROVE  IInv'
  <1> DEFINE k == [FreeSession EXCEPT !.st = "pending", !.txn = txn]
  <1>1. /\ FreeSession \in Session
        /\ FreeSession.conn = Nobody /\ FreeSession.depth = 0 /\ FreeSession.pc = "idle"
        /\ ~FreeSession.own
    BY DEF FreeSession, Session, Kinds
  <1>2. k \in Session
    BY ZenonT(60), <1>1 DEF Session
  <1>3. k.st = "pending" /\ k.conn = Nobody /\ k.depth = 0 /\ k.pc = "idle" /\ k.own = FreeSession.own
    BY <1>1 DEF Session
  <1> HIDE DEF k
  <1>4. Becomes(s, k)
    BY <1>1, <1>2, <1>3 DEF NewSession, Becomes, Placed, k
  <1>5. sess[s].conn = Nobody
    BY SessType DEF NewSession, Placed
  <1>6. Stays(s, k)
    BY <1>3, <1>5 DEF NewSession, Stays
  <1>7. Rest
    BY DEF NewSession, IInv, TypeOK, Nested, Rest
  <1> QED
    BY <1>4, <1>6, <1>7, StaysKeeps

LEMMA CallKeeps ==
    ASSUME IInv, NEW s \in Sessions, NEW op \in Kinds, Call(s, op)
    PROVE  IInv'
  <1> DEFINE t == IF op = "fetch" THEN 0 ELSE nextTok
             pc == IF sess[s].st = "pending" THEN "acquire"
                   ELSE IF sess[s].key # "active" THEN "resolve" ELSE "ready"
             k == [sess[s] EXCEPT !.op = op, !.tok = t, !.pc = pc]
  <1>1. t \in Nat /\ pc \in {"acquire", "resolve", "ready"} /\ (pc = "acquire" <=> sess[s].st = "pending")
    BY DEF IInv, TypeOK
  <1>2. sess' = [sess EXCEPT ![s] = k]
    BY DEF Call
  <1> HIDE DEF t, pc
  <1>3. /\ k \in Session
        /\ k.st = sess[s].st /\ k.conn = sess[s].conn /\ k.depth = sess[s].depth
        /\ k.pc = pc /\ k.own = sess[s].own
    BY ZenonT(60), <1>1, SessType DEF Session
  <1> HIDE DEF k
  <1>4. Becomes(s, k) /\ Stays(s, k)
    BY ZenonT(60), <1>1, <1>2, <1>3, SessType DEF Call, Becomes, Stays, Placed, Levels
  <1>5. Rest
    BY DEF Call, IInv, TypeOK, Nested, Rest
  <1> QED
    BY <1>4, <1>5, StaysKeeps

LEMMA AcquireKeeps ==
    ASSUME IInv, NEW s \in Sessions, Acquire(s)
    PROVE  IInv'
  <1>1. PICK c \in Conns :
          /\ conn[c].owner = Nobody
          /\ conn' = [conn EXCEPT ![c] = [(IF sess[s].txn THEN Begun(c) ELSE @) EXCEPT !.owner = s]]
          /\ sess' = [sess EXCEPT ![s] =
                        IF sess[s].txn /\ Sqlite
                        THEN [@ EXCEPT !.conn = c, !.pc = "begin"]
                        ELSE [@ EXCEPT !.conn = c, !.st = "active", !.pc = "resolve",
                                       !.depth = IF sess[s].txn THEN 1 ELSE 0]]
    BY ZenonT(60) DEF Acquire
  <1> DEFINE y == IF sess[s].txn THEN Begun(c) ELSE conn[c]
             x == [y EXCEPT !.owner = s]
             k == IF sess[s].txn /\ Sqlite
                  THEN [sess[s] EXCEPT !.conn = c, !.pc = "begin"]
                  ELSE [sess[s] EXCEPT !.conn = c, !.st = "active", !.pc = "resolve",
                                       !.depth = IF sess[s].txn THEN 1 ELSE 0]
  <1>2. sess[s].st = "pending" /\ sess[s].depth = 0 /\ sess[s].conn = Nobody /\ ~sess[s].own
    BY SessType DEF Acquire, Placed, Session
  <1>3. /\ y \in Conn
        /\ sess[s].txn => Len(y.stack) = Len(conn[c].stack) + 1
        /\ ~sess[s].txn => Len(y.stack) = Len(conn[c].stack)
    BY ConnType, BegunConn
  <1> HIDE DEF y
  <1>4. x \in Conn /\ x.owner = s /\ x.stack = y.stack
    BY <1>3 DEF Conn
  <1>5. k \in Session /\ k.conn = c /\ k.own = sess[s].own
    BY ZenonT(60), SessType DEF Session
  <1>6. \/ sess[s].txn /\ Sqlite /\ k.pc = "begin" /\ k.st = "pending" /\ k.depth = 0
        \/ /\ ~(sess[s].txn /\ Sqlite) /\ k.pc = "resolve" /\ k.st = "active"
           /\ k.depth = IF sess[s].txn THEN 1 ELSE 0
    BY <1>2, SessType DEF Session
  <1>7. conn' = [conn EXCEPT ![c] = x] /\ sess' = [sess EXCEPT ![s] = k]
    BY <1>1 DEF y, IInv, TypeOK
  <1> HIDE DEF x, k
  <1>8. Becomes(s, k)
    BY <1>2, <1>5, <1>6, <1>7, NobodyElse DEF Becomes, Placed
  <1>9. (sess[s].txn => Levels(k) = 1) /\ (~sess[s].txn => Levels(k) = 0)
    BY <1>6 DEF Levels
  <1>10. c \notin leaked => conn[c].stack = <<>> /\ lock # c
    BY <1>1 DEF IInv, Nested
  <1>11. leaked' = leaked /\ lock' = lock
    BY DEF Acquire
  <1>12. Swaps(s, k, c, x)
    <2>1. c \notin leaked' => Len(x.stack) = Levels(k)
      <3>1. c \notin leaked => Len(conn[c].stack) = 0
        BY <1>10
      <3>2. CASE sess[s].txn
        <4>1. Len(y.stack) = Len(conn[c].stack) + 1
          BY <1>3, <3>2
        <4>2. c \notin leaked => Len(y.stack) = 0 + 1
          BY <3>1, <4>1, Zenon
        <4> QED
          BY <1>4, <1>9, <1>11, <3>2, <4>2
      <3>3. CASE ~sess[s].txn
        BY <1>3, <1>4, <1>9, <1>11, <3>1, <3>3
      <3> QED
        BY <3>2, <3>3
    <2>2. \A d \in Conns \ leaked' : lock' = d => d # c /\ lock = d
      BY <1>10, <1>11
    <2> QED
      BY ZenonT(60), <1>1, <1>2, <1>4, <1>5, <1>7, <2>1, <2>2 DEF Swaps
  <1>13. Rest
    BY RestSame DEF Acquire
  <1> QED
    BY <1>8, <1>12, <1>13, SwapsKeeps

LEMMA AcquireTimeoutKeeps ==
    ASSUME IInv, NEW s \in Sessions, AcquireTimeout(s)
    PROVE  IInv'
  <1>1. Becomes(s, Ended(s)) /\ Stays(s, Ended(s))
    BY EndedFields, SessType DEF AcquireTimeout, Becomes, Stays, Placed, Levels
  <1> QED
    BY <1>1, RestSame, StaysKeeps DEF AcquireTimeout

\* An empty stack has no level.
LEMMA LevelOne ==
    ASSUME IInv, NEW s \in Sessions, sess[s].conn # Nobody, sess[s].conn \notin leaked,
           Levels(sess[s]) = 1
    PROVE  conn[sess[s].conn].stack # <<>>
  BY HasConn

LEMMA BeginWritesKeeps ==
    ASSUME IInv, NEW s \in Sessions, BeginWrites(s)
    PROVE  IInv'
  <1> DEFINE k == [sess[s] EXCEPT !.st = "active", !.depth = 1, !.pc = "resolve"]
  <1>1. /\ sess[s].pc = "begin" /\ sess[s].conn # Nobody /\ ~sess[s].own
        /\ Levels(sess[s]) = 1
    BY SessType DEF BeginWrites, Placed, Session, Levels
  <1>2. sess' = [sess EXCEPT ![s] = k]
    BY DEF BeginWrites
  <1>3. /\ k \in Session
        /\ k.st = "active" /\ k.depth = 1 /\ k.pc = "resolve"
        /\ k.conn = sess[s].conn /\ k.own = sess[s].own
    BY ZenonT(60), SessType DEF Session
  <1> HIDE DEF k
  <1>4. Becomes(s, k)
    BY <1>1, <1>2, <1>3 DEF Becomes, Placed
  <1>5. Stays(s, k)
    BY <1>1, <1>3, LevelOne DEF BeginWrites, Stays, Levels
  <1>6. Rest
    BY <1>1, HasConn DEF BeginWrites, IInv, TypeOK, Nested, Rest
  <1> QED
    BY <1>4, <1>5, <1>6, StaysKeeps

LEMMA BeginFailsKeeps ==
    ASSUME IInv, NEW s \in Sessions, BeginFails(s)
    PROVE  IInv'
  <1> DEFINE c == sess[s].conn
             k == [Ended(s) EXCEPT !.conn = Nobody]
             x == [conn[c] EXCEPT !.owner = Nobody]
  <1>1. /\ sess[s].pc = "begin" /\ sess[s].st = "pending" /\ sess[s].depth = 0
        /\ c \in Conns /\ conn[c].owner = s /\ Sqlite
    BY SessType, HasConn DEF BeginFails, Placed, Session
  <1>2. /\ k \in Session
        /\ k.st = "pending" /\ k.depth = 0 /\ k.pc = "idle" /\ k.conn = Nobody
        /\ k.own = Ended(s).own
    BY <1>1, EndedFields DEF Session
  <1>3. x \in Conn /\ x.owner = Nobody
    BY <1>1, ConnType DEF Conn
  <1>4. sess' = [sess EXCEPT ![s] = k] /\ conn' = [conn EXCEPT ![c] = x]
    BY DEF BeginFails
  <1>5. lock' = lock /\ leaked' = leaked \cup {c}
    BY DEF BeginFails
  <1> HIDE DEF k, x
  <1>6. Becomes(s, k)
    BY SMTT(60), <1>2, <1>4, EndedFields DEF Becomes, Placed
  <1>7. Swaps(s, k, c, x)
    BY SMTT(60), <1>1, <1>2, <1>3, <1>4, <1>5, NobodyElse DEF Swaps
  <1>8. Rest
    BY SMTT(60), <1>1 DEF BeginFails, IInv, TypeOK, Nested, Rest
  <1> QED
    BY <1>1, <1>6, <1>7, <1>8, SwapsKeeps

LEMMA ResolveKeeps ==
    ASSUME IInv, NEW s \in Sessions, Resolve(s)
    PROVE  IInv'
  <1> DEFINE k == [sess[s] EXCEPT !.key = "active", !.pc = "ready"]
  <1>1. /\ sess[s].pc = "resolve" /\ sess[s].st = "active" /\ sess[s].conn # Nobody /\ ~sess[s].own
        /\ sess[s].depth \in {0, 1} /\ Levels(sess[s]) = sess[s].depth
    BY SessType DEF Resolve, Placed, Session, Levels
  <1>2. sess' = [sess EXCEPT ![s] = k]
    BY DEF Resolve
  <1>3. /\ k \in Session
        /\ k.st = sess[s].st /\ k.depth = sess[s].depth /\ k.pc = "ready"
        /\ k.conn = sess[s].conn /\ k.own = sess[s].own
    BY ZenonT(60), SessType DEF Session
  <1> HIDE DEF k
  <1>4. Becomes(s, k)
    BY <1>1, <1>2, <1>3 DEF Becomes, Placed
  <1>5. Stays(s, k)
    <2>1. LocksRow(s) => conn[sess[s].conn].stack # <<>> \/ sess[s].conn \in leaked
      BY <1>1, LevelOne DEF LocksRow
    <2> QED
      BY <1>1, <1>3, <2>1 DEF Resolve, Stays, Levels
  <1>6. Rest
    BY <1>1, HasConn DEF Resolve, IInv, TypeOK, Nested, Rest
  <1> QED
    BY <1>4, <1>5, <1>6, StaysKeeps

LEMMA ResolveFailsKeeps ==
    ASSUME IInv, NEW s \in Sessions, ResolveFails(s)
    PROVE  IInv'
  <1> DEFINE k == [Ended(s) EXCEPT !.key = "lost"]
  <1>1. sess[s].pc = "resolve" /\ sess[s].st = "active"
    BY SessType DEF ResolveFails, Placed, Session
  <1>2. /\ k \in Session
        /\ k.st = sess[s].st /\ k.depth = sess[s].depth /\ k.pc = "idle"
        /\ k.conn = sess[s].conn /\ k.own = Ended(s).own
    BY EndedFields DEF Session
  <1>3. sess' = [sess EXCEPT ![s] = k]
    BY DEF ResolveFails
  <1> HIDE DEF k
  <1>4. Becomes(s, k) /\ Stays(s, k)
    BY ZenonT(60), <1>1, <1>2, <1>3, EndedFields, SessType DEF ResolveFails, Becomes, Stays, Placed, Levels
  <1> QED
    BY <1>4, RestSame, StaysKeeps DEF ResolveFails

LEMMA FetchKeeps ==
    ASSUME IInv, NEW s \in Sessions, Fetch(s)
    PROVE  IInv'
  <1> DEFINE f == {g \in View(sess[s].conn) : g.kind = "ctr"}
             k == [Ended(s) EXCEPT !.seen = f]
  <1>1. sess[s].pc = "ready" /\ sess[s].st = "active" /\ sess[s].conn \in Conns
    BY SessType DEF Fetch, Placed, Session
  <1>2. f \subseteq Fact
    BY <1>1, TopType
  <1>3. sess' = [sess EXCEPT ![s] = k]
    BY DEF Fetch
  <1> HIDE DEF f
  <1>4. /\ k \in Session
        /\ k.st = sess[s].st /\ k.depth = sess[s].depth /\ k.pc = "idle"
        /\ k.conn = sess[s].conn /\ k.own = Ended(s).own
    BY <1>2, EndedFields DEF Session
  <1> HIDE DEF k
  <1>5. Becomes(s, k) /\ Stays(s, k)
    BY ZenonT(60), <1>1, <1>3, <1>4, EndedFields, SessType DEF Fetch, Becomes, Stays, Placed, Levels
  <1> QED
    BY SMTT(60), <1>5, RestSame, StaysKeeps DEF Fetch

LEMMA AsTransactionKeeps ==
    ASSUME IInv, NEW s \in Sessions, AsTransaction(s)
    PROVE  IInv'
  <1> DEFINE c == sess[s].conn
  <1>1. /\ sess[s].pc = "ready" /\ sess[s].st = "active" /\ c # Nobody
        /\ sess[s].depth \in {0, 1} /\ Levels(sess[s]) = sess[s].depth /\ ~sess[s].own
    BY SessType DEF AsTransaction, Placed, Session, Levels
  <1>2. CASE /\ sess[s].depth > 0
             /\ sess' = [sess EXCEPT ![s] = [@ EXCEPT !.pc = "row", !.own = FALSE]]
             /\ UNCHANGED conn
    <2> DEFINE k == [sess[s] EXCEPT !.pc = "row", !.own = FALSE]
    <2>1. /\ k \in Session
          /\ k.st = sess[s].st /\ k.depth = sess[s].depth /\ k.pc = "row" /\ k.conn = c /\ ~k.own
      BY ZenonT(60), SessType DEF Session
    <2>2. sess' = [sess EXCEPT ![s] = k]
      BY <1>2
    <2> HIDE DEF k
    <2>3. Becomes(s, k) /\ Stays(s, k)
      BY ZenonT(60), <1>1, <1>2, <2>1, <2>2 DEF AsTransaction, Becomes, Stays, Placed, Levels
    <2> QED
      BY <2>3, RestSame, StaysKeeps DEF AsTransaction
  <1>3. CASE /\ sess[s].depth = 0
             /\ conn' = [conn EXCEPT ![c] = Begun(c)]
             /\ sess' = [sess EXCEPT ![s] =
                           IF Sqlite
                           THEN [@ EXCEPT !.pc = "opbegin"]
                           ELSE [@ EXCEPT !.pc = "row", !.own = TRUE, !.depth = 1]]
    <2> DEFINE k == IF Sqlite THEN [sess[s] EXCEPT !.pc = "opbegin"]
                              ELSE [sess[s] EXCEPT !.pc = "row", !.own = TRUE, !.depth = 1]
    <2>1. k \in Session /\ k.st = sess[s].st /\ k.conn = c
      <3>1. /\ [sess[s] EXCEPT !.pc = "opbegin"] \in Session
            /\ [sess[s] EXCEPT !.pc = "opbegin"].st = sess[s].st
            /\ [sess[s] EXCEPT !.pc = "opbegin"].conn = c
        BY SessType DEF Session
      <3> DEFINE r == [sess[s] EXCEPT !.pc = "row", !.own = TRUE, !.depth = 1]
      <3>2. r \in Session /\ r.st = sess[s].st /\ r.conn = c
        BY ZenonT(60), SessType DEF Session
      <3>3. k = [sess[s] EXCEPT !.pc = "opbegin"] \/ k = r
        OBVIOUS
      <3> HIDE DEF k, r
      <3> QED
        BY ZenonT(60), <3>1, <3>2, <3>3
    <2>2. \/ Sqlite /\ k.pc = "opbegin" /\ k.depth = 0 /\ k.own = sess[s].own
          \/ ~Sqlite /\ k.pc = "row" /\ k.depth = 1
      BY ZenonT(60), <1>3, SessType DEF Session
    <2>3. sess' = [sess EXCEPT ![s] = k]
      BY <1>3
    <2> HIDE DEF k
    <2>4. Becomes(s, k) /\ Levels(k) = 1
      BY <1>1, <2>1, <2>2, <2>3 DEF Becomes, Placed, Levels
    <2>5. /\ c \in Conns /\ conn[c].owner = s
          /\ c \notin leaked => Len(conn[c].stack) = 0
      BY <1>1, <1>3, HasConn
    <2>6. /\ Begun(c) \in Conn /\ Begun(c).owner = s
          /\ Len(Begun(c).stack) = Len(conn[c].stack) + 1
      BY <2>5, BegunConn
    <2>7. c \notin leaked => Len(Begun(c).stack) = 0 + 1
      BY <2>5, <2>6, Zenon
    <2>8. Begun(c).stack # <<>>
      BY <2>5, <2>6, ConnType
    <2>9. lock' = lock /\ leaked' = leaked
      BY DEF AsTransaction
    <2>10. Swaps(s, k, c, Begun(c))
      BY <1>3, <2>1, <2>4, <2>5, <2>6, <2>7, <2>8, <2>9 DEF Swaps
    <2> QED
      BY <2>4, <2>5, <2>10, RestSame, SwapsKeeps DEF AsTransaction
  <1> QED
    BY <1>2, <1>3 DEF AsTransaction

LEMMA OpBeginWritesKeeps ==
    ASSUME IInv, NEW s \in Sessions, OpBeginWrites(s)
    PROVE  IInv'
  <1> DEFINE k == [sess[s] EXCEPT !.pc = "row", !.own = TRUE, !.depth = 1]
  <1>1. /\ sess[s].pc = "opbegin" /\ sess[s].st = "active" /\ sess[s].conn # Nobody
        /\ Levels(sess[s]) = 1
    BY SessType DEF OpBeginWrites, Placed, Session, Levels
  <1>2. /\ k \in Session
        /\ k.st = sess[s].st /\ k.depth = 1 /\ k.pc = "row" /\ k.conn = sess[s].conn
    BY ZenonT(60), SessType DEF Session
  <1>3. sess' = [sess EXCEPT ![s] = k]
    BY DEF OpBeginWrites
  <1> HIDE DEF k
  <1>4. Becomes(s, k) /\ Stays(s, k)
    BY ZenonT(60), <1>1, <1>2, <1>3, LevelOne DEF OpBeginWrites, Becomes, Stays, Placed, Levels
  <1>5. Rest
    BY <1>1, HasConn DEF OpBeginWrites, IInv, TypeOK, Nested, Rest
  <1> QED
    BY <1>4, <1>5, StaysKeeps

LEMMA OpBeginFailsKeeps ==
    ASSUME IInv, NEW s \in Sessions, OpBeginFails(s)
    PROVE  IInv'
  <1>1. /\ sess[s].pc = "opbegin" /\ sess[s].st = "active" /\ sess[s].conn # Nobody
        /\ sess[s].depth = 0 /\ Sqlite
    BY SessType DEF OpBeginFails, Placed, Session
  <1>2. Becomes(s, Ended(s)) /\ Stays(s, Ended(s))
    BY <1>1, EndedFields, SessType DEF OpBeginFails, Becomes, Stays, Placed
  <1>3. Rest
    BY <1>1, HasConn DEF OpBeginFails, IInv, TypeOK, Nested, Rest
  <1> QED
    BY <1>2, <1>3, StaysKeeps

\* A statement leaves the nesting of the connection alone.
LEMMA WriteSwaps ==
    ASSUME IInv, NEW s \in Sessions, sess[s].conn # Nobody, NEW k,
           k.conn = sess[s].conn, Levels(k) = Levels(sess[s]),
           NEW add \in SUBSET Fact, NEW del \in SUBSET Fact, Write(sess[s].conn, add, del),
           leaked' = leaked,
           lock' = lock \/ (lock' = sess[s].conn /\ InTxn(sess[s].conn))
    PROVE  db' \subseteq Fact /\ \E x : Swaps(s, k, sess[s].conn, x)
  <1> DEFINE c == sess[s].conn
  <1>1. /\ c \in Conns /\ conn[c].owner = s
        /\ c \notin leaked => Len(conn[c].stack) = Levels(sess[s])
    BY SMTT(60), HasConn
  <1>2. PICK x \in Conn : /\ db' \subseteq Fact
                          /\ conn' = [conn EXCEPT ![c] = x]
                          /\ x.owner = conn[c].owner
                          /\ Len(x.stack) = Len(conn[c].stack)
    BY ZenonT(60), <1>1, WriteConn
  <1>3. conn[c].stack \in Seq(Delta)
    BY <1>1, ConnType
  <1>4. x.stack \in Seq(Delta)
    BY SMTT(60) DEF Conn
  <1>5. conn[c].stack # <<>> => x.stack # <<>>
    BY SMTT(60), <1>2, <1>3, <1>4
  <1>6. \A d \in Conns \ leaked' : lock' = d => IF d = c THEN x.stack # <<>> ELSE lock = d
    BY SMTT(60), <1>1, <1>5 DEF IInv, Nested, InTxn
  <1>7. Swaps(s, k, c, x)
    BY SMTT(60), <1>1, <1>2, <1>6 DEF Swaps
  <1> QED
    BY SMTT(60), <1>2, <1>7

LEMMA WriteRowKeeps ==
    ASSUME IInv, NEW s \in Sessions, WriteRow(s)
    PROVE  IInv'
  <1> DEFINE c == sess[s].conn
             t == sess[s].tok
             ctr == {f \in View(c) : f.kind = "ctr"}
             w == sess[s].wrote \cup {t}
             pc == IF sess[s].op = "insert" THEN "tag" ELSE "commit"
             k == [sess[s] EXCEPT !.wrote = w, !.seen = {}, !.pc = pc]
  <1>1. /\ sess[s].pc = "row" /\ sess[s].st = "active" /\ c # Nobody
        /\ t \in Nat /\ w \subseteq Nat /\ pc \in {"tag", "commit"}
    BY SessType DEF WriteRow, Placed, Session
  <1>2. sess' = [sess EXCEPT ![s] = k]
    BY DEF WriteRow
  <1> HIDE DEF w, pc
  <1>3. /\ k \in Session
        /\ k.st = sess[s].st /\ k.depth = sess[s].depth /\ k.pc = pc /\ k.conn = c
        /\ k.own = sess[s].own
    BY ZenonT(60), <1>1, SessType DEF Session
  <1> HIDE DEF k
  <1>4. Becomes(s, k) /\ Levels(k) = Levels(sess[s])
    BY <1>1, <1>2, <1>3, SessType DEF Becomes, Placed, Levels
  <1>5. PICK add \in SUBSET Fact, del \in SUBSET Fact : Write(c, add, del)
    <2>1. ctr \subseteq Fact
      BY <1>1, HasConn, TopType
    <2>2. [kind |-> "row", tok |-> t] \in Fact /\ [kind |-> "ctr", tok |-> t] \in Fact
      BY <1>1 DEF Fact
    <2>3. CASE Write(c, {[kind |-> "row", tok |-> t]}, {})
      BY <2>2, <2>3
    <2>4. CASE Write(c, {[kind |-> "ctr", tok |-> t]}, ctr \ sess[s].seen)
      <3>1. ctr \ sess[s].seen \in SUBSET Fact /\ {[kind |-> "ctr", tok |-> t]} \in SUBSET Fact
        BY <2>1, <2>2
      <3> QED
        BY <2>4, <3>1
    <2> QED
      BY <2>3, <2>4 DEF WriteRow
  <1>6. lock' = lock /\ leaked' = leaked
    BY DEF WriteRow
  <1>7. db' \subseteq Fact /\ \E x : Swaps(s, k, c, x)
    BY ZenonT(60), <1>1, <1>3, <1>4, <1>5, <1>6, WriteSwaps
  <1>8. Rest
    BY SMTT(60), <1>7 DEF WriteRow, IInv, TypeOK, Nested, Rest
  <1> QED
    BY <1>1, <1>4, <1>7, <1>8, HasConn, SwapsKeeps

LEMMA WriteTagsKeeps ==
    ASSUME IInv, NEW s \in Sessions, WriteTags(s)
    PROVE  IInv'
  <1> DEFINE c == sess[s].conn
             k == [sess[s] EXCEPT !.pc = "commit"]
             add == {[kind |-> "tag", tok |-> sess[s].tok]}
  <1>1. sess[s].pc = "tag" /\ sess[s].st = "active" /\ c # Nobody
    BY SessType DEF WriteTags, Placed, Session
  <1>2. /\ k \in Session
        /\ k.st = sess[s].st /\ k.depth = sess[s].depth /\ k.pc = "commit" /\ k.conn = c
        /\ k.own = sess[s].own
    BY SessType DEF Session
  <1>3. sess' = [sess EXCEPT ![s] = k] /\ Write(c, add, {})
    BY DEF WriteTags
  <1>4. add \in SUBSET Fact /\ {} \in SUBSET Fact
    BY SMTT(60), SessType DEF Fact
  <1> HIDE DEF k, add
  <1>5. Becomes(s, k) /\ Levels(k) = Levels(sess[s])
    BY <1>1, <1>2, <1>3, SessType DEF Becomes, Placed, Levels
  <1>6. lock' = lock /\ leaked' = leaked
    BY SMTT(60) DEF WriteTags
  <1>7. db' \subseteq Fact /\ \E x : Swaps(s, k, c, x)
    BY ZenonT(60), <1>1, <1>2, <1>3, <1>4, <1>5, <1>6, WriteSwaps
  <1>8. Rest
    BY <1>7 DEF WriteTags, IInv, TypeOK, Nested, Rest
  <1> QED
    BY <1>1, <1>5, <1>7, <1>8, HasConn, SwapsKeeps

LEMMA DoneFields ==
    ASSUME NEW k \in Session, NEW w \in SUBSET Nat, NEW e \in SUBSET [tok : Nat, op : Kinds]
    PROVE  LET r == [k EXCEPT !.wrote = w, !.done = e]
           IN  /\ r \in Session
               /\ r.st = k.st /\ r.depth = k.depth /\ r.pc = k.pc /\ r.conn = k.conn /\ r.own = k.own
  BY ZenonT(60) DEF Session

LEMMA RemoveKeeps ==
    ASSUME IInv, NEW s \in Sessions, Remove(s)
    PROVE  IInv'
  <1> DEFINE c == sess[s].conn
             t == sess[s].tok
             add == {[kind |-> "row", tok |-> t], [kind |-> "tag", tok |-> t]}
             w == sess[s].wrote \cup {t}
             e == sess[s].done \cup {Op(s)}
  <1>1. /\ sess[s].pc = "ready" /\ sess[s].st = "active" /\ c # Nobody /\ c \in Conns
        /\ t \in Nat /\ w \subseteq Nat
    BY SessType, HasConn DEF Remove, Placed, Session
  <1>2. e \subseteq [tok : Nat, op : Kinds]
    BY SessType DEF Op, Session
  <1>3. PICK k : /\ sess' = [sess EXCEPT ![s] = k]
                 /\ k = Ended(s) \/ k = [Ended(s) EXCEPT !.wrote = w, !.done = e]
    BY DEF Remove
  <1> HIDE DEF w, e
  <1>4. /\ k \in Session
        /\ k.st = sess[s].st /\ k.depth = sess[s].depth /\ k.pc = "idle" /\ k.conn = c
        /\ k.own = Ended(s).own
    <2>1. CASE k = Ended(s)
      BY <2>1, EndedFields
    <2>2. CASE k = [Ended(s) EXCEPT !.wrote = w, !.done = e]
      <3>1. w \in SUBSET Nat /\ e \in SUBSET [tok : Nat, op : Kinds] /\ Ended(s) \in Session
        BY SMTT(60), <1>1, <1>2, EndedFields
      <3>2. /\ k \in Session
            /\ k.st = Ended(s).st /\ k.depth = Ended(s).depth /\ k.pc = Ended(s).pc
            /\ k.conn = Ended(s).conn /\ k.own = Ended(s).own
        BY ZenonT(60), <2>2, <3>1, DoneFields
      <3> QED
        BY <3>2, EndedFields
    <2> QED
      BY <1>3, <2>1, <2>2
  <1>5. Becomes(s, k) /\ Levels(k) = Levels(sess[s])
    BY <1>1, <1>3, <1>4, EndedFields, SessType DEF Becomes, Placed, Levels
  <1>6. add \in SUBSET Fact /\ {} \in SUBSET Fact /\ Write(c, add, {})
    BY <1>1 DEF Remove, Fact
  <1> HIDE DEF add
  <1>7. leaked' = leaked /\ (lock' = lock \/ (lock' = c /\ InTxn(c)))
    BY DEF Remove
  <1>8. db' \subseteq Fact /\ \E x : Swaps(s, k, c, x)
    BY ZenonT(60), <1>1, <1>4, <1>5, <1>6, <1>7, WriteSwaps
  <1>9. acked' \subseteq [tok : Nat, op : Kinds, clean : BOOLEAN]
    <2>1. [tok |-> t, op |-> "remove", clean |-> c \notin leaked] \in [tok : Nat, op : Kinds, clean : BOOLEAN]
      BY <1>1 DEF Kinds
    <2>2. \/ acked' = acked
          \/ acked' = acked \cup {[tok |-> t, op |-> "remove", clean |-> c \notin leaked]}
      BY DEF Remove
    <2> QED
      BY ZenonT(60), <2>1, <2>2 DEF IInv, TypeOK
  <1>10. Rest
    BY <1>1, <1>7, <1>8, <1>9 DEF Remove, IInv, TypeOK, Nested, Rest
  <1> QED
    BY SMTT(60), <1>1, <1>5, <1>8, <1>10, SwapsKeeps

LEMMA LockReleased ==
    ASSUME IInv, NEW c \in Conns, NEW x, lock' = LockAfter(c, x)
    PROVE  /\ lock' \in Conns \cup {Nobody}
           /\ \A d \in Conns : lock' = d => IF d = c THEN x.stack # <<>> ELSE lock = d
  BY NobodyElse DEF LockAfter, IInv, TypeOK

LEMMA OpCommitKeeps ==
    ASSUME IInv, NEW s \in Sessions, OpCommit(s)
    PROVE  IInv'
  <1> DEFINE c == sess[s].conn
             t == sess[s].tok
  <1>1. /\ sess[s].pc = "commit" /\ sess[s].st = "active" /\ c # Nobody /\ c \in Conns
        /\ sess[s].own => Levels(sess[s]) = 1
    BY SMTT(60), SessType, HasConn DEF OpCommit, Placed, Session, Levels
  <1>2. CASE sess[s].own
    <2> DEFINE w == sess[s].wrote \ {t}
               k == [Ended(s) EXCEPT !.depth = 0, !.wrote = w]
    <2>1. w \subseteq Nat
      BY SessType
    <2>2. sess' = [sess EXCEPT ![s] = k]
      BY <1>2 DEF OpCommit
    <2> HIDE DEF w
    <2>3. /\ k \in Session
          /\ k.st = sess[s].st /\ k.depth = 0 /\ k.pc = "idle" /\ k.conn = c /\ k.own = Ended(s).own
      BY ZenonT(60), <2>1, EndedFields DEF Session
    <2> HIDE DEF k
    <2>4. Becomes(s, k) /\ Levels(k) = 0
      BY <1>1, <2>2, <2>3, EndedFields DEF Becomes, Placed, Levels
    <2>5. conn[c].owner = s /\ (c \notin leaked => Len(conn[c].stack) <= 1)
      BY <1>1, <1>2, HasConn
    <2>6. /\ Committed(c) \in Conn /\ Committed(c).owner = s
          /\ c \notin leaked => Len(Committed(c).stack) = 0
          /\ CommittedDb(c) \subseteq Fact
      BY <1>1, <2>5, CommittedConn
    <2>7. /\ lock' \in Conns \cup {Nobody}
          /\ \A d \in Conns : lock' = d => IF d = c THEN Committed(c).stack # <<>> ELSE lock = d
      BY <1>1, <1>2, LockReleased DEF OpCommit
    <2>8. Swaps(s, k, c, Committed(c))
      BY <1>2, <2>3, <2>4, <2>5, <2>6, <2>7 DEF OpCommit, Swaps
    <2>9. acked' \subseteq [tok : Nat, op : Kinds, clean : BOOLEAN]
      <3> DEFINE a == [tok |-> t, op |-> sess[s].op, clean |-> c \notin leaked]
      <3>1. a \in [tok : Nat, op : Kinds, clean : BOOLEAN]
        BY SessType
      <3>2. acked' = acked \/ acked' = acked \cup {a}
        BY <1>2 DEF OpCommit, Reported
      <3> QED
        BY ZenonT(60), <3>1, <3>2 DEF IInv, TypeOK
    <2>10. Rest
      BY <1>2, <2>6, <2>7, <2>9 DEF OpCommit, IInv, TypeOK, Nested, Rest
    <2> QED
      BY <1>1, <2>4, <2>8, <2>10, SwapsKeeps
  <1>3. CASE ~sess[s].own
    <2> DEFINE e == sess[s].done \cup {Op(s)}
               k == [Ended(s) EXCEPT !.done = e]
    <2>1. e \subseteq [tok : Nat, op : Kinds]
      BY SessType DEF Op, Session
    <2>2. sess' = [sess EXCEPT ![s] = k]
      BY <1>3 DEF OpCommit
    <2> HIDE DEF e
    <2>3. /\ k \in Session
          /\ k.st = sess[s].st /\ k.depth = sess[s].depth /\ k.pc = "idle" /\ k.conn = c
          /\ k.own = Ended(s).own
      BY <2>1, EndedFields DEF Session
    <2> HIDE DEF k
    <2>4. Becomes(s, k) /\ Stays(s, k)
      BY SMTT(60), <1>1, <1>3, <2>2, <2>3, EndedFields, SessType DEF OpCommit, Becomes, Stays, Placed, Levels
    <2> QED
      BY <1>3, <2>4, RestSame, StaysKeeps DEF OpCommit
  <1> QED
    BY <1>2, <1>3

LEMMA OpAbortsKeeps ==
    ASSUME IInv, NEW s \in Sessions, NEW refused \in BOOLEAN,
           sess[s].pc \in {"ready", "row", "tag", "commit"}, OpAborts(s, refused)
    PROVE  IInv'
  <1> DEFINE c == sess[s].conn
             t == sess[s].tok
             x == IF sess[s].own
                  THEN RolledBack(c)
                  ELSE [conn[c] EXCEPT !.aborted = conn[c].aborted \/ (refused /\ ~Sqlite /\ InTxn(c))]
  <1>1. /\ sess[s].st = "active" /\ c # Nobody /\ c \in Conns /\ conn[c].owner = s
        /\ sess[s].depth \in {0, 1} /\ Levels(sess[s]) = sess[s].depth
        /\ sess[s].own => sess[s].depth = 1
        /\ c \notin leaked => Len(conn[c].stack) = sess[s].depth
    BY SMTT(60), SessType, HasConn DEF Placed, Session, Levels
  <1>2. DepthAfter(s) \in {0, 1} /\ DepthAfter(s) \in Nat
    BY SMTT(60), <1>1 DEF DepthAfter
  <1>3. conn' = [conn EXCEPT ![c] = x] /\ lock' = LockAfter(c, x)
    BY SMTT(60) DEF OpAborts
  <1> HIDE DEF x
  <1>10. PICK w \in SUBSET Nat, f \in BOOLEAN :
           sess' = [sess EXCEPT ![s] =
                      [Ended(s) EXCEPT !.depth = DepthAfter(s), !.wrote = w, !.failed = f]]
    <2> DEFINE w == IF sess[s].own THEN sess[s].wrote \ {t} ELSE sess[s].wrote
               f == sess[s].failed \/ (refused /\ ~Sqlite)
    <2>1. w \in SUBSET Nat
      BY SessType
    <2>2. f \in BOOLEAN
      OBVIOUS
    <2>3. sess' = [sess EXCEPT ![s] =
                     [Ended(s) EXCEPT !.depth = DepthAfter(s), !.wrote = w, !.failed = f]]
      BY DEF OpAborts
    <2> QED
      BY ZenonT(60), <2>1, <2>2, <2>3
  <1>11. PICK k : k = [Ended(s) EXCEPT !.depth = DepthAfter(s), !.wrote = w, !.failed = f]
    BY SMTT(60)
  <1>4. /\ k \in Session
        /\ k.st = sess[s].st /\ k.depth = DepthAfter(s) /\ k.pc = "idle" /\ k.conn = c
        /\ k.own = Ended(s).own
    <2>1. PICK n \in Nat : n = DepthAfter(s)
      BY <1>2
    <2>2. PICK z \in Session : z = Ended(s)
      BY EndedFields
    <2>3. k = [z EXCEPT !.depth = n, !.wrote = w, !.failed = f]
      BY <1>11, <2>1, <2>2
    <2>4. /\ k \in Session
          /\ k.st = z.st /\ k.depth = n /\ k.pc = z.pc /\ k.conn = z.conn /\ k.own = z.own
      BY ZenonT(60), <2>3 DEF Session
    <2> QED
      BY SMTT(60), <2>1, <2>2, <2>4, EndedFields
  <1>5. Becomes(s, k) /\ Levels(k) = DepthAfter(s)
    BY <1>1, <1>2, <1>4, <1>10, <1>11, EndedFields DEF Becomes, Placed, Levels
  <1>6. x \in Conn /\ x.owner = s /\ (c \notin leaked => Len(x.stack) = DepthAfter(s))
    <2>1. CASE sess[s].own
      BY SMTT(60), <1>1, <2>1, RolledBackConn DEF DepthAfter, x
    <2>2. CASE ~sess[s].own
      <3> DEFINE b == conn[c].aborted \/ (refused /\ ~Sqlite /\ InTxn(c))
      <3>1. b \in BOOLEAN
        OBVIOUS
      <3>2. x = [conn[c] EXCEPT !.aborted = b]
        BY SMTT(60), <2>2 DEF x
      <3> HIDE DEF b
      <3>3. x \in Conn /\ x.owner = conn[c].owner /\ x.stack = conn[c].stack
        BY SMTT(60), <1>1, <3>1, <3>2, ConnType DEF Conn
      <3> QED
        BY SMTT(60), <1>1, <2>2, <3>3 DEF DepthAfter
    <2> QED
      BY <2>1, <2>2
  <1>7. Swaps(s, k, c, x)
    <2>1. \A d \in Conns : lock' = d => IF d = c THEN x.stack # <<>> ELSE lock = d
      BY ZenonT(60), <1>1, <1>3, LockReleased
    <2>2. leaked' = leaked
      BY SMTT(60) DEF OpAborts
    <2> QED
      BY SMTT(60), <1>1, <1>3, <1>4, <1>5, <1>6, <2>1, <2>2 DEF Swaps
  <1>8. undone' \subseteq Nat /\ loose' \subseteq Nat
    BY SMTT(60), SessType DEF OpAborts, IInv, TypeOK
  <1>9. Rest
    BY <1>1, <1>3, <1>8, LockReleased DEF OpAborts, IInv, TypeOK, Nested, Rest
  <1> QED
    BY SMTT(60), <1>1, <1>5, <1>7, <1>9, SwapsKeeps

LEMMA FreeFields ==
    /\ FreeSession \in Session
    /\ FreeSession.st = "free" /\ FreeSession.conn = Nobody /\ FreeSession.depth = 0
    /\ FreeSession.pc = "idle" /\ ~FreeSession.own
  BY ZenonT(60) DEF FreeSession, Session, Kinds

LEMMA CloseKeeps ==
    ASSUME IInv, NEW s \in Sessions, NEW commit \in BOOLEAN, Close(s, commit)
    PROVE  IInv'
  <1> DEFINE c == sess[s].conn
  <1>1. Becomes(s, FreeSession)
    BY SMTT(60), FreeFields DEF Close, Becomes, Placed
  <1>2. /\ sess[s].pc = "idle" /\ sess[s].depth \in {0, 1} /\ Levels(sess[s]) = sess[s].depth
        /\ c = Nobody => sess[s].depth = 0
        /\ leaked' = leaked
    BY SessType DEF Close, Placed, Session, Levels
  <1>3. CASE sess[s].depth = 0 /\ c = Nobody
    <2>1. Stays(s, FreeSession)
      BY SMTT(60), <1>3, FreeFields DEF Close, Stays
    <2>2. Rest
      BY SMTT(60), <1>3 DEF Close, IInv, TypeOK, Nested, Rest
    <2> QED
      BY <1>1, <2>1, <2>2, StaysKeeps
  <1>4. CASE sess[s].depth = 0 /\ c # Nobody
    <2> DEFINE x == [conn[c] EXCEPT !.owner = Nobody]
    <2>1. /\ c \in Conns /\ conn[c].owner = s
          /\ c \notin leaked => Len(conn[c].stack) = 0
      BY <1>2, <1>4, HasConn
    <2>2. x \in Conn /\ x.owner = Nobody /\ x.stack = conn[c].stack
      BY <2>1, ConnType DEF Conn
    <2>3. conn' = [conn EXCEPT ![c] = x] /\ lock' = lock
      BY SMTT(60), <1>4 DEF Close
    <2> HIDE DEF x
    <2>4. \A d \in Conns \ leaked' : lock' = d => IF d = c THEN x.stack # <<>> ELSE lock = d
      BY SMTT(60), <1>2, <2>2, <2>3 DEF IInv, Nested
    <2>5. Swaps(s, FreeSession, c, x)
      BY SMTT(60), <1>2, <1>4, <2>1, <2>2, <2>3, <2>4, FreeFields DEF Swaps
    <2>6. Rest
      BY SMTT(60), <1>4 DEF Close, IInv, TypeOK, Nested, Rest
    <2> QED
      BY SMTT(60), <1>1, <2>1, <2>5, <2>6, SwapsKeeps
  <1>5. CASE sess[s].depth = 1
    <2> DEFINE y == ClosedConn(c, commit)
               x == [y EXCEPT !.owner = Nobody]
    <2>1. /\ c \in Conns /\ conn[c].owner = s
          /\ c \notin leaked => Len(conn[c].stack) <= 1
      BY SMTT(60), <1>2, <1>5, HasConn
    <2>2. y \in Conn /\ (c \notin leaked => y.stack = <<>>)
      BY <2>1, CommittedConn, RolledBackConn DEF ClosedConn
    <2>3. /\ conn' = [conn EXCEPT ![c] = x] /\ lock' = LockAfter(c, y)
          /\ db' = ClosedDb(c, commit)
      BY <1>5 DEF Close
    <2> HIDE DEF y
    <2>4. x \in Conn /\ x.owner = Nobody /\ x.stack = y.stack
      BY SMTT(60), <2>2 DEF Conn
    <2> HIDE DEF x
    <2>5. /\ lock' \in Conns \cup {Nobody}
          /\ \A d \in Conns : lock' = d => IF d = c THEN y.stack # <<>> ELSE lock = d
      BY SMTT(60), <2>1, <2>3, LockReleased
    <2>6. Swaps(s, FreeSession, c, x)
      <3>1. c \notin leaked' => Len(x.stack) = 0
        BY SMTT(60), <1>2, <2>2, <2>4
      <3> QED
        BY SMTT(60), <1>2, <2>1, <2>3, <2>4, <2>5, <3>1, NobodyElse, FreeFields DEF Swaps
    <2>7. db' \subseteq Fact
      BY SMTT(60), <2>1, <2>3, CommittedConn DEF ClosedDb, IInv, TypeOK
    <2>8. acked' \subseteq [tok : Nat, op : Kinds, clean : BOOLEAN]
      <3> DEFINE a == {[tok |-> d.tok, op |-> d.op, clean |-> ~sess[s].failed /\ c \notin leaked] :
                         d \in sess[s].done}
      <3>1. sess[s].done \subseteq [tok : Nat, op : Kinds]
        BY SMTT(60), SessType DEF Session
      <3>2. a \subseteq [tok : Nat, op : Kinds, clean : BOOLEAN]
        <4> SUFFICES ASSUME NEW d \in sess[s].done
                     PROVE  [tok |-> d.tok, op |-> d.op, clean |-> ~sess[s].failed /\ c \notin leaked]
                              \in [tok : Nat, op : Kinds, clean : BOOLEAN]
          BY ZenonT(60)
        <4>1. d.tok \in Nat /\ d.op \in Kinds
          BY <3>1
        <4>2. (~sess[s].failed /\ c \notin leaked) \in BOOLEAN
          OBVIOUS
        <4> QED
          BY <4>1, <4>2
      <3>3. acked' = acked \/ acked' = acked \cup a
        BY <1>5 DEF Close, Reported
      <3> HIDE DEF a
      <3> QED
        BY SMTT(60), <3>2, <3>3 DEF IInv, TypeOK
    <2>9. undone' \subseteq Nat
      BY SMTT(60), <1>5, SessType DEF Close, IInv, TypeOK
    <2>10. Rest
      BY SMTT(60), <2>5, <2>7, <2>8, <2>9 DEF Close, IInv, TypeOK, Nested, Rest
    <2> QED
      BY SMTT(60), <1>1, <2>1, <2>6, <2>10, SwapsKeeps
  <1> QED
    BY SMTT(60), <1>2, <1>3, <1>4, <1>5

LEMMA CrashKeeps ==
    ASSUME IInv, Crash
    PROVE  IInv'
  <1>1. \A s \in Sessions : sess'[s] = FreeSession
    BY SMTT(60) DEF Crash
  <1>2. \A c \in Conns : conn'[c].owner = Nobody /\ conn'[c].stack = <<>>
    BY DEF Crash
  <1>3. TypeOK'
    <2>1. undone' \subseteq Nat
      BY ZenonT(60), SessType DEF Crash, IInv, TypeOK
    <2>2. conn' \in [Conns -> Conn]
      BY SMTT(60) DEF Crash, Conn
    <2>3. sess' \in [Sessions -> Session]
      BY SMTT(60), FreeFields DEF Crash
    <2>4. /\ db' = db /\ nextTok' = nextTok /\ opens' = opens /\ acked' = acked /\ loose' = loose
          /\ lock' = Nobody /\ leaked' = {} /\ crashes' = crashes + 1
      BY SMTT(60) DEF Crash
    <2> QED
      BY SMTT(60), <2>1, <2>2, <2>3, <2>4 DEF IInv, TypeOK
  <1>4. \A s \in Sessions : Placed(sess'[s])
    BY SMTT(60), <1>1, FreeFields DEF Placed
  <1>5. Owned' /\ Nested'
    BY <1>1, <1>2, FreeFields, NobodyElse DEF Crash, Owned, Nested
  <1> QED
    BY SMTT(60), <1>3, <1>4, <1>5 DEF IInv, Placed, Sqlite
----------------------------------------------------------------------------
LEMMA InitEstablishes == Init => IInv
  <1> SUFFICES ASSUME Init PROVE IInv
    BY SMTT(60)
  <1>1. \A s \in Sessions : sess[s] = FreeSession
    BY SMTT(60) DEF Init
  <1>2. \A c \in Conns : conn[c].owner = Nobody /\ conn[c].stack = <<>>
    BY DEF Init
  <1>3. TypeOK
    <2>1. conn \in [Conns -> Conn]
      BY SMTT(60) DEF Init, Conn
    <2>2. sess \in [Sessions -> Session]
      BY SMTT(60), FreeFields DEF Init
    <2>3. db \subseteq Fact
      BY SMTT(60) DEF Init, Fact
    <2> QED
      BY ZenonT(60), <2>1, <2>2, <2>3 DEF Init, TypeOK
  <1>4. \A s \in Sessions : Placed(sess[s])
    BY SMTT(60), <1>1, FreeFields DEF Placed
  <1>5. Owned /\ Nested
    BY SMTT(60), <1>1, <1>2, FreeFields, NobodyElse DEF Init, Owned, Nested
  <1> QED
    BY <1>3, <1>4, <1>5 DEF IInv

LEMMA NextKeeps == IInv /\ [Next]_vars => IInv'
  <1> SUFFICES ASSUME IInv, [Next]_vars PROVE IInv'
    BY SMTT(60)
  <1>1. CASE UNCHANGED vars
    BY <1>1 DEF vars, IInv, TypeOK, Owned, Nested, Placed, Levels, Sqlite
  <1>2. ASSUME NEW s \in Sessions, NEW txn \in BOOLEAN, NewSession(s, txn)
        PROVE  IInv'
    BY <1>2, NewSessionKeeps
  <1>3. ASSUME NEW s \in Sessions, NEW op \in Kinds, Call(s, op)
        PROVE  IInv'
    BY SMTT(60), <1>3, CallKeeps
  <1>4. ASSUME NEW s \in Sessions, Progress(s)
        PROVE  IInv'
    BY SMTT(60), <1>4, AcquireKeeps, BeginWritesKeeps, ResolveKeeps, FetchKeeps, AsTransactionKeeps,
       OpBeginWritesKeeps, WriteRowKeeps, WriteTagsKeeps, RemoveKeeps, OpCommitKeeps
       DEF Progress
  <1>5. ASSUME NEW s \in Sessions, CallFails(s)
        PROVE  IInv'
    <2>1. CASE StatementRefused(s) \/ NotApplied(s) \/ Cancel(s)
      <3>1. /\ sess[s].pc \in {"ready", "row", "tag", "commit"}
            /\ OpAborts(s, TRUE) \/ OpAborts(s, FALSE)
        BY ZenonT(60), <2>1 DEF StatementRefused, NotApplied, Cancel
      <3> QED
        BY ZenonT(60), <3>1, OpAbortsKeeps
    <2> QED
      BY <1>5, <2>1, AcquireTimeoutKeeps, BeginFailsKeeps, ResolveFailsKeeps, OpBeginFailsKeeps
         DEF CallFails
  <1>6. ASSUME NEW s \in Sessions, NEW commit \in BOOLEAN, Close(s, commit)
        PROVE  IInv'
    BY <1>6, CloseKeeps
  <1> QED
    BY <1>1, <1>2, <1>3, <1>4, <1>5, <1>6, CrashKeeps DEF Next

LEMMA SessionInvariant == Spec => []IInv
  BY InitEstablishes, NextKeeps, PTL DEF Spec
----------------------------------------------------------------------------
\* A connection that DbSession gives back to the pool has no transaction open and no lock,
\* and txn_depth is the nesting depth of the connection at every await outside of
\* start_transaction, on both backends and through every fault, for any number of sessions
\* and connections; connections on which start_transaction has given up are left out.
THEOREM ConnectionsInOrder == Spec => []ConnsInOrder
  <1>1. IInv => ConnsInOrder
    <2> SUFFICES ASSUME IInv PROVE PoolClean /\ DepthAgrees
      BY SMTT(60) DEF IInv, ConnsInOrder
    <2>1. PoolClean
      BY SMTT(60) DEF IInv, Nested, PoolClean, InTxn
    <2>2. DepthAgrees
      BY SessType DEF IInv, Nested, DepthAgrees, Placed, Levels
    <2> QED
      BY <2>1, <2>2
  <1> QED
    BY <1>1, SessionInvariant, PTL
----------------------------------------------------------------------------
(***************************************************************************)
(* What the sessions write, on both backends and for every number of them: *)
(* what was reported done is in the database (AckedDurable), and what was  *)
(* given up is not (NothingLeftOver).                                      *)
(*                                                                         *)
(* Nothing is ever taken out of the database: a replace of the counter     *)
(* takes only what its fetch did not see, and that is nothing, because     *)
(* from the fetch to the end of its transaction the session has the lock   *)
(* under which alone the counter is written (Carries).  Every operation is *)
(* at any moment either in the hands of one session, or in the database,   *)
(* or undone (Tokens).  A connection that start_transaction has given up   *)
(* on commits nothing any more (Leaks).                                    *)
(***************************************************************************)
\* What an operation that returned Ok has written
Facts(o) ==
    IF o.op = "bump"
    THEN {[kind |-> "ctr", tok |-> o.tok]}
    ELSE {[kind |-> "row", tok |-> o.tok], [kind |-> "tag", tok |-> o.tok]}

Toks(F) == {f.tok : f \in F}

Ctr(F) == {f \in F : f.kind = "ctr"}

\* Half an insert is part of F only if it is loose, or t is its operation
Whole(F, ls, t) ==
    \A f \in F : f.kind = "row" => [f EXCEPT !.kind = "tag"] \in F \/ f.tok \in ls \/ f.tok \in t

\* What the operation in flight and the work of the session have to do with its state
Sound(k) ==
    /\ k.st = "active" => (k.depth = 1 <=> k.txn \/ k.own) /\ ~(k.txn /\ k.own)
    /\ k.st # "active" \/ k.pc = "resolve" => k.key # "active"
    /\ k.pc \in {"ready", "opbegin", "row", "tag", "commit"} => k.key = "active"
    /\ k.pc = "begin" \/ (k.pc # "idle" /\ k.op \in {"fetch", "bump"}) => k.txn
    /\ k.pc \in {"opbegin", "row", "tag", "commit"} => k.op \in {"insert", "bump"}
    /\ k.pc \in {"row", "tag", "commit"} => k.depth = 1
    /\ k.pc = "tag" => k.op = "insert"
    /\ k.op = "bump" /\ k.pc \notin {"idle", "commit"} => k.seen # {}
    /\ k.seen # {} => k.st = "active" /\ k.txn /\ k.key = "active"
    /\ k.wrote # {} => k.depth = 1
    /\ k.own => k.wrote \subseteq {k.tok}
    /\ k.done # {} => k.txn
    /\ \A o \in k.done : o.tok \in k.wrote
    /\ k.pc \in {"tag", "commit"} => k.tok \in k.wrote

\* The session k on the connection x, the database being F, the lock lk, and the loose
\* operations ls: what is in its transaction, and what its last fetch saw
Carries(k, x, F, lk, ls) ==
    /\ x.aborted => k.failed /\ k.txn
    /\ k.st = "active" /\ k.txn /\ (Sqlite \/ k.key = "active") => lk = k.conn
    /\ x.stack # <<>> =>
         /\ x.stack[1].del = {}
         /\ Toks(x.stack[1].add) \subseteq k.wrote
         /\ \A o \in k.done : Facts(o) \subseteq x.stack[1].add
         /\ k.pc = "commit" => Facts(k) \subseteq x.stack[1].add
         /\ k.pc = "tag" => [kind |-> "row", tok |-> k.tok] \in x.stack[1].add
         /\ Whole(x.stack[1].add, ls, IF k.pc = "tag" THEN {k.tok} ELSE {})
         /\ Ctr(x.stack[1].add) # {} => lk = k.conn
         /\ k.seen # {} => k.seen = Ctr(F \cup x.stack[1].add)

Work ==
    /\ \A s \in Sessions : sess[s].conn # Nobody /\ sess[s].conn \notin leaked
                              => Carries(sess[s], conn[sess[s].conn], db, lock, loose)
    /\ \A c \in Conns \ leaked : conn[c].owner = Nobody => ~conn[c].aborted

\* The transaction that was given up on is still open, below those of the session.
Leaks ==
    \A c \in leaked : /\ conn[c].stack # <<>>
                      /\ conn[c].owner # Nobody => Len(conn[c].stack) > Levels(sess[conn[c].owner])

\* The operations in the hands of a session: the one in flight, until it writes, and those
\* of its open transaction
Holds(k) ==
    k.wrote \cup IF k.pc \notin {"idle", "tag", "commit"} /\ k.op # "fetch" THEN {k.tok} ELSE {}

Tokens ==
    /\ \A s \in Sessions : Holds(sess[s]) \cap (Toks(db) \cup undone) = {}
    /\ \A r, s \in Sessions : r # s => Holds(sess[r]) \cap Holds(sess[s]) = {}
    /\ \A s \in Sessions : \A t \in Holds(sess[s]) : t < nextTok
    /\ \A t \in Toks(db) \cup undone : t < nextTok
    /\ Toks(db) \cap undone = {}

Kept ==
    /\ \A a \in acked : a.clean => Facts(a) \subseteq db
    /\ Whole(db, loose, {})

\* The inductive invariant, on top of that of the connections.
DInv ==
    /\ \A s \in Sessions : Sound(sess[s])
    /\ Work
    /\ Leaks
    /\ Tokens
    /\ Kept
----------------------------------------------------------------------------
(***************************************************************************)
(* What an action of a session has to show.                                *)
(***************************************************************************)
\* Only the session s changes, and of the connections only e, its own or one it takes from
\* the pool; the lock is that of e if it changes hands or if the counter is committed.
Turn(s, e) ==
    /\ \A r \in Sessions \ {s} : sess'[r] = sess[r]
    /\ \A c \in Conns \ {e} : conn'[c] = conn[c]
    /\ \/ e = sess[s].conn
       \/ sess[s].conn = Nobody /\ e \in Conns /\ conn[e].owner = Nobody
    /\ leaked \subseteq leaked' /\ leaked' \subseteq leaked \cup {e}
    /\ loose \subseteq loose'
    /\ lock' = lock \/ lock \in {Nobody, e}
    /\ Ctr(db') = Ctr(db) \/ lock = e

\* What the session has in hand afterwards.
Carried(s) ==
    sess'[s].conn # Nobody /\ sess'[s].conn \notin leaked'
      => Carries(sess'[s], conn'[sess'[s].conn], db', lock', loose')

\* What is left on the connection if it goes back to the pool or has been given up on.
Left(e) ==
    /\ e \in Conns \ leaked' /\ conn'[e].owner = Nobody => ~conn'[e].aborted
    /\ e \in leaked' => /\ conn'[e].stack # <<>>
                        /\ conn'[e].owner # Nobody
                             => Len(conn'[e].stack) > Levels(sess'[conn'[e].owner])

LEMMA HoldsNat ==
    ASSUME IInv, NEW s \in Sessions
    PROVE  Holds(sess[s]) \subseteq Nat
  BY SessType, Zenon DEF Holds

\* The operations the session had in hand are still in its hands, or committed, or undone.
LEMMA TokensKeep ==
    ASSUME IInv, Tokens, NEW s \in Sessions, NEW A \in SUBSET Nat, NEW B \in SUBSET Nat,
           \A r \in Sessions \ {s} : sess'[r] = sess[r],
           nextTok' \in Nat, nextTok <= nextTok',
           Toks(db') \subseteq Toks(db) \cup A, undone' \subseteq undone \cup B,
           A \subseteq Holds(sess[s]), B \subseteq Holds(sess[s]), A \cap B = {},
           Holds(sess'[s]) \cap (A \cup B) = {},
           \A t \in Holds(sess'[s]) : t \in Holds(sess[s]) \/ (t = nextTok /\ t < nextTok')
    PROVE  Tokens'
  <1>1. /\ \A r \in Sessions : Holds(sess[r]) \subseteq Nat
        /\ \A r \in Sessions : \A t \in Holds(sess[r]) : t < nextTok
        /\ \A t \in Toks(db) \cup undone : t < nextTok
        /\ \A r \in Sessions : Holds(sess[r]) \cap (Toks(db) \cup undone) = {}
        /\ \A q, r \in Sessions : q # r => Holds(sess[q]) \cap Holds(sess[r]) = {}
        /\ Toks(db) \cap undone = {}
        /\ nextTok \in Nat
    BY ZenonT(60), HoldsNat DEF Tokens, IInv, TypeOK
  <1>2. Toks(db) \subseteq Nat /\ undone \subseteq Nat
    BY ZenonT(60) DEF IInv, TypeOK, Toks, Fact
  <1>3. \A r \in Sessions \ {s} : Holds(sess'[r]) = Holds(sess[r])
    BY ZenonT(60)
  <1>4. /\ nextTok \notin Toks(db) \cup undone
        /\ \A r \in Sessions : nextTok \notin Holds(sess[r])
    BY SMTT(60), <1>1
  <1>5. \A r \in Sessions : Holds(sess'[r]) \cap (Toks(db') \cup undone') = {}
    <2>1. Holds(sess'[s]) \cap (Toks(db') \cup undone') = {}
      BY ZenonT(60), <1>1, <1>4
    <2>2. \A r \in Sessions \ {s} : Holds(sess[r]) \cap (Toks(db') \cup undone') = {}
      BY ZenonT(60), <1>1
    <2> QED
      BY ZenonT(60), <1>3, <2>1, <2>2
  <1>6. \A q, r \in Sessions : q # r => Holds(sess'[q]) \cap Holds(sess'[r]) = {}
    <2>1. \A r \in Sessions \ {s} : Holds(sess'[s]) \cap Holds(sess[r]) = {}
      BY ZenonT(60), <1>1, <1>4
    <2> QED
      BY ZenonT(60), <1>1, <1>3, <2>1
  <1>7. \A r \in Sessions : \A t \in Holds(sess'[r]) : t < nextTok'
    <2>1. \A r \in Sessions : \A t \in Holds(sess[r]) : t < nextTok'
      BY SMTT(60), <1>1
    <2> QED
      BY ZenonT(60), <1>3, <2>1
  <1>8. \A t \in Toks(db') \cup undone' : t < nextTok'
    <2>1. \A t \in Toks(db) \cup undone \cup A \cup B : t < nextTok /\ t \in Nat
      BY ZenonT(60), <1>1, <1>2
    <2>2. \A t \in Nat : t < nextTok => t < nextTok'
      BY SMTT(60), <1>1
    <2> QED
      BY ZenonT(60), <2>1, <2>2
  <1>9. Toks(db') \cap undone' = {}
    BY ZenonT(60), <1>1
  <1> QED
    BY ZenonT(60), <1>5, <1>6, <1>7, <1>8, <1>9 DEF Tokens, Toks, Holds

\* The other sessions have what they had: as long as one of them depends on the counter,
\* the lock is its own.
LEMMA CarriesStill ==
    ASSUME NEW k, Sound(k), NEW x, NEW F, NEW G, NEW lk, NEW lm, NEW ls, NEW lt,
           Carries(k, x, F, lk, ls), ls \subseteq lt,
           lk = k.conn => lm = k.conn /\ Ctr(G) = Ctr(F)
    PROVE  Carries(k, x, G, lm, lt)
  <1> DEFINE a == x.stack[1].add
  <1>1. k.seen # {} => lk = k.conn
    BY ZenonT(60) DEF Sound, Carries
  <1>2. Ctr(G) = Ctr(F) => Ctr(G \cup a) = Ctr(F \cup a)
    <2>1. \A H : Ctr(H \cup a) = Ctr(H) \cup Ctr(a)
      BY ZenonT(60) DEF Ctr
    <2> QED
      BY ZenonT(60), <2>1
  <1>3. \A t : Whole(a, ls, t) => Whole(a, lt, t)
    BY ZenonT(60) DEF Whole
  <1> QED
    BY ZenonT(60), <1>1, <1>2, <1>3 DEF Carries

LEMMA OthersCarry ==
    ASSUME IInv, DInv, NEW s \in Sessions, NEW e, Turn(s, e)
    PROVE  \A r \in Sessions \ {s} :
             sess'[r].conn # Nobody /\ sess'[r].conn \notin leaked'
               => Carries(sess'[r], conn'[sess'[r].conn], db', lock', loose')
  <1> SUFFICES ASSUME NEW r \in Sessions \ {s}, sess[r].conn # Nobody, sess[r].conn \notin leaked'
               PROVE  Carries(sess[r], conn'[sess[r].conn], db', lock', loose')
    BY ZenonT(60) DEF Turn
  <1> DEFINE c == sess[r].conn
  <1>1. c \in Conns /\ conn[c].owner = r
    BY HasConn, Zenon
  <1>2. c # e
    <2>1. sess[s].conn # Nobody => conn[sess[s].conn].owner = s
      BY ZenonT(60), HasConn
    <2> QED
      BY ZenonT(60), <1>1, <2>1, NobodyElse DEF Turn
  <1>3. /\ conn'[c] = conn[c] /\ c \notin leaked /\ loose \subseteq loose'
        /\ lock = c => lock' = c /\ Ctr(db') = Ctr(db)
    BY <1>1, <1>2, NobodyElse, Zenon DEF Turn
  <1>4. Sound(sess[r]) /\ Carries(sess[r], conn[c], db, lock, loose)
    BY <1>3, Zenon DEF DInv, Work
  <1> QED
    BY ZenonT(60), <1>3, <1>4, CarriesStill

LEMMA TurnKeeps ==
    ASSUME IInv, DInv, NEW s \in Sessions, NEW e, Turn(s, e),
           Sound(sess'[s]), Carried(s), Left(e), Tokens', Kept'
    PROVE  DInv'
  <1>1. \A r \in Sessions : Sound(sess'[r])
    BY ZenonT(60) DEF DInv, Turn
  <1>2. Work'
    <2>1. \A r \in Sessions : sess'[r].conn # Nobody /\ sess'[r].conn \notin leaked'
                               => Carries(sess'[r], conn'[sess'[r].conn], db', lock', loose')
      BY ZenonT(60), OthersCarry DEF Carried
    <2>2. \A c \in Conns \ leaked' : conn'[c].owner = Nobody => ~conn'[c].aborted
      BY ZenonT(60) DEF DInv, Work, Turn, Left
    <2> QED
      BY ZenonT(60), <2>1, <2>2 DEF Work, Carries, Sqlite, Toks, Facts, Whole, Ctr
  <1>3. Leaks'
    <2> SUFFICES ASSUME NEW c \in leaked'
                 PROVE  /\ conn'[c].stack # <<>>
                        /\ conn'[c].owner # Nobody
                             => Len(conn'[c].stack) > Levels(sess'[conn'[c].owner])
      BY ZenonT(60) DEF Leaks, Levels
    <2>1. CASE c = e
      BY ZenonT(60), <2>1 DEF Left
    <2>2. CASE c # e
      <3>1. c \in leaked /\ c \in Conns /\ conn'[c] = conn[c]
        BY ZenonT(60), <2>2 DEF Turn, IInv, TypeOK
      <3>2. conn[c].owner \in Sessions => conn[c].owner # s
        BY ZenonT(60), <2>2, <3>1, NobodyElse DEF Turn, IInv, Owned
      <3>3. conn[c].owner \in Sessions \cup {Nobody}
        BY ZenonT(60), <3>1, ConnType
      <3> QED
        BY ZenonT(60), <3>1, <3>2, <3>3 DEF DInv, Leaks, Turn
    <2> QED
      BY <2>1, <2>2, Zenon
  <1> QED
    BY ZenonT(60), <1>1, <1>2, <1>3 DEF DInv, Sound
----------------------------------------------------------------------------
(***************************************************************************)
(* The steps that write nothing and leave the connections as they are.     *)
(***************************************************************************)
\* The session changes, and perhaps takes the lock.
LEMMA QuietKeeps ==
    ASSUME IInv, DInv, NEW s \in Sessions, NEW k, sess' = [sess EXCEPT ![s] = k], conn' = conn,
           k.conn = sess[s].conn, UNCHANGED <<db, acked, undone, loose, leaked>>,
           lock' = lock \/ Free(k.conn),
           k.conn # Nobody => Levels(k) = Levels(sess[s]),
           Sound(k),
           k.conn # Nobody /\ k.conn \notin leaked => Carries(k, conn[k.conn], db, lock', loose),
           nextTok' \in Nat, nextTok <= nextTok',
           \A t \in Holds(k) : t \in Holds(sess[s]) \/ (t = nextTok /\ t < nextTok')
    PROVE  DInv'
  <1> DEFINE e == sess[s].conn
  <1>1. sess'[s] = k /\ \A r \in Sessions \ {s} : sess'[r] = sess[r]
    BY ZenonT(60) DEF IInv, TypeOK
  <1>7. db' = db /\ undone' = undone /\ loose' = loose /\ leaked' = leaked /\ acked' = acked
    BY ZenonT(60)
  <1>8. lock' = lock \/ lock \in {Nobody, e}
    BY ZenonT(60) DEF Free
  <1>2. Turn(s, e)
    BY <1>1, <1>7, <1>8, Zenon DEF Turn
  <1>3. Carried(s) /\ Sound(sess'[s])
    BY ZenonT(60), <1>1, <1>7 DEF Carried
  <1>4. Left(e)
    <2>1. e \in Conns => conn[e].owner = s
      BY ZenonT(60), HasConn, NobodyElse
    <2>2. e \in leaked => e \in Conns
      BY ZenonT(60) DEF IInv, TypeOK
    <2> QED
      BY ZenonT(60), <1>1, <2>1, <2>2, NobodyElse DEF Left, DInv, Leaks
  <1>5. Tokens'
    <2>1. Tokens /\ {} \in SUBSET Nat
      BY ZenonT(60) DEF DInv
    <2>2. /\ Toks(db') \subseteq Toks(db) \cup {} /\ undone' \subseteq undone \cup {}
          /\ {} \subseteq Holds(sess[s]) /\ {} \cap {} = {} /\ Holds(sess'[s]) \cap ({} \cup {}) = {}
      BY <1>7, Zenon
    <2> QED
      BY ZenonT(60), <1>1, <2>1, <2>2, TokensKeep
  <1>6. Kept'
    BY ZenonT(60) DEF DInv, Kept, Facts, Whole
  <1> QED
    BY ZenonT(60), <1>2, <1>3, <1>4, <1>5, <1>6, TurnKeeps

\* A session that has less in flight carries what it carried.
LEMMA CarriesLess ==
    ASSUME NEW j, NEW k, NEW x, NEW F, NEW lk, NEW lm, NEW ls, Carries(j, x, F, lk, ls),
           j.pc # "tag", k.pc \notin {"tag", "commit"},
           k.conn = j.conn, k.txn = j.txn, k.failed = j.failed, k.wrote = j.wrote, k.done = j.done,
           k.seen = j.seen,
           k.st = "active" /\ k.txn /\ (Sqlite \/ k.key = "active") => lm = k.conn,
           lk = k.conn => lm = k.conn
    PROVE  Carries(k, x, F, lm, ls)
  BY ZenonT(60) DEF Carries

LEMMA FreeRecord ==
    /\ FreeSession.st = "free" /\ FreeSession.key = "pending" /\ FreeSession.pc = "idle"
    /\ FreeSession.conn = Nobody /\ FreeSession.depth = 0 /\ FreeSession.op = "fetch"
    /\ FreeSession.seen = {} /\ FreeSession.done = {} /\ FreeSession.wrote = {}
    /\ ~FreeSession.own /\ ~FreeSession.txn /\ ~FreeSession.failed
    /\ FreeSession \in Session
  BY ZenonT(60), FreeFields DEF FreeSession

LEMMA NewSessionDurable ==
    ASSUME IInv, DInv, NEW s \in Sessions, NEW txn \in BOOLEAN, NewSession(s, txn)
    PROVE  DInv'
  <1> DEFINE k == [FreeSession EXCEPT !.st = "pending", !.txn = txn]
  <1>1. /\ sess' = [sess EXCEPT ![s] = k] /\ conn' = conn /\ lock' = lock /\ nextTok' = nextTok
        /\ UNCHANGED <<db, acked, undone, loose, leaked>> /\ sess[s].st = "free"
    BY ZenonT(60) DEF NewSession
  <1>2. sess[s].conn = Nobody
    BY ZenonT(60), <1>1, SessType DEF Placed
  <1>3. /\ k.st = "pending" /\ k.key = "pending" /\ k.pc = "idle" /\ k.conn = Nobody /\ k.depth = 0
        /\ k.op = "fetch" /\ k.seen = {} /\ k.done = {} /\ k.wrote = {} /\ k.own = FreeSession.own
    BY ZenonT(60), FreeRecord DEF Session
  <1> HIDE DEF k
  <1>4. Sound(k) /\ Holds(k) = {}
    BY ZenonT(60), <1>3, FreeRecord DEF Sound, Holds
  <1>5. nextTok \in Nat /\ nextTok <= nextTok
    BY SMTT(60) DEF IInv, TypeOK
  <1> QED
    BY ZenonT(60), <1>1, <1>2, <1>3, <1>4, <1>5, QuietKeeps

\* What the invariant says of a session.
LEMMA SessDurable ==
    ASSUME IInv, DInv, NEW s \in Sessions
    PROVE  /\ Sound(sess[s])
           /\ sess[s].conn # Nobody /\ sess[s].conn \notin leaked
                => Carries(sess[s], conn[sess[s].conn], db, lock, loose)
           /\ nextTok \in Nat /\ nextTok <= nextTok
           /\ sess[s].txn \in BOOLEAN /\ sess[s].own \in BOOLEAN /\ sess[s].failed \in BOOLEAN
  <1>1. nextTok \in Nat /\ nextTok <= nextTok
    BY SMTT(60) DEF IInv, TypeOK
  <1>2. sess[s].txn \in BOOLEAN /\ sess[s].own \in BOOLEAN /\ sess[s].failed \in BOOLEAN
    BY ZenonT(60), SessType DEF Session
  <1> QED
    BY ZenonT(60), <1>1, <1>2 DEF DInv, Work

LEMMA CallDurable ==
    ASSUME IInv, DInv, NEW s \in Sessions, NEW op \in Kinds, Call(s, op)
    PROVE  DInv'
  <1> DEFINE t == IF op = "fetch" THEN 0 ELSE nextTok
             pc == IF sess[s].st = "pending" THEN "acquire"
                   ELSE IF sess[s].key # "active" THEN "resolve" ELSE "ready"
             k == [sess[s] EXCEPT !.op = op, !.tok = t, !.pc = pc]
  <1>1. /\ sess' = [sess EXCEPT ![s] = k] /\ conn' = conn /\ lock' = lock
        /\ UNCHANGED <<db, acked, undone, loose, leaked>>
        /\ sess[s].st # "free" /\ sess[s].pc = "idle" /\ (op = "bump" => sess[s].seen # {})
        /\ op \in {"fetch", "bump"} => sess[s].txn
        /\ nextTok' = IF op = "fetch" THEN nextTok ELSE nextTok + 1
    BY ZenonT(60) DEF Call
  <1>2. /\ t \in Nat /\ pc \in {"acquire", "resolve", "ready"} /\ (op # "fetch" => t = nextTok)
        /\ nextTok' \in Nat /\ nextTok <= nextTok' /\ (op # "fetch" => t < nextTok')
    BY SMTT(60), <1>1 DEF IInv, TypeOK
  <1>3. (pc = "ready" => sess[s].key = "active") /\ (pc = "resolve" => sess[s].key # "active")
    BY ZenonT(60)
  <1> HIDE DEF t, pc
  <1>4. /\ k.st = sess[s].st /\ k.key = sess[s].key /\ k.conn = sess[s].conn
        /\ k.depth = sess[s].depth /\ k.txn = sess[s].txn /\ k.own = sess[s].own
        /\ k.seen = sess[s].seen /\ k.done = sess[s].done /\ k.wrote = sess[s].wrote
        /\ k.failed = sess[s].failed /\ k.pc = pc /\ k.op = op /\ k.tok = t
    BY ZenonT(60), SessType DEF Session
  <1> HIDE DEF k
  <1>5. ~sess[s].own
    BY ZenonT(60), <1>1, SessType DEF Placed
  <1>6. Sound(k)
    BY ZenonT(60), <1>1, <1>2, <1>3, <1>4, <1>5, SessDurable DEF Sound
  <1>7. k.conn # Nobody /\ k.conn \notin leaked => Carries(k, conn[k.conn], db, lock', loose)
    BY ZenonT(60), <1>1, <1>2, <1>4, SessDurable, CarriesLess DEF Carries
  <1>8. k.conn # Nobody => Levels(k) = Levels(sess[s])
    BY ZenonT(60), <1>1, <1>2, <1>4 DEF Levels
  <1>9. \A u \in Holds(k) : u \in Holds(sess[s]) \/ (u = nextTok /\ u < nextTok')
    BY ZenonT(60), <1>2, <1>4 DEF Holds
  <1> QED
    BY ZenonT(60), <1>1, <1>2, <1>4, <1>6, <1>7, <1>8, <1>9, QuietKeeps

LEMMA EndedRecord ==
    ASSUME IInv, NEW s \in Sessions
    PROVE  /\ Ended(s) \in Session
           /\ Ended(s).st = sess[s].st /\ Ended(s).key = sess[s].key /\ Ended(s).conn = sess[s].conn
           /\ Ended(s).depth = sess[s].depth /\ Ended(s).txn = sess[s].txn /\ Ended(s).tok = sess[s].tok
           /\ Ended(s).seen = sess[s].seen /\ Ended(s).done = sess[s].done
           /\ Ended(s).wrote = sess[s].wrote /\ Ended(s).failed = sess[s].failed
           /\ Ended(s).pc = "idle" /\ Ended(s).op = sess[s].op /\ ~Ended(s).own
  BY ZenonT(60), SessType DEF Ended, Session

LEMMA AcquireTimeoutDurable ==
    ASSUME IInv, DInv, NEW s \in Sessions, AcquireTimeout(s)
    PROVE  DInv'
  <1>1. /\ sess' = [sess EXCEPT ![s] = Ended(s)] /\ conn' = conn /\ lock' = lock /\ nextTok' = nextTok
        /\ UNCHANGED <<db, acked, undone, loose, leaked>> /\ sess[s].pc = "acquire"
    BY ZenonT(60) DEF AcquireTimeout
  <1>2. sess[s].conn = Nobody /\ sess[s].st = "pending"
    BY ZenonT(60), <1>1, SessType DEF Placed, Session
  <1>3. Sound(Ended(s)) /\ Holds(Ended(s)) \subseteq Holds(sess[s])
    <2>1. Sound(Ended(s))
      BY ZenonT(60), <1>1, <1>2, EndedRecord, SessDurable DEF Sound
    <2> QED
      BY ZenonT(60), <1>1, <2>1, EndedRecord DEF Holds
  <1> QED
    BY ZenonT(60), <1>1, <1>2, <1>3, EndedRecord, SessDurable, QuietKeeps

LEMMA BeginWritesDurable ==
    ASSUME IInv, DInv, NEW s \in Sessions, BeginWrites(s)
    PROVE  DInv'
  <1> DEFINE k == [sess[s] EXCEPT !.st = "active", !.depth = 1, !.pc = "resolve"]
  <1>1. /\ sess' = [sess EXCEPT ![s] = k] /\ conn' = conn /\ lock' = sess[s].conn /\ Free(sess[s].conn)
        /\ nextTok' = nextTok
        /\ UNCHANGED <<db, acked, undone, loose, leaked>> /\ sess[s].pc = "begin"
    BY ZenonT(60) DEF BeginWrites
  <1>2. /\ sess[s].conn # Nobody /\ sess[s].st = "pending" /\ sess[s].depth = 0 /\ ~sess[s].own
    BY ZenonT(60), <1>1, SessType DEF Placed, Session
  <1>3. /\ k.st = "active" /\ k.key = sess[s].key /\ k.conn = sess[s].conn
        /\ k.depth = 1 /\ k.txn = sess[s].txn /\ k.own = sess[s].own
        /\ k.seen = sess[s].seen /\ k.done = sess[s].done /\ k.wrote = sess[s].wrote
        /\ k.failed = sess[s].failed /\ k.pc = "resolve" /\ k.op = sess[s].op /\ k.tok = sess[s].tok
    BY ZenonT(60), SessType DEF Session
  <1> HIDE DEF k
  <1>4. Sound(k) /\ Holds(k) \subseteq Holds(sess[s])
    <2>1. Sound(k)
      BY ZenonT(60), <1>1, <1>2, <1>3, SessDurable DEF Sound
    <2> QED
      BY ZenonT(60), <1>1, <1>2, <1>3, <2>1 DEF Holds
  <1>5. k.conn # Nobody /\ k.conn \notin leaked => Carries(k, conn[k.conn], db, lock', loose)
    BY ZenonT(60), <1>1, <1>3, SessDurable, CarriesLess
  <1>6. Levels(k) = Levels(sess[s])
    BY ZenonT(60), <1>1, <1>2, <1>3 DEF Levels
  <1> QED
    BY ZenonT(60), <1>1, <1>3, <1>4, <1>5, <1>6, SessDurable, QuietKeeps

LEMMA ResolveDurable ==
    ASSUME IInv, DInv, NEW s \in Sessions, Resolve(s)
    PROVE  DInv'
  <1> DEFINE k == [sess[s] EXCEPT !.key = "active", !.pc = "ready"]
  <1>1. /\ sess' = [sess EXCEPT ![s] = k] /\ conn' = conn /\ nextTok' = nextTok
        /\ LocksRow(s) => Free(sess[s].conn) /\ lock' = sess[s].conn
        /\ ~LocksRow(s) => lock' = lock
        /\ UNCHANGED <<db, acked, undone, loose, leaked>> /\ sess[s].pc = "resolve"
    BY ZenonT(60) DEF Resolve
  <1>2. sess[s].conn # Nobody /\ sess[s].st = "active" /\ ~sess[s].own
    BY ZenonT(60), <1>1, SessType DEF Placed, Session
  <1>3. /\ k.st = "active" /\ k.key = "active" /\ k.conn = sess[s].conn
        /\ k.depth = sess[s].depth /\ k.txn = sess[s].txn /\ k.own = sess[s].own
        /\ k.seen = sess[s].seen /\ k.done = sess[s].done /\ k.wrote = sess[s].wrote
        /\ k.failed = sess[s].failed /\ k.pc = "ready" /\ k.op = sess[s].op /\ k.tok = sess[s].tok
    BY ZenonT(60), <1>2, SessType DEF Session
  <1> HIDE DEF k
  <1>4. Sound(k) /\ Holds(k) \subseteq Holds(sess[s])
    <2>1. Sound(k)
      BY ZenonT(60), <1>1, <1>2, <1>3, SessDurable DEF Sound
    <2> QED
      BY ZenonT(60), <1>1, <1>2, <1>3, <2>1 DEF Holds
  <1>5. k.conn # Nobody /\ k.conn \notin leaked => Carries(k, conn[k.conn], db, lock', loose)
    <2>1. k.txn /\ ~Sqlite => LocksRow(s)
      <3>1. k.txn => sess[s].depth = 1
        BY ZenonT(60), <1>2, <1>3, SessDurable DEF Sound
      <3> QED
        BY SMTT(60), <3>1 DEF LocksRow
    <2>2. k.conn # Nobody /\ k.conn \notin leaked /\ k.txn /\ Sqlite => lock = k.conn
      BY ZenonT(60), <1>2, <1>3, SessDurable DEF Carries
    <2>3. Sqlite => ~LocksRow(s)
      BY ZenonT(60) DEF LocksRow
    <2>4. lock = k.conn => lock' = k.conn
      BY ZenonT(60), <1>1, <1>3
    <2> QED
      BY ZenonT(60), <1>1, <1>2, <1>3, <2>1, <2>2, <2>3, <2>4, SessDurable, CarriesLess
  <1>6. Levels(k) = Levels(sess[s])
    BY ZenonT(60), <1>1, <1>3 DEF Levels
  <1> QED
    BY ZenonT(60), <1>1, <1>3, <1>4, <1>5, <1>6, SessDurable, QuietKeeps

LEMMA ResolveFailsDurable ==
    ASSUME IInv, DInv, NEW s \in Sessions, ResolveFails(s)
    PROVE  DInv'
  <1> DEFINE k == [Ended(s) EXCEPT !.key = "lost"]
  <1>1. /\ sess' = [sess EXCEPT ![s] = k] /\ conn' = conn /\ lock' = lock /\ nextTok' = nextTok
        /\ UNCHANGED <<db, acked, undone, loose, leaked>> /\ sess[s].pc = "resolve"
    BY ZenonT(60) DEF ResolveFails
  <1>2. sess[s].st = "active" /\ ~sess[s].own
    BY ZenonT(60), <1>1, SessType DEF Placed, Session
  <1>3. /\ k.st = sess[s].st /\ k.key = "lost" /\ k.conn = sess[s].conn
        /\ k.depth = sess[s].depth /\ k.txn = sess[s].txn /\ k.own = Ended(s).own
        /\ k.seen = sess[s].seen /\ k.done = sess[s].done /\ k.wrote = sess[s].wrote
        /\ k.failed = sess[s].failed /\ k.pc = "idle"
    BY ZenonT(60), EndedRecord DEF Session
  <1> HIDE DEF k
  <1>4. Sound(k) /\ Holds(k) \subseteq Holds(sess[s])
    <2>1. Sound(k)
      <3>1. ~k.own /\ sess[s].key # "active" /\ Sound(sess[s])
        BY ZenonT(60), <1>1, <1>3, SessDurable, EndedRecord DEF Sound
      <3>2. sess[s].seen = {}
        BY ZenonT(60), <3>1 DEF Sound
      <3> QED
        BY ZenonT(60), <1>2, <1>3, <3>1, <3>2 DEF Sound
    <2> QED
      BY ZenonT(60), <1>1, <1>2, <1>3, <2>1 DEF Holds
  <1>5. k.conn # Nobody /\ k.conn \notin leaked => Carries(k, conn[k.conn], db, lock', loose)
    <2>1. k.conn # Nobody /\ k.conn \notin leaked /\ k.txn /\ Sqlite => lock = k.conn
      BY ZenonT(60), <1>2, <1>3, SessDurable DEF Carries
    <2> QED
      BY ZenonT(60), <1>1, <1>3, <2>1, SessDurable, CarriesLess
  <1>6. Levels(k) = Levels(sess[s])
    BY ZenonT(60), <1>1, <1>3 DEF Levels
  <1> QED
    BY ZenonT(60), <1>1, <1>3, <1>4, <1>5, <1>6, SessDurable, QuietKeeps

\* A session has at most one transaction open on its connection; its work is there, on top
\* of what is committed.
LEMMA TopOne ==
    ASSUME IInv, DInv, NEW s \in Sessions, sess[s].conn # Nobody, sess[s].conn \notin leaked,
           InTxn(sess[s].conn)
    PROVE  LET c == sess[s].conn IN
           /\ Len(conn[c].stack) = 1 /\ Top(c) = conn[c].stack[1] /\ conn[c].stack[1] \in Delta
           /\ View(c) = db \cup conn[c].stack[1].add
  <1> DEFINE c == sess[s].conn
  <1>1. c \in Conns /\ Len(conn[c].stack) = Levels(sess[s]) /\ conn[c].stack # <<>>
    BY HasConn, Zenon DEF InTxn
  <1>2. conn[c].stack \in Seq(Delta)
    BY <1>1, ConnType, Zenon
  <1>3. Levels(sess[s]) \in {0, 1}
    BY ZenonT(60), SessType DEF Levels, Placed
  <1>4. Len(conn[c].stack) = 1 /\ Top(c) = conn[c].stack[1] /\ conn[c].stack[1] \in Delta
    BY SMTT(60), <1>1, <1>2, <1>3 DEF Top, InTxn
  <1>5. conn[c].stack[1].del = {}
    BY ZenonT(60), <1>1, SessDurable DEF Carries
  <1>6. View(c) = db \cup conn[c].stack[1].add
    BY ZenonT(60), <1>4, <1>5 DEF View
  <1> QED
    BY ZenonT(60), <1>4, <1>6

LEMMA FetchDurable ==
    ASSUME IInv, DInv, NEW s \in Sessions, Fetch(s)
    PROVE  DInv'
  <1> DEFINE c == sess[s].conn
             v == {f \in View(c) : f.kind = "ctr"}
             k == [Ended(s) EXCEPT !.seen = v]
  <1>1. /\ sess' = [sess EXCEPT ![s] = k] /\ conn' = conn /\ lock' = lock /\ nextTok' = nextTok
        /\ UNCHANGED <<db, acked, undone, loose, leaked>> /\ sess[s].pc = "ready" /\ sess[s].op = "fetch"
    BY ZenonT(60) DEF Fetch
  <1>2. c # Nobody /\ sess[s].st = "active" /\ ~sess[s].own /\ sess[s].txn /\ sess[s].key = "active"
    BY ZenonT(60), <1>1, SessType, SessDurable DEF Placed, Session, Sound
  <1>3. v = Ctr(View(c))
    BY ZenonT(60) DEF Ctr
  <1> HIDE DEF v
  <1>4. /\ k.st = sess[s].st /\ k.key = sess[s].key /\ k.conn = sess[s].conn
        /\ k.depth = sess[s].depth /\ k.txn = sess[s].txn /\ k.own = Ended(s).own
        /\ k.seen = v /\ k.done = sess[s].done /\ k.wrote = sess[s].wrote
        /\ k.failed = sess[s].failed /\ k.pc = "idle"
    BY ZenonT(60), EndedRecord DEF Session
  <1> HIDE DEF k
  <1>5. Sound(k) /\ Holds(k) \subseteq Holds(sess[s])
    BY ZenonT(60), <1>1, <1>2, <1>4, SessDurable, EndedRecord DEF Sound, Holds
  <1>6. c \notin leaked => Carries(k, conn[c], db, lock', loose)
    <2> SUFFICES ASSUME c \notin leaked PROVE Carries(k, conn[c], db, lock, loose)
      BY ZenonT(60), <1>1
    <2>1. Carries(sess[s], conn[c], db, lock, loose)
      BY ZenonT(60), <1>2, SessDurable
    <2>2. conn[c].stack # <<>> => v = Ctr(db \cup conn[c].stack[1].add)
      BY ZenonT(60), <1>2, <1>3, TopOne DEF InTxn
    <2> QED
      BY ZenonT(60), <1>1, <1>4, <2>1, <2>2 DEF Carries
  <1>7. Levels(k) = Levels(sess[s])
    BY ZenonT(60), <1>1, <1>4 DEF Levels
  <1> QED
    BY ZenonT(60), <1>1, <1>4, <1>5, <1>6, <1>7, SessDurable, QuietKeeps

LEMMA OpBeginWritesDurable ==
    ASSUME IInv, DInv, NEW s \in Sessions, OpBeginWrites(s)
    PROVE  DInv'
  <1> DEFINE k == [sess[s] EXCEPT !.pc = "row", !.own = TRUE, !.depth = 1]
  <1>1. /\ sess' = [sess EXCEPT ![s] = k] /\ conn' = conn /\ lock' = sess[s].conn /\ Free(sess[s].conn)
        /\ nextTok' = nextTok
        /\ UNCHANGED <<db, acked, undone, loose, leaked>> /\ sess[s].pc = "opbegin"
    BY ZenonT(60) DEF OpBeginWrites
  <1>2. sess[s].conn # Nobody /\ sess[s].st = "active" /\ sess[s].depth = 0 /\ ~sess[s].own
    BY ZenonT(60), <1>1, SessType DEF Placed, Session
  <1>3. /\ k.st = sess[s].st /\ k.key = sess[s].key /\ k.conn = sess[s].conn
        /\ k.depth = 1 /\ k.txn = sess[s].txn /\ k.own = TRUE
        /\ k.seen = sess[s].seen /\ k.done = sess[s].done /\ k.wrote = sess[s].wrote
        /\ k.failed = sess[s].failed /\ k.pc = "row" /\ k.op = sess[s].op /\ k.tok = sess[s].tok
    BY ZenonT(60), SessType DEF Session
  <1> HIDE DEF k
  <1>4. sess[s].wrote = {} /\ ~sess[s].txn
    <2>1. sess[s].depth # 1
      BY SMTT(60), <1>2
    <2> QED
      BY ZenonT(60), <1>2, <2>1, SessDurable DEF Sound
  <1>5. Sound(k) /\ Holds(k) \subseteq Holds(sess[s])
    BY ZenonT(60), <1>1, <1>2, <1>3, <1>4, SessDurable DEF Sound, Holds
  <1>6. k.conn # Nobody /\ k.conn \notin leaked => Carries(k, conn[k.conn], db, lock', loose)
    BY ZenonT(60), <1>1, <1>3, SessDurable, CarriesLess
  <1>7. Levels(k) = Levels(sess[s])
    BY ZenonT(60), <1>1, <1>3 DEF Levels
  <1> QED
    BY ZenonT(60), <1>1, <1>3, <1>5, <1>6, <1>7, SessDurable, QuietKeeps
----------------------------------------------------------------------------
(***************************************************************************)
(* The steps that change a connection.                                     *)
(***************************************************************************)
LEMMA SwapKeeps ==
    ASSUME IInv, DInv, NEW s \in Sessions, NEW k, NEW e \in Conns, NEW x,
           sess' = [sess EXCEPT ![s] = k], conn' = [conn EXCEPT ![e] = x],
           e = sess[s].conn \/ (sess[s].conn = Nobody /\ conn[e].owner = Nobody),
           leaked \subseteq leaked', leaked' \subseteq leaked \cup {e}, loose \subseteq loose',
           lock' = lock \/ lock \in {Nobody, e}, Ctr(db') = Ctr(db) \/ lock = e,
           Sound(k), k.conn \in {Nobody, e}, x.owner = IF k.conn = e THEN s ELSE Nobody,
           e \notin leaked' /\ k.conn = e => Carries(k, x, db', lock', loose'),
           e \notin leaked' /\ k.conn # e => ~x.aborted,
           e \in leaked' => x.stack # <<>> /\ (k.conn = e => Len(x.stack) > Levels(k)),
           Tokens', Kept'
    PROVE  DInv'
  <1>1. /\ sess'[s] = k /\ conn'[e] = x
        /\ \A r \in Sessions \ {s} : sess'[r] = sess[r]
        /\ \A c \in Conns \ {e} : conn'[c] = conn[c]
    BY ZenonT(60) DEF IInv, TypeOK
  <1>2. Turn(s, e)
    BY ZenonT(60), <1>1 DEF Turn
  <1>3. Carried(s) /\ Sound(sess'[s])
    BY ZenonT(60), <1>1 DEF Carried
  <1>4. Left(e)
    <2>1. k.conn = e => x.owner = s /\ s # Nobody
      BY ZenonT(60), NobodyElse
    <2>2. k.conn # e => x.owner = Nobody
      BY ZenonT(60)
    <2>3. e \in Conns \ leaked' /\ x.owner = Nobody => ~x.aborted
      BY ZenonT(60), <2>1
    <2>4. e \in leaked' => x.stack # <<>> /\ (x.owner # Nobody => Len(x.stack) > Levels(sess'[x.owner]))
      BY ZenonT(60), <1>1, <2>1, <2>2
    <2> QED
      BY ZenonT(60), <1>1, <2>3, <2>4 DEF Left
  <1> QED
    BY ZenonT(60), <1>2, <1>3, <1>4, TurnKeeps

\* Nothing is written.
LEMMA NothingWritten ==
    ASSUME IInv, DInv, NEW s \in Sessions, NEW k, sess' = [sess EXCEPT ![s] = k],
           Holds(k) \subseteq Holds(sess[s]), db' = db, nextTok' = nextTok, undone' = undone,
           acked' = acked, loose \subseteq loose'
    PROVE  Tokens' /\ Kept'
  <1>1. sess'[s] = k /\ \A r \in Sessions \ {s} : sess'[r] = sess[r]
    BY ZenonT(60) DEF IInv, TypeOK
  <1>2. Tokens'
    <2>1. Tokens /\ {} \in SUBSET Nat
      BY ZenonT(60) DEF DInv
    <2>2. /\ Toks(db') \subseteq Toks(db) \cup {} /\ undone' \subseteq undone \cup {}
          /\ {} \subseteq Holds(sess[s]) /\ {} \cap {} = {} /\ Holds(sess'[s]) \cap ({} \cup {}) = {}
      BY Zenon
    <2> QED
      BY ZenonT(60), <1>1, <2>1, <2>2, SessDurable, TokensKeep
  <1>3. Kept'
    BY ZenonT(60) DEF DInv, Kept, Facts, Whole
  <1> QED
    BY ZenonT(60), <1>2, <1>3

\* A transaction has nothing in it at first.
LEMMA BegunStack ==
    ASSUME IInv, NEW c \in Conns
    PROVE  /\ Begun(c).stack # <<>> /\ Len(Begun(c).stack) = Len(conn[c].stack) + 1
           /\ conn[c].stack = <<>> => Begun(c).stack[1] = NoDelta
           /\ Begun(c).aborted = conn[c].aborted /\ Begun(c).owner = conn[c].owner /\ Begun(c) \in Conn
  <1> DEFINE t == Append(conn[c].stack, Top(c))
  <1>1. t # <<>> /\ Len(t) = Len(conn[c].stack) + 1
    BY SMTT(60), ConnType, TopType
  <1>2. conn[c].stack = <<>> => t[1] = NoDelta
    BY SMTT(60) DEF Top, InTxn
  <1>3. Begun(c) = [conn[c] EXCEPT !.stack = t]
    BY ZenonT(60) DEF Begun
  <1> HIDE DEF t
  <1>4. Begun(c).stack = t /\ Begun(c).aborted = conn[c].aborted
    BY ZenonT(60), <1>3, ConnType DEF Conn
  <1> QED
    BY ZenonT(60), <1>1, <1>2, <1>4, BegunConn

\* A transaction with nothing in it is in order.
LEMMA NothingCarried ==
    ASSUME NEW k, NEW x, NEW F, NEW lk, NEW ls, ~x.aborted, x.stack # <<>> => x.stack[1] = NoDelta,
           k.st = "active" /\ k.txn /\ (Sqlite \/ k.key = "active") => lk = k.conn,
           k.done = {}, k.seen = {}, k.pc \notin {"tag", "commit"}
    PROVE  Carries(k, x, F, lk, ls)
  <1>1. NoDelta.add = {} /\ NoDelta.del = {}
    BY ZenonT(60) DEF NoDelta
  <1>2. Toks({}) = {} /\ Ctr({}) = {} /\ \A t : Whole({}, ls, t)
    BY ZenonT(60) DEF Toks, Ctr, Whole
  <1> QED
    BY ZenonT(60), <1>1, <1>2 DEF Carries

\* A session that has no transaction has no work.
LEMMA Idle ==
    ASSUME IInv, DInv, NEW s \in Sessions, sess[s].depth = 0
    PROVE  /\ sess[s].wrote = {} /\ sess[s].done = {} /\ sess[s].seen = {} /\ ~sess[s].own
           /\ sess[s].st = "active" => ~sess[s].txn
  <1>1. sess[s].depth # 1
    BY SMTT(60)
  <1>2. sess[s].wrote = {} /\ (sess[s].st = "active" => ~sess[s].txn)
    BY ZenonT(60), <1>1, SessDurable DEF Sound
  <1>3. sess[s].done = {} /\ sess[s].seen = {}
    BY ZenonT(60), <1>2, SessDurable DEF Sound
  <1>4. ~sess[s].own
    BY ZenonT(60), <1>1, SessType DEF Placed
  <1> QED
    BY ZenonT(60), <1>2, <1>3, <1>4

LEMMA AcquireDurable ==
    ASSUME IInv, DInv, NEW s \in Sessions, Acquire(s)
    PROVE  DInv'
  <1>1. PICK c \in Conns :
          /\ conn[c].owner = Nobody
          /\ conn' = [conn EXCEPT ![c] = [(IF sess[s].txn THEN Begun(c) ELSE @) EXCEPT !.owner = s]]
          /\ sess' = [sess EXCEPT ![s] =
                        IF sess[s].txn /\ Sqlite
                        THEN [@ EXCEPT !.conn = c, !.pc = "begin"]
                        ELSE [@ EXCEPT !.conn = c, !.st = "active", !.pc = "resolve",
                                       !.depth = IF sess[s].txn THEN 1 ELSE 0]]
    BY ZenonT(60) DEF Acquire
  <1> DEFINE y == IF sess[s].txn THEN Begun(c) ELSE conn[c]
             x == [y EXCEPT !.owner = s]
             n == IF sess[s].txn THEN 1 ELSE 0
             k == IF sess[s].txn /\ Sqlite
                  THEN [sess[s] EXCEPT !.conn = c, !.pc = "begin"]
                  ELSE [sess[s] EXCEPT !.conn = c, !.st = "active", !.pc = "resolve", !.depth = n]
  <1>2. /\ sess[s].pc = "acquire" /\ sess[s].st = "pending" /\ sess[s].depth = 0 /\ sess[s].conn = Nobody
        /\ sess[s].key # "active"
        /\ UNCHANGED <<db, lock, nextTok, acked, undone, loose, leaked>>
    BY ZenonT(60), SessType, SessDurable DEF Acquire, Placed, Session, Sound
  <1>3. /\ y \in Conn /\ y.aborted = conn[c].aborted
        /\ sess[s].txn => y.stack # <<>> /\ Len(y.stack) = Len(conn[c].stack) + 1
        /\ ~sess[s].txn => y.stack = conn[c].stack
        /\ conn[c].stack = <<>> /\ y.stack # <<>> => y.stack[1] = NoDelta
    BY ZenonT(60), ConnType, BegunStack
  <1>4. conn' = [conn EXCEPT ![c] = x] /\ sess' = [sess EXCEPT ![s] = k]
    BY ZenonT(60), <1>1
  <1> HIDE DEF y
  <1>5. x.owner = s /\ x.stack = y.stack /\ x.aborted = y.aborted
    BY ZenonT(60), <1>3 DEF Conn
  <1> HIDE DEF x
  <1>6. n \in {0, 1} /\ n \in Nat /\ (n = 1 <=> sess[s].txn)
    BY SMTT(60)
  <1> HIDE DEF n
  <1>7. /\ k.key = sess[s].key /\ k.conn = c /\ k.txn = sess[s].txn /\ k.own = sess[s].own
        /\ k.seen = sess[s].seen /\ k.done = sess[s].done /\ k.wrote = sess[s].wrote
        /\ k.op = sess[s].op /\ k.tok = sess[s].tok
        /\ IF sess[s].txn /\ Sqlite
           THEN k.st = "pending" /\ k.pc = "begin" /\ k.depth = 0
           ELSE k.st = "active" /\ k.pc = "resolve" /\ k.depth = n
    <2>1. CASE sess[s].txn /\ Sqlite
      BY ZenonT(60), <1>2, <2>1, SessType DEF Session
    <2>2. CASE ~(sess[s].txn /\ Sqlite)
      BY ZenonT(60), <1>2, <1>6, <2>2, SessType DEF Session
    <2> QED
      BY ZenonT(60), <2>1, <2>2
  <1> HIDE DEF k
  <1>8. sess[s].wrote = {} /\ sess[s].done = {} /\ sess[s].seen = {} /\ ~sess[s].own
    BY ZenonT(60), <1>2, Idle
  <1>9. Sound(k) /\ Holds(k) \subseteq Holds(sess[s])
    BY ZenonT(60), <1>2, <1>6, <1>7, <1>8, SessDurable DEF Sound, Holds
  <1>10. c \notin leaked => Carries(k, x, db, lock, loose)
    <2> SUFFICES ASSUME c \notin leaked PROVE Carries(k, x, db, lock, loose)
      BY Zenon
    <2>1. conn[c].stack = <<>> /\ ~conn[c].aborted
      BY ZenonT(60), <1>1 DEF IInv, Nested, DInv, Work
    <2>2. ~x.aborted /\ (x.stack # <<>> => x.stack[1] = NoDelta)
      BY ZenonT(60), <1>3, <1>5, <2>1
    <2>3. ~(k.st = "active" /\ k.txn /\ (Sqlite \/ k.key = "active"))
      BY ZenonT(60), <1>2, <1>7
    <2>4. k.pc \notin {"tag", "commit"}
      BY ZenonT(60), <1>7
    <2> QED
      BY ZenonT(60), <1>7, <1>8, <2>2, <2>3, <2>4, NothingCarried
  <1>11. c \in leaked => x.stack # <<>> /\ Len(x.stack) > Levels(k)
    <2> SUFFICES ASSUME c \in leaked PROVE x.stack # <<>> /\ Len(x.stack) > Levels(k)
      BY Zenon
    <2>1. conn[c].stack # <<>> /\ conn[c].stack \in Seq(Delta)
      BY ZenonT(60), ConnType DEF DInv, Leaks
    <2>2. Len(conn[c].stack) > 0 /\ Len(conn[c].stack) \in Nat
      BY SMTT(60), <2>1
    <2>3. Levels(k) = n
      BY ZenonT(60), <1>6, <1>7 DEF Levels
    <2>4. x.stack # <<>> /\ Len(x.stack) = Len(conn[c].stack) + n
      <3>1. CASE sess[s].txn
        BY <1>3, <1>5, <1>6, <3>1, Zenon
      <3>2. CASE ~sess[s].txn
        BY SMTT(60), <1>3, <1>5, <1>6, <2>1, <2>2, <3>2
      <3> QED
        BY <3>1, <3>2, Zenon
    <2> QED
      BY SMTT(60), <1>6, <2>2, <2>3, <2>4
  <1>13. /\ leaked' = leaked /\ loose' = loose /\ lock' = lock /\ db' = db
         /\ nextTok' = nextTok /\ undone' = undone /\ acked' = acked /\ loose \subseteq loose'
    BY ZenonT(60), <1>2
  <1>12. Tokens' /\ Kept'
    BY ZenonT(60), <1>4, <1>9, <1>13, NothingWritten
  <1> QED
    <2>1. /\ sess[s].conn = Nobody /\ conn[c].owner = Nobody /\ k.conn = c /\ x.owner = s
          /\ leaked \subseteq leaked' /\ leaked' \subseteq leaked \cup {c} /\ Ctr(db') = Ctr(db)
          /\ c \notin leaked' => Carries(k, x, db', lock', loose')
          /\ c \in leaked' => x.stack # <<>> /\ Len(x.stack) > Levels(k)
      BY ZenonT(60), <1>1, <1>2, <1>5, <1>7, <1>10, <1>11, <1>13
    <2>2. k.conn \in {Nobody, c} /\ x.owner = IF k.conn = c THEN s ELSE Nobody
      BY ZenonT(60), <2>1
    <2> QED
      BY ZenonT(60), <1>4, <1>9, <1>12, <1>13, <2>1, <2>2, SwapKeeps

\* The same when nothing is written and the lock stays where it is.
LEMMA SwapQuiet ==
    ASSUME IInv, DInv, NEW s \in Sessions, NEW k, NEW x, sess[s].conn \in Conns,
           sess' = [sess EXCEPT ![s] = k], conn' = [conn EXCEPT ![sess[s].conn] = x],
           db' = db, lock' = lock, nextTok' = nextTok, acked' = acked, undone' = undone, loose' = loose,
           leaked \subseteq leaked', leaked' \subseteq leaked \cup {sess[s].conn},
           Sound(k), Holds(k) \subseteq Holds(sess[s]),
           k.conn \in {Nobody, sess[s].conn}, x.owner = IF k.conn = sess[s].conn THEN s ELSE Nobody,
           sess[s].conn \notin leaked' => k.conn = sess[s].conn /\ Carries(k, x, db, lock, loose),
           sess[s].conn \in leaked'
             => x.stack # <<>> /\ (k.conn = sess[s].conn => Len(x.stack) > Levels(k))
    PROVE  DInv'
  <1>1. loose \subseteq loose' /\ Ctr(db') = Ctr(db)
    BY ZenonT(60)
  <1>2. Tokens' /\ Kept'
    BY ZenonT(60), <1>1, NothingWritten
  <1> DEFINE e == sess[s].conn
  <1>3. e = sess[s].conn
    BY Zenon
  <1>4. /\ e \notin leaked' /\ k.conn = e => Carries(k, x, db', lock', loose')
        /\ e \notin leaked' /\ k.conn # e => ~x.aborted
    BY ZenonT(60)
  <1> HIDE DEF e
  <1> QED
    BY ZenonT(60), <1>1, <1>2, <1>3, <1>4, SwapKeeps

LEMMA BeginFailsDurable ==
    ASSUME IInv, DInv, NEW s \in Sessions, BeginFails(s)
    PROVE  DInv'
  <1> DEFINE c == sess[s].conn
             x == [conn[c] EXCEPT !.owner = Nobody]
             k == [Ended(s) EXCEPT !.conn = Nobody]
  <1>1. /\ sess' = [sess EXCEPT ![s] = k] /\ conn' = [conn EXCEPT ![c] = x]
        /\ db' = db /\ lock' = lock /\ nextTok' = nextTok /\ acked' = acked /\ undone' = undone
        /\ loose' = loose /\ leaked' = leaked \cup {c} /\ sess[s].pc = "begin" /\ c \notin leaked
    BY ZenonT(60) DEF BeginFails, BeginGivesUp
  <1>2. c # Nobody /\ sess[s].st = "pending" /\ sess[s].depth = 0
    BY ZenonT(60), <1>1, SessType DEF Placed, Session
  <1>3. c \in Conns /\ Len(conn[c].stack) = 1 /\ conn[c] \in Conn /\ conn[c].stack \in Seq(Delta)
    BY ZenonT(60), <1>1, <1>2, HasConn, ConnType DEF Levels
  <1>4. x.owner = Nobody /\ x.stack = conn[c].stack
    BY ZenonT(60), <1>3 DEF Conn
  <1>5. x.stack # <<>>
    BY SMTT(60), <1>3, <1>4
  <1> HIDE DEF x
  <1>6. /\ k.st = sess[s].st /\ k.key = sess[s].key /\ k.conn = Nobody
        /\ k.depth = sess[s].depth /\ k.txn = sess[s].txn /\ k.own = Ended(s).own
        /\ k.seen = sess[s].seen /\ k.done = sess[s].done /\ k.wrote = sess[s].wrote
        /\ k.failed = sess[s].failed /\ k.pc = "idle"
    BY ZenonT(60), EndedRecord DEF Session
  <1> HIDE DEF k
  <1>7. Sound(k) /\ Holds(k) \subseteq Holds(sess[s])
    BY ZenonT(60), <1>1, <1>2, <1>6, SessDurable, EndedRecord DEF Sound, Holds
  <1>8. c # Nobody /\ c \in leaked' /\ leaked \subseteq leaked' /\ leaked' \subseteq leaked \cup {c}
    BY ZenonT(60), <1>1, <1>2
  <1>9. k.conn \in {Nobody, c} /\ x.owner = IF k.conn = c THEN s ELSE Nobody
    BY ZenonT(60), <1>4, <1>6, <1>8
  <1> QED
    BY ZenonT(60), <1>1, <1>3, <1>5, <1>6, <1>7, <1>8, <1>9, SwapQuiet

LEMMA OpBeginFailsDurable ==
    ASSUME IInv, DInv, NEW s \in Sessions, OpBeginFails(s)
    PROVE  DInv'
  <1> DEFINE c == sess[s].conn
             x == conn[c]
             k == Ended(s)
  <1>1. /\ sess' = [sess EXCEPT ![s] = k] /\ conn' = conn
        /\ db' = db /\ lock' = lock /\ nextTok' = nextTok /\ acked' = acked /\ undone' = undone
        /\ loose' = loose /\ leaked' = leaked \cup {c} /\ sess[s].pc = "opbegin" /\ c \notin leaked
    BY ZenonT(60) DEF OpBeginFails, BeginGivesUp
  <1>2. c # Nobody /\ sess[s].st = "active" /\ sess[s].depth = 0 /\ ~sess[s].own
    BY ZenonT(60), <1>1, SessType DEF Placed, Session
  <1>3. /\ c \in Conns /\ Len(conn[c].stack) = 1 /\ conn[c] \in Conn /\ conn[c].stack \in Seq(Delta)
        /\ conn[c].owner = s
    BY ZenonT(60), <1>1, <1>2, HasConn, ConnType DEF Levels
  <1>4. conn' = [conn EXCEPT ![c] = x]
    BY ZenonT(60), <1>1, <1>3 DEF IInv, TypeOK
  <1>5. Levels(k) = 0
    BY ZenonT(60), <1>2, EndedRecord DEF Levels
  <1>6. x.stack # <<>> /\ Len(x.stack) > Levels(k)
    <2>1. 1 > 0 /\ Len(<<>>) = 0 /\ 0 # 1
      BY SMTT(60)
    <2> QED
      BY ZenonT(60), <1>3, <1>5, <2>1
  <1>7. Sound(k) /\ Holds(k) \subseteq Holds(sess[s]) /\ k.conn = c
    <2>1. /\ k.st = "active" /\ k.key = sess[s].key /\ k.conn = c /\ k.depth = sess[s].depth
          /\ k.txn = sess[s].txn /\ ~k.own /\ k.seen = sess[s].seen /\ k.done = sess[s].done
          /\ k.wrote = sess[s].wrote /\ k.pc = "idle"
      BY ZenonT(60), <1>2, EndedRecord
    <2> HIDE DEF k
    <2>2. Sound(k)
      BY ZenonT(60), <1>2, <2>1, SessDurable DEF Sound
    <2> QED
      BY ZenonT(60), <2>1, <2>2 DEF Holds
  <1>8. c \in leaked' /\ leaked \subseteq leaked' /\ leaked' \subseteq leaked \cup {c}
    BY ZenonT(60), <1>1
  <1>9. k.conn \in {Nobody, c} /\ x.owner = IF k.conn = c THEN s ELSE Nobody
    BY ZenonT(60), <1>3, <1>7
  <1> HIDE DEF k, x
  <1> QED
    BY ZenonT(60), <1>1, <1>3, <1>4, <1>6, <1>7, <1>8, <1>9, SwapQuiet

LEMMA AsTransactionDurable ==
    ASSUME IInv, DInv, NEW s \in Sessions, AsTransaction(s)
    PROVE  DInv'
  <1> DEFINE c == sess[s].conn
  <1>1. /\ sess[s].pc = "ready" /\ sess[s].op \in {"insert", "bump"}
        /\ db' = db /\ lock' = lock /\ nextTok' = nextTok /\ acked' = acked /\ undone' = undone
        /\ loose' = loose /\ leaked' = leaked
    BY ZenonT(60) DEF AsTransaction
  <1>2. c # Nobody /\ sess[s].st = "active" /\ ~sess[s].own /\ sess[s].depth \in {0, 1}
    BY ZenonT(60), <1>1, SessType DEF Placed, Session
  <1>3. c \in Conns /\ conn[c].owner = s /\ (c \notin leaked => Len(conn[c].stack) = sess[s].depth)
    BY ZenonT(60), <1>1, <1>2, HasConn DEF Levels
  <1>4. CASE sess[s].depth = 1
    <2> DEFINE k == [sess[s] EXCEPT !.pc = "row", !.own = FALSE]
    <2>1. sess' = [sess EXCEPT ![s] = k] /\ conn' = conn
      BY SMTT(60), <1>4 DEF AsTransaction
    <2>2. /\ k.st = sess[s].st /\ k.key = sess[s].key /\ k.conn = sess[s].conn
          /\ k.depth = sess[s].depth /\ k.txn = sess[s].txn /\ k.own = FALSE
          /\ k.seen = sess[s].seen /\ k.done = sess[s].done /\ k.wrote = sess[s].wrote
          /\ k.failed = sess[s].failed /\ k.pc = "row" /\ k.op = sess[s].op /\ k.tok = sess[s].tok
      BY ZenonT(60), SessType DEF Session
    <2> HIDE DEF k
    <2>3. Sound(k) /\ Holds(k) \subseteq Holds(sess[s])
      BY ZenonT(60), <1>1, <1>2, <1>4, <2>2, SessDurable DEF Sound, Holds
    <2>4. k.conn # Nobody /\ k.conn \notin leaked => Carries(k, conn[k.conn], db, lock', loose)
      <3>1. k.conn # Nobody /\ k.conn \notin leaked /\ k.txn /\ (Sqlite \/ k.key = "active") => lock = k.conn
        BY ZenonT(60), <1>2, <2>2, SessDurable DEF Carries
      <3> QED
        BY ZenonT(60), <1>1, <2>2, <3>1, SessDurable, CarriesLess
    <2>5. Levels(k) = Levels(sess[s])
      BY ZenonT(60), <1>1, <2>2 DEF Levels
    <2> QED
      BY ZenonT(60), <1>1, <2>1, <2>2, <2>3, <2>4, <2>5, SessDurable, QuietKeeps
  <1>5. CASE sess[s].depth = 0
    <2> DEFINE x == Begun(c)
               k == IF Sqlite
                    THEN [sess[s] EXCEPT !.pc = "opbegin"]
                    ELSE [sess[s] EXCEPT !.pc = "row", !.own = TRUE, !.depth = 1]
    <2>1. sess' = [sess EXCEPT ![s] = k] /\ conn' = [conn EXCEPT ![c] = x]
      BY SMTT(60), <1>5 DEF AsTransaction
    <2>2. /\ k.st = sess[s].st /\ k.key = sess[s].key /\ k.conn = sess[s].conn /\ k.txn = sess[s].txn
          /\ k.seen = sess[s].seen /\ k.done = sess[s].done /\ k.wrote = sess[s].wrote
          /\ k.op = sess[s].op /\ k.tok = sess[s].tok
          /\ IF Sqlite THEN k.pc = "opbegin" /\ k.own = sess[s].own /\ k.depth = sess[s].depth
                       ELSE k.pc = "row" /\ k.own = TRUE /\ k.depth = 1
      BY ZenonT(60), SessType DEF Session
    <2> HIDE DEF k
    <2>3. sess[s].wrote = {} /\ sess[s].done = {} /\ sess[s].seen = {} /\ ~sess[s].txn
      BY ZenonT(60), <1>2, <1>5, Idle
    <2>4. Sound(k) /\ Holds(k) \subseteq Holds(sess[s])
      BY ZenonT(60), <1>1, <1>2, <1>5, <2>2, <2>3, SessDurable DEF Sound, Holds
    <2>5. /\ x.stack # <<>> /\ Len(x.stack) = Len(conn[c].stack) + 1 /\ x.owner = s
          /\ x.aborted = conn[c].aborted /\ (conn[c].stack = <<>> => x.stack[1] = NoDelta)
      BY ZenonT(60), <1>3, BegunStack
    <2> HIDE DEF x
    <2>6. c \notin leaked => k.conn = c /\ Carries(k, x, db, lock, loose)
      <3> SUFFICES ASSUME c \notin leaked PROVE Carries(k, x, db, lock, loose)
        BY ZenonT(60), <2>2
      <3>1. conn[c].stack = <<>>
        BY SMTT(60), <1>3, <1>5, ConnType
      <3>2. ~x.aborted
        BY ZenonT(60), <1>2, <2>3, <2>5, SessDurable DEF Carries
      <3>3. k.pc \notin {"tag", "commit"} /\ ~k.txn
        BY ZenonT(60), <2>2, <2>3
      <3> QED
        BY ZenonT(60), <2>2, <2>3, <2>5, <3>1, <3>2, <3>3, NothingCarried
    <2>7. c \in leaked => Len(x.stack) > Levels(k)
      <3>1. Levels(k) = 1
        BY ZenonT(60), <2>2 DEF Levels
      <3>2. c \in leaked => conn[c].stack # <<>> /\ conn[c].stack \in Seq(Delta)
        BY ZenonT(60), <1>3, ConnType DEF DInv, Leaks
      <3> QED
        BY SMTT(60), <2>5, <3>1, <3>2
    <2>8. /\ leaked \subseteq leaked' /\ leaked' \subseteq leaked \cup {c}
          /\ k.conn \in {Nobody, c} /\ x.owner = IF k.conn = c THEN s ELSE Nobody
      BY ZenonT(60), <1>1, <2>2, <2>5
    <2> QED
      BY ZenonT(60), <1>1, <1>3, <2>1, <2>4, <2>5, <2>6, <2>7, <2>8, SwapQuiet
  <1> QED
    BY ZenonT(60), <1>2, <1>4, <1>5
----------------------------------------------------------------------------
(***************************************************************************)
(* The statements that write.                                              *)
(***************************************************************************)
\* The connection c becomes x, its innermost transaction having more added and deleted.
Adds(c, x, add, del) ==
    /\ conn' = [conn EXCEPT ![c] = x]
    /\ x.owner = conn[c].owner /\ x.aborted = conn[c].aborted
    /\ x.stack # <<>> /\ Len(x.stack) = Len(conn[c].stack)
    /\ Len(conn[c].stack) = 1 =>
         /\ x.stack[1].add = (conn[c].stack[1].add \ del) \cup add
         /\ x.stack[1].del = (conn[c].stack[1].del \ add) \cup del

LEMMA WriteInside ==
    ASSUME IInv, NEW c \in Conns, InTxn(c), NEW add \in SUBSET Fact, NEW del \in SUBSET Fact,
           Write(c, add, del)
    PROVE  db' = db /\ \E x \in Conn : Adds(c, x, add, del)
  <1> DEFINE n == Len(conn[c].stack)
             t == conn[c].stack[n]
             u == [add |-> (t.add \ del) \cup add, del |-> (t.del \ add) \cup del]
             z == [conn[c].stack EXCEPT ![n] = u]
             x == [conn[c] EXCEPT !.stack = z]
  <1>1. conn[c].stack \in Seq(Delta) /\ n \in Nat /\ n # 0
    BY SMTT(60), ConnType DEF InTxn
  <1>2. t \in Delta
    BY SMTT(60), <1>1
  <1>3. u \in Delta /\ u.add = (t.add \ del) \cup add /\ u.del = (t.del \ add) \cup del
    BY ZenonT(60), <1>2 DEF Delta
  <1>4. conn \in [Conns -> Conn]
    BY ZenonT(60) DEF IInv, TypeOK
  <1>5. conn' = [conn EXCEPT ![c] = x] /\ db' = db
    BY <1>4, Zenon DEF Write
  <1> HIDE DEF u
  <1>6. z \in Seq(Delta) /\ Len(z) = n /\ z # <<>> /\ (n = 1 => z[1] = u)
    BY SMTT(60), <1>1, <1>3
  <1> HIDE DEF z
  <1>7. x \in Conn /\ x.owner = conn[c].owner /\ x.aborted = conn[c].aborted /\ x.stack = z
    BY ZenonT(60), <1>6, ConnType DEF Conn
  <1>8. n = 1 => x.stack[1].add = (conn[c].stack[1].add \ del) \cup add
                 /\ x.stack[1].del = (conn[c].stack[1].del \ add) \cup del
    BY ZenonT(60), <1>3, <1>6, <1>7
  <1> HIDE DEF x
  <1>9. Adds(c, x, add, del)
    BY ZenonT(60), <1>5, <1>6, <1>7, <1>8 DEF Adds
  <1> QED
    BY ZenonT(60), <1>5, <1>7, <1>9

\* A session with a transaction, on a connection that has been given up on or not, writes
\* to the transaction.
LEMMA InTransaction ==
    ASSUME IInv, DInv, NEW s \in Sessions, sess[s].conn # Nobody, sess[s].pc \notin {"begin", "opbegin"}
    PROVE  LET c == sess[s].conn IN
           /\ c \in Conns /\ conn[c].owner = s /\ conn[c] \in Conn /\ conn[c].stack \in Seq(Delta)
           /\ Len(conn[c].stack) \in Nat
           /\ c \notin leaked => Len(conn[c].stack) = sess[s].depth
                                 /\ Carries(sess[s], conn[c], db, lock, loose)
           /\ c \in leaked => Len(conn[c].stack) > sess[s].depth /\ InTxn(c)
           /\ sess[s].depth = 1 => InTxn(c)
  <1> DEFINE c == sess[s].conn
  <1>1. /\ c \in Conns /\ conn[c].owner = s /\ Levels(sess[s]) = sess[s].depth
        /\ c \notin leaked => Len(conn[c].stack) = Levels(sess[s])
    BY ZenonT(60), HasConn DEF Levels
  <1>2. conn[c] \in Conn /\ conn[c].stack \in Seq(Delta) /\ Len(conn[c].stack) \in Nat
    BY ZenonT(60), <1>1, ConnType
  <1>3. c \notin leaked => Carries(sess[s], conn[c], db, lock, loose)
    BY ZenonT(60), SessDurable
  <1>4. c \in leaked => Len(conn[c].stack) > sess[s].depth /\ InTxn(c)
    BY ZenonT(60), <1>1, NobodyElse DEF DInv, Leaks, InTxn
  <1>5. sess[s].depth = 1 => InTxn(c)
    <2>1. CASE c \in leaked
      BY ZenonT(60), <1>4, <2>1
    <2>2. CASE c \notin leaked
      <3>1. Len(conn[c].stack) = sess[s].depth
        BY ZenonT(60), <1>1, <2>2
      <3>2. Len(<<>>) = 0
        BY Zenon
      <3>3. 0 # 1
        BY SMTT(60)
      <3> QED
        BY ZenonT(60), <3>1, <3>2, <3>3 DEF InTxn
    <2> QED
      BY ZenonT(60), <2>1, <2>2
  <1> QED
    BY ZenonT(60), <1>1, <1>2, <1>3, <1>4, <1>5

LEMMA WholeAdds ==
    ASSUME NEW F \in SUBSET Fact, NEW G \in SUBSET Fact, NEW ls, NEW t, Whole(F, ls, t),
           \A g \in G : g.kind = "row" => [g EXCEPT !.kind = "tag"] \in F \cup G \/ g.tok \in ls \/ g.tok \in t
    PROVE  Whole(F \cup G, ls, t)
  BY ZenonT(60) DEF Whole

LEMMA FactFields ==
    ASSUME NEW t \in Nat, NEW k \in {"row", "tag", "ctr"}
    PROVE  LET f == [kind |-> k, tok |-> t]
           IN  /\ f \in Fact /\ {f} \in SUBSET Fact /\ f.kind = k /\ f.tok = t
               /\ Toks({f}) = {t} /\ [f EXCEPT !.kind = "tag"] = [kind |-> "tag", tok |-> t]
  <1> DEFINE f == [kind |-> k, tok |-> t]
  <1>1. f \in Fact /\ f.kind = k /\ f.tok = t
    BY ZenonT(60) DEF Fact
  <1>2. Toks({f}) = {t}
    BY ZenonT(60), <1>1 DEF Toks
  <1>3. [f EXCEPT !.kind = "tag"] = [kind |-> "tag", tok |-> t]
    BY SMTT(60)
  <1> QED
    BY ZenonT(60), <1>1, <1>2, <1>3

LEMMA ToksUnion == \A F, G : Toks(F \cup G) = Toks(F) \cup Toks(G)
  BY ZenonT(60) DEF Toks

LEMMA CtrUnion == \A F, G : Ctr(F \cup G) = Ctr(F) \cup Ctr(G)
  BY ZenonT(60) DEF Ctr

\* The session j adds the facts G to its transaction, becoming k, and its connection y.
More(j, k, x, y, G, lk, ls) ==
    /\ x.stack # <<>> /\ y.stack # <<>> /\ y.aborted = x.aborted
    /\ y.stack[1].add = x.stack[1].add \cup G /\ y.stack[1].del = {}
    /\ Toks(G) \subseteq k.wrote /\ j.wrote \subseteq k.wrote
    /\ k.conn = j.conn /\ k.txn = j.txn /\ k.failed = j.failed /\ k.st = j.st /\ k.key = j.key
    /\ k.seen = {} \/ (k.seen = j.seen /\ Ctr(G) = {})
    /\ \A o \in k.done : o \in j.done \/ Facts(o) \subseteq y.stack[1].add
    /\ k.pc = "commit" => Facts(k) \subseteq y.stack[1].add
    /\ k.pc = "tag" => [kind |-> "row", tok |-> k.tok] \in y.stack[1].add
    /\ Whole(y.stack[1].add, ls, IF k.pc = "tag" THEN {k.tok} ELSE {})
    /\ Ctr(G) # {} => lk = k.conn

\* What is known of the session once its transaction has more in it.
LEMMA CarriesMore ==
    ASSUME NEW j, NEW k, NEW x, NEW y, NEW F, NEW lk, NEW lm, NEW ls, NEW G,
           Carries(j, x, F, lk, ls), More(j, k, x, y, G, lk, ls), lk = k.conn => lm = k.conn
    PROVE  Carries(k, y, F, lm, ls)
  <1> USE DEF More
  <1> DEFINE a == x.stack[1].add
  <1>6. /\ Toks(a) \subseteq j.wrote /\ (Ctr(a) # {} => lk = j.conn)
        /\ j.seen # {} => j.seen = Ctr(F \cup a)
        /\ \A o \in j.done : Facts(o) \subseteq a
    BY ZenonT(60) DEF Carries
  <1> HIDE DEF a
  <1>1. Toks(a \cup G) \subseteq k.wrote
    <2>1. Toks(a \cup G) = Toks(a) \cup Toks(G)
      BY ZenonT(60), ToksUnion
    <2> QED
      BY ZenonT(60), <1>6, <2>1
  <1>2. Ctr(a \cup G) # {} => lm = k.conn
    <2>1. Ctr(a \cup G) = Ctr(a) \cup Ctr(G)
      BY ZenonT(60), CtrUnion
    <2> QED
      BY ZenonT(60), <1>6, <2>1
  <1>3. k.seen # {} => k.seen = Ctr(F \cup (a \cup G))
    <2>1. Ctr(F \cup (a \cup G)) = Ctr(F \cup a) \cup Ctr(G)
      BY ZenonT(60) DEF Ctr
    <2> QED
      BY ZenonT(60), <1>6, <2>1
  <1>4. \A o \in k.done : Facts(o) \subseteq a \cup G
    BY ZenonT(60), <1>6 DEF a
  <1>5. (y.aborted => k.failed /\ k.txn)
         /\ (k.st = "active" /\ k.txn /\ (Sqlite \/ k.key = "active") => lm = k.conn)
    BY ZenonT(60) DEF Carries
  <1> QED
    BY ZenonT(60), <1>1, <1>2, <1>3, <1>4, <1>5 DEF Carries, a

\* The session s becomes k, and adds the facts G to its transaction.
Puts(s, k, G) ==
    /\ sess' = [sess EXCEPT ![s] = k]
    /\ lock' = lock \/ (lock' = sess[s].conn /\ Free(sess[s].conn))
    /\ nextTok' = nextTok /\ acked' = acked /\ undone' = undone /\ loose' = loose /\ leaked' = leaked
    /\ Sound(k) /\ Holds(k) \subseteq Holds(sess[s]) /\ Levels(k) = 1
    /\ Toks(G) \subseteq k.wrote /\ sess[s].wrote \subseteq k.wrote
    /\ k.conn = sess[s].conn /\ k.txn = sess[s].txn /\ k.failed = sess[s].failed
    /\ k.st = sess[s].st /\ k.key = sess[s].key
    /\ k.seen = {} \/ (k.seen = sess[s].seen /\ Ctr(G) = {})
    /\ sess[s].conn \notin leaked =>
         LET a == conn[sess[s].conn].stack[1].add \cup G IN
         /\ \A o \in k.done : o \in sess[s].done \/ Facts(o) \subseteq a
         /\ k.pc = "commit" => Facts(k) \subseteq a
         /\ k.pc = "tag" => [kind |-> "row", tok |-> k.tok] \in a
         /\ Whole(a, loose, IF k.pc = "tag" THEN {k.tok} ELSE {})
         /\ Ctr(G) # {} => lock = k.conn

\* A statement inside of the transaction.
LEMMA WritesMore ==
    ASSUME IInv, DInv, NEW s \in Sessions, sess[s].conn # Nobody, sess[s].depth = 1,
           sess[s].pc \notin {"begin", "opbegin"},
           NEW G \in SUBSET Fact, NEW del \in SUBSET Fact, Write(sess[s].conn, G, del),
           sess[s].conn \notin leaked => del = {}, NEW k, Puts(s, k, G)
    PROVE  DInv'
  <1> USE DEF Puts
  <1> DEFINE c == sess[s].conn
  <1>1. /\ c \in Conns /\ conn[c].owner = s /\ conn[c] \in Conn /\ InTxn(c)
        /\ c \notin leaked => Len(conn[c].stack) = 1 /\ Carries(sess[s], conn[c], db, lock, loose)
        /\ c \in leaked => Len(conn[c].stack) > 1
    BY ZenonT(60), InTransaction
  <1>6. db' = db
    BY ZenonT(60), <1>1, WriteInside
  <1>7. PICK x \in Conn : Adds(c, x, G, del)
    BY ZenonT(60), <1>1, WriteInside
  <1>2. /\ conn' = [conn EXCEPT ![c] = x]
        /\ x.owner = conn[c].owner /\ x.aborted = conn[c].aborted
        /\ x.stack # <<>> /\ Len(x.stack) = Len(conn[c].stack)
        /\ Len(conn[c].stack) = 1 =>
             /\ x.stack[1].add = (conn[c].stack[1].add \ del) \cup G
             /\ x.stack[1].del = (conn[c].stack[1].del \ G) \cup del
    BY ZenonT(60), <1>7 DEF Adds
  <1>3. c \notin leaked => Carries(k, x, db, lock', loose)
    <2> SUFFICES ASSUME c \notin leaked PROVE Carries(k, x, db, lock', loose)
      BY Zenon
    <2>1. conn[c].stack # <<>> /\ conn[c].stack[1] \in Delta /\ conn[c].stack[1].del = {}
      BY ZenonT(60), <1>1, TopOne DEF InTxn, Carries
    <2>2. /\ conn[c].stack[1].add \in SUBSET Fact
          /\ x.stack[1].add = conn[c].stack[1].add \cup G /\ x.stack[1].del = {}
      BY ZenonT(60), <1>1, <1>2, <2>1 DEF Delta
    <2>3. lock = k.conn => lock' = k.conn
      BY ZenonT(60)
    <2>5. /\ \A o \in k.done : o \in sess[s].done \/ Facts(o) \subseteq x.stack[1].add
          /\ k.pc = "commit" => Facts(k) \subseteq x.stack[1].add
          /\ k.pc = "tag" => [kind |-> "row", tok |-> k.tok] \in x.stack[1].add
          /\ Whole(x.stack[1].add, loose, IF k.pc = "tag" THEN {k.tok} ELSE {})
          /\ Ctr(G) # {} => lock = k.conn
      BY ZenonT(60), <2>2
    <2>6. More(sess[s], k, conn[c], x, G, lock, loose)
      BY ZenonT(60), <1>1, <1>2, <2>1, <2>2, <2>5 DEF More
    <2> QED
      BY ZenonT(60), <1>1, <2>3, <2>6, CarriesMore
  <1>4. Tokens' /\ Kept'
    <2>1. loose \subseteq loose'
      BY ZenonT(60)
    <2> QED
      BY ZenonT(60), <1>6, <2>1, NothingWritten
  <1>5. /\ c = sess[s].conn /\ loose \subseteq loose' /\ Ctr(db') = Ctr(db) /\ leaked \subseteq leaked'
        /\ leaked' \subseteq leaked \cup {c} /\ (lock' = lock \/ lock \in {Nobody, c})
        /\ k.conn \in {Nobody, c} /\ x.owner = IF k.conn = c THEN s ELSE Nobody
        /\ c \notin leaked' /\ k.conn = c => Carries(k, x, db', lock', loose')
        /\ c \notin leaked' /\ k.conn # c => ~x.aborted
        /\ c \in leaked' => x.stack # <<>> /\ (k.conn = c => Len(x.stack) > Levels(k))
    BY ZenonT(60), <1>1, <1>2, <1>3, <1>6 DEF Free
  <1> HIDE DEF c
  <1> QED
    BY ZenonT(60), <1>1, <1>2, <1>4, <1>5, SwapKeeps

LEMMA WriteRowDurable ==
    ASSUME IInv, DInv, NEW s \in Sessions, WriteRow(s)
    PROVE  DInv'
  <1> DEFINE c == sess[s].conn
             t == sess[s].tok
             w == sess[s].wrote \cup {t}
             pc == IF sess[s].op = "insert" THEN "tag" ELSE "commit"
             k == [sess[s] EXCEPT !.wrote = w, !.seen = {}, !.pc = pc]
             ctr == {f \in View(c) : f.kind = "ctr"}
             G == IF sess[s].op = "insert" THEN {[kind |-> "row", tok |-> t]}
                                           ELSE {[kind |-> "ctr", tok |-> t]}
             del == IF sess[s].op = "insert" THEN {} ELSE ctr \ sess[s].seen
  <1>1. /\ sess[s].pc = "row" /\ sess[s].st = "active" /\ c # Nobody /\ t \in Nat
        /\ sess[s].key = "active" /\ sess[s].op \in {"insert", "bump"} /\ sess[s].depth = 1
    BY ZenonT(60), SessType, SessDurable DEF WriteRow, Placed, Session, Sound
  <1>2. /\ sess' = [sess EXCEPT ![s] = k] /\ Write(c, G, del)
        /\ lock' = lock /\ nextTok' = nextTok /\ acked' = acked /\ undone' = undone
        /\ loose' = loose /\ leaked' = leaked
    BY ZenonT(60) DEF WriteRow
  <1>3. /\ k.st = sess[s].st /\ k.key = sess[s].key /\ k.conn = sess[s].conn /\ k.txn = sess[s].txn
        /\ k.own = sess[s].own /\ k.depth = sess[s].depth /\ k.failed = sess[s].failed
        /\ k.done = sess[s].done /\ k.op = sess[s].op /\ k.tok = t
        /\ k.seen = {} /\ k.wrote = w
        /\ k.pc = pc
    BY ZenonT(60), SessType DEF Session
  <1>4. pc \in {"tag", "commit"} /\ (pc = "tag" <=> sess[s].op = "insert")
    BY ZenonT(60)
  <1>5. G \in SUBSET Fact /\ del \in SUBSET Fact /\ Toks(G) = {t}
    <2>1. View(c) \subseteq Fact
      BY ZenonT(60), <1>1, HasConn, TopType
    <2> QED
      BY ZenonT(60), <1>1, <2>1, FactFields
  <1>6. Sound(k) /\ Holds(k) \subseteq Holds(sess[s]) /\ Levels(k) = 1
    <2> HIDE DEF k, pc
    <2>1. Sound(k)
      BY ZenonT(60), <1>1, <1>3, <1>4, SessDurable DEF Sound
    <2>2. Holds(k) \subseteq Holds(sess[s])
      BY ZenonT(60), <1>1, <1>3, <1>4 DEF Holds
    <2>3. Levels(k) = 1
      BY ZenonT(60), <1>1, <1>3, <1>4 DEF Levels
    <2> QED
      BY ZenonT(60), <2>1, <2>2, <2>3
  <1>7. c \notin leaked =>
          /\ conn[c].stack # <<>> /\ conn[c].stack[1].add \in SUBSET Fact
          /\ Carries(sess[s], conn[c], db, lock, loose)
          /\ View(c) = db \cup conn[c].stack[1].add
    BY ZenonT(60), <1>1, InTransaction, TopOne DEF InTxn, Delta
  <1>8. sess[s].op = "bump" => sess[s].seen # {} /\ sess[s].txn
    BY ZenonT(60), <1>1, SessDurable DEF Sound
  <1>9. c \notin leaked => del = {}
    BY ZenonT(60), <1>1, <1>7, <1>8 DEF Carries, Ctr
  <1>10. c \notin leaked =>
           LET a == conn[c].stack[1].add \cup G IN
             /\ \A o \in k.done : o \in sess[s].done \/ Facts(o) \subseteq a
             /\ k.pc = "commit" => Facts(k) \subseteq a
             /\ k.pc = "tag" => [kind |-> "row", tok |-> k.tok] \in a
             /\ Whole(a, loose, IF k.pc = "tag" THEN {k.tok} ELSE {})
             /\ Ctr(G) # {} => lock = k.conn
    <2> HIDE DEF k, pc
    <2> SUFFICES ASSUME c \notin leaked
                 PROVE  LET a == conn[c].stack[1].add \cup G IN
                        /\ k.pc = "commit" => Facts(k) \subseteq a
                        /\ k.pc = "tag" => [kind |-> "row", tok |-> k.tok] \in a
                        /\ Whole(a, loose, IF k.pc = "tag" THEN {k.tok} ELSE {})
                        /\ Ctr(G) # {} => lock = k.conn
      BY ZenonT(60), <1>3
    <2>1. Whole(conn[c].stack[1].add, loose, {})
      BY ZenonT(60), <1>1, <1>7 DEF Carries
    <2>2. Whole(conn[c].stack[1].add, loose, {t})
      BY ZenonT(60), <2>1 DEF Whole
    <2>3. CASE sess[s].op = "insert"
      <3>1. G = {[kind |-> "row", tok |-> t]} /\ k.pc = "tag" /\ k.tok = t
        BY ZenonT(60), <1>3, <1>4, <2>3
      <3> HIDE DEF G
      <3>2. \A g \in G : g.tok \in {t} /\ g.kind = "row"
        BY SMTT(60), <3>1
      <3>3. Whole(conn[c].stack[1].add \cup G, loose, {t})
        BY ZenonT(60), <1>5, <1>7, <2>2, <3>2, WholeAdds
      <3>4. Ctr(G) = {} /\ "row" # "ctr"
        BY ZenonT(60), <3>2 DEF Ctr
      <3> QED
        BY ZenonT(60), <3>1, <3>3, <3>4
    <2>4. CASE sess[s].op = "bump"
      <3>1. G = {[kind |-> "ctr", tok |-> t]} /\ k.pc = "commit" /\ k.tok = t /\ k.op = "bump" /\ k.conn = c
        BY ZenonT(60), <1>3, <1>4, <2>4
      <3> HIDE DEF G
      <3>2. \A g \in G : g.kind = "ctr"
        BY SMTT(60), <3>1
      <3>3. Whole(conn[c].stack[1].add \cup G, loose, {})
        BY ZenonT(60), <1>5, <1>7, <2>1, <3>2, WholeAdds
      <3>4. Facts(k) = G
        BY ZenonT(60), <3>1 DEF Facts
      <3>5. lock = c
        BY ZenonT(60), <1>1, <1>7, <1>8, <2>4 DEF Carries
      <3> QED
        BY ZenonT(60), <3>1, <3>3, <3>4, <3>5
    <2> QED
      BY ZenonT(60), <1>1, <2>3, <2>4
  <1> HIDE DEF G, del
  <1>11. Puts(s, k, G)
    <2> HIDE DEF pc, w, k
    <2>1. {t} \subseteq w /\ sess[s].wrote \subseteq w
      BY ZenonT(60) DEF w
    <2> QED
      BY ZenonT(60), <1>2, <1>3, <1>5, <1>6, <1>10, <2>1 DEF Puts
  <1> HIDE DEF k
  <1> QED
    BY ZenonT(60), <1>1, <1>2, <1>5, <1>9, <1>11, WritesMore

LEMMA WriteTagsDurable ==
    ASSUME IInv, DInv, NEW s \in Sessions, WriteTags(s)
    PROVE  DInv'
  <1> DEFINE c == sess[s].conn
             t == sess[s].tok
             k == [sess[s] EXCEPT !.pc = "commit"]
             G == {[kind |-> "tag", tok |-> t]}
  <1>1. /\ sess[s].pc = "tag" /\ sess[s].st = "active" /\ c # Nobody /\ t \in Nat
        /\ sess[s].key = "active" /\ sess[s].op = "insert" /\ sess[s].depth = 1 /\ t \in sess[s].wrote
    BY ZenonT(60), SessType, SessDurable DEF WriteTags, Placed, Session, Sound
  <1>2. /\ sess' = [sess EXCEPT ![s] = k] /\ Write(c, G, {})
        /\ lock' = lock /\ nextTok' = nextTok /\ acked' = acked /\ undone' = undone
        /\ loose' = loose /\ leaked' = leaked
    BY ZenonT(60) DEF WriteTags
  <1>3. /\ k.st = sess[s].st /\ k.key = sess[s].key /\ k.conn = sess[s].conn /\ k.txn = sess[s].txn
        /\ k.own = sess[s].own /\ k.depth = sess[s].depth /\ k.failed = sess[s].failed
        /\ k.done = sess[s].done /\ k.op = sess[s].op /\ k.tok = t
        /\ k.seen = sess[s].seen /\ k.wrote = sess[s].wrote /\ k.pc = "commit"
    BY ZenonT(60), SessType DEF Session
  <1> HIDE DEF k
  <1>4. /\ G \in SUBSET Fact /\ {} \in SUBSET Fact /\ Toks(G) = {t}
        /\ \A g \in G : g.kind = "tag"
    BY ZenonT(60), <1>1, FactFields
  <1>5. Sound(k) /\ Holds(k) \subseteq Holds(sess[s]) /\ Levels(k) = 1
    BY ZenonT(60), <1>1, <1>3, SessDurable DEF Sound, Holds, Levels
  <1>6. Ctr(G) = {}
    BY ZenonT(60), <1>4 DEF Ctr
  <1>7. c \notin leaked =>
          LET a == conn[c].stack[1].add \cup G IN
            /\ \A o \in k.done : o \in sess[s].done \/ Facts(o) \subseteq a
            /\ k.pc = "commit" => Facts(k) \subseteq a
            /\ k.pc = "tag" => [kind |-> "row", tok |-> k.tok] \in a
            /\ Whole(a, loose, IF k.pc = "tag" THEN {k.tok} ELSE {})
            /\ Ctr(G) # {} => lock = k.conn
    <2> SUFFICES ASSUME c \notin leaked
                 PROVE  LET a == conn[c].stack[1].add \cup G IN
                        Facts(k) \subseteq a /\ Whole(a, loose, {})
      BY ZenonT(60), <1>3, <1>6
    <2> DEFINE d == conn[c].stack[1].add
    <2>1. /\ d \in SUBSET Fact /\ Whole(d, loose, {t})
          /\ [kind |-> "row", tok |-> t] \in d
      BY ZenonT(60), <1>1, InTransaction, TopOne DEF InTxn, Delta, Carries
    <2> HIDE DEF d
    <2>2. Facts(k) \subseteq d \cup G
      BY ZenonT(60), <1>1, <1>3, <2>1 DEF Facts
    <2>3. \A f \in d : f.kind = "row" /\ f.tok \in {t} => [f EXCEPT !.kind = "tag"] \in G
      <3> SUFFICES ASSUME NEW f \in d, f.kind = "row", f.tok = t
                   PROVE  [f EXCEPT !.kind = "tag"] \in G
        BY ZenonT(60)
      <3>1. f = [kind |-> "row", tok |-> t]
        BY <2>1, Zenon DEF Fact
      <3> QED
        BY ZenonT(60), <1>1, <3>1, FactFields
    <2>4. Whole(d \cup G, loose, {})
      BY ZenonT(60), <1>4, <2>1, <2>3 DEF Whole
    <2> QED
      BY ZenonT(60), <2>2, <2>4 DEF d
  <1> HIDE DEF G
  <1>8. {t} \subseteq k.wrote /\ sess[s].wrote \subseteq k.wrote
    BY ZenonT(60), <1>1, <1>3
  <1>9. Puts(s, k, G)
    BY ZenonT(60), <1>2, <1>3, <1>4, <1>5, <1>6, <1>7, <1>8 DEF Puts
  <1> QED
    BY ZenonT(60), <1>1, <1>2, <1>4, <1>9, WritesMore

\* What a remove writes.
LEMMA EntryFacts ==
    ASSUME NEW t \in Nat
    PROVE  LET G == {[kind |-> "row", tok |-> t], [kind |-> "tag", tok |-> t]}
           IN  /\ G \in SUBSET Fact /\ Toks(G) = {t} /\ Ctr(G) = {}
               /\ \A g \in G : [g EXCEPT !.kind = "tag"] \in G
  <1> DEFINE p == [kind |-> "row", tok |-> t]
             q == [kind |-> "tag", tok |-> t]
             G == {p, q}
  <1>1. /\ p \in Fact /\ p.kind = "row" /\ p.tok = t /\ [p EXCEPT !.kind = "tag"] = q
        /\ q \in Fact /\ q.kind = "tag" /\ q.tok = t /\ [q EXCEPT !.kind = "tag"] = q
    BY ZenonT(60), FactFields
  <1> HIDE DEF p, q
  <1>2. G \in SUBSET Fact
    BY ZenonT(60), <1>1
  <1>3. Toks(G) = {t}
    BY ZenonT(60), <1>1 DEF Toks
  <1>4. Ctr(G) = {}
    BY ZenonT(60), <1>1 DEF Ctr
  <1>5. \A g \in G : [g EXCEPT !.kind = "tag"] \in G
    BY ZenonT(60), <1>1
  <1> QED
    BY ZenonT(60), <1>2, <1>3, <1>4, <1>5 DEF p, q

\* A remove in the transaction of the session
LEMMA RemoveInside ==
    ASSUME IInv, DInv, NEW s \in Sessions, Remove(s), sess[s].depth = 1
    PROVE  DInv'
  <1> DEFINE c == sess[s].conn
             t == sess[s].tok
             w == sess[s].wrote \cup {t}
             e == sess[s].done \cup {Op(s)}
             k == [Ended(s) EXCEPT !.wrote = w, !.done = e]
             G == {[kind |-> "row", tok |-> t], [kind |-> "tag", tok |-> t]}
  <1>0. 0 # 1
    BY SMTT(60)
  <1>1. /\ sess[s].pc = "ready" /\ sess[s].op = "remove" /\ sess[s].st = "active" /\ c # Nobody
        /\ t \in Nat /\ sess[s].key = "active" /\ ~sess[s].own /\ sess[s].txn
    BY ZenonT(60), SessType, SessDurable DEF Remove, Placed, Session, Sound
  <1>2. /\ sess' = [sess EXCEPT ![s] = k] /\ Write(c, G, {})
        /\ lock' = lock \/ (lock' = c /\ Free(c))
        /\ nextTok' = nextTok /\ acked' = acked /\ undone' = undone
        /\ loose' = loose /\ leaked' = leaked
    BY ZenonT(60), <1>0 DEF Remove
  <1>3. /\ k.st = sess[s].st /\ k.key = sess[s].key /\ k.conn = sess[s].conn /\ k.txn = sess[s].txn
        /\ k.own = Ended(s).own /\ k.depth = sess[s].depth /\ k.failed = sess[s].failed
        /\ k.done = e /\ k.seen = sess[s].seen /\ k.wrote = w /\ k.pc = "idle"
    BY ZenonT(60), EndedRecord DEF Session
  <1> HIDE DEF k
  <1>4. /\ G \in SUBSET Fact /\ {} \in SUBSET Fact /\ Toks(G) = {t} /\ Ctr(G) = {}
        /\ \A g \in G : [g EXCEPT !.kind = "tag"] \in G
    BY ZenonT(60), <1>1, EntryFacts
  <1>5. Op(s).tok = t /\ Op(s).op = "remove" /\ Facts(Op(s)) = G
    BY ZenonT(60), <1>1 DEF Op, Facts
  <1>6. Sound(k) /\ Holds(k) \subseteq Holds(sess[s]) /\ Levels(k) = 1
    <2>1. \A o \in e : o.tok \in w
      BY ZenonT(60), <1>5, SessDurable DEF Sound
    <2> HIDE DEF w, e
    <2>2. Sound(k)
      BY ZenonT(60), <1>1, <1>3, <2>1, EndedRecord, SessDurable DEF Sound
    <2>3. Holds(k) \subseteq Holds(sess[s]) /\ Levels(k) = 1
      BY ZenonT(60), <1>1, <1>3 DEF Holds, Levels, w
    <2> QED
      BY ZenonT(60), <2>2, <2>3
  <1>7. Ctr(G) = {}
    BY ZenonT(60), <1>4
  <1> HIDE DEF G
  <1>8. c \notin leaked =>
          LET a == conn[c].stack[1].add \cup G IN
            /\ \A o \in k.done : o \in sess[s].done \/ Facts(o) \subseteq a
            /\ k.pc = "commit" => Facts(k) \subseteq a
            /\ k.pc = "tag" => [kind |-> "row", tok |-> k.tok] \in a
            /\ Whole(a, loose, IF k.pc = "tag" THEN {k.tok} ELSE {})
            /\ Ctr(G) # {} => lock = k.conn
    <2> SUFFICES ASSUME c \notin leaked
                 PROVE  LET a == conn[c].stack[1].add \cup G IN
                        (\A o \in k.done : o \in sess[s].done \/ Facts(o) \subseteq a) /\ Whole(a, loose, {})
      BY ZenonT(60), <1>3, <1>7
    <2> DEFINE d == conn[c].stack[1].add
    <2>1. d \in SUBSET Fact /\ Whole(d, loose, {})
      BY ZenonT(60), <1>1, InTransaction, TopOne DEF InTxn, Delta, Carries
    <2> HIDE DEF d
    <2>2. \A o \in k.done : o \in sess[s].done \/ Facts(o) \subseteq d \cup G
      BY ZenonT(60), <1>3, <1>5
    <2>3. Whole(d \cup G, loose, {})
      BY ZenonT(60), <1>4, <2>1, WholeAdds
    <2> QED
      BY ZenonT(60), <2>2, <2>3 DEF d
  <1>9. {t} \subseteq k.wrote /\ sess[s].wrote \subseteq k.wrote
    BY ZenonT(60), <1>3
  <1>10. Puts(s, k, G)
    BY ZenonT(60), <1>2, <1>3, <1>4, <1>6, <1>7, <1>8, <1>9 DEF Puts
  <1> QED
    BY ZenonT(60), <1>1, <1>2, <1>4, <1>10, WritesMore

\* What has been reported stays.
LEMMA KeptGrows ==
    ASSUME DInv, db \subseteq db', Whole(db', loose', {}),
           \A a \in acked' : a \in acked \/ ~a.clean \/ Facts(a) \subseteq db'
    PROVE  Kept'
  <1>1. \A a \in acked' : a.clean => Facts(a) \subseteq db'
    BY ZenonT(60) DEF DInv, Kept
  <1> QED
    BY ZenonT(60), <1>1 DEF Kept, Facts, Whole

\* A of what the session has in hand is committed, B is undone.
LEMMA Settles ==
    ASSUME IInv, DInv, NEW s \in Sessions, NEW k, sess' = [sess EXCEPT ![s] = k], nextTok' = nextTok,
           NEW A, NEW B, A \subseteq Holds(sess[s]), B \subseteq Holds(sess[s]), A \cap B = {},
           Toks(db') \subseteq Toks(db) \cup A, undone' \subseteq undone \cup B,
           Holds(k) \subseteq Holds(sess[s]), Holds(k) \cap (A \cup B) = {}
    PROVE  Tokens'
  <1>1. sess'[s] = k /\ \A r \in Sessions \ {s} : sess'[r] = sess[r]
    BY ZenonT(60) DEF IInv, TypeOK
  <1>2. A \in SUBSET Nat /\ B \in SUBSET Nat /\ Tokens
    BY ZenonT(60), HoldsNat DEF DInv
  <1>3. nextTok' \in Nat /\ nextTok <= nextTok'
    BY SMTT(60) DEF IInv, TypeOK
  <1> QED
    BY ZenonT(60), <1>1, <1>2, <1>3, TokensKeep

\* A remove outside of a transaction
LEMMA RemoveOutside ==
    ASSUME IInv, DInv, NEW s \in Sessions, Remove(s), sess[s].depth = 0
    PROVE  DInv'
  <1> DEFINE c == sess[s].conn
             t == sess[s].tok
             k == Ended(s)
             a == [tok |-> t, op |-> "remove", clean |-> c \notin leaked]
             G == {[kind |-> "row", tok |-> t], [kind |-> "tag", tok |-> t]}
  <1>1. /\ sess[s].pc = "ready" /\ sess[s].op = "remove" /\ sess[s].st = "active" /\ c # Nobody
        /\ t \in Nat /\ ~conn[c].aborted
    BY ZenonT(60), SessType DEF Remove, Placed, Session
  <1>2. /\ sess' = [sess EXCEPT ![s] = k] /\ Write(c, G, {}) /\ acked' = acked \cup {a}
        /\ nextTok' = nextTok /\ undone' = undone /\ loose' = loose /\ leaked' = leaked
        /\ lock' = IF Sqlite /\ InTxn(c) THEN c ELSE lock
        /\ Sqlite => Free(c)
    BY ZenonT(60) DEF Remove
  <1>3. /\ k.conn = c /\ k.pc = "idle" /\ k.depth = 0 /\ k.wrote = {} /\ k.done = {} /\ k.seen = {}
        /\ ~k.own /\ ~k.txn
    BY ZenonT(60), <1>1, EndedRecord, Idle
  <1>4. Sound(k) /\ Holds(k) = {} /\ Levels(k) = 0
    <2>1. 0 # 1
      BY SMTT(60)
    <2>2. /\ k.st = "active" /\ k.key = sess[s].key /\ k.op = sess[s].op /\ k.key = "active"
      <3>1. sess[s].key = "active"
        BY ZenonT(60), <1>1, SessDurable DEF Sound
      <3> QED
        BY ZenonT(60), <1>1, <3>1, EndedRecord
    <2> HIDE DEF k
    <2> QED
      BY ZenonT(60), <1>3, <2>1, <2>2 DEF Sound, Holds, Levels
  <1> HIDE DEF k
  <1>5. /\ G \in SUBSET Fact /\ Toks(G) = {t} /\ Ctr(G) = {}
        /\ \A g \in G : [g EXCEPT !.kind = "tag"] \in G
    BY ZenonT(60), <1>1, EntryFacts
  <1>6. a.clean = (c \notin leaked) /\ Facts(a) = G
    BY ZenonT(60) DEF Facts
  <1> HIDE DEF G, a
  <1>7. {t} \subseteq Holds(sess[s])
    BY ZenonT(60), <1>1 DEF Holds
  <1>8. /\ c \in Conns /\ conn[c].owner = s /\ conn[c] \in Conn /\ conn[c].stack \in Seq(Delta)
        /\ c \notin leaked => Len(conn[c].stack) = 0
        /\ c \in leaked => Len(conn[c].stack) > 0 /\ InTxn(c)
    BY ZenonT(60), <1>1, InTransaction
  <1>9. db \in SUBSET Fact /\ Whole(db, loose, {}) /\ conn \in [Conns -> Conn]
    BY ZenonT(60) DEF IInv, TypeOK, DInv, Kept
  <1>10. CASE c \notin leaked
    <2>1. conn[c].stack = <<>>
      BY SMTT(60), <1>8, <1>10
    <2>2. db' = db \cup G /\ conn' = conn /\ lock' = lock
      BY ZenonT(60), <1>2, <2>1 DEF Write, InTxn
    <2>3. Whole(db', loose', {})
      BY ZenonT(60), <1>2, <1>5, <1>9, <2>2, WholeAdds
    <2>4. Kept'
      BY ZenonT(60), <1>2, <1>6, <2>2, <2>3, KeptGrows
    <2>5. Toks(db') \subseteq Toks(db) \cup {t} /\ Ctr(db') = Ctr(db)
      <3>1. Toks(db \cup G) = Toks(db) \cup Toks(G) /\ Ctr(db \cup G) = Ctr(db) \cup Ctr(G)
        BY ZenonT(60), ToksUnion, CtrUnion
      <3> QED
        BY ZenonT(60), <1>5, <2>2, <3>1
    <2>6. /\ {} \subseteq Holds(sess[s]) /\ {t} \cap {} = {} /\ undone' \subseteq undone \cup {}
          /\ Holds(k) \subseteq Holds(sess[s]) /\ Holds(k) \cap ({t} \cup {}) = {}
      BY ZenonT(60), <1>2, <1>4
    <2>7. Tokens'
      BY ZenonT(60), <1>2, <1>7, <2>5, <2>6, Settles
    <2>8. Carries(k, conn[c], db', lock', loose')
      BY ZenonT(60), <1>1, <1>3, <2>1, NothingCarried
    <2>9. conn' = [conn EXCEPT ![c] = conn[c]]
      BY ZenonT(60), <1>8, <1>9, <2>2
    <2>10. /\ c = sess[s].conn /\ leaked \subseteq leaked' /\ leaked' \subseteq leaked \cup {c}
           /\ loose \subseteq loose' /\ k.conn \in {Nobody, c} /\ c \notin leaked'
           /\ conn[c].owner = IF k.conn = c THEN s ELSE Nobody
      BY ZenonT(60), <1>2, <1>3, <1>8, <1>10
    <2> HIDE DEF c
    <2> QED
      BY ZenonT(60), <1>2, <1>3, <1>4, <1>8, <2>2, <2>4, <2>5, <2>7, <2>8, <2>9, <2>10, SwapKeeps
  <1>11. CASE c \in leaked
    <2>1. InTxn(c) /\ Len(conn[c].stack) > 0 /\ {} \in SUBSET Fact
      BY ZenonT(60), <1>8, <1>11
    <2>2. PICK x \in Conn : db' = db /\ Adds(c, x, G, {})
      BY ZenonT(60), <1>2, <1>5, <1>8, <2>1, WriteInside
    <2>3. /\ conn' = [conn EXCEPT ![c] = x] /\ x.owner = conn[c].owner /\ x.stack # <<>>
          /\ Len(x.stack) = Len(conn[c].stack)
      BY ZenonT(60), <2>2 DEF Adds
    <2>4. Kept'
      <3>1. ~a.clean
        BY ZenonT(60), <1>6, <1>11
      <3>2. db \subseteq db' /\ Whole(db', loose', {})
        BY ZenonT(60), <1>2, <1>9, <2>2
      <3> QED
        BY ZenonT(60), <1>2, <3>1, <3>2, KeptGrows
    <2>5. /\ {} \subseteq Holds(sess[s]) /\ {} \cap {} = {} /\ undone' \subseteq undone \cup {}
          /\ Holds(k) \subseteq Holds(sess[s]) /\ Holds(k) \cap ({} \cup {}) = {}
          /\ Toks(db') \subseteq Toks(db) \cup {} /\ Ctr(db') = Ctr(db)
      BY ZenonT(60), <1>2, <1>4, <2>2
    <2>6. Tokens'
      BY ZenonT(60), <1>2, <2>5, Settles
    <2>7. /\ c = sess[s].conn /\ leaked \subseteq leaked' /\ leaked' \subseteq leaked \cup {c}
          /\ loose \subseteq loose' /\ k.conn \in {Nobody, c} /\ c \in leaked'
          /\ x.owner = (IF k.conn = c THEN s ELSE Nobody)
          /\ lock' = lock \/ lock \in {Nobody, c}
          /\ Len(x.stack) > Levels(k)
      BY ZenonT(60), <1>2, <1>3, <1>4, <1>8, <1>11, <2>1, <2>3 DEF Free
    <2> HIDE DEF c
    <2> QED
      BY ZenonT(60), <1>2, <1>4, <1>8, <2>3, <2>4, <2>5, <2>6, <2>7, SwapKeeps
  <1> QED
    BY ZenonT(60), <1>10, <1>11

LEMMA RemoveDurable ==
    ASSUME IInv, DInv, NEW s \in Sessions, Remove(s)
    PROVE  DInv'
  <1>1. sess[s].depth \in {0, 1}
    BY ZenonT(60), SessType DEF Placed
  <1> QED
    BY ZenonT(60), <1>1, RemoveInside, RemoveOutside
----------------------------------------------------------------------------
(***************************************************************************)
(* The steps that end a transaction.                                       *)
(***************************************************************************)
LEMMA EndedStack ==
    ASSUME IInv, NEW c \in Conns, NEW x \in {Committed(c), RolledBack(c)}
    PROVE  /\ x \in Conn /\ x.owner = conn[c].owner /\ ~x.aborted
           /\ Len(conn[c].stack) <= 1 => x.stack = <<>>
           /\ Len(conn[c].stack) > 1 => x.stack # <<>> /\ Len(x.stack) = Len(conn[c].stack) - 1
  <1> DEFINE s == conn[c].stack
  <1>1. s \in Seq(Delta) /\ Top(c) \in Delta
    BY ZenonT(60), ConnType, TopType
  <1>2. CASE x = Committed(c)
    <2> DEFINE t == IF Len(s) > 1 THEN Append(Popped(Popped(s)), Top(c)) ELSE <<>>
    <2>1. Len(s) > 1 => t # <<>> /\ Len(t) = Len(s) - 1
      BY SMTT(60), <1>1 DEF Popped
    <2>2. x = [conn[c] EXCEPT !.stack = t, !.aborted = FALSE]
      BY ZenonT(60), <1>2 DEF Committed
    <2> HIDE DEF t
    <2>3. ~x.aborted /\ x.stack = t
      BY ZenonT(60), <2>2, ConnType DEF Conn
    <2> QED
      BY ZenonT(60), <1>2, <2>1, <2>3, CommittedConn
  <1>3. CASE x = RolledBack(c)
    <2> DEFINE t == IF s = <<>> THEN s ELSE Popped(s)
    <2>1. Len(s) > 1 => t # <<>> /\ Len(t) = Len(s) - 1
      <3> SUFFICES ASSUME Len(s) > 1 PROVE t # <<>> /\ Len(t) = Len(s) - 1
        BY Zenon
      <3>1. Len(s) \in Nat /\ s # <<>> /\ Len(<<>>) = 0
        BY SMTT(60), <1>1
      <3>2. Len(Popped(s)) = Len(s) - 1
        BY SMTT(60), <1>1, <3>1 DEF Popped
      <3>3. Len(Popped(s)) # 0
        <4>1. \A n \in Nat : n > 1 => n - 1 # 0
          BY SMTT(60)
        <4> QED
          BY ZenonT(60), <3>1, <3>2, <4>1
      <3> QED
        BY ZenonT(60), <3>1, <3>2, <3>3
    <2>2. x = [conn[c] EXCEPT !.stack = t, !.aborted = FALSE]
      BY ZenonT(60), <1>3 DEF RolledBack
    <2> HIDE DEF t
    <2>3. ~x.aborted /\ x.stack = t
      BY ZenonT(60), <2>2, ConnType DEF Conn
    <2> QED
      BY ZenonT(60), <1>3, <2>1, <2>3, RolledBackConn
  <1> QED
    BY ZenonT(60), <1>2, <1>3

\* The session s ends its transaction on the connection, which is y afterwards, and is k.
Ends(s, k, x, y) ==
    /\ sess[s].conn # Nobody /\ sess[s].depth = 1 /\ sess[s].pc \notin {"begin", "opbegin"}
    /\ x \in {Committed(sess[s].conn), RolledBack(sess[s].conn)}
    /\ sess' = [sess EXCEPT ![s] = k] /\ conn' = [conn EXCEPT ![sess[s].conn] = y]
    /\ y.stack = x.stack /\ y.aborted = x.aborted
    /\ k.conn \in {Nobody, sess[s].conn} /\ y.owner = IF k.conn = sess[s].conn THEN s ELSE Nobody
    /\ lock' = LockAfter(sess[s].conn, x) /\ leaked' = leaked /\ loose' = loose
    /\ Ctr(db') = Ctr(db) \/ lock = sess[s].conn
    /\ Sound(k) /\ k.depth = 0 /\ k.pc = "idle" /\ k.done = {} /\ k.seen = {}
    /\ k.st = "active" => ~k.txn

LEMMA EndsKeeps ==
    ASSUME IInv, DInv, NEW s \in Sessions, NEW k, NEW x, NEW y, Ends(s, k, x, y), Tokens', Kept'
    PROVE  DInv'
  <1> USE DEF Ends
  <1> DEFINE c == sess[s].conn
  <1>1. /\ c \in Conns /\ conn[c].owner = s /\ Len(conn[c].stack) \in Nat
        /\ c \notin leaked => Len(conn[c].stack) = 1
        /\ c \in leaked => Len(conn[c].stack) > 1
    BY ZenonT(60), InTransaction
  <1>2. /\ x \in Conn /\ ~x.aborted
        /\ Len(conn[c].stack) <= 1 => x.stack = <<>>
        /\ Len(conn[c].stack) > 1 => x.stack # <<>> /\ Len(x.stack) = Len(conn[c].stack) - 1
    BY ZenonT(60), <1>1, EndedStack
  <1>3. c \notin leaked => x.stack = <<>>
    <2>1. 1 <= 1
      BY SMTT(60)
    <2> QED
      BY ZenonT(60), <1>1, <1>2, <2>1
  <1>4. c \in leaked => x.stack # <<>> /\ Len(x.stack) > 0
    <2>1. \A n \in Nat : n > 1 => n - 1 > 0
      BY SMTT(60)
    <2> QED
      BY ZenonT(60), <1>1, <1>2, <2>1
  <1>5. Levels(k) = 0
    BY ZenonT(60) DEF Levels
  <1>6. lock' = lock \/ lock \in {Nobody, c}
    BY ZenonT(60) DEF LockAfter
  <1>7. c \notin leaked' /\ k.conn = c => Carries(k, y, db', lock', loose')
    BY ZenonT(60), <1>2, <1>3, NothingCarried
  <1>8. /\ c = sess[s].conn /\ leaked \subseteq leaked' /\ leaked' \subseteq leaked \cup {c}
        /\ loose \subseteq loose'
        /\ c \notin leaked' /\ k.conn # c => ~y.aborted
        /\ c \in leaked' => y.stack # <<>> /\ (k.conn = c => Len(y.stack) > Levels(k))
    BY ZenonT(60), <1>2, <1>4, <1>5
  <1> HIDE DEF c
  <1> QED
    BY ZenonT(60), <1>1, <1>6, <1>7, <1>8, SwapKeeps

\* What a commit of the transaction of the session makes of the database.
LEMMA CommitsWork ==
    ASSUME IInv, DInv, NEW s \in Sessions, sess[s].conn # Nobody, sess[s].depth = 1,
           sess[s].pc \in {"idle", "commit"}
    PROVE  LET c == sess[s].conn
               F == CommittedDb(c)
           IN  /\ db \subseteq F /\ Whole(F, loose, {})
               /\ Toks(F) \subseteq Toks(db) \cup sess[s].wrote
               /\ Ctr(F) = Ctr(db) \/ lock = c
               /\ c \notin leaked /\ ~conn[c].aborted =>
                    /\ \A o \in sess[s].done : Facts(o) \subseteq F
                    /\ sess[s].pc = "commit" => Facts(sess[s]) \subseteq F
  <1> DEFINE c == sess[s].conn
             F == CommittedDb(c)
             a == conn[c].stack[1].add
  <1>1. db \in SUBSET Fact /\ Whole(db, loose, {})
    BY ZenonT(60) DEF IInv, TypeOK, DInv, Kept
  <1>2. CASE F = db /\ (c \in leaked \/ conn[c].aborted)
    BY ZenonT(60), <1>1, <1>2
  <1>3. CASE c \notin leaked /\ ~conn[c].aborted
    <2>1. Len(conn[c].stack) = 1 /\ InTxn(c) /\ Carries(sess[s], conn[c], db, lock, loose)
      BY ZenonT(60), <1>3, InTransaction
    <2>2. F = db \cup a /\ a \in SUBSET Fact
      BY ZenonT(60), <1>3, <2>1, TopOne DEF CommittedDb, Delta
    <2>3. /\ Toks(a) \subseteq sess[s].wrote /\ Whole(a, loose, {}) /\ (Ctr(a) # {} => lock = c)
          /\ \A o \in sess[s].done : Facts(o) \subseteq a
          /\ sess[s].pc = "commit" => Facts(sess[s]) \subseteq a
      BY ZenonT(60), <2>1 DEF Carries, InTxn
    <2> HIDE DEF a, F, c
    <2>4. Whole(db \cup a, loose, {})
      BY ZenonT(60), <1>1, <2>3 DEF Whole
    <2>5. Toks(db \cup a) \subseteq Toks(db) \cup sess[s].wrote
      <3>1. Toks(db \cup a) = Toks(db) \cup Toks(a)
        BY ZenonT(60), ToksUnion
      <3> QED
        BY ZenonT(60), <2>3, <3>1
    <2>6. Ctr(db \cup a) = Ctr(db) \/ lock = c
      <3>1. Ctr(a) = {} => Ctr(db) \cup Ctr(a) = Ctr(db)
        BY ZenonT(60)
      <3> QED
        BY ZenonT(60), <2>3, <3>1, CtrUnion
    <2>7. /\ db \subseteq F /\ Whole(F, loose, {}) /\ Toks(F) \subseteq Toks(db) \cup sess[s].wrote
          /\ Ctr(F) = Ctr(db) \/ lock = c
      BY ZenonT(60), <2>2, <2>4, <2>5, <2>6
    <2>8. /\ \A o \in sess[s].done : Facts(o) \subseteq F
          /\ sess[s].pc = "commit" => Facts(sess[s]) \subseteq F
      BY ZenonT(60), <2>2, <2>3
    <2> QED
      BY ZenonT(60), <2>7, <2>8 DEF F, c
  <1>4. c \in leaked => F = db
    <2>1. c \in leaked => Len(conn[c].stack) > 1
      BY ZenonT(60), InTransaction
    <2>2. ~(1 > 1)
      BY SMTT(60)
    <2> QED
      BY ZenonT(60), <2>1, <2>2 DEF CommittedDb
  <1>5. conn[c].aborted => F = db
    BY ZenonT(60) DEF CommittedDb
  <1> QED
    BY ZenonT(60), <1>2, <1>3, <1>4, <1>5

\* DbSessionTxn::commit, of a transaction of its own
LEMMA OpCommitOwn ==
    ASSUME IInv, DInv, NEW s \in Sessions, OpCommit(s), sess[s].own
    PROVE  DInv'
  <1> DEFINE c == sess[s].conn
             t == sess[s].tok
             w == sess[s].wrote \ {t}
             k == [Ended(s) EXCEPT !.depth = 0, !.wrote = w]
             a == [tok |-> t, op |-> sess[s].op, clean |-> c \notin leaked]
  <1>1. /\ sess[s].pc = "commit" /\ sess[s].st = "active" /\ c # Nobody /\ sess[s].depth = 1
        /\ ~sess[s].txn /\ sess[s].done = {} /\ sess[s].seen = {} /\ w = {} /\ t \in sess[s].wrote
        /\ sess[s].key = "active"
    BY ZenonT(60), SessType, SessDurable DEF OpCommit, Placed, Session, Sound
  <1>2. /\ sess' = [sess EXCEPT ![s] = k] /\ conn' = [conn EXCEPT ![c] = Committed(c)]
        /\ db' = CommittedDb(c) /\ lock' = LockAfter(c, Committed(c))
        /\ acked' = acked \/ acked' = acked \cup {a}
        /\ nextTok' = nextTok /\ undone' = undone /\ loose' = loose /\ leaked' = leaked
    BY ZenonT(60) DEF OpCommit, Reported
  <1>3. /\ k.st = sess[s].st /\ k.key = sess[s].key /\ k.conn = c /\ k.txn = sess[s].txn
        /\ k.own = Ended(s).own /\ k.depth = 0 /\ k.failed = sess[s].failed
        /\ k.done = sess[s].done /\ k.seen = sess[s].seen /\ k.wrote = w /\ k.pc = "idle"
    <2> HIDE DEF w
    <2> QED
      BY ZenonT(60), EndedRecord DEF Session
  <1> HIDE DEF k, w
  <1>4. Sound(k) /\ Holds(k) = {}
    <2>1. 0 # 1
      BY SMTT(60)
    <2> QED
      BY ZenonT(60), <1>1, <1>3, <2>1, EndedRecord DEF Sound, Holds
  <1>5. c \in Conns /\ conn[c].owner = s /\ (c \notin leaked => Carries(sess[s], conn[c], db, lock, loose))
    BY ZenonT(60), <1>1, InTransaction
  <1>6. c \notin leaked => ~conn[c].aborted
    BY ZenonT(60), <1>1, <1>5 DEF Carries
  <1>7. /\ db \subseteq db' /\ Whole(db', loose', {})
        /\ Toks(db') \subseteq Toks(db) \cup sess[s].wrote
        /\ Ctr(db') = Ctr(db) \/ lock = c
        /\ c \notin leaked => Facts(sess[s]) \subseteq db'
    BY ZenonT(60), <1>1, <1>2, <1>6, CommitsWork
  <1>8. a.clean = (c \notin leaked) /\ Facts(a) = Facts(sess[s])
    BY ZenonT(60) DEF Facts
  <1> HIDE DEF a
  <1>9. Kept'
    <2>1. \A b \in acked' : b \in acked \/ ~b.clean \/ Facts(b) \subseteq db'
      BY ZenonT(60), <1>2, <1>7, <1>8
    <2> QED
      BY ZenonT(60), <1>7, <2>1, KeptGrows
  <1>10. Tokens'
    <2>1. /\ sess[s].wrote \subseteq Holds(sess[s]) /\ {} \subseteq Holds(sess[s])
          /\ sess[s].wrote \cap {} = {} /\ undone' \subseteq undone \cup {}
          /\ Holds(k) \subseteq Holds(sess[s]) /\ Holds(k) \cap (sess[s].wrote \cup {}) = {}
      BY ZenonT(60), <1>2, <1>4 DEF Holds
    <2> QED
      BY ZenonT(60), <1>2, <1>7, <2>1, Settles
  <1>11. Committed(c).owner = conn[c].owner
    BY ZenonT(60), <1>5, EndedStack
  <1>12. Ends(s, k, Committed(c), Committed(c))
    BY ZenonT(60), <1>1, <1>2, <1>3, <1>4, <1>5, <1>7, <1>11 DEF Ends
  <1> QED
    BY ZenonT(60), <1>9, <1>10, <1>12, EndsKeeps

\* and in that of the session, which goes on.
LEMMA OpCommitInside ==
    ASSUME IInv, DInv, NEW s \in Sessions, OpCommit(s), ~sess[s].own
    PROVE  DInv'
  <1> DEFINE c == sess[s].conn
             t == sess[s].tok
             e == sess[s].done \cup {Op(s)}
             k == [Ended(s) EXCEPT !.done = e]
  <1>1. /\ sess[s].pc = "commit" /\ sess[s].st = "active" /\ c # Nobody /\ sess[s].depth = 1
        /\ sess[s].txn /\ t \in sess[s].wrote /\ sess[s].key = "active"
    BY ZenonT(60), SessType, SessDurable DEF OpCommit, Placed, Session, Sound
  <1>2. /\ sess' = [sess EXCEPT ![s] = k] /\ conn' = conn /\ lock' = lock /\ nextTok' = nextTok
        /\ UNCHANGED <<db, acked, undone, loose, leaked>>
    BY ZenonT(60) DEF OpCommit
  <1>3. /\ k.st = sess[s].st /\ k.key = sess[s].key /\ k.conn = c /\ k.txn = sess[s].txn
        /\ k.own = Ended(s).own /\ k.depth = sess[s].depth /\ k.failed = sess[s].failed
        /\ k.done = e /\ k.seen = sess[s].seen /\ k.wrote = sess[s].wrote /\ k.pc = "idle"
    <2> HIDE DEF e
    <2> QED
      BY ZenonT(60), EndedRecord DEF Session
  <1> HIDE DEF k
  <1>4. Op(s).tok = t /\ Facts(Op(s)) = Facts(sess[s])
    BY ZenonT(60) DEF Op, Facts
  <1>5. Sound(k) /\ Holds(k) \subseteq Holds(sess[s]) /\ Levels(k) = Levels(sess[s])
    <2>1. \A o \in e : o.tok \in sess[s].wrote
      BY ZenonT(60), <1>1, <1>4, SessDurable DEF Sound
    <2> HIDE DEF e
    <2>2. Sound(k)
      BY ZenonT(60), <1>1, <1>3, <2>1, EndedRecord, SessDurable DEF Sound
    <2>3. Holds(k) \subseteq Holds(sess[s]) /\ Levels(k) = Levels(sess[s])
      BY ZenonT(60), <1>1, <1>3 DEF Holds, Levels
    <2> QED
      BY ZenonT(60), <2>2, <2>3
  <1>6. k.conn \notin leaked => Carries(k, conn[k.conn], db, lock', loose)
    <2> SUFFICES ASSUME c \notin leaked PROVE Carries(k, conn[c], db, lock, loose)
      BY ZenonT(60), <1>2, <1>3
    <2>1. Carries(sess[s], conn[c], db, lock, loose)
      BY ZenonT(60), <1>1, InTransaction
    <2>2. conn[c].stack # <<>> => \A o \in e : Facts(o) \subseteq conn[c].stack[1].add
      BY ZenonT(60), <1>1, <1>4, <2>1 DEF Carries
    <2> HIDE DEF e
    <2> QED
      BY ZenonT(60), <1>1, <1>3, <2>1, <2>2 DEF Carries
  <1>7. nextTok' \in Nat /\ nextTok <= nextTok'
    BY SMTT(60), <1>2 DEF IInv, TypeOK
  <1> QED
    BY ZenonT(60), <1>2, <1>3, <1>5, <1>6, <1>7, QuietKeeps

LEMMA OpCommitDurable ==
    ASSUME IInv, DInv, NEW s \in Sessions, OpCommit(s)
    PROVE  DInv'
  BY ZenonT(60), OpCommitOwn, OpCommitInside

\* Drop of DbSessionTxn, with a transaction of its own
LEMMA OpAbortsOwn ==
    ASSUME IInv, DInv, NEW s \in Sessions, NEW refused \in BOOLEAN, OpAborts(s, refused), sess[s].own
    PROVE  DInv'
  <1> DEFINE c == sess[s].conn
             t == sess[s].tok
             w == sess[s].wrote \ {t}
             f == sess[s].failed \/ (refused /\ ~Sqlite)
             k == [Ended(s) EXCEPT !.depth = 0, !.wrote = w, !.failed = f]
  <1>0. 0 # 1
    BY SMTT(60)
  <1>1. /\ sess[s].pc \in {"row", "tag", "commit"} /\ sess[s].depth = 1 /\ sess[s].st = "active"
        /\ c # Nobody
    BY ZenonT(60), <1>0, SessType DEF Placed, Session
  <1>2. /\ ~sess[s].txn /\ sess[s].done = {} /\ sess[s].seen = {} /\ w = {}
        /\ sess[s].key = "active" /\ t \in Holds(sess[s])
    BY ZenonT(60), <1>1, SessDurable DEF Sound, Holds
  <1>3. /\ sess' = [sess EXCEPT ![s] = k] /\ conn' = [conn EXCEPT ![c] = RolledBack(c)]
        /\ db' = db /\ lock' = LockAfter(c, RolledBack(c)) /\ acked' = acked
        /\ nextTok' = nextTok /\ undone' = undone \cup {t} /\ loose' = loose /\ leaked' = leaked
    BY ZenonT(60) DEF OpAborts, DepthAfter
  <1>4. /\ k.st = sess[s].st /\ k.key = sess[s].key /\ k.conn = c /\ k.txn = sess[s].txn
        /\ k.own = Ended(s).own /\ k.depth = 0
        /\ k.done = sess[s].done /\ k.seen = sess[s].seen /\ k.wrote = w /\ k.pc = "idle"
    <2> HIDE DEF w, f
    <2> QED
      BY ZenonT(60), EndedRecord DEF Session
  <1> HIDE DEF k, w
  <1>5. Sound(k) /\ Holds(k) = {}
    BY ZenonT(60), <1>0, <1>1, <1>2, <1>4, EndedRecord DEF Sound, Holds
  <1>6. c \in Conns /\ conn[c].owner = s
    BY ZenonT(60), <1>1, InTransaction
  <1>7. Kept'
    <2>1. Whole(db, loose, {})
      BY ZenonT(60) DEF DInv, Kept
    <2>2. /\ db \subseteq db' /\ Whole(db', loose', {})
          /\ \A b \in acked' : b \in acked \/ ~b.clean \/ Facts(b) \subseteq db'
      BY ZenonT(60), <1>3, <2>1
    <2> QED
      BY ZenonT(60), <2>2, KeptGrows
  <1>8. Tokens'
    <2> DEFINE A == {}
               B == {t}
    <2>1. /\ B \subseteq Holds(sess[s]) /\ A \subseteq Holds(sess[s])
          /\ A \cap B = {} /\ undone' \subseteq undone \cup B /\ Toks(db') \subseteq Toks(db) \cup A
          /\ Holds(k) \subseteq Holds(sess[s]) /\ Holds(k) \cap (A \cup B) = {}
      <3> HIDE DEF t, k
      <3> QED
        BY ZenonT(60), <1>2, <1>3, <1>5
    <2> HIDE DEF A, B
    <2> QED
      BY ZenonT(60), <1>3, <2>1, Settles
  <1>9. RolledBack(c).owner = conn[c].owner
    BY ZenonT(60), <1>6, EndedStack
  <1>10. Ends(s, k, RolledBack(c), RolledBack(c))
    BY ZenonT(60), <1>1, <1>2, <1>3, <1>4, <1>5, <1>6, <1>9 DEF Ends
  <1> QED
    BY ZenonT(60), <1>7, <1>8, <1>10, EndsKeeps

\* and without: what was written stays in the transaction of the session.
LEMMA OpAbortsInside ==
    ASSUME IInv, DInv, NEW s \in Sessions, NEW refused \in BOOLEAN, OpAborts(s, refused), ~sess[s].own,
           sess[s].pc \in {"ready", "row", "tag", "commit"}
    PROVE  DInv'
  <1> DEFINE c == sess[s].conn
             t == sess[s].tok
             b == conn[c].aborted \/ (refused /\ ~Sqlite /\ InTxn(c))
             x == [conn[c] EXCEPT !.aborted = b]
             f == sess[s].failed \/ (refused /\ ~Sqlite)
             k == [Ended(s) EXCEPT !.depth = sess[s].depth, !.wrote = sess[s].wrote, !.failed = f]
  <1>1. sess[s].st = "active" /\ c # Nobody
    BY ZenonT(60), SessType DEF Placed, Session
  <1>2. /\ sess' = [sess EXCEPT ![s] = k] /\ conn' = [conn EXCEPT ![c] = x]
        /\ db' = db /\ lock' = LockAfter(c, x) /\ acked' = acked
        /\ nextTok' = nextTok /\ undone' = undone /\ leaked' = leaked
        /\ loose' = IF sess[s].depth > 0 /\ t \in sess[s].wrote THEN loose \cup {t} ELSE loose
    BY ZenonT(60) DEF OpAborts, DepthAfter
  <1>3. /\ k.st = sess[s].st /\ k.key = sess[s].key /\ k.conn = c /\ k.txn = sess[s].txn
        /\ k.own = Ended(s).own /\ k.depth = sess[s].depth /\ k.failed = f
        /\ k.done = sess[s].done /\ k.seen = sess[s].seen /\ k.wrote = sess[s].wrote /\ k.pc = "idle"
    <2> HIDE DEF f
    <2> QED
      BY ZenonT(60), EndedRecord DEF Session
  <1> HIDE DEF k
  <1>4. Sound(k) /\ Holds(k) \subseteq Holds(sess[s]) /\ Levels(k) = sess[s].depth
    BY ZenonT(60), <1>1, <1>3, EndedRecord, SessDurable DEF Sound, Holds, Levels
  <1>5. /\ c \in Conns /\ conn[c].owner = s /\ conn[c] \in Conn
        /\ c \notin leaked => Len(conn[c].stack) = sess[s].depth
                              /\ Carries(sess[s], conn[c], db, lock, loose)
        /\ c \in leaked => Len(conn[c].stack) > sess[s].depth /\ InTxn(c)
    BY ZenonT(60), <1>1, InTransaction
  <1>6. x.owner = s /\ x.stack = conn[c].stack /\ x.aborted = b
    <2> HIDE DEF b
    <2> QED
      BY ZenonT(60), <1>5 DEF Conn
  <1> HIDE DEF x
  <1>7. lock' = lock
    BY ZenonT(60), <1>2, <1>5, <1>6 DEF LockAfter, IInv, Nested, InTxn
  <1>8. loose \subseteq loose'
    BY ZenonT(60), <1>2
  <1>9. Tokens' /\ Kept'
    BY ZenonT(60), <1>2, <1>4, <1>8, NothingWritten
  <1>10. c \notin leaked => Carries(k, x, db, lock, loose')
    <2> SUFFICES ASSUME c \notin leaked PROVE Carries(k, x, db, lock, loose')
      BY Zenon
    <2>1. Carries(sess[s], conn[c], db, lock, loose) /\ Len(conn[c].stack) = sess[s].depth
      BY ZenonT(60), <1>5
    <2>2. InTxn(c) => sess[s].txn
      <3>1. InTxn(c) => Len(conn[c].stack) = 1
        BY ZenonT(60), <1>1, TopOne
      <3> QED
        BY ZenonT(60), <1>1, <2>1, <3>1, SessDurable DEF Sound
    <2>3. x.aborted => k.failed /\ k.txn
      BY ZenonT(60), <1>3, <1>6, <2>1, <2>2 DEF Carries
    <2>4. sess[s].pc = "tag" => t \in loose'
      <3>1. 1 > 0
        BY SMTT(60)
      <3>2. sess[s].pc = "tag" => sess[s].depth = 1 /\ t \in sess[s].wrote
        BY ZenonT(60), SessDurable DEF Sound
      <3> QED
        BY ZenonT(60), <1>2, <3>1, <3>2
    <2>5. \A F : Whole(F, loose, IF sess[s].pc = "tag" THEN {t} ELSE {}) => Whole(F, loose', {})
      BY ZenonT(60), <1>8, <2>4 DEF Whole
    <2>6. k.st = sess[s].st /\ k.pc = "idle" /\ (conn[c].stack # <<>> => Whole(conn[c].stack[1].add, loose', {}))
      BY ZenonT(60), <1>3, <2>1, <2>5 DEF Carries
    <2> HIDE DEF c, t
    <2> QED
      BY ZenonT(60), <1>3, <1>6, <2>1, <2>3, <2>6 DEF Carries, c
  <1>11. /\ c = sess[s].conn /\ leaked \subseteq leaked' /\ leaked' \subseteq leaked \cup {c}
         /\ k.conn \in {Nobody, c} /\ k.conn = c /\ x.owner = (IF k.conn = c THEN s ELSE Nobody)
         /\ Ctr(db') = Ctr(db) /\ lock' = lock
         /\ c \notin leaked' => Carries(k, x, db', lock', loose')
         /\ c \in leaked' => x.stack # <<>> /\ Len(x.stack) > Levels(k)
    BY ZenonT(60), <1>2, <1>3, <1>4, <1>5, <1>6, <1>7, <1>10 DEF InTxn
  <1> HIDE DEF c
  <1> QED
    BY ZenonT(60), <1>2, <1>4, <1>5, <1>8, <1>9, <1>11, SwapKeeps

LEMMA OpAbortsDurable ==
    ASSUME IInv, DInv, NEW s \in Sessions, NEW refused \in BOOLEAN, OpAborts(s, refused),
           sess[s].pc \in {"ready", "row", "tag", "commit"}
    PROVE  DInv'
  BY ZenonT(60), OpAbortsOwn, OpAbortsInside
----------------------------------------------------------------------------
(***************************************************************************)
(* close, Drop, and a crash.                                               *)
(***************************************************************************)
LEMMA FreeSound == Sound(FreeSession) /\ Holds(FreeSession) = {}
  <1>1. 0 # 1
    BY SMTT(60)
  <1> QED
    BY ZenonT(60), <1>1, FreeRecord DEF Sound, Holds

\* A session without a transaction
LEMMA CloseOutside ==
    ASSUME IInv, DInv, NEW s \in Sessions, NEW commit \in BOOLEAN, Close(s, commit), sess[s].depth = 0
    PROVE  DInv'
  <1> DEFINE c == sess[s].conn
             k == FreeSession
             x == [conn[c] EXCEPT !.owner = Nobody]
  <1>0. ~(0 > 0)
    BY SMTT(60)
  <1>1. /\ sess' = [sess EXCEPT ![s] = k] /\ db' = db /\ lock' = lock /\ acked' = acked
        /\ undone' = undone /\ nextTok' = nextTok /\ loose' = loose /\ leaked' = leaked
        /\ conn' = IF c = Nobody THEN conn ELSE [conn EXCEPT ![c] = x]
        /\ sess[s].pc = "idle"
    BY ZenonT(60), <1>0 DEF Close
  <1>2. Sound(k) /\ Holds(k) \subseteq Holds(sess[s]) /\ k.conn = Nobody
    BY ZenonT(60), FreeSound, FreeRecord
  <1> HIDE DEF k
  <1>3. loose \subseteq loose' /\ Ctr(db') = Ctr(db)
    BY ZenonT(60), <1>1
  <1>4. Tokens' /\ Kept'
    BY ZenonT(60), <1>1, <1>2, <1>3, NothingWritten
  <1>5. CASE c = Nobody
    <2>1. /\ UNCHANGED <<db, acked, undone, loose, leaked>> /\ conn' = conn /\ k.conn = sess[s].conn
          /\ lock' = lock
      BY ZenonT(60), <1>1, <1>2, <1>5
    <2>2. nextTok' \in Nat /\ nextTok <= nextTok'
      BY SMTT(60), <1>1 DEF IInv, TypeOK
    <2> QED
      BY ZenonT(60), <1>1, <1>2, <2>1, <2>2, QuietKeeps
  <1>6. CASE c # Nobody
    <2>1. sess[s].st = "active" /\ ~sess[s].txn
      BY ZenonT(60), <1>1, <1>6, SessType, Idle DEF Placed, Session
    <2>2. /\ c \in Conns /\ conn[c] \in Conn
          /\ c \notin leaked => Carries(sess[s], conn[c], db, lock, loose)
          /\ c \in leaked => InTxn(c)
      BY ZenonT(60), <1>1, <1>6, InTransaction
    <2>3. x.owner = Nobody /\ x.stack = conn[c].stack /\ x.aborted = conn[c].aborted
      BY ZenonT(60), <2>2 DEF Conn
    <2>4. conn' = [conn EXCEPT ![c] = x]
      BY ZenonT(60), <1>1, <1>6
    <2> HIDE DEF x
    <2>5. /\ c = sess[s].conn /\ leaked \subseteq leaked' /\ leaked' \subseteq leaked \cup {c}
          /\ k.conn \in {Nobody, c} /\ k.conn # c /\ x.owner = (IF k.conn = c THEN s ELSE Nobody)
          /\ c \notin leaked' => ~x.aborted
          /\ c \in leaked' => x.stack # <<>>
      BY ZenonT(60), <1>1, <1>2, <1>6, <2>1, <2>2, <2>3 DEF Carries, InTxn
    <2> HIDE DEF c
    <2> QED
      BY ZenonT(60), <1>1, <1>2, <1>3, <1>4, <2>2, <2>4, <2>5, SwapKeeps
  <1> QED
    BY ZenonT(60), <1>5, <1>6

\* A session with one
LEMMA CloseInside ==
    ASSUME IInv, DInv, NEW s \in Sessions, NEW commit \in BOOLEAN, Close(s, commit), sess[s].depth = 1
    PROVE  DInv'
  <1> DEFINE c == sess[s].conn
             k == FreeSession
             x == ClosedConn(c, commit)
             y == [x EXCEPT !.owner = Nobody]
             Ack(d) == [tok |-> d.tok, op |-> d.op, clean |-> ~sess[s].failed /\ c \notin leaked]
             R == {Ack(d) : d \in sess[s].done}
  <1>0. 1 > 0
    BY SMTT(60)
  <1>1. /\ sess' = [sess EXCEPT ![s] = k] /\ conn' = [conn EXCEPT ![c] = y]
        /\ lock' = LockAfter(c, x) /\ db' = ClosedDb(c, commit)
        /\ nextTok' = nextTok /\ loose' = loose /\ leaked' = leaked /\ sess[s].pc = "idle"
        /\ undone' = IF commit THEN undone ELSE undone \cup sess[s].wrote
        /\ acked' = acked \/ (commit /\ acked' = acked \cup R)
    BY ZenonT(60), <1>0 DEF Close, Reported
  <1>2. sess[s].st = "active" /\ c # Nobody
    <2>1. 0 # 1
      BY SMTT(60)
    <2> QED
      BY ZenonT(60), <2>1, SessType DEF Placed, Session
  <1>3. /\ Sound(k) /\ Holds(k) = {} /\ k.conn = Nobody /\ k.depth = 0 /\ k.pc = "idle" /\ k.done = {}
        /\ k.seen = {} /\ ~k.txn
    BY ZenonT(60), FreeSound, FreeRecord
  <1> HIDE DEF k
  <1>4. x \in {Committed(c), RolledBack(c)}
    BY ZenonT(60) DEF ClosedConn
  <1>5. c \in Conns /\ (c \notin leaked => Carries(sess[s], conn[c], db, lock, loose))
    BY ZenonT(60), <1>1, <1>2, InTransaction
  <1>6. x \in Conn
    BY ZenonT(60), <1>4, <1>5, EndedStack
  <1> HIDE DEF x
  <1>7. y.owner = Nobody /\ y.stack = x.stack /\ y.aborted = x.aborted
    BY ZenonT(60), <1>6 DEF Conn
  <1> HIDE DEF y
  <1>8. /\ db \subseteq db' /\ Whole(db', loose', {}) /\ (Ctr(db') = Ctr(db) \/ lock = c)
        /\ Toks(db') \subseteq Toks(db) \cup (IF commit THEN sess[s].wrote ELSE {})
        /\ commit /\ c \notin leaked /\ ~conn[c].aborted
             => \A o \in sess[s].done : Facts(o) \subseteq db'
    <2>1. CASE commit
      BY ZenonT(60), <1>1, <1>2, <2>1, CommitsWork DEF ClosedDb
    <2>2. CASE ~commit
      BY ZenonT(60), <1>1, <2>2 DEF ClosedDb, DInv, Kept
    <2> QED
      BY ZenonT(60), <2>1, <2>2
  <1>9. Kept'
    <2>1. \A d \in sess[s].done : ~Ack(d).clean \/ Facts(Ack(d)) \subseteq db' \/ ~commit
      <3> SUFFICES ASSUME NEW d \in sess[s].done, Ack(d).clean, commit
                   PROVE  Facts(Ack(d)) \subseteq db'
        BY ZenonT(60)
      <3>1. ~sess[s].failed /\ c \notin leaked /\ Facts(Ack(d)) = Facts(d)
        BY ZenonT(60) DEF Facts
      <3>2. ~conn[c].aborted
        BY ZenonT(60), <1>5, <3>1 DEF Carries
      <3> QED
        BY ZenonT(60), <1>8, <3>1, <3>2
    <2> HIDE DEF Ack
    <2>2. \A b \in acked' : b \in acked \/ ~b.clean \/ Facts(b) \subseteq db'
      BY ZenonT(60), <1>1, <2>1
    <2> QED
      BY ZenonT(60), <1>8, <2>2, KeptGrows
  <1>10. Tokens'
    <2> DEFINE A == IF commit THEN sess[s].wrote ELSE {}
               B == IF commit THEN {} ELSE sess[s].wrote
    <2>1. /\ A \subseteq Holds(sess[s]) /\ B \subseteq Holds(sess[s]) /\ A \cap B = {}
      BY ZenonT(60) DEF Holds
    <2>2. /\ undone' \subseteq undone \cup B /\ Toks(db') \subseteq Toks(db) \cup A
          /\ Holds(k) \subseteq Holds(sess[s]) /\ Holds(k) \cap (A \cup B) = {}
      BY ZenonT(60), <1>1, <1>3, <1>8
    <2> HIDE DEF A, B
    <2> QED
      BY ZenonT(60), <1>1, <2>1, <2>2, Settles
  <1>11. Ends(s, k, x, y)
    BY ZenonT(60), <1>1, <1>2, <1>3, <1>4, <1>7, <1>8 DEF Ends
  <1> QED
    BY ZenonT(60), <1>9, <1>10, <1>11, EndsKeeps

LEMMA CloseDurable ==
    ASSUME IInv, DInv, NEW s \in Sessions, NEW commit \in BOOLEAN, Close(s, commit)
    PROVE  DInv'
  <1>1. sess[s].depth \in {0, 1}
    BY ZenonT(60), SessType DEF Placed
  <1> QED
    BY ZenonT(60), <1>1, CloseInside, CloseOutside

LEMMA CrashDurable ==
    ASSUME IInv, DInv, Crash
    PROVE  DInv'
  <1>1. \A s \in Sessions : sess'[s] = FreeSession
    BY Zenon DEF Crash
  <1>2. \A c \in Conns : conn'[c].owner = Nobody /\ conn'[c].stack = <<>> /\ ~conn'[c].aborted
    BY Zenon DEF Crash
  <1>3. /\ db' = db /\ nextTok' = nextTok /\ acked' = acked /\ loose' = loose /\ leaked' = {}
        /\ undone' = undone \cup UNION {sess[s].wrote : s \in Sessions}
    BY ZenonT(60) DEF Crash
  <1>4. \A s \in Sessions : Sound(sess'[s]) /\ Holds(sess'[s]) = {} /\ sess'[s].conn = Nobody
    BY ZenonT(60), <1>1, FreeSound, FreeRecord
  <1>5. Work'
    BY ZenonT(60), <1>2, <1>4 DEF Work
  <1>6. Leaks'
    BY ZenonT(60), <1>3 DEF Leaks
  <1>7. Tokens'
    <2>1. /\ \A r \in Sessions : Holds(sess[r]) \cap (Toks(db) \cup undone) = {}
          /\ \A r \in Sessions : \A t \in Holds(sess[r]) : t < nextTok
          /\ \A t \in Toks(db) \cup undone : t < nextTok
          /\ Toks(db) \cap undone = {}
      BY ZenonT(60) DEF DInv, Tokens
    <2>2. \A r \in Sessions : sess[r].wrote \subseteq Holds(sess[r])
      BY ZenonT(60) DEF Holds
    <2>3. \A t \in undone' : t \in undone \/ \E r \in Sessions : t \in Holds(sess[r])
      BY ZenonT(60), <1>3, <2>2
    <2>4. \A t \in Toks(db') \cup undone' : t < nextTok'
      BY ZenonT(60), <1>3, <2>1, <2>3
    <2>5. Toks(db') \cap undone' = {}
      BY ZenonT(60), <1>3, <2>1, <2>3
    <2>6. /\ \A s \in Sessions : Holds(sess'[s]) \cap (Toks(db') \cup undone') = {}
          /\ \A r, s \in Sessions : r # s => Holds(sess'[r]) \cap Holds(sess'[s]) = {}
          /\ \A s \in Sessions : \A t \in Holds(sess'[s]) : t < nextTok'
      BY ZenonT(60), <1>4
    <2> QED
      BY ZenonT(60), <2>4, <2>5, <2>6 DEF Tokens, Toks, Holds
  <1>8. Kept'
    BY ZenonT(60), <1>3 DEF DInv, Kept, Facts, Whole
  <1> QED
    BY ZenonT(60), <1>4, <1>5, <1>6, <1>7, <1>8 DEF DInv, Sound
----------------------------------------------------------------------------
LEMMA InitDurable == Init => DInv
  <1> SUFFICES ASSUME Init PROVE DInv
    BY Zenon
  <1>1. \A s \in Sessions : sess[s] = FreeSession
    BY Zenon DEF Init
  <1>2. \A c \in Conns : conn[c].owner = Nobody /\ conn[c].stack = <<>> /\ ~conn[c].aborted
    BY Zenon DEF Init
  <1>3. /\ db = {[kind |-> "ctr", tok |-> 0]} /\ nextTok = 1 /\ acked = {} /\ leaked = {} /\ undone = {}
    BY ZenonT(60) DEF Init
  <1>4. \A s \in Sessions : Sound(sess[s]) /\ Holds(sess[s]) = {} /\ sess[s].conn = Nobody
    BY ZenonT(60), <1>1, FreeSound, FreeRecord
  <1>5. Work /\ Leaks
    BY ZenonT(60), <1>2, <1>3, <1>4 DEF Work, Leaks
  <1>6. 0 \in Nat /\ 0 < 1
    BY SMTT(60)
  <1>7. Toks(db) = {0} /\ \A f \in db : f.kind = "ctr"
    <2> DEFINE g == [kind |-> "ctr", tok |-> 0]
    <2>1. g.kind = "ctr" /\ g.tok = 0 /\ db = {g}
      BY ZenonT(60), <1>3
    <2> HIDE DEF g
    <2> QED
      BY ZenonT(60), <2>1 DEF Toks
  <1>8. Tokens
    BY ZenonT(60), <1>3, <1>4, <1>6, <1>7 DEF Tokens
  <1>9. Kept
    BY ZenonT(60), <1>3, <1>7 DEF Kept, Whole
  <1> QED
    BY ZenonT(60), <1>4, <1>5, <1>8, <1>9 DEF DInv

LEMMA NextDurable == IInv /\ DInv /\ [Next]_vars => DInv'
  <1> SUFFICES ASSUME IInv, DInv, [Next]_vars PROVE DInv'
    BY Zenon
  <1>1. CASE UNCHANGED vars
    <2>1. /\ db' = db /\ conn' = conn /\ lock' = lock /\ sess' = sess /\ nextTok' = nextTok
          /\ acked' = acked /\ undone' = undone /\ loose' = loose /\ leaked' = leaked
      BY ZenonT(60), <1>1 DEF vars
    <2>2. Work'
      <3>1. \A s \in Sessions : sess'[s].conn # Nobody /\ sess'[s].conn \notin leaked'
                                => Carries(sess'[s], conn'[sess'[s].conn], db', lock', loose')
        BY ZenonT(60), <2>1 DEF DInv, Work
      <3>2. \A c \in Conns \ leaked' : conn'[c].owner = Nobody => ~conn'[c].aborted
        BY ZenonT(60), <2>1 DEF DInv, Work
      <3> QED
        BY ZenonT(60), <3>1, <3>2 DEF Work, Carries, Sqlite, Toks, Facts, Whole, Ctr
    <2>5. Leaks'
      BY ZenonT(60), <2>1 DEF DInv, Leaks, Levels
    <2>3. Tokens' /\ Kept'
      BY ZenonT(60), <2>1 DEF DInv, Tokens, Kept, Toks, Holds, Facts, Whole
    <2>4. \A s \in Sessions : Sound(sess[s])'
      BY ZenonT(60), <2>1 DEF DInv, Sound
    <2> QED
      BY ZenonT(60), <2>2, <2>3, <2>4, <2>5 DEF DInv
  <1>2. ASSUME NEW s \in Sessions, NEW txn \in BOOLEAN, NewSession(s, txn)
        PROVE  DInv'
    BY ZenonT(60), <1>2, NewSessionDurable
  <1>3. ASSUME NEW s \in Sessions, NEW op \in Kinds, Call(s, op)
        PROVE  DInv'
    BY ZenonT(60), <1>3, CallDurable
  <1>4. ASSUME NEW s \in Sessions, Progress(s)
        PROVE  DInv'
    BY ZenonT(60), <1>4, AcquireDurable, BeginWritesDurable, ResolveDurable, FetchDurable,
       AsTransactionDurable, OpBeginWritesDurable, WriteRowDurable, WriteTagsDurable, RemoveDurable,
       OpCommitDurable
       DEF Progress
  <1>5. ASSUME NEW s \in Sessions, CallFails(s)
        PROVE  DInv'
    <2>1. CASE StatementRefused(s) \/ NotApplied(s) \/ Cancel(s)
      <3>1. /\ sess[s].pc \in {"ready", "row", "tag", "commit"}
            /\ OpAborts(s, TRUE) \/ OpAborts(s, FALSE)
        BY ZenonT(60), <2>1 DEF StatementRefused, NotApplied, Cancel
      <3> QED
        BY ZenonT(60), <3>1, OpAbortsDurable
    <2> QED
      BY ZenonT(60), <1>5, <2>1, AcquireTimeoutDurable, BeginFailsDurable, ResolveFailsDurable,
         OpBeginFailsDurable
         DEF CallFails
  <1>6. ASSUME NEW s \in Sessions, NEW commit \in BOOLEAN, Close(s, commit)
        PROVE  DInv'
    BY ZenonT(60), <1>6, CloseDurable
  <1> QED
    BY ZenonT(60), <1>1, <1>2, <1>3, <1>4, <1>5, <1>6, CrashDurable DEF Next

LEMMA DurabilityInvariant == Spec => []DInv
  BY InitDurable, NextDurable, SessionInvariant, PTL DEF Spec
----------------------------------------------------------------------------
\* What was reported done, by an operation outside of a transaction session or by
\* close(true), is in the database and stays there, on both backends, through every
\* interleaving of sessions, every refused statement, dropped future, timeout and crash,
\* for any number of sessions, connections and operations; the two cases in which the code
\* itself breaks this are left out, as in AckedDurable.
THEOREM AckedStaysDurable == Spec => []AckedDurable
  <1>1. DInv => AckedDurable
    BY ZenonT(60) DEF DInv, Kept, AckedDurable, Durable, Facts
  <1> QED
    BY <1>1, DurabilityInvariant, PTL

\* Nothing of what was rolled back, by close(false), by Drop or by a crash, is ever in the
\* database, and a row without its tags is there only if a transaction session committed
\* after its insert had failed: an insert that makes its own transaction is all or nothing.
THEOREM GivenUpIsGone == Spec => []NothingLeftOver
  <1>1. DInv => UndoneInvisible
    BY ZenonT(60) DEF DInv, Tokens, Toks, UndoneInvisible
  <1>2. DInv => HalfOnlyIfLoose
    BY ZenonT(60) DEF DInv, Kept, Whole, HalfOnlyIfLoose
  <1>3. DInv => NothingLeftOver
    BY ZenonT(60), <1>1, <1>2 DEF NothingLeftOver
  <1> QED
    BY <1>3, DurabilityInvariant, PTL
============================================================================
