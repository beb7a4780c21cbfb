------------------------------ MODULE OdbcProofs ------------------------------
(***************************************************************************)
(* PoolClean, OutcomesHold and KeysAgree of OdbcBackend, for any sessions, *)
(* connections, profiles, names and tags and any value of the bounds: OInv *)
(* as sessions open and end, in a crash and in the steps of a rekey, and   *)
(* with the steps of OdbcStatementProofs that it is an invariant.          *)
(***************************************************************************)
EXTENDS OdbcStatementProofs

(***************************************************************************)
(* Sessions: what is pending on the connection of one that is closed or    *)
(* dropped is committed, rolled back or passed on, and so is what one that *)
(* opens finds there.                                                      *)
(***************************************************************************)
\* The session that a connection is given back by has no call in flight, and no other
\* session has the connection.
OnlyHolder(s, c) ==
    /\ c = sess[s].conn /\ conn[c].holder = s /\ conn[c].holder # "rekey"
    /\ \A u \in Sessions \ {s} : IsOpen(u) => sess[u].conn # c
    /\ \A u \in Sessions : Busy(u) => sess[u].conn # c
    /\ sess[s].txn = ~conn[c].auto /\ sess[s].txn \in BOOLEAN

LEMMA HolderOnly ==
    ASSUME NEW s \in Sessions, IsOpen(s), sess[s].pc = "idle", Types, Holding
    PROVE  \E c \in Conns : OnlyHolder(s, c)
  <1>1. PICK c \in Conns : c = sess[s].conn
    BY OpenTyped, Zenon
  <1>2. conn[c].holder = s /\ sess[s].txn = ~conn[c].auto
    BY <1>1, Zenon DEF Holding
  <1>3. \A u \in Sessions : IsOpen(u) => conn[sess[u].conn].holder = u
    BY Zenon DEF Holding
  <1>4. \A u \in Sessions \ {s} : IsOpen(u) => sess[u].conn # c
    BY <1>2, <1>3, Zenon
  <1>5. \A u \in Sessions : Busy(u) => u # s /\ IsOpen(u)
    BY Zenon DEF Busy
  <1>6. "rekey" # s
    BY OdbcAssumption, Zenon
  <1>7. sess[s].txn \in BOOLEAN
    BY OpenTyped, Zenon
  <1> QED
    BY <1>1, <1>2, <1>4, <1>5, <1>6, <1>7, Zenon DEF OnlyHolder

\* The sessions after one has gone.
Gone(s) ==
    /\ sess' \in [Sessions -> Session]
    /\ ~IsOpen(s)'
    /\ \A u \in Sessions \ {s} : sess'[u] = sess[u]
    /\ \A u \in Sessions : IsOpen(u)' => IsOpen(u) /\ u # s /\ sess'[u] = sess[u]
    /\ \A u \in Sessions : IsOpen(u)' => sess'[u].gen \in DOMAIN caches
    /\ \A u \in Sessions : Busy(u)' <=> Busy(u)
    /\ \A u \in Sessions : Busy(u) => sess'[u] = sess[u]

LEMMA SessionGone ==
    ASSUME NEW s \in Sessions, IsOpen(s), sess[s].pc = "idle", Types,
           sess' = [sess EXCEPT ![s] = FreeSession]
    PROVE  Gone(s)
  <1>1. FreeSession \in Session /\ FreeSession.st # "open"
    BY Zenon DEF Session, FreeSession
  <1>2. /\ sess' \in [Sessions -> Session] /\ sess'[s] = FreeSession
        /\ \A u \in Sessions \ {s} : sess'[u] = sess[u]
    BY <1>1, Zenon DEF Types
  <1>3. ~IsOpen(s)' /\ ~Busy(s)' /\ ~Busy(s)
    BY <1>1, <1>2, Zenon DEF IsOpen, Busy
  <1>4. \A u \in Sessions \ {s} : (IsOpen(u)' <=> IsOpen(u)) /\ (Busy(u)' <=> Busy(u))
    BY <1>2, Zenon DEF IsOpen, Busy
  <1>5. \A u \in Sessions : IsOpen(u) => sess[u].gen \in DOMAIN caches
    BY Zenon DEF Types, IsOpen
  <1>6. \A u \in Sessions : IsOpen(u)' => IsOpen(u) /\ u # s /\ sess'[u] = sess[u]
    BY <1>2, <1>3, <1>4, Zenon
  <1>7. \A u \in Sessions : IsOpen(u)' => sess'[u].gen \in DOMAIN caches
    BY <1>5, <1>6, Zenon
  <1> QED
    BY <1>2, <1>3, <1>4, <1>6, <1>7, Zenon DEF Gone

\* The log after the commit of connection c's transaction by its session.
LEMMA CommittedLog ==
    ASSUME NEW c \in Conns, Types, log' = [t \in Tokens |-> Committed(t, c)]
    PROVE  /\ log' \in Seq(Entry) /\ Tokens' = Tokens
           /\ \A t \in Tokens : /\ log'[t].op = log[t].op /\ log'[t].ok = log[t].ok
                                /\ log'[t].over = log[t].over
           /\ \A t \in Tokens \ OpenOn(c) : log'[t] = log[t]
           /\ \A t \in OpenOn(c) : /\ log'[t].conn = Nobody /\ log'[t].fate \in {"kept", "leaked"}
                                   /\ log'[t].fate = "kept" => log[t].fate = "open"
  <1>1. ASSUME NEW t \in Tokens \ OpenOn(c) PROVE log'[t] = log[t] /\ log'[t] \in Entry
    <2>1. Committed(t, c) = log[t]
      BY Zenon DEF Committed, OpenOn
    <2> QED
      BY <2>1, LogTyped, Zenon
  <1>2. ASSUME NEW t \in OpenOn(c)
        PROVE  /\ t \in Tokens /\ log'[t] \in Entry
               /\ log'[t].op = log[t].op /\ log'[t].ok = log[t].ok /\ log'[t].over = log[t].over
               /\ log'[t].conn = Nobody /\ log'[t].fate \in {"kept", "leaked"}
               /\ log'[t].fate = "kept" => log[t].fate = "open"
    <2>1. t \in Tokens /\ log[t].conn = c /\ log[t].fate \in {"open", "dropped"}
      BY Zenon DEF OpenOn
    <2>2. PICK f : f = IF log[t].fate = "open" THEN "kept" ELSE "leaked"
      BY Zenon
    <2>3. f \in Fates /\ f \in {"kept", "leaked"} /\ f \notin {"open", "dropped"}
          /\ (f = "kept" => log[t].fate = "open")
      BY <2>2, SMTT(60) DEF Fates
    <2>4. PICK e \in Entry : e = log[t]
      BY <2>1, LogTyped, Zenon
    <2>5. log'[t] = Settled(e, f)
      BY <2>1, <2>2, <2>4, Zenon DEF Committed
    <2>6. SettledAs(e, f, Settled(e, f)) /\ Settled(e, f).ok = e.ok
      BY <2>3, SettledEntry, SMTT(60)
    <2> QED
      BY <2>1, <2>3, <2>4, <2>5, <2>6, Zenon DEF SettledAs
  <1>3. log' = [t \in Tokens |-> log'[t]] /\ \A t \in Tokens : log'[t] \in Entry
    BY <1>1, <1>2, Zenon
  <1>4. log' \in Seq(Entry) /\ Tokens' = Tokens
    BY <1>3, LogChanged, Zenon
  <1> QED
    BY <1>1, <1>2, <1>4, Zenon

\* The connection gets another holder.
LEMMA HolderChanged ==
    ASSUME NEW c \in Conns, NEW h \in Sessions \cup {Nobody, "rekey"}, Types,
           conn' = [conn EXCEPT ![c].holder = h]
    PROVE  /\ conn' \in [Conns -> Conn] /\ conn'[c].holder = h
           /\ conn'[c].auto = conn[c].auto
           /\ conn'[c].add = conn[c].add /\ conn'[c].del = conn[c].del
           /\ \A d \in Conns \ {c} : conn'[d] = conn[d]
  <1>1. conn[c] \in Conn
    BY ConnTyped, Zenon
  <1>2. PICK k : k = [conn[c] EXCEPT !.holder = h]
    BY Zenon
  <1>3. k \in Conn /\ k.holder = h /\ k.auto = conn[c].auto /\ k.add = conn[c].add /\ k.del = conn[c].del
    BY <1>1, <1>2, ZenonT(60) DEF Conn
  <1>4. conn' = [conn EXCEPT ![c] = k]
    BY <1>2, Zenon
  <1>5. conn'[c] = k /\ conn' \in [Conns -> Conn] /\ \A d \in Conns \ {c} : conn'[d] = conn[d]
    BY <1>3, <1>4, Zenon DEF Types
  <1> QED
    BY <1>3, <1>5, Zenon

LEMMA CloseKeeps ==
    ASSUME NEW s \in Sessions, NEW commit \in BOOLEAN, Close(s, commit), OInv
    PROVE  OInv'
  <1>0. Types /\ Holding /\ IsOpen(s) /\ sess[s].pc = "idle"
    BY Zenon DEF OInv, Close, IsOpen
  <1>1. PICK c \in Conns : OnlyHolder(s, c)
    BY <1>0, HolderOnly, Zenon
  <1>2. Gone(s)
    BY <1>0, SessionGone, Zenon DEF Close
  <1>3. /\ conn[c].holder # "rekey" /\ \A u \in Sessions : Busy(u) => sess[u].conn # c
        /\ \A u \in Sessions : IsOpen(u)' => IsOpen(u) /\ sess'[u] = sess[u] /\ sess[u].conn # c
    BY <1>1, <1>2, Zenon DEF OnlyHolder, Gone
  <1>4. /\ caches' = caches /\ adm' = adm /\ up' = up /\ nextId' = nextId /\ torn' = torn
    BY Zenon DEF Close
  <1>5. CASE sess[s].txn
    <2>1. /\ db' = ClosedDb(c, commit)
          /\ conn' = [conn EXCEPT ![c] = [ClosedConn(c) EXCEPT !.holder = Nobody]]
          /\ log' = IF commit THEN [t \in Tokens |-> Committed(t, c)]
                    ELSE Fated(log, OpenOn(c), "undone")
          /\ dirty' = dirty \ {c}
      BY <1>1, <1>5, Zenon DEF Close, OnlyHolder
    <2>2. PICK k : k = [AutocommitConn(c, TRUE) EXCEPT !.holder = Nobody]
      BY Zenon
    <2>3. Fresh(k, Nobody)
      BY <1>0, <2>2, FreshConn, Zenon
    <2>4. conn' = [conn EXCEPT ![c] = k]
      BY <2>1, <2>2, Zenon DEF ClosedConn
    <2>5. /\ conn' \in [Conns -> Conn] /\ conn'[c] = k
          /\ \A d \in Conns \ {c} : conn'[d] = conn[d]
      BY <1>0, <2>3, <2>4, Zenon DEF Types, Fresh
    <2>6. /\ log' \in Seq(Entry) /\ Tokens' = Tokens
          /\ \A t \in Tokens : /\ log'[t].op = log[t].op /\ log'[t].ok = log[t].ok
                               /\ log'[t].over = log[t].over
          /\ \A t \in Tokens \ OpenOn(c) : log'[t] = log[t]
          /\ \A t \in OpenOn(c) : log'[t].conn = Nobody /\ (log'[t].fate = "kept" => log[t].fate = "open")
          /\ \/ db' = View(c) /\ \A t \in OpenOn(c) : log'[t].fate \in {"kept", "leaked"}
             \/ db' = db /\ \A t \in OpenOn(c) : log'[t].fate = "undone"
      <3>1. CASE commit
        <4>1. db' = View(c) /\ log' = [t \in Tokens |-> Committed(t, c)]
          BY <2>1, <3>1, Zenon DEF ClosedDb
        <4> QED
          BY <1>0, <4>1, CommittedLog, Zenon
      <3>2. CASE ~commit
        <4>1. PICK f \in Fates : f = "undone"
          BY Zenon DEF Fates
        <4>2. db' = db /\ log' = Fated(log, OpenOn(c), f)
          BY <2>1, <3>2, <4>1, Zenon DEF ClosedDb
        <4>3. OpenOn(c) \in SUBSET Tokens
          BY Zenon DEF OpenOn
        <4>4. FatedAs(OpenOn(c), f)
          BY <1>0, <4>2, <4>3, FatedLog, Zenon
        <4>5. \A t \in OpenOn(c) : log'[t].fate = "undone" /\ log'[t].conn = Nobody
          BY <4>1, <4>4, SMTT(60) DEF FatedAs
        <4> QED
          BY <4>2, <4>4, <4>5, Zenon DEF FatedAs
      <3> QED
        BY <3>1, <3>2, Zenon
    <2>7. Ends(c)
      BY <1>2, <1>3, <1>4, <2>1, <2>3, <2>5, <2>6, Zenon DEF Ends, Gone, Fresh
    <2> QED
      BY <2>7, EndsKeeps, Zenon
  <1>6. CASE ~sess[s].txn
    <2>1. conn' = [conn EXCEPT ![c].holder = Nobody] /\ db' = db /\ log' = log /\ dirty' = dirty
      BY <1>1, <1>6, Zenon DEF Close, OnlyHolder
    <2>2. /\ conn' \in [Conns -> Conn] /\ conn'[c].auto = conn[c].auto
          /\ conn'[c].add = conn[c].add /\ conn'[c].del = conn[c].del
          /\ \A d \in Conns \ {c} : conn'[d] = conn[d]
      BY <1>0, <2>1, HolderChanged, Zenon
    <2>3. conn'[c].auto
      BY <1>1, <1>6, <2>2, Zenon DEF OnlyHolder
    <2>4. log' \in Seq(Entry) /\ Tokens' = Tokens /\ dirty' \subseteq Conns
      BY <1>0, <2>1, Zenon DEF Types, Tokens
    <2>5. Passes(c)
      BY <1>2, <1>3, <1>4, <2>1, <2>2, <2>3, <2>4, Zenon DEF Passes, Gone
    <2> QED
      BY <2>5, PassesKeeps, Zenon
  <1> QED
    BY <1>5, <1>6, Zenon

LEMMA DropSessionKeeps ==
    ASSUME NEW s \in Sessions, DropSession(s), OInv
    PROVE  OInv'
  <1>0. Types /\ Holding /\ IsOpen(s) /\ sess[s].pc = "idle" /\ sess[s].txn
    BY Zenon DEF OInv, DropSession, IsOpen
  <1>1. PICK c \in Conns : OnlyHolder(s, c)
    BY <1>0, HolderOnly, Zenon
  <1>2. Gone(s)
    BY <1>0, SessionGone, Zenon DEF DropSession
  <1>3. /\ conn[c].holder # "rekey" /\ \A u \in Sessions : Busy(u) => sess[u].conn # c
        /\ \A u \in Sessions : IsOpen(u)' => IsOpen(u) /\ sess'[u] = sess[u] /\ sess[u].conn # c
    BY <1>1, <1>2, Zenon DEF OnlyHolder, Gone
  <1>4. /\ caches' = caches /\ adm' = adm /\ up' = up /\ nextId' = nextId /\ torn' = torn /\ db' = db
    BY Zenon DEF DropSession
  <1>5. PICK T : T = {t \in OpenOn(c) : log[t].fate = "open"}
    BY Zenon
  <1>6. PICK f \in Fates : f = "dropped"
    BY Zenon DEF Fates
  <1>7. /\ conn' = [conn EXCEPT ![c].holder = Nobody] /\ dirty' = dirty \cup {c}
        /\ log' = Fated(log, T, f)
    BY <1>1, <1>5, <1>6, Zenon DEF DropSession, OnlyHolder
  <1>8. T \in SUBSET Tokens /\ T \subseteq OpenOn(c)
    BY <1>5, Zenon DEF OpenOn
  <1>9. FatedAs(T, f)
    BY <1>0, <1>7, <1>8, FatedLog, Zenon
  <1>10. \A t \in T : log'[t].fate = "dropped" /\ log'[t].conn = log[t].conn
    BY <1>6, <1>9, SMTT(60) DEF FatedAs
  <1>11. \A t \in Tokens : /\ log'[t].conn = log[t].conn
                           /\ log'[t] = log[t] \/ (t \in OpenOn(c) /\ log'[t].fate = "dropped")
    BY <1>8, <1>9, <1>10, Zenon DEF FatedAs
  <1>12. /\ conn' \in [Conns -> Conn] /\ conn'[c].auto = conn[c].auto
         /\ conn'[c].add = conn[c].add /\ conn'[c].del = conn[c].del
         /\ \A d \in Conns \ {c} : conn'[d] = conn[d]
    BY <1>0, <1>7, HolderChanged, Zenon
  <1>13. dirty' \subseteq Conns /\ dirty \subseteq dirty' /\ c \in dirty'
    BY <1>0, <1>7, Zenon DEF Types
  <1>14. Passes(c)
    BY <1>2, <1>3, <1>4, <1>9, <1>11, <1>12, <1>13, Zenon DEF Passes, Gone, FatedAs
  <1> QED
    BY <1>14, PassesKeeps, Zenon

\* The sessions after one has been made on connection c of the pool.
Made(s, c, txn) ==
    /\ sess' \in [Sessions -> Session]
    /\ sess'[s].conn = c /\ sess'[s].txn = txn
    /\ \A u \in Sessions : IsOpen(u)' => u = s \/ (IsOpen(u) /\ sess'[u] = sess[u])
    /\ \A u \in Sessions : IsOpen(u)' => sess'[u].gen \in DOMAIN caches
    /\ \A u \in Sessions : Busy(u)' <=> Busy(u)
    /\ \A u \in Sessions : Busy(u) => sess'[u] = sess[u]

LEMMA SessionMade ==
    ASSUME NEW s \in Sessions, NEW c \in Conns, NEW txn \in BOOLEAN, NEW p \in Profiles,
           sess[s].st = "free", Types,
           sess' = [sess EXCEPT ![s] = [st |-> "open", conn |-> c, txn |-> txn, gen |-> Len(caches),
                                        profile |-> p, pc |-> "idle"]]
    PROVE  Made(s, c, txn)
  <1>1. Len(caches) \in Nat /\ Len(caches) \in DOMAIN caches
    <2>1. PICK S : caches \in Seq(S) /\ caches # <<>>
      BY Zenon DEF Types
    <2> QED
      BY <2>1, SMTT(60)
  <1>2. PICK k : k = [st |-> "open", conn |-> c, txn |-> txn, gen |-> Len(caches),
                      profile |-> p, pc |-> "idle"]
    BY Zenon
  <1>3. k \in IdleSession /\ k.gen \in DOMAIN caches /\ k.pc = "idle" /\ k.conn = c
    BY <1>1, <1>2, SMTT(60) DEF IdleSession
  <1>4. k.txn = txn
    BY <1>2, Zenon
  <1>5. /\ sess' \in [Sessions -> Session] /\ sess'[s] = k
        /\ \A u \in Sessions \ {s} : sess'[u] = sess[u]
    BY <1>2, <1>3, Zenon DEF Types, Session
  <1>6. ~Busy(s)' /\ ~Busy(s)
    BY <1>3, <1>5, Zenon DEF Busy, IsOpen
  <1>7. \A u \in Sessions \ {s} : (IsOpen(u)' <=> IsOpen(u)) /\ (Busy(u)' <=> Busy(u))
    BY <1>5, Zenon DEF IsOpen, Busy
  <1>8. \A u \in Sessions : IsOpen(u) => sess[u].gen \in DOMAIN caches
    BY Zenon DEF Types, IsOpen
  <1>9. \A u \in Sessions : IsOpen(u)' => sess'[u].gen \in DOMAIN caches
    BY <1>3, <1>5, <1>7, <1>8, Zenon
  <1> QED
    BY <1>3, <1>4, <1>5, <1>6, <1>7, <1>9, Zenon DEF Made

\* What the mode a session asks for makes of the connection's transaction.
LEMMA AutocommitLog ==
    ASSUME NEW c \in Conns, NEW f \in {"leaked", "undone"}, Types, log' = Fated(log, OpenOn(c), f),
           \/ f = "leaked" /\ db' = View(c)
           \/ f = "undone" /\ db' = db
    PROVE  /\ log' \in Seq(Entry) /\ Tokens' = Tokens
           /\ \A t \in Tokens : /\ log'[t].op = log[t].op /\ log'[t].ok = log[t].ok
                                /\ log'[t].over = log[t].over
           /\ \A t \in Tokens \ OpenOn(c) : log'[t] = log[t]
           /\ \A t \in OpenOn(c) : log'[t].conn = Nobody /\ (log'[t].fate = "kept" => log[t].fate = "open")
           /\ \/ db' = View(c) /\ \A t \in OpenOn(c) : log'[t].fate \in {"kept", "leaked"}
              \/ db' = db /\ \A t \in OpenOn(c) : log'[t].fate = "undone"
  <1>1. f \in Fates /\ f \notin {"open", "dropped"} /\ f # "kept"
    BY SMTT(60) DEF Fates
  <1>2. FatedAs(OpenOn(c), f)
    <2>1. OpenOn(c) \in SUBSET Tokens
      BY Zenon DEF OpenOn
    <2> QED
      BY <1>1, <2>1, FatedLog, Zenon
  <1>3. \A t \in OpenOn(c) : log'[t].fate = f /\ log'[t].conn = Nobody
    BY <1>1, <1>2, Zenon DEF FatedAs
  <1> QED
    BY <1>1, <1>2, <1>3, Zenon DEF FatedAs

LEMMA NewSessionKeeps ==
    ASSUME NEW s \in Sessions, NEW p \in Profiles, NEW txn \in BOOLEAN, NewSession(s, p, txn), OInv
    PROVE  OInv'
  <1>0. Types /\ Holding /\ sess[s].st = "free"
    BY Zenon DEF OInv, NewSession
  <1>1. PICK c \in Conns, found \in BOOLEAN :
           /\ PoolHas(c)
           /\ db' = AutocommitDb(c, ~txn)
           /\ IF found
              THEN /\ conn' = [conn EXCEPT ![c] = [AutocommitConn(c, ~txn) EXCEPT !.holder = s]]
                   /\ sess' = [sess EXCEPT ![s] =
                                 [st |-> "open", conn |-> c, txn |-> txn, gen |-> Len(caches),
                                  profile |-> p, pc |-> "idle"]]
                   /\ log' = IF txn THEN log ELSE Fated(log, OpenOn(c), "leaked")
              ELSE /\ conn' = [conn EXCEPT ![c] = [AutocommitConn(c, ~txn)
                                                     EXCEPT !.add = {}, !.del = {}, !.auto = TRUE]]
                   /\ sess' = sess
                   /\ log' = Fated(log, OpenOn(c), IF txn THEN "undone" ELSE "leaked")
           /\ dirty' = IF txn /\ found THEN dirty ELSE dirty \ {c}
    BY Zenon DEF NewSession
  <1>2. /\ \A u \in Sessions : IsOpen(u) => sess[u].conn # c
        /\ conn[c].holder # "rekey"
        /\ conn[c].holder = Nobody
    BY <1>0, <1>1, PoolFree, Zenon DEF PoolHas
  <1>3. \A u \in Sessions : Busy(u) => sess[u].conn # c
    BY <1>2, Zenon DEF Busy
  <1>4. /\ caches' = caches /\ adm' = adm /\ up' = up /\ nextId' = nextId /\ torn' = torn
    BY Zenon DEF NewSession
  <1>5. CASE found /\ txn
    <2>1. /\ db' = db /\ log' = log /\ dirty' = dirty
          /\ conn' = [conn EXCEPT ![c] = [[conn[c] EXCEPT !.auto = FALSE] EXCEPT !.holder = s]]
      BY <1>1, <1>5, Zenon DEF AutocommitDb, AutocommitConn
    <2>2. Made(s, c, txn)
      BY <1>0, <1>1, <1>5, SessionMade, Zenon
    <2>3. PICK z : z = [conn[c] EXCEPT !.auto = FALSE]
      BY Zenon
    <2>4. PICK k : k = [z EXCEPT !.holder = s]
      BY Zenon
    <2>5. z \in Conn /\ ~z.auto /\ z.add = conn[c].add /\ z.del = conn[c].del
      <3>1. conn[c] \in Conn /\ FALSE \in BOOLEAN
        BY <1>0, ConnTyped, Zenon
      <3> QED
        BY <2>3, <3>1, ZenonT(60) DEF Conn
    <2>6. k \in Conn /\ ~k.auto /\ k.add = conn[c].add /\ k.del = conn[c].del /\ k.holder = s
      BY <2>4, <2>5, ZenonT(60) DEF Conn
    <2>7. conn' = [conn EXCEPT ![c] = k]
      BY <2>1, <2>3, <2>4, Zenon
    <2>8. /\ conn' \in [Conns -> Conn] /\ conn'[c] = k
          /\ \A d \in Conns \ {c} : conn'[d] = conn[d]
      BY <1>0, <2>6, <2>7, Zenon DEF Types
    <2>9. /\ conn'[c].holder = s /\ ~conn'[c].auto
          /\ conn'[c].add = conn[c].add /\ conn'[c].del = conn[c].del
      BY <2>6, <2>8, Zenon
    <2>10. s \notin {Nobody, "rekey"}
      BY OdbcAssumption, Zenon
    <2>11. \A u \in Sessions : IsOpen(u)' =>
              \/ IsOpen(u) /\ sess'[u] = sess[u] /\ sess[u].conn # c
              \/ sess'[u].conn = c /\ conn'[c].holder = u /\ sess'[u].txn = ~conn'[c].auto
      BY <1>2, <1>5, <2>2, <2>9, Zenon DEF Made
    <2>12. log' \in Seq(Entry) /\ Tokens' = Tokens /\ dirty' \subseteq Conns
      BY <1>0, <2>1, Zenon DEF Types, Tokens
    <2>13. Passes(c)
      BY <1>2, <1>3, <1>4, <2>1, <2>2, <2>8, <2>9, <2>10, <2>11, <2>12, Zenon DEF Passes, Made
    <2> QED
      BY <2>13, PassesKeeps, Zenon
  <1>6. CASE ~(found /\ txn)
    <2>1. PICK f \in {"leaked", "undone"} : f = IF txn THEN "undone" ELSE "leaked"
      BY Zenon
    <2>2. /\ log' = Fated(log, OpenOn(c), f)
          /\ \/ f = "leaked" /\ db' = View(c)
             \/ f = "undone" /\ db' = db
      BY <1>1, <1>6, <2>1, Zenon DEF AutocommitDb
    <2>3. /\ log' \in Seq(Entry) /\ Tokens' = Tokens
          /\ \A t \in Tokens : /\ log'[t].op = log[t].op /\ log'[t].ok = log[t].ok
                               /\ log'[t].over = log[t].over
          /\ \A t \in Tokens \ OpenOn(c) : log'[t] = log[t]
          /\ \A t \in OpenOn(c) : log'[t].conn = Nobody /\ (log'[t].fate = "kept" => log[t].fate = "open")
          /\ \/ db' = View(c) /\ \A t \in OpenOn(c) : log'[t].fate \in {"kept", "leaked"}
             \/ db' = db /\ \A t \in OpenOn(c) : log'[t].fate = "undone"
      BY <1>0, <2>2, AutocommitLog, Zenon
    <2>4. dirty' = dirty \ {c}
      BY <1>1, <1>6, Zenon
    <2>5. PICK k, h : Fresh(k, h) /\ conn' = [conn EXCEPT ![c] = k] /\ (found => h = s)
      <3>1. CASE found
        <4>1. conn' = [conn EXCEPT ![c] = [AutocommitConn(c, TRUE) EXCEPT !.holder = s]]
          BY <1>1, <1>6, <3>1, Zenon DEF AutocommitConn
        <4>2. Fresh([AutocommitConn(c, TRUE) EXCEPT !.holder = s], s)
          BY <1>0, FreshConn, Zenon
        <4> QED
          BY <4>1, <4>2, Zenon
      <3>2. CASE ~found
        <4>1. PICK b \in BOOLEAN : AutocommitConn(c, ~txn) = AutocommitConn(c, b)
          <5>1. CASE txn
            BY <5>1, Zenon DEF AutocommitConn
          <5>2. CASE ~txn
            BY <5>2, Zenon DEF AutocommitConn
          <5> QED
            BY <5>1, <5>2, Zenon
        <4>2. conn' = [conn EXCEPT ![c] = [AutocommitConn(c, b) EXCEPT !.add = {}, !.del = {}, !.auto = TRUE]]
          BY <1>1, <3>2, <4>1, Zenon
        <4>3. Fresh([AutocommitConn(c, b) EXCEPT !.add = {}, !.del = {}, !.auto = TRUE], Nobody)
          <5>1. PICK h \in Sessions \cup {Nobody, "rekey"} : h = Nobody
            BY Zenon
          <5>2. conn[c].holder = h => Fresh([AutocommitConn(c, b) EXCEPT !.add = {}, !.del = {}, !.auto = TRUE], h)
            BY <1>0, FreshConn, Zenon
          <5> QED
            BY <1>2, <5>1, <5>2, Zenon
        <4> QED
          BY <3>2, <4>2, <4>3, Zenon
      <3> QED
        BY <3>1, <3>2, Zenon
    <2>6. /\ conn' \in [Conns -> Conn] /\ conn'[c] = k
          /\ \A d \in Conns \ {c} : conn'[d] = conn[d]
      BY <1>0, <2>5, Zenon DEF Types, Fresh
    <2>7. /\ sess' \in [Sessions -> Session]
          /\ \A u \in Sessions : IsOpen(u)' => sess'[u].gen \in DOMAIN caches
          /\ \A u \in Sessions : Busy(u)' <=> Busy(u)
          /\ \A u \in Sessions : Busy(u) => sess'[u] = sess[u]
          /\ \A u \in Sessions : IsOpen(u)' =>
                \/ IsOpen(u) /\ sess'[u] = sess[u] /\ sess[u].conn # c
                \/ sess'[u].conn = c /\ ~sess'[u].txn /\ conn'[c].holder = u
      <3>1. CASE found
        <4>1. Made(s, c, txn)
          BY <1>0, <1>1, <3>1, SessionMade, Zenon
        <4>2. conn'[c].holder = s /\ ~txn
          BY <1>6, <2>5, <2>6, <3>1, Zenon DEF Fresh
        <4> QED
          BY <1>2, <4>1, <4>2, Zenon DEF Made
      <3>2. CASE ~found
        <4>1. sess' = sess
          BY <1>1, <3>2, Zenon
        <4>2. \A u \in Sessions : (Busy(u)' <=> Busy(u)) /\ (IsOpen(u)' <=> IsOpen(u))
          BY <4>1, Zenon DEF Busy, IsOpen
        <4>3. /\ sess \in [Sessions -> Session]
              /\ \A u \in Sessions : IsOpen(u) => sess[u].gen \in DOMAIN caches
          BY <1>0, Zenon DEF Types, IsOpen
        <4> QED
          BY <1>2, <4>1, <4>2, <4>3, Zenon
      <3> QED
        BY <3>1, <3>2, Zenon
    <2>8. Ends(c)
      BY <1>2, <1>3, <1>4, <2>3, <2>4, <2>5, <2>6, <2>7, Zenon DEF Ends, Fresh
    <2> QED
      BY <2>8, EndsKeeps, Zenon
  <1> QED
    BY <1>5, <1>6, Zenon
----------------------------------------------------------------------------
(***************************************************************************)
(* A crash.                                                                *)
(***************************************************************************)
LEMMA CrashKeeps ==
    ASSUME Crash, OInv
    PROVE  OInv'
  <1>0. Types /\ Holding /\ InFlight /\ BooksKept /\ KeyInv
    BY Zenon DEF OInv
  <1>1. /\ db' = db /\ caches' = caches /\ nextId' = nextId /\ ~up' /\ adm' = NoCall /\ dirty' = {}
        /\ torn' = (torn \/ Rewrapping)
    BY Zenon DEF Crash, Rewrapping
  <1>2. \A c \in Conns : conn'[c] = [holder |-> Nobody, auto |-> TRUE, add |-> {}, del |-> {}]
    BY Zenon DEF Crash
  <1>3. \A c \in Conns : conn'[c].auto /\ conn'[c].add = {} /\ conn'[c].del = {} /\ conn'[c] \in Conn
    <2>1. PICK k : k = [holder |-> Nobody, auto |-> TRUE, add |-> {}, del |-> {}]
      BY Zenon
    <2>2. k.auto /\ k.add = {} /\ k.del = {} /\ k \in Conn
      <3>1. {} \in SUBSET Row /\ TRUE \in BOOLEAN
        BY Zenon
      <3> QED
        BY <2>1, <3>1, ZenonT(60) DEF Conn
    <2> QED
      BY <1>2, <2>1, <2>2, Zenon
  <1>4. conn' \in [Conns -> Conn]
    BY <1>3, Zenon DEF Crash
  <1>5. FreeSession.st # "open" /\ FreeSession \in Session
    BY Zenon DEF FreeSession, Session
  <1>6. /\ sess' \in [Sessions -> Session]
        /\ \A u \in Sessions : ~IsOpen(u)' /\ ~Busy(u)'
    BY <1>5, Zenon DEF Crash, IsOpen, Busy
  <1>7. ASSUME NEW t \in Tokens, Live(t)
        PROVE  /\ log'[t] \in Entry /\ log'[t].op = log[t].op /\ log'[t].ok = log[t].ok
               /\ log'[t].over = log[t].over
               /\ log'[t].fate = IF conn[log[t].conn].auto THEN "kept" ELSE "undone"
    <2>1. PICK f : f = IF conn[log[t].conn].auto THEN "kept" ELSE "undone"
      BY Zenon
    <2>2. f \in Fates
      BY <2>1, SMTT(60) DEF Fates
    <2>3. PICK e \in Entry : e = log[t]
      BY <1>0, LogTyped, Zenon
    <2>4. log'[t] = Settled(e, f)
      BY <1>7, <2>1, <2>3, Zenon DEF Crash, Live
    <2>5. SettledAs(e, f, Settled(e, f)) /\ Settled(e, f).ok = e.ok
      BY <2>2, SettledEntry, SMTT(60)
    <2> QED
      BY <2>1, <2>3, <2>4, <2>5, Zenon DEF SettledAs
  <1>8. ASSUME NEW t \in Tokens, ~Live(t) PROVE log'[t] = log[t] /\ log'[t] \in Entry
    <2>1. log'[t] = log[t]
      BY <1>8, Zenon DEF Crash, Live
    <2> QED
      BY <1>0, <2>1, LogTyped, Zenon
  <1>9. log' = [t \in Tokens |-> log'[t]] /\ \A t \in Tokens : log'[t] \in Entry
    BY <1>7, <1>8, Zenon DEF Crash
  <1>10. log' \in Seq(Entry) /\ Tokens' = Tokens
    BY <1>0, <1>9, LogChanged, Zenon
  <1>11. /\ \A t \in Tokens : /\ log'[t].op = log[t].op /\ log'[t].ok = log[t].ok
                              /\ log'[t].over = log[t].over
         /\ \A t \in Tokens : log'[t].fate \notin {"open", "dropped"}
    BY <1>7, <1>8, Zenon DEF Live
  <1>12. \A t \in Tokens : log[t].fate = "dropped" => ~conn[log[t].conn].auto
    <2> SUFFICES ASSUME NEW t \in Tokens, log[t].fate = "dropped", conn[log[t].conn].auto PROVE FALSE
      BY Zenon
    <2>1. PICK u \in Sessions : Busy(u) /\ sess[u].tok = t
      BY <1>0, Zenon DEF InFlight, Live
    <2>2. log[t].fate = "open"
      BY <1>0, <2>1, Zenon DEF InFlight
    <2> QED
      BY <2>2, Zenon
  <1>13. Types'
    <2>1. NoCall \in Adm
      BY <1>0, AdmTyped, Zenon
    <2>2. torn' \in BOOLEAN
      BY <1>1, Zenon
    <2>3. dirty' \subseteq Conns
      BY <1>1, Zenon
    <2> QED
      BY <1>0, <1>1, <1>4, <1>6, <1>10, <2>1, <2>2, <2>3, Zenon DEF Types, IsOpen
  <1>14. adm'.op # "rekey"
    BY <1>0, <1>1, AdmTyped, SMTT(60)
  <1>15. Holding'
    BY <1>3, <1>6, <1>14, Zenon DEF Holding
  <1>16. InFlight'
    BY <1>6, <1>10, <1>11, Zenon DEF InFlight, Live
  <1>17. \A t \in Tokens : t \in FixedToks' <=> t \in FixedToks
    <2> SUFFICES ASSUME NEW t \in Tokens PROVE Fixed(t)' <=> Fixed(t)
      BY <1>10, Zenon DEF FixedToks
    <2>1. CASE Live(t)
      <3>1. log'[t].fate = IF conn[log[t].conn].auto THEN "kept" ELSE "undone"
        BY <1>7, <2>1, Zenon
      <3>2. log[t].fate = "open" \/ (log[t].fate = "dropped" /\ ~conn[log[t].conn].auto)
        BY <1>12, <2>1, Zenon DEF Live
      <3> QED
        BY <1>11, <3>1, <3>2, SMTT(60) DEF Fixed
    <2>2. CASE ~Live(t)
      BY <1>8, <2>2, Zenon DEF Fixed, Live
    <2> QED
      BY <2>1, <2>2, Zenon
  <1>18. \A t \in Inserted' : t \in Inserted
    BY <1>6, <1>10, <1>11, Zenon DEF Inserted
  <1>19. BooksKept'
    <2>1. Overs' = Overs
      BY <1>10, <1>11, Zenon DEF Overs
    <2>2. \A d \in Conns : TxnToks'[d] = {} /\ Adds'[d] = {} /\ Dels'[d] = {}
      BY <1>3, Zenon DEF TxnToks, Adds, Dels
    <2>3. FixedToks \subseteq Tokens /\ FixedToks' \subseteq Tokens
      BY <1>10, Zenon DEF FixedToks
    <2>4. 0 \notin Tokens
      BY <1>0, LogTyped, Zenon
    <2>5. DroppedRows(db, Adds, Adds', Dels, Dels', FixedToks, FixedToks', TxnToks, TxnToks',
                      Inserted, Inserted', Overs, Overs', Conns)
      BY <1>0, <1>17, <1>18, <2>1, <2>2, <2>3, <2>4, Zenon DEF DroppedRows, BooksKept
    <2>6. Books(db, Adds', Dels', FixedToks', TxnToks', Inserted', Overs')
      BY <2>5, BooksRollback, Zenon
    <2> QED
      BY <1>1, <2>6, Zenon DEF BooksKept
  <1>20. KeyInv'
    <2>1. RowsLogged
      BY <1>0, BooksLogged, Zenon
    <2>2. Creations
      <3>1. ASSUME NEW t \in Tokens, log[t].op = "create", log'[t].fate = "kept"
            PROVE  log[t].fate = "kept"
        <4>1. CASE Live(t)
          <5>1. log[t].fate # "open"
            BY <1>0, <3>1, Zenon DEF InFlight
          <5>2. ~conn[log[t].conn].auto
            BY <1>12, <4>1, <5>1, Zenon DEF Live
          <5>3. log'[t].fate = "undone"
            BY <1>7, <4>1, <5>2, Zenon
          <5> QED
            BY <3>1, <5>3, Zenon
        <4>2. CASE ~Live(t)
          BY <1>8, <3>1, <4>2, Zenon
        <4> QED
          BY <4>1, <4>2, Zenon
      <3> QED
        BY <1>11, <3>1, Zenon DEF Creations
    <2>3. DbStep /\ ConnStep
      BY <1>1, <1>3, Zenon DEF DbStep, ConnStep, Pending
    <2>4. AdmStep
      BY <1>1, <1>14, Zenon DEF AdmStep
    <2> QED
      BY <1>0, <2>1, <2>2, <2>3, <2>4, KeyKept, Zenon
  <1> QED
    BY <1>13, <1>15, <1>16, <1>19, <1>20, Zenon DEF OInv
----------------------------------------------------------------------------
(***************************************************************************)
(* Rekey.                                                                  *)
(***************************************************************************)
\* Neither a session nor a change is touched.
LEMMA SameLog ==
    ASSUME sess' = sess, log' = log, \A c \in Conns : conn'[c].auto = conn[c].auto, InFlight
    PROVE  /\ InFlight'
           /\ FixedToks' = FixedToks /\ TxnToks' = TxnToks
           /\ Inserted' = Inserted /\ Overs' = Overs /\ Tokens' = Tokens
  <1>1. Tokens' = Tokens
    BY Zenon DEF Tokens
  <1>2. \A u \in Sessions : (Busy(u)' <=> Busy(u)) /\ sess'[u] = sess[u]
    BY Zenon DEF Busy, IsOpen
  <1>3. \A t \in Tokens : log'[t] = log[t] /\ (Live(t)' <=> Live(t))
    BY Zenon DEF Live
  <1>4. \A t \in Tokens : Live(t) => conn'[log[t].conn].auto = conn[log[t].conn].auto
    BY Zenon DEF InFlight
  <1>5. InFlight'
    <2>1. ASSUME NEW t \in Tokens', Live(t)'
          PROVE  /\ log'[t].conn \in Conns
                 /\ conn'[log'[t].conn].auto => \E u \in Sessions : Busy(u)' /\ sess'[u].tok = t
      <3>1. t \in Tokens /\ Live(t)
        BY <1>1, <1>3, <2>1, Zenon
      <3>2. /\ log[t].conn \in Conns
            /\ conn[log[t].conn].auto => \E u \in Sessions : Busy(u) /\ sess[u].tok = t
        BY <3>1, Zenon DEF InFlight
      <3> QED
        BY <1>2, <3>2, Zenon
    <2>2. ASSUME NEW u \in Sessions, Busy(u)'
          PROVE  /\ sess'[u].tok \in Tokens'
                 /\ log'[sess'[u].tok].conn = sess'[u].conn
                 /\ log'[sess'[u].tok].fate = "open" /\ ~log'[sess'[u].tok].ok
                 /\ log'[sess'[u].tok].op \in {"insert", "replace", "remove", "remove_all"}
                 /\ sess'[u].pc = "insert" => log'[sess'[u].tok].op = "insert"
                 /\ log'[sess'[u].tok].op = "insert" => sess'[u].pc \in {"insert", "item_id", "tag"}
                 /\ sess'[u].pc \in {"item_id", "tag"} => sess'[u].tags # {}
      <3>1. Busy(u)
        BY <1>2, <2>2, Zenon
      <3> QED
        BY <1>1, <3>1, Zenon DEF InFlight
    <2>3. ASSUME NEW t \in Tokens', log'[t].op \in {"create", "drop", "default", "rekey"}
          PROVE  log'[t].fate # "open"
      <3>1. t \in Tokens /\ log[t].op \in {"create", "drop", "default", "rekey"}
        BY <1>1, <2>3, Zenon
      <3>2. log[t].fate # "open"
        BY <3>1, Zenon DEF InFlight
      <3> QED
        BY <3>2, Zenon
    <2> QED
      BY <2>1, <2>2, <2>3, Zenon DEF InFlight
  <1>6. \A t \in Tokens : Fixed(t)' <=> Fixed(t)
    BY <1>3, <1>4, Zenon DEF Fixed, Live
  <1>7. FixedToks' = FixedToks
    BY <1>1, <1>6, Zenon DEF FixedToks
  <1>8. \A c \in Conns : OpenOn(c)' = OpenOn(c)
    BY <1>1, Zenon DEF OpenOn
  <1>9. TxnToks' = TxnToks
    <2>1. \A c \in Conns : (IF conn'[c].auto THEN {} ELSE OpenOn(c)') = (IF conn[c].auto THEN {} ELSE OpenOn(c))
      BY <1>8, Zenon
    <2> QED
      BY <2>1, Zenon DEF TxnToks
  <1>10. Inserted' = Inserted
    BY <1>1, <1>2, <1>3, Zenon DEF Inserted
  <1>11. Overs' = Overs
    BY <1>1, Zenon DEF Overs
  <1> QED
    BY <1>1, <1>5, <1>7, <1>9, <1>10, <1>11, Zenon

LEMMA RekeyFailsKeeps ==
    ASSUME RekeyFails, OInv
    PROVE  OInv'
  <1>0. Types /\ Holding /\ InFlight /\ BooksKept /\ KeyInv /\ adm.op = "rekey"
    BY Zenon DEF OInv, RekeyFails
  <1>1. PICK c \in Conns : c = adm.conn
    BY <1>0, AdmTyped, Zenon
  <1>2. /\ conn' = [conn EXCEPT ![c].holder = Nobody]
        /\ adm' = NoCall /\ torn' = (torn \/ adm.any)
        /\ db' = db /\ caches' = caches /\ sess' = sess /\ up' = up /\ nextId' = nextId
        /\ log' = log /\ dirty' = dirty
    BY <1>1, Zenon DEF RekeyFails, GiveBack
  <1>3. /\ conn' \in [Conns -> Conn] /\ conn'[c].auto = conn[c].auto
        /\ conn'[c].add = conn[c].add /\ conn'[c].del = conn[c].del
        /\ \A d \in Conns \ {c} : conn'[d] = conn[d]
    BY <1>0, <1>2, HolderChanged, Zenon
  <1>4. \A d \in Conns : /\ conn'[d].auto = conn[d].auto
                         /\ conn'[d].add = conn[d].add /\ conn'[d].del = conn[d].del
    BY <1>3, Zenon
  <1>5. /\ InFlight'
        /\ FixedToks' = FixedToks /\ TxnToks' = TxnToks
        /\ Inserted' = Inserted /\ Overs' = Overs /\ Tokens' = Tokens
    BY <1>0, <1>2, <1>4, SameLog, Zenon
  <1>6. NoCall \in Adm /\ adm'.op # "rekey"
    BY <1>0, <1>2, AdmTyped, SMTT(60)
  <1>7. Types'
    <2>1. torn' \in BOOLEAN
      BY <1>0, <1>2, AdmTyped, Zenon DEF Types
    <2> QED
      BY <1>0, <1>2, <1>3, <1>6, <2>1, Zenon DEF Types
  <1>8. Holding'
    <2>1. conn[c].holder = "rekey"
      BY <1>0, <1>1, Zenon DEF Holding
    <2>2. \A u \in Sessions : u # "rekey"
      BY OdbcAssumption, Zenon
    <2>3. \A u \in Sessions : IsOpen(u)' => IsOpen(u) /\ sess[u].conn \in Conns \ {c}
      <3>1. \A u \in Sessions : IsOpen(u) => sess[u].conn \in Conns /\ sess[u].conn # c
        BY <1>0, <2>1, <2>2, OpenTyped, Zenon DEF Holding
      <3> QED
        BY <1>2, <3>1, Zenon DEF IsOpen
    <2>4. \A u \in Sessions : IsOpen(u)' =>
             conn'[sess'[u].conn].holder = u /\ sess'[u].txn = ~conn'[sess'[u].conn].auto
      BY <1>0, <1>2, <1>3, <2>3, Zenon DEF Holding
    <2>5. \A d \in Conns : conn'[d].auto => conn'[d].add = {} /\ conn'[d].del = {}
      BY <1>0, <1>4, Zenon DEF Holding
    <2>6. \A d \in Conns \ dirty' : conn'[d].holder \in {Nobody, "rekey"} => conn'[d].auto
      BY <1>0, <1>2, <1>3, <2>1, Zenon DEF Holding
    <2> QED
      BY <1>6, <2>4, <2>5, <2>6, Zenon DEF Holding
  <1>9. BooksKept'
    <2>1. Adds' = Adds /\ Dels' = Dels
      BY <1>4, Zenon DEF Adds, Dels
    <2> QED
      BY <1>0, <1>2, <1>5, <2>1, Zenon DEF BooksKept
  <1>10. KeyInv'
    <2>1. RowsLogged
      BY <1>0, BooksLogged, Zenon
    <2>2. Creations /\ DbStep
      BY <1>2, Zenon DEF Creations, DbStep
    <2>3. ConnStep
      BY <1>2, <1>4, Zenon DEF ConnStep, Pending, Stray
    <2>4. AdmStep
      BY <1>2, <1>6, Zenon DEF AdmStep, Backend, Rewrapping
    <2> QED
      BY <1>0, <2>1, <2>2, <2>3, <2>4, KeyKept, Zenon
  <1> QED
    BY <1>5, <1>7, <1>8, <1>9, <1>10, Zenon DEF OInv

\* No session has the connection of a rekey.
LEMMA RekeyAlone ==
    ASSUME NEW c \in Conns, conn[c].holder = "rekey", Types, Holding
    PROVE  \A u \in Sessions : IsOpen(u) => sess[u].conn \in Conns \ {c}
  <1>1. \A u \in Sessions : u # "rekey"
    BY OdbcAssumption, Zenon
  <1> QED
    BY <1>1, OpenTyped, Zenon DEF Holding

LEMMA RekeyReadsKeeps ==
    ASSUME RekeyReads, OInv
    PROVE  OInv'
  <1>0. Types /\ Holding /\ InFlight /\ BooksKept /\ KeyInv /\ adm = NoCall
    BY Zenon DEF OInv, RekeyReads
  <1>1. PICK c \in Conns :
           /\ PoolHas(c)
           /\ conn' = [conn EXCEPT ![c].holder = "rekey"]
           /\ adm' = [op |-> "rekey", conn |-> c, todo |-> {r \in View(c) : r.t = "prof"}, any |-> FALSE,
                      key |-> Len(log) + 2]
           /\ log' = Answered(Logged("rekey", c, <<0, Default>>, {}), Len(log) + 1, c)
    BY Zenon DEF RekeyReads
  <1>2. /\ db' = db /\ caches' = caches /\ sess' = sess /\ up' = up /\ nextId' = nextId
        /\ dirty' = dirty /\ torn' = torn
    BY Zenon DEF RekeyReads
  <1>3. PICK m : m = Len(log) + 1
    BY Zenon
  <1>4. PICK op : op = "rekey"
    BY Zenon
  <1>5. PICK e : /\ AnsweredAs(e, op, c)
                 /\ Appended(Answered(Logged(op, c, <<0, Default>>, {}), Len(log) + 1, c), e)
    <2>1. op \in {"create", "drop", "default", "rekey"} /\ Default \in Profiles
      BY <1>4, OdbcAssumption, Zenon
    <2> QED
      BY <1>0, <2>1, AnsweredLog, Zenon
  <1>6. Started(m, e)
    <2>1. e \in Entry /\ Appended(log', e)
      BY <1>1, <1>4, <1>5, Zenon DEF AnsweredAs
    <2> QED
      BY <1>0, <1>3, <2>1, AppendedStarted, Zenon
  <1>7. /\ e.op = "rekey"
        /\ IF conn[c].auto THEN e.fate = "kept" ELSE e.fate = "dropped" /\ e.conn = c
    BY <1>4, <1>5, Zenon DEF AnsweredAs
  <1>8. /\ m \notin Tokens /\ Tokens' = Tokens \cup {m} /\ log'[m] = e
        /\ \A t \in Tokens : log'[t] = log[t]
    BY <1>6, Zenon DEF Started
  <1>9. /\ conn' \in [Conns -> Conn] /\ conn'[c].holder = "rekey" /\ conn'[c].auto = conn[c].auto
        /\ conn'[c].add = conn[c].add /\ conn'[c].del = conn[c].del
        /\ \A d \in Conns \ {c} : conn'[d] = conn[d]
    <2>1. PICK h \in Sessions \cup {Nobody, "rekey"} : h = "rekey"
      BY Zenon
    <2> QED
      BY <1>0, <1>1, <2>1, HolderChanged, Zenon
  <1>10. \A d \in Conns : /\ conn'[d].auto = conn[d].auto
                          /\ conn'[d].add = conn[d].add /\ conn'[d].del = conn[d].del
    BY <1>9, Zenon
  <1>11. View(c) \subseteq Row
    BY <1>0, ConnTyped, Zenon
  <1>12. /\ adm'.op = "rekey" /\ adm'.conn = c /\ adm'.todo = {r \in View(c) : r.t = "prof"}
         /\ ~adm'.any
    BY <1>1, Zenon
  <1>13. adm' \in Adm
    <2>1. {r \in View(c) : r.t = "prof"} \in SUBSET ProfRows
      BY <1>11, RowKinds, Zenon
    <2>2. Len(log) + 2 \in Nat
      BY <1>0, SMTT(60) DEF Types
    <2>3. adm' \in [op : {"rekey"}, conn : Conns, todo : SUBSET ProfRows, any : BOOLEAN, key : Nat]
      BY <1>1, <2>1, <2>2, ZenonT(60)
    <2> QED
      BY <2>3, Zenon DEF Adm
  <1>14. Types'
    BY <1>0, <1>2, <1>6, <1>9, <1>13, Zenon DEF Types, Started
  <1>15. Holding'
    <2>1. /\ \A u \in Sessions : IsOpen(u) => sess[u].conn \in Conns \ {c}
          /\ conn[c].holder = Nobody
      BY <1>0, <1>1, PoolFree, OpenTyped, Zenon DEF PoolHas
    <2>2. \A u \in Sessions : IsOpen(u)' =>
             conn'[sess'[u].conn].holder = u /\ sess'[u].txn = ~conn'[sess'[u].conn].auto
      BY <1>0, <1>2, <1>9, <2>1, Zenon DEF Holding, IsOpen
    <2>3. \A d \in Conns : conn'[d].auto => conn'[d].add = {} /\ conn'[d].del = {}
      BY <1>0, <1>10, Zenon DEF Holding
    <2>4. \A d \in Conns \ dirty' : conn'[d].holder \in {Nobody, "rekey"} => conn'[d].auto
      BY <1>0, <1>2, <1>9, <2>1, Zenon DEF Holding
    <2> QED
      BY <1>9, <1>12, <2>2, <2>3, <2>4, Zenon DEF Holding
  <1>16. InFlight'
    <2>1. AnsweredCall(c, m, e)
      BY <1>2, <1>6, <1>7, <1>10, Zenon DEF AnsweredCall
    <2> QED
      BY <1>0, <2>1, AnsweredInFlight, Zenon
  <1>17. BooksKept'
    <2>1. e.fate # "open"
      BY <1>7, Zenon
    <2>2. StartedToksAs(m, e)
      BY <1>0, <1>6, <1>10, <2>1, StartedToks, Zenon
    <2>3. \A u \in Sessions : Busy(u)' <=> Busy(u)
      BY <1>2, Zenon DEF Busy, IsOpen
    <2>4. \A t \in Inserted' : t \in Tokens
      <3>1. Inserted' \subseteq Tokens'
        BY Zenon DEF Inserted
      <3>2. m \notin Inserted'
        BY <1>7, <1>8, Zenon DEF Inserted
      <3> QED
        BY <1>8, <3>1, <3>2, Zenon
    <2>5. \A t \in Inserted' : t \in Inserted
      BY <1>2, <1>8, <2>3, <2>4, Zenon DEF Inserted
    <2>6. /\ \A t \in FixedToks' \cap Inserted' : t \in FixedToks \cap Inserted
          /\ \A d \in Conns : \A t \in TxnToks'[d] \cap Inserted' : t \in TxnToks[d] \cap Inserted
          /\ More(FixedToks, FixedToks', TxnToks, TxnToks', Overs, Overs')
      BY <2>2, <2>4, <2>5, Zenon DEF StartedToksAs
    <2> QED
      BY <1>0, <1>2, <1>10, <2>6, QuietBooks, Zenon
  <1>18. KeyInv'
    <2>1. RowsLogged
      BY <1>0, BooksLogged, Zenon
    <2>2. /\ \A r \in db : r.t = "prof" /\ r.tok # 0 => log'[r.tok] = log[r.tok]
          /\ \A d \in Conns : \A r \in conn[d].add : r.t = "prof" /\ r.tok # 0 => log'[r.tok] = log[r.tok]
      BY <1>8, <2>1, Zenon DEF RowsLogged, Wrote
    <2>3. /\ ~Rewrapping /\ ~Rewrapping' /\ Backend' = Backend
          /\ \A d \in Conns : Pending(d)' = Pending(d)
          /\ \A r \in db : Good(r)' <=> Good(r)
      <3>1. ~Rewrapping
        BY <1>0, AdmTyped, SMTT(60) DEF Rewrapping
      <3>2. ~Rewrapping' /\ Backend' = Backend
        BY <1>2, <1>12, Zenon DEF Rewrapping, Backend
      <3>3. \A d \in Conns : Pending(d)' = Pending(d)
        BY <1>10, Zenon DEF Pending
      <3>4. \A r \in db : Good(r)' <=> Good(r)
        BY <2>2, Zenon DEF Good
      <3> QED
        BY <3>1, <3>2, <3>3, <3>4, Zenon
    <2>4. conn[c].auto => View(c) = db
      <3>1. conn[c].auto => conn[c].add = {} /\ conn[c].del = {}
        BY <1>0, Zenon DEF Holding
      <3> QED
        BY <3>1, SMTT(60) DEF View
    <2>5. conn'[adm'.conn].auto => \A r \in db : Good(r)' => \E q \in adm'.todo : q.id = r.id
      BY <1>10, <1>12, <2>4, Zenon DEF Good
    <2>6. \A r \in db' : r.t = "prof" /\ r.tok # 0 => log'[r.tok].op = "create"
      BY <1>0, <1>2, <2>2, Zenon DEF KeyInv
    <2>7. \A d \in Conns : \A r \in conn'[d].add : r.t = "prof" /\ r.tok # 0 => log'[r.tok].op = "create"
      <3> SUFFICES ASSUME NEW d \in Conns, NEW r \in conn'[d].add, r.t = "prof", r.tok # 0
                   PROVE  log'[r.tok].op = "create"
        BY Zenon
      <3>1. r \in conn[d].add
        BY <1>10, Zenon
      <3>2. log'[r.tok] = log[r.tok]
        BY <2>2, <3>1, Zenon
      <3> QED
        BY <1>0, <3>1, <3>2, Zenon DEF KeyInv
    <2>8. ~torn => \A d \in Conns : \A r \in conn'[d].add : r.t = "prof" =>
                      r.tok # 0 /\ log'[r.tok].fate \in {"dropped", "leaked"}
      <3> SUFFICES ASSUME ~torn, NEW d \in Conns, NEW r \in conn'[d].add, r.t = "prof"
                   PROVE  r.tok # 0 /\ log'[r.tok].fate \in {"dropped", "leaked"}
        BY Zenon
      <3>1. r \in conn[d].add
        BY <1>10, Zenon
      <3>2. r.tok # 0 /\ log[r.tok].fate \in {"dropped", "leaked"}
        BY <1>0, <2>3, <3>1, Zenon DEF KeyInv
      <3>3. log'[r.tok] = log[r.tok]
        BY <2>2, <3>1, <3>2, Zenon
      <3> QED
        BY <3>2, <3>3, Zenon
    <2>9. ~torn => \A r, k \in db : Good(r)' /\ KeyRow(k) => r.wrap = k.value
      BY <1>0, <2>3, Zenon DEF KeyInv
    <2>10. ~torn => /\ \A k, j \in db : KeyRow(k) /\ KeyRow(j) => k.value = j.value
                    /\ up => \A k \in db : KeyRow(k) => k.value = Backend'.key
                    /\ \A d \in Conns : \A k \in Pending(d)' : ~KeyRow(k)
      BY <1>0, <2>3, Zenon DEF KeyInv
    <2> QED
      BY <1>2, <2>5, <2>6, <2>7, <2>8, <2>9, <2>10, Zenon DEF KeyInv
  <1> QED
    BY <1>14, <1>15, <1>16, <1>17, <1>18, Zenon DEF OInv

\* A statement that leaves the log alone and puts rows of the same changes in the place of
\* those it deletes.
LEMMA ReplacedBooks ==
    ASSUME NEW c \in Conns, NEW del, NEW add, Moved(c, del, add), Types, Holding, BooksKept,
           FixedToks' = FixedToks, TxnToks' = TxnToks, Inserted' = Inserted, Overs' = Overs,
           del \subseteq View(c),
           \A r \in add : Wrote(r) => \E q \in del : Wrote(q) /\ q.tok = r.tok,
           \A r \in del : Main(r) => \E q \in add : Main(q) /\ q.tok = r.tok
    PROVE  BooksKept'
  <1>1. \A r \in View(c) : Wrote(r) => r.tok \in FixedToks \cup Allowed(c)
    <2>1. Adds[c] = conn[c].add
      BY Zenon DEF Adds
    <2>2. \A r \in db : Wrote(r) => r.tok \in FixedToks
      BY Zenon DEF BooksKept, Books
    <2>3. \A r \in conn[c].add : Wrote(r) => r.tok \in FixedToks \cup TxnToks[c]
      BY <2>1, Zenon DEF BooksKept, Books
    <2>4. conn[c].auto => conn[c].add = {}
      BY Zenon DEF Holding
    <2> QED
      BY <2>2, <2>3, <2>4, Zenon DEF View, Allowed
  <1>2. conn'[c].auto = conn[c].auto
    BY Zenon DEF Moved
  <1>3. Allowed(c)' = Allowed(c)
    BY <1>2, Zenon DEF Allowed
  <1>4. \A r \in add : Wrote(r) => r.tok \in FixedToks' \cup Allowed(c)'
    BY <1>1, <1>3, Zenon
  <1>5. Answers(del, add, FixedToks' \cup Allowed(c)', Allowed(c)', Overs')
    BY <1>4, Zenon DEF Answers, Accounted
  <1>6. More(FixedToks, FixedToks', TxnToks, TxnToks', Overs, Overs')
    BY BooksNumbers, Zenon DEF More
  <1>7. RanFor(c, del, add)
    BY <1>5, <1>6, Zenon DEF RanFor
  <1> QED
    BY <1>7, RanBooks, Zenon

\* UPDATE_PROFILE for profile row r of the list.
Rewrapped(c, r, del, add) ==
    /\ c = adm.conn /\ Ran(c, del, add)
    /\ adm' = [adm EXCEPT !.todo = @ \ {r}, !.any = TRUE]
    /\ del = {q \in View(c) : q.t = "prof" /\ q.id = r.id}
    /\ \A q \in add : /\ q.t = "prof" /\ q.wrap = adm.key
                      /\ \E o \in del : o.t = "prof" /\ o.tok = q.tok
    /\ \A q \in del : \E o \in add : o.t = "prof" /\ o.tok = q.tok
    /\ caches' = caches /\ sess' = sess /\ up' = up /\ nextId' = nextId
    /\ log' = log /\ dirty' = dirty /\ torn' = torn

LEMMA RekeyRowRewraps ==
    ASSUME RekeyRow, Types
    PROVE  \E c \in Conns : \E r, del, add : Rewrapped(c, r, del, add)
  <1>1. PICK c \in Conns : c = adm.conn
    BY AdmTyped, Zenon DEF RekeyRow
  <1>2. PICK r : r = CHOOSE q \in adm.todo : \A o \in adm.todo : q.id <= o.id
    BY Zenon
  <1>3. PICK del : del = {q \in View(c) : q.t = "prof" /\ q.id = r.id}
    BY Zenon
  <1>4. PICK k \in Nat : k = adm.key
    BY AdmTyped, Zenon DEF RekeyRow
  <1>5. PICK add : add = {[q EXCEPT !.wrap = k] : q \in del}
    BY Zenon
  <1>6. Exec(c, del, add) /\ adm' = [adm EXCEPT !.todo = @ \ {r}, !.any = TRUE]
    BY <1>1, <1>2, <1>3, <1>4, <1>5, Zenon DEF RekeyRow
  <1>7. del \subseteq ProfRows
    <2>1. View(c) \subseteq Row
      BY ConnTyped, Zenon
    <2> QED
      BY <1>3, <2>1, RowKinds, Zenon
  <1>8. ASSUME NEW q \in del
        PROVE  /\ [q EXCEPT !.wrap = k] \in ProfRows
               /\ [q EXCEPT !.wrap = k].t = "prof" /\ [q EXCEPT !.wrap = k].wrap = k
               /\ [q EXCEPT !.wrap = k].tok = q.tok /\ q.t = "prof"
    <2>1. q \in ProfRows
      BY <1>7, Zenon
    <2> QED
      BY <2>1, ZenonT(60) DEF ProfRows
  <1>9. add \subseteq ProfRows
    BY <1>5, <1>8, Zenon
  <1>10. Ran(c, del, add)
    <2>1. del \in SUBSET Row /\ add \in SUBSET Row
      BY <1>7, <1>9, Zenon DEF Row
    <2> QED
      BY <1>6, <2>1, ExecRan, Zenon
  <1>11. \A q \in add : /\ q.t = "prof" /\ q.wrap = adm.key
                        /\ \E o \in del : o.t = "prof" /\ o.tok = q.tok
    <2> SUFFICES ASSUME NEW q \in add
                 PROVE  /\ q.t = "prof" /\ q.wrap = adm.key
                        /\ \E o \in del : o.t = "prof" /\ o.tok = q.tok
      BY Zenon
    <2>1. PICK o \in del : q = [o EXCEPT !.wrap = k]
      BY <1>5, Zenon
    <2>2. q.t = "prof" /\ q.wrap = k /\ q.tok = o.tok /\ o.t = "prof"
      BY <1>8, <2>1, Zenon
    <2> QED
      BY <1>4, <2>2, Zenon
  <1>12. \A q \in del : \E o \in add : o.t = "prof" /\ o.tok = q.tok
    <2> SUFFICES ASSUME NEW q \in del
                 PROVE  \E o \in add : o.t = "prof" /\ o.tok = q.tok
      BY Zenon
    <2>1. PICK o : o = [q EXCEPT !.wrap = k]
      BY Zenon
    <2>2. o \in add /\ o.t = "prof" /\ o.tok = q.tok
      BY <1>5, <1>8, <2>1, Zenon
    <2> QED
      BY <2>2, Zenon
  <1>13. /\ caches' = caches /\ sess' = sess /\ up' = up /\ nextId' = nextId
         /\ log' = log /\ dirty' = dirty /\ torn' = torn
    BY Zenon DEF RekeyRow
  <1>14. Rewrapped(c, r, del, add)
    BY <1>1, <1>3, <1>6, <1>10, <1>11, <1>12, <1>13, Zenon DEF Rewrapped
  <1> QED
    BY <1>14, Zenon

LEMMA RewrappedKeys ==
    ASSUME NEW c \in Conns, NEW r, NEW del, NEW add, Rewrapped(c, r, del, add), adm.op = "rekey",
           adm'.op = "rekey", adm'.conn = c, adm'.todo = adm.todo \ {r}, adm'.any, adm'.key = adm.key,
           Holding, KeyInv
    PROVE  KeyInv'
  <1>0. Moved(c, del, add) /\ log' = log /\ torn' = torn /\ up' = up /\ Backend' = Backend /\ c = adm.conn
    BY Zenon DEF Rewrapped, Ran, Backend
  <1>1. \A q \in add \cup del : q.t = "prof"
    BY Zenon DEF Rewrapped
  <1>2. \A q \in db' : q \in db \/ q \in add
    BY <1>0, Zenon DEF Moved
  <1>3. /\ \A d \in Conns : \A q \in conn'[d].add : q \in conn[d].add \/ (d = c /\ q \in add)
        /\ \A d \in Conns : \A q \in conn'[d].del : q \in conn[d].del \/ (d = c /\ q \in del)
    <2>1. /\ \A d \in Conns \ {c} : conn'[d].add = conn[d].add /\ conn'[d].del = conn[d].del
          /\ \A q \in conn'[c].add : q \in conn[c].add \/ q \in add
          /\ \A q \in conn'[c].del : q \in conn[c].del \/ q \in del
      BY <1>0, Zenon DEF Moved
    <2> SUFFICES ASSUME NEW d \in Conns
                 PROVE  /\ \A q \in conn'[d].add : q \in conn[d].add \/ (d = c /\ q \in add)
                        /\ \A q \in conn'[d].del : q \in conn[d].del \/ (d = c /\ q \in del)
      BY Zenon
    <2>2. CASE d = c
      BY <2>1, <2>2, SMTT(60)
    <2>3. CASE d # c
      BY <2>1, <2>3, Zenon
    <2> QED
      BY <2>2, <2>3, Zenon
  <1>4. \A q \in add : q.tok # 0 => log[q.tok].op = "create"
    <2>1. \A q \in View(c) : q.t = "prof" /\ q.tok # 0 => log[q.tok].op = "create"
      BY Zenon DEF View, KeyInv
    <2> SUFFICES ASSUME NEW q \in add, q.tok # 0 PROVE log[q.tok].op = "create"
      BY Zenon
    <2>2. PICK o \in View(c) : o.t = "prof" /\ o.tok = q.tok
      <3>1. \A o \in del : o \in View(c)
        BY Zenon DEF Rewrapped
      <3>2. \A k \in add : \E o \in del : o.t = "prof" /\ o.tok = k.tok
        BY Zenon DEF Rewrapped
      <3> QED
        BY <3>1, <3>2, Zenon
    <2>3. o.tok # 0
      BY <2>2, Zenon
    <2>4. log[o.tok].op = "create"
      BY <2>1, <2>2, <2>3, Zenon
    <2> QED
      BY <2>2, <2>4, Zenon
  <1>5. \A q \in db' : q.t = "prof" /\ q.tok # 0 => log'[q.tok].op = "create"
    BY <1>0, <1>2, <1>4, Zenon DEF KeyInv
  <1>6. \A d \in Conns : \A q \in conn'[d].add : q.t = "prof" /\ q.tok # 0 => log'[q.tok].op = "create"
    BY <1>0, <1>3, <1>4, Zenon DEF KeyInv
  <1>7. \A k \in db' : KeyRow(k) => k \in db
    BY <1>1, <1>2, Zenon DEF KeyRow
  <1>8. ~torn => /\ \A k, j \in db' : KeyRow(k) /\ KeyRow(j) => k.value = j.value
                 /\ up => \A k \in db' : KeyRow(k) => k.value = Backend'.key
    BY <1>0, <1>7, Zenon DEF KeyInv
  <1>9. ~torn => \A d \in Conns : \A k \in Pending(d)' : ~KeyRow(k)
    <2>1. \A d \in Conns : \A k \in Pending(d)' : k \in Pending(d) \/ k.t = "prof"
      BY <1>1, <1>3, Zenon DEF Pending
    <2> QED
      BY <2>1, Zenon DEF KeyInv, KeyRow
  <1>10. Rewrapping'
    BY Zenon DEF Rewrapping
  <1>11. ~torn => \A d \in Conns : \A q \in conn'[d].add : q.t = "prof" =>
                     \/ q.tok # 0 /\ log'[q.tok].fate \in {"dropped", "leaked"}
                     \/ Rewrapping' /\ adm'.conn = d
    <2> SUFFICES ASSUME ~torn, NEW d \in Conns \ {c}, NEW q \in conn'[d].add, q.t = "prof"
                 PROVE  q.tok # 0 /\ log'[q.tok].fate \in {"dropped", "leaked"}
      BY <1>10, Zenon
    <2>1. q \in conn[d].add /\ adm.conn # d
      BY <1>0, <1>3, Zenon
    <2> QED
      BY <1>0, <2>1, Zenon DEF KeyInv
  <1>12. conn'[c].auto = conn[c].auto
    BY <1>0, Zenon DEF Moved
  <1>13. ~torn /\ ~(Rewrapping' /\ conn'[adm'.conn].auto) =>
                     \A q, k \in db' : Good(q)' /\ KeyRow(k) => q.wrap = k.value
    <2> SUFFICES ASSUME ~torn, ~conn[c].auto, NEW q \in db', NEW k \in db', Good(q)', KeyRow(k)
                 PROVE  q.wrap = k.value
      BY <1>10, <1>12, Zenon
    <2>1. q \in db /\ k \in db /\ Good(q)
      BY <1>0, Zenon DEF Moved, Good
    <2> QED
      BY <1>0, <2>1, Zenon DEF KeyInv
  <1>14. ~torn /\ conn'[adm'.conn].auto =>
                     \A q \in db' : Good(q)' => q.wrap = adm'.key \/ \E o \in adm'.todo : o.id = q.id
    <2> SUFFICES ASSUME ~torn, conn[c].auto, NEW q \in db', Good(q)'
                 PROVE  q.wrap = adm.key \/ \E o \in adm.todo \ {r} : o.id = q.id
      BY <1>12, Zenon
    <2>1. CASE q \in add
      BY <2>1, Zenon DEF Rewrapped
    <2>2. CASE q \in db \ del
      <3>1. Good(q) /\ q.t = "prof"
        BY <1>0, Zenon DEF Good
      <3>2. q.wrap = adm.key \/ \E o \in adm.todo : o.id = q.id
        BY <1>0, <2>2, <3>1, Zenon DEF KeyInv
      <3>3. q \in View(c)
        BY <2>2, Zenon DEF View, Holding
      <3>4. del = {o \in View(c) : o.t = "prof" /\ o.id = r.id}
        BY Zenon DEF Rewrapped
      <3>5. q.id # r.id
        BY <2>2, <3>1, <3>3, <3>4, Zenon
      <3> QED
        BY <3>2, <3>5, Zenon
    <2> QED
      BY <1>0, <2>1, <2>2, Zenon DEF Moved
  <1> QED
    BY <1>0, <1>5, <1>6, <1>8, <1>9, <1>11, <1>13, <1>14, Zenon DEF KeyInv

LEMMA RekeyRowKeeps ==
    ASSUME RekeyRow, OInv
    PROVE  OInv'
  <1>0. Types /\ Holding /\ InFlight /\ BooksKept /\ KeyInv /\ adm.op = "rekey"
    BY Zenon DEF OInv, RekeyRow
  <1>1. PICK c \in Conns : \E r, del, add : Rewrapped(c, r, del, add)
    BY <1>0, RekeyRowRewraps, Zenon
  <1>2. PICK r, del, add : Rewrapped(c, r, del, add)
    BY <1>1, Zenon
  <1>3. /\ c = adm.conn /\ Ran(c, del, add)
        /\ caches' = caches /\ sess' = sess /\ up' = up /\ nextId' = nextId
        /\ log' = log /\ dirty' = dirty /\ torn' = torn
    BY <1>2, Zenon DEF Rewrapped
  <1>4. /\ adm' \in [op : {"rekey"}, conn : Conns, todo : SUBSET ProfRows, any : BOOLEAN, key : Nat]
        /\ adm'.op = "rekey" /\ adm'.conn = c /\ adm'.todo = adm.todo \ {r} /\ adm'.any
        /\ adm'.key = adm.key
    <2>1. PICK td \in SUBSET ProfRows : td = adm.todo \ {r}
      BY <1>0, AdmTyped, Zenon
    <2>2. adm' = [adm EXCEPT !.todo = td, !.any = TRUE]
      BY <1>2, <2>1, Zenon DEF Rewrapped
    <2>3. adm \in [op : {"rekey"}, conn : Conns, todo : SUBSET ProfRows, any : BOOLEAN, key : Nat]
      BY <1>0, AdmTyped, Zenon
    <2>4. /\ adm' \in [op : {"rekey"}, conn : Conns, todo : SUBSET ProfRows, any : BOOLEAN, key : Nat]
          /\ adm'.op = "rekey" /\ adm'.conn = adm.conn /\ adm'.todo = td /\ adm'.any
          /\ adm'.key = adm.key
      BY <2>2, <2>3, ZenonT(60)
    <2> QED
      BY <1>3, <2>1, <2>4, Zenon
  <1>5. /\ InFlight'
        /\ FixedToks' = FixedToks /\ TxnToks' = TxnToks
        /\ Inserted' = Inserted /\ Overs' = Overs
    <2>1. \A d \in Conns : conn'[d].auto = conn[d].auto
      BY <1>3, Zenon DEF Ran, Moved
    <2> QED
      BY <1>0, <1>3, <2>1, SameLog, Zenon
  <1>6. Types'
    BY <1>0, <1>3, <1>4, Zenon DEF Types, Ran, Adm
  <1>7. Holding'
    <2>1. \A u \in Sessions : IsOpen(u)' => /\ IsOpen(u) /\ sess[u].conn \in Conns
                                            /\ sess'[u].conn = sess[u].conn
                                            /\ sess'[u].txn = sess[u].txn
      <3>1. \A u \in Sessions : IsOpen(u)' => IsOpen(u)
        BY <1>3, Zenon DEF IsOpen
      <3> QED
        BY <1>0, <1>3, <3>1, OpenTyped, Zenon
    <2> QED
      BY <1>0, <1>3, <1>4, <2>1, RanHolding, Zenon
  <1>8. BooksKept'
    <2>1. /\ \A q \in add : Wrote(q) => \E o \in del : Wrote(o) /\ o.tok = q.tok
          /\ \A q \in del : Main(q) => \E o \in add : Main(o) /\ o.tok = q.tok
          /\ del \subseteq View(c) /\ Moved(c, del, add)
      <3>1. \A q \in add : Wrote(q) => \E o \in del : Wrote(o) /\ o.tok = q.tok
        <4> SUFFICES ASSUME NEW q \in add, Wrote(q) PROVE \E o \in del : Wrote(o) /\ o.tok = q.tok
          BY Zenon
        <4>1. PICK o \in del : o.t = "prof" /\ o.tok = q.tok
          BY <1>2, Zenon DEF Rewrapped
        <4>2. q.tok # 0
          BY Zenon DEF Wrote
        <4>3. o.tok # 0
          BY <4>1, <4>2, Zenon
        <4> QED
          BY <4>1, <4>3, Zenon DEF Wrote
      <3>2. \A q \in del : Main(q) => \E o \in add : Main(o) /\ o.tok = q.tok
        <4> SUFFICES ASSUME NEW q \in del, Main(q) PROVE \E o \in add : Main(o) /\ o.tok = q.tok
          BY Zenon
        <4>1. PICK o \in add : o.t = "prof" /\ o.tok = q.tok
          BY <1>2, Zenon DEF Rewrapped
        <4>2. q.tok # 0
          BY Zenon DEF Main
        <4>3. o.tok # 0
          BY <4>1, <4>2, Zenon
        <4> QED
          BY <4>1, <4>3, Zenon DEF Main
      <3> QED
        BY <1>2, <3>1, <3>2, Zenon DEF Rewrapped, Ran
    <2> QED
      BY <1>0, <1>5, <2>1, ReplacedBooks, Zenon
  <1>9. KeyInv'
    BY <1>0, <1>2, <1>4, RewrappedKeys, Zenon
  <1> QED
    BY <1>5, <1>6, <1>7, <1>8, <1>9, Zenon DEF OInv

\* UPDATE_CONFIG_KEY on connection c, which goes back to the pool.
Rekeyed(c, del, add) ==
    /\ c = adm.conn /\ Moved(c, del, add)
    /\ db' \subseteq Row /\ conn' \in [Conns -> Conn] /\ conn'[c].holder = Nobody
    /\ \A d \in Conns \ {c} : conn'[d] = conn[d]
    /\ del = {r \in View(c) : KeyRow(r)}
    /\ \A k \in add : k.t = "config" /\ k.value = adm.key
    /\ adm.todo = {} /\ adm' = NoCall /\ torn' = (torn \/ ~conn[c].auto)
    /\ CachesStep /\ Backend'.key = adm.key
    /\ sess' = sess /\ up' = up /\ nextId' = nextId /\ log' = log /\ dirty' = dirty

LEMMA RekeyConfigRekeys ==
    ASSUME RekeyConfig, Types
    PROVE  \E c \in Conns : \E del, add : Rekeyed(c, del, add)
  <1>1. PICK c \in Conns : c = adm.conn
    BY AdmTyped, Zenon DEF RekeyConfig
  <1>2. PICK del : del = {r \in View(c) : r.t = "config" /\ r.name = "key"}
    BY Zenon
  <1>3. PICK row : row = ConfigRow("key", adm.key)
    BY Zenon
  <1>4. adm.key \in Nat
    BY AdmTyped, Zenon DEF RekeyConfig
  <1>5. row \in Row /\ row.t = "config" /\ row.value = adm.key
    BY <1>3, <1>4, SMTT(60) DEF ConfigRow, Row, ConfigRows
  <1>6. PICK add : add = {row}
    BY Zenon
  <1>7. /\ db' = IF conn[c].auto THEN (db \ del) \cup add ELSE db
        /\ conn' = [(IF conn[c].auto THEN conn
                     ELSE [conn EXCEPT ![c].add = (@ \ del) \cup add, ![c].del = @ \cup del])
                    EXCEPT ![c].holder = Nobody]
    BY <1>1, <1>2, <1>3, <1>6, Zenon DEF RekeyConfig, GiveBack
  <1>8. /\ adm.todo = {} /\ adm' = NoCall /\ torn' = (torn \/ ~conn[c].auto)
        /\ sess' = sess /\ up' = up /\ nextId' = nextId /\ log' = log /\ dirty' = dirty
    BY <1>1, Zenon DEF RekeyConfig
  <1>9. CachesStep /\ Backend'.key = adm.key
    <2>1. PICK i : i = [key |-> adm.key, ids |-> {}]
      BY Zenon
    <2>2. i \in [key : Nat, ids : SUBSET (Profiles \X Nat)] /\ i.key = adm.key
      BY <1>4, <2>1, SMTT(60)
    <2>3. caches' = Append(caches, i) /\ sess' = sess
      BY <2>1, Zenon DEF RekeyConfig
    <2> QED
      BY <2>2, <2>3, SMTT(60) DEF Types, CachesStep, Backend
  <1>10. del \in SUBSET Row /\ add \in SUBSET Row
    <2>1. View(c) \subseteq Row
      BY ConnTyped, Zenon
    <2> QED
      BY <1>2, <1>5, <1>6, <2>1, Zenon
  <1>11. /\ Moved(c, del, add) /\ db' \subseteq Row /\ conn' \in [Conns -> Conn]
         /\ conn'[c].holder = Nobody
         /\ \A d \in Conns \ {c} : conn'[d] = conn[d]
    <2>1. CASE conn[c].auto
      <3>1. conn' = [conn EXCEPT ![c].holder = Nobody] /\ db' = (db \ del) \cup add
        BY <1>7, <2>1, Zenon
      <3>2. /\ conn' \in [Conns -> Conn] /\ conn'[c].holder = Nobody /\ conn'[c].auto = conn[c].auto
            /\ conn'[c].add = conn[c].add /\ conn'[c].del = conn[c].del
            /\ \A d \in Conns \ {c} : conn'[d] = conn[d]
        BY <3>1, HolderChanged, Zenon
      <3>3. \A d \in Conns : conn'[d].auto = conn[d].auto
        BY <3>2, Zenon
      <3> QED
        BY <1>10, <2>1, <3>1, <3>2, <3>3, Zenon DEF Moved, Types
    <2>2. CASE ~conn[c].auto
      <3>1. PICK a : a = (conn[c].add \ del) \cup add
        BY Zenon
      <3>2. PICK x : x = conn[c].del \cup del
        BY Zenon
      <3>3. a \in SUBSET Row /\ x \in SUBSET Row
        BY <1>10, <3>1, <3>2, ConnTyped, Zenon
      <3>4. PICK k : k = [conn[c] EXCEPT !.add = a, !.del = x, !.holder = Nobody]
        BY Zenon
      <3>5. k \in Conn /\ k.auto = conn[c].auto /\ k.holder = Nobody /\ k.add = a /\ k.del = x
        BY <3>3, <3>4, ConnTyped, ZenonT(60) DEF Conn
      <3>6. db' = db
        BY <1>7, <2>2, Zenon
      <3>7. conn'[c] = k /\ conn' \in [Conns -> Conn] /\ \A d \in Conns \ {c} : conn'[d] = conn[d]
        <4>1. conn' = [[conn EXCEPT ![c].add = a, ![c].del = x] EXCEPT ![c].holder = Nobody]
          BY <1>7, <2>2, <3>1, <3>2, Zenon
        <4>2. PICK j : j = [conn[c] EXCEPT !.add = a, !.del = x]
          BY Zenon
        <4>3. j \in Conn
          BY <3>3, <4>2, ConnTyped, ZenonT(60) DEF Conn
        <4>4. PICK f : f = [conn EXCEPT ![c] = j]
          BY Zenon
        <4>5. conn' = [f EXCEPT ![c].holder = Nobody] /\ conn \in [Conns -> Conn]
          BY <4>1, <4>2, <4>4, Zenon DEF Types
        <4>6. f[c] = j /\ f \in [Conns -> Conn] /\ \A d \in Conns \ {c} : f[d] = conn[d]
          BY <4>3, <4>4, <4>5, Zenon
        <4>7. PICK h : h = [f[c] EXCEPT !.holder = Nobody]
          BY Zenon
        <4>8. conn' = [f EXCEPT ![c] = h]
          BY <4>5, <4>7, Zenon
        <4>9. h = k
          <5>1. h = [j EXCEPT !.holder = Nobody]
            BY <4>6, <4>7, Zenon
          <5> QED
            BY <3>4, <4>2, <5>1, Zenon
        <4> QED
          BY <3>5, <4>6, <4>8, <4>9, Zenon
      <3>8. \A d \in Conns : conn'[d].auto = conn[d].auto
        BY <3>5, <3>7, Zenon
      <3>9. /\ conn'[c].add = (conn[c].add \ del) \cup add
            /\ conn'[c].del = conn[c].del \cup del
        BY <3>1, <3>2, <3>5, <3>7, Zenon
      <3> QED
        BY <2>2, <3>5, <3>6, <3>7, <3>8, <3>9, Zenon DEF Moved, Types
    <2> QED
      BY <2>1, <2>2, Zenon
  <1>12. del = {r \in View(c) : KeyRow(r)} /\ \A k \in add : k.t = "config" /\ k.value = adm.key
    BY <1>2, <1>5, <1>6, Zenon DEF KeyRow
  <1>13. Rekeyed(c, del, add)
    BY <1>1, <1>8, <1>9, <1>11, <1>12, Zenon DEF Rekeyed
  <1> QED
    BY <1>13, Zenon

LEMMA RekeyedKeys ==
    ASSUME NEW c \in Conns, NEW del, NEW add, Rekeyed(c, del, add), adm.op = "rekey",
           adm'.op # "rekey", Holding, KeyInv
    PROVE  KeyInv'
  <1>0. Moved(c, del, add) /\ log' = log /\ up' = up /\ c = adm.conn
    BY Zenon DEF Rekeyed
  <1>1. \A q \in add \cup del : q.t = "config"
    BY Zenon DEF Rekeyed, KeyRow
  <1>2. \A q \in db' : q.t = "prof" => q \in db
    BY <1>0, <1>1, Zenon DEF Moved
  <1>3. \A d \in Conns : \A q \in conn'[d].add : q.t = "prof" => q \in conn[d].add
    <2>1. /\ \A d \in Conns \ {c} : conn'[d].add = conn[d].add
          /\ \A q \in conn'[c].add : q \in conn[c].add \/ q \in add
      BY <1>0, Zenon DEF Moved
    <2> SUFFICES ASSUME NEW d \in Conns, NEW q \in conn'[d].add, q.t = "prof"
                 PROVE  q \in conn[d].add
      BY Zenon
    <2>2. CASE d = c
      <3>1. q \notin add
        BY <1>1, Zenon
      <3> QED
        BY <2>1, <2>2, <3>1, SMTT(60)
    <2>3. CASE d # c
      BY <2>1, <2>3, Zenon
    <2> QED
      BY <2>2, <2>3, Zenon
  <1>4. \A q \in db' : q.t = "prof" /\ q.tok # 0 => log'[q.tok].op = "create"
    BY <1>0, <1>2, Zenon DEF KeyInv
  <1>5. \A d \in Conns : \A q \in conn'[d].add : q.t = "prof" /\ q.tok # 0 => log'[q.tok].op = "create"
    BY <1>0, <1>3, Zenon DEF KeyInv
  <1>6. ASSUME ~torn'
        PROVE  /\ \A k, j \in db' : KeyRow(k) /\ KeyRow(j) => k.value = j.value
               /\ up' => \A k \in db' : KeyRow(k) => k.value = Backend'.key
               /\ \A d \in Conns : \A k \in Pending(d)' : ~KeyRow(k)
               /\ \A d \in Conns : \A q \in conn'[d].add : q.t = "prof" =>
                     q.tok # 0 /\ log'[q.tok].fate \in {"dropped", "leaked"}
               /\ \A q, k \in db' : Good(q)' /\ KeyRow(k) => q.wrap = k.value
    <2>1. ~torn /\ conn[c].auto /\ adm.todo = {} /\ Backend'.key = adm.key
      BY <1>6, Zenon DEF Rekeyed
    <2>2. /\ db' = (db \ del) \cup add
          /\ \A d \in Conns : conn'[d].add = conn[d].add /\ conn'[d].del = conn[d].del
      <3>1. /\ db' = (db \ del) \cup add
            /\ conn'[c].add = conn[c].add /\ conn'[c].del = conn[c].del
            /\ \A d \in Conns \ {c} : conn'[d].add = conn[d].add /\ conn'[d].del = conn[d].del
        BY <1>0, <2>1, Zenon DEF Moved
      <3> QED
        BY <3>1, Zenon
    <2>3. conn[c].add = {} /\ conn[c].del = {}
      BY <2>1, Zenon DEF Holding
    <2>4. \A k \in db : KeyRow(k) => k \in del
      <3>1. \A k \in db : k \in View(c)
        BY <2>3, Zenon DEF View
      <3> QED
        BY <3>1, Zenon DEF Rekeyed
    <2>5. \A k \in db' : KeyRow(k) => k.value = adm.key
      BY <2>2, <2>4, Zenon DEF Rekeyed
    <2>6. \A d \in Conns : \A k \in Pending(d)' : ~KeyRow(k)
      <3>1. \A d \in Conns : Pending(d)' = Pending(d)
        BY <2>2, Zenon DEF Pending
      <3> QED
        BY <2>1, <3>1, Zenon DEF KeyInv
    <2>7. ASSUME NEW d \in Conns, NEW q \in conn'[d].add, q.t = "prof"
          PROVE  q.tok # 0 /\ log'[q.tok].fate \in {"dropped", "leaked"}
      <3>1. q \in conn[d].add
        BY <2>2, <2>7, Zenon
      <3>2. d # adm.conn
        BY <1>0, <2>3, <3>1, SMTT(60)
      <3> QED
        BY <1>0, <2>1, <2>7, <3>1, <3>2, Zenon DEF KeyInv
    <2>8. ASSUME NEW q \in db', Good(q)'
          PROVE  q.wrap = adm.key
      <3>1. q \in db /\ Good(q)
        BY <1>0, <1>2, <2>8, Zenon DEF Good
      <3>2. conn[adm.conn].auto /\ ~\E o \in adm.todo : o.id = q.id
        BY <1>0, <2>1, Zenon
      <3> QED
        BY <2>1, <3>1, <3>2, Zenon DEF KeyInv
    <2>9. \A k, j \in db' : KeyRow(k) /\ KeyRow(j) => k.value = j.value
      BY <2>5, Zenon
    <2>10. \A q, k \in db' : Good(q)' /\ KeyRow(k) => q.wrap = k.value
      BY <2>5, <2>8, Zenon
    <2>11. \A k \in db' : KeyRow(k) => k.value = Backend'.key
      BY <2>1, <2>5, Zenon
    <2> QED
      BY <2>6, <2>7, <2>9, <2>10, <2>11, Zenon
  <1> QED
    BY <1>4, <1>5, <1>6, Zenon DEF KeyInv

LEMMA RekeyConfigKeeps ==
    ASSUME RekeyConfig, OInv
    PROVE  OInv'
  <1>0. Types /\ Holding /\ InFlight /\ BooksKept /\ KeyInv /\ adm.op = "rekey"
    BY Zenon DEF OInv, RekeyConfig
  <1>1. PICK c \in Conns : \E del, add : Rekeyed(c, del, add)
    BY <1>0, RekeyConfigRekeys, Zenon
  <1>2. PICK del, add : Rekeyed(c, del, add)
    BY <1>1, Zenon
  <1>3. /\ c = adm.conn /\ Moved(c, del, add)
        /\ sess' = sess /\ up' = up /\ nextId' = nextId
        /\ log' = log /\ dirty' = dirty /\ adm' = NoCall
        /\ conn'[c].holder = Nobody
        /\ \A d \in Conns \ {c} : conn'[d] = conn[d]
    BY <1>2, Zenon DEF Rekeyed
  <1>4. /\ InFlight'
        /\ FixedToks' = FixedToks /\ TxnToks' = TxnToks
        /\ Inserted' = Inserted /\ Overs' = Overs
    <2>1. \A d \in Conns : conn'[d].auto = conn[d].auto
      BY <1>3, Zenon DEF Moved
    <2> QED
      BY <1>0, <1>3, <2>1, SameLog, Zenon
  <1>5. NoCall \in Adm /\ adm'.op # "rekey"
    BY <1>0, <1>3, AdmTyped, SMTT(60)
  <1>6. Types'
    <2>1. torn' \in BOOLEAN
      BY <1>0, <1>2, ConnTyped, Zenon DEF Types, Rekeyed
    <2> QED
      BY <1>0, <1>2, <1>3, <1>5, <2>1, Zenon DEF Types, Rekeyed, CachesStep
  <1>7. Holding'
    <2>1. conn[c].holder = "rekey"
      BY <1>0, <1>3, Zenon DEF Holding
    <2>2. \A u \in Sessions : IsOpen(u) => sess[u].conn \in Conns \ {c}
      BY <1>0, <2>1, RekeyAlone, Zenon
    <2>3. \A u \in Sessions : IsOpen(u)' =>
             conn'[sess'[u].conn].holder = u /\ sess'[u].txn = ~conn'[sess'[u].conn].auto
      BY <1>0, <1>3, <2>2, Zenon DEF Holding, IsOpen
    <2>4. \A d \in Conns : conn'[d].auto => conn'[d].add = {} /\ conn'[d].del = {}
      BY <1>0, <1>3, Zenon DEF Holding, Moved
    <2>5. \A d \in Conns \ dirty' : conn'[d].holder \in {Nobody, "rekey"} => conn'[d].auto
      BY <1>0, <1>3, <2>1, Zenon DEF Holding, Moved
    <2> QED
      BY <1>5, <2>3, <2>4, <2>5, Zenon DEF Holding
  <1>8. BooksKept'
    <2>1. /\ \A q \in add \cup del : ~Wrote(q) /\ ~Main(q)
          /\ del \subseteq View(c)
      BY <1>2, Zenon DEF Rekeyed, KeyRow, Wrote, Main
    <2> QED
      BY <1>0, <1>3, <1>4, <2>1, ReplacedBooks, Zenon
  <1>9. KeyInv'
    BY <1>0, <1>2, <1>5, RekeyedKeys, Zenon
  <1> QED
    BY <1>4, <1>6, <1>7, <1>8, <1>9, Zenon DEF OInv
----------------------------------------------------------------------------
(***************************************************************************)
(* The invariant, and what follows from it.                                *)
(***************************************************************************)
LEMMA InitTypes ==
    ASSUME Init
    PROVE  Types
  <1>1. db \subseteq Row
    <2>1. PICK r : r = ProfRow(1, Default, 1, 0)
      BY Zenon
    <2>2. PICK k : k = ConfigRow("key", 1)
      BY Zenon
    <2>3. PICK d : d = ConfigRow("default_profile", Default)
      BY Zenon
    <2>4. r \in ProfRows
      BY <2>1, OdbcAssumption, SMTT(60) DEF ProfRow, ProfRows
    <2>5. k \in ConfigRows /\ d \in ConfigRows
      BY <2>2, <2>3, OdbcAssumption, SMTT(60) DEF ConfigRow, ConfigRows
    <2>6. db = {r, k, d}
      BY <2>1, <2>2, <2>3, Zenon DEF Init
    <2> QED
      BY <2>4, <2>5, <2>6, Zenon DEF Row
  <1>2. conn \in [Conns -> Conn]
    <2>1. PICK k : k = [holder |-> Nobody, auto |-> TRUE, add |-> {}, del |-> {}]
      BY Zenon
    <2>2. k \in Conn
      BY <2>1, ZenonT(60) DEF Conn
    <2>3. conn = [c \in Conns |-> k]
      BY <2>1, Zenon DEF Init
    <2> QED
      BY <2>2, <2>3, Zenon
  <1>3. caches \in Seq([key : Nat, ids : SUBSET (Profiles \X Nat)]) /\ caches # <<>>
    <2>1. PICK i : i = [key |-> 1, ids |-> {<<Default, 1>>}]
      BY Zenon
    <2>2. i \in [key : Nat, ids : SUBSET (Profiles \X Nat)]
      BY <2>1, OdbcAssumption, SMTT(60)
    <2>3. caches = <<i>>
      BY <2>1, Zenon DEF Init
    <2> QED
      BY <2>2, <2>3, SMTT(60)
  <1>4. /\ sess \in [Sessions -> Session]
        /\ \A s \in Sessions : sess[s].st = "open" => sess[s].gen \in DOMAIN caches
    <2>1. PICK k : k = [st |-> "free"]
      BY Zenon
    <2>2. k = FreeSession /\ k.st # "open"
      BY <2>1, SMTT(60) DEF FreeSession
    <2>3. sess = [s \in Sessions |-> k]
      BY <2>1, Zenon DEF Init
    <2> QED
      BY <2>2, <2>3, Zenon DEF Session
  <1>5. adm \in Adm
    BY Zenon DEF Init, Adm, NoCall
  <1>6. nextId \in [prof : Nat, item : Nat]
    <2>1. PICK f \in FirstItems : nextId = [prof |-> 2, item |-> f]
      BY Zenon DEF Init
    <2>2. f \in Nat
      BY OdbcAssumption, Zenon
    <2> QED
      BY <2>1, <2>2, SMTT(60)
  <1>7. log \in Seq(Entry)
    BY SMTT(60) DEF Init
  <1>8. dirty \subseteq Conns /\ torn \in BOOLEAN
    BY Zenon DEF Init
  <1> QED
    BY <1>1, <1>2, <1>3, <1>4, <1>5, <1>6, <1>7, <1>8, Zenon DEF Types

\* Provision leaves one profile under the one key, connections that commit by themselves,
\* no sessions and no changes.
LEMMA InitOInv ==
    ASSUME Init
    PROVE  OInv
  <1>1. Types
    BY InitTypes
  <1>2. Tokens = {}
    BY SMTT(60) DEF Init, Tokens
  <1>3. \A s \in Sessions : ~IsOpen(s) /\ ~Busy(s)
    <2>1. PICK k : k = [st |-> "free"]
      BY Zenon
    <2>2. k.st # "open"
      BY <2>1, SMTT(60)
    <2>3. sess = [s \in Sessions |-> k]
      BY <2>1, Zenon DEF Init
    <2> QED
      BY <2>2, <2>3, Zenon DEF IsOpen, Busy
  <1>4. \A c \in Conns : conn[c].auto /\ conn[c].add = {} /\ conn[c].del = {}
    <2>1. PICK k : k = [holder |-> Nobody, auto |-> TRUE, add |-> {}, del |-> {}]
      BY Zenon
    <2>2. k.auto /\ k.add = {} /\ k.del = {}
      BY <2>1, Zenon
    <2>3. conn = [c \in Conns |-> k]
      BY <2>1, Zenon DEF Init
    <2> QED
      BY <2>2, <2>3, Zenon
  <1>5. adm.op # "rekey"
    BY SMTT(60) DEF Init
  <1>6. Holding
    BY <1>3, <1>4, <1>5, Zenon DEF Holding
  <1>7. InFlight
    BY <1>2, <1>3, Zenon DEF InFlight
  <1>8. /\ \A r \in db : r.t = "prof" => r.tok = 0 /\ r.wrap = 1
        /\ \A r \in db : r.t \in {"prof", "config"}
        /\ \A r \in db : KeyRow(r) => r.value = 1
    BY SMTT(60) DEF Init, ProfRow, ConfigRow, KeyRow
  <1>9. BooksKept
    <2>1. FixedToks = {} /\ Inserted = {} /\ \A c \in Conns : TxnToks[c] = {}
      BY <1>2, <1>4, Zenon DEF FixedToks, Inserted, TxnToks
    <2>2. \A c \in Conns : Adds[c] = {} /\ Dels[c] = {}
      BY <1>4, Zenon DEF Adds, Dels
    <2>3. \A r \in db : ~Wrote(r)
      BY <1>8, SMTT(60) DEF Wrote
    <2> QED
      BY <2>1, <2>2, <2>3, Zenon DEF BooksKept, Books
  <1>10. KeyInv
    <2>1. Backend.key = 1
      <3>1. PICK i : i = [key |-> 1, ids |-> {<<Default, 1>>}]
        BY Zenon
      <3>2. i.key = 1
        BY <3>1, Zenon
      <3>3. caches = <<i>>
        BY <3>1, Zenon DEF Init
      <3> QED
        BY <3>2, <3>3, SMTT(60) DEF Backend
    <2>2. \A c \in Conns : Pending(c) = {}
      BY <1>4, Zenon DEF Pending
    <2>3. \A r \in db : r.t = "prof" /\ r.tok # 0 => log[r.tok].op = "create"
      BY <1>8, Zenon
    <2>4. \A r, k \in db : Good(r) /\ KeyRow(k) => r.wrap = k.value
      <3>1. \A r \in db : Good(r) => r.wrap = 1
        BY <1>8, Zenon DEF Good
      <3> QED
        BY <1>8, <3>1, SMTT(60)
    <2>5. \A k, j \in db : KeyRow(k) /\ KeyRow(j) => k.value = j.value
      BY <1>8, SMTT(60)
    <2>6. \A k \in db : KeyRow(k) => k.value = Backend.key
      BY <1>8, <2>1, SMTT(60)
    <2> QED
      BY <1>4, <1>5, <2>2, <2>3, <2>4, <2>5, <2>6, Zenon DEF KeyInv
  <1> QED
    BY <1>1, <1>6, <1>7, <1>9, <1>10, Zenon DEF OInv

LEMMA StutterKeeps ==
    ASSUME UNCHANGED vars, OInv
    PROVE  OInv'
  <1>0. /\ db' = db /\ conn' = conn /\ caches' = caches /\ sess' = sess /\ adm' = adm /\ up' = up
        /\ nextId' = nextId /\ log' = log /\ dirty' = dirty /\ torn' = torn
    BY Zenon DEF vars
  <1>1. CachesStep
    BY <1>0, SameCaches, Zenon DEF OInv
  <1>2. AdmStep /\ adm' \in Adm
    BY <1>0, Zenon DEF AdmStep, Backend, OInv, Types
  <1> QED
    BY <1>0, <1>1, <1>2, QuietKeeps, Zenon

LEMMA NextKeeps ==
    ASSUME [Next]_vars, OInv
    PROVE  OInv'
  <1>1. CASE UNCHANGED vars
    BY <1>1, StutterKeeps
  <1>2. CASE \E s \in Sessions :
                \/ \E p \in Profiles, txn \in BOOLEAN : NewSession(s, p, txn)
                \/ \E op \in {"insert", "replace", "remove", "remove_all"}, n \in Names, tags \in TagSets :
                      Call(s, op, n, tags)
                \/ \E commit \in BOOLEAN : Close(s, commit)
                \/ DropSession(s)
    BY <1>2, NewSessionKeeps, CallKeeps, CloseKeeps, DropSessionKeeps, Zenon
  <1>3. CASE \E s \in Sessions :
                \/ Read(s) \/ InsertItem(s) \/ UpdateItem(s) \/ DeleteTags(s) \/ GetItemId(s)
                \/ InsertTag(s) \/ DeleteItems(s) \/ StatementFails(s)
    BY <1>3, ReadKeeps, InsertItemKeeps, UpdateItemKeeps, DeleteTagsKeeps, GetItemIdKeeps,
       InsertTagKeeps, DeleteItemsKeeps, StatementFailsKeeps, Zenon
  <1>4. CASE \E p \in Profiles : CreateProfile(p) \/ RemoveProfile(p) \/ SetDefaultProfile(p)
    BY <1>4, CreateProfileKeeps, RemoveProfileKeeps, SetDefaultProfileKeeps, Zenon
  <1>5. CASE CacheProfile \/ RekeyReads \/ RekeyRow \/ RekeyConfig \/ RekeyFails
    BY <1>5, CacheProfileKeeps, RekeyReadsKeeps, RekeyRowKeeps, RekeyConfigKeeps, RekeyFailsKeeps,
       Zenon
  <1>6. CASE (\E c \in Conns : Reap(c)) \/ Crash \/ Open
    BY <1>6, ReapKeeps, CrashKeeps, OpenKeeps, Zenon
  <1>7. Next \/ UNCHANGED vars
    BY Zenon
  <1> QED
    BY <1>1, <1>2, <1>3, <1>4, <1>5, <1>6, <1>7, Zenon DEF Next

\* The invariant holds in every reachable state of the ODBC backend, for every set of
\* sessions, connections, profiles and entries: connections are held as the sessions say,
\* and the tables, with what is pending, add up to the changes in the log.
THEOREM OdbcInvariant == Spec => []OInv
  <1>1. Init => OInv
    BY InitOInv
  <1>2. OInv /\ [Next]_vars => OInv'
    BY NextKeeps
  <1> QED
    BY <1>1, <1>2, PTL DEF Spec

\* PoolClean for every pool: OdbcSession::close and the pool hand on connections that
\* commit by themselves and have nothing pending, but for those of a transaction session
\* dropped without close.
THEOREM OdbcPoolClean == Spec => []PoolClean
  <1>1. OInv => PoolClean
    <2> SUFFICES ASSUME OInv, NEW c \in Conns \ dirty, PoolHas(c)
                 PROVE  conn[c].auto /\ Pending(c) = {}
      BY Zenon DEF PoolClean
    <2>1. conn[c].auto
      BY Zenon DEF OInv, Holding, PoolHas
    <2> QED
      BY <2>1, Zenon DEF OInv, Holding, Pending
  <1> QED
    BY <1>1, OdbcInvariant, PTL

\* OutcomesHold for every number of sessions and calls: no row of a change that was rolled
\* back is in a table, and the row of an insert or a created profile reported done for good
\* is there until a change that stands deletes or replaces it.
THEOREM OdbcOutcomesHold == Spec => []OutcomesHold
  <1>1. OInv => OutcomesHold
    <2> SUFFICES ASSUME OInv PROVE UndoneInvisible /\ KeptUntilOverwritten
      BY Zenon DEF OutcomesHold
    <2>1. \A u \in FixedToks : u \in Tokens /\ log[u].fate # "undone"
      BY Zenon DEF FixedToks, Fixed
    <2>2. UndoneInvisible
      <3>1. \A r \in db : Wrote(r) => r.tok \in FixedToks
        BY Zenon DEF OInv, BooksKept, Books
      <3> QED
        BY <2>1, <3>1, Zenon DEF UndoneInvisible, Wrote
    <2>3. KeptUntilOverwritten
      <3> SUFFICES ASSUME NEW t \in Tokens, log[t].ok, log[t].fate = "kept",
                          log[t].op \in {"insert", "create"}
                   PROVE  \/ \E r \in db : r.t \in {"item", "prof"} /\ r.tok = t
                          \/ \E u \in Tokens : t \in log[u].over /\ log[u].fate # "undone"
        BY Zenon DEF KeptUntilOverwritten
      <3>1. t \in FixedToks \cap Inserted
        BY Zenon DEF FixedToks, Fixed, Inserted
      <3>2. Accounted(t, db, FixedToks, Overs)
        BY <3>1, Zenon DEF OInv, BooksKept, Books
      <3>3. CASE \E r \in db : Main(r) /\ r.tok = t
        BY <3>3, Zenon DEF Main
      <3>4. CASE \E u \in FixedToks : t \in Overs[u]
        BY <2>1, <3>4, Zenon DEF Overs
      <3> QED
        BY <3>2, <3>3, <3>4, Zenon DEF Accounted
    <2> QED
      BY <2>2, <2>3, Zenon
  <1> QED
    BY <1>1, OdbcInvariant, PTL

\* KeysAgree for every number of profiles: the profile rows that are to stay are wrapped
\* under the key of the config table, before and after every rekey that went through.
THEOREM OdbcKeysAgree == Spec => []KeysAgree
  <1>1. OInv => KeysAgree
    <2> SUFFICES ASSUME OInv, ~torn, adm.op # "rekey", NEW r \in db, NEW k \in db,
                        r.t = "prof", k.t = "config", k.name = "key",
                        r.tok # 0 => log[r.tok].fate = "kept"
                 PROVE  r.wrap = k.value
      BY Zenon DEF KeysAgree
    <2>1. Good(r) /\ KeyRow(k) /\ ~Rewrapping
      BY Zenon DEF Good, KeyRow, Rewrapping
    <2> QED
      BY <2>1, Zenon DEF OInv, KeyInv
  <1> QED
    BY <1>1, OdbcInvariant, PTL
==============================================================================
