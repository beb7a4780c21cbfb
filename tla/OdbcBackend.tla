----------------------------- MODULE OdbcBackend -----------------------------
(***************************************************************************)
(* The ODBC backend: sessions on connections of an r2d2 pool, updates that *)
(* run statement by statement, profiles, and a rekey that goes row by row. *)
(*                                                                         *)
(* Unlike the sqlx backends a session takes its connection when it is      *)
(* made, a transaction is nothing but a connection with autocommit off,    *)
(* and no destructor rolls anything back.                                  *)
(*                                                                         *)
(* The tables are one set of rows.  A connection with autocommit off keeps *)
(* what it has added and deleted; the database lets no two connections     *)
(* change the same row, or a row and the row it refers to (external).      *)
(* Identity columns never give an id twice, so that the id of a profile    *)
(* stands for its key as well.  Every change has a number, its token, and  *)
(* the log says what became of it.                                         *)
(***************************************************************************)
EXTENDS Integers, Sequences, FiniteSets

CONSTANTS
    Sessions,      \* OdbcSession values in existence at a time
    Conns,         \* connections of the pool (max_connections)
    Profiles,      \* profile names
    Default,       \* the profile the store was provisioned with
    Names,         \* entry names
    TagSets,       \* the sets of tags an update may carry
    Nobody,        \* no session
    FirstItems,    \* the next item id: entries may have come and gone before
    MaxCalls,      \* bound: calls that change something
    MaxOpens,      \* bound: sessions ever made
    MaxCrashes     \* bound: process crashes

ASSUME OdbcAssumption ==
    /\ Default \in Profiles
    /\ Nobody \notin Sessions \cup Conns
    /\ "rekey" \notin Sessions \cup {Nobody}
    /\ {} \in TagSets
    /\ FirstItems \subseteq Nat \ {0}
    /\ MaxCalls \in Nat /\ MaxOpens \in Nat /\ MaxCrashes \in Nat

VARIABLES
    db,            \* committed rows
    conn,          \* connections: holder, autocommit, pending rows added and deleted
    caches,        \* the KeyCaches made so far; the last one is the backend's
    sess,          \* sessions
    adm,           \* the call on the backend itself in flight
    up,            \* the process runs and has the store open
    nextId,        \* next profile id, next item id
    log,           \* history: the changes, by token
    dirty,         \* history: connections with work of a session dropped without close
    torn,          \* history: a rekey stopped half way, or ran on a dirty connection
    opens, crashes

vars == <<db, conn, caches, sess, adm, up, nextId, log, dirty, torn, opens, crashes>>
----------------------------------------------------------------------------
ProfRow(id, name, wrap, tok) ==
    [t |-> "prof", id |-> id, name |-> name, wrap |-> wrap, tok |-> tok]
ItemRow(id, pid, name, tok) ==
    [t |-> "item", id |-> id, pid |-> pid, name |-> name, tok |-> tok]
TagRow(item, tag, tok) == [t |-> "tag", item |-> item, tag |-> tag, tok |-> tok]
ConfigRow(name, value) == [t |-> "config", name |-> name, value |-> value]

\* The tables after provision, or some while after with all entries removed: ids start at 1
\* in both tables.
Init ==
    /\ db = {ProfRow(1, Default, 1, 0), ConfigRow("key", 1), ConfigRow("default_profile", Default)}
    /\ conn = [c \in Conns |-> [holder |-> Nobody, auto |-> TRUE, add |-> {}, del |-> {}]]
    /\ caches = <<[key |-> 1, ids |-> {<<Default, 1>>}]>>
    /\ sess = [s \in Sessions |-> [st |-> "free"]]
    /\ adm = [op |-> "none"]
    /\ up = TRUE
    /\ \E first \in FirstItems : nextId = [prof |-> 2, item |-> first]
    /\ log = <<>>
    /\ dirty = {}
    /\ torn = FALSE
    /\ opens = 0
    /\ crashes = 0
----------------------------------------------------------------------------
(***************************************************************************)
(* Connections.                                                            *)
(***************************************************************************)
View(c) == (db \ conn[c].del) \cup conn[c].add

Pending(c) == conn[c].add \cup conn[c].del

\* Two rows no two connections may have in hand at once: the same row (or two of the same
\* unique key), or a row and the one its foreign key refers to.
Related(r, q) ==
    \/ r.t = "prof" /\ q.t = "prof" /\ (r.id = q.id \/ r.name = q.name)
    \/ r.t = "item" /\ q.t = "item" /\ r.pid = q.pid /\ r.name = q.name
    \/ r.t = "config" /\ q.t = "config" /\ r.name = q.name
    \/ r.t = "prof" /\ q.t = "item" /\ r.id = q.pid
    \/ r.t = "item" /\ q.t = "prof" /\ r.pid = q.id
    \/ r.t = "item" /\ q.t = "tag" /\ r.id = q.item
    \/ r.t = "tag" /\ q.t = "item" /\ r.item = q.id
    \/ r.t = "tag" /\ r = q

Unlocked(c, rows) ==
    \A d \in Conns \ {c} : \A r \in rows, q \in Pending(d) : ~Related(r, q)

\* A statement that deletes and adds rows: at once with autocommit, else as work of the
\* connection's transaction.
Exec(c, del, add) ==
    /\ Unlocked(c, del \cup add)
    /\ IF conn[c].auto
       THEN /\ db' = (db \ del) \cup add
            /\ conn' = conn
       ELSE /\ db' = db
            /\ conn' = [conn EXCEPT ![c].add = (@ \ del) \cup add, ![c].del = @ \cup del]

\* commit and rollback of the driver; both leave autocommit alone.
CommittedConn(c) == [conn[c] EXCEPT !.add = {}, !.del = {}]

\* set_autocommit: turning it on commits what is pending.
AutocommitConn(c, on) ==
    IF on THEN [CommittedConn(c) EXCEPT !.auto = TRUE] ELSE [conn[c] EXCEPT !.auto = FALSE]
AutocommitDb(c, on) == IF on THEN View(c) ELSE db

PoolHas(c) == conn[c].holder = Nobody
----------------------------------------------------------------------------
(***************************************************************************)
(* The log.  fate: "open" while it is in flight or pending in its session, *)
(* "kept" once autocommit or the session's own commit has made it durable, *)
(* "dropped" when its session went away without close and it is pending    *)
(* still, "leaked" when a later user of the connection committed it,       *)
(* "undone" when it was rolled back.  over: the changes whose rows it      *)
(* deleted.                                                                *)
(***************************************************************************)
Tokens == 1..Len(log)

Logged(op, c, at, tags) ==
    Append(log, [op |-> op, conn |-> c, at |-> at, tags |-> tags,
                 fate |-> "open", ok |-> FALSE, over |-> {}])

\* The log after token t has deleted rows.
Overwrote(l, t, rows) == [l EXCEPT ![t].over = @ \cup {r.tok : r \in {q \in rows : "tok" \in DOMAIN q}}]

\* A settled change has no connection any more.
Settled(e, fate) ==
    [e EXCEPT !.fate = fate, !.conn = IF fate \in {"open", "dropped"} THEN @ ELSE Nobody]

Fated(l, toks, fate) ==
    [t \in DOMAIN l |-> IF t \in toks THEN Settled(l[t], fate) ELSE l[t]]

\* A change after its connection's commit: the committing session's own is kept.
Committed(t, c) ==
    IF log[t].conn # c \/ log[t].fate \notin {"open", "dropped"} THEN log[t]
    ELSE Settled(log[t], IF log[t].fate = "open" THEN "kept" ELSE "leaked")

\* The changes that are part of the open transaction of a connection.
OpenOn(c) == {t \in Tokens : log[t].conn = c /\ log[t].fate \in {"open", "dropped"}}
----------------------------------------------------------------------------
(***************************************************************************)
(* OdbcSession::new, ping, close, and the end of a session without close.  *)
(***************************************************************************)
FreeSession == [st |-> "free"]

\* The backend takes a connection from the pool and sets its autocommit mode; the store
\* pings, and closes again what has no profile.
NewSession(s, p, txn) ==
    /\ up /\ sess[s].st = "free" /\ opens < MaxOpens
    /\ opens' = opens + 1
    /\ \E c \in Conns :
          LET k == AutocommitConn(c, ~txn)
              d == AutocommitDb(c, ~txn)
              found == \E r \in (d \ k.del) \cup k.add : r.t = "prof" /\ r.name = p
          IN
          /\ PoolHas(c)
          /\ db' = d
          /\ IF found
             THEN /\ conn' = [conn EXCEPT ![c] = [k EXCEPT !.holder = s]]
                  /\ sess' = [sess EXCEPT ![s] =
                                [st |-> "open", conn |-> c, txn |-> txn, gen |-> Len(caches),
                                 profile |-> p, pc |-> "idle"]]
                  /\ log' = IF txn THEN log ELSE Fated(log, OpenOn(c), "leaked")
             ELSE /\ conn' = [conn EXCEPT ![c] = [k EXCEPT !.add = {}, !.del = {}, !.auto = TRUE]]
                  /\ sess' = sess
                  /\ log' = Fated(log, OpenOn(c), IF txn THEN "undone" ELSE "leaked")
          /\ dirty' = IF txn /\ found THEN dirty ELSE dirty \ {c}
    /\ UNCHANGED <<caches, adm, up, nextId, torn, crashes>>

\* Mutant: close leaves autocommit off.
ClosedConnManual(c) == CommittedConn(c)

\* close of a transaction session: commit or rollback, then autocommit on again.
ClosedConn(c) == AutocommitConn(c, TRUE)

\* Mutant: autocommit is turned on before the rollback.
ClosedDbAutocommitFirst(c, commit) == AutocommitDb(c, TRUE)

ClosedDb(c, commit) == IF commit THEN View(c) ELSE db

Close(s, commit) ==
    LET c == sess[s].conn IN
    /\ sess[s].st = "open" /\ sess[s].pc = "idle"
    /\ IF sess[s].txn
       THEN /\ db' = ClosedDb(c, commit)
            /\ conn' = [conn EXCEPT ![c] = [ClosedConn(c) EXCEPT !.holder = Nobody]]
            /\ log' = IF commit
                      THEN [t \in Tokens |-> Committed(t, c)]
                      ELSE Fated(log, OpenOn(c), "undone")
            /\ dirty' = dirty \ {c}
       ELSE /\ conn' = [conn EXCEPT ![c].holder = Nobody]
            /\ UNCHANGED <<db, log, dirty>>
    /\ sess' = [sess EXCEPT ![s] = FreeSession]
    /\ UNCHANGED <<caches, adm, up, nextId, torn, opens, crashes>>

\* askar_session_close without commit, the removal of the sessions of a closed store, a
\* copy that fails, and a commit or rollback the database refuses: the connection goes
\* back to the pool as it is.
DropSession(s) ==
    LET c == sess[s].conn IN
    /\ sess[s].st = "open" /\ sess[s].pc = "idle" /\ sess[s].txn
    /\ conn' = [conn EXCEPT ![c].holder = Nobody]
    /\ log' = Fated(log, {t \in OpenOn(c) : log[t].fate = "open"}, "dropped")
    /\ dirty' = dirty \cup {c}
    /\ sess' = [sess EXCEPT ![s] = FreeSession]
    /\ UNCHANGED <<db, caches, adm, up, nextId, torn, opens, crashes>>

\* The pool closes an idle connection and makes another one later; the driver rolls back.
Reap(c) ==
    /\ PoolHas(c) /\ c \in dirty
    /\ conn' = [conn EXCEPT ![c] = [AutocommitConn(c, TRUE) EXCEPT !.holder = Nobody]]
    /\ log' = Fated(log, OpenOn(c), "undone")
    /\ dirty' = dirty \ {c}
    /\ UNCHANGED <<db, caches, sess, adm, up, nextId, torn, opens, crashes>>
----------------------------------------------------------------------------
(***************************************************************************)
(* acquire_key: from the KeyCache the session was made with, or from the   *)
(* table.  A profile that is neither cached nor in the table makes the     *)
(* unwrap of its row panic, and one under another store key does not load: *)
(* both end the call before it has changed anything.                       *)
(***************************************************************************)
Cached(gen, p) == {e[2] : e \in {d \in caches[gen].ids : d[1] = p}}

WithId(gen, p, pid) ==
    [caches EXCEPT ![gen].ids = {e \in @ : e[1] # p} \cup {<<p, pid>>}]

AcquireKey(s, pid) ==
    LET gen == sess[s].gen
        p == sess[s].profile
    IN
    IF Cached(gen, p) # {}
    THEN pid \in Cached(gen, p) /\ caches' = caches
    ELSE /\ \E r \in View(sess[s].conn) :
               r.t = "prof" /\ r.name = p /\ r.id = pid /\ r.wrap = caches[gen].key
         /\ caches' = WithId(gen, p, pid)

\* count, fetch, fetch_all and scan change nothing but the cache.
Read(s) ==
    /\ up /\ sess[s].st = "open" /\ sess[s].pc = "idle"
    /\ Cached(sess[s].gen, sess[s].profile) = {}
    /\ \E pid \in 1..nextId.prof : AcquireKey(s, pid)
    /\ UNCHANGED <<db, conn, sess, adm, up, nextId, log, dirty, torn, opens, crashes>>

\* update and remove_all, up to their first statement.
Call(s, op, n, tags) ==
    /\ up /\ sess[s].st = "open" /\ sess[s].pc = "idle"
    /\ Len(log) < MaxCalls
    /\ op \in {"remove", "remove_all"} => tags = {}
    /\ \E pid \in 1..nextId.prof :
          /\ AcquireKey(s, pid)
          /\ log' = Logged(op, sess[s].conn, <<pid, n>>, tags)
          /\ sess' = [sess EXCEPT ![s] =
                        [st |-> "open", conn |-> @.conn, txn |-> @.txn, gen |-> @.gen,
                         profile |-> @.profile, pc |-> op, pid |-> pid, name |-> n,
                         tok |-> Len(log) + 1, item |-> 0, tags |-> tags]]
    /\ UNCHANGED <<db, conn, adm, up, nextId, dirty, torn, opens, crashes>>

RowsAt(s) ==
    {r \in View(sess[s].conn) : r.t = "item" /\ r.pid = sess[s].pid /\ r.name = sess[s].name}

TagsOf(c, ids) == {r \in View(c) : r.t = "tag" /\ r.item \in ids}

Idle(s) == [sess EXCEPT ![s] = [st |-> "open", conn |-> @.conn, txn |-> @.txn, gen |-> @.gen,
                                profile |-> @.profile, pc |-> "idle"]]

\* The call returns.  With autocommit all that its statements did is durable, whether it
\* returns Ok or an error.
Returned(s, l, ok) ==
    [l EXCEPT ![sess[s].tok] =
        [Settled(l[sess[s].tok], IF conn[sess[s].conn].auto THEN "kept" ELSE "open") EXCEPT !.ok = ok]]

\* The session after a statement: on to the tags, or done.
Continue(s, l, pc) ==
    IF pc = "done"
    THEN sess' = Idle(s) /\ log' = Returned(s, l, TRUE)
    ELSE sess' = [sess EXCEPT ![s].pc = pc] /\ log' = l

TagStep(s) == IF sess[s].tags = {} THEN "done" ELSE "item_id"

InsertItem(s) ==
    LET row == ItemRow(nextId.item, sess[s].pid, sess[s].name, sess[s].tok) IN
    /\ sess[s].st = "open" /\ sess[s].pc = "insert"
    /\ RowsAt(s) = {}
    /\ \E r \in View(sess[s].conn) : r.t = "prof" /\ r.id = sess[s].pid
    /\ Exec(sess[s].conn, {}, {row})
    /\ nextId' = [nextId EXCEPT !.item = @ + 1]
    /\ Continue(s, log, TagStep(s))
    /\ UNCHANGED <<caches, adm, up, dirty, torn, opens, crashes>>

\* UPDATE_ITEM: no row to update is no error.
UpdateItem(s) ==
    /\ sess[s].st = "open" /\ sess[s].pc = "replace"
    /\ Exec(sess[s].conn, RowsAt(s), {[r EXCEPT !.tok = sess[s].tok] : r \in RowsAt(s)})
    /\ Continue(s, Overwrote(log, sess[s].tok, RowsAt(s)), "delete_tags")
    /\ UNCHANGED <<caches, adm, up, nextId, dirty, torn, opens, crashes>>

\* DELETE_TAG is given the id of the profile, where the item's was meant.
DeleteTags(s) ==
    /\ sess[s].st = "open" /\ sess[s].pc = "delete_tags"
    /\ Exec(sess[s].conn, TagsOf(sess[s].conn, {sess[s].pid}), {})
    /\ Continue(s, log, TagStep(s))
    /\ UNCHANGED <<caches, adm, up, nextId, dirty, torn, opens, crashes>>

GetItemId(s) ==
    /\ sess[s].st = "open" /\ sess[s].pc = "item_id"
    /\ \E r \in RowsAt(s) : sess' = [sess EXCEPT ![s].pc = "tag", ![s].item = r.id]
    /\ UNCHANGED <<db, conn, caches, adm, up, nextId, log, dirty, torn, opens, crashes>>

InsertTag(s) ==
    /\ sess[s].st = "open" /\ sess[s].pc = "tag"
    /\ \E r \in View(sess[s].conn) : r.t = "item" /\ r.id = sess[s].item
    /\ LET tag == CHOOSE g \in sess[s].tags : TRUE
       IN  /\ Exec(sess[s].conn, {}, {TagRow(sess[s].item, tag, sess[s].tok)})
           /\ IF sess[s].tags = {tag}
              THEN Continue(s, log, "done")
              ELSE sess' = [sess EXCEPT ![s].tags = @ \ {tag}] /\ log' = log
    /\ UNCHANGED <<caches, adm, up, nextId, dirty, torn, opens, crashes>>

\* DELETE_ITEM, which has to find a row, and DELETE_ALL_ITEMS; tags go with their rows.
DeleteItems(s) ==
    LET c == sess[s].conn
        rows == IF sess[s].pc = "remove" THEN RowsAt(s)
                ELSE {r \in View(c) : r.t = "item" /\ r.pid = sess[s].pid}
    IN
    /\ sess[s].st = "open" /\ sess[s].pc \in {"remove", "remove_all"}
    /\ sess[s].pc = "remove" => rows # {}
    /\ Exec(c, rows \cup TagsOf(c, {r.id : r \in rows}), {})
    /\ Continue(s, Overwrote(log, sess[s].tok, rows), "done")
    /\ UNCHANGED <<caches, adm, up, nextId, dirty, torn, opens, crashes>>

\* The database refuses the statement (a duplicate, a missing parent, a lock timeout, a
\* lost connection), or a row that was expected is not there: NotFound, or a panic at
\* the item id.  What earlier statements did stays.
StatementFails(s) ==
    /\ sess[s].st = "open" /\ sess[s].pc # "idle"
    /\ sess' = Idle(s)
    /\ log' = Returned(s, log, FALSE)
    /\ UNCHANGED <<db, conn, caches, adm, up, nextId, dirty, torn, opens, crashes>>
----------------------------------------------------------------------------
(***************************************************************************)
(* Calls on the backend itself.  Each takes a connection of the pool in    *)
(* whatever mode it is.                                                    *)
(***************************************************************************)
NoCall == [op |-> "none"]

Backend == caches[Len(caches)]

\* A direct call returns Ok: its change is durable only if the connection commits by
\* itself.
Answered(l, t, c) ==
    [l EXCEPT ![t] = [Settled(l[t], IF conn[c].auto THEN "kept" ELSE "dropped") EXCEPT !.ok = TRUE]]

\* create_profile: the row, with the new key wrapped under the store key of the cache; a
\* name that is taken is an error of the database.
CreateProfile(p) ==
    /\ up /\ adm = NoCall /\ Len(log) < MaxCalls
    /\ \E c \in Conns :
          /\ PoolHas(c)
          /\ ~\E r \in View(c) : r.t = "prof" /\ r.name = p
          /\ Exec(c, {}, {ProfRow(nextId.prof, p, Backend.key, Len(log) + 1)})
          /\ log' = Answered(Logged("create", c, <<0, p>>, {}), Len(log) + 1, c)
          /\ adm' = [op |-> "create", name |-> p, pid |-> nextId.prof]
    /\ nextId' = [nextId EXCEPT !.prof = @ + 1]
    /\ UNCHANGED <<caches, sess, up, dirty, torn, opens, crashes>>

\* add_profile, after the connection has gone back.
CacheProfile ==
    /\ up /\ adm.op = "create"
    /\ caches' = WithId(Len(caches), adm.name, adm.pid)
    /\ adm' = NoCall
    /\ UNCHANGED <<db, conn, sess, up, nextId, log, dirty, torn, opens, crashes>>

\* remove_profile: entries and tags go with the row, the cache keeps what it has.
RemoveProfile(p) ==
    /\ up /\ adm.op # "rekey" /\ Len(log) < MaxCalls
    /\ \E c \in Conns :
          LET profs == {r \in View(c) : r.t = "prof" /\ r.name = p}
              items == {r \in View(c) : r.t = "item" /\ \E q \in profs : q.id = r.pid}
              rows == profs \cup items \cup TagsOf(c, {r.id : r \in items})
          IN
          /\ PoolHas(c)
          /\ profs # {}
          /\ Exec(c, rows, {})
          /\ log' = Overwrote(Answered(Logged("drop", c, <<0, p>>, {}), Len(log) + 1, c),
                              Len(log) + 1, rows)
    /\ UNCHANGED <<caches, sess, adm, up, nextId, dirty, torn, opens, crashes>>

SetDefaultProfile(p) ==
    /\ up /\ adm.op # "rekey" /\ Len(log) < MaxCalls
    /\ \E c \in Conns :
          /\ PoolHas(c)
          /\ Exec(c, {r \in View(c) : r.t = "config" /\ r.name = "default_profile"},
                  {ConfigRow("default_profile", p)})
          /\ log' = Answered(Logged("default", c, <<0, p>>, {}), Len(log) + 1, c)
    /\ UNCHANGED <<caches, sess, adm, up, nextId, dirty, torn, opens, crashes>>
----------------------------------------------------------------------------
(***************************************************************************)
(* rekey.  It has the backend to itself, not the sessions.                 *)
(***************************************************************************)
RekeyReads ==
    /\ up /\ adm = NoCall /\ Len(log) < MaxCalls
    /\ \E c \in Conns :
          /\ PoolHas(c)
          /\ conn' = [conn EXCEPT ![c].holder = "rekey"]
          /\ adm' = [op |-> "rekey", conn |-> c, todo |-> {r \in View(c) : r.t = "prof"}, any |-> FALSE,
                     key |-> Len(log) + 2]
          /\ log' = Answered(Logged("rekey", c, <<0, Default>>, {}), Len(log) + 1, c)
    /\ UNCHANGED <<db, caches, sess, up, nextId, dirty, torn, opens, crashes>>

\* load_key, encode_profile_key and UPDATE_PROFILE for the lowest id left.  A row removed
\* since is not an error.
RekeyRow ==
    /\ up /\ adm.op = "rekey" /\ adm.todo # {}
    /\ LET r == CHOOSE q \in adm.todo : \A o \in adm.todo : q.id <= o.id
           now == {q \in View(adm.conn) : q.t = "prof" /\ q.id = r.id}
       IN
       /\ r.wrap = Backend.key
       /\ Exec(adm.conn, now, {[q EXCEPT !.wrap = adm.key] : q \in now})
       /\ adm' = [adm EXCEPT !.todo = @ \ {r}, !.any = TRUE]
    /\ UNCHANGED <<caches, sess, up, nextId, log, dirty, torn, opens, crashes>>

\* The connection of an ended rekey goes back.
GiveBack(k) == [k EXCEPT ![adm.conn].holder = Nobody]

\* Mutant: the backend keeps its KeyCache.
RekeyConfigKeepsCache ==
    /\ up /\ adm.op = "rekey" /\ adm.todo = {}
    /\ LET c == adm.conn
           old == {r \in View(c) : r.t = "config" /\ r.name = "key"}
       IN  /\ conn[c].auto /\ Unlocked(c, old)
           /\ db' = (db \ old) \cup {ConfigRow("key", adm.key)}
           /\ conn' = GiveBack(conn)
    /\ adm' = NoCall
    /\ UNCHANGED <<caches, torn, sess, up, nextId, log, dirty, opens, crashes>>

\* UPDATE_CONFIG_KEY, and a new KeyCache for the backend.
RekeyConfig ==
    /\ up /\ adm.op = "rekey" /\ adm.todo = {}
    /\ LET c == adm.conn
           old == {r \in View(c) : r.t = "config" /\ r.name = "key"}
           new == {ConfigRow("key", adm.key)}
       IN  /\ Unlocked(c, old)
           /\ db' = IF conn[c].auto THEN (db \ old) \cup new ELSE db
           /\ conn' = GiveBack(IF conn[c].auto THEN conn
                               ELSE [conn EXCEPT ![c].add = (@ \ old) \cup new, ![c].del = @ \cup old])
           /\ torn' = (torn \/ ~conn[c].auto)
    /\ caches' = Append(caches, [key |-> adm.key, ids |-> {}])
    /\ adm' = NoCall
    /\ UNCHANGED <<sess, up, nextId, log, dirty, opens, crashes>>

\* A row under another key, a refused statement: the rows done so far stay as they are.
RekeyFails ==
    /\ up /\ adm.op = "rekey"
    /\ torn' = (torn \/ adm.any)
    /\ conn' = GiveBack(conn)
    /\ adm' = NoCall
    /\ UNCHANGED <<db, caches, sess, up, nextId, log, dirty, opens, crashes>>
----------------------------------------------------------------------------
\* The process dies: the database rolls back what is pending on every connection.
Crash ==
    /\ up /\ crashes < MaxCrashes
    /\ crashes' = crashes + 1
    /\ up' = FALSE
    /\ conn' = [c \in Conns |-> [holder |-> Nobody, auto |-> TRUE, add |-> {}, del |-> {}]]
    /\ sess' = [s \in Sessions |-> FreeSession]
    /\ adm' = NoCall
    /\ log' = [t \in Tokens |-> IF log[t].fate \notin {"open", "dropped"} THEN log[t]
                                ELSE Settled(log[t], IF conn[log[t].conn].auto THEN "kept" ELSE "undone")]
    /\ dirty' = {}
    /\ torn' = (torn \/ (adm.op = "rekey" /\ adm.any))
    /\ UNCHANGED <<db, caches, nextId, opens>>

\* OdbcStoreOptions::open: the key and the default profile of the config table, and a
\* profile row that unwraps under the key.
Open ==
    /\ ~up
    /\ \E k, d, r \in db :
          /\ k.t = "config" /\ k.name = "key"
          /\ d.t = "config" /\ d.name = "default_profile"
          /\ r.t = "prof" /\ r.name = d.value /\ r.wrap = k.value
          /\ caches' = Append(caches, [key |-> k.value, ids |-> {<<r.name, r.id>>}])
    /\ up' = TRUE
    /\ UNCHANGED <<db, conn, sess, adm, nextId, log, dirty, torn, opens, crashes>>

Next ==
    \/ \E s \in Sessions :
          \/ \E p \in Profiles, txn \in BOOLEAN : NewSession(s, p, txn)
          \/ \E op \in {"insert", "replace", "remove", "remove_all"}, n \in Names, tags \in TagSets :
                Call(s, op, n, tags)
          \/ Read(s)
          \/ InsertItem(s) \/ UpdateItem(s) \/ DeleteTags(s) \/ GetItemId(s) \/ InsertTag(s)
          \/ DeleteItems(s) \/ StatementFails(s)
          \/ \E commit \in BOOLEAN : Close(s, commit)
          \/ DropSession(s)
    \/ \E p \in Profiles : CreateProfile(p) \/ RemoveProfile(p) \/ SetDefaultProfile(p)
    \/ CacheProfile
    \/ RekeyReads \/ RekeyRow \/ RekeyConfig \/ RekeyFails
    \/ \E c \in Conns : Reap(c)
    \/ Crash \/ Open

Spec == Init /\ [][Next]_vars
----------------------------------------------------------------------------
(***************************************************************************)
(* Properties.                                                             *)
(***************************************************************************)
\* A connection in the pool commits by itself and has nothing pending, unless a
\* transaction session was dropped on it without close: whoever takes it next, session or
\* direct call, starts from nothing.
PoolClean ==
    \A c \in Conns \ dirty : PoolHas(c) => conn[c].auto /\ Pending(c) = {}

\* What was rolled back, by close(false), by the pool closing the connection or by a crash,
\* is in no table, whatever connection it was on and whoever used that before.
UndoneInvisible ==
    \A r \in db : r.t \in {"item", "tag", "prof"} /\ r.tok # 0 => log[r.tok].fate # "undone"

\* What was reported done for good stays: the row of a write that returned Ok and is kept
\* is in the table until another change that is not undone deletes or replaces it.
KeptUntilOverwritten ==
    \A t \in Tokens : /\ log[t].ok /\ log[t].fate = "kept"
                      /\ log[t].op \in {"insert", "create"}
        => \/ \E r \in db : r.t \in {"item", "prof"} /\ r.tok = t
           \/ \E u \in Tokens : t \in log[u].over /\ log[u].fate # "undone"

\* What a change came to holds: UndoneInvisible and KeptUntilOverwritten.
OutcomesHold == UndoneInvisible /\ KeptUntilOverwritten

\* The comment in update, that a replace is to "delete all existing tags for this item": an
\* entry has the tags of the update that wrote it last, those and no others, once that is
\* reported done for good.
TagsOfLastUpdate ==
    \A r \in db : r.t = "item" /\ log[r.tok].ok /\ log[r.tok].fate = "kept"
        => {q.tag : q \in {g \in db : g.t = "tag" /\ g.item = r.id}} = log[r.tok].tags

\* Every profile key is wrapped under the store key the config table names, so that the
\* store can be opened with it; but for a rekey that is under way, was cut short or ran on a
\* connection with autocommit off, and for a profile created on one.
KeysAgree ==
    ~torn /\ adm.op # "rekey" =>
        \A r, k \in db : /\ r.t = "prof" /\ k.t = "config" /\ k.name = "key"
                         /\ r.tok # 0 => log[r.tok].fate = "kept"
                         => r.wrap = k.value
============================================================================
