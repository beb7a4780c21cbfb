------------------------------ MODULE DbSession ------------------------------
(***************************************************************************)
(* Sessions of the sqlx backends: DbSession, its lazy activation from the  *)
(* connection pool, transaction sessions, and the transaction each insert  *)
(* or replace wraps itself in (DbSessionTxn).                              *)
(*                                                                         *)
(* One profile; the data are facts, each the effect of a statement of one  *)
(* operation.  An insert writes a "row" fact and then a "tag" fact; a      *)
(* remove writes both at once; a "bump" replaces the value of one counter  *)
(* entry by the value a fetch has seen plus its own "ctr" fact, so that a  *)
(* lost update and a lost commit both show as a missing fact.              *)
(*                                                                         *)
(* The connection side (sqlx's nesting depth, savepoints and pool, the     *)
(* SQLite write lock, the lock Postgres takes on the profile row) is       *)
(* external code, modelled from how the sessions use it.                   *)
(***************************************************************************)
EXTENDS Naturals, Sequences, FiniteSets

CONSTANTS
    Backend,       \* "sqlite" or "postgres"
    Sessions,      \* DbSession values in existence at a time
    Conns,         \* connections of the pool (max_connections)
    Nobody,        \* no session, no connection
    Faults,        \* what may go wrong; see the Fault assumption
    MaxToks,       \* bound: write operations
    MaxOpens,      \* bound: sessions ever created
    MaxCrashes     \* bound: process crashes

\* busy: the SQLite busy timeout expires; statement: the database refuses a statement;
\* cancel: the future of a call is dropped at an await; cancel_begin: the same between
\* the two statements of the SQLite start_transaction.
ASSUME DbSessionAssumption ==
    /\ Backend \in {"sqlite", "postgres"}
    /\ Faults \subseteq {"busy", "statement", "cancel", "cancel_begin"}
    /\ Nobody \notin Sessions \cup Conns
    /\ MaxToks \in Nat
    /\ MaxOpens \in Nat
    /\ MaxCrashes \in Nat

VARIABLES
    db,            \* committed facts
    conn,          \* connections: owner, stack of open (nested) transactions, aborted
    lock,          \* connection with the SQLite write lock, or the Postgres profile row lock
    sess,          \* sessions
    nextTok,       \* next write operation
    opens,         \* sessions created
    crashes,       \* crashes so far
    acked,         \* history: operations reported as done for good
    undone,        \* history: operations that were rolled back
    loose,         \* history: operations that ended half done in a transaction session
    leaked         \* history: connections with a transaction nobody knows of

vars == <<db, conn, lock, sess, nextTok, opens, crashes, acked, undone, loose, leaked>>
----------------------------------------------------------------------------
Sqlite == Backend = "sqlite"

Kinds == {"insert", "remove", "bump", "fetch"}

Fact == [kind : {"row", "tag", "ctr"}, tok : Nat]

\* What an open transaction adds to and takes from the committed facts.
Delta == [add : SUBSET Fact, del : SUBSET Fact]

NoDelta == [add |-> {}, del |-> {}]

Conn == [owner : Sessions \cup {Nobody}, stack : Seq(Delta), aborted : BOOLEAN]

\* pc: where the call in flight waits.  key: DbSessionKey, "lost" being Pending with the
\* profile name swapped out.  own: DbSessionTxn::rollback.  seen: the last fetch.
\* done, wrote: operations of the open transaction that returned Ok, that had an effect.
\* failed: a statement of the session has aborted its (Postgres) transaction.
Session == [st : {"free", "pending", "active"},
            txn : BOOLEAN,
            conn : Conns \cup {Nobody},
            depth : Nat,
            key : {"pending", "lost", "active"},
            pc : {"idle", "acquire", "begin", "resolve", "ready", "opbegin", "row", "tag", "commit"},
            op : Kinds,
            tok : Nat,
            own : BOOLEAN,
            seen : SUBSET Fact,
            done : SUBSET [tok : Nat, op : Kinds],
            wrote : SUBSET Nat,
            failed : BOOLEAN]

FreeSession == [st |-> "free", txn |-> FALSE, conn |-> Nobody, depth |-> 0, key |-> "pending",
                pc |-> "idle", op |-> "fetch", tok |-> 0, own |-> FALSE, seen |-> {},
                done |-> {}, wrote |-> {}, failed |-> FALSE]

TypeOK ==
    /\ db \subseteq Fact
    /\ conn \in [Conns -> Conn]
    /\ lock \in Conns \cup {Nobody}
    /\ sess \in [Sessions -> Session]
    /\ nextTok \in Nat
    /\ opens \in Nat
    /\ crashes \in Nat
    /\ acked \subseteq [tok : Nat, op : Kinds, clean : BOOLEAN]
    /\ undone \subseteq Nat
    /\ loose \subseteq Nat
    /\ leaked \subseteq Conns

Init ==
    /\ db = {[kind |-> "ctr", tok |-> 0]}     \* the counter entry exists
    /\ conn = [c \in Conns |-> [owner |-> Nobody, stack |-> <<>>, aborted |-> FALSE]]
    /\ lock = Nobody
    /\ sess = [s \in Sessions |-> FreeSession]
    /\ nextTok = 1
    /\ opens = 0
    /\ crashes = 0
    /\ acked = {}
    /\ undone = {}
    /\ loose = {}
    /\ leaked = {}
----------------------------------------------------------------------------
(***************************************************************************)
(* Connections.                                                            *)
(***************************************************************************)
InTxn(c) == conn[c].stack # <<>>

Top(c) == IF InTxn(c) THEN conn[c].stack[Len(conn[c].stack)] ELSE NoDelta

\* What a statement on the connection reads.
View(c) == (db \ Top(c).del) \cup Top(c).add

Free(c) == lock \in {Nobody, c}

\* TransactionManager::begin: BEGIN, or SAVEPOINT inside a transaction.
Begun(c) == [conn[c] EXCEPT !.stack = Append(@, Top(c))]

\* A write: part of the innermost transaction, or committed at once outside of any.
Write(c, add, del) ==
    IF InTxn(c)
    THEN /\ conn' = [conn EXCEPT ![c].stack[Len(conn[c].stack)] =
                        [add |-> (@.add \ del) \cup add, del |-> (@.del \ add) \cup del]]
         /\ db' = db
    ELSE /\ db' = (db \ del) \cup add
         /\ conn' = conn

Popped(stack) == SubSeq(stack, 1, Len(stack) - 1)

\* COMMIT of the outermost transaction; RELEASE of a savepoint hands its work to the
\* enclosing transaction.  Postgres answers COMMIT of an aborted transaction with
\* ROLLBACK, which sqlx does not report.
Committed(c) ==
    [conn[c] EXCEPT !.stack = IF Len(@) > 1 THEN Append(Popped(Popped(@)), Top(c)) ELSE <<>>,
                    !.aborted = FALSE]

CommittedDb(c) ==
    IF Len(conn[c].stack) = 1 /\ ~conn[c].aborted THEN View(c) ELSE db

RolledBack(c) ==
    [conn[c] EXCEPT !.stack = IF @ = <<>> THEN @ ELSE Popped(@), !.aborted = FALSE]

\* A lock is held until the outermost transaction of its connection ends.
LockAfter(c, k) == IF lock = c /\ k.stack = <<>> THEN Nobody ELSE lock
----------------------------------------------------------------------------
(***************************************************************************)
(* DbSession::new, and the calls on a session.                             *)
(***************************************************************************)
NewSession(s, txn) ==
    /\ sess[s].st = "free"
    /\ opens < MaxOpens
    /\ opens' = opens + 1
    /\ sess' = [sess EXCEPT ![s] = [FreeSession EXCEPT !.st = "pending", !.txn = txn]]
    /\ UNCHANGED <<db, conn, lock, nextTok, crashes, acked, undone, loose, leaked>>

\* The counter is read and replaced in transaction sessions only.
Call(s, op) ==
    /\ sess[s].st # "free"
    /\ sess[s].pc = "idle"
    /\ op \in {"fetch", "bump"} => sess[s].txn
    /\ op = "bump" => sess[s].seen # {}
    /\ op # "fetch" => nextTok <= MaxToks
    /\ nextTok' = IF op = "fetch" THEN nextTok ELSE nextTok + 1
    /\ sess' = [sess EXCEPT ![s] =
                  [@ EXCEPT !.op = op,
                            !.tok = IF op = "fetch" THEN 0 ELSE nextTok,
                            !.pc = IF sess[s].st = "pending" THEN "acquire"
                                   ELSE IF sess[s].key # "active" THEN "resolve"
                                   ELSE "ready"]]
    /\ UNCHANGED <<db, conn, lock, opens, crashes, acked, undone, loose, leaked>>
----------------------------------------------------------------------------
(***************************************************************************)
(* make_active.  A pending session takes a connection from the pool and,   *)
(* if it is a transaction session, begins a transaction on it.  SQLite     *)
(* follows BEGIN with a write that changes nothing, to take the write      *)
(* lock; until that returns the connection belongs to the future alone.    *)
(***************************************************************************)
Acquire(s) ==
    /\ sess[s].pc = "acquire"
    /\ \E c \in Conns :
          /\ conn[c].owner = Nobody
          /\ conn' = [conn EXCEPT ![c] = [(IF sess[s].txn THEN Begun(c) ELSE @) EXCEPT !.owner = s]]
          /\ sess' = [sess EXCEPT ![s] =
                        IF sess[s].txn /\ Sqlite
                        THEN [@ EXCEPT !.conn = c, !.pc = "begin"]
                        ELSE [@ EXCEPT !.conn = c, !.st = "active", !.pc = "resolve",
                                       !.depth = IF sess[s].txn THEN 1 ELSE 0]]
    /\ UNCHANGED <<db, lock, nextTok, opens, crashes, acked, undone, loose, leaked>>

\* The call ends with an error or is dropped; the session stays as it is.
Ended(s) == [sess[s] EXCEPT !.pc = "idle", !.own = FALSE]

\* The pool's acquire timeout, or the future is dropped.
AcquireTimeout(s) ==
    /\ sess[s].pc = "acquire"
    /\ "cancel" \in Faults \/ \A c \in Conns : conn[c].owner # Nobody
    /\ sess' = [sess EXCEPT ![s] = Ended(s)]
    /\ UNCHANGED <<db, conn, lock, nextTok, opens, crashes, acked, undone, loose, leaked>>

\* Mutant: make_active does not count the transaction it has begun.
BeginWritesUncounted(s) ==
    /\ sess[s].pc = "begin"
    /\ Free(sess[s].conn)
    /\ lock' = sess[s].conn
    /\ sess' = [sess EXCEPT ![s] = [@ EXCEPT !.st = "active", !.pc = "resolve"]]
    /\ UNCHANGED <<db, conn, nextTok, opens, crashes, acked, undone, loose, leaked>>

BeginWrites(s) ==
    /\ sess[s].pc = "begin"
    /\ Free(sess[s].conn)
    /\ lock' = sess[s].conn
    /\ sess' = [sess EXCEPT ![s] = [@ EXCEPT !.st = "active", !.depth = 1, !.pc = "resolve"]]
    /\ UNCHANGED <<db, conn, nextTok, opens, crashes, acked, undone, loose, leaked>>

\* start_transaction gives up between its two statements.
BeginGivesUp(c) ==
    /\ c \notin leaked     \* bound: once for each connection
    /\ \/ "busy" \in Faults /\ ~Free(c)
       \/ "cancel_begin" \in Faults

\* The connection goes back to the pool as it is, the transaction still open on it.
BeginFails(s) ==
    /\ sess[s].pc = "begin"
    /\ BeginGivesUp(sess[s].conn)
    /\ conn' = [conn EXCEPT ![sess[s].conn].owner = Nobody]
    /\ sess' = [sess EXCEPT ![s] = [Ended(s) EXCEPT !.conn = Nobody]]
    /\ leaked' = leaked \cup {sess[s].conn}
    /\ UNCHANGED <<db, lock, nextTok, opens, crashes, acked, undone, loose>>

\* Mutant: the row is selected without FOR NO KEY UPDATE.
LocksNoRow(s) == FALSE

\* Postgres: a transaction session locks the profile row.
LocksRow(s) == ~Sqlite /\ sess[s].depth > 0

\* resolve_profile_key, the key being in the KeyCache or in the table.
Resolve(s) ==
    /\ sess[s].pc = "resolve"
    /\ sess[s].key = "pending"
    /\ LocksRow(s) => Free(sess[s].conn)
    /\ lock' = IF LocksRow(s) THEN sess[s].conn ELSE lock
    /\ sess' = [sess EXCEPT ![s] = [@ EXCEPT !.key = "active", !.pc = "ready"]]
    /\ UNCHANGED <<db, conn, nextTok, opens, crashes, acked, undone, loose, leaked>>

\* There is no such profile, or no longer: its name was swapped out of the session by the
\* first attempt, so every later one looks for the profile "".
ResolveFails(s) ==
    /\ sess[s].pc = "resolve"
    /\ sess' = [sess EXCEPT ![s] = [Ended(s) EXCEPT !.key = "lost"]]
    /\ UNCHANGED <<db, conn, lock, nextTok, opens, crashes, acked, undone, loose, leaked>>
----------------------------------------------------------------------------
(***************************************************************************)
(* The operations, once the session is active and its key is known.        *)
(***************************************************************************)
Op(s) == [tok |-> sess[s].tok, op |-> sess[s].op]

Fetch(s) ==
    /\ sess[s].pc = "ready" /\ sess[s].op = "fetch"
    /\ ~conn[sess[s].conn].aborted
    /\ sess' = [sess EXCEPT ![s] =
                  [Ended(s) EXCEPT !.seen = {f \in View(sess[s].conn) : f.kind = "ctr"}]]
    /\ UNCHANGED <<db, conn, lock, nextTok, opens, crashes, acked, undone, loose, leaked>>

\* Mutant: no transaction is made.
AsTransactionNever(s) ==
    /\ sess[s].pc = "ready" /\ sess[s].op \in {"insert", "bump"}
    /\ sess' = [sess EXCEPT ![s] = [@ EXCEPT !.pc = "row", !.own = FALSE]]
    /\ UNCHANGED <<db, conn, lock, nextTok, opens, crashes, acked, undone, loose, leaked>>

\* as_transaction: an insert or replace outside of a transaction makes its own.
AsTransaction(s) ==
    LET c == sess[s].conn IN
    /\ sess[s].pc = "ready" /\ sess[s].op \in {"insert", "bump"}
    /\ \/ /\ sess[s].depth > 0
          /\ sess' = [sess EXCEPT ![s] = [@ EXCEPT !.pc = "row", !.own = FALSE]]
          /\ UNCHANGED conn
       \/ /\ sess[s].depth = 0
          /\ conn' = [conn EXCEPT ![c] = Begun(c)]
          /\ sess' = [sess EXCEPT ![s] =
                        IF Sqlite
                        THEN [@ EXCEPT !.pc = "opbegin"]
                        ELSE [@ EXCEPT !.pc = "row", !.own = TRUE, !.depth = 1]]
    /\ UNCHANGED <<db, lock, nextTok, opens, crashes, acked, undone, loose, leaked>>

OpBeginWrites(s) ==
    /\ sess[s].pc = "opbegin"
    /\ Free(sess[s].conn)
    /\ lock' = sess[s].conn
    /\ sess' = [sess EXCEPT ![s] = [@ EXCEPT !.pc = "row", !.own = TRUE, !.depth = 1]]
    /\ UNCHANGED <<db, conn, nextTok, opens, crashes, acked, undone, loose, leaked>>

\* txn_depth was not counted up, and no DbSessionTxn is there to roll back.
OpBeginFails(s) ==
    /\ sess[s].pc = "opbegin"
    /\ BeginGivesUp(sess[s].conn)
    /\ sess' = [sess EXCEPT ![s] = Ended(s)]
    /\ leaked' = leaked \cup {sess[s].conn}
    /\ UNCHANGED <<db, conn, lock, nextTok, opens, crashes, acked, undone, loose>>

\* The first statement of an insert, or the whole of a replace of the counter.
WriteRow(s) ==
    LET c == sess[s].conn
        t == sess[s].tok
        ctr == {f \in View(c) : f.kind = "ctr"}
    IN
    /\ sess[s].pc = "row"
    /\ ~conn[c].aborted
    /\ IF sess[s].op = "insert"
       THEN Write(c, {[kind |-> "row", tok |-> t]}, {})
       ELSE Write(c, {[kind |-> "ctr", tok |-> t]}, ctr \ sess[s].seen)
    /\ sess' = [sess EXCEPT ![s] = [@ EXCEPT !.wrote = sess[s].wrote \cup {t}, !.seen = {},
                                             !.pc = IF sess[s].op = "insert" THEN "tag" ELSE "commit"]]
    /\ UNCHANGED <<lock, nextTok, opens, crashes, acked, undone, loose, leaked>>

WriteTags(s) ==
    /\ sess[s].pc = "tag"
    /\ ~conn[sess[s].conn].aborted
    /\ Write(sess[s].conn, {[kind |-> "tag", tok |-> sess[s].tok]}, {})
    /\ sess' = [sess EXCEPT ![s].pc = "commit"]
    /\ UNCHANGED <<lock, nextTok, opens, crashes, acked, undone, loose, leaked>>

\* perform_remove runs in the session's transaction if there is one and commits at once
\* otherwise.
Remove(s) ==
    LET c == sess[s].conn
        t == sess[s].tok
    IN
    /\ sess[s].pc = "ready" /\ sess[s].op = "remove"
    /\ ~conn[c].aborted
    /\ Sqlite => Free(c)
    /\ Write(c, {[kind |-> "row", tok |-> t], [kind |-> "tag", tok |-> t]}, {})
    /\ lock' = IF Sqlite /\ InTxn(c) THEN c ELSE lock
    /\ IF sess[s].depth = 0
       THEN /\ acked' = acked \cup {[tok |-> t, op |-> "remove", clean |-> c \notin leaked]}
            /\ sess' = [sess EXCEPT ![s] = Ended(s)]
       ELSE /\ sess' = [sess EXCEPT ![s] = [Ended(s) EXCEPT !.wrote = sess[s].wrote \cup {t},
                                                                !.done = sess[s].done \cup {Op(s)}]]
            /\ UNCHANGED acked
    /\ UNCHANGED <<nextTok, opens, crashes, undone, loose, leaked>>

\* What a commit reports, its caller being there to hear of it or not: a COMMIT that was
\* sent is carried out even if the future that waits for the answer is dropped.
Reported(ops) == {acked \cup ops} \cup (IF "cancel" \in Faults THEN {acked} ELSE {})

\* DbSessionTxn::commit.
OpCommit(s) ==
    LET c == sess[s].conn
        t == sess[s].tok
    IN
    /\ sess[s].pc = "commit"
    /\ IF sess[s].own
       THEN /\ conn' = [conn EXCEPT ![c] = Committed(c)]
            /\ db' = CommittedDb(c)
            /\ lock' = LockAfter(c, Committed(c))
            /\ acked' \in Reported({[tok |-> t, op |-> sess[s].op, clean |-> c \notin leaked]})
            /\ sess' = [sess EXCEPT ![s] = [Ended(s) EXCEPT !.depth = 0, !.wrote = sess[s].wrote \ {t}]]
       ELSE /\ sess' = [sess EXCEPT ![s] = [Ended(s) EXCEPT !.done = sess[s].done \cup {Op(s)}]]
            /\ UNCHANGED <<conn, db, lock, acked>>
    /\ UNCHANGED <<nextTok, opens, crashes, undone, loose, leaked>>

DepthAfter(s) == IF sess[s].own THEN 0 ELSE sess[s].depth

\* The operation ends early.  Drop of DbSessionTxn rolls its own transaction back; in a
\* transaction session what was written stays, and on Postgres a refused statement makes
\* the transaction one that can only be rolled back.
OpAborts(s, refused) ==
    LET c == sess[s].conn
        k == IF sess[s].own
             THEN RolledBack(c)
             ELSE [conn[c] EXCEPT !.aborted = @ \/ (refused /\ ~Sqlite /\ InTxn(c))]
    IN
    /\ conn' = [conn EXCEPT ![c] = k]
    /\ lock' = LockAfter(c, k)
    /\ undone' = IF sess[s].own THEN undone \cup {sess[s].tok} ELSE undone
    /\ loose' = IF sess[s].depth > 0 /\ ~sess[s].own /\ sess[s].tok \in sess[s].wrote
                THEN loose \cup {sess[s].tok} ELSE loose
    /\ sess' = [sess EXCEPT ![s] =
                  [Ended(s) EXCEPT !.depth = DepthAfter(s),
                                   !.wrote = IF sess[s].own THEN sess[s].wrote \ {sess[s].tok}
                                                                ELSE sess[s].wrote,
                                   !.failed = sess[s].failed \/ (refused /\ ~Sqlite)]]
    /\ UNCHANGED <<db, nextTok, opens, crashes, acked, leaked>>

\* The database refuses a statement: an error of any kind, an aborted transaction, or
\* the lock SQLite needs for a statement outside of a transaction.
StatementRefused(s) ==
    /\ \/ sess[s].pc \in {"row", "tag"}
       \/ sess[s].pc = "ready" /\ sess[s].op \in {"remove", "fetch"}
    /\ \/ conn[sess[s].conn].aborted
       \/ "statement" \in Faults
       \/ "busy" \in Faults /\ Sqlite /\ sess[s].op = "remove" /\ ~Free(sess[s].conn)
    /\ OpAborts(s, TRUE)

\* Duplicate on insert, NotFound on replace and remove: no row was touched.
NotApplied(s) ==
    /\ sess[s].pc = "row" \/ (sess[s].pc = "ready" /\ sess[s].op = "remove")
    /\ ~conn[sess[s].conn].aborted
    /\ OpAborts(s, FALSE)

Cancel(s) ==
    /\ "cancel" \in Faults
    /\ sess[s].pc \in {"ready", "row", "tag", "commit"}
    /\ OpAborts(s, FALSE)
----------------------------------------------------------------------------
(***************************************************************************)
(* close(commit), and Drop, which does what close(false) does.             *)
(***************************************************************************)
\* Mutant: Drop starts no rollback.
ClosedConnKept(c, commit) == IF commit THEN Committed(c) ELSE conn[c]

ClosedConn(c, commit) == IF commit THEN Committed(c) ELSE RolledBack(c)

ClosedDb(c, commit) == IF commit THEN CommittedDb(c) ELSE db

Close(s, commit) ==
    LET c == sess[s].conn IN
    /\ sess[s].st # "free"
    /\ sess[s].pc = "idle"
    /\ IF sess[s].depth > 0
       THEN /\ conn' = [conn EXCEPT ![c] = [ClosedConn(c, commit) EXCEPT !.owner = Nobody]]
            /\ lock' = LockAfter(c, ClosedConn(c, commit))
            /\ db' = ClosedDb(c, commit)
            /\ IF commit
               THEN acked' \in Reported({[tok |-> d.tok, op |-> d.op,
                                          clean |-> ~sess[s].failed /\ c \notin leaked] :
                                            d \in sess[s].done})
               ELSE acked' = acked
            /\ undone' = IF commit THEN undone ELSE undone \cup sess[s].wrote
       ELSE /\ conn' = IF c = Nobody THEN conn ELSE [conn EXCEPT ![c].owner = Nobody]
            /\ UNCHANGED <<db, lock, acked, undone>>
    /\ sess' = [sess EXCEPT ![s] = FreeSession]
    /\ UNCHANGED <<nextTok, opens, crashes, loose, leaked>>

\* The process dies; the database rolls back what was open.
Crash ==
    /\ crashes < MaxCrashes
    /\ crashes' = crashes + 1
    /\ conn' = [c \in Conns |-> [owner |-> Nobody, stack |-> <<>>, aborted |-> FALSE]]
    /\ lock' = Nobody
    /\ sess' = [s \in Sessions |-> FreeSession]
    /\ undone' = undone \cup UNION {sess[s].wrote : s \in Sessions}
    /\ leaked' = {}
    /\ UNCHANGED <<db, nextTok, opens, acked, loose>>
----------------------------------------------------------------------------
\* The steps of a call in flight, but for those that make it fail.
Progress(s) ==
    \/ Acquire(s) \/ BeginWrites(s) \/ Resolve(s)
    \/ Fetch(s) \/ AsTransaction(s) \/ OpBeginWrites(s)
    \/ WriteRow(s) \/ WriteTags(s) \/ Remove(s) \/ OpCommit(s)

CallFails(s) ==
    \/ AcquireTimeout(s) \/ BeginFails(s) \/ ResolveFails(s) \/ OpBeginFails(s)
    \/ StatementRefused(s) \/ NotApplied(s) \/ Cancel(s)

Next ==
    \/ \E s \in Sessions :
          \/ \E txn \in BOOLEAN : NewSession(s, txn)
          \/ \E op \in Kinds : Call(s, op)
          \/ Progress(s)
          \/ CallFails(s)
          \/ \E commit \in BOOLEAN : Close(s, commit)
    \/ Crash

Spec == Init /\ [][Next]_vars

\* A call that can go on does (the runtime polls it, the database answers, the acquire
\* timeout of the pool and the busy timeout of SQLite expire), and a caller does not hold
\* on to a transaction session for ever, however many calls it makes.  No call relies on the profile being removed for an
\* answer.
Fairness ==
    \A s \in Sessions :
        /\ WF_vars(\/ Progress(s) \/ StatementRefused(s) \/ AcquireTimeout(s)
                   \/ BeginFails(s) \/ OpBeginFails(s))
        /\ WF_vars(sess[s].key = "lost" /\ ResolveFails(s))
        /\ SF_vars(sess[s].txn /\ \E commit \in BOOLEAN : Close(s, commit))

FairSpec == Spec /\ Fairness
----------------------------------------------------------------------------
(***************************************************************************)
(* Properties.                                                             *)
(***************************************************************************)
Durable(a) ==
    IF a.op = "bump"
    THEN [kind |-> "ctr", tok |-> a.tok] \in db
    ELSE {[kind |-> "row", tok |-> a.tok], [kind |-> "tag", tok |-> a.tok]} \subseteq db

\* Commit means committed: whatever was reported done, by an operation outside of a
\* transaction session or by close(true) returning Ok, is in the database and stays
\* there: it survives crashes and is not overwritten by a concurrent transaction session
\* that read the counter before (src/store.rs: "Commit the pending transaction"; the
\* test db_txn_contention counts the increments).  The code breaks it in two ways, which
\* are left out (not clean): close(true) returns Ok for a Postgres transaction that a
\* refused statement has aborted, and a SQLite connection keeps the transaction that
\* start_transaction has begun and given up on, so that nothing after it is committed.
AckedDurable == \A a \in acked : a.clean => Durable(a)

\* Work that was rolled back, by close(false), by Drop, by a failed operation's own
\* transaction or by a crash, is never seen again.
UndoneInvisible == \A f \in db : f.tok \notin undone

\* A connection in the pool has no transaction open and no lock, unless start_transaction
\* has given up on it: whoever gets it next starts from nothing.
PoolClean ==
    \A c \in Conns \ leaked : conn[c].owner = Nobody => ~InTxn(c) /\ lock # c

\* Half an insert (a row without its tags) is committed only by a transaction session
\* that goes on to commit after the insert has failed or was dropped; an insert that
\* makes its own transaction is all or nothing.
HalfOnlyIfLoose ==
    \A f \in db : f.kind = "row" => \/ [f EXCEPT !.kind = "tag"] \in db
                                    \/ f.tok \in loose

\* txn_depth is the nesting depth of the connection, at every await of every call but
\* inside start_transaction, and unless that has given up on the connection.
DepthAgrees ==
    \A s \in Sessions : /\ sess[s].st = "active" /\ sess[s].pc # "opbegin"
                        /\ sess[s].conn \notin leaked
        => sess[s].depth = Len(conn[sess[s].conn].stack)

\* The connections and the sessions on them are in order: their types, PoolClean and
\* DepthAgrees.
ConnsInOrder == TypeOK /\ PoolClean /\ DepthAgrees

\* What was given up is gone: UndoneInvisible and HalfOnlyIfLoose.
NothingLeftOver == UndoneInvisible /\ HalfOnlyIfLoose

\* Nobody waits for ever: every call returns, through every order of sessions waiting
\* for the pool, for the SQLite write lock or for the Postgres profile row.
CallsReturn == \A s \in Sessions : sess[s].pc # "idle" ~> sess[s].pc = "idle"
============================================================================
