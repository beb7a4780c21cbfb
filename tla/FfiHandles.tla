----------------------------- MODULE FfiHandles -----------------------------
(***************************************************************************)
(* The handles behind the C interface: stores, and the sessions and scans  *)
(* of a store (the "resources", two maps with the same code).              *)
(*                                                                         *)
(* Every call spawns a task and answers through a callback.  Tasks meet at *)
(* the map of stores, at the RwLock of each resource map, at the mutex of  *)
(* each resource, and in the database.  There a transaction session waits  *)
(* for the one before it when it is started (the write lock of SQLite, the *)
(* row of the profile in Postgres), and any other session waits with its   *)
(* writes (for the write lock; in Postgres for the row of an entry that    *)
(* the transaction has written): on SQLite until the busy timeout expires, *)
(* on Postgres without end.  One profile, in the KeyCache, and one entry.  *)
(***************************************************************************)
EXTENDS Naturals, FiniteSets

CONSTANTS
    Backend,       \* "sqlite" or "postgres"
    Calls,         \* slots for calls in flight
    Requests,      \* the kinds of call the application makes: records [op, map, flag]
    Dropping,      \* whether tasks may be dropped before they are over
    MaxStores,     \* bound: store handles ever given out
    MaxRes         \* bound: session and scan handles ever given out

ASSUME FfiAssumption ==
    /\ Backend \in {"sqlite", "postgres"}
    /\ Dropping \in BOOLEAN
    /\ MaxStores \in Nat \ {0}
    /\ MaxRes \in Nat
    /\ Requests \subseteq [op : {"open", "work", "rekey", "close", "start", "use", "end"},
                           map : {"session", "scan"}, flag : BOOLEAN]
    /\ \A q \in Requests : q.map = "scan" => ~q.flag

VARIABLES
    stores,        \* handles in FFI_STORES
    storeCount,    \* FFI_STORE_COUNTER
    res,           \* sessions and scans
    resCount,      \* FFI_SESSION_COUNTER and FFI_SCAN_COUNTER, as one
    call,          \* calls
    pooled,        \* stores whose connection pool is open
    closed         \* history: stores whose close was reported a success

vars == <<stores, storeCount, res, resCount, call, pooled, closed>>
----------------------------------------------------------------------------
Sqlite == Backend = "sqlite"

Maps == {"session", "scan"}

\* mapped: in its map.  conn: has a connection of the pool.  wrote: the transaction of the
\* session has written the entry.
Resource == [map : Maps, store : Nat, txn : BOOLEAN,
             mapped : BOOLEAN, conn : BOOLEAN, wrote : BOOLEAN]

\* A handle that stands for nothing, not yet or no longer.
NoResource == [map |-> "session", store |-> 0, txn |-> FALSE,
               mapped |-> FALSE, conn |-> FALSE, wrote |-> FALSE]

\* open: provision, open.  work: calls on a loaded store (profiles, copy).  start, use,
\* end: scan_start and session_start, an operation, scan_free and session_close.
\* flag: as_transaction of a start, whether a use writes, commit of an end.  map: the map
\* it waits to write.
\* resolved, answers: EnsureCallback, and how often it has called back.
Ops == {"open", "work", "rekey", "close", "start", "use", "end"}

Call == [op : Ops \cup {"none", "done"},
         h : Nat,
         flag : BOOLEAN,
         map : Maps,
         pc : {"start", "ping", "write", "mutex", "run", "rekey", "replace", "pool", "commit", "end"},
         resolved : BOOLEAN,
         answers : Nat]

NoCall == [op |-> "none", h |-> 0, flag |-> FALSE, map |-> "session", pc |-> "end",
           resolved |-> TRUE, answers |-> 1]

TypeOK ==
    /\ stores \subseteq 1 .. MaxStores
    /\ storeCount \in Nat
    /\ res \in [1 .. MaxRes -> Resource]
    /\ resCount \in Nat
    /\ call \in [Calls -> Call]
    /\ pooled \subseteq 1 .. MaxStores
    /\ closed \subseteq 1 .. MaxStores

Init ==
    /\ stores = {}
    /\ storeCount = 0
    /\ res = [r \in 1 .. MaxRes |-> NoResource]
    /\ resCount = 0
    /\ call = [c \in Calls |-> NoCall]
    /\ pooled = {}
    /\ closed = {}
----------------------------------------------------------------------------
\* Whether a call has a reference to the resource (a clone of its Arc, or the value).
Uses(k, r) == /\ k.h = r
              /\ \/ k.op = "use" /\ k.pc \in {"mutex", "run"}
                 \/ k.op = "end" /\ k.pc = "commit"

\* A session or scan goes with its last reference; its connection returns to the pool
\* and its transaction is rolled back.
Swept(rs, cs) ==
    [r \in 1 .. MaxRes |->
        IF rs[r].mapped \/ \E c \in Calls : Uses(cs[c], r)
        THEN rs[r] ELSE NoResource]

\* The call goes on at pc, the resources being rs.
Goes(c, pc, rs) ==
    /\ call' = [call EXCEPT ![c].pc = pc]
    /\ res' = Swept(rs, call')

\* Mutant: resolve does not note that it has called back.
ResolvesUnnoted(c, rs) ==
    /\ call' = [call EXCEPT ![c] = [NoCall EXCEPT !.op = "done", !.resolved = FALSE]]
    /\ res' = Swept(rs, call')

\* EnsureCallback::resolve; what the task held it no longer holds.
Resolves(c, rs) ==
    /\ call' = [call EXCEPT ![c] = [NoCall EXCEPT !.op = "done", !.answers = call[c].answers + 1]]
    /\ res' = Swept(rs, call')

\* The RwLock of a map.  A reader keeps it while it waits for the mutex of a resource; a
\* writer that waits keeps new readers out.
Reading(m) == \E c \in Calls : call[c].pc = "mutex" /\ res[call[c].h].map = m
Writing(m) == \E c \in Calls : call[c].pc = "write" /\ call[c].map = m

InUse(r) == \E c \in Calls : call[c].op = "use" /\ call[c].pc = "run" /\ call[c].h = r

\* Calls with a clone of the store.
Sharing(s) == {c \in Calls : /\ call[c].op \in {"work", "start"} /\ call[c].h = s
                             /\ call[c].pc \in {"run", "ping", "write"}}

\* A session or scan of the store that is being started has its connection.
Connected(k, s) == k.op = "start" /\ k.h = s /\ k.pc \in {"ping", "write"}
----------------------------------------------------------------------------
(***************************************************************************)
(* A call of the library, with a handle that was given out at some time.   *)
(***************************************************************************)
Submit(c, q, h) ==
    /\ call[c].op = "none"
    /\ CASE q.op = "open" -> h = 0
         [] q.op \in {"use", "end"} -> h \in 1 .. resCount /\ q.map = res[h].map
         [] OTHER -> h \in 1 .. storeCount
    /\ call' = [call EXCEPT ![c] = [op |-> q.op, h |-> h, flag |-> q.flag, map |-> q.map,
                                    pc |-> "start", resolved |-> FALSE, answers |-> 0]]
    /\ UNCHANGED <<stores, storeCount, res, resCount, pooled, closed>>

\* ResourceHandle::next: a handle is never 0, the invalid one.
Fetched(count) == count + 1

\* Store::open and StoreHandle::create, or an error.
Open(c) ==
    /\ call[c].op = "open" /\ call[c].pc = "start"
    /\ \/ /\ storeCount < MaxStores
          /\ stores' = stores \cup {Fetched(storeCount)}
          /\ pooled' = pooled \cup {Fetched(storeCount)}
          /\ storeCount' = storeCount + 1
       \/ UNCHANGED <<stores, pooled, storeCount>>
    /\ Resolves(c, res)
    /\ UNCHANGED <<resCount, closed>>

\* StoreHandle::load clones the store.
Load(c) ==
    /\ call[c].op \in {"work", "start"} /\ call[c].pc = "start"
    /\ IF call[c].h \in stores THEN Goes(c, "run", res) ELSE Resolves(c, res)
    /\ UNCHANGED <<stores, storeCount, resCount, pooled, closed>>

Work(c) ==
    /\ call[c].op = "work" /\ call[c].pc = "run"
    /\ Resolves(c, res)
    /\ UNCHANGED <<stores, storeCount, resCount, pooled, closed>>

\* Mutant: rekey leaves its handle in the map.
TakeLoads(c) == {IF call[c].op = "close" THEN call[c].h ELSE 0}

\* StoreHandle::remove.
Take(c) == {call[c].h}

TakeStore(c) ==
    /\ call[c].op \in {"rekey", "close"} /\ call[c].pc = "start"
    /\ IF call[c].h \in stores
       THEN /\ stores' = stores \ Take(c)
            /\ Goes(c, IF call[c].op = "close" THEN "write" ELSE "rekey", res)
       ELSE /\ Resolves(c, res)
            /\ UNCHANGED stores
    /\ UNCHANGED <<storeCount, resCount, pooled, closed>>
----------------------------------------------------------------------------
(***************************************************************************)
(* askar_store_rekey: out of the map, rekeyed, and back into it.           *)
(***************************************************************************)
\* Mutant: the store is rekeyed whoever else has it.
AloneAlways(s) == TRUE

\* Arc::get_mut.
Alone(s) == Sharing(s) = {}

RekeyBegin(c) ==
    /\ call[c].pc = "rekey"
    /\ Goes(c, IF Alone(call[c].h) THEN "run" ELSE "replace", res)
    /\ UNCHANGED <<stores, storeCount, resCount, pooled, closed>>

RekeyEnd(c) ==
    /\ call[c].op = "rekey" /\ call[c].pc = "run"
    /\ Goes(c, "replace", res)
    /\ UNCHANGED <<stores, storeCount, resCount, pooled, closed>>

Replace(c) ==
    /\ call[c].pc = "replace"
    /\ stores' = stores \cup {call[c].h}
    /\ Resolves(c, res)
    /\ UNCHANGED <<storeCount, resCount, pooled, closed>>
----------------------------------------------------------------------------
(***************************************************************************)
(* askar_store_close.                                                      *)
(***************************************************************************)
Leftover(s, m) == {r \in 1 .. MaxRes : res[r].mapped /\ res[r].store = s /\ res[r].map = m}

\* StoreResourceMap::remove_all, first the sessions, then the scans.
RemoveAll(c) ==
    LET m == call[c].map
        rs == [r \in 1 .. MaxRes |->
                 IF r \in Leftover(call[c].h, m) THEN [res[r] EXCEPT !.mapped = FALSE] ELSE res[r]]
    IN
    /\ call[c].op = "close" /\ call[c].pc = "write"
    /\ ~Reading(m)
    /\ call' = [call EXCEPT ![c] = IF m = "session" THEN [@ EXCEPT !.map = "scan"]
                                                    ELSE [@ EXCEPT !.pc = "pool"]]
    /\ res' = Swept(rs, call')
    /\ pooled' = IF m = "scan" THEN pooled \ {call[c].h} ELSE pooled
    /\ UNCHANGED <<stores, storeCount, resCount, closed>>

\* Pool::close waits for every connection to come back.
ClosePool(c) ==
    /\ call[c].pc = "pool"
    /\ \A r \in 1 .. MaxRes : res[r].store = call[c].h => ~res[r].conn
    /\ \A d \in Calls : ~Connected(call[d], call[c].h)
    /\ closed' = closed \cup {call[c].h}
    /\ Resolves(c, res)
    /\ UNCHANGED <<stores, storeCount, resCount, pooled>>
----------------------------------------------------------------------------
(***************************************************************************)
(* Sessions and scans.                                                     *)
(***************************************************************************)
\* Mutant: a connection is made though the pool is closed.
ConnectAnyway(c) ==
    /\ call[c].op = "start" /\ call[c].pc = "run"
    /\ Goes(c, "ping", res)
    /\ UNCHANGED <<stores, storeCount, resCount, pooled, closed>>

\* Store::scan, and the ping of Store::session and Store::transaction: make_active takes a
\* connection from the pool, if that is open.
Connect(c) ==
    /\ call[c].op = "start" /\ call[c].pc = "run"
    /\ IF call[c].h \in pooled THEN Goes(c, "ping", res) ELSE Resolves(c, res)
    /\ UNCHANGED <<stores, storeCount, resCount, pooled, closed>>

\* A transaction session of the store exists, in its map or not.
TxnOpen(s) ==
    \/ \E r \in 1 .. MaxRes : res[r].txn /\ res[r].store = s
    \/ \E c \in Calls : /\ call[c].op = "start" /\ call[c].flag
                        /\ call[c].h = s /\ call[c].pc = "write"

\* The transaction is begun and the profile looked up: in a transaction session only when
\* no other one is open.  SQLite gives up (SQLITE_BUSY).
Started(c) ==
    LET waits == call[c].flag /\ TxnOpen(call[c].h) IN
    /\ call[c].op = "start" /\ call[c].pc = "ping"
    /\ \/ ~waits /\ Goes(c, "write", res)
       \/ waits /\ Sqlite /\ Resolves(c, res)
    /\ UNCHANGED <<stores, storeCount, resCount, pooled, closed>>

\* No connection in time, no such profile, an error of the database: the session is closed
\* and dropped.
StartFails(c) ==
    /\ call[c].op = "start" /\ call[c].pc \in {"run", "ping"}
    /\ Resolves(c, res)
    /\ UNCHANGED <<stores, storeCount, resCount, pooled, closed>>

\* StoreResourceMap::insert.
Insert(c) ==
    /\ call[c].op = "start" /\ call[c].pc = "write"
    /\ ~Reading(call[c].map)
    /\ IF resCount < MaxRes
       THEN /\ resCount' = resCount + 1
            /\ Resolves(c, [res EXCEPT ![Fetched(resCount)] =
                 [NoResource EXCEPT !.map = call[c].map, !.store = call[c].h,
                                    !.txn = call[c].flag, !.mapped = TRUE, !.conn = TRUE]])
       ELSE /\ Resolves(c, res)     \* bound
            /\ UNCHANGED resCount
    /\ UNCHANGED <<stores, storeCount, pooled, closed>>

\* StoreResourceMap::borrow.
Borrow(c) ==
    LET r == call[c].h IN
    /\ call[c].op = "use" /\ call[c].pc = "start"
    /\ ~Writing(call[c].map)
    /\ IF res[r].mapped THEN Goes(c, IF InUse(r) THEN "mutex" ELSE "run", res)
                        ELSE Resolves(c, res)
    /\ UNCHANGED <<stores, storeCount, resCount, pooled, closed>>

\* lock_arc() returns, and with it the read lock goes.
Lock(c) ==
    /\ call[c].pc = "mutex"
    /\ ~InUse(call[c].h)
    /\ Goes(c, "run", res)
    /\ UNCHANGED <<stores, storeCount, resCount, pooled, closed>>

\* A session that is no transaction meets one with its write: at the write lock of SQLite,
\* or at the row of the entry.
Blocked(c) ==
    LET r == call[c].h
        other == {q \in 1 .. MaxRes : res[q].txn /\ res[q].store = res[r].store}
    IN
    /\ call[c].flag /\ ~res[r].txn
    /\ IF Sqlite THEN TxnOpen(res[r].store) ELSE \E q \in other : res[q].wrote

\* The operation.  A scan that has come to its end gives its connection back.
Use(c) ==
    LET r == call[c].h IN
    /\ call[c].op = "use" /\ call[c].pc = "run"
    /\ \/ /\ ~Blocked(c)
          /\ \E last \in BOOLEAN :
                Resolves(c, [res EXCEPT ![r].wrote = @ \/ (res[r].txn /\ call[c].flag),
                                        ![r].conn = @ /\ ~(last /\ res[r].map = "scan")])
       \/ /\ Blocked(c) /\ Sqlite                             \* SQLITE_BUSY
          /\ Resolves(c, res)
    /\ UNCHANGED <<stores, storeCount, resCount, pooled, closed>>

\* session_close and scan_free go for the write lock.
End(c) ==
    /\ call[c].op = "end" /\ call[c].pc = "start"
    /\ Goes(c, "write", res)
    /\ UNCHANGED <<stores, storeCount, resCount, pooled, closed>>

\* Arc::try_unwrap fails.
Busy(r) == InUse(r)

\* StoreResourceMap::remove: nothing there is a success; a resource in use is Busy, and
\* out of the map all the same.
Remove(c) ==
    LET r == call[c].h
        rs == [res EXCEPT ![r].mapped = FALSE]
    IN
    /\ call[c].op = "end" /\ call[c].pc = "write"
    /\ ~Reading(call[c].map)
    /\ IF res[r].mapped /\ ~Busy(r) /\ call[c].flag
       THEN Goes(c, "commit", rs)
       ELSE Resolves(c, rs)
    /\ UNCHANGED <<stores, storeCount, resCount, pooled, closed>>

Commit(c) ==
    /\ call[c].pc = "commit"
    /\ Resolves(c, res)
    /\ UNCHANGED <<stores, storeCount, resCount, pooled, closed>>
----------------------------------------------------------------------------
\* The future is dropped: its task is over, or the task panics or is one of those that
\* askar_terminate ends.  Drop of EnsureCallback answers what was not answered.
DropCall(c) ==
    /\ call[c].op # "none"
    /\ call[c].op = "done" \/ Dropping
    /\ call' = [call EXCEPT ![c] = [NoCall EXCEPT !.answers =
                   IF call[c].resolved THEN call[c].answers ELSE call[c].answers + 1]]
    /\ res' = Swept(res, call')
    /\ UNCHANGED <<stores, storeCount, resCount, pooled, closed>>

Step(c) ==
    \/ Open(c) \/ Load(c) \/ Work(c) \/ TakeStore(c)
    \/ RekeyBegin(c) \/ RekeyEnd(c) \/ Replace(c)
    \/ RemoveAll(c) \/ ClosePool(c)
    \/ Connect(c) \/ Started(c) \/ Insert(c)
    \/ Borrow(c) \/ Lock(c) \/ Use(c)
    \/ End(c) \/ Remove(c) \/ Commit(c)

Next ==
    \E c \in Calls :
       \/ \E q \in Requests, h \in 0 .. MaxStores + MaxRes : Submit(c, q, h)
       \/ Step(c)
       \/ StartFails(c)
       \/ DropCall(c)

Spec == Init /\ [][Next]_vars

\* The application calls session_close, or scan_free, for a handle that is in its map.
Ends(r) ==
    /\ res[r].mapped
    /\ \E c \in Calls, q \in Requests : q.op = "end" /\ Submit(c, q, r)

\* The runtime polls a task that can go on and frees one that is over; the locks are fair
\* (async-lock: write-preferring, eventually fair).  The application ends every session
\* and scan it was given.
Fairness ==
    /\ \A c \in Calls : /\ SF_vars(Step(c))
                        /\ WF_vars(call[c].op = "done" /\ DropCall(c))
    /\ \A r \in 1 .. MaxRes : SF_vars(Ends(r))

FairSpec == Spec /\ Fairness
----------------------------------------------------------------------------
(***************************************************************************)
(* Properties.                                                             *)
(***************************************************************************)
\* Every call is answered exactly once by the time its future is gone, through panics and
\* shutdown at any await (EnsureCallback).
AnsweredOnce == \A c \in Calls : call[c].op = "none" => call[c].answers = 1

\* A store handle that was closed stays closed, whatever rekey takes out of the map and
\* puts back meanwhile.
ClosedForGood == closed \cap stores = {}

\* While a store is being rekeyed no other call works on it.
RekeyAlone == \A c \in Calls : call[c].op = "rekey" /\ call[c].pc = "run" =>
                                   Sharing(call[c].h) = {}

\* No operation is at work on a session that is being committed.
CommitAlone == \A c \in Calls : call[c].pc = "commit" =>
                                    \A d \in Calls \ {c} : ~Uses(call[d], call[c].h)

\* The handles are in order: their types, and ClosedForGood.
HandlesInOrder == TypeOK /\ ClosedForGood

\* Rekey and commit work alone: RekeyAlone and CommitAlone.
WorksAlone == RekeyAlone /\ CommitAlone

\* Once askar_store_close has reported a success no session or scan of the store has a
\* connection or gets one, though calls that had cloned the store before may go on and
\* put theirs into the maps after remove_all has been through them.
ClosedQuiet ==
    \A s \in closed : /\ \A r \in 1 .. MaxRes : res[r].store = s => ~res[r].conn
                      /\ \A c \in Calls : ~Connected(call[c], s)

\* Closing a store does not wait for ever for the sessions and scans that were left open
\* (askar_store_close removes them "to avoid blocking unnecessarily due to handles that
\* simply haven't been dropped yet"), not even when the application goes on to end each of
\* them.
StoreCloseReturns ==
    \A c \in Calls : call[c].op = "close" ~> call[c].op # "close"
============================================================================
