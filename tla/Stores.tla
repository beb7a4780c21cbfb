------------------------------- MODULE Stores -------------------------------
(***************************************************************************)
(* Every call that works on a store by its URL, and what may be relied on  *)
(* when they overlap or the machine crashes in the middle of one.          *)
(***************************************************************************)
EXTENDS WalletMigration, StoreCopy

\* Nothing at the URL, or a wallet of Indy; the database of ODBC exists, empty.
Init ==
    /\ backend \in Backends
    /\ files \in CASE backend = "sqlite" -> {<<>>, <<IndyWallet>>}
                   [] backend = "postgres" -> {<<>>}
                   [] backend = "odbc" -> {<<Empty>>}
    /\ at = Len(files)
    /\ proc = [p \in Procs |-> Free]
    /\ fresh = 0 /\ calls = 0 /\ crashes = 0

Step(p) == ProvisioningStep(p) \/ MigrationStep(p) \/ CopyStep(p)

Next ==
    \/ \E p \in Procs : Step(p) \/ End(p) \/ \E c \in Calls : Start(p, c)
    \/ Crash

\* A call that is in flight is polled until it returns.
Spec == Init /\ [][Next]_vars /\ \A p \in Procs : WF_vars(Step(p))
----------------------------------------------------------------------------
(***************************************************************************)
(* Properties.                                                             *)
(***************************************************************************)
AllTables == {Tables[i] : i \in 1..4}

\* An instance that open, provision or copy returned works on a whole store: all tables,
\* version 1, nothing left of a wallet, and its profile under its store key, which is the
\* one that the default profile is under as well, however the call came about its store.
\* The exceptions are an instance whose store was replaced, and a store to which a call wrote that
\* had connected before the replacement, which ODBC, with its single statements, and the
\* tables of Postgres allow.  ODBC also opens a store some of whose tables a call is dropping,
\* or has dropped before it crashed, since the config table is the last to go.
OpenedIsWhole ==
    \A p \in Procs : proc[p].pc = "open" /\ ~proc[p].stale /\ ~File(p).mixed =>
        LET f == File(p)
            i == proc[p].inst
        IN /\ AllTables \subseteq f.tables \/ backend = "odbc"
           /\ f.config.version = "1" /\ f.old = {}
           /\ \A e \in i.ids : ProfileRow(e[2], e[1], i.skey, e[3]) \in f.profs
           /\ f.config.profile = i.name => \E r \in f.profs : r.name = i.name /\ r.wrap = i.skey

\* Two instances of one store agree on its store key and on every profile both know, even
\* when both were provisioning at the same time: init_db never goes over a store.
InstancesAgree ==
    \A p, q \in Procs :
        /\ proc[p].pc = "open" /\ proc[q].pc = "open" /\ proc[p].file = proc[q].file
        /\ ~proc[p].stale /\ ~proc[q].stale /\ ~File(p).mixed
        => /\ proc[p].inst.skey = proc[q].inst.skey
           /\ \A d \in proc[p].inst.ids, e \in proc[q].inst.ids : d[1] = e[1] => d = e

\* What was opened is in order: OpenedIsWhole and InstancesAgree.
InstancesInOrder == OpenedIsWhole /\ InstancesAgree

\* At every moment, so after a crash at any, what says it is a store of version 1 opens
\* with the pass key it was made with.  A raw key that was drawn is known to nobody; and
\* ODBC has a moment when the config is there and the first profile is not.
StoreOpensAgain ==
    \A i \in DOMAIN files :
        LET f == files[i] IN
        f.config.version = "1" /\ ~f.mixed /\ f.by # Absent /\ ~(backend = "odbc" /\ f.profs = {})
        => \E k \in ResolveRef(f.config.key, f.by), r \in f.profs :
             r.name = f.config.profile /\ r.wrap = k

\* provision with recreate works whatever is there, a wallet or the remains of a crash,
\* when no other call is in flight.  It needs a pass key to derive from; and ODBC cannot
\* drop a store that lacks a table, nor create one where a table is left over.
RecreateWorks ==
    \A p \in Procs :
        proc[p].pc = "failed" /\ Op(p) = "provision" /\ Recreate(p) /\ proc[p].alone
        => \/ proc[p].call.method = "kdf" /\ proc[p].call.pass = Absent
           \/ backend = "odbc" /\ proc[p].first.tables \notin {{}, AllTables}

\* A call of open, provision or remove that fails with no other in flight has left what was
\* there as it was, whichever early return it took.  The exceptions are recreate for SQLite
\* and ODBC, where the old store is gone before the keys are derived, and any call of ODBC
\* on a store that lacks a table, which drops or creates tables until it meets the gap.
FailureKeepsStore ==
    [][\A p \in Procs :
         /\ InFlight(p) /\ proc'[p].pc = "failed" /\ proc[p].alone
         /\ Op(p) \in {"open", "provision", "remove"}
         /\ Recreate(p) => backend = "postgres"
         /\ backend = "odbc" => proc[p].first.tables \in {{}, AllTables}
         => There' = proc[p].first]_vars

\* A profile of a store has all the items that are copied to it or none, crashes included,
\* and when copy_to returns every profile has its items under the profile's own key.
CopyWhole ==
    \A i \in DOMAIN files :
        LET f == files[i]
            of(r) == {t.item : t \in {t \in f.items : t.id = r.id /\ t.key = r.key}}
        IN ~f.mixed /\ f.wallet = {} =>
            /\ \A r \in f.profs : of(r) = {} \/ \E n \in DOMAIN Source : Source[n].name = r.name /\ of(r) = Source[n].items
            /\ \A p \in Procs : proc[p].pc = "open" /\ Op(p) = "copy" /\ proc[p].file = i /\ ~proc[p].stale =>
                 \A n \in DOMAIN Source : \E r \in f.profs : r.name = Source[n].name /\ of(r) = Source[n].items

\* No item of an Indy wallet is ever lost by its migration, whenever that stops: it is still
\* among the old ones or it is complete, with its tags, under the new profile's key; and a
\* wallet that counts as a store has them all, and nothing is left among the old ones.
WalletKept ==
    \A i \in DOMAIN files :
        LET f == files[i]
            moved == {t.item : t \in {t \in f.items : t.tagged /\ \E r \in f.profs : r.id = t.id /\ r.key = t.key}}
        IN /\ f.wallet \subseteq f.old \cup moved
           /\ f.wallet # {} /\ f.config.version = "1" => f.wallet \subseteq moved /\ f.old = {}

\* A call in flight can step, or it waits for the lock of a call that can: nobody waits for
\* who waits, for a lock that an error path has kept, or for a connection that never comes.
\* A provision that goes on to open asks its pool for a second connection while it keeps
\* the first and a transaction; in a pool of one only the acquire timeout ends that wait.
NobodyStuck ==
    \A p \in Procs : InFlight(p) =>
        \/ ENABLED Step(p)
        \/ \E q \in Procs : /\ proc[q].file = proc[p].file
                            /\ proc[q].txn \/ proc[q].pc = "import"
                            /\ InFlight(q) /\ ENABLED Step(q)
============================================================================
