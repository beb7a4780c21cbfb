-------------------------- MODULE WalletMigration ---------------------------
(***************************************************************************)
(* IndySdkToAriesAskarMigration: the Indy wallet in a SQLite file becomes  *)
(* a store in the same file.  The statements commit one by one; only the   *)
(* two scripts, pre_upgrade and finish_upgrade, are transactions.          *)
(***************************************************************************)
EXTENDS Provisioning

\* KdfMethod::to_store_key_reference: a derived key needs the wallet's salt.
ToStoreKeyReference(method, salt) == IF method = "kdf" THEN <<"kdf", salt>> ELSE <<"raw">>

\* connect, which creates no file.
ConnectWallet(p) ==
    /\ Op(p) = "migrate" /\ proc[p].pc = "connect"
    /\ IF at = 0 THEN Fail(p) ELSE proc' = [proc EXCEPT ![p].file = at, ![p].pc = "is_migrated"]
    /\ UNCHANGED <<backend, files, at, fresh, calls, crashes>>

\* A wallet without its metadata table has been migrated, and that is an error.
IsMigrated(p) ==
    /\ proc[p].pc = "is_migrated"
    /\ IF "metadata" \notin File(p).tables THEN Fail(p) ELSE To(p, "pre_upgrade")
    /\ UNCHANGED <<backend, files, at, fresh, calls, crashes>>

PreUpgrade(p) ==
    /\ proc[p].pc = "pre_upgrade" /\ Unlocked(p)
    /\ IF HasConfig(File(p))
       THEN Fail(p) /\ files' = files
       ELSE /\ Put(p, [File(p) EXCEPT !.tables = @ \cup {"config", "profiles", "items_old", "items_tags"}])
            /\ To(p, "indy_key")
    /\ UNCHANGED <<backend, at, fresh, calls, crashes>>

\* The wallet's key decrypts only under the right method and pass key; its salt, 0, goes on
\* into the store's key reference.
FetchIndyKey(p) ==
    LET c == proc[p].call
        ref == ToStoreKeyReference(c.method, 0)
    IN
    /\ proc[p].pc = "indy_key"
    /\ IF "metadata" \notin File(p).tables \/ <<c.method, c.pass>> # WalletKey
       THEN Fail(p) /\ fresh' = fresh
       ELSE \E k \in ResolveRef(ref, c.pass) :
              /\ proc' = [proc EXCEPT ![p].pc = "default_profile",
                                      ![p].keys = [skey |-> k, ref |-> ref, pkey |-> fresh + 1]]
              /\ fresh' = fresh + 1
    /\ UNCHANGED <<backend, files, at, calls, crashes>>

\* create_config inserts two rows.
CreateConfig(p) ==
    /\ proc[p].pc \in {"default_profile", "config_key"} /\ Unlocked(p)
    /\ IF proc[p].pc = "default_profile"
       THEN Put(p, [File(p) EXCEPT !.config.profile = proc[p].call.profile]) /\ To(p, "config_key")
       ELSE Put(p, [File(p) EXCEPT !.config.key = proc[p].keys.ref]) /\ To(p, "init_profile")
    /\ UNCHANGED <<backend, at, fresh, calls, crashes>>

\* A profile that is there already is read as a key that was never wrapped, which fails.
InitProfile(p) ==
    LET k == proc[p].keys IN
    /\ proc[p].pc = "init_profile" /\ Unlocked(p)
    /\ IF File(p).profs # {}
       THEN Fail(p) /\ files' = files
       ELSE /\ Put(p, [File(p) EXCEPT !.profs = {ProfileRow(1, proc[p].call.profile, k.skey, k.pkey)}])
            /\ To(p, "fetch")
    /\ UNCHANGED <<backend, at, fresh, calls, crashes>>

\* One old item at a time, until there are none.
FetchPending(p) ==
    /\ proc[p].pc = "fetch"
    /\ IF File(p).old = {} THEN To(p, "finish")
       ELSE \E i \in File(p).old : proc' = [proc EXCEPT ![p].pc = "insert", ![p].todo = <<i>>]
    /\ UNCHANGED <<backend, files, at, fresh, calls, crashes>>

\* decrypt_item and update_item: the item under the key of the new profile.
Updated(p, tagged) == Item(1, proc[p].keys.pkey, proc[p].todo[1], tagged)

\* Mutant: the old item is deleted before the new one is complete.
UpdateItemDeleteFirst(p, step) ==
    CASE step = "insert" -> [to |-> "tags", f |-> [File(p) EXCEPT !.items = @ \cup {Updated(p, FALSE)},
                                                                  !.old = @ \ {proc[p].todo[1]}]]
      [] step = "tags" -> [to |-> "delete", f |-> [File(p) EXCEPT !.items = (@ \ {Updated(p, FALSE)}) \cup {Updated(p, TRUE)}]]
      [] step = "delete" -> [to |-> "fetch", f |-> File(p)]

\* update_items_in_db: insert the item, then its tags, then delete the old one.
UpdateItem(p, step) ==
    CASE step = "insert" -> [to |-> "tags", f |-> [File(p) EXCEPT !.items = @ \cup {Updated(p, FALSE)}]]
      [] step = "tags" -> [to |-> "delete", f |-> [File(p) EXCEPT !.items = (@ \ {Updated(p, FALSE)}) \cup {Updated(p, TRUE)}]]
      [] step = "delete" -> [to |-> "fetch", f |-> [File(p) EXCEPT !.old = @ \ {proc[p].todo[1]}]]

UpdateItems(p) ==
    /\ proc[p].pc \in {"insert", "tags", "delete"} /\ Unlocked(p)
    /\ Put(p, UpdateItem(p, proc[p].pc).f)
    /\ To(p, UpdateItem(p, proc[p].pc).to)
    /\ UNCHANGED <<backend, at, fresh, calls, crashes>>

FinishUpgrade(p) ==
    /\ proc[p].pc = "finish" /\ Unlocked(p)
    /\ Put(p, [File(p) EXCEPT !.tables = @ \ {"items_old", "metadata"}, !.old = {},
                              !.config.version = "1", !.by = proc[p].call.pass])
    /\ proc' = [proc EXCEPT ![p].pc = "reopen", ![p].file = 0]
    /\ UNCHANGED <<backend, at, fresh, calls, crashes>>

\* The result is opened, by its URL, as any store is.
Reopen(p) ==
    /\ proc[p].pc = "reopen"
    /\ IF at = 0 THEN Fail(p) ELSE proc' = [proc EXCEPT ![p].file = at, ![p].pc = "config"]
    /\ UNCHANGED <<backend, files, at, fresh, calls, crashes>>

MigrationStep(p) ==
    \/ ConnectWallet(p) \/ IsMigrated(p) \/ PreUpgrade(p) \/ FetchIndyKey(p) \/ CreateConfig(p) \/ InitProfile(p)
    \/ FetchPending(p) \/ UpdateItems(p) \/ FinishUpgrade(p) \/ Reopen(p)
============================================================================
