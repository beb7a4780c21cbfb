----------------------------- MODULE StoreCopy ------------------------------
(***************************************************************************)
(* Store::copy_to: once the target is provisioned with the default profile *)
(* of the source, every profile of the source is copied by one transaction *)
(* of the target.                                                          *)
(***************************************************************************)
EXTENDS Provisioning

Target(p) == Head(proc[p].todo)

\* The profile as the key cache of the new instance knows it.
Cached(p) == CHOOSE e \in proc[p].inst.ids : e[1] = Target(p).name

\* A profile that exists already is a Duplicate, which copy_profile puts up with, unless
\* the backend is ODBC, which reports the conflict as any other failure.
CreateProfile(p) ==
    LET f == File(p)
        rows == {r \in f.profs : r.name = Target(p).name}
        row == ProfileRow(NextId(f), Target(p).name, proc[p].inst.skey, fresh + 1)
    IN
    /\ proc[p].pc = "create_profile" /\ Unlocked(p)
    /\ CASE rows = {} /\ "profiles" \in f.tables ->
              /\ Put(p, [f EXCEPT !.profs = @ \cup {row}])
              /\ proc' = [proc EXCEPT ![p].pc = "count",
                                      ![p].inst.ids = @ \cup {<<row.name, row.id, row.key>>}]
              /\ fresh' = fresh + 1
         [] rows # {} /\ backend # "odbc" ->
              To(p, "count") /\ UNCHANGED <<files, fresh>>
         [] OTHER -> Fail(p) /\ UNCHANGED <<files, fresh>>
    /\ UNCHANGED <<backend, at, calls, crashes>>

\* The transaction resolves the profile, from the cache or from its row, and counts.
Count(p) ==
    LET f == File(p)
        known == {e \in proc[p].inst.ids : e[1] = Target(p).name}
        rows == {r \in f.profs : r.name = Target(p).name /\ r.wrap = proc[p].inst.skey}
        found == IF known # {} THEN known ELSE {<<r.name, r.id, r.key>> : r \in rows}
    IN
    /\ proc[p].pc = "count" /\ Unlocked(p)
    /\ IF found = {} \/ "items" \notin f.tables \/ \E e \in found, i \in f.items : i.id = e[2]
       THEN Fail(p)
       ELSE proc' = [proc EXCEPT ![p].pc = "import", ![p].txn = backend = "sqlite",
                                 ![p].inst.ids = @ \cup found]
    /\ UNCHANGED <<backend, files, at, fresh, calls, crashes>>

\* Mutant: the entries are inserted by a session that is not a transaction.
ImportScanLoose(p) ==
    LET e == Cached(p)
        rows == {Item(e[2], e[3], i, TRUE) : i \in Target(p).items}
        left == rows \ File(p).items
    IN
    /\ proc[p].pc = "import" /\ Unlocked(p)
    /\ IF left # {}
       THEN \E r \in left : Put(p, [File(p) EXCEPT !.items = @ \cup {r}]) /\ UNCHANGED proc
       ELSE /\ proc' = [proc EXCEPT ![p].txn = FALSE, ![p].todo = Tail(@),
                                    ![p].pc = IF Len(proc[p].todo) > 1 THEN "create_profile" ELSE "open"]
            /\ files' = files
    /\ UNCHANGED <<backend, at, fresh, calls, crashes>>

\* import_scan and the commit: an entry that is there by now is a Duplicate, and the table
\* and the row of the profile have to be there.
ImportScan(p) ==
    LET e == Cached(p)
        rows == {Item(e[2], e[3], i, TRUE) : i \in Target(p).items}
    IN
    /\ proc[p].pc = "import" /\ Unlocked(p)
    /\ IF /\ rows # {}
          /\ \/ "items" \notin File(p).tables \/ rows \cap File(p).items # {}
             \/ \A r \in File(p).profs : r.id # e[2]
       THEN Fail(p) /\ files' = files
       ELSE /\ Put(p, [File(p) EXCEPT !.items = @ \cup rows])
            /\ proc' = [proc EXCEPT ![p].txn = FALSE, ![p].todo = Tail(@),
                                    ![p].pc = IF Len(proc[p].todo) > 1 THEN "create_profile" ELSE "open"]
    /\ UNCHANGED <<backend, at, fresh, calls, crashes>>

CopyStep(p) == CreateProfile(p) \/ Count(p) \/ ImportScan(p)
============================================================================
