----------------------------- MODULE MCEntries -----------------------------
(* Small instances of Entries. *)
EXTENDS Entries, TLC

CONSTANTS d1, d2, m1, u1

\* One tagged entry that stays and one untagged entry that expires
MCGiven == {[data |-> d1, meta |-> None, tags |-> {u1}, ttl |-> None],
            [data |-> d2, meta |-> m1, tags |-> {}, ttl |-> 1]}
MCChanges == {[meta |-> m1, tags |-> {}, ttl |-> None]}

\* All but the history variable, which no guard reads: the step that writes it is
\* checked against EntryMap when it is taken
View == <<backend, now, db, nextId, txn, work, held, batch, pending, scan, ops>>

Symmetry == Permutations(Sessions)
=============================================================================
