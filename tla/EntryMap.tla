------------------------------ MODULE EntryMap ------------------------------
(***************************************************************************)
(* What a profile promises to the users of its sessions: a map from names  *)
(* to entries, changed by batches of operations.  A plain session commits  *)
(* each operation by itself, a transaction session all of its operations   *)
(* at once; either way the batch takes effect in one step, and each of its *)
(* operations found the map it needs: an insert a free name, a replace and *)
(* a remove an entry.                                                      *)
(***************************************************************************)
EXTENDS Naturals, Sequences

CONSTANTS
    Names,      \* the names of entries
    Absent      \* no entry

VARIABLES
    map,        \* the entry of each name
    last        \* the batch that was committed last

\* An operation on the entries of some names; only a remove may have more than one
OpOn(op, names, entry) == [op |-> op, names |-> names, entry |-> entry]

Legal(m, o) == \A n \in o.names : (m[n] = Absent) <=> (o.op = "insert")

Effect(m, o) ==
    [n \in Names |-> IF n \in o.names THEN IF o.op = "remove" THEN Absent ELSE o.entry ELSE m[n]]

\* The map after the first i operations of a batch, and whether each of them was legal
\* where it stands
Run(m, batch) ==
    LET after[i \in 0 .. Len(batch)] ==
          IF i = 0 THEN [ok |-> TRUE, map |-> m]
          ELSE [ok |-> after[i - 1].ok /\ Legal(after[i - 1].map, batch[i]),
                map |-> Effect(after[i - 1].map, batch[i])]
    IN  after

Replay(m, batch) == Run(m, batch)[Len(batch)]

Init ==
    /\ map = [n \in Names |-> Absent]
    /\ last = <<>>

Next ==
    LET after == Replay(map, last')
    IN  after.ok /\ map' = after.map

Spec == Init /\ [][Next]_<<map, last>>
=============================================================================
