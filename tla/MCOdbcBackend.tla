--------------------------- MODULE MCOdbcBackend ---------------------------
(***************************************************************************)
(* OdbcBackend and OdbcReads for TLC, as two cases of one run.  In the     *)
(* first case every call of OdbcBackend goes on from a fresh store.  In    *)
(* the second a store has one entry, each session has a connection, plain  *)
(* or a transaction, and reads run beside two more calls: insert, replace, *)
(* remove and remove_profile.                                              *)
(***************************************************************************)
EXTENDS OdbcReads, TLC

VARIABLE case

MCTagSets == {{}, {"x", "y"}}

MCQueries ==
    [op : {"fetch"}, name : Names]
    \cup {[op |-> "scan", offset |-> 0, limit |-> -1, descending |-> FALSE],
          [op |-> "scan", offset |-> 1, limit |-> 1, descending |-> TRUE]}

Read2 == INSTANCE OdbcReads
            WITH MaxCalls <- 3, MaxOpens <- 2, MaxCrashes <- 0, TagSets <- {{}, {"x"}},
                 Profiles <- {Default}

\* An insert by a session that is closed by now.
Inserted(n) == [op |-> "insert", conn |-> Nobody, at |-> <<1, n>>, tags |-> {"x"},
             fate |-> "kept", ok |-> TRUE, over |-> {}]

OneEntry ==
    /\ \E n \in Names :
          /\ db = {ProfRow(1, Default, 1, 0), ConfigRow("key", 1),
                   ConfigRow("default_profile", Default), ItemRow(2, 1, n, 1), TagRow(2, "x", 1)}
          /\ log = <<Inserted(n)>>
    /\ nextId = [prof |-> 2, item |-> 3]
    /\ \E on \in {f \in [Conns -> Sessions] : \A s \in Sessions : \E c \in Conns : f[c] = s},
          txn \in [Sessions -> BOOLEAN] :
          /\ conn = [c \in Conns |-> [holder |-> on[c], auto |-> ~txn[on[c]], add |-> {}, del |-> {}]]
          /\ sess = [s \in Sessions |->
                        [st |-> "open", conn |-> CHOOSE c \in Conns : on[c] = s, txn |-> txn[s],
                         gen |-> 1, profile |-> Default, pc |-> "idle"]]
    /\ caches = <<[key |-> 1, ids |-> {<<Default, 1>>}]>>
    /\ adm = NoCall /\ up = TRUE /\ dirty = {} /\ torn = FALSE /\ opens = 2 /\ crashes = 0
    /\ read = NoRead /\ gone = {}

MCInit ==
    \/ case = "calls" /\ ReadsInit
    \/ case = "reads" /\ OneEntry

Calls ==
    /\ case = "calls"
    /\ Next
    /\ UNCHANGED <<case, read, gone>>

Reads ==
    /\ case = "reads"
    /\ Read2!ReadsNext
    /\ \A t \in DOMAIN log' : log'[t].op \in {"insert", "replace", "remove", "drop"}
    /\ case' = case

MCSpec == MCInit /\ [][Calls \/ Reads]_<<readVars, case>>

Symmetry == Permutations(Sessions) \cup Permutations(Conns) \cup Permutations(Names)
============================================================================
