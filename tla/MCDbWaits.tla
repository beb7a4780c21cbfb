----------------------------- MODULE MCDbWaits -----------------------------
(***************************************************************************)
(* DbSession for TLC, with more sessions than connections, on each         *)
(* backend.  The sessions have been created, and are numbers: transaction  *)
(* sessions first.                                                         *)
(***************************************************************************)
EXTENDS DbSession, TLC

VARIABLE case      \* "postgres" or "sqlite"

Lite == INSTANCE DbSession WITH Backend <- "sqlite"

\* The first n sessions are there, txns of them transaction sessions.
Pending(n, txns) ==
    [s \in Sessions |-> IF s <= n THEN [FreeSession EXCEPT !.st = "pending", !.txn = s <= txns]
                                  ELSE FreeSession]

\* As many sessions as connections, and all the writes to come (Postgres); or more
\* sessions, and one write, those before it having found nothing to remove.
Created ==
    /\ case \in {"postgres", "sqlite"}
    /\ \/ /\ case = "postgres" /\ nextTok = 1
          /\ \E txns \in 0 .. Cardinality(Conns) : sess = Pending(Cardinality(Conns), txns)
       \/ /\ nextTok = MaxToks
          /\ \E txns \in 0 .. Cardinality(Sessions) : sess = Pending(Cardinality(Sessions), txns)
    /\ opens = MaxOpens /\ crashes = 0
    /\ db = {[kind |-> "ctr", tok |-> 0]}
    /\ conn = [c \in Conns |-> [owner |-> Nobody, stack |-> <<>>, aborted |-> FALSE]]
    /\ lock = Nobody
    /\ acked = {} /\ undone = {} /\ loose = {} /\ leaked = {}

\* Connections nobody has are alike: the first is taken.
FirstTaken ==
    \A c, d \in Conns :
        d < c /\ conn[c].owner = Nobody /\ conn[d].owner = Nobody => conn'[c].owner = Nobody

WaitsNext ==
    /\ \/ case = "postgres" /\ Next
       \/ case = "sqlite" /\ Lite!Next
    /\ FirstTaken
    /\ UNCHANGED case

Steps(s) ==
    \/ /\ case = "postgres"
       /\ \/ Progress(s) \/ StatementRefused(s) \/ AcquireTimeout(s)
          \/ BeginFails(s) \/ OpBeginFails(s)
    \/ /\ case = "sqlite"
       /\ \/ Lite!Progress(s) \/ Lite!StatementRefused(s) \/ Lite!AcquireTimeout(s)
          \/ Lite!BeginFails(s) \/ Lite!OpBeginFails(s)

\* The fairness of DbSession, on either backend.
WaitsSpec ==
    /\ Created
    /\ [][WaitsNext]_<<vars, case>>
    /\ \A s \in Sessions :
          /\ WF_vars(Steps(s))
          /\ WF_vars(sess[s].key = "lost" /\ ResolveFails(s))
          /\ SF_vars(sess[s].txn /\ \E commit \in BOOLEAN : Close(s, commit))
============================================================================
