------------------------------ MODULE OdbcReads ------------------------------
(***************************************************************************)
(* count, fetch, fetch_all and scan of the ODBC backend, beside the calls  *)
(* of OdbcBackend.  A read is a query for the rows of the entries and then *)
(* one query for the tags of each row, statements of their own between     *)
(* which other sessions go on; its own session, which it has to itself,    *)
(* does nothing else.  The queries for entries leave out what has expired, *)
(* which the statements of OdbcBackend do not.  The rows a cursor delivers *)
(* are those of the moment the query ran (external).                       *)
(*                                                                         *)
(* One read is in flight at a time: reads change nothing another one could *)
(* see.                                                                    *)
(***************************************************************************)
EXTENDS OdbcBackend
LOCAL INSTANCE SequencesExt

CONSTANTS
    Queries,       \* what is read: [op |-> "fetch", name], or a page of all the entries,
                   \* [op |-> "scan", offset, limit, descending]; limit -1 is none
    Expiring       \* the changes, by token, that give their entry an expiry time

VARIABLES
    read,          \* the read in flight
    gone           \* those of Expiring whose time is past

readVars == <<vars, read, gone>>

NoRead == [st |-> "none"]

ReadsInit == Init /\ read = NoRead /\ gone = {}

\* The rows the queries for entries of a profile select.
Live(c, pid) == {r \in View(c) : r.t = "item" /\ r.pid = pid /\ r.tok \notin gone}

\* count, which is one statement.
Count(c, pid) == Cardinality(Live(c, pid))

\* OrderBy::Id, up or down; without it the order is the database's.
Found(c, pid, descending) ==
    SetToSortSeq(Live(c, pid), LAMBDA a, b : IF descending THEN a.id > b.id ELSE a.id < b.id)

\* The rows perform_scan takes, which counts offset and limit itself.
Scanned(c, pid, q) ==
    LET rows == Found(c, pid, q.descending)
        taken(n) == n > q.offset /\ (q.limit = -1 \/ n - q.offset <= q.limit)
    IN  [i \in 1..Cardinality({n \in DOMAIN rows : taken(n)}) |-> rows[q.offset + i]]

Fetched(c, pid, q) == SetToSeq({r \in Live(c, pid) : r.name = q.name})

\* The first statement of a read.  The row of a fetch that the driver fails to deliver
\* counts as no row.
QueryItems(s, q) ==
    LET c == sess[s].conn IN
    /\ up /\ sess[s].st = "open" /\ sess[s].pc = "idle"
    /\ read = NoRead
    /\ \E pid \in Cached(sess[s].gen, sess[s].profile), lost \in BOOLEAN :
          /\ lost => q.op = "fetch"
          /\ read' = [st |-> "rows", s |-> s, pid |-> pid, q |-> q, got |-> <<>>, calm |-> ~lost,
                      todo |-> IF lost THEN <<>>
                               ELSE IF q.op = "fetch" THEN Fetched(c, pid, q)
                               ELSE Scanned(c, pid, q)]
    /\ UNCHANGED <<vars, gone>>

\* Mutant: the tags are asked for by the id of the profile, as DELETE_TAG is run.
DecodedTagsOfProfile(c, row) == TagsOf(c, {row.pid})

DecodedTags(c, row) == TagsOf(c, {row.id})

Entry(c, row) == [row |-> row, tags |-> DecodedTags(c, row)]

\* The tags of the next row, as they are by now.
GetTags ==
    /\ read.st = "rows" /\ read.todo # <<>>
    /\ read' = [read EXCEPT !.todo = Tail(@),
                            !.got = Append(@, Entry(sess[read.s].conn, Head(read.todo)))]
    /\ UNCHANGED <<vars, gone>>

\* All rows have their tags, or a statement failed.
ReadReturns ==
    /\ read.st = "rows"
    /\ read' = NoRead
    /\ UNCHANGED <<vars, gone>>

\* What a session is shown of the entries of a profile.
Shown(c, pid) == {Entry(c, r) : r \in Live(c, pid)}

\* The read in flight, of connection c, after a step of another session.
Alongside(c) ==
    read' = IF read = NoRead \/ ~up' THEN NoRead
            ELSE [read EXCEPT !.calm = @ /\ \E pid \in {read.pid} : Shown(c, pid)' = Shown(c, pid)]

\* A step of OdbcBackend, which is not one of the session that reads.
OtherStep ==
    /\ Next
    /\ gone' = gone
    /\ read # NoRead /\ up' => sess'[read.s] = sess[read.s]
    /\ \E c \in IF read = NoRead THEN {Nobody} ELSE {sess[read.s].conn} : Alongside(c)

\* Time passes for an entry that was given an expiry time.
Expire(t) ==
    /\ t \in Expiring \ gone /\ log[t].op \in {"insert", "replace"}
    /\ gone' = gone \cup {t}
    /\ read' = IF read = NoRead THEN NoRead
               ELSE [read EXCEPT !.calm =
                        @ /\ t \notin {r.tok : r \in Live(sess[read.s].conn, read.pid)}]
    /\ UNCHANGED vars

ReadsNext ==
    \/ OtherStep
    \/ \E s \in Sessions, q \in Queries : QueryItems(s, q)
    \/ GetTags \/ ReadReturns
    \/ \E t \in Tokens : Expire(t)

ReadsSpec == ReadsInit /\ [][ReadsNext]_readVars
------------------------------------------------------------------------------
\* What a read that nobody disturbs has to answer: of a fetch the entry of that name, if
\* there is one, and of a scan the entry at each place from the offset to the limit.
Answers(c, pid, q, entries) ==
    /\ ToSet(entries) \subseteq Shown(c, pid)
    /\ IF q.op = "fetch"
       THEN ToSet(entries) = {e \in Shown(c, pid) : e.row.name = q.name}
       ELSE /\ \A i \in DOMAIN entries :
                  q.offset + i = Cardinality({r \in Live(c, pid) :
                                                IF q.descending THEN r.id >= entries[i].row.id
                                                ELSE r.id <= entries[i].row.id})
            /\ Len(entries) = q.limit \/ q.offset + Len(entries) >= Count(c, pid)

\* What a read returns is true of the store, although its statements are not one: an entry
\* comes with tags of the entry of that name and no other, even when it has been removed
\* and written again since its row was read; value and tags are durable, the session's own
\* or of a call with autocommit; an entry the session has pending comes with the tags it
\* gave; and a read between whose statements nobody changes what it is shown, and whose row
\* the driver delivers, answers exactly what is there.
ReadsTrue ==
    read.st = "rows" =>
        LET c == sess[read.s].conn IN
        /\ \A e \in ToSet(read.got) :
              /\ \A g \in e.tags : log[g.tok].at = <<read.pid, e.row.name>>
              /\ \A t \in {e.row.tok} \cup {g.tok : g \in e.tags} :
                    \/ log[t].conn = c
                    \/ log[t].fate \in {"kept", "leaked"}
                    \/ log[t].fate = "open" /\ conn[log[t].conn].auto
              /\ e.row \in conn[c].add => e.tags = TagsOf(c, {e.row.id})
        /\ read.calm =>
              Answers(c, read.pid, read.q,
                      read.got \o [i \in DOMAIN read.todo |-> Entry(c, read.todo[i])])
==============================================================================
