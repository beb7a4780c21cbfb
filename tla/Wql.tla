-------------------------------- MODULE Wql --------------------------------
(***************************************************************************)
(* The path of a tag filter from its JSON text to the rows it selects:     *)
(* parsing (wql/query.rs), the renaming of fetch_all_keys (src/store.rs),  *)
(* the encoding as SQL with numbered and unnumbered placeholders           *)
(* (wql/tags.rs, wql/sql.rs), the numbering of the placeholders and the    *)
(* parameters in front of and behind them (backend/db_utils.rs and the     *)
(* backends), and the evaluation of the WHERE clause by the database.      *)
(*                                                                         *)
(* A filter is a tree of nodes.  JSON objects are sequences of nodes whose *)
(* "subs" are objects; a Query is a node whose "subs" are nodes.  A name   *)
(* is the sequence of its parts ("~" and "user:" are the parts the code    *)
(* looks at), a tag value is a number with the order of the strings.       *)
(***************************************************************************)
EXTENDS Integers, Sequences, FiniteSets, SequencesExt

CONSTANTS
    Tags,       \* the tags a caller may give an item: [plain, name, value]
    Algs,       \* the algorithms of keys, as tag values
    Nonce,      \* the nonce of each tag value: an injective function
    Inputs      \* the JSON texts given as filters

VARIABLES
    input,      \* how the filter is used: backend, statement, paging
    json,       \* the text
    step,       \* the next step of the path
    query,      \* the parsed query, as handed to the backend
    sql,        \* the WHERE clause (an optional clause) and its parameters
    selected    \* the rows, by their tags, that the database returns

vars == <<input, json, step, query, sql, selected>>

-----------------------------------------------------------------------------
(* Trees.                                                                  *)

Node(op, names, vals, subs) ==
    [op |-> op, names |-> names, vals |-> vals, subs |-> subs]

\* A JSON text: an object, or an array of objects (the old restrictions)
Text(array, objects) == [array |-> array, objects |-> objects]

Conj(op, subs) == Node(op, <<>>, <<>>, subs)

NoQuery == Conj("and", <<>>)

Orders == {"gt", "gte", "lt", "lte"}
Ops == Orders \cup {"and", "or", "not", "exist", "eq", "neq", "like", "in"}

-----------------------------------------------------------------------------
(* Parsing and printing: wql/query.rs.                                     *)

RECURSIVE ParseQuery(_)

\* None is the empty sequence, Some(q) is <<q>>
ParseOperator(m) ==
    CASE m.op \in {"and", "or"} ->
            IF m.subs = <<>> THEN <<>>
            ELSE <<Conj(m.op, [i \in DOMAIN m.subs |-> ParseQuery(m.subs[i])])>>
      [] m.op = "not"   -> <<Conj("not", <<ParseQuery(m.subs[1])>>)>>
      [] m.op = "exist" -> IF m.names = <<>> THEN <<>> ELSE <<m>>
      [] OTHER          -> <<m>>

ParseQuery(object) ==
    LET operators == FlattenSeq([i \in DOMAIN object |-> ParseOperator(object[i])])
    IN  IF Len(operators) = 1 THEN operators[1] ELSE Conj("and", operators)

\* An array becomes {"$or": [its non-empty objects]}
Parse(text) ==
    IF text.array
    THEN ParseQuery(<<Conj("or", SelectSeq(text.objects, LAMBDA o : o # <<>>))>>)
    ELSE ParseQuery(text.objects[1])

\* Printing the parts of a conjunction into one object
RECURSIVE PrintedFlat(_)
PrintedFlat(q) ==
    CASE q.op \in {"and", "or"} ->
            <<Conj(q.op, <<FlattenSeq([i \in DOMAIN q.subs |-> PrintedFlat(q.subs[i])])>>)>>
      [] q.op = "not" -> <<Conj("not", <<PrintedFlat(q.subs[1])>>)>>
      [] OTHER        -> <<q>>

RECURSIVE Printed(_)
Printed(q) ==
    CASE q.op \in {"and", "or"} ->
            IF q.subs = <<>> THEN <<>>
            ELSE <<Conj(q.op, [i \in DOMAIN q.subs |-> Printed(q.subs[i])])>>
      [] q.op = "not" -> <<Conj("not", <<Printed(q.subs[1])>>)>>
      [] OTHER        -> <<q>>

\* A nested Not that is stripped one level too deep
RECURSIVE OptimiseDeep(_)
OptimiseDeep(q) ==
    CASE q.op = "not" ->
            LET inner == OptimiseDeep(q.subs[1])
            IN  IF inner = <<>> THEN <<>>
                ELSE IF inner[1].op = "not" THEN inner
                ELSE <<Conj("not", inner)>>
      [] q.op \in {"and", "or"} ->
            LET subs == FlattenSeq([i \in DOMAIN q.subs |-> OptimiseDeep(q.subs[i])])
            IN  IF Len(subs) < 2 THEN subs ELSE <<Conj(q.op, subs)>>
      [] q.op = "in" /\ Len(q.vals) = 1 -> <<Node("eq", q.names, q.vals, <<>>)>>
      [] OTHER -> <<q>>

RECURSIVE Optimise(_)
Optimise(q) ==
    CASE q.op = "not" ->
            LET inner == Optimise(q.subs[1])
            IN  IF inner = <<>> THEN <<>>
                ELSE IF inner[1].op = "not" THEN inner[1].subs
                ELSE <<Conj("not", inner)>>
      [] q.op \in {"and", "or"} ->
            LET subs == FlattenSeq([i \in DOMAIN q.subs |-> Optimise(q.subs[i])])
            IN  IF Len(subs) < 2 THEN subs ELSE <<Conj(q.op, subs)>>
      [] q.op = "in" /\ Len(q.vals) = 1 -> <<Node("eq", q.names, q.vals, <<>>)>>
      [] OTHER -> <<q>>

RECURSIVE MapNames(_, _)
MapNames(q, prefix) ==
    [q EXCEPT !.names = [i \in DOMAIN @ |-> prefix \o @[i]],
              !.subs  = [i \in DOMAIN @ |-> MapNames(@[i], prefix)]]

-----------------------------------------------------------------------------
(* The tags as stored: protect/profile_key.rs and insert_key.              *)

\* A value as the database compares it: its first 12 bytes, then the rest.
\* An encrypted value starts with a nonce that is derived from it.
Stored(plain, v) == IF plain THEN <<v, 0>> ELSE <<Nonce[v], v>>

EncryptedTag(t) == [plain |-> t.plain, name |-> t.name, value |-> Stored(t.plain, t.value)]

\* What a caller sees: an item has the caller's tags, a key also has its
\* algorithm.  The code stores the caller's tags of a key under "user:".
Items == SUBSET Tags
Keys == [tags : SUBSET Tags, alg : Algs]

Row(x) ==
    IF input.keys
    THEN {EncryptedTag([t EXCEPT !.name = <<"user:">> \o @]) : t \in x.tags}
         \cup {EncryptedTag([plain |-> FALSE, name |-> <<"alg">>, value |-> x.alg])}
    ELSE {EncryptedTag(t) : t \in x}

-----------------------------------------------------------------------------
(* Encoding: wql/tags.rs and wql/sql.rs.  A clause holds its placeholders  *)
(* in the order of the text: 0 for "$$" and n for "$n".  "pushed" repeats  *)
(* the arguments the clause was written for.                               *)

Param(kind, name, value) == [kind |-> kind, name |-> name, value |-> value]
NameArg(n)  == Param("name", n, <<0, 0>>)
ValueArg(v) == Param("value", <<>>, v)
NumArg(n)   == Param("number", <<>>, <<n, 0>>)

IsPlain(name) == Head(name) = "~"
Stripped(name) == IF IsPlain(name) THEN Tail(name) ELSE name

Clause(op, neg, plain, holes, pushed, subs) ==
    [op |-> op, neg |-> neg, plain |-> plain, holes |-> holes, pushed |-> pushed, subs |-> subs]

Zero == Clause("zero", FALSE, FALSE, <<>>, <<>>, <<>>)

Encoded(clauses, args) == [clauses |-> clauses, args |-> args]

\* The prefix of an encrypted value is compared but its argument not pushed
OpClauseShort(q, neg, n) ==
    LET plain == IsPlain(q.names[1])
        value == Stored(plain, q.vals[1])
        args  == <<NameArg(Stripped(q.names[1])), ValueArg(value)>>
                 \o (IF plain \/ q.op = "like" THEN <<>> ELSE <<ValueArg(<<value[1], 0>>)>>)
    IN  Encoded(<<Clause(q.op, neg, plain, [i \in DOMAIN args |-> n + i], args, <<>>)>>,
                SubSeq(args, 1, 2))

\* encode_tag_op and encode_op_clause: the placeholders are numbered
OpClause(q, neg, n) ==
    LET plain == IsPlain(q.names[1])
        value == Stored(plain, q.vals[1])
        args  == <<NameArg(Stripped(q.names[1])), ValueArg(value)>>
                 \o (IF plain \/ q.op = "like" THEN <<>> ELSE <<ValueArg(<<value[1], 0>>)>>)
    IN  Encoded(<<Clause(q.op, neg, plain, [i \in DOMAIN args |-> n + i], args, <<>>)>>, args)

\* encode_tag_in and encode_in_clause, encode_exist_clause: unnumbered
ListClause(op, name, values, neg) ==
    LET plain == IsPlain(name)
        args  == <<NameArg(Stripped(name))>>
                 \o [i \in DOMAIN values |-> ValueArg(Stored(plain, values[i]))]
    IN  Encoded(<<Clause(op, neg, plain, [i \in DOMAIN args |-> 0], args, <<>>)>>, args)

ConjClause(op, clauses) ==
    IF clauses = <<>> THEN IF op = "or" THEN <<Zero>> ELSE <<>>
    ELSE IF Len(clauses) = 1 THEN clauses
    ELSE <<Clause(op, FALSE, FALSE, <<>>, <<>>, clauses)>>

Negated(op) == IF op = "and" THEN "or" ELSE "and"

\* Appends to what is encoded so far
Joined(acc, e) == Encoded(acc.clauses \o e.clauses, acc.args \o e.args)

EncodeExist(names, neg) ==
    LET each == FoldLeft(LAMBDA acc, name : Joined(acc, ListClause("exist", name, <<>>, neg)),
                         Encoded(<<>>, <<>>), names)
    IN  Encoded(IF Len(names) < 2 THEN each.clauses ELSE ConjClause("and", each.clauses), each.args)

\* A negated conjunction that stays a conjunction
RECURSIVE EncodeUndual(_, _, _)
EncodeUndual(q, neg, n) ==
    CASE q.op \in {"and", "or"} ->
            LET all == FoldLeft(LAMBDA acc, s : Joined(acc, EncodeUndual(s, neg, n + Len(acc.args))),
                                Encoded(<<>>, <<>>), q.subs)
            IN  Encoded(ConjClause(q.op, all.clauses), all.args)
      [] q.op = "not"   -> EncodeUndual(q.subs[1], ~neg, n)
      [] q.op = "exist" -> EncodeExist(q.names, neg)
      [] q.op = "in"    -> ListClause("in", q.names[1], q.vals, neg)
      [] OTHER          -> OpClause(q, neg, n)

\* encode_tag_query with "n" arguments already pushed
RECURSIVE Encode(_, _, _)
Encode(q, neg, n) ==
    CASE q.op \in {"and", "or"} ->
            LET all == FoldLeft(LAMBDA acc, s : Joined(acc, Encode(s, neg, n + Len(acc.args))),
                                Encoded(<<>>, <<>>), q.subs)
            IN  Encoded(ConjClause(IF neg THEN Negated(q.op) ELSE q.op, all.clauses), all.args)
      [] q.op = "not"   -> Encode(q.subs[1], ~neg, n)
      [] q.op = "exist" -> EncodeExist(q.names, neg)
      [] q.op = "in"    -> ListClause("in", q.names[1], q.vals, neg)
      [] OTHER          -> OpClause(q, neg, n)

-----------------------------------------------------------------------------
(* Numbering: replace_arg_placeholders, limit_query and the ODBC variants. *)

RECURSIVE Holes(_)
Holes(c) == Len(c.holes) + FoldLeft(LAMBDA n, s : n + Holes(s), 0, c.subs)

HolesBefore(subs, i) == FoldLeft(LAMBDA n, s : n + Holes(s), 0, SubSeq(subs, 1, i - 1))

\* "start" parameters come first, "before" placeholders stand to the left.
\* ODBC's "?" are taken in the order of the text whatever their number was.
RECURSIVE Number(_, _, _)
Number(c, start, before) ==
    [c EXCEPT !.holes = [i \in DOMAIN @ |->
                            start + IF input.backend = "odbc" \/ @[i] = 0 THEN before + i ELSE @[i]],
              !.subs  = [i \in DOMAIN @ |-> Number(@[i], start, before + HolesBefore(@, i))]]

\* The parameters in front of the filter's
Leading ==
    LET kind == NumArg(IF input.keys THEN 1 ELSE 2)
        profile == NameArg(<<"profile">>)
        category == NameArg(<<"category">>)
    IN  IF input.backend = "odbc"
        THEN <<profile, category, category, kind, kind>>
        ELSE <<profile, kind, category>>

\* LIMIT offset, limit in SQLite and LIMIT limit OFFSET offset in Postgres,
\* each with its arguments pushed in that order; ODBC counts the rows itself
Paging ==
    CASE input.page = <<>> \/ input.backend = "odbc" -> <<>>
      [] input.backend = "sqlite"   -> <<NumArg(input.page[1]), NumArg(input.page[2])>>
      [] input.backend = "postgres" -> <<NumArg(input.page[2]), NumArg(input.page[1])>>

-----------------------------------------------------------------------------
(* Evaluation by the database.                                             *)

Less(x, y) == x[1] < y[1] \/ (x[1] = y[1] /\ x[2] < y[2])

Compare(op, x, y) ==
    CASE op \in {"eq", "like"} -> x = y
      [] op = "neq" -> x # y
      [] op = "gt"  -> Less(y, x)
      [] op = "gte" -> ~Less(x, y)
      [] op = "lt"  -> Less(x, y)
      [] op = "lte" -> ~Less(y, x)

\* as_sql_str_for_prefix
PrefixOp(op) ==
    CASE op \in {"gt", "gte"} -> "gte"
      [] op \in {"lt", "lte"} -> "lte"
      [] OTHER -> op

TagMatches(c, t, params) ==
    LET arg(i) == params[c.holes[i]].value
    IN  /\ t.plain = c.plain
        /\ NameArg(t.name) = params[c.holes[1]]
        /\ CASE c.op = "exist" -> TRUE
             [] c.op = "in"    -> \E i \in 2 .. Len(c.holes) : t.value = arg(i)
             [] OTHER          -> /\ Compare(c.op, t.value, arg(2))
                                  /\ Len(c.holes) = 3 =>
                                        Compare(PrefixOp(c.op), <<t.value[1], 0>>, arg(3))

RECURSIVE Holds(_, _, _)
Holds(c, row, params) ==
    CASE c.op = "zero" -> FALSE
      [] c.op = "and"  -> \A i \in DOMAIN c.subs : Holds(c.subs[i], row, params)
      [] c.op = "or"   -> \E i \in DOMAIN c.subs : Holds(c.subs[i], row, params)
      [] OTHER         -> c.neg # (\E t \in row : TagMatches(c, t, params))

\* Only SQLite takes "0" for a condition and IN () for a list
RECURSIVE Accepted(_)
Accepted(c) ==
    /\ c.op = "zero" \/ (c.op = "in" /\ Len(c.holes) = 1) => input.backend = "sqlite"
    /\ \A i \in DOMAIN c.subs : Accepted(c.subs[i])

-----------------------------------------------------------------------------
(* The path.                                                               *)

Backends == {"sqlite", "postgres", "odbc"}

\* The page is <<offset, limit>>; fetch_all_keys takes no offset
Uses == [backend : Backends, keys : BOOLEAN, alg : {<<>>} \cup {<<a>> : a \in Algs},
         page : {<<>>, <<0, 4>>, <<3, 4>>}]

Init ==
    /\ input \in {u \in Uses : IF u.keys THEN u.page # <<3, 4>> ELSE u.alg = <<>>}
    /\ json \in Inputs
    /\ step = "parse"
    /\ query = NoQuery
    /\ sql = [clause |-> <<>>, params |-> <<>>]
    /\ selected = {}

ParseStep ==
    /\ step = "parse"
    /\ step' = IF input.keys THEN "rename" ELSE "encode"
    /\ query' = Parse(json)
    /\ UNCHANGED <<input, json, sql, selected>>

\* fetch_all_keys: the caller's names get the prefix, the algorithm is added
RenameStep ==
    /\ step = "rename"
    /\ step' = "encode"
    /\ query' = Conj("and", <<MapNames(query, <<"user:">>)>>
                            \o [i \in DOMAIN input.alg |->
                                    Node("eq", <<<<"alg">>>>, <<input.alg[i]>>, <<>>)])
    /\ UNCHANGED <<input, json, sql, selected>>

\* encode_tag_filter and extend_query
EncodeStep ==
    /\ step = "encode"
    /\ step' = "run"
    /\ LET e == Encode(query, FALSE, 0)
       IN  sql' = [clause |-> [i \in DOMAIN e.clauses |-> Number(e.clauses[i], Len(Leading), 0)],
                   params |-> Leading \o e.args \o Paging]
    /\ UNCHANGED <<input, json, query, selected>>

\* What the database returns, or the error it reports
RunStep ==
    /\ step = "run"
    /\ LET c == sql.clause
           all == IF input.keys THEN Keys ELSE Items
       IN  IF \A i \in DOMAIN c : Accepted(c[i])
           THEN /\ step' = "done"
                /\ selected' = {x \in all : \A i \in DOMAIN c : Holds(c[i], Row(x), sql.params)}
           ELSE /\ step' = "error"
                /\ UNCHANGED selected
    /\ UNCHANGED <<input, json, query, sql>>

Next == ParseStep \/ RenameStep \/ EncodeStep \/ RunStep

Spec == Init /\ [][Next]_vars

-----------------------------------------------------------------------------
(* Properties.                                                             *)

RECURSIVE WellFormed(_)
WellFormed(q) == q.op \in Ops /\ \A i \in DOMAIN q.subs : WellFormed(q.subs[i])

\* Type invariant: a query is built from the operators the encoder knows, it becomes at
\* most one clause, and a result is a set of items or of keys.
TypeOK ==
    /\ input \in Uses
    /\ step \in {"parse", "rename", "encode", "run", "done", "error"}
    /\ WellFormed(query)
    /\ Len(sql.clause) <= 1
    /\ selected \subseteq IF input.keys THEN Keys ELSE Items

RECURSIVE Leaves(_)
Leaves(c) ==
    (IF c.holes = <<>> THEN {} ELSE {c}) \cup UNION {Leaves(c.subs[i]) : i \in DOMAIN c.subs}

\* Every placeholder of the finished statement is bound to the argument it was
\* written for, and no argument is left over: the numbered placeholders of
\* comparisons, the unnumbered ones of IN and of existence, and the paging
\* arguments behind them, in all three backends.
ArgsBound ==
    step \in {"run", "done", "error"} =>
        /\ \A i \in DOMAIN sql.clause : \A leaf \in Leaves(sql.clause[i]) :
                \A h \in DOMAIN leaf.holes :
                    /\ leaf.holes[h] \in DOMAIN sql.params
                    /\ sql.params[leaf.holes[h]] = leaf.pushed[h]
        /\ Len(sql.params) = Len(Leading) + Len(Paging)
                             + FoldLeft(LAMBDA n, c : n + Holes(c), 0, sql.clause)

\* What a query means for a set of tags, by the comments of AbstractQuery and
\* the tests of the backends
RECURSIVE Means(_, _)
Means(q, tags) ==
    LET having(name) == {t \in tags : t.plain = IsPlain(name) /\ t.name = Stripped(name)}
    IN  CASE q.op = "and"   -> \A i \in DOMAIN q.subs : Means(q.subs[i], tags)
          [] q.op = "or"    -> \E i \in DOMAIN q.subs : Means(q.subs[i], tags)
          [] q.op = "not"   -> ~Means(q.subs[1], tags)
          [] q.op = "exist" -> \A i \in DOMAIN q.names : having(q.names[i]) # {}
          [] q.op = "in"    -> \E t \in having(q.names[1]) : \E i \in DOMAIN q.vals : t.value = q.vals[i]
          [] OTHER          -> \E t \in having(q.names[1]) :
                                    Compare(q.op, <<t.value, 0>>, <<q.vals[1], 0>>)

\* The queries whose meaning is not in doubt: no empty list of parts, order and
\* LIKE only on plaintext tags, no negated existence of several tags at once,
\* and for keys no plaintext tag (its "~" ends up behind "user:").
RECURSIVE Solid(_, _)
Solid(q, neg) ==
    /\ q.op \in {"and", "or"} => q.subs # <<>>
    /\ q.op = "exist" => Len(q.names) = 1 \/ (q.names # <<>> /\ ~neg)
    /\ q.op = "in" => q.vals # <<>>
    /\ q.op \in Orders \cup {"like"} => IsPlain(q.names[1])
    /\ input.keys => \A i \in DOMAIN q.names : ~IsPlain(q.names[i])
    /\ \A i \in DOMAIN q.subs : Solid(q.subs[i], IF q.op = "not" THEN ~neg ELSE neg)

\* The database accepts the statement and returns exactly the items, or the
\* keys, that the filter means, although it only ever sees encrypted names and
\* values, and although a key's own tags share a table with the caller's.  An
\* empty filter returns everything.
SelectsMeaning ==
    LET q == Parse(json)
        wanted == IF input.keys
                  THEN {x \in Keys : /\ Means(q, x.tags)
                                     /\ \A i \in DOMAIN input.alg : x.alg = input.alg[i]}
                  ELSE {x \in Items : Means(q, x)}
    IN  step \in {"done", "error"} /\ (Solid(q, FALSE) \/ q = NoQuery) =>
            step = "done" /\ selected = wanted

\* A query that was parsed and is printed (TagFilter::to_string) parses again to
\* the same query, empty conjunctions inside it included.
PrintsBack == LET q == Parse(json) IN ParseQuery(Printed(q)) = q

\* Optimising a query changes its shape, never its meaning.
OptimiseKeeps ==
    LET q == Parse(json)
        o == Optimise(q)
    IN  Solid(q, FALSE) => Len(o) = 1 /\ \A x \in Items : Means(o[1], x) <=> Means(q, x)

\* Queries stay in order on their way: their types, and OptimiseKeeps.
QueriesInOrder == TypeOK /\ OptimiseKeeps
=============================================================================
