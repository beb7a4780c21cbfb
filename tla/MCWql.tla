------------------------------- MODULE MCWql -------------------------------
(* Small instances of Wql. *)
EXTENDS Wql

Tag(plain, name, value) == [plain |-> plain, name |-> <<name>>, value |-> value]

\* One name with both kinds of tag and two values, and a caller's tag that is
\* named like the one insert_key adds
MCTags == {Tag(FALSE, "a", 1), Tag(FALSE, "a", 2), Tag(TRUE, "a", 1), Tag(FALSE, "alg", 1)}

\* The nonces are in the opposite order of the values
MCNonce == [v \in 1 .. 2 |-> 10 - v]

A == <<"a">>
PlainA == <<"~", "a">>
Alg == <<"alg">>

Leaf(op, name, vals) == Node(op, <<name>>, vals, <<>>)

Comparisons ==
    {Leaf("eq", A, <<1>>), Leaf("neq", A, <<1>>), Leaf("eq", PlainA, <<1>>), Leaf("eq", Alg, <<1>>)}

Lists ==
    {Leaf("in", A, <<1, 2>>), Leaf("in", PlainA, <<1>>), Leaf("in", A, <<>>),
     Node("exist", <<A>>, <<>>, <<>>), Node("exist", <<A, PlainA>>, <<>>, <<>>),
     Node("exist", <<>>, <<>>, <<>>)}

Ordered == {Leaf(op, n, <<v>>) : op \in Orders \cup {"like"}, n \in {A, PlainA}, v \in 1 .. 2}

Singles(members) == {<<m>> : m \in members}

\* Objects with up to two members
Small == {<<>>} \cup Singles(Comparisons \cup Lists)
         \cup {<<c, l>> : c \in Comparisons, l \in Lists}

Pairs(S, T) == {<<s, t>> : s \in S, t \in T}

\* Conjunctions, disjunctions and negations of those, and one more level
Middle ==
    {Conj("not", <<o>>) : o \in Small}
    \cup {Conj(op, s) : op \in {"and", "or"},
                        s \in {<<>>} \cup {<<o>> : o \in Small}
                              \cup Pairs({<<>>} \cup Singles(Comparisons), {<<>>} \cup Singles(Lists))}

Deep ==
    {Conj("not", <<<<m>>>>) : m \in Middle}
    \cup {Conj(op, <<<<m>>, <<l>>>>) : op \in {"and", "or"}, m \in Middle, l \in {Leaf("eq", A, <<2>>)}}

MCInputs ==
    {Text(FALSE, <<o>>) : o \in Small \cup Singles(Ordered \cup Middle \cup Deep)}
    \cup {Text(TRUE, s) : s \in {<<>>} \cup Pairs({<<>>} \cup Singles(Comparisons), Singles(Lists))}
=============================================================================
