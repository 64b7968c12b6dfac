------------------------ MODULE MCCollectionSearch -------------------------
(* Searches of a small collection: four bodies, one of which no collection *)
(* takes, two fields, the filters and the queries that tell them apart.    *)
EXTENDS CollectionSearch

MCFields == {"default", "other"}
MCFieldMetric == [f \in MCFields |-> IF f = "default" THEN "l2" ELSE "dot"]
MCVectors == {-2, 1, 3}

MCCjk == {"zhong", "wen"}
MCWide == {"e'"}
MCNarrow == {"a", "A"}
MCLower == [c \in MCWide \cup MCNarrow |-> IF c = "A" THEN "a" ELSE c]

Title == <<"zhong", "wen", " ", "e'">>
Text == <<"A", "a", " ", "a", "-", "a", "a", " ", "e'", "wen">>
Query == <<"a", "A", "wen">>
MCTerms == {<<"zhong">>, <<"zhong", "wen">>, <<"wen">>, <<"e'">>, <<"a", "a">>}

Vectors2(v, w) == [f \in MCFields |-> IF f = "default" THEN v ELSE w]
Scalar(type, number) == [type |-> type, number |-> number]
Body(vectors, title, text_, n, m) ==
    [vectors |-> vectors, title |-> title, text |-> text_, payload |-> [n |-> n, m |-> m]]

MCBodies == {
    Body(Vectors2(1, 3), Title, None, Scalar("int", 1), None),
    Body(Vectors2(-2, None), Title, Text, Scalar("float", 2), Scalar("text", 1)),
    Body(Vectors2(3, -2), None, None, None, Scalar("text", 2)),
    Body(Vectors2(Mismatch, 1), None, Text, None, None)}

Condition(op, field, value) == [kind |-> "condition", field |-> field, op |-> op, value |-> value]
Small == Condition("lte", "n", Scalar("int", 2))
IsOne == Condition("eq", "n", Scalar("int", 1))
Other == Condition("ne", "m", Scalar("text", 2))
Few == [kind |-> "not", of |-> {Small}]
Both == [kind |-> "and", of |-> {Small, Other}]
Either == [kind |-> "or", of |-> {IsOne, Few}]
MCAllFilters == {Small, IsOne, Other, Few, Both, Either}

Request(field, vector, limit, filter, hybrid, w) ==
    [field |-> field, vector |-> vector, limit |-> limit, filter |-> filter,
     hybrid |-> hybrid, vectorWeight |-> w, textWeight |-> 1]

MCRequests ==
    {Request("default", v, k, f, None, 1) : v \in {0, 2}, k \in {1, 2}, f \in {None, Small, Either}}
    \cup {Request("other", 1, k, f, None, 1) : k \in {1, 2}, f \in {None, Few}}
    \cup {Request("default", 2, 2, f, h, w) : f \in {None, Both}, h \in {Title, Query}, w \in {1, 3}}

Symmetry == Permutations(Ids)
=============================================================================
