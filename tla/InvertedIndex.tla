--------------------------- MODULE InvertedIndex ----------------------------
(***************************************************************************)
(* The full-text index: postings with term frequencies, document lengths   *)
(* and their totals (crates/openvec-core/src/fulltext/inverted.rs).        *)
(*                                                                         *)
(* BM25 scores are real numbers; what is kept of them is that they grow    *)
(* with the frequency of a query term and fall with the document's length. *)
(***************************************************************************)
EXTENDS Documents, Integers, Sequences, FiniteSets

CONSTANT Terms   \* all tokens

Postings == Ids \X (Nat \ {0})      \* a document and the frequency of the term in it
InvertedIndexes == [postings : [Terms -> SUBSET Postings],
                    docLengths : [Ids -> Nat],     \* 0: the document is not in the map
                    totalLength : Nat,
                    numDocs : Nat]

NewInverted ==
    [postings |-> [t \in Terms |-> {}], docLengths |-> [id \in Ids |-> 0],
     totalLength |-> 0, numDocs |-> 0]

SaturatingSub(m, n) == IF m > n THEN m - n ELSE 0

InvertedHas(t, id) == t.docLengths[id] # 0

InvertedDelete(t, id) ==
    IF InvertedHas(t, id)
    THEN [postings |-> [w \in Terms |-> {p \in t.postings[w] : p[1] # id}],
          docLengths |-> [t.docLengths EXCEPT ![id] = 0],
          totalLength |-> SaturatingSub(t.totalLength, t.docLengths[id]),
          numDocs |-> SaturatingSub(t.numDocs, 1)]
    ELSE t

Frequency(tokens, w) == Cardinality({i \in DOMAIN tokens : tokens[i] = w})

InvertedInsertOver(t, id, tokens) ==
    IF tokens = <<>> THEN t
    ELSE [postings |-> [w \in Terms |-> t.postings[w] \cup
                            IF Frequency(tokens, w) > 0 THEN {<<id, Frequency(tokens, w)>>} ELSE {}],
          docLengths |-> [t.docLengths EXCEPT ![id] = Len(tokens)],
          totalLength |-> t.totalLength + Len(tokens),
          numDocs |-> t.numDocs + 1]

\* A document is taken out first; one without tokens is not put back.
InvertedInsert(t, id, tokens) ==
    LET d == InvertedDelete(t, id)
        terms == {tokens[i] : i \in DOMAIN tokens}
    IN  IF tokens = <<>> THEN d
        ELSE [postings |-> [w \in Terms |-> d.postings[w] \cup
                                IF w \in terms THEN {<<id, Frequency(tokens, w)>>} ELSE {}],
              docLengths |-> [d.docLengths EXCEPT ![id] = Len(tokens)],
              totalLength |-> d.totalLength + Len(tokens),
              numDocs |-> d.numDocs + 1]

-----------------------------------------------------------------------------
(* Search.                                                                 *)

\* The documents that have a term of the query.
Matching(t, query) == {id \in Ids : \E i \in DOMAIN query : \E p \in t.postings[query[i]] : p[1] = id}

FrequencyIn(t, w, id) ==
    IF \E p \in t.postings[w] : p[1] = id
    THEN (CHOOSE p \in t.postings[w] : p[1] = id)[2]
    ELSE 0

\* a has every query term at least as often as b and is no longer, and not both alike.
Outranks(t, query, a, b) ==
    /\ \A i \in DOMAIN query : FrequencyIn(t, query[i], a) >= FrequencyIn(t, query[i], b)
    /\ t.docLengths[a] <= t.docLengths[b]
    /\ \/ \E i \in DOMAIN query : FrequencyIn(t, query[i], a) > FrequencyIn(t, query[i], b)
       \/ t.docLengths[a] < t.docLengths[b]

\* The possible answers: the matching documents by descending score, cut off.
InvertedSearch(t, query, limit) ==
    LET found == IF query = <<>> \/ t.numDocs = 0 THEN {} ELSE Matching(t, query)
        n == Cardinality(found)
        sorted == {r \in [1 .. n -> found] :
                     \A i, j \in 1 .. n : i < j => r[i] # r[j] /\ ~Outranks(t, query, r[j], r[i])}
    IN  {SubSeq(r, 1, IF limit < n THEN limit ELSE n) : r \in sorted}

\* Only documents with a length have postings, one for each term, and the
\* number of documents is theirs, on which a search relies.
InvertedConsistent(t) ==
    /\ \A w \in Terms : \A p, q \in t.postings[w] : InvertedHas(t, p[1]) /\ (p[1] = q[1] => p = q)
    /\ t.numDocs = Cardinality({id \in Ids : InvertedHas(t, id)})
=============================================================================
