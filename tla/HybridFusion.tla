---------------------------- MODULE HybridFusion ----------------------------
(***************************************************************************)
(* Reciprocal rank fusion of two rankings                                  *)
(* (crates/openvec-core/src/db/hybrid.rs).                                 *)
(***************************************************************************)
EXTENDS Distance, Sequences

CONSTANT Precision      \* 1.0 as an integer: scores are its fractions, rounded down

ASSUME PrecisionAssumption == Precision \in Nat \ {0}

\* What one ranking contributes to the score of id.
RankScore(ranking, weight, id) ==
    IF \E i \in DOMAIN ranking : ranking[i] = id
    THEN weight * (Precision \div (60 + CHOOSE i \in DOMAIN ranking : ranking[i] = id))
    ELSE 0

FuseRrfAscending(vectorResults, textResults, vectorWeight, textWeight, limit) ==
    LET ids == {vectorResults[i] : i \in DOMAIN vectorResults}
                 \cup {textResults[i] : i \in DOMAIN textResults}
    IN  Ranked(ids, [id \in ids |-> RankScore(vectorResults, vectorWeight, id)
                                      + RankScore(textResults, textWeight, id)], limit)

\* The possible fusions: equal scores come in any order, that of a hash map.
FuseRrfWeighted(vectorResults, textResults, vectorWeight, textWeight, limit) ==
    LET ids == {vectorResults[i] : i \in DOMAIN vectorResults}
                 \cup {textResults[i] : i \in DOMAIN textResults}
        minusScore == [id \in ids |-> -(RankScore(vectorResults, vectorWeight, id)
                                         + RankScore(textResults, textWeight, id))]
    IN  Ranked(ids, minusScore, limit)
=============================================================================
