------------------------------ MODULE Distance ------------------------------
(***************************************************************************)
(* Vectors, metrics and rankings (crates/openvec-core/src/distance).       *)
(*                                                                         *)
(* A vector has one component, an integer: the order of distances is all   *)
(* that the indexes look at, and on a line it is exact.  A vector of       *)
(* another length is the constant Mismatch.  The integer One stands for    *)
(* 1.0, so that averages and cosines stay integers.                        *)
(***************************************************************************)
EXTENDS Integers, FiniteSets

CONSTANTS
    One,        \* the integer that stands for 1.0
    Mismatch    \* a vector whose length is not the dimension of the index

ASSUME OneAssumption == One \in Nat \ {0}

Metrics == {"l2", "cosine", "dot"}

\* A vector divided by its norm; the null vector is left alone.
Normalize(v) == IF v > 0 THEN One ELSE IF v < 0 THEN -One ELSE 0

\* What an index keeps of a vector, and what it makes of a query.
Prepared(metric, v) == IF metric = "cosine" THEN Normalize(v) ELSE v

Absolute(n) == IF n < 0 THEN -n ELSE n

\* Smaller is nearer, whichever the metric; the arguments are prepared.
Distance(metric, a, b) ==
    CASE metric = "l2" -> Absolute(a - b)
      [] metric = "dot" -> -(a * b)
      [] metric = "cosine" -> One * One - a * b

Least(m, n) == IF m < n THEN m ELSE n

\* The n members of S with the least keys, in order; members with equal keys
\* come in any order, and any of them may be the ones left out.
Ranked(S, key, n) ==
    LET size == Least(n, Cardinality(S))
    IN  {r \in [1 .. size -> S] :
            /\ \A i, j \in 1 .. size : i < j => r[i] # r[j] /\ key[r[i]] <= key[r[j]]
            /\ \A x \in S \ {r[i] : i \in 1 .. size} : \A i \in 1 .. size : key[r[i]] <= key[x]}
=============================================================================
