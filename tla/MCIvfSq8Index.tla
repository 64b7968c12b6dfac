--------------------------- MODULE MCIvfSq8Index ----------------------------
(* The IVF-SQ8 index with two centroids, on vectors that averages divide.  *)
EXTENDS IvfSq8Index, TLC

MCVectors == [m \in {"l2", "cosine"} |-> IF m = "l2" THEN {-6, 0, 12} ELSE {-6, 12}]
MCQueries == {-6, 0}

\* All the ids for the one, and for the other fewer with one of them twice.
MCRetrainings == [m \in {"l2", "cosine"} |->
    LET listed(ids, vectors) == [i \in 1 .. 3 |-> [id |-> ids[i], vector |-> vectors[i]]]
        pairs == {<<a, b>> \in Ids \X Ids : a # b}
    IN  IF m = "cosine" THEN {listed(<<p[1], p[2], p[1]>>, <<12, -6, -6>>) : p \in pairs}
        ELSE {listed(<<t[1][1], t[1][2], t[2]>>, <<12, -6, 0>>) :
                t \in {u \in pairs \X Ids : u[2] \notin {u[1][1], u[1][2]}}}]

Symmetry == Permutations(Ids)
=============================================================================
