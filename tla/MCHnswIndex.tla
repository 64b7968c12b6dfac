---------------------------- MODULE MCHnswIndex -----------------------------
(* The HNSW index on the marks of a ruler: all their distances differ.     *)
EXTENDS HnswIndex, TLC

MCVectors == {0, 1, 4, 6}
MCQueries == {4}
Symmetry == Permutations(Ids)
=============================================================================
