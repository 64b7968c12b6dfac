----------------------------- MODULE MCOpenVec -----------------------------
(* The catalog on small instances.                                         *)
EXTENDS OpenVec, TLC

\* Threads and names are interchangeable; creations and engines are numbers.
Symmetry == Permutations(Threads) \cup Permutations(Names)
=============================================================================
