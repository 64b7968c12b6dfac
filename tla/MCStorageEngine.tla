-------------------------- MODULE MCStorageEngine --------------------------
(* The storage engine on small instances.                                  *)
EXTENDS StorageEngine, TLC

\* Ids and bodies are interchangeable; the segments' order is that of their
\* ids, which are numbers.
Symmetry == Permutations(Ids) \cup Permutations(Versions)
=============================================================================
