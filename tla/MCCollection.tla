---------------------------- MODULE MCCollection ----------------------------
(* The collection on small instances.                                      *)
EXTENDS Collection, TLC

\* Nothing tells two ids or two bodies apart.
Symmetry == Permutations(Ids) \cup Permutations(Versions)
=============================================================================
