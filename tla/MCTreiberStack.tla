--------------------------- MODULE MCTreiberStack ---------------------------
(***************************************************************************)
(* Instances of TreiberStack for TLC.                                      *)
(***************************************************************************)
EXTENDS TreiberStack, TLC

\* Node addresses, and the threads within each role, are interchangeable.
Symmetry ==
  Permutations(Node) \cup Permutations(Producers) \cup Permutations(Consumers)
=============================================================================
