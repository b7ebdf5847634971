---------------------------- MODULE MCTreiberWeak ---------------------------
(***************************************************************************)
(* Threads of one role are interchangeable.                                *)
(***************************************************************************)
EXTENDS TreiberWeak, TLC

Symmetry == Permutations(Producers) \cup Permutations(Consumers)
=============================================================================
