----------------------------- MODULE MCReactor -----------------------------
(* Reactor for TLC: the clients are interchangeable.                       *)
EXTENDS Reactor, TLC

Symmetry == Permutations(Client)
=============================================================================
