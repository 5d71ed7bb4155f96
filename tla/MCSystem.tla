------------------------------ MODULE MCSystem ------------------------------
(* Finite instances of System for TLC.                                      *)
EXTENDS System, TLC

Symmetry == Permutations(Clients)
=============================================================================
