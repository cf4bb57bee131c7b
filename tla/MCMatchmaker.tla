---------------------------- MODULE MCMatchmaker ----------------------------
(* Instances of Matchmaker for TLC.  Safety does not tell the clients apart. *)
EXTENDS Matchmaker, TLC

Symmetry == Permutations(Client)
=============================================================================
