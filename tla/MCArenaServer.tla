--------------------------- MODULE MCArenaServer ----------------------------
(* Instances of ArenaServer for TLC.  Safety does not tell addresses apart.  *)
EXTENDS ArenaServer, TLC

Symmetry == Permutations(Addr)
=============================================================================
