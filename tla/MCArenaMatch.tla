---------------------------- MODULE MCArenaMatch ----------------------------
(* Small rosters for the territory model.                                  *)
EXTENDS ArenaMatch, TLC
CONSTANTS h1, h2, h3
TwoAgainstOne == (h1 :> 0) @@ (h2 :> 0) @@ (h3 :> 1)
OneAgainstOne == (h1 :> 0) @@ (h2 :> 1)
ByName == (h1 :> 1) @@ (h2 :> 2) @@ (h3 :> 3)
ByNameOfTwo == (h1 :> 1) @@ (h2 :> 2)
=============================================================================
