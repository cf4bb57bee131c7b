----------------------------- MODULE MCArenaShop ----------------------------
(* A small catalog: two weapons, a belt and one build, in hundreds.        *)
EXTENDS ArenaShop, TLC
CONSTANTS charm, plate, belt, weapon, waist
Kinds == (charm :> weapon) @@ (plate :> weapon) @@ (belt :> waist)
Costs == (charm :> 3) @@ (plate :> 9) @@ (belt :> 4)
Bonuses == (charm :> 1) @@ (plate :> 3) @@ (belt :> 2)
Builds == {<<belt, plate>>}
=============================================================================
