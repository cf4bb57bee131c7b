-------------------------------- MODULE MCMap --------------------------------
(* Small instances of what goes on about the map of a match, side by side: a  *)
(* behaviour is one of a single part, and the others, with which it shares no *)
(* variable, stand still where they begin.                                    *)
EXTENDS Orders, ArenaShop, Lanes, Wilds, Grounds, TLC

\* A small catalog: two weapons, a belt and one build, in hundreds.
CONSTANTS charm, plate, belt, weapon, waist
Kinds == (charm :> weapon) @@ (plate :> weapon) @@ (belt :> waist)
Costs == (charm :> 3) @@ (plate :> 9) @@ (belt :> 4)
Bonuses == (charm :> 1) @@ (plate :> 3) @@ (belt :> 2)
Builds == {<<belt, plate>>}

\* Two Kings' carriers of one team and one of the other; a night's sky.
TwoAndOne == (1 :> 0) @@ (2 :> 0) @@ (3 :> 1)
Orbit == <<0, 1, 2, 2, 2, 1>>

-----------------------------------------------------------------------------
VARIABLE part

Parts == {"orders", "shop", "lanes", "camps", "kings", "synergy", "prey",
          "night", "powers", "heals"}

\* The variables of the other parts do not move.
Still ==
    /\ part # "orders" => UNCHANGED orderVars
    /\ part # "shop" => UNCHANGED shopVars
    /\ part # "lanes" => UNCHANGED laneVars
    /\ part # "camps" => UNCHANGED campVars
    /\ part # "kings" => UNCHANGED kingVars
    /\ part # "synergy" => UNCHANGED synergy
    /\ part # "prey" => UNCHANGED preyVars
    /\ part # "night" => UNCHANGED nightVars
    /\ part # "powers" => UNCHANGED powerVars
    /\ part # "heals" => UNCHANGED healVars

\* Where a part has several beginnings, the others fix one of them.
MapInit ==
    /\ part \in Parts
    /\ OrderInit /\ ShopInit /\ LaneInit /\ CampInit /\ KingInit /\ SynergyInit /\ PreyInit
    /\ NightInit /\ PowerInit /\ HealInit
    /\ part # "orders" => kind = "melee"
    /\ part # "kings" => king.who = "music"

MapNext ==
    /\ part' = part /\ Still
    /\ \/ part = "orders" /\ OrderNext
       \/ part = "shop" /\ ShopNext
       \/ part = "lanes" /\ LaneNext
       \/ part = "camps" /\ CampNext
       \/ part = "kings" /\ KingNext
       \/ part = "synergy" /\ SynergyTick
       \/ part = "prey" /\ PreyNext
       \/ part = "night" /\ NightNext
       \/ part = "powers" /\ PowerNext
       \/ part = "heals" /\ HealNext

mapVars == <<part, orderVars, shopVars, laneVars, campVars, kingVars, synergy, preyVars, nightVars,
             powerVars, healVars>>
MapSpec == MapInit /\ [][MapNext]_mapVars
=============================================================================
