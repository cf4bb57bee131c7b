------------------------------ MODULE MCPlayers -------------------------------
(* Small instances of the smaller games and of those who play, side by side:  *)
(* a behaviour is one of a single part, and the others, with which it shares  *)
(* no variable, stand still.                                                  *)
EXTENDS Duel, CardField, CardTable, ArenaBot, ArenaClient, TLC

\* The cards' figures, with the ratios of CARD_COSTS and unit_stats.
FourPrices == ("militia" :> 2) @@ ("scout" :> 3) @@ ("swarmling" :> 1) @@ ("outpost" :> 5)
FourRests == ("militia" :> 2) @@ ("scout" :> 3) @@ ("swarmling" :> 2) @@ ("outpost" :> 4)
Bodies == ("militia" :> 3) @@ ("scout" :> 2) @@ ("swarmling" :> 1) @@ ("outpost" :> 3) @@ ("village" :> 2)
Blows == ("militia" :> 3) @@ ("scout" :> 2) @@ ("swarmling" :> 1) @@ ("outpost" :> 0)
Corners == (1 :> <<0, 0>>) @@ (2 :> <<2, 2>>)
Middle == {<<1, 1>>}
Fields == {<<0, 1>>, <<1, 1>>}
OneTalks == ("ann" :> 5) @@ ("ben" :> 1) @@ ("eve" :> 0)

\* Six scenes a bot may see, each at every level of hp, with and without a bounty.
Scene(purse, foe, aim) ==
    [phase : {"live"}, hp : {"low", "mid", "full"}, bounties : 0 .. 1,
     purse : {purse}, foe : {foe}, aim : {aim}]
SixScenes ==
    Scene("poor", "none", "node") \cup Scene("poor", "close", "none")
    \cup Scene("rich", "far", "powerup") \cup Scene("at shop", "none", "none")
    \cup Scene("at shop", "wary", "none") \cup Scene("poor", "far", "node")
    \cup [phase : {"dead"}, bounties : 0 .. 1] \cup [phase : {"draft", "won"}]
ThreeNodes == <<-4, 1, 5>>

-----------------------------------------------------------------------------
VARIABLE part

Parts == {"duel", "field", "table", "bot", "squads", "client"}

\* The variables of the other parts do not move.
Still ==
    /\ part # "duel" => UNCHANGED duelVars
    /\ part # "field" => UNCHANGED fieldVars
    /\ part # "table" => UNCHANGED tableVars
    /\ part # "bot" => UNCHANGED botVars
    /\ part # "squads" => UNCHANGED squadVars
    /\ part # "client" => UNCHANGED clientVars

\* Where a part has several beginnings, the others fix one of them; away from their own
\* part no bot is on the field, which keeps the squads' invariants cheap.
PlayersInit ==
    /\ part \in Parts
    /\ DuelInit /\ FieldInit /\ TableInit /\ BotInit /\ ClientInit
    /\ IF part = "squads" THEN SquadInit ELSE at = <<>> /\ open = {} /\ worn = {} /\ lead = 0
    /\ part # "duel" => bot.kit = "Duck"

PlayersNext ==
    /\ part' = part /\ Still
    /\ \/ part = "duel" /\ DuelNext
       \/ part = "field" /\ FieldNext
       \/ part = "table" /\ TableNext
       \/ part = "bot" /\ BotNext
       \/ part = "squads" /\ SquadNext
       \/ part = "client" /\ ClientNext

PlayersSpec == PlayersInit /\ [][PlayersNext]_<<part, duelVars, fieldVars, tableVars, botVars,
                                  squadVars, clientVars>>
=============================================================================
