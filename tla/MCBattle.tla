------------------------------ MODULE MCBattle ------------------------------
(* Small instances of the models of the fight, side by side: a behaviour   *)
(* is one of the combat around Tyler, of the ledger of one victim, or of   *)
(* one hero's abilities.                                                   *)
EXTENDS Combat, HeroKits

VARIABLE part
BattleVars == <<combatVars, ledgerVars, kitVars, part>>
BattleInit ==
    /\ CombatInit /\ LedgerInit /\ KitInit
    /\ part \in {"combat", "ledger", "kits"}
    /\ part # "kits" => kit = CHOOSE k \in Kits : TRUE
BattleNext ==
    /\ UNCHANGED part
    /\ \/ part = "combat" /\ CombatNext /\ UNCHANGED <<ledgerVars, kitVars>>
       \/ part = "ledger" /\ LedgerNext /\ UNCHANGED <<combatVars, kitVars>>
       \/ part = "kits" /\ KitNext /\ UNCHANGED <<combatVars, ledgerVars>>
BattleSpec == BattleInit /\ [][BattleNext]_BattleVars
=============================================================================
