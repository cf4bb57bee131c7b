------------------------------ MODULE ArenaShop -----------------------------
(***************************************************************************)
(* One hero's purse and equipment (packages/simulation/arena_game.c):      *)
(* buying with the automatic sale of what the slot held, selling, build    *)
(* templates, and the hit points that follow the equipment through combat, *)
(* death and return.  Mana and the other bonuses follow the same way and   *)
(* are left out.  No hero's shopping touches another's.                    *)
(***************************************************************************)
EXTENDS Integers, FiniteSets, Sequences, Functions

CONSTANTS
    Item, Kind,         \* ARENA_ITEMS and the equipment slots
    KindOf, Cost, Hp,   \* an item's slot, cost and bonus_max_hp
    Templates,          \* ARENA_BUILD_TEMPLATES: sequences of items
    BaseHp,             \* max_hp without equipment, 100
    Blow,               \* the damage a hit does
    Bounty,             \* the Flow a kill earns
    MaxEarned           \* bound: Flow a hero earns in all

Empty == "empty"
ASSUME CatalogAssumption ==
    /\ KindOf \in [Item -> Kind] /\ Cost \in [Item -> Nat] /\ Hp \in [Item -> Nat]
    /\ IsFiniteSet(Kind) /\ Templates \subseteq Seq(Item)
    /\ Empty \notin Item /\ BaseHp \in Nat \ {0} /\ {Blow, Bounty, MaxEarned} \subseteq Nat

VARIABLES
    hero,               \* its flow, equipped_item, hp and max_hp
    alive,
    in_shop,            \* within ARENA_SHOP_RADIUS of its team's shop
    flow_earned

shopVars == <<hero, alive, in_shop, flow_earned>>

Bare == [k \in Kind |-> Empty]

ShopInit ==
    /\ hero = [flow |-> 0, equipped_item |-> Bare, hp |-> BaseHp, max_hp |-> BaseHp]
    /\ alive = TRUE
    /\ in_shop = TRUE
    /\ flow_earned = 0

Lesser(x, y) == IF x < y THEN x ELSE y
Greater(x, y) == IF x > y THEN x ELSE y

\* What is worn in the slots, in hit points or in Flow.
Worn(worn, value) == SumFunction([k \in Kind |-> IF worn[k] = Empty THEN 0 ELSE value[worn[k]]])
BonusHp(h) == Worn(h.equipped_item, Hp)

\* arena_recompute_item_stats(): hp moves with max_hp, and a living hero keeps one.
Refit(h) ==
    LET max == BaseHp + BonusHp(h)
    IN  [h EXCEPT !.max_hp = max,
                  !.hp = Greater(1, Lesser(max, h.hp + max - h.max_hp))]
\* what the slot holds is x instead
Wearing(h, k, x) == [h.equipped_item EXCEPT ![k] = x]

\* ARENA_ITEM_SELL_REFUND_PCT of what the slot's item cost.
Refund(h, k) ==
    IF h.equipped_item[k] = Empty THEN 0 ELSE (Cost[h.equipped_item[k]] * 50) \div 100

\* arena_shop_buy() of a living hero at its shop: the old item is sold first, then
\* the purse is compared with the price.
Affords(h, i) == h.flow + Refund(h, KindOf[i]) >= Cost[i]

\* Fault: bought on credit.
AfterBuyOnCredit(h, i) ==
    Refit([h EXCEPT !.flow = h.flow + Refund(h, KindOf[i]) - Cost[i], !.equipped_item = Wearing(h, KindOf[i], i)])

AfterBuy(h, i) ==
    LET purse == h.flow + Refund(h, KindOf[i])
    IN  IF Affords(h, i)
        THEN Refit([h EXCEPT !.flow = purse - Cost[i], !.equipped_item = Wearing(h, KindOf[i], i)])
        ELSE [h EXCEPT !.flow = purse]

Buy(i) ==
    /\ alive /\ in_shop
    /\ hero' = AfterBuy(hero, i)
    /\ UNCHANGED <<alive, in_shop, flow_earned>>

\* Faults: the bonus outlives the item; the item outlives its sale.
AfterSellUnfitted(h, k) ==
    [h EXCEPT !.flow = h.flow + Refund(h, k), !.equipped_item = Wearing(h, k, Empty)]
AfterSellKept(h, k) == Refit([h EXCEPT !.flow = h.flow + Refund(h, k)])

\* arena_shop_sell()
AfterSell(h, k) ==
    Refit([h EXCEPT !.flow = h.flow + Refund(h, k), !.equipped_item = Wearing(h, k, Empty)])

Sell(k) ==
    /\ alive /\ in_shop
    /\ hero.equipped_item[k] # Empty
    /\ hero' = AfterSell(hero, k)
    /\ UNCHANGED <<alive, in_shop, flow_earned>>

Bought(s, i) == [hero |-> AfterBuy(s.hero, i), stopped |-> ~Affords(s.hero, i)]
\* Fault: what is worn already is bought again.
AfterTemplateRebuys(h, template) ==
    LET s[n \in 0..Len(template)] ==
            IF n = 0 THEN [hero |-> h, stopped |-> FALSE]
            ELSE IF s[n - 1].stopped THEN s[n - 1] ELSE Bought(s[n - 1], template[n])
    IN  s[Len(template)].hero

\* arena_hero_apply_build_template(): the items in order, those already worn skipped,
\* until one cannot be paid.
AfterTemplate(h, template) ==
    LET s[n \in 0..Len(template)] ==
            IF n = 0 THEN [hero |-> h, stopped |-> FALSE]
            ELSE IF s[n - 1].stopped \/ s[n - 1].hero.equipped_item[KindOf[template[n]]] = template[n] THEN s[n - 1]
            ELSE Bought(s[n - 1], template[n])
    IN  s[Len(template)].hero

ApplyTemplate(template) ==
    /\ alive /\ in_shop
    /\ hero' = AfterTemplate(hero, template)
    /\ UNCHANGED <<alive, in_shop, flow_earned>>

\* The rest of the match: kills, blows, healing, death, and the respawn that keeps
\* purse and equipment and computes the hit points afresh.
Earn ==
    /\ flow_earned + Bounty <= MaxEarned
    /\ hero' = [hero EXCEPT !.flow = hero.flow + Bounty]
    /\ flow_earned' = flow_earned + Bounty
    /\ UNCHANGED <<alive, in_shop>>

TakeDamage ==
    /\ alive
    /\ hero' = [hero EXCEPT !.hp = Greater(0, hero.hp - Blow)]
    /\ alive' = (hero'.hp > 0)
    /\ UNCHANGED <<in_shop, flow_earned>>

Heal ==
    /\ alive
    /\ hero' = [hero EXCEPT !.hp = Lesser(hero.max_hp, hero.hp + 1)]
    /\ UNCHANGED <<alive, in_shop, flow_earned>>

Respawn ==
    /\ ~alive
    /\ alive' = TRUE
    /\ in_shop' \in BOOLEAN
    /\ hero' = Refit([hero EXCEPT !.hp = BaseHp, !.max_hp = BaseHp])
    /\ UNCHANGED flow_earned

Walk ==
    /\ alive
    /\ in_shop' = ~in_shop
    /\ UNCHANGED <<hero, alive, flow_earned>>

ShopNext ==
    \/ \E i \in Item : Buy(i)
    \/ \E k \in Kind : Sell(k)
    \/ \E t \in Templates : ApplyTemplate(t)
    \/ Earn \/ TakeDamage \/ Heal \/ Respawn \/ Walk

ShopSpec == ShopInit /\ [][ShopNext]_shopVars

-----------------------------------------------------------------------------
(* Properties.                                                             *)

\* The state's types; an equipped item is in the slot of its kind.
ShopTypeOK ==
    /\ hero \in [flow : Nat, equipped_item : [Kind -> Item \union {Empty}],
                 hp : Nat, max_hp : Nat]
    /\ alive \in BOOLEAN /\ in_shop \in BOOLEAN /\ flow_earned \in 0 .. MaxEarned
    /\ \A k \in Kind : hero.equipped_item[k] # Empty => KindOf[hero.equipped_item[k]] = k

\* The hit points a hero has are those its equipment allows, at every point of any
\* sequence of purchases, sales, wounds and returns (arena_recompute_item_stats,
\* arena_respawn_hero); the living have some left.
HpFollowsEquipment ==
    /\ hero.max_hp = BaseHp + BonusHp(hero)
    /\ hero.hp <= hero.max_hp
    /\ alive <=> hero.hp > 0

Worth(h) == h.flow + Worn(h.equipped_item, Cost)

\* A trade never makes a hero richer: whenever equipment changes hands, purse and
\* equipment together are worth no more than before.
TradesCostWorth ==
    [][hero' # hero /\ ((\E i \in Item : Buy(i) /\ Affords(hero, i)) \/ (\E k \in Kind : Sell(k)))
          => Worth(hero') <= Worth(hero)]_shopVars

\* Applying a template again, when the first time bought all of it, changes nothing:
\* the items already worn are skipped (the comment in the loop).
TemplateIdempotent ==
    \A t \in Templates :
        LET once == AfterTemplate(hero, t)
        IN  (\A j \in DOMAIN t : once.equipped_item[KindOf[t[j]]] = t[j])
               => AfterTemplate(once, t) = once

\* The purse, the slots and the hit points they give agree, however they were come by.
ShopInv == ShopTypeOK /\ HpFollowsEquipment /\ TemplateIdempotent

\* arena_game.h on arena_shop_buy: "Silent no-op on any failure".
FailedBuyIsSilent ==
    [][\A i \in Item : Buy(i) /\ ~Affords(hero, i) => hero' = hero]_shopVars
=============================================================================
