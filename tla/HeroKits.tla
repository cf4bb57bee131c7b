------------------------------ MODULE HeroKits ------------------------------
(***************************************************************************)
(* The abilities of every hero (packages/simulation/arena_game.c,          *)
(* arena_cast_q(), arena_toggle_w(), arena_cast_r() and tick_hero_kit()).  *)
(*                                                                         *)
(* A behaviour follows one hero, whose kit is chosen in KitInit.  The      *)
(* nearest enemy and the nearest ally are choices of every step, and so    *)
(* are all distances.  An ability is a table entry: what it needs and what *)
(* it does, by the name of its effects; damage amounts, radii and          *)
(* positions are left out.                                                 *)
(***************************************************************************)
EXTENDS Integers, FiniteSets

CONSTANTS
    Kits,           \* the heroes that may be chosen, by name
    Donkeys,        \* those who wear the Donkey on their back
    MaxLife,        \* bound: levels of hp that items may give
    BaseLife,       \* the hp of a hero without items, as a level
    SilenceTicks, HideTicks, ShieldTicks, ZoneTicks, CastTicks,     \* lengths, in ticks
    FloorTicks,     \* ARENA_PIZZA_R_FLOOR_MS
    ShortFloorTicks, \* ARENA_DAGDA_R_FLOOR_MS and its like
    LongFloorTicks, \* ARENA_MNM_R_SURVIVE_FLOOR_MS
    FoldTicks,      \* ARENA_DONKEY_FOLD_MS
    GlideTicks,     \* ARENA_DONKEY_GLIDE_DURATION_MS
    MaxAir,         \* bound: how long tailwinds keep a hero in the air
    ChainWindow     \* ARENA_SKILLCHAIN_WINDOW_MS, in ticks

ASSUME KitNumbers ==
    /\ {MaxLife, SilenceTicks, HideTicks, ShieldTicks, ZoneTicks, CastTicks, FloorTicks,
        ShortFloorTicks, LongFloorTicks, FoldTicks, GlideTicks, MaxAir, ChainWindow} \subseteq Nat \ {0}
    /\ SilenceTicks > 1 /\ BaseLife \in 1..MaxLife /\ GlideTicks <= MaxAir
    /\ Donkeys \subseteq Kits

-----------------------------------------------------------------------------
(* What an ability needs and does.  A way of an ability is the others it   *)
(* needs ("foe": hittable, "enemy": alive, perhaps intangible, "ally"),    *)
(* whether it needs a place or a direction, too, and its effects.  An ability is paid when *)
(* one of its ways is taken; a dry one even when none is.                  *)

Way(needs, near, does) == [needs |-> needs, near |-> near, does |-> does]
OnMe(E) == Way({}, FALSE, E)
OnFoe(E) == Way({"foe"}, TRUE, E)
OnAnyFoe(E) == Way({"foe"}, FALSE, E)
OnAlly(E) == Way({"ally"}, FALSE, E)
Ability(ways) == [ways |-> ways, dry |-> FALSE]
Dry(ways) == [ways |-> ways, dry |-> TRUE]
\* everyone around: some ways more than one of which may be taken is a way of its own
Around(E, F) == {OnAlly(E), OnFoe(F), Way({"ally", "foe"}, TRUE, E \cup F)}
\* nobody, or somebody, in reach of what the caster sets off around or in front of himself
MayHit(E, F) == {OnMe(E), Way({"foe"}, TRUE, E \cup F)}

\* a dash to nowhere costs nothing: neither on the way nor with an enemy, or already there
unicorn_cast_q == Ability({Way({}, TRUE, {}), Way({"foe"}, TRUE, {"hurt"})})
duck_pull_foe == Ability({OnFoe({"pull", "hurt"})})
ghost_cast_q == Ability({OnFoe({"shot"})})
frog_cast_q == Ability({OnMe({"rewind"})})
doc_wheel_heal_and_cleanse == {"heal", "cleanse"}
michael_heal == {"heal"}
tree_cast_q == Ability({OnFoe({"hurt", "root"})})
pizza_cast_q == Ability({OnFoe({"hurt", "burn"})})
flamel_cast_q == Ability({OnFoe({"root"})})
flamel_cast_w == Dry({OnAlly({"heal"})})
execute_scale_damage == {"hurt"}
morrigan_cast_q == Ability({OnFoe(execute_scale_damage)})
morrigan_cast_w == Ability({OnAnyFoe({"leap", "root"})})
dagda_cast_q == Ability({OnFoe({"hurt"}), Way({"ally"}, TRUE, {"heal"})})
dagda_cast_w == Dry(Around({"heal"}, {"root", "silence"}))
courier_cast_q == Ability({OnAnyFoe({"leap", "cure"}), OnAnyFoe({"leap", "hurt", "cure"})})
courier_toggle_w == Ability({OnMe({"leap"})})
courier_cast_r == Ability({OnFoe({"hurt", "mend"})})
loki_cast_q == Ability({OnAnyFoe({"leap", "pull"}), OnAnyFoe({"leap", "pull", "hurt"})})
loki_cast_r == Ability({OnMe({"floor"})})
gary_cast_q == Ability({OnFoe({"shot"})})
gary_cast_r == Ability({OnFoe({"root"})})
flute_debt_cast_q == Ability({OnFoe({"hurt", "burn"})})
flute_debt_cast_r == Dry({OnFoe({"hurt"})})
bacon_puck_cast_q == Ability({OnMe({"hide"})})
bacon_puck_cast_w == Ability({OnFoe({"leap"})})
bacon_puck_cast_r == Ability({OnFoe({"hurt", "mend"})})
abraham_cast_q == Ability({OnFoe({"hurt"})})
abraham_cast_r == Ability({OnMe({"cure", "mend"})})
ada_cast_q == Ability({OnFoe({"root"})})
ada_cast_r == Ability({OnFoe({"hurt", "root"})})
tyler_cast_q == Ability({OnFoe({"shot"})})
tyler_cast_w == Ability({OnAnyFoe({"leap", "hurt"})})
tyler_cast_r == Ability(MayHit({"zone", "clones"}, {"hurt"}))
paimon_cast_q == Ability({OnFoe({"hurt", "root"})})
paimon_cast_w == Ability({OnFoe({"hurt", "silence"})})
noor1_cast_q == Ability({OnFoe({"hurt", "root"})})
cain_cast_q == Ability({OnFoe(execute_scale_damage)})
cain_cast_w == Ability({OnMe({"leap", "cure"})})
gunnr_cast_q == Ability({OnFoe({"hurt"})})
michael_cast_q == Ability({OnFoe({"hurt"})})
warrior_cast_q == Ability({OnFoe({"hurt", "SCISSION"})})
warrior_cast_w == Ability({OnFoe({"hurt", "TRANSFIXION"})})
warrior_cast_r == Ability({OnFoe({"hurt", "INDURATION", "REVERBERATION"})})
cart_cast_q == Ability({OnMe({"mend"})})
vassago_cast_q == Ability({OnFoe({"hurt", "silence"})})
\* needs an enemy and a free entry of the pool; the orb goes after one who cannot be hit, too
he_xiangu_cast_q == Ability({Way({"enemy"}, TRUE, {"shot", "mend"})})
beleth_cast_q == Ability({OnFoe({"hurt", "burn"})})
beleth_cast_w == Ability({OnFoe({"silence"})})
weatherman_cast_q == Ability({OnFoe({"pull"})})
\* the enemy or the ally is in the air: the Donkey's glide made it intangible
weatherman_cast_w == Ability({Way({"enemy"}, TRUE, {"ground"}), Way({"ally"}, TRUE, {"glide"})})
mnm_cast_q == Ability({OnFoe({"hurt", "root"})})
zagan_cast_q == Ability({OnFoe({"hurt", "calcine"})})
zagan_cast_w == Ability({OnFoe({"stun"})})

\* abilities written out in arena_cast_q(), arena_toggle_w() and arena_cast_r()
Zone == Ability({OnMe({"zone"})})
Floor == Ability({OnMe({"floor"})})
Hide == Ability({OnMe({"hide"})})
Grant == Ability({OnAlly({"grant"})})

\* arena_cast_q()
QOf == [Unicorn |-> unicorn_cast_q, Duck |-> duck_pull_foe, Ghost |-> ghost_cast_q, Frog |-> frog_cast_q,
        DocWheel |-> Ability({OnAlly(doc_wheel_heal_and_cleanse)}), Tree |-> tree_cast_q,
        Pizza |-> pizza_cast_q, Flamel |-> flamel_cast_q, Morrigan |-> morrigan_cast_q,
        Dagda |-> dagda_cast_q, Courier |-> courier_cast_q, Loki |-> loki_cast_q, Gary |-> gary_cast_q,
        FluteDebt |-> flute_debt_cast_q, BaconPuck |-> bacon_puck_cast_q, Abraham |-> abraham_cast_q]
QOfLater == [Ada |-> ada_cast_q, Tyler |-> tyler_cast_q, Paimon |-> paimon_cast_q, Noor1 |-> noor1_cast_q,
        Cain |-> cain_cast_q, Gunnr |-> gunnr_cast_q, Vassago |-> vassago_cast_q,
        HeXiangu |-> he_xiangu_cast_q, Beleth |-> beleth_cast_q, MnM |-> mnm_cast_q,
        Weatherman |-> weatherman_cast_q, Zagan |-> zagan_cast_q, Warrior |-> warrior_cast_q,
        Cart |-> cart_cast_q, Michael |-> michael_cast_q]
\* arena_toggle_w(): the heroes whose w_active goes on and off, and the others
Toggles == {"Unicorn", "Loki", "FluteDebt", "Ada", "HeXiangu"}
WOf == [Ghost |-> Hide, Frog |-> Grant, DocWheel |-> Ability({OnAlly({"leap"})}), Flamel |-> flamel_cast_w,
        Morrigan |-> morrigan_cast_w, Dagda |-> dagda_cast_w, Duck |-> Ability({OnMe({"smoke"})}),
        Courier |-> courier_toggle_w, Gary |-> Ability({OnFoe({"begin"})})]
WOfMiddle == [BaconPuck |-> bacon_puck_cast_w, Abraham |-> Ability({Way({"enemy"}, FALSE, {"begin"})}),
        Tyler |-> tyler_cast_w, Paimon |-> paimon_cast_w, Noor1 |-> Hide, Cain |-> cain_cast_w,
        Gunnr |-> Zone, Vassago |-> Grant]
WOfLater == [Beleth |-> beleth_cast_w, MnM |-> Ability({OnMe({"zone", "hide"})}),
        Weatherman |-> weatherman_cast_w, Zagan |-> zagan_cast_w, Warrior |-> warrior_cast_w,
        Cart |-> Zone, Michael |-> Ability({OnMe({"shield"})})]
\* arena_cast_r()
ROf == [Unicorn |-> Zone, Duck |-> duck_pull_foe, Ghost |-> Zone, Frog |-> Hide,
        DocWheel |-> Dry({OnAlly(doc_wheel_heal_and_cleanse)}), Tree |-> Ability({OnMe({"zone", "mend"})}),
        Pizza |-> Floor, Flamel |-> Zone, Morrigan |-> Zone, Dagda |-> Ability({OnMe({"floor", "mend"})}),
        Courier |-> courier_cast_r, Loki |-> loki_cast_r, Gary |-> gary_cast_r]
ROfMiddle == [FluteDebt |-> flute_debt_cast_r, BaconPuck |-> bacon_puck_cast_r, Abraham |-> abraham_cast_r,
        Ada |-> ada_cast_r, Tyler |-> tyler_cast_r, Paimon |-> Zone, Noor1 |-> Zone, Cain |-> Floor,
        Gunnr |-> Dry({OnFoe({"hurt", "stun"})}), Vassago |-> Zone, HeXiangu |-> Zone]
ROfLater == [Beleth |-> Ability({OnFoe({"zone"})}), MnM |-> Floor, Weatherman |-> Zone,
        Zagan |-> Ability({OnFoe({"zone"})}), Warrior |-> warrior_cast_r, Cart |-> Zone,
        Michael |-> Ability({OnAlly(michael_heal)})]

\* The zones that strike once a second while they last (arena_hero_r_zone_radius() and the cases
\* of tick_hero_kit()), what the auras and the last tick of a fuse do, and whose hp grows by itself
Strikes == [Ghost |-> Around({"heal"}, {"hurt"}), Flamel |-> Around({"heal"}, {"root"}),
            Morrigan |-> {OnFoe(execute_scale_damage)}, Gunnr |-> {OnFoe({"hurt"})},
            Vassago |-> {OnFoe({"silence"})}]
StrikesLater == [HeXiangu |-> {OnAlly({"heal"})}, Paimon |-> Around({"heal"}, {"hurt"}),
            Noor1 |-> {OnFoe({"hurt"})}, Weatherman |-> {OnFoe({"hurt"})}]
Auras == [Pizza |-> {OnFoe({"hurt"})}, Paimon |-> {OnFoe({"silence"})}, Noor1 |-> {OnFoe({"silence"})}]
Bursts == [Beleth |-> {OnFoe({"hurt"})}, MnM |-> {OnFoe({"hurt"})}]
Regens == {"Dagda", "Vassago", "HeXiangu", "Weatherman"}
RegensWhenOn == {"Unicorn", "FluteDebt", "HeXiangu"}

\* the element of whichever table names the hero
Pick(tables, k) == (CHOOSE t \in tables : k \in DOMAIN t)[k]
Named(tables) == UNION {DOMAIN t : t \in tables}
AbilityOf(s, k) ==
    IF s = "Q" THEN Pick({QOf, QOfLater}, k)
    ELSE IF s = "W" THEN Pick({WOf, WOfMiddle, WOfLater}, k)
    ELSE Pick({ROf, ROfMiddle, ROfLater}, k)
HasW(k) == k \in Named({WOf, WOfMiddle, WOfLater})
WaysOf(tables, k) == IF k \in Named(tables) THEN Pick(tables, k) ELSE {}

\* every hero has an arena_cast_q() and an arena_cast_r(); some only switch something on with W
ASSUME KitTables == Kits \subseteq Named({QOf, QOfLater}) \cap Named({ROf, ROfMiddle, ROfLater})

Harmful == {"hurt", "root", "silence", "burn", "stun", "calcine"}

-----------------------------------------------------------------------------
VARIABLES
    kit,        \* hero_id
    me,         \* the hero: most is max_hp; zone is r_active_ms, or mnm_burrow_ms; fold and air are
                \* donkey_fold_ms and donkey_airborne_ms; cd the cooldowns that run; mp whether
                \* there is enough for a cast; clones whether any are out, or lost before him
    pending,      \* the foe: its sc_pending_attrs[] and sc_pending_age_ms, whether it is a clone,
                \* history: the ticks since the last weapon skill landed on it
    sworn,      \* history: the ticks left of the longest floor the hero was promised
    broken,     \* history: silenced since its cast began, and not cured since
    last        \* history: what the last step did

kitVars == <<kit, me, pending, sworn, broken, last>>

Whole(n) == [alive |-> TRUE, hp |-> n, most |-> n, mp |-> 1, cd |-> {}, silence |-> 0, stun |-> 0, hide |-> 0,
          floor |-> 0, shield |-> 0, shieldLeft |-> 0, on |-> FALSE, zone |-> 0, cast |-> 0, refund |-> FALSE,
          fold |-> 0, air |-> 0, clones |-> "none"]
Idle == [slot |-> "none", landed |-> FALSE, seen |-> "nobody", harm |-> {}, tier |-> 0]
\* a foe on whom no weapon skill has landed; a clone of Tyler's has no tick of its own
Fresh == [attrs : {{}}, age : {0}, since : {0}, clone : BOOLEAN]
KitInit == /\ kit \in Kits /\ me = Whole(BaseLife) /\ pending \in {c \in Fresh : ~c.clone}
           /\ sworn = 0 /\ broken = FALSE /\ last = Idle

Less(n) == IF n > 0 THEN n - 1 ELSE n
Higher(a, b) == IF a > b THEN a ELSE b
Lower(a, b) == IF a < b THEN a ELSE b

\* arena_hero_base_armor(), in steps of one hit's damage
BaseArmor(m) ==
    IF kit = "Unicorn" /\ m.zone > 0 THEN 2
    ELSE IF \/ kit \in {"Unicorn", "Cain", "Gunnr", "Beleth", "MnM"}
            \/ kit = "Tree" /\ m.zone > 0
            \/ kit \in {"Loki", "Ada"} /\ m.on
            \/ kit = "HeXiangu" /\ ~m.on THEN 1
    ELSE IF kit = "Tyler" /\ m.zone > 0 THEN -1
    ELSE 0
\* apply_armor(): at least one point gets through
ApplyArmor(n, armor) == Higher(1, n - armor)
\* apply_damage_ex(): the shield, then hp, then the floor
Wounded(m, n) ==
    IF m.hp > n THEN [m EXCEPT !.hp = m.hp - n]
    ELSE IF m.floor > 0 THEN [m EXCEPT !.hp = 1]
    ELSE [m EXCEPT !.hp = 0, !.alive = FALSE]
Absorbed(m, n) == Lower(n, m.shield)
HurtMe(m, n) ==
    LET left == n - Absorbed(m, n)
        bare == [m EXCEPT !.shield = m.shield - Absorbed(m, n)]
    IN  IF left = 0 THEN bare ELSE Wounded(bare, left)

-----------------------------------------------------------------------------
(* Casting                                                                 *)

\* who is nearest: the enemy nobody, intangible or hittable, the ally there or not
Others == [foe : {"nobody", "hidden", "hittable"}, ally : BOOLEAN]
\* Fault: whoever is alive can be hit
MetBySight(way, o) == /\ {"foe", "enemy"} \cap way.needs # {} => o.foe # "nobody"
                      /\ "ally" \in way.needs => o.ally
Met(way, o) == /\ "foe" \in way.needs => o.foe = "hittable"
               /\ "enemy" \in way.needs => o.foe # "nobody"
               /\ "ally" \in way.needs => o.ally
\* what a history records of a way that was taken
Witness(slot, way, o) == [Idle EXCEPT !.slot = slot, !.seen = IF way.needs = {} THEN "nobody" ELSE o.foe,
                                      !.harm = way.does \cap Harmful]
\* nothing keeps the ability from finding its mark
Certain(ability, o) == \E way \in ability.ways : Met(way, o) /\ ~way.near

FloorOf(k) ==
    IF k = "MnM" THEN LongFloorTicks
    ELSE IF k \in {"Dagda", "Loki", "Cain"} THEN ShortFloorTicks
    ELSE IF k = "Pizza" THEN FloorTicks
    ELSE FoldTicks
\* history: how long whatever gives this hero a floor promises it at least: setting a floor takes
\* the place of what is left of another, so a Donkey's fold and its wearer's own cut each other short
Assured == IF kit \in Donkeys THEN Lower(FloorOf(kit), FoldTicks) ELSE FloorOf(kit)
\* Fault: healing knows no maximum
GrownPast(m, n) == m.hp + n
Grown(m, n) == Lower(m.most, m.hp + n)
\* what the effects do to the hero itself; what is rewound is hp of a while ago, whatever max_hp is now
Done(m, E, past) == [m EXCEPT
    !.hp = IF "rewind" \in E THEN past ELSE IF "mend" \in E THEN Grown(m, 1) ELSE m.hp,
    !.silence = IF "cure" \in E THEN 0 ELSE m.silence,
    !.hide = IF "hide" \in E THEN HideTicks ELSE m.hide,
    !.floor = IF "floor" \in E THEN FloorOf(kit) ELSE m.floor,
    !.shield = IF "shield" \in E THEN 1 ELSE m.shield,
    !.shieldLeft = IF "shield" \in E THEN ShieldTicks ELSE m.shieldLeft,
    !.zone = IF "zone" \in E THEN ZoneTicks ELSE m.zone,
    !.cast = IF "begin" \in E THEN CastTicks ELSE m.cast,
    !.clones = IF "clones" \in E THEN "out" ELSE m.clones]
\* Fault: a refund is kept for the next cast, too
PaidByGrace(m, s) == IF m.refund THEN [m EXCEPT !.mp = m.mp - 1]
                     ELSE [m EXCEPT !.mp = m.mp - 1, !.cd = m.cd \cup {s}]
\* the mana, and cast_cooldown(): a refund is used up instead of the cooldown
Paid(m, s) == IF m.refund THEN [m EXCEPT !.mp = m.mp - 1, !.refund = FALSE]
              ELSE [m EXCEPT !.mp = m.mp - 1, !.cd = m.cd \cup {s}]

Able(m) == m.alive /\ m.silence = 0 /\ m.stun = 0
Ready(s) == Able(me) /\ s \notin me.cd /\ me.mp >= 1

\* resonance_combo() for the attributes that some ability has: the tier of what follows what
Combo(a, b) ==
    IF a = b THEN 1
    ELSE IF <<a, b>> \in {<<"SCISSION", "REVERBERATION">>, <<"REVERBERATION", "INDURATION">>,
                          <<"INDURATION", "REVERBERATION">>, <<"INDURATION", "SCISSION">>} THEN 2
    ELSE 0
Resonances == {"SCISSION", "TRANSFIXION", "INDURATION", "REVERBERATION"}
\* Fault: an old resonance still closes a chain
StaleTier(c, attrs) == IF \E a \in c.attrs, b \in attrs : Combo(a, b) > 0 THEN 1 ELSE 0
\* arena_skillchain_try(): the best tier, within the window
ChainTier(c, attrs) ==
    IF c.age > ChainWindow THEN 0
    ELSE LET tiers == {Combo(a, b) : a \in c.attrs, b \in attrs} IN
         CHOOSE t \in tiers \cup {0} : \A u \in tiers : u <= t
\* apply_weapon_skill_damage(): a landed skill always opens a window of its own
Skilled(c, attrs) == IF attrs = {} THEN c ELSE [c EXCEPT !.attrs = attrs, !.age = 0, !.since = 0]

Swears(E) == IF "floor" \in E THEN Higher(sworn, Assured) ELSE sworn
Land(s, way, o) ==
    \E past \in IF "rewind" \in way.does THEN 1..MaxLife ELSE {1} :
        /\ me' = Paid(Done(me, way.does, past), s)
        /\ pending' = Skilled(pending, way.does \cap Resonances)
        /\ sworn' = Swears(way.does)
        /\ broken' = (broken /\ {"begin", "cure"} \cap way.does = {})
        /\ last' = [Witness(s, way, o) EXCEPT !.landed = TRUE,
                                              !.tier = ChainTier(pending, way.does \cap Resonances)]
Whiff(s, ability) ==
    /\ me' = IF ability.dry THEN Paid(me, s) ELSE me
    /\ last' = [Idle EXCEPT !.slot = s]
    /\ UNCHANGED <<pending, sworn, broken>>

\* arena_cast_q() and arena_cast_r(), and arena_toggle_w() of those who cast
CastSlot(s) ==
    /\ Ready(s)
    /\ LET ability == AbilityOf(s, kit) IN \E o \in Others :
        \/ \E way \in ability.ways : Met(way, o) /\ Land(s, way, o)
        \/ ~Certain(ability, o) /\ Whiff(s, ability)
    /\ UNCHANGED kit
CastQ == CastSlot("Q")
CastW == HasW(kit) /\ CastSlot("W")
CastR == CastSlot("R")
\* arena_toggle_w() of those who switch something on and off
ToggleW ==
    /\ kit \in Toggles /\ Able(me) /\ (me.on \/ me.mp > 0)
    /\ me' = [me EXCEPT !.on = ~me.on] /\ last' = Idle
    /\ UNCHANGED <<kit, pending, sworn, broken>>

-----------------------------------------------------------------------------
(* tick_hero_kit(), in its order.  Each part maps the hero to the heroes   *)
(* it may become.                                                          *)

\* Fault: the folded Donkey fights, but nothing keeps its wearer alive
FoldOnly(m) == [m EXCEPT !.fold = FoldTicks]
Fold(m) == [m EXCEPT !.fold = FoldTicks, !.floor = FoldTicks]
\* The cooldowns, the Donkey's two as well, end when they end.  It folds below a quarter of hp.
Cooldowns(m) ==
    LET rested == {[m EXCEPT !.cd = cd] : cd \in SUBSET m.cd}
        folds == IF kit \in Donkeys /\ m.alive /\ m.fold = 0 /\ m.hp = 1 THEN {Fold(r) : r \in rested} ELSE {}
    IN {[r EXCEPT !.fold = Less(r.fold)] : r \in rested \cup folds}
Folded(m) == me.fold = 0 /\ m.fold > 0

\* mp grows while alive; hp grows by a power-up, up to max_hp
Regeneration(m) ==
    {m} \cup (IF m.alive THEN {[m EXCEPT !.mp = 1]} ELSE {})
        \cup (IF m.alive /\ m.hp < m.most THEN {[m EXCEPT !.hp = Grown(m, 1)]} ELSE {})
\* what is switched on drains mp, and goes off when there is none
Drained(m) == IF m.alive /\ m.on THEN {m, [m EXCEPT !.mp = 0, !.on = FALSE]} ELSE {m}
Quieter(m) == [m EXCEPT !.silence = Less(m.silence)]

\* Fault: only a step aside stops a cast
CastThrough(m) == IF m.cast = 0 THEN {m} ELSE {[m EXCEPT !.cast = Less(m.cast)], [m EXCEPT !.cast = 0]}
\* a silence stops a cast, and so does a step aside, but not Abraham's
Casting(m) ==
    IF m.cast = 0 THEN {m}
    ELSE IF m.silence > 0 THEN {[m EXCEPT !.cast = 0]}
    ELSE {[m EXCEPT !.cast = Less(m.cast)]} \cup (IF kit = "Abraham" THEN {} ELSE {[m EXCEPT !.cast = 0]})

\* Fault: what is left of the shield outlives it
ShieldStays(m) == [m EXCEPT !.hide = Less(m.hide), !.floor = Less(m.floor), !.stun = Less(m.stun),
                            !.shieldLeft = Less(m.shieldLeft), !.air = Less(m.air)]
\* donkey_airborne_ms goes down a little earlier; nothing looks at it in between
Timers(m) == [m EXCEPT !.hide = Less(m.hide), !.air = Less(m.air), !.floor = Less(m.floor), !.stun = Less(m.stun),
                       !.shieldLeft = Less(m.shieldLeft),
                       !.shield = IF m.shieldLeft = 1 THEN 0 ELSE m.shield]
\* a burn bites once a second
Burning(m) == IF m.alive THEN {m, HurtMe(m, 1)} ELSE {m}

\* Fault: a hero goes on regenerating when it is dead
RegenAnyway(m) == IF kit \in Regens THEN {m, [m EXCEPT !.hp = Grown(m, 1)]} ELSE {m}
\* (int)(rate * dt): nothing in the server's 16 ms, something in a longer tick
KitRegen(m) ==
    IF m.alive /\ (kit \in Regens \/ (kit \in RegensWhenOn /\ m.on)) THEN {m, [m EXCEPT !.hp = Grown(m, 1)]}
    ELSE {m}
\* cart_trigger_delivery(), to the first in the zone who can be hit, friend or foe or the Cart
\* itself: hp, mp, or nothing the Cart's own state shows; the zone is gone
Delivered(m) ==
    IF kit = "Cart" /\ m.zone > 0
    THEN {m, [m EXCEPT !.zone = 0]} \cup (IF m.alive /\ m.hide = 0
            THEN {[m EXCEPT !.zone = 0, !.hp = Grown(m, 1)], [m EXCEPT !.zone = 0, !.mp = 1]} ELSE {})
    ELSE {m}

\* What the kit may do to others in this tick, one of it at a time: a zone lasts when its hero is
\* dead, an aura and the Donkey's fight do not.
Tactics(m, finished) ==
    {OnMe({})}
    \cup (IF m.zone > 0 THEN WaysOf({Strikes, StrikesLater}, kit) ELSE {})
    \cup (IF m.zone = 1 THEN WaysOf({Bursts}, kit) ELSE {})
    \cup (IF m.alive THEN WaysOf({Auras}, kit) ELSE {})
    \cup (IF (m.fold > 0 /\ m.alive) \/ (finished /\ kit = "Gary") THEN {OnFoe({"hurt"})} ELSE {})
Company(way) == IF way.needs = {} THEN {[foe |-> "nobody", ally |-> FALSE]} ELSE {o \in Others : Met(way, o)}
Casters(d) == {[was |-> d, is |-> c] : c \in Casting(d)}
Begun(m) == UNION {UNION {UNION {Casters(Quieter(w)) : w \in Drained(r)} : r \in Regeneration(c)} : c \in Cooldowns(m)}
Ended(m) == UNION {UNION {Delivered(r) : r \in KitRegen(b)} : b \in Burning(Timers(m))}
Aged(c) == [c EXCEPT !.age = IF ~c.clone /\ c.attrs # {} /\ c.age <= ChainWindow THEN c.age + 1 ELSE c.age,
                     !.since = IF c.attrs # {} THEN Lower(c.since + 1, ChainWindow + 1) ELSE c.since]
TickHeroKit ==
    \E b \in Begun(me) :
        LET finished == b.was.cast = 1 /\ b.was.silence = 0 /\ b.is.cast = 0 IN
        \E e \in Ended(b.is) : \E way \in Tactics(e, finished) : \E o \in Company(way) :
            /\ me' = [e EXCEPT !.zone = Less(e.zone)]
            /\ pending' = Aged(pending)
            /\ sworn' = Less(IF Folded(b.is) THEN Higher(sworn, Assured) ELSE sworn)
            /\ last' = Witness(IF finished THEN "finished" ELSE "none", way, o)
            /\ UNCHANGED <<kit, broken>>

-----------------------------------------------------------------------------
(* What others do to the hero, and which foe is the nearest                *)

Suffers(m) == me' = m /\ last' = Idle /\ UNCHANGED <<kit, pending>>
InTheOpen == me.alive /\ me.hide = 0
Hit == /\ InTheOpen /\ \E n \in 1..2 : Suffers(HurtMe(me, ApplyArmor(n, BaseArmor(me))))
       /\ UNCHANGED <<sworn, broken>>
Silenced == /\ InTheOpen /\ Suffers([me EXCEPT !.silence = SilenceTicks])
            /\ broken' = (me.cast > 0) /\ UNCHANGED sworn
Stunned == InTheOpen /\ Suffers([me EXCEPT !.stun = 1]) /\ UNCHANGED <<sworn, broken>>
\* an ally's doc_wheel_heal_and_cleanse(), and an ally's next_cast_refund
Cleansed == /\ me.alive /\ Suffers([me EXCEPT !.hp = Grown(me, 1), !.silence = 0])
            /\ broken' = FALSE /\ UNCHANGED sworn
Granted == me.alive /\ Suffers([me EXCEPT !.refund = TRUE]) /\ UNCHANGED <<sworn, broken>>
Unsworn(m) == Suffers(m) /\ UNCHANGED <<sworn, broken>>
\* arena_use_donkey_glide(): silenced or not, away from the foe or on the way
Glide == /\ kit \in Donkeys /\ me.alive /\ me.stun = 0 /\ "glide" \notin me.cd
         /\ Unsworn([me EXCEPT !.air = GlideTicks, !.hide = GlideTicks, !.cd = me.cd \cup {"glide"}])
\* weatherman_cast_w() of an ally, as often as it is ready, and of an enemy
Tailwind == /\ me.alive /\ me.air > 0 /\ me.air + GlideTicks <= MaxAir
            /\ Unsworn([me EXCEPT !.air = me.air + GlideTicks, !.hide = me.hide + GlideTicks])
Grounded == me.alive /\ me.air > 0 /\ Unsworn([me EXCEPT !.air = 0, !.hide = 0])
\* an exclusive channel begins at the node the hero stands on
Revealed == me.alive /\ me.hide > 0 /\ Unsworn([me EXCEPT !.hide = 0])
\* tyler_clone_cascade_kill(), when a clone of his dies: no floor keeps him alive
Cascaded == kit = "Tyler" /\ me.alive /\ me.clones = "out"
            /\ Unsworn([me EXCEPT !.hp = 0, !.alive = FALSE, !.clones = "lost"])
\* arena_recompute_item_stats() after a trade
Traded == me.alive /\ \E n \in BaseLife..MaxLife :
              Unsworn([me EXCEPT !.most = n, !.hp = Higher(1, Lower(n, me.hp + n - me.most))])
\* arena_respawn_hero(): all bytes zero but what it wears, then full hp and mp
Return == ~me.alive /\ Suffers(Whole(me.most)) /\ sworn' = 0 /\ broken' = FALSE
NextFoe == /\ kit = "Warrior" /\ pending' \in Fresh /\ last' = Idle
           /\ UNCHANGED <<kit, me, sworn, broken>>

KitNext == \/ CastQ \/ CastW \/ CastR \/ ToggleW \/ TickHeroKit
           \/ Hit \/ Silenced \/ Stunned \/ Cleansed \/ Granted \/ Return \/ NextFoe
           \/ Glide \/ Tailwind \/ Grounded \/ Revealed \/ Cascaded \/ Traded
KitSpec == KitInit /\ [][KitNext]_kitVars

-----------------------------------------------------------------------------
\* the longest a hero is out of reach without the wind
LongHide == Higher(HideTicks, GlideTicks)

\* Types: every clock of a kit is within the time it was set to, whatever is set again; only what
\* tailwinds add up hides longer, and not longer than they keep the hero in the air beyond it
\* (tick_hero_kit, weatherman_cast_w).
KitTypeOK ==
    /\ kit \in Kits
    /\ me \in [alive : BOOLEAN, hp : 0..MaxLife, most : BaseLife..MaxLife, mp : 0..1,
               cd : SUBSET {"Q", "W", "R", "glide"}, silence : 0..SilenceTicks,
               stun : 0..1, hide : 0..LongHide + MaxAir, floor : 0..Higher(FloorOf(kit), FoldTicks),
               shield : 0..1, shieldLeft : 0..ShieldTicks, on : BOOLEAN, zone : 0..ZoneTicks,
               cast : 0..CastTicks, refund : BOOLEAN, fold : 0..FoldTicks, air : 0..MaxAir,
               clones : {"none", "out", "lost"}]
    /\ me.hide <= LongHide + me.air
    /\ pending \in [attrs : SUBSET Resonances, age : 0..ChainWindow + 1, since : 0..ChainWindow + 1, clone : BOOLEAN]

\* The dead stay dead until they respawn: nothing that heals, regenerates or rewinds, in a kit or
\* in the tick that also visits dead heroes, gives hp to a corpse, and nobody stands without hp.
CorpsesHaveNoHp == me.alive <=> me.hp > 0

Price(s) == me'.mp = me.mp - 1 /\ (s \in me'.cd \/ (me.refund /\ ~me'.refund))
\* What a cast costs: mana, and its cooldown unless a refund is spent for it, one refund for one
\* cast; a cast that finds nobody costs nothing and keeps the refund, except the dry ones.
NothingForFree ==
    [][last'.slot \in {"Q", "W", "R"} =>
        IF last'.landed \/ AbilityOf(last'.slot, kit).dry THEN Price(last'.slot)
        ELSE me' = me]_kitVars

\* Who cannot be hit is neither hurt nor held: every ability, zone, aura and finished cast asks
\* hero_is_hittable() about the enemy it found, at the moment it strikes.
HiddenIsSafe == last.seen # "hittable" => last.harm = {}

\* "a silence landing mid-cast interrupts": a cast that is finished was not silenced on the way,
\* if nobody took the silence off again before the caster's next tick.
SilencedCastFails == last.slot = "finished" => ~broken

\* A shield that is over is gone, whether it was used up or not, and one that a hit used up does
\* not come back: Michael never keeps a shield past its time.
ShieldTimed == me.shield > 0 => me.shieldLeft > 0

\* Whom a floor was promised is alive while it lasts, whatever hits, burns or folds come; whoever
\* has a floor of its own and a Donkey is promised the shorter of the two (arena_cast_r, tick_hero_kit).
\* Only Tyler dies under his when he loses a clone (tyler_clone_cascade_kill).
FloorHolds == sworn > 0 => me.alive \/ me.clones = "lost"

\* A chain is closed by a skill that lands within the window of the one before, whoever was hit
\* or died in between; only on a clone, whose clock stands still, it may be later.
ChainInTime == [][last'.tier > 0 /\ ~pending.clone => pending.since <= ChainWindow]_kitVars

\* One hero through every ability of its kit: alive, hidden, shielded, silenced and
\* spared exactly as long as what was cast on it promised.
KitInv ==
    /\ KitTypeOK
    /\ CorpsesHaveNoHp
    /\ HiddenIsSafe
    /\ SilencedCastFails
    /\ ShieldTimed
    /\ FloorHolds

\* What a cast may cost and a skillchain may pay, from one step to the next.
KitSteps == NothingForFree /\ ChainInTime
=============================================================================
