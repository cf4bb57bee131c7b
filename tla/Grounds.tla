------------------------------- MODULE Grounds -------------------------------
(***************************************************************************)
(* What the ground gives (packages/simulation/arena_game.c): the moon and  *)
(* its Bloodflower, power-ups, fountains, and the trees a Tree leans on.   *)
(* One power-up, one fountain and one tree stand for all of their kind;    *)
(* who is near is a choice.                                                *)
(***************************************************************************)
EXTENDS Integers, Sequences

CONSTANTS
    Pickers,            \* heroes
    Heights,            \* the moon's height at each step of its orbit
    Top, LowMoon,       \* its greatest height, and ARENA_DAYNIGHT_ZENITH_REARM_THRESHOLD
    FlowerTicks, PowerTicks,    \* ARENA_BLOODFLOWER_LIFETIME_MS, ARENA_POWERUP_RESPAWN_MS
    PickerHp, Second,   \* a hero's max_hp in wounds, and the ticks of a second
    TreeHp, TreeRegen, TickMs   \* ARENA_TREE_HP in strikes, ARENA_TREE_REGEN_PER_SEC, 16

ASSUME GroundNumbers ==
    /\ Heights \in Seq(Nat) \ {<<>>}
    /\ {Top, LowMoon, FlowerTicks, PowerTicks, PickerHp, Second, TreeHp} \subseteq Nat \ {0}
    /\ TreeRegen \in Nat /\ TickMs \in Nat

Before(n) == IF n > 0 THEN n - 1 ELSE 0

-----------------------------------------------------------------------------
(* The Bloodflower                                                         *)

VARIABLES
    sky,                \* the orbit, prev_moon_height, moon_was_rising, daynight_zenith_fired
    flower,             \* bloodflower_ms_remaining, 0 when there is none
    night               \* history: the flowers of this night, the payments for the last flower
nightVars == <<sky, flower, night>>
NightInit ==
    /\ sky = [step |-> 1, height |-> Heights[1], rising |-> FALSE, fired |-> FALSE] /\ flower = 0
    /\ night = [flowers |-> 0, paid |-> 0]

\* Near the top, where the sine is flat, two samples may come out in either order.
MoonAt(n) == IF Heights[n] = Top THEN {Top, Top + 1} ELSE {Heights[n]}
\* Fault: every turn of the moon is a zenith
EveryTurn(up) == ~up /\ sky.rising
Zenith(up) == ~up /\ sky.rising /\ ~sky.fired
\* arena_tick_daynight(): the flower is placed at the first turn of a night, and is there for a time
DayNight ==
    LET next == IF sky.step = Len(Heights) THEN 1 ELSE sky.step + 1
    IN \E m \in MoonAt(next) :
        LET up == m > sky.height
        IN /\ sky' = [step |-> next, height |-> m, rising |-> up, fired |-> m >= LowMoon /\ (sky.fired \/ Zenith(up))]
           /\ flower' = IF Zenith(up) THEN FlowerTicks - 1 ELSE Before(flower)
           /\ night' = [flowers |-> IF m < LowMoon THEN 0 ELSE IF Zenith(up) THEN night.flowers + 1 ELSE night.flowers,
                        paid |-> IF Zenith(up) THEN 0 ELSE night.paid]

\* arena_hero_claim_bloodflower(): one of those who are near
Claim ==
    /\ flower > 0 /\ flower' = 0 /\ night' = [night EXCEPT !.paid = @ + 1] /\ UNCHANGED sky
NightNext == DayNight \/ Claim

-----------------------------------------------------------------------------
(* A power-up                                                              *)

VARIABLES
    power,              \* there or not, and its respawn_ms_remaining
    taken               \* history: whether the last step took it, and the ticks before since the last time
powerVars == <<power, taken>>
PowerInit == power = [here |-> TRUE, wait |-> 0] /\ taken = [now |-> FALSE, since |-> PowerTicks]

\* Fault: the time of the last return is left in place
BackAtOnce == [power EXCEPT !.here = FALSE]
TakenPower == [here |-> FALSE, wait |-> PowerTicks]
\* arena_tick_powerups(); near: somebody living is
PowerTick(near) ==
    LET takes == power.here /\ near
    IN /\ power' = IF ~power.here THEN [here |-> power.wait <= 1, wait |-> power.wait - 1]
                   ELSE IF takes THEN TakenPower ELSE power
       /\ taken' = [now |-> takes, since |-> IF taken.now THEN 1 ELSE IF taken.since < PowerTicks THEN taken.since + 1
                                             ELSE PowerTicks]
PowerNext == \E near \in BOOLEAN : PowerTick(near)

-----------------------------------------------------------------------------
(* Fountains and trees                                                     *)

VARIABLES
    pickers,            \* heroes' life and hit points
    fountain,           \* fountain_tick_ms
    tree                \* hp of a tree
healVars == <<pickers, fountain, tree>>
HealInit == pickers = [h \in Pickers |-> [alive |-> TRUE, hp |-> PickerHp]] /\ fountain = 0 /\ tree = TreeHp

\* Fault: the fountain heals whoever lies there
HealAll(p) == [p EXCEPT !.hp = IF @ < PickerHp THEN @ + 1 ELSE PickerHp]
Healed(p) == IF p.alive /\ p.hp < PickerHp THEN [p EXCEPT !.hp = @ + 1] ELSE p
\* arena_tick_fountains(): once a second for all who are near
FountainTick(near) ==
    /\ fountain' = (fountain + 1) % Second
    /\ pickers' = [h \in Pickers |-> IF fountain' = 0 /\ h \in near THEN Healed(pickers[h]) ELSE pickers[h]]
    /\ UNCHANGED tree
\* arena_tick_obstacles(): in whole hit points a tick
TreeTick ==
    /\ tree' = LET grown == tree + (TreeRegen * TickMs) \div 1000 IN IF grown > TreeHp THEN TreeHp ELSE grown
    /\ UNCHANGED <<pickers, fountain>>
\* redgarden_host_tree_passive_strike(): a tree with nothing left heals like any other
Lean(h) ==
    /\ pickers[h].alive /\ tree' = Before(tree) /\ pickers' = [pickers EXCEPT ![h] = Healed(pickers[h])]
    /\ UNCHANGED fountain
\* the rest of the match: a wound, and the wave that brings the dead back
Wound(h) ==
    /\ pickers[h].alive /\ pickers' = [pickers EXCEPT ![h] = [alive |-> @.hp > 1, hp |-> @.hp - 1]]
    /\ UNCHANGED <<fountain, tree>>
ReturnWave ==
    /\ pickers' = [h \in Pickers |-> IF pickers[h].alive THEN pickers[h] ELSE [alive |-> TRUE, hp |-> PickerHp]]
    /\ UNCHANGED <<fountain, tree>>
HealNext ==
    \/ TreeTick \/ ReturnWave
    \/ (\E near \in SUBSET Pickers : FountainTick(near))
    \/ \E h \in Pickers : Lean(h) \/ Wound(h)

GroundSpec == NightInit /\ PowerInit /\ HealInit /\ [][NightNext]_nightVars /\ [][PowerNext]_powerVars /\ [][HealNext]_healVars

-----------------------------------------------------------------------------
\* Types: the sky is on its orbit, a power-up's wait within its time, and hit points of
\* hero and tree never above their maximum (arena_tick_daynight, arena_tick_powerups).
GroundTypeOK ==
    /\ sky.step \in DOMAIN Heights /\ flower \in 0..FlowerTicks
    /\ power \in [here : BOOLEAN, wait : 0..PowerTicks]
    /\ pickers \in [Pickers -> [alive : BOOLEAN, hp : 0..PickerHp]]
    /\ fountain \in 0..Second - 1 /\ tree \in 0..TreeHp

\* One flower a night, however the moon trembles at the top, and each is paid for once.
OneFlowerANight == night.flowers <= 1 /\ night.paid <= 1

\* Between two takings of a power-up lies its whole respawn time.
PowerIsScarce == taken.now => taken.since >= PowerTicks

\* Nothing that heals brings hit points to the dead: "a heal check", but of the living.
NoHpForTheDead == \A h \in Pickers : pickers[h].alive <=> pickers[h].hp > 0

\* The night, the power-ups and the healing places keep their measure.
GroundInv == GroundTypeOK /\ OneFlowerANight /\ PowerIsScarce /\ NoHpForTheDead
=============================================================================
