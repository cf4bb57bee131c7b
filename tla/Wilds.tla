-------------------------------- MODULE Wilds --------------------------------
(***************************************************************************)
(* What stands about the map (packages/simulation/arena_game.c): jungle    *)
(* camps and their escalation, the four Kings and their buffs, synergy,    *)
(* guardians and towers as prey, and the blows heroes have for all of it.  *)
(*                                                                         *)
(* Each part has variables of its own.  Whom somebody can see or reach is  *)
(* a choice of the tick that asks; hit points are counted in blows.        *)
(***************************************************************************)
EXTENDS Integers, FiniteSets

CONSTANTS
    Camps,              \* an initial segment of Nat; lower camps spawn first
    CampSlots, MinionsPerWave, MinionHp,    \* ARENA_MAX_CAMP_MINIONS, ARENA_CAMP_MINIONS_PER_WAVE
    CampInterval, Threshold,    \* ARENA_CAMP_WAVE_INTERVAL_MS, ARENA_CAMP_ESCALATION_THRESHOLD_MS
    Carriers, CarrierTeam,      \* the heroes of the Kings' part
    KingDelay, KingRespawn,     \* ARENA_KING_SPAWN_DELAY_MS, ARENA_KING_RESPAWN_MS
    GrowthTicks, BoonTicks,     \* ARENA_KING_GROWTH_DURATION_MS and the two other timers
    MaxStacks,          \* bound: takedowns of a holder that are looked at
    RollTicks, Tiers,   \* ARENA_SYNERGY_ROLL_INTERVAL_MS, ARENA_SYNERGY_TIER_COUNT
    PreyHp,             \* of a guardian and of a tower
    BlowRest, Windup    \* ARENA_ATTACK_COOLDOWN_MS, ARENA_ATTACK_WINDUP_MS

ASSUME WildNumbers ==
    /\ Camps \subseteq Nat /\ CarrierTeam \in [Carriers -> {0, 1}]
    /\ {CampSlots, MinionsPerWave, MinionHp, CampInterval, Threshold, KingDelay, KingRespawn, GrowthTicks,
        BoonTicks, MaxStacks, RollTicks, Tiers, PreyHp, BlowRest, Windup} \subseteq Nat \ {0}

Minus(n) == IF n > 0 THEN n - 1 ELSE 0

-----------------------------------------------------------------------------
(* Camps                                                                   *)

VARIABLES
    minions,            \* camp_minions[]: whose it is, its hit points, whether it has left the camp
    camp_timer,         \* camp_wave_timer_ms[]
    uncleared, escalated,       \* camp_uncleared_ms[], camp_escalated[]
    watched             \* history: the ticks on end that found a minion of the camp
campVars == <<minions, camp_timer, uncleared, escalated, watched>>

NoMinion == [camp |-> -1]
Of(M, c) == {i \in 1..CampSlots : M[i].camp = c}
CampInit ==
    /\ minions = [i \in 1..CampSlots |-> NoMinion] /\ camp_timer = [c \in Camps |-> 0]
    /\ uncleared = [c \in Camps |-> 0] /\ escalated = [c \in Camps |-> FALSE] /\ watched = [c \in Camps |-> 0]

\* camp_minion_spawn_wave() of the camps whose time has come, in their order and while there is room
DueCamps == {c \in Camps : camp_timer[c] <= 1}
WithWaves ==
    LET free == {i \in 1..CampSlots : minions[i] = NoMinion}
        place(i) == Cardinality({j \in free : j <= i})
        turn(c) == Cardinality({d \in DueCamps : d <= c})
        comes(i, c) == place(i) > (turn(c) - 1) * MinionsPerWave /\ place(i) <= turn(c) * MinionsPerWave
    IN [i \in 1..CampSlots |->
           IF i \in free /\ \E c \in DueCamps : comes(i, c)
           THEN [camp |-> CHOOSE c \in DueCamps : comes(i, c), hp |-> MinionHp, astray |-> FALSE]
           ELSE minions[i]]

UpToThreshold(n) == IF n > Threshold THEN Threshold ELSE n
\* Fault: a clearing stops the clock without setting it back
ClockStopped(c, M) == uncleared[c] + (IF Of(M, c) = {} THEN 0 ELSE 1)
Clock(c, M) == IF Of(M, c) = {} THEN 0 ELSE UpToThreshold(uncleared[c] + 1)
\* arena_tick_camp_minions(): the waves, then the clocks, then those who see nobody march off if
\* their camp has escalated
CampTick ==
    \E sees \in SUBSET (1..CampSlots) :
        LET M == WithWaves
        IN /\ camp_timer' = [c \in Camps |-> IF c \in DueCamps THEN CampInterval ELSE camp_timer[c] - 1]
           /\ uncleared' = [c \in Camps |-> Clock(c, M)]
           /\ escalated' = [c \in Camps |-> Of(M, c) # {} /\ (escalated[c] \/ Clock(c, M) >= Threshold)]
           /\ minions' = [i \in 1..CampSlots |->
                  IF M[i] # NoMinion /\ i \notin sees /\ escalated'[M[i].camp] THEN [M[i] EXCEPT !.astray = TRUE]
                  ELSE M[i]]
           /\ watched' = [c \in Camps |-> IF Of(M, c) = {} THEN 0 ELSE UpToThreshold(watched[c] + 1)]

Hurt(m) == IF m.hp = 1 THEN NoMinion ELSE [m EXCEPT !.hp = @ - 1]
\* arena_hero_attack_camp_minions()
MinionStruck(i) ==
    /\ minions[i] # NoMinion
    /\ minions' = [minions EXCEPT ![i] = Hurt(minions[i])]
    /\ UNCHANGED <<camp_timer, uncleared, escalated, watched>>

CampNext == CampTick \/ \E i \in 1..CampSlots : MinionStruck(i)

-----------------------------------------------------------------------------
(* A King and the buffs                                                    *)

King == {"wealth", "growth", "music", "all-seeing"}
VARIABLES
    king,               \* one of kings[]: who, up, whether it ever was, its king_spawn_timer_ms
    boons,              \* a hero's life, king_growth_stacks, king_growth_ms, king_wealth_ms, carrier
    farsight,           \* king_allseeing_team_ms[]
    downtime            \* history: the ticks since the King fell
kingVars == <<king, boons, farsight, downtime>>

Plain == [alive |-> TRUE, stacks |-> 0, growth |-> 0, wealth |-> 0, carrier |-> FALSE]
KingInit ==
    /\ king \in [who : King, up : {FALSE}, seen : {FALSE}, timer : {0}]
    /\ boons = [h \in Carriers |-> Plain] /\ farsight = [t \in {0, 1} |-> 0] /\ downtime = KingRespawn

KingIsDue == king.timer + 1 >= IF king.seen THEN KingRespawn ELSE KingDelay
\* Fault: what a holder had gathered outlives the buff
StacksStay(b) == [b EXCEPT !.growth = Minus(@), !.wealth = Minus(@)]
\* Fault: a buff that is over runs on
BoonPast(b) == [b EXCEPT !.growth = @ - 1, !.stacks = IF b.growth <= 1 THEN 0 ELSE @, !.wealth = Minus(@)]
BoonTick(b) ==
    [b EXCEPT !.growth = Minus(@), !.stacks = IF b.growth <= 1 THEN 0 ELSE @, !.wealth = Minus(@)]
\* arena_tick_kings()
KingTick ==
    /\ king' = IF king.up THEN king
               ELSE [king EXCEPT !.timer = @ + 1, !.up = KingIsDue, !.seen = @ \/ KingIsDue]
    /\ boons' = [h \in Carriers |-> BoonTick(boons[h])]
    /\ farsight' = [t \in {0, 1} |-> Minus(farsight[t])]
    /\ downtime' = IF downtime < KingRespawn THEN downtime + 1 ELSE KingRespawn

Living(t) == {h \in Carriers : boons[h].alive /\ CarrierTeam[h] = t}
\* king_grant_buff()
Boon(h) ==
    [g \in Carriers |->
        IF king.who = "wealth" /\ g = h THEN [boons[g] EXCEPT !.wealth = BoonTicks]
        ELSE IF king.who = "growth" /\ g = h THEN [boons[g] EXCEPT !.stacks = 1, !.growth = GrowthTicks]
        ELSE IF king.who = "music" /\ g \in Living(CarrierTeam[h]) THEN [boons[g] EXCEPT !.carrier = TRUE]
        ELSE boons[g]]
\* Fault: the clock of a fallen King goes on from where it was
FallenRunsOn == [king EXCEPT !.up = FALSE]
FallenKing == [king EXCEPT !.up = FALSE, !.timer = 0]
\* the last blow of arena_hero_attack_kings()
KingFalls(h) ==
    /\ king.up /\ boons[h].alive
    /\ king' = FallenKing /\ boons' = Boon(h) /\ downtime' = 0
    /\ farsight' = IF king.who = "all-seeing" THEN [farsight EXCEPT ![CarrierTeam[h]] = BoonTicks] ELSE farsight

Prolonged(b) == IF b.growth > 0 THEN [b EXCEPT !.stacks = @ + 1, !.growth = GrowthTicks] ELSE b
\* a hero kills another: apply_damage_ex()'s takedown
Takedown(h, v) ==
    /\ boons[v].alive /\ CarrierTeam[h] # CarrierTeam[v] /\ boons[h].stacks < MaxStacks
    /\ boons' = [boons EXCEPT ![v].alive = FALSE, ![h] = Prolonged(boons[h])]
    /\ UNCHANGED <<king, farsight, downtime>>
Delivered(b) == [b EXCEPT !.stacks = IF @ < 1 THEN 1 ELSE @, !.growth = GrowthTicks]
\* one of Cart's deliveries is Growth
Delivery(h) ==
    /\ boons[h].alive
    /\ boons' = [boons EXCEPT ![h] = Delivered(boons[h])]
    /\ UNCHANGED <<king, farsight, downtime>>

\* Fault: who returns has to kill the King himself
Unsung(h) == Plain
\* arena_respawn_hero(): all is forgotten, but a living teammate's song is picked up
Sung(h) == [Plain EXCEPT !.carrier = \E g \in Living(CarrierTeam[h]) : boons[g].carrier]
KingWave ==
    /\ boons' = [h \in Carriers |-> IF boons[h].alive THEN boons[h] ELSE Sung(h)]
    /\ UNCHANGED <<king, farsight, downtime>>

KingNext ==
    \/ KingTick \/ KingWave
    \/ \E h \in Carriers : Delivery(h) \/ KingFalls(h) \/ \E v \in Carriers : Takedown(h, v)

-----------------------------------------------------------------------------
(* Synergy                                                                 *)

VARIABLE synergy        \* synergy_tier[] and synergy_roll_timer_ms
SynergyInit == synergy = [tier |-> [t \in {0, 1} |-> Tiers - 1], timer |-> 0]
\* arena_tick_synergy(): at its time a roll for each team; the lead only shifts the odds
SynergyTick ==
    IF synergy.timer + 1 < RollTicks THEN synergy' = [synergy EXCEPT !.timer = @ + 1]
    ELSE \E r \in [{0, 1} -> 0..Tiers - 1] : synergy' = [tier |-> r, timer |-> 0]

-----------------------------------------------------------------------------
(* A guardian and a tower as prey, and the loops in which a hero strikes   *)

VARIABLES
    quarry,             \* of the guardian and the tower: alive, hp, flavor, last_attacked_by_owner
    striker,            \* attack_cooldown_ms and attack_windup_ms_remaining
    deed                \* history: who struck the last blow and who was paid; the ticks since the
                        \* striker last struck at a thing, and whether this step did
preyVars == <<quarry, striker, deed>>

Whole(flavor) == [alive |-> TRUE, hp |-> PreyHp, flavor |-> flavor, last |-> -1]
PreyInit ==
    /\ quarry = [p \in {"guardian", "tower"} |-> IF p = "tower" THEN Whole(0) ELSE [Whole(0) EXCEPT !.alive = FALSE]]
    /\ striker = [cooldown |-> 0, windup |-> 0]
    /\ deed = [by |-> -1, paid |-> -1, since |-> BlowRest, now |-> FALSE]

\* creep_die() and tower_die(): whoever is down as the last attacker is paid
Felled(q) == [q EXCEPT !.hp = 0, !.alive = FALSE]
After(q) == IF q.hp <= 1 THEN Felled(q) ELSE [q EXCEPT !.hp = @ - 1]
\* arena_hero_attack_creeps(), arena_hero_attack_towers(): the hero of team h strikes
PreyStruck(p, h) ==
    LET named == [quarry[p] EXCEPT !.last = h]
    IN /\ quarry[p].alive
       /\ quarry' = [quarry EXCEPT ![p] = After(named)]
       /\ deed' = [deed EXCEPT !.by = h, !.paid = IF named.hp <= 1 THEN named.last ELSE -1, !.now = FALSE]
       /\ UNCHANGED striker
\* Fault: who struck last before a zone is still down as the attacker
StillNamed(q) == q
Unnamed(q) == [q EXCEPT !.last = -1]
\* arena_zone_damage_creeps(): no friend of the caster's, and no hero is named
PreyZoned(t) ==
    LET hit == Unnamed(quarry["guardian"])
    IN /\ hit.alive /\ hit.flavor # t + 1
       /\ quarry' = [quarry EXCEPT !["guardian"] = After(hit)]
       /\ deed' = [deed EXCEPT !.by = -1, !.paid = IF hit.hp <= 1 THEN hit.last ELSE -1, !.now = FALSE]
       /\ UNCHANGED striker
\* arena_tick_creeps(): in the colour of the node's owner, and only once the tower is gone
PreyReturns(flavor) ==
    /\ ~quarry["guardian"].alive /\ ~quarry["tower"].alive
    /\ quarry' = [quarry EXCEPT !["guardian"] = Whole(flavor)]
    /\ deed' = [deed EXCEPT !.by = -1, !.paid = -1, !.now = FALSE] /\ UNCHANGED striker

Loops == {"creep", "tower", "lane creep", "minion", "King", "tree"}
\* Fault: one of the loops leaves the cooldown as it was
SpentButForKings(c, things) == IF c = 0 /\ things \ {"King"} # {} THEN BlowRest ELSE c
\* the six loops of arena_update_teams(), one after the other: the first with something in reach
\* spends the cooldown all of them ask for
Spent(c, things) == IF c = 0 /\ things # {} THEN BlowRest ELSE c
\* One tick of a melee hero: the loops strike if no enemy hero is in reach, then the cooldown runs,
\* then an enemy in reach begins a swing, and a swing that ends finds somebody in reach or nobody
StrikerTick ==
    \E foe \in BOOLEAN, things \in SUBSET Loops :
        LET free == striker.cooldown = 0 /\ things # {} /\ ~foe
            c == Minus(IF foe THEN striker.cooldown ELSE Spent(striker.cooldown, things))
            w == IF foe /\ c = 0 /\ striker.windup = 0 THEN Windup ELSE striker.windup
        IN /\ striker' = [cooldown |-> IF w = 1 THEN BlowRest ELSE c, windup |-> Minus(w)]
           /\ deed' = [deed EXCEPT !.by = -1, !.paid = -1, !.now = free,
                                   !.since = IF free THEN 1 ELSE IF @ < BlowRest THEN @ + 1 ELSE @]
           /\ UNCHANGED quarry

PreyNext ==
    \/ StrikerTick
    \/ \E t \in {0, 1} : PreyZoned(t) \/ \E p \in {"guardian", "tower"} : PreyStruck(p, t)
    \/ \E flavor \in 0..2 : PreyReturns(flavor)

\* The parts side by side, at whatever pace.
WildSpec ==
    /\ CampInit /\ [][CampNext]_campVars
    /\ KingInit /\ [][KingNext]_kingVars
    /\ SynergyInit /\ [][SynergyTick]_synergy
    /\ PreyInit /\ [][PreyNext]_preyVars

-----------------------------------------------------------------------------
\* Types: no camp counts uncleared waves past its threshold, no boon, clock or stack exceeds
\* what it was granted, and a prey alive has hp (arena_tick_camp_minions, king_grant_buff).
WildTypeOK ==
    /\ \A i \in 1..CampSlots : minions[i] # NoMinion =>
           minions[i] \in [camp : Camps, hp : 1..MinionHp, astray : BOOLEAN]
    /\ uncleared \in [Camps -> 0..Threshold] /\ camp_timer \in [Camps -> 0..CampInterval]
    /\ boons \in [Carriers -> [alive : BOOLEAN, stacks : 0..MaxStacks, growth : 0..GrowthTicks,
                               wealth : 0..BoonTicks, carrier : BOOLEAN]]
    /\ farsight \in [{0, 1} -> 0..BoonTicks]
    /\ synergy \in [tier : [{0, 1} -> 0..Tiers - 1], timer : 0..RollTicks - 1]
    /\ striker \in [cooldown : 0..BlowRest, windup : 0..Windup]
    /\ \A p \in {"guardian", "tower"} : quarry[p].alive => quarry[p].hp \in 1..PreyHp

\* "Never fully cleared": a camp escalates only after so many ticks on end that all found a minion
\* of its there, and an empty one forgets it.
EscalationEarned == \A c \in Camps : escalated[c] => watched[c] >= Threshold

\* The song is the team's: through any sequence of Kings, deaths and returns all who live carry it
\* or nobody does.
MusicIsShared == \A t \in {0, 1} : \A g, h \in Living(t) : boons[g].carrier = boons[h].carrier

\* There are stacks while and only while the buff lasts, however it was got, lost or prolonged.
GrowthPaired == \A h \in Carriers : boons[h].stacks > 0 <=> boons[h].growth > 0

\* A King that fell is not back before its time, whoever felled it and however soon it fell.
KingStaysDown == [][~king.up /\ king'.up => downtime' >= KingRespawn]_kingVars

\* Who did not strike the last blow is not paid for it, least of all for one of a zone.
PaidForTheBlow == deed.paid # -1 => deed.paid = deed.by

\* Six loops look at one cooldown: whatever is in reach, a hero strikes at one thing in its time.
OneBlowAtATime == [][deed'.now => deed.since >= BlowRest]_preyVars

\* Camps, Kings and prey: what escalates, is shared, lasts or is paid was earned.
WildInv ==
    /\ WildTypeOK
    /\ EscalationEarned
    /\ MusicIsShared
    /\ GrowthPaired
    /\ PaidForTheBlow

\* A King stays away its whole time, and a hero strikes once a cooldown, however many
\* loops look for its prey.
WildSteps == KingStaysDown /\ OneBlowAtATime
=============================================================================
