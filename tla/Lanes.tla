-------------------------------- MODULE Lanes --------------------------------
(***************************************************************************)
(* The middle lane (packages/simulation/arena_game.c): waves of creeps in  *)
(* one pool, whom a creep goes for, the march along three waypoints, and   *)
(* the heroes who kill the enemy's creeps or deny their own.               *)
(*                                                                         *)
(* The lane is a line, a step of the march one place of it.  Where the     *)
(* hero of each team stands when a tick looks, whether it has attacked the *)
(* other one lately, and when it is ready to strike, is a choice.  XP goes *)
(* where the Flow goes, and also to allies near; it is left out.           *)
(***************************************************************************)
EXTENDS Integers, FiniteSets

CONSTANTS
    LaneSlots,          \* ARENA_MAX_LANE_CREEPS
    PerWave, CasterCount,       \* ARENA_LANE_CREEPS_PER_WAVE, ARENA_LANE_WAVE_CASTER_COUNT
    FirstWave, WaveInterval,    \* the ticks before the first wave and between waves
    Midway,             \* the places from a waypoint to the next
    MeleeSight, CasterSight,    \* lane_creep_range()
    MeleeHp, CasterHp, CreepRest,       \* in blows, and the ticks between two of a creep
    HeroBlows           \* what a hero's blow may take off a creep

ASSUME LaneNumbers ==
    /\ {LaneSlots, PerWave, FirstWave, WaveInterval, Midway, MeleeHp, CasterHp} \subseteq Nat \ {0}
    /\ {CasterCount, MeleeSight, CasterSight, CreepRest} \subseteq Nat /\ HeroBlows \subseteq Nat \ {0}

VARIABLES
    lane,               \* lane_creeps[]
    wave_timer,         \* lane_wave_timer_ms[]
    toll                \* history: creeps born, felled by creeps and zones, arrived and paid for in
                        \* the last step

laneVars == <<lane, wave_timer, toll>>

NoCreep == [team |-> -1]
OffLane == -1
LastPost == 2
Post(team, leg) == IF team = 0 THEN leg * Midway ELSE (LastPost - leg) * Midway
LanePlaces == 0..LastPost * Midway
Marching(L) == {i \in 1..LaneSlots : L[i] # NoCreep}
Full(role) == IF role = "caster" THEN CasterHp ELSE MeleeHp
Sight(c) == IF c.role = "caster" THEN CasterSight ELSE MeleeSight
NoToll == [born |-> 0, felled |-> 0, arrived |-> 0, paid |-> 0]
NewCreep(team, role) ==
    [team |-> team, role |-> role, hp |-> Full(role), at |-> Post(team, 0), leg |-> 0, rest |-> 0, steps |-> 0]

LaneInit ==
    /\ lane = [i \in 1..LaneSlots |-> NoCreep] /\ wave_timer = [t \in {0, 1} |-> FirstWave] /\ toll = NoToll

Gap(x, y) == IF x > y THEN x - y ELSE y - x

\* Fault: a wave takes slots that are in use
AnySlot(L) == 1..LaneSlots
FreeLaneSlots(L) == {i \in 1..LaneSlots : L[i] = NoCreep}
\* lane_creep_spawn_wave(): as many as there is room for, the casters first
SpawnWave(s, team) ==
    LET place(i) == Cardinality({j \in FreeLaneSlots(s.lane) : j <= i})
        taken == {i \in FreeLaneSlots(s.lane) : place(i) <= PerWave}
    IN [lane |-> [i \in 1..LaneSlots |->
                     IF i \in taken THEN NewCreep(team, IF place(i) <= CasterCount THEN "caster" ELSE "melee")
                     ELSE s.lane[i]],
        toll |-> [s.toll EXCEPT !.born = s.toll.born + Cardinality(taken)]]
Waves(s) ==
    LET due(t) == wave_timer[t] <= 1
        first == IF due(0) THEN SpawnWave(s, 0) ELSE s
    IN IF due(1) THEN SpawnWave(first, 1) ELSE first

Nearer(x, post) == IF x < post THEN x + 1 ELSE x - 1
\* Fault: nobody turns at a waypoint
MarchOnly(c) ==
    [c EXCEPT !.at = IF c.at = Post(c.team, c.leg) THEN c.at ELSE Nearer(c.at, Post(c.team, c.leg)),
              !.steps = c.steps + 1]
\* towards the waypoint; there, on to the next one, and after the last off the board
March(c) ==
    IF c.at # Post(c.team, c.leg)
    THEN [c EXCEPT !.at = Nearer(c.at, Post(c.team, c.leg)), !.steps = c.steps + 1]
    ELSE IF c.leg = LastPost THEN NoCreep ELSE [c EXCEPT !.leg = c.leg + 1, !.steps = c.steps + 1]

Rivals(s, i) ==
    {j \in Marching(s.lane) : s.lane[j].team # s.lane[i].team /\ Gap(s.lane[j].at, s.lane[i].at) <= Sight(s.lane[i])}
\* the nearest, the first of those as near
Nearest(s, i) ==
    CHOOSE j \in Rivals(s, i) : \A k \in Rivals(s, i) :
        \/ Gap(s.lane[j].at, s.lane[i].at) < Gap(s.lane[k].at, s.lane[i].at)
        \/ Gap(s.lane[j].at, s.lane[i].at) = Gap(s.lane[k].at, s.lane[i].at) /\ j <= k
\* The enemy hero, if it attacks one of the creep's own or no creep is nearer
SeesHero(H, c) == H[1 - c.team] # OffLane /\ Gap(H[1 - c.team], c.at) <= Sight(c)
GoesForHero(H, fierce, s, i) ==
    LET c == s.lane[i]
    IN /\ SeesHero(H, c)
       /\ \/ 1 - c.team \in fierce \/ Rivals(s, i) = {}
          \/ Gap(H[1 - c.team], c.at) <= Gap(s.lane[Nearest(s, i)].at, c.at)

\* Fault: a creep dies of more than it has left only
CreepHitOver(c, blow) == IF c.hp < blow THEN NoCreep ELSE [c EXCEPT !.hp = c.hp - blow]
CreepHit(c, blow) == IF c.hp <= blow THEN NoCreep ELSE [c EXCEPT !.hp = c.hp - blow]
\* one creep's turn in arena_tick_lane_creeps(): it strikes, stands, or marches on
Awake(c) == [c EXCEPT !.rest = IF c.rest > 0 THEN c.rest - 1 ELSE 0]
CreepTurn(H, fierce, s, i) ==
    LET c == Awake(s.lane[i])
        swung == [c EXCEPT !.rest = CreepRest]
        j == Nearest(s, i)
        struck == CreepHit(s.lane[j], 1)
    IN IF s.lane[i] = NoCreep THEN s
       ELSE IF ~GoesForHero(H, fierce, s, i) /\ Rivals(s, i) = {}
       THEN [lane |-> [s.lane EXCEPT ![i] = March(c)],
             toll |-> IF March(c) = NoCreep THEN [s.toll EXCEPT !.arrived = s.toll.arrived + 1] ELSE s.toll]
       ELSE IF c.rest > 0 THEN [lane |-> [s.lane EXCEPT ![i] = c], toll |-> s.toll]
       ELSE IF GoesForHero(H, fierce, s, i) THEN [lane |-> [s.lane EXCEPT ![i] = swung], toll |-> s.toll]
       ELSE [lane |-> [s.lane EXCEPT ![i] = swung, ![j] = struck],
             toll |-> IF struck = NoCreep THEN [s.toll EXCEPT !.felled = s.toll.felled + 1] ELSE s.toll]

\* Fault: who struck at a creep is paid for it
PayForBlows(corpse) == 1
Pay(corpse) == IF corpse = NoCreep THEN 1 ELSE 0
\* arena_tick_lane_creeps(): heroes that cannot be hit are as good as away
LaneTick ==
    \E H \in [{0, 1} -> LanePlaces \cup {OffLane}], fierce \in SUBSET {0, 1} :
        LET turns[n \in 0..LaneSlots] ==
                IF n = 0 THEN Waves([lane |-> lane, toll |-> NoToll]) ELSE CreepTurn(H, fierce, turns[n - 1], n)
            done == turns[LaneSlots]
        IN /\ \A t \in fierce : H[t] # OffLane
           /\ lane' = done.lane /\ toll' = done.toll
           /\ wave_timer' = [t \in {0, 1} |-> IF wave_timer[t] <= 1 THEN WaveInterval ELSE wave_timer[t] - 1]

\* arena_hero_attack_lane_creeps(): a hero who is ready, with no enemy hero in reach, strikes the
\* first creep that is; its own only when half dead
HeroStrikes(team, x, blow) ==
    LET reach == {i \in Marching(lane) : /\ lane[i].at = x
                                         /\ lane[i].team = team => 2 * lane[i].hp <= Full(lane[i].role)}
        i == CHOOSE k \in reach : \A j \in reach : k <= j
    IN /\ reach # {} /\ lane' = [lane EXCEPT ![i] = CreepHit(lane[i], blow)]
       /\ toll' = [NoToll EXCEPT !.paid = Pay(CreepHit(lane[i], blow))]
       /\ UNCHANGED wave_timer

\* arena_zone_damage_creeps(): the enemies of the caster in the radius, and nobody is paid
ZoneOnLane(team, x) ==
    LET hit == {i \in Marching(lane) : lane[i].team # team /\ Gap(lane[i].at, x) <= 1}
        left == [i \in 1..LaneSlots |-> IF i \in hit THEN CreepHit(lane[i], 1) ELSE lane[i]]
    IN /\ hit # {} /\ lane' = left
       /\ toll' = [NoToll EXCEPT !.felled = Cardinality(Marching(lane)) - Cardinality(Marching(left))]
       /\ UNCHANGED wave_timer

LaneNext ==
    \/ LaneTick
    \/ \E t \in {0, 1}, x \in LanePlaces : ZoneOnLane(t, x) \/ \E blow \in HeroBlows : HeroStrikes(t, x, blow)
LaneSpec == LaneInit /\ [][LaneNext]_laneVars

-----------------------------------------------------------------------------
(* Types: no creep lives past its hit points or stands off the lane, and who *)
(* owns a lane slot is one of the two teams (arena_tick_lane_creeps).         *)
LaneTypeOK ==
    /\ \A i \in 1..LaneSlots : lane[i] # NoCreep =>
           lane[i] \in [team : {0, 1}, role : {"caster", "melee"}, hp : 1..MeleeHp + CasterHp, at : LanePlaces,
                        leg : 0..LastPost, rest : 0..CreepRest, steps : Nat]
    /\ wave_timer \in [{0, 1} -> 1..FirstWave + WaveInterval]
    /\ toll \in [born : 0..2 * PerWave, felled : 0..LaneSlots, arrived : 0..LaneSlots, paid : 0..1]

\* Who is no longer on the lane arrived, or was felled by creeps or a zone and paid nobody, or paid
\* one hero once; no wave takes the place of somebody who still marches.
LaneBooks ==
    [][Cardinality(Marching(lane')) - Cardinality(Marching(lane))
          = toll'.born - toll'.felled - toll'.arrived - toll'.paid]_laneVars

\* However often creeps stop to fight and are left again, each has no more than the way itself, and
\* a turn at each waypoint, to march before it is off the lane.
LaneIsLeft == \A i \in Marching(lane) : lane[i].steps <= LastPost * Midway + LastPost

\* The lane: its pool within bounds and no creep stranded on it.
LaneInv == LaneTypeOK /\ LaneIsLeft
=============================================================================
