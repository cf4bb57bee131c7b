------------------------------- MODULE Combat -------------------------------
(***************************************************************************)
(* Hits, deaths and who is paid for them (packages/simulation/             *)
(* arena_game.c): swings and homing shots, abilities that nobody is        *)
(* credited for, Tyler's clones and their shared fate, the return of the   *)
(* dead.                                                                   *)
(*                                                                         *)
(* A tick of arena_update_teams() is a walk through its stages, unit by    *)
(* unit in the order of heroes[]; orders arrive between two ticks.         *)
(* Distances are choices: who is nearest, who is in range, whom a shot     *)
(* meets.  So are cooldowns, stuns, armour and the survival floor, and     *)
(* which tick carries the respawn wave (ArenaMatch has its timer).         *)
(***************************************************************************)
EXTENDS Assists

CONSTANTS
    Side0, Side1,   \* the heroes of the two teams, as indices of heroes[]
    Slots,          \* the clone range of heroes[]
    Tylers, Ranged, \* the heroes who play Tyler, and Gary or Abraham
    Stealthy,       \* those whose kit makes them intangible
    CloneCount,     \* ARENA_TYLER_R_CLONE_COUNT
    MaxHp, Damages,
    SwingWindup,    \* ARENA_ATTACK_WINDUP_MS, in ticks
    ShotWindup,     \* ARENA_GARY_ATTACK_WINDUP_MS and ARENA_ABRAHAM_ATTACK_WINDUP_MS
    MaxShots        \* ARENA_MAX_PROJECTILES

Heroes == Side0 \cup Side1
Units == Heroes \cup Slots
ASSUME CombatRoster == /\ Units \subseteq Nat /\ 0 \in Heroes /\ Slots \cap Heroes = {}
                       /\ Side0 \cap Side1 = {} /\ Tylers \cup Ranged \cup Stealthy \subseteq Heroes
                       /\ Tylers \cap Ranged = {} /\ IsFiniteSet(Units)
ASSUME CombatNumbers == /\ {MaxHp, SwingWindup, ShotWindup, MaxShots, CloneCount} \subseteq Nat \ {0}
                        /\ Damages \subseteq Nat

VARIABLES
    unit,       \* heroes[]
    shots,      \* the homing projectiles, by entry of the pool
    stage,      \* <<the part of the tick that is next, the indices it has still to visit>>
    deaths,     \* history: the fatal hits of the last step, in order
    blow        \* history: the ticks left of the window of each hero's last credited hit on
                \* another in its present life, -1 when there was none

combatVars == <<unit, shots, stage, deaths, blow>>

NoShot == [by |-> NoOne, at |-> NoOne]
\* arena_init_teams() and arena_creeps_reset(): a hero before its first order
NewHero == [active |-> TRUE, alive |-> TRUE, hp |-> MaxHp, cloneOf |-> NoOne, hidden |-> FALSE,
            lastHit |-> NoOne, assists |-> Blank, windup |-> 0, target |-> NoOne]
\* an unused clone slot: all bytes zero, so every index in it names hero 0
Zeroed == [active |-> FALSE, alive |-> FALSE, hp |-> 0, cloneOf |-> NoOne, hidden |-> FALSE,
           lastHit |-> 0, assists |-> [i \in 1..MaxAssist |-> [by |-> 0, left |-> 0]],
           windup |-> 0, target |-> 0]
\* tyler_spawn_clones(): memset, then the fields it sets
NewClone(t) == [Zeroed EXCEPT !.active = TRUE, !.alive = TRUE, !.hp = MaxHp, !.cloneOf = t]
Unhurt == [k \in Heroes |-> -1]

CombatInit ==
    /\ unit = [e \in Units |-> IF e \in Heroes THEN NewHero ELSE Zeroed]
    /\ shots = [p \in 1..MaxShots |-> NoShot]
    /\ stage = <<"orders", {}>>
    /\ deaths = <<>>
    /\ blow = [h \in Heroes |-> Unhurt]

\* arena_reward_owner()
RewardOwner(u, e) == IF u[e].cloneOf # NoOne THEN u[e].cloneOf ELSE e
SideOf(u, e) == IF RewardOwner(u, e) \in Side0 THEN 0 ELSE 1
Living(u, e) == u[e].active /\ u[e].alive
\* Fault: only intangibility is asked about
Touchable(u, e) == ~u[e].hidden
\* hero_is_hittable()
Hittable(u, e) == u[e].alive /\ ~u[e].hidden
\* arena_nearest_enemy(): any living enemy may be the nearest
Enemies(u, e) == {f \in Units : Living(u, f) /\ SideOf(u, f) # SideOf(u, e)}

-----------------------------------------------------------------------------
(* apply_damage_ex() and its rewards.  w is the state of the units and the *)
(* deaths of the step so far.                                              *)

\* What a clone remembers, from bytes that were all zero, only decides who is paid for a clone.
Credited(u, v, k) ==
    IF v \in Slots THEN u ELSE [u EXCEPT ![v].lastHit = k, ![v].assists = Remember(u[v].assists, k)]
Felt(v, k) == IF v \in Heroes THEN [blow EXCEPT ![v][k] = AssistWindow] ELSE blow
Killer(u, v) == LET k == u[v].lastHit IN IF k # NoOne /\ k # v /\ u[k].active THEN k ELSE NoOne
Helpers(u, v) == {k \in Live(u[v].assists) : k # u[v].lastHit /\ k # v /\ u[k].active}

Slain(body) == [body EXCEPT !.hp = 0, !.alive = FALSE]
\* Fault: the clones stay when their Tyler falls
CascadeOfOwner(u, o) == [u EXCEPT ![o] = Slain(u[o])]
\* tyler_clone_cascade_kill(): everyone still standing who is linked to o
Cascade(u, o) ==
    [e \in Units |->
        IF Living(u, e) /\ o \in {e, u[e].cloneOf}
        THEN IF u[e].cloneOf # NoOne THEN Zeroed ELSE Slain(u[e])
        ELSE u[e]]

\* Nobody reads anything of a dead clone but that it is active.
DeadClone == [Zeroed EXCEPT !.active = TRUE]
Dead(u, v) == IF u[v].cloneOf # NoOne THEN DeadClone ELSE Slain(u[v])
Fall(w, v) ==
    LET u == w.unit
        fallen == [u EXCEPT ![v] = Dead(u, v)]
    IN [unit |-> IF v \in Tylers \/ u[v].cloneOf # NoOne THEN Cascade(fallen, RewardOwner(u, v)) ELSE fallen,
        deaths |-> Append(w.deaths, [victim |-> v, killer |-> Killer(u, v), helpers |-> Helpers(u, v),
                                     owner |-> RewardOwner(u, v), stood |-> u[v].alive])]

LeftWith(w, v, n) == [unit |-> [w.unit EXCEPT ![v].hp = n], deaths |-> w.deaths]
\* saved: survive_floor_ms runs
Hurt(w, v, n, saved) ==
    IF w.unit[v].hp > n THEN LeftWith(w, v, w.unit[v].hp - n)
    ELSE IF saved THEN LeftWith(w, v, 1)
    ELSE Fall(w, v)
Struck(w, v, n, saved) == IF Hittable(w.unit, v) THEN Hurt(w, v, n, saved) ELSE w
Calm == [unit |-> unit, deaths |-> <<>>]
Becomes(w) == unit' = w.unit /\ deaths' = w.deaths
Nothing == deaths' = <<>> /\ UNCHANGED <<unit, blow>>

-----------------------------------------------------------------------------
(* Between two ticks: orders and casts                                     *)

Ordering == stage[1] = "orders"
Undisturbed == deaths' = <<>> /\ UNCHANGED <<shots, stage, blow>>

\* an ability that hits the nearest enemy: nothing records who cast it
CastAtFoe(h) ==
    /\ Ordering /\ Living(unit, h)
    /\ \E f \in Enemies(unit, h), n \in Damages, saved \in BOOLEAN : Becomes(Struck(Calm, f, n, saved))
    /\ UNCHANGED <<shots, stage, blow>>

Army(u, t) == {c \in Slots : Living(u, c) /\ u[c].cloneOf = t}
\* tyler_cast_w(): Tyler lands on the foe, then each of his clones, as long as it stands
Landing(w, hits, v, n) ==
    LET after[i \in 0..hits] == IF i = 0 THEN w ELSE Struck(after[i - 1], v, n, FALSE) IN after[hits]
CastShuffle(t) ==
    /\ Ordering /\ Living(unit, t)
    /\ \E f \in Enemies(unit, t), n \in Damages :
        /\ Hittable(unit, f)
        /\ Becomes(Landing(Calm, 1 + Cardinality(Army(unit, t)), f, n))
    /\ UNCHANGED <<shots, stage, blow>>

\* tyler_cast_r(): a hit if somebody is there, then clones in the first free slots
FreeSlots(u) == {c \in Slots : /\ ~u[c].active
                               /\ Cardinality({d \in Slots : d < c /\ ~u[d].active}) < CloneCount}
Spawned(t, w) ==
    LET new == FreeSlots(w.unit) IN
    Becomes([unit |-> [e \in Units |-> IF e \in new THEN NewClone(t) ELSE w.unit[e]], deaths |-> w.deaths])
CastDivide(t) ==
    /\ Ordering /\ Living(unit, t)
    /\ \/ Spawned(t, Calm)
       \/ \E f \in Enemies(unit, t), n \in Damages : Spawned(t, Struck(Calm, f, n, FALSE))
    /\ UNCHANGED <<shots, stage, blow>>

\* arena_set_attack_target() names any hero, arena_set_move_target() drops the lock and cancels
\* a swing if the place is out of reach.  Only a shooter's lock does more than make it walk.
SetAttackTarget(h, f) == Ordering /\ unit' = [unit EXCEPT ![h].target = f] /\ Undisturbed
SetMoveTarget(h) ==
    /\ Ordering /\ Undisturbed
    /\ \E w \in {0, unit[h].windup} : unit' = [unit EXCEPT ![h].target = NoOne, ![h].windup = w]
\* an ability that makes its caster intangible
VanishFor(h) == Ordering /\ Living(unit, h) /\ unit' = [unit EXCEPT ![h].hidden = TRUE] /\ Undisturbed

-----------------------------------------------------------------------------
(* The stages of a tick                                                    *)

\* Fault: who hit the hero last is carried over with its purse
RebornMindful(e) == [NewHero EXCEPT !.lastHit = unit[e].lastHit]
\* arena_respawn_hero()
Reborn(e) == NewHero
\* arena_tick_respawns(): every dead hero, when the wave is due; clones never
TickRespawns ==
    /\ stage = <<"orders", {}>> /\ stage' = <<"swing", {}>>
    /\ \E wave \in BOOLEAN :
        LET back == IF wave THEN {h \in Heroes : ~unit[h].alive} ELSE {} IN
        /\ unit' = [e \in Units |-> IF e \in back THEN Reborn(e) ELSE unit[e]]
        /\ blow' = [h \in Heroes |-> IF h \in back THEN Unhurt ELSE blow[h]]
    /\ deaths' = <<>> /\ UNCHANGED shots

\* Fault: a lock on a teammate is kept
LockOnAnyone(u, h) == LET f == u[h].target IN f # NoOne /\ Living(u, f) /\ Hittable(u, f)
LockHolds(u, h) ==
    LET f == u[h].target IN
    f # NoOne /\ Living(u, f) /\ Hittable(u, f) /\ SideOf(u, f) # SideOf(u, h)
WindupOf(e) == IF e \in Ranged THEN ShotWindup ELSE SwingWindup
MaySwing(e) ==
    /\ Living(unit, e) /\ unit[e].windup = 0
    /\ IF e \in Ranged THEN LockHolds(unit, e) ELSE \E f \in Enemies(unit, e) : Hittable(unit, f)
\* The melee loop and arena_tick_attack_targets() begin the swings of those who are ready and have
\* somebody in range, the latter after dropping the locks on nobody.  Then every swing runs down
\* (arena_tick_attack_windups()): a stun cancels it, and those that are due are left to strike.
BeginSwings ==
    /\ stage = <<"swing", {}>>
    /\ \E S \in SUBSET {e \in Units : MaySwing(e)} :
       \E stunned \in SUBSET {e \in Units : Living(unit, e) /\ unit[e].windup > 0} :
        LET swing == [e \in Units |-> IF e \in S THEN WindupOf(e) ELSE IF e \in stunned THEN 0 ELSE unit[e].windup]
        IN /\ unit' = [e \in Units |->
                [unit[e] EXCEPT !.windup = IF unit[e].alive THEN Down(swing[e]) ELSE @,
                                !.target = IF e \in Slots \/ ~unit[e].alive \/ LockHolds(unit, e) THEN @ ELSE NoOne]]
           /\ stage' = <<"strike", {e \in Units : unit[e].alive /\ swing[e] = 1}>>
    /\ deaths' = <<>> /\ UNCHANGED <<shots, blow>>

\* arena_spawn_projectile(): the first free entry, or no shot at all
Unused == {p \in 1..MaxShots : shots[p] = NoShot}
Fire(e) ==
    /\ unit[e].target # NoOne /\ Hittable(unit, unit[e].target)
    /\ shots' = IF Unused = {} THEN shots
                ELSE [shots EXCEPT ![Least(Unused)] = [by |-> e, at |-> unit[e].target]]
    /\ Nothing
Melee(e) ==
    /\ \E f \in Enemies(unit, e), n \in Damages, saved \in BOOLEAN :
        LET k == RewardOwner(unit, e) IN
        /\ Hittable(unit, f)
        /\ Becomes(Hurt([unit |-> Credited(unit, f, k), deaths |-> <<>>], f, n, saved))
        /\ blow' = Felt(f, k)
    /\ UNCHANGED shots
\* One swing that is due: it lands if its hero still lives and somebody is there to be hit.
Strike ==
    /\ stage[1] = "strike" /\ stage[2] # {}
    /\ stage' = <<"strike", stage[2] \ {Least(stage[2])}>>
    /\ LET e == Least(stage[2]) IN
        \/ Nothing /\ UNCHANGED shots
        \/ Living(unit, e) /\ e \in Ranged /\ Fire(e)
        \/ Living(unit, e) /\ e \notin Ranged /\ Melee(e)
StrikesOver == /\ stage = <<"strike", {}>> /\ stage' = <<"kits", Heroes>>
               /\ Nothing /\ UNCHANGED shots

\* tick_hero_kit() for one hero, dead or alive: timers run down; a burn may hit the hero itself,
\* an aura, a zone or a finished cast somebody else.  Clones have no kit.
Faded(hits) == [k \in Heroes |-> Down(hits[k])]
KitTicked(h, shown) == [unit EXCEPT ![h].assists = Forget(unit[h].assists), ![h].hidden = shown]
TickKit ==
    /\ stage[1] = "kits"
    /\ LET h == Least(stage[2]) IN
        /\ stage' = IF stage[2] = {h} THEN <<"shots", 1..MaxShots>> ELSE <<"kits", stage[2] \ {h}>>
        /\ \E shown \in {unit[h].hidden, FALSE} :
            LET w == [unit |-> KitTicked(h, shown), deaths |-> <<>>]
            IN \/ Becomes(w)
               \/ \E f \in Enemies(unit, h), n \in Damages : Becomes(Struck(w, f, n, FALSE))
               \/ unit[h].alive /\ \E n \in Damages : Becomes(Hurt(w, h, n, FALSE))
        /\ blow' = [blow EXCEPT ![h] = Faded(blow[h])]
    /\ UNCHANGED shots

\* arena_tick_projectiles() for one entry of the pool: a shot whose target cannot be hit is gone;
\* one in flight meets any enemy hero on its way, flies on, or comes to its range's end.
Tracked(p) == Living(unit, shots[p].at) /\ Hittable(unit, shots[p].at)
ShotGone(p) == shots' = [shots EXCEPT ![p] = NoShot]
ShotHits(p) ==
    \E f \in Heroes, n \in Damages, saved \in BOOLEAN :
        /\ Hittable(unit, f) /\ SideOf(unit, f) # SideOf(unit, shots[p].by)
        /\ Becomes(Hurt([unit |-> Credited(unit, f, shots[p].by), deaths |-> <<>>], f, n, saved))
        /\ blow' = Felt(f, shots[p].by)
TickShots ==
    /\ stage[1] = "shots"
    /\ LET p == Least(stage[2]) IN
        /\ stage' = IF stage[2] = {p} THEN <<"orders", {}>> ELSE <<"shots", stage[2] \ {p}>>
        /\ \/ shots[p] = NoShot /\ Nothing /\ UNCHANGED shots
           \/ shots[p] # NoShot /\ Nothing /\ ShotGone(p)
           \/ shots[p] # NoShot /\ Tracked(p) /\ Nothing /\ UNCHANGED shots
           \/ shots[p] # NoShot /\ Tracked(p) /\ ShotHits(p) /\ ShotGone(p)

CombatNext ==
    \/ (\E h \in Heroes : CastAtFoe(h)) \/ (\E h \in Stealthy : VanishFor(h))
    \/ \E t \in Tylers : CastShuffle(t) \/ CastDivide(t)
    \/ \E h \in Ranged : SetMoveTarget(h) \/ \E f \in Heroes : SetAttackTarget(h, f)
    \/ TickRespawns \/ BeginSwings \/ Strike \/ StrikesOver \/ TickKit \/ TickShots
CombatSpec == CombatInit /\ [][CombatNext]_combatVars

-----------------------------------------------------------------------------
\* Types: hp and windups within their bounds, targets, owners and the memory of hits name
\* heroes only, and shots are fired by who fires any (arena_tick_attack_windups, arena_tick_projectiles).
CombatTypeOK ==
    /\ DOMAIN unit = Units
    /\ \A e \in Units :
        /\ unit[e].active \in BOOLEAN /\ unit[e].alive \in BOOLEAN /\ unit[e].hidden \in BOOLEAN
        /\ unit[e].hp \in 0..MaxHp /\ unit[e].windup \in 0..WindupOf(e)
        /\ unit[e].cloneOf \in Tylers \cup {NoOne} /\ unit[e].target \in Heroes \cup {NoOne}
        /\ unit[e].lastHit \in Heroes \cup {NoOne}
        /\ unit[e].assists \in [1..MaxAssist -> [by : Heroes \cup {NoOne}, left : 0..AssistWindow]]
    /\ \A p \in 1..MaxShots : shots[p] = NoShot \/ shots[p] \in [by : Ranged, at : Heroes]
    /\ stage[1] \in {"orders", "respawn", "swing", "strike", "kits", "shots"}
    /\ blow \in [Heroes -> [Heroes -> -1..AssistWindow]]

\* Tyler and his clones live and die together: when one of them falls to a hit nobody of the
\* army is left standing, neither he nor a clone, and no clone outlives its Tyler through any
\* later step (tyler_clone_cascade_kill).
SharedFate ==
    /\ \A c \in Slots : Living(unit, c) => Living(unit, unit[c].cloneOf)
    /\ \A i \in DOMAIN deaths : \A e \in Units :
        Living(unit, e) => RewardOwner(unit, e) # deaths[i].owner

\* Nobody is paid for a hero he has not hit himself or through a clone since its last return: the
\* killer landed a swing or shot in this life of the victim, each helper one that is still in its
\* window, and the killer is not paid a second time as a helper.
AwardsEarned ==
    \A i \in DOMAIN deaths : LET d == deaths[i] IN d.victim \in Heroes =>
        /\ d.killer # NoOne => blow[d.victim][d.killer] # -1 /\ SideOf(unit, d.killer) # SideOf(unit, d.victim)
        /\ \A k \in d.helpers : blow[d.victim][k] > 0 /\ k # d.killer /\ SideOf(unit, k) # SideOf(unit, d.victim)

\* However many clones, shots and zones land in one tick, a death is suffered and paid once: the
\* victim of a fatal hit was standing (hero_is_hittable() before every hit).
OneDeathOneAward == \A i \in DOMAIN deaths : deaths[i].stood

\* A shot in flight was aimed at an enemy, and so was whatever it may still hit: the lock's check
\* for teammates in arena_tick_attack_targets() comes before the swing that uses it.
ShotsAtFoes ==
    \A p \in 1..MaxShots : shots[p] # NoShot => SideOf(unit, shots[p].by) # SideOf(unit, shots[p].at)

\* Kills around Tyler and his clones: one fate, one award each, earned, and no shot at
\* a friend.
CombatInv == CombatTypeOK /\ SharedFate /\ AwardsEarned /\ OneDeathOneAward /\ ShotsAtFoes

\* "Clone slots free immediately on death": tyler_clone_cascade_kill() frees the slots of those
\* who die with the one that was hit.
ClonesFreeTheirSlot == \A c \in Slots : unit[c].active => unit[c].alive
=============================================================================
