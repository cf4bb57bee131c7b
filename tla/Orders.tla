------------------------------- MODULE Orders -------------------------------
(***************************************************************************)
(* Orders to one unit and what the ticks make of them (packages/simulation/*)
(* arena_game.c): move, attack, stop, attack-move, hold and patrol, locks  *)
(* on an enemy and the chase, swings that freeze the unit, dashes and the  *)
(* Donkey's glide.                                                         *)
(*                                                                         *)
(* The arena is a line and a step of the motion is one place of it; some   *)
(* places lie under an obstacle.  One enemy walks about, hides, dies and   *)
(* returns.  Cooldowns are choices.                                        *)
(***************************************************************************)
EXTENDS Integers

CONSTANTS
    Length,             \* the line is 0..Length
    Obstacles,          \* the places that lie under one of arena_state.obstacles
    MeleeReach, ShotReach,      \* arena_hero_attack_range()
    SwingTicks, GlideTicks,     \* ARENA_ATTACK_WINDUP_MS, ARENA_DONKEY_GLIDE_DURATION_MS
    OrderedKinds,       \* the kinds of unit that are looked at
    Patience            \* bound: undisturbed ticks that are counted

Line == 0..Length
ASSUME OrderNumbers == /\ Length \in Nat /\ MeleeReach \in Nat /\ ShotReach \in Nat
                       /\ {SwingTicks, GlideTicks, Patience} \subseteq Nat \ {0}
                       /\ Obstacles \subseteq Line
                       /\ OrderedKinds \subseteq {"melee", "ranged", "clone"}

VARIABLES
    kind,       \* "ranged" for Gary and Abraham, "clone" for Tyler's
    walker,     \* the unit: at, goal and moving of its motion, focus for attack_target, mode and
                \* route for attack_move_active, hold_position, patrol_active and their points,
                \* held for rooted_ms, with Abraham's casts, and stunned_ms, air for donkey_airborne_ms
    prey,       \* the enemy: where it stands, or Gone, and whether it can be hit
    shoved,     \* history: since its last order an ability displaced and stopped the unit, or moved
                \* it when it was at rest, or a collision pushed it off the place where it had arrived
    leaving,    \* history: since its swing began the unit was ordered out of reach
    quiet,      \* history: the ticks for which nobody ordered, met, moved or held the unit, no obstacle
                \* was in its way and its patrol did not turn
    did         \* history: whether the last step was a tick, and one in which a blow landed

orderVars == <<kind, walker, prey, shoved, leaving, quiet, did>>

Gone == -1
\* The three modes exclude one another in every order; points of a mode that is off are not read.
NoRoute == [from |-> 0, to |-> 0, there |-> FALSE]
Standing(x) == [alive |-> TRUE, at |-> x, goal |-> x, moving |-> FALSE, focus |-> "none", mode |-> "none",
                route |-> NoRoute, swing |-> 0, held |-> "no", air |-> 0]
OrderInit ==
    /\ kind \in OrderedKinds /\ walker = Standing(0) /\ prey = [at |-> Length, shows |-> TRUE]
    /\ shoved = FALSE /\ leaving = FALSE /\ quiet = 0 /\ did = "other"

Disturbed == did' = "other" /\ quiet' = 0
Distance(x, y) == IF x > y THEN x - y ELSE y - x
Reach == IF kind = "ranged" THEN ShotReach ELSE MeleeReach
Stalkable == prey.at # Gone /\ prey.shows
\* arena_find_opportunistic_target() and the range tests of the lock
Within(u) == Stalkable /\ Distance(u.at, prey.at) <= Reach

-----------------------------------------------------------------------------
(* Orders                                                                  *)

\* a movement order cancels a swing if the place is out of the unit's own reach
Swung(u, x) == IF Distance(u.at, x) > Reach THEN 0 ELSE u.swing
Sent(u, x, mode, route) ==
    [u EXCEPT !.swing = Swung(u, x), !.goal = x, !.moving = TRUE, !.focus = "none", !.mode = mode, !.route = route]
Halted(u, mode) ==
    [u EXCEPT !.goal = u.at, !.moving = FALSE, !.focus = "none", !.mode = mode, !.route = NoRoute]
\* What the dead are told is forgotten when they return, so only the living are told anything here.
Ordered(u) == /\ walker.alive /\ walker' = u /\ Disturbed /\ shoved' = FALSE /\ UNCHANGED <<kind, prey>>
Leaves(x) == leaving' = IF Distance(walker.at, x) > Reach THEN walker.swing > 0 ELSE leaving

arena_set_move_target(x) == Ordered(Sent(walker, x, "none", NoRoute)) /\ Leaves(x)
arena_set_attack_target(f) ==
    /\ Ordered([walker EXCEPT !.focus = f, !.mode = "none", !.route = NoRoute])
    /\ UNCHANGED leaving
arena_stop_unit == Ordered(Halted(walker, "none")) /\ UNCHANGED leaving
arena_set_attack_move_target(x) ==
    /\ Ordered(Sent(walker, x, "attack-move", [NoRoute EXCEPT !.to = x])) /\ Leaves(x)
arena_hold_position == Ordered(Halted(walker, "hold")) /\ UNCHANGED leaving
\* Fault: a swing goes on when the hero is sent on patrol
PatrolMidSwing(x) ==
    /\ Ordered([Sent(walker, x, "patrol", [from |-> walker.at, to |-> x, there |-> TRUE])
                EXCEPT !.swing = walker.swing])
    /\ Leaves(x)
arena_set_patrol_target(x) ==
    /\ Ordered(Sent(walker, x, "patrol", [from |-> walker.at, to |-> x, there |-> TRUE]))
    /\ Leaves(x)

-----------------------------------------------------------------------------
(* A tick                                                                  *)

Towards(x, y) == IF x < y THEN x + 1 ELSE IF x > y THEN x - 1 ELSE x
Free(u) == u.alive /\ u.moving /\ u.held = "no" /\ u.swing = 0
\* resolve_hero_hero_collision(), resolve_hero_obstacle_collision(): a body or an obstacle in the way
Crowded(u) == prey.at # Gone /\ Distance(Towards(u.at, u.goal), prey.at) <= 1
Hindered(u) == u.air = 0 /\ (Crowded(u) \/ Towards(u.at, u.goal) \in Obstacles)
\* where they push it: out of every obstacle, unless a body pushes it in after that
Beside(u) == {y \in Line : Distance(Towards(u.at, u.goal), y) <= 1 /\ (y \notin Obstacles \/ Crowded(u))}
Arrived(u) == Towards(u.at, u.goal) = u.goal
LeftAt(u, x, b) == [u EXCEPT !.at = x, !.moving = b]
Advanced(u) == LeftAt(u, Towards(u.at, u.goal), ~Arrived(u))
\* update_hero_motion(): whoever arrives stops, and is pushed off again if something is there
Motion(u) ==
    IF ~Free(u) THEN {u}
    ELSE (IF Hindered(u) /\ u.at # u.goal THEN {} ELSE {Advanced(u)})
         \cup (IF Hindered(u) THEN {LeftAt(u, y, ~Arrived(u)) : y \in Beside(u)}
                                   \cup {LeftAt(u, y, TRUE) : y \in Beside(u)} ELSE {})
\* the melee loop of arena_update_teams(); ready: no cooldown runs
BeginMelee(u, ready) ==
    IF u.alive /\ kind # "ranged" /\ ready /\ u.held # "stun" /\ u.swing = 0 /\ Within(u)
    THEN [u EXCEPT !.swing = SwingTicks] ELSE u

\* Fault: nobody goes on to where he was sent after a chase
EngageOnly(u, x) == IF u.focus = "none" /\ Within(u) THEN [u EXCEPT !.focus = "foe"] ELSE u
Retarget(u, x) == IF u.goal = x THEN u ELSE [u EXCEPT !.goal = x, !.moving = TRUE]
Engage(u, x) == IF u.focus # "none" THEN u ELSE IF Within(u) THEN [u EXCEPT !.focus = "foe"] ELSE Retarget(u, x)
\* arena_tick_attack_move(), which visits no clones
TickAttackMove(u) ==
    IF ~u.alive \/ kind = "clone" THEN u
    ELSE IF u.mode = "attack-move" THEN Engage(u, u.route.to)
    ELSE IF u.mode = "hold" THEN Engage(u, u.goal) ELSE u
Leg(r) == IF r.there THEN r.to ELSE r.from
\* Fault: the leg is turned by the lock's end only
TurnedAlone(u) == IF u.at = Leg(u.route) /\ u.moving THEN [u EXCEPT !.route.there = ~@] ELSE u
Reversed(r) == [r EXCEPT !.there = ~r.there]
Turned(u) == IF u.at = Leg(u.route) THEN [u EXCEPT !.route = Reversed(u.route)] ELSE u
\* arena_tick_patrol(): first the leg, then whom to engage, then where to go on to
TickPatrol(u) ==
    IF ~u.alive \/ kind = "clone" \/ u.mode # "patrol" THEN u
    ELSE Engage(Turned(u), Leg(Turned(u).route))

\* Fault: whoever holds his position chases whom he has locked
PursueAll(u, ready) ==
    IF ~u.alive \/ u.focus = "none" \/ kind = "clone" THEN u
    ELSE IF u.focus # "foe" \/ ~Stalkable THEN [u EXCEPT !.focus = "none"]
    ELSE IF ~Within(u) THEN [u EXCEPT !.goal = prey.at, !.moving = TRUE]
    ELSE u
\* arena_tick_attack_targets(): a lock on nobody is dropped, a chase goes to where the enemy is
\* now, a ranged hero in reach begins its shot
Pursue(u, ready) ==
    IF ~u.alive \/ u.focus = "none" \/ kind = "clone" THEN u
    ELSE IF u.focus # "foe" \/ ~Stalkable THEN [u EXCEPT !.focus = "none"]
    ELSE IF ~Within(u) THEN IF u.mode = "hold" THEN [u EXCEPT !.focus = "none"]
                            ELSE [u EXCEPT !.goal = prey.at, !.moving = TRUE]
    ELSE IF kind = "ranged" /\ ready /\ u.held # "stun" /\ u.swing = 0 THEN [u EXCEPT !.swing = SwingTicks]
    ELSE u

\* arena_tick_attack_windups(): a stun cancels; a shot needs its lock still, a melee swing only
\* somebody in reach; the cooldown is spent either way
Due(u) == u.alive /\ u.swing = 1 /\ u.held # "stun"
Lands(u) == Due(u) /\ Within(u) /\ (kind = "ranged" => u.focus = "foe")
WoundUp(u) ==
    IF ~u.alive \/ u.swing = 0 THEN u
    ELSE [u EXCEPT !.swing = IF u.held = "stun" THEN 0 ELSE u.swing - 1]
\* Fault: a timer that is over runs on
TimersPast(u) == [u EXCEPT !.air = @ - 1, !.held = IF kind = "clone" THEN @ ELSE "no"]
\* tick_hero_kit() runs the timers of heroes, clones have none that end
TimersOf(u) ==
    [u EXCEPT !.air = IF u.air > 0 THEN u.air - 1 ELSE 0, !.held = IF kind = "clone" THEN u.held ELSE "no"]

\* no enemy and nothing that holds it, and a unit whose orders the ticks look at
Alone(u) == prey.at = Gone /\ u.alive /\ u.held = "no" /\ kind # "clone"
Undisturbed(u) == Alone(u) /\ (Free(u) => ~Hindered(u))
\* off the place it was sent to and at rest: no tick of arena_tick_attack_move() or
\* arena_tick_patrol() sends it there a second time
Stranded(u) == u.mode # "none" /\ u.at # u.goal /\ ~u.moving

OrderTick ==
    \E m \in Motion(walker), ready \in BOOLEAN :
        LET swinging == BeginMelee(m, ready)
            aimed == Pursue(TickPatrol(TickAttackMove(swinging)), ready)
        IN /\ walker' = TimersOf(WoundUp(aimed))
           /\ did' = IF Lands(aimed) THEN "lands" ELSE "tick"
           /\ quiet' = IF ~Undisturbed(walker) \/ aimed.route # walker.route THEN 0
                       ELSE IF quiet < Patience THEN quiet + 1 ELSE quiet
           /\ leaving' = (leaving /\ walker.swing > 0)
           /\ shoved' = (shoved \/ Stranded(aimed))
           /\ UNCHANGED <<kind, prey>>

-----------------------------------------------------------------------------
(* Abilities, items and the enemy                                          *)

\* a dash, a leap or a rewind of its own: the place changes, the order stays, the motion stops
Displaced(x) ==
    /\ walker.alive /\ walker' = [walker EXCEPT !.at = x, !.moving = FALSE]
    /\ shoved' = (walker.mode # "none") /\ Disturbed /\ UNCHANGED <<kind, prey, leaving>>
\* somebody's pull, push or swap, or a blink: the motion goes on
Pushed(x) ==
    /\ walker.alive /\ walker' = [walker EXCEPT !.at = x]
    /\ shoved' = (shoved \/ (walker.mode # "none" /\ ~walker.moving))
    /\ Disturbed /\ UNCHANGED <<kind, prey, leaving>>
\* arena_use_donkey_glide(): away from the enemy, or on in the direction of the motion
Glide(x) ==
    /\ walker.alive /\ kind # "clone" /\ walker.held # "stun" /\ walker.air = 0
    /\ prey.at # Gone \/ walker.moving
    /\ walker' = [walker EXCEPT !.goal = x, !.moving = TRUE, !.air = GlideTicks]
    /\ Disturbed /\ UNCHANGED <<kind, prey, shoved, leaving>>
\* arena_apply_stun() keeps to heroes; a root is assigned to anyone
Bound(how) ==
    /\ walker.alive /\ walker.held = "no" /\ (how = "stun" => kind # "clone")
    /\ walker' = [walker EXCEPT !.held = how]
    /\ Disturbed /\ UNCHANGED <<kind, prey, shoved, leaving>>
Killed ==
    /\ walker.alive /\ walker' = [Standing(0) EXCEPT !.alive = FALSE] /\ shoved' = FALSE /\ leaving' = FALSE
    /\ Disturbed /\ UNCHANGED <<kind, prey>>
\* arena_respawn_hero(): every order is forgotten
Returned ==
    /\ ~walker.alive /\ kind # "clone" /\ walker' = Standing(0)
    /\ Disturbed /\ UNCHANGED <<kind, prey, shoved, leaving>>
PreyActs ==
    /\ prey' \in {p \in [at : Line, shows : BOOLEAN] : prey.at = Gone \/ Distance(p.at, prey.at) <= 1}
               \cup {[at |-> Gone, shows |-> TRUE]}
    /\ Disturbed /\ UNCHANGED <<kind, walker, shoved, leaving>>

OrderNext ==
    \/ OrderTick
    \/ \E x \in Line :
        \/ arena_set_move_target(x) \/ arena_set_attack_move_target(x) \/ arena_set_patrol_target(x)
        \/ Displaced(x) \/ Pushed(x) \/ Glide(x)
    \/ (\E f \in {"foe", "friend"} : arena_set_attack_target(f))
    \/ arena_stop_unit \/ arena_hold_position
    \/ (\E how \in {"root", "stun"} : Bound(how)) \/ Killed \/ Returned \/ PreyActs

OrderSpec == OrderInit /\ [][OrderNext]_orderVars

-----------------------------------------------------------------------------
\* Types: a unit and its route are on the map, and no timer of a swing or a glide exceeds
\* what it was set to (arena_set_move_target, arena_update_teams).
OrderTypeOK ==
    /\ kind \in OrderedKinds
    /\ walker \in [alive : BOOLEAN, at : Line, goal : Line, moving : BOOLEAN, focus : {"none", "foe", "friend"},
                   mode : {"none", "attack-move", "hold", "patrol"}, swing : 0..SwingTicks,
                   route : [from : Line, to : Line, there : BOOLEAN], held : {"no", "root", "stun"},
                   air : 0..GlideTicks]
    /\ prey.at \in Line \cup {Gone}

\* "Held units never chase": whoever walks up to a hero who holds his position and away again, no
\* tick gives the hero somewhere to go.
HoldsGround == [][did' \in {"tick", "lands"} /\ walker.mode = "hold" => walker'.goal = walker.goal]_orderVars

\* "issuing a move command mid-windup cancels the swing": no blow lands of a swing during which
\* its hero was ordered, by any of the orders that send it somewhere, out of its own reach.
RetreatCancels == [][did' = "lands" => ~leaving \/ walker.swing = 0]_orderVars

\* Whatever chases and fights came before, a hero on attack-move who is left alone, with no obstacle
\* in his way, gets to where he was sent, unless a displacement of his own or a collision on
\* arrival left him at rest beside it (arena_tick_attack_move, update_hero_motion).
AttackMoveArrives ==
    quiet = Patience /\ walker.mode = "attack-move" /\ ~shoved => walker.at = walker.route.to

\* A hero on patrol who is left alone comes to an end of his route and turns, under the same
\* provisos: no tick takes one who stands at rest beside his end any further
\* (arena_tick_patrol).
PatrolTurns == walker.mode = "patrol" /\ ~shoved => quiet < Patience

\* A walk that was interrupted is taken up again.
OrderInv == OrderTypeOK /\ AttackMoveArrives /\ PatrolTurns

\* An order takes hold at once: one holds its ground, one gives up its swing.
OrderSteps == HoldsGround /\ RetreatCancels
=============================================================================
