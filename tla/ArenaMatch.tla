----------------------------- MODULE ArenaMatch -----------------------------
(***************************************************************************)
(* The objective half of a team match (packages/simulation/arena_game.c):  *)
(* heroes hold, lose and channel the nodes, nodes earn resources, the dead *)
(* come back in waves, and the resource race or the clock decides.         *)
(*                                                                         *)
(* arena_update_teams() is two steps here, BeginTick (the respawn wave) and*)
(* EndTick (nodes, resources, decision).  What motion, combat and abilities*)
(* do in between is any sequence of the fight steps; orders that arrive    *)
(* between two ticks may do the same, except what only a tick can.  A      *)
(* position is reduced to the node whose radius it is in, if any (no two   *)
(* radii meet), time is counted in ticks and progress in ticks' worth.     *)
(***************************************************************************)
EXTENDS Integers, FiniteSets

CONSTANTS
    Node, Hero,
    TeamOf,             \* a hero's team, 0 or 1
    Tree, Pizza, Flamel,\* the heroes of these kits
    Rank,               \* a hero's place in heroes[]
    Channel,            \* ARENA_NODE_CAPTURE_CHANNEL_MS
    TreeSpeed,          \* ARENA_TREE_CHANNEL_SPEED_MULT
    MarkTicks,          \* ARENA_FLAMEL_MARK_MS
    MarkBonus,          \* ARENA_FLAMEL_MARK_CHANNEL_BONUS_MS
    NeutralBonus,       \* ARENA_CREEP_NEUTRAL_KILL_CAPTURE_BONUS_MS
    DenyBonus,          \* ARENA_CREEP_TEAM_KILL_DENY_CAPTURE_BONUS_MS
    NeutralRespawn,     \* ARENA_CREEP_NEUTRAL_RESPAWN_MS
    TeamRespawn,        \* ARENA_CREEP_TEAM_RESPAWN_MS
    WaveTicks,          \* ARENA_RESPAWN_WAVE_MS
    GainTicks,          \* ARENA_RESOURCE_TICK_MS
    ResourceCap,        \* ARENA_RESOURCE_CAP
    MatchTicks          \* ARENA_MATCH_MAX_DURATION_MS

Elsewhere == "elsewhere"
MaxHeroes == 20     \* ARENA_MAX_HEROES
ASSUME MapAssumption == IsFiniteSet(Node) /\ Cardinality(Node) <= 5 /\ Elsewhere \notin Node
ASSUME RosterAssumption == /\ TeamOf \in [Hero -> {0, 1}] /\ Rank \in [Hero -> 0 .. MaxHeroes - 1]
                           /\ Tree \subseteq Hero /\ Pizza \subseteq Hero /\ Flamel \subseteq Hero
ASSUME ChannelAssumption ==
    /\ {Channel, TreeSpeed, MarkTicks, MarkBonus, NeutralBonus, DenyBonus} \subseteq Nat
    /\ 1 <= TreeSpeed
\* A guardian is not back within a channel of its death.
ASSUME GuardianAssumption ==
    /\ NeutralRespawn \in Nat /\ Channel <= NeutralRespawn
    /\ TeamRespawn \in Nat /\ Channel <= TeamRespawn
    /\ DenyBonus <= NeutralBonus
ASSUME ClockAssumption ==
    /\ WaveTicks \in Nat /\ GainTicks \in Nat /\ ResourceCap \in Nat /\ MatchTicks \in Nat
    /\ 1 <= WaveTicks /\ 1 <= GainTicks /\ 1 <= ResourceCap /\ 1 <= MatchTicks

VARIABLES
    at,                 \* the node a hero is at, or Elsewhere
    alive,              \* the heroes alive
    intangible,         \* the heroes with intangible_ms > 0
    damaged,            \* the heroes with damaged_this_tick
    tower,              \* the nodes whose tower stands
    guardian,           \* the flavor of the node's creep (0, 1, 2), -1 while dead
    guardian_respawn,   \* its respawn_ms_remaining
    owner,              \* 0 neutral, team + 1
    capturing_team,     \* -1 when nobody channels
    capture_progress,
    marked_by_team,     \* -1 when unmarked
    mark_remaining,
    resources,
    winner,
    elapsed,            \* match_elapsed_ms; the wave and resource timers follow it
    stage,              \* "orders" between ticks, "fight" within one
    held,               \* history: for how many ticks on end a team has held a node
    short_for,          \* history: ticks begun on end with somebody dead
    crowd               \* history: the enemies at a node when its channel began unseen

heroes == <<at, alive, intangible, damaged>>
channels == <<capturing_team, capture_progress>>
marks == <<marked_by_team, mark_remaining>>
creeps == <<guardian, guardian_respawn>>
race == <<resources, winner, elapsed>>
history == <<held, crowd, short_for>>
vars == <<heroes, tower, creeps, owner, channels, marks, race, stage, history>>

Place == Node \union {Elsewhere}
Side == {0, 1}

Init ==
    /\ at = [h \in Hero |-> Elsewhere]
    /\ alive = Hero
    /\ intangible = {}
    /\ damaged = {}
    /\ tower = Node
    /\ guardian = [n \in Node |-> -1]
    /\ guardian_respawn = [n \in Node |-> 0]
    /\ owner = [n \in Node |-> 0]
    /\ capturing_team = [n \in Node |-> -1]
    /\ capture_progress = [n \in Node |-> 0]
    /\ marked_by_team = [n \in Node |-> -1]
    /\ mark_remaining = [n \in Node |-> 0]
    /\ resources = [t \in Side |-> 0]
    /\ winner = 0
    /\ elapsed = 0
    /\ stage = "orders"
    /\ held = [n \in Node |-> [t \in Side |-> 0]]
    /\ crowd = [n \in Node |-> {}]
    /\ short_for = 0

-----------------------------------------------------------------------------
(* The fight: what heroes and creeps may do to each other.                 *)

\* Walking, blinking, being pulled or knocked about.
Move(h, p) ==
    /\ h \in alive
    /\ at' = [at EXCEPT ![h] = p]
    /\ UNCHANGED <<alive, intangible, damaged, tower, creeps, owner, channels, marks, race,
                   stage, history>>

\* apply_damage() that its target survives, and one that it does not.  Nobody reads
\* where a dead hero lies or what it suffered until its return resets all of it.
Hit(h) ==
    /\ h \in alive
    /\ damaged' = damaged \union {h}
    /\ UNCHANGED <<at, alive, intangible, tower, creeps, owner, channels, marks, race, stage,
                   history>>

Die(h) ==
    /\ h \in alive
    /\ alive' = alive \ {h}
    /\ at' = [at EXCEPT ![h] = Elsewhere]
    /\ intangible' = intangible \ {h}
    /\ damaged' = damaged \ {h}
    /\ UNCHANGED <<tower, creeps, owner, channels, marks, race, stage, history>>

\* An ability that makes a hero intangible, and its end.
Vanish(h) ==
    /\ h \in alive
    /\ intangible' = intangible \union {h}
    /\ UNCHANGED <<at, alive, damaged, tower, creeps, owner, channels, marks, race, stage, history>>

Appear(h) ==
    /\ h \in intangible
    /\ intangible' = intangible \ {h}
    /\ UNCHANGED <<at, alive, damaged, tower, creeps, owner, channels, marks, race, stage, history>>

\* Flamel's ultimate marks every node in its radius.
MarkNodes(h, N) ==
    /\ h \in alive \intersect Flamel
    /\ marked_by_team' = [n \in Node |-> IF n \in N THEN TeamOf[h] ELSE marked_by_team[n]]
    /\ mark_remaining' = [n \in Node |-> IF n \in N THEN MarkTicks ELSE mark_remaining[n]]
    /\ UNCHANGED <<heroes, tower, creeps, owner, channels, race, stage, history>>

\* Fault: a dead guardian can be killed again.
AnyGuardian(n) == TRUE

\* Is the guardian of n there to be killed?
Guarded(n) == guardian[n] # -1

\* creep_die(): a hero kills the guardian of n, wherever it has marched to.  A
\* neutral one, or an enemy's, speeds up the channel the killer's team has there.
GuardianDies(n, h) ==
    /\ Guarded(n)
    /\ h \in Hero
    /\ guardian' = [guardian EXCEPT ![n] = -1]
    /\ guardian_respawn' = [guardian_respawn EXCEPT
           ![n] = IF guardian[n] = 0 THEN NeutralRespawn ELSE TeamRespawn]
    /\ capture_progress' =
           IF capturing_team[n] = TeamOf[h] /\ guardian[n] # TeamOf[h] + 1
           THEN [capture_progress EXCEPT
                    ![n] = @ + IF guardian[n] = 0 THEN NeutralBonus ELSE DenyBonus]
           ELSE capture_progress
    /\ UNCHANGED <<heroes, tower, owner, capturing_team, marks, race, stage, history>>

\* tower_die(): for good.
TowerFalls(n) ==
    /\ stage = "fight"
    /\ n \in tower
    /\ tower' = tower \ {n}
    /\ UNCHANGED <<heroes, creeps, owner, channels, marks, race, stage, history>>

-----------------------------------------------------------------------------
(* The tick.                                                               *)

\* Fault: only a team that owns a node gets its dead back.
WithANode == {h \in Hero \ alive : \E n \in Node : owner[n] = TeamOf[h] + 1}

Undecided == winner = 0
Fallen == Hero \ alive

\* Where the fallen of a team come back: at one of its nodes, else at the graveyard.
Spawn(t) ==
    LET own == {n \in Node : owner[n] = t + 1}
    IN  IF own = {} THEN {Elsewhere} ELSE own

\* arena_tick_respawns(): at a wave all the fallen return.  Then arena_tick_creeps():
\* guardians whose time has come return in the colour their node has now; a standing
\* tower stops their clock.
BeginTick ==
    /\ stage = "orders"
    /\ Undecided
    /\ stage' = "fight"
    /\ IF (elapsed + 1) % WaveTicks = 0
       THEN /\ alive' = alive \union Fallen
            /\ at' \in [Hero -> Place]
            /\ \A h \in Hero : IF h \in Fallen THEN at'[h] \in Spawn(TeamOf[h])
                                               ELSE at'[h] = at[h]
            /\ UNCHANGED <<intangible, damaged>>
       ELSE UNCHANGED heroes
    /\ short_for' = IF alive' = Hero THEN 0
                    ELSE IF short_for < WaveTicks THEN short_for + 1 ELSE WaveTicks
    /\ LET ticking == {n \in Node \ tower : guardian[n] = -1}
           due     == {n \in ticking : guardian_respawn[n] <= 1}
       IN  /\ guardian' = [n \in Node |-> IF n \in due THEN owner[n] ELSE guardian[n]]
           /\ guardian_respawn' = [n \in Node |->
                  IF n \in due THEN 0
                  ELSE IF n \in ticking THEN guardian_respawn[n] - 1
                  ELSE guardian_respawn[n]]
    /\ UNCHANGED <<tower, owner, channels, marks, race, held, crowd>>

\* arena_tick_nodes(), for one node.
There(n, t) == {h \in alive : at[h] = n /\ TeamOf[h] = t}
Visible(n, t) == There(n, t) \ intangible

\* Faults: a tower is no obstacle; an enemy is none.
ExclusiveByTower(n, t) == There(n, t) # {} /\ There(n, 1 - t) = {}
ExclusiveForBoth(n, t) == There(n, t) # {} /\ n \notin tower

\* A team holds a node alone, or unseen: its own presence hidden, the enemy's not.
Exclusive(n, t) ==
    /\ There(n, t) # {}
    /\ \/ There(n, 1 - t) = {}
       \/ Visible(n, t) = {} /\ Visible(n, 1 - t) # {}
    /\ \A u \in Side : There(n, u) \intersect Pizza = {}
    /\ n \notin tower

Channels(n, t) == Exclusive(n, t) /\ There(n, t) \intersect damaged = {}

\* The team of the last Flamel in the radius, or -1.
Marker(n) ==
    LET here == (There(n, 0) \union There(n, 1)) \intersect Flamel
    IN  IF here = {} THEN -1
        ELSE TeamOf[CHOOSE h \in here : \A g \in here : Rank[g] <= Rank[h]]

NodeMark(n) ==
    IF Marker(n) # -1 THEN [by |-> Marker(n), left |-> MarkTicks]
    ELSE IF mark_remaining[n] > 1
    THEN [by |-> marked_by_team[n], left |-> mark_remaining[n] - 1]
    ELSE [by |-> -1, left |-> 0]

Rate(n, t) ==
    (IF There(n, t) \intersect Tree # {} THEN TreeSpeed ELSE 1)
    + (IF NodeMark(n).by = t THEN MarkBonus ELSE 0)

\* Does t take up a channel it was not on?
Starts(n, t) == Channels(n, t) /\ owner[n] # t + 1 /\ capturing_team[n] # t

\* Fault: a new channel inherits the progress of the old one.
ProgressInherited(n, t) == capture_progress[n] + Rate(n, t)

Progress(n, t) == (IF Starts(n, t) THEN 0 ELSE capture_progress[n]) + Rate(n, t)

Channelled(n) == {t \in Side : Channels(n, t) /\ owner[n] # t + 1}
Captured(n) == {t \in Channelled(n) : Progress(n, t) >= Channel}

\* Fault: the node stays its owner's until the channel is over.
TappedNever(n) == {}

\* The team that takes up a channel at n, which makes it neutral at once.
Tapped(n) == {t \in Side : Starts(n, t)}

TickNodes ==
    /\ owner' = [n \in Node |-> IF \E t \in Side : t \in Captured(n)
                                THEN (CHOOSE t \in Side : t \in Captured(n)) + 1
                                ELSE IF Tapped(n) # {} THEN 0 ELSE owner[n]]
    /\ capturing_team' = [n \in Node |-> IF Channelled(n) \ Captured(n) = {} THEN -1
                                         ELSE CHOOSE t \in Side : t \in Channelled(n)]
    /\ capture_progress' = [n \in Node |->
           IF Channelled(n) \ Captured(n) = {} THEN 0
           ELSE Progress(n, CHOOSE t \in Side : t \in Channelled(n))]
    /\ marked_by_team' = [n \in Node |-> NodeMark(n).by]
    /\ mark_remaining' = [n \in Node |-> NodeMark(n).left]
    /\ intangible' = {h \in intangible : ~ \E n \in Node, t \in Side :
                                              Starts(n, t) /\ h \in There(n, t)}
    /\ damaged' = {}
    /\ held' = [n \in Node |-> [t \in Side |->
           IF ~Channels(n, t) THEN 0 ELSE IF held[n][t] < Channel THEN held[n][t] + 1 ELSE Channel]]
    /\ crowd' = [n \in Node |->
           IF Tapped(n) # {}
           THEN UNION {There(n, 1 - t) : t \in Tapped(n)}
           ELSE IF Channelled(n) \ Captured(n) = {} THEN {} ELSE crowd[n]]

\* arena_tick_resources(): GAIN_BY_NODE_COUNT.
Gain == <<0, 10, 20, 35, 55, 85>>
Owned(t) == {n \in Node : owner'[n] = t + 1}
Capped(x) == IF x > ResourceCap THEN ResourceCap ELSE x

TickResources ==
    resources' = [t \in Side |->
        IF (elapsed + 1) % GainTicks = 0
        THEN Capped(resources[t] + Gain[Cardinality(Owned(t)) + 1]) ELSE resources[t]]

\* Faults: the clock decides nothing, or looks at the nodes alone.
DecisionOfRace ==
    IF resources'[0] >= ResourceCap THEN 1 ELSE IF resources'[1] >= ResourceCap THEN 2 ELSE 0

DecisionByNodes ==
    IF elapsed + 1 < MatchTicks THEN 0
    ELSE IF Cardinality(Owned(1)) > Cardinality(Owned(0)) THEN 2 ELSE 1

\* The race first, then the clock: resources, then nodes, then team 0.
Decision ==
    IF resources'[0] >= ResourceCap THEN 1
    ELSE IF resources'[1] >= ResourceCap THEN 2
    ELSE IF elapsed + 1 < MatchTicks THEN 0
    ELSE IF resources'[0] > resources'[1] THEN 1
    ELSE IF resources'[1] > resources'[0] THEN 2
    ELSE IF Cardinality(Owned(1)) > Cardinality(Owned(0)) THEN 2 ELSE 1

\* Fault: the clock counts only the ticks in which somebody scores.
EndTickScored ==
    /\ stage = "fight"
    /\ stage' = "orders"
    /\ TickNodes
    /\ TickResources
    /\ winner' = Decision
    /\ elapsed' = IF resources' # resources THEN elapsed + 1 ELSE elapsed
    /\ UNCHANGED <<at, alive, tower, creeps, short_for>>

EndTick ==
    /\ stage = "fight"
    /\ stage' = "orders"
    /\ TickNodes
    /\ TickResources
    /\ winner' = Decision
    /\ elapsed' = elapsed + 1
    /\ UNCHANGED <<at, alive, tower, creeps, short_for>>

Fight ==
    \/ \E h \in Hero : Hit(h) \/ Die(h) \/ Vanish(h) \/ Appear(h)
    \/ \E h \in Hero, p \in Place : Move(h, p)
    \/ \E h \in Hero, N \in SUBSET Node : MarkNodes(h, N)
    \/ \E n \in Node, h \in Hero : GuardianDies(n, h)
    \/ \E n \in Node : TowerFalls(n)

Next == BeginTick \/ EndTick \/ Fight

Spec == Init /\ [][Next]_vars

\* The server calls arena_update_teams() every 16 ms and it always returns.
FairSpec == Spec /\ WF_vars(BeginTick) /\ WF_vars(EndTick)

-----------------------------------------------------------------------------
(* Properties.                                                             *)

\* The most a channel can gain in one tick.
TopRate == TreeSpeed + MarkBonus

\* The types, with the bounds the tick keeps: a channel and the race stop at their
\* limits, a guardian's clock at its longest respawn.
TypeOK ==
    /\ at \in [Hero -> Place]
    /\ alive \subseteq Hero /\ intangible \subseteq Hero /\ damaged \subseteq Hero
    /\ tower \subseteq Node
    /\ guardian \in [Node -> -1 .. 2]
    /\ guardian_respawn \in [Node -> 0 .. NeutralRespawn + TeamRespawn]
    /\ owner \in [Node -> 0 .. 2]
    /\ capturing_team \in [Node -> -1 .. 1]
    /\ capture_progress \in [Node -> 0 .. Channel + NeutralBonus]
    /\ marked_by_team \in [Node -> -1 .. 1]
    /\ mark_remaining \in [Node -> 0 .. MarkTicks]
    /\ resources \in [Side -> 0 .. ResourceCap]
    /\ winner \in 0 .. 2
    /\ elapsed \in 0 .. MatchTicks
    /\ stage \in {"orders", "fight"}
    /\ held \in [Node -> [Side -> 0 .. Channel]]
    /\ crowd \in [Node -> SUBSET Hero]
    /\ short_for \in 0 .. WaveTicks

\* A node changes hands only to a team that held it, undamaged and on end, long
\* enough to fill the channel at the best rate with the help of one guardian.
CaptureEarned ==
    [][\A n \in Node : \A t \in Side :
          owner'[n] = t + 1 /\ owner[n] # t + 1 =>
             held'[n][t] * TopRate + NeutralBonus >= Channel]_vars

\* "While the tower stands, the node can't flip to either team" (arena_game.h), nor
\* is anything channelled or guarded there.
TowerGate ==
    \A n \in tower : owner[n] = 0 /\ capturing_team[n] = -1 /\ guardian[n] = -1

\* Nobody channels what it owns, and a channel leaves the node neutral.
ChannelIsNeutral == \A n \in Node : capturing_team[n] # -1 => owner[n] = 0

\* Two teams never hold one node at the same time, seen or unseen.
OneHolder == \A n \in Node : held[n][0] = 0 \/ held[n][1] = 0

\* The node's books after every step of a tick: what stands, channels and owns there
\* fits together.
ChannelInv == TypeOK /\ TowerGate /\ ChannelIsNeutral /\ OneHolder

\* The winner is not behind: it has no fewer resources, and at equal resources
\* short of the cap no fewer nodes.
WinnerNotBehind ==
    \A t \in Side : winner = t + 1 =>
        /\ resources[t] >= resources[1 - t]
        /\ resources[t] = resources[1 - t] /\ resources[t] < ResourceCap =>
              Cardinality({n \in Node : owner[n] = t + 1})
                 >= Cardinality({n \in Node : owner[n] = 2 - t})

\* Nobody misses a wave: never is somebody dead for a whole one.
NobodyMissesAWave == short_for < WaveTicks

\* Every match is decided.
MatchDecided == <>(winner # 0)

\* arena_tick_nodes' comment: "A lone stealthed capper channels straight through a
\* crowd of unaware enemies".  A channel begun before a crowd lives on while it only
\* faces those who stood there when it began and nobody on its side is hurt.
UnseenChannelLives ==
    [][\A n \in Node, t \in Side :
          /\ stage = "fight" /\ stage' = "orders"
          /\ capturing_team[n] = t
          /\ There(n, t) # {} /\ There(n, t) \intersect damaged = {}
          /\ There(n, 1 - t) \subseteq crowd[n]
          /\ (There(n, 0) \union There(n, 1)) \intersect Pizza = {}
          => capturing_team'[n] = t \/ owner'[n] = t + 1]_vars

Outcome == INSTANCE MatchOutcome WITH Limited <- TRUE

\* arena_update_teams keeps the promise its server relies on.
ImplementsOutcome == Outcome!Spec

\* A match is decided, sooner or later, and as the server expects.
DecidesAsPromised == MatchDecided /\ ImplementsOutcome
=============================================================================
