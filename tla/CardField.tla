------------------------------ MODULE CardField ------------------------------
(* The card game's simulation, packages/simulation/local_game.c: a grid of    *)
(* cells, a pool of entities that act by slot, and two owners who turn        *)
(* influence into entities by playing cards.  One tick is one local_update(); *)
(* cards arrive between ticks.  Timers count ticks, hit points and damage     *)
(* keep their proportions.  No cell ever becomes corrupted in this code: the  *)
(* state needs four corrupted neighbours and nothing makes the first one.     *)
EXTENDS Integers, FiniteSets, FiniteSetsExt

CONSTANTS
    GridDim,        \* cells are 0..GridDim-1 by 0..GridDim-1 (GRID_DIM)
    Pool,           \* MAX_ENTITIES slots
    Villages,       \* the cells init places a village on
    Home,           \* the cell of each owner's first outpost
    Drops,          \* the cells cards are played on
    PriceOf, Recovery, \* card_costs and card_cooldowns_ms, by card
    Health, Damage, \* hp at spawn and unit_damage, by type
    Upgraded,       \* the hp apply_tech_upgrades gives militia (140)
    Purse, PurseCap,            \* influence at the start, and its maximum
    IncomeTicks, LifeTicks,     \* one second, and the automata's two seconds
    SpawnTicks, FastSpawnTicks, \* an outpost's rest at tier 1 and at tier 2
    TechTicks,      \* match time after which owner 1 reaches tier 2
    HoldTicks,      \* how long the majority of cells must be held
    FieldTicks      \* bound: ticks of a behaviour

Owners == {1, 2}
Cards == {"militia", "scout", "swarmling", "outpost"}
Cells == (0 .. GridDim - 1) \X (0 .. GridDim - 1)

ASSUME CardFieldAssumption ==
    /\ {GridDim, Pool, HoldTicks, IncomeTicks, LifeTicks} \subseteq Nat \ {0}
    /\ {Upgraded, PurseCap, SpawnTicks, FastSpawnTicks} \subseteq Nat
    /\ FastSpawnTicks <= SpawnTicks /\ Purse \in 0 .. PurseCap
    /\ Villages \cup Drops \subseteq Cells /\ Home \in [Owners -> Cells]
    /\ {PriceOf, Recovery, Damage} \subseteq [Cards -> Nat]
    /\ Health \in [Cards \cup {"village"} -> Nat \ {0}]

VARIABLES
    entity,         \* slot -> what stands in it (entities[])
    cell,           \* cell -> "neutral", "player" or "enemy" (grid)
    influence, income,  \* per owner: influence, influence_timer_ms
    recovering,     \* owner -> card -> card_cooldown_ms
    held,           \* per owner: control_hold_ms
    life,           \* automata_timer_ms
    fieldTime,      \* match_time_ms
    winner,         \* match_winner
    idle,           \* history: owner -> card -> ticks since it was last played
    streak          \* history: per owner, ticks on end with the majority

fieldVars == <<entity, cell, influence, income, recovering, held, life,
               fieldTime, winner, idle, streak>>

Absent == [type |-> "none"]
OnField(es) == {i \in 1 .. Pool : es[i] # Absent}

Entity(type, owner, at) ==
    [type |-> type, owner |-> owner, at |-> at, hp |-> Health[type],
     rest |-> IF type = "outpost" THEN SpawnTicks ELSE 0]

(* spawn_entity(): the first free slot; a full pool refuses.                  *)
HasRoom(es) == OnField(es) # 1 .. Pool
Spawned(es, type, owner, at) ==
    IF HasRoom(es)
    THEN [es EXCEPT ![Min((1 .. Pool) \ OnField(es))] = Entity(type, owner, at)]
    ELSE es

FieldInit ==
    LET villages == FoldSet(LAMBDA at, es : Spawned(es, "village", 0, at),
                            [i \in 1 .. Pool |-> Absent], Villages)
    IN /\ entity = Spawned(Spawned(villages, "outpost", 1, Home[1]),
                           "outpost", 2, Home[2])
       /\ cell = [c \in Cells |-> "neutral"]
       /\ influence = [o \in Owners |-> Purse]
       /\ income = [o \in Owners |-> 0]
       /\ recovering = [o \in Owners |-> [k \in Cards |-> 0]]
       /\ held = [o \in Owners |-> 0]
       /\ life = 0 /\ fieldTime = 0 /\ winner = 0
       /\ idle = [o \in Owners |-> [k \in Cards |-> Recovery[k]]]
       /\ streak = [o \in Owners |-> 0]

-----------------------------------------------------------------------------
\* Fault: the price is paid before the pool is asked for a slot.
PlayableAnyway(o, k) == influence[o] >= PriceOf[k] /\ recovering[o][k] = 0

(* local_apply_card(): owners above 2 are refused, owner 0 has no influence.  *)
(* Neither the decision nor what stands on the cell matters.                  *)
Playable(o, k) ==
    /\ influence[o] >= PriceOf[k]
    /\ recovering[o][k] = 0
    /\ HasRoom(entity)

local_apply_card(o, k, at) ==
    /\ Playable(o, k)
    /\ entity' = Spawned(entity, k, o, at)
    /\ influence' = [influence EXCEPT ![o] = @ - PriceOf[k]]
    /\ recovering' = [recovering EXCEPT ![o][k] = Recovery[k]]
    /\ idle' = [idle EXCEPT ![o][k] = 0]
    /\ UNCHANGED <<cell, income, held, life, fieldTime, winner, streak>>

-----------------------------------------------------------------------------
(* apply_entity_influence(): whoever stands in the highest slot paints last;  *)
(* villages paint nothing.                                                    *)
Colour(o) == IF o = 1 THEN "player" ELSE "enemy"
Painted(cs) ==
    [c \in Cells |->
        LET here == {i \in OnField(entity) :
                        entity[i].at = c /\ entity[i].type # "village"}
        IN IF here = {} THEN cs[c] ELSE Colour(entity[Max(here)].owner)]

(* update_unit_ai(): scouts run along x, militia along z, swarmlings along    *)
(* both, owner 1 up and owner 2 down; at the edge they stay where they are.   *)
Heading(e) ==
    LET d == IF e.owner = 1 THEN 1 ELSE -1
        to == <<e.at[1] + (IF e.type = "militia" THEN 0 ELSE d),
                e.at[2] + (IF e.type = "scout" THEN 0 ELSE d)>>
    IN IF to \in Cells THEN to ELSE e.at

(* resolve_unit_combat(): one blow at the first entity of another owner on    *)
(* the same cell, villages included.                                          *)
\* Fault: a wound that leaves nothing leaves the entity standing.
StruckBarely(es, i) ==
    LET foes == {j \in OnField(es) : es[j].owner # es[i].owner
                                      /\ es[j].at = es[i].at}
        j == Min(foes)
        left == es[j].hp - Damage[es[i].type]
    IN IF foes = {} THEN es
       ELSE [es EXCEPT ![j] = IF left < 0 THEN Absent
                              ELSE [es[j] EXCEPT !.hp = left]]

Struck(es, i) ==
    LET foes == {j \in OnField(es) : es[j].owner # es[i].owner
                                      /\ es[j].at = es[i].at}
        j == Min(foes)
        left == es[j].hp - Damage[es[i].type]
    IN IF foes = {} THEN es
       ELSE [es EXCEPT ![j] = IF left <= 0 THEN Absent
                              ELSE [es[j] EXCEPT !.hp = left]]

(* update_outpost(): a rest begins again whether or not the pool had room for *)
(* the militia.  The tier is that of the tick before: apply_tech_upgrades and *)
(* the promotion come after the entities.                                     *)
Tier(o) == IF o = 1 /\ fieldTime > TechTicks THEN 2 ELSE 1
SpawnRest(o) == IF Tier(o) = 2 THEN FastSpawnTicks ELSE SpawnTicks
OutpostActs(es, i) ==
    IF es[i].rest > 1 THEN [es EXCEPT ![i].rest = es[i].rest - 1]
    ELSE Spawned([es EXCEPT ![i].rest = SpawnRest(es[i].owner)],
                 "militia", es[i].owner, es[i].at)

(* The entities act in the order of their slots, each on what those before it *)
(* left: the killed no longer act, one spawned into a later slot still does.  *)
Acted(es, i) ==
    IF es[i].type \in {"militia", "scout", "swarmling"}
    THEN Struck([es EXCEPT ![i].at = Heading(es[i])], i)
    ELSE IF es[i].type = "outpost" THEN OutpostActs(es, i) ELSE es

AllActed ==
    LET after[i \in 0 .. Pool] ==
            IF i = 0 THEN entity ELSE Acted(after[i - 1], i)
    IN after[Pool]

(* apply_tech_upgrades(): every tier is at least 1, so militia are brought    *)
(* back to the upgraded hp on every tick.                                     *)
Upgrade(es) ==
    [i \in 1 .. Pool |->
        IF es[i].type = "militia" THEN [es[i] EXCEPT !.hp = Max({es[i].hp, Upgraded})]
        ELSE es[i]]

(* tick_automata(): three neighbours of a colour, the player's on a tie.      *)
Around(c) == {d \in Cells \ {c} : /\ d[1] - c[1] \in -1 .. 1
                                  /\ d[2] - c[2] \in -1 .. 1}
Count(cs, where, col) == Cardinality({d \in where : cs[d] = col})
Grown(cs) ==
    [c \in Cells |->
        LET players == Count(cs, Around(c), "player")
            enemies == Count(cs, Around(c), "enemy")
        IN IF players >= 3 /\ players >= enemies THEN "player"
           ELSE IF enemies >= 3 /\ enemies > players THEN "enemy"
           ELSE cs[c]]

(* update_win_condition()                                                     *)
Majority(cs, o) ==
    Count(cs, Cells, Colour(o)) >= (GridDim * GridDim * 6) \div 10
\* Fault: the hold is counted in sum, not on end.
HoldingEver(cs, n) ==
    [o \in Owners |-> IF Majority(cs, o) THEN n[o] + 1 ELSE n[o]]

Holding(cs, n) == [o \in Owners |-> IF Majority(cs, o) THEN n[o] + 1 ELSE 0]
Outposts(es, o) == {i \in OnField(es) : /\ es[i].type = "outpost"
                                        /\ es[i].owner = o}
Outcome(es, hs) ==
    IF Outposts(es, 2) = {} \/ hs[1] >= HoldTicks THEN 1
    ELSE IF hs[2] >= HoldTicks THEN 2 ELSE 0

Income(o) ==
    IF influence[o] >= PurseCap
    THEN <<influence[o], income[o]>>
    ELSE IF income[o] + 1 >= IncomeTicks
         THEN <<influence[o] + 1, income[o] + 1 - IncomeTicks>>
         ELSE <<influence[o], income[o] + 1>>

\* Fault: the last stretch of a recovery is forgiven.
RecoveredEarly(n) == IF n > 2 THEN n - 1 ELSE 0

Recovered(n) == IF n > 1 THEN n - 1 ELSE 0

local_update ==
    /\ winner = 0
    /\ fieldTime < FieldTicks
    /\ influence' = [o \in Owners |-> Income(o)[1]]
    /\ income' = [o \in Owners |-> Income(o)[2]]
    /\ recovering' = [o \in Owners |->
                         [k \in Cards |-> Recovered(recovering[o][k])]]
    /\ entity' = Upgrade(AllActed)
    /\ life' = IF life + 1 >= LifeTicks THEN 0 ELSE life + 1
    /\ cell' = IF life' = 0 THEN Grown(Painted(cell)) ELSE Painted(cell)
    /\ fieldTime' = fieldTime + 1
    /\ held' = Holding(cell', held)
    /\ winner' = Outcome(entity', held')
    /\ idle' = [o \in Owners |->
                   [k \in Cards |-> Min({idle[o][k] + 1, Recovery[k]})]]
    /\ streak' = [o \in Owners |->
                     IF Majority(cell', o) THEN streak[o] + 1 ELSE 0]

(* The bound on ticks ends a behaviour; so does the decision, but for cards.  *)
FieldOver == (winner # 0 \/ fieldTime = FieldTicks) /\ UNCHANGED fieldVars

FieldNext ==
    \/ \E o \in Owners, k \in Cards, at \in Drops : local_apply_card(o, k, at)
    \/ local_update
    \/ FieldOver
FieldSpec == FieldInit /\ [][FieldNext]_fieldVars

-----------------------------------------------------------------------------
(* Types: no slot holds an entity off the grid, dead or of a stranger, no     *)
(* purse is overdrawn or overfull (spawn_entity, update_unit_ai,              *)
(* resolve_unit_combat, local_apply_card).                                    *)
FieldTypeOK ==
    /\ \A i \in OnField(entity) :
          /\ entity[i].type \in Cards \cup {"village"}
          /\ entity[i].owner \in IF entity[i].type = "village" THEN {0} ELSE Owners
          /\ entity[i].at \in Cells
          /\ entity[i].hp \in 1 .. Max({Health[entity[i].type], Upgraded})
    /\ cell \in [Cells -> {"neutral", "player", "enemy"}]
    /\ influence \in [Owners -> 0 .. PurseCap]
    /\ income \in [Owners -> 0 .. IncomeTicks - 1]
    /\ \A o \in Owners, k \in Cards : recovering[o][k] \in 0 .. Recovery[k]
    /\ life \in 0 .. LifeTicks - 1
    /\ winner \in Owners \cup {0}

(* An owner wins by control only after holding the majority of the cells for  *)
(* the whole time on end, and owner 1 alone can win otherwise: by the last of *)
(* owner 2's outposts; nothing decides twice (update_win_condition).          *)
WinEarned ==
    [][winner' # winner =>
          /\ winner = 0
          /\ \/ streak'[winner'] >= HoldTicks
             \/ winner' = 1 /\ Outposts(entity', 2) = {}]_fieldVars

(* A purse never shrinks for nothing: what it loses is the price of an entity *)
(* of that owner that stands afterwards in a slot that was free, also when    *)
(* the pool is all but full and outposts spawn into it (local_apply_card).    *)
SpendingShows ==
    [][\A o \in Owners : influence'[o] < influence[o] =>
          \E i \in 1 .. Pool :
             /\ entity[i] = Absent /\ entity'[i] # Absent
             /\ entity'[i].owner = o
             /\ influence[o] - influence'[o] = PriceOf[entity'[i].type]
             /\ \A j \in 1 .. Pool \ {i} : entity'[j] = entity[j]]_fieldVars

(* Between two plays of a card by one owner its whole recovery has passed,    *)
(* however plays and ticks interleave (local_apply_card, local_update).       *)
CardsRest ==
    [][\A o \in Owners, k \in Cards :
          recovering'[o][k] > recovering[o][k] => idle[o][k] >= Recovery[k]]_fieldVars

\* The field's steps: territory won by holding it, units paid for, cards at their pace.
FieldSteps == WinEarned /\ SpendingShows /\ CardsRest
=============================================================================
