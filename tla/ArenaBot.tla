------------------------------ MODULE ArenaBot -------------------------------
(* What a bot decides, play_one_match() in apps/arena_bot/src/main.c: ten     *)
(* times a second it looks at the last snapshot it has, alive or stale, and   *)
(* sends orders.  The match it looks at is free to do anything.  Then, as a   *)
(* pure function of a snapshot, the squads its team splits into without a     *)
(* word between them.  Hit points, distances and Flow are the bands the       *)
(* thresholds cut them into; timers count decisions.                          *)
EXTENDS Integers, FiniteSets, Sequences, FiniteSetsExt, Functions

CONSTANTS
    SilenceLimit,   \* decisions without a snapshot before the bot leaves (100)
    PickRest,       \* decisions between two sendings of a pick (10)
    CampTicks,      \* ARENA_BOT_CAMP_DURATION_MS
    Pause,           \* 2 s between two purchases, and between two casts
    Catalog,        \* ARENA_BOT_ITEM_COUNT
    Views,          \* what snapshots may show
    Slots, Places,  \* the squads: owner slots 0..Slots-1 and where heroes stand
    NodeAt,         \* where each node is, on a line
    PatienceBonus   \* ARENA_BOT_DAMAGED_TOWER_PATIENCE_BONUS

ASSUME BotAssumption ==
    /\ {SilenceLimit, PickRest, CampTicks, Pause} \subseteq Nat \ {0}
    /\ {Catalog, PatienceBonus} \subseteq Nat /\ Slots \in Nat \ {0}
    /\ Places \subseteq Int /\ NodeAt \in Seq(Int)

VARIABLES
    seen, before,   \* the last two snapshots it keeps, or NoView
    silent, picked, sincePick,
    retreating, camping, campAge,
    shopNext, sinceBuy, sinceCast,
    orders,         \* what it sent at the last decision, in order
    over,           \* play_one_match() has returned
    hurt,           \* history: seen below the low mark and not healed up since
    bounty          \* history: decisions since it saw itself rewarded

botVars == <<seen, before, silent, picked, sincePick, retreating, camping, campAge,
             shopNext, sinceBuy, sinceCast, orders, over, hurt, bounty>>

\* How long after a reward a camp may still be on: one silence and the camp's time.
BountyAge == SilenceLimit + CampTicks

NoView == [phase |-> "none"]

\* What a snapshot shows the bot: its hp against a quarter and nine tenths, its Flow
\* in bounties of 350, whether it can pay for the next item and is at its shop, the
\* nearest living enemy against 15 and 20 units, and whether a power-up is in reach
\* or else a node its team lacks.
LiveViews ==
    [phase : {"live"}, hp : {"low", "mid", "full"}, bounties : 0 .. 1,
     purse : {"poor", "rich", "at shop"}, foe : {"none", "close", "wary", "far"},
     aim : {"powerup", "node", "none"}]
AllViews == LiveViews \cup [phase : {"dead"}, bounties : 0 .. 1]
                   \cup [phase : {"draft", "won"}]
ASSUME ViewsAssumption == Views \subseteq AllViews
Playing(v) == v.phase \in {"live", "dead"}

BotInit ==
    /\ seen = NoView /\ before = NoView
    /\ silent = 0 /\ picked = FALSE /\ sincePick = 0
    /\ retreating = FALSE /\ camping = FALSE /\ campAge = 0
    /\ shopNext = 0 /\ sinceBuy = Pause + 1 /\ sinceCast = Pause + 1
    /\ orders = <<>> /\ over = FALSE
    /\ hurt = FALSE /\ bounty = BountyAge + 1

-----------------------------------------------------------------------------
(* The retreat and the camp at the enemy's fountain.                          *)

\* Fault: one threshold for both ways.
RetreatsNow(v, r) == v.hp = "low"

\* Into retreat below a quarter, out of it at nine tenths.
Retreats(v, r) == IF r THEN v.hp # "full" ELSE v.hp = "low"

\* Flow has jumped by a bounty between the two snapshots kept, both of the match.
Rewarded(now, last) ==
    Playing(last) /\ now.bounties > last.bounties

\* Fault: only hit points end a camp.
CampsOn(v) == v.hp # "low"

\* Fault: a reward is enough to start a camp, whatever the hit points.
CampsHurt(v, last, r) ==
    IF camping THEN v.hp # "low" /\ campAge <= CampTicks ELSE Rewarded(v, last)

CampGoesOn(v) == v.hp # "low" /\ campAge <= CampTicks
MakesCamp(v, last, r) ==
    IF camping /\ ~r THEN CampGoesOn(v)
    ELSE ~r /\ v.hp = "full" /\ Rewarded(v, last)

-----------------------------------------------------------------------------
(* The orders of one decision.                                                *)

Safe(v) == v.foe \in {"none", "far"}
Engaged(v) == v.foe = "close"
Shops(v, camps) == ~camps /\ shopNext < Catalog /\ Safe(v) /\ v.purse # "poor"
Buys(v) == v.purse = "at shop" /\ sinceBuy > Pause

\* The errand of a bot nobody is close to.
Errand(v, camps) ==
    IF Engaged(v) THEN "none" ELSE IF camps THEN "camp" ELSE v.aim

\* Only a node keeps the bot from going for the nearest enemy in the same decision,
\* however far away: an errand to a camp or a power-up is overridden.
Fights(v, camps) == v.foe # "none" /\ Errand(v, camps) # "node"

Casts == IF sinceCast > Pause THEN <<"cast">> ELSE <<>>
Sends(v, r, camps) ==
    IF r THEN <<"fountain">>
    ELSE IF Shops(v, camps) THEN <<"shop">> \o (IF Buys(v) THEN <<"buy">> ELSE <<>>)
    ELSE (IF Errand(v, camps) = "none" THEN <<>> ELSE <<Errand(v, camps)>>)
         \o (IF Fights(v, camps) THEN <<"chase", "attack">> \o Casts ELSE <<>>)

Issues(o) == \E i \in DOMAIN orders' : orders'[i] = o
Later(n, bound) == IF n < bound THEN n + 1 ELSE bound
Older(n) == Later(n, Pause + 1)

\* One living decision on view v, the one before it being last.
Decide(v, last, got) ==
    LET r == Retreats(v, retreating)
        camps == MakesCamp(v, last, r)
    IN /\ retreating' = r
       /\ camping' = camps
       /\ campAge' = IF ~camps THEN 0 ELSE IF camping THEN campAge + 1 ELSE 1
       /\ orders' = Sends(v, r, camps)
       /\ shopNext' = IF Issues("buy") THEN shopNext + 1 ELSE shopNext
       /\ sinceBuy' = IF Issues("buy") THEN 1 ELSE Older(sinceBuy)
       /\ sinceCast' = IF Issues("cast") THEN 1 ELSE Older(sinceCast)
       /\ hurt' = IF hurt THEN v.hp # "full" ELSE v.hp = "low"
       /\ bounty' = IF got /\ Rewarded(v, last) THEN 0 ELSE Later(bounty, BountyAge + 1)
       /\ UNCHANGED <<picked, sincePick, over>>

\* A dead bot decides nothing, but the clock runs.
Wait ==
    /\ orders' = <<>>
    /\ campAge' = IF camping THEN Later(campAge, CampTicks + 1) ELSE 0
    /\ sinceBuy' = Older(sinceBuy) /\ sinceCast' = Older(sinceCast)
    /\ bounty' = Later(bounty, BountyAge + 1)
    /\ UNCHANGED <<picked, sincePick, retreating, camping, shopNext, over, hurt>>

\* The pick is sent once, and again after every PickRest decisions of the draft.
Draft ==
    /\ orders' = IF ~picked \/ sincePick + 1 > PickRest THEN <<"pick">> ELSE <<>>
    /\ picked' = TRUE
    /\ sincePick' = IF orders' = <<>> THEN sincePick + 1 ELSE 0
    /\ UNCHANGED <<retreating, camping, campAge, shopNext, sinceBuy, sinceCast, over,
                   hurt, bounty>>

Leave ==
    /\ over' = TRUE
    /\ orders' = <<>>
    /\ UNCHANGED <<picked, sincePick, retreating, camping, campAge, shopNext, sinceBuy,
                   sinceCast, hurt, bounty>>

\* Only the Flow of the snapshot before the last is ever looked at.
Kept(v) == IF Playing(v) THEN [phase |-> v.phase, bounties |-> v.bounties] ELSE NoView

\* A pass of the loop: a drained snapshot, if any, replaces the last one, and
\* whichever is the last one now is acted upon.
play_one_match(got, v) ==
    /\ ~over
    /\ seen' = IF got THEN v ELSE seen
    /\ before' = IF got THEN Kept(seen) ELSE before
    /\ silent' = IF got THEN 0 ELSE silent + 1
    /\ IF silent' > SilenceLimit \/ seen'.phase = "won" THEN Leave
       ELSE IF seen'.phase = "draft" THEN Draft
       ELSE IF seen'.phase = "live" THEN Decide(seen', before', got)
       ELSE Wait

\* Snapshots come in the order of their match: no draft after the match began.
Comes(v) == v.phase = "draft" => ~Playing(seen)

BotNext ==
    \/ \E v \in Views : Comes(v) /\ play_one_match(TRUE, v)
    \/ play_one_match(FALSE, NoView)
    \/ over /\ UNCHANGED botVars
BotSpec == BotInit /\ [][BotNext]_botVars

(* Types: a bot never camps while it retreats, and asks for a pick again in   *)
(* time (the state play_one_match keeps between decisions).                   *)
BotTypeOK ==
    /\ ~(retreating /\ camping)
    /\ campAge \in 0 .. CampTicks + 1 /\ (campAge > 0 <=> camping)
    /\ shopNext \in 0 .. Catalog
    /\ sincePick \in 0 .. PickRest /\ silent \in 0 .. SilenceLimit + 1
    /\ sinceBuy \in 1 .. Pause + 1 /\ sinceCast \in 1 .. Pause + 1

(* Once it has seen itself below a quarter a living bot sends nothing but the *)
(* way to the fountain until it has seen itself healed up, through deaths and *)
(* missing snapshots alike (the 2026-07-29 fix in play_one_match).            *)
HealsUp == hurt /\ orders # <<>> => orders = <<"fountain">>

(* A bot camps at the enemy's fountain only shortly after a reward it saw     *)
(* come in: a stale pair of snapshots can start a camp late, but by no more   *)
(* than a silence the bot sits out (the camp's own comment).                  *)
CampsAfterBounty ==
    \A i \in DOMAIN orders : orders[i] = "camp" => bounty <= BountyAge

-----------------------------------------------------------------------------
(* The squads of a team.  Every bot computes them alone from its snapshot;    *)
(* all bots see the same one here.                                            *)

VARIABLES
    at,         \* where each living hero of the team stands, by owner slot
    open,       \* the nodes the team does not hold
    worn,       \* the nodes whose tower stands damaged
    lead        \* the resource race: -1 well behind, 0 level, 1 well ahead

squadVars == <<at, open, worn, lead>>

Nodes == DOMAIN NodeAt
Alive == DOMAIN at

\* Fault: a squad for every bot.
SquadForEach == Max({1, Cardinality(Alive)})

\* As many squads as there are nodes to take, one at least, never more than bots.
hero_squad_count ==
    Max({1, Min({Max({1, Cardinality(open)}), Cardinality(Alive)})})
Squads == 0 .. hero_squad_count - 1
Members(s) == {i \in Alive : i % hero_squad_count = s}

\* Tenths: the Commander waits longer when ahead and hardly at all when behind.
commander_posture_multiplier == IF lead = 1 THEN 15 ELSE IF lead = 0 THEN 10 ELSE 3

\* Ten times the squad's size times the distance from its centroid to node n, less the
\* bonus; a squad nobody belongs to stands at the map's middle.
Weight(s) == Max({1, Cardinality(Members(s))})
Far(s, n) ==
    LET d == Weight(s) * NodeAt[n] - SumFunctionOnSet(at, Members(s))
    IN 10 * (IF d < 0 THEN -d ELSE d)
       - (IF n \in worn THEN Weight(s) * PatienceBonus * commander_posture_multiplier ELSE 0)
Closest(s, free) ==
    IF free = {} THEN 0
    ELSE Min({n \in free : \A m \in free : Far(s, n) <= Far(s, m)})

\* Fault: a squad does not look at what the squads before it have claimed.
AllOpen(claimed) == open

\* In squad order, each claims the nearest node not yet claimed; 0 is none.
Unclaimed(claimed) == open \ claimed
hero_squad_target_node[s \in 0 .. Slots - 1] ==
    Closest(s, Unclaimed({hero_squad_target_node[t] : t \in 0 .. s - 1}))

SquadInit ==
    /\ at \in [0 .. Slots - 1 -> {0}]
    /\ open = Nodes /\ worn = {} /\ lead = 0

Stands(i, x) ==
    /\ at' = [j \in Alive \cup {i} |-> IF j = i THEN x ELSE at[j]]
    /\ UNCHANGED <<open, worn, lead>>
Dies(i) ==
    /\ at' = [j \in Alive \ {i} |-> at[j]]
    /\ UNCHANGED <<open, worn, lead>>
Changes(n) ==
    /\ \/ /\ open' = (IF n \in open THEN open \ {n} ELSE open \cup {n})
          /\ UNCHANGED worn
       \/ /\ worn' = (IF n \in worn THEN worn \ {n} ELSE worn \cup {n})
          /\ UNCHANGED open
    /\ UNCHANGED <<at, lead>>
Leads(l) == lead' = l /\ UNCHANGED <<at, open, worn>>

SquadNext ==
    \/ \E i \in 0 .. Slots - 1, x \in Places : Stands(i, x)
    \/ \E i \in Alive : Dies(i)
    \/ \E n \in Nodes : Changes(n)
    \/ \E l \in -1 .. 1 : Leads(l)
SquadSpec == SquadInit /\ [][SquadNext]_squadVars

(* While a node is open every squad has one, and no two squads walk to the    *)
(* same (hero_squad_target_node's comment: the squads' number is chosen so    *)
(* that each "finds a distinct, never-before-claimed node").                  *)
SquadsSpread ==
    \A s \in Squads :
        /\ open # {} => hero_squad_target_node[s] \in open
        /\ \A t \in Squads \ {s} :
              open # {} => hero_squad_target_node[s] # hero_squad_target_node[t]

\* A bot retreats, camps and goes where its squad goes, by rules every bot works out
\* alone.
BotInv == BotTypeOK /\ HealsUp /\ CampsAfterBounty /\ SquadsSpread
=============================================================================
