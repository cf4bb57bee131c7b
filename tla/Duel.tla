--------------------------------- MODULE Duel ---------------------------------
(***************************************************************************)
(* One against one (packages/simulation/arena_game.c, arena_update()): the *)
(* tick of a duel, who has won, and when the bot casts.                    *)
(*                                                                         *)
(* Whether the two are in reach of each other, whether the player can be   *)
(* hit, and what abilities do to whom is a choice of every tick; so is the *)
(* end of a cooldown.  Hit points of the bot are the levels its rules ask  *)
(* about, mana is counted in the price of a Q or a W.                      *)
(***************************************************************************)
EXTENDS Integers, Sequences

CONSTANTS
    BotKits,        \* the heroes the bot may play
    MaxMana,        \* ARENA_MP_MAX
    UltPrice        \* ARENA_MP_COST_R

\* levels of hp: below a quarter, below a third, below half, below the maximum, and the maximum
Quarter == 1
Third == 2
Half == 3
Scratched == 4
Unscathed == 5
ASSUME DuelNumbers == MaxMana \in Nat /\ UltPrice \in 1..MaxMana

VARIABLES
    player,         \* heroes[0] lives
    bot,            \* heroes[1]: hero_id, hp, mp, the cooldowns that run, w_active
    verdict,        \* winner
    passed          \* history: the ticks on end that found an ability with a cooldown that a rule
                    \* asks for, affordable and in reach, and cast none

duelVars == <<player, bot, verdict, passed>>

\* arena_init_with_heroes()
DuelInit ==
    /\ player = TRUE /\ verdict = 0 /\ passed = 0
    /\ bot \in [kit : BotKits, hp : {Unscathed}, mp : {MaxMana}, cd : {{}}, on : {FALSE}]

-----------------------------------------------------------------------------
(* bot_cast_kit_if_ready(): rules in the order in which they are tried     *)

Ask(s) == [slot |-> s, near |-> FALSE, atMost |-> Unscathed, above |-> 0, sure |-> FALSE]
Close(s) == [Ask(s) EXCEPT !.near = TRUE]
Hurt(s, level) == [Ask(s) EXCEPT !.atMost = level]
Switch == Ask("on")
Sure(s) == [Close(s) EXCEPT !.sure = TRUE]
CloseAbove(s, level) == [Close(s) EXCEPT !.above = level]
QThenR == <<Close("Q"), Close("R")>>
WQR == <<Close("W"), Close("Q"), Close("R")>>

KitRules == [
    Duck |-> QThenR, Unicorn |-> <<Close("Q")>>, Ghost |-> QThenR,
    Frog |-> <<Hurt("R", Quarter), Hurt("Q", Half)>>, DocWheel |-> <<>>,
    Tree |-> <<Close("Q"), Hurt("R", Third)>>, Pizza |-> <<Close("Q"), Hurt("R", Quarter)>>,
    Flamel |-> <<Close("Q")>>, Morrigan |-> <<Close("Q"), Ask("W"), Close("R")>>,
    Dagda |-> <<Close("Q"), Hurt("R", Third)>>, Courier |-> <<Ask("Q"), Close("R")>>,
    Loki |-> <<Hurt("R", Quarter), Ask("Q"), [Switch EXCEPT !.atMost = Half]>>,
    Gary |-> WQR, FluteDebt |-> <<Switch, Close("Q"), Close("R")>>,
    BaconPuck |-> <<Hurt("Q", Third), Close("R")>>]
KitRulesMiddle == [
    Abraham |-> <<Sure("W"), Close("Q"), Hurt("R", Half)>>, Ada |-> <<Switch, Close("Q"), Close("R")>>,
    Tyler |-> <<Close("Q"), Ask("W"), CloseAbove("R", Half)>>, Paimon |-> <<Close("Q"), Close("W"), Close("R")>>,
    Noor1 |-> <<Hurt("W", Quarter), Close("Q"), Close("R")>>,
    Cain |-> <<Hurt("R", Quarter), Hurt("W", Third), Close("Q")>>, Gunnr |-> WQR, Vassago |-> QThenR,
    HeXiangu |-> <<Switch, Close("Q")>>, Beleth |-> <<Close("W"), Close("R"), Close("Q")>>]
KitRulesLater == [
    MnM |-> <<Hurt("R", Quarter), Close("W"), Close("Q")>>, Weatherman |-> <<Close("R"), Close("Q")>>,
    Zagan |-> <<Close("W"), Close("R"), Close("Q")>>, Warrior |-> <<Close("R"), Close("W"), Close("Q")>>,
    Cart |-> <<Ask("R"), Ask("W"), Hurt("Q", Scratched)>>, Michael |-> <<Hurt("W", Third), Close("Q")>>]
ASSUME DuelKits == BotKits \subseteq DOMAIN KitRules \cup DOMAIN KitRulesMiddle \cup DOMAIN KitRulesLater
RulesOf(k) ==
    LET table == CHOOSE t \in {KitRules, KitRulesMiddle, KitRulesLater} : k \in DOMAIN t IN table[k]

Price(s) == IF s = "R" THEN UltPrice ELSE 1
\* Fault: the switch is thrown whether it is on or not
SpurredOn(r, b, near, shows) ==
    r.slot = "on" \/ (r.slot \notin b.cd /\ (r.near => near) /\ b.hp <= r.atMost /\ b.hp > r.above)
\* A rule that asks whether its cast will succeed looks at the mana and at the foe, too.  Abraham
\* also asks for his R when something but a wound is wrong with him.
Spurred(r, b, near, shows) ==
    /\ IF r.slot = "on" THEN ~b.on ELSE r.slot \notin b.cd
    /\ r.near => near
    /\ b.hp <= r.atMost /\ b.hp > r.above
    /\ r.sure => b.mp >= Price(r.slot) /\ shows
FirstRule(b, near, shows) ==
    LET R == RulesOf(b.kit)
        due == {i \in DOMAIN R : Spurred(R[i], b, near, shows)}
    IN IF due = {} THEN <<>> ELSE <<R[CHOOSE i \in due : \A j \in due : i <= j].slot>>
\* Fault: an ability is cast whether or not the mana is there
CastOnCredit(b, s) ==
    IF s = "on" THEN [b EXCEPT !.on = ~@]
    ELSE IF s \in b.cd THEN b
    ELSE [b EXCEPT !.mp = @ - Price(s), !.cd = @ \cup {s}]
\* what arena_cast_q(), arena_toggle_w() and arena_cast_r() make of the request
Cast(b, s) ==
    IF s = "on" THEN IF b.mp > 0 \/ b.on THEN [b EXCEPT !.on = ~@] ELSE b
    ELSE IF s \in b.cd \/ b.mp < Price(s) THEN b
    ELSE [b EXCEPT !.mp = @ - Price(s), !.cd = @ \cup {s}]
CastKit(b, near, shows) == LET slot == FirstRule(b, near, shows) IN IF slot = <<>> THEN b ELSE Cast(b, slot[1])
\* arena_bot_tick_rl_cast(): any of the three, unasked; a Duck has no W
RLCast(b, wants) ==
    LET q == IF "Q" \in wants THEN Cast(b, "Q") ELSE b
        w == IF "W" \in wants /\ b.kit = "Unicorn" THEN Cast(q, "on") ELSE q
    IN IF "R" \in wants THEN Cast(w, "R") ELSE w
ByPolicy(k) == k \in {"Unicorn", "Duck"}

-----------------------------------------------------------------------------
(* The tick                                                                *)

Down(n, by) == IF n > by THEN n - by ELSE 0
\* resolve_combat(): the second strikes although the first has just killed it
Exchange(p, b, near) ==
    IF ~near \/ ~p \/ b.hp = 0 THEN {[p |-> p, b |-> b]}
    ELSE {[p |-> ~kills, b |-> struck] : kills \in BOOLEAN, struck \in {b, [b EXCEPT !.hp = Down(@, 1)]}}
\* a part of the tick in which abilities, zones and shots may hit either and healing may reach the living
Effects(s) ==
    {[p |-> s.p /\ ~pdies, b |-> [s.b EXCEPT !.hp = n]] :
        pdies \in BOOLEAN, n \in {s.b.hp, Down(s.b.hp, 1)} \cup (IF s.b.hp \in 1..Scratched THEN {s.b.hp + 1} ELSE {})}
\* tick_hero_kit() of the bot: cooldowns end, mana grows, or drains while W is on, which then goes off
RestedTo(b, cd, mp) == [b EXCEPT !.cd = cd, !.mp = mp, !.on = @ /\ mp > 0]
Rested(b) ==
    {RestedTo(b, cd, mp) :
        cd \in SUBSET b.cd, mp \in IF b.hp = 0 THEN {b.mp}
                                   ELSE {b.mp, IF b.on THEN Down(b.mp, 1) ELSE IF b.mp < MaxMana THEN b.mp + 1 ELSE b.mp}}
Judged(p, b) == IF ~p THEN 2 ELSE IF b.hp = 0 THEN 1 ELSE 0
\* a rule names an ability with a cooldown that would be cast now
Open(b, near) ==
    \E i \in DOMAIN RulesOf(b.kit) : LET r == RulesOf(b.kit)[i] IN
        /\ r.slot # "on" /\ b.mp >= Price(r.slot) /\ Spurred(r, b, near, TRUE)
\* able: neither silenced nor stunned, and the foe can be hit; nothing else counts as passed
Chosen(b, foe, able, near, wants) ==
    IF ~able \/ b.hp = 0 THEN b
    ELSE IF ByPolicy(b.kit) THEN RLCast(b, wants)
    ELSE IF foe THEN CastKit(b, near, TRUE) ELSE b
PassedOver(b, foe, able, near, chosen) == able /\ foe /\ b.hp > 0 /\ Open(b, near) /\ chosen.cd = b.cd
DuelTick ==
    /\ verdict = 0
    /\ \E near, able \in BOOLEAN, wants \in IF ByPolicy(bot.kit) THEN SUBSET {"Q", "W", "R"} ELSE {{}} :
       \E s \in Exchange(player, bot, near) : \E b \in Rested(s.b) :
        LET chosen == Chosen(b, s.p, able, near, wants)
        IN /\ passed' = IF PassedOver(b, s.p, able, near, chosen)
                        THEN IF passed < 2 THEN passed + 1 ELSE 2 ELSE 0
           /\ \E e \in Effects([p |-> s.p, b |-> chosen]) :
                player' = e.p /\ bot' = e.b /\ verdict' = Judged(e.p, e.b)
\* between two ticks the player casts
PlayerCasts ==
    /\ verdict = 0 /\ player /\ bot.hp > 0
    /\ bot' = [bot EXCEPT !.hp = Down(@, 1)] /\ UNCHANGED <<player, verdict, passed>>
\* arena_update() of a decided duel does nothing
Decided == verdict # 0 /\ UNCHANGED duelVars
DuelNext == DuelTick \/ PlayerCasts \/ Decided
DuelSpec == DuelInit /\ [][DuelNext]_duelVars

-----------------------------------------------------------------------------
\* Types: the bot's mana never falls below nothing, whatever its rules and its policy ask for
\* (the mana tests of the casts and of tick_hero_kit).
DuelTypeOK ==
    /\ player \in BOOLEAN /\ verdict \in 0..2 /\ passed \in 0..2
    /\ bot \in [kit : BotKits, hp : 0..Unscathed, mp : 0..MaxMana, cd : SUBSET {"Q", "W", "R"}, on : BOOLEAN]

\* Heroes of whom a dearer ability is asked for before a cheaper one may wait for mana.
Dearer(k) ==
    \E i, j \in DOMAIN RulesOf(k) : i < j /\ RulesOf(k)[i].slot = "R" /\ RulesOf(k)[j].slot # "R"
\* "just enough to prove the bot side can actually use a kit at all": a bot that its rules rather
\* than the policy drive and that can afford what it is asked for, with its foe in reach, casts it
\* no later than the tick after, although a rule without a cooldown may come first.
BotUsesItsKit == ByPolicy(bot.kit) \/ Dearer(bot.kit) \/ passed <= 1

\* A duel goes to the survivor, and to hero 1 when both fall in the same tick; it goes on only
\* while both live, or the bot has just been felled between two ticks (arena_update).
FirstBlood ==
    /\ verdict = 0 => player
    /\ verdict = 1 => player /\ bot.hp = 0
    /\ verdict = 2 => ~player

\* The duel: its bot within its means and never idle for ever, its verdict that of the dead.
DuelInv == DuelTypeOK /\ BotUsesItsKit /\ FirstBlood

Fight == INSTANCE MatchOutcome WITH
    Limited <- FALSE, MatchTicks <- 1, winner <- verdict, elapsed <- 0

\* A duel is to its server what MatchOutcome says, without a limit to its time.
DuelDecidedOnce == Fight!Spec
=============================================================================
