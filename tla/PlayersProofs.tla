--------------------------- MODULE PlayersProofs ----------------------------
(***************************************************************************)
(* Theorems about those who play: the client of networked matches, the     *)
(* card game's table and field, and the bot of a duel, for any numbers the *)
(* assumptions admit.                                                      *)
(***************************************************************************)
EXTENDS Duel, CardField, CardTable, ArenaClient, FiniteSetTheorems, WellFoundedInduction, NaturalsInduction, TLAPS

-----------------------------------------------------------------------------
(* The bot of a duel.                                                      *)

Slot == {"Q", "W", "R", "on"}
Rule == [slot : Slot, near : BOOLEAN, atMost : 1 .. Unscathed, above : 0 .. Unscathed, sure : BOOLEAN]
Bot == [kit : BotKits, hp : 0 .. Unscathed, mp : 0 .. MaxMana, cd : SUBSET {"Q", "W", "R"}, on : BOOLEAN]

\* A bot its rules drive has passed an ability over at most once, and then with its switch on:
\* the next time the rule of the switch no longer comes first.
DuelIInv ==
    /\ DuelTypeOK
    /\ ByPolicy(bot.kit) \/ Dearer(bot.kit) \/ passed = 0 \/ (passed = 1 /\ bot.on)
    /\ FirstBlood

LEMMA RuleMakers ==
    ASSUME NEW s \in Slot, NEW level \in 1 .. Unscathed
    PROVE  /\ Ask(s) \in Rule /\ Close(s) \in Rule /\ Hurt(s, level) \in Rule /\ Sure(s) \in Rule
           /\ CloseAbove(s, level) \in Rule
<1> USE DEF Unscathed
<1>1. Ask(s) \in Rule
  BY DEF Ask, Rule
<1>2. Close(s) \in Rule
  BY <1>1 DEF Close, Rule
<1>3. Hurt(s, level) \in Rule
  BY <1>1 DEF Hurt, Rule
<1>4. Sure(s) \in Rule
  BY <1>2 DEF Sure, Rule
<1>5. CloseAbove(s, level) \in Rule
  BY <1>2 DEF CloseAbove, Rule
<1> QED
  BY <1>1, <1>2, <1>3, <1>4, <1>5

LEMMA Tables ==
    /\ \A k \in DOMAIN KitRules : KitRules[k] \in Seq(Rule)
    /\ \A k \in DOMAIN KitRulesMiddle : KitRulesMiddle[k] \in Seq(Rule)
    /\ \A k \in DOMAIN KitRulesLater : KitRulesLater[k] \in Seq(Rule)
<1>1. \A s \in Slot : Ask(s) \in Rule /\ Close(s) \in Rule /\ Sure(s) \in Rule
  BY RuleMakers DEF Unscathed
<1>2. \A s \in Slot : \A level \in 1 .. Unscathed : Hurt(s, level) \in Rule /\ CloseAbove(s, level) \in Rule
  BY RuleMakers
<1>3. Switch \in Rule /\ [Switch EXCEPT !.atMost = Half] \in Rule
  BY <1>1 DEF Switch, Slot, Rule, Half, Unscathed
<1>4. /\ Quarter \in 1 .. Unscathed /\ Third \in 1 .. Unscathed /\ Half \in 1 .. Unscathed
      /\ Scratched \in 1 .. Unscathed
  BY DEF Quarter, Third, Half, Scratched, Unscathed
<1>5. "Q" \in Slot /\ "W" \in Slot /\ "R" \in Slot
  BY DEF Slot
<1>6. QThenR \in Seq(Rule) /\ WQR \in Seq(Rule)
  BY <1>1, <1>5 DEF QThenR, WQR
<1>7. \A k \in DOMAIN KitRules : KitRules[k] \in Seq(Rule)
  <2>1. DOMAIN KitRules = {"Duck", "Unicorn", "Ghost", "Frog", "DocWheel", "Tree", "Pizza",
                             "Flamel", "Morrigan", "Dagda", "Courier", "Loki", "Gary",
                             "FluteDebt", "BaconPuck"}
    BY DEF KitRules
  <2>2. /\ KitRules["Duck"] \in Seq(Rule) /\ KitRules["Unicorn"] \in Seq(Rule)
        /\ KitRules["Ghost"] \in Seq(Rule) /\ KitRules["Frog"] \in Seq(Rule)
        /\ KitRules["DocWheel"] \in Seq(Rule) /\ KitRules["Tree"] \in Seq(Rule)
        /\ KitRules["Pizza"] \in Seq(Rule) /\ KitRules["Flamel"] \in Seq(Rule)
        /\ KitRules["Morrigan"] \in Seq(Rule) /\ KitRules["Dagda"] \in Seq(Rule)
        /\ KitRules["Courier"] \in Seq(Rule) /\ KitRules["Loki"] \in Seq(Rule)
        /\ KitRules["Gary"] \in Seq(Rule) /\ KitRules["FluteDebt"] \in Seq(Rule)
        /\ KitRules["BaconPuck"] \in Seq(Rule)
    BY <1>1, <1>2, <1>3, <1>4, <1>5, <1>6 DEF KitRules
  <2> QED
    BY <2>1, <2>2
<1>8. \A k \in DOMAIN KitRulesMiddle : KitRulesMiddle[k] \in Seq(Rule)
  <2>1. DOMAIN KitRulesMiddle = {"Abraham", "Ada", "Tyler", "Paimon", "Noor1", "Cain",
                                   "Gunnr", "Vassago", "HeXiangu", "Beleth"}
    BY DEF KitRulesMiddle
  <2>2. /\ KitRulesMiddle["Abraham"] \in Seq(Rule) /\ KitRulesMiddle["Ada"] \in Seq(Rule)
        /\ KitRulesMiddle["Tyler"] \in Seq(Rule) /\ KitRulesMiddle["Paimon"] \in Seq(Rule)
        /\ KitRulesMiddle["Noor1"] \in Seq(Rule) /\ KitRulesMiddle["Cain"] \in Seq(Rule)
        /\ KitRulesMiddle["Gunnr"] \in Seq(Rule) /\ KitRulesMiddle["Vassago"] \in Seq(Rule)
        /\ KitRulesMiddle["HeXiangu"] \in Seq(Rule) /\ KitRulesMiddle["Beleth"] \in Seq(Rule)
    BY <1>1, <1>2, <1>3, <1>4, <1>5, <1>6 DEF KitRulesMiddle
  <2> QED
    BY <2>1, <2>2
<1>9. \A k \in DOMAIN KitRulesLater : KitRulesLater[k] \in Seq(Rule)
  <2>1. DOMAIN KitRulesLater = {"MnM", "Weatherman", "Zagan", "Warrior", "Cart", "Michael"}
    BY DEF KitRulesLater
  <2>2. /\ KitRulesLater["MnM"] \in Seq(Rule) /\ KitRulesLater["Weatherman"] \in Seq(Rule)
        /\ KitRulesLater["Zagan"] \in Seq(Rule) /\ KitRulesLater["Warrior"] \in Seq(Rule)
        /\ KitRulesLater["Cart"] \in Seq(Rule) /\ KitRulesLater["Michael"] \in Seq(Rule)
    BY <1>1, <1>2, <1>3, <1>4, <1>5, <1>6 DEF KitRulesLater
  <2> QED
    BY <2>1, <2>2
<1> QED
  BY <1>7, <1>8, <1>9

LEMMA RulesAreRules == ASSUME NEW k \in BotKits PROVE RulesOf(k) \in Seq(Rule)
<1> DEFINE Ts == {KitRules, KitRulesMiddle, KitRulesLater}
           table == CHOOSE t \in Ts : k \in DOMAIN t
<1>1. \E t \in Ts : k \in DOMAIN t
  BY DuelKits
<1>2. table \in Ts /\ k \in DOMAIN table
  BY <1>1
<1>3. RulesOf(k) = table[k]
  BY DEF RulesOf
<1> HIDE DEF table
<1> QED
  BY <1>2, <1>3, Tables

\* The rule that is tried first is due, and none due comes before it.
LEMMA FirstDue ==
    ASSUME NEW b \in Bot, NEW near \in BOOLEAN, NEW j \in DOMAIN RulesOf(b.kit),
           Spurred(RulesOf(b.kit)[j], b, near, TRUE)
    PROVE  \E i \in DOMAIN RulesOf(b.kit) :
               /\ i <= j /\ Spurred(RulesOf(b.kit)[i], b, near, TRUE)
               /\ CastKit(b, near, TRUE) = Cast(b, RulesOf(b.kit)[i].slot)
<1> DEFINE R == RulesOf(b.kit)
           due == {i \in DOMAIN R : Spurred(R[i], b, near, TRUE)}
           Below == OpToRel(<, Nat)
           first == CHOOSE i \in due : \A k \in due : i <= k
<1>1. R \in Seq(Rule)
  BY RulesAreRules DEF Bot
<1>2. due \subseteq Nat /\ j \in due
  <2>1. DOMAIN R = 1 .. Len(R) /\ Len(R) \in Nat
    BY <1>1
  <2>2. j \in due
    OBVIOUS
  <2>3. due \subseteq DOMAIN R
    OBVIOUS
  <2> HIDE DEF R, due
  <2>4. 1 .. Len(R) \subseteq Nat
    BY <2>1
  <2> QED
    BY <2>1, <2>2, <2>3, <2>4
<1>3. \A x, y \in Nat : x < y => <<x, y>> \in Below
  BY DEF OpToRel
<1>4. IsWellFoundedOn(Below, Nat)
  BY NatLessThanWellFounded
<1>5. FirstRule(b, near, TRUE) = <<R[first].slot>>
  BY <1>2 DEF FirstRule
<1> HIDE DEF Below, due
<1>6. PICK x \in due : \A y \in due : ~(<<y, x>> \in Below)
  BY <1>2, <1>4, WFMin
<1>7. ASSUME NEW y \in due PROVE x <= y
  <2>1. x \in Nat /\ y \in Nat /\ ~(<<y, x>> \in Below)
    BY <1>2, <1>6
  <2>2. ~(y < x)
    BY <1>3, <2>1
  <2> QED
    BY <2>1, <2>2
<1>8. first \in due /\ first <= j
  BY <1>2, <1>7
<1> HIDE DEF first
<1>9. CastKit(b, near, TRUE) = Cast(b, R[first].slot)
  <2> DEFINE s == R[first].slot
  <2> HIDE DEF s
  <2>1. <<s>> # <<>> /\ <<s>>[1] = s
    OBVIOUS
  <2>2. FirstRule(b, near, TRUE) = <<s>>
    BY <1>5 DEF s
  <2>3. CastKit(b, near, TRUE) = Cast(b, s)
    BY <2>1, <2>2 DEF CastKit
  <2> QED
    BY <2>3 DEF s
<1> QED
  BY <1>8, <1>9 DEF due

LEMMA CastTypes ==
    ASSUME NEW b \in Bot, NEW s \in Slot
    PROVE  Cast(b, s) \in Bot
<1>1. b = [kit |-> b.kit, hp |-> b.hp, mp |-> b.mp, cd |-> b.cd, on |-> b.on]
  BY DEF Bot
<1>2. /\ b.kit \in BotKits /\ b.hp \in 0 .. Unscathed /\ b.mp \in 0 .. MaxMana
      /\ b.cd \subseteq {"Q", "W", "R"} /\ b.on \in BOOLEAN
  BY DEF Bot
<1>3. CASE s = "on"
  BY <1>2, <1>3 DEF Cast, Bot
<1>4. CASE s # "on" /\ (s \in b.cd \/ b.mp < Price(s))
  BY <1>4 DEF Cast
<1>5. CASE s # "on" /\ ~(s \in b.cd \/ b.mp < Price(s))
  <2>1. Price(s) \in Nat
    BY DuelNumbers DEF Price
  <2>2. b.mp - Price(s) \in 0 .. MaxMana
    BY <1>2, <1>5, <2>1, DuelNumbers
  <2>3. b.cd \cup {s} \subseteq {"Q", "W", "R"}
    BY <1>2, <1>5 DEF Slot
  <2>4. Cast(b, s) = [b EXCEPT !.mp = b.mp - Price(s), !.cd = b.cd \cup {s}]
    BY <1>5 DEF Cast
  <2> DEFINE mp == b.mp - Price(s)
             cd == b.cd \cup {s}
  <2>5. Cast(b, s) = [b EXCEPT !.mp = mp, !.cd = cd]
    BY <2>4
  <2> HIDE DEF mp, cd
  <2>6. mp \in 0 .. MaxMana /\ cd \in SUBSET {"Q", "W", "R"}
    BY <2>2, <2>3 DEF mp, cd
  <2> QED
    BY <2>5, <2>6 DEF Bot
<1> QED
  BY <1>3, <1>4, <1>5

\* What becomes of the bot in the part of a tick that casts.
LEMMA CastKitTypes ==
    ASSUME NEW b \in Bot, NEW near \in BOOLEAN
    PROVE  CastKit(b, near, TRUE) \in Bot
<1>1. CASE \E j \in DOMAIN RulesOf(b.kit) : Spurred(RulesOf(b.kit)[j], b, near, TRUE)
  <2>1. PICK i \in DOMAIN RulesOf(b.kit) : CastKit(b, near, TRUE) = Cast(b, RulesOf(b.kit)[i].slot)
    BY <1>1, FirstDue
  <2>2. RulesOf(b.kit)[i].slot \in Slot
    <3>1. RulesOf(b.kit) \in Seq(Rule)
      BY RulesAreRules DEF Bot
    <3>2. RulesOf(b.kit)[i] \in Rule
      BY <3>1
    <3> QED
      BY <3>2 DEF Rule
  <2> QED
    BY <2>1, <2>2, CastTypes
<1>2. CASE ~ \E j \in DOMAIN RulesOf(b.kit) : Spurred(RulesOf(b.kit)[j], b, near, TRUE)
  <2>1. FirstRule(b, near, TRUE) = <<>>
    BY <1>2 DEF FirstRule
  <2> QED
    BY <2>1 DEF CastKit
<1> QED
  BY <1>1, <1>2

LEMMA RLCastTypes ==
    ASSUME NEW b \in Bot, NEW wants \in SUBSET {"Q", "W", "R"}
    PROVE  RLCast(b, wants) \in Bot
<1> DEFINE q == IF "Q" \in wants THEN Cast(b, "Q") ELSE b
           w == IF "W" \in wants /\ b.kit = "Unicorn" THEN Cast(q, "on") ELSE q
<1>1. q \in Bot
  BY CastTypes DEF Slot
<1> HIDE DEF q
<1>2. w \in Bot
  BY <1>1, CastTypes DEF Slot
<1> HIDE DEF w
<1>3. IF "R" \in wants THEN Cast(w, "R") \in Bot ELSE w \in Bot
  BY <1>2, CastTypes DEF Slot
<1>4. RLCast(b, wants) = IF "R" \in wants THEN Cast(w, "R") ELSE w
  BY DEF RLCast, w, q
<1> QED
  BY <1>3, <1>4

\* A rule with a cooldown that would be cast now: something is cast, or the switch goes on.
LEMMA OpenCasts ==
    ASSUME NEW b \in Bot, NEW near \in BOOLEAN, Open(b, near), ~Dearer(b.kit),
           CastKit(b, near, TRUE).cd = b.cd
    PROVE  ~b.on /\ CastKit(b, near, TRUE).on
<1> DEFINE R == RulesOf(b.kit)
<1>1. PICK j \in DOMAIN R : R[j].slot # "on" /\ b.mp >= Price(R[j].slot) /\ Spurred(R[j], b, near, TRUE)
  BY DEF Open
<1>2. PICK i \in DOMAIN R : /\ i <= j /\ Spurred(R[i], b, near, TRUE)
                            /\ CastKit(b, near, TRUE) = Cast(b, R[i].slot)
  BY <1>1, FirstDue
<1>3. R \in Seq(Rule) /\ R[i] \in Rule /\ R[j] \in Rule /\ i \in Nat /\ j \in Nat
  <2>1. R \in Seq(Rule)
    BY RulesAreRules DEF Bot
  <2> QED
    BY <2>1
<1>4. R[i].slot \in Slot /\ R[j].slot \in Slot /\ b.mp \in Nat
  BY <1>3, DuelNumbers DEF Rule, Bot
<1>5. ~(R[i].slot = "R" /\ R[j].slot # "R")
  BY <1>2, <1>3 DEF Dearer
<1> HIDE DEF R
<1>6. CASE R[i].slot # "on"
  <2>1. b.mp >= Price(R[i].slot)
    BY <1>1, <1>4, <1>5, <1>6, DuelNumbers DEF Price
  <2>2. R[i].slot \notin b.cd
    BY <1>2, <1>6 DEF Spurred
  <2>3. Price(R[i].slot) \in Nat
    BY DuelNumbers DEF Price
  <2>4. Cast(b, R[i].slot) = [b EXCEPT !.mp = b.mp - Price(R[i].slot), !.cd = b.cd \cup {R[i].slot}]
    BY <1>4, <1>6, <2>1, <2>2, <2>3 DEF Cast
  <2>5. Cast(b, R[i].slot).cd = b.cd \cup {R[i].slot}
    BY <2>4 DEF Bot
  <2> QED
    BY <1>2, <2>2, <2>5
<1>7. CASE R[i].slot = "on"
  <2>1. ~b.on
    BY <1>2, <1>7 DEF Spurred
  <2>2. b.mp > 0
    BY <1>1, <1>4, DuelNumbers DEF Price
  <2>3. Cast(b, "on") = [b EXCEPT !.on = ~b.on]
    BY <2>2 DEF Cast
  <2>4. Cast(b, "on").on <=> ~b.on
    BY <2>3 DEF Bot
  <2> QED
    BY <1>2, <1>7, <2>1, <2>4
<1> QED
  BY <1>6, <1>7

LEMMA ExchangeTypes ==
    ASSUME NEW p \in BOOLEAN, NEW b \in Bot, NEW near \in BOOLEAN, NEW s \in Exchange(p, b, near)
    PROVE  s.p \in BOOLEAN /\ s.b \in Bot /\ s.b.kit = b.kit /\ s.b.on = b.on
<1>1. [b EXCEPT !.hp = Down(b.hp, 1)] \in Bot
  BY DEF Down, Bot, Unscathed
<1>2. CASE ~near \/ ~p \/ b.hp = 0
  BY <1>2 DEF Exchange
<1>3. CASE ~(~near \/ ~p \/ b.hp = 0)
  <2>1. PICK kills \in BOOLEAN, struck \in {b, [b EXCEPT !.hp = Down(b.hp, 1)]} :
            s = [p |-> ~kills, b |-> struck]
    BY <1>3 DEF Exchange
  <2>2. s.b = struck /\ s.p = ~kills
    BY <2>1
  <2>3. struck \in Bot /\ struck.kit = b.kit /\ struck.on = b.on
    BY <2>1, <1>1 DEF Bot
  <2> QED
    BY <2>2, <2>3
<1> QED
  BY <1>2, <1>3

LEMMA RestedTypes ==
    ASSUME NEW b \in Bot, NEW r \in Rested(b)
    PROVE  r \in Bot /\ r.kit = b.kit /\ (b.on /\ r.mp > 0 => r.on)
<1> DEFINE mps == IF b.hp = 0 THEN {b.mp}
                  ELSE {b.mp, IF b.on THEN Down(b.mp, 1) ELSE IF b.mp < MaxMana THEN b.mp + 1 ELSE b.mp}
<1>9. \A mp \in mps : mp \in {b.mp, Down(b.mp, 1)} \/ (b.mp < MaxMana /\ mp = b.mp + 1)
  OBVIOUS
<1>1. PICK cd \in SUBSET b.cd, mp \in mps : r = RestedTo(b, cd, mp)
  BY DEF Rested
<1> HIDE DEF mps
<1>2. b.mp \in 0 .. MaxMana /\ b.on \in BOOLEAN /\ b.cd \subseteq {"Q", "W", "R"}
  BY DEF Bot
<1>3. mp \in 0 .. MaxMana
  BY <1>1, <1>2, <1>9, DuelNumbers DEF Down
<1> DEFINE on == b.on /\ mp > 0
<1>4. on \in BOOLEAN
  OBVIOUS
<1>5. r = [b EXCEPT !.cd = cd, !.mp = mp, !.on = on]
  BY <1>1 DEF RestedTo
<1>6. b.on /\ mp > 0 => on
  OBVIOUS
<1>7. cd \subseteq {"Q", "W", "R"}
  BY <1>1, <1>2
<1> HIDE DEF on
<1>8. r \in Bot /\ r.kit = b.kit /\ r.mp = mp /\ r.on = on
  BY <1>3, <1>4, <1>5, <1>7 DEF Bot
<1> QED
  BY <1>6, <1>8

LEMMA EffectsTypes ==
    ASSUME NEW p \in BOOLEAN, NEW b \in Bot, NEW e \in Effects([p |-> p, b |-> b])
    PROVE  e.p \in BOOLEAN /\ e.b \in Bot /\ e.b.kit = b.kit /\ e.b.on = b.on
<1> DEFINE hps == {b.hp, Down(b.hp, 1)} \cup (IF b.hp \in 1 .. Scratched THEN {b.hp + 1} ELSE {})
<1>1. PICK pdies \in BOOLEAN, n \in hps : e = [p |-> p /\ ~pdies, b |-> [b EXCEPT !.hp = n]]
  BY DEF Effects
<1>2. hps \subseteq 0 .. Unscathed
  BY DEF Bot, Down, Unscathed, Scratched
<1> HIDE DEF hps
<1>3. n \in 0 .. Unscathed
  BY <1>2
<1>4. e.b = [b EXCEPT !.hp = n] /\ (e.p <=> p /\ ~pdies) /\ e.p \in BOOLEAN
  BY <1>1
<1> QED
  BY <1>3, <1>4 DEF Bot

LEMMA DuelTickIInv == ASSUME DuelIInv, DuelTick PROVE DuelIInv'
<1> DEFINE Step(near, able, wants, s, b) ==
               /\ passed' = IF PassedOver(b, s.p, able, near, Chosen(b, s.p, able, near, wants))
                            THEN IF passed < 2 THEN passed + 1 ELSE 2 ELSE 0
               /\ \E e \in Effects([p |-> s.p, b |-> Chosen(b, s.p, able, near, wants)]) :
                    player' = e.p /\ bot' = e.b /\ verdict' = Judged(e.p, e.b)
<1>1. PICK near \in BOOLEAN, able \in BOOLEAN,
           wants \in IF ByPolicy(bot.kit) THEN SUBSET {"Q", "W", "R"} ELSE {{}} :
               \E s \in Exchange(player, bot, near) : \E b \in Rested(s.b) : Step(near, able, wants, s, b)
  BY DEF DuelTick
<1>2. PICK s \in Exchange(player, bot, near) : \E b \in Rested(s.b) : Step(near, able, wants, s, b)
  BY <1>1
<1>3. PICK rested \in Rested(s.b) : Step(near, able, wants, s, rested)
  BY <1>2
<1> DEFINE chosen == Chosen(rested, s.p, able, near, wants)
           counted == PassedOver(rested, s.p, able, near, chosen)
<1>14. PICK e \in Effects([p |-> s.p, b |-> chosen]) :
          player' = e.p /\ bot' = e.b /\ verdict' = Judged(e.p, e.b)
  BY <1>3
<1>15. passed' = IF counted THEN IF passed < 2 THEN passed + 1 ELSE 2 ELSE 0
  BY <1>3
<1>4. player \in BOOLEAN /\ bot \in Bot /\ passed \in 0 .. 2
  BY DEF DuelIInv, DuelTypeOK, Bot
<1>5. s.p \in BOOLEAN /\ s.b \in Bot /\ s.b.kit = bot.kit /\ s.b.on = bot.on
  BY <1>4, ExchangeTypes
<1>6. rested \in Bot /\ rested.kit = bot.kit /\ (bot.on /\ rested.mp > 0 => rested.on)
  BY <1>5, RestedTypes
<1>7. wants \in SUBSET {"Q", "W", "R"}
  BY <1>1
<1>8. chosen \in Bot
  BY <1>6, <1>7, RLCastTypes, CastKitTypes DEF Chosen
<1>9. chosen.kit = bot.kit
  <2>1. \A b \in Bot : CastKit(b, near, TRUE).kit = b.kit
    BY DEF CastKit, Cast, Bot
  <2>2. \A b \in Bot : RLCast(b, wants).kit = b.kit
    BY DEF RLCast, Cast, Bot
  <2> QED
    BY <1>6, <2>1, <2>2 DEF Chosen
<1>10. counted /\ ~ByPolicy(bot.kit) /\ ~Dearer(bot.kit) => ~rested.on /\ chosen.on /\ rested.mp > 0
  <2> SUFFICES ASSUME counted, ~ByPolicy(bot.kit), ~Dearer(bot.kit)
               PROVE  ~rested.on /\ chosen.on /\ rested.mp > 0
    OBVIOUS
  <2>1. chosen = CastKit(rested, near, TRUE)
    <3>1. able /\ s.p /\ rested.hp > 0
      BY DEF PassedOver
    <3>2. ~ByPolicy(rested.kit) /\ rested.hp # 0
      BY <1>6, <3>1
    <3> QED
      BY <3>1, <3>2 DEF Chosen
  <2>2. rested.mp > 0
    <3>1. PICK j \in DOMAIN RulesOf(rested.kit) : rested.mp >= Price(RulesOf(rested.kit)[j].slot)
      BY DEF Open, PassedOver
    <3>2. Price(RulesOf(rested.kit)[j].slot) \in Nat \ {0} /\ rested.mp \in Nat
      BY <1>6, DuelNumbers DEF Price, Bot
    <3> QED
      BY <3>1, <3>2
  <2> QED
    BY <1>6, <2>1, <2>2, OpenCasts DEF PassedOver
<1> HIDE DEF chosen, counted
<1>11. e.p \in BOOLEAN /\ e.b \in Bot /\ e.b.kit = chosen.kit /\ e.b.on = chosen.on
  BY <1>14, <1>5, <1>8, EffectsTypes
<1>12. DuelTypeOK'
  BY <1>14, <1>15, <1>4, <1>11 DEF DuelTypeOK, Judged, Bot
<1>13. ByPolicy(bot'.kit) \/ Dearer(bot'.kit) \/ passed' = 0 \/ (passed' = 1 /\ bot'.on)
  <2> SUFFICES ASSUME counted, ~ByPolicy(bot.kit), ~Dearer(bot.kit) PROVE passed' = 1 /\ bot'.on
    BY <1>14, <1>15, <1>9, <1>11
  <2>1. ~bot.on
    BY <1>6, <1>10
  <2>2. passed = 0
    BY <2>1 DEF DuelIInv
  <2> QED
    BY <1>14, <1>15, <1>10, <1>11, <2>2
<1>16. FirstBlood'
  BY <1>14, <1>11 DEF FirstBlood, Judged, Bot
<1> QED
  BY <1>12, <1>13, <1>16 DEF DuelIInv

\* The bot of a duel stays within its means, and with any prices and any of the heroes it never
\* passes an ability over twice running that its rules ask for and it can afford, unless a dearer
\* one is asked for first (bot_cast_kit_if_ready, the casts' mana tests, tick_hero_kit).
THEOREM BotKeepsUp == DuelSpec => []DuelInv
<1>1. DuelInit => DuelIInv
  <2> SUFFICES ASSUME DuelInit PROVE DuelIInv
    OBVIOUS
  <2>1. MaxMana \in 0 .. MaxMana /\ Unscathed \in 0 .. Unscathed /\ {} \in SUBSET {"Q", "W", "R"}
    BY DuelNumbers DEF Unscathed
  <2>2. bot \in Bot
    BY <2>1 DEF DuelInit, Bot
  <2> QED
    BY <2>2 DEF DuelInit, DuelIInv, DuelTypeOK, FirstBlood, Bot
<1>2. DuelIInv /\ [DuelNext]_duelVars => DuelIInv'
  <2> SUFFICES ASSUME DuelIInv, [DuelNext]_duelVars PROVE DuelIInv'
    OBVIOUS
  <2>1. CASE PlayerCasts
    <3>1. bot \in Bot
      BY DEF DuelIInv, DuelTypeOK, Bot
    <3>2. bot' = [bot EXCEPT !.hp = Down(bot.hp, 1)] /\ UNCHANGED <<player, verdict, passed>>
      BY <2>1 DEF PlayerCasts
    <3>3. Down(bot.hp, 1) \in 0 .. Unscathed
      BY <3>1 DEF Bot, Down, Unscathed
    <3>4. bot' \in Bot /\ bot'.kit = bot.kit /\ bot'.on = bot.on
      BY <3>1, <3>2, <3>3 DEF Bot
    <3> QED
      BY <2>1, <3>2, <3>4 DEF DuelIInv, DuelTypeOK, FirstBlood, PlayerCasts, Bot
  <2>2. CASE UNCHANGED duelVars
    BY <2>2 DEF duelVars, DuelIInv, DuelTypeOK, FirstBlood
  <2> QED
    BY <2>1, <2>2, DuelTickIInv DEF DuelNext, Decided
<1>3. DuelIInv => DuelInv
  BY DEF DuelIInv, DuelInv, BotUsesItsKit
<1> QED
  BY <1>1, <1>2, <1>3, PTL DEF DuelSpec

\* To the server a duel is what MatchOutcome says of a match without a limit: undecided for
\* as long as it likes, then decided once and for all (arena_update).
THEOREM DuelKeepsItsWord == DuelSpec => DuelDecidedOnce
<1>1. DuelInit => Fight!Init
  BY DEF DuelInit, Fight!Init
<1>2. DuelTick => verdict = 0 /\ verdict' \in {0, 1, 2}
  BY DEF DuelTick, Judged
<1>3. [DuelNext]_duelVars => [Fight!Tick]_<<verdict, 0>>
  BY <1>2 DEF DuelNext, PlayerCasts, Decided, duelVars, Fight!Tick
<1> QED
  BY <1>1, <1>3, PTL DEF DuelSpec, DuelDecidedOnce, Fight!Spec

-----------------------------------------------------------------------------
(* The client.                                                             *)

Owner == Players \union {NoOwner}
Worlds == [type : {"world"}, phase : {"waiting", "draft", "live", "over"}, winner : {0, 1}]
Slices == [type : {"clones"}, clones : [CloneSlots -> Owner]]

\* What is under way says nothing of the match that is not so, and of no other match.
TrueSnapshots ==
    \A m \in down : m.type = "world" /\ m.winner # 0 => matchPhase = "over"

ClientIInv ==
    /\ ClientTypeOK
    /\ IsFiniteSet(up) /\ IsFiniteSet(down) /\ down \subseteq Worlds \union Slices
    /\ clones \in [CloneSlots -> Owner] /\ shownClones \in [CloneSlots -> Owner]
    /\ had \subseteq CloneSlots
    /\ TrueSnapshots /\ OverIsOver
    /\ \A u \in ordered : u = mySeat \/ (u \in CloneSlots /\ clones[u] = mySeat)
    /\ \A c \in CloneSlots : shownClones[c] = my_owner => c \in had
    /\ SelectionOfThisMatch

LEMMA ClientInitIInv == ClientInit => ClientIInv
<1> SUFFICES ASSUME ClientInit PROVE ClientIInv
  OBVIOUS
<1>1. IsFiniteSet({}) /\ Cardinality({}) = 0
  BY FS_EmptySet
<1>2. ClientTypeOK
  BY <1>1, ClientAssumption DEF ClientInit, ClientTypeOK, Players
<1> QED
  BY <1>1, <1>2 DEF ClientInit, ClientIInv, TrueSnapshots, OverIsOver, SelectionOfThisMatch,
                    NoClones, Owner, Players, NoOwner

\* Sending a few datagrams keeps what is under way finite and within its bound.
LEMMA SendAllBounds ==
    ASSUME NEW ms, IsFiniteSet(ms), IsFiniteSet(up), SendAll(ms)
    PROVE  IsFiniteSet(up') /\ Cardinality(up') <= MaxUp
<1>1. PICK arrive \in SUBSET ms : up' = up \union arrive
  BY DEF SendAll
<1>2. IsFiniteSet(arrive)
  BY FS_Subset
<1> QED
  BY <1>1, <1>2, FS_Union DEF SendAll

\* One datagram less is never more.
LEMMA OneLess ==
    ASSUME NEW S, IsFiniteSet(S), NEW m \in S, NEW n \in Nat, Cardinality(S) <= n
    PROVE  IsFiniteSet(S \ {m}) /\ Cardinality(S \ {m}) <= n
<1>1. IsFiniteSet(S \ {m}) /\ Cardinality(S \ {m}) = Cardinality(S) - 1
  BY FS_RemoveElement
<1>2. Cardinality(S) \in Nat
  BY FS_CardinalityType
<1> QED
  BY <1>1, <1>2

LEMMA OrdersFinite ==
    ASSUME ClientIInv PROVE IsFiniteSet({[type |-> "order", unit |-> u] : u \in selected_or_self})
<1> DEFINE S == selected_or_self
           T == {[type |-> "order", unit |-> u] : u \in S}
           f == [u \in S |-> [type |-> "order", unit |-> u]]
<1>1. IsFiniteSet({my_owner} \union CloneSlots)
  BY ClientAssumption, FS_Singleton, FS_Union
<1>2. S \subseteq {my_owner} \union CloneSlots
  BY DEF selected_or_self, ClientIInv, ClientTypeOK
<1>3. IsFiniteSet(S)
  BY <1>1, <1>2, FS_Subset
<1> HIDE DEF S
<1>4. f \in [S -> T] /\ \A t \in T : \E u \in S : f[u] = t
  OBVIOUS
<1>5. f \in Surjection(S, T)
  BY <1>4 DEF Surjection
<1> HIDE DEF T, f
<1>6. IsFiniteSet(T)
  BY <1>3, <1>5, FS_Surjection
<1> QED
  BY <1>6 DEF T, S

\* What a step that only sends leaves to be shown.
LEMMA OnlySends ==
    ASSUME ClientIInv, NEW ms, IsFiniteSet(ms), SendAll(ms),
           UNCHANGED <<serverVars, my_owner, net_phase, shownWinner, shownClones, selected, had, down>>,
           net_picked' => net_phase = "draft"
    PROVE  ClientIInv'
<1>1. IsFiniteSet(up') /\ Cardinality(up') <= MaxUp
  BY SendAllBounds DEF ClientIInv
<1> QED
  BY <1>1 DEF ClientIInv, ClientTypeOK, TrueSnapshots, OverIsOver, SelectionOfThisMatch, serverVars

LEMMA SingleFinite == ASSUME NEW x PROVE IsFiniteSet({x})
BY FS_Singleton

LEMMA ServerStepIInv ==
    ASSUME ClientIInv,
           \/ MatchMoves \/ server_broadcast
           \/ \E c \in CloneSlots : CloneGoes(c) \/ \E o \in Players : CloneComes(c, o)
           \/ \E m \in up : ServerReads(m)
    PROVE  ClientIInv'
<1> USE DEF ClientIInv
<1>1. CASE MatchMoves
  <2>1. /\ matchPhase' \in {"draft", "live", "over"} /\ matchPhase # "over"
        /\ UNCHANGED <<mySeat, seatPicked, clones, ordered, screenVars, up, down>>
    BY <1>1 DEF MatchMoves
  <2> QED
    BY <2>1 DEF ClientTypeOK, TrueSnapshots, OverIsOver, SelectionOfThisMatch, screenVars
<1>2. CASE server_broadcast
  <2>1. PICK m \in {World, CloneSlice} : down' = down \union {m}
    BY <1>2 DEF server_broadcast
  <2>2. m \in Worlds \union Slices /\ (m.type = "world" /\ m.winner # 0 => matchPhase = "over")
    <3>1. World \in Worlds /\ (World.winner # 0 => matchPhase = "over")
      BY <1>2 DEF server_broadcast, World, Worlds, ClientTypeOK
    <3>2. CloneSlice \in Slices /\ CloneSlice.type # "world"
      BY DEF CloneSlice, Slices
    <3> QED
      BY <3>1, <3>2
  <2>3. IsFiniteSet(down') /\ Cardinality(down') <= MaxDown
    BY <1>2, <2>1, FS_AddElement DEF server_broadcast
  <2>4. UNCHANGED <<serverVars, screenVars, up>>
    BY <1>2 DEF server_broadcast
  <2> QED
    BY <2>1, <2>2, <2>3, <2>4 DEF ClientTypeOK, TrueSnapshots, OverIsOver, SelectionOfThisMatch,
                                  serverVars, screenVars
<1>3. ASSUME NEW c \in CloneSlots, NEW o \in Players, CloneComes(c, o) PROVE ClientIInv'
  <2>1. /\ clones[c] = NoOwner /\ clones' = [clones EXCEPT ![c] = o]
        /\ UNCHANGED <<matchPhase, mySeat, seatPicked, ordered, screenVars, up, down>>
    BY <1>3 DEF CloneComes
  <2>2. clones' \in [CloneSlots -> Owner]
    BY <2>1 DEF Owner
  <2>3. \A u \in ordered' : u = mySeat' \/ (u \in CloneSlots /\ clones'[u] = mySeat')
    BY <2>1 DEF NoOwner, ClientTypeOK, Players
  <2> QED
    BY <2>1, <2>2, <2>3 DEF ClientTypeOK, TrueSnapshots, OverIsOver, SelectionOfThisMatch, screenVars
<1>4. ASSUME NEW c \in CloneSlots, CloneGoes(c) PROVE ClientIInv'
  <2>1. /\ clones' = [clones EXCEPT ![c] = NoOwner] /\ ordered' = ordered \ {c}
        /\ UNCHANGED <<matchPhase, mySeat, seatPicked, screenVars, up, down>>
    BY <1>4 DEF CloneGoes
  <2>2. clones' \in [CloneSlots -> Owner]
    BY <2>1 DEF Owner
  <2>3. \A u \in ordered' : u = mySeat' \/ (u \in CloneSlots /\ clones'[u] = mySeat')
    BY <2>1
  <2> QED
    BY <2>1, <2>2, <2>3 DEF ClientTypeOK, TrueSnapshots, OverIsOver, SelectionOfThisMatch, screenVars
<1>5. ASSUME NEW m \in up, ServerReads(m) PROVE ClientIInv'
  <2>1. /\ up' = up \ {m}
        /\ \A u \in ordered' : u \in ordered \/ arena_owner_controls(mySeat, u)
        /\ UNCHANGED <<matchPhase, mySeat, clones, screenVars, down>>
    BY <1>5 DEF ServerReads
  <2>2. IsFiniteSet(up') /\ Cardinality(up') <= MaxUp
    BY <2>1, OneLess, ClientAssumption DEF ClientTypeOK
  <2>3. \A u \in ordered' : u = mySeat' \/ (u \in CloneSlots /\ clones'[u] = mySeat')
    BY <2>1 DEF arena_owner_controls
  <2> QED
    BY <2>1, <2>2, <2>3 DEF ClientTypeOK, TrueSnapshots, OverIsOver, SelectionOfThisMatch, screenVars
<1> QED
  BY <1>1, <1>2, <1>3, <1>4, <1>5

LEMMA PlayerStepIInv ==
    ASSUME ClientIInv,
           \/ Command \/ BoxSelect \/ Resend \/ Drafts
           \/ \E k \in Keys, aimed \in BOOLEAN : Press(k, aimed)
           \/ \E onHero \in BOOLEAN : Confirm(onHero)
    PROVE  ClientIInv'
<1>1. CASE Command
  <2> DEFINE ms == {[type |-> "order", unit |-> u] : u \in selected_or_self}
  <2>1. IsFiniteSet(ms)
    BY OrdersFinite
  <2>2. /\ SendAll(ms)
        /\ UNCHANGED <<serverVars, my_owner, net_phase, net_picked, shownWinner, shownClones, selected,
                       had, down>>
    BY <1>1 DEF Command, screenVars
  <2>3. net_picked' => net_phase = "draft"
    BY <2>2 DEF ClientIInv, ClientTypeOK
  <2> HIDE DEF ms
  <2> QED
    BY <2>1, <2>2, <2>3, OnlySends
<1>2. CASE BoxSelect
  <2>1. /\ selected' \subseteq {my_owner} \union {c \in CloneSlots : shownClones[c] = my_owner}
        /\ UNCHANGED <<serverVars, my_owner, net_phase, net_picked, shownWinner, shownClones, aiming,
                       had, up, down>>
    BY <1>2 DEF BoxSelect
  <2> QED
    BY <2>1 DEF ClientIInv, ClientTypeOK, TrueSnapshots, OverIsOver, SelectionOfThisMatch, serverVars
<1>3. CASE Resend
  <2>1. IsFiniteSet({[type |-> "pick"]})
    BY SingleFinite
  <2> QED
    BY <1>3, <2>1, OnlySends DEF Resend, screenVars
<1>4. CASE Drafts
  <2>1. IsFiniteSet({[type |-> "pick"]})
    BY SingleFinite
  <2> QED
    BY <1>4, <2>1, OnlySends DEF Drafts
<1>5. ASSUME NEW k \in Keys, NEW aimed \in BOOLEAN, Press(k, aimed) PROVE ClientIInv'
  <2>1. CASE UNCHANGED up
    BY <1>5, <2>1 DEF Press, ClientIInv, ClientTypeOK, TrueSnapshots, OverIsOver, SelectionOfThisMatch,
                      serverVars
  <2>2. CASE SendAll({[type |-> "cast", slot |-> k, pressed |-> k]})
    <3>1. IsFiniteSet({[type |-> "cast", slot |-> k, pressed |-> k]})
      BY SingleFinite
    <3> QED
      BY <1>5, <2>2, <3>1, OnlySends DEF Press, ClientIInv, ClientTypeOK
  <2> QED
    BY <1>5, <2>1, <2>2 DEF Press
<1>6. ASSUME NEW onHero \in BOOLEAN, Confirm(onHero) PROVE ClientIInv'
  <2>1. CASE UNCHANGED up
    BY <1>6, <2>1 DEF Confirm, ClientIInv, ClientTypeOK, TrueSnapshots, OverIsOver, SelectionOfThisMatch,
                      serverVars
  <2>2. CASE SendAll({[type |-> "cast", slot |-> 0, pressed |-> 1]})
    <3>1. IsFiniteSet({[type |-> "cast", slot |-> 0, pressed |-> 1]})
      BY SingleFinite
    <3> QED
      BY <1>6, <2>2, <3>1, OnlySends DEF Confirm, ClientIInv, ClientTypeOK
  <2> QED
    BY <1>6, <2>1, <2>2 DEF Confirm
<1> QED
  BY <1>1, <1>2, <1>3, <1>4, <1>5, <1>6

LEMMA ScreenStepIInv ==
    ASSUME ClientIInv, SnapshotLost \/ Requeue \/ \E m \in down : net_poll_snapshots(m)
    PROVE  ClientIInv'
<1> USE DEF ClientIInv
<1>1. CASE SnapshotLost
  <2>1. PICK m \in down : down' = down \ {m}
    BY <1>1 DEF SnapshotLost
  <2>2. IsFiniteSet(down') /\ Cardinality(down') <= MaxDown
    BY <2>1, OneLess, ClientAssumption DEF ClientTypeOK
  <2> QED
    BY <1>1, <2>1, <2>2 DEF SnapshotLost, ClientTypeOK, TrueSnapshots, OverIsOver, SelectionOfThisMatch,
                            serverVars, screenVars
<1>2. CASE Requeue
  <2>1. /\ down' = {} /\ up' = {} /\ net_picked' = FALSE /\ shownWinner' = 0 /\ shownClones' = NoClones
        /\ selected' = {} /\ had' = {} /\ clones' = NoClones /\ ordered' = {}
        /\ my_owner' \in Players /\ mySeat' \in Players /\ matchPhase' \in {"none", "waiting"}
    BY <1>2 DEF Requeue, FreshSocket, Deselects, Opens, ClientTypeOK
  <2>2. IsFiniteSet({}) /\ Cardinality({}) = 0
    BY FS_EmptySet
  <2>3. NoClones \in [CloneSlots -> Owner] /\ \A c \in CloneSlots : NoClones[c] # my_owner'
    BY <2>1 DEF NoClones, Owner, NoOwner, Players
  <2> QED
    BY <2>1, <2>2, <2>3, ClientAssumption DEF ClientTypeOK, TrueSnapshots, OverIsOver,
                                              SelectionOfThisMatch
<1>3. ASSUME NEW m \in down, net_poll_snapshots(m) PROVE ClientIInv'
  <2>1. /\ down' = down \ {m}
        /\ net_phase' = IF m.type = "world" THEN m.phase ELSE net_phase
        /\ shownWinner' = IF m.type = "world" THEN m.winner ELSE shownWinner
        /\ net_picked' = (net_picked /\ (m.type = "world" => m.phase = "draft"))
        /\ shownClones' = IF m.type = "clones" THEN m.clones ELSE shownClones
        /\ had' = had \union {c \in CloneSlots : shownClones'[c] = my_owner}
        /\ UNCHANGED <<serverVars, my_owner, selected, aiming, up>>
    BY <1>3 DEF net_poll_snapshots, StillPicked
  <2>2. IsFiniteSet(down') /\ Cardinality(down') <= MaxDown
    BY <2>1, OneLess, ClientAssumption DEF ClientTypeOK
  <2>3. shownClones' \in [CloneSlots -> Owner]
    BY <2>1 DEF Worlds, Slices
  <2>4. net_picked' => net_phase' = "draft"
    BY <2>1 DEF ClientTypeOK
  <2> QED
    BY <2>1, <2>2, <2>3, <2>4 DEF ClientTypeOK, TrueSnapshots, OverIsOver, SelectionOfThisMatch, serverVars
<1> QED
  BY <1>1, <1>2, <1>3

LEMMA ClientNextIInv == ClientIInv /\ [ClientNext]_clientVars => ClientIInv'
<1>1. ASSUME ClientIInv, UNCHANGED clientVars PROVE ClientIInv'
  BY <1>1 DEF clientVars, serverVars, screenVars, ClientIInv, ClientTypeOK, TrueSnapshots, OverIsOver,
              SelectionOfThisMatch
<1> QED
  BY <1>1, ServerStepIInv, PlayerStepIInv, ScreenStepIInv DEF ClientNext

\* Whatever the network loses or reorders and however clone slots change hands, the client's
\* picture is of the match it is in and its orders move its own units only
\* (net_poll_snapshots, arena_owner_controls, the OK button).
THEOREM ClientIsFaithful == ClientSpec => []ClientInv
<1>1. ClientIInv => ClientInv
  BY DEF ClientIInv, ClientInv, OwnUnitsObey
<1> QED
  BY <1>1, ClientInitIInv, ClientNextIInv, PTL DEF ClientSpec

-----------------------------------------------------------------------------
(* The card table.                                                         *)

LEMMA DivisionIsUnique ==
    ASSUME NEW n \in Nat, NEW k \in Nat \ {0}, NEW q \in Int, NEW r \in 0 .. k - 1, n = k * q + r
    PROVE  n % k = r
OBVIOUS

LEMMA Division == ASSUME NEW n \in Int, NEW k \in Int, k > 0 PROVE n = k * (n \div k) + (n % k)
BY SMTT(30)

\* The sequence number of the n-th card.
Tag(n) == n % SeqSpan

LEMMA Tags ==
    ASSUME NEW n \in Nat
    PROVE  /\ Tag(n) \in 0 .. SeqSpan - 1
           /\ n < SeqSpan => Tag(n) = n
           /\ n >= 1 /\ Tag(n) >= 1 => Tag(n - 1) < Tag(n)
<1> DEFINE k == SeqSpan
           q == n \div k
<1>1. k \in Nat \ {0} /\ q \in Int /\ n % k \in 0 .. k - 1
  BY CardTableAssumption
<1>2. n < k => n % k = n
  BY <1>1, DivisionIsUnique
<1>3. ASSUME n >= 1, n % k >= 1 PROVE (n - 1) % k < n % k
  <2>1. n = k * q + (n % k)
    BY <1>1, Division
  <2>2. n - 1 = k * q + ((n % k) - 1) /\ n - 1 \in Nat /\ (n % k) - 1 \in 0 .. k - 1
    BY <1>1, <1>3, <2>1
  <2>3. (n - 1) % k = (n % k) - 1
    BY <1>1, <2>2, DivisionIsUnique
  <2> QED
    BY <1>1, <2>3
<1> QED
  BY <1>1, <1>2, <1>3 DEF Tag

\* A datagram under way is one its sender did send, and not too long ago.
Sendable(m) ==
    /\ m.from \in Guests /\ m.type \in {"connect", "card"}
    /\ m.serial \in Nat /\ m.serial <= sent[m.from] /\ sent[m.from] - m.serial <= Window
    /\ m.sequence = Tag(m.serial)

\* What was applied for a seat: cards its guest sent, by ascending sequence up to the last one seen.
Ascending(i) ==
    /\ seat[i] = Nobody => applied[i] = <<>>
    /\ \A j \in 1 .. Len(applied[i]) : /\ applied[i][j] <= sent[seat[i]]
                                       /\ Tag(applied[i][j]) <= lastSeq[i]
    /\ \A j, k \in 1 .. Len(applied[i]) : j < k => Tag(applied[i][j]) < Tag(applied[i][k])
    /\ applied[i] # <<>> => /\ lastSeq[i] >= 1
                            /\ lastSeq[i] = Tag(applied[i][Len(applied[i])])

TableIInv ==
    /\ sent \in [Guests -> Int] /\ \A g \in Guests : sent[g] \in -1 .. Deck[g]
    /\ \A m \in wire : Sendable(m)
    /\ TableTypeOK /\ decided \in BOOLEAN /\ applied \in [SeatNumbers -> Seq(Nat)]
    /\ \A i \in SeatNumbers : Ascending(i)
    /\ OneSeatEach /\ welcomes \subseteq Guests \X SeatNumbers
    /\ ReportedOnce

\* A card is not passed on twice, even when the sequence numbers have wrapped.
NoCardTwice ==
    \A i \in SeatNumbers : \A j, k \in 1 .. Len(applied[i]) : applied[i][j] = applied[i][k] => j = k

\* When order is promised: before the numbers wrap, or on a wire that overtakes one by one.
OrderPromised == Window <= 1 \/ \A g \in Guests : Deck[g] < SeqSpan

LEMMA TableNumbers ==
    /\ Seats \in Nat \ {0} /\ SeqSpan \in Nat \ {0} /\ MaxLate \in Nat \ {0}
    /\ Window \in 0 .. SeqSpan - 1 /\ Deck \in [Guests -> Nat] /\ Nobody \notin Guests
BY CardTableAssumption

LEMMA TableInitIInv == TableInit => TableIInv /\ InOrderOnce
<1> SUFFICES ASSUME TableInit PROVE TableIInv /\ InOrderOnce
  OBVIOUS
<1>1. TableTypeOK /\ ReportedOnce /\ decided \in BOOLEAN
  <2>1. seat \in [SeatNumbers -> Guests \cup {Nobody}]
    BY DEF TableInit
  <2>2. 0 \in 0 .. SeqSpan - 1 /\ 0 \in 0 .. MaxLate
    BY TableNumbers
  <2>3. lastSeq \in [SeatNumbers -> 0 .. SeqSpan - 1] /\ late \in 0 .. MaxLate
    BY <2>2 DEF TableInit
  <2> QED
    BY <2>1, <2>3 DEF TableInit, TableTypeOK, ReportedOnce
<1>6. OneSeatEach
  BY CardTableAssumption DEF TableInit, OneSeatEach
<1>2. sent \in [Guests -> Int] /\ \A g \in Guests : sent[g] \in -1 .. Deck[g]
  BY CardTableAssumption DEF TableInit
<1>3. \A i \in SeatNumbers : applied[i] = <<>> /\ Len(applied[i]) = 0
  BY DEF TableInit
<1>4. applied \in [SeatNumbers -> Seq(Nat)]
  BY DEF TableInit
<1>5. InOrderOnce /\ \A i \in SeatNumbers : Ascending(i)
  BY <1>3 DEF InOrderOnce, Ascending
<1> QED
  BY <1>1, <1>2, <1>4, <1>5, <1>6 DEF TableIInv, TableInit

LEMMA LowestFreeSeat ==
    ASSUME FreeSeats # {} PROVE Min(FreeSeats) \in FreeSeats
<1> DEFINE R == OpToRel(<, Nat)
<1>1. FreeSeats \subseteq Nat
  BY CardTableAssumption DEF FreeSeats, SeatNumbers
<1>2. \A x, y \in Nat : x < y => <<x, y>> \in R
  BY DEF OpToRel
<1>3. IsWellFoundedOn(R, Nat)
  BY NatLessThanWellFounded
<1> HIDE DEF R
<1>4. PICK x \in FreeSeats : \A y \in FreeSeats : ~(<<y, x>> \in R)
  BY <1>1, <1>3, WFMin
<1>5. ASSUME NEW y \in FreeSeats PROVE x <= y
  <2>1. x \in Nat /\ y \in Nat /\ ~(<<y, x>> \in R)
    BY <1>1, <1>4
  <2>2. ~(y < x)
    BY <1>2, <2>1
  <2> QED
    BY <2>1, <2>2
<1> QED
  BY <1>5 DEF Min

LEMMA GuestsSendIInv ==
    ASSUME TableIInv, NEW g \in Guests, send_connect_with_ticket(g) \/ send_card(g)
    PROVE  TableIInv'
<1> DEFINE n == sent[g] + 1
<1>1. /\ n \in 0 .. Deck[g] /\ sent' = [sent EXCEPT ![g] = n]
      /\ UNCHANGED <<seat, lastSeq, welcomes, applied, decided, logged, reports, late>>
  BY CardTableAssumption DEF send_connect_with_ticket, send_card, TableIInv
<1>2. PICK t \in {"connect", "card"} :
          \A m \in wire' : (m \in wire /\ (m.from # g \/ n - m.serial <= Window)) \/ m = Datagram(g, t, n)
  <2>1. CASE send_connect_with_ticket(g)
    <3>1. wire' = wire \cup {Datagram(g, "connect", n)} /\ sent[g] = -1
      BY <2>1 DEF send_connect_with_ticket
    <3>2. \A m \in wire : m.from # g
      BY <3>1 DEF TableIInv, Sendable
    <3> QED
      BY <3>1, <3>2
  <2>2. CASE send_card(g)
    <3>1. wire' = Fresh(g, n) \cup {Datagram(g, "card", n)}
      BY <2>2, <1>1 DEF send_card, TableIInv
    <3> QED
      BY <3>1 DEF Fresh
  <2> QED
    BY <2>1, <2>2
<1>3. n \in Nat /\ Deck[g] \in Nat /\ sent[g] \in Int /\ sent[g] <= n /\ sent'[g] = n
  <2>1. Deck[g] \in Nat /\ sent[g] \in Int /\ sent \in [Guests -> Int]
    BY CardTableAssumption DEF TableIInv
  <2> QED
    BY <1>1, <2>1
<1>4. ASSUME NEW m \in wire' PROVE Sendable(m)'
  <2>1. CASE m \in wire /\ (m.from # g \/ n - m.serial <= Window)
    BY <1>1, <1>3, <2>1 DEF TableIInv, Sendable
  <2>2. CASE m = Datagram(g, t, n)
    BY <1>1, <1>3, <2>2, CardTableAssumption DEF Sendable, Datagram, Tag
  <2> QED
    BY <1>2, <2>1, <2>2
<1>5. ASSUME NEW i \in SeatNumbers PROVE Ascending(i)'
  <2>1. seat[i] = Nobody \/ (seat[i] \in Guests /\ sent'[seat[i]] >= sent[seat[i]])
    BY <1>1, <1>3 DEF TableIInv, TableTypeOK
  <2>2. \A j \in 1 .. Len(applied[i]) : applied[i][j] <= sent'[seat[i]]
    BY <1>1, <1>3, <2>1 DEF TableIInv, Ascending
  <2> QED
    BY <1>1, <2>2 DEF TableIInv, Ascending
<1>6. sent' \in [Guests -> Int] /\ \A h \in Guests : sent'[h] \in -1 .. Deck[h]
  BY <1>1, <1>3, CardTableAssumption DEF TableIInv
<1> QED
  BY <1>1, <1>4, <1>5, <1>6 DEF TableIInv, TableTypeOK, OneSeatEach, ReportedOnce

LEMMA ConnectedIInv ==
    ASSUME TableIInv, NEW m \in wire, Connected(m), wire' \subseteq wire,
           UNCHANGED <<sent, decided, logged, reports, late>>
    PROVE  TableIInv'
<1> DEFINE g == m.from
           i == Min(FreeSeats)
<1>1. /\ i \in SeatNumbers /\ seat[i] = Nobody /\ g \in Guests /\ g \notin Forgers
      /\ \A k \in SeatNumbers : seat[k] # g
  BY LowestFreeSeat DEF Connected, FreeSeats, Verified, SeatsOf, TableIInv, Sendable
<1> HIDE DEF i
<1>2. /\ seat' = [seat EXCEPT ![i] = g] /\ welcomes' = welcomes \cup {<<g, i>>}
      /\ UNCHANGED <<lastSeq, applied>>
  BY DEF Connected, i
<1>3. applied[i] = <<>>
  BY <1>1 DEF TableIInv, Ascending
<1> HIDE DEF g
<1>4. TableTypeOK'
  BY <1>1, <1>2 DEF TableIInv, TableTypeOK
<1>5. \A k \in SeatNumbers : Ascending(k)'
  <2> TAKE k \in SeatNumbers
  <2>1. Ascending(k)
    BY DEF TableIInv
  <2>2. CASE k = i
    BY <1>2, <1>3, <2>2 DEF Ascending
  <2>3. CASE k # i
    <3>1. seat'[k] = seat[k]
      BY <1>2, <2>3 DEF TableIInv, TableTypeOK
    <3> QED
      BY <1>2, <2>1, <3>1 DEF Ascending
  <2> QED
    BY <2>2, <2>3
<1>6. OneSeatEach' /\ welcomes' \subseteq Guests \X SeatNumbers
  <2>1. \A k \in SeatNumbers : seat'[k] = IF k = i THEN g ELSE seat[k]
    BY <1>2 DEF TableIInv, TableTypeOK
  <2>2. \A w \in welcomes : seat[w[2]] = w[1] /\ w[2] \in SeatNumbers /\ w[1] \in Guests
    BY DEF TableIInv, OneSeatEach
  <2>3. \A w \in welcomes : w[2] # i
    BY <2>2, <1>1, CardTableAssumption
  <2>4. \A w \in welcomes' : seat'[w[2]] = w[1]
    BY <1>1, <1>2, <2>1, <2>2, <2>3
  <2>5. \A j, k \in SeatNumbers : seat'[j] = seat'[k] /\ seat'[j] # Nobody => j = k
    BY <1>1, <2>1 DEF TableIInv, OneSeatEach
  <2>6. \A k \in SeatNumbers : seat'[k] \notin Forgers
    BY <1>1, <2>1 DEF TableIInv, OneSeatEach
  <2> QED
    BY <1>1, <1>2, <2>4, <2>5, <2>6 DEF TableIInv, OneSeatEach
<1>7. \A d \in wire' : Sendable(d)'
  BY DEF TableIInv, Sendable
<1> QED
  BY <1>2, <1>4, <1>5, <1>6, <1>7 DEF TableIInv, ReportedOnce

LEMMA PlayedIInv ==
    ASSUME TableIInv, NEW m \in wire, Played(m), wire' \subseteq wire,
           UNCHANGED <<sent, decided, logged, reports, late>>
    PROVE  TableIInv' /\ (OrderPromised /\ InOrderOnce => InOrderOnce')
<1>1. PICK i \in SeatNumbers :
          /\ seat[i] = m.from /\ m.sequence > lastSeq[i]
          /\ lastSeq' = [lastSeq EXCEPT ![i] = m.sequence]
          /\ applied' = [applied EXCEPT ![i] = Append(applied[i], m.serial)]
          /\ UNCHANGED <<seat, welcomes>>
  BY DEF Played, SeatsOf, Newer
<1> DEFINE g == seat[i]
           L == Len(applied[i])
           n == m.serial
<1>2. /\ g \in Guests /\ n \in Nat /\ n <= sent[g] /\ sent[g] - n <= Window /\ m.sequence = Tag(n)
      /\ sent[g] \in Int /\ SeqSpan \in Nat \ {0} /\ Tag(n) \in 0 .. SeqSpan - 1
  BY <1>1, Tags, CardTableAssumption DEF TableIInv, Sendable
<1>3. lastSeq[i] \in 0 .. SeqSpan - 1 /\ Ascending(i) /\ applied[i] \in Seq(Nat)
  BY DEF TableIInv, TableTypeOK
<1>4. L \in Nat /\ applied'[i] = Append(applied[i], n) /\ lastSeq'[i] = Tag(n)
  BY <1>1, <1>2, <1>3 DEF TableIInv, TableTypeOK
<1>5. Len(applied'[i]) = L + 1 /\ applied'[i] \in Seq(Nat)
  BY <1>2, <1>3, <1>4
<1>6. applied'[i][L + 1] = n /\ \A j \in 1 .. L : applied'[i][j] = applied[i][j]
  BY <1>2, <1>3, <1>4
<1>0. L \in Nat /\ lastSeq'[i] = Tag(n)
  BY <1>4
<1> HIDE DEF L, n
<1>7. Ascending(i)'
  <2>0. \A j \in 1 .. L : applied[i][j] \in Nat /\ Tag(applied[i][j]) \in Nat
    <3> TAKE j \in 1 .. L
    <3>1. applied[i][j] \in Nat
      BY <1>3 DEF L
    <3> QED
      BY <3>1, <1>2, Tags
  <2>1. /\ n \in Int /\ sent[g] \in Int /\ n <= sent[g] /\ lastSeq[i] \in Nat /\ Tag(n) \in Int
        /\ Tag(n) > lastSeq[i] /\ lastSeq'[i] = Tag(n) /\ sent'[seat'[i]] = sent[g]
    BY <1>0, <1>1, <1>2, <1>3
  <2>2. /\ \A j \in 1 .. L : applied[i][j] <= sent[g] /\ Tag(applied[i][j]) <= lastSeq[i]
        /\ \A j, k \in 1 .. L : j < k => Tag(applied[i][j]) < Tag(applied[i][k])
    BY <1>3 DEF Ascending, L
  <2>5. ASSUME NEW j \in 1 .. L + 1
        PROVE  applied'[i][j] <= sent'[seat'[i]] /\ Tag(applied'[i][j]) <= lastSeq'[i]
    <3>1. CASE j = L + 1
      BY <3>1, <2>1, <1>6
    <3>2. CASE j \in 1 .. L
      <4>1. applied'[i][j] = applied[i][j]
        BY <3>2, <1>6
      <4>2. Tag(applied[i][j]) \in Int /\ Tag(applied[i][j]) <= lastSeq[i]
        BY <3>2, <2>0, <2>2
      <4> QED
        BY <4>1, <4>2, <3>2, <2>1, <2>2
    <3> QED
      BY <3>1, <3>2, <1>0
  <2>6. ASSUME NEW j \in 1 .. L + 1, NEW k \in 1 .. L + 1, j < k
        PROVE  Tag(applied'[i][j]) < Tag(applied'[i][k])
    <3>1. j \in 1 .. L /\ applied'[i][j] = applied[i][j]
      BY <2>6, <1>0, <1>6
    <3>2. CASE k = L + 1
      <4>1. Tag(applied[i][j]) \in Int /\ Tag(applied[i][j]) <= lastSeq[i]
        BY <3>1, <2>0, <2>2
      <4> QED
        BY <3>1, <3>2, <4>1, <2>1, <1>6
    <3>3. CASE k \in 1 .. L
      BY <2>6, <3>1, <3>3, <2>2, <1>6
    <3> QED
      BY <3>2, <3>3, <1>0
  <2>3. seat'[i] # Nobody
    BY <1>1, <1>2, CardTableAssumption
  <2>4. lastSeq'[i] >= 1 /\ lastSeq'[i] = Tag(applied'[i][L + 1])
    BY <2>1, <1>6
  <2>7. Len(applied'[i]) = L + 1
    BY <1>5
  <2> QED
    BY <2>3, <2>4, <2>5, <2>6, <2>7 DEF Ascending
<1>8. \A k \in SeatNumbers \ {i} : applied'[k] = applied[k] /\ lastSeq'[k] = lastSeq[k]
  BY <1>1 DEF TableIInv, TableTypeOK
<1>9. ASSUME NEW k \in SeatNumbers PROVE Ascending(k)'
  <2>1. CASE k # i
    BY <1>1, <1>8, <2>1 DEF TableIInv, Ascending
  <2> QED
    BY <1>7, <2>1
<1>10. TableTypeOK' /\ applied' \in [SeatNumbers -> Seq(Nat)]
  BY <1>1, <1>2, <1>4, <1>5 DEF TableIInv, TableTypeOK
<1>11. TableIInv'
  BY <1>1, <1>9, <1>10 DEF TableIInv, Sendable, OneSeatEach, ReportedOnce
<1>12. ASSUME OrderPromised, InOrderOnce PROVE InOrderOnce'
  <2>1. L >= 1 => applied[i][L] < n
    <3> SUFFICES ASSUME L >= 1, applied[i][L] >= n PROVE FALSE
      BY <1>2, <1>3, <1>4 DEF L, n
    <3> DEFINE l == applied[i][L]
    <3>1. /\ l \in Nat /\ l <= sent[g] /\ Tag(l) = lastSeq[i] /\ lastSeq[i] >= 1
      BY <1>3, <1>4 DEF Ascending, L
    <3> HIDE DEF l
    <3>2. Tag(l) < Tag(n)
      BY <1>1, <1>2, <3>1
    <3>3. l >= n
      BY DEF l
    <3>4. CASE Window <= 1
      <4>1. n = l \/ n = l - 1
        BY <1>2, <3>1, <3>3, <3>4, CardTableAssumption
      <4>2. Tag(l - 1) < Tag(l) \/ l = 0
        BY <1>2, <3>1, Tags
      <4>3. Tag(l) \in Int /\ Tag(n) \in Int /\ l # n
        BY <1>2, <3>1, <3>2, Tags
      <4>4. n = l - 1 /\ l >= 1
        BY <4>1, <4>3, <1>2, <3>1
      <4> QED
        BY <4>2, <4>3, <4>4, <3>1, <3>2
    <3>5. CASE \A h \in Guests : Deck[h] < SeqSpan
      <4>1. n < SeqSpan /\ l < SeqSpan
        <5>1. sent[g] <= Deck[g] /\ sent[g] \in Int /\ Deck[g] \in Nat /\ SeqSpan \in Nat
          <6>1. SeqSpan \in Nat /\ \A h \in Guests : Deck[h] \in Nat
            BY CardTableAssumption
          <6>2. \A h \in Guests : sent[h] \in -1 .. Deck[h]
            BY DEF TableIInv
          <6> QED
            BY <1>2, <6>1, <6>2
        <5>2. n \in Nat /\ n <= sent[g] /\ l \in Nat /\ l <= sent[g] /\ Deck[g] < SeqSpan
          BY <1>2, <3>1, <3>5
        <5> QED
          BY ONLY <5>1, <5>2
      <4>2. Tag(n) = n /\ Tag(l) = l
        BY <4>1, <1>2, <3>1, Tags
      <4> QED
        BY <4>2, <3>2, <3>3, <3>1, <1>2
    <3> QED
      BY <1>12, <3>4, <3>5 DEF OrderPromised
  <2>2. \A j \in 1 .. L : applied'[i][j] < applied'[i][j + 1]
    <3> TAKE j \in 1 .. L
    <3>1. CASE j = L
      BY <2>1, <3>1, <1>0, <1>6
    <3>2. CASE j < L
      <4>1. applied[i][j] < applied[i][j + 1]
        BY <1>12, <3>2, <1>0 DEF InOrderOnce, L
      <4> QED
        BY <4>1, <3>2, <1>0, <1>6
    <3> QED
      BY <3>1, <3>2, <1>0
  <2>3. ASSUME NEW k \in SeatNumbers
        PROVE  \A j \in 1 .. Len(applied'[k]) - 1 : applied'[k][j] < applied'[k][j + 1]
    <3>1. CASE k = i
      BY <3>1, <2>2, <1>0, <1>5
    <3>2. CASE k # i
      BY <3>2, <1>8, <1>12 DEF InOrderOnce
    <3> QED
      BY <3>1, <3>2
  <2> QED
    BY <2>3 DEF InOrderOnce
<1> QED
  BY <1>11, <1>12

LEMMA TableNextIInv ==
    ASSUME TableIInv, [TableNext]_tableVars
    PROVE  TableIInv' /\ (OrderPromised /\ InOrderOnce => InOrderOnce')
<1>1. ASSUME NEW g \in Guests, send_connect_with_ticket(g) \/ send_card(g)
      PROVE  TableIInv' /\ (InOrderOnce => InOrderOnce')
  <2>1. applied' = applied
    BY <1>1 DEF send_connect_with_ticket, send_card
  <2> QED
    BY <1>1, <2>1, GuestsSendIInv DEF InOrderOnce
<1>2. ASSUME NEW m \in wire, NEW again \in BOOLEAN, server_handle_packet(m, again)
      PROVE  TableIInv' /\ (OrderPromised /\ InOrderOnce => InOrderOnce')
  <2>1. wire' \subseteq wire /\ UNCHANGED <<sent, decided, logged, reports, late>>
    BY <1>2 DEF server_handle_packet
  <2>2. CASE Connected(m)
    <3>1. applied' = applied
      BY <2>2 DEF Connected
    <3> QED
      BY <2>1, <2>2, <3>1, ConnectedIInv DEF InOrderOnce
  <2>3. CASE Played(m)
    BY <2>1, <2>3, PlayedIInv
  <2>4. CASE Ignored(m)
    BY <2>1, <2>4 DEF Ignored, TableIInv, Sendable, Ascending, TableTypeOK, OneSeatEach, ReportedOnce,
                      InOrderOnce
  <2> QED
    BY <1>2, <2>2, <2>3, <2>4 DEF server_handle_packet
<1>3. ASSUME NEW m \in wire, Lose(m) PROVE TableIInv' /\ (InOrderOnce => InOrderOnce')
  BY <1>3 DEF Lose, TableIInv, Sendable, Ascending, TableTypeOK, OneSeatEach, ReportedOnce, InOrderOnce
<1>4. CASE Turn
  <2>1. decided' \in BOOLEAN /\ (decided => decided') /\ logged' = decided'
    <3>1. decided \in BOOLEAN /\ decided' \in {decided, TRUE} /\ logged' = decided'
      BY <1>4 DEF Turn, TableIInv
    <3>2. CASE decided' = decided
      BY <3>1, <3>2
    <3>3. CASE decided' = TRUE
      BY <3>1, <3>3
    <3> QED
      BY <3>1, <3>2, <3>3
  <2>2. late' \in 0 .. MaxLate
    BY <1>4, CardTableAssumption DEF Turn, TableIInv, TableTypeOK
  <2>3. ReportedOnce'
    BY <1>4, <2>1 DEF Turn, ToReport, TableIInv, TableTypeOK, ReportedOnce
  <2> QED
    BY <1>4, <2>1, <2>2, <2>3 DEF Turn, TableIInv, Sendable, Ascending, TableTypeOK, OneSeatEach,
                                  InOrderOnce
<1>5. CASE UNCHANGED tableVars
  BY <1>5 DEF tableVars, TableIInv, Sendable, Ascending, TableTypeOK, OneSeatEach, ReportedOnce, InOrderOnce
<1> QED
  BY <1>1, <1>2, <1>3, <1>4, <1>5 DEF TableNext

\* The card server holds the table together for any number of guests, any loss, repetition and
\* overtaking: one seat per ticket, one report, and each player's cards in order as long as the
\* 16-bit sequence numbers can tell it (server_handle_packet, main).
THEOREM TableIsKept == ASSUME OrderPromised PROVE TableSpec => []TableInv
<1>1. TableIInv /\ InOrderOnce => TableInv
  BY DEF TableIInv, TableInv
<1>2. TableIInv /\ InOrderOnce /\ [TableNext]_tableVars => (TableIInv /\ InOrderOnce)'
  BY TableNextIInv
<1>3. TableInit => TableIInv /\ InOrderOnce
  BY TableInitIInv
<1> QED
  BY <1>1, <1>2, <1>3, PTL DEF TableSpec

\* However much the wire repeats and reorders, and even when the sequence numbers have wrapped,
\* no card of a player is applied a second time (the sequence test in server_handle_packet).
THEOREM CardsApplyOnce == TableSpec => []NoCardTwice
<1>1. TableIInv => NoCardTwice
  <2> SUFFICES ASSUME TableIInv, NEW i \in SeatNumbers,
                      NEW j \in 1 .. Len(applied[i]), NEW k \in 1 .. Len(applied[i]),
                      applied[i][j] = applied[i][k]
               PROVE  j = k
    BY DEF NoCardTwice
  <2>0. applied[i][j] = applied[i][k]
    OBVIOUS
  <2>1. applied[i] \in Seq(Nat) /\ Len(applied[i]) \in Nat /\ SeqSpan \in Nat \ {0}
    BY CardTableAssumption DEF TableIInv
  <2>2. ~(j < k) /\ ~(k < j)
    <3>1. applied[i][j] \in Nat /\ Tag(applied[i][j]) \in Nat
      <4>1. applied[i][j] \in Nat
        BY <2>1
      <4>2. Tag(applied[i][j]) \in 0 .. SeqSpan - 1
        BY <4>1, Tags
      <4> QED
        BY <4>1, <4>2, <2>1
    <3>2. \A a, b \in 1 .. Len(applied[i]) : a < b => Tag(applied[i][a]) < Tag(applied[i][b])
      BY DEF TableIInv, Ascending
    <3>3. (j < k => Tag(applied[i][j]) < Tag(applied[i][k])) /\ (k < j => Tag(applied[i][k]) < Tag(applied[i][j]))
      BY ONLY <3>2, j \in 1 .. Len(applied[i]), k \in 1 .. Len(applied[i])
    <3>4. Tag(applied[i][j]) = Tag(applied[i][k])
      BY <2>0
    <3> QED
      BY ONLY <3>1, <3>3, <3>4
  <2> QED
    BY <2>1, <2>2
<1>2. TableIInv /\ [TableNext]_tableVars => TableIInv'
  BY TableNextIInv
<1>3. TableInit => TableIInv
  BY TableInitIInv
<1> QED
  BY <1>1, <1>2, <1>3, PTL DEF TableSpec

-----------------------------------------------------------------------------
(* The field of the card game.                                             *)

Kinds == Cards \cup {"village"}
FieldEntity == [type : Kinds, owner : {0, 1, 2}, at : Cells, hp : Nat, rest : Nat]

\* What may stand in a slot.
FitEntity(e) ==
    /\ e \in FieldEntity
    /\ e.owner \in (IF e.type = "village" THEN {0} ELSE Owners)
    /\ e.hp \in 1 .. Max({Health[e.type], Upgraded})

\* Every slot is empty or holds an entity as it should be.
FitPool(es) ==
    /\ es = [i \in 1 .. Pool |-> es[i]]
    /\ \A i \in 1 .. Pool : es[i] = Absent \/ FitEntity(es[i])

FieldIInv ==
    /\ FitPool(entity)
    /\ cell \in [Cells -> {"neutral", "player", "enemy"}]
    /\ influence \in [Owners -> 0 .. PurseCap]
    /\ income \in [Owners -> 0 .. IncomeTicks - 1]
    /\ recovering \in [Owners -> [Cards -> Nat]] /\ idle \in [Owners -> [Cards -> Nat]]
    /\ \A o \in Owners, k \in Cards : /\ idle[o][k] <= Recovery[k]
                                      /\ recovering[o][k] = Recovery[k] - idle[o][k]
    /\ held \in [Owners -> Nat] /\ streak = held
    /\ life \in 0 .. LifeTicks - 1 /\ fieldTime \in Nat
    /\ winner \in Owners \cup {0}

LEMMA FieldSizes ==
    /\ GridDim \in Nat \ {0} /\ Pool \in Nat \ {0} /\ HoldTicks \in Nat \ {0}
    /\ IncomeTicks \in Nat \ {0} /\ LifeTicks \in Nat \ {0}
    /\ Upgraded \in Nat /\ PurseCap \in Nat /\ SpawnTicks \in Nat /\ FastSpawnTicks \in Nat
    /\ Purse \in 0 .. PurseCap
    /\ Villages \subseteq Cells /\ Drops \subseteq Cells /\ Home[1] \in Cells /\ Home[2] \in Cells
    /\ PriceOf \in [Cards -> Nat] /\ Recovery \in [Cards -> Nat] /\ Damage \in [Cards -> Nat]
    /\ Health \in [Kinds -> Nat \ {0}]
BY CardFieldAssumption DEF Owners, Kinds

\* The greatest and the least of what is compared here.
LEMMA MaxOfTwo ==
    ASSUME NEW a \in Nat, NEW b \in Nat
    PROVE  Max({a, b}) \in {a, b} /\ a <= Max({a, b}) /\ b <= Max({a, b})
<1>1. \E x \in {a, b} : \A y \in {a, b} : x >= y
  OBVIOUS
<1>2. \A x : x \in {a, b} => x \in Nat
  OBVIOUS
<1>3. Max({a, b}) \in {a, b} /\ \A y \in {a, b} : Max({a, b}) >= y
  BY <1>1 DEF Max
<1> QED
  BY <1>2, <1>3

LEMMA MinOfTwo ==
    ASSUME NEW a \in Nat, NEW b \in Nat
    PROVE  Min({a, b}) = IF a <= b THEN a ELSE b
<1>1. \E x \in {a, b} : \A y \in {a, b} : x <= y
  OBVIOUS
<1>2. Min({a, b}) \in {a, b} /\ \A y \in {a, b} : Min({a, b}) <= y
  BY <1>1 DEF Min
<1> QED
  BY <1>2

\* By induction: what holds of zero and of every successor.
LEMMA FieldNatAll ==
    ASSUME NEW P, 0 \in P, \A n \in Nat : n \in P => n + 1 \in P
    PROVE  Nat \subseteq P
<1> DEFINE Bad == {n \in Nat : n \notin P}
           R == OpToRel(<, Nat)
<1> SUFFICES ASSUME Bad # {} PROVE FALSE
  OBVIOUS
<1>1. \A x, y \in Nat : x < y => <<x, y>> \in R
  BY DEF OpToRel
<1>2. IsWellFoundedOn(R, Nat)
  BY NatLessThanWellFounded
<1> HIDE DEF R
<1>3. Bad \subseteq Nat
  OBVIOUS
<1>4. PICK n \in Bad : \A m \in Bad : ~(<<m, n>> \in R)
  BY <1>2, <1>3, WFMin
<1>5. n \in Nat /\ n \notin P /\ n # 0
  BY <1>4
<1>6. n - 1 \in Nat /\ n - 1 < n /\ (n - 1) + 1 = n
  BY <1>5
<1>7. n - 1 \notin Bad
  <2> HIDE DEF Bad
  <2> QED
    BY <1>1, <1>4, <1>5, <1>6
<1> QED
  BY <1>5, <1>6, <1>7

\* Min() picks a slot of the set it is given.
LEMMA FirstSlot == ASSUME NEW S \in SUBSET (1 .. Pool), S # {} PROVE Min(S) \in S
<1> DEFINE P == {k \in Nat : \A n \in S : n <= k => \E l \in S : \A m \in S : l <= m}
<1>0. \A n \in S : n \in Nat /\ 1 <= n
  BY FieldSizes
<1>1. 0 \in P
  BY <1>0
<1>2. ASSUME NEW k \in Nat, k \in P PROVE k + 1 \in P
  <2> SUFFICES ASSUME NEW n \in S, n <= k + 1 PROVE \E l \in S : \A m \in S : l <= m
    OBVIOUS
  <2>1. CASE \E m \in S : m <= k
    BY <1>2, <2>1
  <2>2. CASE ~(\E m \in S : m <= k)
    <3>1. \A m \in S : m \in Nat /\ n \in Nat /\ ~(m <= k)
      BY <1>0, <2>2
    <3>2. \A m \in S : n <= m
      BY <3>1
    <3> QED
      BY <3>2
  <2> QED
    BY <2>1, <2>2
<1>3. Nat \subseteq P
  <2> HIDE DEF P
  <2> QED
    BY <1>1, <1>2, FieldNatAll
<1>4. PICK n \in S : TRUE
  OBVIOUS
<1>5. n \in P /\ n \in Nat
  BY <1>0, <1>3, <1>4
<1>6. \E l \in S : \A m \in S : l <= m
  BY <1>4, <1>5
<1> QED
  BY <1>6 DEF Min

\* No entity is taken for an empty slot.
LEMMA StandingIsThere == \A e : FitEntity(e) => e # Absent /\ e.type # "none"
<1> SUFFICES ASSUME NEW e, FitEntity(e) PROVE e # Absent /\ e.type # "none"
  OBVIOUS
<1>1. e.type \in Kinds
  BY DEF FitEntity, FieldEntity
<1>2. e.type # "none"
  BY <1>1 DEF Kinds, Cards
<1>3. Absent.type = "none"
  BY DEF Absent
<1> QED
  BY <1>2, <1>3

\* What is spawned is whole and its owner's.
LEMMA EntityIsWhole ==
    ASSUME NEW k \in Kinds, NEW o \in {0, 1, 2}, NEW at \in Cells,
           k = "village" => o = 0, k # "village" => o \in Owners
    PROVE  /\ FitEntity(Entity(k, o, at))
           /\ Entity(k, o, at).owner = o /\ Entity(k, o, at).type = k
<1> DEFINE e == Entity(k, o, at)
           rest == IF k = "outpost" THEN SpawnTicks ELSE 0
<1>1. rest \in Nat /\ Health[k] \in Nat \ {0} /\ Upgraded \in Nat
  BY FieldSizes
<1>2. e = [type |-> k, owner |-> o, at |-> at, hp |-> Health[k], rest |-> rest]
  BY DEF Entity
<1> HIDE DEF rest, e
<1>3. e.type = k /\ e.owner = o /\ e.hp = Health[k]
  BY <1>2
<1>4. e \in FieldEntity
  BY <1>1, <1>2 DEF FieldEntity
<1>5. Health[k] \in 1 .. Max({Health[k], Upgraded})
  <2>1. Health[k] <= Max({Health[k], Upgraded}) /\ Max({Health[k], Upgraded}) \in Nat
    BY <1>1, MaxOfTwo
  <2> QED
    BY <1>1, <2>1
<1>6. e.owner \in (IF e.type = "village" THEN {0} ELSE Owners)
  BY <1>3
<1>7. FitEntity(e)
  BY <1>3, <1>4, <1>5, <1>6 DEF FitEntity
<1> QED
  BY <1>3, <1>7 DEF e

\* One slot is filled, changed or emptied.
LEMMA SlotIsSet ==
    ASSUME NEW es, FitPool(es), NEW i \in 1 .. Pool, NEW e, e = Absent \/ FitEntity(e)
    PROVE  FitPool([es EXCEPT ![i] = e])
<1> DEFINE fs == [es EXCEPT ![i] = e]
<1>1. fs = [j \in 1 .. Pool |-> IF j = i THEN e ELSE es[j]]
  BY DEF FitPool
<1>2. \A j \in 1 .. Pool : fs[j] = IF j = i THEN e ELSE es[j]
  BY <1>1
<1>3. fs = [j \in 1 .. Pool |-> fs[j]]
  BY <1>1
<1> HIDE DEF fs
<1>4. FitPool(fs)
  BY <1>2, <1>3 DEF FitPool
<1> QED
  BY <1>4 DEF fs

\* A spawn fills the first free slot or, where there is none, changes nothing.
LEMMA SpawnFills ==
    ASSUME NEW es, FitPool(es), NEW k \in Kinds, NEW o \in {0, 1, 2}, NEW at \in Cells,
           k = "village" => o = 0, k # "village" => o \in Owners
    PROVE  /\ FitPool(Spawned(es, k, o, at))
           /\ HasRoom(es) => \E i \in 1 .. Pool :
                 es[i] = Absent /\ Spawned(es, k, o, at) = [es EXCEPT ![i] = Entity(k, o, at)]
<1>1. CASE ~HasRoom(es)
  BY <1>1 DEF Spawned
<1>2. CASE HasRoom(es)
  <2> DEFINE free == (1 .. Pool) \ OnField(es)
             i == Min(free)
  <2>1. free \in SUBSET (1 .. Pool) /\ free # {}
    BY <1>2 DEF HasRoom, OnField
  <2> HIDE DEF free
  <2>2. i \in free
    BY <2>1, FirstSlot
  <2>3. i \in 1 .. Pool /\ es[i] = Absent
    BY <2>2 DEF free, OnField
  <2>4. Spawned(es, k, o, at) = [es EXCEPT ![i] = Entity(k, o, at)]
    BY <1>2 DEF Spawned, free
  <2> HIDE DEF i
  <2>5. FitEntity(Entity(k, o, at))
    BY EntityIsWhole
  <2>6. FitPool([es EXCEPT ![i] = Entity(k, o, at)])
    BY <2>3, <2>5, SlotIsSet
  <2> QED
    BY <2>3, <2>4, <2>6
<1> QED
  BY <1>1, <1>2

\* A unit goes to a cell of the grid or stays.
LEMMA HeadingOnGrid == ASSUME NEW e, e.at \in Cells PROVE Heading(e) \in Cells
BY DEF Heading

\* An entity that moves or rests is the entity it was; one that is hurt but lives, too.
LEMMA EntityMoved ==
    ASSUME NEW e, FitEntity(e), NEW at \in Cells
    PROVE  LET m == [e EXCEPT !.at = at]
           IN FitEntity(m) /\ m.type = e.type /\ m.owner = e.owner /\ m.at = at
<1> DEFINE m == [e EXCEPT !.at = at]
<1>1. m \in FieldEntity
  BY DEF FitEntity, FieldEntity
<1>2. m.type = e.type /\ m.owner = e.owner /\ m.hp = e.hp /\ m.at = at
  BY DEF FitEntity, FieldEntity
<1> HIDE DEF m
<1>3. FitEntity(m)
  BY <1>1, <1>2 DEF FitEntity
<1> QED
  BY <1>2, <1>3 DEF m

LEMMA EntityRested ==
    ASSUME NEW e, FitEntity(e), NEW n \in Nat
    PROVE  LET m == [e EXCEPT !.rest = n]
           IN FitEntity(m) /\ m.type = e.type /\ m.owner = e.owner /\ m.at = e.at
<1> DEFINE m == [e EXCEPT !.rest = n]
<1>1. m \in FieldEntity
  BY DEF FitEntity, FieldEntity
<1>2. m.type = e.type /\ m.owner = e.owner /\ m.hp = e.hp /\ m.at = e.at
  BY DEF FitEntity, FieldEntity
<1> HIDE DEF m
<1>3. FitEntity(m)
  BY <1>1, <1>2 DEF FitEntity
<1> QED
  BY <1>2, <1>3 DEF m

LEMMA EntityHurt ==
    ASSUME NEW e, FitEntity(e), NEW n \in Nat, n \in 1 .. Max({Health[e.type], Upgraded})
    PROVE  FitEntity([e EXCEPT !.hp = n])
<1> DEFINE m == [e EXCEPT !.hp = n]
<1>1. m \in FieldEntity
  BY DEF FitEntity, FieldEntity
<1>2. m.type = e.type /\ m.owner = e.owner /\ m.hp = n
  BY DEF FitEntity, FieldEntity
<1> HIDE DEF m
<1>3. FitEntity(m)
  BY <1>1, <1>2 DEF FitEntity
<1> QED
  BY <1>3 DEF m

\* A blow leaves every slot empty or with a living entity: who survives has lost hit points.
LEMMA BlowIsWhole ==
    ASSUME NEW es, FitPool(es), NEW i \in 1 .. Pool, es[i].type \in Cards
    PROVE  FitPool(Struck(es, i))
<1> DEFINE foes == {j \in OnField(es) : es[j].owner # es[i].owner /\ es[j].at = es[i].at}
           j == Min(foes)
           left == es[j].hp - Damage[es[i].type]
<1>1. CASE foes = {}
  BY <1>1 DEF Struck
<1>2. CASE foes # {}
  <2>1. foes \in SUBSET (1 .. Pool)
    BY DEF OnField
  <2>2. j \in foes
    <3> HIDE DEF foes
    <3> QED
      BY <1>2, <2>1, FirstSlot
  <2>3. j \in 1 .. Pool /\ es[j] # Absent
    BY <2>2 DEF OnField
  <2>4. Struck(es, i) = [es EXCEPT ![j] = IF left <= 0 THEN Absent ELSE [es[j] EXCEPT !.hp = left]]
    BY <1>2 DEF Struck
  <2> HIDE DEF j, foes
  <2>5. FitEntity(es[j])
    BY <2>3 DEF FitPool
  <2>6. es[j].hp \in Nat /\ Damage[es[i].type] \in Nat /\ es[j].hp \in 1 .. Max({Health[es[j].type], Upgraded})
    BY <2>5, FieldSizes DEF FitEntity, FieldEntity
  <2>7. left \in Int /\ left <= es[j].hp
    BY <2>6
  <2> HIDE DEF left
  <2>8. CASE left <= 0
    <3>1. FitPool([es EXCEPT ![j] = Absent])
      BY <2>3, SlotIsSet
    <3> QED
      BY <2>4, <2>8, <3>1
  <2>9. CASE ~(left <= 0)
    <3>1. left \in Nat
      BY <2>7, <2>9
    <3>2. left \in 1 .. Max({Health[es[j].type], Upgraded})
      <4>1. Max({Health[es[j].type], Upgraded}) \in Nat
        <5>1. Health[es[j].type] \in Nat /\ Upgraded \in Nat
          BY <2>5, FieldSizes DEF FitEntity, FieldEntity
        <5> QED
          BY <5>1, MaxOfTwo
      <4> QED
        BY <2>6, <2>7, <2>9, <3>1, <4>1
    <3>3. FitEntity([es[j] EXCEPT !.hp = left])
      BY <2>5, <3>1, <3>2, EntityHurt
    <3>4. FitPool([es EXCEPT ![j] = [es[j] EXCEPT !.hp = left]])
      BY <2>3, <3>3, SlotIsSet
    <3> QED
      BY <2>4, <2>9, <3>4
  <2> QED
    BY <2>8, <2>9
<1> QED
  BY <1>1, <1>2

\* An outpost rests or sends a militia out, if there is room.
LEMMA OutpostIsWhole ==
    ASSUME NEW es, FitPool(es), NEW i \in 1 .. Pool, es[i].type = "outpost"
    PROVE  FitPool(OutpostActs(es, i))
<1>1. FitEntity(es[i])
  BY DEF FitPool, Absent
<1>2. es[i].rest \in Nat /\ es[i].owner \in Owners /\ es[i].at \in Cells
  BY <1>1 DEF FitEntity, FieldEntity
<1>3. CASE es[i].rest > 1
  <2> DEFINE n == es[i].rest - 1
             m == [es[i] EXCEPT !.rest = n]
  <2>1. n \in Nat
    BY <1>2, <1>3
  <2>2. OutpostActs(es, i) = [es EXCEPT ![i] = m]
    BY <1>3 DEF OutpostActs, FitPool
  <2> HIDE DEF n
  <2>3. FitEntity(m)
    BY <1>1, <2>1, EntityRested
  <2> HIDE DEF m
  <2>4. FitPool([es EXCEPT ![i] = m])
    BY <2>3, SlotIsSet
  <2> QED
    BY <2>2, <2>4
<1>4. CASE ~(es[i].rest > 1)
  <2> DEFINE n == SpawnRest(es[i].owner)
             fs == [es EXCEPT ![i] = [es[i] EXCEPT !.rest = n]]
  <2>1. n \in Nat
    BY FieldSizes DEF SpawnRest
  <2>2. OutpostActs(es, i) = Spawned(fs, "militia", es[i].owner, es[i].at)
    BY <1>4 DEF OutpostActs, FitPool
  <2> HIDE DEF n
  <2>3. FitEntity([es[i] EXCEPT !.rest = n])
    BY <1>1, <2>1, EntityRested
  <2>4. FitPool(fs)
    BY <2>3, SlotIsSet
  <2> HIDE DEF fs
  <2>5. "militia" \in Kinds /\ es[i].owner \in {0, 1, 2} /\ "militia" # "village"
    BY <1>2 DEF Kinds, Cards, Owners
  <2> QED
    BY <1>2, <2>2, <2>4, <2>5, SpawnFills
<1> QED
  BY <1>3, <1>4

\* One slot's turn.
LEMMA TurnIsWhole == ASSUME NEW es, FitPool(es), NEW i \in 1 .. Pool PROVE FitPool(Acted(es, i))
<1>1. CASE es[i].type \in {"militia", "scout", "swarmling"}
  <2> DEFINE m == [es[i] EXCEPT !.at = Heading(es[i])]
             fs == [es EXCEPT ![i] = m]
  <2>1. FitEntity(es[i])
    BY <1>1 DEF FitPool, Absent
  <2>2. es[i].at \in Cells
    BY <2>1 DEF FitEntity, FieldEntity
  <2>3. Heading(es[i]) \in Cells
    BY <2>2, HeadingOnGrid
  <2>4. FitEntity(m) /\ m.type = es[i].type
    BY <2>1, <2>3, EntityMoved
  <2>5. Acted(es, i) = Struck(fs, i)
    BY <1>1 DEF Acted
  <2> HIDE DEF m
  <2>6. FitPool(fs)
    BY <2>4, SlotIsSet
  <2>7. fs[i] = m
    BY DEF FitPool
  <2> HIDE DEF fs
  <2>8. fs[i].type \in Cards
    BY <1>1, <2>4, <2>7 DEF Cards
  <2> QED
    BY <2>5, <2>6, <2>8, BlowIsWhole
<1>2. CASE es[i].type = "outpost"
  <2>1. Acted(es, i) = OutpostActs(es, i)
    BY <1>2 DEF Acted
  <2> QED
    BY <1>2, <2>1, OutpostIsWhole
<1>3. CASE es[i].type \notin {"militia", "scout", "swarmling", "outpost"}
  BY <1>3 DEF Acted
<1> QED
  BY <1>1, <1>2, <1>3

\* The turns of the slots up to n, each on what those before it left.
Acts(f, n) == f = [i \in 0 .. n |-> IF i = 0 THEN entity ELSE Acted(f[i - 1], i)]

LEMMA SlotsAct == ASSUME NEW n \in Nat PROVE \E f : Acts(f, n)
<1> DEFINE P == {m \in Nat : \E f : Acts(f, m)}
<1>1. 0 \in P
  <2> DEFINE f == [i \in 0 .. 0 |-> entity]
  <2>1. f = [i \in 0 .. 0 |-> IF i = 0 THEN entity ELSE Acted(f[i - 1], i)]
    OBVIOUS
  <2> HIDE DEF f
  <2>2. Acts(f, 0)
    BY <2>1 DEF Acts
  <2> QED
    BY <2>2
<1>2. ASSUME NEW m \in Nat, m \in P PROVE m + 1 \in P
  <2>1. PICK f : Acts(f, m)
    BY <1>2
  <2>2. \A i \in 0 .. m : f[i] = IF i = 0 THEN entity ELSE Acted(f[i - 1], i)
    BY <2>1 DEF Acts
  <2> DEFINE last == Acted(f[m], m + 1)
             g == [i \in 0 .. m + 1 |-> IF i = m + 1 THEN last ELSE f[i]]
  <2>3. (\A i \in 0 .. m + 1 : g[i] = IF i = m + 1 THEN last ELSE f[i]) /\ g = [i \in 0 .. m + 1 |-> g[i]]
    OBVIOUS
  <2> HIDE DEF g
  <2>4. ASSUME NEW i \in 0 .. m + 1
        PROVE  g[i] = IF i = 0 THEN entity ELSE Acted(g[i - 1], i)
    <3>1. CASE i = 0
      <4>1. i # m + 1 /\ 0 \in 0 .. m
        BY <3>1
      <4> QED
        BY <2>2, <2>3, <3>1, <4>1
    <3>2. CASE i # 0
      <4>1. i - 1 \in 0 .. m + 1 /\ i - 1 # m + 1
        BY <3>2
      <4>2. g[i - 1] = f[i - 1]
        BY ONLY <2>3, <4>1
      <4>3. CASE i = m + 1
        <5>1. i - 1 = m
          BY <4>3
        <5>2. g[i] = Acted(f[m], m + 1)
          BY <2>3, <4>3
        <5> QED
          BY <3>2, <4>2, <4>3, <5>1, <5>2
      <4>4. CASE i # m + 1
        <5>1. i \in 0 .. m
          BY <4>4
        <5>2. g[i] = f[i]
          BY <2>3, <4>4
        <5>3. f[i] = Acted(f[i - 1], i)
          BY ONLY <2>2, <3>2, <5>1
        <5> QED
          BY <3>2, <4>2, <5>2, <5>3
      <4> QED
        BY <4>3, <4>4
    <3> QED
      BY <3>1, <3>2
  <2>5. Acts(g, m + 1)
    BY <2>3, <2>4 DEF Acts
  <2> QED
    BY <2>5
<1> HIDE DEF P
<1>3. Nat \subseteq P
  BY <1>1, <1>2, FieldNatAll
<1> QED
  BY <1>3 DEF P

LEMMA AllAreWhole == ASSUME FitPool(entity) PROVE FitPool(AllActed)
<1> DEFINE f == CHOOSE f : Acts(f, Pool)
<1>0. Pool \in Nat
  BY FieldSizes
<1>1. Acts(f, Pool)
  BY <1>0, SlotsAct
<1>2. AllActed = f[Pool]
  BY DEF AllActed, Acts
<1> HIDE DEF f
<1>3. \A i \in 0 .. Pool : f[i] = IF i = 0 THEN entity ELSE Acted(f[i - 1], i)
  BY <1>1 DEF Acts
<1> DEFINE P == {m \in Nat : m <= Pool => FitPool(f[m])}
<1>4. 0 \in P
  <2>1. f[0] = entity
    BY <1>0, <1>3
  <2> QED
    BY <2>1
<1>5. ASSUME NEW m \in Nat, m \in P PROVE m + 1 \in P
  <2> SUFFICES ASSUME m + 1 <= Pool PROVE FitPool(f[m + 1])
    OBVIOUS
  <2>1. m + 1 \in 0 .. Pool /\ m + 1 # 0 /\ (m + 1) - 1 = m /\ m + 1 \in 1 .. Pool /\ m <= Pool
    BY <1>0
  <2>2. f[m + 1] = Acted(f[m], m + 1)
    BY <1>3, <2>1
  <2>3. FitPool(f[m])
    BY <1>5, <2>1
  <2> QED
    BY <2>1, <2>2, <2>3, TurnIsWhole
<1> HIDE DEF P
<1>6. Nat \subseteq P
  BY <1>4, <1>5, FieldNatAll
<1>7. Pool \in P
  BY <1>0, <1>6
<1> QED
  BY <1>0, <1>2, <1>7 DEF P

\* The upgraded militia are no healthier than they may be.
LEMMA UpgradeIsWhole == ASSUME NEW es, FitPool(es) PROVE FitPool(Upgrade(es))
<1> DEFINE fs == Upgrade(es)
           M(i) == Max({es[i].hp, Upgraded})
<1>1. fs = [i \in 1 .. Pool |-> fs[i]]
  BY DEF Upgrade
<1>2. \A i \in 1 .. Pool :
         fs[i] = IF es[i].type = "militia" THEN [es[i] EXCEPT !.hp = M(i)] ELSE es[i]
  BY DEF Upgrade
<1> HIDE DEF fs, M
<1>3. ASSUME NEW i \in 1 .. Pool PROVE fs[i] = Absent \/ FitEntity(fs[i])
  <2>1. CASE es[i].type # "militia"
    BY <1>2, <2>1 DEF FitPool
  <2>2. CASE es[i].type = "militia"
    <3>1. FitEntity(es[i])
      BY <2>2 DEF FitPool, Absent
    <3> DEFINE h == Health[es[i].type]
    <3>2. es[i].hp \in Nat /\ Upgraded \in Nat /\ h \in Nat /\ es[i].hp \in 1 .. Max({h, Upgraded})
      BY <3>1, FieldSizes DEF FitEntity, FieldEntity
    <3>3. M(i) \in {es[i].hp, Upgraded} /\ es[i].hp <= M(i)
      BY <3>2, MaxOfTwo DEF M
    <3> HIDE DEF h
    <3>4. Max({h, Upgraded}) \in {h, Upgraded} /\ h <= Max({h, Upgraded}) /\ Upgraded <= Max({h, Upgraded})
      BY <3>2, MaxOfTwo
    <3>5. M(i) \in Nat /\ M(i) \in 1 .. Max({h, Upgraded})
      BY <3>2, <3>3, <3>4
    <3>6. FitEntity([es[i] EXCEPT !.hp = M(i)])
      BY <3>1, <3>5, EntityHurt DEF h
    <3> QED
      BY <1>2, <2>2, <3>6
  <2> QED
    BY <2>1, <2>2
<1>4. FitPool(fs)
  BY <1>1, <1>3 DEF FitPool
<1> QED
  BY <1>4 DEF fs

\* The grid is finite, and so are the villages on it.
LEMMA VillagesFinite == IsFiniteSet(Villages)
<1> DEFINE line == 0 .. GridDim - 1
<1>1. 0 \in Int /\ GridDim - 1 \in Int
  BY FieldSizes
<1>2. IsFiniteSet(line)
  BY <1>1, FS_Interval
<1> HIDE DEF line
<1>3. IsFiniteSet(line \X line)
  BY <1>2, FS_Product
<1>4. Villages \in SUBSET (line \X line)
  BY FieldSizes DEF Cells, line
<1> QED
  BY <1>3, <1>4, FS_Subset

\* The villages are placed one after another: for every set of cells, on what placing the
\* rest of it left.
Settled(s) == CHOOSE at \in s : TRUE
Empty == [i \in 1 .. Pool |-> Absent]
Placed(g, s) == IF s = {} THEN Empty ELSE Spawned(g[s \ {Settled(s)}], "village", 0, Settled(s))
Settles(g) == g = [s \in SUBSET Villages |-> Placed(g, s)]
SettlesUpTo(g, n) == \A s \in SUBSET Villages : Cardinality(s) <= n => g[s] = Placed(g, s)

LEMMA Settling ==
    /\ Cardinality(Villages) \in Nat
    /\ \A s \in SUBSET Villages : Cardinality(s) \in Nat /\ Cardinality(s) <= Cardinality(Villages)
    /\ \A s \in SUBSET Villages : Cardinality(s) = 0 <=> s = {}
    /\ \A s \in SUBSET Villages : s # {} =>
          /\ Settled(s) \in s /\ s \ {Settled(s)} \in SUBSET Villages
          /\ Cardinality(s \ {Settled(s)}) = Cardinality(s) - 1
<1>1. Cardinality(Villages) \in Nat
  BY VillagesFinite, FS_CardinalityType
<1>2. \A s \in SUBSET Villages :
         IsFiniteSet(s) /\ Cardinality(s) \in Nat /\ Cardinality(s) <= Cardinality(Villages)
  BY VillagesFinite, FS_Subset, FS_CardinalityType
<1>3. \A s \in SUBSET Villages : Cardinality(s) = 0 <=> s = {}
  BY <1>2, FS_EmptySet
<1>4. ASSUME NEW s \in SUBSET Villages, s # {}
      PROVE  /\ Settled(s) \in s /\ s \ {Settled(s)} \in SUBSET Villages
             /\ Cardinality(s \ {Settled(s)}) = Cardinality(s) - 1
  <2>1. Settled(s) \in s
    BY <1>4 DEF Settled
  <2>2. IsFiniteSet(s)
    BY <1>2
  <2> QED
    BY <2>1, <2>2, FS_RemoveElement
<1> QED
  BY <1>1, <1>2, <1>3, <1>4

LEMMA VillagesArePlaced == \E g : Settles(g)
<1> DEFINE P == {n \in Nat : \E g : SettlesUpTo(g, n)}
<1>1. 0 \in P
  <2> DEFINE g == [s \in SUBSET Villages |-> Empty]
  <2>1. \A s \in SUBSET Villages : Cardinality(s) <= 0 => s = {} /\ g[s] = Empty
    BY Settling
  <2> HIDE DEF g
  <2>2. SettlesUpTo(g, 0)
    BY <2>1 DEF SettlesUpTo, Placed
  <2> QED
    BY <2>2
<1>2. ASSUME NEW n \in Nat, n \in P PROVE n + 1 \in P
  <2>1. PICK g : SettlesUpTo(g, n)
    BY <1>2
  <2> DEFINE h == [s \in SUBSET Villages |-> IF Cardinality(s) <= n THEN g[s] ELSE Placed(g, s)]
  <2>2. \A s \in SUBSET Villages : h[s] = IF Cardinality(s) <= n THEN g[s] ELSE Placed(g, s)
    OBVIOUS
  <2> HIDE DEF h
  <2>3. ASSUME NEW s \in SUBSET Villages, Cardinality(s) <= n + 1 PROVE h[s] = Placed(h, s)
    <3>0. h[s] = Placed(g, s)
      BY <2>1, <2>2 DEF SettlesUpTo
    <3>1. CASE s = {}
      BY <3>0, <3>1 DEF Placed
    <3>2. CASE s # {}
      <4> DEFINE t == s \ {Settled(s)}
      <4>1. t \in SUBSET Villages /\ Cardinality(t) <= n
        BY <2>3, <3>2, Settling
      <4>2. h[t] = g[t]
        BY <2>2, <4>1
      <4> QED
        BY <3>0, <3>2, <4>2 DEF Placed
    <3> QED
      BY <3>1, <3>2
  <2>4. SettlesUpTo(h, n + 1)
    BY <2>3 DEF SettlesUpTo
  <2> QED
    BY <2>4
<1>3. Nat \subseteq P
  <2> HIDE DEF P
  <2> QED
    BY <1>1, <1>2, FieldNatAll
<1>4. PICK g : SettlesUpTo(g, Cardinality(Villages))
  BY <1>3, Settling
<1> DEFINE h == [s \in SUBSET Villages |-> g[s]]
<1>5. (\A s \in SUBSET Villages : h[s] = g[s]) /\ h = [s \in SUBSET Villages |-> h[s]]
  OBVIOUS
<1> HIDE DEF h
<1>6. ASSUME NEW s \in SUBSET Villages PROVE h[s] = Placed(h, s)
  <2>1. h[s] = Placed(g, s)
    BY <1>4, <1>5, Settling DEF SettlesUpTo
  <2>2. CASE s = {}
    BY <2>1, <2>2 DEF Placed
  <2>3. CASE s # {}
    <3>1. s \ {Settled(s)} \in SUBSET Villages
      BY <2>3, Settling
    <3>2. h[s \ {Settled(s)}] = g[s \ {Settled(s)}]
      BY <1>5, <3>1
    <3> QED
      BY <2>1, <2>3, <3>2 DEF Placed
  <2> QED
    BY <2>2, <2>3
<1>7. Settles(h)
  BY <1>5, <1>6 DEF Settles
<1> QED
  BY <1>7

\* The field begins with a pool as it should be, whatever the order of the villages.
LEMMA FieldBegins == FieldInit => FieldIInv
<1> SUFFICES ASSUME FieldInit PROVE FieldIInv
  OBVIOUS
<1> DEFINE g == CHOOSE g : Settles(g)
           villages == g[Villages]
<1>1. Settles(g)
  BY VillagesArePlaced
<1>2. entity = Spawned(Spawned(villages, "outpost", 1, Home[1]), "outpost", 2, Home[2])
  BY DEF FieldInit, FoldSet, MapThenFoldSet, Settles, Placed, Settled, Empty
<1> HIDE DEF g
<1>3. \A s \in SUBSET Villages : g[s] = Placed(g, s)
  BY <1>1 DEF Settles
<1> DEFINE P == {n \in Nat : \A s \in SUBSET Villages : Cardinality(s) <= n => FitPool(g[s])}
<1>4. FitPool(Empty)
  BY DEF FitPool, Empty
<1>5. 0 \in P
  <2>1. ASSUME NEW s \in SUBSET Villages, Cardinality(s) <= 0 PROVE FitPool(g[s])
    <3>1. s = {}
      BY <2>1, Settling
    <3>2. g[s] = Empty
      BY <1>3, <3>1 DEF Placed
    <3> QED
      BY <1>4, <3>2
  <2> QED
    BY <2>1
<1>6. ASSUME NEW n \in Nat, n \in P PROVE n + 1 \in P
  <2> SUFFICES ASSUME NEW s \in SUBSET Villages, Cardinality(s) <= n + 1 PROVE FitPool(g[s])
    OBVIOUS
  <2>1. CASE s = {}
    BY <1>3, <1>4, <2>1 DEF Placed
  <2>2. CASE s # {}
    <3> DEFINE at == Settled(s)
               es == g[s \ {at}]
    <3>1. at \in Villages /\ s \ {at} \in SUBSET Villages /\ Cardinality(s \ {at}) <= n
      BY <2>2, Settling
    <3>2. FitPool(es) /\ at \in Cells
      BY <1>6, <3>1, FieldSizes
    <3>3. g[s] = Spawned(es, "village", 0, at)
      BY <1>3, <2>2 DEF Placed
    <3> HIDE DEF at, es
    <3>4. "village" \in Kinds /\ 0 \in {0, 1, 2}
      BY DEF Kinds
    <3> QED
      BY <3>2, <3>3, <3>4, SpawnFills
  <2> QED
    BY <2>1, <2>2
<1>7. Nat \subseteq P
  <2> HIDE DEF P
  <2> QED
    BY <1>5, <1>6, FieldNatAll
<1>8. FitPool(villages)
  BY <1>7, Settling
<1> HIDE DEF villages
<1>9. FitPool(entity)
  <2> DEFINE one == Spawned(villages, "outpost", 1, Home[1])
  <2>1. "outpost" \in Kinds /\ "outpost" # "village" /\ Home[1] \in Cells /\ Home[2] \in Cells
        /\ 1 \in Owners /\ 2 \in Owners /\ 1 \in {0, 1, 2} /\ 2 \in {0, 1, 2}
    BY FieldSizes DEF Kinds, Cards, Owners
  <2>2. FitPool(one)
    BY <1>8, <2>1, SpawnFills
  <2> HIDE DEF one
  <2>3. FitPool(Spawned(one, "outpost", 2, Home[2]))
    BY <2>1, <2>2, SpawnFills
  <2> QED
    BY <1>2, <2>3 DEF one
<1> HIDE DEF P
<1>0. /\ cell = [c \in Cells |-> "neutral"]
      /\ influence = [o \in Owners |-> Purse] /\ income = [o \in Owners |-> 0]
      /\ recovering = [o \in Owners |-> [k \in Cards |-> 0]]
      /\ held = [o \in Owners |-> 0]
      /\ life = 0 /\ fieldTime = 0 /\ winner = 0
      /\ idle = [o \in Owners |-> [k \in Cards |-> Recovery[k]]]
      /\ streak = [o \in Owners |-> 0]
  BY DEF FieldInit, FoldSet, MapThenFoldSet
<1>10. cell \in [Cells -> {"neutral", "player", "enemy"}] /\ influence \in [Owners -> 0 .. PurseCap]
       /\ income \in [Owners -> 0 .. IncomeTicks - 1]
  BY <1>0, FieldSizes
<1>11. recovering \in [Owners -> [Cards -> Nat]] /\ idle \in [Owners -> [Cards -> Nat]]
       /\ \A o \in Owners, k \in Cards : /\ idle[o][k] <= Recovery[k]
                                         /\ recovering[o][k] = Recovery[k] - idle[o][k]
  BY <1>0, FieldSizes
<1>12. held \in [Owners -> Nat] /\ streak = held /\ life \in 0 .. LifeTicks - 1 /\ fieldTime \in Nat
       /\ winner \in Owners \cup {0}
  BY <1>0, FieldSizes
<1> QED
  BY <1>9, <1>10, <1>11, <1>12 DEF FieldIInv

LEMMA CardIsPlayed ==
    ASSUME FieldIInv, NEW o \in Owners, NEW k \in Cards, NEW at \in Drops, local_apply_card(o, k, at)
    PROVE  /\ FieldIInv'
           /\ \E i \in 1 .. Pool :
                 /\ entity[i] = Absent /\ entity'[i] # Absent
                 /\ entity'[i].owner = o /\ entity'[i].type = k
                 /\ \A j \in 1 .. Pool \ {i} : entity'[j] = entity[j]
           /\ \A p \in Owners : influence'[p] < influence[p] => p = o
           /\ influence[o] - influence'[o] = PriceOf[k]
           /\ \A p \in Owners, c \in Cards :
                 recovering'[p][c] > recovering[p][c] => idle[p][c] = Recovery[c]
<1>0. PriceOf[k] \in Nat /\ PurseCap \in Nat /\ Recovery \in [Cards -> Nat] /\ at \in Cells
  BY FieldSizes
<1>1. k \in Kinds /\ o \in {0, 1, 2} /\ k # "village" /\ (k = "village" => o = 0)
  BY DEF Kinds, Cards, Owners
<1>2. /\ influence[o] >= PriceOf[k] /\ recovering[o][k] = 0 /\ HasRoom(entity)
      /\ entity' = Spawned(entity, k, o, at)
      /\ influence' = [influence EXCEPT ![o] = influence[o] - PriceOf[k]]
      /\ recovering' = [recovering EXCEPT ![o][k] = Recovery[k]]
      /\ idle' = [idle EXCEPT ![o][k] = 0]
      /\ UNCHANGED <<cell, income, held, life, fieldTime, winner, streak>>
  BY DEF local_apply_card, Playable
<1>3. FitPool(entity)
  BY DEF FieldIInv
<1>4. FitPool(entity')
  <2>1. FitPool(Spawned(entity, k, o, at))
    BY <1>0, <1>1, <1>3, SpawnFills
  <2> QED
    BY <1>2, <2>1
<1>5. PICK i \in 1 .. Pool : entity[i] = Absent /\ entity' = [entity EXCEPT ![i] = Entity(k, o, at)]
  BY <1>0, <1>1, <1>2, <1>3, SpawnFills
<1>6. FitEntity(Entity(k, o, at)) /\ Entity(k, o, at).owner = o /\ Entity(k, o, at).type = k
  BY <1>0, <1>1, EntityIsWhole
<1>7. /\ entity[i] = Absent /\ entity'[i] # Absent
      /\ entity'[i].owner = o /\ entity'[i].type = k
      /\ \A j \in 1 .. Pool \ {i} : entity'[j] = entity[j]
  <2>1. entity'[i] = Entity(k, o, at) /\ \A j \in 1 .. Pool \ {i} : entity'[j] = entity[j]
    BY <1>3, <1>5 DEF FitPool
  <2>2. Entity(k, o, at) # Absent
    BY <1>6, StandingIsThere
  <2> QED
    BY <1>5, <1>6, <2>1, <2>2
<1>8. /\ influence' \in [Owners -> 0 .. PurseCap]
      /\ \A p \in Owners : influence'[p] < influence[p] => p = o
      /\ influence[o] - influence'[o] = PriceOf[k]
  BY <1>0, <1>2 DEF FieldIInv
<1>9. recovering' \in [Owners -> [Cards -> Nat]] /\ idle' \in [Owners -> [Cards -> Nat]]
  BY <1>0, <1>2 DEF FieldIInv
<1>10. \A p \in Owners, c \in Cards :
          /\ recovering'[p][c] = IF p = o /\ c = k THEN Recovery[k] ELSE recovering[p][c]
          /\ idle'[p][c] = IF p = o /\ c = k THEN 0 ELSE idle[p][c]
  BY <1>2 DEF FieldIInv
<1>11. \A p \in Owners, c \in Cards : /\ idle'[p][c] <= Recovery[c]
                                      /\ recovering'[p][c] = Recovery[c] - idle'[p][c]
  BY <1>0, <1>10 DEF FieldIInv
<1>12. idle[o][k] = Recovery[k]
  <2>1. idle[o][k] \in Nat /\ Recovery[k] \in Nat /\ recovering[o][k] = Recovery[k] - idle[o][k]
    BY <1>0 DEF FieldIInv
  <2>2. recovering[o][k] = 0
    BY <1>2
  <2> QED
    BY <2>1, <2>2
<1>13. \A p \in Owners, c \in Cards :
          recovering'[p][c] > recovering[p][c] => idle[p][c] = Recovery[c]
  <2> SUFFICES ASSUME NEW p \in Owners, NEW c \in Cards, recovering'[p][c] > recovering[p][c]
               PROVE  idle[p][c] = Recovery[c]
    OBVIOUS
  <2>1. recovering[p][c] \in Nat
    BY DEF FieldIInv
  <2>2. p = o /\ c = k
    BY <1>10, <2>1
  <2> QED
    BY <1>12, <2>2
<1>14. FieldIInv'
  BY <1>2, <1>4, <1>8, <1>9, <1>11 DEF FieldIInv
<1> QED
  BY <1>7, <1>8, <1>13, <1>14

\* The colours of the cells stay colours.
LEMMA ColoursStay ==
    ASSUME NEW cs \in [Cells -> {"neutral", "player", "enemy"}]
    PROVE  /\ Painted(cs) \in [Cells -> {"neutral", "player", "enemy"}]
           /\ Grown(cs) \in [Cells -> {"neutral", "player", "enemy"}]
<1>1. \A o : Colour(o) \in {"neutral", "player", "enemy"}
  BY DEF Colour
<1>2. Painted(cs) \in [Cells -> {"neutral", "player", "enemy"}]
  <2>1. Painted(cs) = [c \in Cells |-> Painted(cs)[c]]
    BY DEF Painted
  <2>2. ASSUME NEW c \in Cells PROVE Painted(cs)[c] \in {"neutral", "player", "enemy"}
    <3> DEFINE here == {i \in OnField(entity) : entity[i].at = c /\ entity[i].type # "village"}
    <3>1. Painted(cs)[c] = IF here = {} THEN cs[c] ELSE Colour(entity[Max(here)].owner)
      BY DEF Painted
    <3> HIDE DEF here
    <3> QED
      BY <1>1, <3>1
  <2> QED
    BY <2>1, <2>2
<1>3. Grown(cs) \in [Cells -> {"neutral", "player", "enemy"}]
  <2>1. Grown(cs) = [c \in Cells |-> Grown(cs)[c]]
    BY DEF Grown
  <2>2. \A c \in Cells : Grown(cs)[c] \in {"player", "enemy", cs[c]}
    BY DEF Grown
  <2>3. \A c \in Cells : Grown(cs)[c] \in {"neutral", "player", "enemy"}
    BY <2>2
  <2> QED
    BY <2>1, <2>3
<1> QED
  BY <1>2, <1>3

\* The income of a tick stays within the purse and takes nothing.
LEMMA IncomeFits ==
    ASSUME FieldIInv, NEW o \in Owners
    PROVE  /\ Income(o)[1] \in 0 .. PurseCap /\ Income(o)[1] >= influence[o]
           /\ Income(o)[2] \in 0 .. IncomeTicks - 1
<1>1. influence[o] \in 0 .. PurseCap /\ income[o] \in 0 .. IncomeTicks - 1
      /\ IncomeTicks \in Nat \ {0} /\ PurseCap \in Nat
  BY FieldSizes DEF FieldIInv
<1>2. CASE influence[o] >= PurseCap
  <2>1. Income(o) = <<influence[o], income[o]>>
    BY <1>2 DEF Income
  <2> QED
    BY <1>1, <2>1
<1>3. CASE ~(influence[o] >= PurseCap) /\ income[o] + 1 >= IncomeTicks
  <2>1. Income(o) = <<influence[o] + 1, income[o] + 1 - IncomeTicks>>
    BY <1>3 DEF Income
  <2> QED
    BY <1>1, <1>3, <2>1
<1>4. CASE ~(influence[o] >= PurseCap) /\ ~(income[o] + 1 >= IncomeTicks)
  <2>1. Income(o) = <<influence[o], income[o] + 1>>
    BY <1>4 DEF Income
  <2> QED
    BY <1>1, <1>4, <2>1
<1> QED
  BY <1>2, <1>3, <1>4

LEMMA TickGoesOn ==
    ASSUME FieldIInv, local_update
    PROVE  /\ FieldIInv'
           /\ \A o \in Owners : influence'[o] >= influence[o]
           /\ \A o \in Owners, k \in Cards : recovering'[o][k] <= recovering[o][k]
           /\ winner' # winner =>
                 /\ winner = 0
                 /\ \/ streak'[winner'] >= HoldTicks
                    \/ winner' = 1 /\ Outposts(entity', 2) = {}
<1>1. /\ winner = 0
      /\ influence' = [o \in Owners |-> Income(o)[1]]
      /\ income' = [o \in Owners |-> Income(o)[2]]
      /\ recovering' = [o \in Owners |-> [k \in Cards |-> Recovered(recovering[o][k])]]
      /\ entity' = Upgrade(AllActed)
      /\ life' = IF life + 1 >= LifeTicks THEN 0 ELSE life + 1
      /\ cell' = IF life' = 0 THEN Grown(Painted(cell)) ELSE Painted(cell)
      /\ fieldTime' = fieldTime + 1
      /\ held' = Holding(cell', held)
      /\ winner' = Outcome(entity', held')
      /\ idle' = [o \in Owners |-> [k \in Cards |-> Min({idle[o][k] + 1, Recovery[k]})]]
      /\ streak' = [o \in Owners |-> IF Majority(cell', o) THEN streak[o] + 1 ELSE 0]
  BY DEF local_update
<1>2. FitPool(entity')
  <2>1. FitPool(Upgrade(AllActed))
    BY AllAreWhole, UpgradeIsWhole DEF FieldIInv
  <2> QED
    BY <1>1, <2>1
<1>3. cell' \in [Cells -> {"neutral", "player", "enemy"}]
  <2>1. Painted(cell) \in [Cells -> {"neutral", "player", "enemy"}]
    BY ColoursStay DEF FieldIInv
  <2>2. Grown(Painted(cell)) \in [Cells -> {"neutral", "player", "enemy"}]
    BY <2>1, ColoursStay
  <2> QED
    BY <1>1, <2>1, <2>2
<1>4. /\ influence' \in [Owners -> 0 .. PurseCap] /\ \A o \in Owners : influence'[o] >= influence[o]
      /\ income' \in [Owners -> 0 .. IncomeTicks - 1]
  BY <1>1, IncomeFits
<1>5. ASSUME NEW o \in Owners, NEW k \in Cards
      PROVE  /\ recovering'[o][k] \in Nat /\ recovering'[o][k] <= recovering[o][k]
             /\ idle'[o][k] \in Nat /\ idle'[o][k] <= Recovery[k]
             /\ recovering'[o][k] = Recovery[k] - idle'[o][k]
  <2>1. /\ recovering[o][k] \in Nat /\ idle[o][k] \in Nat /\ Recovery[k] \in Nat
        /\ idle[o][k] <= Recovery[k] /\ recovering[o][k] = Recovery[k] - idle[o][k]
    BY FieldSizes DEF FieldIInv
  <2>2. recovering'[o][k] = Recovered(recovering[o][k]) /\ idle'[o][k] = Min({idle[o][k] + 1, Recovery[k]})
    BY <1>1
  <2>3. idle'[o][k] = IF idle[o][k] + 1 <= Recovery[k] THEN idle[o][k] + 1 ELSE Recovery[k]
    BY <2>1, <2>2, MinOfTwo
  <2> QED
    BY <2>1, <2>2, <2>3 DEF Recovered
<1>6. recovering' \in [Owners -> [Cards -> Nat]] /\ idle' \in [Owners -> [Cards -> Nat]]
  <2>1. /\ recovering' = [o \in Owners |-> [k \in Cards |-> recovering'[o][k]]]
        /\ idle' = [o \in Owners |-> [k \in Cards |-> idle'[o][k]]]
    BY <1>1
  <2> QED
    BY <1>5, <2>1
<1>7. held' \in [Owners -> Nat] /\ streak' = held'
  <2>1. \A o \in Owners : held[o] \in Nat /\ held[o] + 1 \in Nat /\ streak[o] = held[o]
    BY DEF FieldIInv
  <2>2. held' = [o \in Owners |-> IF Majority(cell', o) THEN held[o] + 1 ELSE 0]
    BY <1>1 DEF Holding
  <2> QED
    BY <1>1, <2>1, <2>2
<1>8. life' \in 0 .. LifeTicks - 1 /\ fieldTime' \in Nat
  BY <1>1, FieldSizes DEF FieldIInv
<1>9. /\ winner' \in {0, 1, 2}
      /\ winner' = 1 => Outposts(entity', 2) = {} \/ held'[1] >= HoldTicks
      /\ winner' = 2 => held'[2] >= HoldTicks
  BY <1>1 DEF Outcome
<1>10. FieldIInv'
  <2>1. \A o \in Owners, k \in Cards : /\ idle'[o][k] <= Recovery[k]
                                       /\ recovering'[o][k] = Recovery[k] - idle'[o][k]
    BY <1>5
  <2>2. winner' \in Owners \cup {0}
    BY <1>9 DEF Owners
  <2> QED
    BY <1>2, <1>3, <1>4, <1>6, <1>7, <1>8, <2>1, <2>2 DEF FieldIInv
<1> QED
  BY <1>1, <1>4, <1>5, <1>7, <1>9, <1>10

LEMMA FieldGoesOn == FieldIInv /\ [FieldNext]_fieldVars => FieldIInv'
<1> SUFFICES ASSUME FieldIInv, [FieldNext]_fieldVars PROVE FieldIInv'
  OBVIOUS
<1>1. CASE \E o \in Owners, k \in Cards, at \in Drops : local_apply_card(o, k, at)
  BY <1>1, CardIsPlayed
<1>2. CASE local_update
  BY <1>2, TickGoesOn
<1>3. CASE UNCHANGED fieldVars
  BY <1>3 DEF fieldVars, FieldIInv, FitPool
<1> QED
  BY <1>1, <1>2, <1>3 DEF FieldNext, FieldOver

LEMMA FieldIsTyped == FieldIInv => FieldTypeOK
<1> SUFFICES ASSUME FieldIInv PROVE FieldTypeOK
  OBVIOUS
<1>1. ASSUME NEW i \in OnField(entity)
      PROVE  /\ entity[i].type \in Cards \cup {"village"}
             /\ entity[i].owner \in IF entity[i].type = "village" THEN {0} ELSE Owners
             /\ entity[i].at \in Cells
             /\ entity[i].hp \in 1 .. Max({Health[entity[i].type], Upgraded})
  <2>1. FitEntity(entity[i])
    BY DEF OnField, FieldIInv, FitPool
  <2> QED
    BY <2>1 DEF FitEntity, FieldEntity, Kinds
<1>2. \A o \in Owners, k \in Cards : recovering[o][k] \in 0 .. Recovery[k]
  <2> SUFFICES ASSUME NEW o \in Owners, NEW k \in Cards PROVE recovering[o][k] \in 0 .. Recovery[k]
    OBVIOUS
  <2> QED
    BY FieldSizes DEF FieldIInv
<1> QED
  BY <1>1, <1>2 DEF FieldIInv, FieldTypeOK

(* For any grid, pool and figures of the cards: no slot holds the dead, a     *)
(* stranger or anyone off the grid, and purses, recoveries and the winner stay *)
(* within their bounds (spawn_entity, resolve_unit_combat, local_update).     *)
THEOREM FieldIsSound == FieldSpec => []FieldTypeOK
<1>1. FieldSpec => []FieldIInv
  BY FieldBegins, FieldGoesOn, PTL DEF FieldSpec
<1> QED
  BY <1>1, FieldIsTyped, PTL

LEMMA StepsAreEarned ==
    FieldIInv /\ [FieldNext]_fieldVars =>
       /\ [winner' # winner =>
             /\ winner = 0
             /\ \/ streak'[winner'] >= HoldTicks
                \/ winner' = 1 /\ Outposts(entity', 2) = {}]_fieldVars
       /\ [\A o \in Owners : influence'[o] < influence[o] =>
             \E i \in 1 .. Pool :
                /\ entity[i] = Absent /\ entity'[i] # Absent
                /\ entity'[i].owner = o
                /\ influence[o] - influence'[o] = PriceOf[entity'[i].type]
                /\ \A j \in 1 .. Pool \ {i} : entity'[j] = entity[j]]_fieldVars
       /\ [\A o \in Owners, k \in Cards :
             recovering'[o][k] > recovering[o][k] => idle[o][k] >= Recovery[k]]_fieldVars
<1> SUFFICES ASSUME FieldIInv, FieldNext, ~UNCHANGED fieldVars
             PROVE  /\ winner' # winner =>
                          /\ winner = 0
                          /\ \/ streak'[winner'] >= HoldTicks
                             \/ winner' = 1 /\ Outposts(entity', 2) = {}
                    /\ \A o \in Owners : influence'[o] < influence[o] =>
                          \E i \in 1 .. Pool :
                             /\ entity[i] = Absent /\ entity'[i] # Absent
                             /\ entity'[i].owner = o
                             /\ influence[o] - influence'[o] = PriceOf[entity'[i].type]
                             /\ \A j \in 1 .. Pool \ {i} : entity'[j] = entity[j]
                    /\ \A o \in Owners, k \in Cards :
                          recovering'[o][k] > recovering[o][k] => idle[o][k] >= Recovery[k]
  OBVIOUS
<1>1. ASSUME NEW o \in Owners, NEW k \in Cards
      PROVE  recovering[o][k] \in Nat /\ influence[o] \in Nat /\ Recovery[k] \in Nat
  BY FieldSizes DEF FieldIInv
<1>2. ASSUME NEW p \in Owners, NEW c \in Cards, NEW at \in Drops, local_apply_card(p, c, at)
      PROVE  /\ winner' = winner
             /\ \A o \in Owners : influence'[o] < influence[o] =>
                   \E i \in 1 .. Pool :
                      /\ entity[i] = Absent /\ entity'[i] # Absent
                      /\ entity'[i].owner = o
                      /\ influence[o] - influence'[o] = PriceOf[entity'[i].type]
                      /\ \A j \in 1 .. Pool \ {i} : entity'[j] = entity[j]
             /\ \A o \in Owners, k \in Cards :
                   recovering'[o][k] > recovering[o][k] => idle[o][k] >= Recovery[k]
  <2>1. winner' = winner
    BY <1>2 DEF local_apply_card
  <2>2. PICK i \in 1 .. Pool :
           /\ entity[i] = Absent /\ entity'[i] # Absent
           /\ entity'[i].owner = p /\ entity'[i].type = c
           /\ \A j \in 1 .. Pool \ {i} : entity'[j] = entity[j]
    BY <1>2, CardIsPlayed
  <2>3. /\ \A o \in Owners : influence'[o] < influence[o] => o = p
        /\ influence[p] - influence'[p] = PriceOf[c]
    BY <1>2, CardIsPlayed
  <2>4. \A o \in Owners, k \in Cards : recovering'[o][k] > recovering[o][k] => idle[o][k] = Recovery[k]
    BY <1>2, CardIsPlayed
  <2>5. \A o \in Owners, k \in Cards : recovering'[o][k] > recovering[o][k] => idle[o][k] >= Recovery[k]
    BY <1>1, <2>4
  <2> QED
    BY <2>1, <2>2, <2>3, <2>5
<1>3. ASSUME local_update
      PROVE  /\ winner' # winner =>
                   /\ winner = 0
                   /\ \/ streak'[winner'] >= HoldTicks
                      \/ winner' = 1 /\ Outposts(entity', 2) = {}
             /\ \A o \in Owners : ~(influence'[o] < influence[o])
             /\ \A o \in Owners, k \in Cards : ~(recovering'[o][k] > recovering[o][k])
  <2>1. FieldIInv'
    BY <1>3, TickGoesOn
  <2>2. \A o \in Owners, k \in Cards :
           influence'[o] \in Nat /\ influence[o] \in Nat /\ recovering'[o][k] \in Nat /\ recovering[o][k] \in Nat
    BY <2>1 DEF FieldIInv
  <2>3. "militia" \in Cards
    BY DEF Cards
  <2> QED
    BY <1>3, <2>2, <2>3, TickGoesOn
<1> QED
  BY <1>2, <1>3 DEF FieldNext, FieldOver

(* Territory wins only when held on end for the whole time, whatever a purse  *)
(* loses is paid for an entity that stands, and no card is played before its  *)
(* recovery has passed, for any figures of the cards (local_update,           *)
(* local_apply_card).                                                         *)
THEOREM FieldIsFair == FieldSpec => FieldSteps
<1>1. FieldSpec => []FieldIInv
  BY FieldBegins, FieldGoesOn, PTL DEF FieldSpec
<1> QED
  BY <1>1, StepsAreEarned, PTL DEF FieldSpec, FieldSteps, WinEarned, SpendingShows, CardsRest
==============================================================================
