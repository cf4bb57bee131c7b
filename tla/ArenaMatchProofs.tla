-------------------------- MODULE ArenaMatchProofs --------------------------
(***************************************************************************)
(* Theorems about the objective half of a team match, for any map of up to *)
(* five nodes, any rosters and any timing the assumptions admit.           *)
(***************************************************************************)
EXTENDS ArenaMatch, FiniteSetTheorems, WellFoundedInduction, TLAPS

USE DEF Side, Place, Elsewhere, Guarded, Undecided

(* The inductive invariant.                                                *)

\* A channel that lives on its own ticks alone, and one a guardian's death sped up:
\* that guardian is not back before the channel is over.
Unaided(n, t) ==
    /\ capture_progress[n] <= held[n][t] * TopRate
    /\ capture_progress[n] < Channel

Aided(n, t) ==
    /\ guardian[n] = -1
    /\ guardian_respawn[n] >= Channel - held[n][t] + IF stage = "orders" THEN 1 ELSE 0
    /\ capture_progress[n] <= held[n][t] * TopRate + NeutralBonus
    /\ capture_progress[n] < Channel + NeutralBonus

\* What a team has on its channel's account: it holds the node for as many ticks as
\* the channel lasts, fewer than would fill it, and progress pays for each of them.
Account(n) ==
    /\ \A t \in Side : held[n][t] > 0 => owner[n] = t + 1 \/ capturing_team[n] = t
    /\ capturing_team[n] = -1 => capture_progress[n] = 0
    /\ \A t \in Side : capturing_team[n] = t =>
          /\ 1 <= held[n][t] /\ held[n][t] < Channel
          /\ held[n][t] <= capture_progress[n]
          /\ Unaided(n, t) \/ Aided(n, t)

Accounts == \A n \in Node : Account(n)

\* A tick is only played of an undecided match, and the clock has not run out on it.
RaceOpen ==
    /\ stage = "fight" => winner = 0
    /\ winner = 0 => elapsed < MatchTicks

\* Nobody has been dead for longer than since the last wave.
SinceWave ==
    short_for <= IF stage = "orders" THEN elapsed % WaveTicks ELSE (elapsed + 1) % WaveTicks

IInv == /\ TypeOK /\ TowerGate /\ ChannelIsNeutral /\ OneHolder
        /\ Accounts /\ RaceOpen /\ WinnerNotBehind /\ SinceWave

-----------------------------------------------------------------------------
(* Lemmas on the operators.                                                *)

\* Counting modulo the wave: one more, unless a wave is due.
LEMMA OneMoreSinceWave ==
    ASSUME NEW e \in Nat, NEW w \in Nat, 1 <= w
    PROVE  /\ e % w \in 0 .. w - 1 /\ (e + 1) % w \in 0 .. w - 1
           /\ (e + 1) % w # 0 => (e + 1) % w = (e % w) + 1
<1> DEFINE q == e \div w
           r == e % w
           p == (e + 1) \div w
           s == (e + 1) % w
           d == p - q
<1>1. q \in Int /\ r \in 0 .. w - 1 /\ e = w * q + r
  OBVIOUS
<1>2. p \in Int /\ s \in 0 .. w - 1 /\ e + 1 = w * p + s
  OBVIOUS
<1> HIDE DEF q, r, p, s
<1>3. w * d = w * p - w * q /\ d \in Int
  BY <1>1, <1>2
<1> HIDE DEF d
<1>4. w * d = r + 1 - s
  BY <1>1, <1>2, <1>3
<1>5. (d >= 2 => w * d >= w + w) /\ (d <= -1 => w * d <= -w)
  BY <1>3
<1>6. d = 0 \/ d = 1
  BY <1>1, <1>2, <1>3, <1>4, <1>5
<1>7. d = 1 => s = 0
  BY <1>1, <1>2, <1>4
<1> QED
  BY <1>1, <1>2, <1>4, <1>6, <1>7 DEF s, r

\* The rate of a channel lies between one and TopRate, whoever is there.
LEMMA RateBounds ==
    ASSUME NEW n \in Node, NEW t \in Side
    PROVE  Rate(n, t) \in Nat /\ 1 <= Rate(n, t) /\ Rate(n, t) <= TopRate /\ TopRate \in Nat
BY ChannelAssumption DEF Rate, TopRate

\* At most one team holds a node: both can be there, but not both unseen.
LEMMA ExclusiveOnce ==
    ASSUME NEW n \in Node PROVE ~(Exclusive(n, 0) /\ Exclusive(n, 1))
BY DEF Exclusive, Visible

\* So all the choices arena_tick_nodes makes are of one team.
LEMMA OneChanneller ==
    ASSUME NEW n \in Node
    PROVE  /\ \A t, u \in Side : Channels(n, t) /\ Channels(n, u) => t = u
           /\ \A t \in Side : Channels(n, t) => n \notin tower
           /\ Captured(n) \subseteq Channelled(n) /\ Channelled(n) \subseteq Side
           /\ \A t \in Side : t \in Channelled(n) => Channelled(n) = {t}
<1>1. \A t, u \in Side : Channels(n, t) /\ Channels(n, u) => t = u
  BY ExclusiveOnce DEF Channels
<1> QED
  BY <1>1 DEF Channels, Exclusive, Captured, Channelled

\* Of any heroes one has the last place in heroes[].
LEMMA LastHero ==
    ASSUME NEW S \in SUBSET Hero, S # {}
    PROVE  \E h \in S : \A g \in S : Rank[g] <= Rank[h]
<1> DEFINE T == {MaxHeroes - Rank[h] : h \in S}
           R == OpToRel(<, Nat)
<1>1. \A h \in Hero : Rank[h] \in 0 .. MaxHeroes - 1
  BY RosterAssumption
<1>2. T \subseteq Nat /\ T # {}
  BY <1>1 DEF MaxHeroes
<1>3. \A x, y \in Nat : x < y => <<x, y>> \in R
  BY DEF OpToRel
<1> HIDE DEF R, T
<1>4. PICK x \in T : \A y \in T : ~(<<y, x>> \in R)
  <2>1. IsWellFoundedOn(R, Nat)
    BY NatLessThanWellFounded DEF R
  <2> QED
    BY <2>1, <1>2, WFMin
<1>5. PICK h \in S : x = MaxHeroes - Rank[h]
  BY DEF T
<1>6. ASSUME NEW g \in S PROVE Rank[g] <= Rank[h]
  <2>1. MaxHeroes - Rank[g] \in T
    BY DEF T
  <2>2. ~(MaxHeroes - Rank[g] < x)
    BY <2>1, <1>2, <1>3, <1>4
  <2> QED
    BY <2>2, <1>1, <1>5 DEF MaxHeroes
<1> QED
  BY <1>6

\* What a mark may be after a tick.
LEMMA NodeMarkType ==
    ASSUME TypeOK, NEW n \in Node
    PROVE  NodeMark(n).by \in -1 .. 1 /\ NodeMark(n).left \in 0 .. MarkTicks
<1>1. Marker(n) \in -1 .. 1
  <2> DEFINE here == (There(n, 0) \union There(n, 1)) \intersect Flamel
             h == CHOOSE x \in here : \A g \in here : Rank[g] <= Rank[x]
  <2>1. here \subseteq Hero
    BY DEF There, TypeOK
  <2>2. here # {} => h \in here
    BY <2>1, LastHero
  <2>3. \A x \in Hero : TeamOf[x] \in {0, 1}
    BY RosterAssumption
  <2>4. Marker(n) = IF here = {} THEN -1 ELSE TeamOf[h]
    BY DEF Marker
  <2> HIDE DEF here, h
  <2> QED
    BY <2>1, <2>2, <2>3, <2>4
<1> QED
  BY <1>1, ChannelAssumption DEF NodeMark, TypeOK

-----------------------------------------------------------------------------
(* IInv holds at first and is kept by the fight.                           *)

LEMMA InitIInv == Init => IInv
<1> SUFFICES ASSUME Init PROVE IInv
  OBVIOUS
<1>1. TypeOK
  BY ChannelAssumption, GuardianAssumption, ClockAssumption DEF Init, TypeOK
<1>2. TowerGate /\ ChannelIsNeutral /\ OneHolder /\ Accounts
  BY DEF Init, TowerGate, ChannelIsNeutral, OneHolder, Accounts, Account
<1>3. RaceOpen /\ WinnerNotBehind
  BY ClockAssumption DEF Init, RaceOpen, WinnerNotBehind
<1>4. SinceWave
  BY ClockAssumption, OneMoreSinceWave DEF Init, SinceWave
<1> QED
  BY <1>1, <1>2, <1>3, <1>4 DEF IInv

\* Whatever leaves the nodes' books and the race alone keeps what IInv says of them.
LEMMA SameBooks ==
    ASSUME IInv, tower' \subseteq tower,
           UNCHANGED <<creeps, owner, channels, race, stage, held, short_for>>
    PROVE  /\ TowerGate' /\ ChannelIsNeutral' /\ OneHolder' /\ Accounts'
           /\ RaceOpen' /\ WinnerNotBehind' /\ SinceWave'
<1> USE DEF IInv, creeps, channels, race
<1>1. TowerGate' /\ ChannelIsNeutral' /\ OneHolder'
  BY DEF TowerGate, ChannelIsNeutral, OneHolder
<1>2. Accounts'
  BY DEF Accounts, Account, Unaided, Aided
<1>3. RaceOpen' /\ SinceWave'
  BY DEF RaceOpen, SinceWave
<1>4. WinnerNotBehind'
  BY DEF WinnerNotBehind
<1> QED
  BY <1>1, <1>2, <1>3, <1>4

LEMMA HeroStepsIInv ==
    ASSUME IInv, NEW h \in Hero, NEW p \in Place, NEW N \in SUBSET Node,
           Hit(h) \/ Die(h) \/ Vanish(h) \/ Appear(h) \/ Move(h, p) \/ MarkNodes(h, N)
    PROVE  IInv'
<1>1. UNCHANGED <<tower, creeps, owner, channels, race, stage, history>>
  BY DEF Hit, Die, Vanish, Appear, Move, MarkNodes
<1>2. TypeOK'
  <2>1. at' \in [Hero -> Place]
    BY DEF Hit, Die, Vanish, Appear, Move, MarkNodes, heroes, IInv, TypeOK
  <2>2. alive' \subseteq Hero /\ intangible' \subseteq Hero /\ damaged' \subseteq Hero
    BY DEF Hit, Die, Vanish, Appear, Move, MarkNodes, heroes, IInv, TypeOK
  <2>3. marked_by_team' \in [Node -> -1 .. 1] /\ mark_remaining' \in [Node -> 0 .. MarkTicks]
    <3>1. marked_by_team \in [Node -> -1 .. 1] /\ mark_remaining \in [Node -> 0 .. MarkTicks]
      BY DEF IInv, TypeOK
    <3>2. CASE MarkNodes(h, N)
      BY <3>1, <3>2, RosterAssumption, ChannelAssumption DEF MarkNodes
    <3>3. CASE Hit(h) \/ Die(h) \/ Vanish(h) \/ Appear(h) \/ Move(h, p)
      BY <3>1, <3>3 DEF Hit, Die, Vanish, Appear, Move, marks
    <3> QED
      BY <3>2, <3>3
  <2> QED
    BY <1>1, <2>1, <2>2, <2>3 DEF IInv, TypeOK, creeps, channels, race, history
<1> QED
  BY <1>1, <1>2, SameBooks DEF IInv, history

LEMMA TowerFallsIInv == ASSUME IInv, NEW n \in Node, TowerFalls(n) PROVE IInv'
<1>1. /\ tower' \subseteq tower
      /\ UNCHANGED <<heroes, creeps, owner, channels, marks, race, stage, history>>
  BY DEF TowerFalls
<1>2. TypeOK'
  BY <1>1 DEF IInv, TypeOK, heroes, creeps, channels, marks, race, history
<1> QED
  BY <1>1, <1>2, SameBooks DEF IInv, history

\* A guardian's death adds its bonus to a channel no dead guardian has sped up.
LEMMA GuardianDiesIInv ==
    ASSUME IInv, NEW n \in Node, NEW h \in Hero, GuardianDies(n, h) PROVE IInv'
<1> DEFINE t == TeamOf[h]
           helps == capturing_team[n] = t /\ guardian[n] # t + 1
           bonus == IF guardian[n] = 0 THEN NeutralBonus ELSE DenyBonus
<1>1. /\ guardian[n] # -1 /\ guardian' = [guardian EXCEPT ![n] = -1]
      /\ guardian_respawn' = [guardian_respawn EXCEPT
             ![n] = IF guardian[n] = 0 THEN NeutralRespawn ELSE TeamRespawn]
      /\ capture_progress' = IF helps THEN [capture_progress EXCEPT ![n] = @ + bonus]
                             ELSE capture_progress
      /\ UNCHANGED <<heroes, tower, owner, capturing_team, marks, race, stage, history>>
  BY DEF GuardianDies
<1>2. t \in Side /\ bonus \in Nat /\ bonus <= NeutralBonus
  BY RosterAssumption, ChannelAssumption, GuardianAssumption
<1>3. \A m \in Node : /\ m # n => /\ guardian'[m] = guardian[m]
                                  /\ guardian_respawn'[m] = guardian_respawn[m]
                                  /\ capture_progress'[m] = capture_progress[m]
                      /\ guardian'[n] = -1 /\ guardian_respawn'[n] >= Channel
                      /\ capture_progress'[n] = capture_progress[n] + IF helps THEN bonus ELSE 0
  BY <1>1, GuardianAssumption, ChannelAssumption DEF IInv, TypeOK
<1> HIDE DEF bonus
<1>4. \A m \in Node : Account(m)'
  <2> SUFFICES ASSUME NEW m \in Node PROVE Account(m)'
    OBVIOUS
  <2>0. Account(m) /\ UNCHANGED <<owner, capturing_team, held, stage, TopRate>>
    BY <1>1 DEF IInv, Accounts, history, TopRate
  <2>1. CASE m # n
    BY <2>0, <2>1, <1>3 DEF Account, Unaided, Aided
  <2>2. CASE m = n
    <3>1. capturing_team[n] = -1 => capture_progress'[n] = 0
      BY <1>2, <1>3, <2>0, <2>2 DEF Account, IInv, TypeOK
    <3>2. ASSUME NEW u \in Side, capturing_team[n] = u
          PROVE  /\ held[n][u] <= capture_progress'[n]
                 /\ (Unaided(n, u) \/ Aided(n, u))'
      <4>1. /\ Unaided(n, u) /\ 1 <= held[n][u] /\ held[n][u] <= capture_progress[n]
            /\ held[n][u] \in Nat /\ capture_progress[n] \in Nat
        BY <1>1, <2>0, <2>2, <3>2 DEF Account, Aided, IInv, TypeOK
      <4>2. capture_progress'[n] \in {capture_progress[n], capture_progress[n] + bonus}
        BY <1>2, <1>3, <4>1
      <4>3. held[n][u] * TopRate \in Nat
        BY <4>1, RateBounds
      <4>4. CASE capture_progress'[n] = capture_progress[n]
        BY <4>1, <4>4, <2>0 DEF Unaided
      <4>5. CASE capture_progress'[n] = capture_progress[n] + bonus
        <5>1. capture_progress'[n] < Channel + NeutralBonus
          BY <4>1, <4>5, <1>2, ChannelAssumption DEF Unaided
        <5>2. capture_progress'[n] <= held[n][u] * TopRate + NeutralBonus
          BY <4>1, <4>3, <4>5, <1>2, ChannelAssumption DEF Unaided
        <5>3. guardian_respawn'[n] >= Channel - held[n][u] + IF stage = "orders" THEN 1 ELSE 0
          BY <4>1, <1>1, GuardianAssumption, ChannelAssumption DEF IInv, TypeOK
        <5> QED
          BY <4>1, <4>5, <1>2, <1>3, <2>0, <5>1, <5>2, <5>3 DEF Aided
      <4> QED
        BY <4>2, <4>4, <4>5
    <3> QED
      BY <2>0, <2>2, <3>1, <3>2 DEF Account
  <2> QED
    BY <2>1, <2>2
<1>5. capture_progress' \in [Node -> 0 .. Channel + NeutralBonus]
  <2> SUFFICES capture_progress'[n] \in 0 .. Channel + NeutralBonus
    BY <1>1, <1>3 DEF IInv, TypeOK
  <2>1. CASE helps
    BY <2>1, <1>1, <1>2, <1>3, ChannelAssumption
       DEF IInv, Accounts, Account, Unaided, Aided, TypeOK
  <2>2. CASE ~helps
    BY <2>2, <1>1, <1>3 DEF IInv, TypeOK
  <2> QED
    BY <2>1, <2>2
<1>6. TypeOK'
  BY <1>1, <1>5, GuardianAssumption
     DEF IInv, TypeOK, heroes, marks, race, history
<1>7. TowerGate' /\ ChannelIsNeutral' /\ OneHolder'
  BY <1>1, <1>3 DEF IInv, TowerGate, ChannelIsNeutral, OneHolder, history, TypeOK
<1>8. RaceOpen' /\ SinceWave' /\ WinnerNotBehind'
  BY <1>1 DEF IInv, RaceOpen, SinceWave, WinnerNotBehind, race, history
<1> QED
  BY <1>4, <1>6, <1>7, <1>8 DEF IInv, Accounts

-----------------------------------------------------------------------------
(* IInv is kept by the tick.                                               *)

LEMMA BeginTickIInv == ASSUME IInv, BeginTick PROVE IInv'
<1> DEFINE ticking == {n \in Node \ tower : guardian[n] = -1}
           due == {n \in ticking : guardian_respawn[n] <= 1}
<1>1. /\ stage = "orders" /\ winner = 0 /\ stage' = "fight"
      /\ guardian' = [n \in Node |-> IF n \in due THEN owner[n] ELSE guardian[n]]
      /\ guardian_respawn' = [n \in Node |->
             IF n \in due THEN 0
             ELSE IF n \in ticking THEN guardian_respawn[n] - 1
             ELSE guardian_respawn[n]]
      /\ UNCHANGED <<tower, owner, channels, marks, race, held, crowd>>
  BY DEF BeginTick
<1>2. /\ at' \in [Hero -> Place] /\ alive' \subseteq Hero
      /\ intangible' \subseteq Hero /\ damaged' \subseteq Hero
  BY DEF BeginTick, heroes, Fallen, IInv, TypeOK
<1>3. \A n \in Node : guardian_respawn'[n] \in 0 .. NeutralRespawn + TeamRespawn
                      /\ guardian'[n] \in -1 .. 2
  BY <1>1, GuardianAssumption DEF IInv, TypeOK
<1>4. short_for' \in 0 .. WaveTicks
  BY ClockAssumption DEF BeginTick, IInv, TypeOK
<1>5. TypeOK'
  <2>1. /\ guardian' \in [Node -> -1 .. 2]
        /\ guardian_respawn' \in [Node -> 0 .. NeutralRespawn + TeamRespawn]
    BY <1>1, <1>3
  <2> QED
    BY <1>1, <1>2, <1>4, <2>1 DEF IInv, TypeOK, channels, marks, race
<1>6. TowerGate' /\ ChannelIsNeutral' /\ OneHolder'
  <2>1. \A n \in tower : n \in Node /\ n \notin due
    BY DEF IInv, TypeOK
  <2>2. \A n \in tower : guardian'[n] = guardian[n]
    BY <2>1, <1>1
  <2>3. TowerGate'
    BY <2>2, <1>1 DEF IInv, TowerGate, channels
  <2> QED
    BY <2>3, <1>1 DEF IInv, ChannelIsNeutral, OneHolder, channels
<1>7. Accounts'
  <2> SUFFICES ASSUME NEW n \in Node PROVE Account(n)'
    BY DEF Accounts
  <2>1. Account(n) /\ UNCHANGED <<owner, capturing_team, capture_progress, held, TopRate>>
    BY <1>1 DEF IInv, Accounts, channels, TopRate
  <2>2. ASSUME NEW t \in Side, capturing_team[n] = t, Aided(n, t) PROVE Aided(n, t)'
    <3>1. held[n][t] < Channel /\ held[n][t] \in Nat /\ guardian_respawn[n] \in Nat
      BY <2>1, <2>2 DEF Account, IInv, TypeOK
    <3>2. guardian[n] = -1 /\ guardian_respawn[n] >= Channel - held[n][t] + 1
      BY <2>2, <1>1 DEF Aided
    <3>3. n \notin due
      BY <3>1, <3>2, ChannelAssumption
    <3>4. guardian'[n] = -1 /\ guardian_respawn'[n] >= Channel - held[n][t]
      BY <3>1, <3>2, <3>3, <1>1, ChannelAssumption
    <3> QED
      BY <3>1, <3>4, <2>1, <2>2, <1>1, ChannelAssumption DEF Aided
  <2>3. ASSUME NEW t \in Side, Unaided(n, t) PROVE Unaided(n, t)'
    BY <2>1, <2>3 DEF Unaided
  <2> QED
    BY <2>1, <2>2, <2>3 DEF Account
<1>8. RaceOpen' /\ WinnerNotBehind'
  BY <1>1 DEF IInv, RaceOpen, WinnerNotBehind, race
<1>9. SinceWave'
  <2>1. elapsed \in Nat /\ UNCHANGED elapsed /\ short_for <= elapsed % WaveTicks
    BY <1>1 DEF IInv, TypeOK, SinceWave, race
  <2>2. /\ (elapsed + 1) % WaveTicks \in 0 .. WaveTicks - 1
        /\ elapsed % WaveTicks \in 0 .. WaveTicks - 1
        /\ (elapsed + 1) % WaveTicks # 0 => (elapsed + 1) % WaveTicks = (elapsed % WaveTicks) + 1
    BY <2>1, OneMoreSinceWave, ClockAssumption
  <2>3. CASE (elapsed + 1) % WaveTicks = 0
    <3>1. alive' = Hero
      BY <2>3 DEF BeginTick, Fallen, IInv, TypeOK
    <3>2. short_for' = 0
      BY <3>1 DEF BeginTick
    <3> QED
      BY <3>2, <2>1, <2>2, <1>1 DEF SinceWave
  <2>4. CASE (elapsed + 1) % WaveTicks # 0
    <3>1. short_for' <= short_for + 1 /\ short_for \in Nat /\ short_for' \in Nat
      BY ClockAssumption DEF BeginTick, IInv, TypeOK
    <3>2. short_for' <= (elapsed + 1) % WaveTicks
      <4>1. (elapsed + 1) % WaveTicks = (elapsed % WaveTicks) + 1
        BY <2>2, <2>4
      <4> QED
        BY <4>1, <3>1, <2>1, <2>2
    <3> QED
      BY <3>2, <2>1, <1>1 DEF SinceWave
  <2> QED
    BY <2>3, <2>4
<1> QED
  BY <1>5, <1>6, <1>7, <1>8, <1>9 DEF IInv

\* What arena_tick_nodes does to one node, its choices resolved.
LEMMA NodeTick ==
    ASSUME IInv, TickNodes, NEW n \in Node
    PROVE  /\ \A t \in Side : t \in Captured(n) => owner'[n] = t + 1
           /\ Captured(n) = {} => owner'[n] = IF Tapped(n) # {} THEN 0 ELSE owner[n]
           /\ \/ /\ capturing_team'[n] = -1 /\ capture_progress'[n] = 0
                 /\ Channelled(n) \ Captured(n) = {}
              \/ \E t \in Side : /\ t \in Channelled(n) /\ Captured(n) = {}
                                 /\ capturing_team'[n] = t
                                 /\ capture_progress'[n] = Progress(n, t)
           /\ \A t \in Side : held'[n][t] = IF ~Channels(n, t) THEN 0
                                            ELSE IF held[n][t] < Channel THEN held[n][t] + 1
                                            ELSE Channel
<1>1. \A t \in Side : t \in Channelled(n) => Channelled(n) = {t}
  BY OneChanneller
<1>2. Captured(n) \subseteq Channelled(n) /\ Channelled(n) \subseteq Side
  BY OneChanneller
<1>3. ASSUME NEW t \in Side, t \in Captured(n) PROVE owner'[n] = t + 1
  <2>1. \A u \in Side : u \in Captured(n) => u = t
    BY <1>1, <1>2, <1>3
  <2>2. (CHOOSE u \in Side : u \in Captured(n)) = t
    BY <2>1, <1>3
  <2> QED
    BY <2>2, <1>3 DEF TickNodes
<1>4. Captured(n) = {} => owner'[n] = IF Tapped(n) # {} THEN 0 ELSE owner[n]
  BY DEF TickNodes
<1>5. CASE Channelled(n) \ Captured(n) = {}
  BY <1>3, <1>4, <1>5 DEF TickNodes
<1>6. CASE Channelled(n) \ Captured(n) # {}
  <2>1. PICK t \in Side : t \in Channelled(n) /\ t \notin Captured(n)
    BY <1>2, <1>6
  <2>2. Channelled(n) = {t} /\ Captured(n) = {}
    BY <2>1, <1>1, <1>2
  <2>3. (CHOOSE u \in Side : u \in Channelled(n)) = t
    BY <2>2
  <2>4. capturing_team'[n] = t /\ capture_progress'[n] = Progress(n, t)
    BY <2>3, <1>6 DEF TickNodes
  <2> QED
    BY <2>1, <2>2, <2>4, <1>3, <1>4 DEF TickNodes
<1> QED
  BY <1>5, <1>6

\* A channel that goes on, or begins, for one more tick.
LEMMA ChannelTick ==
    ASSUME IInv, TickNodes, NEW n \in Node, NEW t \in Side, t \in Channelled(n)
    PROVE  /\ Progress(n, t) \in Nat
           /\ Starts(n, t) => /\ Progress(n, t) <= TopRate /\ 1 <= Progress(n, t)
                              /\ held[n][t] = 0
           /\ ~Starts(n, t) => /\ capturing_team[n] = t
                               /\ Progress(n, t) = capture_progress[n] + Rate(n, t)
           /\ 1 <= Channel => held'[n][t] = held[n][t] + 1 /\ held'[n][t] <= Progress(n, t)
<1>1. Channels(n, t) /\ owner[n] # t + 1
  BY DEF Channelled
<1>2. Rate(n, t) \in Nat /\ 1 <= Rate(n, t) /\ Rate(n, t) <= TopRate
  BY RateBounds
<1>3. capture_progress[n] \in Nat /\ held[n][t] \in Nat
  BY DEF IInv, TypeOK
<1>4. Account(n)
  BY DEF IInv, Accounts
<1>5. held'[n][t] = IF held[n][t] < Channel THEN held[n][t] + 1 ELSE Channel
  BY <1>1, NodeTick
<1>6. CASE Starts(n, t)
  <2>1. Progress(n, t) = Rate(n, t)
    BY <1>2, <1>6 DEF Progress
  <2>2. held[n][t] = 0
    BY <1>1, <1>3, <1>4, <1>6 DEF Account, Starts
  <2> QED
    BY <2>1, <2>2, <1>2, <1>5, <1>6, ChannelAssumption
<1>7. CASE ~Starts(n, t)
  <2>1. capturing_team[n] = t /\ Progress(n, t) = capture_progress[n] + Rate(n, t)
    BY <1>1, <1>7 DEF Starts, Progress
  <2>2. held[n][t] < Channel /\ held[n][t] <= capture_progress[n]
    BY <2>1, <1>4 DEF Account
  <2> QED
    BY <2>1, <2>2, <1>2, <1>3, <1>5, <1>7, ChannelAssumption
<1> QED
  BY <1>6, <1>7

LEMMA EndTickAccounts == ASSUME IInv, EndTick, NEW n \in Node PROVE Account(n)'
<1>1. TickNodes /\ stage' = "orders" /\ stage = "fight" /\ UNCHANGED <<tower, creeps, TopRate>>
  BY DEF EndTick, TopRate
<1>2. Account(n) /\ capture_progress[n] \in Nat /\ held[n] \in [Side -> 0 .. Channel]
  BY DEF IInv, Accounts, TypeOK
<1>3. \A t \in Side : held'[n][t] = IF ~Channels(n, t) THEN 0
                                    ELSE IF held[n][t] < Channel THEN held[n][t] + 1 ELSE Channel
  BY <1>1, NodeTick
<1>4. CASE capturing_team'[n] = -1
  <2>1. Channelled(n) \ Captured(n) = {} /\ capture_progress'[n] = 0
    BY <1>1, <1>4, NodeTick
  <2>2. ASSUME NEW t \in Side, held'[n][t] > 0 PROVE owner'[n] = t + 1
    <3>1. Channels(n, t)
      BY <2>2, <1>3
    <3>2. CASE owner[n] # t + 1
      <4>1. t \in Captured(n)
        BY <3>1, <3>2, <2>1 DEF Channelled
      <4> QED
        BY <4>1, <1>1, NodeTick
    <3>3. CASE owner[n] = t + 1
      <4>1. \A u \in Side : u # t => ~Channels(n, u)
        BY <3>1, OneChanneller
      <4>2. Channelled(n) = {} /\ Tapped(n) = {}
        BY <4>1, <3>3 DEF Channelled, Tapped, Starts
      <4>3. Captured(n) = {}
        BY <4>2 DEF Captured
      <4> QED
        BY <4>2, <4>3, <3>3, <1>1, NodeTick
    <3> QED
      BY <3>2, <3>3
  <2> QED
    BY <2>1, <2>2, <1>4 DEF Account
<1>5. CASE capturing_team'[n] # -1
  <2>1. PICK t \in Side : /\ t \in Channelled(n) /\ Captured(n) = {}
                          /\ capturing_team'[n] = t /\ capture_progress'[n] = Progress(n, t)
    BY <1>1, <1>5, NodeTick
  <2>2. Progress(n, t) < Channel
    BY <2>1, <1>1, ChannelTick, ChannelAssumption DEF Captured
  <2>3. /\ Progress(n, t) \in Nat /\ 1 <= Channel
        /\ held'[n][t] = held[n][t] + 1 /\ held'[n][t] <= Progress(n, t)
        /\ held[n][t] \in Nat
    BY <2>1, <2>2, <1>1, <1>2, ChannelTick, ChannelAssumption
  <2>4. held'[n][t] * TopRate = held[n][t] * TopRate + TopRate /\ TopRate \in Nat
        /\ held[n][t] * TopRate \in Nat
    BY <2>3, RateBounds
  <2>5. \A u \in Side : u # t => held'[n][u] = 0
    BY <2>1, <1>3, OneChanneller DEF Channelled
  <2>6. (Unaided(n, t) \/ Aided(n, t))'
    <3>1. CASE Starts(n, t)
      <4>1. Progress(n, t) <= TopRate
        BY <3>1, <2>1, <1>1, ChannelTick
      <4> QED
        BY <4>1, <2>1, <2>2, <2>3, <2>4, <1>1 DEF Unaided
    <3>2. CASE ~Starts(n, t)
      <4>1. capturing_team[n] = t /\ Progress(n, t) = capture_progress[n] + Rate(n, t)
        BY <3>2, <2>1, <1>1, ChannelTick
      <4>2. Rate(n, t) \in Nat /\ Rate(n, t) <= TopRate
        BY RateBounds
      <4>3. CASE Unaided(n, t)
        <5>1. Progress(n, t) <= held'[n][t] * TopRate
          BY <4>1, <4>2, <4>3, <2>3, <2>4, <1>2 DEF Unaided
        <5> QED
          BY <5>1, <2>1, <2>2, <1>1 DEF Unaided
      <4>4. CASE Aided(n, t)
        <5>1. Progress(n, t) <= held'[n][t] * TopRate + NeutralBonus
          BY <4>1, <4>2, <4>4, <2>3, <2>4, <1>2, ChannelAssumption DEF Aided
        <5>2. Progress(n, t) < Channel + NeutralBonus
          BY <2>2, <2>3, ChannelAssumption
        <5>3. guardian'[n] = -1 /\ guardian_respawn'[n] >= Channel - held'[n][t] + 1
          BY <4>4, <2>3, <1>1, ChannelAssumption DEF Aided, creeps, IInv, TypeOK
        <5> QED
          BY <5>1, <5>2, <5>3, <2>1, <1>1 DEF Aided
      <4> QED
        BY <4>1, <4>3, <4>4, <1>2 DEF Account
    <3> QED
      BY <3>1, <3>2
  <2> QED
    BY <2>1, <2>2, <2>3, <2>5, <2>6, ChannelAssumption DEF Account
<1> QED
  BY <1>4, <1>5

LEMMA EndTickNodes ==
    ASSUME IInv, EndTick PROVE TowerGate' /\ ChannelIsNeutral' /\ OneHolder'
<1>1. TickNodes /\ UNCHANGED <<tower, creeps>>
  BY DEF EndTick
<1>2. TowerGate'
  <2> SUFFICES ASSUME NEW n \in tower
               PROVE  owner'[n] = 0 /\ capturing_team'[n] = -1 /\ guardian'[n] = -1
    BY <1>1 DEF TowerGate
  <2>1. n \in Node /\ owner[n] = 0 /\ guardian[n] = -1
    BY DEF IInv, TypeOK, TowerGate
  <2>2. Channelled(n) = {} /\ Captured(n) = {} /\ Tapped(n) = {}
    BY <2>1, OneChanneller DEF Channelled, Captured, Tapped, Starts
  <2> QED
    BY <2>1, <2>2, <1>1, NodeTick DEF creeps
<1>3. ChannelIsNeutral'
  <2> SUFFICES ASSUME NEW n \in Node, capturing_team'[n] # -1 PROVE owner'[n] = 0
    BY DEF ChannelIsNeutral
  <2>1. PICK t \in Side : t \in Channelled(n) /\ Captured(n) = {} /\ capturing_team'[n] = t
    BY <1>1, NodeTick
  <2>2. CASE Starts(n, t)
    BY <2>1, <2>2, <1>1, NodeTick DEF Tapped
  <2>3. CASE ~Starts(n, t)
    <3>1. owner[n] = 0
      BY <2>1, <2>3, <1>1, ChannelTick DEF IInv, ChannelIsNeutral
    <3> QED
      BY <3>1, <2>1, <1>1, NodeTick
  <2> QED
    BY <2>2, <2>3
<1>4. OneHolder'
  BY <1>1, NodeTick, OneChanneller DEF OneHolder
<1> QED
  BY <1>2, <1>3, <1>4

\* What five nodes can earn.
LEMMA GainType == \A k \in 0 .. 5 : Gain[k + 1] \in Nat
BY DEF Gain

LEMMA OwnedCount ==
    ASSUME NEW t \in Side
    PROVE  /\ Cardinality({n \in Node : owner[n] = t + 1}) \in 0 .. 5
           /\ Cardinality(Owned(t)) \in 0 .. 5
<1>1. ASSUME NEW S \in SUBSET Node PROVE Cardinality(S) \in 0 .. 5
  <2>1. Cardinality(S) \in Nat /\ Cardinality(Node) \in Nat
        /\ Cardinality(S) <= Cardinality(Node)
    BY MapAssumption, FS_Subset, FS_CardinalityType
  <2> QED
    BY <2>1, MapAssumption
<1> QED
  BY <1>1 DEF Owned

\* The race: resources stay under their cap, and only a leader is declared.
LEMMA EndTickRace ==
    ASSUME IInv, EndTick
    PROVE  /\ resources' \in [Side -> 0 .. ResourceCap]
           /\ winner' \in IF elapsed + 1 >= MatchTicks THEN {1, 2} ELSE {0, 1, 2}
           /\ WinnerNotBehind' /\ RaceOpen'
           /\ winner = 0 /\ elapsed < MatchTicks /\ elapsed' = elapsed + 1
<1>1. /\ TickResources /\ winner' = Decision /\ elapsed' = elapsed + 1
      /\ winner = 0 /\ elapsed < MatchTicks /\ stage' = "orders"
  BY DEF EndTick, IInv, RaceOpen
<1>2. \A t \in Side : Gain[Cardinality(Owned(t)) + 1] \in Nat
  BY OwnedCount, GainType
<1>3. \A t \in Side : resources'[t] \in 0 .. ResourceCap
  BY <1>1, <1>2, ClockAssumption DEF TickResources, Capped, IInv, TypeOK
<1>4. resources' \in [Side -> 0 .. ResourceCap]
  BY <1>1, <1>3 DEF TickResources
<1>5. Cardinality(Owned(0)) \in Nat /\ Cardinality(Owned(1)) \in Nat
  BY OwnedCount
<1>6. winner' \in IF elapsed + 1 >= MatchTicks THEN {1, 2} ELSE {0, 1, 2}
  BY <1>1, ClockAssumption DEF Decision, IInv, TypeOK
<1>7. WinnerNotBehind'
  <2> DEFINE a == resources'[0]
             b == resources'[1]
             m == Cardinality(Owned(0))
             n == Cardinality(Owned(1))
  <2>1. /\ winner' = 1 => a >= b /\ (a = b /\ a < ResourceCap => m >= n)
        /\ winner' = 2 => b >= a /\ (a = b /\ b < ResourceCap => n >= m)
    <3>1. a \in 0 .. ResourceCap /\ b \in 0 .. ResourceCap /\ m \in Nat /\ n \in Nat
      BY <1>3, <1>5
    <3>2. winner' = IF a >= ResourceCap THEN 1
                    ELSE IF b >= ResourceCap THEN 2
                    ELSE IF elapsed + 1 < MatchTicks THEN 0
                    ELSE IF a > b THEN 1
                    ELSE IF b > a THEN 2
                    ELSE IF n > m THEN 2 ELSE 1
      BY <1>1 DEF Decision
    <3> HIDE DEF a, b, m, n
    <3> QED
      BY <3>1, <3>2, ClockAssumption
  <2>2. /\ {k \in Node : owner'[k] = 1} = Owned(0) /\ {k \in Node : owner'[k] = 2} = Owned(1)
    BY DEF Owned
  <2> SUFFICES ASSUME NEW t \in Side, winner' = t + 1
               PROVE  /\ resources'[t] >= resources'[1 - t]
                      /\ resources'[t] = resources'[1 - t] /\ resources'[t] < ResourceCap =>
                            Cardinality({k \in Node : owner'[k] = t + 1})
                               >= Cardinality({k \in Node : owner'[k] = 2 - t})
    BY DEF WinnerNotBehind
  <2>3. CASE t = 0
    BY <2>1, <2>2, <2>3
  <2>4. CASE t = 1
    BY <2>1, <2>2, <2>4
  <2> QED
    BY <2>3, <2>4
<1>8. RaceOpen'
  BY <1>1, <1>6, ClockAssumption DEF RaceOpen, IInv, TypeOK
<1> QED
  BY <1>1, <1>4, <1>6, <1>7, <1>8

LEMMA EndTickType == ASSUME IInv, EndTick PROVE TypeOK'
<1>1. TickNodes /\ stage' = "orders" /\ UNCHANGED <<at, alive, tower, creeps, short_for>>
  BY DEF EndTick
<1>2. \A n \in Node : /\ owner'[n] \in 0 .. 2
                      /\ capturing_team'[n] \in -1 .. 1
                      /\ capture_progress'[n] \in 0 .. Channel + NeutralBonus
  <2> SUFFICES ASSUME NEW n \in Node
               PROVE  /\ owner'[n] \in 0 .. 2
                      /\ capturing_team'[n] \in -1 .. 1
                      /\ capture_progress'[n] \in 0 .. Channel + NeutralBonus
    OBVIOUS
  <2>1. owner'[n] \in 0 .. 2
    <3>1. Captured(n) \subseteq Side
      BY OneChanneller
    <3>2. CASE Captured(n) = {}
      BY <3>2, <1>1, NodeTick DEF IInv, TypeOK
    <3>3. ASSUME NEW t \in Side, t \in Captured(n) PROVE owner'[n] \in 0 .. 2
      BY <3>3, <1>1, NodeTick
    <3> QED
      BY <3>1, <3>2, <3>3
  <2>2. CASE capturing_team'[n] = -1
    BY <2>1, <2>2, <1>1, NodeTick, ChannelAssumption
  <2>3. CASE capturing_team'[n] # -1
    <3>1. PICK t \in Side : /\ t \in Channelled(n) /\ Captured(n) = {}
                            /\ capturing_team'[n] = t /\ capture_progress'[n] = Progress(n, t)
      BY <2>3, <1>1, NodeTick
    <3>2. Progress(n, t) \in Nat /\ ~(Progress(n, t) >= Channel)
      BY <3>1, <1>1, ChannelTick DEF Captured
    <3> QED
      BY <2>1, <3>1, <3>2, ChannelAssumption
  <2> QED
    BY <2>2, <2>3
<1>3. /\ owner' \in [Node -> 0 .. 2] /\ capturing_team' \in [Node -> -1 .. 1]
      /\ capture_progress' \in [Node -> 0 .. Channel + NeutralBonus]
  BY <1>1, <1>2 DEF TickNodes
<1>4. /\ marked_by_team' \in [Node -> -1 .. 1] /\ mark_remaining' \in [Node -> 0 .. MarkTicks]
  BY <1>1, NodeMarkType DEF TickNodes, IInv
<1>5. held' \in [Node -> [Side -> 0 .. Channel]]
  <2>1. \A n \in Node, t \in Side : held[n][t] \in 0 .. Channel
    BY DEF IInv, TypeOK
  <2> QED
    BY <2>1, <1>1, ChannelAssumption DEF TickNodes
<1>6. crowd' \in [Node -> SUBSET Hero]
  <2>1. \A n \in Node, t \in Side : There(n, 1 - t) \subseteq Hero /\ crowd[n] \subseteq Hero
    BY DEF There, IInv, TypeOK
  <2>2. \A n \in Node : crowd'[n] \subseteq Hero
    BY <2>1, <1>1 DEF TickNodes, Tapped
  <2> QED
    BY <2>2, <1>1 DEF TickNodes
<1>7. intangible' \subseteq Hero /\ damaged' \subseteq Hero
  BY <1>1 DEF TickNodes, IInv, TypeOK
<1>8. resources' \in [Side -> 0 .. ResourceCap] /\ winner' \in 0 .. 2 /\ elapsed' \in 0 .. MatchTicks
  BY EndTickRace, ClockAssumption DEF IInv, TypeOK
<1> QED
  BY <1>1, <1>3, <1>4, <1>5, <1>6, <1>7, <1>8 DEF IInv, TypeOK, creeps

LEMMA EndTickIInv == ASSUME IInv, EndTick PROVE IInv'
<1>1. SinceWave'
  BY DEF EndTick, IInv, SinceWave
<1> QED
  BY <1>1, EndTickType, EndTickNodes, EndTickAccounts, EndTickRace DEF IInv, Accounts

LEMMA NextIInv == IInv /\ [Next]_vars => IInv'
<1> SUFFICES ASSUME IInv, [Next]_vars PROVE IInv'
  OBVIOUS
<1>1. CASE BeginTick
  BY <1>1, BeginTickIInv
<1>2. CASE EndTick
  BY <1>2, EndTickIInv
<1>3. CASE Fight
  <2>1. Elsewhere \in Place /\ {} \in SUBSET Node
    OBVIOUS
  <2>2. ASSUME NEW h \in Hero, Hit(h) \/ Die(h) \/ Vanish(h) \/ Appear(h) PROVE IInv'
    BY <2>1, <2>2, HeroStepsIInv
  <2>3. ASSUME NEW h \in Hero, NEW p \in Place, Move(h, p) PROVE IInv'
    BY <2>1, <2>3, HeroStepsIInv
  <2>4. ASSUME NEW h \in Hero, NEW N \in SUBSET Node, MarkNodes(h, N) PROVE IInv'
    BY <2>1, <2>4, HeroStepsIInv
  <2> QED
    BY <1>3, <2>2, <2>3, <2>4, GuardianDiesIInv, TowerFallsIInv DEF Fight
<1>4. CASE UNCHANGED vars
  <2>1. /\ UNCHANGED <<heroes, tower, creeps, owner, channels, marks, race, stage, history>>
        /\ UNCHANGED <<held, short_for>>
    BY <1>4 DEF vars, history
  <2>2. TypeOK'
    BY <2>1 DEF IInv, TypeOK, heroes, creeps, channels, marks, race, history
  <2> QED
    BY <2>1, <2>2, SameBooks DEF IInv
<1> QED
  BY <1>1, <1>2, <1>3, <1>4 DEF Next

-----------------------------------------------------------------------------
(* The theorems.                                                           *)

\* On every map the books of a node fit together: a standing tower keeps everything
\* off it, a channel is of a neutral node, and no two teams hold it at once.
THEOREM ChannelIsSound == Spec => []ChannelInv
<1>1. IInv => ChannelInv
  BY DEF IInv, ChannelInv
<1> QED
  BY <1>1, InitIInv, NextIInv, PTL DEF Spec

\* The step that gives a node away is a tick in which the channel's account covers it.
LEMMA CaptureIsEarned ==
    ASSUME IInv, [Next]_vars, NEW n \in Node, NEW t \in Side,
           owner'[n] = t + 1, owner[n] # t + 1
    PROVE  held'[n][t] * TopRate + NeutralBonus >= Channel
<1>1. EndTick
  <2>1. Fight => UNCHANGED owner
    BY DEF Fight, Hit, Die, Vanish, Appear, Move, MarkNodes, GuardianDies, TowerFalls
  <2>2. BeginTick => UNCHANGED owner
    BY DEF BeginTick
  <2>3. UNCHANGED vars => UNCHANGED owner
    BY DEF vars
  <2> QED
    BY <2>1, <2>2, <2>3 DEF Next
<1>2. TickNodes
  BY <1>1 DEF EndTick
<1>3. t \in Captured(n)
  <2>1. \A u \in Side : u \in Captured(n) => u = t
    BY <1>2, NodeTick
  <2>2. Captured(n) # {}
    BY <1>2, NodeTick
  <2> QED
    BY <2>1, <2>2, OneChanneller
<1>4. t \in Channelled(n) /\ Progress(n, t) >= Channel
  BY <1>3 DEF Captured
<1>5. held[n][t] \in Nat /\ held'[n][t] \in Nat /\ TopRate \in Nat /\ NeutralBonus \in Nat
  BY RateBounds, ChannelAssumption, <1>1, EndTickType DEF IInv, TypeOK
<1>6. held'[n][t] * TopRate \in Nat
  BY <1>5
<1>7. CASE Channel = 0
  BY <1>5, <1>6, <1>7
<1>8. CASE 1 <= Channel
  <2>1. held'[n][t] = held[n][t] + 1
    BY <1>2, <1>4, <1>8, ChannelTick
  <2>2. held'[n][t] * TopRate = held[n][t] * TopRate + TopRate /\ held[n][t] * TopRate \in Nat
    BY <2>1, <1>5
  <2>3. CASE Starts(n, t)
    BY <2>2, <2>3, <1>2, <1>4, <1>5, ChannelTick, ChannelAssumption
  <2>4. CASE ~Starts(n, t)
    <3>1. capturing_team[n] = t /\ Progress(n, t) = capture_progress[n] + Rate(n, t)
      BY <2>4, <1>2, <1>4, ChannelTick
    <3>2. /\ Rate(n, t) \in Nat /\ Rate(n, t) <= TopRate /\ capture_progress[n] \in Nat
      BY RateBounds DEF IInv, TypeOK
    <3>3. capture_progress[n] <= held[n][t] * TopRate + NeutralBonus
      BY <3>1, <3>2, <2>2, <1>5 DEF IInv, Accounts, Account, Unaided, Aided
    <3> QED
      BY <3>1, <3>2, <3>3, <2>2, <1>4, <1>5, ChannelAssumption
  <2> QED
    BY <2>3, <2>4
<1> QED
  BY <1>7, <1>8, ChannelAssumption

\* A node goes only to a team that held it undamaged and on end for long enough to fill
\* the channel at the best rate, with the help of one guardian's death.
THEOREM CapturesAreEarned == Spec => CaptureEarned
<1>1. IInv /\ [Next]_vars =>
        [\A n \in Node : \A t \in Side :
            owner'[n] = t + 1 /\ owner[n] # t + 1 =>
               held'[n][t] * TopRate + NeutralBonus >= Channel]_vars
  BY CaptureIsEarned
<1> QED
  BY <1>1, InitIInv, NextIInv, PTL DEF Spec, CaptureEarned

\* In every match the winner is not behind, on resources or, at equal ones, on nodes.
THEOREM WinnerIsNotBehind == Spec => []WinnerNotBehind
<1>1. IInv => WinnerNotBehind
  BY DEF IInv
<1> QED
  BY <1>1, InitIInv, NextIInv, PTL DEF Spec

\* Whenever heroes die, a wave brings them back before a whole one has passed.
THEOREM NobodyMissesWaves == Spec => []NobodyMissesAWave
<1>1. IInv => NobodyMissesAWave
  <2> SUFFICES ASSUME IInv PROVE short_for < WaveTicks
    BY DEF NobodyMissesAWave
  <2>1. elapsed \in Nat /\ short_for \in Nat
    BY DEF IInv, TypeOK
  <2>2. /\ elapsed % WaveTicks \in 0 .. WaveTicks - 1
        /\ (elapsed + 1) % WaveTicks \in 0 .. WaveTicks - 1
    BY <2>1, OneMoreSinceWave, ClockAssumption
  <2> QED
    BY <2>1, <2>2, ClockAssumption DEF IInv, SinceWave
<1> QED
  BY <1>1, InitIInv, NextIInv, PTL DEF Spec

\* A team match implements MatchOutcome, what the match server takes it to do.
THEOREM OutcomeImplemented == Spec => ImplementsOutcome
<1>1. Init => Outcome!Init
  BY DEF Init, Outcome!Init
<1>2. IInv /\ [Next]_vars => [Outcome!Tick]_<<winner, elapsed>>
  <2> SUFFICES ASSUME IInv, [Next]_vars PROVE Outcome!Tick \/ UNCHANGED <<winner, elapsed>>
    OBVIOUS
  <2>1. CASE EndTick
    BY <2>1, EndTickRace DEF Outcome!Tick
  <2>2. CASE Fight
    <3>1. UNCHANGED race
      BY <2>2 DEF Fight, Hit, Die, Vanish, Appear, Move, MarkNodes, GuardianDies, TowerFalls
    <3> QED
      BY <3>1 DEF race
  <2>3. CASE BeginTick \/ UNCHANGED vars
    BY <2>3 DEF BeginTick, vars, race
  <2> QED
    BY <2>1, <2>2, <2>3 DEF Next
<1> QED
  BY <1>1, <1>2, InitIInv, NextIInv, PTL DEF Spec, ImplementsOutcome, Outcome!Spec

=============================================================================
