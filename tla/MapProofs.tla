------------------------------ MODULE MapProofs ------------------------------
(***************************************************************************)
(* Theorems about what goes on about the map of a match: camps, Kings,     *)
(* synergy and prey, power-ups, orders and the lane, for any numbers the   *)
(* assumptions admit.                                                      *)
(***************************************************************************)
EXTENDS Wilds, Grounds, Orders, Lanes, FiniteSetTheorems, WellFoundedInduction, NaturalsInduction, TLAPS

LEMMA Numbers ==
    /\ CampSlots \in Nat \ {0} /\ MinionsPerWave \in Nat \ {0} /\ MinionHp \in Nat \ {0}
    /\ CampInterval \in Nat \ {0} /\ Threshold \in Nat \ {0}
    /\ KingDelay \in Nat \ {0} /\ KingRespawn \in Nat \ {0}
    /\ GrowthTicks \in Nat \ {0} /\ BoonTicks \in Nat \ {0} /\ MaxStacks \in Nat \ {0}
    /\ RollTicks \in Nat \ {0} /\ Tiers \in Nat \ {0}
    /\ PreyHp \in Nat \ {0} /\ BlowRest \in Nat \ {0} /\ Windup \in Nat \ {0}
BY WildNumbers

-----------------------------------------------------------------------------
(* Camps.                                                                  *)

Minion == [camp : Camps, hp : 1 .. MinionHp, astray : BOOLEAN]

\* The clock the camp runs by and the one that watches it never part.
CampIInv ==
    /\ minions \in [1 .. CampSlots -> Minion \union {NoMinion}]
    /\ camp_timer \in [Camps -> 0 .. CampInterval]
    /\ uncleared \in [Camps -> 0 .. Threshold] /\ watched = uncleared
    /\ escalated \in [Camps -> BOOLEAN]
    /\ \A c \in Camps : escalated[c] => watched[c] >= Threshold

LEMMA CampInitIInv == CampInit => CampIInv
BY WildNumbers DEF CampInit, CampIInv

\* A wave puts minions of due camps, with all their hit points, into free places.
LEMMA WaveType ==
    ASSUME CampIInv PROVE WithWaves \in [1 .. CampSlots -> Minion \union {NoMinion}]
<1> DEFINE free == {i \in 1 .. CampSlots : minions[i] = NoMinion}
           place(i) == Cardinality({j \in free : j <= i})
           turn(c) == Cardinality({d \in DueCamps : d <= c})
           comes(i, c) == /\ place(i) > (turn(c) - 1) * MinionsPerWave
                          /\ place(i) <= turn(c) * MinionsPerWave
<1>1. WithWaves = [i \in 1 .. CampSlots |->
           IF i \in free /\ \E c \in DueCamps : comes(i, c)
           THEN [camp |-> CHOOSE c \in DueCamps : comes(i, c), hp |-> MinionHp, astray |-> FALSE]
           ELSE minions[i]]
  BY DEF WithWaves
<1> HIDE DEF comes, free
<1>2. \A i \in 1 .. CampSlots : (\E c \in DueCamps : comes(i, c)) =>
          (CHOOSE c \in DueCamps : comes(i, c)) \in Camps
  BY DEF DueCamps
<1>3. ASSUME NEW i \in 1 .. CampSlots PROVE WithWaves[i] \in Minion \union {NoMinion}
  <2>1. minions[i] \in Minion \union {NoMinion}
    BY DEF CampIInv
  <2>2. ASSUME NEW c \in Camps PROVE [camp |-> c, hp |-> MinionHp, astray |-> FALSE] \in Minion
    BY WildNumbers DEF Minion
  <2>3. CASE i \in free /\ \E c \in DueCamps : comes(i, c)
    <3>1. (CHOOSE c \in DueCamps : comes(i, c)) \in Camps
      BY <1>2, <2>3
    <3> QED
      BY <1>1, <2>2, <2>3, <3>1
  <2>4. CASE ~(i \in free /\ \E c \in DueCamps : comes(i, c))
    BY <1>1, <2>1, <2>4
  <2> QED
    BY <2>3, <2>4
<1> QED
  BY <1>1, <1>3

LEMMA CampTickIInv == ASSUME CampIInv, CampTick PROVE CampIInv'
<1> DEFINE M == WithWaves
<1>1. M \in [1 .. CampSlots -> Minion \union {NoMinion}]
  BY WaveType
<1> HIDE DEF M
<1>2. PICK sees \in SUBSET (1 .. CampSlots) :
        /\ camp_timer' = [c \in Camps |-> IF c \in DueCamps THEN CampInterval ELSE camp_timer[c] - 1]
        /\ uncleared' = [c \in Camps |-> Clock(c, M)]
        /\ escalated' = [c \in Camps |-> Of(M, c) # {} /\ (escalated[c] \/ Clock(c, M) >= Threshold)]
        /\ minions' = [i \in 1 .. CampSlots |->
               IF M[i] # NoMinion /\ i \notin sees /\ escalated'[M[i].camp]
               THEN [M[i] EXCEPT !.astray = TRUE] ELSE M[i]]
        /\ watched' = [c \in Camps |-> IF Of(M, c) = {} THEN 0 ELSE UpToThreshold(watched[c] + 1)]
  BY DEF CampTick, M
<1>3. minions' \in [1 .. CampSlots -> Minion \union {NoMinion}]
  <2>1. \A m \in Minion : [m EXCEPT !.astray = TRUE] \in Minion
    BY DEF Minion
  <2>2. \A i \in 1 .. CampSlots : M[i] # NoMinion => M[i] \in Minion
    BY <1>1
  <2> QED
    BY <2>1, <2>2, <1>1, <1>2
<1>4. camp_timer' \in [Camps -> 0 .. CampInterval]
  <2>1. ASSUME NEW c \in Camps
        PROVE  (IF c \in DueCamps THEN CampInterval ELSE camp_timer[c] - 1) \in 0 .. CampInterval
    <3>1. camp_timer[c] \in 0 .. CampInterval /\ CampInterval \in Nat
      BY WildNumbers DEF CampIInv
    <3> QED
      BY <3>1 DEF DueCamps
  <2> QED
    BY <1>2, <2>1
<1>5. ASSUME NEW c \in Camps
      PROVE  /\ uncleared'[c] \in 0 .. Threshold /\ watched'[c] = uncleared'[c]
             /\ escalated'[c] => watched'[c] >= Threshold
  <2>1. uncleared[c] \in 0 .. Threshold /\ watched[c] = uncleared[c]
        /\ (escalated[c] => uncleared[c] >= Threshold)
    BY DEF CampIInv
  <2>2. /\ uncleared'[c] = Clock(c, M)
        /\ escalated'[c] <=> Of(M, c) # {} /\ (escalated[c] \/ Clock(c, M) >= Threshold)
        /\ watched'[c] = IF Of(M, c) = {} THEN 0 ELSE UpToThreshold(watched[c] + 1)
    BY <1>2
  <2>3. Clock(c, M) = IF Of(M, c) = {} THEN 0 ELSE UpToThreshold(uncleared[c] + 1)
    BY DEF Clock
  <2>4. /\ Clock(c, M) \in 0 .. Threshold /\ watched'[c] = Clock(c, M)
        /\ (Of(M, c) # {} => Clock(c, M) >= uncleared[c])
    BY <2>1, <2>2, <2>3, Numbers DEF UpToThreshold
  <2> QED
    <3>1. escalated'[c] => Clock(c, M) >= Threshold
      BY <2>1, <2>2, <2>4, Numbers
    <3> QED
      BY <2>2, <2>4, <3>1
<1>6. uncleared' \in [Camps -> 0 .. Threshold] /\ watched' = uncleared'
  <2>1. /\ uncleared' = [c \in Camps |-> uncleared'[c]]
        /\ watched' = [c \in Camps |-> watched'[c]]
    BY <1>2
  <2> QED
    BY <2>1, <1>5
<1>7. escalated' \in [Camps -> BOOLEAN]
  BY <1>2, WildNumbers DEF CampIInv
<1> QED
  BY <1>3, <1>4, <1>5, <1>6, <1>7 DEF CampIInv

LEMMA CampNextIInv == CampIInv /\ [CampNext]_campVars => CampIInv'
<1> SUFFICES ASSUME CampIInv, [CampNext]_campVars PROVE CampIInv'
  OBVIOUS
<1>1. ASSUME NEW i \in 1 .. CampSlots, MinionStruck(i) PROVE CampIInv'
  <2>1. minions[i] \in Minion
    BY <1>1 DEF MinionStruck, CampIInv
  <2>2. Hurt(minions[i]) \in Minion \union {NoMinion}
    BY <2>1, Numbers DEF Minion, Hurt
  <2> QED
    BY <1>1, <2>2 DEF CampIInv, MinionStruck
<1>2. CASE UNCHANGED campVars
  BY <1>2 DEF campVars, CampIInv
<1> QED
  BY <1>1, <1>2, CampTickIInv DEF CampNext

-----------------------------------------------------------------------------
(* Kings and their buffs.                                                  *)

BoonsOf == [alive : BOOLEAN, stacks : 0 .. MaxStacks, growth : 0 .. GrowthTicks,
            wealth : 0 .. BoonTicks, carrier : BOOLEAN]

KingTypeOK ==
    /\ king \in [who : King, up : BOOLEAN, seen : BOOLEAN, timer : Nat]
    /\ boons \in [Carriers -> BoonsOf]
    /\ farsight \in [{0, 1} -> 0 .. BoonTicks] /\ downtime \in 0 .. KingRespawn

\* What a King's clock shows it has really been away for.
ClockIsTrue ==
    /\ king.up => king.seen
    /\ ~king.seen => downtime = KingRespawn
    /\ ~king.up => downtime >= king.timer \/ downtime = KingRespawn

KingIInv == KingTypeOK /\ ClockIsTrue /\ MusicIsShared /\ GrowthPaired

LEMMA KingInitIInv == KingInit => KingIInv
<1> SUFFICES ASSUME KingInit PROVE KingIInv
  OBVIOUS
<1>1. Plain \in BoonsOf
  BY Numbers DEF Plain, BoonsOf
<1>2. KingTypeOK
  <2>1. king \in [who : King, up : BOOLEAN, seen : BOOLEAN, timer : Nat]
    <3>1. PICK w \in King : king = [who |-> w, up |-> FALSE, seen |-> FALSE, timer |-> 0]
      BY DEF KingInit
    <3> QED
      BY <3>1
  <2>2. boons \in [Carriers -> BoonsOf]
    BY <1>1 DEF KingInit
  <2>3. farsight \in [{0, 1} -> 0 .. BoonTicks] /\ downtime \in 0 .. KingRespawn
    BY Numbers DEF KingInit
  <2> QED
    BY <2>1, <2>2, <2>3 DEF KingTypeOK
<1>3. ClockIsTrue
  BY DEF KingInit, ClockIsTrue
<1>4. MusicIsShared /\ GrowthPaired
  BY DEF KingInit, MusicIsShared, GrowthPaired, Plain, Living
<1> QED
  BY <1>2, <1>3, <1>4 DEF KingIInv

\* Whatever is done to a hero's buffs alone leaves the pair of stacks and time a pair.
Paired(b) == b.stacks > 0 <=> b.growth > 0

LEMMA BoonSteps ==
    ASSUME NEW b \in BoonsOf, Paired(b)
    PROVE  /\ BoonTick(b) \in BoonsOf /\ Paired(BoonTick(b))
           /\ BoonTick(b).alive = b.alive /\ BoonTick(b).carrier = b.carrier
           /\ Delivered(b) \in BoonsOf /\ Paired(Delivered(b))
           /\ Delivered(b).alive = b.alive /\ Delivered(b).carrier = b.carrier
           /\ b.stacks < MaxStacks => Prolonged(b) \in BoonsOf /\ Paired(Prolonged(b))
           /\ Prolonged(b).alive = b.alive /\ Prolonged(b).carrier = b.carrier
<1>1. /\ b = [alive |-> b.alive, stacks |-> b.stacks, growth |-> b.growth, wealth |-> b.wealth,
              carrier |-> b.carrier]
      /\ b.alive \in BOOLEAN /\ b.carrier \in BOOLEAN
      /\ b.stacks \in 0 .. MaxStacks /\ b.growth \in 0 .. GrowthTicks /\ b.wealth \in 0 .. BoonTicks
      /\ b.stacks > 0 <=> b.growth > 0
  BY DEF BoonsOf, Paired
<1>2. /\ GrowthTicks \in Nat \ {0} /\ MaxStacks \in Nat \ {0} /\ BoonTicks \in Nat \ {0}
  BY Numbers
<1>3. /\ BoonTick(b) \in BoonsOf /\ Paired(BoonTick(b))
      /\ BoonTick(b).alive = b.alive /\ BoonTick(b).carrier = b.carrier
  <2> DEFINE left == IF b.growth <= 1 THEN 0 ELSE b.stacks
  <2>3. BoonTick(b) = [b EXCEPT !.growth = Minus(b.growth), !.stacks = left, !.wealth = Minus(b.wealth)]
    BY DEF BoonTick
  <2>2. /\ Minus(b.growth) \in 0 .. GrowthTicks /\ Minus(b.wealth) \in 0 .. BoonTicks
        /\ left \in 0 .. MaxStacks /\ (left > 0 <=> Minus(b.growth) > 0)
    BY <1>1, <1>2 DEF Minus
  <2> HIDE DEF left
  <2>1. BoonTick(b) = [alive |-> b.alive, stacks |-> left, growth |-> Minus(b.growth),
                       wealth |-> Minus(b.wealth), carrier |-> b.carrier]
    BY <1>1, <2>3
  <2> QED
    BY <1>1, <2>1, <2>2 DEF BoonsOf, Paired
<1>4. /\ Delivered(b) \in BoonsOf /\ Paired(Delivered(b))
      /\ Delivered(b).alive = b.alive /\ Delivered(b).carrier = b.carrier
  <2> DEFINE held == IF b.stacks < 1 THEN 1 ELSE b.stacks
  <2>1. Delivered(b) = [b EXCEPT !.stacks = held, !.growth = GrowthTicks]
    BY DEF Delivered
  <2>2. held \in 1 .. MaxStacks
    BY <1>1, <1>2
  <2> HIDE DEF held
  <2>3. Delivered(b) = [alive |-> b.alive, stacks |-> held, growth |-> GrowthTicks,
                        wealth |-> b.wealth, carrier |-> b.carrier]
    BY <1>1, <2>1
  <2> QED
    BY <1>1, <1>2, <2>2, <2>3 DEF BoonsOf, Paired
<1>5. /\ b.stacks < MaxStacks => Prolonged(b) \in BoonsOf /\ Paired(Prolonged(b))
      /\ Prolonged(b).alive = b.alive /\ Prolonged(b).carrier = b.carrier
  <2>1. CASE b.growth > 0
    <3>1. Prolonged(b) = [alive |-> b.alive, stacks |-> b.stacks + 1, growth |-> GrowthTicks,
                          wealth |-> b.wealth, carrier |-> b.carrier]
      BY <1>1, <2>1 DEF Prolonged
    <3> QED
      BY <1>1, <1>2, <3>1 DEF BoonsOf, Paired
  <2>2. CASE ~(b.growth > 0)
    BY <2>2 DEF Prolonged
  <2> QED
    BY <2>1, <2>2
<1> QED
  BY <1>3, <1>4, <1>5

\* Nobody's life or song changes: the song is shared as before.
LEMMA SongUntouched ==
    ASSUME MusicIsShared,
           \A g \in Carriers : boons'[g].alive => boons[g].alive /\ boons'[g].carrier = boons[g].carrier
    PROVE  MusicIsShared'
BY DEF MusicIsShared, Living

LEMMA KingTickIInv == ASSUME KingIInv, KingTick PROVE KingIInv'
<1>1. \A h \in Carriers : boons[h] \in BoonsOf /\ Paired(boons[h]) /\ boons'[h] = BoonTick(boons[h])
  BY DEF KingIInv, KingTypeOK, GrowthPaired, Paired, KingTick
<1>2. \A h \in Carriers : /\ boons'[h] \in BoonsOf /\ Paired(boons'[h])
                          /\ boons'[h].alive = boons[h].alive /\ boons'[h].carrier = boons[h].carrier
  BY <1>1, BoonSteps
<1>3. boons' \in [Carriers -> BoonsOf]
  BY <1>2 DEF KingTick
<1>4. GrowthPaired'
  BY <1>2 DEF GrowthPaired, Paired
<1>5. MusicIsShared'
  BY <1>2, SongUntouched DEF KingIInv
<1>6. farsight' \in [{0, 1} -> 0 .. BoonTicks]
  BY Numbers DEF KingIInv, KingTypeOK, KingTick, Minus
<1>7. /\ king' \in [who : King, up : BOOLEAN, seen : BOOLEAN, timer : Nat]
      /\ downtime' \in 0 .. KingRespawn /\ ClockIsTrue'
  <2>1. CASE king.up
    BY <2>1, Numbers DEF KingIInv, KingTypeOK, KingTick, ClockIsTrue
  <2>2. CASE ~king.up
    <3> DEFINE due == KingIsDue
    <3>1. king' = [king EXCEPT !.timer = king.timer + 1, !.up = due, !.seen = king.seen \/ due]
      BY <2>2 DEF KingTick
    <3>2. due \in BOOLEAN
      BY DEF KingIsDue
    <3> HIDE DEF due
    <3>3. king' = [who |-> king.who, up |-> due, seen |-> king.seen \/ due, timer |-> king.timer + 1]
      BY <3>1 DEF KingIInv, KingTypeOK
    <3>4. downtime' = IF downtime < KingRespawn THEN downtime + 1 ELSE KingRespawn
      BY DEF KingTick
    <3>5. /\ king.who \in King /\ king.seen \in BOOLEAN /\ king.timer \in Nat
          /\ downtime \in 0 .. KingRespawn /\ KingRespawn \in Nat \ {0}
      BY Numbers DEF KingIInv, KingTypeOK
    <3>6. /\ king' \in [who : King, up : BOOLEAN, seen : BOOLEAN, timer : Nat]
          /\ downtime' \in 0 .. KingRespawn
      BY <3>2, <3>3, <3>4, <3>5
    <3>7. ClockIsTrue'
      BY <2>2, <3>2, <3>3, <3>4, <3>5 DEF ClockIsTrue, KingIInv
    <3> QED
      BY <3>6, <3>7
  <2> QED
    BY <2>1, <2>2
<1> QED
  BY <1>3, <1>4, <1>5, <1>6, <1>7 DEF KingIInv, KingTypeOK

LEMMA KingFallsIInv == ASSUME KingIInv, NEW h \in Carriers, KingFalls(h) PROVE KingIInv'
<1>1. boons' = Boon(h) /\ boons \in [Carriers -> BoonsOf]
  BY DEF KingFalls, KingIInv, KingTypeOK
<1>2. ASSUME NEW g \in Carriers
      PROVE  /\ Boon(h)[g] \in BoonsOf /\ Boon(h)[g].alive = boons[g].alive
             /\ Paired(boons[g]) => Paired(Boon(h)[g])
             /\ king.who # "music" => Boon(h)[g].carrier = boons[g].carrier
             /\ king.who = "music" =>
                    Boon(h)[g].carrier = IF g \in Living(CarrierTeam[h]) THEN TRUE ELSE boons[g].carrier
  <2> DEFINE b == boons[g]
  <2>1. /\ b = [alive |-> b.alive, stacks |-> b.stacks, growth |-> b.growth, wealth |-> b.wealth,
                carrier |-> b.carrier]
        /\ b.alive \in BOOLEAN /\ b.carrier \in BOOLEAN
        /\ b.stacks \in 0 .. MaxStacks /\ b.growth \in 0 .. GrowthTicks /\ b.wealth \in 0 .. BoonTicks
    BY <1>1 DEF BoonsOf
  <2>2. /\ GrowthTicks \in Nat \ {0} /\ MaxStacks \in Nat \ {0} /\ BoonTicks \in Nat \ {0}
    BY Numbers
  <2>3. CASE king.who = "wealth" /\ g = h
    <3>1. Boon(h)[g] = [b EXCEPT !.wealth = BoonTicks]
      BY <2>3 DEF Boon
    <3> HIDE DEF b
    <3> QED
      BY <2>1, <2>2, <2>3, <3>1 DEF BoonsOf, Paired, b
  <2>4. CASE king.who = "growth" /\ g = h
    <3>1. Boon(h)[g] = [b EXCEPT !.stacks = 1, !.growth = GrowthTicks]
      BY <2>4 DEF Boon
    <3> HIDE DEF b
    <3>2. Boon(h)[g] = [alive |-> b.alive, stacks |-> 1, growth |-> GrowthTicks, wealth |-> b.wealth,
                        carrier |-> b.carrier]
      BY <2>1, <3>1
    <3>3. Boon(h)[g] \in BoonsOf /\ Paired(Boon(h)[g])
      BY <2>1, <2>2, <3>2 DEF BoonsOf, Paired
    <3> QED
      BY <2>4, <3>2, <3>3 DEF b
  <2>5. CASE king.who = "music" /\ g \in Living(CarrierTeam[h])
    <3>1. Boon(h)[g] = [b EXCEPT !.carrier = TRUE]
      BY <2>5 DEF Boon
    <3> QED
      BY <2>1, <2>2, <2>5, <3>1 DEF BoonsOf, Paired
  <2>6. CASE /\ ~(king.who = "wealth" /\ g = h) /\ ~(king.who = "growth" /\ g = h)
             /\ ~(king.who = "music" /\ g \in Living(CarrierTeam[h]))
    <3>1. Boon(h)[g] = b
      BY <2>6 DEF Boon
    <3> QED
      BY <1>1, <2>6, <3>1
  <2> QED
    BY <2>3, <2>4, <2>5, <2>6
<1>4. MusicIsShared'
  <2>1. CASE king.who # "music"
    BY <1>1, <1>2, <2>1, SongUntouched DEF KingIInv
  <2>2. CASE king.who = "music"
    <3>1. \A t \in {0, 1} : Living(t)' = Living(t)
      BY <1>1, <1>2 DEF Living
    <3>2. \A t \in {0, 1} : \A g \in Living(t) :
              boons'[g].carrier = IF t = CarrierTeam[h] THEN TRUE ELSE boons[g].carrier
      BY <1>1, <1>2, <2>2 DEF Living
    <3>3. MusicIsShared
      BY DEF KingIInv
    <3>4. ASSUME NEW t \in {0, 1}, NEW f \in Living(t), NEW g \in Living(t)
          PROVE  boons'[f].carrier = boons'[g].carrier
      <4>1. boons[f].carrier = boons[g].carrier
        BY <3>3, <3>4 DEF MusicIsShared
      <4> QED
        BY <3>2, <4>1
    <3> QED
      BY <3>1, <3>4 DEF MusicIsShared
  <2> QED
    BY <2>1, <2>2
<1>5. boons' \in [Carriers -> BoonsOf] /\ GrowthPaired'
  <2>1. boons' \in [Carriers -> BoonsOf]
    BY <1>1, <1>2 DEF Boon
  <2> QED
    BY <2>1, <1>1, <1>2 DEF KingIInv, GrowthPaired, Paired
<1>6. farsight' \in [{0, 1} -> 0 .. BoonTicks]
  BY Numbers, WildNumbers DEF KingIInv, KingTypeOK, KingFalls
<1>7. /\ king' \in [who : King, up : BOOLEAN, seen : BOOLEAN, timer : Nat]
      /\ downtime' \in 0 .. KingRespawn /\ ClockIsTrue'
  <2>1. king' = [who |-> king.who, up |-> FALSE, seen |-> king.seen, timer |-> 0] /\ downtime' = 0
    BY DEF KingIInv, KingTypeOK, KingFalls, FallenKing
  <2>2. king.who \in King /\ king.up /\ king.seen /\ king.seen \in BOOLEAN
    BY DEF KingIInv, KingTypeOK, KingFalls, ClockIsTrue
  <2> QED
    BY <2>1, <2>2, Numbers DEF ClockIsTrue
<1> QED
  BY <1>4, <1>5, <1>6, <1>7 DEF KingIInv, KingTypeOK

\* A step that touches nothing but the heroes' buffs.
LEMMA BoonsOnly ==
    ASSUME KingIInv, UNCHANGED <<king, farsight, downtime>>,
           boons' \in [Carriers -> BoonsOf], MusicIsShared', \A g \in Carriers : Paired(boons'[g])
    PROVE  KingIInv'
BY DEF KingIInv, KingTypeOK, ClockIsTrue, GrowthPaired, Paired

LEMMA KingNextIInv == KingIInv /\ [KingNext]_kingVars => KingIInv'
<1> SUFFICES ASSUME KingIInv, [KingNext]_kingVars PROVE KingIInv'
  OBVIOUS
<1> USE DEF KingNext
<1>1. \A g \in Carriers : boons[g] \in BoonsOf /\ Paired(boons[g])
  BY DEF KingIInv, KingTypeOK, GrowthPaired, Paired
<1>2. boons \in [Carriers -> BoonsOf] /\ MusicIsShared
  BY DEF KingIInv, KingTypeOK
<1>3. ASSUME NEW h \in Carriers, NEW v \in Carriers, Takedown(h, v) PROVE KingIInv'
  <2>1. h # v
    BY <1>3 DEF Takedown
  <2>2. \A g \in Carriers : boons'[g] = IF g = h THEN Prolonged(boons[h])
                                       ELSE IF g = v THEN [boons[v] EXCEPT !.alive = FALSE]
                                       ELSE boons[g]
    BY <1>3, <1>2, <2>1 DEF Takedown
  <2>3. Prolonged(boons[h]) \in BoonsOf /\ Paired(Prolonged(boons[h]))
        /\ Prolonged(boons[h]).alive = boons[h].alive /\ Prolonged(boons[h]).carrier = boons[h].carrier
    BY <1>1, <1>3, BoonSteps DEF Takedown
  <2>4. [boons[v] EXCEPT !.alive = FALSE] \in BoonsOf /\ Paired([boons[v] EXCEPT !.alive = FALSE])
        /\ ~[boons[v] EXCEPT !.alive = FALSE].alive
    BY <1>1 DEF BoonsOf, Paired
  <2>5. boons' \in [Carriers -> BoonsOf]
    <3>1. boons' = [g \in Carriers |-> boons'[g]]
      BY <1>3, <1>2 DEF Takedown
    <3>2. \A g \in Carriers : boons'[g] \in BoonsOf
      BY <2>2, <2>3, <2>4, <1>1
    <3> QED
      BY <3>1, <3>2
  <2>6. MusicIsShared'
    BY <2>2, <2>3, <2>4, <1>2, SongUntouched
  <2>7. \A g \in Carriers : Paired(boons'[g])
    BY <2>2, <2>3, <2>4, <1>1
  <2> QED
    BY <1>3, <2>5, <2>6, <2>7, BoonsOnly DEF Takedown
<1>4. ASSUME NEW h \in Carriers, Delivery(h) PROVE KingIInv'
  <2>1. \A g \in Carriers : boons'[g] = IF g = h THEN Delivered(boons[h]) ELSE boons[g]
    BY <1>4, <1>2 DEF Delivery
  <2>2. Delivered(boons[h]) \in BoonsOf /\ Paired(Delivered(boons[h]))
        /\ Delivered(boons[h]).alive = boons[h].alive /\ Delivered(boons[h]).carrier = boons[h].carrier
    BY <1>1, BoonSteps
  <2>3. boons' \in [Carriers -> BoonsOf]
    BY <1>4, <1>2, <2>2 DEF Delivery
  <2>4. MusicIsShared'
    BY <2>1, <2>2, <1>2, SongUntouched
  <2>5. \A g \in Carriers : Paired(boons'[g])
    BY <2>1, <2>2, <1>1
  <2> QED
    BY <1>4, <2>3, <2>4, <2>5, BoonsOnly DEF Delivery
<1>5. ASSUME KingWave PROVE KingIInv'
  <2>1. \A g \in Carriers : boons'[g] = IF boons[g].alive THEN boons[g] ELSE Sung(g)
    BY <1>5 DEF KingWave
  <2>2. \A g \in Carriers : /\ Sung(g) \in BoonsOf /\ Paired(Sung(g)) /\ Sung(g).alive
                            /\ Sung(g).carrier <=> \E f \in Living(CarrierTeam[g]) : boons[f].carrier
    <3> SUFFICES ASSUME NEW g \in Carriers
                 PROVE  /\ Sung(g) \in BoonsOf /\ Paired(Sung(g)) /\ Sung(g).alive
                        /\ Sung(g).carrier <=> \E f \in Living(CarrierTeam[g]) : boons[f].carrier
      OBVIOUS
    <3> DEFINE heard == \E f \in Living(CarrierTeam[g]) : boons[f].carrier
    <3>1. Sung(g) = [Plain EXCEPT !.carrier = heard]
      BY DEF Sung
    <3>6. heard \in BOOLEAN
      OBVIOUS
    <3> HIDE DEF heard
    <3>2. Sung(g) = [alive |-> TRUE, stacks |-> 0, growth |-> 0, wealth |-> 0, carrier |-> heard]
      BY <3>1 DEF Plain
    <3>3. Sung(g) \in BoonsOf
      BY <3>2, <3>6, Numbers DEF BoonsOf
    <3>4. Paired(Sung(g)) /\ Sung(g).alive
      BY <3>2 DEF Paired
    <3>5. Sung(g).carrier <=> heard
      BY <3>2
    <3> QED
      BY <3>3, <3>4, <3>5 DEF heard
  <2>3. boons' \in [Carriers -> BoonsOf]
    BY <1>5, <1>1, <2>2 DEF KingWave
  <2>4. \A t \in {0, 1} : \A g \in Living(t)' :
            boons'[g].carrier <=> \E f \in Living(t) : boons[f].carrier
    BY <2>1, <2>2, <1>2 DEF Living, MusicIsShared
  <2>5. \A g \in Carriers : boons'[g].carrier \in BOOLEAN
    BY <2>3 DEF BoonsOf
  <2>6. MusicIsShared'
    BY <2>4, <2>5 DEF MusicIsShared, Living
  <2>7. \A g \in Carriers : Paired(boons'[g])
    BY <2>1, <2>2, <1>1
  <2> QED
    BY <1>5, <2>3, <2>6, <2>7, BoonsOnly DEF KingWave
<1>6. CASE UNCHANGED kingVars
  BY <1>6 DEF kingVars, KingIInv, KingTypeOK, ClockIsTrue, MusicIsShared, Living, GrowthPaired
<1> QED
  BY <1>3, <1>4, <1>5, <1>6, KingTickIInv, KingFallsIInv

LEMMA KingComesInTime == KingIInv /\ [KingNext]_kingVars => [~king.up /\ king'.up => downtime' >= KingRespawn]_kingVars
<1> SUFFICES ASSUME KingIInv, KingNext, ~king.up, king'.up PROVE downtime' >= KingRespawn
  OBVIOUS
<1>1. KingTick
  BY DEF KingNext, Takedown, Delivery, KingWave, KingFalls
<1> QED
  BY <1>1, Numbers DEF KingTick, KingIInv, KingTypeOK, ClockIsTrue, KingIsDue

-----------------------------------------------------------------------------
(* Synergy.                                                                *)

SynergyTypeOK == synergy \in [tier : [{0, 1} -> 0 .. Tiers - 1], timer : 0 .. RollTicks - 1]

LEMMA SynergyInitType == SynergyInit => SynergyTypeOK
BY Numbers DEF SynergyInit, SynergyTypeOK

LEMMA SynergyNextType == SynergyTypeOK /\ [SynergyTick]_synergy => SynergyTypeOK'
BY Numbers DEF SynergyTick, SynergyTypeOK

-----------------------------------------------------------------------------
(* Prey.                                                                   *)

Prey == {"guardian", "tower"}
PreyOf == [alive : BOOLEAN, hp : 0 .. PreyHp, flavor : 0 .. 2, last : {-1, 0, 1}]
Sound(q) == q.alive => q.hp \in 1 .. PreyHp

PreyTypeOK ==
    /\ quarry \in [Prey -> PreyOf] /\ \A p \in Prey : Sound(quarry[p])
    /\ striker \in [cooldown : 0 .. BlowRest, windup : 0 .. Windup]
    /\ deed \in [by : {-1, 0, 1}, paid : {-1, 0, 1}, since : 0 .. BlowRest, now : BOOLEAN]

\* Who may strike again has not struck for as long as a blow takes to recover from.
Recovering == striker.cooldown + deed.since >= BlowRest

PreyIInv == PreyTypeOK /\ Recovering /\ PaidForTheBlow

LEMMA WholeType == ASSUME NEW f \in 0 .. 2 PROVE Whole(f) \in PreyOf /\ Sound(Whole(f))
BY Numbers DEF Whole, PreyOf, Sound

LEMMA PreyInitIInv == PreyInit => PreyIInv
<1> SUFFICES ASSUME PreyInit PROVE PreyIInv
  OBVIOUS
<1>1. /\ Whole(0) \in PreyOf /\ Sound(Whole(0))
      /\ [Whole(0) EXCEPT !.alive = FALSE] \in PreyOf /\ Sound([Whole(0) EXCEPT !.alive = FALSE])
  <2>1. 0 \in 0 .. 2
    OBVIOUS
  <2>2. \A q \in PreyOf : [q EXCEPT !.alive = FALSE] \in PreyOf /\ Sound([q EXCEPT !.alive = FALSE])
    BY DEF PreyOf, Sound
  <2> QED
    BY <2>1, <2>2, WholeType
<1>2. quarry \in [Prey -> PreyOf] /\ \A p \in Prey : Sound(quarry[p])
  BY <1>1 DEF PreyInit, Prey
<1>3. /\ striker = [cooldown |-> 0, windup |-> 0]
      /\ deed = [by |-> -1, paid |-> -1, since |-> BlowRest, now |-> FALSE]
  BY DEF PreyInit
<1>4. PreyTypeOK
  BY <1>2, <1>3, Numbers DEF PreyTypeOK
<1> QED
  BY <1>3, <1>4, Numbers DEF PreyIInv, Recovering, PaidForTheBlow

\* A blow leaves prey sound, or felled.
LEMMA BlowType ==
    ASSUME NEW q \in PreyOf, Sound(q), q.alive PROVE After(q) \in PreyOf /\ Sound(After(q))
<1>1. CASE q.hp <= 1
  <2>1. After(q) = [q EXCEPT !.hp = 0, !.alive = FALSE]
    BY <1>1 DEF After, Felled
  <2>2. 0 \in 0 .. PreyHp
    BY Numbers
  <2> QED
    BY <2>1, <2>2 DEF PreyOf, Sound
<1>2. CASE ~(q.hp <= 1)
  <2>1. After(q) = [q EXCEPT !.hp = q.hp - 1] /\ q.hp \in 1 .. PreyHp
    BY <1>2 DEF After, Sound
  <2>2. q.hp - 1 \in 1 .. PreyHp
    BY <1>2, <2>1, Numbers
  <2> QED
    BY <2>1, <2>2 DEF PreyOf, Sound
<1> QED
  BY <1>1, <1>2

\* The quarry and the deed of a step that strikes, zones or returns prey, the rest as it was.
LEMMA DeedOnly ==
    ASSUME PreyIInv, NEW p \in Prey, NEW q \in PreyOf, Sound(q), quarry' = [quarry EXCEPT ![p] = q],
           NEW b \in {-1, 0, 1}, NEW d \in {-1, 0, 1}, d # -1 => d = b,
           deed' = [deed EXCEPT !.by = b, !.paid = d, !.now = FALSE], UNCHANGED striker
    PROVE  PreyIInv'
<1>1. quarry' \in [Prey -> PreyOf] /\ \A r \in Prey : Sound(quarry'[r])
  BY DEF PreyIInv, PreyTypeOK
<1>2. deed' = [by |-> b, paid |-> d, since |-> deed.since, now |-> FALSE]
  BY DEF PreyIInv, PreyTypeOK
<1>3. deed.since \in 0 .. BlowRest
  BY DEF PreyIInv, PreyTypeOK
<1> QED
  BY <1>1, <1>2, <1>3 DEF PreyIInv, PreyTypeOK, Recovering, PaidForTheBlow

LEMMA StrikerTickIInv == ASSUME PreyIInv, StrikerTick PROVE PreyIInv'
<1>1. PICK foe \in BOOLEAN, things \in SUBSET Loops :
        LET free == striker.cooldown = 0 /\ things # {} /\ ~foe
            c == Minus(IF foe THEN striker.cooldown ELSE Spent(striker.cooldown, things))
            w == IF foe /\ c = 0 /\ striker.windup = 0 THEN Windup ELSE striker.windup
        IN /\ striker' = [cooldown |-> IF w = 1 THEN BlowRest ELSE c, windup |-> Minus(w)]
           /\ deed' = [deed EXCEPT !.by = -1, !.paid = -1, !.now = free,
                                   !.since = IF free THEN 1 ELSE IF @ < BlowRest THEN @ + 1 ELSE @]
           /\ UNCHANGED quarry
  BY DEF StrikerTick
<1> DEFINE free == striker.cooldown = 0 /\ things # {} /\ ~foe
           c == Minus(IF foe THEN striker.cooldown ELSE Spent(striker.cooldown, things))
           w == IF foe /\ c = 0 /\ striker.windup = 0 THEN Windup ELSE striker.windup
           rest == IF w = 1 THEN BlowRest ELSE c
           since == IF free THEN 1 ELSE IF deed.since < BlowRest THEN deed.since + 1 ELSE deed.since
<1>2. /\ striker' = [cooldown |-> rest, windup |-> Minus(w)]
      /\ deed' = [deed EXCEPT !.by = -1, !.paid = -1, !.now = free, !.since = since]
      /\ UNCHANGED quarry
  BY <1>1
<1>3. /\ striker.cooldown \in 0 .. BlowRest /\ striker.windup \in 0 .. Windup
      /\ deed.since \in 0 .. BlowRest /\ striker.cooldown + deed.since >= BlowRest
      /\ BlowRest \in Nat \ {0} /\ Windup \in Nat \ {0}
  BY Numbers DEF PreyIInv, PreyTypeOK, Recovering
<1>4. /\ c \in 0 .. BlowRest /\ w \in 0 .. Windup /\ since \in 0 .. BlowRest
      /\ free => c = BlowRest - 1
      /\ ~free => c = Minus(striker.cooldown)
  BY <1>3 DEF Minus, Spent
<1>5. /\ rest \in 0 .. BlowRest /\ Minus(w) \in 0 .. Windup /\ rest + since >= BlowRest
      /\ free \in BOOLEAN
  BY <1>3, <1>4 DEF Minus
<1> HIDE DEF free, c, w, rest, since
<1>6. deed' = [by |-> -1, paid |-> -1, since |-> since, now |-> free]
  BY <1>2 DEF PreyIInv, PreyTypeOK
<1> QED
  BY <1>2, <1>4, <1>5, <1>6 DEF PreyIInv, PreyTypeOK, Recovering, PaidForTheBlow

LEMMA PreyNextIInv == PreyIInv /\ [PreyNext]_preyVars => PreyIInv'
<1> SUFFICES ASSUME PreyIInv, [PreyNext]_preyVars PROVE PreyIInv'
  OBVIOUS
<1>1. \A p \in Prey : quarry[p] \in PreyOf /\ Sound(quarry[p])
  BY DEF PreyIInv, PreyTypeOK
<1>2. ASSUME NEW p \in Prey, NEW h \in {0, 1}, PreyStruck(p, h) PROVE PreyIInv'
  <2> DEFINE named == [quarry[p] EXCEPT !.last = h]
             paid == IF named.hp <= 1 THEN named.last ELSE -1
  <2>1. /\ named \in PreyOf /\ Sound(named) /\ named.alive /\ named.last = h
    BY <1>1, <1>2 DEF PreyStruck, PreyOf, Sound
  <2>2. /\ quarry' = [quarry EXCEPT ![p] = After(named)]
        /\ deed' = [deed EXCEPT !.by = h, !.paid = paid, !.now = FALSE] /\ UNCHANGED striker
    BY <1>2 DEF PreyStruck
  <2>3. paid \in {-1, 0, 1} /\ (paid # -1 => paid = h)
    BY <2>1
  <2> HIDE DEF named, paid
  <2>4. After(named) \in PreyOf /\ Sound(After(named))
    BY <2>1, BlowType
  <2> QED
    BY <2>2, <2>3, <2>4, DeedOnly
<1>3. ASSUME NEW t \in {0, 1}, PreyZoned(t) PROVE PreyIInv'
  <2> DEFINE hit == Unnamed(quarry["guardian"])
             paid == IF hit.hp <= 1 THEN hit.last ELSE -1
  <2>1. hit \in PreyOf /\ Sound(hit) /\ hit.alive /\ hit.last = -1
    BY <1>1, <1>3 DEF PreyZoned, PreyOf, Sound, Unnamed, Prey
  <2>2. /\ quarry' = [quarry EXCEPT !["guardian"] = After(hit)]
        /\ deed' = [deed EXCEPT !.by = -1, !.paid = paid, !.now = FALSE] /\ UNCHANGED striker
    BY <1>3 DEF PreyZoned
  <2>3. paid = -1
    BY <2>1
  <2> HIDE DEF hit, paid
  <2>4. After(hit) \in PreyOf /\ Sound(After(hit)) /\ "guardian" \in Prey
    BY <2>1, BlowType DEF Prey
  <2> QED
    BY <2>2, <2>3, <2>4, DeedOnly
<1>4. ASSUME NEW f \in 0 .. 2, PreyReturns(f) PROVE PreyIInv'
  <2>1. Whole(f) \in PreyOf /\ Sound(Whole(f)) /\ "guardian" \in Prey
    BY WholeType DEF Prey
  <2> QED
    BY <1>4, <2>1, DeedOnly DEF PreyReturns
<1>5. CASE UNCHANGED preyVars
  BY <1>5 DEF preyVars, PreyIInv, PreyTypeOK, Sound, Recovering, PaidForTheBlow
<1> QED
  BY <1>2, <1>3, <1>4, <1>5, StrikerTickIInv DEF PreyNext, Prey

LEMMA OneBlowInItsTime == PreyIInv /\ [PreyNext]_preyVars => [deed'.now => deed.since >= BlowRest]_preyVars
<1> SUFFICES ASSUME PreyIInv, PreyNext, deed'.now PROVE deed.since >= BlowRest
  OBVIOUS
<1>1. deed \in [by : {-1, 0, 1}, paid : {-1, 0, 1}, since : 0 .. BlowRest, now : BOOLEAN]
  BY DEF PreyIInv, PreyTypeOK
<1>2. StrikerTick
  BY <1>1 DEF PreyNext, PreyStruck, PreyZoned, PreyReturns
<1>3. striker.cooldown = 0
  BY <1>1, <1>2 DEF StrikerTick
<1> QED
  BY <1>3, Numbers DEF PreyIInv, PreyTypeOK, Recovering

-----------------------------------------------------------------------------
(* The parts together.                                                     *)

\* Camps escalate, buffs pair and are shared, and prey pays as it should, in all behaviours of
\* the four parts side by side (arena_tick_camp_minions, arena_tick_kings, creep_die, tower_die).
THEOREM WildsAreSound == WildSpec => []WildInv
<1>1. CampIInv /\ KingIInv /\ SynergyTypeOK /\ PreyIInv => WildInv
  BY DEF CampIInv, Minion, KingIInv, KingTypeOK, BoonsOf, SynergyTypeOK, PreyIInv, PreyTypeOK, Prey, Sound,
         WildInv, WildTypeOK, EscalationEarned
<1>2. WildSpec => []CampIInv
  BY CampInitIInv, CampNextIInv, PTL DEF WildSpec
<1>3. WildSpec => []KingIInv
  BY KingInitIInv, KingNextIInv, PTL DEF WildSpec
<1>4. WildSpec => []SynergyTypeOK
  BY SynergyInitType, SynergyNextType, PTL DEF WildSpec
<1>5. WildSpec => []PreyIInv
  BY PreyInitIInv, PreyNextIInv, PTL DEF WildSpec
<1> QED
  BY <1>1, <1>2, <1>3, <1>4, <1>5, PTL

\* No King is back before its time and no hero strikes twice in the time of one blow, whatever
\* the six loops of arena_update_teams() find in reach.
THEOREM WildStepsAreEarned == WildSpec => WildSteps
<1>1. WildSpec => KingStaysDown
  BY KingInitIInv, KingNextIInv, KingComesInTime, PTL DEF WildSpec, KingStaysDown
<1>2. WildSpec => OneBlowAtATime
  BY PreyInitIInv, PreyNextIInv, OneBlowInItsTime, PTL DEF WildSpec, OneBlowAtATime
<1> QED
  BY <1>1, <1>2 DEF WildSteps

-----------------------------------------------------------------------------
(* The ground.                                                             *)

LEMMA Measures ==
    /\ Heights \in Seq(Nat) /\ Len(Heights) \in Nat \ {0}
    /\ Top \in Nat \ {0} /\ LowMoon \in Nat \ {0} /\ FlowerTicks \in Nat \ {0} /\ PowerTicks \in Nat \ {0}
    /\ PickerHp \in Nat \ {0} /\ Second \in Nat \ {0} /\ TreeHp \in Nat \ {0}
    /\ TreeRegen \in Nat /\ TickMs \in Nat
BY GroundNumbers

\* A night that has had its flower is marked, and a flower that was paid for is not there.
NightIInv ==
    /\ sky \in [step : DOMAIN Heights, height : Nat, rising : BOOLEAN, fired : BOOLEAN]
    /\ flower \in 0..FlowerTicks
    /\ night \in [flowers : 0..1, paid : 0..1]
    /\ night.flowers = 1 => sky.fired
    /\ night.paid = 1 => flower = 0

LEMMA NightInitIInv == NightInit => NightIInv
<1> SUFFICES ASSUME NightInit PROVE NightIInv
  OBVIOUS
<1>1. 1 \in DOMAIN Heights /\ Heights[1] \in Nat
  BY Measures
<1> QED
  BY <1>1, Measures DEF NightInit, NightIInv

LEMMA NightNextIInv == NightIInv /\ [NightNext]_nightVars => NightIInv'
<1> SUFFICES ASSUME NightIInv, [NightNext]_nightVars PROVE NightIInv'
  OBVIOUS
<1>1. CASE DayNight
  <2> DEFINE next == IF sky.step = Len(Heights) THEN 1 ELSE sky.step + 1
             Turning(m) ==
               LET up == m > sky.height
               IN /\ sky' = [step |-> next, height |-> m, rising |-> up, fired |-> m >= LowMoon /\ (sky.fired \/ Zenith(up))]
                  /\ flower' = IF Zenith(up) THEN FlowerTicks - 1 ELSE Before(flower)
                  /\ night' = [flowers |-> IF m < LowMoon THEN 0 ELSE IF Zenith(up) THEN night.flowers + 1 ELSE night.flowers,
                               paid |-> IF Zenith(up) THEN 0 ELSE night.paid]
  <2>1. next \in DOMAIN Heights
    BY Measures DEF NightIInv
  <2>2. PICK m \in MoonAt(next) : Turning(m)
    BY <1>1 DEF DayNight
  <2> HIDE DEF next
  <2>3. m \in Nat
    <3>1. Heights[next] \in Nat
      BY <2>1, Measures
    <3> QED
      BY <2>2, <3>1, Measures DEF MoonAt
  <2> DEFINE up == m > sky.height
             zenith == Zenith(up)
  <2>4. /\ sky' = [step |-> next, height |-> m, rising |-> up, fired |-> m >= LowMoon /\ (sky.fired \/ zenith)]
        /\ flower' = IF zenith THEN FlowerTicks - 1 ELSE Before(flower)
        /\ night' = [flowers |-> IF m < LowMoon THEN 0 ELSE IF zenith THEN night.flowers + 1 ELSE night.flowers,
                     paid |-> IF zenith THEN 0 ELSE night.paid]
    BY <2>2
  <2>5. zenith \in BOOLEAN /\ up \in BOOLEAN /\ (zenith => ~sky.fired)
    BY DEF Zenith, NightIInv
  <2> HIDE DEF zenith, up
  <2>6. flower' \in 0..FlowerTicks /\ (~zenith /\ flower = 0 => flower' = 0)
    BY <2>4, <2>5, Measures DEF NightIInv, Before
  <2>7. night.flowers \in 0..1 /\ night.paid \in 0..1 /\ (night.flowers = 1 => sky.fired) /\ (night.paid = 1 => flower = 0)
        /\ sky.fired \in BOOLEAN
    BY DEF NightIInv
  <2>8. night' \in [flowers : 0..1, paid : 0..1]
    BY <2>3, <2>4, <2>5, <2>7, Measures
  <2>9. sky' \in [step : DOMAIN Heights, height : Nat, rising : BOOLEAN, fired : BOOLEAN]
    BY <2>1, <2>3, <2>4, <2>5, <2>7
  <2>10. night'.flowers = 1 => sky'.fired
    BY <2>3, <2>4, <2>5, <2>7, Measures
  <2>11. night'.paid = 1 => flower' = 0
    BY <2>4, <2>6, <2>7
  <2> QED
    BY <2>6, <2>8, <2>9, <2>10, <2>11 DEF NightIInv
<1>2. CASE Claim
  <2>1. flower > 0 /\ flower' = 0 /\ sky' = sky /\ night.paid = 0 /\ night' = [night EXCEPT !.paid = night.paid + 1]
    BY <1>2, Measures DEF Claim, NightIInv
  <2>2. night \in [flowers : 0..1, paid : 0..1] /\ (night.flowers = 1 => sky.fired) /\ 0 \in 0..FlowerTicks
    BY Measures DEF NightIInv
  <2>3. night' \in [flowers : 0..1, paid : 0..1] /\ night'.flowers = night.flowers
    <3>1. night.paid + 1 \in 0..1
      BY <2>1
    <3> QED
      BY <2>1, <2>2, <3>1
  <2> QED
    BY <2>1, <2>2, <2>3 DEF NightIInv
<1>3. CASE UNCHANGED nightVars
  BY <1>3 DEF nightVars, NightIInv
<1> QED
  BY <1>1, <1>2, <1>3 DEF NightNext

\* While a power-up is away, its wait and the ticks since it was taken make up its respawn time.
PowerIInv ==
    /\ power \in [here : BOOLEAN, wait : 0..PowerTicks]
    /\ taken \in [now : BOOLEAN, since : 1..PowerTicks]
    /\ ~power.here => power.wait >= 1
    /\ taken.now => taken.since = PowerTicks /\ ~power.here /\ power.wait = PowerTicks
    /\ ~taken.now /\ ~power.here => taken.since + power.wait >= PowerTicks
    /\ ~taken.now /\ power.here => taken.since >= PowerTicks

LEMMA PowerInitIInv == PowerInit => PowerIInv
BY Measures DEF PowerInit, PowerIInv

LEMMA PowerNextIInv == PowerIInv /\ [PowerNext]_powerVars => PowerIInv'
<1> SUFFICES ASSUME PowerIInv, [PowerNext]_powerVars PROVE PowerIInv'
  OBVIOUS
<1>1. ASSUME NEW near \in BOOLEAN, PowerTick(near) PROVE PowerIInv'
  <2> DEFINE takes == power.here /\ near
             since == IF taken.now THEN 1 ELSE IF taken.since < PowerTicks THEN taken.since + 1 ELSE PowerTicks
  <2>1. /\ power' = IF ~power.here THEN [here |-> power.wait <= 1, wait |-> power.wait - 1]
                    ELSE IF takes THEN TakenPower ELSE power
        /\ taken' = [now |-> takes, since |-> since]
    BY <1>1 DEF PowerTick
  <2>2. since \in 1..PowerTicks /\ takes \in BOOLEAN
    BY Measures DEF PowerIInv
  <2>3. CASE ~power.here
    <3>1. power'.here = (power.wait <= 1) /\ power'.wait = power.wait - 1 /\ power' \in [here : BOOLEAN, wait : 0..PowerTicks]
      BY <2>1, <2>3, Measures DEF PowerIInv
    <3>2. taken' = [now |-> FALSE, since |-> since]
      BY <2>1, <2>3
    <3> QED
      BY <2>2, <2>3, <3>1, <3>2, Measures DEF PowerIInv
  <2>4. CASE power.here /\ near
    BY <2>1, <2>2, <2>4, Measures DEF PowerIInv, TakenPower
  <2>5. CASE power.here /\ ~near
    BY <2>1, <2>2, <2>5, Measures DEF PowerIInv
  <2> QED
    BY <2>3, <2>4, <2>5
<1>2. CASE UNCHANGED powerVars
  BY <1>2 DEF powerVars, PowerIInv
<1> QED
  BY <1>1, <1>2 DEF PowerNext

HealIInv ==
    /\ pickers \in [Pickers -> [alive : BOOLEAN, hp : 0..PickerHp]]
    /\ fountain \in 0..(Second - 1) /\ tree \in 0..TreeHp
    /\ NoHpForTheDead

LEMMA HealInitIInv == HealInit => HealIInv
BY Measures DEF HealInit, HealIInv, NoHpForTheDead

LEMMA HealedFacts ==
    ASSUME NEW p \in [alive : BOOLEAN, hp : 0..PickerHp], p.alive <=> p.hp > 0
    PROVE  Healed(p) \in [alive : BOOLEAN, hp : 0..PickerHp] /\ (Healed(p).alive <=> Healed(p).hp > 0)
<1>1. p.hp \in 0..PickerHp /\ p.alive \in BOOLEAN
  OBVIOUS
<1>2. CASE p.alive /\ p.hp < PickerHp
  <2> DEFINE more == p.hp + 1
  <2>1. more \in 0..PickerHp /\ more > 0
    BY <1>1, <1>2, Measures
  <2>2. Healed(p) = [p EXCEPT !.hp = more]
    BY <1>2 DEF Healed
  <2> HIDE DEF more
  <2>3. Healed(p) \in [alive : BOOLEAN, hp : 0..PickerHp] /\ Healed(p).alive = p.alive /\ Healed(p).hp = more
    BY <2>1, <2>2
  <2> QED
    BY <1>2, <2>1, <2>3
<1>3. CASE ~(p.alive /\ p.hp < PickerHp)
  BY <1>3 DEF Healed
<1> QED
  BY <1>2, <1>3

LEMMA HealNextIInv == HealIInv /\ [HealNext]_healVars => HealIInv'
<1> SUFFICES ASSUME HealIInv, [HealNext]_healVars PROVE HealIInv'
  OBVIOUS
<1>1. /\ pickers \in [Pickers -> [alive : BOOLEAN, hp : 0..PickerHp]]
      /\ \A h \in Pickers : /\ pickers[h] \in [alive : BOOLEAN, hp : 0..PickerHp]
                            /\ pickers[h].alive <=> pickers[h].hp > 0
      /\ fountain \in 0..(Second - 1) /\ tree \in 0..TreeHp
  BY DEF HealIInv, NoHpForTheDead
<1>2. \A h \in Pickers : /\ Healed(pickers[h]) \in [alive : BOOLEAN, hp : 0..PickerHp]
                         /\ Healed(pickers[h]).alive <=> Healed(pickers[h]).hp > 0
  BY <1>1, HealedFacts
<1>3. CASE TreeTick
  <2> DEFINE grown == tree + (TreeRegen * TickMs) \div 1000
  <2>1. TreeRegen * TickMs \in Nat
    BY Measures
  <2>2. (TreeRegen * TickMs) \div 1000 \in Nat
    BY <2>1
  <2>3. grown \in Nat
    BY <1>1, <2>2
  <2>4. tree' = IF grown > TreeHp THEN TreeHp ELSE grown
    BY <1>3 DEF TreeTick
  <2> HIDE DEF grown
  <2>5. tree' \in 0..TreeHp
    BY <2>3, <2>4, Measures
  <2> QED
    BY <1>3, <2>5 DEF TreeTick, HealIInv, NoHpForTheDead
<1>4. CASE ReturnWave
  <2>1. pickers' = [h \in Pickers |-> IF pickers[h].alive THEN pickers[h] ELSE [alive |-> TRUE, hp |-> PickerHp]]
    BY <1>4 DEF ReturnWave
  <2>2. pickers' \in [Pickers -> [alive : BOOLEAN, hp : 0..PickerHp]]
    BY <1>1, <2>1, Measures
  <2>3. \A h \in Pickers : pickers'[h].alive <=> pickers'[h].hp > 0
    BY <1>1, <2>1, Measures
  <2> QED
    BY <1>1, <1>4, <2>2, <2>3 DEF ReturnWave, HealIInv, NoHpForTheDead
<1>5. ASSUME NEW near \in SUBSET Pickers, FountainTick(near) PROVE HealIInv'
  <2>1. /\ pickers' = [h \in Pickers |-> IF fountain' = 0 /\ h \in near THEN Healed(pickers[h]) ELSE pickers[h]]
        /\ fountain' = (fountain + 1) % Second /\ tree' = tree
    BY <1>5 DEF FountainTick
  <2>2. fountain' \in 0..(Second - 1)
    BY <1>1, <2>1, Measures
  <2> QED
    BY <1>1, <1>2, <2>1, <2>2 DEF HealIInv, NoHpForTheDead
<1>6. ASSUME NEW h \in Pickers, Lean(h) PROVE HealIInv'
  <2>1. pickers' = [pickers EXCEPT ![h] = Healed(pickers[h])] /\ tree' = Before(tree) /\ fountain' = fountain
    BY <1>6 DEF Lean
  <2>2. tree' \in 0..TreeHp
    BY <1>1, <2>1, Measures DEF Before
  <2> QED
    BY <1>1, <1>2, <2>1, <2>2 DEF HealIInv, NoHpForTheDead
<1>7. ASSUME NEW h \in Pickers, Wound(h) PROVE HealIInv'
  <2> DEFINE p == [alive |-> pickers[h].hp > 1, hp |-> pickers[h].hp - 1]
  <2>1. pickers' = [pickers EXCEPT ![h] = p] /\ tree' = tree /\ fountain' = fountain /\ pickers[h].hp > 0
    BY <1>1, <1>7 DEF Wound
  <2>2. p \in [alive : BOOLEAN, hp : 0..PickerHp] /\ (p.alive <=> p.hp > 0)
    <3>1. pickers[h].hp \in 0..PickerHp
      BY <1>1
    <3> DEFINE left == pickers[h].hp - 1
               lives == pickers[h].hp > 1
    <3>2. left \in 0..PickerHp /\ lives \in BOOLEAN /\ (lives <=> left > 0)
      BY <2>1, <3>1, Measures
    <3>3. p = [alive |-> lives, hp |-> left]
      OBVIOUS
    <3> HIDE DEF left, lives, p
    <3> QED
      BY <3>2, <3>3
  <2> HIDE DEF p
  <2> QED
    BY <1>1, <2>1, <2>2 DEF HealIInv, NoHpForTheDead
<1>8. CASE UNCHANGED healVars
  BY <1>8 DEF healVars, HealIInv, NoHpForTheDead
<1> QED
  BY <1>3, <1>4, <1>5, <1>6, <1>7, <1>8 DEF HealNext

\* One Bloodflower a night however the moon trembles at its zenith, each paid once; a power-up is
\* away for its whole time; and nothing on the ground heals the dead (arena_tick_daynight,
\* arena_tick_powerups, arena_tick_fountains, redgarden_host_tree_passive_strike).
THEOREM GroundIsSound == GroundSpec => []GroundInv
<1>1. NightIInv /\ PowerIInv /\ HealIInv => GroundInv
  BY Measures DEF NightIInv, PowerIInv, HealIInv, GroundInv, GroundTypeOK, OneFlowerANight, PowerIsScarce
<1>2. GroundSpec => []NightIInv
  BY NightInitIInv, NightNextIInv, PTL DEF GroundSpec
<1>3. GroundSpec => []PowerIInv
  BY PowerInitIInv, PowerNextIInv, PTL DEF GroundSpec
<1>4. GroundSpec => []HealIInv
  BY HealInitIInv, HealNextIInv, PTL DEF GroundSpec
<1> QED
  BY <1>1, <1>2, <1>3, <1>4, PTL

-----------------------------------------------------------------------------
(* Orders.                                                                 *)

Unit == [alive : BOOLEAN, at : Line, goal : Line, moving : BOOLEAN, focus : {"none", "foe", "friend"},
         mode : {"none", "attack-move", "hold", "patrol"}, swing : 0..SwingTicks,
         route : [from : Line, to : Line, there : BOOLEAN], held : {"no", "root", "stun"}, air : 0..GlideTicks]
Route == [from : Line, to : Line, there : BOOLEAN]
Quarry == [at : Line \cup {Gone}, shows : BOOLEAN]

LEMMA OrderSizes ==
    /\ Length \in Nat /\ MeleeReach \in Nat /\ ShotReach \in Nat
    /\ SwingTicks \in Nat \ {0} /\ GlideTicks \in Nat \ {0} /\ Patience \in Nat \ {0}
    /\ Line = 0..Length /\ 0 \in Line /\ Length \in Line /\ Gone \notin Line
BY OrderNumbers DEF Line, Gone

LEMMA UnitFields ==
    ASSUME NEW u \in Unit
    PROVE  /\ u.alive \in BOOLEAN /\ u.at \in Line /\ u.goal \in Line /\ u.moving \in BOOLEAN
           /\ u.focus \in {"none", "foe", "friend"} /\ u.mode \in {"none", "attack-move", "hold", "patrol"}
           /\ u.swing \in 0..SwingTicks /\ u.route \in Route /\ u.held \in {"no", "root", "stun"}
           /\ u.air \in 0..GlideTicks
BY DEF Unit, Route

\* Where the ticks send a unit of its own accord, and that it goes there when it is not there.
Aim(u) == IF u.mode = "patrol" THEN Leg(u.route) ELSE u.route.to
Underway(u) == u.at # u.goal => u.moving

LEMMA LegOnLine == ASSUME NEW r \in Route PROVE Leg(r) \in Line /\ Reversed(r) \in Route /\ Reversed(r) # r
BY DEF Route, Leg, Reversed

LEMMA AimOnLine == ASSUME NEW u \in Unit PROVE Aim(u) \in Line
BY UnitFields, LegOnLine DEF Aim, Route

LEMMA Steps ==
    ASSUME NEW x \in Line, NEW y \in Line
    PROVE  /\ Towards(x, y) \in Line /\ Distance(x, y) \in 0..Length
           /\ x # y => Distance(Towards(x, y), y) + 1 = Distance(x, y)
           /\ Distance(x, y) = 0 => x = y
           /\ Towards(x, x) = x
BY OrderSizes DEF Towards, Distance

LEMMA MotionStep ==
    ASSUME NEW u \in Unit, NEW m \in Motion(u)
    PROVE  /\ m \in Unit
           /\ m.alive = u.alive /\ m.goal = u.goal /\ m.focus = u.focus /\ m.mode = u.mode
           /\ m.swing = u.swing /\ m.route = u.route /\ m.held = u.held
           /\ ~Free(u) => m = u
           /\ Free(u) /\ ~Hindered(u) => m.at = Towards(u.at, u.goal)
<1> DEFINE on == Towards(u.at, u.goal)
           going == ~Arrived(u)
<1>1. on \in Line /\ going \in BOOLEAN
  BY UnitFields, Steps
<1>2. ASSUME NEW y \in Line, NEW b \in BOOLEAN
      PROVE  LET v == LeftAt(u, y, b)
             IN v \in Unit /\ v.alive = u.alive /\ v.goal = u.goal /\ v.focus = u.focus /\ v.mode = u.mode
                /\ v.swing = u.swing /\ v.route = u.route /\ v.held = u.held /\ v.at = y
  BY <1>2 DEF Unit, LeftAt
<1>3. Advanced(u) = LeftAt(u, on, going)
  BY DEF Advanced
<1>4. ~Free(u) => m = u
  BY DEF Motion
<1>5. Free(u) => m = Advanced(u)
                   \/ (Hindered(u) /\ \E y \in Beside(u) : m = LeftAt(u, y, going) \/ m = LeftAt(u, y, TRUE))
  BY DEF Motion
<1>6. Beside(u) \subseteq Line
  BY DEF Beside
<1> HIDE DEF on, going
<1>7. Free(u) => \E y \in Line, b \in BOOLEAN : m = LeftAt(u, y, b)
  BY ONLY <1>1, <1>3, <1>5, <1>6
<1>8. Free(u) /\ ~Hindered(u) => m.at = on
  <2>1. LeftAt(u, on, going).at = on
    BY ONLY <1>1, <1>2
  <2>2. Free(u) /\ ~Hindered(u) => m = LeftAt(u, on, going)
    BY <1>3, <1>5
  <2> QED
    BY ONLY <2>1, <2>2
<1>9. CASE ~Free(u)
  BY <1>4, <1>9
<1>10. CASE Free(u)
  <2>1. PICK y \in Line, b \in BOOLEAN : m = LeftAt(u, y, b)
    BY <1>7, <1>10
  <2>2. LET v == LeftAt(u, y, b)
        IN v \in Unit /\ v.alive = u.alive /\ v.goal = u.goal /\ v.focus = u.focus /\ v.mode = u.mode
           /\ v.swing = u.swing /\ v.route = u.route /\ v.held = u.held
    BY ONLY <1>2, y \in Line, b \in BOOLEAN
  <2> QED
    BY <1>8, <1>10, <2>1, <2>2 DEF on
<1> QED
  BY <1>9, <1>10

\* What a part of the tick after the motion leaves alone.
Stays(u, v) ==
    v \in Unit /\ v.alive = u.alive /\ v.at = u.at /\ v.mode = u.mode /\ v.held = u.held

LEMMA BeginMeleeStep ==
    ASSUME NEW u \in Unit, NEW ready \in BOOLEAN
    PROVE  LET v == BeginMelee(u, ready)
           IN Stays(u, v) /\ v.goal = u.goal /\ v.moving = u.moving /\ v.focus = u.focus /\ v.route = u.route
              /\ (~Stalkable => v = u)
<1>1. BeginMelee(u, ready) = u \/ BeginMelee(u, ready) = [u EXCEPT !.swing = SwingTicks]
  BY DEF BeginMelee
<1>2. SwingTicks \in 0..SwingTicks
  BY OrderSizes
<1>3. ~Stalkable => BeginMelee(u, ready) = u
  BY DEF BeginMelee, Within
<1> QED
  BY <1>1, <1>2, <1>3 DEF Stays, Unit

LEMMA EngageStep ==
    ASSUME NEW u \in Unit, NEW x \in Line
    PROVE  LET v == Engage(u, x)
           IN /\ Stays(u, v) /\ v.swing = u.swing /\ v.route = u.route
              /\ Underway(u) => Underway(v)
              /\ u.goal = x => v.goal = u.goal
              /\ u.focus # "none" => v = u
              /\ ~Stalkable /\ u.focus = "none" => v.focus = "none" /\ v.goal = x
<1> DEFINE sent == [u EXCEPT !.goal = x, !.moving = TRUE]
           locked == [u EXCEPT !.focus = "foe"]
<1>1. sent \in Unit /\ Stays(u, sent) /\ sent.swing = u.swing /\ sent.route = u.route /\ sent.moving = TRUE
      /\ sent.goal = x /\ sent.focus = u.focus
  BY DEF Unit, Stays
<1>2. locked \in Unit /\ Stays(u, locked) /\ locked.swing = u.swing /\ locked.route = u.route
      /\ locked.moving = u.moving /\ locked.goal = u.goal /\ locked.focus = "foe"
  BY DEF Unit, Stays
<1>3. Stays(u, u)
  BY DEF Stays
<1>4. Engage(u, x) = IF u.focus # "none" THEN u ELSE IF Within(u) THEN locked ELSE IF u.goal = x THEN u ELSE sent
  BY DEF Engage, Retarget
<1>5. ~Stalkable => ~Within(u)
  BY DEF Within
<1> HIDE DEF sent, locked
<1> QED
  BY <1>1, <1>2, <1>3, <1>4, <1>5 DEF Underway, Stays

LEMMA TickAttackMoveStep ==
    ASSUME NEW u \in Unit
    PROVE  LET v == TickAttackMove(u)
           IN /\ Stays(u, v) /\ v.swing = u.swing /\ v.route = u.route
              /\ Underway(u) => Underway(v)
              /\ u.mode = "hold" => v.goal = u.goal
              /\ u.focus # "none" \/ u.mode = "patrol" => v = u
              /\ ~Stalkable /\ u.focus = "none" => v.focus = "none"
              /\ ~Stalkable /\ u.focus = "none" /\ u.alive /\ kind # "clone" /\ u.mode = "attack-move"
                    => v.goal = u.route.to
<1>1. u.goal \in Line /\ u.route.to \in Line
  BY UnitFields DEF Route
<1>2. Stays(u, u)
  BY DEF Stays
<1>3. CASE u.alive /\ kind # "clone" /\ u.mode = "attack-move"
  <2>1. TickAttackMove(u) = Engage(u, u.route.to)
    BY <1>3 DEF TickAttackMove
  <2> QED
    BY <1>1, <1>3, <2>1, EngageStep
<1>4. CASE u.alive /\ kind # "clone" /\ u.mode = "hold"
  <2>1. TickAttackMove(u) = Engage(u, u.goal)
    BY <1>4 DEF TickAttackMove
  <2> QED
    BY <1>1, <1>4, <2>1, EngageStep
<1>5. CASE ~(u.alive /\ kind # "clone" /\ u.mode \in {"attack-move", "hold"})
  <2>1. TickAttackMove(u) = u
    BY <1>5 DEF TickAttackMove
  <2> QED
    BY <1>2, <1>5, <2>1
<1> QED
  BY <1>3, <1>4, <1>5

LEMMA TickPatrolStep ==
    ASSUME NEW u \in Unit
    PROVE  LET v == TickPatrol(u)
           IN /\ Stays(u, v) /\ v.swing = u.swing
              /\ Underway(u) => Underway(v)
              /\ u.mode # "patrol" => v = u
              /\ ~Stalkable /\ u.focus = "none" => v.focus = "none"
              /\ u.alive /\ kind # "clone" /\ u.mode = "patrol" /\ v.route = u.route => u.at # Leg(u.route)
              /\ ~Stalkable /\ u.focus = "none" /\ u.alive /\ kind # "clone" /\ u.mode = "patrol" => v.goal = Leg(v.route)
<1>1. Stays(u, u)
  BY DEF Stays
<1>2. CASE u.alive /\ kind # "clone" /\ u.mode = "patrol"
  <2> DEFINE turned == Turned(u)
  <2>1. Reversed(u.route) \in Route /\ Reversed(u.route) # u.route
    BY UnitFields, LegOnLine
  <2>2. /\ Stays(u, turned) /\ turned.swing = u.swing /\ turned.focus = u.focus
        /\ turned.goal = u.goal /\ turned.moving = u.moving
        /\ turned.route = IF u.at = Leg(u.route) THEN Reversed(u.route) ELSE u.route
    <3> DEFINE back == Reversed(u.route)
    <3>1. back \in [from : Line, to : Line, there : BOOLEAN]
      BY <2>1 DEF Route
    <3>2. turned = IF u.at = Leg(u.route) THEN [u EXCEPT !.route = back] ELSE u
      BY DEF Turned
    <3> HIDE DEF turned, back
    <3>3. CASE u.at = Leg(u.route)
      <4>1. turned = [u EXCEPT !.route = back]
        BY <3>2, <3>3
      <4>2. turned \in Unit /\ turned.alive = u.alive /\ turned.at = u.at /\ turned.mode = u.mode /\ turned.held = u.held
            /\ turned.swing = u.swing /\ turned.focus = u.focus /\ turned.goal = u.goal /\ turned.moving = u.moving
            /\ turned.route = back
        BY <3>1, <4>1 DEF Unit
      <4> QED
        BY <3>3, <4>2 DEF Stays, back
    <3>4. CASE u.at # Leg(u.route)
      BY <3>2, <3>4 DEF Stays
    <3> QED
      BY <3>3, <3>4
  <2> HIDE DEF turned
  <2>3. turned \in Unit /\ Leg(turned.route) \in Line
    BY <2>2, UnitFields, LegOnLine DEF Stays
  <2>4. TickPatrol(u) = Engage(turned, Leg(turned.route))
    BY <1>2 DEF TickPatrol, turned
  <2> DEFINE v == Engage(turned, Leg(turned.route))
  <2>5. /\ Stays(turned, v) /\ v.swing = turned.swing /\ v.route = turned.route
        /\ Underway(turned) => Underway(v)
        /\ ~Stalkable /\ turned.focus = "none" => v.focus = "none" /\ v.goal = Leg(turned.route)
    BY <2>3, EngageStep
  <2> HIDE DEF v
  <2>6. Underway(u) => Underway(turned)
    BY <2>2 DEF Underway, Stays
  <2>7. TickPatrol(u) = v
    BY <2>4 DEF v
  <2>8. Stays(u, v)
    BY <2>2, <2>5 DEF Stays
  <2> QED
    BY <1>2, <2>1, <2>2, <2>5, <2>6, <2>7, <2>8
<1>3. CASE ~(u.alive /\ kind # "clone" /\ u.mode = "patrol")
  <2>1. TickPatrol(u) = u
    BY <1>3 DEF TickPatrol
  <2> QED
    BY <1>1, <1>3, <2>1
<1> QED
  BY <1>2, <1>3

LEMMA PursueStep ==
    ASSUME NEW u \in Unit, NEW ready \in BOOLEAN, prey \in Quarry
    PROVE  LET v == Pursue(u, ready)
           IN /\ Stays(u, v) /\ v.route = u.route
              /\ Underway(u) => Underway(v)
              /\ u.mode = "hold" => v.goal = u.goal
              /\ ~Stalkable => v.goal = u.goal /\ v.swing = u.swing
              /\ ~Stalkable /\ u.alive /\ kind # "clone" => v.focus = "none"
<1> DEFINE dropped == [u EXCEPT !.focus = "none"]
           chasing == [u EXCEPT !.goal = prey.at, !.moving = TRUE]
           shooting == [u EXCEPT !.swing = SwingTicks]
           v == Pursue(u, ready)
<1>1. Stays(u, u)
  BY DEF Stays
<1>2. dropped \in Unit /\ Stays(u, dropped) /\ dropped.route = u.route /\ dropped.goal = u.goal
      /\ dropped.swing = u.swing /\ dropped.moving = u.moving /\ dropped.focus = "none"
  BY DEF Unit, Stays
<1>3. Stalkable => chasing \in Unit /\ Stays(u, chasing) /\ chasing.route = u.route
                   /\ chasing.swing = u.swing /\ chasing.moving = TRUE
  <2>1. Stalkable => prey.at \in Line
    BY DEF Stalkable, Quarry
  <2> QED
    BY <2>1 DEF Unit, Stays
<1>4. shooting \in Unit /\ Stays(u, shooting) /\ shooting.route = u.route /\ shooting.goal = u.goal
      /\ shooting.moving = u.moving /\ shooting.focus = u.focus
  <2>1. SwingTicks \in 0..SwingTicks
    BY OrderSizes
  <2> QED
    BY <2>1 DEF Unit, Stays
<1>5. \/ v = u /\ (~u.alive \/ u.focus = "none" \/ kind = "clone" \/ Stalkable)
      \/ v = dropped
      \/ v = chasing /\ Stalkable /\ u.mode # "hold"
      \/ v = shooting /\ Stalkable
  BY DEF Pursue
<1> HIDE DEF v, dropped, chasing, shooting
<1>6. CASE v = u /\ (~u.alive \/ u.focus = "none" \/ kind = "clone" \/ Stalkable)
  BY <1>1, <1>6 DEF v
<1>7. CASE v = dropped
  BY <1>2, <1>7 DEF v, Underway, Stays
<1>8. CASE v = chasing /\ Stalkable /\ u.mode # "hold"
  BY <1>3, <1>8 DEF v, Underway, Stays
<1>9. CASE v = shooting /\ Stalkable
  BY <1>4, <1>9 DEF v, Underway, Stays
<1> QED
  BY <1>5, <1>6, <1>7, <1>8, <1>9

\* All that a tick does between the motion and the timers.
Aimed(u, ready) == Pursue(TickPatrol(TickAttackMove(BeginMelee(u, ready))), ready)

LEMMA AimedStep ==
    ASSUME NEW u \in Unit, NEW ready \in BOOLEAN, prey \in Quarry
    PROVE  LET v == Aimed(u, ready)
           IN /\ Stays(u, v)
              /\ u.mode # "patrol" => v.route = u.route
              /\ Underway(u) => Underway(v)
              /\ u.mode = "hold" => v.goal = u.goal
              /\ prey.at = Gone /\ u.alive /\ kind # "clone" =>
                    /\ v.focus = "none" /\ v.swing = u.swing
                    /\ u.mode = "patrol" /\ v.route = u.route => u.at # Leg(u.route)
                    /\ u.focus = "none" /\ u.mode \in {"attack-move", "patrol"} => v.goal = Aim(v)
<1> DEFINE a == BeginMelee(u, ready)
           b == TickAttackMove(a)
           c == TickPatrol(b)
           v == Pursue(c, ready)
<1>0. prey.at = Gone => ~Stalkable
  BY DEF Stalkable
<1>1. /\ Stays(u, a) /\ a.goal = u.goal /\ a.moving = u.moving /\ a.focus = u.focus /\ a.route = u.route
      /\ ~Stalkable => a = u
  BY BeginMeleeStep
<1> HIDE DEF a
<1>2. /\ Stays(a, b) /\ b.swing = a.swing /\ b.route = a.route
      /\ Underway(a) => Underway(b)
      /\ a.mode = "hold" => b.goal = a.goal
      /\ a.focus # "none" \/ a.mode = "patrol" => b = a
      /\ ~Stalkable /\ a.focus = "none" => b.focus = "none"
      /\ ~Stalkable /\ a.focus = "none" /\ a.alive /\ kind # "clone" /\ a.mode = "attack-move" => b.goal = a.route.to
  BY <1>1, TickAttackMoveStep DEF Stays
<1> HIDE DEF b
<1>3. /\ Stays(b, c) /\ c.swing = b.swing
      /\ Underway(b) => Underway(c)
      /\ b.mode # "patrol" => c = b
      /\ ~Stalkable /\ b.focus = "none" => c.focus = "none"
      /\ b.alive /\ kind # "clone" /\ b.mode = "patrol" /\ c.route = b.route => b.at # Leg(b.route)
      /\ ~Stalkable /\ b.focus = "none" /\ b.alive /\ kind # "clone" /\ b.mode = "patrol" => c.goal = Leg(c.route)
  BY <1>2, TickPatrolStep DEF Stays
<1> HIDE DEF c
<1>4. /\ Stays(c, v) /\ v.route = c.route
      /\ Underway(c) => Underway(v)
      /\ c.mode = "hold" => v.goal = c.goal
      /\ ~Stalkable => v.goal = c.goal /\ v.swing = c.swing
      /\ ~Stalkable /\ c.alive /\ kind # "clone" => v.focus = "none"
  BY <1>3, PursueStep DEF Stays
<1> HIDE DEF v
<1>5. Aimed(u, ready) = v
  BY DEF Aimed, v, c, b, a
<1>6. Stays(u, v)
  BY <1>1, <1>2, <1>3, <1>4 DEF Stays
<1>7. Underway(u) => Underway(v)
  <2>1. Underway(u) => Underway(a)
    BY <1>1 DEF Underway, Stays
  <2> QED
    BY <1>2, <1>3, <1>4, <2>1
<1>8. a.mode = u.mode /\ b.mode = u.mode /\ c.mode = u.mode /\ v.mode = u.mode
      /\ a.alive = u.alive /\ b.alive = u.alive /\ c.alive = u.alive
      /\ a.at = u.at /\ b.at = u.at /\ c.at = u.at
  BY <1>1, <1>2, <1>3, <1>4 DEF Stays
<1>9. ASSUME prey.at = Gone, u.alive, kind # "clone"
      PROVE  /\ v.focus = "none" /\ v.swing = u.swing
             /\ u.mode = "patrol" /\ v.route = u.route => u.at # Leg(u.route)
             /\ u.focus = "none" /\ u.mode \in {"attack-move", "patrol"} => v.goal = Aim(v)
  <2>1. v.focus = "none" /\ v.swing = u.swing
    BY <1>0, <1>1, <1>2, <1>3, <1>4, <1>8, <1>9
  <2>2. u.mode = "patrol" /\ v.route = u.route => u.at # Leg(u.route)
    BY <1>1, <1>2, <1>3, <1>4, <1>8, <1>9
  <2>3. u.focus = "none" /\ u.mode = "attack-move" => v.goal = Aim(v)
    BY <1>0, <1>1, <1>2, <1>3, <1>4, <1>8, <1>9 DEF Aim
  <2>4. u.focus = "none" /\ u.mode = "patrol" => v.goal = Aim(v)
    BY <1>0, <1>1, <1>2, <1>3, <1>4, <1>8, <1>9 DEF Aim
  <2> QED
    BY <2>1, <2>2, <2>3, <2>4
<1>10. (u.mode # "patrol" => v.route = u.route) /\ (u.mode = "hold" => v.goal = u.goal)
  BY <1>1, <1>2, <1>3, <1>4, <1>8
<1> QED
  BY <1>5, <1>6, <1>7, <1>9, <1>10

LEMMA TimersStep ==
    ASSUME NEW u \in Unit
    PROVE  LET v == TimersOf(WoundUp(u))
           IN /\ v \in Unit /\ v.alive = u.alive /\ v.at = u.at /\ v.goal = u.goal /\ v.moving = u.moving
              /\ v.focus = u.focus /\ v.mode = u.mode /\ v.route = u.route
              /\ v.swing = 0 \/ v.swing = u.swing - 1 \/ ~u.alive
              /\ kind # "clone" => v.held = "no"
<1> DEFINE left == IF u.held = "stun" THEN 0 ELSE u.swing - 1
           w == WoundUp(u)
<1>1. w \in Unit /\ w.alive = u.alive /\ w.at = u.at /\ w.goal = u.goal /\ w.moving = u.moving
      /\ w.focus = u.focus /\ w.mode = u.mode /\ w.route = u.route
      /\ (w.swing = 0 \/ w.swing = u.swing - 1 \/ ~u.alive)
  <2>1. CASE ~u.alive \/ u.swing = 0
    BY <2>1 DEF WoundUp
  <2>2. CASE u.alive /\ u.swing # 0
    <3>1. left \in 0..SwingTicks /\ (left = 0 \/ left = u.swing - 1)
      BY <2>2, UnitFields, OrderSizes
    <3>2. w = [u EXCEPT !.swing = left]
      BY <2>2 DEF WoundUp
    <3> HIDE DEF left, w
    <3>3. w \in Unit /\ w.alive = u.alive /\ w.at = u.at /\ w.goal = u.goal /\ w.moving = u.moving
          /\ w.focus = u.focus /\ w.mode = u.mode /\ w.route = u.route /\ w.swing = left
      BY <3>1, <3>2 DEF Unit
    <3> QED
      BY <3>1, <3>3
  <2> QED
    BY <2>1, <2>2
<1> HIDE DEF w
<1> DEFINE airborne == IF w.air > 0 THEN w.air - 1 ELSE 0
           holding == IF kind = "clone" THEN w.held ELSE "no"
<1>2. airborne \in 0..GlideTicks /\ holding \in {"no", "root", "stun"} /\ (kind # "clone" => holding = "no")
  BY <1>1, UnitFields, OrderSizes
<1> DEFINE v == [w EXCEPT !.air = airborne, !.held = holding]
<1>3. TimersOf(WoundUp(u)) = v
  BY DEF TimersOf, w
<1> HIDE DEF airborne, holding
<1>4. v \in Unit /\ v.alive = w.alive /\ v.at = w.at /\ v.goal = w.goal /\ v.moving = w.moving
      /\ v.focus = w.focus /\ v.mode = w.mode /\ v.route = w.route /\ v.swing = w.swing /\ v.held = holding
  BY <1>1, <1>2 DEF Unit
<1> HIDE DEF v
<1> QED
  BY <1>1, <1>2, <1>3, <1>4

\* While a hero is left alone it drops its lock in the first tick, is sent on in the second, ends its
\* swing within the swing's time and then comes a place nearer every tick.
Settle == IF SwingTicks > 2 THEN SwingTicks ELSE 2
OrderTypes ==
    /\ kind \in OrderedKinds /\ walker \in Unit /\ prey \in Quarry
    /\ shoved \in BOOLEAN /\ leaving \in BOOLEAN /\ quiet \in 0..Patience
LeftAlone(q, w) ==
    /\ Alone(w) /\ w.focus = "none" /\ (w.swing = 0 \/ w.swing + q <= SwingTicks)
    /\ w.mode = "patrol" => w.at # Leg(w.route)
    /\ q > 1 /\ w.mode \in {"attack-move", "patrol"} =>
          /\ w.goal = Aim(w)
          /\ shoved \/ w.at = Aim(w) \/ Distance(w.at, Aim(w)) + q <= Length + Settle
\* The bound on the counting is beyond the time all of it takes.
LongEnough == Length + SwingTicks <= Patience /\ Length + 2 <= Patience
OrderIInv ==
    /\ OrderTypes
    /\ leaving => walker.swing = 0
    /\ walker.mode # "none" /\ ~shoved => Underway(walker)
    /\ LongEnough /\ quiet > 0 => LeftAlone(quiet, walker)

LEMMA StandingUnit == ASSUME NEW x \in Line PROVE Standing(x) \in Unit
BY OrderSizes DEF Standing, Unit, NoRoute

LEMMA OrderInitIInv == OrderInit => OrderIInv
<1> SUFFICES ASSUME OrderInit PROVE OrderIInv
  OBVIOUS
<1>1. walker \in Unit /\ walker.mode = "none"
  BY StandingUnit, OrderSizes DEF OrderInit, Standing
<1>2. prey \in Quarry /\ quiet = 0 /\ shoved = FALSE /\ leaving = FALSE /\ kind \in OrderedKinds
  BY OrderSizes DEF OrderInit, Quarry
<1>3. 0 \in 0..Patience /\ ~(0 > 0)
  BY OrderSizes
<1>4. OrderTypes
  BY <1>1, <1>2, <1>3 DEF OrderTypes
<1> QED
  BY <1>1, <1>2, <1>3, <1>4 DEF OrderIInv

\* A step that is no tick only has to leave a unit that is under way, or was put out of its way,
\* and no swing of one who left.
LEMMA Interrupted ==
    ASSUME OrderIInv, Disturbed, kind' = kind, walker' \in Unit, prey' \in Quarry,
           shoved' \in BOOLEAN, leaving' \in BOOLEAN,
           leaving' => walker'.swing = 0,
           walker'.mode # "none" /\ ~shoved' => Underway(walker')
    PROVE  OrderIInv'
<1>1. quiet' = 0
  BY DEF Disturbed
<1>2. OrderTypes'
  BY <1>1, OrderSizes DEF OrderIInv, OrderTypes
<1>3. Underway(walker)' <=> Underway(walker')
  BY DEF Underway
<1> QED
  BY <1>1, <1>2, <1>3 DEF OrderIInv

LEMMA SentUnit ==
    ASSUME NEW u \in Unit, NEW x \in Line, NEW mode \in {"none", "attack-move", "patrol"}, NEW r \in Route,
           NEW v, v = Sent(u, x, mode, r)
    PROVE  v \in Unit /\ v.moving = TRUE /\ v.swing = Swung(u, x)
<1> DEFINE s == Swung(u, x)
<1>1. s \in 0..SwingTicks
  BY UnitFields, OrderSizes DEF Swung
<1>2. r \in [from : Line, to : Line, there : BOOLEAN]
  BY DEF Route
<1>3. v = [u EXCEPT !.swing = s, !.goal = x, !.moving = TRUE, !.focus = "none", !.mode = mode, !.route = r]
  BY DEF Sent
<1> HIDE DEF s
<1>4. mode \in {"none", "attack-move", "hold", "patrol"}
  OBVIOUS
<1>5. v \in Unit
  <2> DEFINE w == [u EXCEPT !.swing = s, !.goal = x, !.moving = TRUE]
  <2>1. w \in Unit
    BY <1>1 DEF Unit
  <2>2. v = [w EXCEPT !.focus = "none", !.mode = mode, !.route = r]
    BY <1>3
  <2> HIDE DEF w
  <2> QED
    BY ONLY <1>2, <1>4, <2>1, <2>2 DEF Unit
<1>6. v.moving = TRUE /\ v.swing = s
  BY <1>3 DEF Unit
<1>7. v.swing = Swung(u, x)
  BY <1>6 DEF s
<1> QED
  BY <1>5, <1>6, <1>7

\* An order that sends the unit somewhere.
LEMMA SentAway ==
    ASSUME OrderIInv, NEW x \in Line, NEW mode \in {"none", "attack-move", "patrol"}, NEW r \in Route,
           Ordered(Sent(walker, x, mode, r)), Leaves(x)
    PROVE  OrderIInv'
<1>1. walker \in Unit /\ prey \in Quarry /\ leaving \in BOOLEAN /\ (leaving => walker.swing = 0)
  BY DEF OrderIInv, OrderTypes
<1>2. walker' = Sent(walker, x, mode, r) /\ Disturbed /\ shoved' = FALSE /\ kind' = kind /\ prey' = prey
  BY DEF Ordered
<1>3. walker' \in Unit /\ walker'.moving = TRUE /\ walker'.swing = Swung(walker, x)
  <2>1. walker \in Unit /\ x \in Line /\ mode \in {"none", "attack-move", "patrol"} /\ r \in Route
    BY <1>1
  <2>2. walker' = Sent(walker, x, mode, r)
    BY <1>2
  <2> QED
    BY ONLY <2>1, <2>2, SentUnit
<1>4. Underway(walker')
  BY <1>3 DEF Underway
<1>5. leaving' \in BOOLEAN /\ (leaving' => walker'.swing = 0)
  <2>1. CASE Distance(walker.at, x) > Reach
    <3>1. leaving' = (walker.swing > 0) /\ walker'.swing = 0
      BY <1>3, <2>1 DEF Leaves, Swung
    <3> QED
      BY <3>1
  <2>2. CASE ~(Distance(walker.at, x) > Reach)
    <3>1. leaving' = leaving /\ walker'.swing = walker.swing
      BY <1>3, <2>2 DEF Leaves, Swung
    <3> QED
      BY <1>1, <3>1
  <2> QED
    BY <2>1, <2>2
<1> QED
  BY <1>1, <1>2, <1>3, <1>4, <1>5, Interrupted

LEMMA HaltedUnit ==
    ASSUME NEW u \in Unit, NEW mode \in {"none", "hold"}
    PROVE  LET v == Halted(u, mode) IN v \in Unit /\ v.goal = v.at /\ v.swing = u.swing
<1> DEFINE v == Halted(u, mode)
<1>1. v \in Unit
  <2>1. NoRoute \in [from : Line, to : Line, there : BOOLEAN]
    BY OrderSizes DEF NoRoute
  <2>2. u.at \in Line /\ mode \in {"none", "attack-move", "hold", "patrol"}
    BY UnitFields
  <2> QED
    BY <2>1, <2>2 DEF Halted, Unit
<1>2. v.goal = v.at /\ v.swing = u.swing
  BY DEF Halted, Unit
<1> QED
  BY <1>1, <1>2

LEMMA HaltedHere ==
    ASSUME OrderIInv, NEW mode \in {"none", "hold"}, Ordered(Halted(walker, mode)), UNCHANGED leaving
    PROVE  OrderIInv'
<1>1. walker \in Unit /\ prey \in Quarry /\ leaving \in BOOLEAN /\ (leaving => walker.swing = 0)
  BY DEF OrderIInv, OrderTypes
<1>2. walker' = Halted(walker, mode) /\ Disturbed /\ shoved' = FALSE /\ kind' = kind /\ prey' = prey
  BY DEF Ordered
<1>3. walker' \in Unit /\ walker'.goal = walker'.at /\ walker'.swing = walker.swing
  BY <1>1, <1>2, HaltedUnit
<1>4. Underway(walker')
  BY <1>3 DEF Underway
<1> QED
  BY <1>1, <1>2, <1>3, <1>4, Interrupted

LEMMA TickKeeps ==
    ASSUME OrderIInv, OrderTick
    PROVE  OrderIInv'
<1>1. /\ walker \in Unit /\ prey \in Quarry /\ shoved \in BOOLEAN /\ leaving \in BOOLEAN /\ quiet \in 0..Patience
      /\ kind \in OrderedKinds /\ (leaving => walker.swing = 0)
      /\ walker.mode # "none" /\ ~shoved => Underway(walker)
      /\ LongEnough /\ quiet > 0 => LeftAlone(quiet, walker)
  BY DEF OrderIInv, OrderTypes
<1>2. PICK m \in Motion(walker), ready \in BOOLEAN :
          /\ walker' = TimersOf(WoundUp(Aimed(m, ready)))
          /\ quiet' = IF ~Undisturbed(walker) \/ Aimed(m, ready).route # walker.route THEN 0
                      ELSE IF quiet < Patience THEN quiet + 1 ELSE quiet
          /\ leaving' = (leaving /\ walker.swing > 0)
          /\ shoved' = (shoved \/ Stranded(Aimed(m, ready)))
          /\ UNCHANGED <<kind, prey>>
  BY DEF OrderTick, Aimed
<1> DEFINE s == Aimed(m, ready)
<1>0. PICK v, q, r : v = walker' /\ q = quiet' /\ r = shoved'
  OBVIOUS
<1>3. /\ m \in Unit
      /\ m.alive = walker.alive /\ m.goal = walker.goal /\ m.focus = walker.focus /\ m.mode = walker.mode
      /\ m.swing = walker.swing /\ m.route = walker.route /\ m.held = walker.held
      /\ ~Free(walker) => m = walker
      /\ Free(walker) /\ ~Hindered(walker) => m.at = Towards(walker.at, walker.goal)
  BY <1>1, MotionStep
<1>4. /\ Stays(m, s)
      /\ m.mode # "patrol" => s.route = m.route
      /\ prey.at = Gone /\ m.alive /\ kind # "clone" =>
            /\ s.focus = "none" /\ s.swing = m.swing
            /\ m.mode = "patrol" /\ s.route = m.route => m.at # Leg(m.route)
            /\ m.focus = "none" /\ m.mode \in {"attack-move", "patrol"} => s.goal = Aim(s)
  BY <1>1, <1>3, AimedStep
<1>5. v = TimersOf(WoundUp(s)) /\ kind' = kind /\ prey' = prey /\ r = (shoved \/ Stranded(s))
  BY <1>0, <1>2
<1>6. q = IF ~Undisturbed(walker) \/ s.route # walker.route THEN 0
          ELSE IF quiet < Patience THEN quiet + 1 ELSE quiet
  BY <1>0, <1>2
<1> HIDE DEF s
<1>7. /\ v \in Unit /\ v.alive = s.alive /\ v.at = s.at /\ v.goal = s.goal /\ v.moving = s.moving
      /\ v.focus = s.focus /\ v.mode = s.mode /\ v.route = s.route
      /\ v.swing = 0 \/ v.swing = s.swing - 1 \/ ~s.alive
      /\ kind # "clone" => v.held = "no"
  BY <1>4, <1>5, TimersStep DEF Stays
<1>8. v.at = m.at /\ v.mode = walker.mode /\ v.alive = walker.alive /\ s.mode = walker.mode /\ s.alive = walker.alive
  BY <1>3, <1>4, <1>7 DEF Stays
<1>9. r \in BOOLEAN /\ (shoved => r) /\ (v.mode # "none" /\ ~r => Underway(v))
  <2>1. Stranded(s) \in BOOLEAN
    BY DEF Stranded
  <2>2. v.mode # "none" /\ ~Stranded(s) => Underway(v)
    BY <1>7 DEF Stranded, Underway
  <2> QED
    BY <1>1, <1>5, <2>1, <2>2
<1>10. q \in 0..Patience
  BY <1>1, <1>6, OrderSizes
<1>11. ~leaving' /\ leaving' \in BOOLEAN
  <2>1. ~(leaving /\ walker.swing > 0)
    BY <1>1
  <2> QED
    BY <1>2, <2>1
<1>12. ASSUME q > 0, LongEnough PROVE LeftAlone(q, v)'
  <2>1. Undisturbed(walker) /\ s.route = walker.route /\ (q = quiet + 1 \/ (q = quiet /\ quiet = Patience))
    <3>1. Undisturbed(walker) /\ s.route = walker.route
      BY <1>6, <1>12
    <3>2. q = IF quiet < Patience THEN quiet + 1 ELSE quiet
      BY <1>6, <3>1
    <3>3. q = quiet + 1 \/ (q = quiet /\ quiet = Patience)
      <4>1. quiet \in 0..Patience
        BY <1>1
      <4> QED
        BY <3>2, <4>1, OrderSizes
    <3> QED
      BY <3>1, <3>3
  <2>2. prey.at = Gone /\ walker.alive /\ walker.held = "no" /\ kind # "clone" /\ (Free(walker) => ~Hindered(walker))
    BY <2>1 DEF Alone, Undisturbed
  <2>3. Alone(v)'
    BY <1>5, <1>7, <1>8, <2>2 DEF Alone
  <2>4. v.route = walker.route /\ s.swing = walker.swing /\ v.focus = "none" /\ (v.swing = 0 \/ v.swing = walker.swing - 1)
    BY <1>3, <1>4, <1>7, <1>8, <2>1, <2>2
  <2>5. v.mode = "patrol" => v.at # Leg(v.route)
    BY <1>3, <1>4, <1>8, <2>1, <2>2, <2>4
  <2>6. walker.swing \in 0..SwingTicks
    BY <1>1, UnitFields
  <2>7. quiet > 0 => walker.focus = "none" /\ (walker.swing = 0 \/ walker.swing + quiet <= SwingTicks)
    BY <1>1, <1>12 DEF LeftAlone
  <2>8. v.swing = 0 \/ v.swing + q <= SwingTicks
    <3>1. CASE walker.swing = 0
      BY <1>7, <2>4, <2>6, <3>1, UnitFields
    <3>2. CASE walker.swing # 0
      <4>1. walker.swing + quiet <= SwingTicks /\ quiet < Patience
        BY <1>1, <1>12, <2>6, <2>7, <3>2, OrderSizes DEF LongEnough
      <4>2. q = quiet + 1
        BY <1>1, <2>1, <4>1
      <4> QED
        BY <1>1, <2>4, <2>6, <4>1, <4>2, OrderSizes
    <3> QED
      BY <3>1, <3>2
  <2>9. ASSUME q > 1, v.mode \in {"attack-move", "patrol"}
        PROVE  /\ v.goal = Aim(v)
               /\ r \/ v.at = Aim(v) \/ Distance(v.at, Aim(v)) + q <= Length + Settle
    <3>1. quiet > 0
      BY <1>1, <2>1, <2>9, OrderSizes
    <3>2. s.goal = Aim(s)
      BY <1>3, <1>4, <1>8, <2>2, <2>7, <2>9, <3>1
    <3>3. v.goal = Aim(v) /\ Aim(v) = Aim(walker)
      BY <1>3, <1>4, <1>7, <1>8, <2>1, <2>2, <2>4, <3>2 DEF Aim
    <3>4. v.at \in Line /\ Aim(v) \in Line /\ walker.at \in Line
      BY <1>1, <1>7, UnitFields, AimOnLine
    <3>5. Distance(v.at, Aim(v)) \in 0..Length
      BY <3>4, Steps
    <3>6. CASE q <= Settle
      BY <1>10, <3>3, <3>5, <3>6, OrderSizes DEF Settle
    <3>7. CASE ~(q <= Settle) /\ ~r
      <4>0. ~shoved
        BY <1>9, <3>7
      <4>1. quiet > 1 /\ q > SwingTicks
        BY <1>1, <2>1, <3>7, OrderSizes DEF Settle
      <4>2. walker.swing = 0
        BY <1>1, <2>1, <2>6, <2>7, <3>1, <3>7, OrderSizes DEF Settle
      <4>3. /\ walker.goal = Aim(walker)
            /\ walker.at = Aim(walker) \/ Distance(walker.at, Aim(walker)) + quiet <= Length + Settle
        BY <1>1, <1>8, <1>12, <2>9, <4>0, <4>1 DEF LeftAlone
      <4>4. CASE walker.at = Aim(walker)
        <5>1. m.at = walker.at
          BY <1>3, <2>2, <3>4, <4>3, <4>4, Steps
        <5> QED
          BY <1>8, <3>3, <4>4, <5>1
      <4>5. CASE walker.at # Aim(walker)
        <5>1. Distance(walker.at, Aim(walker)) \in 0..Length /\ Aim(walker) \in Line
          BY <3>3, <3>4, Steps
        <5>2. Distance(walker.at, Aim(walker)) # 0
          BY <3>4, <4>5, <5>1, Steps
        <5>3. quiet < Patience
          BY <1>1, <1>12, <4>3, <4>5, <5>1, <5>2, OrderSizes DEF Settle, LongEnough
        <5>4. Underway(walker)
          BY <1>1, <1>8, <2>9, <4>0
        <5>5. Free(walker)
          BY <2>2, <4>2, <4>3, <4>5, <5>4 DEF Free, Underway
        <5>6. m.at = Towards(walker.at, Aim(walker))
          BY <1>3, <2>2, <4>3, <5>5
        <5>7. Distance(m.at, Aim(walker)) + 1 = Distance(walker.at, Aim(walker))
          BY <3>4, <4>5, <5>1, <5>6, Steps
        <5>8. Distance(v.at, Aim(v)) + 1 = Distance(walker.at, Aim(walker))
          BY <1>8, <3>3, <5>7
        <5>9. q = quiet + 1 /\ quiet \in Nat
          BY <1>1, <2>1, <5>3, OrderSizes
        <5>10. Distance(walker.at, Aim(walker)) + quiet <= Length + Settle
          BY <4>3, <4>5
        <5>11. Distance(v.at, Aim(v)) + q = Distance(walker.at, Aim(walker)) + quiet
          BY <3>5, <5>1, <5>8, <5>9
        <5>12. Distance(v.at, Aim(v)) + q <= Length + Settle
          BY <5>10, <5>11
        <5> QED
          BY <3>3, <5>12
      <4> QED
        BY <4>4, <4>5
    <3> QED
      BY <1>9, <3>3, <3>6, <3>7
  <2> QED
    BY <1>0, <1>5, <2>3, <2>4, <2>5, <2>8, <2>9 DEF LeftAlone, Settle, Aim, Leg, Distance
<1> QED
  <2>1. OrderTypes'
    BY <1>0, <1>1, <1>5, <1>7, <1>9, <1>10, <1>11 DEF OrderTypes
  <2>2. (walker.mode # "none" /\ ~shoved => Underway(walker))'
    BY <1>0, <1>5, <1>9 DEF Underway
  <2>3. (LongEnough /\ quiet > 0 => LeftAlone(quiet, walker))'
    BY <1>0, <1>12 DEF LongEnough, LeftAlone, Alone, Aim, Leg, Distance
  <2> QED
    BY <1>11, <2>1, <2>2, <2>3 DEF OrderIInv, LongEnough

LEMMA OrderNextIInv ==
    ASSUME OrderIInv, [OrderNext]_orderVars
    PROVE  OrderIInv'
<1>1. /\ walker \in Unit /\ prey \in Quarry /\ shoved \in BOOLEAN /\ leaving \in BOOLEAN
      /\ (leaving => walker.swing = 0) /\ (walker.mode # "none" /\ ~shoved => Underway(walker))
  BY DEF OrderIInv, OrderTypes
<1>2. CASE OrderTick
  BY <1>2, TickKeeps
<1>3. ASSUME NEW x \in Line, arena_set_move_target(x) \/ arena_set_attack_move_target(x) \/ arena_set_patrol_target(x)
      PROVE  OrderIInv'
  <2>1. walker.at \in Line
    BY <1>1, UnitFields
  <2>2. NoRoute \in Route /\ [NoRoute EXCEPT !.to = x] \in Route /\ [from |-> walker.at, to |-> x, there |-> TRUE] \in Route
    BY <2>1, OrderSizes DEF NoRoute, Route
  <2>3. CASE arena_set_move_target(x)
    BY <2>2, <2>3, SentAway DEF arena_set_move_target
  <2>4. CASE arena_set_attack_move_target(x)
    BY <2>2, <2>4, SentAway DEF arena_set_attack_move_target
  <2>5. CASE arena_set_patrol_target(x)
    BY <2>2, <2>5, SentAway DEF arena_set_patrol_target
  <2> QED
    BY <1>3, <2>3, <2>4, <2>5
<1>4. ASSUME NEW x \in Line, Displaced(x) PROVE OrderIInv'
  <2>1. walker' = [walker EXCEPT !.at = x, !.moving = FALSE] /\ shoved' = (walker.mode # "none")
        /\ Disturbed /\ kind' = kind /\ prey' = prey /\ leaving' = leaving
    BY <1>4 DEF Displaced
  <2>2. walker' \in Unit /\ walker'.mode = walker.mode /\ walker'.swing = walker.swing
    BY <1>1, <2>1 DEF Unit
  <2>3. shoved' \in BOOLEAN /\ (walker'.mode # "none" => shoved')
    BY <2>1, <2>2
  <2> QED
    BY <1>1, <2>1, <2>2, <2>3, Interrupted
<1>5. ASSUME NEW x \in Line, Pushed(x) PROVE OrderIInv'
  <2>1. walker' = [walker EXCEPT !.at = x] /\ shoved' = (shoved \/ (walker.mode # "none" /\ ~walker.moving))
        /\ Disturbed /\ kind' = kind /\ prey' = prey /\ leaving' = leaving
    BY <1>5 DEF Pushed
  <2>2. walker' \in Unit /\ walker'.mode = walker.mode /\ walker'.swing = walker.swing /\ walker'.moving = walker.moving
    BY <1>1, <2>1 DEF Unit
  <2>3. shoved' \in BOOLEAN /\ (walker'.mode # "none" /\ ~shoved' => Underway(walker'))
    BY <2>1, <2>2 DEF Underway
  <2> QED
    BY <1>1, <2>1, <2>2, <2>3, Interrupted
<1>6. ASSUME NEW x \in Line, Glide(x) PROVE OrderIInv'
  <2>1. walker' = [walker EXCEPT !.goal = x, !.moving = TRUE, !.air = GlideTicks]
        /\ Disturbed /\ kind' = kind /\ prey' = prey /\ shoved' = shoved /\ leaving' = leaving
    BY <1>6 DEF Glide
  <2>2. GlideTicks \in 0..GlideTicks
    BY OrderSizes
  <2>3. walker' \in Unit /\ walker'.swing = walker.swing /\ walker'.moving = TRUE
    BY <1>1, <2>1, <2>2 DEF Unit
  <2>4. Underway(walker')
    BY <2>3 DEF Underway
  <2> QED
    BY <1>1, <2>1, <2>3, <2>4, Interrupted
<1>7. ASSUME NEW f \in {"foe", "friend"}, arena_set_attack_target(f) PROVE OrderIInv'
  <2>1. walker' = [walker EXCEPT !.focus = f, !.mode = "none", !.route = NoRoute]
        /\ Disturbed /\ shoved' = FALSE /\ kind' = kind /\ prey' = prey /\ leaving' = leaving
    BY <1>7 DEF arena_set_attack_target, Ordered
  <2>2. NoRoute \in [from : Line, to : Line, there : BOOLEAN]
    BY OrderSizes DEF NoRoute
  <2>3. walker' \in Unit /\ walker'.swing = walker.swing /\ walker'.mode = "none"
    BY <1>1, <2>1, <2>2 DEF Unit
  <2> QED
    BY <1>1, <2>1, <2>3, Interrupted
<1>8. CASE arena_stop_unit
  BY <1>8, HaltedHere DEF arena_stop_unit
<1>9. CASE arena_hold_position
  BY <1>9, HaltedHere DEF arena_hold_position
<1>10. ASSUME NEW how \in {"root", "stun"}, Bound(how) PROVE OrderIInv'
  <2>1. walker' = [walker EXCEPT !.held = how] /\ Disturbed /\ kind' = kind /\ prey' = prey /\ shoved' = shoved
        /\ leaving' = leaving
    BY <1>10 DEF Bound
  <2>2. walker' \in Unit /\ walker'.swing = walker.swing /\ walker'.mode = walker.mode
        /\ walker'.at = walker.at /\ walker'.goal = walker.goal /\ walker'.moving = walker.moving
    BY <1>1, <2>1 DEF Unit
  <2>3. Underway(walker) => Underway(walker')
    BY <2>2 DEF Underway
  <2> QED
    BY <1>1, <2>1, <2>2, <2>3, Interrupted
<1>11. CASE Killed
  <2>1. walker' = [Standing(0) EXCEPT !.alive = FALSE] /\ Disturbed /\ kind' = kind /\ prey' = prey /\ shoved' = FALSE
        /\ leaving' = FALSE
    BY <1>11 DEF Killed
  <2>2. Standing(0) \in Unit /\ Standing(0).mode = "none" /\ Standing(0).swing = 0
    BY StandingUnit, OrderSizes DEF Standing
  <2>3. walker' \in Unit /\ walker'.mode = "none" /\ walker'.swing = 0
    BY <2>1, <2>2 DEF Unit
  <2> QED
    BY <1>1, <2>1, <2>3, Interrupted
<1>12. CASE Returned
  <2>1. walker' = Standing(0) /\ Disturbed /\ kind' = kind /\ prey' = prey /\ shoved' = shoved /\ leaving' = leaving
    BY <1>12 DEF Returned
  <2>2. Standing(0) \in Unit /\ Standing(0).mode = "none" /\ Standing(0).swing = 0
    BY StandingUnit, OrderSizes DEF Standing
  <2> QED
    BY <1>1, <2>1, <2>2, Interrupted
<1>13. CASE PreyActs
  <2>1. prey' \in Quarry
    <3>1. prey' \in [at : Line, shows : BOOLEAN] \/ prey' = [at |-> Gone, shows |-> TRUE]
      BY <1>13 DEF PreyActs
    <3>2. Gone \in Line \cup {Gone} /\ \A l \in Line : l \in Line \cup {Gone}
      OBVIOUS
    <3>3. [at |-> Gone, shows |-> TRUE] \in Quarry
      BY <3>2 DEF Quarry
    <3>4. ASSUME prey' \in [at : Line, shows : BOOLEAN] PROVE prey' \in Quarry
      BY <3>2, <3>4 DEF Quarry
    <3> QED
      BY <3>1, <3>3, <3>4
  <2>2. Disturbed /\ kind' = kind /\ walker' = walker /\ shoved' = shoved /\ leaving' = leaving
    BY <1>13 DEF PreyActs
  <2> QED
    BY <1>1, <2>1, <2>2, Interrupted
<1>14. CASE UNCHANGED orderVars
  BY <1>14 DEF orderVars, OrderIInv, OrderTypes, LongEnough, LeftAlone, Alone, Aim, Underway, Leg, Distance
<1> QED
  BY <1>2, <1>3, <1>4, <1>5, <1>6, <1>7, <1>8, <1>9, <1>10, <1>11, <1>12, <1>13, <1>14 DEF OrderNext

\* A hero who is left alone is where its order sends it, or turns on its route, within the time it
\* takes to cross the line after the longest swing, or the two ticks in which a lock is dropped
\* (arena_tick_attack_move, arena_tick_patrol, arena_tick_attack_targets).
THEOREM WalksAreTakenUp ==
    ASSUME LongEnough PROVE OrderSpec => []OrderInv
<1>1. OrderIInv => OrderInv
  <2> SUFFICES ASSUME OrderIInv PROVE OrderInv
    OBVIOUS
  <2>1. OrderTypeOK
    BY DEF OrderIInv, OrderTypes, OrderTypeOK, Unit, Quarry
  <2>2. walker.at \in Line /\ Aim(walker) \in Line /\ quiet \in 0..Patience
    BY UnitFields, AimOnLine DEF OrderIInv, OrderTypes
  <2>3. Distance(walker.at, Aim(walker)) \in 0..Length /\ (Distance(walker.at, Aim(walker)) = 0 => walker.at = Aim(walker))
    BY <2>2, Steps
  <2>4. ASSUME quiet = Patience, walker.mode \in {"attack-move", "patrol"}, ~shoved
        PROVE  LeftAlone(quiet, walker) /\ walker.at = Aim(walker)
    <3>1. LeftAlone(quiet, walker) /\ quiet > 1
      BY <2>4, OrderSizes DEF OrderIInv, LongEnough
    <3>2. walker.at = Aim(walker) \/ Distance(walker.at, Aim(walker)) + quiet <= Length + Settle
      BY <2>4, <3>1 DEF LeftAlone
    <3> QED
      BY <2>3, <2>4, <3>1, <3>2, OrderSizes DEF Settle, LongEnough
  <2>5. AttackMoveArrives
    BY <2>4 DEF AttackMoveArrives, Aim
  <2>6. PatrolTurns
    <3>1. walker.mode = "patrol" /\ ~shoved => quiet # Patience
      BY <2>4 DEF LeftAlone, Aim
    <3> QED
      BY <2>2, <3>1, OrderSizes DEF PatrolTurns
  <2> QED
    BY <2>1, <2>5, <2>6 DEF OrderInv
<1> QED
  BY <1>1, OrderInitIInv, OrderNextIInv, PTL DEF OrderSpec

LEMMA StepsObey ==
    ASSUME OrderIInv, OrderNext
    PROVE  /\ did' \in {"tick", "lands"} /\ walker.mode = "hold" => walker'.goal = walker.goal
           /\ did' = "lands" => ~leaving \/ walker.swing = 0
<1>1. walker \in Unit /\ prey \in Quarry /\ (leaving => walker.swing = 0)
  BY DEF OrderIInv, OrderTypes
<1>2. ASSUME OrderTick, walker.mode = "hold" PROVE walker'.goal = walker.goal
  <2>1. PICK m \in Motion(walker), ready \in BOOLEAN : walker' = TimersOf(WoundUp(Aimed(m, ready)))
    BY <1>2 DEF OrderTick, Aimed
  <2>2. m \in Unit /\ m.mode = "hold" /\ m.goal = walker.goal
    BY <1>1, <1>2, MotionStep
  <2>3. Aimed(m, ready) \in Unit /\ Aimed(m, ready).goal = m.goal
    BY <1>1, <2>2, AimedStep DEF Stays
  <2> QED
    BY <2>1, <2>2, <2>3, TimersStep
<1>3. ~OrderTick => did' = "other"
  BY DEF OrderNext, arena_set_move_target, arena_set_attack_move_target, arena_set_patrol_target, arena_set_attack_target,
         arena_stop_unit, arena_hold_position, Ordered, Displaced, Pushed, Glide, Bound, Killed, Returned, PreyActs, Disturbed
<1> QED
  BY <1>1, <1>2, <1>3

\* Who holds his position is given nowhere to go by any tick, and no blow lands of a swing whose
\* hero was ordered out of its reach (arena_tick_attack_targets, arena_set_move_target).
THEOREM OrdersTakeHold == OrderSpec => OrderSteps
<1>1. OrderIInv /\ [OrderNext]_orderVars =>
          [did' \in {"tick", "lands"} /\ walker.mode = "hold" => walker'.goal = walker.goal]_orderVars
  BY StepsObey
<1>2. OrderIInv /\ [OrderNext]_orderVars => [did' = "lands" => ~leaving \/ walker.swing = 0]_orderVars
  BY StepsObey
<1>3. OrderSpec => HoldsGround
  BY <1>1, OrderInitIInv, OrderNextIInv, PTL DEF OrderSpec, HoldsGround
<1>4. OrderSpec => RetreatCancels
  BY <1>2, OrderInitIInv, OrderNextIInv, PTL DEF OrderSpec, RetreatCancels
<1> QED
  BY <1>3, <1>4 DEF OrderSteps

-----------------------------------------------------------------------------
(* The lane.  A creep has marched as many steps as it is places from where *)
(* it began, and one for each waypoint it turned at.                       *)

LEMMA LaneSizes ==
    /\ LaneSlots \in Nat /\ LaneSlots > 0 /\ PerWave \in Nat /\ PerWave > 0 /\ Midway \in Nat /\ Midway > 0
    /\ FirstWave \in Nat /\ FirstWave > 0 /\ WaveInterval \in Nat /\ WaveInterval > 0
    /\ MeleeHp \in Nat /\ MeleeHp > 0 /\ CasterHp \in Nat /\ CasterHp > 0 /\ CreepRest \in Nat
    /\ HeroBlows \subseteq Nat \ {0} /\ LastPost = 2
<1>1. \A n \in {LaneSlots, PerWave, FirstWave, WaveInterval, Midway, MeleeHp, CasterHp} : n \in Nat /\ n > 0
  BY LaneNumbers
<1>2. CreepRest \in Nat /\ HeroBlows \subseteq Nat \ {0}
  BY LaneNumbers
<1> QED
  BY <1>1, <1>2 DEF LastPost

\* How far a waypoint is from where a team begins.
End(leg) == IF leg <= 0 THEN 0 ELSE IF leg = 1 THEN Midway ELSE Midway + Midway
LEMMA Ends ==
    /\ LastPost * Midway = End(2) /\ LanePlaces = 0..End(2)
    /\ \A leg \in 0..2 : Post(0, leg) = End(leg) /\ Post(1, leg) = End(2) - End(leg)
    /\ \A leg \in 0..3 : End(leg - 1) \in Nat /\ End(leg) \in Nat /\ End(leg - 1) <= End(leg) /\ End(leg) <= End(2)
<1>1. 0 * Midway = 0 /\ 1 * Midway = Midway /\ 2 * Midway = Midway + Midway
  BY LaneSizes
<1>2. \A leg \in 0..2 : leg * Midway = End(leg) /\ (2 - leg) * Midway = End(2) - End(leg)
  <2> SUFFICES ASSUME NEW leg \in 0..2 PROVE leg * Midway = End(leg) /\ (2 - leg) * Midway = End(2) - End(leg)
    OBVIOUS
  <2>1. CASE leg = 0
    BY <1>1, <2>1, LaneSizes DEF End
  <2>2. CASE leg = 1
    BY <1>1, <2>2, LaneSizes DEF End
  <2>3. CASE leg = 2
    BY <1>1, <2>3, LaneSizes DEF End
  <2> QED
    BY <2>1, <2>2, <2>3
<1>3. \A leg \in 0..2 : Post(0, leg) = End(leg) /\ Post(1, leg) = End(2) - End(leg)
  BY <1>2 DEF Post, LastPost
<1>4. LastPost * Midway = End(2) /\ LanePlaces = 0..End(2)
  BY <1>1, LaneSizes DEF End, LastPost, LanePlaces
<1>5. \A leg \in 0..3 : End(leg - 1) \in Nat /\ End(leg) \in Nat /\ End(leg - 1) <= End(leg) /\ End(leg) <= End(2)
  BY LaneSizes DEF End
<1> QED
  BY <1>3, <1>4, <1>5

Walked(c) == IF c.team = 0 THEN c.at ELSE End(2) - c.at
CreepType ==
    [team : {0, 1}, role : {"caster", "melee"}, hp : 1..MeleeHp + CasterHp, at : LanePlaces, leg : 0..LastPost,
     rest : 0..CreepRest, steps : Nat]
OnItsWay(c) ==
    /\ c \in CreepType
    /\ c.steps = Walked(c) + c.leg
    /\ End(c.leg - 1) <= Walked(c) /\ Walked(c) <= End(c.leg)
Pool(L) == L \in [1..LaneSlots -> {c \in CreepType : OnItsWay(c)} \cup {NoCreep}]

LEMMA CreepsAreThere == \A c \in CreepType : c # NoCreep
<1> SUFFICES ASSUME NEW c \in CreepType, c = NoCreep PROVE FALSE
  OBVIOUS
<1>1. c.team \in {0, 1}
  BY DEF CreepType
<1>2. NoCreep.team = -1
  BY DEF NoCreep
<1> QED
  BY <1>1, <1>2

LEMMA WhoMarches ==
    ASSUME NEW L, Pool(L)
    PROVE  /\ \A i \in Marching(L) : i \in 1..LaneSlots /\ OnItsWay(L[i]) /\ L[i] \in CreepType
           /\ IsFiniteSet(Marching(L)) /\ Cardinality(Marching(L)) \in 0..LaneSlots
<1>1. Marching(L) \subseteq 1..LaneSlots
  BY DEF Marching
<1>2. IsFiniteSet(1..LaneSlots) /\ Cardinality(1..LaneSlots) = LaneSlots
  BY LaneSizes, FS_Interval
<1>3. IsFiniteSet(Marching(L)) /\ Cardinality(Marching(L)) <= LaneSlots
  BY <1>1, <1>2, FS_Subset
<1>4. Cardinality(Marching(L)) \in Nat
  BY <1>3, FS_CardinalityType
<1>5. Cardinality(Marching(L)) \in 0..LaneSlots
  BY <1>3, <1>4, LaneSizes
<1>6. \A i \in Marching(L) : OnItsWay(L[i]) /\ L[i] \in CreepType
  BY DEF Pool, Marching
<1> QED
  BY <1>1, <1>3, <1>5, <1>6

\* One slot changes: its creep marches on, or has left the pool.
LEMMA OneSlotChanges ==
    ASSUME NEW L, Pool(L), NEW i \in Marching(L), NEW c, OnItsWay(c) \/ c = NoCreep, NEW M, M = [L EXCEPT ![i] = c]
    PROVE  /\ Pool(M)
           /\ Cardinality(Marching(M)) = IF c = NoCreep THEN Cardinality(Marching(L)) - 1 ELSE Cardinality(Marching(L))
           /\ Marching(M) \subseteq Marching(L)
           /\ \A j \in Marching(L) : j # i => j \in Marching(M) /\ M[j] = L[j]
<1>1. i \in 1..LaneSlots /\ IsFiniteSet(Marching(L))
  BY WhoMarches
<1>2. \A j \in 1..LaneSlots : M[j] = IF j = i THEN c ELSE L[j]
  BY <1>1 DEF Pool
<1>3. Pool(M)
  BY <1>1 DEF Pool, OnItsWay
<1>4. CASE c = NoCreep
  <2>1. Marching(M) = Marching(L) \ {i}
    BY <1>1, <1>2, <1>4 DEF Marching
  <2> QED
    BY <1>1, <1>2, <1>3, <1>4, <2>1, FS_RemoveElement DEF Marching
<1>5. CASE c # NoCreep
  <2>1. Marching(M) = Marching(L)
    BY <1>1, <1>2, <1>5 DEF Marching
  <2> QED
    BY <1>2, <1>3, <1>5, <2>1 DEF Marching
<1> QED
  BY <1>4, <1>5

LEMMA AwakeIsSound ==
    ASSUME NEW c, OnItsWay(c)
    PROVE  OnItsWay(Awake(c)) /\ OnItsWay([Awake(c) EXCEPT !.rest = CreepRest])
<1> DEFINE r == IF c.rest > 0 THEN c.rest - 1 ELSE 0
<1>1. c.rest \in 0..CreepRest
  BY DEF OnItsWay, CreepType
<1>2. r \in 0..CreepRest /\ CreepRest \in 0..CreepRest
  BY <1>1, LaneSizes
<1>3. Awake(c) = [c EXCEPT !.rest = r]
  BY DEF Awake
<1> HIDE DEF r
<1>4. ASSUME NEW d, OnItsWay(d), NEW n \in 0..CreepRest PROVE OnItsWay([d EXCEPT !.rest = n])
  <2> DEFINE x == [d EXCEPT !.rest = n]
  <2>1. x \in CreepType
    BY <1>4 DEF OnItsWay, CreepType
  <2>2. x.team = d.team /\ x.at = d.at /\ x.leg = d.leg /\ x.steps = d.steps
    BY <1>4 DEF OnItsWay, CreepType
  <2> HIDE DEF x
  <2>3. Walked(x) = Walked(d)
    BY <2>2 DEF Walked
  <2>4. OnItsWay(x)
    BY <1>4, <2>1, <2>2, <2>3 DEF OnItsWay
  <2> QED
    BY <2>4 DEF x
<1>5. OnItsWay(Awake(c))
  BY <1>2, <1>3, <1>4
<1> QED
  BY <1>2, <1>4, <1>5

LEMMA HitIsSound ==
    ASSUME NEW c, OnItsWay(c), NEW blow \in Nat \ {0}
    PROVE  OnItsWay(CreepHit(c, blow)) \/ CreepHit(c, blow) = NoCreep
<1>1. c.hp \in 1..MeleeHp + CasterHp
  BY DEF OnItsWay, CreepType
<1>2. CASE c.hp <= blow
  BY <1>2 DEF CreepHit
<1>3. CASE ~(c.hp <= blow)
  <2> DEFINE h == c.hp - blow
             x == [c EXCEPT !.hp = h]
  <2>1. h \in 1..MeleeHp + CasterHp
    BY <1>1, <1>3, LaneSizes
  <2>2. CreepHit(c, blow) = x
    BY <1>3 DEF CreepHit
  <2> HIDE DEF h
  <2>3. x \in CreepType
    BY <2>1 DEF OnItsWay, CreepType
  <2>4. x.team = c.team /\ x.at = c.at /\ x.leg = c.leg /\ x.steps = c.steps
    BY DEF OnItsWay, CreepType
  <2> HIDE DEF x
  <2>5. Walked(x) = Walked(c)
    BY <2>4 DEF Walked
  <2> QED
    BY <2>2, <2>3, <2>4, <2>5 DEF OnItsWay
<1> QED
  BY <1>2, <1>3

LEMMA MarchIsSound ==
    ASSUME NEW c, OnItsWay(c)
    PROVE  OnItsWay(March(c)) \/ March(c) = NoCreep
<1> DEFINE post == Post(c.team, c.leg)
<1>1. c \in CreepType /\ c.team \in {0, 1} /\ c.leg \in 0..2 /\ c.at \in 0..End(2) /\ c.steps \in Nat
  BY LaneSizes, Ends DEF OnItsWay, CreepType
<1>2. post = IF c.team = 0 THEN End(c.leg) ELSE End(2) - End(c.leg)
  BY <1>1, Ends
<1>3. /\ End(c.leg - 1) \in Nat /\ End(c.leg) \in Nat /\ End(2) \in Nat
      /\ End(c.leg - 1) <= End(c.leg) /\ End(c.leg) <= End(2)
  <2> DEFINE leg == c.leg
  <2>1. leg \in 0..3 /\ 2 \in 0..3
    BY <1>1
  <2> HIDE DEF leg
  <2>2. /\ End(leg - 1) \in Nat /\ End(leg) \in Nat /\ End(2) \in Nat
        /\ End(leg - 1) <= End(leg) /\ End(leg) <= End(2)
    BY <2>1, Ends
  <2> QED
    BY <2>2 DEF leg
<1>4. c.steps = Walked(c) + c.leg /\ End(c.leg - 1) <= Walked(c) /\ Walked(c) <= End(c.leg)
  BY DEF OnItsWay
<1> HIDE DEF post
<1>5. CASE c.at # post
  <2> DEFINE at == Nearer(c.at, post)
             n == c.steps + 1
             x == [c EXCEPT !.at = at, !.steps = n]
  <2>1. March(c) = x
    BY <1>5 DEF March, post
  <2>2. /\ at \in 0..End(2) /\ n \in Nat
        /\ at = IF c.team = 0 THEN c.at + 1 ELSE c.at - 1
    BY <1>1, <1>2, <1>3, <1>4, <1>5 DEF Walked, Nearer
  <2> HIDE DEF at
  <2>3. x \in CreepType
    BY <1>1, <2>2, Ends DEF CreepType
  <2>4. x.team = c.team /\ x.at = at /\ x.leg = c.leg /\ x.steps = c.steps + 1
    BY <1>1 DEF CreepType
  <2> HIDE DEF x
  <2>5. Walked(x) = Walked(c) + 1 /\ Walked(c) \in Int
    BY <1>1, <1>3, <2>2, <2>4 DEF Walked
  <2>6. Walked(x) <= End(c.leg)
    BY <1>1, <1>2, <1>3, <1>4, <1>5, <2>5 DEF Walked
  <2>7. x.steps = Walked(x) + x.leg /\ End(x.leg - 1) <= Walked(x) /\ Walked(x) <= End(x.leg)
    BY <1>1, <1>3, <1>4, <2>4, <2>5, <2>6
  <2> QED
    BY <2>1, <2>3, <2>7 DEF OnItsWay
<1>6. CASE c.at = post /\ c.leg = LastPost
  BY <1>6 DEF March, post
<1>7. CASE c.at = post /\ c.leg # LastPost
  <2> DEFINE leg == c.leg + 1
             n == c.steps + 1
             x == [c EXCEPT !.leg = leg, !.steps = n]
  <2>1. March(c) = x
    BY <1>7 DEF March, post
  <2>2. leg \in 0..LastPost /\ n \in Nat /\ leg \in 0..2 /\ leg - 1 = c.leg
    BY <1>1, <1>7, LaneSizes
  <2>3. Walked(c) = End(c.leg) /\ End(leg - 1) <= End(leg)
    <3>1. Walked(c) = End(c.leg)
      BY <1>1, <1>2, <1>3, <1>7 DEF Walked
    <3> HIDE DEF leg
    <3> QED
      BY <2>2, <3>1, Ends
  <2> HIDE DEF leg
  <2>4. x \in CreepType
    BY <1>1, <2>2 DEF CreepType
  <2>5. x.team = c.team /\ x.at = c.at /\ x.leg = leg /\ x.steps = c.steps + 1
    BY <1>1 DEF CreepType
  <2> HIDE DEF x
  <2>6. Walked(x) = Walked(c)
    BY <2>5 DEF Walked
  <2>7. x.steps = Walked(x) + x.leg
    BY <1>1, <1>3, <1>4, <2>2, <2>3, <2>5, <2>6
  <2>8. End(x.leg - 1) <= Walked(x) /\ Walked(x) <= End(x.leg)
    BY <1>3, <2>2, <2>3, <2>5, <2>6
  <2> QED
    BY <2>1, <2>4, <2>7, <2>8 DEF OnItsWay
<1> QED
  BY <1>5, <1>6, <1>7

LEMMA LeastExists == \A S \in SUBSET Nat : S # {} => \E n \in S : \A m \in S : n <= m
<1> SUFFICES ASSUME NEW S \in SUBSET Nat, S # {} PROVE \E n \in S : \A m \in S : n <= m
  OBVIOUS
<1> DEFINE R == OpToRel(<, Nat)
<1>1. \A x, y \in Nat : x < y => <<x, y>> \in R
  BY DEF OpToRel
<1>2. IsWellFoundedOn(R, Nat)
  BY NatLessThanWellFounded
<1> HIDE DEF R
<1>3. PICK n \in S : \A m \in S : ~(<<m, n>> \in R)
  BY <1>2, WFMin
<1>4. ASSUME NEW m \in S PROVE n <= m
  <2>1. n \in Nat /\ m \in Nat /\ ~(m < n)
    BY <1>1, <1>3
  <2> QED
    BY <2>1
<1> QED
  BY <1>4

\* The nearest is one of the rivals: there is a least distance, and a first one at it.
LEMMA NearestIsRival ==
    ASSUME NEW s, Pool(s.lane), NEW i \in Marching(s.lane), Rivals(s, i) # {}
    PROVE  Nearest(s, i) \in Rivals(s, i)
<1> DEFINE R == Rivals(s, i)
           far(k) == Gap(s.lane[k].at, s.lane[i].at)
           D == {far(k) : k \in R}
<1>1. \A k \in Marching(s.lane) : s.lane[k].at \in Nat
  BY WhoMarches, Ends DEF CreepType
<1>2. \A k \in R : far(k) \in Nat /\ k \in Nat
  BY <1>1, WhoMarches DEF Rivals, Gap
<1> HIDE DEF far
<1>3. D \in SUBSET Nat /\ D # {}
  BY <1>2
<1>4. PICK d \in D : \A e \in D : d <= e
  BY <1>3, LeastExists
<1> DEFINE F == {k \in R : far(k) = d}
<1>5. F \in SUBSET Nat /\ F # {}
  BY <1>2, <1>4
<1> HIDE DEF D, F, R
<1>6. PICK j \in F : \A k \in F : j <= k
  BY <1>5, LeastExists
<1>7. j \in R /\ far(j) = d /\ d \in Nat
  BY <1>2, <1>6 DEF F
<1>8. ASSUME NEW k \in R PROVE far(j) < far(k) \/ (far(j) = far(k) /\ j <= k)
  <2>1. far(k) \in Nat /\ d <= far(k)
    BY <1>2, <1>4, <1>8 DEF D
  <2>2. CASE far(k) = d
    <3>1. k \in F
      BY <1>8, <2>2 DEF F
    <3> QED
      BY <1>6, <1>7, <2>2, <3>1
  <2>3. CASE far(k) # d
    BY <1>7, <2>1, <2>3
  <2> QED
    BY <2>2, <2>3
<1>9. \E n \in R : \A k \in R : far(n) < far(k) \/ (far(n) = far(k) /\ n <= k)
  BY <1>7, <1>8
<1> QED
  BY <1>9 DEF Nearest, R, far

-----------------------------------------------------------------------------
(* Waves.                                                                  *)

\* What the books say of a lane on which n creeps have had their turn since before.
Booked(s, n, before) ==
    /\ Pool(s.lane)
    /\ s.toll \in [born : 0..2 * PerWave, felled : Nat, arrived : Nat, paid : {0}]
    /\ s.toll.felled + s.toll.arrived <= n
    /\ Cardinality(Marching(s.lane)) = before + s.toll.born - s.toll.felled - s.toll.arrived

LEMMA NewCreepsAreSound ==
    ASSUME NEW team \in {0, 1}, NEW role \in {"caster", "melee"}
    PROVE  OnItsWay(NewCreep(team, role))
<1> DEFINE c == NewCreep(team, role)
<1>1. Post(team, 0) = IF team = 0 THEN 0 ELSE End(2)
  BY Ends DEF End
<1>2. Full(role) \in 1..MeleeHp + CasterHp /\ End(2) \in Nat
  BY LaneSizes, Ends DEF Full
<1>3. c \in CreepType
  <2>1. Post(team, 0) \in LanePlaces
    BY <1>1, <1>2, Ends
  <2>2. Full(role) \in 1..MeleeHp + CasterHp /\ 0 \in 0..LastPost /\ 0 \in 0..CreepRest
    BY <1>2, LaneSizes
  <2> QED
    BY <2>1, <2>2 DEF NewCreep, CreepType
<1>4. c.team = team /\ c.at = Post(team, 0) /\ c.leg = 0 /\ c.steps = 0
  BY DEF NewCreep
<1> HIDE DEF c
<1>5. Walked(c) = 0
  BY <1>1, <1>2, <1>4 DEF Walked
<1>6. OnItsWay(c)
  BY <1>3, <1>4, <1>5 DEF OnItsWay, End
<1> QED
  BY <1>6 DEF c

LEMMA WaveIsSound ==
    ASSUME NEW s, NEW team \in {0, 1}, Pool(s.lane), NEW before \in Nat, NEW b \in Nat,
           s.toll \in [born : 0..b, felled : {0}, arrived : {0}, paid : {0}],
           Cardinality(Marching(s.lane)) = before + s.toll.born
    PROVE  LET t == SpawnWave(s, team) IN
           /\ Pool(t.lane)
           /\ t.toll \in [born : 0..(b + PerWave), felled : {0}, arrived : {0}, paid : {0}]
           /\ Cardinality(Marching(t.lane)) = before + t.toll.born
<1> DEFINE free == FreeLaneSlots(s.lane)
           place(i) == Cardinality({j \in free : j <= i})
           filled == {i \in free : place(i) <= PerWave}
           t == SpawnWave(s, team)
           L == [i \in 1..LaneSlots |->
                     IF i \in filled THEN NewCreep(team, IF place(i) <= CasterCount THEN "caster" ELSE "melee")
                     ELSE s.lane[i]]
<1>1. t = [lane |-> L, toll |-> [s.toll EXCEPT !.born = s.toll.born + Cardinality(filled)]]
  BY DEF SpawnWave
<1>2. IsFiniteSet(1..LaneSlots) /\ free \in SUBSET (1..LaneSlots)
  <2>1. IsFiniteSet(1..LaneSlots)
    BY LaneSizes, FS_Interval
  <2>2. free \in SUBSET (1..LaneSlots)
    BY DEF FreeLaneSlots
  <2> QED
    BY <2>1, <2>2
<1>3. IsFiniteSet(free) /\ \A S \in SUBSET free : IsFiniteSet(S) /\ Cardinality(S) \in Nat
  BY <1>2, FS_Subset, FS_CardinalityType
<1>4. ASSUME NEW i \in free PROVE place(i) \in Nat /\ place(i) > 0
  <2> DEFINE S == {j \in free : j <= i}
  <2>1. i \in S /\ S \in SUBSET free
    BY <1>2
  <2>2. IsFiniteSet(S) /\ Cardinality(S) \in Nat /\ S # {}
    BY <1>3, <2>1
  <2> HIDE DEF S
  <2>3. Cardinality(S) # 0
    BY <2>2, FS_EmptySet
  <2> QED
    BY <2>2, <2>3 DEF S
<1>5. ASSUME NEW i \in free, NEW k \in free, i < k PROVE place(i) < place(k)
  <2> DEFINE S == {j \in free : j <= i}
             T == {j \in free : j <= k}
  <2>1. S \in SUBSET T /\ k \in T /\ k \notin S /\ T \in SUBSET free /\ S \in SUBSET free
    BY <1>2, <1>5
  <2>2. IsFiniteSet(T) /\ Cardinality(S) \in Nat /\ Cardinality(T) \in Nat
    BY <1>3, <2>1
  <2> HIDE DEF S, T
  <2>3. Cardinality(S) <= Cardinality(T) /\ Cardinality(S) # Cardinality(T)
    BY <2>1, <2>2, FS_Subset
  <2>4. Cardinality(S) < Cardinality(T)
    BY <2>2, <2>3
  <2> QED
    BY <2>4 DEF S, T
<1> HIDE DEF place
<1>6. IsFiniteSet(filled) /\ Cardinality(filled) \in Nat
  BY <1>3
<1>7. Cardinality(filled) <= PerWave
  <2> SUFFICES ASSUME ~(Cardinality(filled) <= PerWave) PROVE FALSE
    OBVIOUS
  <2> DEFINE f == [i \in filled |-> place(i)]
  <2>1. f \in [filled -> 1..PerWave]
    BY <1>4, LaneSizes
  <2>2. IsFiniteSet(1..PerWave) /\ Cardinality(1..PerWave) = PerWave
    BY LaneSizes, FS_Interval
  <2>3. Cardinality(1..PerWave) < Cardinality(filled)
    BY <1>6, <2>2, LaneSizes
  <2>4. \A i \in filled : f[i] = place(i) /\ i \in free /\ i \in Nat
    BY <1>2
  <2> DEFINE places == 1..PerWave
  <2> HIDE DEF filled, f
  <2>5. \E i, k \in filled : i # k /\ f[i] = f[k]
    <3>1. IsFiniteSet(filled) /\ IsFiniteSet(places) /\ Cardinality(places) < Cardinality(filled)
          /\ f \in [filled -> places]
      BY <1>6, <2>1, <2>2, <2>3
    <3> HIDE DEF places
    <3> QED
      BY ONLY <3>1, FS_PigeonHole
  <2>6. PICK i \in filled, k \in filled : i # k /\ place(i) = place(k)
    BY <2>4, <2>5
  <2>7. i \in free /\ k \in free /\ (i < k \/ k < i) /\ place(i) \in Nat /\ place(k) \in Nat
    BY <1>4, <2>4, <2>6
  <2> QED
    BY <1>5, <2>6, <2>7
<1>8. ASSUME NEW i \in 1..LaneSlots
      PROVE  /\ i \in filled => OnItsWay(L[i]) /\ L[i] \in CreepType /\ L[i] # NoCreep /\ s.lane[i] = NoCreep
             /\ i \notin filled => L[i] = s.lane[i]
  <2>1. i \in filled => L[i] \in {NewCreep(team, role) : role \in {"caster", "melee"}} /\ s.lane[i] = NoCreep
    BY DEF FreeLaneSlots
  <2>2. i \notin filled => L[i] = s.lane[i]
    OBVIOUS
  <2> HIDE DEF L, filled
  <2> QED
    BY <2>1, <2>2, NewCreepsAreSound, CreepsAreThere DEF OnItsWay
<1>9. Pool(L)
  <2>1. L = [i \in 1..LaneSlots |-> L[i]]
    OBVIOUS
  <2>2. \A i \in 1..LaneSlots : L[i] \in {c \in CreepType : OnItsWay(c)} \cup {NoCreep}
    <3> HIDE DEF L, filled
    <3> QED
      BY <1>8 DEF Pool
  <2> HIDE DEF L
  <2> QED
    BY <2>1, <2>2 DEF Pool
<1>10. Cardinality(Marching(L)) = Cardinality(Marching(s.lane)) + Cardinality(filled)
  <2>1. filled \subseteq 1..LaneSlots
    BY <1>2
  <2> HIDE DEF L, filled
  <2>2. Marching(L) = Marching(s.lane) \cup filled /\ Marching(s.lane) \cap filled = {}
    BY <1>8, <2>1 DEF Marching
  <2>3. IsFiniteSet(Marching(s.lane)) /\ Cardinality(Marching(s.lane)) \in Nat
    BY WhoMarches, LaneSizes
  <2> DEFINE U == Marching(s.lane)
  <2>4. Cardinality(U \cup filled) = Cardinality(U) + Cardinality(filled) - Cardinality(U \cap filled)
    <3>1. IsFiniteSet(U) /\ IsFiniteSet(filled)
      BY <1>6, <2>3
    <3> HIDE DEF U
    <3> QED
      BY ONLY <3>1, FS_Union
  <2>5. Cardinality(U \cap filled) = 0
    BY <2>2, FS_EmptySet
  <2> QED
    BY <1>6, <2>2, <2>3, <2>4, <2>5
<1> DEFINE n == Cardinality(filled)
<1>11. t.lane = L /\ t.toll = [s.toll EXCEPT !.born = s.toll.born + n]
  BY <1>1
<1>12. n \in Nat /\ n <= PerWave /\ Cardinality(Marching(L)) = Cardinality(Marching(s.lane)) + n
  BY <1>6, <1>7, <1>10
<1> HIDE DEF t, L, n, filled
<1>13. s.toll.born \in 0..b
  OBVIOUS
<1>14. s.toll.born + n \in 0..(b + PerWave)
  BY <1>12, <1>13, LaneSizes
<1>15. t.toll \in [born : 0..(b + PerWave), felled : {0}, arrived : {0}, paid : {0}] /\ t.toll.born = s.toll.born + n
  BY <1>11, <1>14
<1>16. Cardinality(Marching(t.lane)) = before + t.toll.born
  BY <1>11, <1>12, <1>13, <1>15
<1> QED
  BY <1>9, <1>11, <1>15, <1>16 DEF t

-----------------------------------------------------------------------------
(* Turns.                                                                  *)

LEMMA BookedLonger == \A s, before : \A n \in Nat : Booked(s, n, before) => Booked(s, n + 1, before)
<1> SUFFICES ASSUME NEW s, NEW before, NEW n \in Nat, Booked(s, n, before) PROVE Booked(s, n + 1, before)
  OBVIOUS
<1>1. s.toll.felled \in Nat /\ s.toll.arrived \in Nat /\ s.toll.felled + s.toll.arrived <= n
  BY DEF Booked
<1> QED
  BY <1>1 DEF Booked

\* A creep that stands, strikes or marches on is still there.
LEMMA SlotStays ==
    ASSUME NEW s, NEW n \in Nat, NEW before \in Nat, Booked(s, n, before), NEW i \in Marching(s.lane),
           NEW c, OnItsWay(c), NEW t, t.lane = [s.lane EXCEPT ![i] = c], t.toll = s.toll
    PROVE  Booked(t, n, before)
<1>1. c # NoCreep
  BY CreepsAreThere DEF OnItsWay
<1>2. Pool(t.lane) /\ Cardinality(Marching(t.lane)) = Cardinality(Marching(s.lane))
  BY <1>1, OneSlotChanges DEF Booked
<1> QED
  BY <1>2 DEF Booked

\* One that is gone has arrived or was felled, and is counted once.
LEMMA SlotEmpties ==
    ASSUME NEW s, NEW n \in Nat, NEW before \in Nat, Booked(s, n, before), NEW i \in Marching(s.lane),
           NEW t, t.lane = [s.lane EXCEPT ![i] = NoCreep],
           \/ t.toll = [s.toll EXCEPT !.arrived = s.toll.arrived + 1]
           \/ t.toll = [s.toll EXCEPT !.felled = s.toll.felled + 1]
    PROVE  Booked(t, n + 1, before)
<1>1. Pool(t.lane) /\ Cardinality(Marching(t.lane)) = Cardinality(Marching(s.lane)) - 1
  <2>1. PICK c : c = NoCreep
    OBVIOUS
  <2>2. t.lane = [s.lane EXCEPT ![i] = c] /\ Pool(s.lane)
    BY <2>1 DEF Booked
  <2> QED
    BY <2>1, <2>2, OneSlotChanges
<1>2. s.toll \in [born : 0..2 * PerWave, felled : Nat, arrived : Nat, paid : {0}]
      /\ s.toll.felled + s.toll.arrived <= n
      /\ Cardinality(Marching(s.lane)) = before + s.toll.born - s.toll.felled - s.toll.arrived
  BY DEF Booked
<1>3. s.toll.born \in Nat /\ s.toll.felled \in Nat /\ s.toll.arrived \in Nat
  BY <1>2, LaneSizes
<1> DEFINE a == s.toll.arrived + 1
           f == s.toll.felled + 1
<1>4. a \in Nat /\ f \in Nat
  BY <1>3
<1>5. CASE t.toll = [s.toll EXCEPT !.arrived = a]
  <2> HIDE DEF a
  <2>1. t.toll \in [born : 0..2 * PerWave, felled : Nat, arrived : Nat, paid : {0}]
    BY <1>2, <1>4, <1>5
  <2>2. t.toll.born = s.toll.born /\ t.toll.felled = s.toll.felled /\ t.toll.arrived = s.toll.arrived + 1
    BY <1>2, <1>5 DEF a
  <2> QED
    BY <1>1, <1>2, <1>3, <2>1, <2>2 DEF Booked
<1>6. CASE t.toll = [s.toll EXCEPT !.felled = f]
  <2> HIDE DEF f
  <2>1. t.toll \in [born : 0..2 * PerWave, felled : Nat, arrived : Nat, paid : {0}]
    BY <1>2, <1>4, <1>6
  <2>2. t.toll.born = s.toll.born /\ t.toll.felled = s.toll.felled + 1 /\ t.toll.arrived = s.toll.arrived
    BY <1>2, <1>6 DEF f
  <2> QED
    BY <1>1, <1>2, <1>3, <2>1, <2>2 DEF Booked
<1> QED
  BY <1>5, <1>6

LEMMA TurnIsBooked ==
    ASSUME NEW H, NEW fierce, NEW s, NEW n \in Nat, NEW before \in Nat, Booked(s, n, before), NEW i \in 1..LaneSlots
    PROVE  Booked(CreepTurn(H, fierce, s, i), n + 1, before)
<1> DEFINE c == Awake(s.lane[i])
           swung == [c EXCEPT !.rest = CreepRest]
           j == Nearest(s, i)
           struck == CreepHit(s.lane[j], 1)
           t == CreepTurn(H, fierce, s, i)
           goes == GoesForHero(H, fierce, s, i)
<1>1. Pool(s.lane)
  BY DEF Booked
<1>2. CASE s.lane[i] = NoCreep
  <2>1. t = s
    BY <1>2 DEF CreepTurn
  <2>2. s.toll.felled \in Nat /\ s.toll.arrived \in Nat /\ s.toll.felled + s.toll.arrived <= n
    BY DEF Booked
  <2> QED
    BY <2>1, <2>2 DEF Booked
<1>3. CASE s.lane[i] # NoCreep
  <2>1. i \in Marching(s.lane)
    BY <1>3 DEF Marching
  <2>2. OnItsWay(c) /\ OnItsWay(swung) /\ c # NoCreep /\ swung # NoCreep
    BY <1>1, <2>1, WhoMarches, AwakeIsSound, CreepsAreThere DEF OnItsWay
  <2>3. CASE ~goes /\ Rivals(s, i) = {}
    <3> DEFINE x == March(c)
    <3>1. t = [lane |-> [s.lane EXCEPT ![i] = x],
               toll |-> IF x = NoCreep THEN [s.toll EXCEPT !.arrived = s.toll.arrived + 1] ELSE s.toll]
      BY <1>3, <2>3 DEF CreepTurn
    <3>2. OnItsWay(x) \/ x = NoCreep
      BY <2>2, MarchIsSound
    <3> HIDE DEF x, t
    <3>3. t.lane = [s.lane EXCEPT ![i] = x]
          /\ t.toll = IF x = NoCreep THEN [s.toll EXCEPT !.arrived = s.toll.arrived + 1] ELSE s.toll
      BY <3>1
    <3>4. CASE x = NoCreep
      BY <2>1, <3>3, <3>4, SlotEmpties DEF t
    <3>5. CASE x # NoCreep
      <4>1. Booked(t, n, before)
        BY <2>1, <3>2, <3>3, <3>5, SlotStays
      <4> QED
        BY <4>1, BookedLonger DEF t
    <3> QED
      BY <3>4, <3>5
  <2>4. ASSUME NEW x, OnItsWay(x), t = [lane |-> [s.lane EXCEPT ![i] = x], toll |-> s.toll]
        PROVE  Booked(t, n + 1, before)
    <3> HIDE DEF t
    <3>1. t.lane = [s.lane EXCEPT ![i] = x] /\ t.toll = s.toll
      BY <2>4
    <3>2. Booked(t, n, before)
      BY <2>1, <2>4, <3>1, SlotStays
    <3> QED
      BY <3>2, BookedLonger
  <2>5. CASE ~(~goes /\ Rivals(s, i) = {}) /\ (goes \/ c.rest > 0)
    <3>1. t = [lane |-> [s.lane EXCEPT ![i] = c], toll |-> s.toll]
          \/ t = [lane |-> [s.lane EXCEPT ![i] = swung], toll |-> s.toll]
      BY <1>3, <2>5 DEF CreepTurn
    <3> HIDE DEF c, swung, t
    <3>2. Booked(t, n + 1, before)
      BY <2>2, <2>4, <3>1
    <3> QED
      BY <3>2 DEF t
  <2>6. CASE ~goes /\ Rivals(s, i) # {} /\ ~(c.rest > 0)
    <3> DEFINE L == [s.lane EXCEPT ![i] = swung]
               u == [lane |-> L, toll |-> s.toll]
    <3>1. t = [lane |-> [L EXCEPT ![j] = struck],
               toll |-> IF struck = NoCreep THEN [s.toll EXCEPT !.felled = s.toll.felled + 1] ELSE s.toll]
      BY <1>3, <2>6 DEF CreepTurn
    <3>2. j \in Marching(s.lane) /\ j # i
      <4>1. j \in Rivals(s, i)
        BY <1>1, <2>1, <2>6, NearestIsRival
      <4> QED
        BY <4>1 DEF Rivals
    <3>3. OnItsWay(struck) \/ struck = NoCreep
      BY <1>1, <3>2, WhoMarches, HitIsSound
    <3>4. j \in Marching(L)
      <4> HIDE DEF swung, j
      <4> QED
        BY <1>1, <2>1, <2>2, <3>2, OneSlotChanges
    <3>5. u.lane = [s.lane EXCEPT ![i] = swung] /\ u.lane = L /\ u.toll = s.toll
      OBVIOUS
    <3> HIDE DEF swung, struck, j, t, L, u
    <3>6. Booked(u, n, before)
      BY <2>1, <2>2, <3>5, SlotStays
    <3>7. t.lane = [u.lane EXCEPT ![j] = struck] /\ j \in Marching(u.lane)
          /\ t.toll = IF struck = NoCreep THEN [u.toll EXCEPT !.felled = u.toll.felled + 1] ELSE u.toll
      BY <3>1, <3>4, <3>5
    <3>8. CASE struck = NoCreep
      BY <3>6, <3>7, <3>8, SlotEmpties DEF t
    <3>9. CASE struck # NoCreep
      <4>1. Booked(t, n, before)
        BY <3>3, <3>6, <3>7, <3>9, SlotStays
      <4> QED
        BY <4>1, BookedLonger DEF t
    <3> QED
      BY <3>8, <3>9
  <2> QED
    BY <2>3, <2>5, <2>6
<1> QED
  BY <1>2, <1>3

\* The turns of one tick, by their equation.
Turns(f, H, fierce, n) ==
    f = [k \in 0..n |-> IF k = 0 THEN Waves([lane |-> lane, toll |-> NoToll]) ELSE CreepTurn(H, fierce, f[k - 1], k)]

LEMMA TurnsAreTaken ==
    ASSUME NEW H, NEW fierce, NEW n \in Nat
    PROVE  \E f : Turns(f, H, fierce, n)
<1> DEFINE base == Waves([lane |-> lane, toll |-> NoToll])
           Stuck == {k \in Nat : \A f : ~Turns(f, H, fierce, k)}
<1> SUFFICES ASSUME Stuck # {} PROVE FALSE
  OBVIOUS
<1>1. PICK k \in Stuck : \A j \in Stuck : k <= j
  BY LeastExists
<1>2. k \in Nat /\ \A f : ~Turns(f, H, fierce, k)
  BY <1>1
<1>3. CASE k = 0
  <2> DEFINE f == [j \in 0..0 |-> base]
  <2>1. f = [j \in 0..0 |-> IF j = 0 THEN base ELSE CreepTurn(H, fierce, f[j - 1], j)]
    OBVIOUS
  <2> HIDE DEF f
  <2> QED
    BY <1>2, <1>3, <2>1 DEF Turns
<1>4. CASE k # 0
  <2>1. k - 1 \in Nat /\ ~(k <= k - 1)
    BY <1>2, <1>4
  <2>2. k - 1 \notin Stuck
    <3> HIDE DEF Stuck
    <3> QED
      BY <1>1, <2>1
  <2>3. PICK f : Turns(f, H, fierce, k - 1)
    BY <2>1, <2>2
  <2> HIDE DEF base
  <2>4. \A j \in 0..(k - 1) : f[j] = IF j = 0 THEN base ELSE CreepTurn(H, fierce, f[j - 1], j)
    BY <2>3 DEF Turns, base
  <2> DEFINE last == CreepTurn(H, fierce, f[k - 1], k)
             g == [j \in 0..k |-> IF j = k THEN last ELSE f[j]]
  <2>5. (\A j \in 0..k : g[j] = IF j = k THEN last ELSE f[j]) /\ g = [j \in 0..k |-> g[j]]
    OBVIOUS
  <2> HIDE DEF g
  <2>6. ASSUME NEW j \in 0..k
        PROVE  g[j] = IF j = 0 THEN base ELSE CreepTurn(H, fierce, g[j - 1], j)
    <3>1. CASE j = 0
      <4>1. j # k /\ 0 \in 0..(k - 1)
        BY <1>4, <2>1, <3>1
      <4> QED
        BY <2>4, <2>5, <3>1, <4>1
    <3>2. CASE j # 0
      <4>1. j - 1 \in 0..k /\ j - 1 # k
        BY <1>2, <3>2
      <4>2. g[j - 1] = f[j - 1]
        BY ONLY <2>5, <4>1
      <4>3. CASE j = k
        BY <2>5, <3>2, <4>2, <4>3
      <4>4. CASE j # k
        <5>1. j \in 0..(k - 1)
          BY <1>2, <4>4
        <5>2. g[j] = f[j]
          BY <2>5, <4>4
        <5>3. f[j] = CreepTurn(H, fierce, f[j - 1], j)
          BY ONLY <2>4, <3>2, <5>1
        <5> QED
          BY <3>2, <4>2, <5>2, <5>3
      <4> QED
        BY <4>3, <4>4
    <3> QED
      BY <3>1, <3>2
  <2>7. Turns(g, H, fierce, k)
    BY <2>5, <2>6 DEF Turns, base
  <2> QED
    BY <1>2, <2>7
<1> QED
  BY <1>3, <1>4

-----------------------------------------------------------------------------
(* The lane from step to step.                                             *)

LaneIInv ==
    /\ Pool(lane)
    /\ wave_timer \in [{0, 1} -> 1..FirstWave + WaveInterval]
    /\ toll \in [born : 0..2 * PerWave, felled : 0..LaneSlots, arrived : 0..LaneSlots, paid : 0..1]

LEMMA LaneIsFree == LaneIInv => LaneInv
<1> SUFFICES ASSUME LaneIInv PROVE LaneInv
  OBVIOUS
<1>1. \A i \in Marching(lane) : OnItsWay(lane[i]) /\ lane[i] \in CreepType
  BY WhoMarches DEF LaneIInv
<1>2. LaneTypeOK
  BY <1>1 DEF LaneTypeOK, LaneIInv, Marching, CreepType
<1>3. ASSUME NEW i \in Marching(lane) PROVE lane[i].steps <= LastPost * Midway + LastPost
  <2> DEFINE c == lane[i]
  <2>1. c.leg \in 0..2 /\ c.steps = Walked(c) + c.leg /\ Walked(c) <= End(c.leg) /\ c.team \in {0, 1} /\ c.at \in 0..End(2)
    BY <1>1, LaneSizes, Ends DEF OnItsWay, CreepType
  <2> HIDE DEF c
  <2>2. End(c.leg) <= End(2) /\ End(c.leg) \in Nat /\ End(2) \in Nat
    BY <2>1, Ends
  <2>3. Walked(c) \in Int
    BY <2>1, <2>2 DEF Walked
  <2>4. c.steps <= End(2) + 2
    BY <2>1, <2>2, <2>3
  <2>5. LastPost * Midway + LastPost = End(2) + 2
    BY Ends, LaneSizes
  <2> QED
    BY <2>4, <2>5 DEF c
<1> QED
  BY <1>2, <1>3 DEF LaneInv, LaneIsLeft

LEMMA LaneBegins == LaneInit => LaneIInv
<1> SUFFICES ASSUME LaneInit PROVE LaneIInv
  OBVIOUS
<1>1. Pool(lane)
  BY DEF LaneInit, Pool
<1>2. FirstWave \in 1..FirstWave + WaveInterval
  BY LaneSizes
<1>3. 0 \in 0..2 * PerWave /\ 0 \in 0..LaneSlots /\ 0 \in 0..1
  BY LaneSizes
<1> QED
  BY <1>1, <1>2, <1>3 DEF LaneInit, LaneIInv, NoToll

\* What the last step's books say of the change.
Accounted ==
    Cardinality(Marching(lane')) - Cardinality(Marching(lane)) = toll'.born - toll'.felled - toll'.arrived - toll'.paid

LEMMA TickIsBooked == LaneIInv /\ LaneTick => LaneIInv' /\ Accounted
<1> SUFFICES ASSUME LaneIInv, LaneTick PROVE LaneIInv' /\ Accounted
  OBVIOUS
<1>1. PICK H \in [{0, 1} -> LanePlaces \cup {OffLane}], fierce \in SUBSET {0, 1} :
        LET turns[n \in 0..LaneSlots] ==
                IF n = 0 THEN Waves([lane |-> lane, toll |-> NoToll]) ELSE CreepTurn(H, fierce, turns[n - 1], n)
            done == turns[LaneSlots]
        IN /\ \A t \in fierce : H[t] # OffLane
           /\ lane' = done.lane /\ toll' = done.toll
           /\ wave_timer' = [t \in {0, 1} |-> IF wave_timer[t] <= 1 THEN WaveInterval ELSE wave_timer[t] - 1]
  BY DEF LaneTick
<1> DEFINE f == CHOOSE f : Turns(f, H, fierce, LaneSlots)
           before == Cardinality(Marching(lane))
           base == [lane |-> lane, toll |-> NoToll]
<1>2. Turns(f, H, fierce, LaneSlots)
  BY LaneSizes, TurnsAreTaken
<1>3. /\ lane' = f[LaneSlots].lane /\ toll' = f[LaneSlots].toll
      /\ wave_timer' = [t \in {0, 1} |-> IF wave_timer[t] <= 1 THEN WaveInterval ELSE wave_timer[t] - 1]
  BY <1>1 DEF Turns
<1> HIDE DEF f
<1>4. f[0] = Waves(base) /\ \A n \in 0..LaneSlots : n # 0 => f[n] = CreepTurn(H, fierce, f[n - 1], n)
  <2>1. 0 \in 0..LaneSlots
    BY LaneSizes
  <2> QED
    BY <1>2, <2>1 DEF Turns
<1>5. Pool(lane) /\ before \in Nat
  BY WhoMarches, LaneSizes DEF LaneIInv
<1>6. Booked(Waves(base), 0, before)
  <2> DEFINE due(t) == wave_timer[t] <= 1
             first == IF due(0) THEN SpawnWave(base, 0) ELSE base
             second == IF due(1) THEN SpawnWave(first, 1) ELSE first
             Toll(b) == [born : 0..b, felled : {0}, arrived : {0}, paid : {0}]
  <2>1. Waves(base) = second
    BY DEF Waves
  <2>2. base.lane = lane /\ base.toll \in Toll(0) /\ base.toll.born = 0
    BY DEF NoToll
  <2>3. Pool(first.lane) /\ first.toll \in Toll(PerWave) /\ Cardinality(Marching(first.lane)) = before + first.toll.born
    <3>1. CASE due(0)
      <4>1. 0 + PerWave = PerWave /\ first = SpawnWave(base, 0)
        BY <3>1, LaneSizes
      <4>2. before = Cardinality(Marching(base.lane))
        BY <2>2
      <4> HIDE DEF base, before, first
      <4>3. Pool(base.lane) /\ base.toll \in Toll(0) /\ 0 \in Nat /\ 0 \in {0, 1}
        BY <1>5, <2>2
      <4> HIDE DEF Toll
      <4>4. Cardinality(Marching(base.lane)) = before + base.toll.born
        BY <1>5, <2>2, <4>2
      <4> USE DEF Toll
      <4> QED
        BY <1>5, <4>1, <4>3, <4>4, WaveIsSound
    <3>2. CASE ~due(0)
      <4>1. first = base
        BY <3>2
      <4> HIDE DEF base, before, first
      <4> QED
        BY <1>5, <2>2, <4>1, LaneSizes DEF before
    <3> QED
      BY <3>1, <3>2
  <2> HIDE DEF first, base, before
  <2>4. Pool(second.lane) /\ second.toll \in Toll(2 * PerWave)
        /\ Cardinality(Marching(second.lane)) = before + second.toll.born
    <3>1. CASE due(1)
      <4>1. PerWave + PerWave = 2 * PerWave /\ second = SpawnWave(first, 1)
        BY <3>1, LaneSizes
      <4> HIDE DEF second
      <4> QED
        BY <1>5, <2>3, <4>1, WaveIsSound, LaneSizes
    <3>2. CASE ~due(1)
      <4>1. second = first
        BY <3>2
      <4> HIDE DEF second
      <4> QED
        BY <2>3, <4>1, LaneSizes
    <3> QED
      BY <3>1, <3>2
  <2> HIDE DEF second
  <2>5. second.toll.felled = 0 /\ second.toll.arrived = 0 /\ second.toll.born \in Nat
        /\ second.toll \in [born : 0..2 * PerWave, felled : Nat, arrived : Nat, paid : {0}]
    BY <2>4, LaneSizes
  <2> QED
    BY <1>5, <2>1, <2>4, <2>5 DEF Booked
<1> HIDE DEF base, before
<1>7. \A n \in 0..LaneSlots : Booked(f[n], n, before)
  <2> DEFINE Wrong == {n \in 0..LaneSlots : ~Booked(f[n], n, before)}
  <2> SUFFICES ASSUME Wrong # {} PROVE FALSE
    OBVIOUS
  <2>1. Wrong \in SUBSET Nat
    BY LaneSizes
  <2> HIDE DEF Wrong
  <2>2. PICK k \in Wrong : \A j \in Wrong : k <= j
    BY <2>1, LeastExists
  <2>3. k \in 0..LaneSlots /\ ~Booked(f[k], k, before)
    BY <2>2 DEF Wrong
  <2>4. k # 0
    BY <1>4, <1>6, <2>3
  <2>5. k - 1 \in Nat /\ k - 1 \in 0..LaneSlots /\ ~(k <= k - 1) /\ (k - 1) + 1 = k /\ k \in 1..LaneSlots
    BY <2>3, <2>4, LaneSizes
  <2>6. Booked(f[k - 1], k - 1, before)
    BY <2>2, <2>5 DEF Wrong
  <2>7. f[k] = CreepTurn(H, fierce, f[k - 1], k)
    BY <1>4, <2>3, <2>4
  <2>8. Booked(CreepTurn(H, fierce, f[k - 1], k), (k - 1) + 1, before)
    BY <1>5, <2>5, <2>6, TurnIsBooked
  <2> QED
    BY <2>3, <2>5, <2>7, <2>8
<1>8. /\ Pool(lane')
      /\ toll' \in [born : 0..2 * PerWave, felled : Nat, arrived : Nat, paid : {0}]
      /\ toll'.felled + toll'.arrived <= LaneSlots
      /\ Cardinality(Marching(lane')) = before + toll'.born - toll'.felled - toll'.arrived
  <2>1. Booked(f[LaneSlots], LaneSlots, before)
    BY <1>7, LaneSizes
  <2> QED
    BY <1>3, <2>1 DEF Booked
<1>9. toll'.felled \in 0..LaneSlots /\ toll'.arrived \in 0..LaneSlots /\ toll'.born \in Nat /\ toll'.paid = 0
  BY <1>8, LaneSizes
<1>10. toll' \in [born : 0..2 * PerWave, felled : 0..LaneSlots, arrived : 0..LaneSlots, paid : 0..1]
  BY <1>8, <1>9
<1>11. wave_timer' \in [{0, 1} -> 1..FirstWave + WaveInterval]
  <2>1. \A t \in {0, 1} : wave_timer[t] \in 1..FirstWave + WaveInterval
    BY DEF LaneIInv
  <2>2. \A t \in {0, 1} : (IF wave_timer[t] <= 1 THEN WaveInterval ELSE wave_timer[t] - 1) \in 1..FirstWave + WaveInterval
    BY <2>1, LaneSizes
  <2> QED
    BY <1>3, <2>2
<1>12. Accounted
  BY <1>5, <1>8, <1>9 DEF Accounted, before
<1> QED
  BY <1>8, <1>10, <1>11, <1>12 DEF LaneIInv, Pool, OnItsWay, Walked, CreepType

LEMMA HeroIsPaidOnce ==
    ASSUME LaneIInv, NEW team, NEW x, NEW blow \in HeroBlows, HeroStrikes(team, x, blow)
    PROVE  LaneIInv' /\ Accounted
<1> DEFINE reach == {i \in Marching(lane) : /\ lane[i].at = x
                                            /\ lane[i].team = team => 2 * lane[i].hp <= Full(lane[i].role)}
           i == CHOOSE k \in reach : \A j \in reach : k <= j
           c == CreepHit(lane[i], blow)
<1>1. reach # {} /\ lane' = [lane EXCEPT ![i] = c] /\ UNCHANGED wave_timer /\ toll' = [NoToll EXCEPT !.paid = Pay(c)]
  <2>1. reach # {} /\ UNCHANGED wave_timer
    BY DEF HeroStrikes
  <2>2. lane' = [lane EXCEPT ![i] = c]
    BY Zenon DEF HeroStrikes
  <2>3. toll' = [NoToll EXCEPT !.paid = Pay(c)]
    BY Zenon DEF HeroStrikes
  <2> QED
    BY <2>1, <2>2, <2>3
<1>2. reach \in SUBSET Nat /\ reach \subseteq Marching(lane)
  BY WhoMarches DEF LaneIInv
<1> HIDE DEF reach
<1>3. i \in reach
  BY <1>1, <1>2, LeastExists
<1>4. i \in Marching(lane) /\ Pool(lane)
  BY <1>2, <1>3 DEF LaneIInv
<1>5. OnItsWay(c) \/ c = NoCreep
  <2>1. blow \in Nat \ {0}
    BY LaneSizes
  <2> QED
    BY <1>4, <2>1, WhoMarches, HitIsSound
<1> HIDE DEF i, c
<1>6. /\ Pool(lane')
      /\ Cardinality(Marching(lane')) = IF c = NoCreep THEN Cardinality(Marching(lane)) - 1 ELSE Cardinality(Marching(lane))
  BY <1>1, <1>4, <1>5, OneSlotChanges
<1>7. Cardinality(Marching(lane)) \in Nat
  BY <1>4, WhoMarches, LaneSizes
<1>8. toll'.born = 0 /\ toll'.felled = 0 /\ toll'.arrived = 0 /\ toll'.paid = (IF c = NoCreep THEN 1 ELSE 0)
      /\ toll' \in [born : {0}, felled : {0}, arrived : {0}, paid : 0..1]
  BY <1>1 DEF NoToll, Pay
<1>9. toll' \in [born : 0..2 * PerWave, felled : 0..LaneSlots, arrived : 0..LaneSlots, paid : 0..1]
  <2>1. 0 \in 0..2 * PerWave /\ 0 \in 0..LaneSlots
    BY LaneSizes
  <2> QED
    BY <1>8, <2>1
<1>10. Accounted
  BY <1>6, <1>7, <1>8 DEF Accounted
<1>11. wave_timer' \in [{0, 1} -> 1..FirstWave + WaveInterval]
  BY <1>1 DEF LaneIInv
<1> QED
  BY <1>6, <1>9, <1>10, <1>11 DEF LaneIInv, Pool, OnItsWay, Walked, CreepType

LEMMA ZoneIsBooked ==
    ASSUME LaneIInv, NEW team, NEW x, ZoneOnLane(team, x)
    PROVE  LaneIInv' /\ Accounted
<1> DEFINE hit == {i \in Marching(lane) : lane[i].team # team /\ Gap(lane[i].at, x) <= 1}
           left == [i \in 1..LaneSlots |-> IF i \in hit THEN CreepHit(lane[i], 1) ELSE lane[i]]
           n == Cardinality(Marching(lane)) - Cardinality(Marching(left))
<1>1. lane' = left /\ toll' = [NoToll EXCEPT !.felled = n] /\ UNCHANGED wave_timer
  BY DEF ZoneOnLane
<1>2. Pool(lane) /\ hit \subseteq Marching(lane)
  BY DEF LaneIInv
<1>3. ASSUME NEW i \in 1..LaneSlots
      PROVE  /\ left[i] \in {c \in CreepType : OnItsWay(c)} \cup {NoCreep}
             /\ lane[i] = NoCreep => left[i] = NoCreep
  <2>1. CASE i \in hit
    <3>1. OnItsWay(lane[i]) /\ lane[i] # NoCreep /\ left[i] = CreepHit(lane[i], 1)
      BY <1>2, <2>1, WhoMarches, CreepsAreThere
    <3> HIDE DEF left
    <3> QED
      BY <3>1, HitIsSound DEF OnItsWay
  <2>2. CASE i \notin hit
    <3>1. left[i] = lane[i]
      BY <2>2
    <3> HIDE DEF left
    <3> QED
      BY <1>2, <3>1 DEF Pool
  <2> QED
    BY <2>1, <2>2
<1>4. left = [i \in 1..LaneSlots |-> left[i]]
  OBVIOUS
<1> HIDE DEF left, hit
<1>5. Pool(left)
  BY <1>3, <1>4 DEF Pool
<1>6. Marching(left) \in SUBSET Marching(lane)
  BY <1>3 DEF Marching
<1>7. IsFiniteSet(Marching(lane)) /\ Cardinality(Marching(lane)) \in 0..LaneSlots
      /\ Cardinality(Marching(left)) \in 0..LaneSlots
  BY <1>2, <1>5, WhoMarches
<1>8. Cardinality(Marching(left)) <= Cardinality(Marching(lane))
  BY <1>6, <1>7, FS_Subset
<1>9. n \in 0..LaneSlots
  BY <1>7, <1>8, LaneSizes
<1>10. Cardinality(Marching(left)) - Cardinality(Marching(lane)) = -n
  BY <1>7, LaneSizes
<1> HIDE DEF n
<1>11. toll' \in [born : {0}, felled : 0..LaneSlots, arrived : {0}, paid : {0}] /\ toll'.felled = n
  BY <1>1, <1>9 DEF NoToll
<1>12. toll' \in [born : 0..2 * PerWave, felled : 0..LaneSlots, arrived : 0..LaneSlots, paid : 0..1]
  <2>1. 0 \in 0..2 * PerWave /\ 0 \in 0..LaneSlots /\ 0 \in 0..1
    BY LaneSizes
  <2> QED
    BY <1>11, <2>1
<1>13. Accounted
  <2>1. toll'.born = 0 /\ toll'.arrived = 0 /\ toll'.paid = 0
    BY <1>11
  <2> QED
    BY <1>1, <1>9, <1>10, <1>11, <2>1, LaneSizes DEF Accounted
<1>14. wave_timer' \in [{0, 1} -> 1..FirstWave + WaveInterval] /\ Pool(lane')
  BY <1>1, <1>5 DEF LaneIInv
<1> QED
  BY <1>12, <1>13, <1>14 DEF LaneIInv, Pool, OnItsWay, Walked, CreepType

LEMMA LaneGoesOn == LaneIInv /\ LaneNext => LaneIInv' /\ Accounted
BY TickIsBooked, HeroIsPaidOnce, ZoneIsBooked DEF LaneNext

\* In any pool, for any wave and any lane: no creep stands off the lane or lives past its hit
\* points, and each has a bounded way left, however often it stops to fight (arena_tick_lane_creeps).
THEOREM LaneIsSound == LaneSpec => []LaneInv
<1>1. LaneIInv /\ UNCHANGED laneVars => LaneIInv'
  BY DEF laneVars, LaneIInv, Pool, OnItsWay, Walked, CreepType
<1>2. LaneSpec => []LaneIInv
  BY <1>1, LaneBegins, LaneGoesOn, PTL DEF LaneSpec
<1> QED
  BY <1>2, LaneIsFree, PTL

\* No creep is lost, overwritten by a wave or paid for twice: who left the pool arrived, or was
\* felled, or paid one hero (lane_creep_spawn_wave, arena_hero_attack_lane_creeps).
THEOREM LaneIsCounted == LaneSpec => LaneBooks
<1>1. LaneIInv /\ UNCHANGED laneVars => LaneIInv'
  BY DEF laneVars, LaneIInv, Pool, OnItsWay, Walked, CreepType
<1>2. LaneIInv /\ [LaneNext]_laneVars =>
        [Cardinality(Marching(lane')) - Cardinality(Marching(lane))
            = toll'.born - toll'.felled - toll'.arrived - toll'.paid]_laneVars
  BY LaneGoesOn DEF Accounted
<1> QED
  BY <1>1, <1>2, LaneBegins, LaneGoesOn, PTL DEF LaneSpec, LaneBooks
==============================================================================
