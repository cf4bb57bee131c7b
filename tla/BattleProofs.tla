---------------------------- MODULE BattleProofs -----------------------------
(***************************************************************************)
(* Theorems about the fight, for any rosters, clone ranges, damages and    *)
(* windows the assumptions admit.                                          *)
(***************************************************************************)
EXTENDS Combat, FunctionTheorems, FiniteSetTheorems, WellFoundedInduction, NaturalsInduction, TLAPS

-----------------------------------------------------------------------------
(* Deaths, awards and the shared fate of Tyler's army.                     *)

Memory == [1..MaxAssist -> [by : Heroes \cup {NoOne}, left : 0..AssistWindow]]
Body == [active : BOOLEAN, alive : BOOLEAN, hp : 0..MaxHp, cloneOf : Tylers \cup {NoOne}, hidden : BOOLEAN,
         lastHit : Heroes \cup {NoOne}, assists : Memory, windup : Nat, target : Heroes \cup {NoOne}]
Blows == [Heroes -> [Heroes -> -1..AssistWindow]]
TeamOf(h) == IF h \in Side0 THEN 0 ELSE 1

\* Heroes are always there and nobody's clones; a living clone is a Tyler's, who lives.
Bodies(u) ==
    /\ u \in [Units -> Body]
    /\ \A e \in Units : u[e].windup <= WindupOf(e)
    /\ \A h \in Heroes : u[h].active /\ u[h].cloneOf = NoOne
    /\ \A c \in Slots : u[c].alive => /\ u[c].active /\ u[c].cloneOf \in Tylers
                                      /\ Living(u, u[c].cloneOf)

\* What a hero remembers of a hit is no more than what the blows struck in this life support.
Remembered(u, b) ==
    \A h \in Heroes :
        /\ u[h].lastHit # NoOne => b[h][u[h].lastHit] # -1 /\ TeamOf(u[h].lastHit) # TeamOf(h)
        /\ \A i \in 1..MaxAssist : LET a == u[h].assists[i] IN
            a.by # NoOne => a.left <= b[h][a.by] /\ TeamOf(a.by) # TeamOf(h)

\* The award of one death.
Death == [victim : Units, killer : Heroes \cup {NoOne}, helpers : SUBSET Heroes, owner : Units,
          stood : BOOLEAN]
Earned(d, b) ==
    /\ d.stood
    /\ d.victim \in Heroes =>
        /\ d.killer # NoOne => b[d.victim][d.killer] # -1 /\ TeamOf(d.killer) # TeamOf(d.victim)
        /\ \A k \in d.helpers : b[d.victim][k] > 0 /\ k # d.killer /\ TeamOf(k) # TeamOf(d.victim)
FellAlone(u, d) == \A e \in Units : Living(u, e) => RewardOwner(u, e) # d.owner

\* w, the units and the deaths of a step so far, with the blows b that are on record.
Sound(w, b) ==
    /\ Bodies(w.unit) /\ Remembered(w.unit, b) /\ w.deaths \in Seq(Death)
    /\ \A i \in DOMAIN w.deaths : Earned(w.deaths[i], b) /\ FellAlone(w.unit, w.deaths[i])

StageOK ==
    \/ stage = <<"orders", {}>> \/ stage = <<"swing", {}>>
    \/ \E S \in SUBSET Units : stage = <<"strike", S>>
    \/ \E S \in SUBSET Heroes : S # {} /\ stage = <<"kits", S>>
    \/ \E S \in SUBSET (1..MaxShots) : S # {} /\ stage = <<"shots", S>>
AimedAtFoe(e) == unit[e].target # NoOne => TeamOf(unit[e].target) # TeamOf(e)
ShotsOK ==
    /\ shots \in [1..MaxShots -> {NoShot} \cup [by : Ranged, at : Heroes]]
    /\ \A p \in 1..MaxShots : shots[p] # NoShot => TeamOf(shots[p].by) # TeamOf(shots[p].at)

CombatIInv ==
    /\ Sound([unit |-> unit, deaths |-> deaths], blow)
    /\ blow \in Blows
    /\ StageOK /\ ShotsOK
    /\ stage[1] = "strike" => \A e \in Ranged : unit[e].alive => AimedAtFoe(e)

LEMMA Roster ==
    /\ Heroes \subseteq Units /\ Slots \subseteq Units /\ Units \subseteq Nat /\ NoOne \notin Units
    /\ Heroes \cap Slots = {} /\ 0 \in Heroes /\ Heroes \cup Slots = Units
    /\ Tylers \subseteq Heroes /\ Ranged \subseteq Heroes
    /\ MaxHp \in Nat \ {0} /\ SwingWindup \in Nat \ {0} /\ ShotWindup \in Nat \ {0}
    /\ MaxShots \in Nat \ {0} /\ MaxAssist \in Nat \ {0} /\ AssistWindow \in Nat \ {0}
BY CombatRoster, CombatNumbers, LedgerNumbers DEF Units, Heroes, NoOne

LEMMA NewBodies ==
    /\ NewHero \in Body /\ Zeroed \in Body
    /\ DeadClone \in Body
    /\ \A t \in Tylers : NewClone(t) \in Body
    /\ Blank \in Memory
<1>1. Blank \in Memory
  BY Roster DEF Blank, NoAssist, Memory
<1>2. [i \in 1..MaxAssist |-> [by |-> 0, left |-> 0]] \in Memory
  BY Roster DEF Memory
<1>3. NewHero \in Body
  BY <1>1, Roster DEF NewHero, Body
<1>4. Zeroed \in Body
  BY <1>2, Roster DEF Zeroed, Body
<1>5. DeadClone \in Body
  BY <1>4 DEF DeadClone, Body
<1>6. ASSUME NEW t \in Tylers PROVE NewClone(t) \in Body
  <2>1. MaxHp \in 0..MaxHp /\ t \in Tylers \cup {NoOne}
    BY Roster
  <2> QED
    BY <1>4, <2>1 DEF NewClone, Body
<1> QED
  BY <1>1, <1>3, <1>4, <1>5, <1>6

\* What units may lose in a step that only takes from them.
Loss(u, x) ==
    /\ x \in [Units -> Body]
    /\ \A h \in Heroes : /\ x[h].active = u[h].active /\ x[h].cloneOf = u[h].cloneOf
                         /\ x[h].lastHit = u[h].lastHit /\ x[h].assists = u[h].assists
                         /\ x[h].windup = u[h].windup /\ x[h].target = u[h].target
                         /\ x[h].alive => u[h].alive
    /\ \A c \in Slots : /\ x[c].windup <= WindupOf(c)
                        /\ x[c].alive => /\ x[c].active /\ Living(u, c) /\ x[c].cloneOf = u[c].cloneOf
                                         /\ Living(x, x[c].cloneOf)

LEMMA LossIsSound ==
    ASSUME NEW u, NEW x, NEW b, Bodies(u), Remembered(u, b), Loss(u, x)
    PROVE  /\ Bodies(x) /\ Remembered(x, b)
           /\ \A d : FellAlone(u, d) => FellAlone(x, d)
<1>1. Bodies(x)
  BY Roster DEF Bodies, Loss, Living
<1>2. Remembered(x, b)
  BY DEF Remembered, Loss
<1>3. ASSUME NEW d, FellAlone(u, d), NEW e \in Units, Living(x, e) PROVE RewardOwner(x, e) # d.owner
  <2>1. Living(u, e) /\ x[e].cloneOf = u[e].cloneOf
    BY <1>3, Roster DEF Living, Loss, Bodies
  <2> QED
    BY <1>3, <2>1 DEF FellAlone, RewardOwner
<1> QED
  BY <1>1, <1>2, <1>3 DEF FellAlone

LEMMA Sides ==
    ASSUME NEW u, Bodies(u)
    PROVE  /\ \A h \in Heroes : RewardOwner(u, h) = h /\ SideOf(u, h) = TeamOf(h)
           /\ \A e \in Units : Living(u, e) => RewardOwner(u, e) \in Heroes
           /\ \A e \in Units : SideOf(u, e) = TeamOf(RewardOwner(u, e))
           /\ \A e \in Units : RewardOwner(u, e) \in Units
<1>1. \A h \in Heroes : RewardOwner(u, h) = h
  BY DEF Bodies, RewardOwner
<1>2. \A e \in Units : SideOf(u, e) = TeamOf(RewardOwner(u, e))
  BY DEF SideOf, TeamOf
<1>3. \A e \in Units : Living(u, e) => RewardOwner(u, e) \in Heroes
  BY Roster DEF Bodies, RewardOwner, Living
<1>4. \A e \in Units : RewardOwner(u, e) \in Units
  BY Roster DEF Bodies, RewardOwner, Body
<1> QED
  BY <1>1, <1>2, <1>3, <1>4, Roster

LEMMA SlainFacts ==
    ASSUME NEW m \in Body
    PROVE  /\ Slain(m) \in Body /\ ~Slain(m).alive
           /\ Slain(m).active = m.active /\ Slain(m).cloneOf = m.cloneOf
           /\ Slain(m).lastHit = m.lastHit /\ Slain(m).assists = m.assists
           /\ Slain(m).windup = m.windup /\ Slain(m).target = m.target
<1>1. 0 \in 0..MaxHp
  BY Roster
<1> QED
  BY <1>1 DEF Slain, Body

\* A hit on one army leaves the other heroes as they were, and gives nobody life or a target.
Spared(u, x, o) ==
    \A h \in Heroes : /\ x[h].target = u[h].target /\ (x[h].alive => u[h].alive)
                      /\ h # o => (Living(u, h) => Living(x, h))

\* Who falls takes his army with him, and only the living fall.
LEMMA FallLoses ==
    ASSUME NEW w, NEW u, w.unit = u, Bodies(u), NEW v \in Units, Living(u, v),
           NEW x, x = Fall(w, v).unit
    PROVE  /\ Loss(u, x) /\ \A e \in Units : Living(x, e) => RewardOwner(x, e) # RewardOwner(u, v)
           /\ \A h \in Heroes : h # RewardOwner(u, v) => x[h] = u[h]
<1> DEFINE o == RewardOwner(u, v)
           fallen == [u EXCEPT ![v] = Dead(u, v)]
<1>1. x = IF v \in Tylers \/ u[v].cloneOf # NoOne THEN Cascade(fallen, o) ELSE fallen
  BY DEF Fall
<1>2. o \in Heroes /\ o \in Units
  BY Sides, Roster
<1>3. \A e \in Units : u[e] \in Body /\ Slain(u[e]) \in Body
  BY SlainFacts DEF Bodies
<1>4. Dead(u, v) \in Body /\ ~Dead(u, v).alive
  <2>1. ~DeadClone.alive
    BY DEF DeadClone, Zeroed
  <2> QED
    BY <1>3, <2>1, NewBodies, SlainFacts DEF Dead
<1>5. fallen \in [Units -> Body]
  BY <1>4 DEF Bodies
<1>6. /\ fallen[v] = Dead(u, v) /\ \A e \in Units : e # v => fallen[e] = u[e]
  BY DEF Bodies
<1>7. v \in Heroes => Dead(u, v) = Slain(u[v])
  BY DEF Dead, Bodies
<1>8. v \in Slots => Dead(u, v) = DeadClone /\ u[v].cloneOf # NoOne
  BY Roster DEF Dead, Bodies, Living
<1> HIDE DEF fallen, o
<1>11. ASSUME NEW h \in Heroes, h # o PROVE x[h] = u[h]
  <2>1. h # v /\ h \in Units /\ u[h].cloneOf = NoOne
    BY <1>11, Roster DEF o, RewardOwner, Bodies
  <2>2. fallen[h] = u[h]
    BY <1>6, <2>1
  <2>3. o \notin {h, fallen[h].cloneOf}
    BY <1>2, <1>11, <2>1, <2>2, Roster
  <2> QED
    BY <1>1, <2>1, <2>2, <2>3 DEF Cascade
<1>9. CASE ~(v \in Tylers \/ u[v].cloneOf # NoOne)
  <2>1. v \in Heroes /\ v \notin Tylers /\ x = fallen /\ o = v
    BY <1>1, <1>8, <1>9, Roster DEF o, RewardOwner
  <2>2. Loss(u, x)
    <3>1. ASSUME NEW h \in Heroes
          PROVE  /\ x[h].active = u[h].active /\ x[h].cloneOf = u[h].cloneOf
                 /\ x[h].lastHit = u[h].lastHit /\ x[h].assists = u[h].assists
                 /\ x[h].windup = u[h].windup /\ x[h].target = u[h].target
                 /\ x[h].alive => u[h].alive
      <4>1. h \in Units /\ u[h] \in Body
        BY <1>3, Roster
      <4>2. x[h] = u[h] \/ x[h] = Slain(u[h])
        BY <1>6, <1>7, <2>1, <4>1
      <4> QED
        BY <4>1, <4>2, SlainFacts
    <3>2. ASSUME NEW c \in Slots
          PROVE  /\ x[c].windup <= WindupOf(c)
                 /\ x[c].alive => /\ x[c].active /\ Living(u, c) /\ x[c].cloneOf = u[c].cloneOf
                                  /\ Living(x, x[c].cloneOf)
      <4>1. c \in Units /\ c # v /\ x[c] = u[c]
        BY <1>6, <2>1, Roster
      <4>5. u[c].alive => u[c].cloneOf \in Tylers
        BY DEF Bodies
      <4>2. u[c].alive => u[c].cloneOf # v /\ u[c].cloneOf \in Units
        BY <2>1, <4>5, Roster
      <4> QED
        BY <1>6, <2>1, <4>1, <4>2 DEF Bodies, Living
    <3> QED
      BY <1>5, <2>1, <3>1, <3>2 DEF Loss
  <2>3. \A e \in Units : Living(x, e) => RewardOwner(x, e) # o
    BY <1>4, <1>6, <2>1, Roster DEF Bodies, Living, RewardOwner
  <2> QED
    BY <1>11, <2>2, <2>3 DEF o
<1>10. CASE v \in Tylers \/ u[v].cloneOf # NoOne
  <2>1. /\ x \in [Units -> Body]
        /\ \A e \in Units : x[e] = IF Living(fallen, e) /\ o \in {e, fallen[e].cloneOf}
                                   THEN IF fallen[e].cloneOf # NoOne THEN Zeroed
                                        ELSE Slain(fallen[e])
                                   ELSE fallen[e]
    <3>1. \A e \in Units : Slain(fallen[e]) \in Body
      BY <1>5, SlainFacts
    <3> QED
      BY <1>1, <1>5, <1>10, <3>1, NewBodies DEF Cascade
  <2>2. o \in Tylers /\ ~x[v].alive
    <3>1. o \in Tylers
      <4>1. CASE v \in Heroes
        BY <1>10, <4>1 DEF o, RewardOwner, Bodies
      <4>2. CASE v \in Slots
        BY <1>8, <4>2 DEF o, RewardOwner, Bodies, Living
      <4> QED
        BY <4>1, <4>2, Roster
    <3>2. ~fallen[v].alive
      BY <1>4, <1>6
    <3> QED
      BY <2>1, <3>1, <3>2 DEF Living
  <2>3. ASSUME NEW h \in Heroes
        PROVE  /\ x[h].active = u[h].active /\ x[h].cloneOf = u[h].cloneOf
               /\ x[h].lastHit = u[h].lastHit /\ x[h].assists = u[h].assists
               /\ x[h].windup = u[h].windup /\ x[h].target = u[h].target
               /\ x[h].alive => u[h].alive /\ h # o
    <3>1. u[h].cloneOf = NoOne /\ u[h].active /\ h \in Units
      BY Roster DEF Bodies
    <3>2. fallen[h] = u[h] \/ fallen[h] = Slain(u[h])
      BY <1>6, <1>7, <3>1
    <3>4. u[h] \in Body /\ fallen[h] \in Body
      BY <1>5, <3>1 DEF Bodies
    <3>6. fallen[h].cloneOf = NoOne /\ fallen[h].active
      BY <3>1, <3>2, <3>4, SlainFacts
    <3>3. x[h] = fallen[h] \/ x[h] = Slain(fallen[h])
      BY <2>1, <3>1, <3>6
    <3>5. x[h].alive => h # o
      <4>1. CASE h = o /\ fallen[h].alive
        <5>1. x[h] = Slain(fallen[h])
          BY <2>1, <3>1, <3>6, <4>1 DEF Living
        <5> QED
          BY <5>1, <3>4, SlainFacts
      <4>2. CASE ~fallen[h].alive
        BY <3>3, <3>4, <4>2, SlainFacts
      <4> QED
        BY <4>1, <4>2
    <3> QED
      BY <3>2, <3>3, <3>4, <3>5, SlainFacts
  <2>4. ASSUME NEW c \in Slots, x[c].alive
        PROVE  x[c] = u[c] /\ Living(u, c) /\ u[c].cloneOf # o /\ u[c].cloneOf \in Tylers
    <3>1. c \in Units /\ c # v
      BY <2>2, <2>4, Roster
    <3>2. fallen[c] = u[c]
      BY <1>6, <3>1
    <3>6. ~Zeroed.alive /\ ~Slain(u[c]).alive
      BY <1>3, <3>1, SlainFacts DEF Zeroed
    <3>3. x[c] = u[c] /\ ~(Living(u, c) /\ o \in {c, u[c].cloneOf})
      BY <2>1, <2>4, <3>1, <3>2, <3>6 DEF Living
    <3>4. Living(u, c) /\ u[c].cloneOf \in Tylers
      BY <2>4, <3>3 DEF Bodies, Living
    <3>5. u[c].cloneOf # o
      BY <3>3, <3>4
    <3> QED
      BY <3>3, <3>4, <3>5
  <2>5. ASSUME NEW c \in Slots PROVE x[c].windup <= WindupOf(c)
    <3>1. c \in Units /\ WindupOf(c) \in Nat /\ u[c].windup <= WindupOf(c)
      BY Roster DEF Bodies, WindupOf
    <3>2. Zeroed.windup = 0 /\ DeadClone.windup = 0
      BY DEF Zeroed, DeadClone
    <3>3. fallen[c] \in {u[c], DeadClone}
      BY <1>6, <1>8, <3>1
    <3>4. fallen[c].windup <= WindupOf(c)
      BY <3>1, <3>2, <3>3
    <3>5. Slain(fallen[c]).windup = fallen[c].windup
      BY <1>5, <3>1, SlainFacts
    <3>6. x[c] \in {Zeroed, Slain(fallen[c]), fallen[c]}
      BY <2>1, <3>1
    <3> QED
      BY <3>1, <3>2, <3>4, <3>5, <3>6
  <2>6. ASSUME NEW c \in Slots, x[c].alive PROVE Living(x, x[c].cloneOf)
    <3> DEFINE t == u[c].cloneOf
    <3>1. x[c] = u[c] /\ Living(u, c) /\ t # o /\ t \in Tylers
      BY <2>4, <2>6
    <3>2. Living(u, t) /\ t \in Heroes /\ t \in Units /\ u[t].cloneOf = NoOne
      BY <3>1, Roster DEF Bodies, Living
    <3>3. t # v
      BY <3>1, <3>2 DEF o, RewardOwner
    <3>4. fallen[t] = u[t]
      BY <1>6, <3>2, <3>3
    <3>5. x[t] = u[t]
      BY <2>1, <3>1, <3>2, <3>4, <1>2, Roster
    <3> QED
      BY <3>1, <3>2, <3>5 DEF Living
  <2>7. Loss(u, x)
    BY <2>1, <2>3, <2>4, <2>5, <2>6 DEF Loss, Living
  <2>8. ASSUME NEW e \in Units, Living(x, e) PROVE RewardOwner(x, e) # o
    <3>1. CASE e \in Heroes
      BY <2>3, <2>8, <3>1 DEF Living, RewardOwner, Bodies
    <3>2. CASE e \in Slots
      BY <2>4, <2>8, <3>2, Roster DEF Living, RewardOwner
    <3> QED
      BY <3>1, <3>2, Roster
  <2> QED
    BY <1>11, <2>7, <2>8 DEF o
<1> QED
  BY <1>9, <1>10

\* What the dying remember of their hits is all that their award is made of.
LEMMA FallIsSound ==
    ASSUME NEW w, NEW b \in Blows, Sound(w, b), NEW v \in Units, Living(w.unit, v)
    PROVE  Sound(Fall(w, v), b) /\ Spared(w.unit, Fall(w, v).unit, RewardOwner(w.unit, v))
<1> DEFINE u == w.unit
           x == Fall(w, v).unit
           d == [victim |-> v, killer |-> Killer(u, v), helpers |-> Helpers(u, v),
                 owner |-> RewardOwner(u, v), stood |-> u[v].alive]
<1>1. Fall(w, v).deaths = Append(w.deaths, d)
  BY DEF Fall
<1>2. Bodies(u) /\ Remembered(u, b) /\ w.deaths \in Seq(Death) /\ u[v] \in Body
  BY DEF Sound, Bodies
<1>3. Loss(u, x) /\ FellAlone(x, d) /\ Spared(u, x, RewardOwner(u, v))
  <2>1. /\ Loss(u, x) /\ \A e \in Units : Living(x, e) => RewardOwner(x, e) # RewardOwner(u, v)
        /\ \A h \in Heroes : h # RewardOwner(u, v) => x[h] = u[h]
    BY <1>2, FallLoses
  <2> HIDE DEF x, u
  <2> QED
    BY <2>1 DEF FellAlone, Loss, Spared, Living, d
<1>4. Bodies(x) /\ Remembered(x, b) /\ \A e : FellAlone(u, e) => FellAlone(x, e)
  BY <1>2, <1>3, LossIsSound
<1>5. Killer(u, v) \in {u[v].lastHit, NoOne} /\ Killer(u, v) \in Heroes \cup {NoOne}
  BY <1>2 DEF Killer, Body
<1>6. ASSUME NEW k \in Helpers(u, v)
      PROVE  /\ k \in Heroes /\ k # u[v].lastHit
             /\ \E i \in 1..MaxAssist : u[v].assists[i].by = k /\ k # NoOne /\ u[v].assists[i].left > 0
  BY <1>2 DEF Helpers, Live, Body, Memory
<1>7. d \in Death
  <2>1. RewardOwner(u, v) \in Units /\ u[v].alive \in BOOLEAN
    BY <1>2, Sides DEF Body
  <2>2. Helpers(u, v) \in SUBSET Heroes
    BY <1>6
  <2> QED
    BY <1>5, <2>1, <2>2 DEF Death
<1>8. Earned(d, b)
  <2>1. d.stood
    BY DEF Living
  <2>2. ASSUME v \in Heroes, Killer(u, v) # NoOne
        PROVE  b[v][Killer(u, v)] # -1 /\ TeamOf(Killer(u, v)) # TeamOf(v)
    BY <1>2, <1>5, <2>2 DEF Remembered
  <2>3. ASSUME v \in Heroes, NEW k \in Helpers(u, v)
        PROVE  b[v][k] > 0 /\ k # Killer(u, v) /\ TeamOf(k) # TeamOf(v)
    <3>1. PICK i \in 1..MaxAssist :
            u[v].assists[i].by = k /\ k # NoOne /\ u[v].assists[i].left > 0
      BY <1>6, <2>3
    <3>2. u[v].assists[i].left <= b[v][k] /\ TeamOf(k) # TeamOf(v)
      BY <1>2, <2>3, <3>1 DEF Remembered
    <3>4. u[v].assists \in Memory
      BY <1>2 DEF Body
    <3>5. u[v].assists[i].left \in Int
      BY <3>4, Roster DEF Memory
    <3>7. v \in Heroes /\ k \in Heroes
      BY <1>6, <2>3
    <3>8. b[v] \in [Heroes -> -1..AssistWindow]
      BY <3>7 DEF Blows
    <3>6. b[v][k] \in Int
      BY <3>7, <3>8, Roster
    <3>3. u[v].assists[i].left \in Int /\ b[v][k] \in Int
      BY <3>5, <3>6
    <3> QED
      BY <1>5, <1>6, <2>3, <3>1, <3>2, <3>3
  <2> QED
    BY <2>1, <2>2, <2>3 DEF Earned
<1> HIDE DEF d, u, x
<1>9. /\ Append(w.deaths, d) \in Seq(Death)
      /\ \A i \in DOMAIN Append(w.deaths, d) :
            (i \in DOMAIN w.deaths /\ Append(w.deaths, d)[i] = w.deaths[i]) \/ Append(w.deaths, d)[i] = d
  BY <1>2, <1>7
<1>10. \A i \in DOMAIN w.deaths : Earned(w.deaths[i], b) /\ FellAlone(u, w.deaths[i])
  BY DEF Sound, u
<1> QED
  BY <1>1, <1>3, <1>4, <1>8, <1>9, <1>10 DEF Sound, x, u

\* A hit takes its damage, leaves its victim with one, or fells it.
LEMMA HurtIsSound ==
    ASSUME NEW w, NEW b \in Blows, Sound(w, b), NEW v \in Units, Living(w.unit, v),
           NEW n \in Damages, NEW saved \in BOOLEAN
    PROVE  /\ Sound(Hurt(w, v, n, saved), b)
           /\ Spared(w.unit, Hurt(w, v, n, saved).unit, RewardOwner(w.unit, v))
<1>1. ASSUME NEW m \in 0..MaxHp
      PROVE  /\ Sound(LeftWith(w, v, m), b)
             /\ Spared(w.unit, LeftWith(w, v, m).unit, RewardOwner(w.unit, v))
  <2> DEFINE u == w.unit
             x == LeftWith(w, v, m).unit
  <2>1. Bodies(u) /\ Remembered(u, b)
    BY DEF Sound
  <2>2. /\ x = [u EXCEPT ![v].hp = m] /\ LeftWith(w, v, m).deaths = w.deaths
    BY DEF LeftWith
  <2>3. \A e \in Units : /\ x[e] \in Body
                         /\ x[e].active = u[e].active /\ x[e].cloneOf = u[e].cloneOf
                         /\ x[e].lastHit = u[e].lastHit /\ x[e].assists = u[e].assists
                         /\ x[e].windup = u[e].windup /\ x[e].target = u[e].target
                         /\ x[e].alive = u[e].alive
    <3> HIDE DEF u
    <3>1. \A e \in Units : u[e] \in Body
      BY <2>1 DEF Bodies
    <3>2. x = [e \in Units |-> IF e = v THEN [u[v] EXCEPT !.hp = m] ELSE u[e]]
      BY <2>1, <2>2 DEF Bodies
    <3> QED
      BY <3>1, <3>2 DEF Body
  <2>4. x \in [Units -> Body]
    BY <2>1, <2>2, <2>3 DEF Bodies
  <2> HIDE DEF u, x
  <2>5. Loss(u, x)
    BY <2>1, <2>3, <2>4, Roster DEF Loss, Bodies, Living
  <2>6. Bodies(x) /\ Remembered(x, b) /\ \A e : FellAlone(u, e) => FellAlone(x, e)
    BY <2>1, <2>5, LossIsSound
  <2>7. \A o : Spared(u, x, o)
    BY <2>3, Roster DEF Spared, Living
  <2> QED
    BY <2>2, <2>6, <2>7 DEF Sound, x, u
<1>2. CASE w.unit[v].hp > n
  <2>1. w.unit[v].hp - n \in 0..MaxHp
    BY <1>2, CombatNumbers, Roster DEF Sound, Bodies, Body
  <2> QED
    BY <1>1, <1>2, <2>1 DEF Hurt
<1>3. CASE ~(w.unit[v].hp > n) /\ saved
  <2>1. 1 \in 0..MaxHp
    BY Roster
  <2> QED
    BY <1>1, <1>3, <2>1 DEF Hurt
<1>4. CASE ~(w.unit[v].hp > n) /\ ~saved
  BY <1>4, FallIsSound DEF Hurt
<1> QED
  BY <1>2, <1>3, <1>4

LEMMA StruckIsSound ==
    ASSUME NEW w, NEW b \in Blows, Sound(w, b), NEW v \in Units,
           NEW n \in Damages, NEW saved \in BOOLEAN
    PROVE  /\ Sound(Struck(w, v, n, saved), b)
           /\ Spared(w.unit, Struck(w, v, n, saved).unit, RewardOwner(w.unit, v))
<1>1. CASE Hittable(w.unit, v)
  <2>1. Living(w.unit, v)
    BY <1>1, Roster DEF Hittable, Living, Sound, Bodies
  <2> QED
    BY <1>1, <2>1, HurtIsSound DEF Struck
<1>2. CASE ~Hittable(w.unit, v)
  BY <1>2 DEF Struck, Spared
<1> QED
  BY <1>1, <1>2

LEMMA LeastIsLeast ==
    ASSUME NEW S \in SUBSET Nat, S # {}
    PROVE  Least(S) \in S /\ \A j \in S : Least(S) <= j
<1> DEFINE R == OpToRel(<, Nat)
<1>1. \A x, y \in Nat : x < y => <<x, y>> \in R
  BY DEF OpToRel
<1>2. IsWellFoundedOn(R, Nat)
  BY NatLessThanWellFounded
<1> HIDE DEF R
<1>3. PICK x \in S : \A y \in S : ~(<<y, x>> \in R)
  BY <1>2, WFMin
<1>4. ASSUME NEW y \in S PROVE x <= y
  <2>1. x \in Nat /\ y \in Nat /\ ~(<<y, x>> \in R)
    BY <1>3
  <2>2. ~(y < x)
    BY <1>1, <2>1
  <2> QED
    BY <2>1, <2>2
<1> QED
  BY <1>4 DEF Least

\* Hits in a row, each one after what the hits before it have left: the equation of the recursive
\* definition has a solution for any number of hits, and each of its steps keeps w sound.
LEMMA LandingIsSound ==
    ASSUME NEW w, NEW b \in Blows, Sound(w, b), NEW v \in Units, NEW n \in Damages, NEW hits \in Nat
    PROVE  Sound(Landing(w, hits, v, n), b)
<1> DEFINE Runs(f, k) == f = [i \in 0..k |-> IF i = 0 THEN w ELSE Struck(f[i - 1], v, n, FALSE)]
           Stuck == {k \in Nat : \A f : ~Runs(f, k)}
<1>1. Stuck = {}
  <2> SUFFICES ASSUME Stuck # {} PROVE FALSE
    OBVIOUS
  <2> DEFINE k == Least(Stuck)
  <2>1. k \in Stuck /\ \A j \in Stuck : k <= j
    BY LeastIsLeast
  <2> HIDE DEF k
  <2>2. CASE k = 0
    <3> DEFINE f == [i \in 0..0 |-> w]
    <3>1. Runs(f, 0)
      OBVIOUS
    <3> QED
      BY <2>1, <2>2, <3>1
  <2>3. CASE k # 0
    <3>8. k \in Nat
      BY <2>1
    <3>9. k - 1 \in Nat /\ ~(k <= k - 1)
      BY <2>3, <3>8
    <3>1. k - 1 \in Nat /\ k - 1 \notin Stuck
      <4> HIDE DEF Stuck
      <4> QED
        BY <2>1, <3>9
    <3>2. PICK f : Runs(f, k - 1)
      BY <3>1
    <3>6. \A i \in 0..(k - 1) : f[i] = IF i = 0 THEN w ELSE Struck(f[i - 1], v, n, FALSE)
      BY <3>2
    <3> DEFINE g == [i \in 0..k |-> IF i = k THEN Struck(f[k - 1], v, n, FALSE) ELSE f[i]]
    <3>7. \A i \in 0..k : g[i] = IF i = k THEN Struck(f[k - 1], v, n, FALSE) ELSE f[i]
      OBVIOUS
    <3>4. g = [i \in 0..k |-> g[i]]
      OBVIOUS
    <3> HIDE DEF g
    <3>3. ASSUME NEW i \in 0..k PROVE g[i] = IF i = 0 THEN w ELSE Struck(g[i - 1], v, n, FALSE)
      <4>1. CASE i = k
        <5>1. k - 1 \in 0..k /\ k - 1 # k
          BY <3>8, <3>9
        <5>3. k \in 0..k
          BY <3>8
        <5>2. g[k - 1] = f[k - 1] /\ g[k] = Struck(f[k - 1], v, n, FALSE)
          BY ONLY <3>7, <5>1, <5>3
        <5> QED
          BY <2>3, <4>1, <5>2
      <4>2. CASE i = 0
        <5>1. 0 \in 0..k /\ 0 \in 0..(k - 1) /\ 0 # k
          BY <2>3, <3>8, <3>9
        <5>2. g[0] = f[0]
          BY ONLY <3>7, <5>1
        <5>3. f[0] = w
          BY ONLY <3>6, <5>1
        <5> QED
          BY ONLY <4>2, <5>2, <5>3
      <4>3. CASE i # k /\ i # 0
        <5>1. i \in 0..(k - 1) /\ i - 1 \in 0..k /\ i - 1 # k
          BY <3>8, <4>3
        <5>2. g[i] = f[i] /\ g[i - 1] = f[i - 1]
          BY <3>7, <4>3, <5>1
        <5>3. f[i] = Struck(f[i - 1], v, n, FALSE)
          BY <3>6, <4>3, <5>1
        <5> QED
          BY <4>3, <5>2, <5>3
      <4> QED
        BY <4>1, <4>2, <4>3
    <3>5. Runs(g, k)
      BY <3>3, <3>4
    <3> QED
      BY <2>1, <3>5
  <2> QED
    BY <2>2, <2>3
<1>2. PICK f : Runs(f, hits)
  <2> HIDE DEF Runs
  <2> QED
    BY <1>1
<1> DEFINE after == CHOOSE g : Runs(g, hits)
<1>3. Runs(after, hits)
  BY <1>2
<1>4. Landing(w, hits, v, n) = after[hits]
  BY DEF Landing
<1> DEFINE Wrong == {i \in 0..hits : ~Sound(after[i], b)}
<1> HIDE DEF after
<1>7. \A i \in 0..hits : after[i] = IF i = 0 THEN w ELSE Struck(after[i - 1], v, n, FALSE)
  BY <1>3
<1>8. 0 \in 0..hits /\ \A i \in 1..hits : i \in 0..hits /\ i # 0
  OBVIOUS
<1>5. after[0] = w /\ \A i \in 1..hits : after[i] = Struck(after[i - 1], v, n, FALSE)
  BY ONLY <1>7, <1>8
<1>6. Wrong = {}
  <2> SUFFICES ASSUME Wrong # {} PROVE FALSE
    OBVIOUS
  <2> DEFINE k == Least(Wrong)
  <2>1. k \in Wrong /\ \A j \in Wrong : k <= j
    BY LeastIsLeast
  <2> HIDE DEF k
  <2>2. k # 0
    BY <1>5, <2>1
  <2>3. k - 1 \in 0..hits /\ k - 1 \notin Wrong /\ k \in 1..hits
    BY <2>1, <2>2
  <2>4. Sound(after[k - 1], b)
    BY <2>3
  <2>5. Sound(Struck(after[k - 1], v, n, FALSE), b)
    BY <2>4, StruckIsSound
  <2> QED
    BY <1>5, <2>1, <2>3, <2>5
<1> QED
  BY <1>4, <1>6

\* A credited hit on an enemy is remembered with its whole window.
Recorded(b, v, k) == IF v \in Heroes THEN [b EXCEPT ![v][k] = AssistWindow] ELSE b

LEMMA RememberedPlace ==
    ASSUME NEW m \in Memory, NEW k \in Heroes
    PROVE  \E place \in 1..MaxAssist : Remember(m, k) = [m EXCEPT ![place] = [by |-> k, left |-> AssistWindow]]
<1> DEFINE E == Entries(m, k)
           S == IF E # {} THEN E ELSE Stalest(m)
<1>1. DOMAIN m = 1..MaxAssist
  BY DEF Memory
<1>2. S \subseteq 1..MaxAssist
  BY <1>1 DEF Entries, Stalest
<1>3. Stalest(m) # {}
  <2> DEFINE lefts == {m[i].left : i \in 1..MaxAssist}
  <2>1. \A i \in 1..MaxAssist : m[i].left \in Nat
    BY Roster DEF Memory
  <2>2. lefts \in SUBSET Nat /\ m[1].left \in lefts
    BY <2>1, Roster
  <2>3. Least(lefts) \in lefts /\ \A j \in lefts : Least(lefts) <= j
    BY <2>2, LeastIsLeast
  <2>4. PICK i \in 1..MaxAssist : m[i].left = Least(lefts)
    BY <2>3
  <2>5. \A j \in 1..MaxAssist : m[i].left <= m[j].left
    BY <2>3, <2>4
  <2>6. i \in Stalest(m)
    BY <1>1, <2>4, <2>5 DEF Stalest
  <2> QED
    BY <2>6
<1>4. S \in SUBSET Nat /\ S # {}
  BY <1>2, <1>3
<1>5. Least(S) \in 1..MaxAssist
  BY <1>2, <1>4, LeastIsLeast
<1>6. Remember(m, k) = [m EXCEPT ![Least(S)] = [by |-> k, left |-> AssistWindow]]
  BY DEF Remember
<1> QED
  BY <1>5, <1>6

LEMMA CreditIsSound ==
    ASSUME NEW u, NEW b \in Blows, Bodies(u), Remembered(u, b), NEW v \in Units, NEW k \in Heroes,
           SideOf(u, v) # TeamOf(k)
    PROVE  /\ Recorded(b, v, k) \in Blows
           /\ Sound([unit |-> Credited(u, v, k), deaths |-> <<>>], Recorded(b, v, k))
           /\ Living(u, v) => Living(Credited(u, v, k), v)
           /\ \A o : Spared(u, Credited(u, v, k), o)
<1> DEFINE x == Credited(u, v, k)
           b2 == Recorded(b, v, k)
<1>1. AssistWindow \in -1..AssistWindow /\ AssistWindow \in 0..AssistWindow
  BY Roster
<1>2. b2 \in Blows
  BY <1>1 DEF Blows, Recorded
<1>3. CASE v \in Slots
  <2>1. x = u /\ b2 = b
    BY <1>3, Roster DEF Credited, Recorded
  <2> QED
    BY <1>2, <2>1 DEF Sound, Spared
<1>4. CASE v \in Heroes
  <2>1. v \notin Slots /\ u[v] \in Body /\ u[v].assists \in Memory /\ TeamOf(v) # TeamOf(k)
    BY <1>4, Sides, Roster DEF Bodies, Body
  <2>2. PICK p \in 1..MaxAssist :
          Remember(u[v].assists, k) = [u[v].assists EXCEPT ![p] = [by |-> k, left |-> AssistWindow]]
    BY <2>1, RememberedPlace
  <2> DEFINE m == [u[v].assists EXCEPT ![p] = [by |-> k, left |-> AssistWindow]]
             body == [u[v] EXCEPT !.lastHit = k, !.assists = m]
  <2>3. m \in Memory
    BY <1>1, <2>1 DEF Memory
  <2>4. /\ body \in Body /\ body.lastHit = k /\ body.assists = m
        /\ body.active = u[v].active /\ body.alive = u[v].alive /\ body.cloneOf = u[v].cloneOf
        /\ body.windup = u[v].windup /\ body.target = u[v].target
    <3> HIDE DEF m
    <3> QED
      BY <2>1, <2>3 DEF Body
  <2>5. x = [u EXCEPT ![v] = body]
    BY <2>1, <2>2 DEF Credited, Bodies
  <2>6. \A i \in 1..MaxAssist : m[i] = IF i = p THEN [by |-> k, left |-> AssistWindow] ELSE u[v].assists[i]
    BY <2>1 DEF Memory
  <2> HIDE DEF m, body
  <2>7. x[v] = body /\ (\A e \in Units : e # v => x[e] = u[e]) /\ x \in [Units -> Body]
    BY <2>4, <2>5 DEF Bodies
  <2>8. Bodies(x)
    <3>1. \A e \in Units : x[e].active = u[e].active /\ x[e].alive = u[e].alive /\ x[e].cloneOf = u[e].cloneOf
                           /\ x[e].windup = u[e].windup
      BY <2>4, <2>7
    <3>2. \A c \in Slots : x[c].alive => u[c].alive /\ u[c].cloneOf \in Tylers /\ Living(u, u[c].cloneOf)
      BY <3>1, Roster DEF Bodies
    <3>3. Tylers \subseteq Units /\ Slots \subseteq Units /\ Heroes \subseteq Units
      BY Roster
    <3>4. \A h \in Units : Living(x, h) <=> Living(u, h)
      BY <3>1 DEF Living
    <3>5. \A c \in Slots : x[c].alive => x[c].active /\ x[c].cloneOf \in Tylers /\ Living(x, x[c].cloneOf)
      BY <3>1, <3>2, <3>3, <3>4 DEF Bodies
    <3>6. /\ \A e \in Units : x[e].windup <= WindupOf(e)
          /\ \A h \in Heroes : x[h].active /\ x[h].cloneOf = NoOne
      BY <3>1, <3>3 DEF Bodies
    <3> QED
      BY <2>7, <3>5, <3>6 DEF Bodies
  <2>9. Remembered(x, b2)
    <3> SUFFICES ASSUME NEW h \in Heroes
                 PROVE  /\ x[h].lastHit # NoOne => b2[h][x[h].lastHit] # -1 /\ TeamOf(x[h].lastHit) # TeamOf(h)
                        /\ \A i \in 1..MaxAssist : LET a == x[h].assists[i] IN
                              a.by # NoOne => a.left <= b2[h][a.by] /\ TeamOf(a.by) # TeamOf(h)
      BY DEF Remembered
    <3>1. CASE h # v
      <4>1. x[h] = u[h] /\ b2[h] = b[h]
        BY <1>4, <2>7, <3>1, Roster DEF Recorded, Blows
      <4> QED
        BY <4>1 DEF Remembered
    <3>2. CASE h = v
      <4>1. /\ b[v] \in [Heroes -> -1..AssistWindow]
            /\ b2[v] = [b[v] EXCEPT ![k] = AssistWindow]
        BY <1>4 DEF Recorded, Blows
      <4>2. b2[v][k] = AssistWindow /\ \A j \in Heroes : b[v][j] \in Int /\ b[v][j] <= b2[v][j]
        BY <4>1, Roster
      <4>3. x[v].lastHit = k /\ x[v].assists = m
        BY <2>4, <2>7
      <4>4. ASSUME NEW i \in 1..MaxAssist, m[i].by # NoOne
            PROVE  m[i].left <= b2[v][m[i].by] /\ TeamOf(m[i].by) # TeamOf(v)
        <5>1. CASE i = p
          BY <2>1, <2>6, <4>2, <5>1, Roster
        <5>2. CASE i # p
          <6> DEFINE a == u[v].assists[i]
          <6>1. m[i] = a /\ a.by \in Heroes /\ a.left \in Int
            <7>1. a \in [by : Heroes \cup {NoOne}, left : 0..AssistWindow]
              BY <2>1 DEF Memory
            <7>2. m[i] = a
              BY <2>6, <5>2
            <7>3. a.by # NoOne
              BY <4>4, <7>2
            <7> HIDE DEF a
            <7>4. a.by \in Heroes /\ a.left \in Int
              BY <7>1, <7>3, Roster
            <7> QED
              BY <7>2, <7>4
          <6>2. a.left <= b[v][a.by] /\ TeamOf(a.by) # TeamOf(v)
            BY <1>4, <4>4, <6>1 DEF Remembered
          <6>3. b2[v][a.by] \in Int
            <7>1. b2 \in Blows /\ a.by \in Heroes
              BY <1>2, <6>1
            <7>2. b2[v] \in [Heroes -> -1..AssistWindow]
              BY <1>4, <7>1 DEF Blows
            <7>3. b2[v][a.by] \in -1..AssistWindow
              BY ONLY <7>1, <7>2
            <7>4. -1..AssistWindow \subseteq Int
              OBVIOUS
            <7> QED
              BY ONLY <7>3, <7>4
          <6> HIDE DEF a
          <6> QED
            BY <4>2, <6>1, <6>2, <6>3
        <5> QED
          BY <5>1, <5>2
      <4>5. AssistWindow # -1
        BY Roster
      <4> QED
        BY <2>1, <3>2, <4>2, <4>3, <4>4, <4>5
    <3> QED
      BY <3>1, <3>2
  <2>10. Living(u, v) => Living(x, v)
    BY <2>4, <2>7 DEF Living
  <2>11. \A o : Spared(u, x, o)
    BY <2>4, <2>7, Roster DEF Spared, Living
  <2> QED
    BY <1>2, <2>8, <2>9, <2>10, <2>11 DEF Sound
<1> QED
  BY <1>3, <1>4, Roster

\* A step that changes neither who lives, nor whose they are, nor what they remember.
Alike(u, x) ==
    /\ x \in [Units -> Body]
    /\ \A e \in Units : /\ x[e].active = u[e].active /\ x[e].alive = u[e].alive /\ x[e].cloneOf = u[e].cloneOf
                        /\ x[e].lastHit = u[e].lastHit /\ x[e].assists = u[e].assists
                        /\ x[e].windup <= WindupOf(e)

LEMMA AlikeIsSound ==
    ASSUME NEW u, NEW x, NEW b, Bodies(u), Remembered(u, b), Alike(u, x)
    PROVE  Sound([unit |-> x, deaths |-> <<>>], b)
<1>1. Bodies(x)
  <2>1. x \in [Units -> Body] /\ \A e \in Units : x[e].windup <= WindupOf(e)
    BY DEF Alike
  <2>2. \A h \in Heroes : x[h].active /\ x[h].cloneOf = NoOne
    BY Roster DEF Bodies, Alike
  <2>3. \A e \in Units : Living(u, e) => Living(x, e)
    BY DEF Alike, Living
  <2>4. \A c \in Slots : x[c].alive => /\ x[c].active /\ x[c].cloneOf \in Tylers
                                       /\ Living(x, x[c].cloneOf)
    BY <2>3, Roster DEF Bodies, Alike
  <2> QED
    BY <2>1, <2>2, <2>4 DEF Bodies
<1>2. Remembered(x, b)
  BY Roster DEF Remembered, Alike
<1> QED
  BY <1>1, <1>2 DEF Sound

LEMMA Facts ==
    ASSUME CombatIInv
    PROVE  /\ Bodies(unit) /\ Remembered(unit, blow) /\ blow \in Blows /\ Sound(Calm, blow)
           /\ \A e \in Units : unit[e] \in Body
BY DEF CombatIInv, Sound, Calm, Bodies

LEMMA FoeFacts ==
    ASSUME CombatIInv, NEW e \in Units, Living(unit, e), NEW f \in Enemies(unit, e)
    PROVE  /\ f \in Units /\ Living(unit, f) /\ RewardOwner(unit, e) \in Heroes
           /\ RewardOwner(unit, f) # RewardOwner(unit, e)
           /\ SideOf(unit, f) # TeamOf(RewardOwner(unit, e))
BY Facts, Sides DEF Enemies

\* What orders leave alone.
LEMMA OrdersKeep ==
    ASSUME CombatIInv, Ordering, UNCHANGED <<shots, stage, blow>>,
           Sound([unit |-> unit', deaths |-> deaths'], blow)
    PROVE  CombatIInv'
<1>1. StageOK'
  BY DEF CombatIInv, StageOK
<1>2. ShotsOK'
  BY DEF CombatIInv, ShotsOK
<1>3. Sound([unit |-> unit, deaths |-> deaths], blow)'
  OBVIOUS
<1> QED
  BY <1>1, <1>2, <1>3 DEF CombatIInv, Ordering

LEMMA CastsKeep ==
    ASSUME CombatIInv, NEW h \in Heroes, CastAtFoe(h) \/ (h \in Tylers /\ CastShuffle(h))
    PROVE  CombatIInv'
<1>1. Ordering /\ Living(unit, h) /\ UNCHANGED <<shots, stage, blow>> /\ h \in Units
  BY Roster DEF CastAtFoe, CastShuffle
<1>2. CASE CastAtFoe(h)
  <2>1. PICK f \in Enemies(unit, h) : \E n \in Damages, saved \in BOOLEAN : Becomes(Struck(Calm, f, n, saved))
    BY <1>2 DEF CastAtFoe
  <2>2. PICK n \in Damages, saved \in BOOLEAN : Becomes(Struck(Calm, f, n, saved))
    BY <2>1
  <2> DEFINE w == Struck(Calm, f, n, saved)
  <2>3. Sound(w, blow)
    BY <1>1, <2>1, Facts, FoeFacts, StruckIsSound
  <2> HIDE DEF w
  <2>4. unit' = w.unit /\ deaths' = w.deaths
    BY <2>2 DEF Becomes, w
  <2>5. Sound([unit |-> unit', deaths |-> deaths'], blow)
    BY <2>3, <2>4 DEF Sound
  <2> QED
    BY <1>1, <2>5, OrdersKeep
<1>3. CASE h \in Tylers /\ CastShuffle(h)
  <2>1. PICK f \in Enemies(unit, h), n \in Damages :
            Becomes(Landing(Calm, 1 + Cardinality(Army(unit, h)), f, n))
    BY <1>3 DEF CastShuffle
  <2> DEFINE hits == 1 + Cardinality(Army(unit, h))
             w == Landing(Calm, hits, f, n)
  <2>2. IsFiniteSet(Army(unit, h))
    <3>1. Army(unit, h) \subseteq Units
      BY Roster DEF Army
    <3> QED
      BY <3>1, CombatRoster, FS_Subset
  <2>3. hits \in Nat
    BY <2>2, FS_CardinalityType
  <2> HIDE DEF hits
  <2>4. Sound(w, blow)
    BY <1>1, <2>3, Facts, FoeFacts, LandingIsSound
  <2>5. unit' = w.unit /\ deaths' = w.deaths
    BY <2>1 DEF Becomes, hits
  <2> HIDE DEF w
  <2>6. Sound([unit |-> unit', deaths |-> deaths'], blow)
    BY <2>4, <2>5 DEF Sound
  <2> QED
    BY <1>1, <2>6, OrdersKeep
<1> QED
  BY <1>2, <1>3

\* New clones stand up beside a Tyler who lives: his own hit, if there was one, was on the other side.
LEMMA DivideKeeps ==
    ASSUME CombatIInv, NEW t \in Tylers, CastDivide(t)
    PROVE  CombatIInv'
<1>1. Ordering /\ Living(unit, t) /\ UNCHANGED <<shots, stage, blow>> /\ t \in Units /\ t \in Heroes
  BY Roster DEF CastDivide
<1>2. Sound(Calm, blow) /\ Living(Calm.unit, t)
  BY <1>1, Facts DEF Calm
<1>3. PICK w : Spawned(t, w) /\ Sound(w, blow) /\ Living(w.unit, t)
  <2>1. CASE Spawned(t, Calm)
    BY <1>2, <2>1
  <2>2. ASSUME NEW f \in Enemies(unit, t), NEW n \in Damages, Spawned(t, Struck(Calm, f, n, FALSE))
        PROVE  Sound(Struck(Calm, f, n, FALSE), blow) /\ Living(Struck(Calm, f, n, FALSE).unit, t)
    <3>1. f \in Units /\ RewardOwner(unit, f) # t
      BY <1>1, FoeFacts, Facts, Sides
    <3>2. /\ Sound(Struck(Calm, f, n, FALSE), blow)
          /\ Spared(Calm.unit, Struck(Calm, f, n, FALSE).unit, RewardOwner(Calm.unit, f))
      BY <1>2, <3>1, Facts, StruckIsSound
    <3>3. Calm.unit = unit
      BY DEF Calm
    <3> QED
      BY <1>1, <3>1, <3>2, <3>3 DEF Spared
  <2>3. \/ Spawned(t, Calm)
        \/ \E f \in Enemies(unit, t), n \in Damages : Spawned(t, Struck(Calm, f, n, FALSE))
    BY DEF CastDivide
  <2> QED
    BY <2>1, <2>2, <2>3
<1> DEFINE u == w.unit
           x == unit'
           new == FreeSlots(u)
<1>4. Bodies(u) /\ Remembered(u, blow) /\ w.deaths \in Seq(Death) /\ Living(u, t)
  BY <1>3 DEF Sound
<1>5. /\ x = [e \in Units |-> IF e \in new THEN NewClone(t) ELSE u[e]] /\ deaths' = w.deaths
  BY <1>3 DEF Spawned, Becomes
<1>6. new \subseteq Slots /\ \A c \in new : ~u[c].active
  BY DEF FreeSlots
<1>7. NewClone(t) \in Body /\ NewClone(t).active /\ NewClone(t).cloneOf = t /\ NewClone(t).windup = 0
  <2>1. NewClone(t) \in Body
    BY NewBodies
  <2> QED
    BY <2>1 DEF NewClone, Zeroed
<1> HIDE DEF u, x, new
<1>8. \A e \in Units : x[e] = IF e \in new THEN NewClone(t) ELSE u[e]
  BY <1>5
<1>9. \A h \in Heroes : h \in Units /\ x[h] = u[h]
  BY <1>6, <1>8, Roster
<1>10. Bodies(x)
  <2>1. x \in [Units -> Body]
    BY <1>4, <1>5, <1>7 DEF Bodies
  <2>2. \A e \in Units : x[e].windup <= WindupOf(e)
    BY <1>4, <1>7, <1>8, Roster DEF Bodies, WindupOf
  <2>3. ASSUME NEW c \in Slots, x[c].alive
        PROVE  x[c].active /\ x[c].cloneOf \in Tylers /\ Living(x, x[c].cloneOf)
    <3>1. CASE c \in new
      <4>1. x[c] = NewClone(t)
        BY <1>8, <3>1, Roster
      <4>2. x[t] = u[t]
        BY <1>1, <1>9
      <4> QED
        BY <1>4, <1>7, <4>1, <4>2 DEF Living
    <3>2. CASE c \notin new
      <4>1. x[c] = u[c]
        BY <1>8, <3>2, Roster
      <4>2. u[c].active /\ u[c].cloneOf \in Tylers /\ Living(u, u[c].cloneOf)
        BY <1>4, <2>3, <4>1 DEF Bodies
      <4>3. x[u[c].cloneOf] = u[u[c].cloneOf]
        BY <1>9, <4>2, Roster
      <4> QED
        BY <4>1, <4>2, <4>3 DEF Living
    <3> QED
      BY <3>1, <3>2
  <2> QED
    BY <1>4, <1>9, <2>1, <2>2, <2>3 DEF Bodies
<1>11. Remembered(x, blow)
  BY <1>4, <1>9 DEF Remembered
<1>12. ASSUME NEW i \in DOMAIN w.deaths PROVE Earned(w.deaths[i], blow) /\ FellAlone(x, w.deaths[i])
  <2>1. Earned(w.deaths[i], blow) /\ FellAlone(u, w.deaths[i])
    BY <1>3 DEF Sound, u
  <2> DEFINE o == w.deaths[i].owner
  <2>2. t # o
    BY <1>1, <1>4, <2>1, Sides DEF FellAlone
  <2>3. ASSUME NEW e \in Units, Living(x, e) PROVE RewardOwner(x, e) # o
    <3>1. CASE e \in new
      BY <1>7, <1>8, <2>2, <3>1, Roster DEF RewardOwner
    <3>2. CASE e \notin new
      <4>1. x[e] = u[e]
        BY <1>8, <3>2
      <4> QED
        BY <2>1, <2>3, <4>1 DEF FellAlone, Living, RewardOwner
    <3> QED
      BY <3>1, <3>2
  <2> QED
    BY <2>1, <2>3 DEF FellAlone
<1>13. Sound([unit |-> x, deaths |-> w.deaths], blow)
  BY <1>4, <1>10, <1>11, <1>12 DEF Sound
<1> QED
  BY <1>1, <1>5, <1>13, OrdersKeep DEF x

LEMMA LocksKeep ==
    ASSUME CombatIInv, NEW h \in Heroes,
           (\E f \in Heroes : SetAttackTarget(h, f)) \/ SetMoveTarget(h) \/ VanishFor(h)
    PROVE  CombatIInv'
<1>1. Ordering /\ UNCHANGED <<shots, stage, blow>> /\ deaths' = <<>> /\ h \in Units
  BY Roster DEF SetAttackTarget, SetMoveTarget, VanishFor, Undisturbed
<1>2. \A e \in Units : unit[e] \in Body /\ unit[e].windup <= WindupOf(e) /\ WindupOf(e) \in Nat
  BY Facts, Roster DEF Bodies, WindupOf
<1>3. PICK m \in Body : /\ m.active = unit[h].active /\ m.alive = unit[h].alive /\ m.cloneOf = unit[h].cloneOf
                        /\ m.lastHit = unit[h].lastHit /\ m.assists = unit[h].assists
                        /\ m.windup <= WindupOf(h) /\ unit' = [unit EXCEPT ![h] = m]
  <2>1. CASE \E f \in Heroes : SetAttackTarget(h, f)
    <3>1. PICK f \in Heroes : unit' = [unit EXCEPT ![h].target = f]
      BY <2>1 DEF SetAttackTarget
    <3> DEFINE m == [unit[h] EXCEPT !.target = f]
    <3>2. m \in Body
      BY <1>1, <1>2 DEF Body
    <3>3. unit' = [unit EXCEPT ![h] = m]
      BY <3>1
    <3> QED
      BY <1>1, <1>2, <3>2, <3>3 DEF Body
  <2>2. CASE SetMoveTarget(h)
    <3>1. PICK n \in {0, unit[h].windup} : unit' = [unit EXCEPT ![h].target = NoOne, ![h].windup = n]
      BY <2>2 DEF SetMoveTarget
    <3> DEFINE m == [unit[h] EXCEPT !.target = NoOne, !.windup = n]
    <3>2. n \in Nat /\ n <= WindupOf(h)
      BY <1>1, <1>2 DEF Body
    <3>3. m \in Body
      BY <1>1, <1>2, <3>2 DEF Body
    <3>4. unit' = [unit EXCEPT ![h] = m]
      BY <3>1
    <3> QED
      BY <1>1, <1>2, <3>2, <3>3, <3>4 DEF Body
  <2>3. CASE VanishFor(h)
    <3>1. unit' = [unit EXCEPT ![h].hidden = TRUE]
      BY <2>3 DEF VanishFor
    <3> DEFINE m == [unit[h] EXCEPT !.hidden = TRUE]
    <3>2. m \in Body
      BY <1>1, <1>2 DEF Body
    <3>3. unit' = [unit EXCEPT ![h] = m]
      BY <3>1
    <3> QED
      BY <1>1, <1>2, <3>2, <3>3 DEF Body
  <2> QED
    BY <2>1, <2>2, <2>3
<1>4. Alike(unit, unit')
  BY <1>1, <1>2, <1>3, Facts DEF Alike, Bodies
<1>5. Sound([unit |-> unit', deaths |-> deaths'], blow)
  BY <1>1, <1>4, Facts, AlikeIsSound
<1> QED
  BY <1>1, <1>5, OrdersKeep

\* The dead come back remembering nobody.
LEMMA RespawnsKeep == CombatIInv /\ TickRespawns => CombatIInv'
<1> SUFFICES ASSUME CombatIInv, TickRespawns PROVE CombatIInv'
  OBVIOUS
<1>1. PICK wave \in BOOLEAN :
        LET back == IF wave THEN {h \in Heroes : ~unit[h].alive} ELSE {} IN
        /\ unit' = [e \in Units |-> IF e \in back THEN Reborn(e) ELSE unit[e]]
        /\ blow' = [h \in Heroes |-> IF h \in back THEN Unhurt ELSE blow[h]]
  BY DEF TickRespawns
<1> DEFINE back == IF wave THEN {h \in Heroes : ~unit[h].alive} ELSE {}
           x == unit'
           b == blow'
<1>2. /\ x = [e \in Units |-> IF e \in back THEN NewHero ELSE unit[e]]
      /\ b = [h \in Heroes |-> IF h \in back THEN Unhurt ELSE blow[h]]
      /\ back \subseteq Heroes /\ \A h \in back : ~unit[h].alive
  BY <1>1 DEF Reborn
<1> HIDE DEF back, x, b
<1>3. /\ NewHero \in Body /\ NewHero.active /\ NewHero.cloneOf = NoOne /\ NewHero.windup = 0
      /\ NewHero.lastHit = NoOne /\ NewHero.assists = Blank
      /\ \A i \in 1..MaxAssist : Blank[i].by = NoOne
  <2>1. \A i \in 1..MaxAssist : Blank[i].by = NoOne
    BY DEF Blank, NoAssist
  <2> QED
    BY <2>1, NewBodies DEF NewHero
<1>4. Unhurt \in [Heroes -> -1..AssistWindow] /\ b \in Blows
  <2>1. Unhurt \in [Heroes -> -1..AssistWindow]
    BY Roster DEF Unhurt
  <2> QED
    BY <1>2, <2>1, Facts DEF Blows
<1>5. \A e \in Units : x[e] = IF e \in back THEN NewHero ELSE unit[e]
  BY <1>2
<1>6. Bodies(x)
  <2>1. x \in [Units -> Body]
    BY <1>2, <1>3, Facts DEF Bodies
  <2>2. \A e \in Units : x[e].windup <= WindupOf(e)
    BY <1>3, <1>5, Facts, Roster DEF Bodies, WindupOf
  <2>3. \A h \in Heroes : x[h].active /\ x[h].cloneOf = NoOne
    BY <1>3, <1>5, Facts, Roster DEF Bodies
  <2>4. ASSUME NEW c \in Slots, x[c].alive
        PROVE  x[c].active /\ x[c].cloneOf \in Tylers /\ Living(x, x[c].cloneOf)
    <3>1. x[c] = unit[c]
      BY <1>2, <1>5, Roster
    <3>2. unit[c].active /\ unit[c].cloneOf \in Tylers /\ Living(unit, unit[c].cloneOf)
      BY <2>4, <3>1, Facts DEF Bodies
    <3>3. x[unit[c].cloneOf] = unit[unit[c].cloneOf]
      BY <1>2, <1>5, <3>2, Roster DEF Living
    <3> QED
      BY <3>1, <3>2, <3>3 DEF Living
  <2> QED
    BY <2>1, <2>2, <2>3, <2>4 DEF Bodies
<1>7. Remembered(x, b)
  <2> SUFFICES ASSUME NEW h \in Heroes
               PROVE  /\ x[h].lastHit # NoOne => b[h][x[h].lastHit] # -1 /\ TeamOf(x[h].lastHit) # TeamOf(h)
                      /\ \A i \in 1..MaxAssist : LET a == x[h].assists[i] IN
                            a.by # NoOne => a.left <= b[h][a.by] /\ TeamOf(a.by) # TeamOf(h)
    BY DEF Remembered
  <2>1. CASE h \in back
    <3>1. x[h] = NewHero
      BY <1>5, <2>1, Roster
    <3> QED
      BY <1>3, <3>1
  <2>2. CASE h \notin back
    <3>1. x[h] = unit[h] /\ b[h] = blow[h]
      BY <1>2, <1>5, <2>2, Roster
    <3> QED
      BY <3>1, Facts DEF Remembered
  <2> QED
    BY <2>1, <2>2
<1>8. deaths' = <<>> /\ stage' = <<"swing", {}>> /\ shots' = shots
  BY DEF TickRespawns
<1>9. Sound([unit |-> x, deaths |-> <<>>], b)
  BY <1>6, <1>7 DEF Sound
<1>10. StageOK' /\ ShotsOK' /\ stage'[1] # "strike"
  BY <1>8 DEF CombatIInv, StageOK, ShotsOK
<1> QED
  BY <1>4, <1>8, <1>9, <1>10 DEF CombatIInv, x, b

\* The locks that outlive the check are on enemies.
LEMMA SwingsKeep == CombatIInv /\ BeginSwings => CombatIInv'
<1> SUFFICES ASSUME CombatIInv, BeginSwings PROVE CombatIInv'
  OBVIOUS
<1> DEFINE Swung(swing) ==
              /\ unit' = [e \in Units |->
                   [unit[e] EXCEPT !.windup = IF unit[e].alive THEN Down(swing[e]) ELSE @,
                                   !.target = IF e \in Slots \/ ~unit[e].alive \/ LockHolds(unit, e) THEN @ ELSE NoOne]]
              /\ stage' = <<"strike", {e \in Units : unit[e].alive /\ swing[e] = 1}>>
<1>1. PICK S \in SUBSET {e \in Units : MaySwing(e)},
           stunned \in SUBSET {e \in Units : Living(unit, e) /\ unit[e].windup > 0} :
        Swung([e \in Units |-> IF e \in S THEN WindupOf(e) ELSE IF e \in stunned THEN 0 ELSE unit[e].windup])
  BY DEF BeginSwings
<1> DEFINE swing == [e \in Units |-> IF e \in S THEN WindupOf(e) ELSE IF e \in stunned THEN 0 ELSE unit[e].windup]
<1>2. \A e \in Units : unit[e] \in Body /\ unit[e].windup <= WindupOf(e) /\ WindupOf(e) \in Nat
  BY Facts, Roster DEF Bodies, WindupOf
<1>3. \A e \in Units : /\ Down(swing[e]) \in Nat /\ Down(swing[e]) <= WindupOf(e)
                       /\ unit[e].windup \in Nat
  BY <1>2 DEF Down, Body
<1> HIDE DEF swing
<1> DEFINE Windup(e) == IF unit[e].alive THEN Down(swing[e]) ELSE unit[e].windup
           Target(e) == IF e \in Slots \/ ~unit[e].alive \/ LockHolds(unit, e) THEN unit[e].target ELSE NoOne
           Swinging(e) == [unit[e] EXCEPT !.windup = Windup(e), !.target = Target(e)]
<1>4. unit' = [e \in Units |-> Swinging(e)]
  BY <1>1 DEF swing
<1>5. stage' = <<"strike", {e \in Units : unit[e].alive /\ swing[e] = 1}>>
  BY <1>1 DEF swing
<1>6. \A e \in Units : Windup(e) \in Nat /\ Windup(e) <= WindupOf(e) /\ Target(e) \in Heroes \cup {NoOne}
  BY <1>2, <1>3 DEF Body
<1> HIDE DEF Windup, Target
<1>7. \A e \in Units : /\ Swinging(e) \in Body
                       /\ Swinging(e).active = unit[e].active /\ Swinging(e).alive = unit[e].alive
                       /\ Swinging(e).cloneOf = unit[e].cloneOf
                       /\ Swinging(e).lastHit = unit[e].lastHit /\ Swinging(e).assists = unit[e].assists
                       /\ Swinging(e).windup <= WindupOf(e) /\ Swinging(e).target = Target(e)
  BY <1>2, <1>6 DEF Body
<1> HIDE DEF Swinging
<1>8. Alike(unit, unit')
  BY <1>4, <1>7 DEF Alike
<1>9. deaths' = <<>> /\ shots' = shots /\ blow' = blow
  BY DEF BeginSwings
<1>10. Sound([unit |-> unit', deaths |-> <<>>], blow)
  BY <1>8, Facts, AlikeIsSound
<1>11. ASSUME NEW e \in Ranged, unit'[e].alive PROVE AimedAtFoe(e)'
  <2>1. e \in Units /\ e \notin Slots /\ e \in Heroes
    BY Roster
  <2>2. unit'[e].target = Target(e) /\ unit[e].alive
    BY <1>4, <1>7, <1>11, <2>1
  <2>3. ASSUME Target(e) # NoOne PROVE TeamOf(Target(e)) # TeamOf(e)
    <3>1. LockHolds(unit, e) /\ Target(e) = unit[e].target
      BY <2>1, <2>2, <2>3 DEF Target
    <3>2. SideOf(unit, unit[e].target) # SideOf(unit, e) /\ unit[e].target \in Heroes
      BY <1>2, <2>1, <2>3, <3>1 DEF LockHolds, Body
    <3> QED
      BY <2>1, <3>1, <3>2, Sides, Facts
  <2> QED
    BY <2>2, <2>3 DEF AimedAtFoe
<1>12. StageOK' /\ ShotsOK'
  BY <1>5, <1>9 DEF CombatIInv, StageOK, ShotsOK
<1> QED
  BY <1>9, <1>10, <1>11, <1>12, Facts DEF CombatIInv

\* A hit that is credited to a hero of the other side.
LEMMA CreditedHit ==
    ASSUME CombatIInv, NEW f \in Units, Hittable(unit, f), NEW k \in Heroes, SideOf(unit, f) # TeamOf(k),
           NEW n \in Damages, NEW saved \in BOOLEAN,
           Becomes(Hurt([unit |-> Credited(unit, f, k), deaths |-> <<>>], f, n, saved)), blow' = Felt(f, k)
    PROVE  /\ Sound([unit |-> unit', deaths |-> deaths'], blow') /\ blow' \in Blows
           /\ \A h \in Heroes : unit'[h].target = unit[h].target /\ (unit'[h].alive => unit[h].alive)
<1> DEFINE c == Credited(unit, f, k)
           w == [unit |-> c, deaths |-> <<>>]
           z == Hurt(w, f, n, saved)
<1>1. blow' = Recorded(blow, f, k)
  BY DEF Felt, Recorded
<1>2. Living(unit, f)
  BY Facts, Roster DEF Hittable, Living, Bodies
<1>3. blow' \in Blows /\ Sound(w, blow') /\ Living(c, f) /\ Spared(unit, c, NoOne)
  BY <1>1, <1>2, CreditIsSound, Facts
<1>4. w.unit = c
  OBVIOUS
<1> HIDE DEF c, w
<1>5. Sound(z, blow') /\ Spared(c, z.unit, RewardOwner(c, f))
  BY <1>3, <1>4, HurtIsSound
<1>6. unit' = z.unit /\ deaths' = z.deaths
  BY DEF Becomes, w, c
<1> HIDE DEF z
<1>7. Sound([unit |-> unit', deaths |-> deaths'], blow')
  BY <1>5, <1>6 DEF Sound
<1>8. \A h \in Heroes : unit'[h].target = unit[h].target /\ (unit'[h].alive => unit[h].alive)
  BY <1>3, <1>5, <1>6 DEF Spared
<1> QED
  BY <1>3, <1>7, <1>8

LEMMA NothingIsSound ==
    ASSUME CombatIInv, Nothing
    PROVE  /\ Sound([unit |-> unit', deaths |-> deaths'], blow') /\ blow' \in Blows
           /\ unit' = unit /\ blow' = blow
BY Facts DEF Nothing, Sound

LEMMA StrikesKeep == CombatIInv /\ (Strike \/ StrikesOver) => CombatIInv'
<1>1. ASSUME CombatIInv, StrikesOver PROVE CombatIInv'
  <2>1. Nothing /\ shots' = shots /\ stage' = <<"kits", Heroes>>
    BY <1>1 DEF StrikesOver
  <2>2. StageOK' /\ ShotsOK' /\ stage'[1] # "strike"
    BY <1>1, <2>1, Roster DEF CombatIInv, StageOK, ShotsOK
  <2> QED
    BY <1>1, <2>1, <2>2, NothingIsSound DEF CombatIInv
<1>2. ASSUME CombatIInv, Strike PROVE CombatIInv'
  <2> DEFINE e == Least(stage[2])
  <2>1. PICK S \in SUBSET Units : stage = <<"strike", S>> /\ S # {}
    BY <1>2 DEF CombatIInv, StageOK, Strike
  <2>2. e \in S /\ e \in Units
    BY <2>1, LeastIsLeast, Roster
  <2>3. stage' = <<"strike", S \ {e}>>
    BY <1>2, <2>1 DEF Strike
  <2>4. StageOK'
    BY <2>3 DEF StageOK
  <2>5. \A r \in Ranged : r \in Heroes /\ (unit[r].alive => AimedAtFoe(r))
    BY <1>2, <2>1, Roster DEF CombatIInv
  <2>6. \/ Nothing /\ UNCHANGED shots
        \/ Living(unit, e) /\ e \in Ranged /\ Fire(e)
        \/ Living(unit, e) /\ e \notin Ranged /\ Melee(e)
    BY <1>2 DEF Strike
  <2> HIDE DEF e
  <2>7. CASE Nothing /\ UNCHANGED shots
    <3>1. ShotsOK' /\ \A r \in Ranged : unit'[r].alive => AimedAtFoe(r)'
      BY <1>2, <2>5, <2>7 DEF Nothing, ShotsOK, CombatIInv, AimedAtFoe
    <3> QED
      BY <1>2, <2>4, <2>7, <3>1, NothingIsSound DEF CombatIInv
  <2>8. CASE Living(unit, e) /\ e \in Ranged /\ Fire(e)
    <3>1. Nothing /\ unit[e].target # NoOne /\ unit[e].target \in Heroes
      BY <1>2, <2>2, <2>8, Facts DEF Fire, Body
    <3>2. TeamOf(unit[e].target) # TeamOf(e)
      BY <2>5, <2>8, <3>1 DEF AimedAtFoe, Living
    <3>3. ShotsOK'
      <4> DEFINE shot == [by |-> e, at |-> unit[e].target]
      <4>1. CASE Unused = {}
        BY <1>2, <2>8, <4>1 DEF Fire, ShotsOK, CombatIInv
      <4>2. CASE Unused # {}
        <5>1. Least(Unused) \in 1..MaxShots
          BY <4>2, LeastIsLeast, Roster DEF Unused
        <5>2. shots' = [shots EXCEPT ![Least(Unused)] = shot]
          BY <2>8, <4>2 DEF Fire
        <5>3. shot \in [by : Ranged, at : Heroes] /\ shot.by = e /\ shot.at = unit[e].target
          BY <2>8, <3>1
        <5> HIDE DEF shot
        <5> QED
          BY <1>2, <3>2, <5>1, <5>2, <5>3 DEF ShotsOK, CombatIInv
      <4> QED
        BY <4>1, <4>2
    <3>4. \A r \in Ranged : unit'[r].alive => AimedAtFoe(r)'
      BY <2>5, <3>1 DEF Nothing, AimedAtFoe
    <3> QED
      BY <1>2, <2>4, <3>1, <3>3, <3>4, NothingIsSound DEF CombatIInv
  <2>9. CASE Living(unit, e) /\ e \notin Ranged /\ Melee(e)
    <3> DEFINE k == RewardOwner(unit, e)
    <3>1. PICK f \in Enemies(unit, e), n \in Damages, saved \in BOOLEAN :
            /\ Hittable(unit, f)
            /\ Becomes(Hurt([unit |-> Credited(unit, f, k), deaths |-> <<>>], f, n, saved))
            /\ blow' = Felt(f, k)
      BY <2>9 DEF Melee
    <3>2. f \in Units /\ k \in Heroes /\ SideOf(unit, f) # TeamOf(k)
      BY <1>2, <2>2, <2>9, FoeFacts
    <3> HIDE DEF k
    <3>3. /\ Sound([unit |-> unit', deaths |-> deaths'], blow') /\ blow' \in Blows
          /\ \A h \in Heroes : unit'[h].target = unit[h].target /\ (unit'[h].alive => unit[h].alive)
      BY <1>2, <3>1, <3>2, CreditedHit
    <3>4. shots' = shots
      BY <2>9 DEF Melee
    <3>5. ShotsOK'
      BY <1>2, <3>4 DEF ShotsOK, CombatIInv
    <3>6. \A r \in Ranged : unit'[r].alive => AimedAtFoe(r)'
      BY <2>5, <3>3 DEF AimedAtFoe
    <3> QED
      BY <2>4, <3>3, <3>5, <3>6 DEF CombatIInv
  <2> QED
    BY <2>6, <2>7, <2>8, <2>9
<1> QED
  BY <1>1, <1>2

\* A tick of the timers: what is left of a memory runs down with the blow it stands for.
LEMMA KitIsSound ==
    ASSUME CombatIInv, NEW h \in Heroes, NEW shown \in {unit[h].hidden, FALSE}, NEW b,
           b = [blow EXCEPT ![h] = Faded(blow[h])]
    PROVE  /\ b \in Blows /\ Sound([unit |-> KitTicked(h, shown), deaths |-> <<>>], b)
           /\ \A e \in Units : /\ Living(KitTicked(h, shown), e) = Living(unit, e)
                               /\ KitTicked(h, shown)[e].alive = unit[e].alive
<1> DEFINE x == KitTicked(h, shown)
           m == Forget(unit[h].assists)
           body == [unit[h] EXCEPT !.assists = m, !.hidden = shown]
<1>1. h \in Units /\ unit[h] \in Body /\ unit[h].assists \in Memory /\ blow[h] \in [Heroes -> -1..AssistWindow]
  <2>1. h \in Units /\ unit[h] \in Body
    BY Roster, Facts
  <2> QED
    BY <2>1, Facts DEF Body, Blows
<1>2. /\ m \in Memory
      /\ \A i \in 1..MaxAssist : m[i].by = unit[h].assists[i].by /\ m[i].left = Down(unit[h].assists[i].left)
  <2> DEFINE a(i) == unit[h].assists[i]
  <2>1. \A i \in 1..MaxAssist : a(i) \in [by : Heroes \cup {NoOne}, left : 0..AssistWindow]
    BY <1>1 DEF Memory
  <2>2. m = [i \in 1..MaxAssist |-> [a(i) EXCEPT !.left = Down(@)]]
    BY <1>1 DEF Forget, Memory
  <2> HIDE DEF a, m
  <2>3. \A i \in 1..MaxAssist : Down(a(i).left) \in 0..AssistWindow
    BY <2>1, Roster DEF Down
  <2> QED
    BY <2>1, <2>2, <2>3 DEF Memory, a
<1>3. /\ Faded(blow[h]) \in [Heroes -> -1..AssistWindow]
      /\ \A k \in Heroes : Faded(blow[h])[k] = Down(blow[h][k]) /\ blow[h][k] \in Int
  <2>1. \A k \in Heroes : blow[h][k] \in -1..AssistWindow
    BY <1>1
  <2>2. \A k \in Heroes : Down(blow[h][k]) \in -1..AssistWindow /\ blow[h][k] \in Int
    BY <2>1, Roster DEF Down
  <2> QED
    BY <2>2 DEF Faded
<1>4. b \in Blows /\ b[h] = Faded(blow[h]) /\ \A g \in Heroes : g # h => b[g] = blow[g]
  BY <1>3, Facts DEF Blows
<1> HIDE DEF m
<1>5. /\ body \in Body /\ body.active = unit[h].active /\ body.alive = unit[h].alive
      /\ body.cloneOf = unit[h].cloneOf /\ body.lastHit = unit[h].lastHit /\ body.assists = m
      /\ body.windup = unit[h].windup /\ body.target = unit[h].target
  BY <1>1, <1>2 DEF Body
<1>6. x = [unit EXCEPT ![h] = body]
  BY <1>1 DEF KitTicked, m
<1> HIDE DEF body, x
<1>7. x[h] = body /\ (\A e \in Units : e # h => x[e] = unit[e]) /\ x \in [Units -> Body]
  BY <1>1, <1>5, <1>6, Facts DEF Bodies
<1>8. \A e \in Units : Living(x, e) = Living(unit, e) /\ x[e].alive = unit[e].alive
  BY <1>5, <1>7 DEF Living
<1>9. Bodies(x)
  BY <1>5, <1>7, <1>8, Facts, Roster DEF Bodies
<1>10. Remembered(x, b)
  <2> SUFFICES ASSUME NEW g \in Heroes
               PROVE  /\ x[g].lastHit # NoOne => b[g][x[g].lastHit] # -1 /\ TeamOf(x[g].lastHit) # TeamOf(g)
                      /\ \A i \in 1..MaxAssist : LET a == x[g].assists[i] IN
                            a.by # NoOne => a.left <= b[g][a.by] /\ TeamOf(a.by) # TeamOf(g)
    BY DEF Remembered
  <2>1. CASE g # h
    <3>1. x[g] = unit[g] /\ b[g] = blow[g]
      BY <1>4, <1>7, <2>1, Roster
    <3> QED
      BY <3>1, Facts DEF Remembered
  <2>2. CASE g = h
    <3>1. x[h].lastHit = unit[h].lastHit /\ x[h].assists = m
      BY <1>5, <1>7
    <3>2. unit[h].lastHit \in Heroes \cup {NoOne}
      BY <1>1 DEF Body
    <3>3. ASSUME unit[h].lastHit # NoOne
          PROVE  b[h][unit[h].lastHit] # -1 /\ TeamOf(unit[h].lastHit) # TeamOf(h)
      <4>1. unit[h].lastHit \in Heroes /\ blow[h][unit[h].lastHit] # -1 /\ TeamOf(unit[h].lastHit) # TeamOf(h)
        BY <3>2, <3>3, Facts DEF Remembered
      <4> QED
        BY <1>3, <1>4, <4>1 DEF Down
    <3>4. ASSUME NEW i \in 1..MaxAssist, m[i].by # NoOne
          PROVE  m[i].left <= b[h][m[i].by] /\ TeamOf(m[i].by) # TeamOf(h)
      <4> DEFINE a == unit[h].assists[i]
      <4>1. a.by \in Heroes \cup {NoOne} /\ a.left \in Int /\ m[i].by = a.by /\ m[i].left = Down(a.left)
        <5>1. a \in [by : Heroes \cup {NoOne}, left : 0..AssistWindow]
          BY <1>1 DEF Body, Memory
        <5>2. m[i].by = a.by /\ m[i].left = Down(a.left)
          BY <1>2
        <5> HIDE DEF a
        <5> QED
          BY <5>1, <5>2, Roster
      <4>2. a.by \in Heroes /\ a.left <= blow[h][a.by] /\ TeamOf(a.by) # TeamOf(h)
        BY <3>4, <4>1, Facts DEF Remembered
      <4> HIDE DEF a
      <4>3. b[h][a.by] = Down(blow[h][a.by]) /\ blow[h][a.by] \in Int
        BY <1>3, <1>4, <4>2
      <4> QED
        BY <4>1, <4>2, <4>3 DEF Down
    <3> QED
      BY <2>2, <3>1, <3>3, <3>4
  <2> QED
    BY <2>1, <2>2
<1>11. Sound([unit |-> x, deaths |-> <<>>], b)
  BY <1>9, <1>10 DEF Sound
<1> QED
  BY <1>4, <1>8, <1>11 DEF x

LEMMA KitsKeep == CombatIInv /\ TickKit => CombatIInv'
<1> SUFFICES ASSUME CombatIInv, TickKit PROVE CombatIInv'
  OBVIOUS
<1> DEFINE h == Least(stage[2])
<1>1. PICK S \in SUBSET Heroes : stage = <<"kits", S>> /\ S # {}
  BY DEF CombatIInv, StageOK, TickKit
<1>2. h \in S /\ h \in Heroes /\ h \in Units
  BY <1>1, LeastIsLeast, Roster
<1>3. stage' = IF S = {h} THEN <<"shots", 1..MaxShots>> ELSE <<"kits", S \ {h}>>
  BY <1>1 DEF TickKit
<1>4. StageOK' /\ stage'[1] # "strike"
  <2>1. 1..MaxShots # {}
    BY Roster
  <2>2. CASE S = {h}
    BY <1>3, <2>1, <2>2 DEF StageOK
  <2>3. CASE S # {h}
    <3>1. S \ {h} # {}
      BY <1>2, <2>3
    <3> QED
      BY <1>3, <2>3, <3>1 DEF StageOK
  <2> QED
    BY <2>2, <2>3
<1>5. shots' = shots /\ ShotsOK'
  BY DEF TickKit, ShotsOK, CombatIInv
<1> DEFINE Outcome(shown) ==
              LET w == [unit |-> KitTicked(h, shown), deaths |-> <<>>]
              IN \/ Becomes(w)
                 \/ \E f \in Enemies(unit, h), n \in Damages : Becomes(Struck(w, f, n, FALSE))
                 \/ unit[h].alive /\ \E n \in Damages : Becomes(Hurt(w, h, n, FALSE))
<1>6. PICK shown \in {unit[h].hidden, FALSE} : Outcome(shown)
  BY DEF TickKit
<1>7. blow' = [blow EXCEPT ![h] = Faded(blow[h])]
  BY DEF TickKit
<1> DEFINE w == [unit |-> KitTicked(h, shown), deaths |-> <<>>]
<1>8. w.unit = KitTicked(h, shown)
  OBVIOUS
<1>9. \/ Becomes(w)
      \/ \E f \in Enemies(unit, h), n \in Damages : Becomes(Struck(w, f, n, FALSE))
      \/ unit[h].alive /\ \E n \in Damages : Becomes(Hurt(w, h, n, FALSE))
  BY <1>6
<1> HIDE DEF h
<1>10. /\ blow' \in Blows /\ Sound(w, blow')
       /\ \A e \in Units : Living(w.unit, e) = Living(unit, e) /\ w.unit[e].alive = unit[e].alive
  BY <1>2, <1>7, <1>8, KitIsSound
<1> HIDE DEF w
<1>11. PICK z : Becomes(z) /\ Sound(z, blow')
  <2>1. CASE Becomes(w)
    BY <1>10, <2>1
  <2>2. ASSUME NEW f \in Enemies(unit, h), NEW n \in Damages, Becomes(Struck(w, f, n, FALSE))
        PROVE  Sound(Struck(w, f, n, FALSE), blow')
    <3>1. f \in Units
      BY DEF Enemies
    <3> QED
      BY <1>10, <3>1, StruckIsSound
  <2>3. ASSUME unit[h].alive, NEW n \in Damages, Becomes(Hurt(w, h, n, FALSE))
        PROVE  Sound(Hurt(w, h, n, FALSE), blow')
    <3>1. Living(w.unit, h)
      BY <1>2, <1>10, <2>3, Facts DEF Living, Bodies
    <3> QED
      BY <1>2, <1>10, <3>1, HurtIsSound
  <2> QED
    BY <1>9, <2>1, <2>2, <2>3
<1>12. unit' = z.unit /\ deaths' = z.deaths
  BY <1>11 DEF Becomes
<1>13. Sound([unit |-> unit', deaths |-> deaths'], blow')
  BY <1>11, <1>12 DEF Sound
<1> QED
  BY <1>4, <1>5, <1>10, <1>13 DEF CombatIInv

LEMMA ShotsKeep == CombatIInv /\ TickShots => CombatIInv'
<1> SUFFICES ASSUME CombatIInv, TickShots PROVE CombatIInv'
  OBVIOUS
<1> DEFINE p == Least(stage[2])
<1>1. PICK S \in SUBSET (1..MaxShots) : stage = <<"shots", S>> /\ S # {}
  BY DEF CombatIInv, StageOK, TickShots
<1>2. p \in S /\ p \in 1..MaxShots
  <2>1. S \in SUBSET Nat /\ S # {}
    BY <1>1, Roster
  <2>2. Least(S) \in S
    BY <2>1, LeastIsLeast
  <2> QED
    BY <1>1, <2>2
<1>3. stage' = IF S = {p} THEN <<"orders", {}>> ELSE <<"shots", S \ {p}>>
  BY <1>1 DEF TickShots
<1>4. StageOK' /\ stage'[1] # "strike"
  <2>1. CASE S = {p}
    BY <1>3, <2>1 DEF StageOK
  <2>2. CASE S # {p}
    <3>1. S \ {p} # {}
      BY <1>2, <2>2
    <3> QED
      BY <1>3, <2>2, <3>1 DEF StageOK
  <2> QED
    BY <2>1, <2>2
<1>5. \/ Nothing /\ UNCHANGED shots
      \/ Nothing /\ ShotGone(p)
      \/ shots[p] # NoShot /\ ShotHits(p) /\ ShotGone(p)
  BY DEF TickShots
<1> HIDE DEF p
<1>6. ASSUME UNCHANGED shots \/ ShotGone(p) PROVE ShotsOK'
  BY <1>2, <1>6 DEF ShotsOK, CombatIInv, ShotGone
<1>7. CASE Nothing /\ (UNCHANGED shots \/ ShotGone(p))
  BY <1>4, <1>6, <1>7, NothingIsSound DEF CombatIInv
<1>8. CASE shots[p] # NoShot /\ ShotHits(p) /\ ShotGone(p)
  <2> DEFINE k == shots[p].by
  <2>1. k \in Ranged /\ k \in Heroes
    BY <1>2, <1>8, Roster DEF ShotsOK, CombatIInv
  <2>2. PICK f \in Heroes, n \in Damages, saved \in BOOLEAN :
          /\ Hittable(unit, f) /\ SideOf(unit, f) # SideOf(unit, k)
          /\ Becomes(Hurt([unit |-> Credited(unit, f, k), deaths |-> <<>>], f, n, saved))
          /\ blow' = Felt(f, k)
    BY <1>8 DEF ShotHits
  <2> HIDE DEF k
  <2>3. f \in Units /\ SideOf(unit, f) # TeamOf(k)
    BY <2>1, <2>2, Facts, Sides, Roster
  <2>4. Sound([unit |-> unit', deaths |-> deaths'], blow') /\ blow' \in Blows
    BY <2>1, <2>2, <2>3, CreditedHit
  <2> QED
    BY <1>4, <1>6, <1>8, <2>4 DEF CombatIInv
<1> QED
  BY <1>5, <1>7, <1>8

LEMMA FightBegins == CombatInit => CombatIInv
<1> SUFFICES ASSUME CombatInit PROVE CombatIInv
  OBVIOUS
<1>1. /\ unit = [e \in Units |-> IF e \in Heroes THEN NewHero ELSE Zeroed]
      /\ shots = [p \in 1..MaxShots |-> NoShot] /\ stage = <<"orders", {}>> /\ deaths = <<>>
      /\ blow = [h \in Heroes |-> Unhurt]
  BY DEF CombatInit
<1>2. \A h \in Heroes : unit[h] = NewHero
  BY <1>1, Roster
<1>3. \A c \in Slots : unit[c] = Zeroed
  BY <1>1, Roster
<1>4. /\ NewHero.active /\ NewHero.cloneOf = NoOne /\ NewHero.windup = 0
      /\ NewHero.lastHit = NoOne /\ NewHero.assists = Blank /\ ~Zeroed.alive /\ Zeroed.windup = 0
      /\ \A i \in 1..MaxAssist : Blank[i].by = NoOne
  BY DEF NewHero, Zeroed, Blank, NoAssist
<1>5. unit \in [Units -> Body]
  BY <1>1, NewBodies
<1>6. \A e \in Units : unit[e].windup <= WindupOf(e)
  BY <1>2, <1>3, <1>4, Roster DEF WindupOf
<1>7. Bodies(unit)
  BY <1>2, <1>3, <1>4, <1>5, <1>6 DEF Bodies
<1>8. Remembered(unit, blow)
  BY <1>2, <1>4 DEF Remembered
<1>9. blow \in Blows
  BY <1>1, Roster DEF Blows, Unhurt
<1>10. Sound([unit |-> unit, deaths |-> deaths], blow)
  BY <1>1, <1>7, <1>8 DEF Sound
<1>11. StageOK /\ ShotsOK
  BY <1>1 DEF StageOK, ShotsOK
<1> QED
  BY <1>1, <1>9, <1>10, <1>11 DEF CombatIInv

LEMMA FightGoesOn == CombatIInv /\ [CombatNext]_combatVars => CombatIInv'
<1> SUFFICES ASSUME CombatIInv, [CombatNext]_combatVars PROVE CombatIInv'
  OBVIOUS
<1>1. CASE \E h \in Heroes : CastAtFoe(h)
  BY <1>1, CastsKeep
<1>2. CASE \E t \in Tylers : CastShuffle(t) \/ CastDivide(t)
  BY <1>2, CastsKeep, DivideKeeps, Roster
<1>3. CASE \/ \E h \in Stealthy : VanishFor(h)
           \/ \E h \in Ranged : SetMoveTarget(h) \/ \E f \in Heroes : SetAttackTarget(h, f)
  <2>1. Stealthy \subseteq Heroes
    BY CombatRoster
  <2> QED
    BY <1>3, <2>1, LocksKeep, Roster
<1>4. CASE TickRespawns
  BY <1>4, RespawnsKeep
<1>5. CASE BeginSwings
  BY <1>5, SwingsKeep
<1>6. CASE Strike \/ StrikesOver
  BY <1>6, StrikesKeep
<1>7. CASE TickKit
  BY <1>7, KitsKeep
<1>8. CASE TickShots
  BY <1>8, ShotsKeep
<1>9. CASE UNCHANGED combatVars
  BY <1>9 DEF combatVars, CombatIInv, Sound, StageOK, ShotsOK, AimedAtFoe
<1> QED
  BY <1>1, <1>2, <1>3, <1>4, <1>5, <1>6, <1>7, <1>8, <1>9 DEF CombatNext

LEMMA FightInv == CombatIInv => CombatInv
<1> SUFFICES ASSUME CombatIInv PROVE CombatInv
  OBVIOUS
<1>1. Bodies(unit) /\ blow \in Blows /\ \A e \in Units : unit[e] \in Body
  BY Facts
<1>2. \A i \in DOMAIN deaths : /\ Earned(deaths[i], blow) /\ FellAlone(unit, deaths[i]) /\ deaths[i] \in Death
  BY DEF CombatIInv, Sound
<1>3. CombatTypeOK
  <2>1. DOMAIN unit = Units
    BY <1>1 DEF Bodies
  <2>2. \A e \in Units : WindupOf(e) \in Nat /\ unit[e].windup \in Nat /\ unit[e].windup <= WindupOf(e)
    BY <1>1, Roster DEF Bodies, WindupOf, Body
  <2>3. \A e \in Units : unit[e].windup \in 0..WindupOf(e)
    BY <2>2
  <2>4. \A p \in 1..MaxShots : shots[p] = NoShot \/ shots[p] \in [by : Ranged, at : Heroes]
    BY DEF CombatIInv, ShotsOK
  <2>5. stage[1] \in {"orders", "respawn", "swing", "strike", "kits", "shots"}
    BY DEF CombatIInv, StageOK
  <2>6. \A e \in Units :
          /\ unit[e].active \in BOOLEAN /\ unit[e].alive \in BOOLEAN /\ unit[e].hidden \in BOOLEAN
          /\ unit[e].hp \in 0..MaxHp
          /\ unit[e].cloneOf \in Tylers \cup {NoOne} /\ unit[e].target \in Heroes \cup {NoOne}
          /\ unit[e].lastHit \in Heroes \cup {NoOne} /\ unit[e].assists \in Memory
    BY <1>1 DEF Body
  <2> QED
    BY <1>1, <2>1, <2>3, <2>4, <2>5, <2>6 DEF CombatTypeOK, Memory, Blows
<1>4. SharedFate
  BY <1>1, <1>2 DEF SharedFate, FellAlone, Bodies, Living
<1>5. AwardsEarned
  <2>1. \A h \in Heroes : SideOf(unit, h) = TeamOf(h)
    BY <1>1, Sides
  <2> QED
    BY <1>2, <2>1 DEF AwardsEarned, Earned, Death
<1>6. OneDeathOneAward
  BY <1>2 DEF OneDeathOneAward, Earned
<1>7. ShotsAtFoes
  <2>1. \A h \in Heroes : SideOf(unit, h) = TeamOf(h)
    BY <1>1, Sides
  <2>2. \A p \in 1..MaxShots : shots[p] # NoShot =>
          /\ shots[p].by \in Heroes /\ shots[p].at \in Heroes /\ TeamOf(shots[p].by) # TeamOf(shots[p].at)
    BY Roster DEF CombatIInv, ShotsOK
  <2> QED
    BY <2>1, <2>2 DEF ShotsAtFoes
<1> QED
  BY <1>3, <1>4, <1>5, <1>6, <1>7 DEF CombatInv

\* In every fight between two teams, whoever plays Tyler and however many clones, shots and zones
\* land in a tick: nobody of a fallen army stands, every death is suffered once and paid only to
\* those of the other side who hit the victim in this life, each helper inside its window, and no
\* shot flies at a friend (apply_damage_ex, tyler_clone_cascade_kill, arena_tick_attack_targets).
THEOREM FightIsFair == CombatSpec => []CombatInv
<1>1. CombatInit => CombatIInv
  BY FightBegins
<1>2. CombatIInv /\ [CombatNext]_combatVars => CombatIInv'
  BY FightGoesOn
<1>3. CombatIInv => CombatInv
  BY FightInv
<1> QED
  BY <1>1, <1>2, <1>3, PTL DEF CombatSpec

-----------------------------------------------------------------------------
(* One victim's memory and one killer's streak.                            *)

Notes == [1..MaxAssist -> [by : Attackers \cup {NoOne}, left : 0..AssistWindow]]
Wounds == [Attackers -> -1..AssistWindow]

\* An entry is the last hit of its attacker, nobody has two, and who was pushed out hit earlier.
Fresh(m, hit) ==
    /\ m \in Notes /\ hit \in Wounds
    /\ \A i, j \in 1..MaxAssist : m[i].by # NoOne /\ m[i].by = m[j].by => i = j
    /\ \A i \in 1..MaxAssist : m[i].by # NoOne => m[i].left = hit[m[i].by]
    /\ \A k \in Attackers : hit[k] >= 0 =>
         \/ \E i \in 1..MaxAssist : m[i].by = k
         \/ \A i \in 1..MaxAssist : m[i].by # NoOne => hit[k] <= m[i].left

LEMMA Ledger ==
    /\ Attackers \subseteq Nat /\ NoOne \notin Attackers /\ NoOne = -1
    /\ MaxAssist \in Nat \ {0} /\ AssistWindow \in Nat \ {0} /\ StreakWindow \in Nat \ {0} /\ StreakCap \in Nat \ {0}
BY LedgerNumbers DEF NoOne

LEMMA BlankIsFresh == Fresh(Blank, [k \in Attackers |-> -1])
<1>1. Blank \in Notes /\ [k \in Attackers |-> -1] \in Wounds
  BY Ledger DEF Blank, NoAssist, Notes, Wounds
<1> QED
  BY <1>1 DEF Fresh, Blank, NoAssist

\* record_assist_damage() keeps the freshest: a known attacker is refreshed, a new one takes a free
\* entry or that of the hit which is closest to being forgotten.
LEMMA RememberKeepsFresh ==
    ASSUME NEW m, NEW hit, Fresh(m, hit), NEW k \in Attackers
    PROVE  Fresh(Remember(m, k), [hit EXCEPT ![k] = AssistWindow])
<1> DEFINE E == Entries(m, k)
           S == IF E # {} THEN E ELSE Stalest(m)
           p == Least(S)
           new == [by |-> k, left |-> AssistWindow]
           x == Remember(m, k)
           y == [hit EXCEPT ![k] = AssistWindow]
<1>1. /\ m \in Notes /\ DOMAIN m = 1..MaxAssist /\ hit \in Wounds
      /\ \A i \in 1..MaxAssist : m[i].by \in Attackers \cup {NoOne} /\ m[i].left \in 0..AssistWindow
  BY DEF Fresh, Notes
<1>2. Stalest(m) # {}
  <2> DEFINE lefts == {m[i].left : i \in 1..MaxAssist}
  <2>1. \A i \in 1..MaxAssist : m[i].left \in Nat
    BY <1>1, Ledger
  <2>2. lefts \in SUBSET Nat /\ lefts # {}
    BY <2>1, Ledger
  <2>3. Least(lefts) \in lefts /\ \A j \in lefts : Least(lefts) <= j
    BY <2>2, LeastIsLeast
  <2>4. PICK i \in 1..MaxAssist : m[i].left = Least(lefts)
    BY <2>3
  <2>5. i \in Stalest(m)
    BY <1>1, <2>3, <2>4 DEF Stalest
  <2> QED
    BY <2>5
<1>3. S \in SUBSET Nat /\ S # {} /\ S \subseteq 1..MaxAssist
  <2>1. S \subseteq 1..MaxAssist
    <3>1. E \subseteq DOMAIN m /\ Stalest(m) \subseteq DOMAIN m
      BY DEF Entries, Stalest
    <3> QED
      BY <1>1, <3>1
  <2>2. S # {}
    BY <1>2 DEF Entries
  <2> HIDE DEF S
  <2> QED
    BY <2>1, <2>2
<1>4. p \in S /\ p \in 1..MaxAssist
  BY <1>3, LeastIsLeast
<1>5. x = [m EXCEPT ![p] = new]
  BY DEF Remember
<1>6. \A i \in 1..MaxAssist : x[i] = IF i = p THEN new ELSE m[i]
  BY <1>1, <1>5
<1>7. \/ m[p].by = k
      \/ m[p].by = NoOne /\ \A i \in 1..MaxAssist : m[i].by # k
      \/ /\ \A i \in 1..MaxAssist : m[i].by # k /\ m[i].by # NoOne
         /\ \A i \in 1..MaxAssist : m[p].left <= m[i].left
  BY <1>1, <1>4 DEF Entries, Stalest
<1>8. new.by = k /\ new.left = AssistWindow /\ k # NoOne /\ new \in [by : Attackers \cup {NoOne}, left : 0..AssistWindow]
  BY Ledger
<1>9. /\ y[k] = AssistWindow /\ (\A j \in Attackers : j # k => y[j] = hit[j]) /\ y \in Wounds
      /\ \A j \in Attackers : hit[j] \in Int /\ hit[j] <= AssistWindow
  <2>1. AssistWindow \in -1..AssistWindow
    BY Ledger
  <2> QED
    BY <1>1, <2>1, Ledger DEF Wounds
<1> HIDE DEF p, new, x, y, S, E
<1>10. x \in Notes
  BY <1>1, <1>4, <1>5, <1>8 DEF Notes
<1>11. ASSUME NEW i \in 1..MaxAssist, NEW j \in 1..MaxAssist, x[i].by # NoOne, x[i].by = x[j].by
       PROVE  i = j
  <2>1. \A q \in 1..MaxAssist : q # p => m[q].by # k
    BY <1>4, <1>7, <1>8 DEF Fresh
  <2> QED
    BY <1>6, <1>8, <1>11, <2>1 DEF Fresh
<1>12. ASSUME NEW i \in 1..MaxAssist, x[i].by # NoOne PROVE x[i].left = y[x[i].by]
  <2>1. CASE i = p
    BY <1>6, <1>8, <1>9, <2>1
  <2>2. CASE i # p
    <3>1. x[i] = m[i] /\ m[i].by \in Attackers /\ m[i].left = hit[m[i].by]
      BY <1>1, <1>6, <1>12, <2>2 DEF Fresh
    <3>2. m[i].by # k
      BY <1>4, <1>7, <1>8, <2>2 DEF Fresh
    <3> QED
      BY <1>9, <3>1, <3>2
  <2> QED
    BY <2>1, <2>2
<1>13. ASSUME NEW j \in Attackers, y[j] >= 0, \A i \in 1..MaxAssist : x[i].by # j,
              NEW i \in 1..MaxAssist, x[i].by # NoOne
       PROVE  y[j] <= x[i].left
  <2>1. j # k /\ y[j] = hit[j]
    BY <1>4, <1>6, <1>8, <1>9, <1>13
  <2>2. CASE i = p
    BY <1>6, <1>8, <1>9, <2>1, <2>2
  <2>3. CASE i # p
    <3>1. x[i] = m[i] /\ m[i].left \in Int
      BY <1>1, <1>6, <2>3, Ledger
    <3>2. CASE m[p].by = j
      <4>1. m[p].left <= m[i].left
        BY <1>7, <2>1, <3>2, <1>13, Ledger
      <4>2. m[p].left = hit[j]
        BY <1>4, <3>2, Ledger DEF Fresh
      <4> QED
        BY <2>1, <3>1, <4>1, <4>2
    <3>3. CASE m[p].by # j
      <4>1. \A q \in 1..MaxAssist : m[q].by # j
        BY <1>6, <1>13, <3>3
      <4> QED
        BY <1>13, <2>1, <3>1, <4>1 DEF Fresh
    <3> QED
      BY <3>2, <3>3
  <2> QED
    BY <2>2, <2>3
<1> QED
  BY <1>9, <1>10, <1>11, <1>12, <1>13 DEF Fresh, x, y

LEMMA ForgetKeepsFresh ==
    ASSUME NEW m, NEW hit, Fresh(m, hit)
    PROVE  Fresh(Forget(m), [k \in Attackers |-> Down(hit[k])])
<1> DEFINE x == Forget(m)
           y == [k \in Attackers |-> Down(hit[k])]
<1>1. /\ m \in Notes /\ hit \in Wounds
      /\ \A i \in 1..MaxAssist : m[i] \in [by : Attackers \cup {NoOne}, left : 0..AssistWindow]
  BY DEF Fresh, Notes
<1>2. \A k \in Attackers : hit[k] \in Int /\ hit[k] \in -1..AssistWindow
  BY <1>1, Ledger DEF Wounds
<1>3. x \in Notes /\ \A i \in 1..MaxAssist : x[i].by = m[i].by /\ x[i].left = Down(m[i].left) /\ m[i].left \in Int
  <2>1. x = [i \in 1..MaxAssist |-> [m[i] EXCEPT !.left = Down(@)]]
    BY <1>1 DEF Forget, Notes
  <2>2. \A i \in 1..MaxAssist : Down(m[i].left) \in 0..AssistWindow /\ m[i].left \in Int
    BY <1>1, Ledger DEF Down
  <2> HIDE DEF x
  <2> QED
    BY <1>1, <2>1, <2>2 DEF Notes
<1>4. y \in Wounds /\ \A k \in Attackers : y[k] = Down(hit[k])
  <2>1. \A k \in Attackers : Down(hit[k]) \in -1..AssistWindow
    BY <1>2, Ledger DEF Down
  <2> QED
    BY <2>1 DEF Wounds
<1> HIDE DEF x, y
<1>5. \A i, j \in 1..MaxAssist : x[i].by # NoOne /\ x[i].by = x[j].by => i = j
  BY <1>3 DEF Fresh
<1>6. ASSUME NEW i \in 1..MaxAssist, x[i].by # NoOne PROVE x[i].left = y[x[i].by]
  <2>1. m[i].by \in Attackers /\ m[i].left = hit[m[i].by]
    BY <1>1, <1>3, <1>6 DEF Fresh
  <2> QED
    BY <1>3, <1>4, <2>1
<1>7. ASSUME NEW k \in Attackers, y[k] >= 0, \A i \in 1..MaxAssist : x[i].by # k,
             NEW i \in 1..MaxAssist, x[i].by # NoOne
      PROVE  y[k] <= x[i].left
  <2>1. hit[k] >= 0
    BY <1>2, <1>4, <1>7 DEF Down
  <2>2. hit[k] <= m[i].left
    BY <1>3, <1>7, <2>1 DEF Fresh
  <2> QED
    BY <1>2, <1>3, <1>4, <2>2 DEF Down
<1> QED
  BY <1>3, <1>4, <1>5, <1>6, <1>7 DEF Fresh, x, y

\* As many attackers are known as entries are taken.
LEMMA FreshCounts == Fresh(memory, wound) => FreshestRemembered
<1> SUFFICES ASSUME Fresh(memory, wound) PROVE FreshestRemembered
  OBVIOUS
<1> DEFINE known == {memory[i].by : i \in 1..MaxAssist} \ {NoOne}
           taken == {i \in 1..MaxAssist : memory[i].by # NoOne}
           f == [i \in taken |-> memory[i].by]
<1>1. memory \in Notes /\ \A i \in 1..MaxAssist : memory[i].by \in Attackers \cup {NoOne}
  BY DEF Fresh, Notes
<1>2. IsFiniteSet(taken)
  <2>1. IsFiniteSet(1..MaxAssist)
    BY Ledger, FS_Interval
  <2> QED
    BY <2>1, FS_Subset
<1>3. f \in Bijection(taken, known)
  <2>1. f \in [taken -> known] /\ \A i, j \in taken : f[i] = f[j] => i = j
    BY DEF Fresh
  <2>2. \A k \in known : \E i \in taken : f[i] = k
    OBVIOUS
  <2> QED
    BY <2>1, <2>2, Fun_IsBij
<1>4. Cardinality(known) = Cardinality(taken)
  BY <1>2, <1>3, FS_Bijection, Fun_ExistsBij
<1>5. ASSUME NEW i \in 1..MaxAssist, memory[i].by # NoOne
      PROVE  /\ memory[i].left = wound[memory[i].by]
             /\ \A k \in {k \in Attackers : wound[k] >= 0} \ known : wound[k] <= memory[i].left
  <2>1. memory[i].left = wound[memory[i].by]
    BY <1>5 DEF Fresh
  <2>2. ASSUME NEW k \in Attackers, wound[k] >= 0, k \notin known PROVE wound[k] <= memory[i].left
    <3>1. \A j \in 1..MaxAssist : memory[j].by # k
      BY <2>2, Ledger
    <3> QED
      BY <1>5, <2>2, <3>1 DEF Fresh
  <2> QED
    BY <2>1, <2>2
<1> QED
  BY <1>4, <1>5 DEF FreshestRemembered

\* The pairs of the Fibonacci loop, by their equation.
FibPairs(f, n) ==
    f = [i \in 0..n |-> IF i < 2 THEN <<1, 2>> ELSE <<f[i - 1][2], f[i - 1][1] + f[i - 1][2]>>]

LEMMA FibLoop ==
    ASSUME NEW n \in Nat, n > 1
    PROVE  \E f : /\ MultikillFib(n) = f[n - 1][2]
                  /\ \A i \in 0..n : f[i] = IF i < 2 THEN <<1, 2>> ELSE <<f[i - 1][2], f[i - 1][1] + f[i - 1][2]>>
<1> DEFINE Stuck == {k \in Nat : \A f : ~FibPairs(f, k)}
<1>1. Stuck = {}
  <2> SUFFICES ASSUME Stuck # {} PROVE FALSE
    OBVIOUS
  <2> DEFINE k == Least(Stuck)
  <2>1. k \in Stuck /\ \A j \in Stuck : k <= j
    BY LeastIsLeast
  <2>2. k \in Nat /\ \A f : ~FibPairs(f, k)
    BY <2>1
  <2> HIDE DEF k
  <2>3. CASE k = 0
    <3> DEFINE f == [i \in 0..0 |-> <<1, 2>>]
    <3>1. f = [i \in 0..0 |-> IF i < 2 THEN <<1, 2>> ELSE <<f[i - 1][2], f[i - 1][1] + f[i - 1][2]>>]
      OBVIOUS
    <3> HIDE DEF f
    <3> QED
      BY <2>2, <2>3, <3>1 DEF FibPairs
  <2>4. CASE k # 0
    <3>1. k - 1 \in Nat /\ ~(k <= k - 1)
      BY <2>2, <2>4
    <3>2. k - 1 \notin Stuck
      <4> HIDE DEF Stuck
      <4> QED
        BY <2>1, <3>1
    <3>3. PICK f : FibPairs(f, k - 1)
      BY <3>1, <3>2
    <3>4. \A i \in 0..(k - 1) : f[i] = IF i < 2 THEN <<1, 2>> ELSE <<f[i - 1][2], f[i - 1][1] + f[i - 1][2]>>
      BY <3>3 DEF FibPairs
    <3> DEFINE last == IF k < 2 THEN <<1, 2>> ELSE <<f[k - 1][2], f[k - 1][1] + f[k - 1][2]>>
               g == [i \in 0..k |-> IF i = k THEN last ELSE f[i]]
    <3>5. \A i \in 0..k : g[i] = IF i = k THEN last ELSE f[i]
      OBVIOUS
    <3>6. g = [i \in 0..k |-> g[i]]
      OBVIOUS
    <3> HIDE DEF g
    <3>7. ASSUME NEW i \in 0..k
          PROVE  g[i] = IF i < 2 THEN <<1, 2>> ELSE <<g[i - 1][2], g[i - 1][1] + g[i - 1][2]>>
      <4>1. CASE i < 2
        <5>1. CASE i = k
          BY <3>5, <4>1, <5>1
        <5>2. CASE i # k
          <6>1. i \in 0..(k - 1)
            BY <2>2, <5>2
          <6>2. f[i] = <<1, 2>>
            BY ONLY <3>4, <4>1, <6>1
          <6> QED
            BY <3>5, <4>1, <5>2, <6>2
        <5> QED
          BY <5>1, <5>2
      <4>2. CASE ~(i < 2)
        <5>1. i - 1 \in 0..k /\ i - 1 # k
          BY <2>2, <4>2
        <5>2. g[i - 1] = f[i - 1]
          BY ONLY <3>5, <5>1
        <5>3. CASE i = k
          <6>1. g[i] = last
            BY <3>5, <5>3
          <6> QED
            BY <4>2, <5>2, <5>3, <6>1
        <5>4. CASE i # k
          <6>1. i \in 0..(k - 1)
            BY <2>2, <5>4
          <6>2. g[i] = f[i]
            BY <3>5, <5>4
          <6>3. f[i] = <<f[i - 1][2], f[i - 1][1] + f[i - 1][2]>>
            BY ONLY <3>4, <4>2, <6>1
          <6> QED
            BY <4>2, <5>2, <6>2, <6>3
        <5> QED
          BY <5>3, <5>4
      <4> QED
        BY <4>1, <4>2
    <3>8. FibPairs(g, k)
      BY <3>6, <3>7 DEF FibPairs
    <3> QED
      BY <2>2, <3>8
  <2> QED
    BY <2>3, <2>4
<1>2. PICK h : FibPairs(h, n)
  BY <1>1
<1> DEFINE pair == CHOOSE f : FibPairs(f, n)
<1>3. FibPairs(pair, n)
  BY <1>2
<1>4. MultikillFib(n) = pair[n - 1][2]
  BY DEF MultikillFib, FibPairs
<1> HIDE DEF pair
<1>5. \A i \in 0..n : pair[i] = IF i < 2 THEN <<1, 2>> ELSE <<pair[i - 1][2], pair[i - 1][1] + pair[i - 1][2]>>
  BY <1>3 DEF FibPairs
<1> QED
  BY <1>4, <1>5

LEMMA FibIsNat == \A n \in Nat : MultikillFib(n) \in Nat
<1> SUFFICES ASSUME NEW n \in Nat PROVE MultikillFib(n) \in Nat
  OBVIOUS
<1>1. CASE n <= 1
  BY <1>1 DEF MultikillFib
<1>2. CASE n > 1
  <2>1. PICK f : /\ MultikillFib(n) = f[n - 1][2]
                 /\ \A i \in 0..n : f[i] = IF i < 2 THEN <<1, 2>> ELSE <<f[i - 1][2], f[i - 1][1] + f[i - 1][2]>>
    BY <1>2, FibLoop
  <2> DEFINE Wrong == {i \in 0..n : f[i] \notin Nat \X Nat}
  <2>2. Wrong = {}
    <3> SUFFICES ASSUME Wrong # {} PROVE FALSE
      OBVIOUS
    <3> DEFINE k == Least(Wrong)
    <3>1. k \in Wrong /\ \A j \in Wrong : k <= j
      BY LeastIsLeast
    <3>2. k \in 0..n /\ f[k] \notin Nat \X Nat
      BY <3>1
    <3> HIDE DEF k
    <3>3. CASE k < 2
      <4>1. f[k] = <<1, 2>>
        BY <2>1, <3>2, <3>3
      <4> QED
        BY <3>2, <4>1
    <3>4. CASE ~(k < 2)
      <4>1. k - 1 \in 0..n /\ ~(k <= k - 1)
        BY <3>2, <3>4
      <4>2. f[k - 1] \in Nat \X Nat
        BY <3>1, <4>1
      <4>3. f[k] = <<f[k - 1][2], f[k - 1][1] + f[k - 1][2]>>
        BY <2>1, <3>2, <3>4
      <4> QED
        BY <3>2, <4>2, <4>3
    <3> QED
      BY <3>3, <3>4
  <2>3. n - 1 \in 0..n
    BY <1>2
  <2>4. f[n - 1] \in Nat \X Nat
    BY <2>2, <2>3
  <2> QED
    BY <2>1, <2>4
<1> QED
  BY <1>1, <1>2

\* The first terms: what a single kill up to a seventh in a row is worth.
LEMMA FibTerms ==
    /\ MultikillFib(1) = 1 /\ MultikillFib(2) = 2 /\ MultikillFib(3) = 3 /\ MultikillFib(4) = 5
    /\ MultikillFib(5) = 8 /\ MultikillFib(6) = 13 /\ MultikillFib(7) = 21
<1> DEFINE Row(f, n) == \A i \in 0..n : f[i] = IF i < 2 THEN <<1, 2>> ELSE <<f[i - 1][2], f[i - 1][1] + f[i - 1][2]>>
           Term(i) == IF i < 2 THEN <<1, 2>> ELSE IF i = 2 THEN <<2, 3>> ELSE IF i = 3 THEN <<3, 5>>
                      ELSE IF i = 4 THEN <<5, 8>> ELSE IF i = 5 THEN <<8, 13>> ELSE <<13, 21>>
<1>1. ASSUME NEW n \in 2..7, NEW f, Row(f, n) PROVE \A i \in 1..6 : i <= n => f[i] = Term(i)
  <2>8. 1 \in 0..n /\ \A i \in 2..6 : i <= n => i \in 0..n /\ ~(i < 2)
    OBVIOUS
  <2>9. \A i \in 0..n : f[i] = IF i < 2 THEN <<1, 2>> ELSE <<f[i - 1][2], f[i - 1][1] + f[i - 1][2]>>
    BY <1>1
  <2>10. f[1] = IF 1 < 2 THEN <<1, 2>> ELSE <<f[1 - 1][2], f[1 - 1][1] + f[1 - 1][2]>>
    BY ONLY <2>8, <2>9
  <2>1. f[1] = <<1, 2>>
    BY ONLY <2>10
  <2>2. ASSUME NEW i \in 2..6, i <= n PROVE f[i] = <<f[i - 1][2], f[i - 1][1] + f[i - 1][2]>>
    BY ONLY <2>2, <2>8, <2>9
  <2>3. f[2] = <<2, 3>>
    BY <2>1, <2>2
  <2>4. 3 <= n => f[3] = <<3, 5>>
    BY <2>2, <2>3
  <2>5. 4 <= n => f[4] = <<5, 8>>
    BY <2>2, <2>4
  <2>6. 5 <= n => f[5] = <<8, 13>>
    BY <2>2, <2>5
  <2>7. 6 <= n => f[6] = <<13, 21>>
    BY <2>2, <2>6
  <2> QED
    BY <2>1, <2>3, <2>4, <2>5, <2>6, <2>7
<1>2. ASSUME NEW n \in 2..7 PROVE MultikillFib(n) = Term(n - 1)[2]
  <2>1. PICK f : MultikillFib(n) = f[n - 1][2] /\ Row(f, n)
    BY FibLoop
  <2>2. n - 1 \in 1..6 /\ n - 1 <= n
    OBVIOUS
  <2>3. f[n - 1] = Term(n - 1)
    BY <1>1, <2>1, <2>2
  <2> QED
    BY <2>1, <2>3
<1>3. MultikillFib(1) = 1
  BY DEF MultikillFib
<1> QED
  BY <1>2, <1>3

LEMMA MostIsMost ==
    ASSUME NEW n \in Nat, NEW S \in SUBSET (1..n), S # {}
    PROVE  \E i \in S : \A j \in S : j <= i
<1> DEFINE R == {n - i : i \in S}
<1>5. \A i \in S : n - i \in Nat /\ i \in Nat /\ n - i \in R
  OBVIOUS
<1>1. R \in SUBSET Nat /\ R # {}
  BY <1>5
<1>2. Least(R) \in R /\ \A j \in R : Least(R) <= j
  BY <1>1, LeastIsLeast
<1>3. PICK i \in S : n - i = Least(R)
  BY <1>2
<1>4. ASSUME NEW j \in S PROVE j <= i
  <2>1. n - i <= n - j
    BY <1>2, <1>3, <1>5
  <2> QED
    BY <1>5, <2>1
<1> QED
  BY <1>4

\* A kill prolongs the run it belongs to or, after a pause, starts one.
LEMMA RunGrows ==
    ASSUME NEW c \in Seq(Nat)
    PROVE  /\ c = <<>> => RunOf(Append(c, 0)) = 1
           /\ c # <<>> => RunOf(Append(c, 0)) = IF c[Len(c)] < StreakWindow THEN RunOf(c) + 1 ELSE 1
<1> DEFINE d == Append(c, 0)
           n == Len(c)
<1>1. n \in Nat /\ Len(d) = n + 1 /\ \A i \in 1..n : d[i] = c[i] /\ c[i] \in Nat
  OBVIOUS
<1>2. Breaks(d) = {i \in 1..n : c[i] >= StreakWindow} /\ Breaks(c) = {i \in 1..(n - 1) : c[i] >= StreakWindow}
  <2> HIDE DEF d
  <2> QED
    BY <1>1 DEF Breaks
<1>3. c = <<>> => n = 0
  OBVIOUS
<1>4. c # <<>> => n \in Nat \ {0}
  OBVIOUS
<1> HIDE DEF d, n
<1>5. CASE c = <<>>
  <2>1. Breaks(d) = {}
    BY <1>2, <1>3, <1>5
  <2> QED
    BY <1>1, <1>3, <1>5, <2>1 DEF RunOf, d
<1>6. CASE c # <<>> /\ c[n] < StreakWindow
  <2>1. Breaks(d) = Breaks(c)
    BY <1>1, <1>2, <1>4, <1>6, Ledger
  <2> DEFINE gone == IF Breaks(c) = {} THEN 0 ELSE CHOOSE i \in Breaks(c) : \A j \in Breaks(c) : j <= i
  <2>2. gone \in Int
    <3>1. Breaks(c) \in SUBSET (1..n) /\ Breaks(c) \subseteq Int
      BY <1>1, <1>2
    <3>2. Breaks(c) # {} => \E i \in Breaks(c) : \A j \in Breaks(c) : j <= i
      BY <1>1, <3>1, MostIsMost
    <3> QED
      BY <3>1, <3>2
  <2>3. RunOf(d) = Len(d) - gone /\ RunOf(c) = Len(c) - gone
    BY <2>1 DEF RunOf
  <2> HIDE DEF gone
  <2> QED
    BY <1>1, <1>6, <2>2, <2>3 DEF n, d
<1>7. CASE c # <<>> /\ ~(c[n] < StreakWindow)
  <2>1. n \in Breaks(d) /\ \A j \in Breaks(d) : j <= n /\ j \in Int
    BY <1>1, <1>2, <1>4, <1>7, Ledger
  <2> DEFINE m == CHOOSE i \in Breaks(d) : \A j \in Breaks(d) : j <= i
  <2>3. m \in Breaks(d) /\ \A j \in Breaks(d) : j <= m
    BY <2>1
  <2> HIDE DEF m
  <2>2. m = n
    BY <1>1, <2>1, <2>3
  <2> QED
    BY <1>1, <1>7, <2>1, <2>2 DEF RunOf, n, d
<1> QED
  BY <1>5, <1>6, <1>7 DEF d, n

StreakOK ==
    /\ chain \in Seq(Nat) /\ Len(chain) <= StreakCap /\ paid \in Nat
    /\ streak \in [count : Nat, left : Nat]
    /\ chain = <<>> => streak.count = 0 /\ streak.left = 0
    /\ chain # <<>> =>
        /\ RunOf(chain) \in 1..Len(chain) /\ paid = MultikillFib(RunOf(chain))
        /\ IF chain[Len(chain)] < StreakWindow
           THEN streak.left = StreakWindow - chain[Len(chain)] /\ streak.count = RunOf(chain)
           ELSE streak.left = 0 /\ streak.count = 0
LedgerIInv == Fresh(memory, wound) /\ StreakOK

LEMMA LedgerBegins == LedgerInit => LedgerIInv
<1> SUFFICES ASSUME LedgerInit PROVE LedgerIInv
  OBVIOUS
<1>1. Fresh(memory, wound)
  BY BlankIsFresh DEF LedgerInit
<1>2. StreakOK
  <2>1. chain = <<>> /\ paid = 0 /\ streak = [count |-> 0, left |-> 0]
    BY DEF LedgerInit
  <2> QED
    BY <2>1, Ledger DEF StreakOK
<1> QED
  BY <1>1, <1>2 DEF LedgerIInv

LEMMA KillPays == StreakOK /\ LedgerKill => StreakOK'
<1> SUFFICES ASSUME StreakOK, LedgerKill PROVE StreakOK'
  OBVIOUS
<1> DEFINE c == chain
           d == chain'
<1>1. /\ c \in Seq(Nat) /\ Len(c) < StreakCap /\ d = Append(c, 0)
      /\ streak' = [count |-> Longer(streak), left |-> StreakWindow] /\ paid' = MultikillFib(Longer(streak))
  BY DEF StreakOK, LedgerKill
<1>2. Longer(streak) = RunOf(d) /\ RunOf(d) \in 1..(Len(c) + 1)
  <2>1. CASE c = <<>>
    <3>2. RunOf(Append(c, 0)) = 1
      BY <1>1, <2>1, RunGrows
    <3>3. streak.left = 0
      BY <2>1 DEF StreakOK
    <3>1. RunOf(d) = 1 /\ Longer(streak) = 1
      BY <1>1, <3>2, <3>3 DEF Longer
    <3> QED
      BY <1>1, <3>1
  <2>2. CASE c # <<>>
    <3>1. /\ RunOf(d) = IF c[Len(c)] < StreakWindow THEN RunOf(c) + 1 ELSE 1
          /\ RunOf(c) \in 1..Len(c) /\ c[Len(c)] \in Nat
      BY <1>1, <2>2, RunGrows DEF StreakOK
    <3>2. IF c[Len(c)] < StreakWindow
          THEN streak.left = StreakWindow - c[Len(c)] /\ streak.count = RunOf(c)
          ELSE streak.left = 0 /\ streak.count = 0
      BY <2>2 DEF StreakOK
    <3>3. c[Len(c)] \in Nat /\ RunOf(c) \in 1..Len(c) /\ StreakWindow \in Nat /\ Len(c) \in Nat
      BY <1>1, <3>1, Ledger
    <3>4. CASE c[Len(c)] < StreakWindow
      BY <3>1, <3>2, <3>3, <3>4 DEF Longer
    <3>5. CASE ~(c[Len(c)] < StreakWindow)
      BY <3>1, <3>2, <3>3, <3>5 DEF Longer
    <3> QED
      BY <3>4, <3>5
  <2> QED
    BY <2>1, <2>2
<1>3. d \in Seq(Nat) /\ d # <<>> /\ Len(d) = Len(c) + 1 /\ d[Len(d)] = 0
  BY <1>1
<1> HIDE DEF c, d
<1>4. RunOf(d) \in Nat /\ paid' \in Nat
  BY <1>1, <1>2, <1>3, FibIsNat
<1>5. streak'.count = RunOf(d) /\ streak'.left = StreakWindow /\ streak' \in [count : Nat, left : Nat]
  BY <1>1, <1>2, <1>4, Ledger
<1>6. Len(d) <= StreakCap /\ paid' = MultikillFib(RunOf(d)) /\ RunOf(d) \in 1..Len(d)
  BY <1>1, <1>2, <1>3, Ledger
<1> QED
  BY <1>3, <1>4, <1>5, <1>6, Ledger DEF StreakOK, d

LEMMA StreakRunsDown == StreakOK /\ LedgerTick => StreakOK'
<1> SUFFICES ASSUME StreakOK, LedgerTick PROVE StreakOK'
  OBVIOUS
<1>1. /\ streak' = [count |-> IF streak.left = 1 THEN 0 ELSE streak.count, left |-> Down(streak.left)]
      /\ paid' = paid
      /\ chain' = IF chain = <<>> THEN chain ELSE [chain EXCEPT ![Len(chain)] = Later(@)]
  BY DEF LedgerTick, StreakEnds
<1>2. /\ streak.count \in Nat /\ streak.left \in Nat /\ Down(streak.left) \in Nat
      /\ streak' \in [count : Nat, left : Nat] /\ streak'.left = Down(streak.left)
      /\ streak'.count = IF streak.left = 1 THEN 0 ELSE streak.count
  BY <1>1 DEF StreakOK, Down
<1>3. CASE chain = <<>>
  BY <1>1, <1>2, <1>3 DEF StreakOK, Down
<1>4. CASE chain # <<>>
  <2> DEFINE n == Len(chain)
             last == chain[n]
  <2>1. chain \in Seq(Nat) /\ n \in Nat \ {0} /\ last \in Nat /\ n <= StreakCap /\ paid \in Nat
    BY <1>4 DEF StreakOK
  <2>2. chain' = [chain EXCEPT ![n] = Later(last)]
    BY <1>1, <1>4
  <2>3. Later(last) \in Nat /\ (last < StreakWindow => Later(last) = last + 1)
        /\ (~(last < StreakWindow) => ~(Later(last) < StreakWindow))
    BY <2>1, Ledger DEF Later
  <2>4. RunOf(chain) \in 1..n /\ paid = MultikillFib(RunOf(chain))
        /\ IF last < StreakWindow
           THEN streak.left = StreakWindow - last /\ streak.count = RunOf(chain)
           ELSE streak.left = 0 /\ streak.count = 0
    BY <1>4 DEF StreakOK
  <2>5. /\ chain' \in Seq(Nat) /\ Len(chain') = n /\ chain'[n] = Later(last) /\ chain' # <<>>
        /\ \A i \in 1..(n - 1) : chain'[i] = chain[i]
    <3> HIDE DEF last
    <3>1. chain' \in Seq(Nat) /\ Len(chain') = n
      BY <2>1, <2>2, <2>3
    <3>2. \A i \in 1..n : chain'[i] = IF i = n THEN Later(last) ELSE chain[i]
      BY <2>1, <2>2
    <3> QED
      BY <2>1, <3>1, <3>2
  <2>6. Breaks(chain') = Breaks(chain)
    <3>1. Breaks(chain') = {i \in 1..(n - 1) : chain'[i] >= StreakWindow}
      BY <2>5 DEF Breaks
    <3> QED
      BY <2>5, <3>1 DEF Breaks
  <2>7. RunOf(chain') = RunOf(chain)
    BY <2>5, <2>6 DEF RunOf
  <2> HIDE DEF n, last
  <2>8. IF Later(last) < StreakWindow
        THEN streak'.left = StreakWindow - Later(last) /\ streak'.count = RunOf(chain)
        ELSE streak'.left = 0 /\ streak'.count = 0
    BY <1>2, <2>1, <2>3, <2>4, Ledger DEF Down
  <2>9. chain'[Len(chain')] = Later(last)
    BY <2>5
  <2> QED
    BY <1>1, <1>2, <2>1, <2>4, <2>5, <2>7, <2>8, <2>9 DEF StreakOK
<1> QED
  BY <1>3, <1>4

LEMMA LedgerGoesOn == LedgerIInv /\ [LedgerNext]_ledgerVars => LedgerIInv'
<1> SUFFICES ASSUME LedgerIInv, [LedgerNext]_ledgerVars PROVE LedgerIInv'
  OBVIOUS
<1>1. ASSUME NEW k \in Attackers, LedgerHit(k) PROVE LedgerIInv'
  <2>1. Fresh(memory', wound')
    BY <1>1, RememberKeepsFresh DEF LedgerIInv, LedgerHit
  <2>2. StreakOK'
    BY <1>1 DEF LedgerIInv, LedgerHit, StreakOK
  <2> QED
    BY <2>1, <2>2 DEF LedgerIInv
<1>2. CASE LedgerKill
  BY <1>2, KillPays DEF LedgerIInv, LedgerKill
<1>3. CASE LedgerTick
  <2>1. Fresh(memory', wound')
    BY <1>3, ForgetKeepsFresh DEF LedgerIInv, LedgerTick
  <2> QED
    BY <1>3, <2>1, StreakRunsDown DEF LedgerIInv
<1>4. CASE LedgerRespawn
  <2>1. CASE memory' = Blank /\ wound' = [k \in Attackers |-> -1] /\ UNCHANGED <<streak, paid, chain>>
    BY <2>1, BlankIsFresh DEF LedgerIInv, StreakOK
  <2>2. CASE streak' = [count |-> 0, left |-> 0] /\ chain' = <<>> /\ UNCHANGED <<memory, wound, paid>>
    <3>1. StreakOK'
      BY <2>2, Ledger DEF LedgerIInv, StreakOK
    <3> QED
      BY <2>2, <3>1 DEF LedgerIInv
  <2> QED
    BY <1>4, <2>1, <2>2 DEF LedgerRespawn
<1>5. CASE UNCHANGED ledgerVars
  BY <1>5 DEF ledgerVars, LedgerIInv, StreakOK
<1> QED
  BY <1>1, <1>2, <1>3, <1>4, <1>5 DEF LedgerNext

LEMMA LedgerTypes == LedgerIInv => LedgerTypeOK
<1> SUFFICES ASSUME LedgerIInv PROVE LedgerTypeOK
  OBVIOUS
<1>1. memory \in [1..MaxAssist -> [by : Attackers \cup {NoOne}, left : 0..AssistWindow]]
  BY DEF LedgerIInv, Fresh, Notes
<1>2. streak.count \in 0..StreakCap /\ streak.left \in 0..StreakWindow /\ paid \in Nat
  <2>1. chain \in Seq(Nat) /\ Len(chain) <= StreakCap /\ paid \in Nat /\ streak.count \in Nat /\ streak.left \in Nat
    BY DEF LedgerIInv, StreakOK
  <2>2. CASE chain = <<>>
    BY <2>1, <2>2, Ledger DEF LedgerIInv, StreakOK
  <2>3. CASE chain # <<>>
    <3> DEFINE n == Len(chain)
               last == chain[n]
    <3>1. n \in Nat /\ last \in Nat
      BY <2>1, <2>3
    <3>2. RunOf(chain) \in 1..n
          /\ IF last < StreakWindow
             THEN streak.left = StreakWindow - last /\ streak.count = RunOf(chain)
             ELSE streak.left = 0 /\ streak.count = 0
      BY <2>3 DEF LedgerIInv, StreakOK
    <3>3. n <= StreakCap
      BY <2>1
    <3> HIDE DEF n, last
    <3> QED
      BY <2>1, <3>1, <3>2, <3>3, Ledger
  <2> QED
    BY <2>2, <2>3
<1> QED
  BY <1>1, <1>2 DEF LedgerTypeOK

\* Whatever the number of attackers and entries, the memory of a victim holds its freshest
\* attackers, each once and with what its last hit has left (record_assist_damage and the timers of
\* tick_hero_kit), and a streak never outruns its kills.
THEOREM HelpersAreFresh == LedgerSpec => [](LedgerTypeOK /\ FreshestRemembered)
<1>1. LedgerIInv => LedgerTypeOK /\ FreshestRemembered
  BY LedgerTypes, FreshCounts DEF LedgerIInv
<1> QED
  BY <1>1, LedgerBegins, LedgerGoesOn, PTL DEF LedgerSpec

\* Up to the seventh kill in a row, where the table of the bounties ends, a bounty is that of the
\* kills that followed one another within the window: the counter and the timer of apply_damage_ex()
\* are the run of the chain of kills.
THEOREM BountiesAreEarned ==
    ASSUME StreakCap <= 7
    PROVE  LedgerSpec => []LedgerInv
<1>1. LedgerIInv => BountyOfChain
  <2> SUFFICES ASSUME LedgerIInv, chain # <<>> PROVE paid = <<1, 2, 3, 5, 8, 13, 21>>[RunOf(chain)]
    BY DEF BountyOfChain
  <2>1. RunOf(chain) \in 1..Len(chain) /\ Len(chain) <= StreakCap /\ Len(chain) \in Nat
        /\ paid = MultikillFib(RunOf(chain))
    BY DEF LedgerIInv, StreakOK
  <2>2. RunOf(chain) \in 1..7
    BY <2>1, Ledger
  <2> QED
    BY <2>1, <2>2, FibTerms
<1>2. LedgerIInv => LedgerInv
  BY <1>1, LedgerTypes, FreshCounts DEF LedgerIInv, LedgerInv
<1> QED
  BY <1>2, LedgerBegins, LedgerGoesOn, PTL DEF LedgerSpec

==============================================================================
