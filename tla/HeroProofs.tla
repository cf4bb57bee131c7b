------------------------------ MODULE HeroProofs -----------------------------
(***************************************************************************)
(* Theorems about one hero: its purse and equipment, for any catalog, and  *)
(* its kit.                                                                *)
(*                                                                         *)
(* Induction is stated with a set for the predicate: what holds at the     *)
(* beginning and is handed on holds everywhere.                            *)
(***************************************************************************)
EXTENDS HeroKits, ArenaShop, FiniteSetTheorems, WellFoundedInduction, NaturalsInduction, TLAPS

LEMMA NatAll ==
    ASSUME NEW P, 0 \in P, \A n \in Nat : n \in P => n + 1 \in P
    PROVE  Nat \subseteq P
<1> DEFINE Bad == {n \in Nat : n \notin P}
           R == OpToRel(<, Nat)
<1> SUFFICES ASSUME Bad # {} PROVE FALSE
  OBVIOUS
<1>1. \A x, y \in Nat : x < y => <<x, y>> \in R
  BY DEF OpToRel
<1>2. IsWellFoundedOn(R, Nat)
  BY NatLessThanWellFounded
<1> HIDE DEF R
<1>3. Bad \subseteq Nat
  OBVIOUS
<1>4. PICK n \in Bad : \A m \in Bad : ~(<<m, n>> \in R)
  BY <1>2, <1>3, WFMin
<1>5. n \in Nat /\ n \notin P /\ n # 0
  BY <1>4
<1>6. n - 1 \in Nat /\ n - 1 < n /\ (n - 1) + 1 = n
  BY <1>5
<1>7. n - 1 \notin Bad
  <2> HIDE DEF Bad
  <2> QED
    BY <1>1, <1>4, <1>5, <1>6
<1> QED
  BY <1>5, <1>6, <1>7

-----------------------------------------------------------------------------
(* Sums over the slots.                                                    *)

\* The slot a sum takes next from those that are left.
Next1(s) == CHOOSE x \in s : TRUE

LEMMA Slots ==
    /\ IsFiniteSet(Kind) /\ Cardinality(Kind) \in Nat
    /\ \A s \in SUBSET Kind : IsFiniteSet(s) /\ Cardinality(s) \in Nat /\ Cardinality(s) <= Cardinality(Kind)
    /\ \A s \in SUBSET Kind : Cardinality(s) = 0 <=> s = {}
    /\ \A s \in SUBSET Kind : s # {} => Next1(s) \in s /\ s \ {Next1(s)} \in SUBSET Kind
                                        /\ Cardinality(s \ {Next1(s)}) = Cardinality(s) - 1
<1>1. IsFiniteSet(Kind) /\ Cardinality(Kind) \in Nat
  BY CatalogAssumption, FS_CardinalityType
<1>2. \A s \in SUBSET Kind : IsFiniteSet(s) /\ Cardinality(s) \in Nat /\ Cardinality(s) <= Cardinality(Kind)
  BY <1>1, FS_Subset, FS_CardinalityType
<1>3. \A s \in SUBSET Kind : Cardinality(s) = 0 <=> s = {}
  BY <1>2, FS_EmptySet
<1>4. ASSUME NEW s \in SUBSET Kind, s # {}
      PROVE  Next1(s) \in s /\ s \ {Next1(s)} \in SUBSET Kind /\ Cardinality(s \ {Next1(s)}) = Cardinality(s) - 1
  <2>1. Next1(s) \in s
    BY <1>4 DEF Next1
  <2>2. IsFiniteSet(s)
    BY <1>2
  <2> QED
    BY <2>1, <2>2, FS_RemoveElement
<1> QED
  BY <1>1, <1>2, <1>3, <1>4

LEMMA SlotsAll ==
    ASSUME NEW P, {} \in P, \A s \in SUBSET Kind : s # {} /\ s \ {Next1(s)} \in P => s \in P
    PROVE  SUBSET Kind \subseteq P
<1> DEFINE Q == {n \in Nat : \A s \in SUBSET Kind : Cardinality(s) = n => s \in P}
<1>1. 0 \in Q
  BY Slots
<1>2. ASSUME NEW n \in Nat, n \in Q PROVE n + 1 \in Q
  <2> SUFFICES ASSUME NEW s \in SUBSET Kind, Cardinality(s) = n + 1 PROVE s \in P
    OBVIOUS
  <2>1. s # {} /\ s \ {Next1(s)} \in SUBSET Kind /\ Cardinality(s \ {Next1(s)}) = n
    BY Slots
  <2>2. s \ {Next1(s)} \in P
    BY <1>2, <2>1
  <2> QED
    BY <2>1, <2>2
<1>3. Nat \subseteq Q
  <2> HIDE DEF Q
  <2> QED
    BY <1>1, <1>2, NatAll
<1>4. ASSUME NEW s \in SUBSET Kind PROVE s \in P
  <2>1. Cardinality(s) \in Q
    BY <1>3, Slots
  <2> QED
    BY <2>1
<1> QED
  BY <1>4

\* g gives the sum of f over every set of slots.
Sums(f, g) == g = [s \in SUBSET Kind |-> IF s = {} THEN 0 ELSE f[Next1(s)] + g[s \ {Next1(s)}]]
SumsTo(f, g, n) ==
    \A s \in SUBSET Kind : Cardinality(s) <= n =>
        g[s] = IF s = {} THEN 0 ELSE f[Next1(s)] + g[s \ {Next1(s)}]

LEMMA SumExists == ASSUME NEW f PROVE \E g : Sums(f, g)
<1> DEFINE P == {n \in Nat : \E g : SumsTo(f, g, n)}
<1>1. 0 \in P
  <2> DEFINE g == [s \in SUBSET Kind |-> 0]
  <2>1. \A s \in SUBSET Kind : Cardinality(s) <= 0 => s = {} /\ g[s] = 0
    BY Slots
  <2>2. SumsTo(f, g, 0)
    BY <2>1 DEF SumsTo
  <2> QED
    BY <2>2
<1>2. ASSUME NEW n \in Nat, n \in P PROVE n + 1 \in P
  <2>1. PICK g : SumsTo(f, g, n)
    BY <1>2
  <2> DEFINE h == [s \in SUBSET Kind |-> IF Cardinality(s) <= n THEN g[s] ELSE f[Next1(s)] + g[s \ {Next1(s)}]]
  <2>2. \A s \in SUBSET Kind : h[s] = IF Cardinality(s) <= n THEN g[s] ELSE f[Next1(s)] + g[s \ {Next1(s)}]
    OBVIOUS
  <2> HIDE DEF h
  <2>3. ASSUME NEW s \in SUBSET Kind, Cardinality(s) <= n + 1
        PROVE  h[s] = IF s = {} THEN 0 ELSE f[Next1(s)] + h[s \ {Next1(s)}]
    <3>1. CASE s = {}
      <4>1. Cardinality(s) <= n
        BY <3>1, Slots
      <4> QED
        BY <2>1, <2>2, <3>1, <4>1 DEF SumsTo
    <3>2. CASE s # {}
      <4> DEFINE t == s \ {Next1(s)}
      <4>1. t \in SUBSET Kind /\ Cardinality(t) <= n
        BY <2>3, <3>2, Slots
      <4>2. h[t] = g[t]
        BY <2>2, <4>1
      <4>3. CASE Cardinality(s) <= n
        BY <2>1, <2>2, <3>2, <4>2, <4>3 DEF SumsTo
      <4>4. CASE ~(Cardinality(s) <= n)
        BY <2>2, <3>2, <4>2, <4>4
      <4> QED
        BY <4>3, <4>4
    <3> QED
      BY <3>1, <3>2
  <2>4. SumsTo(f, h, n + 1)
    BY <2>3 DEF SumsTo
  <2> QED
    BY <2>4
<1>3. Nat \subseteq P
  <2> HIDE DEF P
  <2> QED
    BY <1>1, <1>2, NatAll
<1>4. PICK g : SumsTo(f, g, Cardinality(Kind))
  BY <1>3, Slots
<1> DEFINE h == [s \in SUBSET Kind |-> g[s]]
<1>5. ASSUME NEW s \in SUBSET Kind
      PROVE  h[s] = IF s = {} THEN 0 ELSE f[Next1(s)] + h[s \ {Next1(s)}]
  BY <1>4, Slots DEF SumsTo
<1>6. Sums(f, h)
  <2>1. h = [s \in SUBSET Kind |-> h[s]]
    OBVIOUS
  <2> HIDE DEF h
  <2> QED
    BY <1>5, <2>1 DEF Sums
<1> QED
  BY <1>6

\* The sum over all the slots, taken slot by slot.
LEMMA SumUnfolds ==
    ASSUME NEW f, DOMAIN f = Kind
    PROVE  \E g : /\ SumFunction(f) = g[Kind]
                  /\ g[{}] = 0
                  /\ \A s \in SUBSET Kind : s # {} => g[s] = f[Next1(s)] + g[s \ {Next1(s)}]
<1> DEFINE g == CHOOSE g : Sums(f, g)
<1>1. Sums(f, g)
  BY SumExists
<1>2. SumFunction(f) = g[Kind]
  BY DEF SumFunction, SumFunctionOnSet, FoldFunctionOnSet, MapThenFoldSet, Sums, Next1
<1> HIDE DEF g
<1>3. \A s \in SUBSET Kind : g[s] = IF s = {} THEN 0 ELSE f[Next1(s)] + g[s \ {Next1(s)}]
  BY <1>1 DEF Sums
<1> QED
  BY <1>2, <1>3

LEMMA SumIsNat == ASSUME NEW f \in [Kind -> Nat] PROVE SumFunction(f) \in Nat
<1>1. PICK g : /\ SumFunction(f) = g[Kind]
               /\ g[{}] = 0
               /\ \A s \in SUBSET Kind : s # {} => g[s] = f[Next1(s)] + g[s \ {Next1(s)}]
  BY SumUnfolds
<1> DEFINE P == {s \in SUBSET Kind : g[s] \in Nat}
<1>2. {} \in P
  BY <1>1
<1>3. ASSUME NEW s \in SUBSET Kind, s # {}, s \ {Next1(s)} \in P PROVE s \in P
  <2>1. f[Next1(s)] \in Nat
    BY <1>3, Slots
  <2>2. g[s \ {Next1(s)}] \in Nat /\ g[s] = f[Next1(s)] + g[s \ {Next1(s)}]
    BY <1>1, <1>3
  <2>3. g[s] \in Nat
    BY <2>1, <2>2
  <2> QED
    BY <2>3
<1>4. SUBSET Kind \subseteq P
  <2> HIDE DEF P
  <2> QED
    BY <1>2, <1>3, SlotsAll
<1> QED
  BY <1>1, <1>4

\* One slot's part changes the sum by as much.
LEMMA SumOfOneOther ==
    ASSUME NEW f \in [Kind -> Nat], NEW k \in Kind, NEW v \in Nat, NEW e, e = [f EXCEPT ![k] = v]
    PROVE  SumFunction(e) + f[k] = SumFunction(f) + v
<1>1. PICK g : /\ SumFunction(f) = g[Kind]
               /\ g[{}] = 0
               /\ \A s \in SUBSET Kind : s # {} => g[s] = f[Next1(s)] + g[s \ {Next1(s)}]
  BY SumUnfolds
<1>2. DOMAIN e = Kind /\ \A j \in Kind : e[j] = IF j = k THEN v ELSE f[j]
  OBVIOUS
<1>0. DOMAIN e = Kind
  BY <1>2
<1>3. PICK h : /\ SumFunction(e) = h[Kind]
               /\ h[{}] = 0
               /\ \A s \in SUBSET Kind : s # {} => h[s] = e[Next1(s)] + h[s \ {Next1(s)}]
  BY ONLY <1>0, SumUnfolds
<1> DEFINE Off(s) == /\ g[s] \in Nat /\ h[s] \in Nat
                     /\ k \in s => h[s] + f[k] = g[s] + v
                     /\ k \notin s => h[s] = g[s]
           P == {s \in SUBSET Kind : Off(s)}
<1>4. {} \in P
  BY <1>1, <1>3
<1>5. ASSUME NEW s \in SUBSET Kind, s # {}, s \ {Next1(s)} \in P PROVE s \in P
  <2> DEFINE j == Next1(s)
             t == s \ {j}
  <2>1. j \in s /\ j \in Kind /\ f[j] \in Nat /\ f[k] \in Nat
    BY <1>5, Slots
  <2>2. g[s] = f[j] + g[t] /\ h[s] = e[j] + h[t] /\ e[j] = (IF j = k THEN v ELSE f[j]) /\ e[j] \in Nat
    BY <1>1, <1>2, <1>3, <1>5, <2>1
  <2>3. Off(t)
    BY <1>5
  <2>4. j \notin t /\ (k \in s <=> k = j \/ k \in t)
    BY <2>1
  <2> HIDE DEF t
  <2>5. g[s] \in Nat /\ h[s] \in Nat
    BY <2>1, <2>2, <2>3
  <2>6. CASE j = k
    BY <2>1, <2>2, <2>3, <2>4, <2>5, <2>6
  <2>7. CASE j # k
    BY <2>1, <2>2, <2>3, <2>4, <2>5, <2>7
  <2> QED
    BY <2>6, <2>7
<1>6. SUBSET Kind \subseteq P
  <2> HIDE DEF P
  <2> QED
    BY <1>4, <1>5, SlotsAll
<1>7. Off(Kind)
  BY <1>6
<1> QED
  BY <1>1, <1>3, <1>7

-----------------------------------------------------------------------------
(* Purse and equipment.                                                    *)

Slotted == Item \cup {Empty}
Wardrobe == [Kind -> Slotted]
Shopper == [flow : Nat, equipped_item : Wardrobe, hp : Nat, max_hp : Nat]
Value(x, value) == IF x = Empty THEN 0 ELSE value[x]

LEMMA Catalog ==
    /\ KindOf \in [Item -> Kind] /\ Cost \in [Item -> Nat] /\ Hp \in [Item -> Nat]
    /\ Templates \subseteq Seq(Item) /\ Empty \notin Item
    /\ BaseHp \in Nat \ {0} /\ Blow \in Nat /\ Bounty \in Nat /\ MaxEarned \in Nat
BY CatalogAssumption

LEMMA WornIsNat ==
    ASSUME NEW w \in Wardrobe, NEW value \in [Item -> Nat]
    PROVE  Worn(w, value) \in Nat
<1> DEFINE f == [k \in Kind |-> IF w[k] = Empty THEN 0 ELSE value[w[k]]]
<1>1. f \in [Kind -> Nat]
  BY DEF Wardrobe, Slotted
<1> HIDE DEF f
<1>2. SumFunction(f) \in Nat
  BY <1>1, SumIsNat
<1> QED
  BY <1>2 DEF Worn, f

LEMMA WornOther ==
    ASSUME NEW w \in Wardrobe, NEW value \in [Item -> Nat], NEW k \in Kind, NEW x \in Slotted,
           NEW other, other = [w EXCEPT ![k] = x]
    PROVE  other \in Wardrobe /\ Worn(other, value) + Value(w[k], value) = Worn(w, value) + Value(x, value)
<1> DEFINE f == [j \in Kind |-> IF w[j] = Empty THEN 0 ELSE value[w[j]]]
           e == [j \in Kind |-> IF other[j] = Empty THEN 0 ELSE value[other[j]]]
           v == Value(x, value)
<1>1. other \in Wardrobe /\ (\A j \in Kind : other[j] = IF j = k THEN x ELSE w[j])
  BY DEF Wardrobe
<1>2. f \in [Kind -> Nat] /\ v \in Nat
  BY DEF Wardrobe, Slotted, Value
<1>3. f[k] = Value(w[k], value)
  BY DEF Value
<1>4. e = [f EXCEPT ![k] = v]
  <2>1. \A j \in Kind : e[j] = IF j = k THEN v ELSE f[j]
    BY <1>1 DEF Value
  <2>2. DOMAIN e = Kind /\ DOMAIN f = Kind
    OBVIOUS
  <2>3. e = [j \in Kind |-> e[j]]
    OBVIOUS
  <2> HIDE DEF e, f, v
  <2> QED
    BY <1>2, <2>1, <2>2, <2>3
<1>5. Worn(other, value) = SumFunction(e) /\ Worn(w, value) = SumFunction(f)
  BY DEF Worn
<1> HIDE DEF e, f, v
<1>6. SumFunction(e) + f[k] = SumFunction(f) + v
  BY <1>2, <1>4, SumOfOneOther
<1>7. Worn(other, value) + Value(w[k], value) = Worn(w, value) + v
  BY <1>3, <1>5, <1>6
<1> QED
  BY <1>1, <1>7 DEF v

InItsSlot(h) == \A k \in Kind : h.equipped_item[k] # Empty => KindOf[h.equipped_item[k]] = k
Fitted(h) == h \in Shopper /\ InItsSlot(h) /\ h.max_hp = BaseHp + BonusHp(h) /\ h.hp <= h.max_hp

LEMMA BonusIsNat == ASSUME NEW h \in Shopper PROVE BonusHp(h) \in Nat
BY Catalog, WornIsNat DEF BonusHp, Shopper

LEMMA RefitFits ==
    ASSUME NEW h \in Shopper, InItsSlot(h)
    PROVE  /\ Fitted(Refit(h)) /\ Refit(h).hp > 0
           /\ Refit(h).flow = h.flow /\ Refit(h).equipped_item = h.equipped_item
<1> DEFINE max == BaseHp + BonusHp(h)
           hp == Greater(1, Lesser(max, h.hp + max - h.max_hp))
           r == [h EXCEPT !.max_hp = max, !.hp = hp]
<1>1. max \in Nat /\ max >= 1
  BY Catalog, BonusIsNat
<1>2. Refit(h) = r
  BY DEF Refit
<1>3. hp \in Nat /\ hp >= 1 /\ hp <= max
  <2>1. h.hp \in Nat /\ h.max_hp \in Nat
    BY DEF Shopper
  <2> HIDE DEF max
  <2> QED
    BY <1>1, <2>1 DEF Greater, Lesser
<1>4. BonusHp(h) = Worn(h.equipped_item, Hp)
  BY DEF BonusHp
<1> HIDE DEF hp
<1>5. max = BaseHp + Worn(h.equipped_item, Hp)
  BY <1>4
<1> HIDE DEF max
<1>6. r \in Shopper /\ r.max_hp = max /\ r.hp = hp /\ r.flow = h.flow /\ r.equipped_item = h.equipped_item
  BY <1>1, <1>3 DEF Shopper
<1> HIDE DEF r
<1>7. BonusHp(r) = Worn(h.equipped_item, Hp)
  BY <1>6 DEF BonusHp
<1>8. InItsSlot(r)
  BY <1>6 DEF InItsSlot
<1> QED
  BY <1>2, <1>3, <1>5, <1>6, <1>7, <1>8 DEF Fitted

LEMMA RefundIsHalf ==
    ASSUME NEW h \in Shopper, NEW k \in Kind
    PROVE  Refund(h, k) \in Nat /\ Refund(h, k) <= Value(h.equipped_item[k], Cost)
<1>1. h.equipped_item[k] \in Slotted
  BY DEF Shopper, Wardrobe
<1>2. CASE h.equipped_item[k] = Empty
  BY <1>2 DEF Refund, Value
<1>3. CASE h.equipped_item[k] # Empty
  <2> DEFINE c == Cost[h.equipped_item[k]]
  <2>1. c \in Nat
    BY <1>1, <1>3, Catalog DEF Slotted
  <2>2. Refund(h, k) = (c * 50) \div 100 /\ Value(h.equipped_item[k], Cost) = c
    BY <1>3 DEF Refund, Value
  <2> HIDE DEF c
  <2>3. (c * 50) \div 100 \in Nat /\ (c * 50) \div 100 <= c
    BY <2>1
  <2> QED
    BY <2>2, <2>3
<1> QED
  BY <1>2, <1>3

\* The hero with another purse and something else in a slot.
Redressed(h, f, k, x) == [h EXCEPT !.flow = f, !.equipped_item = Wearing(h, k, x)]
LEMMA Dressed ==
    ASSUME NEW h \in Shopper, InItsSlot(h), NEW k \in Kind, NEW x \in Slotted, x = Empty \/ KindOf[x] = k,
           NEW f \in Nat, NEW r, r = Refit(Redressed(h, f, k, x))
    PROVE  /\ Fitted(r) /\ r.hp > 0 /\ r.flow = f /\ r.equipped_item = Wearing(h, k, x)
           /\ Worn(r.equipped_item, Cost) + Value(h.equipped_item[k], Cost)
                 = Worn(h.equipped_item, Cost) + Value(x, Cost)
<1> DEFINE w == Wearing(h, k, x)
           d == [h EXCEPT !.flow = f, !.equipped_item = w]
<1>1. h.equipped_item \in Wardrobe
  BY DEF Shopper
<1>2. /\ w \in Wardrobe
      /\ Worn(w, Cost) + Value(h.equipped_item[k], Cost) = Worn(h.equipped_item, Cost) + Value(x, Cost)
  <2>1. w = [h.equipped_item EXCEPT ![k] = x] /\ Cost \in [Item -> Nat]
    BY Catalog DEF Wearing
  <2> HIDE DEF w
  <2> QED
    BY <1>1, <2>1, WornOther
<1>3. \A j \in Kind : w[j] = IF j = k THEN x ELSE h.equipped_item[j]
  BY <1>1 DEF Wearing, Wardrobe
<1> HIDE DEF w
<1>4. d \in Shopper /\ d.flow = f /\ d.equipped_item = w
  BY <1>2 DEF Shopper
<1>5. r = Refit(d)
  BY DEF w, Redressed
<1> HIDE DEF d
<1>6. InItsSlot(d)
  BY <1>3, <1>4 DEF InItsSlot
<1>7. Fitted(r) /\ r.hp > 0 /\ r.flow = f /\ r.equipped_item = w
  BY <1>4, <1>5, <1>6, RefitFits
<1> QED
  BY <1>2, <1>7 DEF w

LEMMA SellFits ==
    ASSUME NEW h \in Shopper, InItsSlot(h), NEW k \in Kind
    PROVE  /\ Fitted(AfterSell(h, k)) /\ AfterSell(h, k).hp > 0
           /\ Worth(AfterSell(h, k)) <= Worth(h)
<1> DEFINE f == h.flow + Refund(h, k)
           r == AfterSell(h, k)
<1>1. h.flow \in Nat /\ Refund(h, k) \in Nat /\ Refund(h, k) <= Value(h.equipped_item[k], Cost) /\ f \in Nat
  BY RefundIsHalf DEF Shopper
<1>2. Empty \in Slotted
  BY DEF Slotted
<1>3. r = Refit(Redressed(h, f, k, Empty))
  BY DEF AfterSell, Redressed
<1> HIDE DEF r
<1>4. f = h.flow + Refund(h, k)
  OBVIOUS
<1> HIDE DEF f
<1>5. /\ Fitted(r) /\ r.hp > 0 /\ r.flow = f
      /\ Worn(r.equipped_item, Cost) + Value(h.equipped_item[k], Cost) = Worn(h.equipped_item, Cost) + Value(Empty, Cost)
  BY <1>1, <1>2, <1>3, Dressed
<1>6. Worn(r.equipped_item, Cost) \in Nat /\ Worn(h.equipped_item, Cost) \in Nat /\ Value(h.equipped_item[k], Cost) \in Nat
  BY <1>5, Catalog, WornIsNat DEF Fitted, Shopper, Value, Wardrobe, Slotted
<1>7. Value(Empty, Cost) = 0
  BY DEF Value
<1>8. Worth(r) <= Worth(h)
  BY <1>1, <1>4, <1>5, <1>6, <1>7 DEF Worth
<1> QED
  BY <1>5, <1>8 DEF r

LEMMA BuyFits ==
    ASSUME NEW h, Fitted(h), h.hp > 0, NEW i \in Item
    PROVE  /\ Fitted(AfterBuy(h, i)) /\ AfterBuy(h, i).hp > 0
           /\ Affords(h, i) => Worth(AfterBuy(h, i)) <= Worth(h)
<1> DEFINE k == KindOf[i]
           purse == h.flow + Refund(h, k)
           f == purse - Cost[i]
           r == AfterBuy(h, i)
<1>1. h \in Shopper /\ InItsSlot(h) /\ k \in Kind /\ Cost[i] \in Nat /\ i # Empty /\ i \in Slotted
  BY Catalog DEF Fitted, Slotted
<1>2. h.flow \in Nat /\ Refund(h, k) \in Nat /\ Refund(h, k) <= Value(h.equipped_item[k], Cost) /\ purse \in Nat
  BY <1>1, RefundIsHalf DEF Shopper
<1>3. CASE Affords(h, i)
  <2>1. f \in Nat
    BY <1>1, <1>2, <1>3 DEF Affords
  <2>2. r = Refit(Redressed(h, f, k, i))
    BY <1>3 DEF AfterBuy, Redressed
  <2>3. f = (h.flow + Refund(h, k)) - Cost[i]
    OBVIOUS
  <2>4. KindOf[i] = k
    OBVIOUS
  <2> HIDE DEF r, f, purse, k
  <2>5. /\ Fitted(r) /\ r.hp > 0 /\ r.flow = f
        /\ Worn(r.equipped_item, Cost) + Value(h.equipped_item[k], Cost) = Worn(h.equipped_item, Cost) + Value(i, Cost)
    BY <1>1, <2>1, <2>2, <2>4, Dressed
  <2>6. Worn(r.equipped_item, Cost) \in Nat /\ Worn(h.equipped_item, Cost) \in Nat /\ Value(h.equipped_item[k], Cost) \in Nat
    BY <1>1, <2>5, Catalog, WornIsNat DEF Fitted, Shopper, Value, Wardrobe, Slotted
  <2>7. Value(i, Cost) = Cost[i]
    BY <1>1 DEF Value
  <2>8. Worth(r) <= Worth(h)
    BY <1>1, <1>2, <2>3, <2>5, <2>6, <2>7 DEF Worth
  <2> QED
    BY <2>5, <2>8 DEF r
<1>4. CASE ~Affords(h, i)
  <2>1. r = [h EXCEPT !.flow = purse]
    BY <1>4 DEF AfterBuy
  <2> HIDE DEF r, purse
  <2>2. r \in Shopper /\ r.equipped_item = h.equipped_item /\ r.hp = h.hp /\ r.max_hp = h.max_hp
    BY <1>1, <1>2, <2>1 DEF Shopper
  <2>3. BonusHp(r) = BonusHp(h) /\ InItsSlot(r)
    BY <1>1, <2>2 DEF BonusHp, InItsSlot
  <2>4. Fitted(r) /\ r.hp > 0
    BY <2>2, <2>3 DEF Fitted
  <2> QED
    BY <1>4, <2>4 DEF r
<1> QED
  BY <1>3, <1>4

\* A round of shopping: where s has come to after each item of the template t.
Basket(h, t, s, n) ==
    IF n = 0 THEN [hero |-> h, stopped |-> FALSE]
    ELSE IF s[n - 1].stopped \/ s[n - 1].hero.equipped_item[KindOf[t[n]]] = t[n] THEN s[n - 1]
    ELSE Bought(s[n - 1], t[n])

LEMMA ShoppingLoop ==
    ASSUME NEW h, NEW t \in Seq(Item)
    PROVE  \E s : /\ AfterTemplate(h, t) = s[Len(t)].hero
                  /\ \A n \in 0..Len(t) : s[n] = Basket(h, t, s, n)
<1> DEFINE Upto(s, k) == \A n \in 0..k : s[n] = Basket(h, t, s, n)
           P == {k \in Nat : \E s : Upto(s, k)}
<1>1. 0 \in P
  <2> DEFINE s == [n \in 0..0 |-> [hero |-> h, stopped |-> FALSE]]
  <2>1. Upto(s, 0)
    BY DEF Basket
  <2> QED
    BY <2>1
<1>2. ASSUME NEW k \in Nat, k \in P PROVE k + 1 \in P
  <2>1. PICK s : Upto(s, k)
    BY <1>2
  <2> DEFINE newest == Basket(h, t, s, k + 1)
             r == [n \in 0..(k + 1) |-> IF n = k + 1 THEN newest ELSE s[n]]
  <2>2. \A n \in 0..(k + 1) : r[n] = IF n = k + 1 THEN newest ELSE s[n]
    OBVIOUS
  <2> HIDE DEF r
  <2>3. ASSUME NEW n \in 0..(k + 1) PROVE r[n] = Basket(h, t, r, n)
    <3>1. CASE n = 0
      <4>1. n \in 0..k /\ n # k + 1
        BY <3>1
      <4> QED
        BY <2>1, <2>2, <3>1, <4>1 DEF Basket
    <3>2. CASE n # 0
      <4>1. n - 1 \in 0..(k + 1) /\ n - 1 # k + 1
        BY <3>2
      <4>2. r[n - 1] = s[n - 1]
        BY ONLY <2>2, <4>1
      <4>3. Basket(h, t, r, n) = Basket(h, t, s, n)
        BY <3>2, <4>2 DEF Basket
      <4>4. CASE n = k + 1
        <5>1. r[n] = newest
          BY <2>2, <4>4
        <5> QED
          BY <4>3, <4>4, <5>1
      <4>5. CASE n # k + 1
        <5>1. n \in 0..k
          BY <4>5
        <5>2. r[n] = s[n]
          BY <2>2, <4>5
        <5>3. s[n] = Basket(h, t, s, n)
          BY ONLY <2>1, <5>1
        <5> QED
          BY <4>3, <5>2, <5>3
      <4> QED
        BY <4>4, <4>5
    <3> QED
      BY <3>1, <3>2
  <2> HIDE DEF newest
  <2>4. Upto(r, k + 1)
    BY <2>3
  <2> QED
    BY <2>4
<1>3. Nat \subseteq P
  <2> HIDE DEF P
  <2> QED
    BY <1>1, <1>2, NatAll
<1>4. Len(t) \in Nat
  OBVIOUS
<1>5. PICK s : Upto(s, Len(t))
  BY <1>3, <1>4
<1> DEFINE Solves(r) == r = [n \in 0..Len(t) |-> Basket(h, t, r, n)]
           r == [n \in 0..Len(t) |-> s[n]]
<1>6. Solves(r)
  <2>1. \A n \in 0..Len(t) : r[n] = s[n]
    OBVIOUS
  <2>2. r = [n \in 0..Len(t) |-> r[n]]
    OBVIOUS
  <2> HIDE DEF r
  <2>3. ASSUME NEW n \in 0..Len(t) PROVE r[n] = Basket(h, t, r, n)
    <3>1. CASE n = 0
      BY <1>5, <2>1, <3>1 DEF Basket
    <3>2. CASE n # 0
      <4>1. n - 1 \in 0..Len(t)
        BY <1>4, <3>2
      <4>2. r[n - 1] = s[n - 1] /\ r[n] = s[n]
        BY ONLY <2>1, <2>3, <4>1
      <4>3. Basket(h, t, r, n) = Basket(h, t, s, n)
        BY <3>2, <4>2 DEF Basket
      <4> QED
        BY <1>5, <4>2, <4>3
    <3> QED
      BY <3>1, <3>2
  <2> QED
    BY <2>2, <2>3
<1> DEFINE q == CHOOSE q : Solves(q)
<1> HIDE DEF r
<1>7. Solves(q)
  BY <1>6
<1>8. AfterTemplate(h, t) = q[Len(t)].hero
  BY DEF AfterTemplate, Basket
<1> HIDE DEF q
<1>9. \A n \in 0..Len(t) : q[n] = Basket(h, t, q, n)
  BY <1>7
<1> QED
  BY <1>8, <1>9

LEMMA TemplateFits ==
    ASSUME NEW h, Fitted(h), h.hp > 0, NEW t \in Seq(Item)
    PROVE  Fitted(AfterTemplate(h, t)) /\ AfterTemplate(h, t).hp > 0
<1>1. PICK s : /\ AfterTemplate(h, t) = s[Len(t)].hero
               /\ \A n \in 0..Len(t) : s[n] = Basket(h, t, s, n)
  BY ShoppingLoop
<1> DEFINE P == {n \in Nat : n <= Len(t) => Fitted(s[n].hero) /\ s[n].hero.hp > 0}
<1>2. 0 \in P
  <2>1. 0 \in 0..Len(t)
    OBVIOUS
  <2>2. s[0] = [hero |-> h, stopped |-> FALSE]
    BY <1>1, <2>1 DEF Basket
  <2> QED
    BY <2>2
<1>3. ASSUME NEW n \in Nat, n \in P PROVE n + 1 \in P
  <2> SUFFICES ASSUME n + 1 <= Len(t) PROVE Fitted(s[n + 1].hero) /\ s[n + 1].hero.hp > 0
    OBVIOUS
  <2>1. n + 1 \in 0..Len(t) /\ n + 1 \in 1..Len(t) /\ (n + 1) - 1 = n /\ n + 1 # 0 /\ n <= Len(t)
    OBVIOUS
  <2>2. Fitted(s[n].hero) /\ s[n].hero.hp > 0
    BY <1>3, <2>1
  <2>3. t[n + 1] \in Item
    BY <2>1
  <2>4. s[n + 1] = s[n] \/ s[n + 1] = Bought(s[n], t[n + 1])
    BY <1>1, <2>1 DEF Basket
  <2>5. Bought(s[n], t[n + 1]).hero = AfterBuy(s[n].hero, t[n + 1])
    BY DEF Bought
  <2> QED
    BY <2>2, <2>3, <2>4, <2>5, BuyFits
<1>4. Nat \subseteq P
  <2> HIDE DEF P
  <2> QED
    BY <1>2, <1>3, NatAll
<1>5. Len(t) \in Nat
  OBVIOUS
<1> QED
  BY <1>1, <1>4, <1>5

\* Who wears all of a template buys none of it.
LEMMA TemplateSkips ==
    ASSUME NEW h, NEW t \in Seq(Item), \A j \in DOMAIN t : h.equipped_item[KindOf[t[j]]] = t[j]
    PROVE  AfterTemplate(h, t) = h
<1>1. PICK s : /\ AfterTemplate(h, t) = s[Len(t)].hero
               /\ \A n \in 0..Len(t) : s[n] = Basket(h, t, s, n)
  BY ShoppingLoop
<1> DEFINE P == {n \in Nat : n <= Len(t) => s[n].hero = h}
<1>2. 0 \in P
  <2>1. 0 \in 0..Len(t)
    OBVIOUS
  <2>2. s[0] = [hero |-> h, stopped |-> FALSE]
    BY <1>1, <2>1 DEF Basket
  <2> QED
    BY <2>2
<1>3. ASSUME NEW n \in Nat, n \in P PROVE n + 1 \in P
  <2> SUFFICES ASSUME n + 1 <= Len(t) PROVE s[n + 1].hero = h
    OBVIOUS
  <2>1. n + 1 \in 0..Len(t) /\ n + 1 \in DOMAIN t /\ (n + 1) - 1 = n /\ n + 1 # 0 /\ n <= Len(t)
    OBVIOUS
  <2>2. s[n].hero = h
    BY <1>3, <2>1
  <2>3. s[n].hero.equipped_item[KindOf[t[n + 1]]] = t[n + 1]
    BY <2>1, <2>2
  <2>4. s[n + 1] = s[n]
    BY <1>1, <2>1, <2>3 DEF Basket
  <2> QED
    BY <2>2, <2>4
<1>4. Nat \subseteq P
  <2> HIDE DEF P
  <2> QED
    BY <1>2, <1>3, NatAll
<1>5. Len(t) \in Nat
  OBVIOUS
<1> QED
  BY <1>1, <1>4, <1>5

ShopIInv ==
    /\ Fitted(hero) /\ (alive <=> hero.hp > 0)
    /\ alive \in BOOLEAN /\ in_shop \in BOOLEAN /\ flow_earned \in 0 .. MaxEarned

LEMMA ShopInitIInv == ShopInit => ShopIInv
<1> SUFFICES ASSUME ShopInit PROVE ShopIInv
  OBVIOUS
<1>1. Bare \in Wardrobe /\ \A k \in Kind : Bare[k] = Empty
  BY DEF Bare, Wardrobe, Slotted
<1>2. hero \in Shopper /\ hero.equipped_item = Bare /\ hero.hp = BaseHp /\ hero.max_hp = BaseHp
  BY <1>1, Catalog DEF ShopInit, Shopper
<1>3. BonusHp(hero) = 0
  <2> DEFINE f == [k \in Kind |-> IF Bare[k] = Empty THEN 0 ELSE Hp[Bare[k]]]
  <2>1. \A k \in Kind : f[k] = 0
    BY <1>1
  <2>2. DOMAIN f = Kind
    OBVIOUS
  <2> HIDE DEF f
  <2>3. PICK g : /\ SumFunction(f) = g[Kind]
                 /\ g[{}] = 0
                 /\ \A s \in SUBSET Kind : s # {} => g[s] = f[Next1(s)] + g[s \ {Next1(s)}]
    BY <2>2, SumUnfolds
  <2> DEFINE P == {s \in SUBSET Kind : g[s] = 0}
  <2>4. {} \in P
    BY <2>3
  <2>5. ASSUME NEW s \in SUBSET Kind, s # {}, s \ {Next1(s)} \in P PROVE s \in P
    <3>1. Next1(s) \in Kind
      BY <2>5, Slots
    <3>2. f[Next1(s)] = 0 /\ g[s \ {Next1(s)}] = 0 /\ g[s] = f[Next1(s)] + g[s \ {Next1(s)}]
      BY <2>1, <2>3, <2>5, <3>1
    <3>3. g[s] = 0
      BY <3>2
    <3> QED
      BY <3>3
  <2>6. SUBSET Kind \subseteq P
    <3> HIDE DEF P
    <3> QED
      BY <2>4, <2>5, SlotsAll
  <2>7. SumFunction(f) = 0
    BY <2>3, <2>6
  <2> QED
    BY <1>2, <2>7 DEF BonusHp, Worn, f
<1>4. Fitted(hero)
  BY <1>1, <1>2, <1>3, Catalog DEF Fitted, InItsSlot
<1> QED
  BY <1>2, <1>4, Catalog DEF ShopInit, ShopIInv

\* Flow comes and hit points go: nothing that is worn changes.
LEMMA SameClothes ==
    ASSUME NEW h, Fitted(h), NEW r \in Shopper, r.equipped_item = h.equipped_item, r.max_hp = h.max_hp, r.hp <= h.max_hp
    PROVE  Fitted(r)
BY DEF Fitted, BonusHp, InItsSlot

LEMMA ShopNextIInv == ShopIInv /\ [ShopNext]_shopVars => ShopIInv'
<1> SUFFICES ASSUME ShopIInv, [ShopNext]_shopVars PROVE ShopIInv'
  OBVIOUS
<1>1. /\ Fitted(hero) /\ (alive <=> hero.hp > 0)
      /\ alive \in BOOLEAN /\ in_shop \in BOOLEAN /\ flow_earned \in 0 .. MaxEarned
  BY DEF ShopIInv
<1>2. /\ hero \in Shopper /\ InItsSlot(hero) /\ hero.flow \in Nat /\ hero.hp \in Nat /\ hero.max_hp \in Nat
      /\ hero.hp <= hero.max_hp /\ hero.max_hp >= 1
  BY <1>1, Catalog, BonusIsNat DEF Fitted, Shopper
<1>3. ASSUME NEW r, Fitted(r), r.hp > 0, hero' = r, alive, UNCHANGED <<alive, in_shop, flow_earned>> PROVE ShopIInv'
  BY <1>1, <1>3 DEF ShopIInv, Fitted, InItsSlot, BonusHp
<1>4. ASSUME NEW i \in Item, Buy(i) PROVE ShopIInv'
  BY <1>1, <1>3, <1>4, BuyFits DEF Buy
<1>5. ASSUME NEW k \in Kind, Sell(k) PROVE ShopIInv'
  BY <1>2, <1>3, <1>5, SellFits DEF Sell
<1>6. ASSUME NEW t \in Templates, ApplyTemplate(t) PROVE ShopIInv'
  <2>1. t \in Seq(Item)
    BY Catalog
  <2> QED
    BY <1>1, <1>3, <1>6, <2>1, TemplateFits DEF ApplyTemplate
<1>7. CASE Earn
  <2> DEFINE f == hero.flow + Bounty
             r == [hero EXCEPT !.flow = f]
  <2>1. f \in Nat /\ flow_earned + Bounty \in 0 .. MaxEarned
    BY <1>1, <1>2, <1>7, Catalog DEF Earn
  <2>2. hero' = r
    BY <1>7 DEF Earn
  <2> HIDE DEF f
  <2>3. r \in Shopper /\ r.equipped_item = hero.equipped_item /\ r.max_hp = hero.max_hp /\ r.hp = hero.hp
    BY <1>2, <2>1 DEF Shopper
  <2> HIDE DEF r
  <2>4. Fitted(r)
    BY <1>1, <1>2, <2>3, SameClothes
  <2> QED
    BY <1>1, <1>7, <2>1, <2>2, <2>3, <2>4 DEF Earn, ShopIInv, Fitted, InItsSlot, BonusHp
<1>8. CASE TakeDamage
  <2> DEFINE n == Greater(0, hero.hp - Blow)
             r == [hero EXCEPT !.hp = n]
  <2>1. n \in Nat /\ n <= hero.max_hp
    BY <1>2, Catalog DEF Greater
  <2>2. hero' = r
    BY <1>8 DEF TakeDamage
  <2> HIDE DEF n
  <2>3. r \in Shopper /\ r.equipped_item = hero.equipped_item /\ r.max_hp = hero.max_hp /\ r.hp = n
    BY <1>2, <2>1 DEF Shopper
  <2> HIDE DEF r
  <2>4. Fitted(r)
    BY <1>1, <1>2, <2>1, <2>3, SameClothes
  <2>5. alive' \in BOOLEAN /\ (alive' <=> hero'.hp > 0) /\ UNCHANGED <<in_shop, flow_earned>>
    <3>1. alive' = (hero'.hp > 0) /\ UNCHANGED <<in_shop, flow_earned>>
      BY <1>8 DEF TakeDamage
    <3>2. (hero'.hp > 0) \in BOOLEAN
      OBVIOUS
    <3>3. alive' \in BOOLEAN /\ (alive' <=> hero'.hp > 0)
      BY ONLY <3>1, <3>2
    <3> QED
      BY <3>1, <3>3
  <2> QED
    BY <1>1, <2>2, <2>4, <2>5 DEF ShopIInv, Fitted, InItsSlot, BonusHp
<1>9. CASE Heal
  <2> DEFINE n == Lesser(hero.max_hp, hero.hp + 1)
             r == [hero EXCEPT !.hp = n]
  <2>1. n \in Nat /\ n <= hero.max_hp /\ n > 0
    BY <1>2 DEF Lesser
  <2>2. hero' = r
    BY <1>9 DEF Heal
  <2> HIDE DEF n
  <2>3. r \in Shopper /\ r.equipped_item = hero.equipped_item /\ r.max_hp = hero.max_hp /\ r.hp = n
    BY <1>2, <2>1 DEF Shopper
  <2> HIDE DEF r
  <2>4. Fitted(r)
    BY <1>1, <1>2, <2>1, <2>3, SameClothes
  <2> QED
    BY <1>3, <1>9, <2>1, <2>2, <2>3, <2>4 DEF Heal
<1>10. CASE Respawn
  <2> DEFINE d == [hero EXCEPT !.hp = BaseHp, !.max_hp = BaseHp]
  <2>1. d \in Shopper /\ d.equipped_item = hero.equipped_item
    BY <1>2, Catalog DEF Shopper
  <2>2. hero' = Refit(d) /\ alive' = TRUE /\ in_shop' \in BOOLEAN /\ flow_earned' = flow_earned
    BY <1>10 DEF Respawn
  <2> HIDE DEF d
  <2>3. InItsSlot(d)
    BY <1>2, <2>1 DEF InItsSlot
  <2>4. Fitted(Refit(d)) /\ Refit(d).hp > 0
    BY <2>1, <2>3, RefitFits
  <2> QED
    BY <1>1, <2>2, <2>4 DEF ShopIInv, Fitted, InItsSlot, BonusHp
<1>11. CASE Walk
  BY <1>1, <1>11 DEF Walk, ShopIInv, Fitted, InItsSlot, BonusHp
<1>12. CASE UNCHANGED shopVars
  BY <1>1, <1>12 DEF shopVars, ShopIInv, Fitted, InItsSlot, BonusHp
<1> QED
  BY <1>4, <1>5, <1>6, <1>7, <1>8, <1>9, <1>10, <1>11, <1>12 DEF ShopNext

\* Whatever is bought, sold, worn by a template, lost and come back to, a hero's hit points are those
\* of what it wears, and a template that is worn buys nothing (arena_recompute_item_stats,
\* arena_shop_buy, arena_shop_sell, arena_hero_apply_build_template, arena_respawn_hero).
THEOREM ShopIsSound == ShopSpec => []ShopInv
<1>1. ShopIInv => ShopInv
  <2> SUFFICES ASSUME ShopIInv PROVE ShopInv
    OBVIOUS
  <2>1. ShopTypeOK
    BY DEF ShopIInv, Fitted, InItsSlot, Shopper, Wardrobe, Slotted, ShopTypeOK
  <2>2. HpFollowsEquipment
    BY DEF ShopIInv, Fitted, HpFollowsEquipment
  <2>3. TemplateIdempotent
    <3> SUFFICES ASSUME NEW t \in Templates,
                        \A j \in DOMAIN t : AfterTemplate(hero, t).equipped_item[KindOf[t[j]]] = t[j]
                 PROVE  AfterTemplate(AfterTemplate(hero, t), t) = AfterTemplate(hero, t)
      BY DEF TemplateIdempotent
    <3>1. t \in Seq(Item)
      BY Catalog
    <3> QED
      BY <3>1, TemplateSkips
  <2> QED
    BY <2>1, <2>2, <2>3 DEF ShopInv
<1> QED
  BY <1>1, ShopInitIInv, ShopNextIInv, PTL DEF ShopSpec

LEMMA TradesLose ==
    ASSUME ShopIInv, (\E i \in Item : Buy(i) /\ Affords(hero, i)) \/ (\E k \in Kind : Sell(k))
    PROVE  Worth(hero') <= Worth(hero)
<1>1. Fitted(hero) /\ (alive => hero.hp > 0) /\ hero \in Shopper /\ InItsSlot(hero)
  BY DEF ShopIInv, Fitted
<1>2. ASSUME NEW i \in Item, Buy(i), Affords(hero, i) PROVE Worth(hero') <= Worth(hero)
  BY <1>1, <1>2, BuyFits DEF Buy
<1>3. ASSUME NEW k \in Kind, Sell(k) PROVE Worth(hero') <= Worth(hero)
  BY <1>1, <1>3, SellFits DEF Sell
<1> QED
  BY <1>2, <1>3

\* No purchase that takes place and no sale makes a hero richer, in any catalog
\* (arena_shop_buy, arena_shop_sell).
THEOREM TradesAreFair == ShopSpec => TradesCostWorth
<1>1. ShopIInv /\ [ShopNext]_shopVars =>
          [hero' # hero /\ ((\E i \in Item : Buy(i) /\ Affords(hero, i)) \/ (\E k \in Kind : Sell(k)))
              => Worth(hero') <= Worth(hero)]_shopVars
  BY TradesLose
<1> QED
  BY <1>1, ShopInitIInv, ShopNextIInv, PTL DEF ShopSpec, TradesCostWorth

-----------------------------------------------------------------------------
(* The kits.  No way of any ability, zone, aura or fuse does harm without  *)
(* having asked whether the foe it found can be hit.                       *)

Asks(way) == way.does \cap Harmful # {} => "foe" \in way.needs
AllAsk(ways) == \A way \in ways : Asks(way)
Fair(ability) == AllAsk(ability.ways)

\* The kinds of way an ability is written with.
LEMMA WaysAsk ==
    /\ \A E : Asks(OnFoe(E)) /\ Asks(OnAnyFoe(E))
    /\ \A E : E \cap Harmful = {} =>
            /\ Asks(OnMe(E)) /\ Asks(OnAlly(E))
            /\ \A near \in BOOLEAN : Asks(Way({"enemy"}, near, E)) /\ Asks(Way({"ally"}, near, E))
    /\ \A E, F : E \cap Harmful = {} => AllAsk(Around(E, F)) /\ AllAsk(MayHit(E, F))
    /\ \A E, F : E \cap Harmful = {} => AllAsk({Way({}, TRUE, E), Way({"foe"}, TRUE, F)})
    /\ \A ways : AllAsk(ways) => Fair(Ability(ways)) /\ Fair(Dry(ways))
<1>1. \A E : Asks(OnFoe(E)) /\ Asks(OnAnyFoe(E))
  BY DEF Asks, OnFoe, OnAnyFoe, Way
<1>2. \A E : E \cap Harmful = {} =>
            /\ Asks(OnMe(E)) /\ Asks(OnAlly(E))
            /\ \A near \in BOOLEAN : Asks(Way({"enemy"}, near, E)) /\ Asks(Way({"ally"}, near, E))
  BY DEF Asks, OnMe, OnAlly, Way
<1>3. \A E : Asks(Way({"foe"}, TRUE, E)) /\ Asks(Way({"ally", "foe"}, TRUE, E))
  BY DEF Asks, Way
<1>4. \A E, F : E \cap Harmful = {} => AllAsk(Around(E, F)) /\ AllAsk(MayHit(E, F))
  BY <1>1, <1>2, <1>3 DEF AllAsk, Around, MayHit
<1>5. \A E, F : E \cap Harmful = {} => AllAsk({Way({}, TRUE, E), Way({"foe"}, TRUE, F)})
  <2>1. \A E : E \cap Harmful = {} => Asks(Way({}, TRUE, E))
    BY DEF Asks, Way
  <2> QED
    BY <1>3, <2>1 DEF AllAsk
<1>6. \A ways : AllAsk(ways) => Fair(Ability(ways)) /\ Fair(Dry(ways))
  BY DEF Fair, Ability, Dry
<1> QED
  BY <1>1, <1>2, <1>4, <1>5, <1>6

\* Abilities of one way, and of two that both need a foe.
LEMMA SimpleAbilities ==
    /\ \A E : Fair(Ability({OnFoe(E)})) /\ Fair(Ability({OnAnyFoe(E)})) /\ Fair(Dry({OnFoe(E)}))
    /\ \A E : E \cap Harmful = {} =>
            /\ Fair(Ability({OnMe(E)})) /\ Fair(Ability({OnAlly(E)})) /\ Fair(Dry({OnAlly(E)}))
            /\ \A near \in BOOLEAN : Fair(Ability({Way({"enemy"}, near, E)}))
    /\ \A E, F : Fair(Ability({OnAnyFoe(E), OnAnyFoe(F)}))
<1>1. \A w : Asks(w) => AllAsk({w})
  BY DEF AllAsk
<1>2. \A v, w : Asks(v) /\ Asks(w) => AllAsk({v, w})
  BY DEF AllAsk
<1> QED
  BY <1>1, <1>2, WaysAsk

LEMMA QAsks == \A t \in {QOf, QOfLater} : \A k \in DOMAIN t : Fair(t[k])
<1>1. Fair(duck_pull_foe) /\ Fair(ghost_cast_q) /\ Fair(tree_cast_q) /\ Fair(pizza_cast_q) /\ Fair(flamel_cast_q)
      /\ Fair(morrigan_cast_q) /\ Fair(gary_cast_q) /\ Fair(flute_debt_cast_q) /\ Fair(abraham_cast_q)
  BY SimpleAbilities DEF duck_pull_foe, ghost_cast_q, tree_cast_q, pizza_cast_q, flamel_cast_q, morrigan_cast_q,
     gary_cast_q, flute_debt_cast_q, abraham_cast_q
<1>2. Fair(frog_cast_q) /\ Fair(bacon_puck_cast_q) /\ Fair(Ability({OnAlly(doc_wheel_heal_and_cleanse)}))
  BY SimpleAbilities DEF frog_cast_q, bacon_puck_cast_q, doc_wheel_heal_and_cleanse, Harmful
<1>3. Fair(courier_cast_q) /\ Fair(loki_cast_q)
  BY SimpleAbilities DEF courier_cast_q, loki_cast_q
<1>4. Fair(unicorn_cast_q)
  BY WaysAsk DEF unicorn_cast_q
<1>5. Fair(dagda_cast_q)
  <2>1. AllAsk({OnFoe({"hurt"}), Way({"ally"}, TRUE, {"heal"})})
    BY WaysAsk DEF AllAsk, Harmful
  <2> QED
    BY <2>1, WaysAsk DEF dagda_cast_q
<1>6. \A k \in DOMAIN QOf : Fair(QOf[k])
  BY <1>1, <1>2, <1>3, <1>4, <1>5 DEF QOf
<1>7. Fair(ada_cast_q) /\ Fair(tyler_cast_q) /\ Fair(paimon_cast_q) /\ Fair(noor1_cast_q) /\ Fair(cain_cast_q)
      /\ Fair(gunnr_cast_q) /\ Fair(vassago_cast_q) /\ Fair(beleth_cast_q) /\ Fair(mnm_cast_q)
      /\ Fair(weatherman_cast_q) /\ Fair(zagan_cast_q) /\ Fair(warrior_cast_q) /\ Fair(michael_cast_q)
  BY SimpleAbilities DEF ada_cast_q, tyler_cast_q, paimon_cast_q, noor1_cast_q, cain_cast_q, gunnr_cast_q,
     vassago_cast_q, beleth_cast_q, mnm_cast_q, weatherman_cast_q, zagan_cast_q, warrior_cast_q, michael_cast_q
<1>8. Fair(he_xiangu_cast_q) /\ Fair(cart_cast_q)
  BY SimpleAbilities DEF he_xiangu_cast_q, cart_cast_q, Harmful
<1>9. \A k \in DOMAIN QOfLater : Fair(QOfLater[k])
  BY <1>7, <1>8 DEF QOfLater
<1> QED
  BY <1>6, <1>9

LEMMA WAsks == \A t \in {WOf, WOfMiddle, WOfLater} : \A k \in DOMAIN t : Fair(t[k])
<1>1. Fair(morrigan_cast_w) /\ Fair(Ability({OnFoe({"begin"})})) /\ Fair(bacon_puck_cast_w) /\ Fair(tyler_cast_w)
      /\ Fair(paimon_cast_w) /\ Fair(beleth_cast_w) /\ Fair(zagan_cast_w) /\ Fair(warrior_cast_w)
  BY SimpleAbilities DEF morrigan_cast_w, bacon_puck_cast_w, tyler_cast_w, paimon_cast_w, beleth_cast_w, zagan_cast_w,
     warrior_cast_w
<1>2. Fair(Hide) /\ Fair(Grant) /\ Fair(Zone) /\ Fair(flamel_cast_w) /\ Fair(courier_toggle_w) /\ Fair(cain_cast_w)
  BY SimpleAbilities DEF Hide, Grant, Zone, flamel_cast_w, courier_toggle_w, cain_cast_w, Harmful
<1>3. Fair(Ability({OnAlly({"leap"})})) /\ Fair(Ability({OnMe({"smoke"})})) /\ Fair(Ability({OnMe({"shield"})}))
      /\ Fair(Ability({Way({"enemy"}, FALSE, {"begin"})})) /\ Fair(Ability({OnMe({"zone", "hide"})}))
  BY SimpleAbilities DEF Harmful
<1>4. Fair(dagda_cast_w)
  BY WaysAsk DEF dagda_cast_w, Harmful
<1>5. Fair(weatherman_cast_w)
  <2>1. AllAsk({Way({"enemy"}, TRUE, {"ground"}), Way({"ally"}, TRUE, {"glide"})})
    BY WaysAsk DEF AllAsk, Harmful
  <2> QED
    BY <2>1, WaysAsk DEF weatherman_cast_w
<1>6. \A k \in DOMAIN WOf : Fair(WOf[k])
  BY <1>1, <1>2, <1>3, <1>4 DEF WOf
<1>7. \A k \in DOMAIN WOfMiddle : Fair(WOfMiddle[k])
  BY <1>1, <1>2, <1>3 DEF WOfMiddle
<1>8. \A k \in DOMAIN WOfLater : Fair(WOfLater[k])
  BY <1>1, <1>2, <1>3, <1>5 DEF WOfLater
<1> QED
  BY <1>6, <1>7, <1>8

LEMMA RAsks == \A t \in {ROf, ROfMiddle, ROfLater} : \A k \in DOMAIN t : Fair(t[k])
<1>1. Fair(duck_pull_foe) /\ Fair(courier_cast_r) /\ Fair(gary_cast_r) /\ Fair(flute_debt_cast_r)
      /\ Fair(bacon_puck_cast_r) /\ Fair(ada_cast_r) /\ Fair(Dry({OnFoe({"hurt", "stun"})}))
      /\ Fair(Ability({OnFoe({"zone"})})) /\ Fair(warrior_cast_r)
  BY SimpleAbilities DEF duck_pull_foe, courier_cast_r, gary_cast_r, flute_debt_cast_r, bacon_puck_cast_r, ada_cast_r,
     warrior_cast_r
<1>2. Fair(Zone) /\ Fair(Hide) /\ Fair(Floor) /\ Fair(loki_cast_r) /\ Fair(abraham_cast_r)
      /\ Fair(Dry({OnAlly(doc_wheel_heal_and_cleanse)})) /\ Fair(Ability({OnAlly(michael_heal)}))
  BY SimpleAbilities DEF Zone, Hide, Floor, loki_cast_r, abraham_cast_r, doc_wheel_heal_and_cleanse, michael_heal, Harmful
<1>3. Fair(Ability({OnMe({"zone", "mend"})})) /\ Fair(Ability({OnMe({"floor", "mend"})}))
  BY SimpleAbilities DEF Harmful
<1>4. Fair(tyler_cast_r)
  BY WaysAsk DEF tyler_cast_r, Harmful
<1>5. \A k \in DOMAIN ROf : Fair(ROf[k])
  BY <1>1, <1>2, <1>3 DEF ROf
<1>6. \A k \in DOMAIN ROfMiddle : Fair(ROfMiddle[k])
  BY <1>1, <1>2, <1>4 DEF ROfMiddle
<1>7. \A k \in DOMAIN ROfLater : Fair(ROfLater[k])
  BY <1>1, <1>2, <1>3 DEF ROfLater
<1> QED
  BY <1>5, <1>6, <1>7

\* The tables cover every hero; what is looked up is an entry of one of them.
LEMMA AbilitiesAsk ==
    ASSUME NEW s \in {"Q", "W", "R"}, kit \in Kits, s = "W" => HasW(kit)
    PROVE  Fair(AbilityOf(s, kit))
<1>1. \A tables : kit \in Named(tables) => \E t \in tables : kit \in DOMAIN t /\ Pick(tables, kit) = t[kit]
  BY DEF Named, Pick
<1>2. CASE s = "Q"
  <2>1. kit \in Named({QOf, QOfLater}) /\ AbilityOf(s, kit) = Pick({QOf, QOfLater}, kit)
    BY <1>2, KitTables DEF AbilityOf
  <2> QED
    BY <1>1, <2>1, QAsks
<1>3. CASE s = "W"
  BY <1>1, <1>3, WAsks DEF AbilityOf, HasW
<1>4. CASE s = "R"
  BY <1>1, <1>4, RAsks, KitTables DEF AbilityOf
<1> QED
  BY <1>2, <1>3, <1>4

LEMMA TacticsAsk == \A m, finished : AllAsk(Tactics(m, finished))
<1>1. \A E : AllAsk({OnFoe(E)}) /\ (E \cap Harmful = {} => AllAsk({OnMe(E)}) /\ AllAsk({OnAlly(E)}))
  BY WaysAsk DEF AllAsk
<1>2. AllAsk(Around({"heal"}, {"hurt"})) /\ AllAsk(Around({"heal"}, {"root"})) /\ AllAsk({OnAlly({"heal"})})
      /\ AllAsk({OnFoe({"hurt"})}) /\ AllAsk({OnFoe({"silence"})}) /\ AllAsk({OnFoe(execute_scale_damage)})
  BY <1>1, WaysAsk DEF Harmful
<1>3. \A k \in DOMAIN Strikes : AllAsk(Strikes[k])
  BY <1>2 DEF Strikes
<1>4. \A k \in DOMAIN StrikesLater : AllAsk(StrikesLater[k])
  BY <1>2 DEF StrikesLater
<1>5. (\A k \in DOMAIN Auras : AllAsk(Auras[k])) /\ \A k \in DOMAIN Bursts : AllAsk(Bursts[k])
  BY <1>2 DEF Auras, Bursts
<1>6. \A tables : (\A t \in tables : \A k \in DOMAIN t : AllAsk(t[k])) => AllAsk(WaysOf(tables, kit))
  BY DEF WaysOf, Named, Pick, AllAsk
<1>7. AllAsk(WaysOf({Strikes, StrikesLater}, kit)) /\ AllAsk(WaysOf({Auras}, kit)) /\ AllAsk(WaysOf({Bursts}, kit))
  BY <1>3, <1>4, <1>5, <1>6
<1>8. AllAsk({}) /\ AllAsk({OnMe({})}) /\ AllAsk({OnFoe({"hurt"})})
  BY <1>1 DEF AllAsk
<1>9. \A S, T : AllAsk(S) /\ AllAsk(T) => AllAsk(S \cup T)
  BY DEF AllAsk
<1> QED
  BY <1>7, <1>8, <1>9 DEF Tactics

-----------------------------------------------------------------------------
(* The hero through the parts of a tick.                                   *)

FloorTop == Higher(FloorOf(kit), FoldTicks)
HeroType ==
    [alive : BOOLEAN, hp : 0..MaxLife, most : BaseLife..MaxLife, mp : 0..1, cd : SUBSET {"Q", "W", "R", "glide"},
     silence : 0..SilenceTicks, stun : 0..1, hide : 0..LongHide + MaxAir, air : 0..MaxAir,
     clones : {"none", "out", "lost"}, floor : 0..FloorTop, shield : 0..1, shieldLeft : 0..ShieldTicks, on : BOOLEAN, zone : 0..ZoneTicks, cast : 0..CastTicks, refund : BOOLEAN, fold : 0..FoldTicks]
\* What every part of a tick keeps; a floor under a corpse would be a promise broken, but for
\* whom the death of a clone took.
Sound(m) ==
    /\ m \in HeroType
    /\ m.alive <=> m.hp > 0
    /\ m.shield > 0 => m.shieldLeft > 0
    /\ m.floor > 0 => m.alive \/ m.clones = "lost"
    /\ m.hide <= LongHide + m.air
\* The clocks that tell whether a cast is finished, a floor still holds and a flight goes on.
SameClocks(x, m) ==
    /\ x.silence = m.silence /\ x.cast = m.cast /\ x.floor = m.floor /\ x.fold = m.fold
    /\ x.hide = m.hide /\ x.air = m.air /\ x.clones = m.clones /\ x.most = m.most

LEMMA Lengths ==
    /\ MaxLife \in Nat /\ MaxLife > 0 /\ SilenceTicks \in Nat /\ SilenceTicks > 1 /\ HideTicks \in Nat /\ HideTicks > 0
    /\ ShieldTicks \in Nat /\ ShieldTicks > 0 /\ ZoneTicks \in Nat /\ ZoneTicks > 0 /\ CastTicks \in Nat /\ CastTicks > 0
    /\ BaseLife \in Nat /\ BaseLife > 0 /\ BaseLife <= MaxLife
    /\ GlideTicks \in Nat /\ GlideTicks > 0 /\ MaxAir \in Nat /\ GlideTicks <= MaxAir
    /\ LongHide \in Nat /\ HideTicks <= LongHide /\ GlideTicks <= LongHide
    /\ FoldTicks \in Nat /\ FoldTicks > 0 /\ ChainWindow \in Nat /\ ChainWindow > 0
    /\ FloorOf(kit) \in Nat /\ FloorOf(kit) > 0
    /\ FloorTop \in Nat /\ FloorOf(kit) <= FloorTop /\ FoldTicks <= FloorTop
    /\ Assured \in Nat /\ Assured > 0 /\ Assured <= FloorOf(kit) /\ (kit \in Donkeys => Assured <= FoldTicks)
<1>1. \A n \in {MaxLife, SilenceTicks, HideTicks, ShieldTicks, ZoneTicks, CastTicks, FloorTicks, ShortFloorTicks,
                LongFloorTicks, FoldTicks, GlideTicks, MaxAir, ChainWindow} : n \in Nat /\ n > 0
  BY KitNumbers
<1>2. FloorOf(kit) \in Nat /\ FloorOf(kit) > 0
  BY <1>1 DEF FloorOf
<1>3. FoldTicks \in Nat /\ FoldTicks > 0
  BY <1>1
<1>4. FloorTop \in Nat /\ FloorOf(kit) <= FloorTop /\ FoldTicks <= FloorTop
  BY <1>2, <1>3 DEF FloorTop, Higher
<1>5. Assured \in Nat /\ Assured > 0 /\ Assured <= FloorOf(kit) /\ (kit \in Donkeys => Assured <= FoldTicks)
  BY <1>2, <1>3 DEF Assured, Lower
<1>6. LongHide \in Nat /\ HideTicks <= LongHide /\ GlideTicks <= LongHide
  BY <1>1 DEF LongHide, Higher
<1>7. BaseLife \in Nat /\ BaseLife > 0 /\ BaseLife <= MaxLife /\ SilenceTicks > 1 /\ GlideTicks <= MaxAir
  BY <1>1, KitNumbers
<1> QED
  BY <1>1, <1>2, <1>4, <1>5, <1>6, <1>7

LEMMA LessIsLess == \A n \in Nat : Less(n) \in Nat /\ Less(n) <= n /\ (n > 1 => Less(n) > 0) /\ (Less(n) > 0 => n > 0)
BY DEF Less

LEMMA GrowingIsSound ==
    ASSUME NEW m, Sound(m), m.alive
    PROVE  Grown(m, 1) \in 1..MaxLife /\ Sound([m EXCEPT !.hp = Grown(m, 1)]) /\ SameClocks([m EXCEPT !.hp = Grown(m, 1)], m)
<1> DEFINE h == Grown(m, 1)
           x == [m EXCEPT !.hp = h]
<1>1. m.hp \in 0..MaxLife /\ m.hp > 0 /\ m.most \in BaseLife..MaxLife
  BY DEF Sound, HeroType
<1>2. h \in 1..MaxLife
  BY <1>1, Lengths DEF Grown, Lower
<1> HIDE DEF h
<1>3. x \in HeroType
  BY <1>2, Lengths DEF Sound, HeroType
<1>4. x.hp = h /\ x.alive = m.alive /\ x.shield = m.shield /\ x.shieldLeft = m.shieldLeft /\ SameClocks(x, m)
  BY DEF Sound, HeroType, SameClocks
<1> QED
  BY <1>2, <1>3, <1>4 DEF Sound, SameClocks, h

LEMMA HurtIsSound ==
    ASSUME NEW m, Sound(m), m.alive, NEW n \in Nat, n > 0
    PROVE  Sound(HurtMe(m, n)) /\ SameClocks(HurtMe(m, n), m)
<1> DEFINE s == m.shield - Absorbed(m, n)
           left == n - Absorbed(m, n)
           bare == [m EXCEPT !.shield = s]
<1>1. m.shield \in 0..1 /\ m.hp \in 0..MaxLife /\ m.hp > 0
  BY DEF Sound, HeroType
<1>2. s \in 0..1 /\ left \in Nat /\ s <= m.shield
  BY <1>1 DEF Absorbed, Lower
<1> HIDE DEF s, left
<1>3. bare \in HeroType
  BY <1>2 DEF Sound, HeroType
<1>4. bare.hp = m.hp /\ bare.alive = m.alive /\ bare.shield = s /\ bare.shieldLeft = m.shieldLeft /\ SameClocks(bare, m)
  BY DEF Sound, HeroType, SameClocks
<1>5. Sound(bare)
  BY <1>1, <1>2, <1>3, <1>4 DEF Sound, SameClocks
<1>6. HurtMe(m, n) = IF left = 0 THEN bare ELSE Wounded(bare, left)
  BY DEF HurtMe, s, left
<1>7. SameClocks(bare, m)
  BY <1>4
<1> HIDE DEF bare
<1>8. CASE left = 0
  BY <1>5, <1>6, <1>7, <1>8
<1>9. CASE left > 0
  <2>1. HurtMe(m, n) = Wounded(bare, left) /\ bare \in HeroType /\ bare.hp \in 1..MaxLife
    BY <1>1, <1>3, <1>4, <1>6, <1>9
  <2>2. CASE bare.hp > left
    <3> DEFINE h == bare.hp - left
               x == [bare EXCEPT !.hp = h]
    <3>1. h \in 1..MaxLife /\ HurtMe(m, n) = x
      BY <1>2, <2>1, <2>2, Lengths DEF Wounded
    <3> HIDE DEF h
    <3>2. x \in HeroType
      BY <2>1, <3>1, Lengths DEF HeroType
    <3>3. x.hp = h /\ x.alive = bare.alive /\ x.shield = bare.shield /\ x.shieldLeft = bare.shieldLeft
          /\ SameClocks(x, bare)
      BY <2>1 DEF HeroType, SameClocks
    <3> QED
      BY <1>5, <1>7, <2>1, <3>1, <3>2, <3>3 DEF Sound, SameClocks
  <2>3. CASE ~(bare.hp > left) /\ bare.floor > 0
    <3> DEFINE x == [bare EXCEPT !.hp = 1]
    <3>1. HurtMe(m, n) = x
      BY <2>1, <2>3 DEF Wounded
    <3>2. x \in HeroType
      BY <2>1, Lengths DEF HeroType
    <3>3. x.hp = 1 /\ x.alive = bare.alive /\ x.shield = bare.shield /\ x.shieldLeft = bare.shieldLeft
          /\ SameClocks(x, bare)
      BY <2>1 DEF HeroType, SameClocks
    <3> QED
      BY <1>5, <1>7, <2>1, <2>3, <3>1, <3>2, <3>3 DEF Sound, SameClocks
  <2>4. CASE ~(bare.hp > left) /\ ~(bare.floor > 0)
    <3> DEFINE x == [bare EXCEPT !.hp = 0, !.alive = FALSE]
    <3>1. HurtMe(m, n) = x
      BY <2>1, <2>4 DEF Wounded
    <3>2. x \in HeroType
      <4>1. 0 \in 0..MaxLife
        BY Lengths
      <4> QED
        BY <2>1, <4>1 DEF HeroType
    <3>3. x.hp = 0 /\ ~x.alive /\ x.shield = bare.shield /\ x.shieldLeft = bare.shieldLeft /\ SameClocks(x, bare)
      BY <2>1 DEF HeroType, SameClocks
    <3> QED
      BY <1>5, <1>7, <2>1, <2>4, <3>1, <3>2, <3>3 DEF Sound, SameClocks
  <2> QED
    BY <2>2, <2>3, <2>4
<1> QED
  BY <1>2, <1>8, <1>9

\* A folded Donkey gives its whole time; else the floor is what it was.
LEMMA CooldownsAreSound ==
    ASSUME NEW m, Sound(m), NEW c \in Cooldowns(m)
    PROVE  /\ Sound(c) /\ c.silence = m.silence /\ c.cast = m.cast
           /\ \/ c.floor = m.floor /\ (m.fold = 0 => c.fold = 0)
              \/ kit \in Donkeys /\ c.floor = FoldTicks
<1> DEFINE rested == {[m EXCEPT !.cd = cd] : cd \in SUBSET m.cd}
           folds == IF kit \in Donkeys /\ m.alive /\ m.fold = 0 /\ m.hp = 1 THEN {Fold(r) : r \in rested} ELSE {}
<1>1. PICK r \in rested \cup folds : c = [r EXCEPT !.fold = Less(r.fold)]
  BY DEF Cooldowns
<1>2. ASSUME NEW q \in rested
      PROVE  Sound(q) /\ SameClocks(q, m) /\ q.alive = m.alive
  <2>1. PICK cd \in SUBSET m.cd : q = [m EXCEPT !.cd = cd]
    OBVIOUS
  <2>2. q \in HeroType
    BY <2>1 DEF Sound, HeroType
  <2>3. q.hp = m.hp /\ q.alive = m.alive /\ q.shield = m.shield /\ q.shieldLeft = m.shieldLeft /\ SameClocks(q, m)
    BY <2>1 DEF Sound, HeroType, SameClocks
  <2> QED
    BY <2>2, <2>3 DEF Sound, SameClocks
<1>3. ASSUME Sound(r)
      PROVE  Sound(c) /\ c.silence = r.silence /\ c.cast = r.cast /\ c.floor = r.floor /\ c.fold = Less(r.fold)
  <2>1. r.fold \in 0..FoldTicks
    BY <1>3 DEF Sound, HeroType
  <2> DEFINE f == Less(r.fold)
  <2>2. f \in 0..FoldTicks
    BY <2>1, Lengths, LessIsLess
  <2>3. c = [r EXCEPT !.fold = f]
    BY <1>1
  <2> HIDE DEF f
  <2>4. c \in HeroType
    BY <1>3, <2>2, <2>3 DEF Sound, HeroType
  <2>5. c.hp = r.hp /\ c.alive = r.alive /\ c.shield = r.shield /\ c.shieldLeft = r.shieldLeft /\ c.floor = r.floor
        /\ c.silence = r.silence /\ c.cast = r.cast /\ c.fold = f
        /\ c.hide = r.hide /\ c.air = r.air /\ c.clones = r.clones
    BY <1>3, <2>3 DEF Sound, HeroType
  <2> QED
    BY <1>3, <2>4, <2>5 DEF Sound, f
<1>4. CASE r \in rested
  <2>1. Sound(r) /\ SameClocks(r, m)
    BY <1>2, <1>4
  <2>2. Less(0) = 0
    BY DEF Less
  <2> QED
    BY <1>3, <2>1, <2>2 DEF SameClocks
<1>5. CASE r \in folds
  <2>1. kit \in Donkeys /\ m.alive /\ \E q \in rested : r = Fold(q)
    BY <1>5
  <2>2. PICK q \in rested : r = Fold(q)
    BY <2>1
  <2> HIDE DEF rested, folds
  <2>3. Sound(q) /\ SameClocks(q, m) /\ q.alive = m.alive
    BY <1>2
  <2>4. r = [q EXCEPT !.fold = FoldTicks, !.floor = FoldTicks]
    BY <2>2 DEF Fold
  <2>5. r \in HeroType
    <3>1. FoldTicks \in 0..FoldTicks /\ FoldTicks \in 0..FloorTop
      BY Lengths
    <3>2. q \in HeroType
      BY <2>3 DEF Sound
    <3> QED
      BY <2>4, <3>1, <3>2 DEF HeroType
  <2>6. r.hp = q.hp /\ r.alive = q.alive /\ r.shield = q.shield /\ r.shieldLeft = q.shieldLeft /\ r.floor = FoldTicks
        /\ r.silence = q.silence /\ r.cast = q.cast /\ r.hide = q.hide /\ r.air = q.air /\ r.clones = q.clones
    BY <2>3, <2>4 DEF Sound, HeroType
  <2>7. Sound(r)
    BY <2>1, <2>3, <2>5, <2>6 DEF Sound
  <2> QED
    BY <1>3, <2>1, <2>3, <2>6, <2>7 DEF SameClocks
<1> QED
  BY <1>4, <1>5

LEMMA RegenerationIsSound ==
    ASSUME NEW m, Sound(m), NEW r \in Regeneration(m)
    PROVE  Sound(r) /\ SameClocks(r, m)
<1>1. CASE r = m
  BY <1>1 DEF SameClocks
<1>2. CASE m.alive /\ r = [m EXCEPT !.hp = Grown(m, 1)]
  BY <1>2, GrowingIsSound
<1>3. CASE r = [m EXCEPT !.mp = 1]
  <2>1. r \in HeroType
    BY <1>3 DEF Sound, HeroType
  <2>2. r.hp = m.hp /\ r.alive = m.alive /\ r.shield = m.shield /\ r.shieldLeft = m.shieldLeft /\ SameClocks(r, m)
    BY <1>3 DEF Sound, HeroType, SameClocks
  <2> QED
    BY <2>1, <2>2 DEF Sound, SameClocks
<1> QED
  BY <1>1, <1>2, <1>3 DEF Regeneration

LEMMA DrainedIsSound ==
    ASSUME NEW m, Sound(m), NEW d \in Drained(m)
    PROVE  Sound(d) /\ SameClocks(d, m)
<1>1. CASE d = m
  BY <1>1 DEF SameClocks
<1>2. CASE d = [m EXCEPT !.mp = 0, !.on = FALSE]
  <2>1. d \in HeroType
    <3>1. m \in HeroType /\ 0 \in 0..1 /\ FALSE \in BOOLEAN
      BY DEF Sound
    <3> QED
      BY ONLY <3>1, <1>2 DEF HeroType
  <2>2. d.hp = m.hp /\ d.alive = m.alive /\ d.shield = m.shield /\ d.shieldLeft = m.shieldLeft /\ SameClocks(d, m)
    BY <1>2 DEF Sound, HeroType, SameClocks
  <2> QED
    BY <2>1, <2>2 DEF Sound, SameClocks
<1> QED
  BY <1>1, <1>2 DEF Drained

LEMMA QuieterIsSound ==
    ASSUME NEW m, Sound(m)
    PROVE  /\ Sound(Quieter(m)) /\ Quieter(m).silence = Less(m.silence)
           /\ Quieter(m).cast = m.cast /\ Quieter(m).floor = m.floor /\ Quieter(m).fold = m.fold
<1> DEFINE n == Less(m.silence)
           q == [m EXCEPT !.silence = n]
<1>1. m.silence \in 0..SilenceTicks
  BY DEF Sound, HeroType
<1>2. n \in 0..SilenceTicks
  BY <1>1, Lengths, LessIsLess
<1>3. Quieter(m) = q
  BY DEF Quieter
<1> HIDE DEF n
<1>4. q \in HeroType
  BY <1>2 DEF Sound, HeroType
<1>5. q.hp = m.hp /\ q.alive = m.alive /\ q.shield = m.shield /\ q.shieldLeft = m.shieldLeft /\ q.floor = m.floor
      /\ q.silence = n /\ q.cast = m.cast /\ q.fold = m.fold
      /\ q.hide = m.hide /\ q.air = m.air /\ q.clones = m.clones
  BY DEF Sound, HeroType
<1> HIDE DEF q
<1> QED
  BY <1>3, <1>4, <1>5 DEF Sound, n

\* Whoever is silenced casts no longer.
LEMMA CastingIsSound ==
    ASSUME NEW m, Sound(m), NEW c \in Casting(m)
    PROVE  /\ Sound(c) /\ c.silence = m.silence /\ c.floor = m.floor /\ c.fold = m.fold
           /\ m.silence > 0 \/ m.cast = 0 => c.cast = 0
<1>1. m.cast \in 0..CastTicks
  BY DEF Sound, HeroType
<1>2. Less(m.cast) \in 0..CastTicks /\ 0 \in 0..CastTicks
  BY <1>1, Lengths, LessIsLess
<1>3. ASSUME NEW n \in 0..CastTicks, c = [m EXCEPT !.cast = n]
      PROVE  Sound(c) /\ c.silence = m.silence /\ c.floor = m.floor /\ c.fold = m.fold /\ c.cast = n
  <2>1. c \in HeroType
    BY <1>3 DEF Sound, HeroType
  <2>2. c.hp = m.hp /\ c.alive = m.alive /\ c.shield = m.shield /\ c.shieldLeft = m.shieldLeft /\ c.floor = m.floor
        /\ c.silence = m.silence /\ c.cast = n /\ c.fold = m.fold
        /\ c.hide = m.hide /\ c.air = m.air /\ c.clones = m.clones
    BY <1>3 DEF Sound, HeroType
  <2> QED
    BY <2>1, <2>2 DEF Sound
<1>4. CASE m.cast = 0
  BY <1>4 DEF Casting
<1>5. CASE m.cast # 0 /\ m.silence > 0
  <2>1. c = [m EXCEPT !.cast = 0]
    BY <1>5 DEF Casting
  <2> QED
    BY <1>2, <1>3, <2>1
<1>6. CASE m.cast # 0 /\ ~(m.silence > 0)
  <2>1. c = [m EXCEPT !.cast = Less(m.cast)] \/ c = [m EXCEPT !.cast = 0]
    BY <1>6 DEF Casting
  <2> QED
    BY <1>2, <1>3, <1>6, <2>1
<1> QED
  BY <1>4, <1>5, <1>6

LEMMA TimersAreSound ==
    ASSUME NEW m, Sound(m)
    PROVE  /\ Sound(Timers(m)) /\ Timers(m).floor = Less(m.floor)
           /\ Timers(m).silence = m.silence /\ Timers(m).cast = m.cast /\ Timers(m).fold = m.fold
<1> DEFINE hide == Less(m.hide)
           air == Less(m.air)
           floor == Less(m.floor)
           stun == Less(m.stun)
           left == Less(m.shieldLeft)
           shield == IF m.shieldLeft = 1 THEN 0 ELSE m.shield
           t == [m EXCEPT !.hide = hide, !.air = air, !.floor = floor, !.stun = stun, !.shieldLeft = left, !.shield = shield]
<1>1. m.hide \in 0..LongHide + MaxAir /\ m.air \in 0..MaxAir /\ m.floor \in 0..FloorTop /\ m.stun \in 0..1 /\ m.shieldLeft \in 0..ShieldTicks
      /\ m.shield \in 0..1
  BY DEF Sound, HeroType
<1>2. hide \in 0..LongHide + MaxAir /\ air \in 0..MaxAir /\ floor \in 0..FloorTop /\ stun \in 0..1
      /\ left \in 0..ShieldTicks /\ shield \in 0..1
  BY <1>1, Lengths, LessIsLess
<1>3. (shield > 0 => left > 0) /\ (floor > 0 => m.floor > 0) /\ hide <= LongHide + air
  BY <1>1, Lengths DEF Sound, Less
<1>4. Timers(m) = t
  BY DEF Timers
<1>5. floor = Less(m.floor)
  OBVIOUS
<1> HIDE DEF hide, air, floor, stun, left, shield
<1>6. t \in HeroType
  BY <1>2 DEF Sound, HeroType
<1>7. t.hp = m.hp /\ t.alive = m.alive /\ t.shield = shield /\ t.shieldLeft = left /\ t.floor = floor
      /\ t.silence = m.silence /\ t.cast = m.cast /\ t.fold = m.fold
      /\ t.hide = hide /\ t.air = air /\ t.clones = m.clones
  BY DEF Sound, HeroType
<1> HIDE DEF t
<1> QED
  BY <1>3, <1>4, <1>5, <1>6, <1>7 DEF Sound

LEMMA EndsAreSound ==
    ASSUME NEW m, Sound(m), NEW e \in UNION {UNION {Delivered(r) : r \in KitRegen(b)} : b \in Burning(m)}
    PROVE  Sound(e) /\ SameClocks(e, m)
<1>1. PICK b \in Burning(m) : e \in UNION {Delivered(r) : r \in KitRegen(b)}
  OBVIOUS
<1>2. PICK r \in KitRegen(b) : e \in Delivered(r)
  BY <1>1
<1>3. Sound(b) /\ SameClocks(b, m)
  <2>1. CASE b = m
    BY <2>1 DEF SameClocks
  <2>2. CASE m.alive /\ b = HurtMe(m, 1)
    BY <2>2, HurtIsSound
  <2> QED
    BY <1>1, <2>1, <2>2 DEF Burning
<1>4. Sound(r) /\ SameClocks(r, b)
  <2>1. CASE r = b
    BY <1>3, <2>1 DEF SameClocks
  <2>2. CASE b.alive /\ r = [b EXCEPT !.hp = Grown(b, 1)]
    BY <1>3, <2>2, GrowingIsSound
  <2> QED
    BY <1>2, <2>1, <2>2 DEF KitRegen
<1>5. Sound(e) /\ SameClocks(e, r)
  <2> DEFINE gone == [r EXCEPT !.zone = 0]
  <2>1. gone \in HeroType
    BY <1>4, Lengths DEF Sound, HeroType
  <2>2. gone.hp = r.hp /\ gone.alive = r.alive /\ gone.shield = r.shield /\ gone.shieldLeft = r.shieldLeft
        /\ SameClocks(gone, r)
    BY <1>4 DEF Sound, HeroType, SameClocks
  <2>3. Sound(gone) /\ SameClocks(gone, r)
    BY <1>4, <2>1, <2>2 DEF Sound, SameClocks
  <2>4. Grown(gone, 1) = Grown(r, 1)
    BY <2>2 DEF Grown
  <2>5. [r EXCEPT !.zone = 0, !.hp = Grown(r, 1)] = [gone EXCEPT !.hp = Grown(gone, 1)]
    BY <2>4
  <2>6. CASE e = r
    BY <1>4, <2>6 DEF SameClocks
  <2>7. CASE e = gone
    BY <2>3, <2>7
  <2>8. CASE r.alive /\ e = [r EXCEPT !.zone = 0, !.hp = Grown(r, 1)]
    <3>1. gone.alive /\ e = [gone EXCEPT !.hp = Grown(gone, 1)]
      BY <2>2, <2>5, <2>8
    <3> HIDE DEF gone
    <3>2. Sound(e) /\ SameClocks(e, gone)
      BY <2>3, <3>1, GrowingIsSound
    <3> QED
      BY <2>3, <3>2 DEF SameClocks
  <2>9. CASE e = [r EXCEPT !.zone = 0, !.mp = 1]
    <3>1. e = [gone EXCEPT !.mp = 1]
      BY <2>9
    <3> HIDE DEF gone
    <3>2. e \in HeroType
      BY <2>1, <3>1 DEF HeroType
    <3>3. e.hp = gone.hp /\ e.alive = gone.alive /\ e.shield = gone.shield /\ e.shieldLeft = gone.shieldLeft
          /\ SameClocks(e, gone)
      BY <2>1, <3>1 DEF HeroType, SameClocks
    <3> QED
      BY <2>3, <3>2, <3>3 DEF Sound, SameClocks
  <2> QED
    BY <1>2, <2>6, <2>7, <2>8, <2>9 DEF Delivered
<1> QED
  BY <1>3, <1>4, <1>5 DEF SameClocks

LEMMA NothingDone == ASSUME NEW m \in HeroType PROVE Done(m, {}, 1) = m
BY DEF Done, HeroType

\* What an ability does to its caster, and what it costs.
LEMMA CastsAreSound ==
    ASSUME NEW m, Sound(m), m.alive, m.silence = 0, m.mp >= 1, NEW E, NEW past \in 1..MaxLife,
           NEW s \in {"Q", "W", "R"}
    PROVE  LET x == Paid(Done(m, E, past), s) IN
           /\ Sound(x) /\ x.alive /\ x.silence = 0
           /\ x.floor = IF "floor" \in E THEN FloorOf(kit) ELSE m.floor
           /\ x.cast = IF "begin" \in E THEN CastTicks ELSE m.cast
           /\ x.mp = m.mp - 1
           /\ s \in x.cd \/ (m.refund /\ ~x.refund)
<1> DEFINE clones == IF "clones" \in E THEN "out" ELSE m.clones
           hp == IF "rewind" \in E THEN past ELSE IF "mend" \in E THEN Grown(m, 1) ELSE m.hp
           silence == IF "cure" \in E THEN 0 ELSE m.silence
           hide == IF "hide" \in E THEN HideTicks ELSE m.hide
           floor == IF "floor" \in E THEN FloorOf(kit) ELSE m.floor
           shield == IF "shield" \in E THEN 1 ELSE m.shield
           left == IF "shield" \in E THEN ShieldTicks ELSE m.shieldLeft
           zone == IF "zone" \in E THEN ZoneTicks ELSE m.zone
           cast == IF "begin" \in E THEN CastTicks ELSE m.cast
           d == [m EXCEPT !.hp = hp, !.silence = silence, !.hide = hide, !.floor = floor, !.shield = shield,
                          !.shieldLeft = left, !.zone = zone, !.cast = cast, !.clones = clones]
           x == Paid(d, s)
<1>1. m.hp \in 0..MaxLife /\ m.hp > 0 /\ m.hide \in 0..LongHide + MaxAir /\ m.floor \in 0..FloorTop /\ m.shield \in 0..1
      /\ m.air \in 0..MaxAir /\ m.clones \in {"none", "out", "lost"} /\ m.hide <= LongHide + m.air
      /\ m.shieldLeft \in 0..ShieldTicks /\ m.zone \in 0..ZoneTicks /\ m.cast \in 0..CastTicks
  BY DEF Sound, HeroType
<1>2. hp \in 0..MaxLife /\ hp > 0
  <2>1. Grown(m, 1) \in 1..MaxLife
    BY GrowingIsSound
  <2> QED
    BY ONLY <1>1, <2>1, Lengths, past \in 1..MaxLife
<1>3. silence = 0 /\ 0 \in 0..SilenceTicks
  BY Lengths
<1>4. hide \in 0..LongHide + MaxAir /\ floor \in 0..FloorTop /\ shield \in 0..1 /\ left \in 0..ShieldTicks
      /\ zone \in 0..ZoneTicks /\ cast \in 0..CastTicks /\ clones \in {"none", "out", "lost"}
      /\ hide <= LongHide + m.air
  BY <1>1, Lengths
<1>5. shield > 0 => left > 0
  BY Lengths DEF Sound
<1>6. Done(m, E, past) = d
  BY DEF Done
<1>7. floor = (IF "floor" \in E THEN FloorOf(kit) ELSE m.floor)
      /\ cast = (IF "begin" \in E THEN CastTicks ELSE m.cast)
  OBVIOUS
<1> HIDE DEF hp, silence, hide, floor, shield, left, zone, cast, clones
<1> DEFINE a == [m EXCEPT !.hp = hp, !.silence = silence]
           b == [a EXCEPT !.hide = hide, !.floor = floor]
           c == [b EXCEPT !.shield = shield, !.shieldLeft = left]
           e == [c EXCEPT !.zone = zone, !.cast = cast]
<1>8. d \in HeroType /\ d.hp = hp /\ d.silence = silence /\ d.floor = floor /\ d.shield = shield
      /\ d.shieldLeft = left /\ d.cast = cast /\ d.alive = m.alive /\ d.mp = m.mp /\ d.refund = m.refund
      /\ d.hide = hide /\ d.air = m.air
  <2>1. d = [e EXCEPT !.clones = clones]
    OBVIOUS
  <2>2. m \in HeroType
    BY DEF Sound
  <2> HIDE DEF d
  <2>3. a \in HeroType /\ a.hp = hp /\ a.silence = silence /\ a.alive = m.alive /\ a.mp = m.mp
        /\ a.refund = m.refund /\ a.air = m.air
    BY ONLY <1>2, <1>3, <2>2 DEF HeroType
  <2> HIDE DEF a
  <2>4. b \in HeroType /\ b.hp = hp /\ b.silence = silence /\ b.alive = m.alive /\ b.mp = m.mp
        /\ b.refund = m.refund /\ b.air = m.air /\ b.hide = hide /\ b.floor = floor
    BY ONLY <1>4, <2>3 DEF HeroType
  <2> HIDE DEF b
  <2>5. c \in HeroType /\ c.hp = hp /\ c.silence = silence /\ c.alive = m.alive /\ c.mp = m.mp
        /\ c.refund = m.refund /\ c.air = m.air /\ c.hide = hide /\ c.floor = floor
        /\ c.shield = shield /\ c.shieldLeft = left
    BY ONLY <1>4, <2>4 DEF HeroType
  <2> HIDE DEF c
  <2>6. e \in HeroType /\ e.hp = hp /\ e.silence = silence /\ e.alive = m.alive /\ e.mp = m.mp
        /\ e.refund = m.refund /\ e.air = m.air /\ e.hide = hide /\ e.floor = floor
        /\ e.shield = shield /\ e.shieldLeft = left /\ e.cast = cast
    BY ONLY <1>4, <2>5 DEF HeroType
  <2> HIDE DEF e
  <2> QED
    BY ONLY <1>4, <2>1, <2>6 DEF HeroType
<1> HIDE DEF d
<1>9. d.mp = 1
  BY <1>8 DEF HeroType
<1> DEFINE poor == [d EXCEPT !.mp = 0]
<1>10. poor \in HeroType /\ poor.hp = hp /\ poor.silence = silence /\ poor.floor = floor /\ poor.shield = shield
       /\ poor.shieldLeft = left /\ poor.cast = cast /\ poor.alive = m.alive /\ poor.mp = 0
       /\ poor.hide = hide /\ poor.air = m.air
  <2>1. 0 \in 0..1
    OBVIOUS
  <2> QED
    BY ONLY <1>8, <2>1 DEF HeroType
<1>11. CASE d.refund
  <2>1. x = [poor EXCEPT !.refund = FALSE]
    BY <1>9, <1>11 DEF Paid
  <2> HIDE DEF poor
  <2>2. x \in HeroType /\ x.hp = hp /\ x.silence = silence /\ x.floor = floor /\ x.shield = shield
        /\ x.shieldLeft = left /\ x.cast = cast /\ x.alive = m.alive /\ x.mp = 0 /\ ~x.refund
        /\ x.hide = hide /\ x.air = m.air
    <3>1. FALSE \in BOOLEAN /\ poor \in HeroType
      BY <1>10
    <3>2. \A r \in BOOLEAN : [poor EXCEPT !.refund = r] \in HeroType
      BY ONLY <3>1 DEF HeroType
    <3>3. x \in HeroType
      BY <2>1, <3>1, <3>2
    <3> QED
      BY ONLY <1>10, <2>1, <3>3 DEF HeroType
  <2>3. Sound(x)
    BY <1>2, <1>4, <1>5, <2>2 DEF Sound
  <2> QED
    BY <1>3, <1>6, <1>7, <1>8, <1>9, <1>11, <2>2, <2>3
<1>12. CASE ~d.refund
  <2> DEFINE cd == d.cd \cup {s}
  <2>1. x = [poor EXCEPT !.cd = cd]
    BY <1>9, <1>12 DEF Paid
  <2>2. cd \in SUBSET {"Q", "W", "R", "glide"} /\ s \in cd
    BY <1>8 DEF HeroType
  <2> HIDE DEF cd, poor
  <2>3. x \in HeroType /\ x.hp = hp /\ x.silence = silence /\ x.floor = floor /\ x.shield = shield
        /\ x.shieldLeft = left /\ x.cast = cast /\ x.alive = m.alive /\ x.mp = 0 /\ x.cd = cd
        /\ x.hide = hide /\ x.air = m.air
    BY ONLY <1>10, <2>1, <2>2 DEF HeroType
  <2>4. Sound(x)
    BY <1>2, <1>4, <1>5, <2>3 DEF Sound
  <2> QED
    BY <1>3, <1>6, <1>7, <1>8, <1>9, <2>2, <2>3, <2>4
<1> QED
  BY <1>11, <1>12

-----------------------------------------------------------------------------
(* The invariant.  A floor is at least as long as it was promised, and a   *)
(* broken cast has stopped already or is stopped by the next tick, before  *)
(* the silence ends.                                                       *)

KitIInv ==
    /\ kit \in Kits
    /\ Sound(me)
    /\ pending \in [attrs : SUBSET Resonances, age : 0..ChainWindow + 1, since : 0..ChainWindow + 1, clone : BOOLEAN]
    /\ ~pending.clone => pending.since = pending.age
    /\ sworn \in Nat /\ sworn <= me.floor /\ sworn <= Assured
    /\ broken \in BOOLEAN /\ (broken => me.cast = 0 \/ me.silence > 1)
    /\ HiddenIsSafe
    /\ SilencedCastFails

LEMMA KitIsSound == KitIInv => KitInv
<1>1. KitIInv => KitTypeOK
  BY DEF KitIInv, Sound, HeroType, FloorTop, KitTypeOK
<1>2. KitIInv => FloorHolds
  <2> SUFFICES ASSUME KitIInv, sworn > 0 PROVE me.alive \/ me.clones = "lost"
    BY DEF FloorHolds
  <2>1. me.floor \in Nat
    BY Lengths DEF KitIInv, Sound, HeroType
  <2> QED
    BY <2>1 DEF KitIInv, Sound
<1> QED
  BY <1>1, <1>2 DEF KitIInv, KitInv, Sound, CorpsesHaveNoHp, ShieldTimed

LEMMA WholeIsSound ==
    ASSUME NEW n \in BaseLife..MaxLife
    PROVE  Sound(Whole(n)) /\ Whole(n).floor = 0 /\ Whole(n).cast = 0
<1>1. Whole(n) \in HeroType
  BY Lengths DEF Whole, HeroType
<1>2. Whole(n).alive /\ Whole(n).hp = n /\ Whole(n).shield = 0 /\ Whole(n).floor = 0 /\ Whole(n).cast = 0
      /\ Whole(n).hide = 0 /\ Whole(n).air = 0
  BY DEF Whole
<1> QED
  BY <1>1, <1>2, Lengths DEF Sound

LEMMA KitBegins == KitInit => KitIInv
<1> SUFFICES ASSUME KitInit PROVE KitIInv
  OBVIOUS
<1>1. BaseLife \in BaseLife..MaxLife
  BY Lengths
<1>2. Sound(Whole(BaseLife)) /\ Whole(BaseLife).floor = 0 /\ Whole(BaseLife).cast = 0
  BY <1>1, WholeIsSound
<1>3. Sound(me)
  BY <1>2 DEF KitInit
<1>4. pending \in [attrs : SUBSET Resonances, age : 0..ChainWindow + 1, since : 0..ChainWindow + 1, clone : BOOLEAN]
      /\ pending.since = pending.age
  BY Lengths DEF KitInit, Fresh
<1>5. last.harm = {} /\ last.slot = "none"
  BY DEF KitInit, Idle
<1>6. sworn = 0 /\ broken = FALSE /\ kit \in Kits /\ me.floor = 0
  BY <1>2 DEF KitInit
<1>7. sworn \in Nat /\ sworn <= me.floor /\ sworn <= Assured
  BY <1>6, Lengths
<1> QED
  BY <1>3, <1>4, <1>5, <1>6, <1>7 DEF KitIInv, HiddenIsSafe, SilencedCastFails

\* The floor a step leaves is enough for what is still promised.
LEMMA Landed ==
    ASSUME KitIInv, NEW s \in {"Q", "W", "R"}, Ready(s), UNCHANGED kit,
           NEW way, Asks(way), NEW o \in Others, Met(way, o), Land(s, way, o)
    PROVE  KitIInv'
<1> DEFINE E == way.does
<1>1. PICK past \in 1..MaxLife :
        /\ me' = Paid(Done(me, E, past), s)
        /\ pending' = Skilled(pending, E \cap Resonances)
        /\ sworn' = Swears(E)
        /\ broken' = (broken /\ {"begin", "cure"} \cap E = {})
        /\ last' = [Witness(s, way, o) EXCEPT !.landed = TRUE, !.tier = ChainTier(pending, E \cap Resonances)]
  <2>1. 1 \in 1..MaxLife
    BY Lengths
  <2> QED
    BY <2>1 DEF Land
<1>2. Sound(me) /\ me.alive /\ me.silence = 0 /\ me.mp >= 1 /\ kit \in Kits
  BY DEF KitIInv, Ready, Able
<1> HIDE DEF E
<1>3. /\ Sound(me') /\ me'.alive /\ me'.silence = 0
      /\ me'.floor = IF "floor" \in E THEN FloorOf(kit) ELSE me.floor
      /\ me'.cast = IF "begin" \in E THEN CastTicks ELSE me.cast
  BY <1>1, <1>2, CastsAreSound
<1>4. Sound(me)'
  BY <1>3 DEF Sound, HeroType, FloorTop, FloorOf
<1>5. sworn' \in Nat /\ sworn' <= me'.floor /\ sworn' <= Assured'
  <2>1. sworn \in Nat /\ sworn <= me.floor /\ sworn <= Assured
    BY DEF KitIInv
  <2>2. Assured' = Assured
    BY DEF Assured, FloorOf
  <2>3. sworn' = IF "floor" \in E THEN Higher(sworn, Assured) ELSE sworn
    BY <1>1 DEF Swears
  <2> QED
    BY <1>3, <2>1, <2>2, <2>3, Lengths DEF Higher
<1>6. broken' \in BOOLEAN /\ (broken' => me'.cast = 0)
  <2>1. broken \in BOOLEAN /\ (broken => me.cast = 0)
    BY <1>2 DEF KitIInv
  <2>2. broken' = (broken /\ {"begin", "cure"} \cap E = {})
    BY <1>1
  <2>3. broken' \in BOOLEAN /\ (broken' => broken /\ "begin" \notin E)
    BY ONLY <2>1, <2>2
  <2> QED
    BY <1>3, <2>1, <2>3
<1>7. pending' \in [attrs : SUBSET Resonances, age : 0..ChainWindow + 1, since : 0..ChainWindow + 1, clone : BOOLEAN]
      /\ (~pending'.clone => pending'.since = pending'.age)
  <2>1. E \cap Resonances \in SUBSET Resonances /\ 0 \in 0..ChainWindow + 1
    BY Lengths
  <2>2. CASE E \cap Resonances = {}
    BY <1>1, <2>2 DEF KitIInv, Skilled
  <2>3. CASE E \cap Resonances # {}
    <3> DEFINE attrs == E \cap Resonances
    <3>1. pending' = [pending EXCEPT !.attrs = attrs, !.age = 0, !.since = 0]
      BY <1>1, <2>3 DEF Skilled
    <3> HIDE DEF attrs
    <3>2. pending \in [attrs : SUBSET Resonances, age : 0..ChainWindow + 1, since : 0..ChainWindow + 1, clone : BOOLEAN]
      BY DEF KitIInv
    <3>3. attrs \in SUBSET Resonances
      BY <2>1 DEF attrs
    <3> QED
      BY <2>1, <3>1, <3>2, <3>3
  <2> QED
    BY <2>2, <2>3
<1>8. (last'.seen # "hittable" => last'.harm = {}) /\ last'.slot = s
  <2>1. last'.seen = (IF way.needs = {} THEN "nobody" ELSE o.foe) /\ last'.harm = way.does \cap Harmful
        /\ last'.slot = s
    BY <1>1 DEF Witness, Idle
  <2>2. way.does \cap Harmful # {} => way.needs # {} /\ o.foe = "hittable"
    BY DEF Asks, Met
  <2> QED
    BY <2>1, <2>2
<1> QED
  BY <1>2, <1>4, <1>5, <1>6, <1>7, <1>8 DEF KitIInv, HiddenIsSafe, SilencedCastFails

LEMMA CastKeeps ==
    ASSUME KitIInv, NEW s \in {"Q", "W", "R"}, s = "W" => HasW(kit), CastSlot(s)
    PROVE  KitIInv'
<1> DEFINE ability == AbilityOf(s, kit)
<1>1. Ready(s) /\ UNCHANGED kit /\ kit \in Kits
  BY DEF CastSlot, KitIInv
<1>2. Fair(ability)
  BY <1>1, AbilitiesAsk
<1>3. PICK o \in Others : \/ \E way \in ability.ways : Met(way, o) /\ Land(s, way, o)
                          \/ Whiff(s, ability)
  BY DEF CastSlot
<1> HIDE DEF ability
<1>4. CASE \E way \in ability.ways : Met(way, o) /\ Land(s, way, o)
  <2>1. PICK way \in ability.ways : Met(way, o) /\ Land(s, way, o)
    BY <1>4
  <2>2. Asks(way)
    BY <1>2 DEF Fair, AllAsk
  <2> QED
    BY <1>1, <2>1, <2>2, Landed
<1>5. CASE Whiff(s, ability)
  <2>1. UNCHANGED <<pending, sworn, broken>> /\ me' = (IF ability.dry THEN Paid(me, s) ELSE me)
        /\ last' = [Idle EXCEPT !.slot = s]
    BY <1>5 DEF Whiff
  <2>2. last'.slot = s /\ last'.harm = {}
    BY <2>1 DEF Idle
  <2>3. Sound(me) /\ me.alive /\ me.silence = 0 /\ me.mp >= 1
    BY <1>1 DEF KitIInv, Ready, Able
  <2>4. Sound(me') /\ me'.silence = me.silence /\ me'.floor = me.floor /\ me'.cast = me.cast
    <3>1. CASE ~ability.dry
      BY <2>1, <2>3, <3>1
    <3>2. CASE ability.dry
      <4>1. Done(me, {}, 1) = me
        BY <2>3, NothingDone DEF Sound
      <4>2. me' = Paid(Done(me, {}, 1), s) /\ 1 \in 1..MaxLife
        BY <2>1, <3>2, <4>1, Lengths
      <4> QED
        BY <2>3, <4>2, CastsAreSound
    <3> QED
      BY <3>1, <3>2
  <2>5. Sound(me)' /\ Assured' = Assured
    BY <1>1, <2>4 DEF Sound, HeroType, FloorTop, FloorOf, Assured
  <2> QED
    BY <1>1, <2>1, <2>2, <2>4, <2>5 DEF KitIInv, HiddenIsSafe, SilencedCastFails
<1> QED
  BY <1>3, <1>4, <1>5

\* Cooldowns, regeneration, drain, silence and the cast, one after the other.
LEMMA Beginnings ==
    ASSUME Sound(me), NEW b \in Begun(me)
    PROVE  /\ Sound(b.is) /\ b.was.cast = me.cast /\ b.was.silence = Less(me.silence)
           /\ b.is.silence = Less(me.silence)
           /\ Less(me.silence) > 0 \/ me.cast = 0 => b.is.cast = 0
           /\ \/ b.is.floor = me.floor /\ (me.fold = 0 => b.is.fold = 0)
              \/ kit \in Donkeys /\ b.is.floor = FoldTicks
<1>1. PICK c \in Cooldowns(me) : b \in UNION {UNION {Casters(Quieter(w)) : w \in Drained(r)} : r \in Regeneration(c)}
  BY DEF Begun
<1>2. PICK r \in Regeneration(c) : b \in UNION {Casters(Quieter(w)) : w \in Drained(r)}
  BY <1>1
<1>3. PICK w \in Drained(r) : b \in Casters(Quieter(w))
  BY <1>2
<1> DEFINE q == Quieter(w)
<1>4. b.was = q /\ b.is \in Casting(q)
  BY <1>3 DEF Casters
<1>5. Sound(c) /\ c.silence = me.silence /\ c.cast = me.cast
      /\ \/ c.floor = me.floor /\ (me.fold = 0 => c.fold = 0)
         \/ kit \in Donkeys /\ c.floor = FoldTicks
  BY CooldownsAreSound
<1>6. Sound(r) /\ SameClocks(r, c)
  BY <1>5, RegenerationIsSound
<1>7. Sound(w) /\ SameClocks(w, r)
  BY <1>6, DrainedIsSound
<1>8. Sound(q) /\ q.silence = Less(w.silence) /\ q.cast = w.cast /\ q.floor = w.floor /\ q.fold = w.fold
  BY <1>7, QuieterIsSound
<1> HIDE DEF q
<1>9. /\ Sound(b.is) /\ b.is.silence = q.silence /\ b.is.floor = q.floor /\ b.is.fold = q.fold
      /\ q.silence > 0 \/ q.cast = 0 => b.is.cast = 0
  BY <1>4, <1>8, CastingIsSound
<1> QED
  BY <1>4, <1>5, <1>6, <1>7, <1>8, <1>9 DEF SameClocks

LEMMA TickKeeps == KitIInv /\ TickHeroKit => KitIInv'
<1> SUFFICES ASSUME KitIInv, TickHeroKit PROVE KitIInv'
  OBVIOUS
<1> DEFINE finished(b) == b.was.cast = 1 /\ b.was.silence = 0 /\ b.is.cast = 0
           Ticked(b, e, way, o) ==
               /\ me' = [e EXCEPT !.zone = Less(e.zone)]
               /\ pending' = Aged(pending)
               /\ sworn' = Less(IF Folded(b.is) THEN Higher(sworn, Assured) ELSE sworn)
               /\ last' = Witness(IF finished(b) THEN "finished" ELSE "none", way, o)
               /\ UNCHANGED <<kit, broken>>
<1>1. PICK b \in Begun(me) : \E e \in Ended(b.is) : \E way \in Tactics(e, finished(b)) : \E o \in Company(way) :
          Ticked(b, e, way, o)
  BY DEF TickHeroKit
<1>2. PICK e \in Ended(b.is) : \E way \in Tactics(e, finished(b)) : \E o \in Company(way) : Ticked(b, e, way, o)
  BY <1>1
<1>3. PICK way \in Tactics(e, finished(b)) : \E o \in Company(way) : Ticked(b, e, way, o)
  BY <1>2
<1>4. PICK o \in Company(way) : Ticked(b, e, way, o)
  BY <1>3
<1>5. Sound(me) /\ kit \in Kits
  BY DEF KitIInv
<1>6. /\ Sound(b.is) /\ b.was.cast = me.cast /\ b.was.silence = Less(me.silence)
      /\ b.is.silence = Less(me.silence)
      /\ Less(me.silence) > 0 \/ me.cast = 0 => b.is.cast = 0
      /\ \/ b.is.floor = me.floor /\ (me.fold = 0 => b.is.fold = 0)
         \/ kit \in Donkeys /\ b.is.floor = FoldTicks
  BY <1>5, Beginnings
<1>7. Sound(e) /\ e.silence = b.is.silence /\ e.cast = b.is.cast /\ e.floor = Less(b.is.floor)
  <2> DEFINE t == Timers(b.is)
  <2>1. Sound(t) /\ t.floor = Less(b.is.floor) /\ t.silence = b.is.silence /\ t.cast = b.is.cast
    BY <1>6, TimersAreSound
  <2>2. e \in UNION {UNION {Delivered(r) : r \in KitRegen(h)} : h \in Burning(t)}
    BY DEF Ended
  <2> HIDE DEF t
  <2>3. Sound(e) /\ SameClocks(e, t)
    BY <2>1, <2>2, EndsAreSound
  <2> QED
    BY <2>1, <2>3 DEF SameClocks
<1>8. Sound(me') /\ me'.silence = e.silence /\ me'.cast = e.cast /\ me'.floor = e.floor
  <2> DEFINE z == Less(e.zone)
  <2>1. e.zone \in 0..ZoneTicks
    BY <1>7 DEF Sound, HeroType
  <2>2. z \in 0..ZoneTicks
    BY <2>1, Lengths, LessIsLess
  <2>3. me' = [e EXCEPT !.zone = z]
    BY <1>4
  <2> HIDE DEF z
  <2>4. me' \in HeroType
    BY <1>7, <2>2, <2>3 DEF Sound, HeroType
  <2>5. me'.hp = e.hp /\ me'.alive = e.alive /\ me'.shield = e.shield /\ me'.shieldLeft = e.shieldLeft
        /\ me'.floor = e.floor /\ me'.silence = e.silence /\ me'.cast = e.cast
        /\ me'.hide = e.hide /\ me'.air = e.air /\ me'.clones = e.clones
    BY <1>7, <2>3 DEF Sound, HeroType
  <2> QED
    BY <1>7, <2>4, <2>5 DEF Sound
<1>9. kit' = kit /\ Sound(me)' /\ Assured' = Assured
  <2>1. kit' = kit
    BY <1>4
  <2> QED
    BY <1>8, <2>1 DEF Sound, HeroType, FloorTop, FloorOf, Assured
<1>10. sworn' \in Nat /\ sworn' <= me'.floor /\ sworn' <= Assured
  <2> DEFINE n == IF Folded(b.is) THEN Higher(sworn, Assured) ELSE sworn
  <2>1. sworn \in Nat /\ sworn <= me.floor /\ sworn <= Assured /\ me.fold \in Nat /\ b.is.fold \in Nat
        /\ b.is.floor \in Nat /\ me.floor \in Nat
    BY <1>6, Lengths DEF KitIInv, Sound, HeroType
  <2>2. n \in Nat /\ n <= b.is.floor /\ n <= Assured
    <3>1. CASE kit \in Donkeys /\ b.is.floor = FoldTicks
      BY <2>1, <3>1, Lengths DEF Higher
    <3>2. CASE b.is.floor = me.floor /\ (me.fold = 0 => b.is.fold = 0)
      <4>1. ~Folded(b.is)
        BY <3>2 DEF Folded
      <4> QED
        BY <2>1, <3>2, <4>1
    <3> QED
      BY <1>6, <3>1, <3>2
  <2>3. sworn' = Less(n) /\ me'.floor = Less(b.is.floor)
    BY <1>4, <1>7, <1>8
  <2> HIDE DEF n
  <2> QED
    BY <2>1, <2>2, <2>3, Lengths DEF Less
<1>11. /\ broken' \in BOOLEAN /\ (broken' => me'.cast = 0)
       /\ finished(b) => ~broken'
  <2>1. me.silence \in Nat /\ broken \in BOOLEAN /\ (broken => me.cast = 0 \/ me.silence > 1) /\ broken' = broken
    BY <1>4, Lengths DEF KitIInv, Sound, HeroType
  <2>2. me.silence > 1 => Less(me.silence) > 0
    BY <2>1 DEF Less
  <2>3. broken => b.is.cast = 0
    BY <1>6, <2>1, <2>2
  <2>4. broken /\ me.cast = 1 => ~(Less(me.silence) = 0)
    BY <2>1, <2>2
  <2>5. me'.cast = b.is.cast /\ (finished(b) => me.cast = 1 /\ Less(me.silence) = 0)
    BY <1>6, <1>7, <1>8
  <2> QED
    BY ONLY <2>1, <2>3, <2>4, <2>5
<1>12. pending' \in [attrs : SUBSET Resonances, age : 0..ChainWindow + 1, since : 0..ChainWindow + 1, clone : BOOLEAN]
       /\ (~pending'.clone => pending'.since = pending'.age)
  <2> DEFINE age == IF ~pending.clone /\ pending.attrs # {} /\ pending.age <= ChainWindow THEN pending.age + 1
                    ELSE pending.age
             since == IF pending.attrs # {} THEN Lower(pending.since + 1, ChainWindow + 1) ELSE pending.since
  <2>1. pending \in [attrs : SUBSET Resonances, age : 0..ChainWindow + 1, since : 0..ChainWindow + 1, clone : BOOLEAN]
        /\ (~pending.clone => pending.since = pending.age)
    BY DEF KitIInv
  <2>2. pending.age \in 0..ChainWindow + 1 /\ pending.since \in 0..ChainWindow + 1
    BY <2>1
  <2>3. age \in 0..ChainWindow + 1 /\ since \in 0..ChainWindow + 1
    BY <2>2, Lengths DEF Lower
  <2>4. ~pending.clone => since = age
    BY <2>1, <2>2, Lengths DEF Lower
  <2>5. pending' = [pending EXCEPT !.age = age, !.since = since]
    BY <1>4 DEF Aged
  <2> HIDE DEF age, since
  <2>6. pending' \in [attrs : SUBSET Resonances, age : 0..ChainWindow + 1, since : 0..ChainWindow + 1, clone : BOOLEAN]
    BY <2>1, <2>3, <2>5
  <2>7. pending'.clone = pending.clone /\ pending'.age = age /\ pending'.since = since
    BY <2>1, <2>5
  <2> QED
    BY <2>4, <2>6, <2>7
<1>13. last'.seen # "hittable" => last'.harm = {}
  <2>1. Asks(way)
    BY TacticsAsk DEF AllAsk
  <2>2. last'.seen = (IF way.needs = {} THEN "nobody" ELSE o.foe) /\ last'.harm = way.does \cap Harmful
    BY <1>4 DEF Witness, Idle
  <2>3. way.needs # {} => Met(way, o)
    BY DEF Company
  <2> QED
    BY <2>1, <2>2, <2>3 DEF Asks, Met
<1>14. last'.slot = (IF finished(b) THEN "finished" ELSE "none")
  BY <1>4 DEF Witness, Idle
<1> HIDE DEF finished
<1> QED
  BY <1>5, <1>9, <1>10, <1>11, <1>12, <1>13, <1>14 DEF KitIInv, HiddenIsSafe, SilencedCastFails

\* What happens to the hero between its own steps: only its state, and what was promised.
LEMMA SufferingKeeps ==
    ASSUME KitIInv, NEW m, Suffers(m), Sound(m), sworn' \in Nat, sworn' <= m.floor, sworn' <= Assured,
           broken' \in BOOLEAN, broken' => m.cast = 0 \/ m.silence > 1
    PROVE  KitIInv'
<1>1. me' = m /\ last' = Idle /\ UNCHANGED <<kit, pending>>
  BY DEF Suffers
<1>2. Sound(me)' /\ Assured' = Assured
  BY <1>1 DEF Sound, HeroType, FloorTop, FloorOf, Assured
<1>3. last'.harm = {} /\ last'.slot = "none"
  BY <1>1 DEF Idle
<1> QED
  BY <1>1, <1>2, <1>3 DEF KitIInv, HiddenIsSafe, SilencedCastFails

LEMMA OthersKeep ==
    ASSUME KitIInv, ToggleW \/ Hit \/ Silenced \/ Stunned \/ Cleansed \/ Granted \/ Return \/ NextFoe
    PROVE  KitIInv'
<1>1. Sound(me) /\ sworn \in Nat /\ sworn <= me.floor /\ sworn <= Assured /\ broken \in BOOLEAN
      /\ (broken => me.cast = 0 \/ me.silence > 1)
  BY DEF KitIInv
<1>2. me \in HeroType
  BY <1>1 DEF Sound
<1>3. CASE ToggleW
  <2> DEFINE on == ~me.on
             x == [me EXCEPT !.on = on]
  <2>1. on \in BOOLEAN
    OBVIOUS
  <2>2. Suffers(x) /\ UNCHANGED <<sworn, broken>>
    BY <1>3 DEF ToggleW, Suffers
  <2> HIDE DEF on
  <2>3. x \in HeroType
    BY <1>2, <2>1 DEF HeroType
  <2>4. x.hp = me.hp /\ x.alive = me.alive /\ x.shield = me.shield /\ x.shieldLeft = me.shieldLeft
        /\ SameClocks(x, me)
    BY <1>2 DEF HeroType, SameClocks
  <2> HIDE DEF x
  <2>5. Sound(x) /\ x.floor = me.floor /\ x.cast = me.cast /\ x.silence = me.silence
    BY <1>1, <2>3, <2>4 DEF Sound, SameClocks
  <2> QED
    BY <1>1, <2>2, <2>5, SufferingKeeps
<1>4. CASE Hit
  <2>1. PICK n \in 1..2 : Suffers(HurtMe(me, ApplyArmor(n, BaseArmor(me))))
    BY <1>4 DEF Hit
  <2>2. ApplyArmor(n, BaseArmor(me)) \in Nat /\ ApplyArmor(n, BaseArmor(me)) > 0
    <3>1. BaseArmor(me) \in Int
      BY DEF BaseArmor
    <3> QED
      BY <3>1 DEF ApplyArmor, Higher
  <2> DEFINE x == HurtMe(me, ApplyArmor(n, BaseArmor(me)))
  <2>3. me.alive /\ UNCHANGED <<sworn, broken>>
    BY <1>4 DEF Hit, InTheOpen
  <2>4. Sound(x) /\ SameClocks(x, me)
    BY <1>1, <2>2, <2>3, HurtIsSound
  <2>5. Suffers(x)
    BY <2>1
  <2> HIDE DEF x
  <2> QED
    BY <1>1, <2>3, <2>4, <2>5, SufferingKeeps DEF SameClocks
<1>5. CASE Silenced
  <2> DEFINE x == [me EXCEPT !.silence = SilenceTicks]
  <2>1. Suffers(x) /\ UNCHANGED sworn /\ broken' = (me.cast > 0)
    BY <1>5 DEF Silenced
  <2>2. SilenceTicks \in 0..SilenceTicks /\ SilenceTicks > 1
    BY Lengths
  <2>3. x \in HeroType
    BY <1>2, <2>2 DEF HeroType
  <2>4. x.hp = me.hp /\ x.alive = me.alive /\ x.shield = me.shield /\ x.shieldLeft = me.shieldLeft
        /\ x.floor = me.floor /\ x.silence = SilenceTicks
        /\ x.hide = me.hide /\ x.air = me.air /\ x.clones = me.clones
    BY <1>2 DEF HeroType
  <2> HIDE DEF x
  <2>5. Sound(x)
    BY <1>1, <2>3, <2>4 DEF Sound
  <2>6. broken' \in BOOLEAN
    BY <2>1
  <2> QED
    BY <1>1, <2>1, <2>2, <2>4, <2>5, <2>6, SufferingKeeps
<1>6. CASE Stunned
  <2> DEFINE x == [me EXCEPT !.stun = 1]
  <2>1. Suffers(x) /\ UNCHANGED <<sworn, broken>>
    BY <1>6 DEF Stunned
  <2>2. x \in HeroType
    BY <1>2 DEF HeroType
  <2>3. x.hp = me.hp /\ x.alive = me.alive /\ x.shield = me.shield /\ x.shieldLeft = me.shieldLeft
        /\ x.floor = me.floor /\ x.cast = me.cast /\ x.silence = me.silence
        /\ x.hide = me.hide /\ x.air = me.air /\ x.clones = me.clones
    BY <1>2 DEF HeroType
  <2> HIDE DEF x
  <2>4. Sound(x)
    BY <1>1, <2>2, <2>3 DEF Sound
  <2> QED
    BY <1>1, <2>1, <2>3, <2>4, SufferingKeeps
<1>7. CASE Cleansed
  <2> DEFINE h == [me EXCEPT !.hp = Grown(me, 1)]
             x == [h EXCEPT !.silence = 0]
  <2>1. me.alive /\ broken' = FALSE /\ UNCHANGED sworn /\ Suffers(x)
    BY <1>7 DEF Cleansed
  <2>2. Sound(h) /\ SameClocks(h, me)
    BY <1>1, <2>1, GrowingIsSound
  <2>3. h \in HeroType /\ 0 \in 0..SilenceTicks
    BY <2>2, Lengths DEF Sound
  <2> HIDE DEF h
  <2>4. x \in HeroType
    BY <2>3 DEF HeroType
  <2>5. x.hp = h.hp /\ x.alive = h.alive /\ x.shield = h.shield /\ x.shieldLeft = h.shieldLeft /\ x.floor = h.floor
        /\ x.hide = h.hide /\ x.air = h.air /\ x.clones = h.clones
    BY <2>3 DEF HeroType
  <2> HIDE DEF x
  <2>6. Sound(x) /\ x.floor = me.floor
    BY <2>2, <2>4, <2>5 DEF Sound, SameClocks
  <2> QED
    BY <1>1, <2>1, <2>6, SufferingKeeps
<1>8. CASE Granted
  <2> DEFINE x == [me EXCEPT !.refund = TRUE]
  <2>1. Suffers(x) /\ UNCHANGED <<sworn, broken>>
    BY <1>8 DEF Granted
  <2>2. x \in HeroType
    BY <1>2 DEF HeroType
  <2>3. x.hp = me.hp /\ x.alive = me.alive /\ x.shield = me.shield /\ x.shieldLeft = me.shieldLeft
        /\ x.floor = me.floor /\ x.cast = me.cast /\ x.silence = me.silence
        /\ x.hide = me.hide /\ x.air = me.air /\ x.clones = me.clones
    BY <1>2 DEF HeroType
  <2> HIDE DEF x
  <2>4. Sound(x)
    BY <1>1, <2>2, <2>3 DEF Sound
  <2> QED
    BY <1>1, <2>1, <2>3, <2>4, SufferingKeeps
<1>9. CASE Return
  <2> DEFINE x == Whole(me.most)
  <2>1. me.most \in BaseLife..MaxLife
    BY <1>2 DEF HeroType
  <2>2. Sound(x) /\ x.floor = 0 /\ x.cast = 0
    BY <2>1, WholeIsSound
  <2>4. sworn' = 0 /\ broken' = FALSE /\ Suffers(x)
    BY <1>9 DEF Return
  <2> HIDE DEF x
  <2>5. sworn' \in Nat /\ sworn' <= x.floor
    BY <2>2, <2>4
  <2>6. sworn' <= Assured
    BY <2>4, Lengths
  <2>7. broken' \in BOOLEAN /\ ~broken'
    BY ONLY <2>4
  <2> QED
    BY <2>2, <2>4, <2>5, <2>6, <2>7, SufferingKeeps
<1>10. CASE NextFoe
  <2>1. pending' \in Fresh /\ last' = Idle /\ UNCHANGED <<kit, me, sworn, broken>>
    BY <1>10 DEF NextFoe
  <2>2. pending' \in [attrs : SUBSET Resonances, age : 0..ChainWindow + 1, since : 0..ChainWindow + 1, clone : BOOLEAN]
        /\ pending'.since = pending'.age
    BY <2>1, Lengths DEF Fresh
  <2>3. last'.harm = {} /\ last'.slot = "none"
    BY <2>1 DEF Idle
  <2>4. Sound(me)' /\ Assured' = Assured
    BY <1>1, <2>1 DEF Sound, HeroType, FloorTop, FloorOf, Assured
  <2> QED
    BY <2>1, <2>2, <2>3, <2>4 DEF KitIInv, HiddenIsSafe, SilencedCastFails
<1> QED
  BY <1>3, <1>4, <1>5, <1>6, <1>7, <1>8, <1>9, <1>10

\* In the air, down again, seen, bereft of a clone, and with other items.
LEMMA FlightsKeep ==
    ASSUME KitIInv, Glide \/ Tailwind \/ Grounded \/ Revealed \/ Cascaded \/ Traded
    PROVE  KitIInv'
<1>1. Sound(me) /\ sworn \in Nat /\ sworn <= me.floor /\ sworn <= Assured /\ broken \in BOOLEAN
      /\ (broken => me.cast = 0 \/ me.silence > 1)
  BY DEF KitIInv
<1>2. me \in HeroType
  BY <1>1 DEF Sound
<1>3. ASSUME NEW m, Unsworn(m), Sound(m), m.floor = me.floor, m.cast = me.cast, m.silence = me.silence
      PROVE  KitIInv'
  BY <1>1, <1>3, SufferingKeeps DEF Unsworn
\* only how long it is hidden and in the air, and its cooldowns
<1>4. ASSUME NEW hide \in 0..LongHide + MaxAir, NEW air \in 0..MaxAir, hide <= LongHide + air,
             NEW cd \in SUBSET {"Q", "W", "R", "glide"}, NEW m,
             m = [me EXCEPT !.air = air, !.hide = hide, !.cd = cd], Unsworn(m)
      PROVE  KitIInv'
  <2>1. m \in HeroType
    BY <1>2, <1>4 DEF HeroType
  <2>2. m.hp = me.hp /\ m.alive = me.alive /\ m.shield = me.shield /\ m.shieldLeft = me.shieldLeft
        /\ m.floor = me.floor /\ m.cast = me.cast /\ m.silence = me.silence
        /\ m.hide = hide /\ m.air = air /\ m.clones = me.clones
    BY <1>2, <1>4 DEF HeroType
  <2>3. Sound(m)
    BY <1>1, <1>4, <2>1, <2>2 DEF Sound
  <2> QED
    BY <1>3, <1>4, <2>2, <2>3
<1>5. me.air \in 0..MaxAir /\ me.hide \in 0..LongHide + MaxAir /\ me.hide <= LongHide + me.air
      /\ me.cd \in SUBSET {"Q", "W", "R", "glide"}
  BY <1>1, <1>2 DEF HeroType, Sound
<1>6. me = [me EXCEPT !.air = me.air, !.cd = me.cd] /\ me = [me EXCEPT !.cd = me.cd]
  BY <1>2 DEF HeroType
<1>7. CASE Glide
  <2> DEFINE cd == me.cd \cup {"glide"}
  <2>1. GlideTicks \in 0..LongHide + MaxAir /\ GlideTicks \in 0..MaxAir /\ GlideTicks <= LongHide + GlideTicks
    BY Lengths
  <2>2. cd \in SUBSET {"Q", "W", "R", "glide"}
    BY <1>5
  <2>3. Unsworn([me EXCEPT !.air = GlideTicks, !.hide = GlideTicks, !.cd = cd])
    BY <1>7 DEF Glide
  <2> HIDE DEF cd
  <2> QED
    BY <1>4, <2>1, <2>2, <2>3
<1>8. CASE Tailwind
  <2> DEFINE air == me.air + GlideTicks
             hide == me.hide + GlideTicks
             m == [me EXCEPT !.air = air, !.hide = hide]
  <2>1. air \in 0..MaxAir /\ hide \in 0..LongHide + MaxAir /\ hide <= LongHide + air
    BY <1>5, <1>8, Lengths DEF Tailwind
  <2>2. Unsworn(m)
    BY <1>8 DEF Tailwind
  <2> HIDE DEF air, hide
  <2>3. m = [me EXCEPT !.air = air, !.hide = hide, !.cd = me.cd]
    BY <1>2 DEF HeroType
  <2> HIDE DEF m
  <2> QED
    BY <1>4, <1>5, <2>1, <2>2, <2>3
<1>9. CASE Grounded
  <2> DEFINE m == [me EXCEPT !.air = 0, !.hide = 0]
  <2>1. 0 \in 0..MaxAir /\ 0 \in 0..LongHide + MaxAir /\ 0 <= LongHide + 0
    BY Lengths
  <2>2. Unsworn(m)
    BY <1>9 DEF Grounded
  <2>3. m = [me EXCEPT !.air = 0, !.hide = 0, !.cd = me.cd]
    BY <1>2 DEF HeroType
  <2> HIDE DEF m
  <2> QED
    BY <1>4, <1>5, <2>1, <2>2, <2>3
<1>10. CASE Revealed
  <2> DEFINE m == [me EXCEPT !.hide = 0]
  <2>1. 0 \in 0..LongHide + MaxAir /\ 0 <= LongHide + me.air
    BY <1>5, Lengths
  <2>2. Unsworn(m)
    BY <1>10 DEF Revealed
  <2>3. m = [me EXCEPT !.air = me.air, !.hide = 0, !.cd = me.cd]
    BY <1>2 DEF HeroType
  <2> HIDE DEF m
  <2> QED
    BY <1>4, <1>5, <2>1, <2>2, <2>3
<1>11. CASE Cascaded
  <2> DEFINE m == [me EXCEPT !.hp = 0, !.alive = FALSE, !.clones = "lost"]
  <2>1. Unsworn(m)
    BY <1>11 DEF Cascaded
  <2>2. 0 \in 0..MaxLife
    BY Lengths
  <2>3. m \in HeroType
    BY <1>2, <2>2 DEF HeroType
  <2>4. m.hp = 0 /\ ~m.alive /\ m.shield = me.shield /\ m.shieldLeft = me.shieldLeft
        /\ m.floor = me.floor /\ m.cast = me.cast /\ m.silence = me.silence
        /\ m.hide = me.hide /\ m.air = me.air /\ m.clones = "lost"
    BY <1>2 DEF HeroType
  <2> HIDE DEF m
  <2>5. Sound(m)
    BY <1>1, <2>3, <2>4 DEF Sound
  <2> QED
    BY <1>3, <2>1, <2>4, <2>5
<1>12. CASE Traded
  <2>1. PICK n \in BaseLife..MaxLife : Unsworn([me EXCEPT !.most = n, !.hp = Higher(1, Lower(n, me.hp + n - me.most))])
    BY <1>12 DEF Traded
  <2> DEFINE hp == Higher(1, Lower(n, me.hp + n - me.most))
             m == [me EXCEPT !.most = n, !.hp = hp]
  <2>2. me.hp \in 0..MaxLife /\ me.most \in BaseLife..MaxLife /\ me.alive
    BY <1>2, <1>12 DEF HeroType, Traded
  <2>3. hp \in 0..MaxLife /\ hp > 0
    BY <2>2, Lengths DEF Higher, Lower
  <2>4. Unsworn(m)
    BY <2>1
  <2> HIDE DEF hp
  <2>5. m \in HeroType
    BY <1>2, <2>3 DEF HeroType
  <2>6. m.hp = hp /\ m.alive = me.alive /\ m.shield = me.shield /\ m.shieldLeft = me.shieldLeft
        /\ m.floor = me.floor /\ m.cast = me.cast /\ m.silence = me.silence
        /\ m.hide = me.hide /\ m.air = me.air /\ m.clones = me.clones
    BY <1>2 DEF HeroType
  <2> HIDE DEF m
  <2>7. Sound(m)
    BY <1>1, <2>2, <2>3, <2>5, <2>6 DEF Sound
  <2> QED
    BY <1>3, <2>4, <2>6, <2>7
<1> QED
  BY <1>7, <1>8, <1>9, <1>10, <1>11, <1>12

LEMMA KitKeeps == KitIInv /\ [KitNext]_kitVars => KitIInv'
<1> SUFFICES ASSUME KitIInv, [KitNext]_kitVars PROVE KitIInv'
  OBVIOUS
<1>1. CASE CastQ
  BY <1>1, CastKeeps DEF CastQ
<1>2. CASE CastW
  BY <1>2, CastKeeps DEF CastW
<1>3. CASE CastR
  BY <1>3, CastKeeps DEF CastR
<1>4. CASE TickHeroKit
  BY <1>4, TickKeeps
<1>5. CASE ToggleW \/ Hit \/ Silenced \/ Stunned \/ Cleansed \/ Granted \/ Return \/ NextFoe
  BY <1>5, OthersKeep
<1>6. CASE Glide \/ Tailwind \/ Grounded \/ Revealed \/ Cascaded \/ Traded
  BY <1>6, FlightsKeep
<1>7. CASE UNCHANGED kitVars
  BY <1>7 DEF kitVars, KitIInv, Sound, HeroType, FloorTop, FloorOf, Assured, HiddenIsSafe, SilencedCastFails
<1> QED
  BY <1>1, <1>2, <1>3, <1>4, <1>5, <1>6, <1>7 DEF KitNext

\* Every hero, with any lengths of its effects, with or without a Donkey: no corpse has hp, who
\* cannot be hit is unharmed, a silenced cast never finishes, no shield outlives its time, nobody
\* is out of reach for longer than the winds carry it, and nobody dies under a floor, but Tyler
\* with a clone of his (arena_cast_q, arena_toggle_w, arena_cast_r, tick_hero_kit,
\* weatherman_cast_w, tyler_clone_cascade_kill).
THEOREM KitsAreSound == KitSpec => []KitInv
<1>1. KitSpec => []KitIInv
  BY KitBegins, KitKeeps, PTL DEF KitSpec
<1> QED
  BY <1>1, KitIsSound, PTL

LEMMA SlotOf ==
    ASSUME NEW s \in {"Q", "W", "R"}, KitIInv, s = "W" => HasW(kit), CastSlot(s)
    PROVE  /\ last'.slot = s
           /\ IF last'.landed \/ AbilityOf(s, kit).dry THEN Price(s) ELSE me' = me
           /\ last'.tier > 0 => pending.age <= ChainWindow
<1> DEFINE ability == AbilityOf(s, kit)
<1>1. Sound(me) /\ me.alive /\ me.silence = 0 /\ me.mp >= 1
  BY DEF CastSlot, KitIInv, Ready, Able
<1>2. PICK o \in Others : \/ \E way \in ability.ways : Met(way, o) /\ Land(s, way, o)
                          \/ Whiff(s, ability)
  BY DEF CastSlot
<1> HIDE DEF ability
<1>3. CASE \E way \in ability.ways : Met(way, o) /\ Land(s, way, o)
  <2>1. PICK way \in ability.ways : Land(s, way, o)
    BY <1>3
  <2>2. PICK past \in 1..MaxLife :
          /\ me' = Paid(Done(me, way.does, past), s)
          /\ last' = [Witness(s, way, o) EXCEPT !.landed = TRUE, !.tier = ChainTier(pending, way.does \cap Resonances)]
    <3>1. 1 \in 1..MaxLife
      BY Lengths
    <3> QED
      BY <2>1, <3>1 DEF Land
  <2>3. last'.slot = s /\ last'.landed /\ last'.tier = ChainTier(pending, way.does \cap Resonances)
    BY <2>2 DEF Witness, Idle
  <2>4. Price(s)
    BY <1>1, <2>2, CastsAreSound DEF Price
  <2>5. ChainTier(pending, way.does \cap Resonances) > 0 => pending.age <= ChainWindow
    <3>1. pending.age \in Nat
      BY Lengths DEF KitIInv
    <3> QED
      BY <3>1, Lengths DEF ChainTier
  <2> QED
    BY <2>3, <2>4, <2>5
<1>4. CASE Whiff(s, ability)
  <2>1. me' = (IF ability.dry THEN Paid(me, s) ELSE me) /\ last' = [Idle EXCEPT !.slot = s]
    BY <1>4 DEF Whiff
  <2>2. last'.slot = s /\ ~last'.landed /\ last'.tier = 0
    BY <2>1 DEF Idle
  <2>3. ability.dry => Price(s)
    <3>1. Done(me, {}, 1) = me /\ 1 \in 1..MaxLife
      BY <1>1, NothingDone, Lengths DEF Sound
    <3> QED
      BY <1>1, <2>1, <3>1, CastsAreSound DEF Price
  <2>4. ~ability.dry => me' = me
    BY <2>1
  <2> QED
    BY <2>2, <2>3, <2>4 DEF ability
<1> QED
  BY <1>2, <1>3, <1>4

\* A cast that finds its mark costs mana and a cooldown or the refund; one that does not costs
\* nothing; a chain is closed only within its window (arena_cast_*, arena_skillchain_try).
THEOREM CastsArePaid == KitSpec => KitSteps
<1>1. KitSpec => []KitIInv
  BY KitBegins, KitKeeps, PTL DEF KitSpec
<1> DEFINE Costs == last'.slot \in {"Q", "W", "R"} =>
               IF last'.landed \/ AbilityOf(last'.slot, kit).dry THEN Price(last'.slot) ELSE me' = me
           Timely == last'.tier > 0 /\ ~pending.clone => pending.since <= ChainWindow
<1>2. ASSUME KitIInv, KitNext PROVE Costs /\ Timely
  <2>1. ASSUME NEW s \in {"Q", "W", "R"}, s = "W" => HasW(kit), CastSlot(s)
        PROVE  Costs /\ Timely
    BY <1>2, <2>1, SlotOf DEF KitIInv
  <2>2. CASE TickHeroKit
    <3>1. \E b, way, o : last' = Witness(IF b THEN "finished" ELSE "none", way, o)
      BY <2>2 DEF TickHeroKit
    <3>2. last'.slot \in {"finished", "none"} /\ last'.tier = 0
      BY <3>1 DEF Witness, Idle
    <3> QED
      BY <3>2
  <2>3. CASE \/ ToggleW \/ Hit \/ Silenced \/ Stunned \/ Cleansed \/ Granted \/ Return \/ NextFoe
             \/ Glide \/ Tailwind \/ Grounded \/ Revealed \/ Cascaded \/ Traded
    <3>1. last' = Idle
      BY <2>3 DEF Glide, Tailwind, Grounded, Revealed, Cascaded, Traded, Unsworn, ToggleW, Hit, Silenced, Stunned, Cleansed, Granted, Return, NextFoe, Suffers
    <3>2. last'.slot = "none" /\ last'.tier = 0
      BY <3>1 DEF Idle
    <3> QED
      BY <3>2
  <2> QED
    BY <1>2, <2>1, <2>2, <2>3 DEF KitNext, CastQ, CastW, CastR
<1>3. KitIInv /\ [KitNext]_kitVars => [Costs]_kitVars /\ [Timely]_kitVars
  BY <1>2
<1> QED
  BY <1>1, <1>3, PTL DEF KitSpec, KitSteps, NothingForFree, ChainInTime
==============================================================================
