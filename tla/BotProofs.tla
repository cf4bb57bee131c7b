------------------------------- MODULE BotProofs -------------------------------
(* Proofs about the arena bot: what it decides, for any snapshots and any      *)
(* timing, that the squads of a team, which no message agrees on, differ, and  *)
(* that bots, matchmaker and servers agree on who waits and who plays.         *)
EXTENDS ArenaBot, Session, SequenceTheorems, FunctionTheorems, FiniteSetTheorems, WellFoundedInduction,
        NaturalsInduction, TLAPS

-----------------------------------------------------------------------------
(* The decisions of one bot.                                               *)

LEMMA BotSizes ==
    /\ SilenceLimit \in Nat \ {0} /\ PickRest \in Nat \ {0} /\ CampTicks \in Nat \ {0} /\ Pause \in Nat \ {0}
    /\ Catalog \in Nat /\ PatienceBonus \in Nat /\ Slots \in Nat \ {0}
    /\ Places \subseteq Int /\ NodeAt \in Seq(Int) /\ Views \subseteq AllViews
BY BotAssumption, ViewsAssumption

Sendable == {"fountain", "shop", "buy", "camp", "powerup", "node", "none", "chase", "attack", "cast"}
Mentions(sent, o) == \E i \in DOMAIN sent : sent[i] = o

LEMMA JoinedMentions ==
    ASSUME NEW s \in Seq(Sendable), NEW t \in Seq(Sendable), NEW o, Mentions(s \o t, o)
    PROVE  Mentions(s, o) \/ Mentions(t, o)
<1>1. /\ s \o t \in Seq(Sendable) /\ Len(s \o t) = Len(s) + Len(t) /\ Len(s) \in Nat /\ Len(t) \in Nat
      /\ \A i \in 1..Len(s) + Len(t) : (s \o t)[i] = IF i <= Len(s) THEN s[i] ELSE t[i - Len(s)]
  BY ConcatProperties
<1>2. DOMAIN (s \o t) = 1..Len(s) + Len(t) /\ DOMAIN s = 1..Len(s) /\ DOMAIN t = 1..Len(t)
  BY <1>1
<1>3. PICK i \in 1..Len(s) + Len(t) : (s \o t)[i] = o
  BY <1>2 DEF Mentions
<1>4. CASE i <= Len(s)
  <2>1. i \in DOMAIN s /\ s[i] = o
    BY <1>1, <1>2, <1>3, <1>4
  <2> QED
    BY <2>1 DEF Mentions
<1>5. CASE ~(i <= Len(s))
  <2>1. i - Len(s) \in DOMAIN t /\ t[i - Len(s)] = o
    BY <1>1, <1>2, <1>3, <1>5
  <2> QED
    BY <2>1 DEF Mentions
<1> QED
  BY <1>4, <1>5

LEMMA ShortMentions ==
    /\ \A o : ~Mentions(<<>>, o)
    /\ \A a, o : Mentions(<<a>>, o) => o = a
    /\ \A a, b, o : Mentions(<<a, b>>, o) => o = a \/ o = b
BY DEF Mentions

LEMMA ShortIsSent ==
    /\ <<>> \in Seq(Sendable)
    /\ \A a \in Sendable : <<a>> \in Seq(Sendable)
    /\ \A a, b \in Sendable : <<a, b>> \in Seq(Sendable)
<1> HIDE DEF Sendable
<1> QED
  OBVIOUS

\* What is sent while the bot fights.
LEMMA FightMentions ==
    ASSUME NEW o, o \notin {"chase", "attack", "cast"}
    PROVE  /\ <<"chase", "attack">> \o Casts \in Seq(Sendable)
           /\ ~Mentions(<<"chase", "attack">> \o Casts, o)
<1>1. Casts \in Seq(Sendable) /\ <<"chase", "attack">> \in Seq(Sendable)
  <2>1. "cast" \in Sendable /\ "chase" \in Sendable /\ "attack" \in Sendable
    BY DEF Sendable
  <2>2. CASE sinceCast > Pause
    BY <2>1, <2>2, ShortIsSent DEF Casts
  <2>3. CASE ~(sinceCast > Pause)
    BY <2>1, <2>3, ShortIsSent DEF Casts
  <2> QED
    BY <2>2, <2>3
<1>2. ~Mentions(Casts, o)
  BY ShortMentions DEF Casts
<1>3. ~Mentions(<<"chase", "attack">>, o)
  BY ShortMentions
<1> HIDE DEF Casts
<1>4. <<"chase", "attack">> \o Casts \in Seq(Sendable)
  BY <1>1, ConcatProperties
<1> QED
  BY <1>1, <1>2, <1>3, <1>4, JoinedMentions

\* A bot buys only where it shops and camps only when it camps.
LEMMA SendsMention ==
    ASSUME NEW v \in LiveViews, NEW r \in BOOLEAN, NEW camps \in BOOLEAN
    PROVE  /\ Mentions(Sends(v, r, camps), "buy") => Shops(v, camps)
           /\ Mentions(Sends(v, r, camps), "camp") => camps /\ ~r
           /\ r => Sends(v, r, camps) = <<"fountain">>
<1> DEFINE bag == IF Buys(v) THEN <<"buy">> ELSE <<>>
           way == IF Errand(v, camps) = "none" THEN <<>> ELSE <<Errand(v, camps)>>
           fight == IF Fights(v, camps) THEN <<"chase", "attack">> \o Casts ELSE <<>>
<1>1. CASE r
  <2>1. Sends(v, r, camps) = <<"fountain">>
    BY <1>1 DEF Sends
  <2> HIDE DEF bag, way, fight
  <2> QED
    BY <1>1, <2>1, ShortMentions
<1>2. CASE ~r /\ Shops(v, camps)
  <2>1. Sends(v, r, camps) = <<"shop">> \o bag
    BY <1>2 DEF Sends
  <2>2. <<"shop">> \in Seq(Sendable) /\ bag \in Seq(Sendable) /\ ~Mentions(bag, "camp") /\ ~Mentions(<<"shop">>, "camp")
    <3>1. "shop" \in Sendable /\ "buy" \in Sendable /\ "camp" # "buy" /\ "camp" # "shop"
      BY DEF Sendable
    <3>2. <<"shop">> \in Seq(Sendable) /\ ~Mentions(<<"shop">>, "camp")
      BY <3>1, ShortIsSent, ShortMentions
    <3>3. CASE Buys(v)
      BY <3>1, <3>2, <3>3, ShortIsSent, ShortMentions
    <3>4. CASE ~Buys(v)
      BY <3>1, <3>2, <3>4, ShortIsSent, ShortMentions
    <3> QED
      BY <3>3, <3>4
  <2> HIDE DEF bag, way, fight
  <2>3. ~Mentions(<<"shop">> \o bag, "camp")
    BY <2>2, JoinedMentions
  <2> QED
    BY <1>2, <2>1, <2>3
<1>3. CASE ~r /\ ~Shops(v, camps)
  <2>1. Sends(v, r, camps) = way \o fight
    BY <1>3 DEF Sends
  <2>2. v.aim \in {"powerup", "node", "none"}
    BY DEF LiveViews
  <2>3. Errand(v, camps) \in {"none", "camp", "powerup", "node"} /\ (Errand(v, camps) = "camp" => camps)
    BY <2>2 DEF Errand
  <2>4. way \in Seq(Sendable) /\ ~Mentions(way, "buy") /\ (Mentions(way, "camp") => camps)
    <3> HIDE DEF fight, bag
    <3>1. Errand(v, camps) \in Sendable /\ "buy" \notin {"none", "camp", "powerup", "node"}
      BY <2>3 DEF Sendable
    <3>2. CASE Errand(v, camps) = "none"
      BY <3>2, ShortIsSent, ShortMentions
    <3>3. CASE Errand(v, camps) # "none"
      BY <2>3, <3>1, <3>3, ShortIsSent, ShortMentions
    <3> QED
      BY <3>2, <3>3
  <2>5. fight \in Seq(Sendable) /\ ~Mentions(fight, "buy") /\ ~Mentions(fight, "camp")
    <3>1. "buy" \notin {"chase", "attack", "cast"} /\ "camp" \notin {"chase", "attack", "cast"}
      OBVIOUS
    <3>2. CASE Fights(v, camps)
      <4>1. fight = <<"chase", "attack">> \o Casts
        BY <3>2
      <4> HIDE DEF fight
      <4> QED
        BY <3>1, <4>1, FightMentions
    <3>3. CASE ~Fights(v, camps)
      <4>1. fight = <<>>
        BY <3>3
      <4> HIDE DEF fight
      <4> QED
        BY <4>1, ShortIsSent, ShortMentions
    <3> QED
      BY <3>2, <3>3
  <2> HIDE DEF bag, way, fight
  <2>6. ~Mentions(way \o fight, "buy") /\ (Mentions(way \o fight, "camp") => camps)
    BY <2>4, <2>5, JoinedMentions
  <2> QED
    BY <1>3, <2>1, <2>6
<1> QED
  BY <1>1, <1>2, <1>3

\* What a bot keeps of the snapshot before the last.
Past == [phase : {"live", "dead"}, bounties : 0..1] \cup {NoView}

BotIInv ==
    /\ seen \in AllViews \cup {NoView} /\ before \in Past
    /\ silent \in 0..SilenceLimit + 1 /\ picked \in BOOLEAN /\ sincePick \in 0..PickRest
    /\ retreating \in BOOLEAN /\ camping \in BOOLEAN /\ campAge \in 0..CampTicks + 1
    /\ shopNext \in 0..Catalog /\ sinceBuy \in 1..Pause + 1 /\ sinceCast \in 1..Pause + 1
    /\ over \in BOOLEAN /\ hurt \in BOOLEAN /\ bounty \in 0..BountyAge + 1
    /\ ~(retreating /\ camping) /\ (campAge > 0 <=> camping)
    \* it retreats exactly while it has to heal up, and only in the match
    /\ hurt = retreating
    /\ ~over /\ hurt => Playing(seen)
    /\ ~over => silent <= SilenceLimit
    \* a pair of snapshots that starts a camp is no older than the silence since
    /\ ~over /\ seen.phase = "live" /\ Rewarded(seen, before) => bounty <= silent
    /\ camping /\ campAge <= CampTicks => bounty < SilenceLimit + campAge
    /\ HealsUp /\ CampsAfterBounty

LEMMA BotIsFree == BotIInv => BotTypeOK /\ HealsUp /\ CampsAfterBounty
BY DEF BotIInv, BotTypeOK

LEMMA BotBegins == BotInit => BotIInv
<1> SUFFICES ASSUME BotInit PROVE BotIInv
  OBVIOUS
<1>1. HealsUp /\ CampsAfterBounty
  BY DEF BotInit, HealsUp, CampsAfterBounty
<1>2. /\ 0 \in 0..SilenceLimit + 1 /\ 0 \in 0..PickRest /\ 0 \in 0..CampTicks + 1 /\ 0 \in 0..Catalog
      /\ Pause + 1 \in 1..Pause + 1 /\ BountyAge + 1 \in 0..BountyAge + 1
  BY BotSizes DEF BountyAge
<1>3. NoView.phase = "none"
  BY DEF NoView
<1>4. seen \in AllViews \cup {NoView} /\ before \in Past
  BY DEF BotInit, Past
<1>5. seen.phase # "live" /\ ~(campAge > 0)
  BY <1>3, BotSizes DEF BotInit
<1>6. /\ silent = 0 /\ picked = FALSE /\ sincePick = 0 /\ retreating = FALSE /\ camping = FALSE /\ campAge = 0
      /\ shopNext = 0 /\ sinceBuy = Pause + 1 /\ sinceCast = Pause + 1
      /\ over = FALSE /\ hurt = FALSE /\ bounty = BountyAge + 1
  BY DEF BotInit
<1>7. silent <= SilenceLimit /\ (campAge > 0 <=> camping) /\ hurt = retreating
  <2>1. 0 <= SilenceLimit /\ ~(0 > 0)
    BY BotSizes
  <2>2. hurt = retreating
    BY ONLY <1>6
  <2>3. campAge > 0 <=> camping
    BY ONLY <1>6, <2>1
  <2> QED
    BY <1>6, <2>1, <2>2, <2>3
<1> QED
  BY <1>1, <1>2, <1>4, <1>5, <1>6, <1>7 DEF BotIInv

LEMMA WhatIsSeen ==
    /\ \A v \in AllViews : v.phase \in {"live", "dead", "draft", "won"}
    /\ \A v \in AllViews : v.phase = "live" => v \in LiveViews
    /\ \A v \in AllViews : Kept(v) \in Past
    /\ NoView.phase = "none" /\ Kept(NoView) \in Past
<1>1. NoView.phase = "none" /\ ~Playing(NoView)
  BY DEF NoView, Playing
<1>2. NoView \in Past
  BY DEF Past
<1>3. ASSUME NEW v \in AllViews
      PROVE  /\ v.phase \in {"live", "dead", "draft", "won"} /\ (v.phase = "live" => v \in LiveViews)
             /\ Playing(v) => v.bounties \in 0..1
  BY DEF AllViews, LiveViews, Playing
<1>4. ASSUME NEW v \in AllViews PROVE Kept(v) \in Past
  <2>1. CASE Playing(v)
    <3>1. v.phase \in {"live", "dead"} /\ v.bounties \in 0..1 /\ Kept(v) = [phase |-> v.phase, bounties |-> v.bounties]
      BY <1>3, <2>1 DEF Playing, Kept
    <3> QED
      BY <3>1 DEF Past
  <2>2. CASE ~Playing(v)
    BY <1>2, <2>2 DEF Kept
  <2> QED
    BY <2>1, <2>2
<1> QED
  BY <1>1, <1>2, <1>3, <1>4 DEF Kept

\* What comes in at the beginning of a pass.
LEMMA WhatComes ==
    ASSUME BotIInv, NEW got \in BOOLEAN, NEW v, got => v \in Views /\ Comes(v), ~over,
           seen' = (IF got THEN v ELSE seen), before' = (IF got THEN Kept(seen) ELSE before),
           silent' = (IF got THEN 0 ELSE silent + 1)
    PROVE  /\ seen' \in AllViews \cup {NoView} /\ before' \in Past
           /\ silent' \in 0..SilenceLimit + 1
           /\ hurt /\ seen'.phase # "won" => Playing(seen')
<1>1. seen' \in AllViews \cup {NoView} /\ before' \in Past
  BY BotSizes, WhatIsSeen DEF BotIInv
<1>2. silent' \in 0..SilenceLimit + 1
  BY BotSizes DEF BotIInv
<1>3. ASSUME hurt, seen'.phase # "won" PROVE Playing(seen')
  <2>1. Playing(seen)
    BY <1>3 DEF BotIInv
  <2>2. CASE got
    <3>1. v \in AllViews /\ v.phase # "won" /\ v.phase # "draft" /\ seen' = v
      BY <1>3, <2>1, <2>2, BotSizes DEF Comes
    <3> QED
      BY <3>1, WhatIsSeen DEF Playing
  <2> QED
    BY <2>1, <2>2
<1> QED
  BY <1>1, <1>2, <1>3

LEMMA BotDecides ==
    ASSUME BotIInv, NEW got \in BOOLEAN, NEW v, got => v \in Views /\ Comes(v), ~over,
           seen' = (IF got THEN v ELSE seen), before' = (IF got THEN Kept(seen) ELSE before),
           silent' = (IF got THEN 0 ELSE silent + 1), silent' <= SilenceLimit,
           seen'.phase = "live", Decide(seen', before', got)
    PROVE  BotIInv'
<1>1. /\ seen' \in AllViews \cup {NoView} /\ before' \in Past /\ silent' \in 0..SilenceLimit + 1
  BY WhatComes
<1>2. seen' \in LiveViews /\ Playing(seen')
  BY <1>1, WhatIsSeen DEF Playing
<1> DEFINE r == Retreats(seen', retreating)
           camps == MakesCamp(seen', before', r)
<1>3. /\ retreating' = r /\ camping' = camps
      /\ campAge' = (IF ~camps THEN 0 ELSE IF camping THEN campAge + 1 ELSE 1)
      /\ orders' = Sends(seen', r, camps)
      /\ shopNext' = (IF Issues("buy") THEN shopNext + 1 ELSE shopNext)
      /\ sinceBuy' = (IF Issues("buy") THEN 1 ELSE Older(sinceBuy))
      /\ sinceCast' = (IF Issues("cast") THEN 1 ELSE Older(sinceCast))
      /\ hurt' = (IF hurt THEN seen'.hp # "full" ELSE seen'.hp = "low")
      /\ bounty' = (IF got /\ Rewarded(seen', before') THEN 0 ELSE Later(bounty, BountyAge + 1))
      /\ picked' = picked /\ sincePick' = sincePick /\ over' = over
  BY DEF Decide
<1>4. r \in BOOLEAN /\ camps \in BOOLEAN /\ (camps => ~r)
  BY DEF Retreats, MakesCamp, CampGoesOn, Rewarded, BotIInv
<1>5. camps /\ camping => campAge <= CampTicks
  BY DEF MakesCamp, CampGoesOn
<1>6. camps /\ ~camping => Rewarded(seen', before')
  BY DEF MakesCamp
<1>7. hurt' = r
  BY <1>3 DEF Retreats, BotIInv
<1> HIDE DEF r, camps
<1>8. /\ Issues("buy") => Shops(seen', camps)
      /\ (\E i \in DOMAIN orders' : orders'[i] = "camp") => camps
      /\ r => orders' = <<"fountain">>
  <2>1. /\ Mentions(Sends(seen', r, camps), "buy") => Shops(seen', camps)
        /\ Mentions(Sends(seen', r, camps), "camp") => camps /\ ~r
        /\ r => Sends(seen', r, camps) = <<"fountain">>
    BY <1>2, <1>4, SendsMention
  <2> QED
    BY <1>3, <2>1 DEF Issues, Mentions
<1>9. shopNext' \in 0..Catalog
  <2>1. shopNext \in 0..Catalog /\ (Issues("buy") => shopNext < Catalog)
    BY <1>8 DEF Shops, BotIInv
  <2> QED
    BY <1>3, <2>1, BotSizes
<1>10. sinceBuy' \in 1..Pause + 1 /\ sinceCast' \in 1..Pause + 1
  BY <1>3, BotSizes DEF Older, Later, BotIInv
<1>11. campAge' \in 0..CampTicks + 1 /\ (campAge' > 0 <=> camps)
  BY <1>3, <1>4, <1>5, BotSizes DEF BotIInv
<1>12. bounty' \in 0..BountyAge + 1 /\ (Rewarded(seen', before') => bounty' <= silent')
  <2>1. BountyAge \in Nat /\ SilenceLimit <= BountyAge /\ bounty \in 0..BountyAge + 1
    BY BotSizes DEF BountyAge, BotIInv
  <2>2. CASE got
    BY <1>3, <2>1, <2>2 DEF Later
  <2>3. CASE ~got
    <3>1. seen' = seen /\ before' = before /\ silent' = silent + 1 /\ bounty' = Later(bounty, BountyAge + 1)
      BY <1>3, <2>3
    <3>2. Rewarded(seen', before') => bounty <= silent
      BY <3>1 DEF BotIInv
    <3> QED
      BY <2>1, <3>1, <3>2, BotSizes DEF Later, BotIInv
  <2> QED
    BY <2>2, <2>3
<1>13. camps => bounty' < SilenceLimit + campAge' /\ bounty' <= BountyAge
  <2>1. CASE camps /\ camping
    <3>1. campAge <= CampTicks /\ campAge' = campAge + 1 /\ bounty < SilenceLimit + campAge
      BY <1>3, <1>5, <2>1 DEF BotIInv
    <3>2. bounty' <= bounty + 1 /\ bounty \in Nat /\ campAge \in Nat
      BY <1>3, BotSizes DEF Later, BotIInv, BountyAge
    <3> QED
      BY <1>12, <3>1, <3>2, BotSizes DEF BountyAge
  <2>2. CASE camps /\ ~camping
    <3>1. bounty' <= silent' /\ campAge' = 1
      BY <1>3, <1>6, <1>12, <2>2
    <3> QED
      BY <1>1, <1>12, <3>1, BotSizes DEF BountyAge
  <2> QED
    BY <2>1, <2>2
<1>14. HealsUp' /\ CampsAfterBounty'
  <2>1. HealsUp'
    BY <1>7, <1>8 DEF HealsUp
  <2>2. BountyAge' = BountyAge
    BY DEF BountyAge
  <2> QED
    BY <1>8, <1>13, <2>1, <2>2 DEF CampsAfterBounty
<1>15. hurt' \in BOOLEAN /\ retreating' = r /\ camping' = camps
  BY <1>3, <1>4, <1>7
<1> QED
  BY <1>1, <1>2, <1>3, <1>4, <1>7, <1>9, <1>10, <1>11, <1>12, <1>13, <1>14
     DEF BotIInv, Past, AllViews, LiveViews, NoView, Playing, Rewarded, BountyAge

LEMMA BotNextIInv == BotIInv /\ [BotNext]_botVars => BotIInv'
<1> SUFFICES ASSUME BotIInv, [BotNext]_botVars PROVE BotIInv'
  OBVIOUS
<1>1. CASE UNCHANGED botVars
  BY <1>1 DEF botVars, BotIInv, HealsUp, CampsAfterBounty, Past, BountyAge, Rewarded, Playing, NoView
<1> DEFINE Same == AllViews' = AllViews /\ NoView' = NoView /\ Past' = Past /\ BountyAge' = BountyAge
<1>0. Same
  BY DEF AllViews, LiveViews, NoView, Past, BountyAge
<1>2. ASSUME NEW got \in BOOLEAN, NEW v, got => v \in Views /\ Comes(v), play_one_match(got, v)
      PROVE  BotIInv'
  <2>1. /\ ~over /\ seen' = (IF got THEN v ELSE seen) /\ before' = (IF got THEN Kept(seen) ELSE before)
        /\ silent' = (IF got THEN 0 ELSE silent + 1)
    BY <1>2 DEF play_one_match
  <2>2. /\ seen' \in AllViews \cup {NoView} /\ before' \in Past /\ silent' \in 0..SilenceLimit + 1
        /\ hurt /\ seen'.phase # "won" => Playing(seen')
    BY <1>2, <2>1, WhatComes
  <2>3. CASE silent' > SilenceLimit \/ seen'.phase = "won"
    <3>1. /\ over' = TRUE /\ orders' = <<>>
          /\ UNCHANGED <<picked, sincePick, retreating, camping, campAge, shopNext, sinceBuy, sinceCast, hurt, bounty>>
      BY <1>2, <2>3 DEF play_one_match, Leave
    <3>2. HealsUp' /\ CampsAfterBounty'
      BY <3>1 DEF HealsUp, CampsAfterBounty
    <3> QED
      BY <2>2, <3>1, <3>2 DEF BotIInv, Past, NoView, AllViews, LiveViews, BountyAge
  <2>4. CASE ~(silent' > SilenceLimit \/ seen'.phase = "won") /\ seen'.phase = "draft"
    <3>1. /\ orders' = (IF ~picked \/ sincePick + 1 > PickRest THEN <<"pick">> ELSE <<>>)
          /\ picked' = TRUE
          /\ sincePick' = (IF orders' = <<>> THEN sincePick + 1 ELSE 0)
          /\ UNCHANGED <<retreating, camping, campAge, shopNext, sinceBuy, sinceCast, over, hurt, bounty>>
      BY <1>2, <2>4 DEF play_one_match, Draft
    <3>2. ~hurt
      BY <2>2, <2>4 DEF Playing
    <3>3. \A i \in DOMAIN orders' : orders'[i] # "camp"
      BY <3>1
    <3>4. HealsUp' /\ CampsAfterBounty'
      BY <3>1, <3>2, <3>3 DEF HealsUp, CampsAfterBounty
    <3>5. sincePick' \in 0..PickRest
      <4>1. orders' = <<>> => ~(sincePick + 1 > PickRest)
        BY <3>1
      <4> QED
        BY <3>1, <4>1, BotSizes DEF BotIInv
    <3> QED
      BY <2>1, <2>2, <2>4, <3>1, <3>2, <3>4, <3>5, <1>0, BotSizes DEF BotIInv
  <2>5. CASE ~(silent' > SilenceLimit \/ seen'.phase = "won") /\ seen'.phase = "live"
    <3>1. silent' <= SilenceLimit /\ Decide(seen', before', got)
      BY <1>2, <2>2, <2>5, BotSizes DEF play_one_match
    <3> QED
      BY <1>2, <2>1, <2>5, <3>1, BotDecides
  <2>6. CASE ~(silent' > SilenceLimit \/ seen'.phase = "won") /\ seen'.phase \notin {"draft", "live"}
    <3>1. /\ orders' = <<>>
          /\ campAge' = (IF camping THEN Later(campAge, CampTicks + 1) ELSE 0)
          /\ sinceBuy' = Older(sinceBuy) /\ sinceCast' = Older(sinceCast)
          /\ bounty' = Later(bounty, BountyAge + 1)
          /\ UNCHANGED <<picked, sincePick, retreating, camping, shopNext, over, hurt>>
      BY <1>2, <2>6 DEF play_one_match, Wait
    <3>2. sinceBuy' \in 1..Pause + 1 /\ sinceCast' \in 1..Pause + 1
      BY <3>1, BotSizes DEF Older, Later, BotIInv
    <3>3. campAge' \in 0..CampTicks + 1 /\ (campAge' > 0 <=> camping)
      BY <3>1, BotSizes DEF Later, BotIInv
    <3>4. bounty' \in 0..BountyAge + 1 /\ bounty' <= bounty + 1 /\ bounty \in Nat
      BY <3>1, BotSizes DEF Later, BountyAge, BotIInv
    <3>5. camping /\ campAge' <= CampTicks => bounty' < SilenceLimit + campAge'
      <4>1. camping /\ campAge' <= CampTicks => campAge' = campAge + 1 /\ campAge <= CampTicks
        BY <3>1, BotSizes DEF Later, BotIInv
      <4> QED
        BY <3>1, <3>4, <4>1, BotSizes DEF BotIInv
    <3>6. HealsUp' /\ CampsAfterBounty'
      BY <3>1 DEF HealsUp, CampsAfterBounty
    <3> QED
      BY <2>1, <2>2, <2>6, <3>1, <3>2, <3>3, <3>4, <3>5, <3>6, <1>0, BotSizes DEF BotIInv
  <2> QED
    BY <2>3, <2>4, <2>5, <2>6
<1> QED
  BY <1>1, <1>2 DEF BotNext

-----------------------------------------------------------------------------
(* The squads.                                                             *)

SquadIInv ==
    /\ DOMAIN at \subseteq 0..Slots - 1 /\ \A i \in DOMAIN at : at[i] \in Int
    /\ open \subseteq Nodes /\ worn \subseteq Nodes

LEMMA BotNatAll ==
    ASSUME NEW P, 0 \in P, \A n \in Nat : n \in P => n + 1 \in P
    PROVE  Nat \subseteq P
<1> DEFINE Bad == {n \in Nat : n \notin P}
           R == OpToRel(<, Nat)
<1> SUFFICES ASSUME Bad # {} PROVE FALSE
  OBVIOUS
<1>1. \A x, y \in Nat : x < y => <<x, y>> \in R
  BY DEF OpToRel
<1>2. IsWellFoundedOn(R, Nat)
  BY NatLessThanWellFounded
<1> HIDE DEF R
<1>3. Bad \subseteq Nat
  OBVIOUS
<1>4. PICK n \in Bad : \A m \in Bad : ~(<<m, n>> \in R)
  BY <1>2, <1>3, WFMin
<1>5. n \in Nat /\ n \notin P /\ n # 0
  BY <1>4
<1>6. n - 1 \in Nat /\ n - 1 < n /\ (n - 1) + 1 = n
  BY <1>5
<1>7. n - 1 \notin Bad
  <2> HIDE DEF Bad
  <2> QED
    BY <1>1, <1>4, <1>5, <1>6
<1> QED
  BY <1>5, <1>6, <1>7

\* The least of a set of numbers.
LEMMA BotLeast ==
    ASSUME NEW S \in SUBSET Nat, S # {}
    PROVE  \E n \in S : \A m \in S : n <= m
<1> DEFINE P == {k \in Nat : \A n \in S : n <= k => \E l \in S : \A m \in S : l <= m}
<1>1. 0 \in P
  OBVIOUS
<1>2. ASSUME NEW k \in Nat, k \in P PROVE k + 1 \in P
  <2> SUFFICES ASSUME NEW n \in S, n <= k + 1 PROVE \E l \in S : \A m \in S : l <= m
    OBVIOUS
  <2>1. CASE \E m \in S : m <= k
    BY <1>2, <2>1
  <2>2. CASE ~(\E m \in S : m <= k)
    <3>1. \A m \in S : m \in Nat /\ n \in Nat /\ ~(m <= k)
      BY <2>2
    <3>2. \A m \in S : n <= m
      BY <3>1
    <3> QED
      BY <3>2
  <2> QED
    BY <2>1, <2>2
<1>3. Nat \subseteq P
  <2> HIDE DEF P
  <2> QED
    BY <1>1, <1>2, BotNatAll
<1>4. PICK n \in S : TRUE
  OBVIOUS
<1>5. n \in P
  BY <1>3, <1>4
<1> QED
  BY <1>4, <1>5

LEMMA MinIsLeast ==
    ASSUME NEW S \in SUBSET Nat, S # {}
    PROVE  Min(S) \in S /\ \A m \in S : Min(S) <= m
BY BotLeast DEF Min

\* A sum of whole numbers is one.
Drawn(s) == CHOOSE x \in s : TRUE
AddsUpTo(f, S, g) == g = [s \in SUBSET S |-> IF s = {} THEN 0 ELSE f[Drawn(s)] + g[s \ {Drawn(s)}]]
AddsUp(f, S, g, n) ==
    \A s \in SUBSET S : Cardinality(s) <= n =>
        g[s] = IF s = {} THEN 0 ELSE f[Drawn(s)] + g[s \ {Drawn(s)}]

LEMMA Drawing ==
    ASSUME NEW S, IsFiniteSet(S)
    PROVE  /\ Cardinality(S) \in Nat
           /\ \A s \in SUBSET S : Cardinality(s) \in Nat /\ Cardinality(s) <= Cardinality(S)
           /\ \A s \in SUBSET S : Cardinality(s) = 0 <=> s = {}
           /\ \A s \in SUBSET S : s # {} => Drawn(s) \in s /\ s \ {Drawn(s)} \in SUBSET S
                                            /\ Cardinality(s \ {Drawn(s)}) = Cardinality(s) - 1
<1>1. Cardinality(S) \in Nat
  BY FS_CardinalityType
<1>2. \A s \in SUBSET S : IsFiniteSet(s) /\ Cardinality(s) \in Nat /\ Cardinality(s) <= Cardinality(S)
  BY FS_Subset, FS_CardinalityType
<1>3. \A s \in SUBSET S : Cardinality(s) = 0 <=> s = {}
  BY <1>2, FS_EmptySet
<1>4. ASSUME NEW s \in SUBSET S, s # {}
      PROVE  Drawn(s) \in s /\ s \ {Drawn(s)} \in SUBSET S /\ Cardinality(s \ {Drawn(s)}) = Cardinality(s) - 1
  <2>1. Drawn(s) \in s
    BY <1>4 DEF Drawn
  <2>2. IsFiniteSet(s)
    BY <1>2
  <2> QED
    BY <2>1, <2>2, FS_RemoveElement
<1> QED
  BY <1>1, <1>2, <1>3, <1>4

LEMMA AddingExists == ASSUME NEW f, NEW S, IsFiniteSet(S) PROVE \E g : AddsUpTo(f, S, g)
<1>0. /\ Cardinality(S) \in Nat
      /\ \A s \in SUBSET S : Cardinality(s) \in Nat /\ Cardinality(s) <= Cardinality(S)
      /\ \A s \in SUBSET S : Cardinality(s) = 0 <=> s = {}
      /\ \A s \in SUBSET S : s # {} => Drawn(s) \in s /\ s \ {Drawn(s)} \in SUBSET S
                                       /\ Cardinality(s \ {Drawn(s)}) = Cardinality(s) - 1
  BY Drawing
<1> DEFINE P == {n \in Nat : \E g : AddsUp(f, S, g, n)}
<1>1. 0 \in P
  <2> DEFINE g == [s \in SUBSET S |-> 0]
  <2>1. \A s \in SUBSET S : Cardinality(s) <= 0 => s = {} /\ g[s] = 0
    BY <1>0
  <2>2. AddsUp(f, S, g, 0)
    BY <2>1 DEF AddsUp
  <2> QED
    BY <2>2
<1>2. ASSUME NEW n \in Nat, n \in P PROVE n + 1 \in P
  <2>1. PICK g : AddsUp(f, S, g, n)
    BY <1>2
  <2> DEFINE h == [s \in SUBSET S |-> IF Cardinality(s) <= n THEN g[s] ELSE f[Drawn(s)] + g[s \ {Drawn(s)}]]
  <2>2. \A s \in SUBSET S : h[s] = IF Cardinality(s) <= n THEN g[s] ELSE f[Drawn(s)] + g[s \ {Drawn(s)}]
    OBVIOUS
  <2> HIDE DEF h
  <2>3. ASSUME NEW s \in SUBSET S, Cardinality(s) <= n + 1
        PROVE  h[s] = IF s = {} THEN 0 ELSE f[Drawn(s)] + h[s \ {Drawn(s)}]
    <3>1. CASE s = {}
      <4>1. Cardinality(s) <= n
        BY <3>1, <1>0
      <4> QED
        BY <2>1, <2>2, <3>1, <4>1 DEF AddsUp
    <3>2. CASE s # {}
      <4> DEFINE t == s \ {Drawn(s)}
      <4>1. t \in SUBSET S /\ Cardinality(t) <= n
        BY <2>3, <3>2, <1>0
      <4>2. h[t] = g[t]
        BY <2>2, <4>1
      <4>3. CASE Cardinality(s) <= n
        BY <2>1, <2>2, <3>2, <4>2, <4>3 DEF AddsUp
      <4>4. CASE ~(Cardinality(s) <= n)
        BY <2>2, <3>2, <4>2, <4>4
      <4> QED
        BY <4>3, <4>4
    <3> QED
      BY <3>1, <3>2
  <2>4. AddsUp(f, S, h, n + 1)
    BY <2>3 DEF AddsUp
  <2> QED
    BY <2>4
<1>3. Nat \subseteq P
  <2> HIDE DEF P
  <2> QED
    BY <1>1, <1>2, BotNatAll
<1>4. PICK g : AddsUp(f, S, g, Cardinality(S))
  BY <1>3, <1>0
<1> DEFINE h == [s \in SUBSET S |-> g[s]]
<1>5. ASSUME NEW s \in SUBSET S
      PROVE  h[s] = IF s = {} THEN 0 ELSE f[Drawn(s)] + h[s \ {Drawn(s)}]
  BY <1>4, <1>0 DEF AddsUp
<1>6. AddsUpTo(f, S, h)
  <2>1. h = [s \in SUBSET S |-> h[s]]
    OBVIOUS
  <2> HIDE DEF h
  <2> QED
    BY <1>5, <2>1 DEF AddsUpTo
<1> QED
  BY <1>6

LEMMA SumIsInt ==
    ASSUME NEW f, NEW S, IsFiniteSet(S), \A i \in S : f[i] \in Int
    PROVE  SumFunctionOnSet(f, S) \in Int
<1>0. /\ Cardinality(S) \in Nat
      /\ \A s \in SUBSET S : Cardinality(s) \in Nat /\ Cardinality(s) <= Cardinality(S)
      /\ \A s \in SUBSET S : Cardinality(s) = 0 <=> s = {}
      /\ \A s \in SUBSET S : s # {} => Drawn(s) \in s /\ s \ {Drawn(s)} \in SUBSET S
                                       /\ Cardinality(s \ {Drawn(s)}) = Cardinality(s) - 1
  BY Drawing
<1> DEFINE g == CHOOSE g : AddsUpTo(f, S, g)
<1>1. AddsUpTo(f, S, g)
  BY AddingExists
<1>2. SumFunctionOnSet(f, S) = g[S]
  BY DEF SumFunctionOnSet, FoldFunctionOnSet, MapThenFoldSet, AddsUpTo, Drawn
<1> HIDE DEF g
<1>3. g[{}] = 0 /\ \A s \in SUBSET S : s # {} => g[s] = f[Drawn(s)] + g[s \ {Drawn(s)}]
  BY <1>1 DEF AddsUpTo
<1> DEFINE P == {n \in Nat : \A s \in SUBSET S : Cardinality(s) <= n => g[s] \in Int}
<1>4. 0 \in P
  <2>1. \A s \in SUBSET S : Cardinality(s) <= 0 => s = {}
    BY <1>0
  <2>2. ASSUME NEW s \in SUBSET S, Cardinality(s) <= 0 PROVE g[s] \in Int
    <3>1. g[s] = g[{}]
      BY <2>1, <2>2
    <3>2. g[{}] = 0
      BY <1>3
    <3> QED
      BY <3>1, <3>2
  <2> QED
    BY <2>2
<1>5. ASSUME NEW n \in Nat, n \in P PROVE n + 1 \in P
  <2> SUFFICES ASSUME NEW s \in SUBSET S, Cardinality(s) <= n + 1 PROVE g[s] \in Int
    OBVIOUS
  <2>1. CASE s = {}
    BY <1>3, <2>1
  <2>2. CASE s # {}
    <3>1. Drawn(s) \in S /\ s \ {Drawn(s)} \in SUBSET S /\ Cardinality(s \ {Drawn(s)}) <= n
      BY <2>2, <1>0
    <3>2. f[Drawn(s)] \in Int /\ g[s \ {Drawn(s)}] \in Int
      BY <1>5, <3>1
    <3> QED
      BY <1>3, <2>2, <3>2
  <2> QED
    BY <2>1, <2>2
<1>6. Nat \subseteq P
  <2> HIDE DEF P
  <2> QED
    BY <1>4, <1>5, BotNatAll
<1>7. Cardinality(S) \in P /\ S \in SUBSET S /\ Cardinality(S) <= Cardinality(S)
  BY <1>6, <1>0
<1> QED
  BY <1>2, <1>7

LEMMA FiniteLeast ==
    ASSUME NEW K \in Nat, NEW F \in SUBSET (1..K), F # {}, NEW g \in [F -> Int]
    PROVE  \E n \in F : \A m \in F : g[n] <= g[m]
<1> DEFINE P == {k \in Nat : \A G \in SUBSET F : G # {} /\ G \subseteq 1..k => \E n \in G : \A m \in G : g[n] <= g[m]}
<1>1. 0 \in P
  <2>1. 1..0 = {}
    OBVIOUS
  <2> QED
    BY <2>1
<1>2. ASSUME NEW k \in Nat, k \in P PROVE k + 1 \in P
  <2> SUFFICES ASSUME NEW G \in SUBSET F, G # {}, G \subseteq 1..k + 1 PROVE \E n \in G : \A m \in G : g[n] <= g[m]
    OBVIOUS
  <2> DEFINE L == G \ {k + 1}
  <2>1. L \in SUBSET F /\ L \subseteq 1..k
    OBVIOUS
  <2>2. CASE L = {}
    <3>1. \A m \in G : m = k + 1
      BY <2>2
    <3>2. k + 1 \in G /\ g[k + 1] \in Int
      BY <3>1
    <3> QED
      BY <3>1, <3>2
  <2>3. CASE L # {}
    <3>1. PICK n \in L : \A m \in L : g[n] <= g[m]
      BY <1>2, <2>1, <2>3
    <3>2. \A m \in G : g[m] \in Int /\ (m \in L \/ m = k + 1)
      OBVIOUS
    <3>3. n \in G
      OBVIOUS
    <3>4. CASE k + 1 \in G /\ g[k + 1] < g[n]
      <4>1. \A m \in G : g[k + 1] <= g[m]
        BY <3>1, <3>2, <3>3, <3>4
      <4> QED
        BY <3>4, <4>1
    <3>5. CASE ~(k + 1 \in G /\ g[k + 1] < g[n])
      <4>1. \A m \in G : g[n] <= g[m]
        BY <3>1, <3>2, <3>3, <3>5
      <4> QED
        BY <3>3, <4>1
    <3> QED
      BY <3>4, <3>5
  <2> QED
    BY <2>2, <2>3
<1>3. Nat \subseteq P
  <2> HIDE DEF P
  <2> QED
    BY <1>1, <1>2, BotNatAll
<1>4. K \in P
  BY <1>3
<1> QED
  BY <1>4

\* Of nodes that are free a squad chooses one.
LEMMA ClosestIsFree ==
    ASSUME SquadIInv, NEW s \in Nat, NEW free \in SUBSET open, free # {}
    PROVE  Closest(s, free) \in free
<1>1. Members(s) \subseteq Alive /\ IsFiniteSet(Members(s)) /\ \A i \in Members(s) : at[i] \in Int
  <2>1. IsFiniteSet(0..Slots - 1)
    BY BotSizes, FS_Interval
  <2>2. Members(s) \subseteq 0..Slots - 1
    BY DEF Members, Alive, SquadIInv
  <2> QED
    BY <2>1, <2>2, FS_Subset DEF Members, Alive, SquadIInv
<1>2. SumFunctionOnSet(at, Members(s)) \in Int
  BY <1>1, SumIsInt
<1>3. Weight(s) \in Nat
  <2>1. Cardinality(Members(s)) \in Nat
    BY <1>1, FS_CardinalityType
  <2>2. Max({1, Cardinality(Members(s))}) \in {1, Cardinality(Members(s))}
    BY <2>1 DEF Max
  <2> QED
    BY <2>1, <2>2 DEF Weight
<1>4. \A n \in Nodes : NodeAt[n] \in Int
  BY BotSizes DEF Nodes
<1>5. commander_posture_multiplier \in Int
  BY DEF commander_posture_multiplier
<1>6. ASSUME NEW n \in Nodes PROVE Far(s, n) \in Int
  <2> DEFINE d == Weight(s) * NodeAt[n] - SumFunctionOnSet(at, Members(s))
             b == Weight(s) * PatienceBonus * commander_posture_multiplier
  <2>1. Weight(s) * NodeAt[n] \in Int
    BY <1>3, <1>4
  <2>2. d \in Int
    BY <1>2, <2>1
  <2>3. b \in Int
    <3>1. Weight(s) * PatienceBonus \in Int
      BY <1>3, BotSizes
    <3> QED
      BY <1>5, <3>1
  <2>4. Far(s, n) = 10 * (IF d < 0 THEN -d ELSE d) - (IF n \in worn THEN b ELSE 0)
    BY DEF Far
  <2> HIDE DEF d, b
  <2> QED
    BY <2>2, <2>3, <2>4
<1> DEFINE g == [n \in free |-> Far(s, n)]
           near == {n \in free : \A m \in free : Far(s, n) <= Far(s, m)}
<1>7. free \in SUBSET (1..Len(NodeAt)) /\ Len(NodeAt) \in Nat /\ free \subseteq Nodes
  BY BotSizes DEF SquadIInv, Nodes
<1>8. g \in [free -> Int] /\ \A n \in free : g[n] = Far(s, n)
  BY <1>6, <1>7
<1> HIDE DEF g
<1>9. \E n \in free : \A m \in free : g[n] <= g[m]
  BY <1>7, <1>8, FiniteLeast
<1>10. near # {} /\ near \in SUBSET Nat
  <2>1. PICK n \in free : \A m \in free : g[n] <= g[m]
    BY <1>9
  <2>2. \A m \in free : Far(s, n) <= Far(s, m)
    BY <1>8, <2>1
  <2>3. n \in near
    BY <2>2
  <2>4. near \subseteq free /\ free \subseteq Nat
    BY <1>7
  <2> QED
    BY <2>3, <2>4
<1>11. Closest(s, free) = Min(near)
  BY DEF Closest
<1>12. near \subseteq free
  OBVIOUS
<1> HIDE DEF near
<1> QED
  BY <1>10, <1>11, <1>12, MinIsLeast

\* The number of squads.
LEMMA OfTwo ==
    ASSUME NEW a \in Nat, NEW b \in Nat
    PROVE  /\ Max({a, b}) = IF a >= b THEN a ELSE b
           /\ Min({a, b}) = IF a <= b THEN a ELSE b
<1>1. Min({a, b}) \in {a, b} /\ \A m \in {a, b} : Min({a, b}) <= m
  <2>1. {a, b} \in SUBSET Nat /\ {a, b} # {}
    OBVIOUS
  <2> QED
    BY <2>1, MinIsLeast
<1>2. \E x \in {a, b} : \A y \in {a, b} : x >= y
  OBVIOUS
<1>3. Max({a, b}) \in {a, b} /\ \A m \in {a, b} : Max({a, b}) >= m
  BY <1>2 DEF Max
<1> QED
  BY <1>1, <1>3

LEMMA SquadCount ==
    ASSUME SquadIInv
    PROVE  /\ hero_squad_count \in 1..Slots
           /\ IsFiniteSet(open) /\ Cardinality(open) \in Nat
           /\ open # {} => hero_squad_count <= Cardinality(open)
<1>1. IsFiniteSet(open) /\ Cardinality(open) \in Nat
  <2>1. Len(NodeAt) \in Nat /\ Nodes = 1..Len(NodeAt)
    BY BotSizes DEF Nodes
  <2>2. IsFiniteSet(Nodes)
    BY <2>1, FS_Interval
  <2> QED
    BY <2>2, FS_Subset, FS_CardinalityType DEF SquadIInv
<1>2. Cardinality(Alive) \in Nat /\ Cardinality(Alive) <= Slots
  <2>1. IsFiniteSet(0..Slots - 1) /\ Cardinality(0..Slots - 1) = Slots
    BY BotSizes, FS_Interval
  <2>2. Alive \in SUBSET (0..Slots - 1)
    BY DEF Alive, SquadIInv
  <2> QED
    BY <2>1, <2>2, FS_Subset, FS_CardinalityType
<1>3. Cardinality(open) = 0 <=> open = {}
  BY <1>1, FS_EmptySet
<1> DEFINE k == Max({1, Cardinality(open)})
           m == Min({k, Cardinality(Alive)})
<1>4. k \in Nat /\ k >= 1 /\ (open # {} => k = Cardinality(open))
  BY <1>1, <1>3, OfTwo
<1>5. hero_squad_count = Max({1, m})
  BY DEF hero_squad_count
<1> HIDE DEF k
<1>6. m \in Nat /\ m <= k /\ m <= Slots
  <2>1. m = IF k <= Cardinality(Alive) THEN k ELSE Cardinality(Alive)
    BY <1>2, <1>4, OfTwo
  <2> HIDE DEF m
  <2> QED
    BY <1>2, <1>4, <2>1, BotSizes
<1> HIDE DEF m
<1>7. hero_squad_count \in Nat /\ hero_squad_count >= 1 /\ (hero_squad_count = 1 \/ hero_squad_count = m)
  BY <1>5, <1>6, OfTwo
<1> QED
  BY <1>1, <1>4, <1>6, <1>7, BotSizes

-----------------------------------------------------------------------------
(* The claims: the squads before a squad, by the recursion's equation.      *)

Claimed(f, s) == {f[t] : t \in 0..s - 1}
Claims(f, n) == f = [s \in 0..n - 1 |-> Closest(s, Unclaimed(Claimed(f, s)))]

LEMMA ClaimsExist == ASSUME NEW n \in Nat PROVE \E f : Claims(f, n)
<1> DEFINE P == {k \in Nat : \E f : Claims(f, k)}
<1>1. 0 \in P
  <2> DEFINE f == [s \in 0..0 - 1 |-> 0]
  <2>1. 0..0 - 1 = {}
    OBVIOUS
  <2>2. f = [s \in 0..0 - 1 |-> Closest(s, Unclaimed(Claimed(f, s)))]
    BY <2>1
  <2>3. Claims(f, 0)
    BY <2>2 DEF Claims
  <2> QED
    BY <2>3
<1>2. ASSUME NEW k \in Nat, k \in P PROVE k + 1 \in P
  <2>1. PICK f : Claims(f, k)
    BY <1>2
  <2>2. \A s \in 0..k - 1 : f[s] = Closest(s, Unclaimed(Claimed(f, s)))
    BY <2>1 DEF Claims
  <2> DEFINE last == Closest(k, Unclaimed(Claimed(f, k)))
             g == [s \in 0..k |-> IF s = k THEN last ELSE f[s]]
  <2>3. (\A s \in 0..k : g[s] = IF s = k THEN last ELSE f[s]) /\ g = [s \in 0..k |-> g[s]]
    OBVIOUS
  <2> HIDE DEF g
  <2>4. ASSUME NEW s \in 0..k PROVE Claimed(g, s) = Claimed(f, s)
    <3>1. \A t \in 0..s - 1 : t \in 0..k /\ t # k
      OBVIOUS
    <3>2. \A t \in 0..s - 1 : g[t] = f[t]
      BY ONLY <2>3, <3>1
    <3> QED
      BY <3>2 DEF Claimed
  <2>5. ASSUME NEW s \in 0..k PROVE g[s] = Closest(s, Unclaimed(Claimed(g, s)))
    <3>1. CASE s = k
      BY <2>3, <2>4, <3>1
    <3>2. CASE s # k
      <4>1. s \in 0..k - 1
        BY <3>2
      <4> QED
        BY <2>2, <2>3, <2>4, <3>2, <4>1
    <3> QED
      BY <3>1, <3>2
  <2>6. 0..(k + 1) - 1 = 0..k
    OBVIOUS
  <2>7. Claims(g, k + 1)
    BY <2>3, <2>5, <2>6 DEF Claims
  <2> QED
    BY <2>7
<1>3. Nat \subseteq P
  <2> HIDE DEF P
  <2> QED
    BY <1>1, <1>2, BotNatAll
<1> QED
  BY <1>3

LEMMA TargetsAreClaims ==
    \A s \in 0..Slots - 1 :
        hero_squad_target_node[s] = Closest(s, Unclaimed(Claimed(hero_squad_target_node, s)))
<1>1. Claims(CHOOSE f : Claims(f, Slots), Slots)
  BY BotSizes, ClaimsExist
<1>2. hero_squad_target_node = CHOOSE f : Claims(f, Slots)
  BY DEF hero_squad_target_node, Claims, Claimed
<1>3. Claims(hero_squad_target_node, Slots)
  BY <1>1, <1>2
<1> QED
  BY <1>3 DEF Claims

\* As many nodes are open as there are squads: the squads before one cannot claim them all.
LEMMA OneIsLeft ==
    ASSUME SquadIInv, open # {}, NEW s \in Squads
    PROVE  /\ Unclaimed(Claimed(hero_squad_target_node, s)) \subseteq open
           /\ Unclaimed(Claimed(hero_squad_target_node, s)) # {}
<1> DEFINE T == hero_squad_target_node
           taken == Claimed(T, s)
           f == [t \in 0..s - 1 |-> T[t]]
<1>1. s \in Nat /\ s < Cardinality(open) /\ Cardinality(open) \in Nat
  BY SquadCount DEF Squads
<1>2. IsFiniteSet(0..s - 1) /\ Cardinality(0..s - 1) = s
  <2>1. 0 \in Int /\ s - 1 \in Int
    BY <1>1
  <2>2. IsFiniteSet(0..s - 1) /\ Cardinality(0..s - 1) = IF 0 > s - 1 THEN 0 ELSE s - 1 - 0 + 1
    BY ONLY <2>1, FS_Interval
  <2> QED
    BY <1>1, <2>2
<1>3. f \in Surjection(0..s - 1, taken)
  BY DEF Claimed, Surjection
<1> HIDE DEF f, taken
<1>4. IsFiniteSet(taken) /\ Cardinality(taken) <= s /\ Cardinality(taken) \in Nat
  <2>1. IsFiniteSet(taken) /\ Cardinality(taken) <= Cardinality(0..s - 1)
    BY ONLY <1>2, <1>3, FS_Surjection
  <2>2. Cardinality(taken) \in Nat
    BY ONLY <2>1, FS_CardinalityType
  <2> QED
    BY <1>2, <2>1, <2>2
<1>5. ASSUME open \subseteq taken PROVE FALSE
  <2>1. Cardinality(open) <= Cardinality(taken)
    BY <1>4, <1>5, FS_Subset
  <2> QED
    BY <1>1, <1>4, <2>1
<1> USE DEF taken
<1> QED
  BY <1>5 DEF Unclaimed

LEMMA SquadTargets ==
    ASSUME SquadIInv, open # {}, NEW s \in Squads
    PROVE  /\ hero_squad_target_node[s] \in open
           /\ \A t \in 0..s - 1 : hero_squad_target_node[s] # hero_squad_target_node[t]
<1> DEFINE T == hero_squad_target_node
           free == Unclaimed(Claimed(T, s))
<1>1. s \in Nat /\ s \in 0..Slots - 1
  BY SquadCount, BotSizes DEF Squads
<1>2. T[s] = Closest(s, free)
  BY <1>1, TargetsAreClaims
<1>3. free \in SUBSET open /\ free # {}
  BY OneIsLeft
<1> HIDE DEF free
<1>4. T[s] \in free
  BY <1>1, <1>2, <1>3, ClosestIsFree
<1>5. T[s] \in open /\ T[s] \notin Claimed(T, s)
  BY <1>4 DEF free, Unclaimed
<1> QED
  BY <1>5 DEF Claimed

LEMMA SquadsAreSpread == SquadIInv => SquadsSpread
<1> SUFFICES ASSUME SquadIInv, open # {}, NEW s \in Squads
             PROVE  /\ hero_squad_target_node[s] \in open
                    /\ \A t \in Squads \ {s} : hero_squad_target_node[s] # hero_squad_target_node[t]
  BY DEF SquadsSpread
<1>1. hero_squad_target_node[s] \in open
  BY SquadTargets
<1>2. ASSUME NEW t \in Squads \ {s} PROVE hero_squad_target_node[s] # hero_squad_target_node[t]
  <2>1. s \in Nat /\ t \in Nat /\ s # t
    BY SquadCount DEF Squads
  <2>2. CASE t < s
    <3>1. t \in 0..s - 1
      BY <2>1, <2>2
    <3> QED
      BY <3>1, SquadTargets
  <2>3. CASE s < t
    <3>1. s \in 0..t - 1 /\ t \in Squads
      BY <2>1, <2>3
    <3>2. hero_squad_target_node[t] # hero_squad_target_node[s]
      BY <3>1, SquadTargets
    <3> QED
      BY <3>2
  <2> QED
    BY <2>1, <2>2, <2>3
<1> QED
  BY <1>1, <1>2

-----------------------------------------------------------------------------
(* The squads from step to step.                                           *)

LEMMA SquadBegins == SquadInit => SquadIInv
BY DEF SquadInit, SquadIInv

LEMMA SquadNextIInv == SquadIInv /\ [SquadNext]_squadVars => SquadIInv'
<1> SUFFICES ASSUME SquadIInv, [SquadNext]_squadVars PROVE SquadIInv'
  OBVIOUS
<1>0. Nodes' = Nodes
  BY DEF Nodes
<1>1. ASSUME NEW i \in 0..Slots - 1, NEW x \in Places, Stands(i, x) PROVE SquadIInv'
  <2>1. DOMAIN at' = DOMAIN at \cup {i} /\ \A j \in DOMAIN at' : at'[j] = IF j = i THEN x ELSE at[j]
    BY <1>1 DEF Stands, Alive
  <2>2. x \in Int
    BY BotSizes
  <2> QED
    BY <1>0, <1>1, <2>1, <2>2 DEF SquadIInv, Stands
<1>2. ASSUME NEW i \in Alive, Dies(i) PROVE SquadIInv'
  <2>1. DOMAIN at' = DOMAIN at \ {i} /\ \A j \in DOMAIN at' : at'[j] = at[j]
    BY <1>2 DEF Dies, Alive
  <2> QED
    BY <1>0, <1>2, <2>1 DEF SquadIInv, Dies
<1>3. ASSUME NEW n \in Nodes, Changes(n) PROVE SquadIInv'
  BY <1>0, <1>3 DEF SquadIInv, Changes
<1>4. ASSUME NEW l \in -1..1, Leads(l) PROVE SquadIInv'
  BY <1>0, <1>4 DEF SquadIInv, Leads
<1>5. CASE UNCHANGED squadVars
  BY <1>0, <1>5 DEF SquadIInv, squadVars
<1> QED
  BY <1>1, <1>2, <1>3, <1>4, <1>5 DEF SquadNext

-----------------------------------------------------------------------------

\* A bot that has seen itself below a quarter goes home until it has seen itself healed up, it
\* never camps while it retreats, and it camps only after a reward, no longer after it than a
\* silence it sits out and the camp's time: play_one_match(), whatever snapshots come or fail to.
THEOREM BotDecisions == BotSpec => [](BotTypeOK /\ HealsUp /\ CampsAfterBounty)
<1>1. BotInit => BotIInv
  BY BotBegins
<1>2. BotIInv /\ [BotNext]_botVars => BotIInv'
  BY BotNextIInv
<1>3. BotIInv => BotTypeOK /\ HealsUp /\ CampsAfterBounty
  BY BotIsFree
<1> QED
  BY <1>1, <1>2, <1>3, PTL DEF BotSpec

\* Squads the bots work out each alone go to different open nodes: hero_squad_target_node(), for
\* teams and maps of any size, wherever heroes stand, because there are never more squads than
\* open nodes.  Whether a member walks straight onto it is another matter.
THEOREM SquadsAgree == SquadSpec => []SquadsSpread
<1>1. SquadInit => SquadIInv
  BY SquadBegins
<1>2. SquadIInv /\ [SquadNext]_squadVars => SquadIInv'
  BY SquadNextIInv
<1>3. SquadIInv => SquadsSpread
  BY SquadsAreSpread
<1> QED
  BY <1>1, <1>2, <1>3, PTL DEF SquadSpec

\* What a bot decides by itself and where the squads are sent, both together: play_one_match() and
\* hero_squad_target_node().
THEOREM BotIsSteady == BotSpec /\ SquadSpec => []BotInv
<1>1. BotTypeOK /\ HealsUp /\ CampsAfterBounty /\ SquadsSpread => BotInv
  BY DEF BotInv
<1> QED
  BY <1>1, BotDecisions, SquadsAgree, PTL

-----------------------------------------------------------------------------
(* Bots, matchmaker and servers over UDP.                                  *)

LobbyPhase == {"off", "waiting", "draft", "live", "over"}
Datagram ==
    [type : {"found"}, port : PortNumbers] \cup [type : {"welcome"}, owner : 1 .. LobbySize]
    \cup [type : {"snapshot"}, phase : LobbyPhase]
MatchServer ==
    [phase : LobbyPhase, seats : Seq(Bots), picks : SUBSET Bots, expects : SUBSET Bots]
Player == [at : {"asking", "connecting", "playing", "resting"}, port : PortNumbers, owner : Int]

\* A lobby gathers only while a seat is free, and nobody sits twice.
Seating(s) ==
    /\ s \in MatchServer
    /\ Len(s.seats) <= LobbySize /\ (s.phase = "waiting" => Len(s.seats) < LobbySize)
    /\ \A i, j \in 1 .. Len(s.seats) : s.seats[i] = s.seats[j] => i = j

\* Does a socket hold this datagram?
Carries(box, m) == \E i \in 1 .. Len(box) : box[i] = m

\* If the server was spawned for b, then o is the slot it gave b.
SeatIs(s, b, o) == b \in s.expects => Contains(s.seats, b) /\ SeatOf(s, b) = o

\* Who waits is asking and has not been told; a bot that moved on with a request still under
\* way, or that has a MATCH_FOUND before it, is remembered; a WELCOME is only ever before a
\* bot that has use for it, and of the server it connects to.
InTouch(b) ==
    /\ Contains(queue, b) => bot[b].at = "asking" /\ b \notin told
    /\ b \in late => bot[b].at = "asking" \/ b \in told
    /\ \A m \in Datagram : Carries(inbox[b], m) =>
          /\ m.type = "found" => b \in told
          /\ m.type = "welcome" => /\ bot[b].at \in {"connecting", "playing"}
                                   /\ SeatIs(server[bot[b].port], b, m.owner)
    /\ bot[b].at = "playing" => /\ bot[b].owner \in 1 .. LobbySize
                                /\ SeatIs(server[bot[b].port], b, bot[b].owner)

Sockets ==
    /\ bot \in [Bots -> Player]
    /\ inbox \in [Bots -> Seq(Datagram)] /\ \A b \in Bots : Len(inbox[b]) <= InboxSize
    /\ late \subseteq Bots /\ told \subseteq Bots
    /\ queue \in Seq(Bots) /\ \A i, j \in 1 .. Len(queue) : queue[i] = queue[j] => i = j
    /\ nextPort \in PortNumbers

Seatings == server = [p \in PortNumbers |-> server[p]] /\ \A p \in PortNumbers : Seating(server[p])

SessionIInv == Sockets /\ Seatings /\ \A b \in Bots : InTouch(b)

LEMMA SessionSizes == LobbySize \in Nat \ {0} /\ Ports \in Nat \ {0} /\ InboxSize \in Nat \ {0} /\ 1 \in PortNumbers
BY SessionAssumption DEF PortNumbers

\* A socket after a datagram reached it, was read or was lost.
LEMMA BoxPut ==
    ASSUME NEW box \in Seq(Datagram), Len(box) <= InboxSize, NEW m \in Datagram
    PROVE  /\ Put(box, m) \in Seq(Datagram) /\ Len(Put(box, m)) <= InboxSize
           /\ \A x : Carries(Put(box, m), x) => x = m \/ Carries(box, x)
<1>0. InboxSize \in Nat /\ Len(box) \in Nat
  BY SessionSizes
<1>1. CASE Len(box) < InboxSize
  <2> DEFINE new == Append(box, m)
  <2>1. new \in Seq(Datagram) /\ Len(new) = Len(box) + 1
        /\ \A i \in 1 .. Len(new) : new[i] = IF i = Len(new) THEN m ELSE box[i]
    OBVIOUS
  <2>2. Put(box, m) = new
    BY <1>1 DEF Put
  <2> HIDE DEF new
  <2>3. ASSUME NEW x, Carries(new, x) PROVE x = m \/ Carries(box, x)
    <3>1. PICK i \in 1 .. Len(new) : new[i] = x
      BY <2>3 DEF Carries
    <3>2. i = Len(new) \/ i \in 1 .. Len(box)
      BY <1>0, <2>1
    <3> QED
      BY <2>1, <3>1, <3>2 DEF Carries
  <2> QED
    BY <1>0, <1>1, <2>1, <2>2, <2>3
<1>2. CASE ~(Len(box) < InboxSize)
  BY <1>2 DEF Put
<1> QED
  BY <1>1, <1>2

LEMMA BoxRead ==
    ASSUME NEW box \in Seq(Datagram), box # <<>>, Len(box) <= InboxSize
    PROVE  /\ Head(box) \in Datagram /\ Carries(box, Head(box))
           /\ Tail(box) \in Seq(Datagram) /\ Len(Tail(box)) <= InboxSize
           /\ \A x : Carries(Tail(box), x) => Carries(box, x)
<1>0. InboxSize \in Nat /\ Len(box) \in Nat /\ Len(box) > 0
  BY SessionSizes
<1> DEFINE new == Tail(box)
<1>1. new \in Seq(Datagram) /\ Len(new) = Len(box) - 1 /\ \A i \in 1 .. Len(new) : new[i] = box[i + 1]
  BY <1>0, HeadTailProperties
<1>2. Head(box) = box[1] /\ 1 \in 1 .. Len(box) /\ box[1] \in Datagram
  BY <1>0
<1> HIDE DEF new
<1>3. ASSUME NEW x, Carries(new, x) PROVE Carries(box, x)
  <2>1. PICK i \in 1 .. Len(new) : new[i] = x
    BY <1>3 DEF Carries
  <2>2. i + 1 \in 1 .. Len(box) /\ box[i + 1] = x
    BY <1>0, <1>1, <2>1
  <2> QED
    BY <2>2 DEF Carries
<1>4. Carries(box, Head(box)) /\ Head(box) \in Datagram
  BY <1>2 DEF Carries
<1>5. Len(new) <= InboxSize
  BY <1>0, <1>1
<1> QED
  BY <1>1, <1>3, <1>4, <1>5 DEF new

LEMMA BoxCut ==
    ASSUME NEW box \in Seq(Datagram), box # <<>>, Len(box) <= InboxSize
    PROVE  /\ Front(box) \in Seq(Datagram) /\ Len(Front(box)) <= InboxSize
           /\ \A x : Carries(Front(box), x) => Carries(box, x)
<1>0. InboxSize \in Nat /\ Len(box) \in Nat /\ Len(box) > 0
  BY SessionSizes
<1> DEFINE new == SubSeq(box, 1, Len(box) - 1)
           n == Len(box) - 1
<1>1. new \in Seq(Datagram) /\ Len(new) = n /\ \A i \in 1 .. n : new[i] = box[i]
  <2>1. n \in Nat /\ 1 \in Int /\ n \in Int /\ \A i \in 1 .. n : box[i] \in Datagram
    BY <1>0
  <2>2. new = SubSeq(box, 1, n)
    OBVIOUS
  <2> HIDE DEF n, new
  <2>3. /\ new \in Seq(Datagram) /\ Len(new) = IF 1 <= n THEN n - 1 + 1 ELSE 0
        /\ \A i \in 1 .. n - 1 + 1 : new[i] = box[1 + i - 1]
    BY <2>1, <2>2, SubSeqProperties
  <2>4. n - 1 + 1 = n /\ \A i \in 1 .. n : 1 + i - 1 = i
    BY <2>1
  <2> QED
    BY <2>1, <2>3, <2>4
<1>2. Front(box) = new
  BY DEF Front
<1> HIDE DEF new
<1>3. ASSUME NEW x, Carries(new, x) PROVE Carries(box, x)
  BY <1>0, <1>1, <1>3 DEF Carries
<1>4. Len(new) <= InboxSize
  BY <1>0, <1>1
<1> QED
  BY <1>1, <1>2, <1>3, <1>4

LEMMA BoxEmpty == <<>> \in Seq(Datagram) /\ Len(<<>>) <= InboxSize /\ \A x : ~Carries(<<>>, x)
BY SessionSizes DEF Carries

\* A newcomer is given the seat after the last, and nobody else moves.
LEMMA SeatTaken ==
    ASSUME NEW s, Seating(s), NEW b \in Bots, Newcomer(s, b)
    PROVE  /\ Seating(Seated(s, b)) /\ Seated(s, b).expects = s.expects
           /\ Len(Seated(s, b).seats) \in 1 .. LobbySize
           /\ SeatIs(Seated(s, b), b, Len(Seated(s, b).seats))
           /\ \A c, o : c # b /\ SeatIs(s, c, o) => SeatIs(Seated(s, b), c, o)
<1> DEFINE t == Seated(s, b)
           n == Len(s.seats)
           phase == IF Len(Append(s.seats, b)) = LobbySize THEN "draft" ELSE s.phase
<1>0. /\ LobbySize \in Nat /\ n \in Nat /\ n < LobbySize /\ s.seats \in Seq(Bots)
      /\ \A i, j \in 1 .. n : s.seats[i] = s.seats[j] => i = j
      /\ s.phase = "waiting" /\ \A i \in 1 .. n : s.seats[i] # b
      /\ s \in MatchServer
  BY SessionSizes DEF Seating, Newcomer, MatchServer, Contains
<1>1. /\ Append(s.seats, b) \in Seq(Bots) /\ Len(Append(s.seats, b)) = n + 1
      /\ \A i \in 1 .. n + 1 : Append(s.seats, b)[i] = IF i = n + 1 THEN b ELSE s.seats[i]
  BY <1>0
<1>2. phase \in LobbyPhase /\ (phase = "waiting" => n + 1 < LobbySize)
  BY <1>0, <1>1 DEF LobbyPhase
<1>3. t = [s EXCEPT !.seats = Append(s.seats, b), !.phase = phase]
  BY DEF Seated
<1> DEFINE seats == Append(s.seats, b)
<1> HIDE DEF phase, t, n, seats
<1>4. t \in MatchServer
  BY <1>0, <1>1, <1>2, <1>3 DEF MatchServer, seats
<1>5. t.seats = seats /\ t.expects = s.expects /\ t.phase = phase
  BY <1>0, <1>3 DEF MatchServer, seats
<1>6. /\ seats \in Seq(Bots) /\ Len(seats) = n + 1 /\ DOMAIN seats = 1 .. n + 1 /\ n + 1 <= LobbySize
      /\ \A i \in 1 .. n + 1 : seats[i] = IF i = n + 1 THEN b ELSE s.seats[i]
  BY <1>0, <1>1 DEF seats
<1>7. ASSUME NEW i \in 1 .. n + 1, NEW j \in 1 .. n + 1, seats[i] = seats[j] PROVE i = j
  <2>1. (i = n + 1 \/ i \in 1 .. n) /\ (j = n + 1 \/ j \in 1 .. n)
    BY <1>0
  <2> QED
    BY <1>0, <1>6, <1>7, <2>1
<1>8. Seating(t)
  BY <1>2, <1>4, <1>5, <1>6, <1>7, SessionSizes DEF Seating
<1>9. ASSUME NEW c, NEW k \in 1 .. n + 1, seats[k] = c PROVE Contains(t.seats, c) /\ SeatOf(t, c) = k
  <2>1. Contains(t.seats, c)
    BY <1>5, <1>6, <1>9 DEF Contains
  <2>2. \A i \in DOMAIN t.seats : t.seats[i] = c => i = k
    BY <1>5, <1>6, <1>7, <1>9
  <2>3. k \in DOMAIN t.seats /\ t.seats[k] = c
    BY <1>5, <1>6, <1>9
  <2>4. SeatOf(t, c) = k
    BY <2>2, <2>3 DEF SeatOf
  <2> QED
    BY <2>1, <2>4
<1>10. SeatIs(t, b, n + 1) /\ n + 1 \in 1 .. LobbySize
  <2>1. n + 1 \in 1 .. n + 1 /\ seats[n + 1] = b
    BY <1>0, <1>6
  <2> QED
    BY <1>0, <1>9, <2>1 DEF SeatIs
<1>11. ASSUME NEW c, NEW o, c # b, SeatIs(s, c, o) PROVE SeatIs(t, c, o)
  <2> SUFFICES ASSUME c \in t.expects PROVE Contains(t.seats, c) /\ SeatOf(t, c) = o
    BY DEF SeatIs
  <2>1. Contains(s.seats, c) /\ SeatOf(s, c) = o
    BY <1>5, <1>11 DEF SeatIs
  <2>2. PICK k \in 1 .. n : s.seats[k] = c
    BY <2>1 DEF Contains, n
  <2>3. DOMAIN s.seats = 1 .. n
    BY <1>0 DEF n
  <2>4. \A i \in DOMAIN s.seats : s.seats[i] = c => i = k
    BY <1>0, <2>2, <2>3
  <2>5. SeatOf(s, c) = k
    BY <2>2, <2>3, <2>4 DEF SeatOf
  <2>6. k \in 1 .. n + 1 /\ seats[k] = c
    BY <1>0, <1>6, <2>2
  <2> QED
    BY <1>9, <2>1, <2>5, <2>6
<1>12. Len(t.seats) = n + 1
  BY <1>5, <1>6
<1> QED
  BY <1>5, <1>8, <1>10, <1>11, <1>12 DEF t

\* What does not touch seats and expectations leaves everybody's seat alone, and who is not
\* expected has no claim.
LEMMA SeatKept ==
    ASSUME NEW s, NEW t, t.expects = s.expects, t.seats = s.seats
    PROVE  \A b, o : SeatIs(s, b, o) => SeatIs(t, b, o)
BY DEF SeatIs, SeatOf

\* Whoever is left alone stays in touch: snapshots and lost datagrams change nothing for him.
LEMMA StaysInTouch ==
    ASSUME NEW b \in Bots, InTouch(b), bot'[b] = bot[b],
           Contains(queue', b) => Contains(queue, b),
           b \in late' => b \in late \/ bot[b].at = "asking",
           b \in told' <=> b \in told,
           \A m \in Datagram : Carries(inbox'[b], m) => Carries(inbox[b], m) \/ m.type = "snapshot",
           \A o : SeatIs(server[bot[b].port], b, o) => SeatIs(server'[bot[b].port], b, o)
    PROVE  InTouch(b)'
<1>1. Contains(queue', b) => bot'[b].at = "asking" /\ b \notin told'
  BY DEF InTouch
<1>2. b \in late' => bot'[b].at = "asking" \/ b \in told'
  BY DEF InTouch
<1>3. ASSUME NEW m \in Datagram, Carries(inbox'[b], m)
      PROVE  /\ m.type = "found" => b \in told'
             /\ m.type = "welcome" => /\ bot'[b].at \in {"connecting", "playing"}
                                      /\ SeatIs(server'[bot'[b].port], b, m.owner)
  BY <1>3 DEF InTouch
<1>4. bot'[b].at = "playing" => /\ bot'[b].owner \in 1 .. LobbySize
                                /\ SeatIs(server'[bot'[b].port], b, bot'[b].owner)
  BY DEF InTouch
<1> QED
  BY <1>1, <1>2, <1>3, <1>4 DEF InTouch

\* A server that ended has no seats and nobody to expect.
LEMMA OffIsEmpty == Seating(Off) /\ \A b, o : SeatIs(Off, b, o)
<1>1. Off \in MatchServer /\ Off.seats = <<>> /\ Off.phase = "off" /\ Off.expects = {}
  BY DEF Off, MatchServer, LobbyPhase
<1> QED
  BY <1>1, SessionSizes DEF Seating, SeatIs

\* One server changes without taking anybody's seat.
LEMMA ServerChanged ==
    ASSUME Seatings, NEW p \in PortNumbers, NEW t, Seating(t), server' = [server EXCEPT ![p] = t],
           NEW B, \A b \in B : \A o : SeatIs(server[p], b, o) => SeatIs(t, b, o)
    PROVE  /\ Seatings' /\ server'[p] = t
           /\ \A b \in B : \A q \in PortNumbers : \A o : SeatIs(server[q], b, o) => SeatIs(server'[q], b, o)
<1>1. server' = [q \in PortNumbers |-> IF q = p THEN t ELSE server[q]]
  BY DEF Seatings
<1>2. \A q \in PortNumbers : server'[q] = IF q = p THEN t ELSE server[q]
  BY <1>1
<1>3. Seatings'
  <2>1. server' = [q \in PortNumbers |-> server'[q]]
    BY <1>1
  <2>2. \A q \in PortNumbers : Seating(server'[q])
    BY <1>2 DEF Seatings
  <2> QED
    BY <2>1, <2>2 DEF Seatings
<1> QED
  BY <1>2, <1>3

\* A pick changes who has picked, and the phase perhaps.
LEMMA PickTakesNoSeat ==
    ASSUME NEW s, Seating(s), NEW b \in Bots
    PROVE  Seating(Picked(s, b)) /\ \A c, o : SeatIs(s, c, o) => SeatIs(Picked(s, b), c, o)
<1> DEFINE picks == s.picks \cup {b}
           phase == IF Cardinality(picks) = LobbySize THEN "live" ELSE s.phase
           t == [s EXCEPT !.picks = picks, !.phase = phase]
<1>1. CASE ~(s.phase = "draft" /\ Contains(s.seats, b))
  BY <1>1 DEF Picked
<1>2. CASE s.phase = "draft" /\ Contains(s.seats, b)
  <2>1. Picked(s, b) = t
    BY <1>2 DEF Picked
  <2>2. s \in MatchServer
    BY DEF Seating
  <2>3. phase \in LobbyPhase /\ phase # "waiting" /\ picks \in SUBSET Bots
    BY <1>2, <2>2 DEF LobbyPhase, MatchServer
  <2> HIDE DEF phase, picks
  <2>4. t \in MatchServer
    BY <2>2, <2>3 DEF MatchServer
  <2>5. t.seats = s.seats /\ t.expects = s.expects /\ t.phase = phase
    BY <2>2 DEF MatchServer
  <2> HIDE DEF t
  <2>6. Seating(t)
    BY <2>3, <2>4, <2>5 DEF Seating
  <2> QED
    BY <2>1, <2>5, <2>6, SeatKept
<1> QED
  BY <1>1, <1>2

\* What a CONNECT may do.
LEMMA Connects ==
    ASSUME Sockets, Seatings, NEW b \in Bots, NEW p \in PortNumbers,
           NEW box \in Seq(Datagram), Len(box) <= InboxSize, Connect(b, p, box)
    PROVE  /\ Seatings'
           /\ inbox' \in [Bots -> Seq(Datagram)] /\ \A c \in Bots : Len(inbox'[c]) <= InboxSize
           /\ \A c \in Bots : c # b => inbox'[c] = inbox[c]
           /\ \A c \in Bots : \A q \in PortNumbers : \A o : SeatIs(server[q], c, o) => SeatIs(server'[q], c, o)
           /\ \A m \in Datagram : Carries(inbox'[b], m) =>
                 Carries(box, m) \/ (m.type = "welcome" /\ SeatIs(server'[p], b, m.owner))
<1> DEFINE s == server[p]
           t == Seated(s, b)
           m == [type |-> "welcome", owner |-> Len(t.seats)]
<1>0. Seating(s)
  BY DEF Seatings
<1>1. CASE Newcomer(s, b)
  <2>1. server' = [server EXCEPT ![p] = t] /\ inbox' = [inbox EXCEPT ![b] = Put(box, m)]
    BY <1>1 DEF Connect
  <2>2. /\ Seating(t) /\ t.expects = s.expects /\ Len(t.seats) \in 1 .. LobbySize
        /\ SeatIs(t, b, Len(t.seats))
        /\ \A c, o : c # b /\ SeatIs(s, c, o) => SeatIs(t, c, o)
    BY <1>0, <1>1, SeatTaken
  <2>3. \A o : SeatIs(s, b, o) => SeatIs(t, b, o)
    BY <1>1, <2>2 DEF SeatIs, Newcomer
  <2>4. m \in Datagram
    BY <2>2 DEF Datagram
  <2>5. m.type = "welcome" /\ m.owner = Len(t.seats)
    OBVIOUS
  <2> HIDE DEF m, t, s
  <2>6. \A c \in Bots : \A o : SeatIs(server[p], c, o) => SeatIs(t, c, o)
    BY <2>2, <2>3 DEF s
  <2>7. /\ Seatings' /\ server'[p] = t
        /\ \A c \in Bots : \A q \in PortNumbers : \A o : SeatIs(server[q], c, o) => SeatIs(server'[q], c, o)
    BY <2>1, <2>2, <2>6, ServerChanged
  <2>8. /\ Put(box, m) \in Seq(Datagram) /\ Len(Put(box, m)) <= InboxSize
        /\ \A x : Carries(Put(box, m), x) => x = m \/ Carries(box, x)
    BY <2>4, BoxPut
  <2>9. /\ inbox' \in [Bots -> Seq(Datagram)]
        /\ \A c \in Bots : inbox'[c] = IF c = b THEN Put(box, m) ELSE inbox[c]
    BY <2>1, <2>8 DEF Sockets
  <2>10. \A c \in Bots : Len(inbox'[c]) <= InboxSize
    BY <2>8, <2>9 DEF Sockets
  <2>11. \A x \in Datagram : Carries(inbox'[b], x) =>
            Carries(box, x) \/ (x.type = "welcome" /\ SeatIs(server'[p], b, x.owner))
    BY <2>2, <2>5, <2>7, <2>8, <2>9
  <2> QED
    BY <2>7, <2>9, <2>10, <2>11
<1>2. CASE ~Newcomer(s, b)
  <2>1. server' = server /\ inbox' = [inbox EXCEPT ![b] = box]
    BY <1>2 DEF Connect
  <2>2. /\ inbox' \in [Bots -> Seq(Datagram)]
        /\ \A c \in Bots : inbox'[c] = IF c = b THEN box ELSE inbox[c]
    BY <2>1 DEF Sockets
  <2>3. \A c \in Bots : Len(inbox'[c]) <= InboxSize
    BY <2>2 DEF Sockets
  <2>4. Seatings'
    BY <2>1 DEF Seatings
  <2> QED
    BY <2>1, <2>2, <2>3, <2>4
<1> QED
  BY <1>1, <1>2

\* A group leaves the head of the queue, the rest stays in line.
LEMMA GroupLeaves ==
    ASSUME Sockets, Len(queue) >= LobbySize
    PROVE  LET rest == SubSeq(queue, LobbySize + 1, Len(queue))
           IN /\ rest \in Seq(Bots) /\ \A i, j \in 1 .. Len(rest) : rest[i] = rest[j] => i = j
              /\ \A b : Contains(rest, b) => Contains(queue, b) /\ ~Contains(Group, b)
              /\ \A b : Contains(Group, b) => Contains(queue, b)
              /\ ToSet(Group) \subseteq Bots /\ \A b : b \in ToSet(Group) <=> Contains(Group, b)
<1> DEFINE rest == SubSeq(queue, LobbySize + 1, Len(queue))
           n == Len(queue)
           k == LobbySize
           first == SubSeq(queue, 1, k)
<1>1. /\ k \in Nat /\ k > 0 /\ n \in Nat /\ n >= k /\ queue \in Seq(Bots)
      /\ \A i \in 1 .. n : queue[i] \in Bots
      /\ \A i, j \in 1 .. n : queue[i] = queue[j] => i = j
  BY SessionSizes DEF Sockets
<1>2. rest = SubSeq(queue, k + 1, n) /\ Group = first /\ first = SubSeq(queue, 1, k)
  BY DEF Group
<1> HIDE DEF rest, n, k, first
<1>3. /\ first \in Seq(Bots) /\ Len(first) = k /\ \A i \in 1 .. k : first[i] = queue[i]
  <2>1. \A i \in 1 .. k : queue[i] \in Bots
    BY <1>1
  <2>2. /\ first \in Seq(Bots) /\ Len(first) = IF 1 <= k THEN k - 1 + 1 ELSE 0
        /\ \A i \in 1 .. k - 1 + 1 : first[i] = queue[1 + i - 1]
    BY <1>1, <1>2, <2>1, SubSeqProperties
  <2>3. k - 1 + 1 = k /\ 1 <= k /\ \A i \in 1 .. k : 1 + i - 1 = i
    BY <1>1
  <2> QED
    BY <2>2, <2>3
<1>4. /\ rest \in Seq(Bots) /\ Len(rest) = n - k /\ \A i \in 1 .. n - k : rest[i] = queue[k + i]
  <2>1. k + 1 \in Int /\ n \in Int /\ \A i \in k + 1 .. n : queue[i] \in Bots
    BY <1>1
  <2>2. /\ rest \in Seq(Bots) /\ Len(rest) = IF k + 1 <= n THEN n - (k + 1) + 1 ELSE 0
        /\ \A i \in 1 .. n - (k + 1) + 1 : rest[i] = queue[k + 1 + i - 1]
    BY <1>2, <2>1, SubSeqProperties
  <2>3. n - (k + 1) + 1 = n - k /\ (~(k + 1 <= n) => n - k = 0) /\ \A i \in 1 .. n - k : k + 1 + i - 1 = k + i
    BY <1>1
  <2> QED
    BY <2>2, <2>3
<1>5. ASSUME NEW i \in 1 .. Len(rest), NEW j \in 1 .. Len(rest), rest[i] = rest[j] PROVE i = j
  <2>1. k + i \in 1 .. n /\ k + j \in 1 .. n /\ i \in Int /\ j \in Int
    BY <1>1, <1>4
  <2>2. queue[k + i] = queue[k + j]
    BY <1>4, <1>5
  <2>3. k + i = k + j
    BY <1>1, <2>1, <2>2
  <2> QED
    BY <1>1, <2>1, <2>3
<1>6. ASSUME NEW b, Contains(rest, b) PROVE Contains(queue, b) /\ ~Contains(Group, b)
  <2>1. PICK i \in 1 .. n - k : queue[k + i] = b
    BY <1>4, <1>6 DEF Contains
  <2>2. k + i \in 1 .. n
    BY <1>1
  <2>3. Contains(queue, b)
    BY <2>1, <2>2 DEF Contains, n
  <2>4. ASSUME NEW j \in 1 .. k, first[j] = b PROVE FALSE
    <3>1. j \in 1 .. n /\ queue[j] = b /\ j # k + i
      BY <1>1, <1>3, <2>2, <2>4
    <3> QED
      BY <1>1, <2>1, <2>2, <3>1
  <2> QED
    BY <1>2, <1>3, <2>3, <2>4 DEF Contains
<1>7. ASSUME NEW b, Contains(Group, b) PROVE Contains(queue, b)
  <2>1. PICK i \in 1 .. k : queue[i] = b
    BY <1>2, <1>3, <1>7 DEF Contains
  <2>2. i \in 1 .. n
    BY <1>1
  <2> QED
    BY <2>1, <2>2 DEF Contains, n
<1>8. ToSet(Group) \subseteq Bots /\ \A b : b \in ToSet(Group) <=> Contains(Group, b)
  <2>1. DOMAIN first = 1 .. k /\ \A i \in 1 .. k : first[i] \in Bots
    BY <1>3
  <2> QED
    BY <1>2, <1>3, <2>1 DEF ToSet, Contains
<1> QED
  BY <1>4, <1>5, <1>6, <1>7, <1>8 DEF rest

\* The bots' places and sockets.
LEMMA AtPlaces ==
    ASSUME Sockets, NEW b \in Bots
    PROVE  /\ bot[b] \in Player /\ bot[b].at \in {"asking", "connecting", "playing", "resting"}
           /\ bot[b].port \in PortNumbers /\ bot[b].owner \in Int
           /\ inbox[b] \in Seq(Datagram) /\ Len(inbox[b]) <= InboxSize
<1>1. bot[b] \in Player /\ inbox[b] \in Seq(Datagram) /\ Len(inbox[b]) <= InboxSize
  BY DEF Sockets
<1> QED
  BY <1>1 DEF Player

LEMMA ReadsWhileAsking == ASSUME SessionIInv, NEW b \in Bots, ReadWhileAsking(b) PROVE SessionIInv'
<1> DEFINE m == Head(inbox[b])
           box == Tail(inbox[b])
<1>0. /\ Sockets /\ Seatings /\ \A c \in Bots : InTouch(c)
      /\ bot[b].at = "asking" /\ inbox[b] # <<>>
      /\ late' = late /\ queue' = queue /\ told' = told /\ nextPort' = nextPort
  BY DEF SessionIInv, ReadWhileAsking
<1>1. /\ m \in Datagram /\ Carries(inbox[b], m)
      /\ box \in Seq(Datagram) /\ Len(box) <= InboxSize
      /\ \A x : Carries(box, x) => Carries(inbox[b], x)
  BY <1>0, AtPlaces, BoxRead
<1>2. \A x \in Datagram : Carries(box, x) => (x.type = "found" => b \in told) /\ x.type # "welcome"
  BY <1>0, <1>1 DEF InTouch
<1>3. CASE m.type = "found"
  <2> DEFINE p == m.port
             there == [at |-> "connecting", port |-> p, owner |-> -1]
  <2>1. p \in PortNumbers
    BY <1>1, <1>3 DEF Datagram
  <2>2. b \in told
    BY <1>0, <1>1, <1>3 DEF InTouch
  <2>3. bot' = [bot EXCEPT ![b] = there]
    BY <1>3 DEF ReadWhileAsking
  <2>4. Connect(b, p, box) \/ (inbox' = [inbox EXCEPT ![b] = box] /\ server' = server)
    BY <1>3 DEF ReadWhileAsking
  <2>5. there \in Player /\ there.at = "connecting" /\ there.port = p
    BY <2>1 DEF Player
  <2> HIDE DEF there, p, m, box
  <2>6. /\ bot' \in [Bots -> Player] /\ bot'[b] = there /\ \A c \in Bots : c # b => bot'[c] = bot[c]
    BY <1>0, <2>3, <2>5 DEF Sockets
  <2>7. /\ Seatings'
        /\ inbox' \in [Bots -> Seq(Datagram)] /\ \A c \in Bots : Len(inbox'[c]) <= InboxSize
        /\ \A c \in Bots : c # b => inbox'[c] = inbox[c]
        /\ \A c \in Bots : \A q \in PortNumbers : \A o : SeatIs(server[q], c, o) => SeatIs(server'[q], c, o)
        /\ \A x \in Datagram : Carries(inbox'[b], x) =>
              Carries(box, x) \/ (x.type = "welcome" /\ SeatIs(server'[p], b, x.owner))
    <3>1. CASE Connect(b, p, box)
      BY <1>0, <1>1, <2>1, <3>1, Connects
    <3>2. CASE inbox' = [inbox EXCEPT ![b] = box] /\ server' = server
      <4>1. \A c \in Bots : inbox'[c] = IF c = b THEN box ELSE inbox[c]
        BY <1>0, <3>2 DEF Sockets
      <4>2. inbox' \in [Bots -> Seq(Datagram)] /\ \A c \in Bots : Len(inbox'[c]) <= InboxSize
        BY <1>0, <1>1, <3>2, <4>1 DEF Sockets
      <4>3. Seatings'
        BY <1>0, <3>2 DEF Seatings
      <4> QED
        BY <3>2, <4>1, <4>2, <4>3
    <3> QED
      BY <2>4, <3>1, <3>2
  <2>8. Sockets'
    BY <1>0, <2>6, <2>7 DEF Sockets
  <2>9. ASSUME NEW c \in Bots, c # b PROVE InTouch(c)'
    <3>1. bot[c].port \in PortNumbers
      BY <1>0, AtPlaces
    <3> QED
      BY <1>0, <2>6, <2>7, <2>9, <3>1, StaysInTouch
  <2>10. InTouch(b)'
    <3>1. ~Contains(queue', b)
      BY <1>0, <2>2 DEF InTouch
    <3>2. bot'[b].at = "connecting" /\ bot'[b].port = p
      BY <2>5, <2>6
    <3>3. ASSUME NEW x \in Datagram, Carries(inbox'[b], x)
          PROVE  /\ x.type = "found" => b \in told'
                 /\ x.type = "welcome" => /\ bot'[b].at \in {"connecting", "playing"}
                                          /\ SeatIs(server'[bot'[b].port], b, x.owner)
      BY <1>0, <1>2, <2>2, <2>7, <3>2, <3>3
    <3> QED
      BY <1>0, <2>2, <3>1, <3>2, <3>3 DEF InTouch
  <2> QED
    BY <2>7, <2>8, <2>9, <2>10 DEF SessionIInv
<1>4. CASE m.type # "found"
  <2>1. inbox' = [inbox EXCEPT ![b] = box] /\ bot' = bot /\ server' = server
    BY <1>4 DEF ReadWhileAsking
  <2> HIDE DEF box, m
  <2>2. \A c \in Bots : inbox'[c] = IF c = b THEN box ELSE inbox[c]
    BY <1>0, <2>1 DEF Sockets
  <2>3. Sockets'
    BY <1>0, <1>1, <2>1, <2>2 DEF Sockets
  <2>4. Seatings'
    BY <1>0, <2>1 DEF Seatings
  <2>5. \A c \in Bots : InTouch(c)'
    BY <1>0, <1>1, <2>1, <2>2, StaysInTouch
  <2> QED
    BY <2>3, <2>4, <2>5 DEF SessionIInv
<1> QED
  BY <1>3, <1>4

LEMMA ConnectsAgain == ASSUME SessionIInv, NEW b \in Bots, ConnectAgain(b) PROVE SessionIInv'
<1> DEFINE p == bot[b].port
<1>0. /\ Sockets /\ Seatings /\ \A c \in Bots : InTouch(c)
      /\ bot[b].at = "connecting" /\ Connect(b, p, inbox[b])
      /\ bot' = bot /\ late' = late /\ queue' = queue /\ told' = told /\ nextPort' = nextPort
  BY DEF SessionIInv, ConnectAgain
<1>1. p \in PortNumbers /\ inbox[b] \in Seq(Datagram) /\ Len(inbox[b]) <= InboxSize
  BY <1>0, AtPlaces
<1>2. /\ Seatings'
      /\ inbox' \in [Bots -> Seq(Datagram)] /\ \A c \in Bots : Len(inbox'[c]) <= InboxSize
      /\ \A c \in Bots : c # b => inbox'[c] = inbox[c]
      /\ \A c \in Bots : \A q \in PortNumbers : \A o : SeatIs(server[q], c, o) => SeatIs(server'[q], c, o)
      /\ \A x \in Datagram : Carries(inbox'[b], x) =>
            Carries(inbox[b], x) \/ (x.type = "welcome" /\ SeatIs(server'[p], b, x.owner))
  BY <1>0, <1>1, Connects
<1>3. Sockets'
  BY <1>0, <1>2 DEF Sockets
<1>4. ASSUME NEW c \in Bots, c # b PROVE InTouch(c)'
  <2>1. bot[c].port \in PortNumbers
    BY <1>0, AtPlaces
  <2> QED
    BY <1>0, <1>2, <1>4, <2>1, StaysInTouch
<1>5. InTouch(b)'
  <2>1. ASSUME NEW x \in Datagram, Carries(inbox'[b], x)
        PROVE  /\ x.type = "found" => b \in told'
               /\ x.type = "welcome" => /\ bot'[b].at \in {"connecting", "playing"}
                                        /\ SeatIs(server'[bot'[b].port], b, x.owner)
    <3>1. CASE Carries(inbox[b], x)
      BY <1>0, <1>1, <1>2, <3>1 DEF InTouch
    <3>2. CASE x.type = "welcome" /\ SeatIs(server'[p], b, x.owner)
      BY <1>0, <3>2
    <3> QED
      BY <1>2, <2>1, <3>1, <3>2
  <2> QED
    BY <1>0, <2>1 DEF InTouch
<1> QED
  BY <1>2, <1>3, <1>4, <1>5 DEF SessionIInv

LEMMA ReadsWhileConnecting == ASSUME SessionIInv, NEW b \in Bots, ReadWhileConnecting(b) PROVE SessionIInv'
<1> DEFINE m == Head(inbox[b])
           box == Tail(inbox[b])
<1>0. /\ Sockets /\ Seatings /\ \A c \in Bots : InTouch(c)
      /\ bot[b].at = "connecting" /\ inbox[b] # <<>>
      /\ inbox' = [inbox EXCEPT ![b] = box]
      /\ late' = late /\ queue' = queue /\ told' = told /\ nextPort' = nextPort /\ server' = server
  BY DEF SessionIInv, ReadWhileConnecting
<1>1. /\ m \in Datagram /\ Carries(inbox[b], m)
      /\ box \in Seq(Datagram) /\ Len(box) <= InboxSize
      /\ \A x : Carries(box, x) => Carries(inbox[b], x)
  BY <1>0, AtPlaces, BoxRead
<1>2. bot' = IF m.type = "welcome" THEN [bot EXCEPT ![b].at = "playing", ![b].owner = m.owner] ELSE bot
  BY DEF ReadWhileConnecting
<1> HIDE DEF m, box
<1>3. \A c \in Bots : inbox'[c] = IF c = b THEN box ELSE inbox[c]
  BY <1>0 DEF Sockets
<1>4. Seatings'
  BY <1>0 DEF Seatings
<1>5. CASE m.type # "welcome"
  <2>1. bot' = bot
    BY <1>2, <1>5
  <2>2. Sockets'
    BY <1>0, <1>1, <1>3, <2>1 DEF Sockets
  <2>3. \A c \in Bots : InTouch(c)'
    BY <1>0, <1>1, <1>3, <2>1, StaysInTouch
  <2> QED
    BY <1>4, <2>2, <2>3 DEF SessionIInv
<1>6. CASE m.type = "welcome"
  <2> DEFINE there == [bot[b] EXCEPT !.at = "playing", !.owner = m.owner]
  <2>1. bot' = [bot EXCEPT ![b] = there]
    BY <1>0, <1>2, <1>6 DEF Sockets
  <2>2. m.owner \in 1 .. LobbySize
    BY <1>1, <1>6 DEF Datagram
  <2>3. bot[b] \in Player
    BY <1>0, AtPlaces
  <2>4. there \in Player /\ there.at = "playing" /\ there.port = bot[b].port /\ there.owner = m.owner
    <3> DEFINE e == bot[b]
               o == m.owner
    <3>1. there = [e EXCEPT !.at = "playing", !.owner = o] /\ e \in Player /\ o \in Int
      BY <2>2, <2>3, SessionSizes
    <3> HIDE DEF there, e, o
    <3>2. there \in Player
      BY <3>1 DEF Player
    <3>3. there.at = "playing" /\ there.port = e.port /\ there.owner = o
      BY <3>1 DEF Player
    <3> QED
      BY <3>2, <3>3 DEF e, o
  <2> HIDE DEF there
  <2>5. /\ bot' \in [Bots -> Player] /\ bot'[b] = there /\ \A c \in Bots : c # b => bot'[c] = bot[c]
    BY <1>0, <2>1, <2>4 DEF Sockets
  <2>6. Sockets'
    BY <1>0, <1>1, <1>3, <2>5 DEF Sockets
  <2>7. ASSUME NEW c \in Bots, c # b PROVE InTouch(c)'
    BY <1>0, <1>3, <2>5, <2>7, StaysInTouch
  <2>8. InTouch(b)'
    <3>1. SeatIs(server[bot[b].port], b, m.owner)
      BY <1>0, <1>1, <1>6 DEF InTouch
    <3>2. bot'[b].at = "playing" /\ bot'[b].port = bot[b].port /\ bot'[b].owner = m.owner
      BY <2>4, <2>5
    <3>3. ASSUME NEW x \in Datagram, Carries(inbox'[b], x)
          PROVE  /\ x.type = "found" => b \in told
                 /\ x.type = "welcome" => SeatIs(server[bot[b].port], b, x.owner)
      BY <1>0, <1>1, <1>3, <3>3 DEF InTouch
    <3>4. ~Contains(queue, b) /\ (b \in late => b \in told)
      BY <1>0 DEF InTouch
    <3> QED
      BY <1>0, <2>2, <3>1, <3>2, <3>3, <3>4 DEF InTouch
  <2> QED
    BY <1>4, <2>6, <2>7, <2>8 DEF SessionIInv
<1> QED
  BY <1>5, <1>6

\* A bot leaves with its socket empty of welcomes, for a rest or to ask again.
LEMMA MovesOn ==
    ASSUME SessionIInv, NEW b \in Bots, NEW there \in Player, there.at \in {"asking", "resting"},
           bot' = [bot EXCEPT ![b] = there],
           bot[b].at # "asking" \/ there.at = "asking",
           inbox' \in [Bots -> Seq(Datagram)], \A c \in Bots : c # b => inbox'[c] = inbox[c],
           Len(inbox'[b]) <= InboxSize,
           \A m \in Datagram : Carries(inbox'[b], m) => Carries(inbox[b], m) /\ m.type # "welcome",
           late' = late \/ (there.at = "asking" /\ late' = late \cup {b}),
           queue' = queue, told' = told, nextPort' = nextPort, Seatings',
           \A c \in Bots : \A q \in PortNumbers : \A o : SeatIs(server[q], c, o) => SeatIs(server'[q], c, o)
    PROVE  SessionIInv'
<1>0. Sockets /\ \A c \in Bots : InTouch(c)
  BY DEF SessionIInv
<1>1. bot' \in [Bots -> Player] /\ bot'[b] = there /\ \A c \in Bots : c # b => bot'[c] = bot[c]
  BY <1>0 DEF Sockets
<1>2. \A c \in Bots : Len(inbox'[c]) <= InboxSize
  BY <1>0 DEF Sockets
<1>3. Sockets'
  BY <1>0, <1>1, <1>2 DEF Sockets
<1>4. ASSUME NEW c \in Bots, c # b PROVE InTouch(c)'
  <2>1. bot[c].port \in PortNumbers
    BY <1>0, AtPlaces
  <2>2. c \in late' => c \in late
    BY <1>4
  <2> QED
    BY <1>0, <1>1, <1>4, <2>1, <2>2, StaysInTouch
<1>5. InTouch(b)'
  <2>1. Contains(queue', b) => there.at = "asking" /\ b \notin told'
    BY <1>0 DEF InTouch
  <2>2. b \in late' => there.at = "asking" \/ b \in told'
    BY <1>0 DEF InTouch
  <2>3. \A m \in Datagram : Carries(inbox'[b], m) => (m.type = "found" => b \in told') /\ m.type # "welcome"
    BY <1>0 DEF InTouch
  <2>4. bot'[b].at = there.at /\ there.at # "playing"
    BY <1>1
  <2> QED
    BY <2>1, <2>2, <2>3, <2>4 DEF InTouch
<1> QED
  BY <1>3, <1>4, <1>5 DEF SessionIInv

\* A bot that rests is where it was.
LEMMA AtRest ==
    ASSUME Sockets, NEW b \in Bots
    PROVE  LET there == [bot[b] EXCEPT !.at = "resting"]
           IN there \in Player /\ there.at = "resting"
<1> DEFINE e == bot[b]
           there == [e EXCEPT !.at = "resting"]
<1>1. e \in Player
  BY AtPlaces
<1> HIDE DEF e
<1>2. there \in Player
  BY <1>1 DEF Player
<1>3. there.at = "resting"
  BY <1>1 DEF Player
<1> QED
  BY <1>2, <1>3 DEF e

LEMMA GivesUp ==
    ASSUME Patient, SessionIInv, NEW b \in Bots, GiveUpConnecting(b) \/ GiveUpPlaying(b)
    PROVE  SessionIInv'
<1> DEFINE there == [bot[b] EXCEPT !.at = "resting"]
<1>0. /\ Sockets /\ Seatings /\ bot[b].at # "asking"
      /\ bot' = [bot EXCEPT ![b].at = "resting"] /\ inbox' = inbox
      /\ late' = late /\ queue' = queue /\ told' = told /\ nextPort' = nextPort /\ server' = server
  BY DEF SessionIInv, GiveUpConnecting, GiveUpPlaying
<1>1. ~Holds(b, "welcome")
  <2>1. CASE GiveUpConnecting(b)
    BY <2>1 DEF GiveUpConnecting
  <2>2. CASE GiveUpPlaying(b)
    <3>1. inbox[b] = <<>>
      BY <2>2 DEF GiveUpPlaying
    <3> QED
      BY <3>1 DEF Holds
  <2> QED
    BY <2>1, <2>2
<1>2. \A m \in Datagram : Carries(inbox[b], m) => m.type # "welcome"
  <2>1. DOMAIN inbox[b] = 1 .. Len(inbox[b])
    BY <1>0, AtPlaces
  <2> QED
    BY <1>1, <2>1 DEF Holds, Carries
<1>3. there \in Player /\ there.at = "resting"
  BY <1>0, AtRest
<1>4. bot' = [bot EXCEPT ![b] = there]
  BY <1>0 DEF Sockets
<1> HIDE DEF there
<1>5. inbox' \in [Bots -> Seq(Datagram)] /\ Len(inbox'[b]) <= InboxSize
  BY <1>0 DEF Sockets
<1>6. Seatings'
  BY <1>0 DEF Seatings
<1> QED
  BY <1>0, <1>2, <1>3, <1>4, <1>5, <1>6, MovesOn

LEMMA AsksFromTheStart == ASSUME SessionIInv, NEW b \in Bots, Requeue(b) PROVE SessionIInv'
<1>0. /\ Sockets /\ Seatings /\ bot[b].at = "resting" /\ InTouch(b)
      /\ bot' = [bot EXCEPT ![b] = Asking] /\ inbox' = inbox /\ late' = late \cup {b}
      /\ queue' = queue /\ told' = told /\ nextPort' = nextPort /\ server' = server
  BY DEF SessionIInv, Requeue
<1>1. Asking \in Player /\ Asking.at = "asking"
  BY SessionSizes DEF Asking, Player
<1>2. \A m \in Datagram : Carries(inbox[b], m) => m.type # "welcome"
  BY <1>0 DEF InTouch
<1>3. inbox' \in [Bots -> Seq(Datagram)] /\ Len(inbox'[b]) <= InboxSize
  BY <1>0 DEF Sockets
<1>4. Seatings'
  BY <1>0 DEF Seatings
<1> QED
  BY <1>0, <1>1, <1>2, <1>3, <1>4, MovesOn

LEMMA Drains == ASSUME SessionIInv, NEW b \in Bots, Drain(b) PROVE SessionIInv'
<1> DEFINE p == bot[b].port
           there == [bot[b] EXCEPT !.at = "resting"]
<1>0. /\ Sockets /\ Seatings /\ \A c \in Bots : InTouch(c)
      /\ bot[b].at = "playing" /\ inbox' = [inbox EXCEPT ![b] = <<>>]
      /\ late' = late /\ queue' = queue /\ told' = told /\ nextPort' = nextPort
  BY DEF SessionIInv, Drain
<1>1. bot' = [bot EXCEPT ![b].at = "resting"] \/ bot' = bot
  BY DEF Drain
<1>2. server' = [server EXCEPT ![p] = Picked(server[p], b)] \/ server' = server
  BY DEF Drain
<1>3. p \in PortNumbers /\ bot[b] \in Player
  BY <1>0, AtPlaces
<1>4. \A c \in Bots : inbox'[c] = IF c = b THEN <<>> ELSE inbox[c]
  BY <1>0 DEF Sockets
<1>5. inbox' \in [Bots -> Seq(Datagram)] /\ \A c \in Bots : Len(inbox'[c]) <= InboxSize
  BY <1>0, <1>4, BoxEmpty DEF Sockets
<1>6. /\ Seatings'
      /\ \A c \in Bots : \A q \in PortNumbers : \A o : SeatIs(server[q], c, o) => SeatIs(server'[q], c, o)
  <2>1. CASE server' = server
    BY <1>0, <2>1 DEF Seatings
  <2>2. CASE server' = [server EXCEPT ![p] = Picked(server[p], b)]
    <3> DEFINE t == Picked(server[p], b)
    <3>1. Seating(server[p])
      BY <1>0, <1>3 DEF Seatings
    <3>2. Seating(t) /\ \A c, o : SeatIs(server[p], c, o) => SeatIs(t, c, o)
      BY <3>1, PickTakesNoSeat
    <3>3. server' = [server EXCEPT ![p] = t]
      BY <2>2
    <3> HIDE DEF t, p
    <3>4. \A c \in Bots : \A o : SeatIs(server[p], c, o) => SeatIs(t, c, o)
      BY <3>2
    <3> QED
      BY <1>0, <1>3, <3>2, <3>3, <3>4, ServerChanged
  <2> QED
    BY <1>2, <2>1, <2>2
<1>7. \A m \in Datagram : ~Carries(inbox'[b], m)
  BY <1>4, BoxEmpty
<1>8. CASE bot' = bot
  <2>1. Sockets'
    BY <1>0, <1>5, <1>8 DEF Sockets
  <2>2. ASSUME NEW c \in Bots PROVE InTouch(c)'
    <3>1. bot[c].port \in PortNumbers
      BY <1>0, AtPlaces
    <3>2. \A m \in Datagram : Carries(inbox'[c], m) => Carries(inbox[c], m)
      BY <1>4, <1>7
    <3> QED
      BY <1>0, <1>6, <1>8, <3>1, <3>2, StaysInTouch
  <2> QED
    BY <1>6, <2>1, <2>2 DEF SessionIInv
<1>9. CASE bot' = [bot EXCEPT ![b].at = "resting"]
  <2>1. there \in Player /\ there.at = "resting"
    BY <1>0, AtRest
  <2>2. bot' = [bot EXCEPT ![b] = there]
    BY <1>0, <1>9 DEF Sockets
  <2> HIDE DEF there
  <2>3. \A c \in Bots : c # b => inbox'[c] = inbox[c]
    BY <1>4
  <2> QED
    BY <1>0, <1>5, <1>6, <1>7, <2>1, <2>2, <2>3, MovesOn
<1> QED
  BY <1>1, <1>8, <1>9

\* What moves no bot and takes no seat: requests, the matchmaker's lists, lost datagrams.
LEMMA NobodyMoves ==
    ASSUME SessionIInv, bot' = bot, Sockets', Seatings',
           \A c \in Bots : /\ Contains(queue', c) => Contains(queue, c)
                           /\ c \in late' => c \in late \/ bot[c].at = "asking"
                           /\ c \in told' <=> c \in told
                           /\ \A m \in Datagram : Carries(inbox'[c], m) => Carries(inbox[c], m) \/ m.type = "snapshot"
                           /\ \A q \in PortNumbers : \A o : SeatIs(server[q], c, o) => SeatIs(server'[q], c, o)
    PROVE  SessionIInv'
<1>1. ASSUME NEW c \in Bots PROVE InTouch(c)'
  <2>1. bot[c].port \in PortNumbers /\ InTouch(c) /\ bot'[c] = bot[c]
    BY AtPlaces DEF SessionIInv
  <2> QED
    BY <2>1, StaysInTouch
<1> QED
  BY <1>1 DEF SessionIInv

LEMMA RequestsComeAndGo ==
    ASSUME SessionIInv, NEW b \in Bots, AskAgain(b) \/ Lose(b) \/ LoseReply(b)
    PROVE  SessionIInv'
<1>0. Sockets /\ Seatings
  BY DEF SessionIInv
<1>1. CASE AskAgain(b) \/ Lose(b)
  <2>1. /\ bot' = bot /\ inbox' = inbox /\ queue' = queue /\ told' = told /\ nextPort' = nextPort
        /\ server' = server
        /\ late' = late \ {b} \/ (late' = late \cup {b} /\ bot[b].at = "asking")
    BY <1>1 DEF AskAgain, Lose
  <2>2. Sockets'
    BY <1>0, <2>1 DEF Sockets
  <2>3. Seatings'
    BY <1>0, <2>1 DEF Seatings
  <2> QED
    BY <2>1, <2>2, <2>3, NobodyMoves
<1>2. CASE LoseReply(b)
  <2> DEFINE box == Front(inbox[b])
  <2>1. /\ bot' = bot /\ late' = late /\ queue' = queue /\ told' = told /\ nextPort' = nextPort
        /\ server' = server /\ inbox[b] # <<>> /\ inbox' = [inbox EXCEPT ![b] = box]
    BY <1>2 DEF LoseReply
  <2>2. /\ box \in Seq(Datagram) /\ Len(box) <= InboxSize /\ \A x : Carries(box, x) => Carries(inbox[b], x)
    BY <1>0, <2>1, AtPlaces, BoxCut
  <2> HIDE DEF box
  <2>3. \A c \in Bots : inbox'[c] = IF c = b THEN box ELSE inbox[c]
    BY <1>0, <2>1 DEF Sockets
  <2>4. Sockets'
    BY <1>0, <2>1, <2>2, <2>3 DEF Sockets
  <2>5. Seatings'
    BY <1>0, <2>1 DEF Seatings
  <2> QED
    BY <2>1, <2>2, <2>3, <2>4, <2>5, NobodyMoves
<1> QED
  BY <1>1, <1>2

LEMMA Queues == ASSUME SessionIInv, NEW b \in Bots, Find(b) PROVE SessionIInv'
<1>0. /\ Sockets /\ Seatings /\ \A c \in Bots : InTouch(c)
      /\ b \in late /\ late' = late \ {b}
      /\ queue' = IF Unknown(b) THEN Append(queue, b) ELSE queue
      /\ bot' = bot /\ inbox' = inbox /\ told' = told /\ nextPort' = nextPort /\ server' = server
  BY DEF SessionIInv, Find
<1>1. Seatings'
  BY <1>0 DEF Seatings
<1>2. CASE ~Unknown(b)
  <2>1. Sockets'
    BY <1>0, <1>2 DEF Sockets
  <2> QED
    BY <1>0, <1>1, <1>2, <2>1, NobodyMoves
<1>3. CASE Unknown(b)
  <2> DEFINE n == Len(queue)
  <2>1. ~Contains(queue, b) /\ b \notin told /\ bot[b].at = "asking"
    BY <1>0, <1>3 DEF Unknown, InTouch
  <2>2. /\ queue \in Seq(Bots) /\ n \in Nat /\ \A i, j \in 1 .. n : queue[i] = queue[j] => i = j
        /\ queue' \in Seq(Bots) /\ Len(queue') = n + 1
        /\ \A i \in 1 .. n + 1 : queue'[i] = IF i = n + 1 THEN b ELSE queue[i]
        /\ \A i \in 1 .. n : queue[i] # b
    BY <1>0, <1>3, <2>1 DEF Sockets, Contains
  <2> HIDE DEF n
  <2>3. ASSUME NEW i \in 1 .. n + 1, NEW j \in 1 .. n + 1, queue'[i] = queue'[j] PROVE i = j
    <3>1. (i = n + 1 \/ i \in 1 .. n) /\ (j = n + 1 \/ j \in 1 .. n)
      BY <2>2
    <3> QED
      BY <2>2, <2>3, <3>1
  <2>4. \A c : Contains(queue', c) => c = b \/ Contains(queue, c)
    <3> SUFFICES ASSUME NEW c, Contains(queue', c) PROVE c = b \/ Contains(queue, c)
      OBVIOUS
    <3>1. PICK i \in 1 .. n + 1 : queue'[i] = c
      BY <2>2 DEF Contains
    <3>2. i = n + 1 \/ i \in 1 .. n
      BY <2>2
    <3> QED
      BY <2>2, <3>1, <3>2 DEF Contains, n
  <2>5. Sockets'
    BY <1>0, <2>2, <2>3 DEF Sockets
  <2>6. ASSUME NEW c \in Bots, c # b PROVE InTouch(c)'
    BY <1>0, <2>4, <2>6, StaysInTouch
  <2>7. InTouch(b)'
    BY <1>0, <2>1 DEF InTouch
  <2> QED
    BY <1>1, <2>5, <2>6, <2>7 DEF SessionIInv
<1> QED
  BY <1>2, <1>3

\* A group is told, a server is spawned where none listens.
LEMMA Matches == ASSUME SessionIInv, Match PROVE SessionIInv'
<1> DEFINE rest == SubSeq(queue, LobbySize + 1, Len(queue))
           found == [type |-> "found", port |-> nextPort]
           t == [Off EXCEPT !.phase = "waiting", !.expects = ToSet(Group)]
<1>0. /\ Sockets /\ Seatings /\ \A c \in Bots : InTouch(c)
      /\ Len(queue) >= LobbySize /\ queue' = rest /\ nextPort' = Follows(nextPort)
      /\ told' = told \cup ToSet(Group) /\ bot' = bot /\ late' = late
  BY DEF SessionIInv, Match
<1>1. inbox' = [b \in Bots |-> IF Contains(Group, b) THEN Put(inbox[b], found) ELSE inbox[b]]
  BY DEF Match
<1>2. server' = [server EXCEPT ![nextPort] = t] \/ server' = server
  BY DEF Match
<1>3. /\ rest \in Seq(Bots) /\ \A i, j \in 1 .. Len(rest) : rest[i] = rest[j] => i = j
      /\ \A b : Contains(rest, b) => Contains(queue, b) /\ ~Contains(Group, b)
      /\ \A b : Contains(Group, b) => Contains(queue, b)
      /\ ToSet(Group) \subseteq Bots /\ \A b : b \in ToSet(Group) <=> Contains(Group, b)
  BY <1>0, GroupLeaves
<1>4. found \in Datagram /\ found.type = "found"
  BY <1>0 DEF Datagram, Sockets
<1>5. nextPort \in PortNumbers /\ Follows(nextPort) \in PortNumbers
  BY <1>0, SessionSizes DEF Sockets, Follows, PortNumbers
<1>6. Seating(t) /\ t.expects = ToSet(Group)
  <2> DEFINE g == ToSet(Group)
  <2>1. g \in SUBSET Bots
    BY <1>3
  <2>2. t = [Off EXCEPT !.phase = "waiting", !.expects = g]
    OBVIOUS
  <2> HIDE DEF g, t
  <2>3. t = [phase |-> "waiting", seats |-> <<>>, picks |-> {}, expects |-> g]
    BY <2>2 DEF Off
  <2>4. t \in MatchServer /\ t.seats = <<>> /\ t.expects = g
    BY <2>1, <2>3 DEF MatchServer, LobbyPhase
  <2> QED
    BY <2>4, SessionSizes DEF Seating, g
<1> HIDE DEF rest, found, t
<1>7. ASSUME NEW b \in Bots
      PROVE  /\ inbox'[b] \in Seq(Datagram) /\ Len(inbox'[b]) <= InboxSize
             /\ \A m : Carries(inbox'[b], m) => Carries(inbox[b], m) \/ (m = found /\ Contains(Group, b))
  <2>1. inbox[b] \in Seq(Datagram) /\ Len(inbox[b]) <= InboxSize
    BY <1>0, AtPlaces
  <2>2. inbox'[b] = IF Contains(Group, b) THEN Put(inbox[b], found) ELSE inbox[b]
    BY <1>1
  <2>3. /\ Put(inbox[b], found) \in Seq(Datagram) /\ Len(Put(inbox[b], found)) <= InboxSize
        /\ \A m : Carries(Put(inbox[b], found), m) => m = found \/ Carries(inbox[b], m)
    BY <1>4, <2>1, BoxPut
  <2> QED
    BY <2>1, <2>2, <2>3
<1>8. Sockets'
  <2>1. inbox' \in [Bots -> Seq(Datagram)]
    BY <1>1, <1>7
  <2>2. told' \subseteq Bots
    BY <1>0, <1>3 DEF Sockets
  <2> QED
    BY <1>0, <1>3, <1>5, <1>7, <2>1, <2>2 DEF Sockets
<1>9. /\ Seatings'
      /\ \A c \in Bots \ ToSet(Group) : \A q \in PortNumbers : \A o :
            SeatIs(server[q], c, o) => SeatIs(server'[q], c, o)
  <2>1. CASE server' = server
    BY <1>0, <2>1 DEF Seatings
  <2>2. CASE server' = [server EXCEPT ![nextPort] = t]
    <3> DEFINE B == Bots \ ToSet(Group)
    <3>1. \A c \in B : \A o : SeatIs(server[nextPort], c, o) => SeatIs(t, c, o)
      BY <1>6 DEF SeatIs
    <3> HIDE DEF B
    <3>2. /\ Seatings'
          /\ \A c \in B : \A q \in PortNumbers : \A o : SeatIs(server[q], c, o) => SeatIs(server'[q], c, o)
      <4>1. Seatings /\ nextPort \in PortNumbers /\ Seating(t)
        BY <1>0, <1>5, <1>6
      <4> QED
        BY ONLY <2>2, <3>1, <4>1, ServerChanged
    <3> QED
      BY <3>2 DEF B
  <2> QED
    BY <1>2, <2>1, <2>2
<1>10. ASSUME NEW b \in Bots, ~Contains(Group, b) PROVE InTouch(b)'
  <2>1. b \in Bots \ ToSet(Group) /\ bot[b].port \in PortNumbers
    BY <1>0, <1>3, <1>10, AtPlaces
  <2>2. (b \in told' <=> b \in told) /\ (Contains(queue', b) => Contains(queue, b))
    BY <1>0, <1>3, <1>10
  <2>3. \A m \in Datagram : Carries(inbox'[b], m) => Carries(inbox[b], m)
    BY <1>7, <1>10
  <2>4. \A o : SeatIs(server[bot[b].port], b, o) => SeatIs(server'[bot[b].port], b, o)
    BY <1>9, <2>1
  <2> QED
    BY <1>0, <2>2, <2>3, <2>4, StaysInTouch
<1>11. ASSUME NEW b \in Bots, Contains(Group, b) PROVE InTouch(b)'
  <2>1. bot[b].at = "asking" /\ b \in told' /\ ~Contains(queue', b)
    BY <1>0, <1>3, <1>11 DEF InTouch
  <2>2. \A m \in Datagram : Carries(inbox[b], m) => m.type # "welcome"
    BY <1>0, <2>1 DEF InTouch
  <2>3. \A m \in Datagram : Carries(inbox'[b], m) => m.type # "welcome"
    BY <1>4, <1>7, <2>2
  <2> QED
    BY <1>0, <2>1, <2>3 DEF InTouch
<1> QED
  BY <1>8, <1>9, <1>10, <1>11 DEF SessionIInv

LEMMA SpawnIsMissed == ASSUME SessionIInv, MatchFails PROVE SessionIInv'
<1> DEFINE rest == SubSeq(queue, LobbySize + 1, Len(queue))
<1>0. /\ Sockets /\ Seatings /\ Len(queue) >= LobbySize
      /\ queue' = rest /\ nextPort' = Follows(nextPort)
      /\ bot' = bot /\ inbox' = inbox /\ late' = late /\ told' = told /\ server' = server
  BY DEF SessionIInv, MatchFails
<1>1. /\ rest \in Seq(Bots) /\ \A i, j \in 1 .. Len(rest) : rest[i] = rest[j] => i = j
      /\ \A b : Contains(rest, b) => Contains(queue, b)
  BY <1>0, GroupLeaves
<1>2. Follows(nextPort) \in PortNumbers
  BY <1>0, SessionSizes DEF Sockets, Follows, PortNumbers
<1> HIDE DEF rest
<1>3. Sockets'
  BY <1>0, <1>1, <1>2 DEF Sockets
<1>4. Seatings'
  BY <1>0 DEF Seatings
<1> QED
  BY <1>0, <1>1, <1>3, <1>4, NobodyMoves

LEMMA Forgets == ASSUME Patient, SessionIInv, NEW b \in Bots, Forget(b) PROVE SessionIInv'
<1>0. /\ Sockets /\ Seatings /\ \A c \in Bots : InTouch(c)
      /\ told' = told \ {b} /\ b \notin late /\ ~Holds(b, "found")
      /\ bot' = bot /\ inbox' = inbox /\ late' = late /\ queue' = queue /\ nextPort' = nextPort
      /\ server' = server
  BY DEF SessionIInv, Forget
<1>1. Sockets'
  BY <1>0 DEF Sockets
<1>2. Seatings'
  BY <1>0 DEF Seatings
<1>3. ASSUME NEW c \in Bots, c # b PROVE InTouch(c)'
  BY <1>0, <1>3, StaysInTouch
<1>4. \A m \in Datagram : Carries(inbox[b], m) => m.type # "found"
  <2>1. DOMAIN inbox[b] = 1 .. Len(inbox[b])
    BY <1>0, AtPlaces
  <2> QED
    BY <1>0, <2>1 DEF Holds, Carries
<1>5. InTouch(b)'
  BY <1>0, <1>4 DEF InTouch
<1> QED
  BY <1>1, <1>2, <1>3, <1>5 DEF SessionIInv

\* A server ends, decides, or tells how things stand.
LEMMA ServersMoveOn ==
    ASSUME SessionIInv, NEW p \in PortNumbers,
           LobbyTimeout(p) \/ Conclude(p) \/ Exit(p) \/ Crash(p)
    PROVE  SessionIInv'
<1>0. Sockets /\ Seatings /\ Seating(server[p])
  BY DEF SessionIInv, Seatings
<1>1. /\ bot' = bot /\ inbox' = inbox /\ late' = late /\ queue' = queue /\ told' = told
      /\ nextPort' = nextPort
  BY DEF LobbyTimeout, Conclude, Exit, Crash
<1>2. \E t : /\ server' = [server EXCEPT ![p] = t] /\ Seating(t)
             /\ \A c, o : SeatIs(server[p], c, o) => SeatIs(t, c, o)
  <2>1. CASE LobbyTimeout(p) \/ Exit(p) \/ Crash(p)
    <3>1. server' = [server EXCEPT ![p] = Off]
      BY <2>1 DEF LobbyTimeout, Exit, Crash
    <3> QED
      BY <3>1, OffIsEmpty
  <2>2. CASE Conclude(p)
    <3> DEFINE s == server[p]
               t == [s EXCEPT !.phase = "over"]
    <3>1. server' = [server EXCEPT ![p] = t]
      BY <1>0, <2>2 DEF Conclude, Seatings
    <3>2. s \in MatchServer /\ Seating(s)
      BY <1>0 DEF Seating
    <3> HIDE DEF s
    <3>3. t \in MatchServer
      BY <3>2 DEF MatchServer, LobbyPhase
    <3>4. t.seats = s.seats /\ t.expects = s.expects /\ t.phase = "over"
      BY <3>2 DEF MatchServer
    <3> HIDE DEF t
    <3>5. Seating(t)
      BY <3>2, <3>3, <3>4 DEF Seating
    <3>6. \A c, o : SeatIs(s, c, o) => SeatIs(t, c, o)
      BY <3>4, SeatKept
    <3> QED
      BY <3>1, <3>5, <3>6 DEF s
  <2> QED
    BY <2>1, <2>2
<1>3. /\ Seatings'
      /\ \A c \in Bots : \A q \in PortNumbers : \A o : SeatIs(server[q], c, o) => SeatIs(server'[q], c, o)
  BY <1>0, <1>2, ServerChanged
<1>4. Sockets'
  BY <1>0, <1>1 DEF Sockets
<1> QED
  BY <1>1, <1>3, <1>4, NobodyMoves

LEMMA Broadcasts == ASSUME SessionIInv, NEW p \in PortNumbers, NEW b \in Bots, Broadcast(p, b) PROVE SessionIInv'
<1> DEFINE m == [type |-> "snapshot", phase |-> server[p].phase]
           old == inbox[b]
           shown == [i \in DOMAIN old |-> IF old[i].type = "snapshot" THEN m ELSE old[i]]
           box == IF Holds(b, "snapshot") THEN shown ELSE Put(old, m)
<1>0. /\ Sockets /\ Seatings /\ old \in Seq(Datagram) /\ Len(old) <= InboxSize
      /\ bot' = bot /\ late' = late /\ queue' = queue /\ told' = told /\ nextPort' = nextPort
      /\ server' = server
  BY AtPlaces DEF SessionIInv, Broadcast
<1>1. inbox' = [inbox EXCEPT ![b] = box]
  BY DEF Broadcast
<1>2. m \in Datagram /\ m.type = "snapshot"
  BY <1>0 DEF Datagram, Seatings, Seating, MatchServer
<1> HIDE DEF m, old
<1>3. /\ shown \in Seq(Datagram) /\ Len(shown) = Len(old)
      /\ \A x : Carries(shown, x) => x = m \/ Carries(old, x)
  <2>1. DOMAIN old = 1 .. Len(old) /\ Len(old) \in Nat /\ \A i \in 1 .. Len(old) : old[i] \in Datagram
    BY <1>0
  <2>2. shown = [i \in 1 .. Len(old) |-> IF old[i].type = "snapshot" THEN m ELSE old[i]]
    BY <2>1
  <2>3. \A i \in 1 .. Len(old) : shown[i] \in Datagram /\ (shown[i] = m \/ shown[i] = old[i])
    BY <1>2, <2>1, <2>2
  <2> HIDE DEF shown
  <2>4. shown \in Seq(Datagram) /\ Len(shown) = Len(old)
    BY <2>1, <2>2, <2>3
  <2> QED
    BY <2>3, <2>4 DEF Carries
<1>4. /\ Put(old, m) \in Seq(Datagram) /\ Len(Put(old, m)) <= InboxSize
      /\ \A x : Carries(Put(old, m), x) => x = m \/ Carries(old, x)
  BY <1>0, <1>2, BoxPut
<1> HIDE DEF shown
<1>5. box \in Seq(Datagram) /\ Len(box) <= InboxSize /\ \A x : Carries(box, x) => x = m \/ Carries(old, x)
  <2>1. CASE Holds(b, "snapshot")
    BY <1>0, <1>3, <2>1
  <2>2. CASE ~Holds(b, "snapshot")
    BY <1>4, <2>2
  <2> QED
    BY <2>1, <2>2
<1> HIDE DEF box
<1>6. \A c \in Bots : inbox'[c] = IF c = b THEN box ELSE inbox[c]
  BY <1>0, <1>1 DEF Sockets
<1>7. Sockets'
  BY <1>0, <1>1, <1>5, <1>6 DEF Sockets
<1>8. Seatings'
  BY <1>0 DEF Seatings
<1>9. ASSUME NEW c \in Bots, NEW x \in Datagram, Carries(inbox'[c], x)
      PROVE  Carries(inbox[c], x) \/ x.type = "snapshot"
  BY <1>2, <1>5, <1>6, <1>9 DEF old
<1> QED
  BY <1>0, <1>7, <1>8, <1>9, NobodyMoves

LEMMA SessionBegins == SessionInit => SessionIInv
<1> SUFFICES ASSUME SessionInit PROVE SessionIInv
  OBVIOUS
<1>1. Asking \in Player /\ Asking.at = "asking"
  BY SessionSizes DEF Asking, Player
<1>2. Sockets
  BY <1>1, BoxEmpty, SessionSizes DEF SessionInit, Sockets
<1>3. Seatings
  BY OffIsEmpty DEF SessionInit, Seatings
<1>4. ASSUME NEW b \in Bots PROVE InTouch(b)
  BY <1>1, BoxEmpty DEF SessionInit, InTouch, Contains
<1> QED
  BY <1>2, <1>3, <1>4 DEF SessionIInv

LEMMA SessionGoesOn == ASSUME Patient PROVE SessionIInv /\ [SessionNext]_sessionVars => SessionIInv'
<1> SUFFICES ASSUME SessionIInv, [SessionNext]_sessionVars PROVE SessionIInv'
  OBVIOUS
<1>1. ASSUME NEW b \in Bots, BotStep(b) PROVE SessionIInv'
  BY <1>1, RequestsComeAndGo, ReadsWhileAsking, ConnectsAgain, ReadsWhileConnecting, GivesUp, Drains,
     AsksFromTheStart DEF BotStep
<1>2. ASSUME NEW b \in Bots, Find(b) \/ Forget(b) \/ Lose(b) \/ LoseReply(b) PROVE SessionIInv'
  BY <1>2, Queues, Forgets, RequestsComeAndGo
<1>3. CASE Match \/ MatchFails
  BY <1>3, Matches, SpawnIsMissed
<1>4. ASSUME NEW p \in PortNumbers, LobbyTimeout(p) \/ Conclude(p) \/ Exit(p) \/ Crash(p) PROVE SessionIInv'
  BY <1>4, ServersMoveOn
<1>5. ASSUME NEW p \in PortNumbers, NEW b \in Bots, Broadcast(p, b) PROVE SessionIInv'
  BY <1>5, Broadcasts
<1>6. CASE UNCHANGED sessionVars
  <2>1. Sockets' /\ Seatings'
    BY <1>6 DEF sessionVars, SessionIInv, Sockets, Seatings
  <2> QED
    BY <1>6, <2>1, NobodyMoves DEF sessionVars
<1> QED
  BY <1>1, <1>2, <1>3, <1>4, <1>5, <1>6 DEF SessionNext

LEMMA SessionIsFree == SessionIInv => SessionInv
<1> SUFFICES ASSUME SessionIInv PROVE SessionInv
  OBVIOUS
<1>0. Sockets /\ Seatings /\ \A b \in Bots : InTouch(b)
  BY DEF SessionIInv
<1>1. SessionTypeOK
  <2>1. \A b \in Bots : /\ bot[b].at \in {"off", "asking", "connecting", "playing", "resting"}
                        /\ bot[b].at = "playing" => bot[b].owner \in 1 .. LobbySize
                        /\ Len(inbox[b]) <= InboxSize
    BY <1>0, AtPlaces DEF InTouch
  <2>2. IsInjective(queue) /\ nextPort \in PortNumbers
    <3>1. DOMAIN queue = 1 .. Len(queue)
      BY <1>0 DEF Sockets
    <3> QED
      BY <1>0, <3>1 DEF Sockets, IsInjective
  <2>3. \A p \in PortNumbers : Len(server[p].seats) <= LobbySize
    BY <1>0 DEF Seatings, Seating
  <2> QED
    BY <2>1, <2>2, <2>3 DEF SessionTypeOK
<1>2. NoPhantom
  BY <1>0 DEF InTouch, NoPhantom
<1>3. PlaysOwnSeat
  BY <1>0 DEF InTouch, SeatIs, PlaysOwnSeat
<1> QED
  BY <1>1, <1>2, <1>3 DEF SessionInv

(* As long as no timeout fires while its answer is under way, bots,           *)
(* matchmaker and servers agree on who waits and who plays which seat, for    *)
(* any number of bots and ports, sockets of any size and any faults           *)
(* (wait_for_match, connect_to_server, enqueue, server_handle_packet).        *)
THEOREM SessionIsConsistent == ASSUME Patient PROVE SessionSpec => []SessionInv
<1>1. SessionIInv /\ [SessionNext]_sessionVars => SessionIInv'
  BY SessionGoesOn
<1>2. SessionSpec => []SessionIInv
  BY <1>1, SessionBegins, PTL DEF SessionSpec
<1> QED
  BY <1>2, SessionIsFree, PTL

-----------------------------------------------------------------------------
(* The line and the ports, whichever timeouts fire when.                   *)

\* The waiting list holds nobody twice, the servers are seated as they should be.
InLine == queue \in Seq(Bots) /\ \A i, j \in 1 .. Len(queue) : queue[i] = queue[j] => i = j
ServingInv == InLine /\ Seatings

PortsMove == \A p \in PortNumbers : [Port(p)!Next]_(Port(p)!vars)

LEMMA SamePickCount == ASSUME NEW p, NEW S PROVE Port(p)!Cardinality(S) = Cardinality(S)
BY DEF Port!Cardinality, Cardinality, Port!IsFiniteSet, IsFiniteSet

LEMMA ServersAlone ==
    ASSUME Seatings, server' = server PROVE Seatings' /\ PortsMove
BY DEF Seatings, PortsMove, Port!vars

\* One port moves, the others stay as they are; there is no port but the numbered ones.
LEMMA PortMoves ==
    ASSUME Seatings, NEW p, NEW t, server' = [server EXCEPT ![p] = t],
           p \in PortNumbers => /\ Seating(t)
                                /\ server'[p] = t => [Port(p)!Next]_(Port(p)!vars)
    PROVE  Seatings' /\ PortsMove
<1>1. CASE p \notin PortNumbers
  <2>1. server' = server
    BY <1>1 DEF Seatings
  <2> QED
    BY <2>1, ServersAlone
<1>2. CASE p \in PortNumbers
  <2>1. server' = [q \in PortNumbers |-> IF q = p THEN t ELSE server[q]]
    BY DEF Seatings
  <2>2. \A q \in PortNumbers : server'[q] = IF q = p THEN t ELSE server[q]
    BY <2>1
  <2>3. Seatings'
    <3>1. server' = [q \in PortNumbers |-> server'[q]]
      BY <2>1
    <3>2. \A q \in PortNumbers : Seating(server'[q])
      BY <1>2, <2>2 DEF Seatings
    <3> QED
      BY <3>1, <3>2 DEF Seatings
  <2>4. ASSUME NEW q \in PortNumbers PROVE [Port(q)!Next]_(Port(q)!vars)
    <3>1. CASE q = p
      BY <1>2, <2>2, <3>1
    <3>2. CASE q # p
      BY <2>2, <3>2 DEF Port!vars
    <3> QED
      BY <3>1, <3>2
  <2> QED
    BY <2>3, <2>4 DEF PortsMove
<1> QED
  BY <1>1, <1>2

\* A server that ends leaves its port vacant.
LEMMA PortCloses ==
    ASSUME Seatings, NEW p \in PortNumbers, server[p].phase # "off",
           server' = [server EXCEPT ![p] = Off]
    PROVE  Seatings' /\ PortsMove
<1>1. /\ Off.phase = "off" /\ Off.seats = <<>> /\ Off.picks = {}
      /\ Seating(Off)
  BY OffIsEmpty DEF Off
<1>2. ASSUME server'[p] = Off PROVE Port(p)!Close
  BY <1>1, <1>2 DEF Port!Close, Port!Vacant
<1> QED
  BY <1>1, <1>2, PortMoves DEF Port!Next

\* A CONNECT seats a newcomer at the port it reaches, or nobody.
LEMMA ConnectMoves ==
    ASSUME Seatings, NEW b \in Bots, NEW p, NEW box, Connect(b, p, box)
    PROVE  Seatings' /\ PortsMove
<1> DEFINE s == server[p]
           t == Seated(s, b)
           n == Len(s.seats)
           seats == Append(s.seats, b)
           phase == IF Len(seats) = LobbySize THEN "draft" ELSE s.phase
<1>1. CASE ~Newcomer(s, b)
  BY <1>1, ServersAlone DEF Connect
<1>2. CASE Newcomer(s, b)
  <2>1. server' = [server EXCEPT ![p] = t]
    BY <1>2 DEF Connect
  <2>2. ASSUME p \in PortNumbers PROVE Seating(t) /\ (server'[p] = t => Port(p)!Seat(b))
    <3>1. Seating(s) /\ s \in MatchServer /\ s.seats \in Seq(Bots)
      BY <2>2 DEF Seatings, Seating, MatchServer
    <3>2. Seating(t)
      BY <1>2, <3>1, SeatTaken
    <3>3. t = [s EXCEPT !.seats = seats, !.phase = phase]
      BY DEF Seated
    <3>4. s.phase = "waiting" /\ \A i \in DOMAIN s.seats : s.seats[i] # b
      BY <1>2, <3>1 DEF Newcomer, Contains
    <3> HIDE DEF t, seats, phase
    <3>5. t.seats = seats /\ t.phase = phase /\ t.picks = s.picks
      BY <3>1, <3>3 DEF MatchServer
    <3>6. ASSUME server'[p] = t PROVE Port(p)!Seat(b)
      <4>1. ~Port(p)!IsSeated(b)
        BY <3>4 DEF Port!IsSeated
      <4>2. server[p].phase = "waiting" /\ server[p].seats = s.seats
        BY <3>4
      <4>3. server'[p].seats = Append(server[p].seats, b) /\ server'[p].picks = server[p].picks
        BY <3>5, <3>6 DEF seats
      <4>4. server'[p].phase = IF Len(server'[p].seats) = LobbySize THEN "draft" ELSE "waiting"
        BY <3>4, <3>5, <3>6 DEF phase
      <4> QED
        BY <4>1, <4>2, <4>3, <4>4 DEF Port!Seat
    <3> QED
      BY <3>2, <3>6
  <2> HIDE DEF s, t
  <2>3. p \in PortNumbers => Seating(t) /\ (server'[p] = t => [Port(p)!Next]_(Port(p)!vars))
    BY <2>2 DEF Port!Next
  <2> QED
    BY <2>1, <2>3, PortMoves
<1> QED
  BY <1>1, <1>2

\* A pick counts in the draft of its server, and nowhere else.
LEMMA PickMoves ==
    ASSUME Seatings, NEW b \in Bots, NEW p, server' = [server EXCEPT ![p] = Picked(server[p], b)]
    PROVE  Seatings' /\ PortsMove
<1> DEFINE s == server[p]
           t == Picked(s, b)
           picks == s.picks \cup {b}
           phase == IF Cardinality(picks) = LobbySize THEN "live" ELSE s.phase
<1>1. ASSUME p \in PortNumbers
      PROVE  Seating(t) /\ (server'[p] = t => [Port(p)!Next]_(Port(p)!vars))
  <2>1. Seating(s) /\ s \in MatchServer /\ s.seats \in Seq(Bots)
    BY <1>1 DEF Seatings, Seating, MatchServer
  <2>2. Seating(t)
    BY <2>1, PickTakesNoSeat
  <2>3. CASE ~(s.phase = "draft" /\ Contains(s.seats, b))
    <3>1. t = s
      BY <2>3 DEF Picked
    <3> QED
      BY <2>2, <3>1 DEF Port!vars
  <2>4. CASE s.phase = "draft" /\ Contains(s.seats, b)
    <3>1. t = [s EXCEPT !.picks = picks, !.phase = phase]
      BY <2>4 DEF Picked
    <3>2. \E i \in DOMAIN s.seats : s.seats[i] = b
      BY <2>1, <2>4 DEF Contains
    <3> HIDE DEF t, picks, phase
    <3>3. t.seats = s.seats /\ t.phase = phase /\ t.picks = picks
      BY <2>1, <3>1 DEF MatchServer
    <3>4. ASSUME server'[p] = t PROVE Port(p)!Draft(b)
      <4>1. Port(p)!IsSeated(b)
        BY <3>2 DEF Port!IsSeated
      <4>2. server'[p].picks = server[p].picks \cup {b} /\ server'[p].seats = server[p].seats
        BY <3>3, <3>4 DEF picks
      <4>3. server'[p].phase = IF Cardinality(server'[p].picks) = LobbySize THEN "live" ELSE "draft"
        BY <2>4, <3>3, <3>4 DEF phase
      <4>4. Port(p)!Cardinality(server'[p].picks) = Cardinality(server'[p].picks)
        BY SamePickCount
      <4> QED
        BY <2>4, <4>1, <4>2, <4>3, <4>4 DEF Port!Draft
    <3> QED
      BY <2>2, <3>4 DEF Port!Next
  <2> QED
    BY <2>3, <2>4
<1> HIDE DEF t
<1>2. server' = [server EXCEPT ![p] = t]
  BY DEF t
<1> QED
  BY <1>1, <1>2, PortMoves

\* What no FIND_MATCH reaches and no group leaves is as it was.
LEMMA LineAlone ==
    ASSUME InLine, queue' = queue, told' \subseteq told
    PROVE  InLine' /\ [Line!Next]_(Line!vars) /\ Line!NoneOvertaken
BY DEF InLine, Line!Next, Line!Forget, Line!NoneOvertaken, Line!Waiting

LEMMA LineJoined ==
    ASSUME InLine, NEW b \in Bots, Unknown(b), queue' = Append(queue, b), told' = told
    PROVE  InLine' /\ Line!Join(b) /\ Line!NoneOvertaken
<1> DEFINE n == Len(queue)
<1>1. /\ queue \in Seq(Bots) /\ n \in Nat /\ DOMAIN queue = 1 .. n
      /\ \A i, j \in 1 .. n : queue[i] = queue[j] => i = j
      /\ queue' \in Seq(Bots) /\ Len(queue') = n + 1 /\ DOMAIN queue' = 1 .. n + 1
      /\ \A i \in 1 .. n + 1 : queue'[i] = IF i = n + 1 THEN b ELSE queue[i]
      /\ \A i \in 1 .. n : queue[i] # b
      /\ b \notin told
  BY DEF InLine, Unknown, Contains
<1> HIDE DEF n
<1>2. ASSUME NEW i \in 1 .. n + 1, NEW j \in 1 .. n + 1, queue'[i] = queue'[j] PROVE i = j
  <2>1. (i = n + 1 \/ i \in 1 .. n) /\ (j = n + 1 \/ j \in 1 .. n)
    BY <1>1
  <2> QED
    BY <1>1, <1>2, <2>1
<1>3. InLine'
  BY <1>1, <1>2 DEF InLine
<1>4. b \notin Line!Waiting
  BY <1>1 DEF Line!Waiting
<1>5. Line!Join(b)
  BY <1>1, <1>4 DEF Line!Join
<1>6. ASSUME NEW i \in 1 .. n PROVE queue[i] \in Line!Waiting'
  <2>1. i \in 1 .. n + 1 /\ queue'[i] = queue[i]
    BY <1>1
  <2> QED
    BY <1>1, <2>1 DEF Line!Waiting
<1>7. Line!NoneOvertaken
  BY <1>1, <1>6 DEF Line!NoneOvertaken
<1> QED
  BY <1>3, <1>5, <1>7

LEMMA LineServed ==
    ASSUME InLine, Len(queue) >= LobbySize,
           queue' = SubSeq(queue, LobbySize + 1, Len(queue))
    PROVE  InLine' /\ Line!Leave /\ Line!NoneOvertaken /\ Line!FirstOf = ToSet(Group)
<1> DEFINE n == Len(queue)
           k == LobbySize
           first == SubSeq(queue, 1, k)
           rest == SubSeq(queue, k + 1, n)
<1>1. /\ k \in Nat /\ k > 0 /\ n \in Nat /\ n >= k /\ queue \in Seq(Bots) /\ DOMAIN queue = 1 .. n
      /\ \A i \in 1 .. n : queue[i] \in Bots
      /\ \A i, j \in 1 .. n : queue[i] = queue[j] => i = j
  BY SessionSizes DEF InLine
<1>2. queue' = rest /\ rest = SubSeq(queue, k + 1, n)
  OBVIOUS
<1> HIDE DEF k, n, rest
<1>3. /\ queue' \in Seq(Bots) /\ Len(queue') = n - k /\ DOMAIN queue' = 1 .. n - k
      /\ \A i \in 1 .. n - k : queue'[i] = queue[k + i]
  <2>1. k + 1 \in Int /\ n \in Int /\ \A i \in k + 1 .. n : queue[i] \in Bots
    BY <1>1
  <2>2. /\ rest \in Seq(Bots) /\ Len(rest) = IF k + 1 <= n THEN n - (k + 1) + 1 ELSE 0
        /\ \A i \in 1 .. n - (k + 1) + 1 : rest[i] = queue[k + 1 + i - 1]
    BY <1>2, <2>1, SubSeqProperties
  <2>3. n - (k + 1) + 1 = n - k /\ (~(k + 1 <= n) => n - k = 0)
        /\ \A i \in 1 .. n - k : k + 1 + i - 1 = k + i
    BY <1>1
  <2>4. /\ rest \in Seq(Bots) /\ Len(rest) = n - k
        /\ \A i \in 1 .. n - k : rest[i] = queue[k + i]
    BY <2>2, <2>3
  <2>5. DOMAIN rest = 1 .. n - k
    BY <2>4
  <2> QED
    BY <1>2, <2>4, <2>5
<1>4. DOMAIN first = 1 .. k /\ \A i \in 1 .. k : first[i] = queue[i]
  <2>1. \A i \in 1 .. k : queue[i] \in Bots
    BY <1>1
  <2>2. /\ first \in Seq(Bots) /\ Len(first) = IF 1 <= k THEN k - 1 + 1 ELSE 0
        /\ \A i \in 1 .. k - 1 + 1 : first[i] = queue[1 + i - 1]
    BY <1>1, <2>1, SubSeqProperties
  <2>3. k - 1 + 1 = k /\ 1 <= k /\ \A i \in 1 .. k : 1 + i - 1 = i
    BY <1>1
  <2> QED
    BY <2>2, <2>3
<1>5. ASSUME NEW i \in 1 .. n - k, NEW j \in 1 .. n - k, queue'[i] = queue'[j] PROVE i = j
  <2>1. k + i \in 1 .. n /\ k + j \in 1 .. n /\ i \in Int /\ j \in Int
    BY <1>1
  <2>2. queue[k + i] = queue[k + j]
    BY <1>3, <1>5
  <2>3. k + i = k + j
    BY <1>1, <2>1, <2>2
  <2> QED
    BY <1>1, <2>1, <2>3
<1>6. InLine'
  BY <1>3, <1>5 DEF InLine
<1>7. Line!Leave
  BY DEF Line!Leave
<1>8. ASSUME NEW i \in 1 .. n, queue[i] \notin Line!Waiting', NEW j \in 1 .. i
      PROVE  queue[j] \notin Line!Waiting'
  <2>1. i <= k
    <3> SUFFICES ASSUME i > k PROVE FALSE
      BY <1>1
    <3>1. i - k \in 1 .. n - k /\ k + (i - k) = i
      BY <1>1
    <3>2. queue'[i - k] = queue[i]
      BY <1>3, <3>1
    <3> QED
      BY <1>3, <1>8, <3>1, <3>2 DEF Line!Waiting
  <2> SUFFICES ASSUME NEW m \in 1 .. n - k, queue'[m] = queue[j] PROVE FALSE
    BY <1>3 DEF Line!Waiting
  <2>2. k + m \in 1 .. n /\ j \in 1 .. n /\ j # k + m
    BY <1>1, <2>1
  <2>3. queue[k + m] = queue[j]
    BY <1>3
  <2> QED
    BY <1>1, <2>2, <2>3
<1>9. Line!NoneOvertaken
  BY <1>1, <1>8 DEF Line!NoneOvertaken
<1>10. Line!FirstOf = ToSet(Group)
  <2>1. Group = first
    BY DEF Group, k
  <2>2. ToSet(first) = {first[i] : i \in 1 .. k}
    BY <1>4 DEF ToSet
  <2>3. Line!FirstOf = {queue[i] : i \in 1 .. k}
    BY DEF Line!FirstOf, k
  <2> HIDE DEF first
  <2> QED
    BY <1>4, <2>1, <2>2, <2>3
<1> QED
  BY <1>6, <1>7, <1>9, <1>10

\* Line and ports take a step, or are left alone.
Serves == ServingInv' /\ [Line!Next]_(Line!vars) /\ Line!NoneOvertaken /\ PortsMove

LEMMA MatchServes == ASSUME ServingInv, Match PROVE Serves
<1> DEFINE t == [Off EXCEPT !.phase = "waiting", !.expects = ToSet(Group)]
           g == ToSet(Group)
<1>1. /\ InLine /\ Seatings /\ Len(queue) >= LobbySize
      /\ queue' = SubSeq(queue, LobbySize + 1, Len(queue)) /\ told' = told \cup g
      /\ server' = IF server[nextPort].phase = "off" THEN [server EXCEPT ![nextPort] = t] ELSE server
  BY DEF Match, ServingInv
<1>2. InLine' /\ Line!Leave /\ Line!NoneOvertaken /\ Line!FirstOf = g
  BY <1>1, LineServed
<1>3. Line!Call
  BY <1>1, <1>2 DEF Line!Call
<1>4. g \in SUBSET Bots
  <2>1. \A i \in 1 .. LobbySize : queue[i] \in Bots
    BY <1>1, SessionSizes DEF InLine
  <2> QED
    BY <1>2, <2>1 DEF Line!FirstOf
<1>5. t = [phase |-> "waiting", seats |-> <<>>, picks |-> {}, expects |-> g]
  <2>1. t = [Off EXCEPT !.phase = "waiting", !.expects = g]
    OBVIOUS
  <2> HIDE DEF g, t
  <2> QED
    BY <2>1 DEF Off
<1> HIDE DEF g, t
<1>6. /\ t \in MatchServer /\ t.seats = <<>> /\ t.picks = {} /\ t.phase = "waiting"
  BY <1>4, <1>5 DEF MatchServer, LobbyPhase
<1>7. Seating(t)
  BY <1>6, SessionSizes DEF Seating
<1>8. PICK p : p = nextPort
  OBVIOUS
<1>9. Seatings' /\ PortsMove
  <2>1. CASE server[p].phase = "off"
    <3>1. server' = [server EXCEPT ![p] = t]
      BY <1>1, <1>8, <2>1
    <3>2. ASSUME server'[p] = t PROVE Port(p)!Open
      BY <1>6, <2>1, <3>2 DEF Port!Open, Port!Vacant
    <3> QED
      BY <1>1, <1>7, <3>1, <3>2, PortMoves DEF Port!Next
  <2>2. CASE server[p].phase # "off"
    BY <1>1, <1>8, <2>2, ServersAlone
  <2> QED
    BY <2>1, <2>2
<1> QED
  BY <1>2, <1>3, <1>9 DEF Serves, ServingInv, Line!Next

LEMMA MatchFailsServes == ASSUME ServingInv, MatchFails PROVE Serves
<1>1. /\ InLine /\ Seatings /\ Len(queue) >= LobbySize
      /\ queue' = SubSeq(queue, LobbySize + 1, Len(queue)) /\ told' = told /\ server' = server
  BY DEF MatchFails, ServingInv
<1>2. InLine' /\ Line!Leave /\ Line!NoneOvertaken
  BY <1>1, LineServed
<1>3. Line!Drop
  BY <1>1, <1>2 DEF Line!Drop
<1> QED
  BY <1>1, <1>2, <1>3, ServersAlone DEF Serves, ServingInv, Line!Next

LEMMA FindServes == ASSUME ServingInv, NEW b \in Bots, Find(b) PROVE Serves
<1>1. /\ InLine /\ Seatings /\ told' = told /\ server' = server
      /\ queue' = IF Unknown(b) THEN Append(queue, b) ELSE queue
  BY DEF Find, ServingInv
<1>2. CASE Unknown(b)
  BY <1>1, <1>2, LineJoined, ServersAlone DEF Serves, ServingInv, Line!Next
<1>3. CASE ~Unknown(b)
  BY <1>1, <1>3, LineAlone, ServersAlone DEF Serves, ServingInv
<1> QED
  BY <1>2, <1>3

\* What the bots and the network do reaches no queue, and one port at most.
LEMMA OnlyPortsMove ==
    ASSUME ServingInv, queue' = queue, told' \subseteq told, Seatings' /\ PortsMove
    PROVE  Serves
BY LineAlone DEF Serves, ServingInv

LEMMA BotsServe == ASSUME ServingInv, NEW b \in Bots, BotStep(b) PROVE Serves
<1>1. queue' = queue /\ told' = told /\ Seatings
  BY DEF BotStep, AskAgain, ReadWhileAsking, ConnectAgain, ReadWhileConnecting,
         GiveUpConnecting, Drain, GiveUpPlaying, Requeue, ServingInv
<1>2. CASE AskAgain(b) \/ ReadWhileConnecting(b) \/ GiveUpConnecting(b) \/ GiveUpPlaying(b) \/ Requeue(b)
  <2>1. server' = server
    BY <1>2 DEF AskAgain, ReadWhileConnecting, GiveUpConnecting, GiveUpPlaying, Requeue
  <2> QED
    BY <1>1, <2>1, ServersAlone, OnlyPortsMove
<1>3. CASE ReadWhileAsking(b)
  <2>1. \/ server' = server
        \/ Connect(b, Head(inbox[b]).port, Tail(inbox[b]))
    BY <1>3 DEF ReadWhileAsking
  <2> QED
    BY <1>1, <2>1, ServersAlone, ConnectMoves, OnlyPortsMove
<1>4. CASE ConnectAgain(b)
  <2>1. Connect(b, bot[b].port, inbox[b])
    BY <1>4 DEF ConnectAgain
  <2> QED
    BY <1>1, <2>1, ConnectMoves, OnlyPortsMove
<1>5. CASE Drain(b)
  <2> DEFINE p == bot[b].port
  <2>1. \/ server' = server
        \/ server' = [server EXCEPT ![p] = Picked(server[p], b)]
    BY <1>5 DEF Drain
  <2> HIDE DEF p
  <2> QED
    BY <1>1, <2>1, ServersAlone, PickMoves, OnlyPortsMove
<1> QED
  BY <1>2, <1>3, <1>4, <1>5 DEF BotStep

LEMMA PortsEnd ==
    ASSUME ServingInv, NEW p \in PortNumbers,
           LobbyTimeout(p) \/ Conclude(p) \/ Exit(p) \/ Crash(p)
    PROVE  Serves
<1>1. queue' = queue /\ told' = told /\ Seatings
  BY DEF LobbyTimeout, Conclude, Exit, Crash, ServingInv
<1>2. CASE LobbyTimeout(p) \/ Exit(p) \/ Crash(p)
  <2>1. server' = [server EXCEPT ![p] = Off] /\ server[p].phase # "off"
    BY <1>2 DEF LobbyTimeout, InLobby, Exit, Crash
  <2> QED
    BY <1>1, <2>1, PortCloses, OnlyPortsMove
<1>3. CASE Conclude(p)
  <2> DEFINE s == server[p]
             t == [s EXCEPT !.phase = "over"]
  <2>1. server' = [server EXCEPT ![p] = t] /\ s.phase = "live"
    BY <1>1, <1>3 DEF Conclude, Seatings
  <2>2. s \in MatchServer /\ Seating(s)
    BY <1>1 DEF Seating, Seatings
  <2> HIDE DEF s
  <2>3. t \in MatchServer
    BY <2>2 DEF MatchServer, LobbyPhase
  <2>4. t.seats = s.seats /\ t.picks = s.picks /\ t.phase = "over"
    BY <2>2 DEF MatchServer
  <2> HIDE DEF t
  <2>5. Seating(t)
    BY <2>2, <2>3, <2>4 DEF Seating
  <2>6. server'[p] = t => Port(p)!Decide
    BY <2>1, <2>4 DEF Port!Decide, s
  <2> QED
    BY <1>1, <2>1, <2>5, <2>6, PortMoves, OnlyPortsMove DEF Port!Next
<1> QED
  BY <1>2, <1>3

LEMMA SessionServesOn == ServingInv /\ [SessionNext]_sessionVars => Serves
<1> SUFFICES ASSUME ServingInv, [SessionNext]_sessionVars PROVE Serves
  OBVIOUS
<1>1. ASSUME NEW b \in Bots, Forget(b) \/ Lose(b) \/ LoseReply(b) PROVE Serves
  <2>1. queue' = queue /\ told' \subseteq told /\ server' = server /\ Seatings
    BY <1>1 DEF Forget, Lose, LoseReply, ServingInv
  <2> QED
    BY <2>1, ServersAlone, OnlyPortsMove
<1>2. ASSUME NEW p \in PortNumbers, NEW b \in Bots, Broadcast(p, b) PROVE Serves
  <2>1. queue' = queue /\ told' = told /\ server' = server /\ Seatings
    BY <1>2 DEF Broadcast, ServingInv
  <2> QED
    BY <2>1, ServersAlone, OnlyPortsMove
<1>3. CASE UNCHANGED sessionVars
  <2>1. queue' = queue /\ told' = told /\ server' = server /\ Seatings
    BY <1>3 DEF sessionVars, ServingInv
  <2> QED
    BY <2>1, ServersAlone, OnlyPortsMove
<1> QED
  BY <1>1, <1>2, <1>3, BotsServe, FindServes, MatchServes, MatchFailsServes, PortsEnd DEF SessionNext

LEMMA SessionOpens == SessionInit => ServingInv /\ Line!Init /\ \A p \in PortNumbers : Port(p)!Init
<1> SUFFICES ASSUME SessionInit
             PROVE  ServingInv /\ Line!Init /\ \A p \in PortNumbers : Port(p)!Init
  OBVIOUS
<1>1. Seatings /\ InLine /\ Line!Init
  BY OffIsEmpty DEF SessionInit, Seatings, InLine, Line!Init
<1>2. Off.phase = "off" /\ Off.seats = <<>> /\ Off.picks = {}
  BY DEF Off
<1>3. ASSUME NEW p \in PortNumbers PROVE Port(p)!Init
  BY <1>2 DEF SessionInit, Port!Init, Port!Vacant
<1> QED
  BY <1>1, <1>3 DEF ServingInv

(* Whatever is lost, fails or crashes and whichever timeout fires when, the   *)
(* matchmaker serves its line in turn and summons nobody whom it remembers,   *)
(* and each game port is to the bots one orderly match server after another   *)
(* (enqueue, try_match, server_handle_packet).                                *)
THEOREM SessionServesBots == SessionSpec => SessionServes
<1>1. ServingInv /\ [SessionNext]_sessionVars
         => /\ ServingInv' /\ [Line!Next]_(Line!vars) /\ Line!NoneOvertaken
            /\ \A p \in PortNumbers : [Port(p)!Next]_(Port(p)!vars)
  BY SessionServesOn DEF Serves, PortsMove
<1> QED
  BY <1>1, SessionOpens, PTL DEF SessionSpec, SessionServes, PortsServe, Line!Spec, Line!InTurn

===============================================================================
