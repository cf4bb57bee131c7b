------------------------- MODULE ArenaServerProofs --------------------------
(***************************************************************************)
(* Theorems about the match server, for any lobby size, roster and timing. *)
(***************************************************************************)
EXTENDS ArenaServer, SequenceTheorems, FiniteSetTheorems, TLAPS

USE DEF Running, Slot, Nobody, Filled, Drafting, PicksWith, InLobby, Waited, WinnerIsNews

\* What holds of the timers and of the history: the loop stops at its limits, and
\* everything about the end of the match happens in the tick that decides it.
TimersAgree ==
    /\ Running => waiting_ticks <= WaitTicks /\ shutdown_ticks <= FinalTicks
    /\ last_winner_logged = 1 <=> winner # 0
    /\ winner = 0 => /\ match_elapsed < MatchTicks
                     /\ shutdown_ticks = -1
                     /\ final_broadcasts = 0
                     /\ exit_cause # "over"
                     /\ \A i \in Slot : result[i] = "none" /\ credit[i] = 0
    /\ winner # 0 => /\ match_phase = "LIVE"
                     /\ final_broadcasts = shutdown_ticks
    /\ exit_cause = "over" => final_broadcasts > FinalTicks
    /\ exit_cause = "timeout" => match_phase # "LIVE" /\ waiting_ticks > WaitTicks

IInv == TypeOK /\ CountsAgree /\ PhaseFollowsCounts /\ TimersAgree /\ ReportedFaithfully

LEMMA SlotsFinite ==
    /\ IsFiniteSet(Slot)
    /\ \A S \in SUBSET Slot : IsFiniteSet(S) /\ Cardinality(S) \in Nat
<1>1. LobbySize - 1 \in Int /\ 0 \in Int
  BY SizeAssumption
<1>2. IsFiniteSet(Slot)
  BY <1>1, FS_Interval
<1>3. ASSUME NEW S \in SUBSET Slot PROVE IsFiniteSet(S) /\ Cardinality(S) \in Nat
  BY <1>2, FS_Subset, FS_CardinalityType
<1> QED
  BY <1>2, <1>3

LEMMA InitIInv == Init => IInv
<1> SUFFICES ASSUME Init PROVE IInv
  OBVIOUS
<1> USE SizeAssumption, TickAssumption, RosterAssumption
<1>1. TypeOK
  BY DEF Init, TypeOK
<1>2. Seated = {} /\ Picked = {} /\ Cardinality({}) = 0
  BY FS_EmptySet DEF Init, Seated, Picked
<1>3. CountsAgree
  BY <1>2 DEF Init, CountsAgree
<1>4. PhaseFollowsCounts
  BY DEF Init, PhaseFollowsCounts
<1>5. TimersAgree
  BY DEF Init, TimersAgree
<1>6. ReportedFaithfully
  BY DEF Init, ReportedFaithfully
<1> QED
  BY <1>1, <1>3, <1>4, <1>5, <1>6 DEF IInv

LEMMA ConnectIInv ==
    ASSUME IInv, NEW a \in Addr, Connect(a) PROVE IInv'
<1> USE SizeAssumption DEF IInv
<1>1. PICK i \in Slot : FirstFree(i) /\ clients' = [clients EXCEPT ![i] = a]
  BY DEF Connect
<1>2. /\ client_count < LobbySize /\ client_count' = client_count + 1
      /\ match_phase' = IF client_count' = LobbySize THEN "DRAFT" ELSE "WAITING"
      /\ match_phase = "WAITING" /\ exit_cause = "none"
      /\ UNCHANGED <<hero_picked, hero_pick, picked_count, timers, outcome, exit_cause>>
  BY DEF Connect, PhaseFollowsCounts
<1>3. TypeOK'
  <2>1. hero_id' \in [Slot -> Hero]
    BY RosterAssumption DEF Connect, Placeholder, OneOnOne, TypeOK
  <2>2. clients' \in [Slot -> Addr \union {Nobody}]
    BY <1>1 DEF TypeOK
  <2> QED
    BY <2>1, <2>2, <1>2, TickAssumption DEF TypeOK, timers, outcome
<1>4. CountsAgree'
  <2>1. Seated' = Seated \union {i} /\ i \notin Seated
    BY <1>1, AddrAssumption DEF Seated, FirstFree, TypeOK
  <2>2. Cardinality(Seated') = client_count + 1
    <3>1. IsFiniteSet(Seated)
      BY SlotsFinite DEF Seated
    <3> QED
      BY <3>1, <2>1, FS_AddElement DEF CountsAgree
  <2>3. Picked' = Picked
    BY <1>2 DEF Picked
  <2>4. \A j, k \in Seated' : clients'[j] = clients'[k] => j = k
    BY <1>1, <2>1 DEF Connect, Known, CountsAgree, Seated, TypeOK
  <2> QED
    BY <1>2, <2>2, <2>3, <2>4 DEF CountsAgree
<1>5. PhaseFollowsCounts'
  BY <1>2 DEF PhaseFollowsCounts, TypeOK
<1>6. TimersAgree'
  BY <1>2 DEF TimersAgree, timers, outcome, TypeOK
<1>7. ReportedFaithfully'
  BY <1>2 DEF ReportedFaithfully, outcome, Won, Team, OneOnOne
<1> QED
  BY <1>3, <1>4, <1>5, <1>6, <1>7

LEMMA PickIInv ==
    ASSUME IInv, NEW i \in Slot, NEW h \in Hero, Pick(i, h) PROVE IInv'
<1> USE SizeAssumption DEF IInv
<1>1. /\ hero_picked' = [hero_picked EXCEPT ![i] = 1]
      /\ hero_pick' = [hero_pick EXCEPT ![i] = h]
      /\ picked_count' = IF hero_picked[i] = 1 THEN picked_count ELSE picked_count + 1
      /\ match_phase = "DRAFT" /\ exit_cause = "none"
      /\ match_phase' = IF picked_count' = LobbySize THEN "LIVE" ELSE "DRAFT"
      /\ UNCHANGED <<clients, client_count, timers, outcome, exit_cause>>
  BY DEF Pick
<1>2. picked_count < LobbySize
  BY <1>1 DEF PhaseFollowsCounts, TypeOK
<1>3. TypeOK'
  <2>1. hero_pick' \in [Slot -> Hero] /\ hero_picked' \in [Slot -> {0, 1}]
    BY <1>1 DEF TypeOK
  <2>2. hero_id' \in [Slot -> Hero]
    BY <2>1 DEF Pick, StartingHeroes, TypeOK
  <2>3. /\ picked_count' \in 0 .. LobbySize
        /\ match_phase' \in {"WAITING", "DRAFT", "LIVE"}
    BY <1>1, <1>2 DEF TypeOK
  <2> QED
    BY <1>1, <2>1, <2>2, <2>3 DEF TypeOK, timers, outcome
<1>4. CountsAgree'
  <2>1. Picked' = Picked \union {i}
    BY <1>1 DEF Picked, TypeOK
  <2>2. IsFiniteSet(Picked) /\ (i \in Picked <=> hero_picked[i] = 1)
    BY SlotsFinite DEF Picked
  <2>3. Cardinality(Picked') = IF hero_picked[i] = 1 THEN Cardinality(Picked)
                               ELSE Cardinality(Picked) + 1
    <3>1. Cardinality(Picked \union {i}) = IF i \in Picked THEN Cardinality(Picked)
                                           ELSE Cardinality(Picked) + 1
      BY <2>2, FS_AddElement
    <3> QED
      BY <3>1, <2>1, <2>2
  <2>4. Seated' = Seated
    BY <1>1 DEF Seated
  <2> QED
    BY <1>1, <2>3, <2>4 DEF CountsAgree
<1>5. PhaseFollowsCounts'
  BY <1>1, <1>2 DEF PhaseFollowsCounts, TypeOK
<1>6. TimersAgree'
  BY <1>1 DEF TimersAgree, timers, outcome, TypeOK
<1>7. ReportedFaithfully'
  BY <1>1 DEF ReportedFaithfully, outcome, Won, Team, OneOnOne
<1> QED
  BY <1>3, <1>4, <1>5, <1>6, <1>7

LEMMA SameLobby ==
    ASSUME CountsAgree, PhaseFollowsCounts, UNCHANGED lobby
    PROVE  CountsAgree' /\ PhaseFollowsCounts'
BY DEF lobby, CountsAgree, PhaseFollowsCounts, Seated, Picked

LEMMA LobbyTickIInv == ASSUME IInv, Running, LobbyTick PROVE IInv'
<1> USE TickAssumption DEF IInv
<1>1. /\ UNCHANGED lobby /\ UNCHANGED <<match_elapsed, winner, last_winner_logged, result, credit>>
      /\ waiting_ticks' = waiting_ticks + 1
      /\ exit_cause' = IF waiting_ticks' > WaitTicks THEN "timeout" ELSE exit_cause
      /\ match_phase # "LIVE"
  BY DEF LobbyTick
<1>2. winner = 0 /\ final_broadcasts' = final_broadcasts /\ shutdown_ticks' = shutdown_ticks
  BY <1>1 DEF TimersAgree, LobbyTick, Broadcast
<1>3. CountsAgree' /\ PhaseFollowsCounts'
  BY <1>1, SameLobby
<1>4. TypeOK'
  BY <1>1, <1>2 DEF TypeOK, TimersAgree, lobby
<1>5. TimersAgree'
  BY <1>1, <1>2 DEF TypeOK, TimersAgree, lobby
<1>6. ReportedFaithfully'
  BY <1>1 DEF ReportedFaithfully, Won, Team, OneOnOne
<1> QED
  BY <1>3, <1>4, <1>5, <1>6

LEMMA LiveTickIInv == ASSUME IInv, Running, LiveTick PROVE IInv'
<1> USE TickAssumption DEF IInv
<1>1. /\ UNCHANGED lobby /\ UNCHANGED waiting_ticks
      /\ match_phase = "LIVE"
      /\ exit_cause' = IF shutdown_ticks' > FinalTicks THEN "over" ELSE exit_cause
  BY DEF LiveTick
<1>2. CountsAgree' /\ PhaseFollowsCounts'
  BY <1>1, SameLobby
<1>3. CASE winner' # 0 /\ last_winner_logged = 0
  <2>1. /\ ReportMatchResult(winner') /\ last_winner_logged' = 1 /\ winner = 0
        /\ final_broadcasts' = final_broadcasts + 1 /\ shutdown_ticks' = 1
    BY <1>3 DEF LiveTick, Broadcast, TimersAgree
  <2>2. winner' \in 0 .. 2 /\ match_elapsed' \in 0 .. MatchTicks
    BY <2>1 DEF LiveTick, Simulate, TypeOK, TimersAgree
  <2>3. PICK posted \in SUBSET Seated, credited \in SUBSET Seated :
          /\ result' = [i \in Slot |-> IF i \in posted
                                       THEN IF Won(i, winner') THEN "win" ELSE "loss"
                                       ELSE result[i]]
          /\ credit' = [i \in Slot |-> IF i \in credited
                                       THEN credit[i] + IF Won(i, winner') THEN 100 ELSE 25
                                       ELSE credit[i]]
    BY <2>1 DEF ReportMatchResult
  <2>4. \A i \in Slot : result[i] = "none" /\ credit[i] = 0
    BY <2>1 DEF TimersAgree
  <2>5. \A i \in Slot :
          /\ result'[i] \in {"none", IF Won(i, winner') THEN "win" ELSE "loss"}
          /\ credit'[i] \in {0, IF Won(i, winner') THEN 100 ELSE 25}
    BY <2>3, <2>4
  <2>6. ReportedFaithfully'
    BY <2>5, <1>3 DEF ReportedFaithfully, Won, Team, OneOnOne
  <2>7. TypeOK'
    <3>1. result' \in [Slot -> {"none", "win", "loss"}] /\ credit' \in [Slot -> {0, 25, 100}]
      BY <2>3, <2>5
    <3> QED
      BY <3>1, <2>1, <2>2, <1>1 DEF TypeOK, TimersAgree, lobby
  <2>8. TimersAgree'
    BY <2>1, <1>1, <1>3 DEF TimersAgree, TypeOK, lobby
  <2> QED
    BY <2>6, <2>7, <2>8, <1>2
<1>4. CASE ~(winner' # 0 /\ last_winner_logged = 0)
  <2>1. /\ UNCHANGED <<result, credit, last_winner_logged>>
        /\ final_broadcasts' = IF winner' # 0 THEN final_broadcasts + 1 ELSE final_broadcasts
        /\ shutdown_ticks' = IF shutdown_ticks >= 0 THEN shutdown_ticks + 1 ELSE shutdown_ticks
    BY <1>4 DEF LiveTick, Broadcast
  <2>2. winner' = winner
    BY <1>4 DEF LiveTick, Simulate, TimersAgree, TypeOK
  <2>3. /\ match_elapsed' \in 0 .. MatchTicks
        /\ winner = 0 => match_elapsed' < MatchTicks
    BY <2>2 DEF LiveTick, Simulate, TypeOK, TimersAgree
  <2>4. winner # 0 => final_broadcasts = shutdown_ticks
    BY DEF TimersAgree
  <2>5. TypeOK'
    BY <2>1, <2>2, <2>3, <2>4, <1>1 DEF TypeOK, TimersAgree, lobby
  <2>6. TimersAgree'
    BY <2>1, <2>2, <2>3, <2>4, <1>1 DEF TypeOK, TimersAgree, lobby
  <2>7. ReportedFaithfully'
    BY <2>1, <2>2 DEF ReportedFaithfully, Won, Team, OneOnOne
  <2> QED
    BY <2>5, <2>6, <2>7, <1>2
<1> QED
  BY <1>3, <1>4

LEMMA CrashIInv == ASSUME IInv, Crash PROVE IInv'
<1> USE DEF IInv
<1>1. UNCHANGED <<lobby, timers, outcome>> /\ exit_cause' = "crash"
      /\ exit_cause = "none"
  BY DEF Crash
<1>2. CountsAgree' /\ PhaseFollowsCounts'
  BY <1>1, SameLobby
<1>3. TypeOK' /\ TimersAgree' /\ ReportedFaithfully'
  BY <1>1 DEF TypeOK, TimersAgree, ReportedFaithfully, lobby, timers, outcome,
              Won, Team, OneOnOne
<1> QED
  BY <1>2, <1>3

LEMMA StutterIInv == ASSUME IInv, UNCHANGED vars PROVE IInv'
<1>1. CountsAgree' /\ PhaseFollowsCounts'
  BY SameLobby DEF IInv, vars
<1>2. TypeOK' /\ TimersAgree' /\ ReportedFaithfully'
  BY DEF IInv, TypeOK, TimersAgree, ReportedFaithfully, vars, lobby, timers, outcome,
         Won, Team, OneOnOne
<1> QED
  BY <1>1, <1>2 DEF IInv

LEMMA NextIInv == IInv /\ [Next]_vars => IInv'
<1> SUFFICES ASSUME IInv, [Next]_vars PROVE IInv'
  OBVIOUS
<1>1. ASSUME NEW a \in Addr, Connect(a) PROVE IInv'
  BY <1>1, ConnectIInv
<1>2. ASSUME NEW i \in Slot, NEW h \in Hero, Pick(i, h) PROVE IInv'
  BY <1>2, PickIInv
<1>3. CASE LoopBody
  BY <1>3, LiveTickIInv, LobbyTickIInv DEF LoopBody
<1>4. CASE Crash
  BY <1>4, CrashIInv
<1>5. CASE UNCHANGED vars
  BY <1>5, StutterIInv
<1> QED
  BY <1>1, <1>2, <1>3, <1>4, <1>5 DEF Next

\* Counters and phase agree with the seats and the picks in every state of every lobby.
THEOREM CountsAlwaysAgree == Spec => [](TypeOK /\ CountsAgree /\ PhaseFollowsCounts)
<1>1. IInv => TypeOK /\ CountsAgree /\ PhaseFollowsCounts
  BY DEF IInv
<1> QED
  BY <1>1, InitIInv, NextIInv, PTL DEF Spec

\* Whatever requests fail, no result or reward contradicts the winner or comes twice.
THEOREM ReportsAreFaithful == Spec => []ReportedFaithfully
<1>1. IInv => ReportedFaithfully
  BY DEF IInv
<1> QED
  BY <1>1, InitIInv, NextIInv, PTL DEF Spec

\* A server leaves in order, or never had a match, or crashed.
THEOREM ExitIsOrderly == Spec => []OrderlyExit
<1>1. IInv => OrderlyExit
  BY DEF IInv, TimersAgree, OrderlyExit, TypeOK
<1> QED
  BY <1>1, InitIInv, NextIInv, PTL DEF Spec

-----------------------------------------------------------------------------
(* The heroes of the match.                                                *)

\* HeroesAsPicked with what makes it inductive: nobody has picked before the draft.
HeroesKept ==
    /\ HeroesAsPicked
    /\ match_phase = "WAITING" => \A i \in Slot : hero_picked[i] = 0

LEMMA PickHeroes ==
    ASSUME TypeOK, HeroesKept, NEW i \in Slot, NEW h \in Hero, Pick(i, h) PROVE HeroesKept'
<1>1. /\ hero_picked' = [hero_picked EXCEPT ![i] = 1]
      /\ hero_pick' = [hero_pick EXCEPT ![i] = h]
      /\ match_phase' # "WAITING" /\ match_phase # "WAITING"
  BY DEF Pick
<1>2. \A j \in Slot : hero_picked'[j] = 1 => hero_id'[j] = hero_pick'[j]
  <2>1. CASE hero_id' = [hero_id EXCEPT ![i] = h]
    BY <2>1, <1>1 DEF HeroesKept, HeroesAsPicked, Picked, TypeOK
  <2>2. CASE hero_id' = [hero_pick EXCEPT ![i] = h]
    BY <2>2, <1>1
  <2> QED
    BY <2>1, <2>2 DEF Pick, StartingHeroes
<1> QED
  BY <1>1, <1>2 DEF HeroesKept, HeroesAsPicked, Picked

LEMMA NextHeroes == TypeOK /\ HeroesKept /\ [Next]_vars => HeroesKept'
<1> SUFFICES ASSUME TypeOK, HeroesKept, [Next]_vars PROVE HeroesKept'
  OBVIOUS
<1>1. ASSUME NEW a \in Addr, Connect(a) PROVE HeroesKept'
  BY <1>1 DEF Connect, HeroesKept, HeroesAsPicked, Picked
<1>2. ASSUME NEW i \in Slot, NEW h \in Hero, Pick(i, h) PROVE HeroesKept'
  BY <1>2, PickHeroes
<1>3. ASSUME UNCHANGED lobby PROVE HeroesKept'
  BY <1>3 DEF lobby, HeroesKept, HeroesAsPicked, Picked
<1>4. LoopBody \/ Crash \/ UNCHANGED vars => UNCHANGED lobby
  BY DEF LoopBody, LiveTick, LobbyTick, Crash, vars
<1> QED
  BY <1>1, <1>2, <1>3, <1>4 DEF Next

\* In every lobby the phase is the one its counters call for and the match is played
\* with the heroes last picked.
THEOREM LobbyIsSound == Spec => []LobbyInv
<1>1. Init => HeroesKept
  BY DEF Init, HeroesKept, HeroesAsPicked
<1>2. IInv /\ HeroesKept => LobbyInv /\ TypeOK
  BY DEF IInv, HeroesKept, LobbyInv
<1>3. IInv /\ HeroesKept /\ [Next]_vars => HeroesKept'
  BY <1>2, NextHeroes
<1> QED
  BY <1>1, <1>2, <1>3, InitIInv, NextIInv, PTL DEF Spec

-----------------------------------------------------------------------------
(* The server implements MatchLifecycle: every step of it is one of the    *)
(* life of a match, or changes nothing the others can see.                 *)

LEMMA SameCardinality == \A S : Lifecycle!Cardinality(S) = Cardinality(S)
BY DEF Lifecycle!Cardinality, Cardinality, Lifecycle!IsFiniteSet, IsFiniteSet

LEMMA InitLifecycle == Init => Lifecycle!Init
<1> SUFFICES ASSUME Init PROVE Lifecycle!Init
  OBVIOUS
<1>1. Seated = {} /\ winner = 0 /\ match_phase = "WAITING" /\ Running
  BY DEF Init, Seated
<1>2. StageOf["WAITING"] = "gathering"
  BY DEF StageOf
<1> QED
  BY <1>1, <1>2 DEF Lifecycle!Init

\* No address has two seats, so there are as many members as seats taken.
LEMMA MembersAreSeats ==
    ASSUME NEW S \in SUBSET Slot, NEW c, \A i, j \in S : c[i] = c[j] => i = j
    PROVE  Cardinality({c[i] : i \in S}) = Cardinality(S)
<1> DEFINE M == {c[i] : i \in S}
           f == [i \in S |-> c[i]]
<1>1. f \in [S -> M] /\ \A i \in S : f[i] = c[i]
  OBVIOUS
<1>2. \A t \in M : \E i \in S : f[i] = t
  BY <1>1
<1> HIDE DEF f
<1>3. f \in Surjection(S, M)
  BY <1>1, <1>2 DEF Surjection
<1>4. f \in Injection(S, M)
  BY <1>1 DEF Injection, IsInjective
<1>5. IsFiniteSet(S)
  BY SlotsFinite
<1> HIDE DEF M
<1>6. Cardinality(M) = Cardinality(S)
  BY <1>3, <1>4, <1>5, FS_Surjection
<1> QED
  BY <1>6 DEF M

LEMMA ConnectJoins ==
    ASSUME IInv, NEW a \in Addr, Connect(a) PROVE Lifecycle!Join(a)
<1>1. PICK i \in Slot : FirstFree(i) /\ clients' = [clients EXCEPT ![i] = a]
  BY DEF Connect
<1>2. Seated' = Seated \union {i} /\ i \notin Seated
  BY <1>1, AddrAssumption DEF Seated, FirstFree, IInv, TypeOK
<1>3. {clients'[j] : j \in Seated'} = {clients[j] : j \in Seated} \union {a}
  BY <1>1, <1>2 DEF Seated, IInv, TypeOK
<1>4. a \notin {clients[j] : j \in Seated}
  BY DEF Connect, Known, Seated
<1>5. CountsAgree'
  BY ConnectIInv DEF IInv
<1>6. Cardinality({clients'[j] : j \in Seated'}) = client_count'
  <2>1. Seated' \in SUBSET Slot /\ client_count' = Cardinality(Seated')
    BY <1>5 DEF Seated, CountsAgree
  <2>2. \A j, k \in Seated' : clients'[j] = clients'[k] => j = k
    BY <1>5 DEF CountsAgree
  <2> QED
    BY <2>1, <2>2, MembersAreSeats
<1>7. winner = 0 /\ UNCHANGED <<winner, result, exit_cause>> /\ exit_cause = "none"
  BY DEF Connect, IInv, TimersAgree, outcome
<1>8. \A j \in Slot : result[j] = "none" /\ result'[j] = "none"
  BY <1>7 DEF IInv, TimersAgree
<1>9. /\ match_phase = "WAITING"
      /\ match_phase' = IF client_count' = LobbySize THEN "DRAFT" ELSE "WAITING"
  BY DEF Connect
<1>10. /\ StageOf[match_phase] = "gathering"
       /\ StageOf[match_phase'] = IF client_count' = LobbySize THEN "drafting" ELSE "gathering"
  BY <1>9 DEF StageOf
<1>11. UNCHANGED {clients[j] : j \in {k \in Seated : result[k] # "none"}}
  BY <1>8 DEF Seated
<1> QED
  BY <1>3, <1>4, <1>6, <1>7, <1>10, <1>11, SameCardinality DEF Lifecycle!Join

LEMMA PickStarts ==
    ASSUME IInv, NEW i \in Slot, NEW h \in Hero, Pick(i, h)
    PROVE  Lifecycle!Start \/ UNCHANGED Lifecycle!vars
<1>1. /\ match_phase = "DRAFT" /\ match_phase' \in {"DRAFT", "LIVE"}
      /\ UNCHANGED <<clients, winner, result, exit_cause>> /\ exit_cause = "none"
      /\ winner = 0
  BY DEF Pick, outcome, IInv, TimersAgree
<1>2. UNCHANGED <<Seated, {clients[j] : j \in {k \in Seated : result[k] # "none"}}>>
  BY <1>1 DEF Seated
<1>3. StageOf["DRAFT"] = "drafting" /\ StageOf["LIVE"] = "live"
  BY DEF StageOf
<1> QED
  BY <1>1, <1>2, <1>3 DEF Lifecycle!Start, Lifecycle!vars, Seated

LEMMA LiveTickDecides ==
    ASSUME IInv, Running, LiveTick
    PROVE  Lifecycle!Decide \/ Lifecycle!Close \/ UNCHANGED Lifecycle!vars
<1>1. /\ match_phase = "LIVE" /\ match_phase' = "LIVE" /\ UNCHANGED clients
      /\ StageOf[match_phase] = "live" /\ StageOf[match_phase'] = "live"
  BY DEF LiveTick, lobby, StageOf
<1>2. UNCHANGED Seated
  BY <1>1 DEF Seated
<1>3. CASE winner' # 0 /\ last_winner_logged = 0
  <2>1. winner = 0 /\ shutdown_ticks' = 1
    BY <1>3 DEF LiveTick, Broadcast, IInv, TimersAgree
  <2>2. winner' \in {1, 2}
    BY <2>1, <1>3 DEF LiveTick, Simulate
  <2>3. exit_cause' = "none"
    BY <2>1, TickAssumption DEF LiveTick
  <2>4. {clients'[j] : j \in {k \in Seated : result'[k] # "none"}}
            \in SUBSET {clients[j] : j \in Seated}
    BY <1>1
  <2> QED
    BY <1>1, <1>2, <2>1, <2>2, <2>3, <2>4 DEF Lifecycle!Decide, Seated
<1>4. CASE ~(winner' # 0 /\ last_winner_logged = 0)
  <2>1. UNCHANGED <<winner, result>>
    BY <1>4 DEF LiveTick, Simulate, IInv, TimersAgree, TypeOK
  <2>2. UNCHANGED {clients[j] : j \in {k \in Seated : result[k] # "none"}}
    BY <2>1, <1>1, <1>2
  <2>3. exit_cause' \in {"none", "over"}
    BY DEF LiveTick
  <2> QED
    BY <1>1, <1>2, <2>1, <2>2, <2>3 DEF Lifecycle!Close, Lifecycle!vars, Seated
<1> QED
  BY <1>3, <1>4

\* A step that only ends the process closes the match.
LEMMA ExitCloses ==
    ASSUME Running, UNCHANGED <<match_phase, clients, winner, result>>
    PROVE  Lifecycle!Close \/ UNCHANGED Lifecycle!vars
BY DEF Lifecycle!Close, Lifecycle!vars, Seated, StageOf

LEMMA NextLifecycle ==
    IInv /\ [Next]_vars => [Lifecycle!Next]_(Lifecycle!vars)
<1> SUFFICES ASSUME IInv, [Next]_vars
             PROVE  Lifecycle!Next \/ UNCHANGED Lifecycle!vars
  OBVIOUS
<1>1. ASSUME NEW a \in Addr, Connect(a) PROVE Lifecycle!Next
  BY <1>1, ConnectJoins DEF Lifecycle!Next
<1>2. ASSUME NEW i \in Slot, NEW h \in Hero, Pick(i, h)
      PROVE  Lifecycle!Next \/ UNCHANGED Lifecycle!vars
  BY <1>2, PickStarts DEF Lifecycle!Next
<1>3. CASE LoopBody /\ LiveTick
  BY <1>3, LiveTickDecides DEF LoopBody, Lifecycle!Next
<1>4. CASE (LoopBody /\ LobbyTick) \/ Crash
  <2>1. Running /\ UNCHANGED <<match_phase, clients, winner, result>>
    BY <1>4 DEF LoopBody, LobbyTick, Crash, lobby, outcome
  <2> QED
    BY <2>1, ExitCloses DEF Lifecycle!Next
<1>5. CASE UNCHANGED vars
  <2>1. UNCHANGED <<exit_cause, match_phase, clients, winner, result>>
    BY <1>5 DEF vars, lobby, outcome
  <2> QED
    BY <2>1 DEF Lifecycle!vars, Seated
<1> QED
  BY <1>1, <1>2, <1>3, <1>4, <1>5 DEF Next, LoopBody

\* Whatever packets arrive and whatever requests fail, the server implements the life of
\* a match: different players gather, draft, play, are given one winner, each at most
\* one result, and the match closes.
THEOREM LifecycleImplemented == Spec => ImplementsLifecycle
BY InitIInv, InitLifecycle, NextIInv, NextLifecycle, PTL
   DEF Spec, ImplementsLifecycle, Lifecycle!Spec

-----------------------------------------------------------------------------
(* The server implements MatchOutcome.                                     *)

LEMMA NextOutcome ==
    IInv /\ [Next]_vars => [Outcome!Tick]_<<winner, match_elapsed>>
<1> SUFFICES ASSUME IInv, [Next]_vars
             PROVE  Outcome!Tick \/ UNCHANGED <<winner, match_elapsed>>
  OBVIOUS
<1>1. CASE LoopBody /\ LiveTick
  BY <1>1 DEF LiveTick, Simulate, Outcome!Tick
<1>2. CASE LoopBody /\ LobbyTick
  BY <1>2 DEF LobbyTick
<1>3. CASE ~LoopBody
  BY <1>3 DEF Next, Connect, Pick, Crash, vars, timers, outcome
<1> QED
  BY <1>1, <1>2, <1>3 DEF LoopBody

-----------------------------------------------------------------------------
(* The server implements GamePort.                                         *)

\* The slots fill from the first on, and nobody picks before the draft.
InOrder ==
    /\ \A i \in Slot : clients[i] # Nobody <=> i < client_count
    /\ match_phase = "WAITING" => Picked = {}

PortInv == IInv /\ InOrder

\* The newcomer's slot is the first behind those taken.
LEMMA NextSlot ==
    ASSUME PortInv, NEW a \in Addr, Connect(a)
    PROVE  /\ client_count \in Slot /\ client_count' = client_count + 1
           /\ clients' = [clients EXCEPT ![client_count] = a]
<1>1. PICK i \in Slot : FirstFree(i) /\ clients' = [clients EXCEPT ![i] = a]
  BY DEF Connect
<1>2. client_count \in Nat /\ client_count < LobbySize /\ LobbySize \in Nat
  BY SizeAssumption DEF Connect, PortInv, IInv, PhaseFollowsCounts, TypeOK
<1>3. client_count \in Slot
  BY <1>2
<1>4. i = client_count
  BY <1>1, <1>2, <1>3 DEF FirstFree, PortInv, InOrder
<1> QED
  BY <1>1, <1>3, <1>4 DEF Connect

LEMMA NextInOrder == PortInv /\ [Next]_vars => InOrder'
<1> SUFFICES ASSUME PortInv, [Next]_vars PROVE InOrder'
  OBVIOUS
<1>1. ASSUME NEW a \in Addr, Connect(a) PROVE InOrder'
  <2>1. /\ client_count \in Slot /\ client_count' = client_count + 1
        /\ clients' = [clients EXCEPT ![client_count] = a]
    BY <1>1, NextSlot
  <2>2. \A i \in Slot : clients'[i] # Nobody <=> i < client_count'
    BY <2>1, AddrAssumption, SizeAssumption DEF PortInv, InOrder, IInv, TypeOK
  <2>3. match_phase = "WAITING" /\ UNCHANGED hero_picked
    BY <1>1 DEF Connect
  <2> QED
    BY <2>2, <2>3 DEF PortInv, InOrder, Picked
<1>2. ASSUME NEW i \in Slot, NEW h \in Hero, Pick(i, h) PROVE InOrder'
  BY <1>2 DEF Pick, PortInv, InOrder
<1>3. ASSUME UNCHANGED lobby PROVE InOrder'
  BY <1>3 DEF lobby, PortInv, InOrder, Picked
<1>4. LoopBody \/ Crash \/ UNCHANGED vars => UNCHANGED lobby
  BY DEF LoopBody, LiveTick, LobbyTick, Crash, vars
<1> QED
  BY <1>1, <1>2, <1>3, <1>4 DEF Next

LEMMA InitPort == Init => InOrder /\ Port!Init
<1> SUFFICES ASSUME Init PROVE InOrder /\ Port!Init
  OBVIOUS
<1>1. /\ client_count = 0 /\ winner = 0 /\ match_phase = "WAITING" /\ Running
      /\ Picked = {} /\ \A i \in Slot : clients[i] = Nobody
  BY DEF Init, Picked
<1>2. Seats = <<>>
  BY <1>1 DEF Seats
<1>3. PhaseOf["WAITING"] = "waiting"
  BY DEF PhaseOf
<1>4. InOrder
  BY <1>1 DEF InOrder
<1> QED
  BY <1>1, <1>2, <1>3, <1>4 DEF Port!Init, Port!Vacant

LEMMA SamePortCardinality == \A S : Port!Cardinality(S) = Cardinality(S)
BY DEF Port!Cardinality, Cardinality, Port!IsFiniteSet, IsFiniteSet

LEMMA ConnectSeats ==
    ASSUME PortInv, NEW a \in Addr, Connect(a) PROVE Port!Seat(a)
<1>1. /\ client_count \in Slot /\ client_count' = client_count + 1
      /\ clients' = [clients EXCEPT ![client_count] = a]
  BY NextSlot
<1>2. /\ match_phase = "WAITING" /\ exit_cause = "none" /\ ~Known(a)
      /\ match_phase' = IF client_count' = LobbySize THEN "DRAFT" ELSE "WAITING"
      /\ UNCHANGED <<hero_picked, winner, exit_cause>>
  BY DEF Connect, outcome
<1>3. winner = 0
  BY <1>2 DEF PortInv, IInv, TimersAgree
<1>4. client_count \in Nat /\ clients \in [Slot -> Addr \union {Nobody}]
  BY DEF PortInv, IInv, TypeOK
<1>5. /\ Seats \in Seq(Addr \union {Nobody}) /\ Len(Seats) = client_count
      /\ Seats' = [i \in 1 .. client_count + 1 |-> IF i = client_count + 1 THEN a ELSE Seats[i]]
  BY <1>1, <1>4, SizeAssumption DEF Seats
<1>6. Seats' = Append(Seats, a) /\ Len(Seats') = client_count'
  <2>1. /\ Append(Seats, a) \in Seq(Addr \union {Nobody})
        /\ Len(Append(Seats, a)) = client_count + 1
        /\ \A i \in 1 .. client_count : Append(Seats, a)[i] = Seats[i]
        /\ Append(Seats, a)[client_count + 1] = a
    BY <1>5, AppendProperties
  <2>2. Append(Seats, a) \in [1 .. client_count + 1 -> Addr \union {Nobody}]
    BY <2>1, LenProperties
  <2>3. \A i \in 1 .. client_count + 1 :
          Append(Seats, a)[i] = IF i = client_count + 1 THEN a ELSE Seats[i]
    BY <2>1, <1>4
  <2>4. Append(Seats, a) = Seats'
    BY <2>2, <2>3, <1>5
  <2> QED
    BY <2>1, <2>4, <1>1
<1>7. ~ \E i \in DOMAIN Seats : Seats[i] = a
  BY <1>1, <1>2, <1>4, SizeAssumption DEF Seats, Known
<1>8. Picked = {} /\ Picked' = {}
  BY <1>2 DEF PortInv, InOrder, Picked
<1>9. /\ PhaseOf[match_phase] = "waiting"
      /\ PhaseOf[match_phase'] = IF client_count' = LobbySize THEN "draft" ELSE "waiting"
  BY <1>2 DEF PhaseOf
<1>10. UNCHANGED {clients[i] : i \in Picked}
  BY <1>8
<1> QED
  BY <1>2, <1>3, <1>6, <1>7, <1>9, <1>10 DEF Port!Seat, Port!IsSeated

LEMMA PickDrafts ==
    ASSUME PortInv, NEW i \in Slot, NEW h \in Hero, Pick(i, h), NEW b, b = clients[i]
    PROVE  b \in Addr /\ Port!Draft(b)
<1>1. /\ match_phase = "DRAFT" /\ exit_cause = "none" /\ clients[i] # Nobody
      /\ hero_picked' = [hero_picked EXCEPT ![i] = 1]
      /\ match_phase' = IF picked_count' = LobbySize THEN "LIVE" ELSE "DRAFT"
      /\ UNCHANGED <<clients, client_count, winner, exit_cause>>
  BY DEF Pick, outcome
<1>2. winner = 0 /\ winner' = 0
  BY <1>1 DEF PortInv, IInv, TimersAgree
<1>3. clients[i] \in Addr /\ client_count \in Nat /\ i < client_count
  BY <1>1 DEF PortInv, InOrder, IInv, TypeOK
<1>4. UNCHANGED Seats
  BY <1>1 DEF Seats
<1>5. i + 1 \in DOMAIN Seats /\ Seats[i + 1] = clients[i]
  BY <1>3, SizeAssumption DEF Seats
<1>6. Picked' = Picked \union {i}
  BY <1>1 DEF Picked, PortInv, IInv, TypeOK
<1>7. {clients'[j] : j \in Picked'} = {clients[j] : j \in Picked} \union {clients[i]}
  BY <1>1, <1>6
<1>8. Cardinality({clients'[j] : j \in Picked'}) = picked_count'
  <2>1. CountsAgree'
    BY PickIInv DEF PortInv, IInv
  <2>2. Picked' \in SUBSET Slot
    BY DEF Picked
  <2>3. client_count = LobbySize
    BY <1>1, SizeAssumption DEF PortInv, IInv, PhaseFollowsCounts, TypeOK
  <2>4. \A j \in Slot : clients'[j] # Nobody
    BY <1>1, <2>3, SizeAssumption DEF PortInv, InOrder
  <2>5. \A j, k \in Picked' : clients'[j] = clients'[k] => j = k
    BY <2>1, <2>2, <2>4 DEF CountsAgree, Seated
  <2>6. Cardinality({clients'[j] : j \in Picked'}) = Cardinality(Picked')
    BY <2>2, <2>5, MembersAreSeats
  <2> QED
    BY <2>1, <2>6 DEF CountsAgree
<1>9. /\ PhaseOf[match_phase] = "draft"
      /\ PhaseOf[match_phase'] = IF picked_count' = LobbySize THEN "live" ELSE "draft"
  BY <1>1 DEF PhaseOf
<1>10. Port!Draft(b)
  BY <1>1, <1>2, <1>4, <1>5, <1>7, <1>8, <1>9, SamePortCardinality
     DEF Port!Draft, Port!IsSeated
<1> QED
  BY <1>3, <1>10

LEMMA LiveTickDecidesPort ==
    ASSUME PortInv, Running, LiveTick
    PROVE  Port!Decide \/ Port!Close \/ UNCHANGED Port!vars
<1>1. /\ match_phase = "LIVE" /\ UNCHANGED lobby /\ PhaseOf[match_phase] = "live"
  BY DEF LiveTick, PhaseOf
<1>2. UNCHANGED <<Seats, {clients[i] : i \in Picked}, PhaseOf[match_phase]>>
  BY <1>1 DEF Seats, Picked, lobby
<1>3. CASE winner' # 0 /\ last_winner_logged = 0
  <2>1. winner = 0 /\ shutdown_ticks' = 1
    BY <1>3 DEF LiveTick, Broadcast, PortInv, IInv, TimersAgree
  <2>2. exit_cause' = "none"
    BY <2>1, TickAssumption DEF LiveTick
  <2> QED
    BY <1>1, <1>2, <1>3, <2>1, <2>2 DEF Port!Decide
<1>4. CASE ~(winner' # 0 /\ last_winner_logged = 0)
  <2>1. winner' = winner
    BY <1>4 DEF LiveTick, Simulate, PortInv, IInv, TimersAgree, TypeOK
  <2>2. exit_cause' \in {"none", "over"}
    BY DEF LiveTick
  <2> QED
    BY <1>1, <1>2, <2>1, <2>2 DEF Port!Close, Port!Vacant, Port!vars
<1> QED
  BY <1>3, <1>4

\* A step that only ends the process frees the port.
LEMMA ExitFrees ==
    ASSUME PortInv, Running, UNCHANGED <<lobby, winner>>
    PROVE  Port!Close \/ UNCHANGED Port!vars
<1>1. UNCHANGED <<Seats, {clients[i] : i \in Picked}, PhaseOf[match_phase]>>
  BY DEF Seats, Picked, lobby
<1>2. PhaseOf[match_phase] # "off"
  BY DEF PhaseOf, PortInv, IInv, TypeOK
<1> QED
  BY <1>1, <1>2 DEF Port!Close, Port!Vacant, Port!vars

LEMMA NextPort == PortInv /\ [Next]_vars => [Port!Next]_(Port!vars)
<1> SUFFICES ASSUME PortInv, [Next]_vars PROVE Port!Next \/ UNCHANGED Port!vars
  OBVIOUS
<1>1. ASSUME NEW a \in Addr, Connect(a) PROVE Port!Next
  BY <1>1, ConnectSeats DEF Port!Next
<1>2. ASSUME NEW i \in Slot, NEW h \in Hero, Pick(i, h) PROVE Port!Next
  <2>1. PICK b : b = clients[i]
    OBVIOUS
  <2>2. b \in Addr /\ Port!Draft(b)
    BY <1>2, <2>1, PickDrafts
  <2> QED
    BY <2>2 DEF Port!Next
<1>3. CASE LoopBody /\ LiveTick
  BY <1>3, LiveTickDecidesPort DEF LoopBody, Port!Next
<1>4. CASE (LoopBody /\ LobbyTick) \/ Crash
  <2>1. Running /\ UNCHANGED <<lobby, winner>>
    BY <1>4 DEF LoopBody, LobbyTick, Crash, outcome
  <2> QED
    BY <2>1, ExitFrees DEF Port!Next
<1>5. CASE UNCHANGED vars
  <2>1. UNCHANGED <<exit_cause, match_phase, clients, client_count, hero_picked, winner>>
    BY <1>5 DEF vars, lobby, outcome
  <2> QED
    BY <2>1 DEF Port!vars, Seats, Picked
<1> QED
  BY <1>1, <1>2, <1>3, <1>4, <1>5 DEF Next, LoopBody

\* To the players the server is a game port: they are seated in the order of their slots,
\* the draft and the match start with the last of them, and nobody sits or picks twice.
THEOREM PortServed == Spec => ServesAsPort
<1>1. PortInv /\ [Next]_vars => PortInv'
  BY NextIInv, NextInOrder DEF PortInv
<1>2. Init => PortInv
  BY InitIInv, InitPort DEF PortInv
<1> QED
  BY <1>1, <1>2, InitPort, NextPort, PTL DEF Spec, ServesAsPort, Port!Spec

\* In a duel as in a team match the server keeps its promises: the life of a match to
\* the account service, a game port to the players, the simulation's own to itself.
THEOREM PromisesKept == Spec => KeepsItsPromises
<1>1. Init => Outcome!Init
  BY DEF Init, Outcome!Init
<1> QED
  BY <1>1, NextOutcome, LifecycleImplemented, PortServed, InitIInv, NextIInv, PTL
     DEF Spec, KeepsItsPromises, PlaysByOutcome, Outcome!Spec

-----------------------------------------------------------------------------
(* The loop comes to its end: what every step does to the passes left.     *)

\* A process that runs has a pass left.
LEMMA RunningHasPasses ==
    ASSUME IInv
    PROVE  PassesLeft \in Int /\ 0 <= PassesLeft /\ (Running => 1 <= PassesLeft)
BY TickAssumption DEF PassesLeft, IInv, TypeOK, TimersAgree

\* A packet of the lobby or the draft buys no time.
LEMMA PacketBuysNoTime ==
    ASSUME IInv, UNCHANGED <<timers, outcome, exit_cause>>, InLobby
    PROVE  PassesLeft' <= PassesLeft
BY TickAssumption DEF PassesLeft, IInv, TypeOK, TimersAgree, timers, outcome

LEMMA LiveTickRunsDown ==
    ASSUME IInv, Running, LiveTick
    PROVE  /\ PassesLeft' <= PassesLeft
           /\ (OneOnOne => winner' # 0) => PassesLeft' < PassesLeft
<1> USE TickAssumption
<1>1. /\ match_phase = "LIVE" /\ match_phase' = "LIVE" /\ UNCHANGED waiting_ticks
      /\ exit_cause' = IF shutdown_ticks' > FinalTicks THEN "over" ELSE exit_cause
  BY DEF LiveTick, lobby
<1>2. PassesLeft = IF winner # 0 THEN FinalTicks + 1 - shutdown_ticks
                   ELSE FinalTicks + 1 + MatchTicks - match_elapsed
  BY <1>1 DEF PassesLeft, IInv, TypeOK
<1>3. PassesLeft' = IF exit_cause' # "none" THEN 0
                    ELSE IF winner' # 0 THEN FinalTicks + 1 - shutdown_ticks'
                    ELSE FinalTicks + 1 + MatchTicks - match_elapsed'
  <2>1. IInv'
    BY LiveTickIInv
  <2>2. match_elapsed' \in Int
    BY <2>1 DEF IInv, TypeOK
  <2> QED
    BY <1>1, <2>2 DEF PassesLeft
<1>4. CASE winner' # 0 /\ last_winner_logged = 0
  <2>1. winner = 0 /\ shutdown_ticks' = 1 /\ match_elapsed < MatchTicks /\ exit_cause' = "none"
    BY <1>1, <1>4 DEF LiveTick, Broadcast, IInv, TimersAgree
  <2> QED
    BY <1>2, <1>3, <1>4, <2>1 DEF IInv, TypeOK
<1>5. CASE winner # 0
  <2>1. winner' = winner /\ last_winner_logged = 1
    BY <1>5 DEF LiveTick, Simulate, IInv, TimersAgree
  <2>2. shutdown_ticks' = shutdown_ticks + 1 /\ shutdown_ticks \in Nat /\ shutdown_ticks <= FinalTicks
    BY <1>5, <2>1 DEF LiveTick, Broadcast, IInv, TimersAgree, TypeOK
  <2> QED
    BY <1>1, <1>2, <1>3, <1>5, <2>1, <2>2 DEF IInv, TypeOK
<1>6. CASE winner = 0 /\ winner' = 0
  <2>1. /\ shutdown_ticks' = -1 /\ exit_cause' = "none"
        /\ match_elapsed' = IF OneOnOne THEN match_elapsed ELSE match_elapsed + 1
    BY <1>1, <1>6 DEF LiveTick, Simulate, Broadcast, IInv, TimersAgree
  <2> QED
    BY <1>2, <1>3, <1>6, <2>1 DEF IInv, TypeOK
<1> QED
  BY <1>4, <1>5, <1>6 DEF IInv, TimersAgree, TypeOK

LEMMA LobbyTickRunsDown ==
    ASSUME IInv, Running, LobbyTick
    PROVE  PassesLeft' <= PassesLeft /\ PassesLeft' < PassesLeft
<1> USE TickAssumption
<1>1. /\ match_phase # "LIVE" /\ UNCHANGED <<match_phase, match_elapsed, winner>>
      /\ waiting_ticks' = waiting_ticks + 1
      /\ exit_cause' = IF waiting_ticks' > WaitTicks THEN "timeout" ELSE exit_cause
  BY DEF LobbyTick, lobby
<1>2. winner = 0 /\ winner' = 0 /\ waiting_ticks \in Nat /\ match_elapsed \in 0 .. MatchTicks
  BY <1>1 DEF IInv, TimersAgree, TypeOK
<1>3. PassesLeft = FinalTicks + 1 + MatchTicks - match_elapsed + (WaitTicks + 1 - waiting_ticks)
  BY <1>1, <1>2 DEF PassesLeft
<1>4. PassesLeft' = IF exit_cause' # "none" THEN 0
                    ELSE FinalTicks + 1 + MatchTicks - match_elapsed + (WaitTicks + 1 - waiting_ticks')
  BY <1>1, <1>2 DEF PassesLeft
<1>5. waiting_ticks <= WaitTicks
  BY DEF IInv, TimersAgree
<1> QED
  BY <1>1, <1>2, <1>3, <1>4, <1>5

\* No step takes the server away from its end, and a pass of the loop takes it nearer.
LEMMA StepRunsDown ==
    ASSUME IInv, [Next]_vars
    PROVE  /\ PassesLeft' <= PassesLeft
           /\ LoopBody /\ (OneOnOne /\ ~InLobby => winner' # 0) => PassesLeft' < PassesLeft
<1>1. ASSUME NEW a \in Addr, Connect(a) PROVE PassesLeft' <= PassesLeft /\ ~LoopBody
  <2>1. UNCHANGED <<timers, outcome, exit_cause>> /\ InLobby
    BY <1>1 DEF Connect
  <2>2. client_count' = client_count + 1 /\ client_count \in Nat
    BY <1>1 DEF Connect, IInv, TypeOK
  <2>3. ~LoopBody
    BY <2>2 DEF LoopBody, LiveTick, LobbyTick, lobby
  <2> QED
    BY <2>1, <2>3, PacketBuysNoTime
<1>2. ASSUME NEW i \in Slot, NEW h \in Hero, Pick(i, h) PROVE PassesLeft' <= PassesLeft /\ ~LoopBody
  <2>1. UNCHANGED <<timers, outcome, exit_cause>> /\ InLobby
    BY <1>2 DEF Pick
  <2>2. ~LoopBody
    BY <1>2, <2>1 DEF LoopBody, LiveTick, LobbyTick, Pick, timers, IInv, TypeOK
  <2> QED
    BY <2>1, <2>2, PacketBuysNoTime
<1>3. ASSUME LoopBody
      PROVE  /\ PassesLeft' <= PassesLeft
             /\ (OneOnOne /\ ~InLobby => winner' # 0) => PassesLeft' < PassesLeft
  <2>1. CASE LiveTick
    BY <1>3, <2>1, LiveTickRunsDown DEF LoopBody, LiveTick
  <2>2. CASE LobbyTick
    BY <1>3, <2>2, LobbyTickRunsDown DEF LoopBody
  <2> QED
    BY <1>3, <2>1, <2>2 DEF LoopBody
<1>4. CASE Crash
  <2>1. PassesLeft' = 0 /\ 1 <= PassesLeft /\ PassesLeft \in Int
    BY <1>4, RunningHasPasses DEF Crash, PassesLeft
  <2> QED
    BY <2>1
<1>5. CASE UNCHANGED vars /\ ~LoopBody
  <2>1. UNCHANGED PassesLeft /\ PassesLeft \in Int
    BY <1>5, RunningHasPasses DEF vars, lobby, timers, outcome, PassesLeft
  <2> QED
    BY <1>5, <2>1
<1> QED
  BY <1>1, <1>2, <1>3, <1>4, <1>5 DEF Next

\* Whatever packets arrive and whatever the simulation does, each pass of the loop brings
\* the server nearer to its end: it lives through at most WaitTicks + MatchTicks +
\* FinalTicks passes and a few more, but for those of a duel that nobody wins.
THEOREM LoopNearsItsEnd == Spec => LoopRunsDown
<1>1. IInv /\ [Next]_vars
      => [/\ PassesLeft' <= PassesLeft
          /\ LoopBody /\ (OneOnOne /\ ~InLobby => winner' # 0) => PassesLeft' < PassesLeft]_vars
  BY StepRunsDown
<1> QED
  BY <1>1, InitIInv, NextIInv, PTL DEF Spec, LoopRunsDown

=============================================================================
