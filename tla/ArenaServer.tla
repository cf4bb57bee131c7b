----------------------------- MODULE ArenaServer ----------------------------
(***************************************************************************)
(* One match server (apps/arena_server/src/main.c): a process that seats   *)
(* the players of one lobby, runs the draft and the match, reports the     *)
(* result and exits.                                                       *)
(*                                                                         *)
(* The main loop drains the socket (server_handle_packet, one action per   *)
(* packet that changes state) and then runs its body once (LoopBody, one   *)
(* 16 ms tick).  The simulation it drives is modelled elsewhere; here it   *)
(* only decides, at some tick, who won.  Time is counted in loop bodies.   *)
(***************************************************************************)
EXTENDS Integers, FiniteSets

CONSTANTS
    Addr,           \* the addresses packets come from
    LobbySize,      \* lobby_size
    TeamSize,       \* ARENA_TEAM_SIZE: the first slots are team 0
    Hero,           \* the roster, 0 .. ARENA_HERO_COUNT - 1
    WaitTicks,      \* the lobby timeout, 60 s
    MatchTicks,     \* ARENA_MATCH_MAX_DURATION_MS
    FinalTicks      \* the broadcasts after the end, 60

ASSUME SizeAssumption == LobbySize \in Nat /\ TeamSize \in Nat /\ 2 <= LobbySize
ASSUME TickAssumption == /\ WaitTicks \in Nat /\ MatchTicks \in Nat /\ FinalTicks \in Nat
                         /\ 1 <= MatchTicks /\ 1 <= FinalTicks
ASSUME RosterAssumption == Hero \subseteq Nat /\ {0, 1} \subseteq Hero

Nobody == "nobody"
ASSUME AddrAssumption == Nobody \notin Addr

VARIABLES
    match_phase,
    clients,             \* the address in each slot, or Nobody (client_active)
    client_count,
    hero_picked,
    hero_pick,
    picked_count,
    hero_id,             \* arena_state.heroes[].hero_id
    winner,              \* arena_state.winner
    match_elapsed,       \* arena_state.match_elapsed_ms
    waiting_ticks,
    shutdown_ticks,
    last_winner_logged,
    exit_cause,          \* why the process ended, "none" while it runs
    result,              \* history: the results IDUNA accepted, per slot
    credit,              \* history: the Flow credited per slot
    final_broadcasts     \* history: broadcasts sent that name the winner

lobby == <<match_phase, clients, client_count, hero_picked, hero_pick,
           picked_count, hero_id>>
timers == <<match_elapsed, waiting_ticks, shutdown_ticks>>
outcome == <<winner, last_winner_logged, result, credit, final_broadcasts>>
vars == <<lobby, timers, outcome, exit_cause>>

Slot == 0 .. LobbySize - 1
Running == exit_cause = "none"
OneOnOne == LobbySize = 2

Team(i) == IF OneOnOne THEN i ELSE IF i < TeamSize THEN 0 ELSE 1

Seated == {i \in Slot : clients[i] # Nobody}
Picked == {i \in Slot : hero_picked[i] = 1}

Init ==
    /\ match_phase = "WAITING"
    /\ clients = [i \in Slot |-> Nobody]
    /\ client_count = 0
    /\ hero_picked = [i \in Slot |-> 0]
    /\ hero_pick = [i \in Slot |-> 0]
    /\ picked_count = 0
    /\ hero_id = [i \in Slot |-> 0]
    /\ winner = 0
    /\ match_elapsed = 0
    /\ waiting_ticks = 0
    /\ shutdown_ticks = -1
    /\ last_winner_logged = 0
    /\ exit_cause = "none"
    /\ result = [i \in Slot |-> "none"]
    /\ credit = [i \in Slot |-> 0]
    /\ final_broadcasts = 0

-----------------------------------------------------------------------------
(* server_handle_packet.                                                   *)

Known(a) == \E i \in Slot : clients[i] = a

\* The heroes of a reset simulation: all Unicorns, in 1v1 a Unicorn and a Duck.
Placeholder == [i \in Slot |-> IF OneOnOne THEN i ELSE 0]

\* Fault: one client too many is waited for.
FilledLate(n) == n > LobbySize

\* Does the n-th client fill the lobby?
Filled(n) == n = LobbySize

FirstFree(i) == clients[i] = Nobody /\ \A j \in Slot : j < i => clients[j] # Nobody

\* PACKET_CONNECT with a valid ticket from an address without a slot.  A known
\* sender's CONNECT falls through every branch and changes nothing.  The one that
\* fills the lobby resets the simulation and opens the draft.
Connect(a) ==
    /\ Running
    /\ ~Known(a)
    /\ match_phase = "WAITING"
    /\ \E i \in Slot :
          /\ FirstFree(i)
          /\ clients' = [clients EXCEPT ![i] = a]
    /\ client_count' = client_count + 1
    /\ match_phase' = IF Filled(client_count') THEN "DRAFT" ELSE match_phase
    /\ hero_id' = IF Filled(client_count') THEN Placeholder ELSE hero_id
    /\ UNCHANGED <<hero_picked, hero_pick, picked_count, timers, outcome, exit_cause>>

\* Faults: every pick is counted; the last pick is not applied.
EveryPick(i) == picked_count + 1
HeroesBeforeLast(i, h) == IF OneOnOne THEN hero_pick ELSE hero_id
PicksWith(i) == IF hero_picked[i] = 1 THEN picked_count ELSE picked_count + 1

\* The heroes the match starts with: a duel is reset with both picks, a team match
\* keeps what each pick has set.
StartingHeroes(i, h) ==
    IF OneOnOne THEN [hero_pick EXCEPT ![i] = h] ELSE [hero_id EXCEPT ![i] = h]

Drafting == match_phase = "DRAFT"

\* PACKET_ARENA_PICK: a player may change its mind until the last one has picked.
Pick(i, h) ==
    /\ Running
    /\ clients[i] # Nobody
    /\ Drafting
    /\ h \in Hero
    /\ picked_count' = PicksWith(i)
    /\ hero_pick' = [hero_pick EXCEPT ![i] = h]
    /\ hero_picked' = [hero_picked EXCEPT ![i] = 1]
    /\ IF picked_count' = LobbySize
       THEN match_phase' = "LIVE" /\ hero_id' = StartingHeroes(i, h)
       ELSE UNCHANGED match_phase /\ hero_id' = [hero_id EXCEPT ![i] = h]
    /\ UNCHANGED <<clients, client_count, timers, outcome, exit_cause>>

-----------------------------------------------------------------------------
(* The loop body.                                                          *)

Won(i, w) == Team(i) + 1 = w

\* report_match_result: one login, then for every slot a result and, when the
\* player has a character, a credit.  Any request may fail, all of them if the login
\* does; none is repeated.
ReportMatchResult(w) ==
    \E posted \in SUBSET Seated, credited \in SUBSET Seated :
        /\ result' = [i \in Slot |-> IF i \in posted
                                     THEN IF Won(i, w) THEN "win" ELSE "loss"
                                     ELSE result[i]]
        /\ credit' = [i \in Slot |-> IF i \in credited
                                     THEN credit[i] + IF Won(i, w) THEN 100 ELSE 25
                                     ELSE credit[i]]

\* Faults: no limit; the clock starts over; a decided match goes on.
SimulateOn ==
    /\ match_elapsed' = match_elapsed + 1
    /\ winner' \in IF winner # 0 THEN {winner} ELSE {0, 1, 2}

SimulateNoLimit ==
    /\ match_elapsed' = (match_elapsed + 1) % MatchTicks
    /\ winner' \in IF winner # 0 THEN {winner} ELSE {0, 1, 2}

SimulateOverturned ==
    IF match_elapsed < MatchTicks
    THEN winner' \in {1, 2} /\ match_elapsed' = match_elapsed + 1
    ELSE UNCHANGED <<winner, match_elapsed>>

\* arena_update / arena_update_teams: a decided match stands still; only a team
\* match is cut off at MatchTicks.
Simulate ==
    IF winner # 0
    THEN UNCHANGED <<winner, match_elapsed>>
    ELSE IF OneOnOne
         THEN winner' \in {0, 1, 2} /\ UNCHANGED match_elapsed
         ELSE /\ match_elapsed' = match_elapsed + 1
              /\ winner' \in IF match_elapsed' >= MatchTicks THEN {1, 2} ELSE {0, 1, 2}

\* The end of the body: broadcast, and count down to the exit once one is due.
\* shutdown is the countdown's value before it.
Broadcast(shutdown) ==
    /\ final_broadcasts' = IF winner' # 0 THEN final_broadcasts + 1 ELSE final_broadcasts
    /\ shutdown_ticks' = IF shutdown >= 0 THEN shutdown + 1 ELSE shutdown

\* Fault: the result is taken for news at every tick.
WinnerShown == winner' # 0

\* The tick in which the loop first sees a winner.
WinnerIsNews == winner' # 0 /\ last_winner_logged = 0

LiveTick ==
    /\ match_phase = "LIVE"
    /\ Simulate
    /\ IF WinnerIsNews
       THEN /\ ReportMatchResult(winner')
            /\ last_winner_logged' = 1
            /\ Broadcast(0)
       ELSE /\ UNCHANGED <<result, credit, last_winner_logged>>
            /\ Broadcast(shutdown_ticks)
    /\ exit_cause' = IF shutdown_ticks' > FinalTicks THEN "over" ELSE exit_cause
    /\ UNCHANGED <<lobby, waiting_ticks>>

\* Faults: the lobby clock runs during the match, or starts again with the draft.
AnyPhase == TRUE
WaitedForDraft == IF match_phase = "DRAFT" THEN 0 ELSE waiting_ticks + 1

InLobby == match_phase # "LIVE"
Waited == waiting_ticks + 1

LobbyTick ==
    /\ InLobby
    /\ waiting_ticks' = Waited
    /\ exit_cause' = IF waiting_ticks' > WaitTicks THEN "timeout" ELSE exit_cause
    /\ UNCHANGED <<lobby, match_elapsed, winner, last_winner_logged, result, credit>>
    /\ Broadcast(shutdown_ticks)

LoopBody == Running /\ (LiveTick \/ LobbyTick)

\* A fatal signal: crash_signal_handler logs and lets the process die.
Crash ==
    /\ Running
    /\ exit_cause' = "crash"
    /\ UNCHANGED <<lobby, timers, outcome>>

Next ==
    \/ \E a \in Addr : Connect(a)
    \/ \E i \in Slot, h \in Hero : Pick(i, h)
    \/ LoopBody
    \/ Crash

Spec == Init /\ [][Next]_vars

\* The loop polls without blocking, so its body runs again and again; but a body
\* that plays an undecided duel need not change anything here, ever.
Fairness == WF_vars(LoopBody /\ (OneOnOne /\ ~InLobby => winner # 0))

FairSpec == Spec /\ Fairness

-----------------------------------------------------------------------------
(* Properties.                                                             *)

\* The types, with the bounds the loop keeps: both counters end with the lobby, and
\* each clock with the process or the match.
TypeOK ==
    /\ match_phase \in {"WAITING", "DRAFT", "LIVE"}
    /\ clients \in [Slot -> Addr \union {Nobody}]
    /\ client_count \in 0 .. LobbySize
    /\ hero_picked \in [Slot -> {0, 1}]
    /\ hero_pick \in [Slot -> Hero]
    /\ picked_count \in 0 .. LobbySize
    /\ hero_id \in [Slot -> Hero]
    /\ winner \in 0 .. 2
    /\ match_elapsed \in 0 .. MatchTicks
    /\ waiting_ticks \in 0 .. WaitTicks + 1
    /\ shutdown_ticks \in -1 .. FinalTicks + 1
    /\ last_winner_logged \in {0, 1}
    /\ exit_cause \in {"none", "timeout", "over", "crash"}
    /\ result \in [Slot -> {"none", "win", "loss"}]
    /\ credit \in [Slot -> {0, 25, 100}]
    /\ final_broadcasts \in 0 .. FinalTicks + 1

\* The counters the phase changes rest on are the number of seats taken and of
\* players that picked, and no address holds two seats.
CountsAgree ==
    /\ client_count = Cardinality(Seated)
    /\ picked_count = Cardinality(Picked)
    /\ \A i, j \in Seated : clients[i] = clients[j] => i = j

\* The phase follows from the counts: a full lobby is never left waiting and a
\* complete draft never left drafting.
PhaseFollowsCounts ==
    /\ match_phase = "WAITING" <=> client_count < LobbySize
    /\ match_phase = "LIVE" <=> picked_count = LobbySize

\* The match is played with the heroes last picked, in either mode.
HeroesAsPicked ==
    match_phase # "WAITING" => \A i \in Picked : hero_id[i] = hero_pick[i]

\* The lobby: its types, counters that count, the phase they call for, and the heroes its
\* players asked for last.
LobbyInv == TypeOK /\ CountsAgree /\ PhaseFollowsCounts /\ HeroesAsPicked

\* Results are reported of decided matches only, once, and agree with the winner;
\* a reward is never paid twice or to the wrong side.
ReportedFaithfully ==
    \A i \in Slot :
        /\ result[i] # "none" => winner # 0 /\ (result[i] = "win" <=> Won(i, winner))
        /\ credit[i] # 0 => winner # 0 /\ credit[i] = IF Won(i, winner) THEN 100 ELSE 25

\* A server that ends its match in order has shown the winner in more than
\* FinalTicks broadcasts, and one that gave up on the lobby never had a match, though it
\* waited for one for the whole time.
OrderlyExit ==
    /\ exit_cause = "over" => winner # 0 /\ final_broadcasts > FinalTicks
    /\ exit_cause = "timeout" => /\ match_phase # "LIVE" /\ final_broadcasts = 0
                                 /\ waiting_ticks > WaitTicks

\* The passes of the loop a server has left at most.
PassesLeft ==
    IF ~Running THEN 0
    ELSE IF winner # 0 THEN FinalTicks + 1 - shutdown_ticks
    ELSE FinalTicks + 1 + MatchTicks - match_elapsed
         + IF InLobby THEN WaitTicks + 1 - waiting_ticks ELSE 0

\* Every pass brings the process nearer to its end, and no packet buys it time: a whole
\* lobby, draft and match, or giving up, is over within 60 s, the time limit and the last
\* broadcasts.  Only an undecided duel may go on (main).
LoopRunsDown ==
    [][/\ PassesLeft' <= PassesLeft
       /\ LoopBody /\ (OneOnOne /\ ~InLobby => winner' # 0) => PassesLeft' < PassesLeft]_vars

\* Every server process ends.
ServerExits == <>(~Running)

\* A lobby that is not playing either starts to or is given up.
LobbyResolves == match_phase # "LIVE" ~> match_phase = "LIVE" \/ ~Running

PhaseOf == [WAITING |-> "waiting", DRAFT |-> "draft", LIVE |-> "live"]
StageOf == [WAITING |-> "gathering", DRAFT |-> "drafting", LIVE |-> "live"]

\* How the server's state shows that of MatchLifecycle.
Lifecycle == INSTANCE MatchLifecycle WITH
    stage <- IF ~Running THEN "closed"
             ELSE IF winner # 0 THEN "decided"
             ELSE StageOf[match_phase],
    members <- {clients[i] : i \in Seated},
    posted <- {clients[i] : i \in {j \in Seated : result[j] # "none"}}

\* The server keeps the promise of MatchLifecycle, whatever packets arrive.
ImplementsLifecycle == Lifecycle!Spec

Outcome == INSTANCE MatchOutcome WITH elapsed <- match_elapsed, Limited <- ~OneOnOne

\* What the server takes the simulation to do (LiveTick) is what arena_update_teams, or
\* for a duel arena_update, promises.
PlaysByOutcome == Outcome!Spec

\* How the server's state shows that of GamePort.  The slots fill from the first on.
Seats == [i \in 1 .. client_count |-> clients[i - 1]]
Port == INSTANCE GamePort WITH
    Player <- Addr,
    phase <- IF ~Running THEN "off"
             ELSE IF winner # 0 THEN "over"
             ELSE PhaseOf[match_phase],
    seats <- IF Running THEN Seats ELSE <<>>,
    picks <- IF Running THEN {clients[i] : i \in Picked} ELSE {}

\* Who comes to the server's port is seated, picks and plays as GamePort says.
ServesAsPort == Port!Spec

\* The server as others see it: the life of a match to the account service, a game port
\* to the players, the promise of the simulation to the loop that calls it.
KeepsItsPromises == ImplementsLifecycle /\ ServesAsPort /\ PlaysByOutcome
=============================================================================
