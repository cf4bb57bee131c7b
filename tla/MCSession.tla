------------------------------ MODULE MCSession -------------------------------
(* Small instances of what gets players into a match, side by side: bots, the *)
(* matchmaker and their servers over UDP; the matchmaker alone, in detail;    *)
(* and the one-on-one server alone.  A behaviour is one of a single part.     *)
EXTENDS Session

CONSTANTS Askers, Visitors

VARIABLES
    part,
    \* of the matchmaker
    wait_queue, recently_matched, next_game_port, now, age, group, port, stage,
    outcome, roster, spawns_since,
    \* of the server
    match_phase, clients, client_count, hero_picked, hero_pick, picked_count, hero_id,
    winner, match_elapsed, waiting_ticks, shutdown_ticks, last_winner_logged,
    exit_cause, result, credit, final_broadcasts

queueVars == <<wait_queue, recently_matched, next_game_port, now, age, group, port,
               stage, outcome, roster, spawns_since>>
serverVars == <<match_phase, clients, client_count, hero_picked, hero_pick, picked_count,
                hero_id, winner, match_elapsed, waiting_ticks, shutdown_ticks,
                last_winner_logged, exit_cause, result, credit, final_broadcasts>>

Queue == INSTANCE Matchmaker WITH
    Client <- Askers, MaxQueue <- 2, Cooldown <- 2, ClockWrap <- 4, FirstPort <- 7100,
    PortRange <- 1
Server == INSTANCE ArenaServer WITH
    Addr <- Visitors, TeamSize <- 2, Hero <- 0 .. 2, WaitTicks <- 3, MatchTicks <- 3,
    FinalTicks <- 1

\* Away from its part nothing is enabled: the matchmaker is in no stage, the server has
\* ended, no bot runs.
NetInit ==
    /\ part \in {"bots", "queue", "server"}
    /\ IF part = "queue" THEN Queue!Init
       ELSE /\ wait_queue = <<>> /\ recently_matched = {} /\ next_game_port = 7100 /\ now = 0
            /\ age = <<>> /\ group = <<>> /\ port = 7100 /\ stage = "none"
            /\ outcome = <<>> /\ roster = <<>> /\ spawns_since = <<>>
    /\ IF part = "bots" THEN SessionInit
       ELSE /\ bot = [b \in Bots |-> [Asking EXCEPT !.at = "off"]] /\ inbox = [b \in Bots |-> <<>>]
            /\ late = {} /\ queue = <<>> /\ told = {} /\ nextPort = 1 /\ faults = 0
            /\ server = [p \in PortNumbers |-> Off]
    /\ IF part = "server" THEN Server!Init
       ELSE /\ match_phase = "WAITING" /\ exit_cause = "crash"
            /\ clients = <<>> /\ client_count = 0 /\ hero_picked = <<>> /\ hero_pick = <<>>
            /\ picked_count = 0 /\ hero_id = <<>> /\ winner = 0 /\ match_elapsed = 0
            /\ waiting_ticks = 0 /\ shutdown_ticks = -1 /\ last_winner_logged = 0
            /\ result = <<>> /\ credit = <<>> /\ final_broadcasts = 0

NetNext ==
    /\ part' = part
    /\ \/ part = "bots" /\ SessionNext /\ UNCHANGED <<queueVars, serverVars>>
       \/ part = "queue" /\ Queue!Next /\ UNCHANGED <<sessionVars, serverVars>>
       \/ part = "server" /\ Server!Next /\ UNCHANGED <<sessionVars, queueVars>>

NetSpec ==
    /\ NetInit /\ [][NetNext]_<<part, sessionVars, queueVars, serverVars>>
    /\ Fairness /\ Queue!Fairness /\ Server!Fairness

-----------------------------------------------------------------------------
\* The deployment heals: lost datagrams, failed spawns and crashed servers leave ghost
\* seats, stale lobbies and bots at servers that are gone, but once the faults end
\* matches are played again, and again.
MatchesGoOn == part = "bots" => Heals

\* Every wait ends: with enough other clients asking, a queued client leaves the
\* queue (try_match), also when fork() failed in between.  The clients are alike: what
\* holds of one holds of all (Matchmaker!QueueMoves).
QueueMoves ==
    LET c == CHOOSE c \in Askers : TRUE
    IN c \in ToSet(wait_queue) ~> c \notin ToSet(wait_queue)

\* The one-on-one lobby keeps its seats, its counts and the heroes last picked, although
\* the last pick resets the simulation they were written into (server_handle_packet),
\* and one that is not playing either starts to or is given up (main).
DuelIsServed == [](part = "server" => Server!LobbyInv) /\ Server!LobbyResolves

\* Nobody waits for ever, neither in the queue nor in a lobby, and a duel starts as agreed.
PartsDeliver == QueueMoves /\ DuelIsServed
=============================================================================
