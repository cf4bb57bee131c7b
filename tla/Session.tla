------------------------------- MODULE Session -------------------------------
(* A session of the deployment: bots (main, wait_for_match, connect_to_server *)
(* and the network half of play_one_match in apps/arena_bot/src/main.c), the  *)
(* matchmaker and the match servers it spawns, over UDP.  Each bot has one    *)
(* socket for everything, read in order; what reaches it when it is full is   *)
(* lost.  A FIND_MATCH may be delayed past whatever its sender does next;     *)
(* CONNECT and PICK arrive or are lost at once.  The matchmaker and the       *)
(* server are cut down to what the bots' packets do to them: their own loops  *)
(* are Matchmaker and ArenaServer.                                            *)
(*                                                                            *)
(* Timeouts are choices, kept by Patient from firing while what they wait for *)
(* is still on its way: 5 s for a WELCOME, 10 s without a snapshot, 60 s for  *)
(* a lobby, 8 s of cooldown, against a network of milliseconds and a socket   *)
(* buffer that a bot reads at 10 to 20 datagrams a second.                    *)
EXTENDS Integers, Sequences, FiniteSets, SequencesExt

CONSTANTS
    Bots, LobbySize,
    Ports,          \* 1..Ports game ports, handed out in turn
    InboxSize,      \* datagrams a bot's socket holds
    MaxFaults,      \* bound: datagrams lost, spawns failed, servers crashed
    Patient         \* TRUE: see above; FALSE: timeouts fire at any time

ASSUME SessionAssumption ==
    /\ {LobbySize, Ports, InboxSize} \subseteq Nat \ {0}
    /\ MaxFaults \in Nat /\ Patient \in BOOLEAN

VARIABLES
    bot,            \* bot -> where it is in main(); "off" if it is not run
    inbox,          \* bot -> datagrams its socket holds
    late,           \* bots with a FIND_MATCH on its way
    queue, told,    \* the matchmaker's waiting list and cooldown list
    nextPort,
    server,         \* port -> the match server that listens on it
    faults

sessionVars == <<bot, inbox, late, queue, told, nextPort, server, faults>>

PortNumbers == 1 .. Ports
Off == [phase |-> "off", seats |-> <<>>, picks |-> {}, expects |-> {}]
Asking == [at |-> "asking", port |-> 1, owner |-> -1]

SessionInit ==
    /\ bot = [b \in Bots |-> Asking]
    /\ inbox = [b \in Bots |-> <<>>]
    /\ late = Bots
    /\ queue = <<>> /\ told = {}
    /\ nextPort = 1
    /\ server = [p \in PortNumbers |-> Off]
    /\ faults = 0

Holds(b, type) == \E i \in DOMAIN inbox[b] : inbox[b][i].type = type

\* Put(box, m): a socket after m reached it.
Put(box, m) == IF Len(box) < InboxSize THEN Append(box, m) ELSE box

Fault == faults < MaxFaults /\ faults' = faults + 1

-----------------------------------------------------------------------------
(* The servers, as the bots' packets find them.                               *)

\* Fault: an address that connects again is seated again.
AnyComer(s, b) == s.phase = "waiting"

Newcomer(s, b) == s.phase = "waiting" /\ ~Contains(s.seats, b)
Seated(s, b) ==
    LET seats == Append(s.seats, b)
    IN [s EXCEPT !.seats = seats,
                 !.phase = IF Len(seats) = LobbySize THEN "draft" ELSE @]
SeatOf(s, b) == CHOOSE i \in DOMAIN s.seats : s.seats[i] = b

\* CONNECT of b at port p, its inbox being box: a newcomer is seated and welcomed,
\* once; the last one opens the draft.
Connect(b, p, box) ==
    LET s == server[p]
        with == Seated(s, b)
    IN IF Newcomer(s, b)
       THEN /\ server' = [server EXCEPT ![p] = with]
            /\ inbox' = [inbox EXCEPT ![b] =
                  Put(box, [type |-> "welcome", owner |-> Len(with.seats)])]
       ELSE /\ inbox' = [inbox EXCEPT ![b] = box]
            /\ UNCHANGED server

\* A pick counts for the seat of its sender; the last one starts the match.
Picked(s, b) ==
    LET picks == s.picks \cup {b}
    IN IF s.phase = "draft" /\ Contains(s.seats, b)
       THEN [s EXCEPT !.picks = picks,
                      !.phase = IF Cardinality(picks) = LobbySize THEN "live" ELSE @]
       ELSE s

\* A datagram of a bot arrives, or is lost.
Sent(arrives) == IF arrives THEN UNCHANGED faults ELSE Fault

-----------------------------------------------------------------------------
(* The bots.                                                                  *)

\* wait_for_match(): FIND_MATCH again, every 5 s and after every 60.
AskAgain(b) ==
    /\ bot[b].at = "asking"
    /\ b \notin late
    /\ late' = late \cup {b}
    /\ UNCHANGED <<bot, inbox, queue, told, nextPort, server, faults>>

\* One datagram is read: any MATCH_FOUND is taken, and a first CONNECT sent to its
\* port; all else is thrown away.
ReadWhileAsking(b) ==
    /\ bot[b].at = "asking" /\ inbox[b] # <<>>
    /\ LET m == Head(inbox[b])
       IN IF m.type = "found"
          THEN /\ bot' = [bot EXCEPT ![b] = [at |-> "connecting", port |-> m.port,
                                             owner |-> -1]]
               /\ \/ Connect(b, m.port, Tail(inbox[b])) /\ Sent(TRUE)
                  \/ inbox' = [inbox EXCEPT ![b] = Tail(@)]
                     /\ Sent(FALSE) /\ UNCHANGED server
          ELSE /\ inbox' = [inbox EXCEPT ![b] = Tail(@)]
               /\ UNCHANGED <<bot, server, faults>>
    /\ UNCHANGED <<late, queue, told, nextPort>>

\* connect_to_server(): the CONNECT again, every half second.
ConnectAgain(b) ==
    /\ bot[b].at = "connecting"
    /\ Connect(b, bot[b].port, inbox[b])
    /\ UNCHANGED <<bot, late, queue, told, nextPort, faults>>

\* One datagram is read: any WELCOME is taken, whoever sent it.
ReadWhileConnecting(b) ==
    /\ bot[b].at = "connecting" /\ inbox[b] # <<>>
    /\ inbox' = [inbox EXCEPT ![b] = Tail(@)]
    /\ LET m == Head(inbox[b])
       IN bot' = IF m.type = "welcome"
                 THEN [bot EXCEPT ![b].at = "playing", ![b].owner = m.owner]
                 ELSE bot
    /\ UNCHANGED <<late, queue, told, nextPort, server, faults>>

\* Will the server b is connecting to still welcome it?
Welcomes(b) ==
    LET s == server[bot[b].port]
    IN s.phase = "waiting" /\ ~Contains(s.seats, b)

GiveUpConnecting(b) ==
    /\ bot[b].at = "connecting"
    /\ Patient => ~Holds(b, "welcome") /\ ~Welcomes(b)
    /\ bot' = [bot EXCEPT ![b].at = "resting"]
    /\ UNCHANGED <<inbox, late, queue, told, nextPort, server, faults>>

\* play_one_match(): the socket is drained, the last snapshot counts, whoever
\* sent it.  A pick is sent, and sent again, as long as it shows the draft.
Snapshots(b) == SelectSeq(inbox[b], LAMBDA m : m.type = "snapshot")
Drain(b) ==
    /\ bot[b].at = "playing" /\ inbox[b] # <<>>
    /\ inbox' = [inbox EXCEPT ![b] = <<>>]
    /\ LET shown == IF Snapshots(b) = <<>> THEN "none" ELSE Last(Snapshots(b)).phase
           p == bot[b].port
       IN /\ bot' = IF shown = "over" THEN [bot EXCEPT ![b].at = "resting"] ELSE bot
          /\ \E arrives \in BOOLEAN :
                /\ Sent(arrives)
                /\ server' = IF shown = "draft" /\ arrives
                             THEN [server EXCEPT ![p] = Picked(@, b)] ELSE server
    /\ UNCHANGED <<late, queue, told, nextPort>>

\* Does any server still send b snapshots?
Served(b) == \E p \in PortNumbers : Contains(server[p].seats, b)

GiveUpPlaying(b) ==
    /\ bot[b].at = "playing"
    /\ Patient => inbox[b] = <<>> /\ ~Served(b)
    /\ bot' = [bot EXCEPT ![b].at = "resting"]
    /\ UNCHANGED <<inbox, late, queue, told, nextPort, server, faults>>

\* main(): a second's rest, then everything again.
Requeue(b) ==
    /\ bot[b].at = "resting"
    /\ bot' = [bot EXCEPT ![b] = Asking]
    /\ late' = late \cup {b}
    /\ UNCHANGED <<inbox, queue, told, nextPort, server, faults>>

-----------------------------------------------------------------------------
(* The matchmaker.                                                            *)

\* Fault: no cooldown.
UnknownButWaiting(b) == ~Contains(queue, b)

\* Fault: a waiting bot that asks again is queued again.
UnknownUntilTold(b) == b \notin told

Unknown(b) == ~Contains(queue, b) /\ b \notin told
Find(b) ==
    /\ b \in late
    /\ queue' = IF Unknown(b) THEN Append(queue, b) ELSE queue
    /\ late' = late \ {b}
    /\ UNCHANGED <<bot, inbox, told, nextPort, server, faults>>

Group == SubSeq(queue, 1, LobbySize)
Follows(p) == IF p = Ports THEN 1 ELSE p + 1

\* A group is sent to the next port.  If a server still listens there the new
\* one cannot bind and ends at once; nobody notices.
Match ==
    /\ Len(queue) >= LobbySize
    /\ queue' = SubSeq(queue, LobbySize + 1, Len(queue))
    /\ nextPort' = Follows(nextPort)
    /\ told' = told \cup ToSet(Group)
    /\ inbox' = [b \in Bots |-> IF Contains(Group, b)
                                THEN Put(inbox[b], [type |-> "found", port |-> nextPort])
                                ELSE inbox[b]]
    /\ server' = IF server[nextPort].phase = "off"
                 THEN [server EXCEPT ![nextPort] =
                          [Off EXCEPT !.phase = "waiting", !.expects = ToSet(Group)]]
                 ELSE server
    /\ UNCHANGED <<bot, late, faults>>

\* fork() fails: the group is forgotten, its port spent.
MatchFails ==
    /\ Fault
    /\ Len(queue) >= LobbySize
    /\ queue' = SubSeq(queue, LobbySize + 1, Len(queue))
    /\ nextPort' = Follows(nextPort)
    /\ UNCHANGED <<bot, inbox, late, told, server>>

\* prune_recently_matched(): the cooldown is over.
Forget(b) ==
    /\ b \in told
    /\ Patient => b \notin late /\ ~Holds(b, "found")
    /\ told' = told \ {b}
    /\ UNCHANGED <<bot, inbox, late, queue, nextPort, server, faults>>

-----------------------------------------------------------------------------
(* The match servers.                                                         *)

\* server_broadcast() to one seat.  Only the last of the snapshots in a socket
\* is ever looked at, so one stands for them all.
Broadcast(p, b) ==
    LET m == [type |-> "snapshot", phase |-> server[p].phase]
    IN /\ Contains(server[p].seats, b)
       /\ ~Contains(inbox[b], m)
       /\ inbox' = [inbox EXCEPT ![b] =
             IF Holds(b, "snapshot")
             THEN [i \in DOMAIN inbox[b] |-> IF inbox[b][i].type = "snapshot" THEN m ELSE inbox[b][i]]
             ELSE Put(inbox[b], m)]
       /\ inbox' # inbox
       /\ UNCHANGED <<bot, late, queue, told, nextPort, server, faults>>

\* Is b still coming to, or at, the server on p?
OnItsWay(b, p) ==
    \/ \E i \in DOMAIN inbox[b] : inbox[b][i] = [type |-> "found", port |-> p]
    \/ bot[b].at \in {"connecting", "playing"} /\ bot[b].port = p

\* Fault: a draft is never given up.
Gathering(p) == server[p].phase = "waiting"

InLobby(p) == server[p].phase \in {"waiting", "draft"}

\* 60 s without a match: the lobby is given up.
LobbyTimeout(p) ==
    /\ InLobby(p)
    /\ Patient => \E b \in server[p].expects : ~OnItsWay(b, p)
    /\ server' = [server EXCEPT ![p] = Off]
    /\ UNCHANGED <<bot, inbox, late, queue, told, nextPort, faults>>

Conclude(p) ==
    /\ server[p].phase = "live"
    /\ server' = [server EXCEPT ![p].phase = "over"]
    /\ UNCHANGED <<bot, inbox, late, queue, told, nextPort, faults>>

\* The last broadcasts are out: the process ends and the port is free.
Exit(p) ==
    /\ server[p].phase = "over"
    /\ server' = [server EXCEPT ![p] = Off]
    /\ UNCHANGED <<bot, inbox, late, queue, told, nextPort, faults>>

-----------------------------------------------------------------------------
(* The faults.                                                                *)

Lose(b) ==
    /\ Fault
    /\ b \in late
    /\ late' = late \ {b}
    /\ UNCHANGED <<bot, inbox, queue, told, nextPort, server>>

\* The newest datagram to b never arrived (a lost snapshot is as good as none).
LoseReply(b) ==
    /\ Fault
    /\ inbox[b] # <<>> /\ Last(inbox[b]).type # "snapshot"
    /\ inbox' = [inbox EXCEPT ![b] = Front(@)]
    /\ UNCHANGED <<bot, late, queue, told, nextPort, server>>

Crash(p) ==
    /\ Fault
    /\ server[p].phase # "off"
    /\ server' = [server EXCEPT ![p] = Off]
    /\ UNCHANGED <<bot, inbox, late, queue, told, nextPort>>

BotStep(b) ==
    \/ AskAgain(b) \/ ReadWhileAsking(b)
    \/ ConnectAgain(b) \/ ReadWhileConnecting(b) \/ GiveUpConnecting(b)
    \/ Drain(b) \/ GiveUpPlaying(b) \/ Requeue(b)

SessionNext ==
    \/ \E b \in Bots : BotStep(b) \/ Find(b) \/ Forget(b) \/ Lose(b) \/ LoseReply(b)
    \/ Match \/ MatchFails
    \/ \E p \in PortNumbers : LobbyTimeout(p) \/ Conclude(p) \/ Exit(p) \/ Crash(p)
    \/ \E p \in PortNumbers, b \in Bots : Broadcast(p, b)

(* Every program runs on: bots read, rest and give up, the matchmaker drains  *)
(* its socket and forgets, servers broadcast, decide their match within its   *)
(* time limit and end.  A lobby's 60 s, a cooldown's 8 s and a connection's   *)
(* 5 s count whatever happens meanwhile: strong fairness.                     *)
Fairness ==
    /\ \A b \in Bots :
          /\ WF_sessionVars(AskAgain(b)) /\ WF_sessionVars(ReadWhileAsking(b))
          /\ WF_sessionVars(ConnectAgain(b)) /\ WF_sessionVars(ReadWhileConnecting(b))
          /\ WF_sessionVars(GiveUpPlaying(b) \/ Requeue(b))
          /\ SF_sessionVars(GiveUpConnecting(b))
          /\ WF_sessionVars(Drain(b)) /\ WF_sessionVars(Find(b))
          /\ SF_sessionVars(Forget(b))
    /\ WF_sessionVars(Match)
    /\ \A p \in PortNumbers :
          /\ SF_sessionVars(LobbyTimeout(p))
          /\ WF_sessionVars(Conclude(p) \/ Exit(p))
          /\ \A b \in Bots : WF_sessionVars(Broadcast(p, b))

SessionSpec == SessionInit /\ [][SessionNext]_sessionVars
FairSession == SessionSpec /\ Fairness

-----------------------------------------------------------------------------
(* Types: whoever plays has an owner slot, a lobby is never overfull, and the *)
(* matchmaker's list holds nobody twice.                                      *)
SessionTypeOK ==
    /\ \A b \in Bots :
          /\ bot[b].at \in {"off", "asking", "connecting", "playing", "resting"}
          /\ bot[b].at = "playing" => bot[b].owner \in 1 .. LobbySize
          /\ Len(inbox[b]) <= InboxSize
    /\ IsInjective(queue) /\ nextPort \in PortNumbers
    /\ \A p \in PortNumbers : Len(server[p].seats) <= LobbySize

(* Nobody waits in the matchmaker's list who is not asking for a match: a     *)
(* late FIND_MATCH of a bot already matched never becomes a phantom that a    *)
(* lobby is then built around (the comments in wait_for_match and enqueue).   *)
NoPhantom == \A b \in Bots : Contains(queue, b) => bot[b].at = "asking"

(* A bot plays with the owner slot the server that expects it gave it,        *)
(* although it takes any WELCOME that reaches its socket: none is left over   *)
(* from another server (connect_to_server).                                   *)
PlaysOwnSeat ==
    \A b \in Bots :
        LET s == server[bot[b].port]
        IN bot[b].at = "playing" /\ b \in s.expects =>
               Contains(s.seats, b) /\ SeatOf(s, b) = bot[b].owner

\* Both ends of the network agree, whatever was lost or came late: on who is waiting
\* and on who plays which seat.
SessionInv == SessionTypeOK /\ NoPhantom /\ PlaysOwnSeat

(* What the two hold to, whichever timeouts fire when: the matchmaker's list  *)
(* is a line that is served in turn, and a port is one match server after     *)
(* another that seats each newcomer once and starts when all have picked -    *)
(* also when a lobby is spawned for a port that is still taken.               *)
Line == INSTANCE MatchLine WITH Client <- Bots, line <- queue, summoned <- told
Port(p) == INSTANCE GamePort WITH
    Player <- Bots, phase <- server[p].phase, seats <- server[p].seats,
    picks <- server[p].picks

PortsServe ==
    /\ \A p \in PortNumbers : Port(p)!Init
    /\ [][\A p \in PortNumbers : [Port(p)!Next]_(Port(p)!vars)]_sessionVars

\* Line and ports keep what they promise the bots.
SessionServes == Line!Spec /\ Line!InTurn /\ PortsServe

(* The deployment heals: lost datagrams, failed spawns and crashed servers    *)
(* leave ghost seats, stale lobbies and bots at servers that are gone, but    *)
(* once the faults end matches are played again, and again.                   *)
Heals == []<>(\E p \in PortNumbers : server[p].phase = "live")
=============================================================================
