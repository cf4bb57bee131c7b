----------------------------- MODULE Matchmaker -----------------------------
(***************************************************************************)
(* The matchmaker (apps/matchmaker/src/main.c): one single-threaded loop   *)
(* that drains every waiting UDP packet into a queue of client addresses,  *)
(* then turns every full lobby at the head of the queue into a spawned     *)
(* match server and a MATCH_FOUND to each member, then sleeps.             *)
(*                                                                         *)
(* A FIND_MATCH may arrive from any client at any time: retries, duplicates*)
(* and late packets are all arrivals of the same datagram, which is why    *)
(* the clients need no state here.  Time passes while the loop sleeps; the *)
(* program reads it through a 32-bit millisecond clock that wraps, the     *)
(* model through one that wraps at ClockWrap.                              *)
(***************************************************************************)
EXTENDS Integers, Sequences, FiniteSets

CONSTANTS
    Client,          \* the addresses FIND_MATCH may come from
    LobbySize,       \* lobby_size: players per match
    MaxQueue,        \* MAX_QUEUE: length of both arrays
    Cooldown,        \* MATCH_COOLDOWN_MS
    ClockWrap,       \* the clock counts modulo this (2^32 in the program)
    FirstPort,       \* first_game_port
    PortRange        \* game_port_range

\* The clamps main() applies to its arguments, and the width of the clock.
ASSUME LobbyAssumption == LobbySize \in Nat /\ MaxQueue \in Nat
                          /\ 2 <= LobbySize /\ LobbySize <= MaxQueue
ASSUME ClockAssumption == Cooldown \in Nat /\ ClockWrap \in Nat
                          /\ 0 < Cooldown /\ Cooldown < ClockWrap
ASSUME PortAssumption  == FirstPort \in Nat /\ PortRange \in Nat /\ 1 <= PortRange
ASSUME ClientAssumption == IsFiniteSet(Client)

VARIABLES
    wait_queue,        \* the clients waiting, in order of arrival
    recently_matched,  \* the cooldown list: addresses with the time of their match
    next_game_port,
    now,               \* what now_ms() returns
    age,               \* physical time since a client's last match, up to Cooldown
    group,             \* the rest of the group try_match() is telling
    port,              \* the port that group is told
    stage,             \* where the main loop is
    outcome,           \* history: how a client's last wait ended
    roster,            \* history: whom the last server on a port was spawned for
    spawns_since       \* history: spawns since a port was last handed out

vars == <<wait_queue, recently_matched, next_game_port, now, age, group, port,
          stage, outcome, roster, spawns_since>>

Port == FirstPort .. FirstPort + PortRange - 1
Stage == {"drain", "match", "announce"}
Recent == [addr : Client, matched_at_ms : 0 .. ClockWrap - 1]

Members(s) == {s[i] : i \in DOMAIN s}
Remembered == {e.addr : e \in recently_matched}

-----------------------------------------------------------------------------
(* The cooldown list.                                                      *)

\* Unsigned subtraction of two clock readings.
Elapsed(e) == (now - e.matched_at_ms) % ClockWrap

\* What prune_recently_matched() keeps.
Pruned == {e \in recently_matched : Elapsed(e) < Cooldown}

\* Fault: no cooldown at all.
NeverCoolingDown(c) == FALSE

CoolingDown(c) == \E e \in Pruned : e.addr = c

\* Fault: pushes out the newest.
Newest(S) == {e \in S : \A f \in S : age[f.addr] >= age[e.addr]}

\* The entries mark_recently_matched() may push out of a full list: the list is
\* in order of marking, so the first one is the one that was marked longest ago.
Oldest(S) == {e \in S : \A f \in S : age[f.addr] <= age[e.addr]}

-----------------------------------------------------------------------------
Init ==
    /\ wait_queue = <<>>
    /\ recently_matched = {}
    /\ next_game_port = FirstPort
    /\ now = 0
    /\ age = [c \in Client |-> Cooldown]
    /\ group = <<>>
    /\ port = FirstPort
    /\ stage = "drain"
    /\ outcome = [c \in Client |-> "none"]
    /\ roster = [p \in Port |-> {}]
    /\ spawns_since = [p \in Port |-> PortRange]

(* enqueue(): what one FIND_MATCH does.                                    *)

\* The client is waiting already; nothing is touched, not even the cooldown list.
AlreadyQueued(c) ==
    /\ stage = "drain"
    /\ c \in Members(wait_queue)
    /\ UNCHANGED vars

\* A retry that was in flight when its sender was matched.
IgnoreStaleRetry(c) ==
    /\ stage = "drain"
    /\ c \notin Members(wait_queue)
    /\ CoolingDown(c)
    /\ recently_matched' = Pruned
    /\ UNCHANGED <<wait_queue, next_game_port, now, age, group, port, stage,
                   outcome, roster, spawns_since>>

DropWhenFull(c) ==
    /\ stage = "drain"
    /\ c \notin Members(wait_queue)
    /\ ~CoolingDown(c)
    /\ Len(wait_queue) >= MaxQueue
    /\ recently_matched' = Pruned
    /\ UNCHANGED <<wait_queue, next_game_port, now, age, group, port, stage,
                   outcome, roster, spawns_since>>

Enqueue(c) ==
    /\ stage = "drain"
    /\ c \notin Members(wait_queue)
    /\ ~CoolingDown(c)
    /\ Len(wait_queue) < MaxQueue
    /\ recently_matched' = Pruned
    /\ wait_queue' = Append(wait_queue, c)
    /\ UNCHANGED <<next_game_port, now, age, group, port, stage, outcome, roster,
                   spawns_since>>

FindMatch(c) ==
    AlreadyQueued(c) \/ IgnoreStaleRetry(c) \/ DropWhenFull(c) \/ Enqueue(c)

\* The socket has nothing more to read.
EndDrain ==
    /\ stage = "drain"
    /\ stage' = "match"
    /\ UNCHANGED <<wait_queue, recently_matched, next_game_port, now, age, group,
                   port, outcome, roster, spawns_since>>

(* try_match(): one group per step, then one member per step.              *)

\* Faults: one port too many, one too few.
NextPortLate(p) == IF p + 1 > FirstPort + PortRange THEN FirstPort ELSE p + 1
NextPortEarly(p) == IF p + 2 >= FirstPort + PortRange THEN FirstPort ELSE p + 1

NextPort(p) == IF p + 1 >= FirstPort + PortRange THEN FirstPort ELSE p + 1

\* The group leaves the queue and the port is used up whether or not fork() works.
TakeGroup ==
    /\ stage = "match"
    /\ Len(wait_queue) >= LobbySize
    /\ wait_queue' = SubSeq(wait_queue, LobbySize + 1, Len(wait_queue))
    /\ port' = next_game_port
    /\ next_game_port' = NextPort(next_game_port)
    /\ spawns_since' = [p \in Port |-> IF p = next_game_port THEN 0
                                       ELSE IF spawns_since[p] < PortRange
                                            THEN spawns_since[p] + 1
                                            ELSE PortRange]

\* Fault: the last of the group is left out.
TakenShort == SubSeq(wait_queue, 1, LobbySize - 1)

\* Fault: the group is taken from the end of the queue.
TakenLast == SubSeq(wait_queue, Len(wait_queue) - LobbySize + 1, Len(wait_queue))

Taken == SubSeq(wait_queue, 1, LobbySize)

SpawnServer ==
    /\ TakeGroup
    /\ group' = Taken
    /\ stage' = "announce"
    /\ roster' = [roster EXCEPT ![next_game_port] = {}]
    /\ UNCHANGED <<recently_matched, now, age, outcome>>

\* Fault: a group nobody spawned a server for is marked all the same.
SpawnFailsMarked ==
    /\ TakeGroup
    /\ recently_matched' = {[addr |-> c, matched_at_ms |-> now] : c \in Members(Taken)}
    /\ UNCHANGED <<now, age, outcome, group, stage, roster>>

\* fork() fails: the group is gone, nobody is told and nobody is marked.
SpawnFails ==
    /\ TakeGroup
    /\ outcome' = [c \in Client |-> IF c \in Members(Taken) THEN "dropped" ELSE outcome[c]]
    /\ UNCHANGED <<recently_matched, now, age, group, stage, roster>>

\* Fault: the list has no end.
MarkWithoutEviction(c) ==
    recently_matched' = Pruned \union {[addr |-> c, matched_at_ms |-> now]}

\* mark_recently_matched() of c: prune, make room, append.
MarkRecentlyMatched(c) ==
    LET entry == [addr |-> c, matched_at_ms |-> now]
    IN  IF Cardinality(Pruned) < MaxQueue
        THEN recently_matched' = Pruned \union {entry}
        ELSE \E e \in Oldest(Pruned) :
                recently_matched' = (Pruned \ {e}) \union {entry}

\* sendto() and mark for the next member of the group.
Announce ==
    /\ stage = "announce"
    /\ group # <<>>
    /\ LET c == Head(group)
       IN  /\ MarkRecentlyMatched(c)
           /\ age' = [age EXCEPT ![c] = 0]
           /\ outcome' = [outcome EXCEPT ![c] = "told"]
           /\ roster' = [roster EXCEPT ![port] = @ \union {c}]
    /\ group' = Tail(group)
    /\ UNCHANGED <<wait_queue, next_game_port, now, port, stage, spawns_since>>

EndAnnounce ==
    /\ stage = "announce"
    /\ group = <<>>
    /\ stage' = "match"
    /\ UNCHANGED <<wait_queue, recently_matched, next_game_port, now, age, group,
                   port, outcome, roster, spawns_since>>

\* Fault: the loop sleeps on a full lobby.
SleepAnyway ==
    /\ stage = "match"
    /\ stage' = "drain"
    /\ now' = (now + 1) % ClockWrap
    /\ age' = [c \in Client |-> IF age[c] < Cooldown THEN age[c] + 1 ELSE Cooldown]
    /\ UNCHANGED <<wait_queue, recently_matched, next_game_port, group, port,
                   outcome, roster, spawns_since>>

\* No full lobby is left: the loop sleeps 16 ms, the model's unit of time, and
\* then reads the socket again.
Sleep ==
    /\ stage = "match"
    /\ Len(wait_queue) < LobbySize
    /\ stage' = "drain"
    /\ now' = (now + 1) % ClockWrap
    /\ age' = [c \in Client |-> IF age[c] < Cooldown THEN age[c] + 1 ELSE Cooldown]
    /\ UNCHANGED <<wait_queue, recently_matched, next_game_port, group, port,
                   outcome, roster, spawns_since>>

Next ==
    \/ \E c \in Client : FindMatch(c)
    \/ EndDrain
    \/ SpawnServer
    \/ SpawnFails
    \/ Announce
    \/ EndAnnounce
    \/ Sleep

Spec == Init /\ [][Next]_vars

\* The loop never blocks.  A waiting client repeats FIND_MATCH every five seconds,
\* half a cooldown, so it is not always heard while it is cooling down.
Fairness ==
    /\ WF_vars(EndDrain) /\ WF_vars(Sleep)
    /\ WF_vars(Announce) /\ WF_vars(EndAnnounce)
    /\ WF_vars(SpawnServer \/ SpawnFails)
    /\ \A c \in Client : SF_vars(Enqueue(c))

FairSpec == Spec /\ Fairness

-----------------------------------------------------------------------------
(* Properties.                                                             *)

\* The types, with the bounds the program relies on: ports stay in their range.
TypeOK ==
    /\ wait_queue \in Seq(Client)
    /\ recently_matched \in SUBSET Recent
    /\ next_game_port \in Port
    /\ now \in 0 .. ClockWrap - 1
    /\ age \in [Client -> 0 .. Cooldown]
    /\ group \in Seq(Client)
    /\ port \in Port
    /\ stage \in Stage
    /\ outcome \in [Client -> {"none", "told", "dropped"}]
    /\ roster \in [Port -> SUBSET Client]
    /\ spawns_since \in [Port -> 0 .. PortRange]

Distinct(s) == \A i, j \in DOMAIN s : s[i] = s[j] => i = j

\* A client is in one place: waiting once, or being told, or remembered as matched.
\* This is what keeps a late retry from taking a second seat (enqueue, try_match).
OnePlace ==
    /\ Distinct(wait_queue)
    /\ Distinct(group)
    /\ Members(wait_queue) \intersect Members(group) = {}
    /\ Remembered \intersect (Members(wait_queue) \union Members(group)) = {}
    /\ \A e, f \in recently_matched : e.addr = f.addr => e = f

\* Neither array outgrows MAX_QUEUE.
WithinCapacity ==
    /\ Len(wait_queue) <= MaxQueue
    /\ Len(group) <= LobbySize
    /\ Cardinality(recently_matched) <= MaxQueue

\* A client matched less than Cooldown ago is still remembered, unless MaxQueue
\* other clients were matched no earlier than it was: only the oldest is evicted.
CooldownRemembered ==
    \A c \in Client :
        age[c] < Cooldown =>
            \/ c \in Remembered
            \/ Cardinality({d \in Client \ {c} : age[d] <= age[c]}) >= MaxQueue

\* The cooldown list forgets a client early only when it is full, and then the oldest.
CooldownKept == WithinCapacity /\ CooldownRemembered

\* Only a client that was really told is ignored: a group lost to a failed fork()
\* may queue again at once.
CooldownOnlyWhenTold == \A c \in Remembered : outcome[c] = "told"

\* A spawned server is announced to lobby_size different clients, none missing.
FullLobby ==
    \A p \in Port :
        \/ stage = "announce" /\ p = port
        \/ Cardinality(roster[p]) \in {0, LobbySize}

\* A port is handed out again only after every other port of the range was.
PortReuse == spawns_since[next_game_port] >= PortRange - 1

\* Every match gets its full lobby, on the port that has been out of use the longest.
SpawnsInOrder == FullLobby /\ PortReuse

\* The queue is a line: the first lobby_size of it leave it together and in turn, and
\* whoever is being told, or is still remembered, cannot join it (enqueue, try_match).
Line == INSTANCE MatchLine WITH
    line <- wait_queue, summoned <- Members(group) \union Remembered
KeepsTheLine == Line!Spec /\ Line!InTurn

\* Every wait ends: with enough other clients asking, a queued client leaves the queue.
QueueMoves ==
    \A c \in Client : c \in Members(wait_queue) ~> c \notin Members(wait_queue)
=============================================================================
