----------------------------- MODULE ArenaClient ------------------------------
(* The player's client of networked matches, apps/arena/src/main.c, with the  *)
(* server's side of its datagrams (server_handle_packet, fill_hero_snapshot   *)
(* and server_broadcast in apps/arena_server/src/main.c).  Both directions    *)
(* lose and reorder; what the player clicks and when clones come and go is    *)
(* free, and so is which hero was drafted: whether it aims its W with a click *)
(* and whether it divides.  Every match is played over a socket of its own.   *)
(* The player's hero, a teammate and their clones are units; a clone's slot   *)
(* is used again by whoever splits next.                                      *)
EXTENDS Integers, FiniteSets

CONSTANTS
    CloneSlots,     \* slots behind the players' ones
    Keys,           \* of Q, W and E, as 0, 1 and 2, those the player uses
    MaxUp, MaxDown  \* bounds: datagrams under way in each direction

ASSUME ClientAssumption ==
    /\ CloneSlots \cap {0, 1} = {} /\ IsFiniteSet(CloneSlots)
    /\ Keys \subseteq 0 .. 2 /\ {MaxUp, MaxDown} \subseteq Nat \ {0}

VARIABLES
    \* the server of the match the client's socket talks to
    matchPhase,     \* match_phase, or "none": nobody listens, or nobody knows it
    mySeat,         \* the slot its address was given
    seatPicked,     \* a hero is recorded for that slot
    clones,         \* clone slot -> clone_owner, or NoOwner
    ordered,        \* units that carry out an order of this client
    \* the client
    my_owner,
    net_phase, net_picked,
    shownWinner,    \* arena_state.winner
    shownClones,    \* the clones it shows
    selected,       \* selected_units; none selected means the hero itself
    aiming,         \* g_ground_target_pending_slot
    had,            \* history: the clones of this match it was shown as its own
    \* the wire
    up, down

serverVars == <<matchPhase, mySeat, seatPicked, clones, ordered>>
screenVars == <<my_owner, net_phase, net_picked, shownWinner, shownClones,
                selected, aiming, had>>
clientVars == <<serverVars, screenVars, up, down>>

NoOwner == -1
NoClones == [c \in CloneSlots |-> NoOwner]
Players == {0, 1}

\* The start of a match for a client that sits in slot s.
Opens(s) ==
    /\ matchPhase' = "waiting" /\ mySeat' = s /\ seatPicked' = FALSE
    /\ clones' = NoClones /\ ordered' = {}

ClientInit ==
    /\ matchPhase = "waiting" /\ mySeat = 0 /\ seatPicked = FALSE
    /\ clones = NoClones /\ ordered = {}
    /\ my_owner = mySeat
    /\ net_phase = "waiting" /\ net_picked = FALSE
    /\ shownWinner = 0
    /\ shownClones = NoClones /\ selected = {} /\ aiming = FALSE
    /\ had = {}
    /\ up = {} /\ down = {}

\* sendto() of each: a datagram is under way, or it is lost.
SendAll(ms) ==
    /\ \E arrive \in SUBSET ms : up' = up \cup arrive
    /\ Cardinality(up') <= MaxUp

-----------------------------------------------------------------------------
(* The server.                                                                *)

MatchMoves ==
    /\ \/ matchPhase = "waiting" /\ matchPhase' = "draft"
       \/ matchPhase = "draft" /\ seatPicked /\ matchPhase' = "live"
       \/ matchPhase = "live" /\ matchPhase' = "over"
    /\ UNCHANGED <<mySeat, seatPicked, clones, ordered, screenVars, up, down>>

\* A Tyler of the team divides, and a clone dies of the death it shares.
CloneComes(c, owner) ==
    /\ matchPhase = "live" /\ clones[c] = NoOwner
    /\ clones' = [clones EXCEPT ![c] = owner]
    /\ UNCHANGED <<matchPhase, mySeat, seatPicked, ordered, screenVars, up, down>>
CloneGoes(c) ==
    /\ clones[c] # NoOwner
    /\ clones' = [clones EXCEPT ![c] = NoOwner]
    /\ ordered' = ordered \ {c}
    /\ UNCHANGED <<matchPhase, mySeat, seatPicked, screenVars, up, down>>

\* server_broadcast(): the world and the slices of heroes go out apart.
World == [type |-> "world", phase |-> matchPhase,
          winner |-> IF matchPhase = "over" THEN 1 ELSE 0]
CloneSlice == [type |-> "clones", clones |-> clones]
server_broadcast ==
    /\ matchPhase # "none"
    /\ \E m \in {World, CloneSlice} : m \notin down /\ down' = down \cup {m}
    /\ Cardinality(down') <= MaxDown
    /\ UNCHANGED <<serverVars, screenVars, up>>

\* Fault: whoever sits in the match may command any clone in it.
ControlsAnyClone(sender, unit) ==
    unit = sender \/ (unit \in CloneSlots /\ clones[unit] # NoOwner)

arena_owner_controls(sender, unit) ==
    unit = sender \/ (unit \in CloneSlots /\ clones[unit] = sender)

\* An order packet, a cast or a pick arrives; the sender is known by its address.
ServerReads(m) ==
    /\ m \in up /\ up' = up \ {m}
    /\ seatPicked' = (seatPicked \/ (m.type = "pick" /\ matchPhase = "draft"))
    /\ ordered' = IF m.type = "order" /\ matchPhase = "live"
                     /\ arena_owner_controls(mySeat, m.unit)
                  THEN ordered \cup {m.unit} ELSE ordered
    /\ UNCHANGED <<matchPhase, mySeat, clones, screenVars, down>>

-----------------------------------------------------------------------------
(* The client's frame: events first, then the datagrams that have come.       *)

selected_or_self == IF selected = {} THEN {my_owner} ELSE selected

\* A click, or S or D, which work while aiming too: the order goes to every selected
\* unit, alive or not.
Command ==
    /\ shownWinner = 0
    /\ SendAll({[type |-> "order", unit |-> u] : u \in selected_or_self})
    /\ UNCHANGED <<serverVars, screenVars, down>>

\* A box around any of the units shown as its own; an empty one selects the hero.
\* The button may go down before the W key does.
BoxSelect ==
    /\ shownWinner = 0
    /\ selected' \in SUBSET ({my_owner} \cup {c \in CloneSlots : shownClones[c] = my_owner})
    /\ UNCHANGED <<serverVars, my_owner, net_phase, net_picked, shownWinner,
                   shownClones, aiming, had, up, down>>

\* Q, W and E are sent as slots 0, 1 and 2; only Bacon+Puck's W waits for a click.
Press(key, aimed) ==
    /\ shownWinner = 0
    /\ IF key = 1 /\ aimed
       THEN aiming' = TRUE /\ UNCHANGED up
       ELSE SendAll({[type |-> "cast", slot |-> key, pressed |-> key]})
            /\ UNCHANGED aiming
    /\ UNCHANGED <<serverVars, my_owner, net_phase, net_picked, shownWinner,
                   shownClones, selected, had, down>>

\* The click that confirms: on a hero it sends the pending slot less one, on none
\* nothing; a right click cancels at any time.  The pending slot of W is 1.
Confirm(onHero) ==
    /\ aiming /\ aiming' = FALSE
    /\ IF onHero
       THEN shownWinner = 0 /\ SendAll({[type |-> "cast", slot |-> 0, pressed |-> 1]})
       ELSE UNCHANGED up
    /\ UNCHANGED <<serverVars, my_owner, net_phase, net_picked, shownWinner,
                   shownClones, selected, had, down>>

Drafts ==
    /\ net_phase = "draft" /\ ~net_picked
    /\ SendAll({[type |-> "pick"]})
    /\ net_picked' = TRUE
    /\ UNCHANGED <<serverVars, my_owner, net_phase, shownWinner, shownClones, selected,
                   aiming, had, down>>

\* The end of net_poll_snapshots(): the same pick again while the draft goes on,
\* once a second (here whenever it likes).
Resend ==
    /\ net_phase = "draft" /\ net_picked
    /\ SendAll({[type |-> "pick"]})
    /\ UNCHANGED <<serverVars, screenVars, down>>

\* Fault: the pick is only forgotten when the player requeues.
PickStays(m) == net_picked

StillPicked(m) == net_picked /\ (m.type = "world" => m.phase = "draft")

\* net_poll_snapshots(): a datagram is applied as it comes; none carries an order.
net_poll_snapshots(m) ==
    /\ m \in down /\ down' = down \ {m}
    /\ net_phase' = IF m.type = "world" THEN m.phase ELSE net_phase
    /\ shownWinner' = IF m.type = "world" THEN m.winner ELSE shownWinner
    /\ net_picked' = StillPicked(m)
    /\ shownClones' = IF m.type = "clones" THEN m.clones ELSE shownClones
    /\ had' = had \cup {c \in CloneSlots : shownClones'[c] = my_owner}
    /\ UNCHANGED <<serverVars, my_owner, selected, aiming, up>>

SnapshotLost ==
    /\ \E m \in down : down' = down \ {m}
    /\ UNCHANGED <<serverVars, screenVars, up>>

\* Fault: the socket is kept, and what is under way on it.
SameSocket == UNCHANGED down

FreshSocket == down' = {}

\* Fault: the selection of a match is taken along into the next.
KeepsSelection == UNCHANGED selected

Deselects == selected' = {}

\* The OK button: the screen is cleared, though neither the slot nor what was being
\* aimed, and the client queues and connects anew.  A match may be found and its
\* WELCOME reach the client; the one WELCOME may be lost, or none be found: the
\* client goes on with the slot it had.
Requeue ==
    /\ shownWinner # 0
    /\ FreshSocket /\ up' = {}
    /\ net_phase' = "waiting" /\ net_picked' = FALSE
    /\ shownWinner' = 0 /\ shownClones' = NoClones
    /\ Deselects
    /\ \E welcomed \in BOOLEAN :
          \/ \E s \in Players : /\ Opens(s)
                                /\ my_owner' = IF welcomed THEN s ELSE my_owner
          \/ /\ matchPhase' = "none" /\ mySeat' = my_owner /\ seatPicked' = FALSE
             /\ clones' = NoClones /\ ordered' = {}
             /\ UNCHANGED my_owner
    /\ had' = {}
    /\ UNCHANGED aiming

ClientNext ==
    \/ MatchMoves \/ server_broadcast \/ SnapshotLost \/ Requeue
    \/ \E c \in CloneSlots : CloneGoes(c) \/ \E o \in Players : CloneComes(c, o)
    \/ \E m \in up : ServerReads(m)
    \/ \E m \in down : net_poll_snapshots(m)
    \/ Command \/ BoxSelect \/ Resend
    \/ Drafts \/ \E k \in Keys, aimed \in BOOLEAN : Press(k, aimed)
    \/ \E onHero \in BOOLEAN : Confirm(onHero)

ClientSpec == ClientInit /\ [][ClientNext]_clientVars

-----------------------------------------------------------------------------
(* Types: a pick is remembered during a draft only, and nothing               *)
(* but its own hero and clone slots is ever selected (main's state).          *)
ClientTypeOK ==
    /\ my_owner \in Players /\ mySeat \in Players
    /\ matchPhase \in {"none", "waiting", "draft", "live", "over"}
    /\ net_picked => net_phase = "draft"
    /\ selected \subseteq {my_owner} \cup CloneSlots
    /\ Cardinality(up) <= MaxUp /\ Cardinality(down) <= MaxDown

(* The client believes a match over only when it is, although datagrams of    *)
(* the match before may still be under way when it connects to the next: each *)
(* match has a socket of its own (the OK button and net_connect).             *)
OverIsOver == shownWinner # 0 => matchPhase = "over"

(* No unit of another player ever carries out an order of this client, though *)
(* a clone's slot may have changed hands while the order was under way, or    *)
(* the client may believe it sits elsewhere (arena_owner_controls).           *)
OwnUnitsObey == \A u \in ordered : u = mySeat \/ clones[u] = mySeat

(* What is selected is the hero or a clone this match has shown as the        *)
(* player's: no owner index survives a requeue (the reset in the OK button).  *)
SelectionOfThisMatch == selected \subseteq {my_owner} \cup had

\* The client's picture of a match is of this match, and commands only its own units.
ClientInv == ClientTypeOK /\ OwnUnitsObey /\ OverIsOver /\ SelectionOfThisMatch

(* What a key asks for is what the server is asked to cast: pending slots     *)
(* count from 1 for Q (g_ground_target_pending_slot), the wire from 0, and    *)
(* Bacon+Puck's W is set pending as 1.                                        *)
CastsAsPressed == \A m \in up : m.type = "cast" => m.slot = m.pressed
=============================================================================
