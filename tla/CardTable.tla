------------------------------ MODULE CardTable ------------------------------
(* The card game's server, apps/server/src/main.c, with the bots that play at *)
(* it, apps/client/bot_main.c, over UDP: datagrams may be lost, delivered     *)
(* again and overtake each other, but none is held back while more than       *)
(* Window later ones of its sender are sent.  What a card does to the field   *)
(* is CardField's; here it is only whether and in which order cards are       *)
(* passed to local_apply_card().                                              *)
EXTENDS Integers, FiniteSets, FiniteSetsExt, Sequences

CONSTANTS
    Guests,         \* addresses datagrams come from
    Forgers,        \* those whose ticket does not verify
    Seats,          \* seats 1..Seats (MAX_CLIENTS - 1)
    SeqSpan,        \* sequences count modulo this (uint16_t)
    Window,         \* bound on overtaking, see above
    Deck,           \* bound: how many cards each guest sends
    MaxLate         \* bound: ticks after the decision

Nobody == "nobody"
ASSUME CardTableAssumption ==
    /\ Nobody \notin Guests
    /\ {Seats, SeqSpan, MaxLate} \subseteq Nat \ {0}
    /\ Deck \in [Guests -> Nat]
    /\ Window \in 0 .. SeqSpan - 1 /\ Forgers \subseteq Guests

VARIABLES
    sent,           \* guest -> -1 before its CONNECT, then the cards it sent
    wire,           \* datagrams under way to the server
    seat,           \* seat -> guest or Nobody (client_active, clients)
    lastSeq,        \* seat -> client_last_seq
    welcomes,       \* history: the WELCOMEs sent, guest and seat
    applied,        \* history: seat -> serial numbers of the cards applied
    decided,        \* local_state.match_winner # 0
    logged,         \* last_winner_logged
    reports,        \* history: how often the result was reported
    late            \* ticks since the decision

tableVars == <<sent, wire, seat, lastSeq, welcomes, applied, decided, logged,
               reports, late>>

SeatNumbers == 1 .. Seats

TableInit ==
    /\ sent = [g \in Guests |-> -1]
    /\ wire = {}
    /\ seat = [i \in SeatNumbers |-> Nobody]
    /\ lastSeq = [i \in SeatNumbers |-> 0]
    /\ welcomes = {}
    /\ applied = [i \in SeatNumbers |-> <<>>]
    /\ decided = FALSE /\ logged = FALSE /\ reports = 0 /\ late = 0

-----------------------------------------------------------------------------
(* The guests: one CONNECT, never repeated, then a card every second whatever *)
(* comes back.  "serial" numbers a guest's datagrams; the sequence is all of  *)
(* it the server sees.                                                        *)
\* Fault: the sequence is kept in more than its 16 bits.
WideDatagram(g, type, n) == [from |-> g, type |-> type, serial |-> n,
                             sequence |-> n]

Datagram(g, type, n) == [from |-> g, type |-> type, serial |-> n,
                         sequence |-> n % SeqSpan]

\* Datagrams of g that may still be under way when it has sent n cards.
Fresh(g, n) == {m \in wire : m.from # g \/ n - m.serial <= Window}

send_connect_with_ticket(g) ==
    /\ sent[g] = -1
    /\ sent' = [sent EXCEPT ![g] = 0]
    /\ wire' = wire \cup {Datagram(g, "connect", 0)}
    /\ UNCHANGED <<seat, lastSeq, welcomes, applied, decided, logged, reports, late>>

send_card(g) ==
    /\ sent[g] \in 0 .. Deck[g] - 1
    /\ sent' = [sent EXCEPT ![g] = @ + 1]
    /\ wire' = Fresh(g, sent'[g]) \cup {Datagram(g, "card", sent'[g])}
    /\ UNCHANGED <<seat, lastSeq, welcomes, applied, decided, logged, reports, late>>

-----------------------------------------------------------------------------
(* The server: server_handle_packet() on one datagram.                        *)
Verified(g) == g \notin Forgers
FreeSeats == {i \in SeatNumbers : seat[i] = Nobody}

\* Fault: the search for the sender starts one seat too late.
SeatsPastFirst(g) == {i \in 2 .. Seats : seat[i] = g}

SeatsOf(g) == {i \in SeatNumbers : seat[i] = g}

(* A CONNECT of an address without a seat: a ticket that does not verify and  *)
(* a full table are answered by silence; a seated address is not welcomed     *)
(* again.                                                                     *)
Connected(m) ==
    /\ m.type = "connect" /\ SeatsOf(m.from) = {}
    /\ Verified(m.from) /\ FreeSeats # {}
    /\ LET i == Min(FreeSeats)
       IN /\ seat' = [seat EXCEPT ![i] = m.from]
          /\ welcomes' = welcomes \cup {<<m.from, i>>}
    /\ UNCHANGED <<lastSeq, applied>>

\* Fault: only the very same datagram is refused a second time.
NewerByDifference(m, i) == m.sequence # lastSeq[i]

(* A CARD_PLAY of a seated address is applied when its sequence is above the  *)
(* last one seen; the sequence is spent before the card is looked at.         *)
Newer(m, i) == m.sequence > lastSeq[i]
Played(m) ==
    \E i \in SeatsOf(m.from) :
        /\ m.type = "card" /\ Newer(m, i)
        /\ lastSeq' = [lastSeq EXCEPT ![i] = m.sequence]
        /\ applied' = [applied EXCEPT ![i] = Append(@, m.serial)]
        /\ UNCHANGED <<seat, welcomes>>

Ignored(m) ==
    /\ \/ m.type = "connect" /\ \/ SeatsOf(m.from) # {}
                                \/ ~Verified(m.from)
                                \/ FreeSeats = {}
       \/ m.type = "card" /\ \A i \in SeatsOf(m.from) : ~Newer(m, i)
    /\ UNCHANGED <<seat, lastSeq, welcomes, applied>>

\* A datagram arrives; a copy of it may stay under way.
server_handle_packet(m, again) ==
    /\ Connected(m) \/ Played(m) \/ Ignored(m)
    /\ wire' = IF again THEN wire ELSE wire \ {m}
    /\ UNCHANGED <<sent, decided, logged, reports, late>>

Lose(m) ==
    /\ wire' = wire \ {m}
    /\ UNCHANGED <<sent, seat, lastSeq, welcomes, applied, decided, logged,
                   reports, late>>

\* Fault: the result is reported on every turn of the loop.
DueAlways(d) == d

(* The rest of a turn of the loop: local_update() may decide the match, the   *)
(* result is logged and reported once, and the loop goes on for ever.         *)
ToReport(d) == d /\ ~logged
Turn ==
    /\ late < MaxLate
    /\ decided' \in {decided, TRUE}
    /\ logged' = decided'
    /\ reports' = reports + (IF ToReport(decided') THEN 1 ELSE 0)
    /\ late' = IF decided' THEN late + 1 ELSE late
    /\ UNCHANGED <<sent, wire, seat, lastSeq, welcomes, applied>>

TableNext ==
    \/ \E g \in Guests : send_connect_with_ticket(g) \/ send_card(g)
    \/ \E m \in wire : Lose(m) \/ \E again \in BOOLEAN : server_handle_packet(m, again)
    \/ Turn
    \/ (late = MaxLate /\ UNCHANGED tableVars)

TableSpec == TableInit /\ [][TableNext]_tableVars

-----------------------------------------------------------------------------
(* Types: a seat's last sequence is a 16-bit one, late counts within its      *)
(* bound, and the result is logged only of a decided match.                   *)
TableTypeOK ==
    /\ seat \in [SeatNumbers -> Guests \cup {Nobody}]
    /\ lastSeq \in [SeatNumbers -> 0 .. SeqSpan - 1]
    /\ late \in 0 .. MaxLate
    /\ logged = decided

(* Whatever is lost, repeated or overtaken, no card is applied twice and each *)
(* player's cards are applied in the order they were sent: until the sequence *)
(* numbers wrap, and beyond that if no datagram overtakes more than one other *)
(* (the sequence test in server_handle_packet).                               *)
InOrderOnce ==
    \A i \in SeatNumbers : \A j \in 1 .. Len(applied[i]) - 1 :
        applied[i][j] < applied[i][j + 1]

(* No address holds two seats, none was told another seat than the one it     *)
(* holds, and no address without a valid ticket holds any, whatever CONNECTs  *)
(* are repeated (server_handle_packet).                                       *)
OneSeatEach ==
    /\ \A i, j \in SeatNumbers : seat[i] = seat[j] /\ seat[i] # Nobody => i = j
    /\ \A w \in welcomes : seat[w[2]] = w[1]
    /\ \A i \in SeatNumbers : seat[i] \notin Forgers

(* The result goes to the account service exactly once, although the loop     *)
(* never ends and cards still arrive (the last_winner_logged latch in main).  *)
ReportedOnce == reports = IF decided THEN 1 ELSE 0

\* The table: each card once and in order, each account in one seat, one report.
TableInv == TableTypeOK /\ InOrderOnce /\ OneSeatEach /\ ReportedOnce
=============================================================================
