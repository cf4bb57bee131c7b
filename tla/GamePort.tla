------------------------------ MODULE GamePort ------------------------------
(***************************************************************************)
(* What a game port is to the players who come to it, one match server     *)
(* after another: nobody listens, or a lobby fills seat by seat, a draft   *)
(* takes one pick after another, a match is played, decided and over.      *)
(* A player's owner slot is its place among the seats, for as long as the  *)
(* server lives.                                                           *)
(***************************************************************************)
EXTENDS Integers, Sequences, FiniteSets

CONSTANTS Player, LobbySize

VARIABLES
    phase,      \* "off", "waiting", "draft", "live" or "over"
    seats,      \* the players seated, in the order of their slots
    picks       \* those of them whose pick counts

vars == <<phase, seats, picks>>

Vacant == seats = <<>> /\ picks = {}
IsSeated(b) == \E i \in DOMAIN seats : seats[i] = b

Init == phase \in {"off", "waiting"} /\ Vacant

\* A server starts to listen.
Open == phase = "off" /\ phase' = "waiting" /\ Vacant'

\* A newcomer takes the next slot; the last one opens the draft.
Seat(b) ==
    /\ phase = "waiting" /\ ~IsSeated(b)
    /\ seats' = Append(seats, b)
    /\ phase' = IF Len(seats') = LobbySize THEN "draft" ELSE "waiting"
    /\ UNCHANGED picks

\* A seated player picks, perhaps again; the last one's first pick starts the match.
Draft(b) ==
    /\ phase = "draft" /\ IsSeated(b)
    /\ picks' = picks \union {b}
    /\ phase' = IF Cardinality(picks') = LobbySize THEN "live" ELSE "draft"
    /\ UNCHANGED seats

Decide == phase = "live" /\ phase' = "over" /\ UNCHANGED <<seats, picks>>

\* The process ends: the match is over, the lobby was given up, or it crashed.
Close == phase # "off" /\ phase' = "off" /\ Vacant'

Next == Open \/ (\E b \in Player : Seat(b) \/ Draft(b)) \/ Decide \/ Close

Spec == Init /\ [][Next]_vars
=============================================================================
