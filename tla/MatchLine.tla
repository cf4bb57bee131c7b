------------------------------ MODULE MatchLine -------------------------------
(* What a matchmaker promises the players who queue up, whatever becomes of   *)
(* their packets: who waits stands in the line once; the first LobbySize of   *)
(* the line leave it together, in the order they came, summoned to one match  *)
(* or, if its server could not be started, dropped; and whoever is being      *)
(* summoned cannot join again before the matchmaker has forgotten it.         *)
EXTENDS Integers, Sequences

CONSTANTS
    Client,
    LobbySize

VARIABLES
    line,        \* the players waiting, first come first
    summoned     \* the players sent to a match, or about to be

vars == <<line, summoned>>

Waiting == {line[i] : i \in DOMAIN line}
FirstOf == {line[i] : i \in 1 .. LobbySize}

Init == line = <<>> /\ summoned = {}

\* A player joins at the end; it was neither waiting nor is it still remembered.
Join(c) ==
    /\ c \notin Waiting
    /\ line' = Append(line, c)
    /\ summoned' \subseteq summoned
    /\ c \notin summoned'

\* The head of the line leaves it.
Leave ==
    /\ Len(line) >= LobbySize
    /\ line' = SubSeq(line, LobbySize + 1, Len(line))

Call == Leave /\ summoned' = summoned \union FirstOf

\* No server could be started: nobody is told, and nobody is kept from asking again.
Drop == Leave /\ UNCHANGED summoned

Forget == summoned' \subseteq summoned /\ UNCHANGED line

Next == (\E c \in Client : Join(c)) \/ Call \/ Drop \/ Forget

Spec == Init /\ [][Next]_vars

\* Who leaves the line leaves no one waiting who came before.
NoneOvertaken ==
    \A i \in DOMAIN line :
        line[i] \notin Waiting' => \A j \in 1 .. i : line[j] \notin Waiting'

\* Nobody is ever overtaken.
InTurn == [][NoneOvertaken]_vars
=============================================================================
