--------------------------- MODULE MatchLifecycle ---------------------------
(***************************************************************************)
(* What one match server promises, whatever packets reach it: it gathers   *)
(* LobbySize different players, drafts, plays, decides one winner, reports *)
(* each member's result at most once, and closes.                          *)
(***************************************************************************)
EXTENDS Integers, FiniteSets

CONSTANTS Addr, LobbySize

VARIABLES
    stage,      \* "gathering", "drafting", "live", "decided" or "closed"
    members,    \* the players that have a seat
    winner,     \* 0 until the match is decided, then the winning team, 1 or 2
    posted      \* the members whose result was recorded

vars == <<stage, members, winner, posted>>

Init ==
    /\ stage = "gathering"
    /\ members = {}
    /\ winner = 0
    /\ posted = {}

\* A newcomer is seated; the last one starts the draft.
Join(a) ==
    /\ stage = "gathering"
    /\ a \notin members
    /\ members' = members \union {a}
    /\ stage' = IF Cardinality(members') = LobbySize THEN "drafting" ELSE "gathering"
    /\ UNCHANGED <<winner, posted>>

Start ==
    /\ stage = "drafting"
    /\ stage' = "live"
    /\ UNCHANGED <<members, winner, posted>>

\* The result is final, and reported, on a best-effort basis, in the same step.
Decide ==
    /\ stage = "live"
    /\ stage' = "decided"
    /\ winner' \in {1, 2}
    /\ posted' \in SUBSET members
    /\ UNCHANGED members

\* A lobby that times out, a match that is over, or a crash.
Close ==
    /\ stage # "closed"
    /\ stage' = "closed"
    /\ UNCHANGED <<members, winner, posted>>

Next == (\E a \in Addr : Join(a)) \/ Start \/ Decide \/ Close

Spec == Init /\ [][Next]_vars
=============================================================================
