---------------------------- MODULE MatchOutcome ----------------------------
(***************************************************************************)
(* What a match promises the server that runs it: at some tick one team    *)
(* has won, and from then on nothing changes.  The ticks of a team match   *)
(* count up to a limit, those of a duel are not counted.                   *)
(***************************************************************************)
EXTENDS Integers

CONSTANTS
    Limited,        \* TRUE: a team match (arena_update_teams), FALSE: a duel (arena_update)
    MatchTicks      \* ARENA_MATCH_MAX_DURATION_MS, in ticks
VARIABLES winner, elapsed

Init == winner = 0 /\ elapsed = 0

Tick ==
    /\ winner = 0
    /\ elapsed' = IF Limited THEN elapsed + 1 ELSE elapsed
    /\ winner' \in IF Limited /\ elapsed' >= MatchTicks THEN {1, 2} ELSE {0, 1, 2}

Spec == Init /\ [][Tick]_<<winner, elapsed>>
=============================================================================
