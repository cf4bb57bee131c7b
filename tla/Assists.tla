------------------------------ MODULE Assists -------------------------------
(***************************************************************************)
(* What a hero remembers of those who hit it (packages/simulation/         *)
(* arena_game.c, record_assist_damage() and the reward branch of           *)
(* apply_damage_ex()), and what a streak of kills pays.                    *)
(*                                                                         *)
(* A memory is the two arrays assist_owner[] and assist_ms[] as a sequence *)
(* of records.  LedgerSpec is one victim under fire and one killer on a    *)
(* streak: hits, kills and ticks in any order.                             *)
(***************************************************************************)
EXTENDS Integers, FiniteSets, Sequences

CONSTANTS
    Attackers,      \* the heroes who may hit the victim, as indices of heroes[]
    MaxAssist,      \* ARENA_MAX_ASSIST_TRACK
    AssistWindow,   \* ARENA_ASSIST_WINDOW_MS, in ticks
    StreakWindow,   \* ARENA_MULTIKILL_WINDOW_MS, in ticks
    StreakCap       \* bound: kills in a row that are told apart

ASSUME LedgerNumbers == /\ Attackers \subseteq Nat /\ IsFiniteSet(Attackers)
                        /\ {MaxAssist, AssistWindow, StreakWindow, StreakCap} \subseteq Nat \ {0}

NoOne == -1
Least(S) == CHOOSE i \in S : \A j \in S : i <= j
Down(n) == IF n > 0 THEN n - 1 ELSE n

NoAssist == [by |-> NoOne, left |-> 0]
Blank == [i \in 1..MaxAssist |-> NoAssist]

\* Fault: the entry that was refreshed last makes room
Freshest(memory) == {i \in DOMAIN memory : \A j \in DOMAIN memory : memory[i].left >= memory[j].left}
Stalest(memory) == {i \in DOMAIN memory : \A j \in DOMAIN memory : memory[i].left <= memory[j].left}

Entries(memory, k) ==
    LET same == {i \in DOMAIN memory : memory[i].by = k}
        free == {i \in DOMAIN memory : memory[i].by = NoOne}
    IN IF same # {} THEN same ELSE free

\* record_assist_damage(): refresh, else a free entry, else the one closest to expiring
Remember(memory, k) ==
    LET place == Least(IF Entries(memory, k) # {} THEN Entries(memory, k) ELSE Stalest(memory))
    IN [memory EXCEPT ![place] = [by |-> k, left |-> AssistWindow]]
\* Fault: a window that is over goes on running
ForgetPast(memory) == [i \in DOMAIN memory |-> [memory[i] EXCEPT !.left = @ - 1]]
Forget(memory) == [i \in DOMAIN memory |-> [memory[i] EXCEPT !.left = Down(@)]]
Live(memory) == {memory[i].by : i \in {j \in DOMAIN memory : memory[j].by # NoOne /\ memory[j].left > 0}}

\* arena_multikill_fib(): 1, 2, 3, 5, 8 times the bounty for 1, 2, 3, 4, 5 kills in a row
MultikillFib(n) ==
    IF n <= 1 THEN 1
    ELSE LET pair[i \in 0..n] == IF i < 2 THEN <<1, 2>> ELSE <<pair[i - 1][2], pair[i - 1][1] + pair[i - 1][2]>>
         IN pair[n - 1][2]

-----------------------------------------------------------------------------
VARIABLES
    memory,     \* the victim's assist_owner[] and assist_ms[]
    wound,      \* history: the ticks left of the window of each attacker's last hit, -1 if none
    streak,     \* the killer's multikill_count and multikill_timer_ms
    paid,       \* the multiplier of the killer's last bounty
    chain       \* history: the ticks between the killer's last kills, newest last

ledgerVars == <<memory, wound, streak, paid, chain>>

LedgerInit ==
    /\ memory = Blank
    /\ wound = [k \in Attackers |-> -1]
    /\ streak = [count |-> 0, left |-> 0]
    /\ paid = 0
    /\ chain = <<>>

\* A credited hit that the victim survives.
LedgerHit(k) ==
    /\ memory' = Remember(memory, k)
    /\ wound' = [wound EXCEPT ![k] = AssistWindow]
    /\ UNCHANGED <<streak, paid, chain>>

Longer(s) == IF s.left > 0 THEN s.count + 1 ELSE 1
\* A kill: the multiplier is that of the streak the kill belongs to.
LedgerKill ==
    /\ Len(chain) < StreakCap
    /\ streak' = [count |-> Longer(streak), left |-> StreakWindow]
    /\ paid' = MultikillFib(Longer(streak))
    /\ chain' = Append(chain, 0)
    /\ UNCHANGED <<memory, wound>>

\* tick_hero_kit(): both windows run down
\* Fault: the window of a streak never closes
StreakKept(s) == s
StreakEnds(s) == [count |-> IF s.left = 1 THEN 0 ELSE s.count, left |-> Down(s.left)]
Later(gap) == IF gap > StreakWindow THEN gap ELSE gap + 1
LedgerTick ==
    /\ memory' = Forget(memory)
    /\ wound' = [k \in Attackers |-> Down(wound[k])]
    /\ streak' = StreakEnds(streak)
    /\ chain' = IF chain = <<>> THEN chain ELSE [chain EXCEPT ![Len(chain)] = Later(@)]
    /\ UNCHANGED paid

\* arena_respawn_hero(): the victim's memory and the killer's streak are of one life
LedgerRespawn ==
    \/ /\ memory' = Blank /\ wound' = [k \in Attackers |-> -1] /\ UNCHANGED <<streak, paid, chain>>
    \/ /\ streak' = [count |-> 0, left |-> 0] /\ chain' = <<>> /\ UNCHANGED <<memory, wound, paid>>

LedgerNext == (\E k \in Attackers : LedgerHit(k)) \/ LedgerKill \/ LedgerTick \/ LedgerRespawn
LedgerSpec == LedgerInit /\ [][LedgerNext]_ledgerVars

-----------------------------------------------------------------------------
\* Types: a memory's time and a streak never exceed their windows and the streak's cap
\* (record_assist_damage, apply_damage_ex).
LedgerTypeOK ==
    /\ memory \in [1..MaxAssist -> [by : Attackers \cup {NoOne}, left : 0..AssistWindow]]
    /\ streak.count \in 0..StreakCap /\ streak.left \in 0..StreakWindow
    /\ paid \in Nat

\* The memory holds who it should: nobody twice, each with the time its last hit has left, and
\* nobody was pushed out who hit more recently than one who was kept (the eviction of
\* record_assist_damage()).
FreshestRemembered ==
    LET known == {memory[i].by : i \in 1..MaxAssist} \ {NoOne}
        out == {k \in Attackers : wound[k] >= 0} \ known
    IN /\ Cardinality(known) = Cardinality({i \in 1..MaxAssist : memory[i].by # NoOne})
       /\ \A i \in 1..MaxAssist : memory[i].by # NoOne =>
            /\ memory[i].left = wound[memory[i].by]
            /\ \A k \in out : wound[k] <= memory[i].left

\* The kills since the last pause of a chain.
Breaks(gaps) == {i \in 1..(Len(gaps) - 1) : gaps[i] >= StreakWindow}
RunOf(gaps) ==
    Len(gaps) - (IF Breaks(gaps) = {} THEN 0 ELSE CHOOSE i \in Breaks(gaps) : \A j \in Breaks(gaps) : j <= i)

\* A bounty is multiplied by a Fibonacci number of the kills that followed one another within the
\* window, and a pause starts over: the reward of apply_damage_ex() with its timer.
BountyOfChain == chain # <<>> => paid = <<1, 2, 3, 5, 8, 13, 21>>[RunOf(chain)]

\* A victim's memory and a killer's streak are what the last blows and kills make them.
LedgerInv == LedgerTypeOK /\ FreshestRemembered /\ BountyOfChain
=============================================================================
