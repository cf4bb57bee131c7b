# A verification project for REDGARDEN

REDGARDEN is a multiplayer arena game: players (or bots) queue at a matchmaker,
which spawns one authoritative server process per match; the server seats them,
runs a draft, steps the simulation sixteen milliseconds at a time, reports the
result and exits. A second, older game, a card RTS, shares the matchmaker.

This directory holds TLA+ modules translated from that code, TLC configurations that
check them on small instances, and TLAPS proofs of their invariants, action properties
and refinements for every value of the constants. `PROJECT.json` names, for every
definition that models code, the lines it stands for.

## The system

| part | state | operations | talks to |
|---|---|---|---|
| matchmaker (`apps/matchmaker`) | queue of addresses, cooldown list, port counter | FIND_MATCH, try_match, sleep | clients (UDP), match servers (fork/exec) |
| match server (`apps/arena_server`) | seats, picks, phase, timers, the simulation | CONNECT, PICK, order packets, the loop body | clients (UDP), IDUNA (HTTP), the simulation (calls) |
| simulation (`packages/simulation/arena_game.c`) | heroes, nodes, towers, creeps, camps, kings, projectiles, the resource race | orders, casts, shop calls, `arena_update` / `arena_update_teams` | its server only |
| bot (`apps/arena_bot`) | its socket, slot, last two snapshots, retreat, camping and shopping state | wait for a match, connect, play, start again | matchmaker, match server |
| client (`apps/arena`) | its socket, slot, selection, aimed cast, what it shows | clicks and keys, snapshots, requeue | matchmaker, match server |
| card RTS (`packages/simulation/local_game.c`, `apps/server`, `apps/client`) | cells, units, outposts, influence, tech; seats and sequence numbers | CARD_PLAY, ticks | clients (UDP) |
| replay, training, league, deployment (`arena_replay.c`, `arena_training`, `scripts/`) | logs, checkpoints, pools | offline | files, git, systemd |
| common code (`packages/common`, `packages/goldenband`), launcher (`apps/lobby`) | none that lasts | encoding, HTTP, HMAC, inference, animation | everything |

Every process is single-threaded: a loop drains its UDP socket, one handler per
datagram, then runs its body. So handlers are atomic, and what interleaves is the
order of datagrams from different clients, the ticks between them, other processes,
and failures of fork, HTTP and the network. Within a tick the simulation is a long
sequence of loops over the same array of heroes; there the order of the loops, and of the
heroes in each, is what may go wrong.

What is hard here:

- **matchmaker**: retries that outlive the match they asked for; a list and a queue of
  64 entries; a clock of 32 bits; a fork that fails after the group left the queue; a
  port range that wraps. Correct means: nobody in two places, nobody told to join a
  lobby with a hole, nobody ignored for good.
- **match server**: a phase machine driven by counters, players who change their minds,
  a report made of many requests of which any may fail, three ways to end. Correct
  means: counters that count, the heroes that were picked, one faithful result, and a
  process that always ends.
- **the deployment**: WELCOME sent once, one datagram read per poll, snapshots of the
  last match in the way of MATCH_FOUND, one socket for everything. Correct means: matches
  go on after any faults, everybody plays in the seat he was given.
- **team match**: presence, damage, stealth, towers, guardians, marks and deaths all
  bear on one channel; dead heroes return in waves where their team owns ground; a race
  and a time limit may decide on the same tick. Correct means: ground is earned, the
  winner is not behind, everybody comes back, every match is decided.
- **combat and kits**: several blows on one victim in a tick, clones that die with their
  owner, locks and shots that outlive what they were aimed at, memories with few places,
  thirty-one kits with their own tests, many flags set and cleared in many places.
  Correct means: a death is suffered and paid once, to who earned it; what is hidden is
  safe, what is silenced fails, what is promised lasts.
- **orders**: chases, dashes and rewinds write over the targets of standing orders.
- **the map**: fixed pools, timers shared by two phases, buffs made of two fields.
- **shop**: buying sells first, templates stop halfway, equipment moves hit points
  through death. Correct means: trades cost, hit points fit the equipment.
- **the card game**: duplicated and late cards, a pool of entities, a hold that must not
  be interrupted. **The bot**: latches with thresholds, squads nobody commands.
  **The client**: what it keeps from one match to the next.

`PROJECT.json` lists the chief of these as hazards, each at its line with the properties that
cover it, or the reason none does; smaller ones are under *Where code and
documents disagree*.

## Modules

| module | models | checked by | proved in |
|---|---|---|---|
| `Matchmaker` | `apps/matchmaker/src/main.c`, all of it | `MCMatchmaker`, `MCSession` | `MatchmakerProofs` |
| `MatchLine` | abstract: what a matchmaker promises those who queue | as a property of `Matchmaker` and of `Session` | `MatchmakerProofs`, `BotProofs` |
| `MatchLifecycle` | abstract: what one match server promises the account service | as a property of `ArenaServer` | `ArenaServerProofs` |
| `GamePort` | abstract: what one server after another on a port is to the players who come to it | as a property of `ArenaServer` and of `Session` | `ArenaServerProofs`, `BotProofs` |
| `ArenaServer` | `apps/arena_server/src/main.c`: lobby, draft, loop, report, exits | `MCArenaServer`, `MCSession` | `ArenaServerProofs` |
| `Session` | bots, matchmaker and servers over UDP, match after match | `MCSession` | `BotProofs` |
| `MatchOutcome` | abstract: what a match, with a time limit or without, promises its server | as a property of `ArenaServer` and of `ArenaMatch` | `ArenaServerProofs`, `ArenaMatchProofs`, `PlayersProofs` |
| `ArenaMatch` | `arena_game.c`: nodes, guardians, towers' gate, marks, waves, race, decision | `MCArenaMatch` | `ArenaMatchProofs` |
| `Orders` | `arena_game.c`: one unit's orders, motion, locks and swings | `MCMap` | `MapProofs` |
| `Combat`, `Assists` | `arena_game.c`: blows, shots, deaths, clones, rewards; what a victim remembers | `MCBattle` | `BattleProofs` |
| `HeroKits` | `arena_game.c`: every hero's Q, W and R and `tick_hero_kit` | `MCBattle` | `HeroProofs` |
| `ArenaShop` | `arena_game.c`: one hero's purse, equipment and hit points | `MCMap`, `MCArenaShop` | `HeroProofs` |
| `Lanes`, `Wilds`, `Grounds` | `arena_game.c`: lane creeps; camps, Kings, synergy, guardians and towers as prey; night, power-ups, fountains, trees | `MCMap` | `MapProofs` |
| `Duel` | `arena_game.c`: `arena_update` and the one-on-one bot | `MCPlayers` | `PlayersProofs` |
| `ArenaBot` | `apps/arena_bot/src/main.c`: decisions and squads | `MCPlayers` | `BotProofs` |
| `ArenaClient` | `apps/arena/src/main.c`, networked, with its server's side | `MCPlayers`, `MCArenaClient` | `PlayersProofs` |
| `CardField`, `CardTable` | `local_game.c`; `apps/server`, `apps/client/bot_main.c` | `MCPlayers` | `PlayersProofs` |

The four abstract modules are where the parts meet: the matchmaker in full and the one cut
down in `Session` implement the same `MatchLine`; the server in full, one process, and the
ports of `Session`, where one process follows another, the same `GamePort`; and the server
relies on the `MatchOutcome` that both simulations keep, `ArenaMatch` with its time limit and
`Duel` without one.

`Combat` EXTENDS `Assists` (the memory of hits is one operator for both), every other module
of the simulation stands alone: what another part does to its variables is an action of
its own or a choice in one, so each admits whatever the rest of the tick can do to it.

### Matchmaker

`wait_queue`, `recently_matched` and `next_game_port` are the program's statics; `now`
is what `now_ms()` returns, modulo `ClockWrap` as it is modulo 2^32. `stage`, `group`
and `port` are where `main` and `try_match` are and their locals: draining the socket
(`FindMatch`, the four early returns of `enqueue`), matching (`SpawnServer` or
`SpawnFails` per group), telling (`Announce` per member), sleeping. A FIND_MATCH may
come from any client at any time: first requests, retries, duplicates and late packets
are the same datagram, so losing, repeating and delaying them needs no state of the
network. The cooldown list is a set of entries; its order in the array is the order of
marking, which the ghost `age` recovers, so `Oldest` is the entry the code pushes out.
`age`, `outcome`, `roster` and `spawns_since` are history; no guard of an action
reads them except `Oldest`, as just said. A fork that succeeds and an exec that then
fails in the child are the same step to the matchmaker.

### ArenaServer

`match_phase`, `clients`, `hero_pick(ed)`, the counters and the timers are the program's
statics and the locals of `main`; `hero_id`, `winner` and `match_elapsed` belong to the
simulation. `Connect` and `Pick` are the branches of `server_handle_packet` that change
the lobby; every other packet is an order to the simulation or changes nothing.
`LoopBody` is one pass of the loop after the socket is drained, in its order: simulate,
report and start the countdown when the winner is news, or count the lobby's time;
broadcast; count down. `ReportMatchResult` lets any subset of the HTTP requests succeed:
the login, each result, each character lookup and credit. `Crash` is a fatal signal at
any moment; nothing is persisted and nobody restarts the process. The simulation is
reduced to what the server looks at, its winner, by what `MatchOutcome` promises: that
`ArenaMatch` and `Duel` keep that promise is proved. A duel (`LobbySize = 2`)
takes the code's other branches: heroes from a reset, no time limit. `PassesLeft` counts the
passes of the loop a process has before it at most.

### ArenaMatch

A hero is at one node or elsewhere, alive or not, intangible or not, hurt this tick or not.
`BeginTick` and `EndTick` are the two ends of `arena_update_teams`; in between, and between
ticks, heroes may move anywhere, be hit, die, vanish, mark nodes and kill guardians in any
order (`Fight`), which admits whatever orders, motion, combat and kits can do to these
variables and more. A tower falls only within a tick, as only the attack pass calls
`tower_die`; a tower and its node's guardian are numbered alike. Of the four kits with a
part in capturing, each has its own: Tree doubles the channel, Flamel marks, Pizza spoils
every attempt, and Frog, Ghost, Noor-1, MNM, Donkey and Bacon Puck vanish. Ticks replace
milliseconds: 16 does not divide the 2000 of a resource tick or the 30000 of a wave, so the
code's ticks fall up to one step late there, which no property can tell. `held`, `short_for`
and `crowd` are history.

### ArenaShop

One hero, because no hero's shopping touches another's. `AfterBuy`, `AfterSell`,
`AfterTemplate` are functions on the record the code updates, composed as the code calls
them; `Refit` is `arena_recompute_item_stats` for hit points (mana is clamped alike, the
other bonuses are sums). Prices are the model's, in the proportions of the catalogue.

### Session

Two of the programs cut down to what the bots' packets do to them, and the bot's networking
in full: `AskAgain` and `ReadWhileAsking` (`wait_for_match`, one datagram a poll),
`ConnectAgain`, `ReadWhileConnecting`, `GiveUpConnecting` (`connect_to_server`), `Drain` and
`GiveUpPlaying` (`play_one_match`), `Requeue`. A bot's socket is one FIFO that every server
writes to, the old ones included; what does not fit is lost. A FIND_MATCH may arrive after
whatever its sender did next. `Find`, `Match`, `MatchFails`, `Forget` are the matchmaker,
`Broadcast`, `LobbyTimeout`, `Conclude`, `Exit`, `Crash` and the handlers inside the bots'
steps the servers; fork failing and exec failing are different faults. Timeouts are choices,
which `Patient` keeps from firing while the answer is still under way: they are 5 to 60 s
long against a network of milliseconds.

### Orders

One unit on a line of places, one enemy that walks, hides, dies and returns. `walker.mode`
and `route` are the fields of attack-move, hold and patrol; each order is the code's function of
that name, and `OrderTick` is the part of `arena_update_teams` that moves and aims, in its
order: motion, new swings, standing orders, chase, windups, kit timers. `Displaced`,
`Pushed`, `Glide`, `Bound`, `Killed` and `Returned` are what abilities, items and death do.

Some places lie under an obstacle (`Obstacles`), and the enemy has a body. Whoever steps
where one of them is (`Hindered`) is pushed to a place `Beside` it, also on the tick he arrives:
`update_hero_motion` stops him first and pushes him off his goal afterwards, and the ticks send
nobody to a goal he already has. `shoved` remembers that a unit was left at rest off its goal
(`Stranded`); what attack-move and patrol promise excepts such a unit, and counts
only ticks without an obstacle in the way.

### Combat and Assists

`unit` is `heroes[]` with the clones' range. A tick is a walk through its stages, unit by
unit (`stage`): respawns, new swings, windups, kits, shots; orders and abilities come between
ticks. `Hurt` is `apply_damage_ex` with its whole reward branch, `Cascade` the shared death,
`CastDivide` the clones that take over free slots. `LedgerSpec` in `Assists` is one victim
and one killer alone, where more attackers than places and longer chains fit. `deaths`,
`blow`, `wound` and `chain` are history.

### HeroKits

One hero with any kit; the enemy and the ally an ability finds are choices of the step. An
ability is a record of what it needs and what it does, by name (`QOf`, `WOf`, `ROf`, one
entry per hero); `CastQ`, `ToggleW`, `CastR` are the shared protocol around it, and
`TickHeroKit` runs the code's sections in their order, also for the dead. What abilities do
to others appears as the same events met from the other side (`Hit`, `Silenced`, `Stunned`,
`Cleansed`, `Granted`), and so do the wind of an allied Weatherman that keeps a gliding hero in
the air and out of reach for longer (`Tailwind`), that of an enemy which grounds him
(`Grounded`), a channel that reveals him (`Revealed`), the death Tyler shares with a clone
whatever floor he has (`Cascaded`) and the shopping that changes his `max_hp` (`Traded`), so
that a rewind may restore more than there is room for. `Glide` is the Donkey's.

### Lanes, Wilds, Grounds

Timed populations in fixed pools. `LaneTick` is `arena_tick_lane_creeps` with its waves and the
creeps' turns in index order; `Wilds` has four independent parts (camps, a King with his
buffs, synergy, the prey of a hero's six attack loops); `Grounds` three. Which hero is near is a
choice of each tick.

### Duel, ArenaBot, ArenaClient, CardField, CardTable

`Duel` has the rules by which the bot casts, hero by hero, as a table in their order.
`ArenaBot` is one decision of `play_one_match` per step, from the last two snapshots kept,
and the squads' choice of nodes as a pure function of a snapshot; who of a squad then walks to
its node, and how close, is not modelled. `ArenaClient` is the client's event loop
and `net_poll_snapshots` with the handlers and the broadcast of its server, over a wire that
loses and reorders. `CardField` is `local_update` section by section, slots in index order;
`CardTable` is the table around it, with the scripted client's 16-bit sequence numbers.

## Runs

Modules that share no variable are checked side by side in one run: the variable `part`
picks, in the initial state, whose steps a behaviour takes, and the others stand still. This
loses nothing, as the properties speak of one part each. Every action of every
part occurs in its run.

| run | instance | shows |
|---|---|---|
| `matchmaker_safety` | 4 clients, lobbies of 2, arrays of 3, cooldown 2, clock modulo 4, 3 ports | `TypeOK` (ports stay in range), `OnePlace`, `CooldownKept` (`WithinCapacity`, `CooldownRemembered`), `CooldownOnlyWhenTold`, `SpawnsInOrder` (`FullLobby`, `PortReuse`), `KeepsTheLine` (refinement of `MatchLine`, and nobody is overtaken) |
| `server_team` | 4 contenders for 3 seats (2 against 1), fair | `LobbyInv` (`TypeOK`, `CountsAgree`, `PhaseFollowsCounts`, `HeroesAsPicked`), `ReportedFaithfully`, `OrderlyExit`, `KeepsItsPromises` (refinement of `MatchLifecycle`, of `GamePort` and of `MatchOutcome`), `LoopRunsDown`: no packet buys the process time, `ServerExits` |
| `session` | 2 bots for lobbies of 2 on 1 port, sockets of 2 datagrams, 2 faults, fair; the matchmaker with 3 clients and arrays of 2, fair; the duel server with 2 visitors, fair | `SessionInv` (`NoPhantom`: nobody waits in the queue who is not asking; `PlaysOwnSeat`); `MatchesGoOn`: matches are played again and again; `SessionServes` (refinement of `MatchLine`, and of `GamePort` at every port); `PartsDeliver` (`QueueMoves`; for the duel server `LobbyInv` and `LobbyResolves`) |
| `match_channel` | 1 node, 2 heroes (one Tree) against 1, channel 4, 5 ticks | `ChannelInv` (`TowerGate`, `ChannelIsNeutral`, `OneHolder`), `CaptureEarned` |
| `match_race` | 1 node, 1 (Flamel) against 1, a short race, 5 ticks, fair | `WinnerNotBehind`, `NobodyMissesAWave`, `DecidesAsPromised` (refinement of `MatchOutcome`, `MatchDecided`) |
| `battle` | Tyler and his 2 clones against 2, one of them ranged and one stealthy; 3 attackers for 2 places; all 31 kits | `CombatInv` (`SharedFate`, `AwardsEarned`, `OneDeathOneAward`, `ShotsAtFoes`); `LedgerInv` (`FreshestRemembered`, `BountyOfChain`); `KitInv` (`SilencedCastFails`, `HiddenIsSafe`, `CorpsesHaveNoHp`, `ShieldTimed`, `FloorHolds`), `KitSteps` (`NothingForFree`, `ChainInTime`) |
| `map` | a line of 3 places, one under an obstacle, for the orders; 3 items; lanes of 3 slots; 2 camps of 3 slots; 3 carriers; 2 pickers | `OrderInv` (`AttackMoveArrives`, `PatrolTurns`), `OrderSteps` (`HoldsGround`, `RetreatCancels`); `ShopInv` (`HpFollowsEquipment`, `TemplateIdempotent`), `TradesCostWorth`; `LaneInv` (`LaneIsLeft`), `LaneBooks`; `WildInv` (`EscalationEarned`, `MusicIsShared`, `GrowthPaired`, `PaidForTheBlow`), `WildSteps` (`KingStaysDown`, `OneBlowAtATime`); `GroundInv` (`OneFlowerANight`, `PowerIsScarce`, `NoHpForTheDead`) |
| `players` | 12 kits; a 3 by 3 grid with 5 slots; 3 guests for 2 seats, sequences modulo 4; 6 scenes for a bot; 3 squad slots, 3 nodes; a client with 1 datagram under way each way | `DuelInv` (`BotUsesItsKit`, `FirstBlood`); `FieldTypeOK`, `FieldSteps` (`WinEarned`, `SpendingShows`, `CardsRest`); `TableInv` (`InOrderOnce`, `OneSeatEach`, `ReportedOnce`); `BotInv` (`HealsUp`, `CampsAfterBounty`, `SquadsSpread`); `ClientInv` (`OwnUnitsObey`, `OverIsOver`, `SelectionOfThisMatch`) |
| `shop_failure` | the shop of `map` | violated: `FailedBuyIsSilent` |
| `match_stealth` | as `match_race`, a longer race | violated: `UnseenChannelLives` |
| `battle_clones` | the combat of `battle` | violated: `ClonesFreeTheirSlot` |
| `client_cast` | the client of `players` with all keys and 2 datagrams to it | violated: `CastsAsPressed` |

A property named for its part of the system is the conjunction of the properties in brackets
and of that module's type invariant, so that the runs check each part as a whole.
The mutants of `PROJECT.json` each break one
conjunct: a definition commented *Fault* next to the one it could be mistaken for is a
plausible bug there (a dropped guard, a wrong order, a missing reset), and TLC finds the
property violated when it takes the place of the real one. Nothing else uses them.

**Bounds and why they are enough.** The matchmaker's instance has more clients than its
arrays hold, so the queue fills and the cooldown list evicts; the clock and the ports wrap.
The server's instance has one contender more than seats and each clock is a few ticks, so a
timeout can meet every phase and a match can be cut off. In `session` one port makes every
new server meet the traffic of the last, two datagrams fill a socket, and two faults can hit
the two halves of one handshake. In `match_channel` a hit, a death, a respawn or a guardian
can fall on any tick of a channel, and there is time for one team to capture and the other
to take the node back; in `match_race` a team can reach the cap on exactly the last tick, or
tie on resources with more nodes or fewer. In `battle` one hit kills, so that every order of
blows, shots and deaths in a tick occurs, and there is one more attacker than memory places.
In the kits a hero begins with less than the most hit points items can give, a tailwind may
blow again and again, and floors are shorter, as long and longer than a fold. In `map` every pool
is smaller than two waves and every timer long enough for an event before, on and after its end;
the obstacle is at one end of the line, so that it lies on some routes and off others. In
`players` sequence numbers are modulo 4 and a bot sends 5, so they wrap; the field's pool of 5
fills; `ArenaClient` was also checked with two snapshots under way (`MaxDown = 2`), which takes
longer and shows nothing more. `MaxEarned`, `Patience`, `MaxAir`, `StreakCap`, `MaxStacks`,
`FieldTicks`, `MaxLate`, `Deck` and `MaxFaults` bound what would grow for ever; each is past the last value the properties can tell apart. The
proofs lift the safety properties of every part from these instances to all.

**Deadlock** is checked where the system never stops (matchmaker, shop, client). A closed
server, a decided match and a field that reached its bound do stop, so those runs say
`CHECK_DEADLOCK FALSE`.

**Fairness.** The loops never block for good: sockets are non-blocking and the HTTP calls
have timeouts, so each loop's next step is weakly fair (`EndDrain`, `Announce`, `Sleep`,
`SpawnServer \/ SpawnFails`; `LoopBody`; `BeginTick`, `EndTick`). For a duel the body is not
required to change anything, since it may go on undecided for ever. A client that waits asks
again every five seconds, half a cooldown, so its request is heard again and again while it
could be queued: `Enqueue(c)` is strongly fair in `Matchmaker`'s liveness. In `Session`
every program runs on (weak fairness of its reading, asking, broadcasting and deciding
steps); the lobby's 60 s, the cooldown's 10 s and the connection's 5 s count whatever happens
meanwhile, which is strong fairness of `LobbyTimeout`, `Forget` and `GiveUpConnecting`.
Nothing obliges fork to succeed, a player to pick, a hero to capture or a request to IDUNA
to be answered with success; faults are bounded, which is how "once the faults end" is said.

## Where code and documents disagree

1. `match_stealth`: "a lone stealthed capper channels straight through a crowd". Starting
   the channel reveals the capper, so the next tick finds both teams visible and resets
   the channel; what remains is that the node has become neutral.
2. `shop_failure`: a purchase that cannot be paid is not silent: the refund for
   the worn item has already been credited, and the item stays worn.
3. `battle_clones`: "clone slots free immediately on death" is true of the clones that die
   with another; the one that took the blow is dead before the cascade looks at it and keeps
   its slot, so that after enough of them `tyler_cast_r` makes no clones.
4. `client_cast`: Bacon Puck's W, aimed and confirmed with a click, is sent as slot
   0, a Q, in a networked match; local play reads the same field as W.

Seen while modelling, kept in the models as the code has it, and without a run of their own:

- Two Zagans mirroring each other recurse without end in `arena_hero_armor` (1517).
- Regenerations per second times 16 ms, cut to an integer, are zero for several kits and the
  trees.
- Kills by an ability pay whoever landed the last swing or shot, however long ago; clones
  and the heroes of a duel begin with hero 0 as that attacker, because they are cleared to
  zeros.
- A lock or a homing shot survives its target's death and return.
- A double kill of a duel goes to hero 1.
- A floor under the hit points is set by assignment (5992 for the Donkey's fold): MnM's
  survival floor and the fold of a Donkey he wears cut each other short. `FloorHolds` promises
  a wearer the shorter of the two (the history `sworn`).
- An attack-move or a patrol whose dash ends with `moving` cleared on a target equal to its leg
  never resumes. Neither does one that an obstacle over its end or a body next to it pushes off
  on the tick it arrives: it has stopped (1406), is too far off to turn (1174), and its target is
  the end already (1188), though the comment at 1158 has a patrol go on "forever". The properties
  of `Orders` except a unit so `shoved`.
- A squad's node is walked straight onto by its lowest living member. Who retreats, shops, camps,
  fetches a power-up or fights has no node, and the others stay beside theirs for him all the
  same (`apps/arena_bot/src/main.c` 1357), though the comment at 1353 gives every living member
  "by construction, the exact same best_node".
- A rewind restores the hit points of a while ago without looking at `max_hp` (4102), and
  tailwinds add up without a limit (5020); Tyler under a floor dies with his clones, which the
  comment at 1717 wants.
- A ranged hero ordered to move inside its own range finishes the windup, fires nothing and
  spends the cooldown.
- A camp cleared on the tick its next wave is due counts as never cleared (3459 before 3470).
- A full pool starves the camps and the lane of the higher index. A clone can claim the
  Bloodflower, whose Flow nobody then gets; its Flow is not counted as earned.
- Duel bots whose rules ask for R before a cheaper ability starve the cheaper ones while
  mana is short; `BotUsesItsKit` excepts them (`Dearer`).
- In the card game the sequence numbers wrap after 18 hours, from when on no card of that
  bot is heard; only owner 2's outposts decide; cards are accepted after the decision; a
  refused card is logged and spends its number.
- The matchmaker ignores a request when an unpruned entry of 49.7 days ago looks new, and
  the server's "60s with no real progress" is sixty seconds outside the live phase, progress
  or not.
- A bot's errand to a shop, fountain or power-up is overridden by the chase in the same
  decision (1369), and an empty squad claims a node.

## Proofs

A theorem says `Spec => []Inv`, `Spec => [][A]_vars` or `Spec => Abstract!Spec`, for every
value of the constants the named assumptions of its module admit. Those say what the
code does: lobby sizes as `main` clamps them, ports, pools, arrays and lengths of time at least
one, a cooldown shorter than the clock, at most 20 heroes (`Rank`) on at most five nodes, a
guardian that is not back within a channel of its death, prices and damages that are not
negative, finite rosters, no Tyler among the ranged, every kit in the tables. A few theorems
have a hypothesis of their own, given below with the reason for it.

Each invariant is made inductive first; the strengthening names what the argument rests on.
There is one lemma per action, and under it one step per conjunct the action can disturb.

**Matchmaker** (`MatchmakerProofs`)

- `TypeCorrect`: `TypeOK` is inductive; the lemma `NextPortType` keeps the port in range.
- `OnePlaceHolds`: inductive with `GroupOnlyAnnounced` (a group exists only while it is
  being told). Cutting a group from the queue keeps both halves distinct and disjoint
  (`CutDistinct`), appending a newcomer keeps the queue distinct (`AppendDistinct`), and
  marking adds no address but the head of the group (`MarkAdds`), which left the queue.
- `CooldownOnlyWhenToldHolds`: needs `OnePlace`, because a group that is dropped must
  not be remembered from before.
- `FullLobbyHolds`: inductive with `Announcing`: while a group is being told, the roster
  of its port and the rest of the group are disjoint and add up to `LobbySize`.
- `PortReuseHolds`: inductive with the distance of every port from the next one, along
  the cycle, bounding the spawns since it was used. `SpawnsAreInOrder` joins the two.
- `LineKept`: the matchmaker implements `MatchLine`, the summoned being the group it tells and
  those it remembers. Telling a member moves it from the one to the other (`MarkAdds`), so the
  summoned grow only when a group is called; pruning forgets, and whoever joins is neither
  (`OnePlace`, `CoolingDown`). Who leaves a cut queue has nobody behind the cut that came before
  (`CutInTurn`), whence nobody is overtaken.
- `CooldownIsKept`: inductive with `EntriesTrue`: the entry of a client matched less than a
  cooldown ago shows its true age, since the clock cannot have come round, so pruning never
  drops it; a full list pushes out the oldest, after whom `MaxQueue` others were matched
  (`EvictedIsOldest`, `LaterGrows`).

**Match server** (`ArenaServerProofs`)

- `CountsAlwaysAgree`, `ReportsAreFaithful`, `ExitIsOrderly`: one invariant `IInv`, whose part
  `TimersAgree` ties the timers, the broadcasts and the winner together: no result before
  a winner, a winner only in a live match, as many final broadcasts as ticks of the countdown,
  a lobby given up only with its time full.
- `LobbyIsSound`: heroes are those last picked (`HeroesKept`): nobody has picked before the
  draft, a pick is written at once, and the last one of a duel's draft
  resets the match and writes both.
- `LifecycleImplemented`: every step is a step of `MatchLifecycle` or a stutter under
  `StageOf`. `PortServed`: every step is one of `GamePort`, whose seats are `clients` in the
  order of their slots; slots fill in order (`NextInOrder`), so a CONNECT appends one, and a pick
  adds its sender to those who picked. `PromisesKept` adds `MatchOutcome`, with the time limit
  in a team match and without it in a duel.
- `LoopNearsItsEnd`: what is left of the lobby's time, the time limit and the countdown add up
  to `PassesLeft`; packets leave the timers alone or start the match, which spends what the
  lobby had left. So a server ends after a number of passes known in advance: with weak
  fairness of the loop that is `ServerExits`, which only TLC shows.

**Team match** (`ArenaMatchProofs`)

- `ChannelIsSound`, `CapturesAreEarned`, `WinnerIsNotBehind`, `NobodyMissesWaves`: one invariant
  `IInv`. Its part `Accounts` keeps a team's books: a channel's progress is paid by ticks held
  at the best rate (`Unaided`), or by those and one dead guardian, who is not back before the
  channel is over (`Aided`); `SinceWave` is the time modulo the wave (`OneMoreSinceWave`);
  `RaceOpen` says ticks are played of an undecided match only, before its clock has run out.
- `OutcomeImplemented`: the match implements `MatchOutcome`.

**Combat and rewards** (`BattleProofs`)

- `FightIsFair`: `CombatIInv` says that a living clone is a Tyler's who lives, that what a victim
  remembers is no more than what the blows of this life support, and what each stage of the
  tick may rely on; the walk over the units in index order keeps it, blow by blow, also through
  the cascade of shared deaths and the clones that take over free slots.
- `HelpersAreFresh`: the memory of a victim holds the freshest attackers, each once, with what
  its last hit has left: recording a hit replaces its own entry, a free one or the oldest.
- `BountiesAreEarned`: `StreakOK` relates the counter and its timer to the run of the chain of
  kills. Under `StreakCap <= 7`, where the table `BountyOfChain` writes out ends.

**Heroes** (`HeroProofs`)

- `KitsAreSound`, `CastsArePaid`: `KitIInv` over any set of the 31 kits. The floor set is at
  least what was sworn, and only a Tyler who lost a clone is dead all the same; nobody is out of
  reach for longer than his own hiding or gliding and the air the winds gave him; a cast broken by
  silence is gone before the silence is (which is where `SilenceTicks > 1` is used); effects are taken one by one, whatever table they come from.
- `ShopIsSound`, `TradesAreFair`: every slot holds a thing of its kind, full hit points are the
  base and the bonus of what is worn, and who has any is alive (`Fitted`); the sum over the
  equipment, a fold over a finite set, changes by one entry; a template is walked by
  induction along its sequence, and a refund is never more than the price.

**The map** (`MapProofs`)

- `WildsAreSound`, `WildStepsAreEarned`: camps, King and prey each with an invariant: the
  camp's clock and the watcher's never part, a King's absence is measured by his timer, and a
  hero's rest after a blow is at least what is left of it.
- `GroundIsSound`: a night that had its flower is marked; a power-up's wait and the time
  since it was taken make up its respawn time.
- `WalksAreTakenUp`: while a unit is left alone with no obstacle in its way, the distance to
  where it goes and the time it was left alone add up to at most the line and the time to settle
  (`LeftAlone`), unless it is `shoved`: at rest beside its goal, from where nothing sends it on. Its
  hypothesis `LongEnough` says only that `Patience`, where the model stops counting, is
  beyond that time. `OrdersTakeHold`: a held position stays, and a swing dies with the order
  that leaves its reach.
- `LaneIsSound`, `LaneIsCounted`: the creeps' turns are a recursive function of the index, and
  induction over it (as a set of indices) shows that each turn keeps the pool and its toll in
  balance.

**Who plays** (`PlayersProofs`, `BotProofs`)

- `DuelKeepsItsWord`: a duel implements `MatchOutcome` without a time limit, so its server may
  rely on one winner, once, and on nothing earlier.
- `BotKeepsUp`: a duel bot has passed over an ability at most once, and then with its switch on,
  whose rule does not come first again; and the verdict fits who died first, hero 1 winning
  when both do (`FirstBlood`).
- `ClientIsFaithful`: every snapshot under way tells the truth of its match, slots that change
  hands are remembered, and what was ordered moves the seat's own units.
- `TableIsKept`: the cards applied for a seat ascend up to the last number seen
  (`Ascending`), and a datagram under way is at most the window behind what its guest sent
  (`Sendable`). In order only under `OrderPromised`: sequence numbers have not wrapped, or the
  wire overtakes by one only; the code promises nothing beyond (see the 18 hours above).
  `CardsApplyOnce` has no such hypothesis: no card counts twice even after the wrap.
- `FieldIsSound`, `FieldIsFair`: a card's recovery and the time since it was played add up,
  `held` is the streak of ticks, the pool stays fit; by induction over the slots' turns and
  over the villages.
- `BotIsSteady` (from `BotDecisions` and `SquadsAgree`): a bot is hurt exactly while it
  retreats, and a pair of snapshots that starts a camp is no older than the silence since.
  `SquadsAgree`: squads claim nodes one after another, and there are never more squads than open
  nodes, so the claims before a squad's leave it one. That somebody then walks onto the node is
  not proved, as it need not be so (see above).
- `SessionIsConsistent`: who waits is asking and was not told; a bot that moved on with a request
  still under way, or with a MATCH_FOUND before it, was told; a WELCOME is only before a
  bot with use for it and names the slot it has at the server it connects to. Under
  `Patient`, that no timeout fires while its answer is under way: without it TLC finds
  the phantom, a bot that gave up and asks for a match it was already given.
- `SessionServesBots`: what holds without `Patient`, whichever timeouts fire when: the waiting
  list implements `MatchLine` and every port `GamePort`. Of sockets and bots it needs nothing,
  only that the list has nobody twice and that seats are taken once (`ServingInv`): a CONNECT or
  a pick that reaches a port seats or counts its sender or does nothing, whoever it is and
  however late (`ConnectMoves`, `PickMoves`), and a lobby spawned for a port in use opens
  nothing.

**Only model-checked.** Liveness, fairness and ENABLED are out of the prover's reach and stay
with TLC: `QueueMoves`, `MatchesGoOn`, `ServerExits`, `LobbyResolves`, `MatchDecided` (in
`PartsDeliver` and `DecidesAsPromised`; the safety half of the latter is `OutcomeImplemented`,
that of the former `LobbyIsSound` for a lobby of two). The four
properties the code violates have counterexamples instead.

The induction theorems of the library take an operator as a parameter, which the provers
cannot instantiate; induction here is stated with a set in the predicate's place (`NatAll` and
its like), which reaches bounded recursive functions and folds over finite sets. No module
has a RECURSIVE operator.

What the proofs changed in the models: in `Lanes` a conjunct of `HeroStrikes` stood outside the
choice it belongs to; `SharedFate`, `FloorHolds` and the field's assumption said less than holds;
forms the provers cannot read (CASE, nested `@`) became conditionals. No step was removed.

## Plan

Done: everything in the table of modules, and the theorems above: every invariant and every
action property of the runs, and every refinement, is proved for all values of the constants.
What may still be worth proving is more about the meeting of the parts: that `Session`'s bots,
put before the `Matchmaker` and the `ArenaServer` in full, still see only a `MatchLine` and
`GamePort`s (a composition of three modules, beyond what TLC can enumerate beforehand), and that
the victim's memory in `Combat` is the freshest one `Assists` shows it to be by itself.

## Not modelled

Graphics, sound and the launcher window (`apps/lobby`, the drawing half of `apps/arena`)
decide nothing; `packages/goldenband`, the inference code and the bots' policy network are
floating-point arithmetic on data; HTTP, JSON, UUID and HMAC code is abstracted to its
callers' success or failure; replay, the training scripts and notebooks run offline; the
deployment scripts drive systemd and git. Of the simulation: distances, radii, amounts of
damage and the plane itself, which are choices of the steps that ask for them; XP and
levels, which nothing modelled reads. Of the snapshots: how each field is narrowed to its
width.
