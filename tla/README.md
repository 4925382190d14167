# Prison Break: a TLA+ model of the server and of its client

Prison Break is a multiplayer game: an authoritative Go server runs matches at 30
ticks a second, clients send commands over WebSocket and draw what the server
sends back. This directory models the server, and the client's connecting, predicting
and storing of what it is sent, in TLA+. TLC checks the models on small
instances; TLAPS proves the safety of all of them for every value of the
constants, and that the match manager and the client's connecting implement
abstract specifications of what they promise.

    tlc -workers 2 -config InputQueue.cfg InputQueue      # one run
    tlapm InputQueueProofs.tla                            # one module's proofs

`PROJECT.json` lists the components, the runs, the source lines behind every
definition, the hazards, the findings, and for every property a seeded fault (an
operator named `<definition>_<fault>`) that breaks it.

## 1. The system

Paths are below `src/internal/`.

| component | state | operations | meets |
|---|---|---|---|
| Match lifecycle, `server/game/manager.go` | matches, their status and players, `playerToMatch`, a goroutine, a context and a done channel per running match | CreateMatch, JoinMatch, ResumePlayer, StartMatch, EndMatch, Close, the loop | called by every connection's goroutine; one mutex, but starting and waiting happen outside it |
| Input queue, `server/game/input_queue.go` | buckets of commands per tick, seen sequence numbers, rate windows, replay log, acknowledgements | SubmitInput, the loop's taking of a bucket | connections submit while the loop ticks |
| Match rules, `gamecore/*` and `manager.go` from `applyInputsToGameStateLocked` on | players (hearts, lives, room, role, effects), phase, cycle, alarm, outcome | commands; per tick succession, expiry, guards, phase, outcome | run by the loop, under the mutex |
| Role assignment, `gamecore/roles` | none | picks a template for the number of players, shuffles it and deals it | the start of a match |
| Prison systems, `gamecore/prison`, `abilities`, `map`, `escape`, `engine/physics` | doors, cells, power, unlocked rooms, positions, cooldowns, daily uses, timed effects | walking, doors, door stops, the power switch, abilities, cards for doors and cells, knockback, escape routes, the end of a tick | match rules |
| Economy, `gamecore/items`, `cards`, `black_market`, tasks in `manager.go` | inventories, cards, bullets, NPC tasks and bribes | transfer, craft, buy, use, choose at night | match rules |
| Snapshots, `manager.go`, `server/networking/server.go`, `client/netclient` | history of deltas, a cursor and a send queue per connection, the client's store | join_game, the game start broadcast, the dispatch loop, disconnection | three kinds of goroutine write to the same connection |
| Sessions, `server/networking` | connections, what they are bound to, two indexes over them, presence | register, join, resume, spectate, bind, unregister, the automatic start | the manager and the matchmaker, each with a lock of its own |
| Matchmaking, `server/matchmaking` | lobbies with a region, read from the manager | choose the best lobby of a region or create one | sessions, lifecycle |
| Persistence, `server/persistence/store.go` | accounts, statistics, match history, in memory and on disk | Open, UpsertAccount, RecordMatch | called by joins and by the loop's game over |
| Client session, `client/netclient` | a connection, a send queue, a snapshot store, the last error the server sent | dial and join, read, write, acknowledge, Close | the server; the shell reads the store while it is written |
| Client prediction and input, `client/prediction`, `client/input` | command numbers, frames to interpolate, pending commands | number and queue a command, predict, reconcile, replay | client session, input queue |
| Client application, `client/render/client_app.go` | the stage of the pre-match flow, attempts, two result channels, one session, one shell | menus, connect, cancel, fetch lobbies, play, leave, restart | goroutines that connect and fetch answer through channels |

What is hard about it:

* **Interleaving.** Every connection has a reading goroutine that runs handlers to
  completion; each match has a loop; one dispatch loop serves all connections.
  Handlers take the server's lock, the matchmaker's and the manager's one after the other, so
  what they have read may be old when they use it (`networking/server.go` 345, 569,
  1211, 1422; `matchmaking/service.go` 114; `manager.go` 539). On the client, attempts to connect outlive the wish
  to connect.
* **Ordering.** Commands may be aimed two ticks ahead, so acceptance order,
  application order and `client_seq` order differ, and the acknowledgement of one number says nothing of the lower
  ones. In a tick, commands, succession, expiry, guards, phase and outcome have a fixed order that decides
  who wins.
* **Bounds.** Rate windows, send queues, result channels, the delta history, the match history and the
  client's list of pending commands all have a limit and drop something at it.
* **Failure.** The store's file is written, removed and renamed in three steps,
  each of which may fail or be the last before a crash. Connections are lost, commands with them, and the client's
  process restarts in a match that goes on.
* **Ends.** Matches must end, loops must stop, calls must return and connecting must end.

What makes each component correct is in section 3; `PROJECT.json` has the list of
hazards with the line where each one bites, the one without a property included.

## 2. Modules

Each module's variables carry the name of the Go field they stand for, or a
comment that names it; actions carry the name of the function. A step is one critical section
of a mutex, or one channel operation, unless a module says otherwise. Inputs
come from small sets by existential quantification.

**InputQueue** models `SubmitInput` with all its rejections, the clamping of the
requested tick to one of the next two ticks, the duplicate and rate checks, the
loop's use of a bucket and the end of a match. A submission that is refused after its rate
window was opened leaves the window open (`SubmitTooLate`), as the code does.
A command's payload is whether it decodes. Buckets are sets: the
code sorts a bucket by ingress number before use, and the place that results is recorded in
`applied`, a history variable.

**MatchService** is the abstract specification of the manager: matches are opened, joined,
started and ended; a player is in one match at a time and is free when it ends. It has no locks, loops or calls.
Its one concession to the code is Close: lobbies outlive it, with players who are mapped nowhere and who may come back or
join another lobby, and the end of their old lobby then takes them out of the new one.

**MatchLifecycle** models the manager's map of matches, the players' mapping, and
the goroutine of every match: `loopCancel` and `loopDone` are the session's fields,
`loopArg` the channel the goroutine was really given. StartMatch, EndMatch and
Close are two steps each, the second outside the mutex. Closing a nil channel
sets `panicked`, after which nothing happens, since the process is gone. It implements
MatchService by `stage <- status, roster <- players, member <- playerToMatch, down <- closed`; calls, loops and channels
map to stuttering.

**SnapshotStream** models the loop's storing of deltas with the history limit,
join_game (bind, accept, capture, send, note the cursor), the game start broadcast
by whichever handler started the match, the dispatch loop's reading of targets and its
sends, the non-blocking send that closes a connection whose queue is full, and the
client's store with its rule for old and new snapshots. The content of a state is
the set of ticks whose changes it has; that is enough to tell a client that missed
something from one that did not.

**Sessions** models a connection from its upgrade to its end. A join is a sequence of steps, one for each
critical section: choose a lobby (or create one, in the matchmaker's lock), join or resume, try a second lobby
when the first turned the player away, bind, report the player as connected, start the match when it is full enough; a close takes
the connection away and then reports. Any goroutine may close any connection between two steps.
`disturbed` is a history variable: the players of whom two such sequences overlapped, or whose connection went on to
join as somebody else. Tokens are left out: a join names its player. `MCSessions` has the requests, with and without regions,
latencies and match number.

**Persistence** models the store in memory and on disk, `persistLocked` as its
separate file operations with failures, crashes and restarts, the replacement of
records by match id and the cap on the history. Every restart numbers matches from 1
again, as the manager does.

**MatchRules** models a tick in stages: commands, then succession, expiry and
guards, then phase transitions, then the outcome. Weapons, cards and routes are
inputs; a room is ordinary, restricted or "escaped". `MCMatchRules` holds the three
players of its runs.

**RoleAssignment** has the role templates and the shuffle, one exchange a step; the seed's hash is any choice.

**PrisonSystems** continues a deal of RoleAssignment. A player is at a spot (inside a room, or on the tile of its door) and has a current
room, which may differ; a door is named by the room it opens on or by the owner of the cell. Commands of a tick are actions, `EndTick` is the
rest of a tick: effects, detentions, door stops and cooldowns run out, phases change. Items and wounds are inputs, as rooms are
in Economy and MatchRules: the three share the tick, not their data. `MCPrisonSystems` has the deals of abilities.

**Economy** models what the players of a match own. An inventory is a function from items to
quantities, a hand one from cards to numbers; `CanAdd` and `CanRemove` are the checks of
`gamecore/items`, with the satchel's extra stacks, and every command that moves an item
(gift, theft, drop, pickup, deposit, withdrawal, craft, search, purchase, bribe, shot) is an action with
its whole effect, the correction of the equipped weapon included. The end of a tick and the change of day and night
are actions too: night cards and NPC offers in the evening, the sidearms of the authority in the
morning. Rooms, hearts and cooldowns are inputs: any two living players may meet. `ledger`
counts what was made and used up, `given`, `income` and `overfull` are the other history variables.
`match` is the match being played, one of `Matches`: who plays, with how many commands, what is traded.
`MCEconomy` holds them, item order and prices.

**Prediction** models a match as one client sees it: the server's clock, schedule and acknowledgement, the sessions with
what is under way on them, and the shell with its command numbers, frames and pending commands. Where a
command leads is floating point and left out; which commands are added to which frame (`Replayed`) is not. Pending commands are a
set: their numbers order them, as the code's list does.
reconcilePredictionFromStore reads the store twice, and the second read may be newer. That the server bars a command because of the
rate cap or the end of the match is an input of any value (InputQueue has the cap); a connection may be lost with or without an error.

**ConnectionService** is the abstract specification of the client's connecting: of the connections it asked for, the client
uses one at a time, the latest; one that a later request overtook is turned away, and one that is over stays so. It has no stages,
goroutines or channels. A connection that was lost counts as in use until the application notices and leaves it.

**ClientApp** composes Prediction with the application: Update is cut where it takes a lock or reads a channel, and the
goroutines that connect and fetch, the loss of a connection and the end of the process come in between. It implements ConnectionService: `Life(i)`
is what has become of attempt i, read off the attempt, its session and which session is the application's. `MCClientApp` has the
bounds, as records: each is long in one direction.

**InputQueueProofs**, **MatchLifecycleProofs**, **MatchRulesProofs**, **SnapshotStreamProofs** and **SessionsProofs**
hold the theorems about the module of that name, **PrisonSystemsProofs** those about RoleAssignment too,
**ClientAppProofs** those about Prediction too, and **BookkeepingProofs** those about Economy and Persistence, with the theory of sums that
the former needs. The invariant a proof rests on is in the last section of the module it is about.

## 3. Runs

| run | instance | what it shows |
|---|---|---|
| `input_queue` | 2 players, sequence numbers to 3, 3 accepted commands, 6 ticks, cap 1 | no pending command can be passed over by the loop; a (player, client_seq) pair is processed once however often it is resent; replaying the log gives what the match applied, in its order; what is accepted is applied, or the match ends |
| `match_lifecycle` | 3 players, 2 callers, 2 matches of at most 2 | the manager implements MatchService; the mapping agrees with the live matches; a loop can always be waited for; loops stop and calls return unless the process dies |
| `match_lifecycle_panic` | 1 player, 2 callers, 1 match | **violated**: the process can die (finding 1) |
| `snapshot_stream` | one followed connection and one that may start the match, queue of 2, history of 1, 2 ticks | cursors pass over nothing that is still in the history; deltas go out in order and once; a client whose full snapshots were not overtaken holds exactly the changes up to its tick, and catches up |
| `snapshot_outcome` | queue of 4, 1 tick | **violated**: a client can miss the outcome (finding 2) |
| `sessions` | 3 connections, 3 players, 3 matches of 2, 3 joins | the indexes agree with the connections in every interleaving; presence is exact but for the overlaps `disturbed` names; a region never has two lobbies open to quick play |
| `persistence` | 1 player, 3 matches a run, 2 runs, cap 2 | the statistics are those of the history; the file is absent or whole; memory is on disk unless the last write failed |
| `match_rules` | warden, leader and member, 2 lives, 2 cycles of 2 + 1 ticks, 3 commands in a match | exactly one leader; eliminations are final; phase and cycle are functions of the tick; no state that decides the match survives its tick; succession leaves no dead leader but one the guards have just killed; the match ends |
| `match_rules_escape` | 2 commands | **violated**: an escape can be undone (finding 3) |
| `economy` | two matches: 2 prisoners with 5 and 3 commands; the warden and a prisoner with 3 each; 3 periods, 3 slots, stash of 1, hands of 2 | no item is duplicated, none is lost but by the deposit of an overfull inventory; a weapon in hand is carried; a golden bullet is sold once though the first lies in a stash or was fired; nobody gets the NPC's goods on what another paid; a period gives a player one card |
| `prison_systems` | warden, deputy and leader on 7 rooms, 4 deals of abilities, 4 commands, 3 ticks with a day and a night; the deal for 6 players too | the deal loses no role; without power every door is open; restricted rooms stay closed to those who may not enter; a stopped door stays shut; only who stood still is hidden |
| `client` | five bounds: a match of 3 ticks with 2 commands; 3 attempts; 2 attempts with a lobby fetch; 1 with 2 fetches; 2 sessions in 2 processes with a command | no predicted move is added to a frame that has it; a process uses a command number once; no session is left open with nobody to close it; connecting ends, unless the answer found the channel full; the application implements ConnectionService |

Why these bounds are enough to be of interest. *InputQueue*: a cap of 1 with three
acceptances reaches the rate limit and commands of one player in
inverted order; six ticks let windows open, close and be pruned. *MatchLifecycle*:
two callers and a loop are the fewest that can meet at one end of a match, two
matches let a player leave one for another, and three players with MaxPlayers 2 fill
a lobby. *SnapshotStream*: a queue of 2 overflows, a history of 1 drops a tick, and
the second handler makes the game start broadcast meet the first one's join; connections
share nothing but the match, so one is followed. *Sessions*: with two players to a match the third finds the lobby full between
its choice and its join; three joins on three connections let a second join of a player meet the first one's close, and a
connection join again as somebody else. Connections and players are exchangeable, and the run has no liveness, so symmetry over both is
sound. *Persistence*: three matches with a
cap of 2 make the cap bite, two runs make ids repeat. *MatchRules*: three commands
suffice to kill (two lives, damage of two half hearts: two shots), to follow it by a card, and to combine
the alarm with an entry into a restricted room; the clock passes both phases, both
cycles and the last tick. *PrisonSystems*: four commands unlock a room, walk to it and enter it, or cut the power and work on a
stopped door; every timer is one tick, but the alarm's two, so each runs out in the match. The four deals have every kind of effect (cooldown only, daily
limit, timed effect, pending effect, effect on a door, on the power, on a player). Nothing in the run but the order of IDs tells players apart, and
every order is an initial state, so symmetry is sound. *Economy*: prices of 1 and 2 with hands of 2 let the first night pay for a purchase or
a shared bribe; one slot makes a stash refuse a second kind of item and
three make an inventory full with the authority's loadout; six commands reach the gift of a satchel that is needed (buy,
give, fill up, give back). Eight item types stand for all: the
ones the rules name (bullets, sidearms, the golden one, the satchel), one weapon that is made or
bought, and its two materials. `traded` limits which of them players hand over, `mortal` who may die for good.
*ClientApp*: three attempts and channels of one slot make an answer find the channel full; a send queue of 1 and lists of 2
drop a command, a frame and a pending command; two processes make one find the other's commands in the match.

`CHECK_DEADLOCK FALSE` is set in every run but `client`: matches end, servers stop, and the bounds end
the rest. The client's Update can always be called again.

Fairness, where a run has it: the loop's ticker fires again and again (`time.NewTicker`
in StartMatch, so weak fairness of the loop's steps in InputQueue and MatchRules);
a goroutine that can run does (SpawnLoop, LoopStops, the return of a wait, a started handler);
the dispatch ticker goes on; a connection that stays open delivers what
it was given. The client's Update is called again and again (`ebiten.RunGame`), with or without a key pressed, so each of its
steps is weakly fair in the form without a key, and an attempt to connect ends because
dialling, writing and the reads of the handshake have deadlines. No fairness is assumed of players, callers, connections or the end of a
match. Loops stop because `ctx.Done()` stays ready; that a Go `select` may take the
ticker's case first is why LoopStops has weak fairness and Tick has none.

## 4. Findings

1. `manager.go:539`. StartMatch evaluates `session.loopDone` for its go statement after
   it has unlocked. EndMatch or Close in between took the channel and left nil: the loop's
   deferred `close` panics and the caller waits on a channel nobody closes.
2. `networking/server.go:569`. The full snapshot of a join is captured before and
   queued after deltas of later ticks; the client takes the older state and is never
   sent the deltas again, the last one with the outcome included.
3. `manager.go:1496`. A move after an escape in the same tick sets the room back to
   that of the position; a gang leader's escape then decides nothing.

Behaviour the models have because the code has it, and which no run counts as wrong:

* Match ids start at 1 after a restart and the store replaces records by id, so an earlier run's
  records go even where 0 "means unlimited history" (`persistence/store.go` 194).
* TransferItem takes a satchel from a giver whose stacks need it, which RemoveItem refuses
  (`items/inventory.go` 180); the inventory is over its limit from then on, and a deposit that the stash refuses
  then loses the item (`overfull` in Economy).
* The presence flag may stay wrong after overlapping joins and closes, and a connection that joins as another player or
  as a spectator leaves its old player connected for good (`disturbed` in Sessions). Nothing reads the flag of a
  snapshot, and no delta carries it.
* The connecting screen says "Press Esc to cancel." (`client_app.go` 790). Esc goes back to the menu and cancels the attempt's context, but keeps
  its number, so a success that comes all the same still takes the player into the match; ConnectionService has no cancel and allows it. An answer that finds its channel full is dropped, and the client stays in "connecting" until Esc. An error
  of a lobby fetch that arrives in a match shows a notice and leaves the session open (`client_app.go` 349).
* A connection that the peer closes in good order ends readLoop without an error (`session.go` 378), so the application stays in the match
  with a session that sends and receives nothing, until a write fails or the player leaves. The server under `src/` closes without such a frame.
* A command that is late, a duplicate or over the rate cap is answered by an error, which the session keeps and which makes the client leave the match
  (`client_app.go` 585). A new process of the client may use a number that the old one's last commands carry: SeqsFresh is about one process.
* Acknowledged moves leave the screen until the interpolated frame has them, and late pending moves are not replayed; the two
  reads of reconcilePredictionFromStore may disagree, which the guard on the target tick makes harmless (NoDoubleStep).
* A blow of the baton carries its victim one and a half tiles, past a wall or a closed door of one tile; where the victim may
  stand is still checked (RestrictedRoomsKept). A refused move still sets the current room to that of the position. No
  door is ever locked, so the lock snap card has no effect.

## 5. Proofs

Every theorem is of `Spec`, uses none of its fairness, and holds for every value of the
constants that satisfies the ASSUMEs of its module: finite sets of players, and natural
numbers for limits and bounds. The bounds named "bound" are constants too, so they may be
as large as one likes.

**InputQueue.** `QueueInv` is inductive. The checked invariants are not inductive alone:
that a tick applies exactly what was logged for it needs `LogInv` (what is logged for a later tick is
what is pending; keys and ingress numbers are unique; a running match remembers every key it logged);
the batch bound needs `RateInv`, which counts the commands for the next two ticks against the
current window: those for the tick after next were all accepted in this window,
those for the next tick in this window or the previous one. From `QueueInv` follow TypeCorrect,
NothingStranded, AtMostOnce, ReplayFaithful, BatchesBounded (a batch has at most twice the cap of one player's commands) and
AckExact (the acknowledgement is the highest number applied).

**MatchLifecycle.** `LifecycleInv` adds `FreshInv` (matches are created in order; one that
does not exist has no players, which CreateMatch needs for the mapping) and
`LoopInv` (the stages of a loop: at most one caller between StartMatch's unlock and its go
statement, a channel closed only by its loop's exit, which a waiting call's return needs). From it
follow LifecycleTypeCorrect, MappingCorrect, EndsExactlyOnce and
LoopsNeverOrphaned. The proofs include the states after finding 1's nil channel: the loop can
still be waited for, the wait just never ends.

**ManagerImplementsService** (`Spec => ServiceKept`) is the refinement, for every number of players, callers and matches. The
initial states map to the service's; then, action by action, a step of the manager is one of the service's steps or leaves
`status`, `players`, `playerToMatch` and `closed` alone. The invariant is needed: `MappingExact` to see that a player who is
free is in no live match while the manager is open, `FreshInv` for the match that CreateMatch opens, the types for the updates of functions. `OverStep` treats
the ends of matches, which EndMatch, Close and the loop share. The instance has definitions of its own, so
`SameCardinality` relates its count of a roster to the manager's.

**MatchRules.** The argument goes player by player. `Follows(q, r)` says what a step that does not
concern roles may make of a player: the state stays sound, the role stays, no life is gained, the
dead stay dead, and a plate still backs temporary hearts. It holds of every command, of an expiry and of a guard's
shot, and is transitive, so it holds of their composition in a tick. `SuccessionFacts` says
what a succession does to roles and that it does nothing else. `RulesInv` (types, one leader, `ArmorInv`) is inductive
by these; ArmorBacksTempHearts alone is not, since it says nothing of the stage between the expiries and the end of the
tick. EliminationsFinal and SuccessionPrompt are action properties proved from the same invariant. `ClockInv` ties the
phase to the cycle (`started = 1 + period * cycle + offset`) and shows that the saturating counter
reaches MaxCycles only in the tick that ends the match; ClockCorrect follows by the uniqueness of quotient
and remainder. The assumptions are those of `RulesAssumption`: one warden and one leader are
assigned (RoleAssignment's CastComplete), and every length and damage is positive.

**Persistence.** `StoreInv` adds `WritingInv` to what the run checks: where in `persistLocked` the store is, and what the two
files are there (the old file is removed only once its successor is complete, and is gone when that is renamed), and that a
file, like the memory, has one record for a match id. StatisticsCorrect rests on the order in `Settled`: the statistics are recomputed from the records that the cap has left,
and survivals and deaths split a player's matches in two. HistoryBounded
(`HistoryWithinCap`) is in no run; the cap keeps a record exactly if fewer than the cap are later, and those that are kept
inject into as many numbers.

**Economy.** ItemsConserved is about a sum over the players and a sum over the bag of what lies about, so the proof begins with sums.
Induction comes from the library's `WFMin` (a set with a well-founded order has a minimal element) and the order of strict subsets:
`SubsetInduction` takes the set of those subsets for which a claim holds in place of an operator. With it `FoldUnique`, `FoldExists` and
`FoldType` show that a fold over a finite set is defined, and `SumRemove` that its value does not depend on the order in which elements are
chosen; what else is needed (`SumDifference`, `SumChange`, `SumGrows`, `SumOfOnes`) follows. Then, action by action, a step is shown
to be `Balanced`: units less ledger stay the same, or shrink once `overfull` is set. One player's inventory changes
(`OneChanges`), two do (`TwoChange`: gifts, thefts and shots), something moves between inventory and stash or floor (`OneShuffles`, `LieMore`, `LieFewer`), or all of the
authority's change at once (the new day, where the ledger takes over the same sum, and `NormalizeFacts` follows the fold over the items by
induction over positions). `EconomyInv` is inductive. Next to what the run checks it has `CapacityInv`: only while no inventory is over its limit
does a refused deposit give its item back, which ItemsConserved and EquippedIsHeld need; `IncomeInv`: a card that came by day
leaves that day's task finished, one that came by night leaves nothing to pick, and by day nothing ever is; `BribeInv`: what
the NPC counts of the current payer was given in this night; `GoldenInv`: the ledger has a golden bullet only after its sale, since nothing
but the market makes one (no recipe, no NPC offer, no scrap). ItemsKept, WeaponsHeld and CardsRationed are its parts; GoldenBulletUnique and
BribesHonest are action properties, shown with the invariant's preservation (`Kept`) for each action. The assumptions are those of
`EconomyAssumption`: every player has finitely many commands, items are distinct and include the ones the rules name, and an inventory has three slots or more (so that
the authority's loadout fits).

**Sessions.** `SessionsInv` says what a handler knows of its match from the step it is at (`HandlerInv`), that a player is in no
live match but the one the manager has for the player (`MemberInv`), and for a player whose joins and closes did not overlap
what is left to do and which of index, connection and flag is already right (`PresenceOf`); PresenceExact is the case in which nothing is
left. OneOpenLobby is inductive by the matchmaker's lock: `CreateMatch` is called where no lobby of the region was found, and
a lobby that fills or starts never opens again; `HandlerInv` has the one exception, the second lobby that is tried when the first
has turned the player away.

**PrisonSystems and RoleAssignment.** `PrisonInv` is a conjunction over the players, as the argument of MatchRules is: every command
and the end of a tick keep each player in rooms that are theirs (`Kept`: the current room and the room of the position, which
may differ) and keep the order of the last move, the waiting time and the effect (`Still`). Doors need only `PowerOffOpensAll`,
which is inductive with the types. StopsHold is an action property, by cases on the actions that open a door. CastKept follows from
`SwapKeepsCounts`: an exchange of two places is a bijection between the places of a role before and after it, so every role keeps its number of
places, whatever the indices drawn.

**SnapshotStream.** `StreamInv` follows the three writers of a connection. `HandlerInv` says what a handler holds where it is (a full
snapshot that was queued covers what the cursor is about to skip), `TargetInv` and `SendingInv` the same of the dispatch loop, whose list of
targets may be out of date: the cursor it read is never ahead of the connection's, the last delta never ahead of that cursor, and what
it fetched leaves out nothing the history has. CursorExact is then `NoneLeftOut` up to the cursor. For CleanExact the
messages under way count as well: `QueueInv` says of a clean stream that every full snapshot in the queue is as late as all before it and
that a delta leaves no gap once the client has taken what comes before. DeltasOrdered is an action property, from `SendingInv`.

**ClientApp and Prediction.** `ClientInv` rests on the commands. A command is known by its number and the process that built it
(`Same`), and `IssuedInv` says that this is unique: a shell is seeded past the last number of its process, and builds on from there.
What is under way (`SentInv`) is issued, not placed yet and nowhere else; what is placed (`PlacedInv`) was issued, and is for its
target or later, since a client that has seen tick t aims at t + 1 and the server is no earlier. NumbersFresh is a consequence, and so is
NoMoveTwice: a pending move that is replayed on the frame of tick t has a target after t, and so has the tick it was applied in; the
argument does not look at acknowledgements, which is why the two reads may disagree. `AttemptInv` says that an attempt
has a session exactly when it ended well and that a result is of an attempt that has ended; SessionsNotLeaked then follows by cases on who
closes what. ClientImplementsService needs `LatestInv` besides: the number the application waits for is that of the latest attempt, but
in a new process, which waits for none and finds no result. So the result that is taken is the latest attempt's, and its session is the
one ConnectionService uses; one that is turned away was overtaken. Canceling maps to stuttering: it keeps the number, and a late success
is still used.

The models are written so that they can be reasoned about. The arms of a CASE exclude each other (`CreationRegions`,
`EvaluateRoomEntry`): TLC takes the first that is true, which TLA+ does not promise. Where the code goes over a list and the
outcome can be said at once, the model says it (`SendInputCommand` takes the commands of a frame as one sequence; `preferredEquippedWeapon` takes the least
index), because what a fold computes takes a proof by induction for each fold. Updates are not nested (`WithInventory`, `Spend`),
since tlapm takes the `@` of an inner EXCEPT for the outer one's.

The type invariants TypeOK, LifecycleTypeOK and RulesTypeOK, and BatchBound, AckIsHighestApplied, EndsOnce, ArmorBacksTempHearts and
HistoryWithinCap are proved and therefore in no run, and so are the invariants QueueInv, LifecycleInv, RulesInv, StoreInv, SessionsInv,
PrisonInv, StreamInv, ClientInv, LatestInv and EconomyInv.

Only model-checked: liveness (AcceptedIsApplied, EndedLoopStops, CallsReturn, CleanClientCatchesUp, MatchEnds,
ConnectingEnds), which is out of the prover's reach. Every invariant, action property and refinement of a passing run is a theorem.
The properties that findings 1 to 3 violate are no theorems.

## 6. Not modelled

* Geometry: movement, collision, distances, smoothing and interpolation are floating point, beyond TLC. Rooms, doors and which
  commands are applied are kept.
* Map layout in tiles, and the path search over them; a room here has one door to the corridor.
* What hashes draw: any card, task, offer, role or market room may come.
* Pure conversions and views: state hashing, the visibility filter, old file formats, the balance report, the admin HTTP views,
  the replay harness and its export (ReplayReproducesRun states what it relies on).
* Authentication (cryptography); message decoding, ping, lists and rate limits of the transport.
* Drawing, panels, menus and key maps of the client, and its harness for manual tests, which plays several sessions in one window.
* Crash reports and tools.
* The three views of a tick (MatchRules, PrisonSystems, Economy) are not composed: each takes the others' results as
  inputs of any value, which allows more than the program does.

## 7. Plan

Done: 1. InputQueue with proofs; 2. MatchLifecycle with proofs; 3. SnapshotStream;
4. Persistence; 5. MatchRules with proofs; 6. Economy; 7. Sessions with matchmaking and presence; 8. RoleAssignment and
PrisonSystems; 9. Prediction and ClientApp; 10. MatchService, implemented by MatchLifecycle; 11. the theorems about Persistence,
Sessions, PrisonSystems and RoleAssignment, SnapshotStream, and ClientApp with Prediction; 12. sums over finite sets, and the theorems about Economy;
13. ConnectionService, implemented by ClientApp. The plan is complete; what is left out is in section 6.
