# Jeopardy Machine: TLA+ models and proofs

Jeopardy Machine runs a quiz show in a browser room: a host console, phones that buzz, a
display. This directory holds TLA+ models of the program's own logic, the TLC runs that check
them on small instances, and TLAPS proofs of the results that should hold for any number of
players, teams, cells and rounds. Every definition is translated from the source; `PROJECT.json`
maps each one to its lines.

## 1. The system

### Parts, their state, their operations

| Part | Source | State | Operations | Hard behaviour |
|---|---|---|---|---|
| Engine (`@jeopardy/engine`) | `packages/engine/src` | one `GameState` | `transition(state, action, setup)`: 27 action types, each accepted (new state, events) or rejected (nothing changes) | any action may arrive in any phase: host, phones and timers race each other |
| Room (Durable Object) | `apps/realtime/src/game-room-do.ts` | room metadata, engine state, roster, teams, alarm book, arm window; each in memory and in storage | one handler per client message, `onConnect`, `onClose`, `onAlarm` | handlers interleave at awaits; the instance is evicted between messages; a single alarm carries every deadline |
| Arm window | `apps/realtime/src/room/arm-window.ts`, `packages/protocol/src/room/buzz-fairness.ts` | presses held for one arming, measured round trips | hold, acknowledge, flush | messages of different phones arrive out of press order |
| Alarm book | `room/storage.ts`, `room/engine-glue.ts` | one deadline per timer kind, successions, empty-room grace, buzz deadline | set, prune by phase, pause, resume, skip | late, stale and paused timers; timers lost by an undo or an eviction |
| Roster and teams | `game-room-do.ts` | seats, connections, leaders | join, resume, leave, kick, team create/join/kick/handoff | a leader drops, the grace runs, the leader returns |
| Lifecycle and registry | `game-room-do.ts`, `room/registry-writer.ts`, web `api/rooms` | lobby/active/ended, idle and empty deadlines, a D1 row | close, expire, touch, sweep | best-effort writes, races of close and touch |
| Web client | `apps/web/src/lib/room` | a fold of the server's messages | reconnect, resume, optimistic presses | lost and repeated messages |
| Screens, landing, staging, diorama, tools, schemas, bots | `apps/web/src`, `tools`, `packages/protocol`, `packages/bots` | rendering state | - | none for the game's logic |

The room is the engine's only driver in production: it stamps an action with the arrival time
and the sender's identity, feeds it to `transition`, stores and broadcasts the result, and turns
each `timer-set` event into an entry of the alarm book whose expiry is again an action. The
engine itself knows neither senders nor clocks: whoever sends an action, it looks only at the
phase and the fields. That is why the engine is modelled with every action of the catalogue
enabled whenever its own guards are, in any order: the environment is at least as wild as the
room.

### What makes each part correct

- Engine: one holder of the floor per arming, never somebody barred; the clue on screen and the
  phase agree; whatever the mix of timeouts, reopened cells and late joins, the game never waits
  for something nobody can do; the final and sudden death end and crown the right entities.
- Arm window: the order of thumbs decides, no held press is forgotten, the wait is bounded.
- Alarm book: the deadline the phase waits for is in the book, survives pause and eviction.
- Persistence: what storage holds after a message is what memory holds.
- Teams: a team with a connected member has a leader who is a member.
- Lifecycle: a closed room stays closed and its code is freed.

## 2. Modules

| Module | Models | Kind |
|---|---|---|
| `EngineState` | `state.ts`, `flow.ts`, `control.ts`, `scoring.ts`, `standings.ts`: the state, and the functions all handlers share | state and operators |
| `ClueActions` | `transitions/lobby.ts`, `selection.ts`, `buzzing.ts`, `judging.ts`, `wagering.ts`, `everyone-answers.ts` | one action per handler and outcome |
| `StageActions` | `transitions/rounds.ts`, `final.ts`, `host.ts`, the tiebreaker sides of `buzzing.ts` and `judging.ts` | one action per handler and outcome |
| `GameEngine` | `transition.ts` without undo: `Next` is the dispatch table; and the properties | specification |
| `BuzzRace` | what the buzzers promise, independent of the settings | abstract specification |
| `EngineTable`, `EnginePhases` | what the driver relies on: from each phase, where an accepted action may lead, the timers it asks for, the events the room reacts to | operators; abstract specification |
| `BuzzHold` | the room between the phones and the engine while buzzers are armed: `arm-window.ts`, `buzz-fairness.ts`, the handlers of `game-room-do.ts` that hold, flush and relay, the phone's side in `ws-room-store.svelte.ts` | specification |
| `RoomClock` | the alarm book, the alarm, pause and resume, skip, undo, eviction (`game-room-do.ts`, `engine-glue.ts`, `storage.ts`), over `EngineTable` | specification |
| `RoomSeats` | roster, teams, leaders, succession, and the seats in the engine (`game-room-do.ts`) | specification |
| `RoomLifecycle` | creation, grace, idle expiry, close and wipe, and the lobby row (`game-room-do.ts`, `registry-writer.ts`, `room-registry.ts`, `routes/api/rooms`) | specification |
| `RoomClient` | one phone and its room over connections that drop (`ws-room-store.svelte.ts`, `room-socket.ts`, `join-hand-off.ts`, `game-room-do.ts`) | specification |
| `GameEngine_proofs`, then `EngineSafety_proofs`, then `EngineRefines_proofs` | theorems about `GameEngine`: types and boards; roster, clue, final and crown; the two refinements | proofs |
| `BuzzHold_proofs`, `RoomClock_proofs`, `RoomSeats_proofs`, `RoomLifecycle_proofs`, `RoomClient_proofs` | theorems about the module of the name | proofs |
| `MCGameEngine`, `MCBuzzHold`, `MCRoomClock`, `MCRoomSeats` | boards, rule sets, phones, lengths and symmetry for TLC | instances |

How they fit: `GameEngine` implements `BuzzRace` and `EnginePhases`; `BuzzHold` implements
`BuzzRace` from the room's side; `RoomClock` drives the table of `EnginePhases`, so what it shows of
the alarm book holds for the engine, since `ImplementsPhases` is proved for all constants. `RoomSeats`
composes the roster with the engine's seats, `RoomLifecycle` the room with its lobby row, `RoomClient` the room with a phone.
An operator whose comment says "a faulty variant", or begins "As X, but", is a plausible bug of the
definition next to it, used only by the mutant of `PROJECT.json` that names it.

### Engine: correspondence to the code

- One step is one *accepted* action. `transition` works on a draft and throws it away when the
  handler rejects (`transition.ts` 153-167), so a rejection is a stutter and a handler's
  rejection reasons are the negation of its action's guard.
- `seat[p]` is `entityForPlayer`; `members[t]` is `teams[t].memberIds` (a team exists once it has
  a member); `entityOrder`, `scores`, `controlEntity`, `clue`, `final`, `tiebreaker`,
  `breakNextStage`, `winners` are the fields of `GameState`. `hidden[r]`, `wagerCells[r]` and
  `timeExpired[r]` are the board of round r. A cell is a number in auto-sweep order.
- `out` is the set of event types of the last action, timer hints by their kind:
  what the driver sees of it (`ImplementsPhases`). An accepted action with `out = {}` is one the room
  does not store or broadcast; `RoomClock` shows what an eviction makes of it.
- Abstracted: texts, names, media; the generator (a draw is any outcome, wager placement any
  layout of `WagerLayouts`); clock values. An early-buzz lockout is either still running or over,
  so a press by somebody in `earlyLocked` may win or be rejected. `earlyLockedUntil` of a running
  lockout only extends it, which that choice includes. The speed-weighted award is any value
  between the rounded half and the full value (`Awards`).
- `rules` stay as they are for a behaviour, while `update-game-rules` may change rebound, lockout,
  penalty, the windows and the outcome of an answer timeout in the middle of a clue
  (`game-room-do.ts` 2104-2128, `live-rules.ts`). Each handler reads the rules once, at its own step, and
  no property compares two of them; but a behaviour that mixes rules within a clue is not explored,
  and not covered by the proofs.
- `captainRotation` counts closed clues without bound; it is only read modulo the length of the
  member list, so it is kept modulo `CaptainCycle`, a common multiple of the possible lengths.

### Room: correspondence of `BuzzHold` to the code

- `window` is `room.armWindow` in memory, `stored` the copy in storage; `adjudicateAt` of the
  window is also `schedule.buzzAdjudicateAt`, written with it. An acknowledgement changes memory
  only (`handleArmAck` does not persist), and `Evict` puts the stored copy back.
- `uplink[p]` carries a phone's messages in order, delayed at will. `seen[p]` is the phone's
  `armingState`: it acknowledges when it hears of an arming (`HearArming`), starts its clock when
  the button is painted (`Paint`), and sends no claim for an arming it has not painted. A phone
  outside `Wired` neither acknowledges nor times, like a client without the compensation half.
- Every handler except a held buzz calls `flushArmWindow` first. `FlushThen(act)` is that: with an
  empty pen the action is applied at once; otherwise the pen is emptied and stored, the presses go
  to the engine one after the other in fairness order (`FeedEngine`, the loop of
  `applyEngineActions`), and then the handler goes on (`FinishFlush`). While a handler runs nothing
  else does: the storage operations inside it keep messages out.
- The registry write at the end of an accepted batch (`syncRegistry`, an await on D1) is the one
  await that lets messages in. It is throttled, so at most one handler waits at a time; its action
  is `parked` until `Resume`.
- `Request` is every other action from the host, a skip of a timer, or a due engine timer in
  `onAlarm`; a request the engine rejects also stands for an alarm that rings for something else.
  `AlarmRings` is the alarm at the buzz deadline.
- Abstracted: of the engine, a clue is dead, open, held or over, and every player is an entity of
  its own (`GameEngine` has teams, wagers and the rest); pause, roster and connections; the claim
  of a lying client. Claims are bounded from below by the clamp whatever they say, and
  `CreditBounds` proves it for every claim.
- `ruling` is a history variable: how the buzz being answered was credited and whether the
  deadline decided it.

### Room: correspondence of `RoomClock` to the code

- `mem` is `this.room` and `stored` what `ctx.storage` holds of it. `Settle` is the end of
  `applyEngineActions`: what was narrated is pruned, stored and given to the alarm; an action that is
  accepted without an event stays in memory, and an eviction forgets it (`Evict`).
- `Act` is what goes through `applyEngineActions`; a player who joins a running game does not:
  `LateJoin` stores the engine's answer as it is, without pruning, and leaves book and alarm alone.
- A deadline is kept as the time left until it, in both copies: what the code stores is the moment.
  `remaining` is `remainingMs`. The book is a sequence because `onAlarm` and the skip walk it in
  the order of insertion and of deadlines.
- The engine is `EngineTable`, not an unconstrained environment: a phase leads only where some
  handler of `GameEngine` leads (`ImplementsPhases`).
- `Skip` is `handleExpireTimer` with its loop: an entry whose expiry is refused, or accepted in
  silence, is dropped and the next one tried. `Ring` is `onAlarm` at the engine's own wake,
  `OtherWake` the same handler rung for a succession, held presses, an empty or an idle room.
- `owed` and `setPaused` are history: the unpaused time a timer has still to run, and which timers
  were set during a pause. No action reads them.
- Abstracted: the held presses (`BuzzHold`), `at` of an event against the time it is handled; of
  `update-game-rules` only the one setting with a timer.

### Room: correspondence of `RoomSeats` to the code

- A player is the number of its seat id; ids are minted in order, so the least number is the longest
  tenured. `connected` is the roster's flag and `sockets` the connections that carry the seat: one
  seat may be open in two tabs, which is what `onClose` looks for.
- `leader` is `teams[t].leaderPlayerId` and its domain the teams that exist; `succession[t]` is
  the schedule's entry. The time of the grace is left out: a pending succession may be due at any
  moment, so a leader comes back before or after it.
- `engine` is the part of the engine's state that knows seats, `log` the states before its last
  actions. `Becomes` is one accepted action, `StartGame` the batch that seats the roster and starts,
  with the stragglers that become teams of one.
- `removePlayer` is two actions: it awaits `applyEngineActions`, which ends in a write to D1
  (`game-room-do.ts` 515), so that anything may happen between `PlayerLeaves`, which tells the engine,
  and `RemovePlayer`, which edits roster and teams. The latter need not follow the former in the model:
  the engine is told only of players it knows as connected. Of a join all awaits before the seat is in
  the roster are storage, which keeps messages out.
- Left out: locks (the leader and the host put them on and take them off at will, so a join may or may
  not find one), names, colours and sounds. Settings stay as they are while the room lives, as the
  code has it for the player mode.

### Room: correspondence of `RoomLifecycle` to the code

- `age` is the time since `lastActivityAt` in memory and in storage, and since
  `lastPersistedActivity`; `touchActivity` stores it once a minute, so `Evict` makes the room older
  by up to `Lag`. The minute is the unit of time.
- `row` is the lobby row, `writes` the statements on their way to D1. Each lands or fails, in any order
  (`Resolve`); the handlers that await one go on then: a close shuts the sockets, the DELETE request
  deletes the row. It does one of the two within a minute (`Tick` waits for it).
- `Play` and `EngineTimer` are accepted batches, of which only game-started and game-over matter.
- `silence`, `vacant`, `visited`, `closed` and `failed` are history.
- The room is public throughout; an unlisted room has a row that `listSql` skips.

### Client: correspondence of `RoomClient` to the code

- `phone` is the store's fields, `stash` the token in `sessionStorage`, `up[c]` and `down` the two
  directions of a connection: in order while it lasts. The phone may lose a connection before the
  room does: of what it sent, a first part still arrives, and the room serves it until it notices.
- `version` is `stateVersion`, `shown` the batch whose state is on the screen. A batch of the game
  (`Batch`) reaches every joined connection as what it is told by: an event with the state it
  produced; a win on the board, told by itself with the version (`Won`) and then the event of its timer;
  or a win in sudden death, which is told by itself only and brings no state. Nothing is hidden from
  phones: `redactEventsFor` edits events and drops none. An action without events makes no batch (`RoomClock`),
  and a join, a leave or a kick is one only in a running game (`Presence`).
- A join may be refused for good, with a close that ends the ladder, or in a way that keeps the socket
  (a team that is locked, unknown or one too many, a team in an individuals room, no nickname): the
  phone is told, stays where it is, and its player may press join again. `answered` is history: that
  the room said no on this connection since the last press.
- A leave or a kick is one step here, with its batch; between its two halves (`RoomSeats`) the seat may
  still be resumed, which no property of this module is about.
- The rungs of the reconnect ladder take time only; `Dial` is any of them.
- Left out: frames the store cannot read and messages the room cannot, which both sides drop; the
  messages that carry neither version nor seat (`roster`, `arm-window`, `buzz-rejected`, content, rules,
  pause); the roles without a seat.

### Named bounds

`ScoreBound` (an action that would take a score past it is not taken; 1 or 2 with all values 1, so
that negative, zero, positive, tied and split scores all occur), `Droppable` (whose leave is
explored: presence never feeds back into the engine's guards except for the reconnect path, so
one droppable player shows it), `CaptainCycle`, `WagerInputs`, `ScoreInputs`. The proofs use none
of them as a bound on behaviour except through `Bounded`, which only restricts `scores`.

In `BuzzHold`: `Horizon` stops the clock (a press is held only if its deadline is within it),
`ArmBound` and `PressBound` limit armings and presses. Its proofs do not depend on any of them.

In `RoomClock` and `RoomSeats`: `UndoDepth` is how much of the action log is kept; the oldest entry is
dropped, as if the game had begun there. `MintBound` (players who ever join) and `SocketBound`
(sockets of one player) in `RoomSeats`; `SocketBound` (of the room) in `RoomLifecycle`, where counters
past what the properties tell apart stay where they are (`More`). `DialBound`, `SeatBound`, `BatchBound`
in `RoomClient`: dials, seats minted for the phone, batches of the game; a phone whose dials are spent
is excused from `ComesBack`, and no connection is lost after the last dial. The proofs of `RoomSeats`
hold for every value of its bounds.

## 3. Runs

Twelve runs. Deadlock checking is on in `finale`, where the host may always correct a score, and in
`party`, where a player may always leave or return; it is off where the instance may really stop: a
finished game without either, a clock or a bound that has run out, a room that is wiped.

| Run | Instance | Question |
|---|---|---|
| `board` | 2 players, 2 rounds of one buzzer cell and one wager cell; rebound, rotation with the round clock, auto-sweep without lockouts, floor, and the three wager ceilings | Is the race kept, whatever the order of presses, verdicts and clocks? Does a wager clue always have a bettor and a stake? Can the board always be selected from? |
| `party` | 3 players, 1 team, mixed and teams modes and everyone-answers, late joins, leaves and returns | Do roster, seats and order stay consistent? Is the holder of the floor always seated, in the order and not barred, its team's captain or not? Can the crowd be finished? |
| `finale` | 2 players, 1 cell, final and sudden death under four rule sets, typed and timed clues, host surgery | Can the final be finished, and are the right entities crowned? Are the steps those of the race and of the table? |
| `hold` | 2 wired phones, cap = window = 2, clock to 3, one arming, 2 presses | Are thumbs ranked fairly, does the deadline wait for everybody who could still win, is it always set? |
| `rebound` | one wired and one other phone, cap = window = 1, two armings, 2 presses, `FairSpec` | Does any arming, verdict, waiting handler or eviction lose a held press or break the race? Is every held press ruled on? |
| `clock` | every phase and every timer, all timers on or off, the last action undoable, `FairSpec` | Does the alarm cover the book after every pause, skip, undo and eviction? Does a pause hold what was running? Is any awaited clock lost? |
| `seats` | 3 players, 2 teams, 2 sockets each, both team modes, the last action undoable | Who leads, how long, who is there, and do engine and roster agree? |
| `lifecycle` | idle expiry 4, grace 2, lag 1, 2 sockets, `FairSpec` | Is an occupied room ever closed, a silent one ever kept, a dead one ever advertised? |
| `client` | 3 dials, 2 seats, 2 batches, `FairSpec` | Does the phone come back, and to its own seat, or is it told why not? Does it have the room's version and the last state that was sent, and never a false gap? |
| `notakers`, `break`, `firstjoiner` | small instances | the disagreements of section 5 |

Symmetry over `Player` is used in `board` and `finale`, over the players but the droppable one in
`party`, over phones wired alike in `hold`, over teams in `seats`: where
nothing in the configuration names one and every property is symmetric; the CHOOSE in `SweepCell`, `IndexOf` and `JudgeSubmission` ranges over numbers, never over
players, and that in `RoomSeats!StartGame` names the one player a fresh team was given to. (The mutant
`FirstLeader` chooses a player; it is only used to break a property.) It is used for safety only.

Two players are enough for races (one wins, one is left to rebound), three for a team with somebody
beside it, for the crowd's counting, and for a leader, a successor and somebody who is passed over. Two
rounds exercise later selectors; two cells the end of a round against its middle. A cap of 2 with a
clock to 3 gives connections below, at and above the cap, presses before and after their
acknowledgement, and two presses whose arrival order differs from the order of their thumbs. Two
armings are enough for stale claims and acknowledgements: only equality of arming numbers matters. In
`clock` the round's clock runs longer than the others, so that some entry is always due first; one
undoable action takes the game back across every edge of the table. In `lifecycle` idle expiry,
grace and lag are all different and each can be first. Three dials are a first connection, a lost
one and the one that comes back while the room still serves the lost. Two batches
beside the state a phone is welcomed with are a lone win and the event after it, on either side of a
join or a drop.

`ImplementsRace` and `KeepsTheRace` say that `GameEngine` and `BuzzHold` implement `BuzzRace` (dead,
open, held or off, the holder's entity, the barred set), on board clues and in sudden death alike, the
room's reordering of presses included. `ImplementsPhases` says that `GameEngine` implements the
driver's table. What `FloorIsFair` says of two soloists and of sudden death follows from
`ImplementsRace` (`Win` and `Miss` of `BuzzRace`), which `finale` checks; `party` checks it of board
clues, where teams and their captains make it harder. It says nothing of who the captain is (section 5). `LeadershipIsSound` has three parts, each with its own definition. Each property of a passing run
has a mutant in `PROJECT.json`: a plausible bug of the mapped code that the run finds.

Fairness. Nothing is assumed of phones, hosts or the network as such.

- `BuzzHold!FairSpec`: time passes (`Tick`), an alarm that is due is run (`AlarmRings`: every write of
  the deadline reschedules the alarm, and the platform runs it at least once), a handler that has
  started runs on (`FeedEngine`, `FinishFlush`), and the registry answers or fails (`Resume`: the
  writer catches the failure).
- `RoomClock!FairSpec`: an alarm that is due is run.
- `RoomLifecycle!FairSpec`: an alarm that is due is run; time passes, strongly, since a minute
  waits for the statements on their way and again and again there are none (`[]<>(writes = {})`):
  a statement takes milliseconds, messages are rate limited (`admitMessage`).
- `RoomClient!FairSpec`: the reconnect timer fires, a socket that was dialed opens, and on a connection
  that lasts both ends handle what they receive. A connection need not last.

## 4. Proofs

Every safety property of a passing run - invariant, action property or refinement - is proved for
every value of the constants that the named assumptions allow. Only liveness is left to TLC.

### Engine

`GameEngine_proofs` proves `TypeCorrect` (`TypeOK`), `ClueAlwaysMatchesPhase` (`ClueMatchesPhase`)
and `SelectionAlwaysPossible` (`SelectionIsPossible`) from `EngineInv`, which strengthens them:

- `HoldersAreSeated`: whoever holds a buzz or a wager is a seated player or an entity of the
  order. Without it the step that scores the holder cannot be typed.
- `LaterBoardsAreFresh`: every round after the current one still has all its cells and an unspent
  clock. Without it `Proceed` could open a board that cannot be selected from.
- `BreakNamesARound`: a break that says "round" has a next round.

The proof first shows what each shared operator preserves (`PresentClue`, `CloseClue`, `EndRound`,
`StartRound`, `FinishGame`), once, and then has one step per action. The assumptions are those the
code makes: entities of players and teams are distinct, there is at least one round and one cell,
the null is none of the values.

`EngineSafety_proofs` adds what the engine promises of its entities. `GameInv` is `EngineInv` with

- `RosterInv`: `RosterIsConsistent` without its counts. That a member list, or the scoring order,
  repeats nobody is said by its indices, which a join and a leave preserve visibly; the two
  cardinalities follow (`RosterAlwaysConsistent`).
- `BoardNames`, `EndNames`: control, bettor, submissions, the final's field and the tied are
  entities that score. An entity never leaves the order, so a leave cannot break it; and once the
  game started there is at least one, which is why a final and a crowd clue have somebody.
- `StakeInv`: the bettor is known from the pick on, the stake from the commit on
  (`WagerAlwaysSettled`).
- `ClueFloor`, `TieFloor`: the two halves of `FloorIsFair` (`FloorAlwaysFair`).
- `CrowdInv`: an open answer window has fewer answers than there are entities, nobody is judged
  before the judging, and the judging ends with the last verdict. With it somebody is awaited
  although entities join while the window is open (`CrowdAlwaysFinishes`).
- `FinalInv`: in the reveal everybody of the field is announced in the batch or alone, and
  somebody has no verdict yet. That this somebody `MayReveal`, in the order the reveal prescribes, is
  a minimum over the scores of a finite field (`FinalAlwaysFinishes`).

`AlwaysCrownsTheTop` (`CrownsTheTop`) needs of it only that in sudden death the holder of the buzz is
still in the field (`TieFloor`): it follows the four
places that end a game to `FinishGame` and the scores each one hands it.

`EngineRefines_proofs` maps every step to a step or a stutter of the two abstractions:

- `EngineImplementsRace` (`ImplementsRace`): a press that wins is that of an entity nobody barred;
  a miss bars at most the holder and lets go of the floor; a bar lasts until a clue is dealt or
  the race is off. One lemma for each group of actions, over a few about the spine
  (`RaceCloses`, `RaceDeals`, `CloseClueRace`, `AfterMissRace`).
- `EngineImplementsPhases` (`ImplementsPhases`): for each action, the row of `EngineTable` its
  outcome is (`Matches`: the phase it leads to, the timers it asks for, how its events read). This
  is what ties `RoomClock` to the engine.

### Holding pen

`BuzzHold_proofs` proves, for any number of phones, any cap, window, lockout and delays, and any
length of game:

- `TypeCorrect` (`TypeOK`), `PenAlwaysHasDeadline` (`PenHasDeadline`),
- `FastestIsFirst` (`FastestThumbFirst`): from the arithmetic lemma `SteadyIsExact`, since a steady
  connection within the cap is credited exactly what its phone measured,
- `RaceIsDecided` (`RaceWasDecided`), the argument behind `adjudicationDeadlineMs`,
- `NeverDropped` (`HeldUntilFed`),
- `HoldImplementsRace` (`KeepsTheRace`): the initial state and every step map to `BuzzRace`.

They follow from one inductive invariant, `IInv`:

- `Pens`: in memory and in storage the deadline is that of the same presses, and
  (`Covered`) some held press has the whole cap before it. This is what has to survive a round trip
  measured late, which can only lower a credit (`MeasuringLowers`), and an eviction, which forgets
  it and raises the credit again; hence it is stated of both copies.
- `Decided`: when the deadline hands the presses over, and as long as its winner answers, the clock
  is a cap past the winner's credit. With `CreditBounds` (nobody is credited more than a cap below
  what the room observed) `RaceWasDecided` follows.
- `Waiting`: a handler that waits for the registry finds in the pen only presses made while the
  race was open, so going on never opens a new arming over them. Without it `HeldUntilFed` is not
  inductive.
- `Clocks`, `Feeding`, `EngineOK`: nothing lies in the future; presses are fed out of an empty pen;
  somebody holds the race exactly while a clue is being answered.

The assumptions are that the cap, the window, the lockout and the bounds are natural numbers and
that the null is neither a number nor a phone. Compensation off is `Window = 0`, which the theorems
cover and no run repeats.

### Alarm book

`RoomClock_proofs` proves, for timers of any positive length and any depth of undo, `TypeCorrect`
(`TypeOK`), `AlarmAlwaysCovers` (`AlarmCoversBook`), `PauseAlwaysHolds` (`PauseHoldsRunningTimers`),
`LifecycleAlwaysKeepsUp` (`LifecycleKeepsUp`), `AlwaysForgetsOnlySilence`
(`EvictionForgetsOnlySilence`) and `AlwaysLeaveByRinging` (`ClocksLeaveByRinging`). `ClockInv`:

- `Synced`: storage agrees with memory on book, pause, lifecycle and, but for the steps of a
  tiebreaker clue, on the phase. Without it an eviction could bring back anything.
- `MemOK`, of memory and of storage: types, no kind twice in the book, and `History`. An undo
  takes the game back and the lifecycle not, so `LifecycleKeepsUp` is not inductive: it has to hold of
  every game the undo log can bring back.
- `Covers` and `Holds`: the alarm and the pause, entry by entry, of any memory, so that they can be
  followed through a handler's intermediate results.

The argument has three layers. `GoodRow` is all that is used of the engine: what every row of the
table keeps (an action leaves the lobby only by a start that is told, the end is final, only the latch
and the loss of a tiebreaker clue are silent, no row asks for two timers besides the round's clock).
`Follows` is what a batch, a walk of the skip, or a ringing alarm of any length may do to memory:
it holds of the empty one and is kept by each further action, and a least counterexample makes that
a statement about all lengths, since the library's induction theorems are out of reach. `Settle`
then turns what `Follows` allows into a step that keeps `ClockInv`, and each handler is one lemma over
the three. The assumptions are that lengths are positive, the undo depth is a natural number and the
null is no number.

The walk, the batch and the filter of the book are recursive functions for this reason: a fold
takes its operator as a parameter, which the provers cannot instantiate.

### Roster and teams

`RoomSeats_proofs` proves, for any number of players, teams and sockets, any caps and any depth of
undo:

- `TypeCorrect` (`TypeOK`),
- `LeadershipAlwaysSound` (`LeadershipIsSound`) and `ConnectedAreAttached` (`ConnectedIsAttached`),
- `SeatsAlwaysAgree` (`SeatsAgree`).

The second line is inductive as a whole, as `LeadInv`: that the crown passes needs that its holder is a
member, and that an absent leader is timed needs that a pending succession names it. `SeatsAgree` is
not inductive: an undo puts back an old engine, so the agreement has to hold of every engine state
that is kept. `SeatInv` says so of the present one and of each in the log (`Fits`): a seat matches
its player's team, nobody who is not minted yet has one, nobody is seated as a soloist in teams mode,
and nobody is seated at all while the room is in its lobby, which is why the team edits of the lobby
cannot disturb a seat. The assumptions are that the bounds are natural numbers and that players, teams
and the two marks are distinct.

### Lifecycle and lobby row

`RoomLifecycle_proofs` proves, for any grace and lag below any idle expiry and any number of sockets,
`TypeCorrect` (`TypeOK`), `AlarmAlwaysCovers` (`AlarmCoversRoom`), `GraceAlwaysVacancy`
(`GraceIsVacancy`), `DeadRoomsAlwaysDelist` (`DeadRoomsDelist`), `ClosedAlwaysDelisted`
(`ClosedIsDelisted`) and `AlwaysWipedAfterSilence` (`WipedAfterSilence`). Added to them in `IInv`:

- `Presence`: somebody is there only in a room that was visited, and a room is visited, left or
  closed only after its row's first write is done. Without it a late INSERT could list a closed room
  again.
- `Ages`: memory is late by what storage is late, and by `Lag` at the most. That an unstored touch
  follows a stored one closely is what makes the wipe after an eviction early by no more.
- `Rows`: the row lives no longer than the room, and a statement that would renew it belongs to a
  room that was just heard of. `DeadRoomsDelist` alone says nothing about the moment of death.
- `Closing`: of a closed room a statement that ends the row is on its way, the row is gone or
  ended, or a statement failed.

### Phone

`RoomClient_proofs` proves, for any number of dials, seats and batches, `TypeCorrect` (`TypeOK`),
`AlwaysCaughtUp` (`CaughtUp`), `NeverAFalseGap` (`NoFalseGaps`), `AlwaysSameSeat` (`SameSeat`) and
`SeatAlwaysKept` (`SeatIsKept`). `CaughtUp` and `SameSeat` speak of quiet connections; `IInv` says what
has to be true of the messages on their way:

- `News`: snapshots, events and wins on the phone's connection are in order (`Ordered`) and without
  a gap (`Chained`); and as long as the room has the phone as joined, the last of them has the room's
  version (`Heard`), and the last that brings a state is no older than the last state sent (`Shows`).
  So the phone is never behind by more than what it has still to read, and never finds a gap.
- `OneWelcome`: all welcomes on a connection are to the seat the room attached, and a phone with a
  token asks for that one before anything else.
- `TokenGone`: a refusal or a kick on its way means that the seat is gone already; so the phone that
  drops its token on reading it gives nothing away.
- `Past`, `Silent`: seats are minted once, what is shown is of the past, and a connection that is not
  open says nothing.

### What proving changed

Two definitions had alternatives that overlapped and were correct only by the order in which a CASE is
evaluated: `Landed` of `RoomLifecycle` and `FinalScore` of the final. They now say the order. The null
of `RoomLifecycle` has to differ from the phases, which TLC's model value had hidden. No property had
to be weakened, and no run's state space changed.

### Model-checked only

Liveness, which like ENABLED is beyond the prover: `EveryPressIsRuledOn`, `EveryTimerRings`,
`VacantRoomsClose`, `SilentRoomsGo`, `ComesBack`. The type invariants of `GameEngine`, `BuzzHold`,
`RoomSeats` and `RoomClient` are proved and no run repeats them; the three `expect: violation`
properties are false.

## 5. Where the code and its texts disagree

With a run that shows it:

- `notakers`: no clue is resolved with presses "still in the holding pen" (`game-room-do.ts:714`),
  but a flush whose presses were only early ones waits for the registry before the handler's own
  action, and a press held meanwhile is overtaken by it.
- `break`: "a break never expires the clue somebody was mid-answer on" (`user-flows.md:85`), but a press
  relayed during the pause sets an answer window without a remaining time (`game-room-do.ts:485`); the
  pause counts against it, and it is due when the room resumes.
- `firstjoiner`: an emptied team's "first joiner becomes leader" (`game-room-do.ts:1772`,
  `user-flows.md:241`), but a join of the room that names the team (1217) leaves it without a leader;
  only the path through `team-join` crowns.

Seen while modelling; the modules have the behaviour, no run is spent on it:

- "one active buzzer per clue" (`settings/groups/teams.ts:57`), but a join during the clue changes
  `captainRotation % memberIds.length` (`buzzing.ts:168`).
- floor-at-zero "deducts only down to zero" (`scoring.ts:7`), but it pays a score the host set below
  zero up to zero.
- "nobody can finish the final below zero" (`settings/groups/final.ts:28`), but the token stake of an
  eligible entity at zero is deducted (`final.ts:24`).
- a window equal to the cap "can never exclude a buzz that could have won" (decision record on buzz
  latency compensation, line 104), but a press the engine is going to refuse is held and sets the
  deadline as if it could win (`arm-window.ts:111`).
- the room's cap on teams does not stop a straggler of a running game, who becomes a team of one
  (`JoinAsSoloTeam`), and stops start-game's stragglers silently, who then stay unseated.
- all reports to the lobby are UPDATEs: a room whose first INSERT failed is never listed, and a closed
  room that is started again stays delisted.
- a refused resume drops the token so that "the next dial is a fresh join"
  (`ws-room-store.svelte.ts:448`), but the room closes with 4401, which is terminal: there is no next
  dial in this store, only a reload.
- a welcome lost with its connection leaves a seat nobody knows the token of; the phone's next join
  mints another.
- a phone that left dials again, unjoined, and keeps the room from being empty.
- "every batch now carries the state it produced" (`surfaces.md:78`), but the batch of a buzz won in
  sudden death is that one event, which is sent as a message of its own, without state
  (`game-room-do.ts:527-542`), and filtered out of the stream (579-581); an empty stream is not sent
  (602). The client notes the version and keeps the phase `tiebreaker-armed`; the next batch looks like
  the next in order, so nothing asks for a sync. A host console, whose verdict buttons need
  `tiebreaker-answering` (`host-console.svelte:242`), shows none until another batch or a reload.
  `CaughtUp` says what is left: the last state that was sent.
- when everyone missed a tiebreaker clue, the host may arm the next one with every participant still
  eliminated (`judging.ts:102`, `buzzing.ts:63`); nobody can win it until the buzz window or
  `tiebreaker-next-clue` resets the eliminations.

Read, not modelled: the console's countdowns (`room-fold.ts`) drop the round's clock with the first
finished clue (230), though it "spans the whole round" (44); they are not moved by a pause; and a
countdown that a skip dropped in silence stays.

## 6. Plan

Done: the engine, its abstractions, and the room's parts: holding pen, clock, seats, lifecycle and
lobby row, and the phone's connection. What is left, the most useful first:

1. Proofs: what the liveness properties rest on and the prover can reach - the measures that go down
   (time left, statements on their way, presses held) and that a due handler's guard holds.
2. The fold of events in the browser against the room's book, over `RoomClock`.
3. Undo as a replay of the whole log under rules that were replaced since.
4. A crash inside a handler, between two of its writes.

## 7. Not modelled

Most of the repository's lines are rendering: screens, panels, the diorama, staging, the landing page,
the development pages. They keep no protocol state, and what the modules map is the logic beneath
them: nearly all of the engine and the larger part of the room's object.

- Asset tools, schema parsing, document migration: no state that outlives a call.
- Redaction, content blob, diagnostics: views of the state for one role. Redaction blanks what a role may
  not see and hides no event, so versions and seats do not depend on it.
- Bots and simulators drive tests; `local-sim-store` is a second driver of the same engine without
  a room.
- The seeded generator and the weights of wager cells: arithmetic without interleaving; any layout and
  any draw is allowed.
- The senders' authority: an action may come from anybody at any time. The guards that refuse a role
  only remove behaviours, except that `authorizeTeamAdministration` trusts the leader, which is why
  `LeadershipIsSound` is checked.
- A crash inside a handler, and the lobby's listing query beyond its WHERE clause.
