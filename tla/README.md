# Memomarium in TLA+

Memomarium is a party game server: players join a room from their phones, prepare a
situation with a meme, and in each round guess which of several memes the active player
chose for it. The server is one Go process over SQLite. This directory holds its formal
model: what is checked by TLC on small instances, and what is proved by TLAPS for all.

## The system and its parts

| Part (source) | State | Operations | Correct when | Modelled by |
| --- | --- | --- | --- | --- |
| Game engine (`internal/engine`) | the room's aggregate: room state, phase, players, game players, cycle, hands, prepared turns, rounds, submissions, vote options, votes | the commands of `Engine.Handle`: START_GAME, SUBMIT_PREPARATION, SUBMIT_ROUND_MEME, SUBMIT_VOTE, NEXT_ROUND, START_NEXT_CYCLE, FORCE_RESOLVE_PHASE, TIMEOUT_PHASE, LEAVE_ROOM, KICK_PLAYER, START_NEW_GAME | every order of commands leads to a legal state, nobody loses or gains a turn, no phase waits for nobody | `GameEngine`, `GameFlow` |
| Meme dealer (`engine/dealer.go`) | recency of memes | deal preparation hands, deal round hands | hands are disjoint, hold no original of the cycle, and the memes suffice | `GameEngine` |
| Score calculator (`internal/domain/scoring`) | none | `CalculateRound` | the points follow the rules | `Scoring` |
| Projection (`internal/projection`) | none | aggregate to player, host and screen views | secrets stay hidden until the results | `Projection` |
| Repository, schema (`internal/repository`, `migrations`) | the tables | one SQL statement per method, `WithTx` | a transaction is all or nothing, no legal command fails in its save, a load returns what was saved | `Persistence` |
| Coordinator (`internal/coordinator`) | one lock per room; the revision; processed command ids | join, reconnect, disconnect, handle a command, settings, delete a room | commands of a room are serial and atomic, run at most once, against the revision the sender saw | `RoomCoordinator` |
| Sessions (`internal/session`) | token hashes, `revokedAt` | create, authenticate, revoke | a revoked session stays revoked | `RoomCoordinator` |
| Timeout scheduler, recovery (`coordinator`, `cmd`) | none of its own | scan the rooms each second and once at startup | every overdue phase is ended, and no other | `TimeoutScheduler` |
| WebSocket hub (`internal/transport/websocket`) | clients per room, a bounded buffer each | register, unregister, broadcast, close a player | a client learns of the last change; a kicked one is cut off | `WsHub` |
| HTTP transport (`internal/transport/http`) | none | REST handlers, upgrade, uploads | what a handler does in several steps survives other handlers in between | `WsHub`, `RoomCoordinator`, `MemeUpload` |
| Media (`internal/media`) | files of a meme | process an upload, remove its files | no record without files, no files without a record | `MemeUpload` |
| Web client (`web/src`) | socket, snapshot, revision | reconnect, probe, fetch a snapshot | shows the current state in the end | `WsHub` |
| Storage (`internal/storage/sqlite`) | database file, three backups | open, migrate, back up | a failed migration loses nothing | - |

**How they interact.** An HTTP handler authenticates the sender and calls the coordinator.
`HandleCommand` takes the room's lock, opens a transaction, loads the aggregate, lets the
engine transform it in memory, saves every row of it, records the command id and commits;
any error rolls everything back. It then broadcasts STATE_UPDATED through the hub, and
clients fetch a snapshot made by the projection. The scheduler goroutine does the same with
TIMEOUT_PHASE. The database has a single connection, and all writers of a game go through the
room's lock, with the exceptions listed under hazards in `PROJECT.json` (settings,
content, the session service, the first read of `MarkDisconnected`).

**What is hard.** Almost every handler of the engine can end the phase it is called in, and
the end of a phase chains: the last vote scores the round; the leave of the active player
cancels the round and deals the next, or ends the cycle, or ends the game and closes the
room. The same phase can be ended by the last answer, a leave, a kick, a timeout or a forced
end, and the players a phase waits for change while it waits. Around the engine, several
goroutines touch the same rows, and clients disconnect, retry and return.

## Modules

| Module | Content |
| --- | --- |
| `Scoring` | `CalculateRound`, the score configurations |
| `GameFlow` | the abstract specification: who takes part, who had a turn, where the game stands |
| `RoomPlayers` | the abstract specification of who is in a room, who has left it and who is host |
| `GameEngine` | the engine and dealer: what one accepted command does; properties; the refinement mappings to `GameFlow` and `RoomPlayers` |
| `Projection` | extends `GameEngine` with what each viewer is shown |
| `Persistence` | extends `Projection` with the tables, the statements of a save, and the load |
| `MCGameEngine` | constants of the small instances of these |
| `RoomCoordinator`, `MCRoomCoordinator` | the requests of one room, step by step; the refinement mapping to `RoomPlayers` |
| `TimeoutScheduler` | deadlines and scans over all rooms |
| `WsHub` | hub, connections, and one player's browser |
| `MemeUpload`, `MCMemeUpload` | memes, their files, and the requests that change them |
| `TurnOrderLemmas` | lemmas about the minimum of a set of players, and about dealing from a pool |
| `GameFlowProofs`, `GameEngineProofs`, `PersistenceProofs`, `RoomCoordinatorProofs`, `TimeoutSchedulerProofs`, `WsHubProofs`, `MemeUploadProofs` | the theorems |

The modules look at the same commands from different sides: `GameEngine` is what one command does,
`RoomCoordinator` how commands get to run one after another; there the game is the number of
changes its rows have seen. Where they overlap, in what a command makes of the players, `RoomPlayers` ties them together: both
implement it. `TimeoutScheduler` sees of a room one bit per phase and a
deadline, `WsHub` two numbers, the changes and the revision.

### GameEngine and the code

One step is one *accepted* command. That granularity is the code's: the room lock and the
transaction in `HandleCommand` make a command atomic (`RoomCoordinator`), and a handler's error discards the
aggregate it was changing. So a rejected command is no step, and an error that
arises deep in the chain (`startRound` without a prepared turn, a deal without enough
memes) is a conjunct of the guard of the whole action. `AdvanceToRoundSelection`,
`AdvanceToRoundVoting`, `AdvanceToRoundResults`, `StartRound`, `FinishCycle` and
`NextRoundOrFinish` are the functions of those names and are called by the actions where the
handlers call them, with the parts of the aggregate the caller has changed already.

| Variable | Code |
| --- | --- |
| `roomState`, `phase` | `Room.State`, `Aggregate.Phase`; `"NONE"` is the empty phase |
| `member`, `role` | a row of `players`: absent, present, or with `LeftAt` set; `Player.Role` |
| `status`, `score` | `GamePlayer.ParticipationStatus` and `Score` |
| `cycle` | `GameCycle.Number` |
| `prepHand`, `roundHand` | the hands of kind PREPARATION, and of kind ROUND for the current round |
| `prepared` | the `OriginalMemeID` of a player's `PreparedTurn` |
| `turn`, `current` | `Round.Status` of the round in which a player is active; whose round `CurrentRoundID` is |
| `submitted`, `ballot`, `votes` | submissions, vote options and votes of the current round |
| `enabled`, `edits` | the enabled memes, and a counter that bounds their edits |

Players are numbered by `joinedAt`, which is also the turn order; a round is named by its
active player, because nobody is active twice in a cycle, and an option by its owner.
Timeouts: `setPhaseDeadline` gives the open phases with a positive setting a deadline, and
`TimeoutPhase` may happen at any later moment. Time itself is not modelled. The random choices
of the dealer (the shuffle, the meme filled in for a late player) are existential
quantifiers. `ResetPersists` is what the foreign key from `game_players` to
`players` allows `SaveAggregate` to do after START_NEW_GAME; `Persistence` derives it from the statements.
`SetMemeEnabled` is the administrator's switch, which no lock keeps apart from a game.

Abstracted: situation texts (START_GAME's check that one is enabled, and the choice of a
text), option numbers and their shuffle, timestamps, events, round scores (history), player names, the seat
limit `maxPlayers` (the number of players bounds it here; `RoomCoordinator` has it). A player who left and joins anew
is a new player, as in the code. Deletion of memes during a game is not modelled, only their switch.
Settings do not change during a game; the race in `UpdateSettings` that breaks this is
in `RoomCoordinator`. `IsHostOrAdmin` looks at the role alone, as the code does. Who has left sends no commands, since their session is revoked in the same
transaction: `Actors` are the administrators and those present.

### GameFlow

`stage`, `playing` and `turn` with one action per thing that can happen to a game: it
begins, its first round opens, a round finishes or is cancelled, somebody drops out, play goes on, a new cycle,
a reset. It says nothing of memes or votes, so it allows any moment for the end of
a round. `GameEngine` maps to it with `Stage` (from `roomState` and `phase`)
and `Playing` (ACTIVE or SKIPPED); `turn` maps to itself.
What it promises is proved in `GameFlowProofs`: turns in order (`TurnsInOrder`), one round at a time (`OneRoundAtATime`), no turn
taken back (`TurnsAreFinal`), a turn for everyone who stays (`CycleIsComplete`). The last is checked and proved of the engine, too.

### RoomPlayers

`state`, `rows`, `gone` and `hosts`, with a join, a start, a leave and its handover, a reset and a deletion. A
leave in the lobby takes the row away, one in a game marks it. `GameEngine` maps to it with the rows that
`SaveAggregate` keeps (`HasRow`: a leaver's row stays as long as a game refers to it) and never deletes a room;
`RoomCoordinator` maps its `row` to it and never resets one. In `GameEngine` a step is a whole command; in `RoomCoordinator` the same step
is one transaction among many, so that there the refinement can fail: by a row that is written back late. It is claimed
up to the first time that happens (`overwritten`).

### Projection

`Snapshot(v, agg)` is what viewer `v` sees of an aggregate: `PublicView` and, by phase,
`PreparationView`, `SelectionView`, `VotingView` and `RevealView`, after the functions of
`projection.go` that build `phaseData`. It takes the aggregate as a parameter, so that a
property can compare two. The public screen and the host page get the phase data of a viewer without a hand.

### Persistence

A database is a function from tables to sets of rows. `Stored` is what the tables hold of the
current aggregate; `SaveAggregate` is the code's sequence of deletes, inserts and updates, in its order, and
`Exec` runs one of them against the primary keys, the UNIQUE constraint of
`dealt_hands` and the foreign keys of `migrations/`; a broken
constraint fails the `Transaction`. `Load` is `loadAggregate`. Bulk inserts of one table are one
statement; the rows of earlier rounds are over-approximated from what `GameEngine` keeps of
them. `rooms`, `room_settings` and `processed_commands` have one statement each and are left out.

### RoomCoordinator

The database has one connection, so a statement outside a transaction is one step and a
transaction is one step; between two steps of a request any other request may run.

| Variable | Code |
| --- | --- |
| `room`, `settings`, `row`, `session`, `processed` | the rows of `rooms`, `room_settings`, `players`, `player_sessions`, `processed_commands` |
| `step`, `snapshot` | how often the game's rows have changed; `games.settings_snapshot` and the revision START_GAME met |
| `lockEntry`, `owner` | `Coordinator.rooms[room]`; who holds each `roomLock` |
| `req` | each request: kind, program counter, and what it has read (`row` for MarkDisconnected, `settings` for a patch, `at` a revision) |
| `sent` | the commands that clients have composed, with the revision they carry and the state they saw |
| `applied`, `ended`, `overwritten` | history, for the properties |

`AuthRead`/`AuthWrite` are `Authenticate`'s read and write of the whole session row;
`FindRoom`, `LockFor`, `Acquire`, `Unlock` surround what `JoinTx`, `ReconnectRow`, `DisconnectRow`, `CommandTx`
and `DeleteTx` do under the lock. `Look` and `Compose` are a snapshot, read statement by statement
without a transaction, and the command made from it; `Resend` is a retry or a duplicate. `ReadSettings`,
`CheckLobby`, `WriteSettings` are `handleUpdateSettings`, which takes no lock. `Forget` is
`DeleteRoom`'s change of the lock map without the map's mutex: other changes of the map at the same time
end the process, which is `Crash`. Commands change rows as `applyLeave` and `SaveAggregate` do; what
else they do to the game is `GameEngine`'s. START_NEW_GAME is not among them.

### TimeoutScheduler

`List`, `Pick`, `LockRoom`, then `Skip`, `Apply` or `Abort` are `CheckOverdueDeadlines` and `applyTimeoutIfOverdue`;
the same scan runs with `server = "RECOVERING"` before the server serves (`Recover` in `main`),
where an abort stops the process. Clients take the same locks. A room is *impeded*
while the engine refuses to resolve its phase, for the reasons `GameEngine` shows: content
that was switched off, or a PREPARATION that everyone has left.

### WsHub

One player's browser with its successive connections. The writer (any request that changes the room)
commits, broadcasts client by client under the hub's read lock, then gives up the lock; after a
kick, `ClosePlayer` runs on its own. Each connection goes through `handleWS` (`LoadSnapshot`, `Register`,
`SendSnapshot`) and through `closeWithCode` (`Unregister`, `CloseConn`, `OnDisconnect`); the pumps are `PumpFails` and `Deliver`.
The browser is `web/src/services/gameSocket.ts` and the stores `gameSession.ts` and `connection.ts`: `Open`, `OnClose`, the probe after a few failed
attempts, `SetSnapshot`, the requests for a snapshot and their answers in any order. `missed` and
`failed` are history. The race of `Authenticate` with a revocation is left to
`RoomCoordinator`.

### MemeUpload

`files` counts the files of each upload on disk, `meme` is the table. `Begin`, `WriteAtomic` (three times), `FindName`, `Replace` or
`FindImage`, `AddMeme`, `RemoveResult` are `handleCreateMeme`; `ReadMeme` and `WriteBack` are `handleUpdateMeme`, which writes
back the whole row it has read; `DeleteMeme` is `handleDeleteMeme`. Each may fail or be cut short by a crash.

## What is checked

| Run | Question | Result |
| --- | --- | --- |
| `engine` | a finite game of up to 3 players, 5 memes, one content edit | turns are prepared, one host remains, nothing is shown too early, every round pays by its outcome, the chains of phase changes fail in the named case only, `GameFlow` and `RoomPlayers` are implemented |
| `cycles` | an infinite game, 2 cycles | nothing leaks from one cycle into the next; everyone who stays has one turn a cycle; ballots are fair, no phase idles and no chain fails but in the named cases, only a leave between cycles is forgotten; every save stores exactly the aggregate |
| `timeouts` | 2 players, a deadline on each phase, a fair scheduler | each open phase ends; every save goes through but the named reset |
| `coordinator` | 2 requests at a time on one room of 3 players, 2 commands and their retries, crashes | the lock serializes, commands count once, leaves and started games are undone by the named races only; `RoomPlayers` is implemented |
| `scheduler` | 2 rooms, commands, one crash, one impeded room | overdue phases end, others are left alone, the server comes up unless recovery meets such a room |
| `hub` | one browser, 2 connections, 2 requests, a kick, one network failure | no send on a closed channel, the browser catches up but for the named races, a kicked one gives up |
| `uploads` | 3 uploads of 2 images under 2 names, 3 requests at a time, one failure or crash | memes keep their files, orphans have causes, names are unique, each but for the named races |
| `scoring` | does the partial case pay those who guessed, and a submitted meme that got a vote? | violated: it pays every voter, and never the bonus |
| `deserted` | can each open phase end, in an infinite game? | violated: PREPARATION with nobody ACTIVE |
| `gone` | does no phase wait for somebody who left? | violated: after a leave in CYCLE_RESULTS |
| `reset` | can a finished room be reset? | violated: not when a participant has left |
| `held` | can everybody leave at any time? | violated: the last ACTIVE player of a PREPARATION cannot |

**Properties of the game.** `TurnsArePrepared`: whoever may be picked for a round has a prepared turn, so that
`startRound` never fails for want of one. `HostIsOldest`: one host among those present, the one
who joined first. `BallotIsFair`: no meme twice on a ballot, no original of another
round on it, and everyone who votes owns an option. `BallotFrozen`: a published ballot and cast
votes stay. `NoIdleWait`: no phase stays open when everyone it waits for is done, with two exceptions: a round
whose active player is the only one ACTIVE (a timeout or a forced end closes it), and a PREPARATION of a later cycle with nobody ACTIVE
(`Deserted`; nothing closes it, which is what the run `deserted` shows). `CyclesAreComplete`: a cycle ends only when everyone who stayed
has finished a turn. `SkippedForOneRound`: SKIPPED is seen in ROUND_RESULTS only.
`ScoresSettleOnce`: points move when voting ends, to the active player and those who voted.
`PhaseCanEnd`: a timeout or a forced end is accepted in each open phase. `ChainsNeverFail` says why, and says more: it goes through the
places where `startRound` is called (the end of a PREPARATION by whichever memes the late are given, a leave in it, a cancelled round,
NEXT_ROUND, a new cycle) and demands of the aggregate, before the call, that somebody can be the active player, has an original, and that a hand for
everybody else exists, also with the status the caller has already changed; where the code ends the cycle when nobody is left, that is no failure
(`CanMoveOn`). Two chains do fail and are its exceptions: the end of a deserted PREPARATION, and in any PREPARATION the leave of the last who is
ACTIVE, which is refused with ErrInternal; `LeaveIsAccepted`, which the run `held` violates, is about the second.
`OnlyResultsForgetLeavers`: the one
leave that does not end a participation is that in CYCLE_RESULTS or GAME_RESULTS. `OutcomeIsPaid`: the active player is paid by
whether all, none or some of the votes found the original, and a guesser by whether all did (but for one whose own meme got a vote, who might be due
the bonus of section 39 of the design). It leaves open what the rules and the code disagree about, which is `ScoresAsDocumented`.
`ImplementsFlow`, `ImplementsRoom`: the refinements.

**What is shown and stored.** `SnapshotsAreBlind` is non-interference: had the other players
exchanged their hands, memes and votes, every viewer would see the same, until the results.
`OriginalUnseen`: nobody but the active player has been shown the original before the ballot. `StoredExactly`:
no accepted command fails in the save, whatever rows are left of earlier rounds, and the load
returns the aggregate; the reset of a room that a participant has left is the exception, and fails.

**The room and its requests.** `OneInside`: at most one request between Lock and Unlock while the room
exists. `CommandsCountOnce`: each command id takes effect at most once over retries and crashes, and the revision is the
number of those that did. `ActsOnWhatItSaw`: a command with an expected revision meets the game its
sender saw, even if the snapshot mixes two moments. It speaks of the game's rows: joins, disconnects and settings do not bump the revision.
`LeavingIsFinal`: who left stays out and one host remains, but for two races (`overwritten`): an
`Authenticate` around the revocation, a `MarkDisconnected` around the leave. `OnlyOvertakenPatches`: a
running game's settings change only through a patch that had met the LOBBY before the start.

**Deadlines.** `TimeoutsAreDue`: a deadline is looked at again under the lock. `OverdueEnds`: once rooms are no longer
impeded every overdue phase ends, although a failing room ends its scan. While one stays impeded,
rooms after it in the list may wait for ever. `ServerComesUp` names the case in which recovery cannot succeed.

**The browser.** `NoSendOnClosed`; `ClientsCatchUp`: whoever is registered shows the room as it is or the news is on
its way, a full buffer included, except where the history `missed` says how it passed by; `StaleClicksAreRefused`: an
old picture carries an old revision, unless a request that will bring the new one is under way (not yet served, refused, or answered with the room's revision) or one has failed; `KickedClientGivesUp`.

**Content.** `MemesHaveFiles`, `OrphansHaveCauses`, `NamesAreUnique`, each with the race that breaks it named by a
history variable (`reverted`, `leaked`, `raced`).

A property that names an exception holds of everything else; a mutant in `PROJECT.json` shows for
each that the code's own guard is what it rests on. The exceptions are listed there as hazards.

**The violated ones** state what a comment or the design document says, and the findings in
`PROJECT.json` quote it: the partial score, and the bonus for a submitted meme; condition 20 of the design's list; "Leave and
Kick permanently end a player's participation"; the reset of a finished room "with the same
players"; section 33 of the design, by which a leaver in GAME_PREPARATION is taken out of the game.

Four of them have a property beside them that holds and says how far the disagreement goes: `OutcomeIsPaid` is what a round pays where nothing
contradicts it; `OnlyResultsForgetLeavers` leaves no other phase to the leak that `gone` shows;
`ChainsNeverFail` leaves no other way into a phase that cannot end than the one of `deserted`, and no other refused leave than that of `held`.
`ScoresAsDocumented` is contradicted twice over, by the partial payment and by the bonus. TLC stops at the first; with its `guess(p)`
replaced by what the code pays it is violated still, by the bonus alone, be it the owner's or the voter's.

### Bounds

- *Game.* Three players are the fewest with which a round has two guessers who
  differ, a leaver can leave two behind and the turn order has a middle. With hands of one meme, five memes
  are what START_GAME asks for three players (3 originals and 2 hands), so the dealer works at its
  limit, and one edit takes it below. `MaxCycles` = 2 is the least that has a state
  inherited from an earlier cycle. `CustomScoreConfig` gives all outcomes different points, so
  that a wrong payment shows. Two players are enough for `timeouts`, which needs neither turn
  order nor several guessers, and for the violations. `cycles` has no timers: a forced end does
  what a timeout does; and it pays in one outcome only (`SparseScoreConfig`): the sums of the first cycle would
  otherwise multiply the states of the second, and `engine` has them all different. Each property is checked in the one of
  the two runs where more can break it, and proved for both; `ChainsNeverFail` in both, because its two exceptions
  belong to different games.
- *Coordinator.* Every race of the code is between two requests, the first of which has read
  something; with a capacity of 2 a third player meets a full room. So a leaving host has one heir here: the choice among several is `HostIsOldest` of `engine`. Two
  commands are enough for one to overtake the other. The proofs below have no bounds.
- *Scheduler.* Two rooms: one that fails and one that waits behind it.
- *Hub.* Two connections of a player are what overlap at a reconnect; two requests answer out of order; a buffer of 2 (64 in the code) is filled
  by one change and the disconnect of the old connection; two failed attempts (3 in the code) lead to the probe. The one ordinary change
  (`MaxVersion`) comes on top of the kick, the disconnects and the probes, which change the room too.
- *Uploads.* The third upload replaces or duplicates what two others race for.

Memes, requests, commands, names and images are symmetric where symmetry is declared (only
equality is asked of them); symmetry is not used where liveness is checked. Deadlock is not checked:
a room may rest in LOBBY, in results or CLOSED, and a server whose clients have gone owes nothing.

### Fairness

- `timeouts`: only `WF_vars(TimeoutPhase)`: the scheduler goroutine looks at all rooms every
  second for as long as the process lives. Players and the administrator have no fairness. The run
  uses a finite game, in which `PhaseCanEnd` holds, so that the timeout is accepted when it comes. That the timeout
  reaches the room is the subject of `scheduler`.
- `scheduler`: the scan's goroutine runs (WF of its steps); a request inside the lock leaves it
  (`ClientActs`); a lock released again and again is had in the end (SF of `LockRoom`: `sync.Mutex` hands over to a
  waiter that has starved for a millisecond); somebody starts the server again. Deadlines and
  clients have no fairness.
- `hub`: the server's goroutines run, a live connection delivers, requests are
  answered, the browser's reconnect timer fires. Nothing is assumed of a pump noticing that the browser
  has gone: reads have no deadline.

## What is proved

From the assumptions named in each module alone (of `GameFlow`, which declares none, that the number of players is a natural number: `Numbered`), for every number of players, content, settings, requests, rooms and connections.
Each invariant below was checked by TLC on a small instance before it was proved.

**The game** (`GameEngineProofs`, `GameFlowProofs`):
`TypeCorrect`, `EngineInvariant` and, from it, `EngineTurnsArePrepared` and `EngineSkippedForOneRound`;
`EngineImplementsFlow`; of the abstract game `FlowTurnsInOrder`, `FlowOneRoundAtATime`, `FlowCycleIsComplete`, `FlowTurnsAreFinal`; and, by an instance of these theorems (`FlowFacts`)
and the refinement, `EngineCyclesAreComplete`.

`TurnsArePrepared` is not inductive. A round starts when all ACTIVE
players are prepared or when the late ones are filled in from their hands, so their
hands must not be empty (`CycleBegins`); a SKIPPED player comes back to the rounds, so SKIPPED must not
occur before the rounds (`SkippedForOneRound`), and that holds because only the end of a voting sets it and
whatever opens a round resets it. `RoomMatchesPhase` ties the room to its
phase and `RoundIsOpen` an open round to its active player. Their conjunction
`EngineInv` is shown to hold initially and to be kept by each action; lemmas about
`StartRound`, `NextRoundOrFinish`, `BeginCycle` and the other phase changes are proved once
and cited by the actions that call them. The refinement uses `EngineInv` on both
ends of a step: the round that the engine finishes or cancels is an open one, the participants are those
ACTIVE or SKIPPED, and the next eligible player is the least of the waiting ones.

For the abstract game the invariant `FlowInv` adds to the properties that a cancelled turn belongs to
somebody who dropped out (`CancelledAreOut`), that no turn was given before the first round (`NothingYet`) and
that a cycle which is over has given all who stayed a turn (`CycleIsPlayed`);
the order of turns rests on `MinIsFirst`, that the minimum of a non-empty set of
players is below its other members.

**What the players get** (`GameEngineProofs`, on top of `EngineInv`):

- `EngineHostIsOldest`: players join in the order of their numbers and are never forgotten (`JoinedInOrder`), so that whoever joins a room
  with a host is the youngest, and an empty room's next host is alone.
- `EngineBallotFrozen`, `EngineScoresSettleOnce`: action properties, from the steps a vote can set off (`VotingGoesOn`).
- `EngineBallotIsFair`, `EngineOriginalUnseen`: their invariant `DealInv` is about hands, not ballots. Two hands of one kind share
  nothing, the hands of a round hold no original of the cycle, originals come from preparation hands (`HandsAreSecret`),
  and all that is on the ballot is its owner's original or from its owner's hand (`BallotFromHands`). `DealtApart` holds of
  any deal that the dealer's shuffle may choose, `RoundPool` keeps the originals out.
- `EngineNoIdleWait`: whoever opens a phase leaves something owed in it, whoever does the last owed thing closes it; that a fresh
  selection owes something rests on non-empty hands (`RoundIsDealt`). `WaitInv` adds that the active player of an open round is ACTIVE, so that
  somebody alone in a round can only be its active player, and `PauseInv` says where a PREPARATION with nobody ACTIVE comes from: CYCLE_RESULTS, in an infinite game, in a cycle that is not the first
  (`CyclesAreCounted`).
- `EngineDealingCannotFail`: after START_GAME's check the originals leave enough memes for the hands of every later round (`DealingCannotFail`, which no run checks:
  `ChainsNeverFail` says more). A counting argument. Nobody joins a game, and whoever leaves it keeps the row that START_GAME counted
  (`EveryonePresentPlays`, `OriginalsOfParticipants`, `ContentCounted`, together `ContentInv`); there are at most as many originals as participants (`FewOriginals`: a surjection), and
  *n* participants' originals and *n* - 1 hands fit into what was counted (`RequiredIsEnough`).
- `EngineChainsNeverFail` turns the numbers of the last into deals. From *n* times as many memes as a hand has, *n* players can be dealt disjoint hands: the pool is
  numbered and cut into parts (`PoolCanBeShared` in `TurnOrderLemmas`, `DealExists`). The counting lemmas hold of any status and originals, not only of those of
  the aggregate, and so of those that a leave or a timeout is about to leave behind (`RoundCanStart`). Somebody can open the first round
  unless the PREPARATION is deserted (`PauseInv`): that of the first cycle follows START_GAME, and the leave of the last who is ACTIVE is refused.
- `EngineOnlyResultsForgetLeavers`: no command but a leave tells players and participants apart (`PlayersStep`).
- `EngineWaitsForThePresent`: `NobodyWaitsForTheGone`, which the run `gone` violates in an infinite game, holds in every finite one: from that, whoever plays is present unless the game is over; a game that is over stays so until the reset
  (`GameOverStays`), and CYCLE_RESULTS occurs in infinite games only (`PauseInv`).
- `EngineOutcomeIsPaid`: votes are cast by others than the active player and for options of others (`VotesInv`), so
  that active player, guessers and self-voters of `CalculateRound` are disjoint and the last are none (`FairVotesArePaid`).
- `EngineImplementsRoom`: `ContentInv` gives every present player a participation, so that a leaver's row stays; in LOBBY nobody has one, so that it goes
  (`LobbyHasNobodyGone`). `HeirsOf` is the handover: the oldest of the others is the only host, the leaver keeps the role if there is nobody else.
- `EngineSnapshotsAreBlind`: needs no invariant. An exchange of two players permutes the aggregate (`SwapsPermute`), counts
  and sets of memes do not see a permutation, and what a viewer sees besides is their own.

**The store** (`PersistenceProofs`): `EngineStoredExactly` is a theorem about every transaction that a step of the engine may end in, for any number
of players, memes and cycles.

- *Statements.* `Transaction` is a recursive function over the statements; `Trace` gives it the databases in between, and
  `TransactionRuns` says that a sequence of databases of which each is the last one after the next statement ends in its value. The
  traces are given in closed form: at statement *k* a table has its old rows until `DeletedAt`, its new ones from `WrittenAt`, and none in between.
- *Order.* `OrderIsSafe`: whatever refers to a table is deleted before it and written after it. With old and new rows both `WellFormed`
  (ids and hands unique, every foreign key satisfied) no statement fails on its way: `GameSaveWorks`, `LobbySaveWorks`, `JoinSaveWorks`, the three kinds of save.
- *Rows.* That the rows of every aggregate are well-formed (`StoredWellFormed`) needs an invariant of its own, `StoreInv`:
  hands, turns and votes belong to players of the game, those to members of the room, a vote to an option that is on the ballot, and an open
  phase to a current round. It is inductive relative to `EngineInv` and `DealInv`.
- *Steps.* `StepKeepsRows`: no command but a join brings a player's row, and during a game none goes (`UPDATE` meets all the rows it must,
  and the room's old sessions are the new ones).
- *Loading.* `StoredLoads`: the rows determine the aggregate, table by table.
- *Reset.* `ResetIsRefused`: a player who left has rows in the game, and `DELETE FROM players` comes before those of the game.

**The room** (`RoomCoordinatorProofs`): every property of the run `coordinator`, for any number of requests.
`RequestsMatch` says what a request has in hand at each of its steps (a lock exactly at LOCK, INSIDE and FORGET; a row; a merged
patch; a composed command), and with the types it is inductive.

- `CoordinatorOneInside`: locks and their holders match (`HoldersAreInside`), and while the room exists every lock in use is
  the one in the map (`OneLockInUse`). A new lock is made only when the map has none; then nobody has one,
  unless the room is gone. That a free lock exists is a counting argument (`FreeLockIsFree`).
- `CoordinatorCommandsCountOnce`: a command that has taken effect is in `processed` while the room exists
  (`CountInv`), and the revision is the cardinality of that set.
- `CoordinatorActsOnWhatItSaw`: nobody expects a revision ahead of the room's, and whoever expects the room's own has seen its
  game (`SawInv`), since the revision is the first thing a snapshot reads.
- `CoordinatorOnlyOvertakenPatches`: a patch at its write met a revision not later than the start's (`PatchInv`).
- `CoordinatorLeavingIsFinal`: rows and sessions exist together (`RowsHaveSessions`), and until a stale row is written
  nobody who left has a row in LOBBY and one present player is host (`OneHost`); `RowsWithoutHost` is the handover.
- `CoordinatorImplementsRoom`: needs only the types and that a deleted room has no rows (`DeletedIsEmpty`: a second deletion is a stutter).
  `RowsWithoutHosts` and `PlayersLeave` show that a transaction does to the rows what the engine's leave does to the players; of `MarkDisconnected`
  it is shown that it keeps the rows, and roles and departures too unless it overwrites (`DisconnectKeeps`).

The last five need no lock for their invariants: the transaction of each command is one step, and what they need of the lock is only
that `ReconnectRow` is one, too.

**The scheduler** (`TimeoutSchedulerProofs`): `SchedulerTypeCorrect` and `SchedulerTimeoutsAreDue`; the invariant is that a scan inside a room holds its
lock (`ScanHoldsItsRoom`).

**The hub and the browser** (`WsHubProofs`): `HubTypeCorrect` and `HubNoSendOnClosed`; a broadcast under way sends only to registered clients
(`SendsToTheRegistered`: none can leave the hub before it ends) and a client that is closing has left the hub before its channel
closes (`RegisteredAreOpen`).

- `HubClientsCatchUp` is inductive once it is known that nothing on its way is ahead of the room, and that a snapshot with
  the room's version is the room's (`NothingAhead`: else a late answer could be taken for the last), and that a buffer
  has at most one SNAPSHOT (`OneInitial`). Then a full buffer holds a STATE_UPDATED that has yet to be delivered, and will
  fetch what a dropped one would have (`FullBufferHasNews`). This needs a buffer for two messages, which the proof could not do without and TLC confirms
  with `Capacity` = 1: the SNAPSHOT of the handshake fills the buffer and the next change is dropped. Hence `BufferAssumption`; the code has 64.
- `HubStaleClicksAreRefused`: what the browser expects is never ahead of the room, and differs from what it shows only while a request is under way that
  will be answered at least as new, or after one has failed (`ExpectedIsShown`). An answer is never ahead of the room either (`NothingAhead`), so
  one that is at least as new as the room's own revision brings just that.

**Memes and files** (`MemeUploadProofs`): `UploadInv` says who may remove what. An upload in the hands of a request is known to no record and no
other request (`InHandAlone`), it has the files its step implies (`FilesAreWritten`), and files once recorded belong to one meme in all
records and in everything that was read (`OneHome`), so that the request which replaced them may remove them (`OldIsReplaced`).

- `UploadMemesHaveFiles` is a conjunct of it.
- `UploadOrphansHaveCauses` is relative to it: each step that takes an upload out of a record or a request removes its files, hands it to
  another, or adds it to `leaked`.
- `UploadNamesAreUnique`: memes keep the name they were added with, replacements and switches writing back what they read (`NamesAreKept`);
  a name that a request has found free is free or raced for (`FreeNames`).

What the proofs changed in the models: `NoneAssumption` of `MemeUpload` (that `None` is no record, name or image, which TLC had never to ask),
a choice of `leaked'` in `Replace` that two overlapping cases left open, and `BufferAssumption` of `WsHub`.

**Only model-checked:** what speaks of liveness or ENABLED, beyond the prover: `TimedPhasesEnd`, `PhaseCanEnd`, `OverdueEnds`,
`ServerComesUp`, `KickedClientGivesUp`, and the refuted `LeaveIsAccepted`. Of `PhaseCanEnd` the
part that does not speak of ENABLED is `ChainsNeverFail`, which is proved.

## Plan

1. START_NEW_GAME as a command of `RoomCoordinator`: it takes a third command (start, finish, reset) before a race with it can
   be met, which is beyond the run's size; its effect on the players is `Reset` of `RoomPlayers`, which `GameEngine` implements.

## Not modelled

- *Storage and migrations*: run once, before anything else, in a straight line over files; nothing interleaves with them.
  Of `sqlite.go`, `Persistence` takes that foreign keys are on and that there is one connection.
- *Configuration, static files, LAN detection, routing, cookies and JSON*: plain I/O without state.
- *The image pipeline*: decoding, cropping and encoding are pure; `MemeUpload` has the files.
- *Situations*: a table with single-statement edits and one check at START_GAME.
- *Views, forms and the other stores of the web client*: presentation.
