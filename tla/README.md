# A verification project for UNO-Server

UNO-Server is a server for UNO rounds of two to six players: a rules engine, rooms that are
actors, WebSocket connections, automated turns for players who time out or are away, MySQL for
results and Redis for tokens and room snapshots. These TLA+ modules model its core, the TLC
configurations check it on small instances, and TLAPS proves every safety property of the
passing runs for all decks, players, connections, rooms and buffer sizes. Paths below are relative to the repository;
`room.go` stands for `src/internal/room/room.go`, and so on.

## The system

| component | state | operations | talks to |
|---|---|---|---|
| rules engine (`internal/game/uno`) | hands, piles, turn, colour, penalty, phase, draw decision, colour choice, UNO challenges, candidates, result | Play, ChooseColor, Draw, Pass, CallUNO, CatchUNO, ExpireUNOChallenges, Snapshot, Restore, ViewFor | called by the room only |
| room (`internal/room`: `room.go`, `game.go`, `reconnect.go`, `gc.go`, `automation.go`) | members (connection, ready, managed, strikes, abandoned), owner, phase, two timers with tokens, mailbox, closing | join, reconnect, disconnect, ready, start, leave, kick, game commands, turn time-out, managed turn, empty-room time-out, snapshot, stop | its goroutine is the only writer; commands come through the mailbox, timers post to it, hooks call the manager |
| manager (`manager.go`, `lifecycle.go`) | rooms by number, index from players to rooms | Route (create, join, forward), OnSessionOpen, OnSessionClose, removeRoom, clearPlayerRoom, Restore, Shutdown | called by the goroutines of connections and by rooms; submits commands and waits up to 3 s |
| connection (`internal/session`, `server/ws.go`) | send queue, closed, the registry of connections | read pump, write pump, Send, Close, CloseAll | routes to the manager, one request at a time; Close calls OnSessionClose |
| id generator (`internal/idgen`) | last millisecond, sequence | Next | a mutex; the wall clock |
| persistence (`persistence.go`, `snapshot.go`, `lifecycle.go`, `store/`) | MySQL matches and results, Redis snapshots, index of rooms and player keys | CreateMatch, FinishMatch, Save, Delete, Load, Restore | called by the room between a command and its answer, and at the start of the process |
| authentication (`internal/auth`) | token cache, MySQL players, Redis sessions | LoginGuest, Authenticate | HTTP handlers; the id generator |
| process (`server.go`, `main.go`) | none | restore, listen; on a signal HTTP shutdown, CloseAll, Shutdown of rooms | everything above |
| configuration, logs, metrics, web client | none the game depends on | | |

What is hard in it:

- **Rules out of turn and over several turns.** A round is over only when no penalty is pending,
  so several seats may be without cards; `catch_uno` comes out of turn and may turn the discard
  pile over in the middle of anything.
- **Stale events.** A timer event waits in the mailbox while the player acts, leaves or comes
  back; the disconnect of a replaced connection arrives after the new one took the seat.
- **Two places for one fact.** The seat is in the room and guarded by its goroutine, the index
  entry is in the manager and guarded by a mutex; a request updates them in different steps.
- **The three goroutines of a connection.** Closing runs beside a request under way and beside
  the announcement of the connection.
- **Rooms that end with commands queued**, and timers that try only once.
- **Waits that meet.** A room sends to connections, a connection that closes waits for the room,
  and CloseAll waits for connections that others are closing.
- **Restarts.** Every state must be a snapshot that the next process accepts; the process may die
  between any two of the writes a command makes, and writes fail.
- **Clocks that jump**, in the id generator and in the life of tokens.

## Modules

| module | models | checked by |
|---|---|---|
| `UnoEngine` | the engine, one action per command | `MCUnoEngine` |
| `CardCustody` | what a round promises about its cards: the abstract specification `UnoEngine` implements | with `UnoEngine` |
| `UnoEngineProofs` | the theorems about `UnoEngine` | tlapm |
| `UnoAutoplay` | automated turns, extending `UnoEngine` | `MCUnoAutoplay` |
| `UnoAutoplayProofs` | the theorems about `UnoAutoplay` | tlapm |
| `RoomActor` | one room: mailbox, handlers, timers, destruction | `MCRoomActor` |
| `RoomActorProofs` | the theorems about `RoomActor` | tlapm |
| `RoomRouting` | connections, manager and the seats of several rooms | `MCRoomRouting` |
| `RoomRoutingProofs` | the theorems about `RoomRouting` | tlapm |
| `Connections` | connections, their queues and registry, and what waits for what around them | `MCConnections` |
| `ConnectionsProofs` | the theorems about `Connections` | tlapm |
| `RoomPersistence` | snapshots in Redis, matches in MySQL, crash, restart and shutdown | `MCRoomPersistence` |
| `MatchLedger` | what the record of matches promises: the abstract specification `RoomPersistence` implements | with `RoomPersistence` |
| `RoomPersistenceProofs` | the theorems about types and the record of matches | tlapm |
| `RoomRestartProofs` | the theorems about snapshots and restarts | tlapm |
| `IdGen` | the id generator | with `Auth`, and itself |
| `Auth` | logins and tokens, extending `IdGen` | `MCAuth` |
| `AuthProofs` | the theorems about `Auth` and `IdGen` | tlapm |

A definition named `X_Something` next to `X` is a faulty variant of it that one of the
properties rules out; `PROJECT.json` lists the pairs. No specification uses them.

### UnoEngine

One engine call is one action, because the room calls the engine from its goroutine only. A
refused call is a stuttering step, but for `RejectLateCall`: the engine purges a challenge whose
time is over even when it refuses the call. `Play` with a wild card stops at `awaiting_color`
and `ChooseColor` finishes it, as in the code; `ApplyCardEffect`, `FinishIfResolved` and
`FinishRound` are the helpers of the same names. Abstractions:

- Nobody knows the order of a shuffled pile before it is drawn from, so a pile is a set, and
  drawing takes any card. Of the discard pile the top is kept apart, since it stays when the
  rest is turned over.
- Player ids are seats. `time.Now` appears as `ChallengeLapses`, which may happen to an open
  challenge at any moment; a time equal to the deadline counts as too late, as in the code.
- An opening wild draw four is put back until another card turns up; the model starts with any
  other card.
- `ValidShape`, `ValidLifecycle`, `ValidCards`, `ValidPendingActions` and `ValidResult`
  are the validation functions of `snapshot.go`.

### UnoAutoplay

`performAutomaticAction` chooses by the phase, and its second and third engine calls use the
result of the first. The model makes every call a step of its own (`step` says what comes next)
and lets nobody else act in between, as the room does.

### RoomActor

`mailbox` is the channel, `Request`, `Shutdown` and the timers put commands into it, and every
other action is the loop serving its head. Tokens only grow, and a timer event is honoured only
with the current one; so an event carries a flag `live` that is cleared when the code bumps the
token. The manager and the engine are reduced to what the room sees: any client request at any
time, and whose decision is due. A room begins as `handleCreateRoom` makes it, or in any state
`restoreRoom` accepts, with everybody disconnected.

### RoomRouting

`call[s][t]` is where goroutine `t` of connection `s` is: about to look the index up, about to
submit, waiting, or answered and about to update the index. A handler of a room with the hooks
it calls is one step, since the room runs them before it answers. `Return` is the code after
`submitSync` in `handleJoinRoom` and `forwardToPlayerRoom`. Rooms keep only seats, owner and
phase; the heir of an owner is any member. A room number is not used again. Requests read from
the buffer of a connection after it was closed are left out. The empty-room timer may fire
whenever nobody is connected.

### Connections

`opener`, `reader` and `writer` are where the handler and the two pumps of a connection are;
`New` registers it, and its pumps start in a step of their own (`StartPumps`), before which it may
be closed already. `asked` stands for the goroutines that were started only to close it. `stage`
is the one run of `Close`: closed, hung up and unregistered, waiting for the room, over. Everyone
else who calls `Close` waits for `Over` (`CloseReturns`), because `sync.Once` makes them. Both
`select` statements of the code take any branch that is ready, so `Send` to a closed connection
may still enqueue and the writer may stop with messages left.

The room is its mailbox, the command it serves, whom it still has to send to, and its seats
(`bound`); it is waiting or in a round (`playing`). `index` is what the manager has of it: `Ask`,
`Rebind` and `Hook` go by it, a join is entered when its call returns, and a leave is taken out
then, whatever came of it. `Hook` is `OnSessionClose` and ends in one of four ways (`Ends`): the
disconnect was served ("done"), the call gave up, a full mailbox turned it away, which the code
takes no notice of (`manager.go:182`), or the index led to no room. Whether a request of the game
succeeds is a choice. The room sends at most one message to each member for a command, and it does
not end; callers may give up, but none needs to. Of the requests of clients those of one at a time
are followed (`Talking`), and the room serves no timers.

### RoomPersistence

Redis is `snap`, `roomIndex` and `playerKey`, MySQL is `matchStatus`, `matchRoom` and
`matchWinner`; `room` is the memory, lost in `Crash` and in `Exit`. A handler is one step that
leaves `pending` what it calls and what the loop then saves: `clear` for the hook
`clearPlayerRoom`, `finish` for `persistSettlement`, `save` for `syncSnapshot`. Nobody but the
manager and the stores sees the difference between a handler and its first write, so the handler
comes first as a whole; the exception is `CreateMatch`, whose outcome decides what the handler
does, and which is part of `Start` and `StartRefused`. Each Lua script is atomic. A failure is
any call that returns an error, and the writes to MySQL may have been made all the same.
`LoadSnapshots`, `RestoreRecord` and `StartServing` are a start, `ConnectionsClosed`, `Stop` and `Exit` a shutdown, each a step, so a process may die in the
middle of either. The shutdown of the HTTP server and `CloseAll` are the end of serving in which nobody reconnects,
so the rooms see of them only that the last connection has gone (`ConnectionsClosed`). Settled rooms keep their seats until everybody left. Abstractions: who is
ready, the owner and the order of the seats are left out (`RoomActor` has them), the in-memory
index is taken to agree with the seats (`RoomRouting`), and the number of a room is not drawn
again before its last write was made.

### Auth

`stage` is where each login is in `LoginGuestContext`; `DrawId` and `DrawWaited` make its call
of the id generator with the actions of `IdGen`, and `RoomDrawsId` is anybody else's call.
Tokens are random and never collide, so a token is the login that drew it. A request with a token
is split where the code leaves its lock or calls Redis: finding an expired token and deleting it
in Redis are two steps, and so are finding one in Redis and putting it in the cache.
A client knows its token only after the login answered.

### IdGen

`Next` holds a mutex, so a call is a step; only the wait for the next millisecond is split,
because the clock moves meanwhile, forwards or back.

## Runs

| run | instance | shows |
|---|---|---|
| `autoplay` | 2 players, 7 cards (a number, a skip, a reverse, two draw twos, both wild cards), 2 cards each; commands and automated turns | `TypeOK`, `SnapshotRestores`, `DrawnCardStaysPlayable`, `PenaltyShowsOnTop`, `ImplementsCustody`, `AutomationIsAccepted`, `AutomatedTurnCompletes` |
| `engine_three` | 3 players, 6 cards, 1 card each | `EmptyHandsAreCandidates`, `FirstToEmptyWins`, `PenaltyIsPaid` |
| `room` | 2 players, one with two connections, new or restored room, mailbox of 8, 1 request queued at a time, 2 strikes | the nine properties of `RoomActor`, `EmptyRoomCollected` among them |
| `routing` | 2 players with a connection each, 2 rooms, 2 calls at a time | `TypeOK`, `WaitingSeatHasRoute`, `OneSeatEach` |
| `routing_calls` | a restored room, a player with two connections, calls that time out or meet a full mailbox | `AbandonedForGood`, `CallsReturn` |
| `auth` | 2 logins, 1 request with a token at a time, milliseconds -1..2, 2 ids a millisecond, 4 ids, tokens that live 1 ms, 1 failure | `AuthTypeOK` (with the types of `IdGen`), `IdsIncreaseUnlessCutShort`, `TokenHasItsPlayer`, `IssuedTokenIsStored` |
| `persistence` | 2 players, 2 rooms, 1 match, 1 failure, any number of crashes and shutdowns | `TypeOK`, `RoundHasItsMatch`, `AnsweredIsSaved`, `OverIsForgotten`, `SettledIsRecorded`, `RestartBringsRoomsBack`, `ImplementsLedger` |
| `connections` | 2 connections with seats in a waiting room, or 1 that comes to an empty room or to its kept seat; queues of 1, a mailbox of 2, 1 request | `TypeOK`, `RegistryIsTrue`, `ShutdownWaitsForRooms`, `LostIsGone`, `RoomKeepsServing` |

Four runs end in a violation, see the findings below.

Why the bounds are enough. `MaxPending` (8) bounds the penalty of a chain, which is endless
when the piles are recycled; 8 is more than all cards a seat can draw in these decks, so the cut
short draw happens. One card of each action suffices for every rule, two draw twos make chains,
two players and three players are the two cases the rules tell apart. `MaxRequests` bounds only
client requests in the room's mailbox; timer events, the first snapshot and the stop come on
top, so a command behind a stale event, behind a destruction and behind a stop all occur. In
`routing` and the others `MaxBusy` bounds the calls under way; two are enough for every pair of
goroutines to interleave, and calls follow each other without bound.

`Overload` lets a caller give up after the 3 s of `submitSync`, or be refused by a mailbox that
other players have filled. `routing` has none of it, gives each player one connection, and has
no room from before a restart: with an overload, two connections or a restored seat the index
is lost in the ways the findings say, and two connections may make a player sit in two rooms.
`SYMMETRY` is used in that run, where players with their connections are alike and so are rooms,
and for the logins of `auth` and the players of `persistence`: runs without a liveness property
(those of `persistence` are step properties and a refinement without fairness).

In `auth` a token lives as long as the clock can show a difference, two logins share a
millisecond or do not, and after a restart ids repeat. In `persistence` two rooms and two players
are what a conflict, an exchange of players and a late clean-up take; one match is enough because
a match is never used again and rooms only meet over players; the one failure may strike any
write of any room, and crashes are not bounded, since a restart brings back a state of the same
kind. In `connections` a queue of one is full after one message, and a mailbox of two after a request
and a disconnect, so that the next disconnect is turned away; the code has 64 places in both. One
request is enough to make the room send to everybody while it is being closed on from all sides;
more requests only fill the queues again. The two members are alike, so it is enough that one of
them sends the request; the connection that comes joins a waiting room, or asks for the seat that
was kept for it. Each of the four exceptions of `ShutdownWaitsForRooms` occurs in the run: without
any one of them TLC finds a counterexample.

Deadlock is checked except in the routing runs and in `connections`, where everybody may be
closed and everything at rest. `RoundOver` and `Gone` say where the engine and a room rightly
stop.

### Fairness

`RoomActor`: weak fairness of the serving of the mailbox, because the loop runs as long as
there is a command, and of both timers, because the runtime runs them. Clients owe nothing.
`RoomRouting`: weak fairness of the serving of each room. Time-outs of callers are not needed
for `CallsReturn`, and not assumed.
`Connections`: weak fairness of each goroutine of a connection and of the room, because the
runtime runs goroutines that can run; a write ends, at the latest at its deadline of 10 s; a read
need not end, unless the connection is hung up. Giving up a wait, new requests and new
connections are owed by nobody, so `LostIsGone` and `RoomKeepsServing` say that nothing depends
on the 3 s of `submitSync`.

### Findings

- `room_mailbox_full`: the event of the empty-room timer is lost when the mailbox is full, and
  the timer is not armed again (`gc.go:28`), against `docs/实施规划.md:192`. The instance makes
  the mailbox 2 places long; in the code it has 64.
- `routing_refused_leave`: a leave deletes the index entry even when the room refused it
  (`manager.go:297`), against the comment five lines above and `docs/技术方案.md:202`.
- `routing_closed_session`: a connection that closes during a request or before it is announced
  stays bound to its seat (`manager.go:164`), against `room.go:56`.
- `idgen_clock_back`: ids are repeated after a clock set back during the wait
  (`idgen.go:72`), against `idgen.go:24`.

No run is kept for smaller divergences; the properties are stated so that they allow for them:

- A kick served between the seating of a joiner and its index entry (`manager.go:274`) leaves an
  entry to a room that does not know the player, against the comment `room.go:111`.
  `WaitingSeatHasRoute` therefore states one direction only. When the kicked player's snapshot
  key is written late and the process dies then, a restart may also discard a room as a conflict.
- A room that is collected with a round under way (`gc.go:54`) leaves its match `playing` in
  MySQL for ever, and so do a crash between `CreateMatch` and the first snapshot of the round
  and a `FinishMatch` that failed, which is never tried again. `docs/技术方案.md:322` wants the
  match updated at an abnormal end too, and `MatchStatusAborted` (`entity/match.go:14`) is used
  nowhere. (`docs/实施规划.md:174` names the missing retry as out of scope.)
- After a crash between `FinishMatch` and the deletion of the snapshot the round is played on
  from its last save, and may be announced with another winner than the one recorded:
  `MatchLedger` promises a winner the players were told of, not the last one.
- A snapshot that is thrown away as a conflict is saved once more by the stop of its room
  (`lifecycle.go:81`), which takes over the player keys of the room that was kept:
  `AnsweredIsSaved` excepts these players (`conflicted`) until the process ends.
- A crash in the middle of the writes of two rooms that exchange players can make a restart take
  one of them for a conflict, with everybody in it: `RestartBringsRoomsBack` is about processes
  that die with nothing left to write. It also presumes that no write had failed before, and
  promises nothing of a snapshot that has expired.
- `CloseAll` (`session/manager.go:69`) does not wait for a connection that is already
  unregistered by its own closing, and misses one whose handler registers it afterwards:
  `ShutdownWaitsForRooms` is about the connections it found.
- The comment `server.go:142` and `docs/技术方案.md:266` say that at a shutdown the rooms have
  dealt with every disconnection before their final snapshots. `Close` also ends when its
  disconnect was not served: when the mailbox is full, the error is dropped (`manager.go:182`);
  when the call is given up after 3 s; when the index does not have the seat, because a join has
  not been entered yet or a leave that failed was taken out; and a request that was queued may
  seat the connection again after it was closed (`routing_closed_session`). The final snapshot
  then shows the member connected. `ShutdownWaitsForRooms` names the four and excludes any other.
  After a restart the member has no connection all the same (`snapshot.go:234`), but a waiting
  room comes back with a seat it would have freed.
- `OverIsForgotten` and `SettledIsRecorded` are about rooms whose writes did not fail: nothing
  tries a failed delete of a snapshot again (`snapshot.go:87`), which then stays until it expires
  or a start throws it away, nor a `FinishMatch`.
- Two connections of one player may make it sit in two rooms (`manager.go:187`); no document
  promises otherwise, and `OneSeatEach` is about players with one connection.
- A graceful shutdown closes all connections first, so a waiting room loses its members and is
  deleted (`docs/技术方案.md:204`), while after a kill it comes back (`docs/实施规划.md:166`);
  a waiting room nobody sends a command to for the whole TTL of its snapshot comes back from
  neither (`Expire`).

## Proofs

TLC checks small instances; `tlapm` proves the theorems below for every value of the constants,
under the named assumptions of the modules (at least two seats and cards whose kind, colour and
number fit; names that stand for nobody are no players, connections or rooms; sizes and bounds
are natural numbers). Every safety property a passing run checks is also a theorem. Four things
are only model-checked: the liveness properties `EmptyRoomCollected`, `CallsReturn`, `LostIsGone`
and `RoomKeepsServing`. They rest on fairness, thus on `ENABLED`, which is out of the prover's
reach.

Hardly any of these properties is inductive. Each proof module states the invariant that is
(in parts, with what each part says), proves for every action that each part is kept, and draws
the properties from it. The new parts were checked by TLC on the instances of the runs before
they were proved.

| module | theorem | states |
|---|---|---|
| `UnoEngineProofs` | `TypeCorrect` | `TypeOK` |
| | `ReachableStatesRestore` | `SnapshotRestores` |
| | `NoWinnerForgotten` | `EmptyHandsAreCandidates` |
| | `DrawDecisionIsReal` | `DrawnCardStaysPlayable` |
| | `PenaltyStaysOnTop` | `PenaltyShowsOnTop` |
| | `PenaltiesArePaid` | `PenaltyIsPaid` |
| | `FirstCandidateWins` | `FirstToEmptyWins` |
| | `CardsAreInCustody` | `ImplementsCustody`, a refinement |
| `UnoAutoplayProofs` | `AutomationPlaysByTheRules` | `AutoSpec => Spec` |
| | `AutomationNeverRefused` | `AutomationIsAccepted` |
| | `AutomatedTurnsComplete` | `AutomatedTurnCompletes` |
| `RoomActorProofs` | `RoomIsSound` | the inductive invariant `Sound` |
| | `RoomTyped` | `TypeOK` |
| | `NobodyOrphaned` | `NoOrphanCommand` |
| | `SnapshotsRestore` | `RoomSnapshotRestores` |
| | `ManagedWithReason` | `ManagedForAReason` |
| | `RunningSeatsAreKept` | `SeatsAreKept` |
| | `ReplacedConnectionsAreHarmless` | `OnlyBoundSessionUnbinds` |
| | `TurnsHaveOneEvent` | `OneEventPerTurn`, while the mailbox has room |
| | `EmptyRoomsCountDown` | `EmptyRoomCountsDown`, while the mailbox has room |
| `RoomRoutingProofs` | `RoutingInvariant` | calls and mailboxes fit each other |
| | `RoutingTyped` | `TypeOK` |
| | `NobodyWaitsInVain` | who waits has its command in a room on the server |
| | `AbandonedStays` | `AbandonedForGood` |
| | `OrdinaryInvariant` | seats and index fit each other, under `Ordinary` |
| | `WaitingSeatsHaveRoutes` | `WaitingSeatHasRoute`, under `Ordinary` |
| | `OneSeatForEach` | `OneSeatEach`, under `Ordinary` |
| `ConnectionsProofs` | `ConnectionsInvariant` | the inductive invariant |
| | `ConnectionsTyped` | `TypeOK` |
| | `RegistryStaysTrue` | `RegistryIsTrue` |
| | `ShutdownWaited` | `ShutdownWaitsForRooms` |
| `RoomPersistenceProofs` | `TypesHold` | `TypeOK` |
| | `RoundsAreRecorded` | `RoundHasItsMatch` |
| | `ResultsAreRecorded` | `SettledIsRecorded` |
| | `LedgerIsKept` | `ImplementsLedger`, a refinement |
| `RoomRestartProofs` | `AnswersAreSaved` | `AnsweredIsSaved` |
| | `OverRoomsAreForgotten` | `OverIsForgotten` |
| | `RestartsBringRoomsBack` | `RestartBringsRoomsBack` |
| `AuthProofs` | `IdsOfLoginsIncrease` | `IdsIncreaseUnlessCutShort` |
| | `AuthTypesHold` | `AuthTypeOK` |
| | `TokensHaveTheirPlayers` | `TokenHasItsPlayer` |
| | `IssuedTokensAreStored` | `IssuedTokenIsStored` |

### The engine and automated turns

`IInv` is the conjunction of the five invariants of `UnoEngine` and of `OpeningIsClean` (nothing
has happened yet while the colour of an opening wild card is to be chosen). None of the five is
inductive alone: that the candidates of a snapshot are distinct needs that they are exactly the
empty hands, since `AddCandidate` and `CandidatesAfterDraw` rely on it; that the colour of a
snapshot fits the top card needs what is on top during a colour choice; that a drawn card stays
playable needs that no penalty can rise during the decision.

`PenaltyIsPaid` and `FirstToEmptyWins` are step properties from `IInv`. The first needs how many
cards `DrawnSets` gives (`DrawnSetsCardinality`). For the second, a rank is a place in the queue
of candidates (`RankIsAhead`), and the three things that happen to the queue keep the order: a
seat joins it at its end, one leaves it, or `FinishIfResolved` takes the first that is still
without cards. For `ImplementsCustody`, `OwnerFacts` says that the five places of a card exclude
each other, and `CustodyTakes` and `CustodyPlays` that the owners change as `CardCustody` says,
also when the discard pile is turned over; every other step moves no card.

`AutomationPlaysByTheRules` makes all of this hold in a room that plays for absent players: every
call of an automated turn is a command of the player whose decision is due.

### A room

`Sound` holds whatever happens: seats and round agree (`SeatsFit`), the mailbox ends with the
stop and holds nothing once the loop has ended (`MailFits`), strikes agree with who is managed
(`StrikesFit`), and at most one event of the turn and of the countdown is under way, for the
right player (`TurnFits`, `EmptyFits`). For the turn timer, each handler is shown either to
start it anew and make its queued events stale (`TurnReset`) or to leave both alone (`TurnKept`),
and likewise for the countdown.

That there is at least one event (`Armed`, `Collects`) needs the hypothesis `[]HasRoom`: the
mailbox is never full. Without it the theorem is false, which is the finding `room_mailbox_full`. `TurnsHaveOneEvent` and
`EmptyRoomsCountDown` carry the hypothesis in their statements, the other theorems do without.

### Calls and the index of players

`RoutingInvariant` and `AbandonedStays` hold with an overload, restored rooms and several
connections of a player. The calls are paired with the commands in the mailboxes: a command
that somebody waits for has a caller that waits for it, only that command, and vice versa.

`WaitingSeatHasRoute` and `OneSeatEach` are theorems under `Ordinary`: no room from before a
restart, no call that is given up or refused by a full mailbox, and one connection for each
player. The run `routing` has the same conditions. Each is necessary: when any one of them is
dropped TLC finds a counterexample. Under `Ordinary` the invariant is that a seat belongs to the
one connection of its player (`SeatsAreOwn`) and that this connection reaches it (`Routes`):
through the index, or as the answer to the join it is about to process, unless the room is no
longer waiting and the connection is closed.

### Connections

The invariant has, besides the types and `RegistryIsTrue`, that nothing of a connection runs
before its handler (`OnlyOpened`), that only the run of `Close` posts disconnects, and nothing
else (`OnlyCloseHangsUp`), that a connection has no seat while its disconnect is served, nor
afterwards unless the room seated it again (`SeatIsGone`), and that what `CloseAll` found is still
to be closed, being closed, or over (`ClosedInTurn`). `ShutdownWaitsForRooms` follows from the
last two: a connection that is over is "done", and then without a seat, or one of the exceptions.
`SeatIsGone` needs `OnlyCloseHangsUp`, because an answer is what makes `Close` "done", and must be
the answer to a disconnect.

### Logins and ids

`Ids` bounds every id by the pair of the last millisecond and sequence. Comparing two ids is the
one place where arithmetic is not linear; it is a lemma about two pairs in order (`Id` grows with
the millisecond by more than any sequence adds). `Login_OK` says for each stage of a login which
of the players, tokens and claims may exist, which relates the two stores, the cache and the
requests that are between two steps. Player ids are bound to logins by the rows of MySQL, not by
the generator: after a restart it may repeat an id, and then the insert fails.

### Persistence and restarts

`Base` has the types, the four lists of writes a command can leave (`Shapes`), what is in memory
in each phase of the process (`InMemory`) and that a player is active in one room (`OneSeat`).
`Command` is what all handlers have in common, so the proofs treat the commands of clients and
the time-outs as one. `Matches` adds that a round and its snapshot have a match of that room, that ids not drawn
yet are unused, and that a `finish` under way names an announced winner; the refinement of
`MatchLedger` follows from it step by step.

In Redis, `Saved` is `AnsweredIsSaved` of one room, `KeysLead` says that as long as no write
failed a player key leads to a room with that player, and `Promise` relates what a process that
died had saved to what the next one has loaded and restored so far.

### What the proofs changed in the models

- `IdGen`: `SameMillisecond` lacked the range check, so a clock one millisecond before the epoch
  counted as the same millisecond as the initial `lastMillis` of -1; the code refuses it first
  (`idgen.go:64`). What the proof could not do was to show the types.
- `RoomActor`: the removal of a member took out every seat of that player by a filter; the code
  finds the first seat and removes that one (`room.go:443`). Both do the same only because
  nobody has two seats, which is now a part of the invariant.
- `Connections`: the assumption now says that the values `shutdown.at` and `loop.from` have
  besides connections are no connections.

## Not modelled

- Connection pools and tables (`repository.go`, `schema.go`): pure I/O.
- HTTP handlers, access log, static files, the health check: no state of their own.
- The contents of settlement rows and their validation, of JSON and of messages; nicknames.
- A failing random source in a shuffle; logs and metrics; configuration; the web client.

## Plan

Every component the first plan named is modelled and checked, and every safety property a run
checks is proved. What is left:

1. What `OneEventPerTurn` and `EmptyRoomCountsDown` say of a mailbox that did fill up: which
   request makes the room act again, and when none does (`room_mailbox_full`).
2. `WaitingSeatHasRoute` under conditions weaker than `Ordinary`: which of the requests of a
   player repair the index after a call that was given up.
3. That the parts agree where they overlap: that the rooms of `RoomRouting` and of
   `RoomPersistence` do with their seats what `RoomActor` does.
