# Gradient reversi: a TLA+ verification project

This directory holds TLA+ models of nadesiko-reversi, TLC configurations that
check them on small instances, and proofs for the TLA+ proof system. The models
are translated from the source; `PROJECT.json` maps every definition to the lines
it stands for.

## The system

Gradient reversi is reversi with 256 shades instead of two colours. A piece that
is put down gives every piece between itself and the last piece of an unbroken
line the mean of three colours; dark wins if the average shade of the final board
is below the middle. The colour of the next piece comes from a linear
congruential generator whose state is part of the game.

| Component | State | Operations | Correct when |
|---|---|---|---|
| Rules engine `rules/game/*.nako3` | none: a request carries the state, the response the next one | `newGame`, `applyCommand` (place, pass), 9 kinds of rejection | replies are valid requests, the side to move can always do something, games end, a game is a function of its seed and its commands |
| Runtime boundary `server/internal/runtime` | none | run the rules in a process, with a time limit; refuse answers that break the contract | a failure changes nothing |
| Protocol `server/internal/protocol` | none | types and validation of requests, states, events, responses | agrees with the rules on what is valid |
| Match manager and rooms `server/internal/match` | map of rooms, index of players, waiting room; per room two seats with channels, phase, state of the game | `Join`, `Submit`, `Leave`, `Close` | players are paired, seats are kept, events bring every client up to date, nothing leaks, no channel is misused |
| Server `server/main.go` | connections, peers, records of running games, ledger of finished ones, rate limiters | admission, websocket reading and writing, forwarding of events, saving of finished games, shutdown | limits hold, every handler ends, every finished game is saved once |
| Local game `server/internal/localgame` | one game | `Evaluate`, `Snapshot`, HTTP handler | two requests never consume the same turn |
| Replay `server/internal/replay`, `rules/replay` | store of replays | record, encode, decode, verify, run | a saved record replays to the same game |
| Browser client `web/` | screen, connection, replay position | rendering, sending commands, reconnecting, replaying | shows the server's state, sends only when on turn |

A browser talks to the server through a websocket (matches) or HTTP (local game).
The handler of a connection calls `Manager.Join`, starts a goroutine that forwards
the events of its seat's channel to the client, passes commands to
`Manager.Submit`, and calls `Manager.Leave` when the connection ends. Manager and
rooms are shared by all handlers: `joinMu` serialises whole joins, `Manager.mu`
the maps, `Room.mu` each room, and the runtime is called under `Room.mu`.

What is hard to test here: joins, leaves and shutdown that interleave between
locks; two connections under one player id; events dropped at the limit of a
channel; the runtime failing half way; reconnections at the moment a game ends;
whether a game can get stuck. `PROJECT.json` lists these hazards at their lines
with the properties that would catch each of them.

## Modules

**TurnOps, TurnGame.** The abstract game: turn number, side to move, phase; an
accepted command advances it, the last turn ends it. It is what the server relies
on about the rules.

**Rules.** `rules.nako3` as operators on boards (a board is a function from cells
to colours, `Empty` is NULL) and as the game a caller plays by keeping the state
of every response. `Verdict` makes the checks of 要求評価 in their order,
`ApplyPlace` and `ApplyPass` are 着手適用 and パス適用, `StateValid` is 状態有効判定;
`Run`, `FixedEnd`, `Flanks` and `Targets` say declaratively what the scan of
挟み線取得 collects. `Changes` is the list of changes that 着手適用 makes, an entry for
every target of every entry of the direction table; `Recolor` writes them in the order
of the table, so that a cell named twice would keep its last entry. `Straight`, `Seen`
and `Between` state the contract's lines by coordinates, without a scan and without a
table of directions; `MovesAtOnce` compares the two. `Submit` takes any command at any time: any type, any player,
late and early turns, cells off the board. Size of the board, palette and
generator are constants. `invalid_state` is answered without a state; the caller
then keeps its own, which is why `Evaluate` returns the state of the request for
every rejection. `Turns` maps the rules to `TurnGame`.

**MCRules** adds initial states that no game from a new game reaches: the rules
take whatever state a request carries.

**Match.** `Manager` and `Room`, used by concurrent handlers (`Session`). A step
is one critical section; `joinMu`, held across several, is a variable. `Join` is
`RoomForJoin`, then one of `JoinRefused`, `Reconnect`, `TakeFirstSeat`,
`StartMatch`, `StartFails` under the room's lock, then `Register` or
`ReleaseOnJoinFailure`. `Submit` is followed by `Accept`, `Reject` or
`SubmitFails`; `Leave` by `RoomLeave` and, if the room is empty, `Forget`; `Close`
by a `RoomClose` for every room it took. `Receive` is `forwardEvents`, and `view`
what the client shows. The game of a room is what `TurnOps` keeps of it, which
`Rules` is shown to implement; which commands are acceptable beyond being due is a
free choice (`Accept` or `Reject`). An event is its type and the state it carries.
A channel remembers with `lost` whether the last event for it was dropped; the
code keeps no such mark, no action reads it and only properties use it. When a
handler is done, its queue and its view are emptied, because nobody looks at them
any more. The branch of `Room.leave` for a player without a seat is not an action:
`SeatsAreServed` shows that it is never taken.

**Protocol** (extends `Rules`). The boundary between the Go server and the rules.
`RequestCode`, `StateCode`, `CommandCode`, `EventCode` and `ResponseOK` are the
`Validate` methods, each an ordered list of checks; `RulesCode` and `RulesAnswer` are
要求評価 on the same requests, with its own checks in its own order. A Go pointer is a
set with at most one element. Whether an empty list of moves is nil or an array is kept
(`moves`), since `Clone`, `MarshalJSON` and `reflect.DeepEqual` treat the two differently.
`Runner` is `Gonako.Evaluate`, and `Fate` the ways its process may end. `Request(st)` are
the requests tried in a state: all commands over small sets of every field, a state with
one field spoiled, and all combinations of present and missing parts.

**Replay** (extends `Protocol`, instance in **MCReplay**). A record is a sequence of
lines. `SubmitCommand` is `submitCommand` of `main.go`: it sends the command through
`Runner`, appends an accepted one with its event to the record of the room and, at the
end of the game, does `SaveFinished`: write the source, execute it, verify it, compare
its final state with the room's, write it anew (`EncodeResult`) and store it. `Scan` and
`Decode` are `ScanBlame`, `RunBlame` and `ScriptBlame`; the harness, which executes a
record on the rules, is `Frames`; `ReplayWith` is `FramesBlame` with `NoteBlame`
(`verifyAnnotation`), `FinishBlame` (`verifyFinished`) and `IllegalMove`
(`illegalMoveError`). `HandleReplay` is the handler that serves a record. `Damaged`
enumerates what may have happened to a stored source, one line at a time. The actions of
this module are one room's: what concurrent handlers do to a record is in `Server`.

**MCMatch** gives names to sessions and players.

**Server** (extends `Match`, instances in **MCServer**). `handleMatch` around the
manager. `gate` says where a handler is: `Arrive` and `BackOut` are `admit`, which
counts before it compares; `CheckRooms` is the single look at `RoomCount`;
`JoinStarts`, `JoinGoesOn`, `JoinEnds` are the steps of `Match` that `Manager.Join`
consists of, the first of which makes the record of a new room (`seedFor`). A
command goes through `SubmitCommand` (the record's mutex), `ManagerTakes`,
`RoomAccepts` or a refusal, `RecordMove` and, if it ended the game,
`SaveFinished`, which may fail. `ForwardEvent` is `Receive` of `Match` with the
wait for `ready`. `HandlerLeaves`, `LeaveGoesOn`, `Discard` and `Release` are the
deferred calls. The module follows the server until it is told to stop: `Close` is
in `Match`, the end of the process in `Peer`. A record's moves are the numbers of their turns; replaying them
(`replay.Replay`) is the comparison with `WholeGame`.

**Peer.** One connection after it has joined: the reading loop, `forwardEvents`,
`keepAlive` and `writeLoop` with the queue `outgoing` and the channel `done`, and
`main`, which is told to stop under them. `send` and `flush` are `WillSend` and
then `Enqueue` or `GiveUp`; `flush` waits on (`Flushed`) for the ack or for `done`;
`shutdown` then closes. Frames other than events and close frames are alike. Timers and the network may strike at any moment: `Expire`,
`ClientGoes`, `WriteFails`. A `select` with several ready cases is a free choice.
Kept apart from `Server`, because nothing that a connection's goroutines do among
themselves depends on what the commands do, and together they are too many states.

**RateLimiter.** `rateLimiter` in exact arithmetic: ticks of the clock, and parts of
tokens such that a tick adds a whole number of them. The code computes in floating
point and may differ by rounding.

**LocalGame.** `Service.Evaluate` in two steps, the
mutex held between them while the runtime works, `Snapshot` by the handler after a
failure, and the browsers: `AskNewGame`, `AskMove`, `GivesUp` (the browser is told of a
network error; the request may still arrive), `Receive`. Games are numbered in the
model to tell them apart; requests do not carry the number. Switching the browser to
an online match while a request is out is in `WebClient`.

**WebClient.** One page (`web/main.nako3`) with the bridge of `index.html`, against a
server seen from one seat. A handler of the page is one action, the work of the bridge
for it included (the observer runs right after the handler); `棋譜取得処理` and
`ルール要求送信` are two, before and after their request. `対戦イベント処理` is
`HandleEvent`, with one definition per type of message. `visible` holds which buttons
the user can press, which is what guards `Reconnect`, `OpenReplay` and `ExitReplay`.
A connection has a side at the page (`readyState`) and one at the server (its handler),
so that a socket the page has left behind may still join, hold the seat and leave.
The change of `generation` is the emptying of the old socket's queue. The room is what
`Match` makes of one, with the opponent free to come, move and go; that events may be
dropped is left to `Match`. A state is the room it belongs to and what `TurnOps` keeps.

**RulesProofs**, **RateLimiterProofs**, **LocalGameProofs**, **PeerProofs** and
**WebClientProofs** hold the theorems about the modules they are named after.
**MatchProofs** has three parts: rooms and seats, what clients are told, and what the
manager guarantees until it is closed. **ServerProofs** extends `Server` and `MatchProofs`.
**ReplayProofs** extends `Replay` and `RulesProofs`; it holds the theorems about `Protocol`
as well, whose states are those of the games that `Replay` plays.

## Runs

| Run | Checks |
|---|---|
| `rules_any` (4x4, arbitrary states, any command) | `ReplyIsValid`; `MovesAtOnce`: a move recolours the pieces the contract names, all of them from the colours before it, and lists each once; `ColorsBlend`, `TowardsEnd` |
| `replay` (3x3, 8 colours, 2 seeds, all games) | of the game: `ColorsFollowSeed`: colours depend on the seed and the number of accepted commands alone; `TurnsArePieces`, `AlwaysAMove`: nobody ever passes, the game ends with the move that fills the board; `TurnSpec`: refinement of `TurnGame`. Of the boundary: `ValidatorsAgree`, `AnswersAreUnderstood`. Of the records: `FinishedIsSaved`, `StoredReplays`, `DamageIsCaught` |
| `match_pairing` (3 players, 4 connections, 1 turn, buffer 1) | `KeepsItsSeat`, `OneWaitingRoom`, `OneSeatPerPlayer`, `NothingLeaks`, `PhaseMatchesSeats`, `QueueEndsCurrent`, `SeatsAreServed`, `EveryRoomPlaysTurns` |
| `match_finish` (2 players, buffer for a whole game, 3 turns, one `Close`) | `SeatsAreServed`, `GamesFinish` |
| `match_finished_seat` | finding: no way back into a finished room |
| `server` (2 players, 3 connections of which 2 are admitted, 2 turns) | `AdmittedWithinLimit`, `RecordIsGame`, `EndShownAfterSaving`, `LedgerFollowsRooms`, `EndedGamesAreFiled`, `ServerDrains` |
| `peer` (queue of 2, process may stop) | `EventsThenReason`, `PeerEnds` |
| `rate_limiter` | `WithinRate`, `RefusedWhenFast` |
| `local_game` (2 browsers, 3 requests, 2 games) | `TurnsTakenOnce`, `ShownHappened`, `RequestsAreAnswered` |
| `web_client` (2 websockets, 2 local requests, 1 replay, 2 rooms, 1 restart, 2 turns) | `ConnectionIsTold`, `UpToDate`, `LostMatchIsNotShown`, `BusyEnds` |
| `web_paused` | finding: a player who has come back stays paused |
| `replay_cli` | finding: a record is replayed although the rules refuse its commands |

`TypeOK` and `PassesEndGame` of `Rules`, `ServerTypeOK` and `TypeOK` of `Match`, `Peer` and
`LocalGame` are proved for every instance (below) and not checked by a run.

Bounds of the rules runs. Boards of 3x3 and 4x4 with small palettes and generators
have corners, edges, middle rows and diagonals, runs of every length up to the edge,
full boards and, from the arbitrary states, boards without legal moves. What the size
could hide is proved for all sizes.

Bounds of the replay run. On a 3x3 board a game has five moves, so that a record has
eleven lines, and every one of them is lost, doubled, exchanged with its neighbour,
replaced by a line no pattern matches or altered in each field; a pass of either side is
put in everywhere. Commands of either player for every cell, and passes, go through the
runner, which answers or times out; the execution of the record answers, times out or
exits with an error. No game has a pass (`TurnsCountPieces`), so no record has one but
the damaged ones. `ValidatorsAgree` and `AnswersAreUnderstood` are evaluated in every
state of every game, the finished one included, on some 2000 requests each.

Bounds of the match runs. Three players and four connections, one of them a second
connection of the same player, are the least with which a third player meets a
full or an emptied room while another one comes back. A buffer of one or two
events overflows in a short game, so drops happen in every run but `match_finish`,
where the buffer holds all events of a game. `MaxCloses` bounds calls of `Close`;
the server makes one. `Close` is in `match_finish`, with two connections: together with
four it is beyond a run of minutes, and the properties about pairing are stated until
shutdown.

Bounds of the other runs. `Server` has one connection more than `MaxConnections`, so
that the limit is met; its games have two turns, one of each player, so that both
add to the record. Two admitted players never fill `MaxRooms` = 2: the refusal at the
limit of rooms does not happen in this run (see the observations below); a handler
refused there ends like one that `Join` refuses. In `Peer` three goroutines
compete for a queue of two frames; one frame from the client, one ping, one event of
the room and the last one of `Close` give each of them something to write at the
worst moment. `LocalGame` has two browsers and three requests: a new game, a command
and its repetition after the answer was lost, or a second new game between.

`WebClient` has two websockets and two rooms: the least for a reconnection to the same
match, to a room that waits and to another match, each with the old connection's handler
still there or gone. A game of two turns gives the page a move on either seat.
`MaxUnread` bounds how far an opponent who comes and goes runs ahead of the page. The
invariants also hold with three websockets and one local request.

Deadlock is checked for `rules_any` and `rate_limiter`. The others stop when all
connections, their bounds or, in `replay`, the game have ended.

Fairness. `FairPlay` of `Match`: handlers and forwarding keep running, a client that
shows its player to be on turn keeps sending until a move is accepted, and the runtime
does not fail forever; connections may end or not. `ServerFairSpec`: handlers and
forwarding keep running, and a connection ends some day (`keepAlive` ends each at the
limit of its age), seen at the latest when the command in hand is done: strong
fairness of leaving, weak fairness of all else; nobody has to connect or move.
`FairSpec` of `Peer`: each of the four goroutines runs on; timers need not fire, the
record need not become ready, the client need not do anything. `FairSpec` of
`LocalGame`: the server finishes every evaluation (the runtime has a time limit), and
answers arrive if the browser still waits; browsers need not ask for anything.
`FairSpec` of `WebClient`: answers and events arrive and the server works on what it
gets; users and opponents need not act, connections need not end, and a replay need not
arrive.

## Findings

1. `match_finished_seat`: `Room.join` refuses every join to a closed room, and a
   finished game closes its room. A player who lost its connection at the last
   move cannot come back for the final state while the opponent is still there,
   against the reconnection scenario of the specification.
2. `web_paused`: losing the connection pauses the page's match, and coming back does not
   end the pause: the server sends the returning player `state`, and only `matched`,
   `waiting` and `opponentReturned` (which goes to the opponent) reset the flag. Both
   players are connected, one of them is told to wait for the other and cannot move.
3. `replay_cli`: the contract says that the command line and the replay always agree, since
   both use the same rules. The harness calls 着手適用 and パス適用 directly; that it is the
   player's turn and that the game is not over is checked by 要求評価, which it does not
   call. A record in which a move is attributed to the other player, or with a pass after
   the end, is accepted. The server's own records come from accepted commands.

Observations, made while modelling and not kept as runs:

- The contract (`protocol.md:99`) says that a client that misses an event catches up with
  the next accepted command. If the missed event gave it the turn, there is no next
  command: both wait. In `Match`, `GamesFinish` fails with `EventBuffer` = 2 in the
  configuration of `match_finish`.
- `Shutdown` does not wait for websocket connections, so the process may end before they
  have sent the reason, which the comment at `main.go:464` promises. In `Peer`, `process`
  becomes "exited" with the close frame still queued.
- Leaving a replay puts back what was shown when the replay's data arrived. Pressing the
  button twice makes this the replay's first position, so that leaving shows the initial
  board instead of the result; a reconnection to a new match during a replay makes it the
  board of the old one, and if it is then the player's turn, nothing brings the current
  board back. In `WebClient` these are the cases that `PutBack` excepts: without it
  `UpToDate` is violated.
- An event that comes while a replay is on (the opponent leaves) replaces the position on
  the screen until the next step of the replay.
- The limit of rooms (`main.go:848`) is tested before `Join` and outside any lock.
  In `Server`, with `MaxRooms` = 1 and two players who both take `CheckRooms` before
  either joins and of whom one leaves and a third one joins, there are more rooms than
  the limit. The same test refuses a player who comes back to its own suspended game,
  which needs no new room.
- The grammar of records (`game-record.md:45-60`) has an order of lines; `Scan` counts the
  lines of a kind and accepts them in any order. The totals of the end line are written
  and never compared with the replayed board (`game-record.md:131-134`): damage to them is
  not noticed. In `Replay` these are the damages "order" and, of "line", `totals`.
- The shortened record in the contract (`game-record.md:107`) ends after 61 moves with 64
  pieces. A game that fills the board has 60 moves, as line 110 and the sample record say
  and `TurnsCountPieces` proves: a slip of the illustration.
- `handleReplay` reads the store twice (`main.go:1040` and 1045), once for the source it
  returns and once for the frames. An id is saved once, so that the two agree.
- The store (`store.go:75`) grows with every finished game until the process ends.
- `consecutivePasses` 2 is valid in a running game; a pass then makes it 3, outside
  the contract's 0..2. Not reachable from a new game (`TurnsCountPieces`).
- A command of the local game names its turn but not its game. Resent after a new
  game was started, it may be accepted there, where the contract (`protocol.md:90`)
  promises `stale_turn`.
- The browser displays `stale_turn` as an error (`web/main.nako3:413`), which the
  contract (`protocol.md:105`) asks clients not to do.

## Proofs

`RulesProofs` proves for every board from 3x3 on, every palette, generator and set
of seeds (`RulesAssumption`):

- `TypeCorrect`, `RepliesAreValid`, `ThereIsAMove`, `TurnsCountPieces`,
  `StepsBlend`: the properties of the same runs;
- `SecondPassEnds` and `MovesGoAtOnce` (`MovesAtOnce`), for games from any state whatever;
- `ColorsAreDrawn`: colours depend on the seed and the number of accepted commands alone.
  The numbers drawn are a recursive function, `LcgAfter`; that there is a function with
  its equations, which is what the proof needs, follows from the least number up to which
  there is none (`DrawsExist`);
- `RulesPlayTurns`: `Spec` implements the abstract game of `N*N-4` turns, which is
  what allows `Match` to use `TurnOps` for the game of a room;
- `GeneratorIsExact`: with the numbers of the code the generator's product is below
  2^53.

The inductive invariant is `Inductive`. None of its parts is inductive alone: that
there is a move rests on the four middle cells being taken (`MoveExists`), that
nobody passes on there being a move, the count of pieces on nobody passing, and
"finished exactly when full" on the count. `MoveExists` is the heart of it. If a
middle row has an empty cell, walk from the two middle pieces of that row to the
nearest one: it sees two pieces in a row (`LineHasMove`, with the least-element
principle `NatMin`). If both middle rows are full, each column has two neighbouring
pieces, and the same argument applies to the column of any empty cell. So the
game never has a pass, and the code for passes only matters for states that
come from outside.

`MovesGoAtOnce` needs no invariant. No two entries of the direction table meet, so that no
cell has two changes (`ChangesOnce`); then the order in which 着手適用 writes them does not
matter (`RecolorIs`). The cells a scan walks are those straight ahead (`AlongIsStraight`,
`StraightIsAlong`), a run has no gap (`RunHasNoGap`), so that the run is what is seen
(`SeenIsRun`) and its last piece the fixed end (`FixedEndLast`): the changes are
the pieces between the new one and a last one in sight (`BetweenIsChanged`,
`ChangedIsBetween`).

`GamesComeToAnEnd` is about states from outside: from any state that the rules accept,
`TowardsEnd` holds. All it needs is that the command that is due may be sent at all
(`0 \in Lag`). The invariant, `Judged`, says that a state is valid or finished; valid
alone is not kept, since a state with two passes that is still being played is accepted,
and a third pass ends it with a count that is not.

`RateLimiterProofs` proves for every rate, burst, resolution and length of the clock
(`RateLimiterAssumption`):

- `RateIsKept`: `WithinRate`, for every pair of allowed commands;
- `OnlyFastIsRefused`: `RefusedWhenFast`.

`WithinRate` is not inductive: it says nothing about the bucket. `BucketBounds` adds
that what is left in it, together with the commands since any earlier one, never
exceeds a full bucket and the time since then; `BucketExact` that for some earlier
command it is equal, namely the first after the bucket was last full. The first gives
the upper bound on what is allowed, the second the lower bound.

`MatchProofs` proves for any finite set of sessions, any players, any size of the channels,
length of the game and number of calls of `Close` (`MatchAssumption`, `LastTurnAssumption`):

- `MatchTypes`, `PhasesMatchSeats`, `SeatsServed`, `RoomsPlayTurns` (the refinement of
  `TurnGame` by the game of each room), from the invariant `Inductive`;
- `QueuesEndCurrent`, from `Feed`;
- `SeatsAreKept`, `WaitersMeet`, `PlayersSitOnce`, `NothingIsLeaked`, from `Pairing`.

`Inductive` holds during shutdown as well. Its core are `SeatIsSound`, `OneWriter` and
`OpenHasWriter`: a seat is connected exactly while it has the channel of a session that was
let in, and no two seats have the same one. That needs `LockIsHeld` (one session at a time
is between the choice of a room and the end of `Join`), and `RoomsCreated`, which says that
a room no session has created yet is untouched. `IndexedSits` is why `Leave` finds a seat,
`RoomsAreReached` why nobody sits in a room that nothing can reach. `Feed` follows every
event to its client; it adds that a session shows nothing before it is let in and that no
event carries a state before the game has started, which covers the events that carry none. `Pairing` speaks only of a manager that has not
been closed: `Close` empties the maps at once and the rooms one by one, and a `Leave` that
started before may forget an entry of a player who has joined since. Its central parts are
`JoinsOwnRoom` (whoever joins was given the room where its player sits, if there is one),
`EmptiedOnce` (one session removes a room) and `RoomsAreMinded` (each room in the map has a
session that will leave it).

`ServerProofs` proves for any limits (`ServerAssumption`):

- `ServerImplementsMatch`: `ServerSpec => Spec`, so that the theorems about `Match` hold for
  the server; the three invariants above are hypotheses of the steps that follow;
- `AdmissionIsLimited`, from `Admission`: the counter is exactly the number of handlers that
  have counted themselves, those that are about to back out included, and so it is never less
  than the number of the admitted ones;
- `ServerTypes`, `RecordsAreGames`, `EndsShownAfterSaving`, `LedgerFollows`, `EndedFiled`,
  from `Handling`.

`Handling` ties three places together: where a handler is (`Place`), who has the mutex of a
record (`MutexIsHeld`) and how far the record is behind the room (`RecordFollows`: one turn
behind exactly while a handler is between the acceptance of a command and its entry).
`ResponseIsState`, that no other command has been accepted meanwhile, is what makes the
entry the right one, and rests on the mutex. `LedgerFollows` needs `UnusedWaits`: a room
that nobody has sat in refuses nobody, hence a session that was refused does not remove a
room that it has made a record for.

`LocalGameProofs` proves for any number of browsers, requests and games
(`LocalGameAssumption`) `LocalGameTypes`, `TurnsAreTakenOnce` and `ShownHasHappened`.
`RunsAlone`, that the one request the runtime works on has read the present state, is the
heart of its invariant; `LogIsComplete` counts the turns of the newest game, and
`AnswersHappened` covers answers that are still under way.

`PeerProofs` proves for any size of the queue and any number of events, frames and pings
(`PeerAssumption`) `PeerTypesKept` and `EventsBeforeReason`. The invariant follows an event
through the channel, `forwardEvents`, the queue and `writeLoop`: `InLine` says that the
events in the queue are precisely those that have entered it (`Queued`) and not left it
(`Dequeued`), in order. It holds only as long as no write has failed and `done` is open,
because afterwards goroutines drop what they hold; but then nothing is written any more.
`ReasonIsLast` says that once the reason is under way the channel is closed and empty, and
no event is behind it. `AcksAreTrue` says that who is about to close has seen its frame
written, or the connection is lost.

`WebClientProofs` proves for any number of websockets, local requests, replays, rooms,
restarts and unread messages (`WebClientAssumption`):

- `ConnectionsAreTold`, from `Connected`;
- `MatchIsShown` and `NoLostMatchIsShown`, from `Connected` and `Following`.

None of the three properties is inductive: they say what holds when the page has read
everything, and nothing of messages under way or of sockets the page has left. In
`Connected`, `OneLink` and `OthersAreSilent` say that only the current socket can still
bring the page a message (an earlier one may hold the seat, but its queue is empty and
stays so), `LinkIsTold` that a bridge message under way accounts for every difference between
the page's belief and its socket, `ServesHeld` and `JoinersWait` which handler at the
server has the seat. `Following` is `UpToDate` and `LostMatchIsNotShown` with the queue
taken into account: `KnowsSeat`, `ShowsMatch` and `ShowsNoLostMatch` hold of what the page
will show once it has read what is under way (`EndsIn`). TLC has evaluated both in all
859,020 states of `web_client`.

`ReplayProofs` proves for every board from 3x3 on, every palette, generator and set of
seeds, hence for records of any length
(`RulesAssumption`, `ScriptFatesAssumption`):

- `ContractIsOne` and `NoAnswerIsLost`: the two sides' validators agree as
  `ValidatorsAgree` says, and no answer is lost at the boundary;
- `FinishedGamesAreSaved`, `StoredGamesReplay`, `DamageIsFound`: the properties of the same
  run about records;
- `RunnerPlaysRules`: if the command that is due may be sent (`0 \in Lag`), a game that goes
  through the runner, with its time limits and failures, is a game of `Rules`. What is proved
  of `Rules` then holds of it.

The invariant is `Kept`: `Inductive` of the rules; `Recording`, that the record of the room
tells the course of the game so far (`Course`: the states it went through and the cells
of the moves between them); and `Stored`, that what has been stored is the record of that course. The
course is not a variable; `Kept` says that there is one. It ranges over sequences of
states, which is why TLC checks the properties and not `Kept` itself.

A record is executed line by line (`Frames`, a recursive function), and there is no
induction over its lines to cite. Instead, `Laid` says which line of a record holds what,
and `FramesTell` takes the first frame that would differ from the course: all before it
agree, and one step of the rules makes it agree, too. The same principle, `NatMin`, shows
that the frames are defined at all.

For `DamageIsFound`, `Harmed` says that the lines before the damage are unchanged. Frames
are only added as lines are executed (`FramesStay`), so that nothing before the damage can
be blamed. That a lost or a doubled move is noticed needs the rules: every accepted move
adds one piece and the game ends when the board is full (`CourseFills`), so a record with
one move fewer does not reach the end and one with one more goes past it (`EnoughMoves`).

Every invariant and every action property that a passing run checks is a theorem, and so
are the two refinements of `TurnGame`. Only model-checked is liveness (`GamesFinish`,
`ServerDrains`, `PeerEnds`, `RequestsAreAnswered`, `BusyEnds`): the prover has no rules for
fairness and `ENABLED`. The three findings are counterexamples, which only TLC gives.

## Not modelled

Texts of messages and events, ids, JSON, bytes of websocket frames and the upgrade,
the order of the list of legal moves, the self test, drawing in the browser, reading
the configuration, the check of the rules at start and `/healthz`. Of the replays: the
text of lines (a line is what its pattern extracts), blank lines, the mapping of gonako's
diagnostics to lines of the record, and `Random`, `List` and `Len`, which only read the
store.

## Plan

The modules planned are written and their safety properties proved. What could be added:

- the last step of shutdown in `Server`: `Close` is followed in `Match` and the end of the
  process in `Peer`, but a game that ends while the server is told to stop is in neither
  with its record;
- the start of the process (`/healthz`, the check of the rules, the configuration), which
  has state worth a model only if requests are to be refused before it is done;
- the store with a bound, should it get one: `Random`, `List` and `Len` then compete with
  removal.

A change of the code that one of the modules follows should come with a change of the
module: TLC first, then `tlapm` on the module of its theorems.
