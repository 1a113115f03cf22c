----------------------------- MODULE WebClient -----------------------------
(***************************************************************************)
(* One browser (web/main.nako3 and the bridge in web/index.html) against   *)
(* the server.  The browser plays the local game or a match, loses its     *)
(* connection and reconnects, and looks at the replay of a finished match. *)
(*                                                                         *)
(* Handlers of the page run to their end, except that those with an HTTP   *)
(* request go on when it is answered; what the bridge does for a handler   *)
(* is part of the handler's step.  The server is what the modules Match    *)
(* and Server say of it, seen from one seat: the opponent comes, moves and *)
(* goes as it likes, and events are not dropped.                           *)
(***************************************************************************)
EXTENDS TurnOps, Sequences

CONSTANTS
    MaxConnects,    \* how often the browser opens a websocket
    MaxRequests,    \* how many requests it makes of the local game
    MaxReplays,     \* how many replays it asks for
    MaxRooms,       \* how many rooms the server makes
    MaxRestarts,    \* how often the server is restarted
    MaxUnread       \* how many messages are under way when the opponent acts

ASSUME WebClientAssumption ==
    /\ MaxConnects \in Nat
    /\ MaxRequests \in Nat \ {0}
    /\ MaxReplays \in Nat
    /\ MaxRooms \in Nat
    /\ MaxRestarts \in Nat
    /\ MaxUnread \in Nat

Connection == 1..MaxConnects
RoomId     == 1..MaxRooms
None       == 0         \* no connection, no room
Local      == 0         \* where a match has its room, the local game has this

VARIABLES
    \* The page
    mode,       \* 対局方式
    link,       \* 対戦接続
    paused,     \* 対戦一時停止
    busy,       \* 通信中
    loaded,     \* 状態読込済
    shown,      \* 現在状態
    seat,       \* 自分プレイヤー
    replay,     \* 再生中, 再生記録 and 再生位置
    final,      \* 対局最終状態
    visible,    \* which of the reconnect button, the replay button and the replay panel are
    asked,      \* local requests without an answer, and how many there were
    fetching,   \* the games whose replays were asked for, one per request, and how many there were
    \* The bridge and the network
    current,    \* the connection of the present generation
    opened,     \* the number of websockets opened
    conn,       \* the connections
    \* The server
    room,       \* the room of the browser's player and its opponent
    rooms,      \* the number of rooms made
    restarts      \* how often the server was restarted

gameVars   == <<loaded, shown, seat, final>>
linkVars   == <<mode, link, paused, busy>>
replayVars == <<replay, visible>>
httpVars   == <<asked, fetching>>
pageVars   == <<gameVars, linkVars, replayVars>>
bridgeVars == <<current, opened, conn>>
serverVars == <<room, rooms, restarts>>
vars == <<pageVars, httpVars, bridgeVars, serverVars>>

-----------------------------------------------------------------------------
\* States, messages, connections.

\* The state of a game after so many turns.
Position(t) == [turn   |-> t,
                player |-> IF t % 2 = 0 THEN "dark" ELSE "light",
                phase  |-> IF t = LastTurn THEN "finished" ELSE "playing"]

State(id, game) == [id |-> id, game |-> game]
NoState == State(Local, [turn |-> 0, player |-> "dark", phase |-> "none"])

\* A message has the receiver's seat and a state; the page does not look at
\* either in a message that is not about them.
Message(type, side, state) == [type |-> type, seat |-> side, state |-> state]
Signal(type) == Message(type, "dark", NoState)

NoReplay == [on |-> FALSE, of |-> None, at |-> 0]

\* page: readyState of the socket; server: where the handler is.
NoConn == [page |-> "none", server |-> "none", in |-> <<>>, out |-> <<>>]

NoRoom == [id |-> None, phase |-> "none", game |-> NoState.game,
           me |-> "none", held |-> None, opponent |-> "absent"]

Init ==
    /\ mode = "local" /\ link = "closed" /\ paused = FALSE
    /\ busy = TRUE
    /\ loaded = FALSE /\ shown = NoState /\ seat = "dark" /\ final = NoState
    /\ replay = NoReplay /\ visible = {}
    /\ asked = [open |-> 1, sent |-> 1]
    /\ fetching = [open |-> <<>>, sent |-> 0]
    /\ current = None /\ opened = 0
    /\ conn = [c \in Connection |-> NoConn]
    /\ room = NoRoom /\ rooms = 0 /\ restarts = 0

-----------------------------------------------------------------------------
\* The bridge.

\* Mutant: the listeners of an old connection do not look at the generation.
HungHeard(c) ==
    IF c = None THEN conn
    ELSE [conn EXCEPT ![c].page = "closed",
                      ![c].in = IF conn[c].page = "closed" THEN @
                                ELSE Append(@, Signal("bridgeClosed"))]

\* The page closes the socket of a connection, if it has one.  The generation
\* changes with it, so that the listeners ignore what still comes.
Hung(c) == IF c = None THEN conn ELSE [conn EXCEPT ![c].page = "closed", ![c].in = <<>>]

\* connect: the next generation.
Connect ==
    /\ opened < MaxConnects
    /\ opened' = opened + 1
    /\ current' = opened + 1
    /\ conn' = [Hung(current) EXCEPT ![opened + 1].page = "opening"]

Disconnect ==
    /\ current' = None
    /\ conn' = Hung(current)
    /\ UNCHANGED opened

-----------------------------------------------------------------------------
\* What the user does.

\* ルール要求送信
AskRules ==
    /\ asked.sent < MaxRequests
    /\ asked' = [open |-> asked.open + 1, sent |-> asked.sent + 1]
    /\ busy' = TRUE

\* 新規ゲーム要求処理, from the controls of the local game
NewLocalGame ==
    /\ mode = "local"
    /\ AskRules
    /\ UNCHANGED <<gameVars, mode, link, paused, replayVars, fetching, bridgeVars, serverVars>>

\* 対戦開始処理
PlayOnline ==
    /\ mode = "local"
    /\ Connect
    /\ mode' = "online" /\ link' = "connecting"
    /\ paused' = FALSE /\ busy' = FALSE /\ loaded' = FALSE
    /\ replay' = [replay EXCEPT !.on = FALSE]
    /\ visible' = {}
    /\ UNCHANGED <<shown, seat, final, httpVars, serverVars>>

\* ローカル復帰処理; without a valid seed no new game is asked for.
PlayLocal ==
    /\ mode = "online"
    /\ Disconnect
    /\ mode' = "local" /\ link' = "closed"
    /\ paused' = FALSE
    /\ replay' = [replay EXCEPT !.on = FALSE]
    /\ visible' = {}
    /\ AskRules \/ (busy' = FALSE /\ UNCHANGED asked)
    /\ UNCHANGED <<gameVars, fetching, serverVars>>

\* 再接続処理
Reconnect ==
    /\ "reconnect" \in visible
    /\ Connect
    /\ link' = "connecting"
    /\ visible' = visible \ {"reconnect"}
    /\ UNCHANGED <<gameVars, mode, paused, busy, replay, httpVars, serverVars>>

\* 自分手番判定
OnTurn ==
    /\ loaded
    /\ shown.game.phase = "playing"
    /\ ~busy
    /\ ~replay.on
    /\ mode = "online" => link = "open" /\ ~paused
    /\ shown.game.player = seat

\* 着手要求処理, パス要求処理 in the local game
MoveLocally ==
    /\ mode = "local" /\ OnTurn
    /\ AskRules
    /\ UNCHANGED <<gameVars, mode, link, paused, replayVars, fetching, bridgeVars, serverVars>>

\* The same in a match.  A socket that is no longer open refuses at once,
\* which makes the page idle again.
MoveOnline ==
    /\ mode = "online" /\ OnTurn
    /\ busy' = (conn[current].page = "open")
    /\ conn' = IF conn[current].page = "open"
               THEN [conn EXCEPT ![current].out =
                        Append(@, [player |-> seat, turn |-> shown.game.turn])]
               ELSE conn
    /\ UNCHANGED <<gameVars, mode, link, paused, replayVars, httpVars, current, opened, serverVars>>

\* 棋譜取得処理, up to its request
OpenReplay ==
    /\ "replay" \in visible
    /\ loaded /\ shown.game.phase = "finished"
    /\ fetching.sent < MaxReplays
    /\ fetching' = [open |-> Append(fetching.open, shown.id), sent |-> fetching.sent + 1]
    /\ UNCHANGED <<pageVars, asked, bridgeVars, serverVars>>

\* 再生画面更新処理
ShowFrame(id, t) ==
    /\ replay' = [on |-> TRUE, of |-> id, at |-> t]
    /\ shown' = State(id, Position(t))
    /\ loaded' = TRUE

\* 棋譜前手処理, 棋譜次手処理
StepReplay ==
    /\ "panel" \in visible /\ replay.on
    /\ \/ ShowFrame(replay.of, IF replay.at > 0 THEN replay.at - 1 ELSE 0)
       \/ ShowFrame(replay.of, IF replay.at < LastTurn THEN replay.at + 1 ELSE LastTurn)
    /\ UNCHANGED <<seat, final, linkVars, visible, httpVars, bridgeVars, serverVars>>

\* 再生終了処理
ExitReplay ==
    /\ "panel" \in visible
    /\ replay' = [replay EXCEPT !.on = FALSE]
    /\ shown' = final
    /\ visible' = visible \ {"panel"}
    /\ UNCHANGED <<loaded, seat, final, linkVars, httpVars, bridgeVars, serverVars>>

-----------------------------------------------------------------------------
\* Answers to HTTP requests.

\* Mutant: the answer is used whatever is played by then.
RulesAnswerAlways ==
    /\ asked.open > 0
    /\ asked' = [asked EXCEPT !.open = @ - 1]
    /\ busy' = FALSE
    /\ \E t \in 0..LastTurn :
          /\ shown' = State(Local, Position(t))
          /\ loaded' = TRUE
          /\ seat' = Position(t).player
    /\ UNCHANGED <<final, mode, link, paused, replayVars, fetching, bridgeVars, serverVars>>

\* ルール要求送信, from its answer on, with ルール応答処理: an answer without a
\* state (the request failed, there is no game) only ends the wait.
RulesAnswer ==
    /\ asked.open > 0
    /\ asked' = [asked EXCEPT !.open = @ - 1]
    /\ \/ mode # "local" /\ UNCHANGED <<busy, shown, loaded, seat>>
       \/ mode = "local" /\ busy' = FALSE /\ UNCHANGED <<shown, loaded, seat>>
       \/ /\ mode = "local" /\ busy' = FALSE
          /\ \E t \in 0..LastTurn :
                /\ shown' = State(Local, Position(t))
                /\ seat' = Position(t).player
          /\ loaded' = TRUE
    /\ UNCHANGED <<final, mode, link, paused, replayVars, fetching, bridgeVars, serverVars>>

\* 棋譜取得処理, from its answer on.  Answers may overtake each other.
ReplayAnswer(i) ==
    /\ i \in DOMAIN fetching.open
    /\ fetching' = [fetching EXCEPT !.open = SubSeq(@, 1, i - 1) \o SubSeq(@, i + 1, Len(@))]
    /\ \/ UNCHANGED pageVars        \* it failed, or the page is back at the local game
       \/ /\ mode = "online"
          /\ final' = shown
          /\ visible' = visible \cup {"panel"}
          /\ ShowFrame(fetching.open[i], 0)
          /\ UNCHANGED <<seat, linkVars>>
    /\ UNCHANGED <<asked, bridgeVars, serverVars>>

-----------------------------------------------------------------------------
\* 対戦イベント処理: one case per type of message.  The notice that a replay
\* could not be saved changes nothing but the text displayed.

BridgeOpen(msg) ==
    /\ msg.type = "bridgeOpen"
    /\ link' = "open"
    /\ visible' = visible \ {"reconnect"}
    /\ UNCHANGED <<gameVars, mode, paused, busy, replay>>

\* Mutant: the command under way is not given up.
BridgeClosedStaysBusy(msg) ==
    /\ msg.type = "bridgeClosed"
    /\ link' = "closed" /\ paused' = TRUE
    /\ visible' = visible \cup {"reconnect"}
    /\ UNCHANGED <<gameVars, mode, busy, replay>>

BridgeClosed(msg) ==
    /\ msg.type = "bridgeClosed"
    /\ link' = "closed" /\ paused' = TRUE /\ busy' = FALSE
    /\ visible' = visible \cup {"reconnect"}
    /\ UNCHANGED <<gameVars, mode, replay>>

BridgeError(msg) ==
    /\ msg.type = "bridgeError"
    /\ busy' = FALSE
    /\ UNCHANGED <<gameVars, mode, link, paused, replayVars>>

\* 状態適用処理, in a match
ApplyState(state) == shown' = state /\ loaded' = TRUE

\* The command was refused; only stale_turn brings a state to the screen.
Refused(msg) ==
    /\ msg.type \in {"refused", "stale_turn"}
    /\ busy' = FALSE
    /\ IF msg.type = "stale_turn" THEN ApplyState(msg.state) ELSE UNCHANGED <<shown, loaded>>
    /\ UNCHANGED <<seat, final, mode, link, paused, replayVars>>

\* 対戦盤面破棄処理
DiscardBoard ==
    /\ shown' = NoState /\ loaded' = FALSE /\ final' = NoState

\* Mutant: the board of the lost game stays.
WaitingKeepsBoard(msg) ==
    /\ msg.type = "waiting"
    /\ seat' = msg.seat
    /\ paused' = FALSE
    /\ UNCHANGED <<loaded, shown, final, mode, link, busy, replayVars>>

Waiting(msg) ==
    /\ msg.type = "waiting"
    /\ seat' = msg.seat
    /\ paused' = FALSE
    /\ IF loaded /\ ~replay.on
       THEN DiscardBoard /\ visible' = visible \ {"replay", "panel"}
       ELSE UNCHANGED <<loaded, shown, final, visible>>
    /\ UNCHANGED <<mode, link, busy, replay>>

\* The room has ended; a result on the screen and a replay stay.
RoomClosed(msg) ==
    /\ msg.type = "closed"
    /\ paused' = TRUE /\ busy' = FALSE
    /\ IF (loaded /\ shown.game.phase = "finished") \/ replay.on
       THEN UNCHANGED <<loaded, shown, final, visible>>
       ELSE DiscardBoard /\ visible' = (visible \cup {"reconnect"}) \ {"replay", "panel"}
    /\ UNCHANGED <<seat, mode, link, replay>>

OpponentComesOrGoes(msg) ==
    /\ msg.type \in {"opponentLeft", "opponentReturned"}
    /\ paused' = (msg.type = "opponentLeft")
    /\ ApplyState(msg.state)
    /\ UNCHANGED <<seat, final, mode, link, busy, replayVars>>

MatchedOrState(msg) ==
    /\ msg.type \in {"matched", "state"}
    /\ seat' = msg.seat
    /\ busy' = FALSE
    /\ paused' = (paused /\ msg.type # "matched")
    /\ ApplyState(msg.state)
    /\ IF msg.state.game.phase = "finished"
       THEN final' = msg.state /\ visible' = visible \cup {"replay"}
       ELSE UNCHANGED <<final, visible>>
    /\ UNCHANGED <<mode, link, replay>>

HandleEvent(msg) ==
    \/ BridgeOpen(msg) \/ BridgeClosed(msg) \/ BridgeError(msg)
    \/ Refused(msg) \/ Waiting(msg) \/ RoomClosed(msg)
    \/ OpponentComesOrGoes(msg) \/ MatchedOrState(msg)

\* A listener of a socket: an event reaches the page.
Dispatch(c) ==
    /\ conn[c].in # <<>>
    /\ conn' = [conn EXCEPT ![c].in = Tail(@)]
    /\ IF mode = "online" THEN HandleEvent(Head(conn[c].in)) ELSE UNCHANGED pageVars
    /\ UNCHANGED <<httpVars, current, opened, serverVars>>

-----------------------------------------------------------------------------
\* The network and the server.

NoPageStep == UNCHANGED <<pageVars, httpVars, current, opened>>

\* The server sends messages on a connection.
Sent(cs, c, msgs) ==
    IF c # None /\ cs[c].page = "open" THEN [cs EXCEPT ![c].in = @ \o msgs] ELSE cs

\* The server sends messages and closes the connection.
SentAndClosed(cs, c, msgs) ==
    [Sent(cs, c, Append(msgs, Signal("bridgeClosed"))) EXCEPT ![c].page = "closed"]

\* The message with the state of a room, for the browser's seat.
About(r, type) == Message(type, r.me, State(r.id, r.game))

ConnectFails(c) ==
    /\ conn[c].page = "opening"
    /\ conn' = [conn EXCEPT ![c] =
                   [NoConn EXCEPT !.page = "closed", !.server = "gone",
                                  !.in = <<Signal("bridgeError"), Signal("bridgeClosed")>>]]
    /\ NoPageStep /\ UNCHANGED serverVars

\* The upgrade succeeds; the page may have closed the socket meanwhile.
Upgrade(c) ==
    /\ conn[c].server = "none" /\ conn[c].page \in {"opening", "closed"}
    /\ conn' = IF conn[c].page = "closed" THEN [conn EXCEPT ![c].server = "joining"]
               ELSE [conn EXCEPT ![c] = [NoConn EXCEPT !.page = "open", !.server = "joining",
                                                       !.in = <<Signal("bridgeOpen")>>]]
    /\ NoPageStep /\ UNCHANGED serverVars

\* A limit is met, the player is connected already, its room has ended or the
\* runtime fails.
JoinRefused(c) ==
    /\ conn[c].server = "joining"
    /\ \E told \in {<<>>, <<Signal("refused")>>} :
          conn' = [SentAndClosed(conn, c, told) EXCEPT ![c].server = "gone"]
    /\ NoPageStep /\ UNCHANGED serverVars

Seats(c, r, type) ==
    /\ room' = r
    /\ conn' = [Sent(conn, c, <<About(r, type)>>) EXCEPT ![c].server = "serving"]
    /\ NoPageStep /\ UNCHANGED restarts

\* Room.join: the first seat, the second one, or the player's own again.
JoinFirst(c) ==
    /\ conn[c].server = "joining"
    /\ room = NoRoom /\ rooms < MaxRooms
    /\ rooms' = rooms + 1
    /\ Seats(c, [NoRoom EXCEPT !.id = rooms + 1, !.phase = "waiting", !.me = "dark", !.held = c],
             "waiting")

JoinSecond(c) ==
    /\ conn[c].server = "joining"
    /\ room.phase = "waiting" /\ room.me = "none"
    /\ Seats(c, [room EXCEPT !.phase = "playing", !.game = NewGame, !.me = "light", !.held = c],
             "matched")
    /\ UNCHANGED rooms

JoinAgain(c) ==
    /\ conn[c].server = "joining"
    /\ room.phase = "suspended" /\ room.held = None
    /\ Seats(c, [room EXCEPT !.phase = "playing", !.held = c], "state")
    /\ UNCHANGED rooms

\* Room.submit accepted a command: the new room, and what its seats are told.
Advanced == LET game == Advance(room.game)
            IN  [room EXCEPT !.game = game,
                             !.phase = IF game.phase = "finished" THEN "closed" ELSE @]

News(r) == IF r.phase = "closed" THEN <<About(r, "state"), About(r, "closed")>>
           ELSE <<About(r, "state")>>

\* The next command of the browser: accepted, late, or refused for another
\* reason (too fast, the runtime fails, the game is over).
Submit(c) ==
    LET command == Head(conn[c].out)
        read    == [conn EXCEPT ![c].out = Tail(@)]
    IN  /\ conn[c].server = "serving" /\ conn[c].out # <<>>
        /\ \/ /\ room.phase # "closed" /\ command.player = room.me
              /\ Due(room.game, room.me) /\ command.turn = room.game.turn
              /\ room' = Advanced
              /\ conn' = Sent(read, c, News(Advanced))
           \/ /\ room.phase # "closed" /\ command.player = room.me
              /\ command.turn # room.game.turn
              /\ conn' = Sent(read, c, <<About(room, "stale_turn")>>)
              /\ UNCHANGED room
           \/ /\ conn' = Sent(read, c, <<Signal("refused")>>)
              /\ UNCHANGED room
        /\ NoPageStep /\ UNCHANGED <<rooms, restarts>>

\* The connection ends, by the network or by one of the server's limits; what
\* is on its way may be lost.
ConnectionEnds(c) ==
    /\ conn[c].page = "open"
    /\ \E n \in 0..Len(conn[c].in) :
          conn' = [conn EXCEPT ![c].page = "closed",
                               ![c].in = Append(SubSeq(@, 1, n), Signal("bridgeClosed"))]
    /\ NoPageStep /\ UNCHANGED serverVars

\* The handler of a connection that has ended takes its leave.
Leave(c) ==
    /\ conn[c].server = "serving" /\ conn[c].page = "closed"
    /\ conn' = [conn EXCEPT ![c].server = "gone", ![c].out = <<>>]
    /\ room' = IF room.opponent # "here" THEN NoRoom
               ELSE [room EXCEPT !.held = None,
                                 !.phase = IF @ = "playing" THEN "suspended" ELSE @]
    /\ NoPageStep /\ UNCHANGED <<rooms, restarts>>

\* Bound: nothing but opponents can send without end.
FewUnread == room.held # None => Len(conn[room.held].in) < MaxUnread

OpponentJoins ==
    /\ FewUnread
    /\ room.opponent # "here"
    /\ \/ /\ room = NoRoom /\ rooms < MaxRooms
          /\ rooms' = rooms + 1
          /\ room' = [NoRoom EXCEPT !.id = rooms + 1, !.phase = "waiting", !.opponent = "here"]
          /\ UNCHANGED conn
       \/ /\ room.phase = "waiting"
          /\ room' = [room EXCEPT !.phase = "playing", !.game = NewGame, !.opponent = "here"]
          /\ conn' = Sent(conn, room.held, <<About(room', "matched")>>)
          /\ UNCHANGED rooms
       \/ /\ room.phase = "suspended"
          /\ room' = [room EXCEPT !.phase = "playing", !.opponent = "here"]
          /\ conn' = Sent(conn, room.held, <<About(room', "opponentReturned")>>)
          /\ UNCHANGED rooms
    /\ NoPageStep /\ UNCHANGED restarts

OpponentMoves ==
    /\ room.phase # "closed" /\ room.opponent = "here" /\ room.me # "none"
    /\ Due(room.game, Opponent(room.me))
    /\ room' = Advanced
    /\ conn' = Sent(conn, room.held, News(Advanced))
    /\ NoPageStep /\ UNCHANGED <<rooms, restarts>>

OpponentLeaves ==
    /\ FewUnread
    /\ room.opponent = "here"
    /\ room' = IF room.held = None THEN NoRoom
               ELSE [room EXCEPT !.opponent = "gone",
                                 !.phase = IF @ = "playing" THEN "suspended" ELSE @]
    /\ conn' = Sent(conn, room.held, <<About(room, "opponentLeft")>>)
    /\ NoPageStep /\ UNCHANGED <<rooms, restarts>>

\* The server stops and is started again.  Manager.Close tells the seats of the
\* rooms that are not closed yet; all connections end.
Restart ==
    LET told(c) == IF c = room.held /\ room.phase # "closed"
                   THEN <<About(room, "closed")>> ELSE <<>>
    IN  /\ restarts < MaxRestarts
        /\ restarts' = restarts + 1
        /\ room' = NoRoom
        /\ conn' = [c \in Connection |->
                       IF conn[c].server \in {"joining", "serving"}
                       THEN [SentAndClosed(conn, c, told(c))[c] EXCEPT !.server = "gone", !.out = <<>>]
                       ELSE conn[c]]
        /\ NoPageStep /\ UNCHANGED rooms

User ==
    \/ NewLocalGame \/ PlayOnline \/ PlayLocal \/ Reconnect
    \/ MoveLocally \/ MoveOnline
    \/ OpenReplay \/ StepReplay \/ ExitReplay

Join(c) == JoinRefused(c) \/ JoinFirst(c) \/ JoinSecond(c) \/ JoinAgain(c)

Next ==
    \/ User
    \/ RulesAnswer
    \/ \E i \in 1..MaxReplays : ReplayAnswer(i)
    \/ \E c \in Connection :
          \/ Dispatch(c) \/ ConnectFails(c) \/ Upgrade(c) \/ Join(c)
          \/ Submit(c) \/ ConnectionEnds(c) \/ Leave(c)
    \/ OpponentJoins \/ OpponentMoves \/ OpponentLeaves \/ Restart

Spec == Init /\ [][Next]_vars

\* Answers and events arrive, and the server works on what it gets; users and
\* opponents need not do anything, connections need not end.
FairSpec ==
    /\ Spec
    /\ WF_vars(RulesAnswer)
    /\ \A c \in Connection :
          /\ WF_vars(Dispatch(c))
          /\ WF_vars(conn[c].page = "opening" /\ (ConnectFails(c) \/ Upgrade(c)))
          /\ WF_vars(Join(c))
          /\ WF_vars(Submit(c))
          /\ WF_vars(Leave(c))

-----------------------------------------------------------------------------
\* Properties.

\* The connection the page has, with everything it brought read.
AllRead == current # None /\ conn[current].in = <<>>

\* What the page believes of its connection is so, or the message that says
\* otherwise is on its way, however often the user reconnects and whatever
\* the earlier connections still bring; and once the connection is over, the
\* user is offered to reconnect: a match never ends on a page that can only
\* be reloaded.
ConnectionIsTold ==
    mode = "online" =>
        /\ link = "open" => conn[current].page = "open" \/ ~AllRead
        /\ link = "closed" => conn[current].page = "closed"
        /\ conn[current].page = "closed" /\ AllRead =>
              link = "closed" /\ "reconnect" \in visible

\* The server has a seat for the page's connection.
InRoom == mode = "online" /\ AllRead /\ room.held = current /\ conn[current].page = "open"

\* The board was put on the screen by leaving a replay.
PutBack == fetching.sent > 0 /\ shown = final

\* Whatever was on the screen before, a page that has read its events shows
\* the state of its own match and knows its own seat, after any number of
\* disconnections and of changes between the local game and matches with
\* answers under way.  The exception is what leaving a replay puts back.
UpToDate ==
    InRoom /\ room.phase \in {"playing", "suspended"} /\ ~replay.on =>
        /\ loaded
        /\ shown = State(room.id, room.game) \/ PutBack
        /\ seat = room.me

\* A page that waits for an opponent does not show the board of a match that
\* was lost as one in progress, except what leaving a replay puts back.
LostMatchIsNotShown ==
    InRoom /\ room.phase = "waiting" /\ ~replay.on =>
        ~loaded \/ shown.game.phase # "playing" \/ PutBack

\* A page that waits for the server does not wait for ever: a command that
\* was lost with its connection, refused or overtaken leaves it usable.
BusyEnds == busy ~> ~busy

\* A player who has read its events is kept from moving only while the
\* opponent is not there: when both are connected, the match goes on.
PausedOnlyAlone == InRoom /\ room.phase = "playing" => ~paused
=============================================================================
