------------------------------- MODULE Match -------------------------------
(***************************************************************************)
(* Matchmaking: Manager and Room of server/internal/match, used by         *)
(* concurrent sessions.  A session is one handler of a connection: it      *)
(* calls Join once and, if that succeeds, Submit any number of times and   *)
(* then Leave once (handleMatch in server/main.go).  Sessions of the same  *)
(* player are reconnections and second tabs.                               *)
(*                                                                         *)
(* A step is one critical section: what runs under Manager.mu or under     *)
(* Room.mu is atomic, and joinMu, which Join holds across three of them,   *)
(* is a variable.  The runtime is called under Room.mu and may fail.  The  *)
(* state of a game is what TurnOps keeps of it.                            *)
(***************************************************************************)
EXTENDS TurnOps, Sequences, FiniteSets

CONSTANTS
    Session,        \* the handlers, one per connection
    PlayerId,       \* the names players join under
    PlayerOf,       \* the player of each session
    Nobody,         \* stands for an absent session or player
    EventBuffer,    \* capacity of a seat's channel (16)
    MaxCloses       \* how often Close may be called

ASSUME MatchAssumption ==
    /\ IsFiniteSet(Session)
    /\ PlayerOf \in [Session -> PlayerId]
    /\ Nobody \notin Session \cup PlayerId
    /\ EventBuffer \in Nat \ {0}
    /\ MaxCloses \in Nat

\* Each session creates at most one room; room 0 is no room.
RoomId == 1..Cardinality(Session)
NoRoom == 0

VARIABLES
    \* Manager
    joinMu,     \* the session that holds joinMu, or Nobody
    rooms,      \* the rooms in the map of rooms
    players,    \* the room of each player, or NoRoom
    waiting,    \* the room with a free seat, or NoRoom
    nextID,     \* the number of rooms created
    closing,    \* the rooms that a call of Close has still to close
    closes,     \* how often Close was called
    \* Room
    room,       \* seats, phase and game of every room
    \* Channels and sessions
    channel,    \* the channel made for each session: queue, open, lost
    pc,         \* where each session is
    mine,       \* the room each session deals with
    view        \* the last game shown to each session's client

managerVars == <<joinMu, rooms, players, waiting, nextID>>
closeVars   == <<closing, closes>>
sessionVars == <<pc, mine>>
vars == <<managerVars, closeVars, room, channel, sessionVars, view>>

-----------------------------------------------------------------------------
\* Rooms, seats and channels.

NoGame    == [turn |-> 0, player |-> "dark", phase |-> "none"]
EmptySeat == [player |-> Nobody, events |-> Nobody, connected |-> FALSE]
NewRoom   == [seats |-> [x \in Side |-> EmptySeat],
              phase |-> "waiting",
              game  |-> NoGame]

\* A channel also remembers whether the last event meant for it was dropped.
NoChannel  == [queue |-> <<>>, open |-> FALSE, lost |-> FALSE]
NewChannel == [queue |-> <<>>, open |-> TRUE,  lost |-> FALSE]

Taken(r)        == {x \in Side : room[r].seats[x].player # Nobody}
SeatsOf(r, p)   == {x \in Side : room[r].seats[x].player = p}
Seated(r, p)    == SeatsOf(r, p) # {}
SeatOf(r, p)    == CHOOSE x \in SeatsOf(r, p) : TRUE
OpenSeat(r)     == IF "dark" \notin Taken(r) THEN "dark" ELSE "light"
ConnectedIn(seats) == {x \in Side : seats[x].connected}
Listeners(seats)   == {seats[x].events : x \in ConnectedIn(seats)}

\* An event carries the state of the room; one that finds the buffer full is
\* dropped.
Deliver(ch, to, type, game) ==
    [s \in Session |->
        IF s \notin to THEN ch[s]
        ELSE IF Len(ch[s].queue) < EventBuffer
        THEN [ch[s] EXCEPT !.queue = Append(@, [type |-> type, game |-> game]),
                           !.lost  = FALSE]
        ELSE [ch[s] EXCEPT !.lost = TRUE]]

CloseChannels(ch, who) ==
    [s \in Session |-> IF s \in who THEN [ch[s] EXCEPT !.open = FALSE] ELSE ch[s]]

\* Mutant: a seat keeps the channel that was closed.
DisconnectedKeeps(seat) == [seat EXCEPT !.connected = FALSE]

Disconnected(seat) == [seat EXCEPT !.connected = FALSE, !.events = Nobody]

-----------------------------------------------------------------------------
Init ==
    /\ joinMu = Nobody
    /\ rooms = {}
    /\ players = [p \in PlayerId |-> NoRoom]
    /\ waiting = NoRoom
    /\ nextID = 0
    /\ closing = {}
    /\ closes = 0
    /\ room = [r \in RoomId |-> NewRoom]
    /\ channel = [s \in Session |-> NoChannel]
    /\ pc = [s \in Session |-> "start"]
    /\ mine = [s \in Session |-> NoRoom]
    /\ view = [s \in Session |-> NoGame]

Goto(s, from, to) == pc[s] = from /\ pc' = [pc EXCEPT ![s] = to]

\* The handler of a session has returned or has nothing left to do with its
\* client: what is queued for it and what was shown no longer matter.
Unread(ch, s) == [ch EXCEPT ![s].queue = <<>>, ![s].lost = FALSE]
HangUp(s)     == view' = [view EXCEPT ![s] = NoGame]

-----------------------------------------------------------------------------
\* Manager.Join

\* The room of the player if there is one, else the waiting room if it is
\* still open, else a new room.
RoomForJoin(s) ==
    LET p      == PlayerOf[s]
        known  == players[p] # NoRoom /\ players[p] \in rooms
        open   == waiting \in rooms /\ room[waiting].phase # "closed"
        target == IF known THEN players[p] ELSE IF open THEN waiting ELSE nextID + 1
    IN  /\ Goto(s, "start", "picked")
        /\ joinMu = Nobody
        /\ joinMu' = s
        /\ mine' = [mine EXCEPT ![s] = target]
        /\ players' = IF known THEN players ELSE [players EXCEPT ![p] = NoRoom]
        /\ waiting' = IF known THEN waiting ELSE target
        /\ rooms' = rooms \cup {target}
        /\ nextID' = IF target > nextID THEN target ELSE nextID
        /\ UNCHANGED <<closeVars, room, channel, view>>

\* Mutant: a player who is connected already is let in again.
LetsInTwice(r, p) == room[r].phase # "closed" /\ (Seated(r, p) \/ Taken(r) # Side)

\* A room lets a player in when it is not closed and the player's own seat is
\* disconnected or, for a player who is not there yet, a seat is free.
LetsIn(r, p) ==
    /\ room[r].phase # "closed"
    /\ IF Seated(r, p) THEN ~room[r].seats[SeatOf(r, p)].connected ELSE Taken(r) # Side

JoinRefused(s) ==
    /\ Goto(s, "picked", "refused")
    /\ ~LetsIn(mine[s], PlayerOf[s])
    /\ UNCHANGED <<managerVars, closeVars, room, channel, mine, view>>

\* A disconnected player takes its seat again, with a new channel, and is
\* sent the current state; the opponent is told.
Reconnect(s) ==
    LET r     == mine[s]
        x     == SeatOf(r, PlayerOf[s])
        seats == [room[r].seats EXCEPT ![x].events = s, ![x].connected = TRUE]
        both  == Taken(r) = Side /\ ConnectedIn(seats) = Side
        fresh == [channel EXCEPT ![s] = NewChannel]
        told  == Deliver(fresh, {s}, "state", room[r].game)
    IN  /\ Goto(s, "picked", "joined")
        /\ LetsIn(r, PlayerOf[s])
        /\ Seated(r, PlayerOf[s])
        /\ room' = [room EXCEPT ![r].seats = seats,
                                ![r].phase = IF @ = "suspended" /\ both THEN "playing" ELSE @]
        /\ channel' = Deliver(told, Listeners(seats) \ {s}, "opponentReturned", room[r].game)
        /\ UNCHANGED <<managerVars, closeVars, mine, view>>

\* A new player takes a free seat of an open room.
Sits(s) ==
    /\ pc[s] = "picked"
    /\ LetsIn(mine[s], PlayerOf[s])
    /\ ~Seated(mine[s], PlayerOf[s])

SeatsWith(s) ==
    LET r == mine[s]
    IN  [room[r].seats EXCEPT ![OpenSeat(r)] =
            [player |-> PlayerOf[s], events |-> s, connected |-> TRUE]]

\* The first player of a room waits.
TakeFirstSeat(s) ==
    LET r == mine[s]
    IN  /\ Sits(s)
        /\ Taken(r) = {}
        /\ Goto(s, "picked", "joined")
        /\ room' = [room EXCEPT ![r].seats = SeatsWith(s), ![r].phase = "waiting"]
        /\ channel' = Deliver([channel EXCEPT ![s] = NewChannel], {s}, "waiting", NoGame)
        /\ UNCHANGED <<managerVars, closeVars, mine, view>>

\* The second one starts the game, which both seats are told.
StartMatch(s) ==
    LET r == mine[s]
    IN  /\ Sits(s)
        /\ Taken(r) # {}
        /\ Goto(s, "picked", "joined")
        /\ room' = [room EXCEPT ![r] = [seats |-> SeatsWith(s),
                                        phase |-> "playing",
                                        game  |-> NewGame]]
        /\ channel' = Deliver([channel EXCEPT ![s] = NewChannel],
                              Listeners(SeatsWith(s)), "matched", NewGame)
        /\ UNCHANGED <<managerVars, closeVars, mine, view>>

\* The runtime fails to create the game: the second seat is given up again.
StartFails(s) ==
    /\ Sits(s)
    /\ Taken(mine[s]) # {}
    /\ Goto(s, "picked", "refused")
    /\ UNCHANGED <<managerVars, closeVars, room, channel, mine, view>>

\* Mutants: the player's room is not recorded; a full room goes on waiting.
RegisterForgets(s) ==
    LET r == mine[s]
    IN  /\ Goto(s, "joined", "serving")
        /\ waiting' = IF Taken(r) = Side /\ waiting = r THEN NoRoom ELSE waiting
        /\ joinMu' = Nobody
        /\ UNCHANGED <<players, rooms, nextID, closeVars, room, channel, mine, view>>

\* Join records the player's room and the end of the wait.
Register(s) ==
    LET r == mine[s]
    IN  /\ Goto(s, "joined", "serving")
        /\ players' = [players EXCEPT ![PlayerOf[s]] = r]
        /\ waiting' = IF Taken(r) = Side /\ waiting = r THEN NoRoom ELSE waiting
        /\ joinMu' = Nobody
        /\ UNCHANGED <<rooms, nextID, closeVars, room, channel, mine, view>>

\* Mutant: the room is dropped even if somebody sits there.
ReleaseAlways(s) ==
    /\ Goto(s, "refused", "done")
    /\ rooms' = rooms \ {mine[s]}
    /\ waiting' = IF waiting = mine[s] THEN NoRoom ELSE waiting
    /\ joinMu' = Nobody
    /\ mine' = [mine EXCEPT ![s] = NoRoom]
    /\ UNCHANGED <<players, nextID, closeVars, room, channel, view>>

\* After a refused join a room without seats is dropped.
ReleaseOnJoinFailure(s) ==
    LET r     == mine[s]
        empty == Taken(r) = {}
    IN  /\ Goto(s, "refused", "done")
        /\ rooms' = IF empty THEN rooms \ {r} ELSE rooms
        /\ waiting' = IF empty /\ waiting = r THEN NoRoom ELSE waiting
        /\ joinMu' = Nobody
        /\ mine' = [mine EXCEPT ![s] = NoRoom]
        /\ UNCHANGED <<players, nextID, closeVars, room, channel, view>>

-----------------------------------------------------------------------------
\* Manager.Submit

\* The manager passes a command on to the session's room, if the player is
\* still registered there.
Submit(s) ==
    LET r == mine[s]
    IN  /\ Goto(s, "serving", "submitting")
        /\ players[PlayerOf[s]] = r
        /\ r \in rooms
        /\ UNCHANGED <<managerVars, closeVars, room, channel, mine, view>>

\* Mutant: the event is built before the room takes the new state.
AnnouncedEarly(r, game) ==
    Deliver(channel, Listeners(room[r].seats), "state", room[r].game)

\* The new state goes to both seats, and the end of the game after it.
Announced(r, game) ==
    LET told == Deliver(channel, Listeners(room[r].seats), "state", game)
    IN  IF game.phase = "finished"
        THEN Deliver(told, Listeners(room[r].seats), "closed", game)
        ELSE told

\* The command is due and the rules accept it: the new state goes to both
\* seats, and the end of the game closes the room.
Accept(s) ==
    LET r    == mine[s]
        p    == PlayerOf[s]
        game == Advance(room[r].game)
    IN  /\ Goto(s, "submitting", "serving")
        /\ Seated(r, p)
        /\ room[r].phase # "closed"
        /\ room[r].game # NoGame
        /\ Due(room[r].game, SeatOf(r, p))
        /\ room' = [room EXCEPT ![r].game = game,
                                ![r].phase = IF game.phase = "finished" THEN "closed" ELSE @]
        /\ channel' = Announced(r, game)
        /\ UNCHANGED <<managerVars, closeVars, mine, view>>

\* Any other command is refused (wrong seat or turn, illegal move, closed
\* room), with the state of the room in the reply, if there is one.
Reject(s) ==
    LET game == room[mine[s]].game
    IN  /\ Goto(s, "submitting", "serving")
        /\ view' = [view EXCEPT ![s] = IF game = NoGame THEN @ ELSE game]
        /\ UNCHANGED <<managerVars, closeVars, room, channel, mine>>

\* Mutant: the runtime was given the state of the room itself, not a copy.
SubmitFailsInPlace(s) ==
    /\ Goto(s, "submitting", "serving")
    /\ Seated(mine[s], PlayerOf[s])
    /\ room[mine[s]].phase # "closed"
    /\ room[mine[s]].game # NoGame
    /\ room' = [room EXCEPT ![mine[s]].game.player = Opponent(@)]
    /\ UNCHANGED <<managerVars, closeVars, channel, mine, view>>

\* The runtime fails: neither the room nor the client learns anything.
SubmitFails(s) ==
    /\ Goto(s, "submitting", "serving")
    /\ Seated(mine[s], PlayerOf[s])
    /\ room[mine[s]].phase # "closed"
    /\ room[mine[s]].game # NoGame
    /\ UNCHANGED <<managerVars, closeVars, room, channel, mine, view>>

-----------------------------------------------------------------------------
\* Manager.Leave, which goes by the player, not by the session.

LeaveUnknown(s) ==
    /\ Goto(s, "serving", "done")
    /\ players[PlayerOf[s]] \notin rooms
    /\ mine' = [mine EXCEPT ![s] = NoRoom]
    /\ channel' = Unread(channel, s)
    /\ HangUp(s)
    /\ UNCHANGED <<managerVars, closeVars, room>>

Leave(s) ==
    LET r == players[PlayerOf[s]]
    IN  /\ Goto(s, "serving", "leaving")
        /\ r \in rooms
        /\ mine' = [mine EXCEPT ![s] = r]
        /\ UNCHANGED <<managerVars, closeVars, room, channel, view>>

\* Mutant: a game that a player leaves is not suspended.
PhaseLeftPlaying(phase, empty) == IF empty THEN "closed" ELSE phase

\* The phase of a room that somebody has left.
PhaseLeft(phase, empty) ==
    IF empty THEN "closed" ELSE IF phase = "playing" THEN "suspended" ELSE phase

\* Room.leave: the seat stays, disconnected.  If the other one is connected
\* the game is suspended and the opponent told, else the room is closed.
RoomLeave(s) ==
    LET r     == mine[s]
        x     == SeatOf(r, PlayerOf[s])
        seats == [room[r].seats EXCEPT ![x] = Disconnected(@)]
        empty == ConnectedIn(seats) = {}
        ended == CloseChannels(Unread(channel, s), {room[r].seats[x].events})
    IN  /\ pc[s] = "leaving"
        /\ Seated(r, PlayerOf[s])
        /\ pc' = [pc EXCEPT ![s] = IF empty THEN "emptied" ELSE "done"]
        /\ room' = [room EXCEPT ![r].seats = seats,
                                ![r].phase = PhaseLeft(@, empty)]
        /\ mine' = [mine EXCEPT ![s] = IF empty THEN r ELSE NoRoom]
        /\ channel' = Deliver(ended, Listeners(seats), "opponentLeft", room[r].game)
        /\ HangUp(s)
        /\ UNCHANGED <<managerVars, closeVars>>

\* Mutants: only the leaving player is forgotten; whichever room waits stops
\* to do so.
ForgetOne(s) ==
    /\ Goto(s, "emptied", "done")
    /\ players' = [players EXCEPT ![PlayerOf[s]] = NoRoom]
    /\ rooms' = rooms \ {mine[s]}
    /\ waiting' = IF waiting = mine[s] THEN NoRoom ELSE waiting
    /\ mine' = [mine EXCEPT ![s] = NoRoom]
    /\ UNCHANGED <<joinMu, nextID, closeVars, room, channel, view>>

ForgetWaiting(s) ==
    LET r    == mine[s]
        gone == {room[r].seats[x].player : x \in Taken(r)} \cup {PlayerOf[s]}
    IN  /\ Goto(s, "emptied", "done")
        /\ players' = [p \in PlayerId |-> IF p \in gone THEN NoRoom ELSE players[p]]
        /\ rooms' = rooms \ {r}
        /\ waiting' = NoRoom
        /\ mine' = [mine EXCEPT ![s] = NoRoom]
        /\ UNCHANGED <<joinMu, nextID, closeVars, room, channel, view>>

\* The manager forgets an emptied room and everybody seated there.
Forget(s) ==
    LET r    == mine[s]
        gone == {room[r].seats[x].player : x \in Taken(r)} \cup {PlayerOf[s]}
    IN  /\ Goto(s, "emptied", "done")
        /\ players' = [p \in PlayerId |-> IF p \in gone THEN NoRoom ELSE players[p]]
        /\ rooms' = rooms \ {r}
        /\ waiting' = IF waiting = r THEN NoRoom ELSE waiting
        /\ mine' = [mine EXCEPT ![s] = NoRoom]
        /\ UNCHANGED <<joinMu, nextID, closeVars, room, channel, view>>

-----------------------------------------------------------------------------
\* Manager.Close: the maps are emptied at once, the rooms closed one by one.

Close ==
    /\ closes < MaxCloses
    /\ closing = {}
    /\ closes' = closes + 1
    /\ closing' = rooms
    /\ rooms' = {}
    /\ players' = [p \in PlayerId |-> NoRoom]
    /\ waiting' = NoRoom
    /\ UNCHANGED <<joinMu, nextID, room, channel, sessionVars, view>>

RoomClose(r) ==
    LET listeners == Listeners(room[r].seats)
        told == IF room[r].phase = "closed" THEN channel
                ELSE Deliver(channel, listeners, "closed", room[r].game)
    IN  /\ r \in closing
        /\ closing' = closing \ {r}
        /\ room' = [room EXCEPT ![r].phase = "closed",
                                ![r].seats = [x \in Side |-> Disconnected(@[x])]]
        /\ channel' = CloseChannels(told, listeners)
        /\ UNCHANGED <<managerVars, closes, sessionVars, view>>

-----------------------------------------------------------------------------
\* The session forwards the next event to its client, which shows the state
\* it carries.
Receive(s) ==
    LET game == Head(channel[s].queue).game
    IN  /\ pc[s] \in {"serving", "submitting"}
        /\ channel[s].queue # <<>>
        /\ channel' = [channel EXCEPT ![s].queue = Tail(@)]
        /\ view' = [view EXCEPT ![s] = IF game = NoGame THEN @ ELSE game]
        /\ UNCHANGED <<managerVars, closeVars, room, sessionVars>>

Join(s) ==
    \/ RoomForJoin(s) \/ JoinRefused(s) \/ Reconnect(s)
    \/ TakeFirstSeat(s) \/ StartMatch(s) \/ StartFails(s)
    \/ Register(s) \/ ReleaseOnJoinFailure(s)

Next ==
    \/ \E s \in Session :
          \/ Join(s)
          \/ Submit(s) \/ Accept(s) \/ Reject(s) \/ SubmitFails(s)
          \/ LeaveUnknown(s) \/ Leave(s) \/ RoomLeave(s) \/ Forget(s)
          \/ Receive(s)
    \/ Close
    \/ \E r \in RoomId : RoomClose(r)

Spec == Init /\ [][Next]_vars

\* Two players who play: handlers and the forwarding of events keep running,
\* a client that shows its player to be on turn keeps sending moves until one
\* is accepted, and the runtime does not fail forever.
OnTurn(s) ==
    \E x \in Side : /\ room[mine[s]].seats[x].events = s
                    /\ view[s].phase = "playing"
                    /\ view[s].player = x

FairPlay ==
    /\ Spec
    /\ \A s \in Session :
          /\ WF_vars(Join(s))
          /\ WF_vars(Receive(s))
          /\ WF_vars(pc[s] = "serving" /\ OnTurn(s) /\ Submit(s))
          /\ WF_vars(Accept(s) \/ Reject(s) \/ SubmitFails(s))
          /\ SF_vars(Accept(s) \/ Reject(s))
          /\ SF_vars(Accept(s))
          /\ WF_vars(RoomLeave(s) \/ Forget(s))

-----------------------------------------------------------------------------
\* Properties.

Seat == [player    : PlayerId \cup {Nobody},
         events    : Session \cup {Nobody},
         connected : BOOLEAN]

RoomPhase == {"waiting", "playing", "suspended", "closed"}

SomeGame == Game \cup {NoGame}

EventType == {"waiting", "matched", "state", "opponentLeft", "opponentReturned", "closed"}

Label == {"start", "picked", "joined", "refused", "serving", "submitting",
          "leaving", "emptied", "done"}

TypeOK ==
    /\ joinMu \in Session \cup {Nobody}
    /\ rooms \in SUBSET RoomId
    /\ players \in [PlayerId -> RoomId \cup {NoRoom}]
    /\ waiting \in RoomId \cup {NoRoom}
    /\ nextID \in 0..Cardinality(Session)
    /\ closing \in SUBSET RoomId
    /\ closes \in 0..MaxCloses
    /\ room \in [RoomId -> [seats : [Side -> Seat], phase : RoomPhase, game : SomeGame]]
    /\ channel \in [Session -> [queue : Seq([type : EventType, game : SomeGame]),
                                open : BOOLEAN, lost : BOOLEAN]]
    /\ pc \in [Session -> Label]
    /\ mine \in [Session -> RoomId \cup {NoRoom}]
    /\ view \in [Session -> SomeGame]

\* Where a session has a seat of its own.
Holding == {"joined", "serving", "submitting", "leaving"}

\* Until the server shuts down, a session that was let in keeps the seat of
\* its player, connected to its own channel, in the room it was told, until it
\* leaves itself: no other session, of the same player or not, takes it over.
KeepsItsSeat ==
    closes = 0 =>
        \A s \in Session : pc[s] \in Holding =>
            \E x \in Side : room[mine[s]].seats[x] =
                [player |-> PlayerOf[s], events |-> s, connected |-> TRUE]

\* The phase of a room tells who is there: a room that waits has at most its
\* first seat taken, and by a connected player; a game is played with both
\* players connected and suspended with exactly one.
PhaseMatchesSeats ==
    \A r \in RoomId :
        LET connected == ConnectedIn(room[r].seats)
        IN  /\ room[r].phase = "waiting" =>
                  /\ room[r].game = NoGame
                  /\ Taken(r) \subseteq {"dark"}
                  /\ connected = Taken(r)
            /\ room[r].phase = "playing" => connected = Side
            /\ room[r].phase = "suspended" => Cardinality(connected) = 1 /\ Taken(r) = Side
            /\ room[r].phase \in {"playing", "suspended"} => room[r].game.phase = "playing"

\* Until shutdown at most one room waits for an opponent, and the manager
\* knows it: two players who wait are never kept apart.
OneWaitingRoom ==
    closes = 0 =>
        \A r \in rooms : room[r].phase = "waiting" /\ Taken(r) # {} => waiting = r

\* Until shutdown a player has a seat in one room of the manager at most, and
\* the index of players points to it, except while the player's own session
\* is about to record it.
OneSeatPerPlayer ==
    closes = 0 =>
        \A p \in PlayerId, r \in rooms : Seated(r, p) =>
            \/ players[p] = r
            \/ \E s \in Session : pc[s] = "joined" /\ PlayerOf[s] = p /\ mine[s] = r

\* Until shutdown every room in the map has a session that has yet to leave it, and every
\* player in the index has a room in the map: when the last session is gone
\* nothing is left behind.
NothingLeaks ==
    closes = 0 =>
        /\ \A r \in rooms : \E s \in Session :
              mine[s] = r /\ pc[s] \notin {"start", "done"}
        /\ \A p \in PlayerId : players[p] # NoRoom => players[p] \in rooms
        /\ waiting # NoRoom => waiting \in rooms

\* A channel is open exactly while one seat of one room writes to it, and that
\* seat belongs to the session's player.  So no channel is left open when its
\* seat is gone, and no seat can send on, or close, a closed channel.
ChannelHasSeat ==
    \A s \in Session :
        LET writers == {w \in RoomId \X Side : room[w[1]].seats[w[2]].events = s}
        IN  /\ channel[s].open <=> Cardinality(writers) = 1
            /\ Cardinality(writers) <= 1
            /\ \A w \in writers : /\ room[w[1]].seats[w[2]].connected
                                  /\ room[w[1]].seats[w[2]].player = PlayerOf[s]

\* Whichever way joins, leaves and Close interleave, every channel has its
\* seat; a room with a connected player is in the map or about to be closed,
\* so that nobody sits in a room that nothing can reach any more; and a
\* session that leaves finds its player seated there: the early return of
\* Room.leave, which would leave the room in the map for good, is not taken.
SeatsAreServed ==
    /\ ChannelHasSeat
    /\ \A r \in RoomId : ConnectedIn(room[r].seats) # {} => r \in rooms \cup closing
    /\ \A s \in Session : pc[s] = "leaving" => Seated(mine[s], PlayerOf[s])

\* If the last event for a connected session was not dropped, then what is
\* queued for it ends with the current state of the game, and with nothing
\* queued its client shows it.  A client that missed events is up to date
\* again with the next one that gets through.
QueueEndsCurrent ==
    \A r \in RoomId, x \in Side :
        LET s == room[r].seats[x].events
        IN  room[r].seats[x].connected /\ pc[s] \in Holding /\ ~channel[s].lost =>
                IF channel[s].queue = <<>>
                THEN view[s] = room[r].game
                ELSE channel[s].queue[Len(channel[s].queue)].game = room[r].game

\* The game of every room is a game of turns: it starts once, advances one
\* turn at a time and stays finished.
RoomGame(r) == IF room[r].game = NoGame THEN NewGame ELSE room[r].game

RoomTurns(r) == INSTANCE TurnGame WITH game <- RoomGame(r)

EveryRoomPlaysTurns ==
    /\ \A r \in RoomId : RoomTurns(r)!Init
    /\ [][\A r \in RoomId : RoomTurns(r)!Next \/ RoomGame(r)' = RoomGame(r)]_vars

\* A player whose seat is disconnected while the opponent is connected gets
\* the seat back when it joins again.
SeatIsKept ==
    [][\A s \in Session :
          JoinRefused(s) /\ Seated(mine[s], PlayerOf[s]) =>
              \/ room[mine[s]].seats[SeatOf(mine[s], PlayerOf[s])].connected
              \/ ConnectedIn(room[mine[s]].seats) = {}]_vars

\* Until shutdown a game that both players are connected to is played to its
\* end, unless one of them disconnects: every client learns in time that it is
\* on turn.
GamesFinish ==
    \A r \in RoomId : room[r].phase = "playing" ~> room[r].phase # "playing" \/ closes > 0
=============================================================================
