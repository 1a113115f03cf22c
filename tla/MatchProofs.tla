---------------------------- MODULE MatchProofs ----------------------------
(***************************************************************************)
(* The rooms of server/internal/match, for any number of sessions, players *)
(* and calls of Close: types, the phases of a room, its seats and their    *)
(* channels, and the games as games of turns; then what the clients of a   *)
(* room are told; then what Manager guarantees until it is closed.         *)
(***************************************************************************)
EXTENDS Match, FiniteSetTheorems, TLAPS

-----------------------------------------------------------------------------
\* The inductive invariant.

\* joinMu is held from the choice of a room to the end of Join.
InJoin == {"picked", "joined", "refused"}

LockIsHeld == \A s \in Session : pc[s] \in InJoin <=> joinMu = s

\* A session deals with a room from Join to the end of Leave.
Idle == {"start", "done"}

DealsWithRoom ==
    \A s \in Session : IF pc[s] \in Idle THEN mine[s] = NoRoom ELSE mine[s] \in 1..nextID

\* The sessions that have called Join.
Started == {s \in Session : pc[s] # "start"}

\* Rooms are used only when they have been created, and each was created by a
\* session of its own.
RoomsCreated ==
    /\ rooms \cup closing \subseteq 1..nextID
    /\ \A p \in PlayerId : players[p] \in 0..nextID
    /\ waiting \in 0..nextID
    /\ \A r \in RoomId : r > nextID => room[r] = NewRoom
    /\ nextID <= Cardinality(Started)

\* A seat is connected exactly while it has a channel, that of a session of
\* its player that was let in.
SeatIsSound(seat) ==
    IF seat.connected
    THEN /\ seat.events \in Session
         /\ seat.player = PlayerOf[seat.events]
         /\ pc[seat.events] \notin {"start", "picked", "refused"}
    ELSE seat.events = Nobody

SeatsAreSound == \A r \in RoomId, x \in Side : SeatIsSound(room[r].seats[x])

\* The first player gets the dark seat, and the second is another one.
SeatsInOrder ==
    \A r \in RoomId :
        room[r].seats["light"].player # Nobody =>
            /\ room[r].seats["dark"].player # Nobody
            /\ room[r].seats["dark"].player # room[r].seats["light"].player

OneWriter ==
    \A r \in RoomId, q \in RoomId, x \in Side, y \in Side :
        /\ room[r].seats[x].events # Nobody
        /\ room[r].seats[x].events = room[q].seats[y].events
        => r = q /\ x = y

OpenHasWriter ==
    \A s \in Session :
        channel[s].open <=> \E r \in RoomId, x \in Side : room[r].seats[x].events = s

\* What a phase says of the seats and the game, and that a game goes on only
\* before its last turn.
SeatTaken(r, x)     == room[r].seats[x].player # Nobody
SeatConnected(r, x) == room[r].seats[x].connected

PhaseIsSound(r) ==
    /\ room[r].phase = "waiting" =>
          /\ room[r].game = NoGame
          /\ ~SeatTaken(r, "light")
          /\ \A x \in Side : SeatConnected(r, x) <=> SeatTaken(r, x)
    /\ room[r].phase = "playing" => \A x \in Side : SeatConnected(r, x)
    /\ room[r].phase = "suspended" =>
          /\ \A x \in Side : SeatTaken(r, x)
          /\ SeatConnected(r, "dark") <=> ~SeatConnected(r, "light")
    /\ room[r].phase \in {"playing", "suspended"} => room[r].game.phase = "playing"
    /\ room[r].game.phase = "playing" => room[r].game.turn < LastTurn

PhasesAreSound == \A r \in RoomId : PhaseIsSound(r)

\* A room that somebody may still enter, or sits in, is in the map or among
\* those that Close is about to close.
RoomsAreReached ==
    /\ \A r \in RoomId, x \in Side : SeatConnected(r, x) => r \in rooms \cup closing
    /\ \A s \in Session :
          pc[s] = "picked" => \/ mine[s] \in rooms \cup closing
                              \/ room[mine[s]].phase = "closed"

\* A room left by its last session stays closed and empty.
EmptiedIsClosed ==
    \A s \in Session : pc[s] = "emptied" =>
        /\ room[mine[s]].phase = "closed"
        /\ \A x \in Side : ~SeatConnected(mine[s], x)

\* Who is in the index of players, or about to be, or leaves a room sits there.
SitsIn(r, p) == \E x \in Side : room[r].seats[x].player = p

IndexedSits ==
    /\ \A p \in PlayerId : players[p] # NoRoom => SitsIn(players[p], p)
    /\ \A s \in Session :
          pc[s] \in {"joined", "leaving", "emptied"} => SitsIn(mine[s], PlayerOf[s])

Inductive ==
    /\ TypeOK
    /\ LockIsHeld
    /\ DealsWithRoom
    /\ RoomsCreated
    /\ SeatsAreSound
    /\ SeatsInOrder
    /\ OneWriter
    /\ OpenHasWriter
    /\ PhasesAreSound
    /\ RoomsAreReached
    /\ EmptiedIsClosed
    /\ IndexedSits

-----------------------------------------------------------------------------
\* Sessions, rooms and channels.

\* What follows from the assumptions on sessions and players.
LEMMA Constants ==
    /\ Cardinality(Session) \in Nat
    /\ RoomId = 1..Cardinality(Session)
    /\ Nobody \notin Session
    /\ Nobody \notin PlayerId
    /\ \A s \in Session : PlayerOf[s] \in PlayerId
    /\ Side = {"dark", "light"}
    /\ NewGame \in Game
<1>1. Cardinality(Session) \in Nat
    BY FS_CardinalityType, MatchAssumption
<1> QED BY <1>1, MatchAssumption, LastTurnAssumption DEF RoomId, Side, NewGame, Game

Event == [type : EventType, game : SomeGame]

ChannelState == [queue : Seq(Event),
                 open  : BOOLEAN,
                 lost  : BOOLEAN]

\* The parts of a queue have its type.
LEMMA HeadAndTail ==
    ASSUME NEW S, NEW q \in Seq(S), q # <<>>
    PROVE  Head(q) \in S /\ Tail(q) \in Seq(S)
OBVIOUS

\* Sending an event neither opens nor closes a channel.
LEMMA DeliverKeepsOpen ==
    ASSUME NEW ch \in [Session -> ChannelState], NEW to,
           NEW type \in EventType, NEW game \in SomeGame
    PROVE  /\ Deliver(ch, to, type, game) \in [Session -> ChannelState]
           /\ \A s \in Session : Deliver(ch, to, type, game)[s].open = ch[s].open
<1> DEFINE new == Deliver(ch, to, type, game)
<1>1. ASSUME NEW s \in Session
      PROVE  new[s] \in ChannelState /\ new[s].open = ch[s].open
    <2>1. new[s] = IF s \notin to THEN ch[s]
                   ELSE IF Len(ch[s].queue) < EventBuffer
                   THEN [ch[s] EXCEPT !.queue = Append(@, [type |-> type, game |-> game]),
                                      !.lost  = FALSE]
                   ELSE [ch[s] EXCEPT !.lost = TRUE]
        BY DEF Deliver
    <2>2. ch[s] \in ChannelState /\ [type |-> type, game |-> game] \in Event
        BY DEF Event
    <2>3. Append(ch[s].queue, [type |-> type, game |-> game]) \in Seq(Event)
        BY <2>2 DEF ChannelState
    <2> QED BY <2>1, <2>2, <2>3 DEF ChannelState
<1>2. new = [s \in Session |-> new[s]]
    BY DEF Deliver
<1> QED BY <1>1, <1>2

\* CloseChannels closes the channels of the given sessions and no others.
LEMMA CloseChannelsCloses ==
    ASSUME NEW ch \in [Session -> ChannelState], NEW who
    PROVE  /\ CloseChannels(ch, who) \in [Session -> ChannelState]
           /\ \A s \in Session :
                 CloseChannels(ch, who)[s].open <=> ch[s].open /\ s \notin who
BY DEF CloseChannels, ChannelState

\* Emptying a queue that nobody reads neither opens nor closes a channel.
LEMMA UnreadKeepsOpen ==
    ASSUME NEW ch \in [Session -> ChannelState], NEW s \in Session
    PROVE  /\ Unread(ch, s) \in [Session -> ChannelState]
           /\ \A t \in Session : Unread(ch, s)[t].open = ch[t].open
<1> DEFINE new == Unread(ch, s)
<1>1. new = [ch EXCEPT ![s] = [ch[s] EXCEPT !.queue = <<>>, !.lost = FALSE]]
    BY DEF Unread, ChannelState
<1>2. <<>> \in Seq(Event)
    OBVIOUS
<1> QED BY <1>1, <1>2 DEF ChannelState

-----------------------------------------------------------------------------
\* The invariant holds at the start.
LEMMA InitIsInductive == Init => Inductive
<1> SUFFICES ASSUME Init PROVE Inductive OBVIOUS
<1> USE Constants, MatchAssumption
<1>1. TypeOK
    <2>1. NewRoom \in [seats : [Side -> Seat], phase : RoomPhase, game : SomeGame]
        BY DEF NewRoom, EmptySeat, Seat, RoomPhase, SomeGame
    <2>2. NoChannel \in ChannelState
        BY DEF NoChannel, ChannelState
    <2>3. NoGame \in SomeGame
        BY DEF SomeGame
    <2> QED BY <2>1, <2>2, <2>3 DEF Init, TypeOK, ChannelState, Event, Label, NoRoom
<1>2. nextID <= Cardinality(Started)
    <2>1. Started = {}
        BY DEF Init, Started
    <2>2. Cardinality(Started) = 0
        BY <2>1, FS_EmptySet
    <2> QED BY <2>2 DEF Init
<1>3. LockIsHeld /\ DealsWithRoom /\ RoomsCreated
    BY <1>2 DEF Init, LockIsHeld, DealsWithRoom, RoomsCreated, InJoin, Idle, NoRoom
<1>4. \A r \in RoomId : room[r] = NewRoom
    BY DEF Init
<1>5. SeatsAreSound /\ SeatsInOrder /\ OneWriter
    BY <1>4 DEF SeatsAreSound, SeatIsSound, SeatsInOrder, OneWriter, NewRoom, EmptySeat
<1>6. OpenHasWriter
    BY <1>4 DEF Init, OpenHasWriter, NewRoom, EmptySeat, NoChannel
<1>7. PhasesAreSound
    BY <1>4 DEF PhasesAreSound, PhaseIsSound, SeatTaken, SeatConnected, NewRoom, EmptySeat, NoGame
<1>8. RoomsAreReached /\ EmptiedIsClosed /\ IndexedSits
    BY <1>4 DEF Init, RoomsAreReached, EmptiedIsClosed, IndexedSits, SeatConnected, NewRoom, EmptySeat
<1> QED BY <1>1, <1>3, <1>5, <1>6, <1>7, <1>8 DEF Inductive

-----------------------------------------------------------------------------
\* Steps that leave rooms, seats and the manager alone.

\* A session that has started stays among those that have.
LEMMA StartedAlready ==
    ASSUME TypeOK, NEW s \in Session, NEW l, pc[s] # "start", l # "start",
           pc' = [pc EXCEPT ![s] = l]
    PROVE  Started' = Started
BY DEF TypeOK, Started

Quiet(s) ==
    \/ JoinRefused(s) \/ StartFails(s)
    \/ Submit(s) \/ Reject(s) \/ SubmitFails(s)
    \/ LeaveUnknown(s) \/ Receive(s)

\* Steps that keep the rooms keep the types.
LEMMA QuietHasType ==
    ASSUME Inductive, NEW s \in Session, Quiet(s)
    PROVE  TypeOK' /\ \A t \in Session : channel'[t].open = channel[t].open
<1> USE Constants
<1>0. TypeOK /\ channel \in [Session -> ChannelState]
    BY DEF Inductive, TypeOK, ChannelState, Event
<1>1. CASE JoinRefused(s) \/ StartFails(s) \/ Submit(s) \/ SubmitFails(s)
    BY <1>0, <1>1 DEF TypeOK, JoinRefused, StartFails, Sits, Submit, SubmitFails, Goto, Label,
                      managerVars, closeVars
<1>2. CASE Reject(s)
    <2>1. mine[s] \in RoomId
        BY <1>0, <1>2 DEF Inductive, DealsWithRoom, RoomsCreated, TypeOK, Reject, Goto, Idle
    <2>2. view' \in [Session -> SomeGame]
        BY <1>0, <1>2, <2>1 DEF TypeOK, Reject
    <2> QED BY <1>0, <1>2, <2>2 DEF TypeOK, Reject, Goto, Label, managerVars, closeVars
<1>3. CASE LeaveUnknown(s)
    <2>1. channel' \in [Session -> ChannelState] /\ \A t \in Session : channel'[t].open = channel[t].open
        BY <1>0, <1>3, UnreadKeepsOpen DEF LeaveUnknown
    <2>2. view' \in [Session -> SomeGame]
        BY <1>0, <1>3 DEF TypeOK, LeaveUnknown, HangUp, SomeGame
    <2> QED BY <1>0, <1>3, <2>1, <2>2 DEF TypeOK, LeaveUnknown, Goto, Label, ChannelState, Event,
                                      managerVars, closeVars, NoRoom
<1>4. CASE Receive(s)
    <2> DEFINE q == channel[s].queue
    <2>1. q \in Seq(Event) /\ q # <<>>
        BY <1>0, <1>4 DEF ChannelState, Receive
    <2>2. Head(q) \in Event /\ Tail(q) \in Seq(Event)
        BY <2>1, HeadAndTail
    <2>7. Head(q).game \in SomeGame
        BY <2>2 DEF Event
    <2>3. channel' = [channel EXCEPT ![s] = [channel[s] EXCEPT !.queue = Tail(q)]]
        BY <1>0, <1>4 DEF Receive
    <2>4. channel[s] \in ChannelState /\ [channel[s] EXCEPT !.queue = Tail(q)] \in ChannelState
        BY <1>0, <2>2 DEF ChannelState
    <2>6. channel' \in [Session -> ChannelState] /\ \A t \in Session : channel'[t].open = channel[t].open
        BY <1>0, <2>3, <2>4 DEF ChannelState
    <2>5. view' \in [Session -> SomeGame]
        BY <1>0, <1>4, <2>7 DEF TypeOK, Receive
    <2> QED BY <1>0, <1>4, <2>5, <2>6 DEF TypeOK, Receive, ChannelState, Event, managerVars, closeVars, sessionVars
<1> QED BY <1>1, <1>2, <1>3, <1>4 DEF Quiet

\* Where a quiet step takes its session.
LEMMA QuietGoes ==
    ASSUME Inductive, NEW s \in Session, Quiet(s)
    PROVE  /\ UNCHANGED <<joinMu, rooms, players, waiting, nextID, closing, room>>
           /\ pc' = [pc EXCEPT ![s] = pc'[s]]
           /\ \A t \in Session \ {s} : mine'[t] = mine[t]
           /\ \/ pc[s] = "picked" /\ pc'[s] = "refused" /\ mine'[s] = mine[s]
              \/ pc[s] = "serving" /\ pc'[s] = "submitting" /\ mine'[s] = mine[s]
              \/ pc[s] = "submitting" /\ pc'[s] = "serving" /\ mine'[s] = mine[s]
              \/ pc[s] = "serving" /\ pc'[s] = "done" /\ mine'[s] = NoRoom
              \/ pc[s] \in {"serving", "submitting"} /\ pc'[s] = pc[s] /\ mine'[s] = mine[s]
<1>0. TypeOK
    BY DEF Inductive
<1>1. CASE JoinRefused(s) \/ StartFails(s) \/ Submit(s) \/ SubmitFails(s) \/ Reject(s)
    BY <1>0, <1>1 DEF TypeOK, JoinRefused, StartFails, Sits, Submit, SubmitFails, Reject, Goto,
                      managerVars, closeVars
<1>2. CASE LeaveUnknown(s)
    BY <1>0, <1>2 DEF TypeOK, LeaveUnknown, Goto, managerVars, closeVars
<1>3. CASE Receive(s)
    BY <1>0, <1>3 DEF TypeOK, Receive, managerVars, closeVars, sessionVars
<1> QED BY <1>1, <1>2, <1>3 DEF Quiet

\* Steps that keep the rooms keep the invariant.
LEMMA QuietIsInductive == ASSUME Inductive, NEW s \in Session, Quiet(s) PROVE Inductive'
<1>1. TypeOK' /\ \A t \in Session : channel'[t].open = channel[t].open
    BY QuietHasType
<1> USE QuietGoes
<1>0. TypeOK /\ \A t \in Session \ {s} : pc'[t] = pc[t]
    BY DEF Inductive, TypeOK
<1>2. LockIsHeld'
    BY <1>0 DEF Inductive, LockIsHeld, InJoin
<1>3. DealsWithRoom'
    BY <1>0 DEF Inductive, DealsWithRoom, Idle
<1>4. RoomsCreated'
    BY <1>0, StartedAlready DEF Inductive, RoomsCreated
<1>5. SeatsAreSound'
    BY <1>0 DEF Inductive, SeatsAreSound, SeatIsSound
<1>6. SeatsInOrder' /\ OneWriter' /\ PhasesAreSound'
    BY DEF Inductive, SeatsInOrder, OneWriter, PhasesAreSound, PhaseIsSound, SeatTaken, SeatConnected
<1>7. OpenHasWriter'
    BY <1>1 DEF Inductive, OpenHasWriter
<1>8. RoomsAreReached'
    BY <1>0 DEF Inductive, RoomsAreReached, SeatConnected
<1>9. EmptiedIsClosed' /\ IndexedSits'
    BY <1>0 DEF Inductive, EmptiedIsClosed, IndexedSits, SeatConnected, SitsIn
<1> QED BY <1>1, <1>2, <1>3, <1>4, <1>5, <1>6, <1>7, <1>8, <1>9 DEF Inductive

-----------------------------------------------------------------------------
\* Steps of the manager, which leave the rooms themselves alone.

\* A session that starts is one more.
LEMMA OneMoreStarted ==
    ASSUME TypeOK, NEW s \in Session, pc[s] = "start",
           pc' = [pc EXCEPT ![s] = "picked"]
    PROVE  /\ Cardinality(Started) \in Nat
           /\ Cardinality(Started') = Cardinality(Started) + 1
           /\ Cardinality(Started') <= Cardinality(Session)
<1>1. Started' = Started \cup {s} /\ s \notin Started /\ Started' \subseteq Session
    BY DEF TypeOK, Started
<1>2. IsFiniteSet(Started) /\ IsFiniteSet(Started')
    BY <1>1, FS_Subset, MatchAssumption
<1>3. Cardinality(Started) \in Nat /\ Cardinality(Started') <= Cardinality(Session)
    BY <1>1, <1>2, FS_CardinalityType, FS_Subset, MatchAssumption
<1>4. Cardinality(Started') = Cardinality(Started) + 1
    BY <1>1, <1>2, FS_AddElement
<1> QED BY <1>3, <1>4

\* Where RoomForJoin finds a room.
LEMMA RoomIsFound ==
    ASSUME Inductive, NEW s \in Session, RoomForJoin(s)
    PROVE  \E target \in RoomId :
              /\ target <= nextID + 1
              /\ mine' = [mine EXCEPT ![s] = target]
              /\ waiting' \in {waiting, target}
              /\ rooms' = rooms \cup {target}
              /\ nextID' = IF target > nextID THEN target ELSE nextID
              /\ players' \in [PlayerId -> RoomId \cup {NoRoom}]
              /\ \A p \in PlayerId : players'[p] \in {players[p], NoRoom}
<1> DEFINE p      == PlayerOf[s]
           known  == players[p] # NoRoom /\ players[p] \in rooms
           open   == waiting \in rooms /\ room[waiting].phase # "closed"
           target == IF known THEN players[p] ELSE IF open THEN waiting ELSE nextID + 1
<1>1. TypeOK /\ p \in PlayerId
    BY Constants DEF Inductive
<1>2. nextID + 1 <= Cardinality(Session)
    <2>1. pc[s] = "start" /\ pc' = [pc EXCEPT ![s] = "picked"]
        BY DEF RoomForJoin, Goto
    <2>2. /\ Cardinality(Started) \in Nat
          /\ Cardinality(Started') = Cardinality(Started) + 1
          /\ Cardinality(Started') <= Cardinality(Session)
        BY <1>1, <2>1, OneMoreStarted
    <2> QED BY <1>1, <2>2, Constants DEF Inductive, RoomsCreated, TypeOK
<1>3. target \in RoomId /\ target <= nextID + 1
    BY <1>1, <1>2, Constants DEF Inductive, RoomsCreated, TypeOK, NoRoom
<1>4. /\ mine' = [mine EXCEPT ![s] = target]
      /\ waiting' \in {waiting, target}
      /\ rooms' = rooms \cup {target}
      /\ nextID' = IF target > nextID THEN target ELSE nextID
      /\ players' = IF known THEN players ELSE [players EXCEPT ![p] = NoRoom]
    BY DEF RoomForJoin
<1>5. players' \in [PlayerId -> RoomId \cup {NoRoom}] /\ \A q \in PlayerId : players'[q] \in {players[q], NoRoom}
    BY <1>1, <1>4 DEF TypeOK
<1> QED BY <1>3, <1>4, <1>5

\* Join picks a room under joinMu.
LEMMA RoomForJoinIsInductive ==
    ASSUME Inductive, NEW s \in Session, RoomForJoin(s)
    PROVE  Inductive'
<1> PICK target \in RoomId :
              /\ target <= nextID + 1
              /\ mine' = [mine EXCEPT ![s] = target]
              /\ waiting' \in {waiting, target}
              /\ rooms' = rooms \cup {target}
              /\ nextID' = IF target > nextID THEN target ELSE nextID
              /\ players' \in [PlayerId -> RoomId \cup {NoRoom}]
              /\ \A p \in PlayerId : players'[p] \in {players[p], NoRoom}
    BY RoomIsFound
<1>1. /\ TypeOK
      /\ joinMu = Nobody /\ joinMu' = s
      /\ pc[s] = "start" /\ pc' = [pc EXCEPT ![s] = "picked"]
      /\ UNCHANGED <<closing, closes, room, channel, view>>
    BY DEF Inductive, RoomForJoin, Goto, closeVars
<1>2. nextID \in Nat /\ nextID' \in nextID..Cardinality(Session) /\ target \in 1..nextID'
    BY <1>1, Constants DEF TypeOK
<1>3. TypeOK'
    <2>1. rooms' \in SUBSET RoomId /\ waiting' \in RoomId \cup {NoRoom} /\ nextID' \in 0..Cardinality(Session)
        BY <1>1, <1>2, Constants DEF TypeOK
    <2>2. pc' \in [Session -> Label] /\ mine' \in [Session -> RoomId \cup {NoRoom}]
        BY <1>1 DEF TypeOK, Label
    <2> QED BY <1>1, <2>1, <2>2 DEF TypeOK
<1>4. \A t \in Session : t # s => pc'[t] = pc[t] /\ mine'[t] = mine[t]
    BY <1>1 DEF TypeOK
<1>5. pc'[s] = "picked" /\ mine'[s] = target
    BY <1>1 DEF TypeOK
<1>6. \A t \in Session : pc[t] \notin InJoin
    BY <1>1, Constants DEF Inductive, LockIsHeld
<1>7. LockIsHeld'
    BY <1>1, <1>4, <1>5, <1>6 DEF LockIsHeld, InJoin
<1>8. DealsWithRoom'
    BY <1>2, <1>4, <1>5 DEF Inductive, DealsWithRoom, Idle
<1>9. RoomsCreated'
    <2>1. nextID' <= Cardinality(Started')
        <3>1. Cardinality(Started) \in Nat /\ Cardinality(Started') = Cardinality(Started) + 1
            BY <1>1, OneMoreStarted
        <3>2. nextID <= Cardinality(Started)
            BY DEF Inductive, RoomsCreated
        <3> QED BY <1>2, <3>1, <3>2
    <2>2. rooms' \cup closing' \subseteq 1..nextID' /\ waiting' \in 0..nextID'
        BY <1>1, <1>2 DEF Inductive, RoomsCreated
    <2>3. \A p \in PlayerId : players'[p] \in 0..nextID'
        BY <1>2 DEF Inductive, RoomsCreated, NoRoom
    <2>4. \A r \in RoomId : r > nextID' => room'[r] = NewRoom
        BY <1>1, <1>2, Constants DEF Inductive, RoomsCreated
    <2> QED BY <2>1, <2>2, <2>3, <2>4 DEF RoomsCreated
<1>10. SeatsAreSound'
    BY <1>1, <1>4 DEF Inductive, SeatsAreSound, SeatIsSound
<1>11. SeatsInOrder' /\ OneWriter' /\ PhasesAreSound' /\ OpenHasWriter'
    BY <1>1 DEF Inductive, SeatsInOrder, OneWriter, PhasesAreSound, PhaseIsSound, SeatTaken,
                SeatConnected, OpenHasWriter
<1>12. RoomsAreReached'
    BY <1>1, <1>4, <1>5, <1>6 DEF Inductive, RoomsAreReached, SeatConnected, InJoin
<1>13. EmptiedIsClosed' /\ IndexedSits'
    BY <1>1, <1>4, <1>5 DEF Inductive, EmptiedIsClosed, IndexedSits, SeatConnected, SitsIn
<1> QED BY <1>3, <1>7, <1>8, <1>9, <1>10, <1>11, <1>12, <1>13 DEF Inductive

\* A session between Join and the end of Leave has a room.
LEMMA DealtRoom ==
    ASSUME Inductive, NEW s \in Session, pc[s] \notin {"start", "done"}
    PROVE  mine[s] \in 1..nextID /\ mine[s] \in RoomId /\ mine[s] # NoRoom
<1>1. mine[s] \in 1..nextID /\ nextID \in 0..Cardinality(Session)
    BY DEF Inductive, DealsWithRoom, Idle, TypeOK
<1> QED BY <1>1, Constants DEF NoRoom

\* Rooms and channels stay, so the parts of the invariant about them do.
LEMMA RoomsUntouched ==
    ASSUME Inductive, UNCHANGED <<room, channel>>
    PROVE  SeatsInOrder' /\ OneWriter' /\ PhasesAreSound' /\ OpenHasWriter'
BY DEF Inductive, SeatsInOrder, OneWriter, PhasesAreSound, PhaseIsSound, SeatTaken,
       SeatConnected, OpenHasWriter

\* Join enters the player in the index and releases joinMu.
LEMMA RegisterIsInductive ==
    ASSUME Inductive, NEW s \in Session, Register(s)
    PROVE  Inductive'
<1>1. /\ TypeOK /\ PlayerOf[s] \in PlayerId
      /\ joinMu' = Nobody
      /\ pc[s] = "joined" /\ pc' = [pc EXCEPT ![s] = "serving"]
      /\ players' = [players EXCEPT ![PlayerOf[s]] = mine[s]]
      /\ waiting' \in {waiting, NoRoom}
      /\ UNCHANGED <<rooms, nextID, closing, closes, room, channel, mine, view>>
    BY Constants DEF Inductive, Register, Goto, closeVars
<1>2. \A t \in Session : t # s => pc'[t] = pc[t]
    BY <1>1 DEF TypeOK
<1>3. pc'[s] = "serving" /\ mine[s] \in 1..nextID /\ mine[s] \in RoomId
    BY <1>1, DealtRoom DEF TypeOK
<1>4. TypeOK'
    BY <1>1, <1>3 DEF TypeOK, Label
<1>5. LockIsHeld'
    BY <1>1, <1>2, <1>3, Constants DEF Inductive, LockIsHeld, InJoin
<1>6. DealsWithRoom'
    BY <1>1, <1>2, <1>3 DEF Inductive, DealsWithRoom, Idle
<1>7. RoomsCreated'
    <2>1. Started' = Started
        BY <1>1, StartedAlready
    <2> QED BY <1>1, <1>3, <2>1, Constants DEF Inductive, RoomsCreated, TypeOK, NoRoom
<1>8. SeatsAreSound'
    BY <1>1, <1>2, <1>3 DEF Inductive, SeatsAreSound, SeatIsSound
<1>9. RoomsAreReached' /\ EmptiedIsClosed'
    BY <1>1, <1>2, <1>3 DEF Inductive, RoomsAreReached, EmptiedIsClosed, SeatConnected
<1>10. IndexedSits'
    <2>1. SitsIn(mine[s], PlayerOf[s])
        BY <1>1 DEF Inductive, IndexedSits
    <2>2. \A p \in PlayerId : players'[p] = IF p = PlayerOf[s] THEN mine[s] ELSE players[p]
        BY <1>1 DEF TypeOK
    <2>3. \A q, p : SitsIn(q, p)' <=> SitsIn(q, p)
        BY <1>1 DEF SitsIn
    <2> QED BY <1>1, <1>2, <1>3, <2>1, <2>2, <2>3 DEF Inductive, IndexedSits
<1> QED BY <1>1, <1>4, <1>5, <1>6, <1>7, <1>8, <1>9, <1>10, RoomsUntouched DEF Inductive

\* Join fails, and a room that nobody uses is removed.
LEMMA ReleaseIsInductive ==
    ASSUME Inductive, NEW s \in Session, ReleaseOnJoinFailure(s)
    PROVE  Inductive'
<1> DEFINE empty == \A x \in Side : ~SeatTaken(mine[s], x)
<1>1. /\ TypeOK
      /\ joinMu' = Nobody
      /\ pc[s] = "refused" /\ pc' = [pc EXCEPT ![s] = "done"]
      /\ rooms' = IF empty THEN rooms \ {mine[s]} ELSE rooms
      /\ waiting' \in {waiting, NoRoom}
      /\ mine' = [mine EXCEPT ![s] = NoRoom]
      /\ UNCHANGED <<players, nextID, closing, closes, room, channel, view>>
    BY DEF Inductive, ReleaseOnJoinFailure, Goto, closeVars, Taken, SeatTaken
<1>2. \A t \in Session : t # s => pc'[t] = pc[t] /\ mine'[t] = mine[t]
    BY <1>1 DEF TypeOK
<1>3. pc'[s] = "done" /\ mine'[s] = NoRoom /\ mine[s] \in 1..nextID /\ mine[s] \in RoomId
    BY <1>1, DealtRoom DEF TypeOK
<1>4. TypeOK'
    BY <1>1 DEF TypeOK, Label
<1>5. LockIsHeld'
    BY <1>1, <1>2, <1>3, Constants DEF Inductive, LockIsHeld, InJoin
<1>6. DealsWithRoom'
    BY <1>1, <1>2, <1>3 DEF Inductive, DealsWithRoom, Idle
<1>7. RoomsCreated'
    <2>1. Started' = Started
        BY <1>1, StartedAlready
    <2>2. RoomsCreated /\ nextID \in Nat
        BY <1>1 DEF Inductive, TypeOK
    <2>3. rooms' \subseteq rooms /\ waiting' \in 0..nextID
        BY <1>1, <2>2 DEF RoomsCreated, NoRoom
    <2> QED BY <1>1, <2>1, <2>2, <2>3 DEF RoomsCreated
<1>8. SeatsAreSound'
    BY <1>1, <1>2, <1>3 DEF Inductive, SeatsAreSound, SeatIsSound
<1>9. RoomsAreReached'
    <2>1. \A x \in Side : empty => ~SeatConnected(mine[s], x)
        BY <1>3, Constants DEF Inductive, SeatsAreSound, SeatIsSound, SeatConnected, SeatTaken
    <2>2. \A t \in Session : t # s => pc[t] # "picked"
        BY <1>1 DEF Inductive, LockIsHeld, InJoin
    <2> QED BY <1>1, <1>2, <1>3, <2>1, <2>2 DEF Inductive, RoomsAreReached, SeatConnected
<1>10. EmptiedIsClosed' /\ IndexedSits'
    BY <1>1, <1>2, <1>3 DEF Inductive, EmptiedIsClosed, IndexedSits, SeatConnected, SitsIn
<1> QED BY <1>1, <1>4, <1>5, <1>6, <1>7, <1>8, <1>9, <1>10, RoomsUntouched DEF Inductive

\* Leave looks up the room of its player.
LEMMA LeaveIsInductive ==
    ASSUME Inductive, NEW s \in Session, Leave(s)
    PROVE  Inductive'
<1> DEFINE r == players[PlayerOf[s]]
<1>1. /\ TypeOK /\ PlayerOf[s] \in PlayerId
      /\ pc[s] = "serving" /\ pc' = [pc EXCEPT ![s] = "leaving"]
      /\ r \in rooms
      /\ mine' = [mine EXCEPT ![s] = r]
      /\ UNCHANGED <<joinMu, rooms, players, waiting, nextID, closing, closes, room, channel, view>>
    BY Constants DEF Inductive, Leave, Goto, closeVars, managerVars
<1>2. \A t \in Session : t # s => pc'[t] = pc[t] /\ mine'[t] = mine[t]
    BY <1>1 DEF TypeOK
<1>3. pc'[s] = "leaving" /\ mine'[s] = r /\ r \in 1..nextID /\ r \in RoomId /\ r # NoRoom
    BY <1>1, Constants DEF Inductive, RoomsCreated, TypeOK, NoRoom
<1>4. TypeOK'
    BY <1>1, <1>3 DEF TypeOK, Label
<1>5. LockIsHeld' /\ DealsWithRoom'
    BY <1>1, <1>2, <1>3 DEF Inductive, LockIsHeld, InJoin, DealsWithRoom, Idle
<1>6. RoomsCreated'
    <2>1. Started' = Started
        BY <1>1, StartedAlready
    <2> QED BY <1>1, <2>1 DEF Inductive, RoomsCreated
<1>7. SeatsAreSound'
    BY <1>1, <1>2, <1>3 DEF Inductive, SeatsAreSound, SeatIsSound
<1>8. RoomsAreReached' /\ EmptiedIsClosed' /\ IndexedSits'
    BY <1>1, <1>2, <1>3 DEF Inductive, RoomsAreReached, EmptiedIsClosed, IndexedSits,
                            SeatConnected, SitsIn
<1> QED BY <1>1, <1>4, <1>5, <1>6, <1>7, <1>8, RoomsUntouched DEF Inductive

\* Leave removes a room that is empty.
LEMMA ForgetIsInductive ==
    ASSUME Inductive, NEW s \in Session, Forget(s)
    PROVE  Inductive'
<1>1. /\ TypeOK
      /\ pc[s] = "emptied" /\ pc' = [pc EXCEPT ![s] = "done"]
      /\ players' \in [PlayerId -> RoomId \cup {NoRoom}]
      /\ \A p \in PlayerId : players'[p] \in {players[p], NoRoom}
      /\ rooms' = rooms \ {mine[s]}
      /\ waiting' \in {waiting, NoRoom}
      /\ mine' = [mine EXCEPT ![s] = NoRoom]
      /\ UNCHANGED <<joinMu, nextID, closing, closes, room, channel, view>>
    <2>1. TypeOK
        BY DEF Inductive
    <2> DEFINE gone == {room[mine[s]].seats[x].player : x \in Taken(mine[s])} \cup {PlayerOf[s]}
    <2>2. players' = [p \in PlayerId |-> IF p \in gone THEN NoRoom ELSE players[p]]
        BY DEF Forget
    <2>3. players' \in [PlayerId -> RoomId \cup {NoRoom}] /\ \A p \in PlayerId : players'[p] \in {players[p], NoRoom}
        BY <2>1, <2>2 DEF TypeOK
    <2> QED BY <2>1, <2>3 DEF Forget, Goto, closeVars
<1>2. \A t \in Session : t # s => pc'[t] = pc[t] /\ mine'[t] = mine[t]
    BY <1>1 DEF TypeOK
<1>3. pc'[s] = "done" /\ mine'[s] = NoRoom /\ mine[s] \in RoomId
    BY <1>1, DealtRoom DEF TypeOK
<1>4. TypeOK'
    BY <1>1 DEF TypeOK, Label
<1>5. LockIsHeld' /\ DealsWithRoom'
    BY <1>1, <1>2, <1>3 DEF Inductive, LockIsHeld, InJoin, DealsWithRoom, Idle
<1>6. RoomsCreated'
    <2>1. Started' = Started
        BY <1>1, StartedAlready
    <2>2. nextID \in Nat
        BY <1>1 DEF TypeOK
    <2>3. rooms' \cup closing' \subseteq 1..nextID' /\ waiting' \in 0..nextID'
        BY <1>1, <2>2 DEF Inductive, RoomsCreated, NoRoom
    <2>4. \A p \in PlayerId : players'[p] \in 0..nextID'
        BY <1>1, <2>2 DEF Inductive, RoomsCreated, NoRoom
    <2> QED BY <1>1, <2>1, <2>3, <2>4 DEF Inductive, RoomsCreated
<1>7. SeatsAreSound'
    BY <1>1, <1>2, <1>3 DEF Inductive, SeatsAreSound, SeatIsSound
<1>8. RoomsAreReached'
    <2>1. room[mine[s]].phase = "closed" /\ \A x \in Side : ~SeatConnected(mine[s], x)
        BY <1>1 DEF Inductive, EmptiedIsClosed
    <2>2. \A q \in RoomId, x \in Side : SeatConnected(q, x)' => q \in rooms' \cup closing'
        BY <1>1, <2>1 DEF Inductive, RoomsAreReached, SeatConnected
    <2>3. \A t \in Session : pc'[t] = "picked" =>
              mine'[t] \in rooms' \cup closing' \/ room'[mine'[t]].phase = "closed"
        BY <1>1, <1>2, <1>3, <2>1 DEF Inductive, RoomsAreReached
    <2> QED BY <2>2, <2>3 DEF RoomsAreReached
<1>9. EmptiedIsClosed' /\ IndexedSits'
    BY <1>1, <1>2, <1>3 DEF Inductive, EmptiedIsClosed, IndexedSits, SeatConnected, SitsIn
<1> QED BY <1>1, <1>4, <1>5, <1>6, <1>7, <1>8, <1>9, RoomsUntouched DEF Inductive

\* Close takes all rooms out of the map.
LEMMA CloseIsInductive == ASSUME Inductive, Close PROVE Inductive'
<1>1. /\ TypeOK
      /\ closes < MaxCloses /\ closes' = closes + 1
      /\ closing = {} /\ closing' = rooms /\ rooms' = {}
      /\ players' = [p \in PlayerId |-> NoRoom]
      /\ waiting' = NoRoom
      /\ UNCHANGED <<joinMu, nextID, room, channel, pc, mine, view>>
    BY DEF Inductive, Close, sessionVars
<1>2. TypeOK'
    <2>1. closes' \in 0..MaxCloses
        BY <1>1, MatchAssumption DEF TypeOK
    <2>2. players' \in [PlayerId -> RoomId \cup {NoRoom}]
        BY <1>1
    <2> QED BY <1>1, <2>1, <2>2 DEF TypeOK
<1>3. LockIsHeld' /\ DealsWithRoom'
    BY <1>1 DEF Inductive, LockIsHeld, DealsWithRoom
<1>4. RoomsCreated'
    <2>1. Started' = Started
        BY <1>1 DEF Started
    <2> QED BY <1>1, <2>1 DEF Inductive, RoomsCreated, TypeOK, NoRoom
<1>5. SeatsAreSound' /\ RoomsAreReached' /\ EmptiedIsClosed'
    BY <1>1 DEF Inductive, SeatsAreSound, SeatIsSound, RoomsAreReached, EmptiedIsClosed, SeatConnected
<1>6. IndexedSits'
    BY <1>1 DEF Inductive, IndexedSits, SitsIn
<1> QED BY <1>1, <1>2, <1>3, <1>4, <1>5, <1>6, RoomsUntouched DEF Inductive

-----------------------------------------------------------------------------
\* Taking a seat.

RoomState == [seats : [Side -> Seat], phase : RoomPhase, game : SomeGame]

\* The types of rooms and channels, by name.
LEMMA Types ==
    ASSUME TypeOK
    PROVE  /\ room \in [RoomId -> RoomState]
           /\ channel \in [Session -> ChannelState]
BY DEF TypeOK, RoomState, ChannelState, Event

\* The seat of a player who sits in the room is a seat of this player.
LEMMA SeatIsChosen ==
    ASSUME NEW r, NEW p, Seated(r, p)
    PROVE  SeatOf(r, p) \in Side /\ room[r].seats[SeatOf(r, p)].player = p
<1>1. SeatsOf(r, p) # {}
    BY DEF Seated
<1>2. SeatOf(r, p) \in SeatsOf(r, p)
    BY <1>1 DEF SeatOf
<1> QED BY <1>2 DEF SeatsOf

\* A seat is the record of its fields.
LEMMA SeatIsRecord ==
    ASSUME NEW seat \in Seat
    PROVE  seat = [player |-> seat.player, events |-> seat.events, connected |-> seat.connected]
BY DEF Seat

\* A seat with a new channel keeps its player.
LEMMA SeatUpdated ==
    ASSUME NEW seat \in Seat, NEW e \in Session \cup {Nobody}, NEW c \in BOOLEAN
    PROVE  [seat EXCEPT !.events = e, !.connected = c] =
               [player |-> seat.player, events |-> e, connected |-> c]
<1> DEFINE new == [seat EXCEPT !.events = e, !.connected = c]
<1>1. new \in Seat
    BY DEF Seat
<1>2. new.player = seat.player /\ new.events = e /\ new.connected = c
    BY DEF Seat
<1> HIDE DEF new
<1>3. new = [player |-> new.player, events |-> new.events, connected |-> new.connected]
    BY <1>1, SeatIsRecord
<1>4. new = [player |-> seat.player, events |-> e, connected |-> c]
    BY <1>2, <1>3
<1> QED BY <1>4 DEF new

\* A room with new seats and another phase.
Changed(r, seats, phase) == [room EXCEPT ![r].seats = seats, ![r].phase = phase]

\* A room with new seats and a new phase; the others stay.
LEMMA RoomChanged ==
    ASSUME TypeOK, NEW r \in RoomId, NEW seats \in [Side -> Seat], NEW phase \in RoomPhase
    PROVE  /\ Changed(r, seats, phase) \in [RoomId -> RoomState]
           /\ Changed(r, seats, phase)[r] =
                 [seats |-> seats, phase |-> phase, game |-> room[r].game]
           /\ \A q \in RoomId : q # r => Changed(r, seats, phase)[q] = room[q]
<1>1. room \in [RoomId -> RoomState] /\ room[r] \in RoomState
    BY Types
<1> DEFINE new == [room[r] EXCEPT !.seats = seats, !.phase = phase]
<1>2. Changed(r, seats, phase) = [room EXCEPT ![r] = new]
    BY <1>1 DEF Changed
<1>3. new \in RoomState
    BY <1>1 DEF RoomState
<1>4. new.seats = seats /\ new.phase = phase /\ new.game = room[r].game
    BY <1>1 DEF RoomState
<1> HIDE DEF new
<1>5. new = [seats |-> new.seats, phase |-> new.phase, game |-> new.game]
    BY <1>3 DEF RoomState
<1> QED BY <1>1, <1>2, <1>3, <1>4, <1>5

\* A session that was let in gets a seat that was disconnected.
TakesSeat(s, x) ==
    /\ pc[s] = "picked"
    /\ pc' = [pc EXCEPT ![s] = "joined"]
    /\ x \in Side
    /\ room[mine[s]].phase # "closed"
    /\ ~SeatConnected(mine[s], x)
    /\ room[mine[s]].seats[x].player \in {Nobody, PlayerOf[s]}
    /\ room'[mine[s]].seats[x] = [player |-> PlayerOf[s], events |-> s, connected |-> TRUE]
    /\ \A y \in Side : y # x => room'[mine[s]].seats[y] = room[mine[s]].seats[y]
    /\ \A q \in RoomId : q # mine[s] => room'[q] = room[q]
    /\ \A t \in Session : channel'[t].open <=> t = s \/ channel[t].open
    /\ UNCHANGED <<joinMu, rooms, players, waiting, nextID, closing, closes, mine, view>>

\* Its room is sound afterwards, and waits only if nobody sat there before.
SitsSoundly(s, x) ==
    /\ TakesSeat(s, x)
    /\ TypeOK'
    /\ PhaseIsSound(mine[s])'
    /\ room'[mine[s]].seats["light"].player # Nobody =>
          /\ room'[mine[s]].seats["dark"].player # Nobody
          /\ room'[mine[s]].seats["dark"].player # room'[mine[s]].seats["light"].player
    /\ room'[mine[s]].phase = "waiting" => \A y \in Side : ~SeatTaken(mine[s], y)

\* A session that sits down soundly keeps the invariant.
LEMMA TakesSeatKeeps ==
    ASSUME Inductive, NEW s \in Session, NEW x, SitsSoundly(s, x)
    PROVE  Inductive'
<1> DEFINE r == mine[s]
           p == PlayerOf[s]
<1> USE DEF TakesSeat, SitsSoundly
<1>0. r \in 1..nextID /\ r \in RoomId /\ TypeOK /\ p \in PlayerId /\ p # Nobody /\ s # Nobody
    BY DealtRoom, Constants DEF Inductive
<1>1. pc'[s] = "joined" /\ \A t \in Session : t # s => pc'[t] = pc[t]
    BY <1>0 DEF TypeOK
<1>2. \A q \in RoomId, y \in Side :
          IF q = r /\ y = x
          THEN room'[q].seats[y] = [player |-> p, events |-> s, connected |-> TRUE]
          ELSE room'[q].seats[y] = room[q].seats[y]
    BY <1>0
<1>3. \A q \in RoomId, y \in Side : room[q].seats[y].events # s
    BY <1>0 DEF Inductive, SeatsAreSound, SeatIsSound
<1>4. LockIsHeld' /\ DealsWithRoom'
    BY <1>0, <1>1 DEF Inductive, LockIsHeld, InJoin, DealsWithRoom, Idle
<1>5. RoomsCreated'
    <2>1. Started' = Started
        BY <1>0, StartedAlready
    <2>2. \A q \in RoomId : q > nextID => room'[q] = NewRoom
        BY <1>0 DEF Inductive, RoomsCreated, TypeOK
    <2> QED BY <2>1, <2>2 DEF Inductive, RoomsCreated
<1>6. SeatsAreSound'
    BY <1>1, <1>2, <1>3 DEF Inductive, SeatsAreSound, SeatIsSound
<1>7. SeatsInOrder'
    BY <1>0 DEF Inductive, SeatsInOrder
<1>8. OneWriter'
    <2> SUFFICES ASSUME NEW q1 \in RoomId, NEW q2 \in RoomId, NEW y1 \in Side, NEW y2 \in Side,
                        room'[q1].seats[y1].events # Nobody,
                        room'[q1].seats[y1].events = room'[q2].seats[y2].events
                 PROVE  q1 = q2 /\ y1 = y2
        BY DEF OneWriter
    <2>1. \A q \in RoomId, y \in Side :
              room'[q].seats[y].events = IF q = r /\ y = x THEN s ELSE room[q].seats[y].events
        BY <1>2
    <2> QED BY <1>3, <2>1 DEF Inductive, OneWriter
<1>9. OpenHasWriter'
    <2>1. ASSUME NEW t \in Session
          PROVE  channel'[t].open <=> \E q \in RoomId, y \in Side : room'[q].seats[y].events = t
        <3>1. CASE t = s
            BY <1>0, <1>2, <3>1
        <3>2. CASE t # s
            <4>1. room[r].seats[x].events = Nobody
                BY <1>0 DEF Inductive, SeatsAreSound, SeatIsSound, SeatConnected
            <4>2. \A q \in RoomId, y \in Side : room'[q].seats[y].events = t <=> room[q].seats[y].events = t
                BY <1>0, <1>2, <3>2, <4>1, Constants
            <4> QED BY <3>2, <4>2 DEF Inductive, OpenHasWriter
        <3> QED BY <3>1, <3>2
    <2> QED BY <2>1 DEF OpenHasWriter
<1>10. PhasesAreSound'
    BY <1>0 DEF Inductive, PhasesAreSound, PhaseIsSound, SeatTaken, SeatConnected
<1>11. RoomsAreReached'
    <2>1. r \in rooms \cup closing
        BY DEF Inductive, RoomsAreReached
    <2>2. \A q \in RoomId, y \in Side : SeatConnected(q, y)' => q \in rooms \cup closing
        BY <1>2, <2>1 DEF Inductive, RoomsAreReached, SeatConnected
    <2>3. \A t \in Session : pc'[t] # "picked"
        BY <1>1 DEF Inductive, LockIsHeld, InJoin
    <2> QED BY <2>2, <2>3 DEF RoomsAreReached
<1>12. EmptiedIsClosed'
    <2>1. ASSUME NEW t \in Session, pc'[t] = "emptied"
          PROVE  room'[mine[t]].phase = "closed" /\ \A y \in Side : ~SeatConnected(mine[t], y)'
        <3>1. pc[t] = "emptied" /\ room[mine[t]].phase = "closed"
            BY <1>1, <2>1 DEF Inductive, EmptiedIsClosed
        <3>2. mine[t] \in RoomId /\ mine[t] # r
            BY <3>1, DealtRoom
        <3> QED BY <3>1, <3>2 DEF Inductive, EmptiedIsClosed, SeatConnected
    <2> QED BY <2>1 DEF EmptiedIsClosed
<1>13. IndexedSits'
    <2>1. \A q \in RoomId, o \in PlayerId : SitsIn(q, o) => SitsIn(q, o)'
        BY <1>0, <1>2, Constants DEF SitsIn
    <2>2. SitsIn(r, p)'
        BY <1>0, <1>2 DEF SitsIn
    <2>3. \A o \in PlayerId : players[o] # NoRoom => players[o] \in RoomId
        BY <1>0 DEF TypeOK
    <2>4. \A t \in Session : pc[t] \in {"joined", "leaving", "emptied"} => mine[t] \in RoomId
        BY DealtRoom
    <2>5. \A o \in PlayerId : players[o] # NoRoom => SitsIn(players[o], o)'
        BY <2>1, <2>3 DEF Inductive, IndexedSits
    <2>6. \A t \in Session : pc'[t] \in {"joined", "leaving", "emptied"} => SitsIn(mine[t], PlayerOf[t])'
        BY <1>1, <2>1, <2>2, <2>4, Constants DEF Inductive, IndexedSits
    <2> QED BY <2>5, <2>6 DEF IndexedSits, SitsIn
<1> QED BY <1>4, <1>5, <1>6, <1>7, <1>8, <1>9, <1>10, <1>11, <1>12, <1>13 DEF Inductive

\* A player who comes back sits down soundly.
LEMMA ReconnectSits ==
    ASSUME Inductive, NEW s \in Session, Reconnect(s)
    PROVE  \E x \in Side : SitsSoundly(s, x)
<1> DEFINE r     == mine[s]
           p     == PlayerOf[s]
           x     == SeatOf(r, p)
           seats == [room[r].seats EXCEPT ![x].events = s, ![x].connected = TRUE]
           both  == Taken(r) = Side /\ ConnectedIn(seats) = Side
           phase == IF room[r].phase = "suspended" /\ both THEN "playing" ELSE room[r].phase
           fresh == [channel EXCEPT ![s] = NewChannel]
           told  == Deliver(fresh, {s}, "state", room[r].game)
<1>0. TypeOK /\ pc[s] = "picked" /\ pc' = [pc EXCEPT ![s] = "joined"]
    BY DEF Inductive, Reconnect, Goto
<1>1. r \in RoomId /\ p \in PlayerId
    BY <1>0, DealtRoom, Constants
<1>2. room[r] \in RoomState /\ \A y \in Side : room[r].seats[y] \in Seat
    BY <1>0, <1>1, Types DEF RoomState
<1>3. Seated(r, p) /\ LetsIn(r, p)
    BY DEF Reconnect
<1>4. x \in Side /\ room[r].seats[x].player = p
    BY <1>3, SeatIsChosen
<1>5. room[r].phase # "closed" /\ ~room[r].seats[x].connected
    BY <1>3 DEF LetsIn
<1>6. /\ room[r].phase = "suspended"
      /\ \A y \in Side : y # x => room[r].seats[y].connected
      /\ \A y \in Side : room[r].seats[y].player # Nobody
      /\ room[r].game.phase = "playing" /\ room[r].game.turn < LastTurn
    <2>1. PhaseIsSound(r)
        BY <1>1 DEF Inductive, PhasesAreSound
    <2>2. room[r].phase \in RoomPhase
        BY <1>2 DEF RoomState
    <2>3. room[r].phase = "suspended"
        BY <1>1, <1>4, <1>5, <2>1, <2>2, Constants DEF PhaseIsSound, RoomPhase, SeatConnected, SeatTaken
    <2> QED BY <1>4, <1>5, <2>1, <2>3, Constants DEF PhaseIsSound, SeatConnected, SeatTaken
<1>7. /\ seats[x] = [player |-> p, events |-> s, connected |-> TRUE]
      /\ \A y \in Side : y # x => seats[y] = room[r].seats[y]
      /\ seats \in [Side -> Seat]
    <2>1. room[r].seats \in [Side -> Seat] /\ room[r].seats[x] \in Seat
        BY <1>2, <1>4 DEF RoomState
    <2>2. seats = [room[r].seats EXCEPT ![x] = [room[r].seats[x] EXCEPT !.events = s, !.connected = TRUE]]
        BY <1>4, <2>1
    <2>3. [room[r].seats[x] EXCEPT !.events = s, !.connected = TRUE] =
              [player |-> p, events |-> s, connected |-> TRUE]
        BY <1>4, <2>1, SeatUpdated
    <2>4. [player |-> p, events |-> s, connected |-> TRUE] \in Seat
        BY <1>1 DEF Seat
    <2>5. seats = [room[r].seats EXCEPT ![x] = [player |-> p, events |-> s, connected |-> TRUE]]
        BY <2>2, <2>3
    <2> HIDE DEF seats
    <2> QED BY <1>4, <2>1, <2>4, <2>5
<1>8. both /\ phase = "playing"
    <2> HIDE DEF seats
    <2>1. \A y \in Side : seats[y].connected
        BY <1>6, <1>7
    <2> QED BY <1>6, <2>1 DEF Taken, ConnectedIn
<1>9. room' = [room EXCEPT ![r] = [seats |-> seats, phase |-> "playing", game |-> room[r].game]]
    <2>1. room' = [room EXCEPT ![r].seats = seats, ![r].phase = IF @ = "suspended" /\ both THEN "playing" ELSE @]
        BY DEF Reconnect
    <2> HIDE DEF seats, both
    <2>2. room \in [RoomId -> RoomState]
        BY <1>0, Types
    <2> QED BY <1>1, <1>6, <1>8, <2>1, <2>2 DEF RoomState
<1>10. channel' \in [Session -> ChannelState] /\ \A t \in Session : channel'[t].open <=> t = s \/ channel[t].open
    <2>1. channel \in [Session -> ChannelState] /\ NewChannel \in ChannelState /\ NewChannel.open = TRUE
        BY <1>0, Types DEF NewChannel, ChannelState
    <2>2. fresh \in [Session -> ChannelState] /\ \A t \in Session : fresh[t].open <=> t = s \/ channel[t].open
        BY <2>1
    <2>3. room[r].game \in SomeGame /\ "state" \in EventType /\ "opponentReturned" \in EventType
        BY <1>2 DEF RoomState, EventType
    <2>4. told \in [Session -> ChannelState] /\ \A t \in Session : told[t].open = fresh[t].open
        BY <2>2, <2>3, DeliverKeepsOpen
    <2> DEFINE others == Listeners(seats) \ {s}
    <2>5. channel' = Deliver(told, others, "opponentReturned", room[r].game)
        BY DEF Reconnect
    <2> HIDE DEF told, fresh, others
    <2>7. ASSUME NEW g \in SomeGame
          PROVE  /\ Deliver(told, others, "opponentReturned", g) \in [Session -> ChannelState]
                 /\ \A t \in Session : Deliver(told, others, "opponentReturned", g)[t].open = told[t].open
        BY <2>3, <2>4, DeliverKeepsOpen
    <2>6. channel' \in [Session -> ChannelState] /\ \A t \in Session : channel'[t].open = told[t].open
        BY <2>3, <2>5, <2>7
    <2> QED BY <2>2, <2>4, <2>6
<1> HIDE DEF seats, both, told, fresh
<1>11. UNCHANGED <<joinMu, rooms, players, waiting, nextID, closing, closes, mine, view>>
    BY DEF Reconnect, managerVars, closeVars
<1>12. room'[r] = [seats |-> seats, phase |-> "playing", game |-> room[r].game] /\ \A q \in RoomId : q # r => room'[q] = room[q]
    BY <1>0, <1>1, <1>9 DEF TypeOK
<1>13. TakesSeat(s, x)
    BY <1>0, <1>1, <1>4, <1>5, <1>7, <1>10, <1>11, <1>12 DEF TakesSeat, SeatConnected
<1>14. TypeOK'
    <2>1. [seats |-> seats, phase |-> "playing", game |-> room[r].game] \in RoomState
        BY <1>2, <1>7 DEF RoomState, RoomPhase
    <2>2. room' \in [RoomId -> RoomState]
        BY <1>0, <1>9, <2>1, Types
    <2>3. pc' \in [Session -> Label]
        BY <1>0 DEF TypeOK, Label
    <2> QED BY <1>0, <1>10, <1>11, <2>2, <2>3 DEF TypeOK, RoomState, ChannelState, Event
<1>15. PhaseIsSound(mine[s])'
    BY <1>6, <1>7, <1>11, <1>12 DEF PhaseIsSound, SeatTaken, SeatConnected
<1>16. room'[r].seats["light"].player # Nobody =>
           /\ room'[r].seats["dark"].player # Nobody
           /\ room'[r].seats["dark"].player # room'[r].seats["light"].player
    <2>1. \A y \in Side : room'[r].seats[y].player = room[r].seats[y].player
        BY <1>4, <1>7, <1>12
    <2> QED BY <1>1, <2>1, Constants DEF Inductive, SeatsInOrder
<1>17. SitsSoundly(s, x)
    BY <1>12, <1>13, <1>14, <1>15, <1>16 DEF SitsSoundly
<1> QED BY <1>4, <1>17

\* A new channel is open, whatever is sent to it at once.
LEMMA FreshChannelOpens ==
    ASSUME TypeOK, NEW s \in Session, NEW to, NEW type \in EventType, NEW game \in SomeGame
    PROVE  /\ Deliver([channel EXCEPT ![s] = NewChannel], to, type, game) \in [Session -> ChannelState]
           /\ \A t \in Session :
                 Deliver([channel EXCEPT ![s] = NewChannel], to, type, game)[t].open
                     <=> t = s \/ channel[t].open
<1> DEFINE fresh == [channel EXCEPT ![s] = NewChannel]
<1>1. channel \in [Session -> ChannelState] /\ NewChannel \in ChannelState /\ NewChannel.open = TRUE
    BY Types DEF NewChannel, ChannelState
<1>2. fresh \in [Session -> ChannelState] /\ \A t \in Session : fresh[t].open <=> t = s \/ channel[t].open
    BY <1>1
<1> HIDE DEF fresh
<1>3. /\ Deliver(fresh, to, type, game) \in [Session -> ChannelState]
      /\ \A t \in Session : Deliver(fresh, to, type, game)[t].open = fresh[t].open
    BY <1>2, DeliverKeepsOpen
<1>4. /\ Deliver(fresh, to, type, game) \in [Session -> ChannelState]
      /\ \A t \in Session : Deliver(fresh, to, type, game)[t].open <=> t = s \/ channel[t].open
    BY <1>2, <1>3
<1> QED BY <1>4 DEF fresh

\* A player who is new to a room finds it waiting, with a seat that is free.
LEMMA SitsDown ==
    ASSUME Inductive, NEW s \in Session, Sits(s)
    PROVE  /\ mine[s] \in RoomId /\ PlayerOf[s] \in PlayerId
           /\ room[mine[s]].phase = "waiting" /\ room[mine[s]].game = NoGame
           /\ ~SeatTaken(mine[s], "light")
           /\ \A y \in Side : SeatConnected(mine[s], y) <=> SeatTaken(mine[s], y)
           /\ \A y \in Side : room[mine[s]].seats[y].player # PlayerOf[s]
           /\ Taken(mine[s]) = {} <=> ~SeatTaken(mine[s], "dark")
           /\ OpenSeat(mine[s]) = IF SeatTaken(mine[s], "dark") THEN "light" ELSE "dark"
           /\ SeatsWith(s) \in [Side -> Seat]
           /\ SeatsWith(s)[OpenSeat(mine[s])] =
                 [player |-> PlayerOf[s], events |-> s, connected |-> TRUE]
           /\ \A y \in Side : y # OpenSeat(mine[s]) => SeatsWith(s)[y] = room[mine[s]].seats[y]
<1> DEFINE r == mine[s]
           p == PlayerOf[s]
           x == OpenSeat(r)
<1>1. TypeOK /\ pc[s] = "picked" /\ LetsIn(r, p) /\ ~Seated(r, p)
    BY DEF Inductive, Sits
<1>2. r \in RoomId /\ p \in PlayerId
    BY <1>1, DealtRoom, Constants
<1>3. room[r] \in RoomState /\ room[r].seats \in [Side -> Seat] /\ room[r].phase \in RoomPhase
    BY <1>1, <1>2, Types DEF RoomState
<1>4. room[r].phase # "closed" /\ Taken(r) # Side
    BY <1>1 DEF LetsIn
<1>5. \A y \in Side : room[r].seats[y].player # p
    BY <1>1 DEF Seated, SeatsOf
<1>6. PhaseIsSound(r)
    BY <1>2 DEF Inductive, PhasesAreSound
<1>7. \A y \in Side : SeatConnected(r, y) => SeatTaken(r, y)
    BY <1>2, Constants DEF Inductive, SeatsAreSound, SeatIsSound, SeatConnected, SeatTaken
<1>8. room[r].phase = "waiting"
    BY <1>3, <1>4, <1>6, <1>7 DEF PhaseIsSound, RoomPhase, Taken, SeatTaken
<1>9. Taken(r) = {} <=> ~SeatTaken(r, "dark")
    BY <1>6, <1>8, Constants DEF PhaseIsSound, Taken, SeatTaken
<1>10. x = IF SeatTaken(r, "dark") THEN "light" ELSE "dark"
    BY Constants DEF OpenSeat, Taken, SeatTaken
<1>11. SeatsWith(s) = [room[r].seats EXCEPT ![x] = [player |-> p, events |-> s, connected |-> TRUE]]
    BY DEF SeatsWith
<1>12. [player |-> p, events |-> s, connected |-> TRUE] \in Seat /\ x \in Side
    BY <1>2, <1>10, Constants DEF Seat
<1>13. /\ SeatsWith(s) \in [Side -> Seat]
       /\ SeatsWith(s)[x] = [player |-> p, events |-> s, connected |-> TRUE]
       /\ \A y \in Side : y # x => SeatsWith(s)[y] = room[r].seats[y]
    <2> HIDE DEF x
    <2> QED BY <1>3, <1>11, <1>12
<1> QED BY <1>2, <1>5, <1>6, <1>8, <1>9, <1>10, <1>13 DEF PhaseIsSound

\* The first player sits down soundly.
LEMMA TakeFirstSeatSits ==
    ASSUME Inductive, NEW s \in Session, TakeFirstSeat(s)
    PROVE  \E x \in Side : SitsSoundly(s, x)
<1> DEFINE r == mine[s]
           p == PlayerOf[s]
<1>1. TypeOK /\ Sits(s) /\ Taken(r) = {}
    BY DEF Inductive, TakeFirstSeat
<1>2. /\ r \in RoomId /\ p \in PlayerId
      /\ room[r].phase = "waiting" /\ room[r].game = NoGame
      /\ room[r].seats["dark"].player = Nobody /\ ~SeatConnected(r, "dark")
      /\ room[r].seats["light"].player = Nobody /\ ~SeatConnected(r, "light")
      /\ SeatsWith(s) \in [Side -> Seat]
      /\ SeatsWith(s)["dark"] = [player |-> p, events |-> s, connected |-> TRUE]
      /\ SeatsWith(s)["light"] = room[r].seats["light"]
    BY <1>1, SitsDown, Constants DEF SeatTaken
<1>3. pc[s] = "picked" /\ pc' = [pc EXCEPT ![s] = "joined"]
    BY DEF TakeFirstSeat, Goto
<1>4. UNCHANGED <<joinMu, rooms, players, waiting, nextID, closing, closes, mine, view>>
    BY DEF TakeFirstSeat, managerVars, closeVars
<1>5. room' = Changed(r, SeatsWith(s), "waiting") /\ "waiting" \in RoomPhase
    BY DEF TakeFirstSeat, Changed, RoomPhase
<1>6. /\ room' \in [RoomId -> RoomState]
      /\ room'[r] = [seats |-> SeatsWith(s), phase |-> "waiting", game |-> room[r].game]
      /\ \A q \in RoomId : q # r => room'[q] = room[q]
    BY <1>1, <1>2, <1>5, RoomChanged
<1>7. channel' \in [Session -> ChannelState] /\ \A t \in Session : channel'[t].open <=> t = s \/ channel[t].open
    <2>1. channel' = Deliver([channel EXCEPT ![s] = NewChannel], {s}, "waiting", NoGame)
        BY DEF TakeFirstSeat
    <2>2. "waiting" \in EventType /\ NoGame \in SomeGame
        BY DEF EventType, SomeGame
    <2> QED BY <1>1, <2>1, <2>2, FreshChannelOpens
<1>8. TakesSeat(s, "dark")
    BY <1>2, <1>3, <1>4, <1>6, <1>7, Constants DEF TakesSeat
<1>9. TypeOK'
    <2>3. pc' \in [Session -> Label]
        BY <1>1, <1>3 DEF TypeOK, Label
    <2> QED BY <1>1, <1>4, <1>6, <1>7, <2>3 DEF TypeOK, RoomState, ChannelState, Event
<1>10. PhaseIsSound(mine[s])'
    BY <1>2, <1>4, <1>6, Constants DEF PhaseIsSound, SeatTaken, SeatConnected, NoGame
<1>11. room'[r].seats["light"].player = Nobody
    BY <1>2, <1>6, Constants
<1>12. room'[r].phase = "waiting" => \A y \in Side : ~SeatTaken(r, y)
    BY <1>2, <1>6, Constants DEF SeatTaken
<1>13. SitsSoundly(s, "dark")
    BY <1>8, <1>9, <1>10, <1>11, <1>12 DEF SitsSoundly
<1> QED BY <1>13, Constants

\* The second player sits down soundly.
LEMMA StartMatchSits ==
    ASSUME Inductive, NEW s \in Session, StartMatch(s)
    PROVE  \E x \in Side : SitsSoundly(s, x)
<1> DEFINE r == mine[s]
           p == PlayerOf[s]
<1>1. TypeOK /\ Sits(s) /\ Taken(r) # {}
    BY DEF Inductive, StartMatch
<1>2. /\ r \in RoomId /\ p \in PlayerId
      /\ room[r].phase = "waiting"
      /\ room[r].seats["dark"].player \notin {Nobody, p} /\ SeatConnected(r, "dark")
      /\ room[r].seats["light"].player = Nobody /\ ~SeatConnected(r, "light")
      /\ SeatsWith(s) \in [Side -> Seat]
      /\ SeatsWith(s)["light"] = [player |-> p, events |-> s, connected |-> TRUE]
      /\ SeatsWith(s)["dark"] = room[r].seats["dark"]
    BY <1>1, SitsDown, Constants DEF SeatTaken
<1>3. pc[s] = "picked" /\ pc' = [pc EXCEPT ![s] = "joined"]
    BY DEF StartMatch, Goto
<1>4. UNCHANGED <<joinMu, rooms, players, waiting, nextID, closing, closes, mine, view>>
    BY DEF StartMatch, managerVars, closeVars
<1>5. room' = [room EXCEPT ![r] = [seats |-> SeatsWith(s), phase |-> "playing", game |-> NewGame]]
    BY DEF StartMatch
<1>6. room'[r] = [seats |-> SeatsWith(s), phase |-> "playing", game |-> NewGame] /\ \A q \in RoomId : q # r => room'[q] = room[q]
    BY <1>1, <1>2, <1>5 DEF TypeOK
<1>7. channel' \in [Session -> ChannelState] /\ \A t \in Session : channel'[t].open <=> t = s \/ channel[t].open
    <2>1. channel' = Deliver([channel EXCEPT ![s] = NewChannel], Listeners(SeatsWith(s)), "matched", NewGame)
        BY DEF StartMatch
    <2>2. "matched" \in EventType /\ NewGame \in SomeGame
        BY Constants DEF EventType, SomeGame
    <2> QED BY <1>1, <2>1, <2>2, FreshChannelOpens
<1>8. TakesSeat(s, "light")
    BY <1>2, <1>3, <1>4, <1>6, <1>7, Constants DEF TakesSeat
<1>9. TypeOK'
    <2>1. [seats |-> SeatsWith(s), phase |-> "playing", game |-> NewGame] \in RoomState
        BY <1>2, Constants DEF RoomState, RoomPhase, SomeGame
    <2>2. room' \in [RoomId -> RoomState]
        BY <1>1, <1>2, <1>5, <2>1, Types
    <2>3. pc' \in [Session -> Label]
        BY <1>1, <1>3 DEF TypeOK, Label
    <2> QED BY <1>1, <1>4, <1>7, <2>2, <2>3 DEF TypeOK, RoomState, ChannelState, Event
<1>10. PhaseIsSound(mine[s])'
    BY <1>2, <1>4, <1>6, Constants, LastTurnAssumption DEF PhaseIsSound, SeatTaken, SeatConnected, NewGame
<1>11. /\ room'[r].seats["dark"].player # Nobody
       /\ room'[r].seats["dark"].player # room'[r].seats["light"].player
    BY <1>2, <1>6, Constants
<1>12. room'[r].phase = "waiting" => \A y \in Side : ~SeatTaken(r, y)
    BY <1>2, <1>6, Constants DEF SeatTaken
<1>13. SitsSoundly(s, "light")
    BY <1>8, <1>9, <1>10, <1>11, <1>12 DEF SitsSoundly
<1> QED BY <1>13, Constants

-----------------------------------------------------------------------------
\* Playing.

\* A game that is on can take another turn.
LEMMA AdvanceKeeps ==
    ASSUME NEW g \in Game, g.phase = "playing", g.turn < LastTurn
    PROVE  /\ Advance(g) \in Game
           /\ Advance(g).phase = "playing" => Advance(g).turn < LastTurn
           /\ Advance(g) # NoGame
<1>1. g.turn \in Nat /\ g.turn + 1 \in 0..LastTurn /\ Opponent(g.player) \in Side
    BY LastTurnAssumption DEF Game, Opponent, Side
<1> QED BY <1>1, LastTurnAssumption DEF Advance, Game, NoGame

\* Announcing a state neither opens nor closes a channel.
LEMMA AnnouncedKeepsOpen ==
    ASSUME TypeOK, NEW r, NEW game \in SomeGame
    PROVE  /\ Announced(r, game) \in [Session -> ChannelState]
           /\ \A t \in Session : Announced(r, game)[t].open = channel[t].open
<1> DEFINE to == Listeners(room[r].seats)
           told == Deliver(channel, to, "state", game)
<1>1. channel \in [Session -> ChannelState] /\ "state" \in EventType /\ "closed" \in EventType
    BY Types DEF EventType
<1> HIDE DEF to
<1>2. told \in [Session -> ChannelState] /\ \A t \in Session : told[t].open = channel[t].open
    BY <1>1, DeliverKeepsOpen
<1> HIDE DEF told
<1>3. /\ Deliver(told, to, "closed", game) \in [Session -> ChannelState]
      /\ \A t \in Session : Deliver(told, to, "closed", game)[t].open = told[t].open
    BY <1>1, <1>2, DeliverKeepsOpen
<1>4. Announced(r, game) = IF game.phase = "finished" THEN Deliver(told, to, "closed", game) ELSE told
    BY DEF Announced, told, to
<1> QED BY <1>2, <1>3, <1>4

\* What an accepted command does to its room.
LEMMA AcceptAdvances ==
    ASSUME Inductive, NEW s \in Session, Accept(s)
    PROVE  LET r   == mine[s]
               new == Advance(room[r].game)
           IN  /\ r \in RoomId
               /\ room[r].game \in Game /\ room[r].game # NoGame
               /\ room[r].game.phase = "playing" /\ room[r].game.turn < LastTurn
               /\ room[r].phase \in {"playing", "suspended"}
               /\ new \in Game /\ new # NoGame
               /\ new.phase = "playing" => new.turn < LastTurn
               /\ room' \in [RoomId -> RoomState]
               /\ room'[r].seats = room[r].seats
               /\ room'[r].game = new
               /\ room'[r].phase = IF new.phase = "finished" THEN "closed" ELSE room[r].phase
               /\ \A q \in RoomId : q # r => room'[q] = room[q]
<1> DEFINE r   == mine[s]
           g   == room[r].game
           new == Advance(g)
           ph  == IF new.phase = "finished" THEN "closed" ELSE room[r].phase
<1>1. TypeOK /\ pc[s] = "submitting" /\ room[r].phase # "closed" /\ g # NoGame /\ g.phase = "playing"
    BY DEF Inductive, Accept, Goto, Due
<1>2. r \in RoomId
    BY <1>1, DealtRoom
<1>3. room \in [RoomId -> RoomState] /\ room[r] \in RoomState
    BY <1>1, <1>2, Types
<1>4. g \in Game /\ room[r].phase \in RoomPhase
    BY <1>1, <1>3 DEF RoomState, SomeGame
<1>5. PhaseIsSound(r)
    BY <1>2 DEF Inductive, PhasesAreSound
<1>6. g.turn < LastTurn /\ room[r].phase \in {"playing", "suspended"}
    BY <1>1, <1>4, <1>5 DEF PhaseIsSound, RoomPhase
<1>7. new \in Game /\ new # NoGame /\ (new.phase = "playing" => new.turn < LastTurn)
    BY <1>1, <1>4, <1>6, AdvanceKeeps
<1>8. room' = [room EXCEPT ![r].game = new, ![r].phase = IF new.phase = "finished" THEN "closed" ELSE @]
    BY DEF Accept
<1> HIDE DEF new
<1>9. room' = [room EXCEPT ![r] = [room[r] EXCEPT !.game = new, !.phase = ph]]
    BY <1>2, <1>3, <1>8
<1>10. [room[r] EXCEPT !.game = new, !.phase = ph] \in RoomState
    BY <1>3, <1>4, <1>7 DEF RoomState, RoomPhase, SomeGame
<1>11. /\ room' \in [RoomId -> RoomState]
       /\ room'[r].seats = room[r].seats /\ room'[r].game = new /\ room'[r].phase = ph
       /\ \A q \in RoomId : q # r => room'[q] = room[q]
    BY <1>2, <1>3, <1>9, <1>10 DEF RoomState
<1> QED BY <1>1, <1>2, <1>4, <1>6, <1>7, <1>11 DEF new

\* An accepted command advances the game and may end it.
LEMMA AcceptIsInductive ==
    ASSUME Inductive, NEW s \in Session, Accept(s)
    PROVE  Inductive'
<1> DEFINE r   == mine[s]
           new == Advance(room[r].game)
<1>1. /\ TypeOK /\ pc[s] = "submitting" /\ pc' = [pc EXCEPT ![s] = "serving"]
      /\ UNCHANGED <<joinMu, rooms, players, waiting, nextID, closing, closes, mine, view>>
      /\ channel' = Announced(r, new)
    BY DEF Inductive, Accept, Goto, managerVars, closeVars
<1>2. /\ r \in RoomId
      /\ room[r].phase \in {"playing", "suspended"}
      /\ new \in Game
      /\ new.phase = "playing" => new.turn < LastTurn
      /\ room' \in [RoomId -> RoomState]
      /\ room'[r].seats = room[r].seats
      /\ room'[r].game = new
      /\ room'[r].phase = IF new.phase = "finished" THEN "closed" ELSE room[r].phase
      /\ \A q \in RoomId : q # r => room'[q] = room[q]
    BY AcceptAdvances
<1> HIDE DEF new
<1>3. channel' \in [Session -> ChannelState] /\ \A t \in Session : channel'[t].open = channel[t].open
    BY <1>1, <1>2, AnnouncedKeepsOpen DEF SomeGame
<1>4. pc'[s] = "serving" /\ \A t \in Session : t # s => pc'[t] = pc[t]
    BY <1>1 DEF TypeOK
<1>5. \A q \in RoomId : room'[q].seats = room[q].seats /\ (room[q].phase = "closed" => room'[q].phase = "closed")
    BY <1>2
<1>6. TypeOK'
    <2>1. pc' \in [Session -> Label]
        BY <1>1 DEF TypeOK, Label
    <2> QED BY <1>1, <1>2, <1>3, <2>1 DEF TypeOK, RoomState, ChannelState, Event
<1>7. LockIsHeld' /\ DealsWithRoom'
    BY <1>1, <1>4 DEF Inductive, LockIsHeld, InJoin, DealsWithRoom, Idle
<1>8. RoomsCreated'
    <2>1. Started' = Started
        BY <1>1, StartedAlready
    <2>2. r \in 1..nextID
        BY <1>1, DealtRoom
    <2>3. \A q \in RoomId : q > nextID => room'[q] = NewRoom
        BY <1>1, <1>2, <2>2 DEF Inductive, RoomsCreated, TypeOK
    <2> QED BY <1>1, <2>1, <2>3 DEF Inductive, RoomsCreated
<1>9. SeatsAreSound' /\ SeatsInOrder' /\ OneWriter'
    BY <1>4, <1>5 DEF Inductive, SeatsAreSound, SeatIsSound, SeatsInOrder, OneWriter
<1>10. OpenHasWriter'
    BY <1>3, <1>5 DEF Inductive, OpenHasWriter
<1>11. PhasesAreSound'
    <2>1. PhaseIsSound(r)'
        <3>1. new.phase \in {"playing", "finished"}
            BY <1>2 DEF Game
        <3>2. PhaseIsSound(r)
            BY <1>2 DEF Inductive, PhasesAreSound
        <3> QED BY <1>1, <1>2, <3>1, <3>2 DEF PhaseIsSound, SeatTaken, SeatConnected
    <2>2. \A q \in RoomId : q # r => PhaseIsSound(q)'
        BY <1>2 DEF Inductive, PhasesAreSound, PhaseIsSound, SeatTaken, SeatConnected
    <2> QED BY <1>1, <2>1, <2>2 DEF PhasesAreSound
<1>12. RoomsAreReached'
    <2>1. \A t \in Session : pc'[t] = "picked" => pc[t] = "picked" /\ mine[t] \in RoomId
        BY <1>4, DealtRoom
    <2> QED BY <1>1, <1>5, <2>1 DEF Inductive, RoomsAreReached, SeatConnected
<1>13. EmptiedIsClosed'
    <2>1. \A t \in Session : pc'[t] = "emptied" => pc[t] = "emptied" /\ mine[t] \in RoomId
        BY <1>4, DealtRoom
    <2> QED BY <1>1, <1>5, <2>1 DEF Inductive, EmptiedIsClosed, SeatConnected
<1>14. IndexedSits'
    <2>1. \A q \in RoomId : \A o : SitsIn(q, o) <=> SitsIn(q, o)'
        BY <1>5 DEF SitsIn
    <2>2. \A t \in Session : pc'[t] \in {"joined", "leaving", "emptied"} => pc[t] = pc'[t] /\ mine[t] \in RoomId
        BY <1>4, DealtRoom
    <2>3. \A o \in PlayerId : players[o] # NoRoom => players[o] \in RoomId
        BY <1>1 DEF TypeOK
    <2>4. \A o \in PlayerId : players[o] # NoRoom => SitsIn(players[o], o)'
        BY <1>1, <2>1, <2>3 DEF Inductive, IndexedSits
    <2>5. \A t \in Session : pc'[t] \in {"joined", "leaving", "emptied"} => SitsIn(mine[t], PlayerOf[t])'
        BY <1>1, <2>1, <2>2 DEF Inductive, IndexedSits
    <2> QED BY <1>1, <2>4, <2>5 DEF IndexedSits
<1> QED BY <1>6, <1>7, <1>8, <1>9, <1>10, <1>11, <1>12, <1>13, <1>14 DEF Inductive

-----------------------------------------------------------------------------
\* Leaving a room and closing it.

\* A seat that was given up keeps its player.
LEMMA SeatDisconnected ==
    ASSUME NEW seat \in Seat
    PROVE  /\ Disconnected(seat) = [player |-> seat.player, events |-> Nobody, connected |-> FALSE]
           /\ Disconnected(seat) \in Seat
<1> DEFINE new == [seat EXCEPT !.connected = FALSE, !.events = Nobody]
<1>1. new \in Seat
    BY DEF Seat
<1>2. new.player = seat.player /\ new.events = Nobody /\ new.connected = FALSE
    BY DEF Seat
<1>3. Disconnected(seat) = new
    BY DEF Disconnected
<1> HIDE DEF new
<1>4. new = [player |-> new.player, events |-> new.events, connected |-> new.connected]
    BY <1>1, SeatIsRecord
<1> QED BY <1>1, <1>2, <1>3, <1>4

\* The seats V of a room are disconnected and their channels closed; its game
\* stays, and a closed room stays closed.
Vacates(r, V) ==
    /\ r \in RoomId
    /\ \A y \in Side :
          IF y \in V
          THEN room'[r].seats[y] = [player    |-> room[r].seats[y].player,
                                    events    |-> Nobody,
                                    connected |-> FALSE]
          ELSE room'[r].seats[y] = room[r].seats[y]
    /\ room'[r].game = room[r].game
    /\ room[r].phase = "closed" => room'[r].phase = "closed"
    /\ \A q \in RoomId : q # r => room'[q] = room[q]
    /\ \A t \in Session :
          channel'[t].open <=> channel[t].open /\ \A y \in V : room[r].seats[y].events # t

\* Giving up seats keeps what the invariant says of seats and channels.
LEMMA VacatesKeeps ==
    ASSUME Inductive, NEW r, NEW V \in SUBSET Side, Vacates(r, V), PhaseIsSound(r)',
           \A t \in Session : pc'[t] = pc[t] \/ pc'[t] \in {"emptied", "done"}
    PROVE  /\ SeatsAreSound' /\ SeatsInOrder' /\ OneWriter' /\ OpenHasWriter' /\ PhasesAreSound'
           /\ \A q \in RoomId : \A o : SitsIn(q, o) <=> (\E y \in Side : room'[q].seats[y].player = o)
           /\ \A q \in RoomId, y \in Side : room'[q].seats[y].connected => room[q].seats[y].connected
           /\ \A q \in RoomId : room[q].phase = "closed" => room'[q].phase = "closed"
<1>1. \A q \in RoomId, y \in Side :
          IF q = r /\ y \in V
          THEN room'[q].seats[y] = [player    |-> room[q].seats[y].player,
                                    events    |-> Nobody,
                                    connected |-> FALSE]
          ELSE room'[q].seats[y] = room[q].seats[y]
    BY DEF Vacates
<1>2. \A q \in RoomId, y \in Side :
          /\ room'[q].seats[y].player = room[q].seats[y].player
          /\ room'[q].seats[y].events = IF q = r /\ y \in V THEN Nobody ELSE room[q].seats[y].events
          /\ room'[q].seats[y].connected => room[q].seats[y].connected
    <2> TAKE q \in RoomId, y \in Side
    <2>1. CASE q = r /\ y \in V
        <3>1. room'[q].seats[y] = [player    |-> room[q].seats[y].player,
                                   events    |-> Nobody,
                                   connected |-> FALSE]
            BY <1>1, <2>1
        <3> QED BY <2>1, <3>1
    <2>2. CASE ~(q = r /\ y \in V)
        BY <1>1, <2>2
    <2> QED BY <2>1, <2>2
<1>3. SeatsAreSound'
    <2> SUFFICES ASSUME NEW q \in RoomId, NEW y \in Side PROVE SeatIsSound(room[q].seats[y])'
        BY DEF SeatsAreSound
    <2>1. SeatIsSound(room[q].seats[y])
        BY DEF Inductive, SeatsAreSound
    <2>2. CASE q = r /\ y \in V
        <3>1. room'[q].seats[y] = [player    |-> room[q].seats[y].player,
                                   events    |-> Nobody,
                                   connected |-> FALSE]
            BY <1>1, <2>2
        <3> QED BY <3>1 DEF SeatIsSound
    <2>3. CASE ~(q = r /\ y \in V)
        <3>1. room'[q].seats[y] = room[q].seats[y]
            BY <1>1, <2>3
        <3> QED BY <2>1, <3>1 DEF SeatIsSound
    <2> QED BY <2>2, <2>3
<1>4. SeatsInOrder'
    BY <1>2, Constants DEF Inductive, SeatsInOrder
<1>5. OneWriter'
    BY <1>2 DEF Inductive, OneWriter
<1>6. OpenHasWriter'
    <2>1. ASSUME NEW t \in Session
          PROVE  channel'[t].open <=> \E q \in RoomId, y \in Side : room'[q].seats[y].events = t
        <3>1. channel[t].open <=> \E q \in RoomId, y \in Side : room[q].seats[y].events = t
            BY DEF Inductive, OpenHasWriter
        <3>2. t # Nobody
            BY Constants
        <3>3. CASE \E y \in V : room[r].seats[y].events = t
            <4>1. \A q \in RoomId, y \in Side : room[q].seats[y].events = t => q = r /\ y \in V
                BY <3>2, <3>3 DEF Inductive, OneWriter, Vacates
            <4> QED BY <1>2, <3>2, <3>3, <4>1 DEF Vacates
        <3>4. CASE ~\E y \in V : room[r].seats[y].events = t
            <4>1. \A q \in RoomId, y \in Side : room'[q].seats[y].events = t <=> room[q].seats[y].events = t
                BY <1>2, <3>2, <3>4 DEF Vacates
            <4> QED BY <3>1, <3>4, <4>1 DEF Vacates
        <3> QED BY <3>3, <3>4
    <2> QED BY <2>1 DEF OpenHasWriter
<1>7. PhasesAreSound'
    <2>1. \A q \in RoomId : q # r => PhaseIsSound(q)'
        BY DEF Vacates, Inductive, PhasesAreSound, PhaseIsSound, SeatTaken, SeatConnected
    <2> QED BY <2>1 DEF PhasesAreSound
<1>8. \A q \in RoomId : \A o : SitsIn(q, o) <=> (\E y \in Side : room'[q].seats[y].player = o)
    BY <1>2 DEF SitsIn
<1>9. \A q \in RoomId : room[q].phase = "closed" => room'[q].phase = "closed"
    BY DEF Vacates
<1> QED BY <1>2, <1>3, <1>4, <1>5, <1>6, <1>7, <1>8, <1>9

\* What the end of a session does to its room.
LEMMA RoomLeaveVacates ==
    ASSUME Inductive, NEW s \in Session, RoomLeave(s)
    PROVE  \E r \in RoomId, x \in Side, empty \in BOOLEAN :
               /\ r = mine[s] /\ r \in 1..nextID
               /\ x = SeatOf(mine[s], PlayerOf[s]) /\ room[r].seats[x].player = PlayerOf[s]
               /\ empty <=> \A y \in Side : ~room'[r].seats[y].connected
               /\ Vacates(r, {x})
               /\ TypeOK'
               /\ PhaseIsSound(r)'
               /\ empty => room'[r].phase = "closed"
               /\ pc[s] = "leaving"
               /\ pc' = [pc EXCEPT ![s] = IF empty THEN "emptied" ELSE "done"]
               /\ mine' = [mine EXCEPT ![s] = IF empty THEN r ELSE NoRoom]
               /\ UNCHANGED <<joinMu, rooms, players, waiting, nextID, closing, closes>>
<1> DEFINE r     == mine[s]
           p     == PlayerOf[s]
           x     == SeatOf(r, p)
           seats == [room[r].seats EXCEPT ![x] = Disconnected(@)]
           empty == ConnectedIn(seats) = {}
           phase == PhaseLeft(room[r].phase, empty)
           e     == room[r].seats[x].events
           ended == CloseChannels(Unread(channel, s), {e})
<1>1. /\ TypeOK /\ pc[s] = "leaving" /\ Seated(r, p)
      /\ UNCHANGED <<joinMu, rooms, players, waiting, nextID, closing, closes>>
    BY DEF Inductive, RoomLeave, managerVars, closeVars
<1>2. r \in RoomId /\ r \in 1..nextID /\ p \in PlayerId
    BY <1>1, DealtRoom, Constants
<1>3. x \in Side /\ room[r].seats[x].player = p
    BY <1>1, SeatIsChosen
<1>4. room[r] \in RoomState /\ room[r].seats \in [Side -> Seat] /\ room[r].seats[x] \in Seat
      /\ room[r].game \in SomeGame /\ room[r].phase \in RoomPhase
    BY <1>1, <1>2, <1>3, Types DEF RoomState
<1>5. /\ seats \in [Side -> Seat]
      /\ seats[x] = [player |-> room[r].seats[x].player, events |-> Nobody, connected |-> FALSE]
      /\ \A y \in Side : y # x => seats[y] = room[r].seats[y]
    <2>1. seats = [room[r].seats EXCEPT ![x] = Disconnected(room[r].seats[x])]
        BY <1>3, <1>4
    <2>2. /\ Disconnected(room[r].seats[x]) \in Seat
          /\ Disconnected(room[r].seats[x]) =
                 [player |-> room[r].seats[x].player, events |-> Nobody, connected |-> FALSE]
        BY <1>4, SeatDisconnected
    <2> DEFINE d == Disconnected(room[r].seats[x])
    <2> HIDE DEF seats, d
    <2>3. seats = [room[r].seats EXCEPT ![x] = d] /\ d \in Seat
        BY <2>1, <2>2 DEF d
    <2>4. seats \in [Side -> Seat] /\ seats[x] = d /\ \A y \in Side : y # x => seats[y] = room[r].seats[y]
        BY <1>3, <1>4, <2>3
    <2> QED BY <2>2, <2>4 DEF d
<1>6. room' = Changed(r, seats, phase)
    BY DEF RoomLeave, Changed
<1>7. channel' = Deliver(ended, Listeners(seats), "opponentLeft", room[r].game)
    BY DEF RoomLeave
<1>8. /\ pc' = [pc EXCEPT ![s] = IF empty THEN "emptied" ELSE "done"]
      /\ mine' = [mine EXCEPT ![s] = IF empty THEN r ELSE NoRoom]
      /\ view' = [view EXCEPT ![s] = NoGame]
    BY DEF RoomLeave, HangUp
<1>9. empty <=> \A y \in Side : ~seats[y].connected
    BY DEF ConnectedIn
<1>10. phase \in RoomPhase
    BY <1>4 DEF PhaseLeft, RoomPhase
<1>11. channel' \in [Session -> ChannelState] /\ \A t \in Session : channel'[t].open <=> channel[t].open /\ t # e
    <2>1. channel \in [Session -> ChannelState] /\ "opponentLeft" \in EventType
        BY <1>1, Types DEF EventType
    <2> DEFINE unread == Unread(channel, s)
               to     == Listeners(seats)
    <2>2. unread \in [Session -> ChannelState] /\ \A t \in Session : unread[t].open = channel[t].open
        BY <2>1, UnreadKeepsOpen
    <2> HIDE DEF unread, e
    <2>3. ended = CloseChannels(unread, {e})
        BY DEF unread
    <2>4. ended \in [Session -> ChannelState] /\ \A t \in Session : ended[t].open <=> unread[t].open /\ t # e
        BY <2>2, <2>3, CloseChannelsCloses
    <2> HIDE DEF ended, to
    <2>5. ASSUME NEW g \in SomeGame
          PROVE  /\ Deliver(ended, to, "opponentLeft", g) \in [Session -> ChannelState]
                 /\ \A t \in Session : Deliver(ended, to, "opponentLeft", g)[t].open = ended[t].open
        BY <2>1, <2>4, DeliverKeepsOpen
    <2>6. channel' = Deliver(ended, to, "opponentLeft", room[r].game)
        BY <1>7 DEF to
    <2>7. channel' \in [Session -> ChannelState] /\ \A t \in Session : channel'[t].open = ended[t].open
        BY <1>4, <2>5, <2>6
    <2> QED BY <2>2, <2>4, <2>7
<1> HIDE DEF seats, ended
<1>12. /\ room' \in [RoomId -> RoomState]
       /\ room'[r] = [seats |-> seats, phase |-> phase, game |-> room[r].game]
       /\ \A q \in RoomId : q # r => room'[q] = room[q]
    <2> HIDE DEF phase
    <2> QED BY <1>1, <1>2, <1>5, <1>6, <1>10, RoomChanged
<1>13. empty <=> \A y \in Side : ~room'[r].seats[y].connected
    BY <1>9, <1>12
<1>14. Vacates(r, {x})
    <2>1. room[r].phase = "closed" => room'[r].phase = "closed"
        BY <1>12 DEF PhaseLeft
    <2> QED BY <1>2, <1>3, <1>5, <1>11, <1>12, <2>1 DEF Vacates
<1>15. TypeOK'
    <2> HIDE DEF empty
    <2>1. pc' \in [Session -> Label] /\ mine' \in [Session -> RoomId \cup {NoRoom}] /\ view' \in [Session -> SomeGame]
        BY <1>1, <1>2, <1>8 DEF TypeOK, Label, SomeGame
    <2> QED BY <1>1, <1>11, <1>12, <2>1 DEF TypeOK, RoomState, ChannelState, Event
<1>16. empty => phase = "closed"
    BY DEF PhaseLeft
<1>17. /\ PhaseIsSound(r)
       /\ \A y \in Side : SeatConnected(r, y) => SeatTaken(r, y)
    BY <1>2, Constants DEF Inductive, PhasesAreSound, SeatsAreSound, SeatIsSound, SeatConnected, SeatTaken
<1>18. \A q : q = r => PhaseIsSound(q)'
    <2>1. CASE empty
        BY <1>12, <1>16, <1>17, <2>1 DEF PhaseIsSound
    <2>2. CASE ~empty
        <3>1. \E y \in Side : y # x /\ room[r].seats[y].connected
            BY <1>5, <1>9, <2>2
        <3>2. room[r].phase # "waiting"
            BY <1>2, <1>3, <1>17, <3>1, Constants DEF PhaseIsSound, SeatConnected, SeatTaken
        <3>3. phase = IF room[r].phase = "playing" THEN "suspended" ELSE room[r].phase
            BY <2>2 DEF PhaseLeft
        <3> HIDE DEF phase
        <3> QED BY <1>3, <1>4, <1>5, <1>12, <1>17, <3>1, <3>2, <3>3, Constants
                DEF PhaseIsSound, SeatConnected, SeatTaken, RoomPhase
    <2> QED BY <2>1, <2>2
<1>19. empty \in BOOLEAN /\ r = mine[s] /\ x = SeatOf(mine[s], PlayerOf[s]) /\ p = PlayerOf[s]
    OBVIOUS
<1>20. empty => room'[r].phase = "closed"
    BY <1>12, <1>16
<1> HIDE DEF empty, phase, x, r, p
<1> QED BY <1>1, <1>2, <1>3, <1>8, <1>13, <1>14, <1>15, <1>18, <1>19, <1>20

\* Room.leave gives up the seat of its session.
LEMMA RoomLeaveIsInductive ==
    ASSUME Inductive, NEW s \in Session, RoomLeave(s)
    PROVE  Inductive'
<1>0. PICK r \in RoomId, x \in Side, empty \in BOOLEAN :
               /\ r = mine[s] /\ r \in 1..nextID
               /\ x = SeatOf(mine[s], PlayerOf[s]) /\ room[r].seats[x].player = PlayerOf[s]
               /\ empty <=> \A y \in Side : ~room'[r].seats[y].connected
               /\ Vacates(r, {x})
               /\ TypeOK'
               /\ PhaseIsSound(r)'
               /\ empty => room'[r].phase = "closed"
               /\ pc[s] = "leaving"
               /\ pc' = [pc EXCEPT ![s] = IF empty THEN "emptied" ELSE "done"]
               /\ mine' = [mine EXCEPT ![s] = IF empty THEN r ELSE NoRoom]
               /\ UNCHANGED <<joinMu, rooms, players, waiting, nextID, closing, closes>>
    BY RoomLeaveVacates
<1>1. /\ TypeOK
      /\ \A t \in Session : t # s => pc'[t] = pc[t] /\ mine'[t] = mine[t]
      /\ pc'[s] = IF empty THEN "emptied" ELSE "done"
      /\ mine'[s] = IF empty THEN r ELSE NoRoom
    BY <1>0 DEF Inductive, TypeOK
<1>2. \A t \in Session : pc'[t] = pc[t] \/ pc'[t] \in {"emptied", "done"}
    BY <1>1
<1>3. /\ SeatsAreSound' /\ SeatsInOrder' /\ OneWriter' /\ OpenHasWriter' /\ PhasesAreSound'
      /\ \A q \in RoomId : \A o : SitsIn(q, o) <=> (\E y \in Side : room'[q].seats[y].player = o)
      /\ \A q \in RoomId, y \in Side : room'[q].seats[y].connected => room[q].seats[y].connected
      /\ \A q \in RoomId : room[q].phase = "closed" => room'[q].phase = "closed"
    BY <1>0, <1>2, VacatesKeeps
<1>4. LockIsHeld' /\ DealsWithRoom'
    BY <1>0, <1>1 DEF Inductive, LockIsHeld, InJoin, DealsWithRoom, Idle
<1>5. RoomsCreated'
    <2>1. Started' = Started
        BY <1>0, <1>1, StartedAlready
    <2>2. \A q \in RoomId : q > nextID => room'[q] = NewRoom
        BY <1>0, <1>1 DEF Inductive, RoomsCreated, TypeOK, Vacates
    <2> QED BY <1>0, <2>1, <2>2 DEF Inductive, RoomsCreated
<1>6. RoomsAreReached'
    <2>1. \A t \in Session : pc'[t] = "picked" => pc[t] = "picked" /\ mine'[t] = mine[t] /\ mine[t] \in RoomId
        BY <1>1, DealtRoom
    <2>2. UNCHANGED <<rooms, closing>>
        BY <1>0
    <2> QED BY <1>3, <2>1, <2>2 DEF Inductive, RoomsAreReached, SeatConnected
<1>7. EmptiedIsClosed'
    <2>1. \A t \in Session : t # s /\ pc'[t] = "emptied" => pc[t] = "emptied" /\ mine'[t] = mine[t] /\ mine[t] \in RoomId
        BY <1>1, DealtRoom
    <2>2. pc'[s] = "emptied" => room'[mine'[s]].phase = "closed" /\ \A y \in Side : ~room'[mine'[s]].seats[y].connected
        BY <1>0, <1>1
    <2> QED BY <1>3, <2>1, <2>2 DEF Inductive, EmptiedIsClosed, SeatConnected
<1>8. IndexedSits'
    <2>1. \A o \in PlayerId : players[o] # NoRoom => players[o] \in RoomId
        BY <1>1 DEF TypeOK
    <2>2. \A t \in Session : pc[t] \in {"joined", "leaving", "emptied"} => mine[t] \in RoomId
        BY DealtRoom
    <2>3. \A t \in Session : pc'[t] \in {"joined", "leaving", "emptied"} =>
              pc[t] \in {"joined", "leaving", "emptied"} /\ mine'[t] = mine[t]
        BY <1>0, <1>1
    <2>4. \A o \in PlayerId : players[o] # NoRoom => \E y \in Side : room'[players[o]].seats[y].player = o
        BY <1>3, <2>1 DEF Inductive, IndexedSits
    <2>5. \A t \in Session : pc'[t] \in {"joined", "leaving", "emptied"} =>
              \E y \in Side : room'[mine'[t]].seats[y].player = PlayerOf[t]
        BY <1>3, <2>2, <2>3 DEF Inductive, IndexedSits
    <2> QED BY <1>0, <2>4, <2>5 DEF IndexedSits, SitsIn
<1> QED BY <1>0, <1>3, <1>4, <1>5, <1>6, <1>7, <1>8 DEF Inductive

\* Close gives up all seats of a room.
LEMMA RoomCloseVacates ==
    ASSUME Inductive, NEW r \in RoomId, RoomClose(r)
    PROVE  /\ Vacates(r, Side)
           /\ room'[r].phase = "closed"
           /\ TypeOK'
           /\ PhaseIsSound(r)'
<1> DEFINE listeners == Listeners(room[r].seats)
           seats == [y \in Side |-> Disconnected(room[r].seats[y])]
           told == IF room[r].phase = "closed" THEN channel
                   ELSE Deliver(channel, listeners, "closed", room[r].game)
<1>1. /\ TypeOK /\ closing' = closing \ {r}
      /\ UNCHANGED <<joinMu, rooms, players, waiting, nextID, closes, pc, mine, view>>
      /\ channel' = CloseChannels(told, listeners)
    BY DEF Inductive, RoomClose, managerVars, sessionVars
<1>2. /\ room[r] \in RoomState /\ \A y \in Side : room[r].seats[y] \in Seat
      /\ room[r].seats \in [Side -> Seat]
      /\ room[r].game \in SomeGame
    BY <1>1, Types DEF RoomState
<1>3. /\ seats \in [Side -> Seat]
      /\ \A y \in Side :
            seats[y] = [player |-> room[r].seats[y].player, events |-> Nobody, connected |-> FALSE]
    BY <1>2, SeatDisconnected
<1>4. room' = Changed(r, seats, "closed") /\ "closed" \in RoomPhase
    <2>1. room' = [room EXCEPT ![r].phase = "closed",
                               ![r].seats = [x \in Side |-> Disconnected(@[x])]]
        BY DEF RoomClose
    <2>2. room \in [RoomId -> RoomState]
        BY <1>1, Types
    <2>3. room' = [room EXCEPT ![r] = [room[r] EXCEPT !.phase = "closed", !.seats = seats]]
        BY <2>1, <2>2 DEF RoomState
    <2> HIDE DEF seats
    <2>4. room' = [room EXCEPT ![r] = [room[r] EXCEPT !.seats = seats, !.phase = "closed"]]
        BY <1>2, <2>3 DEF RoomState
    <2> QED BY <2>2, <2>4 DEF Changed, RoomPhase, RoomState
<1> HIDE DEF seats
<1>5. /\ room' \in [RoomId -> RoomState]
      /\ room'[r] = [seats |-> seats, phase |-> "closed", game |-> room[r].game]
      /\ \A q \in RoomId : q # r => room'[q] = room[q]
    BY <1>1, <1>3, <1>4, RoomChanged
<1>6. told \in [Session -> ChannelState] /\ \A t \in Session : told[t].open = channel[t].open
    <2>1. channel \in [Session -> ChannelState] /\ "closed" \in EventType
        BY <1>1, Types DEF EventType
    <2> HIDE DEF listeners
    <2>2. ASSUME NEW g \in SomeGame
          PROVE  /\ Deliver(channel, listeners, "closed", g) \in [Session -> ChannelState]
                 /\ \A t \in Session : Deliver(channel, listeners, "closed", g)[t].open = channel[t].open
        BY <2>1, DeliverKeepsOpen
    <2> QED BY <1>2, <2>1, <2>2
<1>7. channel' \in [Session -> ChannelState] /\ \A t \in Session : channel'[t].open <=> channel[t].open /\ t \notin listeners
    <2> HIDE DEF told, listeners
    <2>1. channel' \in [Session -> ChannelState] /\ \A t \in Session : channel'[t].open <=> told[t].open /\ t \notin listeners
        BY <1>1, <1>6, CloseChannelsCloses
    <2> QED BY <1>6, <2>1
<1>8. \A t \in Session : t \in listeners <=> \E y \in Side : room[r].seats[y].events = t
    BY Constants DEF Listeners, ConnectedIn, Inductive, SeatsAreSound, SeatIsSound
<1>9. Vacates(r, Side)
    <2> HIDE DEF listeners
    <2> QED BY <1>3, <1>5, <1>7, <1>8 DEF Vacates
<1>10. TypeOK'
    BY <1>1, <1>5, <1>7 DEF TypeOK, RoomState, ChannelState, Event
<1>11. PhaseIsSound(r)'
    <2>1. PhaseIsSound(r)
        BY DEF Inductive, PhasesAreSound
    <2> QED BY <1>5, <2>1 DEF PhaseIsSound
<1> QED BY <1>5, <1>9, <1>10, <1>11

\* Close closes a room that it took out of the map.
LEMMA RoomCloseIsInductive ==
    ASSUME Inductive, NEW r \in RoomId, RoomClose(r)
    PROVE  Inductive'
<1>1. /\ TypeOK /\ r \in closing /\ closing' = closing \ {r}
      /\ UNCHANGED <<joinMu, rooms, players, waiting, nextID, closes, pc, mine, view>>
    BY DEF Inductive, RoomClose, managerVars, sessionVars
<1>2. Vacates(r, Side) /\ room'[r].phase = "closed" /\ TypeOK' /\ PhaseIsSound(r)'
    BY RoomCloseVacates
<1>3. /\ SeatsAreSound' /\ SeatsInOrder' /\ OneWriter' /\ OpenHasWriter' /\ PhasesAreSound'
      /\ \A q \in RoomId : \A o : SitsIn(q, o) <=> (\E y \in Side : room'[q].seats[y].player = o)
      /\ \A q \in RoomId, y \in Side : room'[q].seats[y].connected => room[q].seats[y].connected
      /\ \A q \in RoomId : room[q].phase = "closed" => room'[q].phase = "closed"
    BY <1>1, <1>2, VacatesKeeps
<1>4. LockIsHeld' /\ DealsWithRoom'
    BY <1>1 DEF Inductive, LockIsHeld, DealsWithRoom
<1>5. RoomsCreated'
    <2>1. Started' = Started
        BY <1>1 DEF Started
    <2>2. r \in 1..nextID
        BY <1>1 DEF Inductive, RoomsCreated
    <2>3. \A q \in RoomId : q > nextID => room'[q] = NewRoom
        BY <1>1, <1>2, <2>2 DEF Inductive, RoomsCreated, TypeOK, Vacates
    <2> QED BY <1>1, <2>1, <2>3 DEF Inductive, RoomsCreated
<1>6. RoomsAreReached'
    <2>5. \A y \in Side : room'[r].seats[y] = [player    |-> room[r].seats[y].player,
                                              events    |-> Nobody,
                                              connected |-> FALSE]
        BY <1>2 DEF Vacates
    <2>1. \A y \in Side : ~room'[r].seats[y].connected
        <3> TAKE y \in Side
        <3>1. room'[r].seats[y] = [player    |-> room[r].seats[y].player,
                                   events    |-> Nobody,
                                   connected |-> FALSE]
            BY <2>5
        <3> QED BY <3>1
    <2>2. \A t \in Session : pc[t] = "picked" => mine[t] \in RoomId
        BY DealtRoom
    <2>3. \A q \in RoomId, y \in Side : room'[q].seats[y].connected => q \in rooms' \cup closing'
        BY <1>1, <1>3, <2>1 DEF Inductive, RoomsAreReached, SeatConnected
    <2>4. \A t \in Session : pc'[t] = "picked" =>
              mine'[t] \in rooms' \cup closing' \/ room'[mine'[t]].phase = "closed"
        BY <1>1, <1>2, <1>3, <2>2 DEF Inductive, RoomsAreReached
    <2> QED BY <2>3, <2>4 DEF RoomsAreReached, SeatConnected
<1>7. EmptiedIsClosed'
    <2>1. \A t \in Session : pc[t] = "emptied" => mine[t] \in RoomId
        BY DealtRoom
    <2> QED BY <1>1, <1>3, <2>1 DEF Inductive, EmptiedIsClosed, SeatConnected
<1>8. IndexedSits'
    <2>1. \A o \in PlayerId : players[o] # NoRoom => players[o] \in RoomId
        BY <1>1 DEF TypeOK
    <2>2. \A t \in Session : pc[t] \in {"joined", "leaving", "emptied"} => mine[t] \in RoomId
        BY DealtRoom
    <2>3. \A o \in PlayerId : players[o] # NoRoom => \E y \in Side : room'[players[o]].seats[y].player = o
        BY <1>3, <2>1 DEF Inductive, IndexedSits
    <2>4. \A t \in Session : pc[t] \in {"joined", "leaving", "emptied"} =>
              \E y \in Side : room'[mine[t]].seats[y].player = PlayerOf[t]
        BY <1>3, <2>2 DEF Inductive, IndexedSits
    <2> QED BY <1>1, <2>3, <2>4 DEF IndexedSits, SitsIn
<1> QED BY <1>2, <1>3, <1>4, <1>5, <1>6, <1>7, <1>8 DEF Inductive

-----------------------------------------------------------------------------
\* Every step keeps the invariant.
LEMMA NextIsInductive == Inductive /\ [Next]_vars => Inductive'
<1> SUFFICES ASSUME Inductive, [Next]_vars PROVE Inductive'
    OBVIOUS
<1>1. CASE UNCHANGED vars
    <2>1. /\ UNCHANGED <<joinMu, rooms, players, waiting, nextID, closing, closes, room, channel>>
          /\ UNCHANGED <<pc, mine, view>>
        BY <1>1 DEF vars, managerVars, closeVars, sessionVars
    <2>2. TypeOK'
        BY <2>1 DEF Inductive, TypeOK
    <2>3. LockIsHeld' /\ DealsWithRoom' /\ RoomsCreated'
        BY <2>1 DEF Inductive, LockIsHeld, DealsWithRoom, RoomsCreated, Started
    <2>4. SeatsAreSound' /\ RoomsAreReached' /\ EmptiedIsClosed' /\ IndexedSits'
        BY <2>1 DEF Inductive, SeatsAreSound, SeatIsSound, RoomsAreReached, EmptiedIsClosed,
                    IndexedSits, SitsIn, SeatConnected
    <2> QED BY <2>1, <2>2, <2>3, <2>4, RoomsUntouched DEF Inductive
<1>2. ASSUME NEW s \in Session, Join(s) PROVE Inductive'
    <2>1. CASE JoinRefused(s) \/ StartFails(s)
        BY <2>1, QuietIsInductive DEF Quiet
    <2>2. CASE Reconnect(s) \/ TakeFirstSeat(s) \/ StartMatch(s)
        BY <2>2, ReconnectSits, TakeFirstSeatSits, StartMatchSits, TakesSeatKeeps
    <2> QED BY <1>2, <2>1, <2>2, RoomForJoinIsInductive, RegisterIsInductive,
               ReleaseIsInductive DEF Join
<1>3. ASSUME NEW s \in Session,
             \/ Submit(s) \/ Reject(s) \/ SubmitFails(s) \/ LeaveUnknown(s) \/ Receive(s)
      PROVE  Inductive'
    BY <1>3, QuietIsInductive DEF Quiet
<1>4. ASSUME NEW s \in Session, Accept(s) \/ Leave(s) \/ RoomLeave(s) \/ Forget(s)
      PROVE  Inductive'
    BY <1>4, AcceptIsInductive, LeaveIsInductive, RoomLeaveIsInductive, ForgetIsInductive
<1>5. ASSUME Close \/ \E r \in RoomId : RoomClose(r) PROVE Inductive'
    BY <1>5, CloseIsInductive, RoomCloseIsInductive
<1> QED BY <1>1, <1>2, <1>3, <1>4, <1>5 DEF Next

\* The inductive invariant holds in every state that matchmaking reaches.
THEOREM MatchInduction == Spec => []Inductive
BY InitIsInductive, NextIsInductive, PTL DEF Spec

\* Manager and Room keep their types: room ids never run out, whatever fails
\* on the way, since a session creates one room at most.
THEOREM MatchTypes == Spec => []TypeOK
<1>1. Inductive => TypeOK
    BY DEF Inductive
<1> QED BY <1>1, MatchInduction, PTL

\* The phase of a room tells who sits there and who is connected, however
\* joins, leaves, commands and Close interleave (Room.join, Room.leave).
THEOREM PhasesMatchSeats == Spec => []PhaseMatchesSeats
<1>1. Inductive => PhaseMatchesSeats
    <2> SUFFICES ASSUME Inductive, NEW r \in RoomId
                 PROVE  LET connected == ConnectedIn(room[r].seats)
                        IN  /\ room[r].phase = "waiting" =>
                                  /\ room[r].game = NoGame
                                  /\ Taken(r) \subseteq {"dark"}
                                  /\ connected = Taken(r)
                            /\ room[r].phase = "playing" => connected = Side
                            /\ room[r].phase = "suspended" => Cardinality(connected) = 1 /\ Taken(r) = Side
                            /\ room[r].phase \in {"playing", "suspended"} => room[r].game.phase = "playing"
        BY DEF PhaseMatchesSeats
    <2>1. PhaseIsSound(r)
        BY DEF Inductive, PhasesAreSound
    <2>2. room[r].phase = "suspended" => Cardinality(ConnectedIn(room[r].seats)) = 1
        <3> SUFFICES ASSUME room[r].phase = "suspended"
                     PROVE  Cardinality(ConnectedIn(room[r].seats)) = 1
            OBVIOUS
        <3>1. \E x \in Side : ConnectedIn(room[r].seats) = {x}
            BY <2>1, Constants DEF PhaseIsSound, SeatConnected, ConnectedIn
        <3> QED BY <3>1, FS_Singleton
    <2> QED BY <2>1, <2>2, Constants DEF PhaseIsSound, SeatConnected, SeatTaken, ConnectedIn, Taken
<1> QED BY <1>1, MatchInduction, PTL

\* Every open channel has one seat and every seat an open channel; a room with
\* a connected player stays within reach of the manager; and the early return
\* of Room.leave, which would leak the room, is never taken.
THEOREM SeatsServed == Spec => []SeatsAreServed
<1>1. Inductive => SeatsAreServed
    <2> SUFFICES ASSUME Inductive PROVE SeatsAreServed
        OBVIOUS
    <2>1. ASSUME NEW s \in Session
          PROVE  LET writers == {w \in RoomId \X Side : room[w[1]].seats[w[2]].events = s}
                 IN  /\ channel[s].open <=> Cardinality(writers) = 1
                     /\ Cardinality(writers) <= 1
                     /\ \A w \in writers : /\ room[w[1]].seats[w[2]].connected
                                           /\ room[w[1]].seats[w[2]].player = PlayerOf[s]
        <3> DEFINE writers == {w \in RoomId \X Side : room[w[1]].seats[w[2]].events = s}
        <3>1. \A w \in writers : /\ room[w[1]].seats[w[2]].connected
                                 /\ room[w[1]].seats[w[2]].player = PlayerOf[s]
            BY Constants DEF Inductive, SeatsAreSound, SeatIsSound
        <3>2. channel[s].open <=> writers # {}
            <4>1. \A r \in RoomId, x \in Side : room[r].seats[x].events = s => <<r, x>> \in writers
                OBVIOUS
            <4>2. \A w \in writers : w[1] \in RoomId /\ w[2] \in Side /\ room[w[1]].seats[w[2]].events = s
                OBVIOUS
            <4> HIDE DEF writers
            <4>3. channel[s].open <=> \E r \in RoomId, x \in Side : room[r].seats[x].events = s
                BY DEF Inductive, OpenHasWriter
            <4>4. (\E r \in RoomId, x \in Side : room[r].seats[x].events = s) => writers # {}
                BY <4>1
            <4>5. writers # {} => \E r \in RoomId, x \in Side : room[r].seats[x].events = s
                BY <4>2
            <4> QED BY <4>3, <4>4, <4>5
        <3>3. \A v, w \in writers : v = w
            BY Constants DEF Inductive, OneWriter
        <3> HIDE DEF writers
        <3>4. writers = {} \/ \E w : writers = {w}
            <4> SUFFICES ASSUME writers # {} PROVE \E w : writers = {w}
                OBVIOUS
            <4> PICK w \in writers : TRUE
                OBVIOUS
            <4>1. writers = {w}
                BY <3>3
            <4> QED BY <4>1
        <3>5. writers = {} => Cardinality(writers) = 0
            BY FS_EmptySet
        <3>6. (\E w : writers = {w}) => Cardinality(writers) = 1
            BY FS_Singleton
        <3>7. channel[s].open \in BOOLEAN
            BY Types DEF Inductive, ChannelState
        <3>8. /\ channel[s].open <=> Cardinality(writers) = 1
              /\ Cardinality(writers) <= 1
            BY <3>2, <3>4, <3>5, <3>6, <3>7
        <3> QED BY <3>1, <3>8 DEF writers
    <2>2. ChannelHasSeat
        BY <2>1 DEF ChannelHasSeat
    <2>3. \A r \in RoomId : ConnectedIn(room[r].seats) # {} => r \in rooms \cup closing
        BY DEF Inductive, RoomsAreReached, SeatConnected, ConnectedIn
    <2>4. \A s \in Session : pc[s] = "leaving" => Seated(mine[s], PlayerOf[s])
        BY DEF Inductive, IndexedSits, SitsIn, Seated, SeatsOf
    <2> QED BY <2>2, <2>3, <2>4 DEF SeatsAreServed
<1> QED BY <1>1, MatchInduction, PTL

-----------------------------------------------------------------------------
\* The game of a room.

\* A session that does not have a command accepted leaves every game alone,
\* except that its joining may start one.
LEMMA GamesStay ==
    ASSUME Inductive, NEW s \in Session,
           Join(s) \/ Quiet(s) \/ Leave(s) \/ RoomLeave(s) \/ Forget(s), NEW r \in RoomId
    PROVE  \/ room'[r].game = room[r].game
           \/ room[r].game = NoGame /\ room'[r].game = NewGame
<1>0. room \in [RoomId -> RoomState]
    BY Types DEF Inductive
<1>1. CASE Reconnect(s) \/ TakeFirstSeat(s) \/ RoomLeave(s)
    <2>1. mine[s] \in RoomId
        BY <1>1, DealtRoom DEF Reconnect, TakeFirstSeat, RoomLeave, Goto
    <2>2. \E seats, phase : room' = Changed(mine[s], seats, phase)
        BY <1>1 DEF Reconnect, TakeFirstSeat, RoomLeave, Changed
    <2> QED BY <1>0, <2>1, <2>2 DEF Changed, RoomState
<1>2. CASE StartMatch(s)
    <2>1. Sits(s) /\ room' = [room EXCEPT ![mine[s]] = [seats |-> SeatsWith(s),
                                                       phase |-> "playing",
                                                       game  |-> NewGame]]
        BY <1>2 DEF StartMatch
    <2>2. mine[s] \in RoomId /\ room[mine[s]].game = NoGame
        BY <2>1, SitsDown
    <2> QED BY <1>0, <2>1, <2>2
<1>3. CASE Quiet(s)
    BY <1>3, QuietGoes
<1>4. CASE RoomForJoin(s) \/ Register(s) \/ ReleaseOnJoinFailure(s) \/ Leave(s) \/ Forget(s)
    BY <1>4 DEF RoomForJoin, Register, ReleaseOnJoinFailure, Leave, Forget
<1> QED BY <1>1, <1>2, <1>3, <1>4 DEF Join, Quiet

\* What any step does to the game of a room: nothing, or it starts, or it
\* advances.
LEMMA GameSteps ==
    ASSUME Inductive, [Next]_vars, NEW r \in RoomId
    PROVE  \/ room'[r].game = room[r].game
           \/ room[r].game = NoGame /\ room'[r].game = NewGame
           \/ /\ room[r].game # NoGame /\ room[r].game.phase = "playing"
              /\ room'[r].game = Advance(room[r].game) /\ room'[r].game # NoGame
<1>1. ASSUME NEW s \in Session, Join(s) \/ Quiet(s) \/ Leave(s) \/ RoomLeave(s) \/ Forget(s)
      PROVE  room'[r].game = room[r].game \/ (room[r].game = NoGame /\ room'[r].game = NewGame)
    BY <1>1, GamesStay
<1>2. ASSUME NEW s \in Session, Accept(s)
      PROVE  \/ room'[r].game = room[r].game
             \/ /\ room[r].game # NoGame /\ room[r].game.phase = "playing"
                /\ room'[r].game = Advance(room[r].game) /\ room'[r].game # NoGame
    BY <1>2, AcceptAdvances
<1>3. ASSUME NEW q \in RoomId, RoomClose(q)
      PROVE  room'[r].game = room[r].game
    <2>1. Vacates(q, Side)
        BY <1>3, RoomCloseVacates
    <2> QED BY <2>1 DEF Vacates
<1>4. CASE UNCHANGED vars \/ Close
    BY <1>4 DEF vars, Close
<1> QED BY <1>1, <1>2, <1>3, <1>4 DEF Next, Quiet

\* The game of every room starts once, advances one turn at a time and stays
\* finished: Room.submit and Room.join together implement the abstract game.
THEOREM RoomsPlayTurns == Spec => EveryRoomPlaysTurns
<1>1. Init => \A r \in RoomId : RoomTurns(r)!Init
    BY DEF Init, NewRoom, NoGame, RoomGame, RoomTurns!Init, RoomTurns!NewGame, NewGame
<1>2. Inductive /\ [Next]_vars =>
          [\A r \in RoomId : RoomTurns(r)!Next \/ RoomGame(r)' = RoomGame(r)]_vars
    <2> SUFFICES ASSUME Inductive, [Next]_vars, NEW r \in RoomId
                 PROVE  RoomTurns(r)!Next \/ RoomGame(r)' = RoomGame(r)
        OBVIOUS
    <2>1. CASE room'[r].game = room[r].game
        BY <2>1 DEF RoomGame
    <2>2. CASE room[r].game = NoGame /\ room'[r].game = NewGame
        BY <2>2 DEF RoomGame
    <2>3. CASE /\ room[r].game # NoGame /\ room[r].game.phase = "playing"
               /\ room'[r].game = Advance(room[r].game) /\ room'[r].game # NoGame
        <3>1. RoomGame(r) = room[r].game /\ RoomGame(r)' = Advance(RoomGame(r))
            BY <2>3 DEF RoomGame
        <3>2. RoomTurns(r)!Next
            BY <2>3, <3>1 DEF RoomTurns!Next, RoomTurns!Advance, RoomTurns!Opponent, Advance, Opponent
        <3> QED BY <3>2
    <2> QED BY <2>1, <2>2, <2>3, GameSteps
<1> QED BY <1>1, <1>2, MatchInduction, PTL DEF Spec, EveryRoomPlaysTurns

-----------------------------------------------------------------------------
\* What the clients of a room are told: the events of a seat lead to the
\* current state of its game, unless the last one did not fit its channel.
\* The inductive invariant, besides that of the rooms.

\* A session that has not been let in yet shows nothing.
Outside == {"start", "picked"}

NothingShownYet == \A s \in Session : pc[s] \in Outside => view[s] = NoGame

\* What a channel holds for a client that shows v leads to the game g.
LeadsTo(ch, v, g) ==
    ~ch.lost => IF ch.queue = <<>> THEN v = g ELSE ch.queue[Len(ch.queue)].game = g

\* No event carries a state.
OnlyNoGame(queue) == \A i \in 1..Len(queue) : queue[i].game = NoGame

\* A session with a seat in a room serves this room until it leaves, has
\* nothing to show before the game has started, and is led to its state.
Attending == {"joined", "serving", "submitting"}

IsFed(r, s) ==
    /\ pc[s] \in Attending => mine[s] = r
    /\ room[r].game = NoGame => view[s] = NoGame /\ OnlyNoGame(channel[s].queue)
    /\ pc[s] \in Holding => LeadsTo(channel[s], view[s], room[r].game)

SeatsAreFed ==
    \A r \in RoomId, x \in Side :
        room[r].seats[x].connected => IsFed(r, room[r].seats[x].events)

Feed == NothingShownYet /\ SeatsAreFed

-----------------------------------------------------------------------------
\* Channels.

\* A queue after an event was appended.
LEMMA QueueOf ==
    ASSUME NEW q \in Seq(Event), NEW e \in Event
    PROVE  /\ Len(q) \in Nat
           /\ Append(q, e) \in Seq(Event)
           /\ Append(q, e) # <<>>
           /\ Len(Append(q, e)) = Len(q) + 1
           /\ Append(q, e)[Len(q) + 1] = e
           /\ \A i \in 1..Len(q) : Append(q, e)[i] = q[i]
OBVIOUS

\* Whom an event is sent to is led to its game, whatever was shown before.
Leads(old, new, s, to, game) ==
    /\ s \notin to => new[s] = old[s]
    /\ s \in to => \A v : LeadsTo(new[s], v, game)
    /\ game = NoGame /\ OnlyNoGame(old[s].queue) => OnlyNoGame(new[s].queue)

\* Deliver leads those it sends to.
LEMMA DeliverLeads ==
    ASSUME NEW ch \in [Session -> ChannelState], NEW to,
           NEW type \in EventType, NEW game \in SomeGame, NEW s \in Session
    PROVE  Leads(ch, Deliver(ch, to, type, game), s, to, game)
<1> DEFINE new == Deliver(ch, to, type, game)
           e   == [type |-> type, game |-> game]
           q   == ch[s].queue
<1>1. new[s] = IF s \notin to THEN ch[s]
               ELSE IF Len(q) < EventBuffer
               THEN [ch[s] EXCEPT !.queue = Append(@, e), !.lost = FALSE]
               ELSE [ch[s] EXCEPT !.lost = TRUE]
    BY DEF Deliver
<1>2. e \in Event /\ q \in Seq(Event) /\ ch[s] \in ChannelState
    BY DEF Event, ChannelState
<1>3. CASE s \notin to
    <2>1. new[s] = ch[s]
        BY <1>1, <1>3
    <2> HIDE DEF new
    <2>2. Leads(ch, new, s, to, game)
        BY <1>3, <2>1 DEF Leads
    <2> QED BY <2>2 DEF new
<1>4. CASE s \in to /\ Len(q) < EventBuffer
    <2>1. new[s].queue = Append(q, e) /\ new[s].lost = FALSE
        BY <1>1, <1>2, <1>4 DEF ChannelState
    <2>2. e.game = game
        OBVIOUS
    <2> HIDE DEF new, q, e
    <2>3. \A v : LeadsTo(new[s], v, game)
        BY <1>2, <2>1, <2>2, QueueOf DEF LeadsTo
    <2>4. game = NoGame /\ OnlyNoGame(q) => OnlyNoGame(new[s].queue)
        BY <1>2, <2>1, <2>2, QueueOf DEF OnlyNoGame
    <2>5. Leads(ch, new, s, to, game)
        BY <1>4, <2>3, <2>4 DEF Leads, q
    <2> QED BY <2>5 DEF new
<1>5. CASE s \in to /\ ~(Len(q) < EventBuffer)
    <2>1. new[s].queue = q /\ new[s].lost = TRUE
        BY <1>1, <1>2, <1>5 DEF ChannelState
    <2> HIDE DEF new
    <2>2. Leads(ch, new, s, to, game)
        BY <1>5, <2>1 DEF Leads, LeadsTo, OnlyNoGame
    <2> QED BY <2>2 DEF new
<1> QED BY <1>3, <1>4, <1>5

-----------------------------------------------------------------------------
\* Steps of a session that leave what it is fed alone, or end its handler.

Same(s) ==
    /\ channel'[s].queue = channel[s].queue
    /\ channel'[s].lost = channel[s].lost
    /\ view'[s] = view[s]
    /\ pc'[s] \in Holding => pc[s] \in Holding
    /\ pc'[s] \in Attending => pc[s] \in Attending /\ mine'[s] = mine[s]
    /\ pc'[s] \in Outside => pc[s] \in Outside

HungUp(s) ==
    /\ channel'[s].queue = <<>>
    /\ view'[s] = NoGame
    /\ pc'[s] \notin Holding

\* A session that stays as it was, or hangs up, is fed as before.
LEMMA StaysFed ==
    ASSUME NEW r \in RoomId, NEW s \in Session, IsFed(r, s), room'[r].game = room[r].game,
           Same(s) \/ HungUp(s)
    PROVE  IsFed(r, s)'
<1>1. CASE Same(s)
    BY <1>1 DEF IsFed, Same, LeadsTo, OnlyNoGame
<1>2. CASE HungUp(s)
    BY <1>2 DEF IsFed, HungUp, OnlyNoGame, Attending, Holding
<1> QED BY <1>1, <1>2

\* The channel of a connected seat is that of a session that was let in.
LEMMA ConnectedSession ==
    ASSUME Inductive, NEW r \in RoomId, NEW x \in Side, room[r].seats[x].connected
    PROVE  room[r].seats[x].events \in Session /\ pc[room[r].seats[x].events] \notin Outside
BY DEF Inductive, SeatsAreSound, SeatIsSound, Outside

\* A step that keeps the rooms and disturbs no session keeps the feed.
LEMMA FedAsBefore ==
    ASSUME Inductive, Feed, UNCHANGED room, \A t \in Session : Same(t) \/ HungUp(t)
    PROVE  Feed'
<1>1. NothingShownYet'
    BY DEF Feed, NothingShownYet, Same, HungUp
<1>2. SeatsAreFed'
    <2> SUFFICES ASSUME NEW r \in RoomId, NEW x \in Side, room[r].seats[x].connected
                 PROVE  IsFed(r, room[r].seats[x].events)'
        BY DEF SeatsAreFed
    <2>1. IsFed(r, room[r].seats[x].events) /\ room[r].seats[x].events \in Session
        BY ConnectedSession DEF Feed, SeatsAreFed
    <2>2. ASSUME NEW t \in Session, IsFed(r, t) PROVE IsFed(r, t)'
        BY <2>2, StaysFed
    <2>3. ASSUME NEW t \in Session, t = room[r].seats[x].events
          PROVE  IsFed(r, room[r].seats[x].events)'
        <3>1. IsFed(r, t)'
            BY <2>1, <2>2, <2>3
        <3>2. room'[r].seats[x].events = t
            BY <2>3
        <3> QED BY <3>1, <3>2 DEF IsFed
    <2> QED BY <2>1, <2>3
<1> QED BY <1>1, <1>2 DEF Feed


\* A session that has no seat any more.
IsUnseated(s) ==
    /\ pc'[s] \notin Outside
    /\ \A q \in RoomId, x \in Side : room'[q].seats[x].events # s

\* A step that changes one room: the sessions seated there are fed, the
\* others as before.
LEMMA FedInRoom ==
    ASSUME Inductive, Inductive', Feed, NEW r \in RoomId,
           \A q \in RoomId : q # r => room'[q] = room[q],
           \A t \in Session :
              IF t \in Listeners(room'[r].seats) THEN IsFed(r, t)'
                                                 ELSE Same(t) \/ HungUp(t) \/ IsUnseated(t)
    PROVE  Feed'
<1>1. \A t \in Session : t \in Listeners(room'[r].seats) =>
          \E x \in Side : room'[r].seats[x].connected /\ room'[r].seats[x].events = t
    BY DEF Listeners, ConnectedIn
<1>2. \A q \in RoomId, x \in Side : room'[q].seats[x].connected =>
          /\ room'[q].seats[x].events \in Session /\ room'[q].seats[x].events # Nobody
          /\ pc'[room'[q].seats[x].events] \notin Outside
    BY Constants DEF Inductive, SeatsAreSound, SeatIsSound, Outside
<1>3. NothingShownYet'
    <2> SUFFICES ASSUME NEW t \in Session, pc'[t] \in Outside PROVE view'[t] = NoGame
        BY DEF NothingShownYet
    <2>1. t \notin Listeners(room'[r].seats)
        BY <1>1, <1>2
    <2> QED BY <2>1 DEF Feed, NothingShownYet, Same, HungUp, IsUnseated
<1>4. ASSUME NEW q \in RoomId, NEW x \in Side, room'[q].seats[x].connected,
             NEW t \in Session, t = room'[q].seats[x].events
      PROVE  IsFed(q, t)'
    <2>1. CASE q = r
        <3>1. t \in Listeners(room'[r].seats)
            BY <1>4, <2>1 DEF Listeners, ConnectedIn
        <3> QED BY <2>1, <3>1
    <2>2. CASE q # r
        <3>1. t \notin Listeners(room'[r].seats)
            BY <1>1, <1>2, <1>4, <2>2 DEF Inductive, OneWriter
        <3>2. room'[q] = room[q]
            BY <2>2
        <3>3. IsFed(q, t)
            BY <1>4, <3>2 DEF Feed, SeatsAreFed
        <3>4. room'[q].game = room[q].game
            BY <3>2
        <3>5. Same(t) \/ HungUp(t)
            BY <1>4, <3>1 DEF IsUnseated
        <3> QED BY <3>3, <3>4, <3>5, StaysFed
    <2> QED BY <2>1, <2>2
<1>5. SeatsAreFed'
    <2> SUFFICES ASSUME NEW q \in RoomId, NEW x \in Side, room'[q].seats[x].connected
                 PROVE  IsFed(q, room[q].seats[x].events)'
        BY DEF SeatsAreFed
    <2>1. ASSUME NEW t \in Session, t = room'[q].seats[x].events
          PROVE  IsFed(q, room[q].seats[x].events)'
        <3>1. IsFed(q, t)'
            BY <1>4, <2>1
        <3> QED BY <2>1, <3>1 DEF IsFed
    <2> QED BY <1>2, <2>1
<1> QED BY <1>3, <1>5 DEF Feed

-----------------------------------------------------------------------------
\* The feed at the start.
LEMMA InitFeeds == Init => Feed
BY DEF Init, Feed, NothingShownYet, SeatsAreFed, NewRoom, EmptySeat

\* Steps that change neither a room nor what a client is to show.
LEMMA JoinStepsFeed ==
    ASSUME Inductive, Feed, NEW s \in Session,
           \/ RoomForJoin(s) \/ JoinRefused(s) \/ StartFails(s)
           \/ Register(s) \/ ReleaseOnJoinFailure(s)
    PROVE  Feed'
<1>1. TypeOK /\ UNCHANGED <<room, channel, view>>
    BY DEF Inductive, RoomForJoin, JoinRefused, StartFails, Register, ReleaseOnJoinFailure
<1>2. \A t \in Session : Same(t)
    BY <1>1 DEF TypeOK, RoomForJoin, JoinRefused, StartFails, Sits, Register, ReleaseOnJoinFailure,
                Goto, Same, Holding, Attending, Outside
<1> QED BY <1>1, <1>2, FedAsBefore

\* Steps that touch neither rooms nor channels.
LEMMA SessionStepsFeed ==
    ASSUME Inductive, Feed, NEW s \in Session,
           Submit(s) \/ SubmitFails(s) \/ Leave(s) \/ Forget(s)
    PROVE  Feed'
<1>1. TypeOK /\ UNCHANGED <<room, channel, view>>
    BY DEF Inductive, Submit, SubmitFails, Leave, Forget
<1>2. \A t \in Session : Same(t)
    BY <1>1 DEF TypeOK, Submit, SubmitFails, Leave, Forget, Goto, Same, Holding, Attending, Outside
<1> QED BY <1>1, <1>2, FedAsBefore

\* Leave of a player whom the manager does not know.
LEMMA LeaveUnknownFeeds ==
    ASSUME Inductive, Feed, NEW s \in Session, LeaveUnknown(s)
    PROVE  Feed'
<1>1. /\ TypeOK /\ UNCHANGED room
      /\ pc' = [pc EXCEPT ![s] = "done"]
      /\ mine' = [mine EXCEPT ![s] = NoRoom]
      /\ view' = [view EXCEPT ![s] = NoGame]
      /\ channel' = Unread(channel, s)
    BY DEF Inductive, LeaveUnknown, Goto, HangUp
<1>2. channel \in [Session -> ChannelState]
    BY <1>1, Types
<1>3. channel'[s].queue = <<>> /\ \A t \in Session : t # s => channel'[t] = channel[t]
    BY <1>1, <1>2 DEF Unread, ChannelState
<1>4. HungUp(s)
    BY <1>1, <1>3 DEF HungUp, TypeOK, Holding
<1>5. \A t \in Session : t # s => Same(t)
    BY <1>1, <1>3 DEF Same, TypeOK
<1> QED BY <1>1, <1>4, <1>5, FedAsBefore

\* Close takes the rooms out of the map.
LEMMA CloseFeeds ==
    ASSUME Inductive, Feed, Close \/ UNCHANGED vars
    PROVE  Feed'
<1>1. UNCHANGED <<room, channel, view, pc, mine>>
    BY DEF Close, vars, sessionVars
<1>2. \A t \in Session : Same(t)
    BY <1>1 DEF Same
<1> QED BY <1>1, <1>2, FedAsBefore


\* A step of a session that serves its client.
LEMMA FedWhenServed ==
    ASSUME Inductive, Feed, UNCHANGED room, NEW s \in Session, pc'[s] \notin Outside,
           \A t \in Session : t # s => Same(t),
           \A r \in RoomId : IsFed(r, s) => IsFed(r, s)'
    PROVE  Feed'
<1>1. NothingShownYet'
    BY DEF Feed, NothingShownYet, Same
<1>2. ASSUME NEW r \in RoomId, NEW x \in Side, room[r].seats[x].connected,
             NEW t \in Session, t = room[r].seats[x].events
      PROVE  IsFed(r, room[r].seats[x].events)'
    <2>1. IsFed(r, t)
        BY <1>2 DEF Feed, SeatsAreFed
    <2>2. IsFed(r, t)'
        <3>1. CASE t = s
            BY <2>1, <3>1
        <3>2. CASE t # s
            BY <2>1, <3>2, StaysFed
        <3> QED BY <3>1, <3>2
    <2> QED BY <1>2, <2>2 DEF IsFed
<1>3. SeatsAreFed'
    BY <1>2, ConnectedSession DEF SeatsAreFed
<1> QED BY <1>1, <1>3 DEF Feed

\* A refused command is answered to its sender, with the state of the game.
LEMMA RejectFeeds ==
    ASSUME Inductive, Feed, NEW s \in Session, Reject(s)
    PROVE  Feed'
<1> DEFINE game == room[mine[s]].game
<1>1. /\ TypeOK /\ UNCHANGED <<room, channel, mine>>
      /\ pc[s] = "submitting" /\ pc' = [pc EXCEPT ![s] = "serving"]
      /\ view' = [view EXCEPT ![s] = IF game = NoGame THEN @ ELSE game]
    BY DEF Inductive, Reject, Goto
<1>2. pc'[s] = "serving" /\ view'[s] = IF game = NoGame THEN view[s] ELSE game
    BY <1>1 DEF TypeOK
<1>3. \A t \in Session : t # s => Same(t)
    BY <1>1 DEF TypeOK, Same
<1>4. ASSUME NEW r \in RoomId, IsFed(r, s) PROVE IsFed(r, s)'
    <2>1. mine[s] = r
        BY <1>1, <1>4 DEF IsFed, Attending
    <2> QED BY <1>1, <1>2, <1>4, <2>1 DEF IsFed, LeadsTo, OnlyNoGame, Attending, Holding
<1> QED BY <1>1, <1>2, <1>3, <1>4, FedWhenServed DEF Outside

\* A queue after its first event was taken.
LEMMA QueueShortened ==
    ASSUME NEW q \in Seq(Event), q # <<>>
    PROVE  /\ Len(q) \in Nat \ {0} /\ Head(q) = q[1]
           /\ Len(Tail(q)) = Len(q) - 1
           /\ \A i \in 1..(Len(q) - 1) : Tail(q)[i] = q[i + 1]
           /\ Tail(q) = <<>> <=> Len(q) = 1
<1>1. Len(q) \in Nat \ {0} /\ Head(q) = q[1]
    OBVIOUS
<1>2. Tail(q) \in Seq(Event) /\ Len(Tail(q)) = Len(q) - 1 /\ \A i \in 1..(Len(q) - 1) : Tail(q)[i] = q[i + 1]
    OBVIOUS
<1>3. \A t \in Seq(Event) : t = <<>> <=> Len(t) = 0
    OBVIOUS
<1> QED BY <1>1, <1>2, <1>3

\* forwardEvents takes an event, and the client shows its state.
LEMMA ReceiveFeeds ==
    ASSUME Inductive, Feed, NEW s \in Session, Receive(s)
    PROVE  Feed'
<1> DEFINE q    == channel[s].queue
           game == Head(q).game
<1>1. /\ TypeOK /\ UNCHANGED <<room, mine, pc>>
      /\ pc[s] \in {"serving", "submitting"} /\ q # <<>>
      /\ channel' = [channel EXCEPT ![s].queue = Tail(@)]
      /\ view' = [view EXCEPT ![s] = IF game = NoGame THEN @ ELSE game]
    BY DEF Inductive, Receive, sessionVars
<1>2. channel \in [Session -> ChannelState] /\ q \in Seq(Event)
    BY <1>1, Types DEF ChannelState
<1>3. view'[s] = IF game = NoGame THEN view[s] ELSE game
    BY <1>1 DEF TypeOK
<1>4. /\ channel'[s].queue = Tail(q) /\ channel'[s].lost = channel[s].lost
      /\ \A t \in Session : t # s => channel'[t] = channel[t]
    BY <1>1, <1>2 DEF ChannelState
<1>5. \A t \in Session : t # s => Same(t)
    BY <1>1, <1>4 DEF TypeOK, Same
<1>6. /\ Len(q) \in Nat \ {0} /\ Head(q) = q[1]
      /\ Len(Tail(q)) = Len(q) - 1
      /\ \A i \in 1..(Len(q) - 1) : Tail(q)[i] = q[i + 1]
      /\ Tail(q) = <<>> <=> Len(q) = 1
    BY <1>1, <1>2, QueueShortened
<1>7. ASSUME NEW r \in RoomId, IsFed(r, s) PROVE IsFed(r, s)'
    <2>1. ASSUME room[r].game = NoGame
          PROVE  view'[s] = NoGame /\ game = NoGame /\ OnlyNoGame(Tail(q))
        <3>1. view[s] = NoGame /\ \A i \in 1..Len(q) : q[i].game = NoGame
            BY <1>7, <2>1 DEF IsFed, OnlyNoGame
        <3> HIDE DEF q
        <3>2. game = NoGame
            BY <1>6, <3>1
        <3>3. OnlyNoGame(Tail(q))
            BY <1>6, <3>1 DEF OnlyNoGame
        <3> QED BY <1>3, <3>1, <3>2, <3>3
    <2>2. ASSUME ~channel[s].lost
          PROVE  IF Tail(q) = <<>> THEN view'[s] = room[r].game
                                   ELSE Tail(q)[Len(Tail(q))].game = room[r].game
        <3>1. q[Len(q)].game = room[r].game
            BY <1>1, <1>7, <2>2 DEF IsFed, LeadsTo, Holding
        <3> HIDE DEF q
        <3>2. CASE Tail(q) = <<>>
            <4>1. game = room[r].game
                BY <1>6, <3>1, <3>2
            <4> QED BY <1>3, <2>1, <3>2, <4>1
        <3>3. CASE Tail(q) # <<>>
            BY <1>6, <3>1, <3>3
        <3> QED BY <3>2, <3>3
    <2> HIDE DEF q
    <2> QED BY <1>1, <1>4, <1>7, <2>1, <2>2 DEF IsFed, LeadsTo
<1> QED BY <1>1, <1>5, <1>7, FedWhenServed DEF Outside

-----------------------------------------------------------------------------
\* Steps that change a room.

\* A seat that is connected is listened to.
LEMMA ListenersAre ==
    ASSUME NEW seats, NEW t
    PROVE  t \in Listeners(seats) <=> \E x \in Side : seats[x].connected /\ seats[x].events = t
BY DEF Listeners, ConnectedIn


\* Close closes a room and its channels.
LEMMA RoomCloseFeeds ==
    ASSUME Inductive, Inductive', Feed, NEW r \in RoomId, RoomClose(r)
    PROVE  Feed'
<1> DEFINE listeners == Listeners(room[r].seats)
           game == room[r].game
           told == IF room[r].phase = "closed" THEN channel
                   ELSE Deliver(channel, listeners, "closed", game)
<1>1. /\ TypeOK /\ UNCHANGED <<pc, mine, view>>
      /\ channel' = CloseChannels(told, listeners)
    BY DEF Inductive, RoomClose, sessionVars
<1>2. Vacates(r, Side)
    BY RoomCloseVacates
<1>3. \A q \in RoomId : q # r => room'[q] = room[q]
    BY <1>2 DEF Vacates
<1>4. \A y \in Side : ~room'[r].seats[y].connected /\ room'[r].seats[y].events = Nobody
    <2> TAKE y \in Side
    <2>1. room'[r].seats[y] = [player |-> room[r].seats[y].player, events |-> Nobody, connected |-> FALSE]
        BY <1>2 DEF Vacates
    <2> QED BY <2>1
<1>5. \A t : t \notin Listeners(room'[r].seats)
    BY <1>4, ListenersAre
<1>6. ASSUME NEW t \in Session, t \notin listeners PROVE Same(t)
    <2>1. channel \in [Session -> ChannelState] /\ game \in SomeGame /\ "closed" \in EventType
        BY <1>1, Types DEF RoomState, EventType
    <2> HIDE DEF listeners, game
    <2>4. Leads(channel, Deliver(channel, listeners, "closed", game), t, listeners, game)
        BY <2>1, DeliverLeads
    <2>2. told[t] = channel[t]
        BY <1>6, <2>4 DEF Leads
    <2> HIDE DEF told
    <2>3. channel'[t] = channel[t]
        BY <1>1, <1>6, <2>2 DEF CloseChannels
    <2> QED BY <1>1, <2>3 DEF Same
<1>7. ASSUME NEW t \in Session, t \in listeners PROVE IsUnseated(t)
    <2> PICK x \in Side : room[r].seats[x].connected /\ room[r].seats[x].events = t
        BY <1>7, ListenersAre
    <2>1. pc'[t] \notin Outside
        BY <1>1, ConnectedSession
    <2>2. \A q \in RoomId, y \in Side : room'[q].seats[y].events # t
        BY <1>3, <1>4, Constants DEF Inductive, OneWriter
    <2> QED BY <2>1, <2>2 DEF IsUnseated
<1> QED BY <1>3, <1>5, <1>6, <1>7, FedInRoom

\* Everybody who sits in a room is led to the state that it has now.
LEMMA AcceptFeeds ==
    ASSUME Inductive, Inductive', Feed, NEW s \in Session, Accept(s)
    PROVE  Feed'
<1> DEFINE r    == mine[s]
           game == Advance(room[r].game)
           to   == Listeners(room[r].seats)
           told == Deliver(channel, to, "state", game)
           last == Deliver(told, to, "closed", game)
<1>1. /\ TypeOK /\ pc[s] = "submitting" /\ pc' = [pc EXCEPT ![s] = "serving"]
      /\ UNCHANGED <<mine, view>>
      /\ channel' = IF game.phase = "finished" THEN last ELSE told
    BY DEF Inductive, Accept, Goto, Announced
<1>2. /\ r \in RoomId
      /\ game \in Game /\ game # NoGame
      /\ room'[r].seats = room[r].seats
      /\ room'[r].game = game
      /\ \A q \in RoomId : q # r => room'[q] = room[q]
    BY AcceptAdvances
<1>3. game \in SomeGame /\ "state" \in EventType /\ "closed" \in EventType /\ channel \in [Session -> ChannelState]
    BY <1>1, <1>2, Types DEF SomeGame, EventType
<1> HIDE DEF game, to
<1>4. told \in [Session -> ChannelState]
    BY <1>3, DeliverKeepsOpen
<1>5. ASSUME NEW t \in Session
      PROVE  IF t \in to THEN \A v : LeadsTo(channel'[t], v, game) ELSE channel'[t] = channel[t]
    <2>1. Leads(channel, told, t, to, game)
        BY <1>3, DeliverLeads
    <2> HIDE DEF told
    <2>2. Leads(told, last, t, to, game)
        BY <1>3, <1>4, DeliverLeads
    <2> HIDE DEF last
    <2> QED BY <1>1, <2>1, <2>2 DEF Leads
<1>6. /\ \A t \in Session : t # s => pc'[t] = pc[t]
      /\ pc'[s] = "serving"
    BY <1>1 DEF TypeOK
<1>7. ASSUME NEW t \in Session, t \in to PROVE IsFed(r, t)'
    <2> PICK x \in Side : room[r].seats[x].connected /\ room[r].seats[x].events = t
        BY <1>7, ListenersAre DEF to
    <2>1. IsFed(r, t)
        BY <1>2 DEF Feed, SeatsAreFed
    <2>2. pc'[t] \in Attending => mine[t] = r
        BY <1>1, <1>6, <2>1 DEF IsFed, Attending
    <2>3. LeadsTo(channel'[t], view'[t], game)
        BY <1>5, <1>7
    <2>4. ASSUME NEW q \in RoomId, room'[q].game = game, pc'[t] \in Attending => mine[t] = q
          PROVE  IsFed(q, t)'
        BY <1>1, <1>2, <2>3, <2>4 DEF IsFed
    <2> QED BY <1>1, <1>2, <2>2, <2>4
<1>8. ASSUME NEW t \in Session, t \notin to PROVE Same(t)
    BY <1>1, <1>5, <1>6, <1>8 DEF Same, Holding, Attending, Outside
<1>9. ASSUME NEW q \in RoomId, q = r PROVE Feed'
    <2>1. Listeners(room'[q].seats) = to
        BY <1>2, <1>9 DEF to
    <2>2. \A t \in Session : t \in to => IsFed(q, t)'
        BY <1>1, <1>7, <1>9
    <2> QED BY <1>2, <1>8, <1>9, <2>1, <2>2, FedInRoom
<1> QED BY <1>2, <1>9


\* Room.leave gives up a seat and tells the other player.
LEMMA RoomLeaveFeeds ==
    ASSUME Inductive, Inductive', Feed, NEW s \in Session, RoomLeave(s)
    PROVE  Feed'
<1>0. PICK r \in RoomId, x \in Side, empty \in BOOLEAN :
          /\ r = mine[s] /\ x = SeatOf(mine[s], PlayerOf[s])
          /\ Vacates(r, {x})
          /\ pc' = [pc EXCEPT ![s] = IF empty THEN "emptied" ELSE "done"]
          /\ mine' = [mine EXCEPT ![s] = IF empty THEN r ELSE NoRoom]
    BY RoomLeaveVacates
<1> DEFINE seats == [room[r].seats EXCEPT ![x] = Disconnected(@)]
           game  == room[r].game
           to    == Listeners(seats)
           ended == CloseChannels(Unread(channel, s), {room[r].seats[x].events})
<1>1. /\ TypeOK
      /\ view' = [view EXCEPT ![s] = NoGame]
      /\ channel' = Deliver(ended, to, "opponentLeft", game)
      /\ room' = Changed(r, seats, PhaseLeft(room[r].phase, ConnectedIn(seats) = {}))
    BY <1>0 DEF Inductive, RoomLeave, HangUp, Changed
<1>2. channel \in [Session -> ChannelState] /\ game \in SomeGame /\ "opponentLeft" \in EventType
    BY <1>1, Types DEF RoomState, EventType
<1>3. /\ ended \in [Session -> ChannelState]
      /\ ended[s].queue = <<>>
      /\ \A t \in Session : t # s => ended[t].queue = channel[t].queue /\ ended[t].lost = channel[t].lost
    <2> DEFINE unread == Unread(channel, s)
    <2>1. unread \in [Session -> ChannelState]
        BY <1>2, UnreadKeepsOpen
    <2>2. unread[s].queue = <<>> /\ \A t \in Session : t # s => unread[t] = channel[t]
        BY <1>2 DEF Unread, ChannelState
    <2> HIDE DEF unread
    <2>3. ASSUME NEW e
          PROVE  /\ CloseChannels(unread, {e}) \in [Session -> ChannelState]
                 /\ \A t \in Session : /\ CloseChannels(unread, {e})[t].queue = unread[t].queue
                                       /\ CloseChannels(unread, {e})[t].lost = unread[t].lost
        BY <2>1 DEF CloseChannels, ChannelState
    <2> QED BY <2>2, <2>3 DEF unread
<1>4. /\ \A q \in RoomId : q # r => room'[q] = room[q]
      /\ room'[r].game = game
      /\ \A y \in Side : room'[r].seats[y].connected => y # x /\ room'[r].seats[y] = room[r].seats[y]
    <2>1. room'[r].seats[x] = [player |-> room[r].seats[x].player, events |-> Nobody, connected |-> FALSE]
        BY <1>0 DEF Vacates
    <2>2. \A y \in Side : y # x => room'[r].seats[y] = room[r].seats[y]
        BY <1>0 DEF Vacates
    <2>3. ~room'[r].seats[x].connected
        BY <2>1
    <2> QED BY <1>0, <2>2, <2>3 DEF Vacates
<1>5. Listeners(room'[r].seats) = to
    <2> HIDE DEF seats
    <2>1. room'[r].seats = seats
        BY <1>1, Types DEF Changed, RoomState
    <2> QED BY <2>1
<1> HIDE DEF to, game, ended
<1>6. /\ pc'[s] \notin Holding /\ view'[s] = NoGame
      /\ \A t \in Session : t # s => pc'[t] = pc[t] /\ mine'[t] = mine[t] /\ view'[t] = view[t]
    BY <1>0, <1>1 DEF TypeOK, Holding
<1>7. \A t \in Session : Leads(ended, channel', t, to, game)
    <2>1. ASSUME NEW g \in SomeGame, NEW t \in Session
          PROVE  Leads(ended, Deliver(ended, to, "opponentLeft", g), t, to, g)
        BY <1>2, <1>3, DeliverLeads
    <2> QED BY <1>1, <1>2, <2>1
<1>8. ASSUME NEW t \in Session, t \in to PROVE IsFed(r, t)'
    <2> PICK y \in Side : room'[r].seats[y].connected /\ room'[r].seats[y].events = t
        BY <1>5, <1>8, ListenersAre
    <2>1. IsFed(r, t)
        BY <1>4 DEF Feed, SeatsAreFed
    <2>2. pc'[t] \in Attending => mine'[t] = r
        BY <1>6, <2>1 DEF IsFed, Attending, Holding
    <2>3. game = NoGame => view'[t] = NoGame /\ OnlyNoGame(channel'[t].queue)
        <3>1. game = NoGame => OnlyNoGame(ended[t].queue)
            BY <1>3, <2>1 DEF IsFed, OnlyNoGame, game
        <3> QED BY <1>6, <1>7, <2>1, <3>1 DEF IsFed, Leads, game
    <2>4. LeadsTo(channel'[t], view'[t], game)
        BY <1>7, <1>8 DEF Leads
    <2> QED BY <1>4, <2>2, <2>3, <2>4 DEF IsFed
<1>9. ASSUME NEW t \in Session, t \notin to PROVE Same(t) \/ HungUp(t)
    <2>1. CASE t = s
        BY <1>3, <1>6, <1>7, <1>9, <2>1 DEF HungUp, Leads
    <2>2. CASE t # s
        BY <1>3, <1>6, <1>7, <1>9, <2>2 DEF Same, Leads
    <2> QED BY <2>1, <2>2
<1> QED BY <1>4, <1>5, <1>8, <1>9, FedInRoom

-----------------------------------------------------------------------------
\* A session that is let in is sent the state of its room, like whoever sits
\* there already.
LetIn(s, r) ==
    /\ r \in RoomId /\ mine[s] = r
    /\ pc[s] = "picked" /\ pc' = [pc EXCEPT ![s] = "joined"]
    /\ UNCHANGED <<mine, view>>
    /\ \A q \in RoomId : q # r => room'[q] = room[q]
    /\ room'[r].game = NoGame => room[r].game = NoGame
    /\ s \in Listeners(room'[r].seats)
    /\ Listeners(room'[r].seats) \subseteq Listeners(room[r].seats) \cup {s}

Informs(s, to, game) ==
    \A t \in Session :
        IF t \in to
        THEN /\ \A v : LeadsTo(channel'[t], v, game)
             /\ game = NoGame /\ (t = s \/ OnlyNoGame(channel[t].queue)) => OnlyNoGame(channel'[t].queue)
        ELSE channel'[t] = channel[t]

\* A session that is let in, and all who listen, are sent the state of the
\* room.
LEMMA LetInFeeds ==
    ASSUME Inductive, Inductive', Feed, NEW s \in Session, NEW r, LetIn(s, r),
           Informs(s, Listeners(room'[r].seats), room'[r].game)
    PROVE  Feed'
<1> USE DEF LetIn
<1>1. pc'[s] = "joined" /\ \A t \in Session : t # s => pc'[t] = pc[t]
    BY DEF Inductive, TypeOK
<1>2. view[s] = NoGame
    BY DEF Feed, NothingShownYet, Outside
<1>3. ASSUME NEW t \in Session, t \in Listeners(room'[r].seats) PROVE IsFed(r, t)'
    <2>1. t # s => IsFed(r, t)
        BY <1>3, ListenersAre DEF Feed, SeatsAreFed
    <2>2. pc'[t] \in Attending => mine[t] = r
        BY <1>1, <2>1 DEF IsFed
    <2>3. room'[r].game = NoGame => view[t] = NoGame /\ OnlyNoGame(channel'[t].queue)
        BY <1>2, <1>3, <2>1 DEF IsFed, Informs
    <2>4. LeadsTo(channel'[t], view'[t], room'[r].game)
        BY <1>3 DEF Informs
    <2> QED BY <2>2, <2>3, <2>4 DEF IsFed
<1>4. ASSUME NEW t \in Session, t \notin Listeners(room'[r].seats) PROVE Same(t)
    BY <1>1, <1>4 DEF Same, Informs
<1> QED BY <1>3, <1>4, FedInRoom


\* What a session with a new channel, and others, are sent.
LEMMA FreshLeads ==
    ASSUME TypeOK, NEW s \in Session, NEW to, s \in to, NEW type \in EventType, NEW game \in SomeGame,
           channel' = Deliver([channel EXCEPT ![s] = NewChannel], to, type, game)
    PROVE  Informs(s, to, game)
<1> DEFINE fresh == [channel EXCEPT ![s] = NewChannel]
<1>1. channel \in [Session -> ChannelState] /\ NewChannel \in ChannelState /\ NewChannel.queue = <<>>
    BY Types DEF NewChannel, ChannelState
<1>2. /\ fresh \in [Session -> ChannelState] /\ OnlyNoGame(fresh[s].queue)
      /\ \A t \in Session : t # s => fresh[t] = channel[t]
    BY <1>1 DEF OnlyNoGame
<1>3. channel' = Deliver(fresh, to, type, game)
    OBVIOUS
<1> HIDE DEF fresh
<1> SUFFICES ASSUME NEW t \in Session
             PROVE  IF t \in to
                    THEN /\ \A v : LeadsTo(channel'[t], v, game)
                         /\ game = NoGame /\ (t = s \/ OnlyNoGame(channel[t].queue)) =>
                                OnlyNoGame(channel'[t].queue)
                    ELSE channel'[t] = channel[t]
    BY DEF Informs
<1>4. Leads(fresh, channel', t, to, game)
    BY <1>2, <1>3, DeliverLeads
<1> QED BY <1>2, <1>4 DEF Leads

\* The first player of a room.
LEMMA TakeFirstSeatFeeds ==
    ASSUME Inductive, Inductive', Feed, NEW s \in Session, TakeFirstSeat(s)
    PROVE  Feed'
<1> DEFINE r == mine[s]
<1>1. /\ TypeOK /\ Sits(s) /\ Taken(r) = {}
      /\ pc[s] = "picked" /\ pc' = [pc EXCEPT ![s] = "joined"]
      /\ UNCHANGED <<mine, view>>
      /\ room' = Changed(r, SeatsWith(s), "waiting")
      /\ channel' = Deliver([channel EXCEPT ![s] = NewChannel], {s}, "waiting", NoGame)
    BY DEF Inductive, TakeFirstSeat, Goto, Changed
<1>2. /\ r \in RoomId /\ room[r].game = NoGame
      /\ ~room[r].seats["light"].connected
      /\ SeatsWith(s) \in [Side -> Seat]
      /\ SeatsWith(s)["dark"] = [player |-> PlayerOf[s], events |-> s, connected |-> TRUE]
      /\ SeatsWith(s)["light"] = room[r].seats["light"]
    BY <1>1, SitsDown, Constants DEF SeatTaken, SeatConnected
<1>3. /\ room'[r].seats = SeatsWith(s) /\ room'[r].game = NoGame
      /\ \A q \in RoomId : q # r => room'[q] = room[q]
    <2>1. "waiting" \in RoomPhase
        BY DEF RoomPhase
    <2>2. /\ room'[r] = [seats |-> SeatsWith(s), phase |-> "waiting", game |-> room[r].game]
          /\ \A q \in RoomId : q # r => room'[q] = room[q]
        BY <1>1, <1>2, <2>1, RoomChanged
    <2> QED BY <1>2, <2>2
<1>4. Listeners(room'[r].seats) = {s}
    <2>1. Listeners(SeatsWith(s)) = {s}
        BY <1>2, ListenersAre, Constants
    <2> QED BY <1>3, <2>1
<1>5. LetIn(s, r)
    BY <1>1, <1>2, <1>3, <1>4 DEF LetIn
<1>6. Informs(s, {s}, NoGame)
    BY <1>1, FreshLeads DEF EventType, SomeGame
<1>7. Informs(s, Listeners(room'[r].seats), room'[r].game)
    BY <1>3, <1>4, <1>6
<1> QED BY <1>5, <1>7, LetInFeeds

\* The second player, with whom the game starts.
LEMMA StartMatchFeeds ==
    ASSUME Inductive, Inductive', Feed, NEW s \in Session, StartMatch(s)
    PROVE  Feed'
<1> DEFINE r == mine[s]
<1>1. /\ TypeOK /\ Sits(s) /\ Taken(r) # {}
      /\ pc[s] = "picked" /\ pc' = [pc EXCEPT ![s] = "joined"]
      /\ UNCHANGED <<mine, view>>
      /\ room' = [room EXCEPT ![r] = [seats |-> SeatsWith(s), phase |-> "playing", game |-> NewGame]]
      /\ channel' = Deliver([channel EXCEPT ![s] = NewChannel], Listeners(SeatsWith(s)), "matched", NewGame)
    BY DEF Inductive, StartMatch, Goto
<1>2. /\ r \in RoomId
      /\ room[r].seats["dark"].connected
      /\ SeatsWith(s)["light"] = [player |-> PlayerOf[s], events |-> s, connected |-> TRUE]
      /\ SeatsWith(s)["dark"] = room[r].seats["dark"]
    BY <1>1, SitsDown, Constants DEF SeatTaken, SeatConnected
<1>3. /\ room'[r].seats = SeatsWith(s) /\ room'[r].game = NewGame
      /\ \A q \in RoomId : q # r => room'[q] = room[q]
    BY <1>1, <1>2 DEF TypeOK
<1>4. /\ s \in Listeners(SeatsWith(s))
      /\ Listeners(SeatsWith(s)) \subseteq Listeners(room[r].seats) \cup {s}
    BY <1>2, ListenersAre, Constants
<1>5. NewGame # NoGame /\ NewGame \in SomeGame /\ "matched" \in EventType
    BY Constants DEF NewGame, NoGame, SomeGame, EventType
<1>6. LetIn(s, r)
    BY <1>1, <1>2, <1>3, <1>4, <1>5 DEF LetIn
<1>7. Informs(s, Listeners(SeatsWith(s)), NewGame)
    BY <1>1, <1>4, <1>5, FreshLeads
<1>8. Informs(s, Listeners(room'[r].seats), room'[r].game)
    BY <1>3, <1>7
<1> QED BY <1>6, <1>8, LetInFeeds

\* A player who comes back to its seat.
LEMMA ReconnectFeeds ==
    ASSUME Inductive, Inductive', Feed, NEW s \in Session, Reconnect(s)
    PROVE  Feed'
<1> DEFINE r     == mine[s]
           x     == SeatOf(r, PlayerOf[s])
           seats == [room[r].seats EXCEPT ![x].events = s, ![x].connected = TRUE]
           both  == Taken(r) = Side /\ ConnectedIn(seats) = Side
           phase == IF room[r].phase = "suspended" /\ both THEN "playing" ELSE room[r].phase
           fresh == [channel EXCEPT ![s] = NewChannel]
           told  == Deliver(fresh, {s}, "state", room[r].game)
           to    == Listeners(seats)
<1>1. /\ TypeOK /\ Seated(r, PlayerOf[s])
      /\ pc[s] = "picked" /\ pc' = [pc EXCEPT ![s] = "joined"]
      /\ UNCHANGED <<mine, view>>
      /\ channel' = Deliver(told, to \ {s}, "opponentReturned", room[r].game)
    BY DEF Inductive, Reconnect, Goto
<1>2. r \in RoomId /\ x \in Side
    BY <1>1, DealtRoom, SeatIsChosen
<1>3. /\ room[r] \in RoomState /\ room[r].seats \in [Side -> Seat] /\ room[r].game \in SomeGame
      /\ room \in [RoomId -> RoomState] /\ channel \in [Session -> ChannelState]
    BY <1>1, <1>2, Types DEF RoomState
<1>4. /\ seats[x].events = s /\ seats[x].connected
      /\ \A y \in Side : y # x => seats[y] = room[r].seats[y]
    <2>1. seats = [room[r].seats EXCEPT ![x] = [room[r].seats[x] EXCEPT !.events = s, !.connected = TRUE]]
        BY <1>2, <1>3
    <2> DEFINE new == [room[r].seats[x] EXCEPT !.events = s, !.connected = TRUE]
    <2>2. new.events = s /\ new.connected = TRUE
        BY <1>2, <1>3 DEF Seat
    <2> HIDE DEF seats, new
    <2>3. seats = [room[r].seats EXCEPT ![x] = new]
        BY <2>1 DEF new
    <2> QED BY <1>2, <1>3, <2>2, <2>3
<1>5. room' = [room EXCEPT ![r].seats = seats, ![r].phase = IF @ = "suspended" /\ both THEN "playing" ELSE @]
    BY DEF Reconnect
<1> HIDE DEF seats, both
<1>6. /\ room'[r].seats = seats /\ room'[r].game = room[r].game
      /\ \A q \in RoomId : q # r => room'[q] = room[q]
    BY <1>2, <1>3, <1>5 DEF RoomState
<1>7. s \in to /\ to \subseteq Listeners(room[r].seats) \cup {s}
    BY <1>2, <1>4, ListenersAre
<1>8. LetIn(s, r)
    BY <1>1, <1>2, <1>6, <1>7 DEF LetIn
<1> HIDE DEF to
<1>9. ASSUME NEW g \in SomeGame, g = room[r].game PROVE Informs(s, to, g)
    <2>1. /\ fresh \in [Session -> ChannelState] /\ OnlyNoGame(fresh[s].queue)
          /\ \A t \in Session : t # s => fresh[t] = channel[t]
        BY <1>3 DEF NewChannel, ChannelState, OnlyNoGame
    <2> HIDE DEF fresh
    <2>2. told \in [Session -> ChannelState]
        BY <1>3, <2>1, DeliverKeepsOpen DEF EventType
    <2>3. \A t \in Session : Leads(fresh, told, t, {s}, g)
        <3>1. "state" \in EventType /\ told = Deliver(fresh, {s}, "state", g)
            BY <1>9 DEF EventType
        <3> QED BY <2>1, <3>1, DeliverLeads
    <2> HIDE DEF told
    <2>5. \A t \in Session : Leads(told, channel', t, to \ {s}, g)
        <3>1. "opponentReturned" \in EventType /\ channel' = Deliver(told, to \ {s}, "opponentReturned", g)
            BY <1>1, <1>9 DEF EventType
        <3> QED BY <2>2, <3>1, DeliverLeads
    <2> QED BY <1>7, <2>1, <2>3, <2>5 DEF Informs, Leads
<1>10. Informs(s, Listeners(room'[r].seats), room'[r].game)
    BY <1>3, <1>6, <1>9 DEF to
<1> QED BY <1>8, <1>10, LetInFeeds

-----------------------------------------------------------------------------
\* Every step keeps the feed.
LEMMA NextFeeds == Inductive /\ Inductive' /\ Feed /\ [Next]_vars => Feed'
<1> SUFFICES ASSUME Inductive, Inductive', Feed, [Next]_vars PROVE Feed'
    OBVIOUS
<1>1. ASSUME NEW s \in Session, Join(s) PROVE Feed'
    BY <1>1, JoinStepsFeed, ReconnectFeeds, TakeFirstSeatFeeds, StartMatchFeeds DEF Join
<1>2. ASSUME NEW s \in Session, Submit(s) \/ Accept(s) \/ Reject(s) \/ SubmitFails(s) \/ Receive(s)
      PROVE  Feed'
    BY <1>2, SessionStepsFeed, AcceptFeeds, RejectFeeds, ReceiveFeeds
<1>3. ASSUME NEW s \in Session, LeaveUnknown(s) \/ Leave(s) \/ RoomLeave(s) \/ Forget(s)
      PROVE  Feed'
    BY <1>3, LeaveUnknownFeeds, SessionStepsFeed, RoomLeaveFeeds
<1>4. ASSUME Close \/ UNCHANGED vars \/ \E r \in RoomId : RoomClose(r) PROVE Feed'
    BY <1>4, CloseFeeds, RoomCloseFeeds
<1> QED BY <1>1, <1>2, <1>3, <1>4 DEF Next

\* What is queued for a connected client ends with the current state of its
\* game, and with an empty queue the client shows it, unless the last event
\* did not fit (Room.deliver, the writer of handleMatch): for any number of
\* sessions, any capacity of the channels and any interleaving.
THEOREM QueuesEndCurrent == Spec => []QueueEndsCurrent
<1>1. Inductive /\ Feed => QueueEndsCurrent
    BY DEF Feed, SeatsAreFed, IsFed, LeadsTo, QueueEndsCurrent
<1>2. Spec => []Feed
    BY InitFeeds, NextFeeds, MatchInduction, PTL DEF Spec
<1> QED BY <1>1, <1>2, MatchInduction, PTL

-----------------------------------------------------------------------------
\* What Manager guarantees until it is closed: a session keeps its seat, a
\* player has one seat, at most one room waits for an opponent, and no room is
\* left behind.  The inductive invariant, besides that of the rooms.

\* The seat that a session holds, and the session of a connected seat.
SeatFor(s) == [player |-> PlayerOf[s], events |-> s, connected |-> TRUE]

OwnSeats ==
    \A s \in Session : pc[s] \in Holding => \E x \in Side : room[mine[s]].seats[x] = SeatFor(s)

SeatsAreHeld ==
    \A r \in RoomId, x \in Side :
        LET s == room[r].seats[x].events
        IN  SeatConnected(r, x) => pc[s] \in Holding /\ mine[s] = r

\* The index of players knows the room of a session that was let in.
Registered ==
    \A s \in Session : pc[s] \in {"serving", "submitting", "leaving"} => players[PlayerOf[s]] = mine[s]

SeatsAreIndexed ==
    \A p \in PlayerId, r \in rooms : SitsIn(r, p) =>
        \/ players[p] = r
        \/ \E s \in Session : pc[s] = "joined" /\ PlayerOf[s] = p /\ mine[s] = r

\* A session that joins was given the room where its player sits, if any.
JoinsOwnRoom ==
    \A s \in Session, r \in rooms :
        pc[s] \in {"picked", "joined"} /\ SitsIn(r, PlayerOf[s]) => mine[s] = r

\* One session only is to remove a room that was left.
EmptiedOnce ==
    /\ \A s \in Session : pc[s] = "emptied" => mine[s] \in rooms
    /\ \A s \in Session, t \in Session :
          pc[s] = "emptied" /\ pc[t] = "emptied" /\ mine[s] = mine[t] => s = t

\* Every room in the map has a session that is to remove it, or to leave it
\* first, or, when nobody sits there yet, to sit down.
Used(r) == \E x \in Side : SeatTaken(r, x)

Minds(s, r) ==
    /\ mine[s] = r
    /\ \/ pc[s] \in Holding \cup {"emptied"}
       \/ pc[s] \in {"picked", "refused"} /\ ~Used(r)

RoomsAreMinded == \A r \in rooms : \E s \in Session : Minds(s, r)

IndexIsInMap ==
    /\ \A p \in PlayerId : players[p] # NoRoom => players[p] \in rooms
    /\ waiting # NoRoom => waiting \in rooms

\* The manager knows the room that waits, or is about to.
WaitingIsKnown ==
    /\ \A r \in rooms : room[r].phase = "waiting" /\ Used(r) => waiting = r
    /\ \A s \in Session : pc[s] = "picked" /\ ~Used(mine[s]) => waiting = mine[s]

Unclosed ==
    /\ closing = {}
    /\ OwnSeats
    /\ SeatsAreHeld
    /\ Registered
    /\ SeatsAreIndexed
    /\ JoinsOwnRoom
    /\ EmptiedOnce
    /\ RoomsAreMinded
    /\ IndexIsInMap
    /\ WaitingIsKnown

Pairing == closes = 0 => Unclosed

-----------------------------------------------------------------------------
\* Facts that the steps share.

\* A session with a seat of its own keeps its room in the map.
LEMMA HoldingInMap ==
    ASSUME Inductive, Unclosed, NEW s \in Session, pc[s] \in Holding
    PROVE  /\ mine[s] \in RoomId /\ mine[s] \in rooms
           /\ \E x \in Side : /\ room[mine[s]].seats[x].player = PlayerOf[s]
                              /\ room[mine[s]].seats[x].events = s
                              /\ SeatConnected(mine[s], x)
           /\ SitsIn(mine[s], PlayerOf[s])
<1>1. mine[s] \in RoomId
    BY DealtRoom DEF Holding
<1> PICK x \in Side : room[mine[s]].seats[x] = SeatFor(s)
    BY DEF Unclosed, OwnSeats
<1>2. /\ room[mine[s]].seats[x].player = PlayerOf[s]
      /\ room[mine[s]].seats[x].events = s
      /\ SeatConnected(mine[s], x)
    BY DEF SeatFor, SeatConnected
<1>3. mine[s] \in rooms
    BY <1>1, <1>2 DEF Inductive, RoomsAreReached, Unclosed
<1> QED BY <1>1, <1>2, <1>3 DEF SitsIn

\* Only one session at a time is in Join.
LEMMA JoinsAlone ==
    ASSUME Inductive, NEW s \in Session, pc[s] \in InJoin, NEW t \in Session, pc[t] \in InJoin
    PROVE  s = t
BY DEF Inductive, LockIsHeld

-----------------------------------------------------------------------------
\* Steps that leave the seats and the maps alone.

\* A session that holds its seat goes on; seats and maps stay.
LEMMA SeatsStay ==
    ASSUME Inductive, Unclosed, NEW s \in Session,
           UNCHANGED <<rooms, players, waiting, closing>>,
           \A t \in Session : mine'[t] = mine[t],
           \A t \in Session : t # s => pc'[t] = pc[t],
           \/ pc'[s] = pc[s]
           \/ pc[s] = "picked" /\ pc'[s] = "refused"
           \/ pc[s] \in {"serving", "submitting"} /\ pc'[s] \in {"serving", "submitting", "leaving"},
           \A q \in RoomId : /\ room'[q].seats = room[q].seats
                             /\ room'[q].phase = "waiting" => room[q].phase = "waiting"
    PROVE  Unclosed'
<1>1. \A t \in Session : /\ pc'[t] \in Holding <=> pc[t] \in Holding
                         /\ pc'[t] \in {"joined", "emptied", "picked"} => pc[t] = pc'[t]
                         /\ pc[t] \in {"joined", "emptied"} => pc[t] = pc'[t]
                         /\ pc[t] \in {"picked", "refused"} => pc'[t] \in {"picked", "refused"}
                         /\ pc'[t] \in {"serving", "submitting", "leaving"} =>
                                pc[t] \in {"serving", "submitting", "leaving"}
    BY DEF Holding
<1>2. \A t \in Session : pc[t] \notin Idle => mine[t] \in RoomId
    BY DealtRoom DEF Idle, Inductive, TypeOK
<1>3. rooms \subseteq RoomId
    BY DEF Inductive, TypeOK
<1>4. \A q \in RoomId : /\ \A p : SitsIn(q, p)' <=> SitsIn(q, p)
                        /\ Used(q)' <=> Used(q)
    BY DEF SitsIn, Used, SeatTaken
<1>5. OwnSeats'
    <2> SUFFICES ASSUME NEW t \in Session, pc'[t] \in Holding
                 PROVE  \E x \in Side : room'[mine'[t]].seats[x] = SeatFor(t)
        BY DEF OwnSeats, SeatFor
    <2>1. pc[t] \in Holding /\ mine[t] \in RoomId
        BY <1>1, HoldingInMap
    <2> QED BY <2>1 DEF Unclosed, OwnSeats
<1>6. SeatsAreHeld'
    <2> SUFFICES ASSUME NEW r \in RoomId, NEW x \in Side, room'[r].seats[x].connected
                 PROVE  pc'[room'[r].seats[x].events] \in Holding /\ mine'[room'[r].seats[x].events] = r
        BY DEF SeatsAreHeld, SeatConnected
    <2>1. room[r].seats[x].connected /\ room'[r].seats[x].events = room[r].seats[x].events
        OBVIOUS
    <2>2. room[r].seats[x].events \in Session
        BY <2>1 DEF Inductive, SeatsAreSound, SeatIsSound
    <2> QED BY <1>1, <2>1, <2>2 DEF Unclosed, SeatsAreHeld, SeatConnected
<1>7. Registered'
    BY <1>1 DEF Unclosed, Registered
<1>8. SeatsAreIndexed'
    <2> SUFFICES ASSUME NEW p \in PlayerId, NEW r \in rooms, SitsIn(r, p)'
                 PROVE  \/ players'[p] = r
                        \/ \E t \in Session : pc'[t] = "joined" /\ PlayerOf[t] = p /\ mine'[t] = r
        BY DEF SeatsAreIndexed
    <2>1. SitsIn(r, p)
        BY <1>3, <1>4
    <2> QED BY <1>1, <2>1 DEF Unclosed, SeatsAreIndexed
<1>9. JoinsOwnRoom'
    <2> SUFFICES ASSUME NEW t \in Session, NEW r \in rooms, pc'[t] \in {"picked", "joined"},
                        SitsIn(r, PlayerOf[t])'
                 PROVE  mine'[t] = r
        BY DEF JoinsOwnRoom
    <2> QED BY <1>1, <1>3, <1>4 DEF Unclosed, JoinsOwnRoom
<1>10. EmptiedOnce'
    BY <1>1 DEF Unclosed, EmptiedOnce
<1>11. RoomsAreMinded'
    <2> SUFFICES ASSUME NEW r \in rooms PROVE \E t \in Session : Minds(t, r)'
        BY DEF RoomsAreMinded
    <2>1. PICK t \in Session : Minds(t, r)
        BY DEF Unclosed, RoomsAreMinded
    <2>2. Minds(t, r)'
        BY <1>1, <1>3, <1>4, <2>1 DEF Minds
    <2> QED BY <2>2
<1>12. IndexIsInMap'
    BY DEF Unclosed, IndexIsInMap
<1>13. WaitingIsKnown'
    <2>1. \A r \in rooms : room'[r].phase = "waiting" /\ Used(r)' => waiting = r
        BY <1>3, <1>4 DEF Unclosed, WaitingIsKnown
    <2>2. ASSUME NEW t \in Session, pc'[t] = "picked", ~Used(mine[t])' PROVE waiting = mine[t]
        <3>1. pc[t] = "picked" /\ mine[t] \in RoomId
            BY <1>1, <2>2, DealtRoom
        <3>2. ASSUME NEW r \in RoomId, r = mine[t] PROVE ~Used(r)
            BY <1>4, <2>2, <3>2 DEF Used, SeatTaken
        <3> QED BY <3>1, <3>2 DEF Unclosed, WaitingIsKnown
    <2> QED BY <2>1, <2>2 DEF WaitingIsKnown
<1> QED BY <1>5, <1>6, <1>7, <1>8, <1>9, <1>10, <1>11, <1>12, <1>13 DEF Unclosed

\* Until the manager is closed a session that leaves is in the index.
LEMMA NeverUnknown ==
    ASSUME Inductive, Unclosed, NEW s \in Session, LeaveUnknown(s)
    PROVE  FALSE
<1>1. pc[s] = "serving" /\ players[PlayerOf[s]] \notin rooms
    BY DEF LeaveUnknown, Goto
<1>2. players[PlayerOf[s]] = mine[s]
    BY <1>1 DEF Unclosed, Registered
<1> QED BY <1>1, <1>2, HoldingInMap DEF Holding

\* Steps that keep the rooms.
LEMMA QuietPairs ==
    ASSUME Inductive, Unclosed, NEW s \in Session, Quiet(s)
    PROVE  Unclosed'
<1>1. ~LeaveUnknown(s)
    BY NeverUnknown
<1>2. UNCHANGED <<rooms, players, waiting, closing, room>> /\ pc' = [pc EXCEPT ![s] = pc'[s]]
    BY QuietGoes
<1>3. \A t \in Session : mine'[t] = mine[t]
    BY <1>1 DEF Quiet, JoinRefused, StartFails, Submit, Reject, SubmitFails, Receive, sessionVars
<1>4. /\ \A t \in Session : t # s => pc'[t] = pc[t]
      /\ \/ pc'[s] = pc[s]
         \/ pc[s] = "picked" /\ pc'[s] = "refused"
         \/ pc[s] \in {"serving", "submitting"} /\ pc'[s] \in {"serving", "submitting", "leaving"}
    <2>1. TypeOK
        BY DEF Inductive
    <2>2. mine[s] # NoRoom
        BY DealtRoom, Constants DEF NoRoom, Quiet, JoinRefused, StartFails, Submit, Reject,
               SubmitFails, LeaveUnknown, Receive, Goto
    <2>3. pc'[s] # "done"
        BY <1>3, <2>2, QuietGoes
    <2> QED BY <1>2, <2>1, <2>3, QuietGoes DEF TypeOK
<1> QED BY <1>2, <1>3, <1>4, SeatsStay

\* Leave of a session that has a seat.
LEMMA LeavePairs ==
    ASSUME Inductive, Unclosed, NEW s \in Session, Leave(s)
    PROVE  Unclosed'
<1>1. /\ TypeOK /\ pc[s] = "serving" /\ pc' = [pc EXCEPT ![s] = "leaving"]
      /\ mine' = [mine EXCEPT ![s] = players[PlayerOf[s]]]
      /\ UNCHANGED <<rooms, players, waiting, closing, room>>
    BY DEF Inductive, Leave, Goto, managerVars, closeVars
<1>2. players[PlayerOf[s]] = mine[s]
    BY <1>1 DEF Unclosed, Registered
<1>3. \A t \in Session : mine'[t] = mine[t]
    BY <1>1, <1>2 DEF TypeOK
<1>4. pc'[s] = "leaving" /\ \A t \in Session : t # s => pc'[t] = pc[t]
    BY <1>1 DEF TypeOK
<1> QED BY <1>1, <1>3, <1>4, SeatsStay

\* An accepted command changes the game of a room and perhaps ends it.
LEMMA AcceptPairs ==
    ASSUME Inductive, Unclosed, NEW s \in Session, Accept(s)
    PROVE  Unclosed'
<1>1. /\ TypeOK /\ pc[s] = "submitting" /\ pc' = [pc EXCEPT ![s] = "serving"]
      /\ UNCHANGED <<rooms, players, waiting, closing, mine>>
    BY DEF Inductive, Accept, Goto, managerVars, closeVars
<1>2. \A q \in RoomId : /\ room'[q].seats = room[q].seats
                        /\ room'[q].phase = "waiting" => room[q].phase = "waiting"
    BY AcceptAdvances
<1>3. pc'[s] = "serving" /\ \A t \in Session : t # s => pc'[t] = pc[t]
    BY <1>1 DEF TypeOK
<1> QED BY <1>1, <1>2, <1>3, SeatsStay


-----------------------------------------------------------------------------
\* Steps of the manager.

\* The three ways in which Join finds a room.
LEMMA RoomIsGiven ==
    ASSUME Inductive, Unclosed, NEW s \in Session, RoomForJoin(s)
    PROVE  \E r \in RoomId :
              /\ mine' = [mine EXCEPT ![s] = r]
              /\ rooms' = rooms \cup {r}
              /\ players' = players
              /\ \/ r \in rooms /\ players[PlayerOf[s]] = r /\ SitsIn(r, PlayerOf[s]) /\ waiting' = waiting
                 \/ r \in rooms /\ players[PlayerOf[s]] = NoRoom /\ waiting = r /\ waiting' = r
                 \/ /\ r \notin rooms /\ players[PlayerOf[s]] = NoRoom /\ waiting' = r
                    /\ \A x \in Side : room[r].seats[x].player = Nobody
                    /\ \A q \in rooms : ~(room[q].phase = "waiting" /\ Used(q))
<1> DEFINE p      == PlayerOf[s]
           known  == players[p] # NoRoom /\ players[p] \in rooms
           open   == waiting \in rooms /\ room[waiting].phase # "closed"
           r      == IF known THEN players[p] ELSE IF open THEN waiting ELSE nextID + 1
<1>1. TypeOK /\ p \in PlayerId
    BY Constants DEF Inductive
<1>2. /\ mine' = [mine EXCEPT ![s] = r]
      /\ players' = IF known THEN players ELSE [players EXCEPT ![p] = NoRoom]
      /\ waiting' = IF known THEN waiting ELSE r
      /\ rooms' = rooms \cup {r}
    BY DEF RoomForJoin
<1>3. r \in RoomId
    <2>1. mine'[s] = r /\ r # NoRoom
        BY <1>1, <1>2 DEF TypeOK, Inductive, RoomsCreated, NoRoom
    <2>2. mine'[s] \in RoomId
        BY <1>1, RoomIsFound DEF TypeOK
    <2> QED BY <2>1, <2>2
<1>4. ~known => players[p] = NoRoom
    BY <1>1 DEF Unclosed, IndexIsInMap
<1>5. players' = players
    BY <1>1, <1>2, <1>4 DEF TypeOK
<1>6. CASE known
    <2>1. SitsIn(r, p)
        BY <1>1, <1>6 DEF Inductive, IndexedSits
    <2> QED BY <1>2, <1>3, <1>5, <1>6, <2>1
<1>7. CASE ~known /\ open
    BY <1>2, <1>3, <1>4, <1>5, <1>7
<1>8. CASE ~known /\ ~open
    <2>1. r = nextID + 1 /\ nextID \in Nat
        BY <1>1, <1>8 DEF TypeOK
    <2>2. r \notin rooms /\ room[r] = NewRoom
        BY <1>3, <2>1 DEF Inductive, RoomsCreated
    <2>3. \A x \in Side : room[r].seats[x].player = Nobody
        BY <2>2 DEF NewRoom, EmptySeat
    <2>4. \A q \in rooms : ~(room[q].phase = "waiting" /\ Used(q))
        BY <1>8 DEF Unclosed, WaitingIsKnown
    <2> QED BY <1>2, <1>3, <1>4, <1>5, <1>8, <2>2, <2>3, <2>4
<1> QED BY <1>6, <1>7, <1>8

\* Join picks the room of the player, the one that waits, or a new one.
LEMMA RoomForJoinPairs ==
    ASSUME Inductive, Unclosed, NEW s \in Session, RoomForJoin(s)
    PROVE  Unclosed'
<1> DEFINE p == PlayerOf[s]
<1>0. PICK r \in RoomId :
              /\ mine' = [mine EXCEPT ![s] = r]
              /\ rooms' = rooms \cup {r}
              /\ players' = players
              /\ \/ r \in rooms /\ players[p] = r /\ SitsIn(r, p) /\ waiting' = waiting
                 \/ r \in rooms /\ players[p] = NoRoom /\ waiting = r /\ waiting' = r
                 \/ /\ r \notin rooms /\ players[p] = NoRoom /\ waiting' = r
                    /\ \A x \in Side : room[r].seats[x].player = Nobody
                    /\ \A q \in rooms : ~(room[q].phase = "waiting" /\ Used(q))
    BY RoomIsGiven
<1>1. /\ TypeOK /\ joinMu = Nobody
      /\ pc[s] = "start" /\ pc' = [pc EXCEPT ![s] = "picked"]
      /\ UNCHANGED <<closing, room>>
    BY DEF Inductive, RoomForJoin, Goto, closeVars
<1>2. /\ pc'[s] = "picked" /\ mine'[s] = r
      /\ \A t \in Session : t # s => pc'[t] = pc[t] /\ mine'[t] = mine[t]
    BY <1>0, <1>1 DEF TypeOK
<1>3. \A t \in Session : pc[t] \notin InJoin
    BY <1>1, Constants DEF Inductive, LockIsHeld
<1>4. r \notin rooms => ~Used(r) /\ \A o \in PlayerId : ~SitsIn(r, o)
    BY <1>0, Constants DEF Used, SeatTaken, SitsIn, Inductive, IndexedSits
<1>5. \A q : /\ Used(q)' <=> Used(q)
             /\ \A o : SitsIn(q, o)' <=> SitsIn(q, o)
             /\ \A x : SeatConnected(q, x)' <=> SeatConnected(q, x)
    BY <1>1 DEF Used, SeatTaken, SitsIn, SeatConnected
<1>6. OwnSeats' /\ Registered'
    BY <1>0, <1>1, <1>2 DEF Unclosed, OwnSeats, Registered, SeatFor, Holding
<1>7. SeatsAreHeld'
    <2> SUFFICES ASSUME NEW q \in RoomId, NEW x \in Side, SeatConnected(q, x)
                 PROVE  pc'[room[q].seats[x].events] \in Holding /\ mine'[room[q].seats[x].events] = q
        BY <1>1, <1>5 DEF SeatsAreHeld
    <2>1. room[q].seats[x].events \in Session
        BY DEF Inductive, SeatsAreSound, SeatIsSound, SeatConnected
    <2>2. pc[room[q].seats[x].events] \in Holding /\ mine[room[q].seats[x].events] = q
        BY DEF Unclosed, SeatsAreHeld
    <2> QED BY <1>1, <1>2, <2>1, <2>2 DEF Holding
<1>8. SeatsAreIndexed'
    <2> SUFFICES ASSUME NEW o \in PlayerId, NEW q \in rooms', SitsIn(q, o)
                 PROVE  \/ players'[o] = q
                        \/ \E t \in Session : pc'[t] = "joined" /\ PlayerOf[t] = o /\ mine'[t] = q
        BY <1>5 DEF SeatsAreIndexed
    <2>1. q \in rooms
        BY <1>0, <1>4
    <2>2. players[o] = q
        BY <1>3, <2>1 DEF Unclosed, SeatsAreIndexed, InJoin
    <2> QED BY <1>0, <2>2
<1>9. JoinsOwnRoom'
    <2> SUFFICES ASSUME NEW t \in Session, NEW q \in rooms', pc'[t] \in {"picked", "joined"},
                        SitsIn(q, PlayerOf[t])
                 PROVE  mine'[t] = q
        BY <1>5 DEF JoinsOwnRoom
    <2>1. t = s
        BY <1>2, <1>3 DEF InJoin
    <2>2. q \in rooms
        BY <1>0, <1>4, Constants
    <2>3. players[p] = q
        BY <1>3, <2>1, <2>2, Constants DEF Unclosed, SeatsAreIndexed, InJoin
    <2>4. q # NoRoom
        BY <1>1, <2>2, Constants DEF TypeOK, NoRoom
    <2> QED BY <1>0, <1>2, <2>1, <2>3, <2>4
<1>10. EmptiedOnce'
    BY <1>0, <1>2 DEF Unclosed, EmptiedOnce
<1>11. RoomsAreMinded'
    <2> SUFFICES ASSUME NEW q \in rooms' PROVE \E t \in Session : Minds(t, q)'
        BY DEF RoomsAreMinded
    <2>1. CASE q \in rooms
        <3>1. PICK t \in Session : Minds(t, q)
            BY <2>1 DEF Unclosed, RoomsAreMinded
        <3>2. t # s
            BY <1>1, <3>1 DEF Minds, Holding
        <3>3. Minds(t, q)'
            BY <1>2, <1>5, <3>1, <3>2 DEF Minds
        <3> QED BY <3>3
    <2>2. CASE q \notin rooms
        <3>1. q = r /\ ~Used(q)'
            BY <1>0, <1>4, <1>5, <2>2
        <3>2. Minds(s, q)'
            BY <1>2, <3>1 DEF Minds
        <3> QED BY <3>2
    <2> QED BY <2>1, <2>2
<1>12. IndexIsInMap'
    BY <1>0 DEF Unclosed, IndexIsInMap
<1>13. WaitingIsKnown'
    <2>1. \A q \in rooms' : room'[q].phase = "waiting" /\ Used(q)' => waiting' = q
        BY <1>0, <1>1, <1>4, <1>5 DEF Unclosed, WaitingIsKnown
    <2>2. ASSUME NEW t \in Session, pc'[t] = "picked", NEW q, q = mine'[t], ~Used(q)
          PROVE  waiting' = q
        <3>1. t = s /\ q = r
            BY <1>2, <1>3, <2>2 DEF InJoin
        <3>2. ~SitsIn(r, p)
            BY <2>2, <3>1, Constants DEF Used, SeatTaken, SitsIn
        <3> QED BY <1>0, <3>1, <3>2
    <2>3. ASSUME NEW t \in Session, pc'[t] = "picked", ~Used(mine[t])'
          PROVE  waiting' = mine'[t]
        <3>1. ASSUME NEW q, q = mine'[t] PROVE ~Used(q)
            BY <1>1, <2>3, <3>1 DEF Used, SeatTaken
        <3> QED BY <2>2, <2>3, <3>1
    <2> QED BY <2>1, <2>3 DEF WaitingIsKnown
<1> QED BY <1>1, <1>6, <1>7, <1>8, <1>9, <1>10, <1>11, <1>12, <1>13 DEF Unclosed


\* Join enters the player in the index.
LEMMA RegisterPairs ==
    ASSUME Inductive, Unclosed, NEW s \in Session, Register(s)
    PROVE  Unclosed'
<1> DEFINE p == PlayerOf[s]
<1>0. PICK r \in RoomId : r = mine[s]
    BY DealtRoom DEF Register, Goto
<1>1. /\ TypeOK /\ p \in PlayerId
      /\ pc[s] = "joined" /\ pc' = [pc EXCEPT ![s] = "serving"]
      /\ players' = [players EXCEPT ![p] = r]
      /\ waiting' = IF Taken(r) = Side /\ waiting = r THEN NoRoom ELSE waiting
      /\ UNCHANGED <<rooms, closing, room, mine>>
    BY <1>0, Constants DEF Inductive, Register, Goto, closeVars
<1>2. /\ pc'[s] = "serving" /\ \A t \in Session : t # s => pc'[t] = pc[t]
      /\ players'[p] = r /\ \A o \in PlayerId : o # p => players'[o] = players[o]
    BY <1>1 DEF TypeOK
<1>3. r \in rooms /\ SitsIn(r, p)
    BY <1>0, <1>1, HoldingInMap DEF Holding
<1>4. \A t \in Session : t # s => pc[t] \notin InJoin
    BY <1>1, JoinsAlone DEF InJoin
<1>5. \A q \in rooms : SitsIn(q, p) => q = r
    BY <1>0, <1>1 DEF Unclosed, JoinsOwnRoom
<1>6. \A q : /\ Used(q)' <=> Used(q)
             /\ \A o : SitsIn(q, o)' <=> SitsIn(q, o)
             /\ \A x : SeatConnected(q, x)' <=> SeatConnected(q, x)
    BY <1>1 DEF Used, SeatTaken, SitsIn, SeatConnected
<1>7. OwnSeats'
    BY <1>1, <1>2 DEF Unclosed, OwnSeats, SeatFor, Holding
<1>8. SeatsAreHeld'
    <2> SUFFICES ASSUME NEW q \in RoomId, NEW x \in Side, SeatConnected(q, x)
                 PROVE  pc'[room[q].seats[x].events] \in Holding /\ mine[room[q].seats[x].events] = q
        BY <1>1, <1>6 DEF SeatsAreHeld
    <2>1. room[q].seats[x].events \in Session
        BY DEF Inductive, SeatsAreSound, SeatIsSound, SeatConnected
    <2>2. pc[room[q].seats[x].events] \in Holding /\ mine[room[q].seats[x].events] = q
        BY DEF Unclosed, SeatsAreHeld
    <2> QED BY <1>2, <2>1, <2>2 DEF Holding
<1>9. Registered'
    <2> SUFFICES ASSUME NEW t \in Session, t # s, pc[t] \in {"serving", "submitting", "leaving"}
                 PROVE  players'[PlayerOf[t]] = mine[t]
        BY <1>0, <1>1, <1>2 DEF Registered
    <2>1. players[PlayerOf[t]] = mine[t]
        BY DEF Unclosed, Registered
    <2>2. mine[t] \in rooms /\ SitsIn(mine[t], PlayerOf[t])
        BY HoldingInMap DEF Holding
    <2> QED BY <1>2, <1>5, <2>1, <2>2, Constants
<1>10. SeatsAreIndexed'
    <2> SUFFICES ASSUME NEW o \in PlayerId, NEW q \in rooms, SitsIn(q, o)
                 PROVE  players'[o] = q
        BY <1>1, <1>6 DEF SeatsAreIndexed
    <2>1. CASE o = p
        BY <1>2, <1>5, <2>1
    <2>2. CASE o # p
        BY <1>1, <1>2, <1>4, <2>2 DEF Unclosed, SeatsAreIndexed, InJoin
    <2> QED BY <2>1, <2>2
<1>11. JoinsOwnRoom'
    BY <1>2, <1>4 DEF JoinsOwnRoom, InJoin
<1>12. EmptiedOnce'
    BY <1>1, <1>2 DEF Unclosed, EmptiedOnce
<1>13. RoomsAreMinded'
    <2> SUFFICES ASSUME NEW q \in rooms PROVE \E t \in Session : Minds(t, q)'
        BY <1>1 DEF RoomsAreMinded
    <2>1. PICK t \in Session : Minds(t, q)
        BY DEF Unclosed, RoomsAreMinded
    <2>2. Minds(t, q)'
        BY <1>1, <1>2, <1>6, <2>1 DEF Minds, Holding
    <2> QED BY <2>2
<1>14. IndexIsInMap'
    BY <1>1, <1>2, <1>3 DEF Unclosed, IndexIsInMap
<1>15. WaitingIsKnown'
    <2>1. ASSUME NEW q \in rooms, room[q].phase = "waiting", Used(q) PROVE waiting' = q
        <3>1. waiting = q /\ q \in RoomId
            BY <1>1, <2>1 DEF Unclosed, WaitingIsKnown, TypeOK
        <3>2. ~SeatTaken(q, "light")
            BY <2>1, <3>1 DEF Inductive, PhasesAreSound, PhaseIsSound
        <3>3. Taken(q) # Side
            BY <3>2, Constants DEF Taken, SeatTaken
        <3> QED BY <1>1, <3>1, <3>3
    <2> QED BY <1>1, <1>2, <1>4, <1>6, <2>1 DEF WaitingIsKnown, InJoin
<1> QED BY <1>1, <1>7, <1>8, <1>9, <1>10, <1>11, <1>12, <1>13, <1>14, <1>15 DEF Unclosed

\* A session that is turned away drops its room only when nobody sits there.
LEMMA ReleasePairs ==
    ASSUME Inductive, Unclosed, NEW s \in Session, ReleaseOnJoinFailure(s)
    PROVE  Unclosed'
<1>0. PICK r \in RoomId : r = mine[s]
    BY DealtRoom DEF ReleaseOnJoinFailure, Goto
<1>1. /\ TypeOK
      /\ pc[s] = "refused" /\ pc' = [pc EXCEPT ![s] = "done"]
      /\ mine' = [mine EXCEPT ![s] = NoRoom]
      /\ rooms' = IF Used(r) THEN rooms ELSE rooms \ {r}
      /\ waiting' = IF ~Used(r) /\ waiting = r THEN NoRoom ELSE waiting
      /\ UNCHANGED <<players, closing, room>>
    BY <1>0 DEF Inductive, ReleaseOnJoinFailure, Goto, closeVars, Taken, Used, SeatTaken
<1>2. /\ pc'[s] = "done" /\ \A t \in Session : t # s => pc'[t] = pc[t] /\ mine'[t] = mine[t]
    BY <1>1 DEF TypeOK
<1>3. \A t \in Session : t # s => pc[t] \notin InJoin
    BY <1>1, JoinsAlone DEF InJoin
<1>4. rooms' \subseteq rooms /\ \A q \in rooms : Used(q) => q \in rooms'
    BY <1>1
<1>5. \A q : \A o \in PlayerId : SitsIn(q, o) => Used(q)
    BY Constants DEF SitsIn, Used, SeatTaken
<1>6. \A q : /\ Used(q)' <=> Used(q)
             /\ \A o : SitsIn(q, o)' <=> SitsIn(q, o)
             /\ \A x : SeatConnected(q, x)' <=> SeatConnected(q, x)
    BY <1>1 DEF Used, SeatTaken, SitsIn, SeatConnected
<1>7. OwnSeats' /\ Registered'
    BY <1>1, <1>2 DEF Unclosed, OwnSeats, Registered, SeatFor, Holding
<1>8. SeatsAreHeld'
    <2> SUFFICES ASSUME NEW q \in RoomId, NEW x \in Side, SeatConnected(q, x)
                 PROVE  pc'[room[q].seats[x].events] \in Holding /\ mine'[room[q].seats[x].events] = q
        BY <1>1, <1>6 DEF SeatsAreHeld
    <2>1. room[q].seats[x].events \in Session
        BY DEF Inductive, SeatsAreSound, SeatIsSound, SeatConnected
    <2>2. pc[room[q].seats[x].events] \in Holding /\ mine[room[q].seats[x].events] = q
        BY DEF Unclosed, SeatsAreHeld
    <2> QED BY <1>1, <1>2, <2>1, <2>2 DEF Holding
<1>9. SeatsAreIndexed'
    <2> SUFFICES ASSUME NEW o \in PlayerId, NEW q \in rooms', SitsIn(q, o)
                 PROVE  \/ players'[o] = q
                        \/ \E t \in Session : pc'[t] = "joined" /\ PlayerOf[t] = o /\ mine'[t] = q
        BY <1>6 DEF SeatsAreIndexed
    <2> QED BY <1>1, <1>2, <1>4 DEF Unclosed, SeatsAreIndexed
<1>10. JoinsOwnRoom'
    BY <1>2, <1>3 DEF JoinsOwnRoom, InJoin
<1>11. EmptiedOnce'
    <2>1. ASSUME NEW t \in Session, pc'[t] = "emptied" PROVE pc[t] = "emptied" /\ mine'[t] = mine[t] /\ mine[t] \in rooms'
        <3>1. pc[t] = "emptied" /\ mine'[t] = mine[t]
            BY <1>2, <2>1
        <3>2. SitsIn(mine[t], PlayerOf[t]) /\ mine[t] \in rooms
            BY <3>1 DEF Inductive, IndexedSits, Unclosed, EmptiedOnce
        <3> QED BY <1>4, <1>5, <3>1, <3>2, Constants
    <2> QED BY <2>1 DEF Unclosed, EmptiedOnce
<1>12. RoomsAreMinded'
    <2> SUFFICES ASSUME NEW q \in rooms' PROVE \E t \in Session : Minds(t, q)'
        BY DEF RoomsAreMinded
    <2>1. PICK t \in Session : Minds(t, q)
        BY <1>4 DEF Unclosed, RoomsAreMinded
    <2>2. t # s
        BY <1>0, <1>1, <2>1 DEF Minds, Holding
    <2>3. Minds(t, q)'
        BY <1>1, <1>2, <1>6, <2>1, <2>2 DEF Minds
    <2> QED BY <2>3
<1>13. IndexIsInMap'
    <2>1. \A o \in PlayerId : players[o] # NoRoom => players[o] \in rooms'
        BY <1>4, <1>5 DEF Unclosed, IndexIsInMap, Inductive, IndexedSits
    <2> QED BY <1>1, <2>1 DEF Unclosed, IndexIsInMap
<1>14. WaitingIsKnown'
    BY <1>1, <1>2, <1>3, <1>6 DEF Unclosed, WaitingIsKnown, InJoin
<1> QED BY <1>1, <1>7, <1>8, <1>9, <1>10, <1>11, <1>12, <1>13, <1>14 DEF Unclosed

\* Who sits in a room that was left has no other seat and no session there.
LEMMA LeftBehind ==
    ASSUME Inductive, Unclosed, NEW s \in Session, pc[s] = "emptied",
           NEW o \in PlayerId, SitsIn(mine[s], o)
    PROVE  /\ mine[s] \in rooms
           /\ players[o] = mine[s]
           /\ \A q \in rooms : SitsIn(q, o) => q = mine[s]
           /\ \A t \in Session : pc[t] \in Holding => mine[t] # mine[s]
<1>1. mine[s] \in rooms
    BY DEF Unclosed, EmptiedOnce
<1>2. \A t \in Session : pc[t] \in Holding => mine[t] # mine[s]
    BY HoldingInMap DEF Inductive, EmptiedIsClosed
<1>3. players[o] = mine[s]
    BY <1>1, <1>2 DEF Unclosed, SeatsAreIndexed, Holding
<1>4. ASSUME NEW q \in rooms, SitsIn(q, o) PROVE q = mine[s]
    <2>1. players[o] = q \/ \E t \in Session : pc[t] = "joined" /\ PlayerOf[t] = o /\ mine[t] = q
        BY <1>4 DEF Unclosed, SeatsAreIndexed
    <2>2. ASSUME NEW t \in Session, pc[t] = "joined", PlayerOf[t] = o PROVE mine[t] = mine[s]
        BY <1>1, <2>2 DEF Unclosed, JoinsOwnRoom
    <2> QED BY <1>3, <2>1, <2>2
<1> QED BY <1>1, <1>2, <1>3, <1>4

\* Leave removes the room that it has emptied, and its entries.
LEMMA ForgetPairs ==
    ASSUME Inductive, Unclosed, NEW s \in Session, Forget(s)
    PROVE  Unclosed'
<1>0. PICK r \in RoomId : r = mine[s]
    BY DealtRoom DEF Forget, Goto
<1> DEFINE gone == {room[r].seats[x].player : x \in Taken(r)} \cup {PlayerOf[s]}
<1>1. /\ TypeOK
      /\ pc[s] = "emptied" /\ pc' = [pc EXCEPT ![s] = "done"]
      /\ mine' = [mine EXCEPT ![s] = NoRoom]
      /\ players' = [o \in PlayerId |-> IF o \in gone THEN NoRoom ELSE players[o]]
      /\ rooms' = rooms \ {r}
      /\ waiting' = IF waiting = r THEN NoRoom ELSE waiting
      /\ UNCHANGED <<closing, room>>
    BY <1>0 DEF Inductive, Forget, Goto, closeVars
<1>2. /\ pc'[s] = "done" /\ \A t \in Session : t # s => pc'[t] = pc[t] /\ mine'[t] = mine[t]
    BY <1>1 DEF TypeOK
<1>3. \A o \in PlayerId : o \in gone <=> SitsIn(r, o)
    <2>1. SitsIn(r, PlayerOf[s])
        BY <1>0, <1>1 DEF Inductive, IndexedSits
    <2> QED BY <2>1, Constants DEF SitsIn, Taken
<1> HIDE DEF gone
<1>4. \A o \in PlayerId : players'[o] = IF SitsIn(r, o) THEN NoRoom ELSE players[o]
    BY <1>1, <1>3
<1>5. /\ r \in rooms /\ \A t \in Session : pc[t] \in Holding => mine[t] # r
      /\ \A o \in PlayerId : SitsIn(r, o) => players[o] = r /\ \A q \in rooms : SitsIn(q, o) => q = r
    <2>1. SitsIn(r, PlayerOf[s])
        BY <1>0, <1>1 DEF Inductive, IndexedSits
    <2> QED BY <1>0, <1>1, <2>1, LeftBehind, Constants
<1>6. \A q : /\ Used(q)' <=> Used(q)
             /\ \A o : SitsIn(q, o)' <=> SitsIn(q, o)
             /\ \A x : SeatConnected(q, x)' <=> SeatConnected(q, x)
    BY <1>1 DEF Used, SeatTaken, SitsIn, SeatConnected
<1>7. OwnSeats'
    BY <1>1, <1>2 DEF Unclosed, OwnSeats, SeatFor, Holding
<1>8. SeatsAreHeld'
    <2> SUFFICES ASSUME NEW q \in RoomId, NEW x \in Side, SeatConnected(q, x)
                 PROVE  pc'[room[q].seats[x].events] \in Holding /\ mine'[room[q].seats[x].events] = q
        BY <1>1, <1>6 DEF SeatsAreHeld
    <2>1. room[q].seats[x].events \in Session
        BY DEF Inductive, SeatsAreSound, SeatIsSound, SeatConnected
    <2>2. pc[room[q].seats[x].events] \in Holding /\ mine[room[q].seats[x].events] = q
        BY DEF Unclosed, SeatsAreHeld
    <2> QED BY <1>1, <1>2, <2>1, <2>2 DEF Holding
<1>9. Registered'
    <2> SUFFICES ASSUME NEW t \in Session, t # s, pc[t] \in {"serving", "submitting", "leaving"}
                 PROVE  players'[PlayerOf[t]] = mine[t]
        BY <1>2 DEF Registered
    <2>1. players[PlayerOf[t]] = mine[t] /\ mine[t] # r
        BY <1>5 DEF Unclosed, Registered, Holding
    <2> QED BY <1>4, <1>5, <2>1, Constants
<1>10. SeatsAreIndexed'
    <2> SUFFICES ASSUME NEW o \in PlayerId, NEW q \in rooms', SitsIn(q, o)
                 PROVE  \/ players'[o] = q
                        \/ \E t \in Session : pc'[t] = "joined" /\ PlayerOf[t] = o /\ mine'[t] = q
        BY <1>6 DEF SeatsAreIndexed
    <2>1. q \in rooms /\ ~SitsIn(r, o)
        BY <1>1, <1>5
    <2> QED BY <1>1, <1>2, <1>4, <2>1 DEF Unclosed, SeatsAreIndexed
<1>11. JoinsOwnRoom'
    BY <1>1, <1>2, <1>6 DEF Unclosed, JoinsOwnRoom
<1>12. EmptiedOnce'
    BY <1>0, <1>1, <1>2 DEF Unclosed, EmptiedOnce
<1>13. RoomsAreMinded'
    <2> SUFFICES ASSUME NEW q \in rooms, q # r PROVE \E t \in Session : Minds(t, q)'
        BY <1>1 DEF RoomsAreMinded
    <2>1. PICK t \in Session : Minds(t, q)
        BY DEF Unclosed, RoomsAreMinded
    <2>2. t # s
        BY <1>0, <2>1 DEF Minds
    <2>3. Minds(t, q)'
        BY <1>1, <1>2, <1>6, <2>1, <2>2 DEF Minds
    <2> QED BY <2>3
<1>14. IndexIsInMap'
    <2>1. ASSUME NEW o \in PlayerId, players'[o] # NoRoom PROVE players'[o] \in rooms'
        <3>1. players'[o] = players[o] /\ ~SitsIn(r, o)
            BY <1>4, <2>1
        <3>2. SitsIn(players[o], o)
            BY <2>1, <3>1 DEF Inductive, IndexedSits
        <3> QED BY <1>1, <2>1, <3>1, <3>2 DEF Unclosed, IndexIsInMap
    <2> QED BY <1>1, <2>1 DEF Unclosed, IndexIsInMap
<1>15. WaitingIsKnown'
    <2>1. \A q \in rooms' : room'[q].phase = "waiting" /\ Used(q)' => waiting' = q
        BY <1>1, <1>6 DEF Unclosed, WaitingIsKnown
    <2>2. Used(r)
        BY <1>0, <1>1, Constants DEF Inductive, IndexedSits, SitsIn, Used, SeatTaken
    <2>3. ASSUME NEW t \in Session, pc'[t] = "picked", ~Used(mine[t])' PROVE waiting' = mine'[t]
        <3>1. pc[t] = "picked" /\ mine'[t] = mine[t]
            BY <1>2, <2>3
        <3>2. ~Used(mine[t])
            BY <1>1, <2>3, <3>1 DEF Used, SeatTaken
        <3> QED BY <1>1, <2>2, <3>1, <3>2 DEF Unclosed, WaitingIsKnown
    <2> QED BY <2>1, <2>3 DEF WaitingIsKnown
<1> QED BY <1>1, <1>7, <1>8, <1>9, <1>10, <1>11, <1>12, <1>13, <1>14, <1>15 DEF Unclosed

-----------------------------------------------------------------------------
\* Taking a seat and leaving it.

\* A session sits down, for the first time or again.
LEMMA SeatTakenPairs ==
    ASSUME Inductive, Unclosed, NEW s \in Session, NEW x \in Side, SitsSoundly(s, x)
    PROVE  Unclosed'
<1> DEFINE p == PlayerOf[s]
<1>0. PICK r \in RoomId : r = mine[s]
    BY DealtRoom DEF SitsSoundly, TakesSeat
<1>1. /\ TypeOK /\ p \in PlayerId
      /\ pc[s] = "picked" /\ pc' = [pc EXCEPT ![s] = "joined"]
      /\ room[r].phase # "closed"
      /\ ~SeatConnected(r, x)
      /\ room[r].seats[x].player \in {Nobody, p}
      /\ room'[r].seats[x] = SeatFor(s)
      /\ \A y \in Side : y # x => room'[r].seats[y] = room[r].seats[y]
      /\ \A q \in RoomId : q # r => room'[q] = room[q]
      /\ UNCHANGED <<rooms, players, waiting, closing, mine>>
      /\ room'[r].phase = "waiting" => ~Used(r)
    BY <1>0, Constants DEF Inductive, SitsSoundly, TakesSeat, SeatFor, Used
<1>2. pc'[s] = "joined" /\ \A t \in Session : t # s => pc'[t] = pc[t]
    BY <1>1 DEF TypeOK
<1>3. \A t \in Session : t # s => pc[t] \notin InJoin
    BY <1>1, JoinsAlone DEF InJoin
<1>4. rooms \subseteq RoomId /\ r \in rooms
    BY <1>0, <1>1 DEF TypeOK, Inductive, RoomsAreReached, Unclosed
<1>5. \A q \in RoomId, y \in Side :
          room'[q].seats[y] = IF q = r /\ y = x THEN SeatFor(s) ELSE room[q].seats[y]
    BY <1>1
<1>6. \A q \in RoomId : \A o : SitsIn(q, o)' => SitsIn(q, o) \/ (q = r /\ o = p)
    BY <1>5 DEF SitsIn, SeatFor
<1>7. OwnSeats'
    <2> SUFFICES ASSUME NEW t \in Session, pc'[t] \in Holding
                 PROVE  \E y \in Side : room'[mine[t]].seats[y] = SeatFor(t)
        BY <1>1 DEF OwnSeats, SeatFor
    <2>1. CASE t = s
        BY <1>0, <1>1, <2>1
    <2>2. CASE t # s
        <3>1. pc[t] \in Holding /\ mine[t] \in RoomId
            BY <1>2, <2>2, HoldingInMap
        <3>2. PICK y \in Side : room[mine[t]].seats[y] = SeatFor(t)
            BY <3>1 DEF Unclosed, OwnSeats
        <3>3. SeatConnected(mine[t], y)
            BY <3>2 DEF SeatConnected, SeatFor
        <3> QED BY <1>1, <1>5, <3>1, <3>2, <3>3
    <2> QED BY <2>1, <2>2
<1>8. SeatsAreHeld'
    <2> SUFFICES ASSUME NEW q \in RoomId, NEW y \in Side, room'[q].seats[y].connected,
                        NEW e, e = room'[q].seats[y].events
                 PROVE  pc'[e] \in Holding /\ mine[e] = q
        BY <1>1 DEF SeatsAreHeld, SeatConnected
    <2>1. CASE q = r /\ y = x
        <3>1. e = s
            BY <1>5, <2>1 DEF SeatFor
        <3> QED BY <1>0, <1>2, <2>1, <3>1 DEF Holding
    <2>2. CASE ~(q = r /\ y = x)
        <3>1. SeatConnected(q, y) /\ e = room[q].seats[y].events
            BY <1>5, <2>2 DEF SeatConnected
        <3>2. e \in Session /\ pc[e] \in Holding /\ mine[e] = q
            BY <3>1 DEF Inductive, SeatsAreSound, SeatIsSound, SeatConnected, Unclosed, SeatsAreHeld
        <3> QED BY <1>1, <1>2, <3>2 DEF Holding
    <2> QED BY <2>1, <2>2
<1>9. Registered'
    BY <1>1, <1>2 DEF Unclosed, Registered
<1>10. SeatsAreIndexed'
    <2> SUFFICES ASSUME NEW o \in PlayerId, NEW q \in rooms, SitsIn(q, o)'
                 PROVE  \/ players[o] = q
                        \/ \E t \in Session : pc'[t] = "joined" /\ PlayerOf[t] = o /\ mine[t] = q
        BY <1>1 DEF SeatsAreIndexed
    <2>1. CASE q = r /\ o = p
        BY <1>0, <1>2, <2>1
    <2>2. CASE SitsIn(q, o)
        BY <1>1, <1>3, <2>2 DEF Unclosed, SeatsAreIndexed, InJoin
    <2> QED BY <1>4, <1>6, <2>1, <2>2
<1>11. JoinsOwnRoom'
    <2> SUFFICES ASSUME NEW t \in Session, NEW q \in rooms, pc'[t] \in {"picked", "joined"},
                        SitsIn(q, PlayerOf[t])'
                 PROVE  mine[t] = q
        BY <1>1 DEF JoinsOwnRoom
    <2>1. t = s
        BY <1>2, <1>3 DEF InJoin
    <2> QED BY <1>0, <1>1, <1>4, <1>6, <2>1 DEF Unclosed, JoinsOwnRoom
<1>12. EmptiedOnce'
    BY <1>1, <1>2 DEF Unclosed, EmptiedOnce
<1>13. RoomsAreMinded'
    <2> SUFFICES ASSUME NEW q \in rooms PROVE \E t \in Session : Minds(t, q)'
        BY <1>1 DEF RoomsAreMinded
    <2>1. CASE q = r
        <3>1. Minds(s, q)'
            BY <1>0, <1>1, <1>2, <2>1 DEF Minds, Holding
        <3> QED BY <3>1
    <2>2. CASE q # r
        <3>1. PICK t \in Session : Minds(t, q)
            BY DEF Unclosed, RoomsAreMinded
        <3>2. t # s
            BY <1>0, <2>2, <3>1 DEF Minds
        <3>3. Minds(t, q)'
            BY <1>1, <1>2, <1>3, <3>1, <3>2 DEF Minds, InJoin
        <3> QED BY <3>3
    <2> QED BY <2>1, <2>2
<1>14. IndexIsInMap'
    BY <1>1 DEF Unclosed, IndexIsInMap
<1>15. WaitingIsKnown'
    <2>1. ASSUME NEW q \in rooms, room'[q].phase = "waiting", Used(q)' PROVE waiting = q
        <3>1. CASE q = r
            BY <1>0, <1>1, <2>1, <3>1 DEF Unclosed, WaitingIsKnown
        <3>2. CASE q # r
            <4>1. Used(q) /\ room[q].phase = "waiting"
                BY <1>1, <1>4, <2>1, <3>2 DEF Used, SeatTaken
            <4> QED BY <4>1 DEF Unclosed, WaitingIsKnown
        <3> QED BY <3>1, <3>2
    <2> QED BY <1>1, <1>2, <1>3, <2>1 DEF WaitingIsKnown, InJoin
<1> QED BY <1>1, <1>7, <1>8, <1>9, <1>10, <1>11, <1>12, <1>13, <1>14, <1>15 DEF Unclosed

\* Room.leave gives up a seat.
LEMMA RoomLeavePairs ==
    ASSUME Inductive, Unclosed, NEW s \in Session, RoomLeave(s)
    PROVE  Unclosed'
<1> DEFINE p == PlayerOf[s]
<1>0. PICK r \in RoomId, x \in Side, empty \in BOOLEAN :
          /\ r = mine[s]
          /\ room[r].seats[x].player = p
          /\ empty <=> \A y \in Side : ~room'[r].seats[y].connected
          /\ Vacates(r, {x})
          /\ PhaseIsSound(r)'
          /\ empty => room'[r].phase = "closed"
          /\ pc[s] = "leaving"
          /\ pc' = [pc EXCEPT ![s] = IF empty THEN "emptied" ELSE "done"]
          /\ mine' = [mine EXCEPT ![s] = IF empty THEN r ELSE NoRoom]
          /\ UNCHANGED <<rooms, players, waiting, closing>>
    BY RoomLeaveVacates
<1>1. /\ TypeOK /\ p \in PlayerId
      /\ \A t \in Session : t # s => pc'[t] = pc[t] /\ mine'[t] = mine[t]
      /\ pc'[s] = (IF empty THEN "emptied" ELSE "done") /\ (empty => mine'[s] = r)
    BY <1>0, Constants DEF Inductive, TypeOK
\* The seat that is given up is the session's own.
<1>2. room[r].seats[x].events = s /\ SeatConnected(r, x) /\ r \in rooms
    <2>1. PICK y \in Side : /\ room[r].seats[y].player = p
                            /\ room[r].seats[y].events = s
                            /\ SeatConnected(r, y)
        BY <1>0, HoldingInMap DEF Holding
    <2>2. x = y
        BY <1>0, <1>1, <2>1, Constants DEF Inductive, SeatsInOrder
    <2> QED BY <1>0, <2>1, <2>2, HoldingInMap DEF Holding
<1>3. \A q \in RoomId, y \in Side :
          IF q = r /\ y = x
          THEN room'[q].seats[y] = [player |-> p, events |-> Nobody, connected |-> FALSE]
          ELSE room'[q].seats[y] = room[q].seats[y]
    <2>1. room'[r].seats[x] = [player    |-> room[r].seats[x].player,
                               events    |-> Nobody,
                               connected |-> FALSE]
        BY <1>0 DEF Vacates
    <2>2. \A y \in Side : y # x => room'[r].seats[y] = room[r].seats[y]
        BY <1>0 DEF Vacates
    <2>3. \A q \in RoomId : q # r => room'[q] = room[q]
        BY <1>0 DEF Vacates
    <2> QED BY <1>0, <2>1, <2>2, <2>3
<1>4. \A q \in RoomId, y \in Side :
          /\ room'[q].seats[y].player = room[q].seats[y].player
          /\ room'[q].seats[y].connected => ~(q = r /\ y = x)
    <2> TAKE q \in RoomId, y \in Side
    <2>1. CASE q = r /\ y = x
        <3>1. room'[q].seats[y] = [player |-> p, events |-> Nobody, connected |-> FALSE]
            BY <1>3, <2>1
        <3> QED BY <1>0, <2>1, <3>1
    <2>2. CASE ~(q = r /\ y = x)
        BY <1>3, <2>2
    <2> QED BY <2>1, <2>2
<1>5. \A q \in RoomId : /\ \A o : SitsIn(q, o)' <=> SitsIn(q, o)
                        /\ Used(q)' <=> Used(q)
    BY <1>4 DEF SitsIn, Used, SeatTaken
<1>6. rooms \subseteq RoomId
    BY <1>1 DEF TypeOK
<1>7. OwnSeats'
    <2> SUFFICES ASSUME NEW t \in Session, pc'[t] \in Holding
                 PROVE  \E y \in Side : room'[mine'[t]].seats[y] = SeatFor(t)
        BY DEF OwnSeats, SeatFor
    <2>1. t # s /\ mine'[t] = mine[t] /\ pc[t] \in Holding
        BY <1>1 DEF Holding
    <2>2. mine[t] \in RoomId
        BY <2>1, HoldingInMap
    <2>3. PICK y \in Side : room[mine[t]].seats[y] = SeatFor(t)
        BY <2>1 DEF Unclosed, OwnSeats
    <2>4. ~(mine[t] = r /\ y = x)
        BY <1>2, <2>1, <2>3 DEF SeatFor
    <2> QED BY <1>3, <2>1, <2>2, <2>3, <2>4
<1>8. SeatsAreHeld'
    <2> SUFFICES ASSUME NEW q \in RoomId, NEW y \in Side, room'[q].seats[y].connected,
                        NEW e, e = room'[q].seats[y].events
                 PROVE  pc'[e] \in Holding /\ mine'[e] = q
        BY DEF SeatsAreHeld, SeatConnected
    <2>1. ~(q = r /\ y = x)
        BY <1>4
    <2>2. SeatConnected(q, y) /\ e = room[q].seats[y].events
        BY <1>3, <2>1 DEF SeatConnected
    <2>3. e \in Session /\ pc[e] \in Holding /\ mine[e] = q
        BY <2>2 DEF Inductive, SeatsAreSound, SeatIsSound, SeatConnected, Unclosed, SeatsAreHeld
    <2>4. e # s
        BY <1>2, <2>1, <2>2, Constants DEF Inductive, OneWriter
    <2> QED BY <1>1, <2>3, <2>4
<1>9. Registered'
    BY <1>0, <1>1 DEF Unclosed, Registered
<1>10. SeatsAreIndexed'
    <2> SUFFICES ASSUME NEW o \in PlayerId, NEW q \in rooms, SitsIn(q, o)'
                 PROVE  \/ players[o] = q
                        \/ \E t \in Session : pc'[t] = "joined" /\ PlayerOf[t] = o /\ mine'[t] = q
        BY <1>0 DEF SeatsAreIndexed
    <2>1. SitsIn(q, o)
        BY <1>5, <1>6
    <2> QED BY <1>0, <1>1, <2>1 DEF Unclosed, SeatsAreIndexed
<1>11. JoinsOwnRoom'
    <2> SUFFICES ASSUME NEW t \in Session, NEW q \in rooms, pc'[t] \in {"picked", "joined"},
                        SitsIn(q, PlayerOf[t])'
                 PROVE  mine'[t] = q
        BY <1>0 DEF JoinsOwnRoom
    <2> QED BY <1>1, <1>5, <1>6 DEF Unclosed, JoinsOwnRoom
<1>12. EmptiedOnce'
    <2>1. \A t \in Session : pc[t] = "emptied" => mine[t] # r
        BY <1>2 DEF Inductive, EmptiedIsClosed
    <2> QED BY <1>0, <1>1, <1>2, <2>1 DEF Unclosed, EmptiedOnce
<1>13. RoomsAreMinded'
    <2> SUFFICES ASSUME NEW q \in rooms PROVE \E t \in Session : Minds(t, q)'
        BY <1>0 DEF RoomsAreMinded
    <2>1. CASE q = r /\ empty
        <3>1. Minds(s, q)'
            BY <1>1, <2>1 DEF Minds
        <3> QED BY <3>1
    <2>2. CASE q = r /\ ~empty
        <3>1. PICK y \in Side : room'[r].seats[y].connected
            BY <1>0, <2>2
        <3>2. room'[r].seats[y].events \in Session
            BY <1>3, <1>4, <3>1 DEF Inductive, SeatsAreSound, SeatIsSound
        <3>3. pc'[room'[r].seats[y].events] \in Holding /\ mine'[room'[r].seats[y].events] = r
            BY <1>8, <3>1 DEF SeatsAreHeld, SeatConnected
        <3>4. ASSUME NEW t \in Session, pc'[t] \in Holding, mine'[t] = q PROVE Minds(t, q)'
            BY <3>4 DEF Minds
        <3> QED BY <2>2, <3>2, <3>3, <3>4
    <2>3. CASE q # r
        <3>1. PICK t \in Session : Minds(t, q)
            BY DEF Unclosed, RoomsAreMinded
        <3>2. t # s
            BY <1>0, <2>3, <3>1 DEF Minds
        <3>3. Minds(t, q)'
            BY <1>1, <1>5, <1>6, <3>1, <3>2 DEF Minds
        <3> QED BY <3>3
    <2> QED BY <2>1, <2>2, <2>3
<1>14. IndexIsInMap'
    BY <1>0 DEF Unclosed, IndexIsInMap
<1>15. WaitingIsKnown'
    <2>1. ASSUME NEW q \in rooms, room'[q].phase = "waiting", Used(q)' PROVE waiting = q
        <3>1. CASE q = r
            \* A waiting room has one player at most: it is closed now.
            <4>1. ~SeatTaken(r, "light")'  /\ (SeatConnected(r, "dark")' <=> SeatTaken(r, "dark")')
                BY <1>0, <2>1, <3>1, Constants DEF PhaseIsSound
            <4>2. room[r].seats["light"].player = Nobody
                BY <1>4, <4>1, Constants DEF SeatTaken
            <4>3. x = "dark"
                BY <1>0, <1>1, <4>2, Constants
            <4>4. ~SeatConnected(r, "dark")' /\ SeatTaken(r, "dark")'
                BY <1>0, <1>1, <1>4, <4>3, Constants DEF SeatTaken, SeatConnected
            <4> QED BY <4>1, <4>4
        <3>2. CASE q # r
            <4>1. room'[q] = room[q]
                BY <1>0, <1>6, <3>2 DEF Vacates
            <4> QED BY <1>5, <1>6, <2>1, <4>1 DEF Unclosed, WaitingIsKnown
        <3> QED BY <3>1, <3>2
    <2>2. ASSUME NEW t \in Session, pc'[t] = "picked", ~Used(mine[t])' PROVE waiting = mine'[t]
        <3>1. pc[t] = "picked" /\ mine'[t] = mine[t] /\ mine[t] \in RoomId
            BY <1>1, <2>2, DealtRoom
        <3>2. ASSUME NEW q \in RoomId, q = mine'[t] PROVE ~Used(q)
            BY <1>5, <2>2, <3>2 DEF Used, SeatTaken
        <3> QED BY <3>1, <3>2 DEF Unclosed, WaitingIsKnown
    <2> QED BY <1>0, <2>1, <2>2 DEF WaitingIsKnown
<1> QED BY <1>0, <1>7, <1>8, <1>9, <1>10, <1>11, <1>12, <1>13, <1>14, <1>15 DEF Unclosed

-----------------------------------------------------------------------------
\* The invariant holds at the start.
LEMMA InitPairs == Init => Pairing
<1> SUFFICES ASSUME Init PROVE Unclosed
    BY DEF Pairing
<1>1. SeatsAreHeld
    BY DEF Init, SeatsAreHeld, SeatConnected, NewRoom, EmptySeat
<1>2. OwnSeats /\ Registered /\ JoinsOwnRoom /\ EmptiedOnce /\ IndexIsInMap
    BY DEF Init, OwnSeats, Registered, JoinsOwnRoom, EmptiedOnce, IndexIsInMap, Holding
<1>3. SeatsAreIndexed /\ RoomsAreMinded /\ WaitingIsKnown
    BY DEF Init, SeatsAreIndexed, RoomsAreMinded, WaitingIsKnown
<1> QED BY <1>1, <1>2, <1>3 DEF Init, Unclosed

\* Only Close counts, and it does so upwards.
LEMMA ClosesGrow ==
    ASSUME Inductive, [Next]_vars, closes' = 0
    PROVE  closes = 0 /\ ~Close
<1>1. closes \in Nat
    BY MatchAssumption DEF Inductive, TypeOK
<1>2. ASSUME NEW s \in Session, Join(s) PROVE closes' = closes
    BY <1>2 DEF Join, RoomForJoin, JoinRefused, Reconnect, TakeFirstSeat, StartMatch, StartFails,
                Register, ReleaseOnJoinFailure, closeVars
<1>3. ASSUME NEW s \in Session,
             \/ Submit(s) \/ Accept(s) \/ Reject(s) \/ SubmitFails(s)
             \/ LeaveUnknown(s) \/ Leave(s) \/ RoomLeave(s) \/ Forget(s) \/ Receive(s)
      PROVE  closes' = closes
    BY <1>3 DEF Submit, Accept, Reject, SubmitFails, LeaveUnknown, Leave, RoomLeave, Forget,
                Receive, closeVars
<1>4. ASSUME NEW r \in RoomId, RoomClose(r) PROVE closes' = closes
    BY <1>4 DEF RoomClose
<1>5. UNCHANGED vars => closes' = closes
    BY DEF vars, closeVars
<1>6. Close => closes' = closes + 1
    BY DEF Close
<1> QED BY <1>1, <1>2, <1>3, <1>4, <1>5, <1>6 DEF Next

\* Every step keeps the invariant.
LEMMA NextPairs == Inductive /\ Pairing /\ [Next]_vars => Pairing'
<1> SUFFICES ASSUME Inductive, Pairing, [Next]_vars, closes' = 0 PROVE Unclosed'
    BY DEF Pairing
<1>1. Unclosed /\ ~Close
    BY ClosesGrow DEF Pairing
<1>2. CASE UNCHANGED vars
    <2>1. UNCHANGED <<rooms, players, waiting, closing, room, pc, mine>>
        BY <1>2 DEF vars, managerVars, closeVars, sessionVars
    <2>2. OwnSeats' /\ SeatsAreHeld' /\ Registered' /\ EmptiedOnce' /\ IndexIsInMap'
        BY <1>1, <2>1 DEF Unclosed, OwnSeats, SeatFor, SeatsAreHeld, SeatConnected, Registered,
                          EmptiedOnce, IndexIsInMap
    <2>3. SeatsAreIndexed' /\ JoinsOwnRoom' /\ RoomsAreMinded' /\ WaitingIsKnown'
        BY <1>1, <2>1 DEF Unclosed, SeatsAreIndexed, JoinsOwnRoom, SitsIn, RoomsAreMinded, Minds,
                          Used, SeatTaken, WaitingIsKnown
    <2> QED BY <1>1, <2>1, <2>2, <2>3 DEF Unclosed
<1>3. ASSUME NEW s \in Session, Join(s) PROVE Unclosed'
    <2>1. CASE JoinRefused(s) \/ StartFails(s)
        BY <1>1, <2>1, QuietPairs DEF Quiet
    <2>2. CASE Reconnect(s) \/ TakeFirstSeat(s) \/ StartMatch(s)
        BY <1>1, <2>2, ReconnectSits, TakeFirstSeatSits, StartMatchSits, SeatTakenPairs
    <2> QED BY <1>1, <1>3, <2>1, <2>2, RoomForJoinPairs, RegisterPairs, ReleasePairs DEF Join
<1>4. ASSUME NEW s \in Session,
             \/ Submit(s) \/ Reject(s) \/ SubmitFails(s) \/ LeaveUnknown(s) \/ Receive(s)
      PROVE  Unclosed'
    BY <1>1, <1>4, QuietPairs DEF Quiet
<1>5. ASSUME NEW s \in Session, Accept(s) \/ Leave(s) \/ RoomLeave(s) \/ Forget(s)
      PROVE  Unclosed'
    BY <1>1, <1>5, AcceptPairs, LeavePairs, RoomLeavePairs, ForgetPairs
<1>6. ASSUME NEW r \in RoomId, RoomClose(r) PROVE FALSE
    BY <1>1, <1>6 DEF RoomClose, Unclosed
<1> QED BY <1>1, <1>2, <1>3, <1>4, <1>5, <1>6 DEF Next

\* The invariant holds until the manager is closed, and nothing is claimed
\* afterwards.
THEOREM PairingInduction == Spec => []Pairing
BY InitPairs, NextPairs, MatchInduction, PTL DEF Spec

\* A session that was let in keeps the seat of its player, with its own
\* channel, until it leaves: neither a second tab nor a reconnection of the
\* same player takes it over (Room.join), and Leave, which goes by the player,
\* gives up no other session's seat.
THEOREM SeatsAreKept == Spec => []KeepsItsSeat
<1>1. Pairing => KeepsItsSeat
    BY DEF Pairing, Unclosed, OwnSeats, SeatFor, KeepsItsSeat
<1> QED BY <1>1, PairingInduction, PTL

\* Two players who wait are never kept apart: at most one room waits, and
\* Manager.waiting names it, although it is set and cleared in other critical
\* sections than those in which rooms fill and empty.
THEOREM WaitersMeet == Spec => []OneWaitingRoom
<1>1. Pairing => OneWaitingRoom
    BY DEF Pairing, Unclosed, WaitingIsKnown, Used, SeatTaken, Taken, OneWaitingRoom
<1> QED BY <1>1, PairingInduction, PTL

\* A player sits in one room of the manager at most, and the index of players
\* points there as soon as Join has returned.
THEOREM PlayersSitOnce == Spec => []OneSeatPerPlayer
<1>1. Pairing => OneSeatPerPlayer
    BY DEF Pairing, Unclosed, SeatsAreIndexed, SitsIn, Seated, SeatsOf, OneSeatPerPlayer
<1> QED BY <1>1, PairingInduction, PTL

\* Every room in the map has a session that has yet to leave it, and the
\* indices name rooms of the map only: when the last session is gone the
\* manager is empty, whichever joins failed and in whichever order they left.
THEOREM NothingIsLeaked == Spec => []NothingLeaks
<1>1. Pairing => NothingLeaks
    <2> SUFFICES ASSUME Unclosed PROVE NothingLeaks
        BY DEF Pairing, NothingLeaks
    <2>1. \A r \in rooms : \E s \in Session : mine[s] = r /\ pc[s] \notin {"start", "done"}
        BY DEF Unclosed, RoomsAreMinded, Minds, Holding
    <2> QED BY <2>1 DEF Unclosed, IndexIsInMap, NothingLeaks
<1> QED BY <1>1, PairingInduction, PTL
=============================================================================
