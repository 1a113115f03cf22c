---------------------------- MODULE ServerProofs ----------------------------
(***************************************************************************)
(* The handlers of server/main.go around the match manager, for any number *)
(* of connections and any limits: every step is a step of matchmaking, no  *)
(* more connections are admitted than allowed, and every game has its      *)
(* record, which is complete before anybody is shown the end of the game.  *)
(***************************************************************************)
EXTENDS Server, MatchProofs

-----------------------------------------------------------------------------
\* The inductive invariant, besides those of Match.

Gate == {"outside", "overflow", "admitted", "joining", "reading", "submitting", "recording",
         "saving", "leaving", "closing", "gone"}

Arriving == {"outside", "overflow", "admitted"}
Busy     == {"submitting", "recording", "saving"}
Loop     == {"reading"} \cup Busy

RecordState == [mu       : Session \cup {Nobody},
                moves    : Seq(1..LastTurn),
                finished : BOOLEAN,
                saved    : {"no", "stored", "failed"}]

HandlerTypes ==
    /\ gate \in [Session -> Gate]
    /\ ledger \in SUBSET RoomId
    /\ record \in [RoomId -> RecordState]
    /\ home \in [Session -> RoomId \cup {NoRoom}]
    /\ known \in SUBSET Session
    /\ response \in [Session -> SomeGame]

\* Where a handler is decides what its session may be doing; it knows its room
\* and the record of the room until it has left.
Place(s) ==
    /\ gate[s] \in Arriving => pc[s] = "start"
    /\ gate[s] = "joining" => pc[s] \in InJoin \cup {"start", "serving"}
    /\ gate[s] \in {"reading", "recording", "saving"} => pc[s] = "serving"
    /\ gate[s] = "submitting" => pc[s] \in {"serving", "submitting"}
    /\ gate[s] = "leaving" => pc[s] \in {"leaving", "emptied", "done"}
    /\ gate[s] \in {"closing", "gone"} => pc[s] \in {"start", "done"}
    /\ gate[s] \in Loop => home[s] = mine[s] /\ s \in known
    /\ gate[s] = "leaving" /\ pc[s] # "done" => home[s] = mine[s]
    /\ gate[s] = "recording" => response[s] \in Game /\ response[s].turn > 0
    /\ gate[s] \in Arriving \cup {"joining"} => view[s] = NoGame
    /\ view[s] # NoGame => home[s] \in RoomId

Serving ==
    /\ closes = 0
    /\ HandlerTypes
    /\ \A s \in Session : Place(s)
    /\ rooms \subseteq ledger

\* The mutex of a record is held by the handler that has a command in hand.
MutexIsHeld ==
    \A s \in Session, r \in RoomId : record[r].mu = s <=> gate[s] \in Busy /\ home[s] = r

\* A record is one command behind between its acceptance and its entry.
Turns(n) == [i \in 1..n |-> i]

IsAt(r, g) == \E s \in Session : gate[s] = g /\ home[s] = r

RecordFollows(r) ==
    LET turn  == room[r].game.turn
        ended == room[r].game.phase = "finished"
    IN  /\ IF IsAt(r, "recording")
           THEN /\ turn > 0 /\ record[r].moves = Turns(turn - 1)
                /\ ~record[r].finished /\ record[r].saved = "no"
           ELSE record[r].moves = Turns(turn) /\ (record[r].finished <=> ended)
        /\ IsAt(r, "saving") => ended
        /\ ~ended => record[r].saved = "no"
        /\ ended /\ record[r].saved = "no" => IsAt(r, "recording") \/ IsAt(r, "saving")

RecordsFollow == \A r \in RoomId : RecordFollows(r)

\* The response of a command that is being recorded is the state of the room.
ResponseIsState ==
    \A s \in Session : gate[s] = "recording" => response[s] = room[home[s]].game

\* Nobody is refused by a room that nobody has used yet.
UnusedWaits ==
    /\ \A r \in RoomId : ~Used(r) => room[r].phase = "waiting"
    /\ \A s \in Session : pc[s] = "refused" => Used(mine[s])

Recording == Serving /\ MutexIsHeld /\ RecordsFollow /\ ResponseIsState

-----------------------------------------------------------------------------
\* What a handler does to the manager is a step of matchmaking.

\* A step of a handler calls the manager or leaves it alone.
LEMMA HandlerSteps ==
    ASSUME NEW s \in Session, Handler(s)
    PROVE  Next \/ UNCHANGED vars
<1>1. CASE \/ BackOut(s) \/ CheckRooms(s) \/ Release(s) \/ GetRecord(s)
           \/ RecordMove(s) \/ SaveFinished(s) \/ Discard(s)
    BY <1>1 DEF BackOut, CheckRooms, Release, GetRecord, RecordMove, SaveFinished, Discard
<1>2. CASE JoinStarts(s) \/ JoinGoesOn(s) \/ JoinEnds(s)
    BY <1>2 DEF JoinStarts, JoinGoesOn, JoinEnds, Next, Join
<1>3. CASE ManagerTakes(s) \/ RoomRefuses(s) \/ RoomAccepts(s) \/ LeaveGoesOn(s)
    BY <1>3 DEF ManagerTakes, RoomRefuses, RoomAccepts, LeaveGoesOn, Next
<1> QED BY <1>1, <1>2, <1>3 DEF Handler

\* Every step of the server is one of Match, or none.
LEMMA ServerStepsAreMatchSteps == [ServerNext]_allVars => [Next]_vars
<1> SUFFICES ASSUME [ServerNext]_allVars PROVE Next \/ UNCHANGED vars
    OBVIOUS
<1>1. UNCHANGED allVars => UNCHANGED vars
    BY DEF allVars
<1>2. ASSUME NEW s \in Session, Arrive(s) \/ SubmitCommand(s) \/ ForwardEvent(s) \/ HandlerLeaves(s)
      PROVE  Next \/ UNCHANGED vars
    BY <1>2 DEF Arrive, SubmitCommand, ForwardEvent, HandlerLeaves, Next
<1> QED BY <1>1, <1>2, HandlerSteps DEF ServerNext

\* The handlers call the manager as Match supposes: once Join, then commands,
\* then Leave, each from the handler's own goroutine.  So all that is proved
\* of Match holds for the server.
THEOREM ServerImplementsMatch == ServerSpec => Spec
<1>1. ServerInit => Init
    BY DEF ServerInit
<1> QED BY <1>1, ServerStepsAreMatchSteps, PTL DEF ServerSpec, Spec

-----------------------------------------------------------------------------
\* Admission.

\* The connections that demoApp.connections counts.
Counted  == {s \in Session : gate[s] \notin {"outside", "gone"}}
Admitted == {s \in Session : gate[s] \notin {"outside", "overflow", "gone"}}

CountIsExact == connections = Cardinality(Counted)

Admission ==
    /\ gate \in [Session -> Gate]
    /\ CountIsExact
    /\ AdmittedWithinLimit

\* How a handler that is inside moves on: it stays counted and admitted.
MovesOn(s) ==
    /\ gate[s] \notin {"outside", "overflow", "gone"}
    /\ \E to \in Gate : /\ to \notin {"outside", "overflow", "gone"}
                        /\ gate' = [gate EXCEPT ![s] = to]
    /\ UNCHANGED connections

\* Only admit and release change the count of connections.
LEMMA MostStepsMoveOn ==
    ASSUME Admission, NEW s \in Session,
           \/ CheckRooms(s) \/ JoinStarts(s) \/ JoinGoesOn(s) \/ JoinEnds(s) \/ GetRecord(s)
           \/ SubmitCommand(s) \/ ManagerTakes(s) \/ RoomRefuses(s) \/ RoomAccepts(s)
           \/ RecordMove(s) \/ SaveFinished(s)
           \/ ForwardEvent(s) \/ HandlerLeaves(s) \/ LeaveGoesOn(s) \/ Discard(s)
    PROVE  MovesOn(s) \/ UNCHANGED <<gate, connections>>
<1>1. CASE CheckRooms(s) \/ RecordMove(s)
    BY <1>1 DEF CheckRooms, RecordMove, MovesOn, Gate
<1>2. CASE \/ JoinEnds(s) \/ GetRecord(s) \/ SubmitCommand(s) \/ RoomRefuses(s) \/ RoomAccepts(s)
           \/ SaveFinished(s) \/ HandlerLeaves(s) \/ Discard(s)
    BY <1>2 DEF JoinEnds, GetRecord, SubmitCommand, RoomRefuses, RoomAccepts, SaveFinished,
                HandlerLeaves, Discard, Step, MovesOn, Gate
<1>3. CASE \/ JoinStarts(s) \/ JoinGoesOn(s) \/ ManagerTakes(s) \/ ForwardEvent(s) \/ LeaveGoesOn(s)
    BY <1>3 DEF JoinStarts, JoinGoesOn, ManagerTakes, ForwardEvent, LeaveGoesOn, serverVars
<1> QED BY <1>1, <1>2, <1>3

\* The admitted connections are among the counted ones.
LEMMA CountedSets ==
    /\ IsFiniteSet(Counted) /\ IsFiniteSet(Admitted) /\ Admitted \subseteq Counted
    /\ Cardinality(Counted) \in Nat /\ Cardinality(Admitted) \in Nat
    /\ Cardinality(Admitted) <= Cardinality(Counted)
<1>1. Counted \subseteq Session /\ Admitted \subseteq Counted
    BY DEF Counted, Admitted
<1>2. IsFiniteSet(Counted) /\ IsFiniteSet(Admitted)
    BY <1>1, FS_Subset, MatchAssumption
<1> QED BY <1>1, <1>2, FS_Subset, FS_CardinalityType

\* Every step keeps the count exact and the admitted within the limit.
LEMMA AdmissionSteps == Admission /\ [ServerNext]_allVars => Admission'
<1> SUFFICES ASSUME Admission, [ServerNext]_allVars PROVE Admission'
    OBVIOUS
<1> USE CountedSets, ServerAssumption
<1>1. ASSUME UNCHANGED <<gate, connections>> PROVE Admission'
    BY <1>1 DEF Admission, CountIsExact, Counted, AdmittedWithinLimit
<1>2. ASSUME NEW s \in Session, MovesOn(s) PROVE Admission'
    <2>1. gate' \in [Session -> Gate] /\ Counted' = Counted /\ Admitted' = Admitted
        BY <1>2 DEF Admission, MovesOn, Counted, Admitted
    <2> QED BY <1>2, <2>1 DEF Admission, MovesOn, CountIsExact, AdmittedWithinLimit, Admitted
<1>3. ASSUME NEW s \in Session, Arrive(s) PROVE Admission'
    <2>1. /\ gate[s] = "outside" /\ connections' = connections + 1
          /\ gate' = [gate EXCEPT ![s] = IF connections' > MaxConnections THEN "overflow" ELSE "admitted"]
        BY <1>3 DEF Arrive
    <2>2. gate' \in [Session -> Gate] /\ Counted' = Counted \cup {s} /\ s \notin Counted
        BY <2>1 DEF Admission, Gate, Counted
    <2>3. Cardinality(Counted') = Cardinality(Counted) + 1
        BY <2>2, FS_AddElement
    <2>4. connections' = Cardinality(Counted')
        BY <2>1, <2>3 DEF Admission, CountIsExact
    <2>5. CASE connections' > MaxConnections
        <3>1. Admitted' = Admitted
            BY <2>1, <2>5 DEF Admission, Admitted
        <3> QED BY <2>2, <2>4, <3>1 DEF Admission, CountIsExact, AdmittedWithinLimit, Admitted
    <2>6. CASE ~(connections' > MaxConnections)
        <3>1. Admitted' \subseteq Counted'
            BY DEF Admitted, Counted
        <3>4. IsFiniteSet(Counted')
            BY <2>2, FS_AddElement
        <3>2. Cardinality(Admitted') <= Cardinality(Counted') /\ Cardinality(Admitted') \in Nat
            BY <3>1, <3>4, FS_Subset, FS_CardinalityType
        <3>3. Cardinality(Admitted') <= MaxConnections
            BY <2>3, <2>4, <2>6, <3>2
        <3> QED BY <2>2, <2>4, <3>3 DEF Admission, CountIsExact, AdmittedWithinLimit, Admitted
    <2> QED BY <2>5, <2>6
<1>4. ASSUME NEW s \in Session, BackOut(s) \/ Release(s) PROVE Admission'
    <2>1. gate[s] \in {"overflow", "closing"} /\ gate' = [gate EXCEPT ![s] = "gone"] /\ connections' = connections - 1
        BY <1>4 DEF BackOut, Release, Step
    <2>2. gate' \in [Session -> Gate] /\ Counted' = Counted \ {s} /\ s \in Counted /\ Admitted' = Admitted \ {s}
        BY <2>1 DEF Admission, Gate, Counted, Admitted
    <2>3. Cardinality(Counted') = Cardinality(Counted) - 1
        BY <2>2, FS_RemoveElement
    <2>4. Cardinality(Admitted') <= Cardinality(Admitted) /\ Cardinality(Admitted') \in Nat
        <3>1. Admitted' \subseteq Admitted
            BY <2>2
        <3> QED BY <3>1, FS_Subset, FS_CardinalityType
    <2>5. Cardinality(Admitted') <= MaxConnections
        BY <2>4 DEF Admission, AdmittedWithinLimit, Admitted
    <2> QED BY <2>1, <2>2, <2>3, <2>5 DEF Admission, CountIsExact, AdmittedWithinLimit, Admitted
<1>5. UNCHANGED allVars => UNCHANGED <<gate, connections>>
    BY DEF allVars, serverVars
<1>6. ASSUME NEW s \in Session, Handler(s) PROVE Admission'
    BY <1>1, <1>2, <1>4, <1>6, MostStepsMoveOn DEF Handler
<1>7. ASSUME NEW s \in Session, SubmitCommand(s) \/ ForwardEvent(s) \/ HandlerLeaves(s) PROVE Admission'
    BY <1>1, <1>2, <1>7, MostStepsMoveOn
<1> QED BY <1>1, <1>3, <1>5, <1>6, <1>7 DEF ServerNext

\* The count of connections is exact at all times.
LEMMA AdmissionHolds == ServerSpec => []Admission
<1>1. ServerInit => Admission
    <2> SUFFICES ASSUME ServerInit PROVE Admission
        OBVIOUS
    <2>1. gate = [s \in Session |-> "outside"] /\ connections = 0
        BY DEF ServerInit
    <2>2. Counted = {} /\ Admitted = {}
        BY <2>1 DEF Counted, Admitted
    <2>3. Cardinality(Counted) = 0 /\ Cardinality(Admitted) = 0
        BY <2>2, FS_EmptySet
    <2> QED BY <2>1, <2>3, ServerAssumption DEF Admission, CountIsExact, AdmittedWithinLimit, Admitted, Gate
<1> QED BY <1>1, AdmissionSteps, PTL DEF ServerSpec

\* admit lets in no more connections than the limit, although it counts a
\* connection first and looks at the limit afterwards, while others come and
\* go: the count may exceed the limit, the admitted connections do not.
THEOREM AdmissionIsLimited == ServerSpec => []AdmittedWithinLimit
<1>1. Admission => AdmittedWithinLimit
    BY DEF Admission
<1> QED BY <1>1, AdmissionHolds, PTL

-----------------------------------------------------------------------------
\* Where handlers are.

\* The steps of one handler.
ServerStep(s) ==
    \/ Arrive(s) \/ Handler(s) \/ SubmitCommand(s) \/ ForwardEvent(s) \/ HandlerLeaves(s)

\* The steps that do not call the manager, and those that only call it.
OwnStep(s) ==
    \/ Arrive(s) \/ BackOut(s) \/ CheckRooms(s) \/ Release(s) \/ GetRecord(s)
    \/ SubmitCommand(s) \/ RecordMove(s) \/ SaveFinished(s) \/ Discard(s)

CallStep(s) == JoinGoesOn(s) \/ ManagerTakes(s) \/ ForwardEvent(s) \/ LeaveGoesOn(s)

\* The steps of a handler, by what they do to the manager.
LEMMA StepKinds ==
    ASSUME NEW s \in Session, ServerStep(s)
    PROVE  \/ OwnStep(s) \/ CallStep(s) \/ JoinStarts(s) \/ JoinEnds(s)
           \/ RoomRefuses(s) \/ RoomAccepts(s) \/ HandlerLeaves(s)
BY DEF ServerStep, Handler, OwnStep, CallStep

\* A handler's own steps leave the manager alone.
LEMMA OwnStepsStay ==
    ASSUME NEW s, OwnStep(s)
    PROVE  UNCHANGED vars
BY DEF OwnStep, Arrive, BackOut, CheckRooms, Release, GetRecord, SubmitCommand, RecordMove,
       SaveFinished, Discard

\* A session's own call of the manager does nothing to another session.
LEMMA OtherSessionsStay ==
    ASSUME Inductive, NEW s \in Session, ServerStep(s), NEW t \in Session, t # s
    PROVE  pc'[t] = pc[t] /\ mine'[t] = mine[t] /\ view'[t] = view[t]
<1>1. TypeOK
    BY DEF Inductive
<1>2. CASE OwnStep(s)
    BY <1>2, OwnStepsStay DEF vars, sessionVars
<1>3. CASE JoinStarts(s) \/ JoinEnds(s) \/ RoomAccepts(s)
    BY <1>1, <1>3 DEF TypeOK, JoinStarts, JoinEnds, RoomAccepts, RoomForJoin, ReleaseOnJoinFailure,
                      Accept, Goto
<1>4. CASE JoinGoesOn(s)
    BY <1>1, <1>4 DEF TypeOK, JoinGoesOn, JoinRefused, Reconnect, TakeFirstSeat, StartMatch,
                      StartFails, Register, Goto
<1>5. CASE ManagerTakes(s) \/ RoomRefuses(s) \/ ForwardEvent(s)
    BY <1>1, <1>5 DEF TypeOK, ManagerTakes, RoomRefuses, ForwardEvent, Submit, Reject, SubmitFails,
                      Receive, Goto, sessionVars
<1>6. CASE HandlerLeaves(s) \/ LeaveGoesOn(s)
    BY <1>1, <1>6 DEF TypeOK, HandlerLeaves, LeaveGoesOn, LeaveUnknown, Leave, RoomLeave, Forget,
                      HangUp, Goto
<1> QED BY <1>2, <1>3, <1>4, <1>5, <1>6, StepKinds DEF CallStep

\* A step of one handler does nothing to another.
LEMMA OtherHandlersStay ==
    ASSUME HandlerTypes, NEW s \in Session, ServerStep(s), NEW t \in Session, t # s
    PROVE  /\ gate'[t] = gate[t] /\ home'[t] = home[t] /\ response'[t] = response[t]
           /\ t \in known' <=> t \in known
<1>1. CASE OwnStep(s)
    BY <1>1 DEF HandlerTypes, OwnStep, Arrive, BackOut, CheckRooms, Release, GetRecord,
                SubmitCommand, RecordMove, SaveFinished, Discard, Step
<1>2. CASE CallStep(s)
    BY <1>2 DEF CallStep, JoinGoesOn, ManagerTakes, ForwardEvent, LeaveGoesOn, serverVars
<1>3. CASE JoinStarts(s) \/ JoinEnds(s) \/ RoomRefuses(s) \/ RoomAccepts(s) \/ HandlerLeaves(s)
    BY <1>3 DEF HandlerTypes, JoinStarts, JoinEnds, RoomRefuses, RoomAccepts, HandlerLeaves, Step
<1> QED BY <1>1, <1>2, <1>3, StepKinds

\* No handler closes the manager.
LEMMA NobodyCloses ==
    ASSUME NEW s \in Session, ServerStep(s)
    PROVE  closes' = closes
<1>1. CASE OwnStep(s)
    BY <1>1, OwnStepsStay DEF vars, closeVars
<1>2. CASE JoinStarts(s) \/ JoinEnds(s) \/ RoomAccepts(s) \/ RoomRefuses(s)
    BY <1>2 DEF JoinStarts, JoinEnds, RoomAccepts, RoomRefuses, RoomForJoin, ReleaseOnJoinFailure,
                Accept, Reject, SubmitFails, closeVars
<1>3. CASE CallStep(s) \/ HandlerLeaves(s)
    BY <1>3 DEF CallStep, HandlerLeaves, JoinGoesOn, JoinRefused, Reconnect, TakeFirstSeat,
                StartMatch, StartFails, Register, ManagerTakes, Submit, ForwardEvent, Receive,
                LeaveGoesOn, LeaveUnknown, Leave, RoomLeave, Forget, closeVars
<1> QED BY <1>1, <1>2, <1>3, StepKinds

-----------------------------------------------------------------------------
\* Records.

\* How a step of a handler writes the record of its room.
Writes(s, r, mu, moves, finished, saved) ==
    /\ r = home[s]
    /\ record' \in [RoomId -> RecordState]
    /\ record'[r].mu = mu /\ record'[r].moves = moves
    /\ record'[r].finished = finished /\ record'[r].saved = saved
    /\ \A q \in RoomId : q # r => record'[q] = record[q]

\* Taking and releasing the mutex of a record.
LEMMA LockWrites ==
    ASSUME HandlerTypes, NEW s \in Session, NEW r \in RoomId, r = home[s],
           NEW mu \in Session \cup {Nobody}, record' = [record EXCEPT ![r].mu = mu]
    PROVE  Writes(s, r, mu, record[r].moves, record[r].finished, record[r].saved)
<1>1. record[r] \in RecordState /\ record \in [RoomId -> RecordState]
    BY DEF HandlerTypes
<1> DEFINE one == [record[r] EXCEPT !.mu = mu]
<1>2. record' = [record EXCEPT ![r] = one]
    OBVIOUS
<1>3. /\ one \in RecordState /\ one.mu = mu /\ one.moves = record[r].moves
      /\ one.finished = record[r].finished /\ one.saved = record[r].saved
    BY <1>1 DEF RecordState
<1> QED BY <1>1, <1>2, <1>3 DEF Writes

\* The turn of an accepted command is appended to the record.
LEMMA RecordMoveWrites ==
    ASSUME HandlerTypes, NEW s \in Session, NEW r \in RoomId, r = home[s], RecordMove(s),
           response[s].turn \in 1..LastTurn
    PROVE  LET ended == response[s].phase = "finished" /\ ~record[r].finished
           IN  Writes(s, r, IF ended THEN record[r].mu ELSE Nobody,
                      Append(record[r].moves, response[s].turn),
                      record[r].finished \/ ended, record[r].saved)
<1> DEFINE ended == response[s].phase = "finished" /\ ~record[r].finished
           mu    == IF ended THEN record[r].mu ELSE Nobody
           moves == Append(record[r].moves, response[s].turn)
           fin   == record[r].finished \/ ended
           one   == [record[r] EXCEPT !.moves = moves, !.finished = fin, !.mu = mu]
<1>1. record[r] \in RecordState /\ record \in [RoomId -> RecordState]
    BY DEF HandlerTypes
<1>2. record' = [record EXCEPT ![r].moves = Append(@, response[s].turn),
                               ![r].finished = @ \/ ended,
                               ![r].mu = IF ended THEN @ ELSE Nobody]
    BY DEF RecordMove
<1>3. record' = [record EXCEPT ![r] = one]
    BY <1>1, <1>2 DEF RecordState
<1>4. mu \in Session \cup {Nobody} /\ moves \in Seq(1..LastTurn) /\ fin \in BOOLEAN
    BY <1>1 DEF RecordState
<1> HIDE DEF mu, moves, fin
<1>5. /\ one \in RecordState /\ one.mu = mu /\ one.moves = moves
      /\ one.finished = fin /\ one.saved = record[r].saved
    BY <1>1, <1>4 DEF RecordState
<1>6. Writes(s, r, mu, moves, fin, record[r].saved)
    BY <1>1, <1>3, <1>5 DEF Writes
<1> QED BY <1>6 DEF mu, moves, fin

\* A finished record is stored, or fails to be.
LEMMA SaveFinishedWrites ==
    ASSUME HandlerTypes, NEW s \in Session, NEW r \in RoomId, r = home[s], SaveFinished(s)
    PROVE  \E saved \in {"stored", "failed"} :
               Writes(s, r, Nobody, record[r].moves, record[r].finished, saved)
<1>1. record[r] \in RecordState /\ record \in [RoomId -> RecordState]
    BY DEF HandlerTypes
<1>2. PICK saved \in {"stored", "failed"} :
          record' = [record EXCEPT ![r].saved = saved, ![r].mu = Nobody]
    BY DEF SaveFinished
<1> DEFINE one == [record[r] EXCEPT !.saved = saved, !.mu = Nobody]
<1>3. record' = [record EXCEPT ![r] = one]
    BY <1>1, <1>2 DEF RecordState
<1>4. /\ one \in RecordState /\ one.mu = Nobody /\ one.moves = record[r].moves
      /\ one.finished = record[r].finished /\ one.saved = saved
    BY <1>1 DEF RecordState
<1>5. Writes(s, r, Nobody, record[r].moves, record[r].finished, saved)
    BY <1>1, <1>3, <1>4 DEF Writes
<1> QED BY <1>5

\* Every other step leaves the records alone.
LEMMA RecordsUnwritten ==
    ASSUME NEW s \in Session, ServerStep(s),
           ~SubmitCommand(s), ~RoomRefuses(s), ~RecordMove(s), ~SaveFinished(s)
    PROVE  UNCHANGED record
<1>1. CASE OwnStep(s)
    BY <1>1 DEF OwnStep, Arrive, BackOut, CheckRooms, Release, GetRecord, Discard
<1>2. CASE CallStep(s)
    BY <1>2 DEF CallStep, JoinGoesOn, ManagerTakes, ForwardEvent, LeaveGoesOn, serverVars
<1> QED BY <1>1, <1>2, StepKinds DEF JoinStarts, JoinEnds, RoomAccepts, HandlerLeaves

-----------------------------------------------------------------------------
\* Serving is inductive.

\* A handler in its loop knows the room of its session.
LEMMA LoopAtHome ==
    ASSUME Inductive, Serving, NEW s \in Session, gate[s] \in Loop
    PROVE  home[s] \in RoomId /\ home[s] = mine[s] /\ pc[s] \in {"serving", "submitting"}
<1>1. Place(s)
    BY DEF Serving
<1>2. pc[s] \in {"serving", "submitting"} /\ home[s] = mine[s]
    BY <1>1 DEF Place, Loop, Busy
<1> QED BY <1>2, DealtRoom

\* An accepted command: the response is the new state of the room.
LEMMA AcceptedGame ==
    ASSUME Inductive, Serving, NEW s \in Session, RoomAccepts(s)
    PROVE  LET r == home[s]
           IN  /\ gate[s] = "submitting" /\ r \in RoomId /\ r = mine[s] /\ Accept(s)
               /\ gate' = [gate EXCEPT ![s] = "recording"]
               /\ response' = [response EXCEPT ![s] = room'[r].game]
               /\ room[r].game.turn \in Nat /\ room[r].game.phase = "playing"
               /\ room'[r].game \in Game /\ room'[r].game.turn = room[r].game.turn + 1
               /\ \A q \in RoomId : q # r => room'[q].game = room[q].game
<1> DEFINE r == home[s]
<1>1. /\ gate[s] = "submitting" /\ Accept(s) /\ gate' = [gate EXCEPT ![s] = "recording"]
      /\ response' = [response EXCEPT ![s] = room'[mine[s]].game]
    BY DEF RoomAccepts, Step
<1>2. r \in RoomId /\ r = mine[s]
    BY <1>1, LoopAtHome DEF Loop, Busy
<1>3. /\ room[mine[s]].game \in Game /\ room[mine[s]].game.phase = "playing"
      /\ room'[mine[s]].game = Advance(room[mine[s]].game) /\ room'[mine[s]].game \in Game
      /\ \A q \in RoomId : q # mine[s] => room'[q] = room[q]
    BY <1>1, AcceptAdvances
<1>4. room[r].game.turn \in Nat /\ room'[r].game.turn = room[r].game.turn + 1
    BY <1>2, <1>3, LastTurnAssumption DEF Game, Advance
<1> QED BY <1>1, <1>2, <1>3, <1>4

\* Every step keeps the types of the handlers' state.
LEMMA HandlerTypesKept ==
    ASSUME Inductive, Serving, NEW s \in Session, ServerStep(s)
    PROVE  HandlerTypes'
<1>0. HandlerTypes /\ TypeOK
    BY DEF Serving, Inductive
<1>1. record' \in [RoomId -> RecordState]
    <2>1. CASE SubmitCommand(s)
        <3>1. home[s] \in RoomId /\ record' = [record EXCEPT ![home[s]].mu = s]
            BY <2>1, LoopAtHome DEF SubmitCommand, Step, Loop
        <3> QED BY <1>0, <3>1, LockWrites DEF Writes
    <2>2. CASE RoomRefuses(s)
        <3>1. home[s] \in RoomId /\ record' = [record EXCEPT ![home[s]].mu = Nobody]
            BY <2>2, LoopAtHome DEF RoomRefuses, Step, Unlocked, Loop, Busy
        <3> QED BY <1>0, <3>1, LockWrites DEF Writes
    <2>3. CASE RecordMove(s)
        <3>1. gate[s] = "recording" /\ Place(s)
            BY <2>3 DEF RecordMove, Serving
        <3>2. home[s] \in RoomId
            BY <3>1, LoopAtHome DEF Loop, Busy
        <3>3. response[s].turn \in 1..LastTurn
            BY <3>1, LastTurnAssumption DEF Place, Game
        <3> QED BY <1>0, <2>3, <3>2, <3>3, RecordMoveWrites DEF Writes
    <2>4. CASE SaveFinished(s)
        <3>1. home[s] \in RoomId
            BY <2>4, LoopAtHome DEF SaveFinished, Step, Loop, Busy
        <3> QED BY <1>0, <2>4, <3>1, SaveFinishedWrites DEF Writes
    <2> QED BY <1>0, <2>1, <2>2, <2>3, <2>4, RecordsUnwritten DEF HandlerTypes
<1>2. CASE OwnStep(s)
    <2>1. gate' \in [Session -> Gate]
        BY <1>0, <1>2 DEF HandlerTypes, Gate, OwnStep, Arrive, BackOut, CheckRooms, Release,
                          GetRecord, SubmitCommand, RecordMove, SaveFinished, Discard, Step
    <2>2. ledger' \in SUBSET RoomId /\ known' \in SUBSET Session
        BY <1>0, <1>2 DEF HandlerTypes, OwnStep, Arrive, BackOut, CheckRooms, Release,
                          GetRecord, SubmitCommand, RecordMove, SaveFinished, Discard
    <2>3. home' \in [Session -> RoomId \cup {NoRoom}] /\ response' \in [Session -> SomeGame]
        BY <1>0, <1>2 DEF TypeOK, HandlerTypes, SomeGame, OwnStep, Arrive, BackOut, CheckRooms,
                          Release, GetRecord, SubmitCommand, RecordMove, SaveFinished, Discard
    <2> QED BY <1>1, <2>1, <2>2, <2>3 DEF HandlerTypes
<1>3. CASE CallStep(s)
    BY <1>0, <1>3 DEF HandlerTypes, CallStep, JoinGoesOn, ManagerTakes, ForwardEvent, LeaveGoesOn,
                      serverVars
<1>4. CASE JoinStarts(s) \/ JoinEnds(s) \/ RoomRefuses(s) \/ HandlerLeaves(s)
    BY <1>0, <1>1, <1>4 DEF HandlerTypes, Gate, JoinStarts, JoinEnds, RoomRefuses, HandlerLeaves, Step
<1>5. CASE RoomAccepts(s)
    <2>1. gate' \in [Session -> Gate] /\ response' \in [Session -> SomeGame]
        BY <1>0, <1>5, AcceptedGame DEF HandlerTypes, Gate, SomeGame
    <2> QED BY <1>0, <1>1, <1>5, <2>1 DEF HandlerTypes, RoomAccepts
<1> QED BY <1>2, <1>3, <1>4, <1>5, StepKinds

\* The room of a join has a record, which seedFor makes with a new room.
LEMMA RoomIsEntered ==
    ASSUME Inductive, Unclosed, NEW s \in Session, JoinStarts(s)
    PROVE  \E r \in RoomId :
              /\ pc[s] = "start" /\ pc' = [pc EXCEPT ![s] = "picked"]
              /\ mine' = [mine EXCEPT ![s] = r]
              /\ rooms' = rooms \cup {r}
              /\ ledger' = IF r \in rooms THEN ledger ELSE ledger \cup {r}
              /\ UNCHANGED <<room, view>>
<1> DEFINE p      == PlayerOf[s]
           old    == players[p] # NoRoom /\ players[p] \in rooms
           open   == waiting \in rooms /\ room[waiting].phase # "closed"
           target == IF old THEN players[p] ELSE IF open THEN waiting ELSE nextID + 1
<1>1. RoomForJoin(s) /\ ledger' = ledger \cup {q \in RoomId : nextID < q /\ q <= nextID'}
    BY DEF JoinStarts
<1>2. /\ pc[s] = "start" /\ pc' = [pc EXCEPT ![s] = "picked"]
      /\ mine' = [mine EXCEPT ![s] = target]
      /\ rooms' = rooms \cup {target}
      /\ nextID' = IF target > nextID THEN target ELSE nextID
      /\ UNCHANGED <<room, view>>
    BY <1>1 DEF RoomForJoin, Goto
<1>3. PICK r \in RoomId : mine' = [mine EXCEPT ![s] = r]
    BY <1>1, RoomIsGiven
<1>4. TypeOK /\ nextID \in Nat /\ rooms \subseteq 1..nextID
    <2>1. TypeOK /\ rooms \subseteq 1..nextID
        BY DEF Inductive, RoomsCreated
    <2>2. nextID \in Nat
        BY <2>1, Constants DEF TypeOK
    <2> QED BY <2>1, <2>2
<1>5. r = target
    BY <1>2, <1>3, <1>4 DEF TypeOK
<1>6. CASE old \/ open
    <2>1. target \in rooms
        BY <1>6
    <2> HIDE DEF target
    <2>2. nextID' = nextID
        BY <1>2, <1>4, <2>1
    <2>3. {q \in RoomId : nextID < q /\ q <= nextID'} = {}
        BY <1>4, <2>2, Constants
    <2> QED BY <1>1, <1>2, <1>5, <2>1, <2>3
<1>7. CASE ~old /\ ~open
    <2>1. target = nextID + 1
        BY <1>7
    <2> HIDE DEF target
    <2>2. nextID' = nextID + 1 /\ target \notin rooms
        BY <1>2, <1>4, <2>1
    <2>3. {q \in RoomId : nextID < q /\ q <= nextID'} = {target}
        BY <1>4, <1>5, <2>1, <2>2, Constants
    <2> QED BY <1>1, <1>2, <1>5, <2>2, <2>3
<1> QED BY <1>6, <1>7

\* A room that is created gets its record.
LEMMA RecordsAreMade ==
    ASSUME Inductive, Unclosed, Serving, NEW s \in Session, ServerStep(s)
    PROVE  rooms' \subseteq ledger'
<1>0. rooms \subseteq ledger
    BY DEF Serving
<1>1. CASE OwnStep(s)
    <2>1. UNCHANGED rooms
        BY <1>1, OwnStepsStay DEF vars, managerVars
    <2> QED BY <1>0, <1>1, <2>1 DEF OwnStep, Arrive, BackOut, CheckRooms, Release, GetRecord,
                                    SubmitCommand, RecordMove, SaveFinished, Discard
<1>2. CASE CallStep(s)
    <2>1. UNCHANGED ledger
        BY <1>2 DEF CallStep, JoinGoesOn, ManagerTakes, ForwardEvent, LeaveGoesOn, serverVars
    <2>2. rooms' \subseteq rooms
        BY <1>2 DEF CallStep, JoinGoesOn, ManagerTakes, ForwardEvent, LeaveGoesOn, JoinRefused,
                    Reconnect, TakeFirstSeat, StartMatch, StartFails, Register, Submit, Receive,
                    RoomLeave, Forget, managerVars
    <2> QED BY <1>0, <2>1, <2>2
<1>3. CASE JoinStarts(s)
    BY <1>0, <1>3, RoomIsEntered
<1>4. CASE JoinEnds(s) \/ RoomRefuses(s) \/ RoomAccepts(s) \/ HandlerLeaves(s)
    BY <1>0, <1>4 DEF JoinEnds, RoomRefuses, RoomAccepts, HandlerLeaves, ReleaseOnJoinFailure,
                      Accept, Reject, SubmitFails, LeaveUnknown, Leave, managerVars
<1> QED BY <1>1, <1>2, <1>3, <1>4, StepKinds

\* How a session that serves or leaves goes on.
LEMMA LeavesHome ==
    ASSUME Inductive, Unclosed, NEW s \in Session, Leave(s) \/ LeaveUnknown(s)
    PROVE  pc[s] = "serving" /\ pc'[s] = "leaving" /\ mine'[s] = mine[s] /\ view'[s] = view[s]
<1>1. Leave(s) /\ TypeOK
    BY NeverUnknown DEF Inductive
<1>2. pc[s] = "serving"
    BY <1>1 DEF Leave, Goto
<1>3. players[PlayerOf[s]] = mine[s]
    BY <1>2 DEF Unclosed, Registered
<1> QED BY <1>1, <1>2, <1>3 DEF Leave, Goto, TypeOK

\* A handler's step takes it from one place to another.
LEMMA PlaceKept ==
    ASSUME Inductive, Unclosed, Serving, NEW s \in Session, ServerStep(s)
    PROVE  Place(s)'
<1>0. HandlerTypes /\ TypeOK /\ Place(s) /\ rooms \subseteq ledger
    BY DEF Serving, Inductive
<1>1. CASE OwnStep(s)
    <2>1. UNCHANGED <<pc, mine, view>>
        BY <1>1, OwnStepsStay DEF vars, sessionVars
    <2>2. CASE Arrive(s) \/ BackOut(s) \/ CheckRooms(s) \/ Release(s) \/ Discard(s)
        BY <1>0, <2>1, <2>2 DEF HandlerTypes, Place, Arriving, Loop, Busy, InJoin,
                Arrive, BackOut, CheckRooms, Release, Discard, Step
    <2>3. CASE GetRecord(s)
        <3>1. /\ gate[s] = "joining" /\ pc[s] = "serving" /\ gate'[s] = "reading"
              /\ home'[s] = mine[s]
              /\ known' = IF mine[s] \in ledger THEN known \cup {s} ELSE known
            BY <1>0, <2>3 DEF HandlerTypes, GetRecord, Step
        <3>2. mine[s] \in rooms /\ mine[s] \in RoomId
            BY <3>1, HoldingInMap DEF Holding
        <3> QED BY <1>0, <2>1, <3>1, <3>2 DEF Place, Arriving, Loop, Busy
    <2>4. CASE SubmitCommand(s) \/ RecordMove(s) \/ SaveFinished(s)
        BY <1>0, <2>1, <2>4 DEF HandlerTypes, Place, Arriving, Loop, Busy,
                SubmitCommand, RecordMove, SaveFinished, Step
    <2> QED BY <1>1, <2>2, <2>3, <2>4 DEF OwnStep
<1>2. CASE JoinGoesOn(s)
    <2>1. /\ gate[s] = "joining" /\ pc[s] \in InJoin /\ pc'[s] \in InJoin \cup {"serving"}
          /\ UNCHANGED <<view, gate, home>>
        BY <1>0, <1>2 DEF TypeOK, InJoin, JoinGoesOn, JoinRefused, Reconnect, TakeFirstSeat,
                StartMatch, StartFails, Register, Goto, serverVars
    <2> QED BY <1>0, <2>1 DEF Place, Arriving, Loop, Busy
<1>3. CASE ManagerTakes(s)
    BY <1>0, <1>3 DEF TypeOK, ManagerTakes, Submit, Goto, serverVars, Place, Arriving, Loop, Busy
<1>4. CASE ForwardEvent(s)
    <2>1. gate[s] \in Loop /\ UNCHANGED <<gate, home, known, pc, mine, response>>
        BY <1>4 DEF ForwardEvent, InLoop, Loop, Busy, Receive, serverVars, sessionVars
    <2>2. home[s] \in RoomId
        BY <2>1, LoopAtHome
    <2> QED BY <1>0, <2>1, <2>2 DEF Place, Arriving, Loop, Busy
<1>5. CASE LeaveGoesOn(s)
    <2>1. gate[s] = "leaving" /\ UNCHANGED <<gate, home, known, response>>
        BY <1>5 DEF LeaveGoesOn, serverVars
    <2>2. CASE RoomLeave(s)
        <3>1. view'[s] = NoGame /\ pc[s] = "leaving"
            BY <1>0, <2>2 DEF TypeOK, RoomLeave, HangUp
        <3>2. pc'[s] = "done" \/ (pc'[s] = "emptied" /\ mine'[s] = mine[s])
            BY <1>0, <2>2 DEF TypeOK, RoomLeave
        <3> QED BY <1>0, <2>1, <3>1, <3>2 DEF Place, Arriving, Loop, Busy
    <2>3. CASE Forget(s)
        <3>1. pc'[s] = "done" /\ UNCHANGED view
            BY <1>0, <2>3 DEF TypeOK, Forget, Goto
        <3> QED BY <1>0, <2>1, <3>1 DEF Place, Arriving, Loop, Busy
    <2> QED BY <1>5, <2>2, <2>3 DEF LeaveGoesOn
<1>6. CASE JoinStarts(s)
    <2>1. gate[s] = "joining" /\ pc'[s] = "picked" /\ UNCHANGED <<gate, home, view>>
        BY <1>0, <1>6 DEF TypeOK, JoinStarts, RoomForJoin, Goto
    <2> QED BY <1>0, <2>1 DEF Place, Arriving, Loop, Busy, InJoin
<1>7. CASE JoinEnds(s)
    <2>1. gate'[s] = "closing" /\ pc'[s] = "done" /\ UNCHANGED <<home, view>>
        BY <1>0, <1>7 DEF HandlerTypes, TypeOK, JoinEnds, ReleaseOnJoinFailure, Goto, Step
    <2> QED BY <1>0, <2>1 DEF Place, Arriving, Loop, Busy
<1>8. CASE RoomRefuses(s)
    <2>1. /\ gate[s] = "submitting" /\ gate'[s] = "reading" /\ pc'[s] = "serving"
          /\ UNCHANGED <<home, mine, known>>
        BY <1>0, <1>8 DEF HandlerTypes, TypeOK, RoomRefuses, Reject, SubmitFails, Goto, Step
    <2>2. home[s] \in RoomId
        BY <2>1, LoopAtHome DEF Loop, Busy
    <2> QED BY <1>0, <2>1, <2>2 DEF Place, Arriving, Loop, Busy
<1>9. CASE RoomAccepts(s)
    <2>1. /\ gate[s] = "submitting" /\ gate'[s] = "recording" /\ pc'[s] = "serving"
          /\ UNCHANGED <<home, mine, known, view>>
        BY <1>0, <1>9 DEF HandlerTypes, TypeOK, RoomAccepts, Accept, Goto, Step
    <2>2. response'[s] \in Game /\ response'[s].turn > 0
        BY <1>0, <1>9, AcceptedGame DEF HandlerTypes
    <2> QED BY <1>0, <2>1, <2>2 DEF Place, Arriving, Loop, Busy
<1>10. CASE HandlerLeaves(s)
    <2>1. /\ gate[s] = "reading" /\ gate'[s] = "leaving" /\ UNCHANGED home
          /\ LeaveUnknown(s) \/ Leave(s)
        BY <1>0, <1>10 DEF HandlerTypes, HandlerLeaves, Step
    <2>2. pc'[s] = "leaving" /\ mine'[s] = mine[s] /\ view'[s] = view[s]
        BY <2>1, LeavesHome
    <2> QED BY <1>0, <2>1, <2>2 DEF Place, Arriving, Loop, Busy
<1> QED BY <1>1, <1>2, <1>3, <1>4, <1>5, <1>6, <1>7, <1>8, <1>9, <1>10, StepKinds DEF CallStep

\* Every step keeps what is known of the handlers' places.
LEMMA ServingSteps ==
    ASSUME Inductive, Unclosed, Serving, NEW s \in Session, ServerStep(s)
    PROVE  Serving'
<1>1. closes' = 0
    BY NobodyCloses DEF Serving
<1>2. ASSUME NEW t \in Session PROVE Place(t)'
    <2>1. CASE t = s
        BY <2>1, PlaceKept
    <2>2. CASE t # s
        <3>1. /\ pc'[t] = pc[t] /\ mine'[t] = mine[t] /\ view'[t] = view[t]
              /\ gate'[t] = gate[t] /\ home'[t] = home[t] /\ response'[t] = response[t]
              /\ t \in known' <=> t \in known
            BY <2>2, OtherSessionsStay, OtherHandlersStay DEF Serving
        <3> QED BY <3>1 DEF Serving, Place
    <2> QED BY <2>1, <2>2
<1> QED BY <1>1, <1>2, HandlerTypesKept, RecordsAreMade DEF Serving

-----------------------------------------------------------------------------
\* The mutex of a record.

\* What a step does to the mutex of the handler's room, if it writes it.
LEMMA MutexSteps ==
    ASSUME Inductive, Unclosed, Serving, MutexIsHeld, NEW s \in Session, ServerStep(s)
    PROVE  MutexIsHeld'
<1>0. HandlerTypes
    BY DEF Serving
<1>1. \A t \in Session : t # s => gate'[t] = gate[t] /\ home'[t] = home[t]
    BY <1>0, OtherHandlersStay
<1>2. ASSUME NEW r \in RoomId, r = home[s], home'[s] = r,
             NEW mu \in {s, Nobody}, record'[r].mu = mu, mu = s <=> gate'[s] \in Busy,
             \A q \in RoomId : q # r => record'[q] = record[q],
             record[r].mu = Nobody \/ gate[s] \in Busy
      PROVE  MutexIsHeld'
    <2>1. \A t \in Session : t # s => record[r].mu # t
        BY <1>2, Constants DEF MutexIsHeld
    <2> SUFFICES ASSUME NEW t \in Session, NEW q \in RoomId
                 PROVE  record'[q].mu = t <=> gate'[t] \in Busy /\ home'[t] = q
        BY DEF MutexIsHeld
    <2>2. CASE t = s
        BY <1>2, <2>2, Constants DEF MutexIsHeld
    <2>3. CASE t # s /\ q = r
        BY <1>1, <1>2, <2>1, <2>3, Constants DEF MutexIsHeld
    <2>4. CASE t # s /\ q # r
        BY <1>1, <1>2, <2>4 DEF MutexIsHeld
    <2> QED BY <2>2, <2>3, <2>4
<1>3. CASE SubmitCommand(s)
    <2>1. /\ gate[s] = "reading" /\ gate'[s] = "submitting" /\ UNCHANGED home
          /\ record[home[s]].mu = Nobody /\ record' = [record EXCEPT ![home[s]].mu = s]
        BY <1>0, <1>3 DEF HandlerTypes, SubmitCommand, Step
    <2>2. PICK r \in RoomId : r = home[s]
        BY <2>1, LoopAtHome DEF Loop
    <2>4. record' = [record EXCEPT ![r].mu = s]
        BY <2>1, <2>2
    <2>5. Writes(s, r, s, record[r].moves, record[r].finished, record[r].saved)
        BY <1>0, <2>2, <2>4, LockWrites
    <2>3. record'[r].mu = s /\ \A q \in RoomId : q # r => record'[q] = record[q]
        BY <2>5 DEF Writes
    <2> QED BY <1>2, <2>1, <2>2, <2>3 DEF Busy
<1>4. CASE RoomRefuses(s)
    <2>1. /\ gate[s] = "submitting" /\ gate'[s] = "reading" /\ UNCHANGED home
          /\ record' = [record EXCEPT ![home[s]].mu = Nobody]
        BY <1>0, <1>4 DEF HandlerTypes, RoomRefuses, Step, Unlocked
    <2>2. PICK r \in RoomId : r = home[s]
        BY <2>1, LoopAtHome DEF Loop, Busy
    <2>4. record' = [record EXCEPT ![r].mu = Nobody]
        BY <2>1, <2>2
    <2>5. Writes(s, r, Nobody, record[r].moves, record[r].finished, record[r].saved)
        BY <1>0, <2>2, <2>4, LockWrites
    <2>3. record'[r].mu = Nobody /\ \A q \in RoomId : q # r => record'[q] = record[q]
        BY <2>5 DEF Writes
    <2> QED BY <1>2, <2>1, <2>2, <2>3, Constants DEF Busy
<1>5. CASE RecordMove(s)
    <2>1. gate[s] = "recording" /\ UNCHANGED home /\ Place(s)
        BY <1>5 DEF RecordMove, Serving
    <2>2. PICK r \in RoomId : r = home[s]
        BY <2>1, LoopAtHome DEF Loop, Busy
    <2> DEFINE ended == response[s].phase = "finished" /\ ~record[r].finished
               mu    == IF ended THEN record[r].mu ELSE Nobody
    <2>3. response[s].turn \in 1..LastTurn
        BY <2>1, LastTurnAssumption DEF Place, Game
    <2>4. record'[r].mu = mu /\ \A q \in RoomId : q # r => record'[q] = record[q]
        BY <1>0, <1>5, <2>2, <2>3, RecordMoveWrites DEF Writes
    <2>5. gate'[s] = IF ended THEN "saving" ELSE "reading"
        BY <1>0, <1>5, <2>2 DEF HandlerTypes, RecordMove
    <2>6. record[r].mu = s
        BY <2>1, <2>2 DEF MutexIsHeld, Busy
    <2>7. mu \in {s, Nobody} /\ (mu = s <=> gate'[s] \in Busy)
        BY <2>5, <2>6, Constants DEF Busy
    <2> HIDE DEF mu
    <2> QED BY <1>2, <2>1, <2>2, <2>4, <2>7 DEF Busy
<1>6. CASE SaveFinished(s)
    <2>1. gate[s] = "saving" /\ gate'[s] = "reading" /\ UNCHANGED home
        BY <1>0, <1>6 DEF HandlerTypes, SaveFinished, Step
    <2>2. PICK r \in RoomId : r = home[s]
        BY <2>1, LoopAtHome DEF Loop, Busy
    <2>3. record'[r].mu = Nobody /\ \A q \in RoomId : q # r => record'[q] = record[q]
        BY <1>0, <1>6, <2>2, SaveFinishedWrites DEF Writes
    <2> QED BY <1>2, <2>1, <2>2, <2>3, Constants DEF Busy
<1>7. CASE ~SubmitCommand(s) /\ ~RoomRefuses(s) /\ ~RecordMove(s) /\ ~SaveFinished(s)
    <2>1. UNCHANGED record
        BY <1>7, RecordsUnwritten
    <2>2. gate'[s] \in Busy <=> gate[s] \in Busy
        <3>1. CASE OwnStep(s)
            BY <1>0, <1>7, <3>1 DEF HandlerTypes, Busy, OwnStep, Arrive, BackOut, CheckRooms,
                                    Release, GetRecord, Discard, Step
        <3>2. CASE CallStep(s)
            BY <3>2 DEF CallStep, JoinGoesOn, ManagerTakes, ForwardEvent, LeaveGoesOn, serverVars
        <3>3. CASE JoinStarts(s) \/ JoinEnds(s) \/ RoomAccepts(s) \/ HandlerLeaves(s)
            BY <1>0, <3>3 DEF HandlerTypes, Busy, JoinStarts, JoinEnds, RoomAccepts, HandlerLeaves, Step
        <3> QED BY <1>7, <3>1, <3>2, <3>3, StepKinds
    <2>3. gate[s] \in Busy => home'[s] = home[s]
        <3>1. CASE OwnStep(s)
            BY <1>7, <3>1 DEF Busy, OwnStep, Arrive, BackOut, CheckRooms, Release, GetRecord, Discard, Step
        <3>2. CASE CallStep(s)
            BY <3>2 DEF CallStep, JoinGoesOn, ManagerTakes, ForwardEvent, LeaveGoesOn, serverVars
        <3>3. CASE JoinStarts(s) \/ JoinEnds(s) \/ RoomAccepts(s) \/ HandlerLeaves(s)
            BY <3>3 DEF JoinStarts, JoinEnds, RoomAccepts, HandlerLeaves
        <3> QED BY <1>7, <3>1, <3>2, <3>3, StepKinds
    <2> QED BY <1>1, <2>1, <2>2, <2>3 DEF MutexIsHeld
<1> QED BY <1>3, <1>4, <1>5, <1>6, <1>7

\* Two handlers never have commands for one room in hand.
LEMMA OneCommandInHand ==
    ASSUME MutexIsHeld, NEW s \in Session, NEW t \in Session, NEW r \in RoomId,
           gate[s] \in Busy, home[s] = r, gate[t] \in Busy, home[t] = r
    PROVE  s = t
BY DEF MutexIsHeld

-----------------------------------------------------------------------------
\* Records follow the games.

\* Only an accepted command advances a game.
LEMMA ServerGamesStay ==
    ASSUME Inductive, NEW s \in Session, ServerStep(s), ~RoomAccepts(s), NEW r \in RoomId
    PROVE  /\ \/ room'[r].game = room[r].game
              \/ room[r].game = NoGame /\ room'[r].game = NewGame
           /\ room'[r].game.turn = room[r].game.turn
           /\ room'[r].game.phase = "finished" <=> room[r].game.phase = "finished"
<1>1. \/ room'[r].game = room[r].game
      \/ room[r].game = NoGame /\ room'[r].game = NewGame
    <2>1. CASE OwnStep(s)
        BY <2>1, OwnStepsStay DEF vars
    <2>2. CASE JoinStarts(s) \/ JoinGoesOn(s) \/ JoinEnds(s)
        BY <2>2, GamesStay DEF JoinStarts, JoinGoesOn, JoinEnds, Join
    <2>3. CASE ManagerTakes(s) \/ ForwardEvent(s) \/ RoomRefuses(s)
        BY <2>3, GamesStay DEF ManagerTakes, ForwardEvent, RoomRefuses, Quiet
    <2>4. CASE LeaveGoesOn(s) \/ HandlerLeaves(s)
        BY <2>4, GamesStay DEF LeaveGoesOn, HandlerLeaves, Quiet
    <2> QED BY <2>1, <2>2, <2>3, <2>4, StepKinds DEF CallStep
<1> QED BY <1>1 DEF NoGame, NewGame

\* Who is where in a room changes only with the handler that steps.
LEMMA AtStays ==
    ASSUME HandlerTypes, NEW s \in Session, ServerStep(s), NEW r, NEW g,
           gate[s] = g /\ home[s] = r <=> gate'[s] = g /\ home'[s] = r
    PROVE  IsAt(r, g)' <=> IsAt(r, g)
<1>1. \A t \in Session : t # s => gate'[t] = gate[t] /\ home'[t] = home[t]
    BY OtherHandlersStay
<1>2. \A t \in Session : (gate'[t] = g /\ home'[t] = r) <=> (gate[t] = g /\ home[t] = r)
    BY <1>1
<1> QED BY <1>2 DEF IsAt

\* A record follows its room while neither changes.
LEMMA RecordStays ==
    ASSUME NEW r \in RoomId, RecordFollows(r),
           record'[r].moves = record[r].moves, record'[r].finished = record[r].finished,
           record'[r].saved = record[r].saved,
           room'[r].game.turn = room[r].game.turn,
           room'[r].game.phase = "finished" <=> room[r].game.phase = "finished",
           IsAt(r, "recording")' <=> IsAt(r, "recording"),
           IsAt(r, "saving")' <=> IsAt(r, "saving")
    PROVE  RecordFollows(r)'
BY DEF RecordFollows

\* The mutex alone changes when a command starts or is refused.
LEMMA LockSteps ==
    ASSUME Inductive, Serving, NEW s \in Session, SubmitCommand(s) \/ RoomRefuses(s)
    PROVE  \A q \in RoomId : /\ record'[q].moves = record[q].moves
                             /\ record'[q].finished = record[q].finished
                             /\ record'[q].saved = record[q].saved
<1>0. HandlerTypes
    BY DEF Serving
<1>1. PICK r \in RoomId, mu \in {s, Nobody} : r = home[s] /\ record' = [record EXCEPT ![r].mu = mu]
    BY LoopAtHome DEF SubmitCommand, RoomRefuses, Unlocked, Step, Loop, Busy
<1>2. Writes(s, r, mu, record[r].moves, record[r].finished, record[r].saved)
    BY <1>0, <1>1, LockWrites
<1> QED BY <1>2 DEF Writes

\* The turns of a record are numbered from 1.
LEMMA TurnsGrow ==
    ASSUME NEW n \in Nat
    PROVE  Append(Turns(n), n + 1) = Turns(n + 1)
<1>1. Turns(n) \in Seq(Nat) /\ Len(Turns(n)) = n /\ Turns(n + 1) \in Seq(Nat) /\ Len(Turns(n + 1)) = n + 1
    BY DEF Turns
<1>2. Append(Turns(n), n + 1) \in Seq(Nat) /\ Len(Append(Turns(n), n + 1)) = n + 1
    BY <1>1
<1>3. \A i \in 1..(n + 1) : Append(Turns(n), n + 1)[i] = Turns(n + 1)[i]
    BY <1>1 DEF Turns
<1> QED BY <1>1, <1>2, <1>3

\* Every step keeps the records in line with their rooms.
LEMMA RecordsKept ==
    ASSUME Inductive, Unclosed, Recording, NEW s \in Session, ServerStep(s), Serving', MutexIsHeld'
    PROVE  RecordsFollow'
<1>0. HandlerTypes /\ Serving /\ MutexIsHeld /\ RecordsFollow /\ ResponseIsState
    BY DEF Recording, Serving
<1> SUFFICES ASSUME NEW q \in RoomId PROVE RecordFollows(q)'
    BY DEF RecordsFollow
<1>1. RecordFollows(q)
    BY <1>0 DEF RecordsFollow
<1>2. CASE RoomAccepts(s)
    <2>1. PICK r \in RoomId : r = home[s]
        BY <1>0, <1>2, AcceptedGame
    <2>2. /\ gate[s] = "submitting" /\ gate'[s] = "recording" /\ UNCHANGED <<record, home>>
          /\ room[r].game.turn \in Nat /\ room[r].game.phase = "playing"
          /\ room'[r].game.turn = room[r].game.turn + 1
          /\ \A o \in RoomId : o # r => room'[o].game = room[o].game
        BY <1>0, <1>2, <2>1, AcceptedGame DEF HandlerTypes, RoomAccepts
    <2>3. CASE q # r
        <3>1. \A g : IsAt(q, g)' <=> IsAt(q, g)
            BY <1>0, <2>1, <2>2, <2>3, AtStays
        <3> QED BY <1>1, <2>2, <2>3, <3>1, RecordStays
    <2>4. CASE q = r
        <3>1. ~IsAt(q, "recording")
            BY <1>0, <2>1, <2>2, <2>4, OneCommandInHand DEF IsAt, Busy
        <3>2. IsAt(q, "recording")'
            BY <2>1, <2>2, <2>4 DEF IsAt
        <3>3. ~IsAt(q, "saving")'
            <4> SUFFICES ASSUME NEW t \in Session, gate'[t] = "saving", home'[t] = q PROVE FALSE
                BY DEF IsAt
            <4>1. record'[q].mu = t /\ record'[q].mu = s
                BY <2>1, <2>2, <2>4 DEF MutexIsHeld, Busy
            <4> QED BY <2>2, <4>1
        <3>4. /\ record[q].moves = Turns(room[q].game.turn)
              /\ ~record[q].finished /\ record[q].saved = "no"
            BY <1>1, <2>2, <2>4, <3>1 DEF RecordFollows
        <3>5. room'[q].game.turn > 0 /\ room'[q].game.turn - 1 = room[q].game.turn
            BY <2>2, <2>4
        <3> QED BY <2>2, <3>2, <3>3, <3>4, <3>5 DEF RecordFollows
    <2> QED BY <2>3, <2>4
<1>3. ASSUME ~RoomAccepts(s)
      PROVE  /\ room'[q].game.turn = room[q].game.turn
             /\ room'[q].game.phase = "finished" <=> room[q].game.phase = "finished"
    BY <1>3, ServerGamesStay
<1>4. CASE RecordMove(s)
    <2>1. gate[s] = "recording" /\ Place(s) /\ UNCHANGED <<home, room>>
        BY <1>0, <1>4 DEF RecordMove, Serving, vars
    <2>2. PICK r \in RoomId : r = home[s]
        BY <1>0, <2>1, LoopAtHome DEF Loop, Busy
    <2> DEFINE ended == response[s].phase = "finished" /\ ~record[r].finished
    <2>3. response[s] = room[r].game /\ response[s].turn \in 1..LastTurn
        BY <1>0, <2>1, <2>2, LastTurnAssumption DEF Place, Game, ResponseIsState
    <2>4. Writes(s, r, IF ended THEN record[r].mu ELSE Nobody,
                 Append(record[r].moves, response[s].turn),
                 record[r].finished \/ ended, record[r].saved)
        BY <1>0, <1>4, <2>2, <2>3, RecordMoveWrites
    <2>5. gate'[s] = IF ended THEN "saving" ELSE "reading"
        BY <1>0, <1>4, <2>2 DEF HandlerTypes, RecordMove
    <2>6. CASE q # r
        <3>1. \A g : IsAt(q, g)' <=> IsAt(q, g)
            BY <1>0, <2>1, <2>2, <2>6, AtStays
        <3>2. record'[q] = record[q]
            BY <2>4, <2>6 DEF Writes
        <3> QED BY <1>1, <2>1, <3>1, <3>2, RecordStays
    <2>7. CASE q = r
        <3>1. IsAt(r, "recording")
            BY <2>1, <2>2 DEF IsAt
        <3>2. /\ room[r].game.turn > 0 /\ record[r].moves = Turns(room[r].game.turn - 1)
              /\ ~record[r].finished /\ record[r].saved = "no"
            BY <1>1, <2>7, <3>1 DEF RecordFollows
        <3>3. \A t \in Session : t # s => ~(gate'[t] \in Busy /\ home'[t] = r)
            <4> SUFFICES ASSUME NEW t \in Session, t # s, gate'[t] \in Busy, home'[t] = r PROVE FALSE
                OBVIOUS
            <4>1. gate[t] \in Busy /\ home[t] = r
                BY <1>0, OtherHandlersStay
            <4> QED BY <1>0, <2>1, <2>2, <4>1, OneCommandInHand DEF Busy
        <3>4. ~IsAt(r, "recording")' /\ (IsAt(r, "saving")' <=> ended)
            BY <2>1, <2>2, <2>5, <3>3 DEF IsAt, Busy
        <3>5. ended <=> room[r].game.phase = "finished"
            BY <2>3, <3>2
        <3>6. Append(record[r].moves, response[s].turn) = Turns(room[r].game.turn)
            <4>1. room[r].game.turn - 1 \in Nat /\ (room[r].game.turn - 1) + 1 = room[r].game.turn
                BY <2>3
            <4> QED BY <2>3, <3>2, <4>1, TurnsGrow
        <3>7. /\ record'[r].moves = Turns(room[r].game.turn)
              /\ record'[r].finished <=> ended
              /\ record'[r].saved = "no"
            BY <2>4, <3>2, <3>6 DEF Writes
        <3> HIDE DEF ended
        <3> QED BY <2>1, <2>7, <3>4, <3>5, <3>7 DEF RecordFollows
    <2> QED BY <2>6, <2>7
<1>5. CASE SaveFinished(s)
    <2>1. gate[s] = "saving" /\ gate'[s] = "reading" /\ UNCHANGED <<home, room>>
        BY <1>0, <1>5 DEF HandlerTypes, SaveFinished, Step, vars
    <2>2. PICK r \in RoomId : r = home[s]
        BY <1>0, <2>1, LoopAtHome DEF Loop, Busy
    <2>3. PICK saved \in {"stored", "failed"} :
              Writes(s, r, Nobody, record[r].moves, record[r].finished, saved)
        BY <1>0, <1>5, <2>2, SaveFinishedWrites
    <2>4. CASE q # r
        <3>1. \A g : IsAt(q, g)' <=> IsAt(q, g)
            BY <1>0, <2>1, <2>2, <2>4, AtStays
        <3>2. record'[q] = record[q]
            BY <2>3, <2>4 DEF Writes
        <3> QED BY <1>1, <2>1, <3>1, <3>2, RecordStays
    <2>5. CASE q = r
        <3>1. IsAt(r, "saving")
            BY <2>1, <2>2 DEF IsAt
        <3>2. ~IsAt(r, "recording")
            BY <1>0, <2>1, <2>2, OneCommandInHand DEF IsAt, Busy
        <3>3. IsAt(r, "recording")' <=> IsAt(r, "recording")
            BY <1>0, <2>1, AtStays
        <3>4. /\ record'[r].moves = record[r].moves /\ record'[r].finished = record[r].finished
              /\ record'[r].saved # "no"
            BY <2>3 DEF Writes
        <3> QED BY <1>1, <2>1, <2>5, <3>1, <3>2, <3>3, <3>4 DEF RecordFollows
    <2> QED BY <2>4, <2>5
<1>6. CASE ~RoomAccepts(s) /\ ~RecordMove(s) /\ ~SaveFinished(s)
    <2>1. /\ record'[q].moves = record[q].moves /\ record'[q].finished = record[q].finished
          /\ record'[q].saved = record[q].saved
        BY <1>0, <1>6, LockSteps, RecordsUnwritten
    <2>2. ASSUME NEW g \in {"recording", "saving"}
          PROVE  gate[s] = g /\ home[s] = q <=> gate'[s] = g /\ home'[s] = q
        <3>1. CASE OwnStep(s)
            BY <1>0, <1>6, <3>1 DEF HandlerTypes, OwnStep, Arrive, BackOut, CheckRooms, Release,
                                    GetRecord, SubmitCommand, Discard, Step
        <3>2. CASE CallStep(s)
            BY <3>2 DEF CallStep, JoinGoesOn, ManagerTakes, ForwardEvent, LeaveGoesOn, serverVars
        <3>3. CASE JoinStarts(s) \/ JoinEnds(s) \/ RoomRefuses(s) \/ HandlerLeaves(s)
            BY <1>0, <3>3 DEF HandlerTypes, JoinStarts, JoinEnds, RoomRefuses, HandlerLeaves, Step
        <3> QED BY <1>6, <3>1, <3>2, <3>3, StepKinds
    <2>3. (IsAt(q, "recording")' <=> IsAt(q, "recording")) /\ (IsAt(q, "saving")' <=> IsAt(q, "saving"))
        BY <1>0, <2>2, AtStays
    <2> QED BY <1>1, <1>3, <1>6, <2>1, <2>3, RecordStays
<1> QED BY <1>2, <1>4, <1>5, <1>6

\* Nobody else's command comes between the response and its entry.
LEMMA ResponseKept ==
    ASSUME Inductive, Unclosed, Recording, NEW s \in Session, ServerStep(s)
    PROVE  ResponseIsState'
<1>0. HandlerTypes /\ Serving /\ MutexIsHeld /\ ResponseIsState
    BY DEF Recording, Serving
<1> SUFFICES ASSUME NEW t \in Session, gate'[t] = "recording"
             PROVE  response'[t] = room'[home'[t]].game
    BY DEF ResponseIsState
<1>1. CASE t # s
    <2>1. gate[t] = "recording" /\ home'[t] = home[t] /\ response'[t] = response[t] /\ Place(t)
        BY <1>0, <1>1, OtherHandlersStay DEF Serving
    <2>2. PICK r \in RoomId : r = home[t]
        BY <1>0, <2>1, LoopAtHome DEF Loop, Busy
    <2>3. response[t] = room[r].game /\ room[r].game.turn > 0
        BY <1>0, <2>1, <2>2 DEF ResponseIsState, Place
    <2>4. CASE RoomAccepts(s)
        <3>1. gate[s] = "submitting" /\ \A q \in RoomId : q # home[s] => room'[q].game = room[q].game
            BY <1>0, <2>4, AcceptedGame
        <3>2. home[s] # r
            BY <1>0, <1>1, <2>1, <2>2, <3>1, OneCommandInHand DEF Busy
        <3> QED BY <2>1, <2>2, <2>3, <3>1, <3>2
    <2>5. CASE ~RoomAccepts(s)
        <3>1. room'[r].game = room[r].game \/ room[r].game = NoGame
            BY <2>5, ServerGamesStay
        <3> QED BY <2>1, <2>2, <2>3, <3>1 DEF NoGame
    <2> QED BY <2>4, <2>5
<1>2. CASE t = s /\ RoomAccepts(s)
    <2>1. response'[s] = room'[home[s]].game /\ UNCHANGED home
        BY <1>0, <1>2, AcceptedGame DEF HandlerTypes, RoomAccepts
    <2> QED BY <1>2, <2>1
<1>3. CASE t = s /\ ~RoomAccepts(s)
    <2>1. ForwardEvent(s)
        <3>1. CASE OwnStep(s)
            BY <1>0, <1>3, <3>1 DEF HandlerTypes, OwnStep, Arrive, BackOut, CheckRooms, Release,
                        GetRecord, SubmitCommand, RecordMove, SaveFinished, Discard, Step
        <3>2. CASE JoinGoesOn(s) \/ ManagerTakes(s) \/ LeaveGoesOn(s)
            BY <1>3, <3>2 DEF JoinGoesOn, ManagerTakes, LeaveGoesOn, serverVars
        <3>3. CASE JoinStarts(s) \/ JoinEnds(s) \/ RoomRefuses(s) \/ HandlerLeaves(s)
            BY <1>0, <1>3, <3>3 DEF HandlerTypes, JoinStarts, JoinEnds, RoomRefuses, HandlerLeaves, Step
        <3> QED BY <1>3, <3>1, <3>2, <3>3, StepKinds DEF CallStep
    <2>2. UNCHANGED <<gate, home, response, room>>
        BY <2>1 DEF ForwardEvent, Receive, serverVars
    <2> QED BY <1>0, <1>3, <2>2 DEF ResponseIsState
<1> QED BY <1>1, <1>2, <1>3

-----------------------------------------------------------------------------
\* The ledger.

\* A room that was used stays used, and one that was not waits as before.
LEMMA UsedStays ==
    ASSUME Inductive, NEW s \in Session, ServerStep(s), NEW r \in RoomId
    PROVE  /\ Used(r) => Used(r)'
           /\ ~Used(r)' => room'[r].phase = room[r].phase
<1>1. CASE room'[r] = room[r]
    BY <1>1 DEF Used, SeatTaken
<1>2. CASE Reconnect(s) \/ TakeFirstSeat(s) \/ StartMatch(s)
    <2>1. PICK x \in Side : SitsSoundly(s, x)
        BY <1>2, ReconnectSits, TakeFirstSeatSits, StartMatchSits
    <2>2. CASE r = mine[s]
        <3>1. room'[r].seats[x].player = PlayerOf[s] /\ PlayerOf[s] # Nobody
            BY <2>1, <2>2, Constants DEF SitsSoundly, TakesSeat
        <3> QED BY <3>1 DEF Used, SeatTaken
    <2>3. CASE r # mine[s]
        BY <1>1, <2>1, <2>3 DEF SitsSoundly, TakesSeat
    <2> QED BY <2>2, <2>3
<1>3. CASE RoomLeave(s)
    <2>1. PICK q \in RoomId, x \in Side : room[q].seats[x].player = PlayerOf[s] /\ Vacates(q, {x})
        BY <1>3, RoomLeaveVacates
    <2>2. CASE r = q
        <3>1. room'[r].seats[x].player = PlayerOf[s] /\ PlayerOf[s] # Nobody
            BY <2>1, <2>2, Constants DEF Vacates
        <3> QED BY <3>1 DEF Used, SeatTaken
    <2>3. CASE r # q
        BY <1>1, <2>1, <2>3 DEF Vacates
    <2> QED BY <2>2, <2>3
<1>4. CASE Accept(s)
    <2>1. CASE r = mine[s]
        <3>1. PICK x \in Side : room[r].seats[x].player = PlayerOf[s]
            BY <1>4, <2>1, SeatIsChosen DEF Accept
        <3>2. room'[r].seats = room[r].seats /\ PlayerOf[s] # Nobody
            BY <1>4, <2>1, AcceptAdvances, Constants
        <3> QED BY <3>1, <3>2 DEF Used, SeatTaken
    <2>2. CASE r # mine[s]
        BY <1>1, <1>4, <2>2, AcceptAdvances
    <2> QED BY <2>1, <2>2
<1>5. CASE OwnStep(s)
    BY <1>1, <1>5, OwnStepsStay DEF vars
<1>6. CASE JoinStarts(s) \/ JoinEnds(s) \/ RoomRefuses(s) \/ HandlerLeaves(s)
    BY <1>1, <1>6 DEF JoinStarts, JoinEnds, RoomRefuses, HandlerLeaves, RoomForJoin,
                      ReleaseOnJoinFailure, Reject, SubmitFails, Leave, LeaveUnknown
<1>7. CASE JoinGoesOn(s)
    BY <1>1, <1>2, <1>7 DEF JoinGoesOn, JoinRefused, StartFails, Register
<1>8. CASE ManagerTakes(s) \/ ForwardEvent(s) \/ LeaveGoesOn(s)
    BY <1>1, <1>3, <1>8 DEF ManagerTakes, ForwardEvent, LeaveGoesOn, Submit, Receive, Forget
<1> QED BY <1>4, <1>5, <1>6, <1>7, <1>8, StepKinds DEF CallStep, RoomAccepts

\* A room that nobody has used waits.
LEMMA UnusedWaitsKept ==
    ASSUME Inductive, UnusedWaits, NEW s \in Session, ServerStep(s)
    PROVE  UnusedWaits'
<1>1. ASSUME NEW r \in RoomId, ~Used(r)' PROVE room'[r].phase = "waiting"
    BY <1>1, UsedStays DEF UnusedWaits
<1>2. ASSUME NEW t \in Session, pc'[t] = "refused", pc[t] = "refused" PROVE Used(mine[t])'
    <2>1. PICK r \in RoomId : r = mine[t]
        BY <1>2, DealtRoom
    <2>2. mine'[t] = mine[t]
        <3>1. CASE t # s
            BY <3>1, OtherSessionsStay
        <3>2. CASE t = s
            <4>1. CASE JoinStarts(s) \/ JoinGoesOn(s) \/ JoinEnds(s)
                BY <1>2, <3>2, <4>1 DEF Inductive, TypeOK, JoinStarts, JoinGoesOn, JoinEnds,
                    RoomForJoin, JoinRefused, Reconnect, TakeFirstSeat, StartMatch, StartFails,
                    Register, ReleaseOnJoinFailure, Goto
            <4>2. CASE OwnStep(s)
                BY <4>2, OwnStepsStay DEF vars, sessionVars
            <4>3. CASE ManagerTakes(s) \/ ForwardEvent(s) \/ RoomRefuses(s) \/ RoomAccepts(s)
                BY <4>3 DEF ManagerTakes, ForwardEvent, RoomRefuses, RoomAccepts, Submit, Receive,
                    Reject, SubmitFails, Accept, sessionVars
            <4>4. CASE LeaveGoesOn(s) \/ HandlerLeaves(s)
                BY <1>2, <3>2, <4>4 DEF LeaveGoesOn, HandlerLeaves, RoomLeave, Forget, Leave, LeaveUnknown, Goto
            <4> QED BY <4>1, <4>2, <4>3, <4>4, StepKinds DEF CallStep
        <3> QED BY <3>1, <3>2
    <2>3. Used(r)'
        BY <1>2, <2>1, UsedStays DEF UnusedWaits
    <2>4. PICK x \in Side : room'[r].seats[x].player # Nobody
        BY <2>3 DEF Used, SeatTaken
    <2> QED BY <2>1, <2>2, <2>4 DEF Used, SeatTaken
<1>3. ASSUME NEW t \in Session, pc'[t] = "refused", pc[t] # "refused" PROVE Used(mine[t])'
    <2>1. t = s
        BY <1>3, OtherSessionsStay
    <2>2. JoinRefused(s) \/ StartFails(s)
        <3>1. CASE JoinStarts(s) \/ JoinGoesOn(s) \/ JoinEnds(s)
            BY <1>3, <2>1, <3>1 DEF Inductive, TypeOK, JoinStarts, JoinGoesOn, JoinEnds,
                RoomForJoin, Reconnect, TakeFirstSeat, StartMatch,
                Register, ReleaseOnJoinFailure, Goto
        <3>2. CASE OwnStep(s)
            BY <1>3, <2>1, <3>2, OwnStepsStay DEF vars, sessionVars
        <3>3. CASE ManagerTakes(s) \/ ForwardEvent(s) \/ RoomRefuses(s) \/ RoomAccepts(s)
            BY <1>3, <2>1, <3>3 DEF Inductive, TypeOK, ManagerTakes, ForwardEvent, RoomRefuses,
                RoomAccepts, Submit, Receive, Reject, SubmitFails, Accept, Goto, sessionVars
        <3>4. CASE LeaveGoesOn(s) \/ HandlerLeaves(s)
            BY <1>3, <2>1, <3>4 DEF Inductive, TypeOK, LeaveGoesOn, HandlerLeaves, RoomLeave,
                Forget, Leave, LeaveUnknown, Goto
        <3> QED BY <3>1, <3>2, <3>3, <3>4, StepKinds DEF CallStep
    <2>3. pc[s] = "picked" /\ UNCHANGED <<room, mine>>
        BY <2>2 DEF JoinRefused, StartFails, Goto
    <2>4. PICK r \in RoomId : r = mine[s]
        BY <2>3, DealtRoom
    <2>5. Used(r)
        <3>1. CASE StartFails(s)
            BY <2>4, <3>1 DEF StartFails, Taken, Used, SeatTaken
        <3>2. CASE JoinRefused(s)
            <4> SUFFICES ASSUME ~Used(r) PROVE FALSE
                OBVIOUS
            <4>1. room[r].phase = "waiting"
                BY DEF UnusedWaits
            <4>2. Taken(r) = {} /\ ~Seated(r, PlayerOf[s])
                BY Constants DEF Used, SeatTaken, Taken, Seated, SeatsOf
            <4>3. LetsIn(r, PlayerOf[s])
                BY <4>1, <4>2, Constants DEF LetsIn
            <4> QED BY <2>4, <3>2, <4>3 DEF JoinRefused
        <3> QED BY <2>2, <3>1, <3>2
    <2> QED BY <2>1, <2>3, <2>4, <2>5 DEF Used, SeatTaken
<1> QED BY <1>1, <1>2, <1>3 DEF UnusedWaits

\* A record is made with its room and discarded after it.
LEMMA LedgerKept ==
    ASSUME Inductive, Unclosed, Serving, UnusedWaits, LedgerFollowsRooms,
           NEW s \in Session, ServerStep(s), Serving'
    PROVE  LedgerFollowsRooms'
<1>0. HandlerTypes /\ Place(s) /\ TypeOK
    BY DEF Serving, Inductive
<1>1. rooms' \subseteq ledger'
    BY DEF Serving
<1>2. \A t \in Session : t # s => gate'[t] = gate[t] /\ home'[t] = home[t]
    BY <1>0, OtherHandlersStay
<1> SUFFICES ASSUME NEW r \in ledger' \ rooms'
             PROVE  \E t \in Session : gate'[t] = "leaving" /\ home'[t] = r
    BY <1>1 DEF LedgerFollowsRooms
\* The record had no room before: somebody was about to drop it, and still is.
<1>3. ASSUME r \in ledger \ rooms, gate[s] = "leaving" => home'[s] = home[s] /\ gate'[s] = "leaving"
      PROVE  \E t \in Session : gate'[t] = "leaving" /\ home'[t] = r
    <2>1. PICK t \in Session : gate[t] = "leaving" /\ home[t] = r
        BY <1>3 DEF LedgerFollowsRooms
    <2> QED BY <1>2, <1>3, <2>1
<1>4. CASE OwnStep(s) /\ ~Discard(s)
    <2>1. UNCHANGED <<rooms, ledger>> /\ gate[s] # "leaving"
        BY <1>4 DEF OwnStep, Arrive, BackOut, CheckRooms, Release, GetRecord,
                    SubmitCommand, RecordMove, SaveFinished, Step, vars, managerVars
    <2> QED BY <1>3, <2>1
<1>5. CASE Discard(s)
    <2>1. /\ UNCHANGED <<rooms, home>>
          /\ ledger' = IF home[s] \in rooms THEN ledger ELSE ledger \ {home[s]}
        BY <1>5 DEF Discard, vars, managerVars
    <2>2. r \in ledger \ rooms /\ r # home[s]
        BY <2>1
    <2>3. PICK t \in Session : gate[t] = "leaving" /\ home[t] = r
        BY <2>2 DEF LedgerFollowsRooms
    <2> QED BY <1>2, <2>2, <2>3
<1>6. CASE JoinStarts(s)
    <2>1. gate[s] = "joining"
        BY <1>6 DEF JoinStarts
    <2>2. r \in ledger \ rooms
        BY <1>6, RoomIsEntered
    <2> QED BY <1>3, <2>1, <2>2
<1>7. CASE JoinEnds(s)
    <2>1. gate[s] = "joining" /\ ReleaseOnJoinFailure(s) /\ UNCHANGED ledger
        BY <1>7 DEF JoinEnds, Step
    <2>2. pc[s] = "refused"
        BY <2>1 DEF ReleaseOnJoinFailure, Goto
    <2>3. Taken(mine[s]) # {}
        BY <2>2 DEF UnusedWaits, Used, SeatTaken, Taken
    <2>4. UNCHANGED rooms
        BY <2>1, <2>3 DEF ReleaseOnJoinFailure
    <2> QED BY <1>3, <2>1, <2>4
<1>8. CASE CallStep(s) /\ ~Forget(s)
    <2>1. UNCHANGED <<rooms, ledger, gate, home>>
        BY <1>8 DEF CallStep, JoinGoesOn, ManagerTakes, ForwardEvent, LeaveGoesOn, JoinRefused,
                    Reconnect, TakeFirstSeat, StartMatch, StartFails, Register, Submit, Receive,
                    RoomLeave, managerVars, serverVars
    <2> QED BY <1>3, <2>1
<1>9. CASE LeaveGoesOn(s) /\ Forget(s)
    <2>1. /\ gate[s] = "leaving" /\ UNCHANGED <<ledger, gate, home>>
          /\ pc[s] = "emptied" /\ rooms' = rooms \ {mine[s]}
        BY <1>9 DEF LeaveGoesOn, Forget, Goto, serverVars
    <2>2. home[s] = mine[s]
        BY <1>0, <2>1 DEF Place
    <2>3. CASE r = mine[s]
        BY <2>1, <2>2, <2>3
    <2>4. CASE r # mine[s]
        BY <1>3, <2>1, <2>4
    <2> QED BY <2>3, <2>4
<1>10. CASE RoomRefuses(s) \/ RoomAccepts(s) \/ HandlerLeaves(s)
    <2>1. UNCHANGED <<rooms, ledger>> /\ gate[s] # "leaving"
        BY <1>10 DEF RoomRefuses, RoomAccepts, HandlerLeaves, Reject, SubmitFails, Accept,
                     Leave, LeaveUnknown, Step, managerVars
    <2> QED BY <1>3, <2>1
<1>11. CallStep(s) /\ Forget(s) => LeaveGoesOn(s)
    <2>1. ASSUME Forget(s) PROVE pc[s] = "emptied" /\ pc'[s] = "done"
        BY <1>0, <2>1 DEF TypeOK, Forget, Goto
    <2>2. ASSUME JoinGoesOn(s) \/ ManagerTakes(s) \/ ForwardEvent(s) PROVE pc[s] # "emptied"
        BY <1>0, <2>2 DEF Place, InJoin, Loop, Busy, JoinGoesOn, ManagerTakes, ForwardEvent, InLoop
    <2> QED BY <2>1, <2>2 DEF CallStep
<1> QED BY <1>4, <1>5, <1>6, <1>7, <1>8, <1>9, <1>10, <1>11, StepKinds

-----------------------------------------------------------------------------
\* The end of a game.

\* ready is closed once and for all.
LEMMA SavedStays ==
    ASSUME Inductive, Serving, NEW s \in Session, ServerStep(s),
           NEW r \in RoomId, record[r].saved # "no"
    PROVE  record'[r].saved # "no"
<1>0. HandlerTypes
    BY DEF Serving
<1>1. CASE RecordMove(s)
    <2>1. gate[s] = "recording" /\ Place(s)
        BY <1>1 DEF RecordMove, Serving
    <2>2. PICK h \in RoomId : h = home[s]
        BY <2>1, LoopAtHome DEF Loop, Busy
    <2>3. response[s].turn \in 1..LastTurn
        BY <2>1, LastTurnAssumption DEF Place, Game
    <2> QED BY <1>0, <1>1, <2>2, <2>3, RecordMoveWrites DEF Writes
<1>2. CASE SaveFinished(s)
    <2>1. PICK h \in RoomId : h = home[s]
        BY <1>2, LoopAtHome DEF SaveFinished, Step, Loop, Busy
    <2> QED BY <1>0, <1>2, <2>1, SaveFinishedWrites DEF Writes
<1> QED BY <1>1, <1>2, LockSteps, RecordsUnwritten

\* The end of a game is shown only when its record has been dealt with.
LEMMA EndShownKept ==
    ASSUME Inductive, Unclosed, Recording, EndShownAfterSaving, NEW s \in Session, ServerStep(s)
    PROVE  EndShownAfterSaving'
<1>0. HandlerTypes /\ Serving /\ MutexIsHeld /\ RecordsFollow /\ TypeOK
    BY DEF Recording, Serving, Inductive
<1> SUFFICES ASSUME NEW t \in Session, view'[t].phase = "finished"
             PROVE  record'[home'[t]].saved # "no"
    BY DEF EndShownAfterSaving
<1>1. ASSUME view'[t] = view[t], home'[t] = home[t] PROVE record'[home'[t]].saved # "no"
    <2>1. view[t] # NoGame /\ Place(t)
        BY <1>0, <1>1 DEF NoGame, Serving
    <2>2. PICK r \in RoomId : r = home[t]
        BY <2>1 DEF Place
    <2>3. record[r].saved # "no"
        BY <1>1, <2>2 DEF EndShownAfterSaving
    <2> QED BY <1>0, <1>1, <2>2, <2>3, SavedStays
<1>2. CASE t # s
    BY <1>0, <1>1, <1>2, OtherSessionsStay, OtherHandlersStay
<1>3. CASE t = s /\ ForwardEvent(s)
    <2> DEFINE game == Head(channel[s].queue).game
    <2>1. /\ gate[s] \in Loop /\ UNCHANGED <<record, home>>
          /\ view' = [view EXCEPT ![s] = IF game = NoGame THEN @ ELSE game]
          /\ s \in known /\ game.phase = "finished" => record[home[s]].saved # "no"
        BY <1>3 DEF ForwardEvent, InLoop, Loop, Busy, Receive, serverVars
    <2> HIDE DEF game
    <2>2. s \in known
        BY <1>0, <2>1 DEF Serving, Place
    <2>3. view'[s] = IF game = NoGame THEN view[s] ELSE game
        BY <1>0, <2>1 DEF TypeOK
    <2>4. CASE game = NoGame
        BY <1>1, <1>3, <2>1, <2>3, <2>4
    <2>5. CASE game # NoGame
        BY <1>3, <2>1, <2>2, <2>3, <2>5
    <2> QED BY <2>4, <2>5
<1>4. CASE t = s /\ RoomRefuses(s)
    <2>1. gate[s] = "submitting" /\ UNCHANGED home /\ (Reject(s) \/ SubmitFails(s))
        BY <1>4 DEF RoomRefuses, Step
    <2>2. PICK r \in RoomId : r = home[s] /\ r = mine[s]
        BY <1>0, <2>1, LoopAtHome DEF Loop, Busy
    <2>3. view'[s] = view[s] \/ view'[s] = room[r].game
        BY <1>0, <2>1, <2>2 DEF TypeOK, Reject, SubmitFails
    <2>4. CASE view'[s] = room[r].game
        <3>1. room[r].game.phase = "finished"
            BY <1>4, <2>4
        <3>2. ~IsAt(r, "recording") /\ ~IsAt(r, "saving")
            BY <1>0, <2>1, <2>2, OneCommandInHand DEF IsAt, Busy
        <3>3. record[r].saved # "no"
            BY <1>0, <3>1, <3>2 DEF RecordsFollow, RecordFollows
        <3> QED BY <1>0, <1>4, <2>1, <2>2, <3>3, SavedStays
    <2> QED BY <1>1, <1>4, <2>1, <2>3, <2>4
<1>5. CASE t = s /\ LeaveGoesOn(s)
    <2>1. UNCHANGED home /\ (RoomLeave(s) \/ Forget(s))
        BY <1>5 DEF LeaveGoesOn, serverVars
    <2>2. view'[s] = NoGame \/ view'[s] = view[s]
        BY <1>0, <2>1 DEF TypeOK, RoomLeave, Forget, HangUp
    <2> QED BY <1>1, <1>5, <2>1, <2>2 DEF NoGame
<1>6. CASE t = s /\ GetRecord(s)
    <2>1. gate[s] = "joining" /\ UNCHANGED view /\ Place(s)
        BY <1>0, <1>6 DEF GetRecord, Step, vars, Serving
    <2> QED BY <1>6, <2>1 DEF Place, NoGame
<1>7. CASE t = s /\ OwnStep(s) /\ ~GetRecord(s)
    BY <1>1, <1>7 DEF OwnStep, Arrive, BackOut, CheckRooms, Release, SubmitCommand, RecordMove,
                      SaveFinished, Discard, vars
<1>8. CASE t = s /\ (JoinStarts(s) \/ JoinGoesOn(s) \/ JoinEnds(s) \/ ManagerTakes(s) \/ RoomAccepts(s))
    BY <1>1, <1>8 DEF JoinStarts, JoinGoesOn, JoinEnds, ManagerTakes, RoomAccepts, RoomForJoin,
        JoinRefused, Reconnect, TakeFirstSeat, StartMatch, StartFails, Register,
        ReleaseOnJoinFailure, Submit, Accept, serverVars
<1>9. CASE t = s /\ HandlerLeaves(s)
    <2>1. view'[s] = view[s] /\ UNCHANGED home
        BY <1>9, LeavesHome DEF HandlerLeaves
    <2> QED BY <1>1, <1>9, <2>1
<1> QED BY <1>2, <1>3, <1>4, <1>5, <1>6, <1>7, <1>8, <1>9, StepKinds DEF CallStep

-----------------------------------------------------------------------------
\* Theorems about the server.

Handling == Recording /\ UnusedWaits /\ LedgerFollowsRooms /\ EndShownAfterSaving

\* The invariant holds at the start.
LEMMA InitIsHandled == ServerInit => Handling
<1> SUFFICES ASSUME ServerInit PROVE Handling
    OBVIOUS
<1>0. /\ Init
      /\ gate = [s \in Session |-> "outside"] /\ ledger = {}
      /\ record = [r \in RoomId |-> NewRecord]
      /\ home = [s \in Session |-> NoRoom] /\ known = {}
      /\ response = [s \in Session |-> NoGame]
    BY DEF ServerInit
<1>1. HandlerTypes
    <2>1. NewRecord \in RecordState
        BY DEF NewRecord, RecordState
    <2> QED BY <1>0, <2>1 DEF HandlerTypes, Gate, SomeGame
<1>2. Serving
    <2>1. \A s \in Session : Place(s)
        BY <1>0 DEF Init, Place, Arriving, Loop, Busy
    <2> QED BY <1>0, <1>1, <2>1 DEF Init, Serving
<1>3. MutexIsHeld /\ ResponseIsState
    BY <1>0, Constants DEF MutexIsHeld, ResponseIsState, NewRecord, Busy
<1>4. RecordsFollow
    <2> SUFFICES ASSUME NEW r \in RoomId PROVE RecordFollows(r)
        BY DEF RecordsFollow
    <2>1. ~IsAt(r, "recording") /\ ~IsAt(r, "saving")
        BY <1>0 DEF IsAt
    <2>2. /\ room[r].game.turn = 0 /\ room[r].game.phase # "finished"
          /\ record[r].moves = <<>> /\ ~record[r].finished /\ record[r].saved = "no"
        BY <1>0 DEF Init, NewRoom, NoGame, NewRecord
    <2>3. Turns(0) = <<>>
        BY DEF Turns
    <2> QED BY <2>1, <2>2, <2>3 DEF RecordFollows
<1>5. UnusedWaits
    BY <1>0 DEF Init, UnusedWaits, NewRoom
<1>6. LedgerFollowsRooms /\ EndShownAfterSaving
    BY <1>0 DEF Init, LedgerFollowsRooms, EndShownAfterSaving, NoGame
<1> QED BY <1>2, <1>3, <1>4, <1>5, <1>6 DEF Handling, Recording

\* Every step of the server keeps the invariant.
LEMMA HandlingSteps ==
    Inductive /\ Pairing /\ Handling /\ [ServerNext]_allVars => Handling'
<1> SUFFICES ASSUME Inductive, Pairing, Handling, [ServerNext]_allVars PROVE Handling'
    OBVIOUS
<1>1. Unclosed /\ Recording /\ Serving
    BY DEF Handling, Recording, Serving, Pairing
<1>2. ASSUME NEW s \in Session, ServerStep(s) PROVE Handling'
    <2>1. Serving'
        BY <1>1, <1>2, ServingSteps
    <2>2. MutexIsHeld'
        BY <1>1, <1>2, MutexSteps DEF Recording
    <2>3. RecordsFollow' /\ ResponseIsState'
        BY <1>1, <1>2, <2>1, <2>2, RecordsKept, ResponseKept
    <2>4. UnusedWaits' /\ LedgerFollowsRooms'
        BY <1>1, <1>2, <2>1, UnusedWaitsKept, LedgerKept DEF Handling
    <2>5. EndShownAfterSaving'
        BY <1>1, <1>2, EndShownKept DEF Handling
    <2> QED BY <2>1, <2>2, <2>3, <2>4, <2>5 DEF Handling, Recording
<1>3. CASE UNCHANGED allVars
    <2>1. /\ UNCHANGED <<gate, ledger, record, home, known, response>>
          /\ UNCHANGED <<rooms, closes, room, pc, mine, view>>
        BY <1>3 DEF allVars, serverVars, vars, managerVars, closeVars, sessionVars
    <2>2. Serving'
        BY <1>1, <2>1 DEF Serving, HandlerTypes, Place
    <2>3. MutexIsHeld' /\ RecordsFollow' /\ ResponseIsState'
        BY <1>1, <2>1 DEF Recording, MutexIsHeld, RecordsFollow, RecordFollows, IsAt, ResponseIsState
    <2>4. UnusedWaits' /\ LedgerFollowsRooms' /\ EndShownAfterSaving'
        BY <2>1 DEF Handling, UnusedWaits, Used, SeatTaken, LedgerFollowsRooms, EndShownAfterSaving
    <2> QED BY <2>2, <2>3, <2>4 DEF Handling, Recording
<1> QED BY <1>2, <1>3 DEF ServerNext, ServerStep

\* The invariant of the handlers, on top of those of matchmaking, which hold
\* because every step of the server is one of matchmaking.
THEOREM HandlingInduction == ServerSpec => []Handling
BY InitIsHandled, HandlingSteps, ServerImplementsMatch, MatchInduction, PairingInduction, PTL DEF ServerSpec

\* Every variable of the handlers keeps its type; in particular the counter of
\* connections is never negative and never more than the connections there are.
THEOREM ServerTypes == ServerSpec => []ServerTypeOK
<1>1. Handling /\ Admission => ServerTypeOK
    <2> SUFFICES ASSUME Handling, Admission PROVE ServerTypeOK
        OBVIOUS
    <2>1. HandlerTypes
        BY DEF Handling, Recording, Serving
    <2>2. connections \in 0..Cardinality(Session)
        <3>1. Counted \subseteq Session /\ connections = Cardinality(Counted)
            BY DEF Counted, Admission, CountIsExact
        <3>2. Cardinality(Counted) <= Cardinality(Session) /\ Cardinality(Counted) \in Nat
            BY <3>1, FS_Subset, CountedSets, MatchAssumption
        <3> QED BY <3>1, <3>2, Constants
    <2> QED BY <2>1, <2>2 DEF HandlerTypes, ServerTypeOK, RecordState, Gate
<1> QED BY <1>1, HandlingInduction, AdmissionHolds, PTL

\* Whenever the mutex of a record is free, the record holds the accepted
\* commands of the room's game, each once and in the order of the room,
\* although submitCommand appends them after the room has released its own
\* mutex and the two players send from two goroutines.
THEOREM RecordsAreGames == ServerSpec => []RecordIsGame
<1>1. Handling => RecordIsGame
    <2> SUFFICES ASSUME Handling, NEW r \in RoomId, record[r].mu = Nobody
                 PROVE  record[r].moves = Turns(room[r].game.turn)
        BY DEF RecordIsGame, Turns
    <2>1. ~IsAt(r, "recording")
        BY Constants DEF Handling, Recording, MutexIsHeld, IsAt, Busy
    <2>2. RecordFollows(r)
        BY DEF Handling, Recording, RecordsFollow
    <2> QED BY <2>1, <2>2 DEF RecordFollows
<1> QED BY <1>1, HandlingInduction, PTL

\* No client is shown the end of a game before saveFinished has stored it or
\* given up: forwardEvents waits for ready, and the refusal of a late command,
\* which carries the final state, has to wait for the mutex.
THEOREM EndsShownAfterSaving == ServerSpec => []EndShownAfterSaving
<1>1. Handling => EndShownAfterSaving
    BY DEF Handling
<1> QED BY <1>1, HandlingInduction, PTL

\* Every room in the manager has its record in the ledger and every record in
\* the ledger a room, or a handler that is about to discard it: seedFor and
\* discard keep up with the manager although they run outside its mutex.
THEOREM LedgerFollows == ServerSpec => []LedgerFollowsRooms
<1>1. Handling => LedgerFollowsRooms
    BY DEF Handling
<1> QED BY <1>1, HandlingInduction, PTL

\* A game that has ended is saved, or saving it was tried, or the handler that
\* ended it has the mutex and goes on to save it: ready is always closed, so
\* forwardEvents does not wait in vain.
THEOREM EndedFiled == ServerSpec => []EndedGamesAreFiled
<1>1. Handling => EndedGamesAreFiled
    <2> SUFFICES ASSUME Handling, NEW r \in RoomId, room[r].game.phase = "finished", record[r].saved = "no"
                 PROVE  \E s \in Session : /\ gate[s] \in {"recording", "saving"}
                                           /\ home[s] = r /\ record[r].mu = s
        BY DEF EndedGamesAreFiled
    <2>1. IsAt(r, "recording") \/ IsAt(r, "saving")
        BY DEF Handling, Recording, RecordsFollow, RecordFollows
    <2>2. PICK s \in Session : gate[s] \in {"recording", "saving"} /\ home[s] = r
        BY <2>1 DEF IsAt
    <2>3. record[r].mu = s
        BY <2>2 DEF Handling, Recording, MutexIsHeld, Busy
    <2> QED BY <2>2, <2>3
<1> QED BY <1>1, HandlingInduction, PTL
=============================================================================
