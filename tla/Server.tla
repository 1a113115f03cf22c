------------------------------- MODULE Server -------------------------------
(***************************************************************************)
(* handleMatch of server/main.go around the match manager: admission of    *)
(* connections, the limit of rooms, the record of every game, which is     *)
(* saved when the game ends, and its release.  The module composes these   *)
(* with Match: a step of a handler that calls the manager is a step of     *)
(* Match, taken where the handler makes the call.                          *)
(*                                                                         *)
(* A command is handled under the mutex of the room's record, from before  *)
(* the manager sees it until it is recorded and, if it ended the game,     *)
(* saved.  Events reach the other clients meanwhile.                       *)
(*                                                                         *)
(* The module follows the server until it is told to stop; what Close does *)
(* to joins, leaves and commands is in Match, what the end of the process  *)
(* does to a connection in Peer.                                           *)
(***************************************************************************)
EXTENDS Match

CONSTANTS
    MaxConnections,     \* config.maxConnections
    MaxRooms            \* config.maxRooms

ASSUME ServerAssumption ==
    /\ MaxConnections \in Nat \ {0}
    /\ MaxRooms \in Nat \ {0}

VARIABLES
    gate,           \* where each handler is, around its calls of the manager
    connections,    \* demoApp.connections
    ledger,         \* the rooms that have a record in recordLedger.rooms
    record,         \* the record made for each room
    home,           \* Membership.RoomID of each handler
    known,          \* the handlers that hold a record (not nil)
    response        \* the game in the response of a command being recorded

serverVars == <<gate, connections, ledger, record, home, known, response>>
allVars == <<vars, serverVars>>

\* A record: who holds its mutex, the turns of its moves, whether the game was
\* found finished, and what came of saving it ("no" until ready is closed).
NewRecord == [mu |-> Nobody, moves |-> <<>>, finished |-> FALSE, saved |-> "no"]

ServerInit ==
    /\ Init
    /\ gate = [s \in Session |-> "outside"]
    /\ connections = 0
    /\ ledger = {}
    /\ record = [r \in RoomId |-> NewRecord]
    /\ home = [s \in Session |-> NoRoom]
    /\ known = {}
    /\ response = [s \in Session |-> NoGame]

Step(s, from, to) == gate[s] = from /\ gate' = [gate EXCEPT ![s] = to]

-----------------------------------------------------------------------------
\* Admission.

\* Mutant: the counter is compared before it is incremented.
ArriveOffByOne(s) ==
    /\ gate[s] = "outside"
    /\ connections' = connections + 1
    /\ gate' = [gate EXCEPT ![s] = IF connections > MaxConnections
                                   THEN "overflow" ELSE "admitted"]
    /\ UNCHANGED <<vars, ledger, record, home, known, response>>

\* admit counts the connection first and looks at the limit afterwards.
Arrive(s) ==
    /\ gate[s] = "outside"
    /\ connections' = connections + 1
    /\ gate' = [gate EXCEPT ![s] = IF connections' > MaxConnections
                                   THEN "overflow" ELSE "admitted"]
    /\ UNCHANGED <<vars, ledger, record, home, known, response>>

\* Mutant: a connection over the limit stays counted.
BackOutCounted(s) ==
    /\ Step(s, "overflow", "gone")
    /\ UNCHANGED <<vars, connections, ledger, record, home, known, response>>

\* A connection over the limit is taken off the count again and refused.
BackOut(s) ==
    /\ Step(s, "overflow", "gone")
    /\ connections' = connections - 1
    /\ UNCHANGED <<vars, ledger, record, home, known, response>>

\* The number of rooms is looked at once, before Join.
CheckRooms(s) ==
    /\ gate[s] = "admitted"
    /\ gate' = [gate EXCEPT ![s] = IF Cardinality(rooms) >= MaxRooms
                                   THEN "closing" ELSE "joining"]
    /\ UNCHANGED <<vars, connections, ledger, record, home, known, response>>

\* The deferred release.
Release(s) ==
    /\ Step(s, "closing", "gone")
    /\ connections' = connections - 1
    /\ UNCHANGED <<vars, ledger, record, home, known, response>>

-----------------------------------------------------------------------------
\* Joining.  seedFor makes the record as the manager makes the room.

JoinStarts(s) ==
    /\ gate[s] = "joining"
    /\ RoomForJoin(s)
    /\ ledger' = ledger \cup {r \in RoomId : nextID < r /\ r <= nextID'}
    /\ UNCHANGED <<gate, connections, record, home, known, response>>

JoinGoesOn(s) ==
    /\ gate[s] = "joining"
    /\ \/ JoinRefused(s) \/ Reconnect(s) \/ TakeFirstSeat(s)
       \/ StartMatch(s) \/ StartFails(s) \/ Register(s)
    /\ UNCHANGED serverVars

\* A refused handler returns before it has deferred Leave and discard.
JoinEnds(s) ==
    /\ Step(s, "joining", "closing")
    /\ ReleaseOnJoinFailure(s)
    /\ UNCHANGED <<connections, ledger, record, home, known, response>>

\* The handler of a new member looks up the record of its room.
GetRecord(s) ==
    /\ Step(s, "joining", "reading")
    /\ pc[s] = "serving"
    /\ home' = [home EXCEPT ![s] = mine[s]]
    /\ known' = IF mine[s] \in ledger THEN known \cup {s} ELSE known
    /\ UNCHANGED <<vars, connections, ledger, record, response>>

-----------------------------------------------------------------------------
\* Commands.

Unlocked(r) == [record EXCEPT ![r].mu = Nobody]

\* Mutant: the record is not locked.
SubmitCommandUnlocked(s) ==
    /\ Step(s, "reading", "submitting")
    /\ s \in known
    /\ UNCHANGED <<vars, connections, ledger, record, home, known, response>>

\* submitCommand takes the mutex of the record.  Without a record it fails and
\* nothing changes.
SubmitCommand(s) ==
    /\ Step(s, "reading", "submitting")
    /\ s \in known
    /\ record[home[s]].mu = Nobody
    /\ record' = [record EXCEPT ![home[s]].mu = s]
    /\ UNCHANGED <<vars, connections, ledger, home, known, response>>

\* Until Close the manager knows the player and the room of every handler in
\* its loop, so it does not refuse the command: otherwise the handler would be
\* stuck here, against ServerDrains.
ManagerTakes(s) ==
    /\ gate[s] = "submitting"
    /\ Submit(s)
    /\ UNCHANGED serverVars

RoomRefuses(s) ==
    /\ Step(s, "submitting", "reading")
    /\ Reject(s) \/ SubmitFails(s)
    /\ record' = Unlocked(home[s])
    /\ UNCHANGED <<connections, ledger, home, known, response>>

RoomAccepts(s) ==
    /\ Step(s, "submitting", "recording")
    /\ Accept(s)
    /\ response' = [response EXCEPT ![s] = room'[mine[s]].game]
    /\ UNCHANGED <<connections, ledger, record, home, known>>

\* The accepted command is added to the record; the one that ended the game
\* leads to saving it.
RecordMove(s) ==
    LET r     == home[s]
        ended == response[s].phase = "finished" /\ ~record[r].finished
    IN  /\ gate[s] = "recording"
        /\ gate' = [gate EXCEPT ![s] = IF ended THEN "saving" ELSE "reading"]
        /\ record' = [record EXCEPT ![r].moves = Append(@, response[s].turn),
                                    ![r].finished = @ \/ ended,
                                    ![r].mu = IF ended THEN @ ELSE Nobody]
        /\ response' = [response EXCEPT ![s] = NoGame]
        /\ UNCHANGED <<vars, connections, ledger, home, known>>

\* The moves of a whole game, which the replay has to lead to the final state.
WholeGame == [i \in 1..LastTurn |-> i]

\* Mutant: ready is closed only when saving succeeds.
SaveFinishedGivesUp(s) ==
    LET r == home[s]
    IN  /\ Step(s, "saving", "reading")
        /\ \E saved \in {"no", "stored"} :
              /\ saved = "stored" => record[r].moves = WholeGame
              /\ record' = [record EXCEPT ![r].saved = saved, ![r].mu = Nobody]
        /\ UNCHANGED <<vars, connections, ledger, home, known, response>>

\* saveFinished replays the record and stores it if that leads to the state
\* the game ended with; the replay may fail.  Then ready is closed.
SaveFinished(s) ==
    LET r == home[s]
    IN  /\ Step(s, "saving", "reading")
        /\ \E saved \in {"stored", "failed"} :
              /\ saved = "stored" => record[r].moves = WholeGame
              /\ record' = [record EXCEPT ![r].saved = saved, ![r].mu = Nobody]
        /\ UNCHANGED <<vars, connections, ledger, home, known, response>>

-----------------------------------------------------------------------------
\* Events, and the end of a connection.

InLoop(s) == gate[s] \in {"reading", "submitting", "recording", "saving"}

\* Mutant: the final state is forwarded at once.
ForwardEventAtOnce(s) ==
    /\ InLoop(s)
    /\ Receive(s)
    /\ UNCHANGED serverVars

\* forwardEvents holds back the final state until ready is closed.
ForwardEvent(s) ==
    /\ InLoop(s)
    /\ Receive(s)
    /\ s \in known /\ Head(channel[s].queue).game.phase = "finished"
          => record[home[s]].saved # "no"
    /\ UNCHANGED serverVars

\* The connection has ended; the deferred function leaves the room.
HandlerLeaves(s) ==
    /\ Step(s, "reading", "leaving")
    /\ LeaveUnknown(s) \/ Leave(s)
    /\ UNCHANGED <<connections, ledger, record, home, known, response>>

LeaveGoesOn(s) ==
    /\ gate[s] = "leaving"
    /\ RoomLeave(s) \/ Forget(s)
    /\ UNCHANGED serverVars

\* Mutant: the record goes with the first player who leaves.
DiscardAlways(s) ==
    /\ Step(s, "leaving", "closing")
    /\ pc[s] = "done"
    /\ ledger' = ledger \ {home[s]}
    /\ UNCHANGED <<vars, connections, record, home, known, response>>

\* Its record is dropped if the room is gone.
Discard(s) ==
    /\ Step(s, "leaving", "closing")
    /\ pc[s] = "done"
    /\ ledger' = IF home[s] \in rooms THEN ledger ELSE ledger \ {home[s]}
    /\ UNCHANGED <<vars, connections, record, home, known, response>>

Handler(s) ==
    \/ BackOut(s) \/ CheckRooms(s) \/ Release(s)
    \/ JoinStarts(s) \/ JoinGoesOn(s) \/ JoinEnds(s) \/ GetRecord(s)
    \/ ManagerTakes(s) \/ RoomRefuses(s) \/ RoomAccepts(s)
    \/ RecordMove(s) \/ SaveFinished(s) \/ LeaveGoesOn(s) \/ Discard(s)

ServerNext ==
    \E s \in Session : \/ Arrive(s) \/ Handler(s)
                       \/ SubmitCommand(s) \/ ForwardEvent(s) \/ HandlerLeaves(s)

ServerSpec == ServerInit /\ [][ServerNext]_allVars

\* Handlers and forwarding keep running.  A connection does not last forever
\* (keepAlive ends it) and its end is seen at the latest when the command in
\* hand is done: strong fairness of leaving.  Nobody has to connect or move.
ServerFairness ==
    \A s \in Session :
        /\ WF_allVars(Handler(s))
        /\ WF_allVars(ForwardEvent(s))
        /\ SF_allVars(HandlerLeaves(s))

ServerFairSpec == ServerSpec /\ ServerFairness

-----------------------------------------------------------------------------
\* Properties.

ServerTypeOK ==
    /\ gate \in [Session -> {"outside", "overflow", "admitted", "joining", "reading",
                             "submitting", "recording", "saving", "leaving", "closing",
                             "gone"}]
    /\ connections \in 0..Cardinality(Session)
    /\ ledger \in SUBSET RoomId
    /\ record \in [RoomId -> [mu       : Session \cup {Nobody},
                              moves    : Seq(1..LastTurn),
                              finished : BOOLEAN,
                              saved    : {"no", "stored", "failed"}]]
    /\ home \in [Session -> RoomId \cup {NoRoom}]
    /\ known \in SUBSET Session
    /\ response \in [Session -> SomeGame]

\* However many connections come and go at once, admit lets in no more than
\* the limit: between its increment and the deferred decrement there are at
\* most MaxConnections handlers.
AdmittedWithinLimit ==
    Cardinality({s \in Session : gate[s] \notin {"outside", "overflow", "gone"}}) <= MaxConnections

\* While no handler is between the acceptance of a command and its entry, the
\* record of a room holds exactly the accepted commands of its game, in the
\* order in which the room accepted them, whoever sent them.
RecordIsGame ==
    \A r \in RoomId : record[r].mu = Nobody =>
        record[r].moves = [i \in 1..room[r].game.turn |-> i]

\* No client is shown the end of a game before the game has been saved or saving it has failed: neither an event nor the refusal of a
\* late command overtakes saveFinished.
EndShownAfterSaving ==
    \A s \in Session : view[s].phase = "finished" => record[home[s]].saved # "no"

\* Every room in the manager has its record in the ledger, so
\* that whoever joins it finds the record, and every record in the ledger has
\* a room or a handler that is about to drop it.
LedgerFollowsRooms ==
    /\ rooms \subseteq ledger
    /\ \A r \in ledger \ rooms : \E s \in Session : gate[s] = "leaving" /\ home[s] = r

\* A game that has ended has been saved, or could not be, or the handler whose
\* command ended it is on the way to save it and waits for nobody: whatever
\* happens to the connections, forwardEvents never waits in vain.
EndedGamesAreFiled ==
    \A r \in RoomId : room[r].game.phase = "finished" /\ record[r].saved = "no" =>
        \E s \in Session : /\ gate[s] \in {"recording", "saving"}
                          /\ home[s] = r /\ record[r].mu = s

\* Every connection ends, and in the end nothing is counted, nobody is known to
\* the manager and no record is kept: whichever way joins, leaves and refusals
\* interleave, no room, seat or counter outlives its connections.
ServerDrains ==
    <>[](/\ connections = 0
         /\ \A s \in Session : gate[s] \in {"outside", "gone"}
         /\ rooms = {} /\ waiting = NoRoom
         /\ \A p \in PlayerId : players[p] = NoRoom
         /\ ledger = {})

=============================================================================
