------------------------------ MODULE Protocol ------------------------------
(***************************************************************************)
(* The boundary between the Go server and the rules: the requests and      *)
(* responses of server/internal/protocol with both sides' checks of them,  *)
(* and the runner of server/internal/runtime, which has one process of the *)
(* rules evaluate one request.                                             *)
(*                                                                         *)
(* A pointer of the Go structures is a set: {} is nil, {x} points to x.    *)
(* Texts are abstracted to empty or not, the version to right or wrong.    *)
(* The list of legal moves may be nil ("nil") or an array ("list"), which  *)
(* Go does not tell apart but JSON and reflect.DeepEqual do.               *)
(***************************************************************************)
EXTENDS Rules, Sequences

Version == "1"
GameId  == "g"

\* What a pointer points to.
Deref(pointer) == CHOOSE x \in pointer : pointer = {x}

\* The least of a set of numbers.
Least(numbers) == CHOOSE i \in numbers : \A j \in numbers : i <= j

\* What the first failing check of an ordered list of checks says, or else.
FirstOf(checks, else) ==
    LET failing == {i \in DOMAIN checks : checks[i][1]}
    IN  IF failing = {} THEN else ELSE checks[Least(failing)][2]

-----------------------------------------------------------------------------
\* Data.

GoState(game, moves) ==
    [version |-> Version, gameId |-> GameId, game |-> game, moves |-> moves]

\* Mutant: a nil list is written as null.
MarshalNull(s) == s

\* State.MarshalJSON writes a nil list as an empty array.
Marshal(s) == [s EXCEPT !.moves = "list"]

\* State.Clone appends to nil, which leaves an empty list nil.
Clone(s) == [s EXCEPT !.moves = IF s.game.legalMoves = {} THEN "nil" ELSE @]

\* What a room or the local game holds of a response: a copy of what
\* json.Unmarshal made of an array.
Held(game) == Clone(GoState(game, "list"))

OnBoard(row, col) == row \X col \subseteq Cell

NewGameRequest(s) ==
    [version |-> Version, action |-> "newGame", gameId |-> GameId, seed |-> {s},
     state |-> {}, command |-> {}]

ApplyCommandRequest(s, c) ==
    [version |-> Version, action |-> "applyCommand", gameId |-> "", seed |-> {},
     state |-> {s}, command |-> {c}]

\* Mutant: the event carries the number of the turn it was made in.
PlacedEarly(st, id, p) ==
    [commandId |-> id, type |-> "placed", player |-> st.currentPlayer,
     turnNumber |-> st.turnNumber, row |-> {p[1]}, col |-> {p[2]},
     placedColor |-> {st.nextColor}, changes |-> Changes(st.board, p, st.nextColor)]

\* The events of an accepted command, numbered by the turn that follows it.
Placed(st, id, p) ==
    [commandId |-> id, type |-> "placed", player |-> st.currentPlayer,
     turnNumber |-> st.turnNumber + 1, row |-> {p[1]}, col |-> {p[2]},
     placedColor |-> {st.nextColor}, changes |-> Changes(st.board, p, st.nextColor)]

Passed(st, id) ==
    [commandId |-> id, type |-> "passed", player |-> st.currentPlayer,
     turnNumber |-> st.turnNumber + 1, row |-> {}, col |-> {},
     placedColor |-> {}, changes |-> {}]

-----------------------------------------------------------------------------
\* The checks of the server, protocol/validate.go: a code or "ok".

CommandCode(c) ==
    FirstOf(<<<<c.commandId = "",    "invalid_command">>,
              <<c.player \notin Side, "invalid_command">>,
              <<c.expectedTurn < 0,   "invalid_command">>,
              <<c.type = "place" /\ (c.row = {} \/ c.col = {}), "invalid_command">>,
              <<c.type = "place" /\ ~OnBoard(c.row, c.col), "invalid_coordinate">>,
              <<c.type = "pass" /\ (c.row # {} \/ c.col # {}), "invalid_command">>,
              <<c.type \notin {"place", "pass"}, "invalid_command">>>>, "ok")

\* The range of colours is that of their type, uint8, and not checked again.
StateCode(s) ==
    LET g == s.game
        bad == \/ s.gameId = ""
               \/ DOMAIN g.board # Cell
               \/ g.turnNumber < 0
               \/ g.currentPlayer \notin Side
               \/ g.consecutivePasses \notin 0..2
               \/ g.phase \notin {"playing", "finished"}
               \/ ~(g.legalMoves \subseteq Cell)
               \/ g.phase = "playing" /\ g.winner # "none"
               \/ g.phase = "finished" /\ (g.winner \notin Side \/ g.legalMoves # {})
    IN  FirstOf(<<<<s.version # Version, "unsupported_version">>,
                  <<bad, "invalid_state">>>>, "ok")

RequestCode(r) ==
    LET new    == r.action = "newGame"
        apply  == r.action = "applyCommand"
        states == {StateCode(s) : s \in r.state}
    IN  FirstOf(<<<<r.version # Version, "unsupported_version">>,
                  <<~new /\ ~apply, "invalid_request">>,
                  <<new /\ (r.gameId = "" \/ r.seed = {}), "invalid_request">>,
                  <<new /\ (r.state # {} \/ r.command # {}), "invalid_request">>,
                  <<apply /\ (r.state = {} \/ r.command = {}), "invalid_request">>,
                  <<apply /\ (r.gameId # "" \/ r.seed # {}), "invalid_request">>>>,
                IF new THEN "ok"
                ELSE IF states # {"ok"} THEN Deref(states)
                ELSE CommandCode(Deref(r.command)))

EventCode(e) ==
    FirstOf(<<<<e.commandId = "" \/ e.player \notin Side \/ e.turnNumber < 1, "invalid_command">>,
              <<e.type = "placed" /\ (e.row = {} \/ e.col = {}), "invalid_command">>,
              <<e.type = "placed" /\ ~OnBoard(e.row, e.col), "invalid_coordinate">>,
              <<e.type = "placed" /\ e.placedColor = {}, "invalid_command">>,
              <<e.type = "placed" /\ ~({c.cell : c \in e.changes} \subseteq Cell), "invalid_coordinate">>,
              <<e.type = "passed" /\ <<e.row, e.col, e.placedColor, e.changes>> # <<{}, {}, {}, {}>>,
                "invalid_command">>,
              <<e.type \notin {"placed", "passed"}, "invalid_command">>>>, "ok")

ErrorCode == {"invalid_json", "unsupported_version", "invalid_request", "invalid_state",
              "invalid_command", "invalid_coordinate", "occupied", "illegal_move",
              "not_your_turn", "stale_turn", "pass_not_allowed", "game_finished"}

\* A response holds a state and maybe an event, or an error and maybe a state.
ResponseOK(r) ==
    /\ r.version = Version
    /\ IF r.ok THEN r.error = {} /\ r.state # {} /\ (\A e \in r.event : EventCode(e) = "ok")
               ELSE r.error # {} /\ r.error \subseteq ErrorCode /\ r.event = {}
    /\ \A s \in r.state : StateCode(s) = "ok"

-----------------------------------------------------------------------------
\* The evaluation of a request by the rules, 要求評価 of rules.nako3.

RulesStateValid(s) ==
    s.version = Version /\ s.gameId # "" /\ s.moves = "list" /\ StateValid(s.game)

\* A command as the operators of Rules take it.
AsCommand(c) ==
    IF c.type = "place"
    THEN [type |-> "place", player |-> c.player, expectedTurn |-> c.expectedTurn,
          cell |-> Deref(c.row \X c.col)]
    ELSE [type |-> c.type, player |-> c.player, expectedTurn |-> c.expectedTurn]

RulesCode(r) ==
    LET new   == r.action = "newGame"
        apply == r.action = "applyCommand"
    IN  FirstOf(<<<<r.version # Version, "unsupported_version">>,
                  <<new /\ (r.gameId = "" \/ r.seed = {}), "invalid_request">>,
                  <<~new /\ ~apply, "invalid_request">>,
                  <<apply /\ (r.state = {} \/ r.command = {}), "invalid_request">>,
                  <<apply /\ \E s \in r.state : ~RulesStateValid(s), "invalid_state">>,
                  <<apply /\ \E x \in r.command : x.commandId = "", "invalid_command">>,
                  <<apply /\ \E x \in r.command : x.type = "place" /\ (x.row = {} \/ x.col = {}),
                    "invalid_command">>>>,
                IF new THEN "ok" ELSE Verdict(Deref(r.state).game, AsCommand(Deref(r.command))))

\* A rejection carries the state of the request once that was found valid.
RulesAnswer(r) ==
    LET code == RulesCode(r)
        game == Deref(r.state).game
        c    == Deref(r.command)
        accepted(s, e) == [version |-> Version, ok |-> TRUE, state |-> {s}, event |-> e, error |-> {}]
    IN  IF code # "ok"
        THEN [version |-> Version, ok |-> FALSE, event |-> {}, error |-> {code},
              state |-> IF code \in {"unsupported_version", "invalid_request", "invalid_state"}
                        THEN {} ELSE r.state]
        ELSE IF r.action = "newGame"
        THEN accepted(GoState(NewGame(Deref(r.seed)), "list"), {})
        ELSE accepted(GoState(Evaluate(game, AsCommand(c)), "list"),
                      {IF c.type = "place" THEN Placed(game, c.commandId, AsCommand(c).cell)
                                           ELSE Passed(game, c.commandId)})

-----------------------------------------------------------------------------
\* Gonako.Evaluate.

\* How the process of a request ends; a deadline counts even if the process
\* has answered.
Fate == {"answered", "timeout", "canceled", "failed", "garbled"}

\* Either an error of the runner, or a response.  A request the server finds
\* malformed is rejected without a process.
Runner(r, fate) ==
    LET code   == RequestCode(r)
        answer == RulesAnswer([r EXCEPT !.state = {Marshal(s) : s \in @}])
        failed(e) == [error |-> {e}, response |-> {}]
        given(x)  == [error |-> {}, response |-> {x}]
    IN  IF code # "ok"
        THEN given([version |-> Version, ok |-> FALSE, state |-> {}, event |-> {}, error |-> {code}])
        ELSE IF fate # "answered" THEN failed(fate)
        ELSE IF ~ResponseOK(answer) THEN failed("garbled")
        ELSE given(answer)

-----------------------------------------------------------------------------
\* Requests that reach the runner, and properties.

WireCommand(st) ==
    LET coordinate == {{}} \cup {{k} : k \in (-1)..N}
    IN  [commandId : {"", "c"}, type : {"place", "pass", "other"}, player : Side \cup {"other"},
         expectedTurn : {st.turnNumber + k : k \in Lag}, row : coordinate, col : coordinate]

\* A state with one field that is not as it should be.
Spoiled(s) ==
    {[s EXCEPT !.version = "2"], [s EXCEPT !.gameId = ""],
     [s EXCEPT !.game.board = [p \in Cell \ {<<0, 0>>} |-> @[p]]],
     [s EXCEPT !.game.turnNumber = -1], [s EXCEPT !.game.currentPlayer = "other"],
     [s EXCEPT !.game.consecutivePasses = 3], [s EXCEPT !.game.phase = "other"],
     [s EXCEPT !.game.winner = IF @ = "none" THEN "dark" ELSE "none"],
     [s EXCEPT !.game.legalMoves = @ \cup {<<0, N>>}],
     [s EXCEPT !.game.phase = IF @ = "playing" THEN "finished" ELSE "playing"]}

SomeCommand(st) ==
    [commandId |-> "c", type |-> "pass", player |-> st.currentPlayer,
     expectedTurn |-> st.turnNumber, row |-> {}, col |-> {}]

Request(st) ==
    LET some == SomeCommand(st)
    IN  {ApplyCommandRequest(Held(st), c) : c \in WireCommand(st)}
        \cup {ApplyCommandRequest(s, some) : s \in Spoiled(Held(st))}
        \cup [version : {"1", "2"}, action : {"newGame", "applyCommand", "other"},
              gameId : {"", GameId}, seed : {{}, {seed}},
              state : {{}, {Held(st)}}, command : {{}, {some}}]

Malformed == {"unsupported_version", "invalid_request", "invalid_state",
              "invalid_command", "invalid_coordinate"}

\* More than the action or the command needs: the rules overlook it.
Superfluous(r) ==
    \/ r.action = "newGame" /\ (r.state # {} \/ r.command # {})
    \/ r.action = "applyCommand" /\ (r.gameId # "" \/ r.seed # {})
    \/ \E c \in r.command : c.type = "pass" /\ (c.row # {} \/ c.col # {})

\* The two implementations of the contract agree: what the server lets through
\* is never malformed to the rules, the state of a game that is over included,
\* whose empty list of moves the server holds as nil; and but for superfluous
\* fields the server turns nothing away that the rules would accept.
ValidatorsAgree ==
    \A r \in Request(state) :
        LET sent == [r EXCEPT !.state = {Marshal(s) : s \in @}]
        IN  IF RequestCode(r) = "ok" THEN RulesCode(sent) \notin Malformed
            ELSE RulesCode(sent) = "ok" => Superfluous(r)

\* Every answer of the rules to a request that was let through passes the
\* server's own check, so that with a process that answers in time the caller
\* gets a response: an accepted command is never lost as a DecodeError.
AnswersAreUnderstood ==
    \A r \in Request(state) : Runner(r, "answered").error = {}
=============================================================================
