------------------------------- MODULE Rules -------------------------------
(***************************************************************************)
(* The rules of gradient reversi, rules/game/rules.nako3, as a pure        *)
(* function from a state and a command to a response, and the game a       *)
(* caller plays with them by keeping the state of every response.          *)
(*                                                                         *)
(* A board is a function from cells <<row, col>> to colours; Empty stands  *)
(* for NULL.  The side of the board (8), the largest colour (255) and the  *)
(* parameters of the generator (1664525, 1013904223, 2^32, 2^24) are       *)
(* constants.  Messages, versions, game ids and the order of the list of   *)
(* legal moves are left out; the list is a set.                            *)
(***************************************************************************)
EXTENDS Integers, FiniteSets

LOCAL INSTANCE FiniteSetsExt

CONSTANTS
    N,          \* rows and columns of the board
    MaxColor,   \* the lightest colour
    LcgA, LcgC, \* multiplier and increment of the generator
    ColorStep,  \* generator states per colour
    Seeds,      \* the seeds a game may be created with
    Lag         \* how far the expectedTurn of a command may be off

\* The modulus of the generator: 2^32 = 256 * 2^24 in the code.
LcgM == (MaxColor + 1) * ColorStep

ASSUME RulesAssumption ==
    /\ N \in Nat /\ N >= 3
    /\ MaxColor \in Nat
    /\ LcgA \in Nat /\ LcgC \in Nat
    /\ ColorStep \in Nat \ {0}
    /\ Seeds \subseteq 0..(LcgM - 1)
    /\ Lag \subseteq Int

VARIABLES
    state,      \* the state of the last response
    seed        \* the seed the game was created with (kept by the caller)

vars == <<state, seed>>

-----------------------------------------------------------------------------
\* Boards.

Empty == -1
Color == 0..MaxColor
Cell  == (0..N-1) \X (0..N-1)
Board == [Cell -> Color \cup {Empty}]
Side  == {"dark", "light"}

\* Mutant: the last direction is entered as the one before it.
DirectionsTwice == <<<<-1, -1>>, <<-1, 0>>, <<-1, 1>>, <<0, -1>>,
                     <<0, 1>>, <<1, -1>>, <<1, 0>>, <<1, 0>>>>

\* The eight directions of the scan, in its order.
Directions == <<<<-1, -1>>, <<-1, 0>>, <<-1, 1>>, <<0, -1>>,
                <<0, 1>>, <<1, -1>>, <<1, 0>>, <<1, 1>>>>

Direction == {Directions[i] : i \in DOMAIN Directions}

\* The cell k steps away from p in direction d, on the board or not.
Along(p, d, k) == <<p[1] + k * d[1], p[2] + k * d[2]>>

\* The distances of the consecutive pieces seen from p in direction d: the
\* scan ends at the first empty cell or at the edge.
Run(board, p, d) ==
    {k \in 1..N-1 : \A j \in 1..k :
        Along(p, d, j) \in Cell /\ board[Along(p, d, j)] # Empty}

\* The farthest piece of the run keeps its colour.
FixedEnd(board, p, d) ==
    CHOOSE k \in Run(board, p, d) : k + 1 \notin Run(board, p, d)

\* The directions in which a piece put on p flanks: runs of two or more.
Flanks(board, p) == {d \in Direction : 2 \in Run(board, p, d)}

\* The pieces between p and the fixed end.
Targets(board, p, d) ==
    {Along(p, d, k) : k \in Run(board, p, d) \ {FixedEnd(board, p, d)}}

\* Legality looks at which cells hold a piece, never at colour or player.
LegalMoves(board) == {p \in Cell : board[p] = Empty /\ Flanks(board, p) # {}}

Pieces(board) == {p \in Cell : board[p] # Empty}

Full(board) == \A p \in Cell : board[p] # Empty

\* Dark wins when the average colour is below the middle, light otherwise.
Winner(board) ==
    LET value(p) == board[p]
    IN  IF 2 * MapThenSumSet(value, Pieces(board))
             < Cardinality(Pieces(board)) * MaxColor
        THEN "dark" ELSE "light"

\* Mutant: the sum of three colours is halved.
MeanHalved(new, fixed, old) == (new + fixed + old) \div 2

Mean(new, fixed, old) == (new + fixed + old) \div 3

\* The changes of a piece of the given colour put on p: an entry for every
\* target of every direction, with the number of the direction.  All three
\* colours are read from the board before the move.
Changes(board, p, color) ==
    UNION {LET d     == Directions[i]
               fixed == board[Along(p, d, FixedEnd(board, p, d))]
           IN  {[line |-> i, cell |-> q, color |-> Mean(color, fixed, board[q])] :
                   q \in Targets(board, p, d)} :
           i \in {j \in DOMAIN Directions : Directions[j] \in Flanks(board, p)}}

\* The board after the move: the changes are written one after the other, in
\* the order of the directions, so that the last one of a cell stays.
Recolor(board, p, color) ==
    LET changes == Changes(board, p, color)
        of(q)   == {c \in changes : c.cell = q}
        last(q) == CHOOSE c \in of(q) : \A b \in of(q) : b.line <= c.line
    IN  [q \in Cell |-> IF q = p THEN color
                        ELSE IF of(q) # {} THEN last(q).color ELSE board[q]]

-----------------------------------------------------------------------------
\* The generator of colours.

Lcg(rng) == (rng * LcgA + LcgC) % LcgM

ColorOf(rng) == rng \div ColorStep

-----------------------------------------------------------------------------
\* States, commands and the evaluation of a request.

State == [board             : Board,
          turnNumber        : Nat,
          currentPlayer     : Side,
          nextColor         : Color,
          rngState          : 0..(LcgM - 1),
          consecutivePasses : 0..2,
          phase             : {"playing", "finished"},
          winner            : Side \cup {"none"},
          legalMoves        : SUBSET Cell]

\* The check of the state of a request.
StateValid(st) ==
    /\ st \in State
    /\ IF st.phase = "playing"
       THEN st.winner = "none"
       ELSE st.winner \in Side /\ st.legalMoves = {}

Opponent(player) == IF player = "dark" THEN "light" ELSE "dark"

\* The two black and two white pieces in the middle of the board.
Mid == N \div 2

InitialBoard ==
    [p \in Cell |->
        IF p \in {<<Mid-1, Mid-1>>, <<Mid, Mid>>} THEN 0
        ELSE IF p \in {<<Mid-1, Mid>>, <<Mid, Mid-1>>} THEN MaxColor
        ELSE Empty]

NewGame(s) ==
    [board             |-> InitialBoard,
     turnNumber        |-> 0,
     currentPlayer     |-> "dark",
     nextColor         |-> ColorOf(Lcg(s)),
     rngState          |-> Lcg(s),
     consecutivePasses |-> 0,
     phase             |-> "playing",
     winner            |-> "none",
     legalMoves        |-> LegalMoves(InitialBoard)]

\* Mutant: the legal moves are those of the board before the command.
NextTurnOldMoves(st, board, passes, over) ==
    [st EXCEPT !.board             = board,
               !.turnNumber        = @ + 1,
               !.currentPlayer     = Opponent(@),
               !.nextColor         = ColorOf(Lcg(st.rngState)),
               !.rngState          = Lcg(@),
               !.consecutivePasses = passes,
               !.phase             = IF over THEN "finished" ELSE @,
               !.winner            = IF over THEN Winner(board) ELSE @,
               !.legalMoves        = IF over THEN {} ELSE LegalMoves(st.board)]

\* Mutant: the winner of a finished game is not decided.
NextTurnNoWinner(st, board, passes, over) ==
    [NextTurnOldMoves(st, board, passes, over) EXCEPT
        !.winner     = st.winner,
        !.legalMoves = IF over THEN {} ELSE LegalMoves(board)]

\* Mutants: the colour is the one of the generator's state before the draw, or
\* the player stays the same.
NextTurnOldColor(st, board, passes, over) ==
    [NextTurnOldMoves(st, board, passes, over) EXCEPT
        !.nextColor  = ColorOf(st.rngState),
        !.legalMoves = IF over THEN {} ELSE LegalMoves(board)]

NextTurnSamePlayer(st, board, passes, over) ==
    [NextTurnOldMoves(st, board, passes, over) EXCEPT
        !.currentPlayer = st.currentPlayer,
        !.legalMoves    = IF over THEN {} ELSE LegalMoves(board)]

\* What an accepted command of either type does to the state: the next turn
\* of the other player on the given board, over or not.
NextTurn(st, board, passes, over) ==
    [board             |-> board,
     turnNumber        |-> st.turnNumber + 1,
     currentPlayer     |-> Opponent(st.currentPlayer),
     nextColor         |-> ColorOf(Lcg(st.rngState)),
     rngState          |-> Lcg(st.rngState),
     consecutivePasses |-> passes,
     phase             |-> IF over THEN "finished" ELSE st.phase,
     winner            |-> IF over THEN Winner(board) ELSE st.winner,
     legalMoves        |-> IF over THEN {} ELSE LegalMoves(board)]

\* The commands that may be sent while the game is in state st: any type, any
\* player, an expectedTurn that may be late or early, and for place a cell
\* that may lie just off the board.
Command(st) ==
    LET player == Side \cup {"other"}
        turn   == {st.turnNumber + k : k \in Lag}
    IN  [type : {"place"}, player : player, expectedTurn : turn,
         cell : ((-1)..N) \X ((-1)..N)]
        \cup [type : {"pass", "other"}, player : player, expectedTurn : turn]

WellFormed(cmd) ==
    /\ cmd.type \in {"place", "pass"}
    /\ cmd.player \in Side
    /\ cmd.expectedTurn >= 0

\* The first reason to reject a place command that is due, or "ok".
PlaceVerdict(st, p) ==
    IF p \notin Cell THEN "invalid_coordinate"
    ELSE IF st.board[p] # Empty THEN "occupied"
    ELSE IF Flanks(st.board, p) = {} THEN "illegal_move"
    ELSE "ok"

\* Mutants: a pass is always allowed, or allowed exactly when it should not be.
PassVerdictAlways(st) == "ok"

PassVerdictInverted(st) ==
    IF LegalMoves(st.board) = {} THEN "pass_not_allowed" ELSE "ok"

PassVerdict(st) ==
    IF LegalMoves(st.board) # {} THEN "pass_not_allowed" ELSE "ok"

\* The outcome of a request, in the order in which the checks are made.
Verdict(st, cmd) ==
    IF ~StateValid(st) THEN "invalid_state"
    ELSE IF ~WellFormed(cmd) THEN "invalid_command"
    ELSE IF st.phase = "finished" THEN "game_finished"
    ELSE IF cmd.expectedTurn # st.turnNumber THEN "stale_turn"
    ELSE IF cmd.player # st.currentPlayer THEN "not_your_turn"
    ELSE IF cmd.type = "place" THEN PlaceVerdict(st, cmd.cell)
    ELSE PassVerdict(st)

ApplyPlace(st, p) ==
    LET board == Recolor(st.board, p, st.nextColor)
    IN  NextTurn(st, board, 0, Full(board))

ApplyPass(st) ==
    NextTurn(st, st.board, st.consecutivePasses + 1, st.consecutivePasses + 1 >= 2)

\* The state of the response: a rejection carries the state of the request.
Evaluate(st, cmd) ==
    IF Verdict(st, cmd) # "ok" THEN st
    ELSE IF cmd.type = "place" THEN ApplyPlace(st, cmd.cell)
    ELSE ApplyPass(st)

-----------------------------------------------------------------------------
\* The game: a request may carry any command at any time.

Init ==
    /\ seed \in Seeds
    /\ state = NewGame(seed)

Submit(cmd) ==
    /\ state' = Evaluate(state, cmd)
    /\ UNCHANGED seed

Next == \E cmd \in Command(state) : Submit(cmd)

Spec == Init /\ [][Next]_vars

-----------------------------------------------------------------------------
\* Properties.

\* The state of every response has the shape of the contract.
TypeOK == state \in State /\ seed \in Seeds

\* A response of the rules is never refused as invalid_state when it is sent
\* back with the next command: in particular a playing state has no winner
\* and a finished one has a winner and no legal moves.
ReplyIsValid == StateValid(state)

\* While the game is on, the side to move always has a legal move and the
\* legal moves it was told are the ones the next command is judged by.
AlwaysAMove ==
    state.phase = "playing" =>
        state.legalMoves = LegalMoves(state.board) /\ state.legalMoves # {}

\* Nobody ever passes in a game played from the initial board, so that each
\* accepted command adds exactly one piece, and the game ends with the move
\* that fills the board.
TurnsArePieces ==
    /\ state.consecutivePasses = 0
    /\ Cardinality(Pieces(state.board)) = state.turnNumber + 4
    /\ (state.phase = "finished") <=> Full(state.board)

\* The colour drawn for a turn depends on the seed and on the number of the
\* turn alone, whatever was played and whatever was rejected on the way: this
\* is what lets a record of moves be replayed from its seed.
LcgAfter[n \in 0..(N * N)] == IF n = 0 THEN [s \in Seeds |-> Lcg(s)]
                              ELSE [s \in Seeds |-> Lcg(LcgAfter[n-1][s])]

ColorsFollowSeed ==
    /\ state.rngState = LcgAfter[state.turnNumber][seed]
    /\ state.nextColor = ColorOf(state.rngState)

\* Lines on the board as the contract has them, by coordinates and without a
\* scan: r is straight behind q as seen from p; p sees a piece if there are
\* pieces only before it; and the pieces before the last one in sight, f, are
\* between it and p.
Abs(x)         == IF x < 0 THEN -x ELSE x
Sign(x)        == IF x < 0 THEN -1 ELSE IF x = 0 THEN 0 ELSE 1
Toward(p, q)   == <<Sign(q[1] - p[1]), Sign(q[2] - p[2])>>
Steps(p, q)    == IF q[1] = p[1] THEN Abs(q[2] - p[2]) ELSE Abs(q[1] - p[1])
Straight(p, q) == q # p /\ (q[1] = p[1] \/ q[2] = p[2] \/ Abs(q[1] - p[1]) = Abs(q[2] - p[2]))

Behind(p, q, r) ==
    Straight(p, q) /\ Straight(p, r) /\ Toward(p, q) = Toward(p, r) /\ Steps(p, q) < Steps(p, r)

Seen(board, p) ==
    {q \in Pieces(board) : Straight(p, q) /\ \A r \in Cell : Behind(p, r, q) => r \in Pieces(board)}

Between(board, p, q, f) ==
    f \in Seen(board, p) /\ Behind(p, q, f) /\ \A r \in Seen(board, p) : ~Behind(p, f, r)

\* Whatever the board, all directions are recoloured at once from the colours
\* before the move, as the contract (game-rules.md) demands of the loops over
\* them: a piece between the new one and the last one in sight takes the mean
\* of the three, the others stay, and there is at least one.  The changes
\* listed for the clients and counted in the record are those pieces, each one
\* once and with the colour it now has.
AtOnce ==
    state'.board # state.board =>
        \E p \in Cell :
            /\ state.board[p] = Empty /\ state'.board[p] = state.nextColor
            /\ \E q, f \in Cell : Between(state.board, p, q, f)
            /\ \A q \in Cell \ {p} :
                LET told == {c \in Changes(state.board, p, state.nextColor) : c.cell = q}
                IN  \/ \E f \in Cell :
                          /\ Between(state.board, p, q, f)
                          /\ state'.board[q] =
                                (state.nextColor + state.board[f] + state.board[q]) \div 3
                          /\ \E c \in told : told = {c} /\ c.color = state'.board[q]
                    \/ /\ \A f \in Cell : ~Between(state.board, p, q, f)
                       /\ state'.board[q] = state.board[q]
                       /\ told = {}

MovesAtOnce == [][AtOnce]_vars

\* The colours that a step may produce lie between the darkest and the
\* lightest piece in play, the new one included; no piece is ever removed.
Blend ==
    \A q \in Cell : state'.board[q] # state.board[q] =>
        LET inPlay == {state.board[p] : p \in Pieces(state.board)} \cup {state.nextColor}
        IN  /\ \E c \in inPlay : c <= state'.board[q]
            /\ \E c \in inPlay : c >= state'.board[q]

ColorsBlend == [][Blend]_vars

\* From any valid state, in which both sides may be out of moves, the game
\* comes to its end if acceptable commands keep coming: while it is on there
\* always is one, and each that is accepted fills a cell or, the board staying
\* as it is, raises the number of passes, which cannot go on forever.
Nearer ==
    \/ Pieces(state.board) \subseteq Pieces(state'.board)
       /\ Pieces(state.board) # Pieces(state'.board)
    \/ state'.board = state.board /\ state'.consecutivePasses > state.consecutivePasses

TowardsEnd ==
    /\ [](state.phase = "playing" => \E cmd \in Command(state) : Verdict(state, cmd) = "ok")
    /\ [][Nearer]_vars

\* Only a side without a legal move may pass, a pass leaves the board alone,
\* and the second pass in a row ends the game.
PassStep ==
    state'.consecutivePasses > state.consecutivePasses =>
        /\ LegalMoves(state.board) = {}
        /\ state'.board = state.board
        /\ state'.consecutivePasses >= 2 => state'.phase = "finished"

PassesEndGame == [][PassStep]_vars

\* The rules implement the turn-taking game that the match server plays: it
\* lasts N*N - 4 accepted commands (60 on the board of the code).
Turns == INSTANCE TurnGame WITH
            LastTurn <- N * N - 4,
            game <- [turn   |-> state.turnNumber,
                     player |-> state.currentPlayer,
                     phase  |-> state.phase]

TurnSpec == Turns!Spec
=============================================================================
