-------------------------- MODULE LocalGameProofs --------------------------
(***************************************************************************)
(* The local game for any number of browsers, requests and games: types,   *)
(* no browser shows what has not happened, and every turn of a game is     *)
(* taken by one command.                                                   *)
(***************************************************************************)
EXTENDS LocalGame, FiniteSetTheorems, TLAPS

-----------------------------------------------------------------------------
\* The inductive invariant.

\* The request that the runtime works on holds the mutex, so what it read is
\* the state.
RunsAlone ==
    \A n \in RequestId :
        /\ request[n].stage = "running" <=> mu = n
        /\ request[n].stage = "running" => request[n].read = state

\* A request that was not sent yet is none.
UnsentIsNone == \A n \in RequestId : n > last => request[n] = NoRequest

\* The state is that of the newest game, which goes on before its last turn.
Newest ==
    /\ state.id = games
    /\ state.game.phase = "playing" => state.game.turn < LastTurn

\* Neither an answer under way nor what is shown is ahead of the state.
AnswersHappened == \A n \in RequestId : NotLater(request[n].answer, state)

\* The log has every turn of the newest game and nothing of later ones.
LogIsComplete ==
    /\ \A i \in 1..Len(log) : log[i].id <= games
    /\ Cardinality(TurnsUpTo(state.id, Len(log))) = state.game.turn

Inductive ==
    /\ TypeOK
    /\ RunsAlone
    /\ UnsentIsNone
    /\ Newest
    /\ AnswersHappened
    /\ ShownHappened
    /\ LogIsComplete
    /\ TurnsTakenOnce

RequestState == [from    : Client \cup {Nothing},
                 kind    : {"none", "newGame", "applyCommand"},
                 basis   : Shown,
                 stage   : {"none", "sent", "running", "failed", "answered", "done"},
                 awaited : BOOLEAN,
                 read    : Shown,
                 code    : {"none", "ok", "stale_turn", "refused"},
                 answer  : Shown]

-----------------------------------------------------------------------------
\* States and requests.

\* A state that may be shown has a game's number, zero for no game.
LEMMA ShownIsNumbered ==
    ASSUME NEW s \in Shown
    PROVE  /\ s.id \in Nat /\ s.game.turn \in Nat
           /\ s.id = 0 <=> s = NoGame
           /\ s # NoGame => s.id \in 1..MaxGames /\ s.game \in Game
BY LocalGameAssumption, LastTurnAssumption DEF Shown, NoGame, Game

\* No game comes before every state, and a state is not later than itself.
LEMMA NoGameIsFirst ==
    ASSUME NEW s \in Shown
    PROVE  NoGame \in Shown /\ NotLater(NoGame, s) /\ NotLater(s, s)
<1>1. NoGame \in Shown /\ NoGame.id = 0 /\ NoGame.game.turn = 0
    BY DEF Shown, NoGame
<1> QED BY <1>1, ShownIsNumbered DEF NotLater

\* What is not later than a state is not later than a later one.
LEMMA NotLaterIsTransitive ==
    ASSUME NEW s \in Shown, NEW t \in Shown, NEW u \in Shown, NotLater(s, t), NotLater(t, u)
    PROVE  NotLater(s, u)
<1>1. /\ s.id \in Nat /\ s.game.turn \in Nat /\ t.id \in Nat /\ t.game.turn \in Nat
      /\ u.id \in Nat /\ u.game.turn \in Nat
    BY ShownIsNumbered
<1> QED BY <1>1 DEF NotLater

\* The requests have the type RequestState.
LEMMA RequestTypes ==
    TypeOK => request \in [RequestId -> RequestState]
BY DEF TypeOK, RequestState

\* The requests before their first and after their last step.
LEMMA NoRequestHasType == NoRequest \in RequestState /\ [NoRequest EXCEPT !.stage = "done"] \in RequestState
<1>1. NoGame \in Shown
    BY DEF Shown
<1> QED BY <1>1 DEF NoRequest, RequestState

\* How a step writes one request.
Writes(n, stage, read, answer) ==
    /\ request' \in [RequestId -> RequestState]
    /\ request'[n].stage = stage /\ request'[n].read = read /\ request'[n].answer = answer
    /\ \A m \in RequestId : m # n => request'[m] = request[m]

\* A step that replaces a whole request writes what it says.
LEMMA WholeRequest ==
    ASSUME TypeOK, NEW n \in RequestId, NEW one \in RequestState, request' = [request EXCEPT ![n] = one]
    PROVE  Writes(n, one.stage, one.read, one.answer)
BY RequestTypes DEF Writes

\* Send takes the next number and has neither read nor answered.
LEMMA SendWrites ==
    ASSUME TypeOK, NEW c \in Client, NEW kind \in {"newGame", "applyCommand"}, Send(c, kind)
    PROVE  last + 1 \in RequestId /\ last' = last + 1 /\ Writes(last + 1, "sent", NoGame, NoGame)
<1> DEFINE one == [NoRequest EXCEPT !.from = c, !.kind = kind, !.basis = shown[c],
                                    !.stage = "sent", !.awaited = TRUE]
<1>1. last + 1 \in RequestId
    BY LocalGameAssumption DEF TypeOK, Send, RequestId
<1>2. request' = [request EXCEPT ![last + 1] = one] /\ last' = last + 1
    BY DEF Send
<1>3. shown[c] \in Shown
    BY DEF TypeOK
<1>4. /\ one \in RequestState
      /\ one.stage = "sent" /\ one.read = NoGame /\ one.answer = NoGame
    BY <1>3, NoRequestHasType DEF RequestState, NoRequest
<1> HIDE DEF one
<1>5. Writes(last + 1, one.stage, one.read, one.answer)
    BY <1>1, <1>2, <1>4, WholeRequest
<1> QED BY <1>1, <1>2, <1>4, <1>5

\* A request that is over has neither read nor answered.
LEMMA ClosedWrites ==
    ASSUME TypeOK, NEW n \in RequestId, request' = Closed(n)
    PROVE  Writes(n, "done", NoGame, NoGame)
<1> DEFINE one == [NoRequest EXCEPT !.stage = "done"]
<1>1. request' = [request EXCEPT ![n] = one]
    BY DEF Closed
<1>2. one \in RequestState /\ one.stage = "done" /\ one.read = NoGame /\ one.answer = NoGame
    BY NoRequestHasType DEF NoRequest
<1> HIDE DEF one
<1>3. Writes(n, one.stage, one.read, one.answer)
    BY <1>1, <1>2, WholeRequest
<1> QED BY <1>2, <1>3

\* Giving up changes what the browser waits for and nothing else.
LEMMA GivesUpWrites ==
    ASSUME TypeOK, NEW n \in RequestId, GivesUp(n)
    PROVE  Writes(n, request[n].stage, request[n].read, request[n].answer)
<1> DEFINE one == [request[n] EXCEPT !.awaited = FALSE]
<1>1. request[n] \in RequestState /\ request \in [RequestId -> RequestState]
    BY RequestTypes
<1>2. request' = [request EXCEPT ![n] = one]
    BY <1>1 DEF GivesUp
<1>3. /\ one \in RequestState /\ one.stage = request[n].stage
      /\ one.read = request[n].read /\ one.answer = request[n].answer
    BY <1>1 DEF RequestState
<1> HIDE DEF one
<1>4. Writes(n, one.stage, one.read, one.answer)
    BY <1>2, <1>3, WholeRequest
<1> QED BY <1>3, <1>4

\* Evaluate reads the state when it has the mutex.
LEMMA BeginWrites ==
    ASSUME TypeOK, NEW n \in RequestId, Begin(n)
    PROVE  Writes(n, "running", state, request[n].answer)
<1> DEFINE one == [request[n] EXCEPT !.stage = "running", !.read = state]
<1>1. request[n] \in RequestState /\ request \in [RequestId -> RequestState] /\ state \in Shown
    BY RequestTypes DEF TypeOK
<1>2. request' = [request EXCEPT ![n] = one]
    BY <1>1 DEF Begin
<1>3. one \in RequestState /\ one.stage = "running" /\ one.read = state /\ one.answer = request[n].answer
    BY <1>1 DEF RequestState
<1> HIDE DEF one
<1>4. Writes(n, one.stage, one.read, one.answer)
    BY <1>2, <1>3, WholeRequest
<1> QED BY <1>3, <1>4

\* An answer is written when the request is answered.
LEMMA AnswerWrites ==
    ASSUME TypeOK, NEW n \in RequestId, NEW code \in {"ok", "stale_turn", "refused"}, NEW a \in Shown,
           request' = [request EXCEPT ![n].stage = "answered", ![n].code = code, ![n].answer = a]
    PROVE  Writes(n, "answered", request[n].read, a)
<1> DEFINE one == [request[n] EXCEPT !.stage = "answered", !.code = code, !.answer = a]
<1>1. request[n] \in RequestState /\ request \in [RequestId -> RequestState]
    BY RequestTypes
<1>2. request' = [request EXCEPT ![n] = one]
    BY <1>1
<1>3. one \in RequestState /\ one.stage = "answered" /\ one.read = request[n].read /\ one.answer = a
    BY <1>1 DEF RequestState
<1> HIDE DEF one
<1>4. Writes(n, one.stage, one.read, one.answer)
    BY <1>2, <1>3, WholeRequest
<1> QED BY <1>3, <1>4

\* A failed evaluation has no answer.
LEMMA FailWrites ==
    ASSUME TypeOK, NEW n \in RequestId, Fail(n)
    PROVE  Writes(n, "failed", request[n].read, request[n].answer)
<1> DEFINE one == [request[n] EXCEPT !.stage = "failed"]
<1>1. request[n] \in RequestState /\ request \in [RequestId -> RequestState]
    BY RequestTypes
<1>2. request' = [request EXCEPT ![n] = one]
    BY <1>1 DEF Fail
<1>3. one \in RequestState /\ one.stage = "failed" /\ one.read = request[n].read /\ one.answer = request[n].answer
    BY <1>1 DEF RequestState
<1> HIDE DEF one
<1>4. Writes(n, one.stage, one.read, one.answer)
    BY <1>2, <1>3, WholeRequest
<1> QED BY <1>3, <1>4

-----------------------------------------------------------------------------
\* Steps that leave the game alone.

\* A step that writes one request and keeps the game keeps the invariant, if
\* the mutex and the answer fit.
LEMMA GameStays ==
    ASSUME Inductive, UNCHANGED <<state, games, log>>, NEW n \in RequestId,
           NEW stage, NEW read, NEW answer, Writes(n, stage, read, answer),
           mu' \in RequestId \cup {Nothing},
           last' \in 0..MaxRequests, last <= last', n <= last',
           shown' \in [Client -> Shown], busy' \in [Client -> BOOLEAN],
           stage = "running" <=> mu' = n, stage = "running" => read = state,
           \A m \in RequestId : m # n => (mu' = m <=> mu = m),
           NotLater(answer, state),
           \A c \in Client : shown'[c] = shown[c] \/ shown'[c] = request[n].answer
    PROVE  Inductive'
<1>1. TypeOK'
    BY DEF Inductive, TypeOK, Writes, RequestState
<1>2. RunsAlone'
    BY DEF Inductive, RunsAlone, Writes
<1>3. Newest' /\ LogIsComplete' /\ TurnsTakenOnce'
    BY DEF Inductive, Newest, LogIsComplete, TurnsTakenOnce, TurnsUpTo
<1>4. AnswersHappened'
    <2> SUFFICES ASSUME NEW m \in RequestId PROVE NotLater(request'[m].answer, state)
        BY DEF AnswersHappened, NotLater
    <2> QED BY DEF Inductive, AnswersHappened, Writes
<1>5. ShownHappened'
    <2> SUFFICES ASSUME NEW c \in Client PROVE NotLater(shown'[c], state)
        BY DEF ShownHappened, NotLater
    <2>1. NotLater(shown[c], state) /\ NotLater(request[n].answer, state)
        BY DEF Inductive, ShownHappened, AnswersHappened
    <2> QED BY <2>1
<1>6. UnsentIsNone'
    <2> SUFFICES ASSUME NEW m \in RequestId, m > last' PROVE request'[m] = NoRequest
        BY DEF UnsentIsNone, NoRequest, NoGame
    <2>1. last \in Nat /\ last' \in Nat /\ m \in Nat /\ n \in Nat
        BY LocalGameAssumption DEF Inductive, TypeOK, RequestId
    <2>2. m # n /\ m > last
        BY <2>1
    <2> QED BY <2>2 DEF Inductive, UnsentIsNone, Writes
<1> QED BY <1>1, <1>2, <1>3, <1>4, <1>5, <1>6 DEF Inductive

\* A browser sends a request.
LEMMA BrowserSteps ==
    ASSUME Inductive, NEW c \in Client, AskNewGame(c) \/ AskMove(c)
    PROVE  Inductive'
<1>1. PICK kind \in {"newGame", "applyCommand"} : Send(c, kind)
    BY DEF AskNewGame, AskMove
<1>2. TypeOK /\ NotLater(NoGame, state)
    BY NoGameIsFirst DEF Inductive, TypeOK
<1>3. last + 1 \in RequestId /\ last' = last + 1 /\ Writes(last + 1, "sent", NoGame, NoGame)
    BY <1>1, <1>2, SendWrites
<1>4. UNCHANGED <<state, games, log, mu, shown>> /\ busy' = [busy EXCEPT ![c] = TRUE]
    BY <1>1 DEF Send, serviceVars
<1>5. last' \in 0..MaxRequests /\ last <= last' /\ last + 1 > last
    BY <1>2, <1>3, LocalGameAssumption DEF TypeOK, RequestId
<1>6. mu # last + 1
    <2>1. mu = last + 1 => request[last + 1].stage = "running"
        BY <1>3 DEF Inductive, RunsAlone
    <2>2. request[last + 1] = NoRequest
        BY <1>3, <1>5 DEF Inductive, UnsentIsNone
    <2> QED BY <2>1, <2>2 DEF NoRequest
<1>7. /\ busy' \in [Client -> BOOLEAN] /\ shown' \in [Client -> Shown] /\ mu' \in RequestId \cup {Nothing}
      /\ mu' # last + 1 /\ last + 1 <= last'
    BY <1>2, <1>3, <1>4, <1>5, <1>6 DEF TypeOK
<1> QED BY <1>2, <1>3, <1>4, <1>5, <1>7, GameStays

\* A request that something happens to was sent.
LEMMA WasSent ==
    ASSUME Inductive, NEW n \in RequestId, request[n].stage # "none" \/ request[n].awaited
    PROVE  n <= last
<1>1. n \in Nat /\ last \in Nat
    BY LocalGameAssumption DEF Inductive, TypeOK, RequestId
<1>2. ~(n > last)
    BY DEF Inductive, UnsentIsNone, NoRequest
<1> QED BY <1>1, <1>2

\* A request is given up, lost, received or dropped.
LEMMA QuietSteps ==
    ASSUME Inductive, NEW n \in RequestId,
           GivesUp(n) \/ IsLost(n) \/ Receive(n) \/ IsDropped(n)
    PROVE  Inductive'
<1>0. /\ TypeOK /\ NotLater(NoGame, state) /\ request[n].answer \in Shown
      /\ NotLater(request[n].answer, state)
      /\ request[n].stage = "running" <=> mu = n
      /\ request[n].stage = "running" => request[n].read = state
    BY NoGameIsFirst DEF Inductive, TypeOK, AnswersHappened, RunsAlone
<1>1. UNCHANGED <<state, games, log, mu, last>> /\ n <= last
    BY WasSent DEF GivesUp, IsLost, Receive, IsDropped, serviceVars
<1>2. last' \in 0..MaxRequests /\ last <= last' /\ n <= last' /\ mu' \in RequestId \cup {Nothing}
    BY <1>0, <1>1 DEF TypeOK
<1>3. busy' \in [Client -> BOOLEAN]
    BY <1>0 DEF TypeOK, GivesUp, IsLost, Receive, IsDropped, clientVars
<1>4. CASE GivesUp(n)
    <2>1. Writes(n, request[n].stage, request[n].read, request[n].answer)
        BY <1>0, <1>4, GivesUpWrites
    <2>2. shown' = shown /\ shown' \in [Client -> Shown]
        BY <1>0, <1>4 DEF GivesUp, TypeOK
    <2> QED BY <1>0, <1>1, <1>2, <1>3, <2>1, <2>2, GameStays
<1>5. CASE IsLost(n) \/ Receive(n) \/ IsDropped(n)
    <2>1. Writes(n, "done", NoGame, NoGame) /\ mu # n
        BY <1>0, <1>5, ClosedWrites DEF IsLost, Receive, IsDropped
    <2>2. /\ shown' \in [Client -> Shown]
          /\ \A c \in Client : shown'[c] = shown[c] \/ shown'[c] = request[n].answer
        BY <1>0, <1>5 DEF TypeOK, IsLost, Receive, IsDropped, clientVars
    <2> QED BY <1>0, <1>1, <1>2, <1>3, <2>1, <2>2, GameStays
<1> QED BY <1>4, <1>5

\* The steps of the service that keep the game.
LEMMA ServiceSteps ==
    ASSUME Inductive, NEW n \in RequestId, Begin(n) \/ Refuse(n) \/ Fail(n) \/ Snapshot(n)
    PROVE  Inductive'
<1>0. /\ TypeOK /\ request[n].answer \in Shown /\ request[n].read \in Shown
      /\ NotLater(state, state) /\ NotLater(request[n].answer, state)
      /\ request[n].stage = "running" <=> mu = n
      /\ request[n].stage = "running" => request[n].read = state
    BY NoGameIsFirst DEF Inductive, TypeOK, AnswersHappened, RunsAlone
<1>1. UNCHANGED <<state, games, log, last, shown, busy>> /\ n <= last
    BY WasSent DEF Begin, Refuse, Answer, Fail, Snapshot, serviceVars, clientVars
<1>2. /\ last' \in 0..MaxRequests /\ last <= last' /\ n <= last'
      /\ shown' \in [Client -> Shown] /\ busy' \in [Client -> BOOLEAN]
    BY <1>0, <1>1 DEF TypeOK
<1>3. Nothing \notin RequestId
    BY DEF Nothing, RequestId
<1>4. CASE Begin(n)
    <2>1. Writes(n, "running", state, request[n].answer) /\ mu = Nothing /\ mu' = n
        BY <1>0, <1>4, BeginWrites DEF Begin
    <2> QED BY <1>0, <1>1, <1>2, <1>3, <2>1, GameStays
<1>5. CASE Refuse(n)
    <2>1. PICK code \in {"ok", "stale_turn", "refused"} : Answer(n, code, request[n].read)
        BY <1>5 DEF Refuse
    <2>2. Writes(n, "answered", request[n].read, request[n].read)
        BY <1>0, <2>1, AnswerWrites DEF Answer
    <2>3. mu = n /\ mu' = Nothing /\ request[n].read = state
        BY <1>0, <2>1 DEF Answer
    <2> QED BY <1>0, <1>1, <1>2, <1>3, <2>2, <2>3, GameStays
<1>6. CASE Fail(n)
    <2>1. Writes(n, "failed", request[n].read, request[n].answer) /\ mu = n /\ mu' = Nothing
        BY <1>0, <1>6, FailWrites DEF Fail
    <2> QED BY <1>0, <1>1, <1>2, <1>3, <2>1, GameStays
<1>7. CASE Snapshot(n)
    <2>1. state \in Shown
        BY <1>0 DEF TypeOK
    <2>2. Writes(n, "answered", request[n].read, state)
        BY <1>0, <1>7, <2>1, AnswerWrites DEF Snapshot
    <2>3. mu = Nothing /\ mu' = Nothing
        BY <1>7 DEF Snapshot, serviceVars
    <2> QED BY <1>0, <1>1, <1>2, <1>3, <2>2, <2>3, GameStays
<1> QED BY <1>4, <1>5, <1>6, <1>7

-----------------------------------------------------------------------------
\* Steps of the game.

\* A step that answers with a new, later state keeps the invariant, if the
\* log fits.
LEMMA GameMoves ==
    ASSUME Inductive, NEW n \in RequestId, NEW new \in Shown, state' = new, NotLater(state, new),
           request[n].stage = "running", Answer(n, "ok", new),
           games' \in 0..MaxGames, log' \in Seq([id : 1..MaxGames, turn : 1..LastTurn]),
           Newest', LogIsComplete', TurnsTakenOnce'
    PROVE  Inductive'
<1>0. TypeOK /\ state \in Shown /\ request \in [RequestId -> RequestState]
    BY RequestTypes DEF Inductive, TypeOK
<1>1. Writes(n, "answered", request[n].read, new)
    BY <1>0, AnswerWrites DEF Answer
<1>2. mu = n /\ mu' = Nothing /\ UNCHANGED <<last, shown, busy>> /\ n <= last
    BY WasSent DEF Inductive, RunsAlone, Answer, clientVars
<1>3. TypeOK'
    BY <1>0, <1>1, <1>2 DEF TypeOK, Writes, RequestState
<1>4. Nothing \notin RequestId
    BY DEF Nothing, RequestId
<1>5. RunsAlone'
    BY <1>1, <1>2, <1>4 DEF Inductive, RunsAlone, Writes
<1>6. UnsentIsNone'
    <2> SUFFICES ASSUME NEW m \in RequestId, m > last PROVE request'[m] = NoRequest
        BY <1>2 DEF UnsentIsNone, NoRequest, NoGame
    <2>1. last \in Nat /\ m \in Nat /\ n \in Nat
        BY <1>0, LocalGameAssumption DEF TypeOK, RequestId
    <2>2. m # n
        BY <1>2, <2>1
    <2> QED BY <1>1, <2>2 DEF Inductive, UnsentIsNone, Writes
<1>7. AnswersHappened'
    <2> SUFFICES ASSUME NEW m \in RequestId PROVE NotLater(request'[m].answer, new)
        BY DEF AnswersHappened, NotLater
    <2>1. CASE m = n
        BY <1>1, <2>1, NoGameIsFirst DEF Writes
    <2>2. CASE m # n
        <3>1. request'[m] = request[m]
            BY <1>1, <2>2 DEF Writes
        <3>2. request[m].answer \in Shown
            BY <1>0 DEF RequestState
        <3>3. NotLater(request[m].answer, state)
            BY DEF Inductive, AnswersHappened
        <3>4. NotLater(request[m].answer, new)
            BY <1>0, <3>2, <3>3, NotLaterIsTransitive
        <3> QED BY <3>1, <3>4
    <2> QED BY <2>1, <2>2
<1>8. ShownHappened'
    <2> SUFFICES ASSUME NEW c \in Client PROVE NotLater(shown[c], new)
        BY <1>2 DEF ShownHappened, NotLater
    <2>1. shown[c] \in Shown /\ NotLater(shown[c], state)
        BY <1>0 DEF TypeOK, Inductive, ShownHappened
    <2> QED BY <1>0, <2>1, NotLaterIsTransitive
<1> QED BY <1>3, <1>5, <1>6, <1>7, <1>8 DEF Inductive

\* A new game has the next number and no turns.
LEMMA CreateSteps ==
    ASSUME Inductive, NEW n \in RequestId, Create(n)
    PROVE  Inductive'
<1> DEFINE new == [id |-> games + 1, game |-> NewGame]
<1>0. TypeOK /\ state \in Shown /\ state.id = games /\ games \in Nat /\ LastTurn > 0
    BY LocalGameAssumption, LastTurnAssumption DEF Inductive, TypeOK, Newest
<1>1. /\ games < MaxGames /\ games' = games + 1 /\ state' = new /\ UNCHANGED log
      /\ Answer(n, "ok", new) /\ request[n].stage = "running"
    BY DEF Create, Answer
<1>2. new \in Shown /\ games' \in 0..MaxGames
    BY <1>0, <1>1, LocalGameAssumption, LastTurnAssumption DEF Shown, Game, NewGame, Side
<1>3. NotLater(state, new)
    BY <1>0 DEF NotLater
<1>4. log \in Seq([id : 1..MaxGames, turn : 1..LastTurn]) /\ \A i \in 1..Len(log) : log[i].id <= games
    BY <1>0 DEF TypeOK, Inductive, LogIsComplete
<1>5. Newest'
    BY <1>0, <1>1 DEF Newest, NewGame
<1>6. LogIsComplete'
    <2>1. \A i \in 1..Len(log) : log[i].id \in Nat
        <3> DEFINE Entry == [id : 1..MaxGames, turn : 1..LastTurn]
        <3>1. log \in Seq(Entry)
            BY <1>4
        <3> HIDE DEF Entry
        <3>2. \A i \in 1..Len(log) : log[i] \in Entry
            BY <3>1
        <3> QED BY <3>2, LocalGameAssumption DEF Entry
    <2>2. TurnsUpTo(new.id, Len(log)) = {}
        BY <1>0, <1>4, <2>1 DEF TurnsUpTo
    <2>3. TurnsUpTo(state.id, Len(log))' = {} /\ state'.game.turn = 0
        BY <1>1, <2>2 DEF TurnsUpTo, NewGame
    <2>4. \A i \in 1..Len(log) : log[i].id <= games + 1
        BY <1>0, <1>4, <2>1
    <2> QED BY <1>1, <2>3, <2>4, FS_EmptySet DEF LogIsComplete
<1>7. TurnsTakenOnce'
    BY <1>1 DEF Inductive, TurnsTakenOnce, TurnsUpTo
<1> HIDE DEF new
<1> QED BY <1>1, <1>2, <1>3, <1>4, <1>5, <1>6, <1>7, GameMoves

\* An entry is added to the log: the number of the turns of its game grows by
\* one, and what was in the log before stays.
LEMMA LogGrows ==
    ASSUME NEW S, NEW l \in Seq(S), NEW e \in S, l = log, log' = Append(l, e)
    PROVE  /\ Len(log') = Len(log) + 1 /\ log'[Len(log) + 1] = e
           /\ \A i \in 1..Len(log) : log'[i] = log[i]
           /\ \A id : \A m \in 0..Len(log) : {i \in 1..m : log'[i].id = id} = TurnsUpTo(id, m)
           /\ {i \in 1..(Len(log) + 1) : log'[i].id = e.id} =
                 TurnsUpTo(e.id, Len(log)) \cup {Len(log) + 1}
           /\ Cardinality(TurnsUpTo(e.id, Len(log))) \in Nat
           /\ Cardinality({i \in 1..(Len(log) + 1) : log'[i].id = e.id}) =
                 Cardinality(TurnsUpTo(e.id, Len(log))) + 1
<1>1. /\ Len(log) \in Nat /\ Len(log') = Len(log) + 1 /\ log'[Len(log) + 1] = e
      /\ \A i \in 1..Len(log) : log'[i] = log[i]
    OBVIOUS
<1>2. \A id : \A m \in 0..Len(log) : {i \in 1..m : log'[i].id = id} = TurnsUpTo(id, m)
    BY <1>1 DEF TurnsUpTo
<1>3. {i \in 1..(Len(log) + 1) : log'[i].id = e.id} = TurnsUpTo(e.id, Len(log)) \cup {Len(log) + 1}
    BY <1>1 DEF TurnsUpTo
<1>4. TurnsUpTo(e.id, Len(log)) \subseteq 1..Len(log) /\ Len(log) + 1 \notin TurnsUpTo(e.id, Len(log))
    BY <1>1 DEF TurnsUpTo
<1>5. IsFiniteSet(TurnsUpTo(e.id, Len(log)))
    <2>1. IsFiniteSet(1..Len(log))
        BY <1>1, FS_Interval
    <2> QED BY <1>4, <2>1, FS_Subset
<1>6. Cardinality(TurnsUpTo(e.id, Len(log))) \in Nat
    BY <1>5, FS_CardinalityType
<1>7. Cardinality(TurnsUpTo(e.id, Len(log)) \cup {Len(log) + 1}) = Cardinality(TurnsUpTo(e.id, Len(log))) + 1
    BY <1>4, <1>5, FS_AddElement
<1> QED BY <1>1, <1>2, <1>3, <1>6, <1>7

\* An accepted command enters its turn in the log.
LEMMA AcceptSteps ==
    ASSUME Inductive, NEW n \in RequestId, Accept(n)
    PROVE  Inductive'
<1> DEFINE new == [state EXCEPT !.game = Advance(@)]
           e   == [id |-> new.id, turn |-> new.game.turn]
           Entry == [id : 1..MaxGames, turn : 1..LastTurn]
<1>0. TypeOK /\ state \in Shown /\ games \in 0..MaxGames /\ log \in Seq(Entry) /\ Len(log) \in Nat
    BY DEF Inductive, TypeOK
<1>1. /\ request[n].stage = "running" /\ request[n].read = state
    BY DEF Accept, Answer, Inductive, RunsAlone
<1>2. /\ state # NoGame /\ state.game.phase = "playing" /\ Answer(n, "ok", new)
      /\ state' = new /\ log' = Append(log, e) /\ games' = games
    BY <1>1 DEF Accept, Due
<1>3. state \in [id : 1..MaxGames, game : Game] /\ state.game.turn < LastTurn /\ state.id = games
    BY <1>0, <1>2 DEF Shown, Inductive, Newest
<1>4. /\ Advance(state.game) \in Game /\ Advance(state.game).turn = state.game.turn + 1
      /\ Advance(state.game).phase = "playing" => Advance(state.game).turn < LastTurn
    <2>1. state.game \in Game /\ state.game.turn \in Nat
        BY <1>3, LastTurnAssumption DEF Game
    <2> QED BY <1>3, <2>1, LastTurnAssumption DEF Advance, Opponent, Game, Side
<1>5. new \in Shown /\ new.id = state.id /\ new.game = Advance(state.game)
    BY <1>3, <1>4 DEF Shown
<1> HIDE DEF new
<1>6. state.id \in Nat /\ state.game.turn \in Nat /\ new.game.turn = state.game.turn + 1
    BY <1>0, <1>4, <1>5, ShownIsNumbered
<1>7. NotLater(state, new)
    BY <1>5, <1>6 DEF NotLater
<1>8. e \in Entry /\ e.id = state.id /\ e.turn = state.game.turn + 1
    BY <1>3, <1>5, <1>6, LastTurnAssumption
<1>9. log' \in Seq(Entry) /\ games' \in 0..MaxGames
    BY <1>0, <1>2, <1>8
<1>10. Newest'
    BY <1>2, <1>3, <1>4, <1>5 DEF Newest
<1> HIDE DEF e, Entry
<1>11. /\ Len(log') = Len(log) + 1 /\ log'[Len(log) + 1] = e
       /\ \A i \in 1..Len(log) : log'[i] = log[i]
       /\ \A id : \A m \in 0..Len(log) : {i \in 1..m : log'[i].id = id} = TurnsUpTo(id, m)
       /\ Cardinality({i \in 1..(Len(log) + 1) : log'[i].id = e.id}) =
                 Cardinality(TurnsUpTo(e.id, Len(log))) + 1
    BY <1>0, <1>2, <1>8, LogGrows
<1>12. Cardinality(TurnsUpTo(e.id, Len(log))) = state.game.turn
    BY <1>8 DEF Inductive, LogIsComplete
<1>13. Cardinality({i \in 1..(Len(log) + 1) : log'[i].id = state.id}) = state.game.turn + 1
    BY <1>8, <1>11, <1>12
<1>14. LogIsComplete'
    <2>1. \A i \in 1..Len(log') : log'[i].id <= games
        <3> SUFFICES ASSUME NEW i \in 1..Len(log') PROVE log'[i].id <= games
            OBVIOUS
        <3>1. CASE i = Len(log) + 1
            BY <1>0, <1>3, <1>8, <1>11, <3>1
        <3>2. CASE i # Len(log) + 1
            BY <1>0, <1>11, <3>2 DEF Inductive, LogIsComplete
        <3> QED BY <3>1, <3>2
    <2>2. TurnsUpTo(state.id, Len(log))' = {i \in 1..(Len(log) + 1) : log'[i].id = state.id}
        BY <1>2, <1>5, <1>11 DEF TurnsUpTo
    <2> QED BY <1>2, <1>6, <1>13, <2>1, <2>2 DEF LogIsComplete
<1>15. TurnsTakenOnce'
    <2> SUFFICES ASSUME NEW m \in 1..Len(log')
                 PROVE  log'[m].turn = Cardinality({i \in 1..m : log'[i].id = log'[m].id})
        BY DEF TurnsTakenOnce, TurnsUpTo
    <2>1. CASE m = Len(log) + 1
        BY <1>8, <1>11, <1>13, <2>1
    <2>2. CASE m # Len(log) + 1
        <3>1. m \in 1..Len(log) /\ m \in 0..Len(log)
            BY <1>0, <1>11, <2>2
        <3>2. log'[m] = log[m] /\ {i \in 1..m : log'[i].id = log[m].id} = TurnsUpTo(log[m].id, m)
            BY <1>11, <3>1
        <3>3. log[m].turn = Cardinality(TurnsUpTo(log[m].id, m))
            BY <3>1 DEF Inductive, TurnsTakenOnce
        <3> QED BY <3>2, <3>3
    <2> QED BY <2>1, <2>2
<1> QED BY <1>1, <1>2, <1>5, <1>7, <1>9, <1>10, <1>14, <1>15, GameMoves DEF Entry

-----------------------------------------------------------------------------
\* Theorems.

\* The invariant holds at the start.
LEMMA InitIsInductive == Init => Inductive
<1> SUFFICES ASSUME Init PROVE Inductive
    OBVIOUS
<1>1. NoGame \in Shown
    BY DEF Shown
<1>2. TypeOK
    <2>1. NoRequest \in RequestState
        BY NoRequestHasType
    <2>2. request \in [RequestId -> RequestState]
        BY <2>1 DEF Init
    <2> QED BY <1>1, <2>2, LocalGameAssumption DEF Init, TypeOK, RequestState
<1>3. RunsAlone /\ UnsentIsNone
    BY DEF Init, RunsAlone, UnsentIsNone, NoRequest, RequestId, Nothing
<1>4. Newest
    BY DEF Init, Newest, NoGame
<1>5. AnswersHappened /\ ShownHappened
    BY <1>1, NoGameIsFirst DEF Init, AnswersHappened, ShownHappened, NoRequest
<1>6. LogIsComplete /\ TurnsTakenOnce
    <2>1. Len(log) = 0 /\ TurnsUpTo(state.id, Len(log)) = {}
        BY DEF Init, TurnsUpTo
    <2>2. state.game.turn = 0 /\ Cardinality(TurnsUpTo(state.id, Len(log))) = 0
        BY <2>1, FS_EmptySet DEF Init, NoGame
    <2> QED BY <2>1, <2>2 DEF LogIsComplete, TurnsTakenOnce
<1> QED BY <1>2, <1>3, <1>4, <1>5, <1>6 DEF Inductive

\* Every step keeps the invariant.
LEMMA NextIsInductive == Inductive /\ [Next]_vars => Inductive'
<1> SUFFICES ASSUME Inductive, [Next]_vars PROVE Inductive'
    OBVIOUS
<1>1. CASE UNCHANGED vars
    <2>1. UNCHANGED <<mu, state, games, log, last, request, shown, busy>>
        BY <1>1 DEF vars, serviceVars, clientVars
    <2>2. TypeOK' /\ RunsAlone' /\ UnsentIsNone' /\ Newest'
        BY <2>1 DEF Inductive, TypeOK, RunsAlone, UnsentIsNone, Newest
    <2>3. AnswersHappened' /\ ShownHappened'
        BY <2>1 DEF Inductive, AnswersHappened, ShownHappened, NotLater
    <2>4. LogIsComplete' /\ TurnsTakenOnce'
        BY <2>1 DEF Inductive, LogIsComplete, TurnsTakenOnce, TurnsUpTo
    <2> QED BY <2>2, <2>3, <2>4 DEF Inductive
<1> QED BY <1>1, BrowserSteps, QuietSteps, ServiceSteps, CreateSteps, AcceptSteps DEF Next, Finish

\* The inductive invariant holds in every state of the local game.
THEOREM LocalGameInduction == Spec => []Inductive
BY InitIsInductive, NextIsInductive, PTL DEF Spec

\* Every variable of the service and the browsers keeps its type.
THEOREM LocalGameTypes == Spec => []TypeOK
<1>1. Inductive => TypeOK
    BY DEF Inductive
<1> QED BY <1>1, LocalGameInduction, PTL

\* However many browsers share the game, send at once, give up and send again
\* while others start new games: Evaluate lets one command have each turn, in
\* order, because it holds the mutex from the copy of the state to its return.
THEOREM TurnsAreTakenOnce == Spec => []TurnsTakenOnce
<1>1. Inductive => TurnsTakenOnce
    BY DEF Inductive
<1> QED BY <1>1, LocalGameInduction, PTL

\* No browser ever shows a game or a turn that the service does not have, in
\* whichever order answers arrive and whether they come from Evaluate or, after
\* a failure of the runtime, from Snapshot.
THEOREM ShownHasHappened == Spec => []ShownHappened
<1>1. Inductive => ShownHappened
    BY DEF Inductive
<1> QED BY <1>1, LocalGameInduction, PTL
=============================================================================
