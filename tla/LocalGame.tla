----------------------------- MODULE LocalGame -----------------------------
(***************************************************************************)
(* The local game: Service and Handler of server/internal/localgame, and   *)
(* the browsers that use them over HTTP (web/main.nako3).  There is one    *)
(* game, which all browsers share.  Evaluate holds the mutex while the     *)
(* runtime works on a copy of the state; when the runtime fails the        *)
(* handler takes a Snapshot afterwards, under the mutex again.             *)
(*                                                                         *)
(* A browser may have several requests under way: a new game can be asked  *)
(* for at any time, and a request given up (the network failed) may still  *)
(* reach the server.  Answers overtake each other.                         *)
(***************************************************************************)
EXTENDS TurnOps, Sequences, FiniteSets

CONSTANTS
    Client,         \* the browsers
    MaxRequests,    \* how many requests are sent in all
    MaxGames        \* how many games are started

ASSUME LocalGameAssumption ==
    /\ MaxRequests \in Nat
    /\ MaxGames \in Nat

RequestId == 1..MaxRequests
Nothing == 0        \* no request holds the mutex

VARIABLES
    mu,         \* the request that holds Service.mu, or Nothing
    state,      \* Service.state
    games,      \* the number of games created
    last,       \* the number of requests sent
    request,    \* the requests, and the answers to them
    shown,      \* 現在状態 of every browser
    busy,       \* 通信中 of every browser
    log         \* the turns taken, in order

serviceVars == <<mu, state, games, log>>
clientVars  == <<shown, busy>>
vars == <<serviceVars, last, request, clientVars>>

\* The games are numbered here to tell them apart; nothing in a request or in
\* the state does so.
NoGame == [id |-> 0, game |-> [turn |-> 0, player |-> "dark", phase |-> "none"]]

\* A request carries the turn and the side of the state shown.
NoRequest == [from |-> Nothing, kind |-> "none", basis |-> NoGame, stage |-> "none",
              awaited |-> FALSE, read |-> NoGame, code |-> "none", answer |-> NoGame]

Init ==
    /\ mu = Nothing
    /\ state = NoGame
    /\ games = 0
    /\ last = 0
    /\ request = [n \in RequestId |-> NoRequest]
    /\ shown = [c \in Client |-> NoGame]
    /\ busy = [c \in Client |-> FALSE]
    /\ log = <<>>

-----------------------------------------------------------------------------
\* Browsers.

Send(c, kind) ==
    /\ last < MaxRequests
    /\ last' = last + 1
    /\ request' = [request EXCEPT ![last + 1] =
                      [NoRequest EXCEPT !.from = c, !.kind = kind, !.basis = shown[c],
                                        !.stage = "sent", !.awaited = TRUE]]
    /\ busy' = [busy EXCEPT ![c] = TRUE]
    /\ UNCHANGED <<serviceVars, shown>>

\* A request that is done with is forgotten.
Closed(n) == [request EXCEPT ![n] = [NoRequest EXCEPT !.stage = "done"]]

\* 新規ゲーム要求処理: at any time, another request being under way or not.
AskNewGame(c) == Send(c, "newGame")

\* 着手要求処理, パス要求処理: in a running game and with no answer outstanding.
AskMove(c) ==
    /\ shown[c].game.phase = "playing"
    /\ ~busy[c]
    /\ Send(c, "applyCommand")

\* The browser is told that the request failed; the server may still get it.
\* What is shown stays.
GivesUp(n) ==
    LET c == request[n].from
    IN  /\ request[n].awaited
        /\ request' = [request EXCEPT ![n].awaited = FALSE]
        /\ busy' = [busy EXCEPT ![c] = FALSE]
        /\ UNCHANGED <<serviceVars, last, shown>>

\* A request that was given up never reaches the server.
IsLost(n) ==
    /\ request[n].stage = "sent" /\ ~request[n].awaited
    /\ request' = Closed(n)
    /\ UNCHANGED <<serviceVars, last, clientVars>>

\* ルール応答処理: the state of any answer is shown, if it has one.
Receive(n) ==
    LET c      == request[n].from
        answer == request[n].answer
    IN  /\ request[n].stage = "answered" /\ request[n].awaited
        /\ request' = Closed(n)
        /\ busy' = [busy EXCEPT ![c] = FALSE]
        /\ shown' = [shown EXCEPT ![c] = IF answer = NoGame THEN @ ELSE answer]
        /\ UNCHANGED <<serviceVars, last>>

\* Nobody waits for the answer any more.
IsDropped(n) ==
    /\ request[n].stage = "answered" /\ ~request[n].awaited
    /\ request' = Closed(n)
    /\ UNCHANGED <<serviceVars, last, clientVars>>

-----------------------------------------------------------------------------
\* Service.Evaluate and Handler.ServeHTTP.

\* Mutant: Evaluate does not lock.
BeginUnlocked(n) ==
    /\ request[n].stage = "sent"
    /\ request' = [request EXCEPT ![n].stage = "running", ![n].read = state]
    /\ UNCHANGED <<serviceVars, last, clientVars>>

\* Evaluate locks and copies the state for the runtime.
Begin(n) ==
    /\ request[n].stage = "sent"
    /\ mu = Nothing
    /\ mu' = n
    /\ request' = [request EXCEPT ![n].stage = "running", ![n].read = state]
    /\ UNCHANGED <<state, games, log, last, clientVars>>

Answer(n, code, answer) ==
    /\ request[n].stage = "running"
    /\ request' = [request EXCEPT ![n].stage = "answered", ![n].code = code,
                                  ![n].answer = answer]
    /\ mu' = Nothing
    /\ UNCHANGED <<last, clientVars>>

Create(n) ==
    LET new == [id |-> games + 1, game |-> NewGame]
    IN  /\ request[n].kind = "newGame"
        /\ games < MaxGames
        /\ Answer(n, "ok", new)
        /\ games' = games + 1
        /\ state' = new
        /\ UNCHANGED log

\* The command of a request, seen from a state: what the rules say of it
\* before they look at the board.
Fits(n, s) == request[n].basis.game.turn = s.game.turn

\* Mutant: the new state is sent but not kept.
AcceptForgets(n) ==
    LET read == request[n].read
        new  == [read EXCEPT !.game = Advance(@)]
    IN  /\ request[n].kind = "applyCommand"
        /\ read # NoGame
        /\ Fits(n, read) /\ Due(read.game, request[n].basis.game.player)
        /\ Answer(n, "ok", new)
        /\ log' = Append(log, [id |-> new.id, turn |-> new.game.turn])
        /\ UNCHANGED <<state, games>>

\* The rules accept the command on the state that was read.
Accept(n) ==
    LET read == request[n].read
        new  == [read EXCEPT !.game = Advance(@)]
    IN  /\ request[n].kind = "applyCommand"
        /\ read # NoGame
        /\ Fits(n, read) /\ Due(read.game, request[n].basis.game.player)
        /\ Answer(n, "ok", new)
        /\ state' = new
        /\ log' = Append(log, [id |-> new.id, turn |-> new.game.turn])
        /\ UNCHANGED games

\* There is no game yet, the game is over, the turn is another one, or the
\* move does not suit the board: the answer has the state that was read.
Refuse(n) ==
    LET read  == request[n].read
        stale == read.game.phase = "playing" /\ ~Fits(n, read)
    IN  /\ request[n].kind = "applyCommand"
        /\ Answer(n, IF stale THEN "stale_turn" ELSE "refused", read)
        /\ UNCHANGED <<state, games, log>>

\* Mutant: the error returns without unlocking.
FailLocked(n) ==
    /\ request[n].stage = "running"
    /\ request' = [request EXCEPT ![n].stage = "failed"]
    /\ UNCHANGED <<mu, state, games, log, last, clientVars>>

\* The runtime fails, is too slow or is cancelled with the request.
Fail(n) ==
    /\ request[n].stage = "running"
    /\ request' = [request EXCEPT ![n].stage = "failed"]
    /\ mu' = Nothing
    /\ UNCHANGED <<state, games, log, last, clientVars>>

\* The handler answers the failure with the state there is by then.
Snapshot(n) ==
    /\ request[n].stage = "failed"
    /\ mu = Nothing
    /\ request' = [request EXCEPT ![n].stage = "answered", ![n].code = "refused",
                                  ![n].answer = state]
    /\ UNCHANGED <<serviceVars, last, clientVars>>

Finish(n) == Create(n) \/ Accept(n) \/ Refuse(n) \/ Fail(n)

Next ==
    \/ \E c \in Client : AskNewGame(c) \/ AskMove(c)
    \/ \E n \in RequestId :
          \/ GivesUp(n) \/ IsLost(n) \/ Receive(n) \/ IsDropped(n)
          \/ Begin(n) \/ Finish(n) \/ Snapshot(n)

Spec == Init /\ [][Next]_vars

\* The server works on every request it gets and answers arrive.  Weak fairness
\* is enough at the mutex, since only so many requests can go first.  Browsers
\* need not ask for anything.
FairSpec ==
    /\ Spec
    /\ \A n \in RequestId :
          /\ WF_vars(Begin(n))
          /\ WF_vars(Finish(n))
          /\ WF_vars(Snapshot(n))
          /\ WF_vars(Receive(n))

-----------------------------------------------------------------------------
\* Properties.

Shown == [id : 1..MaxGames, game : Game] \cup {NoGame}

TypeOK ==
    /\ mu \in RequestId \cup {Nothing}
    /\ state \in Shown
    /\ games \in 0..MaxGames
    /\ last \in 0..MaxRequests
    /\ request \in [RequestId ->
          [from    : Client \cup {Nothing},
           kind    : {"none", "newGame", "applyCommand"},
           basis   : Shown,
           stage   : {"none", "sent", "running", "failed", "answered", "done"},
           awaited : BOOLEAN,
           read    : Shown,
           code    : {"none", "ok", "stale_turn", "refused"},
           answer  : Shown]]
    /\ shown \in [Client -> Shown]
    /\ busy \in [Client -> BOOLEAN]
    /\ log \in Seq([id : 1..MaxGames, turn : 1..LastTurn])

\* The turns taken in a game up to an entry of the log.
TurnsUpTo(id, n) == {i \in 1..n : log[i].id = id}

\* No two commands consume the same turn of a game and none is skipped,
\* however requests of several browsers, resent requests and new games come
\* together: the accepted commands of each game took its turns one by one.
TurnsTakenOnce ==
    \A n \in 1..Len(log) : log[n].turn = Cardinality(TurnsUpTo(log[n].id, n))

\* Where a state is in the history of the local game.
NotLater(s, t) == s.id < t.id \/ (s.id = t.id /\ s.game.turn <= t.game.turn)

\* A browser never shows a game or a turn that the server does not have.
ShownHappened == \A c \in Client : NotLater(shown[c], state)

\* Every request that a browser waits for is answered, or the browser gives
\* up: no request blocks the game for the others, and no browser stays busy.
RequestsAreAnswered ==
    \A n \in RequestId : request[n].awaited ~> ~request[n].awaited
=============================================================================
