---------------------------- MODULE ReplayProofs ----------------------------
(***************************************************************************)
(* Proofs about the boundary between the server and the rules and about    *)
(* the records of games, for every size of the board, every palette, every *)
(* generator and every seed.                                               *)
(*                                                                         *)
(* The first part takes a request through the validators, the codec and    *)
(* the runner.  The second lays a record out line by line and replays it:  *)
(* the frames of a record are those of the game it was made of.  The third *)
(* is the invariant Kept of the room and the store, with the properties    *)
(* that follow from it.  The last damages a line of a stored record.       *)
(***************************************************************************)
EXTENDS Replay, RulesProofs, SequenceTheorems

-----------------------------------------------------------------------------
\* Ordered checks.

\* A list of checks says what the first that fails says, or what it says when
\* none does.
LEMMA FirstFailing ==
    ASSUME NEW checks, NEW n \in Nat, NEW else, DOMAIN checks = 1..n
    PROVE  \/ (\A i \in 1..n : ~checks[i][1]) /\ FirstOf(checks, else) = else
           \/ \E i \in 1..n : /\ checks[i][1] /\ FirstOf(checks, else) = checks[i][2]
                             /\ \A j \in 1..n : j < i => ~checks[j][1]
<1> DEFINE failing == {i \in 1..n : checks[i][1]}
           first   == Least(failing)
<1>1. FirstOf(checks, else) = IF failing = {} THEN else ELSE checks[first][2]
  BY DEF FirstOf
<1>2. CASE failing = {}
  BY <1>1, <1>2
<1>3. CASE failing # {}
  <2>1. failing \in SUBSET Nat
    OBVIOUS
  <2> HIDE DEF failing
  <2>2. \E i \in failing : \A j \in failing : i <= j
    BY <1>3, <2>1, NatMin
  <2>3. first \in failing /\ \A j \in failing : first <= j
    BY <2>2 DEF Least
  <2> HIDE DEF first
  <2>4. first \in 1..n /\ checks[first][1]
    BY <2>3 DEF failing
  <2>5. ASSUME NEW j \in 1..n, j < first
        PROVE  ~checks[j][1]
    <3>1. j \notin failing
      BY <2>3, <2>4, <2>5
    <3> QED
      BY <3>1 DEF failing
  <2> QED
    BY <1>1, <1>3, <2>4, <2>5
<1> QED
  BY <1>2, <1>3

\* If the codes are in S, it says one of them or the rest; and "ok" only when
\* no check fails.
LEMMA FirstCode ==
    ASSUME NEW checks, NEW n \in Nat, NEW else, NEW S, DOMAIN checks = 1..n, "ok" \notin S,
           \A i \in 1..n : checks[i][2] \in S
    PROVE  /\ FirstOf(checks, else) \in S \cup {else}
           /\ (\A i \in 1..n : ~checks[i][1]) => FirstOf(checks, else) = else
           /\ FirstOf(checks, else) = "ok" => else = "ok" /\ \A i \in 1..n : ~checks[i][1]
BY FirstFailing

\* CommandCode passes exactly the commands that are well formed.
CommandOK(c) ==
    /\ c.commandId # "" /\ c.player \in Side /\ ~(c.expectedTurn < 0)
    /\ c.type \in {"place", "pass"}
    /\ c.type = "place" => c.row # {} /\ c.col # {} /\ OnBoard(c.row, c.col)
    /\ c.type = "pass" => c.row = {} /\ c.col = {}

\* And gives one of two codes to the others.
LEMMA CommandCodeIs ==
    ASSUME NEW c
    PROVE  /\ CommandCode(c) \in {"ok", "invalid_command", "invalid_coordinate"}
           /\ CommandCode(c) = "ok" <=> CommandOK(c)
<1> DEFINE S  == {"invalid_command", "invalid_coordinate"}
           a1 == c.commandId = ""
           a2 == c.player \notin Side
           a3 == c.expectedTurn < 0
           a4 == c.type = "place" /\ (c.row = {} \/ c.col = {})
           a5 == c.type = "place" /\ ~OnBoard(c.row, c.col)
           a6 == c.type = "pass" /\ (c.row # {} \/ c.col # {})
           a7 == c.type \notin {"place", "pass"}
           checks == <<<<a1, "invalid_command">>, <<a2, "invalid_command">>,
                       <<a3, "invalid_command">>, <<a4, "invalid_command">>,
                       <<a5, "invalid_coordinate">>, <<a6, "invalid_command">>,
                       <<a7, "invalid_command">>>>
<1>1. CommandCode(c) = FirstOf(checks, "ok")
  BY DEF CommandCode
<1>2. CommandOK(c) <=> ~a1 /\ ~a2 /\ ~a3 /\ ~a4 /\ ~a5 /\ ~a6 /\ ~a7
  BY DEF CommandOK
<1> HIDE DEF a1, a2, a3, a4, a5, a6, a7
<1>3. /\ DOMAIN checks = 1..7
      /\ \A i \in 1..7 : i = 1 \/ i = 2 \/ i = 3 \/ i = 4 \/ i = 5 \/ i = 6 \/ i = 7
  OBVIOUS
<1>4. /\ checks[1] = <<a1, "invalid_command">> /\ checks[2] = <<a2, "invalid_command">>
      /\ checks[3] = <<a3, "invalid_command">> /\ checks[4] = <<a4, "invalid_command">>
      /\ checks[5] = <<a5, "invalid_coordinate">> /\ checks[6] = <<a6, "invalid_command">>
      /\ checks[7] = <<a7, "invalid_command">>
  OBVIOUS
<1> HIDE DEF checks
<1>5. \A i \in 1..7 : checks[i][2] \in S
  BY <1>3, <1>4
<1>6. (\A i \in 1..7 : ~checks[i][1]) <=> ~a1 /\ ~a2 /\ ~a3 /\ ~a4 /\ ~a5 /\ ~a6 /\ ~a7
  BY <1>3, <1>4
<1>7. "ok" \notin S /\ 7 \in Nat
  OBVIOUS
<1> HIDE DEF S
<1>8. /\ FirstOf(checks, "ok") \in S \cup {"ok"}
      /\ (\A i \in 1..7 : ~checks[i][1]) => FirstOf(checks, "ok") = "ok"
      /\ FirstOf(checks, "ok") = "ok" => \A i \in 1..7 : ~checks[i][1]
  BY <1>3, <1>5, <1>7, FirstCode
<1> QED
  BY <1>1, <1>2, <1>6, <1>8 DEF S

\* StateCode passes exactly the states of the right version and shape.
StateOK(s) ==
    /\ s.version = Version /\ s.gameId # ""
    /\ DOMAIN s.game.board = Cell
    /\ ~(s.game.turnNumber < 0)
    /\ s.game.currentPlayer \in Side
    /\ s.game.consecutivePasses \in 0..2
    /\ s.game.legalMoves \subseteq Cell
    /\ \/ s.game.phase = "playing" /\ s.game.winner = "none"
       \/ s.game.phase = "finished" /\ s.game.winner \in Side /\ s.game.legalMoves = {}

\* And gives one of two codes to the others.
LEMMA StateCodeIs ==
    ASSUME NEW s
    PROVE  /\ StateCode(s) \in {"ok", "unsupported_version", "invalid_state"}
           /\ StateCode(s) = "ok" <=> StateOK(s)
<1> DEFINE S  == {"unsupported_version", "invalid_state"}
           g  == s.game
           a1 == s.version # Version
           a2 == \/ s.gameId = ""
                 \/ DOMAIN g.board # Cell
                 \/ g.turnNumber < 0
                 \/ g.currentPlayer \notin Side
                 \/ g.consecutivePasses \notin 0..2
                 \/ g.phase \notin {"playing", "finished"}
                 \/ ~(g.legalMoves \subseteq Cell)
                 \/ g.phase = "playing" /\ g.winner # "none"
                 \/ g.phase = "finished" /\ (g.winner \notin Side \/ g.legalMoves # {})
           checks == <<<<a1, "unsupported_version">>, <<a2, "invalid_state">>>>
<1>1. StateCode(s) = FirstOf(checks, "ok")
  BY DEF StateCode
<1>2. StateOK(s) <=> ~a1 /\ ~a2
  BY DEF StateOK
<1> HIDE DEF a1, a2
<1>3. DOMAIN checks = 1..2 /\ \A i \in 1..2 : i = 1 \/ i = 2
  OBVIOUS
<1>4. checks[1] = <<a1, "unsupported_version">> /\ checks[2] = <<a2, "invalid_state">>
  OBVIOUS
<1> HIDE DEF checks
<1>5. \A i \in 1..2 : checks[i][2] \in S
  BY <1>3, <1>4
<1>6. (\A i \in 1..2 : ~checks[i][1]) <=> ~a1 /\ ~a2
  BY <1>3, <1>4
<1>7. "ok" \notin S /\ 2 \in Nat
  OBVIOUS
<1> HIDE DEF S
<1>8. /\ FirstOf(checks, "ok") \in S \cup {"ok"}
      /\ (\A i \in 1..2 : ~checks[i][1]) => FirstOf(checks, "ok") = "ok"
      /\ FirstOf(checks, "ok") = "ok" => \A i \in 1..2 : ~checks[i][1]
  BY <1>3, <1>5, <1>7, FirstCode
<1> QED
  BY <1>1, <1>2, <1>6, <1>8 DEF S

\* EventCode passes the events that are well formed.
EventOK(e) ==
    /\ e.commandId # "" /\ e.player \in Side /\ ~(e.turnNumber < 1)
    /\ e.type \in {"placed", "passed"}
    /\ e.type = "placed" => /\ e.row # {} /\ e.col # {} /\ OnBoard(e.row, e.col)
                            /\ e.placedColor # {} /\ {c.cell : c \in e.changes} \subseteq Cell
    /\ e.type = "passed" => <<e.row, e.col, e.placedColor, e.changes>> = <<{}, {}, {}, {}>>

\* An event that is well formed passes.
LEMMA EventCodeIs ==
    ASSUME NEW e, EventOK(e)
    PROVE  EventCode(e) = "ok"
<1> DEFINE S  == {"invalid_command", "invalid_coordinate"}
           a1 == e.commandId = "" \/ e.player \notin Side \/ e.turnNumber < 1
           a2 == e.type = "placed" /\ (e.row = {} \/ e.col = {})
           a3 == e.type = "placed" /\ ~OnBoard(e.row, e.col)
           a4 == e.type = "placed" /\ e.placedColor = {}
           a5 == e.type = "placed" /\ ~({c.cell : c \in e.changes} \subseteq Cell)
           a6 == e.type = "passed" /\ <<e.row, e.col, e.placedColor, e.changes>> # <<{}, {}, {}, {}>>
           a7 == e.type \notin {"placed", "passed"}
           checks == <<<<a1, "invalid_command">>, <<a2, "invalid_command">>,
                       <<a3, "invalid_coordinate">>, <<a4, "invalid_command">>,
                       <<a5, "invalid_coordinate">>, <<a6, "invalid_command">>,
                       <<a7, "invalid_command">>>>
<1>1. EventCode(e) = FirstOf(checks, "ok")
  BY DEF EventCode
<1>2. ~a1 /\ ~a2 /\ ~a3 /\ ~a4 /\ ~a5 /\ ~a6 /\ ~a7
  BY DEF EventOK
<1> HIDE DEF a1, a2, a3, a4, a5, a6, a7
<1>3. /\ DOMAIN checks = 1..7
      /\ \A i \in 1..7 : i = 1 \/ i = 2 \/ i = 3 \/ i = 4 \/ i = 5 \/ i = 6 \/ i = 7
  OBVIOUS
<1>4. /\ checks[1] = <<a1, "invalid_command">> /\ checks[2] = <<a2, "invalid_command">>
      /\ checks[3] = <<a3, "invalid_coordinate">> /\ checks[4] = <<a4, "invalid_command">>
      /\ checks[5] = <<a5, "invalid_coordinate">> /\ checks[6] = <<a6, "invalid_command">>
      /\ checks[7] = <<a7, "invalid_command">>
  OBVIOUS
<1> HIDE DEF checks
<1>5. (\A i \in 1..7 : checks[i][2] \in S) /\ (\A i \in 1..7 : ~checks[i][1])
  BY <1>2, <1>3, <1>4
<1>6. "ok" \notin S /\ 7 \in Nat
  OBVIOUS
<1> HIDE DEF S
<1> QED
  BY <1>1, <1>3, <1>5, <1>6, FirstCode

\* What a pointer points to.
LEMMA DerefIs ==
    ASSUME NEW x
    PROVE  Deref({x}) = x
BY DEF Deref

\* RequestCode passes a new game with an id and a seed, and a command with its
\* state, each with nothing else.
RequestOK(r) ==
    /\ r.version = Version
    /\ \/ /\ r.action = "newGame" /\ r.gameId # "" /\ r.seed # {}
          /\ r.state = {} /\ r.command = {}
       \/ /\ r.action = "applyCommand" /\ r.state # {} /\ r.command # {}
          /\ r.gameId = "" /\ r.seed = {}
          /\ {StateCode(s) : s \in r.state} = {"ok"}
          /\ CommandCode(Deref(r.command)) = "ok"

\* And no other.
LEMMA RequestCodeIs ==
    ASSUME NEW r, \A s, t \in r.state : s = t
    PROVE  RequestCode(r) = "ok" <=> RequestOK(r)
<1> DEFINE S  == {"unsupported_version", "invalid_request"}
           new    == r.action = "newGame"
           apply  == r.action = "applyCommand"
           states == {StateCode(s) : s \in r.state}
           else == IF new THEN "ok"
                   ELSE IF states # {"ok"} THEN Deref(states)
                   ELSE CommandCode(Deref(r.command))
           a1 == r.version # Version
           a2 == ~new /\ ~apply
           a3 == new /\ (r.gameId = "" \/ r.seed = {})
           a4 == new /\ (r.state # {} \/ r.command # {})
           a5 == apply /\ (r.state = {} \/ r.command = {})
           a6 == apply /\ (r.gameId # "" \/ r.seed # {})
           checks == <<<<a1, "unsupported_version">>, <<a2, "invalid_request">>,
                       <<a3, "invalid_request">>, <<a4, "invalid_request">>,
                       <<a5, "invalid_request">>, <<a6, "invalid_request">>>>
<1>1. RequestCode(r) = FirstOf(checks, else)
  BY DEF RequestCode
<1>2. RequestOK(r) <=> (~a1 /\ ~a2 /\ ~a3 /\ ~a4 /\ ~a5 /\ ~a6) /\ else = "ok"
  <2>1. CASE new
    BY <2>1 DEF RequestOK
  <2>2. CASE apply /\ r.state # {}
    <3>1. PICK s \in r.state : states = {StateCode(s)}
      BY <2>2
    <3>2. states # {"ok"} => Deref(states) # "ok"
      BY <3>1, DerefIs
    <3>3. else = "ok" <=> states = {"ok"} /\ CommandCode(Deref(r.command)) = "ok"
      BY <2>2, <3>2
    <3> QED
      BY <2>2, <3>3 DEF RequestOK
  <2>3. CASE apply /\ r.state = {}
    BY <2>3 DEF RequestOK
  <2>4. CASE ~new /\ ~apply
    BY <2>4 DEF RequestOK
  <2> QED
    BY <2>1, <2>2, <2>3, <2>4
<1> HIDE DEF a1, a2, a3, a4, a5, a6, else
<1>3. /\ DOMAIN checks = 1..6
      /\ \A i \in 1..6 : i = 1 \/ i = 2 \/ i = 3 \/ i = 4 \/ i = 5 \/ i = 6
  OBVIOUS
<1>4. /\ checks[1] = <<a1, "unsupported_version">> /\ checks[2] = <<a2, "invalid_request">>
      /\ checks[3] = <<a3, "invalid_request">> /\ checks[4] = <<a4, "invalid_request">>
      /\ checks[5] = <<a5, "invalid_request">> /\ checks[6] = <<a6, "invalid_request">>
  OBVIOUS
<1> HIDE DEF checks
<1>5. \A i \in 1..6 : checks[i][2] \in S
  BY <1>3, <1>4
<1>6. (\A i \in 1..6 : ~checks[i][1]) <=> ~a1 /\ ~a2 /\ ~a3 /\ ~a4 /\ ~a5 /\ ~a6
  BY <1>3, <1>4
<1>7. "ok" \notin S /\ 6 \in Nat
  OBVIOUS
<1> HIDE DEF S
<1>8. /\ (\A i \in 1..6 : ~checks[i][1]) => FirstOf(checks, else) = else
      /\ FirstOf(checks, else) = "ok" => else = "ok" /\ \A i \in 1..6 : ~checks[i][1]
  BY <1>3, <1>5, <1>7, FirstCode
<1> QED
  BY <1>1, <1>2, <1>6, <1>8

\* RulesCode passes to the verdict what it finds no fault with.
RulesOK(r) ==
    /\ r.version = Version
    /\ \/ r.action = "newGame" /\ r.gameId # "" /\ r.seed # {}
       \/ /\ r.action = "applyCommand" /\ r.state # {} /\ r.command # {}
          /\ \A s \in r.state : RulesStateValid(s)
          /\ \A c \in r.command : c.commandId # "" /\ (c.type = "place" => c.row # {} /\ c.col # {})

\* And rejects the rest.
LEMMA RulesCodeIs ==
    ASSUME NEW r
    PROVE  LET verdict == IF r.action = "newGame" THEN "ok"
                          ELSE Verdict(Deref(r.state).game, AsCommand(Deref(r.command)))
           IN  /\ RulesOK(r) => RulesCode(r) = verdict
               /\ RulesCode(r) = "ok" => RulesOK(r) /\ verdict = "ok"
<1> DEFINE S  == {"unsupported_version", "invalid_request", "invalid_state", "invalid_command"}
           new   == r.action = "newGame"
           apply == r.action = "applyCommand"
           else  == IF new THEN "ok" ELSE Verdict(Deref(r.state).game, AsCommand(Deref(r.command)))
           a1 == r.version # Version
           a2 == new /\ (r.gameId = "" \/ r.seed = {})
           a3 == ~new /\ ~apply
           a4 == apply /\ (r.state = {} \/ r.command = {})
           a5 == apply /\ \E s \in r.state : ~RulesStateValid(s)
           a6 == apply /\ \E x \in r.command : x.commandId = ""
           a7 == apply /\ \E x \in r.command : x.type = "place" /\ (x.row = {} \/ x.col = {})
           checks == <<<<a1, "unsupported_version">>, <<a2, "invalid_request">>,
                       <<a3, "invalid_request">>, <<a4, "invalid_request">>,
                       <<a5, "invalid_state">>, <<a6, "invalid_command">>,
                       <<a7, "invalid_command">>>>
<1>1. RulesCode(r) = FirstOf(checks, else)
  BY DEF RulesCode
<1>2. RulesOK(r) <=> ~a1 /\ ~a2 /\ ~a3 /\ ~a4 /\ ~a5 /\ ~a6 /\ ~a7
  BY DEF RulesOK
<1> HIDE DEF a1, a2, a3, a4, a5, a6, a7, else
<1>3. /\ DOMAIN checks = 1..7
      /\ \A i \in 1..7 : i = 1 \/ i = 2 \/ i = 3 \/ i = 4 \/ i = 5 \/ i = 6 \/ i = 7
  OBVIOUS
<1>4. /\ checks[1] = <<a1, "unsupported_version">> /\ checks[2] = <<a2, "invalid_request">>
      /\ checks[3] = <<a3, "invalid_request">> /\ checks[4] = <<a4, "invalid_request">>
      /\ checks[5] = <<a5, "invalid_state">> /\ checks[6] = <<a6, "invalid_command">>
      /\ checks[7] = <<a7, "invalid_command">>
  OBVIOUS
<1> HIDE DEF checks
<1>5. \A i \in 1..7 : checks[i][2] \in S
  BY <1>3, <1>4
<1>6. (\A i \in 1..7 : ~checks[i][1]) <=> ~a1 /\ ~a2 /\ ~a3 /\ ~a4 /\ ~a5 /\ ~a6 /\ ~a7
  BY <1>3, <1>4
<1>7. "ok" \notin S /\ 7 \in Nat
  OBVIOUS
<1> HIDE DEF S
<1>8. /\ (\A i \in 1..7 : ~checks[i][1]) => FirstOf(checks, else) = else
      /\ FirstOf(checks, else) = "ok" => else = "ok" /\ \A i \in 1..7 : ~checks[i][1]
  BY <1>3, <1>5, <1>7, FirstCode
<1> QED
  BY <1>1, <1>2, <1>6, <1>8 DEF else

-----------------------------------------------------------------------------
\* Requests.

\* States as records, and what the two sides say of them.
Fields(v, id, g, m) == [version |-> v, gameId |-> id, game |-> g, moves |-> m]

\* What the rules find valid passes the check of the server.
LEMMA ValidPasses ==
    ASSUME NEW v, NEW id, NEW g, NEW m
    PROVE  LET s == Fields(v, id, g, m)
           IN  /\ Marshal(s) = Fields(v, id, g, "list")
               /\ RulesStateValid(Marshal(s)) => StateOK(s)
<1> DEFINE s == Fields(v, id, g, m)
<1>1. Marshal(s) = Fields(v, id, g, "list")
  BY DEF Marshal, Fields
<1>2. ASSUME RulesStateValid(Fields(v, id, g, "list"))
      PROVE  StateOK(s)
  <2>1. v = Version /\ id # "" /\ StateValid(g) /\ g \in State
    BY <1>2 DEF RulesStateValid, Fields, StateValid
  <2>2. g.board \in Board /\ DOMAIN g.board = Cell /\ g.turnNumber \in Nat
        /\ g.currentPlayer \in Side /\ g.consecutivePasses \in 0..2
        /\ g.phase \in {"playing", "finished"} /\ g.legalMoves \in SUBSET Cell
    BY <2>1 DEF State, Board
  <2>3. s.version = v /\ s.gameId = id /\ s.game = g
    BY DEF Fields
  <2> HIDE DEF s
  <2>4. ~(g.turnNumber < 0)
    BY <2>2
  <2> QED
    BY <2>1, <2>2, <2>3, <2>4 DEF StateOK, StateValid
<1> QED
  BY <1>1, <1>2

\* The state that a room holds passes both.
LEMMA HeldPasses ==
    ASSUME NEW g, StateValid(g)
    PROVE  /\ \E m : Held(g) = Fields(Version, GameId, g, m)
           /\ Held(g).game = g /\ Marshal(Held(g)) = GoState(g, "list")
           /\ RulesStateValid(Marshal(Held(g))) /\ StateOK(Held(g))
           /\ StateOK(GoState(g, "list"))
<1>1. PICK m : Held(g) = Fields(Version, GameId, g, m)
  BY DEF Held, Clone, GoState, Fields
<1>2. GoState(g, "list") = Fields(Version, GameId, g, "list")
  BY DEF GoState, Fields
<1>3. Marshal(Held(g)) = Fields(Version, GameId, g, "list")
  BY <1>1, ValidPasses
<1>4. RulesStateValid(Fields(Version, GameId, g, "list"))
  BY DEF RulesStateValid, Fields, GameId
<1>5. StateOK(Held(g))
  BY <1>1, <1>3, <1>4, ValidPasses
<1>6. Marshal(Fields(Version, GameId, g, "list")) = Fields(Version, GameId, g, "list")
  BY ValidPasses
<1>7. StateOK(GoState(g, "list"))
  BY <1>2, <1>4, <1>6, ValidPasses
<1>8. Held(g).game = g
  BY <1>1 DEF Fields
<1> QED
  BY <1>1, <1>2, <1>3, <1>4, <1>5, <1>7, <1>8

\* A state with a field that is not as it should be passes neither.
LEMMA SpoiledFails ==
    ASSUME NEW g, StateValid(g), NEW s \in Spoiled(Held(g))
    PROVE  ~StateOK(s) /\ ~RulesStateValid(Marshal(s))
<1>1. PICK m : Held(g) = Fields(Version, GameId, g, m)
  BY HeldPasses
<1>2. g \in State
  BY DEF StateValid
<1>3. g.phase \in {"playing", "finished"} /\ g.winner \in Side \cup {"none"}
      /\ (g.phase = "playing" => g.winner = "none") /\ (g.phase = "finished" => g.winner \in Side)
  BY <1>2 DEF StateValid, State
<1>4. "none" \notin Side /\ "other" \notin Side
  BY DEF Side
<1> DEFINE h == Fields(Version, GameId, g, m)
<1>5. s \in {[h EXCEPT !.version = "2"], [h EXCEPT !.gameId = ""],
             [h EXCEPT !.game.board = [p \in Cell \ {<<0, 0>>} |-> @[p]]],
             [h EXCEPT !.game.turnNumber = -1], [h EXCEPT !.game.currentPlayer = "other"],
             [h EXCEPT !.game.consecutivePasses = 3], [h EXCEPT !.game.phase = "other"],
             [h EXCEPT !.game.winner = IF @ = "none" THEN "dark" ELSE "none"],
             [h EXCEPT !.game.legalMoves = @ \cup {<<0, N>>}],
             [h EXCEPT !.game.phase = IF @ = "playing" THEN "finished" ELSE "playing"]}
  BY <1>1 DEF Spoiled
<1>6. ASSUME NEW k, s = Fields(Version, GameId, k, m)
      PROVE  s.game = k
  BY <1>6 DEF Fields
<1>7. (\E v, id, k : s = Fields(v, id, k, m)) /\ ~StateOK(s)
  <2>1. CASE s = [h EXCEPT !.version = "2"]
    <3>1. s = Fields("2", GameId, g, m)
      BY <2>1 DEF Fields
    <3> QED
      BY <3>1 DEF StateOK, Fields, Version
  <2>2. CASE s = [h EXCEPT !.gameId = ""]
    <3>1. s = Fields(Version, "", g, m)
      BY <2>2 DEF Fields
    <3> QED
      BY <3>1 DEF StateOK, Fields
  <2>3. CASE s = [h EXCEPT !.game.board = [p \in Cell \ {<<0, 0>>} |-> @[p]]]
    <3> DEFINE b == [p \in Cell \ {<<0, 0>>} |-> g.board[p]]
               k == [g EXCEPT !.board = b]
    <3>1. s = Fields(Version, GameId, k, m)
      BY <2>3 DEF Fields
    <3>2. k.board = b
      BY <1>2 DEF State
    <3>3. DOMAIN b # Cell
      <4>1. <<0, 0>> \in Cell
        BY RulesAssumption DEF Cell
      <4> QED
        BY <4>1
    <3> HIDE DEF b, k
    <3> QED
      BY <1>6, <3>1, <3>2, <3>3 DEF StateOK
  <2>4. CASE s = [h EXCEPT !.game.turnNumber = -1]
    <3> DEFINE k == [g EXCEPT !.turnNumber = -1]
    <3>1. s = Fields(Version, GameId, k, m)
      BY <2>4 DEF Fields
    <3>2. k.turnNumber < 0
      BY <1>2 DEF State
    <3> HIDE DEF k
    <3> QED
      BY <1>6, <3>1, <3>2 DEF StateOK
  <2>5. CASE s = [h EXCEPT !.game.currentPlayer = "other"]
    <3> DEFINE k == [g EXCEPT !.currentPlayer = "other"]
    <3>1. s = Fields(Version, GameId, k, m)
      BY <2>5 DEF Fields
    <3>2. k.currentPlayer = "other"
      BY <1>2 DEF State
    <3> HIDE DEF k
    <3> QED
      BY <1>4, <1>6, <3>1, <3>2 DEF StateOK
  <2>6. CASE s = [h EXCEPT !.game.consecutivePasses = 3]
    <3> DEFINE k == [g EXCEPT !.consecutivePasses = 3]
    <3>1. s = Fields(Version, GameId, k, m)
      BY <2>6 DEF Fields
    <3>2. k.consecutivePasses = 3
      BY <1>2 DEF State
    <3>3. k.consecutivePasses \notin 0..2
      BY <3>2
    <3> HIDE DEF k
    <3> QED
      BY <1>6, <3>1, <3>3 DEF StateOK
  <2>7. CASE s = [h EXCEPT !.game.phase = "other"]
    <3> DEFINE k == [g EXCEPT !.phase = "other"]
    <3>1. s = Fields(Version, GameId, k, m)
      BY <2>7 DEF Fields
    <3>2. k.phase = "other"
      BY <1>2 DEF State
    <3> HIDE DEF k
    <3> QED
      BY <1>6, <3>1, <3>2 DEF StateOK
  <2>8. CASE s = [h EXCEPT !.game.winner = IF @ = "none" THEN "dark" ELSE "none"]
    <3> DEFINE k == [g EXCEPT !.winner = IF @ = "none" THEN "dark" ELSE "none"]
    <3>1. s = Fields(Version, GameId, k, m)
      BY <2>8 DEF Fields
    <3>2. k.phase = g.phase /\ k.winner = IF g.winner = "none" THEN "dark" ELSE "none"
      BY <1>2 DEF State
    <3> HIDE DEF k
    <3> QED
      BY <1>3, <1>4, <1>6, <3>1, <3>2 DEF StateOK
  <2>9. CASE s = [h EXCEPT !.game.legalMoves = @ \cup {<<0, N>>}]
    <3> DEFINE k == [g EXCEPT !.legalMoves = @ \cup {<<0, N>>}]
    <3>1. s = Fields(Version, GameId, k, m)
      BY <2>9 DEF Fields
    <3>2. k.legalMoves = g.legalMoves \cup {<<0, N>>}
      BY <1>2 DEF State
    <3>3. <<0, N>> \notin Cell
      BY RulesAssumption DEF Cell
    <3>4. ~(k.legalMoves \subseteq Cell)
      BY <3>2, <3>3
    <3> HIDE DEF k
    <3> QED
      BY <1>6, <3>1, <3>4 DEF StateOK
  <2>10. CASE s = [h EXCEPT !.game.phase = IF @ = "playing" THEN "finished" ELSE "playing"]
    <3> DEFINE k == [g EXCEPT !.phase = IF @ = "playing" THEN "finished" ELSE "playing"]
    <3>1. s = Fields(Version, GameId, k, m)
      BY <2>10 DEF Fields
    <3>2. k.winner = g.winner /\ k.phase = IF g.phase = "playing" THEN "finished" ELSE "playing"
      BY <1>2 DEF State
    <3> HIDE DEF k
    <3> QED
      BY <1>3, <1>4, <1>6, <3>1, <3>2 DEF StateOK
  <2> QED
    BY <1>5, <2>1, <2>2, <2>3, <2>4, <2>5, <2>6, <2>7, <2>8, <2>9, <2>10
<1> QED
  BY <1>7, ValidPasses

\* Commands as they come from the wire.
Coordinate == {{}} \cup {{k} : k \in (-1)..N}

Wired == [commandId : {"", "c"}, type : {"place", "pass", "other"}, player : Side \cup {"other"},
          expectedTurn : Int, row : Coordinate, col : Coordinate]

\* What the rules make of one: the checks of the server and those of the
\* rules come to the same.
LEMMA CommandsAgree ==
    ASSUME NEW c \in Wired
    PROVE  LET cmd == AsCommand(c)
           IN  /\ cmd.type = c.type /\ cmd.player = c.player /\ cmd.expectedTurn = c.expectedTurn
               /\ CommandOK(c) => /\ WellFormed(cmd)
                                  /\ c.type = "place" => cmd.cell \in Cell
               /\ c.type = "place" /\ c.row # {} /\ c.col # {} /\ cmd.cell \in Cell =>
                     OnBoard(c.row, c.col)
<1>1. /\ c.type \in {"place", "pass", "other"} /\ c.player \in Side \cup {"other"}
      /\ c.expectedTurn \in Int /\ c.row \in Coordinate /\ c.col \in Coordinate
  BY DEF Wired
<1>2. ~(c.expectedTurn < 0) => c.expectedTurn >= 0
  BY <1>1
<1>3. CASE c.type = "place"
  <2> DEFINE p == Deref(c.row \X c.col)
  <2>1. AsCommand(c) = [type |-> "place", player |-> c.player, expectedTurn |-> c.expectedTurn,
                        cell |-> p]
    BY <1>3 DEF AsCommand
  <2>2. c.row # {} /\ c.col # {} => (p \in Cell <=> OnBoard(c.row, c.col))
    <3>1. SUFFICES ASSUME NEW i \in (-1)..N, NEW j \in (-1)..N, c.row = {i}, c.col = {j}
                   PROVE  p \in Cell <=> OnBoard(c.row, c.col)
      BY <1>1 DEF Coordinate
    <3>2. c.row \X c.col = {<<i, j>>}
      BY <3>1
    <3>3. p = <<i, j>>
      BY <3>2, DerefIs
    <3> HIDE DEF p
    <3> QED
      BY <3>2, <3>3 DEF OnBoard
  <2> HIDE DEF p
  <2>3. AsCommand(c).type = "place" /\ AsCommand(c).player = c.player
        /\ AsCommand(c).expectedTurn = c.expectedTurn /\ AsCommand(c).cell = p
    BY <2>1
  <2>4. CommandOK(c) => WellFormed(AsCommand(c)) /\ p \in Cell
    BY <1>2, <1>3, <2>2, <2>3 DEF CommandOK, WellFormed
  <2> QED
    BY <1>3, <2>2, <2>3, <2>4
<1>4. CASE c.type # "place"
  <2>1. AsCommand(c) = [type |-> c.type, player |-> c.player, expectedTurn |-> c.expectedTurn]
    BY <1>4 DEF AsCommand
  <2>2. AsCommand(c).type = c.type /\ AsCommand(c).player = c.player
        /\ AsCommand(c).expectedTurn = c.expectedTurn
    BY <2>1
  <2>3. CommandOK(c) => WellFormed(AsCommand(c))
    BY <1>2, <1>4, <2>2 DEF CommandOK, WellFormed
  <2> QED
    BY <1>4, <2>2, <2>3
<1> QED
  BY <1>3, <1>4

\* The requests considered, and what is sent to the rules.
AnyRequest ==
    [version : {"1", "2"}, action : {"newGame", "applyCommand", "other"}, gameId : {"", GameId},
     seed    : {{}, {seed}},
     state   : {{}} \cup {{s} : s \in {Held(state)} \cup Spoiled(Held(state))},
     command : {{}} \cup {{c} : c \in Wired}]

OnWire(r) == [r EXCEPT !.state = {Marshal(s) : s \in @}]

\* They are so.
LEMMA Requested ==
    ASSUME Inductive, NEW r \in Request(state)
    PROVE  r \in AnyRequest
<1>1. state.turnNumber \in Nat /\ state.currentPlayer \in Side
  BY DEF Inductive, TypeOK, State
<1>2. SomeCommand(state) \in Wired
  BY <1>1 DEF SomeCommand, Wired, Coordinate
<1>3. WireCommand(state) \subseteq Wired
  <2>1. \A k \in Lag : state.turnNumber + k \in Int
    BY <1>1, RulesAssumption
  <2>2. {state.turnNumber + k : k \in Lag} \subseteq Int
    BY <2>1
  <2> HIDE DEF Coordinate
  <2>3. WireCommand(state) =
           [commandId : {"", "c"}, type : {"place", "pass", "other"}, player : Side \cup {"other"},
            expectedTurn : {state.turnNumber + k : k \in Lag}, row : Coordinate, col : Coordinate]
    BY DEF WireCommand, Coordinate
  <2> DEFINE turns == {state.turnNumber + k : k \in Lag}
  <2> HIDE DEF turns
  <2>4. ASSUME NEW c \in WireCommand(state) PROVE c \in Wired
    <3>1. c \in [commandId : {"", "c"}, type : {"place", "pass", "other"},
                 player : Side \cup {"other"}, expectedTurn : turns, row : Coordinate,
                 col : Coordinate]
      BY <2>3, <2>4 DEF turns
    <3>2. turns \subseteq Int
      BY <2>2 DEF turns
    <3> QED
      BY <3>1, <3>2 DEF Wired
  <2> QED
    BY <2>4
<1>4. ASSUME NEW s \in {Held(state)} \cup Spoiled(Held(state)), NEW c \in Wired
      PROVE  ApplyCommandRequest(s, c) \in AnyRequest
  BY DEF ApplyCommandRequest, AnyRequest, Version
<1>5. CASE r \in [version : {"1", "2"}, action : {"newGame", "applyCommand", "other"},
                  gameId : {"", GameId}, seed : {{}, {seed}},
                  state : {{}, {Held(state)}}, command : {{}, {SomeCommand(state)}}]
  BY <1>2, <1>5 DEF AnyRequest
<1>6. CASE \E c \in WireCommand(state) : r = ApplyCommandRequest(Held(state), c)
  BY <1>3, <1>4, <1>6
<1>7. CASE \E s \in Spoiled(Held(state)) : r = ApplyCommandRequest(s, SomeCommand(state))
  BY <1>2, <1>4, <1>7
<1> QED
  BY <1>5, <1>6, <1>7 DEF Request

\* The parts of a request, and of what is sent.
LEMMA Parts ==
    ASSUME NEW r \in AnyRequest
    PROVE  /\ OnWire(r).version = r.version /\ OnWire(r).action = r.action
           /\ OnWire(r).gameId = r.gameId /\ OnWire(r).seed = r.seed
           /\ OnWire(r).command = r.command
           /\ OnWire(r).state = {Marshal(s) : s \in r.state}
           /\ r.seed = {} \/ r.seed = {seed}
           /\ r.state = {} \/ \E s \in {Held(state)} \cup Spoiled(Held(state)) : r.state = {s}
           /\ r.command = {} \/ \E c \in Wired : r.command = {c}
           /\ \A s, t \in r.state : s = t
BY DEF AnyRequest, OnWire

\* A command that the server lets through, on the way to the rules: they find
\* no fault with its form, and judge it by the state that the room holds.
LEMMA PassedCommand ==
    ASSUME Inductive, NEW r \in AnyRequest, RequestOK(r), r.action # "newGame"
    PROVE  \E c \in Wired :
              /\ r.command = {c} /\ CommandOK(c)
              /\ OnWire(r).state = {GoState(state, "list")}
              /\ RulesCode(OnWire(r)) = Verdict(state, AsCommand(c))
<1>1. StateValid(state)
  BY DEF Inductive, ReplyIsValid
<1>2. /\ r.version = Version /\ r.action = "applyCommand" /\ r.state # {} /\ r.command # {}
      /\ {StateCode(s) : s \in r.state} = {"ok"} /\ CommandCode(Deref(r.command)) = "ok"
  BY DEF RequestOK
<1>3. PICK c \in Wired : r.command = {c}
  BY <1>2, Parts
<1>4. CommandOK(c)
  BY <1>2, <1>3, DerefIs, CommandCodeIs
<1>5. PICK s \in {Held(state)} \cup Spoiled(Held(state)) : r.state = {s}
  BY <1>2, Parts
<1>6. StateOK(s)
  <2>1. StateCode(s) = "ok"
    BY <1>2, <1>5
  <2> QED
    BY <2>1, StateCodeIs
<1>7. s = Held(state)
  BY <1>1, <1>5, <1>6, SpoiledFails
<1>8. OnWire(r).state = {Marshal(Held(state))}
  BY <1>5, <1>7, Parts
<1>9. /\ OnWire(r).state = {GoState(state, "list")} /\ RulesStateValid(GoState(state, "list"))
  BY <1>1, <1>8, HeldPasses
<1>10. /\ OnWire(r).version = Version /\ OnWire(r).action = "applyCommand"
       /\ OnWire(r).command = {c}
  BY <1>2, <1>3, Parts
<1>11. RulesOK(OnWire(r))
  BY <1>4, <1>9, <1>10 DEF RulesOK, CommandOK
<1>12. Deref(OnWire(r).state).game = state
  <2>1. GoState(state, "list").game = state
    BY DEF GoState
  <2>2. Deref(OnWire(r).state) = GoState(state, "list")
    BY <1>9, DerefIs
  <2> QED
    BY <2>1, <2>2
<1>13. Deref(OnWire(r).command) = c
  BY <1>10, DerefIs
<1>14. RulesCode(OnWire(r)) = Verdict(state, AsCommand(c))
  BY <1>10, <1>11, <1>12, <1>13, RulesCodeIs
<1> QED
  BY <1>3, <1>4, <1>9, <1>14

\* A new game that the server lets through.
LEMMA PassedNewGame ==
    ASSUME NEW r \in AnyRequest, RequestOK(r), r.action = "newGame"
    PROVE  RulesCode(OnWire(r)) = "ok" /\ OnWire(r).action = "newGame" /\ OnWire(r).seed = {seed}
<1>1. r.version = Version /\ r.gameId # "" /\ r.seed # {}
  BY DEF RequestOK
<1>2. /\ OnWire(r).version = Version /\ OnWire(r).action = "newGame" /\ OnWire(r).gameId # ""
      /\ OnWire(r).seed = {seed}
  BY <1>1, Parts
<1>3. RulesOK(OnWire(r))
  BY <1>2 DEF RulesOK
<1> QED
  BY <1>2, <1>3, RulesCodeIs

\* The verdict on a well-formed command in a game of the rules names no fault
\* of its form.
LEMMA VerdictIsOfTheGame ==
    ASSUME Inductive, NEW c \in Wired, CommandOK(c)
    PROVE  Verdict(state, AsCommand(c)) \in
              {"ok", "game_finished", "stale_turn", "not_your_turn", "occupied", "illegal_move",
               "pass_not_allowed"}
<1>1. StateValid(state)
  BY DEF Inductive, ReplyIsValid
<1>2. WellFormed(AsCommand(c))
  BY CommandsAgree
<1>3. AsCommand(c).type = "place" => AsCommand(c).cell \in Cell
  BY CommandsAgree
<1> QED
  BY <1>1, <1>2, <1>3 DEF Verdict, PlaceVerdict, PassVerdict

\* What the server turns away, the rules turn away too or find superfluous.
LEMMA TurnedAway ==
    ASSUME Inductive, NEW r \in AnyRequest, RulesCode(OnWire(r)) = "ok", ~Superfluous(r)
    PROVE  RequestOK(r)
<1>1. StateValid(state)
  BY DEF Inductive, ReplyIsValid
<1>2. RulesOK(OnWire(r))
  BY RulesCodeIs
<1>3. CASE r.action = "newGame"
  BY <1>2, <1>3, Parts DEF RulesOK, RequestOK, Superfluous
<1>4. CASE r.action # "newGame"
  <2>1. /\ r.version = Version /\ r.action = "applyCommand" /\ r.command # {}
        /\ OnWire(r).state # {} /\ \A s \in OnWire(r).state : RulesStateValid(s)
        /\ \A c \in r.command : c.commandId # "" /\ (c.type = "place" => c.row # {} /\ c.col # {})
    BY <1>2, <1>4, Parts DEF RulesOK
  <2>2. r.gameId = "" /\ r.seed = {}
    BY <2>1 DEF Superfluous
  <2>3. PICK c \in Wired : r.command = {c}
    BY <2>1, Parts
  <2>4. r.state # {}
    BY <2>1, Parts
  <2>5. PICK s \in {Held(state)} \cup Spoiled(Held(state)) : r.state = {s}
    BY <2>4, Parts
  <2>6. RulesStateValid(Marshal(s))
    <3>1. Marshal(s) \in OnWire(r).state
      BY <2>5, Parts
    <3> QED
      BY <2>1, <3>1
  <2>7. s = Held(state)
    BY <1>1, <2>5, <2>6, SpoiledFails
  <2>8. StateCode(s) = "ok"
    BY <1>1, <2>7, HeldPasses, StateCodeIs
  <2>9. {StateCode(x) : x \in r.state} = {"ok"}
    BY <2>5, <2>8
  <2>10. Deref(OnWire(r).state).game = state /\ Deref(OnWire(r).command) = c
    <3>1. OnWire(r).state = {Marshal(Held(state))} /\ OnWire(r).command = {c}
      BY <2>3, <2>5, <2>7, Parts
    <3>2. Marshal(Held(state)) = GoState(state, "list")
      BY <1>1, HeldPasses
    <3>3. GoState(state, "list").game = state
      BY DEF GoState
    <3>4. Deref(OnWire(r).state) = GoState(state, "list") /\ Deref(OnWire(r).command) = c
      BY <3>1, <3>2, DerefIs
    <3> QED
      BY <3>3, <3>4
  <2>11. Verdict(state, AsCommand(c)) = "ok"
    BY <1>4, <2>10, Parts, RulesCodeIs
  <2>12. /\ WellFormed(AsCommand(c))
         /\ AsCommand(c).type = "place" => AsCommand(c).cell \in Cell
    BY <2>11 DEF Verdict, PlaceVerdict
  <2>13. CommandOK(c)
    <3>1. c.player \in Side /\ c.type \in {"place", "pass"} /\ c.expectedTurn >= 0
      BY <2>12, CommandsAgree DEF WellFormed
    <3>2. ~(c.expectedTurn < 0)
      <4>1. c.expectedTurn \in Int
        BY DEF Wired
      <4> QED
        BY <3>1, <4>1
    <3>3. c.type = "pass" => c.row = {} /\ c.col = {}
      BY <2>3 DEF Superfluous
    <3>4. c.commandId # "" /\ (c.type = "place" => c.row # {} /\ c.col # {})
      BY <2>1, <2>3
    <3>5. c.type = "place" => OnBoard(c.row, c.col)
      BY <2>12, <3>4, CommandsAgree
    <3> QED
      BY <3>1, <3>2, <3>3, <3>4, <3>5 DEF CommandOK
  <2>14. CommandCode(Deref(r.command)) = "ok"
    BY <2>3, <2>13, DerefIs, CommandCodeIs
  <2> QED
    BY <2>1, <2>2, <2>4, <2>9, <2>14 DEF RequestOK
<1> QED
  BY <1>3, <1>4

\* The two validators agree in every game of the rules.
LEMMA Agreed ==
    ASSUME Inductive
    PROVE  ValidatorsAgree
<1>1. SUFFICES ASSUME NEW r \in Request(state)
               PROVE  /\ RequestCode(r) = "ok" => RulesCode(OnWire(r)) \notin Malformed
                      /\ RequestCode(r) # "ok" /\ RulesCode(OnWire(r)) = "ok" => Superfluous(r)
  BY DEF ValidatorsAgree, OnWire
<1>2. r \in AnyRequest
  BY Requested
<1>3. RequestCode(r) = "ok" <=> RequestOK(r)
  BY <1>2, Parts, RequestCodeIs
<1>4. ASSUME RequestOK(r) PROVE RulesCode(OnWire(r)) \notin Malformed
  <2>1. CASE r.action = "newGame"
    BY <1>2, <1>4, <2>1, PassedNewGame DEF Malformed
  <2>2. CASE r.action # "newGame"
    <3>1. PICK c \in Wired : CommandOK(c) /\ RulesCode(OnWire(r)) = Verdict(state, AsCommand(c))
      BY <1>2, <1>4, <2>2, PassedCommand
    <3> QED
      BY <3>1, VerdictIsOfTheGame DEF Malformed
  <2> QED
    BY <2>1, <2>2
<1> QED
  BY <1>2, <1>3, <1>4, TurnedAway

-----------------------------------------------------------------------------
\* Answers.

Accepting(g, events) ==
    [version |-> Version, ok |-> TRUE, state |-> {GoState(g, "list")}, event |-> events,
     error |-> {}]

Rejecting(g, code) ==
    [version |-> Version, ok |-> FALSE, event |-> {}, error |-> {code},
     state |-> {GoState(g, "list")}]

\* The answer to a command that was let through: the state of the game with
\* the reason to reject it, or the state after a move with the event of it.
LEMMA CommandAnswer ==
    ASSUME Inductive, NEW r \in AnyRequest, RequestOK(r), r.action # "newGame",
           NEW c \in Wired, r.command = {c}
    PROVE  LET cmd == AsCommand(c)
           IN  /\ CommandOK(c)
               /\ RulesAnswer(OnWire(r)) =
                     IF Verdict(state, cmd) = "ok"
                     THEN Accepting(ApplyPlace(state, cmd.cell), {Placed(state, c.commandId, cmd.cell)})
                     ELSE Rejecting(state, Verdict(state, cmd))
<1> DEFINE cmd == AsCommand(c)
           w   == OnWire(r)
<1>1. PICK d \in Wired : /\ r.command = {d} /\ CommandOK(d)
                         /\ w.state = {GoState(state, "list")}
                         /\ RulesCode(w) = Verdict(state, AsCommand(d))
  BY PassedCommand
<1>2. c = d
  BY <1>1
<1>3. CommandOK(c) /\ w.state = {GoState(state, "list")} /\ RulesCode(w) = Verdict(state, cmd)
  BY <1>1, <1>2
<1>4. w.action # "newGame" /\ w.command = {c}
  BY Parts
<1>5. Deref(w.state).game = state /\ Deref(w.command) = c
  <2>1. GoState(state, "list").game = state
    BY DEF GoState
  <2>2. Deref(w.state) = GoState(state, "list") /\ Deref(w.command) = c
    BY <1>3, <1>4, DerefIs
  <2> QED
    BY <2>1, <2>2
<1>6. cmd.type = c.type
  BY CommandsAgree
<1>7. Verdict(state, cmd) \in {"ok", "game_finished", "stale_turn", "not_your_turn", "occupied",
                               "illegal_move", "pass_not_allowed"}
  BY <1>3, VerdictIsOfTheGame
<1> HIDE DEF cmd, w
<1>8. CASE Verdict(state, cmd) = "ok"
  <2>1. cmd.type = "place"
    BY <1>8, AcceptedIsPlace
  <2>2. Evaluate(state, cmd) = ApplyPlace(state, cmd.cell)
    BY <1>8, <2>1 DEF Evaluate
  <2>3. RulesAnswer(w) =
           [version |-> Version, ok |-> TRUE, state |-> {GoState(Evaluate(state, cmd), "list")},
            event |-> {Placed(state, c.commandId, cmd.cell)}, error |-> {}]
    BY <1>3, <1>4, <1>5, <1>6, <1>8, <2>1 DEF RulesAnswer, cmd
  <2> QED
    BY <1>3, <1>8, <2>2, <2>3 DEF Accepting, cmd, w
<1>9. CASE Verdict(state, cmd) # "ok"
  <2>1. RulesAnswer(w) = [version |-> Version, ok |-> FALSE, event |-> {},
                          error |-> {Verdict(state, cmd)}, state |-> w.state]
    BY <1>3, <1>7, <1>9 DEF RulesAnswer
  <2> QED
    BY <1>3, <1>9, <2>1 DEF Rejecting, cmd, w
<1> QED
  BY <1>8, <1>9

\* The turn after a turn is not the first.
LEMMA TurnAfter ==
    ASSUME NEW n \in Nat
    PROVE  ~(n + 1 < 1)
OBVIOUS

\* The event of a move passes the check of the server: the pieces it lists are
\* on the board and its turn is not the first.
LEMMA PlacedPasses ==
    ASSUME Inductive, NEW p \in Cell, NEW name, name # ""
    PROVE  EventCode(Placed(state, name, p)) = "ok"
<1> DEFINE e == Placed(state, name, p)
<1>1. state.turnNumber \in Nat /\ state.currentPlayer \in Side
  BY DEF Inductive, TypeOK, State
<1>2. {c.cell : c \in Changes(state.board, p, state.nextColor)} \subseteq Cell
  <2>1. ASSUME NEW c \in Changes(state.board, p, state.nextColor)
        PROVE  c.cell \in Cell
    BY ChangeOf DEF Pieces
  <2> QED
    BY <2>1
<1>3. OnBoard({p[1]}, {p[2]})
  <2>1. p[1] \in 0..N-1 /\ p[2] \in 0..N-1
    BY DEF Cell
  <2> QED
    BY <2>1 DEF OnBoard, Cell
<1>4. /\ e.commandId = name /\ e.type = "placed" /\ e.player = state.currentPlayer
      /\ e.turnNumber = state.turnNumber + 1 /\ e.row = {p[1]} /\ e.col = {p[2]}
      /\ e.placedColor = {state.nextColor} /\ e.changes = Changes(state.board, p, state.nextColor)
  BY DEF Placed
<1> HIDE DEF e
<1>5. ~(e.turnNumber < 1)
  BY <1>1, <1>4, TurnAfter
<1>6. EventOK(e)
  BY <1>1, <1>2, <1>3, <1>4, <1>5 DEF EventOK
<1> QED
  BY <1>6, EventCodeIs DEF e

\* An answer with a valid state passes if its events or its code do.
LEMMA AnswersPass ==
    ASSUME NEW g, StateValid(g)
    PROVE  /\ \A events : (\A e \in events : EventCode(e) = "ok") => ResponseOK(Accepting(g, events))
           /\ \A code \in ErrorCode : ResponseOK(Rejecting(g, code))
<1> DEFINE s == GoState(g, "list")
<1>1. StateCode(s) = "ok"
  BY HeldPasses, StateCodeIs
<1> HIDE DEF s
<1>2. ASSUME NEW events, \A e \in events : EventCode(e) = "ok"
      PROVE  ResponseOK(Accepting(g, events))
  <2> DEFINE a == Accepting(g, events)
  <2>1. a.version = Version /\ a.ok = TRUE /\ a.state = {s} /\ a.event = events /\ a.error = {}
    BY DEF Accepting, s
  <2> HIDE DEF a
  <2>2. ResponseOK(a)
    BY <1>1, <1>2, <2>1 DEF ResponseOK
  <2> QED
    BY <2>2 DEF a
<1>3. ASSUME NEW code \in ErrorCode
      PROVE  ResponseOK(Rejecting(g, code))
  <2> DEFINE a == Rejecting(g, code)
  <2>1. a.version = Version /\ a.ok = FALSE /\ a.state = {s} /\ a.event = {} /\ a.error = {code}
    BY DEF Rejecting, s
  <2> HIDE DEF a
  <2>2. ResponseOK(a)
    BY <1>1, <1>3, <2>1 DEF ResponseOK
  <2> QED
    BY <2>2 DEF a
<1> QED
  BY <1>2, <1>3

\* Every answer to a request that was let through passes.
LEMMA AnswerPasses ==
    ASSUME Inductive, NEW r \in AnyRequest, RequestOK(r)
    PROVE  ResponseOK(RulesAnswer(OnWire(r)))
<1>1. StateValid(state) /\ state \in State /\ seed \in Seeds
  BY DEF Inductive, ReplyIsValid, TypeOK
<1>2. CASE r.action = "newGame"
  <2>1. RulesCode(OnWire(r)) = "ok" /\ OnWire(r).action = "newGame" /\ OnWire(r).seed = {seed}
    BY <1>2, PassedNewGame
  <2>2. Deref(OnWire(r).seed) = seed
    BY <2>1, DerefIs
  <2>3. RulesAnswer(OnWire(r)) = Accepting(NewGame(seed), {})
    BY <2>1, <2>2 DEF RulesAnswer, Accepting
  <2>4. StateValid(NewGame(seed))
    BY <1>1, NewGameValid
  <2> QED
    BY <2>3, <2>4, AnswersPass
<1>3. CASE r.action # "newGame"
  <2>1. PICK c \in Wired : r.command = {c}
    BY <1>3, PassedCommand
  <2> DEFINE cmd == AsCommand(c)
  <2>2. /\ CommandOK(c)
        /\ RulesAnswer(OnWire(r)) =
              IF Verdict(state, cmd) = "ok"
              THEN Accepting(ApplyPlace(state, cmd.cell), {Placed(state, c.commandId, cmd.cell)})
              ELSE Rejecting(state, Verdict(state, cmd))
    BY <1>3, <2>1, CommandAnswer
  <2>3. Verdict(state, cmd) \in {"ok", "game_finished", "stale_turn", "not_your_turn", "occupied",
                                 "illegal_move", "pass_not_allowed"}
    BY <2>2, VerdictIsOfTheGame
  <2> HIDE DEF cmd
  <2>4. CASE Verdict(state, cmd) = "ok"
    <3>1. cmd.cell \in Cell /\ state.phase = "playing"
      BY <2>4, AcceptedIsPlace
    <3>2. StateValid(ApplyPlace(state, cmd.cell))
      BY <1>1, <3>1, PlaceValid DEF StateValid
    <3>3. EventCode(Placed(state, c.commandId, cmd.cell)) = "ok"
      BY <2>2, <3>1, PlacedPasses DEF CommandOK
    <3> QED
      BY <2>2, <2>4, <3>2, <3>3, AnswersPass
  <2>5. CASE Verdict(state, cmd) # "ok"
    <3>1. Verdict(state, cmd) \in ErrorCode
      BY <2>3, <2>5 DEF ErrorCode
    <3> QED
      BY <1>1, <2>2, <2>5, <3>1, AnswersPass
  <2> QED
    BY <2>4, <2>5
<1> QED
  BY <1>2, <1>3

\* The runner gives what the rules answer, unless the process fails.
LEMMA RunnerGives ==
    ASSUME Inductive, NEW r \in AnyRequest, NEW fate
    PROVE  /\ ~RequestOK(r) => /\ Runner(r, fate).error = {}
                               /\ \A x \in Runner(r, fate).response : ~x.ok
           /\ RequestOK(r) /\ fate = "answered" =>
                 Runner(r, fate).error = {} /\ Runner(r, fate).response = {RulesAnswer(OnWire(r))}
           /\ RequestOK(r) /\ fate # "answered" => Runner(r, fate).response = {}
<1>1. RequestCode(r) = "ok" <=> RequestOK(r)
  BY Parts, RequestCodeIs
<1>2. OnWire(r) = [r EXCEPT !.state = {Marshal(s) : s \in @}]
  BY DEF OnWire
<1>3. CASE ~RequestOK(r)
  BY <1>1, <1>3 DEF Runner
<1>4. CASE RequestOK(r) /\ fate # "answered"
  BY <1>1, <1>4 DEF Runner
<1>5. CASE RequestOK(r) /\ fate = "answered"
  <2>1. ResponseOK(RulesAnswer(OnWire(r)))
    BY <1>5, AnswerPasses
  <2> QED
    BY <1>1, <1>2, <1>5, <2>1 DEF Runner
<1> QED
  BY <1>3, <1>4, <1>5

\* No answer is lost as one that cannot be read.
LEMMA Understood ==
    ASSUME Inductive
    PROVE  AnswersAreUnderstood
<1>1. SUFFICES ASSUME NEW r \in Request(state)
               PROVE  Runner(r, "answered").error = {}
  BY DEF AnswersAreUnderstood
<1> QED
  BY Requested, RunnerGives

-----------------------------------------------------------------------------
\* Two sequences in a row.
Follows(w, s, t) ==
    /\ Len(w) = Len(s) + Len(t)
    /\ \A i \in 1..Len(s) : w[i] = s[i]
    /\ \A i \in 1..Len(t) : w[Len(s) + i] = t[i]

\* The elements of two sequences in a row.
LEMMA Joined ==
    ASSUME NEW T, NEW s \in Seq(T), NEW t \in Seq(T)
    PROVE  s \o t \in Seq(T) /\ Follows(s \o t, s, t)
<1>1. Len(s) \in Nat /\ Len(t) \in Nat
  BY LenProperties
<1>2. /\ s \o t \in Seq(T) /\ Len(s \o t) = Len(s) + Len(t)
      /\ \A i \in 1..(Len(s) + Len(t)) :
            (s \o t)[i] = IF i <= Len(s) THEN s[i] ELSE t[i - Len(s)]
  BY ConcatProperties
<1>3. ASSUME NEW i \in 1..Len(s) PROVE (s \o t)[i] = s[i]
  <2>1. i \in 1..(Len(s) + Len(t)) /\ i <= Len(s)
    BY <1>1
  <2> QED
    BY <1>2, <2>1
<1>4. ASSUME NEW i \in 1..Len(t) PROVE (s \o t)[Len(s) + i] = t[i]
  <2>1. Len(s) + i \in 1..(Len(s) + Len(t)) /\ ~(Len(s) + i <= Len(s)) /\ (Len(s) + i) - Len(s) = i
    BY <1>1
  <2> QED
    BY <1>2, <2>1
<1> QED
  BY <1>2, <1>3, <1>4 DEF Follows

\* The lines of a record of a finished game, given those of its moves and of
\* its end.
Title   == [kind |-> "comment", word |-> "title", at |-> ""]
Started == [kind |-> "comment", word |-> "started", at |-> StartedAt]
Ended   == [kind |-> "comment", word |-> "ended", at |-> EndedAt]

\* A record of the given moves and the given end.
Written(ms, last) ==
    HeaderLines(StartedAt, EndedAt) \o <<RulesVersionLine, StartLine(GameId, seed)>> \o ms \o <<last>>

\* A sequence, of whatever.
Listed(x) == \E T : x \in Seq(T)

\* What HeaderLines and the encoder put on each line.
LEMMA WrittenLines ==
    ASSUME NEW ms, NEW T, ms \in Seq(T), NEW last
    PROVE  LET w == Written(ms, last)
           IN  /\ Listed(w) /\ DOMAIN w = 1..(Len(ms) + 6) /\ Len(ms) \in Nat
               /\ w[1] = Title /\ w[2] = Started /\ w[3] = Ended
               /\ w[4] = RulesVersionLine /\ w[5] = StartLine(GameId, seed)
               /\ \A k \in 1..Len(ms) : w[5 + k] = ms[k]
               /\ w[Len(ms) + 6] = last
<1> DEFINE V == T \cup {Title, Started, Ended, RulesVersionLine, StartLine(GameId, seed), last}
<1>1. ms \in Seq(V) /\ Len(ms) \in Nat
  BY SeqMonotonic, LenProperties
<1>2. /\ Title \in V /\ Started \in V /\ Ended \in V /\ RulesVersionLine \in V
      /\ StartLine(GameId, seed) \in V /\ last \in V
  OBVIOUS
<1> HIDE DEF V
<1>3. /\ HeaderLines(StartedAt, EndedAt) \in Seq(V) /\ Len(HeaderLines(StartedAt, EndedAt)) = 3
      /\ HeaderLines(StartedAt, EndedAt)[1] = Title
      /\ HeaderLines(StartedAt, EndedAt)[2] = Started
      /\ HeaderLines(StartedAt, EndedAt)[3] = Ended
  <2>1. HeaderLines(StartedAt, EndedAt) = (<<Title>> \o <<Started>>) \o <<Ended>>
    <3>1. StartedAt # "" /\ EndedAt # ""
      BY DEF StartedAt, EndedAt
    <3> QED
      BY <3>1 DEF HeaderLines, Title, Started, Ended
  <2> DEFINE a == <<Title>>
             b == <<Started>>
             c == <<Ended>>
  <2>2. /\ a \in Seq(V) /\ b \in Seq(V) /\ c \in Seq(V) /\ Len(a) = 1 /\ Len(b) = 1 /\ Len(c) = 1
        /\ a[1] = Title /\ b[1] = Started /\ c[1] = Ended
    BY <1>2
  <2> HIDE DEF a, b, c
  <2> DEFINE ab == a \o b
  <2>3. ab \in Seq(V) /\ Follows(ab, a, b)
    BY <2>2, Joined
  <2> HIDE DEF ab
  <2>4. Len(ab) = 2 /\ ab[1] = Title /\ ab[2] = Started
    BY <2>2, <2>3 DEF Follows
  <2> DEFINE abc == ab \o c
  <2>5. abc \in Seq(V) /\ Follows(abc, ab, c)
    BY <2>2, <2>3, Joined
  <2> HIDE DEF abc
  <2>6. Len(abc) = 3 /\ abc[1] = Title /\ abc[2] = Started /\ abc[3] = Ended
    BY <2>2, <2>4, <2>5 DEF Follows
  <2>7. HeaderLines(StartedAt, EndedAt) = abc
    BY <2>1 DEF abc, ab, a, b, c
  <2> QED
    BY <2>5, <2>6, <2>7
<1> DEFINE h == HeaderLines(StartedAt, EndedAt)
           v == <<RulesVersionLine, StartLine(GameId, seed)>>
           e == <<last>>
           hv == h \o v
           hvm == hv \o ms
           w == hvm \o e
<1>4. /\ v \in Seq(V) /\ Len(v) = 2 /\ v[1] = RulesVersionLine /\ v[2] = StartLine(GameId, seed)
      /\ e \in Seq(V) /\ Len(e) = 1 /\ e[1] = last
  BY <1>2
<1>5. Written(ms, last) = w
  BY DEF Written
<1> HIDE DEF h, v, e
<1>6. hv \in Seq(V) /\ Follows(hv, h, v)
  BY <1>3, <1>4, Joined DEF h
<1> HIDE DEF hv
<1>7. /\ Len(hv) = 5 /\ hv[1] = Title /\ hv[2] = Started /\ hv[3] = Ended
      /\ hv[4] = RulesVersionLine /\ hv[5] = StartLine(GameId, seed)
  BY <1>3, <1>4, <1>6 DEF Follows, h
<1>8. hvm \in Seq(V) /\ Follows(hvm, hv, ms)
  BY <1>1, <1>6, Joined
<1> HIDE DEF hvm
<1>9. /\ Len(hvm) = 5 + Len(ms)
      /\ \A i \in 1..5 : hvm[i] = hv[i]
      /\ \A k \in 1..Len(ms) : hvm[5 + k] = ms[k]
  BY <1>7, <1>8 DEF Follows
<1>10. w \in Seq(V) /\ Follows(w, hvm, e)
  BY <1>4, <1>8, Joined
<1> HIDE DEF w
<1>11. /\ Len(w) = 5 + Len(ms) + 1
       /\ \A i \in 1..(5 + Len(ms)) : w[i] = hvm[i]
       /\ w[5 + Len(ms) + 1] = last
  BY <1>1, <1>4, <1>9, <1>10 DEF Follows
<1>12. DOMAIN w = 1..(Len(ms) + 6) /\ w[Len(ms) + 6] = last
  BY <1>1, <1>10, <1>11, LenProperties
<1>13. \A i \in 1..5 : w[i] = hv[i]
  BY <1>1, <1>9, <1>11
<1>14. \A k \in 1..Len(ms) : w[5 + k] = ms[k]
  BY <1>1, <1>9, <1>11
<1> QED
  BY <1>1, <1>5, <1>7, <1>10, <1>12, <1>13, <1>14 DEF Listed

-----------------------------------------------------------------------------
\* The course of a game: the states it goes through and the cells of its
\* moves, as the room saw them; and the record of it, line by line.

Course(hist, path, n) ==
    /\ n \in Nat /\ hist \in [0..n -> State] /\ path \in [1..n -> Cell]
    /\ hist[0] = NewGame(seed) /\ seed \in Seeds
    /\ \A k \in 1..n : /\ PlaceVerdict(hist[k-1], path[k]) = "ok"
                       /\ hist[k] = ApplyPlace(hist[k-1], path[k])

\* The line of a move on cell p in state st.
LineOf(st, p) == PlaceLine(st.currentPlayer, p, st.nextColor, Cardinality(Changes(st.board, p, st.nextColor)))

\* The lines of the moves of a course, and its whole record.
CourseLines(hist, path, n) == [k \in 1..n |-> LineOf(hist[k-1], path[k])]

CourseSource(hist, path, n) ==
    Written(CourseLines(hist, path, n), EndLine(hist[n].winner, n, hist[n].board))

\* The kind of the i-th line of a record of n moves.
KindAt(n, i) ==
    IF i <= 3 THEN "comment" ELSE IF i = 4 THEN "version" ELSE IF i = 5 THEN "start"
    ELSE IF i <= n + 5 THEN "place" ELSE "end"

\* A record line by line.
Laid(w, hist, path, n) ==
    /\ DOMAIN w = 1..(n + 6)
    /\ w[1] = Title /\ w[2] = Started /\ w[3] = Ended
    /\ w[4] = RulesVersionLine /\ w[5] = StartLine(GameId, seed)
    /\ \A k \in 1..n : w[5 + k] = LineOf(hist[k-1], path[k])
    /\ w[n + 6] = EndLine(hist[n].winner, n, hist[n].board)

\* The encoder writes the record of a course line by line as Laid says.
LEMMA SourceIsLaid ==
    ASSUME NEW hist, NEW path, NEW n, Course(hist, path, n)
    PROVE  Laid(CourseSource(hist, path, n), hist, path, n) /\ Listed(CourseSource(hist, path, n))
<1> DEFINE ms == CourseLines(hist, path, n)
           T  == {LineOf(hist[k-1], path[k]) : k \in 1..n}
           last == EndLine(hist[n].winner, n, hist[n].board)
<1>1. n \in Nat
  BY DEF Course
<1>2. /\ ms \in Seq(T) /\ Len(ms) = n
      /\ \A k \in 1..n : ms[k] = LineOf(hist[k-1], path[k])
  BY <1>1 DEF CourseLines
<1> HIDE DEF ms, T, last
<1>3. LET w == Written(ms, last)
      IN  /\ Listed(w) /\ DOMAIN w = 1..(Len(ms) + 6) /\ Len(ms) \in Nat
          /\ w[1] = Title /\ w[2] = Started /\ w[3] = Ended
          /\ w[4] = RulesVersionLine /\ w[5] = StartLine(GameId, seed)
          /\ \A k \in 1..Len(ms) : w[5 + k] = ms[k]
          /\ w[Len(ms) + 6] = last
  BY <1>2, WrittenLines
<1>4. CourseSource(hist, path, n) = Written(ms, last)
  BY DEF CourseSource, ms, last
<1> QED
  BY <1>2, <1>3, <1>4 DEF Laid, last

\* The kinds of the lines.
LEMMA LaidKinds ==
    ASSUME NEW hist, NEW path, NEW n \in Nat, NEW w, Laid(w, hist, path, n),
           NEW i \in 1..(n + 6)
    PROVE  w[i].kind = KindAt(n, i)
<1>1. w[1].kind = "comment" /\ w[2].kind = "comment" /\ w[3].kind = "comment"
  <2>1. Title.kind = "comment" /\ Started.kind = "comment" /\ Ended.kind = "comment"
    BY DEF Title, Started, Ended
  <2> QED
    BY <2>1 DEF Laid
<1>2. w[4].kind = "version" /\ w[5].kind = "start"
  BY DEF Laid, RulesVersionLine, StartLine
<1>3. w[n + 6].kind = "end"
  BY DEF Laid, EndLine
<1>4. ASSUME i > 5, i < n + 6
      PROVE  w[i].kind = "place"
  <2>1. i - 5 \in 1..n /\ i = 5 + (i - 5)
    BY <1>4
  <2>2. w[i] = LineOf(hist[i - 5 - 1], path[i - 5])
    BY <2>1 DEF Laid
  <2> QED
    BY <2>2 DEF LineOf, PlaceLine
<1>5. i = 1 \/ i = 2 \/ i = 3 \/ i = 4 \/ i = 5 \/ (i > 5 /\ i < n + 6) \/ (i = n + 6 /\ i > 5)
  OBVIOUS
<1> QED
  BY <1>1, <1>2, <1>3, <1>4, <1>5 DEF KindAt

\* Where the lines of each kind are.
LEMMA LaidLines ==
    ASSUME NEW hist, NEW path, NEW n \in Nat, NEW w, Laid(w, hist, path, n)
    PROVE  /\ LinesOf(w, {"comment"}) = 1..3 /\ LinesOf(w, {"version"}) = {4}
           /\ LinesOf(w, {"start"}) = {5} /\ LinesOf(w, {"place", "pass"}) = 6..(n + 5)
           /\ LinesOf(w, {"end"}) = {n + 6} /\ LinesOf(w, {"junk"}) = {}
<1>1. DOMAIN w = 1..(n + 6)
  BY DEF Laid
<1>2. ASSUME NEW i \in 1..(n + 6)
      PROVE  /\ w[i].kind = "comment" <=> i \in 1..3
             /\ w[i].kind = "version" <=> i = 4
             /\ w[i].kind = "start" <=> i = 5
             /\ w[i].kind \in {"place", "pass"} <=> i \in 6..(n + 5)
             /\ w[i].kind = "end" <=> i = n + 6
             /\ w[i].kind # "junk"
  BY LaidKinds DEF KindAt
<1>3. 1..3 \subseteq 1..(n + 6) /\ 4 \in 1..(n + 6) /\ 5 \in 1..(n + 6)
      /\ 6..(n + 5) \subseteq 1..(n + 6) /\ n + 6 \in 1..(n + 6)
  OBVIOUS
<1> QED
  BY <1>1, <1>2, <1>3 DEF LinesOf

\* The first of a set of numbers, and the numbers of a set in order.
LEMMA LeastIs ==
    ASSUME NEW S \in SUBSET Nat, S # {}
    PROVE  Least(S) \in S /\ \A j \in S : Least(S) <= j
<1>1. \E i \in S : \A j \in S : i <= j
  BY NatMin
<1> QED
  BY <1>1 DEF Least

\* The first of one.
LEMMA LeastOfOne ==
    ASSUME NEW x \in Nat
    PROVE  Least({x}) = x
<1>1. {x} \in SUBSET Nat /\ {x} # {}
  OBVIOUS
<1> QED
  BY <1>1, LeastIs

\* The moves of a record, numbered.
LEMMA LaidMoves ==
    ASSUME NEW hist, NEW path, NEW n \in Nat, NEW w, Laid(w, hist, path, n)
    PROVE  MoveLines(w) = [k \in 1..n |-> 5 + k]
<1> DEFINE at == LinesOf(w, {"place", "pass"})
           nth(k) == CHOOSE i \in at : Cardinality({j \in at : j <= i}) = k
<1>1. at = 6..(n + 5)
  BY LaidLines
<1>2. Cardinality(at) = n
  BY <1>1, FS_Interval
<1>3. ASSUME NEW i \in at
      PROVE  Cardinality({j \in at : j <= i}) = i - 5
  <2> DEFINE below == {j \in at : j <= i}
  <2>1. below = 6..i /\ i \in Int /\ i >= 6
    BY <1>1, <1>3
  <2> HIDE DEF below
  <2>2. Cardinality(below) = i - 5
    BY <2>1, FS_Interval
  <2> QED
    BY <2>2 DEF below
<1>4. MoveLines(w) = [k \in 1..n |-> nth(k)]
  BY <1>2 DEF MoveLines
<1>5. ASSUME NEW k \in 1..n
      PROVE  nth(k) = 5 + k
  <2> HIDE DEF at
  <2>1. 5 + k \in at /\ \A i \in at : i \in Int
    BY <1>1
  <2>2. \A i \in at : Cardinality({j \in at : j <= i}) = k <=> i = 5 + k
    BY <1>3, <2>1
  <2> QED
    BY <2>1, <2>2
<1> HIDE DEF nth
<1> QED
  BY <1>4, <1>5

\* The rest of what is read from a record.
LEMMA LaidRead ==
    ASSUME NEW hist, NEW path, NEW n \in Nat, NEW w, Laid(w, hist, path, n)
    PROVE  /\ FirstLine(w, "version") = 4 /\ FirstLine(w, "start") = 5
           /\ FirstLine(w, "end") = n + 6 /\ FirstLine(w, "junk") = 0
           /\ TimeOf(w, "started") = StartedAt /\ TimeOf(w, "ended") = EndedAt
<1>1. /\ FirstLine(w, "version") = 4 /\ FirstLine(w, "start") = 5
      /\ FirstLine(w, "end") = n + 6 /\ FirstLine(w, "junk") = 0
  <2>1. Least({4}) = 4 /\ Least({5}) = 5 /\ Least({n + 6}) = n + 6
    BY LeastOfOne
  <2>2. LinesOf(w, {"version"}) = {4}
    BY LaidLines
  <2>3. LinesOf(w, {"start"}) = {5}
    BY LaidLines
  <2>4. LinesOf(w, {"end"}) = {n + 6}
    BY LaidLines
  <2>5. LinesOf(w, {"junk"}) = {}
    BY LaidLines
  <2>6. \A x : {x} # {}
    OBVIOUS
  <2> QED
    BY <2>1, <2>2, <2>3, <2>4, <2>5, <2>6 DEF FirstLine
<1>2. /\ w[1].word = "title" /\ w[2].word = "started" /\ w[3].word = "ended"
      /\ w[2].at = StartedAt /\ w[3].at = EndedAt
  <2>1. /\ Title.word = "title" /\ Started.word = "started" /\ Ended.word = "ended"
        /\ Started.at = StartedAt /\ Ended.at = EndedAt
    BY DEF Title, Started, Ended
  <2> QED
    BY <2>1 DEF Laid
<1>3. LinesOf(w, {"comment"}) = {1, 2, 3}
  BY LaidLines
<1>4. /\ {i \in LinesOf(w, {"comment"}) : w[i].word = "started"} = {2}
      /\ {i \in LinesOf(w, {"comment"}) : w[i].word = "ended"} = {3}
  BY <1>2, <1>3
<1>5. Least({2}) = 2 /\ Least({3}) = 3
  BY LeastOfOne
<1> QED
  BY <1>1, <1>2, <1>4, <1>5 DEF TimeOf

-----------------------------------------------------------------------------
\* Reading a record: which check of it says what.

\* The parts of a blame.
LEMMA BlameIs ==
    /\ \A code, line : Blame(code, line).code = code /\ Blame(code, line).line = line
    /\ Accepted.code = "ok" /\ Accepted.line = 0
BY DEF Blame, Accepted

\* The checks of Scan, in their order.
LEMMA ScanCases ==
    ASSUME NEW source
    PROVE  LET junk == FirstLine(source, "junk")
               version == FirstLine(source, "version")
               count(kind) == Cardinality(LinesOf(source, {kind}))
           IN  \/ junk # 0 /\ ScanBlame(source) = Blame("record_syntax_error", junk)
               \/ count("start") # 1 /\ ScanBlame(source) = Blame("record_missing_header", 0)
               \/ count("end") > 1 /\ ScanBlame(source) = Blame("record_syntax_error", 0)
               \/ count("version") # 1 /\ ScanBlame(source) = Blame("record_missing_header", version)
               \/ /\ junk = 0 /\ count("start") = 1 /\ ~(count("end") > 1) /\ count("version") = 1
                  /\ ScanBlame(source) =
                        IF source[version].rules # RulesVersion
                        THEN Blame("record_unsupported_rules_version", version) ELSE Accepted
<1> DEFINE junk == FirstLine(source, "junk")
           version == FirstLine(source, "version")
           a1 == junk # 0
           a2 == Cardinality(LinesOf(source, {"start"})) # 1
           a3 == Cardinality(LinesOf(source, {"end"})) > 1
           a4 == Cardinality(LinesOf(source, {"version"})) # 1
           b1 == Blame("record_syntax_error", junk)
           b2 == Blame("record_missing_header", 0)
           b3 == Blame("record_syntax_error", 0)
           b4 == Blame("record_missing_header", version)
           else == IF source[version].rules # RulesVersion
                   THEN Blame("record_unsupported_rules_version", version) ELSE Accepted
           checks == <<<<a1, b1>>, <<a2, b2>>, <<a3, b3>>, <<a4, b4>>>>
<1>1. ScanBlame(source) = FirstOf(checks, else)
  BY DEF ScanBlame
<1> HIDE DEF a1, a2, a3, a4, b1, b2, b3, b4, else
<1>2. /\ DOMAIN checks = 1..4
      /\ \A i \in 1..4 : i = 1 \/ i = 2 \/ i = 3 \/ i = 4
  OBVIOUS
<1>3. /\ checks[1] = <<a1, b1>> /\ checks[2] = <<a2, b2>> /\ checks[3] = <<a3, b3>>
      /\ checks[4] = <<a4, b4>>
  OBVIOUS
<1> HIDE DEF checks
<1>4. \/ (\A i \in 1..4 : ~checks[i][1]) /\ FirstOf(checks, else) = else
      \/ \E i \in 1..4 : checks[i][1] /\ FirstOf(checks, else) = checks[i][2]
  <2>1. DOMAIN checks = 1..4 /\ 4 \in Nat
    BY <1>2
  <2>2. \/ (\A i \in 1..4 : ~checks[i][1]) /\ FirstOf(checks, else) = else
        \/ \E i \in 1..4 : /\ checks[i][1] /\ FirstOf(checks, else) = checks[i][2]
                          /\ \A j \in 1..4 : j < i => ~checks[j][1]
    BY <2>1, FirstFailing, Zenon
  <2> QED
    BY <2>2
<1>5. \/ ~a1 /\ ~a2 /\ ~a3 /\ ~a4 /\ FirstOf(checks, else) = else
      \/ a1 /\ FirstOf(checks, else) = b1
      \/ a2 /\ FirstOf(checks, else) = b2
      \/ a3 /\ FirstOf(checks, else) = b3
      \/ a4 /\ FirstOf(checks, else) = b4
  <2>1. CASE \A i \in 1..4 : ~checks[i][1]
    <3>1. 1 \in 1..4 /\ 2 \in 1..4 /\ 3 \in 1..4 /\ 4 \in 1..4
      OBVIOUS
    <3> QED
      BY <1>3, <1>4, <2>1, <3>1
  <2>2. CASE \E i \in 1..4 : checks[i][1] /\ FirstOf(checks, else) = checks[i][2]
    BY <1>2, <1>3, <2>2
  <2> QED
    BY <1>4, <2>1, <2>2
<1> QED
  BY <1>1, <1>5 DEF a1, a2, a3, a4, b1, b2, b3, b4, else

\* The checks of what the execution printed.
LEMMA ScriptCases ==
    ASSUME NEW source
    PROVE  LET start == FirstLine(source, "start")
           IN  \/ source[start].seed >= LcgM /\ ScriptBlame(source) = Blame("record_syntax_error", 0)
               \/ /\ ~ValidGameId(source[start].gameId)
                  /\ ScriptBlame(source) = Blame("record_missing_header", start)
               \/ /\ ~(source[start].seed >= LcgM) /\ ValidGameId(source[start].gameId)
                  /\ ScriptBlame(source) = Accepted
<1> DEFINE start == FirstLine(source, "start")
           a1 == source[start].seed >= LcgM
           a2 == ~ValidGameId(source[start].gameId)
           b1 == Blame("record_syntax_error", 0)
           b2 == Blame("record_missing_header", start)
           checks == <<<<a1, b1>>, <<a2, b2>>>>
<1>1. ScriptBlame(source) = FirstOf(checks, Accepted)
  BY DEF ScriptBlame
<1> HIDE DEF a1, a2, b1, b2
<1>2. /\ DOMAIN checks = 1..2
      /\ \A i \in 1..2 : i = 1 \/ i = 2
  OBVIOUS
<1>3. checks[1] = <<a1, b1>> /\ checks[2] = <<a2, b2>>
  OBVIOUS
<1> HIDE DEF checks
<1>4. \/ (\A i \in 1..2 : ~checks[i][1]) /\ FirstOf(checks, Accepted) = Accepted
      \/ \E i \in 1..2 : checks[i][1] /\ FirstOf(checks, Accepted) = checks[i][2]
  BY <1>2, FirstFailing
<1>5. \/ ~a1 /\ ~a2 /\ FirstOf(checks, Accepted) = Accepted
      \/ a1 /\ FirstOf(checks, Accepted) = b1
      \/ a2 /\ FirstOf(checks, Accepted) = b2
  <2>1. CASE \A i \in 1..2 : ~checks[i][1]
    <3>1. 1 \in 1..2 /\ 2 \in 1..2
      OBVIOUS
    <3> QED
      BY <1>3, <1>4, <2>1, <3>1
  <2>2. CASE \E i \in 1..2 : checks[i][1] /\ FirstOf(checks, Accepted) = checks[i][2]
    BY <1>2, <1>3, <2>2
  <2> QED
    BY <1>4, <2>1, <2>2
<1> QED
  BY <1>1, <1>5 DEF a1, a2, b1, b2

\* The record of a course passes these checks.
LEMMA LaidDecodes ==
    ASSUME NEW hist, NEW path, NEW n \in Nat, NEW w, Laid(w, hist, path, n), seed \in Seeds
    PROVE  ScanBlame(w) = Accepted /\ ScriptBlame(w) = Accepted
<1>1. ScanBlame(w) = Accepted
  <2>1. Cardinality({4}) = 1 /\ Cardinality({5}) = 1 /\ Cardinality({n + 6}) = 1
    BY FS_Singleton
  <2>2. FirstLine(w, "junk") = 0 /\ FirstLine(w, "version") = 4
    BY LaidRead
  <2>3. Cardinality(LinesOf(w, {"start"})) = 1
    <3>1. LinesOf(w, {"start"}) = {5}
      BY LaidLines
    <3> QED
      BY <2>1, <3>1
  <2>4. Cardinality(LinesOf(w, {"version"})) = 1
    <3>1. LinesOf(w, {"version"}) = {4}
      BY LaidLines
    <3> QED
      BY <2>1, <3>1
  <2>5. Cardinality(LinesOf(w, {"end"})) = 1
    <3>1. LinesOf(w, {"end"}) = {n + 6}
      BY LaidLines
    <3> QED
      BY <2>1, <3>1
  <2>6. ~(Cardinality(LinesOf(w, {"end"})) > 1)
    BY <2>5
  <2>7. w[4].rules = RulesVersion
    BY DEF Laid, RulesVersionLine
  <2> QED
    BY <2>2, <2>3, <2>4, <2>6, <2>7, ScanCases
<1>2. ScriptBlame(w) = Accepted
  <2>1. FirstLine(w, "start") = 5
    BY LaidRead
  <2>2. w[5].gameId = GameId /\ w[5].seed = seed
    BY DEF Laid, StartLine
  <2>3. ~(seed >= LcgM)
    BY RulesAssumption, ModulusType
  <2>4. ValidGameId(GameId)
    BY DEF ValidGameId
  <2> QED
    BY <2>1, <2>2, <2>3, <2>4, ScriptCases
<1> QED
  BY <1>1, <1>2

-----------------------------------------------------------------------------
\* The frames of a record, move by move.

\* The frames x after the k-th move, if those before it were accepted.
Grown(x, k, line) ==
    Deref({IF Len(frames) < k THEN frames ELSE Extended(frames, line) : frames \in {x}})

\* A frame set by a recursion is what it says.
LEMMA GrownIs ==
    ASSUME NEW x, NEW k, NEW line
    PROVE  Grown(x, k, line) = IF Len(x) < k THEN x ELSE Extended(x, line)
<1> DEFINE e == IF Len(x) < k THEN x ELSE Extended(x, line)
<1>1. {IF Len(frames) < k THEN frames ELSE Extended(frames, line) : frames \in {x}} = {e}
  OBVIOUS
<1> HIDE DEF e
<1>2. Grown(x, k, line) = Deref({e})
  BY <1>1 DEF Grown
<1>3. Deref({e}) = e
  BY DerefIs
<1> QED
  BY <1>2, <1>3 DEF e

\* The function that Frames defines by recursion.
Framed(f, first, source, lines, K) ==
    f = [k \in 0..K |-> IF k = 0 THEN first ELSE Grown(f[k-1], k, source[lines[k]])]

\* The function that Frames defines by recursion exists.
LEMMA FramesExist ==
    ASSUME NEW first, NEW source, NEW lines, NEW K \in Nat
    PROVE  \E f : Framed(f, first, source, lines, K)
<1> DEFINE S == {k \in Nat : ~ \E f : Framed(f, first, source, lines, k)}
<1>1. SUFFICES ASSUME S # {} PROVE FALSE
  OBVIOUS
<1>2. PICK m \in S : \A k \in S : m <= k
  BY <1>1, NatMin
<1>3. m # 0
  <2> DEFINE g == [k \in 0..0 |-> first]
  <2>1. Framed(g, first, source, lines, 0)
    BY DEF Framed
  <2> HIDE DEF g
  <2> QED
    BY <2>1
<1>4. m - 1 \in Nat /\ m - 1 \notin S
  BY <1>2, <1>3
<1>5. PICK h : Framed(h, first, source, lines, m - 1)
  BY <1>4
<1> DEFINE g == [k \in 0..m |-> IF k = m THEN Grown(h[m-1], m, source[lines[m]]) ELSE h[k]]
<1>6. \A k \in 0..m-1 : g[k] = h[k]
  BY <1>4
<1>7. ASSUME NEW k \in 0..m
      PROVE  g[k] = IF k = 0 THEN first ELSE Grown(g[k-1], k, source[lines[k]])
  <2>1. CASE k = m
    <3>1. g[k] = Grown(h[m-1], m, source[lines[m]]) /\ g[k-1] = h[m-1]
      BY <1>4, <1>6, <2>1
    <3> HIDE DEF g
    <3> QED
      BY <1>3, <2>1, <3>1
  <2>2. CASE k # m
    <3>1. k \in 0..m-1 /\ g[k] = h[k] /\ (k # 0 => k - 1 \in 0..m-1 /\ g[k-1] = h[k-1])
      BY <1>4, <1>6, <2>2
    <3>2. h[k] = IF k = 0 THEN first ELSE Grown(h[k-1], k, source[lines[k]])
      BY <1>5, <3>1 DEF Framed
    <3> HIDE DEF g
    <3> QED
      BY <3>1, <3>2
  <2> QED
    BY <2>1, <2>2
<1>8. Framed(g, first, source, lines, m)
  <2>1. g = [k \in 0..m |-> g[k]]
    OBVIOUS
  <2> HIDE DEF g
  <2> QED
    BY <1>7, <2>1 DEF Framed
<1> HIDE DEF g
<1> QED
  BY <1>2, <1>8

\* What it says of the frames: they start with the new game, and each move
\* that follows an accepted one is judged.
LEMMA FramesAre ==
    ASSUME NEW source, NEW K \in Nat, Len(MoveLines(source)) = K
    PROVE  \E f :
              /\ Frames(source) = f[K]
              /\ f[0] = <<[state |-> NewGame(source[FirstLine(source, "start")].seed), event |-> {}]>>
              /\ \A k \in 1..K : f[k] = IF Len(f[k-1]) < k THEN f[k-1]
                                        ELSE Extended(f[k-1], source[MoveLines(source)[k]])
<1> DEFINE lines == MoveLines(source)
           first == <<[state |-> NewGame(source[FirstLine(source, "start")].seed), event |-> {}]>>
           f == CHOOSE g : Framed(g, first, source, lines, K)
<1>1. Frames(source) = f[K]
  BY DEF Frames, Framed, Grown
<1>2. Framed(f, first, source, lines, K)
  <2> HIDE DEF first, lines
  <2>1. \E g : Framed(g, first, source, lines, K)
    BY FramesExist
  <2> QED
    BY <2>1
<1> HIDE DEF f, first, lines
<1>3. f[0] = first
  BY <1>2 DEF Framed
<1>4. ASSUME NEW k \in 1..K
      PROVE  f[k] = IF Len(f[k-1]) < k THEN f[k-1] ELSE Extended(f[k-1], source[lines[k]])
  <2>1. k \in 0..K /\ k # 0
    OBVIOUS
  <2>2. f[k] = Grown(f[k-1], k, source[lines[k]])
    BY <1>2, <2>1 DEF Framed
  <2> QED
    BY <2>2, GrownIs
<1> QED
  BY <1>1, <1>3, <1>4 DEF first, lines

\* A sequence with one more.
LEMMA OneMore ==
    ASSUME NEW F, NEW k \in Nat
    PROVE  Append([j \in 1..k |-> F[j]], F[k + 1]) = [j \in 1..(k + 1) |-> F[j]]
<1> DEFINE T == {F[j] : j \in 1..(k + 1)}
           s == [j \in 1..k |-> F[j]]
           t == [j \in 1..(k + 1) |-> F[j]]
<1>1. s \in Seq(T) /\ Len(s) = k /\ t \in Seq(T) /\ Len(t) = k + 1 /\ F[k + 1] \in T
  OBVIOUS
<1>2. \A j \in 1..k : s[j] = F[j]
  OBVIOUS
<1>3. \A j \in 1..(k + 1) : t[j] = F[j]
  OBVIOUS
<1> HIDE DEF s, t, T
<1> DEFINE a == Append(s, F[k + 1])
<1>4. a \in Seq(T) /\ Len(a) = k + 1 /\ (\A j \in 1..k : a[j] = s[j]) /\ a[k + 1] = F[k + 1]
  BY <1>1
<1> HIDE DEF a
<1>5. \A j \in 1..Len(a) : a[j] = t[j]
  BY <1>2, <1>3, <1>4
<1>6. a = t
  BY <1>1, <1>4, <1>5, SeqEqual
<1> QED
  BY <1>6 DEF a, s, t

\* The frames of a course.
FrameOf(hist, path, j) ==
    IF j = 0 THEN [state |-> hist[0], event |-> {}]
    ELSE [state |-> hist[j], event |-> {Placed(hist[j-1], "replay", path[j])}]

\* The frames of the first k moves.
Story(hist, path, k) == [j \in 1..(k + 1) |-> FrameOf(hist, path, j - 1)]

\* The frames of a course, one by one.
LEMMA StoryIs ==
    ASSUME NEW hist, NEW path, NEW k \in Nat
    PROVE  /\ Len(Story(hist, path, k)) = k + 1
           /\ \A j \in 0..k : Story(hist, path, k)[j + 1] = FrameOf(hist, path, j)
           /\ \A j : FrameOf(hist, path, j).state = hist[j]
<1>1. Len(Story(hist, path, k)) = k + 1
  BY DEF Story
<1>2. ASSUME NEW j \in 0..k
      PROVE  Story(hist, path, k)[j + 1] = FrameOf(hist, path, j)
  <2>1. j + 1 \in 1..(k + 1) /\ (j + 1) - 1 = j
    OBVIOUS
  <2> QED
    BY <2>1 DEF Story
<1>3. \A j : FrameOf(hist, path, j).state = hist[j]
  BY DEF FrameOf
<1> QED
  BY <1>1, <1>2, <1>3

\* A move of the course adds its frame.
LEMMA StoryGrows ==
    ASSUME NEW hist, NEW path, NEW n, Course(hist, path, n), NEW k \in 1..n,
           NEW line, line.kind = "place", line.cell = path[k]
    PROVE  Extended(Story(hist, path, k - 1), line) = Story(hist, path, k)
<1> DEFINE s == Story(hist, path, k - 1)
           st == s[Len(s)].state
<1>1. k - 1 \in Nat /\ k \in Nat /\ (k - 1) + 1 = k /\ k # 0 /\ k - 1 \in 0..(k - 1)
  BY DEF Course
<1>2. st = hist[k - 1] /\ Len(s) = k
  <2>1. Len(s) = k
    BY <1>1, StoryIs
  <2>2. s[k] = FrameOf(hist, path, k - 1)
    BY <1>1, StoryIs
  <2> QED
    BY <1>1, <2>1, <2>2, StoryIs
<1> HIDE DEF st
<1>3. HarnessVerdict(st, line) = "ok"
  BY <1>2 DEF HarnessVerdict, Course
<1>4. HarnessFrame(st, line) = FrameOf(hist, path, k)
  <2>1. ApplyPlace(st, path[k]) = hist[k]
    BY <1>2 DEF Course
  <2> QED
    BY <1>1, <1>2, <2>1 DEF HarnessFrame, FrameOf
<1>5. Extended(s, line) = Append(s, FrameOf(hist, path, k))
  BY <1>3, <1>4 DEF Extended, st
<1>6. Append(s, FrameOf(hist, path, k)) = Story(hist, path, k)
  <2> DEFINE F == [j \in 1..(k + 1) |-> FrameOf(hist, path, j - 1)]
  <2>1. F[k + 1] = FrameOf(hist, path, k)
    BY <1>1
  <2>2. s = [j \in 1..k |-> F[j]]
    BY <1>1 DEF Story
  <2>3. Story(hist, path, k) = [j \in 1..(k + 1) |-> F[j]]
    BY <1>1 DEF Story
  <2> HIDE DEF F, s
  <2> QED
    BY <1>1, <2>1, <2>2, <2>3, OneMore
<1> QED
  BY <1>5, <1>6

\* Frames that grow from a new game by the moves of the given lines, and lines
\* that start with the moves of a course.
Growing(f, K, line) ==
    /\ f[0] = <<[state |-> NewGame(seed), event |-> {}]>>
    /\ \A k \in 1..K : f[k] = IF Len(f[k-1]) < k THEN f[k-1] ELSE Extended(f[k-1], line[k])

Starting(line, path, m) ==
    \A k \in 1..m : line[k].kind = "place" /\ line[k].cell = path[k]

\* Frames of a record whose first moves are those of a course.
LEMMA FramesTell ==
    ASSUME NEW hist, NEW path, NEW n, Course(hist, path, n), NEW K \in Nat, NEW f, NEW line,
           NEW m \in 0..n, m <= K, Growing(f, K, line), Starting(line, path, m)
    PROVE  \A k \in 0..m : f[k] = Story(hist, path, k)
<1> DEFINE S == {k \in 0..m : f[k] # Story(hist, path, k)}
<1>1. n \in Nat
  BY DEF Course
<1>2. SUFFICES ASSUME S # {} PROVE FALSE
  OBVIOUS
<1>3. S \in SUBSET Nat
  BY <1>1
<1>4. PICK k \in S : \A j \in S : k <= j
  BY <1>2, <1>3, NatMin
<1>5. k \in 0..m /\ f[k] # Story(hist, path, k)
  BY <1>4
<1>6. CASE k = 0
  <2>1. FrameOf(hist, path, 0) = [state |-> NewGame(seed), event |-> {}]
    BY DEF FrameOf, Course
  <2>2. Story(hist, path, 0) = <<FrameOf(hist, path, 0)>>
    BY DEF Story
  <2> QED
    BY <1>5, <1>6, <2>1, <2>2 DEF Growing
<1>7. CASE k # 0
  <2>1. k \in 1..K /\ k \in 1..m /\ k \in 1..n /\ k - 1 \in 0..m /\ ~(k <= k - 1) /\ k - 1 \in Nat
        /\ k \in Nat /\ (k - 1) + 1 = k
    BY <1>1, <1>5, <1>7
  <2>2. f[k-1] = Story(hist, path, k - 1)
    BY <1>4, <2>1
  <2>3. Len(f[k-1]) = k
    BY <2>1, <2>2, StoryIs
  <2>4. ~(Len(f[k-1]) < k)
    BY <2>1, <2>3
  <2>5. f[k] = Extended(f[k-1], line[k])
    BY <2>1, <2>4 DEF Growing
  <2>6. line[k].kind = "place" /\ line[k].cell = path[k]
    BY <2>1 DEF Starting
  <2>7. Extended(Story(hist, path, k - 1), line[k]) = Story(hist, path, k)
    BY <2>1, <2>6, StoryGrows
  <2> QED
    BY <1>5, <2>2, <2>5, <2>7
<1> QED
  BY <1>6, <1>7

\* The record of a course replays it.
LEMMA LaidFrames ==
    ASSUME NEW hist, NEW path, NEW n, Course(hist, path, n), NEW w, Laid(w, hist, path, n)
    PROVE  Frames(w) = Story(hist, path, n)
<1> DEFINE line == [k \in 1..n |-> w[5 + k]]
<1>1. n \in Nat
  BY DEF Course
<1>2. MoveLines(w) = [k \in 1..n |-> 5 + k]
  BY <1>1, LaidMoves
<1>3. Len(MoveLines(w)) = n /\ \A k \in 1..n : w[MoveLines(w)[k]] = line[k]
  BY <1>1, <1>2
<1>4. w[FirstLine(w, "start")].seed = seed
  <2>1. FirstLine(w, "start") = 5
    BY <1>1, LaidRead
  <2>2. w[5] = StartLine(GameId, seed)
    BY DEF Laid
  <2> QED
    BY <2>1, <2>2 DEF StartLine
<1>5. ASSUME NEW k \in 1..n
      PROVE  line[k].kind = "place" /\ line[k].cell = path[k]
  <2>1. line[k] = LineOf(hist[k-1], path[k])
    BY DEF Laid
  <2> HIDE DEF line
  <2> QED
    BY <2>1 DEF LineOf, PlaceLine
<1> HIDE DEF line
<1>6. PICK f : /\ Frames(w) = f[n]
               /\ f[0] = <<[state |-> NewGame(w[FirstLine(w, "start")].seed), event |-> {}]>>
               /\ \A k \in 1..n : f[k] = IF Len(f[k-1]) < k THEN f[k-1]
                                         ELSE Extended(f[k-1], w[MoveLines(w)[k]])
  BY <1>1, <1>3, FramesAre
<1>7. \A k \in 1..n : f[k] = IF Len(f[k-1]) < k THEN f[k-1] ELSE Extended(f[k-1], line[k])
  BY <1>3, <1>6
<1>8. f[0] = <<[state |-> NewGame(seed), event |-> {}]>>
  BY <1>4, <1>6
<1>9. n \in 0..n /\ n <= n
  BY <1>1
<1>10. \A k \in 0..n : f[k] = Story(hist, path, k)
  <2>1. Growing(f, n, line) /\ Starting(line, path, n)
    BY <1>5, <1>7, <1>8 DEF Growing, Starting
  <2> QED
    BY <1>1, <1>9, <2>1, FramesTell
<1> QED
  BY <1>6, <1>9, <1>10

\* The note of a move is what replaying it gives.
LEMMA NoteIs ==
    ASSUME NEW hist, NEW path, NEW k, k # 0
    PROVE  LET e == Deref(FrameOf(hist, path, k).event)
           IN  /\ LineOf(hist[k-1], path[k]).note =
                     {<<Deref(e.placedColor), Cardinality(e.changes)>>}
               /\ e = Placed(hist[k-1], "replay", path[k])
<1> DEFINE p == Placed(hist[k-1], "replay", path[k])
           st == hist[k-1]
<1>1. FrameOf(hist, path, k).event = {p}
  BY DEF FrameOf
<1>2. p.placedColor = {st.nextColor} /\ p.changes = Changes(st.board, path[k], st.nextColor)
  BY DEF Placed
<1> HIDE DEF p
<1>3. Deref(FrameOf(hist, path, k).event) = p
  BY <1>1, DerefIs
<1>4. Deref(p.placedColor) = st.nextColor
  BY <1>2, DerefIs
<1>5. LineOf(st, path[k]).note = {<<st.nextColor, Cardinality(Changes(st.board, path[k], st.nextColor))>>}
  BY DEF LineOf, PlaceLine
<1> QED
  BY <1>2, <1>3, <1>4, <1>5 DEF p

\* The record of a course that came to its end replays without fault.
LEMMA LaidReplays ==
    ASSUME NEW hist, NEW path, NEW n, Course(hist, path, n), NEW w, Laid(w, hist, path, n),
           hist[n].phase = "finished"
    PROVE  Replay(w, "answered") = Result(w, Story(hist, path, n), Accepted)
<1> DEFINE frames == Story(hist, path, n)
<1>1. n \in Nat /\ seed \in Seeds
  BY DEF Course
<1>2. MoveLines(w) = [k \in 1..n |-> 5 + k]
  BY <1>1, LaidMoves
<1>3. Len(frames) = n + 1 /\ \A j \in 0..n : frames[j + 1] = FrameOf(hist, path, j)
  BY <1>1, StoryIs
<1>4. Last(frames) = hist[n]
  <2>1. n \in 0..n
    BY <1>1
  <2> HIDE DEF frames
  <2>2. frames[Len(frames)] = FrameOf(hist, path, n)
    BY <1>3, <2>1
  <2>3. FrameOf(hist, path, n).state = hist[n]
    BY DEF FrameOf
  <2> QED
    BY <2>2, <2>3 DEF Last
<1>5. Frames(w) = frames
  BY LaidFrames
<1> HIDE DEF frames
<1>6. NoteBlame(w, frames) = Accepted
  <2> DEFINE lines == MoveLines(w)
             seen(k) == LET e == Deref(frames[k + 1].event)
                        IN  {<<Deref(e.placedColor), Cardinality(e.changes)>>}
             bad == {k \in DOMAIN lines : /\ w[lines[k]].kind = "place"
                                          /\ w[lines[k]].note \notin {{}, seen(k)}}
  <2>1. ASSUME NEW k \in 1..n
        PROVE  w[lines[k]].note = seen(k)
    <3>1. lines[k] = 5 + k
      BY <1>2
    <3>2. w[lines[k]] = LineOf(hist[k-1], path[k])
      BY <3>1 DEF Laid
    <3>3. k \in 0..n /\ k # 0
      BY <1>1
    <3>4. frames[k + 1] = FrameOf(hist, path, k)
      BY <1>3, <3>3
    <3> HIDE DEF lines
    <3> QED
      BY <3>2, <3>3, <3>4, NoteIs
  <2>2. DOMAIN lines = 1..n
    BY <1>2
  <2> HIDE DEF lines, seen
  <2>3. bad = {}
    BY <2>1, <2>2
  <2>4. NoteBlame(w, frames) = IF bad = {} THEN Accepted
                               ELSE Blame("record_mismatch", lines[Least(bad)])
    BY DEF NoteBlame, lines, seen
  <2> QED
    BY <2>3, <2>4
<1>7. FinishBlame(w, Last(frames)) = Accepted
  <2>1. LinesOf(w, {"end"}) = {n + 6}
    BY <1>1, LaidLines
  <2>2. LinesOf(w, {"end"}) # {}
    BY <2>1
  <2>3. FirstLine(w, "end") = n + 6
    BY <1>1, LaidRead
  <2>4. w[n + 6].winner = hist[n].winner
    BY DEF Laid, EndLine
  <2> QED
    BY <1>4, <2>2, <2>3, <2>4 DEF FinishBlame
<1>8. FramesBlame(w, frames) = Accepted
  <2>1. ~(Len(frames) <= Len(MoveLines(w)))
    BY <1>1, <1>2, <1>3
  <2> QED
    BY <1>6, <1>7, <2>1 DEF FramesBlame
<1>9. Decode(w, "answered") = Accepted
  BY <1>1, LaidDecodes DEF Decode
<1>10. {Result(w, x, FramesBlame(w, x)) : x \in {Frames(w)}} = {Result(w, frames, Accepted)}
  BY <1>5, <1>8
<1>11. Replay(w, "answered") =
          Deref({Result(w, x, FramesBlame(w, x)) : x \in {Frames(w)}})
  BY <1>9 DEF Replay
<1>12. Deref({Result(w, frames, Accepted)}) = Result(w, frames, Accepted)
  BY DerefIs
<1> QED
  BY <1>10, <1>11, <1>12 DEF frames

\* The parts of what such a replay gives.
LEMMA ResultIs ==
    ASSUME NEW source, NEW frames, NEW blame
    PROVE  /\ Result(source, frames, blame).source = source
           /\ Result(source, frames, blame).frames = frames
           /\ Result(source, frames, blame).blame = blame
BY DEF Result

\* What Result.Record reads from the record of a course.
LEMMA LaidRecord ==
    ASSUME NEW hist, NEW path, NEW n, Course(hist, path, n), NEW w, Laid(w, hist, path, n)
    PROVE  LET result == Result(w, Story(hist, path, n), Accepted)
               record == Record(result)
           IN  /\ FinalState(result) = Held(hist[n]) /\ Last(result.frames) = hist[n]
               /\ record.gameId = GameId /\ record.seed = seed
               /\ record.startedAt = StartedAt /\ record.endedAt = EndedAt
               /\ record.winner = hist[n].winner /\ record.finalState = Held(hist[n])
               /\ Len(record.commands) = n
               /\ \A k \in 1..n : \E turn : record.commands[k] = CommandOf(LineOf(hist[k-1], path[k]), turn)
<1> DEFINE frames == Story(hist, path, n)
           result == Result(w, frames, Accepted)
           record == Record(result)
           commands == [k \in 1..n |-> CommandOf(w[5 + k], frames[k + 1].state.turnNumber - 1)]
<1>1. n \in Nat /\ result.source = w /\ result.frames = frames
  BY ResultIs DEF Course
<1>2. MoveLines(w) = [k \in 1..n |-> 5 + k]
  BY <1>1, LaidMoves
<1>3. /\ FirstLine(w, "start") = 5 /\ FirstLine(w, "end") = n + 6
      /\ TimeOf(w, "started") = StartedAt /\ TimeOf(w, "ended") = EndedAt
  BY <1>1, LaidRead
<1>4. w[5].gameId = GameId /\ w[5].seed = seed
  BY DEF Laid, StartLine
<1>5. w[n + 6].winner = hist[n].winner
  BY DEF Laid, EndLine
<1>6. Last(frames) = hist[n]
  <2>1. n \in 0..n
    BY <1>1
  <2>2. Len(frames) = n + 1 /\ frames[n + 1] = FrameOf(hist, path, n)
    BY <1>1, <2>1, StoryIs
  <2>3. FrameOf(hist, path, n).state = hist[n]
    BY DEF FrameOf
  <2> HIDE DEF frames
  <2> QED
    BY <2>2, <2>3 DEF Last
<1> HIDE DEF frames, result
<1>7. FinalState(result) = Held(hist[n])
  BY <1>1, <1>6 DEF FinalState, FrameState, Held
<1>8. [k \in DOMAIN MoveLines(w) |->
          CommandOf(w[MoveLines(w)[k]], frames[k + 1].state.turnNumber - 1)] = commands
  BY <1>2
<1> HIDE DEF commands
<1>9. record = [gameId |-> GameId, seed |-> seed, startedAt |-> StartedAt, endedAt |-> EndedAt,
                winner |-> hist[n].winner, commands |-> commands, finalState |-> Held(hist[n])]
  BY <1>1, <1>3, <1>4, <1>5, <1>7, <1>8 DEF Record
<1>10. /\ record.gameId = GameId /\ record.seed = seed
       /\ record.startedAt = StartedAt /\ record.endedAt = EndedAt
       /\ record.winner = hist[n].winner /\ record.finalState = Held(hist[n])
       /\ record.commands = commands
  BY <1>9
<1> HIDE DEF record
<1>11. Len(record.commands) = n
  BY <1>1, <1>10 DEF commands
<1>12. ASSUME NEW k \in 1..n
       PROVE  \E turn : record.commands[k] = CommandOf(LineOf(hist[k-1], path[k]), turn)
  <2>1. w[5 + k] = LineOf(hist[k-1], path[k])
    BY DEF Laid
  <2>2. commands[k] = CommandOf(w[5 + k], frames[k + 1].state.turnNumber - 1)
    BY DEF commands
  <2> QED
    BY <1>10, <2>1, <2>2
<1> QED
  BY <1>1, <1>6, <1>7, <1>10, <1>11, <1>12 DEF frames, result, record

\* Written anew, the record of a course is what it was.
LEMMA WrittenAnew ==
    ASSUME NEW hist, NEW path, NEW n, Course(hist, path, n), hist[n].phase = "finished"
    PROVE  LET w == CourseSource(hist, path, n)
           IN  EncodeResult(Result(w, Story(hist, path, n), Accepted)) = w
<1> DEFINE w == CourseSource(hist, path, n)
           frames == Story(hist, path, n)
           result == Result(w, frames, Accepted)
           record == Record(result)
<1>1. n \in Nat /\ Laid(w, hist, path, n) /\ path \in [1..n -> Cell]
  BY SourceIsLaid DEF Course
<1>2. /\ Last(result.frames) = hist[n] /\ record.gameId = GameId /\ record.seed = seed
      /\ record.startedAt = StartedAt /\ record.endedAt = EndedAt /\ Len(record.commands) = n
  BY <1>1, LaidRecord
<1>3. \A k \in 1..n : \E turn : record.commands[k] = CommandOf(LineOf(hist[k-1], path[k]), turn)
  BY <1>1, LaidRecord
<1>4. result.frames = frames /\ Len(frames) - 1 = n
  <2>1. Len(frames) = n + 1
    BY <1>1, StoryIs
  <2> QED
    BY <1>1, <2>1, ResultIs
<1>5. \A j \in 0..n : frames[j + 1] = FrameOf(hist, path, j)
  BY <1>1, StoryIs
<1> DEFINE line(k) == LET c == record.commands[k]
                      IN  MoveLine(c.type, c.player, c.row \X c.col, Deref(frames[k + 1].event))
<1> HIDE DEF w, frames, result, record
<1>6. ASSUME NEW k \in 1..n
      PROVE  line(k) = LineOf(hist[k-1], path[k])
  <2> DEFINE p == path[k]
             st == hist[k-1]
             l == LineOf(st, p)
             c == record.commands[k]
             e == Deref(frames[k + 1].event)
  <2>1. p \in Cell /\ k # 0 /\ k \in 0..n
    BY <1>1
  <2>2. l.kind = "place" /\ l.player = st.currentPlayer /\ l.cell = p
    BY DEF LineOf, PlaceLine
  <2>3. PICK turn : c = CommandOf(l, turn)
    BY <1>3
  <2>4. c.type = "place" /\ c.player = st.currentPlayer /\ c.row = {p[1]} /\ c.col = {p[2]}
    <3> HIDE DEF l, c, st, p
    <3> QED
      BY <2>2, <2>3 DEF CommandOf
  <2>5. c.row \X c.col = {p}
    <3>1. p = <<p[1], p[2]>>
      BY <2>1 DEF Cell
    <3>2. \A a, b : {a} \X {b} = {<<a, b>>}
      OBVIOUS
    <3> HIDE DEF c, p
    <3> QED
      BY <2>4, <3>1, <3>2
  <2>6. Deref(c.row \X c.col) = p
    BY <2>5, DerefIs
  <2>7. frames[k + 1] = FrameOf(hist, path, k)
    BY <1>5, <2>1
  <2>8. e = Placed(st, "replay", p)
    BY <2>1, <2>7, NoteIs
  <2>9. e.placedColor = {st.nextColor} /\ e.changes = Changes(st.board, p, st.nextColor)
    BY <2>8 DEF Placed
  <2> HIDE DEF e, c, st, p
  <2>10. Deref(e.placedColor) = st.nextColor
    BY <2>9, DerefIs
  <2>11. MoveLine(c.type, c.player, c.row \X c.col, e)
         = PlaceLine(st.currentPlayer, p, st.nextColor, Cardinality(Changes(st.board, p, st.nextColor)))
    BY <2>4, <2>6, <2>9, <2>10 DEF MoveLine
  <2> QED
    BY <2>11 DEF LineOf, e, c, st, p
<1>7. ResultLines(result, n) = [k \in 1..n |-> line(k)]
  BY <1>4 DEF ResultLines, record
<1> HIDE DEF line
<1>8. ResultLines(result, n) = CourseLines(hist, path, n)
  BY <1>6, <1>7 DEF CourseLines
<1>9. EncodeResult(result) =
         HeaderLines(StartedAt, EndedAt) \o <<RulesVersionLine, StartLine(GameId, seed)>>
         \o ResultLines(result, n) \o <<EndLine(hist[n].winner, n, hist[n].board)>>
  BY <1>2, <1>4 DEF EncodeResult, record
<1>10. EncodeResult(result) = CourseSource(hist, path, n)
  BY <1>8, <1>9 DEF CourseSource, Written
<1> QED
  BY <1>10 DEF w, frames, result

\* And it can be followed move by move.
LEMMA LaidUntil ==
    ASSUME NEW hist, NEW path, NEW n, Course(hist, path, n), NEW w, Laid(w, hist, path, n),
           NEW m \in 0..n
    PROVE  ReplayUntil(w, m).frames = SubSeq(Story(hist, path, n), 1, m + 1)
<1> DEFINE frames == Story(hist, path, n)
           cut(x) == IF m < Len(x) THEN SubSeq(x, 1, m + 1) ELSE x
           until(x) == IF Len(x) <= Len(MoveLines(w)) THEN Result(w, x, IllegalMove(w, x))
                       ELSE Result(w, cut(x), Accepted)
<1>1. n \in Nat /\ seed \in Seeds
  BY DEF Course
<1>2. Decode(w, "answered") = Accepted
  BY <1>1, LaidDecodes DEF Decode
<1>3. Len(frames) = n + 1 /\ Frames(w) = frames
  BY <1>1, StoryIs, LaidFrames
<1>4. Len(MoveLines(w)) = n
  <2>1. MoveLines(w) = [k \in 1..n |-> 5 + k]
    BY <1>1, LaidMoves
  <2> QED
    BY <1>1, <2>1
<1> HIDE DEF frames
<1>5. ReplayUntil(w, m) = Deref({until(x) : x \in {Frames(w)}})
  BY <1>2 DEF ReplayUntil
<1>6. until(frames) = Result(w, SubSeq(frames, 1, m + 1), Accepted)
  BY <1>1, <1>3, <1>4
<1> HIDE DEF until
<1>7. {until(x) : x \in {Frames(w)}} = {until(frames)}
  BY <1>3
<1>8. ReplayUntil(w, m) = until(frames)
  BY <1>5, <1>7, DerefIs
<1>9. ReplayUntil(w, m).frames = SubSeq(frames, 1, m + 1)
  <2> DEFINE sub == SubSeq(frames, 1, m + 1)
  <2> HIDE DEF sub
  <2>1. Result(w, sub, Accepted).frames = sub
    BY ResultIs
  <2> QED
    BY <1>6, <1>8, <2>1 DEF sub
<1> QED
  BY <1>9 DEF frames

-----------------------------------------------------------------------------
\* The record that a room keeps of its game.

\* The command of a player who moves on p, as the room records it with its event.
Moved(st, p) ==
    [commandId |-> "c", type |-> "place", player |-> st.currentPlayer,
     expectedTurn |-> st.turnNumber, row |-> {p[1]}, col |-> {p[2]}]

Noted(st, p) == [command |-> Moved(st, p), event |-> Placed(st, "c", p)]

\* Whatever a room may have recorded.
AnyMove == {Noted(st, p) : st \in State, p \in Cell}

\* The moves recorded by a room are those of a course.
Recording(ms, hist, path) ==
    /\ ms \in Seq(AnyMove)
    /\ Course(hist, path, Len(ms))
    /\ \A k \in 1..Len(ms) : ms[k] = Noted(hist[k-1], path[k])

\* The source written from it.
LEMMA SourceOfRecording ==
    ASSUME NEW ms, NEW hist, NEW path, Recording(ms, hist, path)
    PROVE  FinishedSource(ms, hist[Len(ms)]) = CourseSource(hist, path, Len(ms))
<1> DEFINE n == Len(ms)
           line(k) == MoveLine(ms[k].command.type, ms[k].command.player,
                               ms[k].command.row \X ms[k].command.col, ms[k].event)
<1>1. n \in Nat /\ DOMAIN ms = 1..n /\ path \in [1..n -> Cell]
  BY LenProperties DEF Recording, Course
<1>2. ASSUME NEW k \in 1..n
      PROVE  line(k) = LineOf(hist[k-1], path[k])
  <2> DEFINE p == path[k]
             st == hist[k-1]
             c == ms[k].command
             e == ms[k].event
  <2>1. p \in Cell
    BY <1>1
  <2>2. ms[k] = Noted(st, p)
    BY DEF Recording
  <2>3. c = Moved(st, p) /\ e = Placed(st, "c", p)
    BY <2>2 DEF Noted
  <2> HIDE DEF c, e, st, p
  <2>4. c.type = "place" /\ c.player = st.currentPlayer /\ c.row = {p[1]} /\ c.col = {p[2]}
    BY <2>3 DEF Moved
  <2>5. e.placedColor = {st.nextColor} /\ e.changes = Changes(st.board, p, st.nextColor)
    BY <2>3 DEF Placed
  <2>6. c.row \X c.col = {p}
    <3>1. p = <<p[1], p[2]>>
      BY <2>1 DEF Cell
    <3>2. \A a, b : {a} \X {b} = {<<a, b>>}
      OBVIOUS
    <3> QED
      BY <2>4, <3>1, <3>2
  <2>7. Deref(c.row \X c.col) = p
    BY <2>6, DerefIs
  <2>8. Deref(e.placedColor) = st.nextColor
    BY <2>5, DerefIs
  <2>9. MoveLine(c.type, c.player, c.row \X c.col, e)
        = PlaceLine(st.currentPlayer, p, st.nextColor, Cardinality(Changes(st.board, p, st.nextColor)))
    BY <2>4, <2>5, <2>7, <2>8 DEF MoveLine
  <2> QED
    BY <2>9 DEF LineOf, c, e, st, p
<1>3. FinishedSource(ms, hist[n]) =
         HeaderLines(StartedAt, EndedAt) \o <<RulesVersionLine, StartLine(GameId, seed)>>
         \o [k \in 1..n |-> line(k)] \o <<EndLine(hist[n].winner, n, hist[n].board)>>
  BY <1>1 DEF FinishedSource
<1> HIDE DEF line
<1>4. [k \in 1..n |-> line(k)] = CourseLines(hist, path, n)
  BY <1>2 DEF CourseLines
<1> QED
  BY <1>3, <1>4 DEF CourseSource, Written

\* A move more, in the game and in the record.
LEMMA RecordingGrows ==
    ASSUME NEW ms, NEW hist, NEW path, Recording(ms, hist, path),
           NEW p \in Cell, PlaceVerdict(hist[Len(ms)], p) = "ok",
           NEW g \in State, g = ApplyPlace(hist[Len(ms)], p)
    PROVE  \E h, q : /\ Recording(Append(ms, Noted(hist[Len(ms)], p)), h, q)
                     /\ h[Len(Append(ms, Noted(hist[Len(ms)], p)))] = g
<1> DEFINE n == Len(ms)
           x == Noted(hist[n], p)
           a == Append(ms, x)
           h == [k \in 0..(n + 1) |-> IF k = n + 1 THEN g ELSE hist[k]]
           q == [k \in 1..(n + 1) |-> IF k = n + 1 THEN p ELSE path[k]]
<1>1. n \in Nat /\ ms \in Seq(AnyMove) /\ Course(hist, path, n)
  BY LenProperties DEF Recording
<1>2. hist \in [0..n -> State] /\ path \in [1..n -> Cell]
  BY <1>1 DEF Course
<1>3. x \in AnyMove
  BY <1>1, <1>2 DEF AnyMove
<1> HIDE DEF x
<1>4. a \in Seq(AnyMove) /\ Len(a) = n + 1 /\ (\A k \in 1..n : a[k] = ms[k]) /\ a[n + 1] = x
  BY <1>1, <1>3
<1> HIDE DEF a
<1>5. h \in [0..(n + 1) -> State] /\ q \in [1..(n + 1) -> Cell]
  BY <1>1, <1>2
<1>6. /\ \A k \in 0..n : h[k] = hist[k]
      /\ \A k \in 1..n : q[k] = path[k]
      /\ h[n + 1] = g /\ q[n + 1] = p
  BY <1>1
<1> HIDE DEF h, q
<1>7. ASSUME NEW k \in 1..(n + 1)
      PROVE  /\ PlaceVerdict(h[k-1], q[k]) = "ok" /\ h[k] = ApplyPlace(h[k-1], q[k])
             /\ a[k] = Noted(h[k-1], q[k])
  <2>1. CASE k = n + 1
    <3>1. k - 1 = n /\ h[k-1] = hist[n]
      BY <1>1, <1>6, <2>1
    <3> QED
      BY <1>4, <1>6, <2>1, <3>1 DEF x
  <2>2. CASE k # n + 1
    <3>1. k \in 1..n /\ k - 1 \in 0..n /\ k \in 0..n
      BY <1>1, <2>2
    <3>2. /\ PlaceVerdict(hist[k-1], path[k]) = "ok" /\ hist[k] = ApplyPlace(hist[k-1], path[k])
          /\ ms[k] = Noted(hist[k-1], path[k])
      BY <1>1, <3>1 DEF Recording, Course
    <3> QED
      BY <1>4, <1>6, <3>1, <3>2
  <2> QED
    BY <2>1, <2>2
<1>8. h[0] = NewGame(seed) /\ seed \in Seeds
  BY <1>1, <1>6 DEF Course
<1>9. Course(h, q, n + 1)
  BY <1>1, <1>5, <1>7, <1>8 DEF Course
<1>10. Recording(a, h, q) /\ h[Len(a)] = g
  BY <1>4, <1>6, <1>7, <1>9 DEF Recording
<1> QED
  BY <1>10 DEF a, x

-----------------------------------------------------------------------------
\* The steps of a game that is played through the runner.

\* The commands of connected players, and the request made of them.
LEMMA PlayedIsWired ==
    ASSUME Inductive, NEW c \in Played(state)
    PROVE  /\ c \in Wired /\ c.expectedTurn = state.turnNumber /\ c.commandId = "c"
           /\ c.type = "place" => \E p \in Cell, x \in Side :
                 c = [commandId |-> "c", type |-> "place", player |-> x,
                      expectedTurn |-> state.turnNumber, row |-> {p[1]}, col |-> {p[2]}]
           /\ ApplyCommandRequest(Held(state), c) \in AnyRequest
           /\ ApplyCommandRequest(Held(state), c).command = {c}
           /\ ApplyCommandRequest(Held(state), c).action # "newGame"
<1>1. state.turnNumber \in Nat /\ state.currentPlayer \in Side
  BY DEF Inductive, TypeOK, State
<1>2. /\ c \in Wired /\ c.expectedTurn = state.turnNumber /\ c.commandId = "c"
      /\ c.type = "place" => \E p \in Cell, x \in Side :
            c = [commandId |-> "c", type |-> "place", player |-> x,
                 expectedTurn |-> state.turnNumber, row |-> {p[1]}, col |-> {p[2]}]
  <2>1. CASE \E x \in Side, p \in Cell :
                c = [commandId |-> "c", type |-> "place", player |-> x,
                     expectedTurn |-> state.turnNumber, row |-> {p[1]}, col |-> {p[2]}]
    <3>1. PICK x \in Side, p \in Cell :
             c = [commandId |-> "c", type |-> "place", player |-> x,
                  expectedTurn |-> state.turnNumber, row |-> {p[1]}, col |-> {p[2]}]
      BY <2>1
    <3>2. p[1] \in (-1)..N /\ p[2] \in (-1)..N
      <4>1. p[1] \in 0..N-1 /\ p[2] \in 0..N-1
        BY DEF Cell
      <4> QED
        BY <4>1, RulesAssumption
    <3>3. {p[1]} \in Coordinate /\ {p[2]} \in Coordinate
      BY <3>2 DEF Coordinate
    <3> HIDE DEF Coordinate
    <3>4. c \in Wired
      BY <1>1, <3>1, <3>3 DEF Wired
    <3>5. c.expectedTurn = state.turnNumber /\ c.commandId = "c"
      BY <3>1
    <3> QED
      BY <2>1, <3>4, <3>5
  <2>2. CASE \E x \in Side : c = [SomeCommand(state) EXCEPT !.player = x]
    <3>1. PICK x \in Side : c = [commandId |-> "c", type |-> "pass", player |-> x,
                                 expectedTurn |-> state.turnNumber, row |-> {}, col |-> {}]
      BY <2>2 DEF SomeCommand
    <3>2. {} \in Coordinate
      BY DEF Coordinate
    <3> HIDE DEF Coordinate
    <3>3. c \in Wired
      BY <1>1, <3>1, <3>2 DEF Wired
    <3>4. c.expectedTurn = state.turnNumber /\ c.commandId = "c" /\ c.type = "pass"
      BY <3>1
    <3> QED
      BY <3>3, <3>4
  <2> QED
    BY <2>1, <2>2 DEF Played
<1>3. ApplyCommandRequest(Held(state), c) \in AnyRequest
  BY <1>2 DEF ApplyCommandRequest, AnyRequest, Version
<1>4. /\ ApplyCommandRequest(Held(state), c).command = {c}
      /\ ApplyCommandRequest(Held(state), c).action # "newGame"
  BY DEF ApplyCommandRequest
<1> QED
  BY <1>2, <1>3, <1>4

\* One that is accepted is a move of the side to move.
LEMMA PlayedIsMove ==
    ASSUME Inductive, NEW c \in Played(state), Verdict(state, AsCommand(c)) = "ok"
    PROVE  /\ state.phase = "playing"
           /\ \E p \in Cell : /\ c = Moved(state, p) /\ AsCommand(c).cell = p
                              /\ PlaceVerdict(state, p) = "ok" /\ state.board[p] = Empty
<1> DEFINE cmd == AsCommand(c)
<1>1. c \in Wired /\ c.expectedTurn = state.turnNumber
  BY PlayedIsWired
<1>2. cmd.type = c.type /\ cmd.player = c.player
  BY <1>1, CommandsAgree
<1>3. cmd.type = "place" /\ state.phase = "playing" /\ state.board[cmd.cell] = Empty /\ cmd.cell \in Cell
  BY AcceptedIsPlace
<1>4. cmd.player = state.currentPlayer /\ PlaceVerdict(state, cmd.cell) = "ok"
  BY <1>3 DEF Verdict
<1>5. PICK p \in Cell, x \in Side :
         c = [commandId |-> "c", type |-> "place", player |-> x,
              expectedTurn |-> state.turnNumber, row |-> {p[1]}, col |-> {p[2]}]
  BY <1>2, <1>3, PlayedIsWired
<1>6. c.player = x /\ c.row = {p[1]} /\ c.col = {p[2]} /\ c.type = "place"
  BY <1>5
<1>7. c = Moved(state, p)
  BY <1>2, <1>4, <1>5, <1>6 DEF Moved
<1>8. cmd.cell = p
  <2>1. p = <<p[1], p[2]>>
    BY DEF Cell
  <2>2. \A a, b : {a} \X {b} = {<<a, b>>}
    OBVIOUS
  <2>3. c.row \X c.col = {p}
    BY <1>6, <2>1, <2>2
  <2>4. Deref(c.row \X c.col) = p
    BY <2>3, DerefIs
  <2> QED
    BY <1>6, <2>4 DEF AsCommand
<1> QED
  BY <1>3, <1>4, <1>7, <1>8

\* What a step does: nothing, or a move, which is recorded and after which a
\* game that is over is saved.
LEMMA SubmitIs ==
    ASSUME Inductive, NEW c \in Played(state), NEW fate, NEW scriptFate,
           SubmitCommand(c, fate, scriptFate)
    PROVE  /\ state.phase = "playing" /\ seed' = seed
           /\ \/ UNCHANGED <<state, recordVars>>
              \/ \E p \in Cell :
                    LET g  == ApplyPlace(state, p)
                        ms == Append(moves, Noted(state, p))
                    IN  /\ c = Moved(state, p) /\ Verdict(state, AsCommand(c)) = "ok"
                        /\ PlaceVerdict(state, p) = "ok" /\ state.board[p] = Empty
                        /\ Evaluate(state, AsCommand(c)) = g
                        /\ state' = g /\ moves' = ms
                        /\ IF g.phase = "finished" THEN SaveFinished(ms, g, scriptFate)
                           ELSE UNCHANGED <<saved, entries, order>>
<1> DEFINE r   == ApplyCommandRequest(Held(state), c)
           run == Runner(r, fate)
           cmd == AsCommand(c)
<1>1. state.phase = "playing" /\ seed' = seed
  BY DEF SubmitCommand
<1>2. c \in Wired /\ r \in AnyRequest /\ r.command = {c} /\ r.action # "newGame" /\ c.commandId = "c"
  BY PlayedIsWired
<1>3. \/ UNCHANGED <<state, recordVars>>
      \/ \E x \in run.response :
            LET game == Deref(x.state).game
                ms   == Append(moves, [command |-> c, event |-> Deref(x.event)])
            IN  /\ x.ok
                /\ state' = game
                /\ moves' = ms
                /\ IF game.phase = "finished" THEN SaveFinished(ms, game, scriptFate)
                   ELSE UNCHANGED <<saved, entries, order>>
  BY DEF SubmitCommand
<1> HIDE DEF r, run, cmd
<1>4. CASE UNCHANGED <<state, recordVars>>
  BY <1>1, <1>4
<1>5. ASSUME NEW x \in run.response, x.ok,
             state' = Deref(x.state).game,
             moves' = Append(moves, [command |-> c, event |-> Deref(x.event)]),
             IF Deref(x.state).game.phase = "finished"
             THEN SaveFinished(Append(moves, [command |-> c, event |-> Deref(x.event)]),
                               Deref(x.state).game, scriptFate)
             ELSE UNCHANGED <<saved, entries, order>>
      PROVE  \E p \in Cell :
                LET g  == ApplyPlace(state, p)
                    ms == Append(moves, Noted(state, p))
                IN  /\ c = Moved(state, p) /\ Verdict(state, AsCommand(c)) = "ok"
                    /\ PlaceVerdict(state, p) = "ok" /\ state.board[p] = Empty
                    /\ Evaluate(state, AsCommand(c)) = g
                    /\ state' = g /\ moves' = ms
                    /\ IF g.phase = "finished" THEN SaveFinished(ms, g, scriptFate)
                       ELSE UNCHANGED <<saved, entries, order>>
  <2>1. RequestOK(r) /\ fate = "answered" /\ x = RulesAnswer(OnWire(r))
    BY <1>2, <1>5, RunnerGives DEF run
  <2>2. x = IF Verdict(state, cmd) = "ok"
            THEN Accepting(ApplyPlace(state, cmd.cell), {Placed(state, c.commandId, cmd.cell)})
            ELSE Rejecting(state, Verdict(state, cmd))
    BY <1>2, <2>1, CommandAnswer DEF cmd
  <2>3. Verdict(state, cmd) = "ok"
    <3>1. Rejecting(state, Verdict(state, cmd)).ok = FALSE
      BY DEF Rejecting
    <3> QED
      BY <1>5, <2>2, <3>1
  <2>4. PICK p \in Cell : c = Moved(state, p) /\ cmd.cell = p /\ PlaceVerdict(state, p) = "ok"
                          /\ state.board[p] = Empty
    BY <2>3, PlayedIsMove DEF cmd
  <2> DEFINE g == ApplyPlace(state, p)
             e == Placed(state, "c", p)
  <2>5. x = Accepting(g, {e})
    BY <1>2, <2>2, <2>3, <2>4
  <2> HIDE DEF g, e
  <2>6. x.state = {GoState(g, "list")} /\ x.event = {e}
    BY <2>5 DEF Accepting
  <2>7. Deref(x.state) = GoState(g, "list") /\ Deref(x.event) = e
    BY <2>6, DerefIs
  <2>8. Deref(x.state).game = g
    BY <2>7 DEF GoState
  <2>9. [command |-> c, event |-> Deref(x.event)] = Noted(state, p)
    BY <2>4, <2>7 DEF Noted, e
  <2>10. Evaluate(state, cmd) = g
    BY <2>3, <2>4, AcceptedIsPlace DEF Evaluate, g
  <2>11. /\ state' = g /\ moves' = Append(moves, Noted(state, p))
         /\ IF g.phase = "finished" THEN SaveFinished(Append(moves, Noted(state, p)), g, scriptFate)
            ELSE UNCHANGED <<saved, entries, order>>
    BY <1>5, <2>8, <2>9
  <2> QED
    BY <2>3, <2>4, <2>10, <2>11 DEF g, cmd
<1> QED
  BY <1>1, <1>3, <1>4, <1>5

-----------------------------------------------------------------------------
\* The store.

\* What the store holds of a course.
Entry(hist, path, n) ==
    LET w == CourseSource(hist, path, n)
    IN  [record |-> Record(Result(w, Story(hist, path, n), Accepted)), source |-> w]

\* What saveFinished reports when the process fails.
FailedCodes == {RunBlame(f).code : f \in ScriptFates \ {"answered"}}

\* A process that does not answer leaves its code.
LEMMA FailureIs ==
    ASSUME NEW f \in ScriptFates, f # "answered"
    PROVE  /\ RunBlame(f).code \in FailedCodes
           /\ RunBlame(f).code \notin {"ok", "open", "saved"} /\ RunBlame(f) # Accepted
<1>1. f \in {"timeout", "canceled", "failed", "garbled"}
  BY ScriptFatesAssumption DEF ScriptFate
<1>2. RunBlame(f).code = IF f \in {"failed", "garbled"} THEN "record_syntax_error" ELSE f
  BY BlameIs DEF RunBlame
<1> QED
  BY <1>1, <1>2, BlameIs DEF FailedCodes

\* What becomes of a game that is over: its record is in the store, unless the
\* process that executes it failed.
LEMMA SaveFinishedIs ==
    ASSUME NEW ms, NEW hist, NEW path, Recording(ms, hist, path),
           hist[Len(ms)].phase = "finished", NEW scriptFate \in ScriptFates,
           entries = <<>>, order = <<>>,
           SaveFinished(ms, hist[Len(ms)], scriptFate)
    PROVE  \/ saved' \in FailedCodes /\ saved' \notin {"open", "saved"} /\ entries' = <<>> /\ order' = <<>>
           \/ /\ saved' = "saved" /\ order' = <<GameId>>
              /\ entries' = [i \in {GameId} |-> Entry(hist, path, Len(ms))]
<1> DEFINE n == Len(ms)
           w == CourseSource(hist, path, n)
           frames == Story(hist, path, n)
<1>1. Course(hist, path, n) /\ n \in Nat /\ seed \in Seeds
  BY DEF Recording, Course
<1>2. FinishedSource(ms, hist[n]) = w
  BY SourceOfRecording
<1>3. Laid(w, hist, path, n)
  BY <1>1, SourceIsLaid
<1> DEFINE result == Replay(w, scriptFate)
<1>4. /\ saved' = IF result.blame # Accepted THEN result.blame.code
                  ELSE IF FinalState(result) # Held(hist[n]) THEN "differs" ELSE "saved"
      /\ IF saved' # "saved" THEN UNCHANGED <<entries, order>>
         ELSE StoreSave([record |-> Record(result), source |-> EncodeResult(result)])
  BY <1>2 DEF SaveFinished
<1> HIDE DEF result, w, frames
<1>5. CASE scriptFate # "answered"
  <2>1. ScanBlame(w) = Accepted
    BY <1>1, <1>3, LaidDecodes
  <2>2. Decode(w, scriptFate) = RunBlame(scriptFate) /\ RunBlame(scriptFate) # Accepted
    BY <1>5, <2>1, FailureIs DEF Decode
  <2>3. result = Result(w, <<>>, RunBlame(scriptFate))
    BY <2>2 DEF Replay, result
  <2>4. result.blame = RunBlame(scriptFate)
    BY <2>3, ResultIs
  <2>5. saved' = RunBlame(scriptFate).code
    BY <1>4, <2>2, <2>4
  <2> QED
    BY <1>4, <1>5, <2>5, FailureIs
<1>6. CASE scriptFate = "answered"
  <2>1. result = Result(w, frames, Accepted)
    BY <1>1, <1>3, <1>6, LaidReplays DEF result, frames
  <2>2. result.blame = Accepted
    BY <2>1, ResultIs
  <2>3. FinalState(result) = Held(hist[n]) /\ Record(result).gameId = GameId
    BY <1>1, <1>3, <2>1, LaidRecord DEF frames
  <2>4. EncodeResult(result) = w
    BY <1>1, <2>1, WrittenAnew DEF w, frames
  <2>5. saved' = "saved"
    BY <1>4, <2>2, <2>3
  <2> DEFINE e == [record |-> Record(result), source |-> w]
  <2>6. StoreSave(e) /\ e = Entry(hist, path, n)
    BY <1>4, <2>1, <2>4, <2>5 DEF Entry, w, frames
  <2>7. e.record.gameId = GameId
    BY <2>3
  <2> HIDE DEF e
  <2>8. DOMAIN entries = {}
    OBVIOUS
  <2>9. entries' = [i \in {GameId} |-> e]
    BY <2>6, <2>7, <2>8 DEF StoreSave
  <2>10. order' = <<GameId>>
    BY <2>6, <2>7, <2>8 DEF StoreSave
  <2> QED
    BY <2>5, <2>6, <2>9, <2>10
<1> QED
  BY <1>5, <1>6

\* The invariant of the room and the store: the room's record tells the course
\* of its game, and what is stored is the record of that course.
Stored(hist, path) ==
    \/ state.phase = "playing" /\ saved = "open" /\ entries = <<>> /\ order = <<>>
    \/ /\ state.phase = "finished" /\ saved \in FailedCodes /\ saved \notin {"open", "saved"}
       /\ entries = <<>> /\ order = <<>>
    \/ /\ state.phase = "finished" /\ saved = "saved" /\ order = <<GameId>>
       /\ entries = [i \in {GameId} |-> Entry(hist, path, Len(moves))]

\* The invariant: the game of the rules, the record of the room and the store agree.
Kept ==
    /\ Inductive
    /\ Len(moves) = state.turnNumber
    /\ \E hist, path : /\ Recording(moves, hist, path) /\ hist[Len(moves)] = state
                       /\ Stored(hist, path)

\* The seed of a game is all of its state that these depend on.
LEMMA SameSeed ==
    ASSUME seed' = seed, NEW CONSTANT hist, NEW CONSTANT path, NEW CONSTANT n
    PROVE  Course(hist, path, n) <=> Course(hist, path, n)'
           /\ Entry(hist, path, n) = Entry(hist, path, n)'
<1>1. Course(hist, path, n) <=> Course(hist, path, n)'
  BY DEF Course
<1>2. CourseSource(hist, path, n) = CourseSource(hist, path, n)'
  BY DEF CourseSource, Written
<1>3. Entry(hist, path, n) = Entry(hist, path, n)'
  BY <1>2 DEF Entry
<1> QED
  BY <1>1, <1>3

\* It holds when the game starts.
LEMMA KeptInit ==
    ASSUME ReplayInit
    PROVE  Kept
<1>1. Inductive
  BY InitInductive DEF ReplayInit
<1>2. state = NewGame(seed) /\ seed \in Seeds /\ state \in State
  BY <1>1 DEF ReplayInit, Init, Inductive, TypeOK
<1>3. /\ moves = <<>> /\ Len(moves) = 0 /\ moves \in Seq(AnyMove) /\ saved = "open" /\ entries = <<>>
      /\ order = <<>>
  BY DEF ReplayInit
<1> DEFINE hist == [k \in 0..0 |-> state]
           path == [k \in 1..0 |-> <<0, 0>>]
<1>4. hist[0] = state /\ hist \in [0..0 -> State] /\ path \in [1..0 -> Cell]
  BY <1>2
<1> HIDE DEF hist, path
<1>5. Course(hist, path, 0)
  BY <1>2, <1>4 DEF Course
<1>6. Recording(moves, hist, path)
  BY <1>3, <1>5 DEF Recording
<1>7. Stored(hist, path)
  BY <1>2, <1>3 DEF Stored, NewGame
<1>8. state.turnNumber = 0
  BY <1>2 DEF NewGame
<1> QED
  BY <1>1, <1>3, <1>4, <1>6, <1>7, <1>8 DEF Kept

\* Every step keeps it.
LEMMA KeptStep ==
    ASSUME Kept, [ReplayNext]_allVars
    PROVE  Kept'
<1>1. Inductive
  BY DEF Kept
<1>2. PICK hist, path : /\ Recording(moves, hist, path) /\ hist[Len(moves)] = state
                        /\ Stored(hist, path)
  BY DEF Kept
<1>3. state \in State /\ state.turnNumber \in Nat /\ Len(moves) = state.turnNumber
  BY <1>1 DEF Kept, Inductive, TypeOK, State
<1>4. CASE UNCHANGED <<state, seed, recordVars>>
  <2>1. state' = state /\ seed' = seed /\ moves' = moves /\ saved' = saved /\ entries' = entries
        /\ order' = order
    BY <1>4 DEF recordVars
  <2>2. Inductive'
    BY <1>1, <2>1, StepInductive DEF vars
  <2>3. Recording(moves, hist, path)' /\ Stored(hist, path)'
    <3>1. PICK n : n = Len(moves)
      OBVIOUS
    <3>2. Course(hist, path, n)' /\ Entry(hist, path, n) = Entry(hist, path, n)'
      BY <1>2, <2>1, <3>1, SameSeed DEF Recording
    <3>3. Len(moves)' = n
      BY <2>1, <3>1
    <3>4. Recording(moves, hist, path)'
      BY <1>2, <2>1, <3>1, <3>2, <3>3 DEF Recording
    <3>5. Stored(hist, path)'
      BY <1>2, <2>1, <3>1, <3>2, <3>3 DEF Stored
    <3> QED
      BY <3>4, <3>5
  <2> QED
    BY <1>2, <1>3, <2>1, <2>2, <2>3 DEF Kept
<1>5. ASSUME NEW c \in Played(state), NEW fate, NEW scriptFate \in ScriptFates,
             SubmitCommand(c, fate, scriptFate)
      PROVE  Kept'
  <2>1. state.phase = "playing" /\ seed' = seed
    BY <1>1, <1>5, SubmitIs
  <2>2. CASE UNCHANGED <<state, recordVars>>
    BY <1>4, <2>1, <2>2
  <2>3. ASSUME NEW p \in Cell,
               PlaceVerdict(state, p) = "ok", state.board[p] = Empty,
               state' = ApplyPlace(state, p), moves' = Append(moves, Noted(state, p)),
               IF ApplyPlace(state, p).phase = "finished"
               THEN SaveFinished(Append(moves, Noted(state, p)), ApplyPlace(state, p), scriptFate)
               ELSE UNCHANGED <<saved, entries, order>>
        PROVE  Kept'
    <3> DEFINE g  == ApplyPlace(state, p)
               ms == Append(moves, Noted(state, p))
    <3>1. Inductive'
      BY <1>1, <2>1, <2>3, PlaceKeepsInductive
    <3>2. g \in State
      BY <2>3, <3>1 DEF Inductive, TypeOK
    <3>3. PICK h, q : Recording(ms, h, q) /\ h[Len(ms)] = g
      BY <1>2, <2>3, <3>2, RecordingGrows
    <3>4. saved = "open" /\ entries = <<>> /\ order = <<>>
      BY <1>2, <2>1 DEF Stored
    <3>5. g.phase \in {"playing", "finished"}
      BY <3>2 DEF State
    <3>6. Len(moves') = state'.turnNumber
      <4>1. moves \in Seq(AnyMove) /\ Noted(state, p) \in AnyMove
        BY <1>2, <1>3 DEF Recording, AnyMove
      <4>2. Len(Append(moves, Noted(state, p))) = Len(moves) + 1
        BY <4>1
      <4>3. ApplyPlace(state, p).turnNumber = state.turnNumber + 1
        BY DEF ApplyPlace, NextTurn
      <4> QED
        BY <1>3, <2>3, <4>2, <4>3
    <3>7. \/ g.phase = "playing" /\ saved' = "open" /\ entries' = <<>> /\ order' = <<>>
          \/ /\ g.phase = "finished" /\ saved' \in FailedCodes /\ saved' \notin {"open", "saved"}
             /\ entries' = <<>> /\ order' = <<>>
          \/ /\ g.phase = "finished" /\ saved' = "saved" /\ order' = <<GameId>>
             /\ entries' = [i \in {GameId} |-> Entry(h, q, Len(ms))]
      <4>1. CASE g.phase = "playing"
        BY <2>3, <3>4, <4>1
      <4>2. CASE g.phase = "finished"
        <5>1. SaveFinished(ms, h[Len(ms)], scriptFate) /\ h[Len(ms)].phase = "finished"
          BY <2>3, <3>3, <4>2
        <5> HIDE DEF g, ms
        <5> QED
          BY <1>5, <3>3, <3>4, <4>2, <5>1, SaveFinishedIs
      <4> QED
        BY <3>5, <4>1, <4>2
    <3>8. PICK n : n = Len(ms)
      OBVIOUS
    <3>9. Course(h, q, n)' /\ Entry(h, q, n) = Entry(h, q, n)'
      BY <2>1, <3>3, <3>8, SameSeed DEF Recording
    <3>10. Len(moves)' = n /\ moves' = ms /\ state' = g
      BY <2>3, <3>8
    <3> HIDE DEF g, ms
    <3>11. Recording(moves, h, q)' /\ (h[Len(moves)] = state)'
      BY <3>3, <3>8, <3>9, <3>10 DEF Recording
    <3>12. Stored(h, q)'
      BY <3>7, <3>8, <3>9, <3>10 DEF Stored
    <3> QED
      BY <3>1, <3>6, <3>11, <3>12 DEF Kept
  <2> QED
    BY <1>1, <1>5, <2>2, <2>3, SubmitIs
<1> QED
  BY <1>4, <1>5 DEF ReplayNext, allVars, vars

\* The room's record always tells the course of its game.
THEOREM RecordIsKept == ReplaySpec => []Kept
BY KeptInit, KeptStep, PTL DEF ReplaySpec

-----------------------------------------------------------------------------
\* What the invariant is for.

\* On a board of any size, with any palette and generator, what the server
\* lets through is never malformed to the rules, and it turns nothing away
\* that the rules would accept, superfluous fields apart.
THEOREM ContractIsOne == ReplaySpec => []ValidatorsAgree
<1>1. Kept => ValidatorsAgree
  BY Agreed DEF Kept
<1> QED
  BY <1>1, RecordIsKept, PTL

\* No answer of the rules to a request that was let through is lost as one
\* that the server cannot read.
THEOREM NoAnswerIsLost == ReplaySpec => []AnswersAreUnderstood
<1>1. Kept => AnswersAreUnderstood
  BY Understood DEF Kept
<1> QED
  BY <1>1, RecordIsKept, PTL

\* Every game that comes to its end is in the store, unless the process that
\* executes its record fails: the record made of it move by move, encoded,
\* executed and replayed, never differs from the state the room holds.
THEOREM FinishedGamesAreSaved == ReplaySpec => []FinishedIsSaved
<1>1. ASSUME Kept
      PROVE  FinishedIsSaved
  <2>1. PICK hist, path : Stored(hist, path)
    BY <1>1 DEF Kept
  <2>2. DOMAIN <<>> = {} /\ {<<>>[i] : i \in DOMAIN <<>>} = {} /\ <<>> # <<GameId>>
    OBVIOUS
  <2>3. {<<GameId>>[i] : i \in DOMAIN <<GameId>>} = {GameId}
    OBVIOUS
  <2>4. CASE state.phase = "playing" /\ saved = "open" /\ entries = <<>> /\ order = <<>>
    BY <2>2, <2>4 DEF FinishedIsSaved
  <2>5. CASE /\ state.phase = "finished" /\ saved \in FailedCodes /\ saved \notin {"open", "saved"}
             /\ entries = <<>> /\ order = <<>>
    BY <2>2, <2>5 DEF FinishedIsSaved, FailedCodes
  <2>6. CASE /\ state.phase = "finished" /\ saved = "saved" /\ order = <<GameId>>
             /\ entries = [i \in {GameId} |-> Entry(hist, path, Len(moves))]
    <3>1. DOMAIN entries = {GameId}
      BY <2>6
    <3>2. {order[i] : i \in DOMAIN order} = {GameId}
      BY <2>3, <2>6
    <3> QED
      BY <2>6, <3>1, <3>2 DEF FinishedIsSaved
  <2> QED
    BY <2>1, <2>4, <2>5, <2>6 DEF Stored
<1> QED
  BY <1>1, RecordIsKept, PTL

\* Whatever is in the store is served and replays to what was stored and to
\* what the players saw, frame by frame; and writing it anew changes nothing.
THEOREM StoredGamesReplay == ReplaySpec => []StoredReplays
<1>1. ASSUME Kept
      PROVE  StoredReplays
  <2>1. PICK hist, path : /\ Recording(moves, hist, path) /\ hist[Len(moves)] = state
                          /\ Stored(hist, path)
    BY <1>1 DEF Kept
  <2> DEFINE n == Len(moves)
             w == CourseSource(hist, path, n)
             frames == Story(hist, path, n)
             done == Result(w, frames, Accepted)
             x == Entry(hist, path, n)
  <2>2. n = state.turnNumber /\ n \in Nat /\ Course(hist, path, n)
    BY <1>1, <2>1 DEF Kept, Recording, Course
  <2>3. Laid(w, hist, path, n)
    BY <2>2, SourceIsLaid
  <2>4. \A i \in DOMAIN entries : i = GameId /\ entries[i] = x /\ state.phase = "finished"
    BY <2>1 DEF Stored
  <2>5. HandleReplay("h", "answered") = 404
    <3>1. "h" # GameId /\ ValidGameId("h")
      BY DEF GameId, ValidGameId
    <3>2. DOMAIN entries \cap {"h"} = {}
      BY <2>4, <3>1
    <3>3. StoreGet("h") = {}
      BY <3>2 DEF StoreGet
    <3> QED
      BY <3>1, <3>3 DEF HandleReplay
  <2>6. ASSUME NEW i \in DOMAIN entries
        PROVE  LET e == entries[i]
                   result == Replay(e.source, "answered")
               IN  /\ HandleReplay(i, "answered") = 200
                   /\ SaveSource(e.source) = {e}
                   /\ e.record.winner = state.winner
                   /\ e.record.finalState = Held(state)
                   /\ Len(e.record.commands) = state.turnNumber
                   /\ EncodeResult(result) = e.source
                   /\ \A m \in 0..state.turnNumber :
                         ReplayUntil(e.source, m).frames = SubSeq(result.frames, 1, m + 1)
    <3>1. i = GameId /\ entries[i] = x /\ hist[n].phase = "finished"
      BY <2>1, <2>4, <2>6
    <3>2. x.source = w /\ x.record = Record(done) /\ x = [record |-> Record(done), source |-> w]
      BY DEF Entry
    <3> HIDE DEF x
    <3>3. Replay(w, "answered") = done
      BY <2>2, <2>3, <3>1, LaidReplays
    <3>4. done.blame = Accepted /\ done.frames = frames
      BY ResultIs
    <3>5. EncodeResult(done) = w
      BY <2>2, <3>1, WrittenAnew
    <3>6. /\ Record(done).winner = state.winner /\ Record(done).finalState = Held(state)
          /\ Len(Record(done).commands) = n
      BY <2>1, <2>2, <2>3, LaidRecord
    <3>7. \A m \in 0..n : ReplayUntil(w, m).frames = SubSeq(frames, 1, m + 1)
      BY <2>2, <2>3, LaidUntil
    <3> HIDE DEF done, frames, w
    <3>8. HandleReplay(i, "answered") = 200
      <4>1. DOMAIN entries \cap {i} = {i}
        BY <2>6
      <4>2. StoreGet(i) = {x} /\ StoreGet(i) # {}
        BY <3>1, <4>1 DEF StoreGet
      <4>3. Deref(StoreGet(i)) = x
        BY <4>2, DerefIs
      <4>4. ValidGameId(i)
        BY <3>1 DEF ValidGameId
      <4> QED
        BY <3>2, <3>3, <3>4, <4>2, <4>3, <4>4 DEF HandleReplay
    <3>9. SaveSource(w) = {x}
      <4>1. {r \in {Replay(w, "answered")} : r.blame = Accepted} = {done}
        BY <3>3, <3>4
      <4> QED
        BY <3>2, <4>1 DEF SaveSource
    <3> QED
      BY <2>2, <3>1, <3>2, <3>3, <3>4, <3>5, <3>6, <3>7, <3>8, <3>9
  <2> QED
    BY <2>5, <2>6 DEF StoredReplays
<1> QED
  BY <1>1, RecordIsKept, PTL

\* A game that is played through the runner, with its deadlines and refusals,
\* is a game of the rules: what is proved of those holds of it.
THEOREM RunnerPlaysRules ==
    ASSUME 0 \in Lag
    PROVE  ReplaySpec => Spec
<1>1. ReplayInit => Init
  BY DEF ReplayInit
<1>2. ASSUME Kept, [ReplayNext]_allVars
      PROVE  [Next]_vars
  <2>1. Inductive
    BY <1>2 DEF Kept
  <2>2. CASE UNCHANGED allVars
    BY <2>2 DEF allVars
  <2>3. ASSUME NEW c \in Played(state), NEW fate, NEW scriptFate,
               SubmitCommand(c, fate, scriptFate)
        PROVE  [Next]_vars
    <3>1. seed' = seed
      BY <2>1, <2>3, SubmitIs
    <3>2. CASE UNCHANGED <<state, recordVars>>
      BY <3>1, <3>2 DEF vars
    <3>3. ASSUME NEW p \in Cell, c = Moved(state, p), state' = ApplyPlace(state, p),
                 Evaluate(state, AsCommand(c)) = ApplyPlace(state, p),
                 Verdict(state, AsCommand(c)) = "ok"
          PROVE  [Next]_vars
      <4> DEFINE cmd == [type |-> "place", player |-> state.currentPlayer,
                         expectedTurn |-> state.turnNumber, cell |-> p]
      <4>1. state.turnNumber \in Nat /\ state.currentPlayer \in Side
        BY <2>1 DEF Inductive, TypeOK, State
      <4>2. AsCommand(c) = cmd
        <5>1. c.type = "place" /\ c.player = state.currentPlayer /\ c.expectedTurn = state.turnNumber
          BY <3>3 DEF Moved
        <5>2. AsCommand(c).cell = p
          <6>1. \E q \in Cell : c = Moved(state, q) /\ AsCommand(c).cell = q
            BY <2>1, <2>3, <3>3, PlayedIsMove
          <6>2. PICK q \in Cell : c = Moved(state, q) /\ AsCommand(c).cell = q
            BY <6>1
          <6>3. c.row = {p[1]} /\ c.col = {p[2]} /\ c.row = {q[1]} /\ c.col = {q[2]}
            BY <3>3, <6>2 DEF Moved
          <6>4. p[1] = q[1] /\ p[2] = q[2]
            BY <6>3
          <6>5. p = q
            BY <6>4 DEF Cell
          <6> QED
            BY <6>2, <6>5
        <5> QED
          BY <5>1, <5>2 DEF AsCommand
      <4>3. cmd \in Command(state)
        <5>1. p \in ((-1)..N) \X ((-1)..N)
          <6>1. p[1] \in 0..N-1 /\ p[2] \in 0..N-1 /\ p = <<p[1], p[2]>>
            BY DEF Cell
          <6> QED
            BY <6>1, RulesAssumption
        <5>2. state.turnNumber \in {state.turnNumber + k : k \in Lag}
          BY <4>1
        <5> QED
          BY <4>1, <5>1, <5>2 DEF Command
      <4>4. Submit(cmd)
        BY <3>1, <3>3, <4>2 DEF Submit
      <4> HIDE DEF cmd
      <4> QED
        BY <4>3, <4>4 DEF Next
    <3> QED
      BY <2>1, <2>3, <3>2, <3>3, SubmitIs
  <2> QED
    BY <1>2, <2>2, <2>3 DEF ReplayNext
<1> QED
  BY <1>1, <1>2, RecordIsKept, PTL DEF ReplaySpec, Spec

\* Of a set of line numbers each has its rank, and every rank is taken.
LEMMA RankIsTaken ==
    ASSUME NEW L \in Nat, NEW at \in SUBSET (1..L), NEW k \in 1..Cardinality(at)
    PROVE  \E i \in at : Cardinality({j \in at : j <= i}) = k
<1> DEFINE below(i) == {j \in at : j <= i}
           S == {i \in 0..L : Cardinality(below(i)) >= k}
<1>1. IsFiniteSet(at)
  <2>1. IsFiniteSet(1..L)
    BY FS_Interval
  <2> QED
    BY <2>1, FS_Subset
<1>2. \A i : IsFiniteSet(below(i)) /\ Cardinality(below(i)) \in Nat
  <2>1. \A i : below(i) \subseteq at
    OBVIOUS
  <2> HIDE DEF below
  <2> QED
    BY <1>1, <2>1, FS_Subset, FS_CardinalityType
<1>3. \A j \in at : j \in Int /\ 1 <= j /\ j <= L
  OBVIOUS
<1>4. below(L) = at /\ below(0) = {}
  <2>1. \A j \in at : j <= L /\ ~(j <= 0)
    BY <1>3
  <2> QED
    BY <2>1
<1>5. Cardinality(below(0)) = 0 /\ k >= 1 /\ k \in Nat
  BY <1>1, <1>4, FS_EmptySet, FS_CardinalityType
<1>6. L \in S
  <2>1. Cardinality(below(L)) = Cardinality(at) /\ Cardinality(at) \in Nat
    BY <1>1, <1>4, FS_CardinalityType
  <2>2. Cardinality(below(L)) >= k
    BY <2>1
  <2> HIDE DEF below
  <2> QED
    BY <2>2
<1>7. PICK i \in S : \A j \in S : i <= j
  <2> HIDE DEF below
  <2>1. S \in SUBSET Nat /\ S # {}
    BY <1>6
  <2> HIDE DEF S
  <2> QED
    BY <2>1, NatMin
<1>8. i \in 0..L /\ Cardinality(below(i)) >= k
  BY <1>7
<1>9. i # 0
  BY <1>5, <1>8
<1>10. i - 1 \in 0..L /\ ~(Cardinality(below(i - 1)) >= k)
  <2>1. i - 1 \in 0..L /\ ~(i <= i - 1)
    BY <1>8, <1>9
  <2>2. i - 1 \notin S
    BY <1>7, <2>1
  <2> QED
    BY <2>1, <2>2
<1>11. i \in at
  <2>1. CASE i \notin at
    <3>1. \A j \in at : j <= i <=> j <= i - 1
      BY <1>3, <1>8, <2>1
    <3>2. below(i) = below(i - 1)
      BY <3>1
    <3> HIDE DEF below
    <3> QED
      BY <1>8, <1>10, <3>2
  <2> QED
    BY <2>1
<1>12. below(i) = below(i - 1) \cup {i} /\ i \notin below(i - 1)
  <2>1. \A j \in at : j <= i <=> j <= i - 1 \/ j = i
    BY <1>3, <1>8
  <2>2. ~(i <= i - 1) /\ i <= i
    BY <1>8
  <2> QED
    BY <1>11, <2>1, <2>2
<1> HIDE DEF below
<1>13. Cardinality(below(i)) = Cardinality(below(i - 1)) + 1
  BY <1>2, <1>12, FS_AddElement
<1>14. Cardinality(below(i)) = k
  BY <1>2, <1>5, <1>8, <1>10, <1>13
<1> QED
  BY <1>11, <1>14 DEF below

\* The lines of the moves of any source: each has the rank that it stands for.
Numbering(lines, at) ==
    /\ Cardinality(at) \in Nat /\ DOMAIN lines = 1..Cardinality(at) /\ Len(lines) = Cardinality(at)
    /\ \A k \in 1..Cardinality(at) :
          lines[k] \in at /\ Cardinality({j \in at : j <= lines[k]}) = k

\* MoveLines numbers the lines of the moves.
LEMMA MovesAreNumbered ==
    ASSUME NEW L \in Nat, NEW s, DOMAIN s = 1..L
    PROVE  Numbering(MoveLines(s), LinesOf(s, {"place", "pass"}))
<1> DEFINE at == LinesOf(s, {"place", "pass"})
           K == Cardinality(at)
           rank(i) == Cardinality({j \in at : j <= i})
           lines == [k \in 1..K |-> CHOOSE i \in at : rank(i) = k]
<1>1. at \in SUBSET (1..L)
  BY DEF LinesOf
<1>2. K \in Nat
  <2>1. IsFiniteSet(1..L)
    BY FS_Interval
  <2> HIDE DEF at
  <2> QED
    BY <1>1, <2>1, FS_Subset, FS_CardinalityType
<1>3. MoveLines(s) = lines
  BY DEF MoveLines
<1> HIDE DEF at
<1>4. \A k \in 1..K : \E i \in at : rank(i) = k
  BY <1>1, RankIsTaken
<1> HIDE DEF K, rank
<1>5. \A k \in 1..K : lines[k] \in at /\ rank(lines[k]) = k
  BY <1>4
<1>6. DOMAIN lines = 1..K /\ Len(lines) = K
  BY <1>2
<1> HIDE DEF lines
<1> QED
  BY <1>2, <1>3, <1>5, <1>6 DEF Numbering, K, rank, at

-----------------------------------------------------------------------------
\* A source that agrees with a record up to a line: from there on it has only
\* lines of the kinds that the record has from there on, passes and junk.
Harmed(s, L, w, n, at) ==
    /\ L \in Nat /\ DOMAIN s = 1..L /\ at \in Nat \ {0}
    /\ \A i \in 1..L : i < at => i \in 1..(n + 6) /\ s[i] = w[i]
    /\ \A i \in 1..L : i >= at => \/ s[i].kind \in {"pass", "junk"}
                                  \/ \E j \in at..(n + 6) : s[i].kind = w[j].kind

\* The lines before the damage.
SameUpTo(s, L, w, n, at) ==
    \A i \in 1..L : i < at => s[i].kind = KindAt(n, i) /\ i \in 1..(n + 6) /\ s[i] = w[i]

\* Before the damage the lines are of the kinds of the record.
LEMMA KindsBefore ==
    ASSUME NEW hist, NEW path, NEW n \in Nat, NEW w, Laid(w, hist, path, n),
           NEW s, NEW L, NEW at, Harmed(s, L, w, n, at)
    PROVE  SameUpTo(s, L, w, n, at)
<1> SUFFICES ASSUME NEW i \in 1..L, i < at
             PROVE  s[i].kind = KindAt(n, i) /\ i \in 1..(n + 6) /\ s[i] = w[i]
  BY DEF SameUpTo
<1>1. i \in 1..(n + 6) /\ s[i] = w[i]
  BY DEF Harmed
<1>2. w[i].kind = KindAt(n, i)
  BY <1>1, LaidKinds
<1> QED
  BY <1>1, <1>2

\* The start line before the damage is the one of the record.
LEMMA StartBefore ==
    ASSUME NEW hist, NEW path, NEW n \in Nat, NEW w, Laid(w, hist, path, n),
           NEW s, NEW L, NEW at, Harmed(s, L, w, n, at), 5 < at, 5 <= L
    PROVE  FirstLine(s, "start") = 5 /\ s[5].seed = seed /\ s[5].gameId = GameId
<1>1. L \in Nat /\ DOMAIN s = 1..L /\ at \in Nat /\ 5 \in 1..L
  BY DEF Harmed
<1> DEFINE S == LinesOf(s, {"start"})
<1>2. s[5] = StartLine(GameId, seed)
  <2>1. s[5] = w[5]
    BY <1>1 DEF Harmed
  <2> QED
    BY <2>1 DEF Laid
<1>3. s[5].kind = "start" /\ s[5].seed = seed /\ s[5].gameId = GameId
  BY <1>2 DEF StartLine
<1>4. 5 \in S /\ S \in SUBSET Nat /\ S # {}
  BY <1>1, <1>3 DEF LinesOf
<1>5. Least(S) \in S /\ Least(S) <= 5
  BY <1>4, LeastIs
<1>6. ASSUME NEW i \in S, i < 5
      PROVE  FALSE
  <2>1. i \in 1..L /\ i < at /\ s[i].kind = "start"
    BY <1>1, <1>6 DEF LinesOf
  <2>2. KindAt(n, i) = "start"
    BY <2>1, KindsBefore DEF SameUpTo
  <2> QED
    BY <1>6, <2>1, <2>2 DEF KindAt
<1>7. Least(S) = 5
  <2>1. Least(S) \in Nat /\ ~(Least(S) < 5)
    BY <1>4, <1>5, <1>6
  <2> QED
    BY <1>5, <2>1
<1>8. FirstLine(s, "start") = Least(S)
  BY <1>4 DEF FirstLine
<1> QED
  BY <1>3, <1>7, <1>8

\* The first m moves are before the damage, on the lines where the record has them.
MovesUpTo(s, L, w, n, at, m) ==
    /\ m \in 1..n /\ m \in Nat /\ 5 + m < at /\ 5 + m <= L
    /\ \A k \in 1..m : MoveLines(s)[k] = 5 + k /\ s[5 + k] = w[5 + k]

\* The moves before the damage are those of the record, and numbered alike.
LEMMA MovesBefore ==
    ASSUME NEW hist, NEW path, NEW n \in Nat, NEW w, Laid(w, hist, path, n),
           NEW s, NEW L, NEW at, Harmed(s, L, w, n, at),
           NEW m \in 1..Len(MoveLines(s)), MoveLines(s)[m] < at
    PROVE  MovesUpTo(s, L, w, n, at, m)
<1> DEFINE M == LinesOf(s, {"place", "pass"})
           lines == MoveLines(s)
           x == lines[m]
           K == Cardinality(M)
           upTo(i) == {j \in M : j <= i}
<1>1. L \in Nat /\ DOMAIN s = 1..L /\ at \in Nat
  BY DEF Harmed
<1>2. Numbering(lines, M)
  BY <1>1, MovesAreNumbered
<1>3. K \in Nat /\ m \in 1..K
  BY <1>2 DEF Numbering
<1>4. \A k \in 1..K : lines[k] \in M /\ Cardinality(upTo(lines[k])) = k
  BY <1>2 DEF Numbering
<1>5. M \in SUBSET (1..L) /\ \A i \in M : i \in Int /\ 1 <= i /\ i <= L
  BY <1>1 DEF LinesOf
<1>6. ASSUME NEW i \in 1..L, i < at
      PROVE  i \in M <=> i \in 6..(n + 5)
  <2>1. s[i].kind = KindAt(n, i) /\ i \in 1..(n + 6)
    BY <1>6, KindsBefore DEF SameUpTo
  <2>2. i \in M <=> KindAt(n, i) \in {"place", "pass"}
    BY <1>1, <2>1 DEF LinesOf
  <2>3. KindAt(n, i) \in {"place", "pass"} <=> i \in 6..(n + 5)
    BY <2>1 DEF KindAt
  <2> QED
    BY <2>2, <2>3
<1>7. x \in M /\ Cardinality(upTo(x)) = m /\ x < at
  BY <1>3, <1>4
<1> HIDE DEF M, lines, x, K
<1>8. ASSUME NEW i \in M, i < at
      PROVE  Cardinality(upTo(i)) = i - 5 /\ i \in 6..(n + 5)
  <2>1. i \in 6..(n + 5) /\ i <= L /\ i \in 1..L
    BY <1>5, <1>6, <1>8
  <2>2. ASSUME NEW j
        PROVE  j \in upTo(i) <=> j \in 6..i
    <3>1. j \in upTo(i) => j \in 1..L /\ j < at /\ j <= i /\ j \in M
      BY <1>1, <1>5, <1>8, <2>1
    <3>2. j \in 6..i => j \in 1..L /\ j < at /\ j <= i /\ j \in 6..(n + 5)
      BY <1>1, <1>8, <2>1
    <3>3. j \in upTo(i) => j \in 6..i
      BY <1>6, <3>1
    <3>4. j \in 6..i => j \in upTo(i)
      BY <1>6, <3>2
    <3> QED
      BY <3>3, <3>4
  <2> HIDE DEF upTo
  <2>3. upTo(i) = 6..i
    BY <2>2
  <2>4. i \in Int /\ i >= 6
    BY <2>1
  <2>5. Cardinality(6..i) = i - 5
    BY <2>4, FS_Interval
  <2> QED
    BY <2>1, <2>3, <2>5
<1>9. x \in 6..(n + 5) /\ m = x - 5
  BY <1>7, <1>8
<1>10. m \in Nat /\ m \in 1..n /\ 5 + m = x /\ x <= L
  BY <1>5, <1>7, <1>9
<1>11. ASSUME NEW k \in 1..m
       PROVE  lines[k] = 5 + k /\ s[5 + k] = w[5 + k]
  <2> DEFINE y == lines[k]
  <2>1. k \in 1..K /\ k \in Nat
    BY <1>3, <1>10
  <2>2. y \in M /\ Cardinality(upTo(y)) = k
    BY <1>4, <2>1
  <2> HIDE DEF y
  <2>3. y < at
    <3>1. SUFFICES ASSUME y >= at PROVE FALSE
      BY <1>1, <1>5, <2>2
    <3>2. x < y /\ x \in Int /\ y \in Int
      BY <1>1, <1>5, <1>7, <2>2, <3>1
    <3>3. ~(y <= x) /\ \A j \in M : j <= x => j <= y
      BY <1>5, <3>2
    <3>4. upTo(x) \cup {y} \subseteq upTo(y) /\ y \notin upTo(x)
      <4>1. y <= y
        BY <3>2
      <4> QED
        BY <2>2, <3>3, <4>1
    <3>5. IsFiniteSet(upTo(x)) /\ IsFiniteSet(upTo(y))
      <4>1. IsFiniteSet(1..L)
        BY <1>1, FS_Interval
      <4>2. upTo(x) \subseteq 1..L /\ upTo(y) \subseteq 1..L
        BY <1>5
      <4> HIDE DEF upTo
      <4> QED
        BY <4>1, <4>2, FS_Subset
    <3> HIDE DEF upTo
    <3>6. Cardinality(upTo(x) \cup {y}) = m + 1
      BY <1>7, <3>4, <3>5, FS_AddElement
    <3>7. Cardinality(upTo(x) \cup {y}) <= Cardinality(upTo(y))
      BY <3>4, <3>5, FS_Subset
    <3> QED
      BY <1>10, <2>1, <2>2, <3>6, <3>7
  <2>4. y - 5 = k /\ y \in 6..(n + 5)
    BY <1>8, <2>2, <2>3
  <2>5. y = 5 + k /\ y \in 1..L
    BY <1>5, <2>1, <2>2, <2>4
  <2>6. s[y] = w[y]
    BY <2>3, <2>5, KindsBefore DEF SameUpTo
  <2> QED
    BY <2>5, <2>6 DEF y
<1> QED
  BY <1>7, <1>10, <1>11 DEF lines, x, MovesUpTo

-----------------------------------------------------------------------------
\* Frames are only ever added.
Prolongs(t, s) ==
    /\ Listed(s) /\ Listed(t) /\ Len(s) \in Nat /\ Len(t) \in Nat /\ Len(s) <= Len(t)
    /\ \A j \in 1..Len(s) : t[j] = s[j]

\* Each move of the lines is judged if all before it were accepted.
Stepping(f, K, line) ==
    \A k \in 1..K : f[k] = IF Len(f[k-1]) < k THEN f[k-1] ELSE Extended(f[k-1], line[k])

\* A move adds at most one frame and leaves the others.
LEMMA OneAtMost ==
    ASSUME NEW x, Listed(x), NEW line
    PROVE  /\ Prolongs(Extended(x, line), x) /\ Len(Extended(x, line)) <= Len(x) + 1
           /\ Prolongs(x, x)
<1>1. PICK T : x \in Seq(T)
  BY DEF Listed
<1>2. Len(x) \in Nat
  BY <1>1, LenProperties
<1>3. Prolongs(x, x)
  BY <1>2 DEF Prolongs
<1>4. ASSUME NEW e
      PROVE  Prolongs(Append(x, e), x) /\ Len(Append(x, e)) = Len(x) + 1
  <2> DEFINE V == T \cup {e}
             a == Append(x, e)
  <2>1. x \in Seq(V) /\ e \in V
    BY <1>1, SeqMonotonic
  <2> HIDE DEF V
  <2>2. a \in Seq(V) /\ Len(a) = Len(x) + 1 /\ \A j \in 1..Len(x) : a[j] = x[j]
    BY <2>1, AppendProperties
  <2> HIDE DEF a
  <2>3. Listed(a)
    BY <2>2 DEF Listed
  <2> QED
    BY <1>2, <2>2, <2>3 DEF Prolongs, a
<1>5. Extended(x, line) = x \/ \E e : Extended(x, line) = Append(x, e)
  BY DEF Extended
<1>6. CASE Extended(x, line) = x
  BY <1>2, <1>3, <1>6
<1>7. ASSUME NEW e, Extended(x, line) = Append(x, e)
      PROVE  Prolongs(Extended(x, line), x) /\ Len(Extended(x, line)) <= Len(x) + 1
  <2>1. Prolongs(Append(x, e), x) /\ Len(Append(x, e)) = Len(x) + 1
    BY <1>4
  <2> QED
    BY <1>2, <1>7, <2>1
<1> QED
  BY <1>3, <1>5, <1>6, <1>7

\* So the frames after a move are the first of those after a later one.
LEMMA FramesStay ==
    ASSUME NEW f, NEW K \in Nat, NEW line, NEW first, f[0] = <<first>>, Stepping(f, K, line)
    PROVE  /\ \A k \in 0..K : Listed(f[k]) /\ Len(f[k]) \in 1..(k + 1)
           /\ \A k \in 0..K : Prolongs(f[K], f[k])
<1>1. \A k \in 0..K : Listed(f[k]) /\ Len(f[k]) \in 1..(k + 1)
  <2> DEFINE S == {k \in 0..K : ~(Listed(f[k]) /\ Len(f[k]) \in 1..(k + 1))}
  <2>1. SUFFICES ASSUME S # {} PROVE FALSE
    OBVIOUS
  <2>2. PICK k \in S : \A j \in S : k <= j
    <3>1. S \in SUBSET Nat
      OBVIOUS
    <3> HIDE DEF S
    <3> QED
      BY <2>1, <3>1, NatMin
  <2>3. CASE k = 0
    <3>1. <<first>> \in Seq({first}) /\ Len(<<first>>) = 1
      OBVIOUS
    <3>2. Listed(f[0]) /\ Len(f[0]) = 1
      BY <3>1 DEF Listed
    <3>3. Listed(f[k]) /\ Len(f[k]) \in 1..(k + 1)
      BY <2>3, <3>2
    <3> QED
      BY <2>2, <3>3
  <2>4. CASE k # 0
    <3>1. k \in 1..K /\ k - 1 \in 0..K /\ ~(k <= k - 1)
      BY <2>2, <2>4
    <3>2. Listed(f[k-1]) /\ Len(f[k-1]) \in 1..((k - 1) + 1)
      BY <2>2, <3>1
    <3>3. f[k] = f[k-1] \/ f[k] = Extended(f[k-1], line[k])
      BY <3>1 DEF Stepping
    <3>4. Prolongs(f[k], f[k-1]) /\ Len(f[k]) <= Len(f[k-1]) + 1
      BY <3>2, <3>3, OneAtMost
    <3> QED
      BY <2>2, <3>1, <3>2, <3>4 DEF Prolongs
  <2> QED
    BY <2>3, <2>4
<1>2. ASSUME NEW i \in 0..K
      PROVE  Prolongs(f[K], f[i])
  <2> DEFINE S == {k \in i..K : ~Prolongs(f[k], f[i])}
  <2>1. SUFFICES ASSUME S # {} PROVE FALSE
    <3>1. K \in i..K
      OBVIOUS
    <3> QED
      BY <3>1
  <2>2. PICK k \in S : \A j \in S : k <= j
    <3>1. S \in SUBSET Nat
      OBVIOUS
    <3> HIDE DEF S
    <3> QED
      BY <2>1, <3>1, NatMin
  <2>3. k \in i..K /\ ~Prolongs(f[k], f[i])
    BY <2>2
  <2>4. CASE k = i
    BY <1>1, <2>3, <2>4, OneAtMost
  <2>5. CASE k # i
    <3>1. k \in 1..K /\ k - 1 \in 0..K /\ k - 1 \in i..K /\ ~(k <= k - 1)
      BY <2>3, <2>5
    <3>2. Prolongs(f[k-1], f[i])
      BY <2>2, <3>1
    <3>3. f[k] = f[k-1] \/ f[k] = Extended(f[k-1], line[k])
      BY <3>1 DEF Stepping
    <3>4. Prolongs(f[k], f[k-1])
      BY <1>1, <3>1, <3>3, OneAtMost
    <3>5. Prolongs(f[k], f[i])
      BY <3>2, <3>4 DEF Prolongs
    <3> QED
      BY <2>3, <3>5
  <2> QED
    BY <2>4, <2>5
<1> QED
  BY <1>1, <1>2

-----------------------------------------------------------------------------
\* What a replay may answer for any source at all.
CountOf(s, kind) == Cardinality(LinesOf(s, {kind}))

\* The checks that may have spoken, each with what it says.
Answers(s, blame) ==
    \/ FirstLine(s, "junk") # 0 /\ blame = Blame("record_syntax_error", FirstLine(s, "junk"))
    \/ blame.line = 0 /\ blame.code \notin {"record_illegal_move", "ok"}
    \/ CountOf(s, "version") # 1 /\ blame = Blame("record_missing_header", FirstLine(s, "version"))
    \/ /\ s[FirstLine(s, "version")].rules # RulesVersion
       /\ blame = Blame("record_unsupported_rules_version", FirstLine(s, "version"))
    \/ /\ ~ValidGameId(s[FirstLine(s, "start")].gameId)
       /\ blame = Blame("record_missing_header", FirstLine(s, "start"))
    \/ /\ CountOf(s, "start") = 1 /\ CountOf(s, "version") = 1 /\ ~(CountOf(s, "end") > 1)
       /\ blame = FramesBlame(s, Frames(s))

\* These are the answers.
LEMMA AnswersAre ==
    ASSUME NEW s
    PROVE  Answers(s, Replay(s, "answered").blame)
<1> DEFINE junk == FirstLine(s, "junk")
           version == FirstLine(s, "version")
           start == FirstLine(s, "start")
           scan == ScanBlame(s)
           script == ScriptBlame(s)
           unsupported == Blame("record_unsupported_rules_version", version)
           B == Replay(s, "answered").blame
<1>1. Accepted.code = "ok" /\ \A code, line : Blame(code, line).code = code /\ Blame(code, line).line = line
  BY BlameIs
<1>2. \/ junk # 0 /\ scan = Blame("record_syntax_error", junk)
      \/ scan = Blame("record_missing_header", 0)
      \/ scan = Blame("record_syntax_error", 0)
      \/ CountOf(s, "version") # 1 /\ scan = Blame("record_missing_header", version)
      \/ /\ CountOf(s, "start") = 1 /\ ~(CountOf(s, "end") > 1) /\ CountOf(s, "version") = 1
         /\ scan = IF s[version].rules # RulesVersion THEN unsupported ELSE Accepted
  BY ScanCases DEF CountOf
<1>3. \/ script = Blame("record_syntax_error", 0)
      \/ ~ValidGameId(s[start].gameId) /\ script = Blame("record_missing_header", start)
      \/ script = Accepted
  BY ScriptCases
<1>4. CASE scan # Accepted
  <2>1. Decode(s, "answered") = scan
    BY <1>4 DEF Decode
  <2>2. Replay(s, "answered") = Result(s, <<>>, scan)
    BY <1>4, <2>1 DEF Replay
  <2>3. B = scan
    BY <2>2, ResultIs
  <2> HIDE DEF B, scan, script, unsupported
  <2>4. B # Accepted
    BY <1>4, <2>3
  <2>5. Answers(s, B)
    <3>1. CASE scan = Blame("record_missing_header", 0) \/ scan = Blame("record_syntax_error", 0)
      BY <1>1, <2>3, <3>1 DEF Answers
    <3>2. CASE scan = IF s[version].rules # RulesVersion THEN unsupported ELSE Accepted
      BY <1>4, <2>3, <3>2 DEF Answers, unsupported
    <3> QED
      BY <1>2, <2>3, <3>1, <3>2 DEF Answers
  <2> QED
    BY <2>5 DEF B
<1>5. CASE scan = Accepted /\ script # Accepted
  <2>1. Decode(s, "answered") = script
    BY <1>5 DEF Decode
  <2>2. Replay(s, "answered") = Result(s, <<>>, script)
    BY <1>5, <2>1 DEF Replay
  <2>3. B = script
    BY <2>2, ResultIs
  <2> HIDE DEF B, scan, script
  <2>4. Answers(s, B)
    <3>1. CASE script = Blame("record_syntax_error", 0)
      BY <1>1, <2>3, <3>1 DEF Answers
    <3> QED
      BY <1>3, <1>5, <2>3, <3>1 DEF Answers
  <2> QED
    BY <2>4 DEF B
<1>6. CASE scan = Accepted /\ script = Accepted
  <2> DEFINE F == Frames(s)
             R == Result(s, F, FramesBlame(s, F))
  <2>1. Decode(s, "answered") = Accepted
    BY <1>6 DEF Decode
  <2>2. Replay(s, "answered") = Deref({Result(s, x, FramesBlame(s, x)) : x \in {F}})
    BY <2>1 DEF Replay
  <2> HIDE DEF F
  <2>3. {Result(s, x, FramesBlame(s, x)) : x \in {F}} = {R}
    OBVIOUS
  <2>4. R.blame = FramesBlame(s, F)
    BY ResultIs
  <2> HIDE DEF R
  <2>5. Deref({R}) = R
    BY DerefIs
  <2>6. B = FramesBlame(s, Frames(s))
    BY <2>2, <2>3, <2>4, <2>5 DEF F
  <2>7. CountOf(s, "start") = 1 /\ ~(CountOf(s, "end") > 1) /\ CountOf(s, "version") = 1
    <3> HIDE DEF B, scan, script
    <3>1. /\ scan.code = "ok"
          /\ Blame("record_syntax_error", junk).code # "ok"
          /\ Blame("record_missing_header", 0).code # "ok"
          /\ Blame("record_syntax_error", 0).code # "ok"
          /\ Blame("record_missing_header", version).code # "ok"
      BY <1>1, <1>6
    <3> QED
      BY <1>2, <3>1
  <2> HIDE DEF B
  <2>8. Answers(s, B)
    BY <2>6, <2>7 DEF Answers
  <2> QED
    BY <2>8 DEF B
<1> QED
  BY <1>4, <1>5, <1>6

\* The answers after the frames are made: to a move that was rejected, to a
\* note and to the end.
NoteOff(s, frames, k) ==
    LET e == Deref(frames[k + 1].event)
    IN  /\ s[MoveLines(s)[k]].kind = "place"
        /\ s[MoveLines(s)[k]].note # {<<Deref(e.placedColor), Cardinality(e.changes)>>}

\* A move that is rejected, a note that is off, an end that does not fit, or none of these.
FrameAnswers(s, frames, blame) ==
    \/ /\ Len(frames) <= Len(MoveLines(s))
       /\ blame = Blame("record_illegal_move", MoveLines(s)[Len(frames)])
    \/ /\ ~(Len(frames) <= Len(MoveLines(s)))
       /\ \E k \in 1..Len(MoveLines(s)) :
             NoteOff(s, frames, k) /\ blame = Blame("record_mismatch", MoveLines(s)[k])
    \/ blame.line = 0 /\ blame.code \notin {"record_illegal_move", "ok"}
    \/ /\ ~(Len(frames) <= Len(MoveLines(s))) /\ blame = Accepted
       /\ LinesOf(s, {"end"}) # {} /\ Last(frames).phase = "finished"

\* These are those answers.
LEMMA FrameAnswersAre ==
    ASSUME NEW L \in Nat, NEW s, DOMAIN s = 1..L, NEW frames
    PROVE  FrameAnswers(s, frames, FramesBlame(s, frames))
<1> DEFINE lines == MoveLines(s)
           K == Len(lines)
           B == FramesBlame(s, frames)
<1>1. K \in Nat /\ DOMAIN lines = 1..K
  <2>1. Numbering(lines, LinesOf(s, {"place", "pass"}))
    BY MovesAreNumbered
  <2> QED
    BY <2>1 DEF Numbering
<1>2. Accepted.code = "ok" /\ \A code, line : Blame(code, line).code = code /\ Blame(code, line).line = line
  BY BlameIs
<1>3. CASE Len(frames) <= K
  BY <1>3 DEF FramesBlame, IllegalMove, FrameAnswers
<1>4. CASE ~(Len(frames) <= K) /\ NoteBlame(s, frames) # Accepted
  <2> DEFINE seen(k) == LET e == Deref(frames[k + 1].event)
                        IN  {<<Deref(e.placedColor), Cardinality(e.changes)>>}
             bad == {k \in DOMAIN lines : /\ s[lines[k]].kind = "place"
                                          /\ s[lines[k]].note \notin {{}, seen(k)}}
  <2>1. NoteBlame(s, frames) = IF bad = {} THEN Accepted
                               ELSE Blame("record_mismatch", lines[Least(bad)])
    BY DEF NoteBlame
  <2>2. bad # {} /\ B = Blame("record_mismatch", lines[Least(bad)])
    BY <1>4, <2>1 DEF FramesBlame
  <2>3. Least(bad) \in bad
    <3>1. bad \in SUBSET Nat
      BY <1>1
    <3> HIDE DEF bad
    <3> QED
      BY <2>2, <3>1, LeastIs
  <2>4. NoteOff(s, frames, Least(bad)) /\ Least(bad) \in 1..K
    BY <1>1, <2>3 DEF NoteOff
  <2> HIDE DEF bad
  <2> QED
    BY <1>4, <2>2, <2>4 DEF FrameAnswers
<1>5. CASE ~(Len(frames) <= K) /\ NoteBlame(s, frames) = Accepted
  <2>1. B = FinishBlame(s, Last(frames))
    BY <1>5 DEF FramesBlame
  <2>2. \/ B = Blame("record_unfinished", 0) \/ B = Blame("record_mismatch", 0)
        \/ B = Accepted /\ LinesOf(s, {"end"}) # {} /\ Last(frames).phase = "finished"
    BY <2>1 DEF FinishBlame
  <2> HIDE DEF B
  <2>3. FrameAnswers(s, frames, B)
    <3>1. CASE B = Blame("record_unfinished", 0) \/ B = Blame("record_mismatch", 0)
      BY <1>2, <3>1 DEF FrameAnswers
    <3> QED
      BY <1>5, <2>2, <3>1 DEF FrameAnswers
  <2> QED
    BY <2>3 DEF B
<1> QED
  BY <1>3, <1>4, <1>5

\* The frames of any source, made one after another.
LEMMA FramesStep ==
    ASSUME NEW L \in Nat, NEW s, DOMAIN s = 1..L
    PROVE  LET K == Len(MoveLines(s))
               line == [k \in 1..K |-> s[MoveLines(s)[k]]]
           IN  /\ K \in Nat
               /\ \E f : /\ Frames(s) = f[K] /\ Stepping(f, K, line)
                         /\ f[0] = <<[state |-> NewGame(s[FirstLine(s, "start")].seed), event |-> {}]>>
<1> DEFINE K == Len(MoveLines(s))
           line == [k \in 1..K |-> s[MoveLines(s)[k]]]
           first == <<[state |-> NewGame(s[FirstLine(s, "start")].seed), event |-> {}]>>
<1>1. K \in Nat
  <2>1. Numbering(MoveLines(s), LinesOf(s, {"place", "pass"}))
    BY MovesAreNumbered
  <2> QED
    BY <2>1 DEF Numbering
<1>2. PICK f : /\ Frames(s) = f[K]
               /\ f[0] = <<[state |-> NewGame(s[FirstLine(s, "start")].seed), event |-> {}]>>
               /\ \A k \in 1..K : f[k] = IF Len(f[k-1]) < k THEN f[k-1]
                                         ELSE Extended(f[k-1], s[MoveLines(s)[k]])
  <2>1. Len(MoveLines(s)) = K
    OBVIOUS
  <2> HIDE DEF K
  <2> QED
    BY <1>1, <2>1, FramesAre
<1>3. Stepping(f, K, line)
  <2>1. \A k \in 1..K : line[k] = s[MoveLines(s)[k]]
    OBVIOUS
  <2> HIDE DEF K, line
  <2> QED
    BY <1>2, <2>1 DEF Stepping
<1>4. f[0] = first
  BY <1>2
<1> HIDE DEF K, line, first
<1>5. K \in Nat /\ \E g : Frames(s) = g[K] /\ Stepping(g, K, line) /\ g[0] = first
  BY <1>1, <1>2, <1>3, <1>4
<1> QED
  BY <1>5 DEF K, line, first

\* As far as the moves go before the damage, the record is replayed as it was.
LEMMA ToldBefore ==
    ASSUME NEW hist, NEW path, NEW n, Course(hist, path, n), NEW w, Laid(w, hist, path, n),
           NEW s, NEW L, NEW at, Harmed(s, L, w, n, at),
           NEW m \in 1..Len(MoveLines(s)), MoveLines(s)[m] < at
    PROVE  /\ m \in 1..n /\ s[MoveLines(s)[m]] = LineOf(hist[m-1], path[m])
           /\ Prolongs(Frames(s), Story(hist, path, m))
<1> DEFINE K == Len(MoveLines(s))
           line == [k \in 1..K |-> s[MoveLines(s)[k]]]
<1>1. n \in Nat /\ L \in Nat /\ DOMAIN s = 1..L /\ at \in Nat
  BY DEF Course, Harmed
<1>2. /\ m \in 1..n /\ m \in Nat /\ 5 + m < at /\ 5 + m <= L
      /\ \A k \in 1..m : MoveLines(s)[k] = 5 + k /\ s[5 + k] = w[5 + k]
  <2>1. MovesUpTo(s, L, w, n, at, m)
    BY <1>1, MovesBefore
  <2> QED
    BY <2>1 DEF MovesUpTo
<1>3. FirstLine(s, "start") = 5 /\ s[5].seed = seed
  <2>1. 5 < at /\ 5 <= L
    BY <1>1, <1>2
  <2> QED
    BY <1>1, <2>1, StartBefore
<1>4. K \in Nat
  BY <1>1, FramesStep
<1>5. PICK f : /\ Frames(s) = f[K] /\ Stepping(f, K, line)
               /\ f[0] = <<[state |-> NewGame(s[FirstLine(s, "start")].seed), event |-> {}]>>
  BY <1>1, FramesStep
<1>6. m <= K /\ m \in 0..n /\ m \in 0..K /\ m \in 1..m
  BY <1>1, <1>2, <1>4
<1>7. ASSUME NEW k \in 1..m
      PROVE  line[k] = LineOf(hist[k-1], path[k])
  <2>1. k \in 1..K /\ k \in 1..n
    <3> HIDE DEF K, line
    <3> QED
      BY <1>1, <1>2, <1>4, <1>6
  <2>2. line[k] = w[5 + k]
    BY <1>2, <2>1
  <2> QED
    BY <2>1, <2>2 DEF Laid
<1>8. s[MoveLines(s)[m]] = LineOf(hist[m-1], path[m])
  BY <1>4, <1>7, <1>6
<1> HIDE DEF K, line
<1>9. Starting(line, path, m)
  <2>1. \A k \in 1..m : LineOf(hist[k-1], path[k]).kind = "place" /\ LineOf(hist[k-1], path[k]).cell = path[k]
    BY DEF LineOf, PlaceLine
  <2> QED
    BY <1>7, <2>1 DEF Starting
<1>10. Growing(f, K, line)
  BY <1>3, <1>5 DEF Growing, Stepping
<1>11. f[m] = Story(hist, path, m)
  <2>1. \A k \in 0..m : f[k] = Story(hist, path, k)
    BY <1>4, <1>6, <1>9, <1>10, FramesTell
  <2>2. m \in 0..m
    BY <1>2
  <2> QED
    BY <2>1, <2>2
<1>12. Prolongs(f[K], f[m])
  BY <1>4, <1>5, <1>6, FramesStay
<1> QED
  BY <1>2, <1>5, <1>8, <1>11, <1>12

\* The first line of a kind.
LEMMA FirstIs ==
    ASSUME NEW L \in Nat, NEW s, DOMAIN s = 1..L, NEW kind, FirstLine(s, kind) # 0
    PROVE  FirstLine(s, kind) \in 1..L /\ s[FirstLine(s, kind)].kind = kind
<1> DEFINE S == LinesOf(s, {kind})
<1>1. S # {} /\ FirstLine(s, kind) = Least(S)
  BY DEF FirstLine
<1>2. S \in SUBSET Nat /\ \A i \in S : i \in 1..L /\ s[i].kind = kind
  BY DEF LinesOf
<1> HIDE DEF S
<1>3. Least(S) \in S
  BY <1>1, <1>2, LeastIs
<1> QED
  BY <1>1, <1>2, <1>3

\* No line before the damage is ever blamed, and a rejected move is blamed on
\* a line.
LEMMA BlamedAfter ==
    ASSUME NEW hist, NEW path, NEW n, Course(hist, path, n), NEW w, Laid(w, hist, path, n),
           NEW s, NEW L, NEW at, Harmed(s, L, w, n, at)
    PROVE  LET blame == Replay(s, "answered").blame
           IN  /\ blame.line # 0 => blame.line >= at
               /\ blame.code = "record_illegal_move" => blame.line # 0
<1> DEFINE B == Replay(s, "answered").blame
           Good == /\ B.line # 0 => B.line >= at
                   /\ B.code = "record_illegal_move" => B.line # 0
           junk == FirstLine(s, "junk")
           version == FirstLine(s, "version")
           start == FirstLine(s, "start")
<1>1. n \in Nat /\ L \in Nat /\ DOMAIN s = 1..L /\ at \in Nat
  BY DEF Course, Harmed
<1>2. Accepted.code = "ok" /\ Accepted.line = 0
      /\ \A code, line : Blame(code, line).code = code /\ Blame(code, line).line = line
  BY BlameIs
<1>3. Answers(s, B)
  BY AnswersAre
<1>4. SameUpTo(s, L, w, n, at)
  BY <1>1, KindsBefore
<1>5. ASSUME NEW kind, FirstLine(s, kind) # 0, ~(FirstLine(s, kind) >= at)
      PROVE  /\ KindAt(n, FirstLine(s, kind)) = kind /\ FirstLine(s, kind) \in 1..(n + 6)
             /\ FirstLine(s, kind) < at /\ FirstLine(s, kind) \in 1..L
             /\ s[FirstLine(s, kind)] = w[FirstLine(s, kind)]
  <2> DEFINE i == FirstLine(s, kind)
  <2>1. i \in 1..L /\ s[i].kind = kind
    BY <1>1, <1>5, FirstIs
  <2>2. i < at
    BY <1>1, <1>5, <2>1
  <2> HIDE DEF i
  <2>3. s[i].kind = KindAt(n, i) /\ i \in 1..(n + 6) /\ s[i] = w[i]
    BY <1>4, <2>1, <2>2 DEF SameUpTo
  <2> QED
    BY <2>1, <2>2, <2>3 DEF i
<1> SUFFICES Good
  OBVIOUS
<1> HIDE DEF B
<1>6. CASE junk # 0 /\ B = Blame("record_syntax_error", junk)
  <2>1. B.line = junk /\ B.code = "record_syntax_error"
    BY <1>2, <1>6
  <2>2. junk >= at
    <3>1. SUFFICES ASSUME ~(junk >= at) PROVE FALSE
      OBVIOUS
    <3>2. KindAt(n, junk) = "junk"
      BY <1>5, <1>6, <3>1
    <3> QED
      BY <3>2 DEF KindAt
  <2> QED
    BY <2>1, <2>2
<1>7. CASE B.line = 0 /\ B.code \notin {"record_illegal_move", "ok"}
  BY <1>7
<1>8. ASSUME version # 0, ~(version >= at)
      PROVE  version = 4 /\ s[4] = RulesVersionLine /\ LinesOf(s, {"version"}) = {4}
  <2>1. /\ KindAt(n, version) = "version" /\ version \in 1..(n + 6) /\ version < at
        /\ version \in 1..L /\ s[version] = w[version]
    BY <1>5, <1>8
  <2> HIDE DEF version
  <2>2. version = 4
    BY <1>1, <2>1 DEF KindAt
  <2>3. s[4] = RulesVersionLine
    BY <2>1, <2>2 DEF Laid
  <2>4. s[4].kind = "version" /\ 4 \in 1..L /\ 4 < at
    BY <2>1, <2>2, <2>3 DEF RulesVersionLine
  <2>5. ASSUME NEW i \in 1..L, s[i].kind = "version"
        PROVE  i = 4
    <3>1. CASE i < at
      <4>1. KindAt(n, i) = "version" /\ i \in 1..(n + 6)
        BY <1>4, <2>5, <3>1 DEF SameUpTo
      <4> QED
        BY <1>1, <4>1 DEF KindAt
    <3>2. CASE i >= at
      <4>1. PICK j \in at..(n + 6) : w[j].kind = "version"
        BY <2>5, <3>2 DEF Harmed
      <4>2. j \in 1..(n + 6) /\ j > 4
        BY <1>1, <2>4
      <4>3. KindAt(n, j) = "version"
        BY <1>1, <4>1, <4>2, LaidKinds
      <4> QED
        BY <1>1, <4>2, <4>3 DEF KindAt
    <3> QED
      BY <1>1, <3>1, <3>2
  <2>6. LinesOf(s, {"version"}) = {4}
    BY <1>1, <2>4, <2>5 DEF LinesOf
  <2> QED
    BY <2>2, <2>3, <2>6
<1>9. CASE CountOf(s, "version") # 1 /\ B = Blame("record_missing_header", version)
  <2>1. B.line = version /\ B.code = "record_missing_header"
    BY <1>2, <1>9
  <2>2. ASSUME version # 0, ~(version >= at)
        PROVE  FALSE
    <3>1. LinesOf(s, {"version"}) = {4}
      BY <1>8, <2>2
    <3>2. Cardinality({4}) = 1
      BY FS_Singleton
    <3> QED
      BY <1>9, <3>1, <3>2 DEF CountOf
  <2> QED
    BY <2>1, <2>2
<1>10. CASE /\ s[version].rules # RulesVersion
            /\ B = Blame("record_unsupported_rules_version", version)
  <2>1. B.line = version /\ B.code = "record_unsupported_rules_version"
    BY <1>2, <1>10
  <2>2. ASSUME version # 0, ~(version >= at)
        PROVE  FALSE
    <3>1. s[version] = RulesVersionLine
      BY <1>8, <2>2
    <3> QED
      BY <1>10, <3>1 DEF RulesVersionLine
  <2> QED
    BY <2>1, <2>2
<1>11. CASE ~ValidGameId(s[start].gameId) /\ B = Blame("record_missing_header", start)
  <2>1. B.line = start /\ B.code = "record_missing_header"
    BY <1>2, <1>11
  <2>2. ASSUME start # 0, ~(start >= at)
        PROVE  FALSE
    <3>1. KindAt(n, start) = "start" /\ start \in 1..(n + 6) /\ s[start] = w[start]
      BY <1>5, <2>2
    <3> HIDE DEF start
    <3>2. start = 5
      BY <1>1, <3>1 DEF KindAt
    <3>3. s[start] = StartLine(GameId, seed)
      BY <3>1, <3>2 DEF Laid
    <3> QED
      BY <1>11, <3>3 DEF StartLine, ValidGameId
  <2> QED
    BY <2>1, <2>2
<1>12. CASE B = FramesBlame(s, Frames(s))
  <2> DEFINE frames == Frames(s)
             lines == MoveLines(s)
             K == Len(lines)
  <2>1. FrameAnswers(s, frames, B)
    BY <1>1, <1>12, FrameAnswersAre
  <2>2. K \in Nat /\ \A k \in 1..K : lines[k] \in 1..L
    <3>1. Numbering(lines, LinesOf(s, {"place", "pass"}))
      BY <1>1, MovesAreNumbered
    <3> QED
      BY <1>1, <3>1 DEF Numbering, LinesOf
  <2>3. Len(frames) \in 1..(K + 1)
    <3>1. PICK f : /\ Frames(s) = f[K] /\ Stepping(f, K, [k \in 1..K |-> s[lines[k]]])
                   /\ f[0] = <<[state |-> NewGame(s[start].seed), event |-> {}]>>
      BY <1>1, FramesStep
    <3>2. K \in 0..K
      BY <2>2
    <3>3. Len(f[K]) \in 1..(K + 1)
      <4> HIDE DEF K
      <4> QED
        BY <2>2, <3>1, <3>2, FramesStay
    <3> QED
      BY <3>1, <3>3
  <2>4. CASE /\ Len(frames) <= K /\ B = Blame("record_illegal_move", lines[Len(frames)])
    <3> DEFINE m == Len(frames)
    <3>1. m \in 1..K /\ B.line = lines[m] /\ m \in Nat
      BY <1>2, <2>2, <2>3, <2>4
    <3>2. lines[m] # 0 /\ lines[m] \in Nat
      BY <1>1, <2>2, <3>1
    <3>3. ASSUME lines[m] < at
          PROVE  FALSE
      <4>1. Prolongs(frames, Story(hist, path, m))
        BY <3>1, <3>3, ToldBefore
      <4>2. Len(Story(hist, path, m)) = m + 1
        BY <3>1, StoryIs
      <4> QED
        BY <3>1, <4>1, <4>2 DEF Prolongs
    <3> QED
      BY <1>1, <3>1, <3>2, <3>3
  <2>5. ASSUME NEW k \in 1..K, NoteOff(s, frames, k), B = Blame("record_mismatch", lines[k])
        PROVE  Good
    <3>1. B.line = lines[k] /\ B.code = "record_mismatch" /\ k \in Nat /\ lines[k] \in Nat
      BY <1>1, <1>2, <2>2, <2>5
    <3>2. ASSUME lines[k] < at
          PROVE  FALSE
      <4>1. /\ k \in 1..n /\ s[lines[k]] = LineOf(hist[k-1], path[k])
            /\ Prolongs(frames, Story(hist, path, k))
        BY <3>2, ToldBefore
      <4>2. Len(Story(hist, path, k)) = k + 1 /\ Story(hist, path, k)[k + 1] = FrameOf(hist, path, k)
        <5>1. k \in 0..k
          BY <3>1
        <5> QED
          BY <3>1, <5>1, StoryIs
      <4>3. frames[k + 1] = FrameOf(hist, path, k)
        <5>1. k + 1 \in 1..(k + 1)
          BY <3>1
        <5> QED
          BY <4>1, <4>2, <5>1 DEF Prolongs
      <4>4. k # 0
        BY <3>1
      <4> QED
        BY <2>5, <4>1, <4>3, <4>4, NoteIs DEF NoteOff
    <3> QED
      BY <1>1, <3>1, <3>2
  <2>6. CASE B = Accepted
    BY <1>2, <2>6
  <2> HIDE DEF Good
  <2> QED
    BY <1>7, <2>1, <2>4, <2>5, <2>6 DEF FrameAnswers
<1> QED
  BY <1>3, <1>6, <1>7, <1>9, <1>10, <1>11, <1>12 DEF Answers

-----------------------------------------------------------------------------
\* What each kind of damage leaves.

\* A part of a sequence.
LEMMA PartIs ==
    ASSUME NEW T, NEW w \in Seq(T), NEW m \in 1..(Len(w) + 1), NEW k \in 0..Len(w), m <= k + 1
    PROVE  /\ SubSeq(w, m, k) \in Seq(T) /\ Len(SubSeq(w, m, k)) = k - m + 1
           /\ \A i \in 1..(k - m + 1) : SubSeq(w, m, k)[i] = w[m + i - 1]
<1>1. Len(w) \in Nat /\ m \in Int /\ k \in Int
  BY LenProperties
<1>2. \A i \in m..k : w[i] \in T
  <2>1. \A i \in m..k : i \in 1..Len(w)
    BY <1>1
  <2> QED
    BY <2>1, ElementOfSeq
<1>3. /\ SubSeq(w, m, k) \in Seq(T)
      /\ Len(SubSeq(w, m, k)) = IF m <= k THEN k - m + 1 ELSE 0
      /\ \A i \in 1..(k - m + 1) : SubSeq(w, m, k)[i] = w[m + i - 1]
  BY <1>1, <1>2, SubSeqProperties
<1>4. ~(m <= k) => k - m + 1 = 0
  BY <1>1
<1> QED
  BY <1>3, <1>4

\* The start and the end of a sequence, put together.
Spliced(s, w, L, a, b) ==
    /\ DOMAIN s = 1..(a + L - b + 1)
    /\ \A j \in 1..a : s[j] = w[j]
    /\ \A j \in (a + 1)..(a + L - b + 1) : s[j] = w[j - a + b - 1]

\* A sequence without a line, or with one twice.
LEMMA SplicedIs ==
    ASSUME NEW w, Listed(w), NEW L \in Nat, DOMAIN w = 1..L, NEW a \in 0..L, NEW b \in 1..(L + 1)
    PROVE  Spliced(SubSeq(w, 1, a) \o SubSeq(w, b, Len(w)), w, L, a, b)
<1>1. PICK T : w \in Seq(T)
  BY DEF Listed
<1>2. Len(w) = L
  <2>1. Len(w) \in Nat /\ 1..Len(w) = 1..L
    BY <1>1, LenProperties
  <2> QED
    BY <2>1
<1> DEFINE x == SubSeq(w, 1, a)
           y == SubSeq(w, b, L)
           s == x \o y
<1>3. x \in Seq(T) /\ Len(x) = a /\ \A i \in 1..a : x[i] = w[i]
  <2>1. 1 \in 1..(Len(w) + 1) /\ a \in 0..Len(w) /\ 1 <= a + 1 /\ a - 1 + 1 = a
    BY <1>2
  <2>2. /\ x \in Seq(T) /\ Len(x) = a - 1 + 1 /\ \A i \in 1..(a - 1 + 1) : x[i] = w[1 + i - 1]
    BY <1>1, <2>1, PartIs
  <2>3. \A i \in 1..a : 1 + i - 1 = i
    OBVIOUS
  <2> HIDE DEF x
  <2> QED
    BY <2>1, <2>2, <2>3
<1>4. y \in Seq(T) /\ Len(y) = L - b + 1 /\ \A i \in 1..(L - b + 1) : y[i] = w[b + i - 1]
  <2>1. b \in 1..(Len(w) + 1) /\ L \in 0..Len(w) /\ b <= L + 1
    BY <1>2
  <2> QED
    BY <1>1, <2>1, PartIs
<1> HIDE DEF x, y
<1>5. s \in Seq(T) /\ Follows(s, x, y)
  BY <1>3, <1>4, Joined
<1> HIDE DEF s
<1>6. DOMAIN s = 1..(a + L - b + 1)
  <2>1. Len(s) = a + (L - b + 1)
    BY <1>3, <1>4, <1>5 DEF Follows
  <2>2. DOMAIN s = 1..Len(s) /\ a + (L - b + 1) = a + L - b + 1
    BY <1>5, LenProperties
  <2> QED
    BY <2>1, <2>2
<1>7. \A j \in 1..a : s[j] = w[j]
  BY <1>3, <1>5 DEF Follows
<1>8. ASSUME NEW j \in (a + 1)..(a + L - b + 1)
      PROVE  s[j] = w[j - a + b - 1]
  <2>1. j - a \in 1..(L - b + 1) /\ a + (j - a) = j /\ b + (j - a) - 1 = j - a + b - 1
    BY <1>8
  <2>2. s[a + (j - a)] = y[j - a]
    BY <1>3, <1>4, <1>5, <2>1 DEF Follows
  <2> QED
    BY <1>4, <2>1, <2>2
<1> QED
  BY <1>2, <1>6, <1>7, <1>8 DEF Spliced, s, x, y

\* A sequence with p put in as its i-th.
Inserted(s, w, L, i, p) ==
    /\ DOMAIN s = 1..(L + 1) /\ s[i] = p
    /\ \A j \in 1..(i - 1) : s[j] = w[j]
    /\ \A j \in (i + 1)..(L + 1) : s[j] = w[j - 1]

\* A sequence with one more line.
LEMMA InsertedIs ==
    ASSUME NEW w, Listed(w), NEW L \in Nat, DOMAIN w = 1..L, NEW i \in 1..(L + 1), NEW p
    PROVE  Inserted(SubSeq(w, 1, i - 1) \o <<p>> \o SubSeq(w, i, Len(w)), w, L, i, p)
<1>1. PICK U : w \in Seq(U)
  BY DEF Listed
<1> DEFINE T == U \cup {p}
<1>2. w \in Seq(T) /\ p \in T
  BY <1>1, SeqMonotonic
<1> HIDE DEF T
<1>3. Len(w) = L
  <2>1. Len(w) \in Nat /\ 1..Len(w) = 1..L
    BY <1>1, LenProperties
  <2> QED
    BY <2>1
<1> DEFINE x == SubSeq(w, 1, i - 1)
           y == SubSeq(w, i, L)
           z == <<p>>
           xz == x \o z
           s == xz \o y
<1>4. x \in Seq(T) /\ Len(x) = i - 1 /\ \A j \in 1..(i - 1) : x[j] = w[j]
  <2>1. 1 \in 1..(Len(w) + 1) /\ i - 1 \in 0..Len(w) /\ 1 <= (i - 1) + 1 /\ (i - 1) - 1 + 1 = i - 1
    BY <1>3
  <2>2. /\ x \in Seq(T) /\ Len(x) = (i - 1) - 1 + 1
        /\ \A j \in 1..((i - 1) - 1 + 1) : x[j] = w[1 + j - 1]
    BY <1>2, <2>1, PartIs
  <2>3. \A j \in 1..(i - 1) : 1 + j - 1 = j
    OBVIOUS
  <2> HIDE DEF x
  <2> QED
    BY <2>1, <2>2, <2>3
<1>5. y \in Seq(T) /\ Len(y) = L - i + 1 /\ \A j \in 1..(L - i + 1) : y[j] = w[i + j - 1]
  <2>1. i \in 1..(Len(w) + 1) /\ L \in 0..Len(w) /\ i <= L + 1
    BY <1>3
  <2> QED
    BY <1>2, <2>1, PartIs
<1>6. z \in Seq(T) /\ Len(z) = 1 /\ z[1] = p
  BY <1>2
<1> HIDE DEF x, y, z
<1>7. xz \in Seq(T) /\ Follows(xz, x, z)
  BY <1>4, <1>6, Joined
<1> HIDE DEF xz
<1>8. Len(xz) = i /\ xz[i] = p /\ \A j \in 1..(i - 1) : xz[j] = w[j]
  <2>1. (i - 1) + 1 = i /\ 1 \in 1..1
    OBVIOUS
  <2> QED
    BY <1>4, <1>6, <1>7, <2>1 DEF Follows
<1>9. s \in Seq(T) /\ Follows(s, xz, y)
  BY <1>5, <1>7, Joined
<1> HIDE DEF s
<1>10. DOMAIN s = 1..(L + 1)
  <2>1. Len(s) = i + (L - i + 1)
    BY <1>5, <1>8, <1>9 DEF Follows
  <2>2. DOMAIN s = 1..Len(s) /\ i + (L - i + 1) = L + 1
    BY <1>9, LenProperties
  <2> QED
    BY <2>1, <2>2
<1>11. s[i] = p /\ \A j \in 1..(i - 1) : s[j] = w[j]
  <2>1. \A j \in 1..i : s[j] = xz[j]
    BY <1>8, <1>9 DEF Follows
  <2>2. i \in 1..i /\ \A j \in 1..(i - 1) : j \in 1..i
    OBVIOUS
  <2> QED
    BY <1>8, <2>1, <2>2
<1>12. ASSUME NEW j \in (i + 1)..(L + 1)
       PROVE  s[j] = w[j - 1]
  <2>1. j - i \in 1..(L - i + 1) /\ i + (j - i) = j /\ i + (j - i) - 1 = j - 1
    BY <1>12
  <2>2. s[i + (j - i)] = y[j - i]
    BY <1>5, <1>8, <1>9, <2>1 DEF Follows
  <2> QED
    BY <1>5, <2>1, <2>2
<1> QED
  BY <1>3, <1>10, <1>11, <1>12 DEF Inserted, s, xz, x, y, z

\* A line keeps its kind when a field is altered, unless it becomes junk.
LEMMA AlteredKind ==
    ASSUME NEW hist, NEW path, NEW n \in Nat, NEW w, Laid(w, hist, path, n),
           NEW i \in 1..(n + 6), NEW l \in Altered(w[i])
    PROVE  l.kind \in {"junk", w[i].kind}
<1> DEFINE v == w[i]
<1>1. "kind" \in DOMAIN v
  <2>1. CASE i \in 1..5
    <3>1. i = 1 \/ i = 2 \/ i = 3 \/ i = 4 \/ i = 5
      BY <2>1
    <3>2. v = Title \/ v = Started \/ v = Ended \/ v = RulesVersionLine \/ v = StartLine(GameId, seed)
      BY <3>1 DEF Laid
    <3> HIDE DEF v
    <3>3. "kind" \in DOMAIN Title /\ "kind" \in DOMAIN Started /\ "kind" \in DOMAIN Ended
      BY DEF Title, Started, Ended
    <3>4. "kind" \in DOMAIN RulesVersionLine /\ "kind" \in DOMAIN StartLine(GameId, seed)
      BY DEF RulesVersionLine, StartLine
    <3> QED
      BY <3>2, <3>3, <3>4
  <2>2. CASE i \in 6..(n + 5)
    <3>1. i - 5 \in 1..n /\ i = 5 + (i - 5)
      BY <2>2
    <3>2. v = LineOf(hist[i - 5 - 1], path[i - 5])
      BY <3>1 DEF Laid
    <3> HIDE DEF v
    <3> QED
      BY <3>2 DEF LineOf, PlaceLine
  <2>3. CASE i = n + 6
    BY <2>3 DEF Laid, EndLine
  <2> QED
    BY <2>1, <2>2, <2>3
<1> HIDE DEF v
<1>2. ASSUME NEW x, NEW f, NEW e, f # "kind", x = [v EXCEPT ![f] = e]
      PROVE  x.kind = v.kind
  BY <1>1, <1>2
<1>3. \/ l = [kind |-> "junk"]
      \/ v.kind = "version" /\ l \in {[v EXCEPT !.rules = "2"]}
      \/ /\ v.kind = "start"
         /\ l \in {[v EXCEPT !.gameId = id] : id \in {"h", "bad"}}
                  \cup {[v EXCEPT !.seed = x] : x \in Seeds \cup {LcgM}}
      \/ /\ v.kind = "place"
         /\ l \in {[v EXCEPT !.player = Opponent(@)], [v EXCEPT !.note = {}]}
                  \cup {[v EXCEPT !.cell = p] : p \in Cell}
                  \cup {[v EXCEPT !.note = {<<m[1] + 1, m[2]>>}] : m \in v.note}
                  \cup {[v EXCEPT !.note = {<<m[1], m[2] + 1>>}] : m \in v.note}
      \/ v.kind = "end" /\ l \in {[v EXCEPT !.winner = Opponent(@)], [v EXCEPT !.totals = <<0, 0, 0>>]}
  <2> DEFINE A == {[v EXCEPT !.rules = "2"]}
             B == {[v EXCEPT !.gameId = id] : id \in {"h", "bad"}}
                  \cup {[v EXCEPT !.seed = x] : x \in Seeds \cup {LcgM}}
             C == {[v EXCEPT !.player = Opponent(@)], [v EXCEPT !.note = {}]}
                  \cup {[v EXCEPT !.cell = p] : p \in Cell}
                  \cup {[v EXCEPT !.note = {<<m[1] + 1, m[2]>>}] : m \in v.note}
                  \cup {[v EXCEPT !.note = {<<m[1], m[2] + 1>>}] : m \in v.note}
             D == {[v EXCEPT !.winner = Opponent(@)], [v EXCEPT !.totals = <<0, 0, 0>>]}
             J == {[kind |-> "junk"]}
  <2>1. Altered(v) = J \cup CASE v.kind = "version" -> A [] v.kind = "start" -> B
                              [] v.kind = "place" -> C [] v.kind = "end" -> D [] OTHER -> {}
    BY DEF Altered
  <2>2. l \in Altered(v)
    BY DEF v
  <2> HIDE DEF A, B, C, D, J
  <2>3. \/ l \in J
        \/ v.kind = "version" /\ l \in A
        \/ v.kind = "start" /\ l \in B
        \/ v.kind = "place" /\ l \in C
        \/ v.kind = "end" /\ l \in D
    <3>1. CASE v.kind = "version"
      BY <2>1, <2>2, <3>1
    <3>2. CASE v.kind = "start"
      BY <2>1, <2>2, <3>2
    <3>3. CASE v.kind = "place"
      BY <2>1, <2>2, <3>3
    <3>4. CASE v.kind = "end"
      BY <2>1, <2>2, <3>4
    <3>5. CASE v.kind \notin {"version", "start", "place", "end"}
      BY <2>1, <2>2, <3>5
    <3> QED
      BY <3>1, <3>2, <3>3, <3>4, <3>5
  <2> QED
    BY <2>3 DEF A, B, C, D, J
<1>4. CASE l = [kind |-> "junk"]
  BY <1>4
<1>5. CASE \E f, e : f # "kind" /\ l = [v EXCEPT ![f] = e]
  BY <1>2, <1>5 DEF v
<1>6. l = [kind |-> "junk"] \/ \E f, e : f # "kind" /\ l = [v EXCEPT ![f] = e]
  BY <1>3
<1> QED
  BY <1>4, <1>5, <1>6

\* The parts of a damage.
LEMMA DamageIs ==
    ASSUME NEW kind, NEW at, NEW source
    PROVE  /\ Damage(kind, at, source).kind = kind /\ Damage(kind, at, source).at = at
           /\ Damage(kind, at, source).source = source
BY DEF Damage

\* Every damage leaves the lines before it.
LEMMA DamageHarms ==
    ASSUME NEW hist, NEW path, NEW n \in Nat, NEW w, Laid(w, hist, path, n), Listed(w),
           NEW d \in Damaged(w)
    PROVE  \E L : Harmed(d.source, L, w, n, d.at)
<1> DEFINE L == n + 6
<1>1. DOMAIN w = 1..L /\ L \in Nat
  BY DEF Laid
<1>2. Len(w) = L
  <2>1. PICK T : w \in Seq(T)
    BY DEF Listed
  <2>2. Len(w) \in Nat /\ 1..Len(w) = 1..L
    BY <1>1, <2>1, LenProperties
  <2> HIDE DEF L
  <2> QED
    BY <1>1, <2>2
<1>3. ASSUME NEW i \in 1..L, d = Lost(w, i)
      PROVE  Harmed(d.source, L - 1, w, n, d.at)
  <2> DEFINE s == SubSeq(w, 1, i - 1) \o SubSeq(w, i + 1, Len(w))
  <2>1. d.at = i /\ d.source = s
    <3>1. \E kind : d = Damage(kind, i, s)
      BY <1>3 DEF Lost
    <3> HIDE DEF s
    <3> QED
      BY <3>1, DamageIs
  <2>2. Spliced(s, w, L, i - 1, i + 1)
    <3>1. i - 1 \in 0..L /\ i + 1 \in 1..(L + 1)
      BY <1>1
    <3> HIDE DEF L
    <3> QED
      BY <1>1, <3>1, SplicedIs
  <2> HIDE DEF s
  <2>3. /\ (i - 1) + L - (i + 1) + 1 = L - 1 /\ (i - 1) + 1 = i
        /\ \A j \in Int : j - (i - 1) + (i + 1) - 1 = j + 1
    BY <1>1
  <2>4. DOMAIN s = 1..(L - 1) /\ (\A j \in 1..(i - 1) : s[j] = w[j])
        /\ \A j \in i..(L - 1) : s[j] = w[j + 1]
    BY <2>2, <2>3 DEF Spliced
  <2>5. ASSUME NEW j \in 1..(L - 1), j < i
        PROVE  j \in 1..(n + 6) /\ s[j] = w[j]
    BY <1>1, <2>4, <2>5
  <2>6. ASSUME NEW j \in 1..(L - 1), j >= i
        PROVE  \E k \in i..(n + 6) : s[j].kind = w[k].kind
    <3>1. j + 1 \in i..(n + 6) /\ j \in i..(L - 1)
      BY <1>1, <2>6
    <3> QED
      BY <2>4, <3>1
  <2>7. L - 1 \in Nat /\ i \in Nat \ {0}
    BY <1>1
  <2> HIDE DEF L
  <2> QED
    BY <2>1, <2>4, <2>5, <2>6, <2>7 DEF Harmed
<1>4. ASSUME NEW i \in 1..L, d = Doubled(w, i)
      PROVE  Harmed(d.source, L + 1, w, n, d.at)
  <2> DEFINE s == SubSeq(w, 1, i) \o SubSeq(w, i, Len(w))
  <2>1. d.at = i /\ d.source = s
    <3>1. \E kind : d = Damage(kind, i, s)
      BY <1>4 DEF Doubled
    <3> HIDE DEF s
    <3> QED
      BY <3>1, DamageIs
  <2>2. Spliced(s, w, L, i, i)
    <3>1. i \in 0..L /\ i \in 1..(L + 1)
      BY <1>1
    <3> HIDE DEF L
    <3> QED
      BY <1>1, <3>1, SplicedIs
  <2> HIDE DEF s
  <2>3. i + L - i + 1 = L + 1 /\ \A j \in Int : j - i + i - 1 = j - 1
    BY <1>1
  <2>4. DOMAIN s = 1..(L + 1) /\ (\A j \in 1..i : s[j] = w[j])
        /\ \A j \in (i + 1)..(L + 1) : s[j] = w[j - 1]
    BY <2>2, <2>3 DEF Spliced
  <2>5. ASSUME NEW j \in 1..(L + 1), j < i
        PROVE  j \in 1..(n + 6) /\ s[j] = w[j]
    BY <1>1, <2>4, <2>5
  <2>6. ASSUME NEW j \in 1..(L + 1), j >= i
        PROVE  \E k \in i..(n + 6) : s[j].kind = w[k].kind
    <3>1. CASE j = i
      <4>1. i \in i..(n + 6) /\ i \in 1..i
        BY <1>1
      <4> QED
        BY <2>4, <3>1, <4>1
    <3>2. CASE j # i
      <4>1. j - 1 \in i..(n + 6) /\ j \in (i + 1)..(L + 1)
        BY <1>1, <2>6, <3>2
      <4> QED
        BY <2>4, <4>1
    <3> QED
      BY <3>1, <3>2
  <2>7. L + 1 \in Nat /\ i \in Nat \ {0}
    BY <1>1
  <2> HIDE DEF L
  <2> QED
    BY <2>1, <2>4, <2>5, <2>6, <2>7 DEF Harmed
<1>5. ASSUME NEW i \in 1..(Len(w) - 1), d = Swapped(w, i)
      PROVE  Harmed(d.source, L, w, n, d.at)
  <2> DEFINE s == [w EXCEPT ![i] = w[i + 1], ![i + 1] = w[i]]
  <2>1. d.at = i /\ d.source = s
    <3>1. \E kind : d = Damage(kind, i, s)
      BY <1>5 DEF Swapped
    <3> HIDE DEF s
    <3> QED
      BY <3>1, DamageIs
  <2>2. i \in 1..L /\ i + 1 \in 1..L /\ i # i + 1
    BY <1>1, <1>2
  <2>3. DOMAIN s = 1..L /\ s[i] = w[i + 1] /\ s[i + 1] = w[i]
        /\ \A j \in 1..L : j # i /\ j # i + 1 => s[j] = w[j]
    <3> HIDE DEF L
    <3> QED
      BY <1>1, <2>2
  <2> HIDE DEF s
  <2>4. ASSUME NEW j \in 1..L, j < i
        PROVE  j \in 1..(n + 6) /\ s[j] = w[j]
    BY <1>1, <2>2, <2>3, <2>4
  <2>5. ASSUME NEW j \in 1..L, j >= i
        PROVE  \E k \in i..(n + 6) : s[j].kind = w[k].kind
    <3>1. i \in i..(n + 6) /\ i + 1 \in i..(n + 6) /\ j \in i..(n + 6)
      BY <1>1, <2>2, <2>5
    <3> QED
      BY <2>3, <3>1
  <2>6. i \in Nat \ {0}
    BY <2>2
  <2> HIDE DEF L
  <2> QED
    BY <1>1, <2>1, <2>3, <2>4, <2>5, <2>6 DEF Harmed
<1>6. ASSUME NEW i \in 1..(Len(w) + 1), NEW x, d = PassIn(w, i, x)
      PROVE  Harmed(d.source, L + 1, w, n, d.at)
  <2> DEFINE p == PassLine(x)
             s == SubSeq(w, 1, i - 1) \o <<p>> \o SubSeq(w, i, Len(w))
  <2>1. d.at = i /\ d.source = s
    <3>1. \E kind : d = Damage(kind, i, s)
      BY <1>6 DEF PassIn
    <3> HIDE DEF s
    <3> QED
      BY <3>1, DamageIs
  <2>2. i \in 1..(L + 1)
    BY <1>2
  <2>3. /\ DOMAIN s = 1..(L + 1) /\ s[i] = p
        /\ \A j \in 1..(i - 1) : s[j] = w[j]
        /\ \A j \in (i + 1)..(L + 1) : s[j] = w[j - 1]
    <3> HIDE DEF L, p
    <3>1. Inserted(s, w, L, i, p)
      BY <1>1, <2>2, InsertedIs
    <3> HIDE DEF s
    <3> QED
      BY <3>1 DEF Inserted
  <2>4. p.kind = "pass"
    BY DEF PassLine
  <2> HIDE DEF s, p
  <2>5. ASSUME NEW j \in 1..(L + 1), j < i
        PROVE  j \in 1..(n + 6) /\ s[j] = w[j]
    BY <1>1, <2>2, <2>3, <2>5
  <2>6. ASSUME NEW j \in 1..(L + 1), j >= i
        PROVE  s[j].kind = "pass" \/ \E k \in i..(n + 6) : s[j].kind = w[k].kind
    <3>1. CASE j = i
      BY <2>3, <2>4, <3>1
    <3>2. CASE j # i
      <4>1. j - 1 \in i..(n + 6) /\ j \in (i + 1)..(L + 1)
        BY <1>1, <2>2, <2>6, <3>2
      <4> QED
        BY <2>3, <4>1
    <3> QED
      BY <3>1, <3>2
  <2>7. L + 1 \in Nat /\ i \in Nat \ {0}
    BY <1>1, <2>2
  <2> HIDE DEF L
  <2> QED
    BY <2>1, <2>3, <2>5, <2>6, <2>7 DEF Harmed
<1>7. ASSUME NEW i \in 1..L, NEW l \in Altered(w[i]), d = Damage("line", i, [w EXCEPT ![i] = l])
      PROVE  Harmed(d.source, L, w, n, d.at)
  <2> DEFINE s == [w EXCEPT ![i] = l]
  <2>1. d.at = i /\ d.source = s
    BY <1>7, DamageIs
  <2>2. DOMAIN s = 1..L /\ s[i] = l /\ \A j \in 1..L : j # i => s[j] = w[j]
    <3> HIDE DEF L
    <3> QED
      BY <1>1
  <2>3. l.kind \in {"junk", w[i].kind}
    BY AlteredKind
  <2> HIDE DEF s
  <2>4. ASSUME NEW j \in 1..L, j < i
        PROVE  j \in 1..(n + 6) /\ s[j] = w[j]
    BY <1>1, <2>2, <2>4
  <2>5. ASSUME NEW j \in 1..L, j >= i
        PROVE  s[j].kind = "junk" \/ \E k \in i..(n + 6) : s[j].kind = w[k].kind
    <3>1. j \in i..(n + 6)
      BY <1>1, <2>5
    <3>2. CASE j = i
      BY <2>2, <2>3, <3>1, <3>2
    <3>3. CASE j # i
      BY <2>2, <3>1, <3>3
    <3> QED
      BY <3>2, <3>3
  <2>6. i \in Nat \ {0}
    BY <1>1
  <2> HIDE DEF L
  <2> QED
    BY <1>1, <2>1, <2>2, <2>4, <2>5, <2>6 DEF Harmed
<1> HIDE DEF L
<1>8. \/ \E i \in 1..L : d = Lost(w, i)
      \/ \E i \in 1..L : d = Doubled(w, i)
      \/ \E i \in 1..(Len(w) - 1) : d = Swapped(w, i)
      \/ \E i \in 1..(Len(w) + 1), x \in Side : d = PassIn(w, i, x)
      \/ \E i \in 1..L : \E l \in Altered(w[i]) : d = Damage("line", i, [w EXCEPT ![i] = l])
  <2> DEFINE A == {Lost(w, i) : i \in DOMAIN w}
             B == {Doubled(w, i) : i \in DOMAIN w}
             C == {Swapped(w, i) : i \in 1..(Len(w) - 1)}
             D == {PassIn(w, i, x) : i \in 1..(Len(w) + 1), x \in Side}
             E == UNION {{Damage("line", i, [w EXCEPT ![i] = l]) : l \in Altered(w[i])} :
                         i \in DOMAIN w}
  <2>1. d \in A => \E i \in 1..L : d = Lost(w, i)
    BY <1>1
  <2>2. d \in B => \E i \in 1..L : d = Doubled(w, i)
    BY <1>1
  <2>3. d \in C => \E i \in 1..(Len(w) - 1) : d = Swapped(w, i)
    OBVIOUS
  <2>4. d \in D => \E i \in 1..(Len(w) + 1), x \in Side : d = PassIn(w, i, x)
    OBVIOUS
  <2>5. d \in E => \E i \in 1..L : \E l \in Altered(w[i]) : d = Damage("line", i, [w EXCEPT ![i] = l])
    BY <1>1
  <2>6. Damaged(w) = A \cup B \cup C \cup D \cup E
    BY DEF Damaged
  <2> HIDE DEF A, B, C, D, E
  <2>7. d \in A \/ d \in B \/ d \in C \/ d \in D \/ d \in E
    BY <2>6
  <2> QED
    BY <2>1, <2>2, <2>3, <2>4, <2>5, <2>7
<1> QED
  BY <1>3, <1>4, <1>5, <1>6, <1>7, <1>8

-----------------------------------------------------------------------------
\* Why a record cannot do with fewer or more moves: every move that is
\* accepted adds a piece, and the game is over with the last one.
Counted(st, k) ==
    /\ st.board \in Board /\ st.nextColor \in Color /\ st.rngState \in 0..(LcgM - 1)
    /\ Cardinality(Pieces(st.board)) = k + 4
    /\ st.phase = "finished" => Full(st.board)

\* The last of the frames counts its moves.
LastCounted(frames) == Counted(frames[Len(frames)].state, Len(frames) - 1)

\* The moves are placements on the board.
Placing(line, K) == \A k \in 1..K : line[k].kind = "place" /\ line[k].cell \in Cell

\* A new game has its four pieces.
LEMMA NewGameCounted ==
    ASSUME NEW s \in Seeds
    PROVE  Counted(NewGame(s), 0)
<1> DEFINE st == NewGame(s)
<1>1. /\ st.board = InitialBoard /\ st.nextColor = ColorOf(Lcg(s)) /\ st.rngState = Lcg(s)
      /\ st.phase = "playing"
  BY DEF NewGame
<1>2. s \in 0..(LcgM - 1)
  BY RulesAssumption
<1>3. Lcg(s) \in 0..(LcgM - 1) /\ ColorOf(Lcg(s)) \in Color
  BY <1>2, DrawType
<1>4. InitialBoard \in Board /\ Cardinality(Pieces(InitialBoard)) = 0 + 4
  BY InitialBoardFacts
<1> HIDE DEF st
<1>5. Counted(st, 0)
  BY <1>1, <1>3, <1>4 DEF Counted
<1> QED
  BY <1>5 DEF st

\* A move adds one.
LEMMA MoveCounted ==
    ASSUME NEW st, NEW k \in Nat, Counted(st, k), NEW p \in Cell, PlaceVerdict(st, p) = "ok"
    PROVE  Counted(ApplyPlace(st, p), k + 1)
<1> DEFINE board == Recolor(st.board, p, st.nextColor)
           g == ApplyPlace(st, p)
<1>1. st.board[p] = Empty
  BY DEF PlaceVerdict
<1>2. st.board \in Board /\ st.nextColor \in Color
  BY DEF Counted
<1>3. /\ g.board = board /\ g.nextColor = ColorOf(Lcg(st.rngState)) /\ g.rngState = Lcg(st.rngState)
      /\ g.phase = IF Full(board) THEN "finished" ELSE st.phase
  BY DEF ApplyPlace, NextTurn
<1>4. board \in Board
  BY <1>2, RecolorType
<1>5. Cardinality(Pieces(board)) = Cardinality(Pieces(st.board)) + 1
  BY <1>1, <1>2, MoveAddsPiece
<1>6. Cardinality(Pieces(st.board)) = k + 4
  BY DEF Counted
<1>7. Lcg(st.rngState) \in 0..(LcgM - 1) /\ ColorOf(Lcg(st.rngState)) \in Color
  BY DrawType DEF Counted
<1>8. st.phase # "finished"
  BY <1>1 DEF Counted, Full
<1> HIDE DEF board, g
<1>9. Cardinality(Pieces(board)) = (k + 1) + 4
  BY <1>5, <1>6
<1>10. Counted(g, k + 1)
  BY <1>3, <1>4, <1>7, <1>8, <1>9 DEF Counted
<1> QED
  BY <1>10 DEF g

\* So the frames of a record count the pieces.
LEMMA FramesCount ==
    ASSUME NEW f, NEW K \in Nat, NEW line, NEW s \in Seeds, Stepping(f, K, line), Placing(line, K),
           f[0] = <<[state |-> NewGame(s), event |-> {}]>>
    PROVE  LastCounted(f[K])
<1> DEFINE S == {k \in 0..K : ~LastCounted(f[k])}
<1>1. \A k \in 0..K : Listed(f[k]) /\ Len(f[k]) \in 1..(k + 1)
  BY FramesStay
<1>2. SUFFICES ASSUME S # {} PROVE FALSE
  <2>1. K \in 0..K
    OBVIOUS
  <2> QED
    BY <2>1
<1>3. PICK k \in S : \A j \in S : k <= j
  <2>1. S \in SUBSET Nat
    OBVIOUS
  <2> HIDE DEF S
  <2> QED
    BY <1>2, <2>1, NatMin
<1>4. CASE k = 0
  <2>1. Len(f[0]) = 1 /\ f[0][1].state = NewGame(s)
    <3> DEFINE e == [state |-> NewGame(s), event |-> {}]
    <3>1. e.state = NewGame(s)
      OBVIOUS
    <3> HIDE DEF e
    <3>2. Len(<<e>>) = 1 /\ <<e>>[1] = e
      OBVIOUS
    <3> QED
      BY <3>1, <3>2 DEF e
  <2>2. LastCounted(f[0])
    BY <2>1, NewGameCounted DEF LastCounted
  <2> QED
    BY <1>3, <1>4, <2>2
<1>5. CASE k # 0
  <2>1. k \in 1..K /\ k - 1 \in 0..K /\ ~(k <= k - 1)
    BY <1>3, <1>5
  <2> DEFINE x == f[k-1]
             st == x[Len(x)].state
             m == Len(x) - 1
  <2>2. LastCounted(x)
    BY <1>3, <2>1
  <2>3. Listed(x) /\ Len(x) \in 1..((k - 1) + 1)
    BY <1>1, <2>1
  <2>4. f[k] = x \/ f[k] = Extended(x, line[k])
    BY <2>1 DEF Stepping
  <2>5. line[k].kind = "place" /\ line[k].cell \in Cell
    BY <2>1 DEF Placing
  <2> HIDE DEF x
  <2>6. Counted(st, m) /\ m \in Nat
    BY <2>1, <2>2, <2>3 DEF LastCounted
  <2> DEFINE e == HarnessFrame(st, line[k])
  <2>7. \/ f[k] = x
        \/ f[k] = Append(x, e) /\ HarnessVerdict(st, line[k]) = "ok"
    BY <2>4 DEF Extended
  <2> HIDE DEF st, m
  <2>8. ASSUME f[k] = Append(x, e), HarnessVerdict(st, line[k]) = "ok"
        PROVE  LastCounted(f[k])
    <3>1. PlaceVerdict(st, line[k].cell) = "ok"
      BY <2>5, <2>8 DEF HarnessVerdict
    <3>2. e.state = ApplyPlace(st, line[k].cell)
      BY <2>5 DEF HarnessFrame
    <3>3. Counted(e.state, m + 1)
      BY <2>5, <2>6, <3>1, <3>2, MoveCounted
    <3> HIDE DEF e
    <3>4. Len(f[k]) = Len(x) + 1 /\ f[k][Len(x) + 1] = e
      <4>1. PICK T : x \in Seq(T)
        BY <2>3 DEF Listed
      <4>2. x \in Seq(T \cup {e}) /\ e \in T \cup {e}
        BY <4>1, SeqMonotonic
      <4> QED
        BY <2>8, <4>2, AppendProperties
    <3>5. Len(f[k]) - 1 = m + 1
      BY <2>3, <3>4 DEF m
    <3> QED
      BY <3>3, <3>4, <3>5 DEF LastCounted
  <2> QED
    BY <1>3, <2>2, <2>7, <2>8
<1> QED
  BY <1>4, <1>5

\* A source whose moves are all placements, with the seed of a game, comes to
\* the end of the game with exactly as many as the board has room for.
LEMMA EnoughMoves ==
    ASSUME NEW L \in Nat, NEW s, DOMAIN s = 1..L,
           s[FirstLine(s, "start")].seed = seed, seed \in Seeds,
           \A i \in LinesOf(s, {"place", "pass"}) : s[i].kind = "place" /\ s[i].cell \in Cell,
           ~(Len(Frames(s)) <= Len(MoveLines(s))), Last(Frames(s)).phase = "finished"
    PROVE  Cardinality(LinesOf(s, {"place", "pass"})) + 4 = N * N
<1> DEFINE lines == MoveLines(s)
           K == Len(lines)
           line == [k \in 1..K |-> s[lines[k]]]
           frames == Frames(s)
<1>1. Numbering(lines, LinesOf(s, {"place", "pass"}))
  BY MovesAreNumbered
<1>2. K \in Nat /\ K = Cardinality(LinesOf(s, {"place", "pass"}))
  BY <1>1 DEF Numbering
<1>3. \A k \in 1..K : lines[k] \in LinesOf(s, {"place", "pass"})
  BY <1>1 DEF Numbering
<1>4. Placing(line, K)
  <2>1. \A k \in 1..K : line[k] = s[lines[k]]
    OBVIOUS
  <2> HIDE DEF K, line, lines
  <2> QED
    BY <1>3, <2>1 DEF Placing
<1>5. PICK f : /\ frames = f[K] /\ Stepping(f, K, line)
               /\ f[0] = <<[state |-> NewGame(s[FirstLine(s, "start")].seed), event |-> {}]>>
  BY FramesStep
<1> HIDE DEF lines, line
<1>6. LastCounted(f[K])
  <2> HIDE DEF K
  <2> QED
    BY <1>2, <1>4, <1>5, FramesCount
<1>7. Len(frames) = K + 1
  <2>1. ~(Len(frames) <= K)
    BY DEF lines
  <2> HIDE DEF K, frames
  <2>2. K \in 0..K
    BY <1>2
  <2>3. Len(frames) \in 1..(K + 1)
    BY <1>2, <1>5, <2>2, FramesStay
  <2> QED
    BY <1>2, <2>1, <2>3
<1>8. Last(frames).phase = "finished"
  OBVIOUS
<1> HIDE DEF frames, K
<1>9. Counted(Last(frames), K)
  <2>1. (K + 1) - 1 = K
    BY <1>2
  <2> QED
    BY <1>5, <1>6, <1>7, <2>1 DEF LastCounted, Last
<1>10. Cardinality(Pieces(Last(frames).board)) = K + 4 /\ Full(Last(frames).board)
  BY <1>8, <1>9 DEF Counted
<1>11. K + 4 = N * N
  BY <1>10, PiecesCount
<1> QED
  BY <1>2, <1>11

\* Where the moves of a record are, and how many.
LEMMA LaidMoveLines ==
    ASSUME NEW hist, NEW path, NEW n \in Nat, NEW w, Laid(w, hist, path, n)
    PROVE  LinesOf(w, {"place", "pass"}) = 6..(n + 5)
BY LaidLines

\* The course of a finished game has filled the board.
LEMMA CourseFills ==
    ASSUME NEW hist, NEW path, NEW n, Course(hist, path, n), NEW w, Laid(w, hist, path, n),
           hist[n].phase = "finished"
    PROVE  n + 4 = N * N
<1>1. n \in Nat /\ seed \in Seeds /\ path \in [1..n -> Cell] /\ n \in 0..n
  BY DEF Course
<1>2. DOMAIN w = 1..(n + 6) /\ n + 6 \in Nat
  BY <1>1 DEF Laid
<1>3. LinesOf(w, {"place", "pass"}) = 6..(n + 5)
  <2>1. n \in Nat
    BY <1>1
  <2> QED
    BY <2>1, LaidMoveLines
<1>4. Cardinality(6..(n + 5)) = n
  <2>1. 6 \in Int /\ n + 5 \in Int /\ n \in Nat
    BY <1>1
  <2>2. Cardinality(6..(n + 5)) = IF 6 > n + 5 THEN 0 ELSE (n + 5) - 6 + 1
    BY <2>1, FS_Interval
  <2>3. (6 > n + 5 => n = 0) /\ (n + 5) - 6 + 1 = n
    BY <2>1
  <2> QED
    BY <2>2, <2>3
<1>5. ASSUME NEW i \in 6..(n + 5)
      PROVE  w[i].kind = "place" /\ w[i].cell \in Cell
  <2>1. i - 5 \in 1..n /\ i = 5 + (i - 5)
    BY <1>1
  <2>2. w[i] = LineOf(hist[i - 5 - 1], path[i - 5])
    BY <2>1 DEF Laid
  <2>3. path[i - 5] \in Cell
    BY <1>1, <2>1
  <2> QED
    BY <2>2, <2>3 DEF LineOf, PlaceLine
<1>6. w[FirstLine(w, "start")].seed = seed
  <2>1. FirstLine(w, "start") = 5
    BY <1>1, LaidRead
  <2> QED
    BY <2>1 DEF Laid, StartLine
<1>7. Frames(w) = Story(hist, path, n)
  BY LaidFrames
<1>8. Len(Story(hist, path, n)) = n + 1 /\ Story(hist, path, n)[n + 1].state = hist[n]
  <2>1. Story(hist, path, n)[n + 1] = FrameOf(hist, path, n) /\ Len(Story(hist, path, n)) = n + 1
    BY <1>1, StoryIs
  <2>2. FrameOf(hist, path, n).state = hist[n]
    BY <1>1, StoryIs
  <2> QED
    BY <2>1, <2>2
<1>9. Last(Frames(w)).phase = "finished"
  BY <1>7, <1>8 DEF Last
<1>10. ~(Len(Frames(w)) <= Len(MoveLines(w)))
  <2>1. MoveLines(w) = [k \in 1..n |-> 5 + k]
    BY <1>1, LaidMoves
  <2>2. Len(MoveLines(w)) = n
    BY <1>1, <2>1
  <2> QED
    BY <1>1, <1>7, <1>8, <2>2
<1>11. \A i \in LinesOf(w, {"place", "pass"}) : w[i].kind = "place" /\ w[i].cell \in Cell
  BY <1>3, <1>5
<1>12. Cardinality(LinesOf(w, {"place", "pass"})) + 4 = N * N
  BY <1>1, <1>2, <1>6, <1>9, <1>10, <1>11, EnoughMoves
<1> QED
  BY <1>3, <1>4, <1>12

\* A source that is accepted has each of its heads and ends once, and is
\* replayed to the end of a game.
Complete(s) ==
    /\ \E x : LinesOf(s, {"version"}) = {x}
    /\ \E x : LinesOf(s, {"start"}) = {x}
    /\ \E x : LinesOf(s, {"end"}) = {x}
    /\ ~(Len(Frames(s)) <= Len(MoveLines(s))) /\ Last(Frames(s)).phase = "finished"

\* These are all that acceptance takes from the source and the game.
LEMMA AcceptedIsComplete ==
    ASSUME NEW L \in Nat, NEW s, DOMAIN s = 1..L, Replay(s, "answered").blame = Accepted
    PROVE  Complete(s)
<1> DEFINE B == Replay(s, "answered").blame
<1>1. Accepted.code = "ok" /\ \A code, line : Blame(code, line).code = code
  BY BlameIs
<1>2. Answers(s, B) /\ B.code = "ok"
  BY <1>1, AnswersAre
<1>3. FrameAnswers(s, Frames(s), FramesBlame(s, Frames(s)))
  BY FrameAnswersAre
<1>4. \A code, line : B = Blame(code, line) => code = "ok"
  <2> HIDE DEF B
  <2> QED
    BY <1>1, <1>2
<1> HIDE DEF B
<1>5. /\ CountOf(s, "start") = 1 /\ CountOf(s, "version") = 1 /\ ~(CountOf(s, "end") > 1)
      /\ B = FramesBlame(s, Frames(s))
  <2>1. /\ B # Blame("record_syntax_error", FirstLine(s, "junk"))
        /\ B # Blame("record_missing_header", FirstLine(s, "version"))
        /\ B # Blame("record_unsupported_rules_version", FirstLine(s, "version"))
        /\ B # Blame("record_missing_header", FirstLine(s, "start"))
    BY <1>4
  <2> QED
    BY <1>2, <2>1 DEF Answers
<1>6. /\ ~(Len(Frames(s)) <= Len(MoveLines(s))) /\ Last(Frames(s)).phase = "finished"
      /\ LinesOf(s, {"end"}) # {}
  <2>1. \A line : B # Blame("record_illegal_move", line) /\ B # Blame("record_mismatch", line)
    BY <1>4
  <2> QED
    BY <1>2, <1>3, <1>5, <2>1 DEF FrameAnswers
<1>7. \A kinds : IsFiniteSet(LinesOf(s, kinds)) /\ Cardinality(LinesOf(s, kinds)) \in Nat
  <2>1. IsFiniteSet(1..L)
    BY FS_Interval
  <2>2. \A kinds : LinesOf(s, kinds) \subseteq 1..L
    BY DEF LinesOf
  <2> QED
    BY <2>1, <2>2, FS_Subset, FS_CardinalityType
<1>8. \A S : IsFiniteSet(S) /\ Cardinality(S) = 1 => \E x : S = {x}
  BY FS_Singleton
<1>9. CountOf(s, "end") = 1
  <2>1. Cardinality(LinesOf(s, {"end"})) # 0
    BY <1>6, <1>7, FS_EmptySet
  <2> QED
    BY <1>5, <1>7, <2>1 DEF CountOf
<1> QED
  BY <1>5, <1>6, <1>7, <1>8, <1>9 DEF Complete, CountOf

\* A record with a line lost or doubled, seen line by line: where each of its
\* lines comes from.
Origin(s, L, w, n, from) ==
    /\ L \in Nat /\ DOMAIN s = 1..L
    /\ \A j \in 1..L : from[j] \in 1..(n + 6) /\ s[j] = w[from[j]]

\* The kinds of lines that come from a record.
OfKinds(s, L, n, from) == \A j \in 1..L : s[j].kind = KindAt(n, from[j])

\* The moves of such a source are placements.
LEMMA OriginKinds ==
    ASSUME NEW hist, NEW path, NEW n, Course(hist, path, n), NEW w, Laid(w, hist, path, n),
           NEW s, NEW L, NEW from, Origin(s, L, w, n, from)
    PROVE  /\ OfKinds(s, L, n, from)
           /\ \A i \in LinesOf(s, {"place", "pass"}) : s[i].kind = "place" /\ s[i].cell \in Cell
<1>1. n \in Nat /\ path \in [1..n -> Cell] /\ L \in Nat /\ DOMAIN s = 1..L
  BY DEF Course, Origin
<1>2. ASSUME NEW j \in 1..L
      PROVE  s[j].kind = KindAt(n, from[j]) /\ from[j] \in 1..(n + 6) /\ s[j] = w[from[j]]
  <2>1. from[j] \in 1..(n + 6) /\ s[j] = w[from[j]]
    BY DEF Origin
  <2>2. n \in Nat
    BY <1>1
  <2>3. PICK k : k = from[j]
    OBVIOUS
  <2>4. k \in 1..(n + 6)
    BY <2>1, <2>3
  <2>5. w[k].kind = KindAt(n, k)
    BY <2>2, <2>4, LaidKinds
  <2> QED
    BY <2>1, <2>3, <2>5
<1>3. ASSUME NEW i \in LinesOf(s, {"place", "pass"})
      PROVE  s[i].kind = "place" /\ s[i].cell \in Cell
  <2> DEFINE k == from[i]
  <2>1. i \in 1..L /\ s[i].kind \in {"place", "pass"}
    BY <1>1 DEF LinesOf
  <2>2. KindAt(n, k) \in {"place", "pass"} /\ k \in 1..(n + 6) /\ s[i] = w[k]
    BY <1>2, <2>1
  <2> HIDE DEF k
  <2>3. k \in 6..(n + 5)
    BY <1>1, <2>2 DEF KindAt
  <2>4. k - 5 \in 1..n /\ k = 5 + (k - 5)
    BY <1>1, <2>3
  <2>5. w[k] = LineOf(hist[k - 5 - 1], path[k - 5])
    BY <2>4 DEF Laid
  <2>6. path[k - 5] \in Cell
    BY <1>1, <2>4
  <2> QED
    BY <2>2, <2>5, <2>6 DEF LineOf, PlaceLine
<1> QED
  BY <1>2, <1>3 DEF OfKinds

\* A record that lost a line other than a comment is refused.
LEMMA LostIsCaught ==
    ASSUME NEW hist, NEW path, NEW n, Course(hist, path, n), NEW w, Laid(w, hist, path, n), Listed(w),
           hist[n].phase = "finished", NEW i \in 4..(n + 6)
    PROVE  Replay(Lost(w, i).source, "answered").blame # Accepted
<1> DEFINE L == n + 6
           s == Lost(w, i).source
           from == [j \in 1..(L - 1) |-> IF j < i THEN j ELSE j + 1]
<1>1. n \in Nat
  BY DEF Course
<1>2. DOMAIN w = 1..L /\ L \in Nat /\ L - 1 \in Nat /\ seed \in Seeds /\ i \in 1..L
  BY <1>1 DEF Laid, Course
<1>3. Lost(w, i) \in Damaged(w) /\ Lost(w, i).at = i
  <2>1. Lost(w, i) \in Damaged(w)
    BY <1>2 DEF Damaged
  <2>2. Lost(w, i).at = i
    BY DEF Lost, Damage
  <2> QED
    BY <2>1, <2>2
<1>4. s = SubSeq(w, 1, i - 1) \o SubSeq(w, i + 1, Len(w))
  <2> DEFINE t == SubSeq(w, 1, i - 1) \o SubSeq(w, i + 1, Len(w))
  <2>1. \E kind : Lost(w, i) = Damage(kind, i, t)
    BY DEF Lost
  <2> HIDE DEF t
  <2>2. s = t
    BY <2>1, DamageIs
  <2> QED
    BY <2>2 DEF t
<1>5. Spliced(s, w, L, i - 1, i + 1)
  <2>1. i - 1 \in 0..L /\ i + 1 \in 1..(L + 1)
    BY <1>2
  <2> HIDE DEF L, s
  <2> QED
    BY <1>2, <1>4, <2>1, SplicedIs
<1> HIDE DEF s
<1>6. Origin(s, L - 1, w, n, from)
  <2>1. /\ (i - 1) + L - (i + 1) + 1 = L - 1 /\ (i - 1) + 1 = i
        /\ \A j \in Int : j - (i - 1) + (i + 1) - 1 = j + 1
    BY <1>1
  <2>2. DOMAIN s = 1..(L - 1) /\ (\A j \in 1..(i - 1) : s[j] = w[j])
        /\ \A j \in i..(L - 1) : s[j] = w[j + 1]
    BY <1>5, <2>1 DEF Spliced
  <2>3. ASSUME NEW j \in 1..(L - 1)
        PROVE  from[j] \in 1..(n + 6) /\ s[j] = w[from[j]]
    <3>1. CASE j < i
      BY <1>1, <2>2, <3>1
    <3>2. CASE ~(j < i)
      <4>1. j \in i..(L - 1) /\ j + 1 \in 1..(n + 6)
        BY <1>1, <3>2
      <4> QED
        BY <2>2, <3>2, <4>1
    <3> QED
      BY <3>1, <3>2
  <2> HIDE DEF from, L
  <2> QED
    BY <1>2, <2>2, <2>3 DEF Origin
<1>7. DOMAIN s = 1..(L - 1)
  BY <1>6 DEF Origin
<1>8. \A j \in 1..(L - 1) : s[j].kind = KindAt(n, from[j])
  <2>1. OfKinds(s, L - 1, n, from)
    BY <1>6, OriginKinds
  <2> QED
    BY <2>1 DEF OfKinds
<1>9. \A j \in LinesOf(s, {"place", "pass"}) : s[j].kind = "place" /\ s[j].cell \in Cell
  BY <1>6, OriginKinds
<1>10. \A j \in 1..(L - 1) : from[j] = IF j < i THEN j ELSE j + 1
  OBVIOUS
<1> HIDE DEF from
<1>11. SUFFICES ASSUME Complete(s) PROVE FALSE
  <2> HIDE DEF L
  <2> QED
    BY <1>2, <1>7, AcceptedIsComplete DEF s
<1>12. CASE i = 4
  <2>1. PICK x : LinesOf(s, {"version"}) = {x}
    BY <1>11 DEF Complete
  <2>2. x \in 1..(L - 1) /\ s[x].kind = "version"
    BY <1>7, <2>1 DEF LinesOf
  <2>3. KindAt(n, from[x]) = "version" /\ from[x] = IF x < i THEN x ELSE x + 1
    BY <1>8, <1>10, <2>2
  <2> QED
    BY <1>1, <1>12, <2>2, <2>3 DEF KindAt
<1>13. CASE i = 5
  <2>1. PICK x : LinesOf(s, {"start"}) = {x}
    BY <1>11 DEF Complete
  <2>2. x \in 1..(L - 1) /\ s[x].kind = "start"
    BY <1>7, <2>1 DEF LinesOf
  <2>3. KindAt(n, from[x]) = "start" /\ from[x] = IF x < i THEN x ELSE x + 1
    BY <1>8, <1>10, <2>2
  <2> QED
    BY <1>1, <1>13, <2>2, <2>3 DEF KindAt
<1>14. CASE i = n + 6
  <2>1. PICK x : LinesOf(s, {"end"}) = {x}
    BY <1>11 DEF Complete
  <2>2. x \in 1..(L - 1) /\ s[x].kind = "end"
    BY <1>7, <2>1 DEF LinesOf
  <2>3. KindAt(n, from[x]) = "end" /\ from[x] = IF x < i THEN x ELSE x + 1
    BY <1>8, <1>10, <2>2
  <2> QED
    BY <1>1, <1>14, <2>2, <2>3 DEF KindAt
<1>15. CASE i \in 6..(n + 5)
  <2>1. LinesOf(s, {"place", "pass"}) = 6..(n + 4)
    <3>1. ASSUME NEW j \in 1..(L - 1)
          PROVE  s[j].kind \in {"place", "pass"} <=> j \in 6..(n + 4)
      <4>1. s[j].kind = KindAt(n, from[j]) /\ from[j] = IF j < i THEN j ELSE j + 1
        BY <1>8, <1>10
      <4> QED
        BY <1>1, <1>15, <4>1 DEF KindAt
    <3>2. 6..(n + 4) \subseteq 1..(L - 1)
      BY <1>1
    <3> QED
      BY <1>7, <3>1, <3>2 DEF LinesOf
  <2>2. Cardinality(6..(n + 4)) = n - 1
    <3>1. n \in Nat /\ n >= 1
      BY <1>1, <1>15
    <3> QED
      BY <3>1, FS_Interval
  <2>3. FirstLine(s, "start") = 5 /\ s[5].seed = seed
    <3>1. PICK M : Harmed(s, M, w, n, i)
      BY <1>1, <1>3, DamageHarms DEF s
    <3>2. 5 < i /\ 5 <= M
      <4>1. DOMAIN s = 1..M /\ M \in Nat
        BY <3>1 DEF Harmed
      <4>2. 5 \in 1..(L - 1)
        BY <1>1, <1>15
      <4> QED
        BY <1>1, <1>7, <1>15, <4>1, <4>2
    <3> QED
      BY <1>1, <3>1, <3>2, StartBefore
  <2>4. Cardinality(LinesOf(s, {"place", "pass"})) + 4 = N * N
    <3>1. ~(Len(Frames(s)) <= Len(MoveLines(s))) /\ Last(Frames(s)).phase = "finished"
      BY <1>11 DEF Complete
    <3>2. s[FirstLine(s, "start")].seed = seed
      BY <2>3
    <3> HIDE DEF L
    <3> QED
      BY <1>2, <1>7, <1>9, <3>1, <3>2, EnoughMoves
  <2>5. n + 4 = N * N
    BY CourseFills
  <2> QED
    BY <1>1, <2>1, <2>2, <2>4, <2>5
<1> QED
  BY <1>1, <1>12, <1>13, <1>14, <1>15

\* A record with a line other than a comment twice is refused.
LEMMA DoubledIsCaught ==
    ASSUME NEW hist, NEW path, NEW n, Course(hist, path, n), NEW w, Laid(w, hist, path, n), Listed(w),
           hist[n].phase = "finished", NEW i \in 4..(n + 6)
    PROVE  Replay(Doubled(w, i).source, "answered").blame # Accepted
<1> DEFINE L == n + 6
           s == Doubled(w, i).source
           from == [j \in 1..(L + 1) |-> IF j <= i THEN j ELSE j - 1]
<1>1. n \in Nat
  BY DEF Course
<1>2. DOMAIN w = 1..L /\ L \in Nat /\ L + 1 \in Nat /\ seed \in Seeds /\ i \in 1..L
  BY <1>1 DEF Laid, Course
<1>3. Doubled(w, i) \in Damaged(w) /\ Doubled(w, i).at = i
  <2>1. Doubled(w, i) \in Damaged(w)
    BY <1>2 DEF Damaged
  <2>2. Doubled(w, i).at = i
    BY DEF Doubled, Damage
  <2> QED
    BY <2>1, <2>2
<1>4. s = SubSeq(w, 1, i) \o SubSeq(w, i, Len(w))
  <2> DEFINE t == SubSeq(w, 1, i) \o SubSeq(w, i, Len(w))
  <2>1. \E kind : Doubled(w, i) = Damage(kind, i, t)
    BY DEF Doubled
  <2> HIDE DEF t
  <2>2. s = t
    BY <2>1, DamageIs
  <2> QED
    BY <2>2 DEF t
<1>5. Spliced(s, w, L, i, i)
  <2>1. i \in 0..L /\ i \in 1..(L + 1)
    BY <1>2
  <2> HIDE DEF L, s
  <2> QED
    BY <1>2, <1>4, <2>1, SplicedIs
<1> HIDE DEF s
<1>6. Origin(s, L + 1, w, n, from)
  <2>1. i + L - i + 1 = L + 1 /\ \A j \in Int : j - i + i - 1 = j - 1
    BY <1>1
  <2>2. DOMAIN s = 1..(L + 1) /\ (\A j \in 1..i : s[j] = w[j])
        /\ \A j \in (i + 1)..(L + 1) : s[j] = w[j - 1]
    BY <1>5, <2>1 DEF Spliced
  <2>3. ASSUME NEW j \in 1..(L + 1)
        PROVE  from[j] \in 1..(n + 6) /\ s[j] = w[from[j]]
    <3>1. CASE j <= i
      BY <1>1, <2>2, <3>1
    <3>2. CASE ~(j <= i)
      <4>1. j \in (i + 1)..(L + 1) /\ j - 1 \in 1..(n + 6)
        BY <1>1, <3>2
      <4> QED
        BY <2>2, <3>2, <4>1
    <3> QED
      BY <3>1, <3>2
  <2> HIDE DEF from, L
  <2> QED
    BY <1>2, <2>2, <2>3 DEF Origin
<1>7. DOMAIN s = 1..(L + 1)
  BY <1>6 DEF Origin
<1>8. \A j \in 1..(L + 1) : s[j].kind = KindAt(n, from[j])
  <2>1. OfKinds(s, L + 1, n, from)
    BY <1>6, OriginKinds
  <2> QED
    BY <2>1 DEF OfKinds
<1>9. \A j \in LinesOf(s, {"place", "pass"}) : s[j].kind = "place" /\ s[j].cell \in Cell
  BY <1>6, OriginKinds
<1>10. \A j \in 1..(L + 1) : from[j] = IF j <= i THEN j ELSE j - 1
  OBVIOUS
<1> HIDE DEF from
<1>11. SUFFICES ASSUME Complete(s) PROVE FALSE
  <2> HIDE DEF L
  <2> QED
    BY <1>2, <1>7, AcceptedIsComplete DEF s
<1>12. CASE i = 4
  <2>1. PICK x : LinesOf(s, {"version"}) = {x}
    BY <1>11 DEF Complete
  <2>2. 4 \in 1..(L + 1) /\ 5 \in 1..(L + 1) /\ 4 # 5
    BY <1>1
  <2>3. from[4] = 4 /\ from[5] = 4
    BY <1>1, <1>10, <1>12, <2>2
  <2>4. KindAt(n, 4) = "version"
    BY <1>1 DEF KindAt
  <2>5. 4 \in LinesOf(s, {"version"}) /\ 5 \in LinesOf(s, {"version"})
    BY <1>7, <1>8, <2>2, <2>3, <2>4 DEF LinesOf
  <2> QED
    BY <2>1, <2>2, <2>5
<1>13. CASE i = 5
  <2>1. PICK x : LinesOf(s, {"start"}) = {x}
    BY <1>11 DEF Complete
  <2>2. 5 \in 1..(L + 1) /\ 6 \in 1..(L + 1) /\ 5 # 6
    BY <1>1
  <2>3. from[5] = 5 /\ from[6] = 5
    BY <1>1, <1>10, <1>13, <2>2
  <2>4. KindAt(n, 5) = "start"
    BY <1>1 DEF KindAt
  <2>5. 5 \in LinesOf(s, {"start"}) /\ 6 \in LinesOf(s, {"start"})
    BY <1>7, <1>8, <2>2, <2>3, <2>4 DEF LinesOf
  <2> QED
    BY <2>1, <2>2, <2>5
<1>14. CASE i = n + 6
  <2>1. PICK x : LinesOf(s, {"end"}) = {x}
    BY <1>11 DEF Complete
  <2>2. n + 6 \in 1..(L + 1) /\ n + 7 \in 1..(L + 1) /\ n + 6 # n + 7
    BY <1>1
  <2>3. from[n + 6] = n + 6 /\ from[n + 7] = n + 6
    BY <1>1, <1>10, <1>14, <2>2
  <2>4. KindAt(n, n + 6) = "end"
    BY <1>1 DEF KindAt
  <2>5. n + 6 \in LinesOf(s, {"end"}) /\ n + 7 \in LinesOf(s, {"end"})
    BY <1>7, <1>8, <2>2, <2>3, <2>4 DEF LinesOf
  <2> QED
    BY <2>1, <2>2, <2>5
<1>15. CASE i \in 6..(n + 5)
  <2>1. LinesOf(s, {"place", "pass"}) = 6..(n + 6)
    <3>1. ASSUME NEW j \in 1..(L + 1)
          PROVE  s[j].kind \in {"place", "pass"} <=> j \in 6..(n + 6)
      <4>1. s[j].kind = KindAt(n, from[j]) /\ from[j] = IF j <= i THEN j ELSE j - 1
        BY <1>8, <1>10
      <4> QED
        BY <1>1, <1>15, <4>1 DEF KindAt
    <3>2. 6..(n + 6) \subseteq 1..(L + 1)
      BY <1>1
    <3> QED
      BY <1>7, <3>1, <3>2 DEF LinesOf
  <2>2. Cardinality(6..(n + 6)) = n + 1
    <3>1. n \in Nat /\ n >= 1
      BY <1>1, <1>15
    <3> QED
      BY <3>1, FS_Interval
  <2>3. FirstLine(s, "start") = 5 /\ s[5].seed = seed
    <3>1. PICK M : Harmed(s, M, w, n, i)
      BY <1>1, <1>3, DamageHarms DEF s
    <3>2. 5 < i /\ 5 <= M
      <4>1. DOMAIN s = 1..M /\ M \in Nat
        BY <3>1 DEF Harmed
      <4>2. 5 \in 1..(L + 1)
        BY <1>1, <1>15
      <4> QED
        BY <1>1, <1>7, <1>15, <4>1, <4>2
    <3> QED
      BY <1>1, <3>1, <3>2, StartBefore
  <2>4. Cardinality(LinesOf(s, {"place", "pass"})) + 4 = N * N
    <3>1. ~(Len(Frames(s)) <= Len(MoveLines(s))) /\ Last(Frames(s)).phase = "finished"
      BY <1>11 DEF Complete
    <3>2. s[FirstLine(s, "start")].seed = seed
      BY <2>3
    <3> HIDE DEF L
    <3> QED
      BY <1>2, <1>7, <1>9, <3>1, <3>2, EnoughMoves
  <2>5. n + 4 = N * N
    BY CourseFills
  <2> QED
    BY <1>1, <2>1, <2>2, <2>4, <2>5
<1> QED
  BY <1>1, <1>12, <1>13, <1>14, <1>15

\* Lines that are not comments count.
LEMMA CountDamage ==
    ASSUME NEW hist, NEW path, NEW n \in Nat, NEW w, Laid(w, hist, path, n), Listed(w),
           NEW d \in Damaged(w), d.kind = "count"
    PROVE  \E i \in 4..(n + 6) : d = Lost(w, i) \/ d = Doubled(w, i)
<1> DEFINE A == {Lost(w, i) : i \in DOMAIN w}
           B == {Doubled(w, i) : i \in DOMAIN w}
           C == {Swapped(w, i) : i \in 1..(Len(w) - 1)}
           D == {PassIn(w, i, x) : i \in 1..(Len(w) + 1), x \in Side}
           E == UNION {{Damage("line", i, [w EXCEPT ![i] = l]) : l \in Altered(w[i])} :
                       i \in DOMAIN w}
<1>1. \A kind, at, source : Damage(kind, at, source).kind = kind
  BY DamageIs
<1>2. DOMAIN w = 1..(n + 6)
  BY DEF Laid
<1>3. ASSUME NEW i \in 1..(n + 6), w[i].kind # "comment"
      PROVE  i \in 4..(n + 6)
  <2>1. KindAt(n, i) # "comment"
    BY <1>3, LaidKinds
  <2> QED
    BY <2>1 DEF KindAt
<1>4. ASSUME NEW i \in 1..(n + 6), d = Lost(w, i)
      PROVE  i \in 4..(n + 6)
  <2>1. Lost(w, i).kind = IF w[i].kind = "comment" THEN "comment" ELSE "count"
    BY <1>1 DEF Lost
  <2> QED
    BY <1>3, <1>4, <2>1
<1>5. ASSUME NEW i \in 1..(n + 6), d = Doubled(w, i)
      PROVE  i \in 4..(n + 6)
  <2>1. Doubled(w, i).kind = IF w[i].kind = "comment" THEN "comment" ELSE "count"
    BY <1>1 DEF Doubled
  <2> QED
    BY <1>3, <1>5, <2>1
<1>6. d \in A => \E i \in 1..(n + 6) : d = Lost(w, i)
  BY <1>2
<1>7. d \in B => \E i \in 1..(n + 6) : d = Doubled(w, i)
  BY <1>2
<1>8. d \notin C
  <2>1. \A i : Swapped(w, i).kind = "order"
    BY <1>1 DEF Swapped
  <2>2. \A i : d # Swapped(w, i)
    BY <2>1
  <2> QED
    BY <2>2
<1>9. d \notin D
  <2>1. \A i, x : PassIn(w, i, x).kind = "pass"
    BY <1>1 DEF PassIn
  <2>2. \A i, x : d # PassIn(w, i, x)
    BY <2>1
  <2> QED
    BY <2>2
<1>10. d \notin E
  <2>1. \A i, source : d # Damage("line", i, source)
    BY <1>1
  <2> QED
    BY <2>1
<1>11. Damaged(w) = A \cup B \cup C \cup D \cup E
  BY DEF Damaged
<1> HIDE DEF A, B, C, D, E
<1>12. d \in A \/ d \in B
  BY <1>8, <1>9, <1>10, <1>11
<1> QED
  BY <1>4, <1>5, <1>6, <1>7, <1>12

\* Whatever happens to a line of a stored record, the line that is blamed is
\* not one before it, and a line that is missing or doubled does not go
\* unnoticed.
THEOREM DamageIsFound == ReplaySpec => []DamageIsCaught
<1>1. ASSUME Kept
      PROVE  DamageIsCaught
  <2>1. PICK hist, path : /\ Recording(moves, hist, path) /\ hist[Len(moves)] = state
                          /\ Stored(hist, path)
    BY <1>1 DEF Kept
  <2> DEFINE n == Len(moves)
             w == CourseSource(hist, path, n)
  <2>2. n \in Nat /\ Course(hist, path, n)
    BY <2>1 DEF Recording, Course
  <2>3. Laid(w, hist, path, n) /\ Listed(w)
    BY <2>2, SourceIsLaid
  <2>4. \A id \in DOMAIN entries : entries[id].source = w /\ hist[n].phase = "finished"
    <3>1. Entry(hist, path, n).source = w
      BY DEF Entry
    <3> QED
      BY <2>1, <3>1 DEF Stored
  <2> HIDE DEF n, w
  <2>5. ASSUME NEW d \in Damaged(w), hist[n].phase = "finished"
        PROVE  /\ d.kind = "count" => Replay(d.source, "answered").blame # Accepted
               /\ LET blame == Replay(d.source, "answered").blame
                  IN  /\ blame.line # 0 => blame.line >= d.at
                      /\ blame.code = "record_illegal_move" => blame.line # 0
    <3>1. PICK L : Harmed(d.source, L, w, n, d.at)
      BY <2>2, <2>3, DamageHarms
    <3>2. LET blame == Replay(d.source, "answered").blame
          IN  /\ blame.line # 0 => blame.line >= d.at
              /\ blame.code = "record_illegal_move" => blame.line # 0
      BY <2>2, <2>3, <3>1, BlamedAfter
    <3>3. ASSUME d.kind = "count"
          PROVE  Replay(d.source, "answered").blame # Accepted
      <4>1. PICK i \in 4..(n + 6) : d = Lost(w, i) \/ d = Doubled(w, i)
        BY <2>2, <2>3, <3>3, CountDamage
      <4> QED
        BY <2>2, <2>3, <2>5, <4>1, LostIsCaught, DoubledIsCaught
    <3> QED
      BY <3>2, <3>3
  <2> QED
    BY <2>4, <2>5 DEF DamageIsCaught
<1> QED
  BY <1>1, RecordIsKept, PTL
=============================================================================
