-------------------------- MODULE WebClientProofs --------------------------
(***************************************************************************)
(* The browser of WebClient, for any number of connections, requests,      *)
(* replays, rooms, restarts and unread messages: what the page believes of *)
(* its connection, and what it shows of its match.                         *)
(***************************************************************************)
EXTENDS WebClient, SequenceTheorems, TLAPS

-----------------------------------------------------------------------------
\* The inductive invariant.

\* Types.
Turn   == [turn : Nat, player : Side, phase : {"none", "playing", "finished"}]
Screen == [id : Nat, game : Turn]

\* The messages that put a state on the screen, those that decide what is on
\* it, and those that name the seat.
Carrying == {"stale_turn", "opponentLeft", "opponentReturned", "matched", "state"}
Deciding == Carrying \cup {"waiting", "closed"}
Seating  == {"waiting", "matched", "state"}
Bridging == {"bridgeOpen", "bridgeClosed", "bridgeError"}

Msg == [type : Deciding \cup Bridging \cup {"refused"}, seat : Side \cup {"none"}, state : Screen]

Wire == [page   : {"none", "opening", "open", "closed"},
         server : {"none", "joining", "serving", "gone"},
         in     : Seq(Msg),
         out    : Seq([player : Side \cup {"none"}, turn : Nat])]

RoomState == [id : Nat, phase : {"none", "waiting", "playing", "suspended", "closed"}, game : Turn,
              me : Side \cup {"none"}, held : 0..MaxConnects, opponent : {"absent", "here", "gone"}]

PageTypes ==
    /\ mode \in {"local", "online"} /\ link \in {"closed", "connecting", "open"}
    /\ shown \in Screen /\ final \in Screen
    /\ seat \in Side \cup {"none"}
    /\ replay \in [on : BOOLEAN, of : Nat, at : 0..LastTurn]
    /\ fetching \in [open : Seq(Nat), sent : Nat]

WireTypes ==
    /\ conn \in [Connection -> Wire]
    /\ opened \in 0..MaxConnects
    /\ room \in RoomState
    /\ rooms \in Nat

\* The page has the connection opened last while it plays a match, and none
\* otherwise.
OneLink ==
    /\ current \in {None, opened}
    /\ mode = "online" <=> current # None
    /\ mode = "local" => visible = {}

\* Connections that the page has given up bring nothing any more; those to
\* come are untouched.
OthersAreSilent ==
    \A c \in Connection : c # current =>
        IF c <= opened THEN conn[c].page = "closed" /\ conn[c].in = <<>> ELSE conn[c] = NoConn

\* What the bridge says of the present connection, and what the page has read
\* of it.
Closes(m) == m.type = "bridgeClosed"
Opens(m)  == m.type = "bridgeOpen"

IsTold(c) ==
    LET q == conn[c].in
    IN  /\ conn[c].page # "none"
        /\ \A i \in 1..Len(q) : Closes(q[i]) <=> conn[c].page = "closed" /\ i = Len(q)
        /\ \A i \in 1..Len(q) : Opens(q[i]) => i = 1 /\ link = "connecting"
        /\ conn[c].page = "opening" => link = "connecting" /\ q = <<>> /\ conn[c].server = "none"
        /\ conn[c].page = "open" => link = "open" \/ (link = "connecting" /\ q # <<>> /\ Opens(q[1]))
        /\ conn[c].page = "closed" => (q = <<>> <=> link = "closed")
        /\ conn[c].page = "closed" /\ q = <<>> => "reconnect" \in visible

LinkIsTold == mode = "online" => IsTold(current)

\* The handler that serves is the one whose connection has the seat.
ServesHeld == \A c \in Connection : conn[c].server = "serving" <=> room.held = c

\* Before it has a seat, a connection brings nothing but its own opening.
JoinersWait ==
    \A c \in Connection : conn[c].server \in {"none", "joining"} /\ conn[c].page = "open" =>
        \A i \in 1..Len(conn[c].in) : Opens(conn[c].in[i])

RoomIsSound ==
    /\ room.held # None => room.me # "none" /\ room.phase # "none"
    /\ room.phase = "suspended" => room.me # "none"
    /\ room.phase = "waiting" => room.game = NoState.game

\* A replay is on the screen only after one was asked for.
ReplayWasAsked == fetching.open # <<>> \/ "panel" \in visible => fetching.sent > 0

\* What is under way ends in the state x.
EndsIn(q, x) ==
    \E i \in 1..Len(q) : /\ q[i].type \in Carrying /\ q[i].state = x
                         /\ \A j \in i+1..Len(q) : q[j].type \notin Deciding

NoneDecides(q) == \A i \in 1..Len(q) : q[i].type \notin Deciding

\* The page has a seat of which it is told on an open connection.
Seated == mode = "online" /\ room.held = current /\ conn[current].page = "open"

KnowsSeat ==
    LET q == conn[current].in
    IN  Seated =>
        /\ \A i \in 1..Len(q) : q[i].type \in Seating => q[i].seat = room.me
        /\ seat = room.me \/ \E i \in 1..Len(q) : q[i].type \in Seating

ShowsMatch ==
    LET q   == conn[current].in
        now == State(room.id, room.game)
    IN  Seated /\ room.phase \in {"playing", "suspended"} =>
        \/ EndsIn(q, now)
        \/ NoneDecides(q) /\ loaded /\ (replay.on \/ shown = now \/ PutBack)

ShowsNoLostMatch ==
    LET q == conn[current].in
    IN  Seated /\ room.phase = "waiting" =>
        /\ \A i \in 1..Len(q) : q[i].type \in Carrying => q[i].state.game.phase # "playing"
        /\ \/ \E i \in 1..Len(q) : q[i].type = "waiting"
           \/ replay.on \/ ~loaded \/ shown.game.phase # "playing" \/ PutBack

Connected ==
    /\ PageTypes /\ WireTypes /\ OneLink /\ OthersAreSilent /\ LinkIsTold /\ ServesHeld
    /\ JoinersWait /\ RoomIsSound /\ ReplayWasAsked

Following == KnowsSeat /\ ShowsMatch /\ ShowsNoLostMatch

-----------------------------------------------------------------------------
\* Queues of messages.

\* A queue with more messages.
LEMMA JoinedIs ==
    ASSUME NEW q \in Seq(Msg), NEW new \in Seq(Msg)
    PROVE  /\ q \o new \in Seq(Msg) /\ Len(q \o new) = Len(q) + Len(new)
           /\ Len(q) \in Nat /\ Len(new) \in Nat
           /\ \A i \in 1..Len(q) : (q \o new)[i] = q[i]
           /\ \A i \in 1..Len(new) : (q \o new)[Len(q) + i] = new[i]
<1>1. Len(q) \in Nat /\ Len(new) \in Nat
  OBVIOUS
<1>2. /\ q \o new \in Seq(Msg) /\ Len(q \o new) = Len(q) + Len(new)
      /\ \A i \in 1..(Len(q) + Len(new)) :
            (q \o new)[i] = IF i <= Len(q) THEN q[i] ELSE new[i - Len(q)]
  BY ConcatProperties
<1> DEFINE m == Len(q)
           n == Len(new)
           h == q \o new
<1> HIDE DEF m, n, h
<1>3. /\ m \in Nat /\ n \in Nat
      /\ \A i \in 1..(m + n) : h[i] = IF i <= m THEN q[i] ELSE new[i - m]
  BY <1>1, <1>2 DEF m, n, h
<1>4. ASSUME NEW i \in 1..m
      PROVE  h[i] = q[i]
  <2>1. i \in 1..(m + n) /\ i <= m
    BY <1>3
  <2> QED
    BY <1>3, <2>1
<1>5. ASSUME NEW i \in 1..n
      PROVE  h[m + i] = new[i]
  <2>1. m + i \in 1..(m + n) /\ ~(m + i <= m) /\ (m + i) - m = i
    BY <1>3
  <2> QED
    BY <1>3, <2>1
<1> QED
  BY <1>1, <1>2, <1>4, <1>5 DEF m, n, h

\* What happens to EndsIn and NoneDecides when messages are added.
LEMMA EndsInAdded ==
    ASSUME NEW q \in Seq(Msg), NEW new \in Seq(Msg), NEW x
    PROVE  /\ EndsIn(new, x) => EndsIn(q \o new, x)
           /\ EndsIn(q, x) /\ NoneDecides(new) => EndsIn(q \o new, x)
           /\ NoneDecides(q) /\ NoneDecides(new) => NoneDecides(q \o new)
<1>1. /\ q \o new \in Seq(Msg) /\ Len(q \o new) = Len(q) + Len(new)
      /\ Len(q) \in Nat /\ Len(new) \in Nat
      /\ \A i \in 1..Len(q) : (q \o new)[i] = q[i]
      /\ \A i \in 1..Len(new) : (q \o new)[Len(q) + i] = new[i]
  BY JoinedIs
<1>2. ASSUME EndsIn(new, x) PROVE EndsIn(q \o new, x)
  <2>1. PICK i \in 1..Len(new) : /\ new[i].type \in Carrying /\ new[i].state = x
                                 /\ \A j \in i+1..Len(new) : new[j].type \notin Deciding
    BY <1>2 DEF EndsIn
  <2>2. Len(q) + i \in 1..Len(q \o new) /\ (q \o new)[Len(q) + i] = new[i]
    BY <1>1
  <2>3. ASSUME NEW j \in (Len(q) + i)+1..Len(q \o new) PROVE (q \o new)[j].type \notin Deciding
    <3>1. j - Len(q) \in i+1..Len(new) /\ j - Len(q) \in 1..Len(new) /\ Len(q) + (j - Len(q)) = j
      BY <1>1
    <3> QED
      BY <1>1, <2>1, <3>1
  <2> QED
    BY <2>1, <2>2, <2>3 DEF EndsIn
<1>3. ASSUME EndsIn(q, x), NoneDecides(new) PROVE EndsIn(q \o new, x)
  <2>1. PICK i \in 1..Len(q) : /\ q[i].type \in Carrying /\ q[i].state = x
                               /\ \A j \in i+1..Len(q) : q[j].type \notin Deciding
    BY <1>3 DEF EndsIn
  <2>2. i \in 1..Len(q \o new) /\ (q \o new)[i] = q[i]
    BY <1>1
  <2>3. ASSUME NEW j \in i+1..Len(q \o new) PROVE (q \o new)[j].type \notin Deciding
    <3>1. CASE j <= Len(q)
      BY <1>1, <2>1, <3>1
    <3>2. CASE j > Len(q)
      <4>1. j - Len(q) \in 1..Len(new) /\ Len(q) + (j - Len(q)) = j
        BY <1>1, <3>2
      <4> QED
        BY <1>1, <1>3, <4>1 DEF NoneDecides
    <3> QED
      BY <1>1, <3>1, <3>2
  <2> QED
    BY <2>1, <2>2, <2>3 DEF EndsIn
<1>4. ASSUME NoneDecides(q), NoneDecides(new) PROVE NoneDecides(q \o new)
  <2>1. SUFFICES ASSUME NEW j \in 1..Len(q \o new) PROVE (q \o new)[j].type \notin Deciding
    BY DEF NoneDecides
  <2>2. CASE j <= Len(q)
    BY <1>1, <1>4, <2>2 DEF NoneDecides
  <2>3. CASE j > Len(q)
    <3>1. j - Len(q) \in 1..Len(new) /\ Len(q) + (j - Len(q)) = j
      BY <1>1, <2>3
    <3> QED
      BY <1>1, <1>4, <3>1 DEF NoneDecides
  <2> QED
    BY <1>1, <2>2, <2>3
<1> QED
  BY <1>2, <1>3, <1>4

\* What happens to them when the first message is read.
LEMMA EndsInRead ==
    ASSUME NEW q \in Seq(Msg), q # <<>>, NEW x
    PROVE  /\ EndsIn(q, x) => \/ EndsIn(Tail(q), x)
                              \/ /\ Head(q).type \in Carrying /\ Head(q).state = x
                                 /\ NoneDecides(Tail(q))
           /\ NoneDecides(q) => NoneDecides(Tail(q)) /\ Head(q).type \notin Deciding
<1>1. /\ Tail(q) \in Seq(Msg) /\ Len(Tail(q)) = Len(q) - 1 /\ Len(q) \in Nat \ {0}
      /\ Head(q) = q[1]
      /\ \A i \in 1..Len(q) - 1 : Tail(q)[i] = q[i + 1]
  OBVIOUS
<1>2. ASSUME EndsIn(q, x)
      PROVE  \/ EndsIn(Tail(q), x)
             \/ Head(q).type \in Carrying /\ Head(q).state = x /\ NoneDecides(Tail(q))
  <2>1. PICK i \in 1..Len(q) : /\ q[i].type \in Carrying /\ q[i].state = x
                               /\ \A j \in i+1..Len(q) : q[j].type \notin Deciding
    BY <1>2 DEF EndsIn
  <2>2. CASE i = 1
    <3>1. \A j \in 1..Len(Tail(q)) : Tail(q)[j] = q[j + 1] /\ j + 1 \in i+1..Len(q)
      BY <1>1, <2>2
    <3> QED
      BY <1>1, <2>1, <2>2, <3>1 DEF NoneDecides
  <2>3. CASE i # 1
    <3>1. i - 1 \in 1..Len(Tail(q)) /\ Tail(q)[i - 1] = q[i]
      BY <1>1, <2>3
    <3>2. \A j \in (i-1)+1..Len(Tail(q)) : Tail(q)[j] = q[j + 1] /\ j + 1 \in i+1..Len(q)
      BY <1>1, <2>3
    <3> QED
      BY <2>1, <3>1, <3>2 DEF EndsIn
  <2> QED
    BY <2>2, <2>3
<1>3. ASSUME NoneDecides(q) PROVE NoneDecides(Tail(q)) /\ Head(q).type \notin Deciding
  BY <1>1, <1>3 DEF NoneDecides
<1> QED
  BY <1>2, <1>3

-----------------------------------------------------------------------------
\* What is sent.

\* The states and messages of the model have their types.
LEMMA MessagesTyped ==
    /\ NoState \in Screen /\ NoState.game \in Turn /\ NewGame \in Turn
    /\ \A t \in 0..LastTurn : Position(t) \in Turn
    /\ \A t \in 0..LastTurn, id \in Nat : State(id, Position(t)) \in Screen
    /\ \A type \in Bridging \cup {"refused"} : Signal(type) \in Msg /\ Signal(type).type = type
    /\ \A r \in RoomState, type \in Deciding :
          About(r, type) \in Msg /\ About(r, type).type = type /\ About(r, type).seat = r.me
          /\ About(r, type).state = State(r.id, r.game)
<1>1. NoState \in Screen /\ NoState.game \in Turn /\ NewGame \in Turn
  BY DEF NoState, Screen, State, Local, Turn, Side, NewGame
<1>2. \A t \in 0..LastTurn : Position(t) \in Turn
  BY LastTurnAssumption DEF Position, Turn, Side
<1>3. \A t \in 0..LastTurn, id \in Nat : State(id, Position(t)) \in Screen
  BY <1>2 DEF State, Screen
<1>4. \A type \in Bridging \cup {"refused"} : Signal(type) \in Msg /\ Signal(type).type = type
  BY <1>1 DEF Signal, Message, Msg, Side
<1>5. \A r \in RoomState, type \in Deciding :
          About(r, type) \in Msg /\ About(r, type).type = type /\ About(r, type).seat = r.me
          /\ About(r, type).state = State(r.id, r.game)
  <2> TAKE r \in RoomState, type \in Deciding
  <2>1. State(r.id, r.game) \in Screen /\ r.me \in Side \cup {"none"}
    BY DEF RoomState, State, Screen
  <2> QED
    BY <2>1 DEF About, Message, Msg
<1> QED
  BY <1>1, <1>2, <1>3, <1>4, <1>5

\* The messages of the server but those of the bridge.
Plain(new) == \A i \in 1..Len(new) : new[i].type \notin Bridging

\* Sending adds to what an open connection brings, and changes nothing else.
LEMMA SentIs ==
    ASSUME NEW cs \in [Connection -> Wire], NEW c \in 0..MaxConnects, NEW new \in Seq(Msg)
    PROVE  /\ Sent(cs, c, new) \in [Connection -> Wire]
           /\ \A d \in Connection : d # c => Sent(cs, c, new)[d] = cs[d]
           /\ c # None =>
                 /\ Sent(cs, c, new)[c].page = cs[c].page
                 /\ Sent(cs, c, new)[c].server = cs[c].server
                 /\ Sent(cs, c, new)[c].in = IF cs[c].page = "open" THEN cs[c].in \o new ELSE cs[c].in
<1>1. CASE c # None /\ cs[c].page = "open"
  <2>1. c \in Connection /\ cs[c] \in Wire
    BY <1>1 DEF None, Connection
  <2>2. cs[c].in \o new \in Seq(Msg)
    BY <2>1 DEF Wire
  <2>3. [cs[c] EXCEPT !.in = @ \o new] \in Wire
    BY <2>1, <2>2 DEF Wire
  <2>4. Sent(cs, c, new) = [cs EXCEPT ![c] = [cs[c] EXCEPT !.in = @ \o new]]
    BY <1>1 DEF Sent
  <2> QED
    BY <1>1, <2>1, <2>3, <2>4 DEF Wire
<1>2. CASE ~(c # None /\ cs[c].page = "open")
  BY <1>2 DEF Sent
<1> QED
  BY <1>1, <1>2

\* Sending and closing also says that the connection is closed.
LEMMA SentAndClosedIs ==
    ASSUME NEW cs \in [Connection -> Wire], NEW c \in Connection, NEW new \in Seq(Msg)
    PROVE  LET then == SentAndClosed(cs, c, new)
           IN  /\ then \in [Connection -> Wire]
               /\ \A d \in Connection : d # c => then[d] = cs[d]
               /\ then[c].page = "closed"
               /\ then[c].server = cs[c].server
               /\ then[c].in = IF cs[c].page = "open"
                               THEN cs[c].in \o Append(new, Signal("bridgeClosed")) ELSE cs[c].in
<1>1. Append(new, Signal("bridgeClosed")) \in Seq(Msg)
  BY MessagesTyped DEF Bridging
<1>2. c \in 0..MaxConnects /\ c # None
  BY WebClientAssumption DEF Connection, None
<1> DEFINE s == Sent(cs, c, Append(new, Signal("bridgeClosed")))
<1>3. /\ s \in [Connection -> Wire]
      /\ \A d \in Connection : d # c => s[d] = cs[d]
      /\ s[c].server = cs[c].server
      /\ s[c].in = IF cs[c].page = "open"
                   THEN cs[c].in \o Append(new, Signal("bridgeClosed")) ELSE cs[c].in
  BY <1>1, <1>2, SentIs
<1>4. SentAndClosed(cs, c, new) = [s EXCEPT ![c] = [s[c] EXCEPT !.page = "closed"]]
  BY DEF SentAndClosed
<1> HIDE DEF s
<1>5. s[c] \in Wire
  BY <1>3
<1>6. [s[c] EXCEPT !.page = "closed"] \in Wire
  BY <1>5 DEF Wire
<1> QED
  BY <1>3, <1>4, <1>5, <1>6 DEF Wire

-----------------------------------------------------------------------------
\* Steps of the network and the server.

\* Only the page's own connection is open or being opened.
LEMMA ActiveIsCurrent ==
    ASSUME Connected, NEW c \in Connection, conn[c].page \in {"opening", "open"}
    PROVE  c = current /\ mode = "online" /\ IsTold(c)
<1>1. c # None
  BY WebClientAssumption DEF Connection, None
<1> QED
  BY <1>1 DEF Connected, OthersAreSilent, OneLink, LinkIsTold, NoConn

\* More messages of the server.
LEMMA SaidIsTold ==
    ASSUME WireTypes, NEW c \in Connection, IsTold(c), NEW new \in Seq(Msg), Plain(new),
           conn'[c].page = conn[c].page, link' = link, visible' = visible,
           conn'[c].in = IF conn[c].page = "open" THEN conn[c].in \o new ELSE conn[c].in,
           conn[c].page = "opening" => conn'[c].server = conn[c].server
    PROVE  IsTold(c)'
<1> DEFINE q == conn[c].in
<1>1. q \in Seq(Msg) /\ Len(q) \in Nat
  BY DEF WireTypes, Wire
<1>2. CASE conn[c].page = "open"
  <2>1. /\ q \o new \in Seq(Msg) /\ Len(q \o new) = Len(q) + Len(new)
        /\ Len(new) \in Nat
        /\ \A i \in 1..Len(q) : (q \o new)[i] = q[i]
        /\ \A i \in 1..Len(new) : (q \o new)[Len(q) + i] = new[i]
    BY <1>1, JoinedIs
  <2>2. ASSUME NEW i \in 1..Len(q \o new)
        PROVE  ~Closes((q \o new)[i]) /\ (Opens((q \o new)[i]) => i = 1 /\ link = "connecting")
    <3>1. CASE i <= Len(q)
      BY <1>1, <1>2, <2>1, <3>1 DEF IsTold
    <3>2. CASE i > Len(q)
      <4>1. Len(q) \in Nat /\ Len(new) \in Nat /\ i \in 1..(Len(q) + Len(new))
        BY <1>1, <2>1
      <4> HIDE DEF q
      <4>2. i - Len(q) \in 1..Len(new) /\ Len(q) + (i - Len(q)) = i
        BY <4>1, <3>2
      <4> QED
        BY <2>1, <4>2 DEF Plain, Bridging, Closes, Opens
    <3> QED
      BY <1>1, <2>1, <3>1, <3>2
  <2>3. q # <<>> => q \o new # <<>> /\ (q \o new)[1] = q[1]
    BY <1>1, <2>1
  <2> QED
    BY <1>2, <2>2, <2>3 DEF IsTold
<1>3. CASE conn[c].page # "open"
  BY <1>3 DEF IsTold
<1> QED
  BY <1>2, <1>3

\* Adding a message at the end.
LEMMA AppendLast ==
    ASSUME NEW s \in Seq(Msg), NEW t \in Seq(Msg), NEW m \in Msg
    PROVE  s \o Append(t, m) = Append(s \o t, m)
<1>1. Append(t, m) = t \o <<m>> /\ <<m>> \in Seq(Msg) /\ s \o t \in Seq(Msg)
  BY AppendIsConcat
<1>2. Append(s \o t, m) = (s \o t) \o <<m>>
  BY <1>1, AppendIsConcat
<1> QED
  BY <1>1, <1>2, ConcatAssociative

\* The end of an open connection: some of what was under way, maybe more, and
\* the notice.
LEMMA ClosedIsTold ==
    ASSUME WireTypes, NEW c \in Connection, IsTold(c), conn[c].page = "open",
           NEW h \in Seq(Msg),
           \A i \in 1..Len(h) : ~Closes(h[i]) /\ (Opens(h[i]) => i = 1 /\ link = "connecting"),
           conn'[c].page = "closed", conn'[c].in = Append(h, Signal("bridgeClosed")),
           link' = link, visible' = visible
    PROVE  IsTold(c)'
<1>1. Signal("bridgeClosed") \in Msg /\ Signal("bridgeClosed").type = "bridgeClosed"
  BY MessagesTyped DEF Bridging
<1> DEFINE s == Append(h, Signal("bridgeClosed"))
<1>2. /\ s \in Seq(Msg) /\ Len(s) = Len(h) + 1 /\ Len(h) \in Nat /\ s # <<>>
      /\ \A i \in 1..Len(h) : s[i] = h[i]
      /\ s[Len(h) + 1].type = "bridgeClosed"
  BY <1>1
<1>3. ASSUME NEW i \in 1..Len(s)
      PROVE  (Closes(s[i]) <=> i = Len(s)) /\ (Opens(s[i]) => i = 1 /\ link = "connecting")
  <2>1. CASE i <= Len(h)
    BY <1>2, <2>1
  <2>2. CASE i = Len(h) + 1
    BY <1>2, <2>2 DEF Closes, Opens
  <2> QED
    BY <1>2, <2>1, <2>2
<1>4. link # "closed"
  BY DEF IsTold
<1> QED
  BY <1>2, <1>3, <1>4 DEF IsTold

\* What was under way, as far as it is left, and more messages of the server.
LEMMA RestIsPlain ==
    ASSUME WireTypes, NEW c \in Connection, IsTold(c), conn[c].page = "open",
           NEW n \in 0..Len(conn[c].in), NEW new \in Seq(Msg), Plain(new)
    PROVE  LET h == SubSeq(conn[c].in, 1, n) \o new
           IN  /\ h \in Seq(Msg)
               /\ \A i \in 1..Len(h) : ~Closes(h[i]) /\ (Opens(h[i]) => i = 1 /\ link = "connecting")
<1> DEFINE q == SubSeq(conn[c].in, 1, n)
<1>1. conn[c].in \in Seq(Msg) /\ Len(conn[c].in) \in Nat
  BY DEF WireTypes, Wire
<1>2. q \in Seq(Msg) /\ Len(q) = n /\ \A i \in 1..n : q[i] = conn[c].in[i] /\ i \in 1..Len(conn[c].in)
  BY <1>1
<1> HIDE DEF q
<1>3. /\ q \o new \in Seq(Msg) /\ Len(q \o new) = Len(q) + Len(new)
      /\ Len(new) \in Nat /\ n \in Nat
      /\ \A i \in 1..Len(q) : (q \o new)[i] = q[i]
      /\ \A i \in 1..Len(new) : (q \o new)[Len(q) + i] = new[i]
  BY <1>1, <1>2, JoinedIs
<1>4. ASSUME NEW i \in 1..Len(q \o new)
      PROVE  ~Closes((q \o new)[i]) /\ (Opens((q \o new)[i]) => i = 1 /\ link = "connecting")
  <2>1. CASE i <= n
    BY <1>2, <1>3, <2>1 DEF IsTold
  <2>2. CASE i > n
    <3>1. i - n \in 1..Len(new) /\ Len(q) + (i - n) = i
      BY <1>2, <1>3, <2>2
    <3> QED
      BY <1>3, <3>1 DEF Plain, Bridging, Closes, Opens
  <2> QED
    BY <1>2, <1>3, <2>1, <2>2
<1> QED
  BY <1>3, <1>4 DEF q

\* What every step of the network or the server does to the connections: the
\* ones that are closed or not there yet stay as the page sees them.
Keeps(c) ==
    /\ conn[c].page = "closed" => conn'[c].page = "closed" /\ conn'[c].in = conn[c].in
    /\ conn[c] = NoConn => conn'[c] = NoConn
    /\ IsTold(c) => IsTold(c)'

\* So a step of the network or the server keeps the invariant.
LEMMA ServerKeeps ==
    ASSUME Connected, NoPageStep, WireTypes', ServesHeld', JoinersWait', RoomIsSound',
           \A c \in Connection : Keeps(c)
    PROVE  Connected'
<1>1. PageTypes' /\ OneLink' /\ ReplayWasAsked'
  BY DEF Connected, NoPageStep, pageVars, gameVars, linkVars, replayVars, httpVars, PageTypes,
         OneLink, ReplayWasAsked
<1>2. UNCHANGED <<mode, current, opened>>
  BY DEF NoPageStep, pageVars, linkVars
<1>3. OthersAreSilent'
  BY <1>2 DEF Connected, OthersAreSilent, Keeps
<1>4. LinkIsTold'
  <2>1. SUFFICES ASSUME mode = "online" PROVE IsTold(current)'
    BY <1>2 DEF LinkIsTold
  <2>2. current \in Connection
    BY <2>1 DEF Connected, OneLink, WireTypes, Connection, None
  <2>3. PICK c \in Connection : c = current
    BY <2>2
  <2>4. IsTold(c)'
    BY <2>1, <2>3 DEF Connected, LinkIsTold, Keeps
  <2> QED
    BY <1>2, <2>3, <2>4 DEF IsTold
<1> QED
  BY <1>1, <1>3, <1>4 DEF Connected

\* A connection that a step leaves alone.
LEMMA LeftAlone ==
    ASSUME NEW c \in Connection, conn'[c] = conn[c], NoPageStep
    PROVE  Keeps(c)
BY DEF Keeps, IsTold, NoPageStep, pageVars, linkVars, replayVars

\* A handler that serves, or a step of the opponent, sends to the connection
\* that has the seat.
LEMMA SendKeeps ==
    ASSUME Connected, NoPageStep,
           NEW c \in 0..MaxConnects, c = room.held,
           NEW cs \in [Connection -> Wire],
           \A d \in Connection : /\ cs[d].page = conn[d].page /\ cs[d].server = conn[d].server
                                 /\ cs[d].in = conn[d].in
                                 /\ d # c => cs[d] = conn[d],
           NEW new \in Seq(Msg), Plain(new), conn' = Sent(cs, c, new),
           room' \in RoomState, room'.held = room.held, RoomIsSound', rooms' \in Nat
    PROVE  Connected'
<1>1. WireTypes /\ ServesHeld /\ JoinersWait
  BY DEF Connected
<1>2. /\ conn' \in [Connection -> Wire]
      /\ \A d \in Connection : d # c => conn'[d] = conn[d]
      /\ \A d \in Connection : d = c =>
            /\ conn'[d].page = conn[d].page /\ conn'[d].server = conn[d].server
            /\ conn'[d].in = IF conn[d].page = "open" THEN conn[d].in \o new ELSE conn[d].in
  <2>1. \A d \in Connection : d # None
    BY WebClientAssumption DEF Connection, None
  <2> QED
    BY <2>1, SentIs
<1>3. WireTypes'
  BY <1>1, <1>2 DEF WireTypes, NoPageStep
<1>4. ServesHeld' /\ JoinersWait'
  BY <1>1, <1>2 DEF ServesHeld, JoinersWait
<1>5. ASSUME NEW d \in Connection PROVE Keeps(d)
  <2>1. CASE d # c
    BY <1>2, <2>1, LeftAlone
  <2>2. CASE d = c
    <3>1. conn[d].server = "serving"
      BY <1>1, <2>2 DEF ServesHeld
    <3>2. conn[d] # NoConn
      BY <3>1 DEF NoConn
    <3>3. link' = link /\ visible' = visible
      BY DEF NoPageStep, pageVars, linkVars, replayVars
    <3>4. IsTold(d) => IsTold(d)'
      BY <1>1, <1>2, <2>2, <3>3, SaidIsTold
    <3> QED
      BY <1>2, <2>2, <3>2, <3>4 DEF Keeps
  <2> QED
    BY <2>1, <2>2
<1> QED
  BY <1>3, <1>4, <1>5, ServerKeeps

\* A connection of which nothing was sent yet.
LEMMA FreshIs ==
    ASSUME NEW p \in {"open", "closed"}, NEW v \in {"joining", "gone"}, NEW q \in Seq(Msg)
    PROVE  LET w == [NoConn EXCEPT !.page = p, !.server = v, !.in = q]
           IN  w \in Wire /\ w.page = p /\ w.server = v /\ w.in = q
<1>1. NoConn \in Wire
  BY DEF NoConn, Wire
<1> QED
  BY <1>1 DEF Wire

\* The attempt to connect fails.
LEMMA ConnectFailsKeeps ==
    ASSUME Connected, NEW c \in Connection, ConnectFails(c)
    PROVE  Connected'
<1>1. c = current /\ mode = "online" /\ IsTold(c)
  BY ActiveIsCurrent DEF ConnectFails
<1>2. WireTypes /\ ServesHeld /\ JoinersWait /\ RoomIsSound /\ NoPageStep /\ UNCHANGED serverVars
  BY DEF Connected, ConnectFails
<1> DEFINE q == <<Signal("bridgeError"), Signal("bridgeClosed")>>
           w == [NoConn EXCEPT !.page = "closed", !.server = "gone", !.in = q]
<1>3. conn' = [conn EXCEPT ![c] = w] /\ conn[c].page = "opening"
  BY DEF ConnectFails
<1>4. /\ q \in Seq(Msg) /\ Len(q) = 2 /\ q # <<>>
      /\ q[1].type = "bridgeError" /\ q[2].type = "bridgeClosed"
  BY MessagesTyped DEF Bridging
<1> HIDE DEF q
<1>5. w \in Wire /\ w.page = "closed" /\ w.server = "gone" /\ w.in = q
  BY <1>4, FreshIs
<1> HIDE DEF w
<1>6. conn[c].server = "none" /\ link = "connecting"
  BY <1>1, <1>3 DEF IsTold
<1>7. /\ conn' \in [Connection -> Wire] /\ conn'[c] = w
      /\ \A d \in Connection : d # c => conn'[d] = conn[d]
  BY <1>2, <1>3, <1>5 DEF WireTypes
<1>8. WireTypes' /\ RoomIsSound'
  BY <1>2, <1>7 DEF WireTypes, NoPageStep, serverVars, RoomIsSound
<1>9. ServesHeld' /\ JoinersWait'
  BY <1>2, <1>5, <1>6, <1>7 DEF ServesHeld, JoinersWait, serverVars
<1>10. IsTold(c)'
  <2>1. link' = link
    BY <1>2 DEF NoPageStep, pageVars, linkVars
  <2>2. \A i \in 1..Len(q) : (Closes(q[i]) <=> i = Len(q)) /\ ~Opens(q[i])
    <3>1. \A i \in 1..Len(q) : i = 1 \/ i = 2
      BY <1>4
    <3> QED
      BY <1>4, <3>1 DEF Closes, Opens
  <2>3. conn'[c].in = q /\ conn'[c].page = "closed"
    BY <1>5, <1>7
  <2> QED
    BY <1>4, <1>6, <2>1, <2>2, <2>3 DEF IsTold
<1>11. Keeps(c)
  BY <1>3, <1>10 DEF Keeps, NoConn
<1> QED
  BY <1>2, <1>7, <1>8, <1>9, <1>11, LeftAlone, ServerKeeps

\* The upgrade.
LEMMA UpgradeKeeps ==
    ASSUME Connected, NEW c \in Connection, Upgrade(c)
    PROVE  Connected'
<1>1. WireTypes /\ ServesHeld /\ JoinersWait /\ RoomIsSound /\ NoPageStep /\ UNCHANGED serverVars
  BY DEF Connected, Upgrade
<1>2. link' = link /\ visible' = visible
  BY <1>1 DEF NoPageStep, pageVars, linkVars, replayVars
<1>3. conn[c] \in Wire /\ conn[c].server = "none"
  BY <1>1 DEF WireTypes, Upgrade
<1>4. CASE conn[c].page = "closed"
  <2> DEFINE w == [conn[c] EXCEPT !.server = "joining"]
  <2>1. w \in Wire /\ w.page = "closed" /\ w.in = conn[c].in /\ w.server = "joining"
    BY <1>3, <1>4 DEF Wire
  <2>2. conn' = [conn EXCEPT ![c] = w]
    BY <1>4 DEF Upgrade
  <2> HIDE DEF w
  <2>3. /\ conn' \in [Connection -> Wire] /\ conn'[c] = w
        /\ \A d \in Connection : d # c => conn'[d] = conn[d]
    BY <1>1, <2>1, <2>2 DEF WireTypes
  <2>4. WireTypes' /\ RoomIsSound'
    BY <1>1, <2>3 DEF WireTypes, NoPageStep, serverVars, RoomIsSound
  <2>5. ServesHeld' /\ JoinersWait'
    BY <1>1, <1>3, <2>1, <2>3 DEF ServesHeld, JoinersWait, serverVars
  <2>6. IsTold(c) => IsTold(c)'
    BY <1>2, <1>4, <2>1, <2>3 DEF IsTold
  <2>7. Keeps(c)
    BY <1>4, <2>1, <2>3, <2>6 DEF Keeps, NoConn
  <2> QED
    BY <1>1, <2>3, <2>4, <2>5, <2>7, LeftAlone, ServerKeeps
<1>5. CASE conn[c].page = "opening"
  <2> DEFINE q == <<Signal("bridgeOpen")>>
             w == [NoConn EXCEPT !.page = "open", !.server = "joining", !.in = q]
  <2>1. conn' = [conn EXCEPT ![c] = w]
    BY <1>5 DEF Upgrade
  <2>2. q \in Seq(Msg) /\ Len(q) = 1 /\ q # <<>> /\ q[1].type = "bridgeOpen"
    BY MessagesTyped DEF Bridging
  <2> HIDE DEF q
  <2>3. w \in Wire /\ w.page = "open" /\ w.server = "joining" /\ w.in = q
    BY <2>2, FreshIs
  <2> HIDE DEF w
  <2>4. /\ conn' \in [Connection -> Wire] /\ conn'[c] = w
        /\ \A d \in Connection : d # c => conn'[d] = conn[d]
    BY <1>1, <2>1, <2>3 DEF WireTypes
  <2>5. WireTypes' /\ RoomIsSound'
    BY <1>1, <2>4 DEF WireTypes, NoPageStep, serverVars, RoomIsSound
  <2>6. ServesHeld' /\ JoinersWait'
    BY <1>1, <1>3, <2>2, <2>3, <2>4 DEF ServesHeld, JoinersWait, serverVars, Opens
  <2>7. IsTold(c) => IsTold(c)'
    BY <1>2, <1>5, <2>2, <2>3, <2>4 DEF IsTold, Closes, Opens
  <2>8. Keeps(c)
    BY <1>5, <2>7 DEF Keeps, NoConn
  <2> QED
    BY <1>1, <2>4, <2>5, <2>6, <2>8, LeftAlone, ServerKeeps
<1> QED
  BY <1>4, <1>5 DEF Upgrade

\* A connection that the server closes: what it is told last, and the end.
LEMMA HangUpKeeps ==
    ASSUME WireTypes, NoPageStep, NEW c \in Connection, NEW new \in Seq(Msg), Plain(new),
           conn[c].server \in {"joining", "serving"},
           conn'[c].page = "closed",
           conn'[c].in = IF conn[c].page = "open"
                         THEN conn[c].in \o Append(new, Signal("bridgeClosed")) ELSE conn[c].in
    PROVE  Keeps(c)
<1>1. link' = link /\ visible' = visible
  BY DEF NoPageStep, pageVars, linkVars, replayVars
<1>2. conn[c].in \in Seq(Msg) /\ Signal("bridgeClosed") \in Msg
  BY MessagesTyped DEF WireTypes, Wire, Bridging
<1>3. ASSUME IsTold(c) PROVE IsTold(c)'
  <2>1. CASE conn[c].page = "open"
    <3>1. Len(conn[c].in) \in 0..Len(conn[c].in)
          /\ SubSeq(conn[c].in, 1, Len(conn[c].in)) = conn[c].in
      BY <1>2
    <3>2. conn'[c].in = Append(conn[c].in \o new, Signal("bridgeClosed"))
      BY <1>2, <2>1, AppendLast
    <3> DEFINE h == conn[c].in \o new
    <3>3. /\ h \in Seq(Msg)
          /\ \A i \in 1..Len(h) : ~Closes(h[i]) /\ (Opens(h[i]) => i = 1 /\ link = "connecting")
      BY <1>3, <2>1, <3>1, RestIsPlain
    <3> HIDE DEF h
    <3> QED
      BY <1>1, <1>3, <2>1, <3>2, <3>3, ClosedIsTold DEF h
  <2>2. CASE conn[c].page # "open"
    BY <1>1, <1>3, <2>2 DEF IsTold, WireTypes, Wire
  <2> QED
    BY <2>1, <2>2
<1> QED
  BY <1>3 DEF Keeps, NoConn

\* The player is not let in.
LEMMA JoinRefusedKeeps ==
    ASSUME Connected, NEW c \in Connection, JoinRefused(c)
    PROVE  Connected'
<1>1. WireTypes /\ ServesHeld /\ JoinersWait /\ RoomIsSound /\ NoPageStep /\ UNCHANGED serverVars
  BY DEF Connected, JoinRefused
<1>2. PICK told \in {<<>>, <<Signal("refused")>>} :
         conn' = [SentAndClosed(conn, c, told) EXCEPT ![c].server = "gone"]
  BY DEF JoinRefused
<1>3. told \in Seq(Msg) /\ Plain(told)
  <2>1. Signal("refused") \in Msg /\ Signal("refused").type = "refused"
    BY MessagesTyped
  <2>2. CASE told = <<>>
    BY <2>2 DEF Plain
  <2>3. CASE told = <<Signal("refused")>>
    <3>1. told \in Seq(Msg) /\ Len(told) = 1 /\ told[1] = Signal("refused")
      BY <2>1, <2>3
    <3> QED
      BY <2>1, <3>1 DEF Plain, Bridging
  <2> QED
    BY <2>2, <2>3
<1> DEFINE s == SentAndClosed(conn, c, told)
<1>4. /\ s \in [Connection -> Wire]
      /\ \A d \in Connection : d # c => s[d] = conn[d]
      /\ s[c].page = "closed"
      /\ s[c].in = IF conn[c].page = "open"
                   THEN conn[c].in \o Append(told, Signal("bridgeClosed")) ELSE conn[c].in
  BY <1>1, <1>3, SentAndClosedIs DEF WireTypes
<1>5. conn' = [s EXCEPT ![c] = [s[c] EXCEPT !.server = "gone"]]
  BY <1>2
<1> HIDE DEF s
<1>6. s[c] \in Wire
  BY <1>4
<1>7. /\ conn' \in [Connection -> Wire]
      /\ \A d \in Connection : d # c => conn'[d] = conn[d]
      /\ conn'[c].page = "closed" /\ conn'[c].server = "gone" /\ conn'[c].in = s[c].in
  BY <1>4, <1>5, <1>6 DEF Wire
<1>8. WireTypes' /\ RoomIsSound'
  BY <1>1, <1>7 DEF WireTypes, NoPageStep, serverVars, RoomIsSound
<1>9. ServesHeld' /\ JoinersWait'
  BY <1>1, <1>7 DEF ServesHeld, JoinersWait, serverVars, JoinRefused
<1>10. Keeps(c)
  BY <1>1, <1>3, <1>4, <1>7, HangUpKeeps DEF JoinRefused
<1> QED
  BY <1>1, <1>7, <1>8, <1>9, <1>10, LeftAlone, ServerKeeps

\* The player gets a seat.
LEMMA SeatsKeeps ==
    ASSUME Connected, NEW c \in Connection, conn[c].server = "joining",
           NEW r \in RoomState, NEW type \in Deciding, Seats(c, r, type), room.held = None,
           r.held = c, r.me # "none", r.phase \notin {"none", "suspended"}, r.phase = "waiting" => r.game = NoState.game,
           rooms' \in Nat
    PROVE  Connected'
<1>1. WireTypes /\ ServesHeld /\ JoinersWait /\ NoPageStep
  BY DEF Connected, Seats
<1>2. link' = link /\ visible' = visible
  BY <1>1 DEF NoPageStep, pageVars, linkVars, replayVars
<1> DEFINE new == <<About(r, type)>>
           s   == Sent(conn, c, new)
<1>3. new \in Seq(Msg) /\ Plain(new)
  <2>1. About(r, type) \in Msg /\ About(r, type).type = type
    BY MessagesTyped
  <2>2. new \in Seq(Msg) /\ Len(new) = 1 /\ new[1] = About(r, type)
    BY <2>1
  <2> QED
    BY <2>1, <2>2 DEF Plain, Bridging, Deciding, Carrying
<1>4. conn' = [s EXCEPT ![c] = [s[c] EXCEPT !.server = "serving"]]
  BY DEF Seats
<1>5. c \in 0..MaxConnects /\ c # None
  BY WebClientAssumption DEF Connection, None
<1> HIDE DEF new
<1>6. /\ s \in [Connection -> Wire]
      /\ \A d \in Connection : d # c => s[d] = conn[d]
      /\ s[c].page = conn[c].page
      /\ s[c].in = IF conn[c].page = "open" THEN conn[c].in \o new ELSE conn[c].in
  BY <1>1, <1>3, <1>5, SentIs DEF WireTypes
<1> HIDE DEF s
<1>7. /\ conn' \in [Connection -> Wire]
      /\ \A d \in Connection : d # c => conn'[d] = conn[d]
      /\ conn'[c].page = s[c].page /\ conn'[c].server = "serving" /\ conn'[c].in = s[c].in
  <2>1. s[c] \in Wire
    BY <1>6
  <2> QED
    BY <1>4, <1>6, <2>1 DEF Wire
<1>8. room' = r
  BY DEF Seats
<1>9. WireTypes' /\ RoomIsSound'
  BY <1>1, <1>7, <1>8 DEF WireTypes, NoPageStep, RoomIsSound
<1>10. ServesHeld'
  BY <1>1, <1>5, <1>7, <1>8 DEF ServesHeld, None, Connection
<1>11. JoinersWait'
  BY <1>1, <1>7 DEF JoinersWait
<1>12. Keeps(c)
  <2>1. IsTold(c) => IsTold(c)'
    <3>1. IsTold(c) => conn[c].page # "opening"
      BY DEF IsTold
    <3> QED
      BY <1>1, <1>2, <1>3, <1>6, <1>7, <3>1, SaidIsTold
  <2> QED
    BY <1>6, <1>7, <2>1 DEF Keeps, NoConn
<1> QED
  BY <1>1, <1>7, <1>9, <1>10, <1>11, <1>12, LeftAlone, ServerKeeps

\* The three ways to a seat: the room as it is then.
LEMMA JoinedRooms ==
    ASSUME Connected, NEW c \in Connection
    PROVE  /\ JoinFirst(c) =>
                LET r == [NoRoom EXCEPT !.id = rooms + 1, !.phase = "waiting", !.me = "dark",
                                        !.held = c]
                IN  /\ r \in RoomState /\ r.held = c /\ r.me = "dark" /\ r.phase = "waiting"
                    /\ r.game = NoState.game /\ room.held = None
           /\ JoinSecond(c) =>
                LET r == [room EXCEPT !.phase = "playing", !.game = NewGame, !.me = "light",
                                      !.held = c]
                IN  r \in RoomState /\ r.held = c /\ r.me = "light" /\ r.phase = "playing"
                    /\ room.held = None
           /\ JoinAgain(c) =>
                LET r == [room EXCEPT !.phase = "playing", !.held = c]
                IN  r \in RoomState /\ r.held = c /\ r.me = room.me /\ r.me # "none" /\ r.phase = "playing"
<1>1. room \in RoomState /\ rooms \in Nat /\ RoomIsSound
  BY DEF Connected, WireTypes
<1>2. c \in 0..MaxConnects
  BY WebClientAssumption DEF Connection
<1>3. NoRoom \in RoomState /\ NoRoom.held = None /\ NoRoom.game = NoState.game /\ NewGame \in Turn
  BY MessagesTyped, WebClientAssumption DEF NoRoom, RoomState, None
<1>4. JoinFirst(c) =>
                LET r == [NoRoom EXCEPT !.id = rooms + 1, !.phase = "waiting", !.me = "dark",
                                        !.held = c]
                IN  /\ r \in RoomState /\ r.held = c /\ r.me = "dark" /\ r.phase = "waiting"
                    /\ r.game = NoState.game /\ room.held = None
  <2>1. JoinFirst(c) => room.held = None
    BY <1>3 DEF JoinFirst
  <2>2. rooms + 1 \in Nat
    BY <1>1
  <2>3. LET r == [NoRoom EXCEPT !.id = rooms + 1, !.phase = "waiting", !.me = "dark", !.held = c]
        IN  /\ r \in RoomState /\ r.held = c /\ r.me = "dark" /\ r.phase = "waiting"
            /\ r.game = NoState.game
    BY <1>2, <1>3, <2>2 DEF RoomState, Side
  <2> QED
    BY <2>1, <2>3
<1>5. JoinSecond(c) =>
                LET r == [room EXCEPT !.phase = "playing", !.game = NewGame, !.me = "light",
                                      !.held = c]
                IN  r \in RoomState /\ r.held = c /\ r.me = "light" /\ r.phase = "playing"
                    /\ room.held = None
  BY <1>1, <1>2, <1>3 DEF JoinSecond, RoomState, Side, RoomIsSound
<1>6. JoinAgain(c) =>
                LET r == [room EXCEPT !.phase = "playing", !.held = c]
                IN  r \in RoomState /\ r.held = c /\ r.me = room.me /\ r.me # "none" /\ r.phase = "playing"
  BY <1>1, <1>2 DEF JoinAgain, RoomState, RoomIsSound
<1> QED
  BY <1>4, <1>5, <1>6

\* Joining.
LEMMA JoinKeeps ==
    ASSUME Connected, NEW c \in Connection, JoinFirst(c) \/ JoinSecond(c) \/ JoinAgain(c)
    PROVE  Connected'
<1>1. rooms \in Nat
  BY DEF Connected, WireTypes
<1>2. CASE JoinFirst(c)
  <2> DEFINE r == [NoRoom EXCEPT !.id = rooms + 1, !.phase = "waiting", !.me = "dark", !.held = c]
  <2>1. /\ r \in RoomState /\ r.held = c /\ r.me = "dark" /\ r.phase = "waiting"
        /\ r.game = NoState.game /\ room.held = None
    BY <1>2, JoinedRooms
  <2>2. Seats(c, r, "waiting") /\ rooms' \in Nat /\ conn[c].server = "joining"
    BY <1>1, <1>2 DEF JoinFirst
  <2> HIDE DEF r
  <2> QED
    BY <2>1, <2>2, SeatsKeeps DEF Deciding
<1>3. CASE JoinSecond(c)
  <2> DEFINE r == [room EXCEPT !.phase = "playing", !.game = NewGame, !.me = "light", !.held = c]
  <2>1. r \in RoomState /\ r.held = c /\ r.me = "light" /\ r.phase = "playing" /\ room.held = None
    BY <1>3, JoinedRooms
  <2>2. Seats(c, r, "matched") /\ rooms' \in Nat /\ conn[c].server = "joining"
    BY <1>1, <1>3 DEF JoinSecond
  <2>3. "matched" \in Deciding
    BY DEF Deciding, Carrying
  <2> HIDE DEF r
  <2> QED
    BY <2>1, <2>2, <2>3, SeatsKeeps
<1>4. CASE JoinAgain(c)
  <2> DEFINE r == [room EXCEPT !.phase = "playing", !.held = c]
  <2>1. r \in RoomState /\ r.held = c /\ r.me # "none" /\ r.phase = "playing"
    BY <1>4, JoinedRooms
  <2>2. Seats(c, r, "state") /\ rooms' \in Nat /\ conn[c].server = "joining" /\ room.held = None
    BY <1>1, <1>4 DEF JoinAgain
  <2>3. "state" \in Deciding
    BY DEF Deciding, Carrying
  <2> HIDE DEF r
  <2> QED
    BY <2>1, <2>2, <2>3, SeatsKeeps
<1> QED
  BY <1>2, <1>3, <1>4

\* One message.
LEMMA OneMessage ==
    ASSUME NEW m \in Msg
    PROVE  /\ <<m>> \in Seq(Msg) /\ Len(<<m>>) = 1 /\ <<m>>[1] = m
           /\ m.type \notin Bridging => Plain(<<m>>)
           /\ m.type \in Carrying => EndsIn(<<m>>, m.state)
           /\ m.type \notin Deciding => NoneDecides(<<m>>)
<1>1. <<m>> \in Seq(Msg) /\ Len(<<m>>) = 1 /\ <<m>>[1] = m
  OBVIOUS
<1>2. m.type \notin Bridging => Plain(<<m>>)
  BY <1>1 DEF Plain
<1>3. m.type \in Carrying => EndsIn(<<m>>, m.state)
  BY <1>1 DEF EndsIn
<1>4. m.type \notin Deciding => NoneDecides(<<m>>)
  BY <1>1 DEF NoneDecides
<1> QED
  BY <1>1, <1>2, <1>3, <1>4

\* A message about a room.
LEMMA OneAbout ==
    ASSUME NEW r \in RoomState, NEW type \in Deciding
    PROVE  LET new == <<About(r, type)>>
           IN  /\ new \in Seq(Msg) /\ Plain(new) /\ Len(new) = 1 /\ new[1] = About(r, type)
               /\ type \in Carrying => EndsIn(new, State(r.id, r.game))
<1>1. /\ About(r, type) \in Msg /\ About(r, type).type = type
      /\ About(r, type).state = State(r.id, r.game)
  BY MessagesTyped
<1>2. type \notin Bridging
  BY DEF Deciding, Carrying, Bridging
<1> QED
  BY <1>1, <1>2, OneMessage

\* A refusal.
LEMMA OneRefusal ==
    LET new == <<Signal("refused")>>
    IN  new \in Seq(Msg) /\ Plain(new) /\ NoneDecides(new) /\ Len(new) = 1 /\ new[1].type = "refused"
<1>1. Signal("refused") \in Msg /\ Signal("refused").type = "refused"
  BY MessagesTyped
<1>2. "refused" \notin Bridging /\ "refused" \notin Deciding
  BY DEF Bridging, Deciding, Carrying
<1> QED
  BY <1>1, <1>2, OneMessage

\* The news of an accepted command.
LEMMA NewsIs ==
    ASSUME NEW r \in RoomState
    PROVE  /\ News(r) \in Seq(Msg) /\ Plain(News(r))
           /\ \A i \in 1..Len(News(r)) : News(r)[i].seat = r.me
           /\ r.phase # "closed" => EndsIn(News(r), State(r.id, r.game))
           /\ Len(News(r)) \in Nat \ {0} /\ News(r)[1].type = "state"
<1> DEFINE a == About(r, "state")
           b == About(r, "closed")
<1>1. a \in Msg /\ a.type = "state" /\ a.seat = r.me /\ b \in Msg /\ b.type = "closed" /\ b.seat = r.me
  BY MessagesTyped DEF Deciding, Carrying
<1> HIDE DEF a, b
<1>2. CASE r.phase = "closed"
  <2>1. News(r) = <<a, b>>
    BY <1>2 DEF News, a, b
  <2>2. <<a, b>> \in Seq(Msg) /\ Len(<<a, b>>) = 2 /\ <<a, b>>[1] = a /\ <<a, b>>[2] = b
    BY <1>1
  <2>3. \A i \in 1..2 : i = 1 \/ i = 2
    OBVIOUS
  <2> QED
    BY <1>1, <1>2, <2>1, <2>2, <2>3 DEF Plain, Bridging
<1>3. CASE r.phase # "closed"
  <2>1. News(r) = <<a>>
    BY <1>3 DEF News, a
  <2>2. "state" \in Deciding /\ "state" \in Carrying
    BY DEF Deciding, Carrying
  <2>3. <<a>> \in Seq(Msg) /\ Plain(<<a>>) /\ Len(<<a>>) = 1 /\ <<a>>[1] = a
        /\ EndsIn(<<a>>, State(r.id, r.game))
    BY <2>2, OneAbout DEF a
  <2> QED
    BY <1>1, <2>1, <2>3
<1> QED
  BY <1>2, <1>3

\* The room after an accepted command.
LEMMA AdvancedIs ==
    ASSUME room \in RoomState, RoomIsSound, NEW side, Due(room.game, side)
    PROVE  /\ Advanced \in RoomState /\ Advanced.held = room.held /\ Advanced.me = room.me
           /\ Advanced.id = room.id /\ Advanced.phase \in {room.phase, "closed"}
           /\ room.phase # "waiting"
<1>1. Advance(room.game) \in Turn
  BY DEF RoomState, Turn, Advance, Opponent, Side
<1>2. room.phase # "waiting"
  BY DEF RoomIsSound, Due, NoState, State
<1> QED
  BY <1>1, <1>2 DEF Advanced, RoomState

\* The connection that has the seat, seen without its commands.
LEMMA HeldType ==
    ASSUME Connected
    PROVE  room.held \in 0..MaxConnects /\ room \in RoomState /\ conn \in [Connection -> Wire]
           /\ rooms \in Nat /\ RoomIsSound
BY DEF Connected, WireTypes, RoomState

\* The browser's commands.
LEMMA SubmitKeeps ==
    ASSUME Connected, NEW c \in Connection, Submit(c)
    PROVE  Connected'
<1> DEFINE read == [conn EXCEPT ![c].out = Tail(@)]
<1>1. room \in RoomState /\ conn \in [Connection -> Wire] /\ rooms \in Nat /\ RoomIsSound
  BY HeldType
<1>2. c = room.held /\ c \in 0..MaxConnects /\ NoPageStep /\ rooms' = rooms
  BY WebClientAssumption DEF Connected, ServesHeld, Submit, Connection
<1>3. /\ read \in [Connection -> Wire]
      /\ \A d \in Connection : /\ read[d].page = conn[d].page /\ read[d].server = conn[d].server
                               /\ read[d].in = conn[d].in
                               /\ d # c => read[d] = conn[d]
  <2>1. conn[c] \in Wire /\ conn[c].out # <<>>
    BY <1>1 DEF Submit
  <2>2. Tail(conn[c].out) \in Seq([player : Side \cup {"none"}, turn : Nat])
    BY <2>1 DEF Wire
  <2>3. [conn[c] EXCEPT !.out = Tail(@)] \in Wire
    BY <2>1, <2>2 DEF Wire
  <2>4. read = [conn EXCEPT ![c] = [conn[c] EXCEPT !.out = Tail(@)]]
    OBVIOUS
  <2> HIDE DEF read
  <2> QED
    BY <1>1, <2>1, <2>3, <2>4 DEF Wire
<1>4. \/ /\ Due(room.game, room.me) /\ room' = Advanced /\ conn' = Sent(read, c, News(Advanced))
      \/ conn' = Sent(read, c, <<About(room, "stale_turn")>>) /\ room' = room
      \/ conn' = Sent(read, c, <<Signal("refused")>>) /\ room' = room
  BY DEF Submit
<1> HIDE DEF read
<1>5. CASE Due(room.game, room.me) /\ room' = Advanced /\ conn' = Sent(read, c, News(Advanced))
  <2>1. /\ Advanced \in RoomState /\ Advanced.held = room.held /\ Advanced.me = room.me
        /\ Advanced.phase \in {room.phase, "closed"} /\ room.phase # "waiting"
    BY <1>1, <1>5, AdvancedIs
  <2>2. RoomIsSound'
    BY <1>1, <1>5, <2>1 DEF RoomIsSound
  <2>3. News(Advanced) \in Seq(Msg) /\ Plain(News(Advanced))
    BY <2>1, NewsIs
  <2> QED
    BY <1>1, <1>2, <1>3, <1>5, <2>1, <2>2, <2>3, SendKeeps
<1>6. ASSUME NEW new \in Seq(Msg), Plain(new), conn' = Sent(read, c, new), room' = room
      PROVE  Connected'
  <2>1. RoomIsSound'
    BY <1>1, <1>6 DEF RoomIsSound
  <2> QED
    BY <1>1, <1>2, <1>3, <1>6, <2>1, SendKeeps
<1>7. CASE conn' = Sent(read, c, <<About(room, "stale_turn")>>) /\ room' = room
  <2>1. "stale_turn" \in Deciding
    BY DEF Deciding, Carrying
  <2> QED
    BY <1>1, <1>6, <1>7, <2>1, OneAbout
<1>8. CASE conn' = Sent(read, c, <<Signal("refused")>>) /\ room' = room
  BY <1>6, <1>8, OneRefusal
<1> QED
  BY <1>4, <1>5, <1>7, <1>8

\* The steps of the opponent.
LEMMA OpponentKeeps ==
    ASSUME Connected, OpponentJoins \/ OpponentMoves \/ OpponentLeaves
    PROVE  Connected'
<1>1. /\ room.held \in 0..MaxConnects /\ room \in RoomState /\ conn \in [Connection -> Wire]
      /\ rooms \in Nat /\ RoomIsSound
  BY HeldType
<1>2. NoPageStep
  BY DEF OpponentJoins, OpponentMoves, OpponentLeaves
<1>3. ASSUME NEW new \in Seq(Msg), Plain(new), conn' = Sent(conn, room.held, new),
             room' \in RoomState, room'.held = room.held, RoomIsSound', rooms' \in Nat
      PROVE  Connected'
  BY <1>1, <1>2, <1>3, SendKeeps
<1>4. \A type \in {"matched", "opponentReturned", "opponentLeft"} : type \in Deciding
  BY DEF Deciding, Carrying
<1>5. ASSUME NEW type \in {"matched", "opponentReturned", "opponentLeft"}, NEW r \in RoomState,
             conn' = Sent(conn, room.held, <<About(r, type)>>),
             room' \in RoomState, room'.held = room.held, RoomIsSound', rooms' \in Nat
      PROVE  Connected'
  BY <1>3, <1>4, <1>5, OneAbout
<1>6. CASE OpponentMoves
  <2>1. /\ Advanced \in RoomState /\ Advanced.held = room.held /\ Advanced.me = room.me
        /\ Advanced.phase \in {room.phase, "closed"} /\ room.phase # "waiting"
    BY <1>1, <1>6, AdvancedIs DEF OpponentMoves
  <2>2. RoomIsSound'
    BY <1>1, <1>6, <2>1 DEF RoomIsSound, OpponentMoves
  <2>3. News(Advanced) \in Seq(Msg) /\ Plain(News(Advanced))
    BY <2>1, NewsIs
  <2> QED
    BY <1>1, <1>3, <1>6, <2>1, <2>2, <2>3 DEF OpponentMoves
<1>7. CASE OpponentLeaves
  <2>1. NoRoom \in RoomState /\ NoRoom.held = None /\ NoRoom.phase = "none"
    BY MessagesTyped, WebClientAssumption DEF NoRoom, RoomState, None
  <2>2. CASE room.held = None
    <3>1. room' = NoRoom /\ rooms' = rooms
      BY <1>7, <2>2 DEF OpponentLeaves
    <3>2. RoomIsSound'
      BY <2>1, <3>1 DEF RoomIsSound
    <3> QED
      BY <1>1, <1>5, <1>7, <2>1, <2>2, <3>1, <3>2 DEF OpponentLeaves
  <2>3. CASE room.held # None
    <3>1. /\ room' = [room EXCEPT !.opponent = "gone",
                                  !.phase = IF @ = "playing" THEN "suspended" ELSE @]
          /\ rooms' = rooms
      BY <1>7, <2>3 DEF OpponentLeaves
    <3>2. /\ room' \in RoomState /\ room'.held = room.held /\ room'.me = room.me
          /\ room'.game = room.game
          /\ room'.phase = IF room.phase = "playing" THEN "suspended" ELSE room.phase
      BY <1>1, <3>1 DEF RoomState
    <3>3. RoomIsSound'
      BY <1>1, <2>3, <3>2 DEF RoomIsSound
    <3> QED
      BY <1>1, <1>5, <1>7, <3>1, <3>2, <3>3 DEF OpponentLeaves
  <2> QED
    BY <2>2, <2>3
<1>8. CASE OpponentJoins
  <2>1. CASE /\ room = NoRoom
             /\ rooms' = rooms + 1
             /\ room' = [NoRoom EXCEPT !.id = rooms + 1, !.phase = "waiting", !.opponent = "here"]
             /\ UNCHANGED conn
    <3>1. NoRoom \in RoomState /\ NoRoom.game = NoState.game /\ NoRoom.held = None
      BY MessagesTyped, WebClientAssumption DEF NoRoom, RoomState, None
    <3>2. /\ room' \in RoomState /\ room'.held = None /\ room'.game = NoState.game
          /\ room'.phase = "waiting"
      <4>1. rooms + 1 \in Nat
        BY <1>1
      <4>2. LET r == [NoRoom EXCEPT !.id = rooms + 1, !.phase = "waiting", !.opponent = "here"]
            IN  r \in RoomState /\ r.held = None /\ r.game = NoState.game /\ r.phase = "waiting"
        BY <3>1, <4>1 DEF RoomState
      <4> QED
        BY <2>1, <4>2
    <3>3. room.held = None
      BY <2>1, <3>1
    <3>4. RoomIsSound'
      BY <3>2 DEF RoomIsSound
    <3>5. conn' = Sent(conn, room.held, <<>>) /\ <<>> \in Seq(Msg) /\ Plain(<<>>)
      BY <2>1, <3>3 DEF Sent, Plain
    <3>6. rooms' \in Nat /\ room'.held = room.held
      BY <1>1, <2>1, <3>2, <3>3
    <3>7. conn' = Sent(conn, room.held, <<>>)
      BY <3>5
    <3> QED
      BY <1>3, <3>2, <3>4, <3>5, <3>6, <3>7
  <2>2. CASE /\ room.phase = "waiting"
             /\ room' = [room EXCEPT !.phase = "playing", !.game = NewGame, !.opponent = "here"]
             /\ conn' = Sent(conn, room.held, <<About(room', "matched")>>)
             /\ UNCHANGED rooms
    <3>1. room' \in RoomState /\ room'.held = room.held /\ room'.me = room.me /\ room'.phase = "playing"
      BY <1>1, <2>2, MessagesTyped DEF RoomState
    <3>2. RoomIsSound'
      BY <1>1, <2>2, <3>1 DEF RoomIsSound
    <3>3. PICK r \in RoomState : r = room'
      BY <3>1
    <3>4. conn' = Sent(conn, room.held, <<About(r, "matched")>>)
      BY <2>2, <3>3
    <3> QED
      BY <1>1, <1>5, <2>2, <3>1, <3>2, <3>4
  <2>3. CASE /\ room.phase = "suspended"
             /\ room' = [room EXCEPT !.phase = "playing", !.opponent = "here"]
             /\ conn' = Sent(conn, room.held, <<About(room', "opponentReturned")>>)
             /\ UNCHANGED rooms
    <3>1. room' \in RoomState /\ room'.held = room.held /\ room'.me = room.me /\ room'.phase = "playing"
      BY <1>1, <2>3 DEF RoomState
    <3>2. RoomIsSound'
      BY <1>1, <2>3, <3>1 DEF RoomIsSound
    <3>3. PICK r \in RoomState : r = room'
      BY <3>1
    <3>4. conn' = Sent(conn, room.held, <<About(r, "opponentReturned")>>)
      BY <2>3, <3>3
    <3> QED
      BY <1>1, <1>5, <2>3, <3>1, <3>2, <3>4
  <2> QED
    BY <1>8, <2>1, <2>2, <2>3 DEF OpponentJoins
<1> QED
  BY <1>6, <1>7, <1>8

\* The connection ends.
LEMMA ConnectionEndsKeeps ==
    ASSUME Connected, NEW c \in Connection, ConnectionEnds(c)
    PROVE  Connected'
<1>1. WireTypes /\ ServesHeld /\ JoinersWait /\ RoomIsSound /\ NoPageStep /\ UNCHANGED serverVars
  BY DEF Connected, ConnectionEnds
<1>2. link' = link /\ visible' = visible
  BY <1>1 DEF NoPageStep, pageVars, linkVars, replayVars
<1>3. PICK n \in 0..Len(conn[c].in) :
         conn' = [conn EXCEPT ![c].page = "closed",
                              ![c].in = Append(SubSeq(@, 1, n), Signal("bridgeClosed"))]
  BY DEF ConnectionEnds
<1>4. conn[c] \in Wire /\ conn[c].page = "open" /\ conn[c].in \in Seq(Msg)
  BY <1>1 DEF WireTypes, ConnectionEnds, Wire
<1>5. SubSeq(conn[c].in, 1, n) \in Seq(Msg)
  BY <1>4
<1> DEFINE h == SubSeq(conn[c].in, 1, n)
           q == Append(h, Signal("bridgeClosed"))
           w == [conn[c] EXCEPT !.page = "closed", !.in = q]
<1>6. Signal("bridgeClosed") \in Msg
  BY MessagesTyped DEF Bridging
<1>7. q \in Seq(Msg)
  BY <1>5, <1>6
<1>8. conn' = [conn EXCEPT ![c] = w]
  BY <1>1, <1>3 DEF WireTypes
<1> HIDE DEF q
<1>9. w \in Wire /\ w.page = "closed" /\ w.in = q /\ w.server = conn[c].server
  BY <1>4, <1>7 DEF Wire
<1> HIDE DEF w
<1>10. /\ conn' \in [Connection -> Wire] /\ conn'[c] = w
       /\ \A d \in Connection : d # c => conn'[d] = conn[d]
  BY <1>1, <1>8, <1>9 DEF WireTypes
<1>11. WireTypes' /\ RoomIsSound'
  BY <1>1, <1>10 DEF WireTypes, NoPageStep, serverVars, RoomIsSound
<1>12. ServesHeld' /\ JoinersWait'
  BY <1>1, <1>9, <1>10 DEF ServesHeld, JoinersWait, serverVars
<1>13. IsTold(c) => IsTold(c)'
  <2>1. SUFFICES ASSUME IsTold(c) PROVE IsTold(c)'
    OBVIOUS
  <2>2. <<>> \in Seq(Msg) /\ Plain(<<>>) /\ h \o <<>> = h
    BY <1>5, ConcatEmptySeq DEF Plain
  <2>3. \A i \in 1..Len(h) : ~Closes(h[i]) /\ (Opens(h[i]) => i = 1 /\ link = "connecting")
    BY <1>1, <1>4, <2>1, <2>2, RestIsPlain
  <2> HIDE DEF h
  <2> QED
    BY <1>1, <1>2, <1>4, <1>5, <1>9, <1>10, <2>1, <2>3, ClosedIsTold DEF q, h
<1>14. Keeps(c)
  BY <1>4, <1>13 DEF Keeps, NoConn
<1> QED
  BY <1>1, <1>10, <1>11, <1>12, <1>14, LeftAlone, ServerKeeps

\* A connection whose handler has ended.
LEMMA GoneIs ==
    ASSUME NEW v \in Wire
    PROVE  LET w == [v EXCEPT !.server = "gone", !.out = <<>>]
           IN  w \in Wire /\ w.page = v.page /\ w.in = v.in /\ w.server = "gone"
<1> DEFINE S == [player : Side \cup {"none"}, turn : Nat]
<1>1. PICK none \in Seq(S) : none = <<>>
  <2> HIDE DEF S
  <2> QED
    BY EmptySeq
<1> DEFINE w == [v EXCEPT !.server = "gone", !.out = none]
<1>2. w \in Wire /\ w.page = v.page /\ w.in = v.in /\ w.server = "gone"
  BY DEF Wire
<1> QED
  BY <1>1, <1>2

\* The handler leaves.
LEMMA LeaveKeeps ==
    ASSUME Connected, NEW c \in Connection, Leave(c)
    PROVE  Connected'
<1>1. WireTypes /\ ServesHeld /\ JoinersWait /\ RoomIsSound /\ NoPageStep
  BY DEF Connected, Leave
<1>2. link' = link /\ visible' = visible
  BY <1>1 DEF NoPageStep, pageVars, linkVars, replayVars
<1> DEFINE w == [conn[c] EXCEPT !.server = "gone", !.out = <<>>]
<1>3. conn[c] \in Wire /\ conn[c].page = "closed" /\ conn[c].server = "serving" /\ room.held = c
  BY <1>1 DEF WireTypes, Leave, ServesHeld
<1>4. w \in Wire /\ w.page = "closed" /\ w.in = conn[c].in /\ w.server = "gone"
  BY <1>3, GoneIs
<1>5. conn' = [conn EXCEPT ![c] = w]
  BY <1>1 DEF Leave, WireTypes
<1> HIDE DEF w
<1>6. /\ conn' \in [Connection -> Wire] /\ conn'[c] = w
      /\ \A d \in Connection : d # c => conn'[d] = conn[d]
  BY <1>1, <1>4, <1>5 DEF WireTypes
<1>7. room' \in RoomState /\ room'.held = None /\ RoomIsSound'
  <2>1. room \in RoomState /\ None \in 0..MaxConnects
    BY <1>1, WebClientAssumption DEF WireTypes, None
  <2>2. CASE room.opponent # "here"
    <3>1. room' = NoRoom
      BY <2>2 DEF Leave
    <3>2. NoRoom \in RoomState /\ NoRoom.held = None /\ NoRoom.phase = "none"
      BY <2>1, MessagesTyped DEF NoRoom, RoomState
    <3> QED
      BY <3>1, <3>2 DEF RoomIsSound
  <2>3. CASE room.opponent = "here"
    <3>1. room' = [room EXCEPT !.held = None, !.phase = IF @ = "playing" THEN "suspended" ELSE @]
      BY <2>3 DEF Leave
    <3>2. /\ room' \in RoomState /\ room'.held = None /\ room'.me = room.me /\ room'.game = room.game
          /\ room'.phase = IF room.phase = "playing" THEN "suspended" ELSE room.phase
      BY <2>1, <3>1 DEF RoomState
    <3>3. c # None
      BY WebClientAssumption DEF Connection, None
    <3> QED
      BY <1>1, <1>3, <3>2, <3>3 DEF RoomIsSound
  <2> QED
    BY <2>2, <2>3
<1>8. WireTypes'
  BY <1>1, <1>6, <1>7 DEF WireTypes, NoPageStep, Leave
<1>9. ServesHeld' /\ JoinersWait'
  BY <1>1, <1>3, <1>4, <1>6, <1>7, WebClientAssumption DEF ServesHeld, JoinersWait, None, Connection
<1>10. IsTold(c) => IsTold(c)'
  BY <1>2, <1>3, <1>4, <1>6 DEF IsTold
<1>11. Keeps(c)
  BY <1>3, <1>4, <1>6, <1>10 DEF Keeps, NoConn
<1> QED
  BY <1>1, <1>6, <1>7, <1>8, <1>9, <1>11, LeftAlone, ServerKeeps

\* The server is started anew.
LEMMA RestartKeeps ==
    ASSUME Connected, Restart
    PROVE  Connected'
<1>1. WireTypes /\ ServesHeld /\ JoinersWait /\ RoomIsSound /\ NoPageStep
  BY DEF Connected, Restart
<1> DEFINE told(c) == IF c = room.held /\ room.phase # "closed"
                      THEN <<About(room, "closed")>> ELSE <<>>
           w(c) == [SentAndClosed(conn, c, told(c))[c] EXCEPT !.server = "gone", !.out = <<>>]
<1>2. \A c \in Connection : told(c) \in Seq(Msg) /\ Plain(told(c))
  <2>1. room \in RoomState
    BY <1>1 DEF WireTypes
  <2>2. <<>> \in Seq(Msg) /\ Plain(<<>>)
    BY DEF Plain
  <2>3. <<About(room, "closed")>> \in Seq(Msg) /\ Plain(<<About(room, "closed")>>)
    BY <2>1, OneAbout DEF Deciding
  <2> QED
    BY <2>2, <2>3
<1>3. conn' = [c \in Connection |->
                  IF conn[c].server \in {"joining", "serving"} THEN w(c) ELSE conn[c]]
  BY DEF Restart
<1> HIDE DEF told
<1>4. ASSUME NEW c \in Connection
      PROVE  /\ w(c) \in Wire /\ w(c).page = "closed" /\ w(c).server = "gone"
             /\ w(c).in = IF conn[c].page = "open"
                          THEN conn[c].in \o Append(told(c), Signal("bridgeClosed"))
                          ELSE conn[c].in
  <2> DEFINE s == SentAndClosed(conn, c, told(c))
  <2>1. /\ s \in [Connection -> Wire] /\ s[c].page = "closed"
        /\ s[c].in = IF conn[c].page = "open"
                     THEN conn[c].in \o Append(told(c), Signal("bridgeClosed"))
                     ELSE conn[c].in
    BY <1>1, <1>2, SentAndClosedIs DEF WireTypes
  <2>2. w(c) = [s[c] EXCEPT !.server = "gone", !.out = <<>>]
    OBVIOUS
  <2> HIDE DEF s, w
  <2>3. s[c] \in Wire
    BY <2>1
  <2> QED
    BY <2>1, <2>2, <2>3, GoneIs
<1> HIDE DEF w
<1>5. \A c \in Connection :
         conn'[c] = IF conn[c].server \in {"joining", "serving"} THEN w(c) ELSE conn[c]
  BY <1>3
<1>6. conn' \in [Connection -> Wire]
  BY <1>1, <1>3, <1>4 DEF WireTypes
<1>7. room' = NoRoom /\ NoRoom \in RoomState /\ NoRoom.held = None /\ NoRoom.phase = "none"
  <2>1. NoRoom \in RoomState /\ NoRoom.held = None /\ NoRoom.phase = "none"
    BY MessagesTyped, WebClientAssumption DEF NoRoom, RoomState, None
  <2> QED
    BY <2>1 DEF Restart
<1>8. WireTypes' /\ RoomIsSound'
  BY <1>1, <1>6, <1>7 DEF WireTypes, RoomIsSound, NoPageStep, Restart
<1>9. ServesHeld'
  <2>1. \A c \in Connection : conn'[c].server # "serving"
    BY <1>4, <1>5
  <2>2. \A c \in Connection : c # None
    BY WebClientAssumption DEF Connection, None
  <2> QED
    BY <1>7, <2>1, <2>2 DEF ServesHeld
<1>10. JoinersWait'
  <2>1. \A c \in Connection : conn'[c].page = "open" => conn'[c] = conn[c]
    BY <1>4, <1>5
  <2> QED
    BY <1>1, <2>1 DEF JoinersWait
<1>11. ASSUME NEW c \in Connection PROVE Keeps(c)
  <2>1. CASE conn[c].server \in {"joining", "serving"}
    <3>1. /\ conn'[c].page = "closed"
          /\ conn'[c].in = IF conn[c].page = "open"
                           THEN conn[c].in \o Append(told(c), Signal("bridgeClosed"))
                           ELSE conn[c].in
      BY <1>4, <1>5, <2>1
    <3>2. told(c) \in Seq(Msg) /\ Plain(told(c))
      BY <1>2
    <3> QED
      BY <1>1, <2>1, <3>1, <3>2, HangUpKeeps
  <2>2. CASE conn[c].server \notin {"joining", "serving"}
    BY <1>1, <1>5, <2>2, LeftAlone
  <2> QED
    BY <2>1, <2>2
<1> QED
  BY <1>1, <1>8, <1>9, <1>10, <1>11, ServerKeeps

-----------------------------------------------------------------------------
\* Steps of the page.

\* Steps that leave the connections alone.
LEMMA PageKeeps ==
    ASSUME Connected, UNCHANGED <<bridgeVars, serverVars, mode, link>>, PageTypes', ReplayWasAsked',
           "reconnect" \in visible => "reconnect" \in visible',
           mode = "local" => visible' = {}
    PROVE  Connected'
<1>1. UNCHANGED <<current, opened, conn, room, rooms, mode, link>>
  BY DEF bridgeVars, serverVars
<1>2. WireTypes' /\ OneLink' /\ OthersAreSilent' /\ ServesHeld' /\ JoinersWait' /\ RoomIsSound'
  BY <1>1 DEF Connected, WireTypes, OneLink, OthersAreSilent, ServesHeld, JoinersWait, RoomIsSound
<1>3. LinkIsTold'
  BY <1>1 DEF Connected, LinkIsTold, IsTold
<1> QED
  BY <1>2, <1>3 DEF Connected

\* The answer to a request of the local game, and the requests.
LEMMA LocalKeeps ==
    ASSUME Connected, NewLocalGame \/ MoveLocally \/ RulesAnswer
    PROVE  Connected'
<1>1. UNCHANGED <<bridgeVars, serverVars, mode, link, replay, visible, fetching, final>>
  BY DEF NewLocalGame, MoveLocally, RulesAnswer, replayVars, gameVars
<1>2. PageTypes /\ ReplayWasAsked /\ OneLink
  BY DEF Connected
<1>3. \/ UNCHANGED <<shown, seat>>
      \/ \E t \in 0..LastTurn : shown' = State(Local, Position(t)) /\ seat' = Position(t).player
  BY DEF NewLocalGame, MoveLocally, RulesAnswer, gameVars
<1>4. shown' \in Screen /\ seat' \in Side \cup {"none"}
  <2>1. CASE UNCHANGED <<shown, seat>>
    BY <1>2, <2>1 DEF PageTypes
  <2>2. ASSUME NEW t \in 0..LastTurn, shown' = State(Local, Position(t)), seat' = Position(t).player
        PROVE  shown' \in Screen /\ seat' \in Side \cup {"none"}
    <3>1. State(Local, Position(t)) \in Screen /\ Position(t) \in Turn
      BY MessagesTyped DEF Local
    <3> QED
      BY <2>2, <3>1 DEF Turn
  <2> QED
    BY <1>3, <2>1, <2>2
<1>5. PageTypes'
  BY <1>1, <1>2, <1>4 DEF PageTypes
<1>6. ReplayWasAsked'
  BY <1>1, <1>2 DEF ReplayWasAsked
<1> QED
  BY <1>1, <1>2, <1>5, <1>6, PageKeeps DEF OneLink

\* Asking for a replay and going through it.
LEMMA ReplayKeeps ==
    ASSUME Connected,
           OpenReplay \/ StepReplay \/ ExitReplay \/ \E i \in 1..MaxReplays : ReplayAnswer(i)
    PROVE  Connected'
<1>1. PageTypes /\ ReplayWasAsked /\ OneLink
  BY DEF Connected
<1>2. UNCHANGED <<bridgeVars, serverVars, mode, link, seat>>
  BY DEF OpenReplay, StepReplay, ExitReplay, ReplayAnswer, pageVars, gameVars, linkVars
<1>3. ASSUME NEW id \in Nat, NEW t \in 0..LastTurn, ShowFrame(id, t)
      PROVE  shown' \in Screen /\ replay' \in [on : BOOLEAN, of : Nat, at : 0..LastTurn]
  BY <1>3, MessagesTyped DEF ShowFrame
<1>4. CASE OpenReplay
  <2>1. UNCHANGED <<shown, final, replay, visible>>
    BY <1>4 DEF OpenReplay, pageVars, gameVars, replayVars
  <2>2. /\ fetching.open \in Seq(Nat) /\ fetching.sent \in Nat /\ shown.id \in Nat
        /\ fetching' = [open |-> Append(fetching.open, shown.id), sent |-> fetching.sent + 1]
    BY <1>1, <1>4 DEF OpenReplay, PageTypes, Screen
  <2>3. Append(fetching.open, shown.id) \in Seq(Nat) /\ fetching.sent + 1 \in Nat
        /\ fetching.sent + 1 > 0
    BY <2>2
  <2>4. fetching' \in [open : Seq(Nat), sent : Nat] /\ fetching'.sent > 0
    BY <2>2, <2>3
  <2>5. PageTypes'
    BY <1>1, <1>2, <2>1, <2>4 DEF PageTypes
  <2>6. ReplayWasAsked'
    BY <2>4 DEF ReplayWasAsked
  <2> QED
    BY <1>1, <1>2, <2>1, <2>5, <2>6, PageKeeps DEF OneLink
<1>5. CASE StepReplay
  <2>1. UNCHANGED <<final, visible, fetching>>
    BY <1>5 DEF StepReplay, httpVars
  <2>2. replay.of \in Nat /\ replay.at \in 0..LastTurn /\ LastTurn \in Nat
    BY <1>1, LastTurnAssumption DEF PageTypes
  <2>3. PICK t \in 0..LastTurn : ShowFrame(replay.of, t)
    <3>1. (IF replay.at > 0 THEN replay.at - 1 ELSE 0) \in 0..LastTurn
      BY <2>2
    <3>2. (IF replay.at < LastTurn THEN replay.at + 1 ELSE LastTurn) \in 0..LastTurn
      BY <2>2
    <3> QED
      BY <1>5, <3>1, <3>2 DEF StepReplay
  <2>4. PageTypes'
    BY <1>1, <1>2, <1>3, <2>1, <2>2, <2>3 DEF PageTypes
  <2>5. ReplayWasAsked'
    BY <1>1, <2>1 DEF ReplayWasAsked
  <2> QED
    BY <1>1, <1>2, <2>1, <2>4, <2>5, PageKeeps DEF OneLink
<1>6. CASE ExitReplay
  <2>1. /\ UNCHANGED <<final, fetching>> /\ shown' = final /\ visible' = visible \ {"panel"}
        /\ replay' = [replay EXCEPT !.on = FALSE]
    BY <1>6 DEF ExitReplay, httpVars
  <2>2. replay' \in [on : BOOLEAN, of : Nat, at : 0..LastTurn]
    BY <1>1, <2>1 DEF PageTypes
  <2>3. PageTypes'
    BY <1>1, <1>2, <2>1, <2>2 DEF PageTypes
  <2>4. ReplayWasAsked'
    BY <1>1, <2>1 DEF ReplayWasAsked
  <2> QED
    BY <1>1, <1>2, <2>1, <2>3, <2>4, PageKeeps DEF OneLink
<1>7. ASSUME NEW i \in 1..MaxReplays, ReplayAnswer(i) PROVE Connected'
  <2> DEFINE q == fetching.open
  <2>1. q \in Seq(Nat) /\ fetching.sent \in Nat /\ i \in 1..Len(q) /\ q # <<>>
        /\ fetching \in [open : Seq(Nat), sent : Nat]
    BY <1>1, <1>7 DEF PageTypes, ReplayAnswer
  <2>2. q[i] \in Nat /\ SubSeq(q, 1, i - 1) \o SubSeq(q, i + 1, Len(q)) \in Seq(Nat)
    BY <2>1
  <2>3. fetching' = [fetching EXCEPT !.open = SubSeq(q, 1, i - 1) \o SubSeq(q, i + 1, Len(q))]
    BY <1>7 DEF ReplayAnswer
  <2>4. fetching' \in [open : Seq(Nat), sent : Nat] /\ fetching'.sent = fetching.sent
    BY <2>1, <2>2, <2>3
  <2>5. ReplayWasAsked'
    BY <1>1, <2>1, <2>4 DEF ReplayWasAsked
  <2>6. CASE UNCHANGED pageVars
    <3>1. UNCHANGED <<shown, final, replay, visible>>
      BY <2>6 DEF pageVars, gameVars, replayVars
    <3>2. PageTypes'
      BY <1>1, <1>2, <2>4, <3>1 DEF PageTypes
    <3> QED
      BY <1>1, <1>2, <2>5, <3>1, <3>2, PageKeeps DEF OneLink
  <2>7. CASE /\ mode = "online" /\ final' = shown /\ visible' = visible \cup {"panel"}
             /\ ShowFrame(q[i], 0)
    <3>1. 0 \in 0..LastTurn
      BY LastTurnAssumption
    <3>2. shown' \in Screen /\ replay' \in [on : BOOLEAN, of : Nat, at : 0..LastTurn]
      BY <1>3, <2>2, <2>7, <3>1
    <3>3. PageTypes'
      BY <1>1, <1>2, <2>4, <2>7, <3>2 DEF PageTypes
    <3> QED
      BY <1>1, <1>2, <2>5, <2>7, <3>3, PageKeeps DEF OneLink
  <2> QED
    BY <1>7, <2>6, <2>7 DEF ReplayAnswer
<1> QED
  BY <1>4, <1>5, <1>6, <1>7

\* A command of the page.
LEMMA MoveOnlineKeeps ==
    ASSUME Connected, MoveOnline
    PROVE  /\ Connected'
           /\ UNCHANGED <<gameVars, mode, current, opened, replay, visible, fetching, room>>
           /\ \A c \in Connection : conn'[c].in = conn[c].in /\ conn'[c].page = conn[c].page
<1>1. /\ UNCHANGED <<gameVars, mode, link, replay, visible, fetching, current, opened, room, rooms>>
      /\ mode = "online"
  BY DEF MoveOnline, replayVars, httpVars, serverVars
<1>2. PageTypes /\ WireTypes /\ current \in Connection
  BY <1>1 DEF Connected, OneLink, WireTypes, Connection, None
<1>3. \/ conn' = conn
      \/ conn' = [conn EXCEPT ![current].out = Append(@, [player |-> seat, turn |-> shown.game.turn])]
  BY DEF MoveOnline
<1> DEFINE x == Append(conn[current].out, [player |-> seat, turn |-> shown.game.turn])
           w == [conn[current] EXCEPT !.out = x]
<1>4. x \in Seq([player : Side \cup {"none"}, turn : Nat])
  <2>1. [player |-> seat, turn |-> shown.game.turn] \in [player : Side \cup {"none"}, turn : Nat]
    BY <1>2 DEF PageTypes, Screen, Turn
  <2>2. conn[current].out \in Seq([player : Side \cup {"none"}, turn : Nat])
    BY <1>2 DEF WireTypes, Wire
  <2> QED
    BY <2>1, <2>2, AppendProperties
<1> HIDE DEF x
<1>5. w \in Wire /\ w.page = conn[current].page /\ w.server = conn[current].server
      /\ w.in = conn[current].in
  BY <1>2, <1>4 DEF WireTypes, Wire
<1>6. conn' = conn \/ conn' = [conn EXCEPT ![current] = w]
  BY <1>3 DEF x
<1> HIDE DEF w
<1>7. /\ conn' \in [Connection -> Wire]
      /\ \A c \in Connection : /\ conn'[c].in = conn[c].in /\ conn'[c].page = conn[c].page
                               /\ conn'[c].server = conn[c].server
                               /\ c # current => conn'[c] = conn[c]
  BY <1>2, <1>5, <1>6 DEF WireTypes
<1>8. PageTypes' /\ WireTypes' /\ OneLink' /\ RoomIsSound' /\ ReplayWasAsked'
  BY <1>1, <1>7 DEF Connected, PageTypes, WireTypes, OneLink, RoomIsSound, ReplayWasAsked, gameVars
<1>9. OthersAreSilent' /\ ServesHeld' /\ JoinersWait'
  BY <1>1, <1>7 DEF Connected, OthersAreSilent, ServesHeld, JoinersWait
<1>10. LinkIsTold'
  BY <1>1, <1>2, <1>7 DEF Connected, LinkIsTold, IsTold
<1> QED
  BY <1>1, <1>7, <1>8, <1>9, <1>10 DEF Connected

\* Giving up the present connection.
LEMMA HungIs ==
    ASSUME Connected
    PROVE  /\ Hung(current) \in [Connection -> Wire]
           /\ \A c \in Connection : Hung(current)[c].server = conn[c].server
           /\ \A c \in Connection : IF c <= opened
                 THEN Hung(current)[c].page = "closed" /\ Hung(current)[c].in = <<>>
                 ELSE Hung(current)[c] = NoConn
<1>1. WireTypes /\ OthersAreSilent /\ OneLink
  BY DEF Connected
<1>2. CASE current = None
  <2>1. Hung(current) = conn /\ \A c \in Connection : c # current
    BY <1>2, WebClientAssumption DEF Hung, Connection, None
  <2> QED
    BY <1>1, <2>1 DEF WireTypes, OthersAreSilent
<1>3. CASE current # None
  <2>1. current \in Connection /\ current = opened /\ opened \in Nat
    BY <1>1, <1>3 DEF OneLink, WireTypes, Connection, None
  <2>2. PICK q \in Seq(Msg) : q = <<>>
    BY EmptySeq
  <2> DEFINE w == [conn[current] EXCEPT !.page = "closed", !.in = q]
  <2>3. w \in Wire /\ w.page = "closed" /\ w.in = <<>> /\ w.server = conn[current].server
    BY <1>1, <2>1, <2>2 DEF WireTypes, Wire
  <2>4. Hung(current) = [conn EXCEPT ![current] = w]
    BY <1>1, <1>3, <2>1, <2>2 DEF Hung, WireTypes
  <2> HIDE DEF w
  <2>5. /\ Hung(current) \in [Connection -> Wire] /\ Hung(current)[current] = w
        /\ \A c \in Connection : c # current => Hung(current)[c] = conn[c]
    BY <1>1, <2>1, <2>3, <2>4 DEF WireTypes
  <2> QED
    BY <1>1, <2>1, <2>3, <2>5 DEF OthersAreSilent
<1> QED
  BY <1>2, <1>3

\* Opening the next connection.
LEMMA ConnectKeeps ==
    ASSUME Connected, Connect, mode' = "online", link' = "connecting",
           UNCHANGED serverVars, PageTypes', ReplayWasAsked'
    PROVE  Connected' /\ ~Seated'
<1>1. WireTypes /\ OthersAreSilent /\ OneLink /\ ServesHeld /\ JoinersWait /\ RoomIsSound
  BY DEF Connected
<1> DEFINE n == opened + 1
           h == Hung(current)
<1>2. /\ h \in [Connection -> Wire]
      /\ \A c \in Connection : h[c].server = conn[c].server
      /\ \A c \in Connection : IF c <= opened THEN h[c].page = "closed" /\ h[c].in = <<>>
                                              ELSE h[c] = NoConn
  BY HungIs
<1>3. /\ opened \in Nat /\ n \in Connection /\ opened' = n /\ current' = n
      /\ conn' = [h EXCEPT ![n].page = "opening"]
  BY <1>1, WebClientAssumption DEF Connect, WireTypes, Connection
<1> HIDE DEF h
<1>4. n \in Nat /\ n > opened /\ n # None /\ n \in 0..MaxConnects
  BY <1>3 DEF None, Connection
<1> DEFINE w == [NoConn EXCEPT !.page = "opening"]
<1>5. NoConn \in Wire
  BY DEF NoConn, Wire
<1>6. w \in Wire /\ w.page = "opening" /\ w.server = "none" /\ w.in = <<>>
  BY <1>5 DEF NoConn, Wire
<1>7. conn' = [h EXCEPT ![n] = w]
  <2>1. ~(n <= opened)
    BY <1>3, <1>4
  <2>2. h[n] = NoConn
    BY <1>2, <1>3, <2>1
  <2>3. conn' = [h EXCEPT ![n] = [h[n] EXCEPT !.page = "opening"]]
    BY <1>3
  <2> QED
    BY <2>2, <2>3
<1> HIDE DEF w
<1>8. /\ conn' \in [Connection -> Wire] /\ conn'[n] = w
      /\ \A c \in Connection : c # n => conn'[c] = h[c]
  BY <1>2, <1>3, <1>6, <1>7
<1>9. WireTypes' /\ RoomIsSound' /\ room' = room
  BY <1>1, <1>3, <1>4, <1>8 DEF WireTypes, RoomIsSound, serverVars
<1>10. OneLink'
  BY <1>3, <1>4 DEF OneLink
<1>11. OthersAreSilent'
  <2>1. SUFFICES ASSUME NEW c \in Connection, c # n
                 PROVE  IF c <= n THEN conn'[c].page = "closed" /\ conn'[c].in = <<>>
                                  ELSE conn'[c] = NoConn
    BY <1>3 DEF OthersAreSilent
  <2>2. c \in Nat /\ (c <= n <=> c <= opened)
    BY <1>3, <1>4, <2>1 DEF Connection
  <2> QED
    BY <1>2, <1>8, <2>1, <2>2
<1>12. ServesHeld'
  <2>1. conn[n].server = "none"
    <3>1. n # current
      BY <1>1, <1>3, <1>4 DEF OneLink, None
    <3> QED
      BY <1>1, <1>3, <1>4, <3>1 DEF OthersAreSilent, NoConn
  <2> QED
    BY <1>1, <1>2, <1>6, <1>8, <1>9, <2>1 DEF ServesHeld
<1>13. JoinersWait'
  <2>1. ASSUME NEW c \in Connection PROVE conn'[c].page # "open"
    <3>1. CASE c = n
      BY <1>6, <1>8, <3>1
    <3>2. CASE c # n
      BY <1>2, <1>8, <3>2 DEF NoConn
    <3> QED
      BY <3>1, <3>2
  <2> QED
    BY <2>1 DEF JoinersWait
<1>14. LinkIsTold'
  <2>1. conn'[n].page = "opening" /\ conn'[n].in = <<>> /\ conn'[n].server = "none"
    BY <1>6, <1>8
  <2> QED
    BY <1>3, <2>1 DEF LinkIsTold, IsTold
<1>15. ~Seated'
  BY <1>3, <1>6, <1>8 DEF Seated
<1> QED
  BY <1>9, <1>10, <1>11, <1>12, <1>13, <1>14, <1>15 DEF Connected

\* Going online, coming back to the local game, reconnecting.
LEMMA SwitchKeeps ==
    ASSUME Connected, PlayOnline \/ PlayLocal \/ Reconnect
    PROVE  Connected' /\ ~Seated'
<1>1. PageTypes /\ WireTypes /\ OneLink /\ ReplayWasAsked
  BY DEF Connected
<1>2. UNCHANGED <<shown, seat, final, fetching, serverVars>>
  BY DEF PlayOnline, PlayLocal, Reconnect, httpVars, gameVars
<1>3. replay' \in [on : BOOLEAN, of : Nat, at : 0..LastTurn]
  BY <1>1 DEF PageTypes, PlayOnline, PlayLocal, Reconnect
<1>4. ReplayWasAsked'
  BY <1>1, <1>2 DEF ReplayWasAsked, PlayOnline, PlayLocal, Reconnect
<1>5. CASE PlayOnline \/ Reconnect
  <2>1. Connect /\ mode' = "online" /\ link' = "connecting"
    BY <1>1, <1>5 DEF PlayOnline, Reconnect, OneLink, PageTypes
  <2>2. PageTypes'
    BY <1>1, <1>2, <1>3, <2>1 DEF PageTypes
  <2> QED
    BY <1>2, <1>4, <2>1, <2>2, ConnectKeeps
<1>6. CASE PlayLocal
  <2>1. /\ mode' = "local" /\ link' = "closed" /\ visible' = {}
        /\ current' = None /\ conn' = Hung(current) /\ opened' = opened
    BY <1>6 DEF PlayLocal, Disconnect
  <2>2. PageTypes'
    BY <1>1, <1>2, <1>3, <2>1 DEF PageTypes
  <2>3. /\ conn' \in [Connection -> Wire]
        /\ \A c \in Connection : conn'[c].server = conn[c].server
        /\ \A c \in Connection : IF c <= opened THEN conn'[c].page = "closed" /\ conn'[c].in = <<>>
                                                ELSE conn'[c] = NoConn
    BY <2>1, HungIs
  <2>4. WireTypes' /\ RoomIsSound' /\ room' = room
    BY <1>1, <1>2, <2>1, <2>3 DEF Connected, WireTypes, RoomIsSound, serverVars
  <2>5. OneLink' /\ LinkIsTold' /\ ~Seated'
    BY <2>1 DEF OneLink, LinkIsTold, Seated
  <2>6. OthersAreSilent' /\ ServesHeld'
    BY <2>1, <2>3, <2>4 DEF Connected, OthersAreSilent, ServesHeld
  <2>7. JoinersWait'
    <3>1. \A c \in Connection : conn'[c].page # "open"
      BY <2>3 DEF NoConn
    <3> QED
      BY <3>1 DEF JoinersWait
  <2> QED
    BY <1>4, <2>2, <2>4, <2>5, <2>6, <2>7 DEF Connected
<1> QED
  BY <1>5, <1>6

\* What the handling of an event does to the link, and its types.
LEMMA HandleLink ==
    ASSUME PageTypes, NEW m \in Msg, HandleEvent(m)
    PROVE  /\ link' = IF Opens(m) THEN "open" ELSE IF Closes(m) THEN "closed" ELSE link
           /\ Closes(m) => "reconnect" \in visible'
           /\ "panel" \in visible' => "panel" \in visible
           /\ mode' = mode /\ replay' = replay
           /\ shown' \in Screen /\ final' \in Screen /\ seat' \in Side \cup {"none"}
<1>1. m.state \in Screen /\ m.seat \in Side \cup {"none"} /\ NoState \in Screen
  BY MessagesTyped DEF Msg
<1>2. CASE BridgeOpen(m)
  BY <1>2 DEF BridgeOpen, PageTypes, Opens, Closes, gameVars
<1>3. CASE BridgeClosed(m)
  BY <1>3 DEF BridgeClosed, PageTypes, Opens, Closes, gameVars
<1>4. CASE BridgeError(m)
  BY <1>4 DEF BridgeError, PageTypes, Opens, Closes, gameVars, replayVars
<1>5. CASE Refused(m)
  BY <1>1, <1>5 DEF Refused, PageTypes, Opens, Closes, ApplyState, replayVars
<1>6. CASE Waiting(m)
  BY <1>1, <1>6 DEF Waiting, PageTypes, Opens, Closes, DiscardBoard
<1>7. CASE RoomClosed(m)
  BY <1>1, <1>7 DEF RoomClosed, PageTypes, Opens, Closes, DiscardBoard
<1>8. CASE OpponentComesOrGoes(m)
  BY <1>1, <1>8 DEF OpponentComesOrGoes, PageTypes, Opens, Closes, ApplyState, replayVars
<1>9. CASE MatchedOrState(m)
  BY <1>1, <1>9 DEF MatchedOrState, PageTypes, Opens, Closes, ApplyState
<1> QED
  BY <1>2, <1>3, <1>4, <1>5, <1>6, <1>7, <1>8, <1>9 DEF HandleEvent

\* A queue whose first message is read.
LEMMA ReadOne ==
    ASSUME NEW q \in Seq(Msg), q # <<>>
    PROVE  /\ Len(q) \in Nat \ {0} /\ Head(q) = q[1] /\ Tail(q) \in Seq(Msg)
           /\ Len(Tail(q)) = Len(q) - 1
           /\ \A i \in 1..Len(q) - 1 : Tail(q)[i] = q[i + 1] /\ i + 1 \in 1..Len(q)
           /\ Tail(q) = <<>> <=> Len(q) = 1
<1>1. /\ Len(q) \in Nat \ {0} /\ Head(q) = q[1] /\ Tail(q) \in Seq(Msg)
      /\ Len(Tail(q)) = Len(q) - 1
      /\ \A i \in 1..Len(q) - 1 : Tail(q)[i] = q[i + 1] /\ i + 1 \in 1..Len(q)
  OBVIOUS
<1>2. Tail(q) = <<>> <=> Len(Tail(q)) = 0
  BY <1>1, EmptySeq
<1> QED
  BY <1>1, <1>2

\* An event reaches the page.
LEMMA DispatchIs ==
    ASSUME Connected, NEW c \in Connection, Dispatch(c)
    PROVE  /\ c = current /\ mode = "online" /\ conn[c].in \in Seq(Msg) /\ conn[c].in # <<>>
           /\ HandleEvent(Head(conn[c].in)) /\ Head(conn[c].in) \in Msg
           /\ conn' \in [Connection -> Wire] /\ conn'[c].in = Tail(conn[c].in)
           /\ \A d \in Connection : /\ conn'[d].page = conn[d].page
                                    /\ conn'[d].server = conn[d].server
                                    /\ d # c => conn'[d] = conn[d]
           /\ UNCHANGED <<fetching, current, opened, room, rooms>>
<1>1. WireTypes /\ OthersAreSilent /\ OneLink
  BY DEF Connected
<1>2. conn[c] \in Wire /\ conn[c].in # <<>>
  BY <1>1 DEF WireTypes, Dispatch
<1>3. conn[c].in \in Seq(Msg) /\ Head(conn[c].in) \in Msg /\ Tail(conn[c].in) \in Seq(Msg)
  <2>1. conn[c].in \in Seq(Msg)
    BY <1>2 DEF Wire
  <2> QED
    BY <1>2, <2>1, HeadTailProperties
<1>4. c = current
  BY <1>1, <1>2 DEF OthersAreSilent, NoConn
<1>5. mode = "online"
  BY <1>1, <1>4, WebClientAssumption DEF OneLink, Connection, None
<1> DEFINE w == [conn[c] EXCEPT !.in = Tail(conn[c].in)]
<1>6. w \in Wire /\ w.page = conn[c].page /\ w.server = conn[c].server /\ w.in = Tail(conn[c].in)
  BY <1>2, <1>3 DEF Wire
<1>7. conn' = [conn EXCEPT ![c] = w]
  BY DEF Dispatch
<1> HIDE DEF w
<1>8. /\ conn' \in [Connection -> Wire] /\ conn'[c] = w
      /\ \A d \in Connection : d # c => conn'[d] = conn[d]
  BY <1>1, <1>6, <1>7 DEF WireTypes
<1> QED
  BY <1>2, <1>3, <1>4, <1>5, <1>6, <1>8 DEF Dispatch, httpVars, serverVars

\* The page handles an event.
LEMMA DispatchKeeps ==
    ASSUME Connected, NEW c \in Connection, Dispatch(c)
    PROVE  Connected'
<1> DEFINE q == conn[c].in
           m == Head(q)
<1>1. /\ c = current /\ mode = "online" /\ q \in Seq(Msg) /\ q # <<>> /\ HandleEvent(m) /\ m \in Msg
      /\ conn' \in [Connection -> Wire] /\ conn'[c].in = Tail(q)
      /\ \A d \in Connection : /\ conn'[d].page = conn[d].page /\ conn'[d].server = conn[d].server
                               /\ d # c => conn'[d] = conn[d]
      /\ UNCHANGED <<fetching, current, opened, room, rooms>>
  BY DispatchIs
<1>2. PageTypes /\ WireTypes /\ OneLink /\ OthersAreSilent /\ IsTold(c)
  BY <1>1 DEF Connected, LinkIsTold
<1>3. /\ link' = IF Opens(m) THEN "open" ELSE IF Closes(m) THEN "closed" ELSE link
      /\ Closes(m) => "reconnect" \in visible'
      /\ "panel" \in visible' => "panel" \in visible
      /\ mode' = mode /\ replay' = replay
      /\ shown' \in Screen /\ final' \in Screen /\ seat' \in Side \cup {"none"}
  BY <1>1, <1>2, HandleLink
<1>4. /\ Len(q) \in Nat \ {0} /\ m = q[1] /\ Tail(q) \in Seq(Msg) /\ Len(Tail(q)) = Len(q) - 1
      /\ \A i \in 1..Len(q) - 1 : Tail(q)[i] = q[i + 1] /\ i + 1 \in 1..Len(q)
      /\ Tail(q) = <<>> <=> Len(q) = 1
  BY <1>1, ReadOne
<1> HIDE DEF m
<1>5. PageTypes' /\ WireTypes' /\ OneLink' /\ RoomIsSound' /\ ReplayWasAsked'
  <2>1. link' \in {"closed", "connecting", "open"}
    BY <1>2, <1>3 DEF PageTypes
  <2> QED
    BY <1>1, <1>2, <1>3, <2>1 DEF Connected, PageTypes, WireTypes, OneLink, RoomIsSound, ReplayWasAsked
<1>6. OthersAreSilent' /\ ServesHeld'
  BY <1>1 DEF Connected, OthersAreSilent, ServesHeld
<1>7. JoinersWait'
  <2>1. SUFFICES ASSUME NEW d \in Connection, conn'[d].server \in {"none", "joining"},
                        conn'[d].page = "open", NEW i \in 1..Len(conn'[d].in)
                 PROVE  Opens(conn'[d].in[i])
    BY DEF JoinersWait
  <2>2. CASE d = c
    <3>1. i \in 1..Len(q) - 1 /\ conn'[d].in[i] = q[i + 1] /\ i + 1 \in 1..Len(q)
      BY <1>1, <1>4, <2>1, <2>2
    <3>2. conn[c].server \in {"none", "joining"} /\ conn[c].page = "open"
      BY <1>1, <2>1, <2>2
    <3>3. Opens(q[i + 1])
      BY <3>1, <3>2 DEF Connected, JoinersWait
    <3> QED
      BY <3>1, <3>3
  <2>3. CASE d # c
    BY <1>1, <2>1, <2>3 DEF Connected, JoinersWait
  <2> QED
    BY <2>2, <2>3
<1>8. IsTold(c)'
  <2>1. conn[c].page \in {"open", "closed"}
    BY <1>1, <1>2 DEF IsTold, WireTypes, Wire
  <2>2. ASSUME NEW i \in 1..Len(Tail(q))
        PROVE  /\ Closes(Tail(q)[i]) <=> conn[c].page = "closed" /\ i = Len(Tail(q))
               /\ ~Opens(Tail(q)[i])
    <3>1. Tail(q)[i] = q[i + 1] /\ i + 1 \in 1..Len(q) /\ i + 1 # 1
      BY <1>4
    <3>2. (Closes(q[i + 1]) <=> conn[c].page = "closed" /\ i + 1 = Len(q)) /\ ~Opens(q[i + 1])
      BY <1>2, <3>1 DEF IsTold
    <3> QED
      BY <1>4, <3>1, <3>2
  <2>3. 1 \in 1..Len(q) /\ (Closes(m) <=> conn[c].page = "closed" /\ 1 = Len(q))
    BY <1>2, <1>4 DEF IsTold
  <2>4. CASE conn[c].page = "open"
    <3>1. link' = "open"
      BY <1>2, <1>3, <1>4, <2>3, <2>4 DEF IsTold
    <3> QED
      BY <1>1, <2>2, <2>4, <3>1 DEF IsTold
  <2>5. CASE conn[c].page = "closed"
    <3>1. link # "closed"
      BY <1>1, <1>2, <2>5 DEF IsTold
    <3>2. Opens(m) => ~Closes(m)
      BY DEF Opens, Closes
    <3>3. (Tail(q) = <<>> <=> Closes(m)) /\ (link' = "closed" <=> Closes(m))
      BY <1>3, <1>4, <2>3, <2>5, <3>1, <3>2
    <3> QED
      BY <1>1, <1>3, <2>2, <2>5, <3>3 DEF IsTold
  <2> QED
    BY <2>1, <2>4, <2>5
<1>9. LinkIsTold'
  BY <1>1, <1>8 DEF LinkIsTold, IsTold
<1> QED
  BY <1>5, <1>6, <1>7, <1>9 DEF Connected

\* The invariant of the connections.
LEMMA ConnectedInit == Init => Connected
<1>1. SUFFICES ASSUME Init PROVE Connected
  OBVIOUS
<1>2. NoState \in Screen /\ NoState.game \in Turn
  BY MessagesTyped
<1>3. PageTypes
  <2>1. NoReplay \in [on : BOOLEAN, of : Nat, at : 0..LastTurn]
    BY LastTurnAssumption DEF NoReplay, None
  <2>2. [open |-> <<>>, sent |-> 0] \in [open : Seq(Nat), sent : Nat]
    OBVIOUS
  <2> QED
    BY <1>1, <1>2, <2>1, <2>2 DEF Init, PageTypes, Side
<1>4. NoConn \in Wire /\ NoRoom \in RoomState
  BY <1>2, WebClientAssumption DEF NoConn, Wire, NoRoom, RoomState, None
<1>5. \A c \in Connection : conn[c] = NoConn /\ c \in Nat /\ c > 0
  BY <1>1 DEF Init, Connection
<1>6. WireTypes
  BY <1>1, <1>4, WebClientAssumption DEF Init, WireTypes
<1>7. OneLink /\ LinkIsTold
  BY <1>1 DEF Init, OneLink, LinkIsTold
<1>8. OthersAreSilent
  BY <1>1, <1>5 DEF Init, OthersAreSilent
<1>9. ServesHeld /\ JoinersWait /\ RoomIsSound
  BY <1>1, <1>5 DEF Init, ServesHeld, JoinersWait, RoomIsSound, NoConn, NoRoom, None
<1>10. ReplayWasAsked
  BY <1>1 DEF Init, ReplayWasAsked
<1> QED
  BY <1>3, <1>6, <1>7, <1>8, <1>9, <1>10 DEF Connected

\* Every step keeps it.
LEMMA ConnectedStep ==
    ASSUME Connected, [Next]_vars
    PROVE  Connected'
<1>1. CASE UNCHANGED vars
  <2>1. UNCHANGED <<bridgeVars, serverVars, pageVars, httpVars>>
    BY <1>1 DEF vars
  <2>2. PageTypes' /\ ReplayWasAsked' /\ UNCHANGED <<mode, link, visible>>
    BY <2>1 DEF Connected, PageTypes, ReplayWasAsked, pageVars, gameVars, linkVars, replayVars, httpVars
  <2> QED
    BY <2>1, <2>2, PageKeeps DEF Connected, OneLink
<1>2. CASE User
  BY <1>2, LocalKeeps, SwitchKeeps, ReplayKeeps, MoveOnlineKeeps DEF User
<1>3. ASSUME NEW c \in Connection,
             \/ Dispatch(c) \/ ConnectFails(c) \/ Upgrade(c) \/ Join(c)
             \/ Submit(c) \/ ConnectionEnds(c) \/ Leave(c)
      PROVE  Connected'
  BY <1>3, DispatchKeeps, ConnectFailsKeeps, UpgradeKeeps, JoinRefusedKeeps, JoinKeeps, SubmitKeeps,
     ConnectionEndsKeeps, LeaveKeeps DEF Join
<1> QED
  BY <1>1, <1>2, <1>3, LocalKeeps, ReplayKeeps, OpponentKeeps, RestartKeeps DEF Next

\* It always holds.
LEMMA ConnectedAlways == Spec => []Connected
BY ConnectedInit, ConnectedStep, PTL DEF Spec

\* What the page believes of its connection is so, or it has messages to read
\* that say otherwise; once the connection is over it offers to reconnect.
\* This is for any number of connections, however they end and whatever the
\* handlers of earlier ones still do.
THEOREM ConnectionsAreTold == Spec => []ConnectionIsTold
<1>1. Connected => ConnectionIsTold
  <2>1. SUFFICES ASSUME Connected, mode = "online"
                 PROVE  /\ link = "open" => conn[current].page = "open" \/ ~AllRead
                        /\ link = "closed" => conn[current].page = "closed"
                        /\ conn[current].page = "closed" /\ AllRead =>
                              link = "closed" /\ "reconnect" \in visible
    BY DEF ConnectionIsTold
  <2>2. IsTold(current) /\ current # None /\ conn[current].page \in {"none", "opening", "open", "closed"}
    BY <2>1 DEF Connected, LinkIsTold, OneLink, WireTypes, Wire, Connection, None
  <2> QED
    BY <2>2 DEF IsTold, AllRead
<1> QED
  BY <1>1, ConnectedAlways, PTL

-----------------------------------------------------------------------------
\* What the page shows.

\* Without a seat there is nothing to follow.
LEMMA NotSeated ==
    ASSUME ~Seated'
    PROVE  Following'
BY DEF Following, KnowsSeat, ShowsMatch, ShowsNoLostMatch

\* A step that the page's own connection and room, and the screen, do not see.
LEMMA SameSeat ==
    ASSUME Following, UNCHANGED <<mode, current, room, gameVars, replay, fetching>>,
           conn'[current].page = conn[current].page, conn'[current].in = conn[current].in
    PROVE  Following'
<1>1. UNCHANGED <<loaded, shown, seat, final>>
  BY DEF gameVars
<1>2. Seated' => Seated
  BY DEF Seated
<1>3. KnowsSeat'
  BY <1>1, <1>2 DEF Following, KnowsSeat
<1>4. ShowsMatch'
  BY <1>1, <1>2 DEF Following, ShowsMatch, EndsIn, NoneDecides, PutBack
<1>5. ShowsNoLostMatch'
  BY <1>1, <1>2 DEF Following, ShowsNoLostMatch, PutBack
<1> QED
  BY <1>3, <1>4, <1>5 DEF Following

\* The seat of the page is told something.
LEMMA Delivered ==
    ASSUME Connected, Following, NoPageStep, Seated, NEW new \in Seq(Msg),
           conn'[current].in = conn[current].in \o new, room'.me = room.me,
           \A i \in 1..Len(new) : new[i].type \in Seating => new[i].seat = room.me,
           room'.phase \in {"playing", "suspended"} =>
              \/ EndsIn(new, State(room'.id, room'.game))
              \/ NoneDecides(new) /\ room' = room,
           room'.phase = "waiting" =>
              /\ room.phase = "waiting"
              /\ \A i \in 1..Len(new) : new[i].type \in Carrying => new[i].state.game.phase # "playing"
    PROVE  Following'
<1> DEFINE q == conn[current].in
<1>1. UNCHANGED <<mode, current, loaded, shown, seat, final, replay, fetching>>
  BY DEF NoPageStep, pageVars, gameVars, linkVars, replayVars, httpVars
<1>2. q \in Seq(Msg)
  BY DEF Connected, WireTypes, OneLink, Seated, Wire, Connection, None
<1>3. /\ Len(q \o new) = Len(q) + Len(new) /\ Len(q) \in Nat /\ Len(new) \in Nat
      /\ \A i \in 1..Len(q) : (q \o new)[i] = q[i] /\ i \in 1..Len(q \o new)
      /\ \A i \in 1..Len(q \o new) : i \in 1..Len(q) \/ i - Len(q) \in 1..Len(new)
      /\ \A i \in 1..Len(q \o new) : i \notin 1..Len(q) => (q \o new)[i] = new[i - Len(q)]
  <2>1. /\ Len(q \o new) = Len(q) + Len(new) /\ Len(q) \in Nat /\ Len(new) \in Nat
        /\ \A i \in 1..Len(q) : (q \o new)[i] = q[i]
        /\ \A i \in 1..Len(new) : (q \o new)[Len(q) + i] = new[i]
    BY <1>2, JoinedIs
  <2> DEFINE h == q \o new
             m == Len(q)
             n == Len(new)
             k == Len(h)
  <2> HIDE DEF h, m, n, k
  <2>2. /\ k = m + n /\ m \in Nat /\ n \in Nat
        /\ \A i \in 1..m : h[i] = q[i]
        /\ \A i \in 1..n : h[m + i] = new[i]
    BY <2>1 DEF h, m, n, k
  <2>3. \A i \in 1..m : h[i] = q[i] /\ i \in 1..k
    BY <2>2
  <2>4. \A i \in 1..k : i \in 1..m \/ (i - m \in 1..n /\ m + (i - m) = i)
    BY <2>2
  <2>5. \A i \in 1..k : i \notin 1..m => h[i] = new[i - m]
    BY <2>2, <2>4
  <2> QED
    BY <2>1, <2>3, <2>4, <2>5 DEF h, m, n, k
<1>4. conn'[current'].in = q \o new
  BY <1>1
<1> HIDE DEF q
<1>5. KnowsSeat'
  <2>1. ASSUME NEW i \in 1..Len(q \o new), (q \o new)[i].type \in Seating
        PROVE  (q \o new)[i].seat = room.me
    BY <1>3, <2>1 DEF Following, KnowsSeat, q
  <2>2. seat = room.me \/ \E i \in 1..Len(q \o new) : (q \o new)[i].type \in Seating
    BY <1>3 DEF Following, KnowsSeat, q
  <2> QED
    BY <1>1, <1>4, <2>1, <2>2 DEF KnowsSeat
<1>6. ShowsMatch'
  <2> DEFINE now == State(room'.id, room'.game)
  <2>1. SUFFICES ASSUME room'.phase \in {"playing", "suspended"}
                 PROVE  \/ EndsIn(q \o new, now)
                        \/ NoneDecides(q \o new) /\ loaded /\ (replay.on \/ shown = now \/ PutBack)
    BY <1>1, <1>4 DEF ShowsMatch, EndsIn, NoneDecides, PutBack
  <2>2. CASE EndsIn(new, now)
    BY <1>2, <2>2, EndsInAdded
  <2>3. CASE NoneDecides(new) /\ room' = room
    <3>1. EndsIn(q, now) \/ (NoneDecides(q) /\ loaded /\ (replay.on \/ shown = now \/ PutBack))
      BY <2>1, <2>3 DEF Following, ShowsMatch, q
    <3> QED
      BY <1>2, <2>3, <3>1, EndsInAdded
  <2> QED
    BY <2>1, <2>2, <2>3
<1>7. ShowsNoLostMatch'
  <2>1. SUFFICES ASSUME room'.phase = "waiting"
                 PROVE  /\ \A i \in 1..Len(q \o new) : (q \o new)[i].type \in Carrying =>
                              (q \o new)[i].state.game.phase # "playing"
                        /\ \/ \E i \in 1..Len(q \o new) : (q \o new)[i].type = "waiting"
                           \/ replay.on \/ ~loaded \/ shown.game.phase # "playing" \/ PutBack
    BY <1>1, <1>4 DEF ShowsNoLostMatch, PutBack
  <2>2. /\ \A i \in 1..Len(q) : q[i].type \in Carrying => q[i].state.game.phase # "playing"
        /\ \/ \E i \in 1..Len(q) : q[i].type = "waiting"
           \/ replay.on \/ ~loaded \/ shown.game.phase # "playing" \/ PutBack
    BY <2>1 DEF Following, ShowsNoLostMatch, q
  <2> QED
    BY <1>3, <2>1, <2>2
<1> QED
  BY <1>5, <1>6, <1>7 DEF Following

\* A queue with one message more.
LEMMA AddOne ==
    ASSUME NEW q \in Seq(Msg), NEW new \in Seq(Msg), Len(new) = 1
    PROVE  /\ Len(q \o new) = Len(q) + 1 /\ Len(q) \in Nat
           /\ \A i \in 1..Len(q) : (q \o new)[i] = q[i]
           /\ (q \o new)[Len(q) + 1] = new[1]
           /\ \A i \in 1..Len(q \o new) : i \in 1..Len(q) \/ i = Len(q) + 1
           /\ Len(q) + 1 \in 1..Len(q \o new)
<1>1. /\ Len(q \o new) = Len(q) + Len(new) /\ Len(q) \in Nat
      /\ \A i \in 1..Len(q) : (q \o new)[i] = q[i]
      /\ \A i \in 1..Len(new) : (q \o new)[Len(q) + i] = new[i]
  BY JoinedIs
<1>2. Len(q \o new) = Len(q) + 1 /\ 1 \in 1..Len(new)
  BY <1>1
<1> QED
  BY <1>1, <1>2

\* The page's connection gets a seat.
LEMMA SeatsFollow ==
    ASSUME Connected, NEW c \in Connection, c = current, conn[c].server = "joining",
           NEW r \in RoomState, NEW type \in Seating, Seats(c, r, type),
           r.phase \in {"playing", "suspended"} => type # "waiting",
           r.phase = "waiting" => type = "waiting"
    PROVE  Following'
<1>1. NoPageStep /\ WireTypes /\ JoinersWait /\ room' = r
  BY DEF Connected, Seats
<1>2. UNCHANGED <<mode, current, loaded, shown, seat, final, replay, fetching>>
  BY <1>1 DEF NoPageStep, pageVars, gameVars, linkVars, replayVars, httpVars
<1> DEFINE new == <<About(r, type)>>
           s   == Sent(conn, c, new)
<1>3. type \in Deciding /\ (type \in Carrying <=> type # "waiting")
  BY DEF Seating, Deciding, Carrying
<1>4. /\ new \in Seq(Msg) /\ Len(new) = 1 /\ new[1].type = type /\ new[1].seat = r.me
      /\ type \in Carrying => EndsIn(new, State(r.id, r.game))
  BY <1>3, OneAbout, MessagesTyped
<1>5. conn' = [s EXCEPT ![c].server = "serving"]
  BY DEF Seats
<1> HIDE DEF new
<1>6. /\ s \in [Connection -> Wire] /\ s[c].page = conn[c].page
      /\ s[c].in = IF conn[c].page = "open" THEN conn[c].in \o new ELSE conn[c].in
  <2>1. c \in 0..MaxConnects /\ c # None
    BY WebClientAssumption DEF Connection, None
  <2> QED
    BY <1>1, <1>4, <2>1, SentIs DEF WireTypes
<1> HIDE DEF s
<1>7. conn'[c].page = conn[c].page /\ conn'[c].in = s[c].in
  <2>1. s[c] \in Wire
    BY <1>6
  <2> QED
    BY <1>5, <1>6, <2>1 DEF Wire
<1>8. SUFFICES ASSUME conn[c].page = "open" PROVE Following'
  BY <1>2, <1>7, NotSeated DEF Seated
<1> DEFINE q == conn[c].in
<1>9. q \in Seq(Msg) /\ conn'[c].in = q \o new
  BY <1>1, <1>6, <1>7, <1>8 DEF WireTypes, Wire
<1>10. \A i \in 1..Len(q) : q[i].type = "bridgeOpen"
  BY <1>1, <1>8 DEF JoinersWait, Opens
<1> HIDE DEF q
<1>11. /\ Len(q \o new) = Len(q) + 1 /\ Len(q) \in Nat
       /\ \A i \in 1..Len(q) : (q \o new)[i] = q[i]
       /\ (q \o new)[Len(q) + 1] = new[1]
       /\ \A i \in 1..Len(q \o new) : i \in 1..Len(q) \/ i = Len(q) + 1
       /\ Len(q) + 1 \in 1..Len(q \o new)
  BY <1>4, <1>9, AddOne
<1>12. "bridgeOpen" \notin Seating /\ "bridgeOpen" \notin Carrying
  BY DEF Seating, Carrying
<1>13. conn'[current'].in = q \o new
  BY <1>2, <1>9
<1>14. KnowsSeat'
  <2>1. \A i \in 1..Len(q \o new) : (q \o new)[i].type \in Seating => (q \o new)[i].seat = r.me
    BY <1>4, <1>10, <1>11, <1>12
  <2>2. \E i \in 1..Len(q \o new) : (q \o new)[i].type \in Seating
    BY <1>4, <1>11
  <2> QED
    BY <1>1, <1>13, <2>1, <2>2 DEF KnowsSeat
<1>15. ShowsMatch'
  <2>1. r.phase \in {"playing", "suspended"} => EndsIn(q \o new, State(r.id, r.game))
    BY <1>3, <1>4, <1>9, EndsInAdded
  <2> QED
    BY <1>1, <1>13, <2>1 DEF ShowsMatch, EndsIn
<1>16. ShowsNoLostMatch'
  <2>1. r.phase = "waiting" =>
           /\ \A i \in 1..Len(q \o new) : (q \o new)[i].type \notin Carrying
           /\ \E i \in 1..Len(q \o new) : (q \o new)[i].type = "waiting"
    BY <1>3, <1>4, <1>10, <1>11, <1>12
  <2> QED
    BY <1>1, <1>13, <2>1 DEF ShowsNoLostMatch
<1> QED
  BY <1>14, <1>15, <1>16 DEF Following

\* The handling of an event: the board and the seat.
LEMMA HandleBoard ==
    ASSUME NEW m \in Msg, HandleEvent(m)
    PROVE  /\ replay' = replay /\ mode' = mode
           /\ m.type \in Carrying => shown' = m.state /\ loaded'
           /\ m.type \notin Deciding => UNCHANGED <<shown, loaded, final>>
           /\ m.type = "waiting" => ~loaded' \/ (UNCHANGED <<shown, loaded, final>> /\ (~loaded \/ replay.on))
           /\ m.type = "closed" => ~loaded' \/ UNCHANGED <<shown, loaded, final>>
           /\ seat' = IF m.type \in Seating THEN m.seat ELSE seat
<1> USE DEF Carrying, Deciding, Seating
<1>1. CASE BridgeOpen(m) \/ BridgeClosed(m) \/ BridgeError(m)
  BY <1>1 DEF BridgeOpen, BridgeClosed, BridgeError, gameVars, replayVars
<1>2. CASE Refused(m)
  BY <1>2 DEF Refused, ApplyState, replayVars
<1>3. CASE Waiting(m)
  BY <1>3 DEF Waiting, DiscardBoard
<1>4. CASE RoomClosed(m)
  BY <1>4 DEF RoomClosed, DiscardBoard
<1>5. CASE OpponentComesOrGoes(m)
  BY <1>5 DEF OpponentComesOrGoes, ApplyState, replayVars
<1>6. CASE MatchedOrState(m)
  BY <1>6 DEF MatchedOrState, ApplyState
<1> QED
  BY <1>1, <1>2, <1>3, <1>4, <1>5, <1>6 DEF HandleEvent

\* An event that the page handles.
LEMMA DispatchFollows ==
    ASSUME Connected, Following, NEW c \in Connection, Dispatch(c)
    PROVE  Following'
<1> DEFINE q == conn[c].in
           m == Head(q)
<1>1. /\ c = current /\ mode = "online" /\ q \in Seq(Msg) /\ q # <<>> /\ HandleEvent(m) /\ m \in Msg
      /\ conn'[c].in = Tail(q) /\ conn'[c].page = conn[c].page
      /\ UNCHANGED <<fetching, current, room>>
  BY DispatchIs
<1>2. SUFFICES ASSUME Seated PROVE Following'
  BY <1>1, HandleBoard, NotSeated DEF Seated
<1>3. /\ replay' = replay /\ mode' = mode
      /\ m.type \in Carrying => shown' = m.state /\ loaded'
      /\ m.type \notin Deciding => UNCHANGED <<shown, loaded, final>>
      /\ m.type = "waiting" => ~loaded' \/ (UNCHANGED <<shown, loaded, final>> /\ (~loaded \/ replay.on))
      /\ m.type = "closed" => ~loaded' \/ UNCHANGED <<shown, loaded, final>>
      /\ seat' = IF m.type \in Seating THEN m.seat ELSE seat
  BY <1>1, HandleBoard
<1>4. /\ Len(q) \in Nat \ {0} /\ m = q[1] /\ Len(Tail(q)) = Len(q) - 1
      /\ \A i \in 1..Len(q) - 1 : Tail(q)[i] = q[i + 1] /\ i + 1 \in 1..Len(q)
      /\ \A i \in 1..Len(q) : i = 1 \/ (i - 1 \in 1..Len(q) - 1 /\ Tail(q)[i - 1] = q[i])
  <2>1. /\ Len(q) \in Nat \ {0} /\ m = q[1] /\ Len(Tail(q)) = Len(q) - 1
        /\ \A i \in 1..Len(q) - 1 : Tail(q)[i] = q[i + 1] /\ i + 1 \in 1..Len(q)
    BY <1>1, ReadOne
  <2>2. Len(q) \in Nat
    BY <2>1
  <2> HIDE DEF q, m
  <2>3. \A i \in 1..Len(q) : i = 1 \/ (i - 1 \in 1..Len(q) - 1 /\ (i - 1) + 1 = i)
    BY <2>2
  <2> QED
    BY <2>1, <2>3
<1>5. conn'[current'].in = Tail(q) /\ conn[current].in = q
  BY <1>1
<1>6. m.type \in Deciding <=> m.type \in Carrying \/ m.type = "waiting" \/ m.type = "closed"
  BY DEF Deciding
<1> HIDE DEF q, m
<1>7. KnowsSeat'
  <2>1. /\ \A i \in 1..Len(q) : q[i].type \in Seating => q[i].seat = room.me
        /\ seat = room.me \/ \E i \in 1..Len(q) : q[i].type \in Seating
    BY <1>2, <1>5 DEF Following, KnowsSeat
  <2>2. \A i \in 1..Len(Tail(q)) : Tail(q)[i].type \in Seating => Tail(q)[i].seat = room.me
    BY <1>4, <2>1
  <2>3. seat' = room.me \/ \E i \in 1..Len(Tail(q)) : Tail(q)[i].type \in Seating
    <3>1. CASE m.type \in Seating
      BY <1>3, <1>4, <2>1, <3>1
    <3>2. CASE m.type \notin Seating
      BY <1>3, <1>4, <2>1, <3>2
    <3> QED
      BY <3>1, <3>2
  <2> QED
    BY <1>1, <1>5, <2>2, <2>3 DEF KnowsSeat
<1>8. ShowsMatch'
  <2> DEFINE now == State(room.id, room.game)
  <2>1. SUFFICES ASSUME room.phase \in {"playing", "suspended"}
                 PROVE  \/ EndsIn(Tail(q), now)
                        \/ NoneDecides(Tail(q)) /\ loaded' /\ (replay.on \/ shown' = now \/ PutBack')
    BY <1>1, <1>3, <1>5 DEF ShowsMatch, EndsIn, NoneDecides
  <2>2. EndsIn(q, now) \/ (NoneDecides(q) /\ loaded /\ (replay.on \/ shown = now \/ PutBack))
    BY <1>2, <1>5, <2>1 DEF Following, ShowsMatch
  <2> HIDE DEF now
  <2>3. CASE EndsIn(q, now)
    BY <1>1, <1>3, <2>3, EndsInRead DEF m
  <2>4. CASE NoneDecides(q) /\ loaded /\ (replay.on \/ shown = now \/ PutBack)
    <3>1. NoneDecides(Tail(q)) /\ m.type \notin Deciding
      BY <1>1, <2>4, EndsInRead DEF m
    <3>2. PutBack => PutBack'
      BY <1>1, <1>3, <3>1 DEF PutBack
    <3> QED
      BY <1>3, <2>4, <3>1, <3>2
  <2> QED
    BY <2>2, <2>3, <2>4
<1>9. ShowsNoLostMatch'
  <2>1. SUFFICES ASSUME room.phase = "waiting"
                 PROVE  /\ \A i \in 1..Len(Tail(q)) : Tail(q)[i].type \in Carrying =>
                              Tail(q)[i].state.game.phase # "playing"
                        /\ \/ \E i \in 1..Len(Tail(q)) : Tail(q)[i].type = "waiting"
                           \/ replay.on \/ ~loaded' \/ shown'.game.phase # "playing" \/ PutBack'
    BY <1>1, <1>3, <1>5 DEF ShowsNoLostMatch
  <2>2. /\ \A i \in 1..Len(q) : q[i].type \in Carrying => q[i].state.game.phase # "playing"
        /\ \/ \E i \in 1..Len(q) : q[i].type = "waiting"
           \/ replay.on \/ ~loaded \/ shown.game.phase # "playing" \/ PutBack
    BY <1>2, <1>5, <2>1 DEF Following, ShowsNoLostMatch
  <2>3. \A i \in 1..Len(Tail(q)) : Tail(q)[i].type \in Carrying =>
                              Tail(q)[i].state.game.phase # "playing"
    BY <1>4, <2>2
  <2>4. UNCHANGED <<shown, final>> /\ PutBack => PutBack'
    BY <1>1 DEF PutBack
  <2>5. CASE m.type \in Carrying
    BY <1>3, <1>4, <2>2, <2>3, <2>5
  <2>6. CASE m.type = "waiting"
    BY <1>3, <2>3, <2>6
  <2>7. CASE m.type = "closed"
    BY <1>3, <1>4, <2>2, <2>3, <2>4, <2>7
  <2>8. CASE m.type \notin Deciding
    BY <1>3, <1>4, <1>6, <2>2, <2>3, <2>4, <2>8
  <2> QED
    BY <1>6, <2>5, <2>6, <2>7, <2>8
<1> QED
  BY <1>7, <1>8, <1>9 DEF Following

\* What a step of the network or the server leaves alone.
LEMMA PageRests ==
    ASSUME Connected, NoPageStep
    PROVE  /\ UNCHANGED <<mode, current, gameVars, replay, fetching>>
           /\ mode = "online" => current \in Connection /\ current # None
BY DEF NoPageStep, pageVars, linkVars, gameVars, replayVars, httpVars, Connected, OneLink,
       WireTypes, Connection, None

\* A connection that does not come about, has no seat yet, or ends.
LEMMA LinkFollows ==
    ASSUME Connected, Following, NEW c \in Connection,
           ConnectFails(c) \/ Upgrade(c) \/ JoinRefused(c) \/ ConnectionEnds(c)
    PROVE  Following'
<1>1. NoPageStep /\ room' = room /\ conn \in [Connection -> Wire]
  BY DEF ConnectFails, Upgrade, JoinRefused, ConnectionEnds, serverVars, Connected, WireTypes
<1>2. /\ UNCHANGED <<mode, current, gameVars, replay, fetching>>
      /\ mode = "online" => current \in Connection /\ current # None
  BY <1>1, PageRests
<1>3. SUFFICES ASSUME Seated' PROVE Following'
  BY NotSeated
<1>4. mode = "online" /\ room.held = current /\ conn'[current].page = "open" /\ current \in Connection
      /\ conn[current].server = "serving"
  BY <1>1, <1>2, <1>3 DEF Seated, Connected, ServesHeld
<1>5. /\ \A d \in Connection : d # c => conn'[d] = conn[d]
      /\ ~Upgrade(c) => conn'[c].page = "closed"
  <2>1. CASE ConnectFails(c)
    <3> DEFINE w == [NoConn EXCEPT !.page = "closed", !.server = "gone",
                                   !.in = <<Signal("bridgeError"), Signal("bridgeClosed")>>]
    <3>1. conn' = [conn EXCEPT ![c] = w] /\ w.page = "closed"
      BY <2>1 DEF ConnectFails, NoConn
    <3> HIDE DEF w
    <3> QED
      BY <1>1, <3>1
  <2>2. CASE Upgrade(c)
    <3>1. PICK w : conn' = [conn EXCEPT ![c] = w]
      <4>1. CASE conn[c].page = "closed"
        <5>1. conn' = [conn EXCEPT ![c] = [conn[c] EXCEPT !.server = "joining"]]
          BY <2>2, <4>1 DEF Upgrade
        <5> QED
          BY <5>1
      <4>2. CASE conn[c].page # "closed"
        BY <2>2, <4>2 DEF Upgrade
      <4> QED
        BY <4>1, <4>2
    <3> QED
      BY <1>1, <2>2, <3>1
  <2>3. CASE JoinRefused(c)
    <3>1. PICK told \in {<<>>, <<Signal("refused")>>} :
             conn' = [SentAndClosed(conn, c, told) EXCEPT ![c].server = "gone"]
      BY <2>3 DEF JoinRefused
    <3>2. told \in Seq(Msg)
      <4>1. CASE told = <<>>
        BY <4>1
      <4>2. CASE told = <<Signal("refused")>>
        BY <4>2, OneRefusal
      <4> QED
        BY <4>1, <4>2
    <3> DEFINE s == SentAndClosed(conn, c, told)
    <3>3. s \in [Connection -> Wire] /\ (\A d \in Connection : d # c => s[d] = conn[d])
          /\ s[c].page = "closed"
      BY <1>1, <3>2, SentAndClosedIs
    <3>4. conn' = [s EXCEPT ![c] = [s[c] EXCEPT !.server = "gone"]]
      BY <3>1
    <3> HIDE DEF s
    <3>5. s[c] \in Wire
      BY <3>3
    <3> QED
      BY <3>3, <3>4, <3>5 DEF Wire
  <2>4. CASE ConnectionEnds(c)
    <3>1. PICK x : conn' = [conn EXCEPT ![c] = [conn[c] EXCEPT !.page = "closed", !.in = x]]
      BY <2>4 DEF ConnectionEnds
    <3>2. conn[c] \in Wire
      BY <1>1
    <3>3. [conn[c] EXCEPT !.page = "closed", !.in = x].page = "closed"
      BY <3>2 DEF Wire
    <3> QED
      BY <1>1, <3>1, <3>3
  <2> QED
    BY <2>1, <2>2, <2>3, <2>4
<1>6. c # current
  BY <1>4, <1>5 DEF Upgrade
<1> QED
  BY <1>1, <1>2, <1>4, <1>5, <1>6, SameSeat

\* The end of the seat.
LEMMA UnseatedFollows ==
    ASSUME Connected, Restart \/ \E c \in Connection : Leave(c)
    PROVE  Following'
<1>1. NoPageStep
  BY DEF Restart, Leave
<1>2. room'.held = None
  <2>1. NoRoom.held = None
    BY DEF NoRoom
  <2>2. room \in RoomState
    BY HeldType
  <2>3. [room EXCEPT !.held = None, !.phase = IF @ = "playing" THEN "suspended" ELSE @].held = None
    BY <2>2 DEF RoomState
  <2> QED
    BY <2>1, <2>3 DEF Restart, Leave
<1> QED
  BY <1>1, <1>2, PageRests, NotSeated DEF Seated

\* Whoever sits down in the room, the page's connection is told.
LEMMA JoinFollows ==
    ASSUME Connected, Following, NEW c \in Connection, JoinFirst(c) \/ JoinSecond(c) \/ JoinAgain(c)
    PROVE  Following'
<1>1. PICK r \in RoomState, type \in Seating :
         /\ Seats(c, r, type) /\ r.held = c /\ conn[c].server = "joining"
         /\ r.phase \in {"playing", "suspended"} => type # "waiting"
         /\ r.phase = "waiting" => type = "waiting"
  <2>1. CASE JoinFirst(c)
    <3> DEFINE r == [NoRoom EXCEPT !.id = rooms + 1, !.phase = "waiting", !.me = "dark", !.held = c]
    <3>1. r \in RoomState /\ r.held = c /\ r.phase = "waiting"
      BY <2>1, JoinedRooms
    <3>2. Seats(c, r, "waiting") /\ conn[c].server = "joining" /\ "waiting" \in Seating
      BY <2>1 DEF JoinFirst, Seating
    <3> HIDE DEF r
    <3> QED
      BY <3>1, <3>2
  <2>2. CASE JoinSecond(c)
    <3> DEFINE r == [room EXCEPT !.phase = "playing", !.game = NewGame, !.me = "light", !.held = c]
    <3>1. r \in RoomState /\ r.held = c /\ r.phase = "playing"
      BY <2>2, JoinedRooms
    <3>2. Seats(c, r, "matched") /\ conn[c].server = "joining" /\ "matched" \in Seating
      BY <2>2 DEF JoinSecond, Seating
    <3> HIDE DEF r
    <3> QED
      BY <3>1, <3>2
  <2>3. CASE JoinAgain(c)
    <3> DEFINE r == [room EXCEPT !.phase = "playing", !.held = c]
    <3>1. r \in RoomState /\ r.held = c /\ r.phase = "playing"
      BY <2>3, JoinedRooms
    <3>2. Seats(c, r, "state") /\ conn[c].server = "joining" /\ "state" \in Seating
      BY <2>3 DEF JoinAgain, Seating
    <3> HIDE DEF r
    <3> QED
      BY <3>1, <3>2
  <2> QED
    BY <2>1, <2>2, <2>3
<1>2. CASE c = current
  BY <1>1, <1>2, SeatsFollow
<1>3. CASE c # current
  <2>1. room' = r /\ current' = current
    BY <1>1, PageRests DEF Seats
  <2> QED
    BY <1>1, <1>3, <2>1, NotSeated DEF Seated
<1> QED
  BY <1>2, <1>3

\* The holder of the seat is sent something while the page does nothing: it
\* is as in Delivered when the page is the holder.
LEMMA SendFollows ==
    ASSUME Connected, Following, NoPageStep, room'.held = room.held, room'.me = room.me,
           NEW cs \in [Connection -> Wire],
           \A d \in Connection : cs[d].page = conn[d].page /\ cs[d].in = conn[d].in,
           NEW new \in Seq(Msg), conn' = Sent(cs, room.held, new),
           \A i \in 1..Len(new) : new[i].type \in Seating => new[i].seat = room.me,
           room'.phase \in {"playing", "suspended"} =>
              \/ EndsIn(new, State(room'.id, room'.game))
              \/ NoneDecides(new) /\ room' = room,
           room'.phase = "waiting" =>
              /\ room.phase = "waiting"
              /\ \A i \in 1..Len(new) : new[i].type \in Carrying => new[i].state.game.phase # "playing"
    PROVE  Following'
<1>1. /\ UNCHANGED <<mode, current>>
      /\ mode = "online" => current \in Connection /\ current # None
  BY PageRests
<1>2. SUFFICES ASSUME Seated' PROVE Following'
  BY NotSeated
<1>3. current \in Connection /\ current # None /\ room.held = current /\ mode = "online"
      /\ room.held \in 0..MaxConnects /\ conn'[current].page = "open"
  BY <1>1, <1>2, HeldType DEF Seated
<1>4. /\ conn'[current].page = cs[current].page
      /\ conn'[current].in = IF cs[current].page = "open" THEN cs[current].in \o new ELSE cs[current].in
  BY <1>3, SentIs
<1>5. Seated /\ conn'[current].in = conn[current].in \o new
  BY <1>3, <1>4 DEF Seated
<1> QED
  BY <1>5, Delivered

\* A move of either player, with its news.
LEMMA AdvanceFollows ==
    ASSUME Connected, Following, NoPageStep, NEW side, Due(room.game, side), room' = Advanced,
           NEW cs \in [Connection -> Wire],
           \A d \in Connection : cs[d].page = conn[d].page /\ cs[d].in = conn[d].in,
           conn' = Sent(cs, room.held, News(Advanced))
    PROVE  Following'
<1>1. /\ Advanced \in RoomState /\ Advanced.held = room.held /\ Advanced.me = room.me
      /\ Advanced.phase \in {room.phase, "closed"} /\ room.phase # "waiting"
  BY HeldType, AdvancedIs
<1>2. PICK r \in RoomState : r = Advanced
  BY <1>1
<1>3. PICK new \in Seq(Msg) : new = News(r)
  BY NewsIs
<1>4. /\ \A i \in 1..Len(new) : new[i].seat = r.me
      /\ r.phase # "closed" => EndsIn(new, State(r.id, r.game))
  BY <1>3, NewsIs
<1>5. room' = r /\ conn' = Sent(cs, room.held, new) /\ r.held = room.held /\ r.me = room.me
      /\ r.phase # "waiting"
  BY <1>1, <1>2, <1>3
<1> QED
  BY <1>4, <1>5, SendFollows

\* A command of the page.
LEMMA SubmitFollows ==
    ASSUME Connected, Following, NEW c \in Connection, Submit(c)
    PROVE  Following'
<1> DEFINE read == [conn EXCEPT ![c].out = Tail(@)]
<1>1. room \in RoomState /\ conn \in [Connection -> Wire] /\ RoomIsSound
  BY HeldType
<1>2. c = room.held /\ NoPageStep
  BY DEF Connected, ServesHeld, Submit
<1>3. /\ read \in [Connection -> Wire]
      /\ \A d \in Connection : read[d].page = conn[d].page /\ read[d].in = conn[d].in
  <2>1. conn[c] \in Wire /\ conn[c].out # <<>>
    BY <1>1 DEF Submit
  <2>2. Tail(conn[c].out) \in Seq([player : Side \cup {"none"}, turn : Nat])
    BY <2>1 DEF Wire
  <2>3. [conn[c] EXCEPT !.out = Tail(@)] \in Wire
    BY <2>1, <2>2 DEF Wire
  <2>4. read = [conn EXCEPT ![c] = [conn[c] EXCEPT !.out = Tail(@)]]
    OBVIOUS
  <2> HIDE DEF read
  <2> QED
    BY <1>1, <2>1, <2>3, <2>4 DEF Wire
<1>4. \/ /\ Due(room.game, room.me) /\ room' = Advanced /\ conn' = Sent(read, c, News(Advanced))
      \/ conn' = Sent(read, c, <<About(room, "stale_turn")>>) /\ room' = room
      \/ conn' = Sent(read, c, <<Signal("refused")>>) /\ room' = room
  BY DEF Submit
<1> HIDE DEF read
<1>5. CASE Due(room.game, room.me) /\ room' = Advanced /\ conn' = Sent(read, c, News(Advanced))
  BY <1>2, <1>3, <1>5, AdvanceFollows
<1>6. CASE conn' = Sent(read, c, <<About(room, "stale_turn")>>) /\ room' = room
  <2>1. "stale_turn" \in Carrying /\ "stale_turn" \in Deciding /\ "stale_turn" \notin Seating
    BY DEF Deciding, Carrying, Seating
  <2>2. PICK new \in Seq(Msg) : new = <<About(room, "stale_turn")>>
    BY <1>1, <2>1, OneAbout
  <2>3. /\ Len(new) = 1 /\ new[1].type = "stale_turn" /\ new[1].state = State(room.id, room.game)
        /\ EndsIn(new, State(room.id, room.game))
    BY <1>1, <2>1, <2>2, OneAbout, MessagesTyped
  <2>4. \A i \in 1..Len(new) : new[i] = new[1]
    BY <2>3
  <2>5. room.phase = "waiting" => State(room.id, room.game).game.phase # "playing"
    BY <1>1 DEF RoomIsSound, NoState, State
  <2>6. conn' = Sent(read, room.held, new) /\ room'.held = room.held /\ room'.me = room.me
    BY <1>2, <1>6, <2>2
  <2> QED
    BY <1>2, <1>3, <1>6, <2>1, <2>3, <2>4, <2>5, <2>6, SendFollows
<1>7. CASE conn' = Sent(read, c, <<Signal("refused")>>) /\ room' = room
  <2>1. "refused" \notin Carrying /\ "refused" \notin Seating
    BY DEF Carrying, Seating
  <2>2. PICK new \in Seq(Msg) : new = <<Signal("refused")>>
    BY OneRefusal
  <2>3. Len(new) = 1 /\ new[1].type = "refused" /\ NoneDecides(new)
    BY <2>2, OneRefusal
  <2>4. \A i \in 1..Len(new) : new[i] = new[1]
    BY <2>3
  <2>5. conn' = Sent(read, room.held, new) /\ room'.held = room.held /\ room'.me = room.me
    BY <1>2, <1>7, <2>2
  <2> QED
    BY <1>2, <1>3, <1>7, <2>1, <2>3, <2>4, <2>5, SendFollows
<1> QED
  BY <1>4, <1>5, <1>6, <1>7

\* The opponent comes, moves and goes.
LEMMA OpponentFollows ==
    ASSUME Connected, Following, OpponentJoins \/ OpponentMoves \/ OpponentLeaves
    PROVE  Following'
<1>1. room \in RoomState /\ conn \in [Connection -> Wire] /\ RoomIsSound
  BY HeldType
<1>2. NoPageStep
  BY DEF OpponentJoins, OpponentMoves, OpponentLeaves
<1>3. ASSUME room'.held = None PROVE Following'
  BY <1>2, <1>3, PageRests, NotSeated DEF Seated
<1>4. ASSUME NEW type \in {"matched", "opponentReturned", "opponentLeft"}, NEW r \in RoomState,
             conn' = Sent(conn, room.held, <<About(r, type)>>), room'.held = room.held,
             room'.me = room.me, r.me = room.me, r.id = room'.id, r.game = room'.game,
             room'.phase = "waiting" => room.phase = "waiting" /\ r.game = NoState.game
      PROVE  Following'
  <2>1. type \in Carrying /\ type \in Deciding
    BY <1>4 DEF Carrying, Deciding
  <2>2. PICK new \in Seq(Msg) : new = <<About(r, type)>>
    BY <2>1, OneAbout
  <2>3. /\ Len(new) = 1 /\ new[1].seat = r.me /\ new[1].state = State(r.id, r.game)
        /\ EndsIn(new, State(r.id, r.game))
    BY <2>1, <2>2, OneAbout, MessagesTyped
  <2>4. \A i \in 1..Len(new) : new[i] = new[1]
    BY <2>3
  <2>5. room'.phase = "waiting" => State(r.id, r.game).game.phase # "playing"
    BY <1>4 DEF NoState, State
  <2>6. conn' = Sent(conn, room.held, new)
    BY <1>4, <2>2
  <2>7. EndsIn(new, State(room'.id, room'.game))
    BY <1>4, <2>3
  <2> QED
    BY <1>1, <1>2, <1>4, <2>3, <2>4, <2>5, <2>6, <2>7, SendFollows
<1>5. CASE OpponentMoves
  BY <1>1, <1>2, <1>5, AdvanceFollows DEF OpponentMoves
<1>6. CASE OpponentLeaves
  <2>1. CASE room.held = None
    BY <1>3, <1>6, <2>1 DEF OpponentLeaves, NoRoom
  <2>2. CASE room.held # None
    <3>1. room' = [room EXCEPT !.opponent = "gone",
                               !.phase = IF @ = "playing" THEN "suspended" ELSE @]
      BY <1>6, <2>2 DEF OpponentLeaves
    <3>2. /\ room'.held = room.held /\ room'.me = room.me /\ room'.id = room.id
          /\ room'.game = room.game
          /\ room'.phase = IF room.phase = "playing" THEN "suspended" ELSE room.phase
      BY <1>1, <3>1 DEF RoomState
    <3>3. room'.phase = "waiting" => room.phase = "waiting" /\ room.game = NoState.game
      BY <1>1, <3>2 DEF RoomIsSound
    <3> QED
      BY <1>1, <1>4, <1>6, <3>2, <3>3 DEF OpponentLeaves
  <2> QED
    BY <2>1, <2>2
<1>7. CASE OpponentJoins
  <2>1. CASE room' = [NoRoom EXCEPT !.id = rooms + 1, !.phase = "waiting", !.opponent = "here"]
    <3>1. room'.held = None
      BY <2>1 DEF NoRoom
    <3> QED
      BY <1>3, <3>1
  <2>2. ASSUME NEW type \in {"matched", "opponentReturned"}, room' \in RoomState,
               room'.held = room.held, room'.me = room.me, room'.phase = "playing",
               conn' = Sent(conn, room.held, <<About(room', type)>>)
        PROVE  Following'
    <3>1. PICK r \in RoomState : r = room'
      BY <2>2
    <3>2. conn' = Sent(conn, room.held, <<About(r, type)>>)
      BY <2>2, <3>1
    <3> QED
      BY <1>4, <2>2, <3>1, <3>2
  <2>3. CASE /\ room' = [room EXCEPT !.phase = "playing", !.game = NewGame, !.opponent = "here"]
             /\ conn' = Sent(conn, room.held, <<About(room', "matched")>>)
    <3>1. room' \in RoomState /\ room'.held = room.held /\ room'.me = room.me /\ room'.phase = "playing"
      BY <1>1, <2>3, MessagesTyped DEF RoomState
    <3> QED
      BY <2>2, <2>3, <3>1
  <2>4. CASE /\ room' = [room EXCEPT !.phase = "playing", !.opponent = "here"]
             /\ conn' = Sent(conn, room.held, <<About(room', "opponentReturned")>>)
    <3>1. room' \in RoomState /\ room'.held = room.held /\ room'.me = room.me /\ room'.phase = "playing"
      BY <1>1, <2>4 DEF RoomState
    <3> QED
      BY <2>2, <2>4, <3>1
  <2> QED
    BY <1>7, <2>1, <2>3, <2>4 DEF OpponentJoins
<1> QED
  BY <1>5, <1>6, <1>7

\* Requests and answers of the local game.  In a match an answer that comes
\* late is not looked at.
LEMMA LocalFollows ==
    ASSUME Connected, Following, NewLocalGame \/ MoveLocally \/ RulesAnswer
    PROVE  Following'
<1>1. UNCHANGED <<bridgeVars, serverVars, mode, replay, fetching>>
  BY DEF NewLocalGame, MoveLocally, RulesAnswer, replayVars
<1>2. UNCHANGED <<current, conn, room>>
  BY <1>1 DEF bridgeVars, serverVars
<1>3. CASE mode = "local"
  BY <1>1, <1>3, NotSeated DEF Seated
<1>4. CASE mode # "local"
  <2>1. UNCHANGED gameVars
    BY <1>4 DEF NewLocalGame, MoveLocally, RulesAnswer, gameVars
  <2> QED
    BY <1>1, <1>2, <2>1, SameSeat
<1> QED
  BY <1>3, <1>4

\* The replay comes to the screen and leaves it.
LEMMA ReplayFollows ==
    ASSUME Connected, Following,
           OpenReplay \/ StepReplay \/ ExitReplay \/ \E i \in 1..MaxReplays : ReplayAnswer(i)
    PROVE  Following'
<1>1. UNCHANGED <<bridgeVars, serverVars, mode, seat>>
  BY DEF OpenReplay, StepReplay, ExitReplay, ReplayAnswer, pageVars, gameVars, linkVars
<1>2. UNCHANGED <<current, conn, room>>
  BY <1>1 DEF bridgeVars, serverVars
<1>3. \/ loaded' /\ replay'.on
      \/ loaded' = loaded /\ PutBack'
      \/ UNCHANGED <<loaded, shown, final, replay>> /\ (PutBack => PutBack')
  <2>1. CASE OpenReplay
    <3>1. fetching.sent \in Nat /\ fetching'.sent = fetching.sent + 1
      BY <2>1 DEF OpenReplay, Connected, PageTypes
    <3>2. UNCHANGED <<loaded, shown, final, replay>>
      BY <2>1 DEF OpenReplay, pageVars, gameVars, replayVars
    <3> QED
      BY <3>1, <3>2 DEF PutBack
  <2>2. CASE StepReplay
    BY <2>2 DEF StepReplay, ShowFrame
  <2>3. CASE ExitReplay
    BY <2>3 DEF ExitReplay, httpVars, PutBack, Connected, ReplayWasAsked
  <2>4. ASSUME NEW i \in 1..MaxReplays, ReplayAnswer(i)
        PROVE  \/ loaded' /\ replay'.on
               \/ UNCHANGED <<loaded, shown, final, replay>> /\ (PutBack => PutBack')
    <3>1. \/ UNCHANGED pageVars
          \/ ShowFrame(fetching.open[i], 0)
      BY <2>4 DEF ReplayAnswer
    <3>2. fetching'.sent = fetching.sent
      BY <2>4 DEF ReplayAnswer, Connected, PageTypes
    <3> QED
      BY <3>1, <3>2 DEF pageVars, gameVars, replayVars, ShowFrame, PutBack
  <2> QED
    BY <2>1, <2>2, <2>3, <2>4
<1>4. Seated' => Seated
  BY <1>1, <1>2 DEF Seated
<1>5. KnowsSeat'
  BY <1>1, <1>2, <1>4 DEF Following, KnowsSeat
<1>6. ShowsMatch'
  <2> DEFINE now == State(room.id, room.game)
             q   == conn[current].in
  <2>1. SUFFICES ASSUME Seated, room.phase \in {"playing", "suspended"}
                 PROVE  \/ EndsIn(q, now)
                        \/ NoneDecides(q) /\ loaded' /\ (replay'.on \/ shown' = now \/ PutBack')
    BY <1>2, <1>4 DEF ShowsMatch, EndsIn, NoneDecides
  <2>2. \/ EndsIn(q, now)
        \/ NoneDecides(q) /\ loaded /\ (replay.on \/ shown = now \/ PutBack)
    BY <2>1 DEF Following, ShowsMatch
  <2> HIDE DEF now, q
  <2> QED
    BY <1>3, <2>2
<1>7. ShowsNoLostMatch'
  <2> DEFINE q == conn[current].in
  <2>1. SUFFICES ASSUME Seated, room.phase = "waiting"
                 PROVE  /\ \A i \in 1..Len(q) : q[i].type \in Carrying => q[i].state.game.phase # "playing"
                        /\ \/ \E i \in 1..Len(q) : q[i].type = "waiting"
                           \/ replay'.on \/ ~loaded' \/ shown'.game.phase # "playing" \/ PutBack'
    BY <1>2, <1>4 DEF ShowsNoLostMatch
  <2>2. /\ \A i \in 1..Len(q) : q[i].type \in Carrying => q[i].state.game.phase # "playing"
        /\ \/ \E i \in 1..Len(q) : q[i].type = "waiting"
           \/ replay.on \/ ~loaded \/ shown.game.phase # "playing" \/ PutBack
    BY <2>1 DEF Following, ShowsNoLostMatch
  <2> HIDE DEF q
  <2> QED
    BY <1>3, <2>2
<1> QED
  BY <1>5, <1>6, <1>7 DEF Following

\* Every step keeps what the page shows in step with what it is sent.
LEMMA FollowingStep ==
    ASSUME Connected, Following, [Next]_vars
    PROVE  Following'
<1>1. CASE UNCHANGED vars
  BY <1>1, SameSeat DEF vars, pageVars, gameVars, linkVars, replayVars, httpVars, bridgeVars, serverVars
<1>2. CASE MoveOnline
  <2>1. current \in Connection
    BY <1>2 DEF MoveOnline, Connected, OneLink, WireTypes, Connection, None
  <2> QED
    BY <1>2, <2>1, MoveOnlineKeeps, SameSeat
<1>3. CASE PlayOnline \/ PlayLocal \/ Reconnect
  BY <1>3, SwitchKeeps, NotSeated
<1>4. CASE User
  BY <1>2, <1>3, <1>4, LocalFollows, ReplayFollows DEF User
<1>5. ASSUME NEW c \in Connection,
             \/ Dispatch(c) \/ ConnectFails(c) \/ Upgrade(c) \/ Join(c)
             \/ Submit(c) \/ ConnectionEnds(c) \/ Leave(c)
      PROVE  Following'
  BY <1>5, DispatchFollows, LinkFollows, JoinFollows, SubmitFollows, UnseatedFollows DEF Join
<1> QED
  BY <1>1, <1>4, <1>5, LocalFollows, ReplayFollows, OpponentFollows, UnseatedFollows DEF Next

\* The whole invariant always holds.
LEMMA FollowingAlways == Spec => [](Connected /\ Following)
<1>1. Init => Following
  BY DEF Init, Following, KnowsSeat, ShowsMatch, ShowsNoLostMatch, Seated
<1> QED
  BY <1>1, ConnectedInit, ConnectedStep, FollowingStep, PTL DEF Spec

\* A page that has read its events shows the state of its own match and knows
\* its seat, after any number of disconnections, reconnections, restarts of
\* the server and changes to the local game and back.
THEOREM MatchIsShown == Spec => []UpToDate
<1>1. Connected /\ Following => UpToDate
  <2>1. SUFFICES ASSUME Connected, Following, InRoom, room.phase \in {"playing", "suspended"}, ~replay.on
                 PROVE  loaded /\ (shown = State(room.id, room.game) \/ PutBack) /\ seat = room.me
    BY DEF UpToDate
  <2>2. Seated /\ conn[current].in = <<>> /\ \A i \in 1..Len(<<>>) : FALSE
    BY <2>1 DEF InRoom, AllRead, Seated
  <2>3. seat = room.me
    BY <2>1, <2>2 DEF Following, KnowsSeat
  <2>4. ~EndsIn(conn[current].in, State(room.id, room.game))
    BY <2>2 DEF EndsIn
  <2> QED
    BY <2>1, <2>2, <2>3, <2>4 DEF Following, ShowsMatch
<1> QED
  BY <1>1, FollowingAlways, PTL

\* A page that waits for an opponent does not show a lost match as one in
\* progress, whatever it had on the screen when it got its new room.
THEOREM NoLostMatchIsShown == Spec => []LostMatchIsNotShown
<1>1. Connected /\ Following => LostMatchIsNotShown
  <2>1. SUFFICES ASSUME Connected, Following, InRoom, room.phase = "waiting", ~replay.on
                 PROVE  ~loaded \/ shown.game.phase # "playing" \/ PutBack
    BY DEF LostMatchIsNotShown
  <2>2. Seated /\ conn[current].in = <<>> /\ \A i \in 1..Len(<<>>) : FALSE
    BY <2>1 DEF InRoom, AllRead, Seated
  <2> QED
    BY <2>1, <2>2 DEF Following, ShowsNoLostMatch
<1> QED
  BY <1>1, FollowingAlways, PTL
=============================================================================
