------------------------------- MODULE Replay -------------------------------
(***************************************************************************)
(* Records of games, server/internal/replay: a finished game is written as *)
(* a source text that a harness in the language of the rules executes,     *)
(* verified by replaying it, and kept in the store, from which it is       *)
(* replayed for every reader.  The game is that of module Rules, played    *)
(* through the runner of module Protocol; the record of a room and the     *)
(* handlers are those of server/main.go.                                   *)
(*                                                                         *)
(* A source is a sequence of lines, a line a record with its kind; blank   *)
(* lines are left out.  A line that no pattern matches is "junk".          *)
(***************************************************************************)
EXTENDS Protocol

LOCAL INSTANCE FiniteSetsExt

\* How the process that executes a record may end, as for a request.
ScriptFate == {"answered", "timeout", "canceled", "failed", "garbled"}

CONSTANT ScriptFates   \* the ends considered

ASSUME ScriptFatesAssumption == ScriptFates \subseteq ScriptFate

VARIABLES
    moves,      \* roomRecord.moves: the accepted commands with their events
    saved,      \* "open", then the error of saveFinished or "saved"
    entries,    \* MemoryStore.entries: [record, source] of each game id
    order       \* MemoryStore.order

recordVars == <<moves, saved, entries, order>>
allVars    == <<vars, recordVars>>

RulesVersion == "1"
StartedAt    == "t1"
EndedAt      == "t2"

ValidGameId(id) == id \in {GameId, "h"}

-----------------------------------------------------------------------------
\* encode.go: the lines of a record.

HeaderLines(startedAt, endedAt) ==
    <<[kind |-> "comment", word |-> "title", at |-> ""]>>
    \o (IF startedAt = "" THEN <<>> ELSE <<[kind |-> "comment", word |-> "started", at |-> startedAt]>>)
    \o (IF endedAt = ""   THEN <<>> ELSE <<[kind |-> "comment", word |-> "ended",   at |-> endedAt]>>)

RulesVersionLine == [kind |-> "version", rules |-> RulesVersion]

StartLine(id, s) == [kind |-> "start", gameId |-> id, seed |-> s]

\* The note is the comment at the end of the line, which may be missing.
PlaceLine(player, p, color, changed) ==
    [kind |-> "place", player |-> player, cell |-> p, note |-> {<<color, changed>>}]

PassLine(player) == [kind |-> "pass", player |-> player]

EndLine(winner, count, board) ==
    LET value(p) == board[p]
    IN  [kind |-> "end", winner |-> winner,
         totals |-> <<count, MapThenSumSet(value, Pieces(board)), Cardinality(Pieces(board))>>]

\* The line of one move, from the move and its event.
MoveLine(type, player, at, event) ==
    IF type = "pass" THEN PassLine(player)
    ELSE PlaceLine(player, Deref(at), Deref(event.placedColor), Cardinality(event.changes))

-----------------------------------------------------------------------------
\* decode.go: Scan, the execution by the harness, and Decode.

\* The numbers of the lines of the given kinds, and the first of them or 0.
LinesOf(source, kinds) == {i \in DOMAIN source : source[i].kind \in kinds}

FirstLine(source, kind) ==
    LET at == LinesOf(source, {kind})
    IN  IF at = {} THEN 0 ELSE Least(at)

\* The numbers of the lines of the moves, in order.
MoveLines(source) ==
    LET at == LinesOf(source, {"place", "pass"})
    IN  [k \in 1..Cardinality(at) |-> CHOOSE i \in at : Cardinality({j \in at : j <= i}) = k]

\* The time on the first comment line with the given word.
TimeOf(source, word) ==
    LET at == {i \in LinesOf(source, {"comment"}) : source[i].word = word}
    IN  IF at = {} THEN "" ELSE source[Least(at)].at

\* What the harness does with a move: the functions of the rules for a move
\* and a pass, called directly and not by way of the evaluation of a request.
HarnessVerdict(st, line) ==
    IF line.kind = "place" THEN PlaceVerdict(st, line.cell) ELSE PassVerdict(st)

HarnessFrame(st, line) ==
    LET id == "replay"
    IN  IF line.kind = "place"
        THEN [state |-> ApplyPlace(st, line.cell), event |-> {Placed(st, id, line.cell)}]
        ELSE [state |-> ApplyPass(st), event |-> {Passed(st, id)}]

\* 対局データ出力: the frame of the new game and one for every move, up to the
\* first move that is rejected.
Extended(frames, line) ==
    LET st == frames[Len(frames)].state
    IN  IF HarnessVerdict(st, line) # "ok" THEN frames ELSE Append(frames, HarnessFrame(st, line))

Frames(source) ==
    LET lines == MoveLines(source)
        start == source[FirstLine(source, "start")]
        upTo[k \in 0..Len(lines)] ==
            IF k = 0 THEN <<[state |-> NewGame(start.seed), event |-> {}]>>
            ELSE Deref({IF Len(frames) < k THEN frames ELSE Extended(frames, source[lines[k]]) :
                        frames \in {upTo[k - 1]}})
    IN  upTo[Len(lines)]

Blame(code, line) == [code |-> code, line |-> line]
Accepted == Blame("ok", 0)

\* The checks that come before the execution.
ScanBlame(source) ==
    LET versionLine == FirstLine(source, "version")
    IN  FirstOf(<<<<FirstLine(source, "junk") # 0,
                    Blame("record_syntax_error", FirstLine(source, "junk"))>>,
                  <<Cardinality(LinesOf(source, {"start"})) # 1, Blame("record_missing_header", 0)>>,
                  <<Cardinality(LinesOf(source, {"end"})) > 1, Blame("record_syntax_error", 0)>>,
                  <<Cardinality(LinesOf(source, {"version"})) # 1,
                    Blame("record_missing_header", versionLine)>>>>,
                IF source[versionLine].rules # RulesVersion
                THEN Blame("record_unsupported_rules_version", versionLine)
                ELSE Accepted)

\* The checks of what the execution printed: a seed of more than 32 bits does
\* not fit the field it is read into.
ScriptBlame(source) ==
    LET startLine == FirstLine(source, "start")
    IN  FirstOf(<<<<source[startLine].seed >= LcgM, Blame("record_syntax_error", 0)>>,
                  <<~ValidGameId(source[startLine].gameId),
                    Blame("record_missing_header", startLine)>>>>, Accepted)

\* An output that cannot be read and an exit without a line count as faults of
\* the record; a deadline does not.
RunBlame(fate) ==
    Blame(IF fate \in {"failed", "garbled"} THEN "record_syntax_error" ELSE fate, 0)

Decode(source, fate) ==
    IF ScanBlame(source) # Accepted THEN ScanBlame(source)
    ELSE IF fate # "answered" THEN RunBlame(fate)
    ELSE ScriptBlame(source)

-----------------------------------------------------------------------------
\* replay.go

\* Mutant: the frames hold the states as they were read.
FrameStateRead(game) == GoState(game, "list")

\* The state of a frame is a copy.
FrameState(game) == Clone(GoState(game, "list"))

\* The first move whose note is not what replaying it gave.
NoteBlame(source, frames) ==
    LET lines == MoveLines(source)
        seen(k) == LET e == Deref(frames[k + 1].event)
                   IN  {<<Deref(e.placedColor), Cardinality(e.changes)>>}
        bad == {k \in DOMAIN lines : /\ source[lines[k]].kind = "place"
                                     /\ source[lines[k]].note \notin {{}, seen(k)}}
    IN  IF bad = {} THEN Accepted ELSE Blame("record_mismatch", lines[Least(bad)])

\* The end line and the end of the game go together and name one winner.
FinishBlame(source, final) ==
    IF LinesOf(source, {"end"}) = {} \/ final.phase # "finished"
    THEN Blame("record_unfinished", 0)
    ELSE IF final.winner # source[FirstLine(source, "end")].winner
    THEN Blame("record_mismatch", 0)
    ELSE Accepted

\* Mutant: the move that is blamed is counted from zero.
IllegalMoveBefore(source, frames) ==
    Blame("record_illegal_move", (<<0>> \o MoveLines(source))[Len(frames)])

\* The first move that was rejected is the one after the last frame.
IllegalMove(source, frames) ==
    Blame("record_illegal_move", MoveLines(source)[Len(frames)])

Last(frames) == frames[Len(frames)].state

\* ReplayWith, strict and of finished games only: the notes are verified move
\* by move, then the end.
FramesBlame(source, frames) ==
    IF Len(frames) <= Len(MoveLines(source)) THEN IllegalMove(source, frames)
    ELSE IF NoteBlame(source, frames) # Accepted THEN NoteBlame(source, frames)
    ELSE FinishBlame(source, Last(frames))

\* A Result: the record with its frames, and what is wrong with it.
Result(source, frames, blame) == [source |-> source, frames |-> frames, blame |-> blame]

\* Replayer.Replay
Replay(source, fate) ==
    LET decoded == Decode(source, fate)
    IN  IF decoded # Accepted THEN Result(source, <<>>, decoded)
        ELSE Deref({Result(source, frames, FramesBlame(source, frames)) :
                    frames \in {Frames(source)}})

\* Replayer.ReplayUntil: neither the notes nor the end are looked at, and the
\* frames are cut after the given move.
ReplayUntil(source, n) ==
    LET decoded == Decode(source, "answered")
        cut(frames) == IF n < Len(frames) THEN SubSeq(frames, 1, n + 1) ELSE frames
    IN  IF decoded # Accepted THEN Result(source, <<>>, decoded)
        ELSE Deref({IF Len(frames) <= Len(MoveLines(source))
                    THEN Result(source, frames, IllegalMove(source, frames))
                    ELSE Result(source, cut(frames), Accepted) : frames \in {Frames(source)}})

FinalState(result) == FrameState(Last(result.frames))

\* Move.Command: the turn of a move is not in the record.
CommandOf(line, turn) ==
    [commandId |-> "replay", player |-> line.player, type |-> line.kind, expectedTurn |-> turn,
     row |-> IF line.kind = "place" THEN {line.cell[1]} ELSE {},
     col |-> IF line.kind = "place" THEN {line.cell[2]} ELSE {}]

\* Result.Record: the commands are numbered by the turns of their frames.
Record(result) ==
    LET source == result.source
        lines  == MoveLines(source)
        start  == source[FirstLine(source, "start")]
    IN  [gameId     |-> start.gameId,
         seed       |-> start.seed,
         startedAt  |-> TimeOf(source, "started"),
         endedAt    |-> TimeOf(source, "ended"),
         winner     |-> source[FirstLine(source, "end")].winner,
         commands   |-> [k \in DOMAIN lines |->
                            CommandOf(source[lines[k]], result.frames[k + 1].state.turnNumber - 1)],
         finalState |-> FinalState(result)]

\* The moves of a result as lines, up to the given one.
ResultLines(result, n) ==
    LET line(c, frame) == MoveLine(c.type, c.player, c.row \X c.col, Deref(frame.event))
    IN  [k \in 1..n |-> line(Record(result).commands[k], result.frames[k + 1])]

\* Mutant: the last move, which ends the game, is not written.
EncodeResultShort(result) ==
    LET record == Record(result)
        final  == Last(result.frames)
    IN  HeaderLines(record.startedAt, record.endedAt)
        \o <<RulesVersionLine, StartLine(record.gameId, record.seed)>>
        \o ResultLines(result, Len(record.commands) - 1)
        \o <<EndLine(final.winner, Len(result.frames) - 1, final.board)>>

\* EncodeResult: the record written anew from what replaying it gave.
EncodeResult(result) ==
    LET record == Record(result)
        final  == Last(result.frames)
    IN  HeaderLines(record.startedAt, record.endedAt)
        \o <<RulesVersionLine, StartLine(record.gameId, record.seed)>>
        \o ResultLines(result, Len(record.commands))
        \o (IF final.phase = "finished"
            THEN <<EndLine(final.winner, Len(result.frames) - 1, final.board)>> ELSE <<>>)

-----------------------------------------------------------------------------
\* store.go, service.go and the handlers of main.go.

\* MemoryStore.Save: a game id keeps its place, and its last entry.
StoreSave(entry) ==
    /\ entries' = [id \in DOMAIN entries \cup {entry.record.gameId} |->
                      IF id = entry.record.gameId THEN entry ELSE entries[id]]
    /\ order' = IF entry.record.gameId \in DOMAIN entries THEN order
                ELSE Append(order, entry.record.gameId)

\* The source saveFinished writes from the room's own record.
FinishedSource(ms, final) ==
    LET line(c, event) == MoveLine(c.type, c.player, c.row \X c.col, event)
    IN  HeaderLines(StartedAt, EndedAt)
        \o <<RulesVersionLine, StartLine(GameId, seed)>>
        \o [k \in DOMAIN ms |-> line(ms[k].command, ms[k].event)]
        \o <<EndLine(final.winner, Len(ms), final.board)>>

\* saveFinished: the source is replayed, must end in the state the room holds
\* and is stored as it is written anew.
SaveFinished(ms, final, fate) ==
    \E source \in {FinishedSource(ms, final)} : \E result \in {Replay(source, fate)} :
        /\ saved' = IF result.blame # Accepted THEN result.blame.code
                    ELSE IF FinalState(result) # Held(final) THEN "differs" ELSE "saved"
        /\ IF saved' # "saved" THEN UNCHANGED <<entries, order>>
           ELSE \E entry \in {[record |-> Record(result), source |-> EncodeResult(result)]} :
                   StoreSave(entry)

\* submitCommand, for a room that is still open: an accepted command is
\* recorded with its event, and the end of the game saves it.
SubmitCommand(c, fate, scriptFate) ==
    /\ state.phase = "playing"
    /\ UNCHANGED seed
    /\ \E run \in {Runner(ApplyCommandRequest(Held(state), c), fate)} :
          \/ /\ \A r \in run.response : ~r.ok
             /\ UNCHANGED <<state, recordVars>>
          \/ \E r \in run.response :
                LET game == Deref(r.state).game
                    ms   == Append(moves, [command |-> c, event |-> Deref(r.event)])
                IN  /\ r.ok
                    /\ state' = game
                    /\ moves' = ms
                    /\ IF game.phase = "finished"
                       THEN SaveFinished(ms, game, scriptFate)
                       ELSE UNCHANGED <<saved, entries, order>>

\* MemoryStore.Get, as a pointer.
StoreGet(id) == {entries[i] : i \in DOMAIN entries \cap {id}}

\* handleReplay: the status of the reply.
HandleReplay(id, fate) ==
    IF ~ValidGameId(id) THEN 400
    ELSE IF StoreGet(id) = {} THEN 404
    ELSE IF Replay(Deref(StoreGet(id)).source, fate).blame # Accepted THEN 500
    ELSE 200

\* Service.SaveSource: the entry it would store for a source, if any.
SaveSource(source) ==
    LET entry(result) == [record |-> Record(result), source |-> source]
    IN  {entry(r) : r \in {x \in {Replay(source, "answered")} : x.blame = Accepted}}

-----------------------------------------------------------------------------
\* The commands two connected players may send; a move anywhere on the board
\* or a pass, by either side.
Played(st) ==
    {[commandId |-> "c", type |-> "place", player |-> x, expectedTurn |-> st.turnNumber,
      row |-> {p[1]}, col |-> {p[2]}] : x \in Side, p \in Cell}
    \cup {[SomeCommand(st) EXCEPT !.player = x] : x \in Side}

ReplayInit ==
    /\ Init
    /\ moves = <<>>
    /\ saved = "open"
    /\ entries = <<>>
    /\ order = <<>>

ReplayNext ==
    \E c \in Played(state), fate \in {"answered", "timeout"}, scriptFate \in ScriptFates :
        SubmitCommand(c, fate, scriptFate)

ReplaySpec == ReplayInit /\ [][ReplayNext]_allVars

-----------------------------------------------------------------------------
\* Damage to a source: one line lost, doubled, exchanged with the next or
\* replaced, or a pass put in.  "at" is the first line that may differ; damage
\* that leaves too few or too many lines of the record is "count".

Damage(kind, at, source) == [kind |-> kind, at |-> at, source |-> source]

Lost(src, i) ==
    Damage(IF src[i].kind = "comment" THEN "comment" ELSE "count", i,
           SubSeq(src, 1, i - 1) \o SubSeq(src, i + 1, Len(src)))
Doubled(src, i) ==
    Damage(IF src[i].kind = "comment" THEN "comment" ELSE "count", i,
           SubSeq(src, 1, i) \o SubSeq(src, i, Len(src)))
Swapped(src, i) == Damage("order", i, [src EXCEPT ![i] = src[i + 1], ![i + 1] = src[i]])
PassIn(src, i, x) ==
    Damage("pass", i, SubSeq(src, 1, i - 1) \o <<PassLine(x)>> \o SubSeq(src, i, Len(src)))

\* What a line may have been altered to.
Altered(l) ==
    {[kind |-> "junk"]} \cup
    CASE l.kind = "version" -> {[l EXCEPT !.rules = "2"]}
      [] l.kind = "start"   -> {[l EXCEPT !.gameId = id] : id \in {"h", "bad"}}
                               \cup {[l EXCEPT !.seed = s] : s \in Seeds \cup {LcgM}}
      [] l.kind = "place"   -> {[l EXCEPT !.player = Opponent(@)], [l EXCEPT !.note = {}]}
                               \cup {[l EXCEPT !.cell = p] : p \in Cell}
                               \cup {[l EXCEPT !.note = {<<m[1] + 1, m[2]>>}] : m \in l.note}
                               \cup {[l EXCEPT !.note = {<<m[1], m[2] + 1>>}] : m \in l.note}
      [] l.kind = "end"     -> {[l EXCEPT !.winner = Opponent(@)],
                                [l EXCEPT !.totals = <<0, 0, 0>>]}
      [] OTHER              -> {}

Damaged(src) ==
    {Lost(src, i) : i \in DOMAIN src}
    \cup {Doubled(src, i) : i \in DOMAIN src}
    \cup {Swapped(src, i) : i \in 1..(Len(src) - 1)}
    \cup {PassIn(src, i, x) : i \in 1..(Len(src) + 1), x \in Side}
    \cup UNION {{Damage("line", i, [src EXCEPT ![i] = l]) : l \in Altered(src[i])} :
                i \in DOMAIN src}

-----------------------------------------------------------------------------
\* Properties.

\* A game that came to its end is in the store and listed, unless the process
\* that executes its record failed: the record that the room made of the game
\* move by move, encoded, executed and replayed, gives the very state the room
\* holds, the empty list of moves as reflect.DeepEqual sees it included.
FinishedIsSaved ==
    /\ saved \in {"open", "saved"} \cup {RunBlame(f).code : f \in ScriptFates \ {"answered"}}
    /\ (state.phase = "finished") <=> (saved # "open")
    /\ (saved = "saved") <=> (order = <<GameId>>)
    /\ {order[i] : i \in DOMAIN order} = DOMAIN entries

\* Whatever is in the store is served: the stored source, which was written
\* after the check and never executed itself, replays without fault, to the
\* record stored with it and to the state the players saw, is a fixed point of
\* writing it anew, and replays frame by frame; another id is not found.
StoredReplays ==
    /\ HandleReplay("h", "answered") = 404
    /\ \A id \in DOMAIN entries :
          LET e == entries[id]
              result == Replay(e.source, "answered")
          IN  /\ HandleReplay(id, "answered") = 200
              /\ SaveSource(e.source) = {e}
              /\ e.record.winner = state.winner
              /\ e.record.finalState = Held(state)
              /\ Len(e.record.commands) = state.turnNumber
              /\ EncodeResult(result) = e.source
              /\ \A n \in 0..state.turnNumber :
                    ReplayUntil(e.source, n).frames = SubSeq(result.frames, 1, n + 1)

\* A record that lost a line other than a comment or has one twice is refused;
\* and the line that is blamed for a damaged record, always one if a move was
\* rejected, is never one before the damage.
DamageIsCaught ==
    \A id \in DOMAIN entries : \A d \in Damaged(entries[id].source) :
        \E blame \in {Replay(d.source, "answered").blame} :
            /\ d.kind = "count" => blame # Accepted
            /\ blame.line # 0 => blame.line >= d.at
            /\ blame.code = "record_illegal_move" => blame.line # 0

\* A record that is replayed goes as the evaluation of its commands one by one
\* on the command line would.
ReplayAgreesWithRules ==
    \A id \in DOMAIN entries : \A d \in Damaged(entries[id].source) :
        LET result   == Replay(d.source, "answered")
            frames   == result.frames
            commands == Record(result).commands
        IN  result.blame = Accepted => \A k \in DOMAIN commands :
                Evaluate(frames[k].state, AsCommand(commands[k])) = frames[k + 1].state
=============================================================================
