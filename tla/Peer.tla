-------------------------------- MODULE Peer --------------------------------
(***************************************************************************)
(* One websocket connection of server/main.go once it has joined a room:   *)
(* the loop of handleMatch that reads frames, forwardEvents, keepAlive and *)
(* writeLoop, four goroutines that share the queue of outgoing frames and  *)
(* the channel done, and the process that is told to stop under them.      *)
(*                                                                         *)
(* What a frame says is left out.  The time limits of keepAlive and of     *)
(* reading and writing may strike at any moment.  What commands do to the  *)
(* room is the matter of Match and Server; here the room sends events to   *)
(* the seat's channel and closes it.                                       *)
(***************************************************************************)
EXTENDS Naturals, Sequences, FiniteSets

CONSTANTS
    OutgoingSize,   \* capacity of wsPeer.outgoing (32)
    MaxEvents,      \* how many events the room sends
    MaxFrames,      \* how many frames the client sends
    MaxPings,       \* how many pings keepAlive sends
    MayStop         \* whether the process may be told to stop

ASSUME PeerAssumption ==
    /\ OutgoingSize \in Nat \ {0}
    /\ MaxEvents \in Nat /\ MaxFrames \in Nat /\ MaxPings \in Nat
    /\ MayStop \in BOOLEAN

\* The goroutines that put frames into the queue.
Sender == {"reader", "forwarder", "keeper"}

Goroutine == Sender \cup {"writer"}

VARIABLES
    pc,         \* where each goroutine is
    holds,      \* the frame each goroutine is about to queue or to write
    outgoing,   \* the queue of frames
    acked,      \* the goroutines whose ack has been closed
    closer,     \* who closed done and the connection, or "nobody"
    client,     \* "up", or "gone" when the network or the client has failed
    sent,       \* the events and close frames written to the connection
    events,     \* the events in the seat's channel
    seatOpen,   \* whether that channel is open
    delivered,  \* how many events the room has sent
    frames,     \* how many frames the client has sent
    pings,      \* how many pings keepAlive has sent
    process     \* "running", "stopping" or "exited"

peerVars == <<pc, holds, outgoing, acked, closer>>
roomVars == <<events, seatOpen, delivered>>
vars == <<peerVars, client, sent, roomVars, frames, pings, process>>

Done == closer # "nobody"

\* Frames: an event has its number, a close frame, which is flushed with an ack,
\* the goroutine that waits for it.  All others (pings, pongs, replies, the
\* message that a game could not be saved) are alike.
Frame(kind, by, n) == [kind |-> kind, by |-> by, n |-> n]
NoFrame == Frame("none", "nobody", 0)
Plain   == Frame("plain", "nobody", 0)

Init ==
    /\ pc = [g \in Goroutine |-> "idle"]
    /\ holds = [g \in Goroutine |-> NoFrame]
    /\ outgoing = <<>>
    /\ acked = {}
    /\ closer = "nobody"
    /\ client = "up"
    /\ sent = <<>>
    /\ events = <<>>
    /\ seatOpen = TRUE
    /\ delivered = 0
    /\ frames = 0
    /\ pings = 0
    /\ process = "running"

Goto(g, from, to) == pc[g] = from /\ pc' = [pc EXCEPT ![g] = to]

\* wsPeer.close, which does something only the first time.
Closes(g) == closer' = IF Done THEN closer ELSE g

-----------------------------------------------------------------------------
\* wsPeer.send and wsPeer.flush, which wait for room in the queue or for done.

WillSend(g, from, frame) ==
    /\ Goto(g, from, IF frame.kind = "close" THEN "flushing" ELSE "sending")
    /\ holds' = [holds EXCEPT ![g] = frame]

\* Where a goroutine goes on after a frame was queued, or was not.
AfterSend(g, queued) == IF queued \/ g = "reader" THEN "idle" ELSE "ended"
AfterFlush(g) == IF g = "reader" THEN "leaving" ELSE "closing"

Enqueue(g) ==
    /\ pc[g] \in {"sending", "flushing"}
    /\ Len(outgoing) < OutgoingSize
    /\ outgoing' = Append(outgoing, holds[g])
    /\ holds' = [holds EXCEPT ![g] = NoFrame]
    /\ pc' = [pc EXCEPT ![g] = IF @ = "sending" THEN AfterSend(g, TRUE) ELSE "awaiting"]
    /\ UNCHANGED <<acked, closer, client, sent, roomVars, frames, pings, process>>

\* done is closed before the frame found room.
GiveUp(g) ==
    /\ Done
    /\ pc[g] \in {"sending", "flushing"}
    /\ holds' = [holds EXCEPT ![g] = NoFrame]
    /\ pc' = [pc EXCEPT ![g] = IF @ = "sending" THEN AfterSend(g, FALSE) ELSE AfterFlush(g)]
    /\ UNCHANGED <<outgoing, acked, closer, client, sent, roomVars, frames, pings, process>>

\* Mutant: flush waits for its ack alone.
FlushedByAck(g) ==
    /\ Goto(g, "awaiting", AfterFlush(g))
    /\ g \in acked
    /\ UNCHANGED <<holds, outgoing, acked, closer, client, sent, roomVars, frames, pings, process>>

\* flush returns when the frame was written, or when done is closed.
Flushed(g) ==
    /\ Goto(g, "awaiting", AfterFlush(g))
    /\ g \in acked \/ Done
    /\ UNCHANGED <<holds, outgoing, acked, closer, client, sent, roomVars, frames, pings, process>>

\* shutdown closes the connection after the flush.
ShutDown(g) ==
    /\ Goto(g, "closing", "ended")
    /\ Closes(g)
    /\ UNCHANGED <<holds, outgoing, acked, client, sent, roomVars, frames, pings, process>>

\* forwardEvents and keepAlive return when done is closed.
Quit(g) ==
    /\ g \in {"forwarder", "keeper"}
    /\ Done
    /\ Goto(g, "idle", "ended") \/ Goto(g, "holding", "ended")
    /\ holds' = [holds EXCEPT ![g] = NoFrame]
    /\ UNCHANGED <<outgoing, acked, closer, client, sent, roomVars, frames, pings, process>>

-----------------------------------------------------------------------------
\* The loop of handleMatch.

\* A close frame is echoed and a malformed one answered with a close frame; a
\* ping is answered, and so is a command that is refused; a pong and an
\* accepted command are not.  Frames that have arrived are read also after the
\* connection has ended.
ReadFrame ==
    /\ pc["reader"] = "idle"
    /\ frames < MaxFrames
    /\ frames' = frames + 1
    /\ \/ WillSend("reader", "idle", Frame("close", "reader", 0))
       \/ WillSend("reader", "idle", Plain)
       \/ UNCHANGED <<pc, holds>>
    /\ UNCHANGED <<outgoing, acked, closer, client, sent, roomVars, pings, process>>

\* The connection is closed or lost; a client that sends nothing, not even a
\* pong, for too long counts as lost.
ReadFails ==
    /\ client = "gone" \/ Done
    /\ Goto("reader", "idle", "leaving")
    /\ UNCHANGED <<holds, outgoing, acked, closer, client, sent, roomVars, frames, pings, process>>

\* The deferred calls: Manager.Leave, which closes the channel of the seat,
\* then wsPeer.close.
LeaveRoom ==
    /\ Goto("reader", "leaving", "left")
    /\ seatOpen' = FALSE
    /\ UNCHANGED <<holds, outgoing, acked, closer, client, sent, events, delivered,
                   frames, pings, process>>

Return ==
    /\ Goto("reader", "left", "ended")
    /\ Closes("reader")
    /\ UNCHANGED <<holds, outgoing, acked, client, sent, roomVars, frames, pings, process>>

-----------------------------------------------------------------------------
\* forwardEvents and keepAlive.

\* An event is queued at once, or held until the record of the game is ready.
ForwardEvent ==
    /\ events # <<>>
    /\ Goto("forwarder", "idle", "sending") \/ Goto("forwarder", "idle", "holding")
    /\ holds' = [holds EXCEPT !["forwarder"] = Frame("event", "nobody", Head(events))]
    /\ events' = Tail(events)
    /\ UNCHANGED <<outgoing, acked, closer, client, sent, seatOpen, delivered, frames,
                   pings, process>>

\* Saving the game may have failed; the client is told so before the event.
RecordReady ==
    /\ Goto("forwarder", "holding", "sending") \/ Goto("forwarder", "holding", "warning")
    /\ UNCHANGED <<holds, outgoing, acked, closer, client, sent, roomVars, frames, pings, process>>

Warn ==
    /\ Goto("forwarder", "warning", "sending")
    /\ \/ /\ Len(outgoing) < OutgoingSize
          /\ outgoing' = Append(outgoing, Plain)
       \/ Done /\ UNCHANGED outgoing
    /\ UNCHANGED <<holds, acked, closer, client, sent, roomVars, frames, pings, process>>

\* Mutant: a closed channel is noticed before it is drained.
EventsEndEarly ==
    /\ ~seatOpen
    /\ WillSend("forwarder", "idle", Frame("close", "forwarder", 0))
    /\ UNCHANGED <<outgoing, acked, closer, client, sent, roomVars, frames, pings, process>>

\* The channel is closed and drained: the reason is flushed and the connection
\* closed.
EventsEnd ==
    /\ events = <<>> /\ ~seatOpen
    /\ WillSend("forwarder", "idle", Frame("close", "forwarder", 0))
    /\ UNCHANGED <<outgoing, acked, closer, client, sent, roomVars, frames, pings, process>>

Ping ==
    /\ pings < MaxPings
    /\ pings' = pings + 1
    /\ WillSend("keeper", "idle", Plain)
    /\ UNCHANGED <<outgoing, acked, closer, client, sent, roomVars, frames, process>>

\* The connection is too old, or nothing has happened for too long.
Expire ==
    /\ WillSend("keeper", "idle", Frame("close", "keeper", 0))
    /\ UNCHANGED <<outgoing, acked, closer, client, sent, roomVars, frames, pings, process>>

-----------------------------------------------------------------------------
\* writeLoop.

WriterQuits ==
    /\ Done
    /\ Goto("writer", "idle", "ended")
    /\ UNCHANGED <<holds, outgoing, acked, closer, client, sent, roomVars, frames, pings, process>>

Dequeue ==
    /\ outgoing # <<>>
    /\ Goto("writer", "idle", "writing")
    /\ holds' = [holds EXCEPT !["writer"] = Head(outgoing)]
    /\ outgoing' = Tail(outgoing)
    /\ UNCHANGED <<acked, closer, client, sent, roomVars, frames, pings, process>>

Ack(frame) == IF frame.kind = "close" THEN acked \cup {frame.by} ELSE acked

\* The network may take a frame that the client never sees.
Write ==
    /\ ~Done
    /\ Goto("writer", "writing", "idle")
    /\ sent' = IF holds["writer"] = Plain THEN sent ELSE Append(sent, holds["writer"])
    /\ acked' = Ack(holds["writer"])
    /\ holds' = [holds EXCEPT !["writer"] = NoFrame]
    /\ UNCHANGED <<outgoing, closer, client, roomVars, frames, pings, process>>

\* The connection is closed already, or the client does not take the frame in
\* time: whoever waits for the frame is released, then the connection closed.
WriteFails ==
    /\ Goto("writer", "writing", "failing")
    /\ client' = IF Done THEN client ELSE "gone"
    /\ acked' = Ack(holds["writer"])
    /\ holds' = [holds EXCEPT !["writer"] = NoFrame]
    /\ UNCHANGED <<outgoing, closer, sent, roomVars, frames, pings, process>>

WriterCloses ==
    /\ Goto("writer", "failing", "ended")
    /\ Closes("writer")
    /\ UNCHANGED <<holds, outgoing, acked, client, sent, roomVars, frames, pings, process>>

-----------------------------------------------------------------------------
\* The client, the room and the process.

ClientGoes ==
    /\ client = "up"
    /\ client' = "gone"
    /\ UNCHANGED <<peerVars, sent, roomVars, frames, pings, process>>

\* The channel has room for MaxEvents; what happens to an event that finds it
\* full is the matter of Match.
RoomSends ==
    /\ seatOpen
    /\ delivered < MaxEvents
    /\ delivered' = delivered + 1
    /\ events' = Append(events, delivered')
    /\ UNCHANGED <<peerVars, client, sent, seatOpen, frames, pings, process>>

\* The signal: Manager.Close sends a last event and closes the channel.
Stop ==
    /\ MayStop
    /\ process = "running"
    /\ process' = "stopping"
    /\ delivered' = IF seatOpen THEN delivered + 1 ELSE delivered
    /\ events' = IF seatOpen THEN Append(events, delivered + 1) ELSE events
    /\ seatOpen' = FALSE
    /\ UNCHANGED <<peerVars, client, sent, frames, pings>>

\* Shutdown makes ListenAndServe return at once and does not wait for
\* connections that were hijacked; main returns.
Exit ==
    /\ process = "stopping"
    /\ process' = "exited"
    /\ UNCHANGED <<peerVars, client, sent, roomVars, frames, pings>>

Send(g) == Enqueue(g) \/ GiveUp(g) \/ Flushed(g) \/ ShutDown(g) \/ Quit(g)

Reader    == ReadFails \/ LeaveRoom \/ Return
Forwarder == ForwardEvent \/ Warn \/ EventsEnd
Keeper    == Ping \/ Expire
Writer    == WriterQuits \/ Dequeue \/ Write \/ WriteFails \/ WriterCloses

Next ==
    /\ process # "exited"
    /\ \/ \E g \in Sender : Send(g)
       \/ ReadFrame \/ Reader \/ RecordReady \/ Forwarder \/ Keeper \/ Writer
       \/ ClientGoes \/ RoomSends \/ Stop \/ Exit

Spec == Init /\ [][Next]_vars

\* Every goroutine runs on.  Neither the client nor the timers of keepAlive
\* have to do anything, and a record need not become ready.
FairSpec ==
    /\ Spec
    /\ \A g \in Sender : WF_vars(process # "exited" /\ Send(g))
    /\ WF_vars(process # "exited" /\ Reader)
    /\ WF_vars(process # "exited" /\ Forwarder)
    /\ WF_vars(process # "exited" /\ Writer)

-----------------------------------------------------------------------------
\* Properties.

AnyFrame == [kind : {"none", "plain", "event", "close"},
             by   : Sender \cup {"nobody"},
             n    : 0..(MaxEvents + 1)]

TypeOK ==
    /\ pc \in [Goroutine -> {"idle", "sending", "holding", "warning", "flushing", "awaiting", "closing",
                             "leaving", "left", "writing", "failing", "ended"}]
    /\ holds \in [Goroutine -> AnyFrame]
    /\ outgoing \in Seq(AnyFrame) /\ Len(outgoing) <= OutgoingSize
    /\ acked \in SUBSET Sender
    /\ closer \in Goroutine \cup {"nobody"}
    /\ client \in {"up", "gone"}
    /\ sent \in Seq(AnyFrame)
    /\ events \in Seq(1..(MaxEvents + 1))
    /\ seatOpen \in BOOLEAN
    /\ delivered \in 0..(MaxEvents + 1)
    /\ frames \in 0..MaxFrames
    /\ pings \in 0..MaxPings
    /\ process \in {"running", "stopping", "exited"}

\* Where the events are among the first n frames sent.
EventsSent(n) == {i \in 1..n : sent[i].kind = "event"}

\* The client is sent the events of the room in order and without gaps, and
\* the close frame of forwardEvents, which says that the room is gone, comes
\* after all of them, whoever else writes to the connection meanwhile.  If
\* keepAlive or forwardEvents has closed a connection that was still good,
\* then the client was sent its close frame first.
EventsThenReason ==
    /\ \A i \in EventsSent(Len(sent)) : sent[i].n = Cardinality(EventsSent(i))
    /\ \A i \in 1..Len(sent) :
          sent[i].kind = "close" /\ sent[i].by = "forwarder"
              => Cardinality(EventsSent(i)) = delivered
    /\ client = "up" /\ closer \in {"forwarder", "keeper"} =>
          \E i \in 1..Len(sent) : sent[i].kind = "close" /\ sent[i].by = closer

\* Once a connection is lost or closed, by whomever and whatever every
\* goroutine was waiting for, all four end and the room has been left.
PeerEnds ==
    client = "gone" \/ Done ~>
        process = "exited" \/ (~seatOpen /\ \A g \in Goroutine : pc[g] = "ended")
=============================================================================
