----------------------------- MODULE PeerProofs -----------------------------
(***************************************************************************)
(* A websocket connection for any size of the queue of outgoing frames and *)
(* any number of events, frames and pings: types, and that the client gets *)
(* the events in order and the reason for the end after them.              *)
(***************************************************************************)
EXTENDS Peer, FiniteSetTheorems, TLAPS

-----------------------------------------------------------------------------
\* The inductive invariant.

IsEvent(f)  == f.kind = "event"
IsClose(f)  == f.kind = "close"
IsReason(f) == f.kind = "close" /\ f.by = "forwarder"

\* A goroutine queues its own close frames, only forwardEvents queues events,
\* and the writer holds a frame only while it writes it.
FramesFit ==
    /\ \A g \in Sender : IsClose(holds[g]) => holds[g].by = g
    /\ \A g \in {"reader", "keeper"} : ~IsEvent(holds[g])
    /\ IsEvent(holds["forwarder"]) => pc["forwarder"] \in {"sending", "holding", "warning"}
    /\ \A i \in 1..Len(outgoing) : IsClose(outgoing[i]) => outgoing[i].by \in Sender
    /\ IsClose(holds["writer"]) => holds["writer"].by \in Sender
    /\ pc["writer"] # "writing" => holds["writer"] = NoFrame

\* The events that have entered and that have left the queue.
Held(g)  == IF IsEvent(holds[g]) THEN 1 ELSE 0
Written  == Cardinality(EventsSent(Len(sent)))
Dequeued == Written + Held("writer")
Queued   == delivered - Len(events) - Held("forwarder")

\* Until a write fails or done is closed, no event is lost on its way from the
\* room through forwardEvents, the queue and writeLoop.
Live == ~Done /\ pc["writer"] \in {"idle", "writing"}

ChannelInLine ==
    /\ \A i \in 1..Len(events) : events[i] = delivered - Len(events) + i
    /\ IsEvent(holds["forwarder"]) => holds["forwarder"].n = Queued + 1

QueueInLine ==
    /\ Dequeued <= Queued
    /\ \A i \in 1..Len(outgoing) : IsEvent(outgoing[i]) => outgoing[i].n \in Dequeued+1..Queued
    /\ \A n \in Dequeued+1..Queued :
          \E i \in 1..Len(outgoing) : IsEvent(outgoing[i]) /\ outgoing[i].n = n
    /\ \A i \in 1..Len(outgoing), j \in 1..Len(outgoing) :
          i < j /\ IsEvent(outgoing[i]) /\ IsEvent(outgoing[j]) => outgoing[i].n < outgoing[j].n

WriterInLine == IsEvent(holds["writer"]) => holds["writer"].n = Dequeued

InLine == Live => ChannelInLine /\ QueueInLine /\ WriterInLine

\* forwardEvents gives the reason when there is no event to come, and no event
\* is queued behind it.
ReasonGiven ==
    \/ IsReason(holds["forwarder"])
    \/ IsReason(holds["writer"])
    \/ \E i \in 1..Len(outgoing) : IsReason(outgoing[i])
    \/ \E i \in 1..Len(sent) : IsReason(sent[i])

ReasonIsLast ==
    /\ ReasonGiven => /\ ~seatOpen /\ events = <<>>
                      /\ pc["forwarder"] \notin {"idle", "sending", "holding", "warning"}
    /\ IsReason(holds["writer"]) => \A j \in 1..Len(outgoing) : ~IsEvent(outgoing[j])
    /\ \A i \in 1..Len(outgoing), j \in 1..Len(outgoing) :
          i < j /\ IsReason(outgoing[i]) => ~IsEvent(outgoing[j])

\* Whoever is about to close the connection has been told that its frame was
\* written, unless the connection is lost.
SentClose(g) == \E i \in 1..Len(sent) : sent[i].kind = "close" /\ sent[i].by = g

AcksAreTrue ==
    \A g \in Sender : g \in acked \/ pc[g] = "closing" =>
        Done \/ client = "gone" \/ SentClose(g)

\* Stop finds room for one more event.
RoomForLast == seatOpen => delivered <= MaxEvents

Inductive ==
    /\ TypeOK
    /\ RoomForLast
    /\ FramesFit
    /\ InLine
    /\ ReasonIsLast
    /\ AcksAreTrue
    /\ EventsThenReason
-----------------------------------------------------------------------------
\* Types.

Place == {"idle", "sending", "holding", "warning", "flushing", "awaiting", "closing",
          "leaving", "left", "writing", "failing", "ended"}

\* The types of what the goroutines share, and of the rest.
PeerTypes ==
    /\ pc \in [Goroutine -> Place]
    /\ holds \in [Goroutine -> AnyFrame]
    /\ outgoing \in Seq(AnyFrame) /\ Len(outgoing) <= OutgoingSize
    /\ acked \in SUBSET Sender
    /\ closer \in Goroutine \cup {"nobody"}

OtherTypes ==
    /\ client \in {"up", "gone"}
    /\ sent \in Seq(AnyFrame)
    /\ events \in Seq(1..(MaxEvents + 1))
    /\ seatOpen \in BOOLEAN
    /\ delivered \in 0..(MaxEvents + 1)
    /\ frames \in 0..MaxFrames
    /\ pings \in 0..MaxPings
    /\ process \in {"running", "stopping", "exited"}

\* TypeOK in two parts.
LEMMA TypesInParts == TypeOK <=> PeerTypes /\ OtherTypes
BY DEF TypeOK, PeerTypes, OtherTypes, Place

\* The frames that are queued have their type.
LEMMA FrameTypes ==
    /\ NoFrame \in AnyFrame /\ Plain \in AnyFrame
    /\ \A g \in Sender : Frame("close", g, 0) \in AnyFrame
    /\ \A n \in 1..(MaxEvents + 1) : Frame("event", "nobody", n) \in AnyFrame
BY PeerAssumption DEF NoFrame, Plain, Frame, AnyFrame, Sender

\* Steps of the goroutines among themselves leave the rest alone.
LEMMA OthersStay ==
    ASSUME OtherTypes, RoomForLast,
           UNCHANGED <<client, sent, roomVars, frames, pings, process>>
    PROVE  OtherTypes' /\ RoomForLast'
BY DEF OtherTypes, RoomForLast, roomVars

\* Every step keeps the types.
LEMMA TypesKept ==
    ASSUME Inductive, [Next]_vars
    PROVE  TypeOK' /\ RoomForLast'
<1>1. PeerTypes /\ OtherTypes /\ RoomForLast /\ FramesFit
    BY TypesInParts DEF Inductive
<1>2. SUFFICES PeerTypes' /\ OtherTypes' /\ RoomForLast'
    BY <1>2, TypesInParts DEF TypeOK, PeerTypes, OtherTypes, Place
<1> USE PeerAssumption
<1>3. CASE UNCHANGED vars
    BY <1>1, <1>3 DEF vars, peerVars, roomVars, PeerTypes, OtherTypes, RoomForLast
<1>4. ASSUME NEW g \in Sender, Enqueue(g) \/ GiveUp(g) \/ Flushed(g) \/ ShutDown(g) \/ Quit(g)
      PROVE  PeerTypes' /\ OtherTypes' /\ RoomForLast'
    <2>1. OtherTypes' /\ RoomForLast'
        <3>1. UNCHANGED <<client, sent, roomVars, frames, pings, process>>
            BY <1>4 DEF Enqueue, GiveUp, Flushed, ShutDown, Quit
        <3> QED BY <1>1, <3>1, OthersStay
    <2>2. g \in Goroutine
        BY DEF Goroutine
    <2>3. CASE Enqueue(g)
        BY <1>1, <2>1, <2>2, <2>3, FrameTypes DEF Enqueue, AfterSend, PeerTypes, Place
    <2>4. CASE GiveUp(g)
        BY <1>1, <2>1, <2>2, <2>4, FrameTypes DEF GiveUp, AfterSend, AfterFlush, PeerTypes, Place
    <2>5. CASE Flushed(g) \/ ShutDown(g)
        BY <1>1, <2>1, <2>2, <2>5 DEF Flushed, ShutDown, Goto, Closes, AfterFlush, PeerTypes, Place
    <2>6. CASE Quit(g)
        BY <1>1, <2>1, <2>2, <2>6, FrameTypes DEF Quit, Goto, PeerTypes, Place
    <2> QED BY <1>4, <2>1, <2>3, <2>4, <2>5, <2>6
<1>5. CASE ReadFrame \/ Ping \/ Expire \/ EventsEnd
    <2>1. OtherTypes' /\ RoomForLast'
        BY <1>1, <1>5 DEF ReadFrame, Ping, Expire, EventsEnd, roomVars, OtherTypes, RoomForLast
    <2>2. ASSUME NEW g \in Sender, NEW frame \in AnyFrame, WillSend(g, "idle", frame)
          PROVE  pc' \in [Goroutine -> Place] /\ holds' \in [Goroutine -> AnyFrame]
        BY <1>1, <2>2 DEF WillSend, Goto, PeerTypes, Place, Goroutine
    <2>3. pc' \in [Goroutine -> Place] /\ holds' \in [Goroutine -> AnyFrame]
        BY <1>1, <1>5, <2>2, FrameTypes DEF ReadFrame, Ping, Expire, EventsEnd, Sender, PeerTypes
    <2> QED BY <1>1, <1>5, <2>1, <2>3 DEF ReadFrame, Ping, Expire, EventsEnd, PeerTypes
<1>6. CASE ReadFails \/ LeaveRoom \/ Return \/ RecordReady
    <2>1. PeerTypes'
        BY <1>1, <1>6 DEF ReadFails, LeaveRoom, Return, RecordReady, Goto, Closes,
                          PeerTypes, Place, Goroutine, Sender
    <2>2. OtherTypes' /\ RoomForLast'
        <3>1. CASE ReadFails \/ Return \/ RecordReady
            BY <1>1, <3>1, OthersStay DEF ReadFails, Return, RecordReady
        <3>2. CASE LeaveRoom
            BY <1>1, <3>2 DEF LeaveRoom, OtherTypes, RoomForLast
        <3> QED BY <1>6, <3>1, <3>2
    <2> QED BY <2>1, <2>2
<1>7. CASE ForwardEvent
    <2>1. Head(events) \in 1..(MaxEvents + 1) /\ Tail(events) \in Seq(1..(MaxEvents + 1))
        BY <1>1, <1>7 DEF ForwardEvent, OtherTypes
    <2>2. Frame("event", "nobody", Head(events)) \in AnyFrame
        BY <2>1, FrameTypes
    <2>3. PeerTypes'
        BY <1>1, <1>7, <2>2 DEF ForwardEvent, Goto, PeerTypes, Place, Goroutine, Sender
    <2> QED BY <1>1, <1>7, <2>1, <2>3 DEF ForwardEvent, OtherTypes, RoomForLast
<1>8. CASE Warn
    <2>1. OtherTypes' /\ RoomForLast'
        BY <1>1, <1>8 DEF Warn, roomVars, OtherTypes, RoomForLast
    <2>2. pc' \in [Goroutine -> Place]
        BY <1>1, <1>8 DEF Warn, Goto, PeerTypes, Place, Goroutine, Sender
    <2>3. outgoing' \in Seq(AnyFrame) /\ Len(outgoing') <= OutgoingSize
        BY <1>1, <1>8, FrameTypes DEF Warn, PeerTypes
    <2> QED BY <1>1, <1>8, <2>1, <2>2, <2>3 DEF Warn, PeerTypes
<1>9. CASE WriterQuits \/ WriterCloses
    <2>1. PeerTypes'
        BY <1>1, <1>9 DEF WriterQuits, WriterCloses, Goto, Closes, PeerTypes, Place, Goroutine, Sender
    <2> QED BY <1>1, <1>9, <2>1, OthersStay DEF WriterQuits, WriterCloses
<1>10. CASE Dequeue
    <2>1. OtherTypes' /\ RoomForLast'
        BY <1>1, <1>10 DEF Dequeue, roomVars, OtherTypes, RoomForLast
    <2>2. Head(outgoing) \in AnyFrame /\ Tail(outgoing) \in Seq(AnyFrame)
          /\ Len(Tail(outgoing)) <= OutgoingSize
        <3> HIDE DEF AnyFrame
        <3>1. outgoing \in Seq(AnyFrame) /\ outgoing # <<>> /\ Len(outgoing) <= OutgoingSize
            BY <1>1, <1>10 DEF Dequeue, PeerTypes
        <3> QED BY <3>1
    <2> QED BY <1>1, <1>10, <2>1, <2>2 DEF Dequeue, Goto, PeerTypes, Place, Goroutine, Sender
<1>11. CASE Write \/ WriteFails
    <2>1. pc["writer"] = "writing" /\ holds["writer"] \in AnyFrame
        BY <1>1, <1>11 DEF Write, WriteFails, Goto, PeerTypes, Goroutine
    <2>2. Ack(holds["writer"]) \in SUBSET Sender
        BY <1>1, <2>1 DEF Ack, FramesFit, IsClose, PeerTypes
    <2>3. PeerTypes'
        BY <1>1, <1>11, <2>2, FrameTypes DEF Write, WriteFails, Goto, PeerTypes, Place, Goroutine, Sender
    <2>4. sent' \in Seq(AnyFrame)
        <3> DEFINE F == AnyFrame
        <3>1. sent \in Seq(F) /\ holds["writer"] \in F
            BY <1>1, <2>1 DEF OtherTypes
        <3> HIDE DEF F
        <3>2. Append(sent, holds["writer"]) \in Seq(F)
            BY <3>1
        <3>3. sent' \in Seq(F)
            BY <1>11, <3>1, <3>2 DEF Write, WriteFails
        <3> QED BY <3>3 DEF F
    <2> QED BY <1>1, <1>11, <2>3, <2>4 DEF Write, WriteFails, roomVars, OtherTypes, RoomForLast
<1>12. CASE ClientGoes \/ Exit
    BY <1>1, <1>12 DEF ClientGoes, Exit, peerVars, roomVars, PeerTypes, OtherTypes, RoomForLast
<1>13. CASE RoomSends \/ Stop
    <2>1. PeerTypes'
        BY <1>1, <1>13 DEF RoomSends, Stop, peerVars, PeerTypes
    <2>2. delivered' \in 0..(MaxEvents + 1) /\ (seatOpen => delivered + 1 \in 1..(MaxEvents + 1))
        BY <1>1, <1>13 DEF RoomSends, Stop, OtherTypes, RoomForLast
    <2>3. events' \in Seq(1..(MaxEvents + 1))
        <3> DEFINE E == 1..(MaxEvents + 1)
        <3>1. events \in Seq(E) /\ (seatOpen => delivered + 1 \in E)
            BY <1>1, <2>2 DEF OtherTypes
        <3> HIDE DEF E
        <3>2. events' = events \/ (seatOpen /\ events' = Append(events, delivered + 1))
            BY <1>1, <1>13 DEF RoomSends, Stop, OtherTypes
        <3>3. events' \in Seq(E)
            BY <3>1, <3>2
        <3> QED BY <3>3 DEF E
    <2>4. RoomForLast'
        BY <1>1, <1>13 DEF RoomSends, Stop, OtherTypes, RoomForLast
    <2> QED BY <1>1, <1>13, <2>1, <2>2, <2>3, <2>4 DEF RoomSends, Stop, OtherTypes
<1> QED BY <1>3, <1>4, <1>5, <1>6, <1>7, <1>8, <1>9, <1>10, <1>11, <1>12, <1>13
        DEF Next, Send, Reader, Forwarder, Keeper, Writer
-----------------------------------------------------------------------------
\* Who closes the connection.

\* A close frame that was written stays written.
LEMMA SentGrows ==
    ASSUME TypeOK, [Next]_vars
    PROVE  /\ sent' = sent \/ (Write /\ sent' = Append(sent, holds["writer"]))
           /\ \A g \in Sender : SentClose(g) => SentClose(g)'
<1>1. sent' = sent \/ (Write /\ sent' = Append(sent, holds["writer"]))
    BY DEF Next, Send, Reader, Forwarder, Keeper, Writer, vars, peerVars, roomVars,
           Enqueue, GiveUp, Flushed, ShutDown, Quit, ReadFrame, ReadFails, LeaveRoom, Return,
           RecordReady, ForwardEvent, Warn, EventsEnd, Ping, Expire, WriterQuits, Dequeue, Write,
           WriteFails, WriterCloses, ClientGoes, RoomSends, Stop, Exit
<1>2. \A i \in 1..Len(sent) : i \in 1..Len(sent') /\ sent'[i] = sent[i]
    <2> DEFINE F == AnyFrame
    <2>1. sent \in Seq(F) /\ holds["writer"] \in F
        BY DEF TypeOK, Goroutine
    <2> HIDE DEF F
    <2> QED BY <1>1, <2>1
<1> QED BY <1>1, <1>2 DEF SentClose

\* wsPeer.close takes effect once, and a lost client stays lost.
LEMMA EndsStay ==
    ASSUME TypeOK, [Next]_vars
    PROVE  /\ client = "gone" => client' = "gone"
           /\ Done => closer' = closer
           /\ closer' = closer \/ closer' \in {"reader", "writer"}
              \/ \E g \in Sender : ShutDown(g) /\ closer' = g
<1>1. client = "gone" => client' = "gone"
    BY DEF TypeOK, Next, Send, Reader, Forwarder, Keeper, Writer, vars, peerVars, roomVars,
           Enqueue, GiveUp, Flushed, ShutDown, Quit, ReadFrame, ReadFails, LeaveRoom, Return,
           RecordReady, ForwardEvent, Warn, EventsEnd, Ping, Expire, WriterQuits, Dequeue, Write,
           WriteFails, WriterCloses, ClientGoes, RoomSends, Stop, Exit
<1>2. \/ closer' = closer
      \/ ~Done /\ closer' \in {"reader", "writer"}
      \/ ~Done /\ \E g \in Sender : ShutDown(g) /\ closer' = g
    BY DEF Next, Send, Reader, Forwarder, Keeper, Writer, vars, peerVars, roomVars, Closes,
           Enqueue, GiveUp, Flushed, ShutDown, Quit, ReadFrame, ReadFails, LeaveRoom, Return,
           RecordReady, ForwardEvent, Warn, EventsEnd, Ping, Expire, WriterQuits, Dequeue, Write,
           WriteFails, WriterCloses, ClientGoes, RoomSends, Stop, Exit
<1> QED BY <1>1, <1>2

\* flush is answered when the frame was written, or could not be.
LEMMA AckedAfter ==
    ASSUME TypeOK, FramesFit, [Next]_vars, NEW g \in acked' \ acked
    PROVE  g \in Sender /\ (Done \/ client' = "gone" \/ SentClose(g)')
<1>1. Write \/ WriteFails
    BY DEF Next, Send, Reader, Forwarder, Keeper, Writer, vars, peerVars, roomVars,
           Enqueue, GiveUp, Flushed, ShutDown, Quit, ReadFrame, ReadFails, LeaveRoom, Return,
           RecordReady, ForwardEvent, Warn, EventsEnd, Ping, Expire, WriterQuits, Dequeue,
           WriterCloses, ClientGoes, RoomSends, Stop, Exit
<1>2. /\ holds["writer"].kind = "close" /\ g = holds["writer"].by /\ g \in Sender
    BY <1>1 DEF Write, WriteFails, Ack, FramesFit, IsClose
<1>3. CASE WriteFails
    BY <1>2, <1>3 DEF WriteFails
<1>4. CASE Write
    <2>1. holds["writer"] # Plain
        BY <1>2 DEF Plain, Frame
    <2>2. sent' = Append(sent, holds["writer"])
        BY <1>4, <2>1 DEF Write
    <2> DEFINE F == AnyFrame
    <2>3. sent \in Seq(F) /\ holds["writer"] \in F
        BY DEF TypeOK, Goroutine
    <2> HIDE DEF F
    <2>4. Len(sent) + 1 \in 1..Len(sent') /\ sent'[Len(sent) + 1] = holds["writer"]
        BY <2>2, <2>3
    <2> QED BY <1>2, <2>4 DEF SentClose
<1> QED BY <1>1, <1>3, <1>4

\* A goroutine comes to close the connection after the flush.
LEMMA ClosingAfter ==
    ASSUME TypeOK, [Next]_vars, NEW g \in Sender, pc'[g] = "closing"
    PROVE  pc[g] = "closing" \/ g \in acked \/ Done
BY DEF TypeOK, Goroutine, Sender, Next, Send, Reader, Forwarder, Keeper, Writer, vars, peerVars, roomVars,
       Goto, WillSend, AfterSend, AfterFlush,
       Enqueue, GiveUp, Flushed, ShutDown, Quit, ReadFrame, ReadFails, LeaveRoom, Return,
       RecordReady, ForwardEvent, Warn, EventsEnd, Ping, Expire, WriterQuits, Dequeue, Write,
       WriteFails, WriterCloses, ClientGoes, RoomSends, Stop, Exit

\* The last part of EventsThenReason.
ClosedAfterReason == client = "up" /\ closer \in {"forwarder", "keeper"} => SentClose(closer)

\* Every step keeps the acks true, and closes only after the reason.
LEMMA AcksKept ==
    ASSUME Inductive, [Next]_vars, TypeOK'
    PROVE  AcksAreTrue' /\ ClosedAfterReason'
<1>1. TypeOK /\ FramesFit /\ AcksAreTrue /\ ClosedAfterReason
    BY DEF Inductive, EventsThenReason, ClosedAfterReason, SentClose
<1>2. /\ client = "gone" => client' = "gone"
      /\ Done => closer' = closer /\ Done'
    BY <1>1, EndsStay DEF Done
<1>3. AcksAreTrue'
    <2> SUFFICES ASSUME NEW g \in Sender, g \in acked' \/ pc'[g] = "closing"
                 PROVE  Done' \/ client' = "gone" \/ SentClose(g)'
        BY DEF AcksAreTrue
    <2>1. CASE g \in acked' \ acked
        BY <1>1, <1>2, <2>1, AckedAfter
    <2>2. CASE g \in acked \/ pc'[g] = "closing"
        <3>1. Done \/ client = "gone" \/ SentClose(g)
            BY <1>1, <2>2, ClosingAfter DEF AcksAreTrue
        <3> QED BY <1>1, <1>2, <3>1, SentGrows
    <2> QED BY <2>1, <2>2
<1>4. ClosedAfterReason'
    <2> SUFFICES ASSUME client' = "up", NEW g \in {"forwarder", "keeper"}, closer' = g
                 PROVE  SentClose(g)'
        BY DEF ClosedAfterReason, SentClose
    <2>1. client = "up" /\ g \in Sender
        BY <1>1, <1>2 DEF TypeOK, Sender
    <2>2. CASE closer = g
        BY <1>1, <2>1, <2>2, SentGrows DEF ClosedAfterReason
    <2>3. CASE ~Done /\ ShutDown(g)
        <3>1. pc[g] = "closing"
            BY <2>3 DEF ShutDown, Goto
        <3>2. SentClose(g)
            BY <1>1, <2>1, <2>3, <3>1 DEF AcksAreTrue
        <3> QED BY <1>1, <2>1, <3>2, SentGrows
    <2> QED BY <1>1, <1>2, <2>2, <2>3, EndsStay
<1> QED BY <1>3, <1>4

-----------------------------------------------------------------------------
\* Which frames a goroutine holds.

\* Every step keeps the frames where they belong.
LEMMA FitKept ==
    ASSUME Inductive, [Next]_vars, TypeOK'
    PROVE  FramesFit'
<1>1. /\ FramesFit /\ PeerTypes /\ PeerTypes'
      /\ \A g \in Sender : g \in Goroutine /\ g # "writer"
    BY TypesInParts DEF Inductive, Goroutine, Sender, TypeOK, PeerTypes, Place
<1> DEFINE F == AnyFrame
<1>2. outgoing \in Seq(F) /\ outgoing' \in Seq(F) /\ holds \in [Goroutine -> F]
    BY <1>1 DEF PeerTypes
<1> HIDE DEF F
<1> DEFINE QueueFits == \A i \in 1..Len(outgoing) : IsClose(outgoing[i]) => outgoing[i].by \in Sender
           SendersFit == /\ \A g \in Sender : IsClose(holds[g]) => holds[g].by = g
                         /\ \A g \in {"reader", "keeper"} : ~IsEvent(holds[g])
                         /\ IsEvent(holds["forwarder"]) => pc["forwarder"] \in {"sending", "holding", "warning"}
           WriterFits == /\ IsClose(holds["writer"]) => holds["writer"].by \in Sender
                         /\ pc["writer"] # "writing" => holds["writer"] = NoFrame
<1>3. SUFFICES SendersFit' /\ QueueFits' /\ WriterFits'
    BY <1>3 DEF FramesFit
<1>4. SendersFit /\ QueueFits /\ WriterFits
    BY <1>1 DEF FramesFit
<1>5. ~IsEvent(NoFrame) /\ ~IsClose(NoFrame) /\ ~IsEvent(Plain) /\ ~IsClose(Plain)
    BY DEF IsEvent, IsClose, NoFrame, Plain, Frame
<1>6. QueueFits'
    <2>1. \/ outgoing' = outgoing
          \/ \E g \in Sender : outgoing' = Append(outgoing, holds[g])
          \/ outgoing' = Append(outgoing, Plain)
          \/ outgoing # <<>> /\ outgoing' = Tail(outgoing)
        BY DEF Next, Send, Reader, Forwarder, Keeper, Writer, vars, peerVars, roomVars,
               Enqueue, GiveUp, Flushed, ShutDown, Quit, ReadFrame, ReadFails, LeaveRoom, Return,
               RecordReady, ForwardEvent, Warn, EventsEnd, Ping, Expire, WriterQuits, Dequeue, Write,
               WriteFails, WriterCloses, ClientGoes, RoomSends, Stop, Exit
    <2> SUFFICES ASSUME NEW i \in 1..Len(outgoing'), IsClose(outgoing'[i])
                 PROVE  outgoing'[i].by \in Sender
        OBVIOUS
    <2>2. CASE outgoing' = outgoing
        BY <1>4, <2>2
    <2>3. ASSUME NEW f \in F, IsClose(f) => f.by \in Sender, outgoing' = Append(outgoing, f)
          PROVE  outgoing'[i].by \in Sender
        <3>1. IF i = Len(outgoing) + 1 THEN outgoing'[i] = f
                                       ELSE i \in 1..Len(outgoing) /\ outgoing'[i] = outgoing[i]
            BY <1>2, <2>3
        <3> QED BY <1>4, <2>3, <3>1
    <2>4. ASSUME outgoing # <<>>, outgoing' = Tail(outgoing)
          PROVE  outgoing'[i].by \in Sender
        <3>1. i + 1 \in 1..Len(outgoing) /\ outgoing'[i] = outgoing[i + 1]
            BY <1>2, <2>4
        <3> QED BY <1>4, <3>1
    <2>5. ASSUME NEW g \in Sender, outgoing' = Append(outgoing, holds[g])
          PROVE  outgoing'[i].by \in Sender
        <3>1. holds[g] \in F /\ (IsClose(holds[g]) => holds[g].by \in Sender)
            BY <1>1, <1>2, <1>4
        <3> QED BY <2>3, <2>5, <3>1
    <2>6. Plain \in F
        BY FrameTypes DEF F
    <2> QED BY <1>5, <2>1, <2>2, <2>3, <2>4, <2>5, <2>6
<1>7. WriterFits'
    <2>1. CASE Dequeue
        <3>1. 1 \in 1..Len(outgoing) /\ Head(outgoing) = outgoing[1]
            BY <1>2, <2>1 DEF Dequeue
        <3>2. holds'["writer"] = outgoing[1] /\ pc'["writer"] = "writing"
            BY <1>1, <2>1, <3>1 DEF Dequeue, Goto, PeerTypes, Goroutine
        <3> QED BY <1>4, <3>1, <3>2
    <2>2. CASE Write \/ WriteFails
        <3>1. holds'["writer"] = NoFrame
            BY <1>1, <2>2 DEF Write, WriteFails, PeerTypes, Goroutine
        <3> QED BY <1>5, <3>1
    <2>3. CASE WriterQuits \/ WriterCloses
        BY <1>1, <1>4, <2>3 DEF WriterQuits, WriterCloses, Goto, PeerTypes, Goroutine
    <2>4. CASE ~(Dequeue \/ Write \/ WriteFails \/ WriterQuits \/ WriterCloses)
        <3>1. holds'["writer"] = holds["writer"] /\ pc'["writer"] = pc["writer"]
            BY <1>1, <2>4 DEF PeerTypes, Goroutine, Goto, WillSend, Sender,
               Next, Send, Reader, Forwarder, Keeper, Writer, vars, peerVars, roomVars,
               Enqueue, GiveUp, Flushed, ShutDown, Quit, ReadFrame, ReadFails, LeaveRoom, Return,
               RecordReady, ForwardEvent, Warn, EventsEnd, Ping, Expire, ClientGoes, RoomSends, Stop, Exit
        <3> QED BY <1>4, <3>1
    <2> QED BY <2>1, <2>2, <2>3, <2>4
<1>8. SendersFit'
    <2> SUFFICES ASSUME NEW g \in Sender
                 PROVE  /\ IsClose(holds'[g]) => holds'[g].by = g
                        /\ IsEvent(holds'[g]) => /\ g = "forwarder"
                                                 /\ pc'["forwarder"] \in {"sending", "holding", "warning"}
        BY DEF Sender
    <2>1. /\ IsClose(holds[g]) => holds[g].by = g
          /\ IsEvent(holds[g]) => /\ g = "forwarder"
                                  /\ pc["forwarder"] \in {"sending", "holding", "warning"}
        BY <1>4 DEF Sender
    <2>2. CASE holds'[g] = NoFrame
        BY <1>5, <2>2
    <2>3. ASSUME NEW h \in Sender, NEW frame, WillSend(h, "idle", frame),
                 IsClose(frame) => frame.by = h, ~IsEvent(frame)
          PROVE  /\ IsClose(holds'[g]) => holds'[g].by = g
                 /\ IsEvent(holds'[g]) => /\ g = "forwarder"
                                          /\ pc'["forwarder"] \in {"sending", "holding", "warning"}
        <3>1. CASE g = h
            BY <1>1, <2>3, <3>1 DEF WillSend, PeerTypes
        <3>2. CASE g # h
            BY <1>1, <2>1, <2>3, <3>2 DEF WillSend, Goto, PeerTypes, Sender
        <3> QED BY <3>1, <3>2
    <2>4. \A h \in Sender : /\ IsClose(Frame("close", h, 0)) => Frame("close", h, 0).by = h
                            /\ ~IsEvent(Frame("close", h, 0))
        BY DEF Frame, IsEvent
    <2>5. CASE ReadFrame \/ Ping \/ Expire \/ EventsEnd
        BY <1>5, <2>1, <2>3, <2>4, <2>5 DEF ReadFrame, Ping, Expire, EventsEnd, Sender
    <2>6. CASE ForwardEvent
        <3>1. ~IsClose(Frame("event", "nobody", Head(events)))
            BY DEF Frame, IsClose
        <3> QED BY <1>1, <2>1, <2>6, <3>1 DEF ForwardEvent, Goto, PeerTypes, Sender
    <2>7. CASE Warn \/ RecordReady
        BY <1>1, <2>1, <2>7 DEF Warn, RecordReady, Goto, PeerTypes
    <2>8. ASSUME NEW h \in Sender, Enqueue(h) \/ GiveUp(h) \/ Quit(h)
          PROVE  /\ IsClose(holds'[g]) => holds'[g].by = g
                 /\ IsEvent(holds'[g]) => /\ g = "forwarder"
                                          /\ pc'["forwarder"] \in {"sending", "holding", "warning"}
        <3>1. CASE g = h
            BY <1>1, <1>5, <2>8, <3>1 DEF Enqueue, GiveUp, Quit, PeerTypes
        <3>2. CASE g # h
            BY <1>1, <2>1, <2>8, <3>2 DEF Enqueue, GiveUp, Quit, Goto, PeerTypes
        <3> QED BY <3>1, <3>2
    <2>9. ASSUME NEW h \in Sender, Flushed(h) \/ ShutDown(h)
          PROVE  /\ IsClose(holds'[g]) => holds'[g].by = g
                 /\ IsEvent(holds'[g]) => /\ g = "forwarder"
                                          /\ pc'["forwarder"] \in {"sending", "holding", "warning"}
        BY <1>1, <2>1, <2>9 DEF Flushed, ShutDown, Goto, PeerTypes
    <2>10. CASE \/ ReadFails \/ LeaveRoom \/ Return \/ WriterQuits \/ Dequeue \/ Write \/ WriteFails
                \/ WriterCloses
        BY <1>1, <2>1, <2>10 DEF ReadFails, LeaveRoom, Return, WriterQuits, Dequeue, Write, WriteFails,
                                 WriterCloses, Goto, PeerTypes
    <2>11. CASE ClientGoes \/ RoomSends \/ Stop \/ Exit \/ UNCHANGED vars
        BY <2>1, <2>11 DEF ClientGoes, RoomSends, Stop, Exit, vars, peerVars
    <2> QED BY <2>5, <2>6, <2>7, <2>8, <2>9, <2>10, <2>11 DEF Next, Send, Reader, Forwarder, Keeper, Writer
<1> QED BY <1>6, <1>7, <1>8

-----------------------------------------------------------------------------
\* The way of the events.

\* The first parts of EventsThenReason.
EventsNumbered == \A i \in EventsSent(Len(sent)) : sent[i].n = Cardinality(EventsSent(i))
ReasonNumbered == \A i \in 1..Len(sent) : IsReason(sent[i]) => Cardinality(EventsSent(i)) = delivered

Passing == InLine /\ ReasonIsLast /\ EventsNumbered /\ ReasonNumbered

\* What the invariant says of the events, by name.
LEMMA PassingIsInductive ==
    /\ Inductive => Passing
    /\ EventsThenReason <=> EventsNumbered /\ ReasonNumbered /\ ClosedAfterReason
BY DEF Inductive, EventsThenReason, Passing, EventsNumbered, ReasonNumbered, ClosedAfterReason,
       SentClose, IsReason

\* The events among the frames sent can be counted.
LEMMA SentIsFinite ==
    ASSUME NEW n \in Nat
    PROVE  IsFiniteSet(EventsSent(n)) /\ Cardinality(EventsSent(n)) \in Nat
<1>1. EventsSent(n) \subseteq 1..n
    BY DEF EventsSent
<1>2. IsFiniteSet(1..n)
    BY FS_Interval
<1> QED BY <1>1, <1>2, FS_Subset, FS_CardinalityType

\* The counts are numbers.
LEMMA Numbers ==
    ASSUME TypeOK
    PROVE  /\ Written \in Nat /\ Dequeued \in Nat /\ Queued \in Int
           /\ Len(events) \in Nat /\ delivered \in Nat /\ Len(outgoing) \in Nat /\ Len(sent) \in Nat
           /\ Held("writer") \in Nat /\ Held("forwarder") \in Nat
<1>1. Len(events) \in Nat /\ delivered \in Nat /\ Len(outgoing) \in Nat /\ Len(sent) \in Nat
    BY DEF TypeOK
<1>2. Held("writer") \in Nat /\ Held("forwarder") \in Nat
    BY DEF Held
<1>3. Written \in Nat
    BY <1>1, SentIsFinite DEF Written
<1> QED BY <1>1, <1>2, <1>3 DEF Dequeued, Queued

\* An event that was lost stays the end of the way.
LEMMA LiveBefore ==
    ASSUME TypeOK, [Next]_vars, Live'
    PROVE  Live
<1>1. ~Done
    BY EndsStay DEF Live, Done
<1>2. pc'["writer"] \in {"idle", "writing"} => pc["writer"] \in {"idle", "writing"}
    BY DEF TypeOK, Goroutine, Sender, Next, Send, Reader, Forwarder, Keeper, Writer, vars, peerVars,
       roomVars, Goto, WillSend,
       Enqueue, GiveUp, Flushed, ShutDown, Quit, ReadFrame, ReadFails, LeaveRoom, Return,
       RecordReady, ForwardEvent, Warn, EventsEnd, Ping, Expire, WriterQuits, Dequeue, Write,
       WriteFails, WriterCloses, ClientGoes, RoomSends, Stop, Exit
<1> QED BY <1>1, <1>2 DEF Live

\* Where forwardEvents has not given its reason.
Forwarding == {"idle", "sending", "holding", "warning"}

\* No reason is given while there may be events to come.
LEMMA ReasonComesLater ==
    ASSUME Inductive, pc["forwarder"] \in Forwarding \/ seatOpen
    PROVE  ~ReasonGiven
BY DEF Inductive, ReasonIsLast, Forwarding

\* A step by which no frame passes.
LEMMA StillPasses ==
    ASSUME Inductive, [Next]_vars, TypeOK',
           UNCHANGED <<outgoing, sent, events, delivered>>,
           holds'["forwarder"] = holds["forwarder"], holds'["writer"] = holds["writer"],
           seatOpen' => seatOpen, pc'["forwarder"] \in Forwarding => pc["forwarder"] \in Forwarding
    PROVE  Passing'
<1>1. Inductive /\ TypeOK /\ Passing
    BY PassingIsInductive DEF Inductive
<1>2. Written' = Written /\ Dequeued' = Dequeued /\ Queued' = Queued
    BY DEF Written, Dequeued, Queued, Held, EventsSent
<1>3. InLine'
    <2> SUFFICES ASSUME Live' PROVE ChannelInLine' /\ QueueInLine' /\ WriterInLine'
        BY DEF InLine
    <2>1. ChannelInLine /\ QueueInLine /\ WriterInLine
        BY <1>1, LiveBefore DEF Passing, InLine
    <2> QED BY <1>2, <2>1 DEF ChannelInLine, QueueInLine, WriterInLine
<1>4. ReasonIsLast'
    BY <1>1 DEF Passing, ReasonIsLast, ReasonGiven, Forwarding
<1>5. EventsNumbered' /\ ReasonNumbered'
    BY <1>1 DEF Passing, EventsNumbered, ReasonNumbered, EventsSent
<1> QED BY <1>3, <1>4, <1>5 DEF Passing

\* done is closed, and forwardEvents drops what it has.
LEMMA DroppedPasses ==
    ASSUME Inductive, [Next]_vars, TypeOK', Done,
           UNCHANGED <<outgoing, sent, events, delivered, seatOpen>>,
           holds'["forwarder"] = NoFrame, holds'["writer"] = holds["writer"],
           pc'["forwarder"] \notin Forwarding
    PROVE  Passing'
<1>1. TypeOK /\ Passing
    BY PassingIsInductive DEF Inductive
<1>2. InLine'
    BY <1>1, EndsStay DEF InLine, Live, Done
<1>3. ~IsReason(NoFrame)
    BY DEF IsReason, NoFrame, Frame
<1>4. ReasonIsLast'
    BY <1>1, <1>3 DEF Passing, ReasonIsLast, ReasonGiven, Forwarding
<1>5. EventsNumbered' /\ ReasonNumbered'
    BY <1>1 DEF Passing, EventsNumbered, ReasonNumbered, EventsSent
<1> QED BY <1>2, <1>4, <1>5 DEF Passing

\* A frame enters the queue: what is where afterwards.
LEMMA Queueing ==
    ASSUME TypeOK, NEW f \in AnyFrame, outgoing' = Append(outgoing, f)
    PROVE  /\ Len(outgoing') = Len(outgoing) + 1
           /\ outgoing'[Len(outgoing) + 1] = f
           /\ \A i \in 1..Len(outgoing) : outgoing'[i] = outgoing[i]
           /\ \A i \in 1..Len(outgoing') : i \in 1..Len(outgoing) \/ i = Len(outgoing) + 1
<1> DEFINE F == AnyFrame
<1>1. outgoing \in Seq(F) /\ f \in F
    BY DEF TypeOK
<1> HIDE DEF F
<1> QED BY <1>1

\* A frame that is no event enters the queue.
LEMMA PlainQueued ==
    ASSUME Inductive, [Next]_vars, TypeOK', UNCHANGED <<sent, events, delivered, seatOpen>>,
           holds'["writer"] = holds["writer"],
           holds'["forwarder"] \in {holds["forwarder"], NoFrame},
           IsEvent(holds["forwarder"]) => holds'["forwarder"] = holds["forwarder"],
           NEW f \in AnyFrame, outgoing' = Append(outgoing, f),
           ~IsEvent(f), IsReason(f) => IsReason(holds["forwarder"]),
           pc'["forwarder"] \in Forwarding => pc["forwarder"] \in Forwarding
    PROVE  Passing'
<1>1. TypeOK /\ Passing
    BY PassingIsInductive DEF Inductive
<1>2. ~IsReason(NoFrame) /\ ~IsEvent(NoFrame)
    BY DEF IsReason, IsEvent, NoFrame, Frame
<1>3. Written' = Written /\ Dequeued' = Dequeued /\ Queued' = Queued
    BY <1>2 DEF Written, Dequeued, Queued, Held, EventsSent
<1>4. InLine'
    <2> SUFFICES ASSUME Live' PROVE ChannelInLine' /\ QueueInLine' /\ WriterInLine'
        BY DEF InLine
    <2>1. ChannelInLine /\ QueueInLine /\ WriterInLine
        BY <1>1, LiveBefore DEF Passing, InLine
    <2>2. QueueInLine'
        <3>1. Dequeued' <= Queued'
            BY <1>3, <2>1 DEF QueueInLine
        <3>2. ASSUME NEW i \in 1..Len(outgoing'), IsEvent(outgoing'[i])
              PROVE  i \in 1..Len(outgoing) /\ outgoing'[i] = outgoing[i]
            BY <1>1, <3>2, Queueing
        <3>3. \A i \in 1..Len(outgoing) : i \in 1..Len(outgoing') /\ outgoing'[i] = outgoing[i]
            BY <1>1, Queueing, Numbers
        <3>4. \A n \in Dequeued'+1..Queued' :
                 \E i \in 1..Len(outgoing') : IsEvent(outgoing'[i]) /\ outgoing'[i].n = n
            BY <1>3, <2>1, <3>3 DEF QueueInLine
        <3>5. \A i \in 1..Len(outgoing') : IsEvent(outgoing'[i]) => outgoing'[i].n \in Dequeued'+1..Queued'
            BY <1>3, <2>1, <3>2 DEF QueueInLine
        <3>6. \A i \in 1..Len(outgoing'), j \in 1..Len(outgoing') :
                 i < j /\ IsEvent(outgoing'[i]) /\ IsEvent(outgoing'[j]) => outgoing'[i].n < outgoing'[j].n
            BY <2>1, <3>2 DEF QueueInLine
        <3> QED BY <3>1, <3>4, <3>5, <3>6 DEF QueueInLine
    <2> QED BY <1>2, <1>3, <2>1, <2>2 DEF ChannelInLine, WriterInLine
<1>5. ReasonGiven' => ReasonGiven
    BY <1>1, <1>2, Queueing, Numbers DEF ReasonGiven
<1>6. ReasonIsLast'
    BY <1>1, <1>5, Queueing, Numbers DEF Passing, ReasonIsLast, Forwarding
<1>7. EventsNumbered' /\ ReasonNumbered'
    BY <1>1 DEF Passing, EventsNumbered, ReasonNumbered, EventsSent
<1> QED BY <1>4, <1>6, <1>7 DEF Passing

\* forwardEvents queues an event.
LEMMA EventQueued ==
    ASSUME Inductive, [Next]_vars, TypeOK', UNCHANGED <<sent, events, delivered, seatOpen>>,
           holds'["writer"] = holds["writer"], holds'["forwarder"] = NoFrame,
           holds["forwarder"] \in AnyFrame, IsEvent(holds["forwarder"]),
           outgoing' = Append(outgoing, holds["forwarder"])
    PROVE  Passing'
<1> DEFINE f == holds["forwarder"]
<1>1. TypeOK /\ Passing /\ FramesFit
    BY PassingIsInductive DEF Inductive
<1>2. ~IsReason(NoFrame) /\ ~IsEvent(NoFrame) /\ ~IsReason(f)
    BY DEF IsReason, IsEvent, NoFrame, Frame
<1>3. Written' = Written /\ Dequeued' = Dequeued /\ Queued' = Queued + 1
    BY <1>1, <1>2, Numbers DEF Written, Dequeued, Queued, Held, EventsSent
<1>4. InLine'
    <2> SUFFICES ASSUME Live' PROVE ChannelInLine' /\ QueueInLine' /\ WriterInLine'
        BY DEF InLine
    <2>1. ChannelInLine /\ QueueInLine /\ WriterInLine /\ f.n = Queued + 1
        BY <1>1, LiveBefore DEF Passing, InLine, ChannelInLine
    <2>2. Dequeued \in Nat /\ Queued \in Int /\ Len(outgoing) \in Nat
        BY <1>1, Numbers
    <2>3. ASSUME NEW n \in Dequeued'+1..Queued'
          PROVE  \E i \in 1..Len(outgoing') : IsEvent(outgoing'[i]) /\ outgoing'[i].n = n
        <3>1. CASE n = Queued + 1
            BY <1>1, <2>1, <2>2, <3>1, Queueing
        <3>2. CASE n \in Dequeued+1..Queued
            BY <1>1, <2>1, <2>2, <3>2, Queueing DEF QueueInLine
        <3> QED BY <1>3, <2>2, <3>1, <3>2
    <2>4. ASSUME NEW i \in 1..Len(outgoing'), IsEvent(outgoing'[i])
          PROVE  /\ outgoing'[i].n \in Dequeued'+1..Queued'
                 /\ \A j \in 1..Len(outgoing') :
                       j < i /\ IsEvent(outgoing'[j]) => outgoing'[j].n < outgoing'[i].n
        <3>1. CASE i = Len(outgoing) + 1
            <4>1. outgoing'[i] = f
                BY <1>1, <3>1, Queueing
            <4>2. ASSUME NEW j \in 1..Len(outgoing'), j < i, IsEvent(outgoing'[j])
                  PROVE  outgoing'[j].n \in Dequeued+1..Queued
                BY <1>1, <2>1, <2>2, <3>1, <4>2, Queueing DEF QueueInLine
            <4> QED BY <1>3, <2>1, <2>2, <4>1, <4>2 DEF QueueInLine
        <3>2. CASE i \in 1..Len(outgoing)
            <4>1. outgoing'[i] = outgoing[i] /\ outgoing[i].n \in Dequeued+1..Queued
                BY <1>1, <2>1, <2>4, <3>2, Queueing DEF QueueInLine
            <4>2. ASSUME NEW j \in 1..Len(outgoing'), j < i, IsEvent(outgoing'[j])
                  PROVE  outgoing'[j].n < outgoing'[i].n
                BY <1>1, <2>1, <2>2, <2>4, <3>2, <4>1, <4>2, Queueing DEF QueueInLine
            <4> QED BY <1>3, <2>2, <4>1, <4>2
        <3> QED BY <1>1, <2>2, <3>1, <3>2, Queueing
    <2>5. QueueInLine'
        <3>1. Dequeued' <= Queued'
            BY <1>3, <2>1, <2>2 DEF QueueInLine
        <3>2. \A i \in 1..Len(outgoing'), j \in 1..Len(outgoing') :
                 i < j /\ IsEvent(outgoing'[i]) /\ IsEvent(outgoing'[j]) => outgoing'[i].n < outgoing'[j].n
            BY <2>4
        <3> QED BY <2>3, <2>4, <3>1, <3>2 DEF QueueInLine
    <2>6. ChannelInLine' /\ WriterInLine'
        BY <1>2, <1>3, <2>1 DEF ChannelInLine, WriterInLine
    <2> QED BY <2>5, <2>6
<1>5. ~ReasonGiven
    BY <1>1, ReasonComesLater DEF FramesFit, Forwarding
<1>6. ~ReasonGiven'
    BY <1>1, <1>2, <1>5, Queueing DEF ReasonGiven
<1>7. ReasonIsLast'
    BY <1>6 DEF ReasonIsLast, ReasonGiven
<1>8. EventsNumbered' /\ ReasonNumbered'
    BY <1>1 DEF Passing, EventsNumbered, ReasonNumbered, EventsSent
<1> QED BY <1>4, <1>7, <1>8 DEF Passing

\* A frame leaves the queue: what is where afterwards.
LEMMA Dequeueing ==
    ASSUME TypeOK, outgoing # <<>>, outgoing' = Tail(outgoing)
    PROVE  /\ 1 \in 1..Len(outgoing) /\ Head(outgoing) = outgoing[1]
           /\ Len(outgoing') = Len(outgoing) - 1
           /\ \A i \in 1..Len(outgoing') : i + 1 \in 1..Len(outgoing) /\ outgoing'[i] = outgoing[i + 1]
           /\ \A i \in 1..Len(outgoing) : i # 1 => i - 1 \in 1..Len(outgoing') /\ outgoing'[i - 1] = outgoing[i]
<1> DEFINE F == AnyFrame
<1>1. outgoing \in Seq(F)
    BY DEF TypeOK
<1> HIDE DEF F
<1> QED BY <1>1

\* writeLoop takes a frame out of the queue.
LEMMA DequeuePasses ==
    ASSUME Inductive, [Next]_vars, TypeOK', Dequeue
    PROVE  Passing'
<1>1. TypeOK /\ Passing /\ FramesFit
    BY PassingIsInductive DEF Inductive
<1>2. /\ outgoing # <<>> /\ outgoing' = Tail(outgoing) /\ pc["writer"] = "idle"
      /\ UNCHANGED <<sent, events, delivered, seatOpen>>
      /\ pc'["forwarder"] = pc["forwarder"] /\ holds'["forwarder"] = holds["forwarder"]
      /\ holds["writer"] = NoFrame /\ holds'["writer"] = outgoing[1]
    BY <1>1, Dequeueing DEF Dequeue, Goto, roomVars, TypeOK, Goroutine, Sender, FramesFit
<1>3. ~IsReason(NoFrame) /\ ~IsEvent(NoFrame)
    BY DEF IsReason, IsEvent, NoFrame, Frame
<1>4. /\ Written' = Written /\ Queued' = Queued
      /\ Dequeued' = IF IsEvent(outgoing[1]) THEN Dequeued + 1 ELSE Dequeued
    BY <1>1, <1>2, <1>3, Numbers DEF Written, Dequeued, Queued, Held, EventsSent
<1>5. InLine'
    <2> SUFFICES ASSUME Live' PROVE ChannelInLine' /\ QueueInLine' /\ WriterInLine'
        BY DEF InLine
    <2>1. ChannelInLine /\ QueueInLine
        BY <1>1, LiveBefore DEF Passing, InLine
    <2>2. Dequeued \in Nat /\ Queued \in Int /\ Len(outgoing) \in Nat
        BY <1>1, Numbers
    <2>3. ASSUME IsEvent(outgoing[1])
          PROVE  outgoing[1].n = Dequeued + 1 /\ Dequeued + 1 <= Queued
        <3>1. outgoing[1].n \in Dequeued+1..Queued
            BY <1>1, <1>2, <2>1, <2>3, Dequeueing DEF QueueInLine
        <3>2. Dequeued + 1 \in Dequeued+1..Queued
            BY <2>2, <3>1
        <3>3. PICK i \in 1..Len(outgoing) : IsEvent(outgoing[i]) /\ outgoing[i].n = Dequeued + 1
            BY <2>1, <3>2 DEF QueueInLine
        <3>4. 1 < i => outgoing[1].n < outgoing[i].n
            BY <1>1, <1>2, <2>1, <2>3, <3>3, Dequeueing DEF QueueInLine
        <3> QED BY <2>2, <3>1, <3>3, <3>4
    <2>4. Dequeued' <= Queued'
        BY <1>4, <2>1, <2>2, <2>3 DEF QueueInLine
    <2>5. ASSUME NEW i \in 1..Len(outgoing'), IsEvent(outgoing'[i])
          PROVE  outgoing'[i].n \in Dequeued'+1..Queued'
        <3>1. /\ i + 1 \in 1..Len(outgoing) /\ outgoing'[i] = outgoing[i + 1]
              /\ 1 \in 1..Len(outgoing) /\ 1 < i + 1
            BY <1>1, <1>2, Dequeueing
        <3>2. outgoing[i + 1].n \in Dequeued+1..Queued
            BY <2>1, <2>5, <3>1 DEF QueueInLine
        <3>3. IsEvent(outgoing[1]) => outgoing[1].n < outgoing[i + 1].n
            BY <2>1, <2>5, <3>1 DEF QueueInLine
        <3> QED BY <1>4, <2>2, <2>3, <3>1, <3>2, <3>3
    <2>6. ASSUME NEW n \in Dequeued'+1..Queued'
          PROVE  \E i \in 1..Len(outgoing') : IsEvent(outgoing'[i]) /\ outgoing'[i].n = n
        <3>1. n \in Dequeued+1..Queued /\ (IsEvent(outgoing[1]) => n # Dequeued + 1)
            BY <1>4, <2>2
        <3>2. PICK i \in 1..Len(outgoing) : IsEvent(outgoing[i]) /\ outgoing[i].n = n
            BY <2>1, <3>1 DEF QueueInLine
        <3>3. i # 1
            BY <2>3, <3>1, <3>2
        <3>4. i - 1 \in 1..Len(outgoing') /\ outgoing'[i - 1] = outgoing[i]
            BY <1>1, <1>2, <3>3, Dequeueing
        <3> QED BY <3>2, <3>4
    <2>7. ASSUME NEW i \in 1..Len(outgoing'), NEW j \in 1..Len(outgoing'),
                 i < j, IsEvent(outgoing'[i]), IsEvent(outgoing'[j])
          PROVE  outgoing'[i].n < outgoing'[j].n
        <3>1. /\ i + 1 \in 1..Len(outgoing) /\ outgoing'[i] = outgoing[i + 1]
              /\ j + 1 \in 1..Len(outgoing) /\ outgoing'[j] = outgoing[j + 1] /\ i + 1 < j + 1
            BY <1>1, <1>2, <2>7, Dequeueing
        <3> QED BY <2>1, <2>7, <3>1 DEF QueueInLine
    <2>8. QueueInLine'
        BY <2>4, <2>5, <2>6, <2>7 DEF QueueInLine
    <2>9. ChannelInLine'
        BY <1>2, <1>4, <2>1 DEF ChannelInLine
    <2>10. WriterInLine'
        BY <1>2, <1>4, <2>3 DEF WriterInLine
    <2> QED BY <2>8, <2>9, <2>10
<1>6. ReasonGiven' => ReasonGiven
    BY <1>1, <1>2, <1>3, Dequeueing DEF ReasonGiven
<1>7. ReasonIsLast'
    <2>1. IsReason(outgoing[1]) => \A j \in 1..Len(outgoing') : ~IsEvent(outgoing'[j])
        <3> SUFFICES ASSUME IsReason(outgoing[1]), NEW j \in 1..Len(outgoing')
                     PROVE  ~IsEvent(outgoing'[j])
            OBVIOUS
        <3>1. /\ j + 1 \in 1..Len(outgoing) /\ outgoing'[j] = outgoing[j + 1]
              /\ 1 \in 1..Len(outgoing) /\ 1 < j + 1
            BY <1>1, <1>2, Dequeueing
        <3> QED BY <1>1, <3>1 DEF Passing, ReasonIsLast
    <2>2. ASSUME NEW i \in 1..Len(outgoing'), NEW j \in 1..Len(outgoing'), i < j, IsReason(outgoing'[i])
          PROVE  ~IsEvent(outgoing'[j])
        <3>1. /\ i + 1 \in 1..Len(outgoing) /\ outgoing'[i] = outgoing[i + 1]
              /\ j + 1 \in 1..Len(outgoing) /\ outgoing'[j] = outgoing[j + 1] /\ i + 1 < j + 1
            BY <1>1, <1>2, <2>2, Dequeueing
        <3> QED BY <1>1, <2>2, <3>1 DEF Passing, ReasonIsLast
    <2> QED BY <1>1, <1>2, <1>6, <2>1, <2>2 DEF Passing, ReasonIsLast
<1>8. EventsNumbered' /\ ReasonNumbered'
    BY <1>1, <1>2 DEF Passing, EventsNumbered, ReasonNumbered, EventsSent
<1> QED BY <1>5, <1>7, <1>8 DEF Passing

\* A frame is written: what has been sent afterwards.
LEMMA Sending ==
    ASSUME TypeOK, NEW f \in AnyFrame, sent' = Append(sent, f)
    PROVE  /\ Len(sent') = Len(sent) + 1 /\ sent'[Len(sent) + 1] = f
           /\ \A i \in 1..Len(sent) : sent'[i] = sent[i] /\ EventsSent(i)' = EventsSent(i)
           /\ \A i \in 1..Len(sent') : i \in 1..Len(sent) \/ i = Len(sent) + 1
           /\ Written' = IF IsEvent(f) THEN Written + 1 ELSE Written
<1> DEFINE F == AnyFrame
<1>1. sent \in Seq(F) /\ f \in F
    BY DEF TypeOK
<1> HIDE DEF F
<1>2. /\ Len(sent') = Len(sent) + 1 /\ sent'[Len(sent) + 1] = f /\ Len(sent) \in Nat
      /\ \A i \in 1..Len(sent) : sent'[i] = sent[i]
      /\ \A i \in 1..Len(sent') : i \in 1..Len(sent) \/ i = Len(sent) + 1
    BY <1>1
<1>3. ASSUME NEW i \in 1..Len(sent) PROVE EventsSent(i)' = EventsSent(i)
    <2>1. \A j \in 1..i : j \in 1..Len(sent)
        BY <1>2
    <2> QED BY <1>2, <2>1 DEF EventsSent
<1> DEFINE S == EventsSent(Len(sent))
<1>4. EventsSent(Len(sent))' = IF IsEvent(f) THEN S \cup {Len(sent) + 1} ELSE S
    <2>1. EventsSent(Len(sent))' = {j \in 1..Len(sent) + 1 : sent'[j].kind = "event"}
        BY <1>2 DEF EventsSent
    <2> QED BY <1>2, <2>1 DEF EventsSent, IsEvent
<1>5. IsFiniteSet(S) /\ Cardinality(S) \in Nat /\ Len(sent) + 1 \notin S
    BY <1>2, SentIsFinite DEF EventsSent
<1>6. Written = Cardinality(S) /\ Written' = Cardinality(IF IsEvent(f) THEN S \cup {Len(sent) + 1} ELSE S)
    BY <1>4 DEF Written
<1> HIDE DEF S
<1>7. Cardinality(S \cup {Len(sent) + 1}) = Cardinality(S) + 1
    BY <1>5, FS_AddElement
<1> QED BY <1>2, <1>3, <1>6, <1>7

\* What writeLoop holds is dropped: it says nothing, or the write failed.
LEMMA UnsentPasses ==
    ASSUME Inductive, [Next]_vars, TypeOK',
           UNCHANGED <<outgoing, sent, events, delivered, seatOpen>>,
           holds'["forwarder"] = holds["forwarder"], pc'["forwarder"] = pc["forwarder"],
           holds'["writer"] = NoFrame, holds["writer"] = Plain \/ ~Live'
    PROVE  Passing'
<1>1. TypeOK /\ Passing
    BY PassingIsInductive DEF Inductive
<1>2. ~IsReason(NoFrame) /\ ~IsEvent(NoFrame) /\ ~IsEvent(Plain)
    BY DEF IsReason, IsEvent, NoFrame, Plain, Frame
<1>3. InLine'
    <2> SUFFICES ASSUME Live' PROVE ChannelInLine' /\ QueueInLine' /\ WriterInLine'
        BY DEF InLine
    <2>1. ChannelInLine /\ QueueInLine
        BY <1>1, LiveBefore DEF Passing, InLine
    <2>2. Dequeued' = Dequeued /\ Queued' = Queued
        BY <1>2 DEF Written, Dequeued, Queued, Held, EventsSent
    <2> QED BY <1>2, <2>1, <2>2 DEF ChannelInLine, QueueInLine, WriterInLine
<1>4. ReasonIsLast'
    BY <1>1, <1>2 DEF Passing, ReasonIsLast, ReasonGiven
<1>5. EventsNumbered' /\ ReasonNumbered'
    BY <1>1 DEF Passing, EventsNumbered, ReasonNumbered, EventsSent
<1> QED BY <1>3, <1>4, <1>5 DEF Passing

\* writeLoop writes a frame.
LEMMA WritePasses ==
    ASSUME Inductive, [Next]_vars, TypeOK', Write
    PROVE  Passing'
<1> DEFINE f == holds["writer"]
<1>1. TypeOK /\ Passing /\ FramesFit
    BY PassingIsInductive DEF Inductive
<1>2. /\ UNCHANGED <<outgoing, events, delivered, seatOpen>> /\ f \in AnyFrame
      /\ holds'["forwarder"] = holds["forwarder"] /\ pc'["forwarder"] = pc["forwarder"]
      /\ holds'["writer"] = NoFrame
    BY <1>1 DEF Write, Goto, roomVars, TypeOK, Goroutine, Sender
<1>3. Live
    BY DEF Write, Goto, Live
<1>4. CASE f = Plain
    <2>1. sent' = sent
        BY <1>4 DEF Write
    <2> QED BY <1>2, <1>4, <2>1, UnsentPasses
<1>5. CASE f # Plain
    <2>1. sent' = Append(sent, f)
        BY <1>5 DEF Write
    <2>2. ~IsReason(NoFrame) /\ ~IsEvent(NoFrame)
        BY DEF IsReason, IsEvent, NoFrame, Frame
    <2>3. /\ Len(sent') = Len(sent) + 1 /\ sent'[Len(sent) + 1] = f
          /\ \A i \in 1..Len(sent) : sent'[i] = sent[i] /\ EventsSent(i)' = EventsSent(i)
          /\ \A i \in 1..Len(sent') : i \in 1..Len(sent) \/ i = Len(sent) + 1
          /\ Written' = IF IsEvent(f) THEN Written + 1 ELSE Written
        BY <1>1, <1>2, <2>1, Sending
    <2>4. Dequeued' = Dequeued /\ Queued' = Queued /\ Written' = Dequeued
        BY <1>1, <1>2, <2>2, <2>3, Numbers DEF Dequeued, Queued, Held
    <2>5. ChannelInLine /\ QueueInLine /\ WriterInLine
        BY <1>1, <1>3 DEF Passing, InLine
    <2>6. InLine'
        BY <1>2, <2>2, <2>4, <2>5 DEF InLine, ChannelInLine, QueueInLine, WriterInLine
    <2>7. ReasonGiven' => ReasonGiven
        BY <1>2, <2>2, <2>3 DEF ReasonGiven
    <2>8. ReasonIsLast'
        BY <1>1, <1>2, <2>2, <2>7 DEF Passing, ReasonIsLast
    <2> PICK m \in Nat : m = Len(sent')
        BY <1>1, <2>3, Numbers
    <2>9. Cardinality(EventsSent(m)') = Dequeued /\ m = Len(sent) + 1
        BY <2>3, <2>4 DEF Written, EventsSent
    <2>10. EventsNumbered'
        <3> SUFFICES ASSUME NEW i \in 1..Len(sent'), IsEvent(sent'[i])
                     PROVE  sent'[i].n = Cardinality(EventsSent(i)')
            BY DEF EventsNumbered, EventsSent, IsEvent
        <3>1. CASE i = m
            BY <2>3, <2>5, <2>9, <3>1 DEF WriterInLine
        <3>2. CASE i \in 1..Len(sent)
            <4>1. sent'[i] = sent[i] /\ EventsSent(i)' = EventsSent(i)
                BY <2>3, <3>2
            <4>2. i \in EventsSent(Len(sent))
                BY <3>2, <4>1 DEF EventsSent, IsEvent
            <4> QED BY <1>1, <4>1, <4>2 DEF Passing, EventsNumbered
        <3> QED BY <2>3, <2>9, <3>1, <3>2
    <2>11. ReasonNumbered'
        <3> SUFFICES ASSUME NEW i \in 1..Len(sent'), IsReason(sent'[i])
                     PROVE  Cardinality(EventsSent(i)') = delivered
            BY <1>2 DEF ReasonNumbered
        <3>1. CASE i = m
            <4>1. IsReason(f) /\ ReasonGiven
                BY <2>3, <2>9, <3>1 DEF ReasonGiven
            <4>2. /\ events = <<>> /\ ~IsEvent(holds["forwarder"])
                  /\ \A j \in 1..Len(outgoing) : ~IsEvent(outgoing[j])
                BY <1>1, <4>1 DEF Passing, ReasonIsLast, FramesFit
            <4>3. Queued = delivered
                BY <1>1, <4>2, Numbers DEF Queued, Held
            <4>4. Dequeued = Queued
                <5>1. Dequeued \in Nat /\ Queued \in Int /\ Dequeued <= Queued
                    BY <1>1, <2>5, Numbers DEF QueueInLine
                <5>2. Dequeued + 1 \notin Dequeued+1..Queued
                    BY <2>5, <4>2 DEF QueueInLine
                <5> QED BY <5>1, <5>2
            <4> QED BY <2>9, <3>1, <4>3, <4>4
        <3>2. CASE i \in 1..Len(sent)
            BY <1>1, <2>3, <3>2 DEF Passing, ReasonNumbered
        <3> QED BY <2>3, <2>9, <3>1, <3>2
    <2> QED BY <2>6, <2>8, <2>10, <2>11 DEF Passing
<1> QED BY <1>4, <1>5

\* forwardEvents takes an event from the channel.
LEMMA ForwardPasses ==
    ASSUME Inductive, [Next]_vars, TypeOK', ForwardEvent
    PROVE  Passing'
<1> DEFINE f == Frame("event", "nobody", Head(events))
<1>1. TypeOK /\ Passing /\ FramesFit
    BY PassingIsInductive DEF Inductive
<1>2. /\ UNCHANGED <<outgoing, sent, delivered, seatOpen>>
      /\ holds'["forwarder"] = f /\ holds'["writer"] = holds["writer"]
      /\ pc["forwarder"] = "idle" /\ ~IsEvent(holds["forwarder"])
    BY <1>1 DEF ForwardEvent, Goto, TypeOK, Goroutine, Sender, FramesFit
<1>3. /\ Len(events) \in Nat \ {0} /\ Len(events') = Len(events) - 1
      /\ Head(events) = events[1] /\ 1 \in 1..Len(events)
      /\ \A i \in 1..Len(events') : i + 1 \in 1..Len(events) /\ events'[i] = events[i + 1]
    BY <1>1 DEF ForwardEvent, TypeOK
<1>4. IsEvent(f) /\ ~IsReason(f) /\ f.n = Head(events)
    BY DEF IsEvent, IsReason, Frame
<1>5. Written' = Written /\ Dequeued' = Dequeued
    BY <1>2 DEF Written, Dequeued, Held, EventsSent
<1>6. Queued' = Queued /\ Queued = delivered - Len(events)
    BY <1>1, <1>2, <1>3, <1>4, Numbers DEF Queued, Held
<1> HIDE DEF f
<1>7. InLine'
    <2> SUFFICES ASSUME Live' PROVE ChannelInLine' /\ QueueInLine' /\ WriterInLine'
        BY DEF InLine
    <2>1. ChannelInLine /\ QueueInLine /\ WriterInLine
        BY <1>1, LiveBefore DEF Passing, InLine
    <2>2. QueueInLine' /\ WriterInLine'
        BY <1>2, <1>5, <1>6, <2>1 DEF QueueInLine, WriterInLine
    <2>3. delivered \in Nat
        BY <1>1, Numbers
    <2>4. holds'["forwarder"].n = Queued' + 1
        BY <1>2, <1>3, <1>4, <1>6, <2>1, <2>3 DEF ChannelInLine
    <2>5. ASSUME NEW i \in 1..Len(events') PROVE events'[i] = delivered' - Len(events') + i
        <3>1. events[i + 1] = delivered - Len(events) + (i + 1)
            BY <1>3, <2>1 DEF ChannelInLine
        <3> QED BY <1>2, <1>3, <2>3, <3>1
    <2> QED BY <2>2, <2>4, <2>5 DEF ChannelInLine
<1>8. ~ReasonGiven
    BY <1>2, ReasonComesLater DEF Forwarding
<1>9. ReasonIsLast'
    BY <1>2, <1>4, <1>8 DEF ReasonIsLast, ReasonGiven
<1>10. EventsNumbered' /\ ReasonNumbered'
    BY <1>1, <1>2 DEF Passing, EventsNumbered, ReasonNumbered, EventsSent
<1> QED BY <1>7, <1>9, <1>10 DEF Passing

\* The channel is closed and empty.
LEMMA EventsEndPasses ==
    ASSUME Inductive, [Next]_vars, TypeOK', EventsEnd
    PROVE  Passing'
<1> DEFINE f == Frame("close", "forwarder", 0)
<1>1. TypeOK /\ Passing /\ FramesFit
    BY PassingIsInductive DEF Inductive
<1>2. ~IsEvent(f) /\ f.kind = "close"
    BY DEF IsEvent, Frame
<1>3. /\ UNCHANGED <<outgoing, sent, events, delivered, seatOpen>>
      /\ holds'["forwarder"] = f /\ holds'["writer"] = holds["writer"]
      /\ pc["forwarder"] = "idle" /\ pc'["forwarder"] = "flushing" /\ ~IsEvent(holds["forwarder"])
      /\ ~seatOpen /\ events = <<>>
    BY <1>1, <1>2 DEF EventsEnd, WillSend, Goto, roomVars, TypeOK, Goroutine, Sender, FramesFit
<1> HIDE DEF f
<1>4. Dequeued' = Dequeued /\ Queued' = Queued
    BY <1>2, <1>3 DEF Written, Dequeued, Queued, Held, EventsSent
<1>5. InLine'
    <2> SUFFICES ASSUME Live' PROVE ChannelInLine' /\ QueueInLine' /\ WriterInLine'
        BY DEF InLine
    <2>1. ChannelInLine /\ QueueInLine /\ WriterInLine
        BY <1>1, LiveBefore DEF Passing, InLine
    <2> QED BY <1>2, <1>3, <1>4, <2>1 DEF ChannelInLine, QueueInLine, WriterInLine
<1>6. ReasonIsLast'
    BY <1>1, <1>3 DEF Passing, ReasonIsLast
<1>7. EventsNumbered' /\ ReasonNumbered'
    BY <1>1, <1>3 DEF Passing, EventsNumbered, ReasonNumbered, EventsSent
<1> QED BY <1>5, <1>6, <1>7 DEF Passing

\* The room sends an event.
LEMMA RoomPasses ==
    ASSUME Inductive, [Next]_vars, TypeOK', UNCHANGED <<peerVars, sent>>, seatOpen,
           delivered' = delivered + 1, events' = Append(events, delivered + 1)
    PROVE  Passing'
<1>1. TypeOK /\ Passing
    BY PassingIsInductive DEF Inductive
<1>2. UNCHANGED <<pc, holds, outgoing, closer>> /\ delivered \in Nat
    BY <1>1, Numbers DEF peerVars
<1> DEFINE E == 1..(MaxEvents + 1)
<1>3. events \in Seq(E) /\ events' \in Seq(E)
    BY <1>1 DEF TypeOK
<1> HIDE DEF E
<1>4. /\ Len(events) \in Nat /\ Len(events') = Len(events) + 1
      /\ \A i \in 1..Len(events') :
            events'[i] = IF i = Len(events) + 1 THEN delivered + 1 ELSE events[i]
      /\ \A i \in 1..Len(events') : i # Len(events) + 1 => i \in 1..Len(events)
    BY <1>3
<1>5. Dequeued' = Dequeued
    BY <1>2 DEF Written, Dequeued, Held, EventsSent
<1>6. Queued' = Queued
    BY <1>1, <1>2, <1>4, Numbers DEF Queued, Held
<1>7. InLine'
    <2> SUFFICES ASSUME Live' PROVE ChannelInLine' /\ QueueInLine' /\ WriterInLine'
        BY DEF InLine
    <2>1. ChannelInLine /\ QueueInLine /\ WriterInLine
        BY <1>1, LiveBefore DEF Passing, InLine
    <2>2. QueueInLine' /\ WriterInLine'
        BY <1>2, <1>5, <1>6, <2>1 DEF QueueInLine, WriterInLine
    <2>3. \A i \in 1..Len(events') : events'[i] = delivered' - Len(events') + i
        BY <1>2, <1>4, <2>1 DEF ChannelInLine
    <2> QED BY <1>2, <1>6, <2>1, <2>2, <2>3 DEF ChannelInLine
<1>8. ~ReasonGiven
    BY ReasonComesLater
<1>9. ReasonIsLast' /\ ReasonNumbered'
    BY <1>2, <1>8 DEF ReasonIsLast, ReasonNumbered, ReasonGiven
<1>10. EventsNumbered'
    BY <1>1 DEF Passing, EventsNumbered, EventsSent
<1> QED BY <1>7, <1>9, <1>10 DEF Passing

\* send and flush put a frame into the queue.
LEMMA EnqueuePasses ==
    ASSUME Inductive, [Next]_vars, TypeOK', NEW g \in Sender, Enqueue(g)
    PROVE  Passing'
<1>1. TypeOK /\ FramesFit
    BY DEF Inductive
<1>2. /\ g \in Goroutine /\ "writer" # g /\ holds[g] \in AnyFrame
      /\ UNCHANGED <<sent, events, delivered, seatOpen>>
      /\ outgoing' = Append(outgoing, holds[g])
      /\ holds'["writer"] = holds["writer"] /\ holds'[g] = NoFrame
      /\ g # "forwarder" => /\ holds'["forwarder"] = holds["forwarder"]
                            /\ pc'["forwarder"] = pc["forwarder"]
    BY <1>1 DEF Enqueue, roomVars, TypeOK, Goroutine, Sender
<1>3. CASE g = "forwarder" /\ IsEvent(holds[g])
    BY <1>2, <1>3, EventQueued
<1>4. CASE g = "forwarder" /\ ~IsEvent(holds[g])
    <2>1. pc'["forwarder"] \in Forwarding => pc["forwarder"] \in Forwarding
        BY <1>1, <1>4 DEF Enqueue, TypeOK, Goroutine, Sender, Forwarding
    <2> QED BY <1>2, <1>4, <2>1, PlainQueued
<1>5. CASE g # "forwarder"
    <2>1. ~IsEvent(holds[g]) /\ ~IsReason(holds[g])
        BY <1>1, <1>5 DEF FramesFit, IsClose, IsReason, Sender
    <2> QED BY <1>2, <1>5, <2>1, PlainQueued
<1> QED BY <1>3, <1>4, <1>5

\* The other steps of send, flush, forwardEvents and keepAlive.
LEMMA GiveUpPasses ==
    ASSUME Inductive, [Next]_vars, TypeOK', NEW g \in Sender,
           GiveUp(g) \/ Quit(g) \/ Flushed(g) \/ ShutDown(g)
    PROVE  Passing'
<1>1. TypeOK
    BY DEF Inductive
<1>2. /\ UNCHANGED <<outgoing, sent, events, delivered, seatOpen>>
      /\ holds'["writer"] = holds["writer"]
      /\ g # "forwarder" => /\ holds'["forwarder"] = holds["forwarder"]
                            /\ pc'["forwarder"] = pc["forwarder"]
    BY <1>1 DEF GiveUp, Quit, Flushed, ShutDown, Goto, roomVars, TypeOK, Goroutine, Sender
<1>3. CASE g = "forwarder" /\ (GiveUp(g) \/ Quit(g))
    <2>1. Done /\ holds'["forwarder"] = NoFrame /\ pc'["forwarder"] \notin Forwarding
        BY <1>1, <1>3 DEF GiveUp, Quit, Goto, AfterSend, AfterFlush, TypeOK, Goroutine, Sender, Forwarding
    <2> QED BY <1>2, <2>1, DroppedPasses
<1>4. CASE g = "forwarder" /\ (Flushed(g) \/ ShutDown(g))
    <2>1. holds'["forwarder"] = holds["forwarder"] /\ pc'["forwarder"] \notin Forwarding
        BY <1>1, <1>4 DEF Flushed, ShutDown, Goto, AfterFlush, TypeOK, Goroutine, Sender, Forwarding
    <2> QED BY <1>2, <2>1, StillPasses
<1>5. CASE g # "forwarder"
    BY <1>2, <1>5, StillPasses
<1> QED BY <1>3, <1>4, <1>5

\* saveFinished has failed, and the client is told so.
LEMMA WarnPasses ==
    ASSUME Inductive, [Next]_vars, TypeOK', Warn
    PROVE  Passing'
<1>1. TypeOK
    BY DEF Inductive
<1>2. /\ UNCHANGED <<holds, sent, events, delivered, seatOpen>>
      /\ pc["forwarder"] \in Forwarding
      /\ outgoing' = Append(outgoing, Plain) \/ outgoing' = outgoing
    BY DEF Warn, Goto, roomVars, Forwarding
<1>3. ~IsEvent(Plain) /\ ~IsReason(Plain) /\ Plain \in AnyFrame
    BY FrameTypes DEF IsEvent, IsReason, Plain, Frame
<1>4. CASE outgoing' = outgoing
    BY <1>2, <1>4, StillPasses
<1>5. CASE outgoing' = Append(outgoing, Plain)
    BY <1>2, <1>3, <1>5, PlainQueued
<1> QED BY <1>2, <1>4, <1>5

\* Every step keeps the events on their way.
LEMMA PassingKept ==
    ASSUME Inductive, [Next]_vars, TypeOK'
    PROVE  Passing'
<1>1. TypeOK /\ FramesFit
    BY DEF Inductive
<1>2. CASE \E g \in Sender : Send(g)
    BY <1>2, EnqueuePasses, GiveUpPasses DEF Send
<1>3. CASE ReadFrame \/ Ping \/ Expire
    <2>1. ASSUME NEW g \in {"reader", "keeper"}, NEW frame, WillSend(g, "idle", frame)
          PROVE  /\ holds'["writer"] = holds["writer"] /\ holds'["forwarder"] = holds["forwarder"]
                 /\ pc'["forwarder"] = pc["forwarder"]
        BY <1>1, <2>1 DEF WillSend, Goto, TypeOK, Goroutine, Sender
    <2>2. /\ holds'["writer"] = holds["writer"] /\ holds'["forwarder"] = holds["forwarder"]
          /\ pc'["forwarder"] = pc["forwarder"]
        BY <1>3, <2>1 DEF ReadFrame, Ping, Expire
    <2>3. UNCHANGED <<outgoing, sent, events, delivered, seatOpen>>
        BY <1>3 DEF ReadFrame, Ping, Expire, roomVars
    <2> QED BY <2>2, <2>3, StillPasses
<1>4. CASE \/ ReadFails \/ LeaveRoom \/ Return \/ RecordReady \/ WriterQuits \/ WriterCloses
    <2>1. UNCHANGED <<holds, outgoing, sent, events, delivered>> /\ (seatOpen' => seatOpen)
        BY <1>4 DEF ReadFails, LeaveRoom, Return, RecordReady, WriterQuits, WriterCloses, roomVars
    <2>2. pc'["forwarder"] \in Forwarding => pc["forwarder"] \in Forwarding
        BY <1>1, <1>4 DEF ReadFails, LeaveRoom, Return, RecordReady, WriterQuits, WriterCloses, Goto,
                          TypeOK, Goroutine, Sender, Forwarding
    <2> QED BY <2>1, <2>2, StillPasses
<1>5. CASE WriteFails
    <2>1. /\ UNCHANGED <<outgoing, sent, events, delivered, seatOpen>>
          /\ holds'["forwarder"] = holds["forwarder"] /\ pc'["forwarder"] = pc["forwarder"]
          /\ holds'["writer"] = NoFrame /\ pc'["writer"] = "failing"
        BY <1>1, <1>5 DEF WriteFails, Goto, roomVars, TypeOK, Goroutine, Sender
    <2> QED BY <2>1, UnsentPasses DEF Live
<1>6. CASE RoomSends \/ Stop
    <2>1. UNCHANGED <<peerVars, sent>>
        BY <1>6 DEF RoomSends, Stop
    <2>2. CASE seatOpen
        <3>1. delivered' = delivered + 1 /\ events' = Append(events, delivered + 1)
            BY <1>6, <2>2 DEF RoomSends, Stop
        <3> QED BY <2>1, <2>2, <3>1, RoomPasses
    <2>3. CASE ~seatOpen
        <3>1. UNCHANGED <<pc, holds, outgoing, sent, events, delivered>> /\ ~seatOpen'
            BY <1>6, <2>1, <2>3 DEF RoomSends, Stop, peerVars
        <3> QED BY <3>1, StillPasses
    <2> QED BY <2>2, <2>3
<1>7. CASE ClientGoes \/ Exit \/ UNCHANGED vars
    <2>1. UNCHANGED <<pc, holds, outgoing, sent, events, delivered, seatOpen>>
        BY <1>7 DEF ClientGoes, Exit, vars, peerVars, roomVars
    <2> QED BY <2>1, StillPasses
<1> QED BY <1>2, <1>3, <1>4, <1>5, <1>6, <1>7, WarnPasses, ForwardPasses, EventsEndPasses,
           DequeuePasses, WritePasses DEF Next, Reader, Forwarder, Keeper, Writer

-----------------------------------------------------------------------------
\* What the invariant is for.

\* The invariant holds at the start.
LEMMA InitIsInductive == Init => Inductive
<1> SUFFICES ASSUME Init PROVE Inductive
    OBVIOUS
<1> USE PeerAssumption
<1>1. PeerTypes /\ OtherTypes
    BY FrameTypes DEF Init, PeerTypes, OtherTypes, Place
<1>2. ~IsEvent(NoFrame) /\ ~IsClose(NoFrame) /\ ~IsReason(NoFrame)
    BY DEF IsEvent, IsClose, IsReason, NoFrame, Frame
<1>3. /\ \A g \in Goroutine : holds[g] = NoFrame /\ pc[g] = "idle"
      /\ Len(outgoing) = 0 /\ Len(sent) = 0 /\ Len(events) = 0 /\ delivered = 0
      /\ acked = {} /\ closer = "nobody"
    BY DEF Init
<1>4. "writer" \in Goroutine /\ \A g \in Sender : g \in Goroutine
    BY DEF Goroutine
<1>5. FramesFit
    BY <1>2, <1>3, <1>4 DEF FramesFit, Sender
<1>6. EventsSent(Len(sent)) = {}
    BY <1>3 DEF EventsSent
<1>7. Written = 0
    BY <1>6, FS_EmptySet DEF Written
<1>8. Dequeued = 0 /\ Queued = 0
    <2>1. Held("writer") = 0 /\ Held("forwarder") = 0
        BY <1>2, <1>3, <1>4 DEF Held, Sender
    <2> QED BY <1>3, <1>7, <2>1 DEF Dequeued, Queued
<1>9. InLine
    BY <1>2, <1>3, <1>4, <1>8 DEF InLine, ChannelInLine, QueueInLine, WriterInLine, Sender
<1>10. ReasonIsLast
    BY <1>2, <1>3, <1>4 DEF ReasonIsLast, ReasonGiven, Sender
<1>11. AcksAreTrue
    BY <1>3, <1>4 DEF AcksAreTrue
<1>12. EventsThenReason
    BY <1>3, <1>6 DEF EventsThenReason
<1> QED BY <1>1, <1>3, <1>5, <1>9, <1>10, <1>11, <1>12, TypesInParts DEF Inductive, RoomForLast

\* Every step keeps the invariant.
LEMMA NextIsInductive == Inductive /\ [Next]_vars => Inductive'
<1> SUFFICES ASSUME Inductive, [Next]_vars PROVE Inductive'
    OBVIOUS
<1>1. TypeOK' /\ RoomForLast'
    BY TypesKept
<1>2. FramesFit' /\ AcksAreTrue' /\ ClosedAfterReason' /\ Passing'
    BY <1>1, FitKept, AcksKept, PassingKept
<1>3. EventsThenReason'
    BY <1>2 DEF EventsThenReason, Passing, EventsNumbered, ReasonNumbered, ClosedAfterReason,
                SentClose, IsReason
<1> QED BY <1>1, <1>2, <1>3 DEF Inductive, Passing

\* The invariant holds for every connection.
THEOREM PeerInduction == Spec => []Inductive
BY InitIsInductive, NextIsInductive, PTL DEF Spec

\* Every variable keeps its type; in particular, the queue of wsPeer never
\* exceeds its capacity.
THEOREM PeerTypesKept == Spec => []TypeOK
<1>1. Inductive => TypeOK
    BY DEF Inductive
<1> QED BY <1>1, PeerInduction, PTL

\* The client is sent the events of its room in order and without gaps, the
\* reason of forwardEvents comes after all of them, and a connection that is
\* still good is closed by forwardEvents or keepAlive only after its close
\* frame was written.
THEOREM EventsBeforeReason == Spec => []EventsThenReason
<1>1. Inductive => EventsThenReason
    BY DEF Inductive
<1> QED BY <1>1, PeerInduction, PTL
=============================================================================
