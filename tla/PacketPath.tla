----------------------------- MODULE PacketPath -----------------------------
(***************************************************************************)
(* The way of a packet through the server, for one session from its first  *)
(* read to its removal: the loop thread cuts packets out of the stream     *)
(* (PacketFraming), puts each into a pooled buffer (DataBufferPool) and    *)
(* posts it to the main thread (EventChannel); the main thread answers a   *)
(* request with another buffer in the session's send queue and gives the   *)
(* first one back; the loop thread gathers queued answers in sendBuf and   *)
(* writes them.  The stream may end at any moment: the loop thread closes  *)
(* the handle and posts the close behind the packets, and the main thread  *)
(* deletes the session with all it holds.  SessionLifecycle has the rest   *)
(* of a session's life; the send queue is the FIFO queue that              *)
(* LockFreeQueue implements, with one producer and one consumer.           *)
(*                                                                         *)
(* Four statements the path needs are missing from the code: nobody adds   *)
(* the bytes of a read to recvDataLen, nobody moves what is waiting in     *)
(* recvBuf to its start, where reading would go on with the next bytes of  *)
(* libuv behind it (buffReadPos), nobody sets connected, and nobody calls  *)
(* doSend for a queued answer (the TODO of sendProtoBufToSession;          *)
(* On_Async_Event has the call as a comment).  Supplied names those that   *)
(* whoever uses the classes has supplied; {} is the code as it is.         *)
(*                                                                         *)
(* sendBuf is modelled by its length and by whose bytes doSend counts into *)
(* it; what memcpy reads there (the object, not its buffer) is left out.   *)
(* The loop thread is followed up to where it leaves recvBuf or sendBuf    *)
(* (loopPc "astray" and "overrun"), and not beyond the delete of its       *)
(* session (SessionLifecycle, CallbacksFindSession).                       *)
(***************************************************************************)
EXTENDS Naturals, Sequences, FiniteSets, SequencesExt

CONSTANTS
  Supplied,          \* which missing statements are there
  MaxPackets,        \* bound on the packets the client sends
  Packet,            \* the kinds of packets: signature, packetsize, msgID
  RECV_BUF_SIZE, PACKET_MAX_SIZE, BufferSizes,
  UINT_SIZE,         \* one more than the largest UINT32
  SendQueueSize,     \* how many buffers sendBuffList takes
  NoBuffer,          \* nullptr
  CloseEvent         \* the event of onCloseSession

ASSUME SizesAssumption ==
  /\ Supplied \subseteq {"recvDataLen", "buffReadPos", "connected", "doSend"}
  /\ RECV_BUF_SIZE \in Nat \ {0}
  /\ PACKET_MAX_SIZE \in 1..RECV_BUF_SIZE
  /\ UINT_SIZE \in Nat /\ UINT_SIZE > 2 * RECV_BUF_SIZE
  /\ BufferSizes \subseteq 0..UINT_SIZE - 1
  /\ SendQueueSize \in Nat \ {0}
  /\ MaxPackets \in Nat

\* A packet is at least a header long, and no longer than recvBuf.
ASSUME PacketAssumption ==
  \A p \in Packet : /\ p.signature \in {"client", "server"}
                    /\ p.packetsize \in 1..RECV_BUF_SIZE

ASSUME EventAssumption ==
  /\ NoBuffer # CloseEvent
  /\ {NoBuffer, CloseEvent} \cap Nat = {}

SEND_BUF_SIZE == RECV_BUF_SIZE
MaxBuffers == 2 * MaxPackets
Buffer == 1..MaxBuffers
Serial == 1..MaxPackets

\* The units of a packet: its header, then the body.  serial, the number of
\* the packet in the stream, is not in the bytes; the properties refer to it.
Unit == [signature : {"client", "server", "none"}, packetsize : 1..RECV_BUF_SIZE,
         serial : Serial]
ZeroUnit == [signature |-> "none", packetsize |-> 0, serial |-> 0]

VARIABLES
  packets,      \* the packets the client sends, chosen at the start
  stream,       \* their units, one packet after the other
  arrived,      \* how many of these have been read
  recvBuf, buffReadPos, recvDataLen, postRecvBuf, postPacketsize,
  bufferpool, made, buffersize,
  content,      \* the serial of the packet that is in a buffer, or answered by it
  pending, batch, item,   \* the event channel; the events are buffers and the close
  session,      \* "open", "closed" by the loop thread, "deleted" by the main thread
  registered,   \* SessionManager has it in its map
  loopPc,       \* where the loop thread is
  loopBuffer,   \* the buffer it has allocated and not yet posted
  mainPc,       \* where the main thread is
  mainBuffer,   \* the buffer of the answer it is making
  sendBuffList, \* the session's send queue
  dropped,      \* buffers a full send queue refused, the session took with it, or
                \* update() took for a session
  prevSendBuf, prevSendOffset,  \* the buffer that did not fit, and how much of it did
  sendDataLen,  \* units in sendBuf
  writing,      \* a uv_write of sendBuf is under way
  copied,       \* history: how many units of each answer doSend has counted
  taken,        \* history: serials of the packets update() got to
  answered,     \* history: serials whose answer doSend has counted to the end
  answerSize    \* history: packetsize in the header of each answer, 0 before it

Framing == INSTANCE PacketFraming
Pool == INSTANCE DataBufferPool
Events == INSTANCE EventChannel
            WITH Event <- Buffer \cup {CloseEvent}, NoEvent <- NoBuffer
Promise == INSTANCE Exchange WITH removed <- session = "deleted"

framingVars == <<recvBuf, buffReadPos, recvDataLen, postRecvBuf, postPacketsize>>
clientVars == <<packets, stream>>
recvVars == <<clientVars, arrived, framingVars>>
poolVars == <<bufferpool, made, buffersize, content>>
eventVars == <<pending, batch, item>>
mainVars == <<mainPc, mainBuffer, taken, answerSize, registered>>
queueVars == <<sendBuffList, dropped>>
sendVars == <<prevSendBuf, prevSendOffset, sendDataLen, copied, answered>>
vars == <<recvVars, poolVars, eventVars, session, loopPc, loopBuffer, mainVars,
          queueVars, sendVars, writing>>

UnitsOf(ps, n) ==
  [i \in 1..ps[n].packetsize |->
     [signature |-> IF i = 1 THEN ps[n].signature ELSE "none",
      packetsize |-> ps[n].packetsize, serial |-> n]]

\* end says how long the stream of ps is with its first n packets ...
IsLayout(ps, end) ==
  /\ end[0] = 0
  /\ \A n \in Serial : end[n] = end[n - 1] + ps[n].packetsize

\* ... and packet n ends there.
StreamOf(ps, end) ==
  [i \in 1..end[MaxPackets] |->
     LET n == CHOOSE n \in Serial : end[n - 1] < i /\ i <= end[n]
     IN  UnitsOf(ps, n)[i - end[n - 1]]]

TypeOK ==
  /\ packets \in [Serial -> Packet]
  /\ stream \in Seq(Unit)
  /\ arrived \in 0..Len(stream)
  /\ Framing!FramingTypeOK
  /\ Pool!PoolTypeOK
  /\ content \in [Buffer -> 0..MaxPackets]
  /\ Events!ChannelTypeOK
  /\ session \in {"open", "closed", "deleted"}
  /\ registered \in BOOLEAN
  /\ loopPc \in {"poll", "frame", "alloc", "post", "post close", "gather", "write",
                "astray", "overrun"}
  /\ loopBuffer \in Buffer \cup {NoBuffer}
  /\ mainPc \in {"update", "dispatch", "push", "release"}
  /\ mainBuffer \in Buffer \cup {NoBuffer}
  /\ sendBuffList \in Seq(Buffer) /\ Len(sendBuffList) <= SendQueueSize
  /\ dropped \in SUBSET Buffer
  /\ prevSendBuf \in Buffer \cup {NoBuffer}
  /\ prevSendOffset \in 0..SEND_BUF_SIZE
  /\ sendDataLen \in Nat
  /\ writing \in BOOLEAN
  /\ copied \in [Serial -> Nat]
  /\ taken \in Seq(Serial)
  /\ answered \in Seq(Serial)
  /\ answerSize \in [Serial -> Nat]

Init ==
  /\ packets \in [Serial -> Packet]
  /\ \E end \in [0..MaxPackets -> 0..MaxPackets * RECV_BUF_SIZE] :
       IsLayout(packets, end) /\ stream = StreamOf(packets, end)
  /\ arrived = 0
  /\ Framing!Init
  /\ Pool!Init
  /\ content = [b \in Buffer |-> 0]
  /\ Events!Init
  /\ session = "open" /\ registered = TRUE
  /\ loopPc = "poll" /\ loopBuffer = NoBuffer
  /\ mainPc = "update" /\ mainBuffer = NoBuffer
  /\ sendBuffList = <<>> /\ dropped = {}
  /\ prevSendBuf = NoBuffer /\ prevSendOffset = 0
  /\ sendDataLen = 0 /\ writing = FALSE
  /\ copied = [n \in Serial |-> 0]
  /\ taken = <<>> /\ answered = <<>>
  /\ answerSize = [n \in Serial |-> 0]

\* A value that may be nullptr, as a sequence.
Held(b) == IF b = NoBuffer THEN <<>> ELSE <<b>>

\* A buffer out of the pool, for packet n or its answer, and back.
alloc(b, n) == Pool!allocBuffer(b) /\ content' = [content EXCEPT ![b] = n]
release(b) == Pool!releaseBuffer(b) /\ UNCHANGED content

-----------------------------------------------------------------------------
(* The loop thread: a read, handleRecvPacket and recvDataToHander. *)

\* recvBuf when the next bytes come.  Whoever has supplied buffReadPos has moved
\* what is waiting to its start and cleared the rest.
Ready == [i \in 1..RECV_BUF_SIZE |->
            IF "buffReadPos" \notin Supplied THEN recvBuf[i]
            ELSE IF i <= recvDataLen THEN recvBuf[buffReadPos + i] ELSE ZeroUnit]

\* On_AllocBuff offers what is free behind recvDataLen, libuv puts some units
\* there, and On_ResultReadData calls handleRecvPacket, which looks at those from
\* buffReadPos on, whether or not recvBuf has as many behind it.
On_ResultReadData ==
  /\ loopPc = "poll"
  /\ session = "open"
  /\ \E k \in 1..RECV_BUF_SIZE - recvDataLen :
       /\ arrived + k <= Len(stream)
       /\ arrived' = arrived + k
       /\ recvDataLen' = IF "recvDataLen" \in Supplied THEN recvDataLen + k ELSE recvDataLen
       /\ buffReadPos' = IF "buffReadPos" \in Supplied THEN 0 ELSE buffReadPos
       /\ recvBuf' = [i \in 1..RECV_BUF_SIZE |->
                         IF i \in recvDataLen + 1..recvDataLen + k
                         THEN stream[arrived + (i - recvDataLen)]
                         ELSE Ready[i]]
  /\ loopPc' = IF buffReadPos' + recvDataLen' <= RECV_BUF_SIZE THEN "frame" ELSE "astray"
  /\ UNCHANGED <<clientVars, postRecvBuf, postPacketsize, poolVars, eventVars, session,
                 loopBuffer, mainVars, queueVars, sendVars, writing>>

\* One round of the loop: it stops, goes on, or has a packet to hand over.
handleRecvPacket ==
  /\ loopPc = "frame"
  /\ \/ Framing!Stops /\ loopPc' = "poll"
     \/ Framing!StartPending /\ loopPc' = "frame"
     \/ Framing!HandsOver /\ loopPc' = "alloc"
  /\ UNCHANGED <<clientVars, arrived, poolVars, eventVars, session, loopBuffer, mainVars,
                 queueVars, sendVars, writing>>

\* allocBuffer and copyData ...
FillBuffer ==
  /\ loopPc = "alloc"
  /\ \E buff \in Buffer : alloc(buff, postRecvBuf[1].serial) /\ loopBuffer' = buff
  /\ loopPc' = "post"
  /\ UNCHANGED <<recvVars, eventVars, session, mainVars, queueVars, sendVars, writing>>

\* ... and ServerCore::onRecvData; then the thread is at next.
PostBuffer(next) ==
  /\ loopPc = "post"
  /\ Events!Post(loopBuffer)
  /\ loopBuffer' = NoBuffer
  /\ loopPc' = next
  /\ UNCHANGED <<clientVars, arrived, poolVars, session, mainVars, queueVars, sendVars, writing>>

\* Faulty: one packet is handed over for each read.
PostPacketAndStop == PostBuffer("poll") /\ Framing!Clear

\* Faulty: the lengths are not reset, and the packet is handed over again.
PostPacketAgain == PostBuffer("alloc") /\ UNCHANGED framingVars

\* The packet is done with.
PostPacket == PostBuffer("frame") /\ Framing!Clear

-----------------------------------------------------------------------------
(* The loop thread: the end of the stream. *)

\* On_ResultReadData with a negative size: close() up to the handler's turn.
\* What was read and not handed over is forgotten.
ReadEnds ==
  /\ loopPc = "poll"
  /\ session = "open"
  /\ session' = "closed"
  /\ recvDataLen' = 0
  /\ loopPc' = "post close"
  /\ UNCHANGED <<clientVars, arrived, recvBuf, buffReadPos, postRecvBuf, postPacketsize,
                 poolVars, eventVars, loopBuffer, mainVars, queueVars, sendVars, writing>>

PostsClose ==
  /\ loopPc = "post close"
  /\ loopPc' = "poll"
  /\ UNCHANGED <<recvVars, poolVars, session, loopBuffer, mainVars, queueVars, sendVars, writing>>

\* Faulty: the close overtakes what is pending.
PostCloseFirst ==
  /\ PostsClose
  /\ pending' = <<CloseEvent>> \o pending
  /\ UNCHANGED <<batch, item>>

\* ServerCore::onCloseSession.
PostClose == PostsClose /\ Events!Post(CloseEvent)

-----------------------------------------------------------------------------
(* The main thread: update, the PacketHandler and sendProtoBuf. *)

SwapQueues ==
  /\ mainPc = "update"
  /\ Events!TakeBatch
  /\ UNCHANGED <<recvVars, poolVars, session, loopPc, loopBuffer, mainVars, queueVars,
                 sendVars, writing>>

NextPacket ==
  /\ mainPc = "update"
  /\ Events!NextItem
  /\ mainPc' = "dispatch"
  /\ UNCHANGED <<recvVars, poolVars, session, loopPc, loopBuffer, mainBuffer, taken,
                 answerSize, registered, queueVars, sendVars, writing>>

ClearBatch ==
  /\ mainPc = "update"
  /\ Events!EndBatch
  /\ UNCHANGED <<recvVars, poolVars, session, loopPc, loopBuffer, mainVars, queueVars,
                 sendVars, writing>>

\* onCloseSession does nothing; removeSession deletes the session, and with it
\* the send queue and prevSendBuf.  (No step of another thread looks at the
\* map between its erase and its delete.)
RemoveSession ==
  /\ mainPc = "dispatch"
  /\ item = CloseEvent
  /\ registered
  /\ session' = "deleted" /\ registered' = FALSE
  /\ dropped' = dropped \cup ToSet(sendBuffList \o Held(prevSendBuf))
  /\ sendBuffList' = <<>>
  /\ prevSendBuf' = NoBuffer
  /\ mainPc' = "update"
  /\ UNCHANGED <<recvVars, poolVars, eventVars, loopPc, loopBuffer, mainBuffer, taken,
                 answerSize, prevSendOffset, sendDataLen, copied, answered, writing>>

\* removeSession does not find the session.
SessionNotFound ==
  /\ mainPc = "dispatch"
  /\ item = CloseEvent
  /\ ~ registered
  /\ mainPc' = "update"
  /\ UNCHANGED <<recvVars, poolVars, eventVars, session, loopPc, loopBuffer, mainBuffer,
                 taken, answerSize, registered, queueVars, sendVars, writing>>

msgID(n) == packets[n].msgID
IsEvent(n) == msgID(n) \in Promise!SessionEvents
IsRequest(n) == msgID(n) \in Promise!Requests

\* update() goes by the msgID alone, which onRecvData takes from the header.
IsPacket == item # CloseEvent /\ ~ IsEvent(content[item])

\* The buffer of a packet with that msgID is taken for a session, and not released.
TakenForSession(id) ==
  /\ mainPc = "dispatch"
  /\ item # CloseEvent
  /\ msgID(content[item]) = id
  /\ taken' = Append(taken, content[item])
  /\ dropped' = dropped \cup {item}
  /\ mainPc' = "update"
  /\ UNCHANGED <<recvVars, poolVars, eventVars, session, loopPc, loopBuffer, mainBuffer,
                 answerSize, sendBuffList, sendVars, writing>>

\* onNewSession does nothing.
TakenForNew ==
  /\ TakenForSession("new connection")
  /\ UNCHANGED registered

\* removeSession looks for an id that it reads behind the buffer: any.  If it is
\* this session's the session is taken out of the map, and not deleted.  (Other
\* sessions are not in this module.)
TakenForClose ==
  /\ TakenForSession("close connection")
  /\ registered' \in {registered, FALSE}

\* isConnected: uv_is_closing from close() on.
isConnected == "connected" \in Supplied /\ session = "open"

\* sendProtoBufToSession finds the session (getSession), and it is connected.
Answerable(n) == IsRequest(n) /\ registered /\ isConnected

\* PacketHandler::dispatchPacket does nothing with other packets, and
\* sendProtoBufToSession returns FALSE.
DispatchUnanswered ==
  /\ mainPc = "dispatch"
  /\ IsPacket
  /\ ~ Answerable(content[item])
  /\ taken' = Append(taken, content[item])
  /\ mainPc' = "release"
  /\ UNCHANGED <<recvVars, poolVars, eventVars, session, loopPc, loopBuffer, mainBuffer,
                 answerSize, registered, queueVars, sendVars, writing>>

\* What the acknowledgement takes when it is serialised: that of a login holds
\* an ok that is not 0, one unit, that of an account one that is, nothing.  And
\* the size a message remembers before anybody has asked for the first.
ByteSizeLong(n) == IF msgID(n) = "login" THEN 1 ELSE 0
GetCachedSize == 0

\* onLoginReq and onCreateAccountReq: a buffer for the answer, with the length
\* that sendProtoBuf took from the acknowledgement.
MakeAnswer ==
  /\ mainPc = "dispatch"
  /\ IsPacket
  /\ Answerable(content[item])
  /\ \E buff \in Buffer : alloc(buff, content[item]) /\ mainBuffer' = buff
  /\ answerSize' = [answerSize EXCEPT ![content[item]] = GetCachedSize + 1]
  /\ taken' = Append(taken, content[item])
  /\ mainPc' = "push"
  /\ UNCHANGED <<recvVars, eventVars, session, loopPc, loopBuffer, registered, queueVars,
                 sendVars, writing>>

\* sendBuffer to a queue that takes at most max; nobody looks at what push
\* returned.
PushAnswer(max) ==
  /\ mainPc = "push"
  /\ IF Len(sendBuffList) < max
     THEN sendBuffList' = Append(sendBuffList, mainBuffer) /\ UNCHANGED dropped
     ELSE dropped' = dropped \cup {mainBuffer} /\ UNCHANGED sendBuffList
  /\ mainBuffer' = NoBuffer
  /\ mainPc' = "release"
  /\ UNCHANGED <<recvVars, poolVars, eventVars, session, loopPc, loopBuffer, taken,
                 answerSize, registered, sendVars, writing>>

\* Faulty: a queue without a limit.
sendBufferUnbounded == PushAnswer(MaxBuffers)

sendBuffer == PushAnswer(SendQueueSize)

PacketDone ==
  /\ mainPc = "release"
  /\ mainPc' = "update"
  /\ UNCHANGED <<recvVars, eventVars, session, loopPc, loopBuffer, mainBuffer, taken,
                 answerSize, registered, queueVars, sendVars, writing>>

\* Faulty: the buffer of the packet is forgotten.
ForgetPacket == PacketDone /\ UNCHANGED poolVars

\* Faulty: nothing is done for a session that is closed.
ReleaseIfOpen == PacketDone /\ IF session = "open" THEN release(item) ELSE UNCHANGED poolVars

\* item.dataBuffer->release()
ReleasePacket == PacketDone /\ release(item)

-----------------------------------------------------------------------------
(* The loop thread: doSend. *)

\* doSend counts n units of buff into sendBuf, of which len are there already.
Count(buff, n, len) ==
  /\ sendDataLen' = len + n
  /\ copied' = [copied EXCEPT ![content[buff]] = @ + n]

\* ... and these were its last ones.
CountLast(buff, n, len) ==
  /\ Count(buff, n, len)
  /\ answered' = Append(answered, content[buff])

\* memcpy of more than sendBuf holds: what is overwritten is not modelled.
Overrun ==
  /\ loopPc' = "overrun"
  /\ UNCHANGED <<recvVars, poolVars, eventVars, session, loopBuffer, mainVars, queueVars,
                 sendVars>>

\* doSend begins with what it did not send of prevSendBuf, from offset on, if
\* it still has it; keeps says whether it holds on to it.
ResumeWith(offset, keeps) ==
  /\ loopPc' = "gather"
  /\ IF prevSendBuf = NoBuffer
     THEN /\ sendDataLen' = 0
          /\ UNCHANGED <<copied, answered, poolVars, prevSendBuf, prevSendOffset>>
     ELSE /\ CountLast(prevSendBuf, buffersize[prevSendBuf] - offset, 0)
          /\ IF keeps THEN UNCHANGED <<poolVars, prevSendBuf, prevSendOffset>>
             ELSE release(prevSendBuf) /\ prevSendBuf' = NoBuffer /\ prevSendOffset' = 0
  /\ UNCHANGED <<recvVars, eventVars, session, loopBuffer, mainVars, queueVars>>

Resume(offset, keeps) ==
  IF prevSendBuf # NoBuffer /\ buffersize[prevSendBuf] - offset > SEND_BUF_SIZE
  THEN Overrun ELSE ResumeWith(offset, keeps)

\* Faulty: prevSendBuf is not reset.
BeginSendKeep == Resume(prevSendOffset, TRUE)

\* Faulty: the buffer that did not fit is sent again from its start.
BeginSendAgain == Resume(0, FALSE)

BeginSend == Resume(prevSendOffset, FALSE)

\* Somebody calls doSend for what is queued, while no write is under way.
doSend ==
  /\ "doSend" \in Supplied
  /\ loopPc = "poll"
  /\ session = "open"
  /\ ~ writing
  /\ sendBuffList # <<>>
  /\ BeginSend
  /\ UNCHANGED writing

WriteDone ==
  /\ loopPc = "poll"
  /\ session # "deleted"
  /\ writing
  /\ writing' = FALSE

\* Faulty: the completion of a write is not followed by the next doSend.
On_WriteDataIdle ==
  /\ WriteDone
  /\ UNCHANGED <<recvVars, poolVars, eventVars, session, loopPc, loopBuffer, mainVars,
                 queueVars, sendVars>>

\* libuv has written sendBuf, or cancelled that because of uv_close: the next
\* doSend in either case.
On_WriteData == WriteDone /\ BeginSend

\* A buffer that fits below max, by the sum of UINT32s, is copied and released.
GatherBelow(max) ==
  /\ loopPc = "gather"
  /\ sendBuffList # <<>>
  /\ LET buff == Head(sendBuffList)
     IN  /\ (sendDataLen + buffersize[buff]) % UINT_SIZE < max
         /\ IF sendDataLen + buffersize[buff] > SEND_BUF_SIZE THEN Overrun
            ELSE /\ CountLast(buff, buffersize[buff], sendDataLen)
                 /\ release(buff)
                 /\ sendBuffList' = Tail(sendBuffList)
                 /\ UNCHANGED <<recvVars, eventVars, session, loopPc, loopBuffer, mainVars,
                                dropped, prevSendBuf, prevSendOffset>>
  /\ UNCHANGED writing

\* Faulty: nothing asks whether the buffer fits.
GatherWholeUnchecked == GatherBelow(4 * SEND_BUF_SIZE)

GatherWhole == GatherBelow(SEND_BUF_SIZE)

\* Of one that does not fit, sendBuf takes what it can.
GatherPart ==
  /\ loopPc = "gather"
  /\ sendBuffList # <<>>
  /\ LET buff == Head(sendBuffList)
         room == SEND_BUF_SIZE - sendDataLen
     IN  /\ (sendDataLen + buffersize[buff]) % UINT_SIZE >= SEND_BUF_SIZE
         /\ Count(buff, room, sendDataLen)
         /\ prevSendBuf' = buff
         /\ prevSendOffset' = room
  /\ sendBuffList' = Tail(sendBuffList)
  /\ loopPc' = "write"
  /\ UNCHANGED <<recvVars, poolVars, eventVars, session, loopBuffer, mainVars, dropped,
                 answered, writing>>

\* pop finds nothing more.
GatherNothing ==
  /\ loopPc = "gather"
  /\ session # "deleted"
  /\ sendBuffList = <<>>
  /\ loopPc' = "write"
  /\ UNCHANGED <<recvVars, poolVars, eventVars, session, loopBuffer, mainVars, queueVars,
                 sendVars, writing>>

\* uv_write, unless nothing was gathered; libuv refuses it on a closed handle.
Write ==
  /\ loopPc = "write"
  /\ session # "deleted"
  /\ writing' = (sendDataLen > 0 /\ session = "open")
  /\ loopPc' = "poll"
  /\ UNCHANGED <<recvVars, poolVars, eventVars, session, loopBuffer, mainVars, queueVars, sendVars>>

-----------------------------------------------------------------------------
Receive == handleRecvPacket \/ FillBuffer \/ PostPacket \/ PostClose
Gather == GatherWhole \/ GatherPart \/ GatherNothing \/ Write
Main ==
  \/ SwapQueues
  \/ NextPacket
  \/ RemoveSession
  \/ SessionNotFound
  \/ TakenForNew
  \/ TakenForClose
  \/ DispatchUnanswered
  \/ MakeAnswer
  \/ sendBuffer
  \/ ReleasePacket
  \/ ClearBatch

Next ==
  \/ On_ResultReadData
  \/ ReadEnds
  \/ Receive
  \/ doSend
  \/ On_WriteData
  \/ Gather
  \/ Main

Spec == Init /\ [][Next]_vars

(***************************************************************************)
(* Both threads run, libuv reports a write that is done even if there is   *)
(* always more to read, and the call of doSend is made if there is always  *)
(* something queued.  The client need neither send nor hang up.            *)
(***************************************************************************)
Fairness ==
  /\ WF_vars(Receive \/ Gather)
  /\ WF_vars(Main)
  /\ SF_vars(On_WriteData)
  /\ SF_vars(doSend)

FairSpec == Spec /\ Fairness

-----------------------------------------------------------------------------
(* Properties. *)

\* Everywhere an event or a buffer can be.
places == bufferpool \o Held(loopBuffer) \o pending \o batch
            \o (IF mainPc = "update" THEN <<>> ELSE <<item>>)
            \o Held(mainBuffer) \o sendBuffList \o Held(prevSendBuf)

\* Every DataBuff is in exactly one place: none is lost but those a full send
\* queue refused, a deleted session held or update() took for a session, none is
\* released twice, none is released and still used; and there is one close event
\* at most.
OneOwner ==
  /\ IsInjective(places)
  /\ ToSet(places) \ {CloseEvent} = (1..made) \ dropped

\* What recvDataToHander hands over is one packet of the stream, whole, and it
\* is the one after those already handed over; only checked headers get there.
FramingExact ==
  LET next == Len(taken) + (IF mainPc = "dispatch" THEN 1 ELSE 0)
                + Len(batch) + Len(pending) + 1
  IN  loopPc = "alloc" =>
        /\ postRecvBuf = UnitsOf(packets, next)
        /\ packets[next].signature = "client"

\* The two threads and everything between them do what Exchange says: the main
\* thread gets to the next packet of the stream, valid and only once, or the next
\* request is answered, as long as the session is there, or nothing the client
\* can tell.
ImplementsExchange == Promise!Spec

\* While packets of a session are with the main thread the session is there:
\* its close, posted behind them, is handled behind them.  So an answer is not
\* pushed into a deleted session.
PacketFindsSession ==
  session = "deleted" =>
    /\ pending = <<>> /\ batch = <<>>
    /\ mainPc = "update"

\* Answers leave in the order of their requests and are not repeated.
AnsweredInOrder ==
  \A i, j \in DOMAIN answered : i < j => answered[i] < answered[j]

\* sendBuf is overrun only by a buffer whose buffersize, which nobody sets, is
\* more than sendBuf holds, never by gathering; and of the buffer that did not fit
\* exactly the first prevSendOffset units have been counted into it.
SendBufFits ==
  /\ loopPc = "overrun" => \E b \in 1..made : buffersize[b] > SEND_BUF_SIZE
  /\ prevSendBuf # NoBuffer =>
       /\ prevSendOffset = copied[content[prevSendBuf]]
       /\ prevSendOffset <= buffersize[prevSendBuf]

\* A buffer goes from the send side back to the pool when every unit of it was
\* counted into sendBuf, once.
AnswersWhole ==
  [][\A b \in ToSet(sendBuffList \o Held(prevSendBuf)) :
       b \in ToSet(bufferpool') => copied'[content[b]] = buffersize[b]]_vars

\* The n-th packet has arrived, and no header up to it was invalid.
Deliverable(n) ==
  /\ \E k \in 1..arrived :
       stream[k].serial = n /\ (k = Len(stream) \/ stream[k + 1].serial # n)
  /\ \A m \in 1..n : packets[m].signature = "client"

\* update() gets to every packet that has arrived, also when the stream ends behind
\* it, and hands those that do not name an event to the handler: again and again
\* all that have arrived were taken, unless doSend has overrun sendBuf.
PacketsAreHandled ==
  []<>(\/ loopPc = "overrun"
       \/ \A n \in Serial : Deliverable(n) => n \in ToSet(taken))

\* Every request that is handled is answered, unless its answer was dropped, the
\* session was closed, the client's own packet has taken it out of the map or
\* doSend has overrun sendBuf.
RequestsAreAnswered ==
  []<>(\A n \in ToSet(taken) :
         IsRequest(n) => \/ n \in ToSet(answered)
                         \/ session # "open"
                         \/ loopPc = "overrun"
                         \/ ~ registered
                         \/ \E b \in dropped : content[b] = n)

\* When a session is gone every buffer is free again, but for those that were
\* dropped: nothing else is lost in a close with packets and answers under way.
BuffersComeBack == session = "deleted" ~> ToSet(bufferpool) = (1..made) \ dropped

\* The packetsize in the header of an answer is, as the comment says, that of
\* the message and of the header.
AnswerHoldsMessage ==
  \A n \in Serial : answerSize[n] # 0 => answerSize[n] = ByteSizeLong(n) + 1
=============================================================================
