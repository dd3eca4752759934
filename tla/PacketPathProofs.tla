-------------------------- MODULE PacketPathProofs --------------------------
(***************************************************************************)
(* The way of a packet, for any stream, sizes, queue and moment of the     *)
(* close, and whichever of the missing statements are supplied.            *)
(***************************************************************************)
EXTENDS PacketPath, SequenceFacts

-----------------------------------------------------------------------------
(* Types, stronger than TypeOK: the buffers in use are those made so far,  *)
(* and each thread holds one only where the code does.                     *)

Made == 1..made

\* What is in recvBuf, of the stream or from the start.
Cell == Unit \cup {ZeroUnit}

LoopPcs == {"poll", "frame", "alloc", "post", "post close", "gather", "write", "astray", "overrun"}

ReceiveOK ==
  /\ packets \in [Serial -> Packet]
  /\ stream \in Seq(Unit)
  /\ arrived \in 0..Len(stream)
  /\ Framing!FramingTypeOK
  /\ loopPc # "astray" => buffReadPos + recvDataLen <= RECV_BUF_SIZE
  /\ "recvDataLen" \notin Supplied => recvDataLen = 0 /\ buffReadPos = 0
  /\ loopPc \in LoopPcs
  /\ postRecvBuf # <<>> => postRecvBuf[1] \in Unit
  /\ IF loopPc \in {"alloc", "post"} THEN postRecvBuf # <<>>
     ELSE IF postPacketsize = 0 THEN postRecvBuf = <<>>
                                ELSE postRecvBuf # <<>> /\ Len(postRecvBuf) < postPacketsize

PoolOK ==
  /\ made \in 0..MaxBuffers
  /\ bufferpool \in Seq(Made)
  /\ buffersize \in [Made -> BufferSizes]
  /\ content \in [Buffer -> 0..MaxPackets]
  /\ \A b \in Made : content[b] \in Serial

EventOK ==
  /\ pending \in Seq(Made \cup {CloseEvent})
  /\ batch \in Seq(Made \cup {CloseEvent})
  /\ mainPc \in {"update", "dispatch", "push", "release"}
  /\ item \in Made \cup {CloseEvent, NoBuffer}
  /\ mainPc = "dispatch" => item # NoBuffer
  /\ mainPc \in {"push", "release"} => item \in Made

HolderOK ==
  /\ loopBuffer \in Made \cup {NoBuffer}
  /\ loopBuffer # NoBuffer <=> loopPc = "post"
  /\ mainBuffer \in Made \cup {NoBuffer}
  /\ mainBuffer # NoBuffer <=> mainPc = "push"
  /\ sendBuffList \in Seq(Made)
  /\ Len(sendBuffList) <= SendQueueSize
  /\ prevSendBuf \in Made \cup {NoBuffer}
  /\ loopPc = "gather" => prevSendBuf = NoBuffer
  /\ dropped \in SUBSET Made

SendOK ==
  /\ session \in {"open", "closed", "deleted"}
  /\ prevSendOffset \in 0..SEND_BUF_SIZE
  /\ sendDataLen \in 0..SEND_BUF_SIZE
  /\ writing \in BOOLEAN
  /\ copied \in [Serial -> Nat]
  /\ taken \in Seq(Serial)
  /\ answered \in Seq(Serial)
  /\ answerSize \in [Serial -> Nat]
  /\ registered \in BOOLEAN
  /\ prevSendBuf # NoBuffer => prevSendOffset <= buffersize[prevSendBuf]

Typed == ReceiveOK /\ PoolOK /\ EventOK /\ HolderOK /\ SendOK

LEMMA Constants ==
  /\ RECV_BUF_SIZE \in Nat \ {0} /\ SEND_BUF_SIZE = RECV_BUF_SIZE
  /\ PACKET_MAX_SIZE \in Nat /\ PACKET_MAX_SIZE >= 1 /\ PACKET_MAX_SIZE <= RECV_BUF_SIZE
  /\ \A n \in BufferSizes : n \in Nat
  /\ UINT_SIZE \in Nat /\ UINT_SIZE > 2 * RECV_BUF_SIZE
  /\ SendQueueSize \in Nat \ {0}
  /\ MaxPackets \in Nat /\ MaxBuffers \in Nat
  /\ NoBuffer \notin Nat /\ CloseEvent \notin Nat /\ NoBuffer # CloseEvent
BY SizesAssumption, EventAssumption DEF SEND_BUF_SIZE, MaxBuffers

-----------------------------------------------------------------------------
(* The pool. *)

LEMMA AllocFacts ==
  ASSUME PoolOK, NEW b \in Buffer, NEW n \in Serial, alloc(b, n)
  PROVE  /\ \/ /\ bufferpool # <<>> /\ b = Head(bufferpool) /\ bufferpool' = Tail(bufferpool)
               /\ made' = made /\ buffersize' = buffersize /\ b \in Made
            \/ /\ bufferpool = <<>> /\ bufferpool' = <<>>
               /\ b = made + 1 /\ made' = made + 1
               /\ \A c \in Made : buffersize'[c] = buffersize[c]
         /\ b \in Made' /\ Made \subseteq Made'
         /\ content' = [content EXCEPT ![b] = n]
         /\ PoolOK'
<1> USE DEF Made
<1>1. /\ made \in Nat /\ made <= MaxBuffers /\ MaxBuffers \in Nat /\ MaxPackets \in Nat
      /\ bufferpool \in Seq(1..made)
      /\ buffersize \in [1..made -> BufferSizes]
      /\ content \in [Buffer -> 0..MaxPackets]
      /\ \A c \in 1..made : content[c] \in Serial
  BY Constants DEF PoolOK
<1>2. content' = [content EXCEPT ![b] = n] /\ Pool!allocBuffer(b)
  BY DEF alloc
<1>3. /\ content' \in [Buffer -> 0..MaxPackets]
      /\ content'[b] = n
      /\ \A c \in Buffer : c # b => content'[c] = content[c]
  BY <1>1, <1>2 DEF Serial
<1>4. CASE bufferpool # <<>> /\ b = Head(bufferpool) /\ bufferpool' = Tail(bufferpool)
           /\ UNCHANGED <<made, buffersize>>
  <2>1. b \in 1..made /\ bufferpool' \in Seq(1..made)
    BY <1>1, <1>4, HeadTailProperties
  <2>2. \A c \in 1..made : content'[c] \in Serial
    BY <1>1, <1>3 DEF Buffer
  <2> QED
    BY <1>1, <1>2, <1>3, <1>4, <2>1, <2>2 DEF PoolOK
<1>5. CASE /\ bufferpool = <<>> /\ b = made + 1 /\ b \in Pool!Buffer /\ made' = b
           /\ \E size \in BufferSizes : buffersize' = Append(buffersize, size)
           /\ UNCHANGED bufferpool
  <2>1. PICK size \in BufferSizes : buffersize' = Append(buffersize, size)
    BY <1>5
  <2>2. buffersize \in Seq(BufferSizes) /\ Len(buffersize) = made
    BY <1>1
  <2>3. /\ buffersize' \in [1..made + 1 -> BufferSizes]
        /\ \A c \in 1..made : buffersize'[c] = buffersize[c]
    <3>1. /\ buffersize' \in Seq(BufferSizes) /\ Len(buffersize') = made + 1
          /\ \A c \in 1..made : buffersize'[c] = buffersize[c]
      BY <1>1, <2>1, <2>2, AppendFacts
    <3> QED
      BY <3>1, LenProperties
  <2>4. made + 1 <= MaxBuffers
    BY <1>5 DEF Pool!Buffer
  <2>5. \A c \in 1..made + 1 : content'[c] \in Serial
    BY <1>1, <1>3, <1>5, <2>4 DEF Buffer
  <2>6. bufferpool' = <<>> /\ bufferpool' \in Seq(1..made')
    BY <1>5
  <2>7. PoolOK'
    BY <1>1, <1>3, <1>5, <2>3, <2>4, <2>5, <2>6 DEF PoolOK
  <2> QED
    BY <1>1, <1>2, <1>5, <2>3, <2>6, <2>7
<1> QED
  BY <1>2, <1>4, <1>5 DEF Pool!allocBuffer

LEMMA ReleaseFacts ==
  ASSUME PoolOK, NEW b \in Made, release(b)
  PROVE  /\ bufferpool' = <<b>> \o bufferpool
         /\ UNCHANGED <<made, buffersize, content>>
         /\ PoolOK'
<1>1. bufferpool' = <<b>> \o bufferpool /\ UNCHANGED <<made, buffersize, content>>
  BY DEF release, Pool!releaseBuffer
<1>2. bufferpool' \in Seq(Made)
  BY <1>1, ConcatProperties DEF PoolOK
<1> QED
  BY <1>1, <1>2 DEF PoolOK, Made

LEMMA MoreMade ==
  ASSUME Made \subseteq Made'
  PROVE  /\ \A s \in Seq(Made) : s \in Seq(Made')
         /\ \A s \in Seq(Made \cup {CloseEvent}) : s \in Seq(Made' \cup {CloseEvent})
BY SeqMonotonic

-----------------------------------------------------------------------------
(* Framing keeps the types. *)

LEMMA ReceiveFacts ==
  ASSUME ReceiveOK
  PROVE  /\ \A i \in 1..RECV_BUF_SIZE : recvBuf[i] \in Cell
         /\ recvDataLen \in Nat /\ buffReadPos \in Nat
         /\ loopPc # "astray" => buffReadPos + recvDataLen <= RECV_BUF_SIZE
         /\ postRecvBuf \in Seq(Cell) /\ Len(postRecvBuf) \in Nat
         /\ Len(postRecvBuf) <= RECV_BUF_SIZE
         /\ postPacketsize \in Nat /\ postPacketsize <= PACKET_MAX_SIZE
<1>1. /\ recvBuf \in [1..RECV_BUF_SIZE -> Cell]
      /\ recvDataLen \in 0..RECV_BUF_SIZE /\ buffReadPos \in 0..RECV_BUF_SIZE
      /\ postRecvBuf \in Seq(Cell) /\ Len(postRecvBuf) <= RECV_BUF_SIZE
      /\ postPacketsize \in 0..PACKET_MAX_SIZE
      /\ loopPc # "astray" => buffReadPos + recvDataLen <= RECV_BUF_SIZE
  BY DEF ReceiveOK, Framing!FramingTypeOK, Cell
<1> QED
  BY <1>1, Constants, LenProperties

LEMMA UnreadFacts ==
  ASSUME ReceiveOK, loopPc # "astray"
  PROVE  /\ Framing!unread \in Seq(Cell) /\ Len(Framing!unread) = recvDataLen
         /\ \A i \in 1..recvDataLen : Framing!unread[i] = recvBuf[buffReadPos + i]
         /\ recvDataLen >= 1 => Framing!header = Framing!unread[1] /\ Framing!header \in Cell
<1>1. /\ \A i \in 1..RECV_BUF_SIZE : recvBuf[i] \in Cell
      /\ buffReadPos \in Nat /\ recvDataLen \in Nat
      /\ buffReadPos + recvDataLen <= RECV_BUF_SIZE
  BY ReceiveFacts
<1>2. \A i \in buffReadPos + 1..buffReadPos + recvDataLen : recvBuf[i] \in Cell
  BY <1>1, Constants
<1>3. /\ Framing!unread \in Seq(Cell)
      /\ Len(Framing!unread) = IF buffReadPos + 1 <= buffReadPos + recvDataLen
                               THEN (buffReadPos + recvDataLen) - (buffReadPos + 1) + 1 ELSE 0
      /\ \A i \in 1..(buffReadPos + recvDataLen) - (buffReadPos + 1) + 1 :
           Framing!unread[i] = recvBuf[buffReadPos + 1 + i - 1]
  <2> DEFINE m == buffReadPos + 1
             n == buffReadPos + recvDataLen
  <2>1. m \in Int /\ n \in Int
    BY <1>1
  <2>2. \A i \in m..n : recvBuf[i] \in Cell
    BY <1>2
  <2>3. Framing!unread = SubSeq(recvBuf, m, n)
    BY DEF Framing!unread
  <2> HIDE DEF m, n
  <2>4. /\ SubSeq(recvBuf, m, n) \in Seq(Cell)
        /\ Len(SubSeq(recvBuf, m, n)) = IF m <= n THEN n - m + 1 ELSE 0
        /\ \A i \in 1..n - m + 1 : SubSeq(recvBuf, m, n)[i] = recvBuf[m + i - 1]
    BY <2>1, <2>2, SubSeqProperties
  <2> QED
    BY <2>3, <2>4 DEF m, n
<1>4. /\ Len(Framing!unread) = recvDataLen
      /\ \A i \in 1..recvDataLen : Framing!unread[i] = recvBuf[buffReadPos + i]
  <2>1. buffReadPos \in Nat /\ recvDataLen \in Nat
    BY <1>1
  <2> QED
    BY <2>1, <1>3
<1>5. recvDataLen >= 1 => Framing!header = Framing!unread[1] /\ Framing!header \in Cell
  <2> HAVE recvDataLen >= 1
  <2>1. buffReadPos + 1 \in 1..RECV_BUF_SIZE /\ 1 \in 1..recvDataLen
    BY <1>1, Constants
  <2> QED
    BY <1>1, <1>4, <2>1 DEF Framing!header
<1> QED
  BY <1>3, <1>4, <1>5

\* A header that is valid is one of the stream.
LEMMA ValidHeader ==
  ASSUME ReceiveOK, loopPc # "astray", recvDataLen >= 1, Framing!checkPacketHeader
  PROVE  Framing!header \in Unit /\ Framing!header.packetsize \in 1..RECV_BUF_SIZE
<1>1. Framing!header \in Cell /\ Framing!header.signature = "client"
  BY UnreadFacts DEF Framing!checkPacketHeader
<1>2. Framing!header # ZeroUnit
  BY <1>1 DEF ZeroUnit
<1> QED
  BY <1>1, <1>2 DEF Cell, Unit

LEMMA FirstOfConcat ==
  ASSUME NEW S, NEW s \in Seq(S), NEW u \in Seq(S)
  PROVE  /\ s # <<>> => (s \o u)[1] = s[1]
         /\ s = <<>> /\ Len(u) >= 1 => (s \o u)[1] = u[1]
<1>1. s # <<>> => (s \o u)[1] = s[1]
  <2> HAVE s # <<>>
  <2>1. 1 \in 1..Len(s)
    BY EmptySeq, LenProperties
  <2> QED
    BY <2>1, ConcatProperties
<1>2. s = <<>> => s \o u = u
  BY ConcatEmptySeq
<1> QED
  BY <1>1, <1>2

LEMMA SliceFirst ==
  ASSUME NEW S, NEW s \in Seq(S), NEW n \in Nat, n >= 1, n <= Len(s)
  PROVE  SubSeq(s, 1, n)[1] = s[1]
<1>1. \A i \in 1..n : s[i] \in S
  BY LenProperties
<1> QED
  BY <1>1, SubSeqProperties

\* What Copy(n) and CopyAll do, in terms of what is in postRecvBuf and waiting.
LEMMA CopyFacts ==
  ASSUME ReceiveOK, loopPc # "astray", NEW n \in 0..recvDataLen, Framing!Copy(n)
  PROVE  /\ postRecvBuf' \in Seq(Cell) /\ Len(postRecvBuf') = Len(postRecvBuf) + n
         /\ postRecvBuf' = postRecvBuf \o SubSeq(Framing!unread, 1, n)
         /\ recvDataLen' = recvDataLen - n /\ buffReadPos' = buffReadPos + n
         /\ recvDataLen' \in Nat /\ buffReadPos' \in Nat
         /\ buffReadPos' + recvDataLen' = buffReadPos + recvDataLen
         /\ recvBuf' = recvBuf
         /\ postRecvBuf # <<>> => postRecvBuf'[1] = postRecvBuf[1]
         /\ postRecvBuf = <<>> /\ n >= 1 => postRecvBuf'[1] = Framing!header
<1>1. /\ postRecvBuf' = postRecvBuf \o SubSeq(Framing!unread, 1, n)
      /\ recvDataLen' = recvDataLen - n /\ buffReadPos' = buffReadPos + n
      /\ recvBuf' = recvBuf /\ postRecvBuf \in Seq(Cell)
      /\ recvDataLen \in Nat
  BY ReceiveFacts DEF Framing!Copy
<1>2. SubSeq(Framing!unread, 1, n) \in Seq(Cell) /\ Len(SubSeq(Framing!unread, 1, n)) = n
  <2>1. \A i \in 1..n : Framing!unread[i] \in Cell
    BY <1>1, UnreadFacts, LenProperties
  <2> QED
    BY <1>1, <2>1, SubSeqProperties
<1>3. /\ recvDataLen' \in Nat /\ buffReadPos' \in Nat
      /\ buffReadPos' + recvDataLen' = buffReadPos + recvDataLen
  <2>1. buffReadPos \in Nat /\ recvDataLen \in Nat
    BY ReceiveFacts
  <2>2. recvDataLen' = recvDataLen - n /\ buffReadPos' = buffReadPos + n
    BY <1>1
  <2> QED
    BY <2>1, <2>2
<1>4. /\ postRecvBuf # <<>> => postRecvBuf'[1] = postRecvBuf[1]
      /\ postRecvBuf = <<>> /\ n >= 1 => postRecvBuf'[1] = Framing!header
  <2>1. n >= 1 => SubSeq(Framing!unread, 1, n)[1] = Framing!header
    BY <1>1, <1>2, UnreadFacts, SliceFirst
  <2> QED
    BY <1>1, <1>2, <2>1, FirstOfConcat
<1> QED
  BY <1>1, <1>2, <1>3, <1>4, ConcatProperties

LEMMA CopyAllFacts ==
  ASSUME ReceiveOK, loopPc # "astray", Framing!CopyAll
  PROVE  /\ postRecvBuf' \in Seq(Cell) /\ Len(postRecvBuf') = Len(postRecvBuf) + recvDataLen
         /\ postRecvBuf' = postRecvBuf \o Framing!unread
         /\ recvDataLen' = 0 /\ buffReadPos' = 0 /\ recvBuf' = recvBuf
         /\ postRecvBuf # <<>> => postRecvBuf'[1] = postRecvBuf[1]
         /\ postRecvBuf = <<>> /\ recvDataLen >= 1 => postRecvBuf'[1] = Framing!header
<1>1. /\ postRecvBuf' = postRecvBuf \o Framing!unread
      /\ recvDataLen' = 0 /\ buffReadPos' = 0 /\ recvBuf' = recvBuf
      /\ postRecvBuf \in Seq(Cell)
  BY ReceiveFacts DEF Framing!CopyAll
<1>2. /\ postRecvBuf # <<>> => postRecvBuf'[1] = postRecvBuf[1]
      /\ postRecvBuf = <<>> /\ recvDataLen >= 1 => postRecvBuf'[1] = Framing!header
  BY <1>1, UnreadFacts, FirstOfConcat
<1> QED
  BY <1>1, <1>2, UnreadFacts, ConcatProperties

LEMMA ReadKeepsReceive ==
  ASSUME ReceiveOK, On_ResultReadData
  PROVE  ReceiveOK'
<1>1. PICK k \in 1..RECV_BUF_SIZE - recvDataLen :
        /\ arrived + k <= Len(stream)
        /\ arrived' = arrived + k
        /\ recvDataLen' = IF "recvDataLen" \in Supplied THEN recvDataLen + k ELSE recvDataLen
        /\ buffReadPos' = IF "buffReadPos" \in Supplied THEN 0 ELSE buffReadPos
        /\ recvBuf' = [i \in 1..RECV_BUF_SIZE |->
                          IF i \in recvDataLen + 1..recvDataLen + k
                          THEN stream[arrived + (i - recvDataLen)]
                          ELSE Ready[i]]
  BY DEF On_ResultReadData
<1>2. /\ loopPc = "poll" /\ loopPc' \in {"frame", "astray"}
      /\ loopPc' = "frame" => buffReadPos' + recvDataLen' <= RECV_BUF_SIZE
      /\ UNCHANGED <<packets, stream, postRecvBuf, postPacketsize>>
  BY DEF On_ResultReadData, clientVars
<1>3. /\ stream \in Seq(Unit) /\ arrived \in Nat /\ Len(stream) \in Nat
      /\ \A i \in 1..Len(stream) : stream[i] \in Unit
  <2>1. stream \in Seq(Unit) /\ arrived \in 0..Len(stream)
    BY DEF ReceiveOK
  <2> QED
    BY <2>1, LenProperties
<1>4. /\ k \in Nat /\ k >= 1 /\ recvDataLen + k <= RECV_BUF_SIZE
      /\ recvDataLen \in Nat /\ buffReadPos \in Nat
      /\ buffReadPos + recvDataLen <= RECV_BUF_SIZE
  BY <1>2, Constants, ReceiveFacts
<1>5. recvBuf' \in [1..RECV_BUF_SIZE -> Cell]
  <2>1. ASSUME NEW i \in 1..RECV_BUF_SIZE, i \in recvDataLen + 1..recvDataLen + k
        PROVE  stream[arrived + (i - recvDataLen)] \in Cell
    <3>1. arrived + (i - recvDataLen) \in 1..Len(stream)
      BY <1>1, <1>3, <1>4, <2>1
    <3> QED
      BY <1>3, <3>1 DEF Cell
  <2>2. ASSUME NEW i \in 1..RECV_BUF_SIZE PROVE Ready[i] \in Cell
    <3>1. recvBuf[i] \in Cell /\ ZeroUnit \in Cell
      BY ReceiveFacts DEF Cell
    <3>2. i <= recvDataLen => recvBuf[buffReadPos + i] \in Cell
      <4> HAVE i <= recvDataLen
      <4>1. buffReadPos + i \in 1..RECV_BUF_SIZE
        BY <1>4, Constants
      <4> QED
        BY <4>1, ReceiveFacts
    <3> QED
      BY <3>1, <3>2 DEF Ready
  <2> QED
    BY <1>1, <2>1, <2>2
<1>6. /\ recvDataLen' \in 0..RECV_BUF_SIZE /\ buffReadPos' \in 0..RECV_BUF_SIZE
      /\ "recvDataLen" \notin Supplied => recvDataLen' = 0 /\ buffReadPos' = 0
  BY <1>1, <1>4, Constants DEF ReceiveOK
<1>7. Framing!FramingTypeOK'
  BY <1>2, <1>5, <1>6 DEF ReceiveOK, Framing!FramingTypeOK, Cell
<1>8. arrived' \in 0..Len(stream')
  BY <1>1, <1>2, <1>3, <1>4
<1>9. packets' \in [Serial -> Packet] /\ stream' \in Seq(Unit)
  BY <1>2 DEF ReceiveOK
<1>10. /\ IF postPacketsize' = 0 THEN postRecvBuf' = <<>>
          ELSE postRecvBuf' # <<>> /\ Len(postRecvBuf') < postPacketsize'
       /\ postRecvBuf' # <<>> => postRecvBuf'[1] \in Unit
  BY <1>2 DEF ReceiveOK
<1>11. loopPc' \in LoopPcs /\ loopPc' \notin {"alloc", "post"}
  BY <1>2 DEF LoopPcs
<1>12. loopPc' # "astray" => buffReadPos' + recvDataLen' <= RECV_BUF_SIZE
  BY <1>2
<1> QED
  BY <1>6, <1>7, <1>8, <1>9, <1>10, <1>11, <1>12 DEF ReceiveOK

LEMMA PartsFit ==
  ASSUME NEW x, NEW y, NEW r \in Nat, x \in Nat, y \in Nat, x + y <= r
  PROVE  x \in 0..r /\ y \in 0..r
OBVIOUS

LEMMA FrameKeepsReceive ==
  ASSUME ReceiveOK, handleRecvPacket
  PROVE  ReceiveOK'
<1>1. /\ loopPc = "frame"
      /\ UNCHANGED <<packets, stream, arrived>>
      /\ \/ Framing!Stops /\ loopPc' = "poll"
         \/ Framing!StartPending /\ loopPc' = "frame"
         \/ Framing!HandsOver /\ loopPc' = "alloc"
  BY DEF handleRecvPacket, clientVars
<1>2. /\ packets' \in [Serial -> Packet] /\ stream' \in Seq(Unit) /\ arrived' \in 0..Len(stream')
  BY <1>1 DEF ReceiveOK
<1>3. /\ postPacketsize = 0 => postRecvBuf = <<>> /\ Len(postRecvBuf) = 0
      /\ postPacketsize # 0 => Len(postRecvBuf) < postPacketsize
      /\ "recvDataLen" \notin Supplied => recvDataLen = 0 /\ buffReadPos = 0
  BY <1>1, EmptySeq DEF ReceiveOK
<1>4. recvDataLen >= 1 /\ Framing!checkPacketHeader =>
        Framing!header \in Unit /\ Framing!header.packetsize \in 1..RECV_BUF_SIZE
  BY <1>1, ValidHeader
<1> DEFINE Frame ==
      /\ recvBuf' = recvBuf
      /\ postRecvBuf' \in Seq(Cell)
      /\ Len(postRecvBuf') <= RECV_BUF_SIZE
      /\ recvDataLen' \in Nat /\ buffReadPos' \in Nat
      /\ buffReadPos' + recvDataLen' <= RECV_BUF_SIZE
      /\ postRecvBuf' # <<>> => postRecvBuf'[1] \in Unit
      /\ postPacketsize' \in 0..PACKET_MAX_SIZE
      /\ "recvDataLen" \notin Supplied => recvDataLen' = 0 /\ buffReadPos' = 0
      /\ IF loopPc' = "alloc" THEN postRecvBuf' # <<>>
         ELSE IF postPacketsize' = 0 THEN postRecvBuf' = <<>>
              ELSE postRecvBuf' # <<>> /\ Len(postRecvBuf') < postPacketsize'
<1>first. postPacketsize # 0 => postRecvBuf # <<>> /\ postRecvBuf[1] \in Unit
  BY <1>1 DEF ReceiveOK
<1>sizes. /\ recvDataLen \in Nat /\ buffReadPos \in Nat
         /\ buffReadPos + recvDataLen <= RECV_BUF_SIZE
         /\ Len(postRecvBuf) \in Nat /\ Len(postRecvBuf) <= RECV_BUF_SIZE
         /\ postPacketsize \in Nat /\ postPacketsize <= PACKET_MAX_SIZE
         /\ RECV_BUF_SIZE \in Nat /\ PACKET_MAX_SIZE \in Nat /\ PACKET_MAX_SIZE <= RECV_BUF_SIZE
  BY <1>1, ReceiveFacts, Constants
<1>5. Frame => ReceiveOK'
  <2> HAVE Frame
  <2>0. /\ recvDataLen' \in Nat /\ buffReadPos' \in Nat
        /\ buffReadPos' + recvDataLen' <= RECV_BUF_SIZE
    OBVIOUS
  <2>1. recvDataLen' \in 0..RECV_BUF_SIZE /\ buffReadPos' \in 0..RECV_BUF_SIZE
    BY ONLY <2>0, <1>sizes, PartsFit
  <2>2. Framing!FramingTypeOK'
    BY <2>1 DEF ReceiveOK, Framing!FramingTypeOK, Cell
  <2>3. loopPc' \in LoopPcs /\ loopPc' # "post"
    BY <1>1 DEF LoopPcs
  <2> QED
    BY <1>2, <2>2, <2>3 DEF ReceiveOK
<1> USE <1>sizes
<1>6. CASE Framing!ExtendPending /\ loopPc' = "poll"
  <2>1. /\ postPacketsize > 0 /\ Len(postRecvBuf) + recvDataLen < postPacketsize
        /\ postPacketsize' = postPacketsize /\ Framing!CopyAll
    BY <1>6 DEF Framing!ExtendPending
  <2>2. /\ postRecvBuf' \in Seq(Cell) /\ Len(postRecvBuf') = Len(postRecvBuf) + recvDataLen
        /\ recvDataLen' = 0 /\ buffReadPos' = 0 /\ recvBuf' = recvBuf
        /\ postRecvBuf # <<>> => postRecvBuf'[1] = postRecvBuf[1]
    BY <1>1, <2>1, CopyAllFacts
  <2>0. postPacketsize # 0
    BY <2>1
  <2>3. postRecvBuf'[1] \in Unit
    BY <1>first, <2>0, <2>2
  <2>5. postRecvBuf' # <<>>
    <3>1. postRecvBuf \in Seq(Cell) /\ postRecvBuf # <<>>
      BY <1>first, <2>0, ReceiveFacts
    <3>2. Len(postRecvBuf) # 0
      BY <3>1, EmptySeq
    <3>3. Len(postRecvBuf') # 0
      BY <2>2, <3>2
    <3> QED
      BY <3>3, EmptySeq
  <2>4. Frame
    BY <1>3, <1>6, <2>1, <2>2, <2>3, <2>5
  <2> QED
    BY <1>5, <2>4
<1>7. CASE Framing!CompletePending /\ loopPc' = "alloc"
  <2>1. /\ postPacketsize > 0 /\ Len(postRecvBuf) + recvDataLen >= postPacketsize
        /\ postPacketsize' = postPacketsize
        /\ Framing!Copy(postPacketsize - Len(postRecvBuf))
    BY <1>7 DEF Framing!CompletePending
  <2>2. postPacketsize - Len(postRecvBuf) \in 1..recvDataLen
    BY <1>3, <2>1
  <2>3. "recvDataLen" \in Supplied
    BY <1>3, <2>2
  <2>4. /\ postRecvBuf' \in Seq(Cell) /\ Len(postRecvBuf') = postPacketsize
        /\ recvDataLen' = recvDataLen - (postPacketsize - Len(postRecvBuf))
        /\ buffReadPos' = buffReadPos + (postPacketsize - Len(postRecvBuf))
        /\ recvBuf' = recvBuf
    BY <1>1, <2>1, <2>2, CopyFacts
  <2>5. postRecvBuf' # <<>>
    BY <2>1, <2>4, EmptySeq
  <2>6. /\ recvDataLen' \in Nat /\ buffReadPos' \in Nat
        /\ buffReadPos' + recvDataLen' = buffReadPos + recvDataLen
    BY <1>1, <2>1, <2>2, CopyFacts
  <2>7. postRecvBuf'[1] \in Unit
    <3>1. postPacketsize # 0
      BY <2>1
    <3>2. postRecvBuf # <<>> /\ postRecvBuf[1] \in Unit
      BY <1>first, <3>1
    <3>3. postRecvBuf'[1] = postRecvBuf[1]
      BY <1>1, <2>1, <2>2, <3>2, CopyFacts
    <3> QED
      BY <3>2, <3>3
  <2>8. Frame
    BY <1>7, <2>1, <2>3, <2>4, <2>5, <2>6, <2>7
  <2> QED
    BY <1>5, <2>8
<1>8. CASE (Framing!WaitForHeader \/ Framing!RejectHeader \/ Framing!WaitForPacket) /\ loopPc' = "poll"
  <2>1. UNCHANGED <<recvBuf, buffReadPos, recvDataLen, postRecvBuf, postPacketsize>>
    BY <1>8 DEF Framing!WaitForHeader, Framing!RejectHeader, Framing!WaitForPacket,
                Framing!framingVars
  <2>2. Framing!FramingTypeOK'
    BY <2>1 DEF ReceiveOK, Framing!FramingTypeOK
  <2>3. loopPc' \in LoopPcs /\ loopPc' \notin {"alloc", "post", "astray"}
    BY <1>8 DEF LoopPcs
  <2>4. buffReadPos' + recvDataLen' <= RECV_BUF_SIZE
    BY <2>1
  <2> QED
    BY <1>1, <1>2, <2>1, <2>2, <2>3, <2>4 DEF ReceiveOK
<1>9. CASE Framing!TakePacket /\ loopPc' = "alloc"
  <2>1. /\ postPacketsize = 0 /\ recvDataLen >= 1
        /\ Framing!checkPacketHeader
        /\ Framing!header.packetsize <= recvDataLen
        /\ postPacketsize' = postPacketsize
        /\ Framing!Copy(Framing!header.packetsize)
    BY <1>9 DEF Framing!TakePacket
  <2>2. Framing!header.packetsize \in 1..recvDataLen
    BY <1>4, <2>1
  <2>3. "recvDataLen" \in Supplied
    BY <1>3, <2>1
  <2>4. /\ postRecvBuf' \in Seq(Cell) /\ Len(postRecvBuf') = Framing!header.packetsize
        /\ recvDataLen' = recvDataLen - Framing!header.packetsize
        /\ buffReadPos' = buffReadPos + Framing!header.packetsize
        /\ recvBuf' = recvBuf
    BY <1>1, <1>3, <2>1, <2>2, CopyFacts
  <2>5. postRecvBuf' # <<>>
    BY <2>2, <2>4, EmptySeq
  <2>6. /\ recvDataLen' \in Nat /\ buffReadPos' \in Nat
        /\ buffReadPos' + recvDataLen' = buffReadPos + recvDataLen
    BY <1>1, <2>1, <2>2, CopyFacts
  <2>7. postRecvBuf'[1] \in Unit
    <3>1. postRecvBuf'[1] = Framing!header
      BY <1>1, <1>3, <2>1, <2>2, CopyFacts
    <3> QED
      BY <1>4, <2>1, <3>1
  <2>8. Frame
    BY <1>4, <1>9, <2>1, <2>3, <2>4, <2>5, <2>6, <2>7
  <2> QED
    BY <1>5, <2>8
<1>10. CASE Framing!StartPending /\ loopPc' = "frame"
  <2>1. /\ postPacketsize = 0 /\ recvDataLen >= 1
        /\ Framing!checkPacketHeader
        /\ Framing!header.packetsize > recvDataLen
        /\ postPacketsize' = Framing!header.packetsize /\ Framing!CopyAll
    BY <1>10 DEF Framing!StartPending
  <2>2. postPacketsize' \in 1..PACKET_MAX_SIZE
    BY <1>4, <2>1 DEF Framing!checkPacketHeader
  <2>3. /\ postRecvBuf' \in Seq(Cell) /\ Len(postRecvBuf') = recvDataLen
        /\ recvDataLen' = 0 /\ buffReadPos' = 0 /\ recvBuf' = recvBuf
        /\ postRecvBuf'[1] = Framing!header
    BY <1>1, <1>3, <2>1, CopyAllFacts
  <2>4. postRecvBuf' # <<>>
    BY <2>1, <2>3, EmptySeq
  <2>5. postRecvBuf'[1] \in Unit /\ postPacketsize' > recvDataLen
    BY <1>4, <2>1, <2>3
  <2>6. Frame
    BY <1>10, <2>2, <2>3, <2>4, <2>5
  <2> QED
    BY <1>5, <2>6
<1> QED
  BY <1>1, <1>6, <1>7, <1>8, <1>9, <1>10 DEF Framing!Stops, Framing!HandsOver

LEMMA SameKeepsReceive ==
  ASSUME ReceiveOK, UNCHANGED recvVars,
         loopPc' \in LoopPcs, loopPc = "astray" => loopPc' = "astray",
         loopPc \in {"alloc", "post"} <=> loopPc' \in {"alloc", "post"}
  PROVE  ReceiveOK'
<1>1. UNCHANGED <<packets, stream, arrived, recvBuf, buffReadPos, recvDataLen, postRecvBuf,
                  postPacketsize>>
  BY DEF recvVars, clientVars, framingVars
<1>2. Framing!FramingTypeOK'
  BY <1>1 DEF ReceiveOK, Framing!FramingTypeOK
<1>3. CASE loopPc \in {"alloc", "post"}
  BY <1>1, <1>2, <1>3 DEF ReceiveOK
<1>4. CASE loopPc \notin {"alloc", "post"}
  BY <1>1, <1>2, <1>4 DEF ReceiveOK
<1> QED
  BY <1>3, <1>4

LEMMA EndKeepsReceive ==
  ASSUME ReceiveOK, ReadEnds
  PROVE  ReceiveOK'
<1>1. /\ loopPc = "poll" /\ loopPc' = "post close" /\ recvDataLen' = 0
      /\ UNCHANGED <<packets, stream, arrived, recvBuf, buffReadPos, postRecvBuf, postPacketsize>>
  BY DEF ReadEnds, clientVars
<1>2. 0 \in 0..RECV_BUF_SIZE
  BY SizesAssumption
<1>3. Framing!FramingTypeOK'
  BY <1>1, <1>2 DEF ReceiveOK, Framing!FramingTypeOK
<1>4. buffReadPos' = buffReadPos /\ recvDataLen' = 0
  BY <1>1
<1>5. buffReadPos' + recvDataLen' <= RECV_BUF_SIZE
  <2>1. buffReadPos \in Nat /\ recvDataLen \in Nat /\ buffReadPos + recvDataLen <= RECV_BUF_SIZE
    BY <1>1, ReceiveFacts
  <2> QED
    BY <1>4, <2>1, Constants
<1>6. loopPc' \in LoopPcs
  BY <1>1 DEF LoopPcs
<1> QED
  BY <1>1, <1>3, <1>5, <1>6 DEF ReceiveOK

LEMMA PostKeepsReceive ==
  ASSUME ReceiveOK, PostPacket
  PROVE  ReceiveOK'
<1>1. /\ loopPc = "post" /\ loopPc' = "frame" /\ postRecvBuf' = <<>> /\ postPacketsize' = 0
      /\ UNCHANGED <<packets, stream, arrived, recvBuf, buffReadPos, recvDataLen>>
  BY DEF PostPacket, PostBuffer, Framing!Clear, clientVars
<1>2. Framing!FramingTypeOK'
  BY <1>1, Constants, EmptySeq DEF ReceiveOK, Framing!FramingTypeOK
<1>3. loopPc' \in LoopPcs /\ loopPc' \notin {"alloc", "post", "astray"}
  BY <1>1 DEF LoopPcs
<1> QED
  BY <1>1, <1>2, <1>3 DEF ReceiveOK

LEMMA ReceiveInvariant ==
  ASSUME ReceiveOK, [Next]_vars
  PROVE  ReceiveOK'
<1>1. CASE On_ResultReadData
  BY <1>1, ReadKeepsReceive
<1>2. CASE ReadEnds
  BY <1>2, EndKeepsReceive
<1>3. CASE handleRecvPacket
  BY <1>3, FrameKeepsReceive
<1>4. CASE PostPacket
  BY <1>4, PostKeepsReceive
<1>5. CASE FillBuffer \/ PostClose
  <2>1. /\ \/ loopPc = "alloc" /\ loopPc' = "post"
           \/ loopPc = "post close" /\ loopPc' = "poll"
        /\ UNCHANGED recvVars
    BY <1>5 DEF FillBuffer, PostClose, PostsClose
  <2> QED
    BY <2>1, SameKeepsReceive DEF LoopPcs
<1>6. CASE doSend \/ On_WriteData \/ Gather
  <2>1. /\ loopPc \in {"poll", "gather", "write"}
        /\ loopPc' \in {"poll", "gather", "write", "overrun"}
        /\ UNCHANGED recvVars
    BY <1>6 DEF doSend, On_WriteData, WriteDone, BeginSend, Resume, ResumeWith, Overrun, Gather,
                GatherWhole, GatherBelow, GatherPart, GatherNothing, Write
  <2> QED
    BY <2>1, SameKeepsReceive DEF LoopPcs
<1>7. CASE Main \/ UNCHANGED vars
  <2>1. loopPc' = loopPc /\ UNCHANGED recvVars
    BY <1>7 DEF Main, SwapQueues, NextPacket, RemoveSession, SessionNotFound, TakenForNew,
                TakenForClose, TakenForSession, DispatchUnanswered, MakeAnswer, sendBuffer,
                PushAnswer, ReleasePacket, PacketDone, ClearBatch, vars
  <2>2. loopPc \in LoopPcs
    BY DEF ReceiveOK
  <2> QED
    BY <2>1, <2>2, SameKeepsReceive
<1> QED
  BY <1>1, <1>2, <1>3, <1>4, <1>5, <1>6, <1>7 DEF Next, Receive

-----------------------------------------------------------------------------
(* The other types, action by action. *)

Rest == PoolOK /\ EventOK /\ HolderOK /\ SendOK

LEMMA QuietKeepsRest ==
  ASSUME Rest, UNCHANGED <<poolVars, loopBuffer, mainVars, queueVars, sendVars>>,
         UNCHANGED eventVars \/ (pending' = Append(pending, CloseEvent) /\ UNCHANGED <<batch, item>>),
         session' \in {"open", "closed", "deleted"}, writing' \in BOOLEAN,
         loopPc = "post" <=> loopPc' = "post",
         loopPc' = "gather" => loopPc = "gather"
  PROVE  Rest'
<1>1. UNCHANGED <<made, bufferpool, buffersize, content, batch, item, mainPc, mainBuffer, taken,
                  answerSize, registered, sendBuffList, dropped, prevSendBuf, prevSendOffset,
                  sendDataLen, copied, answered, loopBuffer>>
  BY DEF poolVars, eventVars, mainVars, queueVars, sendVars
<1>2. pending' \in Seq(Made \cup {CloseEvent})
  <2>1. pending \in Seq(Made \cup {CloseEvent})
    BY DEF Rest, EventOK
  <2>2. CASE UNCHANGED eventVars
    BY <2>1, <2>2 DEF eventVars
  <2>3. CASE pending' = Append(pending, CloseEvent)
    BY <2>1, <2>3, AppendFacts
  <2> QED
    BY <2>2, <2>3
<1>3. PoolOK' /\ EventOK'
  BY <1>1, <1>2 DEF Rest, PoolOK, EventOK, Made
<1>4. HolderOK' /\ SendOK'
  BY <1>1 DEF Rest, HolderOK, SendOK, Made
<1> QED
  BY <1>3, <1>4 DEF Rest

\* The packet that is handed over has a serial.
LEMMA PostedSerial ==
  ASSUME ReceiveOK, loopPc \in {"alloc", "post"}
  PROVE  postRecvBuf[1].serial \in Serial
<1>1. postRecvBuf[1] \in Unit
  BY DEF ReceiveOK
<1> QED
  BY <1>1 DEF Unit

LEMMA FillKeepsRest ==
  ASSUME ReceiveOK, Rest, FillBuffer
  PROVE  Rest'
<1>1. PICK b \in Buffer : alloc(b, postRecvBuf[1].serial) /\ loopBuffer' = b
  BY DEF FillBuffer
<1>2. /\ loopPc = "alloc" /\ loopPc' = "post"
      /\ UNCHANGED <<eventVars, session, mainVars, queueVars, sendVars, writing>>
  BY DEF FillBuffer
<1>3. postRecvBuf[1].serial \in Serial
  BY <1>2, PostedSerial
<1>4. PoolOK' /\ b \in Made' /\ Made \subseteq Made' /\ \A c \in Made : buffersize'[c] = buffersize[c]
  BY <1>1, <1>3, AllocFacts DEF Rest
<1>5. b # NoBuffer
  BY Constants DEF Buffer
<1>6. EventOK'
  BY <1>2, <1>4, MoreMade DEF Rest, EventOK, eventVars, mainVars
<1>7. HolderOK'
  BY <1>1, <1>2, <1>4, <1>5, MoreMade DEF Rest, HolderOK, mainVars, queueVars, sendVars
<1>8. SendOK'
  BY <1>2, <1>4 DEF Rest, HolderOK, SendOK, mainVars, sendVars
<1> QED
  BY <1>4, <1>6, <1>7, <1>8 DEF Rest

LEMMA PostKeepsRest ==
  ASSUME Rest, PostPacket
  PROVE  Rest'
<1>1. /\ loopPc = "post" /\ loopPc' = "frame" /\ loopBuffer' = NoBuffer
      /\ pending' = Append(pending, loopBuffer)
      /\ UNCHANGED <<batch, item, poolVars, session, mainVars, queueVars, sendVars, writing>>
  BY DEF PostPacket, PostBuffer, Events!Post
<1>2. pending' \in Seq(Made \cup {CloseEvent})
  BY <1>1, AppendFacts DEF Rest, EventOK, HolderOK
<1>3. PoolOK' /\ EventOK'
  BY <1>1, <1>2 DEF Rest, PoolOK, EventOK, Made, poolVars, mainVars
<1>4. HolderOK' /\ SendOK'
  BY <1>1 DEF Rest, HolderOK, SendOK, Made, poolVars, mainVars, queueVars, sendVars
<1> QED
  BY <1>3, <1>4 DEF Rest

\* What doSend counts for a buffer keeps the types of the histories.
LEMMA CountFacts ==
  ASSUME Rest, NEW b \in Made, NEW n \in Nat, NEW len \in Nat, Count(b, n, len)
  PROVE  /\ sendDataLen' = len + n
         /\ content[b] \in Serial
         /\ copied' \in [Serial -> Nat]
         /\ copied' = [copied EXCEPT ![content[b]] = @ + n]
<1>1. content[b] \in Serial /\ copied \in [Serial -> Nat]
  BY DEF Rest, PoolOK, SendOK
<1> QED
  BY <1>1 DEF Count

-----------------------------------------------------------------------------
(* doSend: sendBuf is overrun, or it goes on with what fits.               *)

ResumeFits ==
  /\ ResumeWith(prevSendOffset, FALSE)
  /\ prevSendBuf # NoBuffer => ~ (buffersize[prevSendBuf] - prevSendOffset > SEND_BUF_SIZE)

GatherFits ==
  /\ loopPc = "gather"
  /\ sendBuffList # <<>>
  /\ sendDataLen + buffersize[Head(sendBuffList)] <= SEND_BUF_SIZE
  /\ CountLast(Head(sendBuffList), buffersize[Head(sendBuffList)], sendDataLen)
  /\ release(Head(sendBuffList))
  /\ sendBuffList' = Tail(sendBuffList)
  /\ UNCHANGED <<recvVars, eventVars, session, loopPc, loopBuffer, mainVars, dropped,
                 prevSendBuf, prevSendOffset, writing>>

GatherOverruns ==
  /\ Overrun /\ UNCHANGED writing
  /\ loopPc = "gather"
  /\ sendBuffList # <<>>
  /\ buffersize[Head(sendBuffList)] > SEND_BUF_SIZE

LEMMA BeginCases ==
  ASSUME BeginSend
  PROVE  \/ ResumeFits
         \/ /\ Overrun /\ prevSendBuf # NoBuffer
            /\ buffersize[prevSendBuf] - prevSendOffset > SEND_BUF_SIZE
BY DEF BeginSend, Resume, ResumeFits

\* A number below the size of a word is its own rest.
LEMMA RestOfSmall ==
  ASSUME NEW w \in Nat \ {0}, NEW n \in Nat
  PROVE  n % w \in Nat /\ n % w <= n /\ (n < w => n % w = n)
<1>1. n = w * (n \div w) + (n % w) /\ n \div w \in Nat /\ n % w \in Nat /\ n % w < w
  OBVIOUS
<1>2. n \div w # 0 => w * (n \div w) >= w
  BY <1>1
<1>3. w * (n \div w) \in Nat
  BY <1>1
<1> QED
  BY <1>1, <1>2, <1>3

LEMMA HeadOfSendQueue ==
  ASSUME Rest, sendBuffList # <<>>
  PROVE  /\ Head(sendBuffList) \in Made
         /\ Tail(sendBuffList) \in Seq(Made) /\ Len(Tail(sendBuffList)) <= SendQueueSize
         /\ buffersize[Head(sendBuffList)] \in Nat
<1>1. sendBuffList \in Seq(Made) /\ Len(sendBuffList) <= SendQueueSize
  BY DEF Rest, HolderOK
<1>2. /\ Head(sendBuffList) \in Made
      /\ Tail(sendBuffList) \in Seq(Made) /\ Len(Tail(sendBuffList)) = Len(sendBuffList) - 1
  BY <1>1, HeadTailProperties
<1>3. Len(Tail(sendBuffList)) <= SendQueueSize
  BY <1>1, <1>2, Constants, LenProperties
<1>4. buffersize[Head(sendBuffList)] \in BufferSizes
  BY <1>2 DEF Rest, PoolOK
<1> QED
  BY <1>2, <1>3, <1>4, Constants

LEMMA GatherCases ==
  ASSUME Rest, GatherWhole
  PROVE  GatherFits \/ GatherOverruns
<1> DEFINE b == Head(sendBuffList)
           size == buffersize[b]
<1>1. /\ loopPc = "gather" /\ sendBuffList # <<>> /\ UNCHANGED writing
      /\ (sendDataLen + size) % UINT_SIZE < SEND_BUF_SIZE
      /\ IF sendDataLen + size > SEND_BUF_SIZE THEN Overrun
         ELSE /\ CountLast(b, size, sendDataLen)
              /\ release(b)
              /\ sendBuffList' = Tail(sendBuffList)
              /\ UNCHANGED <<recvVars, eventVars, session, loopPc, loopBuffer, mainVars,
                             dropped, prevSendBuf, prevSendOffset>>
  BY DEF GatherWhole, GatherBelow
<1>2. size \in Nat /\ sendDataLen \in Nat /\ sendDataLen <= SEND_BUF_SIZE
  BY <1>1, HeadOfSendQueue, Constants DEF Rest, SendOK
<1>3. /\ SEND_BUF_SIZE \in Nat /\ UINT_SIZE \in Nat \ {0} /\ UINT_SIZE > 2 * SEND_BUF_SIZE
  BY Constants
<1>4. CASE sendDataLen + size > SEND_BUF_SIZE
  <2>1. size <= SEND_BUF_SIZE => (sendDataLen + size) % UINT_SIZE = sendDataLen + size
    <3> HIDE DEF size
    <3>1. sendDataLen + size \in Nat
      BY <1>2
    <3>2. size <= SEND_BUF_SIZE => sendDataLen + size < UINT_SIZE
      BY <1>2, <1>3
    <3> QED
      BY <1>3, <3>1, <3>2, RestOfSmall
  <2>2. size > SEND_BUF_SIZE
    <3> HIDE DEF size
    <3> QED
      BY <1>1, <1>2, <1>3, <1>4, <2>1
  <2> QED
    BY <1>1, <1>4, <2>2 DEF GatherOverruns
<1>5. CASE ~ (sendDataLen + size > SEND_BUF_SIZE)
  <2>1. sendDataLen + size <= SEND_BUF_SIZE
    <3> HIDE DEF size
    <3> QED
      BY <1>2, <1>3, <1>5
  <2> QED
    BY <1>1, <1>5, <2>1 DEF GatherFits
<1> QED
  BY <1>4, <1>5

\* What does not fit is at least what there is room for.
LEMMA PartFacts ==
  ASSUME Rest, GatherPart
  PROVE  /\ loopPc = "gather" /\ loopPc' = "write" /\ sendBuffList # <<>>
         /\ SEND_BUF_SIZE - sendDataLen \in 0..SEND_BUF_SIZE
         /\ buffersize[Head(sendBuffList)] >= SEND_BUF_SIZE - sendDataLen
         /\ Count(Head(sendBuffList), SEND_BUF_SIZE - sendDataLen, sendDataLen)
         /\ prevSendBuf' = Head(sendBuffList) /\ prevSendOffset' = SEND_BUF_SIZE - sendDataLen
         /\ sendBuffList' = Tail(sendBuffList)
         /\ UNCHANGED <<recvVars, poolVars, eventVars, session, loopBuffer, mainVars, dropped,
                        answered, writing>>
<1> DEFINE size == buffersize[Head(sendBuffList)]
<1>1. sendBuffList # <<>> /\ (sendDataLen + size) % UINT_SIZE >= SEND_BUF_SIZE
  BY DEF GatherPart
<1>2. size \in Nat /\ sendDataLen \in Nat /\ sendDataLen <= SEND_BUF_SIZE
  BY <1>1, HeadOfSendQueue, Constants DEF Rest, SendOK
<1>3. SEND_BUF_SIZE \in Nat /\ UINT_SIZE \in Nat \ {0}
  BY Constants
<1>4. size >= SEND_BUF_SIZE - sendDataLen
  <2> HIDE DEF size
  <2>1. sendDataLen + size \in Nat
    BY <1>2
  <2>2. (sendDataLen + size) % UINT_SIZE <= sendDataLen + size
    BY <1>3, <2>1, RestOfSmall
  <2>3. (sendDataLen + size) % UINT_SIZE \in Nat
    BY <1>3, <2>1, RestOfSmall
  <2> QED
    BY <1>1, <1>2, <1>3, <2>2, <2>3
<1>5. SEND_BUF_SIZE - sendDataLen \in 0..SEND_BUF_SIZE
  BY <1>2, <1>3
<1> QED
  BY <1>1, <1>4, <1>5 DEF GatherPart

LEMMA OverrunKeepsRest ==
  ASSUME Rest, Overrun, loopPc \in {"poll", "gather"}, writing' \in BOOLEAN
  PROVE  Rest'
<1>1. /\ loopPc' = "overrun"
      /\ UNCHANGED <<poolVars, eventVars, session, loopBuffer, mainVars, queueVars, sendVars>>
  BY DEF Overrun
<1>2. session' \in {"open", "closed", "deleted"}
  BY <1>1 DEF Rest, SendOK
<1> QED
  BY <1>1, <1>2, QuietKeepsRest

LEMMA ResumeKeepsRest ==
  ASSUME Rest, ResumeFits, loopPc = "poll", writing' \in BOOLEAN
  PROVE  Rest'
<1>1. loopPc' = "gather" /\ UNCHANGED <<eventVars, session, loopBuffer, mainVars, queueVars>>
  BY DEF ResumeFits, ResumeWith
<1>2. CASE prevSendBuf = NoBuffer
  <2>1. sendDataLen' = 0 /\ UNCHANGED <<copied, answered, poolVars, prevSendBuf, prevSendOffset>>
    BY <1>2 DEF ResumeFits, ResumeWith
  <2>2. PoolOK' /\ EventOK'
    BY <1>1, <2>1 DEF Rest, PoolOK, EventOK, Made, poolVars, eventVars, mainVars
  <2>3. HolderOK'
    BY <1>1, <1>2, <2>1 DEF Rest, HolderOK, Made, poolVars, mainVars, queueVars
  <2>4. 0 \in 0..SEND_BUF_SIZE
    BY Constants
  <2>5. SendOK'
    BY <1>1, <2>1, <2>4 DEF Rest, SendOK, poolVars, mainVars
  <2> QED
    BY <2>2, <2>3, <2>5 DEF Rest
<1>3. CASE prevSendBuf # NoBuffer
  <2> DEFINE n == buffersize[prevSendBuf] - prevSendOffset
  <2>1. /\ CountLast(prevSendBuf, n, 0)
        /\ release(prevSendBuf) /\ prevSendBuf' = NoBuffer /\ prevSendOffset' = 0
        /\ ~ (n > SEND_BUF_SIZE)
    BY <1>3 DEF ResumeFits, ResumeWith
  <2>2. prevSendBuf \in Made
    BY <1>3 DEF Rest, HolderOK
  <2>3. n \in Nat /\ n <= SEND_BUF_SIZE
    <3>1. buffersize[prevSendBuf] \in Nat
      BY <2>2, Constants DEF Rest, PoolOK
    <3>2. prevSendOffset \in Nat /\ prevSendOffset <= buffersize[prevSendBuf]
      BY <1>3, Constants DEF Rest, SendOK
    <3> QED
      BY <2>1, <3>1, <3>2, Constants
  <2> HIDE DEF n
  <2>4. /\ sendDataLen' = 0 + n /\ content[prevSendBuf] \in Serial /\ copied' \in [Serial -> Nat]
        /\ answered' = Append(answered, content[prevSendBuf])
    BY <2>1, <2>2, <2>3, CountFacts DEF CountLast
  <2>5. sendDataLen' \in 0..SEND_BUF_SIZE /\ 0 \in 0..SEND_BUF_SIZE
    BY <2>3, <2>4, Constants
  <2>6. answered' \in Seq(Serial)
    BY <2>4, AppendFacts DEF Rest, SendOK
  <2>7. UNCHANGED <<made, buffersize, content>> /\ PoolOK'
    BY <2>1, <2>2, ReleaseFacts DEF Rest
  <2>8. EventOK'
    BY <1>1, <2>7 DEF Rest, EventOK, Made, eventVars, mainVars
  <2>9. HolderOK'
    BY <1>1, <2>1, <2>7 DEF Rest, HolderOK, Made, mainVars, queueVars
  <2>10. SendOK'
    BY <1>1, <2>1, <2>4, <2>5, <2>6 DEF Rest, SendOK, mainVars
  <2> QED
    BY <2>7, <2>8, <2>9, <2>10 DEF Rest
<1> QED
  BY <1>2, <1>3

LEMMA GatherFitsKeepsRest ==
  ASSUME Rest, GatherFits
  PROVE  Rest'
<1> DEFINE b == Head(sendBuffList)
<1>1. /\ sendBuffList # <<>>
      /\ sendDataLen + buffersize[b] <= SEND_BUF_SIZE
      /\ CountLast(b, buffersize[b], sendDataLen)
      /\ release(b)
      /\ sendBuffList' = Tail(sendBuffList)
      /\ UNCHANGED <<eventVars, session, loopPc, loopBuffer, mainVars, dropped, prevSendBuf,
                     prevSendOffset, writing>>
  BY DEF GatherFits
<1>2. /\ b \in Made /\ Tail(sendBuffList) \in Seq(Made)
      /\ Len(Tail(sendBuffList)) <= SendQueueSize /\ buffersize[b] \in Nat
  BY <1>1, HeadOfSendQueue
<1>3. sendDataLen \in Nat
  BY Constants DEF Rest, SendOK
<1> HIDE DEF b
<1>4. /\ sendDataLen' = sendDataLen + buffersize[b] /\ content[b] \in Serial
      /\ copied' \in [Serial -> Nat] /\ answered' = Append(answered, content[b])
  BY <1>1, <1>2, <1>3, CountFacts DEF CountLast
<1>5. sendDataLen' \in 0..SEND_BUF_SIZE
  BY <1>1, <1>2, <1>3, <1>4, Constants
<1>6. answered' \in Seq(Serial)
  BY <1>4, AppendFacts DEF Rest, SendOK
<1>7. UNCHANGED <<made, buffersize, content>> /\ PoolOK'
  BY <1>1, <1>2, ReleaseFacts DEF Rest
<1>8. EventOK'
  BY <1>1, <1>7 DEF Rest, EventOK, Made, eventVars, mainVars
<1>9. HolderOK'
  BY <1>1, <1>2, <1>7 DEF Rest, HolderOK, Made, mainVars
<1>10. SendOK'
  BY <1>1, <1>4, <1>5, <1>6, <1>7 DEF Rest, SendOK, mainVars
<1> QED
  BY <1>7, <1>8, <1>9, <1>10 DEF Rest

LEMMA GatherPartKeepsRest ==
  ASSUME Rest, GatherPart
  PROVE  Rest'
<1> DEFINE b == Head(sendBuffList)
           room == SEND_BUF_SIZE - sendDataLen
<1>1. /\ sendBuffList # <<>>
      /\ buffersize[b] >= room
      /\ Count(b, room, sendDataLen)
      /\ prevSendBuf' = b /\ prevSendOffset' = room
      /\ sendBuffList' = Tail(sendBuffList)
      /\ loopPc = "gather" /\ loopPc' = "write"
      /\ UNCHANGED <<poolVars, eventVars, session, loopBuffer, mainVars, dropped, answered, writing>>
  BY PartFacts
<1>2. /\ b \in Made /\ Tail(sendBuffList) \in Seq(Made)
      /\ Len(Tail(sendBuffList)) <= SendQueueSize /\ buffersize[b] \in Nat
  BY <1>1, HeadOfSendQueue
<1>3. /\ sendDataLen \in Nat /\ sendDataLen <= SEND_BUF_SIZE /\ SEND_BUF_SIZE \in Nat
  BY Constants DEF Rest, SendOK
<1>4. room \in 0..SEND_BUF_SIZE /\ sendDataLen + room = SEND_BUF_SIZE
  BY <1>3
<1> HIDE DEF b, room
<1>5. /\ sendDataLen' = sendDataLen + room /\ copied' \in [Serial -> Nat]
  <2>1. b \in Made /\ room \in Nat /\ sendDataLen \in Nat /\ Count(b, room, sendDataLen)
    BY <1>1, <1>2, <1>3, <1>4
  <2> QED
    BY ONLY Rest, <2>1, CountFacts
<1>6. sendDataLen' \in 0..SEND_BUF_SIZE
  BY <1>3, <1>4, <1>5
<1>7. PoolOK' /\ EventOK'
  BY <1>1 DEF Rest, PoolOK, EventOK, Made, poolVars, eventVars, mainVars
<1>8. HolderOK'
  BY <1>1, <1>2 DEF Rest, HolderOK, Made, poolVars, mainVars
<1>9. prevSendOffset' <= buffersize'[prevSendBuf']
  BY <1>1, <1>2, <1>4 DEF poolVars
<1>10. SendOK'
  BY <1>1, <1>4, <1>5, <1>6, <1>9 DEF Rest, SendOK, mainVars
<1> QED
  BY <1>7, <1>8, <1>10 DEF Rest

\* The main thread's actions.
LEMMA MainKeepsRest ==
  ASSUME Rest, Main
  PROVE  Rest'
<1> USE DEF Rest
<1>1. CASE SwapQueues
  <2>1. /\ batch' = pending /\ pending' = <<>>
        /\ UNCHANGED <<item, poolVars, session, loopPc, loopBuffer, mainVars, queueVars, sendVars,
                       writing>>
    BY <1>1 DEF SwapQueues, Events!TakeBatch
  <2>2. PoolOK' /\ HolderOK' /\ SendOK'
    BY <2>1 DEF PoolOK, HolderOK, SendOK, Made, poolVars, mainVars, queueVars, sendVars
  <2>3. EventOK'
    BY <2>1 DEF EventOK, Made, poolVars, mainVars
  <2> QED
    BY <2>2, <2>3
<1>2. CASE NextPacket
  <2>1. /\ batch # <<>> /\ item' = Head(batch) /\ batch' = Tail(batch)
        /\ mainPc = "update" /\ mainPc' = "dispatch"
        /\ UNCHANGED <<pending, poolVars, session, loopPc, loopBuffer, mainBuffer, taken,
                       answerSize, registered, queueVars, sendVars, writing>>
    BY <1>2 DEF NextPacket, Events!NextItem
  <2>2. PoolOK' /\ HolderOK' /\ SendOK'
    BY <2>1 DEF PoolOK, HolderOK, SendOK, Made, poolVars, queueVars, sendVars
  <2>3. item' \in Made \cup {CloseEvent} /\ batch' \in Seq(Made \cup {CloseEvent})
    BY <2>1, HeadTailProperties DEF EventOK
  <2>4. NoBuffer \notin Made \cup {CloseEvent}
    BY Constants DEF Made, PoolOK
  <2>5. EventOK'
    BY <2>1, <2>3, <2>4 DEF EventOK, Made, poolVars
  <2> QED
    BY <2>2, <2>5
<1>3. CASE RemoveSession
  <2>1. /\ session' = "deleted" /\ registered' = FALSE
        /\ sendBuffList' = <<>> /\ prevSendBuf' = NoBuffer
        /\ dropped' = dropped \cup ToSet(sendBuffList \o Held(prevSendBuf))
        /\ mainPc = "dispatch" /\ mainPc' = "update"
        /\ UNCHANGED <<poolVars, eventVars, loopPc, loopBuffer, mainBuffer, taken, answerSize,
                       prevSendOffset, sendDataLen, copied, answered, writing>>
    BY <1>3 DEF RemoveSession
  <2>2. Held(prevSendBuf) \in Seq(Made)
    BY DEF Held, HolderOK
  <2>3. sendBuffList \o Held(prevSendBuf) \in Seq(Made)
    BY <2>2, ConcatProperties DEF HolderOK
  <2>4. dropped' \in SUBSET Made
    BY <2>1, <2>3, RangeInSet DEF HolderOK
  <2>5. Len(<<>>) <= SendQueueSize /\ <<>> \in Seq(Made)
    BY Constants, EmptySeq
  <2>6. PoolOK' /\ EventOK'
    BY <2>1 DEF PoolOK, EventOK, Made, poolVars, eventVars
  <2>7. HolderOK'
    BY <2>1, <2>4, <2>5 DEF HolderOK, Made, poolVars
  <2>8. SendOK'
    BY <2>1 DEF SendOK
  <2> QED
    BY <2>6, <2>7, <2>8
<1>4. CASE DispatchUnanswered
  <2>1. /\ item # CloseEvent /\ taken' = Append(taken, content[item])
        /\ mainPc = "dispatch" /\ mainPc' = "release"
        /\ UNCHANGED <<poolVars, eventVars, session, loopPc, loopBuffer, mainBuffer, answerSize,
                       registered, queueVars, sendVars, writing>>
    BY <1>4 DEF DispatchUnanswered, IsPacket
  <2>2. item \in Made /\ content[item] \in Serial
    BY <2>1 DEF EventOK, PoolOK
  <2>3. taken' \in Seq(Serial)
    BY <2>1, <2>2, AppendFacts DEF SendOK
  <2>4. PoolOK' /\ EventOK'
    BY <2>1, <2>2 DEF PoolOK, EventOK, Made, poolVars, eventVars
  <2>5. HolderOK' /\ SendOK'
    BY <2>1, <2>3 DEF HolderOK, SendOK, Made, poolVars, queueVars, sendVars
  <2> QED
    BY <2>4, <2>5
<1>5. CASE MakeAnswer
  <2>1. /\ item # CloseEvent /\ mainPc = "dispatch" /\ mainPc' = "push"
        /\ taken' = Append(taken, content[item])
        /\ answerSize' = [answerSize EXCEPT ![content[item]] = GetCachedSize + 1]
        /\ UNCHANGED <<eventVars, session, loopPc, loopBuffer, registered, queueVars, sendVars,
                       writing>>
    BY <1>5 DEF MakeAnswer, IsPacket
  <2>2. PICK b \in Buffer : alloc(b, content[item]) /\ mainBuffer' = b
    BY <1>5 DEF MakeAnswer
  <2>3. item \in Made /\ content[item] \in Serial
    BY <2>1 DEF EventOK, PoolOK
  <2>4. /\ PoolOK' /\ b \in Made' /\ Made \subseteq Made'
        /\ \A c \in Made : buffersize'[c] = buffersize[c]
    BY <2>2, <2>3, AllocFacts
  <2>5. b # NoBuffer
    BY Constants DEF Buffer
  <2>6. taken' \in Seq(Serial)
    BY <2>1, <2>3, AppendFacts DEF SendOK
  <2>7. answerSize' \in [Serial -> Nat]
    BY <2>1, <2>3 DEF SendOK, GetCachedSize
  <2>8. EventOK'
    BY <2>1, <2>3, <2>4, MoreMade DEF EventOK, eventVars
  <2>9. HolderOK'
    BY <2>1, <2>2, <2>4, <2>5, MoreMade DEF HolderOK, queueVars, sendVars
  <2>10. SendOK'
    BY <2>1, <2>4, <2>6, <2>7 DEF HolderOK, SendOK, sendVars
  <2> QED
    BY <2>4, <2>8, <2>9, <2>10
<1>6. CASE sendBuffer
  <2>1. /\ mainPc = "push" /\ mainPc' = "release" /\ mainBuffer' = NoBuffer
        /\ \/ /\ Len(sendBuffList) < SendQueueSize
              /\ sendBuffList' = Append(sendBuffList, mainBuffer) /\ dropped' = dropped
           \/ dropped' = dropped \cup {mainBuffer} /\ sendBuffList' = sendBuffList
        /\ UNCHANGED <<poolVars, eventVars, session, loopPc, loopBuffer, taken, answerSize,
                       registered, sendVars, writing>>
    BY <1>6 DEF sendBuffer, PushAnswer
  <2>2. mainBuffer \in Made
    BY <2>1 DEF HolderOK
  <2>3. /\ sendBuffList' \in Seq(Made) /\ Len(sendBuffList') <= SendQueueSize
        /\ dropped' \in SUBSET Made
    <3>1. CASE sendBuffList' = sendBuffList
      BY <2>1, <2>2, <3>1, AppendFacts DEF HolderOK
    <3>2. CASE Len(sendBuffList) < SendQueueSize /\ sendBuffList' = Append(sendBuffList, mainBuffer)
               /\ dropped' = dropped
      <4>1. /\ sendBuffList' \in Seq(Made) /\ Len(sendBuffList') = Len(sendBuffList) + 1
            /\ Len(sendBuffList) \in Nat
        BY <2>2, <3>2, AppendFacts, LenProperties DEF HolderOK
      <4> QED
        BY <3>2, <4>1, Constants DEF HolderOK
    <3> QED
      BY <2>1, <3>1, <3>2
  <2>4. PoolOK' /\ EventOK'
    BY <2>1 DEF PoolOK, EventOK, Made, poolVars, eventVars
  <2>5. HolderOK' /\ SendOK'
    BY <2>1, <2>3 DEF HolderOK, SendOK, Made, poolVars, sendVars
  <2> QED
    BY <2>4, <2>5
<1>7. CASE ReleasePacket
  <2>1. /\ mainPc = "release" /\ mainPc' = "update" /\ release(item)
        /\ UNCHANGED <<eventVars, session, loopPc, loopBuffer, mainBuffer, taken, answerSize,
                       registered, queueVars, sendVars, writing>>
    BY <1>7 DEF ReleasePacket, PacketDone
  <2>2. UNCHANGED <<made, buffersize, content>> /\ PoolOK'
    BY <2>1, ReleaseFacts DEF EventOK
  <2>3. EventOK' /\ HolderOK' /\ SendOK'
    BY <2>1, <2>2 DEF EventOK, HolderOK, SendOK, Made, eventVars, queueVars, sendVars
  <2> QED
    BY <2>2, <2>3
<1>8. CASE ClearBatch
  <2>1. /\ mainPc = "update" /\ item' = NoBuffer
        /\ UNCHANGED <<pending, batch, poolVars, session, loopPc, loopBuffer, mainVars, queueVars,
                       sendVars, writing>>
    BY <1>8 DEF ClearBatch, Events!EndBatch
  <2>2. PoolOK' /\ HolderOK' /\ SendOK'
    BY <2>1 DEF PoolOK, HolderOK, SendOK, Made, poolVars, mainVars, queueVars, sendVars
  <2>3. EventOK'
    BY <2>1 DEF EventOK, Made, poolVars, mainVars
  <2> QED
    BY <2>2, <2>3
<1>9. CASE SessionNotFound
  <2>1. /\ mainPc = "dispatch" /\ mainPc' = "update"
        /\ UNCHANGED <<poolVars, eventVars, session, loopPc, loopBuffer, mainBuffer, taken,
                       answerSize, registered, queueVars, sendVars, writing>>
    BY <1>9 DEF SessionNotFound
  <2>2. PoolOK' /\ EventOK'
    BY <2>1 DEF PoolOK, EventOK, Made, poolVars, eventVars
  <2>3. HolderOK' /\ SendOK'
    BY <2>1 DEF HolderOK, SendOK, Made, poolVars, queueVars, sendVars
  <2> QED
    BY <2>2, <2>3
<1>10. CASE TakenForNew \/ TakenForClose
  <2>1. /\ item # CloseEvent /\ taken' = Append(taken, content[item])
        /\ dropped' = dropped \cup {item}
        /\ mainPc = "dispatch" /\ mainPc' = "update"
        /\ UNCHANGED <<poolVars, eventVars, session, loopPc, loopBuffer, mainBuffer, answerSize,
                       sendBuffList, sendVars, writing>>
    BY <1>10 DEF TakenForNew, TakenForClose, TakenForSession
  <2>2. registered' \in BOOLEAN
    BY <1>10 DEF TakenForNew, TakenForClose, SendOK
  <2>3. item \in Made /\ content[item] \in Serial
    BY <2>1 DEF EventOK, PoolOK
  <2>4. taken' \in Seq(Serial)
    BY <2>1, <2>3, AppendFacts DEF SendOK
  <2>5. PoolOK' /\ EventOK'
    BY <2>1 DEF PoolOK, EventOK, Made, poolVars, eventVars
  <2>6. HolderOK'
    BY <2>1, <2>3 DEF HolderOK, Made, poolVars, sendVars
  <2>7. SendOK'
    BY <2>1, <2>2, <2>4 DEF SendOK, poolVars, sendVars
  <2> QED
    BY <2>5, <2>6, <2>7
<1> QED
  BY <1>1, <1>2, <1>3, <1>4, <1>5, <1>6, <1>7, <1>8, <1>9, <1>10 DEF Main

LEMMA RestInvariant ==
  ASSUME ReceiveOK, Rest, [Next]_vars
  PROVE  Rest'
<1>0. session \in {"open", "closed", "deleted"} /\ writing \in BOOLEAN
  BY DEF Rest, SendOK
<1>1. CASE On_ResultReadData
  BY <1>0, <1>1, QuietKeepsRest DEF On_ResultReadData
<1>2. CASE ReadEnds
  BY <1>0, <1>2, QuietKeepsRest DEF ReadEnds
<1>3. CASE handleRecvPacket
  <2>1. /\ loopPc = "frame" /\ loopPc' \in {"poll", "frame", "alloc"}
        /\ UNCHANGED <<poolVars, eventVars, session, loopBuffer, mainVars, queueVars, sendVars,
                       writing>>
    BY <1>3 DEF handleRecvPacket
  <2> QED
    BY <1>0, <2>1, QuietKeepsRest
<1>4. CASE PostClose
  <2>1. /\ loopPc = "post close" /\ loopPc' = "poll"
        /\ pending' = Append(pending, CloseEvent)
        /\ UNCHANGED <<batch, item, poolVars, session, loopBuffer, mainVars, queueVars, sendVars,
                       writing>>
    BY <1>4 DEF PostClose, PostsClose, Events!Post
  <2> QED
    BY <1>0, <2>1, QuietKeepsRest
<1>5. CASE GatherNothing \/ Write
  <2>1. /\ loopPc \in {"gather", "write"} /\ loopPc' \in {"write", "poll"}
        /\ writing' \in BOOLEAN
        /\ UNCHANGED <<poolVars, eventVars, session, loopBuffer, mainVars, queueVars, sendVars>>
    BY <1>0, <1>5 DEF GatherNothing, Write
  <2> QED
    BY <1>0, <2>1, QuietKeepsRest
<1>6. CASE UNCHANGED vars
  <2>1. UNCHANGED <<poolVars, eventVars, session, loopPc, loopBuffer, mainVars, queueVars, sendVars,
                    writing>>
    BY <1>6 DEF vars
  <2> QED
    BY <1>0, <2>1, QuietKeepsRest
<1>7. CASE doSend \/ On_WriteData
  <2>1. BeginSend /\ loopPc = "poll" /\ writing' \in BOOLEAN
    BY <1>0, <1>7 DEF doSend, On_WriteData, WriteDone
  <2> QED
    BY <2>1, BeginCases, ResumeKeepsRest, OverrunKeepsRest
<1>8. CASE FillBuffer
  BY <1>8, FillKeepsRest
<1>9. CASE PostPacket
  BY <1>9, PostKeepsRest
<1>10. CASE GatherWhole
  <2>1. GatherOverruns => loopPc = "gather" /\ Overrun /\ writing' \in BOOLEAN
    BY <1>0 DEF GatherOverruns
  <2> QED
    BY <1>10, <2>1, GatherCases, GatherFitsKeepsRest, OverrunKeepsRest
<1>11. CASE GatherPart
  BY <1>11, GatherPartKeepsRest
<1>12. CASE Main
  BY <1>12, MainKeepsRest
<1> QED
  BY <1>1, <1>2, <1>3, <1>4, <1>5, <1>6, <1>7, <1>8, <1>9, <1>10, <1>11, <1>12
  DEF Next, Receive, Gather

-----------------------------------------------------------------------------
(* The stream.                                                             *)

Layout(end) == end \in [0..MaxPackets -> Nat] /\ IsLayout(packets, end)

\* The packets lie one behind the other ...
LEMMA LayoutFacts ==
  ASSUME packets \in [Serial -> Packet], NEW end, Layout(end)
  PROVE  /\ \A n \in 0..MaxPackets : end[n] \in Nat
         /\ \A n \in Serial : /\ n \in Nat /\ n - 1 \in 0..MaxPackets /\ n \in 0..MaxPackets
                              /\ packets[n].packetsize \in 1..RECV_BUF_SIZE
                              /\ end[n] = end[n - 1] + packets[n].packetsize
                              /\ end[n - 1] < end[n]
         /\ \A m, n \in 0..MaxPackets : m <= n => end[m] <= end[n]
<1>1. MaxPackets \in Nat /\ \A n \in 0..MaxPackets : end[n] \in Nat
  BY Constants DEF Layout
<1>2. ASSUME NEW n \in Serial
      PROVE  /\ n \in Nat /\ n - 1 \in 0..MaxPackets /\ n \in 0..MaxPackets
             /\ packets[n].packetsize \in 1..RECV_BUF_SIZE
             /\ end[n] = end[n - 1] + packets[n].packetsize
             /\ end[n - 1] < end[n]
  <2>1. n \in Nat /\ n - 1 \in 0..MaxPackets /\ n \in 0..MaxPackets
    BY <1>1 DEF Serial
  <2>2. packets[n].packetsize \in 1..RECV_BUF_SIZE
    BY PacketAssumption
  <2>3. end[n] = end[n - 1] + packets[n].packetsize
    BY DEF Layout, IsLayout
  <2> QED
    BY <1>1, <2>1, <2>2, <2>3, Constants
<1>3. ASSUME NEW m \in 0..MaxPackets
      PROVE  \A n \in 0..MaxPackets : m <= n => end[m] <= end[n]
  <2> DEFINE T == {n \in 0..MaxPackets : m <= n => end[m] <= end[n]}
  <2>1. 0 \in T
    BY <1>1
  <2>2. \A n \in 0..MaxPackets : n < MaxPackets /\ n \in T => n + 1 \in T
    <3> SUFFICES ASSUME NEW n \in T, n < MaxPackets, m <= n + 1, m # n + 1
                 PROVE  end[m] <= end[n + 1]
      BY <1>1
    <3>1. n + 1 \in Serial
      BY <1>1 DEF Serial
    <3>2. end[(n + 1) - 1] < end[n + 1] /\ (n + 1) - 1 = n
      BY <1>1, <1>2, <3>1
    <3>3. end[m] <= end[n]
      BY <1>1
    <3> QED
      BY <1>1, <3>2, <3>3
  <2> HIDE DEF T
  <2>3. \A n \in 0..MaxPackets : n \in T
    BY <1>1, <2>1, <2>2, SetInduction
  <2> QED
    BY <2>3 DEF T
<1> QED
  BY <1>1, <1>2, <1>3

\* ... so that the stream is what the packets say, unit by unit.
LEMMA StreamFacts ==
  ASSUME packets \in [Serial -> Packet], NEW end, Layout(end), stream = StreamOf(packets, end)
  PROVE  /\ stream \in Seq(Unit)
         /\ Len(stream) = end[MaxPackets]
         /\ \A i \in 1..Len(stream) : \E n \in Serial : end[n - 1] < i /\ i <= end[n]
         /\ \A n \in Serial : \A j \in 1..packets[n].packetsize :
              stream[end[n - 1] + j] = UnitsOf(packets, n)[j]
<1>1. MaxPackets \in Nat /\ MaxPackets \in 0..MaxPackets /\ 0 \in 0..MaxPackets
      /\ end[MaxPackets] \in Nat /\ end[0] = 0
  BY Constants, LayoutFacts DEF Layout, IsLayout
<1>2. ASSUME NEW i \in 1..end[MaxPackets]
      PROVE  \E n \in Serial : end[n - 1] < i /\ i <= end[n]
  <2> DEFINE T == {n \in 0..MaxPackets : i <= end[n]}
  <2>1. T \in SUBSET Nat /\ MaxPackets \in T
    BY <1>1
  <2>2. PICK n \in T : \A k \in T : n <= k
    <3> HIDE DEF T
    <3> QED
      BY <2>1, LeastElement
  <2>3. n # 0
    BY <1>1
  <2>4. n \in Serial /\ n - 1 \in 0..MaxPackets /\ n - 1 \notin T
    BY <1>1, <2>2, <2>3 DEF Serial
  <2>5. end[n - 1] < i
    BY <1>1, <2>4, LayoutFacts
  <2> QED
    BY <2>4, <2>5
<1>3. ASSUME NEW i \in 1..end[MaxPackets], NEW m \in Serial, end[m - 1] < i, i <= end[m]
      PROVE  m = CHOOSE n \in Serial : end[n - 1] < i /\ i <= end[n]
  <2>1. ASSUME NEW n \in Serial, end[n - 1] < i, i <= end[n], n < m PROVE FALSE
    <3>1. /\ n \in 0..MaxPackets /\ m - 1 \in 0..MaxPackets /\ n <= m - 1
          /\ end[n] \in Nat /\ end[m - 1] \in Nat
      BY <2>1, LayoutFacts
    <3>2. end[n] <= end[m - 1]
      BY <3>1, LayoutFacts
    <3> QED
      BY <1>3, <2>1, <3>1, <3>2
  <2>2. ASSUME NEW n \in Serial, end[n - 1] < i, i <= end[n], m < n PROVE FALSE
    <3>1. /\ m \in 0..MaxPackets /\ n - 1 \in 0..MaxPackets /\ m <= n - 1
          /\ end[m] \in Nat /\ end[n - 1] \in Nat
      BY <2>2, LayoutFacts
    <3>2. end[m] <= end[n - 1]
      BY <3>1, LayoutFacts
    <3> QED
      BY <1>3, <2>2, <3>1, <3>2
  <2>3. \A n \in Serial : end[n - 1] < i /\ i <= end[n] => n = m
    BY <2>1, <2>2, LayoutFacts
  <2> QED
    BY <1>3, <2>3
<1>4. ASSUME NEW n \in Serial, NEW j \in 1..packets[n].packetsize
      PROVE  UnitsOf(packets, n)[j] \in Unit
  <2>1. packets[n] \in Packet /\ packets[n].packetsize \in 1..RECV_BUF_SIZE
        /\ packets[n].signature \in {"client", "server"}
    BY PacketAssumption
  <2>2. UnitsOf(packets, n)[j] =
          [signature |-> IF j = 1 THEN packets[n].signature ELSE "none",
           packetsize |-> packets[n].packetsize, serial |-> n]
    BY DEF UnitsOf
  <2> QED
    BY <2>1, <2>2 DEF Unit
<1>5. ASSUME NEW n \in Serial, NEW j \in 1..packets[n].packetsize
      PROVE  stream[end[n - 1] + j] = UnitsOf(packets, n)[j]
  <2>1. /\ n \in 0..MaxPackets /\ n - 1 \in 0..MaxPackets /\ n <= MaxPackets
        /\ packets[n].packetsize \in Nat
        /\ end[n] = end[n - 1] + packets[n].packetsize /\ end[n] \in Nat /\ end[n - 1] \in Nat
    BY LayoutFacts DEF Serial
  <2>2. end[n] <= end[MaxPackets]
    BY <1>1, <2>1, LayoutFacts
  <2>3. /\ end[n - 1] + j \in 1..end[MaxPackets] /\ end[n - 1] < end[n - 1] + j
        /\ end[n - 1] + j <= end[n] /\ (end[n - 1] + j) - end[n - 1] = j
    BY <1>1, <2>1, <2>2
  <2>4. n = CHOOSE m \in Serial : end[m - 1] < end[n - 1] + j /\ end[n - 1] + j <= end[m]
    BY <1>3, <2>3
  <2> QED
    BY <2>3, <2>4 DEF StreamOf
<1>6. ASSUME NEW i \in 1..end[MaxPackets] PROVE stream[i] \in Unit
  <2>1. PICK n \in Serial : end[n - 1] < i /\ i <= end[n]
    BY <1>2
  <2>2. end[n] = end[n - 1] + packets[n].packetsize /\ end[n - 1] \in Nat
        /\ packets[n].packetsize \in Nat
    BY LayoutFacts
  <2>3. i - end[n - 1] \in 1..packets[n].packetsize /\ i = end[n - 1] + (i - end[n - 1])
    BY <2>1, <2>2
  <2>4. stream[end[n - 1] + (i - end[n - 1])] = UnitsOf(packets, n)[i - end[n - 1]]
    BY <1>5, <2>3
  <2> QED
    BY <1>4, <2>3, <2>4
<1>7. stream = [i \in 1..end[MaxPackets] |-> stream[i]]
  BY DEF StreamOf
<1>8. stream \in Seq(Unit) /\ Len(stream) = end[MaxPackets]
  <2>1. stream \in [1..end[MaxPackets] -> Unit]
    BY <1>6, <1>7
  <2>2. stream \in Seq(Unit) /\ DOMAIN stream = 1..end[MaxPackets]
    BY <1>1, <2>1, SeqDef
  <2>3. Len(stream) \in Nat /\ DOMAIN stream = 1..Len(stream)
    BY <2>2, LenProperties
  <2> QED
    BY <1>1, <2>2, <2>3
<1> QED
  BY <1>2, <1>5, <1>8

-----------------------------------------------------------------------------
(* The types, for every behaviour.                                         *)

LEMMA TypedInitially == Init => Typed
<1> SUFFICES ASSUME Init PROVE Typed
  OBVIOUS
<1>1. PICK end \in [0..MaxPackets -> 0..MaxPackets * RECV_BUF_SIZE] :
        IsLayout(packets, end) /\ stream = StreamOf(packets, end)
  BY DEF Init
<1>2. Layout(end) /\ packets \in [Serial -> Packet]
  BY <1>1, Constants DEF Layout, Init
<1>3. stream \in Seq(Unit) /\ Len(stream) \in Nat
  BY <1>1, <1>2, StreamFacts, LenProperties
<1>4. /\ arrived = 0 /\ loopPc = "poll" /\ loopBuffer = NoBuffer
      /\ recvBuf = [i \in 1..RECV_BUF_SIZE |-> ZeroUnit]
      /\ buffReadPos = 0 /\ recvDataLen = 0 /\ postRecvBuf = <<>> /\ postPacketsize = 0
      /\ bufferpool = <<>> /\ made = 0 /\ buffersize = <<>>
      /\ pending = <<>> /\ batch = <<>> /\ item = NoBuffer
  BY DEF Init, Framing!Init, Pool!Init, Events!Init
<1>5. 0 \in 0..RECV_BUF_SIZE /\ 0 \in 0..PACKET_MAX_SIZE /\ 0 \in 0..MaxBuffers
      /\ 0 \in 0..SEND_BUF_SIZE /\ 0 \in 0..MaxPackets
      /\ Len(<<>>) = 0 /\ 0 <= RECV_BUF_SIZE /\ 0 <= SendQueueSize
  BY Constants, EmptySeq
<1>6. ReceiveOK
  <2>1. Framing!FramingTypeOK
    BY <1>4, <1>5, EmptySeq DEF Framing!FramingTypeOK
  <2>2. arrived \in 0..Len(stream) /\ buffReadPos + recvDataLen <= RECV_BUF_SIZE
    BY <1>3, <1>4, <1>5
  <2> QED
    BY <1>2, <1>3, <1>4, <2>1, <2>2 DEF ReceiveOK, LoopPcs
<1>7. PoolOK
  <2>1. content = [b \in Buffer |-> 0]
    BY DEF Init
  <2>2. Made = {} /\ buffersize \in [Made -> BufferSizes]
    BY <1>4 DEF Made
  <2> QED
    BY <1>4, <1>5, <2>1, <2>2, EmptySeq DEF PoolOK
<1>8. EventOK /\ HolderOK /\ SendOK
  BY <1>4, <1>5, EmptySeq DEF Init, EventOK, HolderOK, SendOK
<1> QED
  BY <1>6, <1>7, <1>8 DEF Typed

LEMMA TypedInvariant == Spec => []Typed
<1>1. Typed /\ [Next]_vars => Typed'
  <2> SUFFICES ASSUME Typed, [Next]_vars PROVE Typed'
    OBVIOUS
  <2>1. ReceiveOK' /\ Rest'
    BY ReceiveInvariant, RestInvariant DEF Typed, Rest
  <2> QED
    BY <2>1 DEF Typed, Rest
<1> QED
  BY <1>1, TypedInitially, PTL DEF Spec

LEMMA TypedIsTypeOK == Typed => TypeOK
<1> SUFFICES ASSUME Typed PROVE TypeOK
  OBVIOUS
<1>1. ReceiveOK /\ PoolOK /\ EventOK /\ HolderOK /\ SendOK
  BY DEF Typed
<1>2. Made \subseteq Buffer /\ Made = 1..made
  BY <1>1, Constants DEF PoolOK, Made, Buffer
<1>3. Made \cup {CloseEvent} \subseteq Buffer \cup {CloseEvent}
  BY <1>2
<1>4. sendBuffList \in Seq(Buffer) /\ Len(sendBuffList) <= SendQueueSize
  BY <1>1, <1>2, SeqMonotonic DEF HolderOK
<1>5. Events!ChannelTypeOK
  <2>1. pending \in Seq(Buffer \cup {CloseEvent}) /\ batch \in Seq(Buffer \cup {CloseEvent})
    BY <1>1, <1>3, SeqMonotonic DEF EventOK
  <2>2. item \in (Buffer \cup {CloseEvent}) \cup {NoBuffer}
    BY <1>1, <1>2 DEF EventOK
  <2> QED
    BY <2>1, <2>2 DEF Events!ChannelTypeOK
<1>6. Pool!PoolTypeOK
  BY <1>1, <1>2 DEF PoolOK, Pool!PoolTypeOK
<1>7. sendDataLen \in Nat
  BY <1>1, Constants DEF SendOK
<1>8. loopBuffer \in Buffer \cup {NoBuffer} /\ mainBuffer \in Buffer \cup {NoBuffer}
      /\ prevSendBuf \in Buffer \cup {NoBuffer} /\ dropped \in SUBSET Buffer
  BY <1>1, <1>2 DEF HolderOK
<1> QED
  BY <1>1, <1>4, <1>5, <1>6, <1>7, <1>8 DEF TypeOK, ReceiveOK, LoopPcs, PoolOK, EventOK, SendOK

\* Every variable has its type, whatever the client sends and whenever it
\* hangs up: recvBuf, postRecvBuf and the send queue never hold more than they
\* can, and no thread names a buffer that was not made.
THEOREM TypeCorrect == Spec => []TypeOK
BY TypedInvariant, TypedIsTypeOK, PTL

-----------------------------------------------------------------------------
(* The close.  It is posted last, so nothing is behind it in the channel.  *)

NoClose(s) == \A i \in 1..Len(s) : s[i] # CloseEvent
CloseInHand == mainPc = "dispatch" /\ item = CloseEvent
CloseNowhere == NoClose(pending) /\ NoClose(batch) /\ ~ CloseInHand

CloseInv ==
  /\ session = "open" => CloseNowhere /\ loopPc # "post close"
  /\ loopPc = "post close" => CloseNowhere /\ session = "closed"
  /\ session # "open" => loopPc \in {"poll", "post close", "gather", "write", "overrun"}
  /\ \A i \in 1..Len(pending) : pending[i] = CloseEvent => i = Len(pending)
  /\ \A i \in 1..Len(batch) : batch[i] = CloseEvent => i = Len(batch) /\ pending = <<>>
  /\ CloseInHand => batch = <<>> /\ pending = <<>>
  /\ session = "deleted" => batch = <<>> /\ pending = <<>> /\ mainPc = "update"

LEMMA LoopKeepsClose ==
  ASSUME CloseInv, UNCHANGED <<eventVars, session, mainPc>>, loopPc' # "post close",
         session # "open" => loopPc' \in {"poll", "gather", "write", "overrun"}
  PROVE  CloseInv'
BY DEF CloseInv, CloseNowhere, CloseInHand, NoClose, eventVars

LEMMA HandlerKeepsClose ==
  ASSUME CloseInv, mainPc # "update", UNCHANGED <<eventVars, session, loopPc>>,
         mainPc' # "dispatch"
  PROVE  CloseInv'
BY DEF CloseInv, CloseNowhere, CloseInHand, NoClose, eventVars

LEMMA EventsKeepClose ==
  ASSUME EventOK, HolderOK, PoolOK, CloseInv,
         ReadEnds \/ PostPacket \/ PostClose \/ SwapQueues \/ NextPacket \/ RemoveSession
           \/ ClearBatch
  PROVE  CloseInv'
<1>1. pending \in Seq(Made \cup {CloseEvent}) /\ batch \in Seq(Made \cup {CloseEvent})
  BY DEF EventOK
<1>2. CASE ReadEnds
  BY <1>2 DEF ReadEnds, CloseInv, CloseNowhere, CloseInHand, NoClose, eventVars, mainVars
<1>3. CASE PostPacket
  <2>1. /\ loopPc = "post" /\ loopPc' = "frame" /\ pending' = Append(pending, loopBuffer)
        /\ UNCHANGED <<batch, item, session, mainPc>>
    BY <1>3 DEF PostPacket, PostBuffer, Events!Post, mainVars
  <2>2. loopBuffer \in Made /\ loopBuffer # CloseEvent
    BY <2>1, Constants DEF HolderOK, Made, PoolOK
  <2>3. /\ Len(pending') = Len(pending) + 1 /\ Len(pending) \in Nat
        /\ \A i \in 1..Len(pending) : pending'[i] = pending[i]
        /\ pending'[Len(pending) + 1] = loopBuffer
    BY <1>1, <2>1, <2>2, AppendFacts, LenProperties
  <2>4. session = "open" /\ CloseNowhere
    BY <2>1 DEF CloseInv
  <2>5. NoClose(pending)'
    BY <2>2, <2>3, <2>4 DEF CloseNowhere, NoClose
  <2>6. CloseNowhere'
    BY <2>1, <2>4, <2>5 DEF CloseNowhere, NoClose, CloseInHand
  <2> QED
    BY <2>1, <2>4, <2>6 DEF CloseInv, CloseNowhere, NoClose
<1>4. CASE PostClose
  <2>1. /\ loopPc = "post close" /\ loopPc' = "poll" /\ pending' = Append(pending, CloseEvent)
        /\ UNCHANGED <<batch, item, session, mainPc>>
    BY <1>4 DEF PostClose, PostsClose, Events!Post, mainVars
  <2>2. /\ Len(pending') = Len(pending) + 1 /\ Len(pending) \in Nat
        /\ \A i \in 1..Len(pending) : pending'[i] = pending[i]
    <3> DEFINE S == Made \cup {CloseEvent}
    <3>1. CloseEvent \in S /\ pending \in Seq(S)
      BY <1>1
    <3> HIDE DEF S
    <3>2. /\ Len(Append(pending, CloseEvent)) = Len(pending) + 1 /\ Len(pending) \in Nat
          /\ \A i \in 1..Len(pending) : Append(pending, CloseEvent)[i] = pending[i]
      BY <3>1, AppendFacts, LenProperties
    <3> QED
      BY <2>1, <3>2
  <2>3. session = "closed" /\ CloseNowhere
    BY <2>1 DEF CloseInv
  <2>4. \A i \in 1..Len(pending') : pending'[i] = CloseEvent => i = Len(pending')
    BY <2>2, <2>3 DEF CloseNowhere, NoClose
  <2> QED
    BY <2>1, <2>3, <2>4 DEF CloseInv, CloseNowhere, NoClose, CloseInHand
<1>5. CASE SwapQueues
  <2>1. /\ batch = <<>> /\ batch' = pending /\ pending' = <<>> /\ mainPc = "update"
        /\ UNCHANGED <<item, session, loopPc, mainPc>>
    BY <1>5 DEF SwapQueues, Events!TakeBatch, mainVars
  <2>2. NoClose(pending)' /\ \A i \in 1..Len(pending') : pending'[i] # CloseEvent
    BY <2>1, EmptySeq DEF NoClose
  <2> QED
    BY <2>1, <2>2 DEF CloseInv, CloseNowhere, NoClose, CloseInHand
<1>6. CASE NextPacket
  <2>1. /\ batch # <<>> /\ item' = Head(batch) /\ batch' = Tail(batch)
        /\ mainPc = "update" /\ mainPc' = "dispatch"
        /\ UNCHANGED <<pending, session, loopPc>>
    BY <1>6 DEF NextPacket, Events!NextItem
  <2>2. /\ Len(batch) \in Nat /\ Len(batch) >= 1
        /\ item' = batch[1] /\ Len(batch') = Len(batch) - 1
        /\ \A i \in 1..Len(batch') : batch'[i] = batch[i + 1]
        /\ batch' \in Seq(Made \cup {CloseEvent})
    BY <1>1, <2>1, HeadTailProperties, EmptySeq, LenProperties
  <2>0. \A i \in 1..Len(batch) : batch[i] = CloseEvent => i = Len(batch) /\ pending = <<>>
    BY DEF CloseInv
  <2>3. CloseInHand' => batch' = <<>> /\ pending' = <<>>
    <3> SUFFICES ASSUME batch[1] = CloseEvent PROVE Len(batch') = 0 /\ pending = <<>>
      BY <2>1, <2>2, EmptySeq DEF CloseInHand
    <3>1. 1 = Len(batch) /\ pending = <<>>
      BY <2>0, <2>2
    <3>2. Len(batch) \in Nat /\ Len(batch') = Len(batch) - 1
      BY <2>2
    <3> QED
      BY <3>1, <3>2
  <2>4. NoClose(batch) => NoClose(batch)' /\ ~ CloseInHand'
    BY <2>1, <2>2 DEF NoClose, CloseInHand
  <2>5. \A i \in 1..Len(batch') : batch'[i] = CloseEvent => i = Len(batch') /\ pending' = <<>>
    <3> SUFFICES ASSUME NEW i \in 1..Len(batch'), batch'[i] = CloseEvent
                 PROVE  i = Len(batch') /\ pending' = <<>>
      OBVIOUS
    <3>1. Len(batch) \in Nat /\ Len(batch') = Len(batch) - 1 /\ batch'[i] = batch[i + 1]
      BY <2>2
    <3>2. i + 1 \in 1..Len(batch)
      BY <3>1
    <3>3. i + 1 = Len(batch) /\ pending = <<>>
      BY <2>0, <3>1, <3>2
    <3>4. i = Len(batch')
      BY <3>1, <3>3
    <3>5. pending' = pending
      BY <2>1
    <3> QED
      BY <3>3, <3>4, <3>5
  <2>6. CloseNowhere => CloseNowhere'
    BY <2>1, <2>4 DEF CloseNowhere, NoClose
  <2> QED
    BY <2>1, <2>3, <2>5, <2>6 DEF CloseInv
<1>7. CASE RemoveSession
  <2>1. /\ CloseInHand /\ session' = "deleted" /\ mainPc' = "update"
        /\ UNCHANGED <<eventVars, loopPc>>
    BY <1>7 DEF RemoveSession, CloseInHand
  <2> QED
    BY <2>1 DEF CloseInv, CloseNowhere, CloseInHand, NoClose, eventVars
<1>8. CASE ClearBatch
  <2>1. mainPc = "update" /\ UNCHANGED <<pending, batch, session, loopPc, mainPc>>
    BY <1>8 DEF ClearBatch, Events!EndBatch, mainVars
  <2> QED
    BY <2>1 DEF CloseInv, CloseNowhere, CloseInHand, NoClose
<1> QED
  BY <1>2, <1>3, <1>4, <1>5, <1>6, <1>7, <1>8

LEMMA CloseInvariant ==
  ASSUME EventOK, HolderOK, PoolOK, CloseInv, [Next]_vars
  PROVE  CloseInv'
<1>1. CASE ReadEnds \/ PostPacket \/ PostClose \/ SwapQueues \/ NextPacket \/ RemoveSession
             \/ ClearBatch
  BY <1>1, EventsKeepClose
<1>2. CASE SessionNotFound \/ TakenForNew \/ TakenForClose \/ DispatchUnanswered \/ MakeAnswer
             \/ sendBuffer \/ ReleasePacket
  <2>1. mainPc # "update" /\ mainPc' # "dispatch" /\ UNCHANGED <<eventVars, session, loopPc>>
    BY <1>2 DEF SessionNotFound, TakenForNew, TakenForClose, TakenForSession, DispatchUnanswered,
                MakeAnswer, sendBuffer, PushAnswer, ReleasePacket, PacketDone
  <2> QED
    BY <2>1, HandlerKeepsClose
<1>3. CASE On_ResultReadData \/ handleRecvPacket \/ FillBuffer
  <2>1. /\ session = "open" \/ loopPc \in {"frame", "alloc"}
        /\ loopPc' # "post close" /\ UNCHANGED <<eventVars, session, mainPc>>
    BY <1>3 DEF On_ResultReadData, handleRecvPacket, FillBuffer, mainVars
  <2>2. session = "open"
    BY <2>1 DEF CloseInv
  <2> QED
    BY <2>1, <2>2, LoopKeepsClose
<1>4. CASE doSend \/ On_WriteData \/ Gather
  <2>1. loopPc' \in {"poll", "gather", "write", "overrun"}
        /\ UNCHANGED <<eventVars, session, mainPc>>
    BY <1>4 DEF doSend, On_WriteData, WriteDone, BeginSend, Resume, ResumeWith, Overrun, Gather,
                GatherWhole, GatherBelow, GatherPart, GatherNothing, Write, mainVars
  <2> QED
    BY <2>1, LoopKeepsClose
<1>5. CASE UNCHANGED vars
  BY <1>5 DEF vars, CloseInv, CloseNowhere, CloseInHand, NoClose, eventVars, mainVars
<1> QED
  BY <1>1, <1>2, <1>3, <1>4, <1>5 DEF Next, Receive, Main

LEMMA CloseInitially == Init => CloseInv
BY EmptySeq DEF Init, Events!Init, CloseInv, CloseNowhere, CloseInHand, NoClose

LEMMA CloseHolds == Spec => []CloseInv
<1>1. Typed /\ CloseInv /\ [Next]_vars => CloseInv'
  BY CloseInvariant DEF Typed
<1> QED
  BY <1>1, CloseInitially, TypedInvariant, PTL DEF Spec

\* The close is taken behind every packet of the session, however the reads,
\* the batches and the end of the stream fall: the session of each packet that is
\* dispatched has not been deleted.
THEOREM PacketsFindTheirSession == Spec => []PacketFindsSession
<1>1. CloseInv => PacketFindsSession
  BY DEF CloseInv, PacketFindsSession
<1> QED
  BY <1>1, CloseHolds, PTL

-----------------------------------------------------------------------------
(* Where the buffers are: each in one of nine places, the close in one at  *)
(* most.                                                                   *)

One(b) == {b} \ {NoBuffer}
InHand == IF mainPc = "update" THEN {} ELSE {item}

Places ==
  [k \in 1..9 |->
     CASE k = 1 -> ToSet(bufferpool)
       [] k = 2 -> One(loopBuffer)
       [] k = 3 -> ToSet(pending)
       [] k = 4 -> ToSet(batch)
       [] k = 5 -> InHand
       [] k = 6 -> One(mainBuffer)
       [] k = 7 -> ToSet(sendBuffList)
       [] k = 8 -> One(prevSendBuf)
       [] k = 9 -> dropped]

Owned(Q, M) ==
  /\ \A j, k \in 1..9 : \A b \in Q[j] : b \in Q[k] => j = k
  /\ \A b : b # CloseEvent => (b \in M <=> \E k \in 1..9 : b \in Q[k])

OwnerInv ==
  /\ Apart(bufferpool) /\ Apart(pending) /\ Apart(batch) /\ Apart(sendBuffList)
  /\ Owned(Places, Made)

LEMMA PlacesAre ==
  /\ Places[1] = ToSet(bufferpool)
  /\ Places[2] = One(loopBuffer)
  /\ Places[3] = ToSet(pending)
  /\ Places[4] = ToSet(batch)
  /\ Places[5] = InHand
  /\ Places[6] = One(mainBuffer)
  /\ Places[7] = ToSet(sendBuffList)
  /\ Places[8] = One(prevSendBuf)
  /\ Places[9] = dropped
BY DEF Places

LEMMA PlacesIsFunction == Places = [k \in 1..9 |-> Places[k]]
BY DEF Places

LEMMA PlacesAreNext ==
  /\ Places'[1] = ToSet(bufferpool)'
  /\ Places'[2] = One(loopBuffer)'
  /\ Places'[3] = ToSet(pending)'
  /\ Places'[4] = ToSet(batch)'
  /\ Places'[5] = InHand'
  /\ Places'[6] = One(mainBuffer)'
  /\ Places'[7] = ToSet(sendBuffList)'
  /\ Places'[8] = One(prevSendBuf)'
  /\ Places'[9] = dropped'
BY DEF Places

LEMMA Nine == \A k \in 1..9 : k = 1 \/ k = 2 \/ k = 3 \/ k = 4 \/ k = 5 \/ k = 6 \/ k = 7 \/ k = 8 \/ k = 9
OBVIOUS

\* What moves from one place to another is still in one place ...
LEMMA Move ==
  ASSUME NEW Q, NEW R, NEW M, NEW i \in 1..9, NEW j \in 1..9, i # j, NEW T, Owned(Q, M),
         T \subseteq Q[i], R[i] = Q[i] \ T, R[j] = Q[j] \cup T,
         \A k \in 1..9 : k # i /\ k # j => R[k] = Q[k]
  PROVE  Owned(R, M)
<1>1. \A k \in 1..9 : \A b \in R[k] :
        \/ b \in T /\ k = j /\ b \in Q[i]
        \/ b \notin T /\ b \in Q[k]
  <2> SUFFICES ASSUME NEW k \in 1..9, NEW b \in R[k]
               PROVE  \/ b \in T /\ k = j /\ b \in Q[i]
                      \/ b \notin T /\ b \in Q[k]
    OBVIOUS
  <2>1. b \in T /\ k # j => b \in Q[i] /\ b \in Q[k] /\ k # i
    OBVIOUS
  <2>2. ~ (b \in T /\ k # j)
    BY <2>1 DEF Owned
  <2> QED
    BY <2>2
<1>2. \A l, k \in 1..9 : \A b \in R[l] : b \in R[k] => l = k
  BY <1>1 DEF Owned
<1>3. ASSUME NEW b, b # CloseEvent, NEW k \in 1..9, b \in R[k] PROVE b \in M
  BY <1>1, <1>3 DEF Owned
<1>4. ASSUME NEW b, b # CloseEvent, b \in M PROVE \E k \in 1..9 : b \in R[k]
  <2>1. PICK k \in 1..9 : b \in Q[k]
    BY <1>4 DEF Owned
  <2>2. CASE b \in T
    BY <2>2
  <2>3. CASE b \notin T
    <3>1. b \in R[k]
      BY <2>1, <2>3
    <3> QED
      BY <3>1
  <2> QED
    BY <2>2, <2>3
<1> QED
  BY <1>2, <1>3, <1>4 DEF Owned

\* ... and so is what enters one, having been in none; a close may leave.
LEMMA Enter ==
  ASSUME NEW Q, NEW R, NEW M, NEW N, NEW j \in 1..9, NEW b, Owned(Q, M),
         \A k \in 1..9 : b \notin Q[k],
         R[j] = Q[j] \cup {b}, \A k \in 1..9 : k # j => R[k] = Q[k],
         \A c : c # CloseEvent => (c \in N <=> c \in M \/ c = b)
  PROVE  Owned(R, N)
<1>1. \A k \in 1..9 : \A c : c \in R[k] <=> c \in Q[k] \/ (c = b /\ k = j)
  OBVIOUS
<1>2. \A l, k \in 1..9 : \A c \in R[l] : c \in R[k] => l = k
  BY <1>1 DEF Owned
<1>3. ASSUME NEW c, c # CloseEvent PROVE c \in N <=> \E k \in 1..9 : c \in R[k]
  BY <1>1, <1>3 DEF Owned
<1> QED
  BY <1>2, <1>3 DEF Owned

LEMMA Leave ==
  ASSUME NEW Q, NEW R, NEW M, NEW i \in 1..9, Owned(Q, M),
         R[i] = Q[i] \ {CloseEvent}, \A k \in 1..9 : k # i => R[k] = Q[k]
  PROVE  Owned(R, M)
<1>1. \A k \in 1..9 : \A c : c # CloseEvent => (c \in R[k] <=> c \in Q[k])
  OBVIOUS
<1>2. \A k \in 1..9 : R[k] \subseteq Q[k]
  OBVIOUS
<1> QED
  BY <1>1, <1>2 DEF Owned

-----------------------------------------------------------------------------
(* Each action moves a buffer, or the close, from one place to another.    *)

LEMMA AllocKeepsOwned ==
  ASSUME PoolOK, OwnerInv, NEW b \in Buffer, NEW n \in Serial, alloc(b, n), NEW j \in 2..9,
         Places'[1] = ToSet(bufferpool)', Places'[j] = Places[j] \cup {b},
         \A k \in 2..9 : k # j => Places'[k] = Places[k]
  PROVE  Apart(bufferpool)' /\ Owned(Places, Made)'
<1>1. /\ \/ /\ bufferpool # <<>> /\ b = Head(bufferpool) /\ bufferpool' = Tail(bufferpool)
            /\ made' = made
         \/ bufferpool = <<>> /\ bufferpool' = <<>> /\ b = made + 1 /\ made' = made + 1
      /\ bufferpool \in Seq(Made) /\ made \in Nat
  BY AllocFacts DEF PoolOK
<1>2. Apart(bufferpool) /\ Owned(Places, Made)
  BY DEF OwnerInv
<1>3. b # CloseEvent
  BY Constants DEF Buffer
<1>4. CASE bufferpool # <<>> /\ b = Head(bufferpool) /\ bufferpool' = Tail(bufferpool) /\ made' = made
  <2>1. /\ Apart(Tail(bufferpool))
        /\ ToSet(bufferpool) = ToSet(Tail(bufferpool)) \cup {b}
        /\ b \notin ToSet(Tail(bufferpool))
    BY <1>1, <1>2, <1>4, ApartTail, RangeOfTail
  <2>2. {b} \subseteq Places[1] /\ Places'[1] = Places[1] \ {b} /\ Places'[j] = Places[j] \cup {b}
    BY <1>4, <2>1, PlacesAre
  <2>3. \A k \in 1..9 : k # 1 /\ k # j => Places'[k] = Places[k]
    OBVIOUS
  <2>4. 1 \in 1..9 /\ j \in 1..9 /\ 1 # j
    OBVIOUS
  <2>5. Owned(Places', Made)
    BY <1>2, <2>2, <2>3, <2>4, Move
  <2> QED
    BY <1>4, <2>1, <2>5 DEF Made, Owned
<1>5. CASE bufferpool = <<>> /\ bufferpool' = <<>> /\ b = made + 1 /\ made' = made + 1
  <2>1. Places'[1] = Places[1]
    BY <1>5, PlacesAre
  <2>2. b \notin Made /\ Made' = Made \cup {b}
    BY <1>1, <1>5 DEF Made
  <2>3. \A k \in 1..9 : b \notin Places[k]
    BY <1>2, <1>3, <2>2 DEF Owned
  <2>4. \A k \in 1..9 : k # j => Places'[k] = Places[k]
    BY <2>1
  <2>5. \A c : c # CloseEvent => (c \in Made' <=> c \in Made \/ c = b)
    BY <2>2
  <2>6. Owned(Places', Made')
    BY <1>2, <2>3, <2>4, <2>5, Enter
  <2> QED
    BY <1>2, <1>5, <2>6 DEF Owned
<1> QED
  BY <1>1, <1>4, <1>5

LEMMA ReleaseKeepsOwned ==
  ASSUME PoolOK, OwnerInv, NEW b \in Made, release(b), NEW i \in 2..9, b \in Places[i],
         Places'[1] = ToSet(bufferpool)', Places'[i] = Places[i] \ {b},
         \A k \in 2..9 : k # i => Places'[k] = Places[k]
  PROVE  Apart(bufferpool)' /\ Owned(Places, Made)'
<1>1. bufferpool' = <<b>> \o bufferpool /\ made' = made /\ bufferpool \in Seq(Made)
  BY ReleaseFacts DEF PoolOK
<1>2. Apart(bufferpool) /\ Owned(Places, Made)
  BY DEF OwnerInv
<1>3. b \notin ToSet(bufferpool)
  BY <1>2, PlacesAre DEF Owned
<1>4. Apart(bufferpool') /\ ToSet(bufferpool') = ToSet(bufferpool) \cup {b}
  BY <1>1, <1>2, <1>3, PrependFacts
<1>5. {b} \subseteq Places[i] /\ Places'[i] = Places[i] \ {b} /\ Places'[1] = Places[1] \cup {b}
  BY <1>4, PlacesAre
<1>6. \A k \in 1..9 : k # i /\ k # 1 => Places'[k] = Places[k]
  OBVIOUS
<1>7. 1 \in 1..9 /\ i \in 1..9 /\ i # 1
  OBVIOUS
<1>8. Owned(Places', Made)
  BY <1>2, <1>5, <1>6, <1>7, Move
<1> QED
  BY <1>1, <1>4, <1>8 DEF Made, Owned

LEMMA QuietKeepsOwner ==
  ASSUME OwnerInv, InHand' = InHand,
         UNCHANGED <<made, bufferpool, loopBuffer, pending, batch, mainBuffer, sendBuffList,
                     prevSendBuf, dropped>>
  PROVE  OwnerInv'
<1>1. Made' = Made
  BY DEF Made
<1>2. \A k \in 1..9 : Places'[k] = Places[k]
  BY PlacesAre, PlacesAreNext, Nine DEF One
<1>3. Owned(Places, Made)'
  BY <1>1, <1>2 DEF OwnerInv, Owned
<1> QED
  BY <1>3 DEF OwnerInv

\* A buffer or the close is posted.
LEMMA PostKeepsOwner ==
  ASSUME PoolOK, EventOK, OwnerInv, NEW e \in Made \cup {CloseEvent},
         pending' = Append(pending, e), e \notin ToSet(pending),
         UNCHANGED <<made, bufferpool, batch, sendBuffList>>
  PROVE  /\ ToSet(pending)' = ToSet(pending) \cup {e}
         /\ Made' = Made
         /\ Owned(Places', Made) => OwnerInv'
<1> DEFINE S == Made \cup {CloseEvent}
<1>1. pending \in Seq(S) /\ e \in S
  BY DEF EventOK
<1>2. Apart(pending)
  BY DEF OwnerInv
<1> HIDE DEF S
<1>3. ToSet(Append(pending, e)) = ToSet(pending) \cup {e} /\ Apart(Append(pending, e))
  BY <1>1, <1>2, RangeOfAppend, ApartAppend
<1>4. Made' = Made
  BY DEF Made
<1>5. Owned(Places', Made) => Owned(Places, Made)'
  BY <1>4 DEF Owned
<1> QED
  BY <1>3, <1>4, <1>5 DEF OwnerInv

LEMMA NobodyIsNoBuffer ==
  ASSUME PoolOK
  PROVE  \A b \in Made : b # NoBuffer /\ b # CloseEvent /\ b \in Buffer
BY Constants DEF PoolOK, Made, Buffer

LEMMA LoopKeepsOwner ==
  ASSUME Typed, OwnerInv, CloseInv, FillBuffer \/ PostPacket \/ PostClose
  PROVE  OwnerInv'
<1>0. PoolOK /\ EventOK /\ HolderOK
  BY DEF Typed
<1>1. CASE FillBuffer
  <2>1. PICK b \in Buffer : alloc(b, postRecvBuf[1].serial) /\ loopBuffer' = b
    BY <1>1 DEF FillBuffer
  <2>2. /\ loopPc = "alloc" /\ loopBuffer = NoBuffer /\ b # NoBuffer
        /\ UNCHANGED <<pending, batch, item, mainPc, mainBuffer, sendBuffList, prevSendBuf, dropped>>
    BY <1>0, <1>1, Constants DEF FillBuffer, eventVars, mainVars, queueVars, sendVars, HolderOK, Buffer
  <2>3. postRecvBuf[1].serial \in Serial
    BY <2>2, PostedSerial DEF Typed
  <2>4. Places'[2] = Places[2] \cup {b}
    BY <2>1, <2>2, PlacesAre, PlacesAreNext DEF One
  <2>5. \A k \in 2..9 : k # 2 => Places'[k] = Places[k]
    BY <2>2, PlacesAre, PlacesAreNext, Nine DEF One, InHand
  <2>6. Apart(bufferpool)' /\ Owned(Places, Made)'
    BY <1>0, <2>1, <2>3, <2>4, <2>5, PlacesAreNext, AllocKeepsOwned
  <2> QED
    BY <2>2, <2>6 DEF OwnerInv
<1>2. CASE PostPacket
  <2>1. /\ loopPc = "post" /\ loopBuffer' = NoBuffer
        /\ pending' = Append(pending, loopBuffer)
        /\ UNCHANGED <<batch, item, bufferpool, made, mainPc, mainBuffer, sendBuffList, dropped,
                       prevSendBuf>>
    BY <1>2 DEF PostPacket, PostBuffer, Events!Post, poolVars, mainVars, queueVars, sendVars
  <2>2. loopBuffer \in Made /\ loopBuffer # NoBuffer
    BY <1>0, <2>1, NobodyIsNoBuffer DEF HolderOK
  <2>3. Places[2] = {loopBuffer} /\ Places'[2] = {}
    BY <2>1, <2>2, PlacesAre, PlacesAreNext DEF One
  <2>4. loopBuffer \notin ToSet(pending)
    BY <2>3, PlacesAre DEF OwnerInv, Owned
  <2>5. /\ ToSet(pending)' = ToSet(pending) \cup {loopBuffer} /\ Made' = Made
        /\ Owned(Places', Made) => OwnerInv'
    BY <1>0, <2>1, <2>2, <2>4, PostKeepsOwner
  <2>6. Places'[3] = Places[3] \cup Places[2] /\ Places'[2] = Places[2] \ Places[2]
    BY <2>3, <2>5, PlacesAre, PlacesAreNext
  <2>7. \A k \in 1..9 : k # 2 /\ k # 3 => Places'[k] = Places[k]
    BY <2>1, PlacesAre, PlacesAreNext, Nine DEF One, InHand
  <2>8. Owned(Places', Made)
    <3>1. Owned(Places, Made) /\ 2 \in 1..9 /\ 3 \in 1..9 /\ 2 # 3
      BY DEF OwnerInv
    <3> QED
      BY <2>6, <2>7, <3>1, Move
  <2> QED
    BY <2>5, <2>8
<1>3. CASE PostClose
  <2>1. /\ loopPc = "post close"
        /\ pending' = Append(pending, CloseEvent)
        /\ UNCHANGED <<batch, item, bufferpool, made, loopBuffer, mainPc, mainBuffer, sendBuffList,
                       dropped, prevSendBuf>>
    BY <1>3 DEF PostClose, PostsClose, Events!Post, poolVars, mainVars, queueVars, sendVars
  <2>2. CloseNowhere
    BY <2>1 DEF CloseInv
  <2>3. CloseEvent \notin ToSet(pending) /\ CloseEvent \notin ToSet(batch)
    <3>1. pending \in Seq(Made \cup {CloseEvent}) /\ batch \in Seq(Made \cup {CloseEvent})
      BY <1>0 DEF EventOK
    <3> QED
      BY <2>2, <3>1, RangeElements DEF CloseNowhere, NoClose
  <2>4. /\ CloseEvent \notin Made
        /\ CloseEvent \notin ToSet(bufferpool) /\ CloseEvent \notin ToSet(sendBuffList)
    BY <1>0, NobodyIsNoBuffer, RangeInSet DEF PoolOK, HolderOK
  <2>5. CloseEvent \notin One(loopBuffer) /\ CloseEvent \notin One(mainBuffer)
        /\ CloseEvent \notin One(prevSendBuf) /\ CloseEvent \notin dropped
    BY <1>0, <2>4 DEF HolderOK, One
  <2>6. CloseEvent \notin InHand
    BY <1>0, <2>2, <2>4 DEF CloseNowhere, CloseInHand, InHand, EventOK
  <2>7. \A k \in 1..9 : CloseEvent \notin Places[k]
    BY <2>3, <2>4, <2>5, <2>6, PlacesAre, Nine
  <2>8. /\ ToSet(pending)' = ToSet(pending) \cup {CloseEvent} /\ Made' = Made
        /\ Owned(Places', Made) => OwnerInv'
    BY <1>0, <2>1, <2>3, PostKeepsOwner
  <2>9. Places'[3] = Places[3] \cup {CloseEvent}
    BY <2>8, PlacesAre, PlacesAreNext
  <2>10. \A k \in 1..9 : k # 3 => Places'[k] = Places[k]
    BY <2>1, PlacesAre, PlacesAreNext, Nine DEF One, InHand
  <2>11. Owned(Places', Made)
    <3>1. Owned(Places, Made) /\ 3 \in 1..9
      BY DEF OwnerInv
    <3>2. \A c : c # CloseEvent => (c \in Made <=> c \in Made \/ c = CloseEvent)
      OBVIOUS
    <3> QED
      BY <2>7, <2>9, <2>10, <3>1, <3>2, Enter
  <2> QED
    BY <2>8, <2>11
<1> QED
  BY <1>1, <1>2, <1>3

LEMMA EventsKeepOwner ==
  ASSUME Typed, OwnerInv,
         SwapQueues \/ NextPacket \/ RemoveSession \/ SessionNotFound \/ TakenForNew
           \/ TakenForClose
  PROVE  OwnerInv'
<1>0. /\ PoolOK /\ EventOK /\ HolderOK /\ Owned(Places, Made)
      /\ pending \in Seq(Made \cup {CloseEvent}) /\ batch \in Seq(Made \cup {CloseEvent})
  BY DEF Typed, EventOK, OwnerInv
<1>00. Owned(Places, Made)
  BY DEF OwnerInv
<1>1. CASE SwapQueues
  <2>1. /\ batch = <<>> /\ batch' = pending /\ pending' = <<>>
        /\ UNCHANGED <<item, bufferpool, made, loopBuffer, mainPc, mainBuffer, sendBuffList,
                       dropped, prevSendBuf>>
    BY <1>1 DEF SwapQueues, Events!TakeBatch, poolVars, mainVars, queueVars, sendVars
  <2>2. Places[4] = {} /\ Places'[3] = {} /\ Places'[4] = Places[3]
    BY <2>1, PlacesAre, PlacesAreNext, RangeOfEmpty
  <2>3. \A k \in 1..9 : k # 3 /\ k # 4 => Places'[k] = Places[k]
    BY <2>1, PlacesAre, PlacesAreNext, Nine DEF One, InHand
  <2>4. Owned(Places', Made)
    <3>1. /\ 3 \in 1..9 /\ 4 \in 1..9 /\ 3 # 4 /\ Places[3] \subseteq Places[3]
          /\ Places'[3] = Places[3] \ Places[3] /\ Places'[4] = Places[4] \cup Places[3]
      BY <2>2
    <3> QED
      BY <1>00, <2>3, <3>1, Move
  <2>5. Owned(Places, Made)'
    BY <2>1, <2>4 DEF Made, Owned
  <2> QED
    BY <2>1, <2>5, ApartEmpty DEF OwnerInv
<1>2. CASE NextPacket
  <2>1. /\ batch # <<>> /\ item' = Head(batch) /\ batch' = Tail(batch)
        /\ mainPc = "update" /\ mainPc' = "dispatch"
        /\ UNCHANGED <<pending, bufferpool, made, loopBuffer, mainBuffer, sendBuffList, dropped,
                       prevSendBuf>>
    BY <1>2 DEF NextPacket, Events!NextItem, poolVars, queueVars, sendVars
  <2>2. /\ Apart(Tail(batch)) /\ ToSet(batch) = ToSet(Tail(batch)) \cup {Head(batch)}
        /\ Head(batch) \notin ToSet(Tail(batch))
    BY <1>0, <2>1, ApartTail, RangeOfTail DEF OwnerInv
  <2>3. /\ Places'[4] = Places[4] \ {Head(batch)} /\ {Head(batch)} \subseteq Places[4]
        /\ Places'[5] = Places[5] \cup {Head(batch)}
    BY <2>1, <2>2, PlacesAre, PlacesAreNext DEF InHand
  <2>4. \A k \in 1..9 : k # 4 /\ k # 5 => Places'[k] = Places[k]
    BY <2>1, PlacesAre, PlacesAreNext, Nine DEF One
  <2>5. Owned(Places', Made)
    <3>1. 4 \in 1..9 /\ 5 \in 1..9 /\ 4 # 5
      OBVIOUS
    <3> DEFINE T == {Head(batch)}
    <3>2. Places'[4] = Places[4] \ T /\ T \subseteq Places[4] /\ Places'[5] = Places[5] \cup T
      BY <2>3
    <3> HIDE DEF T
    <3> QED
      BY <1>00, <2>4, <3>1, <3>2, Move
  <2>6. Owned(Places, Made)'
    BY <2>1, <2>5 DEF Made, Owned
  <2> QED
    BY <2>1, <2>2, <2>6 DEF OwnerInv
<1>3. CASE RemoveSession
  <2>1. /\ item = CloseEvent /\ mainPc = "dispatch" /\ mainPc' = "update"
        /\ dropped' = dropped \cup ToSet(sendBuffList \o Held(prevSendBuf))
        /\ sendBuffList' = <<>> /\ prevSendBuf' = NoBuffer
        /\ UNCHANGED <<pending, batch, bufferpool, made, loopBuffer, mainBuffer>>
    BY <1>3 DEF RemoveSession, eventVars, poolVars
  <2>2. ToSet(sendBuffList \o Held(prevSendBuf)) = ToSet(sendBuffList) \cup One(prevSendBuf)
    <3>1. CASE prevSendBuf = NoBuffer
      <4>1. sendBuffList \o Held(prevSendBuf) = sendBuffList
        BY <1>0, <3>1, ConcatEmptySeq DEF Held, HolderOK
      <4> QED
        BY <3>1, <4>1 DEF One
    <3>2. CASE prevSendBuf # NoBuffer
      <4>1. Held(prevSendBuf) \in Seq(Made) /\ ToSet(Held(prevSendBuf)) = {prevSendBuf}
        BY <1>0, <3>2, SingleFacts DEF Held, HolderOK
      <4>2. sendBuffList \in Seq(Made)
        BY <1>0 DEF HolderOK
      <4>3. ToSet(sendBuffList \o Held(prevSendBuf))
              = ToSet(sendBuffList) \cup ToSet(Held(prevSendBuf))
        BY <4>1, <4>2, RangeOfConcat
      <4> QED
        BY <3>2, <4>1, <4>3 DEF One
    <3> QED
      BY <3>1, <3>2
  <2> DEFINE Q == [Places EXCEPT ![7] = {}, ![9] = Places[9] \cup Places[7]]
             R == [Q EXCEPT ![8] = {}, ![9] = Q[9] \cup Q[8]]
  <2>3. Owned(Q, Made)
    <3>1. /\ 7 \in 1..9 /\ 9 \in 1..9 /\ 7 # 9 /\ Places[7] \subseteq Places[7]
          /\ Q[7] = Places[7] \ Places[7] /\ Q[9] = Places[9] \cup Places[7]
          /\ \A k \in 1..9 : k # 7 /\ k # 9 => Q[k] = Places[k]
      BY PlacesIsFunction
    <3> HIDE DEF Q
    <3> QED
      BY <1>00, <3>1, Move
  <2>4. Owned(R, Made)
    <3>0. Q = [k \in 1..9 |-> Q[k]]
      BY PlacesIsFunction
    <3> HIDE DEF Q
    <3>1. /\ 8 \in 1..9 /\ 9 \in 1..9 /\ 8 # 9 /\ Q[8] \subseteq Q[8]
          /\ R[8] = Q[8] \ Q[8] /\ R[9] = Q[9] \cup Q[8]
          /\ \A k \in 1..9 : k # 8 /\ k # 9 => R[k] = Q[k]
      BY <3>0
    <3> HIDE DEF R
    <3> QED
      BY <2>3, <3>1, Move
  <2>5. /\ R[5] = {CloseEvent} /\ R[7] = {} /\ R[8] = {}
        /\ R[9] = (Places[9] \cup Places[7]) \cup Places[8]
        /\ R[1] = Places[1] /\ R[2] = Places[2] /\ R[3] = Places[3] /\ R[4] = Places[4]
        /\ R[6] = Places[6]
    <3>1. Places[5] = {CloseEvent}
      BY <2>1, PlacesAre DEF InHand
    <3>2. Q = [k \in 1..9 |-> Q[k]]
      BY PlacesIsFunction
    <3>3. Q[7] = {} /\ Q[9] = Places[9] \cup Places[7]
      BY PlacesIsFunction
    <3>4. /\ Q[1] = Places[1] /\ Q[2] = Places[2] /\ Q[3] = Places[3] /\ Q[4] = Places[4]
          /\ Q[5] = Places[5] /\ Q[6] = Places[6] /\ Q[8] = Places[8]
      BY PlacesIsFunction
    <3> HIDE DEF Q
    <3> QED
      BY <3>1, <3>2, <3>3, <3>4
  <2> HIDE DEF Q, R
  <2>6. /\ Places'[5] = {} /\ Places'[7] = {} /\ Places'[8] = {}
        /\ Places'[9] = (Places[9] \cup Places[7]) \cup Places[8]
        /\ Places'[1] = Places[1] /\ Places'[2] = Places[2] /\ Places'[3] = Places[3]
        /\ Places'[4] = Places[4] /\ Places'[6] = Places[6]
    BY <2>1, <2>2, PlacesAre, PlacesAreNext, RangeOfEmpty DEF One, InHand
  <2>7. Owned(Places', Made)
    <3>1. 5 \in 1..9 /\ Places'[5] = R[5] \ {CloseEvent}
      BY <2>5, <2>6
    <3>2. \A k \in 1..9 : k # 5 => Places'[k] = R[k]
      BY <2>5, <2>6, Nine
    <3> QED
      BY <2>4, <3>1, <3>2, Leave
  <2>8. Owned(Places, Made)'
    BY <2>1, <2>7 DEF Made, Owned
  <2> QED
    BY <2>1, <2>8, ApartEmpty DEF OwnerInv
<1>4. CASE SessionNotFound
  <2>1. /\ item = CloseEvent /\ mainPc = "dispatch" /\ mainPc' = "update"
        /\ UNCHANGED <<pending, batch, bufferpool, made, loopBuffer, mainBuffer, sendBuffList,
                       dropped, prevSendBuf>>
    BY <1>4 DEF SessionNotFound, eventVars, poolVars, queueVars, sendVars
  <2>2. 5 \in 1..9 /\ Places'[5] = Places[5] \ {CloseEvent}
    BY <2>1, PlacesAre, PlacesAreNext DEF InHand
  <2>3. \A k \in 1..9 : k # 5 => Places'[k] = Places[k]
    BY <2>1, PlacesAre, PlacesAreNext, Nine DEF One
  <2>4. Owned(Places', Made)
    BY <1>00, <2>2, <2>3, Leave
  <2>5. Owned(Places, Made)'
    BY <2>1, <2>4 DEF Made, Owned
  <2> QED
    BY <2>1, <2>5 DEF OwnerInv
<1>5. CASE TakenForNew \/ TakenForClose
  <2>1. /\ mainPc = "dispatch" /\ mainPc' = "update" /\ dropped' = dropped \cup {item}
        /\ UNCHANGED <<pending, batch, bufferpool, made, loopBuffer, mainBuffer, sendBuffList,
                       prevSendBuf>>
    BY <1>5 DEF TakenForNew, TakenForClose, TakenForSession, eventVars, poolVars, sendVars
  <2>2. /\ 5 \in 1..9 /\ 9 \in 1..9 /\ 5 # 9 /\ Places[5] = {item}
        /\ Places'[5] = {} /\ Places'[9] = Places[9] \cup {item}
    BY <2>1, PlacesAre, PlacesAreNext DEF InHand
  <2>3. \A k \in 1..9 : k # 5 /\ k # 9 => Places'[k] = Places[k]
    BY <2>1, PlacesAre, PlacesAreNext, Nine DEF One
  <2>4. Owned(Places', Made)
    <3>1. /\ Places'[5] = Places[5] \ Places[5] /\ Places'[9] = Places[9] \cup Places[5]
          /\ Places[5] \subseteq Places[5]
      BY <2>2
    <3> QED
      BY <1>00, <2>2, <2>3, <3>1, Move
  <2>5. Owned(Places, Made)'
    BY <2>1, <2>4 DEF Made, Owned
  <2> QED
    BY <2>1, <2>5 DEF OwnerInv
<1> QED
  BY <1>1, <1>2, <1>3, <1>4, <1>5

LEMMA HandlerKeepsOwner ==
  ASSUME Typed, OwnerInv, MakeAnswer \/ sendBuffer \/ ReleasePacket
  PROVE  OwnerInv'
<1>0. PoolOK /\ EventOK /\ HolderOK /\ Owned(Places, Made)
  BY DEF Typed, OwnerInv
<1>1. CASE MakeAnswer
  <2>1. /\ item # CloseEvent /\ mainPc = "dispatch" /\ mainPc' = "push"
        /\ UNCHANGED <<pending, batch, item, loopBuffer, sendBuffList, dropped, prevSendBuf>>
    BY <1>1 DEF MakeAnswer, IsPacket, eventVars, queueVars, sendVars
  <2>2. PICK b \in Buffer : alloc(b, content[item]) /\ mainBuffer' = b
    BY <1>1 DEF MakeAnswer
  <2>3. content[item] \in Serial /\ mainBuffer = NoBuffer /\ b # NoBuffer
    BY <1>0, <2>1, Constants DEF EventOK, PoolOK, HolderOK, Buffer
  <2>4. Places'[6] = Places[6] \cup {b}
    BY <2>2, <2>3, PlacesAre, PlacesAreNext DEF One
  <2>5. \A k \in 2..9 : k # 6 => Places'[k] = Places[k]
    BY <2>1, PlacesAre, PlacesAreNext, Nine DEF One, InHand
  <2>6. Apart(bufferpool)' /\ Owned(Places, Made)'
    BY <1>0, <2>2, <2>3, <2>4, <2>5, PlacesAreNext, AllocKeepsOwned
  <2> QED
    BY <2>1, <2>6 DEF OwnerInv
<1>2. CASE sendBuffer
  <2>1. /\ mainPc = "push" /\ mainPc' = "release" /\ mainBuffer' = NoBuffer
        /\ \/ sendBuffList' = Append(sendBuffList, mainBuffer) /\ dropped' = dropped
           \/ dropped' = dropped \cup {mainBuffer} /\ sendBuffList' = sendBuffList
        /\ UNCHANGED <<made, bufferpool, pending, batch, item, loopBuffer, prevSendBuf>>
    BY <1>2 DEF sendBuffer, PushAnswer, poolVars, eventVars, sendVars
  <2>2. mainBuffer \in Made /\ mainBuffer # NoBuffer
    BY <1>0, <2>1, NobodyIsNoBuffer DEF HolderOK
  <2>3. Places[6] = {mainBuffer} /\ Places'[6] = {}
    BY <2>1, <2>2, PlacesAre, PlacesAreNext DEF One
  <2>4. CASE sendBuffList' = Append(sendBuffList, mainBuffer) /\ dropped' = dropped
    <3>1. mainBuffer \notin ToSet(sendBuffList)
      BY <1>0, <2>3, PlacesAre DEF Owned
    <3>2. /\ ToSet(sendBuffList') = ToSet(sendBuffList) \cup {mainBuffer}
          /\ Apart(sendBuffList')
      BY <1>0, <2>2, <2>4, <3>1, RangeOfAppend, ApartAppend DEF HolderOK, OwnerInv
    <3>3. /\ Places'[6] = Places[6] \ Places[6] /\ Places'[7] = Places[7] \cup Places[6]
          /\ 6 \in 1..9 /\ 7 \in 1..9 /\ 6 # 7 /\ Places[6] \subseteq Places[6]
      BY <2>3, <3>2, PlacesAre, PlacesAreNext
    <3>4. \A k \in 1..9 : k # 6 /\ k # 7 => Places'[k] = Places[k]
      BY <2>1, <2>4, PlacesAre, PlacesAreNext, Nine DEF One, InHand
    <3>5. Owned(Places', Made)
      BY <1>0, <3>3, <3>4, Move
    <3>6. Owned(Places, Made)'
      BY <2>1, <3>5 DEF Made, Owned
    <3> QED
      BY <2>1, <3>2, <3>6 DEF OwnerInv
  <2>5. CASE dropped' = dropped \cup {mainBuffer} /\ sendBuffList' = sendBuffList
    <3>1. /\ Places'[6] = Places[6] \ Places[6] /\ Places'[9] = Places[9] \cup Places[6]
          /\ 6 \in 1..9 /\ 9 \in 1..9 /\ 6 # 9 /\ Places[6] \subseteq Places[6]
      BY <2>3, <2>5, PlacesAre, PlacesAreNext
    <3>2. \A k \in 1..9 : k # 6 /\ k # 9 => Places'[k] = Places[k]
      BY <2>1, <2>5, PlacesAre, PlacesAreNext, Nine DEF One, InHand
    <3>3. Owned(Places', Made)
      BY <1>0, <3>1, <3>2, Move
    <3>4. Owned(Places, Made)'
      BY <2>1, <3>3 DEF Made, Owned
    <3> QED
      BY <2>1, <2>5, <3>4 DEF OwnerInv
  <2> QED
    BY <2>1, <2>4, <2>5
<1>3. CASE ReleasePacket
  <2>1. /\ mainPc = "release" /\ mainPc' = "update" /\ release(item)
        /\ UNCHANGED <<pending, batch, item, loopBuffer, mainBuffer, sendBuffList, dropped,
                       prevSendBuf>>
    BY <1>3 DEF ReleasePacket, PacketDone, eventVars, queueVars, sendVars
  <2>2. item \in Made
    BY <1>0, <2>1 DEF EventOK
  <2>3. item \in Places[5] /\ Places'[5] = Places[5] \ {item} /\ 5 \in 2..9
    BY <2>1, PlacesAre, PlacesAreNext DEF InHand
  <2>4. \A k \in 2..9 : k # 5 => Places'[k] = Places[k]
    BY <2>1, PlacesAre, PlacesAreNext, Nine DEF One
  <2>5. Apart(bufferpool)' /\ Owned(Places, Made)'
    BY <1>0, <2>1, <2>2, <2>3, <2>4, PlacesAreNext, ReleaseKeepsOwned
  <2> QED
    BY <2>1, <2>5 DEF OwnerInv
<1> QED
  BY <1>1, <1>2, <1>3

LEMMA SendKeepsOwner ==
  ASSUME Typed, OwnerInv, ResumeFits \/ GatherFits \/ GatherPart
  PROVE  OwnerInv'
<1>0. PoolOK /\ EventOK /\ HolderOK /\ Rest /\ Owned(Places, Made)
  BY DEF Typed, Rest, OwnerInv
<1>1. CASE ResumeFits /\ prevSendBuf = NoBuffer
  <2>1. UNCHANGED <<made, bufferpool, loopBuffer, pending, batch, item, mainPc, mainBuffer,
                    sendBuffList, prevSendBuf, dropped>>
    BY <1>1 DEF ResumeFits, ResumeWith, poolVars, eventVars, mainVars, queueVars
  <2> QED
    BY <2>1, QuietKeepsOwner DEF InHand
<1>2. CASE ResumeFits /\ prevSendBuf # NoBuffer
  <2>1. /\ release(prevSendBuf) /\ prevSendBuf' = NoBuffer
        /\ UNCHANGED <<loopBuffer, pending, batch, item, mainPc, mainBuffer, sendBuffList, dropped>>
    BY <1>2 DEF ResumeFits, ResumeWith, eventVars, mainVars, queueVars
  <2>2. prevSendBuf \in Made
    BY <1>0, <1>2 DEF HolderOK
  <2>3. prevSendBuf \in Places[8] /\ Places'[8] = Places[8] \ {prevSendBuf} /\ 8 \in 2..9
    BY <1>2, <2>1, PlacesAre, PlacesAreNext DEF One
  <2>4. \A k \in 2..9 : k # 8 => Places'[k] = Places[k]
    BY <2>1, PlacesAre, PlacesAreNext, Nine DEF One, InHand
  <2>5. Apart(bufferpool)' /\ Owned(Places, Made)'
    BY <1>0, <2>1, <2>2, <2>3, <2>4, PlacesAreNext, ReleaseKeepsOwned
  <2> QED
    BY <2>1, <2>5 DEF OwnerInv
<1>3. CASE GatherFits \/ GatherPart
  <2> DEFINE b == Head(sendBuffList)
  <2>1. /\ sendBuffList # <<>> /\ sendBuffList' = Tail(sendBuffList)
        /\ UNCHANGED <<loopBuffer, pending, batch, item, mainPc, mainBuffer, dropped>>
    BY <1>3 DEF GatherFits, GatherPart, eventVars, mainVars
  <2>2. b \in Made /\ sendBuffList \in Seq(Made)
    BY <1>0, <2>1, HeadOfSendQueue DEF HolderOK
  <2>3. /\ Apart(Tail(sendBuffList)) /\ ToSet(sendBuffList) = ToSet(Tail(sendBuffList)) \cup {b}
        /\ b \notin ToSet(Tail(sendBuffList))
    BY <2>1, <2>2, ApartTail, RangeOfTail DEF OwnerInv
  <2> HIDE DEF b
  <2>4. b \in Places[7] /\ Places'[7] = Places[7] \ {b}
    BY <2>1, <2>3, PlacesAre, PlacesAreNext
  <2>5. CASE GatherFits
    <3>1. release(b) /\ prevSendBuf' = prevSendBuf
      BY <2>5 DEF GatherFits, b
    <3>2. \A k \in 2..9 : k # 7 => Places'[k] = Places[k]
      <4>1. /\ One(loopBuffer)' = One(loopBuffer) /\ ToSet(pending)' = ToSet(pending)
            /\ ToSet(batch)' = ToSet(batch) /\ InHand' = InHand /\ One(mainBuffer)' = One(mainBuffer)
            /\ One(prevSendBuf)' = One(prevSendBuf) /\ dropped' = dropped
        BY <2>1, <3>1 DEF One, InHand
      <4> QED
        BY <4>1, PlacesAre, PlacesAreNext, Nine
    <3>3. Apart(bufferpool)' /\ Owned(Places, Made)'
      <4>1. 7 \in 2..9
        OBVIOUS
      <4> QED
        BY <1>0, <2>2, <2>4, <3>1, <3>2, <4>1, PlacesAreNext, ReleaseKeepsOwned
    <3> QED
      BY <2>1, <2>3, <3>3 DEF OwnerInv
  <2>6. CASE GatherPart
    <3>1. /\ prevSendBuf = NoBuffer /\ prevSendBuf' = b
          /\ UNCHANGED <<made, bufferpool>>
      BY <1>0, <2>6 DEF GatherPart, poolVars, HolderOK, b
    <3>2. b # NoBuffer
      BY <1>0, <2>2, NobodyIsNoBuffer
    <3>3. Places'[8] = Places[8] \cup {b} /\ {b} \subseteq Places[7] /\ 7 \in 1..9 /\ 8 \in 1..9
          /\ 7 # 8
      BY <2>4, <3>1, <3>2, PlacesAre, PlacesAreNext DEF One
    <3>4. \A k \in 1..9 : k # 7 /\ k # 8 => Places'[k] = Places[k]
      BY <2>1, <3>1, PlacesAre, PlacesAreNext, Nine DEF One, InHand
    <3>5. Owned(Places', Made)
      <4> DEFINE T == {b}
      <4>1. /\ Places'[7] = Places[7] \ T /\ T \subseteq Places[7]
            /\ Places'[8] = Places[8] \cup T
            /\ 7 \in 1..9 /\ 8 \in 1..9 /\ 7 # 8
        BY <2>4, <3>3
      <4>2. Owned(Places, Made)
        BY DEF OwnerInv
      <4> HIDE DEF T
      <4> QED
        BY <3>4, <4>1, <4>2, Move
    <3>6. Owned(Places, Made)'
      BY <3>1, <3>5 DEF Made, Owned
    <3> QED
      BY <2>1, <2>3, <3>1, <3>6 DEF OwnerInv
  <2> QED
    BY <1>3, <2>5, <2>6
<1> QED
  BY <1>1, <1>2, <1>3

LEMMA OwnerInvariant ==
  ASSUME Typed, OwnerInv, CloseInv, [Next]_vars
  PROVE  OwnerInv'
<1>1. CASE FillBuffer \/ PostPacket \/ PostClose
  BY <1>1, LoopKeepsOwner
<1>2. CASE SwapQueues \/ NextPacket \/ RemoveSession \/ SessionNotFound \/ TakenForNew
             \/ TakenForClose
  BY <1>2, EventsKeepOwner
<1>3. CASE MakeAnswer \/ sendBuffer \/ ReleasePacket
  BY <1>3, HandlerKeepsOwner
<1>4. CASE doSend \/ On_WriteData \/ GatherWhole \/ GatherPart
  <2>1. ResumeFits \/ GatherFits \/ GatherPart \/ Overrun
    BY <1>4, BeginCases, GatherCases DEF doSend, On_WriteData, GatherOverruns, Typed, Rest
  <2>2. CASE Overrun
    <3>1. UNCHANGED <<made, bufferpool, loopBuffer, pending, batch, mainBuffer, sendBuffList,
                      prevSendBuf, dropped, mainPc, item>>
      BY <2>2 DEF Overrun, poolVars, eventVars, mainVars, queueVars, sendVars
    <3> QED
      BY <3>1, QuietKeepsOwner DEF InHand
  <2> QED
    BY <2>1, <2>2, SendKeepsOwner
<1>5. CASE On_ResultReadData \/ ReadEnds \/ handleRecvPacket \/ GatherNothing \/ Write
             \/ DispatchUnanswered \/ ClearBatch \/ UNCHANGED vars
  <2>1. UNCHANGED <<made, bufferpool, loopBuffer, pending, batch, mainBuffer, sendBuffList,
                    prevSendBuf, dropped>>
    BY <1>5 DEF On_ResultReadData, ReadEnds, handleRecvPacket, GatherNothing, Write,
                DispatchUnanswered, ClearBatch, Events!EndBatch, vars, poolVars, eventVars,
                mainVars, queueVars, sendVars
  <2>2. InHand' = InHand
    BY <1>5 DEF On_ResultReadData, ReadEnds, handleRecvPacket, GatherNothing, Write,
                DispatchUnanswered, ClearBatch, vars, eventVars, mainVars, InHand
  <2> QED
    BY <2>1, <2>2, QuietKeepsOwner
<1> QED
  BY <1>1, <1>2, <1>3, <1>4, <1>5 DEF Next, Receive, Gather, Main

LEMMA OwnerInitially == Init => OwnerInv
<1> SUFFICES ASSUME Init PROVE OwnerInv
  OBVIOUS
<1>1. /\ bufferpool = <<>> /\ pending = <<>> /\ batch = <<>> /\ sendBuffList = <<>>
      /\ loopBuffer = NoBuffer /\ mainBuffer = NoBuffer /\ prevSendBuf = NoBuffer
      /\ mainPc = "update" /\ dropped = {} /\ Made = {}
  BY DEF Init, Pool!Init, Events!Init, Made
<1>2. \A k \in 1..9 : Places[k] = {}
  BY <1>1, PlacesAre, Nine, RangeOfEmpty DEF One, InHand
<1>3. Owned(Places, Made)
  BY <1>1, <1>2 DEF Owned
<1> QED
  BY <1>1, <1>3, ApartEmpty DEF OwnerInv

LEMMA OwnerHolds == Spec => []OwnerInv
<1>1. Typed /\ CloseInv /\ OwnerInv /\ [Next]_vars => OwnerInv'
  BY OwnerInvariant
<1> QED
  BY <1>1, OwnerInitially, TypedInvariant, CloseHolds, PTL DEF Spec

LEMMA HeldFacts ==
  ASSUME NEW S, NEW b, b \in S \cup {NoBuffer}
  PROVE  Held(b) \in Seq(S) /\ ToSet(Held(b)) = One(b) /\ Apart(Held(b))
<1>1. CASE b = NoBuffer
  BY <1>1, RangeOfEmpty, ApartEmpty, EmptySeq DEF Held, One
<1>2. CASE b # NoBuffer
  BY <1>2, SingleFacts DEF Held, One
<1> QED
  BY <1>1, <1>2

LEMMA OwnersAreOne ==
  ASSUME Typed, OwnerInv
  PROVE  OneOwner
<1> DEFINE S == Made \cup {CloseEvent}
           inHand == IF mainPc = "update" THEN <<>> ELSE <<item>>
<1>1. PoolOK /\ EventOK /\ HolderOK /\ Owned(Places, Made)
  BY DEF Typed, OwnerInv
<1>2. /\ bufferpool \in Seq(S) /\ pending \in Seq(S) /\ batch \in Seq(S) /\ sendBuffList \in Seq(S)
      /\ Apart(bufferpool) /\ Apart(pending) /\ Apart(batch) /\ Apart(sendBuffList)
  <2>1. \A s \in Seq(Made) : s \in Seq(S)
    BY SeqMonotonic
  <2> QED
    BY <1>1, <2>1 DEF PoolOK, EventOK, HolderOK, OwnerInv
<1>3. /\ Held(loopBuffer) \in Seq(S) /\ ToSet(Held(loopBuffer)) = One(loopBuffer)
      /\ Apart(Held(loopBuffer))
  BY <1>1, HeldFacts DEF HolderOK
<1>4. /\ Held(mainBuffer) \in Seq(S) /\ ToSet(Held(mainBuffer)) = One(mainBuffer)
      /\ Apart(Held(mainBuffer))
  BY <1>1, HeldFacts DEF HolderOK
<1>5. /\ Held(prevSendBuf) \in Seq(S) /\ ToSet(Held(prevSendBuf)) = One(prevSendBuf)
      /\ Apart(Held(prevSendBuf))
  BY <1>1, HeldFacts DEF HolderOK
<1>6. inHand \in Seq(S) /\ ToSet(inHand) = InHand /\ Apart(inHand)
  <2>1. CASE mainPc = "update"
    BY <2>1, RangeOfEmpty, ApartEmpty, EmptySeq DEF InHand
  <2>2. CASE mainPc # "update"
    <3>1. item \in S
      BY <1>1, <2>2 DEF EventOK
    <3> QED
      BY <2>2, <3>1, SingleFacts DEF InHand
  <2> QED
    BY <2>1, <2>2
<1>7. \A j, k \in 1..9 : j # k => Places[j] \cap Places[k] = {}
  BY <1>1 DEF Owned
<1> DEFINE s2 == bufferpool \o Held(loopBuffer)
           s3 == s2 \o pending
           s4 == s3 \o batch
           s5 == s4 \o inHand
           s6 == s5 \o Held(mainBuffer)
           s7 == s6 \o sendBuffList
           s8 == s7 \o Held(prevSendBuf)
<1>8. places = s8
  BY DEF places
<1> HIDE DEF S, inHand
<1> USE PlacesAre
<1>12. s2 \in Seq(S) /\ Apart(s2) /\ ToSet(s2) = Places[1] \cup Places[2]
  <2>1. ToSet(bufferpool) \cap ToSet(Held(loopBuffer)) = {}
    BY <1>3, <1>7
  <2> QED
    BY <1>2, <1>3, <2>1, JoinFacts
<1> HIDE DEF s2
<1>13. s3 \in Seq(S) /\ Apart(s3) /\ ToSet(s3) = ToSet(s2) \cup Places[3]
  <2>1. ToSet(s2) \cap ToSet(pending) = {}
    BY <1>7, <1>12
  <2> QED
    BY <1>2, <1>12, <2>1, JoinFacts
<1> HIDE DEF s3
<1>14. s4 \in Seq(S) /\ Apart(s4) /\ ToSet(s4) = ToSet(s3) \cup Places[4]
  <2>1. ToSet(s3) \cap ToSet(batch) = {}
    BY <1>7, <1>12, <1>13
  <2> QED
    BY <1>2, <1>13, <2>1, JoinFacts
<1> HIDE DEF s4
<1>15. s5 \in Seq(S) /\ Apart(s5) /\ ToSet(s5) = ToSet(s4) \cup Places[5]
  <2>1. ToSet(s4) \cap ToSet(inHand) = {}
    BY <1>6, <1>7, <1>12, <1>13, <1>14
  <2> QED
    BY <1>6, <1>14, <2>1, JoinFacts
<1> HIDE DEF s5
<1>16. s6 \in Seq(S) /\ Apart(s6) /\ ToSet(s6) = ToSet(s5) \cup Places[6]
  <2>1. ToSet(s5) \cap ToSet(Held(mainBuffer)) = {}
    BY <1>4, <1>7, <1>12, <1>13, <1>14, <1>15
  <2> QED
    BY <1>4, <1>15, <2>1, JoinFacts
<1> HIDE DEF s6
<1>17. s7 \in Seq(S) /\ Apart(s7) /\ ToSet(s7) = ToSet(s6) \cup Places[7]
  <2>1. ToSet(s6) \cap ToSet(sendBuffList) = {}
    BY <1>7, <1>12, <1>13, <1>14, <1>15, <1>16
  <2> QED
    BY <1>2, <1>16, <2>1, JoinFacts
<1> HIDE DEF s7
<1>18. s8 \in Seq(S) /\ Apart(s8) /\ ToSet(s8) = ToSet(s7) \cup Places[8]
  <2>1. ToSet(s7) \cap ToSet(Held(prevSendBuf)) = {}
    BY <1>5, <1>7, <1>12, <1>13, <1>14, <1>15, <1>16, <1>17
  <2> QED
    BY <1>5, <1>17, <2>1, JoinFacts
<1> HIDE DEF s8
<1>19. IsInjective(places)
  BY <1>8, <1>18, ApartIsInjective
<1>20. \A b : b \in ToSet(places) <=> \E k \in 1..8 : b \in Places[k]
  <2>1. ToSet(places) = ((((((Places[1] \cup Places[2]) \cup Places[3]) \cup Places[4])
                             \cup Places[5]) \cup Places[6]) \cup Places[7]) \cup Places[8]
    BY <1>8, <1>12, <1>13, <1>14, <1>15, <1>16, <1>17, <1>18
  <2>2. \A k \in 1..8 : k = 1 \/ k = 2 \/ k = 3 \/ k = 4 \/ k = 5 \/ k = 6 \/ k = 7 \/ k = 8
    OBVIOUS
  <2>3. ASSUME NEW b, b \in ToSet(places) PROVE \E k \in 1..8 : b \in Places[k]
    BY <2>1, <2>3
  <2>4. ASSUME NEW k \in 1..8, NEW b \in Places[k] PROVE b \in ToSet(places)
    BY <2>1, <2>2
  <2> QED
    BY <2>3, <2>4
<1>21. ToSet(places) \ {CloseEvent} = Made \ dropped
  <2>1. ASSUME NEW b, b \in ToSet(places), b # CloseEvent PROVE b \in Made /\ b \notin dropped
    <3>1. PICK k \in 1..8 : b \in Places[k]
      BY <1>20, <2>1
    <3>2. b \in Made
      BY <1>1, <2>1, <3>1 DEF Owned
    <3>3. b \notin Places[9]
      BY <1>7, <3>1
    <3> QED
      BY <3>2, <3>3
  <2>2. ASSUME NEW b \in Made, b \notin dropped PROVE b \in ToSet(places) /\ b # CloseEvent
    <3>1. b # CloseEvent
      BY <1>1, NobodyIsNoBuffer
    <3>2. PICK k \in 1..9 : b \in Places[k]
      BY <1>1, <3>1 DEF Owned
    <3>3. k \in 1..8
      BY <2>2, <3>2
    <3> QED
      BY <1>20, <3>1, <3>2, <3>3
  <2> QED
    BY <2>1, <2>2
<1> QED
  BY <1>19, <1>21 DEF OneOwner, Made

\* Every DataBuff is in exactly one place, in every interleaving of the two
\* threads and whenever the session ends: none is in use twice, and none is
\* lost but those a full send queue refuses or the delete of the session takes.
THEOREM BuffersHaveOneOwner == Spec => []OneOwner
<1>1. Typed /\ OwnerInv => OneOwner
  BY OwnersAreOne
<1> QED
  BY <1>1, TypedInvariant, OwnerHolds, PTL

-----------------------------------------------------------------------------
(* The order.  Taken packets have been posted; those that wait in the      *)
(* channel are numbered on from those that are taken.                    *)

Before == Len(taken) + (IF mainPc = "dispatch" THEN 1 ELSE 0)
Posted == Before + Len(batch) + Len(pending)

OrderInv ==
  /\ \A i \in 1..Len(taken) : taken[i] = i
  /\ mainPc = "dispatch" /\ item # CloseEvent => content[item] = Len(taken) + 1
  /\ \A i \in 1..Len(batch) : batch[i] # CloseEvent => content[batch[i]] = Before + i
  /\ \A i \in 1..Len(pending) :
       pending[i] # CloseEvent => content[pending[i]] = Before + Len(batch) + i
  /\ loopPc = "post" => content[loopBuffer] = Posted + 1

LEMMA PostedFacts ==
  ASSUME EventOK, SendOK
  PROVE  /\ Len(taken) \in Nat /\ Len(batch) \in Nat /\ Len(pending) \in Nat
         /\ Before \in Nat /\ Posted \in Nat
<1>1. Len(taken) \in Nat /\ Len(batch) \in Nat /\ Len(pending) \in Nat
  BY LenProperties DEF EventOK, SendOK
<1>2. Before \in Nat
  BY <1>1 DEF Before
<1> QED
  BY <1>1, <1>2 DEF Posted

\* A buffer that is allocated is in use nowhere.
LEMMA AllocIsFresh ==
  ASSUME PoolOK, OwnerInv, NEW b \in Buffer, NEW n \in Serial, alloc(b, n)
  PROVE  /\ \A k \in 2..9 : b \notin Places[k]
         /\ content'[b] = n
         /\ \A c \in Buffer : c # b => content'[c] = content[c]
<1>1. /\ \/ bufferpool # <<>> /\ b = Head(bufferpool)
         \/ b = made + 1
      /\ content' = [content EXCEPT ![b] = n]
      /\ bufferpool \in Seq(Made) /\ made \in Nat /\ content \in [Buffer -> 0..MaxPackets]
  BY AllocFacts DEF PoolOK
<1>2. Owned(Places, Made) /\ b # CloseEvent
  BY Constants DEF OwnerInv, Buffer
<1>3. CASE bufferpool # <<>> /\ b = Head(bufferpool)
  <2>1. b \in Places[1]
    BY <1>1, <1>3, RangeOfTail, PlacesAre
  <2> QED
    BY <1>1, <1>2, <2>1 DEF Owned
<1>4. CASE b = made + 1
  <2>1. b \notin Made
    BY <1>1, <1>4 DEF Made
  <2> QED
    BY <1>1, <1>2, <2>1 DEF Owned
<1> QED
  BY <1>1, <1>3, <1>4

\* So what is in the buffers on their way to the main thread stays.
LEMMA AllocKeepsContent ==
  ASSUME PoolOK, EventOK, OwnerInv, NEW b \in Buffer, NEW n \in Serial, alloc(b, n)
  PROVE  /\ \A i \in 1..Len(batch) : batch[i] # CloseEvent => content'[batch[i]] = content[batch[i]]
         /\ \A i \in 1..Len(pending) :
              pending[i] # CloseEvent => content'[pending[i]] = content[pending[i]]
         /\ mainPc # "update" /\ item # CloseEvent => content'[item] = content[item]
         /\ content'[b] = n
<1>1. /\ pending \in Seq(Made \cup {CloseEvent}) /\ batch \in Seq(Made \cup {CloseEvent})
      /\ mainPc # "update" /\ item # CloseEvent => item \in Made
  BY DEF EventOK
<1>2. b \notin ToSet(pending) /\ b \notin ToSet(batch) /\ b \notin InHand
  BY AllocIsFresh, PlacesAre
<1>3. /\ \A i \in 1..Len(batch) : batch[i] # b /\ (batch[i] # CloseEvent => batch[i] \in Buffer)
      /\ \A i \in 1..Len(pending) :
           pending[i] # b /\ (pending[i] # CloseEvent => pending[i] \in Buffer)
  BY <1>1, <1>2, RangeElements, LenProperties, NobodyIsNoBuffer
<1>4. mainPc # "update" /\ item # CloseEvent => item # b /\ item \in Buffer
  BY <1>1, <1>2, NobodyIsNoBuffer DEF InHand
<1> QED
  BY <1>3, <1>4, AllocIsFresh

LEMMA QuietKeepsOrder ==
  ASSUME OrderInv, UNCHANGED <<content, taken, batch, pending>>,
         mainPc' = "dispatch" <=> mainPc = "dispatch",
         mainPc' = "dispatch" => item' = item,
         loopPc' = "post" => loopPc = "post" /\ loopBuffer' = loopBuffer
  PROVE  OrderInv'
<1>1. Before' = Before /\ Posted' = Posted
  BY DEF Before, Posted
<1> QED
  BY <1>1 DEF OrderInv

LEMMA PostKeepsOrder ==
  ASSUME EventOK, SendOK, OrderInv, NEW e \in Made \cup {CloseEvent},
         pending' = Append(pending, e), UNCHANGED <<content, taken, batch, item, mainPc>>,
         loopPc' # "post", e # CloseEvent => content[e] = Posted + 1
  PROVE  OrderInv'
<1> DEFINE S == Made \cup {CloseEvent}
<1>1. pending \in Seq(S) /\ e \in S
  BY DEF EventOK
<1> HIDE DEF S
<1>2. /\ Len(pending') = Len(pending) + 1
      /\ \A i \in 1..Len(pending) : pending'[i] = pending[i]
      /\ pending'[Len(pending) + 1] = e
  BY <1>1, AppendFacts
<1>3. Before' = Before
  BY DEF Before
<1>4. ASSUME NEW i \in 1..Len(pending'), pending'[i] # CloseEvent
      PROVE  content[pending'[i]] = Before + Len(batch) + i
  <2>1. i \in 1..Len(pending) \/ i = Len(pending) + 1
    BY <1>2, PostedFacts
  <2>2. CASE i \in 1..Len(pending)
    BY <1>2, <1>4, <2>2 DEF OrderInv
  <2>3. CASE i = Len(pending) + 1
    <3>1. content[e] = Posted + 1
      BY <1>2, <1>4, <2>3
    <3>2. Posted + 1 = Before + Len(batch) + (Len(pending) + 1)
      BY PostedFacts DEF Posted
    <3> QED
      BY <1>2, <2>3, <3>1, <3>2
  <2> QED
    BY <2>1, <2>2, <2>3
<1> QED
  BY <1>3, <1>4 DEF OrderInv

LEMMA SwapKeepsOrder ==
  ASSUME EventOK, HolderOK, SendOK, OrderInv, SwapQueues
  PROVE  OrderInv' /\ Posted' = Posted
<1>1. /\ batch = <<>> /\ batch' = pending /\ pending' = <<>> /\ mainPc = "update"
      /\ UNCHANGED <<content, taken, item, mainPc, loopPc, loopBuffer>>
  BY DEF SwapQueues, Events!TakeBatch, poolVars, mainVars
<1>2. Len(batch) = 0 /\ Len(pending') = 0
  BY <1>1, EmptySeq
<1>3. Before' = Before /\ Posted' = Posted
  BY <1>1, <1>2, PostedFacts DEF Before, Posted
<1>4. \A i \in 1..Len(pending) : pending[i] # CloseEvent => content[pending[i]] = Before + i
  BY <1>2, PostedFacts DEF OrderInv
<1>5. \A i \in 1..Len(pending') :
        pending'[i] # CloseEvent => content'[pending'[i]] = Before' + Len(batch') + i
  BY <1>2
<1> QED
  BY <1>1, <1>3, <1>4, <1>5 DEF OrderInv

LEMMA NextKeepsOrder ==
  ASSUME EventOK, HolderOK, SendOK, OrderInv, NextPacket
  PROVE  OrderInv' /\ Posted' = Posted
<1>1. /\ batch # <<>> /\ item' = Head(batch) /\ batch' = Tail(batch)
      /\ mainPc = "update" /\ mainPc' = "dispatch"
      /\ UNCHANGED <<pending, content, taken, loopPc, loopBuffer>>
  BY DEF NextPacket, Events!NextItem, poolVars
<1>2. /\ Len(batch) \in Nat /\ Len(batch) >= 1
      /\ item' = batch[1] /\ Len(batch') = Len(batch) - 1
      /\ \A i \in 1..Len(batch') : batch'[i] = batch[i + 1]
  <2>1. batch \in Seq(Made \cup {CloseEvent})
    BY DEF EventOK
  <2> QED
    BY <1>1, <2>1, HeadTailProperties, EmptySeq, LenProperties
<1>3. Before' = Before + 1 /\ Before = Len(taken) /\ Posted' = Posted
  <2>1. Before = Len(taken)
    BY <1>1, PostedFacts DEF Before
  <2>2. Before' = Len(taken) + 1
    BY <1>1 DEF Before
  <2>3. Posted = Len(taken) + Len(batch) + Len(pending)
    BY <2>1 DEF Posted
  <2>4. Posted' = (Len(taken) + 1) + (Len(batch) - 1) + Len(pending)
    BY <1>1, <1>2, <2>2 DEF Posted
  <2> QED
    BY <2>1, <2>2, <2>3, <2>4, PostedFacts
<1>4. item' # CloseEvent => content[item'] = Len(taken) + 1
  BY <1>2, <1>3 DEF OrderInv
<1>5. ASSUME NEW i \in 1..Len(batch'), batch'[i] # CloseEvent
      PROVE  content[batch'[i]] = Before' + i
  <2>1. i + 1 \in 1..Len(batch) /\ batch'[i] = batch[i + 1]
    BY <1>2
  <2>2. content[batch[i + 1]] = Before + (i + 1)
    BY <1>5, <2>1 DEF OrderInv
  <2> QED
    BY <1>3, <2>1, <2>2, PostedFacts
<1>6. ASSUME NEW i \in 1..Len(pending), pending[i] # CloseEvent
      PROVE  content[pending[i]] = Before' + Len(batch') + i
  <2>1. content[pending[i]] = Before + Len(batch) + i
    BY <1>6 DEF OrderInv
  <2>2. Before' = Before + 1 /\ Len(batch') = Len(batch) - 1
    BY <1>2, <1>3
  <2> QED
    BY <2>1, <2>2, PostedFacts
<1> QED
  BY <1>1, <1>3, <1>4, <1>5, <1>6 DEF OrderInv

\* taken grows by what is in the item's buffer.
LEMMA DispatchKeepsOrder ==
  ASSUME PoolOK, EventOK, SendOK, OrderInv, mainPc = "dispatch", item # CloseEvent,
         mainPc' # "dispatch", taken' = Append(taken, content[item]),
         UNCHANGED <<batch, pending, item, loopPc, loopBuffer>>,
         \A i \in 1..Len(batch) : batch[i] # CloseEvent => content'[batch[i]] = content[batch[i]],
         \A i \in 1..Len(pending) :
           pending[i] # CloseEvent => content'[pending[i]] = content[pending[i]],
         loopPc = "post" => content'[loopBuffer] = content[loopBuffer]
  PROVE  OrderInv' /\ Posted' = Posted
<1>1. content[item] \in Serial /\ content[item] = Len(taken) + 1
  BY DEF EventOK, PoolOK, OrderInv
<1>2. /\ Len(taken') = Len(taken) + 1
      /\ \A i \in 1..Len(taken) : taken'[i] = taken[i]
      /\ taken'[Len(taken) + 1] = Len(taken) + 1
  <2>1. taken \in Seq(Serial)
    BY DEF SendOK
  <2> QED
    BY <1>1, <2>1, AppendFacts
<1>3. Before' = Before /\ Posted' = Posted
  <2>1. Before' = Len(taken) + 1 + 0 /\ Before = Len(taken) + 1
    BY <1>2 DEF Before
  <2> QED
    BY <2>1, PostedFacts DEF Posted
<1>4. \A i \in 1..Len(taken') : taken'[i] = i
  BY <1>2, PostedFacts DEF OrderInv
<1> QED
  BY <1>3, <1>4 DEF OrderInv

-----------------------------------------------------------------------------
(* The framing.  What is in postRecvBuf and behind it in recvBuf is the    *)
(* stream from the end of the last packet taken to the last unit arrived.  *)

EndOf(ps, units) ==
  CHOOSE end : /\ end \in [0..MaxPackets -> Nat] /\ IsLayout(ps, end)
               /\ units = StreamOf(ps, end)

End == EndOf(packets, stream)

StreamInv ==
  packets \in [Serial -> Packet] /\ Layout(End) /\ stream = StreamOf(packets, End)

Framed ==
  /\ Posted \in 0..MaxPackets
  /\ "recvDataLen" \in Supplied => arrived = End[Posted] + Len(postRecvBuf) + recvDataLen
  /\ "recvDataLen" \notin Supplied => postRecvBuf = <<>>
  /\ \A i \in 1..Len(postRecvBuf) : postRecvBuf[i] = stream[End[Posted] + i]
  /\ \A i \in 1..recvDataLen :
       recvBuf[buffReadPos + i] = stream[End[Posted] + Len(postRecvBuf) + i]
  /\ postPacketsize # 0 =>
       /\ Posted < MaxPackets
       /\ packets[Posted + 1].signature = "client"
       /\ postPacketsize = packets[Posted + 1].packetsize
  /\ loopPc \in {"alloc", "post"} =>
       /\ Posted < MaxPackets
       /\ packets[Posted + 1].signature = "client"
       /\ Len(postRecvBuf) = packets[Posted + 1].packetsize

FramingInv == session = "open" => Framed

\* Whoever counts the bytes of a read has also moved what is waiting.
ReadsGoOn == "recvDataLen" \in Supplied => "buffReadPos" \in Supplied

LEMMA StreamHolds == Spec => []StreamInv
<1>1. Init => StreamInv
  <2> SUFFICES ASSUME Init PROVE StreamInv
    OBVIOUS
  <2>1. PICK end \in [0..MaxPackets -> 0..MaxPackets * RECV_BUF_SIZE] :
          IsLayout(packets, end) /\ stream = StreamOf(packets, end)
    BY DEF Init
  <2>2. Layout(end) /\ stream = StreamOf(packets, end)
    BY <2>1, Constants DEF Layout
  <2>3. Layout(End) /\ stream = StreamOf(packets, End)
    BY <2>2 DEF End, EndOf, Layout
  <2> QED
    BY <2>3 DEF Init, StreamInv
<1>2. StreamInv /\ [Next]_vars => StreamInv'
  <2> SUFFICES ASSUME StreamInv, [Next]_vars PROVE StreamInv'
    OBVIOUS
  <2>1. UNCHANGED <<packets, stream>>
    BY DEF Next, On_ResultReadData, ReadEnds, Receive, handleRecvPacket, FillBuffer, PostPacket,
           PostBuffer, PostClose, PostsClose, doSend, On_WriteData, WriteDone, BeginSend, Resume,
           ResumeWith, Overrun, Gather, GatherWhole, GatherBelow, GatherPart, GatherNothing, Write,
           Main, SwapQueues, NextPacket, RemoveSession, SessionNotFound, TakenForNew,
           TakenForClose, TakenForSession, DispatchUnanswered, MakeAnswer, sendBuffer, PushAnswer,
           ReleasePacket, PacketDone, ClearBatch, vars, recvVars, clientVars
  <2> QED
    BY <2>1 DEF StreamInv, End, Layout
<1> QED
  BY <1>1, <1>2, PTL DEF Spec

LEMMA ArrivedFacts ==
  ASSUME ReceiveOK, StreamInv
  PROVE  /\ arrived \in Nat /\ arrived <= End[MaxPackets]
         /\ Len(stream) = End[MaxPackets]
         /\ MaxPackets \in Nat /\ MaxPackets \in 0..MaxPackets
         /\ End[0] = 0
         /\ \A n \in 0..MaxPackets : End[n] \in Nat
<1>1. Len(stream) = End[MaxPackets] /\ stream \in Seq(Unit)
  BY StreamFacts DEF StreamInv
<1>2. arrived \in 0..Len(stream) /\ Len(stream) \in Nat
  BY <1>1, LenProperties DEF ReceiveOK
<1>3. MaxPackets \in Nat /\ \A n \in 0..MaxPackets : End[n] \in Nat
  BY Constants, LayoutFacts DEF StreamInv
<1>4. End[0] = 0
  BY DEF StreamInv, Layout, IsLayout
<1> QED
  BY <1>1, <1>2, <1>3, <1>4

\* The header that is looked at is that of the next packet.
LEMMA HeaderFacts ==
  ASSUME ReceiveOK, StreamInv, Framed, postRecvBuf = <<>>, recvDataLen >= 1
  PROVE  /\ Posted < MaxPackets /\ Posted + 1 \in Serial
         /\ "recvDataLen" \in Supplied
         /\ Framing!header.signature = packets[Posted + 1].signature
         /\ Framing!header.packetsize = packets[Posted + 1].packetsize
         /\ packets[Posted + 1].packetsize \in 1..RECV_BUF_SIZE
<1>1. "recvDataLen" \in Supplied
  <2>1. "recvDataLen" \notin Supplied => recvDataLen = 0
    BY DEF ReceiveOK
  <2> QED
    BY <2>1
<1>2. /\ recvDataLen \in Nat /\ Posted \in 0..MaxPackets /\ Len(postRecvBuf) = 0
      /\ arrived = End[Posted] + Len(postRecvBuf) + recvDataLen
      /\ recvBuf[buffReadPos + 1] = stream[End[Posted] + Len(postRecvBuf) + 1]
  BY <1>1, ReceiveFacts, EmptySeq DEF Framed
<1>3. End[Posted] < End[MaxPackets] /\ End[Posted] \in Nat
  BY <1>2, ArrivedFacts
<1>4. Posted < MaxPackets /\ Posted + 1 \in Serial /\ (Posted + 1) - 1 = Posted
  BY <1>2, <1>3, ArrivedFacts DEF Serial
<1>5. packets[Posted + 1].packetsize \in 1..RECV_BUF_SIZE
  BY <1>4, LayoutFacts DEF StreamInv
<1>6. 1 \in 1..packets[Posted + 1].packetsize
  BY <1>5
<1>7. stream[End[(Posted + 1) - 1] + 1] = UnitsOf(packets, Posted + 1)[1]
  BY <1>4, <1>6, StreamFacts DEF StreamInv
<1>8. Framing!header = UnitsOf(packets, Posted + 1)[1]
  BY <1>2, <1>3, <1>4, <1>7 DEF Framing!header
<1>9. /\ Framing!header.signature = packets[Posted + 1].signature
      /\ Framing!header.packetsize = packets[Posted + 1].packetsize
  BY <1>6, <1>8 DEF UnitsOf
<1> QED
  BY <1>1, <1>4, <1>5, <1>9

LEMMA CopyKeepsStream ==
  ASSUME ReceiveOK, loopPc # "astray", StreamInv, Framed, NEW n \in 0..recvDataLen, Framing!Copy(n)
  PROVE  /\ Len(postRecvBuf') + recvDataLen' = Len(postRecvBuf) + recvDataLen
         /\ \A i \in 1..Len(postRecvBuf') : postRecvBuf'[i] = stream[End[Posted] + i]
         /\ \A i \in 1..recvDataLen' :
              recvBuf'[buffReadPos' + i] = stream[End[Posted] + Len(postRecvBuf') + i]
<1>1. /\ Len(postRecvBuf') = Len(postRecvBuf) + n
      /\ postRecvBuf' = postRecvBuf \o SubSeq(Framing!unread, 1, n)
      /\ recvDataLen' = recvDataLen - n /\ buffReadPos' = buffReadPos + n
      /\ recvBuf' = recvBuf
  BY CopyFacts
<1>2. /\ recvDataLen \in Nat /\ buffReadPos \in Nat /\ Len(postRecvBuf) \in Nat
      /\ postRecvBuf \in Seq(Cell) /\ n \in Nat /\ n <= recvDataLen
  BY ReceiveFacts
<1>3. End[Posted] \in Nat
  BY ArrivedFacts DEF Framed
<1>4. /\ SubSeq(Framing!unread, 1, n) \in Seq(Cell) /\ Len(SubSeq(Framing!unread, 1, n)) = n
      /\ \A i \in 1..n : SubSeq(Framing!unread, 1, n)[i] = Framing!unread[i]
  <2>1. \A i \in 1..n : Framing!unread[i] \in Cell
    BY <1>2, UnreadFacts, LenProperties
  <2>2. Framing!unread \in Seq(Cell)
    BY UnreadFacts
  <2>3. /\ SubSeq(Framing!unread, 1, n) \in Seq(Cell) /\ Len(SubSeq(Framing!unread, 1, n)) = n
        /\ \A i \in 1..n - 1 + 1 : SubSeq(Framing!unread, 1, n)[i] = Framing!unread[1 + i - 1]
    BY <1>2, <2>1, <2>2, SubSeqProperties
  <2> QED
    BY <1>2, <2>3
<1>5. \A i \in 1..n : Framing!unread[i] = stream[End[Posted] + Len(postRecvBuf) + i]
  <2>1. \A i \in 1..recvDataLen : Framing!unread[i] = recvBuf[buffReadPos + i]
    BY UnreadFacts
  <2>2. \A i \in 1..recvDataLen :
          recvBuf[buffReadPos + i] = stream[End[Posted] + Len(postRecvBuf) + i]
    BY DEF Framed
  <2> QED
    BY <1>2, <2>1, <2>2
<1>6. ASSUME NEW i \in 1..Len(postRecvBuf') PROVE postRecvBuf'[i] = stream[End[Posted] + i]
  <2>1. CASE i <= Len(postRecvBuf)
    <3>1. postRecvBuf'[i] = postRecvBuf[i]
      BY <1>1, <1>2, <1>4, <2>1, ConcatProperties
    <3> QED
      BY <1>2, <2>1, <3>1 DEF Framed
  <2>2. CASE i > Len(postRecvBuf)
    <3>1. i - Len(postRecvBuf) \in 1..n
      BY <1>1, <1>2, <2>2
    <3>2. postRecvBuf'[i] = SubSeq(Framing!unread, 1, n)[i - Len(postRecvBuf)]
      BY <1>1, <1>2, <1>4, <2>2, ConcatProperties
    <3>3. postRecvBuf'[i] = stream[End[Posted] + Len(postRecvBuf) + (i - Len(postRecvBuf))]
      BY <1>4, <1>5, <3>1, <3>2
    <3>4. End[Posted] + Len(postRecvBuf) + (i - Len(postRecvBuf)) = End[Posted] + i
      BY <1>2, <1>3
    <3> QED
      BY <3>3, <3>4
  <2> QED
    BY <1>1, <1>2, <2>1, <2>2
<1>7. ASSUME NEW i \in 1..recvDataLen'
      PROVE  recvBuf'[buffReadPos' + i] = stream[End[Posted] + Len(postRecvBuf') + i]
  <2>1. n + i \in 1..recvDataLen
    BY <1>1, <1>2
  <2>2. recvBuf[buffReadPos + (n + i)] = stream[End[Posted] + Len(postRecvBuf) + (n + i)]
    BY <2>1 DEF Framed
  <2>3. /\ buffReadPos + (n + i) = (buffReadPos + n) + i
        /\ End[Posted] + Len(postRecvBuf) + (n + i) = End[Posted] + (Len(postRecvBuf) + n) + i
    BY <1>2, <1>3, <2>1
  <2> QED
    BY <1>1, <2>2, <2>3
<1>8. Len(postRecvBuf') + recvDataLen' = Len(postRecvBuf) + recvDataLen
  BY <1>1, <1>2
<1> QED
  BY <1>6, <1>7, <1>8

LEMMA CopyAllKeepsStream ==
  ASSUME ReceiveOK, loopPc # "astray", StreamInv, Framed, Framing!CopyAll
  PROVE  /\ Len(postRecvBuf') + recvDataLen' = Len(postRecvBuf) + recvDataLen
         /\ \A i \in 1..Len(postRecvBuf') : postRecvBuf'[i] = stream[End[Posted] + i]
         /\ recvDataLen' = 0
<1>1. /\ Len(postRecvBuf') = Len(postRecvBuf) + recvDataLen
      /\ postRecvBuf' = postRecvBuf \o Framing!unread
      /\ recvDataLen' = 0
  BY CopyAllFacts
<1>2. /\ recvDataLen \in Nat /\ Len(postRecvBuf) \in Nat /\ postRecvBuf \in Seq(Cell)
      /\ Framing!unread \in Seq(Cell) /\ Len(Framing!unread) = recvDataLen
  BY ReceiveFacts, UnreadFacts
<1>3. End[Posted] \in Nat
  BY ArrivedFacts DEF Framed
<1>4. \A i \in 1..recvDataLen : Framing!unread[i] = stream[End[Posted] + Len(postRecvBuf) + i]
  <2>1. \A i \in 1..recvDataLen : Framing!unread[i] = recvBuf[buffReadPos + i]
    BY UnreadFacts
  <2>2. \A i \in 1..recvDataLen :
          recvBuf[buffReadPos + i] = stream[End[Posted] + Len(postRecvBuf) + i]
    BY DEF Framed
  <2> QED
    BY <2>1, <2>2
<1>5. ASSUME NEW i \in 1..Len(postRecvBuf') PROVE postRecvBuf'[i] = stream[End[Posted] + i]
  <2>1. CASE i <= Len(postRecvBuf)
    <3>1. postRecvBuf'[i] = postRecvBuf[i]
      BY <1>1, <1>2, <2>1, ConcatProperties
    <3> QED
      BY <1>2, <2>1, <3>1 DEF Framed
  <2>2. CASE i > Len(postRecvBuf)
    <3>1. i - Len(postRecvBuf) \in 1..recvDataLen
      BY <1>1, <1>2, <2>2
    <3>2. postRecvBuf'[i] = Framing!unread[i - Len(postRecvBuf)]
      BY <1>1, <1>2, <2>2, ConcatProperties
    <3>3. postRecvBuf'[i] = stream[End[Posted] + Len(postRecvBuf) + (i - Len(postRecvBuf))]
      BY <1>4, <3>1, <3>2
    <3>4. End[Posted] + Len(postRecvBuf) + (i - Len(postRecvBuf)) = End[Posted] + i
      BY <1>2, <1>3
    <3> QED
      BY <3>3, <3>4
  <2> QED
    BY <1>1, <1>2, <2>1, <2>2
<1> QED
  BY <1>1, <1>2, <1>5

LEMMA SameEnd ==
  ASSUME UNCHANGED <<packets, stream>>
  PROVE  End' = End
BY DEF End

LEMMA FrameKeepsFramed ==
  ASSUME ReceiveOK, StreamInv, Framed, handleRecvPacket
  PROVE  Framed'
<1>1. /\ loopPc = "frame"
      /\ UNCHANGED <<packets, stream, arrived, taken, mainPc, batch, pending>>
      /\ \/ Framing!Stops /\ loopPc' = "poll"
         \/ Framing!StartPending /\ loopPc' = "frame"
         \/ Framing!HandsOver /\ loopPc' = "alloc"
  BY DEF handleRecvPacket, clientVars, mainVars, eventVars
<1>2. End' = End /\ Posted' = Posted /\ Posted \in 0..MaxPackets
  BY <1>1, SameEnd DEF Posted, Before, Framed
<1>3. /\ postPacketsize = 0 => postRecvBuf = <<>> /\ Len(postRecvBuf) = 0
      /\ postPacketsize # 0 => Len(postRecvBuf) < postPacketsize
      /\ "recvDataLen" \notin Supplied => recvDataLen = 0
  BY <1>1, EmptySeq DEF ReceiveOK
<1>4. /\ recvDataLen \in Nat /\ Len(postRecvBuf) \in Nat /\ postPacketsize \in Nat
      /\ arrived \in Nat /\ End[Posted] \in Nat
  BY <1>2, ReceiveFacts, ArrivedFacts
<1>5. "recvDataLen" \in Supplied => arrived = End[Posted] + Len(postRecvBuf) + recvDataLen
  BY DEF Framed
<1> DEFINE Moved ==
      /\ Len(postRecvBuf') \in Nat /\ recvDataLen' \in Nat
      /\ Len(postRecvBuf') + recvDataLen' = Len(postRecvBuf) + recvDataLen
      /\ \A i \in 1..Len(postRecvBuf') : postRecvBuf'[i] = stream[End[Posted] + i]
      /\ \A i \in 1..recvDataLen' :
           recvBuf'[buffReadPos' + i] = stream[End[Posted] + Len(postRecvBuf') + i]
<1>6. ASSUME Moved, "recvDataLen" \in Supplied,
             postPacketsize' # 0 =>
               /\ Posted < MaxPackets
               /\ packets[Posted + 1].signature = "client"
               /\ postPacketsize' = packets[Posted + 1].packetsize,
             loopPc' \in {"alloc", "post"} =>
               /\ Posted < MaxPackets
               /\ packets[Posted + 1].signature = "client"
               /\ Len(postRecvBuf') = packets[Posted + 1].packetsize
      PROVE  Framed'
  <2>1. arrived' = End[Posted] + Len(postRecvBuf') + recvDataLen'
    <3>1. /\ Len(postRecvBuf') \in Nat /\ recvDataLen' \in Nat
          /\ Len(postRecvBuf') + recvDataLen' = Len(postRecvBuf) + recvDataLen
      BY <1>6 DEF Moved
    <3>2. arrived' = arrived /\ arrived = End[Posted] + Len(postRecvBuf) + recvDataLen
      BY <1>1, <1>5, <1>6
    <3> QED
      BY <1>4, <3>1, <3>2
  <2> QED
    BY <1>1, <1>2, <1>6, <2>1 DEF Framed, Moved
<1>7. \A n \in 0..recvDataLen : Framing!Copy(n) => Moved
  <2> SUFFICES ASSUME NEW n \in 0..recvDataLen, Framing!Copy(n) PROVE Moved
    OBVIOUS
  <2>1. Len(postRecvBuf') = Len(postRecvBuf) + n /\ recvDataLen' \in Nat
    BY <1>1, CopyFacts
  <2>2. Len(postRecvBuf') \in Nat
    BY <1>4, <2>1
  <2> QED
    BY <1>1, <2>1, <2>2, CopyKeepsStream
<1>8. Framing!CopyAll => Moved
  <2> SUFFICES ASSUME Framing!CopyAll PROVE Moved
    OBVIOUS
  <2>1. Len(postRecvBuf') = Len(postRecvBuf) + recvDataLen /\ recvDataLen' = 0
    BY <1>1, CopyAllFacts
  <2>2. Len(postRecvBuf') \in Nat /\ recvDataLen' \in Nat
    BY <1>4, <2>1
  <2>3. \A i \in 1..recvDataLen' :
          recvBuf'[buffReadPos' + i] = stream[End[Posted] + Len(postRecvBuf') + i]
    BY <2>1
  <2> QED
    BY <1>1, <2>2, <2>3, CopyAllKeepsStream
<1> HIDE DEF Moved
<1>9. CASE (Framing!WaitForHeader \/ Framing!RejectHeader \/ Framing!WaitForPacket) /\ loopPc' = "poll"
  <2>1. UNCHANGED <<recvBuf, buffReadPos, recvDataLen, postRecvBuf, postPacketsize>>
    BY <1>9 DEF Framing!WaitForHeader, Framing!RejectHeader, Framing!WaitForPacket,
                Framing!framingVars
  <2> QED
    BY <1>1, <1>2, <1>9, <2>1 DEF Framed
<1>10. CASE Framing!ExtendPending /\ loopPc' = "poll"
  <2>1. /\ postPacketsize > 0 /\ postPacketsize' = postPacketsize /\ Framing!CopyAll
        /\ Len(postRecvBuf) + recvDataLen < postPacketsize
    BY <1>10 DEF Framing!ExtendPending
  <2>2. "recvDataLen" \notin Supplied => postRecvBuf' = <<>>
    <3> SUFFICES ASSUME "recvDataLen" \notin Supplied PROVE postRecvBuf' = <<>>
      OBVIOUS
    <3>1. postRecvBuf = <<>> /\ recvDataLen = 0
      BY <1>3 DEF Framed
    <3>2. Len(postRecvBuf') = 0 /\ postRecvBuf' \in Seq(Cell)
      BY <1>1, <1>4, <2>1, <3>1, CopyAllFacts, EmptySeq, ReceiveFacts
    <3> QED
      BY <3>2, EmptySeq
  <2>3. Moved
    BY <1>8, <2>1
  <2>4. "recvDataLen" \in Supplied => arrived' = End[Posted] + Len(postRecvBuf') + recvDataLen'
    <3>1. /\ Len(postRecvBuf') \in Nat /\ recvDataLen' \in Nat
          /\ Len(postRecvBuf') + recvDataLen' = Len(postRecvBuf) + recvDataLen
      BY <2>3 DEF Moved
    <3>2. arrived' = arrived
      BY <1>1
    <3> QED
      BY <1>4, <1>5, <3>1, <3>2
  <2>5. postPacketsize' # 0 =>
          /\ Posted < MaxPackets
          /\ packets[Posted + 1].signature = "client"
          /\ postPacketsize' = packets[Posted + 1].packetsize
    BY <2>1 DEF Framed
  <2> QED
    BY <1>1, <1>2, <1>10, <2>2, <2>3, <2>4, <2>5 DEF Framed, Moved
<1>11. CASE Framing!CompletePending /\ loopPc' = "alloc"
  <2>1. /\ postPacketsize > 0 /\ Len(postRecvBuf) + recvDataLen >= postPacketsize
        /\ postPacketsize' = postPacketsize
        /\ Framing!Copy(postPacketsize - Len(postRecvBuf))
    BY <1>11 DEF Framing!CompletePending
  <2>2. postPacketsize - Len(postRecvBuf) \in 1..recvDataLen
    BY <1>3, <1>4, <2>1
  <2>3. "recvDataLen" \in Supplied
    BY <1>3, <2>2
  <2>4. Moved
    BY <1>7, <2>1, <2>2
  <2>5. /\ Posted < MaxPackets
        /\ packets[Posted + 1].signature = "client"
        /\ postPacketsize = packets[Posted + 1].packetsize
    BY <2>1 DEF Framed
  <2>6. Len(postRecvBuf') = postPacketsize
    <3>1. Len(postRecvBuf') = Len(postRecvBuf) + (postPacketsize - Len(postRecvBuf))
      BY <1>1, <2>1, <2>2, CopyFacts
    <3> QED
      BY <1>4, <3>1
  <2> QED
    BY <1>6, <2>1, <2>3, <2>4, <2>5, <2>6
<1>12. CASE Framing!TakePacket /\ loopPc' = "alloc"
  <2>1. /\ postPacketsize = 0 /\ recvDataLen >= 1 /\ Framing!checkPacketHeader
        /\ Framing!header.packetsize <= recvDataLen
        /\ postPacketsize' = postPacketsize
        /\ Framing!Copy(Framing!header.packetsize)
    BY <1>12 DEF Framing!TakePacket
  <2>2. /\ Posted < MaxPackets /\ "recvDataLen" \in Supplied
        /\ packets[Posted + 1].signature = "client"
        /\ Framing!header.packetsize = packets[Posted + 1].packetsize
        /\ packets[Posted + 1].packetsize \in Nat
    BY <1>3, <2>1, HeaderFacts DEF Framing!checkPacketHeader
  <2>3. Framing!header.packetsize \in 0..recvDataLen
    BY <1>4, <2>1, <2>2
  <2>4. Moved
    BY <1>7, <2>1, <2>3
  <2>5. Len(postRecvBuf') = packets[Posted + 1].packetsize
    <3>1. Len(postRecvBuf') = Len(postRecvBuf) + Framing!header.packetsize
      BY <1>1, <2>1, <2>3, CopyFacts
    <3> QED
      BY <1>3, <2>1, <2>2, <3>1
  <2> QED
    BY <1>6, <2>1, <2>2, <2>4, <2>5
<1>13. CASE Framing!StartPending /\ loopPc' = "frame"
  <2>1. /\ postPacketsize = 0 /\ recvDataLen >= 1 /\ Framing!checkPacketHeader
        /\ postPacketsize' = Framing!header.packetsize /\ Framing!CopyAll
    BY <1>13 DEF Framing!StartPending
  <2>2. /\ Posted < MaxPackets /\ "recvDataLen" \in Supplied
        /\ packets[Posted + 1].signature = "client"
        /\ Framing!header.packetsize = packets[Posted + 1].packetsize
    BY <1>3, <2>1, HeaderFacts DEF Framing!checkPacketHeader
  <2>3. Moved
    BY <1>8, <2>1
  <2> QED
    BY <1>6, <1>13, <2>1, <2>2, <2>3
<1> QED
  BY <1>1, <1>9, <1>10, <1>11, <1>12, <1>13 DEF Framing!Stops, Framing!HandsOver

LEMMA QuietKeepsFraming ==
  ASSUME FramingInv, UNCHANGED recvVars, Posted' = Posted,
         loopPc' \in {"alloc", "post"} => loopPc \in {"alloc", "post"},
         session' = "open" => session = "open"
  PROVE  FramingInv'
<1>1. UNCHANGED <<packets, stream, arrived, recvBuf, buffReadPos, recvDataLen, postRecvBuf,
                  postPacketsize>>
  BY DEF recvVars, clientVars, framingVars
<1>2. End' = End
  BY <1>1, SameEnd
<1>3. Framed => Framed'
  BY <1>1, <1>2 DEF Framed
<1> QED
  BY <1>3 DEF FramingInv

LEMMA ReadKeepsFramed ==
  ASSUME ReadsGoOn, ReceiveOK, StreamInv, Framed, On_ResultReadData
  PROVE  Framed'
<1>1. PICK k \in 1..RECV_BUF_SIZE - recvDataLen :
        /\ arrived + k <= Len(stream)
        /\ arrived' = arrived + k
        /\ recvDataLen' = IF "recvDataLen" \in Supplied THEN recvDataLen + k ELSE recvDataLen
        /\ buffReadPos' = IF "buffReadPos" \in Supplied THEN 0 ELSE buffReadPos
        /\ recvBuf' = [i \in 1..RECV_BUF_SIZE |->
                          IF i \in recvDataLen + 1..recvDataLen + k
                          THEN stream[arrived + (i - recvDataLen)]
                          ELSE Ready[i]]
  BY DEF On_ResultReadData
<1>2. /\ loopPc' \in {"frame", "astray"}
      /\ UNCHANGED <<packets, stream, postRecvBuf, postPacketsize, taken, mainPc, batch, pending>>
  BY DEF On_ResultReadData, clientVars, mainVars, eventVars
<1>3. End' = End /\ Posted' = Posted /\ Posted \in 0..MaxPackets /\ End[Posted] \in Nat
  BY <1>2, SameEnd, ArrivedFacts DEF Posted, Before, Framed
<1>4. /\ arrived \in Nat /\ recvDataLen \in Nat /\ Len(postRecvBuf) \in Nat
      /\ k \in Nat /\ recvDataLen + k <= RECV_BUF_SIZE /\ RECV_BUF_SIZE \in Nat
  BY Constants, ReceiveFacts, ArrivedFacts
<1>5. CASE "recvDataLen" \in Supplied
  <2>1. recvDataLen' = recvDataLen + k /\ buffReadPos' = 0 /\ "buffReadPos" \in Supplied
    BY <1>1, <1>5 DEF ReadsGoOn
  <2>2. arrived = End[Posted] + Len(postRecvBuf) + recvDataLen
    BY <1>5 DEF Framed
  <2>3. ASSUME NEW i \in 1..recvDataLen'
        PROVE  recvBuf'[i] = stream[End[Posted] + Len(postRecvBuf) + i]
    <3>0. i \in 1..RECV_BUF_SIZE /\ (i <= recvDataLen \/ i \in recvDataLen + 1..recvDataLen + k)
      BY <1>4, <2>1
    <3>1. CASE i <= recvDataLen
      <4>1. i \in 1..recvDataLen /\ i \notin recvDataLen + 1..recvDataLen + k
        BY <1>4, <3>0, <3>1
      <4>2. recvBuf'[i] = Ready[i]
        BY <1>1, <3>0, <4>1
      <4>3. Ready[i] = recvBuf[buffReadPos + i]
        BY <2>1, <3>0, <3>1 DEF Ready
      <4> QED
        BY <4>1, <4>2, <4>3 DEF Framed
    <3>2. CASE i \in recvDataLen + 1..recvDataLen + k
      <4>1. recvBuf'[i] = stream[arrived + (i - recvDataLen)]
        BY <1>1, <3>0, <3>2
      <4>2. arrived + (i - recvDataLen) = End[Posted] + Len(postRecvBuf) + i
        <5>1. /\ i \in Int /\ recvDataLen \in Int /\ End[Posted] \in Int
              /\ Len(postRecvBuf) \in Int
              /\ arrived = End[Posted] + Len(postRecvBuf) + recvDataLen
          BY <1>3, <1>4, <2>2
        <5> QED
          BY ONLY <5>1
      <4> QED
        BY <4>1, <4>2
    <3> QED
      BY <3>0, <3>1, <3>2
  <2>4. \A i \in 1..recvDataLen' :
          recvBuf'[buffReadPos' + i] = stream'[End'[Posted'] + Len(postRecvBuf') + i]
    <3>1. \A i \in 1..recvDataLen' : 0 + i = i
      BY <1>4, <2>1
    <3> QED
      BY <1>2, <1>3, <2>1, <2>3, <3>1
  <2>5. arrived' = End[Posted] + Len(postRecvBuf) + recvDataLen'
    <3>1. arrived' = arrived + k
      BY <1>1
    <3> QED
      BY <1>3, <1>4, <2>1, <2>2, <3>1
  <2> QED
    BY <1>2, <1>3, <1>5, <2>4, <2>5 DEF Framed
<1>6. CASE "recvDataLen" \notin Supplied
  <2>1. recvDataLen = 0 /\ postRecvBuf = <<>>
    BY <1>6 DEF ReceiveOK, Framed
  <2>2. recvDataLen' = 0
    BY <1>1, <1>6, <2>1
  <2>3. \A i \in 1..recvDataLen' :
          recvBuf'[buffReadPos' + i] = stream'[End'[Posted'] + Len(postRecvBuf') + i]
    BY <2>2
  <2> QED
    BY <1>2, <1>3, <1>6, <2>1, <2>3 DEF Framed
<1> QED
  BY <1>5, <1>6

LEMMA PostKeepsFramed ==
  ASSUME ReceiveOK, EventOK, HolderOK, SendOK, StreamInv, Framed, PostPacket
  PROVE  Framed'
<1>1. /\ loopPc = "post" /\ loopPc' = "frame" /\ postRecvBuf' = <<>> /\ postPacketsize' = 0
      /\ pending' = Append(pending, loopBuffer)
      /\ UNCHANGED <<packets, stream, arrived, recvBuf, buffReadPos, recvDataLen, taken, mainPc,
                     batch>>
  BY DEF PostPacket, PostBuffer, Framing!Clear, Events!Post, clientVars, mainVars
<1>2. /\ Posted \in 0..MaxPackets /\ Posted < MaxPackets
      /\ Len(postRecvBuf) = packets[Posted + 1].packetsize
  BY <1>1 DEF Framed
<1>3. Posted + 1 \in Serial /\ (Posted + 1) - 1 = Posted /\ Posted + 1 \in 0..MaxPackets
  BY <1>2, Constants DEF Serial
<1>4. /\ End[Posted + 1] = End[Posted] + Len(postRecvBuf)
      /\ End[Posted] \in Nat /\ End[Posted + 1] \in Nat
  BY <1>2, <1>3, LayoutFacts DEF StreamInv
<1>5. Posted' = Posted + 1 /\ End' = End
  <2>1. Len(pending') = Len(pending) + 1
    <3>1. pending \in Seq(Made \cup {CloseEvent}) /\ loopBuffer \in Made \cup {CloseEvent}
      BY <1>1 DEF EventOK, HolderOK
    <3> QED
      BY <1>1, <3>1, AppendFacts
  <2>2. Posted' = Before + Len(batch) + (Len(pending) + 1)
    BY <1>1, <2>1 DEF Posted, Before
  <2> QED
    BY <1>1, <2>2, SameEnd, PostedFacts DEF Posted
<1>6. recvDataLen \in Nat /\ Len(postRecvBuf) \in Nat /\ Len(postRecvBuf') = 0
  BY <1>1, ReceiveFacts, EmptySeq
<1>7. "recvDataLen" \in Supplied => arrived' = End'[Posted'] + Len(postRecvBuf') + recvDataLen'
  <2>1. "recvDataLen" \in Supplied => arrived = End[Posted] + Len(postRecvBuf) + recvDataLen
    BY DEF Framed
  <2> QED
    BY <1>1, <1>4, <1>5, <1>6, <2>1
<1>8. ASSUME NEW i \in 1..recvDataLen
      PROVE  recvBuf[buffReadPos + i] = stream[End[Posted + 1] + 0 + i]
  <2>1. recvBuf[buffReadPos + i] = stream[End[Posted] + Len(postRecvBuf) + i]
    BY DEF Framed
  <2>2. End[Posted] + Len(postRecvBuf) + i = End[Posted + 1] + 0 + i
    BY <1>4, <1>6
  <2> QED
    BY <2>1, <2>2
<1>9. \A i \in 1..recvDataLen' :
        recvBuf'[buffReadPos' + i] = stream'[End'[Posted'] + Len(postRecvBuf') + i]
  BY <1>1, <1>5, <1>6, <1>8
<1>10. \A i \in 1..Len(postRecvBuf') : postRecvBuf'[i] = stream'[End'[Posted'] + i]
  BY <1>6
<1>11. Posted' \in 0..MaxPackets'
  BY <1>3, <1>5
<1> QED
  BY <1>1, <1>7, <1>9, <1>10, <1>11 DEF Framed

\* The packet in postRecvBuf is the next one.
LEMMA WholePacket ==
  ASSUME ReceiveOK, StreamInv, Framed, loopPc \in {"alloc", "post"}
  PROVE  /\ postRecvBuf = UnitsOf(packets, Posted + 1)
         /\ packets[Posted + 1].signature = "client"
         /\ postRecvBuf[1].serial = Posted + 1 /\ Posted + 1 \in Serial
<1>1. /\ Posted \in 0..MaxPackets /\ Posted < MaxPackets
      /\ packets[Posted + 1].signature = "client"
      /\ Len(postRecvBuf) = packets[Posted + 1].packetsize
      /\ \A i \in 1..Len(postRecvBuf) : postRecvBuf[i] = stream[End[Posted] + i]
  BY DEF Framed
<1>2. Posted + 1 \in Serial /\ (Posted + 1) - 1 = Posted
  BY <1>1, Constants DEF Serial
<1>3. packets[Posted + 1].packetsize \in 1..RECV_BUF_SIZE
  BY <1>2, LayoutFacts DEF StreamInv
<1>4. \A i \in 1..packets[Posted + 1].packetsize :
        stream[End[(Posted + 1) - 1] + i] = UnitsOf(packets, Posted + 1)[i]
  BY <1>2, StreamFacts DEF StreamInv
<1>5. \A i \in 1..Len(postRecvBuf) : postRecvBuf[i] = UnitsOf(packets, Posted + 1)[i]
  BY <1>1, <1>2, <1>4
<1>6. postRecvBuf = [i \in 1..Len(postRecvBuf) |-> postRecvBuf[i]]
  <2>1. postRecvBuf \in Seq(Cell)
    BY ReceiveFacts
  <2> QED
    BY <2>1, LenProperties
<1>7. UnitsOf(packets, Posted + 1)
        = [i \in 1..packets[Posted + 1].packetsize |-> UnitsOf(packets, Posted + 1)[i]]
  BY DEF UnitsOf
<1>8. postRecvBuf = UnitsOf(packets, Posted + 1)
  BY <1>1, <1>5, <1>6, <1>7
<1>9. 1 \in 1..packets[Posted + 1].packetsize
  BY <1>3
<1>10. postRecvBuf[1].serial = Posted + 1
  BY <1>8, <1>9 DEF UnitsOf
<1> QED
  BY <1>1, <1>2, <1>8, <1>10

FlowInv == OrderInv /\ FramingInv

LEMMA LoopKeepsFlow ==
  ASSUME ReadsGoOn, Typed, StreamInv, CloseInv, OwnerInv, FlowInv,
         On_ResultReadData \/ ReadEnds \/ handleRecvPacket \/ FillBuffer \/ PostPacket \/ PostClose
  PROVE  FlowInv'
<1>0. ReceiveOK /\ PoolOK /\ EventOK /\ HolderOK /\ SendOK /\ OrderInv /\ FramingInv
  BY DEF Typed, FlowInv
<1>1. CASE On_ResultReadData \/ handleRecvPacket
  <2>1. session = "open"
    BY <1>1 DEF On_ResultReadData, handleRecvPacket, CloseInv
  <2>2. Framed'
    BY <1>0, <1>1, <2>1, ReadKeepsFramed, FrameKeepsFramed DEF FramingInv
  <2>3. /\ UNCHANGED <<content, taken, batch, pending, item, mainPc>>
        /\ loopPc' \in {"poll", "frame", "alloc", "astray"}
    BY <1>1 DEF On_ResultReadData, handleRecvPacket, poolVars, eventVars, mainVars
  <2>4. OrderInv'
    BY <1>0, <2>3, QuietKeepsOrder
  <2> QED
    BY <2>2, <2>4 DEF FlowInv, FramingInv
<1>2. CASE ReadEnds
  <2>1. /\ UNCHANGED <<content, taken, batch, pending, item, mainPc>>
        /\ loopPc' = "post close" /\ session' = "closed"
    BY <1>2 DEF ReadEnds, poolVars, eventVars, mainVars
  <2>2. OrderInv'
    BY <1>0, <2>1, QuietKeepsOrder
  <2> QED
    BY <2>1, <2>2 DEF FlowInv, FramingInv
<1>3. CASE FillBuffer
  <2>1. PICK b \in Buffer : alloc(b, postRecvBuf[1].serial) /\ loopBuffer' = b
    BY <1>3 DEF FillBuffer
  <2>2. /\ loopPc = "alloc" /\ loopPc' = "post" /\ UNCHANGED recvVars
        /\ UNCHANGED <<pending, batch, item, mainPc, taken, session>>
    BY <1>3 DEF FillBuffer, eventVars, mainVars
  <2>3. session = "open" /\ Framed
    BY <1>0, <2>2 DEF CloseInv, FramingInv
  <2>4. postRecvBuf[1].serial = Posted + 1 /\ Posted + 1 \in Serial
    BY <1>0, <2>2, <2>3, WholePacket
  <2>5. /\ \A i \in 1..Len(batch) : batch[i] # CloseEvent => content'[batch[i]] = content[batch[i]]
        /\ \A i \in 1..Len(pending) :
             pending[i] # CloseEvent => content'[pending[i]] = content[pending[i]]
        /\ mainPc # "update" /\ item # CloseEvent => content'[item] = content[item]
        /\ content'[b] = Posted + 1
    BY <1>0, <2>1, <2>4, AllocKeepsContent
  <2>6. Before' = Before /\ Posted' = Posted
    BY <2>2 DEF Before, Posted
  <2>7. OrderInv'
    BY <1>0, <2>1, <2>2, <2>5, <2>6 DEF OrderInv
  <2>8. FramingInv'
    BY <1>0, <2>2, <2>6, QuietKeepsFraming
  <2> QED
    BY <2>7, <2>8 DEF FlowInv
<1>4. CASE PostPacket
  <2>1. /\ loopPc = "post" /\ loopPc' = "frame"
        /\ pending' = Append(pending, loopBuffer)
        /\ UNCHANGED <<content, batch, item, taken, mainPc, session>>
    BY <1>4 DEF PostPacket, PostBuffer, Events!Post, poolVars, mainVars
  <2>2. session = "open" /\ Framed
    BY <1>0, <2>1 DEF CloseInv, FramingInv
  <2>3. Framed'
    BY <1>0, <1>4, <2>2, PostKeepsFramed
  <2>4. loopBuffer \in Made /\ content[loopBuffer] = Posted + 1
    BY <1>0, <2>1 DEF HolderOK, OrderInv
  <2>5. OrderInv'
    BY <1>0, <2>1, <2>4, PostKeepsOrder
  <2> QED
    BY <2>3, <2>5 DEF FlowInv, FramingInv
<1>5. CASE PostClose
  <2>1. /\ loopPc = "post close" /\ loopPc' = "poll"
        /\ pending' = Append(pending, CloseEvent)
        /\ UNCHANGED <<content, batch, item, taken, mainPc, session>>
    BY <1>5 DEF PostClose, PostsClose, Events!Post, poolVars, mainVars
  <2>2. session' # "open"
    BY <2>1 DEF CloseInv
  <2>3. OrderInv'
    BY <1>0, <2>1, PostKeepsOrder
  <2> QED
    BY <2>2, <2>3 DEF FlowInv, FramingInv
<1> QED
  BY <1>1, <1>2, <1>3, <1>4, <1>5

LEMMA MainKeepsFlow ==
  ASSUME Typed, CloseInv, OwnerInv, FlowInv, Main
  PROVE  FlowInv'
<1>0. PoolOK /\ EventOK /\ HolderOK /\ SendOK /\ OrderInv /\ FramingInv
  BY DEF Typed, FlowInv
<1>1. /\ loopPc' = loopPc /\ loopBuffer' = loopBuffer /\ UNCHANGED recvVars
      /\ session' = "open" => session = "open"
  BY DEF Main, SwapQueues, NextPacket, RemoveSession, SessionNotFound, TakenForNew,
         TakenForClose, TakenForSession, DispatchUnanswered, MakeAnswer, sendBuffer, PushAnswer,
         ReleasePacket, PacketDone, ClearBatch
<1>2. Posted' = Posted => FramingInv'
  BY <1>0, <1>1, QuietKeepsFraming
<1>3. CASE SwapQueues \/ NextPacket
  BY <1>0, <1>2, <1>3, SwapKeepsOrder, NextKeepsOrder DEF FlowInv
<1>4. CASE RemoveSession
  <2>1. /\ CloseInHand /\ session' = "deleted" /\ mainPc' = "update"
        /\ UNCHANGED <<content, taken, batch, pending>>
    BY <1>4 DEF RemoveSession, CloseInHand, poolVars, eventVars
  <2>2. batch' = <<>> /\ pending' = <<>> /\ loopPc' # "post"
    BY <1>1, <2>1 DEF CloseInv, CloseNowhere
  <2>3. Len(batch') = 0 /\ Len(pending') = 0
    BY <2>2, EmptySeq
  <2>4. OrderInv'
    BY <1>0, <2>1, <2>2, <2>3 DEF OrderInv
  <2> QED
    BY <2>1, <2>4 DEF FlowInv, FramingInv
<1>5. CASE TakenForNew \/ TakenForClose \/ DispatchUnanswered
  <2>1. /\ mainPc = "dispatch" /\ item # CloseEvent /\ mainPc' # "dispatch"
        /\ taken' = Append(taken, content[item])
        /\ UNCHANGED <<content, batch, pending, item>>
    BY <1>5 DEF TakenForNew, TakenForClose, TakenForSession, DispatchUnanswered, IsPacket,
                poolVars, eventVars
  <2>2. OrderInv' /\ Posted' = Posted
    BY <1>0, <1>1, <2>1, DispatchKeepsOrder
  <2> QED
    BY <1>2, <2>2 DEF FlowInv
<1>6. CASE MakeAnswer
  <2>1. /\ mainPc = "dispatch" /\ item # CloseEvent /\ mainPc' = "push"
        /\ taken' = Append(taken, content[item])
        /\ UNCHANGED <<batch, pending, item>>
    BY <1>6 DEF MakeAnswer, IsPacket, eventVars
  <2>2. PICK b \in Buffer : alloc(b, content[item])
    BY <1>6 DEF MakeAnswer
  <2>3. content[item] \in Serial
    BY <1>0, <2>1 DEF EventOK, PoolOK
  <2>4. /\ \A i \in 1..Len(batch) : batch[i] # CloseEvent => content'[batch[i]] = content[batch[i]]
        /\ \A i \in 1..Len(pending) :
             pending[i] # CloseEvent => content'[pending[i]] = content[pending[i]]
    BY <1>0, <2>2, <2>3, AllocKeepsContent
  <2>5. loopPc = "post" => content'[loopBuffer] = content[loopBuffer]
    <3> SUFFICES ASSUME loopPc = "post" PROVE content'[loopBuffer] = content[loopBuffer]
      OBVIOUS
    <3>1. loopBuffer \in Made /\ loopBuffer # NoBuffer /\ loopBuffer \in Buffer
      BY <1>0, NobodyIsNoBuffer DEF HolderOK
    <3>2. b \notin Places[2] /\ \A c \in Buffer : c # b => content'[c] = content[c]
      BY <1>0, <2>2, <2>3, AllocIsFresh
    <3> QED
      BY <3>1, <3>2, PlacesAre DEF One
  <2>6. OrderInv' /\ Posted' = Posted
    BY <1>0, <1>1, <2>1, <2>4, <2>5, DispatchKeepsOrder
  <2> QED
    BY <1>2, <2>6 DEF FlowInv
<1>7. CASE sendBuffer \/ ReleasePacket \/ ClearBatch
  <2>1. /\ UNCHANGED <<taken, batch, pending>>
        /\ mainPc # "dispatch" /\ mainPc' # "dispatch"
    BY <1>7 DEF sendBuffer, PushAnswer, ReleasePacket, PacketDone, ClearBatch, Events!EndBatch,
                eventVars, mainVars
  <2>2. content' = content
    <3>1. CASE sendBuffer \/ ClearBatch
      BY <3>1 DEF sendBuffer, PushAnswer, ClearBatch, poolVars
    <3>2. CASE ReleasePacket
      BY <3>2 DEF ReleasePacket, release
    <3> QED
      BY <1>7, <3>1, <3>2
  <2>3. OrderInv'
    BY <1>0, <1>1, <2>1, <2>2, QuietKeepsOrder
  <2>4. Posted' = Posted
    BY <2>1 DEF Posted, Before
  <2> QED
    BY <1>2, <2>3, <2>4 DEF FlowInv
<1>8. CASE SessionNotFound
  <2>1. /\ CloseInHand /\ mainPc' = "update"
        /\ UNCHANGED <<content, taken, batch, pending>>
    BY <1>8 DEF SessionNotFound, CloseInHand, poolVars, eventVars
  <2>2. batch' = <<>> /\ pending' = <<>> /\ loopPc' # "post" /\ session # "open"
    BY <1>1, <2>1 DEF CloseInv, CloseNowhere
  <2>3. Len(batch') = 0 /\ Len(pending') = 0
    BY <2>2, EmptySeq
  <2>4. OrderInv'
    BY <1>0, <2>1, <2>2, <2>3 DEF OrderInv
  <2> QED
    BY <1>1, <2>2, <2>4 DEF FlowInv, FramingInv
<1> QED
  BY <1>3, <1>4, <1>5, <1>6, <1>7, <1>8 DEF Main

LEMMA FlowInvariant ==
  ASSUME ReadsGoOn, Typed, StreamInv, CloseInv, OwnerInv, FlowInv, [Next]_vars
  PROVE  FlowInv'
<1>1. CASE On_ResultReadData \/ ReadEnds \/ handleRecvPacket \/ FillBuffer \/ PostPacket
             \/ PostClose
  BY <1>1, LoopKeepsFlow
<1>2. CASE Main
  BY <1>2, MainKeepsFlow
<1>3. CASE doSend \/ On_WriteData \/ Gather \/ UNCHANGED vars
  <2>1. /\ UNCHANGED <<taken, batch, pending, item, mainPc, session, loopBuffer>>
        /\ UNCHANGED recvVars
        /\ loopPc' \in {"poll", "gather", "write", "overrun"} \/ loopPc' = loopPc
    BY <1>3 DEF doSend, On_WriteData, WriteDone, BeginSend, Resume, ResumeWith, Overrun,
                Gather, GatherWhole, GatherBelow, GatherPart, GatherNothing, Write, vars, eventVars, mainVars
  <2>2. content' = content
    BY <1>3 DEF doSend, On_WriteData, WriteDone, BeginSend, Resume, ResumeWith, Overrun,
                Gather, GatherWhole, GatherBelow, GatherPart, GatherNothing, Write, vars, poolVars, release
  <2>3. Posted' = Posted
    BY <2>1 DEF Posted, Before
  <2>4. OrderInv'
    BY <2>1, <2>2, QuietKeepsOrder DEF FlowInv
  <2>5. FramingInv'
    BY <2>1, <2>3, QuietKeepsFraming DEF FlowInv
  <2> QED
    BY <2>4, <2>5 DEF FlowInv
<1> QED
  BY <1>1, <1>2, <1>3 DEF Next, Receive

LEMMA FlowInitially == Init => FlowInv
<1> SUFFICES ASSUME Init PROVE FlowInv
  OBVIOUS
<1>1. /\ taken = <<>> /\ batch = <<>> /\ pending = <<>> /\ mainPc = "update"
      /\ loopPc = "poll" /\ arrived = 0 /\ postRecvBuf = <<>> /\ recvDataLen = 0
      /\ postPacketsize = 0
  BY DEF Init, Framing!Init, Events!Init
<1>2. Len(<<>>) = 0 /\ Posted = 0
  BY <1>1, EmptySeq DEF Posted, Before
<1>3. OrderInv
  BY <1>1, <1>2 DEF OrderInv
<1>4. End[0] = 0
  <2>1. PICK end \in [0..MaxPackets -> 0..MaxPackets * RECV_BUF_SIZE] :
          IsLayout(packets, end) /\ stream = StreamOf(packets, end)
    BY DEF Init
  <2>2. Layout(end)
    BY <2>1, Constants DEF Layout
  <2>3. Layout(End)
    BY <2>1, <2>2 DEF End, EndOf, Layout
  <2> QED
    BY <2>3 DEF Layout, IsLayout
<1>5. Framed
  BY <1>1, <1>2, <1>4, Constants DEF Framed
<1> QED
  BY <1>3, <1>5 DEF FlowInv, FramingInv

LEMMA FlowHolds ==
  ASSUME ReadsGoOn
  PROVE  Spec => []FlowInv
<1>1. Typed /\ StreamInv /\ CloseInv /\ OwnerInv /\ FlowInv /\ [Next]_vars => FlowInv'
  BY FlowInvariant
<1> QED
  BY <1>1, FlowInitially, TypedInvariant, StreamHolds, CloseHolds, OwnerHolds, PTL DEF Spec

\* However the stream is cut into reads, what is handed over is the next packet
\* of the stream, whole and with a checked header: for packets of at least a
\* header, and if what waits in recvBuf is moved when the bytes of a read are
\* counted (the code does neither).
THEOREM FramingIsExact ==
  ASSUME ReadsGoOn
  PROVE  Spec => []FramingExact
<1>1. Typed /\ StreamInv /\ CloseInv /\ FlowInv => FramingExact
  <2> SUFFICES ASSUME Typed, StreamInv, CloseInv, FlowInv, loopPc = "alloc"
               PROVE  /\ postRecvBuf = UnitsOf(packets, Posted + 1)
                      /\ packets[Posted + 1].signature = "client"
    BY DEF FramingExact, Posted, Before
  <2>1. Framed
    BY DEF CloseInv, FlowInv, FramingInv
  <2> QED
    BY <2>1, WholePacket DEF Typed
<1> QED
  BY <1>1, TypedInvariant, StreamHolds, CloseHolds, FlowHolds, PTL

-----------------------------------------------------------------------------
(* The answers.  Their packets are in order from those answered to the one *)
(* being made, and only the one that did not fit has been counted in part. *)

Follows(n) == \A i \in 1..Len(answered) : answered[i] < n

AnsweredInv ==
  /\ \A i, j \in 1..Len(answered) : i < j => answered[i] < answered[j]
  /\ \A i \in 1..Len(answered) : answered[i] <= Len(taken)
  /\ \A n \in Serial : n > Len(taken) => copied[n] = 0

PrevInv ==
  prevSendBuf # NoBuffer =>
    LET n == content[prevSendBuf]
    IN  n <= Len(taken) /\ Follows(n) /\ copied[n] = prevSendOffset

ListInv ==
  \A j \in 1..Len(sendBuffList) :
    LET n == content[sendBuffList[j]]
    IN  /\ n <= Len(taken) /\ Follows(n) /\ copied[n] = 0
        /\ prevSendBuf # NoBuffer => content[prevSendBuf] < n
        /\ \A i \in 1..Len(sendBuffList) : i < j => content[sendBuffList[i]] < n

MainInv ==
  mainBuffer # NoBuffer =>
    LET n == content[mainBuffer]
    IN  /\ n <= Len(taken) /\ Follows(n) /\ copied[n] = 0
        /\ prevSendBuf # NoBuffer => content[prevSendBuf] < n
        /\ \A i \in 1..Len(sendBuffList) : content[sendBuffList[i]] < n

AnswerInv == AnsweredInv /\ PrevInv /\ ListInv /\ MainInv

LEMMA AnswerTypes ==
  ASSUME Rest
  PROVE  /\ Len(taken) \in Nat /\ Len(answered) \in Nat /\ Len(sendBuffList) \in Nat
         /\ answered \in Seq(Serial) /\ \A i \in 1..Len(answered) : answered[i] \in Nat
         /\ \A b \in Made : content[b] \in Serial /\ content[b] \in Nat
         /\ \A i \in 1..Len(sendBuffList) : sendBuffList[i] \in Made
         /\ sendBuffList \in Seq(Made)
         /\ prevSendBuf # NoBuffer => prevSendBuf \in Made
         /\ mainBuffer # NoBuffer => mainBuffer \in Made
         /\ copied \in [Serial -> Nat]
<1>1. taken \in Seq(Serial) /\ answered \in Seq(Serial) /\ sendBuffList \in Seq(Made)
  BY DEF Rest, SendOK, HolderOK
<1>2. Serial \subseteq Nat
  BY DEF Serial
<1>3. /\ Len(taken) \in Nat /\ Len(answered) \in Nat /\ Len(sendBuffList) \in Nat
      /\ \A i \in 1..Len(answered) : answered[i] \in Serial
      /\ \A i \in 1..Len(sendBuffList) : sendBuffList[i] \in Made
  BY <1>1, LenProperties
<1>4. \A b \in Made : content[b] \in Serial
  BY DEF Rest, PoolOK
<1>5. /\ prevSendBuf # NoBuffer => prevSendBuf \in Made
      /\ mainBuffer # NoBuffer => mainBuffer \in Made
      /\ copied \in [Serial -> Nat]
  BY DEF Rest, SendOK, HolderOK
<1> QED
  BY <1>1, <1>2, <1>3, <1>4, <1>5

\* What happens elsewhere, as long as it leaves alone what is in the answers.
LEMMA QuietKeepsAnswers ==
  ASSUME Rest, AnswerInv,
         UNCHANGED <<taken, answered, copied, prevSendBuf, prevSendOffset, sendBuffList,
                     mainBuffer>>,
         prevSendBuf # NoBuffer => content'[prevSendBuf] = content[prevSendBuf],
         mainBuffer # NoBuffer => content'[mainBuffer] = content[mainBuffer],
         \A i \in 1..Len(sendBuffList) : content'[sendBuffList[i]] = content[sendBuffList[i]]
  PROVE  AnswerInv'
<1>1. AnsweredInv' /\ \A n : Follows(n)' <=> Follows(n)
  BY DEF AnswerInv, AnsweredInv, Follows
<1>2. PrevInv'
  BY <1>1 DEF AnswerInv, PrevInv
<1>3. ListInv'
  BY <1>1 DEF AnswerInv, ListInv
<1>4. MainInv'
  BY <1>1 DEF AnswerInv, MainInv
<1> QED
  BY <1>1, <1>2, <1>3, <1>4 DEF AnswerInv

\* A buffer that is allocated is not one with an answer.
LEMMA AllocKeepsAnswers ==
  ASSUME Rest, OwnerInv, NEW b \in Buffer, NEW n \in Serial, alloc(b, n)
  PROVE  /\ prevSendBuf # NoBuffer => content'[prevSendBuf] = content[prevSendBuf]
         /\ mainBuffer # NoBuffer => content'[mainBuffer] = content[mainBuffer]
         /\ \A i \in 1..Len(sendBuffList) : content'[sendBuffList[i]] = content[sendBuffList[i]]
<1>1. PoolOK
  BY DEF Rest
<1>2. /\ \A k \in 2..9 : b \notin Places[k]
      /\ \A c \in Buffer : c # b => content'[c] = content[c]
  BY <1>1, AllocIsFresh
<1>3. b \notin One(mainBuffer) /\ b \notin ToSet(sendBuffList) /\ b \notin One(prevSendBuf)
  BY <1>2, PlacesAre
<1>4. \A c \in Made : c \in Buffer
  BY <1>1, NobodyIsNoBuffer
<1>5. \A i \in 1..Len(sendBuffList) : sendBuffList[i] # b
  BY <1>3, AnswerTypes, RangeElements
<1> QED
  BY <1>2, <1>3, <1>4, <1>5, AnswerTypes DEF One

\* The main thread handles one more packet.
LEMMA HandlingKeepsAnswers ==
  ASSUME Rest, AnswerInv, taken' \in Seq(Serial), Len(taken') = Len(taken) + 1,
         mainBuffer = NoBuffer,
         UNCHANGED <<answered, copied, prevSendBuf, prevSendOffset, sendBuffList>>,
         prevSendBuf # NoBuffer => content'[prevSendBuf] = content[prevSendBuf],
         \A i \in 1..Len(sendBuffList) : content'[sendBuffList[i]] = content[sendBuffList[i]]
  PROVE  AnsweredInv' /\ PrevInv' /\ ListInv'
<1>1. \A n \in Nat : n <= Len(taken) => n <= Len(taken')
  BY AnswerTypes
<1>2. \A n \in Serial : n > Len(taken') => n > Len(taken)
  BY AnswerTypes DEF Serial
<1>3. AnsweredInv' /\ \A n : Follows(n)' <=> Follows(n)
  BY <1>1, <1>2, AnswerTypes DEF AnswerInv, AnsweredInv, Follows
<1>4. PrevInv'
  BY <1>1, <1>3, AnswerTypes DEF AnswerInv, PrevInv
<1>5. ListInv'
  BY <1>1, <1>3, AnswerTypes DEF AnswerInv, ListInv
<1> QED
  BY <1>3, <1>4, <1>5

LEMMA MakeKeepsAnswers ==
  ASSUME Rest, OwnerInv, OrderInv, AnswerInv, MakeAnswer
  PROVE  AnswerInv'
<1>1. /\ item # CloseEvent /\ mainPc = "dispatch"
      /\ taken' = Append(taken, content[item])
      /\ UNCHANGED <<answered, copied, prevSendBuf, prevSendOffset, sendBuffList>>
  BY DEF MakeAnswer, IsPacket, queueVars, sendVars
<1>2. PICK b \in Buffer : alloc(b, content[item]) /\ mainBuffer' = b
  BY DEF MakeAnswer
<1>3. /\ content[item] \in Serial /\ content[item] = Len(taken) + 1 /\ mainBuffer = NoBuffer
      /\ taken \in Seq(Serial)
  BY <1>1 DEF Rest, EventOK, PoolOK, HolderOK, SendOK, OrderInv
<1>4. taken' \in Seq(Serial) /\ Len(taken') = Len(taken) + 1
  BY <1>1, <1>3, AppendFacts
<1>5. /\ prevSendBuf # NoBuffer => content'[prevSendBuf] = content[prevSendBuf]
      /\ \A i \in 1..Len(sendBuffList) : content'[sendBuffList[i]] = content[sendBuffList[i]]
      /\ content'[b] = Len(taken) + 1
  BY <1>2, <1>3, AllocKeepsAnswers, AllocIsFresh DEF Rest
<1>6. AnsweredInv' /\ PrevInv' /\ ListInv'
  BY <1>1, <1>3, <1>4, <1>5, HandlingKeepsAnswers
<1>7. \A i \in 1..Len(answered') : answered'[i] < Len(taken) + 1
  <2>1. \A i \in 1..Len(answered) : answered[i] <= Len(taken)
    BY DEF AnswerInv, AnsweredInv
  <2> QED
    BY <1>1, <2>1, AnswerTypes
<1>8. copied'[Len(taken) + 1] = 0
  <2>1. \A n \in Serial : n > Len(taken) => copied[n] = 0
    BY DEF AnswerInv, AnsweredInv
  <2>2. Len(taken) + 1 \in Serial /\ Len(taken) + 1 > Len(taken)
    BY <1>3, AnswerTypes
  <2> QED
    BY <1>1, <2>1, <2>2
<1>9. prevSendBuf # NoBuffer => content[prevSendBuf] < Len(taken) + 1
  <2>1. prevSendBuf # NoBuffer => content[prevSendBuf] <= Len(taken)
    BY DEF AnswerInv, PrevInv
  <2> QED
    BY <2>1, AnswerTypes
<1>10. \A i \in 1..Len(sendBuffList) : content[sendBuffList[i]] < Len(taken) + 1
  <2>1. \A i \in 1..Len(sendBuffList) : content[sendBuffList[i]] <= Len(taken)
    BY DEF AnswerInv, ListInv
  <2> QED
    BY <2>1, AnswerTypes
<1>11. Len(taken) + 1 <= Len(taken')
  BY <1>4, AnswerTypes
<1>12. MainInv'
  BY <1>1, <1>2, <1>5, <1>7, <1>8, <1>9, <1>10, <1>11 DEF MainInv, Follows
<1> QED
  BY <1>6, <1>12 DEF AnswerInv

LEMMA PushKeepsAnswers ==
  ASSUME Rest, AnswerInv, sendBuffer
  PROVE  AnswerInv'
<1>1. /\ mainPc = "push" /\ mainBuffer' = NoBuffer
      /\ \/ sendBuffList' = Append(sendBuffList, mainBuffer)
         \/ sendBuffList' = sendBuffList
      /\ UNCHANGED <<content, taken, answered, copied, prevSendBuf, prevSendOffset>>
  BY DEF sendBuffer, PushAnswer, poolVars, sendVars
<1>2. AnsweredInv' /\ PrevInv' /\ MainInv' /\ \A n : Follows(n)' <=> Follows(n)
  BY <1>1 DEF AnswerInv, AnsweredInv, PrevInv, MainInv, Follows
<1>3. CASE sendBuffList' = sendBuffList
  <2>1. ListInv'
    BY <1>1, <1>2, <1>3 DEF AnswerInv, ListInv
  <2> QED
    BY <1>2, <2>1 DEF AnswerInv
<1>4. CASE sendBuffList' = Append(sendBuffList, mainBuffer)
  <2>1. mainBuffer \in Made /\ mainBuffer # NoBuffer
    BY <1>1, AnswerTypes DEF Rest, HolderOK
  <2>2. /\ Len(sendBuffList') = Len(sendBuffList) + 1
        /\ \A i \in 1..Len(sendBuffList) : sendBuffList'[i] = sendBuffList[i]
        /\ sendBuffList'[Len(sendBuffList) + 1] = mainBuffer
    BY <1>4, <2>1, AppendFacts, AnswerTypes
  <2> DEFINE Fine(n) ==
        /\ n <= Len(taken) /\ Follows(n) /\ copied[n] = 0
        /\ prevSendBuf # NoBuffer => content[prevSendBuf] < n
  <2>3. \A j \in 1..Len(sendBuffList') : Fine(content[sendBuffList'[j]])
    <3>1. \A j \in 1..Len(sendBuffList) : Fine(content[sendBuffList[j]])
      BY DEF AnswerInv, ListInv
    <3>2. Fine(content[mainBuffer])
      BY <2>1 DEF AnswerInv, MainInv
    <3>3. \A j \in 1..Len(sendBuffList') : j \in 1..Len(sendBuffList) \/ j = Len(sendBuffList) + 1
      BY <2>2, AnswerTypes
    <3> HIDE DEF Fine
    <3> QED
      BY <2>2, <3>1, <3>2, <3>3
  <2>4. ASSUME NEW i \in 1..Len(sendBuffList'), NEW j \in 1..Len(sendBuffList'), i < j
        PROVE  content[sendBuffList'[i]] < content[sendBuffList'[j]]
    <3>1. i \in 1..Len(sendBuffList)
      BY <2>2, <2>4, AnswerTypes
    <3>2. CASE j \in 1..Len(sendBuffList)
      BY <2>2, <2>4, <3>1, <3>2 DEF AnswerInv, ListInv
    <3>3. CASE j = Len(sendBuffList) + 1
      BY <2>1, <2>2, <3>1, <3>3 DEF AnswerInv, MainInv
    <3> QED
      BY <2>2, <3>2, <3>3, AnswerTypes
  <2>5. ListInv'
    BY <1>1, <1>2, <2>3, <2>4 DEF ListInv
  <2> QED
    BY <1>2, <2>5 DEF AnswerInv
<1> QED
  BY <1>1, <1>3, <1>4

LEMMA AnsweredGrows ==
  ASSUME Rest, AnsweredInv, NEW p \in Serial, p <= Len(taken), Follows(p),
         taken' = taken, Len(answered') = Len(answered) + 1,
         \A i \in 1..Len(answered) : answered'[i] = answered[i],
         answered'[Len(answered) + 1] = p,
         \A m \in Serial : m # p => copied'[m] = copied[m]
  PROVE  AnsweredInv' /\ \A m : Follows(m) /\ p < m => Follows(m)'
<1>1. /\ Len(answered) \in Nat /\ Len(taken) \in Nat /\ p \in Nat
      /\ \A i \in 1..Len(answered') : i \in 1..Len(answered) \/ i = Len(answered) + 1
  BY AnswerTypes DEF Serial
<1>2. /\ \A i, j \in 1..Len(answered) : i < j => answered[i] < answered[j]
      /\ \A i \in 1..Len(answered) : answered[i] <= Len(taken) /\ answered[i] < p
      /\ \A n \in Serial : n > Len(taken) => copied[n] = 0
  BY DEF AnsweredInv, Follows
<1>3. ASSUME NEW i \in 1..Len(answered'), NEW j \in 1..Len(answered'), i < j
      PROVE  answered'[i] < answered'[j]
  <2>1. i \in 1..Len(answered)
    BY <1>1, <1>3
  <2> QED
    BY <1>1, <1>2, <1>3, <2>1
<1>4. \A i \in 1..Len(answered') : answered'[i] <= Len(taken)
  BY <1>1, <1>2
<1>5. \A n \in Serial : n > Len(taken) => copied'[n] = 0
  BY <1>1, <1>2
<1>6. AnsweredInv'
  BY <1>3, <1>4, <1>5 DEF AnsweredInv
<1>7. \A m : Follows(m) /\ p < m => Follows(m)'
  BY <1>1 DEF Follows
<1> QED
  BY <1>6, <1>7

\* doSend counts the rest of prevSendBuf.
LEMMA ResumeKeepsAnswers ==
  ASSUME Rest, AnswerInv, ResumeFits
  PROVE  /\ AnswerInv'
         /\ prevSendBuf # NoBuffer =>
              copied'[content[prevSendBuf]] = buffersize[prevSendBuf]
<1>1. UNCHANGED <<taken, mainBuffer, sendBuffList>>
  BY DEF ResumeFits, ResumeWith, mainVars, queueVars
<1>2. CASE prevSendBuf = NoBuffer
  <2>1. UNCHANGED <<copied, answered, content, prevSendBuf, prevSendOffset>>
    BY <1>2 DEF ResumeFits, ResumeWith, poolVars
  <2> QED
    BY <1>1, <1>2, <2>1, QuietKeepsAnswers
<1>3. CASE prevSendBuf # NoBuffer
  <2> DEFINE p == content[prevSendBuf]
             n == buffersize[prevSendBuf] - prevSendOffset
  <2>1. /\ CountLast(prevSendBuf, n, 0)
        /\ release(prevSendBuf) /\ prevSendBuf' = NoBuffer
    BY <1>3 DEF ResumeFits, ResumeWith
  <2>2. /\ prevSendBuf \in Made /\ p \in Serial /\ p \in Nat
        /\ copied \in [Serial -> Nat] /\ answered \in Seq(Serial)
    BY <1>3, AnswerTypes
  <2>3. content' = content
    BY <2>1, <2>2, ReleaseFacts DEF Rest
  <2>4. copied' = [copied EXCEPT ![p] = @ + n] /\ answered' = Append(answered, p)
    BY <2>1 DEF CountLast, Count
  <2>5. p <= Len(taken) /\ Follows(p) /\ copied[p] = prevSendOffset
    BY <1>3 DEF AnswerInv, PrevInv
  <2>6. buffersize[prevSendBuf] \in Nat /\ prevSendOffset \in Nat
    BY <2>2, Constants DEF Rest, PoolOK, SendOK
  <2> HIDE DEF p
  <2>7. /\ copied'[p] = buffersize[prevSendBuf]
        /\ \A m \in Serial : m # p => copied'[m] = copied[m]
    BY <2>2, <2>4, <2>5, <2>6
  <2> HIDE DEF n
  <2>8. /\ Len(answered') = Len(answered) + 1
        /\ \A i \in 1..Len(answered) : answered'[i] = answered[i]
        /\ answered'[Len(answered) + 1] = p
    BY <2>2, <2>4, AppendFacts
  <2>9. AnsweredInv' /\ \A m : Follows(m) /\ p < m => Follows(m)'
    BY <1>1, <2>2, <2>5, <2>7, <2>8, AnsweredGrows DEF AnswerInv
  <2>10. PrevInv'
    BY <2>1 DEF PrevInv
  <2>11. ASSUME NEW j \in 1..Len(sendBuffList)
         PROVE  LET m == content[sendBuffList[j]]
                IN  m <= Len(taken) /\ Follows(m)' /\ copied'[m] = 0
    <3>1. /\ content[sendBuffList[j]] <= Len(taken) /\ Follows(content[sendBuffList[j]])
          /\ copied[content[sendBuffList[j]]] = 0 /\ p < content[sendBuffList[j]]
      BY <1>3 DEF AnswerInv, ListInv, p
    <3>2. content[sendBuffList[j]] \in Serial
      BY AnswerTypes
    <3>3. copied'[content[sendBuffList[j]]] = 0
      BY <2>2, <2>7, <3>1, <3>2, AnswerTypes
    <3> QED
      BY <1>1, <2>3, <2>9, <3>1, <3>3
  <2>12. ListInv'
    BY <1>1, <2>1, <2>3, <2>11 DEF AnswerInv, ListInv
  <2>13. MainInv'
    <3> SUFFICES ASSUME mainBuffer # NoBuffer PROVE MainInv'
      BY <1>1 DEF MainInv
    <3>1. /\ content[mainBuffer] <= Len(taken) /\ Follows(content[mainBuffer])
          /\ copied[content[mainBuffer]] = 0 /\ p < content[mainBuffer]
      BY <1>3 DEF AnswerInv, MainInv, p
    <3>2. content[mainBuffer] \in Serial
      BY AnswerTypes
    <3>3. copied'[content[mainBuffer]] = 0
      BY <2>2, <2>7, <3>1, <3>2, AnswerTypes
    <3> QED
      BY <1>1, <2>1, <2>3, <2>9, <3>1, <3>3 DEF AnswerInv, MainInv
  <2> QED
    BY <2>7, <2>9, <2>10, <2>12, <2>13 DEF AnswerInv, p
<1> QED
  BY <1>2, <1>3

\* The send queue after its head is taken.
LEMMA TailFacts ==
  ASSUME Rest, sendBuffList # <<>>
  PROVE  /\ 1 \in 1..Len(sendBuffList) /\ Head(sendBuffList) = sendBuffList[1]
         /\ Len(Tail(sendBuffList)) \in Nat
         /\ \A j \in 1..Len(Tail(sendBuffList)) :
              /\ j + 1 \in 1..Len(sendBuffList) /\ 1 < j + 1
              /\ Tail(sendBuffList)[j] = sendBuffList[j + 1]
<1>1. sendBuffList \in Seq(Made)
  BY AnswerTypes
<1>2. /\ Head(sendBuffList) = sendBuffList[1]
      /\ Tail(sendBuffList) \in Seq(Made) /\ Len(Tail(sendBuffList)) = Len(sendBuffList) - 1
      /\ \A j \in 1..Len(Tail(sendBuffList)) : Tail(sendBuffList)[j] = sendBuffList[j + 1]
      /\ Len(sendBuffList) \in Nat \ {0}
  BY <1>1, HeadTailProperties, EmptySeq, LenProperties
<1>3. \A j \in 1..(Len(sendBuffList) - 1) : j + 1 \in 1..Len(sendBuffList) /\ 1 < j + 1
  BY <1>2
<1> QED
  BY <1>2, <1>3

\* doSend counts the whole of the buffer at the head of the queue.
LEMMA GatherFitsKeepsAnswers ==
  ASSUME Rest, AnswerInv, GatherFits
  PROVE  /\ AnswerInv'
         /\ copied'[content[Head(sendBuffList)]] = buffersize[Head(sendBuffList)]
<1> DEFINE b == Head(sendBuffList)
           p == content[b]
<1>1. /\ sendBuffList # <<>> /\ loopPc = "gather"
      /\ CountLast(b, buffersize[b], sendDataLen)
      /\ release(b)
      /\ sendBuffList' = Tail(sendBuffList)
      /\ UNCHANGED <<taken, mainBuffer, prevSendBuf, prevSendOffset>>
  BY DEF GatherFits, mainVars
<1>2. /\ 1 \in 1..Len(sendBuffList) /\ b = sendBuffList[1]
      /\ \A j \in 1..Len(Tail(sendBuffList)) :
           /\ j + 1 \in 1..Len(sendBuffList) /\ 1 < j + 1
           /\ Tail(sendBuffList)[j] = sendBuffList[j + 1]
  BY <1>1, TailFacts
<1>3. /\ b \in Made /\ p \in Serial /\ p \in Nat /\ buffersize[b] \in Nat
      /\ copied \in [Serial -> Nat] /\ answered \in Seq(Serial)
  BY <1>1, HeadOfSendQueue, AnswerTypes
<1>4. prevSendBuf = NoBuffer /\ prevSendBuf' = NoBuffer
  BY <1>1 DEF Rest, HolderOK
<1>5. content' = content
  BY <1>1, <1>3, ReleaseFacts DEF Rest
<1>6. copied' = [copied EXCEPT ![p] = @ + buffersize[b]] /\ answered' = Append(answered, p)
  BY <1>1 DEF CountLast, Count
<1>7. p <= Len(taken) /\ Follows(p) /\ copied[p] = 0
  BY <1>2 DEF AnswerInv, ListInv
<1> HIDE DEF p
<1>8. /\ copied'[p] = buffersize[b]
      /\ \A m \in Serial : m # p => copied'[m] = copied[m]
  BY <1>3, <1>6, <1>7
<1>9. /\ Len(answered') = Len(answered) + 1
      /\ \A i \in 1..Len(answered) : answered'[i] = answered[i]
      /\ answered'[Len(answered) + 1] = p
  BY <1>3, <1>6, AppendFacts
<1>10. AnsweredInv' /\ \A m : Follows(m) /\ p < m => Follows(m)'
  BY <1>1, <1>3, <1>7, <1>8, <1>9, AnsweredGrows DEF AnswerInv
<1>11. ASSUME NEW m \in Serial, m <= Len(taken), Follows(m), copied[m] = 0, p < m
       PROVE  /\ m <= Len(taken') /\ copied'[m] = 0
              /\ \A i \in 1..Len(answered') : answered'[i] < m
  <2>1. m # p
    BY <1>3, <1>11 DEF Serial
  <2> QED
    BY <1>1, <1>8, <1>10, <1>11, <2>1 DEF Follows
<1>12. PrevInv'
  BY <1>4 DEF PrevInv
<1>13. ASSUME NEW j \in 1..Len(Tail(sendBuffList))
       PROVE  /\ content[Tail(sendBuffList)[j]] <= Len(taken')
              /\ copied'[content[Tail(sendBuffList)[j]]] = 0
              /\ \A i \in 1..Len(answered') : answered'[i] < content[Tail(sendBuffList)[j]]
  <2>1. j + 1 \in 1..Len(sendBuffList) /\ 1 < j + 1 /\ Tail(sendBuffList)[j] = sendBuffList[j + 1]
    BY <1>2
  <2> DEFINE m == content[sendBuffList[j + 1]]
  <2>2. m \in Serial
    BY <2>1, AnswerTypes
  <2>3. m <= Len(taken) /\ Follows(m) /\ copied[m] = 0 /\ p < m
    BY <1>2, <2>1 DEF AnswerInv, ListInv, p
  <2> HIDE DEF m
  <2>4. /\ m <= Len(taken') /\ copied'[m] = 0
        /\ \A i \in 1..Len(answered') : answered'[i] < m
    BY <1>11, <2>2, <2>3
  <2> QED
    BY <2>1, <2>4 DEF m
<1>14. \A i, j \in 1..Len(Tail(sendBuffList)) :
         i < j => content[Tail(sendBuffList)[i]] < content[Tail(sendBuffList)[j]]
  <2>1. \A i, j \in 1..Len(sendBuffList) : i < j => content[sendBuffList[i]] < content[sendBuffList[j]]
    BY DEF AnswerInv, ListInv
  <2>2. ASSUME NEW i \in 1..Len(Tail(sendBuffList)), NEW j \in 1..Len(Tail(sendBuffList)), i < j
        PROVE  i + 1 < j + 1
    BY <2>2, <1>1, TailFacts
  <2> QED
    BY <1>2, <2>1, <2>2
<1>15. ListInv'
  BY <1>1, <1>4, <1>5, <1>13, <1>14 DEF ListInv, Follows
<1>16. MainInv'
  <2> SUFFICES ASSUME mainBuffer # NoBuffer PROVE MainInv'
    BY <1>1 DEF MainInv
  <2> DEFINE m == content[mainBuffer]
  <2>1. m \in Serial
    BY AnswerTypes
  <2>2. /\ m <= Len(taken) /\ Follows(m) /\ copied[m] = 0 /\ p < m
        /\ \A i \in 1..Len(sendBuffList) : content[sendBuffList[i]] < m
    BY <1>2 DEF AnswerInv, MainInv, p
  <2> HIDE DEF m
  <2>3. /\ m <= Len(taken') /\ copied'[m] = 0
        /\ \A i \in 1..Len(answered') : answered'[i] < m
    BY <1>11, <2>1, <2>2
  <2>4. \A i \in 1..Len(sendBuffList') : content[sendBuffList'[i]] < m
    BY <1>1, <1>2, <2>2
  <2> QED
    BY <1>1, <1>4, <1>5, <2>3, <2>4 DEF MainInv, m, Follows
<1> QED
  BY <1>8, <1>10, <1>12, <1>15, <1>16 DEF AnswerInv, p

\* doSend counts the first part of the buffer at the head and holds on to it.
LEMMA GatherPartKeepsAnswers ==
  ASSUME Rest, AnswerInv, GatherPart
  PROVE  AnswerInv'
<1> DEFINE b == Head(sendBuffList)
           p == content[b]
           room == SEND_BUF_SIZE - sendDataLen
<1>1. /\ sendBuffList # <<>>
      /\ Count(b, room, sendDataLen)
      /\ prevSendBuf' = b /\ prevSendOffset' = room
      /\ sendBuffList' = Tail(sendBuffList)
      /\ UNCHANGED <<content, taken, mainBuffer, answered>>
  BY DEF GatherPart, poolVars, mainVars
<1>2. /\ 1 \in 1..Len(sendBuffList) /\ b = sendBuffList[1]
      /\ \A j \in 1..Len(Tail(sendBuffList)) :
           /\ j + 1 \in 1..Len(sendBuffList) /\ 1 < j + 1
           /\ Tail(sendBuffList)[j] = sendBuffList[j + 1]
  BY <1>1, TailFacts
<1>3. /\ b \in Made /\ p \in Serial /\ p \in Nat /\ copied \in [Serial -> Nat]
  BY <1>1, HeadOfSendQueue, AnswerTypes
<1>4. room \in Nat
  <2>1. sendDataLen \in 0..SEND_BUF_SIZE
    BY DEF Rest, SendOK
  <2> QED
    BY <2>1, Constants
<1>5. copied' = [copied EXCEPT ![p] = @ + room]
  BY <1>1 DEF Count
<1>6. p <= Len(taken) /\ Follows(p) /\ copied[p] = 0
  BY <1>2 DEF AnswerInv, ListInv
<1> HIDE DEF p, room
<1>7. /\ copied'[p] = room
      /\ \A m \in Serial : m # p => copied'[m] = copied[m]
  BY <1>3, <1>4, <1>5, <1>6
<1>8. \A m \in Serial : p < m => m # p
  BY <1>3
<1>9. AnsweredInv'
  <2>1. \A m \in Serial : m > Len(taken) => m # p
    BY <1>3, <1>6, AnswerTypes
  <2> QED
    BY <1>1, <1>7, <2>1 DEF AnswerInv, AnsweredInv
<1> HIDE DEF b
<1>10. PrevInv'
  BY <1>1, <1>6, <1>7 DEF PrevInv, Follows, p
<1>11. ASSUME NEW j \in 1..Len(Tail(sendBuffList))
       PROVE  /\ content[Tail(sendBuffList)[j]] <= Len(taken)
              /\ Follows(content[Tail(sendBuffList)[j]])
              /\ copied'[content[Tail(sendBuffList)[j]]] = 0
              /\ p < content[Tail(sendBuffList)[j]]
  <2>1. j + 1 \in 1..Len(sendBuffList) /\ 1 < j + 1 /\ Tail(sendBuffList)[j] = sendBuffList[j + 1]
    BY <1>2
  <2> DEFINE m == content[sendBuffList[j + 1]]
  <2>2. m \in Serial
    BY <2>1, AnswerTypes
  <2>3. m <= Len(taken) /\ Follows(m) /\ copied[m] = 0 /\ p < m
    BY <1>2, <2>1 DEF AnswerInv, ListInv, p
  <2> QED
    BY <1>7, <1>8, <2>1, <2>2, <2>3
<1>12. \A i, j \in 1..Len(Tail(sendBuffList)) :
         i < j => content[Tail(sendBuffList)[i]] < content[Tail(sendBuffList)[j]]
  <2>1. \A i, j \in 1..Len(sendBuffList) : i < j => content[sendBuffList[i]] < content[sendBuffList[j]]
    BY DEF AnswerInv, ListInv
  <2>2. ASSUME NEW i \in 1..Len(Tail(sendBuffList)), NEW j \in 1..Len(Tail(sendBuffList)), i < j
        PROVE  i + 1 < j + 1
    BY <2>2, <1>1, TailFacts
  <2> QED
    BY <1>2, <2>1, <2>2
<1>13. ListInv'
  BY <1>1, <1>11, <1>12 DEF ListInv, Follows, p
<1>14. MainInv'
  <2> SUFFICES ASSUME mainBuffer # NoBuffer PROVE MainInv'
    BY <1>1 DEF MainInv
  <2> DEFINE m == content[mainBuffer]
  <2>1. m \in Serial
    BY AnswerTypes
  <2>2. /\ m <= Len(taken) /\ Follows(m) /\ copied[m] = 0 /\ p < m
        /\ \A i \in 1..Len(sendBuffList) : content[sendBuffList[i]] < m
    BY <1>2 DEF AnswerInv, MainInv, p
  <2> HIDE DEF m
  <2>3. copied'[m] = 0
    BY <1>7, <1>8, <2>1, <2>2
  <2>4. \A i \in 1..Len(sendBuffList') : content[sendBuffList'[i]] < m
    BY <1>1, <1>2, <2>2
  <2> QED
    BY <1>1, <2>2, <2>3, <2>4 DEF MainInv, m, Follows, p
<1> QED
  BY <1>9, <1>10, <1>13, <1>14 DEF AnswerInv

\* The session takes its answers with it.
LEMMA RemoveKeepsAnswers ==
  ASSUME Rest, AnswerInv, RemoveSession
  PROVE  AnswerInv'
<1>1. /\ mainPc = "dispatch" /\ sendBuffList' = <<>> /\ prevSendBuf' = NoBuffer
      /\ UNCHANGED <<taken, answered, copied, mainBuffer>>
  BY DEF RemoveSession
<1>2. mainBuffer' = NoBuffer
  BY <1>1 DEF Rest, HolderOK
<1>3. Len(sendBuffList') = 0
  BY <1>1
<1>4. AnsweredInv' /\ PrevInv' /\ MainInv'
  BY <1>1, <1>2 DEF AnswerInv, AnsweredInv, PrevInv, MainInv
<1>5. ListInv'
  BY <1>3 DEF ListInv
<1> QED
  BY <1>4, <1>5 DEF AnswerInv

LEMMA UnansweredKeepsAnswers ==
  ASSUME Rest, AnswerInv, TakenForNew \/ TakenForClose \/ DispatchUnanswered
  PROVE  AnswerInv'
<1>1. /\ mainPc = "dispatch" /\ item # CloseEvent
      /\ taken' = Append(taken, content[item])
      /\ UNCHANGED <<content, answered, copied, prevSendBuf, prevSendOffset, sendBuffList,
                     mainBuffer>>
  BY DEF TakenForNew, TakenForClose, TakenForSession, DispatchUnanswered, IsPacket, poolVars,
         queueVars, sendVars
<1>2. content[item] \in Serial /\ mainBuffer = NoBuffer /\ taken \in Seq(Serial)
  BY <1>1 DEF Rest, EventOK, PoolOK, HolderOK, SendOK
<1>3. taken' \in Seq(Serial) /\ Len(taken') = Len(taken) + 1
  BY <1>1, <1>2, AppendFacts
<1>4. AnsweredInv' /\ PrevInv' /\ ListInv'
  BY <1>1, <1>2, <1>3, HandlingKeepsAnswers
<1>5. MainInv'
  BY <1>1, <1>2 DEF MainInv
<1> QED
  BY <1>4, <1>5 DEF AnswerInv

LEMMA AnswerInvariant ==
  ASSUME Typed, OwnerInv, FlowInv, AnswerInv, [Next]_vars
  PROVE  AnswerInv'
<1>0. Rest
  BY DEF Typed, Rest
<1>1. CASE FillBuffer
  <2>1. PICK b \in Buffer : alloc(b, postRecvBuf[1].serial)
    BY <1>1 DEF FillBuffer
  <2>2. postRecvBuf[1].serial \in Serial
    BY <1>1, PostedSerial DEF FillBuffer, Typed
  <2>3. UNCHANGED <<taken, answered, copied, prevSendBuf, prevSendOffset, sendBuffList,
                    mainBuffer>>
    BY <1>1 DEF FillBuffer, mainVars, queueVars, sendVars
  <2> QED
    BY <1>0, <2>1, <2>2, <2>3, AllocKeepsAnswers, QuietKeepsAnswers
<1>overrun. Overrun => AnswerInv'
  <2> SUFFICES ASSUME Overrun PROVE AnswerInv'
    OBVIOUS
  <2>1. UNCHANGED <<content, taken, answered, copied, prevSendBuf, prevSendOffset,
                    sendBuffList, mainBuffer>>
    BY DEF Overrun, poolVars, mainVars, queueVars, sendVars
  <2> QED
    BY <1>0, <2>1, QuietKeepsAnswers
<1>2. CASE doSend \/ On_WriteData
  <2>1. ResumeFits \/ Overrun
    BY <1>2, BeginCases DEF doSend, On_WriteData
  <2> QED
    BY <1>0, <1>overrun, <2>1, ResumeKeepsAnswers
<1>3. CASE GatherWhole \/ GatherPart
  <2>1. GatherFits \/ Overrun \/ GatherPart
    BY <1>0, <1>3, GatherCases DEF GatherOverruns
  <2> QED
    BY <1>0, <1>overrun, <2>1, GatherFitsKeepsAnswers, GatherPartKeepsAnswers
<1>4. CASE \/ RemoveSession \/ TakenForNew \/ TakenForClose \/ DispatchUnanswered
           \/ MakeAnswer \/ sendBuffer
  BY <1>0, <1>4, RemoveKeepsAnswers, UnansweredKeepsAnswers, MakeKeepsAnswers, PushKeepsAnswers
     DEF FlowInv
<1>5. CASE On_ResultReadData \/ ReadEnds \/ handleRecvPacket \/ PostPacket \/ PostClose
             \/ GatherNothing \/ Write \/ SwapQueues \/ NextPacket \/ SessionNotFound
             \/ ReleasePacket \/ ClearBatch \/ UNCHANGED vars
  <2>1. UNCHANGED <<content, taken, answered, copied, prevSendBuf, prevSendOffset,
                    sendBuffList, mainBuffer>>
    BY <1>5 DEF On_ResultReadData, ReadEnds, handleRecvPacket, PostPacket, PostBuffer,
                PostClose, PostsClose, GatherNothing, Write, SwapQueues, NextPacket,
                SessionNotFound, ReleasePacket, PacketDone, release, ClearBatch, vars, poolVars, mainVars,
                queueVars, sendVars
  <2> QED
    BY <1>0, <2>1, QuietKeepsAnswers
<1> QED
  BY <1>1, <1>2, <1>3, <1>4, <1>5 DEF Next, Receive, Gather, Main

LEMMA AnswerInitially == Init => AnswerInv
<1> SUFFICES ASSUME Init PROVE AnswerInv
  OBVIOUS
<1>1. /\ answered = <<>> /\ sendBuffList = <<>> /\ prevSendBuf = NoBuffer
      /\ mainBuffer = NoBuffer /\ copied = [n \in Serial |-> 0]
  BY DEF Init
<1>2. Len(answered) = 0 /\ Len(sendBuffList) = 0
  BY <1>1
<1> QED
  BY <1>1, <1>2 DEF AnswerInv, AnsweredInv, PrevInv, ListInv, MainInv

LEMMA AnswerHolds ==
  ASSUME ReadsGoOn
  PROVE  Spec => []AnswerInv
<1>1. Typed /\ OwnerInv /\ FlowInv /\ AnswerInv /\ [Next]_vars => AnswerInv'
  BY AnswerInvariant
<1> QED
  BY <1>1, AnswerInitially, TypedInvariant, OwnerHolds, FlowHolds, PTL DEF Spec

\* Answers leave in the order of their requests and none leaves twice, whatever
\* the sizes of the buffers make doSend split.
THEOREM AnswersInOrder ==
  ASSUME ReadsGoOn
  PROVE  Spec => []AnsweredInOrder
<1>1. Typed /\ AnswerInv => AnsweredInOrder
  <2> SUFFICES ASSUME Typed, AnswerInv PROVE AnsweredInOrder
    OBVIOUS
  <2>1. DOMAIN answered = 1..Len(answered)
    BY LenProperties DEF Typed, SendOK
  <2> QED
    BY <2>1 DEF AnsweredInOrder, AnswerInv, AnsweredInv
<1> QED
  BY <1>1, TypedInvariant, AnswerHolds, PTL

\* The loop thread has overrun sendBuf only if a buffer is longer than that.
OverrunInv == loopPc = "overrun" => \E b \in Made : buffersize[b] > SEND_BUF_SIZE

LEMMA OverrunInvariant ==
  ASSUME Typed, OverrunInv, [Next]_vars
  PROVE  OverrunInv'
<1>1. Rest /\ PoolOK
  BY DEF Typed, Rest
<1>2. Made \subseteq Made' /\ \A c \in Made : buffersize'[c] = buffersize[c]
  <2>1. ASSUME NEW b \in Buffer, NEW n \in Serial, alloc(b, n)
        PROVE  Made \subseteq Made' /\ \A c \in Made : buffersize'[c] = buffersize[c]
    BY <1>1, <2>1, AllocFacts
  <2>2. CASE FillBuffer
    BY <1>1, <2>1, <2>2, PostedSerial DEF FillBuffer, Typed
  <2>3. CASE MakeAnswer
    <3>1. mainPc = "dispatch" /\ item # CloseEvent
      BY <2>3 DEF MakeAnswer, IsPacket
    <3>2. content[item] \in Serial
      BY <1>1, <3>1 DEF Rest, EventOK, PoolOK
    <3> QED
      BY <2>1, <2>3, <3>2 DEF MakeAnswer
  <2>4. CASE \/ On_ResultReadData \/ ReadEnds \/ handleRecvPacket \/ PostPacket \/ PostClose
             \/ GatherPart \/ GatherNothing \/ Write \/ UNCHANGED vars
    <3>1. UNCHANGED <<made, buffersize>>
      BY <2>4 DEF On_ResultReadData, ReadEnds, handleRecvPacket, PostPacket, PostBuffer,
                  PostClose, PostsClose, GatherPart, GatherNothing, Write, poolVars, vars
    <3> QED
      BY <3>1 DEF Made
  <2>5. CASE doSend \/ On_WriteData \/ GatherWhole
    <3>1. ResumeFits \/ Overrun \/ GatherFits
      BY <1>1, <2>5, BeginCases, GatherCases DEF doSend, On_WriteData, GatherOverruns
    <3>2. UNCHANGED <<made, buffersize>>
      BY <3>1 DEF ResumeFits, ResumeWith, Overrun, GatherFits, release, Pool!releaseBuffer,
                  poolVars
    <3> QED
      BY <3>2 DEF Made
  <2>6. CASE Main /\ ~ MakeAnswer
    <3>1. UNCHANGED <<made, buffersize>>
      BY <2>6 DEF Main, SwapQueues, NextPacket, RemoveSession, SessionNotFound, TakenForNew,
                  TakenForClose, TakenForSession, DispatchUnanswered, sendBuffer, PushAnswer,
                  ReleasePacket, PacketDone, release, Pool!releaseBuffer, ClearBatch, poolVars
    <3> QED
      BY <3>1 DEF Made
  <2> QED
    BY <2>2, <2>3, <2>4, <2>5, <2>6 DEF Next, Receive, Gather
<1>3. CASE loopPc = "overrun"
  <2>1. PICK b \in Made : buffersize[b] > SEND_BUF_SIZE
    BY <1>3 DEF OverrunInv
  <2>2. b \in Made' /\ buffersize'[b] > SEND_BUF_SIZE
    BY <1>2, <2>1
  <2> QED
    BY <2>2 DEF OverrunInv
<1>4. CASE loopPc # "overrun" /\ (doSend \/ On_WriteData \/ GatherWhole)
  <2>1. \/ (ResumeFits \/ GatherFits) /\ loopPc' # "overrun"
        \/ /\ Overrun /\ prevSendBuf # NoBuffer
           /\ buffersize[prevSendBuf] - prevSendOffset > SEND_BUF_SIZE
        \/ GatherOverruns
    BY <1>1, <1>4, BeginCases, GatherCases
       DEF doSend, On_WriteData, ResumeFits, ResumeWith, GatherFits
  <2>2. CASE Overrun /\ prevSendBuf # NoBuffer
               /\ buffersize[prevSendBuf] - prevSendOffset > SEND_BUF_SIZE
    <3>1. prevSendBuf \in Made /\ buffersize[prevSendBuf] \in Nat /\ prevSendOffset \in Nat
      BY <1>1, <2>2, Constants DEF Typed, HolderOK, PoolOK, SendOK
    <3>2. buffersize[prevSendBuf] > SEND_BUF_SIZE
      BY <2>2, <3>1, Constants
    <3>3. prevSendBuf \in Made' /\ buffersize'[prevSendBuf] > SEND_BUF_SIZE
      BY <1>2, <3>1, <3>2
    <3> QED
      BY <3>3 DEF OverrunInv
  <2>3. CASE GatherOverruns
    <3>1. Head(sendBuffList) \in Made /\ buffersize[Head(sendBuffList)] > SEND_BUF_SIZE
      BY <1>1, <2>3, HeadOfSendQueue DEF GatherOverruns
    <3>2. /\ Head(sendBuffList) \in Made'
          /\ buffersize'[Head(sendBuffList)] > SEND_BUF_SIZE
      BY <1>2, <3>1
    <3> DEFINE b == Head(sendBuffList)
    <3> HIDE DEF b
    <3>3. b \in Made' /\ buffersize'[b] > SEND_BUF_SIZE
      BY <3>2 DEF b
    <3> QED
      BY <3>3 DEF OverrunInv
  <2> QED
    BY <2>1, <2>2, <2>3 DEF OverrunInv
<1>5. CASE loopPc # "overrun" /\ ~ (doSend \/ On_WriteData \/ GatherWhole)
  <2>1. loopPc' # "overrun"
    BY <1>5 DEF Next, Receive, Gather, Main, On_ResultReadData, ReadEnds, handleRecvPacket,
                FillBuffer, PostPacket, PostBuffer, PostClose, PostsClose, GatherPart,
                GatherNothing, Write, SwapQueues, NextPacket, RemoveSession, SessionNotFound,
                TakenForNew, TakenForClose, TakenForSession, DispatchUnanswered, MakeAnswer,
                sendBuffer, PushAnswer, ReleasePacket, PacketDone, ClearBatch, vars
  <2> QED
    BY <2>1 DEF OverrunInv
<1> QED
  BY <1>3, <1>4, <1>5

LEMMA OverrunHolds == Spec => []OverrunInv
<1>1. Init => OverrunInv
  BY DEF Init, OverrunInv
<1>2. Typed /\ OverrunInv /\ [Next]_vars => OverrunInv'
  BY OverrunInvariant
<1> QED
  BY <1>1, <1>2, TypedInvariant, PTL DEF Spec

\* doSend writes behind sendBuf only when one buffer alone is longer than it, not by
\* gathering several, although it adds their lengths as UINT32s; and prevSendOffset
\* is what was counted of the buffer that did not fit.
THEOREM SendBufferFits ==
  ASSUME ReadsGoOn
  PROVE  Spec => []SendBufFits
<1>1. Typed /\ AnswerInv /\ OverrunInv => SendBufFits
  BY Constants DEF Typed, SendOK, AnswerInv, PrevInv, OverrunInv, Made, SendBufFits
<1> QED
  BY <1>1, TypedInvariant, AnswerHolds, OverrunHolds, PTL

\* Who waits to be sent is not in the pool.
LEMMA WaitingFacts ==
  ASSUME Typed, OwnerInv, NEW b \in ToSet(sendBuffList \o Held(prevSendBuf))
  PROVE  /\ b \in ToSet(sendBuffList) \/ (b = prevSendBuf /\ prevSendBuf # NoBuffer)
         /\ b \notin ToSet(bufferpool) /\ b \notin InHand
<1>1. sendBuffList \in Seq(Made) /\ prevSendBuf \in Made \cup {NoBuffer}
  BY DEF Typed, HolderOK
<1>2. Held(prevSendBuf) \in Seq(Made) /\ ToSet(Held(prevSendBuf)) = One(prevSendBuf)
  BY <1>1, HeldFacts
<1>3. b \in ToSet(sendBuffList) \/ b \in One(prevSendBuf)
  BY <1>1, <1>2, RangeOfConcat
<1>4. Owned(Places, Made)
  BY DEF OwnerInv
<1>5. b \in Places[7] \/ b \in Places[8]
  BY <1>3, PlacesAre
<1>6. b \notin Places[1] /\ b \notin Places[5]
  BY <1>4, <1>5 DEF Owned
<1>7. b \in One(prevSendBuf) => b = prevSendBuf /\ prevSendBuf # NoBuffer
  BY DEF One
<1>8. b \notin ToSet(bufferpool) /\ b \notin InHand
  BY <1>6, PlacesAre
<1> QED
  BY <1>3, <1>7, <1>8

\* What comes into the pool when a buffer is released, and taken out.
LEMMA PoolGrows ==
  ASSUME PoolOK, NEW c \in Made, release(c)
  PROVE  \A b \in ToSet(bufferpool') : b \in ToSet(bufferpool) \/ b = c
<1>1. bufferpool' = <<c>> \o bufferpool /\ bufferpool \in Seq(Made)
  BY ReleaseFacts DEF PoolOK
<1>2. ToSet(bufferpool') = ToSet(bufferpool) \cup {c}
  BY <1>1, PrependFacts
<1> QED
  BY <1>2

LEMMA PoolShrinks ==
  ASSUME PoolOK, NEW c \in Buffer, NEW n \in Serial, alloc(c, n)
  PROVE  \A b \in ToSet(bufferpool') : b \in ToSet(bufferpool)
<1>1. /\ \/ bufferpool # <<>> /\ bufferpool' = Tail(bufferpool)
         \/ bufferpool' = bufferpool
      /\ bufferpool \in Seq(Made)
  BY AllocFacts DEF PoolOK
<1>2. CASE bufferpool # <<>> /\ bufferpool' = Tail(bufferpool)
  BY <1>1, <1>2, RangeOfTail
<1> QED
  BY <1>1, <1>2

\* Nothing of an answer is lost or sent twice: its buffer comes back to the pool
\* with the step of doSend that has counted the last of its units, wherever the
\* end of sendBuf cut it.
THEOREM AnswersAreWhole ==
  ASSUME ReadsGoOn
  PROVE  Spec => AnswersWhole
<1> DEFINE Whole ==
      \A b \in ToSet(sendBuffList \o Held(prevSendBuf)) :
        b \in ToSet(bufferpool') => copied'[content[b]] = buffersize[b]
<1>1. ASSUME Typed, OwnerInv, AnswerInv, [Next]_vars
      PROVE  Whole
  <2> SUFFICES ASSUME NEW b \in ToSet(sendBuffList \o Held(prevSendBuf)), b \in ToSet(bufferpool')
               PROVE  copied'[content[b]] = buffersize[b]
    OBVIOUS
  <2>1. /\ b \in ToSet(sendBuffList) \/ (b = prevSendBuf /\ prevSendBuf # NoBuffer)
        /\ b \notin ToSet(bufferpool) /\ b \notin InHand
    BY <1>1, WaitingFacts
  <2>2. PoolOK /\ ReceiveOK /\ Rest
    BY <1>1 DEF Typed, Rest
  <2>3. CASE FillBuffer
    <3>1. PICK c \in Buffer : alloc(c, postRecvBuf[1].serial)
      BY <2>3 DEF FillBuffer
    <3>2. postRecvBuf[1].serial \in Serial
      BY <2>2, <2>3, PostedSerial DEF FillBuffer
    <3> QED
      BY <2>1, <2>2, <3>1, <3>2, PoolShrinks
  <2>4. CASE MakeAnswer
    <3>1. PICK c \in Buffer : alloc(c, content[item])
      BY <2>4 DEF MakeAnswer
    <3>2. content[item] \in Serial
      BY <2>2, <2>4 DEF MakeAnswer, IsPacket, Rest, EventOK, PoolOK
    <3> QED
      BY <2>1, <2>2, <3>1, <3>2, PoolShrinks
  <2>5. CASE ReleasePacket
    <3>1. release(item) /\ mainPc = "release" /\ item \in Made
      BY <2>2, <2>5 DEF ReleasePacket, PacketDone, Rest, EventOK
    <3>2. item \in InHand
      BY <3>1 DEF InHand
    <3> QED
      BY <2>1, <2>2, <3>1, <3>2, PoolGrows
  <2>overrun. CASE Overrun
    BY <2>1, <2>overrun DEF Overrun, poolVars
  <2>6. CASE doSend \/ On_WriteData
    <3>1. ResumeFits \/ Overrun
      BY <2>6, BeginCases DEF doSend, On_WriteData
    <3>2. CASE ResumeFits
      <4>1. prevSendBuf # NoBuffer => copied'[content[prevSendBuf]] = buffersize[prevSendBuf]
        BY <1>1, <2>2, <3>2, ResumeKeepsAnswers
      <4>2. prevSendBuf # NoBuffer => release(prevSendBuf) /\ prevSendBuf \in Made
        BY <2>2, <3>2 DEF ResumeFits, ResumeWith, Rest, HolderOK
      <4>3. prevSendBuf = NoBuffer => bufferpool' = bufferpool
        BY <3>2 DEF ResumeFits, ResumeWith, poolVars
      <4> QED
        BY <2>1, <2>2, <4>1, <4>2, <4>3, PoolGrows
    <3> QED
      BY <2>overrun, <3>1, <3>2
  <2>7. CASE GatherWhole
    <3>1. GatherFits \/ Overrun
      BY <2>2, <2>7, GatherCases DEF GatherOverruns
    <3>2. CASE GatherFits
      <4>1. release(Head(sendBuffList)) /\ Head(sendBuffList) \in Made
        BY <2>2, <3>2, HeadOfSendQueue DEF GatherFits
      <4>2. copied'[content[Head(sendBuffList)]] = buffersize[Head(sendBuffList)]
        BY <1>1, <2>2, <3>2, GatherFitsKeepsAnswers
      <4> QED
        BY <2>1, <2>2, <4>1, <4>2, PoolGrows
    <3> QED
      BY <2>overrun, <3>1, <3>2
  <2>8. CASE On_ResultReadData \/ ReadEnds \/ handleRecvPacket \/ PostPacket \/ PostClose
               \/ GatherPart \/ GatherNothing \/ Write
    <3>1. UNCHANGED poolVars
      BY <2>8 DEF On_ResultReadData, ReadEnds, handleRecvPacket, PostPacket, PostBuffer,
                  PostClose, PostsClose, GatherPart, GatherNothing, Write
    <3> QED
      BY <2>1, <3>1 DEF poolVars
  <2>9. CASE SwapQueues \/ NextPacket \/ RemoveSession \/ SessionNotFound \/ TakenForNew
               \/ TakenForClose \/ DispatchUnanswered \/ sendBuffer \/ ClearBatch
               \/ UNCHANGED vars
    <3>1. UNCHANGED poolVars
      BY <2>9 DEF SwapQueues, NextPacket, RemoveSession, SessionNotFound, TakenForNew,
                  TakenForClose, TakenForSession, DispatchUnanswered, sendBuffer, PushAnswer,
                  ClearBatch, vars
    <3> QED
      BY <2>1, <3>1 DEF poolVars
  <2> QED
    BY <1>1, <2>3, <2>4, <2>5, <2>6, <2>7, <2>8, <2>9 DEF Next, Receive, Gather, Main
<1>2. Typed /\ OwnerInv /\ AnswerInv /\ [Next]_vars => [Whole]_vars
  BY <1>1
<1> QED
  BY <1>2, TypedInvariant, OwnerHolds, AnswerHolds, PTL DEF Spec, AnswersWhole

-----------------------------------------------------------------------------
(* The path implements Exchange.  What is on its way to the handler had a  *)
(* valid header, what is on its way back answers a request, and nothing is *)
(* on its way back from a session that is gone.                            *)

Valid(b) == b # CloseEvent => packets[content[b]].signature = "client"

ValidInv ==
  /\ mainPc = "dispatch" => Valid(item)
  /\ \A i \in 1..Len(batch) : Valid(batch[i])
  /\ \A i \in 1..Len(pending) : Valid(pending[i])
  /\ loopPc = "post" => packets[content[loopBuffer]].signature = "client"

AskedInv ==
  /\ \A i \in 1..Len(sendBuffList) : IsRequest(content[sendBuffList[i]])
  /\ prevSendBuf # NoBuffer => IsRequest(content[prevSendBuf])
  /\ mainBuffer # NoBuffer => IsRequest(content[mainBuffer])

GoneInv == session = "deleted" => sendBuffList = <<>> /\ prevSendBuf = NoBuffer

LEMMA QuietKeepsValid ==
  ASSUME ValidInv, UNCHANGED <<packets, content, batch, pending>>,
         mainPc' = "dispatch" => mainPc = "dispatch" /\ item' = item,
         loopPc' = "post" => loopPc = "post" /\ loopBuffer' = loopBuffer
  PROVE  ValidInv'
BY DEF ValidInv, Valid

LEMMA FillKeepsValid ==
  ASSUME Typed, StreamInv, CloseInv, OwnerInv, FlowInv, ValidInv, FillBuffer
  PROVE  ValidInv'
<1>1. PICK b \in Buffer : alloc(b, postRecvBuf[1].serial) /\ loopBuffer' = b
  BY DEF FillBuffer
<1>2. /\ loopPc = "alloc" /\ loopPc' = "post"
      /\ UNCHANGED <<packets, batch, pending, item, mainPc>>
  BY DEF FillBuffer, recvVars, clientVars, eventVars, mainVars
<1>3. session = "open" /\ Framed
  BY <1>2 DEF CloseInv, FlowInv, FramingInv, Typed, SendOK
<1>4. /\ packets[postRecvBuf[1].serial].signature = "client"
      /\ postRecvBuf[1].serial \in Serial
  BY <1>2, <1>3, WholePacket DEF Typed
<1>5. PoolOK /\ EventOK
  BY DEF Typed
<1>6. /\ \A i \in 1..Len(batch) : batch[i] # CloseEvent => content'[batch[i]] = content[batch[i]]
      /\ \A i \in 1..Len(pending) :
           pending[i] # CloseEvent => content'[pending[i]] = content[pending[i]]
      /\ mainPc # "update" /\ item # CloseEvent => content'[item] = content[item]
      /\ content'[b] = postRecvBuf[1].serial
  BY <1>1, <1>4, <1>5, AllocKeepsContent
<1>7. mainPc' = "dispatch" => Valid(item)'
  BY <1>2, <1>6 DEF ValidInv, Valid
<1>8. \A i \in 1..Len(batch') : Valid(batch[i])'
  BY <1>2, <1>6 DEF ValidInv, Valid
<1>9. \A i \in 1..Len(pending') : Valid(pending[i])'
  BY <1>2, <1>6 DEF ValidInv, Valid
<1>10. packets'[content'[loopBuffer']].signature = "client"
  BY <1>1, <1>2, <1>4, <1>6
<1> QED
  BY <1>2, <1>7, <1>8, <1>9, <1>10 DEF ValidInv, Valid

LEMMA PostKeepsValid ==
  ASSUME EventOK, ValidInv, NEW e \in Made \cup {CloseEvent}, Valid(e),
         pending' = Append(pending, e), loopPc' # "post",
         UNCHANGED <<packets, content, batch, item, mainPc>>
  PROVE  ValidInv'
<1> DEFINE S == Made \cup {CloseEvent}
<1>1. pending \in Seq(S) /\ e \in S
  BY DEF EventOK
<1> HIDE DEF S
<1>2. /\ Len(pending') = Len(pending) + 1 /\ Len(pending) \in Nat
      /\ \A i \in 1..Len(pending) : pending'[i] = pending[i]
      /\ pending'[Len(pending) + 1] = e
  BY <1>1, AppendFacts, LenProperties
<1>3. \A i \in 1..Len(pending') : i \in 1..Len(pending) \/ i = Len(pending) + 1
  BY <1>2
<1>4. \A i \in 1..Len(pending') : Valid(pending'[i])
  BY <1>2, <1>3 DEF ValidInv
<1> QED
  BY <1>4 DEF ValidInv, Valid

LEMMA MainKeepsValid ==
  ASSUME Typed, OwnerInv, ValidInv, SwapQueues \/ NextPacket \/ MakeAnswer
  PROVE  ValidInv'
<1>1. CASE SwapQueues
  <2>1. /\ batch' = pending /\ pending' = <<>> /\ mainPc = "update"
        /\ UNCHANGED <<packets, content, mainPc, loopPc, loopBuffer>>
    BY <1>1 DEF SwapQueues, Events!TakeBatch, recvVars, clientVars, poolVars, mainVars
  <2>2. Len(pending') = 0
    BY <2>1
  <2> QED
    BY <2>1, <2>2 DEF ValidInv, Valid
<1>2. CASE NextPacket
  <2>1. /\ batch # <<>> /\ item' = Head(batch) /\ batch' = Tail(batch)
        /\ UNCHANGED <<packets, content, pending, loopPc, loopBuffer>>
    BY <1>2 DEF NextPacket, Events!NextItem, recvVars, clientVars, poolVars
  <2>2. /\ 1 \in 1..Len(batch) /\ item' = batch[1]
        /\ \A i \in 1..Len(batch') : i + 1 \in 1..Len(batch) /\ batch'[i] = batch[i + 1]
    <3>1. batch \in Seq(Made \cup {CloseEvent})
      BY DEF Typed, EventOK
    <3>2. /\ Len(batch) \in Nat \ {0} /\ Head(batch) = batch[1]
          /\ Len(Tail(batch)) = Len(batch) - 1
          /\ \A i \in 1..Len(Tail(batch)) : Tail(batch)[i] = batch[i + 1]
      BY <2>1, <3>1, HeadTailProperties, EmptySeq, LenProperties
    <3>3. \A i \in 1..Len(batch) - 1 : i + 1 \in 1..Len(batch)
      BY <3>2
    <3> QED
      BY <2>1, <3>2, <3>3
  <2>3. Valid(item') /\ \A i \in 1..Len(batch') : Valid(batch'[i])
    BY <2>2 DEF ValidInv
  <2> QED
    BY <2>1, <2>3 DEF ValidInv, Valid
<1>3. CASE MakeAnswer
  <2>1. PICK b \in Buffer : alloc(b, content[item])
    BY <1>3 DEF MakeAnswer
  <2>2. /\ mainPc' = "push" /\ item # CloseEvent /\ mainPc = "dispatch"
        /\ UNCHANGED <<packets, batch, pending, item, loopPc, loopBuffer>>
    BY <1>3 DEF MakeAnswer, IsPacket, recvVars, clientVars, eventVars
  <2>3. content[item] \in Serial /\ PoolOK /\ EventOK
    BY <2>2 DEF Typed, EventOK, PoolOK
  <2>4. /\ \A i \in 1..Len(batch) : batch[i] # CloseEvent => content'[batch[i]] = content[batch[i]]
        /\ \A i \in 1..Len(pending) :
             pending[i] # CloseEvent => content'[pending[i]] = content[pending[i]]
    BY <2>1, <2>3, AllocKeepsContent
  <2>5. loopPc = "post" => content'[loopBuffer] = content[loopBuffer]
    <3>1. /\ \A k \in 2..9 : b \notin Places[k]
          /\ \A c \in Buffer : c # b => content'[c] = content[c]
      BY <2>1, <2>3, AllocIsFresh
    <3>2. loopPc = "post" => loopBuffer # b /\ loopBuffer \in Made
      BY <3>1, PlacesAre DEF One, Typed, HolderOK
    <3> QED
      BY <2>3, <3>1, <3>2, NobodyIsNoBuffer
  <2> QED
    BY <2>2, <2>4, <2>5 DEF ValidInv, Valid
<1> QED
  BY <1>1, <1>2, <1>3

LEMMA ValidInvariant ==
  ASSUME Typed, StreamInv, CloseInv, OwnerInv, FlowInv, ValidInv, [Next]_vars
  PROVE  ValidInv'
<1>1. CASE FillBuffer
  BY <1>1, FillKeepsValid
<1>2. CASE PostPacket
  <2>1. /\ loopPc = "post" /\ pending' = Append(pending, loopBuffer) /\ loopPc' # "post"
        /\ UNCHANGED <<packets, content, batch, item, mainPc>>
    BY <1>2 DEF PostPacket, PostBuffer, Events!Post, clientVars, poolVars, mainVars
  <2>2. loopBuffer \in Made /\ Valid(loopBuffer) /\ EventOK
    BY <2>1 DEF Typed, HolderOK, ValidInv, Valid
  <2> QED
    BY <2>1, <2>2, PostKeepsValid
<1>3. CASE PostClose
  <2>1. /\ pending' = Append(pending, CloseEvent) /\ loopPc' = "poll"
        /\ UNCHANGED <<batch, item, recvVars, poolVars, mainVars>>
    BY <1>3 DEF PostClose, PostsClose, Events!Post
  <2>2. Valid(CloseEvent) /\ EventOK
    BY DEF Typed, Valid
  <2>3. UNCHANGED <<packets, content, mainPc>>
    BY <2>1 DEF recvVars, clientVars, poolVars, mainVars
  <2> QED
    BY <2>1, <2>2, <2>3, PostKeepsValid
<1>4. CASE SwapQueues \/ NextPacket \/ MakeAnswer
  BY <1>4, MainKeepsValid
<1>5. CASE On_ResultReadData \/ ReadEnds \/ handleRecvPacket
  <2>1. /\ UNCHANGED <<clientVars, content, eventVars, mainVars, loopBuffer>>
        /\ loopPc' # "post"
    BY <1>5 DEF On_ResultReadData, ReadEnds, handleRecvPacket, poolVars
  <2> QED
    BY <2>1, QuietKeepsValid DEF clientVars, eventVars, mainVars
<1>6. CASE doSend \/ On_WriteData \/ Gather
  <2>1. UNCHANGED <<recvVars, content, eventVars, mainVars, loopBuffer>>
    BY <1>6 DEF doSend, On_WriteData, BeginSend, Resume, ResumeWith, Overrun, Gather,
                GatherWhole, GatherBelow, GatherPart, GatherNothing, Write, poolVars, release
  <2>2. loopPc' # "post"
    BY <1>6 DEF doSend, On_WriteData, BeginSend, Resume, ResumeWith, Overrun, Gather,
                GatherWhole, GatherBelow, GatherPart, GatherNothing, Write
  <2> QED
    BY <2>1, <2>2, QuietKeepsValid DEF recvVars, clientVars, eventVars, mainVars
<1>7. CASE RemoveSession \/ SessionNotFound \/ TakenForNew \/ TakenForClose
             \/ DispatchUnanswered \/ sendBuffer \/ ReleasePacket \/ ClearBatch
             \/ UNCHANGED vars
  <2>1. /\ UNCHANGED <<packets, content, batch, pending, loopPc, loopBuffer>>
        /\ mainPc' = "dispatch" => mainPc = "dispatch" /\ item' = item
    <3>1. mainPc = "update" => ClearBatch \/ UNCHANGED vars
      BY <1>7 DEF RemoveSession, SessionNotFound, TakenForNew, TakenForClose, TakenForSession,
                  DispatchUnanswered, sendBuffer, PushAnswer, ReleasePacket, PacketDone
    <3> QED
      BY <1>7 DEF RemoveSession, SessionNotFound, TakenForNew, TakenForClose, TakenForSession,
                  DispatchUnanswered, sendBuffer, PushAnswer, ReleasePacket, PacketDone, release,
                  ClearBatch, Events!EndBatch, vars, recvVars, clientVars, poolVars, eventVars,
                  mainVars
  <2> QED
    BY <2>1, QuietKeepsValid
<1> QED
  BY <1>1, <1>2, <1>3, <1>4, <1>5, <1>6, <1>7 DEF Next, Receive, Main

LEMMA ValidHolds ==
  ASSUME ReadsGoOn
  PROVE  Spec => []ValidInv
<1>1. Init => ValidInv
  <2> SUFFICES ASSUME Init PROVE ValidInv
    OBVIOUS
  <2>1. batch = <<>> /\ pending = <<>> /\ mainPc = "update" /\ loopPc = "poll"
    BY DEF Init, Events!Init
  <2>2. Len(batch) = 0 /\ Len(pending) = 0
    BY <2>1
  <2> QED
    BY <2>1, <2>2 DEF ValidInv
<1>2. Typed /\ StreamInv /\ CloseInv /\ OwnerInv /\ FlowInv /\ ValidInv /\ [Next]_vars => ValidInv'
  BY ValidInvariant
<1> QED
  BY <1>1, <1>2, TypedInvariant, StreamHolds, CloseHolds, OwnerHolds, FlowHolds, PTL DEF Spec

\* Everything that leaves the answers where they are, or takes the head of the
\* queue, keeps their requests.
LEMMA QuietKeepsAsked ==
  ASSUME AskedInv, UNCHANGED <<packets, sendBuffList>>,
         prevSendBuf' \in {prevSendBuf, NoBuffer}, mainBuffer' \in {mainBuffer, NoBuffer},
         prevSendBuf # NoBuffer => content'[prevSendBuf] = content[prevSendBuf],
         mainBuffer # NoBuffer => content'[mainBuffer] = content[mainBuffer],
         \A i \in 1..Len(sendBuffList) : content'[sendBuffList[i]] = content[sendBuffList[i]]
  PROVE  AskedInv'
BY DEF AskedInv, IsRequest, msgID

LEMMA GatherKeepsAsked ==
  ASSUME Typed, AskedInv, GatherFits \/ GatherPart
  PROVE  AskedInv'
<1>1. /\ sendBuffList # <<>> /\ sendBuffList' = Tail(sendBuffList)
      /\ prevSendBuf' \in {prevSendBuf, Head(sendBuffList)}
      /\ UNCHANGED <<packets, content, mainBuffer>>
  <2>1. CASE GatherFits
    BY <2>1 DEF GatherFits, release, recvVars, clientVars, mainVars
  <2>2. CASE GatherPart
    BY <2>2 DEF GatherPart, recvVars, clientVars, poolVars, mainVars
  <2> QED
    BY <2>1, <2>2
<1>2. /\ 1 \in 1..Len(sendBuffList) /\ Head(sendBuffList) = sendBuffList[1]
      /\ \A j \in 1..Len(Tail(sendBuffList)) :
           /\ j + 1 \in 1..Len(sendBuffList)
           /\ Tail(sendBuffList)[j] = sendBuffList[j + 1]
  BY <1>1, TailFacts DEF Typed, Rest
<1>3. \A j \in 1..Len(sendBuffList') : IsRequest(content[sendBuffList'[j]])
  BY <1>1, <1>2 DEF AskedInv
<1>4. prevSendBuf' # NoBuffer => IsRequest(content[prevSendBuf'])
  BY <1>1, <1>2 DEF AskedInv
<1> QED
  BY <1>1, <1>3, <1>4 DEF AskedInv, IsRequest, msgID

LEMMA PushKeepsAsked ==
  ASSUME Typed, AskedInv, sendBuffer
  PROVE  AskedInv'
<1>1. /\ mainPc = "push" /\ mainBuffer' = NoBuffer
      /\ \/ sendBuffList' = Append(sendBuffList, mainBuffer)
         \/ sendBuffList' = sendBuffList
      /\ UNCHANGED <<packets, content, prevSendBuf>>
  BY DEF sendBuffer, PushAnswer, recvVars, clientVars, poolVars, sendVars
<1>2. sendBuffList \in Seq(Made) /\ mainBuffer \in Made /\ mainBuffer # NoBuffer
  BY <1>1 DEF Typed, HolderOK
<1>3. CASE sendBuffList' = Append(sendBuffList, mainBuffer)
  <2>1. /\ Len(sendBuffList') = Len(sendBuffList) + 1 /\ Len(sendBuffList) \in Nat
        /\ \A i \in 1..Len(sendBuffList) : sendBuffList'[i] = sendBuffList[i]
        /\ sendBuffList'[Len(sendBuffList) + 1] = mainBuffer
    BY <1>2, <1>3, AppendFacts, LenProperties
  <2>2. \A i \in 1..Len(sendBuffList') : i \in 1..Len(sendBuffList) \/ i = Len(sendBuffList) + 1
    BY <2>1
  <2>3. \A i \in 1..Len(sendBuffList') : IsRequest(content[sendBuffList'[i]])
    BY <1>2, <2>1, <2>2 DEF AskedInv
  <2> QED
    BY <1>1, <2>3 DEF AskedInv, IsRequest, msgID
<1>4. CASE sendBuffList' = sendBuffList
  BY <1>1, <1>4, QuietKeepsAsked
<1> QED
  BY <1>1, <1>3, <1>4

LEMMA AllocKeepsAsked ==
  ASSUME Typed, OwnerInv, AskedInv, FillBuffer \/ MakeAnswer
  PROVE  AskedInv'
<1>1. PoolOK /\ ReceiveOK /\ Rest
  BY DEF Typed, Rest
<1>2. CASE FillBuffer
  <2>1. PICK b \in Buffer : alloc(b, postRecvBuf[1].serial)
    BY <1>2 DEF FillBuffer
  <2>2. postRecvBuf[1].serial \in Serial
    BY <1>1, <1>2, PostedSerial DEF FillBuffer
  <2>3. UNCHANGED <<packets, sendBuffList, prevSendBuf, mainBuffer>>
    BY <1>2 DEF FillBuffer, recvVars, clientVars, mainVars, queueVars, sendVars
  <2> QED
    BY <1>1, <2>1, <2>2, <2>3, AllocKeepsAnswers, QuietKeepsAsked
<1>3. CASE MakeAnswer
  <2>1. PICK b \in Buffer : alloc(b, content[item]) /\ mainBuffer' = b
    BY <1>3 DEF MakeAnswer
  <2>2. /\ IsRequest(content[item]) /\ content[item] \in Serial
        /\ UNCHANGED <<packets, sendBuffList, prevSendBuf>>
    BY <1>1, <1>3 DEF MakeAnswer, IsPacket, Answerable, Rest, EventOK, PoolOK, recvVars,
                      clientVars, queueVars, sendVars
  <2>3. /\ prevSendBuf # NoBuffer => content'[prevSendBuf] = content[prevSendBuf]
        /\ \A i \in 1..Len(sendBuffList) : content'[sendBuffList[i]] = content[sendBuffList[i]]
    BY <1>1, <2>1, <2>2, AllocKeepsAnswers
  <2>4. content'[b] = content[item]
    BY <1>1, <2>1, <2>2, AllocIsFresh
  <2> QED
    BY <2>1, <2>2, <2>3, <2>4 DEF AskedInv, IsRequest, msgID
<1> QED
  BY <1>2, <1>3

LEMMA AskedInvariant ==
  ASSUME Typed, OwnerInv, AskedInv, [Next]_vars
  PROVE  AskedInv'
<1>1. CASE FillBuffer \/ MakeAnswer
  BY <1>1, AllocKeepsAsked
<1>overrun. CASE Overrun
  <2>1. UNCHANGED <<packets, content, sendBuffList, prevSendBuf, mainBuffer>>
    BY <1>overrun DEF Overrun, recvVars, clientVars, poolVars, mainVars, queueVars, sendVars
  <2> QED
    BY <2>1, QuietKeepsAsked
<1>2. CASE GatherWhole \/ GatherPart
  <2>1. GatherFits \/ GatherPart \/ Overrun
    BY <1>2, GatherCases DEF Typed, Rest, GatherOverruns
  <2> QED
    BY <1>overrun, <2>1, GatherKeepsAsked
<1>3. CASE sendBuffer
  BY <1>3, PushKeepsAsked
<1>4. CASE RemoveSession
  <2>1. /\ sendBuffList' = <<>> /\ prevSendBuf' = NoBuffer
        /\ UNCHANGED <<packets, content, mainBuffer>>
    BY <1>4 DEF RemoveSession, recvVars, clientVars, poolVars
  <2>2. Len(sendBuffList') = 0
    BY <2>1
  <2> QED
    BY <2>1, <2>2 DEF AskedInv, IsRequest, msgID
<1>5. CASE On_ResultReadData \/ ReadEnds \/ handleRecvPacket \/ PostPacket \/ PostClose
             \/ GatherNothing \/ Write \/ doSend \/ On_WriteData
  <2>1. UNCHANGED <<clientVars, content, mainVars, queueVars>>
    BY <1>5 DEF On_ResultReadData, ReadEnds, handleRecvPacket, PostPacket, PostBuffer,
                PostClose, PostsClose, GatherNothing, Write, doSend, On_WriteData, BeginSend,
                Resume, ResumeWith, Overrun, release, recvVars, poolVars
  <2>2. prevSendBuf' \in {prevSendBuf, NoBuffer}
    BY <1>5 DEF On_ResultReadData, ReadEnds, handleRecvPacket, PostPacket, PostBuffer,
                PostClose, PostsClose, GatherNothing, Write, doSend, On_WriteData, BeginSend,
                Resume, ResumeWith, Overrun, sendVars
  <2> QED
    BY <2>1, <2>2, QuietKeepsAsked DEF clientVars, mainVars, queueVars
<1>6. CASE SwapQueues \/ NextPacket \/ SessionNotFound \/ TakenForNew \/ TakenForClose
             \/ DispatchUnanswered \/ ReleasePacket \/ ClearBatch \/ UNCHANGED vars
  <2>1. UNCHANGED <<packets, content, sendBuffList, prevSendBuf, mainBuffer>>
    BY <1>6 DEF SwapQueues, NextPacket, SessionNotFound, TakenForNew, TakenForClose,
                TakenForSession, DispatchUnanswered, ReleasePacket, PacketDone, release,
                ClearBatch, vars, recvVars, clientVars, poolVars, mainVars, queueVars, sendVars
  <2> QED
    BY <2>1, QuietKeepsAsked
<1> QED
  BY <1>1, <1>2, <1>3, <1>4, <1>5, <1>6 DEF Next, Receive, Gather, Main

LEMMA AskedHolds == Spec => []AskedInv
<1>1. Init => AskedInv
  <2> SUFFICES ASSUME Init PROVE AskedInv
    OBVIOUS
  <2>1. sendBuffList = <<>> /\ prevSendBuf = NoBuffer /\ mainBuffer = NoBuffer
    BY DEF Init
  <2>2. Len(sendBuffList) = 0
    BY <2>1
  <2> QED
    BY <2>1, <2>2 DEF AskedInv
<1>2. Typed /\ OwnerInv /\ AskedInv /\ [Next]_vars => AskedInv'
  BY AskedInvariant
<1> QED
  BY <1>1, <1>2, TypedInvariant, OwnerHolds, PTL DEF Spec

LEMMA GoneInvariant ==
  ASSUME Typed, CloseInv, GoneInv, [Next]_vars
  PROVE  GoneInv'
<1>1. CASE RemoveSession
  BY <1>1 DEF RemoveSession, GoneInv
<1>2. CASE session = "deleted"
  <2>1. mainPc = "update" /\ sendBuffList = <<>> /\ prevSendBuf = NoBuffer
    BY <1>2 DEF CloseInv, GoneInv
  <2>2. ~ sendBuffer /\ ~ GatherWhole /\ ~ GatherPart /\ ~ RemoveSession /\ ~ MakeAnswer
    BY <2>1 DEF sendBuffer, PushAnswer, GatherWhole, GatherBelow, GatherPart, RemoveSession,
                MakeAnswer
  <2>3. ~ doSend /\ ~ On_WriteData
    BY <1>2 DEF doSend, On_WriteData, WriteDone
  <2>4. UNCHANGED <<sendBuffList, prevSendBuf>>
    <3>1. CASE On_ResultReadData \/ ReadEnds \/ Receive \/ GatherNothing \/ Write
      BY <3>1 DEF On_ResultReadData, ReadEnds, Receive, handleRecvPacket, FillBuffer, PostPacket,
                  PostBuffer, PostClose, PostsClose, GatherNothing, Write, queueVars, sendVars
    <3>2. CASE SwapQueues \/ NextPacket \/ SessionNotFound \/ TakenForNew \/ TakenForClose
                 \/ DispatchUnanswered \/ ReleasePacket \/ ClearBatch \/ UNCHANGED vars
      BY <3>2 DEF SwapQueues, NextPacket, SessionNotFound, TakenForNew, TakenForClose,
                  TakenForSession, DispatchUnanswered, ReleasePacket, PacketDone, ClearBatch,
                  vars, queueVars, sendVars
    <3> QED
      BY <2>2, <2>3, <3>1, <3>2 DEF Next, Gather, Main
  <2> QED
    BY <2>1, <2>4 DEF GoneInv
<1>3. CASE session # "deleted" /\ ~ RemoveSession
  <2>1. session' = session \/ session' = "closed"
    <3>1. CASE On_ResultReadData \/ ReadEnds \/ Receive \/ doSend \/ On_WriteData \/ Gather
      BY <3>1 DEF On_ResultReadData, ReadEnds, Receive, handleRecvPacket, FillBuffer, PostPacket,
                  PostBuffer, PostClose, PostsClose, doSend, On_WriteData, BeginSend, Resume,
                  ResumeWith, Overrun, Gather, GatherWhole, GatherBelow, GatherPart,
                  GatherNothing, Write
    <3>2. CASE SwapQueues \/ NextPacket \/ SessionNotFound \/ TakenForNew \/ TakenForClose
                 \/ DispatchUnanswered \/ MakeAnswer \/ sendBuffer \/ ReleasePacket
                 \/ ClearBatch \/ UNCHANGED vars
      BY <3>2 DEF SwapQueues, NextPacket, SessionNotFound, TakenForNew, TakenForClose,
                  TakenForSession, DispatchUnanswered, MakeAnswer, sendBuffer, PushAnswer,
                  ReleasePacket, PacketDone, ClearBatch, vars
    <3> QED
      BY <1>3, <3>1, <3>2 DEF Next, Main
  <2> QED
    BY <1>3, <2>1 DEF GoneInv
<1> QED
  BY <1>1, <1>2, <1>3

LEMMA GoneHolds == Spec => []GoneInv
<1>1. Init => GoneInv
  BY DEF Init, GoneInv
<1>2. Typed /\ CloseInv /\ GoneInv /\ [Next]_vars => GoneInv'
  BY GoneInvariant
<1> QED
  BY <1>1, <1>2, TypedInvariant, CloseHolds, PTL DEF Spec

\* A packet the main thread turns to is the next one of the stream.
LEMMA HandleStep ==
  ASSUME Typed, CloseInv, OrderInv, ValidInv,
         TakenForNew \/ TakenForClose \/ DispatchUnanswered \/ MakeAnswer
  PROVE  Promise!Take
<1>1. /\ mainPc = "dispatch" /\ item # CloseEvent /\ taken' = Append(taken, content[item])
      /\ UNCHANGED <<packets, answered, session>>
  BY DEF TakenForNew, TakenForClose, TakenForSession, DispatchUnanswered, MakeAnswer, IsPacket,
         recvVars, clientVars, sendVars
<1>2. content[item] = Len(taken) + 1 /\ packets[content[item]].signature = "client"
  BY <1>1 DEF OrderInv, ValidInv, Valid
<1>3. content[item] \in Serial
  BY <1>1 DEF Typed, EventOK, PoolOK
<1>4. session # "deleted"
  BY <1>1 DEF CloseInv
<1> QED
  BY <1>1, <1>2, <1>3, <1>4 DEF Promise!Take, Serial

\* The last unit of an answer that waits is counted into sendBuf.
LEMMA AnswerStep ==
  ASSUME Typed, AnswerInv, AskedInv, GoneInv, NEW b \in Made,
         b = prevSendBuf \/ (sendBuffList # <<>> /\ b = Head(sendBuffList)),
         answered' = Append(answered, content[b]), session # "deleted",
         UNCHANGED <<packets, taken, session>>
  PROVE  \E n \in 1..MaxPackets : Promise!Answer(n)
<1> DEFINE n == content[b]
<1>1. b # NoBuffer /\ n \in Serial
  BY Constants DEF Typed, PoolOK, Made
<1>2. n <= Len(taken) /\ Follows(n) /\ IsRequest(n)
  <2>1. CASE b = prevSendBuf
    BY <1>1, <2>1 DEF AnswerInv, PrevInv, AskedInv
  <2>2. CASE sendBuffList # <<>> /\ b = Head(sendBuffList)
    <3>1. 1 \in 1..Len(sendBuffList) /\ b = sendBuffList[1]
      BY <2>2, TailFacts DEF Typed, Rest
    <3> QED
      BY <3>1 DEF AnswerInv, ListInv, AskedInv
  <2> QED
    BY <2>1, <2>2
<1>3. DOMAIN answered = 1..Len(answered)
  BY LenProperties DEF Typed, SendOK
<1> HIDE DEF n
<1>handled. Promise!Handled(n) /\ packets[n].msgID \in Promise!Requests
  <2>1. packets[n].msgID \in Promise!Requests
    BY <1>2 DEF IsRequest, msgID
  <2>2. packets[n].msgID \notin Promise!SessionEvents
    BY <2>1 DEF Promise!Requests, Promise!SessionEvents
  <2>3. n \in 1..Len(taken)
    <3>1. n \in Nat /\ n >= 1 /\ Len(taken) \in Nat
      BY <1>1, LenProperties DEF Serial, Typed, SendOK
    <3> QED
      BY <1>2, <3>1
  <2> QED
    BY <2>1, <2>2, <2>3 DEF Promise!Handled
<1>4. \A i \in DOMAIN answered : answered[i] < n
  BY <1>2, <1>3 DEF Follows
<1>5. answered' = Append(answered, n)
  BY DEF n
<1>6. Promise!Answer(n)
  BY <1>handled, <1>4, <1>5 DEF Promise!Answer
<1> QED
  BY <1>1, <1>6 DEF Serial

\* Every step is a step of Exchange or none that the client could tell.
LEMMA ExchangeStep ==
  ASSUME Typed, CloseInv, FlowInv, AnswerInv, ValidInv, AskedInv, GoneInv, [Next]_vars
  PROVE  [Promise!Next]_(Promise!exchangeVars)
<1>1. CASE TakenForNew \/ TakenForClose \/ DispatchUnanswered \/ MakeAnswer
  BY <1>1, HandleStep DEF FlowInv, Promise!Next
<1>2. CASE RemoveSession
  <2>1. /\ mainPc = "dispatch" /\ session' = "deleted"
        /\ UNCHANGED <<packets, taken, answered>>
    BY <1>2 DEF RemoveSession, recvVars, clientVars
  <2>2. session # "deleted"
    BY <2>1 DEF CloseInv
  <2> QED
    BY <2>1, <2>2 DEF Promise!Next, Promise!Remove
<1>overrun. CASE Overrun
  BY <1>overrun DEF Overrun, recvVars, clientVars, mainVars, sendVars, Promise!exchangeVars
<1>3. CASE doSend \/ On_WriteData
  <2>1. (ResumeFits \/ Overrun) /\ session # "deleted"
    BY <1>3, BeginCases DEF doSend, On_WriteData, WriteDone
  <2>2. CASE ResumeFits
    <3>1. UNCHANGED <<packets, taken, session>>
      BY <2>2 DEF ResumeFits, ResumeWith, recvVars, clientVars, mainVars
    <3>2. CASE prevSendBuf = NoBuffer
      <4>1. answered' = answered
        BY <2>2, <3>2 DEF ResumeFits, ResumeWith
      <4> QED
        BY <3>1, <4>1 DEF Promise!exchangeVars
    <3>3. CASE prevSendBuf # NoBuffer
      <4>1. prevSendBuf \in Made /\ answered' = Append(answered, content[prevSendBuf])
        BY <2>2, <3>3 DEF ResumeFits, ResumeWith, CountLast, Typed, HolderOK
      <4> QED
        BY <2>1, <3>1, <4>1, AnswerStep DEF Promise!Next
    <3> QED
      BY <3>2, <3>3
  <2> QED
    BY <1>overrun, <2>1, <2>2
<1>4. CASE GatherWhole
  <2>1. GatherFits \/ Overrun
    BY <1>4, GatherCases DEF Typed, Rest, GatherOverruns
  <2>2. CASE GatherFits
    <3>1. /\ sendBuffList # <<>> /\ answered' = Append(answered, content[Head(sendBuffList)])
          /\ UNCHANGED <<packets, taken, session>>
      BY <2>2 DEF GatherFits, CountLast, recvVars, clientVars, mainVars
    <3>2. Head(sendBuffList) \in Made
      BY <3>1, HeadOfSendQueue DEF Typed, Rest
    <3>3. session # "deleted"
      BY <3>1 DEF GoneInv
    <3> QED
      BY <3>1, <3>2, <3>3, AnswerStep DEF Promise!Next
  <2> QED
    BY <1>overrun, <2>1, <2>2
<1>5. CASE On_ResultReadData \/ ReadEnds \/ Receive \/ GatherPart \/ GatherNothing \/ Write
  <2>1. UNCHANGED <<clientVars, taken, answered>>
    BY <1>5 DEF On_ResultReadData, ReadEnds, Receive, handleRecvPacket, FillBuffer, PostPacket,
                PostBuffer, PostClose, PostsClose, GatherPart, GatherNothing, Write, recvVars,
                mainVars, sendVars
  <2>2. (session' = "deleted") = (session = "deleted")
    BY <1>5 DEF On_ResultReadData, ReadEnds, Receive, handleRecvPacket, FillBuffer, PostPacket,
                PostBuffer, PostClose, PostsClose, GatherPart, GatherNothing, Write
  <2> QED
    BY <2>1, <2>2 DEF Promise!exchangeVars, clientVars
<1>6. CASE SwapQueues \/ NextPacket \/ SessionNotFound \/ sendBuffer \/ ReleasePacket
             \/ ClearBatch \/ UNCHANGED vars
  <2>1. UNCHANGED <<packets, taken, answered, session>>
    BY <1>6 DEF SwapQueues, NextPacket, SessionNotFound, sendBuffer, PushAnswer,
                ReleasePacket, PacketDone, ClearBatch, vars, recvVars, clientVars, mainVars, sendVars
  <2> QED
    BY <2>1 DEF Promise!exchangeVars
<1> QED
  BY <1>1, <1>2, <1>3, <1>4, <1>5, <1>6 DEF Next, Gather, Main

\* What the client of a session sees of both threads, of buffers used again and
\* again, of answers split over writes and of a close at any moment, is Exchange:
\* packets taken in order and once, requests answered in order and once.
THEOREM ExchangeImplemented ==
  ASSUME ReadsGoOn
  PROVE  Spec => ImplementsExchange
<1>1. Init => Promise!Init
  BY DEF Init, Promise!Init, Serial
<1>2. Typed /\ CloseInv /\ FlowInv /\ AnswerInv /\ ValidInv /\ AskedInv /\ GoneInv /\ [Next]_vars
        => [Promise!Next]_(Promise!exchangeVars)
  BY ExchangeStep
<1> QED
  BY <1>1, <1>2, TypedInvariant, CloseHolds, FlowHolds, AnswerHolds, ValidHolds, AskedHolds,
     GoneHolds, PTL DEF Spec, ImplementsExchange, Promise!Spec

\* Every step of Exchange keeps what its client may rely on.
LEMMA ExchangeKeepsAnswered ==
  ASSUME taken \in Seq(Serial), answered \in Seq(Serial), Promise!OnlyHandledAreAnswered,
         [Promise!Next]_(Promise!exchangeVars)
  PROVE  Promise!OnlyHandledAreAnswered'
<1>1. Len(taken) \in Nat /\ Len(answered) \in Nat
  BY LenProperties
<1>2. /\ \A i \in 1..Len(taken) : taken[i] = i /\ packets[i].signature = "client"
      /\ \A i \in 1..Len(answered) :
           /\ answered[i] \in 1..Len(taken)
           /\ packets[answered[i]].msgID \notin Promise!SessionEvents
           /\ packets[answered[i]].msgID \in Promise!Requests
  BY DEF Promise!OnlyHandledAreAnswered, Promise!Handled
<1>3. CASE Promise!Take
  <2>1. /\ Len(taken) + 1 \in Serial /\ packets[Len(taken) + 1].signature = "client"
        /\ taken' = Append(taken, Len(taken) + 1) /\ UNCHANGED <<packets, answered>>
    BY <1>3 DEF Promise!Take, Serial
  <2>2. /\ Len(taken') = Len(taken) + 1
        /\ \A i \in 1..Len(taken) : taken'[i] = taken[i]
        /\ taken'[Len(taken) + 1] = Len(taken) + 1
    BY <2>1, AppendFacts
  <2>3. \A i \in 1..Len(taken') : i \in 1..Len(taken) \/ i = Len(taken) + 1
    BY <1>1, <2>2
  <2>4. \A i \in 1..Len(taken') : taken'[i] = i /\ packets[i].signature = "client"
    BY <1>2, <2>1, <2>2, <2>3
  <2>5. \A n \in 1..Len(taken) : n \in 1..Len(taken')
    BY <1>1, <2>2
  <2> QED
    BY <1>2, <2>1, <2>4, <2>5 DEF Promise!OnlyHandledAreAnswered, Promise!Handled
<1>4. CASE \E n \in 1..MaxPackets : Promise!Answer(n)
  <2>1. PICK n \in 1..MaxPackets : Promise!Answer(n)
    BY <1>4
  <2>2. /\ Promise!Handled(n) /\ packets[n].msgID \in Promise!Requests
        /\ answered' = Append(answered, n) /\ UNCHANGED <<packets, taken>>
    BY <2>1 DEF Promise!Answer
  <2>3. n \in Serial
    BY DEF Serial
  <2>4. /\ Len(answered') = Len(answered) + 1
        /\ \A i \in 1..Len(answered) : answered'[i] = answered[i]
        /\ answered'[Len(answered) + 1] = n
    BY <2>2, <2>3, AppendFacts
  <2>5. \A i \in 1..Len(answered') : i \in 1..Len(answered) \/ i = Len(answered) + 1
    BY <1>1, <2>4
  <2>6. \A i \in 1..Len(answered') :
          Promise!Handled(answered'[i]) /\ packets[answered'[i]].msgID \in Promise!Requests
    BY <2>2, <2>4, <2>5 DEF Promise!OnlyHandledAreAnswered
  <2> QED
    BY <1>2, <2>2, <2>6 DEF Promise!OnlyHandledAreAnswered, Promise!Handled
<1>5. CASE Promise!Remove \/ UNCHANGED Promise!exchangeVars
  <2>1. UNCHANGED <<packets, taken, answered>>
    BY <1>5 DEF Promise!Remove, Promise!exchangeVars
  <2> QED
    BY <2>1 DEF Promise!OnlyHandledAreAnswered, Promise!Handled
<1> QED
  BY <1>3, <1>4, <1>5 DEF Promise!Next

\* What Exchange says of a client's packets, said of the path: whatever was answered
\* is a request the main thread was given, and it was given every packet before it.
THEOREM OnlyHandledAnswered ==
  ASSUME ReadsGoOn
  PROVE  Spec => []Promise!OnlyHandledAreAnswered
<1>1. Init => Promise!OnlyHandledAreAnswered
  <2> SUFFICES ASSUME Init PROVE Promise!OnlyHandledAreAnswered
    OBVIOUS
  <2>1. Len(taken) = 0 /\ Len(answered) = 0
    BY DEF Init
  <2> QED
    BY <2>1 DEF Promise!OnlyHandledAreAnswered
<1>2. Typed /\ Promise!OnlyHandledAreAnswered /\ [Promise!Next]_(Promise!exchangeVars)
        => Promise!OnlyHandledAreAnswered'
  BY ExchangeKeepsAnswered DEF Typed, SendOK
<1> QED
  BY <1>1, <1>2, TypedInvariant, ExchangeImplemented, PTL DEF Spec, ImplementsExchange,
     Promise!Spec

\* When the main thread has deleted the session, nothing of it is taken or answered
\* any more, whatever the loop thread still does.
THEOREM RemovedStaysSilent ==
  ASSUME ReadsGoOn
  PROVE  Spec => Promise!NothingAfterRemoval
<1>1. [Promise!Next]_(Promise!exchangeVars) => [~ (session = "deleted")]_(Promise!exchangeVars)
  BY DEF Promise!Next, Promise!Take, Promise!Answer, Promise!Remove
<1> QED
  BY <1>1, ExchangeImplemented, PTL DEF ImplementsExchange, Promise!Spec,
     Promise!NothingAfterRemoval
=============================================================================
