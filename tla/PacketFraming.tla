--------------------------- MODULE PacketFraming ----------------------------
(***************************************************************************)
(* Session::handleRecvPacket: cutting packets out of the bytes of a read.  *)
(* Each action is one way through the body of its loop, up to the break,   *)
(* the return or the hand-over of the packet in postRecvBuf.               *)
(*                                                                         *)
(* Bytes come in units of the size of a PacketHeader; the first unit of a  *)
(* packet is its header.  postDataLen is the length of postRecvBuf here.   *)
(***************************************************************************)
EXTENDS Naturals, Sequences

CONSTANTS
  RECV_BUF_SIZE,     \* the units recvBuf and postRecvBuf hold (8192 bytes)
  PACKET_MAX_SIZE,   \* the longest packet checkPacketHeader lets pass (2048)
  Unit,              \* the units of a stream; headers have the fields below
  ZeroUnit           \* what memset leaves in a buffer; it is no valid header

VARIABLES
  recvBuf,          \* what libuv has put there last, unit by unit
  buffReadPos,      \* offset of the first unit not yet looked at
  recvDataLen,      \* how many units from there on are waiting
  postRecvBuf,      \* the units of the packet being put together
  postPacketsize    \* its size, while it is incomplete

framingVars == <<recvBuf, buffReadPos, recvDataLen, postRecvBuf, postPacketsize>>

FramingTypeOK ==
  /\ recvBuf \in [1..RECV_BUF_SIZE -> Unit \cup {ZeroUnit}]
  /\ buffReadPos \in 0..RECV_BUF_SIZE
  /\ recvDataLen \in 0..RECV_BUF_SIZE
  /\ postRecvBuf \in Seq(Unit \cup {ZeroUnit})
  /\ Len(postRecvBuf) <= RECV_BUF_SIZE
  /\ postPacketsize \in 0..PACKET_MAX_SIZE

Init ==
  /\ recvBuf = [i \in 1..RECV_BUF_SIZE |-> ZeroUnit]
  /\ buffReadPos = 0
  /\ recvDataLen = 0
  /\ postRecvBuf = <<>>
  /\ postPacketsize = 0

\* The units at buffReadPos.
unread == SubSeq(recvBuf, buffReadPos + 1, buffReadPos + recvDataLen)
header == recvBuf[buffReadPos + 1]

checkPacketHeader == header.signature = "client" /\ header.packetsize <= PACKET_MAX_SIZE

\* n units move from recvBuf to the end of postRecvBuf.
Copy(n) ==
  /\ postRecvBuf' = postRecvBuf \o SubSeq(unread, 1, n)
  /\ recvDataLen' = recvDataLen - n
  /\ buffReadPos' = buffReadPos + n
  /\ UNCHANGED recvBuf

\* All that is waiting moves there, and buffReadPos goes back to the start.
CopyAll ==
  /\ postRecvBuf' = postRecvBuf \o unread
  /\ recvDataLen' = 0
  /\ buffReadPos' = 0
  /\ UNCHANGED recvBuf

\* The incomplete packet is still incomplete: break.
ExtendPending ==
  /\ postPacketsize > 0
  /\ Len(postRecvBuf) + recvDataLen < postPacketsize
  /\ CopyAll
  /\ UNCHANGED postPacketsize

\* Faulty: what is waiting is taken for the rest of the packet.
CompletePendingAll ==
  /\ postPacketsize > 0
  /\ Len(postRecvBuf) + recvDataLen >= postPacketsize
  /\ CopyAll
  /\ UNCHANGED postPacketsize

\* The incomplete packet is complete: hand it over.
CompletePending ==
  /\ postPacketsize > 0
  /\ Len(postRecvBuf) + recvDataLen >= postPacketsize
  /\ Copy(postPacketsize - Len(postRecvBuf))
  /\ UNCHANGED postPacketsize

\* Not a whole header: break.
WaitForHeader ==
  /\ postPacketsize = 0
  /\ recvDataLen < 1
  /\ UNCHANGED framingVars

\* An invalid header: return FALSE, which On_ResultReadData ignores.
RejectHeader ==
  /\ postPacketsize = 0
  /\ recvDataLen >= 1
  /\ ~ checkPacketHeader
  /\ UNCHANGED framingVars

\* Not the whole packet, and room for the rest of it: break.
WaitForPacket ==
  /\ postPacketsize = 0
  /\ recvDataLen >= 1
  /\ checkPacketHeader
  /\ header.packetsize > recvDataLen
  /\ header.packetsize < RECV_BUF_SIZE
  /\ UNCHANGED framingVars

\* A whole packet: hand it over.
TakePacket ==
  /\ postPacketsize = 0
  /\ recvDataLen >= 1
  /\ checkPacketHeader
  /\ header.packetsize <= recvDataLen
  /\ Copy(header.packetsize)
  /\ UNCHANGED postPacketsize

\* A packet that fills recvBuf: keep its beginning and go round again.
StartPending ==
  /\ postPacketsize = 0
  /\ recvDataLen >= 1
  /\ checkPacketHeader
  /\ header.packetsize > recvDataLen
  /\ header.packetsize >= RECV_BUF_SIZE
  /\ postPacketsize' = header.packetsize
  /\ CopyAll

\* The end of recvDataToHander.
Clear ==
  /\ postRecvBuf' = <<>>
  /\ postPacketsize' = 0
  /\ UNCHANGED <<recvBuf, buffReadPos, recvDataLen>>

HandsOver == CompletePending \/ TakePacket
Stops == ExtendPending \/ WaitForHeader \/ RejectHeader \/ WaitForPacket
=============================================================================
