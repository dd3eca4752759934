SPECIFICATION FairSpec
CONSTANTS
  Supplied = {"recvDataLen", "buffReadPos", "connected", "doSend"}
  MaxPackets = 2
  Packet <- MCPacket
  RECV_BUF_SIZE = 3
  PACKET_MAX_SIZE = 3
  UINT_SIZE = 8
  BufferSizes = {2, 6, 7}
  SendQueueSize = 1
  NoBuffer = NoBuffer
  CloseEvent = CloseEvent
INVARIANTS
  TypeOK
  OneOwner
  FramingExact
  PacketFindsSession
  AnsweredInOrder
  SendBufFits
PROPERTIES
  ImplementsExchange
  AnswersWhole
  PacketsAreHandled
  RequestsAreAnswered
  BuffersComeBack
