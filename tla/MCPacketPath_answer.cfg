SPECIFICATION Spec
CONSTANTS
  Supplied = {"recvDataLen", "buffReadPos", "connected"}
  MaxPackets = 1
  Packet <- MCPacket
  RECV_BUF_SIZE = 3
  PACKET_MAX_SIZE = 3
  UINT_SIZE = 8
  BufferSizes = {2}
  SendQueueSize = 1
  NoBuffer = NoBuffer
  CloseEvent = CloseEvent
INVARIANT
  AnswerHoldsMessage
