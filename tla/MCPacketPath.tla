---------------------------- MODULE MCPacketPath ----------------------------
(* PacketPath for TLC.  recvBuf and sendBuf hold three units.              *)
EXTENDS PacketPath

\* A request that fills recvBuf, shorter packets with the msgIDs of the two events,
\* and a header that is not valid.
MCPacket == {[signature |-> "client", packetsize |-> 3, msgID |-> "login"],
             [signature |-> "client", packetsize |-> 2, msgID |-> "close connection"],
             [signature |-> "client", packetsize |-> 1, msgID |-> "new connection"],
             [signature |-> "server", packetsize |-> 1, msgID |-> "login"]}
=============================================================================
