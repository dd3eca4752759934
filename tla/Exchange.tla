------------------------------ MODULE Exchange ------------------------------
(***************************************************************************)
(* What the server owes the client of one session: it takes the packets of *)
(* the stream in their order, each once, as far as their headers are valid *)
(* and handles those that it does not take for an event of a session; it   *)
(* answers requests it has handled, in their order and each once at most;  *)
(* and with the session all of this ends.  How the packets are cut out of  *)
(* reads, carried from thread to thread and gathered in writes is left to  *)
(* PacketPath, which implements this.                                      *)
(***************************************************************************)
EXTENDS Naturals, Sequences

CONSTANTS
  MaxPackets,   \* bound on the packets the client sends
  Packet        \* the kinds of packets: signature, msgID and others

VARIABLES
  packets,      \* the packets of the stream
  taken,        \* the numbers of those that update() got to
  answered,     \* the numbers of those that were answered
  removed       \* the session is gone

exchangeVars == <<packets, taken, answered, removed>>

\* The messages the packet handler answers, and the two msgIDs that update()
\* knows as the events of a session, whoever has sent them.
Requests == {"login", "create account"}
SessionEvents == {"new connection", "close connection"}

\* The packet handler has got packet n.
Handled(n) == n \in 1..Len(taken) /\ packets[n].msgID \notin SessionEvents

Init ==
  /\ packets \in [1..MaxPackets -> Packet]
  /\ taken = <<>>
  /\ answered = <<>>
  /\ removed = FALSE

\* update() gets to the next packet of the stream.
Take ==
  LET next == Len(taken) + 1
  IN  /\ ~ removed
      /\ next \in 1..MaxPackets
      /\ packets[next].signature = "client"
      /\ taken' = Append(taken, next)
      /\ UNCHANGED <<packets, answered, removed>>

\* The last of the answer to request n goes out, behind earlier answers.
Answer(n) ==
  /\ ~ removed
  /\ Handled(n)
  /\ packets[n].msgID \in Requests
  /\ \A i \in DOMAIN answered : answered[i] < n
  /\ answered' = Append(answered, n)
  /\ UNCHANGED <<packets, taken, removed>>

\* The session is removed.
Remove ==
  /\ ~ removed
  /\ removed' = TRUE
  /\ UNCHANGED <<packets, taken, answered>>

Next == Take \/ (\E n \in 1..MaxPackets : Answer(n)) \/ Remove

Spec == Init /\ [][Next]_exchangeVars

-----------------------------------------------------------------------------
(* What the client may rely on. *)

\* update() gets to the packets one after the other from the first, all of them
\* valid, and what is answered is requests among these that were handled.
OnlyHandledAreAnswered ==
  /\ \A i \in 1..Len(taken) : taken[i] = i /\ packets[i].signature = "client"
  /\ \A i \in 1..Len(answered) :
       Handled(answered[i]) /\ packets[answered[i]].msgID \in Requests

\* Nothing happens for a session that is gone.
NothingAfterRemoval == [][~ removed]_exchangeVars
=============================================================================
