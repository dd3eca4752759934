---------------------------- MODULE AsBuiltProofs ----------------------------
(***************************************************************************)
(* What the packet path comes to where a statement of the code is missing, *)
(* for any stream, sizes, send queue and moment of the close.  The theorems*)
(* of PacketPathProofs hold for the code as it is too; these say how little*)
(* there is then for them to be about.                                     *)
(***************************************************************************)
EXTENDS PacketPathProofs

-----------------------------------------------------------------------------
(* Nobody adds the bytes of a read to recvDataLen. *)

\* All that ever travels to the main thread is the close of the session.
NothingReceived ==
  /\ recvDataLen = 0 /\ buffReadPos = 0 /\ postPacketsize = 0
  /\ loopPc \in {"poll", "frame", "post close"}
  /\ pending \in Seq({CloseEvent}) /\ batch \in Seq({CloseEvent})
  /\ mainPc \in {"update", "dispatch"}
  /\ mainPc = "dispatch" => item = CloseEvent
  /\ sendBuffList = <<>> /\ prevSendBuf = NoBuffer /\ ~ writing
  /\ made = 0
  /\ taken = <<>> /\ answered = <<>>

\* However much arrives, no packet is taken from it, no buffer is asked for and
\* nothing is answered.
NothingHandled ==
  "recvDataLen" \notin Supplied => made = 0 /\ taken = <<>> /\ answered = <<>>

LEMMA CloseAppended ==
  ASSUME NEW q \in Seq({CloseEvent})
  PROVE  Append(q, CloseEvent) \in Seq({CloseEvent})
OBVIOUS

LEMMA CloseTaken ==
  ASSUME NEW q \in Seq({CloseEvent}), q # <<>>
  PROVE  Head(q) = CloseEvent /\ Tail(q) \in Seq({CloseEvent})
OBVIOUS

LEMMA NothingReceivedInvariant ==
  ASSUME "recvDataLen" \notin Supplied, NothingReceived, [Next]_vars
  PROVE  NothingReceived'
<1>1. CASE On_ResultReadData \/ ReadEnds
  <2>1. /\ recvDataLen' = 0 /\ buffReadPos' = 0
        /\ UNCHANGED <<postPacketsize, pending, batch, item, mainPc, sendBuffList, prevSendBuf,
                       writing, made, taken, answered>>
    BY <1>1 DEF NothingReceived, On_ResultReadData, ReadEnds, poolVars, eventVars, mainVars,
                queueVars, sendVars
  <2>2. buffReadPos' + recvDataLen' <= RECV_BUF_SIZE
    BY <2>1, Constants
  <2>3. loopPc' \in {"frame", "post close"}
    BY <1>1, <2>2 DEF On_ResultReadData, ReadEnds
  <2> QED
    BY <2>1, <2>3 DEF NothingReceived
<1>2. CASE handleRecvPacket
  <2>1. Framing!Stops /\ loopPc' = "poll"
    BY <1>2 DEF NothingReceived, handleRecvPacket, Framing!StartPending, Framing!HandsOver,
                Framing!CompletePending, Framing!TakePacket
  <2>2. postPacketsize = 0
    BY DEF NothingReceived
  <2>3. ~ (postPacketsize > 0)
    BY <2>2
  <2>4. UNCHANGED framingVars
    BY <2>1, <2>3 DEF Framing!Stops, Framing!ExtendPending, Framing!WaitForHeader,
                      Framing!RejectHeader,
                      Framing!WaitForPacket, Framing!framingVars, framingVars
  <2>5. UNCHANGED <<pending, batch, item, mainPc, sendBuffList, prevSendBuf, writing, made,
                    taken, answered>>
    BY <1>2 DEF handleRecvPacket, poolVars, eventVars, mainVars, queueVars, sendVars
  <2> QED
    BY <2>1, <2>4, <2>5 DEF NothingReceived, framingVars
<1>3. CASE PostClose
  <2>1. /\ pending' = Append(pending, CloseEvent) /\ loopPc' = "poll"
        /\ UNCHANGED <<recvDataLen, buffReadPos, postPacketsize, batch, item, mainPc, sendBuffList,
                       prevSendBuf, writing, made, taken, answered>>
    BY <1>3 DEF PostClose, PostsClose, Events!Post, recvVars, framingVars, poolVars, mainVars,
                queueVars, sendVars
  <2> QED
    BY <2>1, CloseAppended DEF NothingReceived
<1>4. CASE SwapQueues \/ NextPacket \/ ClearBatch
  <2>1. UNCHANGED <<recvDataLen, buffReadPos, postPacketsize, loopPc, sendBuffList, prevSendBuf,
                    writing,
                    made, taken, answered>>
    BY <1>4 DEF SwapQueues, NextPacket, ClearBatch, recvVars, framingVars, poolVars, mainVars,
                queueVars, sendVars
  <2>2. CASE SwapQueues
    <3>1. pending' = <<>> /\ batch' = pending /\ UNCHANGED <<item, mainPc>>
      BY <2>2 DEF SwapQueues, Events!TakeBatch, mainVars
    <3>2. <<>> \in Seq({CloseEvent})
      OBVIOUS
    <3> QED
      BY <2>1, <3>1, <3>2 DEF NothingReceived
  <2>3. CASE NextPacket
    <3>1. /\ batch # <<>> /\ item' = Head(batch) /\ batch' = Tail(batch)
          /\ mainPc' = "dispatch" /\ UNCHANGED pending
      BY <2>3 DEF NextPacket, Events!NextItem
    <3> QED
      BY <2>1, <3>1, CloseTaken DEF NothingReceived
  <2>4. CASE ClearBatch
    <3>1. mainPc = "update" /\ UNCHANGED <<pending, batch, mainPc>>
      BY <2>4 DEF ClearBatch, Events!EndBatch, mainVars
    <3> QED
      BY <2>1, <3>1 DEF NothingReceived
  <2> QED
    BY <1>4, <2>2, <2>3, <2>4
<1>5. CASE RemoveSession \/ SessionNotFound
  <2>1. /\ mainPc' = "update" /\ sendBuffList' = <<>> /\ prevSendBuf' = NoBuffer
        /\ UNCHANGED <<recvDataLen, buffReadPos, postPacketsize, loopPc, pending, batch, writing,
                       made, taken, answered>>
    BY <1>5 DEF NothingReceived, RemoveSession, SessionNotFound, recvVars, framingVars, poolVars,
                eventVars, queueVars, sendVars, mainVars
  <2> QED
    BY <2>1 DEF NothingReceived
<1>6. /\ ~ FillBuffer /\ ~ PostPacket /\ ~ TakenForNew /\ ~ TakenForClose
      /\ ~ DispatchUnanswered /\ ~ MakeAnswer /\ ~ sendBuffer /\ ~ ReleasePacket
      /\ ~ doSend /\ ~ On_WriteData /\ ~ Gather
  BY DEF NothingReceived, FillBuffer, PostPacket, PostBuffer, TakenForNew, TakenForClose,
         TakenForSession, DispatchUnanswered, MakeAnswer, IsPacket, sendBuffer, PushAnswer,
         ReleasePacket, PacketDone, doSend, On_WriteData, WriteDone,
         Gather, GatherWhole, GatherBelow, GatherPart, GatherNothing, Write
<1>7. CASE UNCHANGED vars
  BY <1>7 DEF NothingReceived, vars, recvVars, framingVars, poolVars, eventVars, mainVars,
              queueVars, sendVars
<1> QED
  BY <1>1, <1>2, <1>3, <1>4, <1>5, <1>6, <1>7 DEF Next, Receive, Main

\* As long as nobody counts what a read brought into recvBuf, no packet is handled
\* and no buffer taken, whatever the client sends: only the close arrives.
THEOREM BuiltHandlesNothing == Spec => []NothingHandled
<1> DEFINE Inv == "recvDataLen" \notin Supplied => NothingReceived
<1>1. Init => Inv
  BY DEF Init, NothingReceived, Framing!Init, Pool!Init, Events!Init
<1>2. Inv /\ [Next]_vars => Inv'
  BY NothingReceivedInvariant
<1>3. Inv => NothingHandled
  BY DEF NothingReceived, NothingHandled
<1> QED
  BY <1>1, <1>2, <1>3, PTL DEF Spec

-----------------------------------------------------------------------------
(* Nobody sets connected. *)

\* Nothing is on its way back.
NothingReturned ==
  /\ loopPc \notin {"gather", "write"}
  /\ mainPc # "push"
  /\ sendBuffList = <<>> /\ prevSendBuf = NoBuffer /\ ~ writing
  /\ answerSize = [n \in Serial |-> 0]
  /\ answered = <<>>

\* Whatever is handled, no answer is made.
NothingAnswered ==
  "connected" \notin Supplied =>
    answerSize = [n \in Serial |-> 0] /\ answered = <<>>

LEMMA NothingReturnedInvariant ==
  ASSUME "connected" \notin Supplied, NothingReturned, [Next]_vars
  PROVE  NothingReturned'
<1>1. CASE On_ResultReadData \/ ReadEnds \/ Receive
  <2>1. /\ loopPc' \in {"poll", "frame", "alloc", "post", "post close", "astray"}
        /\ UNCHANGED <<mainVars, queueVars, sendVars, writing>>
    BY <1>1 DEF On_ResultReadData, ReadEnds, Receive, handleRecvPacket, FillBuffer, PostPacket,
                PostBuffer, PostClose, PostsClose
  <2> QED
    BY <2>1 DEF NothingReturned, mainVars, queueVars, sendVars
<1>2. CASE SwapQueues \/ NextPacket \/ SessionNotFound \/ TakenForNew \/ TakenForClose
             \/ DispatchUnanswered \/ ReleasePacket \/ ClearBatch
  <2>1. /\ mainPc' # "push"
        /\ UNCHANGED <<loopPc, answerSize, sendBuffList, sendVars, writing>>
    BY <1>2 DEF NothingReturned, SwapQueues, NextPacket, SessionNotFound, TakenForNew,
                TakenForClose, TakenForSession, DispatchUnanswered, ReleasePacket, PacketDone,
                ClearBatch, mainVars, queueVars
  <2> QED
    BY <2>1 DEF NothingReturned, sendVars
<1>3. CASE RemoveSession
  <2>1. /\ mainPc' = "update" /\ sendBuffList' = <<>> /\ prevSendBuf' = NoBuffer
        /\ UNCHANGED <<loopPc, answerSize, answered, writing>>
    BY <1>3 DEF NothingReturned, RemoveSession
  <2> QED
    BY <2>1 DEF NothingReturned
<1>4. /\ ~ MakeAnswer /\ ~ sendBuffer /\ ~ doSend /\ ~ On_WriteData /\ ~ Gather
  BY DEF NothingReturned, MakeAnswer, Answerable, isConnected, sendBuffer, PushAnswer, doSend,
         On_WriteData,
         WriteDone, Gather, GatherWhole, GatherBelow, GatherPart, GatherNothing, Write
<1>5. CASE UNCHANGED vars
  BY <1>5 DEF NothingReturned, vars, mainVars, queueVars, sendVars
<1> QED
  BY <1>1, <1>2, <1>3, <1>4, <1>5 DEF Next, Main

\* As long as nobody sets connected, every request is refused an answer, also while
\* the session is open; the send path is never entered.
THEOREM UnconnectedAnswersNothing == Spec => []NothingAnswered
<1> DEFINE Inv == "connected" \notin Supplied => NothingReturned
<1>1. Init => Inv
  BY DEF Init, NothingReturned
<1>2. Inv /\ [Next]_vars => Inv'
  BY NothingReturnedInvariant
<1>3. Inv => NothingAnswered
  BY DEF NothingReturned, NothingAnswered
<1> QED
  BY <1>1, <1>2, <1>3, PTL DEF Spec

-----------------------------------------------------------------------------
(* Nobody calls doSend for a queued answer. *)

NothingGathered ==
  /\ loopPc \notin {"gather", "write"}
  /\ prevSendBuf = NoBuffer /\ ~ writing
  /\ answered = <<>>

\* No answer leaves, and what is queued stays there until the session goes ...
NothingSent == "doSend" \notin Supplied => answered = <<>> /\ ~ writing

AnswersStay ==
  [][\/ "doSend" \in Supplied
     \/ session' = "deleted"
     \/ IsPrefix(sendBuffList, sendBuffList')]_vars

LEMMA NothingGatheredInvariant ==
  ASSUME "doSend" \notin Supplied, NothingGathered, [Next]_vars
  PROVE  NothingGathered'
<1>1. CASE On_ResultReadData \/ ReadEnds \/ Receive
  <2>1. /\ loopPc' \in {"poll", "frame", "alloc", "post", "post close", "astray"}
        /\ UNCHANGED <<sendVars, writing>>
    BY <1>1 DEF On_ResultReadData, ReadEnds, Receive, handleRecvPacket, FillBuffer, PostPacket,
                PostBuffer, PostClose, PostsClose
  <2> QED
    BY <2>1 DEF NothingGathered, sendVars
<1>2. CASE Main
  <2>1. /\ prevSendBuf' \in {prevSendBuf, NoBuffer}
        /\ UNCHANGED <<loopPc, answered, writing>>
    BY <1>2 DEF Main, SwapQueues, NextPacket, RemoveSession, SessionNotFound, TakenForNew,
                TakenForClose, TakenForSession, DispatchUnanswered, MakeAnswer, sendBuffer,
                PushAnswer, ReleasePacket, PacketDone, ClearBatch, sendVars
  <2> QED
    BY <2>1 DEF NothingGathered
<1>3. ~ doSend /\ ~ On_WriteData /\ ~ Gather
  BY DEF NothingGathered, doSend, On_WriteData, WriteDone, Gather, GatherWhole, GatherBelow,
         GatherPart, GatherNothing, Write
<1>4. CASE UNCHANGED vars
  BY <1>4 DEF NothingGathered, vars, sendVars
<1> QED
  BY <1>1, <1>2, <1>3, <1>4 DEF Next

LEMMA NothingGatheredHolds ==
  Spec => []("doSend" \notin Supplied => NothingGathered)
<1> DEFINE Inv == "doSend" \notin Supplied => NothingGathered
<1>1. Init => Inv
  BY DEF Init, NothingGathered
<1>2. Inv /\ [Next]_vars => Inv'
  BY NothingGatheredInvariant
<1> QED
  BY <1>1, <1>2, PTL DEF Spec

\* As long as nobody calls doSend, a queued answer is not sent: On_WriteData, which
\* would go on with the next, needs a write to begin with.
THEOREM UnaskedSendsNothing == Spec => []NothingSent
<1>1. ("doSend" \notin Supplied => NothingGathered) => NothingSent
  BY DEF NothingGathered, NothingSent
<1> QED
  BY <1>1, NothingGatheredHolds, PTL

LEMMA PrefixFacts ==
  ASSUME NEW S, NEW q \in Seq(S)
  PROVE  IsPrefix(q, q) /\ \A e \in S : IsPrefix(q, Append(q, e))
<1>1. Len(q) \in Nat
  BY LenProperties
<1>2. IsPrefix(q, q)
  BY <1>1 DEF IsPrefix
<1>3. ASSUME NEW e \in S
      PROVE  IsPrefix(q, Append(q, e))
  <2>1. /\ Append(q, e) \in Seq(S) /\ Len(Append(q, e)) = Len(q) + 1
        /\ \A i \in 1..Len(q) : Append(q, e)[i] = q[i]
    BY AppendFacts
  <2>2. Len(q) <= Len(Append(q, e))
    BY <1>1, <2>1
  <2>3. SubSeq(q, 1, Len(q)) = SubSeq(Append(q, e), 1, Len(q))
    BY <1>1, <2>1
  <2> QED
    BY <2>2, <2>3 DEF IsPrefix
<1> QED
  BY <1>2, <1>3

\* ... so the answers that fill the send queue first keep it full: no later one gets
\* in, and their buffers are taken from the pool for as long as the session lives.
THEOREM UnaskedKeepsQueue == Spec => AnswersStay
<1> DEFINE Stays == \/ "doSend" \in Supplied
                    \/ session' = "deleted"
                    \/ IsPrefix(sendBuffList, sendBuffList')
<1>1. ASSUME Typed, "doSend" \notin Supplied => NothingGathered, [Next]_vars
      PROVE  Stays
  <2> SUFFICES ASSUME "doSend" \notin Supplied PROVE Stays
    OBVIOUS
  <2>1. sendBuffList \in Seq(Made)
    BY <1>1 DEF Typed, HolderOK
  <2>2. CASE sendBuffer
    <3>1. /\ mainPc = "push"
          /\ \/ sendBuffList' = Append(sendBuffList, mainBuffer)
             \/ sendBuffList' = sendBuffList
      BY <2>2 DEF sendBuffer, PushAnswer
    <3>2. mainBuffer \in Made
      BY <1>1, <3>1 DEF Typed, HolderOK
    <3> QED
      BY <2>1, <3>1, <3>2, PrefixFacts
  <2>3. CASE RemoveSession
    BY <2>3 DEF RemoveSession
  <2>4. ~ doSend /\ ~ On_WriteData /\ ~ Gather
    BY <1>1 DEF NothingGathered, doSend, On_WriteData, WriteDone, Gather, GatherWhole,
                GatherBelow, GatherPart, GatherNothing, Write
  <2>5. CASE \/ On_ResultReadData \/ ReadEnds \/ Receive \/ SwapQueues \/ NextPacket
             \/ SessionNotFound \/ TakenForNew \/ TakenForClose \/ DispatchUnanswered
             \/ MakeAnswer \/ ReleasePacket \/ ClearBatch \/ UNCHANGED vars
    <3>1. sendBuffList' = sendBuffList
      BY <2>5 DEF On_ResultReadData, ReadEnds, Receive, handleRecvPacket, FillBuffer, PostPacket,
                  PostBuffer, PostClose, PostsClose, SwapQueues, NextPacket, SessionNotFound,
                  TakenForNew, TakenForClose, TakenForSession, DispatchUnanswered, MakeAnswer,
                  ReleasePacket, PacketDone, ClearBatch, vars, queueVars
    <3> QED
      BY <2>1, <3>1, PrefixFacts
  <2> QED
    BY <1>1, <2>2, <2>3, <2>4, <2>5 DEF Next, Main
<1>2. Typed /\ ("doSend" \notin Supplied => NothingGathered) /\ [Next]_vars => [Stays]_vars
  BY <1>1
<1> QED
  BY <1>2, TypedInvariant, NothingGatheredHolds, PTL DEF Spec, AnswersStay

=============================================================================
