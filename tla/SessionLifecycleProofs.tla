----------------------- MODULE SessionLifecycleProofs -----------------------
(***************************************************************************)
(* The Session objects for any number of connections: no dangling pointer  *)
(* in the event queue, no double delete, and a map that agrees with the    *)
(* memory.                                                                 *)
(***************************************************************************)
EXTENDS SessionLifecycle, SequenceTheorems, TLAPS

-----------------------------------------------------------------------------
(* The inductive invariant. *)

Closed(s) == handle[s] \in {"closing", "closed"}

\* Where a session's handle is while the loop thread works on it.
HandleInv ==
  /\ \A s \in Session : handle[s] = "none" <=> memory[s] = "unborn"
  /\ \A s \in Session : s < sessionSerial <=> memory[s] # "unborn"
  /\ \A s \in Session : handle[s] = "reading" => s \in handlerSet
  /\ loopPc = "accept" => handle[current] = "init"
  /\ loopPc \in {"post new", "start receive"} => handle[current] = "open"
  /\ loopPc = "close" => handle[current] \in {"init", "reading"}
  /\ loopPc = "post close" => Closed(current)

\* The erase comes before the delete, and nothing of that session is left.
DeleteInv ==
  mainPc = "delete" =>
    /\ item \in SessionEvent
    /\ memory[item.session] = "live"
    /\ Closed(item.session)
    /\ loopPc = "post close" => current # item.session

\* A close event is in the queue only after uv_close and only once, an arrival
\* only after it was posted.
PostedInv ==
  /\ \A i \in 1..Len(queue) : queue[i].msgID = "close" => Closed(queue[i].session)
  /\ loopPc \in {"accept", "post new"} =>
       \A i \in 1..Len(queue) : queue[i].session # current
  /\ loopPc = "post close" =>
       \A i \in 1..Len(queue) : queue[i] # CloseEvent(current)

ItemInv == mainPc = "dispatch" => item \in SessionEvent

IInv ==
  /\ TypeOK
  /\ ItemInv
  /\ HandleInv
  /\ DeleteInv
  /\ PostedInv
  /\ QueuedSessionsLive
  /\ EventOrder
  /\ LoopFindsSession
  /\ RegistryMatchesMemory
  /\ OnlyClosedAreDeleted

-----------------------------------------------------------------------------
(* The queue as one sequence. *)

ItemSeq == IF mainPc = "dispatch" THEN <<item>> ELSE <<>>

LEMMA QueueIsSeq ==
  ASSUME TypeOK, ItemInv
  PROVE  /\ ItemSeq \in Seq(SessionEvent) /\ batch \in Seq(SessionEvent)
         /\ pending \in Seq(SessionEvent) /\ queue \in Seq(SessionEvent)
         /\ DOMAIN queue = 1..Len(queue) /\ Len(queue) \in Nat
<1>1. /\ ItemSeq \in Seq(SessionEvent) /\ batch \in Seq(SessionEvent)
      /\ pending \in Seq(SessionEvent)
  <2>1. batch \in Seq(SessionEvent) /\ pending \in Seq(SessionEvent)
    BY DEF TypeOK, Events!ChannelTypeOK
  <2>2. CASE mainPc = "dispatch"
    BY <2>1, <2>2 DEF ItemSeq, ItemInv
  <2>3. CASE mainPc # "dispatch"
    BY <2>1, <2>3 DEF ItemSeq
  <2> QED
    BY <2>2, <2>3
<1>2. queue = (ItemSeq \o batch) \o pending
  BY DEF queue, ItemSeq
<1>3. queue \in Seq(SessionEvent)
  BY <1>1, <1>2, ConcatProperties
<1> QED
  BY <1>1, <1>3, LenProperties

\* Posting appends to it.
LEMMA PostAppends ==
  ASSUME TypeOK, ItemInv, NEW e \in SessionEvent, Events!Post(e), UNCHANGED mainPc
  PROVE  queue' = Append(queue, e)
<1>1. queue = (ItemSeq \o batch) \o pending /\ queue' = (ItemSeq \o batch) \o Append(pending, e)
  BY DEF queue, ItemSeq, Events!Post
<1>2. /\ ItemSeq \o batch \in Seq(SessionEvent) /\ pending \in Seq(SessionEvent)
      /\ <<e>> \in Seq(SessionEvent)
  BY QueueIsSeq, ConcatProperties
<1>3. Append(pending, e) = pending \o <<e>>
  BY <1>2, AppendIsConcat
<1>4. ((ItemSeq \o batch) \o pending) \o <<e>> = (ItemSeq \o batch) \o (pending \o <<e>>)
  BY <1>2, ConcatAssociative
<1>5. Append(queue, e) = queue \o <<e>>
  BY QueueIsSeq, AppendIsConcat
<1> QED
  BY <1>1, <1>3, <1>4, <1>5

\* Taking a batch, turning to its next event and ending it leave it alone.
LEMMA BatchKeepsQueue ==
  ASSUME TypeOK, ItemInv, SwapQueues \/ NextEvent \/ ClearBatch
  PROVE  queue' = queue
<1>0. /\ batch \in Seq(SessionEvent) /\ pending \in Seq(SessionEvent)
      /\ <<>> \in Seq(SessionEvent)
  BY QueueIsSeq
<1>1. CASE SwapQueues
  <2>1. queue = (<<>> \o <<>>) \o pending /\ queue' = (<<>> \o pending) \o <<>>
    BY <1>1 DEF SwapQueues, Events!TakeBatch, queue
  <2> QED
    BY <1>0, <2>1, ConcatEmptySeq
<1>2. CASE NextEvent
  <2>1. queue = (<<>> \o batch) \o pending /\ queue' = (<<Head(batch)>> \o Tail(batch)) \o pending
    BY <1>2 DEF NextEvent, Events!NextItem, queue
  <2>2. batch # <<>> /\ <<Head(batch)>> \o Tail(batch) = batch
    BY <1>0, <1>2 DEF NextEvent, Events!NextItem
  <2> QED
    BY <1>0, <2>1, <2>2, ConcatEmptySeq
<1>3. CASE ClearBatch
  BY <1>3 DEF ClearBatch, Events!EndBatch, queue
<1> QED
  BY <1>1, <1>2, <1>3

\* Finishing an event takes it from the front.
LEMMA DispatchDrops ==
  ASSUME TypeOK, ItemInv, mainPc = "dispatch", mainPc' # "dispatch", UNCHANGED eventVars
  PROVE  /\ queue # <<>> /\ queue[1] = item
         /\ queue' = Tail(queue)
<1>0. /\ batch \in Seq(SessionEvent) /\ pending \in Seq(SessionEvent)
      /\ <<item>> \in Seq(SessionEvent) /\ item \in SessionEvent
  BY QueueIsSeq DEF ItemInv
<1>1. queue = (<<item>> \o batch) \o pending /\ queue' = (<<>> \o batch) \o pending
  BY DEF queue, eventVars
<1>2. batch \o pending \in Seq(SessionEvent)
  BY <1>0, ConcatProperties
<1>3. queue = <<item>> \o (batch \o pending) /\ queue' = batch \o pending
  BY <1>0, <1>1, ConcatAssociative, ConcatEmptySeq
<1> HIDE DEF queue
<1>4. /\ queue # <<>> /\ queue[1] = item /\ Tail(queue) = batch \o pending
  BY <1>0, <1>2, <1>3
<1> QED
  BY <1>3, <1>4

-----------------------------------------------------------------------------
LEMMA InitInv == Init => IInv
<1> SUFFICES ASSUME Init PROVE IInv
  OBVIOUS
<1>1. /\ mainPc = "update" /\ loopPc = "poll" /\ sessionSerial = 0 /\ current = 0
      /\ batch = <<>> /\ pending = <<>> /\ item = NoEvent
      /\ memory = [s \in Session |-> "unborn"] /\ sessionlist = {} /\ handlerSet = {}
      /\ handle = [s \in Session |-> "none"] /\ shutdownReq = [s \in Session |-> "none"]
  BY DEF Init, Events!Init
<1>2. TypeOK
  BY <1>1, SessionsAssumption DEF TypeOK, Events!ChannelTypeOK
<1>3. queue = <<>>
  BY <1>1 DEF queue
<1>4. QueuedSessionsLive /\ EventOrder
  BY <1>3 DEF QueuedSessionsLive, EventOrder
<1>5. \A s \in Session : ~ (s < 0)
  BY SessionsAssumption DEF Session
<1>6. HandleInv /\ DeleteInv /\ PostedInv /\ ItemInv
  BY <1>1, <1>3, <1>5 DEF HandleInv, DeleteInv, PostedInv, ItemInv
<1>7. LoopFindsSession /\ RegistryMatchesMemory /\ OnlyClosedAreDeleted
  BY <1>1 DEF LoopFindsSession, RegistryMatchesMemory, OnlyClosedAreDeleted
<1> QED
  BY <1>2, <1>4, <1>6, <1>7 DEF IInv

\* Every step keeps the types.
LEMMA TypeStep == TypeOK /\ ItemInv /\ [Next]_vars => TypeOK' /\ ItemInv'
<1> SUFFICES ASSUME TypeOK, ItemInv, [Next]_vars PROVE TypeOK' /\ ItemInv'
  OBVIOUS
<1> DEFINE Goal == TypeOK' /\ ItemInv'
<1>e. \A s \in Session : NewEvent(s) \in SessionEvent /\ CloseEvent(s) \in SessionEvent
  BY DEF NewEvent, CloseEvent, SessionEvent
<1>1. ASSUME OnNewConnection PROVE Goal
  <2>1. sessionSerial \in Session /\ sessionSerial \in Nat /\ sessionSerial' \in 0..MaxSessions
    <3>1. sessionSerial \in 0..MaxSessions /\ sessionSerial < MaxSessions
          /\ sessionSerial' = sessionSerial + 1
      BY <1>1 DEF OnNewConnection, createSession, TypeOK
    <3> QED
      BY <3>1, SessionsAssumption DEF Session
  <2> QED
    BY <1>1, <2>1 DEF OnNewConnection, createSession, eventVars, TypeOK, ItemInv,
       Events!ChannelTypeOK
<1>2. ASSUME AcceptSucceeds PROVE Goal
  BY <1>2 DEF AcceptSucceeds, eventVars, managerVars, TypeOK, ItemInv, Events!ChannelTypeOK
<1>3. ASSUME AcceptFails PROVE Goal
  BY <1>3 DEF AcceptFails, eventVars, managerVars, uvVars, TypeOK, ItemInv,
     Events!ChannelTypeOK
<1>4. ASSUME PostNew PROVE Goal
  <2>1. NewEvent(current) \in SessionEvent
    BY <1>4, <1>e DEF PostNew, TypeOK
  <2>2. Events!ChannelTypeOK'
    BY <1>4, <2>1, AppendProperties DEF PostNew, Events!Post, TypeOK, Events!ChannelTypeOK
  <2> QED
    BY <1>4, <2>2 DEF PostNew, Events!Post, managerVars, uvVars, TypeOK, ItemInv
<1>5. ASSUME StartReceive PROVE Goal
  <2>1. current \in Session
    BY <1>5 DEF StartReceive, TypeOK
  <2>2. handle' \in [Session -> {"none", "init", "open", "reading", "closing", "closed"}]
    BY <1>5, <2>1 DEF StartReceive, TypeOK
  <2> QED
    BY <1>5, <2>1, <2>2 DEF StartReceive, eventVars, managerVars, TypeOK, ItemInv,
       Events!ChannelTypeOK
<1>6. ASSUME NEW s \in Session, ReadEnds(s) PROVE Goal
  <2>1. s \in Nat
    BY SessionsAssumption DEF Session
  <2> QED
    BY <1>6, <2>1 DEF ReadEnds, eventVars, managerVars, uvVars, TypeOK, ItemInv,
       Events!ChannelTypeOK
<1>7. ASSUME CloseHandle PROVE Goal
  <2>1. shutdownReq' \in [Session -> {"none", "pending", "done"}]
    BY <1>7 DEF CloseHandle, TypeOK
  <2> QED
    BY <1>7, <2>1 DEF CloseHandle, eventVars, managerVars, TypeOK, ItemInv,
       Events!ChannelTypeOK
<1>8. ASSUME PostClose PROVE Goal
  <2>1. CloseEvent(current) \in SessionEvent
    BY <1>8, <1>e DEF PostClose, TypeOK
  <2>2. Events!ChannelTypeOK'
    BY <1>8, <2>1, AppendProperties DEF PostClose, Events!Post, TypeOK,
       Events!ChannelTypeOK
  <2> QED
    BY <1>8, <2>2 DEF PostClose, Events!Post, managerVars, uvVars, TypeOK, ItemInv
<1>9. ASSUME Disconnect PROVE Goal
  BY <1>9 DEF Disconnect, eventVars, managerVars, uvVars, TypeOK, ItemInv,
     Events!ChannelTypeOK
<1>10. ASSUME NEW s \in Session, On_Shutdown(s) PROVE Goal
  BY <1>10 DEF On_Shutdown, eventVars, managerVars, loopVars, TypeOK, ItemInv,
     Events!ChannelTypeOK
<1>11. ASSUME NEW s \in Session, On_Close(s) PROVE Goal
  BY <1>11 DEF On_Close, eventVars, managerVars, loopVars, TypeOK, ItemInv,
     Events!ChannelTypeOK
<1>12. ASSUME SwapQueues PROVE Goal
  BY <1>12 DEF SwapQueues, Events!TakeBatch, managerVars, uvVars, loopVars, TypeOK,
     ItemInv, Events!ChannelTypeOK
<1>13. ASSUME NextEvent PROVE Goal
  <2>1. batch \in Seq(SessionEvent) /\ batch # <<>> /\ batch' = Tail(batch) /\ item' = Head(batch)
    BY <1>13 DEF NextEvent, Events!NextItem, TypeOK, Events!ChannelTypeOK
  <2>2. batch' \in Seq(SessionEvent) /\ item' \in SessionEvent
    BY <2>1, HeadTailProperties
  <2> QED
    BY <1>13, <2>2 DEF NextEvent, Events!NextItem, managerVars, uvVars, loopVars, TypeOK,
       ItemInv, Events!ChannelTypeOK
<1>14. ASSUME DispatchNew PROVE Goal
  BY <1>14 DEF DispatchNew, eventVars, managerVars, uvVars, loopVars, TypeOK, ItemInv,
     Events!ChannelTypeOK
<1>15. ASSUME EraseSession PROVE Goal
  BY <1>15 DEF EraseSession, eventVars, uvVars, loopVars, TypeOK, ItemInv,
     Events!ChannelTypeOK
<1>16. ASSUME DeleteSession PROVE Goal
  BY <1>16 DEF DeleteSession, eventVars, uvVars, loopVars, TypeOK, ItemInv,
     Events!ChannelTypeOK
<1>17. ASSUME ClearBatch PROVE Goal
  BY <1>17 DEF ClearBatch, Events!EndBatch, managerVars, uvVars, loopVars, TypeOK, ItemInv,
     Events!ChannelTypeOK
<1>18. ASSUME UNCHANGED vars PROVE Goal
  BY <1>18 DEF vars, TypeOK, ItemInv, Events!ChannelTypeOK
<1> QED
  BY <1>1, <1>2, <1>3, <1>4, <1>5, <1>6, <1>7, <1>8, <1>9, <1>10, <1>11, <1>12, <1>13,
     <1>14, <1>15, <1>16, <1>17, <1>18 DEF Next, LoopStep, Callback, Main

\* Nothing but the event channel and update() changes the queue.
LEMMA SameQueue ==
  ASSUME UNCHANGED eventVars, mainPc = "dispatch" <=> mainPc' = "dispatch"
  PROVE  queue' = queue
BY DEF queue, eventVars

\* The entries of the queue.
LEMMA Entries ==
  ASSUME TypeOK, ItemInv
  PROVE  /\ DOMAIN queue = 1..Len(queue) /\ Len(queue) \in Nat /\ queue \in Seq(SessionEvent)
         /\ \A i \in 1..Len(queue) : /\ queue[i] \in SessionEvent
                                     /\ queue[i].session \in Session
                                     /\ queue[i].msgID \in {"new", "close"}
                                     /\ queue[i] = [msgID |-> queue[i].msgID,
                                                    session |-> queue[i].session]
<1>1. DOMAIN queue = 1..Len(queue) /\ Len(queue) \in Nat /\ queue \in Seq(SessionEvent)
  BY QueueIsSeq
<1>2. \A i \in 1..Len(queue) : queue[i] \in SessionEvent
  BY <1>1, ElementOfSeq
<1> QED
  BY <1>1, <1>2 DEF SessionEvent

LEMMA QueueDomain == TypeOK /\ ItemInv => DOMAIN queue = 1..Len(queue) /\ Len(queue) \in Nat
BY QueueIsSeq

\* What is said of the sessions, and what is said of the queue.
SessionsInv ==
  /\ HandleInv
  /\ DeleteInv
  /\ LoopFindsSession
  /\ RegistryMatchesMemory
  /\ OnlyClosedAreDeleted

QueueInv ==
  /\ PostedInv
  /\ QueuedSessionsLive
  /\ EventOrder

LEMMA SessionsStep ==
  ASSUME IInv, TypeOK', ItemInv', Next
  PROVE  SessionsInv'
<1>i. TypeOK /\ ItemInv /\ SessionsInv /\ QueueInv
  BY DEF IInv, SessionsInv, QueueInv
<1>d. mainPc = "delete" => item.session \in Session
  BY <1>i DEF SessionsInv, DeleteInv, SessionEvent
<1>1. ASSUME OnNewConnection PROVE SessionsInv'
  <2>1. /\ UNCHANGED <<handlerSet, mainPc, item>> /\ loopPc' = "accept" /\ current' = sessionSerial
        /\ sessionlist' = sessionlist \cup {sessionSerial}
        /\ \A s \in Session : /\ memory'[s] = IF s = sessionSerial THEN "live" ELSE memory[s]
                              /\ handle'[s] = IF s = sessionSerial THEN "init" ELSE handle[s]
    BY <1>1, <1>i DEF OnNewConnection, createSession, TypeOK, eventVars
  <2>2. /\ sessionSerial \in Session
        /\ \A s \in Session : s < sessionSerial' <=> s < sessionSerial \/ s = sessionSerial
        /\ memory[sessionSerial] = "unborn" /\ handle[sessionSerial] = "none"
    <3>1. sessionSerial \in 0..MaxSessions /\ sessionSerial < MaxSessions
          /\ sessionSerial' = sessionSerial + 1
      BY <1>1, <1>i DEF OnNewConnection, createSession, TypeOK
    <3>2. /\ sessionSerial \in Session /\ ~ (sessionSerial < sessionSerial)
          /\ \A s \in Session : s < sessionSerial' <=> s < sessionSerial \/ s = sessionSerial
      BY <3>1, SessionsAssumption DEF Session
    <3> QED
      BY <1>i, <3>2 DEF SessionsInv, HandleInv
  <2>3. DeleteInv'
    BY <1>i, <1>d, <2>1, <2>2 DEF SessionsInv, DeleteInv, Closed
  <2>4. HandleInv'
    BY <1>i, <2>1, <2>2 DEF SessionsInv, HandleInv, Closed
  <2>5. LoopFindsSession'
    BY <1>i, <2>1, <2>2 DEF SessionsInv, HandleInv, LoopFindsSession
  <2>6. RegistryMatchesMemory'
    BY <1>i, <1>d, <2>1, <2>2 DEF SessionsInv, DeleteInv, RegistryMatchesMemory
  <2>7. OnlyClosedAreDeleted'
    BY <1>i, <2>1, <2>2 DEF SessionsInv, OnlyClosedAreDeleted
  <2> QED
    BY <2>3, <2>4, <2>5, <2>6, <2>7 DEF SessionsInv
<1>2. ASSUME AcceptSucceeds PROVE SessionsInv'
  <2>1. /\ current \in Session /\ current' = current /\ loopPc' = "post new"
        /\ UNCHANGED <<sessionSerial, memory, sessionlist, handlerSet, mainPc, item>>
        /\ \A s \in Session : handle'[s] = IF s = current THEN "open" ELSE handle[s]
    BY <1>2, <1>i DEF AcceptSucceeds, TypeOK, managerVars, eventVars
  <2>2. memory[current] = "live" /\ handle[current] = "init" /\ loopPc = "accept"
    BY <1>2, <1>i DEF AcceptSucceeds, SessionsInv, HandleInv, LoopFindsSession
  <2>3. DeleteInv'
    BY <1>i, <1>d, <2>1, <2>2 DEF SessionsInv, DeleteInv, Closed
  <2>4. HandleInv'
    BY <1>i, <2>1, <2>2 DEF SessionsInv, HandleInv, Closed
  <2>5. LoopFindsSession'
    BY <1>i, <2>1, <2>2 DEF SessionsInv, HandleInv, LoopFindsSession
  <2>6. RegistryMatchesMemory'
    BY <1>i, <2>1, <2>2 DEF SessionsInv, RegistryMatchesMemory
  <2>7. OnlyClosedAreDeleted'
    BY <1>i, <2>1, <2>2 DEF SessionsInv, OnlyClosedAreDeleted
  <2> QED
    BY <2>3, <2>4, <2>5, <2>6, <2>7 DEF SessionsInv
<1>3. ASSUME AcceptFails PROVE SessionsInv'
  <2>1. /\ UNCHANGED <<sessionSerial, memory, sessionlist, handlerSet, handle, current, mainPc, item>>
        /\ loopPc = "accept" /\ loopPc' = "close"
    BY <1>3 DEF AcceptFails, loopVars, managerVars, uvVars, eventVars
  <2> QED
    BY <1>i, <2>1 DEF SessionsInv, HandleInv, DeleteInv, LoopFindsSession,
       RegistryMatchesMemory, OnlyClosedAreDeleted, Closed
<1>4. ASSUME PostNew PROVE SessionsInv'
  <2>1. /\ UNCHANGED <<sessionSerial, memory, sessionlist, handlerSet, handle, current, mainPc, item>>
        /\ loopPc = "post new" /\ loopPc' = "start receive"
    BY <1>4 DEF PostNew, Events!Post, loopVars, managerVars, uvVars, eventVars
  <2> QED
    BY <1>i, <2>1 DEF SessionsInv, HandleInv, DeleteInv, LoopFindsSession,
       RegistryMatchesMemory, OnlyClosedAreDeleted, Closed
<1>5. ASSUME StartReceive PROVE SessionsInv'
  <2>1. /\ current \in Session /\ handlerSet' = handlerSet \cup {current} /\ loopPc' = "poll"
        /\ UNCHANGED <<sessionSerial, memory, sessionlist, current, mainPc, item>>
        /\ \A s \in Session : \/ handle'[s] = handle[s]
                              \/ s = current /\ handle'[s] = "reading"
    BY <1>5, <1>i DEF StartReceive, TypeOK, managerVars, eventVars
  <2>2. memory[current] = "live" /\ handle[current] = "open"
    BY <1>5, <1>i DEF StartReceive, SessionsInv, HandleInv, LoopFindsSession
  <2>3. DeleteInv'
    BY <1>i, <1>d, <2>1, <2>2 DEF SessionsInv, DeleteInv, Closed
  <2>4. HandleInv'
    BY <1>i, <2>1, <2>2 DEF SessionsInv, HandleInv, Closed
  <2>5. LoopFindsSession'
    BY <1>i, <2>1, <2>2 DEF SessionsInv, HandleInv, LoopFindsSession
  <2>6. RegistryMatchesMemory'
    BY <1>i, <2>1, <2>2 DEF SessionsInv, RegistryMatchesMemory
  <2>7. OnlyClosedAreDeleted'
    BY <1>i, <2>1, <2>2 DEF SessionsInv, OnlyClosedAreDeleted
  <2> QED
    BY <2>3, <2>4, <2>5, <2>6, <2>7 DEF SessionsInv
<1>6. ASSUME NEW s \in Session, ReadEnds(s) PROVE SessionsInv'
  <2>1. /\ UNCHANGED <<sessionSerial, memory, sessionlist, handlerSet, handle, mainPc, item>>
        /\ handle[s] = "reading" /\ current' = s /\ loopPc' = "close"
    BY <1>6 DEF ReadEnds, loopVars, managerVars, uvVars, eventVars
  <2> QED
    BY <1>i, <2>1 DEF SessionsInv, HandleInv, DeleteInv, LoopFindsSession,
       RegistryMatchesMemory, OnlyClosedAreDeleted, Closed
<1>7. ASSUME CloseHandle PROVE SessionsInv'
  <2>1. /\ current \in Session /\ loopPc' \in {"post close", "disconnect"}
        /\ UNCHANGED <<sessionSerial, memory, sessionlist, handlerSet, current, mainPc, item>>
        /\ \A s \in Session : handle'[s] = IF s = current THEN "closing" ELSE handle[s]
    BY <1>7, <1>i DEF CloseHandle, TypeOK, managerVars, eventVars
  <2>2. memory[current] = "live" /\ handle[current] \in {"init", "reading"}
    BY <1>7, <1>i DEF CloseHandle, SessionsInv, HandleInv, LoopFindsSession
  <2>3. DeleteInv'
    BY <1>i, <1>d, <2>1, <2>2 DEF SessionsInv, DeleteInv, Closed
  <2>4. HandleInv'
    BY <1>i, <2>1, <2>2 DEF SessionsInv, HandleInv, Closed
  <2>5. LoopFindsSession'
    BY <1>i, <2>1, <2>2 DEF SessionsInv, HandleInv, LoopFindsSession
  <2>6. RegistryMatchesMemory'
    BY <1>i, <2>1, <2>2 DEF SessionsInv, RegistryMatchesMemory
  <2>7. OnlyClosedAreDeleted'
    BY <1>i, <2>1, <2>2 DEF SessionsInv, OnlyClosedAreDeleted
  <2> QED
    BY <2>3, <2>4, <2>5, <2>6, <2>7 DEF SessionsInv
<1>8. ASSUME PostClose PROVE SessionsInv'
  <2>1. /\ UNCHANGED <<sessionSerial, memory, sessionlist, handlerSet, handle, current, mainPc, item>>
        /\ loopPc' = "disconnect"
    BY <1>8 DEF PostClose, Events!Post, loopVars, managerVars, uvVars, eventVars
  <2> QED
    BY <1>i, <2>1 DEF SessionsInv, HandleInv, DeleteInv, LoopFindsSession,
       RegistryMatchesMemory, OnlyClosedAreDeleted, Closed
<1>9. ASSUME Disconnect PROVE SessionsInv'
  <2>1. /\ UNCHANGED <<sessionSerial, memory, sessionlist, handlerSet, handle, current, mainPc, item>>
        /\ loopPc' = "poll"
    BY <1>9 DEF Disconnect, loopVars, managerVars, uvVars, eventVars
  <2> QED
    BY <1>i, <2>1 DEF SessionsInv, HandleInv, DeleteInv, LoopFindsSession,
       RegistryMatchesMemory, OnlyClosedAreDeleted, Closed
<1>10. ASSUME NEW s \in Session, On_Shutdown(s) PROVE SessionsInv'
  <2>1. /\ UNCHANGED <<sessionSerial, memory, sessionlist, handlerSet, handle, current, mainPc, item>>
        /\ loopPc' = loopPc
    BY <1>10 DEF On_Shutdown, loopVars, managerVars, uvVars, eventVars
  <2> QED
    BY <1>i, <2>1 DEF SessionsInv, HandleInv, DeleteInv, LoopFindsSession,
       RegistryMatchesMemory, OnlyClosedAreDeleted, Closed
<1>11. ASSUME NEW s \in Session, On_Close(s) PROVE SessionsInv'
  <2>1. /\ UNCHANGED <<sessionSerial, memory, sessionlist, handlerSet, current, loopPc, mainPc, item>>
        /\ \A r \in Session : handle'[r] = IF r = s THEN "closed" ELSE handle[r]
    BY <1>11, <1>i DEF On_Close, TypeOK, loopVars, managerVars, eventVars
  <2>2. handle[s] = "closing" /\ loopPc = "poll"
    BY <1>11 DEF On_Close
  <2>3. DeleteInv'
    BY <1>i, <1>d, <2>1, <2>2 DEF SessionsInv, DeleteInv, Closed
  <2>4. HandleInv'
    BY <1>i, <2>1, <2>2 DEF SessionsInv, HandleInv, Closed
  <2>5. LoopFindsSession'
    BY <1>i, <2>1, <2>2 DEF SessionsInv, HandleInv, LoopFindsSession
  <2>6. RegistryMatchesMemory'
    BY <1>i, <1>d, <2>1, <2>2 DEF SessionsInv, RegistryMatchesMemory
  <2>7. OnlyClosedAreDeleted'
    BY <1>i, <2>1, <2>2 DEF SessionsInv, OnlyClosedAreDeleted
  <2> QED
    BY <2>3, <2>4, <2>5, <2>6, <2>7 DEF SessionsInv
<1>12. ASSUME SwapQueues PROVE SessionsInv'
  <2>1. /\ UNCHANGED <<sessionSerial, memory, sessionlist, handlerSet, handle, current, mainPc, item>>
        /\ loopPc' = loopPc
    BY <1>12 DEF SwapQueues, Events!TakeBatch, loopVars, managerVars, uvVars, eventVars
  <2> QED
    BY <1>i, <2>1 DEF SessionsInv, HandleInv, DeleteInv, LoopFindsSession,
       RegistryMatchesMemory, OnlyClosedAreDeleted, Closed
<1>13. ASSUME NextEvent PROVE SessionsInv'
  <2>1. /\ UNCHANGED <<sessionSerial, memory, sessionlist, handlerSet, handle, current, loopPc>>
        /\ mainPc = "update" /\ mainPc' = "dispatch"
    BY <1>13 DEF NextEvent, Events!NextItem, loopVars, managerVars, uvVars, eventVars
  <2> QED
    BY <1>i, <2>1 DEF SessionsInv, HandleInv, DeleteInv, LoopFindsSession,
       RegistryMatchesMemory, OnlyClosedAreDeleted, Closed
<1>14. ASSUME DispatchNew PROVE SessionsInv'
  <2>1. /\ UNCHANGED <<sessionSerial, memory, sessionlist, handlerSet, handle, current, loopPc>>
        /\ mainPc = "dispatch" /\ mainPc' = "update"
    BY <1>14 DEF DispatchNew, loopVars, managerVars, uvVars, eventVars
  <2> QED
    BY <1>i, <2>1 DEF SessionsInv, HandleInv, DeleteInv, LoopFindsSession,
       RegistryMatchesMemory, OnlyClosedAreDeleted, Closed
<1>15. ASSUME EraseSession PROVE SessionsInv'
  <2>1. item \in SessionEvent /\ item.session \in Session /\ item = CloseEvent(item.session)
    BY <1>15, <1>i DEF EraseSession, ItemInv, SessionEvent, CloseEvent
  <2>2. queue # <<>> /\ queue[1] = item /\ 1 \in 1..Len(queue)
    <3>1. mainPc = "dispatch" /\ mainPc' # "dispatch" /\ UNCHANGED eventVars
      BY <1>15 DEF EraseSession
    <3>2. queue # <<>> /\ queue[1] = item
      BY <1>i, <3>1, DispatchDrops
    <3> QED
      BY <1>i, <3>2, QueueIsSeq, EmptySeq
  <2>3. /\ item.session \in sessionlist /\ memory[item.session] = "live"
        /\ item.msgID = "close"
    <3>1. queue[1].session \in sessionlist /\ memory[queue[1].session] = "live"
      BY <1>i, <2>2, Entries DEF QueueInv, QueuedSessionsLive
    <3> QED
      BY <1>15, <2>2, <3>1 DEF EraseSession
  <2>4. Closed(item.session) /\ (loopPc = "post close" => current # item.session)
    BY <1>i, <2>1, <2>2, <2>3 DEF QueueInv, PostedInv
  <2>5. DeleteInv'
    BY <1>15, <2>1, <2>3, <2>4 DEF EraseSession, DeleteInv, Closed, eventVars, loopVars,
       uvVars
  <2>6. HandleInv' /\ LoopFindsSession' /\ OnlyClosedAreDeleted'
    BY <1>15, <1>i DEF EraseSession, SessionsInv, HandleInv, LoopFindsSession,
       OnlyClosedAreDeleted, Closed, loopVars, uvVars
  <2>7. RegistryMatchesMemory'
    BY <1>15, <1>i, <2>3 DEF EraseSession, SessionsInv, RegistryMatchesMemory, eventVars
  <2> QED
    BY <2>5, <2>6, <2>7 DEF SessionsInv
<1>16. ASSUME DeleteSession PROVE SessionsInv'
  <2>1. /\ item.session \in Session /\ mainPc = "delete" /\ mainPc' = "update"
        /\ UNCHANGED <<sessionSerial, sessionlist, handlerSet, handle, loopPc, current, item>>
        /\ \A s \in Session : memory'[s] = IF s = item.session THEN "deleted" ELSE memory[s]
    BY <1>16, <1>d, <1>i DEF DeleteSession, TypeOK, loopVars, uvVars, eventVars
  <2>2. /\ memory[item.session] = "live" /\ handle[item.session] \in {"closing", "closed"}
        /\ loopPc = "post close" => current # item.session
        /\ loopPc # "poll" => current \in Session
        /\ loopPc \notin {"poll", "post close", "disconnect"} =>
             handle[current] \in {"init", "open", "reading"}
    BY <1>i, <2>1 DEF SessionsInv, DeleteInv, HandleInv, Closed, TypeOK
  <2>3. DeleteInv'
    BY <1>i, <1>d, <2>1, <2>2 DEF SessionsInv, DeleteInv, Closed
  <2>4. HandleInv'
    BY <1>i, <2>1, <2>2 DEF SessionsInv, HandleInv, Closed
  <2>5. LoopFindsSession'
    BY <1>i, <2>1, <2>2 DEF SessionsInv, HandleInv, LoopFindsSession
  <2>6. RegistryMatchesMemory'
    BY <1>i, <2>1, <2>2 DEF SessionsInv, RegistryMatchesMemory
  <2>7. OnlyClosedAreDeleted'
    BY <1>i, <2>1, <2>2 DEF SessionsInv, OnlyClosedAreDeleted
  <2> QED
    BY <2>3, <2>4, <2>5, <2>6, <2>7 DEF SessionsInv
<1>17. ASSUME ClearBatch PROVE SessionsInv'
  <2>1. /\ UNCHANGED <<sessionSerial, memory, sessionlist, handlerSet, handle, current, loopPc>>
        /\ mainPc = "update" /\ mainPc' = "update"
    BY <1>17 DEF ClearBatch, Events!EndBatch, loopVars, managerVars, uvVars, eventVars
  <2> QED
    BY <1>i, <2>1 DEF SessionsInv, HandleInv, DeleteInv, LoopFindsSession,
       RegistryMatchesMemory, OnlyClosedAreDeleted, Closed
<1> QED
  BY <1>1, <1>2, <1>3, <1>4, <1>5, <1>6, <1>7, <1>8, <1>9, <1>10, <1>11, <1>12, <1>13,
     <1>14, <1>15, <1>16, <1>17
     DEF Next, LoopStep, Callback, Main

LEMMA QueueStep ==
  ASSUME IInv, TypeOK', ItemInv', Next
  PROVE  QueueInv'
<1>i. TypeOK /\ ItemInv /\ SessionsInv /\ QueueInv
  BY DEF IInv, SessionsInv, QueueInv
<1>e. /\ DOMAIN queue = 1..Len(queue) /\ Len(queue) \in Nat /\ queue \in Seq(SessionEvent)
      /\ \A i \in 1..Len(queue) : /\ queue[i] \in SessionEvent
                                  /\ queue[i].session \in Session
                                  /\ queue[i].msgID \in {"new", "close"}
                                  /\ queue[i] = [msgID |-> queue[i].msgID,
                                                 session |-> queue[i].session]
  BY <1>i, Entries
<1>p. DOMAIN queue' = 1..Len(queue') /\ Len(queue') \in Nat
  <2>1. TypeOK' /\ ItemInv' => (DOMAIN queue = 1..Len(queue) /\ Len(queue) \in Nat)'
    BY QueueDomain, PTL
  <2> QED
    BY <2>1
<1>1. ASSUME OnNewConnection PROVE QueueInv'
  <2>1. queue' = queue
    BY <1>1, SameQueue DEF OnNewConnection, createSession, eventVars
  <2> QED
    BY <1>1, <1>i, <1>e, <2>1 DEF OnNewConnection, createSession, QueueInv, PostedInv,
       QueuedSessionsLive, EventOrder, SessionsInv, HandleInv, LoopFindsSession, Closed,
       TypeOK, loopVars, managerVars, uvVars, eventVars
<1>2. ASSUME AcceptSucceeds PROVE QueueInv'
  <2>1. queue' = queue
    BY <1>2, SameQueue DEF AcceptSucceeds, eventVars
  <2> QED
    BY <1>2, <1>i, <1>e, <2>1 DEF AcceptSucceeds, QueueInv, PostedInv, QueuedSessionsLive,
       EventOrder, SessionsInv, HandleInv, LoopFindsSession, Closed, TypeOK, loopVars,
       managerVars, uvVars, eventVars
<1>3. ASSUME AcceptFails PROVE QueueInv'
  <2>1. queue' = queue
    BY <1>3, SameQueue DEF AcceptFails, eventVars
  <2> QED
    BY <1>3, <1>i, <1>e, <2>1 DEF AcceptFails, QueueInv, PostedInv, QueuedSessionsLive,
       EventOrder, SessionsInv, HandleInv, LoopFindsSession, Closed, TypeOK, loopVars,
       managerVars, uvVars, eventVars
<1>4. ASSUME PostNew PROVE QueueInv'
  <2>1. NewEvent(current) \in SessionEvent /\ current \in Session
    BY <1>4 DEF PostNew, TypeOK, NewEvent, CloseEvent, SessionEvent
  <2>2. queue' = Append(queue, NewEvent(current))
    BY <1>4, <1>i, <2>1, PostAppends DEF PostNew
  <2>3. /\ Len(queue') = Len(queue) + 1 /\ queue'[Len(queue) + 1] = NewEvent(current)
        /\ \A i \in 1..Len(queue) : queue'[i] = queue[i]
    BY <1>e, <2>1, <2>2, AppendProperties
  <2>4. /\ DOMAIN queue' = 1..Len(queue')
        /\ \A i \in 1..Len(queue') : \/ i \in 1..Len(queue) /\ queue'[i] = queue[i]
                                     \/ i = Len(queue) + 1 /\ queue'[i] = NewEvent(current)
        /\ \A i, j \in 1..Len(queue') : i < j => i \in 1..Len(queue)
    BY <1>e, <1>p, <2>3
  <2>5. UNCHANGED <<handle, memory, sessionlist, current>> /\ loopPc' = "start receive"
    BY <1>4 DEF PostNew, managerVars, uvVars
  <2>6. /\ memory[current] = "live" /\ current \in sessionlist
        /\ \A i \in 1..Len(queue) : queue[i].session # current
    BY <1>4, <1>i, <2>1 DEF PostNew, SessionsInv, QueueInv, LoopFindsSession, HandleInv,
       DeleteInv, Closed, RegistryMatchesMemory, PostedInv
  <2>r. NewEvent(current).msgID = "new" /\ NewEvent(current).session = current
    BY DEF NewEvent
  <2>7. PostedInv'
    <3>1. \A i \in 1..Len(queue') :
            queue'[i].msgID = "close" => handle[queue'[i].session] \in {"closing", "closed"}
      BY <1>i, <2>4, <2>6, <2>r DEF QueueInv, PostedInv, Closed
    <3> QED
      BY <2>5, <3>1 DEF PostedInv, Closed
  <2>9. QueuedSessionsLive'
    <3>1. \A i \in DOMAIN queue' :
            queue'[i].session \in sessionlist /\ memory[queue'[i].session] = "live"
      BY <1>i, <1>e, <2>4, <2>6, <2>r DEF QueueInv, QueuedSessionsLive
    <3> QED
      BY <2>5, <3>1 DEF QueuedSessionsLive
  <2>8. EventOrder'
    BY <1>i, <1>e, <2>1, <2>3, <2>4, <2>6 DEF QueueInv, EventOrder, NewEvent, CloseEvent
  <2> QED
    BY <2>7, <2>8, <2>9 DEF QueueInv
<1>5. ASSUME StartReceive PROVE QueueInv'
  <2>1. queue' = queue
    BY <1>5, SameQueue DEF StartReceive, eventVars
  <2>2. \A s \in Session : Closed(s) => Closed(s)'
    BY <1>5, <1>i DEF StartReceive, Closed, SessionsInv, HandleInv, TypeOK
  <2> QED
    BY <1>5, <1>i, <1>e, <2>1, <2>2 DEF StartReceive, QueueInv, PostedInv,
       QueuedSessionsLive, EventOrder, managerVars
<1>6. ASSUME NEW s \in Session, ReadEnds(s) PROVE QueueInv'
  <2>1. queue' = queue
    BY <1>6, SameQueue DEF ReadEnds, eventVars
  <2> QED
    BY <1>6, <1>i, <1>e, <2>1 DEF ReadEnds, QueueInv, PostedInv, QueuedSessionsLive,
       EventOrder, SessionsInv, HandleInv, LoopFindsSession, Closed, TypeOK, loopVars,
       managerVars, uvVars, eventVars
<1>7. ASSUME CloseHandle PROVE QueueInv'
  <2>1. queue' = queue /\ current' = current /\ UNCHANGED <<memory, sessionlist>>
        /\ loopPc' \notin {"accept", "post new"}
    BY <1>7, SameQueue DEF CloseHandle, eventVars, managerVars
  <2>2. \A s \in Session : Closed(s) => Closed(s)'
    BY <1>7, <1>i DEF CloseHandle, Closed, TypeOK
  <2>3. \A i \in 1..Len(queue) : queue[i] # CloseEvent(current)
    <3>1. ~ Closed(current)
      BY <1>7, <1>i DEF CloseHandle, SessionsInv, HandleInv, Closed
    <3> QED
      <4> SUFFICES ASSUME NEW i \in 1..Len(queue), queue[i] = CloseEvent(current) PROVE FALSE
        OBVIOUS
      <4>1. queue[i].msgID = "close" /\ queue[i].session = current
        BY DEF CloseEvent
      <4> QED
        BY <1>i, <3>1, <4>1 DEF QueueInv, PostedInv
  <2> QED
    BY <1>i, <1>e, <2>1, <2>2, <2>3 DEF QueueInv, PostedInv, QueuedSessionsLive, EventOrder
<1>8. ASSUME PostClose PROVE QueueInv'
  <2>1. CloseEvent(current) \in SessionEvent /\ current \in Session
    BY <1>8 DEF PostClose, TypeOK, NewEvent, CloseEvent, SessionEvent
  <2>2. queue' = Append(queue, CloseEvent(current))
    BY <1>8, <1>i, <2>1, PostAppends DEF PostClose
  <2>3. /\ Len(queue') = Len(queue) + 1 /\ queue'[Len(queue) + 1] = CloseEvent(current)
        /\ \A i \in 1..Len(queue) : queue'[i] = queue[i]
    BY <1>e, <2>1, <2>2, AppendProperties
  <2>4. /\ DOMAIN queue' = 1..Len(queue')
        /\ \A i \in 1..Len(queue') : \/ i \in 1..Len(queue) /\ queue'[i] = queue[i]
                                     \/ i = Len(queue) + 1 /\ queue'[i] = CloseEvent(current)
        /\ \A i, j \in 1..Len(queue') : i < j => i \in 1..Len(queue)
    BY <1>e, <1>p, <2>3
  <2>5. UNCHANGED <<handle, memory, sessionlist, current>> /\ loopPc' = "disconnect"
    BY <1>8 DEF PostClose, managerVars, uvVars
  <2>6. /\ memory[current] = "live" /\ current \in sessionlist /\ Closed(current)
        /\ \A i \in 1..Len(queue) : queue[i] # CloseEvent(current)
    BY <1>8, <1>i, <2>1 DEF PostClose, SessionsInv, QueueInv, LoopFindsSession, HandleInv,
       DeleteInv, RegistryMatchesMemory, PostedInv
  <2>r. CloseEvent(current).msgID = "close" /\ CloseEvent(current).session = current
    BY DEF CloseEvent
  <2>7. PostedInv'
    <3>1. \A i \in 1..Len(queue') :
            queue'[i].msgID = "close" => handle[queue'[i].session] \in {"closing", "closed"}
      BY <1>i, <2>4, <2>6, <2>r DEF QueueInv, PostedInv, Closed
    <3> QED
      BY <2>5, <3>1 DEF PostedInv, Closed
  <2>9. QueuedSessionsLive'
    <3>1. \A i \in DOMAIN queue' :
            queue'[i].session \in sessionlist /\ memory[queue'[i].session] = "live"
      BY <1>i, <1>e, <2>4, <2>6, <2>r DEF QueueInv, QueuedSessionsLive
    <3> QED
      BY <2>5, <3>1 DEF QueuedSessionsLive
  <2>8. EventOrder'
    BY <1>i, <1>e, <2>1, <2>3, <2>4, <2>6 DEF QueueInv, EventOrder, NewEvent, CloseEvent
  <2> QED
    BY <2>7, <2>8, <2>9 DEF QueueInv
<1>9. ASSUME Disconnect PROVE QueueInv'
  <2>1. queue' = queue
    BY <1>9, SameQueue DEF Disconnect, eventVars
  <2> QED
    BY <1>9, <1>i, <1>e, <2>1 DEF Disconnect, QueueInv, PostedInv, QueuedSessionsLive,
       EventOrder, SessionsInv, HandleInv, LoopFindsSession, Closed, TypeOK, loopVars,
       managerVars, uvVars, eventVars
<1>10. ASSUME NEW s \in Session, On_Shutdown(s) PROVE QueueInv'
  <2>1. queue' = queue
    BY <1>10, SameQueue DEF On_Shutdown, eventVars
  <2> QED
    BY <1>10, <1>i, <1>e, <2>1 DEF On_Shutdown, QueueInv, PostedInv, QueuedSessionsLive,
       EventOrder, SessionsInv, HandleInv, LoopFindsSession, Closed, TypeOK, loopVars,
       managerVars, uvVars, eventVars
<1>11. ASSUME NEW s \in Session, On_Close(s) PROVE QueueInv'
  <2>1. queue' = queue
    BY <1>11, SameQueue DEF On_Close, eventVars
  <2> QED
    BY <1>11, <1>i, <1>e, <2>1 DEF On_Close, QueueInv, PostedInv, QueuedSessionsLive,
       EventOrder, SessionsInv, HandleInv, LoopFindsSession, Closed, TypeOK, loopVars,
       managerVars, uvVars, eventVars
<1>12. ASSUME SwapQueues PROVE QueueInv'
  <2>1. queue' = queue
    BY <1>12, <1>i, BatchKeepsQueue
  <2> QED
    BY <1>12, <1>i, <1>e, <2>1 DEF SwapQueues, QueueInv, PostedInv, QueuedSessionsLive,
       EventOrder, SessionsInv, HandleInv, LoopFindsSession, Closed, TypeOK, loopVars,
       managerVars, uvVars, eventVars
<1>13. ASSUME NextEvent PROVE QueueInv'
  <2>1. queue' = queue
    BY <1>13, <1>i, BatchKeepsQueue
  <2> QED
    BY <1>13, <1>i, <1>e, <2>1 DEF NextEvent, QueueInv, PostedInv, QueuedSessionsLive,
       EventOrder, SessionsInv, HandleInv, LoopFindsSession, Closed, TypeOK, loopVars,
       managerVars, uvVars, eventVars
<1>14. ASSUME DispatchNew PROVE QueueInv'
  <2>1. queue # <<>> /\ queue[1] = item /\ queue' = Tail(queue)
    <3>1. mainPc = "dispatch" /\ mainPc' # "dispatch" /\ UNCHANGED eventVars
      BY <1>14 DEF DispatchNew
    <3> QED
      BY <1>i, <3>1, DispatchDrops
  <2>2. Len(queue') = Len(queue) - 1 /\ \A i \in 1..Len(queue') : queue'[i] = queue[i + 1]
    BY <1>e, <2>1, HeadTailProperties
  <2>3. /\ DOMAIN queue' = 1..Len(queue')
        /\ \A i \in 1..Len(queue') : i + 1 \in 1..Len(queue) /\ 1 < i + 1
        /\ \A i \in DOMAIN queue' : i + 1 \in DOMAIN queue /\ queue'[i] = queue[i + 1]
        /\ \A i, j \in DOMAIN queue' : i < j => i + 1 < j + 1
        /\ 1 \in 1..Len(queue)
    <3>2. Len(queue) \in Nat /\ Len(queue) # 0
      BY <1>e, <2>1, EmptySeq
    <3> QED
      BY <1>e, <1>p, <2>2, <3>2
  <2>4. PostedInv'
    BY <1>14, <1>i, <2>2, <2>3 DEF DispatchNew, QueueInv, PostedInv, Closed, loopVars,
       uvVars
  <2>5. QueuedSessionsLive'
    BY <1>14, <1>i, <2>3 DEF DispatchNew, QueueInv, QueuedSessionsLive, managerVars
  <2>6. EventOrder'
    BY <1>i, <2>3 DEF QueueInv, EventOrder
  <2> QED
    BY <2>4, <2>5, <2>6 DEF QueueInv
<1>15. ASSUME EraseSession PROVE QueueInv'
  <2>1. queue # <<>> /\ queue[1] = item /\ queue' = Tail(queue)
    <3>1. mainPc = "dispatch" /\ mainPc' # "dispatch" /\ UNCHANGED eventVars
      BY <1>15 DEF EraseSession
    <3> QED
      BY <1>i, <3>1, DispatchDrops
  <2>2. Len(queue') = Len(queue) - 1 /\ \A i \in 1..Len(queue') : queue'[i] = queue[i + 1]
    BY <1>e, <2>1, HeadTailProperties
  <2>3. /\ DOMAIN queue' = 1..Len(queue')
        /\ \A i \in 1..Len(queue') : i + 1 \in 1..Len(queue) /\ 1 < i + 1
        /\ \A i \in DOMAIN queue' : i + 1 \in DOMAIN queue /\ queue'[i] = queue[i + 1]
        /\ \A i, j \in DOMAIN queue' : i < j => i + 1 < j + 1
        /\ 1 \in 1..Len(queue)
    <3>2. Len(queue) \in Nat /\ Len(queue) # 0
      BY <1>e, <2>1, EmptySeq
    <3> QED
      BY <1>e, <1>p, <2>2, <3>2
  <2>4. \A i \in 1..Len(queue') : queue[i + 1].session # item.session
    BY <1>15, <1>i, <1>e, <2>1, <2>3 DEF EraseSession, QueueInv, EventOrder
  <2>5. PostedInv'
    BY <1>15, <1>i, <2>2, <2>3 DEF EraseSession, QueueInv, PostedInv, Closed, loopVars,
       uvVars
  <2>6. QueuedSessionsLive'
    BY <1>15, <1>i, <2>3, <2>4 DEF EraseSession, QueueInv, QueuedSessionsLive
  <2>7. EventOrder'
    BY <1>i, <2>3 DEF QueueInv, EventOrder
  <2> QED
    BY <2>5, <2>6, <2>7 DEF QueueInv
<1>16. ASSUME DeleteSession PROVE QueueInv'
  <2>1. queue' = queue
    BY <1>16, SameQueue DEF DeleteSession, eventVars
  <2>2. \A i \in 1..Len(queue) : queue[i].session # item.session
    BY <1>16, <1>i, <1>e DEF DeleteSession, SessionsInv, QueueInv, QueuedSessionsLive,
       RegistryMatchesMemory
  <2>3. \A s \in Session : s # item.session => memory'[s] = memory[s]
    BY <1>16, <1>i DEF DeleteSession, TypeOK
  <2> QED
    BY <1>16, <1>i, <1>e, <2>1, <2>2, <2>3 DEF DeleteSession, QueueInv, PostedInv,
       QueuedSessionsLive, EventOrder, Closed, loopVars, uvVars
<1>17. ASSUME ClearBatch PROVE QueueInv'
  <2>1. queue' = queue
    BY <1>17, <1>i, BatchKeepsQueue
  <2> QED
    BY <1>17, <1>i, <1>e, <2>1 DEF ClearBatch, QueueInv, PostedInv, QueuedSessionsLive,
       EventOrder, SessionsInv, HandleInv, LoopFindsSession, Closed, TypeOK, loopVars,
       managerVars, uvVars, eventVars
<1> QED
  BY <1>1, <1>2, <1>3, <1>4, <1>5, <1>6, <1>7, <1>8, <1>9, <1>10, <1>11, <1>12, <1>13,
     <1>14, <1>15, <1>16, <1>17
     DEF Next, LoopStep, Callback, Main

LEMMA InvStep == IInv /\ [Next]_vars => IInv'
<1> SUFFICES ASSUME IInv, [Next]_vars PROVE IInv'
  OBVIOUS
<1>1. TypeOK' /\ ItemInv'
  BY TypeStep DEF IInv
<1>2. CASE Next
  BY <1>1, <1>2, SessionsStep, QueueStep DEF IInv, SessionsInv, QueueInv
<1>3. CASE UNCHANGED vars
  <2>1. queue' = queue
    BY <1>3, SameQueue DEF vars, eventVars
  <2> QED
    BY <1>1, <1>3, <2>1 DEF vars, IInv, HandleInv, DeleteInv, PostedInv,
       QueuedSessionsLive, EventOrder, LoopFindsSession, RegistryMatchesMemory,
       OnlyClosedAreDeleted, Closed
<1> QED
  BY <1>2, <1>3

LEMMA Invariant == Spec => []IInv
BY InitInv, InvStep, PTL DEF Spec

-----------------------------------------------------------------------------
(* The theorems. *)

\* Every variable of the two threads, of libuv and of the event channel
\* keeps its type.
THEOREM TypeCorrect == Spec => []TypeOK
<1>1. IInv => TypeOK
  BY DEF IInv
<1> QED
  BY <1>1, Invariant, PTL

\* No event of ServerCore's queue ever carries the pointer of a session that is
\* deleted or out of the map, with any number of connections.
THEOREM QueueHoldsLiveSessions == Spec => []QueuedSessionsLive
<1>1. IInv => QueuedSessionsLive
  BY DEF IInv
<1> QED
  BY <1>1, Invariant, PTL

\* In ServerCore's queue a session's arrival comes before its close and neither
\* comes twice, however the two threads interleave.
THEOREM EventsStayOrdered == Spec => []EventOrder
<1>1. IInv => EventOrder
  BY DEF IInv
<1> QED
  BY <1>1, Invariant, PTL

\* Up to the post of the close event the loop thread never works on a session
\* that removeSession deleted.
THEOREM LoopWorksOnLiveSessions == Spec => []LoopFindsSession
<1>1. IInv => LoopFindsSession
  BY DEF IInv
<1> QED
  BY <1>1, Invariant, PTL

\* SessionManager's map and the Session objects in memory agree but for the
\* session between the erase and the delete of removeSession.
THEOREM RegistryIsExact == Spec => []RegistryMatchesMemory
<1>1. IInv => RegistryMatchesMemory
  BY DEF IInv
<1> QED
  BY <1>1, Invariant, PTL

\* removeSession deletes no session whose handle was not given to uv_close.
THEOREM DeletedAreClosed == Spec => []OnlyClosedAreDeleted
<1>1. IInv => OnlyClosedAreDeleted
  BY DEF IInv
<1> QED
  BY <1>1, Invariant, PTL
=============================================================================
