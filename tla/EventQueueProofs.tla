-------------------------- MODULE EventQueueProofs --------------------------
(***************************************************************************)
(* What TLC checks of EventQueue on two producers, proved for every set of *)
(* producers, every set of packets and every bound on the posts.           *)
(***************************************************************************)
EXTENDS EventQueue, SequenceTheorems, TLAPS

-----------------------------------------------------------------------------
(* The inductive invariant. *)

\* The spin lock excludes: whoever is between Lock and Unlock is alone there,
\* and the flag is set.
LockInv ==
  /\ \A p \in Producers : InProducerSection(p) => m_flag /\ ~ InSwap
  /\ \A p, q \in Producers : InProducerSection(p) /\ InProducerSection(q) => p = q
  /\ InSwap => m_flag

\* The two pointers name different deques except half-way through the swap,
\* and the saved pointer makes up for it then.
PointerInv ==
  /\ mainPc # "swapped half" => recvDataQueue # dispathQueue
  /\ mainPc = "swapped half" => recvDataQueue = dispathQueue /\ saved # dispathQueue
  /\ \A p \in Producers : pc[p] = "push" => target[p] = recvDataQueue

\* What is being posted is a packet; nothing is being handled outside the loop.
ItemInv ==
  /\ \A p \in Producers : pc[p] \in {"lock", "deref", "push"} => packet[p] \in Event
  /\ mainPc # "iterate" => item = NoEvent

IInv ==
  /\ TypeOK
  /\ LockInv
  /\ PointerInv
  /\ SwapsInEmptyDeque
  /\ ItemInv

\* The invariant implies what the iteration of update() relies on.
LEMMA InvImpliesNoPush == IInv => NoPushWhileIterating
BY DEF IInv, PointerInv, NoPushWhileIterating

-----------------------------------------------------------------------------
LEMMA InitInv == Init => IInv
<1> SUFFICES ASSUME Init PROVE IInv
  OBVIOUS
<1> USE DEF Init, Deques
<1>1. TypeOK
  <2>1. deque \in [Deques -> Seq(Event)]
    OBVIOUS
  <2>2. posted \in 0..MaxPosts
    BY PostsAssumption
  <2>3. itor \in Nat \ {0}
    OBVIOUS
  <2>4. m_flag \in BOOLEAN /\ saved \in Deques /\ item \in Event \cup {NoEvent}
    OBVIOUS
  <2>5. recvDataQueue \in Deques /\ dispathQueue \in Deques
    OBVIOUS
  <2> QED
    BY <2>1, <2>2, <2>3, <2>4, <2>5 DEF TypeOK
<1>2. LockInv /\ PointerInv /\ SwapsInEmptyDeque /\ ItemInv
  BY DEF LockInv, PointerInv, SwapsInEmptyDeque, ItemInv, InProducerSection, InSwap
<1> QED
  BY <1>1, <1>2 DEF IInv

\* Every step keeps the types; what is pushed is a packet by ItemInv.
LEMMA TypeStep == IInv /\ [Next]_vars => TypeOK'
<1> SUFFICES ASSUME TypeOK, ItemInv, [Next]_vars PROVE TypeOK'
  BY DEF IInv
<1>1. ASSUME NEW p \in Producers, NEW e \in Event, BeginPost(p, e) PROVE TypeOK'
  <2>1. posted \in 0..MaxPosts /\ posted < MaxPosts /\ posted' = posted + 1
    BY <1>1 DEF BeginPost, TypeOK
  <2>2. posted' \in 0..MaxPosts
    BY <2>1, PostsAssumption
  <2> QED
    BY <1>1, <2>2 DEF BeginPost, mainVars, TypeOK
<1>2. ASSUME NEW p \in Producers, PostLock(p) PROVE TypeOK'
  BY <1>2 DEF PostLock, Acquire, mainVars, TypeOK
<1>3. ASSUME NEW p \in Producers, PostDeref(p) PROVE TypeOK'
  BY <1>3 DEF PostDeref, mainVars, TypeOK
<1>4. ASSUME NEW p \in Producers, PostPush(p) PROVE TypeOK'
  <2>1. packet[p] \in Event
    BY <1>4 DEF PostPush, ItemInv
  <2>2. target[p] \in Deques /\ deque[target[p]] \in Seq(Event)
    BY DEF TypeOK
  <2>3. Append(deque[target[p]], packet[p]) \in Seq(Event)
    BY <2>1, <2>2
  <2> QED
    BY <1>4, <2>3 DEF PostPush, mainVars, TypeOK
<1>5. ASSUME NEW p \in Producers, PostUnlock(p) PROVE TypeOK'
  BY <1>5 DEF PostUnlock, Unlock, mainVars, TypeOK
<1>6. CASE UpdateLock
  BY <1>6 DEF UpdateLock, Acquire, producerVars, TypeOK
<1>7. CASE SwapFirst
  BY <1>7 DEF SwapFirst, producerVars, TypeOK
<1>8. CASE SwapSecond
  BY <1>8 DEF SwapSecond, producerVars, TypeOK
<1>9. CASE UpdateUnlock
  <2>1. itor' \in Nat \ {0}
    BY <1>9 DEF UpdateUnlock
  <2> QED
    BY <1>9, <2>1 DEF UpdateUnlock, Unlock, producerVars, TypeOK
<1>10. CASE DispatchItem
  BY <1>10 DEF DispatchItem, producerVars, TypeOK
<1>11. CASE ClearDispatched
  BY <1>11 DEF ClearDispatched, producerVars, TypeOK, Deques
<1>12. CASE UNCHANGED vars
  BY <1>12 DEF vars, producerVars, mainVars, TypeOK
<1> QED
  BY <1>1, <1>2, <1>3, <1>4, <1>5, <1>6, <1>7, <1>8, <1>9, <1>10, <1>11, <1>12
     DEF Next, Producer, Update

\* A step of any thread keeps the lock exclusive, the pointers apart and the
\* deque that is swapped in empty.
LEMMA InvStep == IInv /\ [Next]_vars => IInv'
<1> SUFFICES ASSUME IInv, [Next]_vars PROVE IInv'
  OBVIOUS
<1>t. TypeOK'
  BY TypeStep DEF IInv
<1> DEFINE Rest == LockInv /\ PointerInv /\ SwapsInEmptyDeque /\ ItemInv
<1> USE DEF IInv, TypeOK, Deques, LockInv, PointerInv, SwapsInEmptyDeque,
            ItemInv, InProducerSection, InSwap
<1>1. ASSUME NEW p \in Producers, NEW e \in Event, BeginPost(p, e) PROVE Rest'
  BY <1>1 DEF BeginPost, mainVars
<1>2. ASSUME NEW p \in Producers, PostLock(p) PROVE Rest'
  BY <1>2 DEF PostLock, Acquire, mainVars
<1>3. ASSUME NEW p \in Producers, PostDeref(p) PROVE Rest'
  BY <1>3 DEF PostDeref, mainVars
<1>4. ASSUME NEW p \in Producers, PostPush(p) PROVE Rest'
  BY <1>4 DEF PostPush, mainVars
<1>5. ASSUME NEW p \in Producers, PostUnlock(p) PROVE Rest'
  BY <1>5 DEF PostUnlock, Unlock, mainVars
<1>6. ASSUME UpdateLock PROVE Rest'
  BY <1>6 DEF UpdateLock, Acquire, producerVars
<1>7. ASSUME SwapFirst PROVE Rest'
  BY <1>7 DEF SwapFirst, producerVars
<1>8. ASSUME SwapSecond PROVE Rest'
  BY <1>8 DEF SwapSecond, producerVars
<1>9. ASSUME UpdateUnlock PROVE Rest'
  BY <1>9 DEF UpdateUnlock, Unlock, producerVars
<1>10. ASSUME DispatchItem PROVE Rest'
  BY <1>10 DEF DispatchItem, producerVars
<1>11. ASSUME ClearDispatched PROVE Rest'
  BY <1>11 DEF ClearDispatched, producerVars
<1>12. ASSUME UNCHANGED vars PROVE Rest'
  BY <1>12 DEF vars, producerVars, mainVars
<1> QED
  BY <1>t, <1>1, <1>2, <1>3, <1>4, <1>5, <1>6, <1>7, <1>8, <1>9, <1>10, <1>11, <1>12
     DEF Next, Producer, Update

\* The invariant holds in every reachable state.
LEMMA InvHolds == Spec => []IInv
BY InitInv, InvStep, PTL DEF Spec

-----------------------------------------------------------------------------
\* Every variable of the event queue keeps its type.
THEOREM TypeCorrect == Spec => []TypeOK
<1>1. IInv => TypeOK
  BY DEF IInv
<1> QED
  BY <1>1, InvHolds, PTL

\* update() never walks or clears a deque that a producer may push to.
THEOREM NeverPushedWhileIterated == Spec => []NoPushWhileIterating
BY InvHolds, InvImpliesNoPush, PTL

\* The deque that the swap hands to the producers is empty.
THEOREM SwappedInEmpty == Spec => []SwapsInEmptyDeque
<1>1. IInv => SwapsInEmptyDeque
  BY DEF IInv
<1> QED
  BY <1>1, InvHolds, PTL

-----------------------------------------------------------------------------
(* The implementation of EventChannel.  Posting is PostPush, taking the    *)
(* batch is the second pointer write of the swap, the next item is one     *)
(* turn of the loop, the end of the batch is the clear.                    *)

\* The initial state is the channel's.
LEMMA RefineInit == Init => Channel!Init
BY DEF Init, Channel!Init, pendingBar, batchBar, Deques

\* The batch shrinks from its front as the iterator advances.
LEMMA BatchAdvances ==
  ASSUME NEW s \in Seq(Event), NEW i \in Nat \ {0}, i <= Len(s)
  PROVE  /\ SubSeq(s, i, Len(s)) # <<>>
         /\ Head(SubSeq(s, i, Len(s))) = s[i]
         /\ Tail(SubSeq(s, i, Len(s))) = SubSeq(s, i + 1, Len(s))
<1>1. i \in 1..Len(s) + 1 /\ Len(s) \in i - 1..Len(s)
  BY LenProperties
<1>2. Len(SubSeq(s, i, Len(s))) = Len(s) - i + 1
  BY <1>1, SubSeqProperties
<1> QED
  BY <1>1, <1>2, SubSeqProperties, HeadTailOfSubSeq

\* Every step of a producer or of update() is a step of the channel or
\* leaves it unchanged.
LEMMA RefineStep == IInv /\ [Next]_vars => [Channel!Next]_<<pendingBar, batchBar, item>>
<1> SUFFICES ASSUME IInv, [Next]_vars
             PROVE  Channel!Next \/ UNCHANGED <<pendingBar, batchBar, item>>
  OBVIOUS
<1> DEFINE Goal == Channel!Next \/ UNCHANGED <<pendingBar, batchBar, item>>
<1>1. ASSUME NEW p \in Producers, NEW e \in Event, BeginPost(p, e) PROVE Goal
  BY <1>1 DEF BeginPost, mainVars, pendingBar, batchBar
<1>2. ASSUME NEW p \in Producers, PostLock(p) PROVE Goal
  BY <1>2 DEF PostLock, mainVars, pendingBar, batchBar
<1>3. ASSUME NEW p \in Producers, PostDeref(p) PROVE Goal
  BY <1>3 DEF PostDeref, mainVars, pendingBar, batchBar
<1>4. ASSUME NEW p \in Producers, PostPush(p) PROVE Goal
  <2>1. mainPc \in {"update", "iterate"} /\ recvDataQueue # dispathQueue
    BY <1>4 DEF PostPush, IInv, TypeOK, LockInv, PointerInv, InProducerSection, InSwap
  <2>2. target[p] = recvDataQueue /\ packet[p] \in Event /\ deque[recvDataQueue] \in Seq(Event)
    BY <1>4 DEF PostPush, IInv, PointerInv, ItemInv, TypeOK
  <2>3. deque' = [deque EXCEPT ![recvDataQueue] = Append(@, packet[p])]
    BY <1>4, <2>2 DEF PostPush
  <2>4. pendingBar' = Append(pendingBar, packet[p])
    BY <1>4, <2>1, <2>3 DEF PostPush, mainVars, pendingBar, IInv, TypeOK
  <2>5. UNCHANGED <<batchBar, item>>
    BY <1>4, <2>1, <2>3 DEF PostPush, mainVars, batchBar, IInv, TypeOK
  <2> QED
    BY <2>2, <2>4, <2>5 DEF Channel!Next, Channel!Post
<1>5. ASSUME NEW p \in Producers, PostUnlock(p) PROVE Goal
  BY <1>5 DEF PostUnlock, mainVars, pendingBar, batchBar
<1>6. ASSUME UpdateLock PROVE Goal
  BY <1>6 DEF UpdateLock, pendingBar, batchBar
<1>7. ASSUME SwapFirst PROVE Goal
  BY <1>7 DEF SwapFirst, pendingBar, batchBar
<1>8. ASSUME SwapSecond PROVE Goal
  <2>1. pendingBar = deque[saved] /\ batchBar = <<>> /\ item = NoEvent
    BY <1>8 DEF SwapSecond, pendingBar, batchBar, IInv, ItemInv
  <2>2. pendingBar' = <<>>
    BY <1>8 DEF SwapSecond, pendingBar, IInv, PointerInv, SwapsInEmptyDeque
  <2>3. batchBar' = deque[saved] /\ item' = item
    BY <1>8 DEF SwapSecond, batchBar
  <2> QED
    BY <2>1, <2>2, <2>3 DEF Channel!Next, Channel!TakeBatch
<1>9. ASSUME UpdateUnlock PROVE Goal
  <2>1. deque[dispathQueue] \in Seq(Event)
    BY DEF IInv, TypeOK
  <2>2. SubSeq(deque[dispathQueue], 1, Len(deque[dispathQueue])) = deque[dispathQueue]
    BY <2>1, SubSeqFull
  <2> QED
    BY <1>9, <2>2 DEF UpdateUnlock, pendingBar, batchBar
<1>10. ASSUME DispatchItem PROVE Goal
  <2> DEFINE s == deque[dispathQueue]
  <2>1. s \in Seq(Event) /\ itor \in Nat \ {0} /\ itor <= Len(s)
    BY <1>10 DEF DispatchItem, IInv, TypeOK
  <2>2. batchBar = SubSeq(s, itor, Len(s)) /\ batchBar' = SubSeq(s, itor + 1, Len(s))
    BY <1>10 DEF DispatchItem, batchBar
  <2>3. UNCHANGED pendingBar /\ item' = s[itor]
    BY <1>10 DEF DispatchItem, pendingBar
  <2> QED
    BY <2>1, <2>2, <2>3, BatchAdvances DEF Channel!Next, Channel!NextItem
<1>11. ASSUME ClearDispatched PROVE Goal
  <2> DEFINE s == deque[dispathQueue]
  <2>1. s \in Seq(Event) /\ itor \in Nat \ {0} /\ itor > Len(s)
    BY <1>11 DEF ClearDispatched, IInv, TypeOK
  <2>2. SubSeq(s, itor, Len(s)) = <<>>
    BY <2>1, SubSeqEmpty, LenProperties
  <2>3. batchBar = <<>> /\ batchBar' = <<>> /\ item' = NoEvent
    BY <1>11, <2>2 DEF ClearDispatched, batchBar
  <2>4. UNCHANGED pendingBar
    BY <1>11 DEF ClearDispatched, pendingBar, IInv, PointerInv, TypeOK
  <2> QED
    BY <2>3, <2>4 DEF Channel!Next, Channel!EndBatch
<1>12. ASSUME UNCHANGED vars PROVE Goal
  BY <1>12 DEF vars, mainVars, pendingBar, batchBar
<1> QED
  BY <1>1, <1>2, <1>3, <1>4, <1>5, <1>6, <1>7, <1>8, <1>9, <1>10, <1>11, <1>12
     DEF Next, Producer, Update

\* The two deques under the spin lock implement the channel: every packet
\* reaches the dispatcher once, in posting order, in whole batches.
THEOREM EventQueueRefines == Spec => ImplementsChannel
<1>1. IInv /\ [Next]_vars => [Channel!Next]_(Channel!channelVars)
  BY RefineStep DEF Channel!channelVars
<1> QED
  BY <1>1, InvHolds, RefineInit, PTL DEF ImplementsChannel, Channel!Spec, Spec
=============================================================================
