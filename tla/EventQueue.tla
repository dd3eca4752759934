----------------------------- MODULE EventQueue -----------------------------
(***************************************************************************)
(* ServerCore's event queue: two heap-allocated deques whose roles are     *)
(* exchanged by update(), under a CSpinLock.                               *)
(*                                                                         *)
(* A producer is a thread that calls onNewSession, onRecvData or           *)
(* onCloseSession (in the program: the libuv loop thread).  The three      *)
(* functions differ only in the NetPacket they build; each one locks,      *)
(* follows the pointer recvDataQueue, pushes at the back and unlocks.      *)
(* The main thread runs update() forever: it swaps the two pointers under  *)
(* the lock, then walks and clears the other deque without the lock.       *)
(* Following the pointer, changing a deque, and the two pointer writes of  *)
(* std::swap are separate steps, so that what the lock is needed for is    *)
(* not built into the model.                                               *)
(***************************************************************************)
EXTENDS Naturals, Sequences, FiniteSets

CONSTANTS
  Producers,   \* threads that post events
  Event,       \* NetPacket values
  NoEvent,     \* no packet
  MaxPosts     \* bound on the number of posts of a behaviour

ASSUME EventAssumption == NoEvent \notin Event
ASSUME PostsAssumption == MaxPosts \in Nat

\* The two deques allocated by the constructor.
Deques == {"first", "second"}

VARIABLES
  deque,          \* contents of the two deques
  recvDataQueue,  \* pointer: the deque producers push to
  dispathQueue,   \* pointer: the deque the main thread walks
  m_flag,         \* the spin lock's flag
  pc,             \* where each producer is
  packet,         \* the packet each producer is posting
  target,         \* the deque each producer's push_back runs on
  mainPc,         \* where update() is
  saved,          \* the temporary of std::swap
  itor,           \* position of the iterator of update()
  item,           \* the packet update() is handling
  posted          \* number of posts begun

producerVars == <<pc, packet, target>>
mainVars == <<mainPc, saved, itor, item>>
vars == <<deque, recvDataQueue, dispathQueue, m_flag, producerVars, mainVars, posted>>

TypeOK ==
  /\ deque \in [Deques -> Seq(Event)]
  /\ recvDataQueue \in Deques
  /\ dispathQueue \in Deques
  /\ m_flag \in BOOLEAN
  /\ pc \in [Producers -> {"idle", "lock", "deref", "push", "unlock"}]
  /\ packet \in [Producers -> Event \cup {NoEvent}]
  /\ target \in [Producers -> Deques]
  /\ mainPc \in {"update", "swap", "swapped half", "unlock", "iterate"}
  /\ saved \in Deques
  /\ itor \in Nat \ {0}
  /\ item \in Event \cup {NoEvent}
  /\ posted \in 0..MaxPosts

Init ==
  /\ deque = [d \in Deques |-> <<>>]
  /\ recvDataQueue = "first"
  /\ dispathQueue = "second"
  /\ m_flag = FALSE
  /\ pc = [p \in Producers |-> "idle"]
  /\ packet = [p \in Producers |-> NoEvent]
  /\ target = [p \in Producers |-> "first"]
  /\ mainPc = "update"
  /\ saved = "first"
  /\ itor = 1
  /\ item = NoEvent
  /\ posted = 0

-----------------------------------------------------------------------------
(* The spin lock.  TryLock is test_and_set; Lock retries while it returns  *)
(* the value TRUE, so a thread passes Lock exactly when it set a clear     *)
(* flag.  A failed attempt writes TRUE over TRUE and changes nothing.      *)

\* Faulty: a lock that does not look at the flag.
AcquireUnchecked == m_flag' = TRUE

Acquire ==
  /\ ~ m_flag
  /\ m_flag' = TRUE

Unlock == m_flag' = FALSE

-----------------------------------------------------------------------------
(* Producers. *)

\* A producer enters one of the three handlers with the packet it builds.
BeginPost(p, e) ==
  /\ pc[p] = "idle"
  /\ posted < MaxPosts
  /\ posted' = posted + 1
  /\ packet' = [packet EXCEPT ![p] = e]
  /\ pc' = [pc EXCEPT ![p] = "lock"]
  /\ UNCHANGED <<deque, recvDataQueue, dispathQueue, m_flag, target, mainVars>>

PostLock(p) ==
  /\ pc[p] = "lock"
  /\ Acquire
  /\ pc' = [pc EXCEPT ![p] = "deref"]
  /\ UNCHANGED <<deque, recvDataQueue, dispathQueue, packet, target, mainVars, posted>>

\* Evaluates the pointer recvDataQueue.
PostDeref(p) ==
  /\ pc[p] = "deref"
  /\ target' = [target EXCEPT ![p] = recvDataQueue]
  /\ pc' = [pc EXCEPT ![p] = "push"]
  /\ UNCHANGED <<deque, recvDataQueue, dispathQueue, m_flag, packet, mainVars, posted>>

\* Faulty: the packet goes to the front.
PostPushFront(p) ==
  /\ pc[p] = "push"
  /\ deque' = [deque EXCEPT ![target[p]] = <<packet[p]>> \o @]
  /\ pc' = [pc EXCEPT ![p] = "unlock"]
  /\ UNCHANGED <<recvDataQueue, dispathQueue, m_flag, packet, target, mainVars, posted>>

\* push_back / emplace_back on the deque the pointer named.
PostPush(p) ==
  /\ pc[p] = "push"
  /\ deque' = [deque EXCEPT ![target[p]] = Append(@, packet[p])]
  /\ pc' = [pc EXCEPT ![p] = "unlock"]
  /\ UNCHANGED <<recvDataQueue, dispathQueue, m_flag, packet, target, mainVars, posted>>

\* Faulty: a handler that returns without Unlock.
PostReturnLocked(p) ==
  /\ pc[p] = "unlock"
  /\ pc' = [pc EXCEPT ![p] = "idle"]
  /\ packet' = [packet EXCEPT ![p] = NoEvent]
  /\ UNCHANGED <<deque, recvDataQueue, dispathQueue, m_flag, target, mainVars, posted>>

PostUnlock(p) ==
  /\ pc[p] = "unlock"
  /\ Unlock
  /\ pc' = [pc EXCEPT ![p] = "idle"]
  /\ packet' = [packet EXCEPT ![p] = NoEvent]
  /\ UNCHANGED <<deque, recvDataQueue, dispathQueue, target, mainVars, posted>>

-----------------------------------------------------------------------------
(* The main thread in update(). *)

UpdateLock ==
  /\ mainPc = "update"
  /\ Acquire
  /\ mainPc' = "swap"
  /\ UNCHANGED <<deque, recvDataQueue, dispathQueue, producerVars, saved, itor, item, posted>>

\* std::swap: save one pointer and overwrite it ...
SwapFirst ==
  /\ mainPc = "swap"
  /\ saved' = recvDataQueue
  /\ recvDataQueue' = dispathQueue
  /\ mainPc' = "swapped half"
  /\ UNCHANGED <<deque, dispathQueue, m_flag, producerVars, itor, item, posted>>

\* ... and store the saved one in the other.
SwapSecond ==
  /\ mainPc = "swapped half"
  /\ dispathQueue' = saved
  /\ mainPc' = "unlock"
  /\ UNCHANGED <<deque, recvDataQueue, m_flag, producerVars, saved, itor, item, posted>>

\* Faulty: the iterator starts before the first packet.
UpdateUnlockRend ==
  /\ mainPc = "unlock"
  /\ Unlock
  /\ itor' = 0
  /\ mainPc' = "iterate"
  /\ UNCHANGED <<deque, recvDataQueue, dispathQueue, producerVars, saved, item, posted>>

\* Unlock, and itor = dispathQueue->begin().
UpdateUnlock ==
  /\ mainPc = "unlock"
  /\ Unlock
  /\ itor' = 1
  /\ mainPc' = "iterate"
  /\ UNCHANGED <<deque, recvDataQueue, dispathQueue, producerVars, saved, item, posted>>

\* One turn of the loop: the packet at itor goes to the dispatcher.
DispatchItem ==
  /\ mainPc = "iterate"
  /\ itor <= Len(deque[dispathQueue])
  /\ item' = deque[dispathQueue][itor]
  /\ itor' = itor + 1
  /\ UNCHANGED <<deque, recvDataQueue, dispathQueue, m_flag, producerVars, mainPc, saved, posted>>

\* Faulty: update() returns without clear().
LeaveDispatched ==
  /\ mainPc = "iterate"
  /\ itor > Len(deque[dispathQueue])
  /\ item' = NoEvent
  /\ mainPc' = "update"
  /\ UNCHANGED <<deque, recvDataQueue, dispathQueue, m_flag, producerVars, saved, itor, posted>>

\* itor = end(): dispathQueue->clear(), return; runLoop calls update again.
ClearDispatched ==
  /\ mainPc = "iterate"
  /\ itor > Len(deque[dispathQueue])
  /\ deque' = [deque EXCEPT ![dispathQueue] = <<>>]
  /\ item' = NoEvent
  /\ mainPc' = "update"
  /\ UNCHANGED <<recvDataQueue, dispathQueue, m_flag, producerVars, saved, itor, posted>>

-----------------------------------------------------------------------------
Producer(p) ==
  \/ \E e \in Event : BeginPost(p, e)
  \/ PostLock(p)
  \/ PostDeref(p)
  \/ PostPush(p)
  \/ PostUnlock(p)

Update ==
  \/ UpdateLock
  \/ SwapFirst
  \/ SwapSecond
  \/ UpdateUnlock
  \/ DispatchItem
  \/ ClearDispatched

Next == Update \/ \E p \in Producers : Producer(p)

Spec == Init /\ [][Next]_vars

(***************************************************************************)
(* Scheduling.  Every thread that can take a step is eventually run (weak  *)
(* fairness).  Between two calls of update() the main thread sleeps for a  *)
(* millisecond with the lock free while a waiting producer keeps trying,   *)
(* so a producer that finds the lock free again and again gets it (strong  *)
(* fairness of PostLock).  Nobody is obliged to post.                      *)
(***************************************************************************)
Fairness ==
  /\ WF_vars(Update)
  /\ \A p \in Producers :
       /\ SF_vars(PostLock(p))
       /\ WF_vars(PostDeref(p) \/ PostPush(p) \/ PostUnlock(p))

FairSpec == Spec /\ Fairness

-----------------------------------------------------------------------------
(* Properties. *)

InProducerSection(p) == pc[p] \in {"deref", "push", "unlock"}
InSwap == mainPc \in {"swap", "swapped half", "unlock"}

\* A deque is never changed by a producer while update() walks or clears it:
\* a producer about to push_back aims at the other deque, and the pointers
\* differ outside the swap (push_back invalidates the iterator of update()).
NoPushWhileIterating ==
  mainPc = "iterate" =>
    /\ recvDataQueue # dispathQueue
    /\ \A p \in Producers : pc[p] = "push" => target[p] # dispathQueue

\* The swap loses nothing: when update() exchanges the pointers, the deque
\* that becomes the producers' one is empty, so no packet already handled
\* is handled again.
SwapsInEmptyDeque ==
  mainPc \in {"update", "swap", "swapped half"} => deque[dispathQueue] = <<>>

\* Refinement mapping to EventChannel.  The batch is taken at the second
\* pointer write of the swap; until then the saved pointer names what is
\* pending.
pendingBar == deque[IF mainPc = "swapped half" THEN saved ELSE recvDataQueue]

batchBar ==
  CASE mainPc = "unlock"  -> deque[dispathQueue]
    [] mainPc = "iterate" -> SubSeq(deque[dispathQueue], itor, Len(deque[dispathQueue]))
    [] OTHER              -> <<>>

Channel == INSTANCE EventChannel WITH pending <- pendingBar, batch <- batchBar

\* The two deques, the pointers and the spin lock implement the channel:
\* every packet reaches the dispatcher once, in posting order, in batches.
ImplementsChannel == Channel!Spec

\* A thread that starts to post gets out of the handler: the loop thread is
\* never stuck on the spin lock that update() takes again and again.
PostReturns == \A p \in Producers : pc[p] = "lock" ~> pc[p] = "idle"

\* Nothing stays behind in either deque: with the posting of a behaviour
\* finite, everything that was posted is eventually handled and cleared.
AlwaysDrains == []<>(\A d \in Deques : deque[d] = <<>>)
=============================================================================
