--------------------------- MODULE LockFreeQueue ---------------------------
(***************************************************************************)
(* ArrayLockFreeQueue (LockFreeQueueImpl.h): a circular array and three    *)
(* indices moved by compare-and-swap.  Every load of an index, every CAS   *)
(* and every access to the array is a step; memory is sequentially         *)
(* consistent (the indices are volatile and CAS is a full barrier).        *)
(*                                                                         *)
(* In the program each Session has one queue, sendBuffList: the main       *)
(* thread pushes (Session::sendBuffer), the loop thread pops               *)
(* (Session::doSend).  The class is written for several of each.           *)
(***************************************************************************)
EXTENDS Naturals, Sequences, FiniteSets

CONSTANTS
  Producers,   \* threads that call push
  Consumers,   \* threads that call pop
  Value,       \* ELEM_T
  NoValue,     \* an array element never written, or no element
  Q_SIZE,      \* size of the array
  MaxPushes    \* bound: no push begins once so many slots were reserved

ASSUME SizeAssumption == Q_SIZE \in Nat \ {0}
ASSUME ValueAssumption == NoValue \notin Value

VARIABLES
  m_theQueue,          \* the array
  m_writeIndex,        \* where a new element will be inserted
  m_readIndex,         \* where the next element will be extracted from
  m_maximumReadIndex,  \* up to where elements are committed
  pc,                  \* where each producer is in push
  writeIndex,          \* push's currentWriteIndex
  data,                \* push's a_data
  popPc,               \* where each consumer is in pop
  readIndex,           \* pop's currentReadIndex
  a_data,              \* the variable pop's reference parameter names
  got                  \* history: what the last successful pop returned

indexVars == <<m_writeIndex, m_readIndex, m_maximumReadIndex>>
pushVars == <<pc, writeIndex, data>>
popVars == <<popPc, readIndex, a_data, got>>
vars == <<m_theQueue, indexVars, pushVars, popVars>>

countToIndex(a_count) == a_count % Q_SIZE

TypeOK ==
  /\ m_theQueue \in [0..Q_SIZE - 1 -> Value \cup {NoValue}]
  /\ m_writeIndex \in Nat
  /\ m_readIndex \in Nat
  /\ m_maximumReadIndex \in Nat
  /\ pc \in [Producers -> {"idle", "load write", "load read", "reserve", "store", "commit"}]
  /\ writeIndex \in [Producers -> Nat]
  /\ data \in [Producers -> Value \cup {NoValue}]
  /\ popPc \in [Consumers -> {"idle", "load read", "load maximum", "fetch", "claim"}]
  /\ readIndex \in [Consumers -> Nat]
  /\ a_data \in [Consumers -> Value \cup {NoValue}]
  /\ got \in [Consumers -> Value \cup {NoValue}]

Init ==
  /\ m_theQueue = [i \in 0..Q_SIZE - 1 |-> NoValue]
  /\ m_writeIndex = 0
  /\ m_readIndex = 0
  /\ m_maximumReadIndex = 0
  /\ pc = [p \in Producers |-> "idle"]
  /\ writeIndex = [p \in Producers |-> 0]
  /\ data = [p \in Producers |-> NoValue]
  /\ popPc = [c \in Consumers |-> "idle"]
  /\ readIndex = [c \in Consumers |-> 0]
  /\ a_data = [c \in Consumers |-> NoValue]
  /\ got = [c \in Consumers |-> NoValue]

-----------------------------------------------------------------------------
(* push. *)

BeginPush(p, v) ==
  /\ pc[p] = "idle"
  /\ m_writeIndex < MaxPushes
  /\ data' = [data EXCEPT ![p] = v]
  /\ pc' = [pc EXCEPT ![p] = "load write"]
  /\ UNCHANGED <<m_theQueue, indexVars, writeIndex, popVars>>

LoadWriteIndex(p) ==
  /\ pc[p] = "load write"
  /\ writeIndex' = [writeIndex EXCEPT ![p] = m_writeIndex]
  /\ pc' = [pc EXCEPT ![p] = "load read"]
  /\ UNCHANGED <<m_theQueue, indexVars, data, popVars>>

\* Faulty: the indices compared without the modulo.
LooksFullUnwrapped(p) == writeIndex[p] + 1 = m_readIndex

\* Faulty: one slot too many kept free.
LooksFullEarly(p) == countToIndex(writeIndex[p] + 2) = countToIndex(m_readIndex)

\* The test of push, with the write index loaded before and the read index
\* loaded now.
LooksFull(p) == countToIndex(writeIndex[p] + 1) = countToIndex(m_readIndex)

\* The queue looks full: push returns false.
ReturnFull(p) ==
  /\ pc[p] = "load read"
  /\ LooksFull(p)
  /\ data' = [data EXCEPT ![p] = NoValue]
  /\ pc' = [pc EXCEPT ![p] = "idle"]
  /\ UNCHANGED <<m_theQueue, indexVars, writeIndex, popVars>>

FindRoom(p) ==
  /\ pc[p] = "load read"
  /\ ~ LooksFull(p)
  /\ pc' = [pc EXCEPT ![p] = "reserve"]
  /\ UNCHANGED <<m_theQueue, indexVars, writeIndex, data, popVars>>

\* Faulty: the write index is stored, not compared and swapped.
ReserveBlindly(p) ==
  /\ pc[p] = "reserve"
  /\ m_writeIndex' = writeIndex[p] + 1
  /\ pc' = [pc EXCEPT ![p] = "store"]
  /\ UNCHANGED <<m_theQueue, m_readIndex, m_maximumReadIndex, writeIndex, data, popVars>>

\* The CAS on the write index reserves the slot ...
Reserve(p) ==
  /\ pc[p] = "reserve"
  /\ m_writeIndex = writeIndex[p]
  /\ m_writeIndex' = writeIndex[p] + 1
  /\ pc' = [pc EXCEPT ![p] = "store"]
  /\ UNCHANGED <<m_theQueue, m_readIndex, m_maximumReadIndex, writeIndex, data, popVars>>

\* Faulty: the CAS is tried again with the index loaded before.
ReserveAgain(p) ==
  /\ pc[p] = "reserve"
  /\ m_writeIndex # writeIndex[p]
  /\ UNCHANGED vars

\* ... or fails because another producer was faster.
ReserveFails(p) ==
  /\ pc[p] = "reserve"
  /\ m_writeIndex # writeIndex[p]
  /\ pc' = [pc EXCEPT ![p] = "load write"]
  /\ UNCHANGED <<m_theQueue, indexVars, writeIndex, data, popVars>>

Store(p) ==
  /\ pc[p] = "store"
  /\ m_theQueue' = [m_theQueue EXCEPT ![countToIndex(writeIndex[p])] = data[p]]
  /\ pc' = [pc EXCEPT ![p] = "commit"]
  /\ UNCHANGED <<indexVars, writeIndex, data, popVars>>

\* Faulty: the producer does not wait for the ones before it.
CommitAtOnce(p) ==
  /\ pc[p] = "commit"
  /\ m_maximumReadIndex' = m_maximumReadIndex + 1
  /\ data' = [data EXCEPT ![p] = NoValue]
  /\ pc' = [pc EXCEPT ![p] = "idle"]
  /\ UNCHANGED <<m_theQueue, m_writeIndex, m_readIndex, writeIndex, popVars>>

\* The CAS on the maximum read index is repeated until the producers that
\* reserved before have committed; push returns true.
Commit(p) ==
  /\ pc[p] = "commit"
  /\ m_maximumReadIndex = writeIndex[p]
  /\ m_maximumReadIndex' = writeIndex[p] + 1
  /\ data' = [data EXCEPT ![p] = NoValue]
  /\ pc' = [pc EXCEPT ![p] = "idle"]
  /\ UNCHANGED <<m_theQueue, m_writeIndex, m_readIndex, writeIndex, popVars>>

-----------------------------------------------------------------------------
(* pop. *)

BeginPop(c) ==
  /\ popPc[c] = "idle"
  /\ popPc' = [popPc EXCEPT ![c] = "load read"]
  /\ UNCHANGED <<m_theQueue, indexVars, pushVars, readIndex, a_data, got>>

\* Faulty: the element before the next one.
LoadPreviousIndex(c) ==
  /\ popPc[c] = "load read"
  /\ readIndex' = [readIndex EXCEPT ![c] = m_readIndex - 1]
  /\ popPc' = [popPc EXCEPT ![c] = "load maximum"]
  /\ UNCHANGED <<m_theQueue, indexVars, pushVars, a_data, got>>

LoadReadIndex(c) ==
  /\ popPc[c] = "load read"
  /\ readIndex' = [readIndex EXCEPT ![c] = m_readIndex]
  /\ popPc' = [popPc EXCEPT ![c] = "load maximum"]
  /\ UNCHANGED <<m_theQueue, indexVars, pushVars, a_data, got>>

\* Faulty: the last element is held back.
LooksEmptyEarly(c) == countToIndex(readIndex[c] + 1) = countToIndex(m_maximumReadIndex)

\* The test of pop, with the read index loaded before and the maximum read
\* index loaded now.
LooksEmpty(c) == countToIndex(readIndex[c]) = countToIndex(m_maximumReadIndex)

\* The queue looks empty: pop returns false.
ReturnEmpty(c) ==
  /\ popPc[c] = "load maximum"
  /\ LooksEmpty(c)
  /\ popPc' = [popPc EXCEPT ![c] = "idle"]
  /\ UNCHANGED <<m_theQueue, indexVars, pushVars, readIndex, a_data, got>>

FindElement(c) ==
  /\ popPc[c] = "load maximum"
  /\ ~ LooksEmpty(c)
  /\ popPc' = [popPc EXCEPT ![c] = "fetch"]
  /\ UNCHANGED <<m_theQueue, indexVars, pushVars, readIndex, a_data, got>>

\* The element is copied before it is known to be ours.
Fetch(c) ==
  /\ popPc[c] = "fetch"
  /\ a_data' = [a_data EXCEPT ![c] = m_theQueue[countToIndex(readIndex[c])]]
  /\ popPc' = [popPc EXCEPT ![c] = "claim"]
  /\ UNCHANGED <<m_theQueue, indexVars, pushVars, readIndex, got>>

\* The CAS on the read index makes it ours, and pop returns true ...
Claim(c) ==
  /\ popPc[c] = "claim"
  /\ m_readIndex = readIndex[c]
  /\ m_readIndex' = readIndex[c] + 1
  /\ got' = [got EXCEPT ![c] = a_data[c]]
  /\ popPc' = [popPc EXCEPT ![c] = "idle"]
  /\ UNCHANGED <<m_theQueue, m_writeIndex, m_maximumReadIndex, pushVars, readIndex, a_data>>

\* Faulty: the CAS is tried again with the index loaded before.
ClaimAgain(c) ==
  /\ popPc[c] = "claim"
  /\ m_readIndex # readIndex[c]
  /\ UNCHANGED vars

\* ... or fails because another consumer was faster.
ClaimFails(c) ==
  /\ popPc[c] = "claim"
  /\ m_readIndex # readIndex[c]
  /\ popPc' = [popPc EXCEPT ![c] = "load read"]
  /\ UNCHANGED <<m_theQueue, indexVars, pushVars, readIndex, a_data, got>>

-----------------------------------------------------------------------------
\* The steps of a push that has begun, and of a pop that has begun.
Push(p) ==
  \/ LoadWriteIndex(p)
  \/ ReturnFull(p)
  \/ FindRoom(p)
  \/ Reserve(p)
  \/ ReserveFails(p)
  \/ Store(p)
  \/ Commit(p)

Pop(c) ==
  \/ LoadReadIndex(c)
  \/ ReturnEmpty(c)
  \/ FindElement(c)
  \/ Fetch(c)
  \/ Claim(c)
  \/ ClaimFails(c)

Next ==
  \/ \E p \in Producers : Push(p) \/ \E v \in Value : BeginPush(p, v)
  \/ \E c \in Consumers : Pop(c) \/ BeginPop(c)

Spec == Init /\ [][Next]_vars

(***************************************************************************)
(* A thread that has begun a push or a pop goes on with it.  Nobody is     *)
(* obliged to begin one.                                                   *)
(***************************************************************************)
Fairness ==
  /\ \A p \in Producers : WF_vars(Push(p))
  /\ \A c \in Consumers : WF_vars(Pop(c))

FairSpec == Spec /\ Fairness

-----------------------------------------------------------------------------
(* Properties. *)

\* Elements are reserved before they are committed and committed before they
\* are extracted, and one slot always stays free, so that "full" and "empty"
\* can be told apart although both compare indices modulo the size.
IndexOrder ==
  /\ m_readIndex <= m_maximumReadIndex
  /\ m_maximumReadIndex <= m_writeIndex
  /\ m_writeIndex < m_readIndex + Q_SIZE

Reserved(p) == pc[p] \in {"store", "commit"}

\* A producer that writes its slot shares it with nobody: no other producer
\* holds the same slot, and it holds no committed element still to be popped.
SlotExclusive ==
  \A p \in Producers : Reserved(p) =>
    /\ \A q \in Producers :
         Reserved(q) /\ countToIndex(writeIndex[q]) = countToIndex(writeIndex[p]) => q = p
    /\ \A i \in m_readIndex..m_maximumReadIndex - 1 :
         countToIndex(i) # countToIndex(writeIndex[p])

\* Refinement mapping: the elements between the read index and the maximum
\* read index.  A push takes effect at its commit, a pop at its claim.
contentBar ==
  [i \in 1..m_maximumReadIndex - m_readIndex |-> m_theQueue[countToIndex(m_readIndex + i - 1)]]

Fifo == INSTANCE FifoQueue WITH content <- contentBar, offer <- data, Capacity <- Q_SIZE - 1

\* The array and the three indices implement a bounded FIFO queue: nothing is
\* lost, repeated, reordered or read before it was written, for any number of
\* producers and consumers.
ImplementsFifo == Fifo!Spec

\* "False if the queue was full": a push is refused only when all the slots
\* but the free one are reserved.
RefusedOnlyWhenFull ==
  [][\A p \in Producers : ReturnFull(p) => m_writeIndex - m_readIndex = Q_SIZE - 1]_vars

\* "False if the queue was empty": a pop comes back empty-handed only when no
\* committed element is in the queue.
EmptyOnlyWhenEmpty ==
  [][\A c \in Consumers : ReturnEmpty(c) => m_readIndex = m_maximumReadIndex]_vars

\* Every push returns: the CAS loops end, the second one although it waits
\* for the other producers.
PushReturns == \A p \in Producers : pc[p] # "idle" ~> pc[p] = "idle"

\* Every pop returns.
PopReturns == \A c \in Consumers : popPc[c] # "idle" ~> popPc[c] = "idle"
=============================================================================
