------------------------ MODULE LockFreeQueueProofs ------------------------
(***************************************************************************)
(* ArrayLockFreeQueue for any number of producers and consumers, any size  *)
(* of the array and any number of pushes: the order of the three indices,  *)
(* the exclusive use of the slots and the FIFO refinement.                 *)
(***************************************************************************)
EXTENDS LockFreeQueue, Integers, SequenceTheorems, TLAPS

-----------------------------------------------------------------------------
(* The circular array. *)

\* countToIndex stays inside the array.
LEMMA IndexInArray ==
  ASSUME NEW i \in Nat
  PROVE  countToIndex(i) \in 0..Q_SIZE - 1
BY SizeAssumption DEF countToIndex

\* Division with remainder by the size.
LEMMA Division ==
  ASSUME NEW q \in Nat \ {0}, NEW i \in Nat
  PROVE  /\ i = q * (i \div q) + (i % q)
         /\ i \div q \in Int
         /\ i % q \in 0..q - 1
<1>1. i = q * (i \div q) + (i % q)
  OBVIOUS
<1>2. i \div q \in Int
  OBVIOUS
<1>3. i % q \in 0..q - 1
  OBVIOUS
<1> QED
  BY <1>1, <1>2, <1>3

\* Two indices less than the size apart name different slots.
LEMMA SlotsDiffer ==
  ASSUME NEW i \in Nat, NEW j \in Nat, i < j, j - i < Q_SIZE
  PROVE  countToIndex(i) # countToIndex(j)
<1> DEFINE a == i \div Q_SIZE
           b == j \div Q_SIZE
<1>1. /\ i = Q_SIZE * a + (i % Q_SIZE)
      /\ j = Q_SIZE * b + (j % Q_SIZE)
      /\ a \in Int /\ b \in Int
  BY SizeAssumption, Division
<1>2. SUFFICES ASSUME i % Q_SIZE = j % Q_SIZE PROVE FALSE
  BY DEF countToIndex
<1> HIDE DEF a, b
<1>3. j - i = Q_SIZE * (b - a)
  BY <1>1, <1>2, SizeAssumption
<1>4. CASE b - a <= 0
  BY <1>1, <1>3, <1>4, SizeAssumption
<1>5. CASE b - a >= 1
  BY <1>1, <1>3, <1>5, SizeAssumption
<1> QED
  BY <1>1, <1>4, <1>5

\* A whole turn around the array comes back to the same slot: this is what
\* push compares to find the queue full.
LEMMA WholeTurn ==
  ASSUME NEW i \in Nat
  PROVE  countToIndex(i + Q_SIZE) = countToIndex(i)
<1> DEFINE a == i \div Q_SIZE
           b == (i + Q_SIZE) \div Q_SIZE
           x == i % Q_SIZE
           y == (i + Q_SIZE) % Q_SIZE
<1>1. /\ i = Q_SIZE * a + x
      /\ i + Q_SIZE = Q_SIZE * b + y
      /\ a \in Int /\ b \in Int
      /\ x \in 0..Q_SIZE - 1 /\ y \in 0..Q_SIZE - 1
  <2>1. i + Q_SIZE \in Nat
    BY SizeAssumption
  <2> QED
    BY <2>1, SizeAssumption, Division
<1> HIDE DEF a, b, x, y
<1>2. y - x = Q_SIZE * (a + 1 - b)
  BY <1>1, SizeAssumption
<1>3. ASSUME a + 1 - b <= -1 PROVE x = y
  BY <1>1, <1>2, <1>3, SizeAssumption
<1>4. ASSUME a + 1 - b = 0 PROVE x = y
  <2>1. y - x = Q_SIZE * 0
    BY <1>2, <1>4
  <2> QED
    BY <1>1, <2>1, SizeAssumption
<1>5. ASSUME a + 1 - b >= 1 PROVE x = y
  BY <1>1, <1>2, <1>5, SizeAssumption
<1>6. x = y
  <2>1. a + 1 - b \in Int
    BY <1>1
  <2> QED
    BY <2>1, <1>3, <1>4, <1>5
<1> QED
  BY <1>6 DEF countToIndex, x, y

\* The counters are 64 bits wide and roll over to 0.  Because the size divides
\* their modulus (the power of 2 the class comment asks for), the slot of a
\* counter that has rolled over is the slot of the number it stands for, so
\* the unbounded indices of the model lose nothing.
THEOREM RolloverKeepsSlot ==
  ASSUME NEW modulus \in Nat \ {0}, NEW k \in Nat \ {0}, modulus = Q_SIZE * k,
         NEW i \in Nat
  PROVE  countToIndex(i % modulus) = countToIndex(i)
<1> DEFINE a == i \div modulus
           r == i % modulus
           b == r \div Q_SIZE
           x == r % Q_SIZE
           c == i \div Q_SIZE
           y == i % Q_SIZE
<1>1. i = modulus * a + r /\ a \in Int /\ r \in 0..modulus - 1
  BY Division
<1>2. r \in Nat
  BY <1>1
<1>3. r = Q_SIZE * b + x /\ b \in Int /\ x \in 0..Q_SIZE - 1
  BY <1>2, SizeAssumption, Division
<1>4. i = Q_SIZE * c + y /\ c \in Int /\ y \in 0..Q_SIZE - 1
  BY SizeAssumption, Division
<1> HIDE DEF a, r, b, x, c, y
<1>5. modulus * a = Q_SIZE * (k * a)
  BY <1>1, SizeAssumption
<1> DEFINE d == k * a + b - c
<1>6. d \in Int /\ y - x = Q_SIZE * d
  BY <1>1, <1>3, <1>4, <1>5, SizeAssumption
<1> HIDE DEF d
<1>7. ASSUME d <= -1 PROVE x = y
  BY <1>3, <1>4, <1>6, <1>7, SizeAssumption
<1>8. ASSUME d = 0 PROVE x = y
  <2>1. y - x = Q_SIZE * 0
    BY <1>6, <1>8
  <2> QED
    BY <1>3, <1>4, <2>1, SizeAssumption
<1>9. ASSUME d >= 1 PROVE x = y
  BY <1>3, <1>4, <1>6, <1>9, SizeAssumption
<1>10. x = y
  BY <1>6, <1>7, <1>8, <1>9
<1> QED
  BY <1>10 DEF countToIndex, r, x, y

-----------------------------------------------------------------------------
(* The inductive invariant. *)

\* What a producer knows between its steps.  The load of the read index is
\* older than the CAS, but if the CAS succeeds the write index has not moved
\* since, and the read index only grows.
PushInv ==
  \A p \in Producers :
    /\ pc[p] \in {"load read", "reserve"} => writeIndex[p] <= m_writeIndex
    /\ pc[p] = "reserve" /\ writeIndex[p] = m_writeIndex
         => m_writeIndex + 1 < m_readIndex + Q_SIZE
    /\ Reserved(p) => writeIndex[p] \in m_maximumReadIndex..m_writeIndex - 1
    /\ pc[p] = "commit" => m_theQueue[countToIndex(writeIndex[p])] = data[p]
    /\ pc[p] # "idle" => data[p] \in Value
    /\ pc[p] = "idle" => data[p] = NoValue

\* No two producers have reserved the same index.
ReservedApart ==
  \A p, q \in Producers :
    Reserved(p) /\ Reserved(q) /\ writeIndex[p] = writeIndex[q] => p = q

\* What a consumer knows between its steps, as long as nobody else has moved
\* the read index.
PopInv ==
  \A c \in Consumers :
    /\ popPc[c] \in {"load maximum", "fetch", "claim"} => readIndex[c] <= m_readIndex
    /\ popPc[c] \in {"fetch", "claim"} /\ readIndex[c] = m_readIndex
         => m_readIndex < m_maximumReadIndex
    /\ popPc[c] = "claim" /\ readIndex[c] = m_readIndex
         => a_data[c] = m_theQueue[countToIndex(m_readIndex)]

\* What is committed has been written.
CommittedInv ==
  \A i \in m_readIndex..m_maximumReadIndex - 1 : m_theQueue[countToIndex(i)] \in Value

IInv ==
  /\ TypeOK
  /\ IndexOrder
  /\ PushInv
  /\ ReservedApart
  /\ PopInv
  /\ CommittedInv

\* A slot that a producer has reserved holds no committed element.
LEMMA ReservedNotCommitted ==
  ASSUME IInv, NEW p \in Producers, Reserved(p),
         NEW i \in m_readIndex..m_maximumReadIndex - 1
  PROVE  countToIndex(i) # countToIndex(writeIndex[p])
<1>1. writeIndex[p] \in m_maximumReadIndex..m_writeIndex - 1
  BY DEF IInv, PushInv
<1>2. /\ m_readIndex \in Nat /\ m_maximumReadIndex \in Nat /\ m_writeIndex \in Nat
      /\ m_writeIndex < m_readIndex + Q_SIZE
  BY DEF IInv, TypeOK, IndexOrder
<1>3. /\ i \in Nat /\ writeIndex[p] \in Nat
      /\ i < writeIndex[p] /\ writeIndex[p] - i < Q_SIZE
  BY <1>1, <1>2, SizeAssumption
<1> QED
  BY <1>3, SlotsDiffer

\* Two producers never have the same slot.
LEMMA ReservedSlotsApart ==
  ASSUME IInv, NEW p \in Producers, NEW q \in Producers, Reserved(p), Reserved(q),
         countToIndex(writeIndex[q]) = countToIndex(writeIndex[p])
  PROVE  q = p
<1>1. /\ writeIndex[p] \in m_maximumReadIndex..m_writeIndex - 1
      /\ writeIndex[q] \in m_maximumReadIndex..m_writeIndex - 1
  BY DEF IInv, PushInv
<1>2. /\ m_readIndex \in Nat /\ m_maximumReadIndex \in Nat /\ m_writeIndex \in Nat
      /\ m_readIndex <= m_maximumReadIndex /\ m_writeIndex < m_readIndex + Q_SIZE
  BY DEF IInv, TypeOK, IndexOrder
<1>3. /\ writeIndex[p] \in Nat /\ writeIndex[q] \in Nat
      /\ writeIndex[p] - writeIndex[q] < Q_SIZE
      /\ writeIndex[q] - writeIndex[p] < Q_SIZE
  BY <1>1, <1>2, SizeAssumption
<1>4. writeIndex[p] = writeIndex[q]
  BY <1>3, SlotsDiffer
<1> QED
  BY <1>4 DEF IInv, ReservedApart

-----------------------------------------------------------------------------
LEMMA InitInv == Init => IInv
<1> SUFFICES ASSUME Init PROVE IInv
  OBVIOUS
<1>1. TypeOK
  BY DEF Init, TypeOK
<1>2. IndexOrder
  BY SizeAssumption DEF Init, IndexOrder
<1>3. PushInv /\ ReservedApart /\ PopInv /\ CommittedInv
  BY DEF Init, PushInv, ReservedApart, PopInv, CommittedInv, Reserved
<1> QED
  BY <1>1, <1>2, <1>3 DEF IInv

\* Every step keeps the types.
LEMMA TypeStep == TypeOK /\ [Next]_vars => TypeOK'
<1> SUFFICES ASSUME TypeOK, [Next]_vars PROVE TypeOK'
  OBVIOUS
<1>1. ASSUME NEW p \in Producers, NEW v \in Value, BeginPush(p, v) PROVE TypeOK'
  BY <1>1 DEF BeginPush, indexVars, popVars, TypeOK
<1>2. ASSUME NEW p \in Producers, LoadWriteIndex(p) PROVE TypeOK'
  BY <1>2 DEF LoadWriteIndex, indexVars, popVars, TypeOK
<1>3. ASSUME NEW p \in Producers, ReturnFull(p) PROVE TypeOK'
  BY <1>3 DEF ReturnFull, indexVars, popVars, TypeOK
<1>4. ASSUME NEW p \in Producers, FindRoom(p) PROVE TypeOK'
  BY <1>4 DEF FindRoom, indexVars, popVars, TypeOK
<1>5. ASSUME NEW p \in Producers, Reserve(p) PROVE TypeOK'
  <2>1. m_writeIndex' = writeIndex[p] + 1 /\ writeIndex[p] \in Nat
    BY <1>5 DEF Reserve, TypeOK
  <2>2. m_writeIndex' \in Nat
    BY <2>1
  <2> QED
    BY <1>5, <2>2 DEF Reserve, popVars, TypeOK
<1>6. ASSUME NEW p \in Producers, ReserveFails(p) PROVE TypeOK'
  BY <1>6 DEF ReserveFails, indexVars, popVars, TypeOK
<1>7. ASSUME NEW p \in Producers, Store(p) PROVE TypeOK'
  BY <1>7 DEF Store, indexVars, popVars, TypeOK
<1>8. ASSUME NEW p \in Producers, Commit(p) PROVE TypeOK'
  <2>1. m_maximumReadIndex' = writeIndex[p] + 1 /\ writeIndex[p] \in Nat
    BY <1>8 DEF Commit, TypeOK
  <2>2. m_maximumReadIndex' \in Nat
    BY <2>1
  <2> QED
    BY <1>8, <2>2 DEF Commit, popVars, TypeOK
<1>9. ASSUME NEW c \in Consumers, BeginPop(c) PROVE TypeOK'
  BY <1>9 DEF BeginPop, indexVars, pushVars, TypeOK
<1>10. ASSUME NEW c \in Consumers, LoadReadIndex(c) PROVE TypeOK'
  BY <1>10 DEF LoadReadIndex, indexVars, pushVars, TypeOK
<1>11. ASSUME NEW c \in Consumers, ReturnEmpty(c) PROVE TypeOK'
  BY <1>11 DEF ReturnEmpty, indexVars, pushVars, TypeOK
<1>12. ASSUME NEW c \in Consumers, FindElement(c) PROVE TypeOK'
  BY <1>12 DEF FindElement, indexVars, pushVars, TypeOK
<1>13. ASSUME NEW c \in Consumers, Fetch(c) PROVE TypeOK'
  <2>1. countToIndex(readIndex[c]) \in 0..Q_SIZE - 1
    BY IndexInArray DEF TypeOK
  <2> QED
    BY <1>13, <2>1 DEF Fetch, indexVars, pushVars, TypeOK
<1>14. ASSUME NEW c \in Consumers, Claim(c) PROVE TypeOK'
  <2>1. m_readIndex' = readIndex[c] + 1 /\ readIndex[c] \in Nat
    BY <1>14 DEF Claim, TypeOK
  <2>2. m_readIndex' \in Nat
    BY <2>1
  <2> QED
    BY <1>14, <2>2 DEF Claim, pushVars, TypeOK
<1>15. ASSUME NEW c \in Consumers, ClaimFails(c) PROVE TypeOK'
  BY <1>15 DEF ClaimFails, indexVars, pushVars, TypeOK
<1>16. CASE UNCHANGED vars
  BY <1>16 DEF vars, indexVars, pushVars, popVars, TypeOK
<1> QED
  BY <1>1, <1>2, <1>3, <1>4, <1>5, <1>6, <1>7, <1>8, <1>9, <1>10, <1>11,
     <1>12, <1>13, <1>14, <1>15, <1>16 DEF Next, Push, Pop

\* A step of a push keeps the indices in order and what producers and
\* consumers know true.
LEMMA PushStep ==
  ASSUME IInv, NEW p \in Producers, Push(p) \/ \E v \in Value : BeginPush(p, v)
  PROVE  IndexOrder' /\ PushInv' /\ ReservedApart' /\ PopInv' /\ CommittedInv'
<1> DEFINE Goal == IndexOrder' /\ PushInv' /\ ReservedApart' /\ PopInv' /\ CommittedInv'
<1>n. /\ m_readIndex \in Nat /\ m_maximumReadIndex \in Nat /\ m_writeIndex \in Nat
      /\ m_readIndex <= m_maximumReadIndex /\ m_maximumReadIndex <= m_writeIndex
      /\ m_writeIndex < m_readIndex + Q_SIZE /\ Q_SIZE \in Nat \ {0}
  BY SizeAssumption DEF IInv, TypeOK, IndexOrder
<1>1. ASSUME NEW v \in Value, BeginPush(p, v) PROVE Goal
  BY <1>1 DEF BeginPush, indexVars, popVars,
     IInv, TypeOK, IndexOrder, PushInv, ReservedApart, PopInv, CommittedInv, Reserved
<1>2. ASSUME LoadWriteIndex(p) PROVE Goal
  <2>1. /\ writeIndex'[p] = m_writeIndex
        /\ \A q \in Producers : q # p => writeIndex'[q] = writeIndex[q] /\ pc'[q] = pc[q]
        /\ pc'[p] = "load read" /\ pc[p] = "load write"
        /\ UNCHANGED <<m_theQueue, indexVars, data, popVars>>
    BY <1>2 DEF LoadWriteIndex, IInv, TypeOK
  <2>2. m_writeIndex <= m_writeIndex
    BY <1>n
  <2>3. PushInv'
    BY <2>1, <2>2 DEF indexVars, IInv, PushInv, Reserved
  <2>4. ReservedApart'
    BY <2>1 DEF IInv, ReservedApart, Reserved
  <2>5. IndexOrder' /\ PopInv' /\ CommittedInv'
    BY <2>1 DEF indexVars, popVars, IInv, IndexOrder, PopInv, CommittedInv
  <2> QED
    BY <2>3, <2>4, <2>5
<1>3. ASSUME ReturnFull(p) PROVE Goal
  BY <1>3 DEF ReturnFull, indexVars, popVars,
     IInv, TypeOK, IndexOrder, PushInv, ReservedApart, PopInv, CommittedInv, Reserved
<1>4. ASSUME FindRoom(p) PROVE Goal
  <2>1. writeIndex[p] = m_writeIndex => m_writeIndex + 1 # m_readIndex + Q_SIZE
    BY <1>4, <1>n, WholeTurn DEF FindRoom, LooksFull
  <2>2. writeIndex[p] = m_writeIndex => m_writeIndex + 1 < m_readIndex + Q_SIZE
    BY <2>1, <1>n
  <2> QED
    BY <1>4, <2>2 DEF FindRoom, indexVars, popVars,
       IInv, TypeOK, IndexOrder, PushInv, ReservedApart, PopInv, CommittedInv, Reserved
<1>5. ASSUME Reserve(p) PROVE Goal
  <2>1. /\ writeIndex[p] = m_writeIndex /\ m_writeIndex' = m_writeIndex + 1
        /\ m_writeIndex + 1 < m_readIndex + Q_SIZE
    BY <1>5 DEF Reserve, IInv, PushInv
  <2>2. IndexOrder'
    BY <1>5, <1>n, <2>1 DEF Reserve, IndexOrder
  <2>3. /\ pc[p] = "reserve" /\ pc' = [pc EXCEPT ![p] = "store"]
        /\ \A q \in Producers : q # p => pc'[q] = pc[q]
        /\ pc'[p] = "store"
        /\ UNCHANGED <<m_theQueue, m_readIndex, m_maximumReadIndex, writeIndex, data>>
    BY <1>5 DEF Reserve, IInv, TypeOK
  <2>4. \A q \in Producers :
          /\ pc[q] \in {"load read", "reserve"} =>
               writeIndex[q] <= m_writeIndex + 1 /\ writeIndex[q] # m_writeIndex + 1
          /\ Reserved(q) => /\ writeIndex[q] \in m_maximumReadIndex..(m_writeIndex + 1) - 1
                            /\ writeIndex[q] # m_writeIndex
    <3> SUFFICES ASSUME NEW q \in Producers
                 PROVE  /\ pc[q] \in {"load read", "reserve"} =>
                             writeIndex[q] <= m_writeIndex + 1 /\ writeIndex[q] # m_writeIndex + 1
                        /\ Reserved(q) => /\ writeIndex[q] \in m_maximumReadIndex..(m_writeIndex + 1) - 1
                                          /\ writeIndex[q] # m_writeIndex
      OBVIOUS
    <3>1. /\ pc[q] \in {"load read", "reserve"} => writeIndex[q] <= m_writeIndex
          /\ Reserved(q) => writeIndex[q] \in m_maximumReadIndex..m_writeIndex - 1
          /\ writeIndex[q] \in Nat
      BY DEF IInv, PushInv, TypeOK
    <3>2. ASSUME pc[q] \in {"load read", "reserve"}
          PROVE  writeIndex[q] <= m_writeIndex + 1 /\ writeIndex[q] # m_writeIndex + 1
      <4>1. writeIndex[q] <= m_writeIndex /\ writeIndex[q] \in Nat
        BY <3>1, <3>2
      <4> QED
        BY <4>1, <1>n
    <3>3. ASSUME Reserved(q)
          PROVE  /\ writeIndex[q] \in m_maximumReadIndex..(m_writeIndex + 1) - 1
                 /\ writeIndex[q] # m_writeIndex
      <4>1. writeIndex[q] \in m_maximumReadIndex..m_writeIndex - 1 /\ writeIndex[q] \in Nat
        BY <3>1, <3>3
      <4> QED
        BY <4>1, <1>n
    <3> QED
      BY <3>2, <3>3
  <2>5. m_writeIndex \in m_maximumReadIndex..(m_writeIndex + 1) - 1
    BY <1>n
  <2>6. PushInv'
    BY <2>1, <2>3, <2>4, <2>5 DEF PushInv, Reserved, IInv
  <2>7. ReservedApart'
    BY <2>1, <2>3, <2>4 DEF ReservedApart, Reserved, IInv
  <2>8. PopInv' /\ CommittedInv'
    BY <1>5 DEF Reserve, popVars, IInv, PopInv, CommittedInv
  <2> QED
    BY <2>2, <2>6, <2>7, <2>8
<1>6. ASSUME ReserveFails(p) PROVE Goal
  BY <1>6 DEF ReserveFails, indexVars, popVars,
     IInv, TypeOK, IndexOrder, PushInv, ReservedApart, PopInv, CommittedInv, Reserved
<1>7. ASSUME Store(p) PROVE Goal
  <2> DEFINE slot == countToIndex(writeIndex[p])
  <2>1. Reserved(p) /\ writeIndex[p] \in Nat
    BY <1>7 DEF Store, IInv, TypeOK, Reserved
  <2>2. slot \in 0..Q_SIZE - 1
    BY <2>1, IndexInArray
  <2>3. /\ m_theQueue'[slot] = data[p]
        /\ \A i \in 0..Q_SIZE - 1 : i # slot => m_theQueue'[i] = m_theQueue[i]
    BY <1>7, <2>2 DEF Store, IInv, TypeOK
  <2>4. IndexOrder' /\ ReservedApart'
    BY <1>7 DEF Store, indexVars, IInv, IndexOrder, ReservedApart, Reserved, TypeOK
  <2>5. PushInv'
    <3> SUFFICES ASSUME NEW q \in Producers
                 PROVE  /\ pc'[q] = "commit" => m_theQueue'[countToIndex(writeIndex[q])] = data[q]
                        /\ Reserved(q)' => Reserved(q)
                        /\ pc'[q] \in {"load read", "reserve"} => pc'[q] = pc[q]
                        /\ pc'[q] = "idle" <=> pc[q] = "idle"
      BY <1>7 DEF Store, indexVars, IInv, PushInv, TypeOK
    <3>1. CASE q = p
      BY <3>1, <1>7, <2>3 DEF Store, IInv, TypeOK, Reserved
    <3>2. CASE q # p
      <4>1. pc'[q] = pc[q]
        BY <1>7, <3>2 DEF Store, IInv, TypeOK
      <4>2. ASSUME pc[q] = "commit" PROVE m_theQueue'[countToIndex(writeIndex[q])] = data[q]
        <5>1. countToIndex(writeIndex[q]) # slot
          BY <2>1, <3>2, <4>2, ReservedSlotsApart DEF Reserved
        <5>2. countToIndex(writeIndex[q]) \in 0..Q_SIZE - 1
          BY IndexInArray DEF IInv, TypeOK
        <5> QED
          BY <4>2, <5>1, <5>2, <2>3 DEF IInv, PushInv
      <4> QED
        BY <4>1, <4>2, <1>7 DEF Store, Reserved
    <3> QED
      BY <3>1, <3>2
  <2>6. \A i \in m_readIndex..m_maximumReadIndex - 1 :
          m_theQueue'[countToIndex(i)] = m_theQueue[countToIndex(i)]
    <3> SUFFICES ASSUME NEW i \in m_readIndex..m_maximumReadIndex - 1
                 PROVE  m_theQueue'[countToIndex(i)] = m_theQueue[countToIndex(i)]
      OBVIOUS
    <3>1. countToIndex(i) # slot
      BY <2>1, ReservedNotCommitted
    <3>2. countToIndex(i) \in 0..Q_SIZE - 1
      <4>1. i \in Nat
        BY <1>n
      <4> QED
        BY <4>1, IndexInArray
    <3> QED
      BY <3>1, <3>2, <2>3
  <2>7. CommittedInv'
    BY <1>7, <2>6 DEF Store, indexVars, IInv, CommittedInv
  <2>8. PopInv'
    <3> SUFFICES ASSUME NEW c \in Consumers, popPc[c] = "claim", readIndex[c] = m_readIndex
                 PROVE  a_data[c] = m_theQueue'[countToIndex(m_readIndex)]
      BY <1>7 DEF Store, indexVars, popVars, IInv, PopInv
    <3>1. m_readIndex < m_maximumReadIndex /\ a_data[c] = m_theQueue[countToIndex(m_readIndex)]
      BY DEF IInv, PopInv
    <3>2. m_readIndex \in m_readIndex..m_maximumReadIndex - 1
      BY <1>n, <3>1
    <3> QED
      BY <3>1, <3>2, <2>6
  <2> QED
    BY <2>4, <2>5, <2>7, <2>8
<1>8. ASSUME Commit(p) PROVE Goal
  <2>1. /\ writeIndex[p] = m_maximumReadIndex
        /\ m_maximumReadIndex' = m_maximumReadIndex + 1
        /\ m_maximumReadIndex < m_writeIndex
        /\ m_theQueue[countToIndex(m_maximumReadIndex)] \in Value
        /\ UNCHANGED <<m_theQueue, m_writeIndex, m_readIndex>>
    <3>1. writeIndex[p] \in m_maximumReadIndex..m_writeIndex - 1
      BY <1>8 DEF Commit, IInv, PushInv, Reserved
    <3>2. m_maximumReadIndex < m_writeIndex
      BY <1>8, <1>n, <3>1 DEF Commit
    <3> QED
      BY <1>8, <3>2 DEF Commit, IInv, PushInv
  <2>2. IndexOrder'
    BY <1>n, <2>1 DEF IndexOrder
  <2>3. PushInv'
    <3> SUFFICES ASSUME NEW q \in Producers, Reserved(q), q # p
                 PROVE  writeIndex[q] \in m_maximumReadIndex + 1..m_writeIndex - 1
      BY <1>8, <2>1 DEF Commit, IInv, TypeOK, PushInv, Reserved
    <3>1. writeIndex[q] \in m_maximumReadIndex..m_writeIndex - 1
      BY DEF IInv, PushInv
    <3>2. writeIndex[q] # m_maximumReadIndex
      BY <1>8, <2>1 DEF Commit, IInv, ReservedApart, Reserved
    <3> QED
      BY <1>n, <3>1, <3>2
  <2>4. ReservedApart'
    BY <1>8 DEF Commit, IInv, TypeOK, ReservedApart, Reserved
  <2>5. PopInv'
    <3>1. m_readIndex < m_maximumReadIndex => m_readIndex < m_maximumReadIndex + 1
      BY <1>n
    <3> QED
      BY <1>8, <2>1, <3>1 DEF Commit, popVars, IInv, PopInv
  <2>6. CommittedInv'
    <3> SUFFICES ASSUME NEW i \in m_readIndex..(m_maximumReadIndex + 1) - 1
                 PROVE  m_theQueue[countToIndex(i)] \in Value
      BY <2>1 DEF CommittedInv
    <3>1. i \in m_readIndex..m_maximumReadIndex - 1 \/ i = m_maximumReadIndex
      BY <1>n
    <3> QED
      BY <2>1, <3>1 DEF IInv, CommittedInv
  <2> QED
    BY <2>2, <2>3, <2>4, <2>5, <2>6
<1> QED
  BY <1>1, <1>2, <1>3, <1>4, <1>5, <1>6, <1>7, <1>8 DEF Push

\* A step of a pop does the same.
LEMMA PopStep ==
  ASSUME IInv, NEW c \in Consumers, Pop(c) \/ BeginPop(c)
  PROVE  IndexOrder' /\ PushInv' /\ ReservedApart' /\ PopInv' /\ CommittedInv'
<1> DEFINE Goal == IndexOrder' /\ PushInv' /\ ReservedApart' /\ PopInv' /\ CommittedInv'
<1>n. /\ m_readIndex \in Nat /\ m_maximumReadIndex \in Nat /\ m_writeIndex \in Nat
      /\ m_readIndex <= m_maximumReadIndex /\ m_maximumReadIndex <= m_writeIndex
      /\ m_writeIndex < m_readIndex + Q_SIZE /\ Q_SIZE \in Nat \ {0}
  BY SizeAssumption DEF IInv, TypeOK, IndexOrder
\* Steps that move no shared variable disturb only what c knows.
<1>u. ASSUME UNCHANGED <<m_theQueue, indexVars, pushVars>>
      PROVE  IndexOrder' /\ PushInv' /\ ReservedApart' /\ CommittedInv'
  BY <1>u DEF indexVars, pushVars, IInv, IndexOrder, PushInv, ReservedApart, Reserved, CommittedInv
<1>1. ASSUME BeginPop(c) PROVE Goal
  BY <1>1, <1>u DEF BeginPop, indexVars, IInv, TypeOK, PopInv
<1>2. ASSUME LoadReadIndex(c) PROVE Goal
  <2>1. m_readIndex <= m_readIndex
    BY <1>n
  <2> QED
    BY <1>2, <1>u, <2>1 DEF LoadReadIndex, indexVars, IInv, TypeOK, PopInv
<1>3. ASSUME ReturnEmpty(c) PROVE Goal
  BY <1>3, <1>u DEF ReturnEmpty, indexVars, IInv, TypeOK, PopInv
<1>4. ASSUME FindElement(c) PROVE Goal
  <2>1. readIndex[c] = m_readIndex => m_readIndex < m_maximumReadIndex
    <3>1. readIndex[c] = m_readIndex => m_readIndex # m_maximumReadIndex
      BY <1>4 DEF FindElement, LooksEmpty
    <3> QED
      BY <1>n, <3>1
  <2> QED
    BY <1>4, <1>u, <2>1 DEF FindElement, indexVars, IInv, TypeOK, PopInv
<1>5. ASSUME Fetch(c) PROVE Goal
  BY <1>5, <1>u DEF Fetch, indexVars, IInv, TypeOK, PopInv
<1>6. ASSUME Claim(c) PROVE Goal
  <2>1. /\ readIndex[c] = m_readIndex /\ m_readIndex' = m_readIndex + 1
        /\ m_readIndex < m_maximumReadIndex
        /\ UNCHANGED <<m_theQueue, m_writeIndex, m_maximumReadIndex, pushVars, readIndex, a_data>>
    BY <1>6 DEF Claim, IInv, PopInv
  <2>2. IndexOrder'
    BY <1>n, <2>1 DEF IndexOrder
  <2>3. PushInv'
    <3>1. m_writeIndex + 1 < m_readIndex + Q_SIZE => m_writeIndex + 1 < (m_readIndex + 1) + Q_SIZE
      BY <1>n
    <3> QED
      BY <2>1, <3>1 DEF pushVars, IInv, PushInv, Reserved
  <2>4. ReservedApart'
    BY <2>1 DEF pushVars, IInv, ReservedApart, Reserved
  <2>5. \A n \in Nat : n <= m_readIndex => n <= m_readIndex + 1 /\ n # m_readIndex + 1
    BY <1>n
  <2>6. PopInv'
    <3> SUFFICES ASSUME NEW d \in Consumers, popPc'[d] \in {"load maximum", "fetch", "claim"}
                 PROVE  readIndex[d] <= m_readIndex + 1 /\ readIndex[d] # m_readIndex + 1
      BY <2>1 DEF PopInv
    <3>1. popPc'[d] = popPc[d]
      BY <1>6 DEF Claim, IInv, TypeOK
    <3>2. readIndex[d] <= m_readIndex /\ readIndex[d] \in Nat
      BY <3>1 DEF IInv, PopInv, TypeOK
    <3> QED
      BY <3>2, <2>5
  <2>7. CommittedInv'
    <3> SUFFICES ASSUME NEW i \in m_readIndex + 1..m_maximumReadIndex - 1
                 PROVE  m_theQueue[countToIndex(i)] \in Value
      BY <2>1 DEF CommittedInv
    <3>1. i \in m_readIndex..m_maximumReadIndex - 1
      BY <1>n
    <3> QED
      BY <3>1 DEF IInv, CommittedInv
  <2> QED
    BY <2>2, <2>3, <2>4, <2>6, <2>7
<1>7. ASSUME ClaimFails(c) PROVE Goal
  BY <1>7, <1>u DEF ClaimFails, indexVars, IInv, TypeOK, PopInv
<1> QED
  BY <1>1, <1>2, <1>3, <1>4, <1>5, <1>6, <1>7 DEF Pop

\* The invariant is inductive.
LEMMA InvStep == IInv /\ [Next]_vars => IInv'
<1> SUFFICES ASSUME IInv, [Next]_vars PROVE IInv'
  OBVIOUS
<1>1. TypeOK'
  BY TypeStep DEF IInv
<1>2. CASE UNCHANGED vars
  BY <1>1, <1>2 DEF vars, indexVars, pushVars, popVars, IInv, IndexOrder, PushInv,
     ReservedApart, Reserved, PopInv, CommittedInv
<1>3. ASSUME NEW p \in Producers, Push(p) \/ \E v \in Value : BeginPush(p, v) PROVE IInv'
  BY <1>1, <1>3, PushStep DEF IInv
<1>4. ASSUME NEW c \in Consumers, Pop(c) \/ BeginPop(c) PROVE IInv'
  BY <1>1, <1>4, PopStep DEF IInv
<1> QED
  BY <1>2, <1>3, <1>4 DEF Next

LEMMA InvHolds == Spec => []IInv
BY InitInv, InvStep, PTL DEF Spec

-----------------------------------------------------------------------------
\* Every variable of the queue keeps its type.
THEOREM TypeCorrect == Spec => []TypeOK
<1>1. IInv => TypeOK
  BY DEF IInv
<1> QED
  BY <1>1, InvHolds, PTL

\* Elements are reserved, committed and extracted in this order and one slot
\* of the array always stays free.
THEOREM IndicesOrdered == Spec => []IndexOrder
<1>1. IInv => IndexOrder
  BY DEF IInv
<1> QED
  BY <1>1, InvHolds, PTL

\* A producer never writes a slot that another producer or a committed
\* element occupies.
THEOREM SlotsExclusive == Spec => []SlotExclusive
<1>1. IInv => SlotExclusive
  BY ReservedNotCommitted, ReservedSlotsApart DEF SlotExclusive
<1> QED
  BY <1>1, InvHolds, PTL

-----------------------------------------------------------------------------
(* The refinement of FifoQueue. *)

LEMMA RefineInit == Init => Fifo!Init
<1> SUFFICES ASSUME Init PROVE Fifo!Init
  OBVIOUS
<1>1. contentBar = <<>>
  BY DEF Init, contentBar
<1> QED
  BY <1>1 DEF Init, Fifo!Init

\* The committed elements are a sequence of values.
LEMMA ContentIsSeq ==
  IInv => /\ contentBar \in Seq(Value)
          /\ Len(contentBar) = m_maximumReadIndex - m_readIndex
<1> SUFFICES ASSUME IInv
             PROVE  /\ contentBar \in Seq(Value)
                    /\ Len(contentBar) = m_maximumReadIndex - m_readIndex
  OBVIOUS
<1> DEFINE n == m_maximumReadIndex - m_readIndex
<1>1. /\ m_readIndex \in Nat /\ m_maximumReadIndex \in Nat
      /\ m_readIndex <= m_maximumReadIndex
  BY DEF IInv, TypeOK, IndexOrder
<1>2. n \in Nat
  BY <1>1
<1>3. \A i \in 1..n : m_theQueue[countToIndex(m_readIndex + i - 1)] \in Value
  <2> SUFFICES ASSUME NEW i \in 1..n
               PROVE  m_theQueue[countToIndex(m_readIndex + i - 1)] \in Value
    OBVIOUS
  <2>1. m_readIndex + i - 1 \in m_readIndex..m_maximumReadIndex - 1
    BY <1>1
  <2> QED
    BY <2>1 DEF IInv, CommittedInv
<1>4. contentBar \in [1..n -> Value]
  BY <1>3 DEF contentBar
<1> QED
  BY <1>2, <1>4

\* A commit appends the producer's element.
LEMMA CommitPuts == ASSUME IInv, IInv', NEW p \in Producers, Commit(p) PROVE Fifo!Put(p)
<1> DEFINE n == m_maximumReadIndex - m_readIndex
<1>1. /\ m_readIndex \in Nat /\ m_maximumReadIndex \in Nat /\ m_writeIndex \in Nat
      /\ m_readIndex <= m_maximumReadIndex /\ m_writeIndex < m_readIndex + Q_SIZE
      /\ Q_SIZE \in Nat \ {0}
  BY SizeAssumption DEF IInv, TypeOK, IndexOrder
<1>2. /\ writeIndex[p] = m_maximumReadIndex
      /\ writeIndex[p] \in m_maximumReadIndex..m_writeIndex - 1
      /\ m_theQueue[countToIndex(m_maximumReadIndex)] = data[p]
      /\ data[p] \in Value
      /\ m_maximumReadIndex' = m_maximumReadIndex + 1
      /\ UNCHANGED <<m_theQueue, m_readIndex, popVars>>
      /\ data' = [data EXCEPT ![p] = NoValue]
  BY DEF Commit, IInv, PushInv, Reserved
<1>3. data[p] # NoValue
  BY <1>2, ValueAssumption
<1>4. n \in Nat /\ (m_maximumReadIndex + 1) - m_readIndex = n + 1 /\ n < Q_SIZE - 1
  BY <1>1, <1>2
<1>5. contentBar \in Seq(Value) /\ Len(contentBar) = n
  BY ContentIsSeq
<1>6. contentBar' \in Seq(Value) /\ Len(contentBar') = n + 1
  <2>1. (IInv => contentBar \in Seq(Value) /\ Len(contentBar) = m_maximumReadIndex - m_readIndex)'
    BY ContentIsSeq, PTL
  <2> QED
    BY <2>1, <1>2, <1>4
<1> DEFINE t == Append(contentBar, data[p])
<1>7. /\ t \in Seq(Value) /\ Len(t) = n + 1
      /\ \A i \in 1..n : t[i] = contentBar[i]
      /\ t[n + 1] = data[p]
  BY <1>2, <1>5, AppendProperties
<1>8. \A i \in 1..n + 1 : contentBar'[i] = t[i]
  <2> SUFFICES ASSUME NEW i \in 1..n + 1 PROVE contentBar'[i] = t[i]
    OBVIOUS
  <2>1. contentBar'[i] = m_theQueue[countToIndex(m_readIndex + i - 1)]
    BY <1>2, <1>4 DEF contentBar
  <2>2. CASE i \in 1..n
    BY <2>1, <2>2, <1>7 DEF contentBar
  <2>3. CASE i = n + 1
    <3>1. m_readIndex + i - 1 = m_maximumReadIndex
      BY <2>3, <1>1
    <3> QED
      BY <2>1, <2>3, <3>1, <1>2, <1>7
  <2> QED
    <3>1. i \in 1..n \/ i = n + 1
      BY <1>4
    <3> QED
      BY <3>1, <2>2, <2>3
<1>9. contentBar' = t
  BY <1>6, <1>7, <1>8, SeqEqual
<1> QED
  BY <1>2, <1>3, <1>4, <1>5, <1>9 DEF Fifo!Put, popVars

\* A claim takes the oldest element.
LEMMA ClaimGets == ASSUME IInv, IInv', NEW c \in Consumers, Claim(c) PROVE Fifo!Get(c)
<1> DEFINE n == m_maximumReadIndex - m_readIndex
<1>1. /\ m_readIndex \in Nat /\ m_maximumReadIndex \in Nat
      /\ m_readIndex <= m_maximumReadIndex
  BY DEF IInv, TypeOK, IndexOrder
<1>2. /\ readIndex[c] = m_readIndex /\ m_readIndex < m_maximumReadIndex
      /\ a_data[c] = m_theQueue[countToIndex(m_readIndex)]
      /\ m_readIndex' = m_readIndex + 1
      /\ UNCHANGED <<m_theQueue, m_maximumReadIndex, pushVars>>
      /\ got' = [got EXCEPT ![c] = a_data[c]]
  BY DEF Claim, IInv, PopInv
<1>3. n \in Nat /\ n > 0 /\ m_maximumReadIndex - (m_readIndex + 1) = n - 1
  BY <1>1, <1>2
<1>4. contentBar \in Seq(Value) /\ Len(contentBar) = n
  BY ContentIsSeq
<1>5. contentBar' \in Seq(Value) /\ Len(contentBar') = n - 1
  <2>1. (IInv => contentBar \in Seq(Value) /\ Len(contentBar) = m_maximumReadIndex - m_readIndex)'
    BY ContentIsSeq, PTL
  <2> QED
    BY <2>1, <1>2, <1>3
<1>6. contentBar # <<>>
  BY <1>3, <1>4
<1>7. contentBar[1] = a_data[c]
  <2>1. m_readIndex + 1 - 1 = m_readIndex
    BY <1>1
  <2> QED
    BY <1>2, <1>3, <2>1 DEF contentBar
<1>8. /\ Tail(contentBar) \in Seq(Value) /\ Len(Tail(contentBar)) = n - 1
      /\ \A i \in 1..n - 1 : Tail(contentBar)[i] = contentBar[i + 1]
      /\ Head(contentBar) = contentBar[1]
  BY <1>4, <1>6, HeadTailProperties
<1>9. \A i \in 1..n - 1 : contentBar'[i] = Tail(contentBar)[i]
  <2> SUFFICES ASSUME NEW i \in 1..n - 1 PROVE contentBar'[i] = Tail(contentBar)[i]
    OBVIOUS
  <2>1. contentBar'[i] = m_theQueue[countToIndex((m_readIndex + 1) + i - 1)]
    BY <1>2, <1>3 DEF contentBar
  <2>2. i + 1 \in 1..n /\ (m_readIndex + 1) + i - 1 = m_readIndex + (i + 1) - 1
    BY <1>1, <1>3
  <2>3. contentBar[i + 1] = m_theQueue[countToIndex(m_readIndex + (i + 1) - 1)]
    BY <2>2 DEF contentBar
  <2> QED
    BY <2>1, <2>2, <2>3, <1>8
<1>10. contentBar' = Tail(contentBar)
  BY <1>5, <1>8, <1>9, SeqEqual
<1> QED
  BY <1>2, <1>6, <1>7, <1>8, <1>10 DEF Fifo!Get, pushVars

\* A store into a reserved slot changes no committed element.
LEMMA StoreStutters == ASSUME IInv, NEW p \in Producers, Store(p) PROVE contentBar' = contentBar
<1> DEFINE slot == countToIndex(writeIndex[p])
<1>1. /\ Reserved(p)
      /\ m_theQueue' = [m_theQueue EXCEPT ![slot] = data[p]]
      /\ UNCHANGED <<m_readIndex, m_maximumReadIndex>>
  BY DEF Store, Reserved, indexVars
<1>2. \A i \in 1..m_maximumReadIndex - m_readIndex :
        m_theQueue'[countToIndex(m_readIndex + i - 1)] = m_theQueue[countToIndex(m_readIndex + i - 1)]
  <2> SUFFICES ASSUME NEW i \in 1..m_maximumReadIndex - m_readIndex
               PROVE  m_theQueue'[countToIndex(m_readIndex + i - 1)]
                        = m_theQueue[countToIndex(m_readIndex + i - 1)]
    OBVIOUS
  <2>1. m_readIndex \in Nat /\ m_maximumReadIndex \in Nat
    BY DEF IInv, TypeOK
  <2>2. /\ m_readIndex + i - 1 \in m_readIndex..m_maximumReadIndex - 1
        /\ m_readIndex + i - 1 \in Nat
    BY <2>1
  <2>3. countToIndex(m_readIndex + i - 1) # slot
    BY <1>1, <2>2, ReservedNotCommitted
  <2>4. countToIndex(m_readIndex + i - 1) \in 0..Q_SIZE - 1
    BY <2>2, IndexInArray
  <2> QED
    BY <1>1, <2>3, <2>4 DEF IInv, TypeOK
<1> QED
  BY <1>1, <1>2 DEF contentBar

\* Every step of a push or a pop is a step of the FIFO queue or leaves it
\* unchanged.
LEMMA RefineStep ==
  IInv /\ IInv' /\ [Next]_vars => [Fifo!Next]_<<contentBar, data, got>>
<1> SUFFICES ASSUME IInv, IInv', [Next]_vars
             PROVE  Fifo!Next \/ UNCHANGED <<contentBar, data, got>>
  OBVIOUS
<1> DEFINE Goal == Fifo!Next \/ UNCHANGED <<contentBar, data, got>>
<1>1. ASSUME NEW p \in Producers, NEW v \in Value, BeginPush(p, v) PROVE Goal
  <2>1. data[p] = NoValue
    BY <1>1 DEF BeginPush, IInv, PushInv
  <2> QED
    BY <1>1, <2>1 DEF BeginPush, indexVars, popVars, contentBar, Fifo!Next, Fifo!Offer
<1>2. ASSUME NEW p \in Producers, LoadWriteIndex(p) PROVE Goal
  BY <1>2 DEF LoadWriteIndex, indexVars, popVars, contentBar
<1>3. ASSUME NEW p \in Producers, ReturnFull(p) PROVE Goal
  <2>1. data[p] # NoValue
    BY <1>3, ValueAssumption DEF ReturnFull, IInv, PushInv
  <2> QED
    BY <1>3, <2>1 DEF ReturnFull, indexVars, popVars, contentBar, Fifo!Next, Fifo!Refuse
<1>4. ASSUME NEW p \in Producers, FindRoom(p) PROVE Goal
  BY <1>4 DEF FindRoom, indexVars, popVars, contentBar
<1>5. ASSUME NEW p \in Producers, Reserve(p) PROVE Goal
  BY <1>5 DEF Reserve, popVars, contentBar
<1>6. ASSUME NEW p \in Producers, ReserveFails(p) PROVE Goal
  BY <1>6 DEF ReserveFails, indexVars, popVars, contentBar
<1>7. ASSUME NEW p \in Producers, Store(p) PROVE Goal
  <2>1. contentBar' = contentBar
    BY <1>7, StoreStutters
  <2> QED
    BY <1>7, <2>1 DEF Store, popVars
<1>8. ASSUME NEW p \in Producers, Commit(p) PROVE Goal
  BY <1>8, CommitPuts DEF Fifo!Next
<1>9. ASSUME NEW c \in Consumers, BeginPop(c) PROVE Goal
  BY <1>9 DEF BeginPop, indexVars, pushVars, contentBar
<1>10. ASSUME NEW c \in Consumers, LoadReadIndex(c) PROVE Goal
  BY <1>10 DEF LoadReadIndex, indexVars, pushVars, contentBar
<1>11. ASSUME NEW c \in Consumers, ReturnEmpty(c) PROVE Goal
  BY <1>11 DEF ReturnEmpty, indexVars, pushVars, contentBar
<1>12. ASSUME NEW c \in Consumers, FindElement(c) PROVE Goal
  BY <1>12 DEF FindElement, indexVars, pushVars, contentBar
<1>13. ASSUME NEW c \in Consumers, Fetch(c) PROVE Goal
  BY <1>13 DEF Fetch, indexVars, pushVars, contentBar
<1>14. ASSUME NEW c \in Consumers, Claim(c) PROVE Goal
  BY <1>14, ClaimGets DEF Fifo!Next
<1>15. ASSUME NEW c \in Consumers, ClaimFails(c) PROVE Goal
  BY <1>15 DEF ClaimFails, indexVars, pushVars, contentBar
<1>16. ASSUME UNCHANGED vars PROVE Goal
  BY <1>16 DEF vars, indexVars, pushVars, popVars, contentBar
<1> QED
  BY <1>1, <1>2, <1>3, <1>4, <1>5, <1>6, <1>7, <1>8, <1>9, <1>10, <1>11,
     <1>12, <1>13, <1>14, <1>15, <1>16 DEF Next, Push, Pop

\* The circular array with its three indices implements a bounded FIFO queue
\* for any number of producers and consumers.
THEOREM LockFreeQueueRefines == Spec => ImplementsFifo
<1>1. IInv /\ IInv' /\ [Next]_vars => [Fifo!Next]_(Fifo!queueVars)
  BY RefineStep DEF Fifo!queueVars
<1> QED
  BY <1>1, InvHolds, RefineInit, PTL DEF ImplementsFifo, Fifo!Spec, Spec

-----------------------------------------------------------------------------
(* As the program uses it, with one producer and one consumer per session, *)
(* the two "false" answers are exact.                                      *)

\* The only producer's copy of the write index is never stale.
WriteIndexFresh ==
  \A p \in Producers : pc[p] \in {"load read", "reserve"} => writeIndex[p] = m_writeIndex

LEMMA WriteIndexFreshStep ==
  ASSUME NEW p0, Producers = {p0}, IInv, WriteIndexFresh, [Next]_vars
  PROVE  WriteIndexFresh'
<1>1. ASSUME NEW v \in Value, BeginPush(p0, v) PROVE WriteIndexFresh'
  BY <1>1 DEF BeginPush, indexVars, WriteIndexFresh, IInv, TypeOK
<1>2. CASE Push(p0)
  BY <1>2 DEF Push, LoadWriteIndex, ReturnFull, FindRoom, Reserve, ReserveFails, Store, Commit,
     indexVars, WriteIndexFresh, IInv, TypeOK
<1>3. ASSUME NEW c \in Consumers, Pop(c) \/ BeginPop(c) PROVE WriteIndexFresh'
  <2>1. UNCHANGED <<pc, writeIndex, m_writeIndex>>
    BY <1>3 DEF Pop, BeginPop, LoadReadIndex, ReturnEmpty, FindElement, Fetch, Claim, ClaimFails,
       indexVars, pushVars
  <2> QED
    BY <2>1 DEF WriteIndexFresh
<1>4. CASE UNCHANGED vars
  BY <1>4 DEF vars, indexVars, pushVars, WriteIndexFresh
<1> QED
  BY <1>1, <1>2, <1>3, <1>4 DEF Next

\* With one producer, push returns false only if the queue is full.
THEOREM SingleProducerExact ==
  ASSUME NEW p0, Producers = {p0}
  PROVE  Spec => RefusedOnlyWhenFull
<1>1. Init => WriteIndexFresh
  BY DEF Init, WriteIndexFresh
<1>2. IInv /\ WriteIndexFresh /\ [Next]_vars => WriteIndexFresh'
  BY WriteIndexFreshStep
<1>3. IInv /\ WriteIndexFresh =>
        \A p \in Producers : ReturnFull(p) => m_writeIndex - m_readIndex = Q_SIZE - 1
  <2> SUFFICES ASSUME IInv, WriteIndexFresh, NEW p \in Producers, ReturnFull(p)
               PROVE  m_writeIndex - m_readIndex = Q_SIZE - 1
    OBVIOUS
  <2>1. /\ m_readIndex \in Nat /\ m_writeIndex \in Nat /\ Q_SIZE \in Nat \ {0}
        /\ m_readIndex <= m_writeIndex /\ m_writeIndex < m_readIndex + Q_SIZE
    <3>1. /\ m_readIndex \in Nat /\ m_writeIndex \in Nat /\ m_maximumReadIndex \in Nat
          /\ m_readIndex <= m_maximumReadIndex /\ m_maximumReadIndex <= m_writeIndex
          /\ m_writeIndex < m_readIndex + Q_SIZE
      BY DEF IInv, TypeOK, IndexOrder
    <3> QED
      BY <3>1, SizeAssumption
  <2>2. countToIndex(m_writeIndex + 1) = countToIndex(m_readIndex)
    BY DEF ReturnFull, LooksFull, WriteIndexFresh
  <2>3. ~ ((m_writeIndex + 1) - m_readIndex < Q_SIZE)
    <3>1. m_writeIndex + 1 \in Nat /\ m_readIndex < m_writeIndex + 1
      BY <2>1
    <3> QED
      BY <2>1, <2>2, <3>1, SlotsDiffer
  <2> QED
    BY <2>1, <2>3
<1> QED
  BY <1>1, <1>2, <1>3, InvHolds, PTL DEF RefusedOnlyWhenFull, Spec

\* The only consumer's copy of the read index is never stale.
ReadIndexFresh ==
  \A c \in Consumers : popPc[c] = "load maximum" => readIndex[c] = m_readIndex

LEMMA ReadIndexFreshStep ==
  ASSUME NEW c0, Consumers = {c0}, IInv, ReadIndexFresh, [Next]_vars
  PROVE  ReadIndexFresh'
<1>1. CASE Pop(c0) \/ BeginPop(c0)
  BY <1>1 DEF Pop, BeginPop, LoadReadIndex, ReturnEmpty, FindElement, Fetch, Claim, ClaimFails,
     indexVars, ReadIndexFresh, IInv, TypeOK
<1>2. ASSUME NEW p \in Producers, Push(p) \/ \E v \in Value : BeginPush(p, v)
      PROVE  ReadIndexFresh'
  <2>1. UNCHANGED <<popPc, readIndex, m_readIndex>>
    BY <1>2 DEF Push, BeginPush, LoadWriteIndex, ReturnFull, FindRoom, Reserve, ReserveFails,
       Store, Commit, indexVars, popVars
  <2> QED
    BY <2>1 DEF ReadIndexFresh
<1>3. CASE UNCHANGED vars
  BY <1>3 DEF vars, indexVars, popVars, ReadIndexFresh
<1> QED
  BY <1>1, <1>2, <1>3 DEF Next

\* With one consumer, pop returns false only if nothing is committed.
THEOREM SingleConsumerExact ==
  ASSUME NEW c0, Consumers = {c0}
  PROVE  Spec => EmptyOnlyWhenEmpty
<1>1. Init => ReadIndexFresh
  BY DEF Init, ReadIndexFresh
<1>2. IInv /\ ReadIndexFresh /\ [Next]_vars => ReadIndexFresh'
  BY ReadIndexFreshStep
<1>3. IInv /\ ReadIndexFresh =>
        \A c \in Consumers : ReturnEmpty(c) => m_readIndex = m_maximumReadIndex
  <2> SUFFICES ASSUME IInv, ReadIndexFresh, NEW c \in Consumers, ReturnEmpty(c)
               PROVE  m_readIndex = m_maximumReadIndex
    OBVIOUS
  <2>1. /\ m_readIndex \in Nat /\ m_maximumReadIndex \in Nat
        /\ m_readIndex <= m_maximumReadIndex /\ m_maximumReadIndex - m_readIndex < Q_SIZE
    <3>1. /\ m_readIndex \in Nat /\ m_writeIndex \in Nat /\ m_maximumReadIndex \in Nat
          /\ m_readIndex <= m_maximumReadIndex /\ m_maximumReadIndex <= m_writeIndex
          /\ m_writeIndex < m_readIndex + Q_SIZE
      BY DEF IInv, TypeOK, IndexOrder
    <3> QED
      BY <3>1, SizeAssumption
  <2>2. countToIndex(m_readIndex) = countToIndex(m_maximumReadIndex)
    BY DEF ReturnEmpty, LooksEmpty, ReadIndexFresh
  <2>3. ~ (m_readIndex < m_maximumReadIndex)
    BY <2>1, <2>2, SlotsDiffer
  <2> QED
    BY <2>1, <2>3
<1> QED
  BY <1>1, <1>2, <1>3, InvHolds, PTL DEF EmptyOnlyWhenEmpty, Spec
=============================================================================
