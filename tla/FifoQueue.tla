----------------------------- MODULE FifoQueue -----------------------------
(***************************************************************************)
(* What ArrayLockFreeQueue promises to concurrent callers: a bounded FIFO  *)
(* queue whose push and pop take effect at one instant.  A push may be     *)
(* refused; when it may is a question of its own (see LockFreeQueue).      *)
(***************************************************************************)
EXTENDS Naturals, Sequences

CONSTANTS
  Producers,   \* threads that push
  Consumers,   \* threads that pop
  Value,       \* the elements
  NoValue,     \* no element
  Capacity     \* how many elements fit

VARIABLES
  content,     \* the elements in the queue
  offer,       \* the element each producer is pushing, or NoValue
  got          \* the element each consumer's last successful pop returned

queueVars == <<content, offer, got>>

Init ==
  /\ content = <<>>
  /\ offer = [p \in Producers |-> NoValue]
  /\ got = [c \in Consumers |-> NoValue]

\* push is called ...
Offer(p, v) ==
  /\ offer[p] = NoValue
  /\ offer' = [offer EXCEPT ![p] = v]
  /\ UNCHANGED <<content, got>>

\* ... and either inserts the element ...
Put(p) ==
  /\ offer[p] # NoValue
  /\ Len(content) < Capacity
  /\ content' = Append(content, offer[p])
  /\ offer' = [offer EXCEPT ![p] = NoValue]
  /\ UNCHANGED got

\* ... or returns false.
Refuse(p) ==
  /\ offer[p] # NoValue
  /\ offer' = [offer EXCEPT ![p] = NoValue]
  /\ UNCHANGED <<content, got>>

\* pop takes the oldest element.
Get(c) ==
  /\ content # <<>>
  /\ got' = [got EXCEPT ![c] = Head(content)]
  /\ content' = Tail(content)
  /\ UNCHANGED offer

Next ==
  \/ \E p \in Producers : (\E v \in Value : Offer(p, v)) \/ Put(p) \/ Refuse(p)
  \/ \E c \in Consumers : Get(c)

Spec == Init /\ [][Next]_queueVars
=============================================================================
