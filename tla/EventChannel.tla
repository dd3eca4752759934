---------------------------- MODULE EventChannel ----------------------------
(***************************************************************************)
(* What ServerCore promises to the threads around it: events posted by the *)
(* network side reach the main thread once each, in posting order, in      *)
(* batches.  A batch is everything that was pending at one instant, and    *)
(* the main thread finishes a batch before it takes the next one.          *)
(* EventQueue is the implementation with two deques and a spin lock;       *)
(* SessionLifecycle builds on this abstraction.                            *)
(***************************************************************************)
EXTENDS Naturals, Sequences

CONSTANTS
  Event,      \* the events that can be posted
  NoEvent     \* "no event is being handled"

VARIABLES
  pending,    \* events posted and not yet taken by the main thread
  batch,      \* rest of the batch the main thread is working on
  item        \* the event the main thread is handling, or NoEvent

channelVars == <<pending, batch, item>>

ChannelTypeOK ==
  /\ pending \in Seq(Event)
  /\ batch \in Seq(Event)
  /\ item \in Event \cup {NoEvent}

Init ==
  /\ pending = <<>>
  /\ batch = <<>>
  /\ item = NoEvent

\* A network-side thread posts an event.
Post(e) ==
  /\ pending' = Append(pending, e)
  /\ UNCHANGED <<batch, item>>

\* The main thread takes everything that is pending.
TakeBatch ==
  /\ batch = <<>>
  /\ item = NoEvent
  /\ batch' = pending
  /\ pending' = <<>>
  /\ UNCHANGED item

\* The main thread turns to the next event of its batch.
NextItem ==
  /\ batch # <<>>
  /\ item' = Head(batch)
  /\ batch' = Tail(batch)
  /\ UNCHANGED pending

\* The main thread has handled the whole batch.
EndBatch ==
  /\ batch = <<>>
  /\ item' = NoEvent
  /\ UNCHANGED <<pending, batch>>

Next ==
  \/ \E e \in Event : Post(e)
  \/ TakeBatch
  \/ NextItem
  \/ EndBatch

Spec == Init /\ [][Next]_channelVars
=============================================================================
