--------------------------- MODULE DataBufferPool ---------------------------
(***************************************************************************)
(* DataBufferManager and its DataBufferPool (the USE_STL variant, the one  *)
(* that is compiled): a deque of free buffers that grows on demand.  Every *)
(* operation is one critical section of bufferlock.                        *)
(***************************************************************************)
EXTENDS Naturals, Sequences

CONSTANTS
  MaxBuffers,   \* bound on the DataBuff objects made
  BufferSizes   \* what DataBuff::buffersize can be: any UINT32

VARIABLES
  bufferpool,   \* the free buffers
  made,         \* how many DataBuff objects exist; they are numbered
  buffersize    \* the field of each object: no code sets it, so it is what
                \* was in the memory the object got

Buffer == 1..MaxBuffers

poolVars == <<bufferpool, made, buffersize>>

PoolTypeOK ==
  /\ bufferpool \in Seq(1..made)
  /\ made \in 0..MaxBuffers
  /\ buffersize \in [1..made -> BufferSizes]

\* Nothing calls DataBufferPool::init: the pool starts empty.
Init ==
  /\ bufferpool = <<>>
  /\ made = 0
  /\ buffersize = <<>>

\* The first free buffer, or a new one if there is none.
allocBuffer(buff) ==
  \/ /\ bufferpool # <<>>
     /\ buff = Head(bufferpool)
     /\ bufferpool' = Tail(bufferpool)
     /\ UNCHANGED <<made, buffersize>>
  \/ /\ bufferpool = <<>>
     /\ buff = made + 1
     /\ buff \in Buffer
     /\ made' = buff
     /\ \E size \in BufferSizes : buffersize' = Append(buffersize, size)
     /\ UNCHANGED bufferpool

releaseBuffer(buff) ==
  /\ bufferpool' = <<buff>> \o bufferpool
  /\ UNCHANGED <<made, buffersize>>
=============================================================================
