# A TLA+ development for the TCG login server

The repository is a TCP login server in C++ on libuv: one thread runs the libuv
loop, the main thread calls `ServerCore::update()` once a millisecond, and the
two share the session objects, an event queue and a pool of buffers. Its own
code is about 3400 lines under `src/TCG-LoginServer`; the rest (`src/Dep`,
`pb/`, `src/protobuf`) is vendored or generated. There are no tests and no docs
in the repository, so the comments in the code are all it says about itself.

This directory models the parts of it in which two threads meet: the event
queue, the lock-free send queue, the life of the session objects, the way of a
packet through both threads and back, the service around them (start-up,
singletons, log), and the message digests. Each is model-checked with TLC on
small instances; every safety property of the passing runs, and both refinements
of the queues and that of the packet path, are also proved with TLAPS, for every
instance.

## The system

Paths are under `src/TCG-LoginServer`.

| part | state | operations | who runs it |
|---|---|---|---|
| `ServerCore` (`NetCore/ServerCore.*`) | two heap deques `recvDataQueue`, `dispathQueue`, a `CSpinLock` | `onNewSession`, `onCloseSession`, `onRecvData` push a `NetPacket` under the lock; `update` swaps the pointers under the lock and walks the other deque without it | loop thread pushes, main thread updates |
| `CSpinLock` (`Common/SpinLock.h`) | an `atomic_flag` | `Lock`, `Unlock`, `TryLock`, `TryLockTimes` | both |
| `NetManager` (`NetCore/NetManager.*`) | the loop, the listening socket, the handler | `start`, `close`, `OnNewConnection`, `handleAccept`, `sendProtoBufToSession` | main thread starts and sends, loop thread accepts |
| `Session` (`NetCore/Session.*`) | the libuv handle and requests, receive, post and send buffers, `handler`, `connected`, `sendBuffList` | the libuv callbacks, `close`, `doReceive`, `handleRecvPacket`, `sendBuffer`, `doSend` | loop thread, `sendBuffer` and the destructor on the main thread |
| `SessionManager` (`NetCore/SessionManager.*`) | `sessionSerial`, the map `sessionlist`, a mutex | `createSession`, `removeSession`, `getSession` | loop thread creates, main thread removes and looks up |
| `ArrayLockFreeQueue` (`Common/LockFreeQueue*.h`) | circular array, three 64-bit indices | `push`, `pop`, `size` | main thread pushes, loop thread pops |
| `DataBufferPool` (`NetCore/DataBufferPool.*`) | a deque of free buffers, a mutex | `allocBuffer`, `releaseBuffer` | both |
| `Log` (`Common/Logger.*`) | the file, `logCount`, a mutex | `LogInfo`, `LogError`, `Flush` | all; `Flush` on the main thread |
| `GameService`, `PacketHandler` | none | `init`, `runLoop`; a switch from request to acknowledgement | main thread |
| `SHA256`, `MD5` (`Common/Sha256.*`, `md5.*`) | a partial block, the lengths, the hash | `init`, `update`, `final`; `update`, `finalize`, `hexdigest` | `UTIL::GetSessionKey`, which nothing calls yet |
| `Util` | none | system calls | - |

How they interact. The loop thread creates a session when libuv reports a
connection, posts its arrival to `ServerCore`, and starts reading. When the
stream ends it closes the handle and posts the close. The events carry the raw
`Session*`. The main thread takes them in batches; for a close it removes the
session from the map and deletes it. Packets would travel the same way: cut out
of the stream on the loop thread, carried by a pool buffer through the event
queue, answered by the main thread through the session's lock-free send queue,
written by the loop thread.

What is hard in it, and what makes each part correct (the list with lines and
properties is `hazards` in `PROJECT.json`):

* **Event queue.** `std::swap` changes two pointers the other thread follows,
  and the deque being walked is not protected by the lock. Correct when nobody
  pushes into the deque being walked, nothing is left in the deque swapped in,
  and every packet is dispatched once and in order; when a thread spinning on
  the lock gets it.
* **Session lifetime.** Raw pointers in a queue between two threads, an object
  deleted by one thread that the other thread's callbacks use. Correct when the
  queue never holds a dangling pointer, a session is deleted once, after its
  close, and every closed session is deleted.
* **Lock-free queue.** Two indices loaded at different moments, slots written
  out of order, full and empty told apart by residues. Correct when it is a
  FIFO queue and refuses only when it must.
* **Receive and send path.** State machines over byte counts. Correct when the
  packets cut out of the reads are exactly those of the stream, taken in order
  and once each; when an answer leaves whole, once, in order, and gathering never
  writes past the end of `sendBuf`; when a packet never meets a deleted session.
  A packet's own `msgID` goes into the event queue, where two numbers mean the
  session's arrival and close.
* **Buffer pool.** A buffer passes through two threads and nine places. Correct
  when it is always in exactly one, also when its session closes on the way, and
  is back in the pool in the end.
* **Digests.** A block that fills over several calls, padding that takes one
  block or two, a bit count carried by hand over two words. Correct when the
  compression function is given exactly the padded message of the standard.
* **Start-up and log.** Results that are ignored, singletons created without a
  lock, a counter `Flush` tests and resets without the mutex under which it is
  incremented. Correct when there is one object of each class, nobody logs
  without an open file, and lines reach the disk.

## The modules

| module | models | read with |
|---|---|---|
| `EventChannel` | what `ServerCore` promises: posted events reach the main thread once each, in order, in batches | `ServerCore.h:24-36` |
| `EventQueue` | the two deques, the pointers, the spin lock, the posting handlers and `update`, step by step; implements `EventChannel` | `ServerCore.cpp`, `SpinLock.h` |
| `EventQueueProofs` | proofs about `EventQueue` | |
| `FifoQueue` | what the lock-free queue promises: a bounded FIFO queue whose operations take effect at one instant | `LockFreeQueue.h:83-105` |
| `LockFreeQueue` | `push` and `pop`, one step per load, CAS and array access; implements `FifoQueue` | `LockFreeQueueImpl.h` |
| `LockFreeQueueProofs` | proofs about `LockFreeQueue` | |
| `SessionLifecycle` | the session objects between the loop thread and the main thread, over `EventChannel` | `NetManager.cpp`, `Session.cpp`, `SessionManager.cpp`, `ServerCore.cpp` |
| `SessionLifecycleProofs` | proofs about `SessionLifecycle` | |
| `DataBufferPool` | the pool's two operations | `DataBufferPool.cpp`, `.h` |
| `PacketFraming` | the loop of `handleRecvPacket`, one action per way through its body | `Session.cpp:240-354` |
| `Exchange` | what the server owes the client of one session: packets taken in order and once, those that do not name an event handled, requests among these answered in order and at most once, nothing after the session is removed | `ServerCore.cpp:92-109`, `PacketHandler.cpp:21-29`, `Session.cpp:158-218` |
| `PacketPath` | reads, framing, event channel, answer, send queue, `doSend`, close and delete, for one session; implements `Exchange`; composes `PacketFraming`, `DataBufferPool` and `EventChannel` | `Session.cpp`, `ServerCore.cpp`, `NetManager.cpp`, `PacketHandler.cpp` |
| `PacketPathProofs` | proofs about `PacketPath` | |
| `AsBuiltProofs` | proofs about `PacketPath` where statements of the code are missing | |
| `SequenceFacts` | lemmas about sequences and an induction over sets, for `PacketPathProofs` and `DigestsProofs` | |
| `Service` | `init`, the start functions, `runLoop`, the singletons, the log on both threads | `GameService.cpp`, `ServerCore.cpp`, `NetManager.cpp`, `Logger.cpp`, `.h` |
| `ServiceProofs` | proofs about `Service` | |
| `DigestBytes` | bytes, words, `memcpy` and `memset`, and the padding the standards ask for | `md5.cpp:148-156`, `Sha256.h:39-45` |
| `Sha256`, `Md5` | the two classes as operators on a record of their fields | `Sha256.cpp:23-115`, `md5.cpp:120-346` |
| `Digests` | a client that gives both a message in pieces and asks for the digests | `Util.h:93-103` |
| `DigestsProofs` | proofs about `Digests` | |
| `MCEventQueue`, `MCLockFreeQueue`, `MCSessionLifecycle`, `MCPacketPath`, `MCService`, `MCDigests` | instances for TLC | |

`SessionLifecycle` composes with the event queue through its abstraction:
`Events == INSTANCE EventChannel`. That `EventQueue` implements `EventChannel`
is checked and proved, so what holds of sessions over the channel holds over
the two deques.

Operators marked "Faulty" in the modules are not used by the specifications.
Each is a definition changed the way a plausible slip in the code would change
it; putting it in place of the right one must break the property it is paired
with in `PROJECT.json`, which shows that the property says something of the code.

### EventQueue

`deque` holds the contents of the two heap deques; `recvDataQueue` and
`dispathQueue` are the pointers, `m_flag` the lock. The three handlers differ
only in the packet they build, so one `Post...` sequence stands for them: lock,
evaluate the pointer, `push_back` on what it named, unlock. `update` locks,
writes the two pointers one at a time (`SwapFirst`, `SwapSecond`), unlocks,
walks by position and clears. Because the pointer is evaluated in one step and
used in the next, mutual exclusion is not built into the model; dropping the
flag test (`AcquireUnchecked`) breaks it. A failed `test_and_set` changes
nothing, so the spinning of `Lock` is the guard of `Acquire`.

### LockFreeQueue

Every load of an index, every CAS and every array access is an action, with the
local variables of `push` and `pop` as functions of the thread. A failed commit
CAS changes nothing and is the guard of `Commit`. Memory is taken to be
sequentially consistent: the indices are `volatile`, the CAS is a full barrier
and the target is x86-64. The indices are unbounded numbers where the code has
64 bits; `RolloverKeepsSlot` proves that a rollover keeps the slots in line
when the size divides the modulus, which is what the comment
`LockFreeQueue.h:57-74` asks of the size. `got` is a history variable: what the
last successful `pop` of a thread returned.

### SessionLifecycle

`memory` says whether a `Session` object exists, `sessionlist` is the map,
`handlerSet` the sessions whose `handler` is set. `handle` and `shutdownReq` are
libuv's: `uv_tcp_init` (`init`), `uv_accept` (`open`), `uv_read_start`
(`reading`), `uv_close` (`closing`), the close callback (`closed`). The loop
thread is `loopPc` and the session it works on, `current`; every point at which
the main thread can interleave with effect is a value of `loopPc`. The main
thread is `mainPc`, with the erase and the delete of `removeSession` apart.
libuv is external: it makes no read callback after `uv_close`, and calls the
shutdown callback before the close callback. Uses of an object after its delete
are looked at (`CallbacksFindSession`) but what they would do to memory is not
followed further. `StartReceive` includes an `uv_read_start` that fails; a build
with assertions stops there.

### PacketPath, PacketFraming, DataBufferPool

The bytes of the stream come in units of the size of a `PacketHeader`; the first
unit of a packet is its header, and each unit carries the number of its packet
(`serial`), which is not in the bytes: the properties refer to it to say which
packet a buffer holds. A read delivers any number of units that fit behind
`recvDataLen`, so packets are cut anywhere between units. A cut inside a header
is, to the code, the same as a cut before it (`recvDataLen < sizeof(PacketHeader)`).

Four statements the path needs are missing from the code; the constant `Supplied`
names those that are there.

| in `Supplied` | what is missing | the smallest completion |
|---|---|---|
| `"recvDataLen"` | nobody adds the size of a read to it (`Session.cpp:29`) | the read adds it |
| `"buffReadPos"` | it is moved behind a whole packet (263, 296) and not put back, while libuv writes at `recvBuf + recvDataLen` (14) | before the next bytes come, what is waiting is moved to the front of `recvBuf` |
| `"connected"` | nobody sets it; `NetManager.cpp:128` tests it | connected until `uv_close` |
| `"doSend"` | nobody calls it for what is queued (`NetManager.cpp:144`, a TODO; the call is a comment in `On_Async_Event`) | called when something is queued and no write is under way |

With `{}` the model is the code as it is, and the run `packet_path_built` shows that
no packet gets anywhere. Each completion is a switch of its own, so that one can be
given without the others (a remark below says what framing does when bytes are
counted and not moved). With all four everything behind them,
which is the code's own, is checked. What the passing runs show is conditional on
the four; what the theorems assume of them is said with the theorems.

`IsLayout` and `StreamOf` lay the packets one behind the other; the layout is
chosen in `Init` and not computed by a recursion, which makes it usable in a
proof.

`Exchange` says what of all this the client of a session can tell: the sequence
of packets `update()` has got to (`taken`; those that do not name an event are
`Handled`), the sequence of requests answered, and whether the session is there.
`PacketPath` has these as its history variables and is checked and proved to
implement it (`ImplementsExchange`).

Events on the main thread are those of `EventChannel`; the send queue is a
bounded sequence, the abstraction `LockFreeQueue` is proved to implement.
`sendBuf` is its length, and `copied` how many units of each answer were counted
into it: which addresses `memcpy` reads (`Session.cpp:171`, `188` and `197` use the
object, not its `buffer`) is left out. `buffersize`, which no code sets, is chosen
from `BufferSizes` when a buffer is made: any numbers below `UINT_SIZE`, which stands
for 2^32. The sum at line 184 is taken modulo `UINT_SIZE`. Where `memcpy` would be
given more than `sendBuf` holds the loop thread goes to `"overrun"` and is not
followed further; likewise to `"astray"` where it would look behind the end of
`recvBuf`, which can only happen with `recvDataLen` supplied and `buffReadPos` not.

`update()` branches on the `msgID` that `onRecvData` has taken from the packet's header
(`ServerCore.cpp:126`, 95, 99), and `checkPacketHeader` does not look at it. So a packet
with 1 or 2 there, the numbers of a session's arrival and close (`Predef.h:31-32`), is
taken for an event and its buffer for a session (`TakenForNew`, `TakenForClose`): it is
not handled, and its buffer, not released, counts as `dropped`. `onNewSession` and
`onCloseSession` of the handler do nothing with the pointer; `removeSession` reads a
session id behind the buffer, which can be any, and if it is the session's own takes
the session out of the map. The `delete` that follows is of the buffer's address and
what it does to memory is not modelled. The session stays open, nobody finds it any
more for an answer, and its own close finds nothing to remove (`SessionNotFound`). With
the code as it is no packet gets that far; `SessionLifecycle` has no packets.

At any moment between two callbacks the stream may end (`ReadEnds`): the loop
thread closes the handle, forgets what it had read, and posts the close behind
the packets (`PostClose`). The main thread, when it gets there, deletes the
session (`RemoveSession`) with whatever is in its send queue and `prevSendBuf`;
those buffers count as `dropped` too, like the one a full queue refuses, for nothing
gives them back (`~Session` is empty). A write that is under way may still be
reported, and `doSend` then gathers into a closed session; libuv refuses the
write. What the loop thread does with a deleted session is not followed: that it
can get there is what `session_callbacks` shows.

`answerSize` is the `packetsize` in the header of each answer. `GetCachedSize` and
`ByteSizeLong` are those of `AckLogin` (`pb/packet.pb.h:244`, `pb/packet.pb.cc:768`):
the first is 0 in a message that was just built (`SharedCtor`), as the only
thing that sets it is the second, which `sendProtoBuf` does not call. One unit
stands for the two bytes of a login result; the acknowledgement of an account
creation has the result 0 and takes no bytes.

### DigestBytes, Sha256, Md5, Digests

An object is a record of its fields. The hash (`m_h`, `state`) is a function of
the bytes the compression function has been given, and is modelled by these
bytes, `absorbed`; the round functions are left out. Block and padding lengths
are the real ones (64, 56, 8 bytes); buffers are functions from offsets from 0,
and `memcpy` and `memset` work on offsets as in the code. A word has four
"bytes" of `BYTE` values; `BYTE` is a constant so that a message can make the
counters run over in TLC, where it is 8 and a word has 12 bits. `Sha256Padded`
and `Md5Padded` are the references, the padded messages of FIPS 180-4 and RFC 1321.

The code's SHA-256 counts the length in one 32-bit word and leaves the high word
of the length field 0, so it is right for messages of less than 2^29 bytes; the
property says so (`8 * fed < WORD`). The only clients in the code give a message
in one piece (`sha256`, `md5`); `Digests` gives it in pieces, as the class
allows, and has `finalize` called again, as `md5.h:43-47` allows.

MD5's lengths and its loop index are 32-bit (`size_type`): of a longer piece `update`
takes the rest by a word (`Size`), and for a length within a block of 2^32 the sum in
the test of the loop (274) runs over, so that the loop does not end; `Md5Returns` says
when it does, and `Digests` has no step for an `update` that does not return.

### Service

`mainPc` walks through `startLog`, the log lines, `ServerCore::start`,
`NetManager::start` and the phases of `update`; `loopPc` is the loop thread, which
`listen` may or may not create. Every failure main ignores is a branch. A
session is a count: `SessionLifecycle` has the rest of its life; `owed` counts the
`On_Shutdown` and `On_Close` callbacks still to come of closed ones, which log too. `UsedBy` names
the singletons the next statements of a thread use; testing `_instance` and
assigning it are two steps. A log call is lock, `fputs`, load, store, unlock.
`logFile` starts as whatever the memory held, a null or a wild pointer; `Flush`
may be called with it when `startLog` fails and the uninitialised `logCount` is
positive, and such an `fflush` may end the program: for that reason
`MCService.cfg` switches the deadlock check off.

## The runs

All runs but `service` check for deadlock.

| run | instance | shows |
|---|---|---|
| `event_queue` | 2 producers, 2 packets, 4 posts; 27 672 states | type invariant; `NoPushWhileIterating`, `SwapsInEmptyDeque`; `ImplementsChannel`; with fairness `PostReturns`, `AlwaysDrains` |
| `lock_free_queue` | 2 producers, 2 consumers, 2 values, array of 3, pushes begin below index 4; 1.2 million states with symmetry | type invariant; `IndexOrder`, `SlotExclusive`; `ImplementsFifo` |
| `lock_free_queue_single` | 1 producer, 1 consumer, array of 3, 6 pushes | `RefusedOnlyWhenFull`, `EmptyOnlyWhenEmpty`: exact answers as the program uses the queue |
| `lock_free_queue_live` | 2 producers, 2 consumers, array of 3 (room for 2), 3 pushes, with fairness; 133 186 states | `PushReturns`, `PopReturns` |
| `session_lifecycle` | 3 connections; 105 058 states | type invariant; `QueuedSessionsLive`, `EventOrder`, `LoopFindsSession`, `RegistryMatchesMemory`, `OnlyClosedAreDeleted`; with fairness `AcceptedIsReclaimed` |
| `session_callbacks` | 1 connection | violates `CallbacksFindSession` (finding 1) |
| `session_leak` | 1 connection, with fairness | violates `ClosedIsRemoved` (finding 2) |
| `packet_path` | 2 packets of 4 kinds, 3 units in `recvBuf` and `sendBuf`, `buffersize` 2, 6 or 7 of a `UINT32` below 8, send queue of 1; 306 615 states | type invariant; `OneOwner`, `FramingExact`, `PacketFindsSession`, `AnsweredInOrder`, `SendBufFits`; `ImplementsExchange`, `AnswersWhole`; with fairness `PacketsAreHandled`, `RequestsAreAnswered`, `BuffersComeBack` |
| `packet_path_built` | 1 packet and the code as it is | violates `PacketsAreHandled` (finding 3) |
| `packet_path_answer` | 1 packet, with the receive path and `connected` supplied | violates `AnswerHoldsMessage` (finding 4) |
| `service` | 3 sessions, counts up to 2; 230 401 states | type invariant; `OneInstance`, `LogCallsFindFile`, `ForgottenOnlyInFlush`; with fairness `LinesReachDisk` |
| `digests` | 530 bytes in pieces of 0, 1, 9, 55, 64, 65 or 200, a word of 12 bits; 2 095 states | type invariant; `Sha256Exact`, `Md5Exact` |

**Bounds.** `MaxPosts` bounds the posts of a behaviour: four let both deques
fill, be swapped several times and be filled again while the other is walked.
`MaxPushes` stops new pushes at an index: four in an array of three wraps the
array with both producers still able to reserve; six in the single-threaded run
wraps it twice. In the live run there is room for two, so both producers can hold a
slot and one waits for the other's commit; three pushes wrap the array. `MaxSessions`
is the number of connections: three allow one
session being accepted, one being closed and one being deleted at once, and
batches with events of several sessions. `MaxPackets` is the length of the
stream: with two a read can end in one packet or hold both, two requests fill the
send queue of one, and the second answer meets a `sendBuf` the first has half or
wholly filled; `MCPacket` has a request that fills `recvBuf`, shorter packets with the
`msgID`s of the two events of a session, and an invalid header. In the instance `PACKET_MAX_SIZE` equals
`RECV_BUF_SIZE` so that the branch for a packet as long as `recvBuf` is taken (with
the code's 2048 and 8192 it never is); `BufferSizes` is 2, 6 or
7 where `sendBuf` has 3 units and a `UINT32` is below 8: of two answers of 2 the second
is split; of 6 one half is sent and the rest fills `sendBuf`, with no room for the
next; the rest of 7 overruns it; and 2 and 6 or 7 together run over to a sum that
passes for one that fits. The send queue of one makes `push` fail. `MaxBuffers` is what the packets and their answers
can need at most. In `Service` the counts of lines stop at `MaxLines` (`OneMore`):
the code only asks whether they are zero, and a behaviour can log for ever. In
`Digests` the lengths of the pieces leave the partial block at every length from
0 to 63 and reach both sides of each boundary: a block, a block and a byte,
several blocks at once, padding in one block or two; 530 bytes are 4240 bits, more
than a word has, and each byte is told apart by its place. The theorems hold for every value of the bounds.

**Symmetry** is used in `lock_free_queue`, of threads and of values, where only
safety properties are checked and none of them tells a thread or value apart.

**Fairness.** `EventQueue`: every thread that can step is run (weak fairness).
A producer that spins on the lock gets it when it is free again and again
(strong fairness of `PostLock`): `runLoop` sleeps a millisecond between two
calls of `update` with the lock free (`GameService.cpp:46-47`), while a waiting
producer retries at least that often (`SpinLock.h:22-28`). Weak fairness alone
would not do, the flag is taken and cleared for ever. `LockFreeQueue`: a thread
inside `push` or `pop` goes on; nobody is obliged to begin one. The number of
pushes is finite, so a retry loop has a last competitor; with endless
competition the queue is lock-free and not wait-free. `SessionLifecycle`: both
threads run, and libuv delivers the callbacks it owes for each session; nobody
is obliged to connect or to hang up. `PacketPath`: both threads run; a completed
write is reported although there may always be more to read, and (if supplied)
the call of `doSend` for a non-empty queue is made in the end; the client need
neither send nor hang up. `Service`: both threads run and a thread that waits for the log's mutex
gets it when it is free again and again, since the main thread sleeps in every
turn and the loop thread blocks in `uv_run`; libuv need not call back.

## The proofs

All theorems are for every value of the constants, from the named assumptions
`EventAssumption`, `PostsAssumption`, `SizeAssumption`, `ValueAssumption`,
`SessionsAssumption`, `NoEventAssumption`, `BoundsAssumption` and `NoneAssumption`
(the "no value" constants are not values; the bounds are naturals; the array has
a slot), and for `PacketPath` `SizesAssumption` and `PacketAssumption` (the buffers
have a size, `PACKET_MAX_SIZE` is at most `RECV_BUF_SIZE`, what `buffersize` holds is
a `UINT32`, which can count more than two of the buffers, and a packet is at least a
header long and no longer than `recvBuf`), and for
`Digests` `ByteAssumption` and `ClientAssumption` (a byte has a multiple of 8
values, at least the 0x80 and the values 0 to `BYTE` - 1 are bytes of messages,
the message is a sequence of bytes and the lengths of its pieces are naturals).

* **EventQueueProofs.** The invariant adds to the types *LockInv* (the flag is
  set exactly when one thread is in its section), *PointerInv* (the pointers
  differ outside the swap, `saved` remembers the first pointer during it, a
  producer's target is the current receiving deque while it holds the lock) and
  *ItemInv*. `NeverPushedWhileIterated` needs the lock to tell that a producer
  with a target is not overtaken by a swap, and the pointers to tell that its
  target is the other deque. `EventQueueRefines` shows each step to be a step
  of `EventChannel` or a stutter: the push is the post, the second pointer
  write is the taking of a batch.
* **LockFreeQueueProofs.** The invariant orders the three indices, says that
  what each reserved producer holds lies between the committed and the reserved
  index, differs from the others' and, once stored, is in its slot; and that a
  consumer whose read index is still current holds what it copied. The distance
  argument (two indices less than `Q_SIZE` apart are in different slots) is a
  lemma of its own. `SingleProducerExact` and `SingleConsumerExact` add that
  the one producer's (consumer's) loaded index cannot be overtaken.
* **SessionLifecycleProofs.** The queue the main thread still has to handle is
  taken as one sequence (the event in hand, the rest of the batch, what is
  pending); lemmas say that a post appends to it, a swap leaves it alone and a
  dispatch takes its head. The invariant adds *HandleInv* (the handle's state
  at each point of the loop thread), *PostedInv* (a close event is in the queue
  only of a closed handle, and not yet while it is still to be posted; an
  arrival only after it was posted) and *DeleteInv*. The step that erases a
  session needs `EventOrder`: the event in hand is its close, so no later event
  names it.

* **ServiceProofs.** None of the four properties is inductive. *LoopInv* says
  that there are no sessions, events or callbacks before the loop thread, and no
  loop thread before `listen`; with it *FileInv* ties every way into a log
  function to a successful `startLog`, so that a call which gets past the test of
  `logFile` has the opened file (one that finds it null returns at once and is not
  a state of the model). *InstanceInv* separates the threads: the
  loop thread can only find the session manager missing, and then there is no
  session yet; the main thread can only find the others missing, and then there
  is no loop thread. *MutexInv* and *CountInv* give `ForgottenOnlyInFlush`: a line
  that is not counted is still being counted by the thread in the mutex, or was
  there when `Flush` reset the count.

* **PacketPathProofs.** The invariant is built in layers, each proved with the
  ones before it. *Typed* adds to the types where a thread holds a buffer and that
  what is held was made; for the receive side it bounds positions and lengths by
  `recvBuf`, which is what makes every `SubSeq` of the framing loop one of the
  stream; for the send side, that `sendDataLen` is within the length of `sendBuf`:
  a copy that would exceed it is the end of the loop thread (`"overrun"`). *CloseInv*:
  the close is behind all packets in the channel, and after it the loop thread posts
  nothing; `PacketsFindTheirSession` follows. *OwnerInv*:
  nine places (the pool, the two threads' hands, the channel, the send queue,
  `prevSendBuf`, dropped), each without repetition, no two with a common buffer;
  three lemmas (`Move`, `Enter`, `Leave`) cover what a step can do to them.
  *FlowInv* counts the packets taken from the stream: those in the channel are
  numbered on from those taken by `update()`, and while the session is open what is in
  `postRecvBuf` and unread in `recvBuf` is the stretch of the stream from the end
  of the last packet taken to `arrived`. That the layout of the stream has one
  packet at each position is the one induction, made over the set of packets for
  which it holds (`SetInduction`), as the provers take no operator parameters.
  *AnswerInv* orders the packets from those answered through `prevSendBuf` and the
  send queue to the answer being made, and says that of these only the first has
  been counted in part; `AnswersInOrder` and `AnswersAreWhole` follow. A step of
  `doSend` that copies either fits (`ResumeFits`, `GatherFits`) or goes to
  `"overrun"`; *OverrunInv* says that there is then a buffer longer than `sendBuf`: a
  sum that ran over `UINT_SIZE` has a summand that long, because a `UINT32` counts
  more than two `sendBuf`s. `SendBufferFits` follows. For `ExchangeImplemented` three
  small invariants are added: what is on its way to `update()` had a valid header
  (*ValidInv*), what is on its way back answers a request (*AskedInv*), and a deleted
  session has no answers (*GoneInv*). A dispatch is then Exchange's `Take`, whether
  the packet is handled or taken for an event, by the numbering of *FlowInv* and
  because the session is there; the step of `doSend` that counts the last unit of a
  buffer is its `Answer`; all else but the delete is a stutter. Two facts are then
  proved of Exchange and hold for the path because it implements Exchange: what is
  answered are requests among the packets handled, and the packets taken are the
  first ones of the stream, all valid (`OnlyHandledAnswered`); and nothing of a deleted
  session is taken or answered (`RemovedStaysSilent`).

  What of this needs the framing to be right - `FramingIsExact`, `AnswersInOrder`,
  `SendBufferFits`, `AnswersAreWhole`, `ExchangeImplemented`, `OnlyHandledAnswered`,
  `RemovedStaysSilent` - assumes *ReadsGoOn*: if reads are counted (`recvDataLen`), what
  is waiting is also moved (`buffReadPos`). It holds of the code as it is, which does
  neither, and with both supplied; with the first alone framing fails (see the
  remarks under Findings). `TypeCorrect`, `PacketsFindTheirSession` and
  `BuffersHaveOneOwner` assume nothing of `Supplied`.

* **AsBuiltProofs.** What the missing statements come to, each alone and whatever the
  others. Without the count in `recvDataLen` no packet is handled, no
  buffer taken and nothing answered (`BuiltHandlesNothing`: the invariant
  *NothingReceived* finds the loop thread only where nothing waits, and only closes
  in the channel); this is finding 3 for every stream. Without `connected` no answer
  is made (`UnconnectedAnswersNothing`); without the call of `doSend` none leaves
  (`UnaskedSendsNothing`), and the send queue only grows until the session goes, so
  its first answers keep all later ones out (`UnaskedKeepsQueue`). Finding 4 has no
  theorem: it is about the one acknowledgement that is not empty.

* **DigestsProofs.** The model is made of the arithmetic of `update` and `final`,
  so most of the proof is lemmas about the operators, below the invariant. *Holds*
  says that what an object has absorbed, whole blocks, and the first bytes of its
  block are together the message so far. `Keeping` and `Absorbing` show that the
  two branches of an update, with their `memcpy`s, keep it; both classes use them,
  SHA256 with a block of 128 bytes of which it fills 64. MD5 has no length of the
  partial block: `IndexFromBits` shows that the low word of its bit count tells
  it, because a word counts whole blocks, also after it has run over, and `Carry`
  that the hand-made carry is right, so *Md5Counted* (the two words are the number
  of bits modulo the square of a word) is kept. MD5's finalize is two more updates,
  and the padded message a whole number of blocks, of which nothing waits
  (`HeldWhole`). SHA256's final writes the mark, the zeros and the length into the
  block; `EndBlockFacts` says what is where and `StandardPadding` what FIPS 180-4
  asks for, and both are the one sequence `IsPadded` describes (`OnePadding`). The
  invariant *Inv* says *Holds* and the counts of both objects until the client asks
  for the digests, and from then on that they are those of the padded message; TLC
  agrees on the instance of `digests`. `Md5IsExact` has no bound on the message; it
  assumes that each piece is of less than 2^32 bytes, so that `update` takes all of it
  (`Md5Truncates` says that what is cut off a longer one makes no difference to it), and
  speaks of updates that return.
  `Sha256IsExact` has the one of the property, 2^32 bits, since the code's high
  word of the length is 0.

Left to TLC: the liveness properties (`PostReturns`, `AlwaysDrains`,
`PushReturns`, `PopReturns`, `AcceptedIsReclaimed`, `PacketsAreHandled`,
`RequestsAreAnswered`, `BuffersComeBack`, `LinesReachDisk`), which rest on fairness
and `ENABLED`; and that the four violations are such: a violation is a behaviour,
and a theorem speaks of all of them (`BuiltHandlesNothing` says of
one, `packet_path_built`, what holds instead).

## Findings

1. The main thread can delete a session before libuv has made the shutdown and
   close callbacks `Session::close` asked for; both use the session
   (`Session.cpp:56-80`, where the check of the connection is disabled). The
   last statement of `close`, `connected = FALSE`, can come after the delete as
   well, and so can the completion of a write.
2. A session whose `uv_accept` fails is closed before it has a handler, so no
   close event is posted and it stays in the map for good (`NetManager.cpp:59`,
   `Session.cpp:128`).
3. No packet is handed to the packet handler: `handleRecvPacket` never uses the
   number of bytes it is given, `recvDataLen` stays 0, and the first test of the
   framing loop (`Session.cpp:274`) ends every call, against the comments
   `Session.cpp:291` and `298` on the branch that hands packets over.
4. An answer does not contain its message: `sendProtoBuf` takes the cached size
   of a message whose size nobody has computed, which is 0
   (`ServerCore.cpp:66`), so the header alone is sent, against the comment
   `NetManager.cpp:139`; a successful login is read as a failed one. (The
   acknowledgement of an account creation is empty in any case.)

Remarks without a run of their own:

* `buffReadPos` is moved behind every whole packet (`Session.cpp:263`, 296) and not
  put back, while libuv writes the next bytes at `recvBuf + recvDataLen` (14). Counting
  the bytes, which finding 3 calls for, is therefore not enough: the read after a
  whole packet then lies too far in front, by as much as `buffReadPos` was moved. With
  `"buffReadPos"` left out of `Supplied`, a `recvBuf` of four units and a `UINT_SIZE` of 16
  TLC finds `FramingExact` violated: after a packet and the first two units of the
  next, its third is written over the second, and the packet is handed over with
  what was behind it in `recvBuf`.
* No line sets `DataBuff::buffersize`, from which `doSend` takes the length of an
  answer (`Session.cpp:170`, 182). For a buffer longer than `sendBuf` the rest that
  "is sent the next time" (comment `Session.cpp:186`) is copied without a test (171),
  and a length close to 2^32 passes the test at 184, whose sum runs over; `PacketPath`
  has these steps (`"overrun"`), and `packet_path` reaches both. That nothing else makes
  `doSend` write behind `sendBuf` is `SendBufFits`.
* A packet whose `msgID` is 1 or 2 is taken for a session's event (`ServerCore.cpp:95`,
  99, 126). Nothing in the code says what should become of it; `PacketPath` has the
  case, and what else holds is checked with it.
* An invalid header makes `handleRecvPacket` return FALSE (`Session.cpp:281`); the
  comment at 336 says the session is then to be closed, but the caller ignores the
  result and the session stays open, looking at the same header again on every read
  (in `PacketPath`: `RejectHeader`).
* The comments `LockFreeQueue.h:98` and `104` promise that `push` fails only on a full
  and `pop` only on an empty queue. With two producers, or two consumers, that does
  not hold: the two indices of the test are loaded at different moments. The program
  has one of each per queue, and then it holds (`SingleProducerExact`,
  `SingleConsumerExact`).

## The plan

1. `EventChannel`, `EventQueue` and their proofs - done.
2. `SessionLifecycle` over `EventChannel` and its proofs - done.
3. `FifoQueue`, `LockFreeQueue` and their proofs - done.
4. `DataBufferPool`, `PacketFraming`, `PacketPath` - done, with the close of a
   session while packets and answers are under way.
5. `Service` and its proofs - done.
6. The digests of `Common` and their proofs - done.
7. `PacketPathProofs` and `AsBuiltProofs` - done.
8. `Exchange`, and `PacketPath` shown to implement it - done.
9. Left: the bytes of a `DataBuff`, and with them what
   `memcpy` reads; several sessions that share the pool.

## Not modelled

Packets whose `packetsize` is smaller than a header (with 0 the framing loop does
not end); what `memcpy` reads from a `DataBuff`; the round functions of the
digests; `Util` (system calls); `DataBufferPool::init` and the pool's non-STL
variant (not called, not compiled); `PostSendOperation`, `sendBufBySessionID`,
`TryLockTimes`, `size()`, `connectTo` and the other functions without a caller or
that return a constant; `NetManager::close` (never reached: `runLoop` does not
return); the formatting of log lines; and the generated protocol code but for
the two sizes above.

Nearly all lines of the repository, more than 250 000, are copies of protobuf and
libuv under `src/Dep`. They are dependencies with a life of their own, not this
program; the development models what the server relies on of them and stops
there. Of the server's own files every one that keeps state is modelled.
