-------------------------- MODULE SessionLifecycle --------------------------
(***************************************************************************)
(* The life of the Session objects, from OnNewConnection to the delete in  *)
(* SessionManager::removeSession, across the two threads that share them:  *)
(* the libuv loop thread, which creates a session, reads from it and       *)
(* closes it, and the main thread, which learns of it through ServerCore's *)
(* event queue (EventChannel here) and deletes it when the close event     *)
(* comes out.                                                              *)
(*                                                                         *)
(* libuv is external: handle and shutdownReq follow its contract (no read  *)
(* callback after uv_close; the shutdown callback, when a shutdown was     *)
(* accepted, before the close callback; both later on the loop thread).    *)
(* Received bytes are left out: handling them posts nothing as the code is *)
(* built and does not change the life of a session.                        *)
(***************************************************************************)
EXTENDS Naturals, Sequences, FiniteSets

CONSTANTS
  MaxSessions,   \* bound on the connections of a behaviour
  NoEvent        \* the main thread handles no event

ASSUME SessionsAssumption == MaxSessions \in Nat

Session == 0..MaxSessions - 1     \* a session is named by its serial number

\* The session events of ServerCore; msgID tells them apart.
SessionEvent == [msgID : {"new", "close"}, session : Session]

ASSUME NoEventAssumption == NoEvent \notin SessionEvent

VARIABLES
  sessionSerial,  \* SessionManager: the next serial number
  memory,         \* the Session objects: unborn, live or deleted
  sessionlist,    \* SessionManager: the sessions in the map
  handlerSet,     \* sessions whose handler pointer is set
  handle,         \* libuv: state of each session's socket handle
  shutdownReq,    \* libuv: state of each session's shutdown request
  loopPc,         \* where the loop thread is; "poll" is inside uv_run
  current,        \* the session the loop thread works on
  pending, batch, item,  \* the event channel
  mainPc          \* where the main thread is in update()

managerVars == <<memory, sessionlist>>
uvVars == <<handle, shutdownReq>>
loopVars == <<sessionSerial, handlerSet, loopPc, current>>
eventVars == <<pending, batch, item>>
vars == <<sessionSerial, memory, sessionlist, handlerSet, handle, shutdownReq,
          loopPc, current, pending, batch, item, mainPc>>

Events == INSTANCE EventChannel WITH Event <- SessionEvent

NewEvent(s) == [msgID |-> "new", session |-> s]
CloseEvent(s) == [msgID |-> "close", session |-> s]

TypeOK ==
  /\ sessionSerial \in 0..MaxSessions
  /\ memory \in [Session -> {"unborn", "live", "deleted"}]
  /\ sessionlist \in SUBSET Session
  /\ handlerSet \in SUBSET Session
  /\ handle \in [Session -> {"none", "init", "open", "reading", "closing", "closed"}]
  /\ shutdownReq \in [Session -> {"none", "pending", "done"}]
  /\ loopPc \in {"poll", "accept", "post new", "start receive",
                 "close", "post close", "disconnect"}
  /\ current \in Nat
  /\ loopPc # "poll" => current \in Session
  /\ Events!ChannelTypeOK
  /\ mainPc \in {"update", "dispatch", "delete"}

Init ==
  /\ sessionSerial = 0
  /\ memory = [s \in Session |-> "unborn"]
  /\ sessionlist = {}
  /\ handlerSet = {}
  /\ handle = [s \in Session |-> "none"]
  /\ shutdownReq = [s \in Session |-> "none"]
  /\ loopPc = "poll"
  /\ current = 0
  /\ Events!Init
  /\ mainPc = "update"

-----------------------------------------------------------------------------
(* The loop thread: OnNewConnection and handleAccept. *)

\* A new Session object, the next serial number, an entry in the map.
createSession ==
  /\ memory' = [memory EXCEPT ![sessionSerial] = "live"]
  /\ sessionlist' = sessionlist \cup {sessionSerial}
  /\ sessionSerial' = sessionSerial + 1

\* libuv reports a connection: createSession and uv_tcp_init.
OnNewConnection ==
  /\ loopPc = "poll"
  /\ sessionSerial < MaxSessions
  /\ createSession
  /\ handle' = [handle EXCEPT ![sessionSerial] = "init"]
  /\ current' = sessionSerial
  /\ loopPc' = "accept"
  /\ UNCHANGED <<handlerSet, shutdownReq, eventVars, mainPc>>

\* uv_accept returns 0: handleAccept goes on with the session.
AcceptSucceeds ==
  /\ loopPc = "accept"
  /\ handle' = [handle EXCEPT ![current] = "open"]
  /\ loopPc' = "post new"
  /\ UNCHANGED <<sessionSerial, managerVars, handlerSet, shutdownReq, current, eventVars, mainPc>>

\* uv_accept fails: the session is closed before it got a handler.
AcceptFails ==
  /\ loopPc = "accept"
  /\ loopPc' = "close"
  /\ UNCHANGED <<sessionSerial, managerVars, handlerSet, uvVars, current, eventVars, mainPc>>

\* ServerCore::onNewSession.
PostNew ==
  /\ loopPc = "post new"
  /\ Events!Post(NewEvent(current))
  /\ loopPc' = "start receive"
  /\ UNCHANGED <<sessionSerial, managerVars, handlerSet, uvVars, current, mainPc>>

\* setHandler, and doReceive, whose uv_read_start may fail unnoticed.
StartReceive ==
  /\ loopPc = "start receive"
  /\ handlerSet' = handlerSet \cup {current}
  /\ \E started \in BOOLEAN :
       handle' = [handle EXCEPT ![current] = IF started THEN "reading" ELSE @]
  /\ loopPc' = "poll"
  /\ UNCHANGED <<sessionSerial, managerVars, shutdownReq, current, eventVars, mainPc>>

-----------------------------------------------------------------------------
(* The loop thread: the end of the stream and Session::close. *)

\* Faulty: the close event is posted without the handle being closed.
ReadEndsUnclosed(s) ==
  /\ loopPc = "poll"
  /\ handle[s] = "reading"
  /\ current' = s
  /\ loopPc' = "post close"
  /\ UNCHANGED <<sessionSerial, managerVars, handlerSet, uvVars, eventVars, mainPc>>

\* On_ResultReadData with a negative size.
ReadEnds(s) ==
  /\ loopPc = "poll"
  /\ handle[s] = "reading"
  /\ current' = s
  /\ loopPc' = "close"
  /\ UNCHANGED <<sessionSerial, managerVars, handlerSet, uvVars, eventVars, mainPc>>

\* Faulty: the handle goes on reading, and can be closed again.
CloseHandleReading ==
  /\ loopPc = "close"
  /\ loopPc' = IF current \in handlerSet THEN "post close" ELSE "disconnect"
  /\ UNCHANGED <<sessionSerial, managerVars, handlerSet, uvVars, current, eventVars, mainPc>>

\* uv_read_stop, uv_shutdown (refused for a stream that is not connected)
\* and uv_close; then close() looks at the handler.
CloseHandle ==
  /\ loopPc = "close"
  /\ shutdownReq' = [shutdownReq EXCEPT
                       ![current] = IF handle[current] = "init" THEN @ ELSE "pending"]
  /\ handle' = [handle EXCEPT ![current] = "closing"]
  /\ loopPc' = IF current \in handlerSet THEN "post close" ELSE "disconnect"
  /\ UNCHANGED <<sessionSerial, managerVars, handlerSet, current, eventVars, mainPc>>

\* Faulty: the close event names the next session.
PostCloseOfNext ==
  /\ loopPc = "post close"
  /\ Events!Post(CloseEvent(sessionSerial))
  /\ loopPc' = "disconnect"
  /\ UNCHANGED <<sessionSerial, managerVars, handlerSet, uvVars, current, mainPc>>

\* Faulty: the wrong message id.
PostCloseAsNew ==
  /\ loopPc = "post close"
  /\ Events!Post(NewEvent(current))
  /\ loopPc' = "disconnect"
  /\ UNCHANGED <<sessionSerial, managerVars, handlerSet, uvVars, current, mainPc>>

\* Faulty: close() does not tell the handler.
PostNoClose ==
  /\ loopPc = "post close"
  /\ loopPc' = "disconnect"
  /\ UNCHANGED <<sessionSerial, managerVars, handlerSet, uvVars, current, eventVars, mainPc>>

\* ServerCore::onCloseSession.
PostClose ==
  /\ loopPc = "post close"
  /\ Events!Post(CloseEvent(current))
  /\ loopPc' = "disconnect"
  /\ UNCHANGED <<sessionSerial, managerVars, handlerSet, uvVars, current, mainPc>>

\* connected = FALSE (it never was TRUE), and back to the loop.
Disconnect ==
  /\ loopPc = "disconnect"
  /\ loopPc' = "poll"
  /\ UNCHANGED <<sessionSerial, managerVars, handlerSet, uvVars, current, eventVars, mainPc>>

On_Shutdown(s) ==
  /\ loopPc = "poll"
  /\ shutdownReq[s] = "pending"
  /\ shutdownReq' = [shutdownReq EXCEPT ![s] = "done"]
  /\ UNCHANGED <<loopVars, managerVars, handle, eventVars, mainPc>>

On_Close(s) ==
  /\ loopPc = "poll"
  /\ handle[s] = "closing"
  /\ shutdownReq[s] # "pending"
  /\ handle' = [handle EXCEPT ![s] = "closed"]
  /\ UNCHANGED <<loopVars, managerVars, shutdownReq, eventVars, mainPc>>

-----------------------------------------------------------------------------
(* The main thread: ServerCore::update. *)

SwapQueues ==
  /\ mainPc = "update"
  /\ Events!TakeBatch
  /\ UNCHANGED <<loopVars, managerVars, uvVars, mainPc>>

NextEvent ==
  /\ mainPc = "update"
  /\ Events!NextItem
  /\ mainPc' = "dispatch"
  /\ UNCHANGED <<loopVars, managerVars, uvVars>>

\* GameService::onNewSession does nothing.
DispatchNew ==
  /\ mainPc = "dispatch"
  /\ item.msgID = "new"
  /\ mainPc' = "update"
  /\ UNCHANGED <<loopVars, managerVars, uvVars, eventVars>>

\* Faulty: the session is removed when its arrival is handled.
EraseOnArrival ==
  /\ mainPc = "dispatch"
  /\ item.msgID = "new"
  /\ sessionlist' = sessionlist \ {item.session}
  /\ mainPc' = IF item.session \in sessionlist THEN "delete" ELSE "update"
  /\ UNCHANGED <<loopVars, memory, uvVars, eventVars>>

\* Faulty: the session is deleted and left in the map.
KeepEntry ==
  /\ mainPc = "dispatch"
  /\ item.msgID = "close"
  /\ mainPc' = IF item.session \in sessionlist THEN "delete" ELSE "update"
  /\ UNCHANGED <<loopVars, managerVars, uvVars, eventVars>>

\* GameService::onCloseSession does nothing; removeSession erases the session
\* from the map under its lock and goes on to the delete if it was there.
EraseSession ==
  /\ mainPc = "dispatch"
  /\ item.msgID = "close"
  /\ sessionlist' = sessionlist \ {item.session}
  /\ mainPc' = IF item.session \in sessionlist THEN "delete" ELSE "update"
  /\ UNCHANGED <<loopVars, memory, uvVars, eventVars>>

\* removeSession outside its lock: delete session.
DeleteSession ==
  /\ mainPc = "delete"
  /\ memory' = [memory EXCEPT ![item.session] = "deleted"]
  /\ mainPc' = "update"
  /\ UNCHANGED <<loopVars, sessionlist, uvVars, eventVars>>

ClearBatch ==
  /\ mainPc = "update"
  /\ Events!EndBatch
  /\ UNCHANGED <<loopVars, managerVars, uvVars, mainPc>>

-----------------------------------------------------------------------------
\* The loop thread inside a callback, and the callbacks libuv owes.
LoopStep ==
  \/ AcceptSucceeds
  \/ AcceptFails
  \/ PostNew
  \/ StartReceive
  \/ CloseHandle
  \/ PostClose
  \/ Disconnect

Callback(s) == On_Shutdown(s) \/ On_Close(s)

Main ==
  \/ SwapQueues
  \/ NextEvent
  \/ DispatchNew
  \/ EraseSession
  \/ DeleteSession
  \/ ClearBatch

Next ==
  \/ OnNewConnection
  \/ \E s \in Session : ReadEnds(s) \/ Callback(s)
  \/ LoopStep
  \/ Main

Spec == Init /\ [][Next]_vars

(***************************************************************************)
(* Both threads run (weak fairness), and libuv delivers the callbacks it   *)
(* owes even if connections keep coming and ending (they are finite here). *)
(* Nobody is obliged to connect or to hang up.                             *)
(***************************************************************************)
Fairness ==
  /\ WF_vars(LoopStep)
  /\ WF_vars(Main)
  /\ \A s \in Session : WF_vars(Callback(s))

FairSpec == Spec /\ Fairness

-----------------------------------------------------------------------------
(* Properties. *)

\* The events the main thread has still to handle, in order; removeSession's
\* erase is the moment an event is done with.
queue == (IF mainPc = "dispatch" THEN <<item>> ELSE <<>>) \o batch \o pending

\* The pointers in the queue are good: the session of every event not yet
\* handled is in the map and in memory.  So removeSession never misses, never
\* deletes a session twice and update() never follows a dangling pointer.
QueuedSessionsLive ==
  \A i \in DOMAIN queue : /\ queue[i].session \in sessionlist
                          /\ memory[queue[i].session] = "live"

\* A session's events are at most its arrival and, later, its close: two
\* threads and two deques never turn them round or repeat one.
EventOrder ==
  \A i, j \in DOMAIN queue :
    i < j /\ queue[i].session = queue[j].session =>
      queue[i].msgID = "new" /\ queue[j].msgID = "close"

\* Until the close event is posted the loop thread works on a session that is
\* there: in the callbacks of an open handle (the assertion of
\* On_ResultReadData), in handleAccept, and in close up to the post.
LoopFindsSession ==
  /\ \A s \in Session : handle[s] \in {"init", "open", "reading"} => memory[s] = "live"
  /\ loopPc \notin {"poll", "disconnect"} => memory[current] = "live"

\* The map holds the sessions in memory, but for the one that removeSession
\* has erased and not yet deleted: no leak and no entry for a deleted session.
RegistryMatchesMemory ==
  sessionlist = {s \in Session : memory[s] = "live"}
                  \ (IF mainPc = "delete" THEN {item.session} ELSE {})

\* A session is deleted only after its handle was given to uv_close, so libuv
\* starts no read into a deleted recvBuf.
OnlyClosedAreDeleted ==
  \A s \in Session : memory[s] = "deleted" => handle[s] \in {"closing", "closed"}

\* When libuv can call On_Shutdown or On_Close, the Session they dereference
\* is there (the check that both carry, disabled).
CallbacksFindSession ==
  \A s \in Session :
    loopPc = "poll" /\ (shutdownReq[s] = "pending" \/ handle[s] = "closing")
      => memory[s] = "live"

\* The close of an accepted session reaches the main thread, which deletes it.
AcceptedIsReclaimed ==
  \A s \in Session : handle[s] = "closing" /\ s \in handlerSet ~> memory[s] = "deleted"

\* Every session that is closed is removed from the session manager.
ClosedIsRemoved ==
  \A s \in Session : handle[s] = "closing" ~> s \notin sessionlist
=============================================================================
