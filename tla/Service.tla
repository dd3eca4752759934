------------------------------ MODULE Service -------------------------------
(***************************************************************************)
(* The service around the sessions: GameService::init with the results it  *)
(* ignores, the creation of the loop thread, runLoop, the lazily created   *)
(* singletons, and the log both threads write and the main thread flushes. *)
(*                                                                         *)
(* A session is only counted here (SessionLifecycle has its life); what a  *)
(* libuv callback does besides logging and posting a close is left out, and *)
(* so is the text of a log line.  LogInfo, LogWarnning and LogError do the *)
(* same to the log and are one sequence of steps.  DataBufferManager is    *)
(* not among the singletons: its instance() is only reached with a packet, *)
(* and the code hands none over (see PacketPath).                          *)
(***************************************************************************)
EXTENDS Integers

CONSTANTS
  MaxSessions,   \* bound on the sessions open or closing at the same time
  MaxLines,      \* the counts of lines stop here: the code only compares them with 0
  NoThread,      \* nobody holds writeMutex
  NoSingleton    \* the thread is not creating a singleton

ASSUME BoundsAssumption == MaxSessions \in Nat /\ MaxLines \in Nat \ {0}

Thread == {"main", "loop"}
Singleton == {"Log", "ServerCore", "NetManager", "SessionManager"}

ASSUME NoneAssumption == NoThread \notin Thread /\ NoSingleton \notin Singleton

VARIABLES
  mainPc,      \* where the main thread is in init and runLoop
  loopPc,      \* where the loop thread is; "none" before it is created
  created,     \* how many objects each _instance == nullptr test has led to
  creating,    \* the singleton each thread has found missing
  sessions,    \* sessions that are open
  closes,      \* close events in recvDataQueue
  batch,       \* close events in the deque update() walks
  owed,        \* On_Shutdown and On_Close callbacks libuv has still to make
  logFile,     \* Log::logFile; "wild" is an uninitialised pointer
  logCount,    \* Log::logCount
  unflushed,   \* lines that fputs took and fflush did not write
  missed,      \* history: such a line was there when Flush reset logCount
  writeMutex,  \* the thread in Log's mutex
  logPc,       \* where each thread is in a log function; "out" of it
  loaded       \* the logCount each thread has loaded to increment

logVars == <<logFile, logCount, unflushed, missed>>
callVars == <<writeMutex, logPc, loaded>>
eventVars == <<sessions, closes, batch, owed>>
vars == <<mainPc, loopPc, created, creating, eventVars, logVars, callVars>>

TypeOK ==
  /\ mainPc \in {"startLog", "log start", "start", "listen", "log result",
                 "update", "dispatch", "flush", "fflush", "reset", "crashed"}
  /\ loopPc \in {"none", "run", "create session", "log", "log end", "close"}
  /\ created \in [Singleton -> Nat]
  /\ creating \in [Thread -> Singleton \cup {NoSingleton}]
  /\ sessions \in 0..MaxSessions
  /\ closes \in Nat
  /\ batch \in Nat
  /\ owed \in Nat
  /\ logFile \in {"wild", "null", "open"}
  /\ logCount \in 0..MaxLines
  /\ unflushed \in 0..MaxLines
  /\ missed \in BOOLEAN
  /\ writeMutex \in Thread \cup {NoThread}
  /\ logPc \in [Thread -> {"out", "lock", "fputs", "load", "store", "unlock"}]
  /\ loaded \in [Thread -> 0..MaxLines]

\* The constructor of Log sets neither logFile nor logCount: what is in the
\* memory of the object shows as a null or a wild pointer, a zero or not.
Init ==
  /\ mainPc = "startLog"
  /\ loopPc = "none"
  /\ created = [s \in Singleton |-> 0]
  /\ creating = [t \in Thread |-> NoSingleton]
  /\ sessions = 0 /\ closes = 0 /\ batch = 0 /\ owed = 0
  /\ logFile \in {"wild", "null"}
  /\ logCount \in {0, 1}
  /\ unflushed = 0
  /\ missed = FALSE
  /\ writeMutex = NoThread
  /\ logPc = [t \in Thread |-> "out"]
  /\ loaded = [t \in Thread |-> 0]

-----------------------------------------------------------------------------
(* instance(): every class tests its _instance and creates it, unlocked. *)

\* Faulty: removeSession's manager is fetched before there is a close event.
UsedByMainEarly ==
  CASE mainPc \in {"startLog", "log start", "log result", "flush"} -> {"Log"}
    [] mainPc \in {"start", "update"} -> {"ServerCore"}
    [] mainPc = "listen" -> {"NetManager"}
    [] mainPc = "dispatch" -> {"SessionManager", "Log"}
    [] OTHER -> {}

\* The singletons the next statements of a thread call instance() of.
UsedByMain ==
  CASE mainPc \in {"startLog", "log start", "log result", "flush"} -> {"Log"}
    [] mainPc \in {"start", "update"} -> {"ServerCore"}
    [] mainPc = "listen" -> {"NetManager"}
    [] mainPc = "dispatch" /\ batch > 0 -> {"SessionManager", "Log"}
    [] OTHER -> {}

UsedByLoop ==
  CASE loopPc = "create session" -> {"SessionManager", "Log", "NetManager"}
    [] loopPc \in {"log", "log end"} -> {"Log"}
    [] OTHER -> {}

UsedBy(t) == IF t = "main" THEN UsedByMain ELSE UsedByLoop

\* _instance == nullptr
FindNoInstance(t) ==
  /\ creating[t] = NoSingleton
  /\ logPc[t] = "out"
  /\ \E s \in UsedBy(t) :
       created[s] = 0 /\ creating' = [creating EXCEPT ![t] = s]
  /\ UNCHANGED <<mainPc, loopPc, created, eventVars, logVars, callVars>>

\* _instance = new ...
CreateInstance(t) ==
  /\ creating[t] # NoSingleton
  /\ created' = [created EXCEPT ![creating[t]] = @ + 1]
  /\ creating' = [creating EXCEPT ![t] = NoSingleton]
  /\ UNCHANGED <<mainPc, loopPc, eventVars, logVars, callVars>>

\* The thread is not inside a log function and has the instances it needs.
Ready(t) ==
  /\ logPc[t] = "out"
  /\ creating[t] = NoSingleton
  /\ \A s \in UsedBy(t) : created[s] > 0

-----------------------------------------------------------------------------
(* LogInfo, LogWarnning and LogError. *)

\* n + 1, as far as lines are counted here.
OneMore(n) == IF n < MaxLines THEN n + 1 ELSE n

\* The call returns at once when there is no file (and never because of
\* logLevel, which stays 0: nothing calls SetLogLevel).
StartLog(t) ==
  /\ logPc' = [logPc EXCEPT ![t] = IF logFile = "null" THEN "out" ELSE "lock"]
  /\ UNCHANGED <<writeMutex, loaded>>

Lock(t) ==
  /\ logPc[t] = "lock"
  /\ writeMutex = NoThread
  /\ writeMutex' = t
  /\ logPc' = [logPc EXCEPT ![t] = "fputs"]
  /\ UNCHANGED <<mainPc, loopPc, created, creating, eventVars, logVars, loaded>>

\* Faulty: one of the three functions does not count its line.
FputsUncounted(t) ==
  /\ logPc[t] = "fputs"
  /\ unflushed' = OneMore(unflushed)
  /\ logPc' = [logPc EXCEPT ![t] = "unlock"]
  /\ UNCHANGED <<mainPc, loopPc, created, creating, eventVars, logFile, logCount,
                 missed, writeMutex, loaded>>

Fputs(t) ==
  /\ logPc[t] = "fputs"
  /\ unflushed' = OneMore(unflushed)
  /\ logPc' = [logPc EXCEPT ![t] = "load"]
  /\ UNCHANGED <<mainPc, loopPc, created, creating, eventVars, logFile, logCount,
                 missed, writeMutex, loaded>>

\* logCount++ is a load and a store, and Flush stores without the mutex.
LoadCount(t) ==
  /\ logPc[t] = "load"
  /\ loaded' = [loaded EXCEPT ![t] = logCount]
  /\ logPc' = [logPc EXCEPT ![t] = "store"]
  /\ UNCHANGED <<mainPc, loopPc, created, creating, eventVars, logVars, writeMutex>>

StoreCount(t) ==
  /\ logPc[t] = "store"
  /\ logCount' = OneMore(loaded[t])
  /\ logPc' = [logPc EXCEPT ![t] = "unlock"]
  /\ UNCHANGED <<mainPc, loopPc, created, creating, eventVars, logFile, unflushed,
                 missed, writeMutex, loaded>>

Unlock(t) ==
  /\ logPc[t] = "unlock"
  /\ writeMutex' = NoThread
  /\ logPc' = [logPc EXCEPT ![t] = "out"]
  /\ UNCHANGED <<mainPc, loopPc, created, creating, eventVars, logVars, loaded>>

LogStep(t) ==
  \/ Lock(t)
  \/ Fputs(t)
  \/ LoadCount(t)
  \/ StoreCount(t)
  \/ Unlock(t)

-----------------------------------------------------------------------------
(* The main thread: GameService::init, called by main, which ignores what  *)
(* it returns and goes on to runLoop.                                      *)

\* Faulty: init goes on whatever startLog returned.
startLogUnchecked ==
  /\ mainPc = "startLog" /\ Ready("main")
  /\ \/ /\ logFile' \in {logFile, "null"}
        /\ UNCHANGED logCount
     \/ /\ logFile' = "open"
        /\ logCount' = 0
  /\ mainPc' = "log start"
  /\ UNCHANGED <<loopPc, created, creating, eventVars, unflushed, missed, callVars>>

\* CreateDir or fopen may fail; both before logCount is set, CreateDir before
\* logFile is.  init then returns without starting the server.
startLog ==
  /\ mainPc = "startLog" /\ Ready("main")
  /\ \/ /\ mainPc' = "update"
        /\ logFile' \in {logFile, "null"}
        /\ UNCHANGED logCount
     \/ /\ mainPc' = "log start"
        /\ logFile' = "open"
        /\ logCount' = 0
  /\ UNCHANGED <<loopPc, created, creating, eventVars, unflushed, missed, callVars>>

LogServiceStart ==
  /\ mainPc = "log start" /\ Ready("main")
  /\ StartLog("main")
  /\ mainPc' = "start"
  /\ UNCHANGED <<loopPc, created, creating, eventVars, logVars>>

\* ServerCore::start, with a handler and a port other than zero.
start ==
  /\ mainPc = "start" /\ Ready("main")
  /\ mainPc' = "listen"
  /\ UNCHANGED <<loopPc, created, creating, eventVars, logVars, callVars>>

\* NetManager::start: the loop thread runs unless uv_listen fails or
\* uv_thread_create does, whose result nobody looks at.
listen ==
  /\ mainPc = "listen" /\ Ready("main")
  /\ loopPc' \in {"none", "run"}
  /\ mainPc' = "log result"
  /\ UNCHANGED <<created, creating, eventVars, logVars, callVars>>

LogStartResult ==
  /\ mainPc = "log result" /\ Ready("main")
  /\ StartLog("main")
  /\ mainPc' = "update"
  /\ UNCHANGED <<loopPc, created, creating, eventVars, logVars>>

-----------------------------------------------------------------------------
(* The main thread: runLoop calls update() for ever. *)

SwapQueues ==
  /\ mainPc = "update" /\ Ready("main")
  /\ batch' = closes
  /\ closes' = 0
  /\ mainPc' = "dispatch"
  /\ UNCHANGED <<loopPc, created, creating, sessions, owed, logVars, callVars>>

\* removeSession, which logs the session's id.
RemoveSession ==
  /\ mainPc = "dispatch" /\ Ready("main")
  /\ batch > 0
  /\ batch' = batch - 1
  /\ StartLog("main")
  /\ UNCHANGED <<mainPc, loopPc, created, creating, sessions, closes, owed, logVars>>

EndOfBatch ==
  /\ mainPc = "dispatch" /\ Ready("main")
  /\ batch = 0
  /\ mainPc' = "flush"
  /\ UNCHANGED <<loopPc, created, creating, eventVars, logVars, callVars>>

\* Faulty: the count is reset whatever it is, and the file is not flushed.
TestCountReset ==
  /\ mainPc = "flush" /\ Ready("main")
  /\ logCount' = 0
  /\ mainPc' = "update"
  /\ UNCHANGED <<loopPc, created, creating, eventVars, logFile, unflushed, missed, callVars>>

\* Flush: if (logCount > 0)
TestCount ==
  /\ mainPc = "flush" /\ Ready("main")
  /\ mainPc' = IF logCount > 0 THEN "fflush" ELSE "update"
  /\ UNCHANGED <<loopPc, created, creating, eventVars, logVars, callVars>>

\* fflush(logFile): writes what there is; of a null pointer it flushes every
\* stream; of a wild one it may end the program.
FlushFile ==
  /\ mainPc = "fflush"
  /\ unflushed' = 0
  /\ missed' = FALSE
  /\ mainPc' \in IF logFile = "wild" THEN {"reset", "crashed"} ELSE {"reset"}
  /\ UNCHANGED <<loopPc, created, creating, eventVars, logFile, logCount, callVars>>

ResetCount ==
  /\ mainPc = "reset"
  /\ logCount' = 0
  /\ missed' = (unflushed > 0)
  /\ mainPc' = "update"
  /\ UNCHANGED <<loopPc, created, creating, eventVars, logFile, unflushed, callVars>>

-----------------------------------------------------------------------------
(* The loop thread: the callbacks uv_run makes. *)

Polling == loopPc = "run" /\ logPc["loop"] = "out"

OnNewConnection ==
  /\ Polling
  /\ sessions + closes + batch < MaxSessions
  /\ 2 * sessions + owed < 2 * MaxSessions
  /\ loopPc' = "create session"
  /\ UNCHANGED <<mainPc, created, creating, eventVars, logVars, callVars>>

\* createSession counts the session and logs its id; the rest of
\* OnNewConnection does not log.
createSession ==
  /\ loopPc = "create session" /\ Ready("loop")
  /\ sessions' = sessions + 1
  /\ StartLog("loop")
  /\ loopPc' = "run"
  /\ UNCHANGED <<mainPc, created, creating, closes, batch, owed, logVars>>

\* On_ResultReadData with bytes logs and returns, and without bytes goes on to
\* close the session; On_Shutdown and On_Close, which come after that, log and
\* return.
BeginCallback ==
  /\ Polling
  /\ \/ sessions > 0 /\ loopPc' \in {"log", "log end"} /\ UNCHANGED owed
     \/ owed > 0 /\ loopPc' = "log" /\ owed' = owed - 1
  /\ UNCHANGED <<mainPc, created, creating, sessions, closes, batch, logVars, callVars>>

LogCallback ==
  /\ loopPc \in {"log", "log end"} /\ Ready("loop")
  /\ StartLog("loop")
  /\ loopPc' = IF loopPc = "log" THEN "run" ELSE "close"
  /\ UNCHANGED <<mainPc, created, creating, eventVars, logVars>>

\* Faulty: the session is still open after its close was posted.
closeSessionOpen ==
  /\ loopPc = "close" /\ Ready("loop")
  /\ sessions' = sessions + 1
  /\ closes' = closes + 1
  /\ owed' = owed + 2
  /\ loopPc' = "run"
  /\ UNCHANGED <<mainPc, created, creating, batch, logVars, callVars>>

\* Session::close posts the close event and asks libuv to shut down and to close.
closeSession ==
  /\ loopPc = "close" /\ Ready("loop")
  /\ sessions' = sessions - 1
  /\ closes' = closes + 1
  /\ owed' = owed + 2
  /\ loopPc' = "run"
  /\ UNCHANGED <<mainPc, created, creating, batch, logVars, callVars>>

-----------------------------------------------------------------------------
InitStep ==
  \/ startLog
  \/ LogServiceStart
  \/ start
  \/ listen
  \/ LogStartResult

UpdateStep ==
  \/ SwapQueues
  \/ RemoveSession
  \/ EndOfBatch
  \/ TestCount
  \/ FlushFile
  \/ ResetCount

CallbackStep ==
  \/ createSession
  \/ LogCallback
  \/ closeSession

InstanceStep(t) == FindNoInstance(t) \/ CreateInstance(t)

MainStep == InitStep \/ UpdateStep \/ LogStep("main") \/ InstanceStep("main")
LoopStep == CallbackStep \/ LogStep("loop") \/ InstanceStep("loop")

Next ==
  \/ MainStep
  \/ LoopStep
  \/ OnNewConnection
  \/ BeginCallback

Spec == Init /\ [][Next]_vars

(***************************************************************************)
(* Both threads run, and a thread that waits for writeMutex gets it when   *)
(* it is free again and again: the main thread sleeps a millisecond in     *)
(* every turn of runLoop and the loop thread blocks in uv_run.  libuv need *)
(* not call back.                                                          *)
(***************************************************************************)
Fairness ==
  /\ WF_vars(MainStep)
  /\ WF_vars(LoopStep)
  /\ \A t \in Thread : SF_vars(Lock(t))

FairSpec == Spec /\ Fairness

-----------------------------------------------------------------------------
(* Properties. *)

\* No instance() creates a second object, although none of them is locked:
\* whichever thread uses a singleton first, the other one can reach its own
\* first use only after that (by the thread's creation or an event).
OneInstance == \A s \in Singleton : created[s] <= 1

\* Whoever calls a log function, on whichever thread, finds the file
\* startLog has opened, and never the pointer the constructor left unset.
LogCallsFindFile == \A t \in Thread : logPc[t] # "out" => logFile = "open"

\* A line is left in the buffer with logCount at zero, so that Flush would
\* pass it by, only if it was written between Flush's fflush and its reset.
ForgottenOnlyInFlush ==
  unflushed > 0 /\ logCount = 0 /\ writeMutex = NoThread => missed

\* What is logged reaches the disk as long as logging goes on: even a line
\* whose count Flush has wiped is written with a later one.
LinesReachDisk == []<>(logPc["loop"] = "load") => []<>(unflushed = 0)
=============================================================================
