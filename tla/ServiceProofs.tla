--------------------------- MODULE ServiceProofs ----------------------------
(***************************************************************************)
(* The service for any number of sessions and lines: one object for every  *)
(* singleton, a log file for whoever logs, and a count Flush can trust     *)
(* but for one window.                                                     *)
(***************************************************************************)
EXTENDS Service, TLAPS

-----------------------------------------------------------------------------
(* The inductive invariant. *)

\* The loop thread comes after init has opened the log and asked to listen,
\* and everything about sessions comes from it.
LoopInv ==
  /\ mainPc \in {"startLog", "log start", "start", "listen"} => loopPc = "none"
  /\ loopPc = "none" =>
       sessions = 0 /\ closes = 0 /\ batch = 0 /\ logPc["loop"] = "out"
  /\ loopPc = "create session" => sessions < MaxSessions
  /\ loopPc \in {"log end", "close"} => sessions > 0

\* Only the thread in the mutex is between lock and unlock.
MutexInv ==
  \A t \in Thread : logPc[t] \in {"fputs", "load", "store", "unlock"} => writeMutex = t

\* Everything that can lead to a call of a log function comes after startLog.
FileInv ==
  /\ mainPc = "startLog" => unflushed = 0 /\ \A t \in Thread : logPc[t] = "out"
  /\ mainPc \in {"log start", "start", "listen", "log result"} => logFile = "open"
  /\ loopPc # "none" => logFile = "open"
  /\ LogCallsFindFile

\* A line that is not counted is still being counted, or was missed.
CountInv ==
  unflushed > 0 /\ logCount = 0 =>
    missed \/ \E t \in Thread : logPc[t] \in {"load", "store"}

\* The loop thread creates only the session manager, before there is a session;
\* the main thread creates the others, before there is a loop thread.
InstanceInv ==
  /\ OneInstance
  /\ \A t \in Thread : creating[t] # NoSingleton => created[creating[t]] = 0
  /\ creating["loop"] \in {NoSingleton, "SessionManager"}
  /\ creating["main"] # "SessionManager"
  /\ mainPc \in {"log start", "start", "listen", "log result"} => created["Log"] > 0
  /\ loopPc # "none" => created["Log"] > 0 /\ created["NetManager"] > 0
  /\ sessions + closes + batch > 0 => created["SessionManager"] > 0

IInv == TypeOK /\ LoopInv /\ MutexInv /\ FileInv /\ CountInv /\ InstanceInv

\* The start satisfies it.
LEMMA InitInv == Init => IInv
<1> SUFFICES ASSUME Init PROVE IInv
  OBVIOUS
<1> USE BoundsAssumption, NoneAssumption DEF Init, Thread, Singleton
<1>1. TypeOK
  <2>1. mainPc = "startLog" /\ loopPc = "none" /\ created \in [Singleton -> Nat]
    OBVIOUS
  <2>2. /\ sessions \in 0..MaxSessions /\ closes \in Nat /\ batch \in Nat /\ owed \in Nat
        /\ logCount \in 0..MaxLines /\ unflushed \in 0..MaxLines
    OBVIOUS
  <2>3. /\ creating \in [Thread -> Singleton \cup {NoSingleton}]
        /\ logFile \in {"wild", "null", "open"} /\ missed \in BOOLEAN
    OBVIOUS
  <2>4. /\ logPc \in [Thread -> {"out", "lock", "fputs", "load", "store", "unlock"}]
        /\ writeMutex \in Thread \cup {NoThread}
        /\ loaded \in [Thread -> 0..MaxLines]
    OBVIOUS
  <2> QED
    BY <2>1, <2>2, <2>3, <2>4 DEF TypeOK
<1>2. LoopInv /\ MutexInv /\ CountInv
  BY DEF LoopInv, MutexInv, CountInv
<1>3. FileInv
  BY DEF FileInv, LogCallsFindFile
<1>4. InstanceInv
  BY DEF InstanceInv, OneInstance
<1> QED
  BY <1>1, <1>2, <1>3, <1>4 DEF IInv

-----------------------------------------------------------------------------
(* Every step keeps it, part by part. *)

\* Only Lock gives the mutex away, and only when nobody has it.
LEMMA MutexStep ==
  ASSUME TypeOK, MutexInv, [Next]_vars
  PROVE  MutexInv'
<1> USE NoneAssumption DEF TypeOK, MutexInv, Thread
<1>1. CASE UNCHANGED <<writeMutex, logPc>>
  BY <1>1
<1>2. ASSUME NEW t \in Thread, StartLog(t), UNCHANGED writeMutex
      PROVE  MutexInv'
  BY <1>2 DEF StartLog
<1>3. ASSUME NEW t \in Thread, LogStep(t)
      PROVE  MutexInv'
  <2>1. CASE Lock(t)
    BY <1>3, <2>1 DEF Lock
  <2>2. CASE Fputs(t) \/ LoadCount(t) \/ StoreCount(t)
    BY <1>3, <2>2 DEF Fputs, LoadCount, StoreCount
  <2>3. CASE Unlock(t)
    BY <1>3, <2>3 DEF Unlock
  <2> QED
    BY <1>3, <2>1, <2>2, <2>3 DEF LogStep
<1> HIDE DEF TypeOK, MutexInv
<1>4. ASSUME NEW t \in Thread, InstanceStep(t)
      PROVE  MutexInv'
  BY <1>1, <1>4 DEF InstanceStep, FindNoInstance, CreateInstance, callVars
<1>5. CASE InitStep
  BY <1>1, <1>2, <1>5
  DEF InitStep, startLog, LogServiceStart, start, listen, LogStartResult, StartLog, callVars
<1>6. CASE UpdateStep
  BY <1>1, <1>2, <1>6
  DEF UpdateStep, SwapQueues, RemoveSession, EndOfBatch, TestCount, FlushFile, ResetCount,
      StartLog, callVars
<1>7. CASE CallbackStep \/ OnNewConnection \/ BeginCallback
  BY <1>1, <1>2, <1>7
  DEF CallbackStep, createSession, LogCallback, closeSession, OnNewConnection, BeginCallback,
      StartLog, callVars
<1>8. CASE UNCHANGED vars
  BY <1>1, <1>8 DEF vars, callVars
<1> QED
  BY <1>3, <1>4, <1>5, <1>6, <1>7, <1>8 DEF Next, MainStep, LoopStep

\* Counting a line leaves a positive count within its bound.
LEMMA OneMoreType ==
  ASSUME NEW n \in 0..MaxLines
  PROVE  OneMore(n) \in 1..MaxLines
  BY BoundsAssumption DEF OneMore

\* A stored count is positive; a reset notes what it forgets.
LEMMA CountStep ==
  ASSUME TypeOK, FileInv, CountInv, [Next]_vars
  PROVE  CountInv'
<1>0. logPc \in [Thread -> {"out", "lock", "fputs", "load", "store", "unlock"}]
  BY DEF TypeOK
<1> USE <1>0 DEF CountInv, Thread
<1>1. CASE UNCHANGED <<logCount, unflushed, missed, logPc>>
  BY <1>1
<1>2. ASSUME NEW t \in Thread, logPc[t] = "out", StartLog(t), UNCHANGED logVars
      PROVE  CountInv'
  BY <1>2 DEF StartLog, logVars
<1>3. ASSUME NEW t \in Thread, LogStep(t)
      PROVE  CountInv'
  <2>1. CASE Lock(t)
    BY <1>3, <2>1 DEF Lock, logVars
  <2>2. CASE Fputs(t)
    BY <2>2 DEF Fputs
  <2>3. CASE LoadCount(t)
    BY <2>3 DEF LoadCount
  <2>4. CASE StoreCount(t)
    <3>1. logCount' > 0
      <4>1. loaded[t] \in 0..MaxLines /\ logCount' = OneMore(loaded[t])
        BY <2>4 DEF StoreCount, TypeOK
      <4> QED
        BY <4>1, OneMoreType
    <3> QED
      BY <3>1
  <2>5. CASE Unlock(t)
    BY <2>5 DEF Unlock, logVars
  <2> QED
    BY <1>3, <2>1, <2>2, <2>3, <2>4, <2>5 DEF LogStep
<1>4. CASE startLog
  <2>1. unflushed = 0 /\ UNCHANGED unflushed
    BY <1>4 DEF startLog, FileInv
  <2> QED
    BY <2>1
<1>5. CASE FlushFile
  BY <1>5 DEF FlushFile
<1>6. CASE ResetCount
  BY <1>6 DEF ResetCount
<1> HIDE DEF CountInv
<1>7. ASSUME NEW t \in Thread, InstanceStep(t)
      PROVE  CountInv'
  BY <1>1, <1>7 DEF InstanceStep, FindNoInstance, CreateInstance, logVars, callVars
<1>8. CASE InitStep
  BY <1>1, <1>2, <1>4, <1>8
  DEF InitStep, LogServiceStart, start, listen, LogStartResult, Ready, logVars, callVars
<1>9. CASE UpdateStep
  BY <1>1, <1>2, <1>5, <1>6, <1>9
  DEF UpdateStep, SwapQueues, RemoveSession, EndOfBatch, TestCount, Ready, logVars, callVars
<1>10. CASE CallbackStep \/ OnNewConnection \/ BeginCallback
  BY <1>1, <1>2, <1>10
  DEF CallbackStep, createSession, LogCallback, closeSession, OnNewConnection, BeginCallback,
      Ready, logVars, callVars
<1>11. CASE UNCHANGED vars
  BY <1>1, <1>11 DEF vars, logVars, callVars
<1> QED
  BY <1>3, <1>7, <1>8, <1>9, <1>10, <1>11 DEF Next, MainStep, LoopStep

\* Whoever begins to log comes after a successful startLog.
LEMMA FileStep ==
  ASSUME TypeOK, LoopInv, FileInv, [Next]_vars
  PROVE  FileInv'
<1> USE DEF TypeOK, LoopInv, FileInv, LogCallsFindFile, Thread
<1>1. CASE UNCHANGED <<mainPc, loopPc, logFile, unflushed, logPc>>
  BY <1>1
<1>2. ASSUME NEW t \in Thread, LogStep(t)
      PROVE  FileInv'
  <2>1. /\ mainPc # "startLog" /\ UNCHANGED <<mainPc, loopPc, logFile>>
        /\ \A u \in Thread : logPc'[u] # "out" => logPc[u] # "out"
    BY <1>2 DEF LogStep, Lock, Fputs, LoadCount, StoreCount, Unlock, logVars
  <2> QED
    BY <2>1
<1>3. CASE startLog
  BY <1>3 DEF startLog, eventVars, callVars
<1>4. CASE LogServiceStart
  BY <1>4 DEF LogServiceStart, StartLog, logVars
<1>5. CASE start \/ listen
  BY <1>5 DEF start, listen, logVars, callVars
<1>6. CASE LogStartResult
  BY <1>6 DEF LogStartResult, StartLog, logVars
<1>7. CASE SwapQueues \/ EndOfBatch \/ TestCount
  BY <1>7 DEF SwapQueues, EndOfBatch, TestCount, logVars, callVars
<1>9. CASE FlushFile \/ ResetCount
  BY <1>9 DEF FlushFile, ResetCount, callVars
<1>10. CASE CallbackStep \/ OnNewConnection \/ BeginCallback
  <2>1. loopPc # "none" /\ logFile = "open" /\ mainPc # "startLog"
    BY <1>10 DEF CallbackStep, createSession, LogCallback, closeSession, OnNewConnection,
                 BeginCallback, Polling
  <2>2. UNCHANGED <<mainPc, logFile>>
    BY <1>10 DEF CallbackStep, createSession, LogCallback, closeSession, OnNewConnection,
                 BeginCallback, logVars
  <2> QED
    BY <2>1, <2>2
<1> HIDE DEF TypeOK, LoopInv, FileInv
<1>8. CASE RemoveSession
  <2>1. batch # 0
    <3>1. batch > 0 /\ batch \in Nat
      BY <1>8 DEF RemoveSession, TypeOK
    <3> QED
      BY <3>1
  <2>2. loopPc # "none"
    BY <2>1 DEF LoopInv
  <2>3. mainPc = "dispatch" /\ UNCHANGED <<mainPc, loopPc, logFile>>
    BY <1>8 DEF RemoveSession, logVars
  <2> QED
    BY <2>2, <2>3 DEF FileInv, LogCallsFindFile
<1>11. ASSUME NEW t \in Thread, InstanceStep(t)
      PROVE  FileInv'
  BY <1>1, <1>11 DEF InstanceStep, FindNoInstance, CreateInstance, logVars, callVars
<1>12. CASE UNCHANGED vars
  BY <1>1, <1>12 DEF vars, logVars, callVars
<1> QED
  BY <1>2, <1>3, <1>4, <1>5, <1>6, <1>7, <1>8, <1>9, <1>10, <1>11, <1>12
  DEF Next, MainStep, LoopStep, InitStep, UpdateStep

\* Sessions and their events need the loop thread.
LEMMA LoopPartStep ==
  ASSUME TypeOK, LoopInv, [Next]_vars
  PROVE  LoopInv'
<1>0. /\ MaxSessions \in Nat /\ sessions \in Nat /\ closes \in Nat /\ batch \in Nat
      /\ logPc \in [Thread -> {"out", "lock", "fputs", "load", "store", "unlock"}]
      /\ batch > 0 => batch # 0
      /\ sessions + closes + batch < MaxSessions => sessions < MaxSessions
  <2>1. MaxSessions \in Nat
    BY BoundsAssumption
  <2>2. /\ sessions \in 0..MaxSessions /\ closes \in Nat /\ batch \in Nat
        /\ logPc \in [Thread -> {"out", "lock", "fputs", "load", "store", "unlock"}]
    BY DEF TypeOK
  <2>3. batch > 0 => batch # 0
    BY <2>2
  <2>4. sessions + closes + batch < MaxSessions => sessions < MaxSessions
    <3>1. sessions \in Nat /\ closes \in Nat /\ batch \in Nat
      BY <2>1, <2>2
    <3> QED
      BY <2>1, <3>1
  <2> QED
    BY <2>1, <2>2, <2>3, <2>4
<1> USE <1>0 DEF LoopInv, Thread
<1>1. CASE UNCHANGED <<mainPc, loopPc, eventVars, logPc>>
  BY <1>1 DEF eventVars
<1>2. ASSUME NEW t \in Thread, LogStep(t)
      PROVE  LoopInv'
  <2>1. /\ UNCHANGED <<mainPc, loopPc, eventVars>>
        /\ logPc["loop"] = "out" => logPc'["loop"] = "out"
    BY <1>2 DEF LogStep, Lock, Fputs, LoadCount, StoreCount, Unlock
  <2> QED
    BY <2>1 DEF eventVars
<1>3. CASE InitStep
  <2>1. /\ UNCHANGED <<eventVars>> /\ logPc'["loop"] = logPc["loop"]
        /\ mainPc \in {"startLog", "log start", "start"} => UNCHANGED loopPc
        /\ mainPc = "listen" => mainPc' = "log result"
        /\ mainPc \in {"startLog", "log start", "start", "listen", "log result"}
        /\ mainPc = "log result" => UNCHANGED loopPc /\ mainPc' = "update"
        /\ mainPc' # "startLog"
        /\ loopPc' # loopPc => mainPc = "listen" /\ loopPc' \in {"none", "run"}
    BY <1>3 DEF InitStep, startLog, LogServiceStart, start, listen, LogStartResult, StartLog,
                callVars
  <2>2. CASE mainPc = "listen"
    BY <2>1, <2>2 DEF eventVars
  <2>3. CASE mainPc # "listen"
    <3>1. UNCHANGED loopPc
      BY <2>1, <2>3
    <3> QED
      BY <2>1, <2>3, <3>1 DEF eventVars
  <2> QED
    BY <2>2, <2>3
<1>4. CASE SwapQueues
  BY <1>4 DEF SwapQueues, callVars
<1>5. CASE RemoveSession
  <2>1. /\ batch > 0 /\ UNCHANGED <<mainPc, loopPc, sessions, closes>> /\ mainPc = "dispatch"
    BY <1>5 DEF RemoveSession
  <2>2. batch # 0
    BY <1>0, <2>1
  <2>3. loopPc # "none"
    BY <2>2
  <2> QED
    BY <2>1, <2>3
<1>6. CASE EndOfBatch \/ TestCount \/ FlushFile \/ ResetCount
  BY <1>6 DEF EndOfBatch, TestCount, FlushFile, ResetCount, eventVars, callVars
<1>7. CASE createSession
  <2>1. loopPc' = "run" /\ UNCHANGED mainPc /\ loopPc = "create session"
    BY <1>7 DEF createSession
  <2>2. ~ mainPc' \in {"startLog", "log start", "start", "listen"}
    BY <2>1
  <2>3. /\ loopPc' # "none" /\ loopPc' # "create session"
        /\ ~ loopPc' \in {"log end", "close"}
    BY <2>1
  <2> QED
    BY <2>2, <2>3
<1>8. CASE OnNewConnection
  <2>1. sessions + closes + batch < MaxSessions
    BY <1>8 DEF OnNewConnection
  <2>2. sessions < MaxSessions
    BY <2>1
  <2>3. /\ loopPc # "none" /\ loopPc' = "create session"
        /\ UNCHANGED <<mainPc, sessions>>
    BY <1>8 DEF OnNewConnection, Polling, eventVars
  <2> QED
    BY <2>2, <2>3
<1>9. CASE BeginCallback
  BY <1>9 DEF BeginCallback, Polling, eventVars
<1>10. CASE LogCallback
  BY <1>10 DEF LogCallback, eventVars
<1>11. CASE closeSession
  BY <1>11 DEF closeSession
<1> HIDE DEF LoopInv
<1>12. ASSUME NEW t \in Thread, InstanceStep(t)
      PROVE  LoopInv'
  BY <1>1, <1>12 DEF InstanceStep, FindNoInstance, CreateInstance, callVars
<1>13. CASE UNCHANGED vars
  BY <1>1, <1>13 DEF vars, callVars
<1> QED
  BY <1>2, <1>3, <1>4, <1>5, <1>6, <1>7, <1>8, <1>9, <1>10, <1>11, <1>12, <1>13
  DEF Next, MainStep, LoopStep, UpdateStep, CallbackStep

\* The types, with LoopInv for the bounds of sessions.
LEMMA TypeStep ==
  ASSUME TypeOK, LoopInv, [Next]_vars
  PROVE  TypeOK'
<1>0. 0 \in 0..MaxLines
  BY BoundsAssumption
<1> USE DEF TypeOK, Thread
<1>1. CASE UNCHANGED vars
  BY <1>1 DEF vars, eventVars, logVars, callVars
<1>2. ASSUME NEW t \in Thread, StartLog(t)
      PROVE  UNCHANGED <<writeMutex, loaded>>
             /\ logPc' \in [Thread -> {"out", "lock", "fputs", "load", "store", "unlock"}]
  BY <1>2 DEF StartLog
<1>3. ASSUME NEW t \in Thread, LogStep(t)
      PROVE  TypeOK'
  <2>1. CASE Lock(t)
    BY <2>1 DEF Lock, eventVars, logVars
  <2>5. CASE Unlock(t)
    BY <2>5 DEF Unlock, eventVars, logVars
  <2>4. CASE LoadCount(t)
    BY <2>4 DEF LoadCount, eventVars, logVars
  <2>2. CASE Fputs(t)
    <3>1. unflushed' \in 0..MaxLines
      <4>1. unflushed \in 0..MaxLines /\ unflushed' = OneMore(unflushed)
        BY <2>2 DEF Fputs
      <4> HIDE DEF TypeOK
      <4> QED
        BY <4>1, OneMoreType
    <3> QED
      BY <2>2, <3>1 DEF Fputs, eventVars
  <2>3. CASE StoreCount(t)
    <3>1. logCount' \in 0..MaxLines
      <4>1. loaded[t] \in 0..MaxLines /\ logCount' = OneMore(loaded[t])
        BY <2>3 DEF StoreCount
      <4> HIDE DEF TypeOK
      <4> QED
        BY <4>1, OneMoreType
    <3> QED
      BY <2>3, <3>1 DEF StoreCount, eventVars
  <2> QED
    BY <1>3, <2>1, <2>2, <2>3, <2>4, <2>5 DEF LogStep
<1>4. CASE startLog
  BY <1>0, <1>4 DEF startLog, eventVars, callVars
<1>5. CASE LogServiceStart
  BY <1>2, <1>5 DEF LogServiceStart, eventVars, logVars
<1>6. CASE start \/ listen
  BY <1>6 DEF start, listen, eventVars, logVars, callVars
<1>7. CASE LogStartResult
  BY <1>2, <1>7 DEF LogStartResult, eventVars, logVars
<1>8. CASE SwapQueues
  BY <1>8 DEF SwapQueues, logVars, callVars
<1>9. CASE RemoveSession
  <2>1. batch' \in Nat
    <3>1. batch \in Nat /\ batch > 0 /\ batch' = batch - 1
      BY <1>9 DEF RemoveSession
    <3> HIDE DEF TypeOK
    <3> QED
      BY <3>1
  <2>2. /\ StartLog("main")
        /\ UNCHANGED <<mainPc, loopPc, created, creating, sessions, closes, owed, logVars>>
    BY <1>9 DEF RemoveSession
  <2> QED
    BY <1>2, <2>1, <2>2 DEF logVars
<1>10. CASE EndOfBatch \/ TestCount
  BY <1>10 DEF EndOfBatch, TestCount, eventVars, logVars, callVars
<1>11. CASE FlushFile \/ ResetCount
  <2>1. CASE FlushFile
    BY <1>0, <2>1 DEF FlushFile, eventVars, callVars
  <2>2. CASE ResetCount
    <3>1. missed' = (unflushed > 0)
      BY <2>2 DEF ResetCount
    <3>2. missed' \in BOOLEAN
      <4> HIDE DEF TypeOK
      <4>1. CASE unflushed > 0
        BY <3>1, <4>1
      <4>2. CASE ~ (unflushed > 0)
        BY <3>1, <4>2
      <4> QED
        BY <4>1, <4>2
    <3> QED
      BY <1>0, <2>2, <3>2 DEF ResetCount, eventVars, callVars
  <2> QED
    BY <1>11, <2>1, <2>2
<1>12. CASE createSession
  <2>1. sessions' \in 0..MaxSessions
    <3>1. sessions \in 0..MaxSessions /\ sessions < MaxSessions /\ sessions' = sessions + 1
      BY <1>12 DEF createSession, LoopInv
    <3> HIDE DEF TypeOK
    <3> QED
      BY <3>1, BoundsAssumption
  <2> QED
    BY <1>2, <1>12, <2>1 DEF createSession, logVars
<1>13. CASE closeSession
  <2>1. sessions' \in 0..MaxSessions
    <3>1. sessions \in 0..MaxSessions /\ sessions > 0 /\ sessions' = sessions - 1
      BY <1>13 DEF closeSession, LoopInv
    <3> HIDE DEF TypeOK
    <3> QED
      BY <3>1, BoundsAssumption
  <2>2. closes' \in Nat
    <3>1. closes \in Nat /\ closes' = closes + 1
      BY <1>13 DEF closeSession
    <3> HIDE DEF TypeOK
    <3> QED
      BY <3>1
  <2>3. owed' \in Nat
    <3>1. owed \in Nat /\ owed' = owed + 2
      BY <1>13 DEF closeSession
    <3> HIDE DEF TypeOK
    <3> QED
      BY <3>1
  <2> QED
    BY <1>13, <2>1, <2>2, <2>3 DEF closeSession, logVars, callVars
<1>14. CASE LogCallback
  BY <1>2, <1>14 DEF LogCallback, eventVars, logVars
<1>15. CASE OnNewConnection \/ BeginCallback
  <2>1. owed' \in Nat /\ loopPc' \in {"create session", "log", "log end"}
    <3>1. owed \in Nat /\ (owed' = owed \/ (owed > 0 /\ owed' = owed - 1))
      <4>1. owed \in Nat
        OBVIOUS
      <4> HIDE DEF TypeOK
      <4>2. owed' = owed \/ (owed > 0 /\ owed' = owed - 1)
        BY <1>15 DEF OnNewConnection, BeginCallback, eventVars
      <4> QED
        BY <4>1, <4>2
    <3>2. owed' \in Nat
      <4> HIDE DEF TypeOK
      <4> QED
        BY <3>1
    <3> QED
      BY <1>15, <3>2 DEF OnNewConnection, BeginCallback
  <2>2. UNCHANGED <<mainPc, created, creating, sessions, closes, batch, logVars, callVars>>
    BY <1>15 DEF OnNewConnection, BeginCallback, eventVars
  <2> QED
    BY <2>1, <2>2 DEF logVars, callVars
<1>16. ASSUME NEW t \in Thread, InstanceStep(t)
      PROVE  TypeOK'
  <2>1. CASE FindNoInstance(t)
    <3>1. creating' \in [Thread -> Singleton \cup {NoSingleton}]
      <4>1. UsedBy(t) \subseteq Singleton
        BY DEF UsedBy, UsedByMain, UsedByLoop, Singleton
      <4> QED
        BY <2>1, <4>1 DEF FindNoInstance
    <3> QED
      BY <2>1, <3>1 DEF FindNoInstance, eventVars, logVars, callVars
  <2>2. CASE CreateInstance(t)
    <3>1. created' \in [Singleton -> Nat]
      <4>1. /\ created \in [Singleton -> Nat] /\ creating[t] \in Singleton
            /\ created' = [created EXCEPT ![creating[t]] = @ + 1]
        BY <2>2 DEF CreateInstance
      <4> HIDE DEF TypeOK
      <4> QED
        BY <4>1
    <3> QED
      BY <2>2, <3>1 DEF CreateInstance, eventVars, logVars, callVars
  <2> QED
    BY <1>16, <2>1, <2>2 DEF InstanceStep
<1> HIDE DEF TypeOK
<1> QED
  BY <1>1, <1>3, <1>4, <1>5, <1>6, <1>7, <1>8, <1>9, <1>10, <1>11, <1>12, <1>13, <1>14, <1>15, <1>16
  DEF Next, MainStep, LoopStep, InitStep, UpdateStep, CallbackStep

\* The two threads never find the same singleton missing.
LEMMA InstancePartStep ==
  ASSUME TypeOK, LoopInv, InstanceInv, [Next]_vars
  PROVE  InstanceInv'
<1>0. /\ created \in [Singleton -> Nat] /\ creating \in [Thread -> Singleton \cup {NoSingleton}]
      /\ sessions \in Nat /\ closes \in Nat /\ batch \in Nat
  <2>1. sessions \in 0..MaxSessions /\ closes \in Nat /\ batch \in Nat
    BY DEF TypeOK
  <2>2. sessions \in Nat
    BY <2>1, BoundsAssumption
  <2>3. created \in [Singleton -> Nat] /\ creating \in [Thread -> Singleton \cup {NoSingleton}]
    BY DEF TypeOK
  <2> QED
    BY <2>1, <2>2, <2>3
\* Steps that create nothing: the three clauses about how far init and the
\* sessions have come are what they can disturb.
<1>2. ASSUME UNCHANGED <<created, creating>>,
             mainPc' \in {"log start", "start", "listen", "log result"} => created["Log"] > 0,
             loopPc' # "none" => created["Log"] > 0 /\ created["NetManager"] > 0,
             (sessions + closes + batch > 0)' => created["SessionManager"] > 0
      PROVE  InstanceInv'
  BY <1>2 DEF InstanceInv, OneInstance
<1>1. ASSUME UNCHANGED <<mainPc, loopPc, created, creating, eventVars>>
      PROVE  InstanceInv'
  <2>1. UNCHANGED <<mainPc, loopPc, created, creating, sessions, closes, batch>>
    BY <1>1 DEF eventVars
  <2> QED
    BY <1>2, <2>1 DEF InstanceInv
<1>3. CASE startLog
  <2>1. /\ mainPc' \in {"update", "log start"} /\ created["Log"] > 0
        /\ UNCHANGED <<loopPc, created, creating, sessions, closes, batch>>
    BY <1>3 DEF startLog, Ready, UsedBy, UsedByMain, eventVars
  <2> QED
    BY <1>2, <2>1 DEF InstanceInv
<1>4. CASE LogServiceStart \/ start \/ LogStartResult
  <2>1. /\ mainPc \in {"log start", "start", "log result"}
        /\ mainPc' \in {"start", "listen", "update"}
        /\ UNCHANGED <<loopPc, created, creating, sessions, closes, batch>>
    BY <1>4 DEF LogServiceStart, start, LogStartResult, eventVars
  <2>2. created["Log"] > 0
    BY <2>1 DEF InstanceInv
  <2> QED
    BY <1>2, <2>1, <2>2 DEF InstanceInv
<1>5. CASE listen
  <2>1. /\ mainPc = "listen" /\ created["NetManager"] > 0
        /\ UNCHANGED <<created, creating, sessions, closes, batch>>
    BY <1>5 DEF listen, Ready, UsedBy, UsedByMain, eventVars
  <2>2. created["Log"] > 0
    BY <2>1 DEF InstanceInv
  <2> QED
    BY <1>2, <2>1, <2>2 DEF InstanceInv
<1>6. CASE UpdateStep
  <2>1. /\ mainPc' \in {"update", "dispatch", "flush", "fflush", "reset", "crashed"}
        /\ UNCHANGED <<loopPc, created, creating>>
    BY <1>6 DEF UpdateStep, SwapQueues, RemoveSession, EndOfBatch, TestCount, FlushFile,
                ResetCount
  <2>2. sessions' = sessions /\ closes' \in Nat /\ batch' \in Nat
        /\ closes' + batch' <= closes + batch
    <3>1. CASE SwapQueues
      BY <1>0, <3>1 DEF SwapQueues
    <3>2. CASE RemoveSession
      <4>1. batch > 0 /\ batch' = batch - 1 /\ UNCHANGED <<sessions, closes>>
        BY <3>2 DEF RemoveSession
      <4> QED
        BY <1>0, <4>1
    <3>3. CASE EndOfBatch \/ TestCount \/ FlushFile \/ ResetCount
      <4>1. UNCHANGED <<sessions, closes, batch>>
        BY <3>3 DEF EndOfBatch, TestCount, FlushFile, ResetCount, eventVars
      <4> QED
        BY <1>0, <4>1
    <3> QED
      BY <1>6, <3>1, <3>2, <3>3 DEF UpdateStep
  <2>3. (sessions + closes + batch > 0)' => sessions + closes + batch > 0
    <3>1. \A a, b, c, d, e \in Nat : d + e <= b + c /\ a + d + e > 0 => a + b + c > 0
      OBVIOUS
    <3> QED
      BY <1>0, <2>2, <3>1
  <2> QED
    BY <1>2, <2>1, <2>3 DEF InstanceInv
<1>7. CASE createSession
  <2>1. /\ loopPc # "none" /\ created["SessionManager"] > 0
        /\ UNCHANGED <<mainPc, created, creating>>
    BY <1>7 DEF createSession, Ready, UsedBy, UsedByLoop
  <2> QED
    BY <1>2, <2>1 DEF InstanceInv
<1>8. CASE LogCallback \/ OnNewConnection \/ BeginCallback
  <2>1. loopPc # "none" /\ UNCHANGED <<mainPc, created, creating, sessions, closes, batch>>
    BY <1>8 DEF LogCallback, OnNewConnection, BeginCallback, Polling, eventVars
  <2> QED
    BY <1>2, <2>1 DEF InstanceInv
<1>9. CASE closeSession
  <2>1. loopPc = "close" /\ UNCHANGED <<mainPc, created, creating>>
    BY <1>9 DEF closeSession
  <2>2. sessions > 0
    BY <2>1 DEF LoopInv
  <2>3. created["SessionManager"] > 0
    <3>1. sessions + closes + batch > 0
      BY <1>0, <2>2
    <3> QED
      BY <3>1 DEF InstanceInv
  <2> QED
    BY <1>2, <2>1, <2>3 DEF InstanceInv
<1>10. ASSUME NEW t \in Thread, LogStep(t)
       PROVE  InstanceInv'
  BY <1>1, <1>10 DEF LogStep, Lock, Fputs, LoadCount, StoreCount, Unlock
<1>11. ASSUME NEW t \in Thread, FindNoInstance(t)
       PROVE  InstanceInv'
  <2>1. PICK s \in UsedBy(t) : created[s] = 0 /\ creating' = [creating EXCEPT ![t] = s]
    BY <1>11 DEF FindNoInstance
  <2>2. UNCHANGED <<mainPc, loopPc, created, sessions, closes, batch>>
    BY <1>11 DEF FindNoInstance, eventVars
  <2>3. t = "main" => s \in Singleton /\ s # "SessionManager"
    <3>1. SUFFICES ASSUME t = "main", s = "SessionManager" PROVE FALSE
      BY <2>1 DEF UsedBy, UsedByMain, Singleton
    <3>2. batch > 0
      BY <2>1, <3>1 DEF UsedBy, UsedByMain
    <3>3. sessions + closes + batch > 0
      BY <1>0, <3>2
    <3>4. created["SessionManager"] > 0
      BY <3>3 DEF InstanceInv
    <3> QED
      BY <2>1, <3>1, <3>4
  <2>4. t = "loop" => s = "SessionManager"
    <3>1. SUFFICES ASSUME t = "loop", s # "SessionManager" PROVE FALSE
      OBVIOUS
    <3>2. loopPc # "none" /\ s \in {"Log", "NetManager"}
      BY <2>1, <3>1 DEF UsedBy, UsedByLoop
    <3>3. created["Log"] > 0 /\ created["NetManager"] > 0
      BY <3>2 DEF InstanceInv
    <3> QED
      BY <2>1, <3>2, <3>3
  <2>5. /\ creating'["loop"] \in {NoSingleton, "SessionManager"}
        /\ creating'["main"] # "SessionManager"
        /\ \A u \in Thread : creating'[u] # NoSingleton => created[creating'[u]] = 0
    BY <1>0, <2>1, <2>3, <2>4 DEF InstanceInv, Thread
  <2> QED
    BY <2>2, <2>5 DEF InstanceInv, OneInstance
<1>12. ASSUME NEW t \in Thread, CreateInstance(t)
       PROVE  InstanceInv'
  <2> DEFINE s == creating[t]
  <2>1. /\ s \in Singleton /\ created[s] = 0
        /\ created' = [created EXCEPT ![s] = @ + 1]
        /\ creating' = [creating EXCEPT ![t] = NoSingleton]
        /\ UNCHANGED <<mainPc, loopPc, sessions, closes, batch>>
    BY <1>0, <1>12 DEF CreateInstance, InstanceInv, eventVars
  <2>2. /\ created'[s] = 1
        /\ \A r \in Singleton \ {s} : created'[r] = created[r]
    BY <1>0, <2>1
  <2>3. \A u \in Thread \ {t} : creating'[u] = creating[u] /\ creating[u] # s
    <3>1. \A u \in Thread \ {t} : creating'[u] = creating[u]
      BY <1>0, <2>1
    <3>2. \A u \in Thread \ {t} : creating[u] # s
      <4>1. s # NoSingleton /\ (t = "loop" => s = "SessionManager")
        BY <2>1, NoneAssumption DEF InstanceInv
      <4>2. CASE t = "main"
        <5>1. s # "SessionManager" /\ creating["loop"] \in {NoSingleton, "SessionManager"}
          BY <4>2 DEF InstanceInv
        <5> QED
          BY <4>1, <4>2, <5>1 DEF Thread
      <4>3. CASE t = "loop"
        <5>1. creating["main"] # "SessionManager"
          BY DEF InstanceInv
        <5> QED
          BY <4>1, <4>3, <5>1 DEF Thread
      <4> QED
        BY <4>2, <4>3 DEF Thread
    <3> QED
      BY <3>1, <3>2
  <2>4. creating'[t] = NoSingleton
    BY <1>0, <2>1
  <2> HIDE DEF s
  <2>5. OneInstance'
    <3>1. \A r \in Singleton : created[r] <= 1
      BY DEF InstanceInv, OneInstance
    <3>2. \A r \in Singleton : created'[r] <= 1
      BY <2>2, <3>1
    <3> QED
      BY <3>2 DEF OneInstance
  <2>6. \A u \in Thread : creating'[u] # NoSingleton => created'[creating'[u]] = 0
    BY <1>0, <2>2, <2>3, <2>4 DEF InstanceInv
  <2>7. /\ creating'["loop"] \in {NoSingleton, "SessionManager"}
        /\ creating'["main"] # "SessionManager"
    BY <2>3, <2>4, NoneAssumption DEF InstanceInv, Thread, Singleton
  <2>8. \A r \in Singleton : created[r] > 0 => created'[r] > 0
    BY <1>0, <2>2
  <2>9. {"Log", "NetManager", "SessionManager"} \subseteq Singleton
    BY DEF Singleton
  <2> QED
    BY <2>1, <2>5, <2>6, <2>7, <2>8, <2>9 DEF InstanceInv
<1>13. CASE UNCHANGED vars
  BY <1>1, <1>13 DEF vars
<1> QED
  BY <1>3, <1>4, <1>5, <1>6, <1>7, <1>8, <1>9, <1>10, <1>11, <1>12, <1>13
  DEF Next, MainStep, LoopStep, InitStep, CallbackStep, InstanceStep, Thread

-----------------------------------------------------------------------------
\* The six parts hold together from the start.
THEOREM Invariance == Spec => []IInv
<1>1. Init => IInv
  BY InitInv
<1>2. IInv /\ [Next]_vars => IInv'
  BY TypeStep, LoopPartStep, MutexStep, FileStep, CountStep, InstancePartStep DEF IInv
<1> QED
  BY <1>1, <1>2, PTL DEF Spec

\* Every variable keeps its type, for any number of sessions.
THEOREM TypeCorrect == Spec => []TypeOK
<1>1. IInv => TypeOK
  BY DEF IInv
<1> QED
  BY Invariance, <1>1, PTL

\* The unlocked instance() functions never make a second object: the main
\* thread's first uses come before the loop thread or after its events.
THEOREM InstancesAreSingle == Spec => []OneInstance
<1>1. IInv => OneInstance
  BY DEF IInv, InstanceInv
<1> QED
  BY Invariance, <1>1, PTL

\* A log function never sees the uninitialised logFile, and never a null one:
\* what logs is only reached when startLog has succeeded.
THEOREM LoggersFindFile == Spec => []LogCallsFindFile
<1>1. IInv => LogCallsFindFile
  BY DEF IInv, FileInv
<1> QED
  BY Invariance, <1>1, PTL

\* The unlocked count of Flush goes wrong only by the lines that were written
\* between its fflush and its reset.
THEOREM LinesForgottenOnlyInFlush == Spec => []ForgottenOnlyInFlush
<1>1. IInv => ForgottenOnlyInFlush
  BY NoneAssumption DEF IInv, MutexInv, CountInv, ForgottenOnlyInFlush
<1> QED
  BY Invariance, <1>1, PTL
=============================================================================
