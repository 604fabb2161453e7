--------------------------- MODULE RunLoopProofs ---------------------------
(***************************************************************************)
(* Theorems about ZmThread, about RunLoop, whose thread it is, and about   *)
(* the timers of that loop, for any number of callers, of threads created  *)
(* and of timers.                                                          *)
(***************************************************************************)
EXTENDS RunLoop, LoopTimers, TLAPS

(***************************************************************************)
(* ZmThread.  The generations follow one another: all before the one in    *)
(* m_thread have exited, none after it was made, so the state speaks of    *)
(* one thread only, and a Stop that waits was called on it or on one       *)
(* before it.                                                              *)
(***************************************************************************)

GensInOrder ==
  \A g \in Gens : /\ g < m_thread => tpc[g] = "exited"
                  /\ g > m_thread => tpc[g] = "none"

\* A Stop under way has a target.
Stopping == {"hook", "request", "wait", "blocked", "join"}
TargetsExist == \A c \in Callers : pc[c] \in Stopping => target[c] \in 1..m_thread

\* The inductive invariant.
TInv == ThreadTypeOK /\ GensInOrder /\ TargetsExist /\ StoppedMeansOver

\* A thread between its creation and its exit is the one in m_thread.
LEMMA OneThread ==
  ASSUME TInv, NEW g \in Gens, tpc[g] \notin {"none", "exited"}
  PROVE  g = m_thread /\ \A h \in Gens \ {g} : tpc[h] \notin Live
<1>1. m_thread \in Nat /\ g \in Nat /\ \A h \in Gens : h \in Nat
  BY ThreadAssumption DEF TInv, ThreadTypeOK, Gens
<1>2. g = m_thread
  BY <1>1 DEF TInv, GensInOrder
<1>3. \A h \in Gens \ {g} : h < m_thread \/ h > m_thread
  BY <1>1, <1>2
<1> QED BY <1>2, <1>3 DEF TInv, GensInOrder, Live

\* There is a thread to stop unless the state is STOPPED.
LEMMA SomeThread ==
  ASSUME TInv, m_state # "STOPPED"
  PROVE  m_thread \in 1..MaxGen
<1>1. PICK g \in Gens : tpc[g] \in Live
  BY DEF TInv, StoppedMeansOver
<1>2. g = m_thread
  BY <1>1, OneThread DEF Live
<1> QED BY <1>2 DEF Gens

LEMMA ThreadInitially == ThreadInit => TInv
<1> SUFFICES ASSUME ThreadInit PROVE TInv
  OBVIOUS
<1>1. ThreadTypeOK
  BY ThreadAssumption DEF ThreadInit, ThreadTypeOK
<1>2. GensInOrder
  BY DEF ThreadInit, GensInOrder, Gens
<1>3. TargetsExist /\ StoppedMeansOver
  BY DEF ThreadInit, TargetsExist, Stopping, StoppedMeansOver, Live
<1> QED BY <1>1, <1>2, <1>3 DEF TInv

-----------------------------------------------------------------------------
\* The callers

LEMMA StartSteps == ASSUME NEW c \in Callers PROVE TInv /\ StartStep(c) => TInv'
<1> SUFFICES ASSUME TInv, StartStep(c) PROVE TInv'
  OBVIOUS
<1>1. CASE StartRefused(c) \/ StartFailed(c)
  <2>1. UNCHANGED <<threadVars, pc, target>>
    BY <1>1 DEF StartRefused, StartFailed
  <2>2. mine' \in [Callers -> 0..MaxGen] /\ ret' \in [Callers -> {"none", "true", "false"}]
    BY <1>1, ThreadAssumption DEF StartRefused, StartFailed, TInv, ThreadTypeOK
  <2> QED
    BY <2>1, <2>2 DEF TInv, ThreadTypeOK, GensInOrder, TargetsExist, StoppedMeansOver, threadVars
<1>2. CASE StartCreate(c)
  <2>1. m_thread \in Nat /\ m_thread + 1 \in Gens /\ m_thread' = m_thread + 1
    BY <1>2, ThreadAssumption DEF TInv, ThreadTypeOK, StartCreate, Gens
  <2>2. ThreadTypeOK'
    BY <1>2, <2>1 DEF TInv, ThreadTypeOK, StartCreate, Gens, Live
  <2>3. GensInOrder'
    <3> SUFFICES ASSUME NEW g \in Gens
                 PROVE  /\ g < m_thread + 1 => tpc'[g] = "exited"
                        /\ g > m_thread + 1 => tpc'[g] = "none"
      BY <2>1 DEF GensInOrder
    <3>1. g \in Nat /\ g # 0
      BY ThreadAssumption DEF Gens
    <3>2. g # m_thread + 1 => tpc'[g] = tpc[g]
      BY <1>2 DEF StartCreate, TInv, ThreadTypeOK
    <3>3. g < m_thread => tpc[g] = "exited"
      BY DEF TInv, GensInOrder
    <3>4. g = m_thread => tpc[g] = "exited"
      BY <1>2, <3>1 DEF StartCreate
    <3>5. g > m_thread => tpc[g] = "none"
      BY DEF TInv, GensInOrder
    <3> QED BY <2>1, <3>1, <3>2, <3>3, <3>4, <3>5
  <2>4. TargetsExist'
    BY <1>2, <2>1 DEF TInv, TargetsExist, StartCreate, ThreadTypeOK, Stopping
  <2>5. StoppedMeansOver'
    BY <1>2, <2>1 DEF StartCreate, StoppedMeansOver, TInv, ThreadTypeOK, Live
  <2> QED BY <2>2, <2>3, <2>4, <2>5 DEF TInv
<1> QED BY <1>1, <1>2 DEF StartStep

LEMMA StopBegins == ASSUME NEW c \in Callers PROVE TInv /\ StopLock(c) => TInv'
<1> SUFFICES ASSUME TInv, StopLock(c) PROVE TInv'
  OBVIOUS
<1>1. m_thread \in 1..MaxGen
  BY SomeThread DEF StopLock
<1>2. ThreadTypeOK'
  BY <1>1 DEF TInv, ThreadTypeOK, StopLock
<1>3. GensInOrder'
  BY DEF TInv, GensInOrder, StopLock
<1>4. TargetsExist'
  BY <1>1 DEF TInv, TargetsExist, ThreadTypeOK, StopLock, Stopping
<1>5. StoppedMeansOver'
  BY DEF TInv, StoppedMeansOver, StopLock
<1> QED BY <1>2, <1>3, <1>4, <1>5 DEF TInv

LEMMA CallSteps == ASSUME NEW c \in Callers PROVE TInv /\ CallStep(c) => TInv'
<1> SUFFICES ASSUME TInv, CallStep(c) PROVE TInv'
  OBVIOUS
<1> USE DEF CallStep, StartReturn, StopHook, StopRequest, StopWait, StopJoin
<1>1. CASE StartReturn(c)
  BY <1>1 DEF TInv, ThreadTypeOK, GensInOrder, TargetsExist, StoppedMeansOver, Stopping, threadVars
<1>2. CASE StopHook(c)
  BY <1>2 DEF TInv, ThreadTypeOK, GensInOrder, TargetsExist, StoppedMeansOver, Stopping
<1>3. CASE StopRequest(c)
  <2>1. m_thread \in Gens
    <3>1. target[c] \in 1..m_thread /\ m_thread \in 0..MaxGen
      BY <1>3 DEF TInv, TargetsExist, ThreadTypeOK, Stopping
    <3> QED BY <3>1, ThreadAssumption DEF Gens
  <2> QED
    BY <1>3, <2>1 DEF TInv, ThreadTypeOK, GensInOrder, TargetsExist, StoppedMeansOver, Stopping
<1>4. CASE StopWait(c)
  BY <1>4 DEF TInv, ThreadTypeOK, GensInOrder, TargetsExist, StoppedMeansOver, Stopping
<1>5. CASE StopJoin(c)
  BY <1>5 DEF TInv, ThreadTypeOK, GensInOrder, TargetsExist, StoppedMeansOver, Stopping
<1> QED BY <1>1, <1>2, <1>3, <1>4, <1>5

-----------------------------------------------------------------------------
\* The thread: the states of its way keep m_thread and the other generations.

LEMMA ThreadSteps ==
  ASSUME NEW g \in Gens
  PROVE  TInv /\ (ThreadStep(g) \/ RunEnds(g)) => TInv'
<1> SUFFICES ASSUME TInv, ThreadStep(g) \/ RunEnds(g) PROVE TInv'
  OBVIOUS
<1> USE DEF ThreadStep, ThreadEnter, ThreadStarted, ThreadStopped, ThreadNotify, RunEnds
<1>1. g = m_thread /\ \A h \in Gens \ {g} : tpc[h] \notin Live
  BY OneThread
<1>2. /\ m_thread' = m_thread
      /\ \A h \in Gens \ {g} : tpc'[h] = tpc[h]
      /\ tpc[g] \in Live \cup {"notify"}
  BY DEF TInv, ThreadTypeOK, callerVars, Live
<1>3. ThreadTypeOK'
  BY DEF TInv, ThreadTypeOK, callerVars, Live
<1>4. GensInOrder'
  <2> SUFFICES ASSUME NEW h \in Gens
               PROVE  /\ h < m_thread => tpc'[h] = "exited"
                      /\ h > m_thread => tpc'[h] = "none"
    BY <1>2 DEF GensInOrder
  <2>1. h = g => ~(h < m_thread) /\ ~(h > m_thread)
    BY <1>1, ThreadAssumption DEF Gens
  <2> QED BY <1>2, <2>1 DEF TInv, GensInOrder
<1>5. TargetsExist'
  BY <1>2 DEF TInv, TargetsExist, callerVars, Stopping
<1>6. StoppedMeansOver'
  <2>1. CASE ThreadStopped(g)
    BY <2>1, <1>1, <1>2 DEF StoppedMeansOver, TInv, ThreadTypeOK, Live
  <2>2. CASE ThreadNotify(g)
    BY <2>2, <1>1, <1>2 DEF StoppedMeansOver, TInv, ThreadTypeOK, Live
  <2>3. CASE ThreadEnter(g) \/ ThreadStarted(g) \/ RunEnds(g)
    <3>1. tpc[g] \in Live /\ tpc'[g] \in Live /\ m_state' # "STOPPED"
      BY <2>3 DEF StoppedMeansOver, TInv, ThreadTypeOK, Live
    <3> QED BY <3>1 DEF StoppedMeansOver
  <2> QED BY <2>1, <2>2, <2>3
<1> QED BY <1>3, <1>4, <1>5, <1>6 DEF TInv

\* A step of a thread or a caller, whenever the body ends
AnyStep ==
  \/ \E c \in Callers : StartStep(c) \/ StopLock(c) \/ CallStep(c)
  \/ \E g \in Gens : ThreadStep(g) \/ RunEnds(g)

LEMMA ThreadInvStep == TInv /\ [AnyStep]_allVars => TInv'
<1> SUFFICES ASSUME TInv, [AnyStep]_allVars PROVE TInv'
  OBVIOUS
<1>1. CASE \E c \in Callers : StartStep(c) \/ StopLock(c) \/ CallStep(c)
  BY <1>1, StartSteps, StopBegins, CallSteps
<1>2. CASE \E g \in Gens : ThreadStep(g) \/ RunEnds(g)
  BY <1>2, ThreadSteps
<1>3. CASE UNCHANGED allVars
  BY <1>3 DEF TInv, ThreadTypeOK, GensInOrder, TargetsExist, StoppedMeansOver,
              allVars, threadVars, callerVars
<1> QED BY <1>1, <1>2, <1>3 DEF AnyStep

\* A Stop returns after a join of the thread in m_thread; its target is that one or
\* one before it.
LEMMA JoinIsEnough ==
  ASSUME TInv, AnyStep, NEW c \in Callers, pc[c] = "join", pc'[c] = "idle"
  PROVE  tpc'[target[c]] = "exited"
<1>1. StopJoin(c)
  <2>1. CASE \E d \in Callers : StartStep(d) \/ StopLock(d) \/ CallStep(d)
    BY <2>1 DEF StartStep, StartRefused, StartFailed, StartCreate, StopLock, CallStep,
                StartReturn, StopHook, StopRequest, StopWait, StopJoin, TInv, ThreadTypeOK
  <2>2. CASE \E g \in Gens : ThreadStep(g) \/ RunEnds(g)
    BY <2>2 DEF ThreadStep, ThreadEnter, ThreadStarted, ThreadStopped, ThreadNotify, RunEnds,
                callerVars, TInv, ThreadTypeOK
  <2> QED BY <2>1, <2>2 DEF AnyStep
<1>2. target[c] \in 1..m_thread /\ m_thread \in 0..MaxGen
  BY DEF TInv, TargetsExist, Stopping, ThreadTypeOK
<1>3. target[c] \in Gens /\ (target[c] = m_thread \/ target[c] < m_thread)
  BY <1>2, ThreadAssumption DEF Gens
<1> QED BY <1>1, <1>3 DEF StopJoin, TInv, GensInOrder

\* STOPPED is the truth about the body, and a Stop that waited returns only when
\* the thread it was called on has exited (runInternal, Stop).
THEOREM StopWaitsForItsThread == ThreadSpec => StopIsSynchronous
<1>1. [ThreadNext]_allVars => [AnyStep]_allVars
  BY DEF ThreadNext, AnyStep
<1>2. ThreadSpec => []TInv
  BY <1>1, ThreadInitially, ThreadInvStep, PTL DEF ThreadSpec
<1>3. TInv => StoppedMeansOver
  BY DEF TInv
<1>4. TInv /\ [ThreadNext]_allVars =>
        [\A c \in Callers : pc[c] = "join" /\ pc'[c] = "idle"
                              => tpc'[target[c]] = "exited"]_allVars
  BY <1>1, JoinIsEnough
<1> QED BY <1>2, <1>3, <1>4, PTL DEF ThreadSpec, StopIsSynchronous

-----------------------------------------------------------------------------
(***************************************************************************)
(* RunLoop.  The invariant of ZmThread carries over: a step of the loop is *)
(* a step of its ZmThread or leaves that alone.  The loop's objects and    *)
(* its flag follow rpc, which is "out" unless a thread is inside Run.      *)
(***************************************************************************)

\* A step of the loop is one of its ZmThread, or changes nothing of it.
LEMMA LoopIsThread == Next => [AnyStep]_allVars
<1> USE DEF AnyStep
<1>1. ASSUME NEW c \in Callers, LoopStep(c) \/ StopStep(c) PROVE [AnyStep]_allVars
  BY <1>1 DEF LoopStep, StopStep, LoopStart, LoopStartReturn, LoopWait, OnStopping,
              DestroyHook, StopRest, CallStep
<1>2. ASSUME NEW g \in Gens, LoopThread(g) PROVE [AnyStep]_allVars
  BY <1>2 DEF LoopThread
<1>3. ASSUME NEW g \in Gens, Run(g) PROVE [AnyStep]_allVars
  BY <1>3 DEF Run, RunOpen, RunCtrl, RunDispatch, RunLooped, RunNotify, RunLeave, RunFlags,
              RunFree, RunFailed, RunReturn
<1>4. ASSUME NEW c \in Callers, LoopEnter(c) \/ ControlExit(c) \/ Stop(c) \/ Destroy(c)
      PROVE  [AnyStep]_allVars
  BY <1>4 DEF LoopEnter, ControlExit, Stop, Destroy
<1> QED BY <1>1, <1>2, <1>3, <1>4 DEF Next, System

-----------------------------------------------------------------------------
Looping == {"loop", "success", "notify", "left"}

\* rpc is at rest unless a thread is inside Run.
RunIsInside == (\A g \in Gens : ~InRun(g)) => rpc = "out"

\* Between the opening of the base and the change of the flags the objects are there;
\* the flag is set within that time only.
OpenWhileLooping ==
  /\ rpc = "opened" => evbase
  /\ rpc \in Looping => evbase /\ eventCtrl
  /\ b_looped => rpc \in Looping

\* The inductive invariant.
RInv == TInv /\ TypeOK /\ RunIsInside /\ OpenWhileLooping

\* Every step but the return of Run leaves a thread inside Run there.
StaysInside == \A g \in Gens : InRun(g) => InRun(g)'

LEMMA CallersStayOutside ==
  ASSUME TInv, NEW c \in Callers, StartStep(c) \/ StopLock(c) \/ CallStep(c)
  PROVE  StaysInside
<1>1. CASE StartCreate(c)
  <2>1. ASSUME NEW g \in Gens, InRun(g) PROVE g # m_thread + 1
    <3>1. g = m_thread /\ g \in Nat
      BY <2>1, OneThread, ThreadAssumption DEF InRun, Gens
    <3> QED BY <3>1
  <2> QED BY <1>1, <2>1 DEF StartCreate, StaysInside, InRun, TInv, ThreadTypeOK
<1>2. CASE ~StartCreate(c)
  <2>1. tpc' = tpc
    BY <1>2 DEF StartStep, StartRefused, StartFailed, StopLock, CallStep, StartReturn,
                StopHook, StopRequest, StopWait, StopJoin, threadVars
  <2> QED BY <2>1 DEF StaysInside, InRun
<1> QED BY <1>1, <1>2

LEMMA ThreadsStayInside ==
  ASSUME TInv, NEW g \in Gens, ThreadStep(g)
  PROVE  StaysInside
BY DEF ThreadStep, ThreadEnter, ThreadStarted, ThreadStopped, ThreadNotify, StaysInside,
       InRun, TInv, ThreadTypeOK

\* _mutex_loop and what waits for _cv_loop
LEMMA NotifyKeepsTypes ==
  ASSUME TypeOK, NotifyOneLooper
  PROVE  /\ lpc' \in [Callers -> {"idle", "start", "started", "blocked", "woken", "dtor"}]
         /\ \A c \in Callers : lpc'[c] \in {"start", "started"} <=> lpc[c] \in {"start", "started"}
BY DEF TypeOK, NotifyOneLooper

-----------------------------------------------------------------------------
\* The calls

LEMMA CallersKeep ==
  ASSUME RInv, TInv', NEW c \in Callers,
         \/ LoopStep(c) \/ StopStep(c)
         \/ LoopEnter(c) \/ ControlExit(c) \/ Stop(c) \/ Destroy(c)
  PROVE  RInv'
<1>1. StaysInside /\ rpc' = rpc /\ b_looped' = b_looped /\ evbase' = evbase
      /\ eventCtrl' = eventCtrl
  <2>1. CASE LoopEnter(c) \/ ControlExit(c) \/ LoopWait(c)
    BY <2>1 DEF LoopEnter, ControlExit, LoopWait, allVars, threadVars, baseVars, StaysInside,
                InRun
  <2>2. CASE LoopStart(c) \/ LoopStartReturn(c) \/ OnStopping(c) \/ DestroyHook(c)
             \/ StopRest(c) \/ Stop(c) \/ Destroy(c)
    <3>1. StartStep(c) \/ StopLock(c) \/ CallStep(c)
      BY <2>2 DEF LoopStart, LoopStartReturn, OnStopping, DestroyHook, StopRest, Stop,
                  Destroy, CallStep
    <3>2. StaysInside
      BY <3>1, CallersStayOutside DEF RInv
    <3> QED BY <2>2, <3>2 DEF LoopStart, LoopStartReturn, OnStopping, DestroyHook, StopRest,
                              Stop, Destroy, loopVars, baseVars
  <2> QED BY <2>1, <2>2 DEF LoopStep, StopStep
<1>2. RunIsInside' /\ OpenWhileLooping'
  BY <1>1 DEF RInv, RunIsInside, OpenWhileLooping, StaysInside
<1>3. TypeOK'
  <2> USE DEF TInv, RInv, TypeOK
  <2>1. CASE LoopEnter(c)
    BY <2>1, ThreadAssumption, LoopAssumption DEF LoopEnter, LoopFree, IdleCaller, baseVars
  <2>2. CASE LoopStart(c)
    BY <2>2 DEF LoopStart, baseVars
  <2>3. CASE LoopWait(c)
    BY <2>3, ThreadAssumption DEF LoopWait, LoopFree, baseVars
  <2>4. CASE LoopStartReturn(c) \/ DestroyHook(c) \/ StopRest(c) \/ Stop(c)
    BY <2>4 DEF LoopStartReturn, DestroyHook, StopRest, Stop, loopVars, baseVars
  <2>5. CASE OnStopping(c) \/ ControlExit(c)
    BY <2>5 DEF OnStopping, ControlExit, Control
  <2>6. CASE Destroy(c)
    BY <2>6 DEF Destroy, IdleCaller, baseVars
  <2> QED BY <2>1, <2>2, <2>3, <2>4, <2>5, <2>6 DEF LoopStep, StopStep
<1> QED BY <1>2, <1>3 DEF RInv

-----------------------------------------------------------------------------
\* The thread

LEMMA ThreadKeeps ==
  ASSUME RInv, TInv', NEW g \in Gens, LoopThread(g)
  PROVE  RInv'
<1>1. StaysInside
  BY ThreadsStayInside DEF LoopThread, RInv
<1>2. UNCHANGED loopVars
  BY DEF LoopThread
<1> QED BY <1>1, <1>2 DEF RInv, RunIsInside, OpenWhileLooping, StaysInside, TypeOK, TInv,
                          loopVars, baseVars

LEMMA RunKeeps ==
  ASSUME RInv, TInv', NEW g \in Gens, Run(g)
  PROVE  RInv'
<1>1. CASE RunReturn(g)
  <2>1. rpc = "done" /\ rpc' = "out" /\ UNCHANGED <<mutex_loop, b_looped, b_run_finished,
                                                    baseVars, lpc, lret>>
    BY <1>1 DEF RunReturn
  <2>2. RunIsInside' /\ OpenWhileLooping'
    BY <2>1 DEF RInv, RunIsInside, OpenWhileLooping, Looping
  <2>3. TypeOK'
    BY <2>1 DEF RInv, TInv, TypeOK, baseVars
  <2> QED BY <2>2, <2>3 DEF RInv
<1>2. CASE ~RunReturn(g)
  <2>1. InRun(g) /\ UNCHANGED allVars
    BY <1>2 DEF Run, RunOpen, RunCtrl, RunDispatch, RunLooped, RunNotify, RunLeave, RunFlags,
                RunFree, RunFailed
  <2>2. RunIsInside'
    BY <2>1 DEF RunIsInside, InRun, allVars, threadVars
  <2>3. OpenWhileLooping'
    <3> USE DEF OpenWhileLooping, Looping, RInv, TypeOK, baseVars
    <3>1. CASE RunOpen(g) \/ RunCtrl(g)
      BY <3>1 DEF RunOpen, RunCtrl
    <3>2. CASE RunDispatch(g)
      BY <3>2 DEF RunDispatch
    <3>3. CASE RunLooped(g) \/ RunNotify(g) \/ RunLeave(g)
      BY <3>3 DEF RunLooped, RunNotify, RunLeave
    <3>4. CASE RunFlags(g) \/ RunFree(g) \/ RunFailed(g)
      BY <3>4 DEF RunFlags, RunFree, RunFailed
    <3> QED BY <1>2, <3>1, <3>2, <3>3, <3>4 DEF Run
  <2>4. TypeOK'
    <3> USE DEF TInv, RInv, TypeOK
    <3>1. CASE RunOpen(g) \/ RunCtrl(g) \/ RunDispatch(g) \/ RunLooped(g) \/ RunLeave(g)
               \/ RunFree(g)
      BY <3>1 DEF RunOpen, RunCtrl, RunDispatch, RunLooped, RunLeave, RunFree, baseVars
    <3>2. CASE RunNotify(g)
      BY <3>2, NotifyKeepsTypes DEF RunNotify, baseVars
    <3>3. CASE RunFlags(g)
      BY <3>3, NotifyKeepsTypes DEF RunFlags, baseVars
    <3>4. CASE RunFailed(g)
      BY <3>4, NotifyKeepsTypes DEF RunFailed, baseVars
    <3> QED BY <1>2, <3>1, <3>2, <3>3, <3>4 DEF Run
  <2> QED BY <2>2, <2>3, <2>4 DEF RInv
<1> QED BY <1>1, <1>2

-----------------------------------------------------------------------------
LEMMA LoopInit == Init => RInv
<1> SUFFICES ASSUME Init PROVE RInv
  OBVIOUS
<1>1. TInv
  BY ThreadInitially DEF Init
<1>2. TypeOK
  BY <1>1, ThreadAssumption DEF Init, TypeOK, TInv
<1> QED BY <1>1, <1>2 DEF Init, RInv, RunIsInside, OpenWhileLooping, Looping

LEMMA LoopInvStep == RInv /\ [Next]_vars => RInv'
<1> SUFFICES ASSUME RInv, [Next]_vars PROVE RInv'
  OBVIOUS
<1>1. CASE UNCHANGED vars
  BY <1>1 DEF RInv, TInv, ThreadTypeOK, GensInOrder, TargetsExist, StoppedMeansOver, TypeOK,
              RunIsInside, OpenWhileLooping, InRun, vars, allVars, threadVars, callerVars,
              loopVars, baseVars
<1>2. CASE Next
  <2>1. TInv'
    BY <1>2, LoopIsThread, ThreadInvStep DEF RInv
  <2> QED BY <1>2, <2>1, CallersKeep, ThreadKeeps, RunKeeps DEF Next, System
<1> QED BY <1>1, <1>2

\* Whoever holds _mutex_loop and reads _b_looped may use the event base and the control
\* event: Run frees them only after it has changed the flag (ZmEvBaseRunLoop::Run).
THEOREM FlagOutlivedByItsBase == Spec => []LoopedMeansOpen
<1>1. RInv => LoopedMeansOpen
  BY DEF RInv, OpenWhileLooping, LoopedMeansOpen
<1> QED BY <1>1, LoopInit, LoopInvStep, PTL DEF Spec

\* A Stop of a running loop returns only when the loop's thread has exited: the loop
\* keeps what ZmThread promises.
THEOREM LoopStopIsSynchronous == Spec => StopIsSynchronous
<1>1. RInv => StoppedMeansOver
  BY DEF RInv, TInv
<1>2. RInv /\ [Next]_vars =>
        [\A c \in Callers : pc[c] = "join" /\ pc'[c] = "idle"
                              => tpc'[target[c]] = "exited"]_allVars
  <2>1. CASE UNCHANGED vars
    BY <2>1 DEF vars
  <2>2. CASE Next
    BY <2>2, LoopIsThread, JoinIsEnough DEF RInv
  <2> QED BY <2>1, <2>2
<1> QED BY <1>1, <1>2, LoopInit, LoopInvStep, PTL DEF Spec, StopIsSynchronous

-----------------------------------------------------------------------------
(***************************************************************************)
(* LoopTimers, for any sets of timers and threads, as long as the timers   *)
(* are used from outside only or from the loop only ("any" is not among    *)
(* Uses).  _mutex_ev alone does not protect the timers: the dispatch never *)
(* takes it.  What does is that an entry goes through "retired" before it  *)
(* is freed, off libevent's queue, and is freed when its callback is not   *)
(* on the stack.                                                           *)
(***************************************************************************)

CallRecords == [kind : Kinds \cup {"none", "add"}, t : Timers \cup {Nobody},
                at : {"idle", "new", "want", "del", "wait"}, onStack : BOOLEAN]

Holds(x) == op[x].at \in {"del", "wait"}

\* Who calls in each use of the timers.
ByMode ==
  /\ use # "any"
  /\ use = "outside" => op[Loop] = NoCall /\ \A t \in OneShots : entry[t] = "new"
  /\ use = "inside" => \A x \in Ext : op[x] = NoCall

\* libevent's current event and the code's _runningTimerId.
OneCallback ==
  /\ disp = "idle" <=> current = Nobody
  /\ running = IF disp = "callback" THEN current ELSE Nobody
  /\ disp = "begin" => op[Loop] = NoCall
  /\ current # Nobody => entry[current] \in {"live", "retired"}

\* What a call under way relies on.
CallShapes ==
  \A x \in Threads :
    \/ op[x] = NoCall
    \/ op[x].kind = "add" /\ op[x].at = "new" /\ op[x].t \in Timers
    \/ op[x].kind \in Kinds /\ op[x].at \in {"want", "del", "wait"} /\ op[x].t \in Timers

CallsFind ==
  \A x \in Threads :
    /\ op[x].kind = "add" => entry[op[x].t] = "live" /\ ev[op[x].t] = "null"
    /\ op[x].kind \in Kinds => ev[op[x].t] # "null"

AddersDiffer ==
  \A x, y \in Threads :
    op[x].kind = "add" /\ op[y].kind = "add" /\ op[x].t = op[y].t => x = y

HoldersFind ==
  \A x \in Threads : Holds(x) =>
    /\ entry[op[x].t] = IF op[x].kind = "remove" THEN "retired" ELSE "live"
    /\ op[x].t \notin retired
    /\ x = Loop => (op[x].onStack <=> running = op[x].t)
    /\ op[x].at = "wait" /\ op[x].kind = "remove" => op[x].t \notin armed

\* The event of an entry.
EventsMade ==
  \A t \in Timers :
    /\ entry[t] = "new" => ev[t] = "null"
    /\ entry[t] = "live" =>
         ev[t] = "ok" \/ (ev[t] = "null" /\ \E x \in Threads : op[x].kind = "add" /\ op[x].t = t)
    /\ entry[t] = "retired" => ev[t] = "ok"
    /\ entry[t] = "gone" <=> ev[t] = "freed"
    /\ t \in known => ev[t] # "null"
    /\ t \in armed => ev[t] = "ok"

\* What waits for its end cannot become due, and what was removed waits or is over.
Lists ==
  /\ \A t \in retired : /\ entry[t] = "retired" /\ t \notin armed
                        /\ use = "outside" => t # current
  /\ \A t \in removed : t \in retired \/ entry[t] = "gone"

ShotsFired ==
  \A t \in OneShots : fires[t] > 0 =>
    t = current \/ (t \notin armed /\ entry[t] \in {"retired", "gone"})

\* The inductive invariant.
TimersInv ==
  /\ NoUseAfterFree /\ ByMode /\ OneCallback /\ CallShapes /\ CallsFind /\ AddersDiffer
  /\ HoldersFind /\ EventsMade /\ Lists /\ ShotsFired

-----------------------------------------------------------------------------
\* The thread that holds _mutex_ev is the only one between lookup and end.
LEMMA OneHolder ==
  ASSUME TimersInv, NEW x \in Threads, Holds(x)
  PROVE  mutex_ev = x /\ \A y \in Threads \ {x} : ~Holds(y)
BY DEF TimersInv, NoUseAfterFree, TimersTypeOK, Holds

LEMMA NoHolder ==
  ASSUME TimersInv, mutex_ev = Nobody
  PROVE  \A y \in Threads : ~Holds(y)
BY TimersAssumption DEF TimersInv, NoUseAfterFree, TimersTypeOK, Holds, Threads

\* Only x's call changes, to c.
Only(x, c) ==
  /\ op' \in [Threads -> CallRecords] /\ op'[x] = c
  /\ \A y \in Threads \ {x} : op'[y] = op[y]

LEMMA Calling ==
  ASSUME TimersTypeOK, NEW x \in Threads, NEW c \in CallRecords, op' = [op EXCEPT ![x] = c]
  PROVE  Only(x, c)
BY DEF TimersTypeOK, CallRecords, Only

LEMMA NoCallFacts ==
  /\ NoCall \in CallRecords /\ NoCall.kind = "none" /\ NoCall.at = "idle"
  /\ "none" \notin Kinds /\ "add" \notin Kinds /\ Kinds = {"stop", "arm", "interval", "remove"}
BY DEF NoCall, CallRecords, Kinds

\* A call ends.
LEMMA Returning ==
  ASSUME TimersTypeOK, NEW x \in Threads, Return(x)
  PROVE  Only(x, NoCall)
BY NoCallFacts, Calling DEF Return

LEMMA TimersInitially == "any" \notin Uses /\ TimersInit => TimersInv
<1> SUFFICES ASSUME "any" \notin Uses, TimersInit PROVE TimersInv
  OBVIOUS
<1> USE TimersAssumption, NoCallFacts DEF TimersInit
<1>1. TimersTypeOK
  <2>1. op \in [Threads -> CallRecords] /\ \A x \in Threads : op[x].at = "idle"
    OBVIOUS
  <2>2. fires \in [Timers -> 0..2]
    OBVIOUS
  <2>3. \A x \in Threads : mutex_ev = x <=> op[x].at \in {"del", "wait"}
    BY <2>1 DEF Threads
  <2> QED BY <2>1, <2>2, <2>3 DEF TimersTypeOK, CallRecords
<1>2. ~bad /\ RetiredIsFreedLater /\ OneShotFiresOnce
  BY DEF RetiredIsFreedLater, OneShotFiresOnce
<1>3. ByMode
  BY DEF ByMode, Threads
<1>4. OneCallback /\ Lists /\ ShotsFired
  BY DEF OneCallback, Lists, ShotsFired
<1>5. CallShapes /\ CallsFind /\ AddersDiffer /\ HoldersFind /\ EventsMade
  BY DEF CallShapes, CallsFind, AddersDiffer, HoldersFind, EventsMade, Holds
<1> QED BY <1>1, <1>2, <1>3, <1>4, <1>5 DEF TimersInv, NoUseAfterFree

LEMMA AddRegisterStep ==
  ASSUME TimersInv, NEW x \in Threads, NEW t \in Timers, AddRegister(x, t)
  PROVE  TimersInv'
<1> USE NoCallFacts DEF TimersInv, NoUseAfterFree
<1> DEFINE c == [NoCall EXCEPT !.kind = "add", !.t = t, !.at = "new"]
<1>0. c \in CallRecords /\ c.kind = "add" /\ c.t = t /\ c.at = "new"
  BY DEF CallRecords
<1> HIDE DEF c
<1>1. op[x] = NoCall /\ Only(x, c) /\ c \in CallRecords /\ c.kind = "add" /\ c.t = t /\ c.at = "new"
  BY <1>0, Calling DEF AddRegister, MayCall, c
<1>2. /\ entry' = [entry EXCEPT ![t] = "live"] /\ entry[t] = "new"
      /\ entry \in [Timers -> {"new", "live", "retired", "gone"}]
      /\ use = "outside" => x # Loop /\ t \notin OneShots
      /\ use = "inside" => x = Loop
      /\ x = Loop => disp \in {"idle", "callback"}
      /\ UNCHANGED <<use, ev, armed, retired, running, current, disp, mutex_ev, known,
                     removed, fires, bad>>
  BY DEF AddRegister, MayCall, TimersTypeOK, Threads
<1>3. ev[t] = "null" /\ t \notin armed \cup retired \cup known \cup removed /\ t # current
  <2>1. ev[t] = "null"
    BY <1>2 DEF EventsMade
  <2>2. t \notin armed /\ t \notin known
    BY <2>1 DEF EventsMade
  <2>3. t \notin retired /\ t \notin removed
    BY <1>2 DEF Lists
  <2>4. t # current
    BY <1>2, TimersAssumption DEF OneCallback
  <2> QED BY <2>1, <2>2, <2>3, <2>4
<1>4. TimersTypeOK'
  <2>1. entry' \in [Timers -> {"new", "live", "retired", "gone"}]
    BY <1>2
  <2>2. \A y \in Threads : mutex_ev = y <=> op'[y].at \in {"del", "wait"}
    BY <1>1 DEF TimersTypeOK, Only
  <2> QED BY <1>1, <1>2, <2>1, <2>2 DEF TimersTypeOK, Only, CallRecords
<1>5. ~bad' /\ RetiredIsFreedLater' /\ OneShotFiresOnce'
  BY <1>1, <1>2 DEF RetiredIsFreedLater, OneShotFiresOnce, Only
<1>6. ByMode'
  BY <1>1, <1>2, TimersAssumption DEF ByMode, Only, Threads
<1>7. OneCallback'
  BY <1>1, <1>2, <1>3 DEF OneCallback, Only, Threads
<1>8. CallShapes' /\ CallsFind' /\ AddersDiffer'
  BY <1>1, <1>2, <1>3 DEF CallShapes, CallsFind, AddersDiffer, Only
<1>9. HoldersFind'
  BY <1>1, <1>2, <1>3 DEF HoldersFind, Holds, Only
<1>10. EventsMade'
  BY <1>1, <1>2, <1>3 DEF EventsMade, Only
<1>11. Lists' /\ ShotsFired'
  BY <1>1, <1>2, <1>3 DEF Lists, ShotsFired, Only
<1> QED BY <1>4, <1>5, <1>6, <1>7, <1>8, <1>9, <1>10, <1>11

\* A thread that is in a call.
LEMMA InCall ==
  ASSUME TimersInv, NEW x \in Threads, op[x] # NoCall
  PROVE  /\ op[x].t \in Timers /\ op[x] \in CallRecords
         /\ op[x].kind = "add" <=> op[x].at = "new"
         /\ op[x].kind = "add" \/ op[x].kind \in Kinds
         /\ use = "outside" => x # Loop
         /\ use = "inside" => x = Loop
         /\ x = Loop => disp # "begin"
<1> USE DEF TimersInv, NoUseAfterFree
<1>1. op[x].t \in Timers /\ (op[x].kind = "add" <=> op[x].at = "new")
      /\ (op[x].kind = "add" \/ op[x].kind \in Kinds)
  BY NoCallFacts DEF CallShapes
<1>2. op[x] \in CallRecords
  BY DEF TimersTypeOK, CallRecords
<1>3. (use = "outside" => x # Loop) /\ (use = "inside" => x = Loop)
  BY DEF ByMode, Threads
<1>4. x = Loop => disp # "begin"
  BY DEF OneCallback
<1> QED BY <1>1, <1>2, <1>3, <1>4

LEMMA AddArmStep ==
  ASSUME TimersInv, NEW x \in Threads, AddArm(x)
  PROVE  TimersInv'
<1> USE NoCallFacts DEF TimersInv, NoUseAfterFree
<1> DEFINE t == op[x].t
<1>1. op[x] # NoCall /\ op[x].kind = "add" /\ t \in Timers /\ Only(x, NoCall)
  BY InCall, Returning DEF AddArm
<1>2. entry[t] = "live" /\ ev[t] = "null"
  BY <1>1 DEF CallsFind
<1> HIDE DEF t
<1>3. /\ ev' = [ev EXCEPT ![t] = "ok"] /\ armed' = armed \cup {t} /\ known' = known \cup {t}
      /\ UNCHANGED <<use, entry, retired, running, current, disp, mutex_ev, removed, fires>>
  BY DEF AddArm, t
<1>4. \A y \in Threads \ {x} : op[y].kind \in Kinds \cup {"add"} => op[y].t # t
  BY <1>1, <1>2 DEF CallsFind, AddersDiffer, t
<1>5. t \notin retired /\ t \notin removed
  BY <1>2 DEF Lists
<1>6. TimersTypeOK' /\ ~bad'
  <2>1. ev' \in [Timers -> {"null", "ok", "freed"}]
    BY <1>3 DEF TimersTypeOK
  <2>2. \A y \in Threads : mutex_ev = y <=> op'[y].at \in {"del", "wait"}
    BY <1>1, InCall DEF TimersTypeOK, Only
  <2>3. bad' = FALSE
    BY <1>2 DEF AddArm, t
  <2> QED BY <1>1, <1>3, <2>1, <2>2, <2>3 DEF TimersTypeOK, Only, CallRecords
<1>7. RetiredIsFreedLater' /\ OneShotFiresOnce'
  BY <1>1, <1>3 DEF RetiredIsFreedLater, OneShotFiresOnce, Only
<1>8. ByMode' /\ OneCallback'
  BY <1>1, <1>3, TimersAssumption DEF ByMode, OneCallback, Only, Threads
<1>9. CallShapes' /\ CallsFind' /\ AddersDiffer'
  BY <1>1, <1>3, <1>4 DEF CallShapes, CallsFind, AddersDiffer, Only, TimersTypeOK
<1>10. HoldersFind'
  <2>1. \A y \in Threads : Holds(y)' => y # x /\ op'[y] = op[y] /\ Holds(y) /\ op[y].t # t
    BY <1>1, <1>4 DEF Only, Holds, CallShapes
  <2> QED BY <1>3, <2>1 DEF HoldersFind
<1>11. EventsMade'
  <2>1. \A u \in Timers \ {t} : ev'[u] = ev[u]
    BY <1>3 DEF TimersTypeOK
  <2>2. ev'[t] = "ok"
    BY <1>1, <1>3 DEF TimersTypeOK
  <2> QED BY <1>1, <1>2, <1>3, <1>4, <2>1, <2>2 DEF EventsMade, Only, t
<1>12. Lists' /\ ShotsFired'
  BY <1>2, <1>3, <1>5 DEF Lists, ShotsFired
<1> QED BY <1>6, <1>7, <1>8, <1>9, <1>10, <1>11, <1>12

LEMMA CallStarts ==
  ASSUME TimersInv, NEW x \in Threads, NEW k \in Kinds, NEW t \in Timers, Call(x, k, t)
  PROVE  TimersInv'
<1> USE NoCallFacts DEF TimersInv, NoUseAfterFree
<1> DEFINE c == [NoCall EXCEPT !.kind = k, !.t = t, !.at = "want"]
<1>0. c \in CallRecords /\ c.kind = k /\ c.t = t /\ c.at = "want"
  BY DEF CallRecords
<1> HIDE DEF c
<1>1. op[x] = NoCall /\ Only(x, c) /\ c \in CallRecords /\ c.kind = k /\ c.t = t /\ c.at = "want"
  BY <1>0, Calling DEF Call, MayCall, c
<1>2. /\ t \in known \/ (use # "outside" /\ entry[t] = "live")
      /\ use = "outside" => x # Loop
      /\ use = "inside" => x = Loop
      /\ x = Loop => disp \in {"idle", "callback"}
      /\ UNCHANGED <<use, entry, ev, armed, retired, running, current, disp, mutex_ev,
                     known, removed, fires, bad>>
  BY DEF Call, MayCall, Threads
<1>3. ev[t] # "null"
  <2>1. CASE t \in known
    BY <2>1 DEF EventsMade
  <2>2. CASE use # "outside" /\ entry[t] = "live"
    <3>1. \A y \in Threads : op[y] = NoCall
      BY <1>1, <1>2, <2>2, TimersAssumption DEF ByMode, TimersTypeOK, Threads
    <3> QED BY <2>2, <3>1 DEF EventsMade
  <2> QED BY <1>2, <2>1, <2>2
<1>4. TimersTypeOK'
  <2>1. \A y \in Threads : mutex_ev = y <=> op'[y].at \in {"del", "wait"}
    BY <1>1 DEF TimersTypeOK, Only
  <2> QED BY <1>1, <1>2, <2>1 DEF TimersTypeOK, Only, CallRecords
<1>5. ~bad' /\ RetiredIsFreedLater' /\ OneShotFiresOnce'
  BY <1>1, <1>2 DEF RetiredIsFreedLater, OneShotFiresOnce, Only
<1>6. ByMode' /\ OneCallback'
  BY <1>1, <1>2, TimersAssumption DEF ByMode, OneCallback, Only, Threads
<1>7. CallShapes' /\ CallsFind' /\ AddersDiffer'
  BY <1>1, <1>2, <1>3 DEF CallShapes, CallsFind, AddersDiffer, Only
<1>8. HoldersFind'
  BY <1>1, <1>2 DEF HoldersFind, Holds, Only
<1>9. EventsMade'
  BY <1>1, <1>2 DEF EventsMade, Only
<1>10. Lists' /\ ShotsFired'
  BY <1>2 DEF Lists, ShotsFired
<1> QED BY <1>4, <1>5, <1>6, <1>7, <1>8, <1>9, <1>10

LEMMA LookupFoundStep ==
  ASSUME TimersInv, NEW x \in Threads, LookupFound(x)
  PROVE  TimersInv'
<1> USE NoCallFacts DEF TimersInv, NoUseAfterFree
<1> DEFINE t == op[x].t
           k == op[x].kind
           c == [op[x] EXCEPT !.at = "del", !.onStack = (running = t)]
<1>1. op[x] # NoCall /\ k \in Kinds /\ t \in Timers /\ op[x] \in CallRecords
  BY InCall DEF LookupFound
<1>2. c \in CallRecords /\ c.kind = k /\ c.t = t /\ c.at = "del" /\ (c.onStack <=> running = t)
  BY <1>1 DEF CallRecords
<1>3. op' = [op EXCEPT ![x] = c]
  BY <1>1 DEF LookupFound, TimersTypeOK, CallRecords
<1> HIDE DEF t, k, c
<1>4. Only(x, c)
  BY <1>2, <1>3, Calling
<1>5. /\ entry[t] = "live" /\ ev[t] = "ok"
      /\ entry' = IF k = "remove" THEN [entry EXCEPT ![t] = "retired"] ELSE entry
      /\ mutex_ev = Nobody /\ mutex_ev' = x
      /\ UNCHANGED <<use, ev, armed, retired, running, current, disp, known, removed, fires, bad>>
  <2>1. entry[t] = "live" /\ ev[t] # "null"
    BY <1>1 DEF LookupFound, Found, t, k, Kinds
  <2>2. ev[t] = "ok"
    BY <1>1, <2>1 DEF EventsMade
  <2> QED BY <2>1, <2>2 DEF LookupFound, t, k
<1>6. \A u \in Timers \ {t} : entry'[u] = entry[u]
  BY <1>1, <1>5 DEF TimersTypeOK
<1>7. entry'[t] = IF k = "remove" THEN "retired" ELSE "live"
  BY <1>1, <1>5 DEF TimersTypeOK
<1>8. t \notin retired /\ t \notin removed /\ (\A y \in Threads : ~Holds(y))
  BY <1>5, NoHolder DEF Lists
<1>9. TimersTypeOK'
  <2>1. entry' \in [Timers -> {"new", "live", "retired", "gone"}]
    BY <1>5 DEF TimersTypeOK
  <2>2. \A y \in Threads : mutex_ev' = y <=> op'[y].at \in {"del", "wait"}
    BY <1>2, <1>4, <1>5, <1>8 DEF Only, Holds
  <2> QED BY <1>4, <1>5, <2>1, <2>2 DEF TimersTypeOK, Only, CallRecords, Threads
<1>10. ~bad' /\ RetiredIsFreedLater' /\ OneShotFiresOnce'
  <2>1. ASSUME NEW u \in Timers, entry'[u] = "retired", u \notin retired PROVE u = t /\ k = "remove"
    BY <1>6, <1>7, <1>8, <2>1 DEF RetiredIsFreedLater, Holds
  <2>2. k = "remove" => op'[x].kind = "remove" /\ op'[x].t = t /\ op'[x].at \in {"del", "wait"}
    BY <1>2, <1>4 DEF Only
  <2> QED BY <1>5, <2>1, <2>2 DEF RetiredIsFreedLater, OneShotFiresOnce
<1>11. ByMode' /\ OneCallback'
  <2>1. ByMode'
    BY <1>1, <1>4, <1>5, <1>6, InCall, TimersAssumption DEF ByMode, Only, Threads
  <2>2. OneCallback'
    BY <1>1, <1>4, <1>5, <1>6, <1>7, InCall, TimersAssumption DEF OneCallback, Only, TimersTypeOK, Threads
  <2> QED BY <2>1, <2>2
<1>12. CallShapes' /\ CallsFind' /\ AddersDiffer'
  BY <1>1, <1>2, <1>4, <1>5, <1>6 DEF CallShapes, CallsFind, AddersDiffer, Only, k, t
<1>13. HoldersFind'
  <2>1. \A y \in Threads : Holds(y)' => y = x
    BY <1>4, <1>8 DEF Only, Holds
  <2> QED BY <1>2, <1>4, <1>5, <1>7, <1>8, <2>1 DEF HoldersFind, Only
<1>14. EventsMade'
  BY <1>1, <1>2, <1>4, <1>5, <1>6, <1>7 DEF EventsMade, Only, k, t
<1>15. Lists' /\ ShotsFired'
  BY <1>5, <1>6, <1>7, <1>8, TimersAssumption DEF Lists, ShotsFired, TimersTypeOK
<1> QED BY <1>9, <1>10, <1>11, <1>12, <1>13, <1>14, <1>15

\* A call that is not RemoveTimer's last step returns and changes nothing else.
LEMMA ReturnKeeps ==
  ASSUME TimersInv, NEW x \in Threads, op[x].kind \in Kinds, Only(x, NoCall),
         ~(Holds(x) /\ op[x].kind = "remove"),
         mutex_ev' = IF Holds(x) THEN Nobody ELSE mutex_ev,
         UNCHANGED <<use, entry, ev, armed, retired, running, current, disp, known, removed,
                     fires, bad>>
  PROVE  TimersInv'
<1> USE NoCallFacts DEF TimersInv, NoUseAfterFree
<1>1. op[x] # NoCall
  OBVIOUS
<1>2. TimersTypeOK'
  <2>1. \A y \in Threads : mutex_ev' = y <=> op'[y].at \in {"del", "wait"}
    BY TimersAssumption, OneHolder DEF TimersTypeOK, Only, Holds, Threads
  <2> QED BY <2>1 DEF TimersTypeOK, Only, CallRecords
<1>3. ~bad' /\ RetiredIsFreedLater' /\ OneShotFiresOnce'
  BY DEF RetiredIsFreedLater, OneShotFiresOnce, Only, Holds
<1>4. ByMode' /\ OneCallback'
  BY <1>1, InCall, TimersAssumption DEF ByMode, OneCallback, Only, Threads
<1>5. CallShapes' /\ CallsFind' /\ AddersDiffer'
  BY DEF CallShapes, CallsFind, AddersDiffer, Only
<1>6. HoldersFind'
  BY DEF HoldersFind, Holds, Only
<1>7. EventsMade'
  BY DEF EventsMade, Only
<1>8. Lists' /\ ShotsFired'
  BY DEF Lists, ShotsFired
<1> QED BY <1>2, <1>3, <1>4, <1>5, <1>6, <1>7, <1>8

LEMMA LookupDoneStep ==
  ASSUME TimersInv, NEW x \in Threads, LookupDone(x)
  PROVE  TimersInv'
<1> USE NoCallFacts DEF TimersInv, NoUseAfterFree
<1>1. op[x] # NoCall /\ op[x].kind \in Kinds /\ ~Holds(x) /\ Only(x, NoCall)
  BY InCall, Returning DEF LookupDone, Holds
<1>2. ~(op[x].kind = "remove" /\ entry[op[x].t] = "live")
  BY <1>1 DEF LookupDone, Found, CallsFind
<1> QED BY <1>1, <1>2, ReturnKeeps DEF LookupDone

LEMMA StopDoneStep ==
  ASSUME TimersInv, NEW x \in Threads, StopDone(x)
  PROVE  TimersInv'
<1> USE NoCallFacts DEF TimersInv, NoUseAfterFree
<1>1. op[x].kind \in Kinds /\ op[x].kind # "remove" /\ Holds(x) /\ Only(x, NoCall)
  BY Returning DEF StopDone, Holds
<1> QED BY <1>1, ReturnKeeps DEF StopDone

LEMMA DelStep ==
  ASSUME TimersInv, NEW x \in Threads, Del(x)
  PROVE  TimersInv'
<1> USE NoCallFacts DEF TimersInv, NoUseAfterFree
<1> DEFINE t == op[x].t
           c == [op[x] EXCEPT !.at = "wait"]
<1>1. op[x] # NoCall /\ op[x].kind \in Kinds /\ t \in Timers /\ op[x] \in CallRecords /\ Holds(x)
  BY InCall DEF Del, Holds
<1>2. /\ c \in CallRecords /\ c.kind = op[x].kind /\ c.t = t /\ c.at = "wait"
      /\ c.onStack = op[x].onStack
  BY <1>1 DEF CallRecords
<1>3. op' = [op EXCEPT ![x] = c]
  BY <1>1 DEF Del, At, TimersTypeOK
<1> HIDE DEF t, c
<1>4. Only(x, c)
  BY <1>2, <1>3, Calling
<1>5. /\ armed' = armed \ {t}
      /\ UNCHANGED <<use, entry, ev, retired, running, current, disp, mutex_ev, known, removed,
                     fires>>
  BY DEF Del, t
<1>6. bad' = FALSE
  <2>1. ev[t] # "freed"
    BY <1>1 DEF HoldersFind, EventsMade, t
  <2> QED BY <2>1 DEF Del, Touched, t
<1>7. TimersTypeOK'
  <2>1. \A y \in Threads : mutex_ev' = y <=> op'[y].at \in {"del", "wait"}
    BY <1>1, <1>2, <1>4, <1>5 DEF TimersTypeOK, Only, Holds
  <2> QED BY <1>4, <1>5, <1>6, <2>1 DEF TimersTypeOK, Only, CallRecords
<1>8. ~bad' /\ RetiredIsFreedLater' /\ OneShotFiresOnce'
  BY <1>1, <1>2, <1>4, <1>5, <1>6 DEF RetiredIsFreedLater, OneShotFiresOnce, Only, Holds, t
<1>9. ByMode' /\ OneCallback'
  BY <1>1, <1>4, <1>5, InCall, TimersAssumption DEF ByMode, OneCallback, Only, Threads
<1>10. CallShapes' /\ CallsFind' /\ AddersDiffer'
  BY <1>1, <1>2, <1>4, <1>5 DEF CallShapes, CallsFind, AddersDiffer, Only, t
<1>11. HoldersFind'
  <2>1. \A y \in Threads : Holds(y)' => y = x
    BY <1>1, <1>4, OneHolder DEF Only, Holds
  <2> QED BY <1>1, <1>2, <1>4, <1>5, <2>1 DEF HoldersFind, Holds, Only, t
<1>12. EventsMade'
  BY <1>1, <1>2, <1>4, <1>5 DEF EventsMade, Only
<1>13. Lists' /\ ShotsFired'
  BY <1>5 DEF Lists, ShotsFired
<1> QED BY <1>7, <1>8, <1>9, <1>10, <1>11, <1>12, <1>13

LEMMA ArmStep ==
  ASSUME TimersInv, NEW x \in Threads, Arm(x)
  PROVE  TimersInv'
<1> USE NoCallFacts DEF TimersInv, NoUseAfterFree
<1> DEFINE t == op[x].t
<1>1. op[x] # NoCall /\ op[x].kind \in Kinds /\ op[x].kind # "remove" /\ t \in Timers /\ Holds(x)
  BY InCall DEF Arm, Holds
<1>2. Only(x, NoCall)
  BY Returning DEF Arm
<1>3. entry[t] = "live" /\ ev[t] = "ok"
  BY <1>1 DEF HoldersFind, EventsMade, CallsFind
<1> HIDE DEF t
<1>4. /\ armed' = armed \cup {t} /\ mutex_ev' = Nobody
      /\ UNCHANGED <<use, entry, ev, retired, running, current, disp, known, removed, fires>>
  BY DEF Arm, t
<1>5. bad' = FALSE
  BY <1>3 DEF Arm, Touched, t
<1>6. t \notin retired /\ \A y \in Threads : ~Holds(y)'
  BY <1>1, <1>2, <1>3, OneHolder DEF Only, Holds, Lists
<1>7. TimersTypeOK'
  <2>1. \A y \in Threads : mutex_ev' = y <=> op'[y].at \in {"del", "wait"}
    BY <1>4, <1>6, TimersAssumption DEF Holds, Threads
  <2> QED BY <1>1, <1>2, <1>4, <1>5, <2>1 DEF TimersTypeOK, Only, CallRecords
<1>8. ~bad' /\ RetiredIsFreedLater' /\ OneShotFiresOnce'
  BY <1>1, <1>2, <1>4, <1>5 DEF RetiredIsFreedLater, OneShotFiresOnce, Only, Holds
<1>9. ByMode' /\ OneCallback'
  BY <1>1, <1>2, <1>4, InCall, TimersAssumption DEF ByMode, OneCallback, Only, Threads
<1>10. CallShapes' /\ CallsFind' /\ AddersDiffer'
  BY <1>2, <1>4 DEF CallShapes, CallsFind, AddersDiffer, Only
<1>11. HoldersFind'
  BY <1>6 DEF HoldersFind
<1>12. EventsMade'
  BY <1>1, <1>2, <1>3, <1>4 DEF EventsMade, Only
<1>13. Lists' /\ ShotsFired'
  BY <1>3, <1>4, <1>6 DEF Lists, ShotsFired
<1> QED BY <1>7, <1>8, <1>9, <1>10, <1>11, <1>12, <1>13

LEMMA RemoveDoneStep ==
  ASSUME TimersInv, NEW x \in Threads, RemoveDone(x)
  PROVE  TimersInv'
<1> USE NoCallFacts DEF TimersInv, NoUseAfterFree
<1> DEFINE t == op[x].t
           freed == ~op[x].onStack
<1>1. op[x] # NoCall /\ op[x].kind = "remove" /\ t \in Timers /\ Holds(x) /\ op[x].at = "wait"
  BY InCall DEF RemoveDone, Holds
<1>2. Only(x, NoCall)
  BY Returning DEF RemoveDone
<1>3. entry[t] = "retired" /\ ev[t] = "ok" /\ t \notin armed /\ t \notin retired
  BY <1>1 DEF HoldersFind, EventsMade
<1>4. (freed => t # current) /\ (use = "outside" => t # current)
  <2>1. CASE x = Loop
    <3>1. disp # "begin" /\ use # "outside" /\ (op[x].onStack <=> running = t)
      BY <1>1, <2>1, InCall DEF HoldersFind
    <3>2. CASE disp = "idle"
      BY <1>1, <3>1, <3>2, TimersAssumption DEF OneCallback
    <3>3. CASE disp = "callback"
      BY <3>1, <3>3 DEF OneCallback
    <3> QED BY <3>1, <3>2, <3>3 DEF TimersTypeOK
  <2>2. CASE x # Loop
    BY <2>2 DEF RemoveDone, DelDone
  <2> QED BY <2>1, <2>2
<1> HIDE DEF t, freed
<1>5. /\ ev' = IF freed THEN [ev EXCEPT ![t] = "freed"] ELSE ev
      /\ entry' = IF freed THEN [entry EXCEPT ![t] = "gone"] ELSE entry
      /\ retired' = IF freed THEN retired ELSE retired \cup {t}
      /\ removed' = removed \cup {t} /\ mutex_ev' = Nobody
      /\ UNCHANGED <<use, armed, running, current, disp, known, fires>>
  BY DEF RemoveDone, t, freed
<1>6. bad' = FALSE
  BY <1>3 DEF RemoveDone, Touched, TimersTypeOK, t
<1>7. /\ \A u \in Timers \ {t} : ev'[u] = ev[u] /\ entry'[u] = entry[u]
      /\ ev'[t] = (IF freed THEN "freed" ELSE "ok")
      /\ entry'[t] = (IF freed THEN "gone" ELSE "retired")
  BY <1>1, <1>3, <1>5 DEF TimersTypeOK
<1>8. \A y \in Threads : ~Holds(y)'
  BY <1>1, <1>2, OneHolder DEF Only, Holds
<1>9. TimersTypeOK'
  <2>1. \A y \in Threads : mutex_ev' = y <=> op'[y].at \in {"del", "wait"}
    BY <1>5, <1>8, TimersAssumption DEF Holds, Threads
  <2>2. /\ ev' \in [Timers -> {"null", "ok", "freed"}]
        /\ entry' \in [Timers -> {"new", "live", "retired", "gone"}]
    BY <1>5 DEF TimersTypeOK
  <2> QED BY <1>1, <1>2, <1>5, <1>6, <2>1, <2>2 DEF TimersTypeOK, Only, CallRecords
<1>10. ~bad' /\ OneShotFiresOnce'
  BY <1>5, <1>6 DEF OneShotFiresOnce
<1>11. RetiredIsFreedLater'
  <2>1. ASSUME NEW u \in Timers, entry'[u] = "retired", u \notin retired'
        PROVE  u # t /\ entry[u] = "retired" /\ u \notin retired
    BY <1>5, <1>7, <2>1
  <2>2. ASSUME NEW u \in Timers, entry'[u] = "retired", u \notin retired'
        PROVE  \E y \in Threads : /\ op'[y].kind = "remove" /\ op'[y].t = u
                                  /\ op'[y].at \in {"del", "wait"}
    <3>1. PICK y \in Threads : op[y].kind = "remove" /\ op[y].t = u /\ op[y].at \in {"del", "wait"}
      BY <2>1, <2>2 DEF RetiredIsFreedLater
    <3>2. y # x
      BY <2>1, <2>2, <3>1 DEF t
    <3> QED BY <1>2, <3>1, <3>2 DEF Only
  <2> QED BY <2>2 DEF RetiredIsFreedLater
<1>12. ByMode' /\ OneCallback'
  <2>1. ByMode'
    BY <1>1, <1>2, <1>3, <1>5, <1>7, InCall, TimersAssumption DEF ByMode, Only, Threads
  <2>2. OneCallback'
    BY <1>1, <1>2, <1>4, <1>5, <1>7, InCall, TimersAssumption DEF OneCallback, Only, Threads, TimersTypeOK
  <2> QED BY <2>1, <2>2
<1>13. CallShapes' /\ CallsFind' /\ AddersDiffer'
  <2>1. \A y \in Threads : op'[y].kind = "add" => op[y] = op'[y] /\ op[y].t # t
    BY <1>2, <1>3 DEF Only, CallsFind
  <2> QED BY <1>2, <1>5, <1>7, <2>1 DEF CallShapes, CallsFind, AddersDiffer, Only
<1>14. HoldersFind'
  BY <1>8 DEF HoldersFind
<1>15. EventsMade'
  BY <1>1, <1>2, <1>3, <1>5, <1>7 DEF EventsMade, Only
<1>16. Lists' /\ ShotsFired'
  BY <1>1, <1>3, <1>4, <1>5, <1>7, TimersAssumption DEF Lists, ShotsFired, TimersTypeOK
<1> QED BY <1>9, <1>10, <1>11, <1>12, <1>13, <1>14, <1>15, <1>16

-----------------------------------------------------------------------------
\* The loop thread's own steps change no call.
LEMMA DispatchStep ==
  ASSUME TimersInv, NEW t \in Timers, Dispatch(t)
  PROVE  TimersInv'
<1> USE NoCallFacts DEF TimersInv, NoUseAfterFree
<1>1. /\ disp = "idle" /\ op[Loop] = NoCall /\ t \in armed
      /\ current' = t /\ disp' = "begin"
      /\ armed' = IF t \in OneShots THEN armed \ {t} ELSE armed
      /\ fires' = [fires EXCEPT ![t] = IF @ < 2 THEN @ + 1 ELSE @]
      /\ UNCHANGED <<use, entry, ev, retired, running, mutex_ev, op, known, removed, bad>>
  BY DEF Dispatch
<1>2. current = Nobody /\ running = Nobody
  BY <1>1 DEF OneCallback
<1>3. ev[t] = "ok" /\ entry[t] \in {"live", "retired"} /\ t \notin retired
  BY <1>1 DEF EventsMade, TimersTypeOK, Lists
<1>4. /\ fires' \in [Timers -> 0..2]
      /\ \A u \in Timers \ {t} : fires'[u] = fires[u]
      /\ fires[t] = 0 => fires'[t] = 1
  BY <1>1 DEF TimersTypeOK
<1>5. t \in OneShots => fires[t] = 0
  <2> SUFFICES ASSUME t \in OneShots, fires[t] # 0 PROVE FALSE
    OBVIOUS
  <2>1. fires[t] > 0
    BY DEF TimersTypeOK
  <2> QED BY <1>1, <1>2, <2>1, TimersAssumption DEF ShotsFired
<1>6. TimersTypeOK' /\ ~bad' /\ RetiredIsFreedLater'
  BY <1>1, <1>4 DEF TimersTypeOK, RetiredIsFreedLater
<1>7. OneShotFiresOnce'
  BY <1>4, <1>5, TimersAssumption DEF OneShotFiresOnce
<1>8. ByMode' /\ OneCallback'
  BY <1>1, <1>2, <1>3, TimersAssumption DEF ByMode, OneCallback
<1>9. CallShapes' /\ CallsFind' /\ AddersDiffer'
  BY <1>1 DEF CallShapes, CallsFind, AddersDiffer
<1>10. HoldersFind'
  BY <1>1 DEF HoldersFind, Holds
<1>11. EventsMade' /\ Lists'
  BY <1>1, <1>3 DEF EventsMade, Lists
<1>12. ShotsFired'
  BY <1>1, <1>2, <1>4, TimersAssumption DEF ShotsFired
<1> QED BY <1>6, <1>7, <1>8, <1>9, <1>10, <1>11, <1>12

LEMMA DispatchBeginStep ==
  ASSUME TimersInv, DispatchBegin
  PROVE  TimersInv'
<1> USE NoCallFacts DEF TimersInv, NoUseAfterFree
<1> DEFINE drained == retired \ {current}
<1>1. /\ disp = "begin" /\ disp' = "callback" /\ running' = current
      /\ ev' = [r \in Timers |-> IF r \in drained THEN "freed" ELSE ev[r]]
      /\ entry' = [r \in Timers |-> IF r \in drained THEN "gone" ELSE entry[r]]
      /\ armed' = armed \ drained /\ retired' = retired \ drained
      /\ UNCHANGED <<use, current, mutex_ev, op, known, removed, fires>>
  BY DEF DispatchBegin
<1>2. current \in Timers /\ entry[current] \in {"live", "retired"} /\ op[Loop] = NoCall
  BY <1>1 DEF OneCallback, TimersTypeOK
<1>3. \A r \in drained : r \in Timers /\ entry[r] = "retired" /\ ev[r] = "ok" /\ r \notin armed
  BY DEF Lists, EventsMade, TimersTypeOK
<1>4. bad' = FALSE
  BY <1>2, <1>3 DEF DispatchBegin, Touched
<1> HIDE DEF drained
<1>5. \A x \in Threads : op[x].kind = "add" \/ Holds(x) => op[x].t \notin drained
  BY <1>3 DEF CallsFind, HoldersFind, drained
<1>6. \A u \in Timers : /\ u \in drained => ev'[u] = "freed" /\ entry'[u] = "gone"
                        /\ u \notin drained => ev'[u] = ev[u] /\ entry'[u] = entry[u]
  BY <1>1
<1>7. TimersTypeOK' /\ ~bad' /\ OneShotFiresOnce'
  BY <1>1, <1>2, <1>4 DEF TimersTypeOK, OneShotFiresOnce
<1>8. RetiredIsFreedLater'
  BY <1>1, <1>6 DEF RetiredIsFreedLater
<1>9. ByMode' /\ OneCallback'
  <2>1. current \notin drained
    BY DEF drained
  <2> QED BY <1>1, <1>2, <1>3, <1>6, <2>1, TimersAssumption DEF ByMode, OneCallback
<1>10. CallShapes' /\ CallsFind' /\ AddersDiffer'
  BY <1>1, <1>5, <1>6 DEF CallShapes, CallsFind, AddersDiffer
<1>11. HoldersFind'
  <2>1. \A x \in Threads : Holds(x) => x # Loop /\ op[x].t \in Timers
    BY <1>2 DEF Holds, CallShapes
  <2> QED BY <1>1, <1>5, <1>6, <2>1 DEF HoldersFind, Holds
<1>12. EventsMade'
  BY <1>1, <1>3, <1>6 DEF EventsMade
<1>13. Lists' /\ ShotsFired'
  BY <1>1, <1>3, <1>6, TimersAssumption DEF Lists, ShotsFired, TimersTypeOK
<1> QED BY <1>7, <1>8, <1>9, <1>10, <1>11, <1>12, <1>13

LEMMA DispatchEndStep ==
  ASSUME TimersInv, DispatchEnd
  PROVE  TimersInv'
<1> USE NoCallFacts DEF TimersInv, NoUseAfterFree
<1> DEFINE shot == current \in OneShots /\ entry[current] = "live"
<1>1. /\ disp = "callback" /\ op[Loop] = NoCall /\ disp' = "idle"
      /\ current \in Timers /\ entry[current] \in {"live", "retired"}
      /\ running' = Nobody /\ current' = Nobody
      /\ UNCHANGED <<use, ev, mutex_ev, op, known, removed, fires>>
  BY DEF DispatchEnd, OneCallback, TimersTypeOK
<1>2. /\ entry' = IF shot THEN [entry EXCEPT ![current] = "retired"] ELSE entry
      /\ armed' = IF shot THEN armed \ {current} ELSE armed
      /\ retired' = IF shot THEN retired \cup {current} ELSE retired
  BY DEF DispatchEnd
<1>3. bad' = FALSE
  BY <1>1 DEF DispatchEnd
\* Only the loop's own calls can be about a one-shot timer.
<1>4. current \in OneShots => use = "inside" /\ \A x \in Threads : op[x] = NoCall
  <2>1. current \in OneShots => use # "outside"
    BY <1>1 DEF ByMode
  <2> QED BY <1>1, <2>1, TimersAssumption DEF ByMode, TimersTypeOK, Threads
<1>5. shot => ev[current] = "ok" /\ current \notin retired /\ current \notin removed
  BY <1>1, <1>4 DEF EventsMade, Lists
<1> HIDE DEF shot
<1>6. /\ \A u \in Timers \ {current} : entry'[u] = entry[u]
      /\ entry'[current] = IF shot THEN "retired" ELSE entry[current]
  BY <1>1, <1>2 DEF TimersTypeOK
<1>7. TimersTypeOK' /\ ~bad' /\ OneShotFiresOnce'
  BY <1>1, <1>2, <1>3 DEF TimersTypeOK, OneShotFiresOnce
<1>8. RetiredIsFreedLater'
  BY <1>1, <1>2, <1>6 DEF RetiredIsFreedLater
<1>9. ByMode' /\ OneCallback'
  BY <1>1, <1>4, <1>6, TimersAssumption DEF ByMode, OneCallback, shot
<1>10. CallShapes' /\ CallsFind' /\ AddersDiffer'
  BY <1>1, <1>4, <1>6 DEF CallShapes, CallsFind, AddersDiffer, shot
<1>11. HoldersFind'
  <2>1. CASE shot
    BY <1>1, <1>4, <2>1 DEF HoldersFind, Holds, shot
  <2>2. CASE ~shot
    <3>1. \A x \in Threads : Holds(x) => x # Loop
      BY <1>1 DEF Holds
    <3> QED BY <1>1, <1>2, <2>2, <3>1 DEF HoldersFind, Holds
  <2> QED BY <2>1, <2>2
<1>12. EventsMade'
  BY <1>1, <1>2, <1>5, <1>6 DEF EventsMade
<1>13. Lists'
  BY <1>1, <1>2, <1>4, <1>5, <1>6, TimersAssumption DEF Lists, TimersTypeOK, shot
<1>14. ShotsFired'
  <2>1. ASSUME NEW t \in OneShots, fires[t] > 0, t # current
        PROVE  t \notin armed' /\ entry'[t] \in {"retired", "gone"}
    BY <1>2, <1>6, <2>1, TimersAssumption DEF ShotsFired
  <2>2. CASE shot
    BY <1>1, <1>2, <1>6, <2>1, <2>2 DEF ShotsFired
  <2>3. CASE ~shot /\ current \in OneShots
    <3>1. entry[current] = "retired" /\ current \in retired
      BY <1>1, <1>4, <2>3 DEF RetiredIsFreedLater, shot
    <3> QED BY <1>1, <1>2, <1>6, <2>1, <2>3, <3>1 DEF ShotsFired, Lists
  <2>4. CASE current \notin OneShots
    BY <1>1, <2>1, <2>4 DEF ShotsFired
  <2> QED BY <2>2, <2>3, <2>4 DEF shot
<1> QED BY <1>7, <1>8, <1>9, <1>10, <1>11, <1>12, <1>13, <1>14

-----------------------------------------------------------------------------
LEMMA TimersInvStep == TimersInv /\ [TimersNext]_timerVars => TimersInv'
<1> SUFFICES ASSUME TimersInv, [TimersNext]_timerVars PROVE TimersInv'
  OBVIOUS
<1>1. CASE Begin
  BY <1>1, AddRegisterStep, CallStarts DEF Begin
<1>2. ASSUME NEW x \in Threads, TimerCallStep(x) PROVE TimersInv'
  BY <1>2, AddArmStep, LookupFoundStep, LookupDoneStep, DelStep, StopDoneStep, ArmStep,
     RemoveDoneStep DEF TimerCallStep
<1>3. ASSUME NEW t \in Timers, Dispatch(t) PROVE TimersInv'
  BY <1>3, DispatchStep
<1>4. CASE DispatchBegin \/ DispatchEnd
  BY <1>4, DispatchBeginStep, DispatchEndStep
<1>5. CASE UNCHANGED timerVars
  <2> USE <1>5 DEF timerVars, TimersInv, NoUseAfterFree
  <2>1. TimersTypeOK' /\ ~bad' /\ RetiredIsFreedLater' /\ OneShotFiresOnce'
    BY DEF TimersTypeOK, RetiredIsFreedLater, OneShotFiresOnce
  <2>2. ByMode' /\ OneCallback' /\ CallShapes' /\ CallsFind' /\ AddersDiffer'
    BY DEF ByMode, OneCallback, CallShapes, CallsFind, AddersDiffer
  <2>3. HoldersFind' /\ EventsMade' /\ Lists' /\ ShotsFired'
    BY DEF HoldersFind, Holds, EventsMade, Lists, ShotsFired
  <2> QED BY <2>1, <2>2, <2>3
<1> QED BY <1>1, <1>2, <1>3, <1>4, <1>5 DEF TimersNext

\* No event or entry is touched after it was freed, none is leaked, and a one-shot
\* timer fires once (RemoveTimer, drainRetiredLocked, OnTimerDispatchCB).
THEOREM TimersAreMemorySafe ==
  ASSUME "any" \notin Uses
  PROVE  TimersSpec => []NoUseAfterFree
<1>1. TimersInv => NoUseAfterFree
  BY DEF TimersInv
<1> QED BY <1>1, TimersInitially, TimersInvStep, PTL DEF TimersSpec

-----------------------------------------------------------------------------
\* A dispatched timer was armed, and what was removed is not.
LEMMA NeverFiresStep ==
  ASSUME TimersInv, [TimersNext]_timerVars, NEW t \in Timers, current' = t, current # t
  PROVE  t \notin removed
<1> USE DEF TimersInv, NoUseAfterFree
<1>1. current' # Nobody /\ current' # current
  BY TimersAssumption
<1>2. /\ ~Begin /\ \A x \in Threads : ~TimerCallStep(x)
      /\ ~DispatchBegin /\ ~DispatchEnd /\ ~UNCHANGED timerVars
  BY <1>1 DEF Begin, AddRegister, Call, TimerCallStep, AddArm, LookupFound, LookupDone, Del,
              StopDone, Arm, RemoveDone, DispatchBegin, DispatchEnd, timerVars
<1>3. t \in armed
  BY <1>2 DEF TimersNext, Dispatch
<1> QED BY <1>3 DEF Lists, EventsMade

LEMMA NotRunningStep ==
  ASSUME TimersInv, [TimersNext]_timerVars, NEW x \in Ext, op[x].kind = "remove", op'[x] = NoCall
  PROVE  current' # op[x].t
<1> USE NoCallFacts DEF TimersInv, NoUseAfterFree
<1> DEFINE t == op[x].t
<1>1. x \in Threads /\ op[x] # NoCall /\ t \in Timers /\ use = "outside" /\ x # Loop
  BY InCall, TimersAssumption DEF Threads, ByMode, TimersTypeOK
<1>2. LookupDone(x) \/ RemoveDone(x)
  <2>1. ASSUME NEW y \in Threads \ {x} PROVE ~TimerCallStep(y)
    <3>1. ASSUME NEW e, op' = [op EXCEPT ![y] = e] PROVE FALSE
      BY <1>1, <3>1 DEF TimersTypeOK
    <3>2. ~(AddArm(y) \/ LookupDone(y) \/ StopDone(y) \/ Arm(y) \/ RemoveDone(y))
      BY <3>1 DEF AddArm, LookupDone, StopDone, Arm, RemoveDone, Return
    <3>3. ~(LookupFound(y) \/ Del(y))
      BY <1>1 DEF LookupFound, Del, At, TimersTypeOK
    <3> QED BY <3>2, <3>3 DEF TimerCallStep
  <2>2. ASSUME NEW y \in Threads \ {x}, NEW u \in Timers
        PROVE  ~AddRegister(y, u) /\ \A k \in Kinds : ~Call(y, k, u)
    <3>1. ASSUME NEW e, op' = [op EXCEPT ![y] = e] PROVE FALSE
      BY <1>1, <3>1 DEF TimersTypeOK
    <3> QED BY <3>1 DEF AddRegister, Call
  <2>3. \A u \in Timers : ~AddRegister(x, u) /\ \A k \in Kinds : ~Call(x, k, u)
    BY <1>1 DEF AddRegister, Call, MayCall
  <2>4. ~AddArm(x) /\ ~StopDone(x) /\ ~Arm(x)
    BY DEF AddArm, StopDone, Arm
  <2>5. ~LookupFound(x) /\ ~Del(x)
    <3>1. op'[x].at = "idle"
      OBVIOUS
    <3> QED BY <1>1, <3>1 DEF LookupFound, Del, At, TimersTypeOK
  <2>6. op' # op
    BY <1>1
  <2>7. \A u \in Timers : ~Dispatch(u)
    BY <2>6 DEF Dispatch
  <2>8. ~DispatchBegin /\ ~DispatchEnd /\ ~UNCHANGED timerVars
    BY <2>6 DEF DispatchBegin, DispatchEnd, timerVars
  <2> QED BY <1>1, <2>1, <2>2, <2>3, <2>4, <2>5, <2>7, <2>8 DEF TimersNext, Begin, TimerCallStep
<1>3. CASE RemoveDone(x)
  BY <1>1, <1>3 DEF RemoveDone, DelDone
<1>4. CASE LookupDone(x)
  <2>1. entry[t] # "live" /\ entry[t] # "new" /\ current' = current
    BY <1>1, <1>4 DEF LookupDone, Found, CallsFind, EventsMade
  <2>2. CASE entry[t] = "retired"
    <3>1. t \in retired
      BY <1>1, <1>4, <2>2, NoHolder DEF LookupDone, RetiredIsFreedLater, Holds
    <3> QED BY <1>1, <2>1, <3>1 DEF Lists
  <2>3. CASE entry[t] = "gone"
    BY <1>1, <2>1, <2>3, TimersAssumption DEF OneCallback
  <2> QED BY <1>1, <2>1, <2>2, <2>3 DEF TimersTypeOK
<1> QED BY <1>2, <1>3, <1>4

\* Once RemoveTimer has returned the callback does not start any more, and it is not
\* running either when another thread than the loop's removed the timer.
THEOREM RemoveIsFinal ==
  ASSUME "any" \notin Uses
  PROVE  TimersSpec => RemovedIsOver
<1>1. TimersInv /\ [TimersNext]_timerVars =>
        [\A t \in Timers : current' = t /\ current # t => t \notin removed]_timerVars
  BY NeverFiresStep
<1>2. TimersInv /\ [TimersNext]_timerVars =>
        [\A x \in Ext : op[x].kind = "remove" /\ op'[x] = NoCall => current' # op[x].t]_timerVars
  BY NotRunningStep
<1> QED BY <1>1, <1>2, TimersInitially, TimersInvStep, PTL
           DEF TimersSpec, RemovedIsOver, RemovedNeverFires, RemovedIsNotRunning
=============================================================================
