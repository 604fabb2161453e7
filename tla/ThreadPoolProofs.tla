-------------------------- MODULE ThreadPoolProofs --------------------------
(***************************************************************************)
(* Theorems about ThreadPool, for any finite sets of workers and callers   *)
(* and any set of tasks and delays.                                        *)
(***************************************************************************)
EXTENDS ThreadPool, FiniteSetTheorems, SequenceTheorems, TLAPS

WorkerStates == {"none", "start", "checked", "asleep", "notified", "run",
                 "exited"}

(***************************************************************************)
(* Types and the idle count.  m_idleCount is unsigned in the code: that it *)
(* never goes below zero is a consequence of IdleAccounting, and that only *)
(* tasks count as done one of TaskHeld, so the three are one invariant.    *)
(***************************************************************************)
TaskHeld == \A w \in Workers : task[w] # NoTask <=> wpc[w] = "run"

TypeInv == Types /\ IdleAccounting /\ TaskHeld

\* The idle workers are finite in number, and a worker inside the wait is
\* counted.
LEMMA IdleFinite ==
  /\ IsFiniteSet(Idle) /\ Cardinality(Idle) \in Nat
  /\ \A w \in Idle : Cardinality(Idle) > 0
<1>1. IsFiniteSet(Idle)
  BY PoolAssumption, FS_Subset DEF Idle
<1> QED BY <1>1, FS_CardinalityType, FS_EmptySet

\* Growing starts one new worker or none, and leaves the others alone.
LEMMA GrowType ==
  ASSUME Types, Grow
  PROVE  /\ wpc' \in [Workers -> WorkerStates]
         /\ \A w \in Workers :
              \/ wpc'[w] = wpc[w]
              \/ wpc[w] = "none" /\ wpc'[w] = "start"
<1> USE DEF Types, WorkerStates
<1>1. CASE wpc' = wpc
  BY <1>1
<1>2. ASSUME NEW v \in Workers \ m_workers, wpc' = [wpc EXCEPT ![v] = "start"]
      PROVE  /\ wpc' \in [Workers -> WorkerStates]
             /\ \A w \in Workers :
                  \/ wpc'[w] = wpc[w]
                  \/ wpc[w] = "none" /\ wpc'[w] = "start"
  BY <1>2 DEF m_workers
<1> QED BY <1>1, <1>2 DEF Grow

\* Types are kept, given that the idle count is accurate.
LEMMA TypeStep == TypeInv /\ [Next]_vars => Types'
<1> SUFFICES ASSUME TypeInv, [Next]_vars PROVE Types'
  OBVIOUS
<1>a. Types /\ IdleAccounting /\ TaskHeld
  BY DEF TypeInv
<1> USE <1>a DEF Types, history, workerVars, timerVars, callVars
<1>1. ASSUME NEW x \in Callers \cup Workers, NEW t \in Tasks, SubmitNow(x, t)
      PROVE  Types'
  <2>1. Grow /\ x \in Threads
    BY <1>1 DEF SubmitNow, submitImmediate, Threads
  <2>2. wpc' \in [Workers -> WorkerStates]
    BY <2>1, GrowType
  <2> QED BY <1>1, <2>1, <2>2 DEF SubmitNow, submitImmediate, WorkerStates
<1>2. ASSUME NEW x \in Callers \cup Workers, NEW t \in Tasks,
             NEW delayMs \in Delays, SubmitDelayed(x, t, delayMs)
      PROVE  Types'
  BY <1>2, PoolAssumption DEF SubmitDelayed, Threads
<1>3. ASSUME NEW x \in Callers \cup Workers, NEW t \in Tasks, Cancel(x, t)
      PROVE  Types'
  BY <1>3 DEF Cancel
<1>4. ASSUME NEW c \in Callers,
             \/ WaitIdleCall(c) \/ WaitIdleTimeout(c) \/ WaitIdleStep(c)
      PROVE  Types'
  <2>1. Queued \subseteq Tasks
    BY DEF Queued, InQueue, InWorker
  <2> QED BY <1>4, <2>1 DEF WaitIdleCall, WaitIdleTimeout, WaitIdleStep,
                       WaitIdleWake, WaitIdleReturn
<1>5. ASSUME NEW x \in Threads, NotifyTask(x) PROVE Types'
  BY <1>5 DEF NotifyTask, Asleep
<1>6. ASSUME NEW x \in Threads, NotifyDelay(x) PROVE Types'
  BY <1>6 DEF NotifyDelay
<1>7. CASE Tick
  BY <1>7 DEF Tick
<1>8. CASE TimerStep
  <2>1. CASE TimerCheck
    BY <2>1 DEF TimerCheck, NoTimeout
  <2>2. CASE TimerBlock \/ TimerTimeout \/ TimerLoop \/ TimerExit
    BY <2>2 DEF TimerBlock, TimerTimeout, TimerLoop, TimerExit
  <2>3. CASE TimerCollect
    BY <2>3 DEF TimerCollect, Due
  <2>4. ASSUME NEW t \in Tasks, TimerSubmit(t) PROVE Types'
    <3>1. wpc' \in [Workers -> WorkerStates]
      BY <2>4, GrowType DEF TimerSubmit, submitImmediate
    <3> QED BY <2>4, <3>1 DEF TimerSubmit, submitImmediate, Threads, WorkerStates
  <2> QED BY <1>8, <2>1, <2>2, <2>3, <2>4 DEF TimerStep
<1>9. ASSUME NEW w \in Workers, WorkerStep(w) PROVE Types'
  <2>a. wpc[w] = "notified" => m_idleCount - 1 \in Nat
    BY IdleFinite DEF Idle, IdleAccounting
  <2> USE DEF TellIdle, WakeIdleWaiters
  <2>1. CASE WorkerEnterTake(w)
    BY <2>1 DEF WorkerEnterTake, Take
  <2>2. CASE WorkerEnterWait(w)
    BY <2>2 DEF WorkerEnterWait
  <2>3. CASE WorkerBlock(w)
    BY <2>3 DEF WorkerBlock
  <2>4. CASE WorkerWakeTake(w)
    BY <2>a, <2>4 DEF WorkerWakeTake, Take
  <2>5. CASE WorkerWakeWait(w)
    BY <2>5 DEF WorkerWakeWait
  <2>6. CASE WorkerExit(w)
    BY <2>a, <2>6 DEF WorkerExit
  <2> QED BY <1>9, <2>1, <2>2, <2>3, <2>4, <2>5, <2>6 DEF WorkerStep
<1>10. ASSUME NEW w \in Workers, WorkerSpurious(w) \/ FinishTask(w)
       PROVE  Types'
  BY <1>10 DEF WorkerSpurious, FinishTask, TaskHeld
<1>11. CASE Destroy \/ DtorStep
  <2>1. CASE NotifyStopTask
    BY <2>1 DEF NotifyStopTask
  <2> QED BY <1>11, <2>1 DEF Destroy, DtorStep, RequestStop, NotifyStopDelay,
                          Join, Threads, m_workers
<1>12. CASE UNCHANGED vars
  BY <1>12 DEF vars
<1> QED BY <1>1, <1>2, <1>3, <1>4, <1>5, <1>6, <1>7, <1>8, <1>9, <1>10,
           <1>11, <1>12 DEF Next, Use, Call, Notify

\* Only the worker that steps joins or leaves the idle ones, and the count
\* follows it.
LEMMA IdleStep == TypeInv /\ [Next]_vars => IdleAccounting'
<1> SUFFICES ASSUME TypeInv, [Next]_vars PROVE IdleAccounting'
  OBVIOUS
<1>a. Types /\ m_idleCount = Cardinality(Idle)
  BY DEF TypeInv, IdleAccounting
<1> USE <1>a DEF IdleAccounting, history, workerVars, timerVars, callVars
<1>same. ASSUME m_idleCount' = m_idleCount,
                \A w \in Workers :
                  \/ wpc'[w] = wpc[w]
                  \/ wpc[w] \in {"none", "start"} /\ wpc'[w] \in {"start", "run", "exited"}
                  \/ wpc[w] = "run" /\ wpc'[w] = "start"
                  \/ /\ wpc[w] \in {"checked", "asleep", "notified"}
                     /\ wpc'[w] \in {"checked", "asleep", "notified"}
         PROVE  IdleAccounting'
  <2>1. Idle' = Idle
    BY <1>same DEF Idle
  <2> QED BY <1>same, <2>1
<1>1. ASSUME NEW x \in Threads, NEW t \in Tasks, submitImmediate(x, t),
             UNCHANGED m_idleCount
      PROVE  IdleAccounting'
  BY <1>1, <1>same, GrowType DEF submitImmediate
<1>2. ASSUME UNCHANGED <<wpc, m_idleCount>> PROVE IdleAccounting'
  BY <1>2, <1>same
<1>3. ASSUME NEW x \in Threads, NotifyTask(x) PROVE IdleAccounting'
  BY <1>3, <1>same DEF NotifyTask, Asleep, Types
<1>4. ASSUME NEW w \in Workers, WorkerStep(w) PROVE IdleAccounting'
  <2>1. CASE WorkerEnterTake(w)
    BY <2>1, <1>same DEF WorkerEnterTake, Take, Types
  <2>2. CASE WorkerEnterWait(w)
    <3>1. Idle' = Idle \cup {w} /\ w \notin Idle
      BY <2>2 DEF WorkerEnterWait, Idle, Types
    <3>2. Cardinality(Idle') = Cardinality(Idle) + 1
      BY <3>1, IdleFinite, FS_AddElement
    <3> QED BY <2>2, <3>2 DEF WorkerEnterWait
  <2>3. CASE WorkerBlock(w) \/ WorkerWakeWait(w)
    BY <2>3, <1>same DEF WorkerBlock, WorkerWakeWait, Types
  <2>4. ASSUME wpc[w] = "notified", m_idleCount' = m_idleCount - 1,
               \/ wpc' = [wpc EXCEPT ![w] = "run"]
               \/ wpc' = [wpc EXCEPT ![w] = "exited"]
        PROVE  IdleAccounting'
    <3>1. Idle' = Idle \ {w} /\ w \in Idle
      BY <2>4 DEF Idle, Types
    <3>2. Cardinality(Idle') = Cardinality(Idle) - 1
      BY <3>1, IdleFinite, FS_RemoveElement
    <3> QED BY <2>4, <3>2
  <2>5. CASE WorkerWakeTake(w)
    BY <2>4, <2>5 DEF WorkerWakeTake, Take
  <2>6. CASE WorkerExit(w)
    BY <2>4, <2>6, <1>same DEF WorkerExit, Types
  <2> QED BY <1>4, <2>1, <2>2, <2>3, <2>5, <2>6 DEF WorkerStep
<1>5. ASSUME NEW w \in Workers, WorkerSpurious(w) \/ FinishTask(w)
      PROVE  IdleAccounting'
  BY <1>5, <1>same DEF WorkerSpurious, FinishTask, Types
<1>6. CASE Call
  BY <1>6, <1>1, <1>2 DEF Call, SubmitNow, SubmitDelayed, Cancel, WaitIdleCall,
                       WaitIdleTimeout, Threads
<1>7. CASE TimerStep
  BY <1>7, <1>1, <1>2 DEF TimerStep, TimerCheck, TimerBlock, TimerTimeout,
                       TimerCollect, TimerSubmit, TimerLoop, TimerExit, Threads
<1>8. CASE Destroy \/ DtorStep
  <2>1. CASE NotifyStopTask
    BY <2>1, <1>same DEF NotifyStopTask, Types
  <2> QED BY <1>8, <2>1, <1>2 DEF Destroy, DtorStep, RequestStop,
                               NotifyStopDelay, Join
<1>9. ASSUME NEW c \in Callers, WaitIdleStep(c) PROVE IdleAccounting'
  BY <1>9, <1>2 DEF WaitIdleStep, WaitIdleWake, WaitIdleReturn
<1> QED BY <1>2, <1>3, <1>4, <1>5, <1>6, <1>7, <1>8, <1>9
        DEF Next, Use, Notify, NotifyDelay, Tick, vars

\* A worker has a task exactly while it runs it.
LEMMA TaskHeldStep == TypeInv /\ [Next]_vars => TaskHeld'
<1> SUFFICES ASSUME TypeInv, [Next]_vars PROVE TaskHeld'
  OBVIOUS
<1>a. Types /\ TaskHeld
  BY DEF TypeInv
<1> USE <1>a, PoolAssumption DEF TaskHeld, Types, history, workerVars,
                                 timerVars, callVars
<1>same. ASSUME task' = task,
                \A w \in Workers :
                  \/ wpc'[w] = wpc[w]
                  \/ wpc'[w] # "run" /\ wpc[w] # "run"
         PROVE  TaskHeld'
  BY <1>same
<1>1. ASSUME NEW x \in Threads, NEW t \in Tasks, submitImmediate(x, t),
             UNCHANGED task
      PROVE  TaskHeld'
  BY <1>1, <1>same, GrowType DEF submitImmediate
<1>2. ASSUME UNCHANGED <<wpc, task>> PROVE TaskHeld'
  BY <1>2
<1>3. ASSUME NEW x \in Threads, NotifyTask(x) PROVE TaskHeld'
  BY <1>3 DEF NotifyTask, Asleep
<1>4. ASSUME NEW w \in Workers, Take(w) PROVE TaskHeld'
  <2>1. Head(m_tasks) \in Tasks
    BY <1>4 DEF Take
  <2> QED BY <1>4, <2>1 DEF Take
<1>5. ASSUME NEW w \in Workers, WorkerStep(w) \/ WorkerSpurious(w) \/ FinishTask(w)
      PROVE  TaskHeld'
  BY <1>5, <1>4 DEF WorkerStep, WorkerEnterTake, WorkerEnterWait, WorkerBlock,
                    WorkerWakeTake, WorkerWakeWait, WorkerExit, WorkerSpurious,
                    FinishTask
<1>6. CASE Call
  BY <1>6, <1>1, <1>2 DEF Call, SubmitNow, SubmitDelayed, Cancel, WaitIdleCall,
                       WaitIdleTimeout, Threads
<1>7. CASE TimerStep
  BY <1>7, <1>1, <1>2 DEF TimerStep, TimerCheck, TimerBlock, TimerTimeout,
                       TimerCollect, TimerSubmit, TimerLoop, TimerExit, Threads
<1>8. CASE Destroy \/ DtorStep
  BY <1>8, <1>same, <1>2 DEF Destroy, DtorStep, RequestStop, NotifyStopDelay,
                          NotifyStopTask, Join
<1>9. ASSUME NEW c \in Callers, WaitIdleStep(c) PROVE TaskHeld'
  BY <1>9, <1>2 DEF WaitIdleStep, WaitIdleWake, WaitIdleReturn
<1> QED BY <1>2, <1>3, <1>5, <1>6, <1>7, <1>8, <1>9
        DEF Next, Use, Notify, NotifyDelay, Tick, vars

LEMMA InitTypeInv == Init => TypeInv
<1> SUFFICES ASSUME Init PROVE TypeInv
  OBVIOUS
<1>1. Types
  BY PoolAssumption DEF Init, Types, Threads, NoTimeout
<1>2. Idle = {}
  BY DEF Init, Idle
<1>3. IdleAccounting
  BY <1>2, FS_EmptySet DEF Init, IdleAccounting
<1>4. TaskHeld
  BY DEF Init, TaskHeld
<1> QED BY <1>1, <1>3, <1>4 DEF TypeInv

\* The types, and the accuracy of m_idleCount, hold in every reachable state.
THEOREM IdleCountAccurate == Spec => []TypeOK
<1>1. TypeInv /\ [Next]_vars => TypeInv'
  BY TypeStep, IdleStep, TaskHeldStep DEF TypeInv
<1>2. TypeInv => TypeOK
  BY DEF TypeInv, TypeOK
<1> QED BY <1>1, <1>2, InitTypeInv, PTL DEF Spec

-----------------------------------------------------------------------------
(***************************************************************************)
(* No wakeup is lost.  A worker that is about to sleep has seen an empty   *)
(* queue and still holds the mutex (CheckedEmpty), so it falls asleep over *)
(* an empty queue; from then on every push comes with its own notify.      *)
(***************************************************************************)
CheckedEmpty == \A w \in Workers : wpc[w] = "checked" => m_tasks = <<>>

WakeInv == NoLostWakeup /\ CheckedEmpty

LEMMA WakersFinite ==
  /\ IsFiniteSet(Notified) /\ IsFiniteSet(TaskNotifiers)
  /\ Cardinality(Notified) \in Nat /\ Cardinality(TaskNotifiers) \in Nat
<1>1. IsFiniteSet(Threads)
  BY PoolAssumption, FS_Union, FS_Singleton DEF Threads
<1>2. IsFiniteSet(Notified) /\ IsFiniteSet(TaskNotifiers)
  BY <1>1, PoolAssumption, FS_Subset DEF Notified, TaskNotifiers
<1> QED BY <1>2, FS_CardinalityType

\* A push comes with a notifier of its own, so the balance is kept.
LEMMA SubmitWake ==
  ASSUME TypeInv, WakeInv, NEW x \in Threads, NEW t \in Tasks,
         submitImmediate(x, t), owes[x] = "none", stop' = stop
  PROVE  WakeInv'
<1>1. /\ m_tasks' = Append(m_tasks, t) /\ m_tasks \in Seq(Tasks)
      /\ owes' = [owes EXCEPT ![x] = "task"]
      /\ owes \in [Threads -> {"none", "task", "delay"}]
      /\ \A w \in Workers : wpc[w] # "checked"
  BY DEF submitImmediate, TypeInv, Types, TaskMutexFree
<1>2. \A w \in Workers : \/ wpc'[w] = wpc[w]
                         \/ wpc[w] = "none" /\ wpc'[w] = "start"
  BY GrowType DEF submitImmediate, TypeInv
<1>3. Asleep' = Asleep /\ Notified' = Notified
  BY <1>2 DEF Asleep, Notified
<1>4. TaskNotifiers' = TaskNotifiers \cup {x} /\ x \notin TaskNotifiers
  BY <1>1 DEF TaskNotifiers
<1>5. Cardinality(TaskNotifiers') = Cardinality(TaskNotifiers) + 1
  BY <1>4, WakersFinite, FS_AddElement
<1>6. Len(m_tasks') = Len(m_tasks) + 1 /\ Len(m_tasks) \in Nat
  BY <1>1
<1>7. CheckedEmpty'
  BY <1>1, <1>2 DEF CheckedEmpty
<1>8. NoLostWakeup'
  BY <1>3, <1>5, <1>6, WakersFinite DEF WakeInv, NoLostWakeup
<1> QED BY <1>7, <1>8 DEF WakeInv

\* notify_one turns a notifier into a woken worker when somebody sleeps.
LEMMA NotifyWake ==
  ASSUME TypeInv, WakeInv, NEW x \in Threads, NotifyTask(x)
  PROVE  WakeInv'
<1> USE DEF TypeInv, Types
<1>1. TaskNotifiers' = TaskNotifiers \ {x} /\ x \in TaskNotifiers
  BY DEF NotifyTask, TaskNotifiers
<1>2. Cardinality(TaskNotifiers') = Cardinality(TaskNotifiers) - 1
  BY <1>1, WakersFinite, FS_RemoveElement
<1>3. CASE Asleep = {}
  BY <1>3 DEF NotifyTask, Asleep, WakeInv, NoLostWakeup, CheckedEmpty, history
<1>4. ASSUME NEW w \in Asleep, wpc' = [wpc EXCEPT ![w] = "notified"]
      PROVE  WakeInv'
  <2>1. Notified' = Notified \cup {w} /\ w \notin Notified
    BY <1>4 DEF Notified, Asleep
  <2>2. Cardinality(Notified') = Cardinality(Notified) + 1
    BY <2>1, WakersFinite, FS_AddElement
  <2>3. m_tasks' = m_tasks /\ stop' = stop /\ Len(m_tasks) \in Nat
    BY DEF NotifyTask
  <2>4. NoLostWakeup'
    BY <1>2, <2>2, <2>3, <1>4, WakersFinite DEF WakeInv, NoLostWakeup
  <2>5. CheckedEmpty'
    BY <1>4, <2>3 DEF WakeInv, CheckedEmpty, Asleep
  <2> QED BY <2>4, <2>5 DEF WakeInv
<1> QED BY <1>3, <1>4 DEF NotifyTask

\* A worker takes at most the task it was woken for.
LEMMA WorkerWake ==
  ASSUME TypeInv, WakeInv, NEW w \in Workers, WorkerStep(w)
  PROVE  WakeInv'
<1> USE DEF TypeInv, Types, history, timerVars, callVars
<1>0. /\ stop' = stop /\ TaskNotifiers' = TaskNotifiers
      /\ m_tasks \in Seq(Tasks) /\ Len(m_tasks) \in Nat
  BY DEF WorkerStep, WorkerEnterTake, WorkerEnterWait, WorkerBlock,
         WorkerWakeTake, WorkerWakeWait, WorkerExit, TaskNotifiers
<1>1. CASE Take(w) /\ wpc[w] \in {"start", "notified"} /\ TaskMutexFree
  <2>1. Len(m_tasks') = Len(m_tasks) - 1
    BY <1>1 DEF Take
  <2>2. Asleep' = Asleep /\ Notified' = Notified \ {w}
    BY <1>1 DEF Take, Asleep, Notified
  <2>3. /\ IsFiniteSet(Notified \ {w})
        /\ Cardinality(Notified \ {w}) \in {Cardinality(Notified) - 1,
                                           Cardinality(Notified)}
    BY WakersFinite, FS_RemoveElement
  <2>4. NoLostWakeup'
    BY <1>0, <2>1, <2>2, <2>3, WakersFinite, FS_CardinalityType
       DEF WakeInv, NoLostWakeup
  <2>5. CheckedEmpty'
    BY <1>1 DEF Take, TaskMutexFree, CheckedEmpty
  <2> QED BY <2>4, <2>5 DEF WakeInv
<1>2. CASE WorkerEnterTake(w) \/ WorkerWakeTake(w)
  BY <1>1, <1>2 DEF WorkerEnterTake, WorkerWakeTake
<1>3. CASE WorkerEnterWait(w) \/ WorkerBlock(w) \/ WorkerWakeWait(w)
  <2>1. m_tasks' = <<>> /\ Len(m_tasks') = 0
    BY <1>3 DEF WorkerEnterWait, WorkerBlock, WorkerWakeWait, WakeInv,
                CheckedEmpty
  <2>2. Cardinality(Notified') \in Nat /\ Cardinality(TaskNotifiers') \in Nat
    <3>1. IsFiniteSet(Notified')
      BY PoolAssumption, FS_Subset DEF Notified
    <3> QED BY <3>1, <1>0, WakersFinite, FS_CardinalityType
  <2> QED BY <2>1, <2>2 DEF WakeInv, NoLostWakeup, CheckedEmpty
<1>4. CASE WorkerExit(w)
  BY <1>4 DEF WorkerExit, WakeInv, NoLostWakeup, CheckedEmpty
<1> QED BY <1>2, <1>3, <1>4 DEF WorkerStep

\* No wakeup of submitImmediate is lost: while the pool is not being destroyed,
\* a worker sleeps only if each queued task has a woken worker or a pending
\* notify of its own.
THEOREM NoWakeupLost == Spec => []NoLostWakeup
<1>1. Init => WakeInv
  BY DEF Init, WakeInv, NoLostWakeup, CheckedEmpty, Asleep
<1>2. TypeInv /\ WakeInv /\ [Next]_vars => WakeInv'
  <2> SUFFICES ASSUME TypeInv, WakeInv, [Next]_vars PROVE WakeInv'
    OBVIOUS
  <2> USE DEF history, timerVars, callVars, workerVars
  <2>1. ASSUME UNCHANGED <<wpc, m_tasks, stop>>, TaskNotifiers' = TaskNotifiers
        PROVE  WakeInv'
    BY <2>1 DEF WakeInv, NoLostWakeup, CheckedEmpty, Asleep, Notified
  <2>2. CASE Call
    <3>1. ASSUME NEW x \in Callers \cup Workers, NEW t \in Tasks,
                 SubmitNow(x, t)
          PROVE  WakeInv'
      BY <3>1, SubmitWake DEF SubmitNow, MayCall, Threads
    <3>2. ASSUME NEW x \in Callers \cup Workers, NEW t \in Tasks,
                 NEW delayMs \in Delays, SubmitDelayed(x, t, delayMs)
          PROVE  WakeInv'
      <4>1. TaskNotifiers' = TaskNotifiers
        BY <3>2 DEF SubmitDelayed, MayCall, TaskNotifiers, Threads, TypeInv,
                    Types
      <4> QED BY <3>2, <4>1, <2>1 DEF SubmitDelayed
    <3> QED BY <2>2, <3>1, <3>2, <2>1 DEF Call, Cancel, WaitIdleCall,
                                 WaitIdleTimeout, TaskNotifiers
  <2>3. ASSUME NEW x \in Threads, NotifyDelay(x) PROVE WakeInv'
    <3>1. TaskNotifiers' = TaskNotifiers
      BY <2>3 DEF NotifyDelay, TaskNotifiers, TypeInv, Types
    <3> QED BY <2>3, <3>1, <2>1 DEF NotifyDelay
  <2>4. CASE TimerStep
    <3>1. ASSUME NEW t \in Tasks, TimerSubmit(t) PROVE WakeInv'
      BY <3>1, SubmitWake DEF TimerSubmit, Threads
    <3> QED BY <2>4, <3>1, <2>1 DEF TimerStep, TimerCheck, TimerBlock,
              TimerTimeout, TimerCollect, TimerLoop, TimerExit, TaskNotifiers
  <2>5. ASSUME NEW w \in Workers, WorkerSpurious(w) PROVE WakeInv'
    <3>1. Notified' = Notified \cup {w} /\ w \notin Notified
      BY <2>5 DEF WorkerSpurious, Notified, TypeInv, Types
    <3>2. Cardinality(Notified') = Cardinality(Notified) + 1
      BY <3>1, WakersFinite, FS_AddElement
    <3>3. TaskNotifiers' = TaskNotifiers /\ Len(m_tasks) \in Nat
          /\ (Asleep' # {} => Asleep # {}) /\ m_tasks' = m_tasks /\ stop' = stop
      BY <2>5 DEF WorkerSpurious, TaskNotifiers, Asleep, TypeInv, Types
    <3>4. NoLostWakeup'
      BY <3>2, <3>3, WakersFinite DEF WakeInv, NoLostWakeup
    <3>5. CheckedEmpty'
      BY <2>5 DEF WorkerSpurious, WakeInv, CheckedEmpty, TypeInv, Types
    <3> QED BY <3>4, <3>5 DEF WakeInv
  <2>6. ASSUME NEW w \in Workers, FinishTask(w) PROVE WakeInv'
    <3>1. Notified' = Notified /\ Asleep' = Asleep
      BY <2>6 DEF FinishTask, Notified, Asleep, TypeInv, Types
    <3> QED BY <2>6, <3>1 DEF FinishTask, WakeInv, NoLostWakeup, CheckedEmpty,
                              TaskNotifiers, TypeInv, Types
  <2>7. CASE Destroy \/ DtorStep
    <3>1. CASE Destroy
      BY <3>1 DEF Destroy, WakeInv, NoLostWakeup, CheckedEmpty
    <3>2. ASSUME NEW w \in Workers, RequestStop(w) PROVE WakeInv'
      BY <3>2 DEF RequestStop, WakeInv, NoLostWakeup, CheckedEmpty
    <3>3. CASE NotifyStopTask
      BY <3>3 DEF NotifyStopTask, WakeInv, NoLostWakeup, CheckedEmpty, Asleep,
                  TypeInv, Types
    <3> QED BY <2>7, <3>1, <3>2, <3>3, <2>1 DEF DtorStep, NotifyStopDelay,
                                          Join, TaskNotifiers
  <2> QED BY <2>1, <2>2, <2>3, <2>4, <2>5, <2>6, <2>7, NotifyWake, WorkerWake
          DEF Next, Use, Notify, Tick, WaitIdleStep, WaitIdleWake,
              WaitIdleReturn, TaskNotifiers, vars
<1>3. TypeInv /\ [Next]_vars => TypeInv'
  BY TypeStep, IdleStep, TaskHeldStep DEF TypeInv
<1>4. WakeInv => NoLostWakeup
  BY DEF WakeInv
<1> QED BY <1>1, <1>2, <1>3, <1>4, InitTypeInv, PTL DEF Spec

-----------------------------------------------------------------------------
(***************************************************************************)
(* WaitIdle.  A task on the way from the queue through a worker to done    *)
(* never leaves these three (Queued only grows); when the queue is empty   *)
(* and every worker counts as idle, the accuracy of the count leaves no    *)
(* place but done.                                                         *)
(***************************************************************************)
DrainInv ==
  /\ \A c \in Callers : snapshot[c] \subseteq Queued
  /\ DrainIsComplete

LEMMA DrainedMeansDone ==
  ASSUME TypeInv, Drained
  PROVE  Queued \subseteq done
<1> USE DEF TypeInv, Types
<1>1. IsFiniteSet(m_workers) /\ Idle \subseteq m_workers
  BY PoolAssumption, FS_Subset DEF m_workers, Idle
<1>2. Cardinality(Idle) = Cardinality(m_workers)
  BY DEF Drained, IdleAccounting
<1>3. Idle = m_workers
  BY <1>1, <1>2, FS_Subset
<1>4. \A w \in Workers : wpc[w] # "run"
  BY <1>3 DEF Idle, m_workers
<1>5. InWorker = {}
  BY <1>4 DEF InWorker, TaskHeld
<1>6. InQueue = {}
  BY DEF Drained, InQueue
<1> QED BY <1>5, <1>6 DEF Queued

\* A push adds to the queue; no task leaves it but towards a worker.
LEMMA PushKeepsQueued ==
  ASSUME TypeInv, NEW x \in Threads, NEW t \in Tasks, submitImmediate(x, t)
  PROVE  InQueue \subseteq InQueue'
BY DEF submitImmediate, InQueue, TypeInv, Types

LEMMA TakeKeepsQueued ==
  ASSUME TypeInv, NEW w \in Workers, Take(w), wpc[w] # "run"
  PROVE  /\ InQueue \subseteq InQueue' \cup InWorker'
         /\ InWorker \subseteq InWorker'
<1> USE DEF TypeInv, Types, Take
<1>0. /\ m_tasks \in Seq(Tasks) /\ m_tasks # <<>>
      /\ task' = [task EXCEPT ![w] = Head(m_tasks)]
      /\ m_tasks' = Tail(m_tasks)
      /\ task \in [Workers -> Tasks \cup {NoTask}]
  OBVIOUS
<1>1. ASSUME NEW i \in 1..Len(m_tasks)
      PROVE  m_tasks[i] \in InQueue' \cup InWorker'
  <2>1. CASE i = 1
    <3>1. task'[w] = m_tasks[i] /\ m_tasks[i] \in Tasks
      BY <1>0, <2>1
    <3> QED BY <3>1, PoolAssumption DEF InWorker
  <2>2. CASE i # 1
    <3>1. i - 1 \in 1..Len(Tail(m_tasks)) /\ Tail(m_tasks)[i - 1] = m_tasks[i]
      BY <1>0, <2>2
    <3>2. InQueue' = {Tail(m_tasks)[k] : k \in 1..Len(Tail(m_tasks))}
      BY <1>0 DEF InQueue
    <3>3. m_tasks[i] \in InQueue'
      <4> HIDE DEF TypeInv, Types, Take
      <4> QED BY <3>1, <3>2, ZenonT(60)
    <3> QED BY <3>3
  <2> QED BY <2>1, <2>2
<1>2. task[w] = NoTask
  BY DEF TaskHeld
<1>3. InWorker \subseteq InWorker'
  BY <1>0, <1>2 DEF InWorker
<1>4. ASSUME NEW t \in InQueue PROVE t \in InQueue' \cup InWorker'
  <2>1. PICK i \in 1..Len(m_tasks) : t = m_tasks[i]
    BY <1>4 DEF InQueue
  <2> QED BY <2>1, <1>1
<1> QED BY <1>3, <1>4

\* Queued never loses a task.
LEMMA QueuedGrows ==
  ASSUME TypeInv, [Next]_vars
  PROVE  Queued \subseteq Queued' /\ done \subseteq done'
<1> USE DEF history, timerVars, callVars, workerVars
<1>1. ASSUME UNCHANGED <<task, done>>, InQueue \subseteq InQueue'
      PROVE  Queued \subseteq Queued' /\ done \subseteq done'
  BY <1>1 DEF Queued, InWorker
<1>2. ASSUME UNCHANGED <<task, done, m_tasks>>
      PROVE  Queued \subseteq Queued' /\ done \subseteq done'
  BY <1>2 DEF Queued, InWorker, InQueue
<1>3. CASE Call
  <2>1. ASSUME NEW x \in Callers \cup Workers, NEW t \in Tasks, SubmitNow(x, t)
        PROVE  Queued \subseteq Queued' /\ done \subseteq done'
    BY <2>1, <1>1, PushKeepsQueued DEF SubmitNow, Threads
  <2> QED BY <1>3, <2>1, <1>2 DEF Call, SubmitDelayed, Cancel, WaitIdleCall,
                               WaitIdleTimeout
<1>4. CASE TimerStep
  <2>1. ASSUME NEW t \in Tasks, TimerSubmit(t)
        PROVE  Queued \subseteq Queued' /\ done \subseteq done'
    BY <2>1, <1>1, PushKeepsQueued DEF TimerSubmit, Threads
  <2> QED BY <1>4, <2>1, <1>2 DEF TimerStep, TimerCheck, TimerBlock,
                            TimerTimeout, TimerCollect, TimerLoop, TimerExit
<1>5. ASSUME NEW w \in Workers, WorkerStep(w)
      PROVE  Queued \subseteq Queued' /\ done \subseteq done'
  <2>1. CASE WorkerEnterTake(w) \/ WorkerWakeTake(w)
    BY <2>1, TakeKeepsQueued DEF WorkerEnterTake, WorkerWakeTake, Queued
  <2> QED BY <1>5, <2>1, <1>2 DEF WorkerStep, WorkerEnterWait, WorkerBlock,
                               WorkerWakeWait, WorkerExit
<1>6. ASSUME NEW w \in Workers, FinishTask(w)
      PROVE  Queued \subseteq Queued' /\ done \subseteq done'
  BY <1>6 DEF FinishTask, Queued, InQueue, InWorker, TypeInv, Types
<1> QED BY <1>2, <1>3, <1>4, <1>5, <1>6
        DEF Next, Use, Notify, NotifyTask, NotifyDelay, Tick, WaitIdleStep,
            WaitIdleWake, WaitIdleReturn, WorkerSpurious, Destroy, DtorStep,
            RequestStop, NotifyStopDelay, NotifyStopTask, Join, vars

\* WaitIdle never says "drained" while an immediate task submitted before the
\* call is still queued or running.
THEOREM DrainIsSafe == Spec => []DrainIsComplete
<1>1. Init => DrainInv
  BY DEF Init, DrainInv, DrainIsComplete
<1>2. TypeInv /\ DrainInv /\ [Next]_vars => DrainInv'
  <2> SUFFICES ASSUME TypeInv, DrainInv, [Next]_vars PROVE DrainInv'
    OBVIOUS
  <2>1. Queued \subseteq Queued' /\ done \subseteq done'
    BY QueuedGrows
  <2>2. ASSUME UNCHANGED snapshot,
               \A c \in Callers : cpc'[c] = "drained" => cpc[c] = "drained"
        PROVE  DrainInv'
    BY <2>1, <2>2 DEF DrainInv, DrainIsComplete
  <2>3. ASSUME NEW c \in Callers,
               \/ WaitIdleCall(c) \/ WaitIdleWake(c) \/ WaitIdleTimeout(c)
        PROVE  DrainInv'
    <3>1. Drained => Queued \subseteq done
      BY DrainedMeansDone
    <3>2. UNCHANGED <<task, m_tasks, done>>
      BY <2>3 DEF WaitIdleCall, WaitIdleWake, WaitIdleTimeout, workerVars,
                  history
    <3>3. Queued' = Queued
      BY <3>2 DEF Queued, InQueue, InWorker
    <3> QED BY <2>3, <3>1, <3>2, <3>3 DEF WaitIdleCall, WaitIdleWake,
              WaitIdleTimeout, DrainInv, DrainIsComplete, TypeInv, Types
  <2>4. ASSUME NEW c \in Callers, WaitIdleReturn(c) PROVE DrainInv'
    BY <2>4, <2>1 DEF WaitIdleReturn, DrainInv, DrainIsComplete, TypeInv, Types
  <2>5. ASSUME NEW w \in Workers, WorkerStep(w) PROVE DrainInv'
    <3>1. cpc' = cpc \/ cpc' = WakeIdleWaiters
      BY <2>5 DEF WorkerStep, WorkerEnterTake, WorkerEnterWait, WorkerBlock,
                  WorkerWakeTake, WorkerWakeWait, WorkerExit, TellIdle, callVars
    <3>2. snapshot' = snapshot
      BY <2>5 DEF WorkerStep, WorkerEnterTake, WorkerEnterWait, WorkerBlock,
                  WorkerWakeTake, WorkerWakeWait, WorkerExit, callVars
    <3> QED BY <3>1, <3>2, <2>2 DEF WakeIdleWaiters
  <2>6. CASE UNCHANGED callVars
    BY <2>6, <2>2 DEF callVars
  <2> QED BY <2>3, <2>4, <2>5, <2>6
          DEF Next, Use, Call, SubmitNow, SubmitDelayed, Cancel, Notify,
              NotifyTask, NotifyDelay, Tick, TimerStep, TimerCheck, TimerBlock,
              TimerTimeout, TimerCollect, TimerSubmit, TimerLoop, TimerExit,
              WaitIdleStep, WorkerSpurious, FinishTask, Destroy, DtorStep,
              RequestStop, NotifyStopDelay, NotifyStopTask, Join, vars
<1>3. TypeInv /\ [Next]_vars => TypeInv'
  BY TypeStep, IdleStep, TaskHeldStep DEF TypeInv
<1>4. DrainInv => DrainIsComplete
  BY DEF DrainInv
<1> QED BY <1>1, <1>2, <1>3, <1>4, InitTypeInv, PTL DEF Spec

-----------------------------------------------------------------------------
(***************************************************************************)
(* No task of ThreadPool is lost or doubled, for any finite sets of        *)
(* workers and callers and any tasks and delays.  Conservation speaks of   *)
(* sets; that a task leaves a place for good when it moves on takes        *)
(* Unique: no place holds a task twice.  RunsCounted ties the executions   *)
(* to the places.                                                          *)
(***************************************************************************)

QueueUnique   == \A i, j \in 1..Len(m_tasks) : m_tasks[i] = m_tasks[j] => i = j
WorkersUnique == \A v, w \in Workers : task[v] = task[w] /\ task[v] # NoTask => v = w
DelayedUnique == \A d, e \in m_delayed : d.task = e.task => d = e
Unique        == QueueUnique /\ WorkersUnique /\ DelayedUnique

RunsCounted == \A t \in Tasks : runs[t] = IF t \in InWorker \cup done THEN 1 ELSE 0

\* The timer's vector is empty outside its hand-over.
HandedOver == tpc # "submit" => expired = {}

AccountInv == Conservation /\ Unique /\ RunsCounted /\ HandedOver

-----------------------------------------------------------------------------
\* What the steps that move a task do to the places it can be in.

LEMMA PushEffect ==
  ASSUME m_tasks \in Seq(Tasks), QueueUnique, NEW t \in Tasks \ InQueue,
         m_tasks' = Append(m_tasks, t)
  PROVE  InQueue' = InQueue \cup {t} /\ QueueUnique'
<1> DEFINE n == Len(m_tasks)
<1>1. /\ n \in Nat /\ Len(m_tasks') = n + 1
      /\ m_tasks'[n + 1] = t /\ \A i \in 1..n : m_tasks'[i] = m_tasks[i]
  OBVIOUS
<1>2. \A i \in 1..n : m_tasks[i] # t
  BY DEF InQueue
<1>3. 1..(n + 1) = (1..n) \cup {n + 1}
  BY <1>1
<1> HIDE DEF n
<1>4. InQueue' = InQueue \cup {t}
  BY <1>1, <1>3 DEF InQueue, n
<1>5. QueueUnique'
  BY <1>1, <1>2, <1>3 DEF QueueUnique, n
<1> QED BY <1>4, <1>5

LEMMA PopEffect ==
  ASSUME m_tasks \in Seq(Tasks), QueueUnique, m_tasks # <<>>, m_tasks' = Tail(m_tasks)
  PROVE  /\ Head(m_tasks) \in InQueue
         /\ InQueue' = InQueue \ {Head(m_tasks)} /\ QueueUnique'
<1> DEFINE n == Len(m_tasks)
<1>1. /\ n \in Nat /\ n >= 1 /\ Len(m_tasks') = n - 1 /\ Head(m_tasks) = m_tasks[1]
      /\ \A i \in 1..(n - 1) : m_tasks'[i] = m_tasks[i + 1]
  OBVIOUS
<1> HIDE DEF n
<1>2. \A i \in 1..(n - 1) : i + 1 \in 1..n /\ i + 1 # 1
  BY <1>1
<1>3. \A j \in 1..n : j = 1 \/ (j - 1 \in 1..(n - 1) /\ (j - 1) + 1 = j)
  BY <1>1
<1>4. 1 \in 1..n
  BY <1>1
<1>5. InQueue = {m_tasks[i] : i \in 1..n} /\ InQueue' = {m_tasks'[i] : i \in 1..(n - 1)}
  BY <1>1 DEF InQueue, n
<1>6. \A i, j \in 1..n : m_tasks[i] = m_tasks[j] => i = j
  BY DEF QueueUnique, n
<1>7. Head(m_tasks) \in InQueue
  BY <1>1, <1>4, <1>5
<1>8. ASSUME NEW x PROVE x \in InQueue' <=> x \in InQueue \ {Head(m_tasks)}
  <2>1. ASSUME x \in InQueue' PROVE x \in InQueue \ {Head(m_tasks)}
    <3>1. PICK i \in 1..(n - 1) : x = m_tasks'[i]
      BY <2>1, <1>5
    <3>2. x = m_tasks[i + 1] /\ i + 1 \in 1..n /\ i + 1 # 1
      BY <3>1, <1>1, <1>2
    <3> QED BY <3>2, <1>1, <1>4, <1>5, <1>6
  <2>2. ASSUME x \in InQueue \ {Head(m_tasks)} PROVE x \in InQueue'
    <3>1. PICK j \in 1..n : x = m_tasks[j] /\ j # 1
      BY <2>2, <1>1, <1>5
    <3>2. j - 1 \in 1..(n - 1) /\ m_tasks'[j - 1] = x
      BY <3>1, <1>1, <1>3
    <3> QED BY <3>2, <1>5
  <2> QED BY <2>1, <2>2
<1>9. QueueUnique'
  <2> SUFFICES ASSUME NEW i \in 1..(n - 1), NEW j \in 1..(n - 1), m_tasks'[i] = m_tasks'[j]
               PROVE  i = j
    BY <1>1 DEF QueueUnique
  <2>1. i + 1 = j + 1
    BY <1>1, <1>2, <1>6
  <2> QED BY <2>1
<1> QED BY <1>7, <1>8, <1>9

LEMMA TakeEffect ==
  ASSUME TypeInv, AccountInv, NEW w \in Workers, Take(w), wpc[w] # "run", UNCHANGED done
  PROVE  LET h == Head(m_tasks) IN
         /\ h \in InQueue /\ InQueue' = InQueue \ {h}
         /\ InWorker' = InWorker \cup {h}
         /\ QueueUnique' /\ WorkersUnique' /\ RunsCounted'
<1> DEFINE h == Head(m_tasks)
<1>1. h \in InQueue /\ InQueue' = InQueue \ {h} /\ QueueUnique'
  BY PopEffect DEF Take, TypeInv, Types, AccountInv, Unique
<1>2. h \in Tasks /\ h \notin InWorker /\ h \notin done /\ h # NoTask
  BY <1>1, PoolAssumption DEF InQueue, TypeInv, Types, AccountInv, Conservation
<1>3. task[w] = NoTask /\ task \in [Workers -> Tasks \cup {NoTask}]
  BY DEF TypeInv, TaskHeld, Types
<1>4. task' = [task EXCEPT ![w] = h] /\ runs' = [runs EXCEPT ![h] = @ + 1]
  BY DEF Take
<1> HIDE DEF h
<1>5. InWorker' = InWorker \cup {h}
  BY <1>2, <1>3, <1>4 DEF InWorker
<1>6. WorkersUnique'
  <2>1. \A v \in Workers : task[v] # h
    BY <1>2 DEF InWorker
  <2> QED BY <1>3, <1>4, <2>1 DEF WorkersUnique, AccountInv, Unique
<1>7. RunsCounted'
  <2>1. runs \in [Tasks -> Nat] /\ runs[h] = 0
    BY <1>2 DEF TypeInv, Types, AccountInv, RunsCounted
  <2> QED BY <1>2, <1>4, <1>5, <2>1 DEF RunsCounted, AccountInv
<1> QED BY <1>1, <1>5, <1>6, <1>7 DEF h

LEMMA FinishEffect ==
  ASSUME TypeInv, AccountInv, NEW w \in Workers, FinishTask(w)
  PROVE  /\ task[w] \in InWorker /\ InWorker' = InWorker \ {task[w]}
         /\ done' = done \cup {task[w]}
         /\ WorkersUnique' /\ RunsCounted'
<1>1. task[w] # NoTask /\ task \in [Workers -> Tasks \cup {NoTask}]
  BY DEF FinishTask, TypeInv, TaskHeld, Types
<1>2. task' = [task EXCEPT ![w] = NoTask] /\ done' = done \cup {task[w]} /\ runs' = runs
  BY DEF FinishTask
<1>3. \A v \in Workers \ {w} : task[v] # task[w]
  BY <1>1 DEF AccountInv, Unique, WorkersUnique
<1>4. task[w] \in InWorker /\ InWorker' = InWorker \ {task[w]}
  BY <1>1, <1>2, <1>3 DEF InWorker
<1>5. WorkersUnique'
  BY <1>1, <1>2 DEF AccountInv, Unique, WorkersUnique
<1>6. RunsCounted'
  BY <1>2, <1>4 DEF AccountInv, RunsCounted
<1> QED BY <1>2, <1>4, <1>5, <1>6

-----------------------------------------------------------------------------
LEMMA AccountInit == Init => AccountInv
<1> SUFFICES ASSUME Init PROVE AccountInv
  OBVIOUS
<1>1. InQueue = {} /\ InWorker = {} /\ InDelayed = {} /\ Cancelled = {}
  BY DEF Init, InQueue, InWorker, InDelayed, Cancelled
<1>2. Conservation
  BY <1>1 DEF Init, Conservation, Queued
<1>3. Unique
  BY DEF Init, Unique, QueueUnique, WorkersUnique, DelayedUnique
<1>4. RunsCounted /\ HandedOver
  BY <1>1 DEF Init, RunsCounted, HandedOver
<1> QED BY <1>2, <1>3, <1>4 DEF AccountInv

\* Steps that move no task.
LEMMA NothingMoves ==
  ASSUME AccountInv, UNCHANGED <<m_tasks, task, m_delayed, expired, history>>,
         tpc' # "submit" => tpc # "submit" \/ expired = {}
  PROVE  AccountInv'
<1>1. UNCHANGED <<InQueue, InWorker, InDelayed, Cancelled, Queued, expired, done, issued, runs>>
  BY DEF InQueue, InWorker, InDelayed, Cancelled, Queued, history
<1>2. Conservation' /\ RunsCounted'
  BY <1>1 DEF AccountInv, Conservation, RunsCounted
<1>3. Unique'
  BY DEF AccountInv, Unique, QueueUnique, WorkersUnique, DelayedUnique
<1>4. HandedOver'
  BY <1>1 DEF AccountInv, HandedOver
<1> QED BY <1>2, <1>3, <1>4 DEF AccountInv

\* Submit and Cancel
LEMMA CallMoves ==
  ASSUME TypeInv, AccountInv, NEW x \in Callers \cup Workers, NEW t \in Tasks
  PROVE  /\ SubmitNow(x, t) => AccountInv'
         /\ \A delayMs \in Delays : SubmitDelayed(x, t, delayMs) => AccountInv'
         /\ Cancel(x, t) => AccountInv'
<1> USE DEF TypeInv, Types, timerVars
<1>a. Conservation /\ Unique /\ RunsCounted /\ HandedOver
  BY DEF AccountInv
<1>1. ASSUME SubmitNow(x, t) PROVE AccountInv'
  <2>1. t \notin issued /\ issued' = issued \cup {t} /\ t \notin InQueue
    BY <1>1, <1>a DEF SubmitNow, Conservation, Queued
  <2>2. InQueue' = InQueue \cup {t} /\ QueueUnique'
    BY <1>1, <2>1, <1>a, PushEffect DEF SubmitNow, submitImmediate, Unique
  <2>3. UNCHANGED <<InWorker, InDelayed, Cancelled, expired, done, runs, tpc>>
    BY <1>1 DEF SubmitNow, InWorker, InDelayed, Cancelled
  <2>4. Conservation'
    BY <1>a, <2>1, <2>2, <2>3 DEF Conservation, Queued
  <2>5. Unique'
    BY <1>1, <1>a, <2>2 DEF SubmitNow, Unique, WorkersUnique, DelayedUnique
  <2> QED BY <1>a, <2>3, <2>4, <2>5 DEF AccountInv, RunsCounted, HandedOver
<1>2. ASSUME NEW delayMs \in Delays, SubmitDelayed(x, t, delayMs) PROVE AccountInv'
  <2>1. t \notin issued /\ issued' = issued \cup {t} /\ t \notin InDelayed
    BY <1>2, <1>a DEF SubmitDelayed, Conservation
  <2>2. InDelayed' = InDelayed \cup {t}
    <3> DEFINE r == [task |-> t, deadline |-> now + delayMs]
    <3>1. m_delayed' = m_delayed \cup {r} /\ r.task = t
      BY <1>2 DEF SubmitDelayed
    <3> HIDE DEF r
    <3> QED BY <3>1 DEF InDelayed
  <2>3. UNCHANGED <<InQueue, InWorker, Cancelled, expired, done, runs, tpc>>
    BY <1>2 DEF SubmitDelayed, InQueue, InWorker, Cancelled, workerVars
  <2>4. Conservation'
    BY <1>a, <2>1, <2>2, <2>3 DEF Conservation, Queued
  <2>5. DelayedUnique'
    BY <1>2, <1>a, <2>1 DEF SubmitDelayed, Unique, DelayedUnique, InDelayed
  <2>6. Unique'
    BY <1>2, <1>a, <2>5 DEF SubmitDelayed, Unique, QueueUnique, WorkersUnique, workerVars
  <2> QED BY <1>a, <2>3, <2>4, <2>6 DEF AccountInv, RunsCounted, HandedOver
<1>3. ASSUME Cancel(x, t) PROVE AccountInv'
  <2>1. t \notin Cancelled
    BY <1>3 DEF Cancel, Cancelled
  <2>2. InDelayed' = InDelayed \ {t}
    BY <1>3 DEF Cancel, InDelayed
  <2>3. Cancelled' = IF t \in InDelayed THEN Cancelled \cup {t} ELSE Cancelled
    <3>1. cancelRet' = [cancelRet EXCEPT ![t] = IF t \in InDelayed THEN "true" ELSE "false"]
      BY <1>3 DEF Cancel
    <3>2. \A u \in Tasks \ {t} : cancelRet'[u] = cancelRet[u]
      BY <3>1
    <3>3. cancelRet'[t] = IF t \in InDelayed THEN "true" ELSE "false"
      BY <3>1
    <3> QED BY <2>1, <3>2, <3>3 DEF Cancelled
  <2>4. UNCHANGED <<InQueue, InWorker, issued, expired, done, runs, tpc>>
    BY <1>3 DEF Cancel, InQueue, InWorker, workerVars
  <2>5. Conservation'
    BY <1>a, <2>1, <2>2, <2>3, <2>4 DEF Conservation, Queued
  <2>6. Unique'
    BY <1>3, <1>a DEF Cancel, Unique, QueueUnique, WorkersUnique, DelayedUnique, workerVars
  <2> QED BY <1>a, <2>4, <2>5, <2>6 DEF AccountInv, RunsCounted, HandedOver
<1> QED BY <1>1, <1>2, <1>3

\* The timer
LEMMA TimerMoves ==
  ASSUME TypeInv, AccountInv, TimerStep
  PROVE  AccountInv'
<1> USE DEF TypeInv, Types
<1>a. Conservation /\ Unique /\ RunsCounted /\ HandedOver
  BY DEF AccountInv
<1>1. CASE TimerCheck \/ TimerBlock \/ TimerTimeout \/ TimerLoop \/ TimerExit
  BY <1>1, NothingMoves DEF TimerCheck, TimerBlock, TimerTimeout, TimerLoop, TimerExit, workerVars
<1>2. CASE TimerCollect
  <2>1. expired = {} /\ expired' = {d.task : d \in Due} /\ m_delayed' = m_delayed \ Due
        /\ Due \subseteq m_delayed /\ tpc' = "submit"
    BY <1>2, <1>a DEF TimerCollect, HandedOver, Due
  <2>2. InDelayed' = InDelayed \ expired' /\ expired' \subseteq InDelayed
    <3>1. \A d, e \in m_delayed : d.task = e.task => d = e
      BY <1>a DEF Unique, DelayedUnique
    <3>2. \A x : x \in InDelayed <=> \E d \in m_delayed : x = d.task
      BY DEF InDelayed
    <3>3. \A x : x \in InDelayed' <=> \E d \in m_delayed \ Due : x = d.task
      BY <2>1 DEF InDelayed
    <3>4. \A x : x \in expired' <=> \E d \in Due : x = d.task
      BY <2>1
    <3>5. \A x : x \in InDelayed' <=> x \in InDelayed /\ x \notin expired'
      <4> HIDE DEF TypeInv, Types
      <4> QED BY <2>1, <3>1, <3>2, <3>3, <3>4, ZenonT(60)
    <3>6. \A x : x \in expired' => x \in InDelayed
      BY <2>1, <3>2, <3>4
    <3> QED BY <3>5, <3>6
  <2>3. UNCHANGED <<InQueue, InWorker, Cancelled, issued, done, runs>>
    BY <1>2 DEF TimerCollect, InQueue, InWorker, Cancelled, workerVars, history
  <2>4. Conservation'
    BY <1>a, <2>1, <2>2, <2>3 DEF Conservation, Queued
  <2>5. Unique'
    BY <1>2, <1>a, <2>1 DEF TimerCollect, Unique, QueueUnique, WorkersUnique, DelayedUnique,
                            workerVars
  <2> QED BY <1>a, <2>1, <2>3, <2>4, <2>5 DEF AccountInv, RunsCounted, HandedOver
<1>3. ASSUME NEW t \in Tasks, TimerSubmit(t) PROVE AccountInv'
  <2>1. t \in expired /\ expired' = expired \ {t} /\ tpc = "submit" /\ tpc' = tpc
        /\ t \notin InQueue
    BY <1>3, <1>a DEF TimerSubmit, Conservation, Queued
  <2>2. InQueue' = InQueue \cup {t} /\ QueueUnique'
    BY <1>3, <1>a, <2>1, PushEffect DEF TimerSubmit, submitImmediate, Unique
  <2>3. UNCHANGED <<InWorker, InDelayed, Cancelled, issued, done, runs>>
    BY <1>3 DEF TimerSubmit, InWorker, InDelayed, Cancelled, history
  <2>4. Conservation'
    BY <1>a, <2>1, <2>2, <2>3 DEF Conservation, Queued
  <2>5. Unique'
    BY <1>3, <1>a, <2>2 DEF TimerSubmit, Unique, WorkersUnique, DelayedUnique
  <2> QED BY <1>a, <2>1, <2>3, <2>4, <2>5 DEF AccountInv, RunsCounted, HandedOver
<1> QED BY <1>1, <1>2, <1>3 DEF TimerStep

\* The workers
LEMMA WorkerMoves ==
  ASSUME TypeInv, AccountInv, NEW w \in Workers,
         WorkerStep(w) \/ WorkerSpurious(w) \/ FinishTask(w)
  PROVE  AccountInv'
<1> USE DEF TypeInv, Types
<1>a. Conservation /\ Unique /\ RunsCounted /\ HandedOver
  BY DEF AccountInv
<1>1. CASE WorkerEnterTake(w) \/ WorkerWakeTake(w)
  <2>1. /\ Take(w) /\ wpc[w] # "run"
        /\ UNCHANGED <<tpc, expired, m_delayed, issued, cancelRet, done>>
    BY <1>1 DEF WorkerEnterTake, WorkerWakeTake, timerVars
  <2>2. UNCHANGED <<InDelayed, Cancelled>>
    BY <2>1 DEF InDelayed, Cancelled
  <2> DEFINE h == Head(m_tasks)
  <2>3. /\ h \in InQueue /\ InQueue' = InQueue \ {h} /\ InWorker' = InWorker \cup {h}
        /\ QueueUnique' /\ WorkersUnique' /\ RunsCounted'
    BY <2>1, TakeEffect
  <2> HIDE DEF h
  <2>4. Conservation'
    BY <1>a, <2>1, <2>2, <2>3 DEF Conservation, Queued
  <2> QED BY <1>a, <2>1, <2>3, <2>4 DEF AccountInv, Unique, DelayedUnique, HandedOver
<1>2. CASE FinishTask(w)
  <2>1. UNCHANGED <<tpc, expired, m_delayed, m_tasks, issued, cancelRet>>
    BY <1>2 DEF FinishTask, timerVars
  <2>2. UNCHANGED <<InDelayed, Cancelled, InQueue>>
    BY <2>1 DEF InDelayed, Cancelled, InQueue
  <2>3. /\ task[w] \in InWorker /\ InWorker' = InWorker \ {task[w]}
        /\ done' = done \cup {task[w]} /\ WorkersUnique' /\ RunsCounted'
    BY <1>2, FinishEffect
  <2>4. Conservation'
    BY <1>a, <2>1, <2>2, <2>3 DEF Conservation, Queued
  <2> QED BY <1>a, <2>1, <2>3, <2>4 DEF AccountInv, Unique, QueueUnique, DelayedUnique, HandedOver
<1>3. CASE \/ WorkerEnterWait(w) \/ WorkerBlock(w) \/ WorkerWakeWait(w) \/ WorkerExit(w)
           \/ WorkerSpurious(w)
  BY <1>3, NothingMoves DEF WorkerEnterWait, WorkerBlock, WorkerWakeWait, WorkerExit,
                            WorkerSpurious, timerVars
<1> QED BY <1>1, <1>2, <1>3 DEF WorkerStep

LEMMA AccountStep == TypeInv /\ AccountInv /\ [Next]_vars => AccountInv'
<1> SUFFICES ASSUME TypeInv, AccountInv, [Next]_vars PROVE AccountInv'
  OBVIOUS
<1>1. CASE Call
  <2>1. ASSUME NEW c \in Callers, WaitIdleCall(c) \/ WaitIdleTimeout(c) PROVE AccountInv'
    BY <2>1, NothingMoves DEF WaitIdleCall, WaitIdleTimeout, workerVars, timerVars
  <2> QED BY <1>1, <2>1, CallMoves DEF Call
<1>2. CASE TimerStep
  BY <1>2, TimerMoves
<1>3. ASSUME NEW w \in Workers, WorkerStep(w) \/ WorkerSpurious(w) \/ FinishTask(w)
      PROVE  AccountInv'
  BY <1>3, WorkerMoves
<1>4. CASE Notify
  <2>1. UNCHANGED <<m_tasks, task, m_delayed, expired, history>>
        /\ (tpc' = tpc \/ (tpc = "asleep" /\ tpc' = "scan"))
    BY <1>4 DEF Notify, NotifyTask, NotifyDelay, workerVars, timerVars
  <2> QED BY <2>1, NothingMoves
<1>5. CASE Destroy \/ DtorStep
  <2>1. UNCHANGED <<m_tasks, task, m_delayed, expired, history>>
        /\ (tpc' = tpc \/ (tpc = "asleep" /\ tpc' = "scan"))
    BY <1>5 DEF Destroy, DtorStep, RequestStop, NotifyStopDelay, NotifyStopTask, Join,
                workerVars, timerVars
  <2> QED BY <2>1, NothingMoves
<1>6. ASSUME \/ Tick \/ UNCHANGED vars
             \/ \E c \in Callers : WaitIdleStep(c)
      PROVE  AccountInv'
  <2>1. UNCHANGED <<m_tasks, task, m_delayed, expired, history, tpc>>
    BY <1>6 DEF Tick, WaitIdleStep, WaitIdleWake, WaitIdleReturn, vars, workerVars, timerVars
  <2> QED BY <2>1, NothingMoves
<1> QED BY <1>1, <1>2, <1>3, <1>4, <1>5, <1>6 DEF Next, Use

\* Every task submitted and not cancelled is in exactly one place, running or done, and
\* its body is entered at most once, never after Cancel said "true" (Submit, Cancel,
\* workerProc and timerProc, with the destructor in between).
THEOREM EveryTaskIsAccountedFor == Spec => []TasksAccounted
<1>1. TypeInv /\ [Next]_vars => TypeInv'
  BY TypeStep, IdleStep, TaskHeldStep DEF TypeInv
<1>2. AccountInv => TasksAccounted
  <2> SUFFICES ASSUME AccountInv PROVE AtMostOnce
    BY DEF AccountInv, TasksAccounted
  <2>1. \A t \in Tasks : cancelRet[t] = "true" => t \notin InWorker \cup done
    BY DEF AccountInv, Conservation, Cancelled, Queued
  <2> QED BY <2>1 DEF AtMostOnce, AccountInv, RunsCounted
<1> QED BY <1>1, <1>2, AccountInit, AccountStep, InitTypeInv, PTL DEF Spec
=============================================================================
