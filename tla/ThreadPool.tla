----------------------------- MODULE ThreadPool -----------------------------
(***************************************************************************)
(* ZmThreadPool (util/zm_util_thread): workers that take tasks from one    *)
(* queue, a timer thread that moves delayed tasks into that queue when     *)
(* they are due, Submit / Cancel / WaitIdle for any thread (a running task *)
(* included) and the destructor.                                           *)
(*                                                                         *)
(* A condition-variable wait is two steps: the predicate is evaluated with *)
(* the mutex held ("checked"), then the thread blocks and releases it      *)
(* ("asleep").  notify and request_stop take no mutex, so they can fall    *)
(* between the two.  A thread in "checked" is the only one that holds a    *)
(* mutex across steps, hence TaskMutexFree and DelayMutexFree.             *)
(***************************************************************************)
EXTENDS Naturals, Sequences, FiniteSets

CONSTANTS
  Workers,     \* the threads m_workers may come to hold (ZM_POOL_MAX_THREADS)
  InitWorkers, \* those the constructor starts (m_initSize)
  Callers,     \* other threads that use the pool
  Timer,       \* m_timerThread
  Tasks,       \* the tasks that get submitted, each at most once
  NoTask,
  Delays,      \* the delayMs > 0 in use
  MaxTime      \* bound on the clock

ASSUME PoolAssumption ==
  /\ IsFiniteSet(Workers) /\ IsFiniteSet(Callers)
  /\ InitWorkers \subseteq Workers /\ InitWorkers # {}
  /\ Timer \notin Workers \cup Callers
  /\ Workers \cap Callers = {}
  /\ NoTask \notin Tasks
  /\ Delays \subseteq Nat \ {0}
  /\ MaxTime \in Nat

VARIABLES
  wpc,         \* where each worker thread is
  task,        \* the local "task" of each worker
  m_tasks,     \* queue of immediate tasks
  m_idleCount,
  tpc,         \* where the timer thread is
  expired,     \* its local vector of due tasks
  wakeAt,      \* the deadline it sleeps for (NoTimeout: an untimed wait)
  m_delayed,   \* delayed tasks with their deadlines
  now,         \* ZmSystem::CurrentTimeMills
  owes,        \* the notify a thread still has to do after its unlock
  cpc,         \* where each caller is with respect to WaitIdle
  snapshot,    \* immediate tasks submitted before a caller's WaitIdle (history)
  dpc,         \* where the destructor is
  stop,        \* threads whose stop_token has been set
  issued,      \* tasks handed to Submit (history)
  cancelRet,   \* what Cancel first returned for a task (history)
  runs,        \* how often a task's body was entered (history)
  done         \* tasks whose body returned (history)

workerVars == <<wpc, task, m_idleCount>>
timerVars  == <<tpc, expired, wakeAt>>
history    == <<issued, cancelRet, runs, done>>
callVars   == <<cpc, snapshot>>
vars == <<workerVars, m_tasks, timerVars, m_delayed, now, owes, callVars,
          dpc, stop, history>>

Threads   == Workers \cup Callers \cup {Timer}
NoTimeout == 0

m_workers == {w \in Workers : wpc[w] # "none"}
Idle      == {w \in Workers : wpc[w] \in {"checked", "asleep", "notified"}}
Asleep    == {w \in Workers : wpc[w] = "asleep"}
Notified  == {w \in Workers : wpc[w] = "notified"}
TaskNotifiers == {x \in Threads : owes[x] = "task"}

TaskMutexFree  == \A w \in Workers : wpc[w] # "checked"
DelayMutexFree == tpc # "checked"

\* Where a task can be.
InQueue   == {m_tasks[i] : i \in 1..Len(m_tasks)}
InWorker  == {task[w] : w \in Workers} \ {NoTask}
InDelayed == {d.task : d \in m_delayed}
Cancelled == {t \in Tasks : cancelRet[t] = "true"}
\* Immediate tasks, and delayed ones the timer has handed over.
Queued    == InQueue \cup InWorker \cup done

-----------------------------------------------------------------------------
Init ==
  /\ wpc = [w \in Workers |-> IF w \in InitWorkers THEN "start" ELSE "none"]
  /\ task = [w \in Workers |-> NoTask]
  /\ m_tasks = <<>>
  /\ m_idleCount = 0
  /\ tpc = "scan" /\ expired = {} /\ wakeAt = NoTimeout
  /\ m_delayed = {} /\ now = 0
  /\ owes = [x \in Threads |-> "none"]
  /\ cpc = [c \in Callers |-> "idle"]
  /\ snapshot = [c \in Callers |-> {}]
  /\ dpc = "alive" /\ stop = {}
  /\ issued = {} /\ done = {}
  /\ cancelRet = [t \in Tasks |-> "none"]
  /\ runs = [t \in Tasks |-> 0]

\* A thread that may call into the pool: a caller while the pool is alive, or
\* a worker through the task it is running.
MayCall(x) ==
  /\ owes[x] = "none"
  /\ \/ x \in Callers /\ cpc[x] = "idle" /\ dpc = "alive"
     \/ x \in Workers /\ wpc[x] = "run"

\* submitImmediate up to its unlock: push, and grow when no worker counts as
\* idle and the limit is not reached.  Grow is "the new worker", if any.
Grow == IF m_idleCount = 0 /\ m_workers # Workers
        THEN \E w \in Workers \ m_workers : wpc' = [wpc EXCEPT ![w] = "start"]
        ELSE wpc' = wpc

submitImmediate(x, t) ==
  /\ TaskMutexFree
  /\ m_tasks' = Append(m_tasks, t)
  /\ Grow
  /\ owes' = [owes EXCEPT ![x] = "task"]

\* Submit(task, 0)
SubmitNow(x, t) ==
  /\ MayCall(x)
  /\ t \in Tasks \ issued
  /\ submitImmediate(x, t)
  /\ issued' = issued \cup {t}
  /\ UNCHANGED <<task, m_idleCount, timerVars, m_delayed, now, callVars, dpc,
                 stop, cancelRet, runs, done>>

\* Submit(task, delayMs > 0) up to its unlock
SubmitDelayed(x, t, delayMs) ==
  /\ MayCall(x)
  /\ t \in Tasks \ issued
  /\ now + delayMs <= MaxTime
  /\ DelayMutexFree
  /\ m_delayed' = m_delayed \cup {[task |-> t, deadline |-> now + delayMs]}
  /\ owes' = [owes EXCEPT ![x] = "delay"]
  /\ issued' = issued \cup {t}
  /\ UNCHANGED <<workerVars, m_tasks, timerVars, now, callVars, dpc, stop,
                 cancelRet, runs, done>>

\* m_taskCv.notify_one: wakes one blocked worker, if there is one
NotifyTask(x) ==
  /\ owes[x] = "task"
  /\ owes' = [owes EXCEPT ![x] = "none"]
  /\ IF Asleep = {} THEN wpc' = wpc
     ELSE \E w \in Asleep : wpc' = [wpc EXCEPT ![w] = "notified"]
  /\ UNCHANGED <<task, m_idleCount, m_tasks, timerVars, m_delayed, now,
                 callVars, dpc, stop, history>>

\* m_delayCv.notify_all: the timer is its only waiter
NotifyDelay(x) ==
  /\ owes[x] = "delay"
  /\ owes' = [owes EXCEPT ![x] = "none"]
  /\ tpc' = IF tpc = "asleep" THEN "scan" ELSE tpc
  /\ UNCHANGED <<workerVars, m_tasks, expired, wakeAt, m_delayed, now,
                 callVars, dpc, stop, history>>

Cancel(x, t) ==
  /\ MayCall(x)
  /\ t \in issued /\ cancelRet[t] = "none"
  /\ DelayMutexFree
  /\ m_delayed' = {d \in m_delayed : d.task # t}
  /\ cancelRet' = [cancelRet EXCEPT ![t] = IF t \in InDelayed THEN "true"
                                                              ELSE "false"]
  /\ UNCHANGED <<workerVars, m_tasks, timerVars, now, owes, callVars, dpc,
                 stop, issued, runs, done>>

-----------------------------------------------------------------------------
\* WaitIdle

\* Mutant: the idle count alone decides.
Bug_Drained == m_idleCount = Cardinality(m_workers)

Drained == m_tasks = <<>> /\ m_idleCount = Cardinality(m_workers)

\* The call: it returns at once when the pool is drained and blocks otherwise.
\* (From a worker of this pool it returns false and changes nothing.)
WaitIdleCall(c) ==
  /\ MayCall(c) /\ c \in Callers
  /\ TaskMutexFree
  /\ snapshot' = [snapshot EXCEPT ![c] = Queued]
  /\ cpc' = [cpc EXCEPT ![c] = IF Drained THEN "drained" ELSE "waiting"]
  /\ UNCHANGED <<workerVars, m_tasks, timerVars, m_delayed, now, owes, dpc,
                 stop, history>>

\* Woken through m_idleCv (or spuriously), the predicate is evaluated again.
WaitIdleWake(c) ==
  /\ cpc[c] = "woken"
  /\ TaskMutexFree
  /\ cpc' = [cpc EXCEPT ![c] = IF Drained THEN "drained" ELSE "waiting"]
  /\ UNCHANGED <<workerVars, m_tasks, timerVars, m_delayed, now, owes,
                 snapshot, dpc, stop, history>>

\* The caller has its "true" and goes on.
WaitIdleReturn(c) ==
  /\ cpc[c] = "drained"
  /\ cpc' = [cpc EXCEPT ![c] = "idle"]
  /\ snapshot' = [snapshot EXCEPT ![c] = {}]
  /\ UNCHANGED <<workerVars, m_tasks, timerVars, m_delayed, now, owes, dpc,
                 stop, history>>

\* wait_until gives up: the predicate decides what is returned
WaitIdleTimeout(c) ==
  /\ cpc[c] \in {"waiting", "woken"}
  /\ TaskMutexFree
  /\ cpc' = [cpc EXCEPT ![c] = IF Drained THEN "drained" ELSE "idle"]
  /\ UNCHANGED <<workerVars, m_tasks, timerVars, m_delayed, now, owes,
                 snapshot, dpc, stop, history>>

WakeIdleWaiters == [c \in Callers |-> IF cpc[c] = "waiting" THEN "woken"
                                                            ELSE cpc[c]]

-----------------------------------------------------------------------------
\* workerProc

\* Mutant: the waiters are told before the worker counts itself.
Bug_TellIdle(n) ==
  cpc' = IF n - 1 = Cardinality(m_workers) THEN WakeIdleWaiters ELSE cpc

\* The head of the loop: one more idle worker, which WaitIdle hears of when it
\* makes all of them idle.
TellIdle(n) == cpc' = IF n = Cardinality(m_workers) THEN WakeIdleWaiters ELSE cpc

Take(w) ==
  /\ m_tasks # <<>>
  /\ task' = [task EXCEPT ![w] = Head(m_tasks)]
  /\ m_tasks' = Tail(m_tasks)
  /\ wpc' = [wpc EXCEPT ![w] = "run"]
  /\ runs' = [runs EXCEPT ![Head(m_tasks)] = @ + 1]

\* A worker that finds a task when it comes to wait does not block; the idle
\* count goes up and down again under the mutex.
WorkerEnterTake(w) ==
  /\ wpc[w] = "start" /\ w \notin stop
  /\ TaskMutexFree
  /\ Take(w)
  /\ TellIdle(m_idleCount + 1)
  /\ UNCHANGED <<m_idleCount, timerVars, m_delayed, now, owes, snapshot, dpc,
                 stop, issued, cancelRet, done>>

\* Mutant: wait() without a predicate.
Bug_WorkerEnterWait(w) ==
  /\ wpc[w] = "start" /\ w \notin stop
  /\ TaskMutexFree
  /\ m_idleCount' = m_idleCount + 1
  /\ TellIdle(m_idleCount + 1)
  /\ wpc' = [wpc EXCEPT ![w] = "checked"]
  /\ UNCHANGED <<task, m_tasks, timerVars, m_delayed, now, owes, snapshot,
                 dpc, stop, history>>

WorkerEnterWait(w) ==
  /\ wpc[w] = "start" /\ w \notin stop
  /\ TaskMutexFree
  /\ m_tasks = <<>>
  /\ m_idleCount' = m_idleCount + 1
  /\ TellIdle(m_idleCount + 1)
  /\ wpc' = [wpc EXCEPT ![w] = "checked"]
  /\ UNCHANGED <<task, m_tasks, timerVars, m_delayed, now, owes, snapshot,
                 dpc, stop, history>>

\* The wait blocks and releases m_taskMutex.
WorkerBlock(w) ==
  /\ wpc[w] = "checked"
  /\ wpc' = [wpc EXCEPT ![w] = "asleep"]
  /\ UNCHANGED <<task, m_idleCount, m_tasks, timerVars, m_delayed, now, owes,
                 callVars, dpc, stop, history>>

WorkerSpurious(w) ==
  /\ wpc[w] = "asleep"
  /\ wpc' = [wpc EXCEPT ![w] = "notified"]
  /\ UNCHANGED <<task, m_idleCount, m_tasks, timerVars, m_delayed, now, owes,
                 callVars, dpc, stop, history>>

\* A woken worker evaluates the predicate again: it takes a task, or goes back
\* to sleep when another worker was faster.
WorkerWakeTake(w) ==
  /\ wpc[w] = "notified" /\ w \notin stop
  /\ TaskMutexFree
  /\ Take(w)
  /\ m_idleCount' = m_idleCount - 1
  /\ UNCHANGED <<timerVars, m_delayed, now, owes, callVars, dpc, stop, issued,
                 cancelRet, done>>

WorkerWakeWait(w) ==
  /\ wpc[w] = "notified" /\ w \notin stop
  /\ TaskMutexFree
  /\ m_tasks = <<>>
  /\ wpc' = [wpc EXCEPT ![w] = "checked"]
  /\ UNCHANGED <<task, m_idleCount, m_tasks, timerVars, m_delayed, now, owes,
                 callVars, dpc, stop, history>>

\* With its stop_token set a worker leaves, and what is queued stays there.
WorkerExit(w) ==
  /\ wpc[w] \in {"start", "notified"} /\ w \in stop
  /\ TaskMutexFree
  /\ wpc' = [wpc EXCEPT ![w] = "exited"]
  /\ m_idleCount' = IF wpc[w] = "notified" THEN m_idleCount - 1
                                           ELSE m_idleCount
  /\ UNCHANGED <<task, m_tasks, timerVars, m_delayed, now, owes, callVars,
                 dpc, stop, history>>

\* The task returns or throws; either way the worker goes on.
FinishTask(w) ==
  /\ wpc[w] = "run" /\ owes[w] = "none"
  /\ wpc' = [wpc EXCEPT ![w] = "start"]
  /\ done' = done \cup {task[w]}
  /\ task' = [task EXCEPT ![w] = NoTask]
  /\ UNCHANGED <<m_idleCount, m_tasks, timerVars, m_delayed, now, owes,
                 callVars, dpc, stop, issued, cancelRet, runs>>

-----------------------------------------------------------------------------
\* timerProc

Tick ==
  /\ now < MaxTime
  /\ now' = now + 1
  /\ UNCHANGED <<workerVars, m_tasks, timerVars, m_delayed, owes, callVars,
                 dpc, stop, history>>

Due == {d \in m_delayed : d.deadline <= now}

\* Mutant: the wait for the earliest deadline is untimed.
Bug_TimerCheck ==
  /\ tpc = "scan" /\ Timer \notin stop
  /\ Due = {}
  /\ tpc' = "checked"
  /\ wakeAt' = NoTimeout
  /\ UNCHANGED <<workerVars, m_tasks, expired, m_delayed, now, owes, callVars,
                 dpc, stop, history>>

\* The timer holds m_delayMutex and nothing is due: it will wait, for the
\* earliest deadline if there is one.
TimerCheck ==
  /\ tpc = "scan" /\ Timer \notin stop
  /\ Due = {}
  /\ tpc' = "checked"
  /\ IF m_delayed = {} THEN wakeAt' = NoTimeout
     ELSE \E d \in m_delayed :
            /\ \A e \in m_delayed : d.deadline <= e.deadline
            /\ wakeAt' = d.deadline
  /\ UNCHANGED <<workerVars, m_tasks, expired, m_delayed, now, owes, callVars,
                 dpc, stop, history>>

TimerBlock ==
  /\ tpc = "checked"
  /\ tpc' = "asleep"
  /\ UNCHANGED <<workerVars, m_tasks, expired, wakeAt, m_delayed, now, owes,
                 callVars, dpc, stop, history>>

\* The earliest deadline is reached.
TimerTimeout ==
  /\ tpc = "asleep" /\ wakeAt # NoTimeout /\ wakeAt <= now
  /\ tpc' = "scan"
  /\ UNCHANGED <<workerVars, m_tasks, expired, wakeAt, m_delayed, now, owes,
                 callVars, dpc, stop, history>>

\* Mutant: the due tasks are copied, not moved.
Bug_TimerCollect ==
  /\ tpc = "scan" /\ Timer \notin stop
  /\ Due # {}
  /\ tpc' = "submit"
  /\ expired' = {d.task : d \in Due}
  /\ UNCHANGED <<workerVars, m_tasks, wakeAt, m_delayed, now, owes, callVars,
                 dpc, stop, history>>

\* Every due task moves to the local vector.
TimerCollect ==
  /\ tpc = "scan" /\ Timer \notin stop
  /\ Due # {}
  /\ tpc' = "submit"
  /\ expired' = {d.task : d \in Due}
  /\ m_delayed' = m_delayed \ Due
  /\ UNCHANGED <<workerVars, m_tasks, wakeAt, now, owes, callVars, dpc, stop,
                 history>>

TimerSubmit(t) ==
  /\ tpc = "submit" /\ owes[Timer] = "none"
  /\ t \in expired
  /\ submitImmediate(Timer, t)
  /\ expired' = expired \ {t}
  /\ UNCHANGED <<task, m_idleCount, tpc, wakeAt, m_delayed, now, callVars,
                 dpc, stop, history>>

TimerLoop ==
  /\ tpc = "submit" /\ owes[Timer] = "none" /\ expired = {}
  /\ tpc' = "scan"
  /\ UNCHANGED <<workerVars, m_tasks, expired, wakeAt, m_delayed, now, owes,
                 callVars, dpc, stop, history>>

TimerExit ==
  /\ tpc = "scan" /\ Timer \in stop
  /\ tpc' = "exited"
  /\ UNCHANGED <<workerVars, m_tasks, expired, wakeAt, m_delayed, now, owes,
                 callVars, dpc, stop, history>>

-----------------------------------------------------------------------------
\* ~ZmThreadPool: no caller may be inside the pool; running tasks may.

Destroy ==
  /\ dpc = "alive"
  /\ \A c \in Callers : cpc[c] = "idle" /\ owes[c] = "none"
  /\ dpc' = "stopping"
  /\ stop' = {Timer}
  /\ UNCHANGED <<workerVars, m_tasks, timerVars, m_delayed, now, owes,
                 callVars, history>>

RequestStop(w) ==
  /\ dpc = "stopping"
  /\ w \in m_workers \ stop
  /\ stop' = stop \cup {w}
  /\ UNCHANGED <<workerVars, m_tasks, timerVars, m_delayed, now, owes,
                 callVars, dpc, history>>

\* Both notify_all calls, made without either mutex.
NotifyStopDelay ==
  /\ dpc = "stopping" /\ m_workers \subseteq stop
  /\ dpc' = "notifying"
  /\ tpc' = IF tpc = "asleep" THEN "scan" ELSE tpc
  /\ UNCHANGED <<workerVars, m_tasks, expired, wakeAt, m_delayed, now, owes,
                 callVars, stop, history>>

NotifyStopTask ==
  /\ dpc = "notifying"
  /\ dpc' = "joining"
  /\ wpc' = [w \in Workers |-> IF wpc[w] = "asleep" THEN "notified" ELSE wpc[w]]
  /\ UNCHANGED <<task, m_idleCount, m_tasks, timerVars, m_delayed, now, owes,
                 callVars, stop, history>>

\* The joins: the timer, then every worker.
Join ==
  /\ dpc = "joining"
  /\ tpc = "exited" /\ \A w \in m_workers : wpc[w] = "exited"
  /\ dpc' = "gone"
  /\ UNCHANGED <<workerVars, m_tasks, timerVars, m_delayed, now, owes,
                 callVars, stop, history>>

-----------------------------------------------------------------------------
Call ==
  \/ \E x \in Callers \cup Workers, t \in Tasks :
       \/ SubmitNow(x, t)
       \/ \E delayMs \in Delays : SubmitDelayed(x, t, delayMs)
       \/ Cancel(x, t)
  \/ \E c \in Callers : WaitIdleCall(c) \/ WaitIdleTimeout(c)

Notify == \E x \in Threads : NotifyTask(x) \/ NotifyDelay(x)

WaitIdleStep(c) == WaitIdleWake(c) \/ WaitIdleReturn(c)

WorkerStep(w) ==
  \/ WorkerEnterTake(w) \/ WorkerEnterWait(w) \/ WorkerBlock(w)
  \/ WorkerWakeTake(w) \/ WorkerWakeWait(w) \/ WorkerExit(w)

TimerStep ==
  \/ TimerCheck \/ TimerBlock \/ TimerTimeout \/ TimerCollect
  \/ (\E t \in Tasks : TimerSubmit(t)) \/ TimerLoop \/ TimerExit

\* What happens to a pool nobody destroys.
Use ==
  \/ Call \/ Notify \/ Tick \/ TimerStep
  \/ \E c \in Callers : WaitIdleStep(c)
  \/ \E w \in Workers : WorkerStep(w) \/ WorkerSpurious(w) \/ FinishTask(w)

DtorStep ==
  \/ (\E w \in Workers : RequestStop(w))
  \/ NotifyStopDelay \/ NotifyStopTask \/ Join

Next == Use \/ Destroy \/ DtorStep

Spec == Init /\ [][Next]_vars

\* Threads run, tasks terminate, the clock advances; nobody has to call.  A
\* thread that finds a mutex free again and again gets it.
Fairness ==
  /\ \A x \in Threads : WF_vars(NotifyTask(x)) /\ WF_vars(NotifyDelay(x))
  /\ \A c \in Callers : SF_vars(WaitIdleStep(c))
  /\ \A w \in Workers : SF_vars(WorkerStep(w)) /\ WF_vars(FinishTask(w))
  /\ SF_vars(TimerStep) /\ WF_vars(Tick)

FairSpec == Spec /\ Fairness

-----------------------------------------------------------------------------
(***************************************************************************)
(* Properties                                                              *)
(***************************************************************************)

Types ==
  /\ wpc \in [Workers -> {"none", "start", "checked", "asleep", "notified",
                          "run", "exited"}]
  /\ task \in [Workers -> Tasks \cup {NoTask}]
  /\ m_tasks \in Seq(Tasks)
  /\ m_idleCount \in Nat
  /\ tpc \in {"scan", "checked", "asleep", "submit", "exited"}
  /\ expired \subseteq Tasks
  /\ wakeAt \in Nat
  /\ m_delayed \subseteq [task : Tasks, deadline : Nat]
  /\ now \in Nat
  /\ owes \in [Threads -> {"none", "task", "delay"}]
  /\ cpc \in [Callers -> {"idle", "waiting", "woken", "drained"}]
  /\ snapshot \in [Callers -> SUBSET Tasks]
  /\ dpc \in {"alive", "stopping", "notifying", "joining", "gone"}
  /\ stop \subseteq Threads
  /\ issued \subseteq Tasks
  /\ cancelRet \in [Tasks -> {"none", "true", "false"}]
  /\ runs \in [Tasks -> Nat]
  /\ done \subseteq Tasks

\* m_idleCount, on which growth and WaitIdle rely, is the number of workers
\* inside the wait, whatever wakes and exits have happened.
IdleAccounting == m_idleCount = Cardinality(Idle)

\* Every variable keeps its type, and the idle count is exact.
TypeOK == Types /\ IdleAccounting

AtMostOnce ==
  \A t \in Tasks : /\ runs[t] <= 1
                   /\ cancelRet[t] = "true" => runs[t] = 0

Conservation ==
  /\ issued = InDelayed \cup expired \cup Queued \cup Cancelled
  /\ InDelayed \cap (expired \cup Queued) = {}
  /\ expired \cap Queued = {}
  /\ InQueue \cap (InWorker \cup done) = {}
  /\ InWorker \cap done = {}
  /\ Cancelled \cap (InDelayed \cup expired \cup Queued) = {}

\* No task is lost or doubled between the delay queue, the timer's vector, the
\* worker queue and the workers: what was submitted and not cancelled is
\* waiting in exactly one of these places, running or done.  Its body is entered
\* at most once, and never when Cancel said "true", also with Cancel racing the
\* timer's hand-over.
TasksAccounted == AtMostOnce /\ Conservation

\* While the pool is not being destroyed, a worker sleeps in m_taskCv only when
\* every queued task has a woken worker, or a notify still to come, of its own:
\* no wakeup of submitImmediate is ever lost.
NoLostWakeup ==
  stop = {} /\ Asleep # {} =>
    Len(m_tasks) <= Cardinality(Notified) + Cardinality(TaskNotifiers)

\* WaitIdle answers "true" only when every immediate task submitted before the
\* call has returned: the caller may destroy what these tasks use.
DrainIsComplete ==
  \A c \in Callers : cpc[c] = "drained" => snapshot[c] \subseteq done

\* As long as nobody destroys the pool (g_zm_thread_pool while main runs), every
\* task that was submitted and not cancelled is eventually executed.  All three
\* sets only grow, so "again and again all are" is "each one eventually is".
EventuallyRuns ==
  []<>(issued \subseteq done \cup Cancelled \/ dpc # "alive")

\* WaitIdle(0) returns.
WaitIdleReturns ==
  \A c \in Callers : []<>(cpc[c] \notin {"waiting", "woken"})
=============================================================================
