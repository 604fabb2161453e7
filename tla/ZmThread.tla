------------------------------ MODULE ZmThread ------------------------------
(***************************************************************************)
(* ZmThread (util/zm_util_thread): Start, Stop and runInternal, called by  *)
(* several threads on one object.  Each successful Start makes a new       *)
(* jthread, numbered by its generation.  The lock of m_mutex is explicit   *)
(* where a caller keeps it across a step that can block (OnStopping and    *)
(* the join); the shorter critical sections are single steps.              *)
(***************************************************************************)
EXTENDS Naturals, FiniteSets

CONSTANTS
  Callers,   \* threads that call Start and Stop
  NoOne,     \* m_mutex is free
  MaxGen,    \* bound on the number of threads created
  OneShot,   \* the body may end without being asked to
  CanFail    \* the creation of a thread may fail

ASSUME ThreadAssumption ==
  /\ NoOne \notin Callers
  /\ MaxGen \in Nat
  /\ OneShot \in BOOLEAN /\ CanFail \in BOOLEAN

VARIABLES
  m_state, m_mutex,
  m_thread,   \* generation of the jthread held by m_thread; 0: none
  tpc,        \* where each generation's thread is in runInternal
  stopReq,    \* generations whose stop_token is set
  started,    \* generations that have set their promise
  pc,         \* where each caller is
  mine,       \* the generation a caller's last Start created; 0: none (history)
  target,     \* the generation a caller's last Stop was called on (history)
  ret         \* what a caller's last Start returned

callerVars == <<pc, mine, target, ret>>
threadVars == <<m_state, m_mutex, m_thread, tpc, stopReq, started>>
allVars    == <<threadVars, callerVars>>

Gens == 1..MaxGen
Live == {"created", "entered", "run", "ending"}
Free == m_mutex = NoOne

ThreadInit ==
  /\ m_state = "STOPPED" /\ m_mutex = NoOne /\ m_thread = 0
  /\ tpc = [g \in Gens |-> "none"]
  /\ stopReq = {} /\ started = {}
  /\ pc = [c \in Callers |-> "idle"]
  /\ mine = [c \in Callers |-> 0]
  /\ target = [c \in Callers |-> 0]
  /\ ret = [c \in Callers |-> "none"]

-----------------------------------------------------------------------------
\* Start

\* "if (m_state != STOPPED) return false", or the thread cannot be created.
StartRefused(c) ==
  /\ pc[c] = "idle" /\ Free
  /\ m_state # "STOPPED"
  /\ ret' = [ret EXCEPT ![c] = "false"]
  /\ mine' = [mine EXCEPT ![c] = 0]
  /\ UNCHANGED <<threadVars, pc, target>>

StartFailed(c) ==
  /\ CanFail
  /\ pc[c] = "idle" /\ Free
  /\ m_state = "STOPPED"
  /\ ret' = [ret EXCEPT ![c] = "false"]
  /\ mine' = [mine EXCEPT ![c] = 0]
  /\ UNCHANGED <<threadVars, pc, target>>

\* Mutant: the previous thread is detached, not joined.
Bug_StartCreate(c) ==
  /\ pc[c] = "idle" /\ Free
  /\ m_state = "STOPPED"
  /\ m_thread < MaxGen
  /\ m_state' = "STARTING"
  /\ m_thread' = m_thread + 1
  /\ tpc' = [tpc EXCEPT ![m_thread + 1] = "created"]
  /\ mine' = [mine EXCEPT ![c] = m_thread + 1]
  /\ pc' = [pc EXCEPT ![c] = "starting"]
  /\ ret' = [ret EXCEPT ![c] = "none"]
  /\ UNCHANGED <<m_mutex, stopReq, started, target>>

\* The assignment to m_thread joins the previous thread, which has nothing left
\* to do that needs m_mutex.
StartCreate(c) ==
  /\ pc[c] = "idle" /\ Free
  /\ m_state = "STOPPED"
  /\ m_thread < MaxGen
  /\ m_thread # 0 => tpc[m_thread] = "exited"
  /\ m_state' = "STARTING"
  /\ m_thread' = m_thread + 1
  /\ tpc' = [tpc EXCEPT ![m_thread + 1] = "created"]
  /\ mine' = [mine EXCEPT ![c] = m_thread + 1]
  /\ pc' = [pc EXCEPT ![c] = "starting"]
  /\ ret' = [ret EXCEPT ![c] = "none"]
  /\ UNCHANGED <<m_mutex, stopReq, started, target>>

\* fut.wait() is over; the answer is the state as it is by now.
StartReturn(c) ==
  /\ pc[c] = "starting" /\ mine[c] \in started
  /\ pc' = [pc EXCEPT ![c] = "idle"]
  /\ ret' = [ret EXCEPT ![c] = IF m_state = "RUNNING" THEN "true" ELSE "false"]
  /\ UNCHANGED <<threadVars, mine, target>>

-----------------------------------------------------------------------------
\* Stop (on a STOPPED thread it returns at once and changes nothing)

StopLock(c) ==
  /\ pc[c] = "idle" /\ Free
  /\ m_state # "STOPPED"
  /\ target' = [target EXCEPT ![c] = m_thread]
  /\ IF m_state = "STOPPING"
     THEN pc' = [pc EXCEPT ![c] = "request"] /\ UNCHANGED <<m_state, m_mutex>>
     ELSE /\ m_state' = "STOPPING"
          /\ m_mutex' = c
          /\ pc' = [pc EXCEPT ![c] = "hook"]
  /\ UNCHANGED <<m_thread, tpc, stopReq, started, mine, ret>>

\* OnStopping() returns and m_mutex is released.
StopHook(c) ==
  /\ pc[c] = "hook"
  /\ m_mutex' = NoOne
  /\ pc' = [pc EXCEPT ![c] = "request"]
  /\ UNCHANGED <<m_state, m_thread, tpc, stopReq, started, mine, target, ret>>

\* m_thread.request_stop(), without m_mutex: it reaches the thread m_thread
\* holds by now.
StopRequest(c) ==
  /\ pc[c] = "request"
  /\ stopReq' = stopReq \cup {m_thread}
  /\ pc' = [pc EXCEPT ![c] = "wait"]
  /\ UNCHANGED <<m_state, m_mutex, m_thread, tpc, started, mine, target, ret>>

\* The predicate of m_cv.wait, evaluated with m_mutex held.
StopWait(c) ==
  /\ pc[c] = "wait" /\ Free
  /\ IF m_state = "STOPPED"
     THEN pc' = [pc EXCEPT ![c] = "join"] /\ m_mutex' = c
     ELSE pc' = [pc EXCEPT ![c] = "blocked"] /\ m_mutex' = m_mutex
  /\ UNCHANGED <<m_state, m_thread, tpc, stopReq, started, mine, target, ret>>

StopJoin(c) ==
  /\ pc[c] = "join"
  /\ tpc[m_thread] = "exited"
  /\ m_mutex' = NoOne
  /\ pc' = [pc EXCEPT ![c] = "idle"]
  /\ UNCHANGED <<m_state, m_thread, tpc, stopReq, started, mine, target, ret>>

-----------------------------------------------------------------------------
\* runInternal, by the thread of generation g

\* The state becomes RUNNING whatever it was.
ThreadEnter(g) ==
  /\ tpc[g] = "created" /\ Free
  /\ m_state' = "RUNNING"
  /\ tpc' = [tpc EXCEPT ![g] = "entered"]
  /\ UNCHANGED <<m_mutex, m_thread, stopReq, started, callerVars>>

ThreadStarted(g) ==
  /\ tpc[g] = "entered"
  /\ started' = started \cup {g}
  /\ tpc' = [tpc EXCEPT ![g] = "run"]
  /\ UNCHANGED <<m_state, m_mutex, m_thread, stopReq, callerVars>>

\* Run(st) returns or throws: when asked to stop, or by itself.
RunEnds(g) ==
  /\ tpc[g] = "run"
  /\ tpc' = [tpc EXCEPT ![g] = "ending"]
  /\ UNCHANGED <<m_state, m_mutex, m_thread, stopReq, started, callerVars>>

ThreadStopped(g) ==
  /\ tpc[g] = "ending" /\ Free
  /\ m_state' = "STOPPED"
  /\ tpc' = [tpc EXCEPT ![g] = "notify"]
  /\ UNCHANGED <<m_mutex, m_thread, stopReq, started, callerVars>>

\* m_cv.notify_all, after m_mutex was released
ThreadNotify(g) ==
  /\ tpc[g] = "notify"
  /\ tpc' = [tpc EXCEPT ![g] = "exited"]
  /\ pc' = [c \in Callers |-> IF pc[c] = "blocked" THEN "wait" ELSE pc[c]]
  /\ UNCHANGED <<m_state, m_mutex, m_thread, stopReq, started, mine, target,
                 ret>>

-----------------------------------------------------------------------------
\* A plain thread: OnStopping does nothing, the body heeds its stop_token.

RunMayEnd(g) == OneShot \/ g \in stopReq

StartStep(c) == StartRefused(c) \/ StartFailed(c) \/ StartCreate(c)

CallStep(c) ==
  \/ StartReturn(c)
  \/ StopHook(c) \/ StopRequest(c) \/ StopWait(c) \/ StopJoin(c)

ThreadStep(g) ==
  \/ ThreadEnter(g) \/ ThreadStarted(g) \/ ThreadStopped(g) \/ ThreadNotify(g)

ThreadNext ==
  \/ \E c \in Callers : StartStep(c) \/ StopLock(c) \/ CallStep(c)
  \/ \E g \in Gens : ThreadStep(g) \/ (RunMayEnd(g) /\ RunEnds(g))

ThreadSpec == ThreadInit /\ [][ThreadNext]_allVars

-----------------------------------------------------------------------------
(***************************************************************************)
(* Properties                                                              *)
(***************************************************************************)

\* Every variable keeps its type.
ThreadTypeOK ==
  /\ m_state \in {"STOPPED", "STARTING", "RUNNING", "STOPPING"}
  /\ m_mutex \in Callers \cup {NoOne}
  /\ m_thread \in 0..MaxGen
  /\ tpc \in [Gens -> Live \cup {"none", "notify", "exited"}]
  /\ stopReq \subseteq Gens
  /\ started \subseteq Gens
  /\ pc \in [Callers -> {"idle", "starting", "hook", "request", "wait",
                         "blocked", "join"}]
  /\ mine \in [Callers -> 0..MaxGen]
  /\ target \in [Callers -> 0..MaxGen]
  /\ ret \in [Callers -> {"none", "true", "false"}]

\* m_state tells the truth about the body: STOPPED exactly when no thread is on
\* its way into, inside or on its way out of Run.
StoppedMeansOver ==
  m_state = "STOPPED" <=> \A g \in Gens : tpc[g] \notin Live

\* When a Stop that had something to stop returns, the thread it was called on
\* has exited, whoever else was starting and stopping the object; and at any time
\* STOPPED means that no body is under way.
StopIsSynchronous ==
  []StoppedMeansOver /\
  [][\A c \in Callers : pc[c] = "join" /\ pc'[c] = "idle"
                          => tpc'[target[c]] = "exited"]_allVars

=============================================================================
