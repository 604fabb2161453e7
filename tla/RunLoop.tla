------------------------------ MODULE RunLoop ------------------------------
(***************************************************************************)
(* ZmEvBaseRunLoop (util/zm_util_evbase_runloop): the libevent loop thread *)
(* built on ZmThread.  Loop() starts the thread and waits for the loop;    *)
(* Stop() of ZmThread calls OnStopping, which posts the EXIT control event.*)
(* The thread steps of ZmThread are reused; Run is spelled out here.       *)
(*                                                                         *)
(* libevent itself is modelled by what this code uses: event_active adds   *)
(* to the pending bits of the control event, the loop dispatches them in   *)
(* one callback and leaves some time after event_base_loopexit.            *)
(***************************************************************************)
EXTENDS ZmThread

CONSTANTS
  LoopCallers,   \* the callers that use Loop()
  InOrder        \* Loop() is called once, and whoever stops or destroys the loop
                 \* knows that it has returned

ASSUME LoopAssumption == LoopCallers \subseteq Callers /\ InOrder \in BOOLEAN

VARIABLES
  mutex_loop,     \* the caller that keeps _mutex_loop over Start(), or NoOne
  b_looped, b_run_finished,
  evbase,         \* _evbase is not null
  eventCtrl,      \* _eventCtrl is not null
  pending,        \* control bits activated and not yet dispatched
  exitReq,        \* event_base_loopexit was called
  rpc,            \* where the loop thread is in Run
  lpc,            \* where each caller is in Loop, or in the destructor
  lret            \* what its last Loop() returned

baseVars == <<evbase, eventCtrl, pending, exitReq>>
loopVars == <<mutex_loop, b_looped, b_run_finished, baseVars, rpc, lpc, lret>>
vars     == <<allVars, loopVars>>

LoopFree == mutex_loop = NoOne

Init ==
  /\ ThreadInit
  /\ mutex_loop = NoOne
  /\ b_looped = FALSE /\ b_run_finished = FALSE
  /\ evbase = FALSE /\ eventCtrl = FALSE /\ pending = {} /\ exitReq = FALSE
  /\ rpc = "out"
  /\ lpc = [c \in Callers |-> "idle"]
  /\ lret = [c \in Callers |-> "none"]

IdleCaller(c) == pc[c] = "idle" /\ lpc[c] = "idle"
Destroyed     == \E c \in Callers : lpc[c] = "dtor"

\* _cv_loop.notify_one
NotifyOneLooper ==
  IF \E c \in Callers : lpc[c] = "blocked"
  THEN \E c \in Callers : lpc[c] = "blocked" /\ lpc' = [lpc EXCEPT ![c] = "woken"]
  ELSE lpc' = lpc

-----------------------------------------------------------------------------
\* Loop

LoopEnter(c) ==
  /\ c \in LoopCallers /\ IdleCaller(c) /\ LoopFree /\ ~Destroyed
  /\ IF b_looped
     THEN lret' = [lret EXCEPT ![c] = "true"] /\ UNCHANGED <<mutex_loop, lpc>>
     ELSE /\ mutex_loop' = c
          /\ lpc' = [lpc EXCEPT ![c] = "start"]
          /\ lret' = [lret EXCEPT ![c] = "none"]
  /\ UNCHANGED <<allVars, b_looped, b_run_finished, baseVars, rpc>>

\* Start(), called with _mutex_loop held ...
LoopStart(c) ==
  /\ lpc[c] = "start"
  /\ StartStep(c)
  /\ lpc' = [lpc EXCEPT ![c] = "started"]
  /\ UNCHANGED <<mutex_loop, b_looped, b_run_finished, baseVars, rpc, lret>>

\* ... and kept until the thread has set its promise.
LoopStartReturn(c) ==
  /\ StartReturn(c)
  /\ UNCHANGED loopVars

\* The predicate of _cv_loop.wait; waiting releases _mutex_loop.
LoopWait(c) ==
  /\ \/ lpc[c] = "started" /\ pc[c] = "idle"
     \/ lpc[c] = "woken" /\ LoopFree
  /\ IF b_looped \/ b_run_finished
     THEN /\ lpc' = [lpc EXCEPT ![c] = "idle"]
          /\ lret' = [lret EXCEPT ![c] = IF b_looped THEN "true" ELSE "false"]
     ELSE lpc' = [lpc EXCEPT ![c] = "blocked"] /\ lret' = lret
  /\ mutex_loop' = NoOne
  /\ UNCHANGED <<allVars, b_looped, b_run_finished, baseVars, rpc>>

-----------------------------------------------------------------------------
\* Control and Stop

Control ==
  /\ LoopFree
  /\ pending' = IF m_state \in {"RUNNING", "STOPPING"} /\ eventCtrl
                THEN pending \cup {"EXIT"} ELSE pending

\* Control(CONTROL_LOOP_EXIT) by a user
ControlExit(c) ==
  /\ IdleCaller(c) /\ ~Destroyed
  /\ Control
  /\ UNCHANGED <<allVars, mutex_loop, b_looped, b_run_finished, evbase,
                 eventCtrl, exitReq, rpc, lpc, lret>>

Stop(c) ==
  /\ lpc[c] = "idle" /\ ~Destroyed
  /\ StopLock(c)
  /\ UNCHANGED loopVars

\* ~ZmThread, when nobody is in a call: Stop() again, but the object is no
\* longer a ZmEvBaseRunLoop, so that the OnStopping it reaches does nothing.
Destroy(c) ==
  /\ ~Destroyed /\ \A d \in Callers : IdleCaller(d)
  /\ StopLock(c)
  /\ lpc' = [lpc EXCEPT ![c] = "dtor"]
  /\ UNCHANGED <<mutex_loop, b_looped, b_run_finished, baseVars, rpc, lret>>

DestroyHook(c) ==
  /\ lpc[c] = "dtor" /\ StopHook(c)
  /\ UNCHANGED loopVars

\* Mutant: OnStopping posts nothing.
Bug_OnStopping(c) ==
  /\ lpc[c] = "idle" /\ StopHook(c)
  /\ UNCHANGED loopVars

\* OnStopping, with m_mutex held
OnStopping(c) ==
  /\ lpc[c] = "idle" /\ StopHook(c)
  /\ Control
  /\ UNCHANGED <<mutex_loop, b_looped, b_run_finished, evbase, eventCtrl,
                 exitReq, rpc, lpc, lret>>

StopRest(c) ==
  /\ StopRequest(c) \/ StopWait(c) \/ StopJoin(c)
  /\ UNCHANGED loopVars

-----------------------------------------------------------------------------
\* Run, on the loop thread

InRun(g) == tpc[g] = "run"

\* freeEventObjects, event_base_new (which may fail)
RunOpen(g) ==
  /\ InRun(g) /\ rpc = "out"
  /\ \/ evbase' = TRUE /\ rpc' = "opened"
     \/ evbase' = FALSE /\ rpc' = "failed"
  /\ eventCtrl' = FALSE /\ pending' = {} /\ exitReq' = FALSE
  /\ UNCHANGED <<allVars, mutex_loop, b_looped, b_run_finished, lpc, lret>>

RunCtrl(g) ==
  /\ InRun(g) /\ rpc = "opened"
  /\ eventCtrl' = TRUE
  /\ pending' = {"SUCCESS"}
  /\ rpc' = "loop"
  /\ UNCHANGED <<allVars, mutex_loop, b_looped, b_run_finished, evbase,
                 exitReq, lpc, lret>>

\* OnEventCtrlCB: EXIT first, then SUCCESS
RunDispatch(g) ==
  /\ InRun(g) /\ rpc = "loop" /\ pending # {}
  /\ pending' = {}
  /\ exitReq' = (exitReq \/ "EXIT" \in pending)
  /\ rpc' = IF "SUCCESS" \in pending THEN "success" ELSE "loop"
  /\ UNCHANGED <<allVars, mutex_loop, b_looped, b_run_finished, evbase,
                 eventCtrl, lpc, lret>>

RunLooped(g) ==
  /\ InRun(g) /\ rpc = "success" /\ LoopFree
  /\ b_looped' = TRUE
  /\ rpc' = "notify"
  /\ UNCHANGED <<allVars, mutex_loop, b_run_finished, baseVars, lpc, lret>>

RunNotify(g) ==
  /\ InRun(g) /\ rpc = "notify"
  /\ NotifyOneLooper
  /\ rpc' = "loop"
  /\ UNCHANGED <<allVars, mutex_loop, b_looped, b_run_finished, baseVars, lret>>

\* event_base_loop returns.
RunLeave(g) ==
  /\ InRun(g) /\ rpc = "loop" /\ exitReq
  /\ rpc' = "left"
  /\ UNCHANGED <<allVars, mutex_loop, b_looped, b_run_finished, baseVars, lpc,
                 lret>>

\* Mutant: the loop's objects go before its flags change.
Bug_RunFlags(g) ==
  /\ InRun(g) /\ rpc = "left" /\ LoopFree
  /\ evbase' = FALSE /\ eventCtrl' = FALSE /\ pending' = {} /\ exitReq' = FALSE
  /\ b_run_finished' = TRUE
  /\ NotifyOneLooper
  /\ rpc' = "flagged"
  /\ UNCHANGED <<allVars, mutex_loop, b_looped, lret>>

\* The flags change, under _mutex_loop, before anything is freed.
RunFlags(g) ==
  /\ InRun(g) /\ rpc = "left" /\ LoopFree
  /\ b_looped' = FALSE /\ b_run_finished' = TRUE
  /\ NotifyOneLooper
  /\ rpc' = "flagged"
  /\ UNCHANGED <<allVars, mutex_loop, baseVars, lret>>

RunFree(g) ==
  /\ InRun(g) /\ rpc = "flagged" /\ LoopFree
  /\ evbase' = FALSE /\ eventCtrl' = FALSE /\ pending' = {} /\ exitReq' = FALSE
  /\ rpc' = "done"
  /\ UNCHANGED <<allVars, mutex_loop, b_looped, b_run_finished, lpc, lret>>

RunFailed(g) ==
  /\ InRun(g) /\ rpc = "failed" /\ LoopFree
  /\ b_run_finished' = TRUE
  /\ NotifyOneLooper
  /\ rpc' = "done"
  /\ UNCHANGED <<allVars, mutex_loop, b_looped, baseVars, lret>>

RunReturn(g) ==
  /\ rpc = "done" /\ RunEnds(g)
  /\ rpc' = "out"
  /\ UNCHANGED <<mutex_loop, b_looped, b_run_finished, baseVars, lpc, lret>>

Run(g) ==
  \/ RunOpen(g) \/ RunCtrl(g) \/ RunDispatch(g) \/ RunLooped(g) \/ RunNotify(g)
  \/ RunLeave(g) \/ RunFlags(g) \/ RunFree(g) \/ RunFailed(g) \/ RunReturn(g)

LoopThread(g) == ThreadStep(g) /\ UNCHANGED loopVars

-----------------------------------------------------------------------------
LoopStep(c) == LoopStart(c) \/ LoopStartReturn(c) \/ LoopWait(c)
StopStep(c) == OnStopping(c) \/ DestroyHook(c) \/ StopRest(c)
System ==
  \/ \E c \in Callers : LoopStep(c) \/ StopStep(c)
  \/ \E g \in Gens : LoopThread(g) \/ Run(g)

MayLoop(c) == InOrder => lret[c] = "none"
MayStop    == InOrder => \E c \in Callers : lret[c] # "none"

Next ==
  \/ System
  \/ \E c \in Callers :
       \/ MayLoop(c) /\ LoopEnter(c)
       \/ ControlExit(c)
       \/ MayStop /\ (Stop(c) \/ Destroy(c))

Spec == Init /\ [][Next]_vars

\* Everybody who can go on does, mutexes included; event_base_loop honours an
\* exit however often it is asked again.
Fairness ==
  /\ \A c \in Callers : SF_vars(LoopStep(c)) /\ SF_vars(StopStep(c))
  /\ \A g \in Gens : /\ SF_vars(LoopThread(g)) /\ SF_vars(Run(g))
                     /\ SF_vars(RunLeave(g))

LiveSpec == Spec /\ Fairness

-----------------------------------------------------------------------------
(***************************************************************************)
(* Properties                                                              *)
(***************************************************************************)

\* Every variable keeps its type, and _mutex_loop is kept exactly over Start().
TypeOK ==
  /\ ThreadTypeOK
  /\ mutex_loop \in LoopCallers \cup {NoOne}
  /\ \A c \in Callers : mutex_loop = c <=> lpc[c] \in {"start", "started"}
  /\ {b_looped, b_run_finished, evbase, eventCtrl, exitReq} \subseteq BOOLEAN
  /\ pending \subseteq {"SUCCESS", "EXIT"}
  /\ rpc \in {"out", "opened", "failed", "loop", "success", "notify", "left",
              "flagged", "done"}
  /\ lpc \in [Callers -> {"idle", "start", "started", "blocked", "woken",
                          "dtor"}]
  /\ lret \in [Callers -> {"none", "true", "false"}]

\* Whoever holds _mutex_loop and reads _b_looped may use _evbase and
\* _eventCtrl: they outlive the flag, through every stop, failure and restart.
LoopedMeansOpen == TypeOK /\ (b_looped => evbase /\ eventCtrl)

LoopReturns == \A c \in Callers : lpc[c] = "start" ~> lpc[c] = "idle"

StopEnds ==
  \A c \in Callers :
    pc[c] \in {"hook", "request", "wait", "blocked", "join"} /\ lpc[c] = "idle"
      ~> pc[c] = "idle"

\* Loop() returns, also when the thread cannot open its event base, and so does
\* every Stop(); the destructor's need not.
CallsReturn == LoopReturns /\ StopEnds
=============================================================================
