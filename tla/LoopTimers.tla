----------------------------- MODULE LoopTimers -----------------------------
(***************************************************************************)
(* The timers of ZmEvBaseRunLoop (util/zm_util_evbase_runloop) while the   *)
(* loop is up: AddTimer, StopTimer, ArmTimer, SetTimerInterval,            *)
(* RemoveTimer and the dispatch of due timers, called from other threads   *)
(* and from the timers' own callbacks.                                     *)
(*                                                                         *)
(* _mutex_loop is only held for single steps.  _mutex_ev is held across    *)
(* event_del, which on another thread than the loop's waits for the        *)
(* event's running callback.  Handles are never reused (_nextTimerId), so  *)
(* a handle is added once.  Time is abstracted: an armed timer may be due. *)
(***************************************************************************)
EXTENDS Naturals, FiniteSets

CONSTANTS
  Timers,         \* the handles
  OneShots,       \* those added with repeat = false
  Ext,            \* threads other than the loop's that use the timers
  Loop,           \* the loop thread
  Nobody,
  Uses            \* how the timers may be used

ASSUME TimersAssumption ==
  /\ OneShots \subseteq Timers
  /\ Loop \notin Ext /\ Nobody \notin Ext \cup Timers \cup {Loop}
  /\ Uses \subseteq {"outside", "inside", "any"}

VARIABLES
  use,         \* outside: periodic timers, by other threads, without the sweeps
               \* RemoveAllTimers and StopAllTimers; inside: any timers, by the
               \* loop thread; any: both
  entry,       \* a handle's entry in _timers
  ev,          \* its event
  armed,       \* events pending in libevent
  retired,     \* _retired: entries left for the next dispatch to free
  running,     \* _runningTimerId
  current,     \* libevent's current event, whose callback is executing
  disp,        \* where the loop thread is in OnTimerDispatchCB
  mutex_ev,
  op,          \* the call each thread is in
  known,       \* handles returned by AddTimer
  removed,     \* handles for which RemoveTimer has returned true (history)
  fires,       \* how often a callback was started (history, stops at 2)
  bad          \* a freed event or entry was touched (history)

timerVars == <<use, entry, ev, armed, retired, running, current, disp, mutex_ev, op,
          known, removed, fires, bad>>

Threads == Ext \cup {Loop}
NoCall  == [kind |-> "none", t |-> Nobody, at |-> "idle", onStack |-> FALSE]
Kinds   == {"stop", "arm", "interval", "remove"}

TimersInit ==
  /\ use \in Uses
  /\ entry = [t \in Timers |-> "new"]
  /\ ev = [t \in Timers |-> "null"]
  /\ armed = {} /\ retired = {}
  /\ running = Nobody /\ current = Nobody /\ disp = "idle"
  /\ mutex_ev = Nobody
  /\ op = [x \in Threads |-> NoCall]
  /\ known = {} /\ removed = {}
  /\ fires = [t \in Timers |-> 0]
  /\ bad = FALSE

\* A thread that may make a call now: the loop thread from a timer's callback or
\* from that of another event of the same event_base.
MayCall(x) ==
  /\ op[x] = NoCall
  /\ x = Loop => use # "outside" /\ disp \in {"idle", "callback"}
  /\ x \in Ext => use # "inside"

At(x, p)      == op' = [op EXCEPT ![x].at = p]
Return(x)     == op' = [op EXCEPT ![x] = NoCall]
Touched(t)    == ev[t] = "freed"

-----------------------------------------------------------------------------
\* AddTimer: the entry is registered under _mutex_loop ...
AddRegister(x, t) ==
  /\ MayCall(x)
  /\ entry[t] = "new" /\ (use = "outside" => t \notin OneShots)
  /\ entry' = [entry EXCEPT ![t] = "live"]
  /\ op' = [op EXCEPT ![x] = [NoCall EXCEPT !.kind = "add", !.t = t, !.at = "new"]]
  /\ UNCHANGED <<use, ev, armed, retired, running, current, disp, mutex_ev, known,
                 removed, fires, bad>>

\* ... and its event is made and armed without a lock.
AddArm(x) ==
  LET t == op[x].t IN
  /\ op[x].kind = "add"
  /\ bad' = (bad \/ entry[t] = "gone")
  /\ ev' = [ev EXCEPT ![t] = "ok"]
  /\ armed' = armed \cup {t}
  /\ known' = known \cup {t}
  /\ Return(x)
  /\ UNCHANGED <<use, entry, retired, running, current, disp, mutex_ev, removed,
                 fires>>

-----------------------------------------------------------------------------
\* StopTimer, ArmTimer, SetTimerInterval, RemoveTimer on a handle; the sweeps
\* make these calls for every entry that is not retired.
Call(x, k, t) ==
  /\ MayCall(x)
  /\ t \in known \/ (use # "outside" /\ k \in {"stop", "remove"} /\ entry[t] = "live")
  /\ op' = [op EXCEPT ![x] = [NoCall EXCEPT !.kind = k, !.t = t, !.at = "want"]]
  /\ UNCHANGED <<use, entry, ev, armed, retired, running, current, disp, mutex_ev,
                 known, removed, fires, bad>>

\* Both mutexes are taken and the handle is looked up.  The call ends here
\* when there is nothing to do; otherwise _mutex_ev is kept.
Found(k, t) ==
  /\ entry[t] = "live"
  /\ CASE k = "stop"     -> ev[t] # "null" /\ t \in armed
       [] k = "arm"      -> ev[t] # "null"
       [] k = "interval" -> ev[t] # "null" /\ t \in armed
       [] k = "remove"   -> ev[t] # "null"

LookupFound(x) ==
  LET t == op[x].t  k == op[x].kind IN
  /\ op[x].at = "want" /\ mutex_ev = Nobody
  /\ Found(k, t)
  /\ mutex_ev' = x
  /\ entry' = IF k = "remove" THEN [entry EXCEPT ![t] = "retired"] ELSE entry
  /\ op' = [op EXCEPT ![x].at = "del", ![x].onStack = (running = t)]
  /\ UNCHANGED <<use, ev, armed, retired, running, current, disp, known, removed,
                 fires, bad>>

\* An invalid handle, a timer that is not armed, or an entry without its event
\* yet, which RemoveTimer erases.
LookupDone(x) ==
  LET t == op[x].t  k == op[x].kind IN
  /\ op[x].at = "want" /\ mutex_ev = Nobody
  /\ ~Found(k, t)
  /\ IF k = "remove" /\ entry[t] = "live"
     THEN entry' = [entry EXCEPT ![t] = "gone"] /\ removed' = removed \cup {t}
     ELSE UNCHANGED <<entry, removed>>
  /\ Return(x)
  /\ UNCHANGED <<use, ev, armed, retired, running, current, disp, mutex_ev, known,
                 fires, bad>>

\* event_del: off the pending queue at once, then, on another thread than the
\* loop's, a wait for the callback.
Del(x) ==
  LET t == op[x].t IN
  /\ op[x].at = "del"
  /\ bad' = (bad \/ Touched(t))
  /\ armed' = armed \ {t}
  /\ At(x, "wait")
  /\ UNCHANGED <<use, entry, ev, retired, running, current, disp, mutex_ev, known,
                 removed, fires>>

\* Mutant: event_del that does not wait.
Bug_DelDone(x) == x \in Threads

DelDone(x) == x = Loop \/ current # op[x].t

StopDone(x) ==
  /\ op[x].at = "wait" /\ op[x].kind = "stop" /\ DelDone(x)
  /\ mutex_ev' = Nobody
  /\ Return(x)
  /\ UNCHANGED <<use, entry, ev, armed, retired, running, current, disp, known,
                 removed, fires, bad>>

\* event_add of ArmEvent
Arm(x) ==
  LET t == op[x].t IN
  /\ op[x].at = "wait" /\ op[x].kind \in {"arm", "interval"} /\ DelDone(x)
  /\ bad' = (bad \/ Touched(t))
  /\ armed' = armed \cup {t}
  /\ mutex_ev' = Nobody
  /\ Return(x)
  /\ UNCHANGED <<use, entry, ev, retired, running, current, disp, known, removed,
                 fires>>

\* Mutant: the event is freed and erased although its callback is on the stack.
Bug_RemoveDone(x) ==
  LET t == op[x].t IN
  /\ op[x].at = "wait" /\ op[x].kind = "remove" /\ DelDone(x)
  /\ bad' = (bad \/ Touched(t))
  /\ ev' = [ev EXCEPT ![t] = "freed"]
  /\ entry' = [entry EXCEPT ![t] = "gone"]
  /\ removed' = removed \cup {t}
  /\ mutex_ev' = Nobody
  /\ Return(x)
  /\ UNCHANGED <<use, armed, retired, running, current, disp, known, fires>>

\* The event is freed and the entry erased, unless the callback was on the
\* stack: then the next dispatch does both.
RemoveDone(x) ==
  LET t == op[x].t IN
  /\ op[x].at = "wait" /\ op[x].kind = "remove" /\ DelDone(x)
  /\ IF op[x].onStack
     THEN retired' = retired \cup {t} /\ UNCHANGED <<ev, entry, bad>>
     ELSE /\ bad' = (bad \/ Touched(t))
          /\ ev' = [ev EXCEPT ![t] = "freed"]
          /\ entry' = [entry EXCEPT ![t] = "gone"]
          /\ retired' = retired
  /\ removed' = removed \cup {t}
  /\ mutex_ev' = Nobody
  /\ Return(x)
  /\ UNCHANGED <<use, armed, running, current, disp, known, fires>>

-----------------------------------------------------------------------------
\* The loop thread: libevent takes a due event; a periodic one is re-armed
\* before its callback, a one-shot is no longer pending.
Dispatch(t) ==
  /\ disp = "idle" /\ op[Loop] = NoCall /\ t \in armed
  /\ current' = t
  /\ armed' = IF t \in OneShots THEN armed \ {t} ELSE armed
  /\ fires' = [fires EXCEPT ![t] = IF @ < 2 THEN @ + 1 ELSE @]
  /\ disp' = "begin"
  /\ UNCHANGED <<use, entry, ev, retired, running, mutex_ev, op, known, removed, bad>>

\* OnTimerDispatchCB up to the callback: drainRetiredLocked frees what earlier
\* callbacks left behind.
DispatchBegin ==
  LET drained == retired \ {current} IN
  /\ disp = "begin"
  /\ bad' = (bad \/ entry[current] = "gone" \/ \E r \in drained : Touched(r))
  /\ ev' = [r \in Timers |-> IF r \in drained THEN "freed" ELSE ev[r]]
  /\ armed' = armed \ drained
  /\ entry' = [r \in Timers |-> IF r \in drained THEN "gone" ELSE entry[r]]
  /\ retired' = retired \ drained
  /\ running' = current
  /\ disp' = "callback"
  /\ UNCHANGED <<use, current, mutex_ev, op, known, removed, fires>>

\* Mutant: the end of a dispatch takes _mutex_ev as well.
BugLock_DispatchEnd ==
  /\ disp = "callback" /\ op[Loop] = NoCall /\ mutex_ev = Nobody
  /\ bad' = (bad \/ entry[current] = "gone")
  /\ IF current \in OneShots /\ entry[current] = "live"
     THEN /\ entry' = [entry EXCEPT ![current] = "retired"]
          /\ armed' = armed \ {current}
          /\ retired' = retired \cup {current}
     ELSE UNCHANGED <<entry, armed, retired>>
  /\ running' = Nobody /\ current' = Nobody /\ disp' = "idle"
  /\ UNCHANGED <<use, ev, mutex_ev, op, known, removed, fires>>

\* After the callback: a one-shot that nobody removed retires itself.
DispatchEnd ==
  /\ disp = "callback" /\ op[Loop] = NoCall
  /\ bad' = (bad \/ entry[current] = "gone")
  /\ IF current \in OneShots /\ entry[current] = "live"
     THEN /\ entry' = [entry EXCEPT ![current] = "retired"]
          /\ armed' = armed \ {current}
          /\ retired' = retired \cup {current}
     ELSE UNCHANGED <<entry, armed, retired>>
  /\ running' = Nobody /\ current' = Nobody /\ disp' = "idle"
  /\ UNCHANGED <<use, ev, mutex_ev, op, known, removed, fires>>

-----------------------------------------------------------------------------
Begin == \E x \in Threads, t \in Timers :
           AddRegister(x, t) \/ \E k \in Kinds : Call(x, k, t)

TimerCallStep(x) ==
  \/ AddArm(x) \/ LookupFound(x) \/ LookupDone(x) \/ Del(x)
  \/ StopDone(x) \/ Arm(x) \/ RemoveDone(x)

TimersNext ==
  \/ Begin
  \/ \E x \in Threads : TimerCallStep(x)
  \/ \E t \in Timers : Dispatch(t)
  \/ DispatchBegin \/ DispatchEnd

TimersSpec == TimersInit /\ [][TimersNext]_timerVars

\* Calls go on (a mutex that is free again and again is obtained) and callbacks
\* return; no timer has to become due.
TimersFairness ==
  /\ \A x \in Threads : SF_timerVars(TimerCallStep(x))
  /\ WF_timerVars(DispatchBegin) /\ SF_timerVars(DispatchEnd)

TimersLiveSpec == TimersSpec /\ TimersFairness

-----------------------------------------------------------------------------
(***************************************************************************)
(* Properties                                                              *)
(***************************************************************************)

\* Every variable keeps its type, and _mutex_ev is held exactly by a call that
\* has looked its handle up and has not finished with its event.
TimersTypeOK ==
  /\ use \in Uses
  /\ \A x \in Threads : mutex_ev = x <=> op[x].at \in {"del", "wait"}
  /\ entry \in [Timers -> {"new", "live", "retired", "gone"}]
  /\ ev \in [Timers -> {"null", "ok", "freed"}]
  /\ armed \subseteq Timers /\ retired \subseteq Timers
  /\ running \in Timers \cup {Nobody} /\ current \in Timers \cup {Nobody}
  /\ disp \in {"idle", "begin", "callback"}
  /\ mutex_ev \in Threads \cup {Nobody}
  /\ op \in [Threads -> [kind : Kinds \cup {"none", "add"},
                         t : Timers \cup {Nobody},
                         at : {"idle", "new", "want", "del", "wait"},
                         onStack : BOOLEAN]]
  /\ known \subseteq Timers /\ removed \subseteq Timers
  /\ fires \in [Timers -> 0..2]
  /\ bad \in BOOLEAN

RetiredIsFreedLater ==
  \A t \in Timers :
    entry[t] = "retired" =>
      \/ t \in retired
      \/ \E x \in Threads : op[x].kind = "remove" /\ op[x].t = t
                            /\ op[x].at \in {"del", "wait"}

OneShotFiresOnce == \A t \in OneShots : fires[t] <= 1

\* No call, dispatch or sweep ever touches an event or an entry that was freed,
\* and nothing leaks instead: what is retired is on the list of the next dispatch
\* or in the hands of a RemoveTimer.  A one-shot timer fires at most once, also
\* when it is armed again from its own callback.
NoUseAfterFree == TimersTypeOK /\ ~bad /\ RetiredIsFreedLater /\ OneShotFiresOnce

RemovedNeverFires ==
  [][\A t \in Timers : current' = t /\ current # t => t \notin removed]_timerVars

RemovedIsNotRunning ==
  [][\A x \in Ext : op[x].kind = "remove" /\ op'[x] = NoCall
                      => current' # op[x].t]_timerVars

\* Once RemoveTimer has returned, the callback never starts again, whichever
\* thread removed it and whatever was being dispatched; and when another thread
\* removed it, it is not running any more either.
RemovedIsOver == RemovedNeverFires /\ RemovedIsNotRunning

\* Every call of the timer interface returns.
TimerCallsReturn ==
  \A x \in Threads : op[x].kind # "none" ~> op[x].kind = "none"
=============================================================================
