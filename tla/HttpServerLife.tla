--------------------------- MODULE HttpServerLife ---------------------------
(***************************************************************************)
(* The process-wide life of ZmHttpServer (net/zm_net_http_server): Init,   *)
(* Open, Close and DrainAndClose, called by any thread; the run thread     *)
(* that carries app().run(); and the requests DrainAndClose waits for.     *)
(*                                                                         *)
(* drogon is modelled by what the code relies on: run() enters its loop,   *)
(* executes the beginning advice there, returns after a quit() that found  *)
(* the loop running, and may throw.  Everything the condition variable is  *)
(* waited for changes under s_stateMtx, so testing a predicate and         *)
(* blocking are one step.  Registering listeners and routes is over.       *)
(*                                                                         *)
(* Atomics are as on the x64 of the project file: one is ordered only      *)
(* where it matters, between the store of s_draining and the read of the   *)
(* counter, with nothing but logging in between.                           *)
(***************************************************************************)
EXTENDS Naturals, FiniteSets

CONSTANTS
  Callers, Requests,
  Drainers,     \* bound: the callers that may call DrainAndClose
  Probes,       \* the requests for /ready and /metrics
  NoOne,
  MaxOpens,     \* bound on the run threads
  MaxThrows,    \* bound on app().run() throwing
  MayTimeout,   \* Open's 15 seconds may run out
  OneAtStart    \* no other Close or Open while a Close waits for the start

ASSUME LifeAssumption ==
  /\ NoOne \notin Callers
  /\ IsFiniteSet(Requests) /\ Probes \subseteq Requests /\ Drainers \subseteq Callers
  /\ {MaxOpens, MaxThrows} \subseteq Nat
  /\ {MayTimeout, OneAtStart} \subseteq BOOLEAN

VARIABLES
  s_state, s_initClaimed, s_startReady, s_runError, s_closing, s_draining,
  s_runThread,   \* the run thread in the slot, 0 for none
  s_stateMtx,    \* who keeps it over a blocking call
  rpc,           \* each run thread: none, start, loop, up, caught, exited
  quitting,      \* quit() found the loop running
  throws,
  pc,            \* where each caller is
  blocked,       \* callers blocked in s_stateCv
  mine,          \* the run thread a Close has taken out of the slot
  kind,          \* the call: Init, Open, Close, drain, and what the drain came to:
                 \* drained, forced, or early: drained before its flag was seen
  req,           \* each request
  s_m_inflight,
  cut,           \* requests in a handler when a quit ended the loop (history)
  timedOut       \* an Open gave up (history)

stateVars == <<s_state, s_initClaimed>>
flagVars  == <<s_startReady, s_runError, s_closing, s_draining, s_runThread>>
runVars   == <<rpc, quitting, throws>>
callVars  == <<pc, blocked, mine, kind>>
reqVars   == <<req, s_m_inflight, cut>>
vars == <<stateVars, flagVars, s_stateMtx, runVars, callVars, reqVars, timedOut>>

Runs == 1..MaxOpens
Free == s_stateMtx = NoOne
Idle(c) == pc[c] = "idle"
Made == {g \in Runs : rpc[g] # "none"}
LoopRuns == \E g \in Runs : rpc[g] \in {"loop", "up"}

Init ==
  /\ s_state = "Uninit" /\ s_initClaimed = FALSE
  /\ s_startReady = FALSE /\ s_runError = FALSE /\ s_closing = FALSE
  /\ s_draining = FALSE /\ s_runThread = 0 /\ s_stateMtx = NoOne
  /\ rpc = [g \in Runs |-> "none"] /\ quitting = FALSE /\ throws = 0
  /\ pc = [c \in Callers |-> "idle"] /\ blocked = {}
  /\ mine = [c \in Callers |-> 0] /\ kind = [c \in Callers |-> "none"]
  /\ req = [r \in Requests |-> "new"] /\ s_m_inflight = 0 /\ cut = {}
  /\ timedOut = FALSE

Goto(c, place) == pc' = [pc EXCEPT ![c] = place]
Begin(c, call, place) == Goto(c, place) /\ kind' = [kind EXCEPT ![c] = call]
Return(c) == Begin(c, "none", "idle")

\* s_stateCv.notify_all
NotifyAll == blocked' = {}

\* app().quit() does nothing unless the loop is running.
Quit == quitting' = (quitting \/ LoopRuns)

-----------------------------------------------------------------------------
(***************************************************************************)
(* ZmHttpServer::Init                                                      *)
(***************************************************************************)

\* The compare-exchange of s_initClaimed; who fails returns.
InitClaim(c) ==
  /\ Idle(c) /\ ~s_initClaimed
  /\ s_initClaimed' = TRUE
  /\ Begin(c, "Init", "claimed")
  /\ UNCHANGED <<s_state, flagVars, s_stateMtx, runVars, blocked, mine, reqVars, timedOut>>

\* The options, advices and handlers are applied, then the state is set; where it
\* is not Uninit any more the claim is given back.
InitDone(c) ==
  /\ pc[c] = "claimed"
  /\ IF s_state = "Uninit"
     THEN s_state' = "Initialized" /\ UNCHANGED s_initClaimed
     ELSE s_initClaimed' = FALSE /\ UNCHANGED s_state
  /\ Return(c)
  /\ UNCHANGED <<flagVars, s_stateMtx, runVars, blocked, mine, reqVars, timedOut>>

-----------------------------------------------------------------------------
(***************************************************************************)
(* The run thread                                                          *)
(***************************************************************************)
InHandlers == {"counted", "handling", "refused"}
InLoop == InHandlers \cup {"sending"}

\* The loop ends: no coroutine goes on.
LoopEnds == req' = [r \in Requests |-> IF req[r] \in InLoop THEN "gone" ELSE req[r]]

RunEnters(g) ==
  /\ rpc[g] = "start"
  /\ rpc' = [rpc EXCEPT ![g] = "loop"]
  /\ UNCHANGED <<stateVars, flagVars, s_stateMtx, quitting, throws, callVars, reqVars,
                 timedOut>>

NotifyServerStarted(g) ==
  /\ rpc[g] = "loop" /\ Free
  /\ rpc' = [rpc EXCEPT ![g] = "up"]
  /\ s_startReady' = TRUE
  /\ NotifyAll
  /\ UNCHANGED <<stateVars, s_runError, s_closing, s_draining, s_runThread, s_stateMtx,
                 quitting, throws, pc, mine, kind, reqVars, timedOut>>

RunThrows(g) ==
  /\ rpc[g] \in {"start", "up"} /\ throws < MaxThrows
  /\ rpc' = [rpc EXCEPT ![g] = "caught"] /\ throws' = throws + 1
  /\ LoopEnds
  /\ UNCHANGED <<stateVars, flagVars, s_stateMtx, quitting, callVars, s_m_inflight, cut,
                 timedOut>>

\* RunServerLoop's handlers, and the end of the thread.
RunReports(g) ==
  /\ rpc[g] = "caught" /\ Free
  /\ rpc' = [rpc EXCEPT ![g] = "exited"]
  /\ s_runError' = TRUE
  /\ NotifyAll
  /\ UNCHANGED <<stateVars, s_startReady, s_closing, s_draining, s_runThread, s_stateMtx,
                 quitting, throws, pc, mine, kind, reqVars, timedOut>>

RunReturns(g) ==
  /\ rpc[g] = "up" /\ quitting
  /\ rpc' = [rpc EXCEPT ![g] = "exited"]
  /\ cut' = cut \cup {r \in Requests : req[r] = "handling"}
  /\ LoopEnds
  /\ UNCHANGED <<stateVars, flagVars, s_stateMtx, quitting, throws, callVars, s_m_inflight,
                 timedOut>>

-----------------------------------------------------------------------------
(***************************************************************************)
(* ZmHttpServer::Open, with listeners and routes in order                  *)
(***************************************************************************)
startReady == s_runError \/ s_startReady \/ s_state = "Closed"

\* A new ZmThread is started, in its slot; Open then waits for the signals.
StartRun(c) ==
  \E g \in Runs \ Made :
    /\ \A h \in Runs \ Made : g <= h
    /\ s_runThread' = g /\ rpc' = [rpc EXCEPT ![g] = "start"]
    /\ blocked' = blocked \cup {c} /\ Goto(c, "opening")

MayCall == OneAtStart => \A c \in Callers : pc[c] # "starting"

\* Up to the wait.  A thread still in the slot (an Open timed out) is destroyed,
\* which joins it with s_stateMtx held.
Open(c) ==
  /\ Idle(c) /\ Free /\ MayCall /\ s_state = "Initialized" /\ Made # Runs
  /\ kind' = [kind EXCEPT ![c] = "Open"]
  /\ s_state' = "Opened" /\ s_runError' = FALSE /\ s_startReady' = FALSE
  /\ IF s_runThread = 0
     THEN StartRun(c) /\ UNCHANGED s_stateMtx
     ELSE /\ s_stateMtx' = c /\ Goto(c, "replacing")
          /\ UNCHANGED <<s_runThread, rpc, blocked>>
  /\ UNCHANGED <<s_initClaimed, s_closing, s_draining, quitting, throws, mine, reqVars,
                 timedOut>>

OpenReplaced(c) ==
  /\ pc[c] = "replacing" /\ rpc[s_runThread] = "exited"
  /\ s_stateMtx' = NoOne
  /\ \/ StartRun(c) /\ UNCHANGED <<s_state, kind>>
     \/ /\ s_runThread' = 0 /\ s_state' = "Initialized" /\ Return(c)
        /\ UNCHANGED <<rpc, blocked>>
  /\ UNCHANGED <<s_initClaimed, s_startReady, s_runError, s_closing, s_draining, quitting,
                 throws, mine, reqVars, timedOut>>

\* The thread cannot be started.
OpenFails(c) ==
  /\ Idle(c) /\ Free /\ MayCall /\ s_state = "Initialized" /\ s_runThread = 0
  /\ s_runError' = FALSE /\ s_startReady' = FALSE
  /\ UNCHANGED <<stateVars, s_closing, s_draining, s_runThread, s_stateMtx, runVars,
                 callVars, reqVars, timedOut>>

\* Mutant: the error is looked at before the state.
Bug_OpenWakes(c) ==
  /\ pc[c] = "opening" /\ c \notin blocked /\ Free /\ startReady
  /\ IF s_runError
     THEN s_stateMtx' = c /\ Begin(c, "Open", "failing") /\ Quit
     ELSE Return(c) /\ UNCHANGED <<s_stateMtx, quitting>>
  /\ UNCHANGED <<stateVars, flagVars, rpc, throws, blocked, mine, reqVars, timedOut>>

\* A signal: a Close has taken over, or run() has thrown, or the loop runs.  (Nobody
\* notifies an Open without one; CallsReturn would miss it.)
OpenWakes(c) ==
  /\ pc[c] = "opening" /\ c \notin blocked /\ Free /\ startReady
  /\ IF s_state # "Closed" /\ s_runError
     THEN s_stateMtx' = c /\ Begin(c, "Open", "failing") /\ Quit
     ELSE Return(c) /\ UNCHANGED <<s_stateMtx, quitting>>
  /\ UNCHANGED <<stateVars, flagVars, rpc, throws, blocked, mine, reqVars, timedOut>>

\* run() has thrown: its thread is joined with s_stateMtx held.
OpenFailed(c) ==
  /\ pc[c] = "failing" /\ (s_runThread # 0 => rpc[s_runThread] = "exited")
  /\ s_runThread' = 0 /\ s_state' = "Initialized" /\ s_stateMtx' = NoOne
  /\ Return(c)
  /\ UNCHANGED <<s_initClaimed, s_startReady, s_runError, s_closing, s_draining, runVars,
                 blocked, mine, reqVars, timedOut>>

OpenTimeout(c) ==
  /\ MayTimeout
  /\ pc[c] = "opening" /\ Free /\ ~startReady
  /\ s_state' = "Initialized" /\ timedOut' = TRUE
  /\ Return(c) /\ blocked' = blocked \ {c}
  /\ UNCHANGED <<s_initClaimed, flagVars, s_stateMtx, runVars, mine, reqVars>>

-----------------------------------------------------------------------------
(***************************************************************************)
(* ZmHttpServer::Close and DrainAndClose                                   *)
(***************************************************************************)
\* The call goes on, as Close when it was not entered from DrainAndClose.
Stay(c, place) == Begin(c, IF Idle(c) THEN "Close" ELSE kind[c], place)

Block(c, place) ==
  /\ Stay(c, place) /\ blocked' = blocked \cup {c}
  /\ UNCHANGED <<s_state, s_closing, s_draining, s_runThread, quitting, mine>>

\* Mutant: the flag for other Closes is not set.
Bug_TakeOver(c) ==
  /\ mine' = [mine EXCEPT ![c] = s_runThread] /\ s_runThread' = 0
  /\ s_state' = "Closed"
  /\ Quit
  /\ Stay(c, "joining")
  /\ UNCHANGED <<s_closing, s_draining, blocked>>

\* The thread is moved out of its slot, the state is final, the loop is told.
TakeOver(c) ==
  /\ mine' = [mine EXCEPT ![c] = s_runThread] /\ s_runThread' = 0
  /\ s_state' = "Closed" /\ s_closing' = TRUE
  /\ Quit
  /\ Stay(c, "joining")
  /\ UNCHANGED <<s_draining, blocked>>

\* The state says what there is to close.
CloseNow(c) ==
  \/ /\ s_state \in {"Uninit", "Closed"}
     /\ s_draining' = FALSE /\ Return(c)
     /\ UNCHANGED <<s_state, s_closing, s_runThread, quitting, blocked, mine>>
  \/ /\ s_state = "Initialized"
     /\ s_state' = "Closed" /\ s_draining' = FALSE /\ Return(c) /\ NotifyAll
     /\ UNCHANGED <<s_closing, s_runThread, quitting, mine>>
  \/ /\ s_state = "Opened"
     /\ IF s_runThread # 0 /\ ~s_startReady /\ ~s_runError
        THEN Block(c, "starting") ELSE TakeOver(c)

\* Close is entered, from a caller or from DrainAndClose; another one that is
\* closing is waited for.
CloseEnter(c) ==
  /\ Free /\ MayCall
  /\ pc[c] \in {"idle", "close"}
  /\ IF s_closing THEN Block(c, "waiting") ELSE CloseNow(c)
  /\ UNCHANGED <<s_initClaimed, s_startReady, s_runError, s_stateMtx, rpc, throws,
                 reqVars, timedOut>>

CloseWakes(c) ==
  /\ pc[c] = "waiting" /\ c \notin blocked /\ Free
  /\ IF s_closing THEN Block(c, "waiting") ELSE CloseNow(c)
  /\ UNCHANGED <<s_initClaimed, s_startReady, s_runError, s_stateMtx, rpc, throws,
                 reqVars, timedOut>>

\* The loop runs, or run() has thrown.
CloseStarted(c) ==
  /\ pc[c] = "starting" /\ c \notin blocked /\ Free
  /\ IF s_startReady \/ s_runError THEN TakeOver(c) ELSE Block(c, "starting")
  /\ UNCHANGED <<s_initClaimed, s_startReady, s_runError, s_stateMtx, rpc, throws,
                 reqVars, timedOut>>

\* The join, without s_stateMtx.
CloseJoined(c) ==
  /\ pc[c] = "joining" /\ (mine[c] # 0 => rpc[mine[c]] = "exited")
  /\ Goto(c, "ending")
  /\ UNCHANGED <<stateVars, flagVars, s_stateMtx, runVars, blocked, mine, kind, reqVars,
                 timedOut>>

\* Mutant: nobody is told.
Bug_CloseEnds(c) ==
  /\ pc[c] = "ending" /\ Free
  /\ s_closing' = FALSE /\ s_draining' = FALSE
  /\ Return(c) /\ mine' = [mine EXCEPT ![c] = 0]
  /\ UNCHANGED <<stateVars, s_startReady, s_runError, s_runThread, s_stateMtx, runVars,
                 blocked, reqVars, timedOut>>

CloseEnds(c) ==
  /\ pc[c] = "ending" /\ Free
  /\ s_closing' = FALSE /\ s_draining' = FALSE
  /\ NotifyAll
  /\ Return(c) /\ mine' = [mine EXCEPT ![c] = 0]
  /\ UNCHANGED <<stateVars, s_startReady, s_runError, s_runThread, s_stateMtx, runVars,
                 reqVars, timedOut>>

\* Mutant: new requests are let in.
Bug_DrainAndClose(c) ==
  /\ c \in Drainers /\ Idle(c) /\ s_state # "Uninit"
  /\ Begin(c, "drain", "draining")
  /\ UNCHANGED <<stateVars, flagVars, s_stateMtx, runVars, blocked, mine, reqVars, timedOut>>

\* DrainAndClose on a server that was initialised; before that a Close would take the
\* flag back.  The counter is read after the flag can be seen, or before it: the order is
\* left to the line logged in between, which takes a lock where INFO is logged.
DrainAndClose(c) ==
  /\ c \in Drainers /\ Idle(c) /\ s_state # "Uninit"
  /\ \/ s_draining' = TRUE /\ Begin(c, "drain", "draining")
     \/ s_m_inflight = 0 /\ Begin(c, "early", "storing") /\ UNCHANGED s_draining
  /\ UNCHANGED <<stateVars, s_startReady, s_runError, s_closing, s_runThread, s_stateMtx,
                 runVars, blocked, mine, reqVars, timedOut>>

\* The flag can be seen, at the latest when Close obtains s_stateMtx.
FlagSeen(c) ==
  /\ pc[c] = "storing" /\ Goto(c, "close")
  /\ s_draining' = TRUE
  /\ UNCHANGED <<stateVars, s_startReady, s_runError, s_closing, s_runThread, s_stateMtx,
                 runVars, blocked, mine, kind, reqVars, timedOut>>

\* Nothing is in flight, or the time is over.
DrainEnds(c) ==
  /\ pc[c] = "draining"
  /\ \E result \in {"drained", "forced"} :
       /\ s_m_inflight > 0 => result = "forced"
       /\ Begin(c, result, "close")
  /\ UNCHANGED <<stateVars, flagVars, s_stateMtx, runVars, blocked, mine, reqVars, timedOut>>

-----------------------------------------------------------------------------
(***************************************************************************)
(* Requests, on the loops                                                  *)
(***************************************************************************)
Become(r, place) == req' = [req EXCEPT ![r] = place]

\* RecordAccessStart
Arrives(r) ==
  /\ req[r] = "new" /\ LoopRuns
  /\ Become(r, "counted") /\ s_m_inflight' = s_m_inflight + 1
  /\ UNCHANGED <<stateVars, flagVars, s_stateMtx, runVars, callVars, cut, timedOut>>

\* DrainGate: while draining 503, but for the probes.
DrainGate(r) ==
  /\ req[r] = "counted"
  /\ Become(r, IF s_draining /\ r \notin Probes THEN "refused" ELSE "handling")
  /\ UNCHANGED <<stateVars, flagVars, s_stateMtx, runVars, callVars, s_m_inflight, cut,
                 timedOut>>

\* FinalizeResponse, before drogon sends the response
Finalize(r) ==
  /\ req[r] \in {"handling", "refused"}
  /\ Become(r, "sending") /\ s_m_inflight' = s_m_inflight - 1
  /\ UNCHANGED <<stateVars, flagVars, s_stateMtx, runVars, callVars, cut, timedOut>>

Sent(r) ==
  /\ req[r] = "sending" /\ Become(r, "done")
  /\ UNCHANGED <<stateVars, flagVars, s_stateMtx, runVars, callVars, s_m_inflight, cut,
                 timedOut>>

\* The connection is lost: no response is sent, and none that was not made is counted back.
Lost(r) ==
  /\ req[r] \in {"handling", "refused", "sending"}
  /\ Become(r, "gone")
  /\ UNCHANGED <<stateVars, flagVars, s_stateMtx, runVars, callVars, s_m_inflight, cut,
                 timedOut>>

-----------------------------------------------------------------------------
RunStep(g) ==
  RunEnters(g) \/ NotifyServerStarted(g) \/ RunReports(g) \/ RunReturns(g)

CallStep(c) ==
  \/ InitDone(c)
  \/ OpenReplaced(c) \/ OpenWakes(c) \/ OpenFailed(c)
  \/ (~Idle(c) /\ CloseEnter(c)) \/ CloseWakes(c) \/ CloseStarted(c)
  \/ CloseJoined(c) \/ CloseEnds(c) \/ FlagSeen(c) \/ DrainEnds(c)

Next ==
  \/ \E c \in Callers :
       \/ CallStep(c) \/ OpenTimeout(c)
       \/ InitClaim(c) \/ Open(c) \/ OpenFails(c) \/ CloseEnter(c) \/ DrainAndClose(c)
  \/ \E g \in Runs : RunStep(g) \/ RunThrows(g)
  \/ \E r \in Requests : Arrives(r) \/ DrainGate(r) \/ Finalize(r) \/ Sent(r) \/ Lost(r)

Spec == Init /\ [][Next]_vars

\* Threads go on, s_stateMtx is obtained; no request has to end.
LiveSpec ==
  /\ Spec
  /\ \A g \in Runs : SF_vars(RunStep(g))
  /\ \A c \in Callers : SF_vars(CallStep(c))

-----------------------------------------------------------------------------
(***************************************************************************)
(* Properties                                                              *)
(***************************************************************************)

\* Every variable keeps its type; s_stateMtx is kept over the two joins of Open
\* only, s_closing over the join of Close, and the counter counts.
TypeOK ==
  /\ s_state \in {"Uninit", "Initialized", "Opened", "Closed"}
  /\ {s_initClaimed, s_startReady, s_runError, s_closing, s_draining, quitting, timedOut}
       \subseteq BOOLEAN
  /\ s_runThread \in Made \cup {0}
  /\ rpc \in [Runs -> {"none", "start", "loop", "up", "caught", "exited"}]
  /\ pc \in [Callers -> {"idle", "claimed", "replacing", "opening", "failing", "close",
                         "waiting", "starting", "joining", "ending", "storing", "draining"}]
  /\ \A c \in Callers : s_stateMtx = c <=> pc[c] \in {"replacing", "failing"}
  /\ s_closing <=> \E c \in Callers : pc[c] \in {"joining", "ending"}
  /\ blocked \subseteq {c \in Callers : pc[c] \in {"opening", "waiting", "starting"}}
  /\ s_m_inflight \in Nat
  /\ s_m_inflight >= Cardinality({r \in Requests : req[r] \in InHandlers})

\* Closed is final, and no run thread is started from there on; whatever a late
\* start, another Open or a Close do, every variable keeps its meaning.
ClosedIsFinal ==
  []TypeOK /\ [][s_state = "Closed" => s_state' = "Closed" /\ Made' = Made]_vars

Stopped == \A g \in Runs : rpc[g] \in {"none", "exited"}

\* When Close or DrainAndClose returns the run thread is over, whoever else closes, but for
\* two Closes in the start window (OneAtStart): "s_closing keeps a concurrent Close until
\* this one is really done".
CloseIsSynchronous ==
  [][\A c \in Callers :
       (CloseEnter(c) \/ CloseWakes(c) \/ CloseEnds(c)) /\ pc'[c] = "idle"
         => Stopped' \/ timedOut]_vars

\* A server closed by DrainAndClose with "true" ends no handler but a probe's: the requests
\* let in got their response made (it may not be on the wire yet), the others are refused.
\* Who ends a handler is a plain Close, a drain out of time, or one that read the counter
\* before its own flag could be seen.
DrainedIsServed ==
  [][cut' \ Probes # cut \ Probes
       => \E c \in Callers : pc[c] = "joining" /\ kind[c] \in {"Close", "forced", "early"}]_vars

\* Every call returns, whatever starts, throws, closes and drains at the same time.
CallsReturn ==
  \A c \in Callers : ~Idle(c) ~> Idle(c) \/ timedOut
=============================================================================
