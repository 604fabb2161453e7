-------------------------- MODULE HttpServerProofs --------------------------
(***************************************************************************)
(* Theorems about HttpServerLife, for any number of callers, requests, run *)
(* threads and failures, with OneAtStart (two Closes in the start window   *)
(* are a deviation, see the README).                                       *)
(*                                                                         *)
(* Closed is final because whoever is about to write another state holds   *)
(* s_stateMtx (Locked).  A run thread that is not over is in the slot or   *)
(* in the hands of the one Close that joins it (Slots, Closings).  And as  *)
(* long as a drained server is not closed its flag stays, so that nothing  *)
(* but probes is let in (Drains).                                          *)
(***************************************************************************)
EXTENDS HttpServerLife, StreamSend, FiniteSetTheorems, SequenceTheorems, TLAPS

States == {"Uninit", "Initialized", "Opened", "Closed"}
Places == {"idle", "claimed", "replacing", "opening", "failing", "close", "waiting",
           "starting", "joining", "ending", "storing", "draining"}
Kinds  == {"none", "Init", "Open", "Close", "drain", "drained", "forced", "early"}

Types ==
  /\ s_state \in States
  /\ {s_initClaimed, s_startReady, s_runError, s_closing, s_draining, quitting, timedOut}
       \subseteq BOOLEAN
  /\ s_runThread \in Made \cup {0}
  /\ s_stateMtx \in Callers \cup {NoOne}
  /\ rpc \in [Runs -> {"none", "start", "loop", "up", "caught", "exited"}]
  /\ pc \in [Callers -> Places]
  /\ mine \in [Callers -> Runs \cup {0}]
  /\ kind \in [Callers -> Kinds]
  /\ blocked \subseteq {c \in Callers : pc[c] \in {"opening", "waiting", "starting"}}
  /\ req \in [Requests -> InLoop \cup {"new", "done", "gone"}]
  /\ s_m_inflight \in Nat

\* Who keeps s_stateMtx over a join found a state that nobody else changes meanwhile.
Locked ==
  \A c \in Callers :
    /\ s_stateMtx = c <=> pc[c] \in {"replacing", "failing"}
    /\ pc[c] = "replacing" => s_state = "Opened" /\ s_runError = FALSE
    /\ pc[c] = "failing" => s_state # "Closed"

Closing == {"joining", "ending"}

\* One call closes at a time, one at most is in the start window; the first makes the
\* state final, the second has found it open.
Closings ==
  /\ s_closing = TRUE <=> \E c \in Callers : pc[c] \in Closing
  /\ \A c \in Callers :
       /\ pc[c] \in Closing \cup {"waiting"} => s_state = "Closed"
       /\ pc[c] = "starting" => s_state \in {"Opened", "Initialized"}
  /\ \A c, d \in Callers :
       /\ pc[c] \in Closing /\ pc[d] \in Closing => c = d
       /\ pc[c] = "starting" /\ pc[d] = "starting" => c = d

Over(g) == rpc[g] \in {"none", "exited"}

Slots ==
  /\ \A g \in Runs : ~Over(g) =>
       g = s_runThread \/ \E c \in Callers : pc[c] = "joining" /\ mine[c] = g
  /\ s_state # "Closed" /\ s_runError = TRUE => \A g \in Runs : Over(g)
  /\ quitting = TRUE => s_state = "Closed" /\ s_runThread = 0
  /\ timedOut = FALSE /\ s_state # "Opened" => s_runThread = 0

\* A drained server lets no more than probes in until its Close is over.
Drains ==
  \A c \in Callers :
    /\ pc[c] = "storing" => kind[c] = "early"
    /\ pc[c] = "draining" => kind[c] = "drain" /\ s_state # "Uninit"
    /\ pc[c] = "draining" /\ s_state # "Closed" => s_draining = TRUE
    /\ pc[c] \in {"close", "waiting", "starting"} \cup Closing =>
         kind[c] \in {"Close", "drained", "forced", "early"}
    /\ pc[c] \in {"close", "waiting", "starting"} \cup Closing /\ kind[c] = "drained" =>
         /\ s_state # "Uninit"
         /\ s_state # "Closed" \/ pc[c] = "joining" =>
              s_draining = TRUE /\ \A r \in Requests \ Probes : req[r] # "handling"

Counted == s_m_inflight >= Cardinality({r \in Requests : req[r] \in InHandlers})

\* The inductive invariant.
LifeInv == Types /\ Locked /\ Closings /\ Slots /\ Drains /\ Counted

LEMMA InvIsTypeOK == LifeInv => TypeOK
BY DEF LifeInv, Types, Locked, Closings, Closing, Counted, TypeOK, States, Places

LEMMA LifeInit == Init => LifeInv
<1> SUFFICES ASSUME Init PROVE LifeInv
  OBVIOUS
<1>1. Types /\ Locked /\ Closings /\ Slots /\ Drains
  BY LifeAssumption DEF Init, Types, Locked, Closings, Closing, Slots, Over, Drains, States,
                        Places, Kinds, Made
<1>2. {r \in Requests : req[r] \in InHandlers} = {}
  BY DEF Init, InHandlers
<1>3. Counted
  BY <1>2, FS_EmptySet DEF Counted, Init
<1> QED BY <1>1, <1>3 DEF LifeInv

-----------------------------------------------------------------------------
\* The types

\* A call goes to its next place, the others stay where they are.
LEMMA Moves ==
  ASSUME Types, NEW c \in Callers, NEW p \in Places, Goto(c, p)
  PROVE  /\ pc' \in [Callers -> Places] /\ pc'[c] = p
         /\ \A d \in Callers \ {c} : pc'[d] = pc[d]
BY DEF Types, Goto

LEMMA Begins ==
  ASSUME Types, NEW c \in Callers, NEW p \in Places, NEW k \in Kinds, Begin(c, k, p)
  PROVE  /\ pc' \in [Callers -> Places] /\ pc'[c] = p
         /\ kind' \in [Callers -> Kinds] /\ kind'[c] = k
         /\ \A d \in Callers \ {c} : pc'[d] = pc[d] /\ kind'[d] = kind[d]
BY Moves DEF Begin, Types

LEMMA Returns ==
  ASSUME Types, NEW c \in Callers, Return(c)
  PROVE  /\ pc' \in [Callers -> Places] /\ pc'[c] = "idle" /\ kind' \in [Callers -> Kinds]
         /\ \A d \in Callers \ {c} : pc'[d] = pc[d] /\ kind'[d] = kind[d]
BY Begins DEF Return, Places, Kinds

LEMMA Stays ==
  ASSUME Types, NEW c \in Callers, NEW p \in Places, Stay(c, p)
  PROVE  /\ pc' \in [Callers -> Places] /\ pc'[c] = p
         /\ kind' \in [Callers -> Kinds]
         /\ kind'[c] = IF Idle(c) THEN "Close" ELSE kind[c]
         /\ \A d \in Callers \ {c} : pc'[d] = pc[d] /\ kind'[d] = kind[d]
<1>1. kind[c] \in Kinds /\ "Close" \in Kinds
  BY DEF Types, Kinds
<1> QED BY <1>1, Begins DEF Stay

\* What a Close does when it is entered, woken, or has waited for the start
CloseCall(c) == CloseEnter(c) \/ CloseWakes(c)

Entered(c) == pc[c] \in {"idle", "close", "waiting"} /\ (pc[c] = "waiting" \/ MayCall)
FindsOpen(c) == Entered(c) /\ s_state = "Opened" /\ s_closing = FALSE

WaitsOnClose(c) == Entered(c) /\ s_closing = TRUE /\ Block(c, "waiting")
WaitsOnStart(c) == Block(c, "starting") /\ (pc[c] = "starting" \/ FindsOpen(c))
NothingToDo(c)  == /\ Entered(c) /\ s_closing = FALSE /\ s_state \in {"Uninit", "Closed"}
                   /\ s_draining' = FALSE /\ Return(c)
                   /\ UNCHANGED <<s_state, s_closing, s_runThread, quitting, blocked, mine>>
ClosesUnopened(c) == /\ Entered(c) /\ s_closing = FALSE
                     /\ s_state = "Initialized" /\ s_state' = "Closed"
                     /\ s_draining' = FALSE /\ Return(c) /\ NotifyAll
                     /\ UNCHANGED <<s_closing, s_runThread, quitting, mine>>
TakesOver(c) == TakeOver(c) /\ (pc[c] = "starting" \/ FindsOpen(c))

LEMMA CloseCases ==
  ASSUME Types, NEW c \in Callers, CloseCall(c) \/ CloseStarted(c)
  PROVE  /\ Free /\ c \notin blocked
         /\ UNCHANGED <<s_initClaimed, s_startReady, s_runError, s_stateMtx, rpc, throws,
                        reqVars, timedOut>>
         /\ \/ WaitsOnClose(c) \/ WaitsOnStart(c) \/ NothingToDo(c) \/ ClosesUnopened(c)
            \/ TakesOver(c)
<1>1. s_closing \in BOOLEAN /\ (c \in blocked => pc[c] \in {"opening", "waiting", "starting"})
  BY DEF Types
<1>2. CASE CloseCall(c)
  <2>1. Free /\ c \notin blocked /\ Entered(c)
        /\ UNCHANGED <<s_initClaimed, s_startReady, s_runError, s_stateMtx, rpc, throws,
                       reqVars, timedOut>>
        /\ IF s_closing THEN Block(c, "waiting") ELSE CloseNow(c)
    BY <1>1, <1>2 DEF CloseCall, CloseEnter, CloseWakes, Entered
  <2>2. CASE s_closing
    BY <1>1, <2>1, <2>2 DEF WaitsOnClose
  <2>3. CASE ~s_closing
    BY <1>1, <2>1, <2>3
       DEF CloseNow, WaitsOnStart, NothingToDo, ClosesUnopened, TakesOver, FindsOpen
  <2> QED BY <2>1, <2>2, <2>3
<1>3. CASE CloseStarted(c)
  BY <1>3 DEF CloseStarted, WaitsOnStart, TakesOver
<1> QED BY <1>2, <1>3

LEMMA FoundIn == 
  ASSUME LifeInv, NEW r \in Requests, req[r] \in InHandlers
  PROVE  s_m_inflight > 0
<1> DEFINE S == {q \in Requests : req[q] \in InHandlers}
<1>1. IsFiniteSet(S) /\ r \in S
  BY LifeAssumption, FS_Subset
<1>2. Cardinality(S) \in Nat /\ Cardinality(S) # 0
  BY <1>1, FS_CardinalityType, FS_EmptySet
<1> QED BY <1>2 DEF LifeInv, Counted, Types

LEMMA TypesStep == ASSUME LifeInv, Next PROVE Types'
<1> USE DEF LifeInv, Types, NotifyAll, Quit, stateVars, flagVars, runVars, callVars, reqVars, Made
<1>0. {"idle", "claimed", "replacing", "opening", "failing", "close", "waiting", "starting",
       "joining", "ending", "storing", "draining"} \subseteq Places
      /\ {"none", "Init", "Open", "Close", "drain", "drained", "forced", "early"} \subseteq Kinds
  BY DEF Places, Kinds
<1>1. ASSUME NEW c \in Callers, InitClaim(c) \/ InitDone(c) PROVE Types'
  <2>1. CASE InitClaim(c)
    BY <1>0, <2>1, Begins DEF InitClaim, Idle
  <2>2. CASE InitDone(c)
    BY <1>0, <2>2, Returns DEF InitDone, States
  <2> QED BY <1>1, <2>1, <2>2
<1>2. ASSUME NEW c \in Callers, Open(c) \/ OpenReplaced(c) \/ OpenFails(c) PROVE Types'
  <2>1. CASE Open(c)
    <3>1. /\ kind' \in [Callers -> Kinds] /\ s_state' = "Opened" /\ s_runError' = FALSE
          /\ s_startReady' = FALSE /\ \A p : Goto(c, p) /\ p \in Places => pc' \in [Callers -> Places]
      BY <1>0, <2>1, Moves DEF Open
    <3>2. CASE s_runThread = 0
      <4>1. PICK g \in Runs \ Made :
              /\ s_runThread' = g /\ rpc' = [rpc EXCEPT ![g] = "start"]
              /\ blocked' = blocked \cup {c} /\ Goto(c, "opening")
        BY <2>1, <3>2 DEF Open, StartRun
      <4>2. pc' \in [Callers -> Places] /\ pc'[c] = "opening"
            /\ \A d \in Callers \ {c} : pc'[d] = pc[d]
        BY <1>0, <4>1, Moves
      <4>3. /\ s_runThread' \in Made' \cup {0}
            /\ rpc' \in [Runs -> {"none", "start", "loop", "up", "caught", "exited"}]
        BY <4>1
      <4>4. blocked' \subseteq {d \in Callers : pc'[d] \in {"opening", "waiting", "starting"}}
        BY <4>1, <4>2
      <4> QED BY <2>1, <3>1, <3>2, <4>2, <4>3, <4>4 DEF Open, States
    <3>3. CASE s_runThread # 0
      <4>1. Goto(c, "replacing") /\ Idle(c) /\ c \notin blocked /\ UNCHANGED <<s_runThread, rpc, blocked>>
        BY <2>1, <3>3 DEF Open, Idle
      <4>2. pc' \in [Callers -> Places] /\ \A d \in Callers \ {c} : pc'[d] = pc[d]
        BY <1>0, <4>1, Moves
      <4> QED BY <2>1, <3>1, <3>3, <4>1, <4>2 DEF Open, States
    <3> QED BY <3>2, <3>3
  <2>2. CASE OpenReplaced(c)
    <3>1. CASE StartRun(c) /\ UNCHANGED <<s_state, kind>>
      BY <1>0, <2>2, <3>1, Moves DEF OpenReplaced, StartRun
    <3>2. CASE s_runThread' = 0 /\ s_state' = "Initialized" /\ Return(c) /\ UNCHANGED <<rpc, blocked>>
      BY <1>0, <2>2, <3>2, Returns DEF OpenReplaced, States
    <3> QED BY <2>2, <3>1, <3>2 DEF OpenReplaced
  <2>3. CASE OpenFails(c)
    BY <2>3 DEF OpenFails
  <2> QED BY <1>2, <2>1, <2>2, <2>3
<1>3. ASSUME NEW c \in Callers, OpenWakes(c) \/ OpenFailed(c) \/ OpenTimeout(c) PROVE Types'
  <2>1. CASE OpenWakes(c)
    BY <1>0, <2>1, Begins, Returns DEF OpenWakes
  <2>2. CASE OpenFailed(c)
    BY <1>0, <2>2, Returns DEF OpenFailed, States
  <2>3. CASE OpenTimeout(c)
    BY <1>0, <2>3, Returns DEF OpenTimeout, States
  <2> QED BY <1>3, <2>1, <2>2, <2>3
<1>4. ASSUME NEW c \in Callers, CloseCall(c) \/ CloseStarted(c) PROVE Types'
  <2>0. c \notin blocked
        /\ UNCHANGED <<s_initClaimed, s_startReady, s_runError, s_stateMtx, rpc, throws,
                       reqVars, timedOut>>
    BY <1>4, CloseCases
  <2>1. CASE WaitsOnClose(c) \/ WaitsOnStart(c)
    BY <1>0, <2>0, <2>1, Stays DEF WaitsOnClose, WaitsOnStart, Block
  <2>2. CASE NothingToDo(c) \/ ClosesUnopened(c)
    BY <1>0, <2>0, <2>2, Returns DEF NothingToDo, ClosesUnopened, States
  <2>3. CASE TakesOver(c)
    BY <1>0, <2>0, <2>3, Stays DEF TakesOver, TakeOver, States
  <2> QED BY <1>4, <2>1, <2>2, <2>3, CloseCases
<1>5. ASSUME NEW c \in Callers, CloseJoined(c) \/ CloseEnds(c) PROVE Types'
  <2>1. CASE CloseJoined(c)
    BY <1>0, <2>1, Moves DEF CloseJoined
  <2>2. CASE CloseEnds(c)
    BY <1>0, <2>2, Returns DEF CloseEnds
  <2> QED BY <1>5, <2>1, <2>2
<1>6. ASSUME NEW c \in Callers, DrainAndClose(c) \/ FlagSeen(c) \/ DrainEnds(c) PROVE Types'
  <2>1. CASE DrainAndClose(c)
    BY <1>0, <2>1, Begins DEF DrainAndClose, Idle
  <2>3. CASE FlagSeen(c)
    BY <1>0, <2>3, Moves DEF FlagSeen
  <2>2. CASE DrainEnds(c)
    BY <1>0, <2>2, Begins DEF DrainEnds
  <2> QED BY <1>6, <2>1, <2>2, <2>3
<1>7. ASSUME NEW g \in Runs, RunStep(g) \/ RunThrows(g) PROVE Types'
  <2>1. rpc' \in [Runs -> {"none", "start", "loop", "up", "caught", "exited"}] /\ Made' = Made
    BY <1>7 DEF RunStep, RunEnters, NotifyServerStarted, RunReports, RunReturns, RunThrows
  <2>2. req' \in [Requests -> InLoop \cup {"new", "done", "gone"}]
    BY <1>7 DEF RunStep, RunEnters, NotifyServerStarted, RunReports, RunReturns, RunThrows,
                LoopEnds
  <2> HIDE DEF Made
  <2> QED BY <1>7, <2>1, <2>2 DEF RunStep, RunEnters, NotifyServerStarted, RunReports,
                                  RunReturns, RunThrows
<1>8. ASSUME NEW r \in Requests, Arrives(r) \/ DrainGate(r) \/ Finalize(r) \/ Sent(r) \/ Lost(r)
      PROVE  Types'
  <2>1. CASE Arrives(r) \/ DrainGate(r) \/ Sent(r) \/ Lost(r)
    BY <2>1 DEF Arrives, DrainGate, Sent, Lost, Become, InLoop, InHandlers
  <2>2. CASE Finalize(r)
    <3>1. s_m_inflight > 0
      BY <2>2, FoundIn DEF Finalize, InHandlers
    <3> QED BY <2>2, <3>1 DEF Finalize, Become, InLoop, InHandlers
  <2> QED BY <1>8, <2>1, <2>2
<1> QED BY <1>1, <1>2, <1>3, <1>4, <1>5, <1>6, <1>7, <1>8 DEF Next, CallStep, CloseCall

-----------------------------------------------------------------------------
\* s_stateMtx

RequestStep(r) == Arrives(r) \/ DrainGate(r) \/ Finalize(r) \/ Sent(r) \/ Lost(r)

\* What requests do concerns reqVars only.
LEMMA RequestsApart ==
  ASSUME NEW r \in Requests, RequestStep(r)
  PROVE  UNCHANGED <<stateVars, flagVars, s_stateMtx, runVars, callVars, cut, timedOut>>
BY DEF RequestStep, Arrives, DrainGate, Finalize, Sent, Lost

LEMMA FreeLocked ==
  ASSUME LifeInv, NEW c \in Callers, Free, s_stateMtx' = s_stateMtx,
         pc'[c] \notin {"replacing", "failing"}, \A d \in Callers \ {c} : pc'[d] = pc[d]
  PROVE  Locked'
BY LifeAssumption DEF LifeInv, Locked, Free

LEMMA LockedStep == ASSUME LifeInv, Next PROVE Locked'
<1> USE DEF LifeInv, Locked
<1>0. Types /\ {"idle", "claimed", "replacing", "opening", "failing", "close", "waiting", "starting",
       "joining", "ending", "storing", "draining"} \subseteq Places
      /\ {"none", "Init", "Open", "Close", "drain", "drained", "forced", "early"} \subseteq Kinds
  BY DEF Places, Kinds
<1>1. ASSUME NEW c \in Callers, InitClaim(c) \/ InitDone(c) PROVE Locked'
  <2>1. CASE InitClaim(c)
    BY <1>0, <2>1, Begins DEF InitClaim, Idle, flagVars
  <2>2. CASE InitDone(c)
    BY <1>0, <2>2, Returns DEF InitDone, flagVars
  <2> QED BY <1>1, <2>1, <2>2
<1>2. ASSUME NEW c \in Callers, Open(c) PROVE Locked'
  <2>1. CASE s_runThread = 0
    BY <1>0, <1>2, <2>1, Moves, FreeLocked DEF Open, StartRun
  <2>2. CASE s_runThread # 0
    BY <1>0, <1>2, <2>2, Moves, LifeAssumption DEF Open, Free
  <2> QED BY <2>1, <2>2
<1>3. ASSUME NEW c \in Callers, OpenReplaced(c) \/ OpenFailed(c) PROVE Locked'
  <2>1. /\ s_stateMtx' = NoOne /\ s_stateMtx = c /\ pc'[c] \in {"opening", "idle"}
        /\ \A d \in Callers \ {c} : pc'[d] = pc[d]
    BY <1>0, <1>3, Moves, Returns DEF OpenReplaced, StartRun, OpenFailed
  <2> QED BY <2>1, LifeAssumption
<1>4. ASSUME NEW c \in Callers, OpenWakes(c) PROVE Locked'
  <2>1. CASE s_state # "Closed" /\ s_runError
    BY <1>0, <1>4, <2>1, Begins, LifeAssumption DEF OpenWakes, Free, stateVars, flagVars
  <2>2. CASE ~(s_state # "Closed" /\ s_runError)
    BY <1>0, <1>4, <2>2, Returns, FreeLocked DEF OpenWakes
  <2> QED BY <2>1, <2>2
<1>5. ASSUME NEW c \in Callers, OpenFails(c) PROVE Locked'
  BY <1>5, FreeLocked DEF OpenFails, Idle, callVars
<1>6. ASSUME NEW c \in Callers, OpenTimeout(c) \/ CloseEnds(c) PROVE Locked'
  BY <1>0, <1>6, Returns, FreeLocked DEF OpenTimeout, CloseEnds
<1>7. ASSUME NEW c \in Callers, CloseCall(c) \/ CloseStarted(c) PROVE Locked'
  <2>1. Free /\ s_stateMtx' = s_stateMtx
    BY <1>0, <1>7, CloseCases
  <2>2. pc'[c] \in {"waiting", "starting", "idle", "joining"}
        /\ \A d \in Callers \ {c} : pc'[d] = pc[d]
    BY <1>0, <1>7, CloseCases, Stays, Returns
       DEF WaitsOnClose, WaitsOnStart, NothingToDo, ClosesUnopened, TakesOver, TakeOver, Block
  <2> QED BY <2>1, <2>2, FreeLocked
<1>8. ASSUME NEW c \in Callers, CloseJoined(c) PROVE Locked'
  BY <1>0, <1>8, Moves DEF CloseJoined, stateVars, flagVars
<1>9. ASSUME NEW c \in Callers, DrainAndClose(c) \/ FlagSeen(c) \/ DrainEnds(c) PROVE Locked'
  BY <1>0, <1>9, Begins, Moves DEF DrainAndClose, FlagSeen, DrainEnds, Idle, stateVars, flagVars
<1>10. ASSUME NEW g \in Runs, RunStep(g) \/ RunThrows(g) PROVE Locked'
  <2>1. CASE RunReports(g)
    BY <2>1, LifeAssumption DEF RunReports, Free, stateVars
  <2>2. CASE ~RunReports(g)
    BY <1>10, <2>2 DEF RunStep, RunEnters, NotifyServerStarted, RunReturns, RunThrows, stateVars,
                       flagVars, callVars
  <2> QED BY <2>1, <2>2
<1>11. ASSUME NEW r \in Requests, RequestStep(r) PROVE Locked'
  BY <1>11, RequestsApart DEF stateVars, flagVars, callVars
<1> QED BY <1>1, <1>2, <1>3, <1>4, <1>5, <1>6, <1>7, <1>8, <1>9, <1>10, <1>11
        DEF Next, CallStep, CloseCall, RequestStep

-----------------------------------------------------------------------------
\* Who closes

\* A call that neither closes nor is in the start window moves, or the state changes
\* before it is final.
LEMMA NotClosing ==
  ASSUME LifeInv, NEW c \in Callers, pc[c] \notin Closing,
         pc'[c] \notin Closing \cup {"waiting", "starting"},
         \A d \in Callers \ {c} : pc'[d] = pc[d],
         s_closing' = s_closing,
         s_state' = s_state \/ (s_state # "Closed" /\ s_state' \in {"Opened", "Initialized"})
  PROVE  Closings'
BY DEF LifeInv, Closings

LEMMA ClosingsStep == ASSUME LifeInv, OneAtStart, Next PROVE Closings'
<1> USE DEF LifeInv
<1>0. Types /\ {"idle", "claimed", "replacing", "opening", "failing", "close", "waiting", "starting",
       "joining", "ending", "storing", "draining"} \subseteq Places
      /\ {"none", "Init", "Open", "Close", "drain", "drained", "forced", "early"} \subseteq Kinds
  BY DEF Places, Kinds
<1>1. ASSUME NEW c \in Callers, InitClaim(c) \/ InitDone(c) PROVE Closings'
  <2>1. CASE InitClaim(c)
    BY <1>0, <2>1, Begins, NotClosing DEF InitClaim, Idle, flagVars, Closing
  <2>2. CASE InitDone(c)
    BY <1>0, <2>2, Returns, NotClosing DEF InitDone, flagVars, Closing
  <2> QED BY <1>1, <2>1, <2>2
<1>2. ASSUME NEW c \in Callers, Open(c) PROVE Closings'
  <2>1. pc'[c] \in {"opening", "replacing"} /\ \A d \in Callers \ {c} : pc'[d] = pc[d]
    BY <1>0, <1>2, Moves DEF Open, StartRun
  <2> QED BY <1>2, <2>1, NotClosing DEF Open, Idle, Closing
<1>3. ASSUME NEW c \in Callers, OpenReplaced(c) \/ OpenFailed(c) PROVE Closings'
  <2>1. /\ pc[c] \in {"replacing", "failing"} /\ pc'[c] \in {"opening", "idle"}
        /\ \A d \in Callers \ {c} : pc'[d] = pc[d]
    BY <1>0, <1>3, Moves, Returns DEF OpenReplaced, StartRun, OpenFailed
  <2>2. s_state # "Closed" /\ s_state' \in {s_state, "Initialized"} /\ s_closing' = s_closing
    BY <1>3, <2>1 DEF OpenReplaced, OpenFailed, Locked
  <2> QED BY <2>1, <2>2, NotClosing DEF Closing
<1>4. ASSUME NEW c \in Callers, OpenWakes(c) PROVE Closings'
  <2>1. pc'[c] \in {"failing", "idle"} /\ \A d \in Callers \ {c} : pc'[d] = pc[d]
    BY <1>0, <1>4, Begins, Returns DEF OpenWakes
  <2> QED BY <1>4, <2>1, NotClosing DEF OpenWakes, Closing, stateVars, flagVars
<1>5. ASSUME NEW c \in Callers, OpenTimeout(c) PROVE Closings'
  BY <1>0, <1>5, Returns, NotClosing DEF OpenTimeout, startReady, Closing, flagVars
<1>6. ASSUME NEW c \in Callers, CloseCall(c) \/ CloseStarted(c) PROVE Closings'
  <2>1. Entered(c) /\ s_state # "Closed" => \A d \in Callers : pc[d] # "starting"
    BY DEF Closings, Entered, MayCall
  <2>2. CASE WaitsOnClose(c)
    BY <1>0, <2>2, Stays DEF WaitsOnClose, Block, Closings, Closing, Entered
  <2>3. CASE WaitsOnStart(c)
    BY <1>0, <2>1, <2>3, Stays DEF WaitsOnStart, FindsOpen, Block, Closings, Closing, Entered
  <2>4. CASE NothingToDo(c)
    BY <1>0, <2>4, Returns, NotClosing DEF NothingToDo, Entered, Closing
  <2>5. CASE ClosesUnopened(c)
    BY <1>0, <2>1, <2>5, Returns DEF ClosesUnopened, Entered, Closings, Closing
  <2>6. CASE TakesOver(c)
    <3>1. pc'[c] = "joining" /\ s_closing' = TRUE /\ s_state' = "Closed"
          /\ \A d \in Callers \ {c} : pc'[d] = pc[d]
      BY <1>0, <2>6, Stays DEF TakesOver, TakeOver
    <3>2. s_state # "Closed" /\ \A d \in Callers \ {c} : pc[d] # "starting"
      BY <2>1, <2>6 DEF TakesOver, FindsOpen, Closings
    <3> QED BY <3>1, <3>2 DEF Closings, Closing
  <2> QED BY <1>0, <1>6, <2>2, <2>3, <2>4, <2>5, <2>6, CloseCases
<1>7. ASSUME NEW c \in Callers, CloseJoined(c) PROVE Closings'
  BY <1>0, <1>7, Moves DEF CloseJoined, Closings, Closing, stateVars, flagVars
<1>8. ASSUME NEW c \in Callers, CloseEnds(c) PROVE Closings'
  BY <1>0, <1>8, Returns DEF CloseEnds, Closings, Closing, stateVars
<1>9. ASSUME NEW c \in Callers, DrainAndClose(c) \/ FlagSeen(c) \/ DrainEnds(c) PROVE Closings'
  <2>1. pc[c] \in {"idle", "storing", "draining"} /\ pc'[c] \in {"storing", "draining", "close"}
        /\ \A d \in Callers \ {c} : pc'[d] = pc[d]
    BY <1>0, <1>9, Begins, Moves DEF DrainAndClose, FlagSeen, DrainEnds, Idle
  <2> QED BY <1>9, <2>1, NotClosing DEF DrainAndClose, FlagSeen, DrainEnds, Closing, stateVars, flagVars
<1>10. CASE UNCHANGED <<pc, s_state, s_closing>>
  BY <1>10 DEF Closings
<1>11. ASSUME NEW c \in Callers, OpenFails(c) PROVE UNCHANGED <<pc, s_state, s_closing>>
  BY <1>11 DEF OpenFails, callVars, stateVars
<1>12. ASSUME NEW g \in Runs, RunStep(g) \/ RunThrows(g)
       PROVE  UNCHANGED <<pc, s_state, s_closing>>
  BY <1>12 DEF RunStep, RunEnters, NotifyServerStarted, RunReports, RunReturns, RunThrows,
               stateVars, flagVars, callVars
<1>13. ASSUME NEW r \in Requests, RequestStep(r) PROVE UNCHANGED <<pc, s_state, s_closing>>
  BY <1>13, RequestsApart DEF stateVars, flagVars, callVars
<1> QED BY <1>1, <1>2, <1>3, <1>4, <1>5, <1>6, <1>7, <1>8, <1>9, <1>10, <1>11, <1>12, <1>13
        DEF Next, CallStep, CloseCall, RequestStep

-----------------------------------------------------------------------------
\* The run threads

\* Nothing happens to run threads or to who joins them, and the state changes, if at all,
\* before it is final and without a start.
LEMMA SlotsKept ==
  ASSUME LifeInv, UNCHANGED <<s_runThread, rpc, mine, quitting, timedOut, s_runError>>,
         \A c \in Callers : pc[c] = "joining" => pc'[c] = "joining",
         s_state' = s_state \/ (s_state # "Closed" /\ s_state' \notin {"Opened", s_state}
                                 /\ (s_state = "Opened" => s_runThread = 0 \/ timedOut))
  PROVE  Slots'
BY DEF LifeInv, Types, Slots, Over

\* A thread is started in a free slot, with no other one alive.
LEMMA SlotsFilled ==
  ASSUME LifeInv, NEW c \in Callers, StartRun(c), s_state # "Closed", s_state' = "Opened",
         s_runError' = FALSE, quitting' = quitting,
         \A g \in Runs : Over(g)
  PROVE  Slots'
<1>1. PICK g \in Runs : s_runThread' = g /\ rpc' = [rpc EXCEPT ![g] = "start"]
  BY DEF StartRun
<1> QED BY <1>1 DEF LifeInv, Types, Slots, Over

\* Before the state is final, only the thread in the slot may be alive.
LEMMA InSlot ==
  ASSUME LifeInv, s_state # "Closed", NEW g \in Runs, ~Over(g)
  PROVE  g = s_runThread
BY DEF LifeInv, Slots, Closings, Closing

LEMMA SlotsStep == ASSUME LifeInv, OneAtStart, Next PROVE Slots'
<1> USE DEF LifeInv
<1>0. Types /\ {"idle", "claimed", "replacing", "opening", "failing", "close", "waiting", "starting",
       "joining", "ending", "storing", "draining"} \subseteq Places
      /\ {"none", "Init", "Open", "Close", "drain", "drained", "forced", "early"} \subseteq Kinds
  BY DEF Places, Kinds
<1>1. ASSUME NEW c \in Callers, InitClaim(c) \/ InitDone(c) PROVE Slots'
  <2>1. CASE InitClaim(c)
    BY <1>0, <2>1, Begins, SlotsKept DEF InitClaim, Idle, flagVars, runVars
  <2>2. CASE InitDone(c)
    BY <1>0, <2>2, Returns, SlotsKept DEF InitDone, flagVars, runVars
  <2> QED BY <1>1, <2>1, <2>2
<1>2. ASSUME NEW c \in Callers, Open(c) PROVE Slots'
  <2>1. CASE s_runThread = 0
    <3>1. \A g \in Runs : Over(g)
      BY <1>2, <2>1, InSlot DEF Open, Runs
    <3> QED BY <1>2, <2>1, <3>1, SlotsFilled DEF Open
  <2>2. CASE s_runThread # 0
    <3>1. UNCHANGED <<s_runThread, rpc, mine, quitting, timedOut>> /\ s_state' = "Opened"
          /\ s_runError' = FALSE /\ s_state = "Initialized"
      BY <1>2, <2>2 DEF Open
    <3> QED BY <3>1, InSlot DEF Slots, Over
  <2> QED BY <2>1, <2>2
<1>3. ASSUME NEW c \in Callers, OpenReplaced(c) PROVE Slots'
  <2>1. s_state = "Opened" /\ s_runError = FALSE /\ s_runError' = FALSE
        /\ UNCHANGED <<quitting, timedOut, mine>>
    BY <1>3 DEF OpenReplaced, Locked
  <2>2. \A g \in Runs : Over(g)
    BY <1>3, <2>1, InSlot DEF OpenReplaced, Over
  <2>3. CASE StartRun(c) /\ s_state' = s_state
    BY <2>1, <2>2, <2>3, SlotsFilled
  <2>4. CASE s_runThread' = 0 /\ s_state' = "Initialized" /\ rpc' = rpc
    BY <2>1, <2>2, <2>4 DEF Slots, Over
  <2> QED BY <1>3, <2>3, <2>4 DEF OpenReplaced
<1>4. ASSUME NEW c \in Callers, OpenFails(c) PROVE Slots'
  <2>1. UNCHANGED <<s_state, s_runThread, rpc, pc, mine, quitting, timedOut>>
        /\ s_runError' = FALSE /\ s_state = "Initialized"
    BY <1>4 DEF OpenFails, stateVars, runVars, callVars
  <2> QED BY <2>1, InSlot DEF Slots, Over
<1>5. ASSUME NEW c \in Callers, OpenWakes(c) PROVE Slots'
  <2>1. UNCHANGED <<s_state, s_runThread, rpc, mine, timedOut, s_runError>>
    BY <1>5 DEF OpenWakes, stateVars, flagVars
  <2>2. \A d \in Callers : pc[d] = "joining" => pc'[d] = "joining"
    BY <1>0, <1>5, Begins, Returns DEF OpenWakes
  <2>3. quitting' = quitting
    <3>1. CASE s_state # "Closed" /\ s_runError
      <4>1. ~LoopRuns
        BY <3>1 DEF Slots, Over, LoopRuns, Types
      <4>2. quitting' = (quitting \/ LoopRuns)
        BY <1>5, <3>1 DEF OpenWakes, Quit
      <4> QED BY <4>1, <4>2 DEF Types
    <3>2. CASE ~(s_state # "Closed" /\ s_runError)
      BY <1>5, <3>2 DEF OpenWakes
    <3> QED BY <3>1, <3>2
  <2> QED BY <2>1, <2>2, <2>3, SlotsKept
<1>6. ASSUME NEW c \in Callers, OpenFailed(c) PROVE Slots'
  <2>1. s_state # "Closed" /\ s_state' = "Initialized" /\ s_runThread' = 0
        /\ UNCHANGED <<rpc, quitting, timedOut, s_runError>>
    BY <1>6 DEF OpenFailed, Locked, runVars
  <2>2. \A g \in Runs : Over(g)
    BY <1>6, <2>1, InSlot DEF OpenFailed, Over, Runs
  <2> QED BY <2>1, <2>2 DEF Slots, Over
<1>7. ASSUME NEW c \in Callers, OpenTimeout(c) PROVE Slots'
  <2>1. s_state # "Closed" /\ s_state' = "Initialized" /\ timedOut' = TRUE
        /\ UNCHANGED <<rpc, quitting, s_runThread, s_runError>>
    BY <1>7 DEF OpenTimeout, startReady, flagVars, runVars
  <2> QED BY <2>1, InSlot DEF Slots, Over
<1>8. ASSUME NEW c \in Callers, CloseCall(c) \/ CloseStarted(c) PROVE Slots'
  <2>0. UNCHANGED <<s_runError, rpc, timedOut>>
    BY <1>0, <1>8, CloseCases
  <2>1. CASE WaitsOnClose(c) \/ WaitsOnStart(c)
    BY <1>0, <2>0, <2>1, Stays, SlotsKept DEF WaitsOnClose, WaitsOnStart, Block, FindsOpen, Entered
  <2>2. CASE NothingToDo(c) \/ ClosesUnopened(c)
    BY <1>0, <2>0, <2>2, Returns, SlotsKept DEF NothingToDo, ClosesUnopened, Entered
  <2>3. CASE TakesOver(c)
    <3>1. pc'[c] = "joining" /\ mine'[c] = s_runThread /\ s_runThread' = 0 /\ s_state' = "Closed"
          /\ quitting' \in BOOLEAN
      BY <1>0, <2>3, Stays DEF TakesOver, TakeOver, Types, Quit
    <3>2. s_state # "Closed"
      BY <2>3 DEF TakesOver, FindsOpen, Closings
    <3> QED BY <2>0, <3>1, <3>2, InSlot DEF Slots, Over
  <2> QED BY <1>0, <1>8, <2>1, <2>2, <2>3, CloseCases
<1>9. ASSUME NEW c \in Callers, CloseJoined(c) PROVE Slots'
  <2>1. \A d \in Callers \ {c} : pc'[d] = pc[d]
    BY <1>0, <1>9, Moves DEF CloseJoined
  <2>2. UNCHANGED <<s_state, s_runThread, rpc, mine, quitting, timedOut, s_runError>>
    BY <1>9 DEF CloseJoined, stateVars, flagVars, runVars
  <2>3. \A g \in Runs : ~Over(g) =>
          g = s_runThread \/ \E d \in Callers \ {c} : pc[d] = "joining" /\ mine[d] = g
    BY <1>9 DEF CloseJoined, Slots, Over, Runs
  <2> QED BY <2>1, <2>2, <2>3 DEF Slots, Over
<1>10. ASSUME NEW c \in Callers, CloseEnds(c) PROVE Slots'
  <2>1. pc[c] = "ending" /\ \A d \in Callers \ {c} : pc'[d] = pc[d] /\ mine'[d] = mine[d]
    BY <1>0, <1>10, Returns DEF CloseEnds, Types
  <2>2. UNCHANGED <<s_state, s_runThread, rpc, quitting, timedOut, s_runError>>
    BY <1>10 DEF CloseEnds, stateVars, runVars
  <2> QED BY <2>1, <2>2 DEF Slots, Over
<1>11. ASSUME NEW c \in Callers, DrainAndClose(c) \/ FlagSeen(c) \/ DrainEnds(c) PROVE Slots'
  BY <1>0, <1>11, Begins, Moves, SlotsKept
     DEF DrainAndClose, FlagSeen, DrainEnds, Idle, stateVars, flagVars, runVars
<1>12. ASSUME NEW g \in Runs, RunEnters(g) \/ NotifyServerStarted(g) \/ RunThrows(g) \/ RunReturns(g)
       PROVE  Slots'
  <2>1. UNCHANGED <<s_state, s_runThread, pc, mine, quitting, timedOut, s_runError>> /\ ~Over(g)
        /\ \A h \in Runs \ {g} : rpc'[h] = rpc[h]
    BY <1>0, <1>12 DEF RunEnters, NotifyServerStarted, RunThrows, RunReturns, stateVars, flagVars,
                       callVars, Over, Types
  <2> QED BY <2>1 DEF Slots, Over
<1>13. ASSUME NEW g \in Runs, RunReports(g) PROVE Slots'
  <2>1. UNCHANGED <<s_state, s_runThread, pc, mine, quitting, timedOut>> /\ ~Over(g)
        /\ rpc' = [rpc EXCEPT ![g] = "exited"]
    BY <1>13 DEF RunReports, stateVars, Over
  <2>2. s_state # "Closed" => \A h \in Runs \ {g} : Over(h)
    BY <2>1, InSlot
  <2> QED BY <1>0, <2>1, <2>2 DEF Slots, Over, Types
<1>14. ASSUME NEW r \in Requests, RequestStep(r) PROVE Slots'
  BY <1>14, RequestsApart, SlotsKept DEF stateVars, flagVars, callVars, runVars
<1> QED BY <1>1, <1>2, <1>3, <1>4, <1>5, <1>6, <1>7, <1>8, <1>9, <1>10, <1>11, <1>12, <1>13, <1>14
        DEF Next, CallStep, CloseCall, RequestStep, RunStep

-----------------------------------------------------------------------------
\* The drained server

ClosePlaces == {"close", "waiting", "starting"} \cup Closing

\* A call that neither drains nor closes moves; no request is let in.
LEMMA DrainsKept ==
  ASSUME LifeInv, NEW c \in Callers, pc'[c] \notin {"storing", "draining"} \cup ClosePlaces,
         \A d \in Callers \ {c} : pc'[d] = pc[d] /\ kind'[d] = kind[d],
         s_state # "Uninit" => s_state' # "Uninit", s_state = "Closed" => s_state' = "Closed",
         s_draining' = s_draining,
         \A r \in Requests \ Probes : req'[r] = "handling" => req[r] = "handling"
  PROVE  Drains'
BY DEF LifeInv, Drains, ClosePlaces

LEMMA DrainsStill ==
  ASSUME LifeInv, UNCHANGED <<pc, kind, s_state, s_draining>>,
         \A r \in Requests \ Probes : req'[r] = "handling" => req[r] = "handling" \/ s_draining = FALSE
  PROVE  Drains'
BY DEF LifeInv, Drains

LEMMA DrainsStep == ASSUME LifeInv, OneAtStart, Next PROVE Drains'
<1> USE DEF LifeInv
<1>0. Types /\ {"idle", "claimed", "replacing", "opening", "failing", "close", "waiting", "starting",
       "joining", "ending", "storing", "draining"} \subseteq Places
      /\ {"none", "Init", "Open", "Close", "drain", "drained", "forced", "early"} \subseteq Kinds
  BY DEF Places, Kinds
<1>1. ASSUME NEW c \in Callers, InitClaim(c) \/ InitDone(c) PROVE Drains'
  <2>1. CASE InitClaim(c)
    BY <1>0, <2>1, Begins, DrainsKept DEF InitClaim, flagVars, reqVars, ClosePlaces, Closing
  <2>2. CASE InitDone(c)
    BY <1>0, <2>2, Returns, DrainsKept DEF InitDone, flagVars, reqVars, ClosePlaces, Closing
  <2> QED BY <1>1, <2>1, <2>2
<1>2. ASSUME NEW c \in Callers, Open(c) PROVE Drains'
  <2>1. pc'[c] \in {"opening", "replacing"} /\ \A d \in Callers \ {c} : pc'[d] = pc[d]
    BY <1>0, <1>2, Moves DEF Open, StartRun
  <2>2. s_state = "Initialized" /\ s_state' = "Opened" /\ s_draining' = s_draining /\ req' = req
        /\ \A d \in Callers \ {c} : kind'[d] = kind[d]
    BY <1>0, <1>2 DEF Open, reqVars, Types
  <2> QED BY <2>1, <2>2, DrainsKept DEF ClosePlaces, Closing
<1>3. ASSUME NEW c \in Callers, OpenReplaced(c) \/ OpenFailed(c) PROVE Drains'
  <2>1. /\ pc[c] \in {"replacing", "failing"} /\ pc'[c] \in {"opening", "idle"}
        /\ \A d \in Callers \ {c} : pc'[d] = pc[d] /\ kind'[d] = kind[d]
    BY <1>0, <1>3, Moves, Returns DEF OpenReplaced, StartRun, OpenFailed
  <2>2. s_state # "Closed" /\ s_state' \in {s_state, "Initialized"} /\ s_draining' = s_draining
        /\ req' = req
    BY <1>3, <2>1 DEF OpenReplaced, OpenFailed, Locked, reqVars
  <2> QED BY <2>1, <2>2, DrainsKept DEF ClosePlaces, Closing
<1>4. ASSUME NEW c \in Callers, OpenWakes(c) PROVE Drains'
  <2>1. pc'[c] \in {"failing", "idle"} /\ \A d \in Callers \ {c} : pc'[d] = pc[d] /\ kind'[d] = kind[d]
    BY <1>0, <1>4, Begins, Returns DEF OpenWakes
  <2> QED BY <1>4, <2>1, DrainsKept DEF OpenWakes, stateVars, flagVars, reqVars, ClosePlaces, Closing
<1>5. ASSUME NEW c \in Callers, OpenTimeout(c) PROVE Drains'
  BY <1>0, <1>5, Returns, DrainsKept
     DEF OpenTimeout, startReady, flagVars, reqVars, ClosePlaces, Closing
<1>6. ASSUME NEW c \in Callers, OpenFails(c) PROVE Drains'
  BY <1>6, DrainsStill DEF OpenFails, callVars, stateVars, reqVars
<1>7. ASSUME NEW c \in Callers, CloseCall(c) \/ CloseStarted(c) PROVE Drains'
  <2>0. req' = req /\ Free
    BY <1>0, <1>7, CloseCases DEF reqVars
  <2>1. CASE WaitsOnClose(c)
    <3>1. s_state = "Closed"
      BY <2>1 DEF WaitsOnClose, Closings
    <3> QED BY <1>0, <2>0, <2>1, <3>1, Stays
            DEF WaitsOnClose, Entered, Block, Drains, Closing, Idle
  <2>2. CASE WaitsOnStart(c)
    BY <1>0, <2>0, <2>2, Stays
       DEF WaitsOnStart, FindsOpen, Entered, Block, Drains, Closing, Idle
  <2>3. CASE NothingToDo(c) \/ ClosesUnopened(c)
    <3>1. \A d \in Callers : pc[d] # "joining"
      BY <2>3 DEF NothingToDo, ClosesUnopened, Closings, Closing
    <3>2. pc'[c] = "idle" /\ \A d \in Callers \ {c} : pc'[d] = pc[d] /\ kind'[d] = kind[d]
      BY <1>0, <2>3, Returns DEF NothingToDo, ClosesUnopened
    <3>3. \/ s_state' = "Closed"
          \/ s_state = "Uninit" /\ s_state' = "Uninit"
      BY <2>3 DEF NothingToDo, ClosesUnopened
    <3> QED BY <3>1, <3>2, <3>3 DEF Drains, Closing
  <2>4. CASE TakesOver(c)
    <3>1. s_state # "Closed" /\ pc[c] \in {"idle", "close", "starting"}
      BY <2>4 DEF TakesOver, FindsOpen, Entered, Closings
    <3>2. \A d \in Callers : pc[d] # "joining"
      BY <3>1 DEF Closings, Closing
    <3>3. s_state' = "Closed" /\ s_draining' = s_draining
          /\ pc'[c] = "joining" /\ kind'[c] = (IF Idle(c) THEN "Close" ELSE kind[c])
          /\ \A d \in Callers \ {c} : pc'[d] = pc[d] /\ kind'[d] = kind[d]
      BY <1>0, <2>4, Stays DEF TakesOver, TakeOver
    <3> QED BY <2>0, <3>1, <3>2, <3>3 DEF Drains, Closing, Idle
  <2> QED BY <1>0, <1>7, <2>1, <2>2, <2>3, <2>4, CloseCases
<1>8. ASSUME NEW c \in Callers, CloseJoined(c) PROVE Drains'
  <2>1. pc[c] = "joining" /\ pc'[c] = "ending" /\ \A d \in Callers \ {c} : pc'[d] = pc[d]
    BY <1>0, <1>8, Moves DEF CloseJoined
  <2>2. s_state = "Closed" /\ UNCHANGED <<s_state, s_draining, kind, req>>
    BY <1>8, <2>1 DEF CloseJoined, stateVars, flagVars, reqVars, Closings, Closing
  <2> QED BY <2>1, <2>2 DEF Drains, Closing
<1>9. ASSUME NEW c \in Callers, CloseEnds(c) PROVE Drains'
  <2>1. s_state = "Closed" /\ s_state' = "Closed" /\ \A d \in Callers \ {c} : pc[d] # "joining"
    BY <1>9 DEF CloseEnds, stateVars, Closings, Closing
  <2>2. pc'[c] = "idle" /\ \A d \in Callers \ {c} : pc'[d] = pc[d] /\ kind'[d] = kind[d]
    BY <1>0, <1>9, Returns DEF CloseEnds
  <2> QED BY <2>1, <2>2 DEF Drains, Closing
<1>10. ASSUME NEW c \in Callers, DrainAndClose(c) PROVE Drains'
  <2>1. UNCHANGED <<s_state, req>> /\ s_draining' \in {s_draining, TRUE} /\ s_state # "Uninit"
    BY <1>10 DEF DrainAndClose, stateVars, reqVars
  <2>2. /\ \/ pc'[c] = "draining" /\ kind'[c] = "drain" /\ s_draining' = TRUE
           \/ pc'[c] = "storing" /\ kind'[c] = "early"
        /\ \A d \in Callers \ {c} : pc'[d] = pc[d] /\ kind'[d] = kind[d]
    BY <1>0, <1>10, Begins DEF DrainAndClose
  <2> QED BY <2>1, <2>2 DEF Drains, Closing
<1>14. ASSUME NEW c \in Callers, FlagSeen(c) PROVE Drains'
  <2>1. UNCHANGED <<s_state, req, kind>> /\ s_draining' = TRUE /\ kind[c] = "early"
    BY <1>14 DEF FlagSeen, stateVars, reqVars, Drains
  <2>2. pc'[c] = "close" /\ \A d \in Callers \ {c} : pc'[d] = pc[d]
    BY <1>0, <1>14, Moves DEF FlagSeen
  <2> QED BY <2>1, <2>2 DEF Drains, Closing
<1>11. ASSUME NEW c \in Callers, DrainEnds(c) PROVE Drains'
  <2>1. UNCHANGED <<s_state, s_draining, req>>
    BY <1>11 DEF DrainEnds, stateVars, flagVars, reqVars
  <2>2. PICK result \in {"drained", "forced"} :
          (s_m_inflight > 0 => result = "forced") /\ Begin(c, result, "close")
    BY <1>11 DEF DrainEnds
  <2>3. result = "drained" => \A r \in Requests \ Probes : req[r] # "handling"
    BY <2>2, FoundIn DEF InHandlers
  <2>4. pc[c] = "draining" /\ pc'[c] = "close" /\ kind'[c] = result
        /\ \A d \in Callers \ {c} : pc'[d] = pc[d] /\ kind'[d] = kind[d]
    BY <1>0, <1>11, <2>2, Begins DEF DrainEnds
  <2> QED BY <2>1, <2>3, <2>4 DEF Drains, Closing
<1>12. ASSUME NEW g \in Runs, RunStep(g) \/ RunThrows(g) PROVE Drains'
  <2>1. UNCHANGED <<pc, kind, s_state, s_draining>>
    BY <1>12 DEF RunStep, RunEnters, NotifyServerStarted, RunReports, RunReturns, RunThrows,
                 stateVars, flagVars, callVars
  <2>2. \A r \in Requests \ Probes : req'[r] = "handling" => req[r] = "handling"
    BY <1>12 DEF RunStep, RunEnters, NotifyServerStarted, RunReports, RunReturns, RunThrows,
                 reqVars, LoopEnds
  <2> QED BY <2>1, <2>2, DrainsStill
<1>13. ASSUME NEW r \in Requests, RequestStep(r) PROVE Drains'
  <2>1. UNCHANGED <<pc, kind, s_state, s_draining>>
    BY <1>13, RequestsApart DEF stateVars, flagVars, callVars
  <2>2. \A q \in Requests \ Probes : req'[q] = "handling" => req[q] = "handling" \/ s_draining = FALSE
    BY <1>13 DEF RequestStep, Arrives, DrainGate, Finalize, Sent, Lost, Become, Types
  <2> QED BY <2>1, <2>2, DrainsStill
<1> QED BY <1>1, <1>2, <1>3, <1>4, <1>5, <1>6, <1>7, <1>8, <1>9, <1>10, <1>11, <1>12, <1>13, <1>14
        DEF Next, CallStep, CloseCall, RequestStep

-----------------------------------------------------------------------------
\* The counter

LEMMA OneLess ==
  ASSUME NEW A, NEW x \in A, IsFiniteSet(A)
  PROVE  Cardinality(A \ {x}) = Cardinality(A) - 1
<1>1. Cardinality(A \ {x}) = IF x \in A THEN Cardinality(A) - 1 ELSE Cardinality(A)
  BY FS_RemoveElement
<1> QED BY <1>1

LEMMA CountedStep == ASSUME LifeInv, Next PROVE Counted'
<1> DEFINE S == {r \in Requests : req[r] \in InHandlers}
<1>0. IsFiniteSet(S) /\ Cardinality(S) \in Nat /\ s_m_inflight \in Nat
      /\ s_m_inflight >= Cardinality(S)
  BY LifeAssumption, FS_Subset, FS_CardinalityType DEF LifeInv, Counted, Types
<1>1. CASE s_m_inflight' = s_m_inflight /\ S' \subseteq S
  BY <1>0, <1>1, FS_Subset, FS_CardinalityType DEF Counted
<1>2. ASSUME NEW r \in Requests, Arrives(r) PROVE Counted'
  <2>1. r \notin S /\ S' = S \cup {r} /\ s_m_inflight' = s_m_inflight + 1
    BY <1>2 DEF Arrives, Become, InLoop, InHandlers, LifeInv, Types
  <2>2. Cardinality(S') = Cardinality(S) + 1
    BY <1>0, <2>1, FS_AddElement
  <2> QED BY <1>0, <2>1, <2>2 DEF Counted
<1>3. ASSUME NEW r \in Requests, Finalize(r) PROVE Counted'
  <2>1. r \in S /\ S' = S \ {r} /\ s_m_inflight' = s_m_inflight - 1
    BY <1>3 DEF Finalize, Become, InLoop, InHandlers, LifeInv, Types
  <2>2. Cardinality(S \ {r}) = Cardinality(S) - 1
    BY <1>0, <2>1, OneLess
  <2>3. Cardinality(S') = Cardinality(S) - 1
    BY <2>1, <2>2
  <2> QED BY <1>0, <2>1, <2>3 DEF Counted
<1>4. ASSUME NEW r \in Requests, DrainGate(r) \/ Sent(r) \/ Lost(r)
      PROVE  s_m_inflight' = s_m_inflight /\ S' \subseteq S
  BY <1>4 DEF DrainGate, Sent, Lost, Become, InLoop, InHandlers, LifeInv, Types
<1>5. ASSUME NEW g \in Runs, RunStep(g) \/ RunThrows(g)
      PROVE  s_m_inflight' = s_m_inflight /\ S' \subseteq S
  BY <1>5 DEF RunStep, RunEnters, NotifyServerStarted, RunReports, RunReturns, RunThrows,
              LoopEnds, reqVars, InLoop, InHandlers
<1>6. ASSUME NEW c \in Callers,
             \/ CallStep(c) \/ OpenTimeout(c)
             \/ InitClaim(c) \/ Open(c) \/ OpenFails(c) \/ CloseEnter(c) \/ DrainAndClose(c)
      PROVE  s_m_inflight' = s_m_inflight /\ S' \subseteq S
  BY <1>6 DEF CallStep, OpenTimeout, InitClaim, InitDone, Open, OpenFails, OpenReplaced, OpenWakes,
              OpenFailed, CloseEnter, CloseWakes, CloseStarted, CloseJoined, CloseEnds,
              DrainAndClose, FlagSeen, DrainEnds, reqVars
<1> QED BY <1>1, <1>2, <1>3, <1>4, <1>5, <1>6 DEF Next

-----------------------------------------------------------------------------
LEMMA LifeInvStep ==
  ASSUME LifeInv, OneAtStart, [Next]_vars PROVE LifeInv'
<1>1. CASE Next
  BY <1>1, TypesStep, LockedStep, ClosingsStep, SlotsStep, DrainsStep, CountedStep DEF LifeInv
<1>2. CASE UNCHANGED vars
  BY <1>2 DEF vars, stateVars, flagVars, runVars, callVars, reqVars, LifeInv, Types, Locked,
              Closings, Slots, Over, Drains, Counted, Made
<1> QED BY <1>1, <1>2

LEMMA Living == ASSUME OneAtStart PROVE Spec => []LifeInv
<1>1. LifeInv /\ [Next]_vars => LifeInv'
  BY LifeInvStep
<1> QED BY LifeInit, <1>1, PTL DEF Spec

-----------------------------------------------------------------------------
\* The theorems

\* Nothing leaves Closed, and nobody starts a run thread there: an Open that is replacing
\* or failing excludes it, the others look at the state.
LEMMA ClosedStays ==
  ASSUME LifeInv, [Next]_vars, s_state = "Closed"
  PROVE  s_state' = "Closed" /\ Made' = Made
<1> USE DEF LifeInv
<1>1. CASE UNCHANGED <<s_state, rpc>>
  BY <1>1 DEF Made
<1>2. ASSUME NEW c \in Callers, OpenReplaced(c) \/ OpenFailed(c) PROVE FALSE
  BY <1>2 DEF OpenReplaced, OpenFailed, Locked
<1>3. ASSUME NEW c \in Callers, Open(c) \/ OpenTimeout(c) PROVE FALSE
  BY <1>3 DEF Open, OpenTimeout, startReady
<1>4. ASSUME NEW c \in Callers, InitClaim(c) \/ InitDone(c) \/ OpenFails(c) \/ OpenWakes(c)
      PROVE  UNCHANGED <<s_state, rpc>>
  BY <1>4 DEF InitClaim, InitDone, OpenFails, OpenWakes, stateVars, runVars
<1>5. ASSUME NEW c \in Callers, CloseCall(c) \/ CloseStarted(c)
      PROVE  s_state' = "Closed" /\ rpc' = rpc
  BY <1>5, CloseCases
     DEF WaitsOnClose, WaitsOnStart, NothingToDo, ClosesUnopened, TakesOver, TakeOver, Block
<1>6. ASSUME NEW c \in Callers,
             CloseJoined(c) \/ CloseEnds(c) \/ DrainAndClose(c) \/ FlagSeen(c) \/ DrainEnds(c)
      PROVE  UNCHANGED <<s_state, rpc>>
  BY <1>6 DEF CloseJoined, CloseEnds, DrainAndClose, FlagSeen, DrainEnds, stateVars, runVars
<1>7. ASSUME NEW g \in Runs, RunStep(g) \/ RunThrows(g) PROVE s_state' = s_state /\ Made' = Made
  BY <1>7 DEF RunStep, RunEnters, NotifyServerStarted, RunReports, RunReturns, RunThrows,
              stateVars, Types, Made
<1>8. ASSUME NEW r \in Requests, RequestStep(r) PROVE UNCHANGED <<s_state, rpc>>
  BY <1>8, RequestsApart DEF stateVars, runVars
<1>9. CASE UNCHANGED vars
  BY <1>9 DEF vars, stateVars, runVars, Made
<1>10. CASE Next
  BY <1>1, <1>2, <1>3, <1>4, <1>5, <1>6, <1>7, <1>8, <1>10
     DEF Next, CallStep, CloseCall, RequestStep, Made
<1> QED BY <1>9, <1>10

\* Closed is final, with the types: a late start, another Open or another Close of
\* ZmHttpServer cannot reopen it or start a run thread behind it.
THEOREM NothingReopens == ASSUME OneAtStart PROVE Spec => ClosedIsFinal
<1>1. LifeInv /\ [Next]_vars => [s_state = "Closed" => s_state' = "Closed" /\ Made' = Made]_vars
  BY ClosedStays
<1> QED BY Living, InvIsTypeOK, <1>1, PTL DEF Spec, ClosedIsFinal

LEMMA ReturnsStopped ==
  ASSUME LifeInv, NEW c \in Callers, CloseCall(c) \/ CloseEnds(c), pc'[c] = "idle"
  PROVE  Stopped' \/ timedOut
<1> USE DEF LifeInv
<1>1. SUFFICES ASSUME timedOut = FALSE PROVE Stopped'
  BY DEF Types
<1>2. (\A d \in Callers : pc[d] # "joining") /\ s_state # "Opened" /\ rpc' = rpc
  <2>1. CASE CloseCall(c)
    <3>1. rpc' = rpc /\ (NothingToDo(c) \/ ClosesUnopened(c))
      BY <2>1, CloseCases, Stays
         DEF WaitsOnClose, WaitsOnStart, TakesOver, TakeOver, Block, Places
    <3> QED BY <3>1 DEF NothingToDo, ClosesUnopened, Closings, Closing
  <2>2. CASE CloseEnds(c)
    BY <2>2 DEF CloseEnds, Closings, Closing, runVars
  <2> QED BY <2>1, <2>2
<1> QED BY <1>1, <1>2 DEF Slots, Over, Stopped, Runs

\* When Close or DrainAndClose of ZmHttpServer returns, no run thread is alive, whoever else
\* opens and closes (with one Close at most in the start window): but for one left behind by
\* an Open that gave up.
THEOREM ReturnedMeansStopped == ASSUME OneAtStart PROVE Spec => CloseIsSynchronous
<1> DEFINE Returned == \A c \in Callers :
                        (CloseEnter(c) \/ CloseWakes(c) \/ CloseEnds(c)) /\ pc'[c] = "idle"
                          => Stopped' \/ timedOut
<1>1. LifeInv /\ [Next]_vars => [Returned]_vars
  BY ReturnsStopped DEF CloseCall
<1> QED BY Living, <1>1, PTL DEF Spec, CloseIsSynchronous

LEMMA CutByForce ==
  ASSUME LifeInv, Next, cut' \ Probes # cut \ Probes
  PROVE  \E c \in Callers : pc[c] = "joining" /\ kind[c] \in {"Close", "forced", "early"}
<1> USE DEF LifeInv
<1>1. PICK g \in Runs : RunReturns(g)
  <2>1. cut' # cut
    OBVIOUS
  <2> QED
    BY <2>1
       DEF Next, CallStep, OpenTimeout, InitClaim, InitDone, Open, OpenFails, OpenReplaced,
           OpenWakes, OpenFailed, CloseEnter, CloseWakes, CloseStarted, CloseJoined, CloseEnds,
           DrainAndClose, FlagSeen, DrainEnds, reqVars, RunStep, RunEnters, NotifyServerStarted,
           RunReports, RunThrows, Arrives, DrainGate, Finalize, Sent, Lost
<1>2. PICK r \in Requests \ Probes : req[r] = "handling"
  BY <1>1 DEF RunReturns
<1>3. PICK c \in Callers : pc[c] = "joining"
  BY <1>1 DEF RunReturns, Slots, Over, Types, Runs
<1> QED BY <1>2, <1>3 DEF Drains, Closing

\* The end of the loop cuts a handler of ZmHttpServer off, but for a probe's, only when what
\* ended it is a plain Close, a DrainAndClose out of time or one that read the counter
\* before its flag could be seen.
THEOREM DrainLosesNothing == ASSUME OneAtStart PROVE Spec => DrainedIsServed
<1>1. LifeInv /\ [Next]_vars
        => [cut' \ Probes # cut \ Probes
              => \E c \in Callers :
                   pc[c] = "joining" /\ kind[c] \in {"Close", "forced", "early"}]_vars
  BY CutByForce
<1> QED BY Living, <1>1, PTL DEF Spec, DrainedIsServed

-----------------------------------------------------------------------------
(***************************************************************************)
(* Theorems about StreamSend, for files, chunks, watermarks, headers and   *)
(* framing of any size.  A sending is always in one of four phases, with   *)
(* one token that says who goes on: a call that is due, a read, a receipt, *)
(* or nobody any more.                                                     *)
(***************************************************************************)

SendTypes ==
  /\ sent \in 0..Total /\ framed \in Nat /\ pos \in Nat /\ taken \in Nat /\ seen \in Nat
  /\ frame \in [0..Chunk -> Nat]
  /\ conn \in {"up", "down", "gone"}
  /\ Base <= taken /\ taken <= Handed
  /\ seen <= taken

\* The drained bytes are counted from Run on, from what the connection had sent by then.
Measured ==
  /\ m_baseConnSent \in Nat
  /\ conn = "gone" \/ due = {"Run"} \/ fini
     \/ (m_baseConnSent \in Base..(Base + Header) /\ m_baseConnSent <= taken)

\* When a read was asked for, the output was not ahead of the watermark; nor is
\* it later, except on a connection that takes no more bytes.
Slack == conn = "gone" \/ Base + sent <= taken + Watermark

\* OutputIsBounded, without header and framing.
BodyIsBounded == Base + sent <= taken + (Watermark + Chunk)

Task      == [want : Nat, reading : BOOLEAN]
Filled(n) == [j \in 1..n |-> sent + j]

\* Run, or Next, is to come; nothing is in flight.
Waiting ==
  /\ \/ due = {"Run"} /\ sent = 0 /\ framed = 0
     \/ due = {"Next"} /\ seen < Handed
  /\ reads = <<>> /\ receipts = <<>> /\ ~fini
  /\ pos = sent /\ sent < Total

\* The I/O pool has the one task.
Reading ==
  /\ due = {} /\ receipts = <<>> /\ ~fini
  /\ pos = sent /\ Slack
  /\ reads \in Seq(Task) /\ Len(reads) = 1
  /\ reads[1].want \in 1..Chunk /\ reads[1].want <= Total - sent

\* Its receipt is on the way, with the chunk in the buffer or without one.
Answered ==
  /\ due = {} /\ reads = <<>> /\ ~fini
  /\ \/ receipts = <<FALSE>>
     \/ /\ receipts = <<TRUE>> /\ Slack
        /\ \E n \in 1..Chunk :
             n <= Total - sent /\ buf = Filled(n) /\ pos = sent + n

SendOver == due = {} /\ reads = <<>> /\ receipts = <<>> /\ fini

\* The inductive invariant.
IInv ==
  /\ SendTypes
  /\ Waiting \/ Reading \/ Answered \/ SendOver
  /\ Measured
  /\ SentInOrder
  /\ BodyIsBounded

-----------------------------------------------------------------------------
\* Facts about the sequences of the code: the one task or receipt, and bytes
\* that are added to those sent.

LEMMA OneElement ==
  ASSUME NEW e
  PROVE  /\ Append(<<>>, e) = <<e>> /\ <<e>> # <<>>
         /\ Head(<<e>>) = e /\ Tail(<<e>>) = <<>>
         /\ DOMAIN <<e>> = {1} /\ <<e>>[1] = e
OBVIOUS

LEMMA Replaced ==
  ASSUME NEW S, NEW s \in Seq(S), NEW e \in S, Len(s) = 1
  PROVE  LET t == [s EXCEPT ![1] = e] IN t \in Seq(S) /\ Len(t) = 1 /\ t[1] = e
<1>1. 1 \in 1..Len(s)
  OBVIOUS
<1>2. /\ [s EXCEPT ![1] = e] \in Seq(S) /\ Len([s EXCEPT ![1] = e]) = Len(s)
      /\ \A j \in 1..Len(s) : [s EXCEPT ![1] = e][j] = IF j = 1 THEN e ELSE s[j]
  BY <1>1, ExceptSeq
<1> QED BY <1>1, <1>2

LEMMA Begun ==
  ASSUME NEW s \in Seq(Task), Len(s) = 1
  PROVE  LET t == [s EXCEPT ![1].reading = TRUE] IN
         t \in Seq(Task) /\ Len(t) = 1 /\ t[1].want = s[1].want
<1> DEFINE r == [s[1] EXCEPT !.reading = TRUE]
           t == [s EXCEPT ![1] = r]
<1>1. s[1] \in Task
  BY ElementOfSeq
<1>2. r \in Task /\ r.want = s[1].want
  BY <1>1 DEF Task
<1>3. t \in Seq(Task) /\ Len(t) = 1 /\ t[1] = r
  <2> HIDE DEF r
  <2> QED BY <1>2, Replaced
<1> QED BY <1>2, <1>3

LEMMA Removed ==
  ASSUME NEW s, Len(s) = 1
  PROVE  RemoveAt(s, 1) = <<>>
<1>1. SubSeq(s, 1, 0) = <<>> /\ SubSeq(s, 2, 1) = <<>>
  BY SubSeqEmpty
<1>2. RemoveAt(s, 1) = SubSeq(s, 1, 0) \o SubSeq(s, 2, 1)
  BY DEF RemoveAt
<1>3. <<>> \o <<>> = <<>>
  BY EmptySeq, ConcatEmptySeq
<1> QED BY <1>1, <1>2, <1>3

LEMMA BytesFollow ==
  ASSUME NEW n \in Nat, NEW m \in Nat
  PROVE  /\ Len([j \in 1..m |-> n + j]) = m
         /\ [i \in 1..n |-> i] \o [j \in 1..m |-> n + j] = [i \in 1..(n + m) |-> i]
<1> DEFINE s == [i \in 1..n |-> i]
           t == [j \in 1..m |-> n + j]
           u == [i \in 1..(n + m) |-> i]
<1>1. s \in Seq(Nat) /\ Len(s) = n /\ \A i \in 1..n : s[i] = i
  OBVIOUS
<1>2. t \in Seq(Nat) /\ Len(t) = m /\ \A j \in 1..m : t[j] = n + j
  OBVIOUS
<1>3. u \in Seq(Nat) /\ Len(u) = n + m /\ \A i \in 1..(n + m) : u[i] = i
  OBVIOUS
<1>4. /\ s \o t \in Seq(Nat) /\ Len(s \o t) = n + m
      /\ \A i \in 1..(n + m) : (s \o t)[i] = IF i <= n THEN s[i] ELSE t[i - n]
  <2> HIDE DEF s, t
  <2> QED BY <1>1, <1>2, ConcatProperties
<1>5. \A i \in 1..(n + m) : (s \o t)[i] = i
  <2> HIDE DEF s, t
  <2> TAKE i \in 1..(n + m)
  <2>1. CASE i <= n
    BY <2>1, <1>1, <1>4
  <2>2. CASE ~(i <= n)
    <3>1. i - n \in 1..m /\ n + (i - n) = i
      BY <2>2
    <3> QED BY <2>2, <3>1, <1>2, <1>4
  <2> QED BY <2>1, <2>2
<1>6. s \o t = u
  <2> HIDE DEF s, t, u
  <2> QED BY <1>3, <1>4, <1>5, SeqEqual
<1> QED BY <1>2, <1>6

LEMMA SmallerFacts ==
  ASSUME NEW a \in Nat \ {0}, NEW b \in Nat \ {0}
  PROVE  Smaller(a, b) \in 1..b /\ Smaller(a, b) <= a
BY DEF Smaller

LEMMA MoreRoom ==
  ASSUME NEW a \in Nat, NEW b \in Nat, NEW t \in Nat, NEW u \in Nat, t <= u, a <= t + b
  PROVE  a <= u + b
OBVIOUS

LEMMA Constants ==
  /\ Total \in Nat \ {0} /\ Chunk \in Nat \ {0} /\ Watermark \in Nat \ {0}
  /\ Header \in Nat /\ Base \in Nat /\ Frames \subseteq [0..Chunk -> Nat]
BY StreamSendAssumption

\* One token goes round, so only one phase holds.
LEMMA PhaseFacts ==
  ASSUME Waiting \/ Reading \/ Answered \/ SendOver
  PROVE  /\ due # {} => Waiting
         /\ reads # <<>> => Reading
         /\ receipts # <<>> => Answered
BY EmptySeq DEF Waiting, Reading, Answered, SendOver

-----------------------------------------------------------------------------
\* A state whose output is ahead by the watermark at most, before and after a chunk.
LEMMA Bounds == IInv => OutputIsBounded
<1> SUFFICES ASSUME IInv PROVE OutputIsBounded
  OBVIOUS
<1>1. sent \in Nat /\ framed \in Nat /\ taken \in Nat /\ BodyIsBounded
  BY Constants DEF IInv, SendTypes
<1>2. Handed \in Nat
  BY <1>1, Constants DEF Handed
<1> QED BY <1>1, <1>2, Constants DEF OutputIsBounded, BodyIsBounded, Handed

LEMMA Initially == StreamInit => IInv
<1> SUFFICES ASSUME StreamInit PROVE IInv
  OBVIOUS
<1>1. SendTypes /\ Waiting /\ Measured /\ BodyIsBounded
  BY Constants DEF StreamInit, SendTypes, Waiting, Measured, BodyIsBounded, Handed
<1>2. SentInOrder
  BY DEF StreamInit, SentInOrder
<1> QED BY <1>1, <1>2 DEF IInv

\* A chunk is asked for when nothing else goes on and the output is not ahead.
LEMMA SubmitReads ==
  ASSUME SendTypes, Waiting, Slack', Submit,
         UNCHANGED <<receipts, fini, pos, sent>>
  PROVE  Reading'
<1>1. Total - sent \in Nat \ {0}
  BY Constants DEF SendTypes, Waiting
<1> DEFINE n == Smaller(Total - sent, Chunk)
           e == [want |-> n, reading |-> FALSE]
<1>2. n \in 1..Chunk /\ n <= Total - sent
  BY <1>1, Constants, SmallerFacts
<1>3. e \in Task /\ e.want = n
  BY <1>2 DEF Task
<1>4. reads' = <<e>>
  <2>1. reads' = Append(<<>>, e)
    BY DEF Submit, Waiting
  <2> HIDE DEF e
  <2> QED BY <2>1, OneElement
<1>5. reads' \in Seq(Task) /\ Len(reads') = 1 /\ reads'[1] = e
  <2> HIDE DEF e
  <2> QED BY <1>3, <1>4
<1> HIDE DEF e, n
<1> QED BY <1>2, <1>3, <1>5 DEF Reading, Waiting, Submit

\* What was handed over grows with the body and the framing.
LEMMA HandedGrows ==
  ASSUME NEW s \in Nat, NEW t \in Nat, NEW f \in Nat, NEW g \in Nat, s <= t, f <= g
  PROVE  /\ Base + Header + s + f \in Nat /\ Base + Header + t + g \in Nat
         /\ Base + Header + s + f <= Base + Header + t + g
         /\ s < t => Base + Header + s + f < Base + Header + t + g
BY Constants

LEMMA SendRunStep == IInv /\ Run => IInv'
<1> SUFFICES ASSUME IInv, Run PROVE IInv'
  OBVIOUS
<1>1. Waiting /\ SendTypes /\ sent = 0 /\ framed = 0
  BY PhaseFacts DEF Run, IInv, Waiting
<1>2. SendTypes'
  BY <1>1 DEF SendTypes, Run, flow, peer, Handed
<1>3. Reading'
  <2>1. Slack'
    BY <1>1, Constants DEF Slack, SendTypes, Run, flow, peer
  <2> QED BY <1>1, <2>1, SubmitReads DEF Run, flow, last
<1>4. Measured'
  <2>1. taken \in Nat /\ Base <= taken /\ taken <= Base + Header
    BY <1>1, Constants DEF SendTypes, Handed
  <2>2. taken \in Base..(Base + Header)
    BY <2>1, Constants
  <2> QED BY <2>1, <2>2 DEF IInv, Measured, Run, peer
<1>5. SentInOrder' /\ BodyIsBounded'
  BY DEF IInv, SentInOrder, BodyIsBounded, Run, flow, peer
<1> QED BY <1>2, <1>3, <1>4, <1>5 DEF IInv

\* The connection sent as much since Run, or since before.
LEMMA NotAhead ==
  ASSUME SendTypes, Measured, due = {"Next"}, ~fini, ~Ahead
  PROVE  Slack
<1>1. CASE conn = "gone"
  BY <1>1 DEF Slack
<1>2. CASE conn # "gone"
  <2>1. Base <= m_baseConnSent /\ m_baseConnSent <= taken /\ m_baseConnSent \in Nat
    <3>1. due # {"Run"}
      OBVIOUS
    <3> QED BY <1>2, <3>1, Constants DEF Measured
  <2>2. ~(sent > (taken - m_baseConnSent) + Watermark)
    BY <1>2 DEF Ahead
  <2>3. sent \in Nat /\ taken \in Nat
    BY Constants DEF SendTypes
  <2> QED BY <2>1, <2>2, <2>3, Constants DEF Slack
<1> QED BY <1>1, <1>2

LEMMA NextReadsStep == IInv /\ NextReads => IInv'
<1> SUFFICES ASSUME IInv, NextReads PROVE IInv'
  OBVIOUS
<1>1. Waiting /\ SendTypes /\ Measured
  BY PhaseFacts DEF NextReads, IInv, Waiting
<1>2. SendTypes'
  BY <1>1 DEF SendTypes, NextReads, Look, flow, peer, disk, Handed
<1>3. Reading'
  <2>1. Slack
    BY <1>1, NotAhead DEF NextReads
  <2>2. Slack'
    BY <2>1 DEF Slack, NextReads, flow, peer
  <2> QED BY <1>1, <2>2, SubmitReads DEF NextReads, flow, last, disk
<1>4. Measured'
  BY <1>1 DEF Measured, NextReads, peer
<1>5. SentInOrder' /\ BodyIsBounded'
  BY DEF IInv, SentInOrder, BodyIsBounded, NextReads, flow, peer
<1> QED BY <1>2, <1>3, <1>4, <1>5 DEF IInv

LEMMA NextWaitsStep == IInv /\ NextWaits => IInv'
<1> SUFFICES ASSUME IInv, NextWaits PROVE IInv'
  OBVIOUS
<1>1. Waiting /\ SendTypes /\ Measured
  BY PhaseFacts DEF NextWaits, IInv, Waiting
<1>2. SendTypes'
  BY <1>1 DEF SendTypes, NextWaits, Look, flow, peer, disk, Handed
<1>3. Waiting'
  <2>1. /\ m_baseConnSent \in Nat /\ m_baseConnSent <= Base + Header
        /\ m_baseConnSent <= taken
    <3>1. due # {"Run"} /\ ~fini /\ conn # "gone"
      BY DEF NextWaits, Ahead
    <3> QED BY <1>1, <3>1, Constants DEF Measured
  <2>2. seen' = taken /\ sent > (taken - m_baseConnSent) + Watermark
    BY DEF NextWaits, Ahead, Look
  <2>3. taken < Handed
    <3>1. sent \in Nat /\ framed \in Nat /\ taken \in Nat
      BY <1>1, Constants DEF SendTypes
    <3>2. taken < Base + Header + sent
      BY <2>1, <2>2, <3>1, Constants
    <3> QED BY <3>1, <3>2, Constants DEF Handed
  <2>4. Handed' = Handed
    BY DEF NextWaits, flow, Handed
  <2> QED BY <1>1, <2>2, <2>3, <2>4 DEF Waiting, NextWaits, flow, disk, last
<1>4. Measured'
  BY <1>1 DEF Measured, NextWaits, peer
<1>5. SentInOrder' /\ BodyIsBounded'
  BY DEF IInv, SentInOrder, BodyIsBounded, NextWaits, flow, peer
<1> QED BY <1>2, <1>3, <1>4, <1>5 DEF IInv

\* The end of the body makes the framing grow, if anything does.
LEMMA FramingGrows ==
  ASSUME frame \in [0..Chunk -> Nat], NEW f \in Nat
  PROVE  Ended(f) \in Nat /\ f <= Ended(f)
<1>1. frame[0] \in Nat
  BY Constants
<1> QED BY <1>1 DEF Ended

\* The sending ends.
LEMMA EndSteps == IInv /\ (RunFails \/ NextStalled \/ OnReadDoneFails) => IInv'
<1> SUFFICES ASSUME IInv, RunFails \/ NextStalled \/ OnReadDoneFails PROVE IInv'
  OBVIOUS
<1>1. UNCHANGED <<pos, reads, frame, sent, out, m_baseConnSent, seen, taken, conn>>
  BY DEF RunFails, NextStalled, OnReadDoneFails, look, peer
<1>2. framed' \in Nat /\ framed <= framed'
  <2>1. framed' = framed \/ framed' = Ended(framed)
    BY DEF RunFails, NextStalled, OnReadDoneFails, Finish, DoClose
  <2>2. framed \in Nat /\ frame \in [0..Chunk -> Nat]
    BY DEF IInv, SendTypes
  <2>3. Ended(framed) \in Nat /\ framed <= Ended(framed)
    BY <2>2, FramingGrows
  <2> QED BY <2>1, <2>2, <2>3
<1>3. SendTypes'
  <2>1. sent \in Nat /\ framed \in Nat /\ taken \in Nat /\ taken <= Handed
    BY Constants DEF IInv, SendTypes
  <2>2. Handed \in Nat /\ Handed' \in Nat /\ Handed <= Handed'
    <3>1. sent' = sent
      BY <1>1
    <3> QED BY <1>2, <2>1, <3>1, HandedGrows DEF Handed
  <2>3. taken <= Handed'
    BY <2>1, <2>2
  <2> QED BY <1>1, <1>2, <2>3 DEF IInv, SendTypes
<1>4. SentInOrder' /\ BodyIsBounded'
  BY <1>1 DEF IInv, SentInOrder, BodyIsBounded
<1>5. SendOver'
  <2>1. CASE RunFails
    <3>1. Waiting
      BY <2>1, PhaseFacts DEF RunFails, IInv, Waiting
    <3> QED BY <2>1, <3>1 DEF RunFails, Waiting, SendOver
  <2>2. CASE NextStalled
    <3>1. Waiting
      BY <2>2, PhaseFacts DEF NextStalled, IInv, Waiting
    <3> QED BY <2>2, <3>1 DEF NextStalled, Waiting, SendOver, Finish
  <2>3. CASE OnReadDoneFails
    <3>1. Answered
      BY <2>3, PhaseFacts DEF OnReadDoneFails, IInv
    <3>2. Tail(receipts) = <<>>
      BY <3>1, OneElement DEF Answered
    <3> QED BY <2>3, <3>1, <3>2 DEF OnReadDoneFails, Answered, SendOver, Finish
  <2> QED BY <2>1, <2>2, <2>3
<1>6. Measured'
  BY <1>1, <1>5 DEF IInv, Measured, SendOver
<1> QED BY <1>3, <1>4, <1>5, <1>6 DEF IInv

\* A chunk in the buffer is the next bytes of the file; they follow those sent.
LEMMA OnReadDoneStep == IInv /\ OnReadDone => IInv'
<1> SUFFICES ASSUME IInv, OnReadDone PROVE IInv'
  OBVIOUS
<1>1. Answered /\ SendTypes /\ conn = "up"
  BY PhaseFacts DEF OnReadDone, IInv, SendFails, SendTypes
<1>2. receipts = <<TRUE>> /\ Slack /\ Tail(receipts) = <<>>
  BY <1>1, OneElement DEF OnReadDone, Answered
<1>3. PICK n \in 1..Chunk : n <= Total - sent /\ buf = Filled(n) /\ pos = sent + n
  BY <1>1, <1>2, OneElement DEF Answered
<1>4. sent \in Nat /\ n \in Nat /\ n \in 0..Chunk
  BY <1>1, Constants DEF SendTypes
<1>5. Len(buf) = n /\ [i \in 1..sent |-> i] \o buf = [i \in 1..(sent + n) |-> i]
  BY <1>3, <1>4, BytesFollow DEF Filled
<1>6. sent' = sent + n /\ out' = [i \in 1..(sent + n) |-> i]
  BY <1>5 DEF OnReadDone, IInv, SentInOrder
<1>7. SentInOrder'
  BY <1>6 DEF SentInOrder
<1>a. UNCHANGED <<pos, taken, conn, m_baseConnSent, seen, reads, frame>>
  BY DEF OnReadDone, look, peer
<1>b. taken \in Nat /\ n <= Chunk
  BY <1>1, <1>3, <1>4, Constants DEF SendTypes
<1>c. framed' \in Nat /\ framed <= framed'
  <2>1. framed \in Nat /\ frame \in [0..Chunk -> Nat]
    BY <1>1 DEF SendTypes
  <2> DEFINE f == framed + frame[Len(buf)]
  <2>2. f \in Nat /\ framed <= f
    BY <1>4, <1>5, <2>1
  <2>3. framed' = f \/ framed' = Ended(f)
    BY DEF OnReadDone, Finish, DoClose
  <2>4. Ended(f) \in Nat /\ f <= Ended(f)
    <3> HIDE DEF f
    <3> QED BY <2>1, <2>2, FramingGrows
  <2> HIDE DEF f
  <2> QED BY <2>1, <2>2, <2>3, <2>4
<1>8. BodyIsBounded'
  BY <1>1, <1>2, <1>4, <1>6, <1>a, <1>b, Constants DEF Slack, BodyIsBounded
<1>d. framed \in Nat /\ Handed \in Nat /\ Handed' \in Nat /\ Handed < Handed'
  <2>1. framed \in Nat
    BY <1>1 DEF SendTypes
  <2>2. sent + n \in Nat /\ sent < sent + n /\ sent <= sent + n
    BY <1>3, <1>4
  <2> QED BY <2>1, <2>2, <1>4, <1>6, <1>c, HandedGrows DEF Handed
<1>9. SendTypes'
  <2>1. sent' \in 0..Total
    BY <1>3, <1>4, <1>6, Constants
  <2>2. taken <= Handed'
    BY <1>1, <1>b, <1>d DEF SendTypes
  <2> QED BY <1>1, <1>a, <1>c, <2>1, <2>2 DEF SendTypes
<1>10. Waiting' \/ SendOver'
  <2>1. CASE sent' = Total
    BY <2>1, <1>1, <1>2 DEF OnReadDone, Answered, SendOver, Finish
  <2>2. CASE sent' # Total
    <3>1. sent' < Total /\ pos' = sent'
      BY <2>2, <1>1, <1>3, <1>4, <1>6, <1>a, Constants DEF SendTypes
    <3>2. seen' < Handed'
      <4>1. seen \in Nat /\ seen <= taken /\ taken <= Handed
        BY <1>1 DEF SendTypes
      <4> QED BY <4>1, <1>a, <1>b, <1>d
    <3> QED BY <2>2, <3>1, <3>2, <1>1, <1>2 DEF OnReadDone, Answered, Waiting, last
  <2> QED BY <2>1, <2>2
<1>11. Measured'
  BY <1>1, <1>a DEF IInv, Measured, Answered
<1> QED BY <1>7, <1>8, <1>9, <1>10, <1>11 DEF IInv

\* The I/O pool touches the buffer and the handle's position only, between the
\* request and the receipt.
LEMMA ReadStep ==
  ASSUME NEW i \in 1..2
  PROVE  IInv /\ Read(i) => IInv'
<1> SUFFICES ASSUME IInv, Read(i) PROVE IInv'
  OBVIOUS
<1>1. Reading /\ SendTypes /\ i = 1
  <2>1. i \in DOMAIN reads
    BY DEF Read, ReadBegins, ReadEnds
  <2>2. Reading
    BY <2>1, PhaseFacts DEF IInv
  <2>3. DOMAIN reads = 1..1
    BY <2>2, LenProperties DEF Reading
  <2> QED BY <2>1, <2>2, <2>3 DEF IInv
<1>2. SentInOrder' /\ BodyIsBounded' /\ Measured'
  <2>1. UNCHANGED <<due, flow, look, peer, last>> \/ UNCHANGED <<flow, look, peer, last>>
    BY DEF Read, ReadBegins, ReadEnds
  <2>2. due' = due
    BY DEF Read, ReadBegins, ReadEnds
  <2> QED BY <2>1, <2>2 DEF IInv, SentInOrder, BodyIsBounded, Measured, flow, look, peer, last
<1>3. CASE ReadBegins(i)
  <2>1. reads' \in Seq(Task) /\ Len(reads') = 1 /\ reads'[1].want = reads[1].want
    BY <1>1, <1>3, Begun DEF Reading, ReadBegins
  <2>2. Reading'
    BY <1>1, <1>3, <2>1 DEF Reading, ReadBegins, Slack, flow, peer, last
  <2>3. SendTypes'
    BY <1>1, <1>3 DEF SendTypes, ReadBegins, flow, look, peer, Handed
  <2> QED BY <1>2, <2>2, <2>3 DEF IInv
<1>4. CASE ReadEnds(i)
  <2>1. PICK n \in 0..reads[1].want :
          /\ buf' = IF n = 0 THEN buf ELSE [j \in 1..n |-> pos + j]
          /\ pos' = pos + n
          /\ receipts' = Append(receipts, n > 0)
    BY <1>1, <1>4 DEF ReadEnds
  <2>2. reads' = <<>>
    BY <1>1, <1>4, Removed DEF ReadEnds, Reading
  <2>3. receipts' = <<n > 0>>
    BY <1>1, <2>1, OneElement DEF Reading
  <2>4. n \in Nat /\ n <= Chunk /\ n <= Total - sent /\ pos = sent
    BY <1>1, Constants DEF Reading, SendTypes
  <2>5. Answered'
    <3>1. CASE n = 0
      <4>1. (n > 0) = FALSE
        BY <3>1
      <4>2. receipts' = <<FALSE>>
        BY <2>3, <4>1, Zenon
      <4> QED BY <1>1, <1>4, <2>2, <4>2 DEF Answered, Reading, ReadEnds, last
    <3>2. CASE n # 0
      <4>1. (n > 0) = TRUE /\ n \in 1..Chunk
        BY <2>4, <3>2, Constants
      <4>2. receipts' = <<TRUE>>
        BY <2>3, <4>1, Zenon
      <4>3. buf' = Filled(n)' /\ pos' = sent' + n /\ n <= Total - sent'
        BY <1>4, <2>1, <2>4, <3>2 DEF Filled, ReadEnds, flow
      <4>4. Slack'
        BY <1>1, <1>4 DEF Reading, Slack, ReadEnds, flow, peer
      <4> QED
        BY <1>1, <1>4, <2>2, <4>1, <4>2, <4>3, <4>4 DEF Answered, Reading, ReadEnds, last
    <3> QED BY <3>1, <3>2
  <2>6. SendTypes'
    BY <1>1, <1>4, <2>1, <2>4 DEF SendTypes, ReadEnds, flow, look, peer, Handed
  <2> QED BY <1>2, <2>5, <2>6 DEF IInv
<1> QED BY <1>3, <1>4 DEF Read

\* The peer and the clock.
LEMMA OutsideStep == IInv /\ (Takes \/ ConnectionEnds \/ TimePasses) => IInv'
<1> SUFFICES ASSUME IInv, Takes \/ ConnectionEnds \/ TimePasses PROVE IInv'
  OBVIOUS
<1>1. /\ UNCHANGED <<due, reads, receipts, fini, pos, sent, framed, frame>>
      /\ UNCHANGED <<m_baseConnSent, seen, buf, out>>
  BY DEF Takes, ConnectionEnds, TimePasses, disk, flow, last, peer, look
<1>2. Handed \in Nat /\ Handed' = Handed
  BY <1>1, Constants DEF IInv, SendTypes, Handed
<1>3. /\ taken \in Nat /\ taken' \in Nat /\ taken <= taken' /\ taken' <= Handed
      /\ conn = "gone" => conn' = "gone"
      /\ conn' \in {"up", "down", "gone"}
  BY <1>2 DEF IInv, SendTypes, Takes, ConnectionEnds, TimePasses, peer
<1>4. SendTypes'
  BY <1>1, <1>2, <1>3, Constants DEF IInv, SendTypes
<1>5. Slack => Slack'
  <2>1. Base + sent \in Nat
    BY Constants DEF IInv, SendTypes
  <2> QED BY <1>1, <1>3, <2>1, MoreRoom, Constants DEF Slack
<1>6. Waiting \/ Reading \/ Answered \/ SendOver => Waiting' \/ Reading' \/ Answered' \/ SendOver'
  <2>1. Waiting => Waiting'
    BY <1>1, <1>2 DEF Waiting
  <2>2. Reading => Reading'
    BY <1>1, <1>5 DEF Reading
  <2>3. Answered => Answered'
    BY <1>1, <1>5 DEF Answered, Filled
  <2>4. SendOver => SendOver'
    BY <1>1 DEF SendOver
  <2> QED BY <2>1, <2>2, <2>3, <2>4
<1>7. SentInOrder'
  BY <1>1 DEF IInv, SentInOrder
<1>8. BodyIsBounded'
  <2>1. Base + sent \in Nat /\ Watermark + Chunk \in Nat
    BY Constants DEF IInv, SendTypes
  <2> QED BY <1>1, <1>3, <2>1, MoreRoom DEF IInv, BodyIsBounded
<1>9. Measured'
  BY <1>1, <1>3, Constants DEF IInv, Measured
<1> QED BY <1>4, <1>6, <1>7, <1>8, <1>9 DEF IInv

LEMMA Step == IInv /\ [StreamNext]_streamVars => IInv'
<1> SUFFICES ASSUME IInv, [StreamNext]_streamVars PROVE IInv'
  OBVIOUS
<1>1. CASE Loop
  BY <1>1, SendRunStep, NextReadsStep, NextWaitsStep, EndSteps, OnReadDoneStep DEF Loop
<1>2. CASE \E i \in 1..2 : Read(i)
  BY <1>2, ReadStep
<1>3. CASE Takes \/ ConnectionEnds \/ TimePasses
  BY <1>3, OutsideStep
<1>4. CASE UNCHANGED streamVars
  BY <1>4 DEF IInv, SendTypes, Waiting, Reading, Answered, SendOver, Slack, Filled, SentInOrder,
              Measured, BodyIsBounded, Handed, streamVars, disk, flow, look, peer, last
<1> QED BY <1>1, <1>2, <1>3, <1>4 DEF StreamNext

\* The four phases of a sending (ZmStreamLoopState), at every moment of Spec.
LEMMA Invariance == StreamSpec => []IInv
BY Initially, Step, PTL DEF StreamSpec

\* The connection gets the file's bytes in order, whatever the interleaving of the pool's
\* reads with the loop (ReadChunk, OnReadDone).
THEOREM BytesInOrder == StreamSpec => []SentInOrder
BY Invariance, PTL DEF IInv

\* The output of a connection never holds more than watermark, chunk, header and the framing
\* handed over so far (Next, OnReadDone): a fixed bound in raw mode.
THEOREM OutputStaysBounded == StreamSpec => []OutputIsBounded
BY Invariance, Bounds, PTL

\* Next gives up a peer as stalled only while the peer has something to take.
THEOREM StallsAreReal == StreamSpec => StallIsReal
<1>1. IInv /\ NextStalled => taken < Handed
  <2> SUFFICES ASSUME IInv, NextStalled PROVE taken < Handed
    OBVIOUS
  <2>1. Waiting /\ due = {"Next"} /\ taken = seen
    BY PhaseFacts DEF NextStalled, Stalled, IInv
  <2> QED BY <2>1 DEF Waiting
<1> QED BY <1>1, Invariance, PTL DEF StallIsReal
=============================================================================
