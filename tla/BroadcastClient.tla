--------------------------- MODULE BroadcastClient ---------------------------
(***************************************************************************)
(* The lifecycle of ZmBroadcastClient (net/zm_net_broadcast_client):       *)
(* Connect, Disconnect and the destructor by any thread; on the thread of  *)
(* the event loop DoConnect, the retries, the handshake and its timeout,   *)
(* lost connections, messages handed to the internal thread pool, and      *)
(* DoDisconnect.  Tags and the task queue are in BroadcastTags.            *)
(*                                                                         *)
(* event_base_once calls back in the order of the calls.  Deleting the     *)
(* pool joins its workers (ThreadPool).                                    *)
(***************************************************************************)
EXTENDS Naturals, Sequences

CONSTANTS
  Loop,          \* the loop's thread
  Worker,        \* a worker of the internal pool
  CallerSets,    \* the sets of threads that may be the callers
  Patient,       \* the loop thread does not disconnect before DoConnect has run
  MaxConnects,   \* bound on the calls of Connect that are accepted
  MaxFails,      \* bound on failed, timed out and lost connections
  MaxMessages    \* bound on messages waiting for or in onMessage

ASSUME ClientAssumption ==
  /\ Loop # Worker /\ Patient \in BOOLEAN
  /\ {MaxConnects, MaxFails, MaxMessages} \subseteq Nat

VARIABLES
  m_state,
  m_threadPool,      \* the pool exists
  m_bev,             \* none, connecting or up
  m_handshakeDone,
  m_handshakeTimer, m_retryTimer, m_dispatchEvent,   \* each is there or not
  m_loopThreadId,    \* DoConnect has recorded the loop's thread
  once,              \* what was handed to event_base_once, in order
  done,              \* threads whose DoDisconnect has run: the promise is set
  loop,              \* idle, or read: in OnReadCB
  messages,          \* messages for onMessage
  connects, fails,
  call, alive,
  validConfig,       \* the server's address and port are given
  callers            \* the threads that call; the loop's does from callbacks too,
                     \* the worker calls Disconnect from onMessage

connVars == <<m_bev, m_handshakeDone, m_handshakeTimer, m_retryTimer, m_dispatchEvent>>
loopVars == <<m_loopThreadId, once, done, loop, fails>>
config   == <<validConfig, callers>>
vars == <<m_state, m_threadPool, connVars, loopVars, messages, connects, call, alive, config>>

Threads == (UNION CallerSets) \cup {Loop, Worker}
States  == {"IDLE", "STARTING", "LISTENING", "STOPPING", "STOPPED", "ERROR"}

NoCall   == [pc |-> "idle", dtor |-> FALSE]
Idle(t)  == call[t] = NoCall
Goto(t, pc) == call' = [call EXCEPT ![t].pc = pc]
Return(t)   == call' = [call EXCEPT ![t] = NoCall]

Init ==
  /\ m_state = "IDLE" /\ m_threadPool = FALSE
  /\ m_bev = "none" /\ m_handshakeDone = FALSE
  /\ m_handshakeTimer = FALSE /\ m_retryTimer = FALSE /\ m_dispatchEvent = FALSE
  /\ m_loopThreadId = FALSE /\ once = <<>> /\ done = {} /\ loop = "idle"
  /\ messages = 0 /\ connects = 0 /\ fails = 0
  /\ call = [t \in Threads |-> NoCall] /\ alive = TRUE
  /\ validConfig \in BOOLEAN /\ callers \in CallerSets

-----------------------------------------------------------------------------
(***************************************************************************)
(* Connect and Disconnect                                                  *)
(***************************************************************************)
MayCall(t) ==
  /\ alive /\ Idle(t) /\ t \in callers
  /\ t = Worker => messages > 0

Connect(t) ==
  /\ MayCall(t) /\ t # Worker /\ connects < MaxConnects
  /\ m_state \in {"IDLE", "STOPPED"}
  /\ m_state' = "STARTING" /\ connects' = connects + 1
  /\ Goto(t, "post")
  /\ UNCHANGED <<m_threadPool, connVars, loopVars, messages, alive, config>>

ConnectPosts(t) ==
  /\ call[t].pc = "post" /\ validConfig
  /\ m_threadPool' = TRUE
  /\ once' = Append(once, [run |-> "DoConnect"])
  /\ Return(t)
  /\ UNCHANGED <<m_state, connVars, m_loopThreadId, done, loop, fails, messages,
                 connects, alive, config>>

ConnectRejects(t) ==
  /\ call[t].pc = "post" /\ ~validConfig
  /\ m_state' = "ERROR"
  /\ Return(t)
  /\ UNCHANGED <<m_threadPool, connVars, loopVars, messages, connects, alive, config>>

Disconnect(t, dtor) ==
  /\ MayCall(t) /\ (dtor => t \notin {Loop, Worker})
  /\ t = Loop /\ Patient => once = <<>> /\ (m_loopThreadId \/ m_state = "IDLE")
  /\ call' = [call EXCEPT ![t] = [pc |-> "cas1", dtor |-> dtor]]
  /\ UNCHANGED <<m_state, m_threadPool, connVars, loopVars, messages, connects, alive, config>>

\* The three compare-exchanges, one after the other.
From == [cas1 |-> "STARTING", cas2 |-> "LISTENING", cas3 |-> "ERROR"]
Else == [cas1 |-> "cas2", cas2 |-> "cas3", cas3 |-> "end"]

DisconnectCas(t) ==
  /\ call[t].pc \in DOMAIN From
  /\ IF m_state = From[call[t].pc]
     THEN m_state' = "STOPPING" /\ Goto(t, "schedule")
     ELSE m_state' = m_state /\ Goto(t, Else[call[t].pc])
  /\ UNCHANGED <<m_threadPool, connVars, loopVars, messages, connects, alive, config>>

\* Mutant: the retry timer stays.
Bug_DoDisconnect ==
  /\ m_handshakeTimer' = FALSE /\ m_retryTimer' = m_retryTimer /\ m_dispatchEvent' = FALSE
  /\ m_bev' = "none" /\ m_handshakeDone' = FALSE
  /\ m_state' = "STOPPED"

DoDisconnect ==
  /\ m_handshakeTimer' = FALSE /\ m_retryTimer' = FALSE /\ m_dispatchEvent' = FALSE
  /\ m_bev' = "none" /\ m_handshakeDone' = FALSE
  /\ m_state' = "STOPPED"

\* On the loop thread, if that is known, DoDisconnect runs at once.
DisconnectHere(t) ==
  /\ call[t].pc = "schedule" /\ t = Loop /\ m_loopThreadId
  /\ DoDisconnect
  /\ Goto(t, "delete")
  /\ UNCHANGED <<m_threadPool, loopVars, messages, connects, alive, config>>

DisconnectPosts(t) ==
  /\ call[t].pc = "schedule" /\ ~(t = Loop /\ m_loopThreadId)
  /\ once' = Append(once, [run |-> "DoDisconnect", by |-> t])
  /\ Goto(t, "wait")
  /\ UNCHANGED <<m_state, m_threadPool, connVars, m_loopThreadId, done, loop, fails,
                 messages, connects, alive, config>>

DisconnectWaits(t) ==
  /\ call[t].pc = "wait" /\ t \in done
  /\ done' = done \ {t}
  /\ Goto(t, "delete")
  /\ UNCHANGED <<m_state, m_threadPool, connVars, m_loopThreadId, once, loop, fails,
                 messages, connects, alive, config>>

\* The pool goes once its workers have; a worker cannot wait for itself.
DeletePool(t) ==
  /\ call[t].pc = "delete"
  /\ m_threadPool => messages = 0 /\ t # Worker
  /\ m_threadPool' = FALSE
  /\ Goto(t, "end")
  /\ UNCHANGED <<m_state, connVars, loopVars, messages, connects, alive, config>>

DisconnectReturnsNow(t) ==
  /\ call[t].pc = "end"
  /\ alive' = (alive /\ ~call[t].dtor)
  /\ Return(t)
  /\ UNCHANGED <<m_state, m_threadPool, connVars, loopVars, messages, connects, config>>

CallStep(t) ==
  \/ ConnectPosts(t) \/ ConnectRejects(t) \/ DisconnectCas(t) \/ DisconnectHere(t) \/ DisconnectPosts(t)
  \/ DisconnectWaits(t) \/ DeletePool(t) \/ DisconnectReturnsNow(t)

-----------------------------------------------------------------------------
(***************************************************************************)
(* The loop thread                                                         *)
(***************************************************************************)
LoopFree == loop = "idle" /\ Idle(Loop)
rest == <<m_threadPool, done, loop, messages, connects, call, alive, config>>

\* ScheduleRetry, unless the client has stopped.
MayRetry == m_retryTimer' = (m_state # "STOPPED")

\* The socket cannot be made or connecting it fails at once; or it goes on.
DoConnect ==
  /\ m_loopThreadId' = TRUE /\ m_dispatchEvent' = TRUE
  /\ \/ /\ m_bev' = "connecting" /\ m_retryTimer' = FALSE /\ fails' = fails
     \/ /\ fails < MaxFails /\ fails' = fails + 1
        /\ m_bev' = "none" /\ MayRetry
  /\ UNCHANGED <<m_state, m_handshakeDone, m_handshakeTimer, rest>>

OnceConnects ==
  /\ LoopFree /\ once # <<>> /\ Head(once).run = "DoConnect"
  /\ once' = Tail(once)
  /\ DoConnect

OnRetryTimer == LoopFree /\ m_retryTimer /\ once' = once /\ DoConnect

\* Mutant: the promise is set only if there was a connection.
Bug_OnceDisconnects ==
  /\ LoopFree /\ once # <<>> /\ Head(once).run = "DoDisconnect"
  /\ once' = Tail(once) /\ done' = IF m_bev = "none" THEN done ELSE done \cup {Head(once).by}
  /\ DoDisconnect
  /\ UNCHANGED <<m_threadPool, m_loopThreadId, loop, fails, messages, connects, call,
                 alive, config>>

OnceDisconnects ==
  /\ LoopFree /\ once # <<>> /\ Head(once).run = "DoDisconnect"
  /\ once' = Tail(once) /\ done' = done \cup {Head(once).by}
  /\ DoDisconnect
  /\ UNCHANGED <<m_threadPool, m_loopThreadId, loop, fails, messages, connects, call,
                 alive, config>>

OnConnected ==
  /\ LoopFree /\ m_bev = "connecting"
  /\ m_bev' = "up" /\ m_retryTimer' = FALSE /\ m_handshakeTimer' = TRUE
  /\ UNCHANGED <<m_state, m_handshakeDone, m_dispatchEvent, m_loopThreadId, once, fails, rest>>

\* Mutant: nothing is retried.
Bug_OnLost ==
  /\ LoopFree /\ m_bev = "up" /\ fails < MaxFails /\ fails' = fails + 1
  /\ m_bev' = "none" /\ m_handshakeDone' = FALSE
  /\ m_handshakeTimer' = FALSE /\ UNCHANGED m_retryTimer
  /\ UNCHANGED <<m_state, m_dispatchEvent, m_loopThreadId, once, rest>>

\* OnConnectCB without success.
OnConnectFailed ==
  /\ LoopFree /\ m_bev = "connecting" /\ fails < MaxFails /\ fails' = fails + 1
  /\ m_bev' = "none" /\ MayRetry
  /\ UNCHANGED <<m_state, m_handshakeDone, m_handshakeTimer, m_dispatchEvent,
                 m_loopThreadId, once, rest>>

\* OnEventCB.
OnLost ==
  /\ LoopFree /\ m_bev = "up" /\ fails < MaxFails /\ fails' = fails + 1
  /\ m_bev' = "none" /\ m_handshakeDone' = FALSE
  /\ m_handshakeTimer' = FALSE /\ MayRetry
  /\ UNCHANGED <<m_state, m_dispatchEvent, m_loopThreadId, once, rest>>

\* Mutant: the connection of the failed handshake is kept.
Bug_OnHandshakeTimeout ==
  /\ LoopFree /\ m_handshakeTimer /\ fails < MaxFails /\ fails' = fails + 1
  /\ m_handshakeDone' = FALSE
  /\ m_handshakeTimer' = FALSE /\ m_retryTimer' = TRUE
  /\ UNCHANGED <<m_state, m_bev, m_dispatchEvent, m_loopThreadId, once, rest>>

\* Whatever the state is, a retry is scheduled.
OnHandshakeTimeout ==
  /\ LoopFree /\ m_handshakeTimer /\ fails < MaxFails /\ fails' = fails + 1
  /\ m_bev' = "none" /\ m_handshakeDone' = FALSE
  /\ m_handshakeTimer' = FALSE /\ m_retryTimer' = TRUE
  /\ UNCHANGED <<m_state, m_dispatchEvent, m_loopThreadId, once, rest>>

\* HandleMessage, in OnReadCB: the settings; onConnected is called last.
OnSettings ==
  /\ LoopFree /\ m_bev = "up" /\ ~m_handshakeDone
  /\ m_handshakeTimer' = FALSE /\ m_handshakeDone' = TRUE
  /\ m_state' = "LISTENING" /\ loop' = "read"
  /\ UNCHANGED <<m_bev, m_retryTimer, m_dispatchEvent, m_loopThreadId, once, fails,
                 m_threadPool, done, messages, connects, call, alive, config>>

\* HandleMessage: a message, for the pool if there is one.
OnMessage ==
  /\ LoopFree /\ m_bev = "up" /\ m_handshakeDone /\ messages < MaxMessages
  /\ messages' = IF m_threadPool THEN messages + 1 ELSE messages
  /\ UNCHANGED <<m_state, m_threadPool, connVars, loopVars, connects, call, alive, config>>

\* OnReadCB goes on with the input of the bufferevent.
ReadOn ==
  /\ loop = "read" /\ Idle(Loop) /\ loop' = "idle"
  /\ UNCHANGED <<m_state, m_threadPool, connVars, m_loopThreadId, once, done, fails,
                 messages, connects, call, alive, config>>

\* A worker has run onMessage.
MessageDone ==
  /\ messages > 0 /\ Idle(Worker)
  /\ messages' = messages - 1
  /\ UNCHANGED <<m_state, m_threadPool, connVars, loopVars, connects, call, alive, config>>

Runs == OnceConnects \/ OnceDisconnects \/ OnRetryTimer \/ ReadOn

Next ==
  \/ \E t \in Threads : Connect(t) \/ \E dtor \in BOOLEAN : Disconnect(t, dtor)
  \/ \E t \in Threads : CallStep(t)
  \/ Runs \/ OnConnected \/ OnConnectFailed \/ OnLost \/ OnHandshakeTimeout \/ OnSettings \/ OnMessage
  \/ MessageDone

Spec == Init /\ [][Next]_vars

\* The loop runs what is due, callbacks and calls end, and a server that is
\* there answers.
LiveSpec ==
  /\ Spec /\ WF_vars(OnceConnects) /\ WF_vars(OnceDisconnects) /\ SF_vars(OnRetryTimer)
  /\ WF_vars(ReadOn) /\ WF_vars(MessageDone)
  /\ WF_vars(OnConnected) /\ WF_vars(OnSettings)
  /\ \A t \in Threads : WF_vars(CallStep(t))

-----------------------------------------------------------------------------
(***************************************************************************)
(* Properties                                                              *)
(***************************************************************************)
Posted == [run : {"DoConnect"}] \cup [run : {"DoDisconnect"}, by : Threads]

\* Every variable keeps its type, and while messages can come there is a pool to
\* take them.
TypeOK ==
  /\ callers \in CallerSets
  /\ m_state \in States /\ m_bev \in {"none", "connecting", "up"}
  /\ {m_threadPool, m_handshakeDone, m_handshakeTimer, m_retryTimer, m_dispatchEvent,
      m_loopThreadId, alive, validConfig} \subseteq BOOLEAN
  /\ once \in Seq(Posted) /\ done \subseteq Threads /\ loop \in {"idle", "read"}
  /\ {messages, connects, fails} \subseteq Nat
  /\ call \in [Threads -> [pc : {"idle", "post", "schedule", "wait", "delete", "end"}
                                \cup DOMAIN From, dtor : BOOLEAN]]
  /\ m_handshakeDone => m_threadPool

\* A stopped client has no connection, no timer and no event: it does not come
\* back by itself.  And nothing on the loop and no worker uses a destroyed one.
StoppedIsEmpty ==
  /\ TypeOK
  /\ m_state = "STOPPED" =>
       m_bev = "none" /\ ~m_handshakeDone
       /\ ~m_handshakeTimer /\ ~m_retryTimer /\ ~m_dispatchEvent
  /\ ~alive => once = <<>> /\ ~m_retryTimer /\ ~m_handshakeTimer /\ ~m_dispatchEvent
               /\ m_bev = "none" /\ loop = "idle" /\ messages = 0

\* DoConnect never overwrites a connection that is still there, and a retry is
\* never due while there is one.
OneConnection ==
  [][(OnceConnects \/ OnRetryTimer) => m_bev = "none"]_vars

\* Disconnect returns.
DisconnectReturns ==
  \A t \in Threads : call[t].pc = "cas1" ~> Idle(t)

\* A client with a usable configuration that was started is connected some day, or
\* told to stop.
Connects ==
  validConfig /\ m_state \in {"STARTING", "LISTENING"} ~>
    m_handshakeDone \/ m_state \in {"STOPPING", "STOPPED"}
=============================================================================
