--------------------------- MODULE BroadcastServer ---------------------------
(***************************************************************************)
(* ZmBroadcastServer (net/zm_net_broadcast_server): Start, Stop, AsyncStop *)
(* and the destructor, the sends and KickClient, called by any thread; and *)
(* on the thread of the event loop DoStart with its bind retries, DoStop,  *)
(* the dispatch of tasks, delayed sends and the life of connections.       *)
(*                                                                         *)
(* libevent is modelled by what the code relies on: event_active makes the *)
(* loop call the callback once, event_free takes that back, the loop runs  *)
(* one callback at a time.  An event is its number.  Messages carry no tag *)
(* (BroadcastTags has those); DeliverToClient is BroadcastQueue.           *)
(***************************************************************************)
EXTENDS Integers, Sequences, FiniteSets

CONSTANTS
  Owners,          \* threads that start, stop and destroy the server
  Senders,         \* threads that send and kick
  Clients,         \* connections, each with an id of its own
  Everyone,        \* the addressee of a broadcast
  MaxConnections,
  Patient,         \* no stop while the server is starting or stopping
  Joined,          \* sends only while it listens and nobody is stopping it
  Delays,          \* delayed sends occur
  NewFails,        \* event_new may fail
  LoopIsSlow,      \* Stop's wait of one second may run out
  MaxStarts, MaxSends, MaxBindFailures,   \* bounds
  MaxQueued        \* bound on the tasks waiting when a call is made

ASSUME ServerAssumption ==
  /\ {Patient, Joined, Delays, NewFails, LoopIsSlow} \subseteq BOOLEAN
  /\ {MaxConnections, MaxStarts, MaxSends, MaxBindFailures, MaxQueued} \subseteq Nat
  /\ Everyone \notin Clients

VARIABLES
  m_state,
  m_listener,       \* the pointer is set
  open,             \* a listener is bound to the port
  m_dispatchEvent,  \* 0 is nullptr
  made, freed,      \* events made and freed so far
  active,           \* activated events whose callback has not run
  m_retryTimer,     \* a bind retry is due
  once,             \* calls of DoStart handed to event_base_once
  fails,            \* binds that failed
  starts,           \* calls of Start that returned true
  session,          \* binds that succeeded
  m_pendingTasks,
  loop,             \* where the loop thread is
  batch,            \* the tasks OnDispatchEventCB took and has not run
  delayed,          \* tasks whose timer runs
  conn,             \* each connection: new, greeting, online, gone
  home,             \* the session that accepted it
  got,              \* the messages delivered to it
  sent,             \* the messages sent: by whom, in which session, delayed
  call,             \* each thread's call
  alive             \* the destructor has not returned

lifeVars == <<m_state, m_listener, open, m_retryTimer, once, fails, starts, session>>
evVars   == <<m_dispatchEvent, made, freed, active>>
taskVars == <<m_pendingTasks, loop, batch, delayed>>
peerVars == <<conn, home, got>>
callVars == <<sent, call, alive>>
vars     == <<lifeVars, evVars, taskVars, peerVars, callVars>>

Threads == Owners \cup Senders
States  == {"IDLE", "STARTING", "LISTENING", "STOPPING", "STOPPED", "ERROR"}

StopTask         == [type |-> "STOP"]
KickTask(c)      == [type |-> "KICK", client |-> c]
SendTask(m, to, late) == [type |-> "SEND", m |-> m, to |-> to, late |-> late]

NoCall == [pc |-> "idle"]
Idle(t) == call[t].pc = "idle"
Connected == {c \in Clients : conn[c] \in {"greeting", "online"}}

Init ==
  /\ m_state = "IDLE" /\ m_listener = FALSE /\ open = FALSE /\ m_retryTimer = FALSE
  /\ once = 0 /\ fails = 0 /\ starts = 0 /\ session = 0
  /\ m_dispatchEvent = 0 /\ made = 0 /\ freed = {} /\ active = {}
  /\ m_pendingTasks = <<>> /\ loop = "idle" /\ batch = <<>> /\ delayed = {}
  /\ conn = [c \in Clients |-> "new"] /\ home = [c \in Clients |-> 0]
  /\ got = [c \in Clients |-> <<>>]
  /\ sent = <<>> /\ call = [t \in Threads |-> NoCall] /\ alive = TRUE

-----------------------------------------------------------------------------
(***************************************************************************)
(* Calls from other threads                                                *)
(***************************************************************************)
MaySend ==
  /\ Joined => m_state = "LISTENING" /\ \A t \in Owners : Idle(t)
  /\ Len(m_pendingTasks) < MaxQueued
MayStop ==
  /\ Patient => m_state \notin {"STARTING", "STOPPING"}
  /\ Len(m_pendingTasks) <= MaxQueued
  /\ Joined => \A t \in Senders : Idle(t)

MayStart == m_state \in {"IDLE", "STOPPED"}

Start(t) ==
  /\ alive /\ Idle(t) /\ starts < MaxStarts /\ MayStart
  /\ m_state' = "STARTING" /\ once' = once + 1 /\ starts' = starts + 1
  /\ UNCHANGED <<m_listener, open, m_retryTimer, fails, session,
                 evVars, taskVars, peerVars, callVars>>

Goto(t, pc) == call' = [call EXCEPT ![t].pc = pc]

\* AsyncStop returns; Stop and the destructor wait.
Leave(t) ==
  call' = [call EXCEPT ![t] = IF @.kind \in {"Stop", "dtor"}
                              THEN [@ EXCEPT !.pc = "wait"] ELSE NoCall]

Stop(t, kind) ==
  /\ alive /\ Idle(t) /\ MayStop
  /\ call' = [call EXCEPT ![t] = [kind |-> kind, pc |-> "cas1", task |-> StopTask, ev |-> 0]]
  /\ UNCHANGED <<lifeVars, evVars, taskVars, peerVars, sent, alive>>

\* AsyncStop: the first compare-exchange.
StopListening(t) ==
  /\ call[t].pc = "cas1"
  /\ IF m_state = "LISTENING"
     THEN m_state' = "STOPPING" /\ Goto(t, "push")
     ELSE m_state' = m_state /\ Goto(t, "cas2")
  /\ UNCHANGED <<m_listener, open, m_retryTimer, once, fails, starts, session,
                 evVars, taskVars, peerVars, sent, alive>>

\* The second compare-exchange.
StopStarting(t) ==
  /\ call[t].pc = "cas2"
  /\ IF m_state = "STARTING"
     THEN m_state' = "STOPPING" /\ Goto(t, "push")
     ELSE m_state' = m_state /\ Goto(t, "look1")
  /\ UNCHANGED <<m_listener, open, m_retryTimer, once, fails, starts, session,
                 evVars, taskVars, peerVars, sent, alive>>

\* The three loads of m_state, one after the other.
Looks == [look1 |-> "STOPPED", look2 |-> "IDLE", look3 |-> "STOPPING"]
After == [look1 |-> "look2", look2 |-> "look3", look3 |-> "push"]

StopLooks(t) ==
  /\ call[t].pc \in DOMAIN Looks
  /\ IF m_state = Looks[call[t].pc] THEN Leave(t) ELSE Goto(t, After[call[t].pc])
  /\ UNCHANGED <<lifeVars, evVars, taskVars, peerVars, sent, alive>>

\* Stop polls m_state for a second, in vain where nothing will stop; the destructor
\* then gives up the members.
StopReturns(t) ==
  /\ call[t].pc = "wait"
  /\ m_state \in {"STOPPED", "IDLE", "ERROR"} \/ LoopIsSlow
  /\ alive' = (alive /\ call[t].kind # "dtor")
  /\ call' = [call EXCEPT ![t] = NoCall]
  /\ UNCHANGED <<lifeVars, evVars, taskVars, peerVars, sent>>

Send(t, to, late) ==
  /\ alive /\ Idle(t) /\ Len(sent) < MaxSends /\ MaySend
  /\ late => Delays
  /\ sent' = Append(sent, [by |-> t, session |-> session, late |-> late])
  /\ call' = [call EXCEPT ![t] = [kind |-> "Send", pc |-> "push", ev |-> 0,
                                  task |-> SendTask(Len(sent) + 1, to, late)]]
  /\ UNCHANGED <<lifeVars, evVars, taskVars, peerVars, alive>>

KickClient(t, c) ==
  /\ alive /\ Idle(t) /\ MaySend
  /\ c \in Connected
  /\ call' = [call EXCEPT ![t] = [kind |-> "Kick", pc |-> "push", ev |-> 0,
                                  task |-> KickTask(c)]]
  /\ UNCHANGED <<lifeVars, evVars, taskVars, peerVars, sent, alive>>

\* Mutant: the task goes in front of those that wait.
Bug_Push(t) ==
  /\ call[t].pc = "push"
  /\ m_pendingTasks' = <<call[t].task>> \o m_pendingTasks
  /\ Goto(t, "wake")
  /\ UNCHANGED <<lifeVars, evVars, loop, batch, delayed, peerVars, sent, alive>>

\* ScheduleTask: the task is queued, under m_taskMutex.
Push(t) ==
  /\ call[t].pc = "push"
  /\ m_pendingTasks' = Append(m_pendingTasks, call[t].task)
  /\ Goto(t, "wake")
  /\ UNCHANGED <<lifeVars, evVars, loop, batch, delayed, peerVars, sent, alive>>

\* ScheduleTask: m_dispatchEvent is read, without a lock.
Wake(t) ==
  /\ call[t].pc = "wake"
  /\ IF m_dispatchEvent = 0
     THEN Leave(t)
     ELSE call' = [call EXCEPT ![t] = [@ EXCEPT !.pc = "activate", !.ev = m_dispatchEvent]]
  /\ UNCHANGED <<lifeVars, evVars, taskVars, peerVars, sent, alive>>

\* ScheduleTask: event_active.  On a freed event it does nothing we rely on.
Activate(t) ==
  /\ call[t].pc = "activate"
  /\ active' = active \cup ({call[t].ev} \ freed)
  /\ Leave(t)
  /\ UNCHANGED <<lifeVars, m_dispatchEvent, made, freed, taskVars, peerVars, sent, alive>>

CallStep(t) ==
  \/ StopListening(t) \/ StopStarting(t) \/ StopLooks(t) \/ StopReturns(t)
  \/ Push(t) \/ Wake(t) \/ Activate(t)

-----------------------------------------------------------------------------
(***************************************************************************)
(* The loop thread                                                         *)
(***************************************************************************)

\* Mutant: no retry.
Bug_BindFails ==
  /\ fails < MaxBindFailures
  /\ m_listener' = FALSE /\ m_retryTimer' = FALSE /\ fails' = fails + 1
  /\ UNCHANGED <<m_state, open, session>>

\* The port is taken: DoStart comes again in a second.
BindFails ==
  /\ fails < MaxBindFailures
  /\ m_listener' = FALSE /\ m_retryTimer' = TRUE /\ fails' = fails + 1
  /\ UNCHANGED <<m_state, open, session>>

BindSucceeds ==
  /\ ~open
  /\ m_listener' = TRUE /\ open' = TRUE /\ m_retryTimer' = FALSE
  /\ m_state' = "LISTENING" /\ session' = session + 1
  /\ UNCHANGED fails

\* The former m_dispatchEvent, if any, is overwritten.
DoStart ==
  /\ \/ /\ made' = made + 1 /\ m_dispatchEvent' = made'
        /\ BindFails \/ BindSucceeds
     \/ /\ NewFails /\ m_dispatchEvent' = 0 /\ m_state' = "ERROR"
        /\ m_retryTimer' = FALSE
        /\ UNCHANGED <<made, m_listener, open, fails, session>>
  /\ UNCHANGED <<starts, freed, active, taskVars, peerVars, callVars>>

\* The call of event_base_once, and the retry timer.
OnceStarts == loop = "idle" /\ once > 0 /\ once' = once - 1 /\ DoStart
RetryStarts == loop = "idle" /\ m_retryTimer /\ once' = once /\ DoStart

\* Mutant: only the first task is taken; the others wait for another event.
Bug_OnDispatchEvent ==
  /\ loop = "idle" /\ loop' = "batch"
  /\ \E ev \in active : active' = active \ {ev}
  /\ batch' = SubSeq(m_pendingTasks, 1, 1)
  /\ m_pendingTasks' = IF m_pendingTasks = <<>> THEN <<>> ELSE Tail(m_pendingTasks)
  /\ UNCHANGED <<lifeVars, m_dispatchEvent, made, freed, delayed, peerVars, callVars>>

\* OnDispatchEventCB takes all tasks.
OnDispatchEvent ==
  /\ loop = "idle" /\ loop' = "batch"
  /\ \E ev \in active : active' = active \ {ev}
  /\ batch' = m_pendingTasks /\ m_pendingTasks' = <<>>
  /\ UNCHANGED <<lifeVars, m_dispatchEvent, made, freed, delayed, peerVars, callVars>>

BatchDone ==
  /\ loop = "batch" /\ batch = <<>>
  /\ loop' = "idle"
  /\ UNCHANGED <<lifeVars, evVars, m_pendingTasks, batch, delayed, peerVars, callVars>>

Take(type) ==
  /\ loop = "batch" /\ batch # <<>> /\ Head(batch).type = type
  /\ batch' = Tail(batch)

\* Mutant: the clients stay.
Bug_DoStop ==
  /\ Take("STOP") /\ loop' = "stopping"
  /\ m_listener' = FALSE /\ open' = (open /\ ~m_listener) /\ m_retryTimer' = FALSE
  /\ m_dispatchEvent' = 0
  /\ freed' = freed \cup ({m_dispatchEvent} \ {0})
  /\ active' = active \ {m_dispatchEvent}
  /\ UNCHANGED <<m_state, once, fails, starts, session, made,
                 m_pendingTasks, delayed, conn, home, got, callVars>>

\* DoStop closes and frees everything,
DoStop ==
  /\ Take("STOP") /\ loop' = "stopping"
  /\ m_listener' = FALSE /\ open' = (open /\ ~m_listener) /\ m_retryTimer' = FALSE
  /\ conn' = [c \in Clients |-> IF c \in Connected THEN "gone" ELSE conn[c]]
  /\ m_dispatchEvent' = 0
  /\ freed' = freed \cup ({m_dispatchEvent} \ {0})
  /\ active' = active \ {m_dispatchEvent}
  /\ UNCHANGED <<m_state, once, fails, starts, session, made,
                 m_pendingTasks, delayed, home, got, callVars>>

\* then sets the state,
StopDone ==
  /\ loop = "stopping" /\ loop' = "stopped"
  /\ m_state' = "STOPPED"
  /\ UNCHANGED <<m_listener, open, m_retryTimer, once, fails, starts, session, evVars,
                 m_pendingTasks, batch, delayed, peerVars, callVars>>

\* then calls onListenStopped.
StopTold ==
  /\ loop = "stopped" /\ loop' = "batch"
  /\ UNCHANGED <<lifeVars, evVars, m_pendingTasks, batch, delayed, peerVars, callVars>>

Addressees(to) ==
  {c \in Clients : conn[c] = "online" /\ to \in {c, Everyone}}

Deliver(task) ==
  got' = [c \in Clients |-> IF c \in Addressees(task.to)
                            THEN Append(got[c], task.m) ELSE got[c]]

\* DoSend: a delayed message gets a timer.
DoSend ==
  /\ Take("SEND") /\ UNCHANGED loop
  /\ IF Head(batch).late
     THEN delayed' = delayed \cup {Head(batch)} /\ got' = got
     ELSE delayed' = delayed /\ Deliver(Head(batch))
  /\ UNCHANGED <<lifeVars, evVars, m_pendingTasks, conn, home, callVars>>

\* OnDelayedSendCB: on the loop thread ScheduleTask runs DoSend at once.
OnDelayedSend ==
  /\ loop = "idle"
  /\ \E task \in delayed : delayed' = delayed \ {task} /\ Deliver(task)
  /\ UNCHANGED <<lifeVars, evVars, m_pendingTasks, loop, batch, conn, home, callVars>>

DoKick ==
  /\ Take("KICK") /\ UNCHANGED loop
  /\ LET c == Head(batch).client IN
     conn' = IF c \in Connected THEN [conn EXCEPT ![c] = "gone"] ELSE conn
  /\ UNCHANGED <<lifeVars, evVars, m_pendingTasks, delayed, home, got, callVars>>

HasRoom == MaxConnections = 0 \/ Cardinality(Connected) < MaxConnections

\* Over the limit the socket is closed and nothing else happens.
OnAcceptConn(c) ==
  /\ loop = "idle" /\ open /\ conn[c] = "new" /\ HasRoom
  /\ conn' = [conn EXCEPT ![c] = "greeting"] /\ home' = [home EXCEPT ![c] = session]
  /\ UNCHANGED <<lifeVars, evVars, taskVars, got, callVars>>

\* OnClientReadCB: confirm_settings.
Confirm(c) ==
  /\ loop = "idle" /\ conn[c] = "greeting"
  /\ conn' = [conn EXCEPT ![c] = "online"]
  /\ UNCHANGED <<lifeVars, evVars, taskVars, home, got, callVars>>

\* RemoveClient: the peer closes or fails, or is silent too long.
Lose(c) ==
  /\ loop = "idle" /\ c \in Connected
  /\ conn' = [conn EXCEPT ![c] = "gone"]
  /\ UNCHANGED <<lifeVars, evVars, taskVars, home, got, callVars>>

LoopStep ==
  \/ OnceStarts \/ RetryStarts
  \/ OnDispatchEvent \/ BatchDone \/ DoStop \/ StopDone \/ StopTold
  \/ DoSend \/ DoKick

Next ==
  \/ \E t \in Owners : Start(t) \/ \E kind \in {"Stop", "AsyncStop", "dtor"} : Stop(t, kind)
  \/ \E t \in Senders, c \in Clients : KickClient(t, c)
  \/ \E t \in Senders, to \in Clients \cup {Everyone}, late \in BOOLEAN : Send(t, to, late)
  \/ \E t \in Threads : CallStep(t)
  \/ LoopStep \/ OnDelayedSend
  \/ \E c \in Clients : OnAcceptConn(c) \/ Confirm(c) \/ Lose(c)

Spec == Init /\ [][Next]_vars

\* The loop runs what is due, and threads in a call go on.
LiveSpec == Spec /\ WF_vars(LoopStep) /\ \A t \in Threads : WF_vars(CallStep(t))

-----------------------------------------------------------------------------
(***************************************************************************)
(* Properties                                                              *)
(***************************************************************************)
Tasks ==
  {StopTask} \cup {KickTask(c) : c \in Clients}
  \cup {SendTask(m, to, late) : m \in 1..MaxSends, to \in Clients \cup {Everyone},
                                late \in BOOLEAN}

\* Every variable keeps its type.
TypeOK ==
  /\ m_state \in States
  /\ {m_listener, open, m_retryTimer, alive} \subseteq BOOLEAN
  /\ {once, fails, starts, session, made} \subseteq Nat
  /\ m_dispatchEvent \in 0..made /\ freed \subseteq 1..made /\ active \subseteq 1..made
  /\ m_pendingTasks \in Seq(Tasks) /\ batch \in Seq(Tasks) /\ delayed \subseteq Tasks
  /\ loop \in {"idle", "batch", "stopping", "stopped"}
  /\ conn \in [Clients -> {"new", "greeting", "online", "gone"}]
  /\ home \in [Clients -> Nat] /\ got \in [Clients -> Seq(1..MaxSends)]

\* A stopped server has nothing left: no listener, no connection, no event or
\* timer of its own that the loop would still call.  Nor has a destroyed one,
\* except the timers of delayed messages, which Stop leaves alone.
StoppedIsEmpty ==
  /\ TypeOK
  /\ m_state = "STOPPED" =>
       ~m_listener /\ ~open /\ ~m_retryTimer /\ Connected = {}
       /\ m_dispatchEvent = 0 /\ active = {}
  /\ ~alive => once = 0 /\ ~m_retryTimer /\ active = {}

InSenderOrder ==
  \A c \in Clients : \A i, j \in 1..Len(got[c]) :
    LET a == got[c][i]  b == got[c][j] IN
    i < j /\ sent[a].by = sent[b].by /\ ~sent[a].late /\ ~sent[b].late => a < b

SendStaysInSession ==
  \A c \in Clients : \A i \in 1..Len(got[c]) :
    sent[got[c][i]].late \/ sent[got[c][i]].session = home[c]

\* A client gets what one thread sends in the order of the calls, and only what
\* was sent while the server it is connected to was up: nothing left over from
\* an earlier session reaches it.  Delayed messages are left out of both.
SendsInOrder == InSenderOrder /\ SendStaysInSession

\* A send that was accepted is executed: it does not stay in m_pendingTasks
\* while the server listens.
Queued(m) == \E i \in 1..Len(m_pendingTasks) : m_pendingTasks[i] \in
               {SendTask(m, to, late) : to \in Clients \cup {Everyone}, late \in BOOLEAN}
SendsRun ==
  \A m \in 1..MaxSends : Queued(m) /\ m_state = "LISTENING" ~> ~Queued(m)

StopCompletes == m_state = "STOPPING" ~> m_state = "STOPPED"
StartListens == m_state = "STARTING" ~> m_state \in {"LISTENING", "ERROR"}

\* Stopping ends, and starting ends with the server listening or in ERROR.
StartAndStopEnd == StopCompletes /\ StartListens
=============================================================================
