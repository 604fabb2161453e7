---------------------------- MODULE BroadcastTags ----------------------------
(***************************************************************************)
(* The tags a ZmBroadcastClient is subscribed to and what the server       *)
(* (ZmBroadcastServer, BcClient::info.tags) knows of them: Subscribe and   *)
(* Unsubscribe by several threads, the client's task queue, the handshake, *)
(* lost connections and reconnects (net/zm_net_broadcast_client and        *)
(* _server).                                                               *)
(*                                                                         *)
(* The client stays started (BroadcastClient has its lifecycle).  A        *)
(* connection delivers frames in order until it is lost with all that is   *)
(* under way.                                                              *)
(***************************************************************************)
EXTENDS Naturals, Sequences

CONSTANTS
  Tags,
  CallerSets,    \* the sets of threads that may subscribe and unsubscribe
  Loop,          \* the loop's thread
  InitialTags,   \* config.initialTags: how often each tag is in it
  Calm,          \* another thread's call that has begun is over before the next reconnect
  MaxCalls,      \* bound on the calls
  MaxDrops       \* bound on the lost connections

ASSUME TagsAssumption ==
  /\ InitialTags \in [Tags -> Nat]
  /\ Calm \in BOOLEAN /\ {MaxCalls, MaxDrops} \subseteq Nat

VARIABLES
  callers,           \* the threads that subscribe and unsubscribe
  m_currentTags,     \* how often each tag is in the list
  m_bev,             \* none, connecting or up
  m_handshakeDone,
  m_pendingTasks,
  active,            \* the dispatch event is active
  loop,              \* idle, or settings: between handshakeDone and SendCurrentTags
  frames,            \* written to the connection and not read by the server
  infoTags,          \* the server's info.tags for this connection
  call,              \* what each caller is at
  wanted,            \* the tags the callers asked for, in the order of their calls
  calls, drops

tagVars  == <<m_currentTags, wanted, calls>>
connVars == <<m_bev, m_handshakeDone, frames, infoTags, drops>>
taskVars == <<m_pendingTasks, active>>
vars == <<tagVars, connVars, taskVars, loop, call, callers>>

Actions == {"subscribe", "unsubscribe"}
Threads == (UNION CallerSets) \cup {Loop}
Frames  == [action : Actions, tags : SUBSET Tags]
Support(tags) == {t \in Tags : tags[t] > 0}

NoCall    == [pc |-> "idle"]
Idle(t)   == call[t] = NoCall
Return(t) == call' = [call EXCEPT ![t] = NoCall]

Init ==
  /\ m_currentTags = InitialTags /\ wanted = Support(InitialTags)
  /\ m_bev = "none" /\ m_handshakeDone = FALSE /\ frames = <<>> /\ infoTags = {}
  /\ m_pendingTasks = <<>> /\ active = FALSE /\ loop = "idle"
  /\ call = [t \in Threads |-> NoCall] /\ calls = 0 /\ drops = 0
  /\ callers \in CallerSets

-----------------------------------------------------------------------------
(***************************************************************************)
(* Subscribe and Unsubscribe                                               *)
(***************************************************************************)

\* One copy of each tag is taken out of the list, or put in where there is none.
Changed(action, tags) ==
  [t \in Tags |->
     IF t \notin tags THEN m_currentTags[t]
     ELSE CASE action = "unsubscribe" /\ m_currentTags[t] > 0 -> m_currentTags[t] - 1
            [] action = "subscribe" /\ m_currentTags[t] = 0 -> 1
            [] OTHER -> m_currentTags[t]]

Calls(t, action, tags) ==
  /\ t \in callers /\ Idle(t) /\ calls < MaxCalls /\ calls' = calls + 1
  /\ t = Loop => loop = "idle"
  /\ m_currentTags' = Changed(action, tags)
  /\ wanted' = IF action = "subscribe" THEN wanted \cup tags ELSE wanted \ tags
  /\ call' = [call EXCEPT ![t] = [pc |-> "look", frame |-> [action |-> action, tags |-> tags]]]
  /\ UNCHANGED <<connVars, taskVars, loop, callers>>

\* Before the handshake there is nothing to send.
LooksInVain(t) ==
  /\ call[t].pc = "look" /\ ~m_handshakeDone
  /\ Return(t)
  /\ UNCHANGED <<tagVars, connVars, taskVars, loop, callers>>

\* ScheduleTask on the loop thread writes at once.
WritesHere(t) ==
  /\ call[t].pc = "look" /\ m_handshakeDone /\ t = Loop
  /\ frames' = Append(frames, call[t].frame)
  /\ Return(t)
  /\ UNCHANGED <<tagVars, m_bev, m_handshakeDone, infoTags, drops, taskVars, loop, callers>>

LooksAtHandshake(t) ==
  /\ call[t].pc = "look" /\ m_handshakeDone /\ t # Loop
  /\ call' = [call EXCEPT ![t].pc = "push"]
  /\ UNCHANGED <<tagVars, connVars, taskVars, loop, callers>>

Pushes(t) ==
  /\ call[t].pc = "push"
  /\ m_pendingTasks' = Append(m_pendingTasks, call[t].frame)
  /\ call' = [call EXCEPT ![t].pc = "wake"]
  /\ UNCHANGED <<tagVars, connVars, active, loop, callers>>

Wakes(t) ==
  /\ call[t].pc = "wake"
  /\ active' = TRUE
  /\ Return(t)
  /\ UNCHANGED <<tagVars, connVars, m_pendingTasks, loop, callers>>

CallStep(t) ==
  LooksInVain(t) \/ WritesHere(t) \/ LooksAtHandshake(t) \/ Pushes(t) \/ Wakes(t)

-----------------------------------------------------------------------------
(***************************************************************************)
(* The loop thread                                                         *)
(***************************************************************************)
LoopFree == loop = "idle" /\ Idle(Loop)

\* A lost connection is tried again a second later.
DoConnect ==
  /\ LoopFree /\ m_bev = "none"
  /\ Calm /\ callers # {Loop} => ~active /\ \A t \in Threads : Idle(t)
  /\ m_bev' = "connecting"
  /\ UNCHANGED <<tagVars, m_handshakeDone, frames, infoTags, drops, taskVars, loop, call, callers>>

\* What was written while connecting is sent now.
OnConnected ==
  /\ LoopFree /\ m_bev = "connecting"
  /\ m_bev' = "up"
  /\ UNCHANGED <<tagVars, m_handshakeDone, frames, infoTags, drops, taskVars, loop, call, callers>>

OnLost ==
  /\ LoopFree /\ m_bev # "none" /\ drops < MaxDrops /\ drops' = drops + 1
  /\ m_bev' = "none" /\ m_handshakeDone' = FALSE
  /\ frames' = <<>> /\ infoTags' = {}
  /\ UNCHANGED <<tagVars, taskVars, loop, call, callers>>

\* The server's settings are confirmed and the handshake is done.
OnSettings ==
  /\ LoopFree /\ m_bev = "up" /\ ~m_handshakeDone
  /\ m_handshakeDone' = TRUE /\ loop' = "settings"
  /\ UNCHANGED <<tagVars, m_bev, frames, infoTags, drops, taskVars, call, callers>>

\* Mutant: after a reconnect the server is thought to know the tags.
Bug_SendCurrentTags ==
  /\ loop = "settings" /\ loop' = "idle"
  /\ frames' = IF drops > 0 THEN frames
               ELSE Append(frames, [action |-> "subscribe", tags |-> Support(m_currentTags)])
  /\ UNCHANGED <<tagVars, m_bev, m_handshakeDone, infoTags, drops, taskVars, call, callers>>

SendCurrentTags ==
  /\ loop = "settings" /\ loop' = "idle"
  /\ frames' = IF Support(m_currentTags) = {} THEN frames
               ELSE Append(frames, [action |-> "subscribe", tags |-> Support(m_currentTags)])
  /\ UNCHANGED <<tagVars, m_bev, m_handshakeDone, infoTags, drops, taskVars, call, callers>>

\* Mutant: one task is run for each activation.
Bug_OnDispatchEvent ==
  /\ LoopFree /\ active /\ active' = FALSE
  /\ m_pendingTasks # <<>> /\ m_pendingTasks' = Tail(m_pendingTasks)
  /\ frames' = IF m_bev = "none" THEN frames ELSE Append(frames, Head(m_pendingTasks))
  /\ UNCHANGED <<tagVars, m_bev, m_handshakeDone, infoTags, drops, loop, call, callers>>

\* All tasks that were queued are run; without a connection they are gone.
OnDispatchEvent ==
  /\ LoopFree /\ active /\ active' = FALSE
  /\ m_pendingTasks' = <<>>
  /\ frames' = IF m_bev = "none" THEN frames ELSE frames \o m_pendingTasks
  /\ UNCHANGED <<tagVars, m_bev, m_handshakeDone, infoTags, drops, loop, call, callers>>

\* OnClientReadCB of the server.
ServerReads ==
  /\ m_bev = "up" /\ frames # <<>> /\ frames' = Tail(frames)
  /\ infoTags' = IF Head(frames).action = "subscribe"
                 THEN infoTags \cup Head(frames).tags ELSE infoTags \ Head(frames).tags
  /\ UNCHANGED <<tagVars, m_bev, m_handshakeDone, drops, taskVars, loop, call, callers>>

Next ==
  \/ \E t \in Threads, action \in Actions, tags \in SUBSET Tags \ {{}} :
       Calls(t, action, tags)
  \/ \E t \in Threads : CallStep(t)
  \/ DoConnect \/ OnConnected \/ OnLost \/ OnSettings \/ SendCurrentTags
  \/ OnDispatchEvent \/ ServerReads

Spec == Init /\ [][Next]_vars

\* Calls end, the loop runs what is due, and a server that is there answers.
LiveSpec ==
  /\ Spec /\ WF_vars(DoConnect) /\ WF_vars(OnConnected) /\ WF_vars(OnSettings)
  /\ WF_vars(SendCurrentTags) /\ WF_vars(OnDispatchEvent) /\ WF_vars(ServerReads)
  /\ \A t \in Threads : WF_vars(CallStep(t))

-----------------------------------------------------------------------------
(***************************************************************************)
(* Properties                                                              *)
(***************************************************************************)

\* Every variable keeps its type, and a finished handshake has its connection.
TypeOK ==
  /\ m_currentTags \in [Tags -> Nat] /\ {wanted, infoTags} \subseteq SUBSET Tags
  /\ m_bev \in {"none", "connecting", "up"} /\ {m_handshakeDone, active} \subseteq BOOLEAN
  /\ m_handshakeDone => m_bev = "up"
  /\ frames \in Seq(Frames) /\ m_pendingTasks \in Seq(Frames) /\ loop \in {"idle", "settings"}
  /\ call \in [Threads -> {NoCall} \cup [pc : {"look", "push", "wake"}, frame : Frames]]
  /\ {calls, drops} \subseteq Nat /\ callers \in CallerSets

\* Nothing is under way that could still change what the server knows.
Quiet ==
  /\ m_handshakeDone /\ loop = "idle" /\ frames = <<>>
  /\ m_pendingTasks = <<>> /\ \A t \in Threads : Idle(t)

\* On a connection that has come to rest the server sends what the callers asked
\* for, nothing else: GetTags, the server's list and the calls agree, whatever was
\* lost and tried again in between.
TagsAgree ==
  TypeOK /\ (Quiet => infoTags = wanted /\ Support(m_currentTags) = wanted)

\* Subscriptions reach the server in the end.
TagsArrive == <>[](infoTags = wanted)
=============================================================================
