----------------------- MODULE BroadcastServerProofs -----------------------
(***************************************************************************)
(* Theorems about the server of ZmBroadcastServer: BroadcastServer, its    *)
(* life and the order of its messages, for any number of starts, sends,    *)
(* senders and connections when one thread starts and stops it, and        *)
(* BroadcastQueue, the send queue of one client, for any number of         *)
(* messages and whatever clientQueueMaxSize is set to, at any time.        *)
(***************************************************************************)
EXTENDS BroadcastServer, BroadcastQueue, SequenceTheorems, TLAPS

\* Facts about the sequence operations of the code: taking off the head and
\* appending.
LEMMA TailFacts ==
  ASSUME NEW S, NEW s \in Seq(S), s # <<>>
  PROVE  /\ Tail(s) \in Seq(S) /\ Len(s) \in Nat \ {0} /\ Len(Tail(s)) = Len(s) - 1
         /\ Head(s) \in S /\ Head(s) = s[1]
         /\ \A i \in 1..Len(Tail(s)) : Tail(s)[i] = s[i + 1]
         /\ Tail(s) = <<>> <=> Len(s) = 1
<1>1. Tail(s) \in Seq(S) /\ Len(Tail(s)) = Len(s) - 1 /\ Len(s) \in Nat \ {0}
  BY HeadTailProperties, EmptySeq
<1>2. Tail(s) = <<>> <=> Len(s) = 1
  <2>1. CASE Tail(s) = <<>>
    BY <2>1, <1>1, EmptySeq
  <2>2. CASE Tail(s) # <<>>
    <3>1. Len(Tail(s)) \in Nat \ {0}
      BY <2>2, <1>1, EmptySeq
    <3> QED BY <3>1, <2>2, <1>1
  <2> QED BY <2>1, <2>2
<1> QED BY <1>1, <1>2, HeadTailProperties

LEMMA AppendFacts ==
  ASSUME NEW S, NEW s \in Seq(S), NEW e \in S
  PROVE  /\ Append(s, e) \in Seq(S) /\ Len(Append(s, e)) = Len(s) + 1
         /\ Append(s, e) # <<>> /\ Len(s) \in Nat
         /\ \A i \in 1..Len(s) : Append(s, e)[i] = s[i]
         /\ Append(s, e)[Len(s) + 1] = e
BY AppendProperties, LenProperties

-----------------------------------------------------------------------------
(***************************************************************************)
(* BroadcastServer, for any number of starts, sends, senders and           *)
(* connections, when one thread starts and stops it.                       *)
(***************************************************************************)

\* The use in which the code is right.
Orderly ==
  /\ \A o, p \in Owners : o = p
  /\ Patient /\ Joined /\ ~LoopIsSlow

Stops(t) == ~Idle(t) /\ call[t].kind \in {"Stop", "AsyncStop", "dtor"}
Sends(t) == ~Idle(t) /\ call[t].kind \in {"Send", "Kick"}

Places == {"cas1", "cas2", "look1", "look2", "look3", "push", "wake", "activate", "wait"}
Busy   == [kind : {"Stop", "AsyncStop", "dtor", "Send", "Kick"}, pc : Places, task : Tasks,
           ev : Nat]
Messages == [by : Threads, session : Nat, late : BOOLEAN]
Typed  == /\ TypeOK /\ call \in [Threads -> {NoCall} \cup Busy]
          /\ \A task \in delayed : task.type = "SEND" /\ task.late
          /\ sent \in Seq(Messages)

Rests == m_state \in {"IDLE", "STOPPED", "ERROR"}

\* Sends are over when a stop begins, and it has one task.
CallShapes ==
  \A t \in Threads :
    /\ Sends(t) => /\ t \in Senders /\ m_state = "LISTENING"
                   /\ call[t].pc \in {"push", "wake", "activate"} /\ call[t].task # StopTask
    /\ Stops(t) => t \in Owners /\ call[t].task = StopTask /\ \A s \in Threads : ~Sends(s)

\* What m_state can be at each place of AsyncStop: nobody else changes it before the
\* task is queued.
Stages ==
  \A t \in Threads : Stops(t) =>
    /\ call[t].pc = "cas1" => Rests \/ m_state = "LISTENING"
    /\ call[t].pc \in {"cas2", "look1"} => Rests
    /\ call[t].pc = "look2" => m_state \in {"IDLE", "ERROR"}
    /\ call[t].pc = "look3" => m_state = "ERROR"
    /\ call[t].pc = "push" => m_state \in {"STOPPING", "ERROR"}
    /\ call[t].pc = "wake" => m_state \in {"STOPPING", "STOPPED", "ERROR"}
    /\ call[t].pc = "activate" => m_state \in {"STOPPING", "STOPPED"}
    /\ call[t].pc = "wait" => Rests \/ m_state = "STOPPING"

\* The STOP task is the last one; what is queued in ERROR stays there.
NoStop(s) == \A i \in 1..Len(s) : s[i].type # "STOP"

StopIsLast ==
  /\ m_state # "ERROR" =>
       \A i \in 1..Len(m_pendingTasks) : m_pendingTasks[i].type = "STOP" =>
         i = Len(m_pendingTasks) /\ m_state = "STOPPING" /\ NoStop(batch)
  /\ \A i \in 1..Len(batch) : batch[i].type = "STOP" =>
         i = Len(batch) /\ m_pendingTasks = <<>> /\ m_state = "STOPPING"
  /\ \A t \in Threads : Stops(t) /\ call[t].pc = "push" =>
         NoStop(batch) /\ loop # "stopping" /\ (m_state = "STOPPING" => NoStop(m_pendingTasks))

\* Where the loop thread can be, and what is queued.
LoopFits ==
  /\ loop # "batch" => batch = <<>>
  /\ m_state \in {"IDLE", "STARTING", "STOPPED"} \/ loop = "stopping" =>
       batch = <<>> /\ m_pendingTasks = <<>>
  /\ m_state \in {"IDLE", "ERROR"} => loop = "idle"
  /\ loop = "stopping" => m_state = "STOPPING"
  /\ loop = "stopped" => m_state \in {"STARTING", "STOPPED"}

\* DoStart is due once, as a call or as a retry.
StartsOnce ==
  IF m_state = "STARTING" THEN once = (IF m_retryTimer THEN 0 ELSE 1)
  ELSE once = 0 /\ ~m_retryTimer

NothingLeft ==
  /\ Rests \/ loop = "stopping" => m_dispatchEvent = 0
  /\ Rests \/ loop = "stopping" \/ m_state = "STARTING" =>
       ~open /\ Connected = {} /\ active = {}
  /\ open <=> m_listener

\* Only the event there is can be active; a call may hold one that is freed.
Events ==
  /\ active \subseteq {m_dispatchEvent} \ {0} /\ m_dispatchEvent \notin freed
  /\ \A t \in Threads : call[t].pc = "activate" =>
       call[t].ev \in 1..made /\ (call[t].ev = m_dispatchEvent \/ call[t].ev \in freed)

\* The inductive invariant of the server's life.
ServerInv ==
  /\ Typed /\ CallShapes /\ Stages /\ StopIsLast /\ LoopFits /\ StartsOnce /\ NothingLeft
  /\ Events /\ (~alive => Rests)

-----------------------------------------------------------------------------
LEMMA TaskFacts ==
  /\ \A task \in Tasks :
       /\ task.type \in {"STOP", "KICK", "SEND"} /\ (task.type = "STOP" <=> task = StopTask)
       /\ task.type = "KICK" => task.client \in Clients
       /\ task.type = "SEND" => /\ task.m \in 1..MaxSends /\ task.late \in BOOLEAN
                                /\ task.to \in Clients \cup {Everyone}
  /\ StopTask \in Tasks
  /\ \A c \in Clients : KickTask(c) \in Tasks /\ KickTask(c).type = "KICK"
  /\ \A m \in 1..MaxSends, to \in Clients \cup {Everyone}, late \in BOOLEAN :
       /\ SendTask(m, to, late) \in Tasks /\ SendTask(m, to, late).type = "SEND"
       /\ SendTask(m, to, late).m = m /\ SendTask(m, to, late).late = late
<1>1. ASSUME NEW task \in Tasks
      PROVE  /\ task.type \in {"STOP", "KICK", "SEND"} /\ (task.type = "STOP" <=> task = StopTask)
             /\ task.type = "KICK" => task.client \in Clients
             /\ task.type = "SEND" => /\ task.m \in 1..MaxSends /\ task.late \in BOOLEAN
                                      /\ task.to \in Clients \cup {Everyone}
  <2>1. CASE task = StopTask
    BY <2>1 DEF StopTask
  <2>2. ASSUME NEW c \in Clients, task = KickTask(c) PROVE task.type = "KICK" /\ task.client = c
    BY <2>2 DEF KickTask
  <2>3. ASSUME NEW m, NEW to, NEW late, task = SendTask(m, to, late)
        PROVE  task.type = "SEND" /\ task.m = m /\ task.to = to /\ task.late = late
    BY <2>3 DEF SendTask
  <2>4. StopTask.type = "STOP"
    BY DEF StopTask
  <2>5. CASE \E c \in Clients : task = KickTask(c)
    BY <2>2, <2>4, <2>5
  <2>6. CASE \E m \in 1..MaxSends, to \in Clients \cup {Everyone}, late \in BOOLEAN :
                task = SendTask(m, to, late)
    BY <2>3, <2>4, <2>6
  <2> QED BY <2>1, <2>5, <2>6 DEF Tasks
<1>2. StopTask \in Tasks /\ \A c \in Clients : KickTask(c) \in Tasks /\ KickTask(c).type = "KICK"
  BY DEF Tasks, KickTask
<1>3. ASSUME NEW m \in 1..MaxSends, NEW to \in Clients \cup {Everyone}, NEW late \in BOOLEAN
      PROVE  /\ SendTask(m, to, late) \in Tasks /\ SendTask(m, to, late).type = "SEND"
             /\ SendTask(m, to, late).m = m /\ SendTask(m, to, late).late = late
  <2>1. SendTask(m, to, late) \in Tasks
    BY DEF Tasks
  <2> QED BY <2>1 DEF SendTask
<1> QED BY <1>1, <1>2, <1>3

LEMMA ACall ==
  ASSUME Typed, NEW t \in Threads
  PROVE  \/ Idle(t) /\ call[t] = NoCall /\ call[t].pc = "idle" /\ ~Stops(t) /\ ~Sends(t)
         \/ ~Idle(t) /\ call[t] \in Busy /\ call[t].pc \in Places /\ call[t].pc # "idle"
            /\ (Stops(t) \/ Sends(t)) /\ ~(Stops(t) /\ Sends(t))
<1>1. CASE call[t] = NoCall
  BY <1>1 DEF NoCall, Idle, Stops, Sends
<1>2. CASE call[t] \in Busy
  BY <1>2 DEF Busy, Places, Idle, Stops, Sends
<1> QED BY <1>1, <1>2 DEF Typed

\* The call of t becomes c.
Only(t, c) ==
  /\ call' \in [Threads -> {NoCall} \cup Busy] /\ call'[t] = c
  /\ \A y \in Threads \ {t} : call'[y] = call[y]

LEMMA Calling ==
  ASSUME Typed, NEW t \in Threads, NEW c \in {NoCall} \cup Busy, call' = [call EXCEPT ![t] = c]
  PROVE  Only(t, c)
BY DEF Typed, Only

LEMMA Goes ==
  ASSUME Typed, NEW t \in Threads, ~Idle(t), NEW p \in Places, Goto(t, p)
  PROVE  \E c \in Busy : /\ Only(t, c) /\ c.pc = p /\ c.kind = call[t].kind
                         /\ c.task = call[t].task /\ c.ev = call[t].ev
<1> DEFINE c == [call[t] EXCEPT !.pc = p]
<1>1. call[t] \in Busy
  BY ACall
<1>2. /\ c \in Busy /\ c.pc = p /\ c.kind = call[t].kind
      /\ c.task = call[t].task /\ c.ev = call[t].ev
  BY <1>1 DEF Busy
<1>3. call' = [call EXCEPT ![t] = c]
  BY DEF Goto
<1> HIDE DEF c
<1> QED BY <1>2, <1>3, Calling

\* AsyncStop returns, the others go on to wait.
LEMMA Leaves ==
  ASSUME Typed, NEW t \in Threads, ~Idle(t), Leave(t)
  PROVE  \E c \in {NoCall} \cup Busy :
           /\ Only(t, c)
           /\ \/ c = NoCall
              \/ Stops(t) /\ c \in Busy /\ c.pc = "wait" /\ c.kind = call[t].kind
                 /\ c.task = call[t].task
<1> DEFINE w == [call[t] EXCEPT !.pc = "wait"]
           c == IF call[t].kind \in {"Stop", "dtor"} THEN w ELSE NoCall
<1>1. call[t] \in Busy
  BY ACall
<1>2. w \in Busy /\ w.pc = "wait" /\ w.kind = call[t].kind /\ w.task = call[t].task
  BY <1>1 DEF Busy, Places
<1>3. call' = [call EXCEPT ![t] = c]
  BY DEF Leave
<1>4. c \in {NoCall} \cup Busy
  BY <1>2
<1>5. c = w => Stops(t) \/ c = NoCall
  BY DEF Stops
<1> HIDE DEF w
<1>6. Only(t, c)
  BY <1>3, <1>4, Calling
<1> QED BY <1>2, <1>4, <1>5, <1>6

LEMMA OwnerAlone ==
  ASSUME Orderly, ServerInv, NEW t \in Threads, Stops(t)
  PROVE  t \in Owners /\ call[t].task = StopTask /\ \A y \in Threads \ {t} : call[y] = NoCall
<1>1. t \in Owners /\ call[t].task = StopTask /\ \A y \in Threads : ~Sends(y)
  BY DEF ServerInv, CallShapes
<1>2. ASSUME NEW y \in Threads \ {t} PROVE ~Stops(y)
  BY <1>1, <1>2 DEF ServerInv, CallShapes, Orderly
<1> QED BY <1>1, <1>2, ACall DEF ServerInv

\* Nobody is in a call while it starts.
LEMMA QuietStart ==
  ASSUME ServerInv, m_state = "STARTING", NEW t \in Threads
  PROVE  call[t] = NoCall /\ call[t].pc = "idle"
<1>1. ~Sends(t) /\ ~Stops(t)
  BY ACall DEF ServerInv, CallShapes, Stages, Rests, Places, Busy
<1> QED BY <1>1, ACall DEF ServerInv

-----------------------------------------------------------------------------
LEMMA ServerInitially == Init => ServerInv
<1> SUFFICES ASSUME Init PROVE ServerInv
  OBVIOUS
<1> USE ServerAssumption DEF Init
<1>1. TypeOK
  <2>1. <<>> \in Seq(Tasks) /\ <<>> \in Seq(1..MaxSends)
    BY EmptySeq
  <2>2. got \in [Clients -> Seq(1..MaxSends)]
    BY <2>1
  <2>3. m_dispatchEvent \in 0..made /\ freed \subseteq 1..made /\ active \subseteq 1..made
    OBVIOUS
  <2>4. home \in [Clients -> Nat] /\ conn \in [Clients -> {"new", "greeting", "online", "gone"}]
    OBVIOUS
  <2>5. m_state \in States /\ {m_listener, open, m_retryTimer, alive} \subseteq BOOLEAN
    BY DEF States
  <2>6. {once, fails, starts, session, made} \subseteq Nat
    OBVIOUS
  <2>7. m_pendingTasks \in Seq(Tasks) /\ batch \in Seq(Tasks) /\ delayed \subseteq Tasks
    BY <2>1
  <2> QED BY <2>2, <2>3, <2>4, <2>5, <2>6, <2>7 DEF TypeOK
<1>2. /\ call \in [Threads -> {NoCall} \cup Busy] /\ \A t \in Threads : call[t].pc = "idle"
      /\ sent \in Seq(Messages)
  BY EmptySeq DEF NoCall
<1>3. \A t \in Threads : ~Stops(t) /\ ~Sends(t)
  BY <1>2 DEF Stops, Sends, Idle
<1>4. Len(m_pendingTasks) = 0 /\ Len(batch) = 0
  BY EmptySeq
<1>5. CallShapes /\ Stages
  BY <1>3 DEF CallShapes, Stages
<1>6. StopIsLast /\ LoopFits
  BY <1>3, <1>4 DEF StopIsLast, LoopFits
<1>7. StartsOnce /\ NothingLeft
  BY DEF StartsOnce, NothingLeft, Connected
<1>8. Events
  BY <1>2 DEF Events
<1> QED BY <1>1, <1>2, <1>5, <1>6, <1>7, <1>8 DEF ServerInv, Typed

LEMMA StartStep ==
  ASSUME Orderly, ServerInv, NEW o \in Owners, Start(o)
  PROVE  ServerInv'
<1> USE DEF ServerInv
<1>1. /\ alive /\ Idle(o) /\ m_state \in {"IDLE", "STOPPED"} /\ m_state' = "STARTING"
      /\ once' = once + 1 /\ starts' = starts + 1
      /\ UNCHANGED <<m_listener, open, m_retryTimer, fails, session, m_dispatchEvent, made, freed,
                     active, m_pendingTasks, loop, batch, delayed, conn, home, got, sent, call,
                     alive>>
  BY DEF Start, MayStart, evVars, taskVars, peerVars, callVars
<1>2. \A t \in Threads : call[t] = NoCall /\ ~Stops(t) /\ ~Sends(t)
  <2>1. ASSUME NEW t \in Threads PROVE ~Stops(t) /\ ~Sends(t)
    BY <1>1 DEF CallShapes, Stops, Orderly
  <2> QED BY <2>1, ACall
<1>3. Typed'
  <2>1. {once', starts'} \subseteq Nat /\ m_state' \in States
    BY <1>1 DEF Typed, TypeOK, States
  <2> QED BY <1>1, <2>1 DEF Typed, TypeOK
<1>4. CallShapes' /\ Stages'
  BY <1>1, <1>2 DEF CallShapes, Stages, Stops, Sends, Idle
<1>5. StopIsLast'
  BY <1>1, <1>2 DEF StopIsLast, Stops, Idle, LoopFits, NoStop
<1>6. LoopFits' /\ StartsOnce'
  BY <1>1 DEF LoopFits, StartsOnce
<1>7. NothingLeft'
  BY <1>1 DEF NothingLeft, Rests, Connected
<1>8. Events'
  BY <1>1 DEF Events
<1> QED BY <1>1, <1>3, <1>4, <1>5, <1>6, <1>7, <1>8

\* A call of AsyncStop, or of what calls it, begins.
LEMMA StopBegins ==
  ASSUME Orderly, ServerInv, NEW o \in Owners, NEW kind \in {"Stop", "AsyncStop", "dtor"},
         Stop(o, kind)
  PROVE  ServerInv'
<1> USE DEF ServerInv
<1> DEFINE c == [kind |-> kind, pc |-> "cas1", task |-> StopTask, ev |-> 0]
<1>0. c \in Busy /\ c.pc = "cas1" /\ c.task = StopTask /\ c.kind \in {"Stop", "AsyncStop", "dtor"}
  BY TaskFacts DEF Busy, Places
<1> HIDE DEF c
<1>1. /\ alive /\ Idle(o) /\ MayStop /\ call' = [call EXCEPT ![o] = c]
      /\ UNCHANGED <<m_state, m_listener, open, m_retryTimer, once, fails, starts, session,
                     m_dispatchEvent, made, freed, active, m_pendingTasks, loop, batch, delayed,
                     conn, home, got, sent, alive>>
  BY DEF Stop, lifeVars, evVars, taskVars, peerVars, c
<1>2. o \in Threads /\ Only(o, c)
  BY <1>0, <1>1, Calling DEF Threads
<1>3. m_state \notin {"STARTING", "STOPPING"} /\ \A s \in Senders : Idle(s)
  BY <1>1 DEF MayStop, Orderly
<1>4. Rests \/ m_state = "LISTENING"
  BY <1>3 DEF Typed, TypeOK, States, Rests
<1>5. /\ \A s \in Threads : ~Sends(s)' /\ (Stops(s)' => s = o)
      /\ call'[o].pc = "cas1" /\ call'[o].task = StopTask
      /\ \A s \in Threads \ {o} : call'[s] = call[s]
  <2>1. \A s \in Threads : ~Sends(s)
    BY <1>3 DEF CallShapes, Sends
  <2>2. \A s \in Threads : Stops(s) => s = o
    BY DEF CallShapes, Orderly
  <2>3. ~Sends(o)'
    BY <1>0, <1>2 DEF Only, Sends
  <2> QED BY <1>0, <1>2, <2>1, <2>2, <2>3 DEF Only, Sends, Stops, Idle
<1>6. Typed'
  BY <1>1, <1>2 DEF Typed, TypeOK, Only
<1>7. CallShapes' /\ Stages'
  BY <1>1, <1>4, <1>5 DEF CallShapes, Stages, Rests
<1>8. StopIsLast'
  BY <1>1, <1>5 DEF StopIsLast, NoStop
<1>9. LoopFits' /\ StartsOnce' /\ NothingLeft'
  BY <1>1 DEF LoopFits, StartsOnce, NothingLeft, Rests, Connected
<1>10. Events'
  BY <1>1, <1>5 DEF Events
<1> QED BY <1>1, <1>6, <1>7, <1>8, <1>9, <1>10 DEF Rests

\* Steps of a stop: it goes on, or it is over.
LEMMA StopGoes ==
  ASSUME Orderly, ServerInv, NEW t \in Threads, Stops(t), NEW p \in Places, Goto(t, p)
  PROVE  /\ Stops(t)' /\ call'[t].pc = p /\ call'[t].task = StopTask
         /\ call' \in [Threads -> {NoCall} \cup Busy]
         /\ \A y \in Threads \ {t} : call'[y] = NoCall
<1>1. PICK c \in Busy : /\ Only(t, c) /\ c.pc = p /\ c.kind = call[t].kind
                        /\ c.task = call[t].task /\ c.ev = call[t].ev
  BY Goes DEF Stops, ServerInv
<1>2. p # "idle"
  BY DEF Places
<1>3. \A y \in Threads \ {t} : call'[y] = NoCall
  BY <1>1, OwnerAlone DEF Only
<1> QED BY <1>1, <1>2, <1>3, OwnerAlone DEF Only, Stops, Idle

LEMMA StopLeaves ==
  ASSUME Orderly, ServerInv, NEW t \in Threads, Stops(t), Leave(t) \/ call' = [call EXCEPT ![t] = NoCall]
  PROVE  /\ call'[t] = NoCall \/ (Stops(t)' /\ call'[t].pc = "wait" /\ call'[t].task = StopTask)
         /\ call' \in [Threads -> {NoCall} \cup Busy]
         /\ \A y \in Threads \ {t} : call'[y] = NoCall
<1>1. PICK c \in {NoCall} \cup Busy :
         /\ Only(t, c)
         /\ \/ c = NoCall
            \/ Stops(t) /\ c \in Busy /\ c.pc = "wait" /\ c.kind = call[t].kind
               /\ c.task = call[t].task
  <2>1. CASE Leave(t)
    BY <2>1, Leaves DEF ServerInv, Stops
  <2>2. CASE call' = [call EXCEPT ![t] = NoCall]
    BY <2>2, Calling DEF ServerInv
  <2> QED BY <2>1, <2>2
<1>2. \A y \in Threads \ {t} : call'[y] = NoCall
  BY <1>1, OwnerAlone DEF Only
<1> QED BY <1>1, <1>2, OwnerAlone DEF Only, Stops, Idle

\* It tests m_state, three times, looks at it, and waits in vain.
LEMMA StopStep ==
  ASSUME Orderly, ServerInv, NEW t \in Threads,
         StopListening(t) \/ StopStarting(t) \/ StopLooks(t) \/ StopReturns(t)
  PROVE  ServerInv'
<1> USE DEF ServerInv
<1>1. /\ UNCHANGED <<m_listener, open, m_retryTimer, once, fails, starts, session,
                     m_dispatchEvent, made, freed, active, m_pendingTasks, loop, batch, delayed,
                     conn, home, got, sent>>
      /\ call[t].pc \in {"cas1", "cas2", "look1", "look2", "look3", "wait"}
      /\ alive' \in BOOLEAN /\ (alive' = alive \/ (call[t].pc = "wait" /\ m_state' = m_state
                                               /\ Rests))
  BY DEF StopListening, StopStarting, StopLooks, StopReturns, Looks, lifeVars, evVars, taskVars,
         peerVars, Orderly, Rests, Typed, TypeOK
<1>2. Stops(t) /\ t \in Owners /\ (\A y \in Threads \ {t} : call[y] = NoCall)
  <2>1. ~Sends(t)
    BY <1>1 DEF CallShapes
  <2>2. Stops(t)
    BY <1>1, <2>1, ACall
  <2> QED BY <2>2, OwnerAlone
<1>3. /\ call' \in [Threads -> {NoCall} \cup Busy] /\ \A y \in Threads \ {t} : call'[y] = NoCall
      /\ \/ call'[t] = NoCall /\ m_state' = m_state
         \/ /\ Stops(t)' /\ call'[t].task = StopTask
            /\ \/ call'[t].pc = "wait" /\ m_state' = m_state /\ (Rests \/ m_state = "STOPPING")
               \/ call'[t].pc = "push" /\ m_state' = "STOPPING" /\ m_state = "LISTENING"
               \/ call'[t].pc = "push" /\ m_state' = m_state /\ m_state = "ERROR"
               \/ call'[t].pc \in {"cas2", "look1"} /\ m_state' = m_state /\ Rests
               \/ call'[t].pc = "look2" /\ m_state' = m_state /\ m_state \in {"IDLE", "ERROR"}
               \/ call'[t].pc = "look3" /\ m_state' = m_state /\ m_state = "ERROR"
  <2>1. {"push", "cas2", "look1", "look2", "look3", "wait"} \subseteq Places
    BY DEF Places
  <2>2. CASE StopListening(t)
    BY <1>2, <2>1, <2>2, StopGoes DEF StopListening, Stages
  <2>3. CASE StopStarting(t)
    BY <1>2, <2>1, <2>3, StopGoes DEF StopStarting, Stages, Rests
  <2>4. CASE StopLooks(t)
    <3>1. m_state' = m_state /\ (call[t].pc = "look1" => Rests)
          /\ (call[t].pc = "look2" => m_state \in {"IDLE", "ERROR"})
          /\ (call[t].pc = "look3" => m_state = "ERROR")
      BY <1>2, <2>4 DEF StopLooks, lifeVars, Stages
    <3>2. \/ call[t].pc = "look1" /\ (Goto(t, "look2") \/ Leave(t)) /\ (m_state = "STOPPED" => Leave(t))
          \/ call[t].pc = "look2" /\ (Goto(t, "look3") \/ Leave(t)) /\ (m_state = "IDLE" => Leave(t))
          \/ call[t].pc = "look3" /\ (Goto(t, "push") \/ Leave(t))
      BY <2>4 DEF StopLooks, Looks, After
    <3>3. CASE Leave(t)
      BY <1>2, <3>1, <3>2, <3>3, StopLeaves DEF Rests
    <3>4. CASE ~Leave(t)
      BY <1>2, <2>1, <3>1, <3>2, <3>4, StopGoes DEF Rests
    <3> QED BY <3>3, <3>4
  <2>5. CASE StopReturns(t)
    <3>1. call' = [call EXCEPT ![t] = NoCall] /\ m_state' = m_state
      BY <2>5 DEF StopReturns, lifeVars
    <3>2. call'[t] = NoCall
      BY <3>1 DEF Typed
    <3> QED BY <1>2, <3>1, <3>2, StopLeaves
  <2> QED BY <2>2, <2>3, <2>4, <2>5
<1>4. \A y \in Threads : ~Sends(y)' /\ (Stops(y)' => y = t)
  BY <1>3 DEF Sends, Stops, Idle, NoCall
<1>5. Typed'
  BY <1>1, <1>3 DEF Typed, TypeOK, States
<1>6. CallShapes'
  <2>1. Stops(t)' => call'[t].task = StopTask
    BY <1>3 DEF Stops, Idle, NoCall
  <2> QED BY <1>2, <1>4, <2>1 DEF CallShapes
<1>7. Stages'
  BY <1>3, <1>4 DEF Stages, Rests, Stops, Idle, NoCall
<1>8. LoopFits' /\ StartsOnce' /\ NothingLeft'
  BY <1>1, <1>3 DEF LoopFits, StartsOnce, NothingLeft, Rests, Connected
<1>9. StopIsLast'
  <2>1. m_state = "LISTENING" => NoStop(batch) /\ NoStop(m_pendingTasks)
    BY DEF StopIsLast, NoStop
  <2>2. m_state \in {"LISTENING", "ERROR"} => loop # "stopping" /\ NoStop(batch)
    BY DEF LoopFits, StopIsLast, NoStop
  <2>3. m_state' = m_state \/ (m_state = "LISTENING" /\ m_state' = "STOPPING")
    BY <1>3
  <2>4. \A y \in Threads : Stops(y)' /\ call'[y].pc = "push" =>
          (m_state' = "STOPPING" /\ m_state = "LISTENING") \/ (m_state' = m_state /\ m_state = "ERROR")
    BY <1>3, <1>4 DEF Stops, Idle, NoCall
  <2> QED BY <1>1, <2>1, <2>2, <2>3, <2>4 DEF StopIsLast, NoStop
<1>10. Events'
  BY <1>1, <1>3 DEF Events, NoCall
<1>11. ~alive' => Rests'
  BY <1>1, <1>3 DEF Rests
<1> QED BY <1>5, <1>6, <1>7, <1>8, <1>9, <1>10, <1>11

\* A send or a kick begins.
LEMMA SendBegins ==
  ASSUME Orderly, ServerInv, NEW s \in Senders, NEW task \in Tasks, task.type # "STOP",
         NEW kind \in {"Send", "Kick"}, alive, Idle(s), MaySend,
         call' = [call EXCEPT ![s] = [kind |-> kind, pc |-> "push", ev |-> 0, task |-> task]],
         sent' \in Seq(Messages), UNCHANGED <<lifeVars, evVars, taskVars, peerVars, alive>>
  PROVE  ServerInv'
<1> USE DEF ServerInv
<1> DEFINE c == [kind |-> kind, pc |-> "push", ev |-> 0, task |-> task]
<1>0. c \in Busy /\ c.pc = "push" /\ c.task = task /\ c.kind \in {"Send", "Kick"}
  BY DEF Busy, Places
<1>1. UNCHANGED <<m_state, m_listener, open, m_retryTimer, once, fails, starts, session,
                  m_dispatchEvent, made, freed, active, m_pendingTasks, loop, batch, delayed,
                  conn, home, got, alive>>
  BY DEF lifeVars, evVars, taskVars, peerVars
<1>2. s \in Threads /\ call' = [call EXCEPT ![s] = c]
  BY DEF Threads
<1> HIDE DEF c
<1>3. Only(s, c)
  BY <1>0, <1>2, Calling
<1>4. m_state = "LISTENING" /\ \A t \in Owners : Idle(t)
  BY DEF MaySend, Orderly
<1>5. /\ \A t \in Threads : ~Stops(t)' /\ (Sends(t)' => Sends(t) \/ t = s)
      /\ call'[s].pc = "push" /\ call'[s].task # StopTask
      /\ \A t \in Threads \ {s} : call'[t] = call[t]
  <2>1. \A t \in Threads : ~Stops(t)
    BY <1>4 DEF CallShapes, Stops
  <2>2. ~Stops(s)'
    BY <1>0, <1>3 DEF Only, Stops
  <2>3. c.task # StopTask
    BY <1>0 DEF StopTask
  <2> QED BY <1>0, <1>3, <2>1, <2>2, <2>3 DEF Only, Sends, Stops, Idle
<1>6. Typed'
  BY <1>1, <1>3 DEF Typed, TypeOK, Only
<1>7. CallShapes'
  <2>1. ASSUME NEW t \in Threads, Sends(t)'
        PROVE  /\ t \in Senders /\ m_state' = "LISTENING"
               /\ call'[t].pc \in {"push", "wake", "activate"} /\ call'[t].task # StopTask
    BY <1>1, <1>4, <1>5, <2>1 DEF CallShapes
  <2> QED BY <1>5, <2>1 DEF CallShapes
<1>8. Stages'
  BY <1>5 DEF Stages
<1>9. StopIsLast'
  BY <1>1, <1>5 DEF StopIsLast, NoStop
<1>10. LoopFits' /\ StartsOnce' /\ NothingLeft'
  BY <1>1 DEF LoopFits, StartsOnce, NothingLeft, Rests, Connected
<1>11. Events'
  BY <1>1, <1>5 DEF Events
<1> QED BY <1>1, <1>6, <1>7, <1>8, <1>9, <1>10, <1>11 DEF Rests

\* ScheduleTask queues the task of a send, or the STOP task as the last one.
LEMMA PushStep ==
  ASSUME Orderly, ServerInv, NEW t \in Threads, Push(t)
  PROVE  ServerInv'
<1> USE DEF ServerInv
<1>1. /\ call[t].pc = "push" /\ m_pendingTasks' = Append(m_pendingTasks, call[t].task)
      /\ Goto(t, "wake")
      /\ UNCHANGED <<m_state, m_listener, open, m_retryTimer, once, fails, starts, session,
                     m_dispatchEvent, made, freed, active, loop, batch, delayed,
                     conn, home, got, sent, alive>>
  BY DEF Push, lifeVars, evVars, peerVars
<1>2. ~Idle(t) /\ call[t].task \in Tasks /\ (Stops(t) \/ Sends(t)) /\ ~(Stops(t) /\ Sends(t))
  BY <1>1, ACall DEF Idle, Busy
<1>3. PICK c \in Busy : /\ Only(t, c) /\ c.pc = "wake" /\ c.kind = call[t].kind
                        /\ c.task = call[t].task /\ c.ev = call[t].ev
  BY <1>1, <1>2, Goes DEF Places
<1>4. /\ call'[t].pc = "wake" /\ call'[t].task = call[t].task
      /\ \A y \in Threads \ {t} : call'[y] = call[y]
      /\ \A y \in Threads : (Stops(y)' <=> Stops(y)) /\ (Sends(y)' <=> Sends(y))
  BY <1>2, <1>3 DEF Only, Stops, Sends, Idle
<1>5. /\ m_pendingTasks' \in Seq(Tasks) /\ Len(m_pendingTasks') = Len(m_pendingTasks) + 1
      /\ Len(m_pendingTasks) \in Nat
      /\ \A i \in 1..Len(m_pendingTasks) : m_pendingTasks'[i] = m_pendingTasks[i]
      /\ m_pendingTasks'[Len(m_pendingTasks) + 1] = call[t].task
  BY <1>1, <1>2, AppendFacts DEF Typed, TypeOK
<1>6. Typed'
  BY <1>1, <1>3, <1>5 DEF Typed, TypeOK, Only
<1>7. CallShapes'
  <2>1. ASSUME NEW y \in Threads, Sends(y)
        PROVE  call'[y].pc \in {"push", "wake", "activate"} /\ call'[y].task # StopTask
    BY <1>4, <2>1 DEF CallShapes
  <2>2. ASSUME NEW y \in Threads, Stops(y) PROVE call'[y].task = StopTask
    BY <1>4, <2>2 DEF CallShapes
  <2> QED BY <1>1, <1>4, <2>1, <2>2 DEF CallShapes
<1>8. Stages'
  <2>1. Stops(t) => m_state \in {"STOPPING", "ERROR"}
    BY <1>1 DEF Stages
  <2> QED BY <1>1, <1>4, <2>1 DEF Stages, Rests
<1>9. Stops(t) \/ m_state = "LISTENING"
  BY <1>2 DEF CallShapes
<1>10. StopIsLast'
  <2>1. \A i \in 1..Len(m_pendingTasks)' : i \in 1..Len(m_pendingTasks) \/ i = Len(m_pendingTasks) + 1
    BY <1>5
  <2>2. CASE Stops(t)
    <3>1. /\ m_state \in {"STOPPING", "ERROR"} /\ NoStop(batch)
          /\ m_state = "STOPPING" => NoStop(m_pendingTasks)
      BY <1>1, <2>2 DEF StopIsLast, Stages
    <3>2. \A y \in Threads : Stops(y)' => call'[y].pc = "wake"
      BY <1>4, <2>2, OwnerAlone DEF Stops, Idle, NoCall
    <3> QED BY <1>1, <1>5, <2>1, <3>1, <3>2 DEF StopIsLast, NoStop
  <2>3. CASE Sends(t)
    <3>1. m_state = "LISTENING" /\ call[t].task.type # "STOP" /\ \A y \in Threads : ~Stops(y)
      BY <1>2, <2>3, TaskFacts DEF CallShapes
    <3>2. NoStop(batch) /\ NoStop(m_pendingTasks)
      BY <3>1 DEF StopIsLast, NoStop
    <3> QED BY <1>1, <1>4, <1>5, <2>1, <3>1, <3>2 DEF StopIsLast, NoStop
  <2> QED BY <1>2, <2>2, <2>3
<1>11. LoopFits'
  <2>1. m_state \in {"STOPPING", "ERROR", "LISTENING"} /\ loop # "stopping"
    BY <1>1, <1>2, <1>9 DEF Stages, StopIsLast, LoopFits
  <2> QED BY <1>1, <2>1 DEF LoopFits
<1>12. StartsOnce' /\ NothingLeft'
  BY <1>1 DEF StartsOnce, NothingLeft, Rests, Connected
<1>13. Events'
  BY <1>1, <1>4 DEF Events
<1> QED BY <1>1, <1>6, <1>7, <1>8, <1>10, <1>11, <1>12, <1>13 DEF Rests

\* ScheduleTask reads the event and activates it.
LEMMA WakeStep ==
  ASSUME Orderly, ServerInv, NEW t \in Threads, Wake(t) \/ Activate(t)
  PROVE  ServerInv'
<1> USE DEF ServerInv
<1>1. /\ call[t].pc \in {"wake", "activate"}
      /\ UNCHANGED <<m_state, m_listener, open, m_retryTimer, once, fails, starts, session,
                     m_dispatchEvent, made, freed, m_pendingTasks, loop, batch, delayed,
                     conn, home, got, sent, alive>>
      /\ active' = active \/ (call[t].pc = "activate" /\ active' = active \cup ({call[t].ev} \ freed))
  BY DEF Wake, Activate, lifeVars, evVars, taskVars, peerVars
<1>2. ~Idle(t) /\ call[t] \in Busy /\ (Stops(t) \/ Sends(t)) /\ ~(Stops(t) /\ Sends(t))
  BY <1>1, ACall DEF Idle
<1>3. PICK c \in {NoCall} \cup Busy :
         /\ Only(t, c)
         /\ \/ c = NoCall
            \/ Stops(t) /\ c \in Busy /\ c.pc = "wait" /\ c.kind = call[t].kind
               /\ c.task = call[t].task
            \/ c \in Busy /\ c.pc = "activate" /\ c.kind = call[t].kind
               /\ c.task = call[t].task /\ c.ev = m_dispatchEvent /\ m_dispatchEvent # 0
               /\ call[t].pc = "wake"
  <2>1. CASE Leave(t)
    BY <1>2, <2>1, Leaves
  <2>2. CASE Wake(t) /\ m_dispatchEvent # 0
    <3> DEFINE c == [call[t] EXCEPT !.pc = "activate", !.ev = m_dispatchEvent]
    <3>1. m_dispatchEvent \in Nat
      BY DEF Typed, TypeOK
    <3>2. /\ c \in Busy /\ c.pc = "activate" /\ c.kind = call[t].kind /\ c.task = call[t].task
          /\ c.ev = m_dispatchEvent
      BY <1>2, <3>1 DEF Busy, Places
    <3>3. call' = [call EXCEPT ![t] = c] /\ call[t].pc = "wake"
      BY <2>2 DEF Wake
    <3> HIDE DEF c
    <3>4. Only(t, c)
      BY <3>2, <3>3, Calling
    <3> QED BY <2>2, <3>2, <3>3, <3>4
  <2> QED BY <2>1, <2>2 DEF Wake, Activate
<1>4. /\ \A y \in Threads \ {t} : call'[y] = call[y]
      /\ \A y \in Threads : (Stops(y)' => Stops(y)) /\ (Sends(y)' => Sends(y))
      /\ Stops(t)' \/ Sends(t)' => call'[t].pc \in {"wait", "activate"} /\ call'[t].task = call[t].task
      /\ Sends(t)' => call'[t].pc = "activate"
      /\ call'[t].pc = "activate" => call[t].pc = "wake" /\ call'[t].ev = m_dispatchEvent /\ m_dispatchEvent # 0
  BY <1>2, <1>3 DEF Only, Stops, Sends, Idle, NoCall
<1>5. active' \subseteq {m_dispatchEvent} \ {0} /\ active' \subseteq 1..made
      /\ (active = {} /\ m_dispatchEvent = 0 => active' = {})
  <2>1. active \subseteq {m_dispatchEvent} \ {0} /\ active \subseteq 1..made /\ made \in Nat
    BY DEF Events, Typed, TypeOK
  <2>2. CASE active' = active
    BY <2>1, <2>2
  <2>3. CASE call[t].pc = "activate" /\ active' = active \cup ({call[t].ev} \ freed)
    <3>1. call[t].ev \in 1..made /\ (call[t].ev = m_dispatchEvent \/ call[t].ev \in freed)
      BY <2>3 DEF Events
    <3>2. call[t].ev # 0
      BY <2>1, <3>1
    <3>3. {call[t].ev} \ freed \subseteq {m_dispatchEvent} \ {0}
      BY <3>1, <3>2
    <3> QED BY <2>1, <2>3, <3>1, <3>3
  <2> QED BY <1>1, <2>2, <2>3
<1>6. Typed'
  BY <1>1, <1>3, <1>5 DEF Typed, TypeOK, Only
<1>7. CallShapes'
  <2>1. ASSUME NEW y \in Threads, Sends(y)'
        PROVE  /\ call'[y].pc \in {"push", "wake", "activate"} /\ call'[y].task # StopTask
               /\ y \in Senders /\ m_state' = "LISTENING"
    BY <1>1, <1>4, <2>1 DEF CallShapes
  <2>2. ASSUME NEW y \in Threads, Stops(y)'
        PROVE  call'[y].task = StopTask /\ y \in Owners /\ \A s \in Threads : ~Sends(s)'
    BY <1>4, <2>2 DEF CallShapes
  <2> QED BY <2>1, <2>2 DEF CallShapes
<1>8. Stages'
  <2>1. Stops(t) => m_state \in {"STOPPING", "STOPPED", "ERROR"}
    BY <1>1 DEF Stages
  <2>2. call'[t].pc = "activate" => m_state # "ERROR"
    BY <1>4 DEF NothingLeft, Rests
  <2> QED BY <1>1, <1>4, <2>1, <2>2 DEF Stages, Rests
<1>9. StopIsLast'
  <2>1. \A y \in Threads : Stops(y)' /\ call'[y].pc = "push" => Stops(y) /\ call[y].pc = "push"
    BY <1>4
  <2> QED BY <1>1, <2>1 DEF StopIsLast, NoStop
<1>10. LoopFits' /\ StartsOnce'
  BY <1>1 DEF LoopFits, StartsOnce
<1>11. NothingLeft'
  <2>1. m_state # "STARTING"
    BY <1>2 DEF CallShapes, Stages, Rests, Busy, Places
  <2> QED BY <1>1, <1>5, <2>1 DEF NothingLeft, Rests, Connected
<1>12. Events'
  <2>1. m_dispatchEvent # 0 => m_dispatchEvent \in 1..made
    BY DEF Typed, TypeOK
  <2>2. ASSUME NEW y \in Threads, call'[y].pc = "activate"
        PROVE  call'[y].ev \in 1..made /\ (call'[y].ev = m_dispatchEvent \/ call'[y].ev \in freed)
    <3>1. CASE y = t
      BY <1>4, <2>1, <2>2, <3>1
    <3>2. CASE y # t
      BY <1>4, <2>2, <3>2 DEF Events
    <3> QED BY <3>1, <3>2
  <2>3. m_dispatchEvent \notin freed
    BY DEF Events
  <2> QED BY <1>1, <1>5, <2>2, <2>3 DEF Events
<1> QED BY <1>1, <1>6, <1>7, <1>8, <1>9, <1>10, <1>11, <1>12 DEF Rests

-----------------------------------------------------------------------------
\* Calls stand still.
LEMMA CallsStay ==
  ASSUME CallShapes, Stages, call' = call, m_state' = m_state
  PROVE  CallShapes' /\ Stages'
BY DEF CallShapes, Stages, Stops, Sends, Idle, Rests

\* DoStart, as the call posted or as a retry.
LEMMA DoStartStep ==
  ASSUME Orderly, ServerInv, OnceStarts \/ RetryStarts
  PROVE  ServerInv'
<1> USE DEF ServerInv
<1>1. /\ loop = "idle" /\ DoStart
      /\ \/ once > 0 /\ once' = once - 1
         \/ m_retryTimer /\ once' = once
  BY DEF OnceStarts, RetryStarts
<1>2. m_state = "STARTING" /\ once' = 0
  <2>1. once \in Nat
    BY DEF Typed, TypeOK
  <2> QED BY <1>1, <2>1 DEF StartsOnce
<1>3. /\ UNCHANGED <<starts, freed, active, m_pendingTasks, loop, batch, delayed, conn, home, got,
                     sent, call, alive>>
      /\ \/ made' = made + 1 /\ m_dispatchEvent' = made'
         \/ made' = made /\ m_dispatchEvent' = 0 /\ m_state' = "ERROR"
      /\ \/ m_state' = "STARTING" /\ ~m_listener' /\ m_retryTimer' = TRUE /\ open' = open
         \/ m_state' = "LISTENING" /\ m_listener' = TRUE /\ open' = TRUE /\ m_retryTimer' = FALSE
         \/ m_state' = "ERROR" /\ m_retryTimer' = FALSE /\ m_dispatchEvent' = 0
            /\ UNCHANGED <<m_listener, open>>
  BY <1>1, <1>2 DEF DoStart, BindFails, BindSucceeds, taskVars, peerVars, callVars
<1>4. {m_listener', open', m_retryTimer'} \subseteq BOOLEAN /\ {fails', session'} \subseteq Nat
  <2>1. {m_listener, open} \subseteq BOOLEAN /\ {fails, session} \subseteq Nat
    BY DEF Typed, TypeOK
  <2>2. {fails', session'} \subseteq Nat
    BY <1>1, <2>1 DEF DoStart, BindFails, BindSucceeds
  <2>3. m_listener' \in BOOLEAN
    BY <1>1, <2>1 DEF DoStart, BindFails, BindSucceeds
  <2> QED BY <1>3, <2>1, <2>2, <2>3
<1>5. /\ batch = <<>> /\ m_pendingTasks = <<>> /\ ~open /\ ~m_listener /\ active = {} /\ Connected = {}
      /\ alive
  BY <1>2 DEF LoopFits, NothingLeft, Rests
<1>6. \A t \in Threads : call[t] = NoCall /\ call[t].pc = "idle"
  BY <1>2, QuietStart
<1>7. Typed'
  <2>1. made' \in Nat /\ m_dispatchEvent' \in 0..made' /\ freed' \subseteq 1..made'
        /\ active' \subseteq 1..made'
    BY <1>3 DEF Typed, TypeOK
  <2>2. m_state' \in States
    BY <1>3 DEF States
  <2> QED BY <1>2, <1>3, <1>4, <2>1, <2>2 DEF Typed, TypeOK
<1>8. CallShapes' /\ Stages'
  BY <1>3, <1>6 DEF CallShapes, Stages, Stops, Sends, Idle
<1>9. StopIsLast'
  BY <1>3, <1>5, <1>6, EmptySeq DEF StopIsLast, Stops, Idle
<1>10. LoopFits' /\ StartsOnce'
  BY <1>1, <1>2, <1>3, <1>5 DEF LoopFits, StartsOnce
<1>11. NothingLeft'
  BY <1>1, <1>3, <1>5 DEF NothingLeft, Rests, Connected
<1>12. Events'
  <2>1. m_dispatchEvent' \notin freed
    BY <1>3 DEF Typed, TypeOK
  <2> QED BY <1>3, <1>5, <1>6, <2>1 DEF Events
<1> QED BY <1>3, <1>5, <1>7, <1>8, <1>9, <1>10, <1>11, <1>12

\* OnDispatchEventCB begins and ends.
LEMMA DispatchStep ==
  ASSUME Orderly, ServerInv, OnDispatchEvent \/ BatchDone \/ StopTold
  PROVE  ServerInv'
<1> USE DEF ServerInv
<1>1. /\ UNCHANGED <<m_state, m_listener, open, m_retryTimer, once, fails, starts, session,
                     m_dispatchEvent, made, freed, delayed, conn, home, got, sent, call, alive>>
      /\ \/ /\ loop = "idle" /\ loop' = "batch" /\ active # {} /\ active' \subseteq active
            /\ batch' = m_pendingTasks /\ m_pendingTasks' = <<>>
         \/ /\ loop = "batch" /\ loop' = "idle" /\ batch = <<>>
            /\ UNCHANGED <<active, batch, m_pendingTasks>>
         \/ loop = "stopped" /\ loop' = "batch" /\ UNCHANGED <<active, batch, m_pendingTasks>>
  BY DEF OnDispatchEvent, BatchDone, StopTold, lifeVars, evVars, peerVars, callVars
<1>2. CallShapes' /\ Stages'
  BY <1>1, CallsStay
<1>3. Typed' /\ Events' /\ StartsOnce'
  <2>1. <<>> \in Seq(Tasks)
    BY EmptySeq
  <2>2. Typed'
    BY <1>1, <2>1 DEF Typed, TypeOK
  <2> QED BY <1>1, <2>2 DEF Events, StartsOnce
<1>4. loop = "idle" => batch = <<>>
  BY DEF LoopFits
<1>5. active # {} => m_state \in {"LISTENING", "STOPPING"} /\ loop # "stopping"
  BY DEF NothingLeft, Rests, Typed, TypeOK, States
<1>6. LoopFits' /\ NothingLeft'
  <2>1. LoopFits'
    BY <1>1, <1>4, <1>5 DEF LoopFits
  <2>2. Connected' = Connected /\ (active = {} => active' = {})
    BY <1>1 DEF Connected
  <2> QED BY <1>1, <1>5, <2>1, <2>2 DEF NothingLeft, Rests
<1>7. StopIsLast'
  <2>1. CASE batch' = m_pendingTasks /\ m_pendingTasks' = <<>> /\ active # {} /\ loop' = "batch"
    <3>1. \A i \in 1..Len(m_pendingTasks) : m_pendingTasks[i].type = "STOP" =>
             i = Len(m_pendingTasks) /\ m_state = "STOPPING"
      BY <1>5, <2>1 DEF StopIsLast
    <3>2. \A t \in Threads : Stops(t)' /\ call'[t].pc = "push" => NoStop(m_pendingTasks)
      BY <1>1, <1>5, <2>1 DEF StopIsLast, Stops, Idle, Stages
    <3> QED BY <1>1, <2>1, <3>1, <3>2, EmptySeq DEF StopIsLast, NoStop
  <2>2. CASE UNCHANGED <<batch, m_pendingTasks>> /\ loop' # "stopping"
    BY <1>1, <2>2 DEF StopIsLast, NoStop, Stops, Idle
  <2> QED BY <1>1, <2>1, <2>2
<1> QED BY <1>1, <1>2, <1>3, <1>6, <1>7 DEF Rests

\* The task at the head of the batch is taken.
LEMMA Taken ==
  ASSUME ServerInv, NEW type, Take(type)
  PROVE  /\ loop = "batch" /\ Head(batch) = batch[1] /\ Head(batch) \in Tasks /\ Head(batch).type = type
         /\ Len(batch) \in Nat \ {0} /\ batch' \in Seq(Tasks) /\ Len(batch') = Len(batch) - 1
         /\ \A i \in 1..Len(batch') : batch'[i] = batch[i + 1]
         /\ batch' = <<>> <=> Len(batch) = 1
         /\ m_state \in {"LISTENING", "STOPPING"}
<1>1. batch \in Seq(Tasks) /\ batch # <<>> /\ batch' = Tail(batch) /\ loop = "batch"
      /\ Head(batch).type = type
  BY DEF Take, ServerInv, Typed, TypeOK
<1>2. m_state \in {"LISTENING", "STOPPING"}
  BY <1>1 DEF ServerInv, LoopFits, Typed, TypeOK, States
<1> QED BY <1>1, <1>2, TailFacts

\* What is left of the batch after a task that was not the STOP task.
LEMMA BatchGoesOn ==
  ASSUME ServerInv, NEW type, Take(type), UNCHANGED <<loop, m_pendingTasks, m_state, call>>
  PROVE  StopIsLast' /\ LoopFits' /\ CallShapes' /\ Stages'
<1> USE DEF ServerInv
<1>1. CallShapes' /\ Stages'
  BY CallsStay
<1>2. \A i \in 1..Len(batch') : i + 1 \in 1..Len(batch) /\ batch'[i] = batch[i + 1]
  BY Taken
<1>3. StopIsLast'
  <2>1. \A i \in 1..Len(batch') : batch'[i].type = "STOP" =>
          i = Len(batch') /\ m_pendingTasks = <<>> /\ m_state = "STOPPING"
    BY <1>2, Taken DEF StopIsLast
  <2>2. NoStop(batch) => NoStop(batch)'
    BY <1>2 DEF NoStop
  <2>3. \A t \in Threads : Stops(t)' => Stops(t)
    BY DEF Stops, Idle
  <2> QED BY <2>1, <2>2, <2>3 DEF StopIsLast, NoStop
<1>4. LoopFits'
  BY Taken DEF LoopFits
<1> QED BY <1>1, <1>3, <1>4

LEMMA DoStopStep ==
  ASSUME Orderly, ServerInv, DoStop
  PROVE  ServerInv'
<1> USE DEF ServerInv
<1>1. /\ Take("STOP") /\ loop' = "stopping"
      /\ m_listener' = FALSE /\ open' = (open /\ ~m_listener) /\ m_retryTimer' = FALSE
      /\ conn' = [c \in Clients |-> IF c \in Connected THEN "gone" ELSE conn[c]]
      /\ m_dispatchEvent' = 0 /\ freed' = freed \cup ({m_dispatchEvent} \ {0})
      /\ active' = active \ {m_dispatchEvent}
      /\ UNCHANGED <<m_state, once, fails, starts, session, made, m_pendingTasks, delayed, home,
                     got, sent, call, alive>>
  BY DEF DoStop, callVars
<1>2. m_state = "STOPPING" /\ batch' = <<>> /\ m_pendingTasks = <<>>
  <2>1. 1 \in 1..Len(batch) /\ batch[1].type = "STOP"
    BY <1>1, Taken
  <2>2. Len(batch) = 1 /\ m_pendingTasks = <<>> /\ m_state = "STOPPING"
    BY <2>1 DEF StopIsLast
  <2> QED BY <1>1, <2>2, Taken
<1>3. \A t \in Threads : ~(Stops(t) /\ call[t].pc = "push")
  BY <1>1, Taken DEF StopIsLast, NoStop
<1>4. active' = {} /\ ~open' /\ Connected' = {}
  <2>1. active' = {}
    BY <1>1 DEF Events
  <2>2. ~open'
    BY <1>1 DEF NothingLeft
  <2>3. Connected' = {}
    BY <1>1 DEF Connected
  <2> QED BY <2>1, <2>2, <2>3
<1>5. Typed'
  <2>1. conn' \in [Clients -> {"new", "greeting", "online", "gone"}]
    BY <1>1 DEF Typed, TypeOK
  <2>2. freed' \subseteq 1..made /\ m_dispatchEvent' \in 0..made /\ active' \subseteq 1..made
    BY <1>1, <1>4 DEF Typed, TypeOK
  <2>3. {m_listener', open', m_retryTimer', alive'} \subseteq BOOLEAN
    BY <1>1, <1>4 DEF Typed, TypeOK
  <2>4. batch' \in Seq(Tasks)
    BY <1>2, EmptySeq
  <2> QED BY <1>1, <2>1, <2>2, <2>3, <2>4 DEF Typed, TypeOK
<1>6. CallShapes' /\ Stages'
  BY <1>1, CallsStay
<1>7. StopIsLast'
  BY <1>1, <1>2, <1>3, EmptySeq DEF StopIsLast, NoStop, Stops, Idle
<1>8. LoopFits' /\ StartsOnce'
  BY <1>1, <1>2 DEF LoopFits, StartsOnce
<1>9. NothingLeft'
  BY <1>1, <1>4 DEF NothingLeft
<1>10. Events'
  <2>1. 0 \notin freed'
    BY <1>1 DEF Typed, TypeOK
  <2>2. ASSUME NEW t \in Threads, call[t].pc = "activate" PROVE call[t].ev \in 1..made /\ call[t].ev \in freed'
    <3>1. call[t].ev \in 1..made /\ (call[t].ev = m_dispatchEvent \/ call[t].ev \in freed)
      BY <2>2 DEF Events
    <3>2. call[t].ev # 0
      BY <3>1 DEF Typed, TypeOK
    <3> QED BY <1>1, <3>1, <3>2
  <2> QED BY <1>1, <1>4, <2>1, <2>2 DEF Events
<1> QED BY <1>1, <1>2, <1>5, <1>6, <1>7, <1>8, <1>9, <1>10 DEF Rests

LEMMA StopDoneStep ==
  ASSUME Orderly, ServerInv, StopDone
  PROVE  ServerInv'
<1> USE DEF ServerInv
<1>1. /\ loop = "stopping" /\ loop' = "stopped" /\ m_state' = "STOPPED"
      /\ UNCHANGED <<m_listener, open, m_retryTimer, once, fails, starts, session, m_dispatchEvent,
                     made, freed, active, m_pendingTasks, batch, delayed, conn, home, got, sent,
                     call, alive>>
  BY DEF StopDone, evVars, peerVars, callVars
<1>2. m_state = "STOPPING" /\ batch = <<>> /\ m_pendingTasks = <<>>
  BY <1>1 DEF LoopFits
<1>3. \A t \in Threads : /\ Sends(t)' <=> Sends(t)
                         /\ Stops(t)' <=> Stops(t)
                         /\ ~Sends(t) /\ ~(Stops(t) /\ call[t].pc = "push")
  BY <1>1, <1>2 DEF CallShapes, StopIsLast, Sends, Stops, Idle
<1>4. Typed'
  BY <1>1 DEF Typed, TypeOK, States
<1>5. CallShapes'
  BY <1>1, <1>3 DEF CallShapes
<1>6. Stages'
  BY <1>1, <1>2, <1>3 DEF Stages, Rests
<1>7. StopIsLast'
  BY <1>1, <1>2, <1>3, EmptySeq DEF StopIsLast
<1>8. LoopFits' /\ StartsOnce'
  BY <1>1, <1>2 DEF LoopFits, StartsOnce
<1>9. NothingLeft'
  BY <1>1 DEF NothingLeft, Rests, Connected
<1>10. Events'
  BY <1>1 DEF Events
<1> QED BY <1>1, <1>4, <1>5, <1>6, <1>7, <1>8, <1>9, <1>10 DEF Rests

\* A message is delivered.
LEMMA DeliverTypes ==
  ASSUME TypeOK, NEW task \in Tasks, task.type = "SEND", Deliver(task)
  PROVE  got' \in [Clients -> Seq(1..MaxSends)]
<1>1. task.m \in 1..MaxSends
  BY TaskFacts
<1>2. ASSUME NEW c \in Clients PROVE got[c] \in Seq(1..MaxSends) /\ Append(got[c], task.m) \in Seq(1..MaxSends)
  <2>1. got[c] \in Seq(1..MaxSends)
    BY DEF TypeOK
  <2> QED BY <1>1, <2>1, AppendFacts
<1> QED BY <1>2 DEF Deliver

\* Sends and kicks are executed, connections come, greet and go.
LEMMA PeerStep ==
  ASSUME Orderly, ServerInv,
         \/ DoSend \/ DoKick
         \/ \E c \in Clients : OnAcceptConn(c) \/ Confirm(c) \/ Lose(c)
  PROVE  ServerInv'
<1> USE DEF ServerInv
<1>1. /\ UNCHANGED <<m_state, m_listener, open, m_retryTimer, once, fails, starts, session,
                     m_dispatchEvent, made, freed, active, m_pendingTasks, loop, sent, call, alive>>
      /\ \/ Take("SEND") \/ Take("KICK") \/ batch' = batch
  BY DEF DoSend, DoKick, OnAcceptConn, Confirm, Lose, lifeVars, evVars, taskVars, callVars
<1>2. /\ batch' \in Seq(Tasks) /\ delayed' \subseteq Tasks
      /\ \A task \in delayed' : task.type = "SEND" /\ task.late
  <2>1. /\ batch \in Seq(Tasks) /\ delayed \subseteq Tasks
        /\ \A task \in delayed : task.type = "SEND" /\ task.late
    BY DEF Typed, TypeOK
  <2>2. CASE DoSend
    BY <2>1, <2>2, Taken DEF DoSend
  <2>3. CASE ~DoSend
    BY <2>1, <2>3, Taken DEF DoKick, OnAcceptConn, Confirm, Lose, taskVars
  <2> QED BY <2>2, <2>3
<1>3. /\ conn' \in [Clients -> {"new", "greeting", "online", "gone"}] /\ home' \in [Clients -> Nat]
      /\ Connected = {} /\ ~open => Connected' = {}
  <2>1. /\ conn \in [Clients -> {"new", "greeting", "online", "gone"}]
        /\ home \in [Clients -> Nat] /\ session \in Nat
    BY DEF Typed, TypeOK
  <2>2. CASE DoSend
    BY <2>1, <2>2 DEF DoSend, Connected
  <2>3. CASE DoKick
    <3>1. home' = home /\ (conn' = conn \/ \E c \in Connected : conn' = [conn EXCEPT ![c] = "gone"])
      BY <2>3 DEF DoKick
    <3> QED BY <2>1, <3>1 DEF Connected
  <2>4. ASSUME NEW c \in Clients, OnAcceptConn(c) \/ Confirm(c) \/ Lose(c)
        PROVE  /\ conn' \in [Clients -> {"new", "greeting", "online", "gone"}]
               /\ home' \in [Clients -> Nat] /\ (Connected = {} /\ ~open => Connected' = {})
    <3>1. CASE OnAcceptConn(c)
      BY <2>1, <3>1 DEF OnAcceptConn
    <3>2. CASE Confirm(c)
      BY <2>1, <3>2 DEF Confirm, Connected
    <3>3. CASE Lose(c)
      BY <2>1, <3>3 DEF Lose, Connected
    <3> QED BY <2>4, <3>1, <3>2, <3>3
  <2> QED BY <2>2, <2>3, <2>4
<1>4. got' \in [Clients -> Seq(1..MaxSends)]
  <2>1. got \in [Clients -> Seq(1..MaxSends)]
    BY DEF Typed, TypeOK
  <2>2. CASE DoSend /\ Deliver(Head(batch))
    BY <2>2, Taken, DeliverTypes DEF DoSend, Typed
  <2>3. CASE got' = got
    BY <2>1, <2>3
  <2> QED BY <2>2, <2>3 DEF DoSend, DoKick, OnAcceptConn, Confirm, Lose
<1>5. Typed'
  BY <1>1, <1>2, <1>3, <1>4 DEF Typed, TypeOK
<1>6. StopIsLast' /\ LoopFits' /\ CallShapes' /\ Stages'
  <2>1. CASE batch' = batch
    <3>1. CallShapes' /\ Stages'
      BY <1>1, CallsStay
    <3> QED BY <1>1, <2>1, <3>1 DEF StopIsLast, LoopFits, NoStop, Stops, Idle
  <2> QED BY <1>1, <2>1, BatchGoesOn
<1>7. StartsOnce' /\ Events'
  BY <1>1 DEF StartsOnce, Events
<1>8. NothingLeft'
  BY <1>1, <1>3 DEF NothingLeft, Rests
<1> QED BY <1>1, <1>5, <1>6, <1>7, <1>8 DEF Rests

LEMMA DelayedStep ==
  ASSUME Orderly, ServerInv, OnDelayedSend
  PROVE  ServerInv'
<1> USE DEF ServerInv
<1>1. /\ UNCHANGED <<m_state, m_listener, open, m_retryTimer, once, fails, starts, session,
                     m_dispatchEvent, made, freed, active, m_pendingTasks, loop, batch, conn, home,
                     sent, call, alive>>
      /\ \E task \in delayed : delayed' = delayed \ {task} /\ Deliver(task)
  BY DEF OnDelayedSend, lifeVars, evVars, callVars
<1>2. got' \in [Clients -> Seq(1..MaxSends)]
  BY <1>1, DeliverTypes DEF Typed, TypeOK
<1>3. Typed'
  BY <1>1, <1>2 DEF Typed, TypeOK
<1>4. CallShapes' /\ Stages'
  BY <1>1, CallsStay
<1>5. StopIsLast' /\ LoopFits' /\ StartsOnce' /\ Events'
  BY <1>1 DEF StopIsLast, LoopFits, StartsOnce, Events, NoStop, Stops, Idle
<1>6. NothingLeft'
  BY <1>1 DEF NothingLeft, Rests, Connected
<1> QED BY <1>1, <1>3, <1>4, <1>5, <1>6 DEF Rests

LEMMA ServerInvStep == Orderly /\ ServerInv /\ [Next]_vars => ServerInv'
<1> SUFFICES ASSUME Orderly, ServerInv, [Next]_vars PROVE ServerInv'
  OBVIOUS
<1>1. ASSUME NEW o \in Owners, Start(o) \/ \E kind \in {"Stop", "AsyncStop", "dtor"} : Stop(o, kind)
      PROVE  ServerInv'
  BY <1>1, StartStep, StopBegins
<1>2. ASSUME NEW s \in Senders, NEW c \in Clients, KickClient(s, c) PROVE ServerInv'
  <2>1. KickTask(c) \in Tasks /\ KickTask(c).type = "KICK" /\ sent' \in Seq(Messages)
    BY <1>2, TaskFacts DEF KickClient, ServerInv, Typed
  <2> QED BY <1>2, <2>1, SendBegins DEF KickClient
<1>3. ASSUME NEW s \in Senders, NEW to \in Clients \cup {Everyone}, NEW late \in BOOLEAN,
             Send(s, to, late)
      PROVE  ServerInv'
  <2> DEFINE task == SendTask(Len(sent) + 1, to, late)
  <2>1. Len(sent) + 1 \in 1..MaxSends
    BY <1>3, ServerAssumption, LenProperties DEF Send, ServerInv, Typed
  <2>2. task \in Tasks /\ task.type = "SEND"
    BY <2>1, TaskFacts
  <2>3. call' = [call EXCEPT ![s] = [kind |-> "Send", pc |-> "push", ev |-> 0, task |-> task]]
    BY <1>3 DEF Send
  <2>4. sent' \in Seq(Messages)
    <3>1. [by |-> s, session |-> session, late |-> late] \in Messages /\ sent \in Seq(Messages)
      BY DEF ServerInv, Typed, TypeOK, Messages, Threads
    <3> QED BY <1>3, <3>1, AppendFacts DEF Send
  <2> HIDE DEF task
  <2> QED BY <1>3, <2>2, <2>3, <2>4, SendBegins DEF Send
<1>4. ASSUME NEW t \in Threads, CallStep(t) PROVE ServerInv'
  BY <1>4, StopStep, PushStep, WakeStep DEF CallStep
<1>5. CASE LoopStep \/ OnDelayedSend
  BY <1>5, DoStartStep, DispatchStep, DoStopStep, StopDoneStep, PeerStep, DelayedStep DEF LoopStep
<1>6. ASSUME NEW c \in Clients, OnAcceptConn(c) \/ Confirm(c) \/ Lose(c) PROVE ServerInv'
  BY <1>6, PeerStep
<1>7. CASE UNCHANGED vars
  <2>1. UNCHANGED <<m_state, m_listener, open, m_retryTimer, once, fails, starts, session,
                    m_dispatchEvent, made, freed, active, m_pendingTasks, loop, batch, delayed,
                    conn, home, got, sent, call, alive>>
    BY <1>7 DEF vars, lifeVars, evVars, taskVars, peerVars, callVars
  <2>2. CallShapes' /\ Stages'
    BY <2>1, CallsStay DEF ServerInv
  <2>3. Typed' /\ StopIsLast' /\ LoopFits' /\ StartsOnce' /\ NothingLeft' /\ Events'
    BY <2>1 DEF ServerInv, Typed, TypeOK, StopIsLast, LoopFits, StartsOnce, NothingLeft, Events,
                NoStop, Stops, Idle, Rests, Connected
  <2> QED BY <2>1, <2>2, <2>3 DEF ServerInv, Rests
<1> QED BY <1>1, <1>2, <1>3, <1>4, <1>5, <1>6, <1>7 DEF Next

\* A server that has stopped has no listener, connection, event or timer of its own, nor
\* does the loop call a destroyed one, with one thread that starts and stops it (Start,
\* AsyncStop, Stop, DoStart, DoStop).
THEOREM StoppedHasNothing ==
  ASSUME Orderly
  PROVE  Spec => []StoppedIsEmpty
<1>1. ServerInv => StoppedIsEmpty
  BY DEF ServerInv, StoppedIsEmpty, Typed, NothingLeft, Rests, StartsOnce
<1>2. ServerInv /\ [Next]_vars => ServerInv'
  BY ServerInvStep
<1> QED BY <1>1, <1>2, ServerInitially, PTL DEF Spec

-----------------------------------------------------------------------------
(***************************************************************************)
(* The order of the messages: what was delivered, to anybody, is before    *)
(* what the loop took, that before what is pending, and that before what a *)
(* call is about to queue.                                                 *)
(***************************************************************************)
Before(a, b) == sent[a].by = sent[b].by /\ ~sent[a].late /\ ~sent[b].late => a < b
AllBefore(A, B) == \A a \in A, b \in B : Before(a, b)

MsgsIn(s) == {s[i].m : i \in {j \in 1..Len(s) : s[j].type = "SEND"}}
Inner(s)  == \A i, j \in 1..Len(s) :
               i < j /\ s[i].type = "SEND" /\ s[j].type = "SEND" => Before(s[i].m, s[j].m)

Received(c) == {got[c][i] : i \in 1..Len(got[c])}
Delivered   == UNION {Received(c) : c \in Clients}
Waiting     == MsgsIn(batch) \cup MsgsIn(m_pendingTasks)
Pushing(t)  == Sends(t) /\ call[t].pc = "push" /\ call[t].task.type = "SEND"

\* A task that sends is one of this session's, unless it is delayed.
Due(task) ==
  task.type = "SEND" =>
    /\ task.m \in 1..Len(sent) /\ (task.late <=> sent[task.m].late)
    /\ task.late \/ sent[task.m].session = session

AllDue ==
  /\ \A i \in 1..Len(batch) : Due(batch[i])
  /\ \A i \in 1..Len(m_pendingTasks) : Due(m_pendingTasks[i])
  /\ \A task \in delayed : Due(task)

QueueOrder ==
  Inner(batch) /\ Inner(m_pendingTasks) /\ AllBefore(MsgsIn(batch), MsgsIn(m_pendingTasks))

PushersLast ==
  \A t \in Threads : Pushing(t) =>
    /\ Due(call[t].task) /\ sent[call[t].task.m].by = t
    /\ AllBefore(Delivered \cup Waiting, {call[t].task.m})

\* A connection is of the session it was accepted in, and new ones got nothing.
Homes ==
  \A c \in Clients : /\ c \in Connected => home[c] = session
                     /\ conn[c] = "new" => got[c] = <<>>

\* The inductive invariant of the order, given ServerInv.
OrderInv ==
  /\ SendsInOrder /\ Homes /\ AllDue /\ QueueOrder /\ PushersLast
  /\ Delivered \subseteq 1..Len(sent) /\ AllBefore(Delivered, Waiting)

-----------------------------------------------------------------------------
LEMMA OrderInitially == Init => OrderInv
<1> SUFFICES ASSUME Init PROVE OrderInv
  OBVIOUS
<1> USE DEF Init
<1>1. Len(<<>>) = 0 /\ \A c \in Clients : got[c] = <<>>
  BY EmptySeq
<1>2. Delivered = {} /\ Waiting = {} /\ MsgsIn(batch) = {}
  BY <1>1 DEF Delivered, Received, Waiting, MsgsIn
<1>3. \A t \in Threads : ~Pushing(t)
  BY DEF Pushing, Sends, Idle, NoCall
<1>4. SendsInOrder
  BY <1>1 DEF SendsInOrder, InSenderOrder, SendStaysInSession
<1>5. AllDue /\ QueueOrder
  BY <1>1, <1>2 DEF AllDue, QueueOrder, Inner, AllBefore
<1>6. Homes
  BY DEF Homes, Connected
<1> QED BY <1>2, <1>3, <1>4, <1>5, <1>6 DEF OrderInv, PushersLast, AllBefore

\* Nothing is sent or delivered, the queues give up some entries or stay, and nobody
\* who was not is about to queue a message.
LEMMA OrderStays ==
  ASSUME OrderInv, UNCHANGED <<got, sent, session>>, Homes', SendStaysInSession', QueueOrder', AllDue',
         Waiting' \subseteq Waiting,
         \A t \in Threads : Pushing(t)' => Pushing(t) /\ call'[t].task = call[t].task
  PROVE  OrderInv'
<1> USE DEF OrderInv
<1>1. \A a, b : Before(a, b) => Before(a, b)'
  BY DEF Before
<1>2. Delivered' = Delivered
  BY DEF Delivered, Received
<1>3. InSenderOrder'
  BY DEF SendsInOrder, InSenderOrder
<1>4. AllBefore(Delivered, Waiting)'
  BY <1>1, <1>2 DEF AllBefore
<1>5. PushersLast'
  <2>1. ASSUME NEW t \in Threads, Pushing(t)'
        PROVE  /\ Due(call[t].task)' /\ sent'[call'[t].task.m].by = t
               /\ AllBefore(Delivered \cup Waiting, {call[t].task.m})'
    <3>1. /\ Pushing(t) /\ call'[t].task = call[t].task
      BY <2>1
    <3>2. /\ Due(call[t].task) /\ sent[call[t].task.m].by = t
          /\ AllBefore(Delivered \cup Waiting, {call[t].task.m})
      BY <3>1 DEF PushersLast
    <3>3. Due(call[t].task)'
      BY <3>1, <3>2 DEF Due
    <3>4. AllBefore(Delivered \cup Waiting, {call[t].task.m})'
      BY <1>1, <1>2, <3>1, <3>2 DEF AllBefore
    <3> QED BY <3>1, <3>2, <3>3, <3>4
  <2> QED BY <2>1 DEF PushersLast
<1> QED BY <1>2, <1>3, <1>4, <1>5 DEF SendsInOrder

\* Neither messages nor connections are touched.
LEMMA OrderUntouched ==
  ASSUME OrderInv, UNCHANGED <<got, sent, session, home, conn, batch, m_pendingTasks, delayed>>,
         \A t \in Threads : Pushing(t)' => Pushing(t) /\ call'[t].task = call[t].task
  PROVE  OrderInv'
<1> USE DEF OrderInv
<1>1. Homes' /\ SendStaysInSession'
  BY DEF Homes, Connected, SendsInOrder, SendStaysInSession
<1>2. QueueOrder' /\ AllDue'
  BY DEF QueueOrder, Inner, AllBefore, Before, MsgsIn, AllDue, Due
<1>3. Waiting' = Waiting
  BY DEF Waiting, MsgsIn
<1> QED BY <1>1, <1>2, <1>3, OrderStays

\* Calls that are not about to queue a message, and the loop between two callbacks.
LEMMA OrderOutside ==
  ASSUME Orderly, ServerInv, OrderInv,
         \/ \E o \in Owners : Start(o) \/ \E kind \in {"Stop", "AsyncStop", "dtor"} : Stop(o, kind)
         \/ \E t \in Threads : \/ StopListening(t) \/ StopStarting(t) \/ StopLooks(t)
                               \/ StopReturns(t) \/ Wake(t) \/ Activate(t)
         \/ \E s \in Senders, c \in Clients : KickClient(s, c)
         \/ BatchDone \/ StopDone \/ StopTold
  PROVE  OrderInv'
<1>1. UNCHANGED <<got, sent, session, home, conn, batch, m_pendingTasks, delayed>>
  BY DEF Start, Stop, StopListening, StopStarting, StopLooks, StopReturns, Wake, Activate,
         KickClient, BatchDone, StopDone, StopTold, lifeVars, taskVars, peerVars, callVars
<1>2. ASSUME NEW t \in Threads, NEW c \in {NoCall} \cup Busy, Only(t, c),
             \/ c = NoCall \/ c.pc # "push" \/ c.kind \notin {"Send", "Kick"} \/ c.task.type # "SEND",
             NEW y \in Threads, Pushing(y)'
      PROVE  Pushing(y) /\ call'[y].task = call[y].task
  <2>1. y # t
    BY <1>2 DEF Only, Pushing, Sends, Idle, NoCall
  <2> QED BY <1>2, <2>1 DEF Only, Pushing, Sends, Idle
<1> DEFINE Fewer == \A y \in Threads : Pushing(y)' => Pushing(y) /\ call'[y].task = call[y].task
<1>3. CASE call' = call
  <2>1. Fewer
    BY <1>3 DEF Pushing, Sends, Idle
  <2> QED BY <1>1, <2>1, OrderUntouched
<1>4. ASSUME NEW o \in Owners, NEW kind \in {"Stop", "AsyncStop", "dtor"}, Stop(o, kind)
      PROVE  OrderInv'
  <2> DEFINE c == [kind |-> kind, pc |-> "cas1", task |-> StopTask, ev |-> 0]
  <2>1. c \in Busy /\ c.pc = "cas1"
    BY TaskFacts DEF Busy, Places
  <2>2. call' = [call EXCEPT ![o] = c]
    BY <1>4 DEF Stop
  <2> HIDE DEF c
  <2>3. Only(o, c)
    BY <2>1, <2>2, Calling DEF ServerInv, Threads
  <2>4. Fewer
    BY <1>2, <2>1, <2>3 DEF Threads
  <2> QED BY <1>1, <2>4, OrderUntouched
<1>5. ASSUME NEW t \in Threads, StopListening(t) \/ StopStarting(t) \/ StopLooks(t) \/ StopReturns(t)
      PROVE  OrderInv'
  <2>1. Stops(t)
    <3>1. call[t].pc \in {"cas1", "cas2", "look1", "look2", "look3", "wait"}
      BY <1>5 DEF StopListening, StopStarting, StopLooks, StopReturns, Looks
    <3>2. ~Sends(t)
      BY <3>1 DEF ServerInv, CallShapes
    <3> QED BY <3>1, <3>2, ACall DEF ServerInv
  <2>2. \/ \E p \in Places : Goto(t, p)
        \/ Leave(t) \/ call' = [call EXCEPT ![t] = NoCall]
    BY <1>5 DEF StopListening, StopStarting, StopLooks, StopReturns, After, Looks, Places
  <2>3. \A y \in Threads : ~Sends(y)'
    <3>1. ASSUME NEW p \in Places, Goto(t, p) PROVE \A y \in Threads : ~Sends(y)'
      BY <2>1, <3>1, StopGoes DEF Sends, Stops, Idle, NoCall
    <3>2. CASE Leave(t) \/ call' = [call EXCEPT ![t] = NoCall]
      BY <2>1, <3>2, StopLeaves DEF Sends, Stops, Idle, NoCall
    <3> QED BY <2>2, <3>1, <3>2
  <2>4. Fewer
    BY <2>3 DEF Pushing
  <2> QED BY <1>1, <2>4, OrderUntouched
<1>6. ASSUME NEW t \in Threads, Wake(t) \/ Activate(t) PROVE OrderInv'
  <2>1. ~Idle(t) /\ call[t] \in Busy /\ Typed
    BY <1>6, ACall DEF ServerInv, Wake, Activate, Idle
  <2>2. CASE Leave(t)
    BY <1>1, <1>2, <2>1, <2>2, Leaves, OrderUntouched
  <2>3. CASE call' = [call EXCEPT ![t] = [@ EXCEPT !.pc = "activate", !.ev = m_dispatchEvent]]
    <3> DEFINE c == [call[t] EXCEPT !.pc = "activate", !.ev = m_dispatchEvent]
    <3>0. m_dispatchEvent \in Nat
      BY <2>1 DEF Typed, TypeOK
    <3>1. c \in Busy /\ c.pc = "activate"
      BY <2>1, <3>0 DEF Busy, Places
    <3>2. call' = [call EXCEPT ![t] = c]
      BY <2>3
    <3> HIDE DEF c
    <3>3. Only(t, c)
      BY <2>1, <3>1, <3>2, Calling
    <3>4. Fewer
      BY <1>2, <3>1, <3>3
    <3> QED BY <1>1, <3>4, OrderUntouched
  <2> QED BY <1>6, <2>2, <2>3 DEF Wake, Activate
<1>7. ASSUME NEW t \in Senders, NEW k \in Clients, KickClient(t, k) PROVE OrderInv'
  <2> DEFINE c == [kind |-> "Kick", pc |-> "push", ev |-> 0, task |-> KickTask(k)]
  <2>1. c \in Busy /\ c.task.type = "KICK" /\ t \in Threads
    BY TaskFacts DEF Busy, Places, Threads
  <2>2. call' = [call EXCEPT ![t] = c]
    BY <1>7 DEF KickClient
  <2> HIDE DEF c
  <2>3. Only(t, c)
    BY <2>1, <2>2, Calling DEF ServerInv
  <2>4. Fewer
    BY <1>2, <2>1, <2>3
  <2> QED BY <1>1, <2>4, OrderUntouched
<1>8. CASE (\E o \in Owners : Start(o)) \/ BatchDone \/ StopDone \/ StopTold
  BY <1>3, <1>8 DEF Start, BatchDone, StopDone, StopTold, callVars
<1> QED BY <1>4, <1>5, <1>6, <1>7, <1>8

\* What waits or was delivered was sent.
LEMMA WaitingSent ==
  ASSUME OrderInv
  PROVE  Delivered \cup Waiting \subseteq 1..Len(sent)
<1>1. MsgsIn(batch) \subseteq 1..Len(sent) /\ MsgsIn(m_pendingTasks) \subseteq 1..Len(sent)
  BY DEF OrderInv, AllDue, Due, MsgsIn
<1> QED BY <1>1 DEF OrderInv, Waiting

\* A send gets the next number: it is after everything.
LEMMA SendOrder ==
  ASSUME Orderly, ServerInv, OrderInv, NEW s \in Senders, NEW to \in Clients \cup {Everyone},
         NEW late \in BOOLEAN, Send(s, to, late)
  PROVE  OrderInv'
<1> USE DEF OrderInv
<1> DEFINE n == Len(sent) + 1
           r == [by |-> s, session |-> session, late |-> late]
           c == [kind |-> "Send", pc |-> "push", ev |-> 0, task |-> SendTask(n, to, late)]
<1>1. UNCHANGED <<got, session, home, conn, batch, m_pendingTasks, delayed>>
  BY DEF Send, lifeVars, taskVars, peerVars
<1>2. /\ sent \in Seq(Messages) /\ r \in Messages /\ sent' = Append(sent, r) /\ session \in Nat
      /\ s \in Threads
  BY DEF Send, ServerInv, Typed, TypeOK, Messages, Threads
<1>3. /\ Len(sent) \in Nat /\ Len(sent') = n /\ sent'[n] = r
      /\ \A i \in 1..Len(sent) : sent'[i] = sent[i]
  BY <1>2, AppendFacts
<1>4. n \in 1..MaxSends
  BY <1>3, ServerAssumption DEF Send
<1>5. /\ c \in Busy /\ c.pc = "push" /\ c.task = SendTask(n, to, late) /\ c.task.type = "SEND"
      /\ c.task.m = n /\ c.task.late = late
  BY <1>4, TaskFacts DEF Busy, Places
<1>6. call' = [call EXCEPT ![s] = c] /\ Idle(s)
  BY DEF Send
<1>7. r.by = s /\ r.late = late /\ r.session = session
  OBVIOUS
<1> HIDE DEF c, r
<1>8. Only(s, c)
  BY <1>2, <1>5, <1>6, Calling DEF ServerInv
<1>9. ASSUME NEW task \in Tasks, Due(task) PROVE Due(task)'
  BY <1>1, <1>3, <1>9 DEF Due
<1>10. \A a, b \in 1..Len(sent) : Before(a, b) => Before(a, b)'
  BY <1>3 DEF Before
<1>11. Delivered' = Delivered /\ Waiting' = Waiting /\ MsgsIn(batch)' = MsgsIn(batch)
       /\ MsgsIn(m_pendingTasks)' = MsgsIn(m_pendingTasks)
  BY <1>1 DEF Delivered, Received, Waiting, MsgsIn
<1>12. Delivered \cup Waiting \subseteq 1..Len(sent)
  BY WaitingSent
<1>13. SendsInOrder'
  <2>1. \A k \in Clients : \A i \in 1..Len(got[k]) : got[k][i] \in 1..Len(sent)
    BY DEF Delivered, Received
  <2>2. InSenderOrder'
    <3>1. \A k \in Clients : \A i, j \in 1..Len(got[k]) : i < j => Before(got[k][i], got[k][j])
      BY DEF SendsInOrder, InSenderOrder, Before
    <3>2. \A k \in Clients : \A i, j \in 1..Len(got[k]) : i < j => Before(got[k][i], got[k][j])'
      BY <1>1, <1>10, <2>1, <3>1
    <3> QED BY <1>1, <3>2 DEF InSenderOrder, Before
  <2>3. SendStaysInSession'
    BY <1>1, <1>3, <2>1 DEF SendsInOrder, SendStaysInSession
  <2> QED BY <2>2, <2>3 DEF SendsInOrder
<1>14. Homes'
  BY <1>1 DEF Homes, Connected
<1>15. AllDue'
  <2>1. /\ \A i \in 1..Len(batch) : batch[i] \in Tasks
        /\ \A i \in 1..Len(m_pendingTasks) : m_pendingTasks[i] \in Tasks
        /\ delayed \subseteq Tasks
    BY DEF ServerInv, Typed, TypeOK
  <2> QED BY <1>1, <1>9, <2>1 DEF AllDue
<1>16. QueueOrder'
  <2>1. ASSUME NEW q, Inner(q), MsgsIn(q) \subseteq 1..Len(sent) PROVE Inner(q)'
    BY <1>10, <2>1 DEF Inner, MsgsIn
  <2>2. MsgsIn(batch) \subseteq 1..Len(sent) /\ MsgsIn(m_pendingTasks) \subseteq 1..Len(sent)
    BY <1>12 DEF Waiting
  <2>3. Inner(batch)' /\ Inner(m_pendingTasks)'
    BY <1>1, <2>1, <2>2 DEF QueueOrder
  <2>4. AllBefore(MsgsIn(batch), MsgsIn(m_pendingTasks))'
    BY <1>10, <1>11, <2>2 DEF QueueOrder, AllBefore
  <2> QED BY <2>3, <2>4 DEF QueueOrder
<1>17. (Delivered \subseteq 1..Len(sent))' /\ AllBefore(Delivered, Waiting)'
  <2>1. AllBefore(Delivered, Waiting)'
    BY <1>10, <1>11, <1>12 DEF AllBefore
  <2> QED BY <1>3, <1>11, <1>12, <2>1
<1>18. ASSUME NEW t \in Threads, Pushing(t)'
       PROVE  /\ Due(call[t].task)' /\ sent'[call'[t].task.m].by = t
              /\ AllBefore(Delivered \cup Waiting, {call[t].task.m})'
  <2>1. CASE t = s
    <3>1. call'[t] = c
      BY <1>8, <2>1 DEF Only
    <3>2. Due(call[t].task)' /\ sent'[call'[t].task.m].by = t
      BY <1>1, <1>3, <1>5, <1>7, <2>1, <3>1 DEF Due
    <3>3. \A a \in Delivered \cup Waiting : a < n
      BY <1>3, <1>12
    <3>4. AllBefore(Delivered \cup Waiting, {call[t].task.m})'
      BY <1>5, <1>11, <3>1, <3>3 DEF AllBefore, Before
    <3> QED BY <3>2, <3>4
  <2>2. CASE t # s
    <3>1. call'[t] = call[t] /\ Pushing(t)
      BY <1>8, <1>18, <2>2 DEF Only, Pushing, Sends, Idle
    <3>2. /\ Due(call[t].task) /\ sent[call[t].task.m].by = t
          /\ AllBefore(Delivered \cup Waiting, {call[t].task.m})
          /\ call[t].task.type = "SEND"
      BY <3>1 DEF PushersLast, Pushing
    <3>3. call[t].task.m \in 1..Len(sent)
      BY <3>2 DEF Due
    <3>4. Due(call[t].task)'
      BY <1>1, <1>3, <3>1, <3>2, <3>3 DEF Due
    <3>5. AllBefore(Delivered \cup Waiting, {call[t].task.m})'
      BY <1>10, <1>11, <1>12, <3>1, <3>2, <3>3 DEF AllBefore
    <3> QED BY <1>3, <3>1, <3>2, <3>3, <3>4, <3>5
  <2> QED BY <2>1, <2>2
<1>19. PushersLast'
  BY <1>18 DEF PushersLast
<1> QED BY <1>13, <1>14, <1>15, <1>16, <1>17, <1>19

\* A task is appended.
LEMMA AppendMsgs ==
  ASSUME NEW s \in Seq(Tasks), NEW e \in Tasks
  PROVE  /\ MsgsIn(Append(s, e)) = MsgsIn(s) \cup (IF e.type = "SEND" THEN {e.m} ELSE {})
         /\ Inner(s) /\ (e.type = "SEND" => AllBefore(MsgsIn(s), {e.m})) => Inner(Append(s, e))
<1> DEFINE p == Append(s, e)
<1>1. /\ Len(p) = Len(s) + 1 /\ Len(s) \in Nat /\ p[Len(s) + 1] = e
      /\ \A i \in 1..Len(s) : p[i] = s[i]
  BY AppendFacts
<1>2. 1..Len(p) = 1..Len(s) \cup {Len(s) + 1}
  BY <1>1
<1> HIDE DEF p
<1>3. MsgsIn(p) = MsgsIn(s) \cup (IF e.type = "SEND" THEN {e.m} ELSE {})
  <2>1. \A i \in 1..Len(s) : i \in 1..Len(p) /\ p[i] = s[i]
    BY <1>1, <1>2
  <2>2. MsgsIn(s) \subseteq MsgsIn(p)
    BY <2>1 DEF MsgsIn
  <2>3. e.type = "SEND" => e.m \in MsgsIn(p)
    BY <1>1, <1>2 DEF MsgsIn
  <2>4. \A m \in MsgsIn(p) : m \in MsgsIn(s) \/ (e.type = "SEND" /\ m = e.m)
    BY <1>1, <1>2 DEF MsgsIn
  <2> QED BY <2>2, <2>3, <2>4
<1>4. ASSUME Inner(s), e.type = "SEND" => AllBefore(MsgsIn(s), {e.m})
      PROVE  Inner(p)
  <2> SUFFICES ASSUME NEW i \in 1..Len(p), NEW j \in 1..Len(p),
                      i < j, p[i].type = "SEND", p[j].type = "SEND"
               PROVE  Before(p[i].m, p[j].m)
    BY DEF Inner
  <2>1. i \in 1..Len(s) /\ p[i] = s[i]
    BY <1>1, <1>2
  <2>2. CASE j \in 1..Len(s)
    BY <1>1, <1>4, <2>1, <2>2 DEF Inner
  <2>3. CASE j = Len(s) + 1
    <3>1. p[j] = e /\ s[i].m \in MsgsIn(s)
      BY <1>1, <2>1, <2>3 DEF MsgsIn
    <3> QED BY <1>4, <2>1, <3>1 DEF AllBefore
  <2> QED BY <1>2, <2>2, <2>3
<1> QED BY <1>3, <1>4 DEF p

\* A call queues its task: a message is after those of its sender, and the others that
\* are about to queue one are other senders.
LEMMA PushOrder ==
  ASSUME Orderly, ServerInv, OrderInv, NEW t \in Threads, Push(t)
  PROVE  OrderInv'
<1> USE DEF OrderInv
<1> DEFINE e == call[t].task
<1>1. UNCHANGED <<got, session, home, conn, batch, sent, delayed>>
      /\ m_pendingTasks' = Append(m_pendingTasks, e) /\ Goto(t, "wake") /\ call[t].pc = "push"
  BY DEF Push, lifeVars, peerVars
<1>2. /\ ~Idle(t) /\ call[t] \in Busy /\ (Stops(t) \/ Sends(t)) /\ Typed
      /\ m_pendingTasks \in Seq(Tasks)
  BY <1>1, ACall DEF ServerInv, Idle, Typed, TypeOK
<1>3. e \in Tasks
  BY <1>2 DEF Busy
<1>4. e.type = "SEND" => Pushing(t)
  <2>1. Stops(t) => e.type = "STOP"
    BY DEF ServerInv, CallShapes, StopTask
  <2> QED BY <1>1, <1>2, <2>1 DEF Pushing
<1>5. PICK c \in Busy : Only(t, c) /\ c.pc = "wake"
  BY <1>1, <1>2, Goes DEF Places
<1>6. ASSUME NEW y \in Threads, Pushing(y)'
      PROVE  y # t /\ Pushing(y) /\ call'[y].task = call[y].task
  <2>1. y # t
    BY <1>5, <1>6 DEF Only, Pushing
  <2> QED BY <1>5, <1>6, <2>1 DEF Only, Pushing, Sends, Idle
<1>7. e.type = "SEND" =>
        Due(e) /\ sent[e.m].by = t /\ AllBefore(Delivered \cup Waiting, {e.m})
  BY <1>4 DEF PushersLast
<1>8. Due(e)
  BY <1>7 DEF Due
<1>9. /\ MsgsIn(m_pendingTasks') = MsgsIn(m_pendingTasks) \cup (IF e.type = "SEND" THEN {e.m} ELSE {})
      /\ Inner(m_pendingTasks')
  <2>1. e.type = "SEND" => AllBefore(MsgsIn(m_pendingTasks), {e.m})
    BY <1>7 DEF AllBefore, Waiting
  <2> QED BY <1>1, <1>2, <1>3, <2>1, AppendMsgs DEF QueueOrder
<1> HIDE DEF e
<1>10. \A a, b : Before(a, b) => Before(a, b)'
  BY <1>1 DEF Before
<1>11. /\ Delivered' = Delivered /\ MsgsIn(batch)' = MsgsIn(batch)
       /\ Waiting' = Waiting \cup (IF e.type = "SEND" THEN {e.m} ELSE {})
  <2>1. Delivered' = Delivered /\ MsgsIn(batch)' = MsgsIn(batch)
    BY <1>1 DEF Delivered, Received, MsgsIn
  <2>2. Waiting' = MsgsIn(batch)' \cup MsgsIn(m_pendingTasks')
    BY DEF Waiting, MsgsIn
  <2> QED BY <1>9, <2>1, <2>2 DEF Waiting
<1>12. SendsInOrder' /\ Homes'
  <2>1. SendsInOrder'
    BY <1>1 DEF SendsInOrder, InSenderOrder, SendStaysInSession
  <2>2. Homes'
    BY <1>1 DEF Homes, Connected
  <2> QED BY <2>1, <2>2
<1>13. AllDue'
  <2>1. ASSUME NEW i \in 1..Len(m_pendingTasks') PROVE Due(m_pendingTasks'[i])
    BY <1>1, <1>2, <1>3, <1>8, AppendFacts DEF AllDue
  <2> QED BY <1>1, <2>1 DEF AllDue, Due
<1>14. QueueOrder'
  <2>1. Inner(batch)' /\ Inner(m_pendingTasks)'
    BY <1>1, <1>9 DEF QueueOrder, Inner, Before
  <2>2. AllBefore(MsgsIn(batch), MsgsIn(m_pendingTasks'))
    BY <1>7, <1>9 DEF QueueOrder, AllBefore, Waiting
  <2>3. AllBefore(MsgsIn(batch), MsgsIn(m_pendingTasks))'
    BY <1>10, <1>11, <2>2 DEF AllBefore, MsgsIn
  <2> QED BY <2>1, <2>3 DEF QueueOrder
<1>15. AllBefore(Delivered, Waiting)'
  BY <1>7, <1>10, <1>11 DEF AllBefore
<1>16. ASSUME NEW y \in Threads, Pushing(y)'
       PROVE  /\ Due(call[y].task)' /\ sent'[call'[y].task.m].by = y
              /\ AllBefore(Delivered \cup Waiting, {call[y].task.m})'
  <2>1. y # t /\ Pushing(y) /\ call'[y].task = call[y].task
    BY <1>6, <1>16
  <2>2. /\ Due(call[y].task) /\ sent[call[y].task.m].by = y
        /\ AllBefore(Delivered \cup Waiting, {call[y].task.m})
    BY <2>1 DEF PushersLast
  <2>3. e.type = "SEND" => Before(e.m, call[y].task.m)
    BY <1>7, <2>1, <2>2 DEF Before
  <2>4. Due(call[y].task)'
    BY <1>1, <2>1, <2>2 DEF Due
  <2>5. AllBefore(Delivered \cup Waiting, {call[y].task.m})'
    BY <1>10, <1>11, <2>1, <2>2, <2>3 DEF AllBefore
  <2> QED BY <1>1, <2>1, <2>2, <2>4, <2>5
<1>17. PushersLast'
  BY <1>16 DEF PushersLast
<1> QED BY <1>1, <1>11, <1>12, <1>13, <1>14, <1>15, <1>17

\* While it starts nothing waits, nobody is connected and no call is open.
LEMMA DoStartOrder ==
  ASSUME Orderly, ServerInv, OrderInv, OnceStarts \/ RetryStarts
  PROVE  OrderInv'
<1> USE DEF OrderInv
<1>1. UNCHANGED <<got, sent, home, conn, batch, m_pendingTasks, delayed, call>>
  BY DEF OnceStarts, RetryStarts, DoStart, taskVars, peerVars, callVars
<1>2. m_state = "STARTING"
  BY DEF OnceStarts, RetryStarts, ServerInv, StartsOnce, Typed, TypeOK
<1>3. batch = <<>> /\ m_pendingTasks = <<>> /\ Connected = {}
  BY <1>2 DEF ServerInv, LoopFits, NothingLeft
<1>4. \A t \in Threads : ~Pushing(t)'
  BY <1>1, <1>2, QuietStart DEF Pushing, Sends, Idle
<1>5. MsgsIn(batch)' = {} /\ MsgsIn(m_pendingTasks)' = {}
  BY <1>1, <1>3, EmptySeq DEF MsgsIn
<1>6. Homes'
  BY <1>1, <1>3 DEF Homes, Connected
<1>7. SendsInOrder'
  BY <1>1 DEF SendsInOrder, InSenderOrder, SendStaysInSession
<1>8. AllDue'
  <2>1. \A task \in delayed : Due(task) /\ task.late
    BY DEF AllDue, ServerInv, Typed
  <2> QED BY <1>1, <1>3, <2>1, EmptySeq DEF AllDue, Due
<1>9. QueueOrder'
  BY <1>1, <1>3, <1>5, EmptySeq DEF QueueOrder, Inner, AllBefore
<1>10. Waiting' = {} /\ Delivered' = Delivered
  BY <1>1, <1>5 DEF Waiting, Delivered, Received
<1> QED BY <1>1, <1>4, <1>6, <1>7, <1>8, <1>9, <1>10 DEF PushersLast, AllBefore

\* OnDispatchEventCB takes all tasks.
LEMMA DispatchOrder ==
  ASSUME Orderly, ServerInv, OrderInv, OnDispatchEvent
  PROVE  OrderInv'
<1> USE DEF OrderInv
<1>1. /\ UNCHANGED <<got, sent, session, home, conn, delayed, call>>
      /\ batch' = m_pendingTasks /\ m_pendingTasks' = <<>>
  BY DEF OnDispatchEvent, lifeVars, peerVars, callVars
<1>2. MsgsIn(batch)' = MsgsIn(m_pendingTasks) /\ MsgsIn(m_pendingTasks)' = {}
  BY <1>1, EmptySeq DEF MsgsIn
<1>3. Homes' /\ SendStaysInSession'
  BY <1>1 DEF Homes, Connected, SendsInOrder, SendStaysInSession
<1>4. QueueOrder'
  BY <1>1, <1>2, EmptySeq DEF QueueOrder, Inner, AllBefore, Before
<1>5. AllDue'
  BY <1>1, EmptySeq DEF AllDue, Due
<1>6. Waiting' \subseteq Waiting
  BY <1>2 DEF Waiting
<1>7. \A t \in Threads : Pushing(t)' => Pushing(t) /\ call'[t].task = call[t].task
  BY <1>1 DEF Pushing, Sends, Idle
<1> QED BY <1>1, <1>3, <1>4, <1>5, <1>6, <1>7, OrderStays

\* The batch without its first task, which was before the others.
LEMMA TakenOrder ==
  ASSUME ServerInv, OrderInv, NEW type, Take(type), UNCHANGED <<m_pendingTasks, sent, session>>,
         \A task \in delayed' : Due(task)
  PROVE  /\ QueueOrder' /\ AllDue' /\ Waiting' \subseteq Waiting /\ Due(Head(batch))
         /\ type = "SEND" => /\ Head(batch).m \in Waiting
                             /\ \A w \in Waiting' : Before(Head(batch).m, w)
<1> USE DEF OrderInv
<1>1. /\ Head(batch) = batch[1] /\ 1 \in 1..Len(batch) /\ Head(batch).type = type
      /\ \A i \in 1..Len(batch') : batch'[i] = batch[i + 1] /\ i + 1 \in 1..Len(batch) /\ i \in Nat
      /\ Len(batch) \in Nat
  BY Taken
<1>2. MsgsIn(batch') \subseteq MsgsIn(batch)
  BY <1>1 DEF MsgsIn
<1>3. Waiting' = MsgsIn(batch') \cup MsgsIn(m_pendingTasks)
  BY DEF Waiting, MsgsIn
<1>4. Inner(batch')
  <2> SUFFICES ASSUME NEW i \in 1..Len(batch'), NEW j \in 1..Len(batch'), i < j,
                      batch'[i].type = "SEND", batch'[j].type = "SEND"
               PROVE  Before(batch'[i].m, batch'[j].m)
    BY DEF Inner
  <2>1. /\ batch'[i] = batch[i + 1] /\ i + 1 \in 1..Len(batch)
        /\ batch'[j] = batch[j + 1] /\ j + 1 \in 1..Len(batch) /\ i + 1 < j + 1
    BY <1>1
  <2> QED BY <2>1 DEF QueueOrder, Inner
<1>5. QueueOrder'
  <2>1. Inner(batch)' /\ Inner(m_pendingTasks)'
    BY <1>4 DEF QueueOrder, Inner, Before
  <2>2. AllBefore(MsgsIn(batch'), MsgsIn(m_pendingTasks))
    BY <1>2 DEF QueueOrder, AllBefore
  <2>3. MsgsIn(batch)' = MsgsIn(batch') /\ MsgsIn(m_pendingTasks)' = MsgsIn(m_pendingTasks)
    BY DEF MsgsIn
  <2>4. AllBefore(MsgsIn(batch), MsgsIn(m_pendingTasks))'
    BY <2>2, <2>3 DEF AllBefore, Before
  <2> QED BY <2>1, <2>4 DEF QueueOrder
<1>6. AllDue'
  <2>1. \A i \in 1..Len(batch') : Due(batch'[i])
    BY <1>1 DEF AllDue
  <2> QED BY <2>1 DEF AllDue, Due
<1>7. Waiting' \subseteq Waiting /\ Due(Head(batch))
  BY <1>1, <1>2, <1>3 DEF Waiting, AllDue
<1>8. ASSUME type = "SEND"
      PROVE  Head(batch).m \in Waiting /\ \A w \in Waiting' : Before(Head(batch).m, w)
  <2>1. Head(batch).m \in MsgsIn(batch)
    BY <1>1, <1>8 DEF MsgsIn
  <2>2. ASSUME NEW w \in MsgsIn(batch') PROVE Before(Head(batch).m, w)
    <3>1. PICK i \in 1..Len(batch') : batch'[i].type = "SEND" /\ w = batch'[i].m
      BY DEF MsgsIn
    <3>2. batch'[i] = batch[i + 1] /\ i + 1 \in 1..Len(batch) /\ 1 < i + 1
      BY <1>1
    <3> QED BY <1>1, <1>8, <3>1, <3>2 DEF QueueOrder, Inner
  <2>3. ASSUME NEW w \in MsgsIn(m_pendingTasks) PROVE Before(Head(batch).m, w)
    BY <2>1 DEF QueueOrder, AllBefore
  <2> QED BY <1>3, <2>1, <2>2, <2>3 DEF Waiting
<1> QED BY <1>5, <1>6, <1>7, <1>8

\* Connections come and go, tasks that send nothing are taken.
LEMMA PeersOrder ==
  ASSUME Orderly, ServerInv, OrderInv,
         \/ DoStop \/ DoKick \/ (DoSend /\ Head(batch).late)
         \/ \E c \in Clients : OnAcceptConn(c) \/ Confirm(c) \/ Lose(c)
  PROVE  OrderInv'
<1> USE DEF OrderInv
<1>1. UNCHANGED <<got, sent, session, m_pendingTasks, call>>
  BY DEF DoStop, DoKick, DoSend, OnAcceptConn, Confirm, Lose, lifeVars, taskVars, callVars
<1>2. conn \in [Clients -> {"new", "greeting", "online", "gone"}] /\ home \in [Clients -> Nat]
  BY DEF ServerInv, Typed, TypeOK
<1>3. \A k \in Clients : /\ k \in Connected' => home'[k] = session
                         /\ conn'[k] = "new" => got[k] = <<>>
                         /\ home'[k] = home[k] \/ got[k] = <<>>
  <2>1. CASE DoStop
    BY <1>2, <2>1 DEF DoStop, Homes, Connected
  <2>2. CASE DoKick
    <3>1. home' = home /\ (conn' = conn \/ \E c \in Connected : conn' = [conn EXCEPT ![c] = "gone"])
      BY <2>2 DEF DoKick
    <3> QED BY <1>2, <3>1 DEF Homes, Connected
  <2>3. CASE DoSend
    BY <2>3 DEF DoSend, Homes, Connected
  <2>4. ASSUME NEW c \in Clients, OnAcceptConn(c)
        PROVE  \A k \in Clients : /\ k \in Connected' => home'[k] = session
                                  /\ conn'[k] = "new" => got[k] = <<>>
                                  /\ home'[k] = home[k] \/ got[k] = <<>>
    BY <1>2, <2>4 DEF OnAcceptConn, Homes, Connected
  <2>5. ASSUME NEW c \in Clients, Confirm(c) \/ Lose(c)
        PROVE  \A k \in Clients : /\ k \in Connected' => home'[k] = session
                                  /\ conn'[k] = "new" => got[k] = <<>>
                                  /\ home'[k] = home[k] \/ got[k] = <<>>
    BY <1>2, <2>5 DEF Confirm, Lose, Homes, Connected
  <2> QED BY <2>1, <2>2, <2>3, <2>4, <2>5
<1>4. Homes' /\ SendStaysInSession'
  <2>1. Homes'
    BY <1>1, <1>3 DEF Homes, Connected
  <2>2. SendStaysInSession'
    BY <1>1, <1>3, EmptySeq DEF SendsInOrder, SendStaysInSession
  <2> QED BY <2>1, <2>2
<1>5. QueueOrder' /\ AllDue' /\ Waiting' \subseteq Waiting
  <2>1. CASE DoStop
    BY <1>1, <2>1, TakenOrder DEF DoStop, AllDue
  <2>2. CASE DoKick
    BY <1>1, <2>2, TakenOrder DEF DoKick, AllDue
  <2>3. CASE DoSend /\ Head(batch).late
    <3>1. Take("SEND") /\ delayed' = delayed \cup {Head(batch)}
      BY <2>3 DEF DoSend
    <3>2. Due(Head(batch))
      BY <3>1, Taken DEF AllDue
    <3>3. \A task \in delayed' : Due(task)
      BY <3>1, <3>2 DEF AllDue
    <3> QED BY <1>1, <3>1, <3>3, TakenOrder
  <2>4. CASE UNCHANGED <<batch, delayed>>
    BY <1>1, <2>4 DEF QueueOrder, Inner, AllBefore, Before, MsgsIn, AllDue, Due, Waiting
  <2> QED BY <2>1, <2>2, <2>3, <2>4 DEF OnAcceptConn, Confirm, Lose, taskVars
<1>6. \A t \in Threads : Pushing(t)' => Pushing(t) /\ call'[t].task = call[t].task
  BY <1>1 DEF Pushing, Sends, Idle
<1> QED BY <1>1, <1>4, <1>5, <1>6, OrderStays

\* A message is delivered that is before all that wait and after what was delivered.
LEMMA DeliverOrder ==
  ASSUME ServerInv, OrderInv, NEW task \in Tasks, task.type = "SEND", Due(task), Deliver(task),
         UNCHANGED <<sent, session, conn, home, call>>,
         QueueOrder', AllDue', Waiting' \subseteq Waiting,
         AllBefore(Delivered, {task.m}), \A w \in Waiting' : Before(task.m, w),
         \A t \in Threads : Pushing(t) => Before(task.m, call[t].task.m)
  PROVE  OrderInv'
<1> USE DEF OrderInv
<1> DEFINE m == task.m
<1>1. m \in 1..MaxSends /\ m \in 1..Len(sent) /\ (task.late <=> sent[m].late)
      /\ (sent[m].late \/ sent[m].session = session)
  BY TaskFacts DEF Due
<1>2. \A c \in Clients : got[c] \in Seq(1..MaxSends)
  BY DEF ServerInv, Typed, TypeOK
<1>3. ASSUME NEW c \in Clients
      PROVE  \/ got'[c] = got[c]
             \/ conn[c] = "online" /\ got'[c] = Append(got[c], m)
  BY DEF Deliver, Addressees
<1>4. ASSUME NEW c \in Clients, NEW i \in 1..Len(got'[c])
      PROVE  \/ i \in 1..Len(got[c]) /\ got'[c][i] = got[c][i] /\ got[c][i] \in Delivered
             \/ i = Len(got[c]) + 1 /\ got'[c][i] = m /\ conn[c] = "online"
  <2>1. got[c] \in Seq(1..MaxSends) /\ Len(got[c]) \in Nat
    BY <1>2, LenProperties
  <2>2. CASE got'[c] = got[c]
    BY <2>2, <1>4 DEF Delivered, Received
  <2>3. CASE conn[c] = "online" /\ got'[c] = Append(got[c], m)
    <3>1. /\ Len(got'[c]) = Len(got[c]) + 1 /\ got'[c][Len(got[c]) + 1] = m
          /\ \A j \in 1..Len(got[c]) : got'[c][j] = got[c][j]
      BY <1>1, <2>1, <2>3, AppendFacts
    <3>2. i \in 1..Len(got[c]) \/ i = Len(got[c]) + 1
      BY <1>4, <2>1, <3>1
    <3> QED BY <2>3, <3>1, <3>2 DEF Delivered, Received
  <2> QED BY <1>3, <2>2, <2>3
<1>5. Delivered' \subseteq Delivered \cup {m}
  BY <1>4 DEF Delivered, Received
<1>6. InSenderOrder'
  <2>1. \A c \in Clients : \A i, j \in 1..Len(got[c]) : i < j => Before(got[c][i], got[c][j])
    BY DEF SendsInOrder, InSenderOrder, Before
  <2>2. ASSUME NEW c \in Clients, NEW i \in 1..Len(got'[c]), NEW j \in 1..Len(got'[c]), i < j
        PROVE  Before(got'[c][i], got'[c][j])
    <3>1. Len(got[c]) \in Nat
      BY <1>2, LenProperties
    <3>2. i \in 1..Len(got[c]) /\ got'[c][i] = got[c][i] /\ got[c][i] \in Delivered
      <4>1. Len(got'[c]) \in Nat /\ (Len(got'[c]) = Len(got[c]) \/ Len(got'[c]) = Len(got[c]) + 1)
        BY <1>1, <1>2, <1>3, <3>1, AppendFacts
      <4>2. i # Len(got[c]) + 1
        BY <2>2, <3>1, <4>1
      <4> QED BY <1>4, <4>2
    <3>3. CASE j \in 1..Len(got[c]) /\ got'[c][j] = got[c][j]
      BY <2>1, <2>2, <3>2, <3>3
    <3>4. CASE got'[c][j] = m
      BY <3>2, <3>4 DEF AllBefore
    <3> QED BY <1>4, <3>3, <3>4
  <2>3. \A c \in Clients : \A i, j \in 1..Len(got'[c]) : i < j => Before(got'[c][i], got'[c][j])
    BY <2>2
  <2> QED BY <2>3 DEF InSenderOrder, Before
<1>7. SendStaysInSession'
  <2>1. ASSUME NEW c \in Clients, NEW i \in 1..Len(got'[c])
        PROVE  sent[got'[c][i]].late \/ sent[got'[c][i]].session = home[c]
    <3>1. CASE i \in 1..Len(got[c]) /\ got'[c][i] = got[c][i]
      BY <3>1 DEF SendsInOrder, SendStaysInSession
    <3>2. CASE got'[c][i] = m /\ conn[c] = "online"
      BY <1>1, <3>2 DEF Homes, Connected
    <3> QED BY <1>4, <2>1, <3>1, <3>2
  <2> QED BY <2>1 DEF SendStaysInSession
<1>8. Homes'
  BY <1>3 DEF Homes, Connected
<1>9. AllBefore(Delivered, Waiting)'
  <2>1. AllBefore(Delivered', Waiting')
    BY <1>5 DEF AllBefore
  <2> QED BY <2>1 DEF AllBefore, Before
<1>10. ASSUME NEW t \in Threads, Pushing(t)'
       PROVE  /\ Due(call[t].task)' /\ sent'[call'[t].task.m].by = t
              /\ AllBefore(Delivered \cup Waiting, {call[t].task.m})'
  <2>1. Pushing(t)
    BY <1>10 DEF Pushing, Sends, Idle
  <2>2. /\ Due(call[t].task) /\ sent[call[t].task.m].by = t
        /\ AllBefore(Delivered \cup Waiting, {call[t].task.m}) /\ Before(m, call[t].task.m)
    BY <2>1 DEF PushersLast
  <2>3. AllBefore(Delivered' \cup Waiting', {call[t].task.m})
    BY <1>5, <2>2 DEF AllBefore
  <2>4. AllBefore(Delivered \cup Waiting, {call[t].task.m})'
    BY <2>3 DEF AllBefore, Before
  <2>5. Due(call[t].task)'
    BY <2>2 DEF Due
  <2> QED BY <2>2, <2>4, <2>5
<1>11. PushersLast'
  BY <1>10 DEF PushersLast
<1>12. (Delivered \subseteq 1..Len(sent))'
  BY <1>1, <1>5
<1> QED BY <1>6, <1>7, <1>8, <1>9, <1>11, <1>12 DEF SendsInOrder

LEMMA DoSendOrder ==
  ASSUME Orderly, ServerInv, OrderInv, DoSend, ~Head(batch).late
  PROVE  OrderInv'
<1> USE DEF OrderInv
<1> DEFINE task == Head(batch)
<1>1. /\ Take("SEND") /\ delayed' = delayed /\ Deliver(task)
      /\ UNCHANGED <<sent, session, conn, home, call, m_pendingTasks>>
  BY DEF DoSend, lifeVars, callVars
<1>2. /\ QueueOrder' /\ AllDue' /\ Waiting' \subseteq Waiting /\ Due(task)
      /\ task.m \in Waiting /\ \A w \in Waiting' : Before(task.m, w)
  BY <1>1, TakenOrder DEF AllDue
<1>3. task \in Tasks /\ task.type = "SEND"
  BY <1>1, Taken
<1> HIDE DEF task
<1>4. AllBefore(Delivered, {task.m})
  BY <1>2 DEF AllBefore
<1>5. \A t \in Threads : Pushing(t) => Before(task.m, call[t].task.m)
  BY <1>2 DEF PushersLast, AllBefore
<1> QED BY <1>1, <1>2, <1>3, <1>4, <1>5, DeliverOrder

\* A delayed message has no place in the order.
LEMMA DelayedOrder ==
  ASSUME Orderly, ServerInv, OrderInv, OnDelayedSend
  PROVE  OrderInv'
<1> USE DEF OrderInv
<1>1. PICK task \in delayed : delayed' = delayed \ {task} /\ Deliver(task)
  BY DEF OnDelayedSend
<1>2. UNCHANGED <<sent, session, conn, home, call, m_pendingTasks, batch>>
  BY DEF OnDelayedSend, lifeVars, callVars
<1>3. task \in Tasks /\ task.type = "SEND" /\ task.late /\ Due(task)
  BY DEF ServerInv, Typed, TypeOK, AllDue
<1>4. \A a : Before(a, task.m) /\ Before(task.m, a)
  BY <1>3 DEF Before, Due
<1>5. QueueOrder' /\ Waiting' = Waiting
  BY <1>2 DEF QueueOrder, Inner, AllBefore, Before, MsgsIn, Waiting
<1>6. AllDue'
  BY <1>1, <1>2 DEF AllDue, Due
<1>7. AllBefore(Delivered, {task.m}) /\ \A w \in Waiting' : Before(task.m, w)
  BY <1>4 DEF AllBefore
<1> QED BY <1>1, <1>2, <1>3, <1>4, <1>5, <1>6, <1>7, DeliverOrder

LEMMA OrderInvStep == Orderly /\ ServerInv /\ OrderInv /\ [Next]_vars => OrderInv'
<1> SUFFICES ASSUME Orderly, ServerInv, OrderInv, [Next]_vars PROVE OrderInv'
  OBVIOUS
<1>1. ASSUME NEW o \in Owners, Start(o) \/ \E kind \in {"Stop", "AsyncStop", "dtor"} : Stop(o, kind)
      PROVE  OrderInv'
  BY <1>1, OrderOutside
<1>2. ASSUME NEW s \in Senders, NEW c \in Clients, KickClient(s, c) PROVE OrderInv'
  BY <1>2, OrderOutside
<1>3. ASSUME NEW s \in Senders, NEW to \in Clients \cup {Everyone}, NEW late \in BOOLEAN,
             Send(s, to, late)
      PROVE  OrderInv'
  BY <1>3, SendOrder
<1>4. ASSUME NEW t \in Threads, CallStep(t) PROVE OrderInv'
  BY <1>4, OrderOutside, PushOrder DEF CallStep
<1>5. CASE LoopStep \/ OnDelayedSend
  BY <1>5, DoStartOrder, DispatchOrder, OrderOutside, PeersOrder, DoSendOrder, DelayedOrder
     DEF LoopStep
<1>6. ASSUME NEW c \in Clients, OnAcceptConn(c) \/ Confirm(c) \/ Lose(c) PROVE OrderInv'
  BY <1>6, PeersOrder
<1>7. CASE UNCHANGED vars
  <2>1. UNCHANGED <<got, sent, session, home, conn, batch, m_pendingTasks, delayed, call>>
    BY <1>7 DEF vars, lifeVars, taskVars, peerVars, callVars
  <2>2. \A t \in Threads : Pushing(t)' => Pushing(t) /\ call'[t].task = call[t].task
    BY <2>1 DEF Pushing, Sends, Idle
  <2> QED BY <2>1, <2>2, OrderUntouched
<1> QED BY <1>1, <1>2, <1>3, <1>4, <1>5, <1>6, <1>7 DEF Next

\* Each client gets what one thread sent in the order it was sent in, and nothing of
\* another session, whatever the threads, restarts, kicks and lost connections do in
\* between (Send, ScheduleTask, OnDispatchEventCB, DoSend).
THEOREM SendsKeepTheirOrder ==
  ASSUME Orderly
  PROVE  Spec => []SendsInOrder
<1>1. OrderInv => SendsInOrder
  BY DEF OrderInv
<1>2. ServerInv /\ [Next]_vars => ServerInv'
  BY ServerInvStep
<1>3. ServerInv /\ OrderInv /\ [Next]_vars => OrderInv'
  BY OrderInvStep
<1> QED BY <1>1, <1>2, <1>3, ServerInitially, OrderInitially, PTL DEF Spec

-----------------------------------------------------------------------------
(***************************************************************************)
(* BroadcastQueue: the send queue of one client.                           *)
(***************************************************************************)

\* The types the proofs need; the sequence the socket has taken is left out.
QueueTypes ==
  /\ clientQueueMaxSize \in QueueLimits
  /\ msgQueue \in Seq(Nat) /\ written \in Seq(Nat)
  /\ output \in Seq(Nat \cup {Ctl})
  /\ offered \in Nat
  /\ m_sentCount \in Nat /\ m_discardCount \in Nat

LEMMA SingleFacts ==
  ASSUME NEW S, NEW e \in S
  PROVE  <<e>> \in Seq(S) /\ Len(<<e>>) = 1 /\ <<e>>[1] = e
OBVIOUS

LEMMA OutputGrows ==
  ASSUME NEW o \in Seq(Nat \cup {Ctl}), NEW m \in Nat \cup {Ctl}
  PROVE  Append(o, m) # <<>>
BY AppendFacts

\* What remains of the output when the socket has taken some of it.
LEMMA DrainFacts ==
  ASSUME NEW S, NEW s \in Seq(S), NEW n \in 1..(Len(s) - 1)
  PROVE  LET left == SubSeq(s, n + 1, Len(s)) IN
         /\ left \in Seq(S) /\ left # <<>>
         /\ Len(s) \in Nat /\ Len(left) = Len(s) - n
         /\ \A i \in 1..Len(left) : left[i] = s[i + n]
<1> DEFINE left == SubSeq(s, n + 1, Len(s))
<1>1. Len(s) \in Nat /\ n \in Nat /\ n + 1 <= Len(s)
  BY LenProperties
<1>2. \A i \in (n + 1)..Len(s) : s[i] \in S
  BY <1>1, LenProperties
<1>3. /\ left \in Seq(S) /\ Len(left) = Len(s) - (n + 1) + 1
      /\ \A i \in 1..(Len(s) - (n + 1) + 1) : left[i] = s[(n + 1) + i - 1]
  BY <1>1, <1>2, SubSeqProperties
<1> HIDE DEF left
<1>4. Len(left) = Len(s) - n /\ Len(left) > 0
  BY <1>1, <1>3
<1>5. left # <<>>
  BY <1>4, EmptySeq
<1>6. \A i \in 1..Len(left) : left[i] = s[i + n]
  BY <1>1, <1>3, <1>4
<1> QED BY <1>1, <1>3, <1>4, <1>5, <1>6 DEF left

LEMMA InitTypes == QueueInit => QueueTypes
BY QueueAssumption DEF QueueInit, QueueTypes

LEMMA TypesStep == QueueTypes /\ [QueueNext]_queueVars => QueueTypes'
<1> SUFFICES ASSUME QueueTypes, [QueueNext]_queueVars PROVE QueueTypes'
  OBVIOUS
<1> USE QueueAssumption DEF QueueTypes
<1>1. CASE DeliverToClient
  <2> DEFINE kept == IF Full THEN Tail(msgQueue) ELSE msgQueue
  <2>1. kept \in Seq(Nat)
    <3>1. Full => msgQueue # <<>>
      BY EmptySeq DEF Full
    <3> QED BY <3>1, TailFacts
  <2>2. offered + 1 \in Nat /\ msgQueue' \in Seq(Nat)
    BY <1>1, <2>1, AppendFacts DEF DeliverToClient
  <2>3. Append(written, offered + 1) \in Seq(Nat)
    BY AppendFacts
  <2>4. Append(output, offered + 1) \in Seq(Nat \cup {Ctl})
    BY AppendFacts
  <2>5. written' \in Seq(Nat) /\ output' \in Seq(Nat \cup {Ctl})
    BY <1>1, <2>3, <2>4 DEF DeliverToClient, bufferevent_write
  <2> QED BY <1>1, <2>2, <2>5 DEF DeliverToClient
<1>2. CASE SendPing
  BY <1>2, AppendFacts DEF SendPing
<1>3. CASE WriteSome
  <2> PICK n \in 1..(Len(output) - 1) : output' = SubSeq(output, n + 1, Len(output))
    BY <1>3 DEF WriteSome
  <2>1. output' \in Seq(Nat \cup {Ctl})
    BY SubSeqProperties, LenProperties
  <2> QED BY <1>3, <2>1 DEF WriteSome
<1>4. CASE WriteAll
  <2> DEFINE rest == IF msgQueue = <<>> THEN <<>> ELSE Tail(msgQueue)
  <2>1. rest \in Seq(Nat)
    BY TailFacts, EmptySeq
  <2>2. CASE rest = <<>>
    BY <1>4, <2>1, <2>2, EmptySeq DEF WriteAll
  <2>3. CASE rest # <<>>
    <3>1. Head(rest) \in Nat
      BY <2>1, <2>3, TailFacts
    <3>2. Append(written, Head(rest)) \in Seq(Nat)
      BY <3>1, AppendFacts
    <3>3. <<Head(rest)>> \in Seq(Nat \cup {Ctl})
      BY <3>1, SingleFacts
    <3> QED BY <1>4, <2>1, <2>3, <3>2, <3>3 DEF WriteAll
  <2> QED BY <2>2, <2>3
<1>5. CASE SetClientQueueMaxSize
  BY <1>5 DEF SetClientQueueMaxSize
<1>6. CASE UNCHANGED queueVars
  BY <1>6 DEF queueVars
<1> QED BY <1>1, <1>2, <1>3, <1>4, <1>5, <1>6 DEF QueueNext

-----------------------------------------------------------------------------
(***************************************************************************)
(* The queue never stalls, whatever the limit is.                          *)
(***************************************************************************)

\* What DeliverToClient leaves of the queue before it appends.
Kept == IF Full THEN Tail(msgQueue) ELSE msgQueue

LEMMA KeptFacts ==
  ASSUME QueueTypes
  PROVE  /\ Kept \in Seq(Nat) /\ Len(Kept) \in Nat /\ Len(msgQueue) \in Nat
         /\ Full => msgQueue # <<>> /\ Len(Kept) = Len(msgQueue) - 1
         /\ ~Full => Kept = msgQueue /\ Len(msgQueue) < clientQueueMaxSize
         /\ Kept # <<>> => msgQueue # <<>>
<1> USE QueueAssumption DEF QueueTypes
<1>1. Len(msgQueue) \in Nat
  BY EmptySeq
<1>2. CASE Full
  <2>1. msgQueue # <<>>
    BY <1>2, EmptySeq DEF Full
  <2> QED BY <1>1, <1>2, <2>1, TailFacts DEF Kept
<1>3. CASE ~Full
  BY <1>1, <1>3 DEF Full, Kept
<1> QED BY <1>2, <1>3

LEMMA NoStallStep == QueueTypes /\ NoStall /\ [QueueNext]_queueVars => NoStall'
<1> SUFFICES ASSUME QueueTypes, NoStall, [QueueNext]_queueVars PROVE NoStall'
  OBVIOUS
<1> USE DEF QueueTypes, NoStall
<1>1. CASE DeliverToClient
  <2>1. CASE Kept = <<>>
    <3>0. output \in Seq(Nat \cup {Ctl}) /\ offered + 1 \in Nat \cup {Ctl}
      OBVIOUS
    <3>1. Append(output, offered + 1) # <<>>
      BY <3>0, OutputGrows
    <3> QED BY <1>1, <2>1, <3>1 DEF DeliverToClient, bufferevent_write, Kept
  <2>2. CASE Kept # <<>>
    BY <1>1, <2>2, KeptFacts DEF DeliverToClient, Kept
  <2> QED BY <2>1, <2>2
<1>2. CASE SendPing
  <2>1. output \in Seq(Nat \cup {Ctl}) /\ Ctl \in Nat \cup {Ctl}
    OBVIOUS
  <2>2. Append(output, Ctl) # <<>>
    BY <2>1, OutputGrows
  <2> QED BY <1>2, <2>2 DEF SendPing
<1>3. CASE WriteSome
  <2>1. PICK n \in 1..(Len(output) - 1) : output' = SubSeq(output, n + 1, Len(output))
    BY <1>3 DEF WriteSome
  <2>2. output \in Seq(Nat \cup {Ctl})
    OBVIOUS
  <2> QED BY <2>1, <2>2, DrainFacts
<1>4. CASE WriteAll
  <2> DEFINE rest == IF msgQueue = <<>> THEN <<>> ELSE Tail(msgQueue)
  <2>1. CASE rest = <<>>
    BY <1>4, <2>1 DEF WriteAll
  <2>2. CASE rest # <<>>
    <3>1. Len(<<Head(rest)>>) = 1
      OBVIOUS
    <3>2. <<Head(rest)>> # <<>>
      BY <3>1, EmptySeq
    <3> QED BY <1>4, <2>2, <3>2 DEF WriteAll
  <2> QED BY <2>1, <2>2
<1>5. CASE SetClientQueueMaxSize
  BY <1>5 DEF SetClientQueueMaxSize
<1>6. CASE UNCHANGED queueVars
  BY <1>6 DEF queueVars
<1> QED BY <1>1, <1>2, <1>3, <1>4, <1>5, <1>6 DEF QueueNext

\* As long as the queue of a client holds anything, output is under way whose
\* draining calls OnClientWriteCB: no limit, no change of the limit, no ping
\* and no overflow leaves a message behind that nothing sends.
THEOREM SendingNeverStalls == QueueSpec => []NoStall
<1>1. QueueInit => NoStall
  BY DEF QueueInit, NoStall
<1> QED BY <1>1, InitTypes, TypesStep, NoStallStep, PTL DEF QueueSpec

-----------------------------------------------------------------------------
(***************************************************************************)
(* The queue is bounded by the largest limit it ever had.                  *)
(***************************************************************************)
LEMMA BoundedStep == QueueTypes /\ QueueBounded /\ [QueueNext]_queueVars => QueueBounded'
<1> SUFFICES ASSUME QueueTypes, QueueBounded, [QueueNext]_queueVars PROVE QueueBounded'
  OBVIOUS
<1> PICK b \in QueueLimits : Len(msgQueue) <= b
  BY DEF QueueBounded
<1>0. Len(msgQueue) \in Nat /\ b \in Nat \ {0} /\ clientQueueMaxSize \in Nat
  BY KeptFacts, QueueAssumption DEF QueueTypes
<1>1. CASE DeliverToClient
  <2>1. Len(msgQueue') = Len(Kept) + 1
    BY <1>1, KeptFacts, AppendFacts DEF DeliverToClient, Kept, QueueTypes
  <2>2. CASE Full
    BY <1>0, <2>1, <2>2, KeptFacts DEF QueueBounded
  <2>3. CASE ~Full
    BY <1>0, <2>1, <2>3, KeptFacts DEF QueueBounded, QueueTypes
  <2> QED BY <2>2, <2>3
<1>2. CASE WriteAll
  <2>1. CASE msgQueue = <<>>
    BY <1>0, <1>2, <2>1 DEF WriteAll, QueueBounded
  <2>2. CASE msgQueue # <<>>
    <3>1. Len(msgQueue') = Len(msgQueue) - 1
      BY <1>2, <2>2, TailFacts DEF WriteAll, QueueTypes
    <3> QED BY <1>0, <3>1 DEF QueueBounded
  <2> QED BY <2>1, <2>2
<1>3. CASE UNCHANGED msgQueue
  BY <1>3 DEF QueueBounded
<1> QED BY <1>1, <1>2, <1>3
        DEF QueueNext, SendPing, WriteSome, SetClientQueueMaxSize, queueVars

\* The backlog kept for a slow client never exceeds the largest value
\* clientQueueMaxSize was ever set to.
THEOREM BacklogIsBounded == QueueSpec => []QueueBounded
<1>1. QueueInit => QueueBounded
  BY QueueAssumption, EmptySeq DEF QueueInit, QueueBounded
<1> QED BY <1>1, InitTypes, TypesStep, BoundedStep, PTL DEF QueueSpec

-----------------------------------------------------------------------------
(***************************************************************************)
(* Messages are written in the order offered, each once, whatever the      *)
(* limit is.  The head of the queue may or may not have been written; what *)
(* follows it has not.                                                     *)
(***************************************************************************)
Increasing(s)  == \A i, j \in 1..Len(s) : i < j => s[i] < s[j]
UpTo(s, n)     == \A i \in 1..Len(s) : s[i] <= n
Precedes(s, t) == \A i \in 1..Len(s), j \in 1..Len(t) : s[i] < t[j]

LEMMA AppendNewest ==
  ASSUME NEW s \in Seq(Nat), NEW n \in Nat, Increasing(s), UpTo(s, n)
  PROVE  Increasing(Append(s, n + 1)) /\ UpTo(Append(s, n + 1), n + 1)
<1> DEFINE t == Append(s, n + 1)
<1>1. /\ Len(s) \in Nat /\ Len(t) = Len(s) + 1
      /\ \A i \in 1..Len(s) : t[i] = s[i] /\ s[i] \in Nat
      /\ t[Len(s) + 1] = n + 1
  BY AppendFacts, LenProperties
<1> HIDE DEF t
<1>2. ASSUME NEW i \in 1..Len(t) PROVE i \in 1..Len(s) \/ i = Len(s) + 1
  BY <1>1
<1>3. Increasing(t)
  <2> SUFFICES ASSUME NEW i \in 1..Len(t), NEW j \in 1..Len(t), i < j
               PROVE  t[i] < t[j]
    BY DEF Increasing
  <2>1. i \in 1..Len(s)
    BY <1>1
  <2>2. CASE j \in 1..Len(s)
    BY <1>1, <2>1, <2>2 DEF Increasing
  <2>3. CASE j = Len(s) + 1
    BY <1>1, <2>1, <2>3 DEF UpTo
  <2> QED BY <1>2, <2>2, <2>3
<1>4. UpTo(t, n + 1)
  <2> SUFFICES ASSUME NEW i \in 1..Len(t) PROVE t[i] <= n + 1
    BY DEF UpTo
  <2> QED BY <1>1, <1>2 DEF UpTo
<1> QED BY <1>3, <1>4 DEF t

LEMMA TailInOrder ==
  ASSUME NEW s \in Seq(Nat), NEW n \in Nat, s # <<>>, Increasing(s), UpTo(s, n)
  PROVE  /\ Increasing(Tail(s)) /\ UpTo(Tail(s), n)
         /\ Head(s) <= n /\ Head(s) \in Nat
         /\ \A j \in 1..Len(Tail(s)) : Head(s) < Tail(s)[j]
<1> DEFINE t == Tail(s)
<1>1. /\ Len(s) \in Nat /\ Len(s) > 0 /\ Len(t) = Len(s) - 1 /\ Head(s) = s[1]
      /\ \A i \in 1..Len(t) : t[i] = s[i + 1]
      /\ \A i \in 1..Len(s) : s[i] \in Nat
  BY TailFacts, LenProperties
<1> HIDE DEF t
<1>2. \A i \in 1..Len(t) : i + 1 \in 1..Len(s) /\ 1 < i + 1
  BY <1>1
<1>3. Increasing(t)
  <2> SUFFICES ASSUME NEW i \in 1..Len(t), NEW j \in 1..Len(t), i < j
               PROVE  t[i] < t[j]
    BY DEF Increasing
  <2>1. s[i + 1] < s[j + 1]
    BY <1>2 DEF Increasing
  <2> QED BY <1>1, <2>1
<1>4. UpTo(t, n) /\ s[1] <= n /\ s[1] \in Nat
  BY <1>1, <1>2 DEF UpTo
<1>5. \A j \in 1..Len(t) : s[1] < t[j]
  <2> SUFFICES ASSUME NEW j \in 1..Len(t) PROVE s[1] < t[j]
    OBVIOUS
  <2>1. 1 \in 1..Len(s) /\ j + 1 \in 1..Len(s) /\ 1 < j + 1 /\ t[j] = s[j + 1]
    BY <1>1, <1>2
  <2> QED BY <2>1 DEF Increasing
<1> QED BY <1>1, <1>3, <1>4, <1>5 DEF t

LEMMA PrecedesNewest ==
  ASSUME NEW s \in Seq(Nat), NEW t \in Seq(Nat), NEW n \in Nat,
         UpTo(s, n), Precedes(s, t)
  PROVE  Precedes(s, Append(t, n + 1))
<1> DEFINE u == Append(t, n + 1)
<1>1. /\ Len(t) \in Nat /\ Len(u) = Len(t) + 1
      /\ \A i \in 1..Len(t) : u[i] = t[i]
      /\ u[Len(t) + 1] = n + 1
      /\ \A i \in 1..Len(s) : s[i] \in Nat
  BY AppendFacts, LenProperties
<1> HIDE DEF u
<1> SUFFICES ASSUME NEW i \in 1..Len(s), NEW j \in 1..Len(u) PROVE s[i] < u[j]
  BY DEF Precedes, u
<1>2. CASE j \in 1..Len(t)
  BY <1>1, <1>2 DEF Precedes
<1>3. CASE j = Len(t) + 1
  <2>1. s[i] <= n /\ s[i] \in Nat
    BY <1>1 DEF UpTo
  <2>2. u[j] = n + 1
    BY <1>1, <1>3
  <2> QED BY <2>1, <2>2
<1>4. j \in 1..Len(t) \/ j = Len(t) + 1
  BY <1>1
<1> QED BY <1>2, <1>3, <1>4

\* Writing the first of the messages that wait.
LEMMA WriteNext ==
  ASSUME NEW s \in Seq(Nat), NEW t \in Seq(Nat), NEW n \in Nat, t # <<>>,
         Increasing(s), UpTo(s, n), Increasing(t), UpTo(t, n), Precedes(s, t)
  PROVE  /\ Increasing(Append(s, Head(t))) /\ UpTo(Append(s, Head(t)), n)
         /\ Precedes(Append(s, Head(t)), Tail(t))
<1> DEFINE u == Append(s, Head(t))
           r == Tail(t)
           h == Head(t)
<1>1. /\ h = t[1] /\ h \in Nat /\ h <= n /\ Len(t) \in Nat /\ Len(t) > 0
      /\ Len(r) = Len(t) - 1
      /\ \A j \in 1..Len(r) : h < r[j] /\ r[j] = t[j + 1]
  BY TailFacts, TailInOrder
<1>2. /\ Len(s) \in Nat /\ Len(u) = Len(s) + 1
      /\ \A i \in 1..Len(s) : u[i] = s[i] /\ s[i] \in Nat
      /\ u[Len(s) + 1] = h
  BY <1>1, AppendFacts, LenProperties
<1> HIDE DEF u, r, h
<1>3. \A i \in 1..Len(s) : s[i] < h
  BY <1>1 DEF Precedes
<1>4. ASSUME NEW i \in 1..Len(u) PROVE i \in 1..Len(s) \/ i = Len(s) + 1
  BY <1>2
<1>5. Increasing(u)
  <2> SUFFICES ASSUME NEW i \in 1..Len(u), NEW j \in 1..Len(u), i < j
               PROVE  u[i] < u[j]
    BY DEF Increasing
  <2>1. i \in 1..Len(s)
    BY <1>2
  <2>2. CASE j \in 1..Len(s)
    BY <1>2, <2>1, <2>2 DEF Increasing
  <2>3. CASE j = Len(s) + 1
    BY <1>2, <1>3, <2>1, <2>3
  <2> QED BY <1>4, <2>2, <2>3
<1>6. UpTo(u, n)
  <2> SUFFICES ASSUME NEW i \in 1..Len(u) PROVE u[i] <= n
    BY DEF UpTo
  <2> QED BY <1>1, <1>2, <1>4 DEF UpTo
<1>7. Precedes(u, r)
  <2> SUFFICES ASSUME NEW i \in 1..Len(u), NEW j \in 1..Len(r) PROVE u[i] < r[j]
    BY DEF Precedes
  <2>1. CASE i \in 1..Len(s)
    <3>1. j + 1 \in 1..Len(t)
      BY <1>1
    <3> QED BY <1>1, <1>2, <2>1, <3>1 DEF Precedes
  <2>2. CASE i = Len(s) + 1
    BY <1>1, <1>2, <2>2
  <2> QED BY <1>4, <2>1, <2>2
<1> QED BY <1>5, <1>6, <1>7 DEF u, r, h

WrittenInv ==
  /\ Increasing(written) /\ UpTo(written, offered)
  /\ Increasing(msgQueue) /\ UpTo(msgQueue, offered)
  /\ msgQueue # <<>> => Precedes(written, Tail(msgQueue))

LEMMA OrderStep == QueueTypes /\ WrittenInv /\ [QueueNext]_queueVars => WrittenInv'
<1> SUFFICES ASSUME QueueTypes, WrittenInv, [QueueNext]_queueVars PROVE WrittenInv'
  OBVIOUS
<1>0. /\ written \in Seq(Nat) /\ msgQueue \in Seq(Nat) /\ offered \in Nat
      /\ Increasing(written) /\ UpTo(written, offered)
      /\ Increasing(msgQueue) /\ UpTo(msgQueue, offered)
      /\ msgQueue # <<>> => Precedes(written, Tail(msgQueue))
  BY DEF QueueTypes, WrittenInv
<1>1. CASE DeliverToClient
  <2>1. /\ msgQueue' = Append(Kept, offered + 1) /\ offered' = offered + 1
        /\ written' = IF Kept = <<>> THEN Append(written, offered + 1)
                                     ELSE written
    BY <1>1 DEF DeliverToClient, Kept, bufferevent_write
  <2>2. /\ Kept \in Seq(Nat) /\ Increasing(Kept) /\ UpTo(Kept, offered)
        /\ Kept # <<>> => Precedes(written, Tail(Kept))
    <3>1. CASE Full
      <4>1. msgQueue # <<>> /\ Kept = Tail(msgQueue) /\ Kept \in Seq(Nat)
        BY <3>1, KeptFacts DEF Kept
      <4>2. Increasing(Kept) /\ UpTo(Kept, offered)
        BY <1>0, <4>1, TailInOrder
      <4>3. CASE Kept # <<>>
        <5>1. /\ Len(Kept) \in Nat /\ Len(Tail(Kept)) = Len(Kept) - 1
              /\ \A j \in 1..Len(Tail(Kept)) : Tail(Kept)[j] = Kept[j + 1]
          BY <4>1, <4>3, TailFacts
        <5>2. \A i \in 1..Len(written), j \in 1..Len(Kept) : written[i] < Kept[j]
          BY <1>0, <4>1 DEF Precedes
        <5>3. \A j \in 1..Len(Tail(Kept)) : j + 1 \in 1..Len(Kept)
          BY <5>1
        <5> QED BY <4>1, <4>2, <5>1, <5>2, <5>3 DEF Precedes
      <4> QED BY <4>1, <4>2, <4>3
    <3>2. CASE ~Full
      BY <1>0, <3>2, KeptFacts
    <3> QED BY <3>1, <3>2
  <2>3. /\ Increasing(msgQueue') /\ UpTo(msgQueue', offered')
        /\ Increasing(written') /\ UpTo(written', offered')
    <3>1. Increasing(Append(Kept, offered + 1)) /\ UpTo(Append(Kept, offered + 1), offered + 1)
      BY <1>0, <2>2, AppendNewest
    <3>2. Increasing(Append(written, offered + 1))
          /\ UpTo(Append(written, offered + 1), offered + 1)
      BY <1>0, AppendNewest
    <3>3. UpTo(written, offered + 1)
      BY <1>0, LenProperties DEF UpTo
    <3> QED BY <1>0, <2>1, <3>1, <3>2, <3>3
  <2>4. Precedes(written', Tail(msgQueue'))
    <3>1. Tail(Append(Kept, offered + 1))
            = IF Kept = <<>> THEN <<>> ELSE Append(Tail(Kept), offered + 1)
      BY <1>0, <2>2, HeadTailAppend
    <3>2. CASE Kept = <<>>
      BY <2>1, <3>1, <3>2, EmptySeq DEF Precedes
    <3>3. CASE Kept # <<>>
      <4>1. Tail(Kept) \in Seq(Nat)
        BY <2>2, <3>3, TailFacts
      <4>2. Precedes(written, Append(Tail(Kept), offered + 1))
        BY <1>0, <2>2, <3>3, <4>1, PrecedesNewest
      <4> QED BY <2>1, <3>1, <3>3, <4>2
    <3> QED BY <3>2, <3>3
  <2> QED BY <2>3, <2>4 DEF WrittenInv
<1>2. CASE WriteAll
  <2>1. CASE msgQueue = <<>>
    <3>1. UNCHANGED <<msgQueue, written, offered>>
      BY <1>2, <2>1 DEF WriteAll
    <3> QED BY <2>1, <3>1 DEF WrittenInv
  <2>2. CASE msgQueue # <<>>
    <3> DEFINE rest == Tail(msgQueue)
    <3>1. /\ msgQueue' = rest /\ offered' = offered
          /\ written' = IF rest = <<>> THEN written ELSE Append(written, Head(rest))
      BY <1>2, <2>2 DEF WriteAll
    <3>2. /\ rest \in Seq(Nat) /\ Increasing(rest) /\ UpTo(rest, offered)
          /\ Precedes(written, rest)
      BY <1>0, <2>2, TailFacts, TailInOrder
    <3> HIDE DEF rest
    <3>3. CASE rest = <<>>
      BY <1>0, <3>1, <3>2, <3>3 DEF WrittenInv
    <3>4. CASE rest # <<>>
      <4>1. /\ Increasing(Append(written, Head(rest)))
            /\ UpTo(Append(written, Head(rest)), offered)
            /\ Precedes(Append(written, Head(rest)), Tail(rest))
        BY <1>0, <3>2, <3>4, WriteNext
      <4> QED BY <3>1, <3>2, <3>4, <4>1 DEF WrittenInv
    <3> QED BY <3>3, <3>4
  <2> QED BY <2>1, <2>2
<1>3. CASE UNCHANGED <<msgQueue, written, offered>>
  BY <1>3 DEF WrittenInv
<1> QED BY <1>1, <1>2, <1>3
        DEF QueueNext, SendPing, WriteSome, SetClientQueueMaxSize, queueVars

\* No overflow, change of the limit or ping makes the server write a message
\* to a client twice or before an older one.
THEOREM WritesInOrder == QueueSpec => []WrittenInOrder
<1>1. QueueInit => WrittenInv
  BY EmptySeq DEF QueueInit, WrittenInv, Increasing, UpTo
<1>2. WrittenInv => WrittenInOrder
  BY DEF WrittenInv, Increasing, WrittenInOrder
<1> QED BY <1>1, <1>2, InitTypes, TypesStep, OrderStep, PTL DEF QueueSpec

-----------------------------------------------------------------------------
(***************************************************************************)
(* With limits of at least two an overflow never takes the head, so the    *)
(* counts and the single transmission hold and BcChannel is implemented.   *)
(***************************************************************************)
LimitsAboveOne == \A n \in QueueLimits : n > 1

LEMMA OverflowKeepsSome ==
  ASSUME QueueTypes, LimitsAboveOne
  PROVE  /\ Kept = <<>> <=> msgQueue = <<>>
         /\ Full => Kept = Tail(msgQueue)
         /\ Len(msgQueue) \in Nat /\ Len(Kept) \in Nat
<1>1. Len(msgQueue) \in Nat /\ clientQueueMaxSize > 1 /\ clientQueueMaxSize \in Nat
  BY KeptFacts, QueueAssumption DEF QueueTypes, LimitsAboveOne
<1>2. CASE Full
  <2>1. Len(msgQueue) > 1
    BY <1>1, <1>2 DEF Full
  <2>2. Kept # <<>> /\ msgQueue # <<>>
    BY <1>1, <1>2, <2>1, KeptFacts, EmptySeq
  <2> QED BY <1>2, <2>2, KeptFacts DEF Kept
<1>3. CASE ~Full
  BY <1>3, KeptFacts
<1> QED BY <1>2, <1>3

LEMMA CountStep ==
  LimitsAboveOne /\ QueueTypes /\ DiscardsAreLosses /\ [QueueNext]_queueVars => DiscardsAreLosses'
<1> SUFFICES ASSUME LimitsAboveOne, QueueTypes, DiscardsAreLosses, [QueueNext]_queueVars
             PROVE  DiscardsAreLosses'
  OBVIOUS
<1>0. /\ msgQueue \in Seq(Nat) /\ Len(msgQueue) \in Nat /\ written \in Seq(Nat)
      /\ Len(written) \in Nat /\ offered \in Nat /\ m_discardCount \in Nat
      /\ offered = Len(written) + m_discardCount
                   + (IF msgQueue = <<>> THEN 0 ELSE Len(msgQueue) - 1)
  BY KeptFacts, LenProperties DEF QueueTypes, DiscardsAreLosses
<1>1. CASE DeliverToClient
  <2>1. /\ offered' = offered + 1 /\ msgQueue' = Append(Kept, offered + 1)
        /\ m_discardCount' = m_discardCount + (IF Full THEN 1 ELSE 0)
        /\ written' = IF Kept = <<>> THEN Append(written, offered + 1) ELSE written
    BY <1>1 DEF DeliverToClient, Kept, bufferevent_write
  <2>2. /\ Len(msgQueue') = Len(Kept) + 1 /\ msgQueue' # <<>> /\ Len(Kept) \in Nat
    <3>1. Kept \in Seq(Nat)
      BY KeptFacts
    <3>2. offered + 1 \in Nat
      BY DEF QueueTypes
    <3>3. /\ Len(Append(Kept, offered + 1)) = Len(Kept) + 1 /\ Len(Kept) \in Nat
          /\ Append(Kept, offered + 1) # <<>>
      BY <3>1, <3>2, AppendFacts
    <3> QED BY <2>1, <3>3
  <2>3. Len(written') = Len(written) + (IF Kept = <<>> THEN 1 ELSE 0)
    BY <2>1, <1>0, AppendFacts
  <2>4. CASE msgQueue = <<>>
    <3>1. Kept = <<>> /\ Len(Kept) = 0 /\ ~Full
      BY <2>4, OverflowKeepsSome, KeptFacts, EmptySeq
    <3> QED BY <1>0, <2>1, <2>2, <2>3, <2>4, <3>1 DEF DiscardsAreLosses
  <2>5. CASE msgQueue # <<>>
    <3>1. Kept # <<>>
      BY <2>5, OverflowKeepsSome
    <3>2. PICK d \in Nat : /\ m_discardCount' = m_discardCount + d
                           /\ Len(Kept) = Len(msgQueue) - d
      <4>1. CASE Full
        BY <2>1, <4>1, KeptFacts
      <4>2. CASE ~Full
        BY <1>0, <2>1, <4>2, KeptFacts
      <4> QED BY <4>1, <4>2
    <3>3. Len(msgQueue') = Len(msgQueue) - d + 1 /\ Len(written') = Len(written)
      BY <1>0, <2>2, <2>3, <3>1, <3>2
    <3>4. offered' = offered + 1 /\ msgQueue' # <<>>
      BY <2>1, <2>2
    <3> QED BY <1>0, <2>5, <3>2, <3>3, <3>4 DEF DiscardsAreLosses
  <2> QED BY <2>4, <2>5
<1>2. CASE WriteAll
  <2>1. CASE msgQueue = <<>>
    <3>1. UNCHANGED <<msgQueue, written, offered, m_discardCount>>
      BY <1>2, <2>1 DEF WriteAll
    <3> QED BY <1>0, <3>1 DEF DiscardsAreLosses
  <2>2. CASE msgQueue # <<>>
    <3> DEFINE rest == Tail(msgQueue)
    <3>1. /\ msgQueue' = rest /\ offered' = offered /\ m_discardCount' = m_discardCount
          /\ written' = IF rest = <<>> THEN written ELSE Append(written, Head(rest))
      BY <1>2, <2>2 DEF WriteAll
    <3>2. /\ rest \in Seq(Nat) /\ Len(rest) = Len(msgQueue) - 1
          /\ (rest = <<>> <=> Len(msgQueue) = 1)
      BY <1>0, <2>2, TailFacts
    <3> HIDE DEF rest
    <3>3. rest # <<>> => Len(Append(written, Head(rest))) = Len(written) + 1
      BY <1>0, <3>2, TailFacts, AppendFacts
    <3> QED BY <1>0, <2>2, <3>1, <3>2, <3>3 DEF DiscardsAreLosses
  <2> QED BY <2>1, <2>2
<1>3. CASE UNCHANGED <<msgQueue, written, offered, m_discardCount>>
  BY <1>0, <1>3 DEF DiscardsAreLosses
<1> QED BY <1>1, <1>2, <1>3
        DEF QueueNext, SendPing, WriteSome, SetClientQueueMaxSize, queueVars

\* If clientQueueMaxSize stays at two or more, every message given to
\* DeliverToClient is written, waits, or is in GetDiscardCount.
THEOREM NothingGoesUncounted == LimitsAboveOne /\ QueueSpec => []DiscardsAreLosses
<1>1. QueueInit => DiscardsAreLosses
  BY EmptySeq DEF QueueInit, DiscardsAreLosses
<1>2. LimitsAboveOne => (QueueTypes /\ DiscardsAreLosses /\ [QueueNext]_queueVars => DiscardsAreLosses')
  BY CountStep
<1>3. CASE LimitsAboveOne
  <2>1. QueueTypes /\ DiscardsAreLosses /\ [QueueNext]_queueVars => DiscardsAreLosses'
    BY <1>2, <1>3
  <2> QED BY <1>1, <2>1, InitTypes, TypesStep, PTL DEF QueueSpec
<1> QED BY <1>3

\* The output holds at most one message, and none once the queue is empty.
InFlightInv ==
  /\ OneInFlight
  /\ msgQueue = <<>> => \A i \in 1..Len(output) : output[i] = Ctl

LEMMA InFlightStep ==
  LimitsAboveOne /\ QueueTypes /\ InFlightInv /\ [QueueNext]_queueVars => InFlightInv'
<1> SUFFICES ASSUME LimitsAboveOne, QueueTypes, InFlightInv, [QueueNext]_queueVars
             PROVE  InFlightInv'
  OBVIOUS
<1>0. /\ output \in Seq(Nat \cup {Ctl}) /\ Len(output) \in Nat
      /\ \A i, j \in 1..Len(output) : output[i] # Ctl /\ output[j] # Ctl => i = j
      /\ msgQueue = <<>> => \A i \in 1..Len(output) : output[i] = Ctl
  BY LenProperties DEF QueueTypes, InFlightInv, OneInFlight
<1>1. CASE DeliverToClient
  <2>1. /\ msgQueue' = Append(Kept, offered + 1)
        /\ output' = IF Kept = <<>> THEN Append(output, offered + 1) ELSE output
    BY <1>1 DEF DeliverToClient, Kept, bufferevent_write
  <2>2. msgQueue' # <<>>
    <3>1. Kept \in Seq(Nat)
      BY KeptFacts
    <3>2. offered + 1 \in Nat
      BY DEF QueueTypes
    <3>3. Append(Kept, offered + 1) # <<>>
      BY <3>1, <3>2, AppendFacts
    <3> QED BY <2>1, <3>3
  <2>3. CASE Kept = <<>>
    <3>1. offered + 1 \in Nat \cup {Ctl}
      BY DEF QueueTypes
    <3>2. msgQueue = <<>>
      BY <2>3, OverflowKeepsSome
    <3>3. /\ Len(output') = Len(output) + 1
          /\ \A i \in 1..Len(output) : output'[i] = output[i]
      BY <1>0, <2>1, <2>3, <3>1, AppendFacts
    <3>4. \A i \in 1..Len(output) : output'[i] = Ctl
      BY <1>0, <3>2, <3>3
    <3>5. \A i \in 1..Len(output') : output'[i] # Ctl => i = Len(output) + 1
      BY <1>0, <3>3, <3>4
    <3> QED BY <2>2, <3>5 DEF InFlightInv, OneInFlight
  <2>4. CASE Kept # <<>>
    BY <1>0, <2>1, <2>2, <2>4 DEF InFlightInv, OneInFlight
  <2> QED BY <2>3, <2>4
<1>2. CASE SendPing
  <2>1. output' = Append(output, Ctl) /\ msgQueue' = msgQueue
    BY <1>2 DEF SendPing
  <2>2. /\ Len(output') = Len(output) + 1
        /\ \A i \in 1..Len(output) : output'[i] = output[i]
        /\ output'[Len(output) + 1] = Ctl
    BY <1>0, <2>1, AppendFacts
  <2>3. \A i \in 1..Len(output') : i \in 1..Len(output) \/ i = Len(output) + 1
    BY <1>0, <2>2
  <2>4. \A i \in 1..Len(output') :
          output'[i] # Ctl => i \in 1..Len(output) /\ output[i] # Ctl
    BY <2>2, <2>3
  <2> QED BY <1>0, <2>1, <2>4 DEF InFlightInv, OneInFlight
<1>3. CASE WriteSome
  <2> PICK n \in 1..(Len(output) - 1) :
        output' = SubSeq(output, n + 1, Len(output)) /\ msgQueue' = msgQueue
    BY <1>3 DEF WriteSome
  <2>1. /\ Len(output') = Len(output) - n
        /\ \A i \in 1..Len(output') : output'[i] = output[i + n]
    BY <1>0, DrainFacts
  <2>2. \A i \in 1..Len(output') : i + n \in 1..Len(output)
    BY <1>0, <2>1
  <2>3. \A i, j \in 1..Len(output') : i + n = j + n => i = j
    BY <1>0, <2>1
  <2> QED BY <1>0, <2>1, <2>2, <2>3 DEF InFlightInv, OneInFlight
<1>4. CASE WriteAll
  <2> DEFINE rest == IF msgQueue = <<>> THEN <<>> ELSE Tail(msgQueue)
  <2>1. /\ msgQueue' = rest
        /\ output' = IF rest = <<>> THEN <<>> ELSE <<Head(rest)>>
    BY <1>4 DEF WriteAll
  <2> HIDE DEF rest
  <2>2. CASE rest = <<>>
    BY <2>1, <2>2, EmptySeq DEF InFlightInv, OneInFlight
  <2>3. CASE rest # <<>>
    <3>1. Len(<<Head(rest)>>) = 1
      OBVIOUS
    <3>2. Len(output') = 1 /\ msgQueue' # <<>>
      BY <2>1, <2>3, <3>1
    <3> QED BY <3>2 DEF InFlightInv, OneInFlight
  <2> QED BY <2>2, <2>3
<1>5. CASE UNCHANGED <<msgQueue, output>>
  BY <1>0, <1>5 DEF InFlightInv, OneInFlight
<1> QED BY <1>1, <1>2, <1>3, <1>4, <1>5 DEF QueueNext, SetClientQueueMaxSize, queueVars

\* If clientQueueMaxSize stays at two or more, no client ever has two messages
\* in its bufferevent: what a slow client has outstanding is in the bounded
\* queue.
THEOREM BacklogStaysInQueue == LimitsAboveOne /\ QueueSpec => []OneInFlight
<1>1. QueueInit => InFlightInv
  <2> SUFFICES ASSUME QueueInit PROVE InFlightInv
    OBVIOUS
  <2>1. Len(<<Ctl>>) = 1 /\ <<Ctl>>[1] = Ctl
    OBVIOUS
  <2>2. output = <<Ctl>>
    BY DEF QueueInit
  <2> QED BY <2>1, <2>2 DEF InFlightInv, OneInFlight
<1>2. InFlightInv => OneInFlight
  BY DEF InFlightInv
<1>3. CASE LimitsAboveOne
  <2>1. QueueTypes /\ InFlightInv /\ [QueueNext]_queueVars => InFlightInv'
    BY <1>3, InFlightStep
  <2> QED BY <1>1, <1>2, <2>1, InitTypes, TypesStep, PTL DEF QueueSpec
<1> QED BY <1>3

LEMMA StepImplementsChannel ==
  ASSUME LimitsAboveOne, QueueTypes, [QueueNext]_queueVars
  PROVE  [Channel!ChanNext]_(Channel!chanVars)
<1>0. /\ msgQueue \in Seq(Nat) /\ Len(msgQueue) \in Nat /\ offered \in Nat
      /\ m_discardCount \in Nat /\ clientQueueMaxSize \in Nat \ {0}
  BY KeptFacts, QueueAssumption DEF QueueTypes
<1>1. CASE DeliverToClient
  <2> DEFINE m == offered + 1
  <2>1. /\ msgQueue' = Append(Kept, m) /\ m \in 1..MaxOffered /\ m \in Nat
        /\ m_discardCount' = m_discardCount + (IF Full THEN 1 ELSE 0)
        /\ written' = IF Kept = <<>> THEN Append(written, m) ELSE written
        /\ clientQueueMaxSize' = clientQueueMaxSize
    BY <1>0, <1>1, QueueAssumption DEF DeliverToClient, Kept, bufferevent_write
  <2> HIDE DEF m
  <2>2. Kept \in Seq(Nat)
    BY KeptFacts
  <2>3. /\ msgQueue' # <<>>
        /\ Tail(msgQueue') = IF Kept = <<>> THEN <<>> ELSE Append(Tail(Kept), m)
    BY <2>1, <2>2, AppendFacts, HeadTailAppend
  <2>4. CASE msgQueue = <<>>
    <3>1. Kept = <<>> /\ ~Full
      BY <2>4, OverflowKeepsSome, KeptFacts
    <3>2. m_discardCount' = m_discardCount
      BY <2>1, <3>1, <1>0
    <3>3. Channel!OfferIdle(m)
      BY <2>1, <2>3, <2>4, <3>1, <3>2 DEF Channel!OfferIdle
    <3> QED BY <2>1, <3>3 DEF Channel!ChanNext
  <2>5. CASE msgQueue # <<>> /\ ~Full
    <3>1. Kept = msgQueue /\ Len(Tail(msgQueue)) + 1 < clientQueueMaxSize
      BY <1>0, <2>5, KeptFacts, TailFacts
    <3>2. m_discardCount' = m_discardCount /\ written' = written
      BY <1>0, <2>1, <2>5, <3>1
    <3>3. Channel!OfferWaits(m)
      BY <2>1, <2>3, <2>5, <3>1, <3>2 DEF Channel!OfferWaits
    <3> QED BY <2>1, <3>3 DEF Channel!ChanNext
  <2>6. CASE msgQueue # <<>> /\ Full
    <3>1. Kept # <<>> /\ Kept = Tail(msgQueue)
      BY <2>6, OverflowKeepsSome
    <3>2. Len(Tail(msgQueue)) + 1 >= clientQueueMaxSize
      BY <1>0, <2>6, TailFacts DEF Full
    <3>3. m_discardCount' = m_discardCount + 1 /\ written' = written
      BY <1>0, <2>1, <2>6, <3>1
    <3>4. Channel!OfferFull(m)
      BY <2>1, <2>3, <2>6, <3>1, <3>2, <3>3 DEF Channel!OfferFull
    <3> QED BY <2>1, <3>4 DEF Channel!ChanNext
  <2> QED BY <2>4, <2>5, <2>6
<1>2. CASE WriteAll
  <2>1. UNCHANGED <<clientQueueMaxSize, m_discardCount>>
    BY <1>2 DEF WriteAll
  <2>2. CASE msgQueue = <<>>
    BY <1>2, <2>1, <2>2 DEF WriteAll, Channel!chanVars
  <2>3. CASE msgQueue # <<>>
    <3> DEFINE rest == Tail(msgQueue)
    <3>1. /\ msgQueue' = rest
          /\ written' = IF rest = <<>> THEN written ELSE Append(written, Head(rest))
      BY <1>2, <2>3 DEF WriteAll
    <3>2. Channel!Through
      BY <2>1, <2>3, <3>1 DEF Channel!Through
    <3> QED BY <3>2 DEF Channel!ChanNext
  <2> QED BY <2>2, <2>3
<1>3. CASE SetClientQueueMaxSize
  <2>1. Channel!SetLimit
    BY <1>3, QueueAssumption DEF SetClientQueueMaxSize, Channel!SetLimit
  <2> QED BY <2>1 DEF Channel!ChanNext
<1>4. CASE UNCHANGED <<clientQueueMaxSize, msgQueue, written, m_discardCount>>
  BY <1>4 DEF Channel!chanVars
<1> QED BY <1>1, <1>2, <1>3, <1>4 DEF QueueNext, SendPing, WriteSome, queueVars

\* With limits of at least two the server serves a client as BcChannel says:
\* one transmission at a time, the rest in a bounded line, exactly one waiting
\* message lost per message that finds the line full.
THEOREM QueueImplementsChannel == LimitsAboveOne /\ QueueSpec => ImplementsChannel
<1>1. QueueInit => Channel!ChanInit
  BY QueueAssumption DEF QueueInit, Channel!ChanInit
<1>2. CASE LimitsAboveOne
  <2>1. QueueTypes /\ [QueueNext]_queueVars => [Channel!ChanNext]_(Channel!chanVars)
    BY <1>2, StepImplementsChannel
  <2> QED BY <1>1, <2>1, InitTypes, TypesStep, PTL
          DEF QueueSpec, ImplementsChannel, Channel!ChanSpec
<1> QED BY <1>2
=============================================================================
