----------------------- MODULE BroadcastClientProofs -----------------------
(***************************************************************************)
(* Theorems about BroadcastClient, for any number of calls, failures and   *)
(* messages, when one thread makes all calls and the loop's thread waits   *)
(* for DoConnect before it disconnects.                                    *)
(*                                                                         *)
(* What the client keeps on the loop (connection, timers, event) is there  *)
(* only between a DoConnect and the DoDisconnect posted behind it, and     *)
(* m_state rests only outside of that.                                     *)
(***************************************************************************)
EXTENDS BroadcastClient, SequenceTheorems, TLAPS

\* The uses in which the code is right.
Orderly ==
  /\ \A C \in CallerSets : \E u : C = {u}
  /\ Patient

Resting == m_state \in {"IDLE", "STOPPED", "ERROR"}

\* Nothing of the client is on the loop, whatever was posted to it.
Bare ==
  /\ m_bev = "none" /\ ~m_handshakeDone
  /\ ~m_handshakeTimer /\ ~m_retryTimer

Con    == [run |-> "DoConnect"]
Dis(u) == [run |-> "DoDisconnect", by |-> u]

\* What is posted: a DoConnect, and behind it the DoDisconnect of the caller that waits.
Posts(u) ==
  /\ once \in {<<>>, <<Con>>, <<Dis(u)>>, <<Con, Dis(u)>>}
  /\ once \in {<<Con>>, <<Con, Dis(u)>>} => Bare
  /\ call[u].pc = "wait" /\ u \notin done <=> once \in {<<Dis(u)>>, <<Con, Dis(u)>>}
  /\ done \subseteq {u} /\ (u \in done => call[u].pc = "wait" /\ m_state = "STOPPED")

\* Where the caller is, and what m_state can be then.
Stages(u) ==
  /\ call[u].pc = "post" => m_state = "STARTING" /\ Bare /\ ~m_dispatchEvent /\ once = <<>>
  /\ m_state = "STOPPING" => call[u].pc \in {"schedule", "wait"}
  /\ call[u].pc = "schedule" => ~Resting
  /\ call[u].pc = "cas2" => Resting \/ m_state = "LISTENING"
  /\ call[u].pc = "cas3" => Resting
  /\ call[u].pc = "end" => m_state \in {"IDLE", "STOPPED"}
  /\ call[u].pc = "delete" => m_state = "STOPPED"
  /\ u = Loop /\ call[u].pc \in {"cas1", "cas2", "cas3", "schedule"} => once = <<>>

\* The pool is there while there may be messages, and no longer than the call that
\* deletes it.
PoolHeld(u) ==
  /\ Resting \/ call[u].pc = "post" =>
       call[u].pc \in {"wait", "delete"} \/ ~m_threadPool
  /\ ~m_threadPool => Bare /\ messages = 0 /\ once \notin {<<Con>>, <<Con, Dis(u)>>}

\* A destructor is no callback's, and a destroyed client is at rest.
Gone(u) ==
  /\ call[u].dtor => u \notin {Loop, Worker}
  /\ ~alive => m_state \in {"IDLE", "STOPPED"} /\ Idle(u) /\ u \notin {Loop, Worker}

\* A retry and a handshake's timeout belong to the connection there is.
TimersFit ==
  /\ m_retryTimer => m_bev = "none"
  /\ m_handshakeTimer => m_bev = "up"
  /\ m_handshakeDone => m_bev = "up"

RestIsBare == Resting => Bare /\ ~m_dispatchEvent /\ once = <<>>

\* A callback of the connection may still be running when a call of its own has
\* disconnected.
ReadHasReason == loop = "read" => m_handshakeDone \/ Loop \in callers

\* The inductive invariant.
ClientInv ==
  /\ TypeOK /\ TimersFit /\ RestIsBare /\ ReadHasReason
  /\ \A t \in Threads : t \notin callers => Idle(t)
  /\ \A u \in callers : Posts(u) /\ Stages(u) /\ PoolHeld(u) /\ Gone(u)

-----------------------------------------------------------------------------
Places   == {"idle", "post", "schedule", "wait", "delete", "end", "cas1", "cas2", "cas3"}
CallRecs == [pc : Places, dtor : BOOLEAN]
Typed    == call \in [Threads -> CallRecs]

LEMMA Calling ==
  ASSUME TypeOK
  PROVE  Typed
BY DEF TypeOK, Typed, CallRecs, Places, From

\* The one thread that calls.
LEMMA Caller ==
  ASSUME Orderly, ClientInv
  PROVE  \E u \in Threads :
           /\ callers = {u} /\ \A t \in Threads \ {u} : call[t] = NoCall
           /\ Posts(u) /\ Stages(u) /\ PoolHeld(u) /\ Gone(u)
<1>1. callers \in CallerSets
  BY DEF ClientInv, TypeOK
<1>2. PICK u : callers = {u}
  BY <1>1 DEF Orderly
<1>3. u \in Threads
  BY <1>1, <1>2 DEF Threads
<1> QED BY <1>2, <1>3 DEF ClientInv, Idle

\* It goes on to the next step, or is back.
LEMMA Goes ==
  ASSUME Typed, NEW t \in Threads, NEW p \in Places, Goto(t, p)
  PROVE  /\ Typed' /\ call'[t].pc = p /\ call'[t].dtor = call[t].dtor
         /\ \A o \in Threads \ {t} : call'[o] = call[o]
<1> DEFINE c == [call[t] EXCEPT !.pc = p]
<1>1. c \in CallRecs /\ c.pc = p /\ c.dtor = call[t].dtor
  BY DEF Typed, CallRecs
<1>2. call' = [call EXCEPT ![t] = c]
  BY DEF Goto
<1> HIDE DEF c
<1> QED BY <1>1, <1>2 DEF Typed

LEMMA Returns ==
  ASSUME Typed, NEW t \in Threads, Return(t)
  PROVE  /\ Typed' /\ call'[t] = NoCall /\ call'[t].pc = "idle" /\ ~call'[t].dtor
         /\ \A o \in Threads \ {t} : call'[o] = call[o]
<1>1. NoCall \in CallRecs /\ NoCall.pc = "idle" /\ ~NoCall.dtor
  BY DEF NoCall, CallRecs, Places
<1> QED BY <1>1 DEF Typed, Return

LEMMA AppendedPair ==
  ASSUME NEW a, NEW b
  PROVE  Append(<<a>>, b) = <<a, b>>
<1> DEFINE s == Append(<<a>>, b)
           p == <<a, b>>
<1>1. <<a>> \in Seq({a, b}) /\ Len(<<a>>) = 1 /\ <<a>>[1] = a
  OBVIOUS
<1>2. p \in Seq({a, b}) /\ Len(p) = 2 /\ p[1] = a /\ p[2] = b
  OBVIOUS
<1>3. s \in Seq({a, b}) /\ Len(s) = 2 /\ s[1] = a /\ s[2] = b
  BY <1>1, AppendProperties
<1> HIDE DEF s, p
<1>4. \A i \in 1..2 : s[i] = p[i]
  BY <1>2, <1>3
<1>5. s = p
  BY <1>2, <1>3, <1>4, SeqEqual
<1> QED BY <1>5 DEF s, p

\* The queue of event_base_once, which holds two entries at most.
LEMMA OnceFacts ==
  ASSUME NEW u
  PROVE  /\ Con.run = "DoConnect" /\ Dis(u).run = "DoDisconnect" /\ Dis(u).by = u
         /\ Append(<<>>, Con) = <<Con>> /\ Append(<<>>, Dis(u)) = <<Dis(u)>>
         /\ Append(<<Con>>, Dis(u)) = <<Con, Dis(u)>>
         /\ Head(<<Con>>) = Con /\ Tail(<<Con>>) = <<>>
         /\ Head(<<Dis(u)>>) = Dis(u) /\ Tail(<<Dis(u)>>) = <<>>
         /\ Head(<<Con, Dis(u)>>) = Con /\ Tail(<<Con, Dis(u)>>) = <<Dis(u)>>
<1>1. Con.run = "DoConnect" /\ Dis(u).run = "DoDisconnect" /\ Dis(u).by = u
  BY DEF Con, Dis
<1>2. Append(<<>>, Con) = <<Con>> /\ Append(<<>>, Dis(u)) = <<Dis(u)>>
  OBVIOUS
<1>3. Append(<<Con>>, Dis(u)) = <<Con, Dis(u)>>
  BY AppendedPair
<1>4. Head(<<Con>>) = Con /\ Head(<<Dis(u)>>) = Dis(u) /\ Head(<<Con, Dis(u)>>) = Con
  OBVIOUS
<1>5. Tail(<<Con>>) = <<>> /\ Tail(<<Dis(u)>>) = <<>>
  OBVIOUS
<1>6. Tail(<<Con, Dis(u)>>) = <<Dis(u)>>
  OBVIOUS
<1> QED BY <1>1, <1>2, <1>3, <1>4, <1>5, <1>6

LEMMA OnceDiffer ==
  ASSUME NEW u
  PROVE  /\ <<Con>> # <<>> /\ <<Dis(u)>> # <<>> /\ <<Con, Dis(u)>> # <<>>
         /\ <<Con>> # <<Dis(u)>> /\ <<Con, Dis(u)>> # <<Dis(u)>> /\ <<Con>> # <<Con, Dis(u)>>
<1>1. Con # Dis(u)
  BY OnceFacts
<1> QED BY <1>1

LEMMA OnceTyped ==
  ASSUME NEW u \in Threads
  PROVE  {<<>>, <<Con>>, <<Dis(u)>>, <<Con, Dis(u)>>} \subseteq Seq(Posted)
<1>1. Con \in Posted /\ Dis(u) \in Posted
  BY DEF Con, Dis, Posted
<1> QED BY <1>1

-----------------------------------------------------------------------------
\* The state without what the calls are at.
Stored ==
  /\ callers \in CallerSets
  /\ m_state \in States /\ m_bev \in {"none", "connecting", "up"}
  /\ {m_threadPool, m_handshakeDone, m_handshakeTimer, m_retryTimer, m_dispatchEvent,
      m_loopThreadId, alive, validConfig} \subseteq BOOLEAN
  /\ once \in Seq(Posted) /\ done \subseteq Threads /\ loop \in {"idle", "read"}
  /\ {messages, connects, fails} \subseteq Nat

Parts(u) == Posts(u) /\ Stages(u) /\ PoolHeld(u) /\ Gone(u)
Whole    == Stored /\ TimersFit /\ RestIsBare /\ ReadHasReason

LEMMA TypesAre == TypeOK <=> Stored /\ Typed /\ (m_handshakeDone => m_threadPool)
BY DEF TypeOK, Stored, Typed, CallRecs, Places, From

\* The invariant, about the one caller.
LEMMA Known ==
  ASSUME Orderly, ClientInv
  PROVE  /\ Whole /\ Typed
         /\ \E u \in Threads : /\ callers = {u} /\ Parts(u)
                               /\ \A t \in Threads \ {u} : call[t] = NoCall
<1>1. Whole /\ Typed
  BY TypesAre DEF ClientInv, Whole
<1> QED BY <1>1, Caller DEF Parts

LEMMA Kept ==
  ASSUME NEW u \in Threads, callers = {u}, callers' = callers, Whole', Typed', Parts(u)',
         \A t \in Threads \ {u} : call'[t] = NoCall
  PROVE  ClientInv'
<1>1. m_handshakeDone' => m_threadPool'
  BY DEF Parts, PoolHeld, Bare, Whole, Stored
<1>2. TypeOK'
  BY <1>1 DEF Whole, TypeOK, Stored, Typed, CallRecs, Places, From
<1> QED BY <1>2 DEF ClientInv, Whole, Parts, Idle

-----------------------------------------------------------------------------
LEMMA InitInv ==
  ASSUME Orderly, Init
  PROVE  ClientInv
<1>1. \A t \in Threads : call[t] = NoCall /\ call[t].pc = "idle" /\ ~call[t].dtor
  BY DEF Init, NoCall
<1>2. Typed
  BY DEF Init, Typed, NoCall, CallRecs, Places
<1>3. Stored
  <2>1. <<>> \in Seq(Posted) /\ 0 \in Nat
    BY EmptySeq
  <2> QED BY <2>1 DEF Init, Stored, States
<1>4. TypeOK
  BY <1>2, <1>3, TypesAre DEF Init
<1>5. TimersFit /\ RestIsBare /\ ReadHasReason
  BY DEF Init, TimersFit, RestIsBare, ReadHasReason, Bare
<1>6. ASSUME NEW u \in callers PROVE Posts(u) /\ Stages(u) /\ PoolHeld(u) /\ Gone(u)
  <2>1. u \in Threads
    BY <1>6 DEF Init, Threads
  <2>2. call[u].pc = "idle" /\ ~call[u].dtor
    BY <1>1, <2>1
  <2>3. Posts(u)
    BY <2>2, OnceDiffer DEF Init, Posts
  <2>4. Stages(u) /\ Gone(u)
    BY <2>2 DEF Init, Stages, Gone
  <2>5. PoolHeld(u)
    BY <2>2, OnceDiffer DEF Init, PoolHeld, Bare
  <2> QED BY <2>3, <2>4, <2>5
<1>7. \A t \in Threads : Idle(t)
  BY <1>1 DEF Idle
<1> QED BY <1>4, <1>5, <1>6, <1>7 DEF ClientInv

\* Connect.
LEMMA ConnectStep ==
  ASSUME Orderly, ClientInv, NEW t \in Threads, Connect(t)
  PROVE  ClientInv'
<1>1. /\ t \in callers /\ Idle(t) /\ alive /\ m_state \in {"IDLE", "STOPPED"}
      /\ m_state' = "STARTING" /\ connects' = connects + 1 /\ Goto(t, "post")
      /\ UNCHANGED <<m_threadPool, connVars, loopVars, messages, alive, config>>
  BY DEF Connect, MayCall
<1>2. /\ Whole /\ Typed /\ callers = {t} /\ Parts(t)
      /\ \A o \in Threads \ {t} : call[o] = NoCall
  BY <1>1, Known
<1>3. /\ Typed' /\ call'[t].pc = "post" /\ call'[t].dtor = call[t].dtor
      /\ \A o \in Threads \ {t} : call'[o] = call[o]
  BY <1>1, <1>2, Goes DEF Places
<1>4. call[t].pc = "idle" /\ ~call[t].dtor
  BY <1>1 DEF Idle, NoCall
<1>5. Bare /\ ~m_dispatchEvent /\ once = <<>>
  BY <1>1, <1>2 DEF Whole, RestIsBare, Resting
<1>6. Whole'
  BY <1>1, <1>2 DEF Whole, Stored, TimersFit, RestIsBare, Resting, ReadHasReason, States,
                    connVars, loopVars, config
<1>7. Parts(t)'
  <2>1. Posts(t)'
    BY <1>1, <1>2, <1>3, <1>4, <1>5, OnceDiffer DEF Parts, Posts, Bare, connVars, loopVars
  <2>2. Stages(t)' /\ Gone(t)'
    BY <1>1, <1>2, <1>3, <1>4, <1>5 DEF Stages, Gone, Bare, connVars, loopVars
  <2>3. PoolHeld(t)'
    BY <1>1, <1>2, <1>3, <1>4, <1>5, OnceDiffer
       DEF Parts, PoolHeld, Resting, Bare, connVars, loopVars
  <2> QED BY <2>1, <2>2, <2>3 DEF Parts
<1> QED BY <1>1, <1>2, <1>3, <1>6, <1>7, Kept DEF config

LEMMA ConnectPostsStep ==
  ASSUME Orderly, ClientInv, NEW t \in Threads, ConnectPosts(t)
  PROVE  ClientInv'
<1>1. /\ call[t].pc = "post" /\ m_threadPool' = TRUE /\ once' = Append(once, Con) /\ Return(t)
      /\ UNCHANGED <<m_state, connVars, m_loopThreadId, done, loop, fails, messages,
                     connects, alive, config>>
  BY DEF ConnectPosts, Con
<1>2. /\ Whole /\ Typed /\ callers = {t} /\ Parts(t)
      /\ \A o \in Threads \ {t} : call[o] = NoCall
  BY <1>1, Known DEF NoCall
<1>3. /\ Typed' /\ call'[t].pc = "idle" /\ ~call'[t].dtor /\ call'[t] = NoCall
      /\ \A o \in Threads \ {t} : call'[o] = call[o]
  BY <1>1, <1>2, Returns
<1>4. m_state = "STARTING" /\ Bare /\ ~m_dispatchEvent /\ once = <<>>
  BY <1>1, <1>2 DEF Parts, Stages
<1>5. once' = <<Con>> /\ once' \in Seq(Posted)
  BY <1>1, <1>4, OnceFacts, OnceTyped
<1>6. Whole'
  BY <1>1, <1>2, <1>4, <1>5 DEF Whole, Stored, TimersFit, RestIsBare, Resting, ReadHasReason,
                                connVars, config
<1>7. Parts(t)'
  <2>1. Posts(t)'
    BY <1>1, <1>2, <1>3, <1>4, <1>5, OnceDiffer DEF Parts, Posts, Bare, connVars
  <2>2. Stages(t)' /\ Gone(t)'
    BY <1>1, <1>2, <1>3, <1>4 DEF Parts, Stages, Gone
  <2>3. PoolHeld(t)'
    BY <1>1, <1>2, <1>3, <1>4 DEF Parts, PoolHeld, Resting
  <2> QED BY <2>1, <2>2, <2>3 DEF Parts
<1> QED BY <1>1, <1>2, <1>3, <1>6, <1>7, Kept DEF config

LEMMA ConnectRejectsStep ==
  ASSUME Orderly, ClientInv, NEW t \in Threads, ConnectRejects(t)
  PROVE  ClientInv'
<1>1. /\ call[t].pc = "post" /\ m_state' = "ERROR" /\ Return(t)
      /\ UNCHANGED <<m_threadPool, connVars, loopVars, messages, connects, alive, config>>
  BY DEF ConnectRejects
<1>2. /\ Whole /\ Typed /\ callers = {t} /\ Parts(t)
      /\ \A o \in Threads \ {t} : call[o] = NoCall
  BY <1>1, Known DEF NoCall
<1>3. /\ Typed' /\ call'[t].pc = "idle" /\ ~call'[t].dtor /\ call'[t] = NoCall
      /\ \A o \in Threads \ {t} : call'[o] = call[o]
  BY <1>1, <1>2, Returns
<1>4. m_state = "STARTING" /\ Bare /\ ~m_dispatchEvent /\ once = <<>>
  BY <1>1, <1>2 DEF Parts, Stages
<1>5. Whole'
  BY <1>1, <1>2, <1>4 DEF Whole, Stored, States, TimersFit, RestIsBare, Bare, ReadHasReason,
                          connVars, loopVars, config
<1>6. Parts(t)'
  <2>1. Posts(t)'
    BY <1>1, <1>2, <1>3, <1>4, OnceDiffer DEF Parts, Posts, Bare, connVars, loopVars
  <2>2. Stages(t)' /\ Gone(t)'
    BY <1>1, <1>2, <1>3, <1>4 DEF Parts, Stages, Gone
  <2>3. PoolHeld(t)'
    BY <1>1, <1>2, <1>3, <1>4, OnceDiffer
       DEF Parts, PoolHeld, Resting, Bare, connVars, loopVars
  <2> QED BY <2>1, <2>2, <2>3 DEF Parts
<1> QED BY <1>1, <1>2, <1>3, <1>5, <1>6, Kept DEF config

\* Disconnect and the destructor.
LEMMA DisconnectStep ==
  ASSUME Orderly, ClientInv, NEW t \in Threads, NEW dtor \in BOOLEAN, Disconnect(t, dtor)
  PROVE  ClientInv'
<1> DEFINE c == [pc |-> "cas1", dtor |-> dtor]
<1>1. /\ t \in callers /\ Idle(t) /\ alive /\ (dtor => t \notin {Loop, Worker})
      /\ t = Loop => once = <<>>
      /\ call' = [call EXCEPT ![t] = c]
      /\ UNCHANGED <<m_state, m_threadPool, connVars, loopVars, messages, connects, alive, config>>
  BY DEF Disconnect, MayCall, Orderly
<1>2. /\ Whole /\ Typed /\ callers = {t} /\ Parts(t)
      /\ \A o \in Threads \ {t} : call[o] = NoCall
  BY <1>1, Known
<1>3. c \in CallRecs /\ c.pc = "cas1" /\ c.dtor = dtor
  BY DEF CallRecs, Places
<1> HIDE DEF c
<1>4. /\ Typed' /\ call'[t].pc = "cas1" /\ call'[t].dtor = dtor
      /\ \A o \in Threads \ {t} : call'[o] = call[o]
  BY <1>1, <1>2, <1>3 DEF Typed
<1>5. call[t].pc = "idle" /\ ~call[t].dtor
  BY <1>1 DEF Idle, NoCall
<1>6. Whole'
  BY <1>1, <1>2 DEF Whole, Stored, TimersFit, RestIsBare, Resting, Bare, ReadHasReason,
                    connVars, loopVars, config
<1>7. Parts(t)'
  <2>1. Posts(t)'
    BY <1>1, <1>2, <1>4, <1>5 DEF Parts, Posts, Bare, connVars, loopVars
  <2>2. Stages(t)' /\ Gone(t)'
    BY <1>1, <1>2, <1>4, <1>5 DEF Parts, Stages, Gone, loopVars
  <2>3. PoolHeld(t)'
    BY <1>1, <1>2, <1>4, <1>5 DEF Parts, PoolHeld, Resting, Bare, connVars, loopVars
  <2> QED BY <2>1, <2>2, <2>3 DEF Parts
<1> QED BY <1>1, <1>2, <1>4, <1>6, <1>7, Kept DEF config

\* The compare-exchanges: the state is another one by the next only if it is overwritten.
LEMMA DisconnectCasStep ==
  ASSUME Orderly, ClientInv, NEW t \in Threads, DisconnectCas(t)
  PROVE  ClientInv'
<1>1. /\ call[t].pc \in {"cas1", "cas2", "cas3"}
      /\ UNCHANGED <<m_threadPool, connVars, loopVars, messages, connects, alive, config>>
  BY DEF DisconnectCas, From
<1>2. /\ Whole /\ Typed /\ callers = {t} /\ Parts(t)
      /\ \A o \in Threads \ {t} : call[o] = NoCall
  BY <1>1, Known DEF NoCall
<1>3. PICK p \in Places :
        /\ Goto(t, p)
        /\ \/ m_state' = "STOPPING" /\ p = "schedule"
           \/ /\ m_state' = m_state
              /\ \/ call[t].pc = "cas1" /\ m_state # "STARTING" /\ p = "cas2"
                 \/ call[t].pc = "cas2" /\ m_state # "LISTENING" /\ p = "cas3"
                 \/ call[t].pc = "cas3" /\ m_state # "ERROR" /\ p = "end"
  BY <1>1 DEF DisconnectCas, From, Else, Places
<1>4. /\ Typed' /\ call'[t].pc = p /\ call'[t].dtor = call[t].dtor
      /\ \A o \in Threads \ {t} : call'[o] = call[o]
  BY <1>2, <1>3, Goes
<1>5. m_state \in States
  BY <1>2 DEF Whole, Stored
<1>6. Whole'
  BY <1>1, <1>2, <1>3 DEF Whole, Stored, States, TimersFit, RestIsBare, Resting, Bare,
                          ReadHasReason, connVars, loopVars, config
<1>7. Parts(t)'
  <2>1. Posts(t)'
    BY <1>1, <1>2, <1>3, <1>4 DEF Parts, Posts, Bare, connVars, loopVars
  <2>2. Stages(t)'
    BY <1>1, <1>2, <1>3, <1>4, <1>5 DEF Parts, Stages, Resting, States, loopVars
  <2>3. PoolHeld(t)'
    BY <1>1, <1>2, <1>3, <1>4 DEF Parts, PoolHeld, Resting, Bare, connVars, loopVars
  <2>4. Gone(t)'
    BY <1>1, <1>2, <1>3, <1>4 DEF Parts, Gone, Idle, NoCall
  <2> QED BY <2>1, <2>2, <2>3, <2>4 DEF Parts
<1> QED BY <1>1, <1>2, <1>4, <1>6, <1>7, Kept DEF config

\* DoDisconnect by the loop's thread itself.
LEMMA DisconnectHereStep ==
  ASSUME Orderly, ClientInv, NEW t \in Threads, DisconnectHere(t)
  PROVE  ClientInv'
<1>1. /\ call[t].pc = "schedule" /\ t = Loop /\ Goto(t, "delete")
      /\ m_state' = "STOPPED" /\ Bare' /\ ~m_dispatchEvent'
      /\ {m_handshakeDone', m_handshakeTimer', m_retryTimer', m_dispatchEvent'} \subseteq BOOLEAN
      /\ UNCHANGED <<m_threadPool, loopVars, messages, connects, alive, config>>
  BY DEF DisconnectHere, DoDisconnect, Bare
<1>2. /\ Whole /\ Typed /\ callers = {t} /\ Parts(t)
      /\ \A o \in Threads \ {t} : call[o] = NoCall
  BY <1>1, Known DEF NoCall
<1>3. /\ Typed' /\ call'[t].pc = "delete" /\ call'[t].dtor = call[t].dtor
      /\ \A o \in Threads \ {t} : call'[o] = call[o]
  BY <1>1, <1>2, Goes DEF Places
<1>4. once = <<>>
  BY <1>1, <1>2 DEF Parts, Stages
<1>5. Whole'
  BY <1>1, <1>2, <1>4 DEF Whole, Stored, States, TimersFit, RestIsBare, Bare, ReadHasReason,
                          loopVars, config
<1>6. Parts(t)'
  <2>1. Posts(t)'
    BY <1>1, <1>2, <1>3, <1>4, OnceDiffer DEF Parts, Posts, loopVars
  <2>2. Stages(t)' /\ PoolHeld(t)'
    BY <1>1, <1>2, <1>3, <1>4, OnceDiffer DEF Parts, Stages, PoolHeld, loopVars
  <2>3. Gone(t)'
    BY <1>1, <1>2, <1>3 DEF Parts, Gone
  <2> QED BY <2>1, <2>2, <2>3 DEF Parts
<1> QED BY <1>1, <1>2, <1>3, <1>5, <1>6, Kept DEF config

LEMMA DisconnectPostsStep ==
  ASSUME Orderly, ClientInv, NEW t \in Threads, DisconnectPosts(t)
  PROVE  ClientInv'
<1>1. /\ call[t].pc = "schedule" /\ Goto(t, "wait") /\ once' = Append(once, Dis(t))
      /\ UNCHANGED <<m_state, m_threadPool, connVars, m_loopThreadId, done, loop, fails,
                     messages, connects, alive, config>>
  BY DEF DisconnectPosts, Dis
<1>2. /\ Whole /\ Typed /\ callers = {t} /\ Parts(t)
      /\ \A o \in Threads \ {t} : call[o] = NoCall
  BY <1>1, Known DEF NoCall
<1>3. /\ Typed' /\ call'[t].pc = "wait" /\ call'[t].dtor = call[t].dtor
      /\ \A o \in Threads \ {t} : call'[o] = call[o]
  BY <1>1, <1>2, Goes DEF Places
<1>4. ~Resting /\ once \in {<<>>, <<Con>>} /\ t \notin done
  BY <1>1, <1>2 DEF Parts, Stages, Posts
<1>5. /\ once' \in {<<Dis(t)>>, <<Con, Dis(t)>>} /\ once' \in Seq(Posted)
      /\ once' = <<Con, Dis(t)>> => once = <<Con>>
  <2>1. CASE once = <<>>
    <3>1. once' = <<Dis(t)>>
      BY <1>1, <2>1, OnceFacts
    <3> QED BY <3>1, OnceDiffer, OnceTyped
  <2>2. CASE once = <<Con>>
    <3>1. once' = <<Con, Dis(t)>>
      BY <1>1, <2>2, OnceFacts
    <3> QED BY <2>2, <3>1, OnceTyped
  <2> QED BY <1>4, <2>1, <2>2
<1>6. Whole'
  BY <1>1, <1>2, <1>4, <1>5 DEF Whole, Stored, TimersFit, RestIsBare, Resting, ReadHasReason,
                                connVars, config
<1>7. Parts(t)'
  <2>1. Posts(t)'
    BY <1>1, <1>2, <1>3, <1>4, <1>5, OnceDiffer DEF Parts, Posts, Bare, connVars
  <2>2. Stages(t)'
    BY <1>1, <1>2, <1>3 DEF Stages
  <2>3. PoolHeld(t)'
    BY <1>1, <1>2, <1>3, <1>4, <1>5, OnceDiffer DEF Parts, PoolHeld, Resting, Bare, connVars
  <2>4. Gone(t)'
    BY <1>1, <1>2, <1>3, <1>4 DEF Parts, Gone, Resting
  <2> QED BY <2>1, <2>2, <2>3, <2>4 DEF Parts
<1> QED BY <1>1, <1>2, <1>3, <1>6, <1>7, Kept DEF config

LEMMA DisconnectWaitsStep ==
  ASSUME Orderly, ClientInv, NEW t \in Threads, DisconnectWaits(t)
  PROVE  ClientInv'
<1>1. /\ call[t].pc = "wait" /\ t \in done /\ done' = done \ {t} /\ Goto(t, "delete")
      /\ UNCHANGED <<m_state, m_threadPool, connVars, m_loopThreadId, once, loop, fails,
                     messages, connects, alive, config>>
  BY DEF DisconnectWaits
<1>2. /\ Whole /\ Typed /\ callers = {t} /\ Parts(t)
      /\ \A o \in Threads \ {t} : call[o] = NoCall
  BY <1>1, Known DEF NoCall
<1>3. /\ Typed' /\ call'[t].pc = "delete" /\ call'[t].dtor = call[t].dtor
      /\ \A o \in Threads \ {t} : call'[o] = call[o]
  BY <1>1, <1>2, Goes DEF Places
<1>4. m_state = "STOPPED" /\ Bare /\ once = <<>> /\ done' = {}
  BY <1>1, <1>2 DEF Parts, Posts, Whole, RestIsBare, Resting
<1>5. Whole'
  BY <1>1, <1>2 DEF Whole, Stored, TimersFit, RestIsBare, Resting, Bare, ReadHasReason,
                    connVars, config
<1>6. Parts(t)'
  <2>1. Posts(t)'
    BY <1>1, <1>3, <1>4, OnceDiffer DEF Posts
  <2>2. Stages(t)' /\ PoolHeld(t)'
    BY <1>1, <1>2, <1>3, <1>4, OnceDiffer DEF Parts, Stages, PoolHeld, Bare, connVars
  <2>3. Gone(t)'
    BY <1>1, <1>2, <1>3 DEF Parts, Gone, Idle, NoCall
  <2> QED BY <2>1, <2>2, <2>3 DEF Parts
<1> QED BY <1>1, <1>2, <1>3, <1>5, <1>6, Kept DEF config

\* The pool's workers are over when it is deleted.
LEMMA DeletePoolStep ==
  ASSUME Orderly, ClientInv, NEW t \in Threads, DeletePool(t)
  PROVE  ClientInv'
<1>1. /\ call[t].pc = "delete" /\ (m_threadPool => messages = 0) /\ m_threadPool' = FALSE
      /\ Goto(t, "end")
      /\ UNCHANGED <<m_state, connVars, loopVars, messages, connects, alive, config>>
  BY DEF DeletePool
<1>2. /\ Whole /\ Typed /\ callers = {t} /\ Parts(t)
      /\ \A o \in Threads \ {t} : call[o] = NoCall
  BY <1>1, Known DEF NoCall
<1>3. /\ Typed' /\ call'[t].pc = "end" /\ call'[t].dtor = call[t].dtor
      /\ \A o \in Threads \ {t} : call'[o] = call[o]
  BY <1>1, <1>2, Goes DEF Places
<1>4. m_state = "STOPPED" /\ Bare /\ once = <<>> /\ messages = 0
  BY <1>1, <1>2 DEF Parts, Stages, PoolHeld, Whole, Stored, RestIsBare, Resting
<1>5. Whole'
  BY <1>1, <1>2 DEF Whole, Stored, TimersFit, RestIsBare, Resting, Bare, ReadHasReason,
                    connVars, loopVars, config
<1>6. Parts(t)'
  <2>1. Posts(t)'
    BY <1>1, <1>2, <1>3, <1>4, OnceDiffer DEF Parts, Posts, loopVars
  <2>2. Stages(t)' /\ PoolHeld(t)'
    BY <1>1, <1>3, <1>4, OnceDiffer DEF Stages, PoolHeld, Bare, connVars, loopVars
  <2>3. Gone(t)'
    BY <1>1, <1>2, <1>3 DEF Parts, Gone, Idle, NoCall
  <2> QED BY <2>1, <2>2, <2>3 DEF Parts
<1> QED BY <1>1, <1>2, <1>3, <1>5, <1>6, Kept DEF config

LEMMA DisconnectReturnsStep ==
  ASSUME Orderly, ClientInv, NEW t \in Threads, DisconnectReturnsNow(t)
  PROVE  ClientInv'
<1>1. /\ call[t].pc = "end" /\ alive' = (alive /\ ~call[t].dtor) /\ Return(t)
      /\ UNCHANGED <<m_state, m_threadPool, connVars, loopVars, messages, connects, config>>
  BY DEF DisconnectReturnsNow
<1>2. /\ Whole /\ Typed /\ callers = {t} /\ Parts(t)
      /\ \A o \in Threads \ {t} : call[o] = NoCall
  BY <1>1, Known DEF NoCall
<1>3. /\ Typed' /\ call'[t].pc = "idle" /\ ~call'[t].dtor /\ call'[t] = NoCall
      /\ \A o \in Threads \ {t} : call'[o] = call[o]
  BY <1>1, <1>2, Returns
<1>4. m_state \in {"IDLE", "STOPPED"} /\ Bare /\ once = <<>>
  BY <1>1, <1>2 DEF Parts, Stages, Whole, RestIsBare, Resting
<1>5. Whole'
  BY <1>1, <1>2 DEF Whole, Stored, TimersFit, RestIsBare, Resting, Bare, ReadHasReason,
                    connVars, loopVars, config
<1>6. Parts(t)'
  <2>1. Posts(t)'
    BY <1>1, <1>2, <1>3, <1>4, OnceDiffer DEF Parts, Posts, loopVars
  <2>2. Stages(t)' /\ PoolHeld(t)'
    BY <1>1, <1>2, <1>3, <1>4, OnceDiffer
       DEF Parts, Stages, PoolHeld, Resting, Bare, connVars, loopVars
  <2>3. Gone(t)'
    BY <1>1, <1>2, <1>3, <1>4 DEF Parts, Gone, Idle
  <2> QED BY <2>1, <2>2, <2>3 DEF Parts
<1> QED BY <1>1, <1>2, <1>3, <1>5, <1>6, Kept DEF config

-----------------------------------------------------------------------------
\* DoConnect was posted: nothing of the client is on the loop yet.
LEMMA OnceConnectsStep ==
  ASSUME Orderly, ClientInv, OnceConnects
  PROVE  ClientInv' /\ m_bev = "none"
<1>1. /\ loop = "idle" /\ Idle(Loop) /\ once # <<>> /\ Head(once).run = "DoConnect"
      /\ once' = Tail(once) /\ m_loopThreadId' = TRUE /\ m_dispatchEvent' = TRUE
      /\ \/ m_bev' = "connecting" /\ m_retryTimer' = FALSE /\ fails' = fails
         \/ m_bev' = "none" /\ m_retryTimer' = (m_state # "STOPPED") /\ fails' = fails + 1
      /\ UNCHANGED <<m_state, m_handshakeDone, m_handshakeTimer, rest>>
  BY DEF OnceConnects, DoConnect, LoopFree, MayRetry
<1>0. Whole /\ Typed
  BY Known
<1>2. PICK u \in Threads : /\ callers = {u} /\ Parts(u)
                           /\ \A t \in Threads \ {u} : call[t] = NoCall
  BY Known
<1>3. /\ once \in {<<Con>>, <<Con, Dis(u)>>} /\ once' \in {<<>>, <<Dis(u)>>}
      /\ once' = <<Dis(u)>> <=> once = <<Con, Dis(u)>>
      /\ once' \in Seq(Posted)
  <2>1. once \in {<<>>, <<Con>>, <<Dis(u)>>, <<Con, Dis(u)>>}
    BY <1>2 DEF Parts, Posts
  <2>2. once # <<Dis(u)>>
    BY <1>1, OnceFacts
  <2>3. CASE once = <<Con>>
    <3>1. once' = <<>>
      BY <1>1, <2>3, OnceFacts
    <3> QED BY <2>3, <3>1, OnceDiffer, OnceTyped
  <2>4. CASE once = <<Con, Dis(u)>>
    <3>1. once' = <<Dis(u)>>
      BY <1>1, <2>4, OnceFacts
    <3> QED BY <2>4, <3>1, OnceDiffer, OnceTyped
  <2> QED BY <1>1, <2>1, <2>2, <2>3, <2>4
<1>4. Bare /\ ~Resting /\ m_threadPool /\ alive
  BY <1>0, <1>1, <1>2, <1>3
     DEF Parts, Posts, PoolHeld, Gone, Whole, Stored, RestIsBare, Resting
<1>5. call[u].pc # "post" /\ (u = Loop => call[u].pc = "idle")
  BY <1>1, <1>2 DEF Parts, Stages, Idle, NoCall
<1>6. Whole'
  <2>1. /\ TimersFit' /\ m_bev' \in {"none", "connecting", "up"} /\ fails' \in Nat
        /\ {m_handshakeDone', m_handshakeTimer', m_retryTimer', m_dispatchEvent',
            m_loopThreadId'} \subseteq BOOLEAN
    <3>1. fails \in Nat
      BY <1>0 DEF Whole, Stored
    <3>2. fails' \in Nat
      BY <1>1, <3>1
    <3>3. ~m_handshakeDone' /\ ~m_handshakeTimer'
      BY <1>1, <1>4 DEF Bare
    <3>4. {m_handshakeDone', m_handshakeTimer'} \subseteq BOOLEAN
      BY <1>0, <1>1 DEF Whole, Stored
    <3>5. m_retryTimer' \in BOOLEAN
      BY <1>1
    <3> QED BY <1>1, <3>2, <3>3, <3>4, <3>5 DEF TimersFit
  <2>2. RestIsBare' /\ ReadHasReason'
    BY <1>1, <1>4 DEF RestIsBare, ReadHasReason, Resting, rest
  <2> QED BY <1>0, <1>1, <1>3, <1>4, <2>1, <2>2 DEF Whole, Stored, rest, config
<1>7. Parts(u)'
  <2>1. Posts(u)'
    BY <1>1, <1>2, <1>3, OnceDiffer DEF Parts, Posts, rest
  <2>2. Stages(u)' /\ Gone(u)'
    BY <1>1, <1>2, <1>4, <1>5 DEF Parts, Stages, Resting, Gone, rest
  <2>3. PoolHeld(u)'
    BY <1>1, <1>2, <1>4, <1>5 DEF PoolHeld, Resting, rest
  <2> QED BY <2>1, <2>2, <2>3 DEF Parts
<1>8. ClientInv'
  BY <1>0, <1>1, <1>2, <1>6, <1>7, Kept DEF rest, config, Typed
<1> QED BY <1>4, <1>8 DEF Bare

\* DoDisconnect was posted: it is the last entry, and its caller waits.
LEMMA OnceDisconnectsStep ==
  ASSUME Orderly, ClientInv, OnceDisconnects
  PROVE  ClientInv'
<1>1. /\ loop = "idle" /\ Idle(Loop) /\ once # <<>> /\ Head(once).run = "DoDisconnect"
      /\ once' = Tail(once) /\ done' = done \cup {Head(once).by}
      /\ m_state' = "STOPPED" /\ Bare' /\ ~m_dispatchEvent'
      /\ {m_handshakeDone', m_handshakeTimer', m_retryTimer', m_dispatchEvent'} \subseteq BOOLEAN
      /\ UNCHANGED <<m_threadPool, m_loopThreadId, loop, fails, messages, connects, call,
                     alive, config>>
  BY DEF OnceDisconnects, DoDisconnect, LoopFree, Bare
<1>0. Whole /\ Typed
  BY Known
<1>2. PICK u \in Threads : /\ callers = {u} /\ Parts(u)
                           /\ \A t \in Threads \ {u} : call[t] = NoCall
  BY Known
<1>3. once = <<Dis(u)>> /\ once' = <<>> /\ done' = {u} /\ call[u].pc = "wait"
  <2>1. once \in {<<>>, <<Con>>, <<Dis(u)>>, <<Con, Dis(u)>>} /\ done \subseteq {u}
    BY <1>2 DEF Parts, Posts
  <2>2. once = <<Dis(u)>>
    <3>1. Head(<<Con>>).run # "DoDisconnect" /\ Head(<<Con, Dis(u)>>).run # "DoDisconnect"
      BY OnceFacts
    <3> QED BY <1>1, <2>1, <3>1
  <2>3. Head(once).by = u /\ Tail(once) = <<>>
    BY <2>2, OnceFacts
  <2>4. call[u].pc = "wait"
    BY <1>2, <2>2 DEF Parts, Posts
  <2> QED BY <1>1, <2>1, <2>2, <2>3, <2>4
<1>4. Whole'
  <2>1. once' \in Seq(Posted) /\ done' \subseteq Threads
    BY <1>3, EmptySeq
  <2> QED BY <1>0, <1>1, <1>3, <2>1 DEF Whole, Stored, States, TimersFit, RestIsBare, Bare,
                                        ReadHasReason, config
<1>5. Parts(u)'
  <2>1. Posts(u)' /\ Stages(u)'
    BY <1>1, <1>3, OnceDiffer DEF Posts, Stages
  <2>2. PoolHeld(u)'
    BY <1>1, <1>2, <1>3, OnceDiffer DEF Parts, PoolHeld
  <2>3. Gone(u)'
    BY <1>1, <1>2, <1>3 DEF Parts, Gone, Idle, NoCall
  <2> QED BY <2>1, <2>2, <2>3 DEF Parts
<1> QED BY <1>0, <1>1, <1>2, <1>4, <1>5, Kept DEF config, Typed

\* While something of the client is on the loop it is not at rest, and no DoConnect waits.
LEMMA Busy ==
  ASSUME Whole, NEW u, Parts(u), ~Bare
  PROVE  /\ ~Resting /\ m_threadPool /\ alive /\ u \notin done
         /\ once \in {<<>>, <<Dis(u)>>}
         /\ call[u].pc \notin {"post", "cas3", "end", "delete"}
<1>1. ~Resting
  BY DEF Whole, RestIsBare
<1> QED BY <1>1 DEF Parts, Posts, Stages, PoolHeld, Gone, Resting, Whole, Stored

\* The connection comes up, fails, is lost, times out, is tried again, or has its
\* handshake.
LEMMA ConnectionStep ==
  ASSUME Orderly, ClientInv,
         OnRetryTimer \/ OnConnected \/ OnConnectFailed \/ OnLost \/ OnHandshakeTimeout \/ OnSettings
  PROVE  ClientInv' /\ (OnRetryTimer => m_bev = "none")
<1>0. Whole /\ Typed
  BY Known
<1>2. PICK u \in Threads : /\ callers = {u} /\ Parts(u)
                           /\ \A t \in Threads \ {u} : call[t] = NoCall
  BY Known
<1>3. /\ loop = "idle" /\ ~Bare /\ once' = once /\ done' = done
      /\ UNCHANGED <<m_threadPool, messages, connects, call, alive, config>>
      /\ m_state' = m_state \/ m_state' = "LISTENING"
      /\ loop' = "idle" \/ (loop' = "read" /\ m_handshakeDone')
  BY DEF OnRetryTimer, OnConnected, OnConnectFailed, OnLost, OnHandshakeTimeout, OnSettings,
         DoConnect, LoopFree, Bare, rest
<1>4. /\ m_bev' \in {"none", "connecting", "up"} /\ fails' \in Nat
      /\ {m_handshakeDone', m_handshakeTimer', m_retryTimer', m_dispatchEvent',
          m_loopThreadId'} \subseteq BOOLEAN
      /\ TimersFit' /\ (OnRetryTimer => m_bev = "none")
  <2>1. /\ TimersFit /\ m_bev \in {"none", "connecting", "up"} /\ fails \in Nat
        /\ {m_handshakeDone, m_handshakeTimer, m_retryTimer, m_dispatchEvent,
            m_loopThreadId} \subseteq BOOLEAN
    BY <1>0 DEF Whole, Stored
  <2>2. fails' \in Nat
    <3>1. fails' = fails \/ fails' = fails + 1
      BY DEF OnRetryTimer, DoConnect, OnConnected, OnConnectFailed, OnLost, OnHandshakeTimeout,
             OnSettings
    <3> QED BY <2>1, <3>1
  <2>3. OnRetryTimer => m_bev = "none"
    BY <2>1 DEF OnRetryTimer, TimersFit
  <2>4. CASE OnRetryTimer
    <3>1. /\ m_retryTimer /\ m_loopThreadId' = TRUE /\ m_dispatchEvent' = TRUE
          /\ UNCHANGED <<m_handshakeDone, m_handshakeTimer>>
          /\ \/ m_bev' = "connecting" /\ m_retryTimer' = FALSE
             \/ m_bev' = "none" /\ m_retryTimer' = (m_state # "STOPPED")
      BY <2>4 DEF OnRetryTimer, DoConnect, MayRetry
    <3>2. m_bev = "none" /\ ~m_handshakeTimer /\ ~m_handshakeDone
      BY <2>1, <3>1 DEF TimersFit
    <3> QED BY <2>1, <2>2, <3>1, <3>2 DEF TimersFit
  <2>5. CASE OnConnected \/ OnConnectFailed \/ OnLost
    <3>1. /\ UNCHANGED <<m_dispatchEvent, m_loopThreadId>>
          /\ \/ /\ m_bev = "connecting" /\ m_bev' = "up" /\ m_retryTimer' = FALSE
                /\ m_handshakeTimer' = TRUE /\ m_handshakeDone' = m_handshakeDone
             \/ /\ m_bev = "connecting" /\ m_bev' = "none"
                /\ m_retryTimer' = (m_state # "STOPPED")
                /\ UNCHANGED <<m_handshakeDone, m_handshakeTimer>>
             \/ /\ m_bev = "up" /\ m_bev' = "none"
                /\ m_retryTimer' = (m_state # "STOPPED")
                /\ m_handshakeDone' = FALSE /\ m_handshakeTimer' = FALSE
      BY <2>5 DEF OnConnected, OnConnectFailed, OnLost, MayRetry
    <3>2. /\ m_bev' \in {"none", "connecting", "up"}
          /\ {m_handshakeDone', m_handshakeTimer', m_retryTimer', m_dispatchEvent',
              m_loopThreadId'} \subseteq BOOLEAN
      BY <2>1, <3>1
    <3>3. TimersFit'
      BY <2>1, <3>1 DEF TimersFit
    <3> QED BY <2>2, <2>3, <3>2, <3>3
  <2>6. CASE OnHandshakeTimeout \/ OnSettings
    <3>1. /\ UNCHANGED <<m_dispatchEvent, m_loopThreadId>>
          /\ \/ /\ m_handshakeTimer /\ m_bev' = "none" /\ m_retryTimer' = TRUE
                /\ m_handshakeDone' = FALSE /\ m_handshakeTimer' = FALSE
             \/ /\ m_bev = "up" /\ UNCHANGED <<m_bev, m_retryTimer>>
                /\ m_handshakeDone' = TRUE /\ m_handshakeTimer' = FALSE
      BY <2>6 DEF OnHandshakeTimeout, OnSettings
    <3>2. /\ m_bev' \in {"none", "connecting", "up"}
          /\ {m_handshakeDone', m_handshakeTimer', m_retryTimer', m_dispatchEvent',
              m_loopThreadId'} \subseteq BOOLEAN
      BY <2>1, <3>1
    <3>3. TimersFit'
      BY <2>1, <3>1 DEF TimersFit
    <3> QED BY <2>2, <2>3, <3>2, <3>3
  <2> QED BY <2>4, <2>5, <2>6
<1>5. /\ ~Resting /\ m_threadPool /\ alive /\ u \notin done
      /\ once \in {<<>>, <<Dis(u)>>}
      /\ call[u].pc \notin {"post", "cas3", "end", "delete"}
  BY <1>0, <1>2, <1>3, Busy
<1>6. Whole'
  BY <1>0, <1>3, <1>4, <1>5 DEF Whole, Stored, States, RestIsBare, Resting, ReadHasReason, config
<1>7. Parts(u)'
  <2>1. Posts(u)'
    BY <1>2, <1>3, <1>5, OnceDiffer DEF Parts, Posts
  <2>2. Stages(u)'
    BY <1>2, <1>3, <1>5 DEF Parts, Stages, Resting
  <2>3. PoolHeld(u)' /\ Gone(u)'
    BY <1>2, <1>3, <1>5 DEF Parts, PoolHeld, Gone, Resting
  <2> QED BY <2>1, <2>2, <2>3 DEF Parts
<1>8. ClientInv'
  BY <1>0, <1>2, <1>3, <1>6, <1>7, Kept DEF config, Typed
<1> QED BY <1>4, <1>8

\* Messages come and are done with, and a callback ends.
LEMMA MessageStep ==
  ASSUME Orderly, ClientInv, OnMessage \/ ReadOn \/ MessageDone
  PROVE  ClientInv'
<1>0. Whole /\ Typed
  BY Known
<1>2. PICK u \in Threads : /\ callers = {u} /\ Parts(u)
                           /\ \A t \in Threads \ {u} : call[t] = NoCall
  BY Known
<1>3. /\ UNCHANGED <<m_state, m_threadPool, connVars, m_loopThreadId, once, done, fails,
                     connects, call, alive, config>>
      /\ loop' = loop \/ loop' = "idle"
      /\ messages' \in Nat /\ (messages' # messages => m_threadPool)
  <2>1. messages \in Nat /\ m_threadPool \in BOOLEAN
    BY <1>0 DEF Whole, Stored
  <2>2. CASE OnMessage
    BY <2>1, <2>2 DEF OnMessage, loopVars
  <2>3. CASE ReadOn
    BY <2>1, <2>3 DEF ReadOn
  <2>4. CASE MessageDone
    <3>1. messages > 0 /\ messages' = messages - 1
      BY <2>4 DEF MessageDone
    <3>2. messages' \in Nat /\ messages # 0
      BY <2>1, <3>1
    <3>3. m_threadPool
      BY <1>2, <3>2 DEF Parts, PoolHeld
    <3> QED BY <2>4, <3>2, <3>3 DEF MessageDone, loopVars
  <2> QED BY <2>2, <2>3, <2>4
<1>4. Whole'
  BY <1>0, <1>3 DEF Whole, Stored, TimersFit, RestIsBare, Resting, Bare, ReadHasReason,
                    connVars, config
<1>5. Parts(u)'
  <2>1. Posts(u)' /\ Stages(u)' /\ Gone(u)'
    BY <1>2, <1>3 DEF Parts, Posts, Stages, Gone, Resting, Bare, Idle, connVars
  <2>2. PoolHeld(u)'
    BY <1>2, <1>3 DEF Parts, PoolHeld, Resting, Bare, connVars
  <2> QED BY <2>1, <2>2 DEF Parts
<1> QED BY <1>0, <1>2, <1>3, <1>4, <1>5, Kept DEF config, Typed

-----------------------------------------------------------------------------
LEMMA StutterStep ==
  ASSUME Orderly, ClientInv, UNCHANGED vars
  PROVE  ClientInv'
<1>0. Whole /\ Typed
  BY Known
<1>2. PICK u \in Threads : /\ callers = {u} /\ Parts(u)
                           /\ \A t \in Threads \ {u} : call[t] = NoCall
  BY Known
<1>3. Whole'
  BY <1>0 DEF vars, Whole, Stored, TimersFit, RestIsBare, Resting, Bare, ReadHasReason,
              connVars, loopVars, config
<1>4. Parts(u)'
  <2>1. Posts(u)' /\ Stages(u)' /\ Gone(u)'
    BY <1>2 DEF vars, Parts, Posts, Stages, Gone, Resting, Bare, Idle, connVars, loopVars
  <2>2. PoolHeld(u)'
    BY <1>2 DEF vars, Parts, PoolHeld, Resting, Bare, connVars, loopVars
  <2> QED BY <2>1, <2>2 DEF Parts
<1> QED BY <1>0, <1>2, <1>3, <1>4, Kept DEF vars, config, Typed

LEMMA StepInv ==
  ASSUME Orderly, ClientInv, [Next]_vars
  PROVE  ClientInv'
<1>1. ASSUME NEW t \in Threads, CallStep(t) PROVE ClientInv'
  BY <1>1, ConnectPostsStep, ConnectRejectsStep, DisconnectCasStep, DisconnectHereStep,
     DisconnectPostsStep, DisconnectWaitsStep, DeletePoolStep, DisconnectReturnsStep DEF CallStep
<1>2. CASE Runs
  BY <1>2, OnceConnectsStep, OnceDisconnectsStep, ConnectionStep, MessageStep DEF Runs
<1> QED BY <1>1, <1>2, ConnectStep, DisconnectStep, ConnectionStep, MessageStep, StutterStep
        DEF Next

\* A stopped client has nothing left on the loop, and nothing uses a destroyed one
\* (DoConnect, DoDisconnect, ScheduleRetry and the destructor).
THEOREM StoppedStays ==
  ASSUME Orderly
  PROVE  Spec => []StoppedIsEmpty
<1>1. ClientInv => StoppedIsEmpty
  <2> SUFFICES ASSUME ClientInv PROVE StoppedIsEmpty
    OBVIOUS
  <2>1. TypeOK
    BY DEF ClientInv
  <2>2. m_state = "STOPPED" => /\ m_bev = "none" /\ ~m_handshakeDone /\ ~m_handshakeTimer
                               /\ ~m_retryTimer /\ ~m_dispatchEvent
    BY DEF ClientInv, RestIsBare, Resting, Bare
  <2>3. ASSUME ~alive
        PROVE  /\ once = <<>> /\ ~m_retryTimer /\ ~m_handshakeTimer /\ ~m_dispatchEvent
               /\ m_bev = "none" /\ loop = "idle" /\ messages = 0
    <3>1. PICK u \in Threads : callers = {u} /\ PoolHeld(u) /\ Gone(u)
      BY Caller
    <3>2. Resting /\ Bare /\ ~m_dispatchEvent /\ once = <<>> /\ u # Loop /\ call[u].pc = "idle"
      BY <2>3, <3>1 DEF ClientInv, RestIsBare, Resting, Gone, Idle, NoCall
    <3>3. messages = 0
      BY <3>1, <3>2 DEF PoolHeld
    <3>4. loop = "idle"
      BY <2>1, <3>1, <3>2 DEF ClientInv, ReadHasReason, Bare, TypeOK
    <3> QED BY <3>2, <3>3, <3>4 DEF Bare
  <2> QED BY <2>1, <2>2, <2>3 DEF StoppedIsEmpty
<1> QED BY <1>1, InitInv, StepInv, PTL DEF Spec

\* DoConnect finds no connection, and a retry is due only where there is none.
THEOREM ConnectionsDoNotOverlap ==
  ASSUME Orderly
  PROVE  Spec => OneConnection
<1>1. ClientInv /\ [Next]_vars => [(OnceConnects \/ OnRetryTimer) => m_bev = "none"]_vars
  BY OnceConnectsStep, ConnectionStep
<1> QED BY <1>1, InitInv, StepInv, PTL DEF Spec, OneConnection
=============================================================================
