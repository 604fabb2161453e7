------------------------ MODULE BroadcastTagsProofs ------------------------
(***************************************************************************)
(* Theorems about BroadcastTags, for any tags and any number of calls and  *)
(* of lost connections.                                                    *)
(***************************************************************************)
EXTENDS BroadcastTags, SequenceTheorems, TLAPS

(***************************************************************************)
(* What a sequence of frames makes of a set of tags: the last frame that   *)
(* names a tag decides.                                                    *)
(***************************************************************************)
Named(q, x) == \E i \in 1..Len(q) : x \in q[i].tags

LastSubscribes(q, x) ==
  \E i \in 1..Len(q) : /\ x \in q[i].tags /\ q[i].action = "subscribe"
                       /\ \A j \in 1..Len(q) : j > i => x \notin q[j].tags

Effect(base, q) ==
  {x \in Tags : LastSubscribes(q, x) \/ (x \in base /\ ~Named(q, x))}

Applied(base, f) == IF f.action = "subscribe" THEN base \cup f.tags ELSE base \ f.tags

\* The frame of a call that has changed the tags and not yet handed it on, behind
\* those that wait.
Coming(u) == IF call[u].pc \in {"look", "push"} THEN <<call[u].frame>> ELSE <<>>
Todo(u)   == m_pendingTasks \o Coming(u)

-----------------------------------------------------------------------------
\* GetTags shows what was asked for, each tag once.
ListIsWanted ==
  /\ m_currentTags \in [Tags -> 0..1]
  /\ Support(m_currentTags) = wanted

\* The loop's own calls never queue.
OneCalls ==
  /\ \A t \in Threads : t \notin callers => Idle(t)
  /\ ~Idle(Loop) => loop = "idle" /\ call[Loop].pc = "look"
  /\ Loop \in callers => m_pendingTasks = <<>>

QueuedIsAnnounced ==
  m_pendingTasks # <<>> => active \/ \E t \in Threads : call[t].pc = "wake"

\* Before the handshake nothing is sent, and what an earlier connection left to do
\* is over when the next one begins.
BeforeHandshake ==
  /\ ~m_handshakeDone =>
       /\ frames = <<>> /\ infoTags = {} /\ loop = "idle"
       /\ m_bev # "none" => /\ m_pendingTasks = <<>>
                            /\ \A t \in Threads : call[t].pc \notin {"push", "wake"}
  /\ loop = "settings" => frames = <<>> /\ infoTags = {}

\* What is under way makes the server's tags, or those it is about to be told, the
\* wanted ones.
Leads(u) ==
  m_bev # "none" =>
    IF m_handshakeDone /\ loop = "idle"
    THEN Effect(infoTags, frames \o Todo(u)) = wanted
    ELSE Effect(wanted, Todo(u)) = wanted

\* The inductive invariant.
TagsInv ==
  /\ TypeOK /\ ListIsWanted /\ OneCalls /\ QueuedIsAnnounced /\ BeforeHandshake
  /\ \A u \in callers : Leads(u)

-----------------------------------------------------------------------------
\* Two sequences one behind the other.
LEMMA Joined ==
  ASSUME NEW S, NEW p \in Seq(S), NEW q \in Seq(S)
  PROVE  LET s == p \o q
         IN  /\ s \in Seq(S) /\ Len(s) = Len(p) + Len(q)
             /\ Len(p) \in Nat /\ Len(q) \in Nat
             /\ \A i \in 1..Len(p) : s[i] = p[i]
             /\ \A i \in 1..Len(q) : s[Len(p) + i] = q[i]
<1>1. Len(p) \in Nat /\ Len(q) \in Nat
  BY LenProperties
<1>2. p \o q \in Seq(S) /\ Len(p \o q) = Len(p) + Len(q)
  BY ConcatProperties
<1>3. \A i \in 1..Len(p) + Len(q) :
        (p \o q)[i] = IF i <= Len(p) THEN p[i] ELSE q[i - Len(p)]
  BY ConcatProperties
<1>4. ASSUME NEW i \in 1..Len(p) PROVE (p \o q)[i] = p[i]
  <2>1. i \in 1..Len(p) + Len(q) /\ i <= Len(p)
    BY <1>1
  <2> QED BY <1>3, <2>1
<1>5. ASSUME NEW i \in 1..Len(q) PROVE (p \o q)[Len(p) + i] = q[i]
  <2>1. Len(p) + i \in 1..Len(p) + Len(q) /\ ~(Len(p) + i <= Len(p))
        /\ (Len(p) + i) - Len(p) = i
    BY <1>1
  <2> QED BY <1>3, <2>1
<1> QED BY <1>1, <1>2, <1>4, <1>5

LEMMA NamedJoined ==
  ASSUME NEW p \in Seq(Frames), NEW q \in Seq(Frames), NEW x
  PROVE  Named(p \o q, x) <=> Named(p, x) \/ Named(q, x)
<1> DEFINE s == p \o q
<1>1. PICK m \in Nat, n \in Nat : m = Len(p) /\ n = Len(q)
  BY LenProperties
<1>2. /\ Len(s) = m + n
      /\ \A i \in 1..m : s[i] = p[i]
      /\ \A i \in 1..n : s[m + i] = q[i]
  BY <1>1, Joined
<1> HIDE DEF s
<1>3. ASSUME Named(s, x) PROVE Named(p, x) \/ Named(q, x)
  <2>1. PICK i \in 1..m + n : x \in s[i].tags
    BY <1>2, <1>3 DEF Named
  <2>2. CASE i <= m
    <3>1. i \in 1..m /\ x \in p[i].tags
      BY <1>2, <2>1, <2>2
    <3> QED BY <1>1, <3>1 DEF Named
  <2>3. CASE ~(i <= m)
    <3>1. i - m \in 1..n /\ m + (i - m) = i
      BY <2>3
    <3>2. x \in q[i - m].tags
      BY <1>2, <2>1, <3>1
    <3> QED BY <1>1, <3>1, <3>2 DEF Named
  <2> QED BY <2>2, <2>3
<1>4. ASSUME Named(p, x) PROVE Named(s, x)
  <2>1. PICK i \in 1..m : x \in p[i].tags
    BY <1>1, <1>4 DEF Named
  <2>2. i \in 1..m + n /\ x \in s[i].tags
    BY <1>2, <2>1
  <2> QED BY <1>2, <2>2 DEF Named
<1>5. ASSUME Named(q, x) PROVE Named(s, x)
  <2>1. PICK i \in 1..n : x \in q[i].tags
    BY <1>1, <1>5 DEF Named
  <2>2. m + i \in 1..m + n /\ x \in s[m + i].tags
    BY <1>2, <2>1
  <2> QED BY <1>2, <2>2 DEF Named
<1> QED BY <1>3, <1>4, <1>5 DEF s

LEMMA LastJoined ==
  ASSUME NEW p \in Seq(Frames), NEW q \in Seq(Frames), NEW x
  PROVE  LastSubscribes(p \o q, x) <=>
           LastSubscribes(q, x) \/ (LastSubscribes(p, x) /\ ~Named(q, x))
<1> DEFINE s == p \o q
           Decides(r, l, i) == /\ x \in r[i].tags /\ r[i].action = "subscribe"
                               /\ \A j \in 1..l : j > i => x \notin r[j].tags
<1>1. PICK m \in Nat, n \in Nat : m = Len(p) /\ n = Len(q)
  BY LenProperties
<1>2. /\ Len(s) = m + n
      /\ \A i \in 1..m : s[i] = p[i]
      /\ \A i \in 1..n : s[m + i] = q[i]
  BY <1>1, Joined
<1> HIDE DEF s
<1>3. ASSUME LastSubscribes(s, x)
      PROVE  LastSubscribes(q, x) \/ (LastSubscribes(p, x) /\ ~Named(q, x))
  <2>1. PICK i \in 1..m + n : Decides(s, m + n, i)
    BY <1>2, <1>3 DEF LastSubscribes
  <2>2. CASE i <= m
    <3>1. i \in 1..m /\ x \in p[i].tags /\ p[i].action = "subscribe"
      BY <1>2, <2>1, <2>2
    <3>2. ASSUME NEW j \in 1..m, j > i PROVE x \notin p[j].tags
      <4>1. j \in 1..m + n /\ s[j] = p[j]
        BY <1>2
      <4> QED BY <2>1, <3>2, <4>1
    <3>3. ASSUME NEW j \in 1..n PROVE x \notin q[j].tags
      <4>1. m + j \in 1..m + n /\ m + j > i /\ s[m + j] = q[j]
        BY <1>2, <2>2
      <4> QED BY <2>1, <4>1
    <3> QED BY <1>1, <3>1, <3>2, <3>3 DEF LastSubscribes, Named
  <2>3. CASE ~(i <= m)
    <3>1. i - m \in 1..n /\ m + (i - m) = i
      BY <2>3
    <3>2. x \in q[i - m].tags /\ q[i - m].action = "subscribe"
      BY <1>2, <2>1, <3>1
    <3>3. ASSUME NEW j \in 1..n, j > i - m PROVE x \notin q[j].tags
      <4>1. m + j \in 1..m + n /\ m + j > i /\ s[m + j] = q[j]
        BY <1>2, <3>3
      <4> QED BY <2>1, <4>1
    <3> QED BY <1>1, <3>1, <3>2, <3>3 DEF LastSubscribes
  <2> QED BY <2>2, <2>3
<1>4. ASSUME LastSubscribes(q, x) PROVE LastSubscribes(s, x)
  <2>1. PICK i \in 1..n : Decides(q, n, i)
    BY <1>1, <1>4 DEF LastSubscribes
  <2>2. m + i \in 1..m + n /\ x \in s[m + i].tags /\ s[m + i].action = "subscribe"
    BY <1>2, <2>1
  <2>3. ASSUME NEW j \in 1..m + n, j > m + i PROVE x \notin s[j].tags
    <3>1. j - m \in 1..n /\ j - m > i /\ m + (j - m) = j
      BY <2>3
    <3> QED BY <1>2, <2>1, <3>1
  <2> QED BY <1>2, <2>2, <2>3 DEF LastSubscribes
<1>5. ASSUME LastSubscribes(p, x), ~Named(q, x) PROVE LastSubscribes(s, x)
  <2>1. PICK i \in 1..m : Decides(p, m, i)
    BY <1>1, <1>5 DEF LastSubscribes
  <2>2. i \in 1..m + n /\ x \in s[i].tags /\ s[i].action = "subscribe"
    BY <1>2, <2>1
  <2>3. ASSUME NEW j \in 1..m + n, j > i PROVE x \notin s[j].tags
    <3>1. CASE j <= m
      <4>1. j \in 1..m /\ s[j] = p[j]
        BY <1>2, <3>1
      <4> QED BY <2>1, <2>3, <4>1
    <3>2. CASE ~(j <= m)
      <4>1. j - m \in 1..n /\ m + (j - m) = j
        BY <3>2
      <4>2. s[j] = q[j - m]
        BY <1>2, <4>1
      <4> QED BY <1>1, <1>5, <4>1, <4>2 DEF Named
    <3> QED BY <3>1, <3>2
  <2> QED BY <1>2, <2>2, <2>3 DEF LastSubscribes
<1> QED BY <1>3, <1>4, <1>5 DEF s

\* Frames sent one sequence after the other take effect one after the other.
LEMMA EffectJoined ==
  ASSUME NEW base, NEW p \in Seq(Frames), NEW q \in Seq(Frames)
  PROVE  Effect(base, p \o q) = Effect(Effect(base, p), q)
<1>1. ASSUME NEW x \in Tags
      PROVE  x \in Effect(base, p \o q) <=> x \in Effect(Effect(base, p), q)
  BY NamedJoined, LastJoined DEF Effect
<1> QED BY <1>1 DEF Effect

LEMMA EffectNone ==
  ASSUME NEW base \in SUBSET Tags
  PROVE  Effect(base, <<>>) = base
<1>1. \A x : ~Named(<<>>, x) /\ ~LastSubscribes(<<>>, x)
  BY EmptySeq DEF Named, LastSubscribes
<1> QED BY <1>1 DEF Effect

LEMMA EffectOne ==
  ASSUME NEW base \in SUBSET Tags, NEW f \in Frames
  PROVE  /\ <<f>> \in Seq(Frames)
         /\ Effect(base, <<f>>) = Applied(base, f) /\ Applied(base, f) \in SUBSET Tags
<1> DEFINE s == <<f>>
<1>1. s \in Seq(Frames) /\ Len(s) = 1 /\ s[1] = f
  OBVIOUS
<1> HIDE DEF s
<1>2. f.action \in Actions /\ f.tags \in SUBSET Tags
  BY DEF Frames
<1>3. \A x : /\ Named(s, x) <=> x \in f.tags
             /\ LastSubscribes(s, x) <=> x \in f.tags /\ f.action = "subscribe"
  BY <1>1 DEF Named, LastSubscribes
<1>4. Effect(base, s) = Applied(base, f) /\ Applied(base, f) \in SUBSET Tags
  BY <1>2, <1>3 DEF Effect, Applied
<1> QED BY <1>1, <1>4 DEF s

LEMMA Appended ==
  ASSUME NEW q \in Seq(Frames), NEW f \in Frames
  PROVE  Append(q, f) = q \o <<f>> /\ Append(q, f) \in Seq(Frames)
OBVIOUS

LEMMA HeadFirst ==
  ASSUME NEW q \in Seq(Frames), q # <<>>
  PROVE  Head(q) \in Frames /\ Tail(q) \in Seq(Frames) /\ <<Head(q)>> \o Tail(q) = q
<1>1. Head(q) \in Frames /\ Tail(q) \in Seq(Frames) /\ Head(q) = q[1]
  BY HeadTailProperties
<1>2. Len(q) \in Nat \ {0}
  BY EmptySeq
<1>3. 1 \in 1..Len(q) /\ Len(q) \in 1..Len(q) /\ 1 + 1 = 2
  BY <1>2
<1>4. SubSeq(q, 1, Len(q)) = <<q[1]>> \o SubSeq(q, 1 + 1, Len(q))
  BY <1>3, SubSeqRecursiveFirst
<1>5. SubSeq(q, 1, Len(q)) = q /\ Tail(q) = SubSeq(q, 2, Len(q))
  BY SubSeqFull, TailIsSubSeq
<1> QED BY <1>1, <1>3, <1>4, <1>5

\* A sequence that leaves the tags as they are still does so with a further frame, for
\* the tags this frame makes.
LEMMA EffectKept ==
  ASSUME NEW w \in SUBSET Tags, NEW q \in Seq(Frames), Effect(w, q) = w, NEW f \in Frames
  PROVE  Effect(Applied(w, f), q \o <<f>>) = Applied(w, f)
<1>1. /\ <<f>> \in Seq(Frames) /\ Applied(w, f) \in SUBSET Tags
      /\ \A b \in SUBSET Tags : Effect(b, <<f>>) = Applied(b, f)
  BY EffectOne
<1> DEFINE b == Effect(Applied(w, f), q)
<1>2. b \in SUBSET Tags
  BY DEF Effect
<1>3. Effect(Applied(w, f), q \o <<f>>) = Applied(b, f)
  BY <1>1, <1>2, EffectJoined
<1>4. \A x \in Tags \ f.tags : x \in b <=> x \in w
  BY DEF Effect, Applied
<1> HIDE DEF b
<1>5. f.tags \in SUBSET Tags
  BY DEF Frames
<1>6. Applied(b, f) = Applied(w, f)
  BY <1>2, <1>4, <1>5 DEF Applied
<1> QED BY <1>3, <1>6

-----------------------------------------------------------------------------
\* The uses in which the code keeps the tags together: a tag is in the configuration
\* once, one thread makes the calls, and none outlasts a reconnect.
Orderly ==
  /\ InitialTags \in [Tags -> 0..1]
  /\ \A C \in CallerSets : \E u : C = {u}
  /\ Calm

LEMMA CallerIs ==
  ASSUME Orderly, TagsInv
  PROVE  /\ \E u \in Threads : callers = {u}
         /\ Loop \in Threads
         /\ \A t \in Threads : ~Idle(t) => callers = {t}
<1>1. callers \in CallerSets
  BY DEF TagsInv, TypeOK
<1>2. PICK u : callers = {u}
  BY <1>1 DEF Orderly
<1>3. u \in Threads
  BY <1>1, <1>2 DEF Threads
<1> QED BY <1>2, <1>3 DEF TagsInv, OneCalls, Threads

CallRecords == [pc : {"look", "push", "wake"}, frame : Frames]

LEMMA CallFacts ==
  ASSUME TypeOK, NEW t \in Threads
  PROVE  /\ Idle(t) => call[t].pc = "idle"
         /\ ~Idle(t) => /\ call[t] \in CallRecords /\ call[t].frame \in Frames
                        /\ call[t].pc \in {"look", "push", "wake"}
         /\ Coming(t) \in Seq(Frames) /\ Todo(t) \in Seq(Frames)
<1>1. call[t] \in {NoCall} \cup CallRecords
  BY DEF TypeOK, CallRecords
<1>2. Idle(t) => call[t].pc = "idle"
  BY DEF Idle, NoCall
<1>3. ~Idle(t) => /\ call[t] \in CallRecords /\ call[t].frame \in Frames
                  /\ call[t].pc \in {"look", "push", "wake"}
  BY <1>1 DEF Idle, CallRecords
<1>4. Coming(t) \in Seq(Frames)
  <2>1. CASE call[t].pc \in {"look", "push"}
    <3>1. call[t].frame \in Frames
      BY <1>2, <1>3, <2>1
    <3>2. <<call[t].frame>> \in Seq(Frames)
      BY <3>1, EffectOne, EmptySeq
    <3> QED BY <2>1, <3>2 DEF Coming
  <2>2. CASE call[t].pc \notin {"look", "push"}
    BY <2>2, EmptySeq DEF Coming
  <2> QED BY <2>1, <2>2
<1>5. Todo(t) \in Seq(Frames)
  BY <1>4, ConcatProperties DEF Todo, TypeOK
<1> QED BY <1>2, <1>3, <1>4, <1>5

\* A call's frame is about the thread that makes it.
LEMMA CallMade ==
  ASSUME TypeOK, NEW t \in Threads, NEW r, call' = [call EXCEPT ![t] = r]
  PROVE  call'[t] = r /\ \A u \in Threads \ {t} : call'[u] = call[u]
BY DEF TypeOK

-----------------------------------------------------------------------------
LEMMA InitInv ==
  ASSUME Orderly, Init
  PROVE  TagsInv
<1>1. InitialTags \in [Tags -> Nat] /\ Support(InitialTags) \in SUBSET Tags
  BY TagsAssumption DEF Support
<1>2. TypeOK
  <2>1. call \in [Threads -> {NoCall} \cup CallRecords]
    BY DEF Init
  <2>2. <<>> \in Seq(Frames) /\ 0 \in Nat
    BY EmptySeq
  <2> QED BY <1>1, <2>1, <2>2 DEF Init, TypeOK, CallRecords
<1>3. \A t \in Threads : Idle(t) /\ call[t].pc = "idle"
  BY DEF Init, Idle, NoCall
<1>4. ListIsWanted
  BY DEF Init, ListIsWanted, Orderly
<1>5. OneCalls
  BY <1>3 DEF Init, OneCalls, Threads
<1>6. QueuedIsAnnounced /\ BeforeHandshake
  BY DEF Init, QueuedIsAnnounced, BeforeHandshake
<1>7. \A u \in callers : Leads(u)
  BY DEF Init, Leads
<1> QED BY <1>2, <1>4, <1>5, <1>6, <1>7 DEF TagsInv

\* Subscribe and Unsubscribe: the frame comes behind all others.
LEMMA CallsStep ==
  ASSUME Orderly, TagsInv, NEW t \in Threads, NEW action \in Actions, NEW tags \in SUBSET Tags,
         Calls(t, action, tags)
  PROVE  TagsInv'
<1> DEFINE f == [action |-> action, tags |-> tags]
           r == [pc |-> "look", frame |-> f]
<1>1. f \in Frames /\ f.action = action /\ f.tags = tags
  BY DEF Frames
<1>2. r \in CallRecords /\ r.pc = "look" /\ r.frame = f /\ r # NoCall
  BY <1>1 DEF CallRecords, NoCall
<1>3. /\ t \in callers /\ Idle(t) /\ call' = [call EXCEPT ![t] = r]
      /\ t = Loop => loop = "idle"
      /\ UNCHANGED <<connVars, taskVars, loop, callers>>
  BY DEF Calls
<1> HIDE DEF r
<1>4. wanted' = Applied(wanted, f)
  BY <1>1 DEF Calls, Applied, Actions
<1> HIDE DEF f
<1>5. callers = {t}
  BY <1>3, CallerIs
<1>6. call'[t] = r /\ \A u \in Threads \ {t} : call'[u] = call[u]
  BY <1>3, CallMade DEF TagsInv
<1>7. TypeOK /\ ListIsWanted /\ OneCalls /\ QueuedIsAnnounced /\ BeforeHandshake /\ Leads(t)
  BY <1>3 DEF TagsInv
<1>8. m_currentTags' \in [Tags -> 0..1] /\ Support(m_currentTags)' = wanted'
  <2>1. m_currentTags' = Changed(action, tags)
    BY DEF Calls
  <2>2. \A x \in Tags : m_currentTags[x] \in 0..1 /\ (m_currentTags[x] > 0 <=> x \in wanted)
    BY <1>7 DEF ListIsWanted, Support
  <2>3. /\ Changed(action, tags) \in [Tags -> 0..1]
        /\ \A x \in Tags : Changed(action, tags)[x] > 0 <=>
             IF x \in tags THEN action = "subscribe" ELSE x \in wanted
    BY <2>2 DEF Changed, Actions
  <2>4. \A x \in Tags :
          x \in wanted' <=> IF x \in tags THEN action = "subscribe" ELSE x \in wanted
    BY <1>1, <1>4 DEF Applied, Actions
  <2>5. wanted' \in SUBSET Tags
    BY <1>1, <1>4, <1>7 DEF Applied, TypeOK
  <2> QED BY <2>1, <2>3, <2>4, <2>5 DEF Support
<1>9. TypeOK'
  <2>1. m_currentTags' \in [Tags -> Nat] /\ wanted' \in SUBSET Tags
    BY <1>8 DEF Support
  <2>2. calls' \in Nat
    BY <1>7 DEF Calls, TypeOK
  <2>3. call' \in [Threads -> {NoCall} \cup CallRecords]
    BY <1>2, <1>3, <1>7 DEF TypeOK, CallRecords
  <2> QED BY <1>3, <1>7, <2>1, <2>2, <2>3 DEF TypeOK, connVars, taskVars, CallRecords
<1>10. OneCalls'
  BY <1>2, <1>3, <1>6, <1>7 DEF OneCalls, Idle, taskVars
<1>11. QueuedIsAnnounced' /\ BeforeHandshake'
  <2>1. call[t].pc = "idle"
    BY <1>3, <1>7, CallFacts
  <2>2. \A u \in Threads : call[u].pc \in {"push", "wake"} <=> call'[u].pc \in {"push", "wake"}
    BY <1>2, <1>6, <2>1
  <2>3. \A u \in Threads : call[u].pc = "wake" <=> call'[u].pc = "wake"
    BY <1>2, <1>6, <2>1
  <2> QED BY <1>3, <1>7, <2>2, <2>3 DEF QueuedIsAnnounced, BeforeHandshake, taskVars, connVars
<1>12. Leads(t)'
  <2>1. Coming(t) = <<>> /\ Coming(t)' = <<f>> /\ m_pendingTasks \in Seq(Frames)
    BY <1>2, <1>3, <1>6, <1>7, CallFacts DEF Coming, TypeOK
  <2>2. Todo(t) = m_pendingTasks /\ Todo(t)' = m_pendingTasks \o <<f>>
    BY <1>3, <2>1, ConcatEmptySeq DEF Todo, taskVars
  <2>3. wanted \in SUBSET Tags /\ infoTags \in SUBSET Tags /\ frames \in Seq(Frames)
    BY <1>7 DEF TypeOK
  <2>4. <<f>> \in Seq(Frames) /\ \A b \in SUBSET Tags : Effect(b, <<f>>) = Applied(b, f)
    BY <1>1, EffectOne
  <2>5. ASSUME Effect(infoTags, frames \o m_pendingTasks) = wanted
        PROVE  Effect(infoTags, frames \o (m_pendingTasks \o <<f>>)) = Applied(wanted, f)
    <3>1. frames \o (m_pendingTasks \o <<f>>) = (frames \o m_pendingTasks) \o <<f>>
      BY <2>1, <2>3, <2>4, ConcatAssociative
    <3>2. frames \o m_pendingTasks \in Seq(Frames)
      BY <2>1, <2>3, ConcatProperties
    <3>3. Effect(infoTags, (frames \o m_pendingTasks) \o <<f>>) = Effect(wanted, <<f>>)
      BY <2>4, <2>5, <3>2, EffectJoined
    <3> QED BY <2>3, <2>4, <3>1, <3>3
  <2>6. ASSUME Effect(wanted, m_pendingTasks) = wanted
        PROVE  Effect(Applied(wanted, f), m_pendingTasks \o <<f>>) = Applied(wanted, f)
    BY <1>1, <2>1, <2>3, <2>6, EffectKept
  <2> QED BY <1>3, <1>4, <1>7, <2>2, <2>5, <2>6 DEF Leads, connVars
<1> QED BY <1>3, <1>5, <1>7, <1>8, <1>9, <1>10, <1>11, <1>12 DEF TagsInv, ListIsWanted

\* Before the handshake there is nothing to tell the server.
LEMMA LooksInVainStep ==
  ASSUME Orderly, TagsInv, NEW t \in Threads, LooksInVain(t)
  PROVE  TagsInv'
<1>1. /\ call[t].pc = "look" /\ ~m_handshakeDone /\ call' = [call EXCEPT ![t] = NoCall]
      /\ UNCHANGED <<tagVars, connVars, taskVars, loop, callers>>
  BY DEF LooksInVain, Return
<1>2. TypeOK /\ ListIsWanted /\ OneCalls /\ QueuedIsAnnounced /\ BeforeHandshake
  BY DEF TagsInv
<1>3. ~Idle(t) /\ callers = {t}
  BY <1>1, <1>2, CallFacts, CallerIs
<1>4. call'[t] = NoCall /\ \A u \in Threads \ {t} : call'[u] = call[u]
  BY <1>1, <1>2, CallMade
<1>5. TypeOK' /\ ListIsWanted'
  BY <1>1, <1>2 DEF TypeOK, ListIsWanted, tagVars, connVars, taskVars
<1>6. OneCalls'
  BY <1>1, <1>2, <1>4 DEF OneCalls, Idle, taskVars
<1>7. QueuedIsAnnounced' /\ BeforeHandshake'
  <2>1. \A u \in Threads : /\ call[u].pc = "wake" => call'[u].pc = "wake"
                           /\ call'[u].pc \in {"push", "wake"} => call[u].pc = call'[u].pc
    BY <1>1, <1>4 DEF NoCall
  <2> QED BY <1>1, <1>2, <2>1 DEF QueuedIsAnnounced, BeforeHandshake, taskVars, connVars
<1>8. Leads(t)'
  <2>1. Coming(t)' = <<>>
    BY <1>4 DEF Coming, NoCall
  <2>2. m_bev # "none" => Todo(t)' = <<>>
    BY <1>1, <1>2, <2>1, ConcatEmptySeq, EmptySeq DEF Todo, BeforeHandshake, taskVars
  <2>3. Effect(wanted, <<>>) = wanted
    BY <1>2, EffectNone DEF TypeOK
  <2> QED BY <1>1, <2>2, <2>3 DEF Leads, tagVars, connVars
<1> QED BY <1>1, <1>3, <1>5, <1>6, <1>7, <1>8 DEF TagsInv

\* On the loop thread the frame is written at once, and nothing waits.
LEMMA WritesHereStep ==
  ASSUME Orderly, TagsInv, NEW t \in Threads, WritesHere(t)
  PROVE  TagsInv'
<1>1. /\ call[t].pc = "look" /\ m_handshakeDone /\ t = Loop
      /\ call' = [call EXCEPT ![t] = NoCall] /\ frames' = Append(frames, call[t].frame)
      /\ UNCHANGED <<tagVars, m_bev, m_handshakeDone, infoTags, drops, taskVars, loop, callers>>
  BY DEF WritesHere, Return
<1>2. /\ TypeOK /\ ListIsWanted /\ OneCalls /\ QueuedIsAnnounced /\ BeforeHandshake
      /\ \A u \in callers : Leads(u)
  BY DEF TagsInv
<1>3. ~Idle(t) /\ callers = {t} /\ call[t].frame \in Frames
  BY <1>1, <1>2, CallFacts, CallerIs
<1>4. call'[t] = NoCall /\ \A u \in Threads \ {t} : call'[u] = call[u]
  BY <1>1, <1>2, CallMade
<1>5. loop = "idle" /\ m_pendingTasks = <<>>
  BY <1>1, <1>2, <1>3 DEF OneCalls
<1>6. frames \in Seq(Frames) /\ <<call[t].frame>> \in Seq(Frames)
      /\ frames' = frames \o <<call[t].frame>> /\ frames' \in Seq(Frames)
  BY <1>1, <1>2, <1>3, EffectOne DEF TypeOK
<1>7. TypeOK' /\ ListIsWanted'
  BY <1>1, <1>2, <1>6 DEF TypeOK, ListIsWanted, tagVars, taskVars
<1>8. OneCalls'
  BY <1>1, <1>2, <1>4 DEF OneCalls, Idle, taskVars
<1>9. QueuedIsAnnounced' /\ BeforeHandshake'
  BY <1>1, <1>5 DEF QueuedIsAnnounced, BeforeHandshake, taskVars
<1>10. Leads(t)'
  <2>1. Coming(t) = <<call[t].frame>> /\ Coming(t)' = <<>>
    BY <1>1, <1>4 DEF Coming, NoCall
  <2>2. Todo(t) = <<call[t].frame>> /\ Todo(t)' = <<>>
    BY <1>1, <1>5, <1>6, <2>1, ConcatEmptySeq, EmptySeq DEF Todo, taskVars
  <2>3. frames' \o <<>> = frames'
    BY <1>6, ConcatEmptySeq
  <2> QED BY <1>1, <1>2, <1>3, <1>5, <1>6, <2>2, <2>3 DEF Leads, tagVars
<1> QED BY <1>1, <1>3, <1>7, <1>8, <1>9, <1>10 DEF TagsInv

\* The frame is on its way from the call to the queue.
LEMMA QueueingStep ==
  ASSUME Orderly, TagsInv, NEW t \in Threads, LooksAtHandshake(t) \/ Pushes(t) \/ Wakes(t)
  PROVE  TagsInv'
<1>1. /\ UNCHANGED <<tagVars, connVars, loop, callers>>
      /\ \/ /\ call[t].pc = "look" /\ m_handshakeDone /\ t # Loop /\ UNCHANGED taskVars
            /\ call' = [call EXCEPT ![t].pc = "push"]
         \/ /\ call[t].pc = "push" /\ call' = [call EXCEPT ![t].pc = "wake"]
            /\ m_pendingTasks' = Append(m_pendingTasks, call[t].frame) /\ active' = active
         \/ /\ call[t].pc = "wake" /\ call' = [call EXCEPT ![t] = NoCall]
            /\ active' = TRUE /\ m_pendingTasks' = m_pendingTasks
  BY DEF LooksAtHandshake, Pushes, Wakes, Return
<1>2. /\ TypeOK /\ ListIsWanted /\ OneCalls /\ QueuedIsAnnounced /\ BeforeHandshake
      /\ \A u \in callers : Leads(u)
  BY DEF TagsInv
<1>3. /\ ~Idle(t) /\ callers = {t} /\ call[t].frame \in Frames /\ call[t] \in CallRecords
  BY <1>1, <1>2, CallFacts, CallerIs
<1>4. t # Loop /\ (m_bev # "none" => m_handshakeDone)
  BY <1>1, <1>2, <1>3 DEF OneCalls, BeforeHandshake
<1>5. PICK c : call' = [call EXCEPT ![t] = c] /\ c \in {NoCall} \cup CallRecords
        /\ \/ call[t].pc = "look" /\ c.pc = "push" /\ c.frame = call[t].frame
           \/ call[t].pc = "push" /\ c.pc = "wake" /\ c.frame = call[t].frame
           \/ call[t].pc = "wake" /\ c = NoCall
  <2>1. CASE call[t].pc \in {"look", "push"}
    <3>1. PICK p \in {"push", "wake"} :
            /\ call' = [call EXCEPT ![t].pc = p]
            /\ call[t].pc = IF p = "push" THEN "look" ELSE "push"
      BY <1>1, <2>1
    <3>2. LET c == [call[t] EXCEPT !.pc = p]
          IN  c \in CallRecords /\ c.pc = p /\ c.frame = call[t].frame
      BY <1>3 DEF CallRecords
    <3>3. call' = [call EXCEPT ![t] = [call[t] EXCEPT !.pc = p]]
      BY <3>1
    <3> QED BY <3>1, <3>2, <3>3
  <2>2. CASE call[t].pc \notin {"look", "push"}
    BY <1>1, <2>2
  <2> QED BY <2>1, <2>2
<1>6. call'[t] = c /\ \A u \in Threads \ {t} : call'[u] = call[u]
  BY <1>2, <1>5, CallMade
<1>a. /\ call[t].pc = "push" => m_pendingTasks' = m_pendingTasks \o <<call[t].frame>>
      /\ m_pendingTasks' \in Seq(Frames) /\ active' \in BOOLEAN
  <2>1. m_pendingTasks \in Seq(Frames) /\ active \in BOOLEAN
    BY <1>2 DEF TypeOK
  <2>2. /\ Append(m_pendingTasks, call[t].frame) = m_pendingTasks \o <<call[t].frame>>
        /\ Append(m_pendingTasks, call[t].frame) \in Seq(Frames)
    BY <1>3, <2>1, Appended
  <2> QED BY <1>1, <2>1, <2>2 DEF taskVars
<1>7. m_pendingTasks' \in Seq(Frames) /\ active' \in BOOLEAN
  BY <1>a
<1>8. TypeOK' /\ ListIsWanted'
  <2>1. call' \in [Threads -> {NoCall} \cup CallRecords]
    BY <1>2, <1>5 DEF TypeOK, CallRecords
  <2> QED BY <1>1, <1>2, <1>7, <2>1 DEF TypeOK, ListIsWanted, tagVars, connVars, CallRecords
<1>9. OneCalls'
  <2>1. Loop \notin callers' /\ Loop \in Threads
    BY <1>1, <1>3, <1>4, CallerIs
  <2>2. \A u \in Threads : u # t => call'[u] = NoCall
    BY <1>2, <1>3, <1>6 DEF OneCalls, Idle
  <2> QED BY <1>1, <1>3, <1>4, <2>1, <2>2 DEF OneCalls, Idle
<1>10. QueuedIsAnnounced'
  <2>1. CASE call[t].pc = "look"
    <3>1. \A u \in Threads : call[u].pc = "wake" => call'[u].pc = "wake"
      BY <1>6, <2>1
    <3> QED BY <1>1, <1>2, <2>1, <3>1 DEF QueuedIsAnnounced, taskVars
  <2>2. CASE call[t].pc = "push"
    BY <1>5, <1>6, <2>2 DEF QueuedIsAnnounced
  <2>3. CASE call[t].pc = "wake"
    BY <1>1, <2>3 DEF QueuedIsAnnounced
  <2> QED BY <1>1, <2>1, <2>2, <2>3
<1>11. BeforeHandshake'
  BY <1>1, <1>2, <1>4 DEF BeforeHandshake, connVars
<1>12. Leads(t)'
  <2>1. Todo(t)' = Todo(t)
    <3>1. CASE call[t].pc = "look"
      BY <1>1, <1>5, <1>6, <3>1 DEF Todo, Coming, taskVars
    <3>2. CASE call[t].pc = "push"
      <4>1. Coming(t) = <<call[t].frame>> /\ Coming(t)' = <<>>
        BY <1>5, <1>6, <3>2 DEF Coming
      <4>2. m_pendingTasks' \o <<>> = m_pendingTasks'
        BY <1>7, ConcatEmptySeq
      <4>3. m_pendingTasks' = m_pendingTasks \o <<call[t].frame>>
        BY <1>a, <3>2
      <4> QED BY <4>1, <4>2, <4>3 DEF Todo
    <3>3. CASE call[t].pc = "wake"
      BY <1>1, <1>5, <1>6, <3>3 DEF Todo, Coming, NoCall
    <3> QED BY <1>1, <3>1, <3>2, <3>3
  <2> QED BY <1>1, <1>2, <1>3, <2>1 DEF Leads, tagVars, connVars
<1> QED BY <1>1, <1>3, <1>8, <1>9, <1>10, <1>11, <1>12 DEF TagsInv

-----------------------------------------------------------------------------
\* When a lost connection is tried again, nothing is left of the calls.
LEMMA DoConnectStep ==
  ASSUME Orderly, TagsInv, DoConnect
  PROVE  TagsInv'
<1>1. /\ loop = "idle" /\ Idle(Loop) /\ m_bev = "none" /\ m_bev' = "connecting"
      /\ callers # {Loop} => ~active /\ \A t \in Threads : Idle(t)
      /\ UNCHANGED <<tagVars, m_handshakeDone, frames, infoTags, drops, taskVars,
                     loop, call, callers>>
  BY DEF DoConnect, LoopFree, Orderly
<1>2. TypeOK /\ ListIsWanted /\ OneCalls /\ QueuedIsAnnounced /\ BeforeHandshake
  BY DEF TagsInv
<1>3. \A t \in Threads : call[t] = NoCall
  BY <1>1, <1>2 DEF OneCalls, Idle
<1>4. m_pendingTasks = <<>>
  BY <1>1, <1>2, <1>3 DEF OneCalls, QueuedIsAnnounced, NoCall
<1>5. TypeOK' /\ ListIsWanted' /\ OneCalls' /\ QueuedIsAnnounced'
  BY <1>1, <1>2 DEF TypeOK, ListIsWanted, OneCalls, Idle, QueuedIsAnnounced, tagVars, taskVars
<1>6. BeforeHandshake'
  BY <1>1, <1>2, <1>3, <1>4 DEF BeforeHandshake, taskVars, NoCall
<1>7. ASSUME NEW u \in callers PROVE Leads(u)'
  <2>1. u \in Threads
    BY <1>7, CallerIs
  <2>2. Todo(u)' = <<>> \o <<>>
    BY <1>1, <1>3, <1>4, <2>1 DEF Todo, Coming, NoCall, taskVars
  <2>3. <<>> \o <<>> = <<>> /\ Effect(wanted, <<>>) = wanted
    BY <1>2, EffectNone, ConcatEmptySeq, EmptySeq DEF TypeOK
  <2>4. ~m_handshakeDone'
    BY <1>1, <1>2 DEF TypeOK
  <2> QED BY <1>1, <2>2, <2>3, <2>4 DEF Leads, tagVars
<1> QED BY <1>1, <1>5, <1>6, <1>7 DEF TagsInv

\* The connection is up, or goes on to the handshake: the server still knows nothing.
LEMMA ConnectionStep ==
  ASSUME Orderly, TagsInv, OnConnected \/ OnSettings
  PROVE  TagsInv'
<1>1. /\ loop = "idle" /\ Idle(Loop) /\ ~m_handshakeDone /\ m_bev # "none" /\ m_bev' = "up"
      /\ UNCHANGED <<tagVars, frames, infoTags, drops, taskVars, call, callers>>
      /\ \/ m_handshakeDone' = FALSE /\ loop' = "idle"
         \/ m_handshakeDone' = TRUE /\ loop' = "settings"
  BY DEF OnConnected, OnSettings, LoopFree, TagsInv, TypeOK
<1>2. /\ TypeOK /\ ListIsWanted /\ OneCalls /\ QueuedIsAnnounced /\ BeforeHandshake
      /\ \A u \in callers : Leads(u)
  BY DEF TagsInv
<1>3. TypeOK' /\ ListIsWanted' /\ OneCalls' /\ QueuedIsAnnounced'
  BY <1>1, <1>2 DEF TypeOK, ListIsWanted, OneCalls, Idle, QueuedIsAnnounced, tagVars, taskVars
<1>4. BeforeHandshake'
  BY <1>1, <1>2 DEF BeforeHandshake, taskVars
<1>5. ASSUME NEW u \in callers PROVE Leads(u)'
  BY <1>1, <1>2 DEF Leads, Todo, Coming, tagVars, taskVars
<1> QED BY <1>1, <1>3, <1>4, <1>5 DEF TagsInv

\* With the connection everything that was sent is gone.
LEMMA OnLostStep ==
  ASSUME Orderly, TagsInv, OnLost
  PROVE  TagsInv'
<1>1. /\ loop = "idle" /\ m_bev' = "none" /\ m_handshakeDone' = FALSE
      /\ frames' = <<>> /\ infoTags' = {} /\ drops' = drops + 1
      /\ UNCHANGED <<tagVars, taskVars, loop, call, callers>>
  BY DEF OnLost, LoopFree
<1>2. TypeOK /\ ListIsWanted /\ OneCalls /\ QueuedIsAnnounced
  BY DEF TagsInv
<1>3. TypeOK'
  <2>1. frames' \in Seq(Frames) /\ infoTags' \in SUBSET Tags /\ drops' \in Nat
    BY <1>1, <1>2, EmptySeq DEF TypeOK
  <2> QED BY <1>1, <1>2, <2>1 DEF TypeOK, tagVars, taskVars
<1>4. ListIsWanted' /\ OneCalls' /\ QueuedIsAnnounced' /\ BeforeHandshake'
  BY <1>1, <1>2 DEF ListIsWanted, OneCalls, Idle, QueuedIsAnnounced, BeforeHandshake, tagVars,
                    taskVars
<1>5. \A u \in callers' : Leads(u)'
  BY <1>1 DEF Leads
<1> QED BY <1>3, <1>4, <1>5 DEF TagsInv

\* After the handshake the server is told the tags as they are by then.
LEMMA SendCurrentTagsStep ==
  ASSUME Orderly, TagsInv, SendCurrentTags
  PROVE  TagsInv'
<1> DEFINE f == [action |-> "subscribe", tags |-> wanted]
<1>1. /\ loop = "settings" /\ loop' = "idle"
      /\ UNCHANGED <<tagVars, m_bev, m_handshakeDone, infoTags, drops, taskVars, call, callers>>
  BY DEF SendCurrentTags
<1>2. /\ TypeOK /\ ListIsWanted /\ OneCalls /\ QueuedIsAnnounced /\ BeforeHandshake
      /\ \A u \in callers : Leads(u)
  BY DEF TagsInv
<1>3. frames = <<>> /\ infoTags = {} /\ m_handshakeDone /\ m_bev = "up"
  BY <1>1, <1>2 DEF BeforeHandshake, TypeOK
<1>4. f \in Frames /\ f.action = "subscribe" /\ f.tags = wanted
  BY <1>2 DEF TypeOK, Frames, Actions
<1>5. frames' = IF wanted = {} THEN frames ELSE Append(frames, f)
  BY <1>2 DEF SendCurrentTags, ListIsWanted
<1> HIDE DEF f
<1>6. frames' \in Seq(Frames) /\ Effect({}, frames') = wanted
  <2>1. CASE wanted = {}
    BY <1>3, <1>5, <2>1, EffectNone, EmptySeq
  <2>2. CASE wanted # {}
    <3>1. Append(<<>>, f) = <<f>> /\ {} \cup wanted = wanted /\ {} \in SUBSET Tags
      OBVIOUS
    <3>2. <<f>> \in Seq(Frames) /\ Effect({}, <<f>>) = Applied({}, f)
      BY <1>4, <3>1, EffectOne
    <3>3. Applied({}, f) = wanted
      BY <1>4 DEF Applied
    <3> QED BY <1>3, <1>5, <2>2, <3>1, <3>2, <3>3
  <2> QED BY <2>1, <2>2
<1>7. TypeOK' /\ ListIsWanted' /\ OneCalls' /\ QueuedIsAnnounced'
  BY <1>1, <1>2, <1>6 DEF TypeOK, ListIsWanted, OneCalls, Idle, QueuedIsAnnounced, tagVars,
                          taskVars
<1>8. BeforeHandshake'
  BY <1>1, <1>3 DEF BeforeHandshake
<1>9. ASSUME NEW u \in callers PROVE Leads(u)'
  <2>1. Todo(u)' = Todo(u) /\ wanted' = wanted
    BY <1>1 DEF Todo, Coming, tagVars, taskVars
  <2>2. Effect(wanted, Todo(u)) = wanted
    BY <1>1, <1>2, <1>3, <1>9 DEF Leads
  <2>3. Todo(u) \in Seq(Frames)
    BY <1>2, <1>9, CallFacts, CallerIs
  <2>4. Effect(infoTags, frames' \o Todo(u)) = wanted
    BY <1>3, <1>6, <2>2, <2>3, EffectJoined
  <2> QED BY <1>1, <1>3, <2>1, <2>4 DEF Leads
<1> QED BY <1>1, <1>7, <1>8, <1>9 DEF TagsInv

\* The frames that waited are written, or are gone with the connection.
LEMMA OnDispatchStep ==
  ASSUME Orderly, TagsInv, OnDispatchEvent
  PROVE  TagsInv'
<1>1. /\ loop = "idle" /\ active' = FALSE /\ m_pendingTasks' = <<>>
      /\ frames' = IF m_bev = "none" THEN frames ELSE frames \o m_pendingTasks
      /\ UNCHANGED <<tagVars, m_bev, m_handshakeDone, infoTags, drops, loop, call, callers>>
  BY DEF OnDispatchEvent, LoopFree
<1>2. TypeOK /\ ListIsWanted /\ OneCalls /\ BeforeHandshake /\ \A u \in callers : Leads(u)
  BY DEF TagsInv
<1>3. frames \in Seq(Frames) /\ m_pendingTasks \in Seq(Frames) /\ frames' \in Seq(Frames)
      /\ <<>> \in Seq(Frames)
  BY <1>1, <1>2, ConcatProperties, EmptySeq DEF TypeOK
<1>4. TypeOK' /\ ListIsWanted' /\ OneCalls' /\ QueuedIsAnnounced'
  BY <1>1, <1>2, <1>3 DEF TypeOK, ListIsWanted, OneCalls, Idle, QueuedIsAnnounced, tagVars
<1>5. BeforeHandshake'
  <2>1. ~m_handshakeDone => frames' = <<>>
    BY <1>1, <1>2, ConcatEmptySeq, EmptySeq DEF BeforeHandshake
  <2> QED BY <1>1, <1>2, <2>1 DEF BeforeHandshake
<1>6. ASSUME NEW u \in callers, m_bev # "none" PROVE Leads(u)'
  <2>1. u \in Threads /\ Coming(u) \in Seq(Frames)
    BY <1>2, <1>6, CallFacts, CallerIs
  <2>2. Coming(u)' = Coming(u) /\ <<>> \o Coming(u) = Coming(u)
    BY <1>1, <2>1, ConcatEmptySeq DEF Coming
  <2>3. Todo(u)' = Coming(u)
    BY <1>1, <2>2 DEF Todo
  <2>4. frames' \o Todo(u)' = frames \o Todo(u)
    <3>1. (frames \o m_pendingTasks) \o Coming(u) = frames \o (m_pendingTasks \o Coming(u))
      BY <1>3, <2>1, ConcatAssociative
    <3> QED BY <1>1, <1>6, <2>3, <3>1 DEF Todo
  <2>5. ~m_handshakeDone => Todo(u)' = Todo(u)
    BY <1>2, <1>6, <2>2, <2>3 DEF BeforeHandshake, Todo
  <2> QED BY <1>1, <1>2, <1>6, <2>4, <2>5 DEF Leads, tagVars
<1>7. \A u \in callers' : Leads(u)'
  BY <1>1, <1>6 DEF Leads
<1> QED BY <1>4, <1>5, <1>7 DEF TagsInv

\* The server applies the next frame.
LEMMA ServerReadsStep ==
  ASSUME Orderly, TagsInv, ServerReads
  PROVE  TagsInv'
<1> DEFINE f == Head(frames)
           rest == Tail(frames)
<1>1. /\ frames # <<>> /\ frames' = rest
      /\ infoTags' = Applied(infoTags, f)
      /\ UNCHANGED <<tagVars, m_bev, m_handshakeDone, drops, taskVars, loop, call, callers>>
  BY DEF ServerReads, Applied
<1>2. /\ TypeOK /\ ListIsWanted /\ OneCalls /\ QueuedIsAnnounced /\ BeforeHandshake
      /\ \A u \in callers : Leads(u)
  BY DEF TagsInv
<1>3. frames \in Seq(Frames) /\ f \in Frames /\ rest \in Seq(Frames) /\ <<f>> \o rest = frames
  <2>1. frames \in Seq(Frames)
    BY <1>2 DEF TypeOK
  <2> QED BY <1>1, <2>1, HeadFirst
<1> HIDE DEF f, rest
<1>4. infoTags \in SUBSET Tags
  BY <1>2 DEF TypeOK
<1>5. infoTags' \in SUBSET Tags /\ Effect(infoTags, <<f>>) = infoTags' /\ <<f>> \in Seq(Frames)
  BY <1>1, <1>3, <1>4, EffectOne
<1>6. TypeOK' /\ ListIsWanted' /\ OneCalls' /\ QueuedIsAnnounced'
  BY <1>1, <1>2, <1>3, <1>5 DEF TypeOK, ListIsWanted, OneCalls, Idle, QueuedIsAnnounced,
                                tagVars, taskVars
<1>7. m_handshakeDone /\ loop = "idle"
  BY <1>1, <1>2 DEF BeforeHandshake, TypeOK
<1>8. BeforeHandshake'
  BY <1>1, <1>7 DEF BeforeHandshake
<1>9. ASSUME NEW u \in callers PROVE Leads(u)'
  <2>1. Todo(u)' = Todo(u) /\ Todo(u) \in Seq(Frames)
    BY <1>1, <1>2, <1>9, CallFacts, CallerIs DEF Todo, Coming, taskVars
  <2>2. rest \o Todo(u) \in Seq(Frames)
    BY <1>3, <2>1, ConcatProperties
  <2>3. frames \o Todo(u) = <<f>> \o (rest \o Todo(u))
    <3>1. (<<f>> \o rest) \o Todo(u) = <<f>> \o (rest \o Todo(u))
      BY <1>3, <1>5, <2>1, ConcatAssociative
    <3> QED BY <1>3, <3>1
  <2>4. Effect(infoTags, frames \o Todo(u)) = Effect(infoTags', rest \o Todo(u))
    <3>1. Effect(infoTags, <<f>> \o (rest \o Todo(u)))
            = Effect(Effect(infoTags, <<f>>), rest \o Todo(u))
      BY <1>5, <2>2, EffectJoined
    <3> QED BY <1>5, <2>3, <3>1
  <2> QED BY <1>1, <1>2, <1>7, <1>9, <2>1, <2>4 DEF Leads, tagVars
<1> QED BY <1>1, <1>6, <1>8, <1>9 DEF TagsInv

-----------------------------------------------------------------------------
LEMMA StepInv ==
  ASSUME Orderly, TagsInv, [Next]_vars
  PROVE  TagsInv'
<1>1. CASE UNCHANGED vars
  <2>1. UNCHANGED <<tagVars, m_bev, m_handshakeDone, frames, infoTags, drops, m_pendingTasks,
                    active, loop, call, callers>>
    BY <1>1 DEF vars, connVars, taskVars
  <2>2. TypeOK' /\ ListIsWanted' /\ OneCalls' /\ QueuedIsAnnounced' /\ BeforeHandshake'
    BY <2>1 DEF TagsInv, TypeOK, ListIsWanted, OneCalls, Idle, QueuedIsAnnounced,
                BeforeHandshake, tagVars
  <2>3. \A u \in callers' : Leads(u)'
    BY <2>1 DEF TagsInv, Leads, Todo, Coming, tagVars
  <2> QED BY <2>2, <2>3 DEF TagsInv
<1>2. ASSUME NEW t \in Threads, CallStep(t) PROVE TagsInv'
  BY <1>2, LooksInVainStep, WritesHereStep, QueueingStep DEF CallStep
<1> QED BY <1>1, <1>2, CallsStep, DoConnectStep, ConnectionStep, OnLostStep, SendCurrentTagsStep,
           OnDispatchStep, ServerReadsStep DEF Next

\* On a connection at rest the server sends what the callers asked for (Subscribe,
\* Unsubscribe, SendCurrentTags), whatever was lost and tried again in between.
THEOREM TagsAgreeAtRest ==
  ASSUME Orderly
  PROVE  Spec => []TagsAgree
<1>1. TagsInv => TagsAgree
  <2> SUFFICES ASSUME TagsInv, Quiet PROVE infoTags = wanted /\ Support(m_currentTags) = wanted
    BY DEF TagsInv, TagsAgree
  <2>1. PICK u \in Threads : callers = {u}
    BY CallerIs
  <2>2. TypeOK /\ ListIsWanted /\ Leads(u) /\ Idle(u)
    BY <2>1 DEF TagsInv, Quiet
  <2>3. frames \o Todo(u) = <<>>
    BY <2>2, CallFacts, ConcatEmptySeq, EmptySeq DEF Todo, Coming, Quiet
  <2>4. Effect(infoTags, <<>>) = wanted
    BY <2>2, <2>3 DEF Leads, Quiet, TypeOK
  <2> QED BY <2>2, <2>4, EffectNone DEF TypeOK, ListIsWanted
<1> QED BY <1>1, InitInv, StepInv, PTL DEF Spec
=============================================================================
