---------------------------- MODULE SendMachine ----------------------------
(***************************************************************************)
(* Requests of ZmHttpClient (net/zm_net_http_client): each is carried out  *)
(* by a ZmSendMachine, attempt after attempt, over the connections kept    *)
(* for its target; retries, redirects, cancellation and Close.             *)
(*                                                                         *)
(* Handlers run on the lanes (event loops), one at a time on each, or, for *)
(* an upload's first attempt, on a thread of the work pool.  A handler is  *)
(* a single step but for the choice of a connection: GetPoolClient looks   *)
(* at the target's entry under s_poolMtx, leaves the lock, asks every      *)
(* connection's lane how busy it is, waiting for the answer, and locks     *)
(* again to add one.  Other threads run in between.                        *)
(***************************************************************************)
EXTENDS Naturals, Sequences, FiniteSets, SequencesExt

CONSTANTS
  Machines,      \* the requests
  Posts,         \* those of the method POST; the others are GET
  Uploads,       \* those with a prelude, which reads the file on the work pool
  Repeatable,    \* those declared idempotent by their options
  Followers,     \* those that follow redirects (followRedirect)
  Tokens,        \* those whose caller has a cancel token
  NHosts,        \* bound: targets
  Lanes,         \* normalLoopThreads
  MaxConn,       \* maxConnPerHost
  MaxTargets,    \* maxTargets
  Budget,        \* maxTotalAttempts
  RetryBudget,   \* retryMax
  MaxRedirects   \* maxRedirects

ASSUME SendMachineAssumption ==
  /\ IsFiniteSet(Machines) /\ Uploads \subseteq Posts
  /\ Posts \cup Repeatable \cup Followers \cup Tokens \subseteq Machines
  /\ {NHosts, Lanes, MaxConn, MaxTargets, Budget} \subseteq Nat \ {0}
  /\ {RetryBudget, MaxRedirects} \subseteq Nat

VARIABLES
  ms,        \* each request's machine
  pools,     \* s_pools: the connections of each target's entry, {}: no entry
  order,     \* targets that have an entry, oldest first
  shut,      \* how far Close is
  ended      \* lanes whose loop has ended

vars == <<ms, pools, order, shut, ended>>

None    == 0      \* no connection
Hosts   == 0..NHosts - 1
BadHost == NHosts \* a target that ParseUrl refuses
Pool    == Lanes  \* a thread of the work pool, beside the lanes 0..Lanes - 1

\* Loop of a target's connections: the hash of its key over the lanes.
LaneOf(h) == h % Lanes

\* host: m_currentUrl, post: m_curMethod is POST, at: the thread of the next or
\* current step, tries/retries/hops: m_attemptUsed, m_retriesUsed, m_redirectsUsed,
\* strip: m_stripSensitive, conn: m_lastClient while it is used, avoid:
\* m_lastFailedClient, snap: GetPoolClient's snapshot, orphan: its entry is out of
\* s_pools, res: what the last attempt got, then what m_onDone is told: that
\* ("told"), "cancelled", or "fail", a failure on this side; cancel: the token is set.
\* first, failed: the first target, the connection that gave no response (history).
NewMachine == [pc |-> "new", host |-> BadHost, post |-> FALSE, at |-> Pool,
               tries |-> 0, retries |-> 0, hops |-> 0, strip |-> FALSE, conn |-> None,
               avoid |-> None, snap |-> {}, orphan |-> FALSE, res |-> "none",
               cancel |-> FALSE, first |-> BadHost, failed |-> None]

Init ==
  /\ ms = [m \in Machines |-> NewMachine]
  /\ pools = [h \in Hosts |-> {}] /\ order = <<>>
  /\ shut = "no" /\ ended = {}

IsReady == shut = "no"

Becomes(m, r) == ms' = [ms EXCEPT ![m] = r]

\* Finish: m_onDone is called, and the machine goes.
Finish(m, r) == Becomes(m, [NewMachine EXCEPT !.pc = "over", !.res = r])

\* What is posted to a lane that is gone, or was waiting there, never runs.
Lost == [NewMachine EXCEPT !.pc = "lost"]

\* In GetPoolClient
Choosing(m) == ms[m].pc \in {"look", "choose"}

\* Nothing runs on a lane while one of its handlers does, nor after it ended.
Free(l) == l = Pool \/ (l \notin ended /\ \A m \in Machines : Choosing(m) => ms[m].at # l)

-----------------------------------------------------------------------------
\* The connections of a target

\* The connections somebody holds
Used ==
  UNION ({pools[h] : h \in Hosts} \cup {ms[m].snap : m \in Machines}
           \cup {{ms[m].conn, ms[m].avoid, ms[m].failed} : m \in Machines})

\* One that nobody holds
Fresh == CHOOSE c \in 1..Cardinality(Used) + 1 : c \notin Used

\* An entry without connections is never left: one is added.
WithOne(cs) == IF cs = {} THEN {Fresh} ELSE cs

\* Mutant: a failed connection stays; idle, it is the next one chosen.
Bug_RemovePoolClient(h, c) == pools' = pools

RemovePoolClient(h, c) ==
  pools' = IF c = None \/ pools[h] = {} THEN pools
           ELSE [pools EXCEPT ![h] = WithOne(@ \ {c})]

\* The oldest targets but the one just added are evicted.
Kept(h) == LET n == Len(order) + 1 IN
           IF n <= MaxTargets THEN Append(order, h)
           ELSE SubSeq(Append(order, h), n - MaxTargets + 1, n)

\* The lock is taken: the target's entry is found or made, and copied.
Look(m) ==
  LET h == ms[m].host
      snap == IF pools[h] = {} THEN {Fresh} ELSE pools[h]
  IN
  /\ ms[m].pc = "look" /\ shut # "over"
  /\ IF pools[h] = {}
     THEN /\ order' = Kept(h)
          /\ pools' = [g \in Hosts |-> IF g = h THEN snap
                                       ELSE IF Contains(order', g) THEN pools[g] ELSE {}]
     ELSE UNCHANGED <<pools, order>>
  /\ ms' = [n \in Machines |->
              IF n = m THEN [ms[m] EXCEPT !.pc = "choose", !.snap = snap]
              ELSE IF ms[n].pc = "choose" /\ pools'[ms[n].host] = {}
              THEN [ms[n] EXCEPT !.orphan = TRUE] ELSE ms[n]]
  /\ UNCHANGED <<shut, ended>>

\* sendRequest on the chosen connection
Sent(m, c) ==
  Becomes(m, [ms[m] EXCEPT !.pc = "flight", !.conn = c, !.avoid = None,
                           !.at = LaneOf(ms[m].host), !.snap = {}, !.orphan = FALSE])

\* The one connection there was is to be avoided: it is replaced.
Replace(m) ==
  LET h == ms[m].host IN
  /\ ms[m].pc = "choose" /\ ms[m].snap \subseteq {ms[m].avoid}
  /\ Sent(m, Fresh)
  /\ pools' = IF ms[m].orphan THEN pools
              ELSE [pools EXCEPT ![h] = (@ \ {ms[m].avoid}) \cup {Fresh}]
  /\ UNCHANGED <<order, shut, ended>>

\* Mutant: room for one more is judged by the snapshot, not under the lock.
Bug_HasRoom(m) == Cardinality(ms[m].snap) < MaxConn

HasRoom(m) == Cardinality(pools[ms[m].host]) < MaxConn

\* requestsBufferSize() waits for the connection's lane, unless it is asked there: for
\* ever, if that lane ends.  Whichever is least busy is taken; when all are
\* busy one more is added.
Choose(m) ==
  LET h == ms[m].host IN
  /\ ms[m].pc = "choose"
  /\ ms[m].at = LaneOf(h) \/ Free(LaneOf(h))
  /\ \E c \in ms[m].snap \ {ms[m].avoid}, allBusy \in BOOLEAN :
       /\ Sent(m, c)
       /\ pools' = IF allBusy /\ HasRoom(m) /\ ~ms[m].orphan
                   THEN [pools EXCEPT ![h] = @ \cup {Fresh}] ELSE pools
  /\ UNCHANGED <<order, shut, ended>>

-----------------------------------------------------------------------------
\* The machine

\* SendAsync, SendSync and the coroutines: Closed is answered at once.
Send(m) ==
  /\ ms[m].pc = "new"
  /\ IF ~IsReady THEN Finish(m, "fail")
     ELSE \E h \in Hosts :
            Becomes(m, [ms[m] EXCEPT !.pc = "start", !.host = h, !.first = h,
                                     !.post = m \in Posts])
  /\ UNCHANGED <<pools, order, shut, ended>>

\* The caller's thread: the first step goes to the work pool or to lane 0.
Start(m) ==
  /\ ms[m].pc = "start"
  /\ IF m \in Uploads
     THEN IF shut \in {"cleared", "over"} THEN Finish(m, "fail")
          ELSE Becomes(m, [ms[m] EXCEPT !.pc = "prelude"])
     ELSE IF ~IsReady THEN Finish(m, "fail")
          ELSE Becomes(m, [ms[m] EXCEPT !.pc = "post"])
  /\ UNCHANGED <<pools, order, shut, ended>>

\* Between the test of IsReady and queueInLoop Close may have ended the lane.
Post(m) ==
  /\ ms[m].pc = "post"
  /\ Becomes(m, IF 0 \in ended THEN Lost ELSE [ms[m] EXCEPT !.pc = "queued", !.at = 0])
  /\ UNCHANGED <<pools, order, shut, ended>>

\* RunPreludeOnPool; the first attempt follows on the same thread.
Prelude(m) ==
  /\ ms[m].pc = "prelude"
  /\ \/ Finish(m, "fail")
     \/ Becomes(m, [ms[m] EXCEPT !.pc = "queued", !.at = Pool])
  /\ UNCHANGED <<pools, order, shut, ended>>

\* NextAttempt up to the choice of a connection
NextAttempt(m) ==
  /\ ms[m].pc = "queued" /\ Free(ms[m].at)
  /\ IF ms[m].cancel THEN Finish(m, "cancelled")
     ELSE IF ~IsReady THEN Finish(m, "fail")
     ELSE IF ms[m].tries >= Budget THEN Finish(m, "told")
     ELSE IF ms[m].host = BadHost THEN Finish(m, "fail")
     ELSE Becomes(m, [ms[m] EXCEPT !.pc = "look", !.tries = @ + 1])
  /\ UNCHANGED <<pools, order, shut, ended>>

\* The handler of a response runs on the connection's lane.
Receives(m) == ms[m].pc = "flight" /\ Free(ms[m].at)

CancelledAtResponse(m) ==
  /\ Receives(m) /\ ms[m].cancel
  /\ Finish(m, "cancelled")
  /\ UNCHANGED <<pools, order, shut, ended>>

\* Mutant: any method is tried again.
Bug_Retriable(m) == ms[m].retries < RetryBudget

Retriable(m) == (~ms[m].post \/ m \in Repeatable) /\ ms[m].retries < RetryBudget

\* A retry is a timer on the connection's lane.
Retry(m, r, avoid) ==
  Becomes(m, [ms[m] EXCEPT !.pc = "queued", !.retries = @ + 1, !.res = r, !.avoid = avoid,
                           !.conn = None, !.failed = IF r = "silence" THEN ms[m].conn ELSE None])

\* Mutant: taken for handled before the method is looked at.
Bug_RetryOrFinish(m, r, avoid) ==
  IF Retriable(m) THEN Retry(m, r, avoid)
  ELSE IF ms[m].retries < RetryBudget THEN Becomes(m, [ms[m] EXCEPT !.pc = "handled"])
  ELSE Finish(m, "told")

RetryOrFinish(m, r, avoid) == IF Retriable(m) THEN Retry(m, r, avoid) ELSE Finish(m, "told")

\* No answer in time: the connection is kept, and avoided by this machine once.
TimedOut(m) ==
  /\ Receives(m) /\ ~ms[m].cancel
  /\ RetryOrFinish(m, "silence", ms[m].conn)
  /\ UNCHANGED <<pools, order, shut, ended>>

\* The connection failed: it leaves the entry.
NetworkFailed(m) ==
  /\ Receives(m) /\ ~ms[m].cancel
  /\ RemovePoolClient(ms[m].host, ms[m].conn)
  /\ RetryOrFinish(m, "silence", None)
  /\ UNCHANGED <<order, shut, ended>>

\* Other failures without a response are not tried again.
BadAnswer(m) ==
  /\ Receives(m) /\ ~ms[m].cancel
  /\ RemovePoolClient(ms[m].host, ms[m].conn)
  /\ Finish(m, "told")
  /\ UNCHANGED <<order, shut, ended>>

\* 5xx, 429
ServerBusy(m) ==
  /\ Receives(m) /\ ~ms[m].cancel
  /\ RetryOrFinish(m, "answer", None)
  /\ UNCHANGED <<pools, order, shut, ended>>

\* Any other status, a redirect without Location, a body over the limit
Answered(m) ==
  /\ Receives(m) /\ ~ms[m].cancel
  /\ Finish(m, "told")
  /\ UNCHANGED <<pools, order, shut, ended>>

\* Mutant: what a former redirect found is forgotten.
Bug_StripOn(m, h) == h # BadHost /\ h # ms[m].host

\* Once the request leaves its target its sensitive headers stay behind for good.
StripOn(m, h) == ms[m].strip \/ (h # BadHost /\ h # ms[m].host)

\* "keep": a POST that stays one (307, 308); whatever else is redirected is a GET then.
Redirected(m) ==
  /\ Receives(m) /\ ~ms[m].cancel
  /\ \E r \in {"answer"} \cup (IF ms[m].post THEN {"keep"} ELSE {}), h \in Hosts \cup {BadHost} :
       IF m \notin Followers \/ ms[m].hops >= MaxRedirects THEN Finish(m, "told")
       ELSE Becomes(m, [ms[m] EXCEPT !.pc = "queued", !.hops = @ + 1, !.host = h,
                                     !.strip = StripOn(m, h), !.res = r,
                                     !.post = (r = "keep"),
                                     !.conn = None, !.failed = None])
  /\ UNCHANGED <<pools, order, shut, ended>>

Response(m) == CancelledAtResponse(m) \/ TimedOut(m) \/ NetworkFailed(m) \/ BadAnswer(m)
                 \/ ServerBusy(m) \/ Answered(m) \/ Redirected(m)

Cancel(m) ==
  /\ m \in Tokens /\ ms[m].pc \notin {"new", "over", "lost"} /\ ~ms[m].cancel
  /\ Becomes(m, [ms[m] EXCEPT !.cancel = TRUE])
  /\ UNCHANGED <<pools, order, shut, ended>>

-----------------------------------------------------------------------------
\* Close

CloseBegins ==
  /\ shut = "no" /\ shut' = "closed"
  /\ UNCHANGED <<ms, pools, order, ended>>

\* The entries go, then the pointer to the work pool.
CloseClears ==
  /\ shut = "closed" /\ shut' = "cleared"
  /\ pools' = [h \in Hosts |-> {}] /\ order' = <<>>
  /\ ms' = [m \in Machines |-> [ms[m] EXCEPT !.orphan = @ \/ ms[m].pc = "choose"]]
  /\ UNCHANGED ended

\* Told to quit, a lane ends after its current handler, on its own, whether or not
\* another lane's handler waits for it; what it had to run is dropped.
LaneEnds(l) ==
  /\ shut = "cleared" /\ l \notin ended /\ Free(l)
  /\ ended' = ended \cup {l}
  /\ ms' = [m \in Machines |->
              IF ms[m].pc \in {"queued", "flight"} /\ ms[m].at = l THEN Lost ELSE ms[m]]
  /\ UNCHANGED <<pools, order, shut>>

\* wait and delete of the lanes
CloseJoins ==
  /\ shut = "cleared" /\ ended = 0..Lanes - 1
  /\ shut' = "over"
  /\ UNCHANGED <<ms, pools, order, ended>>

\* A thread of the work pool in GetPoolClient finds the lanes gone.
FindsNoLane(m) ==
  /\ Choosing(m) /\ shut = "over"
  /\ Becomes(m, Lost)
  /\ UNCHANGED <<pools, order, shut, ended>>

Close == CloseBegins \/ CloseClears \/ CloseJoins \/ \E l \in 0..Lanes - 1 : LaneEnds(l)

Machine(m) == Start(m) \/ Post(m) \/ Prelude(m) \/ NextAttempt(m) \/ Look(m) \/ Replace(m)
                \/ Choose(m) \/ Response(m) \/ FindsNoLane(m)

Next == Close \/ \E m \in Machines : Send(m) \/ Cancel(m) \/ Machine(m)

Fairness ==
  /\ \A m \in Machines : WF_vars(Machine(m))
  /\ WF_vars(shut # "no" /\ Close)

Spec == Init /\ [][Next]_vars /\ Fairness
-----------------------------------------------------------------------------
\* Properties

\* A target never has more than maxConnPerHost connections, whatever machines add,
\* replace and remove at once: the size is read again under the lock, and only
\* handlers of the target's own lane replace or remove one (GetPoolClient).
AtMostMaxConn == \A h \in Hosts : Cardinality(pools[h]) <= MaxConn

\* A POST that was not declared repeatable is sent again only to where a 307 or 308
\* sends it: no failure, 5xx or lost answer repeats what the server may have done.
PostedOnce ==
  \A m \in Machines \ Repeatable : ms[m].pc = "flight" /\ ms[m].post
                        => ms[m].tries = 1 \/ ms[m].res = "keep"

\* Sensitive headers go to the request's own target only, over any chain of
\* redirects and retries (m_stripSensitive).
SecretsStayHome ==
  \A m \in Machines : ms[m].pc = "flight" /\ ms[m].host # ms[m].first => ms[m].strip

\* The attempt after one that got no response uses another connection, whatever
\* other requests did to the target's entry meanwhile (m_lastFailedClient).
NewConnectionAfterFailure ==
  \A m \in Machines : ms[m].pc = "flight" => ms[m].conn # ms[m].failed

\* Two lanes' handlers each wait for the other to say how busy a connection is.
Crossed ==
  \E m, n \in Machines :
    /\ ms[m].pc = "choose" /\ ms[n].pc = "choose"
    /\ Pool \notin {ms[m].at, ms[n].at} /\ ms[m].at # ms[n].at
    /\ LaneOf(ms[m].host) = ms[n].at /\ LaneOf(ms[n].host) = ms[m].at

\* A lane's handler waits for the answer of a lane that has ended: Close never returns.
Stranded ==
  \E m \in Machines : ms[m].pc = "choose" /\ ms[m].at # Pool /\ LaneOf(ms[m].host) \in ended

\* Every request is answered, or Close has returned, or lanes are stuck in one of the two
\* ways that two lanes or more allow (see the README).
EveryRequestEnds ==
  \A m \in Machines :
    ms[m].pc = "start" ~> (ms[m].pc = "over" \/ shut = "over" \/ Crossed \/ Stranded)
=============================================================================
