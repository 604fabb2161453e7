------------------------- MODULE SendMachineProofs -------------------------
(***************************************************************************)
(* Theorems about SendMachine, for any finite set of requests, any number  *)
(* of targets, lanes and connections, and any budgets.                     *)
(*                                                                         *)
(* What is said of one request concerns its own record and the entry of    *)
(* its target.  Others only ever take connections out of an entry, or put  *)
(* in one that nobody holds (Fresh), so they disturb none of it.           *)
(***************************************************************************)
EXTENDS SendMachine, FiniteSetTheorems, FunctionTheorems, TLAPS

PCs   == {"new", "start", "post", "prelude", "queued", "look", "choose", "flight",
          "over", "lost"}
Reses == {"none", "silence", "answer", "keep", "told", "cancelled", "fail"}
Conns == Nat \ {0}

Record ==
  [pc : PCs, host : Hosts \cup {BadHost}, post : BOOLEAN, at : Nat, tries : Nat,
   retries : Nat, hops : Nat, strip : BOOLEAN, conn : Nat, avoid : Nat,
   snap : SUBSET Conns, orphan : BOOLEAN, res : Reses, cancel : BOOLEAN,
   first : Hosts \cup {BadHost}, failed : Nat]

Types ==
  /\ ms \in [Machines -> Record]
  /\ pools \in [Hosts -> SUBSET Conns]
  /\ \A m \in Machines : IsFiniteSet(ms[m].snap)
  /\ \A h \in Hosts : IsFiniteSet(pools[h])

-----------------------------------------------------------------------------
\* A connection nobody holds exists.

LEMMA Constants ==
  /\ NHosts \in Nat \ {0} /\ Lanes \in Nat \ {0} /\ IsFiniteSet(Machines)
  /\ Hosts \subseteq Nat /\ BadHost \in Nat /\ BadHost \notin Hosts
  /\ Pool \in Nat /\ IsFiniteSet(Hosts)
<1>1. NHosts \in Nat \ {0} /\ Lanes \in Nat \ {0} /\ IsFiniteSet(Machines)
  BY SendMachineAssumption
<1>2. IsFiniteSet(Hosts)
  BY <1>1, FS_Interval DEF Hosts
<1> QED BY <1>1, <1>2 DEF Hosts, BadHost, Pool

LEMMA RangeIsFinite ==
  ASSUME NEW S, IsFiniteSet(S), NEW f, f = [x \in S |-> f[x]]
  PROVE  IsFiniteSet({f[x] : x \in S})
<1> DEFINE R == {f[x] : x \in S}
<1>1. f \in [S -> R] /\ \A y \in R : \E x \in S : f[x] = y
  OBVIOUS
<1> HIDE DEF R
<1>2. f \in Surjection(S, R)
  BY <1>1, Fun_IsSurj
<1>3. IsFiniteSet(R)
  BY <1>2, FS_Surjection
<1> QED BY <1>3 DEF R

LEMMA ThreeAreFinite == \A a, b, c : IsFiniteSet({a, b, c})
<1> TAKE a, b, c
<1>1. \A x : IsFiniteSet({x})
  BY FS_Singleton
<1>2. {a, b, c} = ({a} \cup {b}) \cup {c}
  OBVIOUS
<1>3. IsFiniteSet({a} \cup {b})
  BY <1>1, FS_Union
<1>4. IsFiniteSet(({a} \cup {b}) \cup {c})
  BY <1>1, <1>3, FS_Union
<1> QED BY <1>2, <1>4

LEMMA UsedIsFinite == ASSUME Types PROVE IsFiniteSet(Used)
<1> DEFINE f == [m \in Machines |-> ms[m].snap]
           g == [m \in Machines |-> {ms[m].conn, ms[m].avoid, ms[m].failed}]
           A == {pools[h] : h \in Hosts}
           B == {f[m] : m \in Machines}
           C == {g[m] : m \in Machines}
<1>1. IsFiniteSet(A) /\ \A T \in A : IsFiniteSet(T)
  <2>1. pools = [h \in Hosts |-> pools[h]] /\ IsFiniteSet(Hosts)
    BY Constants DEF Types
  <2>2. IsFiniteSet(A)
    BY <2>1, RangeIsFinite
  <2> QED BY <2>2 DEF Types
<1>2. IsFiniteSet(B) /\ \A T \in B : IsFiniteSet(T)
  <2>1. f = [m \in Machines |-> f[m]] /\ IsFiniteSet(Machines)
    BY Constants
  <2>2. \A m \in Machines : IsFiniteSet(f[m])
    BY DEF Types
  <2> HIDE DEF f
  <2>3. IsFiniteSet(B)
    BY <2>1, RangeIsFinite
  <2> QED BY <2>2, <2>3
<1>3. IsFiniteSet(C) /\ \A T \in C : IsFiniteSet(T)
  <2>1. g = [m \in Machines |-> g[m]] /\ IsFiniteSet(Machines)
    BY Constants
  <2>2. \A m \in Machines : IsFiniteSet(g[m])
    BY ThreeAreFinite
  <2> HIDE DEF g
  <2>3. IsFiniteSet(C)
    BY <2>1, RangeIsFinite
  <2> QED BY <2>2, <2>3
<1>4. Used = UNION ((A \cup B) \cup C)
  BY DEF Used
<1> HIDE DEF A, B, C
<1>5. IsFiniteSet((A \cup B) \cup C)
  <2>1. IsFiniteSet(A \cup B)
    BY <1>1, <1>2, FS_Union
  <2> QED BY <2>1, <1>3, FS_Union
<1>6. \A T \in (A \cup B) \cup C : IsFiniteSet(T)
  BY <1>1, <1>2, <1>3
<1> QED BY <1>4, <1>5, <1>6, FS_UNION

LEMMA FreshIsNew ==
  ASSUME Types
  PROVE  /\ Fresh \in Conns
         /\ \A h \in Hosts : Fresh \notin pools[h]
         /\ \A m \in Machines : /\ Fresh \notin ms[m].snap
                                /\ Fresh \notin {ms[m].conn, ms[m].avoid, ms[m].failed}
<1> DEFINE n == Cardinality(Used)
<1>1. IsFiniteSet(Used) /\ n \in Nat
  BY UsedIsFinite, FS_CardinalityType
<1>2. \E c \in 1..n + 1 : c \notin Used
  <2> SUFFICES ASSUME 1..n + 1 \subseteq Used PROVE FALSE
    OBVIOUS
  <2>1. Cardinality(1..n + 1) <= n
    BY <1>1, FS_Subset
  <2>2. Cardinality(1..n + 1) = n + 1
    BY <1>1, FS_Interval
  <2> QED BY <1>1, <2>1, <2>2
<1>3. Fresh = CHOOSE c \in 1..n + 1 : c \notin Used
  BY DEF Fresh
<1> HIDE DEF n
<1>4. Fresh \in 1..n + 1 /\ Fresh \notin Used
  BY <1>2, <1>3
<1>5. Fresh \in Conns
  BY <1>1, <1>4 DEF Conns
<1>6. \A S \in {pools[h] : h \in Hosts} \cup {ms[m].snap : m \in Machines}
              \cup {{ms[m].conn, ms[m].avoid, ms[m].failed} : m \in Machines} : Fresh \notin S
  <2> HIDE DEF Fresh
  <2> QED BY <1>4 DEF Used
<1> QED BY <1>5, <1>6

-----------------------------------------------------------------------------
\* What holds of request m, its record being r and the entries ps.

Going   == {"start", "post", "prelude", "queued", "look", "choose", "flight"}
Trying  == {"look", "choose", "flight"}
Untried == {"new", "start", "post", "prelude"}

\* Before the first attempt nothing was tried.  A connection is only looked for, and
\* avoided, for a target.
Targeted(r) ==
  /\ r.pc \in Untried => r.tries = 0 /\ r.failed = None
  /\ r.pc \in Trying \/ r.failed # None => r.host \in Hosts
  /\ r.pc = "flight" => r.conn # None

\* Away from the first target the sensitive headers are stripped.
Stripped(r) == r.pc \in Going => r.host = BadHost \/ r.host = r.first \/ r.strip = TRUE

\* A POST is tried once, but for redirects that keep it one.
TriedOnce(m, r) ==
  m \notin Repeatable /\ r.post = TRUE =>
    /\ r.pc = "queued" => r.tries = 0 \/ r.res = "keep"
    /\ r.pc \in Trying => r.tries = 1 \/ r.res = "keep"

\* The connection that gave no answer is out of the entry, or is the one to avoid.
Avoided(r, ps) ==
  r.failed # None =>
    /\ r.pc \in {"queued", "look"} => r.failed = r.avoid \/ r.failed \notin ps[r.host]
    /\ r.pc = "choose" => r.failed = r.avoid \/ r.failed \notin r.snap
    /\ r.pc = "flight" => r.conn # r.failed

Good(m, r, ps) ==
  /\ r \in Record /\ IsFiniteSet(r.snap)
  /\ Targeted(r) /\ Stripped(r) /\ TriedOnce(m, r) /\ Avoided(r, ps)

Entries == pools \in [Hosts -> SUBSET Conns] /\ \A h \in Hosts : IsFiniteSet(pools[h])

\* The inductive invariant.
MInv ==
  /\ Entries
  /\ ms = [m \in Machines |-> ms[m]]
  /\ \A m \in Machines : Good(m, ms[m], pools)

LEMMA MInvTypes == MInv => Types
BY DEF MInv, Entries, Good, Types

\* An entry only ever gets a connection nobody holds.
EntriesStep ==
  /\ Entries'
  /\ \A h \in Hosts : pools'[h] \subseteq pools[h] \cup {Fresh}

LEMMA NewMachineGood ==
  ASSUME NEW m \in Machines, NEW ps, NEW r,
         \/ r = NewMachine
         \/ r = Lost
         \/ \E x \in Reses : r = [NewMachine EXCEPT !.pc = "over", !.res = x]
  PROVE  Good(m, r, ps)
<1>1. IsFiniteSet({})
  BY FS_EmptySet
<1>2. /\ NewMachine \in Record /\ NewMachine.snap = {} /\ NewMachine.pc = "new"
      /\ NewMachine.tries = 0 /\ NewMachine.failed = None
  BY Constants DEF Record, NewMachine, PCs, Reses, None
<1>3. /\ r \in Record /\ r.snap = {} /\ r.pc \in {"new", "lost", "over"}
      /\ r.tries = 0 /\ r.failed = None
  <2> HIDE DEF NewMachine
  <2>1. CASE r = NewMachine
    BY <1>2, <2>1
  <2>2. CASE r = Lost
    BY <1>2, <2>2 DEF Lost, Record, PCs
  <2>3. ASSUME NEW x \in Reses, r = [NewMachine EXCEPT !.pc = "over", !.res = x]
        PROVE  /\ r \in Record /\ r.snap = {} /\ r.pc = "over"
               /\ r.tries = 0 /\ r.failed = None
    BY <1>2, <2>3 DEF Record, PCs
  <2> QED BY <2>1, <2>2, <2>3
<1> QED BY <1>1, <1>3 DEF Good, Targeted, Stripped, TriedOnce, Avoided, Untried, Trying, Going

\* The steps of others, and Cancel, disturb nothing.
LEMMA StaysGood ==
  ASSUME MInv, EntriesStep, NEW m \in Machines, NEW b \in BOOLEAN, NEW c \in BOOLEAN,
         NEW r, r = ms[m] \/ r = [ms[m] EXCEPT !.orphan = b] \/ r = [ms[m] EXCEPT !.cancel = c]
  PROVE  Good(m, r, pools')
<1>1. Good(m, ms[m], pools) /\ ms[m] \in Record
  BY DEF MInv, Good
<1>2. r \in Record
  BY <1>1 DEF Record
<1>3. /\ r.pc = ms[m].pc /\ r.host = ms[m].host /\ r.post = ms[m].post
      /\ r.tries = ms[m].tries /\ r.strip = ms[m].strip /\ r.conn = ms[m].conn
      /\ r.avoid = ms[m].avoid /\ r.snap = ms[m].snap /\ r.res = ms[m].res
      /\ r.first = ms[m].first /\ r.failed = ms[m].failed
  BY <1>1 DEF Record
<1>4. Targeted(r) /\ Stripped(r) /\ TriedOnce(m, r) /\ IsFiniteSet(r.snap)
  BY <1>1, <1>3 DEF Good, Targeted, Stripped, TriedOnce
<1>5. Avoided(r, pools')
  <2>1. r.failed # Fresh
    BY <1>3, MInvTypes, FreshIsNew
  <2>2. r.failed # None => r.host \in Hosts
    BY <1>4 DEF Targeted
  <2>3. ASSUME r.host \in Hosts, r.failed \notin pools[r.host]
        PROVE  r.failed \notin pools'[r.host]
    BY <2>1, <2>3 DEF EntriesStep
  <2> QED BY <1>1, <1>3, <2>2, <2>3 DEF Good, Avoided
<1> QED BY <1>2, <1>4, <1>5 DEF Good

\* So a step of one request keeps the invariant when it leaves that request good.
LEMMA OneMoves ==
  ASSUME MInv, EntriesStep, NEW m \in Machines, NEW r, Becomes(m, r), Good(m, r, pools')
  PROVE  MInv'
<1>1. ms = [n \in Machines |-> ms[n]] /\ ms' = [ms EXCEPT ![m] = r]
  BY DEF MInv, Becomes
<1>2. ms' = [n \in Machines |-> ms'[n]] /\ ms'[m] = r
      /\ \A n \in Machines \ {m} : ms'[n] = ms[n]
  BY <1>1
<1>3. \A n \in Machines : Good(n, ms'[n], pools')
  BY <1>2, StaysGood
<1> QED BY <1>2, <1>3 DEF MInv, EntriesStep

LEMMA SameEntries == MInv /\ pools' = pools => EntriesStep
BY DEF MInv, Entries, EntriesStep

LEMMA FinishKeeps ==
  ASSUME MInv, EntriesStep, NEW m \in Machines, NEW x \in Reses, Finish(m, x)
  PROVE  MInv'
BY NewMachineGood, OneMoves DEF Finish

-----------------------------------------------------------------------------
\* Up to the first attempt

LEMMA EarlyGood ==
  ASSUME MInv, NEW m \in Machines, NEW p, NEW a \in Nat, NEW r,
         r = [ms[m] EXCEPT !.pc = p] \/ r = [ms[m] EXCEPT !.pc = p, !.at = a],
         \/ ms[m].pc = "start" /\ p \in {"prelude", "post"}
         \/ ms[m].pc \in {"post", "prelude"} /\ p = "queued"
  PROVE  Good(m, r, pools')
<1>1. Good(m, ms[m], pools) /\ ms[m] \in Record
  BY DEF MInv, Good
<1>2. ms[m].tries = 0 /\ ms[m].failed = None /\ ms[m].pc \in Going
  BY <1>1 DEF Good, Targeted, Untried, Going
<1>3. p \in PCs /\ p \notin Trying
  BY DEF PCs, Trying
<1>4. r \in Record
  <2>1. [ms[m] EXCEPT !.pc = p] \in Record
    BY <1>1, <1>3 DEF Record
  <2>2. [ms[m] EXCEPT !.pc = p, !.at = a] \in Record
    BY <1>1, <1>3 DEF Record
  <2> QED BY <2>1, <2>2, Zenon
<1>5. /\ r.pc = p /\ r.tries = 0 /\ r.failed = None /\ r.host = ms[m].host
      /\ r.first = ms[m].first /\ r.strip = ms[m].strip /\ r.snap = ms[m].snap
  BY <1>1, <1>2 DEF Record
<1>6. Targeted(r) /\ Stripped(r) /\ TriedOnce(m, r) /\ Avoided(r, pools')
  BY <1>1, <1>2, <1>3, <1>5 DEF Good, Targeted, Stripped, TriedOnce, Avoided, Trying
<1> QED BY <1>1, <1>4, <1>5, <1>6 DEF Good

LEMMA SendGood ==
  ASSUME MInv, NEW m \in Machines, ms[m].pc = "new", NEW h \in Hosts
  PROVE  Good(m, [ms[m] EXCEPT !.pc = "start", !.host = h, !.first = h, !.post = m \in Posts], pools')
<1> DEFINE b == m \in Posts
           r == [ms[m] EXCEPT !.pc = "start", !.host = h, !.first = h, !.post = b]
<1>1. Good(m, ms[m], pools) /\ ms[m] \in Record /\ b \in BOOLEAN
  BY DEF MInv, Good
<1> HIDE DEF b
<1>2. ms[m].tries = 0 /\ ms[m].failed = None
  BY <1>1 DEF Good, Targeted, Untried
<1>3. r \in Record
  BY <1>1 DEF Record, PCs
<1>4. /\ r.pc = "start" /\ r.tries = 0 /\ r.failed = None /\ r.host = h
      /\ r.first = h /\ r.snap = ms[m].snap
  BY <1>1, <1>2 DEF Record
<1> HIDE DEF r
<1>5. Good(m, r, pools')
  BY <1>1, <1>3, <1>4 DEF Good, Targeted, Stripped, TriedOnce, Avoided, Trying, Untried
<1> QED BY <1>5 DEF r, b

LEMMA EarlySteps ==
  ASSUME MInv, NEW m \in Machines, Send(m) \/ Start(m) \/ Post(m) \/ Prelude(m)
  PROVE  MInv'
<1>1. EntriesStep
  BY SameEntries DEF Send, Start, Post, Prelude
<1>2. "fail" \in Reses /\ Pool \in Nat /\ 0 \in Nat
  BY Constants DEF Reses
<1>3. CASE Finish(m, "fail")
  BY <1>1, <1>2, <1>3, FinishKeeps
<1>4. CASE Send(m)
  BY <1>1, <1>3, <1>4, SendGood, OneMoves DEF Send
<1>5. CASE Start(m)
  BY <1>1, <1>2, <1>3, <1>5, EarlyGood, OneMoves DEF Start
<1>6. CASE Post(m)
  <2>1. CASE Becomes(m, Lost)
    BY <1>1, <2>1, NewMachineGood, OneMoves
  <2>2. CASE Becomes(m, [ms[m] EXCEPT !.pc = "queued", !.at = 0])
    BY <1>1, <1>2, <1>6, <2>2, EarlyGood, OneMoves DEF Post
  <2> QED BY <1>6, <2>1, <2>2 DEF Post
<1>7. CASE Prelude(m)
  BY <1>1, <1>2, <1>3, <1>7, EarlyGood, OneMoves DEF Prelude
<1> QED BY <1>4, <1>5, <1>6, <1>7

LEMMA NextAttemptStep ==
  ASSUME MInv, NEW m \in Machines, NextAttempt(m)
  PROVE  MInv'
<1>1. EntriesStep
  BY SameEntries DEF NextAttempt
<1>2. {"fail", "told", "cancelled"} \subseteq Reses
  BY DEF Reses
<1> DEFINE k == ms[m].tries + 1
           r == [ms[m] EXCEPT !.pc = "look", !.tries = k]
<1>3. ASSUME ms[m].host # BadHost PROVE Good(m, r, pools')
  <2>1. Good(m, ms[m], pools) /\ ms[m] \in Record /\ ms[m].pc = "queued"
    BY DEF MInv, Good, NextAttempt
  <2>0. k \in Nat
    BY <2>1 DEF Record
  <2> HIDE DEF k
  <2>2. r \in Record
    BY <2>0, <2>1 DEF Record, PCs
  <2>3. /\ r.pc = "look" /\ r.tries = k /\ r.failed = ms[m].failed
        /\ r.host = ms[m].host /\ r.first = ms[m].first /\ r.strip = ms[m].strip
        /\ r.snap = ms[m].snap /\ r.avoid = ms[m].avoid /\ r.res = ms[m].res
        /\ r.post = ms[m].post
    BY <2>1 DEF Record
  <2> HIDE DEF r
  <2>4. r.host \in Hosts /\ ms[m].tries = 0 => r.tries = 1
    BY <1>3, <2>1, <2>3 DEF Record, k
  <2>5. Targeted(r) /\ Stripped(r) /\ TriedOnce(m, r)
    BY <1>3, <2>1, <2>3, <2>4 DEF Good, Targeted, Stripped, TriedOnce, Record, Trying, Untried, Going
  <2>6. Avoided(r, pools')
    BY <2>1, <2>3 DEF Good, Avoided, NextAttempt
  <2> QED BY <2>1, <2>2, <2>3, <2>5, <2>6 DEF Good
<1> HIDE DEF r
<1>4. \/ Finish(m, "cancelled") \/ Finish(m, "fail") \/ Finish(m, "told")
      \/ ms[m].host # BadHost /\ Becomes(m, r)
  BY DEF NextAttempt, r
<1> QED BY <1>1, <1>2, <1>3, <1>4, FinishKeeps, OneMoves

-----------------------------------------------------------------------------
\* Responses

LEMMA RetryGood ==
  ASSUME MInv, NEW m \in Machines, ms[m].pc = "flight", Retriable(m),
         NEW x \in {"silence", "answer"}, NEW a \in Nat, NEW f \in Nat,
         f = None \/ (f = ms[m].conn /\ (f = a \/ f \notin pools'[ms[m].host]))
  PROVE  Good(m, [ms[m] EXCEPT !.pc = "queued", !.retries = @ + 1, !.res = x, !.avoid = a,
                               !.conn = None, !.failed = f], pools')
<1> DEFINE k == ms[m].retries + 1
           r == [ms[m] EXCEPT !.pc = "queued", !.retries = k, !.res = x, !.avoid = a,
                              !.conn = None, !.failed = f]
<1>1. Good(m, ms[m], pools) /\ ms[m] \in Record /\ ms[m].host \in Hosts
  BY DEF MInv, Good, Targeted, Trying
<1>2. k \in Nat /\ None \in Nat
  BY <1>1 DEF Record, None
<1> HIDE DEF k
<1>3. r \in Record
  BY <1>1, <1>2 DEF Record, PCs, Reses
<1>4. /\ r.pc = "queued" /\ r.res = x /\ r.avoid = a /\ r.failed = f
      /\ r.host = ms[m].host /\ r.first = ms[m].first /\ r.strip = ms[m].strip
      /\ r.snap = ms[m].snap /\ r.post = ms[m].post
  BY <1>1 DEF Record
<1> HIDE DEF r
<1>5. m \in Repeatable \/ r.post # TRUE
  BY <1>4 DEF Retriable
<1>6. Targeted(r) /\ Stripped(r) /\ TriedOnce(m, r) /\ Avoided(r, pools')
  BY <1>1, <1>4, <1>5 DEF Good, Targeted, Stripped, TriedOnce, Avoided, Untried, Trying, Going
<1>7. Good(m, r, pools')
  BY <1>1, <1>3, <1>4, <1>6 DEF Good
<1> QED BY <1>7 DEF r, k

\* A connection that is removed is gone from the entry; another may replace it.
LEMMA Removes ==
  ASSUME MInv, NEW m \in Machines, ms[m].pc = "flight",
         RemovePoolClient(ms[m].host, ms[m].conn)
  PROVE  EntriesStep /\ ms[m].conn \notin pools'[ms[m].host]
<1> DEFINE h == ms[m].host
           c == ms[m].conn
<1>1. h \in Hosts /\ c # None /\ Entries
  BY DEF MInv, Good, Targeted, Trying
<1>2. Fresh \in Conns /\ c # Fresh
  BY MInvTypes, FreshIsNew
<1> HIDE DEF h, c
<1>3. CASE pools[h] = {}
  <2>1. pools' = pools
    BY <1>3 DEF RemovePoolClient, h
  <2> QED BY <1>1, <1>3, <2>1, SameEntries DEF h
<1>4. CASE pools[h] # {}
  <2> DEFINE e == WithOne(pools[h] \ {c})
  <2>1. pools' = [pools EXCEPT ![h] = e]
    BY <1>1, <1>4 DEF RemovePoolClient, h, c
  <2>2. e \subseteq (pools[h] \ {c}) \cup {Fresh} /\ e \subseteq Conns /\ c \notin e
    BY <1>1, <1>2 DEF WithOne, Entries
  <2>3. IsFiniteSet(e)
    <3>1. IsFiniteSet(pools[h]) /\ IsFiniteSet({Fresh})
      BY <1>1, FS_Singleton DEF Entries
    <3> QED BY <3>1, FS_Subset DEF WithOne
  <2> HIDE DEF e
  <2>4. /\ pools' \in [Hosts -> SUBSET Conns] /\ pools'[h] = e
        /\ \A g \in Hosts \ {h} : pools'[g] = pools[g]
    BY <1>1, <2>1, <2>2 DEF Entries
  <2> QED BY <1>1, <2>2, <2>3, <2>4 DEF EntriesStep, Entries, h, c
<1> QED BY <1>3, <1>4

LEMMA RetryOrFinishKeeps ==
  ASSUME MInv, EntriesStep, NEW m \in Machines, ms[m].pc = "flight",
         NEW x \in {"silence", "answer"}, NEW a \in Nat, RetryOrFinish(m, x, a),
         x = "silence" => ms[m].conn = a \/ ms[m].conn \notin pools'[ms[m].host]
  PROVE  MInv'
<1>1. "told" \in Reses
  BY DEF Reses
<1> DEFINE f == IF x = "silence" THEN ms[m].conn ELSE None
<1>2. CASE Retriable(m) /\ Retry(m, x, a)
  <2>1. f \in Nat /\ (f = None \/ (f = ms[m].conn /\ (f = a \/ f \notin pools'[ms[m].host])))
    BY DEF MInv, Good, Record, None
  <2> HIDE DEF f
  <2>2. Good(m, [ms[m] EXCEPT !.pc = "queued", !.retries = @ + 1, !.res = x, !.avoid = a,
                              !.conn = None, !.failed = f], pools')
    BY <1>2, <2>1, RetryGood
  <2>3. Becomes(m, [ms[m] EXCEPT !.pc = "queued", !.retries = @ + 1, !.res = x, !.avoid = a,
                                 !.conn = None, !.failed = f])
    BY <1>2 DEF Retry, f
  <2> QED BY <2>2, <2>3, OneMoves
<1> QED BY <1>1, <1>2, FinishKeeps DEF RetryOrFinish

LEMMA RedirectGood ==
  ASSUME MInv, NEW m \in Machines, ms[m].pc = "flight",
         NEW x \in {"answer", "keep"}, NEW h \in Hosts \cup {BadHost}
  PROVE  Good(m, [ms[m] EXCEPT !.pc = "queued", !.hops = @ + 1, !.host = h,
                               !.strip = StripOn(m, h), !.res = x,
                               !.post = (x = "keep"),
                               !.conn = None, !.failed = None], pools')
<1> DEFINE k == ms[m].hops + 1
           s == StripOn(m, h)
           b == (x = "keep")
           r == [ms[m] EXCEPT !.pc = "queued", !.hops = k, !.host = h, !.strip = s, !.res = x,
                              !.post = b, !.conn = None, !.failed = None]
<1>1. Good(m, ms[m], pools) /\ ms[m] \in Record /\ ms[m].host \in Hosts
  BY DEF MInv, Good, Targeted, Trying
<1>2. k \in Nat /\ None \in Nat /\ s \in BOOLEAN /\ b \in BOOLEAN
  BY <1>1 DEF Record, None, StripOn
<1>3. h = BadHost \/ h = ms[m].first \/ s = TRUE
  <2>1. ms[m].host = ms[m].first \/ ms[m].strip = TRUE
    BY <1>1, Constants DEF Good, Stripped, Going
  <2>2. CASE h # BadHost /\ h # ms[m].host
    BY <2>2 DEF StripOn
  <2>3. CASE ms[m].strip = TRUE
    BY <2>3 DEF StripOn
  <2> QED BY <2>1, <2>2, <2>3
<1>4. b = TRUE => x = "keep"
  OBVIOUS
<1> HIDE DEF k, s, b
<1>5. r \in Record
  BY <1>1, <1>2 DEF Record, PCs, Reses
<1>6. /\ r.pc = "queued" /\ r.res = x /\ r.failed = None /\ r.host = h /\ r.strip = s
      /\ r.first = ms[m].first /\ r.snap = ms[m].snap /\ r.post = b
  BY <1>1 DEF Record
<1> HIDE DEF r
<1>7. Good(m, r, pools')
  BY <1>1, <1>3, <1>4, <1>5, <1>6
     DEF Good, Targeted, Stripped, TriedOnce, Avoided, Untried, Trying, Going
<1> QED BY <1>7 DEF r, k, s, b

LEMMA ResponseStep == ASSUME MInv, NEW m \in Machines, Response(m) PROVE MInv'
<1>1. ms[m].pc = "flight" /\ {"told", "cancelled"} \subseteq Reses
  BY DEF Response, CancelledAtResponse, TimedOut, NetworkFailed, BadAnswer, ServerBusy,
         Answered, Redirected, Receives, Reses
<1>2. None \in Nat /\ ms[m].conn \in Nat
  BY DEF None, MInv, Good, Record
<1>3. CASE CancelledAtResponse(m) \/ Answered(m)
  BY <1>1, <1>3, SameEntries, FinishKeeps DEF CancelledAtResponse, Answered
<1>4. CASE TimedOut(m)
  BY <1>1, <1>2, <1>4, SameEntries, RetryOrFinishKeeps DEF TimedOut
<1>5. CASE NetworkFailed(m)
  BY <1>1, <1>2, <1>5, Removes, RetryOrFinishKeeps DEF NetworkFailed
<1>6. CASE BadAnswer(m)
  BY <1>1, <1>6, Removes, FinishKeeps DEF BadAnswer
<1>7. CASE ServerBusy(m)
  BY <1>1, <1>2, <1>7, SameEntries, RetryOrFinishKeeps DEF ServerBusy
<1>8. CASE Redirected(m)
  <2>1. EntriesStep
    BY <1>8, SameEntries DEF Redirected
  <2>2. PICK x \in {"answer", "keep"}, h \in Hosts \cup {BadHost} :
          \/ Finish(m, "told")
          \/ Becomes(m, [ms[m] EXCEPT !.pc = "queued", !.hops = @ + 1, !.host = h,
                                      !.strip = StripOn(m, h), !.res = x,
                                      !.post = (x = "keep"),
                                      !.conn = None, !.failed = None])
    BY <1>8 DEF Redirected
  <2> QED BY <1>1, <2>1, <2>2, RedirectGood, FinishKeeps, OneMoves
<1> QED BY <1>3, <1>4, <1>5, <1>6, <1>7, <1>8 DEF Response

-----------------------------------------------------------------------------
\* The choice of a connection

\* An entry with a connection more, or another one in the place of the one avoided.
LEMMA OneMore ==
  ASSUME MInv, NEW h \in Hosts, NEW c, pools' = [pools EXCEPT ![h] = (@ \ c) \cup {Fresh}]
  PROVE  EntriesStep
<1> DEFINE e == (pools[h] \ c) \cup {Fresh}
<1>1. Fresh \in Conns /\ Entries
  BY MInvTypes, FreshIsNew DEF MInv
<1>2. IsFiniteSet(e)
  <2>1. IsFiniteSet(pools[h]) /\ IsFiniteSet({Fresh})
    BY <1>1, FS_Singleton DEF Entries
  <2>2. IsFiniteSet(pools[h] \ c)
    BY <2>1, FS_Subset
  <2> QED BY <2>1, <2>2, FS_Union
<1>3. e \subseteq Conns /\ e \subseteq pools[h] \cup {Fresh}
  BY <1>1 DEF Entries
<1> HIDE DEF e
<1>4. /\ pools' \in [Hosts -> SUBSET Conns] /\ pools'[h] = e
      /\ \A g \in Hosts \ {h} : pools'[g] = pools[g]
  BY <1>1, <1>3 DEF Entries, e
<1> QED BY <1>1, <1>2, <1>3, <1>4 DEF EntriesStep, Entries

LEMMA SentGood ==
  ASSUME MInv, NEW m \in Machines, ms[m].pc = "choose", NEW c \in Conns, c # ms[m].failed
  PROVE  Good(m, [ms[m] EXCEPT !.pc = "flight", !.conn = c, !.avoid = None,
                               !.at = LaneOf(ms[m].host), !.snap = {}, !.orphan = FALSE], pools')
<1> DEFINE l == LaneOf(ms[m].host)
           r == [ms[m] EXCEPT !.pc = "flight", !.conn = c, !.avoid = None,
                              !.at = l, !.snap = {}, !.orphan = FALSE]
<1>1. Good(m, ms[m], pools) /\ ms[m] \in Record /\ ms[m].host \in Hosts
  BY DEF MInv, Good, Targeted, Trying
<1>2. l \in Nat /\ None \in Nat /\ c \in Nat /\ c # None
  <2>1. \A a \in Nat, b \in Nat \ {0} : a % b \in Nat
    OBVIOUS
  <2>2. l \in Nat
    BY <1>1, <2>1, Constants DEF LaneOf
  <2> QED BY <2>2 DEF None, Conns
<1> HIDE DEF l
<1>3. r \in Record
  BY <1>1, <1>2 DEF Record, PCs
<1>4. /\ r.pc = "flight" /\ r.conn = c /\ r.snap = {} /\ r.failed = ms[m].failed
      /\ r.host = ms[m].host /\ r.first = ms[m].first /\ r.strip = ms[m].strip
      /\ r.tries = ms[m].tries /\ r.res = ms[m].res /\ r.post = ms[m].post
  BY <1>1 DEF Record
<1>5. IsFiniteSet({})
  BY FS_EmptySet
<1> HIDE DEF r
<1>6. Good(m, r, pools')
  BY <1>1, <1>2, <1>3, <1>4, <1>5
     DEF Good, Targeted, Stripped, TriedOnce, Avoided, Untried, Trying, Going
<1> QED BY <1>6 DEF r, l

LEMMA ReplaceStep == ASSUME MInv, NEW m \in Machines, Replace(m) PROVE MInv'
<1>1. ms[m].pc = "choose" /\ ms[m].host \in Hosts
  BY DEF MInv, Good, Targeted, Trying, Replace
<1>2. EntriesStep
  <2>1. CASE ms[m].orphan
    BY <2>1, SameEntries DEF Replace
  <2>2. CASE ~ms[m].orphan
    BY <1>1, <2>2, OneMore DEF Replace
  <2> QED BY <2>1, <2>2
<1>3. Fresh \in Conns /\ Fresh # ms[m].failed
  BY MInvTypes, FreshIsNew
<1> QED BY <1>1, <1>2, <1>3, SentGood, OneMoves DEF Replace, Sent

LEMMA ChooseStep == ASSUME MInv, NEW m \in Machines, Choose(m) PROVE MInv'
<1>1. ms[m].pc = "choose" /\ ms[m].host \in Hosts /\ ms[m] \in Record
  BY DEF MInv, Good, Targeted, Trying, Choose
<1>2. PICK c \in ms[m].snap \ {ms[m].avoid} :
        /\ Sent(m, c)
        /\ \/ pools' = pools
           \/ pools' = [pools EXCEPT ![ms[m].host] = @ \cup {Fresh}]
  BY DEF Choose
<1>3. EntriesStep
  <2>1. CASE pools' = pools
    BY <2>1, SameEntries
  <2>2. CASE pools' = [pools EXCEPT ![ms[m].host] = @ \cup {Fresh}]
    <3>1. pools' = [pools EXCEPT ![ms[m].host] = (@ \ {}) \cup {Fresh}]
      BY <2>2
    <3> QED BY <1>1, <3>1, OneMore
  <2> QED BY <1>2, <2>1, <2>2
<1>4. c \in Conns /\ c # ms[m].failed
  BY <1>1, <1>2 DEF MInv, Good, Avoided, Record, None, Conns
<1> QED BY <1>1, <1>2, <1>3, <1>4, SentGood, OneMoves DEF Sent

LEMMA LookStep == ASSUME MInv, NEW m \in Machines, Look(m) PROVE MInv'
<1> DEFINE h == ms[m].host
           snap == IF pools[h] = {} THEN {Fresh} ELSE pools[h]
           r == [ms[m] EXCEPT !.pc = "choose", !.snap = snap]
<1>1. /\ ms[m].pc = "look" /\ h \in Hosts /\ Good(m, ms[m], pools) /\ ms[m] \in Record
      /\ Entries
  BY DEF MInv, Good, Targeted, Trying, Look
<1>2. Fresh \in Conns /\ Fresh # ms[m].failed
  BY MInvTypes, FreshIsNew
<1>3. snap \subseteq Conns /\ IsFiniteSet(snap) /\ snap \subseteq pools[h] \cup {Fresh}
  BY <1>1, <1>2, FS_Singleton DEF Entries
<1>4. EntriesStep
  <2>1. CASE pools[h] # {}
    BY <2>1, SameEntries DEF Look
  <2>2. CASE pools[h] = {}
    <3>1. pools' = [g \in Hosts |-> IF g = h THEN snap
                                    ELSE IF Contains(order', g) THEN pools[g] ELSE {}]
      BY <2>2 DEF Look
    <3> HIDE DEF snap, h
    <3>2. \A g \in Hosts : (pools'[g] = snap /\ g = h) \/ pools'[g] = pools[g] \/ pools'[g] = {}
      BY <3>1
    <3>3. pools' \in [Hosts -> SUBSET Conns]
      BY <1>1, <1>3, <3>1, <3>2 DEF Entries
    <3> QED BY <1>1, <1>3, <3>2, <3>3, FS_EmptySet DEF EntriesStep, Entries
  <2> QED BY <2>1, <2>2
<1>5. Good(m, r, pools')
  <2> HIDE DEF snap
  <2>1. r \in Record
    BY <1>1, <1>3 DEF Record, PCs
  <2>2. /\ r.pc = "choose" /\ r.snap = snap /\ r.failed = ms[m].failed
        /\ r.avoid = ms[m].avoid
        /\ r.host = ms[m].host /\ r.first = ms[m].first /\ r.strip = ms[m].strip
        /\ r.tries = ms[m].tries /\ r.res = ms[m].res /\ r.post = ms[m].post
    BY <1>1 DEF Record
  <2> HIDE DEF r
  <2>3. Targeted(r) /\ Stripped(r) /\ TriedOnce(m, r)
    BY <1>1, <2>2 DEF Good, Targeted, Stripped, TriedOnce, Untried, Trying, Going
  <2>4. Avoided(r, pools')
    BY <1>1, <1>2, <1>3, <2>2 DEF Good, Avoided
  <2> QED BY <1>3, <2>1, <2>2, <2>3, <2>4 DEF Good
<1>6. /\ ms' = [n \in Machines |-> ms'[n]] /\ ms'[m] = r
      /\ \A n \in Machines \ {m} : ms'[n] = ms[n] \/ ms'[n] = [ms[n] EXCEPT !.orphan = TRUE]
  <2>1. ms' = [n \in Machines |->
                IF n = m THEN r
                ELSE IF ms[n].pc = "choose" /\ pools'[ms[n].host] = {}
                THEN [ms[n] EXCEPT !.orphan = TRUE] ELSE ms[n]]
    BY DEF Look
  <2> HIDE DEF r
  <2> QED BY <2>1
<1> HIDE DEF r, snap, h
<1>7. \A n \in Machines : Good(n, ms'[n], pools')
  BY <1>4, <1>5, <1>6, StaysGood
<1> QED BY <1>4, <1>6, <1>7 DEF MInv, EntriesStep

-----------------------------------------------------------------------------
\* Close and Cancel

LEMMA CloseStep == ASSUME MInv, Close PROVE MInv'
<1>1. CASE CloseBegins
  BY <1>1 DEF CloseBegins, MInv, Entries
<1>2. CASE CloseClears
  <2>1. EntriesStep
    BY <1>2, FS_EmptySet DEF CloseClears, EntriesStep, Entries
  <2>2. \A n \in Machines : Good(n, ms'[n], pools')
    <3> SUFFICES ASSUME NEW n \in Machines PROVE Good(n, ms'[n], pools')
      OBVIOUS
    <3> DEFINE b == ms[n].orphan \/ ms[n].pc = "choose"
    <3>1. b \in BOOLEAN /\ ms'[n] = [ms[n] EXCEPT !.orphan = b]
      BY <1>2 DEF CloseClears
    <3> HIDE DEF b
    <3> QED BY <2>1, <3>1, StaysGood
  <2> QED BY <1>2, <2>1, <2>2 DEF CloseClears, MInv, EntriesStep
<1>3. ASSUME NEW l \in 0..Lanes - 1, LaneEnds(l) PROVE MInv'
  <2>1. EntriesStep
    BY <1>3, SameEntries DEF LaneEnds
  <2>2. \A n \in Machines : ms'[n] = Lost \/ ms'[n] = ms[n]
    BY <1>3 DEF LaneEnds
  <2>3. \A n \in Machines : Good(n, ms'[n], pools')
    BY <2>1, <2>2, NewMachineGood, StaysGood
  <2> QED BY <1>3, <2>1, <2>3 DEF LaneEnds, MInv, EntriesStep
<1>4. CASE CloseJoins
  BY <1>4 DEF CloseJoins, MInv, Entries
<1> QED BY <1>1, <1>2, <1>3, <1>4 DEF Close

LEMMA CancelStep ==
  ASSUME MInv, NEW m \in Machines, Cancel(m) \/ FindsNoLane(m)
  PROVE  MInv'
<1>1. EntriesStep
  BY SameEntries DEF Cancel, FindsNoLane
<1>2. CASE Cancel(m)
  BY <1>1, <1>2, StaysGood, OneMoves DEF Cancel
<1>3. CASE FindsNoLane(m)
  BY <1>1, <1>3, NewMachineGood, OneMoves DEF FindsNoLane
<1> QED BY <1>2, <1>3

-----------------------------------------------------------------------------
LEMMA MInit == Init => MInv
<1> SUFFICES ASSUME Init PROVE MInv
  OBVIOUS
<1>1. Entries
  BY FS_EmptySet DEF Init, Entries
<1>2. ms = [m \in Machines |-> ms[m]] /\ \A m \in Machines : ms[m] = NewMachine
  BY DEF Init
<1> QED BY <1>1, <1>2, NewMachineGood DEF MInv

LEMMA MStep == MInv /\ [Next]_vars => MInv'
<1> SUFFICES ASSUME MInv, [Next]_vars PROVE MInv'
  OBVIOUS
<1>1. CASE UNCHANGED vars
  BY <1>1 DEF vars, MInv, Entries
<1>2. CASE Close
  BY <1>2, CloseStep
<1>3. ASSUME NEW m \in Machines, Send(m) \/ Cancel(m) \/ Machine(m) PROVE MInv'
  BY <1>3, EarlySteps, NextAttemptStep, LookStep, ReplaceStep, ChooseStep, ResponseStep,
     CancelStep DEF Machine
<1> QED BY <1>1, <1>2, <1>3 DEF Next

\* The machine's records and entries, at every moment of Spec.
LEMMA Invariance == Spec => []MInv
BY MInit, MStep, PTL DEF Spec

\* A POST that is not declared repeatable is sent again only to where a 307 or 308 sends
\* it, over any chain of failures, retries and redirects (RetryOrFinish, OnResponse).
THEOREM PostsAreNotRepeated == Spec => []PostedOnce
<1>1. MInv => PostedOnce
  BY DEF MInv, Good, TriedOnce, Trying, PostedOnce
<1> QED BY <1>1, Invariance, PTL

\* Sensitive headers never leave the request's own target (OnResponse).
THEOREM HeadersStayHome == Spec => []SecretsStayHome
<1>1. MInv => SecretsStayHome
  BY Constants DEF MInv, Good, Targeted, Stripped, Trying, Going, SecretsStayHome
<1> QED BY <1>1, Invariance, PTL

\* After an attempt without a response the next one uses another connection, whatever
\* other requests add to, replace in or evict from the entry meanwhile (GetPoolClient,
\* RemovePoolClient).
THEOREM RetriesChangeConnection == Spec => []NewConnectionAfterFailure
<1>1. MInv => NewConnectionAfterFailure
  BY DEF MInv, Good, Targeted, Avoided, NewConnectionAfterFailure
<1> QED BY <1>1, Invariance, PTL

-----------------------------------------------------------------------------
(***************************************************************************)
(* The size of an entry.  A connection to be avoided is replaced in an     *)
(* entry that may have changed since it was copied: that the entry does    *)
(* not grow by this rests on the lanes.  Who avoids a connection runs on   *)
(* the lane of its target (Laned), where one handler runs at a time        *)
(* (OneHandler) and where alone connections are taken out, so that the     *)
(* connection is still there (StillThere).                                 *)
(***************************************************************************)
Laned(r) ==
  /\ r.pc = "flight" => r.at = LaneOf(r.host) /\ r.avoid = None
  /\ r.avoid # None => r.pc \in {"queued", "look", "choose"} /\ r.at = LaneOf(r.host)

StillThere(r, ps) ==
  r.pc = "choose" =>
    /\ r.snap # {}
    /\ r.avoid # None /\ r.avoid \in r.snap /\ r.orphan = FALSE => r.avoid \in ps[r.host]

OneHandler ==
  \A m, n \in Machines :
    m # n /\ Choosing(m) /\ Choosing(n) => ms[m].at = Pool \/ ms[m].at # ms[n].at

LInv ==
  /\ \A m \in Machines : Laned(ms[m]) /\ StillThere(ms[m], pools)
  /\ OneHandler
  /\ AtMostMaxConn

LEMMA LaneIsNotPool ==
  ASSUME MInv, NEW m \in Machines
  PROVE  LaneOf(ms[m].host) \in Nat /\ LaneOf(ms[m].host) # Pool
<1>1. ms[m].host \in Nat
  BY Constants DEF MInv, Good, Record
<1>2. \A a \in Nat, b \in Nat \ {0} : a % b \in 0..(b - 1)
  OBVIOUS
<1>3. LaneOf(ms[m].host) \in 0..(Lanes - 1)
  BY <1>1, <1>2, Constants DEF LaneOf
<1> QED BY <1>3, Constants DEF Pool

\* Nobody else, on its target's lane, looks at an entry that shrinks.
NobodyAvoids(m, h) ==
  \A n \in Machines \ {m} :
    Choosing(n) /\ ms[n].avoid # None /\ ms[n].orphan = FALSE => ms[n].host # h

LEMMA FreeLane ==
  ASSUME MInv, LInv, NEW m \in Machines, Receives(m)
  PROVE  NobodyAvoids(m, ms[m].host)
BY LaneIsNotPool DEF Receives, Free, LInv, Laned, NobodyAvoids

\* A step of one request, of which the others only notice a smaller entry.
LEMMA OneMovesL ==
  ASSUME MInv, LInv, NEW m \in Machines, NEW r, Becomes(m, r),
         Laned(r), StillThere(r, pools'), AtMostMaxConn',
         r.pc \in {"look", "choose"} => r.at = ms[m].at /\ (Choosing(m) \/ Free(ms[m].at)),
         \A h \in Hosts : pools[h] \subseteq pools'[h] \/ NobodyAvoids(m, h)
  PROVE  LInv'
<1>1. ms = [n \in Machines |-> ms[n]] /\ ms' = [ms EXCEPT ![m] = r]
  BY DEF MInv, Becomes
<1>2. ms'[m] = r /\ \A n \in Machines \ {m} : ms'[n] = ms[n]
  BY <1>1
<1>3. ASSUME NEW n \in Machines PROVE Laned(ms'[n]) /\ StillThere(ms'[n], pools')
  <2>1. CASE n = m
    BY <1>2, <2>1
  <2>2. CASE n # m
    <3>1. Laned(ms[n]) /\ StillThere(ms[n], pools) /\ ms'[n] = ms[n]
      BY <1>2, <2>2 DEF LInv
    <3>2. ms[n].pc = "choose" => Choosing(n) /\ ms[n].host \in Hosts
      BY DEF MInv, Good, Targeted, Trying, Choosing
    <3> QED BY <2>2, <3>1, <3>2 DEF StillThere, NobodyAvoids
  <2> QED BY <2>1, <2>2
<1>4. OneHandler'
  <2> SUFFICES ASSUME NEW x \in Machines, NEW y \in Machines, x # y,
                      Choosing(x)', Choosing(y)', ms'[x].at # Pool, ms'[x].at = ms'[y].at
               PROVE  FALSE
    BY DEF OneHandler
  <2>1. ms'[x].pc \in {"look", "choose"} /\ ms'[y].pc \in {"look", "choose"}
    BY DEF Choosing
  <2>2. \A n \in Machines : n # m => ms'[n].at = ms[n].at /\ (ms'[n].pc \in {"look", "choose"} => Choosing(n))
    BY <1>2 DEF Choosing
  <2>3. r.pc \in {"look", "choose"} /\ ~Choosing(m) /\ ms[m].at # Pool =>
          \A n \in Machines : Choosing(n) => ms[n].at # ms[m].at
    BY DEF Free
  <2>4. CASE x # m /\ y # m
    BY <2>1, <2>2, <2>4 DEF LInv, OneHandler
  <2>5. CASE x = m
    BY <1>2, <2>1, <2>2, <2>3, <2>5 DEF LInv, OneHandler
  <2>6. CASE y = m
    BY <1>2, <2>1, <2>2, <2>3, <2>6 DEF LInv, OneHandler
  <2> QED BY <2>4, <2>5, <2>6
<1> QED BY <1>3, <1>4 DEF LInv

LEMMA Sizes ==
  /\ MaxConn \in Nat \ {0}
  /\ \A S, a : IsFiniteSet(S) =>
       /\ IsFiniteSet(S \ {a}) /\ IsFiniteSet(S \cup {a})
       /\ Cardinality(S) \in Nat
       /\ Cardinality(S \ {a}) <= Cardinality(S)
       /\ a \in S => Cardinality(S \ {a}) = Cardinality(S) - 1
       /\ a \notin S => Cardinality(S \cup {a}) = Cardinality(S) + 1
  /\ \A a : Cardinality({a}) = 1
<1>1. ASSUME NEW S, NEW a, IsFiniteSet(S)
      PROVE  /\ IsFiniteSet(S \ {a}) /\ IsFiniteSet(S \cup {a})
             /\ Cardinality(S) \in Nat
             /\ Cardinality(S \ {a}) <= Cardinality(S)
             /\ a \in S => Cardinality(S \ {a}) = Cardinality(S) - 1
             /\ a \notin S => Cardinality(S \cup {a}) = Cardinality(S) + 1
  BY <1>1, FS_Subset, FS_AddElement, FS_RemoveElement, FS_CardinalityType
<1>2. \A a : Cardinality({a}) = 1
  BY FS_Singleton
<1> QED BY <1>1, <1>2, SendMachineAssumption

LEMMA SameSizes == LInv /\ pools' = pools => AtMostMaxConn' /\ \A h \in Hosts : pools[h] \subseteq pools'[h]
BY DEF LInv, AtMostMaxConn

LEMMA OneEntrySize ==
  ASSUME MInv, LInv, NEW h \in Hosts, NEW e, Cardinality(e) <= MaxConn,
         pools' = [pools EXCEPT ![h] = e]
  PROVE  AtMostMaxConn' /\ pools'[h] = e /\ \A g \in Hosts \ {h} : pools'[g] = pools[g]
BY DEF MInv, Entries, LInv, AtMostMaxConn

\* A step of one request that leaves the entries, and no connection to avoid, in place.
LEMMA QuietMoveL ==
  ASSUME MInv, LInv, NEW m \in Machines, NEW r, Becomes(m, r), pools' = pools, Laned(r),
         r.pc # "choose", r.pc = "look" => r.at = ms[m].at /\ Free(ms[m].at)
  PROVE  LInv'
BY SameSizes, OneMovesL DEF StillThere

\* What is over, or lost, is on no lane.
LEMMA GoneIsLaned ==
  ASSUME NEW r, r = NewMachine \/ r = Lost
                \/ \E x \in Reses : r = [NewMachine EXCEPT !.pc = "over", !.res = x]
  PROVE  Laned(r) /\ r.pc \in {"new", "over", "lost"}
<1>1. NewMachine \in Record /\ NewMachine.pc = "new" /\ NewMachine.avoid = None
  BY Constants DEF Record, NewMachine, PCs, Reses, None
<1> HIDE DEF NewMachine
<1>2. r.pc \in {"new", "over", "lost"} /\ r.avoid = None
  BY <1>1 DEF Lost, Record
<1> QED BY <1>2 DEF Laned

LEMMA FinishL ==
  ASSUME MInv, LInv, NEW m \in Machines, NEW x \in Reses, Finish(m, x), pools' = pools
  PROVE  LInv'
<1> DEFINE r == [NewMachine EXCEPT !.pc = "over", !.res = x]
<1>1. Laned(r) /\ r.pc \in {"new", "over", "lost"} /\ Becomes(m, r)
  BY GoneIsLaned DEF Finish
<1> HIDE DEF r
<1> QED BY <1>1, QuietMoveL

LEMMA EarlyStepsL ==
  ASSUME MInv, LInv, NEW m \in Machines,
         Send(m) \/ Start(m) \/ Post(m) \/ Prelude(m) \/ NextAttempt(m)
  PROVE  LInv'
<1>1. /\ pools' = pools /\ {"fail", "told", "cancelled"} \subseteq Reses
      /\ Laned(ms[m]) /\ ms[m] \in Record
      /\ ms[m].pc \in {"new", "start", "post", "prelude", "queued"}
  BY DEF Send, Start, Post, Prelude, NextAttempt, Reses, LInv, MInv, Good
<1>2. ASSUME NEW x \in Reses, Finish(m, x) PROVE LInv'
  BY <1>1, <1>2, FinishL
<1>3. CASE Becomes(m, Lost)
  BY <1>1, <1>3, GoneIsLaned, QuietMoveL
<1>4. ASSUME NEW r, r \in Record, Becomes(m, r), r.avoid = ms[m].avoid,
             r.pc \in {"start", "post", "prelude", "queued"}, ms[m].pc # "queued"
      PROVE  LInv'
  BY <1>1, <1>4, QuietMoveL DEF Laned
<1>5. CASE Send(m)
  <2> DEFINE b == m \in Posts
  <2>1. ASSUME NEW h \in Hosts,
               Becomes(m, [ms[m] EXCEPT !.pc = "start", !.host = h, !.first = h, !.post = b]),
               ms[m].pc = "new"
        PROVE  LInv'
    <3>1. b \in BOOLEAN
      OBVIOUS
    <3> HIDE DEF b
    <3> QED BY <1>1, <1>4, <2>1, <3>1 DEF Record, PCs
  <2> QED BY <1>1, <1>2, <1>5, <2>1 DEF Send
<1>6. CASE Start(m)
  <2>1. ASSUME NEW p \in {"prelude", "post"}, Becomes(m, [ms[m] EXCEPT !.pc = p])
        PROVE  LInv'
    BY <1>1, <1>4, <1>6, <2>1 DEF Record, PCs, Start
  <2> QED BY <1>1, <1>2, <1>6, <2>1 DEF Start
<1>7. CASE Post(m) \/ Prelude(m)
  <2>1. ASSUME NEW a \in Nat, Becomes(m, [ms[m] EXCEPT !.pc = "queued", !.at = a])
        PROVE  LInv'
    BY <1>1, <1>4, <1>7, <2>1 DEF Record, PCs, Post, Prelude
  <2> QED BY <1>1, <1>2, <1>3, <1>7, <2>1, Constants DEF Post, Prelude
<1>8. CASE NextAttempt(m)
  <2>1. ASSUME NEW k, Becomes(m, [ms[m] EXCEPT !.pc = "look", !.tries = k])
        PROVE  LInv'
    <3> DEFINE r == [ms[m] EXCEPT !.pc = "look", !.tries = k]
    <3>1. /\ r.pc = "look" /\ r.at = ms[m].at /\ r.avoid = ms[m].avoid
          /\ r.host = ms[m].host /\ Becomes(m, r)
      BY <1>1, <2>1 DEF Record
    <3> HIDE DEF r
    <3>2. Laned(r)
      BY <1>1, <3>1 DEF Laned
    <3> QED BY <1>1, <1>8, <3>1, <3>2, QuietMoveL DEF NextAttempt
  <2> QED BY <1>1, <1>2, <1>8, <2>1 DEF NextAttempt
<1> QED BY <1>5, <1>6, <1>7, <1>8

\* A retry, or the end, after a response that may have cost the entry a connection
LEMMA RetryOrFinishL ==
  ASSUME MInv, LInv, NEW m \in Machines, Receives(m), NEW x, NEW a,
         RetryOrFinish(m, x, a) \/ Finish(m, "told"),
         AtMostMaxConn', \A h \in Hosts : pools[h] \subseteq pools'[h] \/ NobodyAvoids(m, h)
  PROVE  LInv'
<1>1. PICK r : Becomes(m, r) /\ Laned(r) /\ r.pc \notin {"look", "choose"}
  <2>1. CASE Finish(m, "told")
    <3> DEFINE r == [NewMachine EXCEPT !.pc = "over", !.res = "told"]
    <3>1. Laned(r) /\ r.pc \in {"new", "over", "lost"} /\ Becomes(m, r)
      BY <2>1, GoneIsLaned DEF Finish, Reses
    <3> QED BY <3>1
  <2>2. CASE Retry(m, x, a)
    <3> DEFINE k == ms[m].retries + 1
               f == IF x = "silence" THEN ms[m].conn ELSE None
               r == [ms[m] EXCEPT !.pc = "queued", !.retries = k, !.res = x, !.avoid = a,
                                  !.conn = None, !.failed = f]
    <3>1. Becomes(m, r)
      BY <2>2 DEF Retry
    <3>2. Laned(r) /\ r.pc = "queued"
      <4> HIDE DEF k, f
      <4>1. ms[m] \in Record /\ ms[m].at = LaneOf(ms[m].host)
        BY DEF MInv, Good, LInv, Laned, Receives
      <4> QED BY <4>1 DEF Record, Laned
    <3> HIDE DEF r
    <3> QED BY <3>1, <3>2
  <2> QED BY <2>1, <2>2 DEF RetryOrFinish
<1>2. StillThere(r, pools')
  BY <1>1 DEF StillThere
<1> QED BY <1>1, <1>2, OneMovesL

LEMMA RemovedSize ==
  ASSUME MInv, LInv, NEW h \in Hosts, NEW c, RemovePoolClient(h, c)
  PROVE  AtMostMaxConn' /\ \A g \in Hosts \ {h} : pools[g] \subseteq pools'[g]
<1> DEFINE e == WithOne(pools[h] \ {c})
<1>1. CASE pools' = pools
  BY <1>1, SameSizes
<1>2. CASE pools' = [pools EXCEPT ![h] = e]
  <2>1. Cardinality(pools[h] \ {c}) <= Cardinality(pools[h]) /\ Cardinality(pools[h]) <= MaxConn
        /\ Cardinality(pools[h]) \in Nat /\ Cardinality(pools[h] \ {c}) \in Nat
    BY Sizes DEF MInv, Entries, LInv, AtMostMaxConn
  <2>2. Cardinality({Fresh}) = 1 /\ MaxConn \in Nat \ {0}
    BY Sizes
  <2>3. Cardinality(e) <= MaxConn
    BY <2>1, <2>2 DEF WithOne
  <2> HIDE DEF e
  <2> QED BY <1>2, <2>3, OneEntrySize
<1> QED BY <1>1, <1>2 DEF RemovePoolClient

LEMMA ResponseStepL ==
  ASSUME MInv, LInv, NEW m \in Machines, Response(m)
  PROVE  LInv'
<1>1. /\ Receives(m) /\ ms[m] \in Record /\ ms[m].host \in Hosts /\ ms[m].avoid = None
      /\ {"told", "cancelled"} \subseteq Reses
  BY DEF Response, CancelledAtResponse, TimedOut, NetworkFailed, BadAnswer, ServerBusy,
         Answered, Redirected, Receives, MInv, Good, Targeted, Trying, LInv, Laned, Reses
<1>2. CASE TimedOut(m) \/ ServerBusy(m)
  <2>1. pools' = pools
    BY <1>2 DEF TimedOut, ServerBusy
  <2> QED BY <1>1, <1>2, <2>1, SameSizes, RetryOrFinishL DEF TimedOut, ServerBusy
<1>3. CASE NetworkFailed(m) \/ BadAnswer(m)
  <2>1. RemovePoolClient(ms[m].host, ms[m].conn)
    BY <1>3 DEF NetworkFailed, BadAnswer
  <2>2. AtMostMaxConn' /\ \A h \in Hosts : pools[h] \subseteq pools'[h] \/ NobodyAvoids(m, h)
    BY <1>1, <2>1, RemovedSize, FreeLane
  <2> QED BY <1>1, <1>3, <2>2, RetryOrFinishL DEF NetworkFailed, BadAnswer
<1>4. CASE CancelledAtResponse(m) \/ Answered(m)
  BY <1>1, <1>4, FinishL DEF CancelledAtResponse, Answered
<1>5. CASE Redirected(m)
  <2>1. PICK x \in {"answer", "keep"}, h \in Hosts \cup {BadHost} :
          \/ Finish(m, "told")
          \/ Becomes(m, [ms[m] EXCEPT !.pc = "queued", !.hops = @ + 1, !.host = h,
                                      !.strip = StripOn(m, h), !.res = x,
                                      !.post = (x = "keep"),
                                      !.conn = None, !.failed = None])
    BY <1>5 DEF Redirected
  <2>2. pools' = pools
    BY <1>5 DEF Redirected
  <2>3. CASE Finish(m, "told")
    BY <1>1, <2>2, <2>3, FinishL
  <2>4. ASSUME NEW k, NEW s, NEW p,
               Becomes(m, [ms[m] EXCEPT !.pc = "queued", !.hops = k, !.host = h, !.strip = s,
                                        !.res = x, !.post = p, !.conn = None, !.failed = None])
        PROVE  LInv'
    <3> DEFINE r == [ms[m] EXCEPT !.pc = "queued", !.hops = k, !.host = h, !.strip = s,
                                  !.res = x, !.post = p, !.conn = None, !.failed = None]
    <3>1. r.pc = "queued" /\ r.avoid = None /\ Becomes(m, r)
      BY <1>1, <2>4 DEF Record
    <3> HIDE DEF r
    <3> QED BY <2>2, <3>1, QuietMoveL DEF Laned
  <2> QED BY <2>1, <2>3, <2>4
<1> QED BY <1>2, <1>3, <1>4, <1>5 DEF Response

LEMMA SentLaned ==
  ASSUME MInv, NEW m \in Machines, NEW c
  PROVE  LET r == [ms[m] EXCEPT !.pc = "flight", !.conn = c, !.avoid = None,
                                !.at = LaneOf(ms[m].host), !.snap = {}, !.orphan = FALSE]
         IN  Laned(r) /\ r.pc = "flight"
BY DEF MInv, Good, Record, Laned

LEMMA SentL ==
  ASSUME MInv, LInv, NEW m \in Machines, NEW c, Sent(m, c), AtMostMaxConn',
         \A h \in Hosts : pools[h] \subseteq pools'[h] \/ NobodyAvoids(m, h)
  PROVE  LInv'
<1> DEFINE r == [ms[m] EXCEPT !.pc = "flight", !.conn = c, !.avoid = None,
                              !.at = LaneOf(ms[m].host), !.snap = {}, !.orphan = FALSE]
<1>1. Laned(r) /\ r.pc = "flight" /\ Becomes(m, r)
  BY SentLaned DEF Sent
<1> HIDE DEF r
<1> QED BY <1>1, OneMovesL DEF StillThere

LEMMA ReplaceL == ASSUME MInv, LInv, NEW m \in Machines, Replace(m) PROVE LInv'
<1> DEFINE h == ms[m].host
           a == ms[m].avoid
<1>1. /\ ms[m].pc = "choose" /\ h \in Hosts /\ ms[m] \in Record /\ Entries
      /\ Laned(ms[m]) /\ StillThere(ms[m], pools)
  BY DEF MInv, Good, Targeted, Trying, LInv, Replace
<1>2. a \in ms[m].snap /\ a # None
  BY <1>1 DEF StillThere, Replace, Record, Conns, None
<1>3. NobodyAvoids(m, h)
  BY <1>1, <1>2, LaneIsNotPool DEF LInv, Laned, OneHandler, NobodyAvoids, Choosing
<1>4. CASE ms[m].orphan
  BY <1>4, SameSizes, SentL DEF Replace
<1>5. CASE ~ms[m].orphan
  <2> DEFINE e == (pools[h] \ {a}) \cup {Fresh}
  <2>1. a \in pools[h] /\ Fresh \notin pools[h]
    BY <1>1, <1>2, <1>5, MInvTypes, FreshIsNew DEF StillThere, Record
  <2>2. IsFiniteSet(pools[h] \ {a}) /\ Cardinality(pools[h] \ {a}) = Cardinality(pools[h]) - 1
        /\ Cardinality(pools[h]) \in Nat /\ Cardinality(pools[h]) <= MaxConn
    BY <1>1, <2>1, Sizes DEF Entries, LInv, AtMostMaxConn
  <2>3. Cardinality(e) = Cardinality(pools[h] \ {a}) + 1
    BY <2>1, <2>2, Sizes
  <2>4. Cardinality(e) <= MaxConn
    BY <2>2, <2>3
  <2>5. pools' = [pools EXCEPT ![h] = e]
    BY <1>5 DEF Replace
  <2> HIDE DEF e
  <2>6. AtMostMaxConn' /\ \A g \in Hosts \ {h} : pools'[g] = pools[g]
    BY <1>1, <2>4, <2>5, OneEntrySize
  <2> QED BY <1>3, <2>6, SentL DEF Replace
<1> QED BY <1>4, <1>5

LEMMA ChooseL == ASSUME MInv, LInv, NEW m \in Machines, Choose(m) PROVE LInv'
<1> DEFINE h == ms[m].host
           e == pools[h] \cup {Fresh}
<1>1. h \in Hosts /\ Entries
  BY DEF MInv, Good, Targeted, Trying, Choose
<1>2. PICK c : /\ Sent(m, c)
               /\ pools' = pools \/ (HasRoom(m) /\ pools' = [pools EXCEPT ![h] = e])
  BY DEF Choose
<1>3. CASE pools' = pools
  BY <1>2, <1>3, SameSizes, SentL
<1>4. CASE HasRoom(m) /\ pools' = [pools EXCEPT ![h] = e]
  <2>1. Cardinality(e) = Cardinality(pools[h]) + 1 /\ Cardinality(pools[h]) \in Nat
    BY <1>1, Sizes, MInvTypes, FreshIsNew DEF Entries
  <2>2. Cardinality(e) <= MaxConn /\ pools[h] \subseteq e
    BY <1>4, <2>1, Sizes DEF HasRoom
  <2> HIDE DEF e
  <2>3. AtMostMaxConn' /\ \A g \in Hosts : pools[g] \subseteq pools'[g]
    BY <1>1, <1>4, <2>2, OneEntrySize
  <2> QED BY <1>2, <2>3, SentL
<1> QED BY <1>2, <1>3, <1>4

LEMMA LookL == ASSUME MInv, LInv, NEW m \in Machines, Look(m) PROVE LInv'
<1> DEFINE h == ms[m].host
           snap == IF pools[h] = {} THEN {Fresh} ELSE pools[h]
           r == [ms[m] EXCEPT !.pc = "choose", !.snap = snap]
<1>1. /\ ms[m].pc = "look" /\ h \in Hosts /\ ms[m] \in Record /\ Entries
      /\ Laned(ms[m]) /\ OneHandler
  BY DEF MInv, Good, Targeted, Trying, Look, LInv
<1>2. /\ r.pc = "choose" /\ r.snap = snap /\ r.at = ms[m].at
      /\ r.avoid = ms[m].avoid /\ r.host = h
  BY <1>1 DEF Record
<1>3. /\ ms'[m] = r
      /\ \A n \in Machines \ {m} :
           ms'[n] = IF ms[n].pc = "choose" /\ pools'[ms[n].host] = {}
                    THEN [ms[n] EXCEPT !.orphan = TRUE] ELSE ms[n]
  <2>1. ms' = [n \in Machines |->
                IF n = m THEN r
                ELSE IF ms[n].pc = "choose" /\ pools'[ms[n].host] = {}
                THEN [ms[n] EXCEPT !.orphan = TRUE] ELSE ms[n]]
    BY DEF Look
  <2> HIDE DEF r
  <2> QED BY <2>1
<1>4. pools'[h] = snap /\ snap # {} /\ \A g \in Hosts \ {h} : pools'[g] \in {pools[g], {}}
  BY <1>1 DEF Look, Entries
<1>5. snap = pools[h] \/ (pools[h] = {} /\ snap = {Fresh})
  OBVIOUS
<1> HIDE DEF r, snap
<1>6. \A n \in Machines \ {m} :
        /\ ms'[n].pc = ms[n].pc /\ ms'[n].at = ms[n].at /\ ms'[n].host = ms[n].host
        /\ ms'[n].avoid = ms[n].avoid /\ ms'[n].snap = ms[n].snap
        /\ ms[n].pc = "choose" /\ ms'[n].orphan = FALSE =>
             ms[n].orphan = FALSE /\ pools'[ms[n].host] # {}
  <2>1. \A n \in Machines : ms[n] \in Record
    BY DEF MInv, Good
  <2>2. SUFFICES ASSUME NEW n \in Machines \ {m}
                 PROVE  /\ ms'[n].pc = ms[n].pc /\ ms'[n].at = ms[n].at
                        /\ ms'[n].host = ms[n].host /\ ms'[n].avoid = ms[n].avoid
                        /\ ms'[n].snap = ms[n].snap
                        /\ ms[n].pc = "choose" /\ ms'[n].orphan = FALSE =>
                             ms[n].orphan = FALSE /\ pools'[ms[n].host] # {}
    OBVIOUS
  <2>3. ms'[n] = ms[n] \/ ms'[n] = [ms[n] EXCEPT !.orphan = TRUE]
    BY <1>3
  <2>4. ms'[n] = ms[n] => (ms[n].pc = "choose" /\ ms[n].orphan = FALSE
                            => pools'[ms[n].host] # {})
    BY <1>3, <2>1 DEF Record
  <2> QED BY <2>1, <2>3, <2>4 DEF Record
<1>7. ASSUME NEW n \in Machines PROVE Laned(ms'[n]) /\ StillThere(ms'[n], pools')
  <2>1. CASE n = m
    BY <1>1, <1>2, <1>3, <1>4, <2>1 DEF Laned, StillThere
  <2>2. CASE n # m
    <3>1. Laned(ms[n]) /\ StillThere(ms[n], pools)
      BY DEF LInv
    <3>2. ms[n].pc = "choose" => ms[n].host \in Hosts
      BY DEF MInv, Good, Targeted, Trying
    <3>3. Laned(ms'[n])
      BY <1>6, <2>2, <3>1 DEF Laned
    <3>4. \A g \in Hosts : pools'[g] # {} => pools[g] \subseteq pools'[g]
      BY <1>4, <1>5
    <3>5. StillThere(ms'[n], pools')
      BY <1>6, <2>2, <3>1, <3>2, <3>4 DEF StillThere
    <3> QED BY <3>3, <3>5
  <2> QED BY <2>1, <2>2
<1>8. OneHandler'
  BY <1>1, <1>2, <1>3, <1>6 DEF OneHandler, Choosing
<1>9. AtMostMaxConn'
  <2>1. Cardinality({}) = 0 /\ Cardinality({Fresh}) = 1 /\ MaxConn \in Nat \ {0}
    BY FS_EmptySet, Sizes
  <2>2. \A g \in Hosts : pools'[g] \in {pools[g], {}, {Fresh}}
    BY <1>4, <1>5
  <2> QED BY <2>1, <2>2 DEF LInv, AtMostMaxConn
<1> QED BY <1>7, <1>8, <1>9 DEF LInv

LEMMA CloseL == ASSUME MInv, LInv, Close PROVE LInv'
<1>1. CASE CloseBegins
  BY <1>1 DEF CloseBegins, LInv, OneHandler, Choosing, AtMostMaxConn
<1>2. CASE CloseClears
  <2>1. AtMostMaxConn'
    BY <1>2, FS_EmptySet, Sizes DEF CloseClears, AtMostMaxConn
  <2>2. ASSUME NEW n \in Machines
        PROVE  /\ ms'[n].pc = ms[n].pc /\ ms'[n].at = ms[n].at /\ ms'[n].host = ms[n].host
               /\ ms'[n].avoid = ms[n].avoid /\ ms'[n].snap = ms[n].snap
               /\ ms[n].pc = "choose" => ms'[n].orphan = TRUE
    <3> DEFINE b == ms[n].orphan \/ ms[n].pc = "choose"
    <3>1. ms'[n] = [ms[n] EXCEPT !.orphan = b] /\ ms[n] \in Record
      BY <1>2 DEF CloseClears, MInv, Good
    <3>2. ms[n].pc = "choose" => b = TRUE
      BY <3>1 DEF Record
    <3> HIDE DEF b
    <3> QED BY <3>1, <3>2 DEF Record
  <2>3. ASSUME NEW n \in Machines PROVE Laned(ms'[n]) /\ StillThere(ms'[n], pools')
    <3>1. Laned(ms[n]) /\ StillThere(ms[n], pools)
      BY DEF LInv
    <3>2. Laned(ms'[n])
      BY <2>2, <3>1 DEF Laned
    <3>3. StillThere(ms'[n], pools')
      BY <2>2, <3>1 DEF StillThere
    <3> QED BY <3>2, <3>3
  <2>4. OneHandler'
    <3>1. \A n \in Machines : ms'[n].pc = ms[n].pc /\ ms'[n].at = ms[n].at
      BY <2>2
    <3>2. OneHandler
      BY DEF LInv
    <3> QED BY <3>1, <3>2 DEF OneHandler, Choosing
  <2> QED BY <2>1, <2>3, <2>4 DEF LInv
<1>3. ASSUME NEW l \in 0..Lanes - 1, LaneEnds(l) PROVE LInv'
  <2>1. pools' = pools /\ \A n \in Machines : ms'[n] = Lost \/ ms'[n] = ms[n]
    BY <1>3 DEF LaneEnds
  <2>2. Laned(Lost) /\ Lost.pc \in {"new", "over", "lost"}
    BY GoneIsLaned
  <2>3. \A n \in Machines : Laned(ms'[n]) /\ StillThere(ms'[n], pools')
    BY <2>1, <2>2 DEF LInv, StillThere
  <2>4. OneHandler'
    BY <2>1, <2>2 DEF LInv, OneHandler, Choosing
  <2> QED BY <2>1, <2>3, <2>4, SameSizes DEF LInv
<1>4. CASE CloseJoins
  BY <1>4 DEF CloseJoins, LInv, OneHandler, Choosing, AtMostMaxConn
<1> QED BY <1>1, <1>2, <1>3, <1>4 DEF Close

LEMMA CancelL ==
  ASSUME MInv, LInv, NEW m \in Machines, Cancel(m) \/ FindsNoLane(m)
  PROVE  LInv'
<1>1. CASE Cancel(m)
  <2>1. ms' = [ms EXCEPT ![m] = [ms[m] EXCEPT !.cancel = TRUE]] /\ pools' = pools
    BY <1>1 DEF Cancel, Becomes
  <2>2. ms = [n \in Machines |-> ms[n]] /\ \A n \in Machines : ms[n] \in Record
    BY DEF MInv, Good
  <2>3. \A n \in Machines :
          /\ ms'[n].pc = ms[n].pc /\ ms'[n].at = ms[n].at /\ ms'[n].host = ms[n].host
          /\ ms'[n].avoid = ms[n].avoid /\ ms'[n].snap = ms[n].snap
          /\ ms'[n].orphan = ms[n].orphan
    BY <2>1, <2>2 DEF Record
  <2>4. AtMostMaxConn'
    BY <2>1, SameSizes
  <2> QED BY <2>1, <2>3, <2>4 DEF LInv, Laned, StillThere, OneHandler, Choosing
<1>2. CASE FindsNoLane(m)
  BY <1>2, GoneIsLaned, QuietMoveL DEF FindsNoLane
<1> QED BY <1>1, <1>2

LEMMA LInit == Init => LInv
<1> SUFFICES ASSUME Init PROVE LInv
  OBVIOUS
<1>1. Laned(NewMachine) /\ NewMachine.pc = "new"
  BY GoneIsLaned DEF NewMachine
<1>2. \A m \in Machines : ms[m] = NewMachine
  BY DEF Init
<1>3. AtMostMaxConn
  BY FS_EmptySet, Sizes DEF Init, AtMostMaxConn
<1> QED BY <1>1, <1>2, <1>3 DEF LInv, StillThere, OneHandler, Choosing

LEMMA LStep == MInv /\ LInv /\ [Next]_vars => LInv'
<1> SUFFICES ASSUME MInv, LInv, [Next]_vars PROVE LInv'
  OBVIOUS
<1>1. CASE UNCHANGED vars
  BY <1>1 DEF vars, LInv, OneHandler, Choosing, AtMostMaxConn
<1>2. CASE Close
  BY <1>2, CloseL
<1>3. ASSUME NEW m \in Machines, Send(m) \/ Cancel(m) \/ Machine(m) PROVE LInv'
  BY <1>3, EarlyStepsL, LookL, ReplaceL, ChooseL, ResponseStepL, CancelL DEF Machine
<1> QED BY <1>1, <1>2, <1>3 DEF Next

\* A target never has more than maxConnPerHost connections: one more is added under the
\* lock and only where there is room, and the replacement of a connection to be avoided
\* takes the place of one that is still there (GetPoolClient).
THEOREM EntriesStaySmall == Spec => []AtMostMaxConn
<1>1. LInv => AtMostMaxConn
  BY DEF LInv
<1> QED BY <1>1, MInit, MStep, LInit, LStep, PTL DEF Spec
=============================================================================
