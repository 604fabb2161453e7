--------------------------- MODULE DownloadProofs ---------------------------
(***************************************************************************)
(* Theorems about Download, for any number of downloads, crashes, versions *)
(* and redirects and any sizes of the resource, its chunks and the queue.  *)
(* The first part is about control: who holds .part and the claim.  The    *)
(* second follows the data: .part and the writer's queue together always   *)
(* amount to the beginning of one version, whatever is taken from the      *)
(* queue before a crash.                                                   *)
(***************************************************************************)
EXTENDS Download, Integers, SequenceTheorems, TLAPS

Block == Versions \X (1..Size)
Acts  == [op : {"write", "truncate", "meta", "finish", "abort"}, data : Seq(Block),
          ver : 0..MaxVer]

DlPlaces == {"new", "asked", "created", "registered", "dial", "redial", "headers", "body",
             "over"}
WrPlaces == {"none", "wait", "write", "cancelled", "meta", "closed", "renamed", "deliver",
             "release", "gone"}
Results  == {"none", "ok", "fail"}

DlRecords == [pc : DlPlaces, from : Nat, val : 0..MaxVer, ver : 0..MaxVer, next : Nat,
              md5 : BOOLEAN, pend : Seq(Block), again : BOOLEAN, hops : Nat, old : BOOLEAN]
WrRecords == [pc : WrPlaces, q : Seq(Acts), bytes : Int, stop : BOOLEAN, act : Seq(Acts),
              res : Results]

\* TypeOK, and the types of the records of a session.
RestOK ==
  /\ part \in Seq(Block) /\ dest \in Seq(Block) /\ meta \in 0..MaxVer /\ blind \in BOOLEAN
  /\ cur \in Versions /\ ends \in 0..MaxEnds
  /\ {handle, claim} \subseteq Sessions \cup {NoOne}
  /\ handle # NoOne => claim = handle
  /\ sessions \subseteq Sessions /\ finished \subseteq Sessions /\ faulted \subseteq Sessions
  /\ running \in BOOLEAN /\ shut \in {"no", "ask", "drain", "again", "last", "down"}
  /\ done \in [Sessions -> {"none", "ok", "fail", "crash"}]

Types == RestOK /\ dl \in [Sessions -> DlRecords] /\ wr \in [Sessions -> WrRecords]

\* The writer has .part open; it has closed it and has yet to answer; the session
\* is on the loop or on its way there.
Open    == {"wait", "write", "cancelled", "meta"}
Closing == {"closed", "renamed", "deliver", "release"}
Early   == {"created", "registered", "dial", "redial", "headers"}
Working == Early \cup {"body"}

\* Control: one session holds .part, until its writer closes it, and has the claim
\* until it answers.
HandleHeld(s) ==
  /\ wr[s].pc \in Open <=> handle = s
  /\ wr[s].pc \in Closing => claim = s /\ handle = NoOne
  /\ dl[s].pc \in Working /\ s \notin finished => handle = s

Untouched(s) ==
  dl[s].pc \in {"new", "asked"} =>
    /\ wr[s] = NewWr /\ s \notin sessions
    /\ dl[s].ver = 0 /\ dl[s].pend = <<>> /\ ~dl[s].old

Answered(s) == done[s] # "none" => dl[s].pc = "over" /\ wr[s].pc \in {"none", "gone"}

Acting(s) ==
  /\ wr[s].pc = "wait" => wr[s].act = <<>>
  /\ wr[s].pc \in {"write", "cancelled"} => Len(wr[s].act) = 1 /\ wr[s].act[1].op = "write"
  /\ wr[s].pc = "meta" => Len(wr[s].act) = 1 /\ wr[s].act[1].op = "meta"

InBody(s) == dl[s].pc = "body" => dl[s].ver \in Versions /\ dl[s].next > 0

OwnAt(s) == HandleHeld(s) /\ Untouched(s) /\ Answered(s) /\ Acting(s) /\ InBody(s)

-----------------------------------------------------------------------------
LEMMA Constants ==
  /\ Size \in Nat /\ Size > 0 /\ Chunk \in Nat /\ MaxVer \in Nat /\ MaxVer > 0
  /\ NoOne \notin Sessions /\ 1 \in Versions /\ Sessions \subseteq Nat
  /\ Left \subseteq 0..Size /\ Versions \subseteq 0..MaxVer
BY DownloadAssumption DEF Sessions, NoOne, Versions

LEMMA EmptyFacts ==
  /\ \A S : <<>> \in Seq(S)
  /\ Len(<<>>) = 0
BY EmptySeq

\* What is pushed is at the end of the queue, unless the channel is being shut down.
LEMMA PushFacts ==
  ASSUME NEW w \in WrRecords, NEW a \in Acts
  PROVE  /\ Push(w, a) \in WrRecords
         /\ Push(w, a).pc = w.pc /\ Push(w, a).act = w.act /\ Push(w, a).stop = w.stop
         /\ Push(w, a).res = w.res
         /\ Push(w, a).q = IF w.stop THEN w.q ELSE Append(w.q, a)
<1>1. Append(w.q, a) \in Seq(Acts)
  BY AppendProperties DEF WrRecords
<1>2. Len(a.data) \in Nat
  BY LenProperties DEF Acts
<1>3. CASE w.stop
  BY <1>3 DEF Push
<1>4. CASE ~w.stop
  <2>1. Push(w, a) = [w EXCEPT !.q = Append(@, a), !.bytes = @ + Len(a.data)]
    BY <1>4 DEF Push
  <2>2. w.bytes + Len(a.data) \in Int
    BY <1>2 DEF WrRecords
  <2> QED BY <1>1, <1>4, <2>1, <2>2 DEF WrRecords
<1> QED BY <1>3, <1>4

LEMMA CancelledFacts ==
  ASSUME NEW w \in WrRecords
  PROVE  /\ Cancelled(w) \in WrRecords
         /\ Cancelled(w).pc = IF w.pc = "write" THEN "cancelled" ELSE w.pc
         /\ Cancelled(w).act = w.act /\ Cancelled(w).stop = w.stop
         /\ Cancelled(w).res = w.res /\ Cancelled(w).q = w.q
BY DEF Cancelled, WrRecords, WrPlaces

LEMMA StoppedFacts ==
  ASSUME NEW w \in WrRecords
  PROVE  /\ Stopped(w) \in WrRecords
         /\ Stopped(w).pc = IF w.pc = "write" THEN "cancelled" ELSE w.pc
         /\ Stopped(w).act = w.act /\ Stopped(w).stop = TRUE
         /\ Stopped(w).res = w.res /\ Stopped(w).q = w.q
<1>1. [w EXCEPT !.stop = TRUE] \in WrRecords
  BY DEF WrRecords
<1> QED BY <1>1, CancelledFacts DEF Stopped, WrRecords

LEMMA NewFacts ==
  /\ NewDl \in DlRecords /\ NewDl.pc = "new" /\ NewDl.ver = 0 /\ NewDl.pend = <<>>
  /\ NewDl.from = 0 /\ NewDl.old = FALSE
  /\ NewWr \in WrRecords /\ NewWr.pc = "none" /\ NewWr.act = <<>> /\ NewWr.q = <<>>
  /\ NewWr.stop = FALSE /\ NewWr.res = "none"
BY Constants, EmptyFacts DEF NewDl, NewWr, DlRecords, WrRecords, DlPlaces, WrPlaces, Results

LEMMA OverFacts ==
  ASSUME NEW d \in DlRecords
  PROVE  /\ Over(d) \in DlRecords /\ Over(d).pc = "over" /\ Over(d).ver = d.ver
         /\ Over(d).md5 = d.md5
BY NewFacts DEF Over, DlRecords, DlPlaces

LEMMA ActsMade ==
  /\ Truncate \in Acts /\ Finish \in Acts /\ Abort \in Acts
  /\ \A v \in 0..MaxVer : Meta(v) \in Acts
  /\ \A b \in Seq(Block) : Write(b) \in Acts
BY Constants, EmptyFacts DEF Truncate, Finish, Abort, Meta, Write, Acts

-----------------------------------------------------------------------------
(***************************************************************************)
(* The blocks of a version, a+1 to b.                                      *)
(***************************************************************************)
Blocks(v, a, b) == [i \in 1..(b - a) |-> <<v, a + i>>]

Run(x, v, a, n) ==
  x \in Seq(Block) /\ Len(x) = n /\ \A i \in 1..n : x[i] = <<v, a + i>>

LEMMA RunIsUnique ==
  ASSUME NEW v, NEW a \in Nat, NEW n \in Nat, NEW x, NEW y, Run(x, v, a, n), Run(y, v, a, n)
  PROVE  x = y
BY SeqEqual DEF Run

LEMMA BlocksAre ==
  ASSUME NEW v \in Versions, NEW a \in Nat, NEW b \in Nat, a <= b, b <= Size
  PROVE  b - a \in Nat /\ Run(Blocks(v, a, b), v, a, b - a)
<1>1. b - a \in Nat
  OBVIOUS
<1>2. \A i \in 1..(b - a) : a + i \in 1..Size
  BY Constants
<1>3. \A i \in 1..(b - a) : <<v, a + i>> \in Block
  BY <1>2 DEF Block
<1>4. Blocks(v, a, b) \in [1..(b - a) -> Block]
  BY <1>3 DEF Blocks
<1>5. Blocks(v, a, b) \in Seq(Block) /\ Len(Blocks(v, a, b)) = b - a
  BY <1>1, <1>4
<1> QED BY <1>1, <1>5 DEF Blocks, Run

LEMMA NoBlocks ==
  ASSUME NEW v, NEW a \in Nat
  PROVE  Blocks(v, a, a) = <<>>
<1>1. 1..(a - a) = {}
  OBVIOUS
<1> QED BY <1>1 DEF Blocks

LEMMA AllBlocks == \A v : Blocks(v, 0, Size) = Whole(v)
<1>1. Size - 0 = Size /\ \A i \in 1..Size : 0 + i = i
  BY Constants
<1> QED BY <1>1 DEF Blocks, Whole

LEMMA BlocksStart ==
  ASSUME NEW v \in Versions, NEW a \in Nat, NEW b \in Nat, a <= b, b <= Size,
         NEW n \in Nat, a + n <= b
  PROVE  SubSeq(Blocks(v, a, b), 1, n) = Blocks(v, a, a + n)
<1> DEFINE x == Blocks(v, a, b)
<1>1. Run(x, v, a, b - a) /\ n <= b - a /\ b - a \in Nat
  BY BlocksAre
<1> HIDE DEF x
<1>2. Run(SubSeq(x, 1, n), v, a, n)
  <2>1. /\ SubSeq(x, 1, n) \in Seq(Block) /\ Len(SubSeq(x, 1, n)) = n
        /\ \A i \in 1..n : SubSeq(x, 1, n)[i] = x[i]
    BY <1>1 DEF Run
  <2> QED BY <1>1, <2>1 DEF Run
<1>3. Run(Blocks(v, a, a + n), v, a, n)
  <2>1. a + n \in Nat /\ a <= a + n /\ a + n <= Size /\ (a + n) - a = n
    BY Constants
  <2>2. Run(Blocks(v, a, a + n), v, a, (a + n) - a)
    BY <2>1, BlocksAre
  <2> QED BY <2>1, <2>2
<1> QED BY <1>2, <1>3, RunIsUnique DEF x

LEMMA FirstBlocks ==
  ASSUME NEW v \in Versions, NEW n \in Nat, n <= Size
  PROVE  SubSeq(Whole(v), 1, n) = Blocks(v, 0, n)
<1>1. 0 <= Size /\ 0 + n <= Size /\ 0 + n = n /\ Size <= Size /\ Size \in Nat
  BY Constants
<1>2. SubSeq(Blocks(v, 0, Size), 1, n) = Blocks(v, 0, 0 + n)
  BY <1>1, BlocksStart
<1> QED BY <1>1, <1>2, AllBlocks

LEMMA BlocksJoin ==
  ASSUME NEW v \in Versions, NEW a \in Nat, NEW b \in Nat, NEW c \in Nat, a <= b, b <= c,
         c <= Size
  PROVE  Blocks(v, a, b) \o Blocks(v, b, c) = Blocks(v, a, c)
<1> DEFINE x == Blocks(v, a, b)  y == Blocks(v, b, c)
<1>1. Run(x, v, a, b - a) /\ Run(y, v, b, c - b) /\ Run(Blocks(v, a, c), v, a, c - a)
  BY BlocksAre, Constants
<1>2. b - a \in Nat /\ c - b \in Nat /\ c - a \in Nat /\ (b - a) + (c - b) = c - a
  OBVIOUS
<1> HIDE DEF x, y
<1>3. x \o y \in Seq(Block) /\ Len(x \o y) = c - a
  BY <1>1, <1>2, ConcatProperties DEF Run
<1>4. ASSUME NEW i \in 1..(c - a) PROVE (x \o y)[i] = <<v, a + i>>
  <2>0. x \in Seq(Block) /\ y \in Seq(Block) /\ i \in 1..(Len(x) + Len(y)) /\ Len(x) = b - a
    BY <1>1, <1>2 DEF Run
  <2>1. (x \o y)[i] = IF i <= b - a THEN x[i] ELSE y[i - (b - a)]
    BY <2>0, ConcatProperties
  <2>2. CASE i <= b - a
    BY <1>1, <2>1, <2>2 DEF Run
  <2>3. CASE ~(i <= b - a)
    <3>1. i - (b - a) \in 1..(c - b) /\ b + (i - (b - a)) = a + i
      BY <1>2, <2>3
    <3> QED BY <1>1, <2>1, <2>3, <3>1 DEF Run
  <2> QED BY <2>2, <2>3
<1>5. Run(x \o y, v, a, c - a)
  BY <1>3, <1>4 DEF Run
<1> QED BY <1>1, <1>2, <1>5, RunIsUnique DEF x, y

LEMMA BlocksGrow ==
  ASSUME NEW v \in Versions, NEW a \in Nat, NEW b \in Nat, a <= b, b + 1 <= Size
  PROVE  Append(Blocks(v, a, b), <<v, b + 1>>) = Blocks(v, a, b + 1)
<1> DEFINE x == Blocks(v, a, b)  e == <<v, b + 1>>
<1>1. Run(x, v, a, b - a) /\ Run(Blocks(v, a, b + 1), v, a, (b + 1) - a)
  BY BlocksAre, Constants
<1>2. b - a \in Nat /\ (b + 1) - a = (b - a) + 1 /\ a + ((b - a) + 1) = b + 1
  OBVIOUS
<1>3. e \in Block
  BY Constants DEF Block
<1> HIDE DEF x
<1>4. /\ Append(x, e) \in Seq(Block) /\ Len(Append(x, e)) = (b - a) + 1
      /\ \A i \in 1..(b - a) : Append(x, e)[i] = x[i]
      /\ Append(x, e)[(b - a) + 1] = e
  BY <1>1, <1>2, <1>3, AppendProperties DEF Run
<1>5. \A i \in 1..((b - a) + 1) : Append(x, e)[i] = <<v, a + i>>
  <2> TAKE i \in 1..((b - a) + 1)
  <2>1. CASE i = (b - a) + 1
    BY <1>2, <1>4, <2>1
  <2>2. CASE i # (b - a) + 1
    BY <1>1, <1>2, <1>4, <2>2 DEF Run
  <2> QED BY <2>1, <2>2
<1>6. Run(Append(x, e), v, a, (b + 1) - a)
  BY <1>2, <1>4, <1>5 DEF Run
<1>7. (b + 1) - a \in Nat
  BY <1>2
<1>8. Append(x, e) = Blocks(v, a, b + 1)
  BY <1>1, <1>6, <1>7, RunIsUnique
<1> QED BY <1>8 DEF x

-----------------------------------------------------------------------------
(***************************************************************************)
(* What a queue of actions makes of .part: its length goes from x to y.    *)
(* The response is one of version v, with a digest if m; f: something went *)
(* wrong for the session.                                                  *)
(***************************************************************************)
CarriesOne(a, v, m, f, x, y) ==
  /\ a.op = "truncate" => y = 0
  /\ a.op \in {"meta", "finish", "abort"} => y = x
  /\ a.op = "write" => x < y /\ a.data = Blocks(v, x, y)
  /\ a.op = "meta" => a.ver = v
  /\ a.op = "finish" => (m /\ f) \/ y = Size
  /\ a.op = "abort" => f

Lengths(st, v, m, f, g) ==
  /\ g \in [0..Len(st) -> 0..Size]
  /\ \A i \in 1..Len(st) : CarriesOne(st[i], v, m, f, g[i - 1], g[i])

Carries(st, v, m, f, x, y) == \E g : Lengths(st, v, m, f, g) /\ g[0] = x /\ g[Len(st)] = y

LEMMA CarriesNothing ==
  ASSUME NEW v, NEW m, NEW f, NEW x \in 0..Size
  PROVE  Carries(<<>>, v, m, f, x, x)
<1> DEFINE g == [i \in 0..0 |-> x]
<1>1. Lengths(<<>>, v, m, f, g) /\ g[0] = x /\ g[Len(<<>>)] = x
  BY EmptyFacts DEF Lengths
<1> QED BY <1>1 DEF Carries

LEMMA CarriesMore ==
  ASSUME NEW st \in Seq(Acts), NEW a \in Acts, NEW v, NEW m, NEW f, NEW x, NEW y,
         NEW z \in 0..Size, Carries(st, v, m, f, x, y), CarriesOne(a, v, m, f, y, z)
  PROVE  Carries(Append(st, a), v, m, f, x, z)
<1> DEFINE n == Len(st)
           t == Append(st, a)
<1>1. n \in Nat /\ Len(t) = n + 1 /\ t[n + 1] = a /\ \A i \in 1..n : t[i] = st[i]
  BY AppendProperties, LenProperties
<1>2. PICK g : Lengths(st, v, m, f, g) /\ g[0] = x /\ g[n] = y
  BY DEF Carries
<1> DEFINE h == [i \in 0..(n + 1) |-> IF i = n + 1 THEN z ELSE g[i]]
<1> HIDE DEF n, t
<1>3. h \in [0..(n + 1) -> 0..Size] /\ h[0] = x /\ h[n + 1] = z /\ \A i \in 0..n : h[i] = g[i]
  <2>1. \A i \in 0..n : g[i] \in 0..Size /\ i # n + 1 /\ i \in 0..(n + 1)
    BY <1>1, <1>2 DEF Lengths, n
  <2>2. \A i \in 0..(n + 1) : i = n + 1 \/ i \in 0..n
    BY <1>1
  <2>3. n + 1 \in 0..(n + 1) /\ 0 \in 0..n
    BY <1>1
  <2> QED BY <1>2, <2>1, <2>2, <2>3
<1> HIDE DEF h
<1>4. ASSUME NEW i \in 1..(n + 1) PROVE CarriesOne(t[i], v, m, f, h[i - 1], h[i])
  <2>1. CASE i = n + 1
    <3>1. i - 1 = n /\ n \in 0..n
      BY <1>1, <2>1
    <3> QED BY <1>1, <1>2, <1>3, <2>1, <3>1
  <2>2. CASE i # n + 1
    <3>1. i \in 1..n /\ i \in 0..n /\ i - 1 \in 0..n
      BY <1>1, <2>2
    <3>2. CarriesOne(st[i], v, m, f, g[i - 1], g[i])
      BY <1>2, <3>1 DEF Lengths, n
    <3> QED BY <1>1, <1>3, <3>1, <3>2
  <2> QED BY <2>1, <2>2
<1>5. Lengths(t, v, m, f, h) /\ h[Len(t)] = z
  BY <1>1, <1>3, <1>4 DEF Lengths
<1> QED BY <1>3, <1>5 DEF Carries, t

LEMMA CarriesLess ==
  ASSUME NEW st \in Seq(Acts), st # <<>>, NEW v, NEW m, NEW f, NEW x, NEW y,
         Carries(st, v, m, f, x, y)
  PROVE  \E z \in 0..Size :
           CarriesOne(Head(st), v, m, f, x, z) /\ Carries(Tail(st), v, m, f, z, y)
<1> DEFINE n == Len(st) - 1
           t == Tail(st)
<1>1. /\ n \in Nat /\ Len(st) = n + 1 /\ Len(t) = n /\ Head(st) = st[1]
      /\ \A i \in 1..n : t[i] = st[i + 1]
  BY HeadTailProperties, LenProperties, EmptySeq
<1>2. PICK g : Lengths(st, v, m, f, g) /\ g[0] = x /\ g[Len(st)] = y
  BY DEF Carries
<1> DEFINE h == [i \in 0..n |-> g[i + 1]]
<1> HIDE DEF n, t
<1>3. h \in [0..n -> 0..Size] /\ h[n] = y /\ h[0] = g[1] /\ \A i \in 0..n : h[i] = g[i + 1]
  <2>1. \A i \in 0..n : i + 1 \in 0..(n + 1)
    BY <1>1
  <2>2. \A i \in 0..n : g[i + 1] \in 0..Size
    BY <1>1, <1>2, <2>1 DEF Lengths
  <2>3. n \in 0..n /\ 0 \in 0..n /\ 0 + 1 = 1
    BY <1>1
  <2> QED BY <1>1, <1>2, <2>2, <2>3
<1> HIDE DEF h
<1>4. g[1] \in 0..Size /\ CarriesOne(Head(st), v, m, f, x, g[1])
  <2>1. 1 \in 1..(n + 1) /\ 1 - 1 = 0 /\ 0 \in 0..n
    BY <1>1
  <2>2. CarriesOne(st[1], v, m, f, g[1 - 1], g[1])
    BY <1>1, <1>2, <2>1 DEF Lengths
  <2> QED BY <1>1, <1>2, <1>3, <2>1, <2>2
<1>5. ASSUME NEW i \in 1..n PROVE CarriesOne(t[i], v, m, f, h[i - 1], h[i])
  <2>1. i + 1 \in 1..(n + 1) /\ i - 1 \in 0..n /\ i \in 0..n /\ (i + 1) - 1 = i /\ (i - 1) + 1 = i
    BY <1>1
  <2>2. CarriesOne(st[i + 1], v, m, f, g[(i + 1) - 1], g[i + 1])
    BY <1>1, <1>2, <2>1 DEF Lengths
  <2> QED BY <1>1, <1>3, <2>1, <2>2
<1>6. Lengths(t, v, m, f, h) /\ h[Len(t)] = y
  BY <1>1, <1>3, <1>5 DEF Lengths
<1> QED BY <1>3, <1>4, <1>6 DEF Carries, t

\* Something has gone wrong in the meantime.
LEMMA CarriesFaulted ==
  ASSUME NEW st, NEW v, NEW m, NEW f, NEW x, NEW y, Carries(st, v, m, f, x, y)
  PROVE  Carries(st, v, m, TRUE, x, y)
<1>1. PICK g : Lengths(st, v, m, f, g) /\ g[0] = x /\ g[Len(st)] = y
  BY DEF Carries
<1>2. Lengths(st, v, m, TRUE, g)
  BY <1>1 DEF Lengths, CarriesOne
<1> QED BY <1>1, <1>2 DEF Carries

OnlyTruncates(st) == \A i \in 1..Len(st) : st[i].op = "truncate"

\* The queue holds something that only comes with an answer.
HasContent(st) == \E i \in 1..Len(st) : st[i].op \notin {"truncate", "abort"}

\* Before an answer it does not matter which one comes.
LEMMA CarriesAnyVersion ==
  ASSUME NEW st, ~HasContent(st), NEW v, NEW w, NEW m, NEW k, NEW f, NEW x, NEW y,
         Carries(st, v, m, f, x, y)
  PROVE  Carries(st, w, k, f, x, y)
<1>1. PICK g : Lengths(st, v, m, f, g) /\ g[0] = x /\ g[Len(st)] = y
  BY DEF Carries
<1>2. \A i \in 1..Len(st) : st[i].op \in {"truncate", "abort"}
  BY DEF HasContent
<1>3. Lengths(st, w, k, f, g)
  BY <1>1, <1>2 DEF Lengths, CarriesOne
<1> QED BY <1>1, <1>3 DEF Carries

\* Truncations leave nothing.
LEMMA CarriesTruncates ==
  ASSUME NEW st \in Seq(Acts), OnlyTruncates(st), NEW v, NEW m, NEW f, NEW x, NEW y,
         Carries(st, v, m, f, x, y)
  PROVE  y = IF st = <<>> THEN x ELSE 0
<1>1. PICK g : Lengths(st, v, m, f, g) /\ g[0] = x /\ g[Len(st)] = y
  BY DEF Carries
<1>2. CASE st = <<>>
  BY <1>1, <1>2, EmptyFacts
<1>3. CASE st # <<>>
  <2>1. Len(st) \in 1..Len(st)
    BY <1>3, LenProperties, EmptySeq
  <2>2. st[Len(st)].op = "truncate"
    BY <2>1 DEF OnlyTruncates
  <2>3. CarriesOne(st[Len(st)], v, m, f, g[Len(st) - 1], g[Len(st)])
    BY <1>1, <2>1 DEF Lengths
  <2> QED BY <1>1, <1>3, <2>2, <2>3 DEF CarriesOne
<1> QED BY <1>2, <1>3

LEMMA CarriesTo ==
  ASSUME NEW st \in Seq(Acts), NEW v, NEW m, NEW f, NEW x, NEW y, Carries(st, v, m, f, x, y)
  PROVE  x \in 0..Size /\ y \in 0..Size
<1>1. Len(st) \in Nat
  BY LenProperties
<1>2. 0 \in 0..Len(st) /\ Len(st) \in 0..Len(st)
  BY <1>1
<1> QED BY <1>2 DEF Carries, Lengths

\* Nothing is truncated after something else was queued.
TruncatesFirst(st) ==
  \A i, j \in 1..Len(st) : i < j /\ st[j].op = "truncate" => st[i].op = "truncate"

Truncating(st) == st # <<>> /\ Head(st).op = "truncate"

LEMMA EmptyStream ==
  /\ OnlyTruncates(<<>>) /\ TruncatesFirst(<<>>) /\ ~HasContent(<<>>) /\ ~Truncating(<<>>)
BY EmptyFacts DEF OnlyTruncates, TruncatesFirst, HasContent, Truncating

LEMMA AppendedStream ==
  ASSUME NEW st \in Seq(Acts), NEW a \in Acts
  PROVE  /\ HasContent(Append(st, a)) => HasContent(st) \/ a.op \notin {"truncate", "abort"}
         /\ Truncating(st) => Truncating(Append(st, a))
         /\ a.op = "truncate" /\ OnlyTruncates(st) => /\ OnlyTruncates(Append(st, a))
                                                      /\ Truncating(Append(st, a))
         /\ TruncatesFirst(st) /\ (a.op # "truncate" \/ OnlyTruncates(st)) =>
              TruncatesFirst(Append(st, a))
<1> DEFINE n == Len(st)
           t == Append(st, a)
<1>1. n \in Nat /\ Len(t) = n + 1 /\ t[n + 1] = a /\ \A i \in 1..n : t[i] = st[i]
  BY AppendProperties, LenProperties
<1>2. \A i \in 1..(n + 1) : i \in 1..n \/ i = n + 1
  BY <1>1
<1>3. t # <<>> /\ Head(t) = t[1] /\ (st # <<>> => 1 \in 1..n /\ Head(st) = st[1])
  BY <1>1, HeadTailProperties, AppendProperties, EmptySeq
<1> HIDE DEF n, t
<1>4. HasContent(t) => HasContent(st) \/ a.op \notin {"truncate", "abort"}
  BY <1>1, <1>2 DEF HasContent, n
<1>5. Truncating(st) => Truncating(t)
  BY <1>1, <1>3 DEF Truncating
<1>6. a.op = "truncate" /\ OnlyTruncates(st) => OnlyTruncates(t) /\ Truncating(t)
  <2>1. a.op = "truncate" /\ OnlyTruncates(st) => OnlyTruncates(t)
    BY <1>1, <1>2 DEF OnlyTruncates, n
  <2>2. 1 \in 1..(n + 1)
    BY <1>1
  <2> QED BY <1>1, <1>3, <2>1, <2>2 DEF OnlyTruncates, Truncating
<1>7. TruncatesFirst(st) /\ (a.op # "truncate" \/ OnlyTruncates(st)) => TruncatesFirst(t)
  <2> SUFFICES ASSUME TruncatesFirst(st), a.op # "truncate" \/ OnlyTruncates(st),
                      NEW i \in 1..(n + 1), NEW j \in 1..(n + 1), i < j, t[j].op = "truncate"
               PROVE  t[i].op = "truncate"
    BY <1>1 DEF TruncatesFirst
  <2>1. i \in 1..n
    BY <1>1
  <2>2. CASE j \in 1..n
    BY <1>1, <2>1, <2>2 DEF TruncatesFirst, n
  <2>3. CASE j = n + 1
    BY <1>1, <2>1, <2>3 DEF OnlyTruncates, n
  <2> QED BY <1>2, <2>2, <2>3
<1> QED BY <1>4, <1>5, <1>6, <1>7 DEF t

LEMMA RestOfStream ==
  ASSUME NEW st \in Seq(Acts), st # <<>>, TruncatesFirst(st)
  PROVE  /\ Tail(st) \in Seq(Acts) /\ Head(st) \in Acts
         /\ HasContent(Tail(st)) => HasContent(st)
         /\ Head(st).op \notin {"truncate", "abort"} => HasContent(st)
         /\ TruncatesFirst(Tail(st))
         /\ OnlyTruncates(st) => OnlyTruncates(Tail(st)) /\ Head(st).op = "truncate"
         /\ Head(st).op # "truncate" => ~Truncating(Tail(st))
<1> DEFINE n == Len(st) - 1
           t == Tail(st)
<1>1. /\ n \in Nat /\ Len(st) = n + 1 /\ Len(t) = n /\ Head(st) = st[1]
      /\ \A i \in 1..n : t[i] = st[i + 1]
  BY HeadTailProperties, LenProperties, EmptySeq
<1>2. t \in Seq(Acts) /\ Head(st) \in Acts
  BY HeadTailProperties
<1>3. (t # <<>> => 1 \in 1..n /\ Head(t) = t[1]) /\ 1 \in 1..(n + 1)
  BY <1>1, <1>2, HeadTailProperties, EmptySeq
<1>4. \A i \in 1..n : i + 1 \in 1..(n + 1) /\ 1 < i + 1
  BY <1>1
<1> HIDE DEF n, t
<1>5. HasContent(t) => HasContent(st)
  BY <1>1, <1>4 DEF HasContent
<1>6. Head(st).op \notin {"truncate", "abort"} => HasContent(st)
  BY <1>1, <1>3 DEF HasContent
<1>7. TruncatesFirst(t)
  <2>1. \A i, j \in 1..n : i < j => i + 1 < j + 1
    BY <1>1
  <2> QED BY <1>1, <1>4, <2>1 DEF TruncatesFirst
<1>8. OnlyTruncates(st) => OnlyTruncates(t) /\ Head(st).op = "truncate"
  BY <1>1, <1>3, <1>4 DEF OnlyTruncates
<1>9. Head(st).op # "truncate" => ~Truncating(t)
  BY <1>1, <1>3, <1>4 DEF TruncatesFirst, Truncating
<1> QED BY <1>2, <1>5, <1>6, <1>7, <1>8, <1>9 DEF t

-----------------------------------------------------------------------------
(***************************************************************************)
(* The inductive invariant                                                 *)
(***************************************************************************)

\* What the writer has taken and what is queued.
StreamOf(w) == w.act \o w.q
Stream(s)   == StreamOf(wr[s])

LEMMA Associative ==
  \A a, b, c \in Seq(Acts) : a \o (b \o c) = (a \o b) \o c
BY ConcatAssociative

LEMMA OneAhead ==
  ASSUME NEW a \in Seq(Acts), Len(a) = 1, NEW q \in Seq(Acts)
  PROVE  a \o q # <<>> /\ Head(a \o q) = a[1] /\ Tail(a \o q) = q
<1> DEFINE st == a \o q
<1>1. st \in Seq(Acts) /\ Len(st) = 1 + Len(q) /\ Len(q) \in Nat
  <2>1. Len(q) \in Nat
    BY LenProperties
  <2>2. st \in Seq(Acts) /\ Len(st) = Len(a) + Len(q)
    BY ConcatProperties
  <2> QED BY <2>1, <2>2
<1>2. \A j \in 1..(1 + Len(q)) : st[j] = IF j <= 1 THEN a[j] ELSE q[j - 1]
  <2>1. \A j \in 1..(Len(a) + Len(q)) : st[j] = IF j <= Len(a) THEN a[j] ELSE q[j - Len(a)]
    BY ConcatProperties
  <2> QED BY <2>1
<1> HIDE DEF st
<1>3. /\ 1 \in 1..(1 + Len(q))
      /\ \A i \in 1..Len(q) : i + 1 \in 1..(1 + Len(q)) /\ ~(i + 1 <= 1) /\ (i + 1) - 1 = i
  BY <1>1
<1>4. st[1] = a[1] /\ \A i \in 1..Len(q) : st[i + 1] = q[i]
  BY <1>2, <1>3
<1>5. st # <<>>
  BY <1>1, EmptySeq
<1>6. /\ Head(st) = st[1] /\ Tail(st) \in Seq(Acts) /\ Len(Tail(st)) = Len(q)
      /\ \A i \in 1..Len(q) : Tail(st)[i] = st[i + 1]
  BY <1>1, <1>5, HeadTailProperties
<1>7. Tail(st) = q
  BY <1>4, <1>6, SeqEqual
<1> QED BY <1>4, <1>5, <1>6, <1>7 DEF st

LEMMA StreamFacts ==
  ASSUME NEW w \in WrRecords
  PROVE  /\ StreamOf(w) \in Seq(Acts)
         /\ w.act = <<>> => StreamOf(w) = w.q
         /\ Len(w.act) = 1 => /\ StreamOf(w) # <<>> /\ Head(StreamOf(w)) = w.act[1]
                             /\ Tail(StreamOf(w)) = w.q
<1>1. w.act \in Seq(Acts) /\ w.q \in Seq(Acts)
  BY DEF WrRecords
<1>2. StreamOf(w) \in Seq(Acts)
  BY <1>1, ConcatProperties DEF StreamOf
<1>3. w.act = <<>> => StreamOf(w) = w.q
  BY <1>1, ConcatEmptySeq DEF StreamOf
<1>4. ASSUME Len(w.act) = 1
      PROVE  StreamOf(w) # <<>> /\ Head(StreamOf(w)) = w.act[1] /\ Tail(StreamOf(w)) = w.q
  BY <1>1, <1>4, OneAhead DEF StreamOf
<1> QED BY <1>2, <1>3, <1>4

\* The end of a queue is the end of what is to come.
LEMMA StreamPushed ==
  ASSUME NEW w \in WrRecords, NEW a \in Acts
  PROVE  StreamOf(Push(w, a)) = IF w.stop THEN StreamOf(w) ELSE Append(StreamOf(w), a)
<1>1. w.act \in Seq(Acts) /\ w.q \in Seq(Acts)
  BY DEF WrRecords
<1>2. w.act \o Append(w.q, a) = Append(w.act \o w.q, a)
  <2>1. /\ Append(w.q, a) = w.q \o <<a>>
        /\ Append(w.act \o w.q, a) = (w.act \o w.q) \o <<a>>
    BY <1>1, AppendIsConcat, ConcatProperties
  <2>2. <<a>> \in Seq(Acts)
    OBVIOUS
  <2>3. w.act \o (w.q \o <<a>>) = (w.act \o w.q) \o <<a>>
    BY <1>1, <2>2, Associative
  <2> QED BY <2>1, <2>3
<1> QED BY <1>2, PushFacts DEF StreamOf

\* Taking an action, or cancelling one, leaves what is to come as it is.
LEMMA StreamTaken ==
  ASSUME NEW q \in Seq(Acts), q # <<>>
  PROVE  <<Head(q)>> \o Tail(q) = q /\ Head(q) \in Acts /\ Tail(q) \in Seq(Acts)
<1>1. Head(q) \in Acts /\ Tail(q) \in Seq(Acts) /\ Head(q) = q[1]
  BY HeadTailProperties
<1>2. Len(q) \in Nat \ {0}
  BY EmptySeq
<1>3. 1 \in 1..Len(q) /\ Len(q) \in 1..Len(q) /\ 1 + 1 = 2
  BY <1>2
<1>4. SubSeq(q, 1, Len(q)) = <<q[1]>> \o SubSeq(q, 1 + 1, Len(q))
  BY <1>3, SubSeqRecursiveFirst
<1>5. SubSeq(q, 1, Len(q)) = q /\ Tail(q) = SubSeq(q, 2, Len(q))
  BY SubSeqFull, TailIsSubSeq
<1> QED BY <1>1, <1>3, <1>4, <1>5

\* .part is a beginning of the version that is being received.
Match(s) == (blind /\ ~dl[s].md5) \/ part = Blocks(dl[s].ver, 0, Len(part))

Receiving(s) == HasContent(Stream(s)) \/ (~wr[s].stop /\ dl[s].pc = "body")

Versioned(s) ==
  Receiving(s) =>
    /\ dl[s].ver \in Versions /\ meta <= dl[s].ver /\ dl[s].ver <= cur
    /\ Match(s) \/ Truncating(Stream(s))

\* The queue takes .part to length y; m_pendingBuf goes on from there.
Follows(s, y) ==
  ~wr[s].stop /\ dl[s].pc = "body" =>
    /\ y <= dl[s].next - 1 /\ dl[s].next - 1 <= Size
    /\ dl[s].pend = Blocks(dl[s].ver, y, dl[s].next - 1)

Flows(s) ==
  \E y \in 0..Size :
    /\ Carries(Stream(s), dl[s].ver, dl[s].md5, s \in faulted, Len(part), y)
    /\ Follows(s, y)

\* Without an answer .part is as it was found, or truncated.
Unanswered(s) ==
  dl[s].pc \in Early =>
    /\ dl[s].ver = 0 /\ dl[s].pend = <<>>
    /\ dl[s].from > 0 => Stream(s) = <<>> /\ Len(part) = dl[s].from /\ dl[s].val = meta
    /\ dl[s].from = 0 /\ ~wr[s].stop =>
         OnlyTruncates(Stream(s)) /\ (Stream(s) = <<>> => part = <<>>)

PartHeld(s) ==
  handle = s => Flows(s) /\ TruncatesFirst(Stream(s)) /\ Versioned(s) /\ Unanswered(s)

ClosedWhole(s) == wr[s].pc = "closed" => blind \/ \E v \in Versions : part = Whole(v)

\* A failure on its way to m_done has its reason.
Reasoned(s) ==
  /\ wr[s].stop \/ wr[s].res = "fail" => s \in faulted
  /\ done[s] = "fail" => s \in faulted

DiskSafe ==
  /\ Len(part) <= Size /\ meta <= cur
  /\ blind => part # <<>>
  /\ part # <<>> /\ ~blind =>
       \E v \in Versions : meta <= v /\ v <= cur /\ part = Blocks(v, 0, Len(part))

SessionOK(s) == OwnAt(s) /\ PartHeld(s) /\ ClosedWhole(s) /\ Reasoned(s)

DownloadInv == Types /\ DiskSafe /\ \A s \in Sessions : SessionOK(s)

-----------------------------------------------------------------------------
\* The step is about session s.
Elsewhere(s) ==
  \A r \in Sessions \ {s} :
    /\ dl'[r] = dl[r] /\ wr'[r] = wr[r] /\ done'[r] = done[r]
    /\ r \in finished' <=> r \in finished
    /\ r \in sessions' <=> r \in sessions
    /\ (r \in faulted') = (r \in faulted)

\* .part changes hands from nobody to s, from s to nobody, or not at all.
Handover(s) ==
  \/ handle' = handle /\ (claim' = claim \/ claim = s)
  \/ handle = s /\ handle' = NoOne /\ claim' = claim
  \/ handle = NoOne /\ claim = NoOne /\ handle' = s /\ claim' = s

LEMMA OthersKeep ==
  ASSUME DownloadInv, NEW s \in Sessions, Elsewhere(s), Handover(s), cur' = cur,
         claim = s \/ UNCHANGED disk
  PROVE  \A r \in Sessions \ {s} : SessionOK(r)'
<1> TAKE r \in Sessions \ {s}
<1>0. OwnAt(r) /\ PartHeld(r) /\ ClosedWhole(r) /\ Reasoned(r)
  BY DEF DownloadInv, SessionOK
<1>1. /\ dl'[r] = dl[r] /\ wr'[r] = wr[r] /\ done'[r] = done[r]
      /\ r \in finished' <=> r \in finished
      /\ r \in sessions' <=> r \in sessions
      /\ (r \in faulted') = (r \in faulted)
  BY DEF Elsewhere
<1>2. handle # NoOne => claim = handle
  BY DEF DownloadInv, Types, RestOK
<1>3. OwnAt(r)'
  <2>1. HandleHeld(r)'
    BY <1>0, <1>1, <1>2, Constants DEF OwnAt, HandleHeld, Handover
  <2>2. Untouched(r)' /\ Answered(r)' /\ Acting(r)' /\ InBody(r)'
    BY <1>0, <1>1 DEF OwnAt, Untouched, Answered, Acting, InBody
  <2> QED BY <2>1, <2>2 DEF OwnAt
<1>4. PartHeld(r)'
  <2> SUFFICES ASSUME handle' = r
               PROVE (Flows(r) /\ TruncatesFirst(Stream(r)) /\ Versioned(r) /\ Unanswered(r))'
    BY DEF PartHeld
  <2>1. handle = r /\ UNCHANGED <<part, meta, blind>>
    BY <1>2, Constants DEF Handover, disk
  <2>2. Flows(r) /\ TruncatesFirst(Stream(r)) /\ Versioned(r) /\ Unanswered(r)
    BY <1>0, <2>1 DEF PartHeld
  <2>3. Stream(r)' = Stream(r)
    BY <1>1 DEF Stream
  <2>4. Flows(r)'
    BY <1>1, <2>1, <2>2, <2>3 DEF Flows, Follows
  <2>5. Versioned(r)' /\ Unanswered(r)'
    BY <1>1, <2>1, <2>2, <2>3 DEF Versioned, Unanswered, Receiving, Match
  <2> QED BY <2>2, <2>3, <2>4, <2>5
<1>5. ClosedWhole(r)'
  BY <1>0, <1>1, Constants DEF ClosedWhole, OwnAt, HandleHeld, Closing, disk
<1>6. Reasoned(r)'
  BY <1>0, <1>1 DEF Reasoned
<1> QED BY <1>3, <1>4, <1>5, <1>6 DEF SessionOK

\* What is left to show of a step of session s, which is at d and w after it.
LEMMA SessionStep ==
  ASSUME DownloadInv, NEW s \in Sessions, NEW d \in DlRecords, NEW w \in WrRecords,
         dl' = [dl EXCEPT ![s] = d], wr' = [wr EXCEPT ![s] = w], cur' = cur,
         RestOK', DiskSafe', Handover(s), claim = s \/ UNCHANGED disk,
         \A r \in Sessions \ {s} : /\ done'[r] = done[r]
                                   /\ r \in finished' <=> r \in finished
                                   /\ r \in sessions' <=> r \in sessions
                                   /\ r \in faulted' <=> r \in faulted,
         dl'[s] = d /\ wr'[s] = w => SessionOK(s)'
  PROVE  DownloadInv'
<1>1. /\ dl' \in [Sessions -> DlRecords] /\ wr' \in [Sessions -> WrRecords]
      /\ dl'[s] = d /\ wr'[s] = w
      /\ \A r \in Sessions \ {s} : dl'[r] = dl[r] /\ wr'[r] = wr[r]
  BY DEF DownloadInv, Types
<1>2. Elsewhere(s)
  BY <1>1 DEF Elsewhere
<1> QED BY <1>1, <1>2, OthersKeep DEF DownloadInv, Types

LEMMA SessionFacts ==
  ASSUME DownloadInv, NEW s \in Sessions
  PROVE  /\ dl[s] \in DlRecords /\ wr[s] \in WrRecords
         /\ Stream(s) \in Seq(Acts)
         /\ HandleHeld(s) /\ Untouched(s) /\ Answered(s) /\ Acting(s) /\ InBody(s)
         /\ ClosedWhole(s) /\ Reasoned(s)
         /\ handle = s => Flows(s) /\ TruncatesFirst(Stream(s)) /\ Versioned(s) /\ Unanswered(s)
<1>1. dl[s] \in DlRecords /\ wr[s] \in WrRecords
  BY DEF DownloadInv, Types
<1>2. SessionOK(s)
  BY DEF DownloadInv
<1> QED BY <1>1, <1>2, StreamFacts DEF SessionOK, OwnAt, PartHeld, Stream

\* A step of the session that has .part open, and keeps it.
LEMMA HeldStep ==
  ASSUME DownloadInv, NEW s \in Sessions, NEW d \in DlRecords, NEW w \in WrRecords,
         dl' = [dl EXCEPT ![s] = d], wr' = [wr EXCEPT ![s] = w],
         handle = s, UNCHANGED <<dest, owner, chan, world, done>>,
         part' \in Seq(Block), meta' \in 0..MaxVer, blind' \in BOOLEAN, DiskSafe',
         finished' = finished \/ finished' = finished \cup {s},
         faulted' = faulted \/ faulted' = faulted \cup {s},
         d.pc \notin {"new", "asked"}, d.pc = "body" => d.ver \in Versions /\ d.next > 0,
         w.pc \in Open, w.pc = "wait" => w.act = <<>>,
         w.pc \in {"write", "cancelled"} => Len(w.act) = 1 /\ w.act[1].op = "write",
         w.pc = "meta" => Len(w.act) = 1 /\ w.act[1].op = "meta",
         w.stop = wr[s].stop, w.res = wr[s].res,
         dl'[s] = d /\ wr'[s] = w =>
           (Flows(s) /\ TruncatesFirst(Stream(s)) /\ Versioned(s) /\ Unanswered(s))'
  PROVE  DownloadInv'
<1>0. /\ HandleHeld(s) /\ Answered(s) /\ ClosedWhole(s) /\ Reasoned(s)
      /\ claim = s
  <2>1. handle # NoOne => claim = handle
    BY DEF DownloadInv, Types, RestOK
  <2> QED BY <2>1, SessionFacts, Constants
<1>1. RestOK'
  BY DEF DownloadInv, Types, RestOK, owner, chan, world
<1>2. done[s] = "none"
  BY <1>0 DEF HandleHeld, Answered, Open
<1>3. UNCHANGED <<handle, claim, sessions, cur, done>>
  BY DEF owner, world
<1>4. ASSUME dl'[s] = d, wr'[s] = w PROVE SessionOK(s)'
  <2>1. HandleHeld(s)'
    BY <1>3, <1>4 DEF HandleHeld, Open, Closing
  <2>2. Untouched(s)' /\ Answered(s)' /\ Acting(s)' /\ InBody(s)'
    BY <1>2, <1>3, <1>4 DEF Untouched, Answered, Acting, InBody
  <2>3. PartHeld(s)'
    BY <1>4 DEF PartHeld
  <2>4. ClosedWhole(s)'
    BY <1>4 DEF ClosedWhole, Open
  <2>5. Reasoned(s)'
    BY <1>0, <1>3, <1>4 DEF Reasoned
  <2> QED BY <2>1, <2>2, <2>3, <2>4, <2>5 DEF SessionOK, OwnAt
<1>5. Handover(s)
  BY <1>3 DEF Handover
<1> QED BY <1>0, <1>1, <1>3, <1>4, <1>5, SessionStep

LEMMA DiskKept ==
  ASSUME DownloadInv, UNCHANGED disk, cur' = cur
  PROVE  /\ DiskSafe' /\ UNCHANGED <<part, meta, dest, blind>>
         /\ part' \in Seq(Block) /\ meta' \in 0..MaxVer /\ blind' \in BOOLEAN
BY DEF DownloadInv, DiskSafe, Types, RestOK, disk

-----------------------------------------------------------------------------
(***************************************************************************)
(* The session on its way to an answer, and on the loop                    *)
(***************************************************************************)

\* The session moves on with what it has.
LEMMA MovesOn ==
  ASSUME DownloadInv, NEW s \in Sessions, NEW d \in DlRecords,
         dl' = [dl EXCEPT ![s] = d], UNCHANGED <<disk, handle, claim, chan, world, wr,
                                                 finished, done, faulted>>,
         sessions' = sessions \/ sessions' = sessions \cup {s},
         d.pc = dl[s].pc \/ (d.pc \in Early /\ dl[s].pc \in Early),
         dl[s].pc \notin {"new", "asked"},
         d.from = dl[s].from, d.val = dl[s].val, d.ver = dl[s].ver, d.next = dl[s].next,
         d.md5 = dl[s].md5, d.pend = dl[s].pend
  PROVE  DownloadInv'
<1>0. /\ wr[s] \in WrRecords /\ HandleHeld(s) /\ Answered(s) /\ Acting(s) /\ InBody(s)
      /\ ClosedWhole(s) /\ Reasoned(s)
      /\ handle = s => Flows(s) /\ TruncatesFirst(Stream(s)) /\ Versioned(s) /\ Unanswered(s)
  BY SessionFacts
<1>1. RestOK'
  BY DEF DownloadInv, Types, RestOK, disk, chan, world
<1>2. wr' = [wr EXCEPT ![s] = wr[s]] /\ cur' = cur
  BY DEF DownloadInv, Types, world
<1>3. DiskSafe' /\ UNCHANGED <<part, meta, dest, blind>>
  BY <1>2, DiskKept
<1>4. ASSUME dl'[s] = d, wr'[s] = wr[s] PROVE SessionOK(s)'
  <2>1. HandleHeld(s)'
    BY <1>0, <1>4 DEF HandleHeld, Working, Early
  <2>2. Untouched(s)' /\ Answered(s)' /\ Acting(s)' /\ InBody(s)'
    BY <1>0, <1>4 DEF Untouched, Answered, Acting, InBody, Early
  <2>3. PartHeld(s)'
    <3> SUFFICES ASSUME handle' = s
                 PROVE (Flows(s) /\ TruncatesFirst(Stream(s)) /\ Versioned(s) /\ Unanswered(s))'
      BY DEF PartHeld
    <3>1. handle = s /\ Stream(s)' = Stream(s)
      BY <1>4 DEF Stream
    <3>2. d.pc = "body" <=> dl[s].pc = "body"
      BY DEF Early
    <3>3. Flows(s)'
      BY <1>0, <1>3, <1>4, <3>1, <3>2 DEF Flows, Follows
    <3>4. Versioned(s)'
      BY <1>0, <1>2, <1>3, <1>4, <3>1, <3>2 DEF Versioned, Receiving, Match
    <3>5. Unanswered(s)'
      BY <1>0, <1>3, <1>4, <3>1 DEF Unanswered
    <3> QED BY <1>0, <3>1, <3>3, <3>4, <3>5
  <2>4. ClosedWhole(s)'
    BY <1>0, <1>3, <1>4 DEF ClosedWhole
  <2>5. Reasoned(s)'
    BY <1>0, <1>4 DEF Reasoned
  <2> QED BY <2>1, <2>2, <2>3, <2>4, <2>5 DEF SessionOK, OwnAt
<1>5. Handover(s)
  BY DEF Handover
<1> QED BY <1>0, <1>1, <1>2, <1>3, <1>4, <1>5, SessionStep

LEMMA MovingSteps ==
  ASSUME DownloadInv, NEW s \in Sessions,
         \/ Register(s) \/ (Launch(s) /\ running) \/ Connected(s)
         \/ FollowRedirect(s) \/ OldDisconnect(s)
  PROVE  DownloadInv'
<1>0. /\ dl[s] \in DlRecords /\ dl \in [Sessions -> DlRecords]
      /\ Untouched(s) /\ (s \in finished \/ ~LoopRuns \/ Alive(s))
  BY SessionFacts DEF DownloadInv, Types, Alive
<1>1. CASE Register(s)
  <2> DEFINE d == [dl[s] EXCEPT !.pc = "registered"]
  <2>1. d \in DlRecords /\ dl' = [dl EXCEPT ![s] = d]
    BY <1>0, <1>1 DEF Register, DlRecords, DlPlaces
  <2>2. /\ d.pc = "registered" /\ dl[s].pc = "created"
        /\ d.from = dl[s].from /\ d.val = dl[s].val /\ d.ver = dl[s].ver
        /\ d.next = dl[s].next /\ d.md5 = dl[s].md5 /\ d.pend = dl[s].pend
    BY <1>0, <1>1 DEF Register, DlRecords
  <2> HIDE DEF d
  <2> QED BY <1>1, <2>1, <2>2, MovesOn DEF Register, Early
<1>2. CASE Launch(s) /\ running
  <2> DEFINE d == [dl[s] EXCEPT !.pc = "dial"]
  <2>1. d \in DlRecords /\ dl' = [dl EXCEPT ![s] = d]
    BY <1>0, <1>2 DEF Launch, DlRecords, DlPlaces
  <2>2. /\ d.pc = "dial" /\ dl[s].pc = "registered"
        /\ d.from = dl[s].from /\ d.val = dl[s].val /\ d.ver = dl[s].ver
        /\ d.next = dl[s].next /\ d.md5 = dl[s].md5 /\ d.pend = dl[s].pend
    BY <1>0, <1>2 DEF Launch, DlRecords
  <2> HIDE DEF d
  <2> QED BY <1>2, <2>1, <2>2, MovesOn DEF Launch, Early, owner
<1>3. CASE Connected(s)
  <2> DEFINE d == [dl[s] EXCEPT !.pc = "headers"]
  <2>1. d \in DlRecords /\ dl' = [dl EXCEPT ![s] = d]
    BY <1>0, <1>3 DEF Connected, DlRecords, DlPlaces
  <2>2. /\ d.pc = "headers" /\ dl[s].pc \in {"dial", "redial"}
        /\ d.from = dl[s].from /\ d.val = dl[s].val /\ d.ver = dl[s].ver
        /\ d.next = dl[s].next /\ d.md5 = dl[s].md5 /\ d.pend = dl[s].pend
    BY <1>0, <1>3 DEF Connected, DlRecords
  <2> HIDE DEF d
  <2> QED BY <1>3, <2>1, <2>2, MovesOn DEF Connected, Early, owner
<1>4. CASE FollowRedirect(s)
  <2> DEFINE d == [dl[s] EXCEPT !.pc = "redial", !.hops = @ + 1, !.old = TRUE]
  <2>1. d \in DlRecords
    <3>1. dl[s].hops + 1 \in Nat
      BY <1>0 DEF DlRecords
    <3> QED BY <1>0, <3>1 DEF DlRecords, DlPlaces
  <2>3. dl' = [dl EXCEPT ![s] = d]
    BY <1>0, <1>4 DEF FollowRedirect
  <2>2. /\ d.pc = "redial" /\ dl[s].pc = "headers"
        /\ d.from = dl[s].from /\ d.val = dl[s].val /\ d.ver = dl[s].ver
        /\ d.next = dl[s].next /\ d.md5 = dl[s].md5 /\ d.pend = dl[s].pend
    BY <1>0, <1>4 DEF FollowRedirect, Asked, DlRecords
  <2> HIDE DEF d
  <2> QED BY <1>4, <2>1, <2>2, <2>3, MovesOn DEF FollowRedirect, Early, owner
<1>5. CASE OldDisconnect(s)
  <2> DEFINE d == [dl[s] EXCEPT !.old = FALSE]
  <2>1. d \in DlRecords /\ dl' = [dl EXCEPT ![s] = d]
    BY <1>0, <1>5 DEF OldDisconnect, DlRecords
  <2>2. /\ d.pc = dl[s].pc
        /\ d.from = dl[s].from /\ d.val = dl[s].val /\ d.ver = dl[s].ver
        /\ d.next = dl[s].next /\ d.md5 = dl[s].md5 /\ d.pend = dl[s].pend
    BY <1>0, <1>5 DEF DlRecords
  <2>3. dl[s].pc \notin {"new", "asked"}
    BY <1>0, <1>5 DEF OldDisconnect, Untouched
  <2> HIDE DEF d
  <2> QED BY <1>5, <2>1, <2>2, <2>3, MovesOn DEF OldDisconnect, owner
<1> QED BY <1>1, <1>2, <1>3, <1>4, <1>5

\* RequestShutdown, for a session that has to do with the destination.
LEMMA StoppedKeeps ==
  ASSUME DownloadInv, NEW s \in Sessions, wr'[s] = Stopped(wr[s]),
         dl'[s] = dl[s] \/ (dl[s].pc = "registered" /\ dl'[s] = [dl[s] EXCEPT !.pc = "over"]),
         s \in sessions \/ dl[s].pc = "registered", s \in faulted',
         UNCHANGED <<disk, owner, cur, finished>>, done'[s] = done[s]
  PROVE  SessionOK(s)'
<1>0. /\ dl[s] \in DlRecords /\ wr[s] \in WrRecords /\ HandleHeld(s) /\ Untouched(s)
      /\ Answered(s) /\ Acting(s) /\ InBody(s) /\ ClosedWhole(s) /\ Reasoned(s)
      /\ handle = s => Flows(s) /\ TruncatesFirst(Stream(s)) /\ Versioned(s) /\ Unanswered(s)
  BY SessionFacts
<1>1. /\ wr'[s] \in WrRecords /\ wr'[s].stop = TRUE /\ wr'[s].act = wr[s].act
      /\ wr'[s].q = wr[s].q /\ wr'[s].res = wr[s].res
      /\ wr'[s].pc = IF wr[s].pc = "write" THEN "cancelled" ELSE wr[s].pc
  BY <1>0, StoppedFacts
<1>2. /\ dl'[s].ver = dl[s].ver /\ dl'[s].md5 = dl[s].md5 /\ dl'[s].from = dl[s].from
      /\ dl'[s].val = dl[s].val /\ dl'[s].pend = dl[s].pend /\ dl'[s].next = dl[s].next
      /\ dl'[s].pc = dl[s].pc \/ (dl[s].pc = "registered" /\ dl'[s].pc = "over")
  BY <1>0 DEF DlRecords
<1>3. UNCHANGED <<part, meta, blind, handle, claim, sessions>>
  BY DEF disk, owner
<1>4. HandleHeld(s)'
  BY <1>0, <1>1, <1>2, <1>3 DEF HandleHeld, Working, Early, Open, Closing
<1>5. dl[s].pc \notin {"new", "asked"}
  BY <1>0 DEF Untouched
<1>6. Untouched(s)' /\ Answered(s)' /\ Acting(s)' /\ InBody(s)'
  <2>1. Untouched(s)'
    BY <1>2, <1>5 DEF Untouched
  <2>2. Answered(s)'
    BY <1>0, <1>1, <1>2 DEF Answered
  <2>3. Acting(s)' /\ InBody(s)'
    BY <1>0, <1>1, <1>2 DEF Acting, InBody
  <2> QED BY <2>1, <2>2, <2>3
<1>7. PartHeld(s)'
  <2> SUFFICES ASSUME handle' = s
               PROVE (Flows(s) /\ TruncatesFirst(Stream(s)) /\ Versioned(s) /\ Unanswered(s))'
    BY DEF PartHeld
  <2>1. handle = s /\ Stream(s)' = Stream(s)
    BY <1>1, <1>3 DEF Stream, StreamOf
  <2>2. Flows(s)'
    <3>1. PICK y \in 0..Size :
             Carries(Stream(s), dl[s].ver, dl[s].md5, s \in faulted, Len(part), y)
      BY <1>0, <2>1 DEF Flows
    <3>2. Carries(Stream(s), dl[s].ver, dl[s].md5, TRUE, Len(part), y)
      BY <3>1, CarriesFaulted
    <3>3. (s \in faulted') = TRUE
      OBVIOUS
    <3> QED BY <1>1, <1>2, <1>3, <2>1, <3>2, <3>3 DEF Flows, Follows
  <2>3. Versioned(s)'
    BY <1>0, <1>1, <1>2, <1>3, <2>1 DEF Versioned, Receiving, Match
  <2>4. Unanswered(s)'
    BY <1>0, <1>1, <1>2, <1>3, <2>1 DEF Unanswered, Early
  <2> QED BY <1>0, <2>1, <2>2, <2>3, <2>4
<1>8. ClosedWhole(s)'
  BY <1>0, <1>1, <1>3 DEF ClosedWhole
<1>9. Reasoned(s)'
  BY <1>0, <1>1 DEF Reasoned
<1> QED BY <1>4, <1>6, <1>7, <1>8, <1>9 DEF SessionOK, OwnAt

LEMMA LaunchRefused ==
  ASSUME DownloadInv, NEW s \in Sessions, Launch(s), ~running
  PROVE  DownloadInv'
<1> DEFINE d == [dl[s] EXCEPT !.pc = "over"]
<1>0. dl[s] \in DlRecords /\ wr[s] \in WrRecords
  BY SessionFacts
<1>1. d \in DlRecords
  BY <1>0 DEF DlRecords, DlPlaces
<1>2. Stopped(wr[s]) \in WrRecords
  BY <1>0, StoppedFacts
<1>3. /\ dl[s].pc = "registered" /\ dl' = [dl EXCEPT ![s] = d]
      /\ wr' = [wr EXCEPT ![s] = Stopped(wr[s])] /\ faulted' = faulted \cup {s}
      /\ UNCHANGED <<disk, owner, chan, world, finished, done>>
  BY DEF Launch
<1>4. RestOK'
  BY <1>3 DEF DownloadInv, Types, RestOK, disk, owner, chan, world
<1>5. UNCHANGED <<handle, claim, sessions, cur, finished, done>> /\ DiskSafe'
  BY <1>3, DiskKept DEF owner, world
<1>6. ASSUME dl'[s] = d, wr'[s] = Stopped(wr[s]) PROVE SessionOK(s)'
  BY <1>3, <1>5, <1>6, StoppedKeeps
<1>7. Handover(s)
  BY <1>5 DEF Handover
<1> HIDE DEF d
<1> QED BY <1>1, <1>2, <1>3, <1>4, <1>5, <1>6, <1>7, SessionStep

LEMMA Asking ==
  ASSUME DownloadInv, NEW s \in Sessions, StartDownload(s) \/ CreateFails(s)
  PROVE  DownloadInv'
<1> DEFINE d == [dl[s] EXCEPT !.pc = IF StartDownload(s) THEN "asked" ELSE "over"]
<1>0. /\ dl[s] \in DlRecords /\ wr[s] \in WrRecords /\ dl[s].pc \in {"new", "asked"}
      /\ HandleHeld(s) /\ Untouched(s) /\ Answered(s) /\ Reasoned(s)
  BY SessionFacts DEF StartDownload, CreateFails
<1>1. d \in DlRecords /\ d.ver = dl[s].ver /\ d.pend = dl[s].pend /\ d.old = dl[s].old
      /\ d.pc \in {"asked", "over"} /\ (d.pc = "over" <=> ~StartDownload(s))
  BY <1>0 DEF DlRecords, DlPlaces
<1>2. /\ UNCHANGED <<disk, owner, chan, world, wr, finished>>
      /\ dl' = [dl EXCEPT ![s] = d]
  BY DEF StartDownload, CreateFails
<1>3. \/ StartDownload(s) /\ done' = done /\ faulted' = faulted
      \/ ~StartDownload(s) /\ done' = [done EXCEPT ![s] = "fail"] /\ faulted' = faulted \cup {s}
  BY DEF StartDownload, CreateFails
<1> HIDE DEF d
<1>4. done \in [Sessions -> {"none", "ok", "fail", "crash"}] /\ wr \in [Sessions -> WrRecords]
  BY DEF DownloadInv, Types, RestOK
<1>5. RestOK'
  <2>1. done' \in [Sessions -> {"none", "ok", "fail", "crash"}] /\ faulted' \subseteq Sessions
    BY <1>3, <1>4 DEF DownloadInv, Types, RestOK
  <2> QED BY <1>2, <2>1 DEF DownloadInv, Types, RestOK, disk, owner, chan, world
<1>6. UNCHANGED <<handle, claim, sessions, cur>> /\ DiskSafe'
  BY <1>2, DiskKept DEF owner, world
<1>7. wr[s].pc = "none" /\ wr[s].stop = FALSE /\ wr[s].res = "none"
  BY <1>0, NewFacts DEF Untouched
<1>8. ASSUME dl'[s] = d, wr'[s] = wr[s] PROVE SessionOK(s)'
  <2>1. handle' # s
    BY <1>0, <1>6, <1>7 DEF HandleHeld, Open
  <2>2. HandleHeld(s)'
    BY <1>1, <1>7, <1>8, <2>1 DEF HandleHeld, Open, Closing, Working, Early
  <2>3. Untouched(s)'
    BY <1>0, <1>1, <1>6, <1>8 DEF Untouched
  <2>4. Answered(s)'
    BY <1>0, <1>1, <1>3, <1>7, <1>8 DEF Answered
  <2>5. Acting(s)' /\ InBody(s)'
    BY <1>1, <1>7, <1>8 DEF Acting, InBody
  <2>6. PartHeld(s)' /\ ClosedWhole(s)'
    BY <1>7, <1>8, <2>1 DEF PartHeld, ClosedWhole
  <2>7. Reasoned(s)'
    BY <1>0, <1>3, <1>4, <1>7, <1>8 DEF Reasoned
  <2> QED BY <2>2, <2>3, <2>4, <2>5, <2>6, <2>7 DEF SessionOK, OwnAt
<1>9. wr' = [wr EXCEPT ![s] = wr[s]]
  BY <1>2, <1>4
<1>10. \A r \in Sessions \ {s} : /\ done'[r] = done[r]
                                 /\ r \in finished' <=> r \in finished
                                 /\ r \in sessions' <=> r \in sessions
                                 /\ r \in faulted' <=> r \in faulted
  BY <1>2, <1>3, <1>4, <1>6
<1>11. Handover(s)
  BY <1>6 DEF Handover
<1> QED BY <1>0, <1>1, <1>2, <1>5, <1>6, <1>8, <1>9, <1>10, <1>11, SessionStep

\* .part is opened: whatever is in it is what the session starts from.
LEMMA Creating ==
  ASSUME DownloadInv, NEW s \in Sessions, Create(s)
  PROVE  DownloadInv'
<1> DEFINE n == Len(part)
           v == IF part = <<>> THEN 0 ELSE meta
           d == [dl[s] EXCEPT !.pc = "created", !.from = n, !.val = v]
           w == [NewWr EXCEPT !.pc = "wait"]
<1>0. /\ dl[s] \in DlRecords /\ dl[s].pc = "asked" /\ wr[s] = NewWr
      /\ dl[s].ver = 0 /\ dl[s].pend = <<>>
      /\ Answered(s) /\ Reasoned(s)
  BY SessionFacts DEF Create, Untouched
<1>1. /\ n \in Nat /\ n <= Size /\ n \in 0..Size /\ v \in 0..MaxVer
      /\ (n > 0 => v = meta) /\ (n = 0 => part = <<>>)
  <2>1. part \in Seq(Block) /\ meta \in 0..MaxVer /\ Len(part) <= Size
    BY DEF DownloadInv, Types, RestOK, DiskSafe
  <2>2. Len(part) \in Nat /\ (Len(part) = 0 <=> part = <<>>)
    BY <2>1, LenProperties, EmptySeq
  <2> QED BY <2>1, <2>2, Constants
<1> HIDE DEF n, v
<1>2. /\ d \in DlRecords /\ d.pc = "created"
      /\ d.from = n /\ d.val = v /\ d.ver = 0 /\ d.pend = <<>>
  BY <1>0, <1>1 DEF DlRecords, DlPlaces
<1>3. /\ w \in WrRecords /\ w.pc = "wait" /\ w.q = <<>> /\ w.act = <<>> /\ w.stop = FALSE
      /\ w.res = "none"
  BY NewFacts DEF WrRecords, WrPlaces
<1>4. /\ handle = NoOne /\ claim = NoOne /\ claim' = s /\ handle' = s
      /\ UNCHANGED <<disk, sessions, chan, world, finished, done, faulted>>
  BY DEF Create
<1>5. dl' = [dl EXCEPT ![s] = d] /\ wr' = [wr EXCEPT ![s] = w]
  BY <1>0 DEF Create, n, v
<1> HIDE DEF d, w
<1>6. RestOK'
  BY <1>4 DEF DownloadInv, Types, RestOK, disk, chan, world
<1>7. DiskSafe' /\ UNCHANGED <<part, meta, dest, blind, cur>>
  BY <1>4, DiskKept DEF world
<1>8. ASSUME dl'[s] = d, wr'[s] = w PROVE SessionOK(s)'
  <2>1. HandleHeld(s)' /\ Untouched(s)' /\ Acting(s)' /\ InBody(s)'
    BY <1>2, <1>3, <1>4, <1>8 DEF HandleHeld, Untouched, Acting, InBody, Open, Closing
  <2>2. Answered(s)'
    BY <1>0, <1>4, <1>8 DEF Answered
  <2>3. Stream(s)' = <<>>
    BY <1>3, <1>8, StreamFacts DEF Stream
  <2>4. Flows(s)'
    <3>1. Carries(<<>>, d.ver, d.md5, s \in faulted', n, n)
      BY <1>1, CarriesNothing
    <3> QED BY <1>1, <1>2, <1>7, <1>8, <2>3, <3>1 DEF Flows, Follows, n
  <2>5. TruncatesFirst(Stream(s))' /\ Versioned(s)'
    BY <1>2, <1>8, <2>3, EmptyStream DEF Versioned, Receiving
  <2>6. Unanswered(s)'
    BY <1>1, <1>2, <1>3, <1>7, <1>8, <2>3, EmptyStream DEF Unanswered, n
  <2>7. PartHeld(s)' /\ ClosedWhole(s)'
    BY <1>3, <1>8, <2>4, <2>5, <2>6 DEF PartHeld, ClosedWhole
  <2>8. Reasoned(s)'
    BY <1>0, <1>3, <1>4, <1>8 DEF Reasoned
  <2> QED BY <2>1, <2>2, <2>7, <2>8 DEF SessionOK, OwnAt
<1>9. Handover(s)
  BY <1>4 DEF Handover
<1> QED BY <1>2, <1>3, <1>4, <1>5, <1>6, <1>7, <1>8, <1>9, SessionStep

\* What the loop does for a session is done for the one that has .part open.
LEMMA LoopFacts ==
  ASSUME DownloadInv, NEW s \in Sessions, Alive(s), dl[s].pc \in Working
  PROVE  /\ handle = s /\ claim = s
         /\ dl \in [Sessions -> DlRecords] /\ wr \in [Sessions -> WrRecords]
         /\ dl[s] \in DlRecords /\ wr[s] \in WrRecords /\ Stream(s) \in Seq(Acts)
         /\ wr[s].pc \in Open /\ Acting(s) /\ InBody(s)
         /\ Flows(s) /\ TruncatesFirst(Stream(s)) /\ Versioned(s) /\ Unanswered(s)
<1>1. handle = s
  BY SessionFacts DEF Alive, HandleHeld
<1>2. claim = s /\ dl \in [Sessions -> DlRecords] /\ wr \in [Sessions -> WrRecords]
  BY <1>1, Constants DEF DownloadInv, Types, RestOK
<1> QED BY <1>1, <1>2, SessionFacts DEF HandleHeld

LEMMA Failing ==
  ASSUME DownloadInv, NEW s \in Sessions, Alive(s), dl[s].pc \in Working, Faulty(s)
  PROVE  DownloadInv'
<1> DEFINE c == Cancelled(wr[s])
           w == Push(c, Abort)
           d == Over(dl[s])
<1>0. /\ handle = s
      /\ dl[s] \in DlRecords /\ wr[s] \in WrRecords /\ Stream(s) \in Seq(Acts)
      /\ wr[s].pc \in Open /\ Acting(s)
      /\ Flows(s) /\ TruncatesFirst(Stream(s)) /\ Versioned(s)
  BY LoopFacts
<1>1. d \in DlRecords /\ d.pc = "over" /\ d.ver = dl[s].ver /\ d.md5 = dl[s].md5
  BY <1>0, OverFacts
<1>2. /\ c \in WrRecords /\ c.pc = (IF wr[s].pc = "write" THEN "cancelled" ELSE wr[s].pc)
      /\ c.act = wr[s].act /\ c.stop = wr[s].stop /\ c.res = wr[s].res /\ c.q = wr[s].q
  BY <1>0, CancelledFacts
<1> HIDE DEF c, d
<1>3. /\ w \in WrRecords /\ w.pc = c.pc /\ w.act = c.act /\ w.stop = c.stop /\ w.res = c.res
  BY <1>2, ActsMade, PushFacts
<1>4. StreamOf(w) = IF wr[s].stop THEN Stream(s) ELSE Append(Stream(s), Abort)
  <2>1. StreamOf(w) = IF c.stop THEN StreamOf(c) ELSE Append(StreamOf(c), Abort)
    BY <1>2, ActsMade, StreamPushed
  <2>2. StreamOf(c) = Stream(s)
    BY <1>2 DEF Stream, StreamOf
  <2> QED BY <1>2, <2>1, <2>2
<1> HIDE DEF w
<1>5. /\ dl' = [dl EXCEPT ![s] = d] /\ wr' = [wr EXCEPT ![s] = w]
      /\ faulted' = faulted \cup {s} /\ finished' = finished \cup {s}
      /\ UNCHANGED <<disk, owner, chan, world, done>>
  BY DEF Faulty, Fail, c, d, w
<1>6. UNCHANGED <<part, meta, dest, blind, cur>> /\ DiskSafe'
  BY <1>5, DiskKept DEF world
<1>7. /\ HasContent(StreamOf(w)) => HasContent(Stream(s))
      /\ Truncating(Stream(s)) => Truncating(StreamOf(w))
      /\ TruncatesFirst(StreamOf(w))
  <2>1. Abort \in Acts /\ Abort.op = "abort"
    BY ActsMade DEF Abort
  <2> QED BY <1>0, <1>4, <2>1, AppendedStream
<1>8. ASSUME dl'[s] = d, wr'[s] = w
      PROVE  (Flows(s) /\ TruncatesFirst(Stream(s)) /\ Versioned(s) /\ Unanswered(s))'
  <2>1. Stream(s)' = StreamOf(w)
    BY <1>8 DEF Stream
  <2>2. Flows(s)'
    <3>1. PICK y \in 0..Size :
            Carries(Stream(s), dl[s].ver, dl[s].md5, s \in faulted, Len(part), y)
      BY <1>0 DEF Flows
    <3>2. Carries(Stream(s), d.ver, d.md5, TRUE, Len(part), y)
      BY <1>1, <3>1, CarriesFaulted
    <3>3. Abort \in Acts /\ CarriesOne(Abort, d.ver, d.md5, TRUE, y, y)
      BY ActsMade DEF CarriesOne, Abort
    <3>4. Carries(StreamOf(w), d.ver, d.md5, TRUE, Len(part), y)
      BY <1>0, <1>4, <3>2, <3>3, CarriesMore
    <3>5. (s \in faulted') = TRUE
      BY <1>5
    <3> QED BY <1>1, <1>6, <1>8, <2>1, <3>4, <3>5 DEF Flows, Follows
  <2>3. Versioned(s)'
    BY <1>0, <1>1, <1>6, <1>7, <1>8, <2>1 DEF Versioned, Receiving, Match
  <2>4. Unanswered(s)'
    BY <1>1, <1>8 DEF Unanswered, Early
  <2> QED BY <1>7, <2>1, <2>2, <2>3, <2>4
<1>9. /\ w.pc \in Open /\ (w.pc = "wait" => w.act = <<>>)
      /\ w.pc \in {"write", "cancelled"} => Len(w.act) = 1 /\ w.act[1].op = "write"
      /\ w.pc = "meta" => Len(w.act) = 1 /\ w.act[1].op = "meta"
      /\ w.stop = wr[s].stop /\ w.res = wr[s].res
  BY <1>0, <1>2, <1>3 DEF Acting, Open
<1>10. part' \in Seq(Block) /\ meta' \in 0..MaxVer /\ blind' \in BOOLEAN
  BY <1>6 DEF DownloadInv, Types, RestOK
<1> QED BY <1>0, <1>1, <1>3, <1>5, <1>6, <1>8, <1>9, <1>10, HeldStep

\* The writer is where it was; only its queue may have grown.
SameThread(w, s) ==
  /\ w \in WrRecords
  /\ w.pc = wr[s].pc /\ w.act = wr[s].act /\ w.stop = wr[s].stop /\ w.res = wr[s].res

LEMMA Queues ==
  ASSUME NEW s, NEW w, SameThread(w, s), NEW a \in Acts
  PROVE  /\ SameThread(Push(w, a), s)
         /\ StreamOf(Push(w, a)) = IF w.stop THEN StreamOf(w) ELSE Append(StreamOf(w), a)
BY PushFacts, StreamPushed DEF SameThread

LEMMA LoopStep ==
  ASSUME DownloadInv, NEW s \in Sessions, Alive(s), dl[s].pc \in Working,
         NEW d \in DlRecords, NEW w, SameThread(w, s),
         dl' = [dl EXCEPT ![s] = d], wr' = [wr EXCEPT ![s] = w],
         UNCHANGED <<part, meta, dest, owner, chan, world, done>>,
         blind' \in BOOLEAN, DiskSafe',
         finished' = finished \/ finished' = finished \cup {s},
         faulted' = faulted \/ faulted' = faulted \cup {s},
         d.pc \notin {"new", "asked"}, d.pc = "body" => d.ver \in Versions /\ d.next > 0,
         dl'[s] = d /\ wr'[s] = w =>
           (Flows(s) /\ TruncatesFirst(Stream(s)) /\ Versioned(s) /\ Unanswered(s))'
  PROVE  DownloadInv'
<1>1. handle = s /\ wr[s].pc \in Open /\ Acting(s)
  BY LoopFacts
<1>2. part' \in Seq(Block) /\ meta' \in 0..MaxVer
  BY DEF DownloadInv, Types, RestOK
<1>3. /\ w \in WrRecords /\ w.pc \in Open /\ (w.pc = "wait" => w.act = <<>>)
      /\ w.pc \in {"write", "cancelled"} => Len(w.act) = 1 /\ w.act[1].op = "write"
      /\ w.pc = "meta" => Len(w.act) = 1 /\ w.act[1].op = "meta"
      /\ w.stop = wr[s].stop /\ w.res = wr[s].res
  BY <1>1 DEF SameThread, Acting
<1> QED BY <1>1, <1>2, <1>3, HeldStep

\* Before an answer nothing that comes with one is on its way.
LEMMA NoAnswerYet ==
  ASSUME DownloadInv, NEW s \in Sessions, Alive(s), dl[s].pc \in Early
  PROVE  ~HasContent(Stream(s)) /\ dl[s].ver = 0 /\ dl[s].pend = <<>>
<1>1. Versioned(s) /\ Unanswered(s)
  BY LoopFacts DEF Working
<1>2. 0 \notin Versions
  BY DEF Versions
<1> QED BY <1>1, <1>2 DEF Versioned, Unanswered, Receiving

LEMMA Answering200 ==
  ASSUME DownloadInv, NEW s \in Sessions, NEW m \in BOOLEAN, Answer200(s, m)
  PROVE  DownloadInv'
<1> DEFINE c == IF dl[s].from > 0 THEN Push(wr[s], Truncate) ELSE wr[s]
           w == Push(c, Meta(cur))
           d == [dl[s] EXCEPT !.pc = "body", !.ver = cur, !.next = 1, !.md5 = m]
<1>0. Alive(s) /\ dl[s].pc = "headers" /\ dl[s].pc \in Working /\ dl[s].pc \in Early
  BY DEF Answer200, Asked, Working, Early
<1>1. /\ dl[s] \in DlRecords /\ wr[s] \in WrRecords /\ Stream(s) \in Seq(Acts)
      /\ Flows(s) /\ TruncatesFirst(Stream(s)) /\ Unanswered(s)
      /\ ~HasContent(Stream(s)) /\ dl[s].pend = <<>>
  BY <1>0, LoopFacts, NoAnswerYet
<1>2. /\ cur \in Versions /\ cur \in 0..MaxVer /\ meta <= cur
      /\ Meta(cur) \in Acts /\ Truncate \in Acts
      /\ Meta(cur).op = "meta" /\ Meta(cur).ver = cur /\ Truncate.op = "truncate"
  BY Constants, ActsMade DEF DownloadInv, Types, RestOK, DiskSafe, Meta, Truncate
<1>3. /\ d \in DlRecords /\ d.pc = "body"
      /\ d.ver = cur /\ d.next = 1 /\ d.md5 = m /\ d.pend = <<>>
  BY <1>1, <1>2 DEF DlRecords, DlPlaces
<1>4. SameThread(wr[s], s) /\ StreamOf(wr[s]) = Stream(s)
  BY <1>1 DEF SameThread, Stream
<1>5. /\ SameThread(c, s)
      /\ StreamOf(c) = IF wr[s].stop \/ ~(dl[s].from > 0) THEN Stream(s)
                       ELSE Append(Stream(s), Truncate)
  BY <1>2, <1>4, Queues
<1> HIDE DEF c
<1>6. /\ SameThread(w, s)
      /\ StreamOf(w) = IF wr[s].stop THEN Stream(s) ELSE Append(StreamOf(c), Meta(cur))
  <2>1. /\ SameThread(w, s)
        /\ StreamOf(w) = IF c.stop THEN StreamOf(c) ELSE Append(StreamOf(c), Meta(cur))
    BY <1>2, <1>5, Queues
  <2> QED BY <1>5, <2>1 DEF SameThread
<1>7. /\ dl' = [dl EXCEPT ![s] = d] /\ wr' = [wr EXCEPT ![s] = w]
      /\ UNCHANGED <<disk, owner, chan, world, finished, done, faulted>>
  BY DEF Answer200, c
<1> HIDE DEF d, w
<1>8. UNCHANGED <<part, meta, dest, blind, cur>> /\ DiskSafe' /\ blind' \in BOOLEAN
  BY <1>7, DiskKept DEF world
<1>9. StreamOf(c) \in Seq(Acts)
  BY <1>5, StreamFacts DEF SameThread
<1>10. PICK y \in 0..Size : Carries(Stream(s), d.ver, d.md5, s \in faulted, Len(part), y)
  <2>1. PICK y \in 0..Size :
          Carries(Stream(s), dl[s].ver, dl[s].md5, s \in faulted, Len(part), y)
    BY <1>1 DEF Flows
  <2> QED BY <1>1, <2>1, CarriesAnyVersion
<1>11. ASSUME ~wr[s].stop
       PROVE  /\ Carries(StreamOf(c), d.ver, d.md5, s \in faulted, Len(part), 0)
              /\ TruncatesFirst(StreamOf(c)) /\ OnlyTruncates(StreamOf(c))
              /\ Truncating(StreamOf(c)) \/ part = <<>>
  <2>1. CASE dl[s].from > 0
    <3>1. Stream(s) = <<>>
      BY <1>0, <1>1, <2>1 DEF Unanswered
    <3>2. StreamOf(c) = Append(Stream(s), Truncate) /\ OnlyTruncates(Stream(s))
      BY <1>5, <1>11, <2>1, <3>1, EmptyStream
    <3>3. CarriesOne(Truncate, d.ver, d.md5, s \in faulted, y, 0)
      BY DEF CarriesOne, Truncate
    <3>4. Carries(StreamOf(c), d.ver, d.md5, s \in faulted, Len(part), 0)
      BY <1>1, <1>2, <1>10, <3>2, <3>3, CarriesMore, Constants
    <3> QED BY <1>1, <1>2, <3>2, <3>4, AppendedStream
  <2>2. CASE ~(dl[s].from > 0)
    <3>1. StreamOf(c) = Stream(s)
      BY <1>5, <2>2
    <3>2. OnlyTruncates(Stream(s)) /\ (Stream(s) = <<>> => part = <<>>)
      <4>1. dl[s].from = 0
        BY <1>1, <2>2 DEF DlRecords
      <4> QED BY <1>0, <1>1, <1>11, <4>1 DEF Unanswered
    <3>3. y = IF Stream(s) = <<>> THEN Len(part) ELSE 0
      BY <1>1, <1>10, <3>2, CarriesTruncates
    <3>4. y = 0
      BY <3>2, <3>3, EmptyFacts
    <3>5. Stream(s) # <<>> => Truncating(Stream(s))
      BY <1>1, <3>2, RestOfStream DEF Truncating
    <3> QED BY <1>1, <1>10, <3>1, <3>2, <3>4, <3>5
  <2> QED BY <2>1, <2>2
<1>12. ASSUME dl'[s] = d, wr'[s] = w
       PROVE  (Flows(s) /\ TruncatesFirst(Stream(s)) /\ Versioned(s) /\ Unanswered(s))'
  <2>1. Stream(s)' = StreamOf(w) /\ w.stop = wr[s].stop /\ (s \in faulted') = (s \in faulted)
    BY <1>6, <1>7, <1>12 DEF Stream, SameThread
  <2>2. Unanswered(s)'
    BY <1>3, <1>12 DEF Unanswered, Early
  <2>3. CASE wr[s].stop
    <3>1. Stream(s)' = Stream(s)
      BY <1>6, <2>1, <2>3
    <3>2. Flows(s)'
      BY <1>8, <1>10, <1>12, <2>1, <2>3, <3>1 DEF Flows, Follows
    <3>3. Versioned(s)'
      BY <1>1, <1>12, <2>1, <2>3, <3>1 DEF Versioned, Receiving
    <3> QED BY <1>1, <2>2, <3>1, <3>2, <3>3
  <2>4. CASE ~wr[s].stop
    <3>1. Stream(s)' = Append(StreamOf(c), Meta(cur))
      BY <1>6, <2>1, <2>4
    <3>2. Carries(Stream(s)', d.ver, d.md5, s \in faulted, Len(part), 0)
      <4>1. CarriesOne(Meta(cur), d.ver, d.md5, s \in faulted, 0, 0)
        BY <1>3 DEF CarriesOne, Meta
      <4> QED BY <1>2, <1>9, <1>11, <2>4, <3>1, <4>1, CarriesMore, Constants
    <3>3. Flows(s)'
      <4>1. 0 \in 0..Size /\ d.next - 1 = 0 /\ Blocks(d.ver, 0, 0) = <<>>
        BY <1>3, Constants, NoBlocks
      <4> QED BY <1>3, <1>8, <1>12, <2>1, <3>2, <4>1 DEF Flows, Follows
    <3>4. TruncatesFirst(Stream(s)')
      BY <1>2, <1>9, <1>11, <2>4, <3>1, AppendedStream
    <3>5. Match(s)' \/ Truncating(Stream(s)')
      <4>1. part = <<>> => part = Blocks(d.ver, 0, Len(part))
        BY EmptyFacts, NoBlocks
      <4>2. part = <<>> => Match(s)'
        BY <1>8, <1>12, <4>1 DEF Match
      <4>3. Truncating(StreamOf(c)) => Truncating(Stream(s)')
        BY <1>2, <1>9, <3>1, AppendedStream
      <4> QED BY <1>11, <2>4, <4>2, <4>3
    <3>6. Versioned(s)'
      <4>1. cur <= cur
        BY <1>2 DEF Versions
      <4> QED BY <1>2, <1>3, <1>8, <1>12, <3>5, <4>1 DEF Versioned
    <3> QED BY <2>2, <3>3, <3>4, <3>6
  <2> QED BY <2>3, <2>4
<1>13. d.pc \notin {"new", "asked"} /\ d.ver \in Versions /\ d.next > 0
  BY <1>2, <1>3
<1> QED BY <1>0, <1>3, <1>6, <1>7, <1>8, <1>12, <1>13, LoopStep

LEMMA Answering206 ==
  ASSUME DownloadInv, NEW s \in Sessions, Answer206(s)
  PROVE  DownloadInv'
<1>a. Alive(s) /\ dl[s].pc \in Working /\ dl[s].pc \in Early
  BY DEF Answer206, Asked, Working, Early
<1>b. PICK n \in Nat : n = dl[s].from
  BY <1>a, LoopFacts DEF DlRecords
<1> DEFINE w == Push(wr[s], Meta(cur))
           d == [dl[s] EXCEPT !.pc = "body", !.ver = cur, !.next = n + 1, !.md5 = FALSE]
<1>0. n > 0 /\ n < Size /\ dl[s].val \in {0, cur}
  BY <1>b DEF Answer206, Resumable
<1>1. /\ dl[s] \in DlRecords /\ wr[s] \in WrRecords /\ n \in Nat
      /\ Stream(s) = <<>> /\ Len(part) = n /\ dl[s].val = meta
      /\ dl[s].pend = <<>>
  <2>1. dl[s] \in DlRecords /\ wr[s] \in WrRecords /\ Unanswered(s) /\ dl[s].pend = <<>>
    BY <1>a, LoopFacts, NoAnswerYet
  <2> QED BY <1>0, <1>a, <1>b, <2>1 DEF Unanswered
<1>2. /\ cur \in Versions /\ cur \in 0..MaxVer /\ meta <= cur /\ Meta(cur) \in Acts
      /\ Meta(cur).op = "meta" /\ blind \in BOOLEAN
  BY Constants, ActsMade DEF DownloadInv, Types, RestOK, DiskSafe, Meta
<1>3. /\ d \in DlRecords /\ d.pc = "body" /\ d.ver = cur /\ d.next = n + 1 /\ d.md5 = FALSE
      /\ d.pend = <<>>
  <2>1. n + 1 \in Nat
    BY <1>1
  <2> QED BY <1>1, <1>2, <2>1 DEF DlRecords, DlPlaces
<1>4. SameThread(wr[s], s) /\ StreamOf(wr[s]) = Stream(s)
  BY <1>1 DEF SameThread, Stream
<1>5. SameThread(w, s) /\ StreamOf(w) = IF wr[s].stop THEN <<>> ELSE Append(<<>>, Meta(cur))
  BY <1>1, <1>2, <1>4, Queues
<1>6. /\ dl' = [dl EXCEPT ![s] = d] /\ wr' = [wr EXCEPT ![s] = w]
      /\ blind' = (blind \/ dl[s].val = 0)
      /\ UNCHANGED <<part, meta, dest, owner, chan, world, finished, done, faulted>>
  BY <1>b DEF Answer206
<1> HIDE DEF d, w
<1>7. blind' \in BOOLEAN /\ cur' = cur
  BY <1>6 DEF world
<1>8. blind' \/ part = Blocks(cur, 0, Len(part))
  <2> SUFFICES ASSUME ~blind' PROVE part = Blocks(cur, 0, Len(part))
    OBVIOUS
  <2>1. ~blind /\ meta = cur
    BY <1>0, <1>1, <1>6
  <2>2. part # <<>>
    BY <1>0, <1>1, EmptyFacts
  <2>3. PICK v \in Versions : meta <= v /\ v <= cur /\ part = Blocks(v, 0, Len(part))
    BY <2>1, <2>2 DEF DownloadInv, DiskSafe
  <2>4. v = cur
    BY <1>2, <2>1, <2>3 DEF Versions
  <2> QED BY <2>3, <2>4
<1>9. DiskSafe'
  <2>1. Len(part) <= Size /\ part # <<>>
    BY <1>0, <1>1, EmptyFacts DEF DownloadInv, DiskSafe
  <2>2. cur <= cur
    BY <1>2 DEF Versions
  <2> QED BY <1>2, <1>6, <1>7, <1>8, <2>1, <2>2 DEF DiskSafe
<1>10. n \in 0..Size /\ d.next - 1 = n /\ Blocks(cur, n, n) = <<>> /\ n <= n /\ n <= Size
  BY <1>0, <1>1, <1>3, Constants, NoBlocks
<1>11. Carries(<<>>, cur, FALSE, s \in faulted, n, n)
  BY <1>10, CarriesNothing
<1>12. ASSUME dl'[s] = d, wr'[s] = w
       PROVE  (Flows(s) /\ TruncatesFirst(Stream(s)) /\ Versioned(s) /\ Unanswered(s))'
  <2>1. Stream(s)' = StreamOf(w) /\ w.stop = wr[s].stop /\ (s \in faulted') = (s \in faulted)
    BY <1>5, <1>6, <1>12 DEF Stream, SameThread
  <2>2. Unanswered(s)'
    BY <1>3, <1>12 DEF Unanswered, Early
  <2>3. CASE wr[s].stop
    <3>1. Stream(s)' = <<>>
      BY <1>5, <2>1, <2>3
    <3>2. Flows(s)'
      BY <1>1, <1>3, <1>6, <1>10, <1>11, <1>12, <2>1, <2>3, <3>1 DEF Flows, Follows
    <3>3. Versioned(s)' /\ TruncatesFirst(Stream(s)')
      BY <1>12, <2>1, <2>3, <3>1, EmptyStream DEF Versioned, Receiving
    <3> QED BY <2>2, <3>1, <3>2, <3>3
  <2>4. CASE ~wr[s].stop
    <3>1. Stream(s)' = Append(<<>>, Meta(cur)) /\ <<>> \in Seq(Acts)
      BY <1>5, <2>1, <2>4, EmptyFacts
    <3>2. Carries(Stream(s)', cur, FALSE, s \in faulted, n, n)
      <4>1. CarriesOne(Meta(cur), cur, FALSE, s \in faulted, n, n)
        BY DEF CarriesOne, Meta
      <4> QED BY <1>2, <1>10, <1>11, <3>1, <4>1, CarriesMore
    <3>3. Flows(s)'
      <4>1. Follows(s, n)'
        BY <1>3, <1>10, <1>12 DEF Follows
      <4> QED BY <1>1, <1>3, <1>6, <1>10, <1>12, <2>1, <3>2, <4>1 DEF Flows
    <3>4. TruncatesFirst(Stream(s)')
      BY <1>2, <3>1, AppendedStream, EmptyStream
    <3>5. Match(s)'
      BY <1>3, <1>6, <1>8, <1>12 DEF Match
    <3>6. Versioned(s)'
      <4>1. cur <= cur
        BY <1>2 DEF Versions
      <4> QED BY <1>2, <1>3, <1>6, <1>7, <1>12, <3>5, <4>1 DEF Versioned
    <3> QED BY <2>2, <3>3, <3>4, <3>6
  <2> QED BY <2>3, <2>4
<1>13. d.pc \notin {"new", "asked"} /\ d.ver \in Versions /\ d.next > 0
  BY <1>1, <1>2, <1>3
<1> QED BY <1>a, <1>3, <1>5, <1>6, <1>7, <1>9, <1>12, <1>13, LoopStep

LEMMA Restarting ==
  ASSUME DownloadInv, NEW s \in Sessions, RestartOnce(s)
  PROVE  DownloadInv'
<1> DEFINE w == Push(wr[s], Truncate)
           h == dl[s].hops
           d == [NewDl EXCEPT !.pc = "redial", !.again = TRUE, !.hops = h, !.old = TRUE]
<1>0. Alive(s) /\ dl[s].pc \in Working /\ dl[s].pc \in Early
  BY DEF RestartOnce, Asked, Working, Early
<1>1. /\ dl[s] \in DlRecords /\ wr[s] \in WrRecords /\ Stream(s) \in Seq(Acts)
      /\ Flows(s) /\ TruncatesFirst(Stream(s)) /\ Unanswered(s)
      /\ ~HasContent(Stream(s)) /\ h \in Nat
  <2>1. dl[s] \in DlRecords
    BY <1>0, LoopFacts
  <2> QED BY <1>0, <2>1, LoopFacts, NoAnswerYet DEF DlRecords
<1> HIDE DEF h
<1>2. /\ d \in DlRecords /\ d.pc = "redial" /\ d.ver = 0 /\ d.pend = <<>> /\ d.from = 0
  BY <1>1, NewFacts DEF DlRecords, DlPlaces
<1>3. /\ SameThread(wr[s], s) /\ StreamOf(wr[s]) = Stream(s)
      /\ Truncate \in Acts /\ Truncate.op = "truncate"
  BY <1>1, ActsMade DEF SameThread, Stream, Truncate
<1>4. /\ SameThread(w, s)
      /\ StreamOf(w) = IF wr[s].stop THEN Stream(s) ELSE Append(Stream(s), Truncate)
  BY <1>3, Queues
<1>5. /\ dl' = [dl EXCEPT ![s] = d] /\ wr' = [wr EXCEPT ![s] = w]
      /\ UNCHANGED <<disk, owner, chan, world, finished, done, faulted>>
  BY DEF RestartOnce, h
<1> HIDE DEF d, w
<1>6. UNCHANGED <<part, meta, dest, blind, cur>> /\ DiskSafe' /\ blind' \in BOOLEAN
  BY <1>5, DiskKept DEF world
<1>7. PICK y \in 0..Size : Carries(Stream(s), d.ver, d.md5, s \in faulted, Len(part), y)
  <2>1. PICK y \in 0..Size :
          Carries(Stream(s), dl[s].ver, dl[s].md5, s \in faulted, Len(part), y)
    BY <1>1 DEF Flows
  <2> QED BY <1>1, <2>1, CarriesAnyVersion
<1>8. ASSUME ~wr[s].stop PROVE OnlyTruncates(Stream(s))
  <2>1. dl[s].from > 0 \/ dl[s].from = 0
    BY <1>1 DEF DlRecords
  <2> QED BY <1>0, <1>1, <1>8, <2>1, EmptyStream DEF Unanswered
<1>9. ASSUME dl'[s] = d, wr'[s] = w
      PROVE  (Flows(s) /\ TruncatesFirst(Stream(s)) /\ Versioned(s) /\ Unanswered(s))'
  <2>1. Stream(s)' = StreamOf(w) /\ w.stop = wr[s].stop /\ (s \in faulted') = (s \in faulted)
    BY <1>4, <1>5, <1>9 DEF Stream, SameThread
  <2>2. CASE wr[s].stop
    <3>1. Stream(s)' = Stream(s)
      BY <1>4, <2>1, <2>2
    <3>2. Flows(s)'
      BY <1>6, <1>7, <1>9, <2>1, <2>2, <3>1 DEF Flows, Follows
    <3>3. Versioned(s)'
      BY <1>1, <1>9, <2>1, <2>2, <3>1 DEF Versioned, Receiving
    <3>4. Unanswered(s)'
      BY <1>2, <1>9, <2>1, <2>2 DEF Unanswered
    <3> QED BY <1>1, <3>1, <3>2, <3>3, <3>4
  <2>3. CASE ~wr[s].stop
    <3>1. Stream(s)' = Append(Stream(s), Truncate)
      BY <1>4, <2>1, <2>3
    <3>2. /\ OnlyTruncates(Stream(s)') /\ Truncating(Stream(s)') /\ TruncatesFirst(Stream(s)')
          /\ ~HasContent(Stream(s)')
      BY <1>1, <1>3, <1>8, <2>3, <3>1, AppendedStream
    <3>3. Carries(Stream(s)', d.ver, d.md5, s \in faulted, Len(part), 0)
      <4>1. CarriesOne(Truncate, d.ver, d.md5, s \in faulted, y, 0)
        BY DEF CarriesOne, Truncate
      <4> QED BY <1>1, <1>3, <1>7, <3>1, <4>1, CarriesMore, Constants
    <3>4. Flows(s)'
      BY <1>2, <1>6, <1>9, <2>1, <3>3, Constants DEF Flows, Follows
    <3>5. Versioned(s)'
      BY <1>2, <1>9, <3>2 DEF Versioned, Receiving
    <3>6. Unanswered(s)'
      BY <1>2, <1>9, <3>2 DEF Unanswered, Truncating
    <3> QED BY <3>2, <3>4, <3>5, <3>6
  <2> QED BY <2>2, <2>3
<1> QED BY <1>0, <1>2, <1>4, <1>5, <1>6, <1>9, LoopStep

-----------------------------------------------------------------------------
\* What is taken in of a body, with the bytes left in m_pendingBuf.
Taking(d, w, s, f) ==
  /\ d \in DlRecords /\ d.ver = dl[s].ver /\ d.md5 = dl[s].md5 /\ d.next > 0
  /\ SameThread(w, s) /\ TruncatesFirst(StreamOf(w))
  /\ wr[s].stop /\ HasContent(StreamOf(w)) => HasContent(Stream(s))
  /\ Truncating(Stream(s)) => Truncating(StreamOf(w))
  /\ \E y \in 0..Size :
       /\ Carries(StreamOf(w), d.ver, d.md5, f, Len(part), y)
       /\ ~w.stop => /\ y <= d.next - 1 /\ d.next - 1 <= Size
                     /\ d.pend = Blocks(d.ver, y, d.next - 1)

Gathered(s)        == Append(dl[s].pend, <<dl[s].ver, dl[s].next>>)
TakenDl(s, chunk)  == [dl[s] EXCEPT !.next = @ + 1,
                                     !.pend = IF chunk THEN <<>> ELSE Gathered(s)]
TakenWr(s, chunk)  == IF chunk THEN Push(wr[s], Write(Gathered(s))) ELSE wr[s]

\* A block more: gathered, or queued with the ones before it.
LEMMA TakesBlock ==
  ASSUME DownloadInv, NEW s \in Sessions, Alive(s), dl[s].pc = "body", dl[s].next <= Size,
         NEW chunk \in BOOLEAN, chunk => ~wr[s].stop
  PROVE  /\ Taking(TakenDl(s, chunk), TakenWr(s, chunk), s, s \in faulted)
         /\ TakenDl(s, chunk).pc = "body" /\ TakenDl(s, chunk).next = dl[s].next + 1
<1> DEFINE v == dl[s].ver
           n == dl[s].next
           got == Gathered(s)
           d == TakenDl(s, chunk)
           w == TakenWr(s, chunk)
<1>1. /\ dl[s] \in DlRecords /\ wr[s] \in WrRecords /\ Stream(s) \in Seq(Acts)
      /\ InBody(s) /\ Flows(s) /\ TruncatesFirst(Stream(s)) /\ Versioned(s)
  BY LoopFacts DEF Working
<1>2. v \in Versions /\ n \in Nat /\ n > 0 /\ n <= Size /\ dl[s].pend \in Seq(Block)
  BY <1>1 DEF InBody, DlRecords
<1>3. got \in Seq(Block)
  <2>1. <<v, n>> \in Block
    BY <1>2 DEF Block
  <2> QED BY <1>2, <2>1, AppendProperties DEF Gathered
<1>4. /\ d \in DlRecords /\ d.pc = "body" /\ d.ver = v /\ d.md5 = dl[s].md5 /\ d.next = n + 1
      /\ d.pend = IF chunk THEN <<>> ELSE got
  <2>1. n + 1 \in Nat /\ (IF chunk THEN <<>> ELSE got) \in Seq(Block)
    BY <1>2, <1>3, EmptyFacts
  <2> QED BY <1>1, <1>2, <2>1 DEF DlRecords, TakenDl
<1>5. PICK y \in 0..Size :
        Carries(Stream(s), v, dl[s].md5, s \in faulted, Len(part), y) /\ Follows(s, y)
  BY <1>1 DEF Flows
<1>6. ASSUME ~wr[s].stop PROVE y <= n - 1 /\ n - 1 <= Size /\ got = Blocks(v, y, n)
  <2>1. y <= n - 1 /\ n - 1 <= Size /\ dl[s].pend = Blocks(v, y, n - 1)
    BY <1>5, <1>6 DEF Follows
  <2>2. n - 1 \in Nat /\ (n - 1) + 1 = n /\ y \in Nat
    BY <1>2
  <2>3. Append(Blocks(v, y, n - 1), <<v, (n - 1) + 1>>) = Blocks(v, y, (n - 1) + 1)
    BY <1>2, <2>1, <2>2, BlocksGrow
  <2> QED BY <2>1, <2>2, <2>3 DEF Gathered
<1>7. SameThread(wr[s], s) /\ StreamOf(wr[s]) = Stream(s)
  BY <1>1 DEF SameThread, Stream
<1>12. w = IF chunk THEN Push(wr[s], Write(got)) ELSE wr[s]
  BY DEF TakenWr
<1> HIDE DEF v, n, got, d, w
<1>10. d.next - 1 = n /\ n <= n /\ n \in 0..Size
  BY <1>2, <1>4, Constants
<1>11. ~wr[s].stop => y < n /\ y <= n /\ got = Blocks(v, y, n)
  BY <1>2, <1>6
<1>8. CASE ~chunk
  <2>1. w = wr[s] /\ d.pend = got
    BY <1>4, <1>8, <1>12
  <2>2. ASSUME ~w.stop
        PROVE  /\ y <= d.next - 1 /\ d.next - 1 <= Size
               /\ d.pend = Blocks(d.ver, y, d.next - 1)
    BY <1>2, <1>4, <1>10, <1>11, <2>1, <2>2
  <2>3. Carries(StreamOf(w), d.ver, d.md5, s \in faulted, Len(part), y)
    BY <1>4, <1>5, <1>7, <2>1 DEF v
  <2> QED BY <1>1, <1>2, <1>4, <1>7, <2>1, <2>2, <2>3 DEF Taking, v, n, d, w
<1>9. CASE chunk
  <2>1. w = Push(wr[s], Write(got)) /\ d.pend = <<>> /\ ~wr[s].stop
    BY <1>4, <1>9, <1>12
  <2>2. Write(got) \in Acts /\ Write(got).op = "write" /\ Write(got).data = got
    BY <1>3, ActsMade DEF Write
  <2>3. SameThread(w, s) /\ StreamOf(w) = Append(Stream(s), Write(got))
    BY <1>7, <2>1, <2>2, Queues
  <2>4. n \in 0..Size /\ y < n /\ d.next - 1 = n /\ got = Blocks(v, y, n)
    BY <1>10, <1>11, <2>1
  <2>5. Carries(StreamOf(w), d.ver, d.md5, s \in faulted, Len(part), n)
    <3>1. CarriesOne(Write(got), d.ver, d.md5, s \in faulted, y, n)
      BY <1>4, <2>2, <2>4 DEF CarriesOne
    <3>2. Carries(Stream(s), d.ver, d.md5, s \in faulted, Len(part), y)
      BY <1>4, <1>5 DEF v
    <3> QED BY <1>1, <2>2, <2>3, <2>4, <3>1, <3>2, CarriesMore
  <2>6. n <= d.next - 1 /\ d.next - 1 <= Size /\ d.pend = Blocks(d.ver, n, d.next - 1)
    BY <1>2, <1>4, <1>10, <2>1, NoBlocks
  <2>7. /\ TruncatesFirst(StreamOf(w))
        /\ Truncating(Stream(s)) => Truncating(StreamOf(w))
    BY <1>1, <2>2, <2>3, AppendedStream
  <2> QED BY <1>2, <1>4, <2>1, <2>3, <2>4, <2>5, <2>6, <2>7 DEF Taking, v, n, d, w
<1> QED BY <1>8, <1>9

\* The end of the body: what is left, and FINISH, are queued.
LEMMA Completing ==
  ASSUME DownloadInv, NEW s \in Sessions, Alive(s), dl[s].pc = "body", NEW d, NEW w,
         Taking(d, w, s, s \in faulted), Complete(s, d, w),
         faulted' = faulted \/ faulted' = faulted \cup {s},
         ~w.stop => (d.md5 /\ s \in faulted') \/ d.next - 1 = Size,
         UNCHANGED <<disk, owner, chan, world, done>>
  PROVE  DownloadInv'
<1>a. PICK f \in BOOLEAN : f = (s \in faulted')
  <2>1. (s \in faulted') \in BOOLEAN
    OBVIOUS
  <2> WITNESS (s \in faulted') \in BOOLEAN
  <2> QED OBVIOUS
<1> DEFINE c == IF d.pend = <<>> THEN w ELSE Push(w, Write(d.pend))
           e == Push(c, Finish)
           o == Over(d)
<1>0. /\ dl[s] \in DlRecords /\ wr[s] \in WrRecords /\ Stream(s) \in Seq(Acts)
      /\ InBody(s) /\ Versioned(s) /\ dl[s].pc \in Working
  BY LoopFacts DEF Working
<1>1. /\ d \in DlRecords /\ d.ver = dl[s].ver /\ d.md5 = dl[s].md5
      /\ SameThread(w, s) /\ TruncatesFirst(StreamOf(w)) /\ StreamOf(w) \in Seq(Acts)
      /\ wr[s].stop /\ HasContent(StreamOf(w)) => HasContent(Stream(s))
      /\ Truncating(Stream(s)) => Truncating(StreamOf(w))
      /\ w.stop = wr[s].stop
  BY StreamFacts DEF Taking, SameThread
<1>2. d.ver \in Versions /\ d.pend \in Seq(Block)
  BY <1>0, <1>1 DEF InBody, DlRecords
<1>3. Write(d.pend) \in Acts /\ Write(d.pend).op = "write" /\ Write(d.pend).data = d.pend
      /\ Finish \in Acts /\ Finish.op = "finish"
  BY <1>2, ActsMade DEF Write, Finish
<1>4. /\ SameThread(c, s)
      /\ StreamOf(c) = IF w.stop \/ d.pend = <<>> THEN StreamOf(w)
                       ELSE Append(StreamOf(w), Write(d.pend))
  BY <1>1, <1>3, Queues
<1> HIDE DEF c
<1>5. /\ SameThread(e, s)
      /\ StreamOf(e) = IF w.stop THEN StreamOf(c) ELSE Append(StreamOf(c), Finish)
  <2>1. /\ SameThread(e, s)
        /\ StreamOf(e) = IF c.stop THEN StreamOf(c) ELSE Append(StreamOf(c), Finish)
    BY <1>3, <1>4, Queues
  <2> QED BY <1>1, <1>4, <2>1 DEF SameThread
<1>6. o \in DlRecords /\ o.pc = "over" /\ o.ver = d.ver /\ o.md5 = d.md5
  BY <1>1, OverFacts
<1>7. /\ dl' = [dl EXCEPT ![s] = o] /\ wr' = [wr EXCEPT ![s] = e]
      /\ finished' = finished \cup {s}
  BY DEF Complete, Completed, c
<1> HIDE DEF e, o
<1>8. UNCHANGED <<part, meta, dest, blind, cur>> /\ DiskSafe' /\ blind' \in BOOLEAN
  BY DiskKept DEF world
<1>9. StreamOf(c) \in Seq(Acts)
  BY <1>4, StreamFacts DEF SameThread
<1>10. PICK y \in 0..Size :
         /\ Carries(StreamOf(w), d.ver, d.md5, f, Len(part), y)
         /\ ~w.stop => /\ y <= d.next - 1 /\ d.next - 1 <= Size
                       /\ d.pend = Blocks(d.ver, y, d.next - 1)
  <2>1. PICK y \in 0..Size :
          /\ Carries(StreamOf(w), d.ver, d.md5, s \in faulted, Len(part), y)
          /\ ~w.stop => /\ y <= d.next - 1 /\ d.next - 1 <= Size
                        /\ d.pend = Blocks(d.ver, y, d.next - 1)
    BY DEF Taking
  <2>2. f = TRUE \/ f = (s \in faulted)
    BY <1>a
  <2>3. Carries(StreamOf(w), d.ver, d.md5, f, Len(part), y)
    BY <2>1, <2>2, CarriesFaulted
  <2> QED BY <2>1, <2>3
<1>11. ASSUME ~w.stop PROVE Carries(StreamOf(e), d.ver, d.md5, f, Len(part), d.next - 1)
  <2>0. PICK n \in 0..Size : n = d.next - 1
    <3>1. d.next \in Nat
      BY <1>1 DEF DlRecords
    <3>2. y <= d.next - 1 /\ d.next - 1 <= Size
      BY <1>10, <1>11
    <3> QED BY <3>1, <3>2, Constants
  <2>1. y <= n /\ n <= Size /\ d.pend = Blocks(d.ver, y, n) /\ y \in Nat /\ n \in Nat
    <3>1. y \in Nat /\ n \in Nat
      OBVIOUS
    <3>2. /\ y <= d.next - 1 /\ d.next - 1 <= Size
          /\ d.pend = Blocks(d.ver, y, d.next - 1)
      BY <1>10, <1>11
    <3>3. y <= n /\ n <= Size
      BY <2>0, <3>2
    <3>4. d.pend = Blocks(d.ver, y, n)
      BY <2>0, <3>2
    <3> QED BY <3>1, <3>3, <3>4
  <2>2. d.pend = <<>> <=> y = n
    <3>1. n - y \in Nat /\ Len(Blocks(d.ver, y, n)) = n - y
      <4>1. n - y \in Nat
        BY <2>1
      <4>2. Run(Blocks(d.ver, y, n), d.ver, y, n - y)
        BY <1>2, <2>1, BlocksAre
      <4> QED BY <4>1, <4>2 DEF Run
    <3>2. y = n => d.pend = <<>>
      BY <2>1, NoBlocks
    <3>3. d.pend = <<>> => n - y = 0
      BY <2>1, <3>1, EmptyFacts
    <3> QED BY <2>1, <3>2, <3>3
  <2>3. Carries(StreamOf(c), d.ver, d.md5, f, Len(part), n)
    <3>1. CASE d.pend = <<>>
      BY <1>4, <1>10, <2>2, <3>1
    <3>2. CASE d.pend # <<>>
      <4>1. y < n
        BY <2>1, <2>2, <3>2
      <4>2. CarriesOne(Write(d.pend), d.ver, d.md5, f, y, n)
        BY <1>3, <2>1, <4>1 DEF CarriesOne
      <4> QED BY <1>1, <1>3, <1>4, <1>10, <1>11, <3>2, <4>2, CarriesMore
    <3> QED BY <3>1, <3>2
  <2>4. (d.md5 /\ f) \/ n = Size
    BY <1>a, <1>11, <2>0
  <2>5. CarriesOne(Finish, d.ver, d.md5, f, n, n)
    BY <1>3, <2>4 DEF CarriesOne
  <2> QED BY <1>3, <1>5, <1>9, <1>11, <2>0, <2>3, <2>5, CarriesMore
<1>12. \E z \in 0..Size : Carries(StreamOf(e), d.ver, d.md5, f, Len(part), z)
  <2>1. CASE w.stop
    BY <1>4, <1>5, <1>10, <2>1
  <2>2. CASE ~w.stop
    <3>1. StreamOf(e) \in Seq(Acts)
      BY <1>5, StreamFacts DEF SameThread
    <3> QED BY <1>11, <2>2, <3>1, CarriesTo
  <2> QED BY <2>1, <2>2
<1>13. /\ Truncating(Stream(s)) => Truncating(StreamOf(e))
       /\ TruncatesFirst(StreamOf(e))
       /\ wr[s].stop /\ HasContent(StreamOf(e)) => HasContent(Stream(s))
  <2>1. /\ Truncating(Stream(s)) => Truncating(StreamOf(c))
        /\ TruncatesFirst(StreamOf(c))
    BY <1>1, <1>3, <1>4, AppendedStream
  <2>2. /\ Truncating(Stream(s)) => Truncating(StreamOf(e))
        /\ TruncatesFirst(StreamOf(e))
    BY <1>3, <1>5, <1>9, <2>1, AppendedStream
  <2> QED BY <1>1, <1>4, <1>5, <2>2
<1>14. ASSUME dl'[s] = o, wr'[s] = e
       PROVE  (Flows(s) /\ TruncatesFirst(Stream(s)) /\ Versioned(s) /\ Unanswered(s))'
  <2>1. Stream(s)' = StreamOf(e) /\ (s \in faulted') = f
    BY <1>a, <1>14 DEF Stream
  <2>2. Flows(s)'
    BY <1>6, <1>8, <1>12, <1>14, <2>1 DEF Flows, Follows
  <2>3. Versioned(s)'
    <3> SUFFICES ASSUME Receiving(s)'
                 PROVE  (/\ dl[s].ver \in Versions /\ meta <= dl[s].ver /\ dl[s].ver <= cur
                         /\ Match(s) \/ Truncating(Stream(s)))'
      BY DEF Versioned
    <3>1. Receiving(s)
      BY <1>6, <1>13, <1>14, <2>1 DEF Receiving
    <3>2. Match(s) => Match(s)'
      BY <1>1, <1>6, <1>8, <1>14 DEF Match
    <3> QED BY <1>0, <1>1, <1>6, <1>8, <1>13, <1>14, <2>1, <3>1, <3>2 DEF Versioned
  <2>4. Unanswered(s)'
    BY <1>6, <1>14 DEF Unanswered, Early
  <2> QED BY <1>13, <2>1, <2>2, <2>3, <2>4
<1>15. o.pc \notin {"new", "asked"} /\ o.pc # "body"
  BY <1>6
<1> QED BY <1>0, <1>5, <1>6, <1>7, <1>8, <1>14, <1>15, LoopStep

\* The body goes on.
LEMMA GoingOn ==
  ASSUME DownloadInv, NEW s \in Sessions, Alive(s), dl[s].pc = "body", NEW d, NEW w,
         Taking(d, w, s, s \in faulted), d.pc = "body",
         dl' = [dl EXCEPT ![s] = d], wr' = [wr EXCEPT ![s] = w],
         UNCHANGED <<disk, owner, chan, world, finished, done, faulted>>
  PROVE  DownloadInv'
<1>0. InBody(s) /\ Versioned(s) /\ dl[s].pc \in Working
  BY LoopFacts DEF Working
<1>1. /\ d \in DlRecords /\ d.ver = dl[s].ver /\ d.md5 = dl[s].md5 /\ d.next > 0
      /\ SameThread(w, s) /\ TruncatesFirst(StreamOf(w))
      /\ wr[s].stop /\ HasContent(StreamOf(w)) => HasContent(Stream(s))
      /\ Truncating(Stream(s)) => Truncating(StreamOf(w))
      /\ w.stop = wr[s].stop
  BY DEF Taking, SameThread
<1>2. UNCHANGED <<part, meta, dest, blind, cur>> /\ DiskSafe' /\ blind' \in BOOLEAN
  BY DiskKept DEF world
<1>3. d.ver \in Versions
  BY <1>0, <1>1 DEF InBody
<1>4. ASSUME dl'[s] = d, wr'[s] = w
      PROVE  (Flows(s) /\ TruncatesFirst(Stream(s)) /\ Versioned(s) /\ Unanswered(s))'
  <2>1. Stream(s)' = StreamOf(w) /\ (s \in faulted') = (s \in faulted)
    BY <1>4 DEF Stream
  <2>2. Flows(s)'
    BY <1>2, <1>4, <2>1 DEF Taking, Flows, Follows
  <2>3. Versioned(s)'
    <3> SUFFICES ASSUME Receiving(s)'
                 PROVE  (/\ dl[s].ver \in Versions /\ meta <= dl[s].ver /\ dl[s].ver <= cur
                         /\ Match(s) \/ Truncating(Stream(s)))'
      BY DEF Versioned
    <3>1. Receiving(s)
      BY <1>1, <1>4, <2>1 DEF Receiving
    <3>2. Match(s) => Match(s)'
      BY <1>1, <1>2, <1>4 DEF Match
    <3> QED BY <1>0, <1>1, <1>2, <1>4, <2>1, <3>1, <3>2 DEF Versioned
  <2>4. Unanswered(s)'
    BY <1>4 DEF Unanswered, Early
  <2> QED BY <1>1, <2>1, <2>2, <2>3, <2>4
<1> QED BY <1>0, <1>1, <1>2, <1>3, <1>4, LoopStep

LEMMA Receives ==
  ASSUME DownloadInv, NEW s \in Sessions, RecvBlock(s)
  PROVE  DownloadInv'
<1> DEFINE chunk == Len(Gathered(s)) = Chunk
           d == TakenDl(s, chunk)
           w == TakenWr(s, chunk)
<1>1. /\ Alive(s) /\ dl[s].pc = "body" /\ dl[s].next <= Size
      /\ chunk => ~wr[s].stop
      /\ UNCHANGED <<disk, owner, chan, world, done, faulted>>
      /\ IF d.next > Size /\ ~d.md5
         THEN Complete(s, d, w)
         ELSE dl' = [dl EXCEPT ![s] = d] /\ wr' = [wr EXCEPT ![s] = w] /\ finished' = finished
  BY DEF RecvBlock, Gathered, TakenDl, TakenWr
<1>2. chunk \in BOOLEAN
  OBVIOUS
<1>3. dl[s].next \in Nat
  BY <1>1, LoopFacts DEF Working, DlRecords
<1> HIDE DEF chunk
<1>4. Taking(d, w, s, s \in faulted) /\ d.pc = "body" /\ d.next = dl[s].next + 1
  BY <1>1, <1>2, TakesBlock
<1> HIDE DEF d, w
<1>5. CASE d.next > Size /\ ~d.md5
  <2>1. d.next - 1 = Size
    BY <1>1, <1>3, <1>4, <1>5, Constants
  <2> QED BY <1>1, <1>4, <1>5, <2>1, Completing
<1>6. CASE ~(d.next > Size /\ ~d.md5)
  BY <1>1, <1>4, <1>6, GoingOn
<1> QED BY <1>5, <1>6

LEMMA Disconnecting ==
  ASSUME DownloadInv, NEW s \in Sessions, DisconnectEnds(s)
  PROVE  DownloadInv'
<1>1. /\ Alive(s) /\ dl[s].pc = "body" /\ dl[s].md5 /\ Complete(s, dl[s], wr[s])
      /\ faulted' = IF dl[s].next <= Size THEN faulted \cup {s} ELSE faulted
      /\ UNCHANGED <<disk, owner, chan, world, done>>
  BY DEF DisconnectEnds
<1>2. /\ dl[s] \in DlRecords /\ wr[s] \in WrRecords /\ Stream(s) \in Seq(Acts)
      /\ InBody(s) /\ Flows(s) /\ TruncatesFirst(Stream(s))
  BY <1>1, LoopFacts DEF Working
<1>3. Taking(dl[s], wr[s], s, s \in faulted)
  BY <1>1, <1>2 DEF Taking, SameThread, Stream, InBody, Flows, Follows
<1>4. ~wr[s].stop => (dl[s].md5 /\ s \in faulted') \/ dl[s].next - 1 = Size
  <2>1. ~wr[s].stop => dl[s].next - 1 <= Size
    BY <1>1, <1>2 DEF Flows, Follows
  <2>2. dl[s].next \in Nat
    BY <1>2 DEF DlRecords
  <2> QED BY <1>1, <2>1, <2>2, Constants
<1> QED BY <1>1, <1>3, <1>4, Completing

LEMMA LoopKeeps ==
  ASSUME DownloadInv, NEW s \in Sessions, Loop(s) \/ Accept(s)
  PROVE  DownloadInv'
<1>1. CASE Accept(s)
  BY <1>1, Creating, Asking, MovingSteps, LaunchRefused DEF Accept
<1>2. CASE Loop(s)
  <2>1. CASE Connected(s) \/ FollowRedirect(s)
    BY <2>1, MovingSteps
  <2>2. CASE ConnectFails(s) \/ AnswerFails(s) \/ RecvOverflow(s) \/ DisconnectFails(s) \/ Guard(s)
    <3>1. Alive(s) /\ dl[s].pc \in Working /\ Faulty(s)
      BY <2>2 DEF ConnectFails, AnswerFails, RecvOverflow, DisconnectFails, Guard, Asked,
                  Working, Early
    <3> QED BY <3>1, Failing
  <2>3. CASE \E m \in BOOLEAN : Answer200(s, m)
    BY <2>3, Answering200
  <2>4. CASE Answer206(s) \/ RestartOnce(s)
    BY <2>4, Answering206, Restarting
  <2>5. CASE RecvBlock(s) \/ DisconnectEnds(s)
    BY <2>5, Receives, Disconnecting
  <2> QED BY <1>2, <2>1, <2>2, <2>3, <2>4, <2>5 DEF Loop
<1> QED BY <1>1, <1>2

-----------------------------------------------------------------------------
(***************************************************************************)
(* The writer                                                              *)
(***************************************************************************)

LEMMA WriterFacts ==
  ASSUME DownloadInv, NEW s \in Sessions, handle = s
  PROVE  /\ claim = s /\ dl \in [Sessions -> DlRecords] /\ wr \in [Sessions -> WrRecords]
         /\ dl[s] \in DlRecords /\ wr[s] \in WrRecords /\ Stream(s) \in Seq(Acts)
         /\ wr[s].pc \in Open /\ dl[s].pc \notin {"new", "asked"}
         /\ Acting(s) /\ InBody(s) /\ Reasoned(s)
         /\ Flows(s) /\ TruncatesFirst(Stream(s)) /\ Versioned(s) /\ Unanswered(s)
<1>1. claim = s /\ dl \in [Sessions -> DlRecords] /\ wr \in [Sessions -> WrRecords]
  BY Constants DEF DownloadInv, Types, RestOK
<1>2. wr[s].pc \in Open
  BY SessionFacts DEF HandleHeld
<1>3. dl[s].pc \notin {"new", "asked"}
  BY <1>2, SessionFacts, NewFacts DEF Untouched, Open
<1> QED BY <1>1, <1>2, <1>3, SessionFacts

\* The action at the head of what is to come.  All but a truncation and an ABORT come
\* after an answer, and by then .part is a beginning of the answer's version.
LEMMA Ahead ==
  ASSUME DownloadInv, NEW s \in Sessions, handle = s, Stream(s) # <<>>
  PROVE  /\ Head(Stream(s)) \in Acts /\ Tail(Stream(s)) \in Seq(Acts)
         /\ TruncatesFirst(Tail(Stream(s)))
         /\ HasContent(Tail(Stream(s))) => HasContent(Stream(s))
         /\ OnlyTruncates(Stream(s)) => OnlyTruncates(Tail(Stream(s)))
         /\ \E z, y \in 0..Size :
              /\ CarriesOne(Head(Stream(s)), dl[s].ver, dl[s].md5, s \in faulted, Len(part), z)
              /\ Carries(Tail(Stream(s)), dl[s].ver, dl[s].md5, s \in faulted, z, y)
              /\ Follows(s, y)
         /\ Head(Stream(s)).op \notin {"truncate", "abort"} =>
              /\ Match(s) /\ dl[s].pc \notin Early
              /\ dl[s].ver \in Versions /\ meta <= dl[s].ver /\ dl[s].ver <= cur
<1>1. /\ Stream(s) \in Seq(Acts) /\ Flows(s) /\ TruncatesFirst(Stream(s)) /\ Versioned(s)
      /\ Unanswered(s)
  BY WriterFacts
<1>2. /\ Tail(Stream(s)) \in Seq(Acts) /\ Head(Stream(s)) \in Acts
      /\ HasContent(Tail(Stream(s))) => HasContent(Stream(s))
      /\ Head(Stream(s)).op \notin {"truncate", "abort"} => HasContent(Stream(s))
      /\ TruncatesFirst(Tail(Stream(s)))
      /\ OnlyTruncates(Stream(s)) => OnlyTruncates(Tail(Stream(s)))
  BY <1>1, RestOfStream
<1>3. PICK y \in 0..Size :
        /\ Carries(Stream(s), dl[s].ver, dl[s].md5, s \in faulted, Len(part), y)
        /\ Follows(s, y)
  BY <1>1 DEF Flows
<1>4. PICK z \in 0..Size :
        /\ CarriesOne(Head(Stream(s)), dl[s].ver, dl[s].md5, s \in faulted, Len(part), z)
        /\ Carries(Tail(Stream(s)), dl[s].ver, dl[s].md5, s \in faulted, z, y)
  BY <1>1, <1>3, CarriesLess
<1>5. ASSUME Head(Stream(s)).op \notin {"truncate", "abort"}
      PROVE  /\ Match(s) /\ dl[s].pc \notin Early
             /\ dl[s].ver \in Versions /\ meta <= dl[s].ver /\ dl[s].ver <= cur
  <2>1. Receiving(s) /\ ~Truncating(Stream(s))
    BY <1>2, <1>5 DEF Receiving, Truncating
  <2>2. 0 \notin Versions
    BY DEF Versions
  <2> QED BY <1>1, <2>1, <2>2 DEF Versioned, Unanswered
<1> QED BY <1>2, <1>3, <1>4, <1>5

\* An action taken.
LEMMA Takes ==
  ASSUME DownloadInv, NEW s \in Sessions, NEW op, Take(s, op)
  PROVE  /\ handle = s /\ wr[s].pc = "wait" /\ ~wr[s].stop /\ wr[s].act = <<>>
         /\ wr[s].q \in Seq(Acts) /\ wr[s].q # <<>>
         /\ Stream(s) = wr[s].q /\ Stream(s) # <<>> /\ Head(Stream(s)).op = op
<1>1. /\ wr[s].pc = "wait" /\ ~wr[s].stop /\ wr[s].q # <<>> /\ Head(wr[s].q).op = op
  BY DEF Take
<1>2. wr[s] \in WrRecords /\ handle = s /\ wr[s].act = <<>>
  BY <1>1, SessionFacts DEF HandleHeld, Acting, Open
<1>3. Stream(s) = wr[s].q
  BY <1>2, StreamFacts DEF Stream
<1> QED BY <1>1, <1>2, <1>3 DEF WrRecords

LEMMA TakenFacts ==
  ASSUME DownloadInv, NEW s \in Sessions, wr[s].q \in Seq(Acts), wr[s].q # <<>>,
         NEW pc \in WrPlaces
  PROVE  /\ Taken(s, pc) \in WrRecords
         /\ Taken(s, pc).pc = pc /\ Taken(s, pc).q = Tail(wr[s].q)
         /\ Taken(s, pc).act = <<Head(wr[s].q)>>
         /\ Taken(s, pc).stop = wr[s].stop /\ Taken(s, pc).res = wr[s].res
<1> DEFINE a == Head(wr[s].q)
           t == Tail(wr[s].q)
           b == wr[s].bytes - Len(a.data)
<1>1. wr[s] \in WrRecords /\ a \in Acts /\ t \in Seq(Acts)
  BY SessionFacts, HeadTailProperties
<1>2. Taken(s, pc) = [wr[s] EXCEPT !.pc = pc, !.q = t, !.bytes = b, !.act = <<a>>]
  BY DEF Taken
<1>3. b \in Int
  <2>1. Len(a.data) \in Nat
    BY <1>1, LenProperties DEF Acts
  <2> QED BY <1>1, <2>1 DEF WrRecords
<1>4. <<a>> \in Seq(Acts)
  BY <1>1
<1> HIDE DEF a, t, b
<1>5. /\ Taken(s, pc) \in WrRecords
      /\ Taken(s, pc).pc = pc /\ Taken(s, pc).q = t /\ Taken(s, pc).act = <<a>>
      /\ Taken(s, pc).stop = wr[s].stop /\ Taken(s, pc).res = wr[s].res
  BY <1>1, <1>2, <1>3, <1>4 DEF WrRecords
<1> QED BY <1>5 DEF a, t

\* The action at the head has been carried out.
LEMMA CarriedOut ==
  ASSUME DownloadInv, NEW s \in Sessions, handle = s, Stream(s) # <<>>,
         NEW w \in WrRecords, w.pc = "wait", w.act = <<>>, w.q = Tail(Stream(s)),
         w.stop = wr[s].stop, w.res = wr[s].res, wr' = [wr EXCEPT ![s] = w],
         UNCHANGED <<dest, owner, chan, world, dl, finished, done, faulted>>,
         part' \in Seq(Block), meta' \in 0..MaxVer, blind' \in BOOLEAN, DiskSafe',
         NEW y \in 0..Size,
         Carries(Tail(Stream(s)), dl[s].ver, dl[s].md5, s \in faulted, Len(part'), y),
         Follows(s, y),
         Receiving(s) =>
           /\ dl[s].ver \in Versions /\ meta' <= dl[s].ver /\ dl[s].ver <= cur
           /\ (blind' /\ ~dl[s].md5) \/ part' = Blocks(dl[s].ver, 0, Len(part')),
         dl[s].pc \in Early => part' = <<>>
  PROVE  DownloadInv'
<1>0. /\ dl \in [Sessions -> DlRecords] /\ dl[s] \in DlRecords
      /\ dl[s].pc \notin {"new", "asked"} /\ InBody(s) /\ Unanswered(s)
  BY WriterFacts
<1>1. /\ TruncatesFirst(Tail(Stream(s)))
      /\ HasContent(Tail(Stream(s))) => HasContent(Stream(s))
      /\ OnlyTruncates(Stream(s)) => OnlyTruncates(Tail(Stream(s)))
  BY Ahead
<1>2. dl' = [dl EXCEPT ![s] = dl[s]] /\ cur' = cur
  BY <1>0 DEF world
<1>3. StreamOf(w) = Tail(Stream(s))
  BY StreamFacts
<1>4. ASSUME dl'[s] = dl[s], wr'[s] = w
      PROVE  (Flows(s) /\ TruncatesFirst(Stream(s)) /\ Versioned(s) /\ Unanswered(s))'
  <2>1. Stream(s)' = Tail(Stream(s)) /\ (s \in faulted') = (s \in faulted)
    BY <1>3, <1>4 DEF Stream
  <2>2. Flows(s)'
    BY <1>4, <2>1 DEF Flows, Follows
  <2>3. Receiving(s)' => Receiving(s)
    BY <1>1, <1>4, <2>1 DEF Receiving
  <2>4. Versioned(s)'
    BY <1>2, <1>4, <2>3 DEF Versioned, Match
  <2>5. Unanswered(s)'
    BY <1>0, <1>1, <1>4, <2>1 DEF Unanswered
  <2> QED BY <1>1, <2>1, <2>2, <2>4, <2>5
<1>5. dl[s].pc = "body" => dl[s].ver \in Versions /\ dl[s].next > 0
  BY <1>0 DEF InBody
<1> QED BY <1>0, <1>2, <1>4, <1>5, HeldStep DEF Open

\* The action at the head has been taken; the sidecar may have been emptied.
LEMMA Begun ==
  ASSUME DownloadInv, NEW s \in Sessions, TakeWrite(s) \/ MetaCreate(s)
  PROVE  DownloadInv'
<1> DEFINE pc == IF TakeWrite(s) THEN "write" ELSE "meta"
           w  == Taken(s, pc)
<1>1. /\ Take(s, IF TakeWrite(s) THEN "write" ELSE "meta")
      /\ wr' = [wr EXCEPT ![s] = w] /\ (meta' = meta \/ meta' = 0)
      /\ UNCHANGED <<part, dest, blind, owner, chan, world, dl, finished, done, faulted>>
  BY DEF TakeWrite, MetaCreate, disk
<1>2. pc \in {"write", "meta"} /\ pc \in WrPlaces /\ Take(s, pc)
  BY <1>1 DEF WrPlaces
<1> HIDE DEF pc
<1>3. /\ handle = s /\ wr[s].act = <<>> /\ wr[s].q \in Seq(Acts) /\ wr[s].q # <<>>
      /\ Stream(s) = wr[s].q /\ Stream(s) # <<>> /\ Head(Stream(s)).op = pc
  BY <1>2, Takes
<1>4. /\ w \in WrRecords /\ w.pc = pc /\ w.q = Tail(wr[s].q) /\ w.act = <<Head(wr[s].q)>>
      /\ w.stop = wr[s].stop /\ w.res = wr[s].res
  BY <1>2, <1>3, TakenFacts
<1> HIDE DEF w
<1>5. StreamOf(w) = Stream(s)
  BY <1>3, <1>4, StreamTaken DEF StreamOf
<1>6. /\ dl \in [Sessions -> DlRecords] /\ dl[s] \in DlRecords
      /\ dl[s].pc \notin {"new", "asked"} /\ InBody(s) /\ Unanswered(s)
      /\ Flows(s) /\ TruncatesFirst(Stream(s)) /\ Versioned(s)
  BY <1>3, WriterFacts
<1>7. part \in Seq(Block) /\ meta \in 0..MaxVer /\ blind \in BOOLEAN /\ cur \in Versions
  BY DEF DownloadInv, Types, RestOK
<1>8. UNCHANGED <<part, blind, cur>> /\ meta' \in 0..MaxVer /\ meta' <= meta
  BY <1>1, <1>7, Constants DEF world
<1>9. DiskSafe'
  <2>1. \A v \in Versions : meta <= v => meta' <= v
    BY <1>7, <1>8 DEF Versions
  <2>2. meta' <= cur
    BY <1>7, <2>1 DEF DownloadInv, DiskSafe
  <2> QED BY <1>8, <2>1, <2>2 DEF DownloadInv, DiskSafe
<1>10. dl' = [dl EXCEPT ![s] = dl[s]]
  BY <1>1, <1>6
<1>11. ASSUME dl'[s] = dl[s], wr'[s] = w
       PROVE  (Flows(s) /\ TruncatesFirst(Stream(s)) /\ Versioned(s) /\ Unanswered(s))'
  <2>1. Stream(s)' = Stream(s) /\ (s \in faulted') = (s \in faulted)
    BY <1>1, <1>5, <1>11 DEF Stream
  <2>2. Flows(s)'
    BY <1>4, <1>6, <1>8, <1>11, <2>1 DEF Flows, Follows
  <2>3. Versioned(s)'
    <3>1. Receiving(s)' => Receiving(s)
      BY <1>4, <1>11, <2>1 DEF Receiving
    <3>2. dl[s].ver \in Versions /\ meta <= dl[s].ver => meta' <= dl[s].ver
      BY <1>7, <1>8 DEF Versions
    <3>3. Match(s) => Match(s)'
      BY <1>8, <1>11 DEF Match
    <3> QED BY <1>6, <1>8, <1>11, <2>1, <3>1, <3>2, <3>3 DEF Versioned
  <2>4. Unanswered(s)'
    BY <1>3, <1>4, <1>6, <1>8, <1>11, <2>1 DEF Unanswered
  <2> QED BY <1>6, <2>1, <2>2, <2>3, <2>4
<1>12. Len(w.act) = 1 /\ w.act[1].op = pc
  BY <1>3, <1>4
<1>13. dl[s].pc = "body" => dl[s].ver \in Versions /\ dl[s].next > 0
  BY <1>6 DEF InBody
<1> QED BY <1>1, <1>2, <1>3, <1>4, <1>6, <1>7, <1>8, <1>9, <1>10, <1>11, <1>12, <1>13, HeldStep
        DEF Open

\* The action under way is at the head of what is to come.
LEMMA UnderWay ==
  ASSUME DownloadInv, NEW s \in Sessions, wr[s].pc \in {"write", "cancelled", "meta"}
  PROVE  /\ handle = s /\ Stream(s) # <<>>
         /\ Head(Stream(s)) = wr[s].act[1] /\ Tail(Stream(s)) = wr[s].q
         /\ Head(Stream(s)).op = IF wr[s].pc = "meta" THEN "meta" ELSE "write"
         /\ wr[s].q \in Seq(Acts)
<1>1. /\ wr[s] \in WrRecords /\ handle = s /\ Len(wr[s].act) = 1
      /\ wr[s].act[1].op = IF wr[s].pc = "meta" THEN "meta" ELSE "write"
  BY SessionFacts DEF HandleHeld, Acting, Open
<1> QED BY <1>1, StreamFacts DEF Stream, WrRecords

\* The rest of the action queue once one is done.
LEMMA DoneWith ==
  ASSUME DownloadInv, NEW s \in Sessions, wr[s].pc \in {"write", "cancelled", "meta"}
  PROVE  LET w == [wr[s] EXCEPT !.pc = "wait", !.act = <<>>]
         IN  /\ w \in WrRecords /\ w.pc = "wait" /\ w.act = <<>> /\ w.q = wr[s].q
             /\ w.stop = wr[s].stop /\ w.res = wr[s].res
BY SessionFacts, EmptyFacts DEF WrRecords, WrPlaces

LEMMA TakenWith ==
  ASSUME DownloadInv, NEW s \in Sessions, wr[s].q \in Seq(Acts), wr[s].q # <<>>
  PROVE  LET w == [Taken(s, "wait") EXCEPT !.act = <<>>]
         IN  /\ w \in WrRecords /\ w.pc = "wait" /\ w.act = <<>> /\ w.q = Tail(wr[s].q)
             /\ w.stop = wr[s].stop /\ w.res = wr[s].res
<1> DEFINE c == Taken(s, "wait")
<1>1. /\ c \in WrRecords /\ c.pc = "wait" /\ c.q = Tail(wr[s].q)
      /\ c.stop = wr[s].stop /\ c.res = wr[s].res
  BY TakenFacts DEF WrPlaces
<1> HIDE DEF c
<1>2. LET w == [c EXCEPT !.act = <<>>]
      IN  /\ w \in WrRecords /\ w.pc = "wait" /\ w.act = <<>> /\ w.q = Tail(wr[s].q)
          /\ w.stop = wr[s].stop /\ w.res = wr[s].res
  BY <1>1, EmptyFacts DEF WrRecords
<1> QED BY <1>2 DEF c

\* A beginning of a write: .part goes on where the version does.
LEMMA Written ==
  ASSUME DownloadInv, NEW v \in Versions, NEW z \in 0..Size, Len(part) < z,
         NEW n \in Nat, Len(part) + n <= z
  PROVE  LET new == part \o SubSeq(Blocks(v, Len(part), z), 1, n)
         IN  /\ new \in Seq(Block) /\ Len(new) = Len(part) + n
             /\ part = Blocks(v, 0, Len(part)) => new = Blocks(v, 0, Len(new))
<1> DEFINE b == SubSeq(Blocks(v, Len(part), z), 1, n)
<1>1. PICK x \in Nat : x = Len(part)
  BY LenProperties DEF DownloadInv, Types, RestOK
<1>2. part \in Seq(Block)
  BY DEF DownloadInv, Types, RestOK
<1>3. z \in Nat /\ x <= z /\ z <= Size /\ x + n <= z /\ x + n \in Nat /\ x <= x + n
      /\ x + n <= Size /\ 0 <= x /\ (x + n) - x = n
  <2>1. x < z /\ x + n <= z
    BY <1>1
  <2>2. z \in Nat /\ z <= Size /\ Size \in Nat
    BY Constants
  <2> QED BY <2>1, <2>2
<1>4. b = Blocks(v, x, x + n)
  <2>1. SubSeq(Blocks(v, x, z), 1, n) = Blocks(v, x, x + n)
    BY <1>3, BlocksStart
  <2> QED BY <1>1, <2>1
<1> HIDE DEF b
<1>5. b \in Seq(Block) /\ Len(b) = n
  <2>1. Run(Blocks(v, x, x + n), v, x, (x + n) - x)
    BY <1>3, BlocksAre
  <2> QED BY <1>3, <1>4, <2>1 DEF Run
<1>6. part \o b \in Seq(Block) /\ Len(part \o b) = Len(part) + Len(b)
  BY <1>2, <1>5, ConcatProperties
<1>7. Blocks(v, 0, x) \o Blocks(v, x, x + n) = Blocks(v, 0, x + n)
  BY <1>3, BlocksJoin
<1>8. part = Blocks(v, 0, Len(part)) => part \o b = Blocks(v, 0, Len(part \o b))
  BY <1>1, <1>4, <1>5, <1>6, <1>7
<1> QED BY <1>5, <1>6, <1>8 DEF b

LEMMA Writes ==
  ASSUME DownloadInv, NEW s \in Sessions, WriteDone(s)
  PROVE  DownloadInv'
<1> DEFINE w == [wr[s] EXCEPT !.pc = "wait", !.act = <<>>]
           v == dl[s].ver
<1>1. /\ wr[s].pc \in {"write", "cancelled"} /\ part' = part \o wr[s].act[1].data
      /\ wr' = [wr EXCEPT ![s] = w]
      /\ UNCHANGED <<meta, dest, blind, owner, chan, world, dl, finished, done, faulted>>
  BY DEF WriteDone
<1>2. /\ w \in WrRecords /\ w.pc = "wait" /\ w.act = <<>> /\ w.q = wr[s].q
      /\ w.stop = wr[s].stop /\ w.res = wr[s].res
  BY <1>1, DoneWith
<1> HIDE DEF w
<1>3. /\ handle = s /\ Stream(s) # <<>>
      /\ Head(Stream(s)) = wr[s].act[1] /\ Tail(Stream(s)) = wr[s].q
      /\ Head(Stream(s)).op = "write"
  BY <1>1, UnderWay
<1>4. PICK z \in 0..Size, y \in 0..Size :
        /\ CarriesOne(Head(Stream(s)), v, dl[s].md5, s \in faulted, Len(part), z)
        /\ Carries(Tail(Stream(s)), v, dl[s].md5, s \in faulted, z, y)
        /\ Follows(s, y)
  BY <1>3, Ahead
<1>5. /\ Match(s) /\ dl[s].pc \notin Early
      /\ v \in Versions /\ meta <= v /\ v <= cur
  BY <1>3, Ahead
<1>6. Len(part) < z /\ wr[s].act[1].data = Blocks(v, Len(part), z)
  BY <1>3, <1>4 DEF CarriesOne
<1>7. PICK n \in Nat : Len(part) + n = z
  <2>1. Len(part) \in Nat /\ z \in Nat
    BY LenProperties DEF DownloadInv, Types, RestOK
  <2>2. z - Len(part) \in Nat /\ Len(part) + (z - Len(part)) = z
    BY <1>6, <2>1
  <2> QED BY <2>2
<1> HIDE DEF v
<1>8. SubSeq(Blocks(v, Len(part), z), 1, n) = Blocks(v, Len(part), z)
  <2>1. Len(part) \in Nat /\ z \in Nat /\ Len(part) <= z /\ z <= Size /\ z - Len(part) = n
    BY <1>6, <1>7, LenProperties, Constants DEF DownloadInv, Types, RestOK
  <2>2. Len(Blocks(v, Len(part), z)) = n /\ Blocks(v, Len(part), z) \in Seq(Block)
    BY <1>5, <2>1, BlocksAre DEF Run
  <2> QED BY <2>2, SubSeqFull
<1>9. /\ part' \in Seq(Block) /\ Len(part') = z
      /\ part = Blocks(v, 0, Len(part)) => part' = Blocks(v, 0, Len(part'))
  <2>1. Len(part) + n <= z
    BY <1>7
  <2>2. part' = part \o SubSeq(Blocks(v, Len(part), z), 1, n)
    BY <1>1, <1>6, <1>8
  <2>3. LET new == part \o SubSeq(Blocks(v, Len(part), z), 1, n)
        IN  /\ new \in Seq(Block) /\ Len(new) = Len(part) + n
            /\ part = Blocks(v, 0, Len(part)) => new = Blocks(v, 0, Len(new))
    BY <1>5, <1>6, <2>1, Written
  <2> QED BY <1>7, <2>2, <2>3
<1>10. UNCHANGED <<meta, blind, cur>> /\ meta' \in 0..MaxVer /\ blind' \in BOOLEAN
  BY <1>1 DEF DownloadInv, Types, RestOK, world
<1>11. (blind /\ ~dl[s].md5) \/ part' = Blocks(v, 0, Len(part'))
  BY <1>5, <1>9 DEF Match, v
<1>12. DiskSafe'
  <2>1. z <= Size /\ part' # <<>>
    <3>1. Len(part) \in Nat
      BY LenProperties DEF DownloadInv, Types, RestOK
    <3> QED BY <1>6, <1>9, <3>1, EmptyFacts, Constants
  <2>2. meta <= cur
    BY DEF DownloadInv, DiskSafe
  <2> QED BY <1>5, <1>9, <1>10, <1>11, <2>1, <2>2 DEF DiskSafe
<1>13. /\ Carries(Tail(Stream(s)), dl[s].ver, dl[s].md5, s \in faulted, Len(part'), y)
       /\ dl[s].ver \in Versions /\ meta' <= dl[s].ver /\ dl[s].ver <= cur
       /\ (blind' /\ ~dl[s].md5) \/ part' = Blocks(dl[s].ver, 0, Len(part'))
       /\ w.q = Tail(Stream(s))
  BY <1>2, <1>3, <1>4, <1>5, <1>9, <1>10, <1>11 DEF v
<1> QED BY <1>1, <1>2, <1>3, <1>4, <1>5, <1>9, <1>10, <1>12, <1>13, CarriedOut

LEMMA Truncates ==
  ASSUME DownloadInv, NEW s \in Sessions, TakeTruncate(s)
  PROVE  DownloadInv'
<1> DEFINE w == [Taken(s, "wait") EXCEPT !.act = <<>>]
<1>1. /\ Take(s, "truncate") /\ part' = <<>> /\ blind' = FALSE
      /\ wr' = [wr EXCEPT ![s] = w]
      /\ UNCHANGED <<meta, dest, owner, chan, world, dl, finished, done, faulted>>
  BY DEF TakeTruncate
<1>2. /\ handle = s /\ wr[s].q \in Seq(Acts) /\ wr[s].q # <<>>
      /\ Stream(s) = wr[s].q /\ Stream(s) # <<>> /\ Head(Stream(s)).op = "truncate"
  BY <1>1, Takes
<1>3. /\ w \in WrRecords /\ w.pc = "wait" /\ w.act = <<>> /\ w.q = Tail(wr[s].q)
      /\ w.stop = wr[s].stop /\ w.res = wr[s].res
  BY <1>2, TakenWith
<1> HIDE DEF w
<1>4. PICK z \in 0..Size, y \in 0..Size :
        /\ CarriesOne(Head(Stream(s)), dl[s].ver, dl[s].md5, s \in faulted, Len(part), z)
        /\ Carries(Tail(Stream(s)), dl[s].ver, dl[s].md5, s \in faulted, z, y)
        /\ Follows(s, y)
  BY <1>2, Ahead
<1>5. z = 0 /\ Len(part') = 0 /\ part' \in Seq(Block)
  BY <1>1, <1>2, <1>4, EmptyFacts DEF CarriesOne
<1>6. meta' = meta /\ cur' = cur /\ meta' \in 0..MaxVer /\ Versioned(s)
  BY <1>1, <1>2, WriterFacts DEF DownloadInv, Types, RestOK, world
<1>7. DiskSafe'
  BY <1>1, <1>5, <1>6, Constants DEF DownloadInv, DiskSafe
<1>8. Receiving(s) =>
        /\ dl[s].ver \in Versions /\ meta' <= dl[s].ver /\ dl[s].ver <= cur
        /\ part' = Blocks(dl[s].ver, 0, Len(part'))
  BY <1>1, <1>5, <1>6, NoBlocks DEF Versioned
<1> QED BY <1>1, <1>2, <1>3, <1>4, <1>5, <1>6, <1>7, <1>8, CarriedOut

\* The sidecar is written, or not: the version it names is the one of .part.
LEMMA Names ==
  ASSUME DownloadInv, NEW s \in Sessions, MetaFails(s) \/ MetaWrite(s)
  PROVE  DownloadInv'
<1>1. PICK w \in WrRecords :
        /\ w.pc = "wait" /\ w.act = <<>> /\ w.q = Tail(Stream(s))
        /\ w.stop = wr[s].stop /\ w.res = wr[s].res
        /\ wr' = [wr EXCEPT ![s] = w]
        /\ handle = s /\ Stream(s) # <<>> /\ Head(Stream(s)).op = "meta"
        /\ meta' \in {meta, 0, Head(Stream(s)).ver}
        /\ UNCHANGED <<part, dest, blind, owner, chan, world, dl, finished, done, faulted>>
  <2>1. CASE MetaFails(s)
    <3> DEFINE w == [Taken(s, "wait") EXCEPT !.act = <<>>]
    <3>1. /\ Take(s, "meta") /\ wr' = [wr EXCEPT ![s] = w] /\ meta' = meta
          /\ UNCHANGED <<part, dest, blind, owner, chan, world, dl, finished, done, faulted>>
      BY <2>1 DEF MetaFails, disk
    <3>2. /\ handle = s /\ wr[s].q \in Seq(Acts) /\ wr[s].q # <<>>
          /\ Stream(s) = wr[s].q /\ Stream(s) # <<>> /\ Head(Stream(s)).op = "meta"
      BY <3>1, Takes
    <3>3. /\ w \in WrRecords /\ w.pc = "wait" /\ w.act = <<>> /\ w.q = Tail(wr[s].q)
          /\ w.stop = wr[s].stop /\ w.res = wr[s].res
      BY <3>2, TakenWith
    <3> HIDE DEF w
    <3> QED BY <3>1, <3>2, <3>3
  <2>2. CASE MetaWrite(s)
    <3> DEFINE w == [wr[s] EXCEPT !.pc = "wait", !.act = <<>>]
    <3>1. /\ wr[s].pc = "meta" /\ meta' \in {wr[s].act[1].ver, 0}
          /\ wr' = [wr EXCEPT ![s] = w]
          /\ UNCHANGED <<part, dest, blind, owner, chan, world, dl, finished, done, faulted>>
      BY <2>2 DEF MetaWrite
    <3>2. /\ w \in WrRecords /\ w.pc = "wait" /\ w.act = <<>> /\ w.q = wr[s].q
          /\ w.stop = wr[s].stop /\ w.res = wr[s].res
      BY <3>1, DoneWith
    <3> HIDE DEF w
    <3>3. /\ handle = s /\ Stream(s) # <<>>
          /\ Head(Stream(s)) = wr[s].act[1] /\ Tail(Stream(s)) = wr[s].q
          /\ Head(Stream(s)).op = "meta"
      BY <3>1, UnderWay
    <3> QED BY <3>1, <3>2, <3>3
  <2> QED BY <2>1, <2>2
<1>2. PICK z \in 0..Size, y \in 0..Size :
        /\ CarriesOne(Head(Stream(s)), dl[s].ver, dl[s].md5, s \in faulted, Len(part), z)
        /\ Carries(Tail(Stream(s)), dl[s].ver, dl[s].md5, s \in faulted, z, y)
        /\ Follows(s, y)
  BY <1>1, Ahead
<1>3. /\ Match(s) /\ dl[s].pc \notin Early
      /\ dl[s].ver \in Versions /\ meta <= dl[s].ver /\ dl[s].ver <= cur
  BY <1>1, Ahead
<1>4. z = Len(part) /\ Head(Stream(s)).ver = dl[s].ver
  BY <1>1, <1>2 DEF CarriesOne
<1>5. part \in Seq(Block) /\ meta \in 0..MaxVer /\ blind \in BOOLEAN /\ cur \in Versions
  BY DEF DownloadInv, Types, RestOK
<1>6. UNCHANGED <<part, blind, cur>> /\ meta' \in 0..MaxVer /\ meta' <= dl[s].ver /\ meta' <= cur
  BY <1>1, <1>3, <1>4, <1>5, Constants DEF world, Versions
<1>7. (blind /\ ~dl[s].md5) \/ part = Blocks(dl[s].ver, 0, Len(part))
  BY <1>3 DEF Match
<1>8. DiskSafe'
  BY <1>3, <1>6, <1>7 DEF DownloadInv, DiskSafe
<1>9. /\ Carries(Tail(Stream(s)), dl[s].ver, dl[s].md5, s \in faulted, Len(part'), y)
      /\ (blind' /\ ~dl[s].md5) \/ part' = Blocks(dl[s].ver, 0, Len(part'))
      /\ part' \in Seq(Block) /\ blind' \in BOOLEAN
  BY <1>2, <1>4, <1>5, <1>6, <1>7
<1> QED BY <1>1, <1>2, <1>3, <1>6, <1>8, <1>9, CarriedOut

\* .part is closed.
LEMMA Closes ==
  ASSUME DownloadInv, NEW s \in Sessions, handle = s,
         NEW w \in WrRecords, w.pc \in {"deliver", "closed"}, wr' = [wr EXCEPT ![s] = w],
         w.stop = wr[s].stop, w.res = wr[s].res \/ w.res = "fail",
         w.res = "fail" => s \in faulted',
         w.pc = "closed" => blind' \/ \E v \in Versions : part' = Whole(v),
         handle' = NoOne, finished' = finished \cup {s},
         UNCHANGED <<dest, claim, sessions, chan, world, dl, done>>,
         faulted' = faulted \/ faulted' = faulted \cup {s},
         part' \in Seq(Block), meta' \in 0..MaxVer, blind' \in BOOLEAN, DiskSafe'
  PROVE  DownloadInv'
<1>0. /\ claim = s /\ dl \in [Sessions -> DlRecords] /\ dl[s] \in DlRecords
      /\ wr[s].pc \in Open /\ dl[s].pc \notin {"new", "asked"} /\ InBody(s) /\ Reasoned(s)
  BY WriterFacts
<1>1. done[s] = "none"
  BY <1>0, SessionFacts DEF Answered, Open
<1>2. RestOK'
  BY DEF DownloadInv, Types, RestOK, chan, world
<1>3. dl' = [dl EXCEPT ![s] = dl[s]] /\ cur' = cur
  BY <1>0 DEF world
<1>4. Handover(s)
  BY DEF Handover
<1>5. ASSUME dl'[s] = dl[s], wr'[s] = w PROVE SessionOK(s)'
  <2>1. handle' # s
    BY Constants
  <2>2. HandleHeld(s)'
    BY <1>0, <1>5, <2>1 DEF HandleHeld, Open
  <2>3. Untouched(s)' /\ Answered(s)' /\ Acting(s)' /\ InBody(s)'
    BY <1>0, <1>1, <1>5 DEF Untouched, Answered, Acting, InBody
  <2>4. PartHeld(s)' /\ ClosedWhole(s)'
    BY <1>5, <2>1 DEF PartHeld, ClosedWhole
  <2>5. Reasoned(s)'
    BY <1>0, <1>1, <1>5 DEF Reasoned
  <2> QED BY <2>2, <2>3, <2>4, <2>5 DEF SessionOK, OwnAt
<1> QED BY <1>0, <1>2, <1>3, <1>4, <1>5, SessionStep

\* Close
LEMMA CloseFails ==
  ASSUME DownloadInv, NEW s \in Sessions, handle = s, Close(s, "fail"), s \in faulted',
         faulted' = faulted \/ faulted' = faulted \cup {s},
         UNCHANGED <<dest, claim, sessions, chan, world, dl, done>>,
         part' \in Seq(Block), meta' \in 0..MaxVer, blind' \in BOOLEAN, DiskSafe'
  PROVE  DownloadInv'
<1> DEFINE w == [wr[s] EXCEPT !.pc = "deliver", !.res = "fail"]
<1>1. wr[s] \in WrRecords
  BY SessionFacts
<1>2. w \in WrRecords /\ w.pc = "deliver" /\ w.res = "fail" /\ w.stop = wr[s].stop
  BY <1>1 DEF WrRecords, WrPlaces, Results
<1>3. wr' = [wr EXCEPT ![s] = w] /\ handle' = NoOne /\ finished' = finished \cup {s}
  BY DEF Close
<1> HIDE DEF w
<1> QED BY <1>2, <1>3, Closes

LEMMA PartiallyWritten ==
  ASSUME DownloadInv, NEW s \in Sessions, WriteFails(s)
  PROVE  DownloadInv'
<1>1. PICK n \in 0..Len(wr[s].act[1].data)-1 : part' = part \o SubSeq(wr[s].act[1].data, 1, n)
  BY DEF WriteFails
<1>2. /\ wr[s].pc \in {"write", "cancelled"} /\ Close(s, "fail") /\ faulted' = faulted \cup {s}
      /\ UNCHANGED <<meta, dest, blind, claim, sessions, chan, world, dl, done>>
  BY DEF WriteFails
<1>3. /\ handle = s /\ Stream(s) # <<>> /\ Head(Stream(s)) = wr[s].act[1]
      /\ Head(Stream(s)).op = "write"
  BY <1>2, UnderWay
<1>4. PICK z \in 0..Size :
        CarriesOne(Head(Stream(s)), dl[s].ver, dl[s].md5, s \in faulted, Len(part), z)
  BY <1>3, Ahead
<1>5. PICK v \in Versions : v = dl[s].ver /\ Match(s) /\ meta <= v /\ v <= cur
  BY <1>3, Ahead
<1>6. Len(part) < z /\ wr[s].act[1].data = Blocks(v, Len(part), z)
  BY <1>3, <1>4, <1>5 DEF CarriesOne
<1>7. PICK x \in Nat : x = Len(part)
  BY LenProperties DEF DownloadInv, Types, RestOK
<1>8. z \in Nat /\ x < z /\ z <= Size /\ x <= z
  BY <1>6, <1>7, Constants
<1>9. Len(wr[s].act[1].data) = z - x
  <2>1. Run(Blocks(v, x, z), v, x, z - x)
    BY <1>8, BlocksAre
  <2> QED BY <1>6, <1>7, <2>1 DEF Run
<1>10. n \in Nat /\ x + n <= z /\ x + n \in Nat /\ x + n <= Size
  BY <1>1, <1>8, <1>9, Constants
<1>11. LET new == part \o SubSeq(Blocks(v, Len(part), z), 1, n)
       IN  /\ new \in Seq(Block) /\ Len(new) = Len(part) + n
           /\ part = Blocks(v, 0, Len(part)) => new = Blocks(v, 0, Len(new))
  BY <1>6, <1>7, <1>10, Written
<1>12. /\ part' \in Seq(Block) /\ Len(part') = x + n
       /\ part = Blocks(v, 0, Len(part)) => part' = Blocks(v, 0, Len(part'))
  BY <1>1, <1>6, <1>7, <1>11
<1>13. UNCHANGED <<meta, blind, cur>> /\ meta' \in 0..MaxVer /\ blind' \in BOOLEAN
  BY <1>2 DEF DownloadInv, Types, RestOK, world
<1>14. blind \/ part' = Blocks(v, 0, Len(part'))
  BY <1>5, <1>12 DEF Match
<1>15. DiskSafe'
  <2>1. Len(part') <= Size /\ meta' <= cur'
    BY <1>10, <1>12, <1>13 DEF DownloadInv, DiskSafe
  <2>2. blind => part' # <<>>
    <3>1. blind => x # 0
      BY <1>7, EmptySeq DEF DownloadInv, DiskSafe, Types, RestOK
    <3>2. x # 0 => x + n # 0
      BY <1>10
    <3> QED BY <1>12, <3>1, <3>2, EmptyFacts
  <2> QED BY <1>5, <1>13, <1>14, <2>1, <2>2 DEF DiskSafe
<1> QED BY <1>2, <1>3, <1>12, <1>13, <1>15, CloseFails

LEMMA GivesUp ==
  ASSUME DownloadInv, NEW s \in Sessions,
         TruncateFails(s) \/ TakeAbort(s) \/ WriterStops(s)
  PROVE  DownloadInv'
<1>1. /\ Close(s, "fail") /\ UNCHANGED <<disk, claim, sessions, chan, world, dl, done>>
      /\ faulted' = faulted \/ faulted' = faulted \cup {s}
  BY DEF TruncateFails, TakeAbort, WriterStops
<1>2. handle = s /\ s \in faulted'
  <2>1. CASE TruncateFails(s)
    BY <2>1, Takes DEF TruncateFails
  <2>2. CASE TakeAbort(s)
    <3>1. handle = s /\ Stream(s) # <<>> /\ Head(Stream(s)).op = "abort" /\ faulted' = faulted
      BY <2>2, Takes DEF TakeAbort
    <3>2. PICK z \in 0..Size :
            CarriesOne(Head(Stream(s)), dl[s].ver, dl[s].md5, s \in faulted, Len(part), z)
      BY <3>1, Ahead
    <3> QED BY <3>1, <3>2 DEF CarriesOne
  <2>3. CASE WriterStops(s)
    BY <2>3, SessionFacts DEF WriterStops, HandleHeld, Open, Reasoned
  <2> QED BY <2>1, <2>2, <2>3
<1>3. DiskSafe' /\ UNCHANGED <<part, meta, dest, blind>> /\ part' \in Seq(Block)
      /\ meta' \in 0..MaxVer /\ blind' \in BOOLEAN
  BY <1>1, DiskKept DEF world
<1> QED BY <1>1, <1>2, <1>3, CloseFails

\* FINISH comes when .part has the whole length, or else there is a digest and
\* something went wrong.
LEMMA AtFinish ==
  ASSUME DownloadInv, NEW s \in Sessions, Take(s, "finish")
  PROVE  /\ handle = s /\ dl[s].ver \in Versions
         /\ Match(s) /\ ((dl[s].md5 /\ s \in faulted) \/ Len(part) = Size)
<1>1. handle = s /\ Stream(s) # <<>> /\ Head(Stream(s)).op = "finish"
  BY Takes
<1>2. PICK z \in 0..Size :
        CarriesOne(Head(Stream(s)), dl[s].ver, dl[s].md5, s \in faulted, Len(part), z)
  BY <1>1, Ahead
<1>3. Match(s) /\ dl[s].ver \in Versions
  BY <1>1, Ahead
<1> QED BY <1>1, <1>2, <1>3 DEF CarriesOne

LEMMA BadDigest ==
  ASSUME DownloadInv, NEW s \in Sessions, FinishBad(s)
  PROVE  DownloadInv'
<1>1. /\ Take(s, "finish") /\ dl[s].md5 /\ part # Whole(dl[s].ver)
      /\ part' = <<>> /\ meta' = 0 /\ blind' = FALSE /\ Close(s, "fail")
      /\ UNCHANGED <<dest, claim, sessions, chan, world, dl, done, faulted>>
  BY DEF FinishBad
<1>2. handle = s /\ Match(s) /\ ((dl[s].md5 /\ s \in faulted) \/ Len(part) = Size)
  BY <1>1, AtFinish
<1>3. s \in faulted'
  <2>1. part = Blocks(dl[s].ver, 0, Len(part))
    BY <1>1, <1>2 DEF Match
  <2> QED BY <1>1, <1>2, <2>1, AllBlocks
<1>4. part' \in Seq(Block) /\ meta' \in 0..MaxVer /\ blind' \in BOOLEAN /\ Len(part') = 0
  <2>1. 0 \in 0..MaxVer
    BY Constants
  <2> QED BY <1>1, <2>1, EmptyFacts
<1>5. DiskSafe'
  <2>1. cur \in Versions /\ cur' = cur
    BY <1>1 DEF DownloadInv, Types, RestOK, world
  <2> QED BY <1>1, <1>4, <2>1, Constants DEF DiskSafe, Versions
<1> QED BY <1>1, <1>2, <1>3, <1>4, <1>5, CloseFails

\* What is closed to be renamed is one whole version.
LEMMA GoodFinish ==
  ASSUME DownloadInv, NEW s \in Sessions, FinishClose(s)
  PROVE  DownloadInv'
<1> DEFINE w == [wr[s] EXCEPT !.pc = "closed", !.q = <<>>]
<1>1. /\ Take(s, "finish") /\ (~dl[s].md5 \/ part = Whole(dl[s].ver))
      /\ wr' = [wr EXCEPT ![s] = w] /\ handle' = NoOne /\ finished' = finished \cup {s}
      /\ UNCHANGED <<disk, claim, sessions, chan, world, dl, done, faulted>>
  BY DEF FinishClose
<1>2. handle = s /\ dl[s].ver \in Versions
      /\ Match(s) /\ ((dl[s].md5 /\ s \in faulted) \/ Len(part) = Size)
  BY <1>1, AtFinish
<1>3. wr[s] \in WrRecords /\ Reasoned(s)
  BY SessionFacts
<1>4. w \in WrRecords /\ w.pc = "closed" /\ w.res = wr[s].res /\ w.stop = wr[s].stop
  BY <1>3, EmptyFacts DEF WrRecords, WrPlaces
<1> HIDE DEF w
<1>5. DiskSafe' /\ UNCHANGED <<part, meta, dest, blind>> /\ part' \in Seq(Block)
      /\ meta' \in 0..MaxVer /\ blind' \in BOOLEAN
  BY <1>1, DiskKept DEF world
<1>6. blind \/ part = Whole(dl[s].ver)
  BY <1>1, <1>2, AllBlocks DEF Match
<1>7. w.res = "fail" => s \in faulted'
  BY <1>1, <1>3, <1>4 DEF Reasoned
<1> QED BY <1>1, <1>2, <1>4, <1>5, <1>6, <1>7, Closes

-----------------------------------------------------------------------------
\* After .part is closed: a step of the session that has the claim.
LEMMA ClosedStep ==
  ASSUME DownloadInv, NEW s \in Sessions, wr[s].pc \in Closing,
         NEW d \in DlRecords, NEW w \in WrRecords,
         dl' = [dl EXCEPT ![s] = d], wr' = [wr EXCEPT ![s] = w],
         d = dl[s] \/ d.pc = "over",
         w.pc \in {"renamed", "deliver", "release"} \/ (w.pc = "gone" /\ d.pc = "over"),
         w.stop = wr[s].stop \/ ~w.stop, w.res = "fail" => s \in faulted',
         UNCHANGED <<handle, chan, world, finished>>,
         claim' = claim \/ (w.pc = "gone" /\ claim' = NoOne),
         sessions' = sessions \/ sessions' = sessions \ {s},
         done' = done \/ (w.pc = "gone" /\ done' = [done EXCEPT ![s] = wr[s].res]),
         faulted' = faulted \/ faulted' = faulted \cup {s},
         part' \in Seq(Block), meta' \in 0..MaxVer, dest' \in Seq(Block), blind' \in BOOLEAN,
         DiskSafe'
  PROVE  DownloadInv'
<1>0. /\ claim = s /\ handle = NoOne /\ Answered(s) /\ InBody(s) /\ Reasoned(s)
      /\ HandleHeld(s) /\ Untouched(s) /\ wr[s].res \in Results
  BY SessionFacts DEF HandleHeld, WrRecords
<1>1. done[s] = "none" /\ dl[s].pc \notin {"new", "asked"}
  BY <1>0, NewFacts DEF Answered, Untouched, Closing
<1>2. done \in [Sessions -> {"none", "ok", "fail", "crash"}]
  BY DEF DownloadInv, Types, RestOK
<1>3. RestOK'
  <2>1. done' \in [Sessions -> {"none", "ok", "fail", "crash"}]
    BY <1>0, <1>2 DEF Results
  <2>2. claim' \in Sessions \cup {NoOne} /\ handle' = NoOne
    BY <1>0
  <2> QED BY <2>1, <2>2 DEF DownloadInv, Types, RestOK, chan, world
<1>4. Handover(s) /\ cur' = cur
  BY <1>0 DEF Handover, world
<1>5. \A r \in Sessions \ {s} : /\ done'[r] = done[r]
                                /\ r \in finished' <=> r \in finished
                                /\ r \in sessions' <=> r \in sessions
                                /\ r \in faulted' <=> r \in faulted
  BY <1>2
<1>6. ASSUME dl'[s] = d, wr'[s] = w PROVE SessionOK(s)'
  <2>1. handle' = NoOne /\ handle' # s
    BY <1>0, Constants
  <2>2. HandleHeld(s)'
    BY <1>0, <1>6, <2>1 DEF HandleHeld, Open, Closing, Working, Early
  <2>3. Untouched(s)'
    BY <1>1, <1>6 DEF Untouched
  <2>4. Answered(s)'
    BY <1>1, <1>6 DEF Answered
  <2>5. Acting(s)' /\ InBody(s)'
    BY <1>0, <1>6 DEF Acting, InBody
  <2>6. PartHeld(s)' /\ ClosedWhole(s)'
    BY <1>6, <2>1 DEF PartHeld, ClosedWhole
  <2>7. Reasoned(s)'
    BY <1>0, <1>2, <1>6 DEF Reasoned
  <2> QED BY <2>2, <2>3, <2>4, <2>5, <2>6, <2>7 DEF SessionOK, OwnAt
<1> QED BY <1>0, <1>3, <1>4, <1>5, <1>6, SessionStep

LEMMA Delivers ==
  ASSUME DownloadInv, NEW s \in Sessions,
         \/ FinishRename(s) \/ RenameFails(s) \/ FinishMeta(s) \/ Unregister(s) \/ Answer(s)
  PROVE  DownloadInv'
<1>0. /\ dl \in [Sessions -> DlRecords] /\ wr \in [Sessions -> WrRecords]
      /\ dl[s] \in DlRecords /\ wr[s] \in WrRecords /\ Reasoned(s) /\ HandleHeld(s)
      /\ part \in Seq(Block) /\ dest \in Seq(Block) /\ meta \in 0..MaxVer /\ blind \in BOOLEAN
      /\ cur \in Versions /\ DiskSafe
  BY SessionFacts DEF DownloadInv, Types, RestOK
<1>1. CASE FinishRename(s)
  <2> DEFINE w == [wr[s] EXCEPT !.pc = "renamed"]
  <2>1. /\ wr[s].pc = "closed" /\ dest' = part /\ part' = <<>> /\ blind' = FALSE
        /\ wr' = [wr EXCEPT ![s] = w]
        /\ UNCHANGED <<meta, owner, chan, world, dl, finished, done, faulted>>
    BY <1>1 DEF FinishRename
  <2>2. w \in WrRecords /\ w.pc = "renamed" /\ w.res = wr[s].res /\ w.stop = wr[s].stop
    BY <1>0 DEF WrRecords, WrPlaces
  <2> HIDE DEF w
  <2>3. part' \in Seq(Block) /\ Len(part') = 0 /\ UNCHANGED <<handle, claim, sessions, cur>>
    BY <2>1, EmptyFacts DEF owner, world
  <2>4. DiskSafe'
    BY <1>0, <2>1, <2>3, Constants DEF DiskSafe
  <2>5. dl' = [dl EXCEPT ![s] = dl[s]] /\ (w.res = "fail" => s \in faulted')
    BY <1>0, <2>1, <2>2 DEF Reasoned
  <2> QED BY <1>0, <2>1, <2>2, <2>3, <2>4, <2>5, ClosedStep DEF Closing
<1>2. CASE RenameFails(s)
  <2> DEFINE w == [wr[s] EXCEPT !.pc = "deliver", !.res = "fail"]
  <2>1. /\ wr[s].pc = "closed" /\ wr' = [wr EXCEPT ![s] = w]
        /\ faulted' = IF handle = NoOne THEN faulted \cup {s} ELSE faulted
        /\ UNCHANGED <<disk, owner, chan, world, dl, finished, done>>
    BY <1>2 DEF RenameFails
  <2>2. w \in WrRecords /\ w.pc = "deliver" /\ w.res = "fail" /\ w.stop = wr[s].stop
    BY <1>0 DEF WrRecords, WrPlaces, Results
  <2> HIDE DEF w
  <2>3. s \in faulted' /\ faulted' = faulted \cup {s}
    BY <1>0, <2>1 DEF HandleHeld, Closing
  <2>4. UNCHANGED <<handle, claim, sessions>> /\ dl' = [dl EXCEPT ![s] = dl[s]]
    BY <1>0, <2>1 DEF owner
  <2>5. DiskSafe' /\ UNCHANGED <<part, meta, dest, blind>>
    BY <2>1, DiskKept DEF world
  <2> QED BY <1>0, <2>1, <2>2, <2>3, <2>4, <2>5, ClosedStep DEF Closing
<1>3. CASE FinishMeta(s)
  <2> DEFINE w == [wr[s] EXCEPT !.pc = "deliver", !.res = "ok"]
  <2>1. /\ wr[s].pc = "renamed" /\ meta' = 0 /\ wr' = [wr EXCEPT ![s] = w]
        /\ UNCHANGED <<part, dest, blind, owner, chan, world, dl, finished, done, faulted>>
    BY <1>3 DEF FinishMeta
  <2>2. w \in WrRecords /\ w.pc = "deliver" /\ w.res = "ok" /\ w.stop = wr[s].stop
    BY <1>0 DEF WrRecords, WrPlaces, Results
  <2> HIDE DEF w
  <2>3. UNCHANGED <<handle, claim, sessions, cur>> /\ dl' = [dl EXCEPT ![s] = dl[s]]
    BY <1>0, <2>1 DEF owner, world
  <2>4. meta' \in 0..MaxVer /\ \A v \in Versions : meta' <= v
    BY <2>1, Constants DEF Versions
  <2>5. DiskSafe'
    BY <1>0, <2>1, <2>3, <2>4 DEF DiskSafe
  <2> QED BY <1>0, <2>1, <2>2, <2>3, <2>4, <2>5, ClosedStep DEF Closing
<1>4. CASE Unregister(s)
  <2> DEFINE w == [wr[s] EXCEPT !.pc = "release"]
  <2>1. /\ wr[s].pc = "deliver" /\ sessions' = sessions \ {s} /\ wr' = [wr EXCEPT ![s] = w]
        /\ UNCHANGED <<disk, handle, claim, chan, world, dl, finished, done, faulted>>
    BY <1>4 DEF Unregister
  <2>2. w \in WrRecords /\ w.pc = "release" /\ w.res = wr[s].res /\ w.stop = wr[s].stop
    BY <1>0 DEF WrRecords, WrPlaces
  <2> HIDE DEF w
  <2>3. dl' = [dl EXCEPT ![s] = dl[s]] /\ (w.res = "fail" => s \in faulted')
    BY <1>0, <2>1, <2>2 DEF Reasoned
  <2>4. DiskSafe' /\ UNCHANGED <<part, meta, dest, blind>>
    BY <2>1, DiskKept DEF world
  <2> QED BY <1>0, <2>1, <2>2, <2>3, <2>4, ClosedStep DEF Closing
<1>5. CASE Answer(s)
  <2> DEFINE w == [NewWr EXCEPT !.pc = "gone"]
             d == [NewDl EXCEPT !.pc = "over"]
  <2>1. /\ wr[s].pc = "release" /\ claim' = NoOne /\ done' = [done EXCEPT ![s] = wr[s].res]
        /\ wr' = [wr EXCEPT ![s] = w] /\ dl' = [dl EXCEPT ![s] = d]
        /\ UNCHANGED <<disk, handle, sessions, chan, world, finished, faulted>>
    BY <1>5 DEF Answer
  <2>2. w \in WrRecords /\ w.pc = "gone" /\ w.res = "none" /\ w.stop = FALSE
    BY NewFacts DEF WrRecords, WrPlaces
  <2>3. d \in DlRecords /\ d.pc = "over"
    BY NewFacts DEF DlRecords, DlPlaces
  <2> HIDE DEF w, d
  <2>4. DiskSafe' /\ UNCHANGED <<part, meta, dest, blind>>
    BY <2>1, DiskKept DEF world
  <2> QED BY <1>0, <2>1, <2>2, <2>3, <2>4, ClosedStep DEF Closing
<1> QED BY <1>1, <1>2, <1>3, <1>4, <1>5

LEMMA WriterKeeps ==
  ASSUME DownloadInv, NEW s \in Sessions, Writer(s)
  PROVE  DownloadInv'
<1>1. CASE TakeWrite(s) \/ MetaCreate(s)
  BY <1>1, Begun
<1>2. CASE WriteDone(s) \/ WriteFails(s)
  BY <1>2, Writes, PartiallyWritten
<1>3. CASE TakeTruncate(s) \/ MetaFails(s) \/ MetaWrite(s)
  BY <1>3, Truncates, Names
<1>4. CASE TruncateFails(s) \/ TakeAbort(s) \/ WriterStops(s)
  BY <1>4, GivesUp
<1>5. CASE FinishBad(s) \/ FinishClose(s)
  BY <1>5, BadDigest, GoodFinish
<1>6. CASE \/ FinishRename(s) \/ RenameFails(s) \/ FinishMeta(s) \/ Unregister(s) \/ Answer(s)
  BY <1>6, Delivers
<1> QED BY <1>1, <1>2, <1>3, <1>4, <1>5, <1>6 DEF Writer

-----------------------------------------------------------------------------
(***************************************************************************)
(* Shutdown and the world                                                  *)
(***************************************************************************)

\* Steps that are about no session.
LEMMA ChannelKeeps ==
  ASSUME DownloadInv, ShutdownBegins \/ Drained \/ NewVersion \/ UNCHANGED vars
  PROVE  DownloadInv'
<1>1. /\ UNCHANGED <<part, meta, dest, blind, handle, claim, sessions, dl, wr, finished, done,
                     faulted>>
      /\ RestOK'
  <2>1. UNCHANGED <<part, meta, dest, blind, handle, claim, sessions, dl, wr, finished, done,
                    faulted>>
    BY DEF ShutdownBegins, Drained, NewVersion, vars, disk, owner
  <2>2. RestOK
    BY DEF DownloadInv, Types
  <2>3. cur' \in Versions
    <3>1. cur' = cur \/ (cur < MaxVer /\ cur' = cur + 1)
      BY DEF ShutdownBegins, Drained, NewVersion, vars, world
    <3> QED BY <2>2, <3>1, Constants DEF RestOK, Versions
  <2>4. ends' \in 0..MaxEnds
    <3>1. ends' = ends \/ (ends < MaxEnds /\ ends' = ends + 1)
      BY DEF ShutdownBegins, Drained, NewVersion, vars, world
    <3> QED BY <2>2, <3>1, DownloadAssumption DEF RestOK
  <2>5. running' \in BOOLEAN /\ shut' \in {"no", "ask", "drain", "again", "last", "down"}
    BY <2>2 DEF RestOK, ShutdownBegins, Drained, NewVersion, vars, chan
  <2> QED BY <2>1, <2>2, <2>3, <2>4, <2>5 DEF RestOK
<1>2. /\ cur \in Versions /\ cur' \in Versions /\ cur <= cur'
  BY <1>1 DEF DownloadInv, Types, RestOK, ShutdownBegins, Drained, NewVersion, vars, world,
              Versions
<1>3. DiskSafe'
  <2>1. \A v \in 0..MaxVer : v <= cur => v <= cur'
    BY <1>2 DEF Versions
  <2>2. meta \in 0..MaxVer /\ Versions \subseteq 0..MaxVer /\ DiskSafe
    BY Constants DEF DownloadInv, Types, RestOK
  <2> QED BY <1>1, <2>1, <2>2 DEF DiskSafe
<1>4. ASSUME NEW s \in Sessions PROVE SessionOK(s)'
  <2>1. OwnAt(s) /\ PartHeld(s) /\ ClosedWhole(s) /\ Reasoned(s)
    BY DEF DownloadInv, SessionOK
  <2>2. OwnAt(s)' /\ ClosedWhole(s)' /\ Reasoned(s)'
    BY <1>1, <2>1 DEF OwnAt, HandleHeld, Untouched, Answered, Acting, InBody, ClosedWhole,
                      Reasoned
  <2>3. PartHeld(s)'
    <3> SUFFICES ASSUME handle' = s
                 PROVE (Flows(s) /\ TruncatesFirst(Stream(s)) /\ Versioned(s) /\ Unanswered(s))'
      BY DEF PartHeld
    <3>1. Flows(s) /\ TruncatesFirst(Stream(s)) /\ Versioned(s) /\ Unanswered(s)
      BY <1>1, <2>1 DEF PartHeld
    <3>2. Stream(s)' = Stream(s)
      BY <1>1 DEF Stream
    <3>3. Flows(s)' /\ Unanswered(s)'
      BY <1>1, <3>1, <3>2 DEF Flows, Follows, Unanswered
    <3>4. Versioned(s)'
      BY <1>1, <1>2, <3>1, <3>2 DEF Versioned, Receiving, Match, Versions
    <3> QED BY <3>1, <3>2, <3>3, <3>4
  <2> QED BY <2>1, <2>2, <2>3 DEF SessionOK
<1>5. Types'
  BY <1>1 DEF DownloadInv, Types
<1> QED BY <1>3, <1>4, <1>5 DEF DownloadInv

LEMMA AskAllKeeps ==
  ASSUME DownloadInv, AskAll
  PROVE  DownloadInv'
<1>1. /\ wr' = [s \in Sessions |-> IF s \in sessions THEN Stopped(wr[s]) ELSE wr[s]]
      /\ faulted' = faulted \cup sessions
      /\ UNCHANGED <<disk, owner, running, world, dl, finished, done>>
      /\ shut' \in {"drain", "last"}
  BY DEF AskAll
<1>2. RestOK'
  BY <1>1 DEF DownloadInv, Types, RestOK, disk, owner, world
<1>3. UNCHANGED <<handle, claim, sessions, cur>>
  BY <1>1 DEF owner, world
<1>4. DiskSafe' /\ UNCHANGED <<part, meta, dest, blind>>
  BY <1>1, <1>3, DiskKept
<1>5. wr' \in [Sessions -> WrRecords] /\ dl' \in [Sessions -> DlRecords]
  <2>1. \A s \in Sessions : wr[s] \in WrRecords
    BY DEF DownloadInv, Types
  <2>2. \A s \in Sessions : Stopped(wr[s]) \in WrRecords
    BY <2>1, StoppedFacts
  <2> QED BY <1>1, <2>1, <2>2 DEF DownloadInv, Types
<1>6. ASSUME NEW s \in Sessions PROVE SessionOK(s)'
  <2>1. CASE s \in sessions
    BY <1>1, <1>3, <2>1, StoppedKeeps
  <2>2. CASE s \notin sessions
    <3>1. /\ dl'[s] = dl[s] /\ wr'[s] = wr[s] /\ done'[s] = done[s]
          /\ s \in finished' <=> s \in finished
          /\ s \in sessions' <=> s \in sessions
          /\ (s \in faulted') = (s \in faulted)
      BY <1>1, <1>3, <2>2
    <3>2. OwnAt(s) /\ PartHeld(s) /\ ClosedWhole(s) /\ Reasoned(s)
      BY DEF DownloadInv, SessionOK
    <3>3. OwnAt(s)' /\ ClosedWhole(s)' /\ Reasoned(s)'
      BY <1>3, <1>4, <3>1, <3>2 DEF OwnAt, HandleHeld, Untouched, Answered, Acting, InBody,
                                    ClosedWhole, Reasoned
    <3>4. PartHeld(s)'
      <4> SUFFICES ASSUME handle' = s
                   PROVE (Flows(s) /\ TruncatesFirst(Stream(s)) /\ Versioned(s) /\ Unanswered(s))'
        BY DEF PartHeld
      <4>1. Flows(s) /\ TruncatesFirst(Stream(s)) /\ Versioned(s) /\ Unanswered(s)
        BY <1>3, <3>2 DEF PartHeld
      <4>2. Stream(s)' = Stream(s)
        BY <3>1 DEF Stream
      <4>3. Flows(s)'
        BY <1>4, <3>1, <4>1, <4>2 DEF Flows, Follows
      <4>4. Versioned(s)' /\ Unanswered(s)'
        BY <1>3, <1>4, <3>1, <4>1, <4>2 DEF Versioned, Receiving, Match, Unanswered
      <4> QED BY <4>1, <4>2, <4>3, <4>4
    <3> QED BY <3>3, <3>4 DEF SessionOK
  <2> QED BY <2>1, <2>2
<1> QED BY <1>2, <1>4, <1>5, <1>6 DEF DownloadInv, Types

\* Only the disk is left: every session is over, or has yet to be asked for.
LEMMA CrashKeeps ==
  ASSUME DownloadInv, Crash
  PROVE  DownloadInv'
<1> DEFINE lost == {s \in Sessions : dl[s].pc # "new" /\ done[s] = "none"}
           d == [NewDl EXCEPT !.pc = "over"]
           w == [NewWr EXCEPT !.pc = "gone"]
<1>1. /\ ends < MaxEnds /\ ends' = ends + 1
      /\ handle' = NoOne /\ claim' = NoOne /\ sessions' = {} /\ running' = TRUE /\ shut' = "no"
      /\ dl' = [s \in Sessions |-> IF s \in lost THEN d ELSE dl[s]]
      /\ wr' = [s \in Sessions |-> IF s \in lost THEN w ELSE wr[s]]
      /\ done' = [s \in Sessions |-> IF s \in lost THEN "crash" ELSE done[s]]
      /\ UNCHANGED <<disk, cur, finished, faulted>>
  BY DEF Crash
<1>2. w \in WrRecords /\ w.pc = "gone" /\ w.res = "none" /\ w.stop = FALSE
  BY NewFacts DEF WrRecords, WrPlaces
<1>3. d \in DlRecords /\ d.pc = "over"
  BY NewFacts DEF DlRecords, DlPlaces
<1>4. \A s \in Sessions : s \in lost <=> dl[s].pc # "new" /\ done[s] = "none"
  OBVIOUS
<1> HIDE DEF lost, d, w
<1>5. DiskSafe' /\ UNCHANGED <<part, meta, dest, blind>>
  BY <1>1, DiskKept
<1>6. Types'
  <2>1. RestOK'
    <3>1. done' \in [Sessions -> {"none", "ok", "fail", "crash"}]
      BY <1>1 DEF DownloadInv, Types, RestOK
    <3>2. ends' \in 0..MaxEnds
      BY <1>1, DownloadAssumption DEF DownloadInv, Types, RestOK
    <3> QED BY <1>1, <1>5, <3>1, <3>2 DEF DownloadInv, Types, RestOK
  <2>2. dl' \in [Sessions -> DlRecords] /\ wr' \in [Sessions -> WrRecords]
    BY <1>1, <1>2, <1>3 DEF DownloadInv, Types
  <2> QED BY <2>1, <2>2 DEF Types
<1>7. ASSUME NEW s \in Sessions PROVE SessionOK(s)'
  <2>1. Untouched(s) /\ Answered(s) /\ InBody(s) /\ Reasoned(s)
    BY SessionFacts
  <2>2. \/ s \in lost /\ dl'[s] = d /\ wr'[s] = w /\ done'[s] = "crash"
        \/ s \notin lost /\ dl'[s] = dl[s] /\ wr'[s] = wr[s] /\ done'[s] = done[s]
    BY <1>1
  <2>3. dl'[s].pc \in {"new", "over"} /\ wr'[s].pc \in {"none", "gone"}
    BY <1>2, <1>3, <1>4, <2>1, <2>2, NewFacts DEF Untouched, Answered
  <2>4. handle' # s
    BY <1>1, Constants
  <2>5. HandleHeld(s)'
    BY <2>3, <2>4 DEF HandleHeld, Open, Closing, Working, Early
  <2>6. Untouched(s)'
    BY <1>1, <1>3, <2>1, <2>2 DEF Untouched
  <2>7. Answered(s)'
    BY <1>2, <1>3, <2>1, <2>2 DEF Answered
  <2>8. Acting(s)' /\ InBody(s)' /\ PartHeld(s)' /\ ClosedWhole(s)'
    BY <2>3, <2>4 DEF Acting, InBody, PartHeld, ClosedWhole
  <2>9. Reasoned(s)'
    BY <1>1, <1>2, <2>1, <2>2 DEF Reasoned
  <2> QED BY <2>5, <2>6, <2>7, <2>8, <2>9 DEF SessionOK, OwnAt
<1> QED BY <1>5, <1>6, <1>7 DEF DownloadInv

-----------------------------------------------------------------------------
LEMMA InitInv == Init => DownloadInv
<1> SUFFICES ASSUME Init PROVE DownloadInv
  OBVIOUS
<1>1. PICK n \in Left : part = SubSeq(Whole(1), 1, n)
  BY DEF Init
<1>2. n \in Nat /\ n <= Size /\ n \in 0..Size /\ 0 <= n /\ n - 0 = n /\ 1 \in Versions
  BY Constants
<1>3. part = Blocks(1, 0, n)
  BY <1>1, <1>2, FirstBlocks
<1>4. part \in Seq(Block) /\ Len(part) = n
  <2>1. Run(Blocks(1, 0, n), 1, 0, n - 0)
    BY <1>2, BlocksAre
  <2> QED BY <1>2, <1>3, <2>1 DEF Run
<1>5. Types
  <2>1. RestOK
    <3>1. 0 \in 0..MaxVer /\ 1 \in 0..MaxVer /\ 0 \in 0..MaxEnds /\ <<>> \in Seq(Block)
      BY Constants, EmptyFacts, DownloadAssumption
    <3>2. done \in [Sessions -> {"none", "ok", "fail", "crash"}]
      BY DEF Init
    <3> QED BY <1>2, <1>4, <3>1, <3>2 DEF Init, RestOK
  <2> QED BY <2>1, NewFacts DEF Init, Types
<1>6. DiskSafe
  <2>1. meta <= 1 /\ 1 <= 1 /\ cur = 1 /\ blind = FALSE
    BY DEF Init
  <2> QED BY <1>2, <1>3, <1>4, <2>1 DEF DiskSafe
<1>7. ASSUME NEW s \in Sessions PROVE SessionOK(s)
  <2>1. /\ dl[s] = NewDl /\ wr[s] = NewWr /\ done[s] = "none" /\ handle # s /\ s \notin sessions
    BY Constants DEF Init
  <2>2. OwnAt(s)
    BY <2>1, NewFacts DEF OwnAt, HandleHeld, Untouched, Answered, Acting, InBody, Open, Closing,
                          Working, Early
  <2>3. PartHeld(s) /\ ClosedWhole(s) /\ Reasoned(s)
    BY <2>1, NewFacts DEF PartHeld, ClosedWhole, Reasoned
  <2> QED BY <2>2, <2>3 DEF SessionOK
<1> QED BY <1>5, <1>6, <1>7 DEF DownloadInv

LEMMA NextInv == DownloadInv /\ [Next]_vars => DownloadInv'
<1> SUFFICES ASSUME DownloadInv, [Next]_vars PROVE DownloadInv'
  OBVIOUS
<1>1. ASSUME NEW s \in Sessions,
             StartDownload(s) \/ Accept(s) \/ Loop(s) \/ OldDisconnect(s) \/ Writer(s)
      PROVE  DownloadInv'
  BY <1>1, Asking, LoopKeeps, MovingSteps, WriterKeeps
<1>2. CASE ShutdownBegins \/ Drained \/ NewVersion \/ UNCHANGED vars
  BY <1>2, ChannelKeeps
<1>3. CASE AskAll \/ Crash
  BY <1>3, AskAllKeeps, CrashKeeps
<1> QED BY <1>1, <1>2, <1>3 DEF Next

LEMMA AlwaysInv == Spec => []DownloadInv
BY InitInv, NextInv, PTL DEF Spec

-----------------------------------------------------------------------------
\* Whatever an earlier process left, and however often the process dies, .part is the
\* beginning of a version no earlier than the sidecar's (SidecarIsSafe): the writer
\* truncates, names and writes in that order, and nothing is queued out of it.
THEOREM SidecarNamesThePart == Spec => []SidecarIsSafe
<1>1. DownloadInv => SidecarIsSafe
  <2> SUFFICES ASSUME DownloadInv PROVE SidecarIsSafe
    OBVIOUS
  <2>1. TypeOK
    BY DEF DownloadInv, Types, RestOK, TypeOK, Block
  <2>2. ASSUME part # <<>>, ~blind
        PROVE  \E v \in meta..MaxVer : v # 0 /\ part = SubSeq(Whole(v), 1, Len(part))
    <3>1. PICK v \in Versions : meta <= v /\ v <= cur /\ part = Blocks(v, 0, Len(part))
      BY <2>2 DEF DownloadInv, DiskSafe
    <3>2. Len(part) \in Nat /\ Len(part) <= Size /\ meta \in 0..MaxVer
      BY LenProperties DEF DownloadInv, DiskSafe, Types, RestOK
    <3>3. SubSeq(Whole(v), 1, Len(part)) = Blocks(v, 0, Len(part))
      BY <3>2, FirstBlocks
    <3>4. v \in meta..MaxVer /\ v # 0
      BY <3>1, <3>2 DEF Versions
    <3> QED BY <3>1, <3>3, <3>4
  <2> QED BY <2>1, <2>2 DEF SidecarIsSafe
<1> QED BY <1>1, AlwaysInv, PTL

\* m_done reports a failure only for a download something went wrong for
\* (FailsForAReason): in particular a digest never fails by itself.
THEOREM FailuresHaveReasons == Spec => []FailsForAReason
<1>1. DownloadInv => FailsForAReason
  BY SessionFacts DEF FailsForAReason, Reasoned
<1> QED BY <1>1, AlwaysInv, PTL

\* The destination only ever becomes one whole version (WholeFile): FINISH is the last
\* action of a queue whose writes take .part to the length of the resource.
THEOREM DestinationIsWhole == Spec => WholeFile
<1>1. DownloadInv /\ [Next]_vars =>
        [dest' # dest => blind \/ \E v \in Versions : dest' = Whole(v)]_vars
  <2> SUFFICES ASSUME DownloadInv, Next, dest' # dest
               PROVE  blind \/ \E v \in Versions : dest' = Whole(v)
    OBVIOUS
  <2>1. PICK s \in Sessions : FinishRename(s)
    <3>1. ASSUME NEW s \in Sessions,
                 StartDownload(s) \/ Accept(s) \/ Loop(s) \/ OldDisconnect(s)
          PROVE  dest' = dest
      <4>1. CASE StartDownload(s) \/ Accept(s) \/ OldDisconnect(s)
        BY <4>1 DEF StartDownload, Accept, Create, CreateFails, Register, Launch,
                    OldDisconnect, disk
      <4>2. CASE Loop(s)
        BY <4>2 DEF Loop, Connected, ConnectFails, Answer200, Answer206, RestartOnce,
                    FollowRedirect, AnswerFails, RecvBlock, RecvOverflow, DisconnectEnds,
                    DisconnectFails, Guard, Faulty, Fail, disk
      <4> QED BY <3>1, <4>1, <4>2
    <3>2. ASSUME NEW s \in Sessions, Writer(s), ~FinishRename(s) PROVE dest' = dest
      BY <3>2 DEF Writer, TakeWrite, WriteDone, WriteFails, TakeTruncate, TruncateFails,
                  MetaFails, MetaCreate, MetaWrite, TakeAbort, FinishBad, FinishClose,
                  RenameFails, FinishMeta, WriterStops, Unregister, Answer, disk
    <3>3. ~(ShutdownBegins \/ AskAll \/ Drained \/ NewVersion \/ Crash)
      BY DEF ShutdownBegins, AskAll, Drained, NewVersion, Crash, disk
    <3> QED BY <3>1, <3>2, <3>3 DEF Next
  <2>2. ClosedWhole(s)
    BY SessionFacts
  <2> QED BY <2>1, <2>2 DEF FinishRename, ClosedWhole
<1> QED BY <1>1, AlwaysInv, PTL DEF Spec, WholeFile
=============================================================================
