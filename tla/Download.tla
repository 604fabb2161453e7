------------------------------ MODULE Download ------------------------------
(***************************************************************************)
(* Downloads of one destination (net/zm_net_http_client_download): the     *)
(* pool thread that accepts a download, the download loop that talks to    *)
(* the server, and the session's writer thread, the only one that touches  *)
(* .part, .part.meta and the destination.  They meet in the action queue.  *)
(* The disk outlives a crash of the process; a later download resumes from *)
(* the length of .part and asks with If-Range for the version named by the *)
(* sidecar, while the resource may have changed on the server.             *)
(*                                                                         *)
(* Handlers of the loop are single steps, as are the writer's file calls.  *)
(* A file is a sequence of blocks <<version, index>>.  Bodies are sized    *)
(* (Content-Length or chunked), or end with the connection and come with   *)
(* Content-MD5.                                                            *)
(***************************************************************************)
EXTENDS Naturals, Sequences, FiniteSets

CONSTANTS
  MaxSess,     \* bound: downloads of the destination
  Size,        \* blocks of every version of the resource
  Chunk,       \* m_chunkBytes: blocks gathered before they are queued
  QCap,        \* m_qCap, in blocks
  MaxVer,      \* bound: versions of the resource
  MaxHops,     \* maxRedirects
  Left,        \* lengths of the part an earlier process may have left
  MaxEnds      \* bound: crashes of the process and shutdowns

ASSUME DownloadAssumption ==
  /\ {Size, Chunk, QCap, MaxVer} \subseteq Nat \ {0}
  /\ {MaxSess, MaxHops, MaxEnds} \subseteq Nat
  /\ Left \subseteq 0..Size

VARIABLES
  part, meta, dest,  \* .part; the version in .part.meta, 0: none readable; the file
  blind,      \* .part was continued without If-Range (history)
  cur,        \* the resource's version on the server
  handle,     \* the session that has .part open
  claim,      \* the session in s_destActive
  sessions,   \* s_sessions
  running,    \* s_dlRunning
  shut,       \* where Shutdown is
  dl,         \* each session on the loop's side
  wr,         \* each session's writer thread and its queue
  finished,   \* sessions with m_finished
  done,       \* what m_done was called with
  faulted,    \* sessions that something went wrong for (history)
  ends

disk  == <<part, meta, dest, blind>>
owner == <<handle, claim, sessions>>
chan  == <<running, shut>>
world == <<cur, ends>>
vars  == <<disk, owner, chan, world, dl, wr, finished, done, faulted>>

Sessions == 1..MaxSess
NoOne    == 0
Versions == 1..MaxVer
Whole(v) == [i \in 1..Size |-> <<v, i>>]

\* from: m_resumedFrom, val: m_metaEtag/m_metaLm, ver/next/md5: the response,
\* pend: m_pendingBuf, again: m_restartOnceUsed, hops: m_redirectsUsed,
\* old: a connection left behind has yet to report its end
NewDl == [pc |-> "new", from |-> 0, val |-> 0, ver |-> 0, next |-> 0,
          md5 |-> FALSE, pend |-> <<>>, again |-> FALSE, hops |-> 0, old |-> FALSE]

\* act: the action the writer took, res: the result it is going to deliver
NewWr == [pc |-> "none", q |-> <<>>, bytes |-> 0, stop |-> FALSE, act |-> <<>>,
          res |-> "none"]

\* An earlier process may have left a part of the resource.
Init ==
  /\ \E n \in Left : part = SubSeq(Whole(1), 1, n)
  /\ meta \in {0, 1} /\ dest = <<>> /\ blind = FALSE
  /\ handle = NoOne /\ claim = NoOne /\ sessions = {}
  /\ running = TRUE /\ shut = "no"
  /\ cur = 1 /\ ends = 0
  /\ dl = [s \in Sessions |-> NewDl]
  /\ wr = [s \in Sessions |-> NewWr]
  /\ finished = {} /\ faulted = {}
  /\ done = [s \in Sessions |-> "none"]

-----------------------------------------------------------------------------
\* The action queue

Write(b) == [op |-> "write", data |-> b, ver |-> 0]
Truncate == [op |-> "truncate", data |-> <<>>, ver |-> 0]
Meta(v)  == [op |-> "meta", data |-> <<>>, ver |-> v]
Finish   == [op |-> "finish", data |-> <<>>, ver |-> 0]
Abort    == [op |-> "abort", data |-> <<>>, ver |-> 0]

\* EnqueueAction: nothing is accepted once the channel is being shut down.
Push(w, a) ==
  IF w.stop THEN w
  ELSE [w EXCEPT !.q = Append(@, a), !.bytes = @ + Len(a.data)]

\* CancelPendingFileIo: a write under way is ended by CancelIoEx.
Cancelled(w) == IF w.pc = "write" THEN [w EXCEPT !.pc = "cancelled"] ELSE w

\* RequestShutdown
Stopped(w) == Cancelled([w EXCEPT !.stop = TRUE])

-----------------------------------------------------------------------------
\* Accepting a download (they are numbered in the order of the calls)

StartDownload(s) ==
  /\ dl[s].pc = "new" /\ running
  /\ \A r \in 1..s-1 : dl[r].pc # "new"
  /\ dl' = [dl EXCEPT ![s].pc = "asked"]
  /\ UNCHANGED <<disk, owner, chan, world, wr, finished, done, faulted>>

\* On a thread of the work pool: the destination is claimed and .part opened, N
\* is its length, the sidecar is read if N > 0, the writer starts.
Create(s) ==
  /\ dl[s].pc = "asked"
  /\ claim = NoOne /\ handle = NoOne
  /\ claim' = s /\ handle' = s
  /\ dl' = [dl EXCEPT ![s].pc = "created", ![s].from = Len(part),
                      ![s].val = IF part = <<>> THEN 0 ELSE meta]
  /\ wr' = [wr EXCEPT ![s].pc = "wait"]
  /\ UNCHANGED <<disk, sessions, chan, world, finished, done, faulted>>

\* Another download has the destination, or .part cannot be opened: m_done at once.
CreateFails(s) ==
  /\ dl[s].pc = "asked"
  /\ dl' = [dl EXCEPT ![s].pc = "over"]
  /\ done' = [done EXCEPT ![s] = "fail"]
  /\ faulted' = faulted \cup {s}
  /\ UNCHANGED <<disk, owner, chan, world, wr, finished>>

Register(s) ==
  /\ dl[s].pc = "created"
  /\ sessions' = sessions \cup {s}
  /\ dl' = [dl EXCEPT ![s].pc = "registered"]
  /\ UNCHANGED <<disk, handle, claim, chan, world, wr, finished, done, faulted>>

\* Mutant: s_dlRunning is not read again.
Bug_Launch(s) ==
  /\ dl[s].pc = "registered"
  /\ dl' = [dl EXCEPT ![s].pc = "dial"]
  /\ UNCHANGED <<disk, owner, chan, world, wr, finished, done, faulted>>

\* s_dlRunning is read again, with s_dlMtx held over the hand-over to the loop.
Launch(s) ==
  /\ dl[s].pc = "registered"
  /\ IF running
     THEN /\ dl' = [dl EXCEPT ![s].pc = "dial"]
          /\ UNCHANGED <<wr, faulted>>
     ELSE /\ dl' = [dl EXCEPT ![s].pc = "over"]
          /\ wr' = [wr EXCEPT ![s] = Stopped(@)]
          /\ faulted' = faulted \cup {s}
  /\ UNCHANGED <<disk, owner, chan, world, finished, done>>

Accept(s) == Create(s) \/ CreateFails(s) \/ Register(s) \/ Launch(s)

-----------------------------------------------------------------------------
\* The session on the download loop; its callbacks do nothing once it is over.

LoopRuns == shut \notin {"again", "down"}
Alive(s) == s \notin finished /\ LoopRuns
Asked(s) == Alive(s) /\ dl[s].pc = "headers"

Over(d) == [NewDl EXCEPT !.pc = "over", !.md5 = d.md5, !.ver = d.ver]

\* Fail: m_finished, then the reason, the cancel and the ABORT.
Fail(s) ==
  /\ finished' = finished \cup {s}
  /\ wr' = [wr EXCEPT ![s] = Push(Cancelled(@), Abort)]
  /\ dl' = [dl EXCEPT ![s] = Over(@)]
  /\ UNCHANGED <<disk, owner, chan, world, done>>

Faulty(s) == faulted' = faulted \cup {s} /\ Fail(s)

\* Mutant: m_finished first, so that the remaining bytes are refused.
Bug_Completed(w, pend) == Push(w, Finish)

\* What Complete queues: the bytes left in m_pendingBuf, then FINISH.
Completed(w, pend) == Push(IF pend = <<>> THEN w ELSE Push(w, Write(pend)), Finish)

Complete(s, d, w) ==
  /\ finished' = finished \cup {s}
  /\ wr' = [wr EXCEPT ![s] = Completed(w, d.pend)]
  /\ dl' = [dl EXCEPT ![s] = Over(d)]

Connected(s) ==
  /\ Alive(s) /\ dl[s].pc \in {"dial", "redial"}
  /\ dl' = [dl EXCEPT ![s].pc = "headers"]
  /\ UNCHANGED <<disk, owner, chan, world, wr, finished, done, faulted>>

ConnectFails(s) == Alive(s) /\ dl[s].pc \in {"dial", "redial"} /\ Faulty(s)

\* Mutant: .part is not truncated.
Bug_Answer200(s, m) ==
  /\ Asked(s)
  /\ dl' = [dl EXCEPT ![s].pc = "body", ![s].ver = cur, ![s].next = 1,
                      ![s].md5 = m]
  /\ wr' = [wr EXCEPT ![s] = Push(@, Meta(cur))]
  /\ UNCHANGED <<disk, owner, chan, world, finished, done, faulted>>

\* 200: the whole resource as it is now; .part is truncated where it stands.
Answer200(s, m) ==
  /\ Asked(s)
  /\ dl' = [dl EXCEPT ![s].pc = "body", ![s].ver = cur, ![s].next = 1,
                      ![s].md5 = m]
  /\ wr' = [wr EXCEPT ![s] =
              Push(IF dl[s].from > 0 THEN Push(@, Truncate) ELSE @, Meta(cur))]
  /\ UNCHANGED <<disk, owner, chan, world, finished, done, faulted>>

\* The request has a Range, with an If-Range the server agrees with, or none.
Resumable(s) == dl[s].from > 0 /\ dl[s].val \in {0, cur}

\* 206 from N on; its validators go to the sidecar.
Answer206(s) ==
  /\ Asked(s)
  /\ Resumable(s) /\ dl[s].from < Size
  /\ dl' = [dl EXCEPT ![s].pc = "body", ![s].ver = cur,
                      ![s].next = dl[s].from + 1, ![s].md5 = FALSE]
  /\ wr' = [wr EXCEPT ![s] = Push(@, Meta(cur))]
  /\ blind' = (blind \/ dl[s].val = 0)
  /\ UNCHANGED <<part, meta, dest, owner, chan, world, finished, done, faulted>>

\* RestartOnce on 416, 412 or a 206 from elsewhere: a plain GET on another
\* connection.
RestartOnce(s) ==
  /\ Asked(s) /\ ~dl[s].again
  /\ dl' = [dl EXCEPT ![s] = [NewDl EXCEPT !.pc = "redial", !.again = TRUE,
                                           !.hops = dl[s].hops, !.old = TRUE]]
  /\ wr' = [wr EXCEPT ![s] = Push(@, Truncate)]
  /\ UNCHANGED <<disk, owner, chan, world, finished, done, faulted>>

FollowRedirect(s) ==
  /\ Asked(s) /\ dl[s].hops < MaxHops
  /\ dl' = [dl EXCEPT ![s].pc = "redial", ![s].hops = @ + 1, ![s].old = TRUE]
  /\ UNCHANGED <<disk, owner, chan, world, wr, finished, done, faulted>>

\* Malformed or refused, one redirect or one mismatch too many.
AnswerFails(s) == Asked(s) /\ Faulty(s)

\* OnRecv: bytes are gathered to chunks and queued; a sized body is complete
\* with its last byte.
RecvBlock(s) ==
  LET got   == Append(dl[s].pend, <<dl[s].ver, dl[s].next>>)
      chunk == Len(got) = Chunk
      d     == [dl[s] EXCEPT !.next = @ + 1, !.pend = IF chunk THEN <<>> ELSE got]
      w     == IF chunk THEN Push(wr[s], Write(got)) ELSE wr[s]
  IN  /\ Alive(s) /\ dl[s].pc = "body" /\ dl[s].next <= Size
      /\ chunk => ~wr[s].stop /\ wr[s].bytes + Chunk <= QCap
      /\ IF d.next > Size /\ ~d.md5
         THEN Complete(s, d, w)
         ELSE /\ dl' = [dl EXCEPT ![s] = d]
              /\ wr' = [wr EXCEPT ![s] = w]
              /\ finished' = finished
      /\ UNCHANGED <<disk, owner, chan, world, done, faulted>>

\* EnqueueWrite is refused: the queue is full, or closed by Shutdown.
RecvOverflow(s) ==
  /\ Alive(s) /\ dl[s].pc = "body" /\ dl[s].next <= Size
  /\ Len(dl[s].pend) + 1 = Chunk
  /\ wr[s].stop \/ wr[s].bytes + Chunk > QCap
  /\ Faulty(s)

\* OnDisconnect: the end of a body without a size, an error otherwise.
DisconnectEnds(s) ==
  /\ Alive(s) /\ dl[s].pc = "body" /\ dl[s].md5
  /\ Complete(s, dl[s], wr[s])
  /\ faulted' = IF dl[s].next <= Size THEN faulted \cup {s} ELSE faulted
  /\ UNCHANGED <<disk, owner, chan, world, done>>

DisconnectFails(s) ==
  /\ Alive(s)
  /\ dl[s].pc = "headers" \/ (dl[s].pc = "body" /\ ~dl[s].md5)
  /\ Faulty(s)

\* Mutant: the end of the old connection is taken for that of the new one.
Bug_OldDisconnect(s) ==
  /\ Alive(s) /\ dl[s].old
  /\ Fail(s)
  /\ UNCHANGED faulted

\* A connection of an earlier m_epoch ends: the callback is dropped.
OldDisconnect(s) ==
  /\ Alive(s) /\ dl[s].old
  /\ dl' = [dl EXCEPT ![s].old = FALSE]
  /\ UNCHANGED <<disk, owner, chan, world, wr, finished, done, faulted>>

\* OnGuard, started with the first connection: cancelled, too late or stalled.
Guard(s) == Alive(s) /\ dl[s].pc \in {"redial", "headers", "body"} /\ Faulty(s)

Loop(s) ==
  \/ Connected(s) \/ ConnectFails(s)
  \/ \E m \in BOOLEAN : Answer200(s, m)
  \/ Answer206(s) \/ RestartOnce(s) \/ FollowRedirect(s) \/ AnswerFails(s)
  \/ RecvBlock(s) \/ RecvOverflow(s)
  \/ DisconnectEnds(s) \/ DisconnectFails(s) \/ Guard(s)

-----------------------------------------------------------------------------
\* WriterLoop

\* The end of the thread's work: .part is closed, the result remains to be given.
Close(s, r) ==
  /\ finished' = finished \cup {s}
  /\ handle' = NoOne
  /\ wr' = [wr EXCEPT ![s].pc = "deliver", ![s].res = r]

\* An action is taken from the queue.
Take(s, op) ==
  /\ wr[s].pc = "wait" /\ ~wr[s].stop /\ wr[s].q # <<>>
  /\ Head(wr[s].q).op = op

Taken(s, pc) ==
  [wr[s] EXCEPT !.pc = pc, !.q = Tail(@), !.bytes = @ - Len(Head(wr[s].q).data),
                !.act = <<Head(wr[s].q)>>]

TakeWrite(s) ==
  /\ Take(s, "write")
  /\ wr' = [wr EXCEPT ![s] = Taken(s, "write")]
  /\ UNCHANGED <<disk, owner, chan, world, dl, finished, done, faulted>>

WriteDone(s) ==
  /\ wr[s].pc \in {"write", "cancelled"}
  /\ part' = part \o wr[s].act[1].data
  /\ wr' = [wr EXCEPT ![s].pc = "wait", ![s].act = <<>>]
  /\ UNCHANGED <<meta, dest, blind, owner, chan, world, dl, finished, done, faulted>>

\* The write fails, or is cancelled, with some of its bytes written.
WriteFails(s) ==
  /\ wr[s].pc \in {"write", "cancelled"}
  /\ \E n \in 0..Len(wr[s].act[1].data)-1 :
       part' = part \o SubSeq(wr[s].act[1].data, 1, n)
  /\ Close(s, "fail")
  /\ faulted' = faulted \cup {s}
  /\ UNCHANGED <<meta, dest, blind, claim, sessions, chan, world, dl, done>>

TakeTruncate(s) ==
  /\ Take(s, "truncate")
  /\ part' = <<>> /\ blind' = FALSE
  /\ wr' = [wr EXCEPT ![s] = [Taken(s, "wait") EXCEPT !.act = <<>>]]
  /\ UNCHANGED <<meta, dest, owner, chan, world, dl, finished, done, faulted>>

TruncateFails(s) ==
  /\ Take(s, "truncate")
  /\ Close(s, "fail")
  /\ faulted' = faulted \cup {s}
  /\ UNCHANGED <<disk, claim, sessions, chan, world, dl, done>>

\* The sidecar cannot be opened (and stays as it is) ...
MetaFails(s) ==
  /\ Take(s, "meta")
  /\ wr' = [wr EXCEPT ![s] = [Taken(s, "wait") EXCEPT !.act = <<>>]]
  /\ UNCHANGED <<disk, owner, chan, world, dl, finished, done, faulted>>

\* ... or is created anew, and then written, if it can be.
MetaCreate(s) ==
  /\ Take(s, "meta")
  /\ meta' = 0
  /\ wr' = [wr EXCEPT ![s] = Taken(s, "meta")]
  /\ UNCHANGED <<part, dest, blind, owner, chan, world, dl, finished, done, faulted>>

MetaWrite(s) ==
  /\ wr[s].pc = "meta"
  /\ meta' \in {wr[s].act[1].ver, 0}
  /\ wr' = [wr EXCEPT ![s].pc = "wait", ![s].act = <<>>]
  /\ UNCHANGED <<part, dest, blind, owner, chan, world, dl, finished, done, faulted>>

TakeAbort(s) ==
  /\ Take(s, "abort")
  /\ Close(s, "fail")
  /\ UNCHANGED <<disk, claim, sessions, chan, world, dl, done, faulted>>

\* FINISH, and the digest is not that of what was written: all is deleted.
FinishBad(s) ==
  /\ Take(s, "finish")
  /\ dl[s].md5 /\ part # Whole(dl[s].ver)
  /\ part' = <<>> /\ meta' = 0 /\ blind' = FALSE
  /\ Close(s, "fail")
  /\ UNCHANGED <<dest, claim, sessions, chan, world, dl, done, faulted>>

\* FinishOk: closed, then renamed, then the sidecar deleted.
FinishClose(s) ==
  /\ Take(s, "finish")
  /\ ~dl[s].md5 \/ part = Whole(dl[s].ver)
  /\ finished' = finished \cup {s}
  /\ handle' = NoOne
  /\ wr' = [wr EXCEPT ![s].pc = "closed", ![s].q = <<>>]
  /\ UNCHANGED <<disk, claim, sessions, chan, world, dl, done, faulted>>

FinishRename(s) ==
  /\ wr[s].pc = "closed" /\ handle = NoOne
  /\ dest' = part /\ part' = <<>> /\ blind' = FALSE
  /\ wr' = [wr EXCEPT ![s].pc = "renamed"]
  /\ UNCHANGED <<meta, owner, chan, world, dl, finished, done, faulted>>

\* The destination cannot be replaced; .part stays.
RenameFails(s) ==
  /\ wr[s].pc = "closed"
  /\ wr' = [wr EXCEPT ![s].pc = "deliver", ![s].res = "fail"]
  /\ faulted' = IF handle = NoOne THEN faulted \cup {s} ELSE faulted
  /\ UNCHANGED <<disk, owner, chan, world, dl, finished, done>>

FinishMeta(s) ==
  /\ wr[s].pc = "renamed"
  /\ meta' = 0
  /\ wr' = [wr EXCEPT ![s].pc = "deliver", ![s].res = "ok"]
  /\ UNCHANGED <<part, dest, blind, owner, chan, world, dl, finished, done, faulted>>

\* m_writerStop
WriterStops(s) ==
  /\ wr[s].pc = "wait" /\ wr[s].stop
  /\ Close(s, "fail")
  /\ UNCHANGED <<disk, claim, sessions, chan, world, dl, done, faulted>>

\* Deliver: out of s_sessions, the claim released, and m_done called.
Unregister(s) ==
  /\ wr[s].pc = "deliver"
  /\ sessions' = sessions \ {s}
  /\ wr' = [wr EXCEPT ![s].pc = "release"]
  /\ UNCHANGED <<disk, handle, claim, chan, world, dl, finished, done, faulted>>

Answer(s) ==
  /\ wr[s].pc = "release"
  /\ claim' = NoOne
  /\ done' = [done EXCEPT ![s] = wr[s].res]
  /\ wr' = [wr EXCEPT ![s] = [NewWr EXCEPT !.pc = "gone"]]
  /\ dl' = [dl EXCEPT ![s] = [NewDl EXCEPT !.pc = "over"]]
  /\ UNCHANGED <<disk, handle, sessions, chan, world, finished, faulted>>

Writer(s) ==
  \/ TakeWrite(s) \/ WriteDone(s) \/ WriteFails(s) \/ TakeTruncate(s)
  \/ TruncateFails(s) \/ MetaFails(s) \/ MetaCreate(s) \/ MetaWrite(s) \/ TakeAbort(s)
  \/ FinishBad(s) \/ FinishClose(s) \/ FinishRename(s) \/ RenameFails(s)
  \/ FinishMeta(s) \/ WriterStops(s) \/ Unregister(s) \/ Answer(s)

-----------------------------------------------------------------------------
\* Shutdown

ShutdownBegins ==
  /\ running /\ ends < MaxEnds
  /\ running' = FALSE /\ shut' = "ask" /\ ends' = ends + 1
  /\ UNCHANGED <<disk, owner, cur, dl, wr, finished, done, faulted>>

\* RequestShutdownAllSessions, before the loop ends and again after it.
AskAll ==
  /\ shut \in {"ask", "again"}
  /\ shut' = IF shut = "ask" THEN "drain" ELSE "last"
  /\ wr' = [s \in Sessions |-> IF s \in sessions THEN Stopped(wr[s]) ELSE wr[s]]
  /\ faulted' = faulted \cup sessions
  /\ UNCHANGED <<disk, owner, running, world, dl, finished, done>>

\* WaitSessionsDrained, and the loop is joined; the second time, the table cleared.
Drained ==
  /\ shut \in {"drain", "last"} /\ sessions = {}
  /\ shut' = IF shut = "drain" THEN "again" ELSE "down"
  /\ UNCHANGED <<disk, owner, running, world, dl, wr, finished, done, faulted>>

-----------------------------------------------------------------------------
\* The world

\* The resource changes; it makes no difference before somebody asks for it.
NewVersion ==
  /\ cur < MaxVer /\ \E s \in Sessions : Asked(s)
  /\ cur' = cur + 1
  /\ UNCHANGED <<disk, owner, chan, ends, dl, wr, finished, done, faulted>>

\* The process dies and is started again: only the disk is left.
Crash ==
  LET lost == {s \in Sessions : dl[s].pc # "new" /\ done[s] = "none"}
  IN  /\ ends < MaxEnds /\ lost # {}
      /\ ends' = ends + 1
      /\ handle' = NoOne /\ claim' = NoOne /\ sessions' = {}
      /\ running' = TRUE /\ shut' = "no"
      /\ dl' = [s \in Sessions |-> IF s \in lost THEN [NewDl EXCEPT !.pc = "over"]
                                                 ELSE dl[s]]
      /\ wr' = [s \in Sessions |-> IF s \in lost THEN [NewWr EXCEPT !.pc = "gone"]
                                                 ELSE wr[s]]
      /\ done' = [s \in Sessions |-> IF s \in lost THEN "crash" ELSE done[s]]
      /\ UNCHANGED <<disk, cur, finished, faulted>>

Next ==
  \/ \E s \in Sessions :
       StartDownload(s) \/ Accept(s) \/ Loop(s) \/ OldDisconnect(s) \/ Writer(s)
  \/ ShutdownBegins \/ AskAll \/ Drained
  \/ NewVersion \/ Crash

Spec == Init /\ [][Next]_vars

\* Threads go on, a write ends or is cancelled, a connection is made or refused,
\* and the guard ends a session whose server says nothing more.
Fairness ==
  /\ \A s \in Sessions : WF_vars(Accept(s)) /\ WF_vars(Loop(s)) /\ WF_vars(Writer(s))
  /\ WF_vars(AskAll) /\ WF_vars(Drained)

LiveSpec == Spec /\ Fairness

-----------------------------------------------------------------------------
(***************************************************************************)
(* Properties                                                              *)
(***************************************************************************)

\* Every variable keeps its type; .part is open for one session at a time, which
\* has the claim, and what is queued is accounted for.
TypeOK ==
  /\ part \in Seq(Versions \X (1..Size)) /\ dest \in Seq(Versions \X (1..Size))
  /\ meta \in 0..MaxVer /\ blind \in BOOLEAN
  /\ cur \in Versions /\ ends \in 0..MaxEnds
  /\ {handle, claim} \subseteq Sessions \cup {NoOne}
  /\ handle # NoOne => claim = handle
  /\ sessions \subseteq Sessions /\ finished \subseteq Sessions
  /\ faulted \subseteq Sessions
  /\ running \in BOOLEAN /\ shut \in {"no", "ask", "drain", "again", "last", "down"}
  /\ done \in [Sessions -> {"none", "ok", "fail", "crash"}]

\* What reaches the destination is one whole version, however often the download
\* was interrupted, restarted, redirected or lost with the process and whatever
\* the server changed in between, unless a part was continued without If-Range.
WholeFile ==
  [][dest' # dest => blind \/ \E v \in Versions : dest' = Whole(v)]_vars

\* .part is the beginning of one version, and the sidecar names none later than
\* it: a server that agrees with If-Range has the version .part is of.
SidecarIsSafe ==
  TypeOK /\ (part # <<>> /\ ~blind =>
    \E v \in meta..MaxVer : v # 0 /\ part = SubSeq(Whole(v), 1, Len(part)))

\* A download answers with a failure only if something went wrong for it (a refusal at
\* the start, its file, its present connection, an answer, the end of the channel): never
\* because of a connection it has left.
FailsForAReason ==
  \A s \in Sessions : done[s] = "fail" => s \in faulted

\* Every download that was taken on is answered, or lost with the process, and
\* Shutdown returns.
DownloadsEnd ==
  /\ \A s \in Sessions : dl[s].pc = "asked" ~> done[s] # "none"
  /\ shut = "ask" ~> shut \in {"no", "down"}
=============================================================================
