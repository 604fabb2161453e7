----------------------------- MODULE StreamSend -----------------------------
(***************************************************************************)
(* Streamed sending of a file (ZmStreamLoopState, net/zm_net_http_server): *)
(* the connection's event loop asks the I/O pool for one chunk at a time,  *)
(* hands it to the connection's output, and waits while the output is too  *)
(* far ahead of what the peer has taken (the watermark) or gives up when   *)
(* the peer has taken nothing for too long.  The chunk is read into one    *)
(* buffer, used again for every chunk and handed over by reference.        *)
(*                                                                         *)
(* Handlers of the loop are single steps; a read is two, the buffer is not *)
(* whole in between.  The unit of data is a byte of the file, named by its *)
(* position; of the bytes that are put around a chunk on its way only the  *)
(* number is kept.                                                         *)
(***************************************************************************)
EXTENDS Naturals, Sequences, SequencesExt

CONSTANTS
  Total,      \* bytes to send
  Chunk,      \* chunkSize
  Watermark,  \* watermarkBytes
  Header,     \* bytes in the output before the body: this response's header
              \* and what is left of earlier responses
  Base,       \* bytes the connection had sent before this response
  Frames      \* per mode, the bytes a chunk of n adds to itself: none when raw, the
              \* length and two CRLFs by default, what TLS adds; at 0, the body's end

ASSUME StreamSendAssumption ==
  /\ {Total, Chunk, Watermark} \subseteq Nat \ {0}
  /\ {Header, Base} \subseteq Nat
  /\ Frames \subseteq [0..Chunk -> Nat]

VARIABLES
  due,       \* calls waiting on the loop or its timer: "Run", "Next"
  handle,    \* m_handle: "none", "open" or "closed"
  pos,       \* the handle's position
  buf,       \* m_chunkBuf
  reads,     \* the I/O pool's tasks: how much each wants, and if it is reading
  receipts,  \* OnReadDone posted to the loop: ok
  inFlight,  \* m_inFlight
  frame,     \* the mode of this response, opts.raw
  sent,      \* as in the code; remaining is Total - sent
  framed,    \* bytes added to the chunks so far
  out,       \* bytes of the body handed to the connection
  taken,     \* bytesSent() of the connection
  m_baseConnSent,
  seen,      \* lastConnSent
  late,      \* abortMs have passed since lastSentMs
  conn,      \* "up", "down": closed, still held by others, "gone": destroyed
  fini,      \* m_fini
  told       \* calls of onFinish

disk == <<handle, pos, buf>>
flow == <<sent, framed, out>>
peer == <<taken, conn>>
last == <<fini, told>>
look == <<m_baseConnSent, seen, late>>
streamVars == <<due, disk, reads, receipts, inFlight, frame, flow, look, peer, last>>

StreamInit ==
  /\ due = {"Run"} /\ handle = "none" /\ pos = 0 /\ buf = <<>>
  /\ reads = <<>> /\ receipts = <<>> /\ inFlight = 0
  /\ frame \in Frames /\ sent = 0 /\ framed = 0 /\ out = <<>>
  /\ taken = Base /\ m_baseConnSent = 0 /\ seen = 0 /\ late = FALSE /\ conn = "up"
  /\ fini = FALSE /\ told = 0

Smaller(a, b) == IF a < b THEN a ELSE b

\* The framing when f bytes are handed over and the stream is closed: a connection that
\* is up gets the end of the body too.
Ended(f) == IF conn = "up" THEN f + frame[0] ELSE f

\* DoClose
DoClose(f) ==
  /\ handle' = IF handle = "open" THEN "closed" ELSE handle
  /\ framed' = Ended(f) /\ told' = told + 1

\* Finish, with n reads in flight: the last one's receipt closes.
Finish(n, f) ==
  /\ fini' = TRUE
  /\ IF n = 0 THEN DoClose(f) ELSE framed' = f /\ UNCHANGED <<handle, told>>

-----------------------------------------------------------------------------
\* The connection's loop

\* Mutant: the next chunk is asked for without waiting for this one.
Bug_Submit ==
  /\ inFlight' = inFlight + 1 /\ due' = {"Next"}
  /\ reads' = Append(reads, [want |-> Smaller(Total - sent, Chunk), reading |-> FALSE])

Submit ==
  /\ inFlight' = inFlight + 1 /\ due' = {}
  /\ reads' = Append(reads, [want |-> Smaller(Total - sent, Chunk), reading |-> FALSE])

\* Run, and the Next it calls
Run ==
  /\ due = {"Run"}
  /\ handle' = "open"
  /\ IF conn = "gone" THEN UNCHANGED <<m_baseConnSent, seen>>
     ELSE m_baseConnSent' = taken /\ seen' = taken
  /\ late' = FALSE
  /\ Submit
  /\ UNCHANGED <<pos, buf, receipts, frame, flow, peer, last>>

\* The file cannot be opened, or its handle not positioned: Finish.
RunFails ==
  /\ due = {"Run"} /\ due' = {}
  /\ handle' \in {"none", "closed"}
  /\ fini' = TRUE /\ told' = told + 1 /\ framed' = Ended(framed)
  /\ UNCHANGED <<pos, buf, reads, receipts, inFlight, frame, sent, out, look, peer>>

\* Mutant: the time is looked at before what the connection sent.
Bug_Stalled == conn # "gone" /\ late

\* The peer took nothing since the last look, and that for abortMs.
Stalled == conn # "gone" /\ taken = seen /\ late

\* Mutant: what was sent before this response counts as taken of it.
Bug_Ahead == conn # "gone" /\ sent > taken + Watermark

\* The software watermark: the file's bytes against all the connection sent since Run,
\* header and framing included.
Ahead == conn # "gone" /\ sent > (taken - m_baseConnSent) + Watermark

Look ==
  /\ seen' = IF conn = "gone" THEN seen ELSE taken
  /\ late' = IF conn = "gone" \/ taken = seen THEN late ELSE FALSE

NextStalled ==
  /\ due = {"Next"} /\ ~fini /\ Stalled
  /\ due' = {}
  /\ Finish(inFlight, framed)
  /\ UNCHANGED <<pos, buf, reads, receipts, inFlight, frame, sent, out, look, peer>>

\* Next again, after a back-off
NextWaits ==
  /\ due = {"Next"} /\ ~fini /\ ~Stalled /\ Ahead
  /\ Look
  /\ UNCHANGED <<due, disk, reads, receipts, inFlight, frame, flow, m_baseConnSent, peer, last>>

NextReads ==
  /\ due = {"Next"} /\ ~fini /\ ~Stalled /\ ~Ahead
  /\ Look /\ Submit
  /\ UNCHANGED <<disk, receipts, frame, flow, m_baseConnSent, peer, last>>

\* send returns false when the connection is closed.
SendFails == conn # "up"

\* OnReadDone of a chunk: it is sent, Next follows unless it was the last.  A receipt
\* or a Next after m_fini cannot come: Finish runs only while neither is on its way.
OnReadDone ==
  /\ receipts # <<>> /\ Head(receipts) /\ ~SendFails /\ ~fini
  /\ receipts' = Tail(receipts) /\ inFlight' = inFlight - 1
  /\ out' = out \o buf /\ sent' = sent + Len(buf)
  /\ LET f == framed + frame[Len(buf)] IN
     IF sent' = Total THEN Finish(inFlight', f) /\ due' = {}
     ELSE due' = {"Next"} /\ framed' = f /\ UNCHANGED <<handle, last>>
  /\ UNCHANGED <<pos, buf, reads, frame, look, peer>>

\* Mutant: a failed send just ends the chain.
Bug_OnReadDoneFails ==
  /\ receipts # <<>> /\ (~Head(receipts) \/ SendFails) /\ ~fini
  /\ receipts' = Tail(receipts) /\ inFlight' = inFlight - 1
  /\ IF Head(receipts) THEN UNCHANGED <<handle, framed, last>> ELSE Finish(inFlight', framed)
  /\ UNCHANGED <<due, pos, buf, reads, frame, sent, out, look, peer>>

\* OnReadDone when the read or the send fails
OnReadDoneFails ==
  /\ receipts # <<>> /\ (~Head(receipts) \/ SendFails) /\ ~fini
  /\ receipts' = Tail(receipts) /\ inFlight' = inFlight - 1
  /\ Finish(inFlight', framed)
  /\ UNCHANGED <<due, pos, buf, reads, frame, sent, out, look, peer>>

Loop == Run \/ RunFails \/ NextStalled \/ NextWaits \/ NextReads \/ OnReadDone \/ OnReadDoneFails

-----------------------------------------------------------------------------
\* The I/O pool (two threads)

\* ReadChunk: the buffer is resized, ReadFile begins.
ReadBegins(i) ==
  /\ i \in DOMAIN reads /\ ~reads[i].reading
  /\ reads' = [reads EXCEPT ![i].reading = TRUE]
  /\ buf' = [j \in 1..reads[i].want |-> 0]
  /\ UNCHANGED <<due, handle, pos, receipts, inFlight, frame, flow, look, peer, last>>

\* It returns n bytes; none at an error, or when the file has become shorter.
ReadEnds(i) ==
  /\ i \in DOMAIN reads /\ reads[i].reading
  /\ \E n \in 0..reads[i].want :
       /\ buf' = IF n = 0 THEN buf ELSE [j \in 1..n |-> pos + j]
       /\ pos' = pos + n
       /\ receipts' = Append(receipts, n > 0)
  /\ reads' = RemoveAt(reads, i)
  /\ UNCHANGED <<due, handle, inFlight, frame, flow, look, peer, last>>

\* The connection and the clock

\* All that was handed to the connection up to now.
Handed == Base + Header + sent + framed

\* bytesSent() counts header and framing like the body.
Takes ==
  /\ conn = "up" /\ taken < Handed
  /\ taken' = taken + 1
  /\ UNCHANGED <<due, disk, reads, receipts, inFlight, frame, flow, look, conn, last>>

ConnectionEnds ==
  /\ \/ conn = "up" /\ conn' = "down"
     \/ conn = "down" /\ conn' = "gone"
  /\ UNCHANGED <<due, disk, reads, receipts, inFlight, frame, flow, look, taken, last>>

TimePasses ==
  /\ ~late /\ late' = TRUE
  /\ UNCHANGED <<due, disk, reads, receipts, inFlight, frame, flow, m_baseConnSent, seen, peer,
                 last>>

Read(i) == ReadBegins(i) \/ ReadEnds(i)

StreamNext == Loop \/ (\E i \in 1..2 : Read(i)) \/ Takes \/ ConnectionEnds \/ TimePasses

Fairness == WF_streamVars(Loop) /\ WF_streamVars(Read(1)) /\ WF_streamVars(TimePasses)

StreamSpec == StreamInit /\ [][StreamNext]_streamVars /\ Fairness

-----------------------------------------------------------------------------
\* Properties

\* What the connection got is the file's bytes in order: the one buffer is never read
\* into, nor asked for again, before the chunk in it was sent.
SentInOrder == out = [i \in 1..sent |-> i]

\* What waits in the connection's output is bounded by watermark, chunk, header and the
\* framing handed over so far, however slowly the peer takes it and whatever the connection
\* sent before.  In raw mode nothing is framed and the bound is fixed; by default Next takes
\* the framing that was sent for drained body, and the bound grows with the chunks.
OutputIsBounded == Handed - taken <= Watermark + Chunk + Header + framed

\* A sending is given up as stalled only while there is something for the peer to take.
\* (That the peer was given abortMs to take it is not said: the time of a slow read counts.)
StallIsReal == [][NextStalled => taken < Handed]_streamVars

\* Every sending ends, and onFinish is called once: at the end of the file, or because of the
\* disk, the connection or a peer that takes nothing.
StreamEnds == <>[](told = 1)
=============================================================================
