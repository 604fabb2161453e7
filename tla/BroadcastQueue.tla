--------------------------- MODULE BroadcastQueue ---------------------------
(***************************************************************************)
(* The sending side of one client of ZmBroadcastServer                     *)
(* (net/zm_net_broadcast_server): DeliverToClient, OnClientWriteCB, the    *)
(* ping of OnHeartbeatCheckCB and SetClientQueueMaxSize, from the accept   *)
(* until the connection goes.  The head of msgQueue is the frame in        *)
(* flight.  Everything but SetClientQueueMaxSize runs on the loop thread.  *)
(*                                                                         *)
(* A message is its number: the n-th one offered to this client.  The      *)
(* bufferevent is modelled by what the code relies on: bufferevent_write   *)
(* appends, the socket takes some of the output, and OnClientWriteCB is    *)
(* called when the output has drained.                                     *)
(***************************************************************************)
EXTENDS Naturals, Sequences

CONSTANTS
  QueueLimits,   \* what clientQueueMaxSize is set to
  Ctl,           \* a settings or ping frame
  MaxOffered,    \* bound on the messages offered
  MaxCtl         \* bound on control frames waiting in the output

ASSUME QueueAssumption ==
  /\ QueueLimits \subseteq Nat \ {0}
  /\ Ctl \notin Nat
  /\ MaxOffered \in Nat /\ MaxCtl \in Nat

VARIABLES
  clientQueueMaxSize,
  msgQueue,
  output,        \* frames in the bufferevent's output buffer
  wire,          \* messages the socket has taken
  offered,       \* messages given to DeliverToClient
  written,       \* messages given to bufferevent_write (history)
  m_sentCount, m_discardCount

queueVars == <<clientQueueMaxSize, msgQueue, output, wire, offered, written,
               m_sentCount, m_discardCount>>

MessagesIn(s) == SelectSeq(s, LAMBDA f : f # Ctl)
CtlIn(s)    == SelectSeq(s, LAMBDA f : f = Ctl)

\* OnAcceptConnCB has written the settings frame.
QueueInit ==
  /\ clientQueueMaxSize \in QueueLimits
  /\ msgQueue = <<>> /\ output = <<Ctl>>
  /\ wire = <<>> /\ offered = 0 /\ written = <<>>
  /\ m_sentCount = 0 /\ m_discardCount = 0

bufferevent_write(m) ==
  /\ output' = Append(output, m)
  /\ written' = Append(written, m)

-----------------------------------------------------------------------------
\* Mutant: the limit is compared one too high.
Bug_Full == Len(msgQueue) > clientQueueMaxSize

\* A full queue loses its head before the new frame goes in.
Full == Len(msgQueue) >= clientQueueMaxSize

DeliverToClient ==
  LET kept == IF Full THEN Tail(msgQueue) ELSE msgQueue
      m    == offered + 1
  IN
  /\ offered < MaxOffered
  /\ offered' = m
  /\ msgQueue' = Append(kept, m)
  /\ m_discardCount' = m_discardCount + (IF Full THEN 1 ELSE 0)
  /\ IF kept = <<>> THEN bufferevent_write(m) ELSE UNCHANGED <<output, written>>
  /\ m_sentCount' = m_sentCount + 1
  /\ UNCHANGED <<clientQueueMaxSize, wire>>

\* OnHeartbeatCheckCB finds the connection idle, by its own bookkeeping.
SendPing ==
  /\ Len(CtlIn(output)) < MaxCtl
  /\ output' = Append(output, Ctl)
  /\ UNCHANGED <<clientQueueMaxSize, msgQueue, wire, offered, written,
                 m_sentCount, m_discardCount>>

\* The socket takes some of the output but not all of it.
WriteSome ==
  \E n \in 1..(Len(output) - 1) :
    /\ wire' = wire \o MessagesIn(SubSeq(output, 1, n))
    /\ output' = SubSeq(output, n + 1, Len(output))
    /\ UNCHANGED <<clientQueueMaxSize, msgQueue, offered, written,
                   m_sentCount, m_discardCount>>

\* Mutant: the callback takes the finished frame off and writes nothing.
BugStall_WriteAll ==
  /\ output # <<>>
  /\ wire' = wire \o MessagesIn(output)
  /\ msgQueue' = IF msgQueue = <<>> THEN <<>> ELSE Tail(msgQueue)
  /\ output' = <<>> /\ written' = written
  /\ UNCHANGED <<clientQueueMaxSize, offered, m_sentCount,
                 m_discardCount>>

\* It takes all of it: OnClientWriteCB takes the head off the queue and writes
\* the next frame.
WriteAll ==
  LET rest == IF msgQueue = <<>> THEN <<>> ELSE Tail(msgQueue) IN
  /\ output # <<>>
  /\ wire' = wire \o MessagesIn(output)
  /\ msgQueue' = rest
  /\ IF rest = <<>>
     THEN output' = <<>> /\ written' = written
     ELSE output' = <<Head(rest)>> /\ written' = Append(written, Head(rest))
  /\ UNCHANGED <<clientQueueMaxSize, offered, m_sentCount,
                 m_discardCount>>

SetClientQueueMaxSize ==
  /\ clientQueueMaxSize' \in QueueLimits
  /\ UNCHANGED <<msgQueue, output, wire, offered, written,
                 m_sentCount, m_discardCount>>

QueueNext ==
  \/ DeliverToClient \/ SendPing \/ WriteSome \/ WriteAll
  \/ SetClientQueueMaxSize

QueueSpec == QueueInit /\ [][QueueNext]_queueVars

-----------------------------------------------------------------------------
(***************************************************************************)
(* Properties                                                              *)
(***************************************************************************)

\* Every variable keeps its type.
QueueTypeOK ==
  /\ clientQueueMaxSize \in QueueLimits
  /\ msgQueue \in Seq(Nat)
  /\ output \in Seq(Nat \cup {Ctl})
  /\ wire \in Seq(Nat) /\ written \in Seq(Nat)
  /\ offered \in Nat
  /\ m_sentCount \in Nat /\ m_discardCount \in Nat

\* Sending never stalls: as long as the queue holds anything there is output
\* whose draining calls OnClientWriteCB, whatever control frames came between.
NoStall == msgQueue # <<>> => output # <<>>

\* The written messages are in the order offered, none of them twice.
WrittenInOrder ==
  \A i, j \in 1..Len(written) : i < j => written[i] < written[j]

\* The queue keeps the limit (the largest one it ever had).
QueueBounded == \E n \in QueueLimits : Len(msgQueue) <= n

\* At most one message is in the output buffer: the backlog of a slow client is
\* in the bounded queue.  (For limits of at least 2.)
OneInFlight ==
  \A i, j \in 1..Len(output) : output[i] # Ctl /\ output[j] # Ctl => i = j

\* Messages offered are written, waiting behind the head, or counted as
\* discarded; nothing goes uncounted.  (For limits of at least 2.)
DiscardsAreLosses ==
  offered = Len(written) + m_discardCount
            + (IF msgQueue = <<>> THEN 0 ELSE Len(msgQueue) - 1)

\* The client is served as BcChannel says: the head of the queue stands for
\* the transmission, the rest waits.
Channel == INSTANCE BcChannel WITH
  Messages <- 1..MaxOffered,
  limit <- clientQueueMaxSize,
  busy <- msgQueue # <<>>,
  waiting <- IF msgQueue = <<>> THEN <<>> ELSE Tail(msgQueue),
  transmitted <- written,
  lost <- m_discardCount

ImplementsChannel == Channel!ChanSpec

=============================================================================
