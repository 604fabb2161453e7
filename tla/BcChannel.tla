----------------------------- MODULE BcChannel -----------------------------
(***************************************************************************)
(* What the broadcast server promises one connected client: messages       *)
(* arrive in the order in which they were offered, none twice.  One is in  *)
(* transmission, the others wait; a message is lost only when it finds     *)
(* the waiting line full, and then exactly one waiting message goes.       *)
(***************************************************************************)
EXTENDS Naturals, Sequences

CONSTANT Messages

VARIABLES
  limit,       \* messages the client may have outstanding
  busy,        \* a message is in transmission
  waiting,     \* messages that wait behind it
  transmitted, \* messages handed to the connection, in order
  lost         \* how many messages were given up

chanVars == <<limit, busy, waiting, transmitted, lost>>

ChanInit ==
  /\ limit \in Nat \ {0} /\ ~busy /\ waiting = <<>> /\ transmitted = <<>> /\ lost = 0

\* An idle connection transmits at once.
OfferIdle(m) ==
  /\ ~busy
  /\ busy' = TRUE
  /\ transmitted' = Append(transmitted, m)
  /\ UNCHANGED <<limit, waiting, lost>>

OfferWaits(m) ==
  /\ busy /\ Len(waiting) + 1 < limit
  /\ waiting' = Append(waiting, m)
  /\ UNCHANGED <<limit, busy, transmitted, lost>>

\* The line is full: the oldest waiting message goes.
OfferFull(m) ==
  /\ busy /\ Len(waiting) + 1 >= limit /\ waiting # <<>>
  /\ waiting' = Append(Tail(waiting), m)
  /\ lost' = lost + 1
  /\ UNCHANGED <<limit, busy, transmitted>>

\* The message in transmission is through.
Through ==
  /\ busy
  /\ IF waiting = <<>>
     THEN busy' = FALSE /\ UNCHANGED <<waiting, transmitted>>
     ELSE /\ transmitted' = Append(transmitted, Head(waiting))
          /\ waiting' = Tail(waiting)
          /\ busy' = busy
  /\ UNCHANGED <<limit, lost>>

SetLimit == limit' \in Nat \ {0} /\ UNCHANGED <<busy, waiting, transmitted, lost>>

ChanNext ==
  \/ \E m \in Messages : OfferIdle(m) \/ OfferWaits(m) \/ OfferFull(m)
  \/ Through \/ SetLimit

ChanSpec == ChanInit /\ [][ChanNext]_chanVars
=============================================================================
