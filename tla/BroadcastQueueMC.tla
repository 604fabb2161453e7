-------------------------- MODULE BroadcastQueueMC --------------------------
(***************************************************************************)
(* BroadcastQueue for TLC: with a limit of 1 the bufferevent, not the      *)
(* queue, holds a slow client's messages.                                  *)
(***************************************************************************)
EXTENDS BroadcastQueue

AtLeastTwo == {2, 3}
=============================================================================
