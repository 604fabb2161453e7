-------------------------- MODULE BroadcastServerMC --------------------------
(***************************************************************************)
(* BroadcastServer for TLC.                                                *)
(***************************************************************************)
EXTENDS BroadcastServer, TLC

CONSTANTS o1, s1, c1

=============================================================================
