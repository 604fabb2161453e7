-------------------------- MODULE BroadcastClientMC --------------------------
(***************************************************************************)
(* BroadcastClient for TLC.                                                *)
(***************************************************************************)
EXTENDS BroadcastClient

CONSTANT u1

\* One thread makes all calls: one of the application, or the loop's.
OneCaller == {{u1}, {Loop}}

=============================================================================
