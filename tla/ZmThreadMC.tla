----------------------------- MODULE ZmThreadMC -----------------------------
(***************************************************************************)
(* ZmThread for TLC.                                                       *)
(***************************************************************************)
EXTENDS ZmThread

CONSTANTS c1, c2
=============================================================================
