---------------------------- MODULE LoopTimersMC ----------------------------
(***************************************************************************)
(* LoopTimers for TLC.                                                     *)
(***************************************************************************)
EXTENDS LoopTimers

CONSTANTS t1, t2, t3, x1, x2
=============================================================================
