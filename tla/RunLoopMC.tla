----------------------------- MODULE RunLoopMC -----------------------------
(***************************************************************************)
(* RunLoop for TLC: one caller uses Loop(), all of them stop.              *)
(***************************************************************************)
EXTENDS RunLoop

CONSTANTS c1, c2, c3

OneLooper == {c1}
=============================================================================
