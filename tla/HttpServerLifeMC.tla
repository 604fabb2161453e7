-------------------------- MODULE HttpServerLifeMC --------------------------
(***************************************************************************)
(* HttpServerLife for TLC: three threads that call the server, a request   *)
(* and a probe, two run threads.  The callers differ in nothing, but the   *)
(* liveness property excludes symmetry.                                    *)
(***************************************************************************)
EXTENDS HttpServerLife

CONSTANTS c1, c2, c3, r1, p1
=============================================================================
