---------------------------- MODULE ThreadPoolMC ----------------------------
(***************************************************************************)
(* ThreadPool for TLC.  The liveness properties rule out symmetry, and the *)
(* bounds are set in the configuration.                                    *)
(***************************************************************************)
EXTENDS ThreadPool, TLC
=============================================================================
