--------------------------- MODULE SendMachineMC ---------------------------
(* SendMachine for TLC. *)
EXTENDS SendMachine
=============================================================================
