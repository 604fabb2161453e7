--------------------------- MODULE BroadcastTagsMC ---------------------------
(***************************************************************************)
(* BroadcastTags for TLC.                                                  *)
(***************************************************************************)
EXTENDS BroadcastTags

CONSTANTS a, b, u1

OneTag   == [t \in Tags |-> IF t = a THEN 1 ELSE 0]

\* One thread makes all calls: one of the application, or the loop's.
OneCaller == {{u1}, {Loop}}
=============================================================================
