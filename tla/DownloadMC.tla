----------------------------- MODULE DownloadMC -----------------------------
(***************************************************************************)
(* Download for TLC.                                                       *)
(***************************************************************************)
EXTENDS Download
=============================================================================
