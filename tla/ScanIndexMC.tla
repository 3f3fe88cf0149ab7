---------------------------- MODULE ScanIndexMC ----------------------------
(***************************************************************************)
(* An instance of ScanIndex for TLC.                                       *)
(***************************************************************************)
EXTENDS ScanIndex
=============================================================================
