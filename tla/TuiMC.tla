------------------------------- MODULE TuiMC -------------------------------
(***************************************************************************)
(* An instance of Tui for TLC.                                             *)
(***************************************************************************)
EXTENDS Tui
=============================================================================
