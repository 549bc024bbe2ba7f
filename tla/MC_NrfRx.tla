------------------------------ MODULE MC_NrfRx ------------------------------
(***************************************************************************)
(* NrfRx for TLC.                                                          *)
(***************************************************************************)
EXTENDS NrfRx
=============================================================================
