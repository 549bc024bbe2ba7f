------------------------------ MODULE MC_Clock ------------------------------
(***************************************************************************)
(* Clock for TLC; the constants are given in the configuration.            *)
(***************************************************************************)
EXTENDS Clock
=============================================================================
