----------------------------- MODULE MC_W1Exec -----------------------------
(***************************************************************************)
(* W1Exec for TLC; the constants are given in the configurations.          *)
(***************************************************************************)
EXTENDS W1Exec
=============================================================================
