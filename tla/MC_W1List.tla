----------------------------- MODULE MC_W1List -----------------------------
(***************************************************************************)
(* W1List for TLC; the constants are given in the configurations.          *)
(***************************************************************************)
EXTENDS W1List
=============================================================================
