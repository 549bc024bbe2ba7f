----------------------------- MODULE MC_NrfHal ------------------------------
(***************************************************************************)
(* NrfHal for TLC: pipe 0 has a full address, pipe 2 one byte; an unread   *)
(* byte makes an address of 2, 5, 6, 33 or 0 bytes.                        *)
(***************************************************************************)
EXTENDS NrfHal

=============================================================================
