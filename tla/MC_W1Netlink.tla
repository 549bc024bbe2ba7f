---------------------------- MODULE MC_W1Netlink ----------------------------
(***************************************************************************)
(* W1Netlink for TLC: requests to a bus master, stray data of a slave too.  *)
(***************************************************************************)
EXTENDS W1Netlink, TLC

CONSTANTS m1, s1

MCIds == {m1, s1}
OneRequest == {[type |-> "master", id |-> m1]}
=============================================================================
