----------------------------- MODULE MC_Sensors -----------------------------
(***************************************************************************)
(* Sensors for TLC: messages of two data bits and one of checksum, threads *)
(* of several schedulers and nice values.                                  *)
(***************************************************************************)
EXTENDS Sensors

MCStarts == {Plain, [Plain EXCEPT !.nice = 1], [sched |-> "fifo", prio |-> 2, nice |-> 0]}
MCPlain == {Plain}
=============================================================================
