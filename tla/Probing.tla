------------------------------ MODULE Probing -------------------------------
(***************************************************************************)
(* What the sensor probes (modules Dht, Hcsr04, ShrPiso) share: one thread *)
(* that is in at most one probe, its scheduling (module Sched), and the    *)
(* output pins.  A GPIO call sets the pin or fails; one that fails leaves  *)
(* it, save that of an open drain on sysfs, which may pull it low all the  *)
(* same: the direction is written before the value.  Clock calls fail on   *)
(* the system driver only; the others' results are not looked at           *)
(* (EXECLK_RG).                                                            *)
(***************************************************************************)
EXTENDS Sched, FiniteSets

CONSTANTS SysDriver,  \* CONFIG_CLOCK_SYS_DRIVER
          MaxRefused  \* bound on the pins whose last write has failed

VARIABLES pc,       \* where the thread is in a probe; "idle" outside
          ret,      \* lr_errc_t of the probe in progress or the last one
          pins,     \* level of the output pins
          refused   \* history: pins whose last write has failed

callVars == <<pc, ret, pins, refused>>

Outputs == {"DATA", "TRIG", "SH_LD", "CLK"}

\* levels before and after a probe (dht.h, hcsr04.h, shr_piso.h)
Rest == [p \in Outputs |-> IF p = "TRIG" THEN 0 ELSE 1]

ProbingInit ==
  /\ thr \in Starts /\ sched_h = NoHandle
  /\ pc = "idle" /\ ret = "SUCCESS" /\ pins = Rest /\ refused = {}

\* gpio_set_value(), gpio_opndrn_set_value(): the write that succeeds, and
\* the one that fails
Write(p, v) == pins' = [pins EXCEPT ![p] = v] /\ refused' = refused \ {p}
Refuse(p) ==
  /\ refused' = refused \cup {p}
  /\ p \in refused \/ Cardinality(refused) < MaxRefused
WriteFails(p) == Refuse(p) /\ UNCHANGED pins

\* gpio_opndrn_set_value(.., 0), which is gpio_direction_output(.., 0), fails:
\* before the pin has become an output, which starts low, or after it
PullFails(p) == Refuse(p) /\ pins' \in {pins, [pins EXCEPT ![p] = 0]}
NoWrite == UNCHANGED <<pins, refused>>

\* a clock call that fails
ClockFails == SysDriver /\ NoWrite

\* EXEC_RG: the error code, and on to finish
Fail(code, finish) == ret' = code /\ pc' = finish

\* mutant: the pin stays where it is
FinishAway(away, p) == LastRestore(sched_h) /\ NoWrite

\* the way out: once more sched_restore(), and the pin back if the probe had
\* it away from its rest
Finish(away, p) ==
  /\ LastRestore(sched_h)
  /\ IF away THEN Write(p, Rest[p]) \/ WriteFails(p) ELSE NoWrite
=============================================================================
