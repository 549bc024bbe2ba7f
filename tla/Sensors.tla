------------------------------ MODULE Sensors -------------------------------
(***************************************************************************)
(* A program that probes its sensors one after the other: DHT, HC-SR04 and *)
(* a shift register, in any order, with what they share: the thread's      *)
(* scheduling and the pins.                                                *)
(***************************************************************************)
EXTENDS Dht, Hcsr04, ShrPiso

VARIABLE orig   \* history: the thread's scheduling when the program started

vars == <<schedVars, callVars, dhtVars, hcsrVars, pisoVars, orig>>

Init == /\ ProbingInit /\ DhtInit /\ HcsrInit /\ PisoInit
        /\ orig = thr

Next ==
  /\ \/ DhtNext /\ UNCHANGED <<hcsrVars, pisoVars>>
     \/ HcsrNext /\ UNCHANGED <<dhtVars, pisoVars>>
     \/ PisoNext /\ UNCHANGED <<dhtVars, hcsrVars>>
  /\ UNCHANGED orig

Spec == Init /\ [][Next]_vars

\* the thread runs, time passes on the data line, and an echo ends; no sample
\* has to fail
Fairness ==
  /\ WF_vars(DhtStep /\ UNCHANGED <<hcsrVars, pisoVars, orig>>)
  /\ WF_vars(HcsrStep /\ UNCHANGED <<dhtVars, pisoVars, orig>>)
  /\ WF_vars(PisoStep /\ UNCHANGED <<dhtVars, hcsrVars, orig>>)
  /\ WF_vars(Echo(0) /\ UNCHANGED <<dhtVars, pisoVars, orig>>)

FairSpec == Spec /\ Fairness

-----------------------------------------------------------------------------
Plain == [sched |-> "other", prio |-> 0, nice |-> 0]

\* Between probes a thread that started with the ordinary scheduler and no
\* nice value has it again, whichever step of the probe failed (common.h).
\* A scheduler restored from a handle never written is the exception.
GivenBack == pc = "idle" /\ orig = Plain /\ ~wild => thr = orig

\* The same of every thread: "restore the original scheduler and its
\* priority" (common.h:161).
GivenBackAlways == pc = "idle" => thr = orig

\* Between probes each pin is at the level the headers name as the state
\* after a call, whichever step failed; unless the last write of that very
\* pin was refused.
PinsAtRest == pc = "idle" => \A p \in Outputs \ refused : pins[p] = Rest[p]

\* When no sample came late and the sensor has sent its whole message, the
\* decoded bits are those sent, the greeting being neither taken for a bit
\* nor one dropped for it; and the try succeeds.
PromptIsExact ==
  pc = "d_decode" /\ slips = 0 /\ sensor.phases = LastPhase
  => Result = "SUCCESS" /\ Data = sensor.bits

\* dht_probe_retried() reports a missing device only of one that has not sent
\* a signal in any try, after CD_NO_RESP tries; it gives up only after all
\* the retries; and it ends with neither of the results of a single try.
RetriesTold ==
  [][pc = "d_retry" /\ pc' = "idle"
     => /\ ret' \notin {"NO_RESP", "DTA_CRPT"}
        /\ ret' = "NO_DEV" => ~heard /\ try.n = CD_NO_RESP
        /\ ret' = "DEV_ERR" => try.n = try.max + 1]_vars

\* The bits read of a shift register are its inputs in order: between two
\* reads the clock rises once, also after a read that was broken off.
PisoExact == pc = "p_finish" /\ ret = "SUCCESS" => out = inputs

\* Every probe comes to its end, given that an echo does.
ProbesReturn == pc # "idle" ~> pc = "idle"
=============================================================================
