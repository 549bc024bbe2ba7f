------------------------------- MODULE Hcsr04 -------------------------------
(***************************************************************************)
(* Probing an HC-SR04 ranger (src/src/devices/hcsr04.c): trigger it, wait  *)
(* for the echo to begin, which has a time limit, and for its end, which   *)
(* has none.                                                               *)
(***************************************************************************)
EXTENDS Probing

VARIABLES echo,      \* level of the echo pin
          resp_cnt,  \* the echo was seen: resp_cnt > 0
          set_high,  \* the trigger is high
          wild       \* history: a scheduler was restored from garbage

hcsrVars == <<echo, resp_cnt, set_high, wild>>

HcsrInit == echo = 0 /\ resp_cnt = FALSE /\ set_high = FALSE /\ wild = FALSE

\* the first tick; if it cannot be read, finish restores from a handle that
\* was never written
HcsrCall ==
  /\ pc = "idle"
  /\ ret' = "SUCCESS" /\ set_high' = FALSE /\ resp_cnt' = FALSE
  /\ \/ pc' = "h_trigger" /\ UNCHANGED <<schedVars, wild>>
     \/ /\ SysDriver /\ Fail("CLOCK_ERR", "idle")
        /\ \E h \in Wild : LastRestore(h) /\ wild' = (wild \/ h.sched # Unsaved)
  /\ UNCHANGED <<pins, refused, echo>>

HcsrTrigger ==
  /\ pc = "h_trigger"
  /\ sched_rt_raise_max
  /\ \/ Write("TRIG", 1) /\ set_high' = TRUE /\ pc' = "h_release" /\ UNCHANGED ret
     \/ WriteFails("TRIG") /\ Fail("GPIO_ERR", "h_finish") /\ UNCHANGED set_high
  /\ UNCHANGED <<echo, resp_cnt, wild>>

\* 100 us later
HcsrRelease ==
  /\ pc = "h_release"
  /\ \/ Write("TRIG", 0) /\ set_high' = FALSE /\ pc' = "h_wait" /\ UNCHANGED ret
     \/ WriteFails("TRIG") /\ Fail("GPIO_ERR", "h_finish") /\ UNCHANGED set_high
     \/ ClockFails /\ Fail("CLOCK_ERR", "h_finish") /\ UNCHANGED set_high
  /\ UNCHANGED <<schedVars, echo, resp_cnt, wild>>

\* state 0: wait for the echo, for BREAK_THRSHD at most; state 1: count it
HcsrRead ==
  /\ UNCHANGED <<schedVars, ret, pins, refused, echo, set_high, wild>>
  /\ \/ pc = "h_wait" /\ echo = 1 /\ resp_cnt' = TRUE /\ pc' = "h_count"
     \/ pc = "h_wait" /\ echo = 0 /\ pc' = "h_decode" /\ UNCHANGED resp_cnt
     \/ pc = "h_count" /\ echo = 0 /\ pc' = "h_decode" /\ UNCHANGED resp_cnt

HcsrReadFails ==
  /\ pc \in {"h_wait", "h_count"}
  /\ \E code \in {"GPIO_ERR"} \cup (IF SysDriver THEN {"CLOCK_ERR"} ELSE {}) : Fail(code, "h_finish")
  /\ UNCHANGED <<schedVars, pins, refused, hcsrVars>>

HcsrDecode ==
  /\ pc = "h_decode"
  /\ sched_restore
  /\ ret' = IF resp_cnt THEN "SUCCESS" ELSE "NO_RESP"
  /\ pc' = "h_finish"
  /\ UNCHANGED <<pins, refused, hcsrVars>>

HcsrFinish ==
  /\ pc = "h_finish"
  /\ Finish(set_high, "TRIG")
  /\ pc' = "idle" /\ resp_cnt' = FALSE /\ set_high' = FALSE
  /\ UNCHANGED <<ret, echo, wild>>

\* the sensor, while it is asked
Echo(v) ==
  /\ pc \in {"h_wait", "h_count"} /\ echo = 1 - v
  /\ v = 1 => ~resp_cnt
  /\ echo' = v
  /\ UNCHANGED <<schedVars, callVars, resp_cnt, set_high, wild>>

\* it falls silent by the time of the next probe
EchoOver ==
  /\ pc \notin {"h_wait", "h_count"} /\ echo = 1
  /\ echo' = 0
  /\ UNCHANGED <<schedVars, callVars, resp_cnt, set_high, wild>>

HcsrStep == HcsrTrigger \/ HcsrRelease \/ HcsrRead \/ HcsrDecode \/ HcsrFinish
HcsrNext == HcsrCall \/ HcsrStep \/ HcsrReadFails \/ EchoOver \/ \E v \in {0, 1} : Echo(v)
=============================================================================
