------------------------------ MODULE ShrPiso -------------------------------
(***************************************************************************)
(* Reading a parallel-in serial-out shift register                         *)
(* (src/src/devices/shr_piso.c).  The register loads its inputs while      *)
(* SH/~LD is low and shifts at a rising edge of CLK while it is high.      *)
(* Bit n of the result goes to bit n % 8 of byte n \div 8.                 *)
(***************************************************************************)
EXTENDS Probing, Sequences

CONSTANT MaxBits   \* bound on n_dta_bits

ASSUME MaxBitsAssumption == MaxBits \in Nat

VARIABLES inputs,  \* at the register's parallel inputs
          shreg,   \* the register; its first bit is at the output
          out,     \* bits read
          clk_low  \* the clock is low

pisoVars == <<inputs, shreg, out, clk_low>>

PisoInit == inputs = <<>> /\ shreg = <<>> /\ out = <<>> /\ clk_low = FALSE

\* a write of CLK: a rising edge shifts
Clock(v) ==
  /\ Write("CLK", v)
  /\ clk_low' = (v = 0)
  /\ shreg' = IF v = 1 /\ pins["CLK"] = 0 /\ pins["SH_LD"] = 1 /\ shreg # <<>>
              THEN Tail(shreg) ELSE shreg

ClockFail == WriteFails("CLK") /\ Fail("GPIO_ERR", "p_finish") /\ UNCHANGED <<clk_low, shreg>>

PisoCall ==
  /\ pc = "idle"
  /\ \E n \in 0..MaxBits : /\ inputs' \in [1..n -> {0, 1}]
                           /\ pc' = IF n = 0 THEN "idle" ELSE "p_load"
  /\ ret' = "SUCCESS"
  /\ UNCHANGED <<schedVars, pins, refused, shreg, out, clk_low>>

\* SH/~LD low: the register takes the inputs
PisoLoad ==
  /\ pc = "p_load"
  /\ \/ Write("SH_LD", 0) /\ shreg' = inputs /\ pc' = "p_hold" /\ UNCHANGED ret
     \/ WriteFails("SH_LD") /\ Fail("GPIO_ERR", "p_finish") /\ UNCHANGED shreg
  /\ UNCHANGED <<schedVars, inputs, out, clk_low>>

PisoHold ==
  /\ pc = "p_hold"
  /\ \/ Write("SH_LD", 1) /\ pc' = "p_fall" /\ UNCHANGED ret
     \/ WriteFails("SH_LD") /\ Fail("GPIO_ERR", "p_finish")
  /\ UNCHANGED <<schedVars, pisoVars>>

PisoFall ==
  /\ pc = "p_fall"
  /\ \/ Clock(0) /\ pc' = "p_read" /\ UNCHANGED ret
     \/ ClockFail
  /\ UNCHANGED <<schedVars, inputs, out>>

PisoRead ==
  /\ pc = "p_read"
  /\ \/ /\ out' = Append(out, IF shreg = <<>> THEN 0 ELSE Head(shreg))
        /\ pc' = "p_rise" /\ UNCHANGED ret
     \/ Fail("GPIO_ERR", "p_finish") /\ UNCHANGED out
  /\ UNCHANGED <<schedVars, pins, refused, inputs, shreg, clk_low>>

\* mutant: the next bit is read without another pulse
PisoRiseOnce ==
  /\ pc = "p_rise"
  /\ \/ Clock(1) /\ pc' = (IF Len(out) = Len(inputs) THEN "p_finish" ELSE "p_read") /\ UNCHANGED ret
     \/ ClockFail
  /\ UNCHANGED <<schedVars, inputs, out>>

PisoRise ==
  /\ pc = "p_rise"
  /\ \/ Clock(1) /\ pc' = (IF Len(out) = Len(inputs) THEN "p_finish" ELSE "p_fall") /\ UNCHANGED ret
     \/ ClockFail
  /\ UNCHANGED <<schedVars, inputs, out>>

\* the clock back to high
PisoFinish ==
  /\ pc = "p_finish"
  /\ IF clk_low THEN Write("CLK", 1) \/ WriteFails("CLK") ELSE NoWrite
  /\ pc' = "idle" /\ clk_low' = FALSE
  /\ inputs' = <<>> /\ shreg' = <<>> /\ out' = <<>>
  /\ UNCHANGED <<schedVars, ret>>

PisoStep == PisoLoad \/ PisoHold \/ PisoFall \/ PisoRead \/ PisoRise \/ PisoFinish
PisoNext == PisoCall \/ PisoStep
=============================================================================
