------------------------------ MODULE GpioPull ------------------------------
(***************************************************************************)
(* Pull resistors of pins (gpio_bcm_set_pull_config() of src/src/gpio.c)   *)
(* beside the rest of the GPIO calls (module Gpio).                        *)
(*                                                                         *)
(* The chip has one register GPPUD for the kind of resistor and one bit    *)
(* per pin, in GPPUDCLK, whose rising edge clocks the kind into the pin.   *)
(* The call writes them one after the other, with pauses, and both         *)
(* are shared with every other process.                                    *)
(***************************************************************************)
EXTENDS Gpio

CONSTANTS Pulls,  \* gpio_bcm_pull_t, or some of it with "off"
          Apart   \* bound: no resistor is set while a pin is exported (the pull
                  \* registers and sysfs have nothing in common)

ASSUME PullAssumption == "off" \in Pulls /\ Apart \in BOOLEAN

VARIABLES gppud,     \* hardware: GPPUD
          gppudclk,  \* hardware: the pins whose bit in GPPUDCLK is set
          pull       \* hardware: the resistor of a pin

pullVars == <<gppud, gppudclk, pull>>

PullUnused == gppud = "off" /\ gppudclk = {} /\ pull = [p \in Pins |-> "off"]

PullInit ==
  /\ Init
  /\ PullUnused

\* in the middle of a call: GPPUD written, the clock set, GPPUD cleared
PullSites == {"pud", "clk", "unpud"}

\* users who coordinate change one pin's resistor at a time
PullAlone(h) == Exclusive => \A g \in Handles \ {h} : pc[g] \notin PullSites

-----------------------------------------------------------------------------
gpio_bcm_set_pull_config(h, p, kind) ==
  /\ pc[h] = "idle" /\ drv[h] # "none"
  /\ \/ /\ mapped[h] /\ PullAlone(h)
        /\ Enter(h, "pud", p, kind, NoVal)
        /\ gppud' = kind
        /\ UNCHANGED fsel
     \/ /\ ~mapped[h]
        /\ Return(h, "FAILED")      \* NOINIT
        /\ UNCHANGED gppud
  /\ UNCHANGED <<handleVars, regVars, sysfsVars, gppudclk, pull>>

\* the whole clock register is written; a bit that was set has no edge
ClockPull(h) ==
  LET p == arg[h].pin
  IN /\ Continue(h, "pud", "clk")
     /\ gppudclk' = {p}
     /\ pull' = IF p \in gppudclk THEN pull ELSE [pull EXCEPT ![p] = gppud]
     /\ UNCHANGED <<handleVars, arg, fsel, regVars, sysfsVars, gppud>>

ClearPull(h) ==
  /\ Continue(h, "clk", "unpud")
  /\ gppud' = "off"
  /\ UNCHANGED <<handleVars, arg, fsel, regVars, sysfsVars, gppudclk, pull>>

\* mutant: the clock stays set
UnclockPullNot(h) ==
  /\ pc[h] = "unpud"
  /\ Return(h, "SUCCESS")
  /\ UNCHANGED <<handleVars, regVars, sysfsVars, gppud, gppudclk, pull>>

UnclockPull(h) ==
  /\ pc[h] = "unpud"
  /\ gppudclk' = {}
  /\ Return(h, "SUCCESS")
  /\ UNCHANGED <<handleVars, regVars, sysfsVars, gppud, pull>>

PullNext ==
  /\ \/ Next /\ UNCHANGED pullVars
     \/ \E h \in Handles :
          \/ \E p \in Pins, kind \in Pulls : gpio_bcm_set_pull_config(h, p, kind)
          \/ ClockPull(h) \/ ClearPull(h) \/ UnclockPull(h)
  /\ Apart => export' = {} \/ PullUnused'

PullSpec == PullInit /\ [][PullNext]_<<vars, pullVars>>

-----------------------------------------------------------------------------
\* gpio_bcm_set_pull_config() succeeds only when the pin has the resistor asked
\* for, and the resistor of a pin changes only in a call for that pin, though
\* the registers are shared; provided that processes do not set resistors at
\* the same time, to which nothing in the library sees.
PullAsAsked ==
  [][\A h \in Handles, p \in Pins :
       /\ pc[h] = "unpud" /\ Returns(h, "SUCCESS") => pull'[arg[h].pin] = arg[h].what
       /\ pull'[p] # pull[p] => \E g \in Handles : pc[g] = "pud" /\ arg[g].pin = p
    ]_<<vars, pullVars>>
=============================================================================
