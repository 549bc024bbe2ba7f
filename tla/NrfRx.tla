------------------------------- MODULE NrfRx -------------------------------
(***************************************************************************)
(* The receiver of src/examples/nrf24/nrf_rx.c: the radio with its FIFO    *)
(* and interrupt line, and the loop that empties the FIFO, in both builds: *)
(* waiting for edges of the line (GPIO_IRQ defined), or looking at the     *)
(* flags every millisecond.  Pins are those of Gpio: CE through its I/O    *)
(* driver and IRQ, active low, through sysfs.                              *)
(*                                                                         *)
(* SPI transfers are steps of their own: the radio goes on receiving while *)
(* they run.  They are taken to succeed.                                   *)
(***************************************************************************)
EXTENDS Integers, Sequences

CONSTANTS
  Builds,         \* with GPIO_IRQ defined: TRUE, FALSE, or both
  RESTART_DELAY,  \* in loops of the build without GPIO_IRQ
  FifoSize,       \* packets the radio holds
  MaxSent         \* bound: packets that arrive

ASSUME NrfRxAssumption ==
  /\ Builds \subseteq BOOLEAN /\ Builds # {}
  /\ RESTART_DELAY \in Nat \ {0} /\ FifoSize \in Nat \ {0} /\ MaxSent \in Nat

VARIABLES
  drv, mapped, valfd, pc, arg, fsel, ret, func, latch, export, event, pend, seen,
  GPIO_IRQ,   \* the build
  at,         \* where the program is
  cnt, irq_flg, rx_finish,
  powered,    \* radio: PWR_UP
  fifo,       \* radio: received packets; of a packet only what is said of it below
  rx_dr,      \* radio: STATUS.RX_DR, which holds the line low
  sent        \* history: packets that arrived

\* What is said of a packet (history): that it is "new"; that the flags were
\* "checked" since it arrived; or that it arrived while they were "cleared".
Packets == {"new", "checked", "cleared"}

gpioVars == <<drv, mapped, valfd, pc, arg, fsel, ret, func, latch, export, event, pend, seen>>
loopVars == <<GPIO_IRQ, at, cnt, irq_flg, rx_finish>>
radioVars == <<powered, fifo, rx_dr, sent>>
vars == <<gpioVars, loopVars, radioVars>>

rx == "rx"
CE == "CE"
IRQ == "IRQ"

G == INSTANCE Gpio WITH
       Handles <- {rx}, Pins <- {CE, IRQ}, NoPin <- "none", SysfsPins <- {IRQ},
       Banks <- {{CE}, {IRQ}}, Funcs <- {"in", "out"},
       Edges <- {"rising", "falling"}, Exclusive <- TRUE

\* main() up to restart: the pins are set up; the radio is as the last program left it.
Init ==
  /\ GPIO_IRQ \in Builds
  /\ drv = [h \in {rx} |-> "io"] /\ mapped = [h \in {rx} |-> TRUE]
  /\ valfd = [h \in {rx} |-> [p \in {CE, IRQ} |->
                IF p = IRQ /\ GPIO_IRQ THEN "live" ELSE "none"]]
  /\ pc = [h \in {rx} |-> "idle"] /\ arg = [h \in {rx} |-> G!NoArg]
  /\ fsel = [h \in {rx} |-> G!NoCopy] /\ ret = "none"
  /\ func = [p \in {CE, IRQ} |-> IF p = CE THEN "out" ELSE "in"]
  /\ latch = [p \in {CE, IRQ} |-> 0]
  /\ export = IF GPIO_IRQ THEN {IRQ} ELSE {}
  /\ event = [p \in {CE, IRQ} |-> IF p = IRQ /\ GPIO_IRQ THEN {"rising", "falling"} ELSE {}]
  /\ pend = [h \in {rx} |-> [p \in {CE, IRQ} |-> p = IRQ /\ GPIO_IRQ]]
  /\ seen = [h \in {rx} |-> FALSE]
  /\ at = "power_up" /\ cnt = 0 /\ irq_flg = FALSE /\ rx_finish = FALSE
  /\ powered \in BOOLEAN /\ rx_dr \in BOOLEAN /\ fifo \in {<<>>, <<"new">>} /\ sent = 0

-----------------------------------------------------------------------------
(***************************************************************************)
(* The radio.                                                              *)
(***************************************************************************)

Line(edge) == IF edge \in event[IRQ] THEN G!Edge(IRQ, edge) ELSE UNCHANGED gpioVars

\* A packet arrives and is acknowledged.  When the FIFO is full it is refused.
Receive ==
  /\ latch[CE] = 1 /\ powered
  /\ sent < MaxSent /\ Len(fifo) < FifoSize
  /\ sent' = sent + 1
  /\ fifo' = Append(fifo, IF at = "clear" THEN "cleared" ELSE "new")
  /\ rx_dr' = TRUE
  /\ IF rx_dr THEN UNCHANGED gpioVars ELSE Line("falling")
  /\ UNCHANGED <<loopVars, powered>>

-----------------------------------------------------------------------------
(***************************************************************************)
(* The program.                                                            *)
(***************************************************************************)

Go(from, to) == at = from /\ at' = to

\* mutant: the radio is not disabled
ChipDisableNot ==
  /\ Go("restart", "power_down")
  /\ UNCHANGED <<gpioVars, GPIO_IRQ, cnt, irq_flg, rx_finish, radioVars>>

\* restart: only the chip_disable() keeps the radio from receiving during init_rx().
ChipDisable ==
  /\ Go("restart", "power_down")
  /\ G!set_value_io(rx, CE, 0)
  /\ UNCHANGED <<GPIO_IRQ, cnt, irq_flg, rx_finish, radioVars>>

SetPowerMode(from, to, on) ==
  /\ Go(from, to)
  /\ powered' = on
  /\ UNCHANGED <<gpioVars, GPIO_IRQ, cnt, irq_flg, rx_finish, fifo, rx_dr, sent>>

\* hal_nrf_flush_rx() leaves the flags alone.
FlushRx ==
  /\ Go("flush", "config")
  /\ fifo' = <<>>
  /\ UNCHANGED <<gpioVars, GPIO_IRQ, cnt, irq_flg, rx_finish, powered, rx_dr, sent>>

\* the rest of init_rx(): registers that are set once and for all
Configure ==
  /\ Go("config", "enable")
  /\ UNCHANGED <<gpioVars, GPIO_IRQ, cnt, irq_flg, rx_finish, radioVars>>

ChipEnable ==
  /\ Go("enable", "loop")
  /\ G!set_value_io(rx, CE, 1)
  /\ cnt' = 0
  /\ UNCHANGED <<GPIO_IRQ, irq_flg, rx_finish, radioVars>>

LoopTest ==
  /\ Go("loop", IF rx_finish THEN "finish" ELSE IF GPIO_IRQ THEN "purge" ELSE "status")
  /\ UNCHANGED <<gpioVars, GPIO_IRQ, cnt, irq_flg, rx_finish, radioVars>>

Poll ==
  /\ Go("purge", "poll")
  /\ G!gpio_sysfs_poll(rx, IRQ)
  /\ UNCHANGED <<GPIO_IRQ, cnt, irq_flg, rx_finish, radioVars>>

\* mutant: the poll has no timeout
PollReturnsNever ==
  /\ Go("poll", "status")
  /\ G!PollReturns(rx) /\ ret' = "SUCCESS"
  /\ UNCHANGED <<GPIO_IRQ, cnt, irq_flg, rx_finish, radioVars>>

PollReturns ==
  /\ Go("poll", "status")
  /\ G!PollReturns(rx) /\ ret' # "FAILED"
  /\ cnt' = IF ret' = "TIMEOUT" THEN cnt + RESTART_DELAY ELSE cnt
  /\ UNCHANGED <<GPIO_IRQ, irq_flg, rx_finish, radioVars>>

\* SIGINT or SIGTERM: a poll is interrupted.
Signal ==
  /\ at \notin {"finish", "unexport", "free", "done"}
  /\ rx_finish' = TRUE
  /\ IF at = "poll" THEN at' = "status" /\ G!PollReturns(rx) /\ ret' = "FAILED"
     ELSE UNCHANGED <<at, gpioVars>>
  /\ UNCHANGED <<GPIO_IRQ, cnt, irq_flg, radioVars>>

\* hal_nrf_get_clear_irq_flags(), one transfer: the status goes out first...
GetFlags ==
  /\ Go("status", "clear")
  /\ irq_flg' = rx_dr
  /\ fifo' = [i \in DOMAIN fifo |-> IF fifo[i] = "new" THEN "checked" ELSE fifo[i]]
  /\ UNCHANGED <<gpioVars, GPIO_IRQ, cnt, rx_finish, powered, rx_dr, sent>>

\* ...and then the flags are cleared.
ClearFlags ==
  /\ Go("clear", IF irq_flg THEN "fifo_empty" ELSE "count")
  /\ rx_dr' = FALSE
  /\ IF rx_dr THEN Line("rising") ELSE UNCHANGED gpioVars
  /\ UNCHANGED <<GPIO_IRQ, cnt, irq_flg, rx_finish, powered, fifo, sent>>

FifoEmpty ==
  /\ Go("fifo_empty", IF fifo = <<>> THEN "count" ELSE "read")
  /\ UNCHANGED <<gpioVars, GPIO_IRQ, cnt, irq_flg, rx_finish, radioVars>>

\* mutant: one packet for each interrupt
ReadPayloadOnce ==
  /\ Go("read", "count")
  /\ fifo' = Tail(fifo)
  /\ cnt' = 0
  /\ UNCHANGED <<gpioVars, GPIO_IRQ, irq_flg, rx_finish, powered, rx_dr, sent>>

ReadPayload ==
  /\ Go("read", "fifo_empty")
  /\ fifo' = Tail(fifo)
  /\ cnt' = 0
  /\ UNCHANGED <<gpioVars, GPIO_IRQ, irq_flg, rx_finish, powered, rx_dr, sent>>

\* mutant: what is left of the flags is cleared at the end of a round
CountClears ==
  /\ IF cnt >= RESTART_DELAY
     THEN Go("count", "restart") /\ cnt' = 0
     ELSE Go("count", "loop") /\ cnt' = IF GPIO_IRQ THEN cnt ELSE cnt + 1
  /\ rx_dr' = FALSE
  /\ UNCHANGED <<gpioVars, GPIO_IRQ, irq_flg, rx_finish, powered, fifo, sent>>

\* No packet for RESTART_DELAY: the radio is restarted.
Count ==
  /\ IF cnt >= RESTART_DELAY
     THEN Go("count", "restart") /\ cnt' = 0
     ELSE Go("count", "loop") /\ cnt' = IF GPIO_IRQ THEN cnt ELSE cnt + 1
  /\ UNCHANGED <<gpioVars, GPIO_IRQ, irq_flg, rx_finish, radioVars>>

\* finish: the radio goes down and the handles are freed.
Finish ==
  /\ Go("finish", IF GPIO_IRQ THEN "unexport" ELSE "free")
  /\ G!set_value_io(rx, CE, 0)
  /\ powered' = FALSE
  /\ UNCHANGED <<GPIO_IRQ, cnt, irq_flg, rx_finish, fifo, rx_dr, sent>>

Unexport ==
  /\ Go("unexport", "free")
  /\ G!gpio_sysfs_unexport(rx, IRQ)
  /\ UNCHANGED <<GPIO_IRQ, cnt, irq_flg, rx_finish, radioVars>>

Free ==
  /\ Go("free", "done")
  /\ G!gpio_free(rx)
  /\ UNCHANGED <<GPIO_IRQ, cnt, irq_flg, rx_finish, radioVars>>

Program ==
  \/ ChipDisable
  \/ SetPowerMode("power_down", "power_up", FALSE)
  \/ SetPowerMode("power_up", "flush", TRUE)
  \/ FlushRx \/ Configure \/ ChipEnable
  \/ LoopTest \/ Poll \/ PollReturns \/ GetFlags \/ ClearFlags \/ FifoEmpty \/ ReadPayload \/ Count
  \/ Finish \/ Unexport \/ Free

Next == Program \/ Signal \/ Receive

\* The program keeps running; poll() has a timeout, so it is no exception.
Spec == Init /\ [][Next]_vars /\ WF_vars(Program)

-----------------------------------------------------------------------------
(***************************************************************************)
(* Properties.                                                             *)
(***************************************************************************)

\* Flags are cleared before the FIFO is read (nrf_rx.c 165-176).  So a packet that was
\* there when the loop looked at the flags is read in that round, and a restart flushes
\* only packets that came later, or in the very transfer that cleared the flags.
NoneOverlooked ==
  at \in {"count", "loop", "purge", "poll", "restart", "power_down", "power_up", "flush"} =>
    \A i \in DOMAIN fifo : fifo[i] # "checked"

\* A packet that waits while the loop waits has raised a flag that is still up, so the
\* next look at the flags finds it; unless it came as the flags were cleared and no
\* other came since (nrf_rx.c 165).
Flagged ==
  at \in {"loop", "purge", "poll", "status"} /\ (\E i \in DOMAIN fifo : fifo[i] = "new") => rx_dr

\* The radio receives nothing until it is configured and enabled (nrf_rx.c 141-154):
\* the FIFO that init_rx() flushed is empty when the loop begins.
EmptyUntilEnabled == at \in {"config", "enable"} => fifo = <<>>

\* A received packet does not stay in the radio: it is read or flushed while the
\* program runs (nrf_rx.c 161, 169, 182), although an edge may be missed.
Served == (fifo # <<>>) ~> (fifo = <<>> \/ at = "done")

\* The program ends when it is told to (nrf_rx.c 157), even if the signal comes just
\* before the poll() it should interrupt.
Stops == rx_finish ~> (at = "done")

\* "for unknown reason, from time to time RX seems to be locking in and stops to detect
\* incoming traffic until restarting the transceiver is performed" (nrf_rx.c 179): the
\* loop that waits for the line would be woken up if the radio were full.
Detects == at = "poll" /\ Len(fifo) = FifoSize => pend[rx][IRQ]
=============================================================================
