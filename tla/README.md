# librasp: formal model

TLA+ models of librasp (user-space access to GPIO, SPI, 1-wire and devices on
the Raspberry Pi), the TLC configurations that check them, and proofs checked
by TLAPS. Everything is translated from the C sources under `src/src` and
`src/examples`; the kernel and the hardware are modelled from the way the code
uses them.

## The system

librasp has no threads. What makes it hard is what it talks to: a kernel that
answers late, twice or never, other processes on the same bus and the same pins,
a free-running hardware counter read in two halves, a radio that raises an
interrupt line whenever it likes.

| component | state | operations | correct when |
|---|---|---|---|
| w1 transport (`w1.c` 109-443) | netlink socket and request counter per handle; in a call: `more_stat`, messages received, receive buffer | `w1_init`, `w1_free`, `send_recv_w1msg`, `recv_w1msg` | a callback is given replies to its own request, is told truly whether one is a status, is not called after it declined; calls return |
| w1 messages (`w1.c` 536-626, 717-923) | command list; progress of the execution: `n_prc_cmds`, `cmd_msgs`, `status` | `w1_msg_init`, `w1_msg_flush_cmds`, `add_*_w1_cmd`, `w1_msg_exec`, callback `w1msg_exec_cb` | data lands in the buffer of its command, success means that every buffer was filled, failures are reported |
| w1 enumeration (`w1.c` 445-532, 628-715) | caller's list and total, counters of the callback | `list_w1_masters`, `search_w1_slaves`, `search_w1_alarms` | no id lost, repeated or beyond the capacity, exact totals, nothing on failure |
| clock (`clock.c`) | driver, mapped counter | `clock_init`, `clock_get_ticks32/64`, `clock_usleep`, `bcm_usleep` | a 64-bit value the counter had during the call; waits never end early |
| scheduling (`common.c` 242-293) | saved scheduler in a handle | `sched_rt_raise_max`, `sched_restore` | the original scheduler comes back on every way out, any number of restores is safe |
| gpio (`gpio.c`) | driver, mapped registers, per pin: exported, value file, direction, event | `gpio_init/free`, direction, value, event, pull, export, poll | a pin's file belongs to its current export; an edge is not lost between setup and poll |
| spi (`spi.c`) | file, mode, bit order, word size, speed | `spi_init/free`, setters, `spi_transmit` | the handle says what the device is set to |
| nRF24L01+ (`devices/nrf_hal.c`) | a copy of the SPI handle, error in `errno`; registers and FIFOs of the radio | register read-modify-writes, pipes, addresses, payloads, flags | fields not addressed by a call keep their values; a failed transfer is told; nothing received is lost |
| DS18x20 (`devices/ds_therm.c`) | in a call: kind of supply, resolution, scratchpad read; in the sensors: scratchpad, EEPROM, conversion | probe, resolution, single commands | a reading is a temperature there was during the probe; a change of resolution changes nothing else |
| DHT (`devices/dht.c`) | signal lengths, retries | probe, retried probe | bits in their places; no device is missing that has answered |
| HC-SR04 (`devices/hcsr04.c`) | states of a busy wait | probe | ends, with the trigger low |
| PISO (`devices/shr_piso.c`) | clock level, bits read | read | one rising edge between two bits, the clock back at rest |
| examples (`examples/`) | signal flag, GPIO event, radio FIFO | receive and transmit loops | the loop wakes up for every packet |

Interaction: ds_therm builds w1 messages and hands them to the transport;
w1 messages and enumerations run callbacks from the transport's receive loop;
nrf_hal works through spi and, in the examples, waits through gpio; dht, hcsr04
and piso drive gpio pins and read the clock, the first two under the real-time scheduler.

The hard behaviours are listed with their lines in `PROJECT.json` under
`hazards`, each with the properties that would catch it going wrong.

## Modules

| module | models |
|---|---|
| `W1Link` | what the transport promises (abstract): open, call, callbacks, return |
| `W1Netlink` | the transport: `w1.c` 109-443, and the kernel's connector |
| `W1Exec` | w1 messages: `w1.c` 536-626 and 717-923 |
| `W1List` | enumeration: `w1.c` 445-532 and 628-715 |
| `Clock` | the clock: `clock.c`, and the running counter |
| `Gpio` | pins: `gpio.c`, their registers and the kernel's sysfs files |
| `NrfRx` | the receiver `nrf_rx.c` with the radio, on `Gpio` |
| `Spi` | SPI handles and the device files behind them: `spi.c` |
| `GpioPull` | pull resistors: `gpio_bcm_set_pull_config`, beside everything in `Gpio` |
| `NrfHal` | the driver of the nRF24L01+, transfer by transfer, and the chip's registers: `nrf_hal.c`, on `Spi` |
| `Sched` | raising and restoring the scheduler: `common.c` 242-293 |
| `Probing` | what probes share: thread, pins, error macros, the way out |
| `Dht`, `Hcsr04`, `ShrPiso` | the probes: `dht.c`, `hcsr04.c`, `shr_piso.c`, on `Probing` |
| `Sensors` | a program that uses all three |
| `DsTherm` | thermometers on a shared bus: `ds_therm.c` |
| `W1NetlinkProofs`, `W1ExecProofs`, `W1ListProofs`, `ClockProofs`, `GpioProofs`, `NrfRxProofs`, `NrfHalProofs`, `SensorsProofs` | theorems about the module of that name (`GpioProofs` about `GpioPull` too, `SensorsProofs` about `DsTherm` too), with proofs |
| `MC_*` | instances for TLC |

### W1Netlink

A handle `h` is `sock[h]` (the port of `sock_nl`) and `seq[h]`. `pc[h]` says
where its thread is: `idle` between calls, `poll` in `poll()`, `parse` in the w1
message chain of a datagram (`buf[h]` holds what is left of it), `spin` in the
netlink chain without advancing. `more[h]` and `rcvd[h]` are `more_stat` and
`n_rcv_msgs > 0`. One action per step that other actors can come between:
`Send` (all of `send_recv_w1msg` up to the first `poll()`), `PollTimeout`,
`PollFails` (also `recv()` failing, with ENOBUFS after an overflow), `Recv` (a
datagram and the walk over its netlink messages), `HandleMessage` (the filters
and the callback for one message), `EndOfDatagram`. `SendFails` and `TooLong`
are the early returns. `w1_free` is also the death of the process.

The callback is open: it answers anything in `w1msg_more_stat_t`. The kernel
holds jobs and may reply to them up to `MaxReplies` times, with data, a status or
both in one datagram, at any time, or drop them. A socket holds `MaxQueue`
datagrams and remembers that it dropped one. Stray datagrams are messages of
other connector users, w1 notifications, netlink errors, NOOPs and unknown
types. `from` and `status` in a message are history: what the kernel meant.

Three constants are assumptions about the environment, set differently in
different runs: `MaxLag` (how many requests late a reply may be when the next
request is issued), `Multicast` (do replies reach every socket that listens to
all groups), `QuietReopen` (is a port given out again while a reply to it is
underway).

### W1Exec and W1List

They sit on the transport that `W1Netlink` shows: replies of the call in
progress only, in order. `cb` is the callback's private data with `more_stat`;
`w1msg_exec_cb`, `list_masts_cb` and `search_slavs_cb` are operators from the
callback's state and a reply to its next state, where a fold over the headers
stands for the loop and a `stop` field for the jump to `finish`. In `W1Exec`
the `goto check_next_exec_cmd` is `Target`: the first command that a header may
be compared to. The kernel executes the commands of a message in order and sends
data and a status for each; it may refuse the whole message. `late` is history:
`poll()` gave up on a kernel that was still at work; so is `broken`: the transport itself failed.
It may do so at any time and with any of its errors (`TransportErrors`), one of which,
`PROTO_ERR`, is also what a failed command gives. `Adjacent` says whether users put two reads, or two touches, next to each other.

### Clock

`now` is the 64-bit counter; `Tick` moves it between any two steps of the thread.
`pc` stops before every read of a register: `hi`, `lo`, `hi2`, `lo2` in
`clock_get_ticks64`, `begin` and `read` in `bcm_usleep`, where `test` is the loop
condition and `nap` the `usleep()` that may return after any time. All sums and
differences of the wait are taken modulo `U32`, `time` saturates as in the code.
On the system driver the calls hand over to `clock_gettime()` and `usleep()` and
keep no state. `start` is history.

### Gpio

A handle `h` belongs to a process: `drv`, `mapped`, `valfd` are its fields, `pc`,
`arg` and `fsel` the call it is in. A call stops where another process can come
between: between the read and the write of a function register (`ReadFsel`,
`WriteFsel`), after the value of an output, between the value file, the direction
file and the value on sysfs (`direction_sysfs`, `WriteDirection`, `WriteValue`),
and in `poll()`. `valfd` tells a value file that is `live` from one that is
`stale`: its pin was unexported since, even if it was exported again. `pend` is
what `poll()` sees of a file, `seen` what it should have seen (history). With
`Exclusive` processes do not work on one function register at the same time:
nothing in the library sees to that, and without it `OthersKept` fails.

`GpioPull` extends it with the steps of `gpio_bcm_set_pull_config`: GPPUD, the clock, and both
off again, in registers that all processes share. `Exclusive` includes these registers; without it one
process's resistor goes to the other's pin.

### NrfRx

It composes `Gpio` with the receiver and the radio: `G` is `Gpio` for one process
and the pins CE and IRQ, and the program's pin accesses are its actions. `at` is
where the program is. Every SPI transfer is a step, and `Receive` may come between
any two; the transfer that reads and clears the flags is two steps (`GetFlags`,
`ClearFlags`) since the status is shifted out before the write takes effect. The
line follows `rx_dr`, and each change is an `Edge` of `Gpio`. Marks on packets are
history. `cnt` counts loops in one build and poll timeouts in the other.

Fairness: the program keeps running. `poll()` has a timeout, so that waiting is
part of that. The radio and the signals are not required to do anything. `MaxSent`
bounds the packets: a sender as fast as the loop that reads them would keep it in
there, and nothing in the code prevents that.

### Spi and NrfHal

A handle of `Spi` (`hndl`) is a copy of the settings of its open file (`files`). Setters
write the copy first and do not take it back when an ioctl fails; `doubtful` is the
history of that. An operator such as `Set` gives all outcomes of a setter, and `IfOk`
is EXEC_RG between two of them.

`NrfHal` has one action per call of the HAL. Inside a call the transfers follow one
another without another process, so that a call is a chain of operators: each takes
an outcome (registers, FIFOs, `errno`, what the buffer holds, whether the call goes on) to the
set of outcomes after a transfer that succeeds, fails before the chip obeyed, or fails
after it. `Transfer` followed by `IfSent` is SET_SPI_ERR with CHK_SPI_ERR, `Anyhow` is the
same without the check, `Garbage` what a failed read leaves in its buffer: any byte. An address
is written in as many bytes as an unchecked read of the width tells (`WriteAddress`). From 33 on that
overruns a buffer (`nrf_hal.c` 892), after which nothing is known of the program: the model
ends there (`Overrun`), and for that reason only its runs do not look for deadlocks. Pipes are
given as in the code, `HAL_NRF_ALL` and `HAL_NRF_TX` included, and addresses may be `NULL`. Between two
calls the chip receives, sends or gives up (`Chip`); within `ClearFlags` it may do so too, for
the status is shifted out before the flags are cleared. Getters are evaluated in
`AsAsked` on the registers a setter left.

The calls fall into ten groups of registers that do not touch one another; each group is explored
from power-on by itself (`Groups`).

### Sched, Probing, Dht, Hcsr04, ShrPiso, Sensors

One thread; `pc` is where it is in a probe, one action per call the probe makes that may
fail, `ret` what it returns. `thr` is the thread's scheduling and `sched_h` the handle of
the probe. `Restored` gives what `sched_restore()` leaves, its inverted test included; a
thread of the ordinary scheduler may be refused a real-time one, and the kernel refuses
priorities out of range. `pins` are the output pins; `refused` is the history of those
whose last write failed, which may be the very write that would have put them back. A write
that fails leaves the pin, but a DHT's open drain is pulled low in two steps on sysfs and may
be low after the second has failed (`PullFails`).

The line of a DHT is a sequence of phases (`phase`), long and short highs between lows. A
sample sees the phase at which the line is; a late one (`slips`) skips phases or measures a
wrong length. The lengths themselves are the bits they decode to. For an HC-SR04
what counts is whether there is an echo and whether it ends. A shift register (`shreg`) loads
while SH/LD is low and shifts at a rising clock.

Fairness: the thread runs, which includes waits with a time limit, and an echo ends
(`WF_vars(Echo(0) ...)`): the wait for its end has no limit (`hcsr04.c` 73), so that
without this `ProbesReturn` is false. Failing samples are no part of the fairness: no probe may return only
because a call must fail at last.

### DsTherm

`sens` are the sensors: registers, EEPROM, the last temperature with the resolution it was
taken at, the time left of a conversion. `call` says where each process is in `dsth_probe` or
`dsth_set_res`; a step is one w1 message, and messages of `Others` (`Commands`: convert, write,
copy, recall, or one without effect, to one sensor or to all) come between any two. `hold` is the
time for which the kernel keeps the bus under a pull-up and takes no message. A parasitic
sensor that converts loses its power when somebody talks, and starts from its EEPROM
with 85 degrees (`Awake`). Messages fail with or without having arrived, and reads are garbled: a scratchpad is then refused
(`Garbled`), but the power supply's bit is believed, and so is a scratchpad of zeros, whose
CRC is right (`Misread`). How long the conversions of a sensor take (`speed`) is its own affair, up to
what data sheets allow (`Slowest`), and has nothing to do with the table by which the code
waits (`dsth_get_conv_time`); a signal may cut the sleep short (`Signal`). Time is counted in
units of 93.75 ms, and the fraction that the code's shift drops (93 ms at 9 bits) is left to the
message that addresses the sensor next, which takes longer than that.
Temperatures are in sixteenths of a degree, and a scratchpad's bits below the
resolution are anything. Which sensors there are, their supply and the build's
`CONFIG_WRITE_PULLUP` are chosen initially. `felt` and `spoiled` are history.

## Runs

| run | shows | bounds |
|---|---|---|
| netlink | no reply is mistaken for another request's or a status for data, while the counter wraps; the transport implements `W1Link`; every call returns | `U32 = 5`, 7 requests: the counter wraps and the numbers 0 1 2 0 1 0 1 include both repetitions at the wrap; queue of 2 so that it overflows; replies one request late; stray data, errors and unknown messages |
| exec | data stays in place, and success means all data, with any delays; when the kernel is not late the result is success exactly if the transport held and no command failed | up to 3 commands of all five types, lengths 0 and 1: a read or touch before, at and after the current command, with statuses in between; the longest messages exceed `MaxLen` |
| exec_adjacent | adjacent reads share a buffer (expected violation) | 2 commands |
| list | a successful call lists the first ids received and a failed one none, with any delays; totals are exact and lists complete when the kernel is not late | up to 4 ids, every cut into messages and headers, capacities 0, 1, 3, 5 |
| clock | 64-bit ticks are values of the counter in the call; waits do not end early | `U32 = 4`, every wait, the counter runs to 15: up to three wraps between two reads |
| gpio | a pin changes its function only when asked; outputs have the value asked for, without a blink; polls tell events from timeouts; pull resistors are as asked | resistors off and up, not while a pin is exported (`Apart`: the two have nothing in common); two processes, two pins in one register, one of the pins also on sysfs (sysfs state of different pins is unrelated) |
| nrf_rx | packets that the flags announced are read; the radio is silent during its configuration; every packet leaves the FIFO and a signal ends the program | both builds; FIFO of 3 as in the chip, 5 packets so that it is full more than once; restart after 2 silent loops |
| nrf_hal | a careful call tells of a failed transfer, wherever it failed; no flag or pipe is set from a value that was not read, no address register written unasked; flags and payloads are not lost; a call without an error has done what it was asked; the HAL accepts a handle only in the radio's mode | one handle, pipe 0 with its full address and pipe 2 with one byte, FIFOs of 2, per register group all settings that differ in the code, values beyond their field included; uninitialised bytes that make addresses of 2, 5, 6, 33 (overrun) and 0 bytes |
| sensors | the scheduler of an ordinary thread is given back and pins return to rest on every way out; bits are read in their places; a device that has answered is not called missing; probes return | system driver, so that clock calls fail too; messages of 3 bits (2 and a checksum), complete, broken off, or none; 1 late sample; up to 2 retries, 2 silent tries for a missing device; registers of up to 3 bits |
| sensors_restore | a thread of another scheduler or nice value does not get it back (expected violation) | three kinds of thread |
| ds_therm | a reading is a temperature there was during the probe, at its resolution; setting a resolution changes nothing else | a DS18B20, parasitic or not, or a DS18S20; builds with and without pull-up; one process in calls, one with single messages; 25.0625 and -10.125 degrees; resolutions of 9 and 11 bits (12 on the DS18S20); sensors as slow as they may be or done within a unit; one fault or misread message, one change of temperature, a signal in any sleep |
| nrf_rx_lockin | the loop waits for an edge while the radio is full (expected violation) | build with GPIO_IRQ |

In the netlink run `U32` stands for 2^32. What matters is that it is no multiple of
`SEQ_RANGE = U32 - 2`: the remainder 2 makes the numbers around the wrap
0, 1, 0, 1, at any width. 5 is the smallest width with three numbers.

Fairness (`FairSpec`, run netlink): a thread that can take a step in a
call keeps running. `PollFails` is included only while ENOBUFS is pending; the
kernel and the user are not required to do anything. The bound on stray
datagrams is an assumption there: each one re-arms the timeout of `poll()`
(`w1.c` 140), so steady foreign traffic holds a call up for ever.

Bounds of the other runs. A retry loop has the same three exits at any counts above one. The phases of a
DHT message repeat from the second bit on, and three bits have a first, a middle and a last
one. `NrfHal` visits every call from every state its group's calls can make, so that
its only real bounds are the numbers of pipes and payloads: the code treats pipes 0 and 1 alike, but
for `hal_nrf_config_tx`, which opens 0, and pipes 2 to 5 alike. An uninitialised byte counts as
an address length only, and that as too short, right, more than the chip keeps, too long for
the buffer, or none. In `DsTherm` a
probe has at most five messages and is disturbed by one fault at each of them in turn; more
processes differ from the one with single messages only by what they return.

## Disagreements

Between the code and its own comments, quoted in `PROJECT.json` under `findings`, each with
a run that is expected to find it:

* `exec_adjacent`: replies carry no command number, so the second of two adjacent
  reads fills the first one's buffer (`w1.h` 124).
* `nrf_rx_lockin`: the "unknown reason" of `nrf_rx.c` 179 for which reception
  stops. `gpio_sysfs_poll` reads pending events away before it waits; an edge that
  came since the flags were cleared is gone, the line stays low, and the loop
  sleeps for 5 seconds while the radio fills up.
* `sensors_restore`: `sched_restore()` tests for success where it means failure, and what it
  restores as a priority is a nice value. Of a thread that ran as SCHED_FIFO it asks for priority
  0, is refused, and notes that as restored: the thread stays at the highest real-time priority. A
  thread with a nice value is refused as well. For ordinary threads the two restores of a
  probe come out right, which `GivenBack` shows.

TLC shows these as well, with other constants of the same modules, or with the property named in place of
those of the module's cfg:

* `NoiseKinds = {"noop"}`: `CallsReturn` fails, since `continue` at `w1.c` 191 skips the "move to the
  next nlmsg" of line 212.
* `Multicast = TRUE` with two handles, or `QuietReopen = FALSE` with one port: `OwnReplies` fails.
  "it's guaranteed the message corresponds to the request message" (`w1.c` 86) rests on
  unicast replies and on ports that do not come back while a reply to them is underway;
  sequence numbers start at 0 in every handle.
* `TotalExact` of `W1List`: the "overall number" of `w1.h` 172 is what arrived until a gap of 50 ms.
  `TotalExactInTime` says when it is exact.
* `AllErrorsTold` of `NrfHal`, which is `ErrorsTold` without `Careless`: `nrf_hal.h` 32 has errno tell of any failed transfer, but
  `hal_nrf_set_output_power` and `hal_nrf_set_address` do not look at a read, and a write that succeeds after
  it clears errno. The first takes RF_SETUP from an uninitialised byte, the second the width of the address.
* `DatarateRead` of `NrfHal`: `hal_nrf_get_datarate` (`nrf_hal.c` 210) returns bits of RF_SETUP, 0, 8 or 64, as a
  `hal_nrf_datarate_t`, whose values are 0, 1 and 2 (`nrf_hal.h` 202, 440). The rate on the air is the
  one asked for, and `AsAsked` is about that (`AirRate`).
* `AlwaysWaits` of `DsTherm`: the comment in `dsth_probe` (`ds_therm.c` 361) has it "always wait", but its
  `usleep()` is not checked. A signal ends it, the scratchpad is read while the conversion runs, and the
  temperature before is returned as the new one. `ReadingRight` excepts such calls.

In the models, and excepted by properties or assumed away:

* `hal_nrf_set_rx_payload_width(HAL_NRF_ALL)` writes the first byte of TX_ADDR (`AboutAddrs`);
* a failed read of the width makes `hal_nrf_set_address` write an address of another length, or
  past its buffer (`Overrun`);
* `LREC_PROTO_ERR` of `w1_msg_exec` does not tell a failed command from an error of the transport;
* a scratchpad of zeros and the bit of the power supply are believed (`Misread`);
* SH/~LD of a shift register stays low when the write that is to raise it fails (`refused`);
* other processes change a function register, set a pull resistor or unexport a pin at the same
  time (`Exclusive`).

Seen while modelling, and abstracted: `exec_cmd_all` (`ds_therm.c` 115) sends one uninitialised byte after
each command to all sensors, where `ds_therm.h` 92 says "perform the same actions as their
counterparts"; the conversion time at 9 bits is 93 ms (`ds_therm.h` 127), the sensor's 93.75 (see `DsTherm`);
`hcsr_probe` may restore a scheduler from a handle it never wrote (`hcsr04.c` 37, `wild` in the model); below 0
degrees a DHT22's temperature is read as two's complement (`dht.c` 158), which its data sheet says it is not.

## Proofs

All theorems hold for every value of the constants that meets the named assumptions
(`ASSUME`) of the modules; what a theorem assumes beyond them is said with it. Each has an
inductive invariant, which TLC found to hold on the instance of the run before it was proved.

| module | theorems | further assumptions |
|---|---|---|
| `W1NetlinkProofs` | `TypeCorrect`, `StatusTold` | |
| | `OwnRepliesOnly`, `OnlyRecentReplies`, `KeepsPromise` (refinement of `W1Link`) | `MaxLag <= 1`, `~Multicast`, `QuietReopen` |
| `W1ExecProofs` | `TypeCorrect`, `EachInItsPlace`, `SuccessIsComplete`, `OutcomeTold` | `~Adjacent` |
| `W1ListProofs` | `ListConsistent`, `CountedInTime` | |
| `ClockProofs` | `TypeCorrect`, `ReadsInCall`, `SleepsLongEnough`, `LeftExact` | |
| `GpioProofs` | `PollsTrue` | |
| | `FunctionsKept`, `NoOutputBlink`, `OutputSet`, `PullsAsked` | `Exclusive` |
| `NrfRxProofs` | `NothingOverlooked`, `WaitsFlagged`, `QuietUntilEnabled` | |
| `NrfHalProofs` | `TypeCorrect`, `FailuresTold`, `SetAsAsked`, `OthersLeft`, `NothingTakenLost`, `HandlesSpeakTrue` | |
| `SensorsProofs` | `PinsLeftAtRest`, `PlainGivenBack`, `RetriesReported`, `ShiftedExactly`, `PromptDecodesExactly`; of `DsTherm`: `ResolutionAlone`, `ReadingsRight` | |

None of the further assumptions can be dropped: with `Adjacent` the run `exec_adjacent` shows
`DataInPlace` violated; multicast and reopened ports break `OwnReplies` (Disagreements), and
with replies two requests late the numbers 0, 1, 0 at the wrap do; without `Exclusive` the
registers that processes share lose each other's writes.

### `W1NetlinkProofs`

* `TypeCorrect`: `Spec => []TypeOK`.
* `StatusTold`: `Spec => []StatusUnmistaken`. The inductive invariant `TellInv`
  adds `AcksTell`: every reply on its way has an ack that tells what it is,
  because numbers below `SEQ_RANGE = ACK_STAT_VAL - 1` have successors below
  `ACK_STAT_VAL`. No assumption about the environment.
* `OwnRepliesOnly` and `OnlyRecentReplies`: `Spec => []OwnReplies` and `[]RepliesRecent`.
  `OwnReplies` speaks of callbacks that were run
  and says nothing of what is still underway, so it is not inductive;
  `RepliesRecent` adds that every reply on its way to a handle and every job of
  the kernel at its port belongs to the handle's last request or the one before,
  with the number that request had. `SeqStep` (consecutive numbers differ, also at
  the wrap) then excludes the one before.
* `KeepsPromise`: `Spec => ImplementsLink`. Initial states map to initial states and every step
  to one of `W1Link` or a stutter (`KeepInv`): since callbacks are given replies of the call only
  (`OwnReplies`) with the truth about statuses (`StatusUnmistaken`), what `W1Link` sees of them
  is `Told`; `LastAnswer` ties `more_stat`, by which the loop goes on, to the last answer.

`FlightStep` (what a step adds to the messages on their way) and `GotStep` (where
a callback record comes from) carry these arguments.

### `W1ExecProofs`

Replies carry no command number, so the proof gives them one. A reply stands between two
positions, 2k before command k was answered and 2k + 1 after its data was sent (`Before`,
`After`), and the replies underway form a chain from the callback's position to the kernel's
(`ChanOk`). `CbAt` says how far `n_prc_cmds` and `cmd_msgs` may be from that position: the callback
points at command k, or at the first of a run of commands of one type before it, none of
which waits for data. `Lands` shows that `Target` then finds the command the kernel meant.
That is where `~Adjacent` is needed: a run has no two commands with data.

### `W1ListProofs`

What the callback has taken, what is on its way and what the kernel has sent follow one
another: a message begins with the id after the last one of the message before it (`ChanInv`).
The list is then always `UpTo(n)` for `n_recv_elems = n`, which `TakeRun` shows of the copy that
stops at the capacity, and `IdsTaken` of a message with one or two headers. `KernelInv` says that a
kernel that is done has sent all or told a failure.

### `ClockProofs`

For every `U32 > 1`, every wait and any number of ticks between
two steps (`MaxNow` is arbitrary):

* `ReadsInCall`: `Spec => []Ticks64InCall`. `Read64Inv` records what the locals of
  an unfinished read know: the low half belongs to a moment of the call whose high
  half is at least the one read before. If the second high half has not moved, that
  moment has both halves; if it has, anything put together with it is later than the
  start, and a fresh low half keeps it from being later than now (`HiWeighs`).
* `SleepsLongEnough`: `Spec => []SleepsEnough`. `SleepInv` says that the time counted
  had passed when the timer was last read; a 32-bit difference never exceeds the true
  one (`DeltaBound`), and a saturated sum is still a lower bound.
* `LeftExact`: `Spec => []LeftAgrees`, from the same invariant and the ranges of the 32-bit
  values: the threshold test
  sees what is left of the wait. It is a conjunct of the invariant, and no run checks it by itself.

### `GpioProofs`

For any number of processes and pins, and any assignment of pins to registers:

* `FunctionsKept`: while a call is between the read and the write of a register, its copy is
  what the register holds (`CopyFresh`), since no other call works on that register
  (`BanksApart`). An export or its end changes the register too: `Exclusive` covers them.
* `NoOutputBlink` and `OutputSet`: `ValueFirst`. On the I/O driver the value is set before the pin becomes an
  output, on sysfs the pin is an output before the value is written, and in between nobody
  takes it away.
* `PollsTrue`: `PollSees`. What `poll()` is to see of a live file is what came since the call.
* `PullsAsked`: `PullsApart`. The clock is off but for the pin of the one call that sets a resistor.

### `NrfRxProofs`

For any size of the FIFO, restart delay and number of packets:

* `NothingOverlooked` and `WaitsFlagged`: `Spec => []NoneOverlooked` and
  `Spec => []Flagged`. Both speak of the moments between rounds of the loop;
  `FlagInv` says what holds in between: no packet is new while the flags are being
  cleared, those the flags announced are checked only until the loop has read them,
  and a new packet has its flag up. `HasAppend` and `HasTail` carry this over an
  arriving packet and a read one. No assumption about the traffic; that SPI
  transfers succeed is part of the model.
* `QuietUntilEnabled`: `QuietInv` says that CE is low from `chip_disable()` to
  `chip_enable()`; only three steps of the program move CE (`LatchKept`).

### `NrfHalProofs`

For any set of pipes, addresses, SPI handles and any size of the FIFOs. A call is taken apart
transfer by transfer: a lemma per kind of transfer, and one per sequence that calls
are made of, says what registers, `errno` and history it leaves. So most of the
properties, which speak of the last call, need no more of the state than its types
(`CallTypeOK`). `SetAsAsked` follows the width of an address from the read that told it to the write
(`AddressSet`), which is where a failed transfer matters. `HandlesSpeakTrue` needs `SpiInv`: every open handle has an open file of its
own and agrees with it unless a setter failed. It follows the setters through
`spi_init()` and the checks of `hal_nrf_set_spi()`.

### `SensorsProofs`

* `PinsLeftAtRest`: `PinsInv`. A pin is at rest unless its last write was refused or the probe's
  own flags (`set_low`, `set_high`, `clk_low`) and place say that it has it away.
* `PlainGivenBack`: `SchedInv`. An ordinary thread in a probe is itself, or it is raised and the
  handle remembers what it was; restoring it twice changes nothing.
* `RetriesReported`: `RetryInv` relates `cd`, the count of silent tries, to the number of tries as
  long as nothing was heard, and to 0 since.
* `ShiftedExactly`: `PisoInv`. What is still in the register are the inputs from the one
  to be read next, one clock edge after the other (`ReadSoFar`).
* `PromptDecodesExactly`: `PromptInv`. While no sample was late the lengths collected are those of the highs that
  have ended (`Following`), the greeting among them until `Decoded` drops it.

The module extends `DsTherm` beside `Sensors`, whose names differ (`ThermInit`, `ThermSpec`).
For `DsTherm`, under its `ThermAssumption` (processes with calls and
those with single messages are different ones, temperatures are in the sensors' range, conversions take no longer than
the data sheets allow, buses are made of sensors), the inductive invariant is `ThermInv`: types, and for every process in a call what the call may
rely on (`CallGood`). Everything but types is said of calls that are not `spoiled`, and the proofs
of both theorems are about why it survives what other processes do (`Bystander`): a message for
another sensor leaves this one as it was, or cuts the power of a parasitic one, which while it converts
can only happen once the pull-up (`hold`) is over.

* `ResolutionAlone`: `SetResGood`. Between its read and its write `dsth_set_res` holds the registers the
  sensor has; a parasitic sensor is not converting then, so that the write cannot reset it.
* `ReadingsRight`: `ProbeGood`. The probe knows the supply and the resolution of its sensor, and the
  conversion ends no later than its sleep or the pull-up does, since the code's table gives every resolution at
least what the slowest sensor takes (`ConvTime`); once it has ended, the sensor holds a
  temperature felt since. That the number returned stands for that temperature is arithmetic: the two
  bytes, with their sign, are the number they were made of (`SignedBytes`), the bits without a meaning
  and the division of C each lose less than a step (`CutBits`, `CDivIs`; `PlainReads` for the sensors with
  a resolution, `DS18S20Reads` for the formula with `COUNT_REMAIN`).

### Only model-checked

* Liveness under fairness, which TLAPS does not do: `CallsReturn`, `Served`, `Stops`, `ProbesReturn`.
* `AddressesKept` of `NrfHal`.
* The violations, which are single behaviours.

Everything else that the passing runs check is also proved.

## Plan

Left are the hazards no property covers (PROJECT.json, `hazards`, with why). A status later than the 50 ms
that the transport waits for it and the byte too many of `exec_cmd_all` are beyond the models; requests of
two handles, NOOP messages and an endless echo are assumed away, for the code does not survive them; of
a DHT message with exactly one signal missing no property speaks; a misread bit nobody could notice. Where
a hazard is covered in part, its note says which part.

## Not modelled

* The event registers of the I/O driver (`gpio.c`), which the default configuration compiles out.
* The three parsing stages of `recv_w1msg`, which compact the receive buffer in place: messages
  are records here.
* Speed, delay and CS-change of `spi.c`, which go the way of the word size; `hal_nrf_reuse_tx` and
  the status getters, which read one register.
* `shr_piso_gpio_init`: three calls of gpio.
* The transmitters and the scanner of `examples/nrf24`, and the other examples: straight-line uses.
* Platform detection, memory mapping, logging and hex formatting (I/O and wording), register
  address tables, the kernel patch (another program), the wrap of the 64-bit counter (after
  584 000 years).
