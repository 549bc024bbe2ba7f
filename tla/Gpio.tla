-------------------------------- MODULE Gpio --------------------------------
(***************************************************************************)
(* GPIO access of src/src/gpio.c: handles with an I/O driver (registers of *)
(* the chip, mapped into the process) and a sysfs driver (files of the     *)
(* kernel), used by several processes, one handle each.                    *)
(*                                                                         *)
(* The registers are shared with every other process and nothing locks     *)
(* them.  A sysfs pin exists while it is exported; its value file, once    *)
(* opened, stays in the handle, and is of no use when the pin is           *)
(* unexported or exported anew by anybody.                                 *)
(***************************************************************************)
EXTENDS Integers

CONSTANTS
  Handles,     \* processes with a GPIO handle
  Pins, NoPin,
  SysfsPins,   \* the pins that somebody uses through sysfs
  Banks,       \* the sets of pins (ten each) whose functions share a register
  Funcs,       \* functions of a pin, "in" and "out" among them
  Edges,       \* the edges gpio_set_event() knows: "rising", "falling"
  Exclusive    \* TRUE: users do not work on one register from two processes

ASSUME GpioAssumption ==
  /\ NoPin \notin Pins /\ SysfsPins \subseteq Pins
  /\ {"in", "out"} \subseteq Funcs
  /\ \A p \in Pins : \E B \in Banks : p \in B
  /\ Exclusive \in BOOLEAN

VARIABLES
  drv,     \* p_hndl->drv, "none" when closed; "io" is gpio_drv_io and gpio_drv_gpio, which
           \* differ in the device that is mapped only
  mapped,  \* p_hndl->io.p_gpio_io != NULL
  valfd,   \* p_hndl->sysfs.valfds: "none" (-1), "live", or "stale" when the pin was
           \* unexported since the value file was opened
  pc,      \* where a handle's process is: "idle", in a change of function "read" and
           \* "write", in a sysfs direction "dir" and "value", "poll"
  arg,     \* the arguments of its call: pin, function, output value
  fsel,    \* its copy of a function register
  ret,     \* what the last step returned from its call, "none" if it did not return;
           \* "FAILED" is any LREC_ code but SUCCESS and TIMEOUT
  func,    \* hardware: the function of a pin
  latch,   \* hardware: the value a pin has as an output
  export,  \* sysfs: the pins that are exported
  event,   \* sysfs: the edges of a pin that are events
  pend,    \* sysfs: a value file has an event its owner has not read
  seen     \* history: a pin had an event since the call that polls it began

handleVars == <<drv, mapped, valfd>>
callVars == <<pc, arg, fsel, ret>>
regVars == <<func, latch>>
sysfsVars == <<export, event, pend, seen>>
vars == <<handleVars, callVars, regVars, sysfsVars>>

SameBank(p, q) == \E B \in Banks : p \in B /\ q \in B

NoVal == -1
NoArg == [pin |-> NoPin, what |-> "none", val |-> NoVal]
NoCopy == [p \in Pins |-> "in"]

Init ==
  /\ drv = [h \in Handles |-> "none"]
  /\ mapped = [h \in Handles |-> FALSE]
  /\ valfd = [h \in Handles |-> [p \in Pins |-> "none"]]
  /\ pc = [h \in Handles |-> "idle"]
  /\ arg = [h \in Handles |-> NoArg]
  /\ fsel = [h \in Handles |-> NoCopy]
  /\ ret = "none"
  /\ func = [p \in Pins |-> "in"] /\ latch = [p \in Pins |-> 0]
  /\ export = {}
  /\ event = [p \in Pins |-> {}]
  /\ pend = [h \in Handles |-> [p \in Pins |-> FALSE]]
  /\ seen = [h \in Handles |-> FALSE]

-----------------------------------------------------------------------------
(***************************************************************************)
(* Calls.                                                                  *)
(***************************************************************************)

\* h calls a function that goes on in step `to`
Enter(h, to, pin, what, val) ==
  /\ pc[h] = "idle"
  /\ pc' = [pc EXCEPT ![h] = to]
  /\ arg' = [arg EXCEPT ![h] = [pin |-> pin, what |-> what, val |-> val]]
  /\ ret' = "none"

Continue(h, from, to) ==
  /\ pc[h] = from
  /\ pc' = [pc EXCEPT ![h] = to]
  /\ ret' = "none"

\* h returns r from the function it is in, or from one that is a single step
Return(h, r) ==
  /\ ret' = r
  /\ pc' = [pc EXCEPT ![h] = "idle"]
  /\ arg' = [arg EXCEPT ![h] = NoArg]
  /\ fsel' = [fsel EXCEPT ![h] = NoCopy]

IsIo(h) == drv[h] = "io"
IsSysfs(h) == drv[h] = "sysfs"

-----------------------------------------------------------------------------
(***************************************************************************)
(* The handle.                                                             *)
(***************************************************************************)

\* gpio_set_driver(), and gpio_init(), which calls it on a cleared handle.
gpio_set_driver(h, d) ==
  /\ pc[h] = "idle"
  /\ \/ /\ d = "sysfs" \/ mapped[h]
        /\ drv' = [drv EXCEPT ![h] = d]
        /\ Return(h, "SUCCESS")
        /\ UNCHANGED mapped
     \/ /\ d # "sysfs" /\ ~mapped[h]
        /\ mapped' = [mapped EXCEPT ![h] = TRUE]
        /\ drv' = [drv EXCEPT ![h] = d]
        /\ Return(h, "SUCCESS")
     \/ /\ d # "sysfs" /\ ~mapped[h]
        /\ Return(h, "FAILED")      \* MMAP_ERR, PLAT_ERR
        /\ UNCHANGED <<drv, mapped>>
  /\ UNCHANGED <<valfd, regVars, sysfsVars>>

gpio_free(h) ==
  /\ pc[h] = "idle" /\ drv[h] # "none"
  /\ drv' = [drv EXCEPT ![h] = "none"]
  /\ mapped' = [mapped EXCEPT ![h] = FALSE]
  /\ valfd' = [valfd EXCEPT ![h] = [p \in Pins |-> "none"]]
  /\ pend' = [pend EXCEPT ![h] = [p \in Pins |-> FALSE]]
  /\ ret' = "none"
  /\ UNCHANGED <<pc, arg, fsel, regVars, export, event, seen>>

-----------------------------------------------------------------------------
(***************************************************************************)
(* The I/O driver.                                                         *)
(***************************************************************************)

\* what users who coordinate leave alone: pin p and its function register
\* while a call of another process works on them
Coordinated(h, p) ==
  Exclusive => \A g \in Handles \ {h} :
    pc[g] \in {"read", "write", "dir", "value"} => ~SameBank(arg[g].pin, p)

\* gpio_bcm_set_func() starts with the read of the register; direction_input, and
\* the end of direction_output, call it.
gpio_bcm_set_func(h, p, f) ==
  /\ pc[h] = "idle" /\ drv[h] # "none"
  /\ \/ /\ mapped[h] /\ Coordinated(h, p)
        /\ Enter(h, "write", p, f, NoVal)
        /\ fsel' = [fsel EXCEPT ![h] = func]
     \/ /\ ~mapped[h]
        /\ Return(h, "FAILED")      \* NOINIT
  /\ UNCHANGED <<handleVars, regVars, sysfsVars>>

\* mutant: the output is enabled before its value is set
direction_output_ioBlink(h, p, v) ==
  /\ IsIo(h) /\ Coordinated(h, p)
  /\ Enter(h, "read", p, "out", v)
  /\ UNCHANGED <<handleVars, fsel, regVars, sysfsVars>>

\* gpio_direction_output(): the value first, "to avoid output blink".
direction_output_io(h, p, v) ==
  /\ IsIo(h) /\ Coordinated(h, p)
  /\ Enter(h, "read", p, "out", v)
  /\ latch' = [latch EXCEPT ![p] = v]
  /\ UNCHANGED <<handleVars, fsel, func, sysfsVars>>

ReadFsel(h) ==
  /\ Continue(h, "read", "write")
  /\ fsel' = [fsel EXCEPT ![h] = func]
  /\ UNCHANGED <<handleVars, arg, regVars, sysfsVars>>

\* mutant: the other fields of the register are not kept
WriteFselBare(h) ==
  LET p == arg[h].pin
  IN /\ pc[h] = "write"
     /\ func' = [q \in Pins |-> IF q = p THEN arg[h].what
                               ELSE IF SameBank(p, q) THEN "in" ELSE func[q]]
     /\ Return(h, "SUCCESS")
     /\ UNCHANGED <<handleVars, latch, sysfsVars>>

\* The whole register is written: the new field and the copy of the others.
WriteFsel(h) ==
  LET p == arg[h].pin
  IN /\ pc[h] = "write"
     /\ func' = [q \in Pins |-> IF q = p THEN arg[h].what
                               ELSE IF SameBank(p, q) THEN fsel[h][q] ELSE func[q]]
     /\ Return(h, "SUCCESS")
     /\ UNCHANGED <<handleVars, latch, sysfsVars>>

\* gpio_set_value(): GPSET and GPCLR change the pins written as 1, no other.
set_value_io(h, p, v) ==
  /\ pc[h] = "idle" /\ IsIo(h)
  /\ Coordinated(h, p)
  /\ latch' = [latch EXCEPT ![p] = v]
  /\ Return(h, "SUCCESS")
  /\ UNCHANGED <<handleVars, func, sysfsVars>>

-----------------------------------------------------------------------------
(***************************************************************************)
(* The sysfs driver.                                                       *)
(***************************************************************************)

Live(h, p) == valfd[h][p] = "live"

\* gpio_sysfs_export(): exporting an exported pin (EBUSY) is a success.
gpio_sysfs_export(h, p) ==
  /\ pc[h] = "idle" /\ drv[h] # "none"
  /\ \/ /\ export' = export \cup {p}
        /\ Return(h, "SUCCESS")
     \/ /\ Return(h, "FAILED")      \* OPEN_ERR, WRITE_ERR
        /\ UNCHANGED export
  /\ UNCHANGED <<handleVars, regVars, event, pend, seen>>

\* gpio_sysfs_unexport(): unexporting what is not exported (EINVAL) is a success.
\* The kernel gives the pin up, and may make it an input.
gpio_sysfs_unexport(h, p) ==
  /\ pc[h] = "idle" /\ drv[h] # "none" /\ Coordinated(h, p)
  /\ \/ /\ Return(h, "SUCCESS")
        /\ export' = export \ {p}
        /\ func' \in {func} \cup {[func EXCEPT ![q] = "in"] : q \in export \cap {p}}
        /\ valfd' = [g \in Handles |->
             IF Live(g, p) THEN [valfd[g] EXCEPT ![p] = "stale"] ELSE valfd[g]]
        /\ event' = [event EXCEPT ![p] = {}]
        /\ pend' = [g \in Handles |-> [pend[g] EXCEPT ![p] = FALSE]]
     \/ /\ Return(h, "FAILED")      \* OPEN_ERR
        /\ UNCHANGED <<export, func, valfd, event, pend>>
  /\ UNCHANGED <<drv, mapped, latch, seen>>

\* sysfs_set_direction(): the value file is opened unless the handle has one.
direction_sysfs(h, p, f, v) ==
  /\ pc[h] = "idle" /\ IsSysfs(h) /\ Coordinated(h, p)
  /\ \/ /\ valfd[h][p] # "none"
        /\ Enter(h, "dir", p, f, v)
        /\ UNCHANGED <<valfd, pend, fsel>>
     \/ /\ valfd[h][p] = "none" /\ p \in export
        /\ Enter(h, "dir", p, f, v)
        /\ valfd' = [valfd EXCEPT ![h][p] = "live"]
        /\ pend' = [pend EXCEPT ![h][p] = TRUE]     \* as the kernel has it for a new file
        /\ UNCHANGED fsel
     \/ /\ valfd[h][p] = "none"      \* exported or not
        /\ Return(h, "FAILED")      \* OPEN_ERR
        /\ UNCHANGED <<valfd, pend>>
  /\ UNCHANGED <<drv, mapped, regVars, export, event, seen>>

\* Then the direction file is opened and written; an output starts at 0.
WriteDirection(h) ==
  LET p == arg[h].pin
  IN /\ pc[h] = "dir"
     /\ \/ /\ p \in export
           /\ func' = [func EXCEPT ![p] = arg[h].what]
           /\ IF arg[h].what = "out"
              THEN /\ Continue(h, "dir", "value")
                   /\ latch' = [latch EXCEPT ![p] = 0]
                   /\ UNCHANGED <<arg, fsel>>
              ELSE Return(h, "SUCCESS") /\ UNCHANGED latch
        \/ /\ Return(h, "FAILED")      \* OPEN_ERR, WRITE_ERR
           /\ UNCHANGED <<func, latch>>
     /\ UNCHANGED <<handleVars, sysfsVars>>

\* gpio_set_value() on sysfs, by itself and as the end of gpio_direction_output():
\* the kernel refuses a file that is not live, and what it does not take for an output.
SetValue(h, p, v) ==
  /\ \/ /\ Live(h, p)
        /\ latch' = [latch EXCEPT ![p] = v]
        /\ Return(h, "SUCCESS")
     \/ /\ Return(h, "FAILED")      \* NOINIT, WRITE_ERR
        /\ UNCHANGED latch
  /\ UNCHANGED <<handleVars, func, sysfsVars>>

set_value_sysfs(h, p, v) ==
  pc[h] = "idle" /\ IsSysfs(h) /\ Coordinated(h, p) /\ SetValue(h, p, v)

WriteValue(h) == pc[h] = "value" /\ SetValue(h, arg[h].pin, arg[h].val)

\* gpio_get_value() on sysfs: the read also takes a pending event away.
get_value_sysfs(h, p) ==
  /\ pc[h] = "idle" /\ IsSysfs(h)
  /\ \/ /\ Live(h, p)
        /\ pend' = [pend EXCEPT ![h][p] = FALSE]
        /\ Return(h, "SUCCESS")
     \/ /\ ~Live(h, p)
        /\ Return(h, "FAILED")      \* NOINIT, READ_ERR
        /\ UNCHANGED pend
  /\ UNCHANGED <<handleVars, regVars, export, event, seen>>

\* gpio_set_event(); the I/O driver's events are not configured.
gpio_set_event(h, p, e) ==
  /\ pc[h] = "idle" /\ drv[h] # "none"
  /\ \/ /\ IsSysfs(h) /\ p \in export
        /\ event' = [event EXCEPT ![p] = e]
        /\ Return(h, "SUCCESS")
     \/ /\ Return(h, "FAILED")      \* NOT_SUPP, OPEN_ERR, WRITE_ERR
        /\ UNCHANGED event
  /\ UNCHANGED <<handleVars, regVars, export, pend, seen>>

\* mutant: events from before the call, and the open, are not purged
gpio_sysfs_pollDirty(h, p) ==
  /\ pc[h] = "idle" /\ drv[h] # "none"
  /\ valfd[h][p] # "none"
  /\ Enter(h, "poll", p, "none", NoVal)
  /\ seen' = [seen EXCEPT ![h] = FALSE]
  /\ UNCHANGED <<handleVars, fsel, regVars, export, event, pend>>

\* gpio_sysfs_poll(), whatever the driver: pending events are read away.
gpio_sysfs_poll(h, p) ==
  /\ pc[h] = "idle" /\ drv[h] # "none"
  /\ \/ /\ valfd[h][p] # "none"
        /\ Enter(h, "poll", p, "none", NoVal)
        /\ pend' = IF Live(h, p) THEN [pend EXCEPT ![h][p] = FALSE] ELSE pend
        /\ seen' = [seen EXCEPT ![h] = FALSE]
        /\ UNCHANGED fsel
     \/ /\ valfd[h][p] = "none"
        /\ Return(h, "FAILED")      \* NOINIT
        /\ UNCHANGED <<pend, seen>>
  /\ UNCHANGED <<handleVars, regVars, export, event>>

\* poll() returns: an event, or the error condition of a file that is not live; no
\* event for the timeout; or a signal.
PollReturns(h) ==
  LET p == arg[h].pin
  IN /\ pc[h] = "poll"
     /\ \/ (~Live(h, p) \/ pend[h][p]) /\ Return(h, "SUCCESS")
        \/ Live(h, p) /\ ~pend[h][p] /\ Return(h, "TIMEOUT")
        \/ Return(h, "FAILED")      \* POLL_ERR
     /\ seen' = [seen EXCEPT ![h] = FALSE]
     /\ UNCHANGED <<handleVars, regVars, export, event, pend>>

\* The kernel: the level of an input changes.
Edge(p, e) ==
  /\ e \in event[p] /\ p \in export
  /\ pend' = [h \in Handles |-> IF Live(h, p) THEN [pend[h] EXCEPT ![p] = TRUE] ELSE pend[h]]
  /\ seen' = [h \in Handles |-> seen[h] \/ (pc[h] = "poll" /\ arg[h].pin = p)]
  /\ ret' = "none"
  /\ UNCHANGED <<handleVars, pc, arg, fsel, regVars, export, event>>

-----------------------------------------------------------------------------
IoStep(h) ==
  \/ \E p \in Pins, f \in Funcs : gpio_bcm_set_func(h, p, f)
  \/ \E p \in Pins, v \in {0, 1} : direction_output_io(h, p, v) \/ set_value_io(h, p, v)
  \/ ReadFsel(h) \/ WriteFsel(h)

SysfsStep(h) ==
  \/ \E p \in SysfsPins : gpio_sysfs_export(h, p) \/ gpio_sysfs_unexport(h, p)
  \/ \E p \in SysfsPins, v \in {0, 1} : direction_sysfs(h, p, "out", v) \/ set_value_sysfs(h, p, v)
  \/ \E p \in SysfsPins : direction_sysfs(h, p, "in", NoVal) \/ get_value_sysfs(h, p)
  \/ WriteDirection(h) \/ WriteValue(h)
  \/ \E p \in SysfsPins, e \in SUBSET Edges : gpio_set_event(h, p, e)
  \/ \E p \in SysfsPins : gpio_sysfs_poll(h, p)
  \/ PollReturns(h)

Next ==
  \/ \E h \in Handles :
       \/ \E d \in {"io", "sysfs"} : gpio_set_driver(h, d)
       \/ gpio_free(h) \/ IoStep(h) \/ SysfsStep(h)
  \/ \E p \in SysfsPins, e \in Edges : Edge(p, e)

Spec == Init /\ [][Next]_vars

-----------------------------------------------------------------------------
(***************************************************************************)
(* Properties.                                                             *)
(***************************************************************************)

Returns(h, r) == pc[h] # "idle" /\ pc'[h] = "idle" /\ ret' = r

\* The function of a pin changes only in a call for that pin (gpio_bcm_set_func, a
\* direction, or the end of its export), although the whole
\* register is read, changed and written back (gpio_bcm_set_func), provided that
\* processes do not work on one register at the same time.
OthersKept ==
  [][\A p \in Pins : func'[p] # func[p] =>
       \/ \E h \in Handles : pc[h] \in {"write", "dir"} /\ arg[h].pin = p
       \/ p \in export /\ p \notin export']_vars

\* "no GPIO output blink with requested value after switching to the output mode"
\* (gpio.h 78-79): when the I/O driver makes a pin an output its value is set.
NoBlink ==
  [][\A h \in Handles : pc[h] = "write" /\ pc'[h] # "write" /\ arg[h].val # NoVal =>
       latch[arg[h].pin] = arg[h].val]_vars

\* gpio_direction_output() succeeds only when the pin is an output with the value
\* asked for, through either driver and whatever happens to the pin's export.
OutputAsAsked ==
  [][\A h \in Handles : Returns(h, "SUCCESS") /\ arg[h].val # NoVal =>
       func'[arg[h].pin] = "out" /\ latch'[arg[h].pin] = arg[h].val]_vars

\* "If the event is detected LREC_SUCCESS is returned, LREC_TIMEOUT means timeout"
\* (gpio.h 207-209): while the value file is live, gpio_sysfs_poll() succeeds only if
\* an event happened since the call, and times out only if none did.
PollTrue ==
  [][\A h \in Handles : pc[h] = "poll" /\ Live(h, arg[h].pin) =>
       /\ Returns(h, "SUCCESS") => seen[h]
       /\ Returns(h, "TIMEOUT") => ~seen[h]]_vars
=============================================================================
