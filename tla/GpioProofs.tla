----------------------------- MODULE GpioProofs -----------------------------
(***************************************************************************)
(* What holds of the GPIO calls of Gpio and GpioPull for every number of   *)
(* processes, pins and banks, every assignment of pins to banks, and with  *)
(* processes that do not work on one register at the same time.            *)
(***************************************************************************)
EXTENDS GpioPull, TLAPS

allVars == <<vars, pullVars>>

\* where a call that works on a pin and its function register is
Active == {"read", "write", "dir", "value"}
Sites == {"idle", "poll"} \cup Active \cup PullSites

\* The state is well formed.
GpioType ==
  /\ pc \in [Handles -> Sites]
  /\ arg \in [Handles -> [pin : Pins \cup {NoPin}, what : Funcs \cup Pulls \cup {"none"},
                          val : {0, 1, NoVal}]]
  /\ fsel \in [Handles -> [Pins -> Funcs]]
  /\ func \in [Pins -> Funcs] /\ latch \in [Pins -> {0, 1}]
  /\ valfd \in [Handles -> [Pins -> {"none", "live", "stale"}]]
  /\ pend \in [Handles -> [Pins -> BOOLEAN]]
  /\ seen \in [Handles -> BOOLEAN]
  /\ pull \in [Pins -> Pulls] /\ gppud \in Pulls /\ gppudclk \subseteq Pins

\* The arguments of a call are those of its function.
CallArgs ==
  \A h \in Handles :
    /\ pc[h] = "idle" => arg[h] = NoArg
    /\ pc[h] # "idle" => arg[h].pin \in Pins
    /\ pc[h] \in Active /\ arg[h].val # NoVal => arg[h].what = "out"
    /\ pc[h] \in {"read", "write", "dir"} => arg[h].what \in Funcs
    /\ pc[h] = "dir" /\ arg[h].what = "out" => arg[h].val # NoVal
    /\ pc[h] = "value" => arg[h].val # NoVal
    /\ pc[h] \in {"poll"} \cup PullSites => arg[h].val = NoVal
    /\ pc[h] \in PullSites => arg[h].what \in Pulls

\* Two calls never work on one function register.
BanksApart ==
  \A g, h \in Handles : g # h /\ pc[g] \in Active /\ pc[h] \in Active =>
    ~SameBank(arg[g].pin, arg[h].pin)

\* The copy of the register that a call is to write back is still what the
\* register holds.
CopyFresh ==
  \A h \in Handles : pc[h] = "write" =>
    \A q \in Pins : SameBank(arg[h].pin, q) => fsel[h][q] = func[q]

\* The value of an output is set before the pin is made one, and the other way
\* round on sysfs.
ValueFirst ==
  \A h \in Handles :
    /\ pc[h] \in {"read", "write"} /\ arg[h].val # NoVal =>
         latch[arg[h].pin] = arg[h].val
    /\ pc[h] = "value" => func[arg[h].pin] = "out"

\* A poll has seen an event of its live file when there is one to be read.
PollSees ==
  \A h \in Handles : pc[h] = "poll" /\ Live(h, arg[h].pin) =>
    (pend[h][arg[h].pin] <=> seen[h])

\* One call at a time sets a resistor, and the clock is off but for its own pin.
PullsApart ==
  /\ \A g, h \in Handles : g # h /\ pc[g] \in PullSites => pc[h] \notin PullSites
  /\ (\A h \in Handles : pc[h] \notin {"clk", "unpud"}) => gppudclk = {}
  /\ \A h \in Handles :
       /\ pc[h] = "pud" => gppud = arg[h].what
       /\ pc[h] \in {"clk", "unpud"} => pull[arg[h].pin] = arg[h].what

GpioInv == GpioType /\ CallArgs /\ BanksApart /\ CopyFresh /\ ValueFirst
PullInv == GpioType /\ CallArgs /\ PullsApart

-----------------------------------------------------------------------------
(***************************************************************************)
(* Type correctness and the arguments of calls.                            *)
(***************************************************************************)

Whats == Funcs \cup Pulls \cup {"none"}
Args == [pin : Pins \cup {NoPin}, what : Whats, val : {0, 1, NoVal}]

\* what holds of where the handles are and of their arguments
CallType ==
  /\ pc \in [Handles -> Sites] /\ arg \in [Handles -> Args]
  /\ fsel \in [Handles -> [Pins -> Funcs]]
  /\ CallArgs

\* what holds of the rest of the state
RestType ==
  /\ func \in [Pins -> Funcs] /\ latch \in [Pins -> {0, 1}]
  /\ valfd \in [Handles -> [Pins -> {"none", "live", "stale"}]]
  /\ pend \in [Handles -> [Pins -> BOOLEAN]]
  /\ seen \in [Handles -> BOOLEAN]
  /\ pull \in [Pins -> Pulls] /\ gppud \in Pulls /\ gppudclk \subseteq Pins

LEMMA TypeParts == GpioType /\ CallArgs <=> CallType /\ RestType
  BY DEF GpioType, CallType, RestType, Args, Whats

LEMMA ReturnType ==
  ASSUME CallType, NEW h \in Handles, NEW r, Return(h, r)
  PROVE  CallType'
<1>1. NoArg \in Args /\ NoCopy \in [Pins -> Funcs] /\ "idle" \in Sites
  BY GpioAssumption DEF NoArg, Args, Whats, NoCopy, Sites
<1>2. pc' \in [Handles -> Sites] /\ arg' \in [Handles -> Args] /\ fsel' \in [Handles -> [Pins -> Funcs]]
  BY <1>1 DEF CallType, Return
<1>3. ASSUME NEW g \in Handles, g # h PROVE pc'[g] = pc[g] /\ arg'[g] = arg[g]
  BY <1>3 DEF CallType, Return
<1>4. pc'[h] = "idle" /\ arg'[h] = NoArg
  BY DEF CallType, Return
<1>5. CallArgs'
  BY <1>3, <1>4 DEF CallType, CallArgs, Active, PullSites
<1> QED BY <1>2, <1>5 DEF CallType

\* the arguments that a call at the site `to` may have
ArgsOf(to, p, f, v) ==
  /\ to \in Sites \ {"idle"} /\ p \in Pins /\ f \in Whats /\ v \in {0, 1, NoVal}
  /\ to \in Active /\ v # NoVal => f = "out"
  /\ to \in {"read", "write", "dir"} => f \in Funcs
  /\ to = "dir" /\ f = "out" => v # NoVal
  /\ to = "value" => v # NoVal
  /\ to \in {"poll"} \cup PullSites => v = NoVal
  /\ to \in PullSites => f \in Pulls

LEMMA EnterType ==
  ASSUME CallType, NEW h \in Handles, NEW to, NEW p, NEW f, NEW v, ArgsOf(to, p, f, v),
         Enter(h, to, p, f, v),
         fsel' = fsel \/ \E c \in [Pins -> Funcs] : fsel' = [fsel EXCEPT ![h] = c]
  PROVE  CallType'
<1> DEFINE a == [pin |-> p, what |-> f, val |-> v]
<1>1. a \in Args
  BY DEF ArgsOf, Args
<1>2. pc' \in [Handles -> Sites] /\ fsel' \in [Handles -> [Pins -> Funcs]]
  BY DEF CallType, Enter, ArgsOf
<1>3. arg' \in [Handles -> Args] /\ arg'[h] = a /\ pc'[h] = to
  <2> HIDE DEF a
  <2>1. arg' = [arg EXCEPT ![h] = a] /\ pc' = [pc EXCEPT ![h] = to]
    BY DEF Enter, a
  <2> QED BY <1>1, <2>1 DEF CallType
<1>4. ASSUME NEW g \in Handles, g # h PROVE pc'[g] = pc[g] /\ arg'[g] = arg[g]
  BY <1>4 DEF CallType, Enter
<1>5. CallArgs'
  BY <1>3, <1>4 DEF CallType, CallArgs, ArgsOf
<1> QED BY <1>2, <1>3, <1>5 DEF CallType

LEMMA ContinueType ==
  ASSUME CallType, NEW h \in Handles, NEW from \in Sites \ {"idle"}, NEW to, Continue(h, from, to),
         ArgsOf(to, arg[h].pin, arg[h].what, arg[h].val), arg' = arg,
         fsel' = fsel \/ \E c \in [Pins -> Funcs] : fsel' = [fsel EXCEPT ![h] = c]
  PROVE  CallType'
<1>1. pc' \in [Handles -> Sites] /\ fsel' \in [Handles -> [Pins -> Funcs]] /\ pc'[h] = to
  BY DEF CallType, Continue, ArgsOf
<1>2. ASSUME NEW g \in Handles, g # h PROVE pc'[g] = pc[g]
  BY <1>2 DEF CallType, Continue
<1>3. CallArgs'
  BY <1>1, <1>2 DEF CallType, CallArgs, ArgsOf
<1> QED BY <1>1, <1>3 DEF CallType

\* The I/O driver keeps the state well formed, ...
LEMMA IoType ==
  ASSUME CallType, RestType, NEW h \in Handles, IoStep(h)
  PROVE  CallType' /\ func' \in [Pins -> Funcs] /\ latch' \in [Pins -> {0, 1}]
<1> USE DEF RestType
<1>1. ASSUME NEW p \in Pins, NEW f \in Funcs, gpio_bcm_set_func(h, p, f)
      PROVE  CallType' /\ func' \in [Pins -> Funcs] /\ latch' \in [Pins -> {0, 1}]
  <2>1. UNCHANGED regVars
    BY <1>1 DEF gpio_bcm_set_func
  <2>2. CASE Enter(h, "write", p, f, NoVal) /\ fsel' = [fsel EXCEPT ![h] = func]
    <3>1. ArgsOf("write", p, f, NoVal)
      BY DEF ArgsOf, Sites, Active, PullSites, Whats
    <3> QED BY <2>1, <2>2, <3>1, EnterType DEF regVars
  <2>3. CASE Return(h, "FAILED")
    BY <2>1, <2>3, ReturnType DEF regVars
  <2> QED BY <1>1, <2>2, <2>3 DEF gpio_bcm_set_func
<1>2. ASSUME NEW p \in Pins, NEW v \in {0, 1}, direction_output_io(h, p, v)
      PROVE  CallType' /\ func' \in [Pins -> Funcs] /\ latch' \in [Pins -> {0, 1}]
  <2>1. ArgsOf("read", p, "out", v)
    BY GpioAssumption DEF ArgsOf, Sites, Active, PullSites, Whats, NoVal
  <2>2. CallType'
    BY <1>2, <2>1, EnterType DEF direction_output_io
  <2> QED BY <1>2, <2>2 DEF direction_output_io
<1>3. ASSUME NEW p \in Pins, NEW v \in {0, 1}, set_value_io(h, p, v)
      PROVE  CallType' /\ func' \in [Pins -> Funcs] /\ latch' \in [Pins -> {0, 1}]
  <2>1. CallType'
    BY <1>3, ReturnType DEF set_value_io
  <2> QED BY <1>3, <2>1 DEF set_value_io
<1>4. ASSUME ReadFsel(h)
      PROVE  CallType' /\ func' \in [Pins -> Funcs] /\ latch' \in [Pins -> {0, 1}]
  <2>1. pc[h] = "read" /\ arg[h] \in Args
    BY <1>4 DEF ReadFsel, Continue, CallType
  <2>2. ArgsOf("write", arg[h].pin, arg[h].what, arg[h].val)
    BY <2>1 DEF ArgsOf, CallType, CallArgs, Sites, Active, PullSites, Args
  <2>3. CallType'
    BY <1>4, <2>2, ContinueType DEF ReadFsel, Sites, Active
  <2> QED BY <1>4, <2>3 DEF ReadFsel, regVars
<1>5. ASSUME WriteFsel(h)
      PROVE  CallType' /\ func' \in [Pins -> Funcs] /\ latch' \in [Pins -> {0, 1}]
  <2>1. CallType'
    BY <1>5, ReturnType DEF WriteFsel
  <2>2. arg[h].what \in Funcs /\ fsel[h] \in [Pins -> Funcs]
    BY <1>5 DEF WriteFsel, CallType, CallArgs
  <2>3. func' \in [Pins -> Funcs]
    BY <1>5, <2>2 DEF WriteFsel
  <2> QED BY <1>5, <2>1, <2>3 DEF WriteFsel
<1> QED BY <1>1, <1>2, <1>3, <1>4, <1>5 DEF IoStep

\* one entry of a table of the handles' pins changes
LEMMA OneEntry ==
  ASSUME NEW S, NEW f \in [Handles -> [Pins -> S]], NEW h \in Handles, NEW p, NEW v \in S
  PROVE  /\ [f EXCEPT ![h][p] = v] \in [Handles -> [Pins -> S]]
         /\ \A g \in Handles : [f[g] EXCEPT ![p] = v] \in [Pins -> S]
<1>1. \A g \in Handles : f[g] \in [Pins -> S]
  OBVIOUS
<1>2. \A g \in Handles : [f[g] EXCEPT ![p] = v] \in [Pins -> S]
  BY <1>1
<1>3. [f EXCEPT ![h][p] = v] = [f EXCEPT ![h] = [f[h] EXCEPT ![p] = v]]
  OBVIOUS
<1>4. [f EXCEPT ![h] = [f[h] EXCEPT ![p] = v]] \in [Handles -> [Pins -> S]]
  BY <1>2
<1> QED BY <1>2, <1>3, <1>4

\* ... so does the sysfs driver, ...
LEMMA SysfsType ==
  ASSUME CallType, RestType, NEW h \in Handles, SysfsStep(h)
  PROVE  /\ CallType' /\ func' \in [Pins -> Funcs] /\ latch' \in [Pins -> {0, 1}]
         /\ valfd' \in [Handles -> [Pins -> {"none", "live", "stale"}]]
         /\ pend' \in [Handles -> [Pins -> BOOLEAN]] /\ seen' \in [Handles -> BOOLEAN]
<1> DEFINE Goal == /\ CallType' /\ func' \in [Pins -> Funcs] /\ latch' \in [Pins -> {0, 1}]
                   /\ valfd' \in [Handles -> [Pins -> {"none", "live", "stale"}]]
                   /\ pend' \in [Handles -> [Pins -> BOOLEAN]] /\ seen' \in [Handles -> BOOLEAN]
<1>1. ASSUME NEW p \in SysfsPins, gpio_sysfs_export(h, p) PROVE Goal
  <2>1. CallType'
    BY <1>1, ReturnType DEF gpio_sysfs_export
  <2> QED BY <1>1, <2>1 DEF gpio_sysfs_export, handleVars, regVars, RestType
<1>2. ASSUME NEW p \in SysfsPins, gpio_sysfs_unexport(h, p) PROVE Goal
  <2>1. CallType'
    BY <1>2, ReturnType DEF gpio_sysfs_unexport
  <2>2. func' \in [Pins -> Funcs]
    BY <1>2, GpioAssumption, SMTT(30) DEF gpio_sysfs_unexport, RestType
  <2>3. valfd' \in [Handles -> [Pins -> {"none", "live", "stale"}]]
    <3>1. \A g \in Handles : [valfd[g] EXCEPT ![p] = "stale"] \in [Pins -> {"none", "live", "stale"}]
      BY OneEntry DEF RestType
    <3>2. valfd' = valfd \/ valfd' = [g \in Handles |->
            IF Live(g, p) THEN [valfd[g] EXCEPT ![p] = "stale"] ELSE valfd[g]]
      BY <1>2 DEF gpio_sysfs_unexport
    <3>3. valfd \in [Handles -> [Pins -> {"none", "live", "stale"}]]
      BY DEF RestType
    <3> QED BY <3>1, <3>2, <3>3
  <2>4. pend' \in [Handles -> [Pins -> BOOLEAN]]
    <3>1. \A g \in Handles : [pend[g] EXCEPT ![p] = FALSE] \in [Pins -> BOOLEAN]
      BY OneEntry DEF RestType
    <3>2. pend' = pend \/ pend' = [g \in Handles |-> [pend[g] EXCEPT ![p] = FALSE]]
      BY <1>2 DEF gpio_sysfs_unexport
    <3>3. pend \in [Handles -> [Pins -> BOOLEAN]]
      BY DEF RestType
    <3>4. CASE pend' = [g \in Handles |-> [pend[g] EXCEPT ![p] = FALSE]]
      BY <3>1, <3>4, Zenon
    <3> QED BY <3>2, <3>3, <3>4, Zenon
  <2> QED BY <1>2, <2>1, <2>2, <2>3, <2>4 DEF gpio_sysfs_unexport, RestType
<1>3. ASSUME NEW p \in SysfsPins, NEW f \in {"in", "out"}, NEW v \in {0, 1, NoVal},
             f = "out" <=> v # NoVal, direction_sysfs(h, p, f, v) PROVE Goal
  <2>1. ArgsOf("dir", p, f, v)
    BY <1>3, GpioAssumption DEF ArgsOf, Sites, Active, PullSites, Whats, NoVal
  <2>2. CallType'
    BY <1>3, <2>1, EnterType, ReturnType DEF direction_sysfs
  <2>3. valfd' \in [Handles -> [Pins -> {"none", "live", "stale"}]]
    <3>1. [valfd EXCEPT ![h][p] = "live"] \in [Handles -> [Pins -> {"none", "live", "stale"}]]
      BY OneEntry DEF RestType
    <3> QED BY <1>3, <3>1 DEF direction_sysfs, RestType
  <2>4. pend' \in [Handles -> [Pins -> BOOLEAN]]
    <3>1. [pend EXCEPT ![h][p] = TRUE] \in [Handles -> [Pins -> BOOLEAN]]
      BY OneEntry DEF RestType
    <3> QED BY <1>3, <3>1 DEF direction_sysfs, RestType
  <2> QED BY <1>3, <2>2, <2>3, <2>4 DEF direction_sysfs, regVars, RestType
<1>4. ASSUME NEW p \in Pins, NEW v \in {0, 1}, SetValue(h, p, v) PROVE Goal
  <2>1. CallType'
    BY <1>4, ReturnType DEF SetValue
  <2> QED BY <1>4, <2>1 DEF SetValue, handleVars, sysfsVars, RestType
<1>5. ASSUME NEW p \in SysfsPins, get_value_sysfs(h, p) PROVE Goal
  <2>1. CallType'
    BY <1>5, ReturnType DEF get_value_sysfs
  <2>2. [pend EXCEPT ![h][p] = FALSE] \in [Handles -> [Pins -> BOOLEAN]]
    BY OneEntry DEF RestType
  <2>3. pend' \in [Handles -> [Pins -> BOOLEAN]]
    BY <1>5, <2>2 DEF get_value_sysfs, RestType
  <2> QED BY <1>5, <2>1, <2>3 DEF get_value_sysfs, handleVars, regVars, RestType
<1>6. ASSUME WriteDirection(h) PROVE Goal
  <2>1. pc[h] = "dir" /\ arg[h] \in Args /\ arg[h].what \in Funcs
    BY <1>6 DEF WriteDirection, CallType, CallArgs
  <2>2. func' \in [Pins -> Funcs] /\ latch' \in [Pins -> {0, 1}]
    BY <1>6, <2>1 DEF WriteDirection, RestType
  <2>3. CallType'
    <3>1. CASE \E r : Return(h, r)
      BY <3>1, ReturnType
    <3>2. CASE Continue(h, "dir", "value") /\ UNCHANGED <<arg, fsel>> /\ arg[h].what = "out"
      <4>1. ArgsOf("value", arg[h].pin, arg[h].what, arg[h].val)
        BY <2>1, <3>2 DEF ArgsOf, CallType, CallArgs, Sites, Active, PullSites, Args
      <4> QED BY <3>2, <4>1, ContinueType DEF Sites, Active
    <3> QED BY <1>6, <3>1, <3>2 DEF WriteDirection
  <2> QED BY <1>6, <2>2, <2>3 DEF WriteDirection, handleVars, sysfsVars, RestType
<1>7. ASSUME WriteValue(h) PROVE Goal
  <2>1. arg[h].pin \in Pins /\ arg[h].val \in {0, 1}
    BY <1>7 DEF WriteValue, CallType, CallArgs, Args
  <2> QED BY <1>4, <1>7, <2>1 DEF WriteValue
<1>8. ASSUME NEW p \in SysfsPins, NEW e, gpio_set_event(h, p, e) PROVE Goal
  <2>1. CallType'
    BY <1>8, ReturnType DEF gpio_set_event
  <2> QED BY <1>8, <2>1 DEF gpio_set_event, handleVars, regVars, RestType
<1>9. ASSUME NEW p \in SysfsPins, gpio_sysfs_poll(h, p) PROVE Goal
  <2>1. ArgsOf("poll", p, "none", NoVal)
    BY GpioAssumption DEF ArgsOf, Sites, Active, PullSites, Whats
  <2>2. CallType'
    BY <1>9, <2>1, EnterType, ReturnType DEF gpio_sysfs_poll
  <2>3. pend' \in [Handles -> [Pins -> BOOLEAN]] /\ seen' \in [Handles -> BOOLEAN]
    <3>1. [pend EXCEPT ![h][p] = FALSE] \in [Handles -> [Pins -> BOOLEAN]]
      BY OneEntry DEF RestType
    <3> QED BY <1>9, <3>1 DEF gpio_sysfs_poll, RestType
  <2> QED BY <1>9, <2>2, <2>3 DEF gpio_sysfs_poll, handleVars, regVars, RestType
<1>10. ASSUME PollReturns(h) PROVE Goal
  <2>1. CallType'
    BY <1>10, ReturnType DEF PollReturns
  <2> QED BY <1>10, <2>1 DEF PollReturns, handleVars, regVars, RestType
<1>11. ASSUME NEW p \in SysfsPins, NEW v \in {0, 1}, set_value_sysfs(h, p, v) PROVE Goal
  BY <1>4, <1>11, GpioAssumption DEF set_value_sysfs
<1>12. ASSUME NEW p \in SysfsPins, NEW v \in {0, 1}, direction_sysfs(h, p, "out", v) PROVE Goal
  BY <1>3, <1>12 DEF NoVal
<1>13. ASSUME NEW p \in SysfsPins, direction_sysfs(h, p, "in", NoVal) PROVE Goal
  BY <1>3, <1>13
<1> QED BY <1>1, <1>2, <1>5, <1>6, <1>7, <1>8, <1>9, <1>10, <1>11, <1>12, <1>13 DEF SysfsStep

\* ... and the rest.
LEMMA GpioTypeStep ==
  ASSUME GpioType, CallArgs, [PullNext]_allVars
  PROVE  GpioType' /\ CallArgs'
<1> DEFINE Goal == CallType' /\ RestType'
<1>1. CallType /\ RestType
  BY TypeParts
<1> SUFFICES Goal
  BY DEF GpioType, CallType, RestType, Args, Whats
<1>2. CASE UNCHANGED allVars
  BY <1>1, <1>2 DEF allVars, vars, handleVars, callVars, regVars, sysfsVars, pullVars,
     CallType, RestType, CallArgs
<1>3. CASE Next /\ UNCHANGED pullVars
  <2>1. ASSUME NEW h \in Handles, IoStep(h) PROVE Goal
    <3>1. UNCHANGED <<valfd, pend, seen>>
      BY <2>1 DEF IoStep, gpio_bcm_set_func, direction_output_io, set_value_io, ReadFsel,
         WriteFsel, handleVars, sysfsVars
    <3> QED BY <1>1, <1>3, <2>1, <3>1, IoType DEF RestType, pullVars
  <2>2. ASSUME NEW h \in Handles, SysfsStep(h) PROVE Goal
    BY <1>1, <1>3, <2>2, SysfsType DEF RestType, pullVars
  <2>3. ASSUME NEW h \in Handles, NEW d, gpio_set_driver(h, d) PROVE Goal
    <3>1. CallType'
      BY <1>1, <2>3, ReturnType DEF gpio_set_driver
    <3> QED BY <1>1, <1>3, <2>3, <3>1 DEF gpio_set_driver, RestType, regVars, sysfsVars, pullVars
  <2>4. ASSUME NEW h \in Handles, gpio_free(h) PROVE Goal
    <3>1. UNCHANGED <<pc, arg, fsel, func, latch, seen>>
      BY <2>4 DEF gpio_free, regVars
    <3>2. CallType'
      BY <1>1, <3>1 DEF CallType, CallArgs
    <3> QED BY <1>1, <1>3, <2>4, <3>1, <3>2 DEF gpio_free, RestType, pullVars
  <2>5. ASSUME NEW p \in SysfsPins, NEW e, Edge(p, e) PROVE Goal
    <3>1. UNCHANGED <<pc, arg, fsel, func, latch, valfd>>
      BY <2>5 DEF Edge, regVars, handleVars
    <3>2. CallType'
      BY <1>1, <3>1 DEF CallType, CallArgs
    <3>3. \A g \in Handles : [pend[g] EXCEPT ![p] = TRUE] \in [Pins -> BOOLEAN]
      BY <1>1, OneEntry DEF RestType
    <3>4. pend' \in [Handles -> [Pins -> BOOLEAN]]
      BY <1>1, <2>5, <3>3 DEF Edge, RestType
    <3>5. seen' \in [Handles -> BOOLEAN]
      BY <1>1, <2>5 DEF Edge, RestType
    <3> QED BY <1>1, <1>3, <3>1, <3>2, <3>4, <3>5 DEF RestType, pullVars
  <2> QED BY <1>3, <2>1, <2>2, <2>3, <2>4, <2>5 DEF Next
<1>4. ASSUME NEW h \in Handles, NEW p \in Pins, NEW kind \in Pulls,
             gpio_bcm_set_pull_config(h, p, kind) PROVE Goal
  <2>1. ArgsOf("pud", p, kind, NoVal)
    BY DEF ArgsOf, Sites, Active, PullSites, Whats
  <2>2. CallType'
    BY <1>1, <1>4, <2>1, EnterType, ReturnType DEF gpio_bcm_set_pull_config
  <2> QED BY <1>1, <1>4, <2>2 DEF gpio_bcm_set_pull_config, RestType, handleVars, regVars, sysfsVars
<1>5. ASSUME NEW h \in Handles, ClockPull(h) PROVE Goal
  <2>1. pc[h] = "pud" /\ arg[h] \in Args /\ arg[h].pin \in Pins
    BY <1>1, <1>5 DEF ClockPull, Continue, CallType, CallArgs
  <2>2. ArgsOf("clk", arg[h].pin, arg[h].what, arg[h].val)
    BY <1>1, <2>1 DEF ArgsOf, CallType, CallArgs, Sites, Active, PullSites, Args
  <2>3. CallType'
    BY <1>1, <1>5, <2>2, ContinueType DEF ClockPull, Sites, PullSites
  <2> QED BY <1>1, <1>5, <2>1, <2>3 DEF ClockPull, RestType, handleVars, regVars, sysfsVars
<1>6. ASSUME NEW h \in Handles, ClearPull(h) PROVE Goal
  <2>1. pc[h] = "clk" /\ arg[h] \in Args
    BY <1>1, <1>6 DEF ClearPull, Continue, CallType
  <2>2. ArgsOf("unpud", arg[h].pin, arg[h].what, arg[h].val)
    BY <1>1, <2>1 DEF ArgsOf, CallType, CallArgs, Sites, Active, PullSites, Args
  <2>3. CallType'
    BY <1>1, <1>6, <2>2, ContinueType DEF ClearPull, Sites, PullSites
  <2> QED BY <1>1, <1>6, <2>3, PullAssumption DEF ClearPull, RestType, handleVars, regVars, sysfsVars
<1>7. ASSUME NEW h \in Handles, UnclockPull(h) PROVE Goal
  <2>1. CallType'
    BY <1>1, <1>7, ReturnType DEF UnclockPull
  <2> QED BY <1>1, <1>7, <2>1 DEF UnclockPull, RestType, handleVars, regVars, sysfsVars
<1> QED BY <1>2, <1>3, <1>4, <1>5, <1>6, <1>7 DEF PullNext

-----------------------------------------------------------------------------
(***************************************************************************)
(* Who touches which pin.                                                  *)
(***************************************************************************)

\* pin p is g's to work on: g begins a call while nobody works on the pin's
\* register, or g's call is for p
Own(g, p) ==
  \/ pc[g] = "idle" /\ Coordinated(g, p)
  \/ pc[g] \in Active /\ arg[g].pin = p

\* What a step of g makes sure of: the copy of the register is fresh, the value
\* is set before the function, and on sysfs after it.
Careful(g) ==
  /\ pc'[g] = "write" =>
       /\ fsel'[g] = func /\ UNCHANGED <<func, latch>>
       /\ arg'[g].val = NoVal \/ (pc[g] = "read" /\ arg'[g] = arg[g])
  /\ pc'[g] = "read" => latch'[arg'[g].pin] = arg'[g].val
  /\ pc'[g] = "value" => func'[arg'[g].pin] = "out"

\* A step of g: nobody else's call moves, the call that g is in after it is for a
\* pin that is g's, and so is every pin whose function or output value changes.
StepOf(g) ==
  /\ \A h \in Handles \ {g} : pc'[h] = pc[h] /\ arg'[h] = arg[h] /\ fsel'[h] = fsel[h]
  /\ pc'[g] \in Active => Own(g, arg'[g].pin)
  /\ \A q \in Pins : func'[q] # func[q] \/ latch'[q] # latch[q] => Own(g, q)
  /\ Careful(g)

LEMMA StepReturns ==
  ASSUME CallType, RestType, NEW g \in Handles, NEW r, Return(g, r),
         \A q \in Pins : func'[q] # func[q] \/ latch'[q] # latch[q] => Own(g, q)
  PROVE  StepOf(g)
  BY DEF StepOf, Careful, Return, CallType, Active

LEMMA StepEnters ==
  ASSUME CallType, RestType, NEW g \in Handles, NEW to, NEW p \in Pins, NEW f, NEW v,
         Enter(g, to, p, f, v), to \in Active => Coordinated(g, p),
         to \in {"read", "write", "value"} => Careful(g),
         fsel' = fsel \/ \E c : fsel' = [fsel EXCEPT ![g] = c],
         \A q \in Pins : func'[q] # func[q] \/ latch'[q] # latch[q] => Own(g, q)
  PROVE  StepOf(g)
<1>1. pc[g] = "idle" /\ pc'[g] = to /\ arg'[g].pin = p
  BY DEF Enter, CallType
<1>2. \A h \in Handles \ {g} : pc'[h] = pc[h] /\ arg'[h] = arg[h] /\ fsel'[h] = fsel[h]
  BY DEF Enter, CallType
<1> QED BY <1>1, <1>2 DEF StepOf, Own, Careful

LEMMA StepContinues ==
  ASSUME CallType, RestType, NEW g \in Handles, NEW from, NEW to, Continue(g, from, to),
         to \in Active => from \in Active, to \in {"read", "write", "value"} => Careful(g),
         arg' = arg, fsel' = fsel \/ \E c : fsel' = [fsel EXCEPT ![g] = c],
         \A q \in Pins : func'[q] # func[q] \/ latch'[q] # latch[q] => Own(g, q)
  PROVE  StepOf(g)
<1>1. pc[g] = from /\ pc'[g] = to /\ arg'[g].pin = arg[g].pin
  BY DEF Continue, CallType
<1>2. \A h \in Handles \ {g} : pc'[h] = pc[h] /\ arg'[h] = arg[h] /\ fsel'[h] = fsel[h]
  BY DEF Continue, CallType
<1> QED BY <1>1, <1>2 DEF StepOf, Own, Careful

\* Every step is a step of one process, or none of a call.
LEMMA OneStep ==
  ASSUME CallType, RestType, CopyFresh, [PullNext]_allVars
  PROVE  (\E g \in Handles : StepOf(g)) \/ UNCHANGED <<pc, arg, fsel, func, latch>>
<1> DEFINE Goal == (\E g \in Handles : StepOf(g)) \/ UNCHANGED <<pc, arg, fsel, func, latch>>
<1>a. ASSUME NEW g \in Handles, NEW p \in Pins, Own(g, p),
             func' = func \/ func' = [func EXCEPT ![p] = func'[p]],
             latch' = latch \/ latch' = [latch EXCEPT ![p] = latch'[p]]
      PROVE  \A q \in Pins : func'[q] # func[q] \/ latch'[q] # latch[q] => Own(g, q)
  BY <1>a DEF RestType
<1>b. ASSUME UNCHANGED regVars, NEW g
      PROVE  \A q \in Pins : func'[q] # func[q] \/ latch'[q] # latch[q] => Own(g, q)
  BY <1>b DEF regVars
<1>1. ASSUME NEW h \in Handles, NEW p \in Pins, NEW f, gpio_bcm_set_func(h, p, f) PROVE Goal
  <2>1. \A q \in Pins : func'[q] # func[q] \/ latch'[q] # latch[q] => Own(h, q)
    BY <1>1 DEF gpio_bcm_set_func, regVars
  <2>2. CASE Enter(h, "write", p, f, NoVal) /\ Coordinated(h, p) /\ fsel' = [fsel EXCEPT ![h] = func]
    <3>1. Careful(h)
      BY <1>1, <2>2 DEF Careful, gpio_bcm_set_func, regVars, Enter, CallType
    <3> QED BY <2>1, <2>2, <3>1, StepEnters
  <2>3. CASE Return(h, "FAILED")
    BY <2>1, <2>3, StepReturns
  <2> QED BY <1>1, <2>2, <2>3 DEF gpio_bcm_set_func
<1>2. ASSUME NEW h \in Handles, NEW p \in Pins, NEW v, direction_output_io(h, p, v) PROVE Goal
  <2>1. Own(h, p)
    BY <1>2 DEF direction_output_io, Enter, Own
  <2>2. \A q \in Pins : func'[q] # func[q] \/ latch'[q] # latch[q] => Own(h, q)
    BY <1>2, <2>1 DEF direction_output_io, RestType
  <2>3. Careful(h)
    BY <1>2 DEF Careful, direction_output_io, Enter, CallType, RestType
  <2> QED BY <1>2, <2>2, <2>3, StepEnters DEF direction_output_io
<1>3. ASSUME NEW h \in Handles, NEW p \in Pins, NEW v, set_value_io(h, p, v) PROVE Goal
  <2>1. Own(h, p)
    BY <1>3 DEF set_value_io, Own
  <2>2. \A q \in Pins : func'[q] # func[q] \/ latch'[q] # latch[q] => Own(h, q)
    BY <1>3, <2>1 DEF set_value_io, RestType
  <2> QED BY <1>3, <2>2, StepReturns DEF set_value_io
<1>4. ASSUME NEW h \in Handles, ReadFsel(h) PROVE Goal
  <2>1. \A q \in Pins : func'[q] # func[q] \/ latch'[q] # latch[q] => Own(h, q)
    BY <1>4 DEF ReadFsel, regVars
  <2>2. Careful(h)
    BY <1>4 DEF Careful, ReadFsel, Continue, CallType, regVars
  <2> QED BY <1>4, <2>1, <2>2, StepContinues DEF ReadFsel, Active
<1>5. ASSUME NEW h \in Handles, WriteFsel(h) PROVE Goal
  <2>1. pc[h] = "write" /\ arg[h].pin \in Pins /\ UNCHANGED latch /\ Return(h, "SUCCESS")
    BY <1>5 DEF WriteFsel, CallType, CallArgs
  <2>2. \A q \in Pins : q # arg[h].pin => func'[q] = func[q]
    BY <1>5, <2>1 DEF WriteFsel, CopyFresh
  <2>3. \A q \in Pins : func'[q] # func[q] \/ latch'[q] # latch[q] => Own(h, q)
    BY <2>1, <2>2 DEF Own, Active
  <2> QED BY <2>1, <2>3, StepReturns
<1>6. ASSUME NEW h \in Handles, NEW p \in Pins, NEW v, SetValue(h, p, v), Own(h, p) PROVE Goal
  <2>1. \A q \in Pins : func'[q] # func[q] \/ latch'[q] # latch[q] => Own(h, q)
    BY <1>6 DEF SetValue, RestType
  <2> QED BY <1>6, <2>1, StepReturns DEF SetValue
<1>7. ASSUME NEW h \in Handles, WriteDirection(h) PROVE Goal
  <2>1. pc[h] = "dir" /\ arg[h].pin \in Pins /\ Own(h, arg[h].pin)
    BY <1>7 DEF WriteDirection, CallType, CallArgs, Own, Active
  <2>2. \A q \in Pins : func'[q] # func[q] \/ latch'[q] # latch[q] => Own(h, q)
    BY <1>7, <2>1 DEF WriteDirection, RestType
  <2>3. \/ Continue(h, "dir", "value") /\ UNCHANGED <<arg, fsel>>
        \/ \E r : Return(h, r)
    BY <1>7 DEF WriteDirection
  <2>4. CASE Continue(h, "dir", "value") /\ UNCHANGED <<arg, fsel>>
    <3>1. arg[h].what = "out" /\ func' = [func EXCEPT ![arg[h].pin] = arg[h].what]
      BY <1>7, <2>4 DEF WriteDirection, Return, Continue, CallType
    <3>2. Careful(h)
      BY <2>1, <2>4, <3>1 DEF Careful, Continue, CallType, RestType
    <3> QED BY <2>2, <2>4, <3>2, StepContinues DEF Active
  <2> QED BY <2>2, <2>3, <2>4, StepReturns
<1>8. ASSUME NEW h \in Handles, NEW p \in SysfsPins, gpio_sysfs_unexport(h, p) PROVE Goal
  <2>1. p \in Pins /\ Own(h, p) /\ UNCHANGED latch /\ \E r : Return(h, r)
    BY <1>8, GpioAssumption DEF gpio_sysfs_unexport, Own
  <2>2. func' = func \/ func' = [func EXCEPT ![p] = "in"]
    BY <1>8 DEF gpio_sysfs_unexport
  <2>3. \A q \in Pins : func'[q] # func[q] \/ latch'[q] # latch[q] => Own(h, q)
    BY <2>1, <2>2 DEF RestType
  <2> QED BY <2>1, <2>3, StepReturns
<1>9. ASSUME NEW h \in Handles, NEW p \in SysfsPins, NEW f, NEW v, direction_sysfs(h, p, f, v)
      PROVE  Goal
  <2>1. \A q \in Pins : func'[q] # func[q] \/ latch'[q] # latch[q] => Own(h, q)
    BY <1>9 DEF direction_sysfs, regVars
  <2>2. \/ Enter(h, "dir", p, f, v) /\ UNCHANGED fsel /\ Coordinated(h, p)
        \/ \E r : Return(h, r)
    BY <1>9 DEF direction_sysfs
  <2>3. p \in Pins /\ "dir" \notin {"read", "write", "value"}
    BY GpioAssumption
  <2> QED BY <2>1, <2>2, <2>3, StepEnters, StepReturns
<1>10. ASSUME NEW h \in Handles, NEW p \in SysfsPins, gpio_sysfs_poll(h, p) PROVE Goal
  <2>1. \A q \in Pins : func'[q] # func[q] \/ latch'[q] # latch[q] => Own(h, q)
    BY <1>10 DEF gpio_sysfs_poll, regVars
  <2>2. (Enter(h, "poll", p, "none", NoVal) /\ UNCHANGED fsel) \/ \E r : Return(h, r)
    BY <1>10 DEF gpio_sysfs_poll
  <2>3. p \in Pins /\ "poll" \notin Active \cup {"read", "write", "value"}
    BY GpioAssumption DEF Active
  <2> QED BY <2>1, <2>2, <2>3, StepEnters, StepReturns
<1>11. ASSUME NEW h \in Handles, UNCHANGED regVars, \E r : Return(h, r) PROVE Goal
  <2>1. \A q \in Pins : func'[q] # func[q] \/ latch'[q] # latch[q] => Own(h, q)
    BY <1>11 DEF regVars
  <2> QED BY <1>11, <2>1, StepReturns
<1>12. ASSUME NEW h \in Handles, IoStep(h) PROVE Goal
  BY <1>1, <1>2, <1>3, <1>4, <1>5, <1>12 DEF IoStep
<1>13. ASSUME NEW h \in Handles, SysfsStep(h) PROVE Goal
  <2>1. ASSUME NEW p \in SysfsPins, gpio_sysfs_export(h, p) \/ get_value_sysfs(h, p) PROVE Goal
    BY <1>11, <2>1 DEF gpio_sysfs_export, get_value_sysfs
  <2>2. ASSUME NEW p \in SysfsPins, NEW e, gpio_set_event(h, p, e) PROVE Goal
    BY <1>11, <2>2 DEF gpio_set_event
  <2>3. ASSUME NEW p \in SysfsPins, NEW v, set_value_sysfs(h, p, v) PROVE Goal
    BY <1>6, <2>3, GpioAssumption DEF set_value_sysfs, Own
  <2>4. ASSUME WriteValue(h) PROVE Goal
    <3>1. arg[h].pin \in Pins /\ Own(h, arg[h].pin)
      BY <2>4 DEF WriteValue, CallType, CallArgs, Own, Active
    <3> QED BY <1>6, <2>4, <3>1 DEF WriteValue
  <2>5. ASSUME PollReturns(h) PROVE Goal
    BY <1>11, <2>5 DEF PollReturns
  <2> QED BY <1>7, <1>8, <1>9, <1>10, <1>13, <2>1, <2>2, <2>3, <2>4, <2>5 DEF SysfsStep
<1>14. ASSUME NEW h \in Handles, NEW d, gpio_set_driver(h, d) PROVE Goal
  BY <1>11, <1>14 DEF gpio_set_driver
<1>15. ASSUME NEW h \in Handles, NEW p \in Pins, NEW kind, gpio_bcm_set_pull_config(h, p, kind)
       PROVE  Goal
  <2>1. \A q \in Pins : func'[q] # func[q] \/ latch'[q] # latch[q] => Own(h, q)
    BY <1>15 DEF gpio_bcm_set_pull_config, regVars
  <2>2. (Enter(h, "pud", p, kind, NoVal) /\ UNCHANGED fsel) \/ \E r : Return(h, r)
    BY <1>15 DEF gpio_bcm_set_pull_config
  <2>3. "pud" \notin Active \cup {"read", "write", "value"}
    BY DEF Active
  <2> QED BY <2>1, <2>2, <2>3, StepEnters, StepReturns
<1>16. ASSUME NEW h \in Handles, ClockPull(h) \/ ClearPull(h) PROVE Goal
  <2>1. \A q \in Pins : func'[q] # func[q] \/ latch'[q] # latch[q] => Own(h, q)
    BY <1>16 DEF ClockPull, ClearPull, regVars
  <2>2. Continue(h, "pud", "clk") \/ Continue(h, "clk", "unpud")
    BY <1>16 DEF ClockPull, ClearPull
  <2>3. UNCHANGED <<arg, fsel>> /\ {"clk", "unpud"} \cap (Active \cup {"read", "write", "value"}) = {}
    BY <1>16 DEF ClockPull, ClearPull, Active
  <2> QED BY <2>1, <2>2, <2>3, StepContinues
<1>17. ASSUME NEW h \in Handles, UnclockPull(h) PROVE Goal
  BY <1>11, <1>17 DEF UnclockPull
<1>18. CASE UNCHANGED allVars \/ (\E h \in Handles : gpio_free(h))
            \/ \E p \in SysfsPins, e \in Edges : Edge(p, e)
  BY <1>18 DEF allVars, vars, callVars, regVars, gpio_free, Edge
<1>19. CASE Next
  BY <1>12, <1>13, <1>14, <1>18, <1>19 DEF Next
<1> QED BY <1>15, <1>16, <1>17, <1>18, <1>19 DEF PullNext

-----------------------------------------------------------------------------
(***************************************************************************)
(* The registers: nobody works on another's.                               *)
(***************************************************************************)

\* A pin that is g's is in no register that another works on.
LEMMA OwnApart ==
  ASSUME Exclusive, BanksApart, CallType, NEW g \in Handles, NEW h \in Handles \ {g},
         NEW p \in Pins, Own(g, p), pc[h] \in Active
  PROVE  ~SameBank(arg[h].pin, p) /\ ~SameBank(p, arg[h].pin) /\ arg[h].pin # p
<1>1. ~SameBank(arg[h].pin, p)
  BY DEF Own, Coordinated, Active, BanksApart
<1>2. SameBank(p, p)
  BY GpioAssumption DEF SameBank
<1> QED BY <1>1, <1>2 DEF SameBank

LEMMA BanksApartStep ==
  ASSUME Exclusive, CallType, CallType', RestType, BanksApart, CopyFresh, [PullNext]_allVars
  PROVE  BanksApart'
<1>1. CASE UNCHANGED <<pc, arg, fsel, func, latch>>
  BY <1>1 DEF BanksApart, SameBank
<1>2. ASSUME NEW g \in Handles, StepOf(g) PROVE BanksApart'
  <2>1. ASSUME NEW h \in Handles \ {g}, pc'[g] \in Active, pc'[h] \in Active
        PROVE  ~SameBank(arg'[g].pin, arg'[h].pin) /\ ~SameBank(arg'[h].pin, arg'[g].pin)
    <3>1. Own(g, arg'[g].pin) /\ pc[h] \in Active /\ arg'[h] = arg[h] /\ arg'[g].pin \in Pins
      BY <1>2, <2>1 DEF StepOf, CallType, CallArgs, Active
    <3> QED BY <3>1, OwnApart
  <2>2. \A h, k \in Handles \ {g} : h # k /\ pc'[h] \in Active /\ pc'[k] \in Active =>
          ~SameBank(arg'[h].pin, arg'[k].pin)
    BY <1>2 DEF StepOf, BanksApart
  <2> QED BY <2>1, <2>2 DEF BanksApart, SameBank
<1> QED BY <1>1, <1>2, OneStep

LEMMA CopyFreshStep ==
  ASSUME Exclusive, CallType, CallType', RestType, BanksApart, CopyFresh, [PullNext]_allVars
  PROVE  CopyFresh'
<1>1. CASE UNCHANGED <<pc, arg, fsel, func, latch>>
  BY <1>1 DEF CopyFresh, SameBank
<1>2. ASSUME NEW g \in Handles, StepOf(g), NEW h \in Handles, pc'[h] = "write",
             NEW q \in Pins, SameBank(arg'[h].pin, q)
      PROVE  fsel'[h][q] = func'[q]
  <2>1. CASE h = g
    BY <1>2, <2>1 DEF StepOf, Careful
  <2>2. CASE h # g
    <3>1. pc[h] = "write" /\ arg'[h] = arg[h] /\ fsel'[h] = fsel[h]
      BY <1>2, <2>2 DEF StepOf
    <3>2. ~Own(g, q)
      BY <1>2, <2>2, <3>1, OwnApart DEF Active
    <3>3. func'[q] = func[q]
      BY <1>2, <3>2 DEF StepOf
    <3> QED BY <1>2, <3>1, <3>3 DEF CopyFresh
  <2> QED BY <2>1, <2>2
<1> QED BY <1>1, <1>2, OneStep DEF CopyFresh, SameBank

LEMMA ValueFirstStep ==
  ASSUME Exclusive, CallType, CallType', RestType, BanksApart, CopyFresh, ValueFirst,
         [PullNext]_allVars
  PROVE  ValueFirst'
<1>1. CASE UNCHANGED <<pc, arg, fsel, func, latch>>
  BY <1>1 DEF ValueFirst
<1>2. ASSUME NEW g \in Handles, StepOf(g), NEW h \in Handles
      PROVE  /\ pc'[h] \in {"read", "write"} /\ arg'[h].val # NoVal =>
                  latch'[arg'[h].pin] = arg'[h].val
             /\ pc'[h] = "value" => func'[arg'[h].pin] = "out"
  <2>1. CASE h = g
    BY <1>2, <2>1 DEF StepOf, Careful, ValueFirst
  <2>2. CASE h # g
    <3>1. pc'[h] = pc[h] /\ arg'[h] = arg[h]
      BY <1>2, <2>2 DEF StepOf
    <3>2. CASE pc[h] \in Active
      <4>1. arg[h].pin \in Pins /\ ~Own(g, arg[h].pin)
        BY <2>2, <3>2, OwnApart DEF CallType, CallArgs, Active
      <4>2. func'[arg[h].pin] = func[arg[h].pin] /\ latch'[arg[h].pin] = latch[arg[h].pin]
        BY <1>2, <4>1 DEF StepOf
      <4> QED BY <3>1, <4>2 DEF ValueFirst
    <3> QED BY <3>1, <3>2 DEF Active
  <2> QED BY <2>1, <2>2
<1> QED BY <1>1, <1>2, OneStep DEF ValueFirst

LEMMA GpioInit == PullInit => GpioInv /\ PollSees /\ PullsApart
<1> SUFFICES ASSUME PullInit PROVE GpioInv /\ PollSees /\ PullsApart
  OBVIOUS
<1>1. GpioType
  BY GpioAssumption, PullAssumption DEF PullInit, Init, PullUnused, GpioType, Sites, NoArg, NoCopy
<1>2. CallArgs /\ BanksApart /\ CopyFresh /\ ValueFirst
  BY DEF PullInit, Init, CallArgs, BanksApart, CopyFresh, ValueFirst, Active, PullSites
<1>3. PollSees /\ PullsApart
  BY DEF PullInit, Init, PullUnused, PollSees, PullsApart, PullSites
<1> QED BY <1>1, <1>2, <1>3 DEF GpioInv

LEMMA GpioStep ==
  ASSUME Exclusive
  PROVE  GpioInv /\ [PullNext]_allVars => GpioInv'
<1> SUFFICES ASSUME GpioInv, [PullNext]_allVars PROVE GpioInv'
  OBVIOUS
<1>1. GpioType /\ CallArgs /\ GpioType' /\ CallArgs'
  BY GpioTypeStep DEF GpioInv
<1>2. CallType /\ RestType /\ CallType' /\ RestType'
  BY <1>1 DEF GpioType, CallType, RestType, Args, Whats
<1> QED BY <1>1, <1>2, BanksApartStep, CopyFreshStep, ValueFirstStep DEF GpioInv

\* A pin's function changes in the last step of a change of function, when its
\* direction is written, or when it is given up.
LEMMA FuncChange ==
  ASSUME [PullNext]_allVars
  PROVE  \/ UNCHANGED func
         \/ \E h \in Handles : \/ WriteFsel(h) \/ WriteDirection(h)
                               \/ \E p \in SysfsPins : gpio_sysfs_unexport(h, p)
<1>1. ASSUME NEW h \in Handles, NEW p, NEW f, NEW v,
             \/ gpio_bcm_set_func(h, p, f) \/ direction_output_io(h, p, v) \/ set_value_io(h, p, v)
             \/ ReadFsel(h)
      PROVE  UNCHANGED func
  BY <1>1 DEF gpio_bcm_set_func, direction_output_io, set_value_io, ReadFsel, regVars
<1>2. ASSUME NEW h \in Handles, NEW p, NEW f, NEW v,
             \/ gpio_sysfs_export(h, p) \/ direction_sysfs(h, p, f, v) \/ set_value_sysfs(h, p, v)
             \/ get_value_sysfs(h, p) \/ WriteValue(h) \/ gpio_set_event(h, p, f)
             \/ gpio_sysfs_poll(h, p) \/ PollReturns(h)
      PROVE  UNCHANGED func
  BY <1>2 DEF gpio_sysfs_export, direction_sysfs, set_value_sysfs, get_value_sysfs, WriteValue,
     SetValue, gpio_set_event, gpio_sysfs_poll, PollReturns, regVars
<1>3. ASSUME NEW h \in Handles, NEW d, gpio_set_driver(h, d) \/ gpio_free(h) PROVE UNCHANGED func
  BY <1>3 DEF gpio_set_driver, gpio_free, regVars
<1>4. ASSUME NEW h \in Handles, NEW p, NEW k,
             gpio_bcm_set_pull_config(h, p, k) \/ ClockPull(h) \/ ClearPull(h) \/ UnclockPull(h)
      PROVE  UNCHANGED func
  BY <1>4 DEF gpio_bcm_set_pull_config, ClockPull, ClearPull, UnclockPull, regVars
<1>5. ASSUME NEW p, NEW e, Edge(p, e) PROVE UNCHANGED func
  BY <1>5 DEF Edge, regVars
<1>6. CASE UNCHANGED allVars
  BY <1>6 DEF allVars, vars, regVars
<1> QED BY <1>1, <1>2, <1>3, <1>4, <1>5, <1>6 DEF PullNext, Next, IoStep, SysfsStep

\* The function of a pin changes only in a call for that pin, or as it is given up,
\* although the register it shares with other pins is read, changed and written back
\* (gpio_bcm_set_func, gpio.c 132-153): for every assignment of pins to registers and
\* any number of processes that do not work on one register at the same time.
THEOREM FunctionsKept ==
  ASSUME Exclusive
  PROVE  PullSpec => OthersKept
<1> DEFINE Kept == \A p \in Pins : func'[p] # func[p] =>
             \/ \E h \in Handles : pc[h] \in {"write", "dir"} /\ arg[h].pin = p
             \/ p \in export /\ p \notin export'
<1>1. ASSUME GpioInv, [PullNext]_allVars PROVE [Kept]_vars
  <2>0. CallType /\ RestType /\ CopyFresh
    BY <1>1, TypeParts DEF GpioInv
  <2>1. ASSUME NEW h \in Handles, WriteFsel(h) PROVE Kept
    <3>1. pc[h] = "write" /\ \A q \in Pins : q # arg[h].pin => func'[q] = func[q]
      BY <2>0, <2>1 DEF WriteFsel, CopyFresh
    <3> QED BY <3>1
  <2>2. ASSUME NEW h \in Handles, WriteDirection(h) PROVE Kept
    <3>1. pc[h] = "dir" /\ \A q \in Pins : q # arg[h].pin => func'[q] = func[q]
      BY <2>0, <2>2 DEF WriteDirection, RestType
    <3> QED BY <3>1
  <2>3. ASSUME NEW h \in Handles, NEW p \in SysfsPins, gpio_sysfs_unexport(h, p) PROVE Kept
    <3>1. \/ func' = func
          \/ p \in export /\ export' = export \ {p} /\ func' = [func EXCEPT ![p] = "in"]
      BY <2>3 DEF gpio_sysfs_unexport
    <3> QED BY <2>0, <3>1 DEF RestType
  <2> QED BY <1>1, <2>1, <2>2, <2>3, FuncChange
<1> QED BY <1>1, GpioInit, GpioStep, PTL DEF PullSpec, OthersKept, allVars

\* When the I/O driver makes a pin an output, its value has been set ("no GPIO output
\* blink", gpio.h 78-79), whatever other processes do to pins of other registers.
THEOREM NoOutputBlink ==
  ASSUME Exclusive
  PROVE  PullSpec => NoBlink
<1>1. ASSUME GpioInv
      PROVE  \A h \in Handles : pc[h] = "write" /\ pc'[h] # "write" /\ arg[h].val # NoVal =>
               latch[arg[h].pin] = arg[h].val
  BY <1>1 DEF GpioInv, ValueFirst
<1> QED BY <1>1, GpioInit, GpioStep, PTL DEF PullSpec, NoBlink, allVars

\* Three steps end a call that works on a function register.
LEMMA EndOfCall ==
  ASSUME CallType, [PullNext]_allVars, NEW h \in Handles, pc[h] \in Active, pc'[h] = "idle"
  PROVE  WriteFsel(h) \/ WriteDirection(h) \/ WriteValue(h)
<1>0. pc \in [Handles -> Sites] /\ pc'[h] # pc[h]
  BY DEF CallType, Active
<1>1. ASSUME NEW g \in Handles, pc[g] = "idle" \/ pc[g] \notin Active,
             \E s : pc' = [pc EXCEPT ![g] = s]
      PROVE  FALSE
  BY <1>0, <1>1 DEF Active
<1>2. ASSUME NEW g \in Handles, IoStep(g), ~WriteFsel(g) PROVE FALSE
  <2>1. ASSUME NEW p, NEW f, NEW v,
               gpio_bcm_set_func(g, p, f) \/ direction_output_io(g, p, v) \/ set_value_io(g, p, v)
        PROVE  FALSE
    BY <1>1, <2>1 DEF gpio_bcm_set_func, direction_output_io, set_value_io, Enter, Return
  <2>2. ASSUME ReadFsel(g) PROVE FALSE
    BY <1>0, <2>2 DEF ReadFsel, Continue
  <2> QED BY <1>2, <2>1, <2>2 DEF IoStep
<1>3. ASSUME NEW g \in Handles, SysfsStep(g), ~WriteDirection(g), ~WriteValue(g) PROVE FALSE
  <2>1. ASSUME NEW p, NEW f, NEW v,
               \/ gpio_sysfs_export(g, p) \/ gpio_sysfs_unexport(g, p)
               \/ direction_sysfs(g, p, f, v) \/ set_value_sysfs(g, p, v)
        PROVE  FALSE
    BY <1>1, <2>1 DEF gpio_sysfs_export, gpio_sysfs_unexport, direction_sysfs, set_value_sysfs,
       SetValue, Enter, Return
  <2>2. ASSUME NEW p, NEW e,
               \/ get_value_sysfs(g, p) \/ gpio_set_event(g, p, e) \/ gpio_sysfs_poll(g, p)
               \/ PollReturns(g)
        PROVE  FALSE
    BY <1>1, <2>2 DEF get_value_sysfs, gpio_set_event, gpio_sysfs_poll, PollReturns, Enter, Return,
       Active
  <2> QED BY <1>3, <2>1, <2>2 DEF SysfsStep
<1>4. ASSUME NEW g \in Handles, NEW p, NEW k,
             gpio_bcm_set_pull_config(g, p, k) \/ ClockPull(g) \/ ClearPull(g) \/ UnclockPull(g)
      PROVE  FALSE
  BY <1>1, <1>4 DEF gpio_bcm_set_pull_config, ClockPull, ClearPull, UnclockPull, Enter, Continue,
     Return, Active
<1>5. ASSUME NEW g \in Handles, NEW d, gpio_set_driver(g, d) PROVE FALSE
  BY <1>1, <1>5 DEF gpio_set_driver, Return
<1>6. pc' # pc
  BY <1>0
<1>7. ASSUME NEW g \in Handles, WriteFsel(g) \/ WriteDirection(g) \/ WriteValue(g) PROVE g = h
  BY <1>0, <1>7 DEF WriteFsel, WriteDirection, WriteValue, SetValue, Return, Continue
<1>8. ~UNCHANGED allVars /\ ~(\E g \in Handles : gpio_free(g))
      /\ ~(\E p \in SysfsPins, e \in Edges : Edge(p, e))
  BY <1>6 DEF allVars, vars, callVars, gpio_free, Edge
<1> QED BY <1>2, <1>3, <1>4, <1>5, <1>7, <1>8 DEF PullNext, Next

\* gpio_direction_output() succeeds only when the pin is an output with the value
\* asked for, through either driver (gpio.c 216-232).
THEOREM OutputSet ==
  ASSUME Exclusive
  PROVE  PullSpec => OutputAsAsked
<1> DEFINE Asked(h) == func'[arg[h].pin] = "out" /\ latch'[arg[h].pin] = arg[h].val
<1>1. ASSUME GpioInv, [PullNext]_allVars, NEW h \in Handles, Returns(h, "SUCCESS"),
             arg[h].val # NoVal
      PROVE  Asked(h)
  <2>0. CallType /\ RestType /\ ValueFirst /\ arg[h].pin \in Pins /\ pc[h] \in Active
    BY <1>1, TypeParts DEF GpioInv, CallArgs, Returns, GpioType, Sites
  <2>1. CASE WriteFsel(h)
    BY <2>0, <2>1, <1>1 DEF WriteFsel, ValueFirst, CallType, CallArgs, RestType, Active
  <2>2. CASE WriteDirection(h)
    <3>1. arg[h].what = "out" /\ pc'[h] = "idle" /\ ret' = "SUCCESS"
      BY <1>1, <2>0, <2>2 DEF WriteDirection, CallType, CallArgs, Active, Returns
    <3> QED BY <2>0, <2>2, <3>1 DEF WriteDirection, Continue, Return, CallType
  <2>3. CASE WriteValue(h)
    <3>1. func[arg[h].pin] = "out" /\ ret' = "SUCCESS" /\ UNCHANGED func
      BY <1>1, <2>0, <2>3 DEF WriteValue, SetValue, ValueFirst, Returns
    <3> QED BY <2>0, <2>3, <3>1 DEF WriteValue, SetValue, Return, RestType
  <2> QED BY <1>1, <2>0, <2>1, <2>2, <2>3, EndOfCall DEF Returns
<1>2. ASSUME GpioInv, [PullNext]_allVars
      PROVE  \A h \in Handles : Returns(h, "SUCCESS") /\ arg[h].val # NoVal =>
               func'[arg[h].pin] = "out" /\ latch'[arg[h].pin] = arg[h].val
  BY <1>1, <1>2
<1> QED BY <1>2, GpioInit, GpioStep, PTL DEF PullSpec, OutputAsAsked, allVars

-----------------------------------------------------------------------------
(***************************************************************************)
(* Polls on sysfs.                                                         *)
(***************************************************************************)

\* A step leaves the poll of h as it is, or lets it see an event, or starts it, or
\* takes its file away.
LEMMA PollStep ==
  ASSUME CallType, RestType, [PullNext]_allVars, NEW h \in Handles, NEW p \in Pins,
         pc'[h] = "poll", arg'[h].pin = p, valfd'[h][p] = "live"
  PROVE  \/ /\ pc[h] = "poll" /\ arg[h].pin = p /\ Live(h, p)
            /\ \/ pend'[h][p] = pend[h][p] /\ seen'[h] = seen[h]
               \/ pend'[h][p] = TRUE /\ seen'[h] = TRUE
         \/ pend'[h][p] = FALSE /\ seen'[h] = FALSE
<1> DEFINE Same == /\ pc[h] = "poll" /\ arg[h].pin = p /\ Live(h, p)
                   /\ pend'[h][p] = pend[h][p] /\ seen'[h] = seen[h]
           Seen == /\ pc[h] = "poll" /\ arg[h].pin = p /\ Live(h, p)
                   /\ pend'[h][p] = TRUE /\ seen'[h] = TRUE
           Fresh == pend'[h][p] = FALSE /\ seen'[h] = FALSE
<1> USE DEF Live
<1>1. ASSUME UNCHANGED <<pc, arg, valfd, pend, seen>> PROVE Same
  BY <1>1
<1>2. ASSUME NEW g \in Handles, g # h, \E s, a : pc' = [pc EXCEPT ![g] = s] /\ arg' = [arg EXCEPT ![g] = a]
      PROVE  pc[h] = "poll" /\ arg[h].pin = p
  BY <1>2 DEF CallType
<1>3. ASSUME NEW g \in Handles, NEW s, pc' = [pc EXCEPT ![g] = s], s # "poll" PROVE g # h
  BY <1>3 DEF CallType
<1>4. ASSUME NEW g \in Handles, IoStep(g) PROVE Same
  <2>1. UNCHANGED <<valfd, pend, seen>>
    BY <1>4 DEF IoStep, gpio_bcm_set_func, direction_output_io, set_value_io, ReadFsel, WriteFsel,
       handleVars, sysfsVars
  <2>2. \E s, a : s # "poll" /\ pc' = [pc EXCEPT ![g] = s] /\ (arg' = [arg EXCEPT ![g] = a] \/ arg' = arg)
    BY <1>4 DEF IoStep, gpio_bcm_set_func, direction_output_io, set_value_io, ReadFsel, WriteFsel,
       Enter, Continue, Return
  <2>3. g # h
    BY <1>3, <2>2
  <2> QED BY <2>1, <2>2, <2>3 DEF CallType
<1>5. ASSUME NEW g \in Handles, NEW r, Return(g, r) PROVE g # h /\ pc[h] = "poll" /\ arg[h].pin = p
  BY <1>5 DEF Return, CallType
<1>6. ASSUME NEW g \in Handles, NEW q \in SysfsPins, gpio_sysfs_unexport(g, q) PROVE Same
  <2>1. g # h /\ pc[h] = "poll" /\ arg[h].pin = p
    BY <1>5, <1>6 DEF gpio_sysfs_unexport
  <2>2. UNCHANGED seen
    BY <1>6 DEF gpio_sysfs_unexport
  <2>3. CASE UNCHANGED <<valfd, pend>>
    BY <2>1, <2>2, <2>3
  <2>4. CASE /\ valfd' = [k \in Handles |->
                   IF Live(k, q) THEN [valfd[k] EXCEPT ![q] = "stale"] ELSE valfd[k]]
             /\ pend' = [k \in Handles |-> [pend[k] EXCEPT ![q] = FALSE]]
    <3>1. q # p \/ ~Live(h, q)
      BY <2>4 DEF RestType
    <3>2. Live(h, p)
      BY <2>4, <3>1 DEF RestType
    <3>3. q # p
      BY <3>1, <3>2
    <3>4. pend'[h] = [pend[h] EXCEPT ![q] = FALSE] /\ pend[h] \in [Pins -> BOOLEAN]
      BY <2>4 DEF RestType
    <3>5. pend'[h][p] = pend[h][p]
      BY <3>3, <3>4, Zenon
    <3> QED BY <2>1, <2>2, <3>2, <3>5
  <2> QED BY <1>6, <2>3, <2>4 DEF gpio_sysfs_unexport, Live
<1>7. ASSUME NEW g \in Handles, NEW q \in SysfsPins, NEW f, NEW v, direction_sysfs(g, q, f, v) PROVE Same
  <2>1. g # h /\ pc[h] = "poll" /\ arg[h].pin = p
    <3>1. Enter(g, "dir", q, f, v) \/ Return(g, "FAILED")
      BY <1>7 DEF direction_sysfs
    <3> QED BY <1>5, <3>1 DEF Enter, CallType
  <2>2. \/ UNCHANGED <<valfd, pend>>
        \/ valfd' = [valfd EXCEPT ![g][q] = "live"] /\ pend' = [pend EXCEPT ![g][q] = TRUE]
    BY <1>7 DEF direction_sysfs
  <2>3. valfd'[h] = valfd[h] /\ pend'[h] = pend[h]
    BY <2>1, <2>2 DEF RestType
  <2> QED BY <1>7, <2>1, <2>3 DEF direction_sysfs
<1>8. ASSUME NEW g \in Handles, NEW q \in SysfsPins, gpio_sysfs_poll(g, q) PROVE Same \/ Fresh
  <2>1. UNCHANGED valfd
    BY <1>8 DEF gpio_sysfs_poll, handleVars
  <2>2. CASE Return(g, "FAILED") /\ UNCHANGED <<pend, seen>>
    BY <1>5, <2>1, <2>2
  <2>3. CASE /\ Enter(g, "poll", q, "none", NoVal)
             /\ pend' = IF Live(g, q) THEN [pend EXCEPT ![g][q] = FALSE] ELSE pend
             /\ seen' = [seen EXCEPT ![g] = FALSE]
    <3>1. CASE g = h
      <4>1. q = p /\ Live(g, q)
        BY <2>1, <2>3, <3>1 DEF Enter, CallType
      <4>2. pend' = [pend EXCEPT ![h][p] = FALSE] /\ seen' = [seen EXCEPT ![h] = FALSE]
        BY <2>3, <3>1, <4>1
      <4>3. pend'[h] = [pend[h] EXCEPT ![p] = FALSE] /\ pend[h] \in [Pins -> BOOLEAN]
        BY <4>2 DEF RestType
      <4>4. pend'[h][p] = FALSE
        BY <4>3, Zenon
      <4>5. seen'[h] = FALSE
        BY <4>2, Zenon DEF RestType
      <4> QED BY <4>4, <4>5
    <3>2. CASE g # h
      <4>1. pc[h] = "poll" /\ arg[h].pin = p
        BY <2>3, <3>2 DEF Enter, CallType
      <4>2. pend'[h] = pend[h] /\ seen'[h] = seen[h]
        BY <2>3, <3>2 DEF RestType
      <4> QED BY <2>1, <4>1, <4>2
    <3> QED BY <3>1, <3>2
  <2> QED BY <1>8, <2>2, <2>3 DEF gpio_sysfs_poll, Live
<1>9. ASSUME NEW g \in Handles, NEW q \in SysfsPins, get_value_sysfs(g, q) PROVE Same
  <2>1. g # h /\ pc[h] = "poll" /\ arg[h].pin = p
    BY <1>5, <1>9 DEF get_value_sysfs
  <2>2. pend' = pend \/ pend' = [pend EXCEPT ![g][q] = FALSE]
    BY <1>9 DEF get_value_sysfs
  <2>3. pend'[h] = pend[h]
    BY <2>1, <2>2 DEF RestType
  <2> QED BY <1>9, <2>1, <2>3 DEF get_value_sysfs, handleVars
<1>10. ASSUME NEW g \in Handles, PollReturns(g) PROVE Same
  <2>1. g # h /\ pc[h] = "poll" /\ arg[h].pin = p
    BY <1>5, <1>10 DEF PollReturns
  <2>2. seen' = [seen EXCEPT ![g] = FALSE] /\ UNCHANGED <<valfd, pend>>
    BY <1>10 DEF PollReturns, handleVars
  <2>3. seen'[h] = seen[h]
    BY <2>1, <2>2 DEF RestType
  <2> QED BY <2>1, <2>2, <2>3
<1>11. ASSUME NEW g \in Handles, NEW q, NEW e, NEW v,
              \/ gpio_sysfs_export(g, q) \/ set_value_sysfs(g, q, v) \/ gpio_set_event(g, q, e)
              \/ WriteValue(g)
       PROVE  Same
  <2>1. UNCHANGED <<valfd, pend, seen>>
    BY <1>11 DEF gpio_sysfs_export, set_value_sysfs, gpio_set_event, WriteValue, SetValue,
       handleVars, sysfsVars
  <2>2. \E r : Return(g, r)
    BY <1>11 DEF gpio_sysfs_export, set_value_sysfs, gpio_set_event, WriteValue, SetValue
  <2> QED BY <1>5, <2>1, <2>2
<1>12. ASSUME NEW g \in Handles, WriteDirection(g) PROVE Same
  <2>1. UNCHANGED <<valfd, pend, seen>>
    BY <1>12 DEF WriteDirection, handleVars, sysfsVars
  <2>2. CASE Continue(g, "dir", "value") /\ UNCHANGED arg
    <3>1. g # h
      BY <1>3, <2>2 DEF Continue
    <3> QED BY <2>1, <2>2, <3>1 DEF Continue, CallType
  <2>3. CASE \E r : Return(g, r)
    BY <1>5, <2>1, <2>3
  <2> QED BY <1>12, <2>2, <2>3 DEF WriteDirection
<1>13. ASSUME NEW g \in Handles, NEW d, gpio_set_driver(g, d) PROVE Same
  BY <1>5, <1>13 DEF gpio_set_driver, sysfsVars
<1>14. ASSUME NEW g \in Handles, gpio_free(g) PROVE Same
  <2>1. pc[h] = "poll" /\ arg[h].pin = p /\ g # h /\ UNCHANGED seen
    BY <1>14 DEF gpio_free
  <2>2. valfd'[h] = valfd[h] /\ pend'[h] = pend[h]
    BY <1>14, <2>1 DEF gpio_free, RestType
  <2> QED BY <2>1, <2>2
<1>15. ASSUME NEW q \in SysfsPins, NEW e, Edge(q, e) PROVE Same \/ Seen
  <2>1. pc[h] = "poll" /\ arg[h].pin = p /\ UNCHANGED valfd
    BY <1>15 DEF Edge, handleVars
  <2>2. /\ pend'[h] = IF Live(h, q) THEN [pend[h] EXCEPT ![q] = TRUE] ELSE pend[h]
        /\ seen'[h] = (seen[h] \/ (pc[h] = "poll" /\ arg[h].pin = q))
        /\ pend[h] \in [Pins -> BOOLEAN] /\ seen[h] \in BOOLEAN
    BY <1>15 DEF Edge, RestType
  <2>3. CASE q = p
    <3>1. Live(h, q) /\ arg[h].pin = q
      BY <2>1, <2>3
    <3>2. pend'[h][p] = TRUE
      <4>1. pend'[h] = [pend[h] EXCEPT ![q] = TRUE]
        BY <2>2, <3>1
      <4> QED BY <2>2, <2>3, <4>1, Zenon
    <3>3. seen'[h] = TRUE
      BY <2>1, <2>2, <3>1, Zenon
    <3> QED BY <2>1, <3>2, <3>3
  <2>4. CASE q # p
    <3>1. pend'[h][p] = pend[h][p]
      BY <2>2, <2>4
    <3>2. seen'[h] = seen[h]
      BY <2>1, <2>2, <2>4, Zenon
    <3> QED BY <2>1, <3>1, <3>2
  <2> QED BY <2>3, <2>4
<1>16. ASSUME NEW g \in Handles, NEW q, NEW k, gpio_bcm_set_pull_config(g, q, k) PROVE Same
  <2>1. UNCHANGED <<valfd, pend, seen>>
    BY <1>16 DEF gpio_bcm_set_pull_config, handleVars, sysfsVars
  <2>2. g # h /\ pc[h] = "poll" /\ arg[h].pin = p
    BY <1>3, <1>5, <1>16 DEF gpio_bcm_set_pull_config, Enter, CallType
  <2> QED BY <2>1, <2>2
<1>17. ASSUME NEW g \in Handles, ClockPull(g) \/ ClearPull(g) PROVE Same
  <2>1. UNCHANGED <<arg, valfd, pend, seen>>
    BY <1>17 DEF ClockPull, ClearPull, handleVars, sysfsVars
  <2>2. \E s : pc' = [pc EXCEPT ![g] = s] /\ s # "poll"
    BY <1>17 DEF ClockPull, ClearPull, Continue
  <2>3. pc[h] = "poll"
    BY <2>2 DEF CallType
  <2> QED BY <2>1, <2>3
<1>18. ASSUME NEW g \in Handles, UnclockPull(g) PROVE Same
  BY <1>5, <1>18 DEF UnclockPull, handleVars, sysfsVars
<1>19. CASE UNCHANGED allVars
  BY <1>1, <1>19 DEF allVars, vars, handleVars, callVars, sysfsVars
<1>20. ASSUME NEW g \in Handles, SysfsStep(g) PROVE Same \/ Fresh
  BY <1>6, <1>7, <1>8, <1>9, <1>10, <1>11, <1>12, <1>20 DEF SysfsStep
<1>21. CASE Next
  BY <1>4, <1>13, <1>14, <1>15, <1>20, <1>21 DEF Next
<1> QED BY <1>16, <1>17, <1>18, <1>19, <1>21 DEF PullNext, Live

PollInv == GpioType /\ CallArgs /\ PollSees

LEMMA PollSeesStep == PollInv /\ [PullNext]_allVars => PollInv'
<1> SUFFICES ASSUME PollInv, [PullNext]_allVars PROVE PollInv'
  OBVIOUS
<1>1. GpioType' /\ CallArgs' /\ CallType /\ RestType
  BY GpioTypeStep, TypeParts DEF PollInv
<1>2. ASSUME NEW h \in Handles, pc'[h] = "poll", valfd'[h][arg'[h].pin] = "live"
      PROVE  pend'[h][arg'[h].pin] <=> seen'[h]
  <2>1. PICK p \in Pins : p = arg'[h].pin
    BY <1>1, <1>2 DEF CallArgs
  <2>2. valfd'[h][p] = "live"
    BY <1>2, <2>1
  <2>3. \/ /\ pc[h] = "poll" /\ arg[h].pin = p /\ Live(h, p)
           /\ \/ pend'[h][p] = pend[h][p] /\ seen'[h] = seen[h]
              \/ pend'[h][p] = TRUE /\ seen'[h] = TRUE
        \/ pend'[h][p] = FALSE /\ seen'[h] = FALSE
    BY <1>1, <1>2, <2>1, <2>2, PollStep
  <2>4. pc[h] = "poll" /\ arg[h].pin = p /\ Live(h, p) => (pend[h][p] <=> seen[h])
    BY DEF PollInv, PollSees
  <2>5. pend'[h][p] <=> seen'[h]
    BY <2>3, <2>4, Zenon
  <2> QED BY <2>1, <2>5
<1> QED BY <1>1, <1>2 DEF PollInv, PollSees, Live

\* Only gpio_sysfs_poll() returns from a poll.
LEMMA EndOfPoll ==
  ASSUME CallType, [PullNext]_allVars, NEW h \in Handles, pc[h] = "poll", pc'[h] = "idle"
  PROVE  PollReturns(h)
<1>0. pc \in [Handles -> Sites] /\ pc'[h] # pc[h]
  BY DEF CallType
<1>1. ASSUME NEW g \in Handles, pc[g] # "poll", \E s : pc' = [pc EXCEPT ![g] = s] PROVE FALSE
  BY <1>0, <1>1
<1>2. ASSUME NEW g \in Handles, IoStep(g) PROVE FALSE
  <2>1. ASSUME NEW p, NEW f, NEW v,
               gpio_bcm_set_func(g, p, f) \/ direction_output_io(g, p, v) \/ set_value_io(g, p, v)
        PROVE  FALSE
    BY <1>1, <2>1 DEF gpio_bcm_set_func, direction_output_io, set_value_io, Enter, Return
  <2>2. ASSUME ReadFsel(g) \/ WriteFsel(g) PROVE FALSE
    BY <1>1, <2>2 DEF ReadFsel, WriteFsel, Continue, Return
  <2> QED BY <1>2, <2>1, <2>2 DEF IoStep
<1>3. ASSUME NEW g \in Handles, SysfsStep(g), ~PollReturns(g) PROVE FALSE
  <2>1. ASSUME NEW p, NEW f, NEW v,
               \/ gpio_sysfs_export(g, p) \/ gpio_sysfs_unexport(g, p)
               \/ direction_sysfs(g, p, f, v) \/ set_value_sysfs(g, p, v)
        PROVE  FALSE
    BY <1>1, <2>1 DEF gpio_sysfs_export, gpio_sysfs_unexport, direction_sysfs, set_value_sysfs,
       SetValue, Enter, Return
  <2>2. ASSUME NEW p, NEW e,
               get_value_sysfs(g, p) \/ gpio_set_event(g, p, e) \/ gpio_sysfs_poll(g, p)
        PROVE  FALSE
    BY <1>1, <2>2 DEF get_value_sysfs, gpio_set_event, gpio_sysfs_poll, Enter, Return
  <2>3. ASSUME WriteDirection(g) \/ WriteValue(g) PROVE FALSE
    BY <1>1, <2>3 DEF WriteDirection, WriteValue, SetValue, Continue, Return
  <2> QED BY <1>3, <2>1, <2>2, <2>3 DEF SysfsStep
<1>4. ASSUME NEW g \in Handles, NEW p, NEW k,
             gpio_bcm_set_pull_config(g, p, k) \/ ClockPull(g) \/ ClearPull(g) \/ UnclockPull(g)
      PROVE  FALSE
  BY <1>1, <1>4 DEF gpio_bcm_set_pull_config, ClockPull, ClearPull, UnclockPull, Enter, Continue,
     Return
<1>5. ASSUME NEW g \in Handles, NEW d, gpio_set_driver(g, d) PROVE FALSE
  BY <1>1, <1>5 DEF gpio_set_driver, Return
<1>6. pc' # pc
  BY <1>0
<1>7. ASSUME NEW g \in Handles, PollReturns(g) PROVE g = h
  BY <1>0, <1>7 DEF PollReturns, Return
<1>8. ~UNCHANGED allVars /\ ~(\E g \in Handles : gpio_free(g))
      /\ ~(\E p \in SysfsPins, e \in Edges : Edge(p, e))
  BY <1>6 DEF allVars, vars, callVars, gpio_free, Edge
<1> QED BY <1>2, <1>3, <1>4, <1>5, <1>7, <1>8 DEF PullNext, Next

\* gpio_sysfs_poll() on a live value file returns LREC_SUCCESS only if an event
\* happened since the call and LREC_TIMEOUT only if none did (gpio.h 207-214),
\* whatever other processes do to the pin's export, direction and events.
THEOREM PollsTrue == PullSpec => PollTrue
<1>1. ASSUME PollInv, [PullNext]_allVars, NEW h \in Handles, pc[h] = "poll", Live(h, arg[h].pin)
      PROVE  /\ Returns(h, "SUCCESS") => seen[h]
             /\ Returns(h, "TIMEOUT") => ~seen[h]
  <2>1. CallType /\ (pend[h][arg[h].pin] <=> seen[h])
    BY <1>1, TypeParts DEF PollInv, PollSees
  <2>2. ASSUME pc'[h] = "idle"
        PROVE  /\ ret' = "SUCCESS" => pend[h][arg[h].pin]
               /\ ret' = "TIMEOUT" => ~pend[h][arg[h].pin]
    <3>1. PollReturns(h)
      BY <1>1, <2>1, <2>2, EndOfPoll
    <3>2. \/ pend[h][arg[h].pin] /\ ret' = "SUCCESS"
          \/ ~pend[h][arg[h].pin] /\ ret' = "TIMEOUT"
          \/ ret' = "FAILED"
      BY <1>1, <3>1, Zenon DEF PollReturns, Return
    <3> QED BY <3>2
  <2>3. Returns(h, "SUCCESS") => pc'[h] = "idle" /\ ret' = "SUCCESS"
    BY DEF Returns
  <2>4. Returns(h, "TIMEOUT") => pc'[h] = "idle" /\ ret' = "TIMEOUT"
    BY DEF Returns
  <2> QED BY <2>1, <2>2, <2>3, <2>4, Zenon
<1>2. ASSUME PollInv, [PullNext]_allVars
      PROVE  \A h \in Handles : pc[h] = "poll" /\ Live(h, arg[h].pin) =>
               /\ Returns(h, "SUCCESS") => seen[h]
               /\ Returns(h, "TIMEOUT") => ~seen[h]
  BY <1>1, <1>2
<1>3. PullInit => PollInv
  BY GpioInit DEF PollInv, GpioInv
<1> QED BY <1>2, <1>3, PollSeesStep, PTL DEF PullSpec, PollTrue, allVars

-----------------------------------------------------------------------------
(***************************************************************************)
(* The pull registers.                                                     *)
(***************************************************************************)

\* The calls of module Gpio leave those that set a resistor where they are.
LEMMA PullsLeft ==
  ASSUME CallType, Next \/ UNCHANGED vars, NEW h \in Handles,
         pc[h] \in PullSites \/ pc'[h] \in PullSites
  PROVE  pc'[h] = pc[h] /\ arg'[h] = arg[h]
<1> DEFINE Elsewhere == pc'[h] = pc[h] /\ arg'[h] = arg[h]
<1>1. ASSUME NEW g \in Handles, NEW s, pc[g] \notin PullSites, s \notin PullSites,
             pc' = [pc EXCEPT ![g] = s],
             arg' = arg \/ \E a : arg' = [arg EXCEPT ![g] = a]
      PROVE  Elsewhere
  BY <1>1 DEF CallType
<1>2. ASSUME NEW g \in Handles, NEW r, Return(g, r), pc[g] \notin PullSites PROVE Elsewhere
  BY <1>1, <1>2 DEF Return, PullSites
<1>3. ASSUME NEW g \in Handles, NEW s, NEW p, NEW f, NEW v, Enter(g, s, p, f, v), s \notin PullSites
      PROVE  Elsewhere
  BY <1>1, <1>3 DEF Enter, PullSites
<1>4. ASSUME NEW g \in Handles, IoStep(g) PROVE Elsewhere
  <2>1. ASSUME NEW p, NEW f, NEW v,
               gpio_bcm_set_func(g, p, f) \/ direction_output_io(g, p, v) \/ set_value_io(g, p, v)
        PROVE  Elsewhere
    BY <1>2, <1>3, <2>1 DEF gpio_bcm_set_func, direction_output_io, set_value_io, PullSites
  <2>2. ASSUME ReadFsel(g) \/ WriteFsel(g) PROVE Elsewhere
    BY <1>1, <1>2, <2>2 DEF ReadFsel, WriteFsel, Continue, PullSites
  <2> QED BY <1>4, <2>1, <2>2 DEF IoStep
<1>5. ASSUME NEW g \in Handles, SysfsStep(g) PROVE Elsewhere
  <2>1. ASSUME NEW p, NEW f, NEW v,
               \/ gpio_sysfs_export(g, p) \/ gpio_sysfs_unexport(g, p)
               \/ direction_sysfs(g, p, f, v) \/ set_value_sysfs(g, p, v)
        PROVE  Elsewhere
    BY <1>2, <1>3, <2>1 DEF gpio_sysfs_export, gpio_sysfs_unexport, direction_sysfs, set_value_sysfs,
       SetValue, PullSites
  <2>2. ASSUME NEW p, NEW e,
               get_value_sysfs(g, p) \/ gpio_set_event(g, p, e) \/ gpio_sysfs_poll(g, p)
        PROVE  Elsewhere
    BY <1>2, <1>3, <2>2 DEF get_value_sysfs, gpio_set_event, gpio_sysfs_poll, PullSites
  <2>3. ASSUME WriteDirection(g) \/ WriteValue(g) \/ PollReturns(g) PROVE Elsewhere
    BY <1>1, <1>2, <2>3 DEF WriteDirection, WriteValue, SetValue, PollReturns, Continue, PullSites
  <2> QED BY <1>5, <2>1, <2>2, <2>3 DEF SysfsStep
<1>6. ASSUME NEW g \in Handles, NEW d, gpio_set_driver(g, d) PROVE Elsewhere
  BY <1>2, <1>6 DEF gpio_set_driver, PullSites
<1>7. CASE UNCHANGED <<pc, arg>>
  BY <1>7
<1> QED BY <1>4, <1>5, <1>6, <1>7 DEF Next, gpio_free, Edge, vars, callVars

LEMMA PullsApartStep ==
  ASSUME Exclusive
  PROVE  PullInv /\ [PullNext]_allVars => PullInv'
<1> SUFFICES ASSUME PullInv, [PullNext]_allVars PROVE PullsApart'
  BY GpioTypeStep DEF PullInv
<1>0. GpioType' /\ CallArgs'
  BY GpioTypeStep DEF PullInv
<1>1. /\ CallType /\ CallType' /\ PullsApart
      /\ pull \in [Pins -> Pulls] /\ gppudclk \subseteq Pins
  BY <1>0, TypeParts DEF PullInv, RestType, GpioType, CallType, Args, Whats
<1>2. CASE (Next \/ UNCHANGED vars) /\ UNCHANGED pullVars
  <2>1. \A h \in Handles : pc[h] \in PullSites \/ pc'[h] \in PullSites =>
          pc'[h] = pc[h] /\ arg'[h] = arg[h]
    BY <1>1, <1>2, PullsLeft
  <2> QED BY <1>1, <1>2, <2>1 DEF PullsApart, PullSites, pullVars
<1>3. ASSUME NEW g \in Handles, NEW p \in Pins, NEW k \in Pulls, gpio_bcm_set_pull_config(g, p, k)
      PROVE  PullsApart'
  <2>1. UNCHANGED <<gppudclk, pull>> /\ pc[g] = "idle"
    BY <1>3 DEF gpio_bcm_set_pull_config
  <2>2. CASE Enter(g, "pud", p, k, NoVal) /\ gppud' = k /\ PullAlone(g)
    <3>1. \A h \in Handles \ {g} : pc'[h] = pc[h] /\ arg'[h] = arg[h] /\ pc[h] \notin PullSites
      BY <1>1, <2>2 DEF Enter, CallType, PullAlone
    <3>2. pc'[g] = "pud" /\ arg'[g].what = k
      BY <1>1, <2>2 DEF Enter, CallType
    <3> QED BY <1>1, <2>1, <2>2, <3>1, <3>2 DEF PullsApart, PullSites
  <2>3. CASE Return(g, "FAILED") /\ UNCHANGED gppud
    <3>1. \A h \in Handles : pc[h] \in PullSites \/ pc'[h] \in PullSites =>
            pc'[h] = pc[h] /\ arg'[h] = arg[h]
      BY <1>1, <2>1, <2>3 DEF Return, CallType, PullSites
    <3> QED BY <1>1, <2>1, <2>3, <3>1 DEF PullsApart, PullSites
  <2> QED BY <1>3, <2>2, <2>3 DEF gpio_bcm_set_pull_config
<1>4. ASSUME NEW g \in Handles, ClockPull(g) \/ ClearPull(g) \/ UnclockPull(g) PROVE PullsApart'
  <2>1. pc[g] \in PullSites /\ arg[g].pin \in Pins /\ arg[g].what \in Pulls
    BY <1>1, <1>4 DEF ClockPull, ClearPull, UnclockPull, Continue, PullSites, CallType, CallArgs
  <2>2. \A h \in Handles \ {g} : pc[h] \notin PullSites
    BY <1>1, <2>1 DEF PullsApart
  <2>3. \A h \in Handles \ {g} : pc'[h] = pc[h] /\ arg'[h] = arg[h]
    BY <1>1, <1>4 DEF ClockPull, ClearPull, UnclockPull, Continue, Return, CallType
  <2>4. CASE ClockPull(g)
    <3>1. pc[g] = "pud" /\ pc'[g] = "clk" /\ UNCHANGED <<arg, gppud>>
      BY <1>1, <2>4 DEF ClockPull, Continue, CallType
    <3>2. gppudclk = {} /\ gppud = arg[g].what
      BY <1>1, <2>2, <3>1 DEF PullsApart, PullSites
    <3>3. pull'[arg[g].pin] = arg[g].what
      BY <1>1, <2>1, <2>4, <3>2 DEF ClockPull
    <3> QED BY <2>2, <2>3, <3>1, <3>3 DEF PullsApart, PullSites
  <2>5. CASE ClearPull(g)
    <3>1. pc[g] = "clk" /\ pc'[g] = "unpud" /\ UNCHANGED <<arg, gppudclk, pull>>
      BY <1>1, <2>5 DEF ClearPull, Continue, CallType
    <3> QED BY <1>1, <2>2, <2>3, <3>1 DEF PullsApart, PullSites
  <2>6. CASE UnclockPull(g)
    <3>1. pc[g] = "unpud" /\ pc'[g] = "idle" /\ gppudclk' = {}
      BY <1>1, <2>6 DEF UnclockPull, Return, CallType
    <3> QED BY <1>1, <2>2, <2>3, <3>1 DEF PullsApart, PullSites
  <2> QED BY <1>4, <2>4, <2>5, <2>6
<1> QED BY <1>2, <1>3, <1>4 DEF PullNext, allVars

\* gpio_bcm_set_pull_config() succeeds only when the pin has the resistor asked for,
\* and a resistor changes only in a call for its pin, when no two processes set
\* resistors at the same time.
THEOREM PullsAsked ==
  ASSUME Exclusive
  PROVE  PullSpec => PullAsAsked
<1>1. ASSUME PullInv, [PullNext]_allVars, NEW h \in Handles, pc[h] = "unpud"
      PROVE  pull'[arg[h].pin] = arg[h].what
  <2>1. CallType /\ PullsApart /\ pull[arg[h].pin] = arg[h].what
    BY <1>1, TypeParts DEF PullInv, PullsApart
  <2>2. \A g \in Handles : ~ClockPull(g)
    BY <1>1, <2>1 DEF PullsApart, PullSites, ClockPull, Continue
  <2>3. UNCHANGED pull
    BY <1>1, <2>2 DEF PullNext, allVars, pullVars, gpio_bcm_set_pull_config, ClearPull, UnclockPull
  <2> QED BY <2>1, <2>3
<1>2. ASSUME PullInv, [PullNext]_allVars, NEW p \in Pins, pull'[p] # pull[p]
      PROVE  \E g \in Handles : pc[g] = "pud" /\ arg[g].pin = p
  <2>1. PICK g \in Handles : ClockPull(g)
    BY <1>2 DEF PullNext, allVars, pullVars, gpio_bcm_set_pull_config, ClearPull, UnclockPull
  <2>2. pull \in [Pins -> Pulls]
    BY <1>2, TypeParts DEF PullInv, RestType
  <2> QED BY <1>2, <2>1, <2>2 DEF ClockPull, Continue
<1>3. ASSUME PullInv, [PullNext]_allVars
      PROVE  \A h \in Handles, p \in Pins :
               /\ pc[h] = "unpud" /\ Returns(h, "SUCCESS") => pull'[arg[h].pin] = arg[h].what
               /\ pull'[p] # pull[p] => \E g \in Handles : pc[g] = "pud" /\ arg[g].pin = p
  BY <1>1, <1>2, <1>3
<1>4. PullInit => PullInv
  BY GpioInit DEF PullInv, GpioInv
<1> QED BY <1>3, <1>4, PullsApartStep, PTL DEF PullSpec, PullAsAsked, allVars
=============================================================================
