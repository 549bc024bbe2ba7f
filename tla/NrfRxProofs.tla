---------------------------- MODULE NrfRxProofs ----------------------------
(***************************************************************************)
(* Proofs about NrfRx: what the flags announced is read, for every size of *)
(* the FIFO, every restart delay and any traffic, in both builds.          *)
(***************************************************************************)
EXTENDS NrfRx, TLAPS

Has(packets, mark) == \E i \in DOMAIN packets : packets[i] = mark

\* The FIFO holds packets.  They are new only while a flag is up, from the flush
\* on, and none is new while the flags are being cleared.  They are checked only while
\* the loop is on its way to read them.
FlagInv ==
  /\ fifo \in Seq(Packets)
  /\ at \in {"config", "enable", "loop", "purge", "poll", "status", "fifo_empty", "read",
             "count"} =>
       (Has(fifo, "new") => rx_dr)
  /\ at = "clear" => ~Has(fifo, "new") /\ (Has(fifo, "checked") => irq_flg)
  /\ at \notin {"clear", "fifo_empty", "read"} => ~Has(fifo, "checked")

-----------------------------------------------------------------------------
(***************************************************************************)
(* Marks in sequences of packets.                                          *)
(***************************************************************************)

\* Appending a packet adds its mark (Receive).
LEMMA HasAppend ==
  ASSUME NEW s \in Seq(Packets), NEW m \in Packets, NEW n \in Packets
  PROVE  /\ Append(s, m) \in Seq(Packets)
         /\ Has(Append(s, m), n) => Has(s, n) \/ n = m
<1>1. Append(s, m) \in Seq(Packets)
  OBVIOUS
<1>2. ASSUME Has(Append(s, m), n) PROVE Has(s, n) \/ n = m
  <2>1. PICK i \in DOMAIN Append(s, m) : Append(s, m)[i] = n
    BY <1>2 DEF Has
  <2>2. /\ i \in 1..(Len(s) + 1)
        /\ i <= Len(s) => Append(s, m)[i] = s[i]
        /\ i = Len(s) + 1 => Append(s, m)[i] = m
    BY <2>1
  <2> QED BY <2>1, <2>2 DEF Has
<1> QED BY <1>1, <1>2

\* Reading a packet adds no mark (ReadPayload).
LEMMA HasTail ==
  ASSUME NEW s \in Seq(Packets), s # <<>>, NEW n \in Packets
  PROVE  /\ Tail(s) \in Seq(Packets)
         /\ Has(Tail(s), n) => Has(s, n)
<1>1. Tail(s) \in Seq(Packets)
  OBVIOUS
<1>2. ASSUME Has(Tail(s), n) PROVE Has(s, n)
  <2>1. PICK i \in DOMAIN Tail(s) : Tail(s)[i] = n
    BY <1>2 DEF Has
  <2>2. i + 1 \in DOMAIN s /\ s[i + 1] = n
    BY <2>1
  <2> QED BY <2>2 DEF Has
<1> QED BY <1>1, <1>2

-----------------------------------------------------------------------------
THEOREM FlagInit == Init => FlagInv
<1> SUFFICES ASSUME Init PROVE FlagInv
  OBVIOUS
<1>1. fifo \in Seq(Packets) /\ \A i \in DOMAIN fifo : fifo[i] = "new"
  <2>1. CASE fifo = <<>>
    BY <2>1 DEF Packets
  <2>2. CASE fifo = <<"new">>
    BY <2>2 DEF Packets
  <2> QED BY <2>1, <2>2 DEF Init
<1>2. at = "power_up"
  BY DEF Init
<1> QED BY <1>1, <1>2 DEF FlagInv, Has

\* Every step preserves FlagInv: one step of the proof for each action that changes
\* the FIFO or the flags, and one for those that only move on.
THEOREM FlagStep == FlagInv /\ [Next]_vars => FlagInv'
<1> SUFFICES ASSUME FlagInv, [Next]_vars PROVE FlagInv'
  OBVIOUS
<1>1. CASE UNCHANGED vars
  BY <1>1 DEF vars, loopVars, radioVars, FlagInv, Has
<1>2. CASE Receive
  <2>1. PICK m \in {"new", "cleared"} :
           /\ fifo' = Append(fifo, m)
           /\ at = "clear" => m = "cleared"
    BY <1>2 DEF Receive
  <2>2. /\ m \in Packets /\ "new" \in Packets /\ "checked" \in Packets
        /\ m # "checked" /\ at' = at /\ irq_flg' = irq_flg /\ rx_dr' = TRUE
    BY <1>2, <2>1, Zenon DEF Receive, loopVars, Packets
  <2>3. /\ fifo' \in Seq(Packets)
        /\ Has(fifo', "new") => Has(fifo, "new") \/ m = "new"
        /\ Has(fifo', "checked") => Has(fifo, "checked")
    BY <2>1, <2>2, HasAppend DEF FlagInv
  <2> QED BY <2>1, <2>2, <2>3 DEF FlagInv
<1>3. CASE FlushRx
  BY <1>3 DEF FlushRx, Go, FlagInv, Has
<1>4. CASE GetFlags
  <2>1. /\ at = "status" /\ at' = "clear" /\ irq_flg' = rx_dr
        /\ fifo' = [i \in DOMAIN fifo |-> IF fifo[i] = "new" THEN "checked" ELSE fifo[i]]
    BY <1>4 DEF GetFlags, Go
  <2>2. fifo' \in Seq(Packets)
    BY <2>1 DEF FlagInv, Packets
  <2>3. ~Has(fifo', "new")
    BY <2>1 DEF FlagInv, Has
  <2>4. Has(fifo', "checked") => irq_flg'
    <3>1. ~Has(fifo, "checked") /\ (Has(fifo, "new") => rx_dr)
      BY <2>1 DEF FlagInv
    <3>2. Has(fifo', "checked") => Has(fifo, "new")
      BY <2>1, <3>1 DEF Has
    <3> QED BY <2>1, <3>1, <3>2
  <2> QED BY <2>1, <2>2, <2>3, <2>4 DEF FlagInv
<1>5. CASE ClearFlags
  BY <1>5 DEF ClearFlags, Go, FlagInv
<1>6. CASE FifoEmpty
  BY <1>6 DEF FifoEmpty, Go, radioVars, FlagInv, Has
<1>7. CASE ReadPayload
  <2>1. CASE fifo = <<>>
    <3>1. fifo' \in Seq(Packets) /\ ~Has(fifo', "new") /\ ~Has(fifo', "checked")
      BY <1>7, <2>1 DEF ReadPayload, Has
    <3> QED BY <1>7, <3>1 DEF ReadPayload, Go, FlagInv
  <2>2. CASE fifo # <<>>
    <3>1. /\ fifo' \in Seq(Packets)
          /\ Has(fifo', "new") => Has(fifo, "new")
          /\ Has(fifo', "checked") => Has(fifo, "checked")
      BY <1>7, <2>2, HasTail DEF ReadPayload, FlagInv, Packets
    <3> QED BY <1>7, <3>1 DEF ReadPayload, Go, FlagInv
  <2> QED BY <2>1, <2>2
<1>8. ASSUME NEW from, NEW to, NEW on, SetPowerMode(from, to, on),
             to \in {"power_up", "flush"}, from \in {"power_down", "power_up"}
      PROVE  FlagInv'
  BY <1>8 DEF SetPowerMode, Go, FlagInv, Has
<1>9. CASE Signal
  <2>1. /\ UNCHANGED <<fifo, rx_dr, irq_flg>>
        /\ at' = at \/ (at = "poll" /\ at' = "status")
    BY <1>9 DEF Signal, radioVars
  <2> QED BY <2>1 DEF FlagInv, Has
<1>10. CASE ChipDisable \/ LoopTest \/ Poll \/ PollReturns \/ Count
  <2>1. /\ UNCHANGED <<fifo, rx_dr, irq_flg>>
        /\ \/ at = "restart" /\ at' = "power_down"
           \/ /\ at \in {"loop", "purge", "poll", "count"}
              /\ at' \in {"loop", "purge", "poll", "status", "restart", "finish"}
    BY <1>10 DEF ChipDisable, LoopTest, Poll, PollReturns, Count, Go, radioVars
  <2> QED BY <2>1 DEF FlagInv, Has
<1>11. CASE Configure \/ ChipEnable \/ Finish \/ Unexport \/ Free
  <2>1. /\ UNCHANGED <<fifo, rx_dr, irq_flg>>
        /\ \/ at = "config" /\ at' = "enable"
           \/ at = "enable" /\ at' = "loop"
           \/ at \in {"finish", "unexport", "free"} /\ at' \in {"unexport", "free", "done"}
    BY <1>11 DEF Configure, ChipEnable, Finish, Unexport, Free, Go, radioVars
  <2> QED BY <2>1 DEF FlagInv, Has
<1> QED BY <1>1, <1>2, <1>3, <1>4, <1>5, <1>6, <1>7, <1>8, <1>9, <1>10, <1>11 DEF Next, Program

-----------------------------------------------------------------------------
\* A packet that was there when the loop looked at the flags is read in that round
\* (nrf_rx.c 165-176), for every FIFO and any traffic.
THEOREM NothingOverlooked == Spec => []NoneOverlooked
<1>1. FlagInv => NoneOverlooked
  BY DEF FlagInv, NoneOverlooked, Has
<1> QED BY <1>1, FlagInit, FlagStep, PTL DEF Spec

\* A packet that waits while the loop waits has raised a flag that is still up, unless
\* it came as the flags were cleared (nrf_rx.c 165).
THEOREM WaitsFlagged == Spec => []Flagged
<1>1. FlagInv => Flagged
  BY DEF FlagInv, Flagged, Has
<1> QED BY <1>1, FlagInit, FlagStep, PTL DEF Spec

-----------------------------------------------------------------------------
(***************************************************************************)
(* The radio is quiet while it is set up.                                  *)
(***************************************************************************)

\* CE is low from chip_disable() to chip_enable(), and what init_rx() flushed
\* stays flushed.
QuietInv ==
  /\ latch \in [{CE, IRQ} -> {0, 1}]
  /\ at \in {"power_down", "power_up", "flush", "config", "enable"} => latch[CE] = 0
  /\ EmptyUntilEnabled

\* Only three steps of the program move CE.
LEMMA LatchKept ==
  ASSUME [Next]_vars
  PROVE  latch' = latch \/ ChipDisable \/ ChipEnable \/ Finish
<1>1. ASSUME NEW e, Line(e) PROVE latch' = latch
  BY <1>1 DEF Line, G!Edge, G!regVars, gpioVars
<1>2. CASE Receive
  BY <1>1, <1>2 DEF Receive, gpioVars
<1>3. CASE ClearFlags
  BY <1>1, <1>3 DEF ClearFlags, gpioVars
<1>4. CASE Poll \/ PollReturns \/ Signal
  BY <1>4 DEF Poll, PollReturns, Signal, G!gpio_sysfs_poll, G!PollReturns, G!regVars, gpioVars
<1>5. CASE Unexport \/ Free
  BY <1>5 DEF Unexport, Free, G!gpio_sysfs_unexport, G!gpio_free, G!regVars
<1>6. ASSUME NEW from, NEW to, NEW on, SetPowerMode(from, to, on) PROVE latch' = latch
  BY <1>6 DEF SetPowerMode, gpioVars
<1>7. CASE FlushRx \/ Configure \/ LoopTest \/ GetFlags \/ FifoEmpty \/ ReadPayload \/ Count
  BY <1>7 DEF FlushRx, Configure, LoopTest, GetFlags, FifoEmpty, ReadPayload, Count, gpioVars
<1>8. CASE UNCHANGED vars
  BY <1>8 DEF vars, gpioVars
<1> QED BY <1>2, <1>3, <1>4, <1>5, <1>6, <1>7, <1>8 DEF Next, Program

LEMMA QuietStep == QuietInv /\ [Next]_vars => QuietInv'
<1> SUFFICES ASSUME QuietInv, [Next]_vars PROVE QuietInv'
  OBVIOUS
<1> DEFINE Setup == {"power_down", "power_up", "flush", "config", "enable"}
<1>1. CASE ChipDisable
  BY <1>1 DEF ChipDisable, Go, G!set_value_io, QuietInv, EmptyUntilEnabled
<1>2. CASE ChipEnable
  BY <1>2 DEF ChipEnable, Go, G!set_value_io, QuietInv, EmptyUntilEnabled
<1>3. CASE Finish
  <2>1. at' \in {"unexport", "free"} /\ latch' = [latch EXCEPT ![CE] = 0]
    BY <1>3 DEF Finish, Go, G!set_value_io
  <2> QED BY <2>1 DEF QuietInv, EmptyUntilEnabled
<1>4. CASE latch' = latch /\ ~ChipDisable /\ ~ChipEnable /\ ~Finish
  <2>1. CASE Receive
    <3>1. at' = at /\ at \notin Setup
      BY <2>1 DEF Receive, loopVars, QuietInv
    <3> QED BY <1>4, <3>1 DEF QuietInv, EmptyUntilEnabled
  <2>2. CASE FlushRx
    BY <1>4, <2>2 DEF FlushRx, Go, QuietInv, EmptyUntilEnabled
  <2>3. CASE Configure \/ UNCHANGED vars
    BY <1>4, <2>3 DEF Configure, Go, radioVars, loopVars, vars, QuietInv, EmptyUntilEnabled
  <2>4. CASE Signal
    <3>1. at' = at \/ at' = "status"
      BY <2>4 DEF Signal
    <3>2. fifo' = fifo
      BY <2>4 DEF Signal, radioVars
    <3> QED BY <1>4, <3>1, <3>2 DEF QuietInv, EmptyUntilEnabled
  <2>5. CASE \/ SetPowerMode("power_down", "power_up", FALSE)
             \/ SetPowerMode("power_up", "flush", TRUE)
    BY <1>4, <2>5 DEF SetPowerMode, Go, QuietInv, EmptyUntilEnabled
  <2>6. CASE LoopTest \/ Poll \/ PollReturns \/ GetFlags \/ ClearFlags \/ FifoEmpty
             \/ ReadPayload \/ Count \/ Unexport \/ Free
    <3>1. at' \notin Setup
      BY <2>6 DEF LoopTest, Poll, PollReturns, GetFlags, ClearFlags, FifoEmpty, ReadPayload,
         Count, Unexport, Free, Go
    <3> QED BY <1>4, <3>1 DEF QuietInv, EmptyUntilEnabled
  <2> QED BY <1>4, <2>1, <2>2, <2>3, <2>4, <2>5, <2>6 DEF Next, Program
<1> QED BY <1>1, <1>2, <1>3, <1>4, LatchKept

\* The radio receives nothing until it is configured and enabled: the FIFO that
\* init_rx() flushed is empty when the loop begins (nrf_rx.c 141-154), in both
\* builds and whatever comes over the air or as a signal.
THEOREM QuietUntilEnabled == Spec => []EmptyUntilEnabled
<1>1. Init => QuietInv
  BY DEF Init, QuietInv, EmptyUntilEnabled, CE, IRQ
<1>2. QuietInv => EmptyUntilEnabled
  BY DEF QuietInv
<1> QED BY <1>1, <1>2, QuietStep, PTL DEF Spec
=============================================================================
