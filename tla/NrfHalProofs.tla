---------------------------- MODULE NrfHalProofs ----------------------------
(***************************************************************************)
(* What NrfHal promises, for every set of pipes, addresses, channels,      *)
(* widths and SPI handles, and every size of the FIFOs.                    *)
(*                                                                         *)
(* Each call is taken apart transfer by transfer: a lemma says what        *)
(* registers, errno and history of failures one transfer leaves, the next  *)
(* ones the same of the sequences that calls are made of.  A property of   *)
(* the last call then follows from the lemma of its sequence; that the SPI *)
(* handles agree with their devices needs an invariant of its own.         *)
(***************************************************************************)
EXTENDS NrfHal, SequenceTheorems, TLAPS

-----------------------------------------------------------------------------
(***************************************************************************)
(* Transfers.                                                              *)
(***************************************************************************)

Fields == {"regs", "err", "failed", "ret"}
IsCall(t) == DOMAIN t = Fields /\ t = [f \in Fields |-> t[f]]

LEMMA StartIs ==
  /\ IsCall(Start) /\ Start.regs = regs /\ Start.err = errno
  /\ Start.failed = FALSE /\ Start.ret = {}
BY DEF IsCall, Fields, Start

LEMMA Marks ==
  ASSUME NEW t, IsCall(t)
  PROVE  /\ IsCall(Good(t)) /\ Good(t).regs = t.regs /\ Good(t).ret = t.ret
         /\ Good(t).failed = t.failed /\ Good(t).err = FALSE
         /\ IsCall(Bad(t)) /\ Bad(t).regs = t.regs /\ Bad(t).ret = t.ret
         /\ Bad(t).failed = TRUE /\ Bad(t).err = TRUE
<1>1. IsCall(Good(t)) /\ IsCall(Bad(t))
  BY DEF IsCall, Fields, Good, Bad
<1>2. Good(t).regs = t.regs /\ Good(t).ret = t.ret /\ Good(t).failed = t.failed
  BY DEF IsCall, Fields, Good
<1>3. Good(t).err = FALSE
  BY DEF IsCall, Fields, Good
<1>4. Bad(t).regs = t.regs /\ Bad(t).ret = t.ret /\ Bad(t).failed = TRUE /\ Bad(t).err = TRUE
  BY DEF IsCall, Fields, Bad
<1> QED
  BY <1>1, <1>2, <1>3, <1>4

LEMMA WithRet ==
  ASSUME NEW t, IsCall(t), NEW r
  PROVE  /\ IsCall([t EXCEPT !.ret = r]) /\ [t EXCEPT !.ret = r].regs = t.regs
         /\ [t EXCEPT !.ret = r].ret = r
BY DEF IsCall, Fields

LEMMA WithRetFailed ==
  ASSUME NEW t, IsCall(t), NEW r
  PROVE  [t EXCEPT !.ret = r].failed = t.failed
BY DEF IsCall, Fields

LEMMA WithFields ==
  ASSUME NEW t, IsCall(t), NEW r
  PROVE  /\ IsCall([t EXCEPT !.regs = r]) /\ [t EXCEPT !.regs = r].regs = r
         /\ [t EXCEPT !.regs = r].ret = t.ret /\ [t EXCEPT !.regs = r].err = t.err
         /\ [t EXCEPT !.regs = r].failed = t.failed
         /\ IsCall([t EXCEPT !.ret = r]) /\ [t EXCEPT !.ret = r].regs = t.regs
         /\ [t EXCEPT !.ret = r].ret = r /\ [t EXCEPT !.ret = r].err = t.err
         /\ [t EXCEPT !.ret = r].failed = t.failed
BY DEF IsCall, Fields

\* What one transfer that makes the registers r of t leaves.
Sent1(t, u, r) == u.err = FALSE /\ u.failed = t.failed /\ u.regs = r
Lost1(t, u, r) == u.err = TRUE /\ u.failed = TRUE /\ (u.regs = r \/ u.regs = t.regs)

LEMMA Transferred ==
  ASSUME NEW t, IsCall(t), NEW r, NEW u \in Transfer(t, r)
  PROVE  IsCall(u) /\ u.ret = t.ret /\ (Sent1(t, u, r) \/ Lost1(t, u, r))
<1> DEFINE v == [t EXCEPT !.regs = r]
<1>1. u = Good(v) \/ u = Bad(v) \/ u = Bad(t)
  BY DEF Transfer
<1>2. IsCall(v) /\ v.regs = r /\ v.ret = t.ret /\ v.failed = t.failed
  BY DEF IsCall, Fields
<1> HIDE DEF v
<1>3. CASE u = Good(v)
  BY <1>2, <1>3, Marks DEF Sent1
<1>4. CASE u = Bad(v)
  BY <1>2, <1>4, Marks DEF Lost1
<1>5. CASE u = Bad(t)
  BY <1>5, Marks DEF Lost1
<1> QED
  BY <1>1, <1>3, <1>4, <1>5

LEMMA Written ==
  ASSUME NEW t, IsCall(t), NEW r, NEW x, NEW u \in Write(t, r, x)
  PROVE  /\ IsCall(u) /\ u.ret = t.ret
         /\ \/ Sent1(t, u, [t.regs EXCEPT ![r] = x])
            \/ Lost1(t, u, [t.regs EXCEPT ![r] = x])
BY Transferred DEF Write

\* Read, modify, write: all of it, or an error and at most the write.
LEMMA Modified ==
  ASSUME NEW t, IsCall(t), t.failed = FALSE, NEW r, NEW clear, NEW set,
         NEW u \in Modify(t, r, clear, set)
  PROVE  LET x == [t.regs EXCEPT ![r] = (t.regs[r] \ clear) \cup set]
         IN  IsCall(u) /\ u.ret = t.ret /\ (Sent1(t, u, x) \/ Lost1(t, u, x))
<1>1. PICK v \in Transfer(t, t.regs) :
        u \in IF v.err THEN {v} ELSE Write(v, r, (v.regs[r] \ clear) \cup set)
  BY DEF Modify, Read, IfSent
<1>2. IsCall(v) /\ v.ret = t.ret /\ (Sent1(t, v, t.regs) \/ Lost1(t, v, t.regs))
  BY Transferred
<1>3. CASE Lost1(t, v, t.regs)
  <2>1. u = v
    BY <1>1, <1>3 DEF Lost1
  <2> QED
    BY <1>2, <1>3, <2>1 DEF Lost1
<1>4. CASE Sent1(t, v, t.regs)
  <2>1. v.regs = t.regs /\ v.failed = t.failed /\ v.err = FALSE
    BY <1>4 DEF Sent1
  <2>2. u \in Write(v, r, (t.regs[r] \ clear) \cup set)
    BY <1>1, <2>1
  <2>3. /\ IsCall(u) /\ u.ret = v.ret
        /\ \/ Sent1(v, u, [v.regs EXCEPT ![r] = (t.regs[r] \ clear) \cup set])
           \/ Lost1(v, u, [v.regs EXCEPT ![r] = (t.regs[r] \ clear) \cup set])
    BY <1>2, <2>2, Written
  <2> QED
    BY <1>2, <2>1, <2>3 DEF Sent1, Lost1
<1> QED
  BY <1>2, <1>3, <1>4

-----------------------------------------------------------------------------
(***************************************************************************)
(* What each step has to show.                                             *)
(***************************************************************************)

OthersKeptStep ==
  \/ done'.failed /\ done'.call \in {"set_output_power", "config_tx"}
  \/ /\ Differ(Bits, Bits') \subseteq About(done'.call, done'.arg)
     /\ {x[1] : x \in Differ(PipeBits, PipeBits')} \subseteq AboutPipes(done'.call, done'.arg)

NothingLostStep ==
  ~errno' => /\ done'.call \in {"get_clear_irq_flags", "clear_irq_flags_get_status"}
                  => regs.STATUS \ regs'.STATUS = done'.ret
             /\ done'.call = "read_rx_payload"
                  => regs.RX = (IF done'.ret = {} THEN <<>> ELSE <<CHOOSE p \in done'.ret : TRUE>>) \o regs'.RX

AcceptedRightStep ==
  done'.call = "set_spi_hndl" /\ done'.ret = {TRUE} /\ done'.arg \notin doubtful
    => files[hal'.fd].open /\ files[hal'.fd].mode = 0 /\ ~files[hal'.fd].lsb

\* the part of the invariant that calls change
CallTypeOK == regs \in RegMaps /\ errno \in BOOLEAN /\ done.failed \in BOOLEAN

StepOK ==
  /\ CallTypeOK' /\ ErrorsTold' /\ AsAsked'
  /\ OthersKeptStep /\ NothingLostStep /\ AcceptedRightStep
  /\ UNCHANGED <<hndl, files, doubtful, hal, group>>

LEMMA CallIs ==
  ASSUME NEW name, NEW arg, NEW T, Call(name, arg, T)
  PROVE  \E u \in T :
           /\ regs' = u.regs /\ errno' = u.err
           /\ done'.call = name /\ done'.arg = arg
           /\ done'.failed = u.failed /\ done'.ret = u.ret
           /\ UNCHANGED <<hndl, files, doubtful, hal, group>>
BY DEF Call, spiVars

\* the names of calls that the other properties are about
DataNames == {"get_clear_irq_flags", "clear_irq_flags_get_status", "read_rx_payload"}

-----------------------------------------------------------------------------
(***************************************************************************)
(* Calls that change flags of a register.                                  *)
(***************************************************************************)

FlagsOf(r) == IF r = "CONFIG" THEN CONFIG_BITS
              ELSE IF r = "FEATURE" THEN FEATURE_BITS ELSE RF_SETUP_BITS
FlagRegs == {"CONFIG", "FEATURE", "RF_SETUP"}

LEMMA FlagsTyped ==
  ASSUME NEW g \in RegMaps, NEW r \in FlagRegs, NEW v \in SUBSET FlagsOf(r)
  PROVE  /\ [g EXCEPT ![r] = v] \in RegMaps /\ [g EXCEPT ![r] = v][r] = v
         /\ g[r] \in SUBSET FlagsOf(r)
<1>1. CASE r = "CONFIG"
  <2>1. [g EXCEPT ![r] = v] \in RegMaps
    BY <1>1, ZenonT(60) DEF RegMaps, FlagsOf
  <2>2. [g EXCEPT ![r] = v][r] = v /\ g[r] \in SUBSET FlagsOf(r)
    BY <1>1 DEF RegMaps, FlagsOf
  <2> QED
    BY <2>1, <2>2
<1>2. CASE r = "FEATURE"
  BY <1>2, ZenonT(60) DEF RegMaps, FlagsOf
<1>3. CASE r = "RF_SETUP"
  BY <1>3, ZenonT(60) DEF RegMaps, FlagsOf
<1> QED
  BY <1>1, <1>2, <1>3 DEF FlagRegs

\* A register of flags changed in some of them changes nothing else.
LEMMA FlagsDiffer ==
  ASSUME NEW g \in RegMaps, NEW r \in FlagRegs, NEW v \in SUBSET FlagsOf(r), NEW S,
         Differ(g[r], v) \subseteq S, regs = g, regs' = [g EXCEPT ![r] = v]
  PROVE  /\ Differ(Bits, Bits') \subseteq S
         /\ Differ(PipeBits, PipeBits') = {}
<1>1. regs'.EN_RXADDR = regs.EN_RXADDR /\ regs'.EN_AA = regs.EN_AA
  BY DEF RegMaps, FlagRegs
<1>2. Differ(PipeBits, PipeBits') = {}
  BY <1>1 DEF Differ, PipeBits
<1>3. \/ regs'.CONFIG = v /\ g.CONFIG = g[r] /\ regs'.FEATURE = g.FEATURE /\ regs'.RF_SETUP = g.RF_SETUP
      \/ regs'.FEATURE = v /\ g.FEATURE = g[r] /\ regs'.CONFIG = g.CONFIG /\ regs'.RF_SETUP = g.RF_SETUP
      \/ regs'.RF_SETUP = v /\ g.RF_SETUP = g[r] /\ regs'.CONFIG = g.CONFIG /\ regs'.FEATURE = g.FEATURE
  BY DEF RegMaps, FlagRegs
<1>4. Differ(Bits, Bits') \subseteq Differ(g[r], v)
  BY <1>3 DEF Bits, Differ
<1> QED
  BY <1>2, <1>4

LEMMA FlagCall ==
  ASSUME CallTypeOK, NEW r \in FlagRegs, NEW clear \in SUBSET FlagsOf(r),
         NEW set \in SUBSET FlagsOf(r), NEW name, NEW arg,
         Call(name, arg, Modify(Start, r, clear, set)),
         name \notin DataNames, name # "set_spi_hndl",
         clear \cup set \subseteq About(name, arg)
  PROVE  /\ CallTypeOK' /\ ErrorsTold' /\ OthersKeptStep
         /\ NothingLostStep /\ AcceptedRightStep
         /\ UNCHANGED <<hndl, files, doubtful, hal, group>>
         /\ done'.call = name /\ done'.arg = arg
         /\ ~errno' => regs'[r] = (regs[r] \ clear) \cup set
<1> DEFINE v == (regs[r] \ clear) \cup set
           x == [regs EXCEPT ![r] = v]
<1>1. PICK u \in Modify(Start, r, clear, set) :
        /\ regs' = u.regs /\ errno' = u.err
        /\ done'.call = name /\ done'.arg = arg
        /\ done'.failed = u.failed /\ done'.ret = u.ret
        /\ UNCHANGED <<hndl, files, doubtful, hal, group>>
  BY CallIs
<1>2. Sent1(Start, u, x) \/ Lost1(Start, u, x)
  BY StartIs, Modified
<1>3. regs \in RegMaps
  BY DEF CallTypeOK
<1>4. regs[r] \in SUBSET FlagsOf(r)
  BY <1>3, FlagsTyped
<1>5. v \in SUBSET FlagsOf(r) /\ Differ(regs[r], v) \subseteq About(name, arg)
  BY <1>4 DEF Differ
<1> HIDE DEF v
<1>6. x \in RegMaps /\ x[r] = v
  BY <1>3, <1>5, FlagsTyped
<1>7. \/ errno' = FALSE /\ done'.failed = FALSE /\ regs' = x
      \/ errno' = TRUE /\ done'.failed = TRUE /\ (regs' = x \/ regs' = regs)
  BY <1>1, <1>2, StartIs DEF Sent1, Lost1
<1>8. CallTypeOK'
  BY <1>3, <1>6, <1>7 DEF CallTypeOK
<1>9. ErrorsTold'
  BY <1>7 DEF ErrorsTold
<1>10. OthersKeptStep
  <2>1. CASE regs' = regs
    <3>1. Differ(Bits, Bits') = {} /\ Differ(PipeBits, PipeBits') = {}
      BY <2>1 DEF Differ, Bits, PipeBits
    <3> QED
      BY <3>1 DEF OthersKeptStep
  <2>2. CASE regs' = x
    <3>1. Differ(Bits, Bits') \subseteq About(name, arg) /\ Differ(PipeBits, PipeBits') = {}
      BY <1>3, <1>5, <2>2, FlagsDiffer
    <3>2. {y[1] : y \in Differ(PipeBits, PipeBits')} = {}
      BY <3>1
    <3> QED
      BY <1>1, <3>1, <3>2 DEF OthersKeptStep
  <2> QED
    BY <1>7, <2>1, <2>2
<1>11. NothingLostStep /\ AcceptedRightStep
  BY <1>1 DEF NothingLostStep, AcceptedRightStep, DataNames
<1>12. ~errno' => regs'[r] = v
  BY <1>6, <1>7
<1> QED
  BY <1>1, <1>8, <1>9, <1>10, <1>11, <1>12 DEF v

LEMMA OperationModeStep ==
  ASSUME CallTypeOK, NEW b \in BOOLEAN,
         Call("set_operation_mode", b, set_operation_mode(Start, b))
  PROVE  StepOK
<1> DEFINE clear == {"PRIM_RX"}
           set == Only(b, "PRIM_RX")
<1>1. clear \in SUBSET FlagsOf("CONFIG") /\ set \in SUBSET FlagsOf("CONFIG")
  BY DEF FlagsOf, CONFIG_BITS, Only
<1>2. clear \cup set \subseteq About("set_operation_mode", b)
  BY DEF About, Only
<1>3. Call("set_operation_mode", b, Modify(Start, "CONFIG", clear, set))
  BY DEF set_operation_mode
<1> HIDE DEF clear, set
<1>4. "CONFIG" \in FlagRegs /\ "set_operation_mode" \notin DataNames /\ "set_operation_mode" # "set_spi_hndl"
  BY DEF FlagRegs, DataNames
<1>5. /\ CallTypeOK' /\ ErrorsTold' /\ OthersKeptStep
      /\ NothingLostStep /\ AcceptedRightStep
      /\ UNCHANGED <<hndl, files, doubtful, hal, group>>
      /\ done'.call = "set_operation_mode" /\ done'.arg = b
      /\ ~errno' => regs'["CONFIG"] = (regs["CONFIG"] \ clear) \cup set
  BY <1>1, <1>2, <1>3, <1>4, FlagCall
<1>6. AsAsked'
  BY <1>5 DEF AsAsked, Kept, get_operation_mode, Only, clear, set
<1> QED
  BY <1>5, <1>6 DEF StepOK

LEMMA PowerModeStep ==
  ASSUME CallTypeOK, NEW b \in BOOLEAN,
         Call("set_power_mode", b, set_power_mode(Start, b))
  PROVE  StepOK
<1> DEFINE clear == {"PWR_UP"}
           set == Only(b, "PWR_UP")
<1>1. clear \in SUBSET FlagsOf("CONFIG") /\ set \in SUBSET FlagsOf("CONFIG")
  BY DEF FlagsOf, CONFIG_BITS, Only
<1>2. clear \cup set \subseteq About("set_power_mode", b)
  BY DEF About, Only
<1>3. Call("set_power_mode", b, Modify(Start, "CONFIG", clear, set))
  BY DEF set_power_mode
<1> HIDE DEF clear, set
<1>4. "CONFIG" \in FlagRegs /\ "set_power_mode" \notin DataNames /\ "set_power_mode" # "set_spi_hndl"
  BY DEF FlagRegs, DataNames
<1>5. /\ CallTypeOK' /\ ErrorsTold' /\ OthersKeptStep
      /\ NothingLostStep /\ AcceptedRightStep
      /\ UNCHANGED <<hndl, files, doubtful, hal, group>>
      /\ done'.call = "set_power_mode" /\ done'.arg = b
      /\ ~errno' => regs'["CONFIG"] = (regs["CONFIG"] \ clear) \cup set
  BY <1>1, <1>2, <1>3, <1>4, FlagCall
<1>6. AsAsked'
  BY <1>5 DEF AsAsked, Kept, get_power_mode, Only, clear, set
<1> QED
  BY <1>5, <1>6 DEF StepOK

LEMMA CrcModeStep ==
  ASSUME CallTypeOK, NEW n \in 0..2,
         Call("set_crc_mode", n, set_crc_mode(Start, n))
  PROVE  StepOK
<1> DEFINE clear == IF n = 0 THEN {"EN_CRC"} ELSE {"CRCO"}
           set == IF n = 0 THEN {} ELSE {"EN_CRC"} \cup Only(n = 2, "CRCO")
<1>1. clear \in SUBSET FlagsOf("CONFIG") /\ set \in SUBSET FlagsOf("CONFIG")
  BY DEF FlagsOf, CONFIG_BITS, Only
<1>2. clear \cup set \subseteq About("set_crc_mode", n)
  BY DEF About, Only
<1>3. Call("set_crc_mode", n, Modify(Start, "CONFIG", clear, set))
  BY DEF set_crc_mode
<1> HIDE DEF clear, set
<1>4. "CONFIG" \in FlagRegs /\ "set_crc_mode" \notin DataNames /\ "set_crc_mode" # "set_spi_hndl"
  BY DEF FlagRegs, DataNames
<1>5. /\ CallTypeOK' /\ ErrorsTold' /\ OthersKeptStep
      /\ NothingLostStep /\ AcceptedRightStep
      /\ UNCHANGED <<hndl, files, doubtful, hal, group>>
      /\ done'.call = "set_crc_mode" /\ done'.arg = n
      /\ ~errno' => regs'["CONFIG"] = (regs["CONFIG"] \ clear) \cup set
  BY <1>1, <1>2, <1>3, <1>4, FlagCall
<1>6. AsAsked'
  BY <1>5 DEF AsAsked, Kept, get_crc_mode, Only, clear, set
<1> QED
  BY <1>5, <1>6 DEF StepOK

LEMMA IrqModeStep ==
  ASSUME CallTypeOK, NEW a \in IRQ_FLAGS \X BOOLEAN,
         Call("set_irq_mode", a, set_irq_mode(Start, a))
  PROVE  StepOK
<1> DEFINE clear == {Mask(a[1])}
           set == Only(~a[2], Mask(a[1]))
<1>1. clear \in SUBSET FlagsOf("CONFIG") /\ set \in SUBSET FlagsOf("CONFIG")
  BY DEF FlagsOf, CONFIG_BITS, Only, Mask, IRQ_FLAGS
<1>2. clear \cup set \subseteq About("set_irq_mode", a)
  BY DEF About, Only, Mask, IRQ_FLAGS
<1>3. Call("set_irq_mode", a, Modify(Start, "CONFIG", clear, set))
  BY DEF set_irq_mode
<1> HIDE DEF clear, set
<1>4. "CONFIG" \in FlagRegs /\ "set_irq_mode" \notin DataNames /\ "set_irq_mode" # "set_spi_hndl"
  BY DEF FlagRegs, DataNames
<1>5. /\ CallTypeOK' /\ ErrorsTold' /\ OthersKeptStep
      /\ NothingLostStep /\ AcceptedRightStep
      /\ UNCHANGED <<hndl, files, doubtful, hal, group>>
      /\ done'.call = "set_irq_mode" /\ done'.arg = a
      /\ ~errno' => regs'["CONFIG"] = (regs["CONFIG"] \ clear) \cup set
  BY <1>1, <1>2, <1>3, <1>4, FlagCall
<1>6. AsAsked'
  BY <1>5 DEF AsAsked, Kept, get_irq_mode, Only, clear, set, Mask, IRQ_FLAGS
<1> QED
  BY <1>5, <1>6 DEF StepOK

LEMMA DynamicPayloadStep ==
  ASSUME CallTypeOK, NEW b \in BOOLEAN,
         Call("enable_dynamic_payload", b, enable_dynamic_payload(Start, b))
  PROVE  StepOK
<1> DEFINE clear == {"EN_DPL"}
           set == Only(b, "EN_DPL")
<1>1. clear \in SUBSET FlagsOf("FEATURE") /\ set \in SUBSET FlagsOf("FEATURE")
  BY DEF FlagsOf, FEATURE_BITS, Only
<1>2. clear \cup set \subseteq About("enable_dynamic_payload", b)
  BY DEF About, Only
<1>3. Call("enable_dynamic_payload", b, Modify(Start, "FEATURE", clear, set))
  BY DEF enable_dynamic_payload
<1> HIDE DEF clear, set
<1>4. "FEATURE" \in FlagRegs /\ "enable_dynamic_payload" \notin DataNames /\ "enable_dynamic_payload" # "set_spi_hndl"
  BY DEF FlagRegs, DataNames
<1>5. /\ CallTypeOK' /\ ErrorsTold' /\ OthersKeptStep
      /\ NothingLostStep /\ AcceptedRightStep
      /\ UNCHANGED <<hndl, files, doubtful, hal, group>>
      /\ done'.call = "enable_dynamic_payload" /\ done'.arg = b
      /\ ~errno' => regs'["FEATURE"] = (regs["FEATURE"] \ clear) \cup set
  BY <1>1, <1>2, <1>3, <1>4, FlagCall
<1>6. AsAsked'
  BY <1>5 DEF AsAsked, Kept, is_dynamic_payload_enabled, Only, clear, set
<1> QED
  BY <1>5, <1>6 DEF StepOK

LEMMA AckPayloadStep ==
  ASSUME CallTypeOK, NEW b \in BOOLEAN,
         Call("enable_ack_payload", b, enable_ack_payload(Start, b))
  PROVE  StepOK
<1> DEFINE clear == {"EN_ACK_PAY"}
           set == Only(b, "EN_ACK_PAY")
<1>1. clear \in SUBSET FlagsOf("FEATURE") /\ set \in SUBSET FlagsOf("FEATURE")
  BY DEF FlagsOf, FEATURE_BITS, Only
<1>2. clear \cup set \subseteq About("enable_ack_payload", b)
  BY DEF About, Only
<1>3. Call("enable_ack_payload", b, Modify(Start, "FEATURE", clear, set))
  BY DEF enable_ack_payload
<1> HIDE DEF clear, set
<1>4. "FEATURE" \in FlagRegs /\ "enable_ack_payload" \notin DataNames /\ "enable_ack_payload" # "set_spi_hndl"
  BY DEF FlagRegs, DataNames
<1>5. /\ CallTypeOK' /\ ErrorsTold' /\ OthersKeptStep
      /\ NothingLostStep /\ AcceptedRightStep
      /\ UNCHANGED <<hndl, files, doubtful, hal, group>>
      /\ done'.call = "enable_ack_payload" /\ done'.arg = b
      /\ ~errno' => regs'["FEATURE"] = (regs["FEATURE"] \ clear) \cup set
  BY <1>1, <1>2, <1>3, <1>4, FlagCall
<1>6. AsAsked'
  BY <1>5 DEF AsAsked, Kept, is_ack_payload_enabled, Only, clear, set
<1> QED
  BY <1>5, <1>6 DEF StepOK

LEMMA DynamicAckStep ==
  ASSUME CallTypeOK, NEW b \in BOOLEAN,
         Call("enable_dynamic_ack", b, enable_dynamic_ack(Start, b))
  PROVE  StepOK
<1> DEFINE clear == {"EN_DYN_ACK"}
           set == Only(b, "EN_DYN_ACK")
<1>1. clear \in SUBSET FlagsOf("FEATURE") /\ set \in SUBSET FlagsOf("FEATURE")
  BY DEF FlagsOf, FEATURE_BITS, Only
<1>2. clear \cup set \subseteq About("enable_dynamic_ack", b)
  BY DEF About, Only
<1>3. Call("enable_dynamic_ack", b, Modify(Start, "FEATURE", clear, set))
  BY DEF enable_dynamic_ack
<1> HIDE DEF clear, set
<1>4. "FEATURE" \in FlagRegs /\ "enable_dynamic_ack" \notin DataNames /\ "enable_dynamic_ack" # "set_spi_hndl"
  BY DEF FlagRegs, DataNames
<1>5. /\ CallTypeOK' /\ ErrorsTold' /\ OthersKeptStep
      /\ NothingLostStep /\ AcceptedRightStep
      /\ UNCHANGED <<hndl, files, doubtful, hal, group>>
      /\ done'.call = "enable_dynamic_ack" /\ done'.arg = b
      /\ ~errno' => regs'["FEATURE"] = (regs["FEATURE"] \ clear) \cup set
  BY <1>1, <1>2, <1>3, <1>4, FlagCall
<1>6. AsAsked'
  BY <1>5 DEF AsAsked, Kept, is_dynamic_ack_enabled, Only, clear, set
<1> QED
  BY <1>5, <1>6 DEF StepOK

LEMMA DatarateStep ==
  ASSUME CallTypeOK, NEW n \in 0..2,
         Call("set_datarate", n, set_datarate(Start, n))
  PROVE  StepOK
<1> DEFINE clear == {"RF_DR_LOW", "RF_DR_HIGH"}
           set == Only(n = 2, "RF_DR_LOW") \cup Only(n = 1, "RF_DR_HIGH")
<1>1. clear \in SUBSET FlagsOf("RF_SETUP") /\ set \in SUBSET FlagsOf("RF_SETUP")
  BY DEF FlagsOf, RF_SETUP_BITS, Only
<1>2. clear \cup set \subseteq About("set_datarate", n)
  BY DEF About, Only
<1>3. Call("set_datarate", n, Modify(Start, "RF_SETUP", clear, set))
  BY DEF set_datarate
<1> HIDE DEF clear, set
<1>4. "RF_SETUP" \in FlagRegs /\ "set_datarate" \notin DataNames /\ "set_datarate" # "set_spi_hndl"
  BY DEF FlagRegs, DataNames
<1>5. /\ CallTypeOK' /\ ErrorsTold' /\ OthersKeptStep
      /\ NothingLostStep /\ AcceptedRightStep
      /\ UNCHANGED <<hndl, files, doubtful, hal, group>>
      /\ done'.call = "set_datarate" /\ done'.arg = n
      /\ ~errno' => regs'["RF_SETUP"] = (regs["RF_SETUP"] \ clear) \cup set
  BY <1>1, <1>2, <1>3, <1>4, FlagCall
<1>6. AsAsked'
  BY <1>5 DEF AsAsked, Kept, AirRate, Only, clear, set
<1> QED
  BY <1>5, <1>6 DEF StepOK

LEMMA PllModeStep ==
  ASSUME CallTypeOK, NEW b \in BOOLEAN,
         Call("set_pll_mode", b, set_pll_mode(Start, b))
  PROVE  StepOK
<1> DEFINE clear == {"PLL_LOCK"}
           set == Only(b, "PLL_LOCK")
<1>1. clear \in SUBSET FlagsOf("RF_SETUP") /\ set \in SUBSET FlagsOf("RF_SETUP")
  BY DEF FlagsOf, RF_SETUP_BITS, Only
<1>2. clear \cup set \subseteq About("set_pll_mode", b)
  BY DEF About, Only
<1>3. Call("set_pll_mode", b, Modify(Start, "RF_SETUP", clear, set))
  BY DEF set_pll_mode
<1> HIDE DEF clear, set
<1>4. "RF_SETUP" \in FlagRegs /\ "set_pll_mode" \notin DataNames /\ "set_pll_mode" # "set_spi_hndl"
  BY DEF FlagRegs, DataNames
<1>5. /\ CallTypeOK' /\ ErrorsTold' /\ OthersKeptStep
      /\ NothingLostStep /\ AcceptedRightStep
      /\ UNCHANGED <<hndl, files, doubtful, hal, group>>
      /\ done'.call = "set_pll_mode" /\ done'.arg = b
      /\ ~errno' => regs'["RF_SETUP"] = (regs["RF_SETUP"] \ clear) \cup set
  BY <1>1, <1>2, <1>3, <1>4, FlagCall
<1>6. AsAsked'
  BY <1>5 DEF AsAsked, Kept, get_pll_mode, Only, clear, set
<1> QED
  BY <1>5, <1>6 DEF StepOK

LEMMA ContinuousWaveStep ==
  ASSUME CallTypeOK, NEW b \in BOOLEAN,
         Call("enable_continuous_wave", b, enable_continuous_wave(Start, b))
  PROVE  StepOK
<1> DEFINE clear == {"CONT_WAVE"}
           set == Only(b, "CONT_WAVE")
<1>1. clear \in SUBSET FlagsOf("RF_SETUP") /\ set \in SUBSET FlagsOf("RF_SETUP")
  BY DEF FlagsOf, RF_SETUP_BITS, Only
<1>2. clear \cup set \subseteq About("enable_continuous_wave", b)
  BY DEF About, Only
<1>3. Call("enable_continuous_wave", b, Modify(Start, "RF_SETUP", clear, set))
  BY DEF enable_continuous_wave
<1> HIDE DEF clear, set
<1>4. "RF_SETUP" \in FlagRegs /\ "enable_continuous_wave" \notin DataNames /\ "enable_continuous_wave" # "set_spi_hndl"
  BY DEF FlagRegs, DataNames
<1>5. /\ CallTypeOK' /\ ErrorsTold' /\ OthersKeptStep
      /\ NothingLostStep /\ AcceptedRightStep
      /\ UNCHANGED <<hndl, files, doubtful, hal, group>>
      /\ done'.call = "enable_continuous_wave" /\ done'.arg = b
      /\ ~errno' => regs'["RF_SETUP"] = (regs["RF_SETUP"] \ clear) \cup set
  BY <1>1, <1>2, <1>3, <1>4, FlagCall
<1>6. AsAsked'
  BY <1>5 DEF AsAsked, Kept, is_continuous_wave_enabled, Only, clear, set
<1> QED
  BY <1>5, <1>6 DEF StepOK

-----------------------------------------------------------------------------
(***************************************************************************)
(* Calls in general: what every outcome of one has to be.                  *)
(***************************************************************************)

BitsOf(g) == g.CONFIG \cup g.FEATURE \cup g.RF_SETUP
PipeBitsOf(g) == (g.EN_RXADDR \X {"EN_RXADDR"}) \cup (g.EN_AA \X {"EN_AA"})

\* the outcome u of the call: typed, an error told, nothing else changed
Typed(u) == u.regs \in RegMaps /\ u.err \in BOOLEAN /\ u.failed \in BOOLEAN
Told(name, u) == u.failed /\ name \notin Careless => u.err
Alone(name, arg, u) ==
  \/ u.failed /\ name \in {"set_output_power", "config_tx"}
  \/ /\ Differ(BitsOf(regs), BitsOf(u.regs)) \subseteq About(name, arg)
     /\ {x[1] : x \in Differ(PipeBitsOf(regs), PipeBitsOf(u.regs))} \subseteq AboutPipes(name, arg)

LEMMA Concluded ==
  ASSUME NEW name, NEW arg, NEW T, Call(name, arg, T), name # "set_spi_hndl",
         \A u \in T : Typed(u) /\ Told(name, u) /\ Alone(name, arg, u)
  PROVE  /\ CallTypeOK' /\ ErrorsTold' /\ OthersKeptStep /\ AcceptedRightStep
         /\ UNCHANGED <<hndl, files, doubtful, hal, group>>
         /\ done'.call = name /\ done'.arg = arg
         /\ \E u \in T : /\ regs' = u.regs /\ errno' = u.err
                         /\ done'.failed = u.failed /\ done'.ret = u.ret
<1>1. PICK u \in T :
        /\ regs' = u.regs /\ errno' = u.err
        /\ done'.call = name /\ done'.arg = arg
        /\ done'.failed = u.failed /\ done'.ret = u.ret
        /\ UNCHANGED <<hndl, files, doubtful, hal, group>>
  BY CallIs
<1>2. Typed(u) /\ Told(name, u) /\ Alone(name, arg, u)
  OBVIOUS
<1>3. CallTypeOK'
  BY <1>1, <1>2, Zenon DEF CallTypeOK, Typed
<1>4. ErrorsTold'
  BY <1>1, <1>2, Zenon DEF ErrorsTold, Told
<1>5. OthersKeptStep
  BY <1>1, <1>2, Zenon DEF OthersKeptStep, Alone, Bits, BitsOf, PipeBits, PipeBitsOf
<1>6. AcceptedRightStep
  BY <1>1, Zenon DEF AcceptedRightStep
<1> QED
  BY <1>1, <1>3, <1>4, <1>5, <1>6, Zenon

\* the registers the flags and the pipes are in
SameFlags(g, h) ==
  /\ h.CONFIG = g.CONFIG /\ h.FEATURE = g.FEATURE /\ h.RF_SETUP = g.RF_SETUP
  /\ h.EN_RXADDR = g.EN_RXADDR /\ h.EN_AA = g.EN_AA

LEMMA FlagsAlone ==
  ASSUME NEW name, NEW arg, NEW u, SameFlags(regs, u.regs)
  PROVE  Alone(name, arg, u)
<1>1. Differ(BitsOf(regs), BitsOf(u.regs)) = {} /\ Differ(PipeBitsOf(regs), PipeBitsOf(u.regs)) = {}
  BY DEF SameFlags, Differ, BitsOf, PipeBitsOf
<1> QED
  BY <1>1 DEF Alone

\* A transfer that may make the registers x, when the flags stay.
LEMMA QuietOutcome ==
  ASSUME CallTypeOK, NEW x \in RegMaps, SameFlags(regs, x), NEW name, NEW arg,
         NEW u, Sent1(Start, u, x) \/ Lost1(Start, u, x)
  PROVE  Typed(u) /\ Told(name, u) /\ Alone(name, arg, u) /\ (~u.err => u.regs = x)
<1>1. u.regs = x \/ u.regs = regs
  BY StartIs DEF Sent1, Lost1
<1>2. SameFlags(regs, u.regs) /\ u.regs \in RegMaps
  BY <1>1 DEF SameFlags, CallTypeOK
<1>3. Alone(name, arg, u)
  BY <1>2, FlagsAlone
<1>4. \/ u.err = FALSE /\ u.failed = FALSE /\ u.regs = x
      \/ u.err = TRUE /\ u.failed = TRUE
  BY StartIs, Zenon DEF Sent1, Lost1
<1>5. Typed(u) /\ Told(name, u)
  BY <1>2, <1>4, Zenon DEF Typed, Told
<1> QED
  BY <1>3, <1>4, <1>5, Zenon

LEMMA QuietCall ==
  ASSUME CallTypeOK, NEW x \in RegMaps, SameFlags(regs, x), NEW name, NEW arg, NEW T,
         Call(name, arg, T), name \notin DataNames, name # "set_spi_hndl",
         \A u \in T : Sent1(Start, u, x) \/ Lost1(Start, u, x)
  PROVE  /\ CallTypeOK' /\ ErrorsTold' /\ OthersKeptStep
         /\ NothingLostStep /\ AcceptedRightStep
         /\ UNCHANGED <<hndl, files, doubtful, hal, group>>
         /\ done'.call = name /\ done'.arg = arg
         /\ ~errno' => regs' = x
<1>1. \A u \in T : Typed(u) /\ Told(name, u) /\ Alone(name, arg, u) /\ (~u.err => u.regs = x)
  BY QuietOutcome
<1>2. /\ CallTypeOK' /\ ErrorsTold' /\ OthersKeptStep /\ AcceptedRightStep
      /\ UNCHANGED <<hndl, files, doubtful, hal, group>>
      /\ done'.call = name /\ done'.arg = arg
      /\ \E u \in T : /\ regs' = u.regs /\ errno' = u.err
                      /\ done'.failed = u.failed /\ done'.ret = u.ret
  BY <1>1, Concluded
<1>3. ~errno' => regs' = x
  BY <1>1, <1>2
<1>4. NothingLostStep
  BY <1>2 DEF NothingLostStep, DataNames
<1> QED
  BY <1>2, <1>3, <1>4

-----------------------------------------------------------------------------
(***************************************************************************)
(* Calls that write one register, none of flags.                           *)
(***************************************************************************)

LEMMA SentAs ==
  ASSUME NEW r, NEW u \in Transfer(Start, r)
  PROVE  Sent1(Start, u, r) \/ Lost1(Start, u, r)
BY StartIs, Transferred

LEMMA NopStep ==
  ASSUME CallTypeOK, Call("nop", "none", nop(Start))
  PROVE  StepOK
<1>1. regs \in RegMaps /\ SameFlags(regs, regs)
  BY DEF CallTypeOK, SameFlags
<1>2. \A u \in nop(Start) : Sent1(Start, u, regs) \/ Lost1(Start, u, regs)
  BY SentAs, StartIs DEF nop
<1>3. /\ CallTypeOK' /\ ErrorsTold' /\ OthersKeptStep
      /\ NothingLostStep /\ AcceptedRightStep
      /\ UNCHANGED <<hndl, files, doubtful, hal, group>>
      /\ done'.call = "nop"
  BY <1>1, <1>2, QuietCall DEF DataNames
<1>4. AsAsked'
  BY <1>3 DEF AsAsked, Kept
<1> QED
  BY <1>3, <1>4 DEF StepOK

LEMMA SetupDynamicPayloadStep ==
  ASSUME CallTypeOK, NEW s \in SUBSET Pipes,
         Call("setup_dynamic_payload", s, setup_dynamic_payload(Start, s))
  PROVE  StepOK
<1> DEFINE x == [regs EXCEPT !["DYNPD"] = s]
<1>1. x \in RegMaps /\ SameFlags(regs, x)
  BY ZenonT(60) DEF CallTypeOK, SameFlags, RegMaps
<1>2. \A u \in setup_dynamic_payload(Start, s) : Sent1(Start, u, x) \/ Lost1(Start, u, x)
  BY SentAs, StartIs DEF setup_dynamic_payload, Write
<1> HIDE DEF x
<1>3. /\ CallTypeOK' /\ ErrorsTold' /\ OthersKeptStep
      /\ NothingLostStep /\ AcceptedRightStep
      /\ UNCHANGED <<hndl, files, doubtful, hal, group>>
      /\ done'.call = "setup_dynamic_payload"
  BY <1>1, <1>2, QuietCall DEF DataNames
<1>4. AsAsked'
  BY <1>3 DEF AsAsked, Kept
<1> QED
  BY <1>3, <1>4 DEF StepOK

LEMMA RfChannelStep ==
  ASSUME CallTypeOK, NEW n \in Channels, Call("set_rf_channel", n, set_rf_channel(Start, n))
  PROVE  StepOK
<1> DEFINE m == n % 128
           x == [regs EXCEPT !["RF_CH"] = m]
<1>1. m = n /\ m \in 0..127 /\ n % 128 = n
  BY ValuesAssumption
<1> HIDE DEF m
<1>11. m \in 0..127
  BY <1>1
<1>12. x \in RegMaps
  BY <1>11, ZenonT(60) DEF CallTypeOK, RegMaps
<1>13. SameFlags(regs, x) /\ x.RF_CH = m
  BY DEF CallTypeOK, SameFlags, RegMaps
<1>2. x \in RegMaps /\ SameFlags(regs, x) /\ x.RF_CH = n
  BY <1>1, <1>12, <1>13
<1>3. \A u \in set_rf_channel(Start, n) : Sent1(Start, u, x) \/ Lost1(Start, u, x)
  BY SentAs, StartIs DEF set_rf_channel, Write, m
<1>4. /\ CallTypeOK' /\ ErrorsTold' /\ OthersKeptStep
      /\ NothingLostStep /\ AcceptedRightStep
      /\ UNCHANGED <<hndl, files, doubtful, hal, group>>
      /\ done'.call = "set_rf_channel" /\ done'.arg = n /\ (~errno' => regs' = x)
  <2>1. "set_rf_channel" \notin DataNames /\ "set_rf_channel" # "set_spi_hndl"
    BY DEF DataNames
  <2> QED
    BY <1>2, <1>3, <2>1, QuietCall
<1>5. AsAsked'
  BY <1>1, <1>2, <1>4 DEF AsAsked, Kept, get_rf_channel
<1> QED
  BY <1>4, <1>5 DEF StepOK

LEMMA AutoRetrStep ==
  ASSUME CallTypeOK, NEW a \in Retries \X Delays, Call("set_auto_retr", a, set_auto_retr(Start, a))
  PROVE  StepOK
<1> DEFINE d == (a[2] \div 256) % 16
           c == a[1] % 16
           x == [regs EXCEPT !["SETUP_RETR"] = <<d, c>>]
<1>1. PICK k \in 1..16 : a[2] = 250 * k
  BY ValuesAssumption
<1>2. a[1] \in 0..15
  BY ValuesAssumption
<1>21. c = a[1]
  BY <1>2
<1>3. a[2] \div 256 = k - 1
  BY <1>1
<1>4. d = k - 1
  BY <1>3
<1>41. <<d, c>> \in (0..15) \X (0..15)
  BY <1>2, <1>21, <1>4
<1> HIDE DEF d, c
<1>5. x \in RegMaps /\ SameFlags(regs, x) /\ x.SETUP_RETR = <<d, c>>
  BY <1>41, ZenonT(60) DEF CallTypeOK, SameFlags, RegMaps
<1>6. \A u \in set_auto_retr(Start, a) : Sent1(Start, u, x) \/ Lost1(Start, u, x)
  BY SentAs, StartIs DEF set_auto_retr, Write, d, c
<1> HIDE DEF x
<1>7. /\ CallTypeOK' /\ ErrorsTold' /\ OthersKeptStep
      /\ NothingLostStep /\ AcceptedRightStep
      /\ UNCHANGED <<hndl, files, doubtful, hal, group>>
      /\ done'.call = "set_auto_retr" /\ done'.arg = a /\ (~errno' => regs' = x)
  BY <1>5, <1>6, QuietCall DEF DataNames
<1>8. AsAsked'
  BY <1>1, <1>21, <1>4, <1>5, <1>7 DEF AsAsked, Kept, get_auto_retr_ctr, get_auto_retr_delay
<1> QED
  BY <1>7, <1>8 DEF StepOK

\* A payload width goes to its own register or, of all pipes, to TX_ADDR.
LEMMA WidthAtTyped ==
  ASSUME NEW g \in RegMaps, NEW p, NEW n \in PlWidths
  PROVE  /\ WidthAt(g, p, n) \in RegMaps /\ SameFlags(g, WidthAt(g, p, n))
         /\ WidthAt(g, p, n).SETUP_AW = g.SETUP_AW
         /\ p # HAL_NRF_ALL => WidthAt(g, p, n).ADDR = g.ADDR
         /\ p \in Pipes => WidthAt(g, p, n).RX_PW[p] = n
<1>1. CASE p \in Pipes
  <2> DEFINE x == [g EXCEPT !.RX_PW[p] = n]
  <2>1. x \in RegMaps
    BY <1>1, ZenonT(60) DEF RegMaps
  <2>2. SameFlags(g, x) /\ x.SETUP_AW = g.SETUP_AW /\ x.ADDR = g.ADDR /\ x.RX_PW[p] = n
    BY <1>1 DEF SameFlags, RegMaps
  <2> QED
    BY <1>1, <2>1, <2>2 DEF WidthAt
<1>2. CASE p \notin Pipes /\ p = HAL_NRF_ALL
  <2> DEFINE x == [g EXCEPT !.ADDR[HAL_NRF_TX] = WidthByte]
  <2>1. HAL_NRF_TX \in TxOrPipe
    BY DEF TxOrPipe
  <2>2. x \in RegMaps
    BY <2>1, ZenonT(60) DEF RegMaps
  <2>3. SameFlags(g, x) /\ x.SETUP_AW = g.SETUP_AW
    BY DEF SameFlags, RegMaps
  <2> QED
    BY <1>2, <2>2, <2>3 DEF WidthAt
<1>3. CASE p \notin Pipes /\ p # HAL_NRF_ALL
  BY <1>3 DEF WidthAt, SameFlags
<1> QED
  BY <1>1, <1>2, <1>3

LEMMA RxPayloadWidthStep ==
  ASSUME CallTypeOK, NEW a \in AnyPipe \X PlWidths,
         Call("set_rx_payload_width", a, set_rx_payload_width(Start, a))
  PROVE  StepOK
<1> DEFINE x == WidthAt(regs, a[1], a[2])
<1>1. x \in RegMaps /\ SameFlags(regs, x) /\ (a[1] \in Pipes => x.RX_PW[a[1]] = a[2])
  BY WidthAtTyped DEF CallTypeOK
<1>2. \A u \in set_rx_payload_width(Start, a) : Sent1(Start, u, x) \/ Lost1(Start, u, x)
  BY SentAs, StartIs DEF set_rx_payload_width
<1> HIDE DEF x
<1>3. /\ CallTypeOK' /\ ErrorsTold' /\ OthersKeptStep
      /\ NothingLostStep /\ AcceptedRightStep
      /\ UNCHANGED <<hndl, files, doubtful, hal, group>>
      /\ done'.call = "set_rx_payload_width" /\ done'.arg = a /\ (~errno' => regs' = x)
  BY <1>1, <1>2, QuietCall DEF DataNames
<1>4. AsAsked'
  BY <1>1, <1>3 DEF AsAsked, Kept, get_rx_payload_width
<1> QED
  BY <1>3, <1>4 DEF StepOK

LEMMA AddressWidthStep ==
  ASSUME CallTypeOK, NEW n \in 3..5, Call("set_address_width", n, set_address_width(Start, n))
  PROVE  StepOK
<1> DEFINE m == (n - 2) % 4
           x == [regs EXCEPT !["SETUP_AW"] = m]
<1>1. m = n - 2 /\ m \in 0..3
  OBVIOUS
<1> HIDE DEF m
<1>11. m \in 0..3
  BY <1>1
<1>12. x \in RegMaps
  BY <1>11, ZenonT(60) DEF CallTypeOK, RegMaps
<1>13. SameFlags(regs, x) /\ x.SETUP_AW = m
  BY DEF CallTypeOK, SameFlags, RegMaps
<1>2. x \in RegMaps /\ SameFlags(regs, x) /\ x.SETUP_AW = n - 2
  BY <1>1, <1>12, <1>13
<1>3. \A u \in set_address_width(Start, n) : Sent1(Start, u, x) \/ Lost1(Start, u, x)
  BY SentAs, StartIs DEF set_address_width, Write, m
<1> HIDE DEF x
<1>4. /\ CallTypeOK' /\ ErrorsTold' /\ OthersKeptStep
      /\ NothingLostStep /\ AcceptedRightStep
      /\ UNCHANGED <<hndl, files, doubtful, hal, group>>
      /\ done'.call = "set_address_width" /\ done'.arg = n /\ (~errno' => regs' = x)
  BY <1>2, <1>3, QuietCall DEF DataNames
<1>5. AsAsked'
  BY <1>2, <1>4 DEF AsAsked, Kept, get_address_width
<1> QED
  BY <1>4, <1>5 DEF StepOK

-----------------------------------------------------------------------------
(***************************************************************************)
(* The output power, whose read is not checked: if it fails, the rest of   *)
(* the register is written from garbage.                                   *)
(***************************************************************************)

PowerBits == {"RF_PWR0", "RF_PWR1"}
WithPower(S, n) ==
  (S \ PowerBits) \cup Only(n % 2 = 1, "RF_PWR0") \cup Only(n \div 2 = 1, "RF_PWR1")
PowerOf(S) == (IF "RF_PWR0" \in S THEN 1 ELSE 0) + (IF "RF_PWR1" \in S THEN 2 ELSE 0)

\* The power is read back as it was written, and no other bit changes.
LEMMA PowerInverse ==
  ASSUME NEW n \in 0..3, NEW S
  PROVE  /\ PowerOf(WithPower(S, n)) = n
         /\ Differ(S, WithPower(S, n)) \subseteq PowerBits
         /\ S \subseteq RF_SETUP_BITS => WithPower(S, n) \subseteq RF_SETUP_BITS
<1>1. ("RF_PWR0" \in WithPower(S, n)) <=> (n % 2 = 1)
  BY DEF WithPower, PowerBits, Only
<1>2. ("RF_PWR1" \in WithPower(S, n)) <=> (n \div 2 = 1)
  BY DEF WithPower, PowerBits, Only
<1>3. PowerOf(WithPower(S, n)) = n
  <2>1. CASE n = 0
    BY <1>1, <1>2, <2>1 DEF PowerOf
  <2>2. CASE n = 1
    BY <1>1, <1>2, <2>2 DEF PowerOf
  <2>3. CASE n = 2
    BY <1>1, <1>2, <2>3 DEF PowerOf
  <2>4. CASE n = 3
    BY <1>1, <1>2, <2>4 DEF PowerOf
  <2> QED
    BY <2>1, <2>2, <2>3, <2>4
<1>4. Differ(S, WithPower(S, n)) \subseteq PowerBits
  BY DEF WithPower, PowerBits, Only, Differ
<1>5. S \subseteq RF_SETUP_BITS => WithPower(S, n) \subseteq RF_SETUP_BITS
  BY DEF WithPower, PowerBits, Only, RF_SETUP_BITS
<1> QED
  BY <1>3, <1>4, <1>5

\* What hal_nrf_set_output_power() leaves of the registers of t.
PowerSet(t, n, u) ==
  /\ IsCall(u) /\ u.regs \in RegMaps /\ u.err \in BOOLEAN /\ u.failed \in BOOLEAN
  /\ u.failed = FALSE => t.failed = FALSE
  /\ u.regs.RF_SETUP # t.regs.RF_SETUP \/ u.err = FALSE => PowerOf(u.regs.RF_SETUP) = n
  /\ u.failed = FALSE => Differ(t.regs.RF_SETUP, u.regs.RF_SETUP) \subseteq PowerBits
  /\ u.failed = FALSE => u.err = FALSE
  /\ u.regs = [t.regs EXCEPT !["RF_SETUP"] = u.regs.RF_SETUP]

LEMMA OutputPower ==
  ASSUME NEW t, IsCall(t), t.regs \in RegMaps, t.failed \in BOOLEAN, NEW n \in 0..3,
         NEW u \in set_output_power(t, n)
  PROVE  PowerSet(t, n, u)
<1>1. PICK v \in Transfer(t, t.regs) :
        u \in IF v.err THEN UNION {Write(v, "RF_SETUP", WithPower(g, n)) : g \in Garbage["RF_SETUP"]}
              ELSE Write(v, "RF_SETUP", WithPower(v.regs["RF_SETUP"], n))
  BY DEF set_output_power, ReadUnchecked, WithPower, PowerBits
<1>2. IsCall(v) /\ (Sent1(t, v, t.regs) \/ Lost1(t, v, t.regs))
  BY Transferred
<1>3. v.regs = t.regs /\ (v.err = TRUE \/ (v.err = FALSE /\ v.failed = t.failed))
  BY <1>2 DEF Sent1, Lost1
<1>4. v.err = TRUE => v.failed = TRUE
  BY <1>2 DEF Sent1, Lost1
<1>5. PICK S \in SUBSET RF_SETUP_BITS :
        /\ u \in Write(v, "RF_SETUP", WithPower(S, n))
        /\ v.err = FALSE => S = t.regs.RF_SETUP
  <2>1. CASE v.err = TRUE
    <3>1. PICK g \in Garbage["RF_SETUP"] : u \in Write(v, "RF_SETUP", WithPower(g, n))
      BY <1>1, <2>1
    <3>2. g \in SUBSET RF_SETUP_BITS
      BY DEF Garbage
    <3> QED
      BY <2>1, <3>1, <3>2
  <2>2. CASE v.err = FALSE
    <3>1. t.regs.RF_SETUP \in SUBSET RF_SETUP_BITS
      BY DEF RegMaps
    <3>2. u \in Write(v, "RF_SETUP", WithPower(t.regs.RF_SETUP, n))
      BY <1>1, <1>3, <2>2
    <3> QED
      BY <3>1, <3>2
  <2> QED
    BY <1>3, <2>1, <2>2
<1> DEFINE W == WithPower(S, n)
           x == [t.regs EXCEPT !["RF_SETUP"] = W]
<1>6. PowerOf(W) = n /\ Differ(S, W) \subseteq PowerBits /\ W \subseteq RF_SETUP_BITS
  BY <1>5, PowerInverse
<1> HIDE DEF W
<1>7. IsCall(u) /\ (Sent1(v, u, x) \/ Lost1(v, u, x))
  BY <1>2, <1>3, <1>5, Written DEF W
<1>8. x \in RegMaps /\ x.RF_SETUP = W /\ x = [t.regs EXCEPT !["RF_SETUP"] = x.RF_SETUP]
  BY <1>6, ZenonT(60) DEF RegMaps
<1>9. t.regs = [t.regs EXCEPT !["RF_SETUP"] = t.regs.RF_SETUP]
  BY DEF RegMaps
<1> HIDE DEF x
<1>10. CASE Sent1(v, u, x)
  <2>1. u.err = FALSE /\ u.failed = v.failed /\ u.regs = x
    BY <1>10 DEF Sent1
  <2>2. u.failed = FALSE => v.err = FALSE /\ t.failed = FALSE
    BY <1>3, <1>4, <2>1
  <2>3. u.failed \in BOOLEAN
    BY <1>3, <1>4, <2>1
  <2> QED
    BY <1>3, <1>5, <1>6, <1>7, <1>8, <2>1, <2>2, <2>3 DEF PowerSet
<1>11. CASE Lost1(v, u, x)
  <2>1. u.err = TRUE /\ u.failed = TRUE
    BY <1>11 DEF Lost1
  <2>2. u.regs = x \/ u.regs = t.regs
    BY <1>3, <1>11 DEF Lost1
  <2> QED
    BY <1>6, <1>7, <1>8, <1>9, <2>1, <2>2 DEF PowerSet
<1> QED
  BY <1>7, <1>10, <1>11

LEMMA OutputPowerStep ==
  ASSUME CallTypeOK, NEW n \in 0..3, Call("set_output_power", n, set_output_power(Start, n))
  PROVE  StepOK
<1> DEFINE T == set_output_power(Start, n)
<1>1. \A u \in T : PowerSet(Start, n, u)
  BY StartIs, OutputPower DEF CallTypeOK
<1>2. \A u \in T : Typed(u) /\ Told("set_output_power", u)
  BY <1>1 DEF PowerSet, Typed, Told, Careless
<1>3. ASSUME NEW u \in T
      PROVE  Alone("set_output_power", n, u)
  <2>1. CASE u.failed
    BY <2>1 DEF Alone
  <2>2. CASE ~u.failed
    <3>1. u.failed = FALSE
      BY <1>1, <2>2 DEF PowerSet
    <3>2. /\ Differ(regs.RF_SETUP, u.regs.RF_SETUP) \subseteq PowerBits
          /\ u.regs = [regs EXCEPT !["RF_SETUP"] = u.regs.RF_SETUP]
      BY <1>1, <3>1, StartIs DEF PowerSet
    <3> DEFINE R == u.regs.RF_SETUP
    <3> HIDE DEF R
    <3>3. u.regs = [regs EXCEPT !["RF_SETUP"] = R]
      BY <3>2 DEF R
    <3>4. /\ u.regs.CONFIG = regs.CONFIG /\ u.regs.FEATURE = regs.FEATURE
          /\ u.regs.EN_RXADDR = regs.EN_RXADDR /\ u.regs.EN_AA = regs.EN_AA
      BY <3>3 DEF CallTypeOK, RegMaps
    <3>5. Differ(BitsOf(regs), BitsOf(u.regs)) \subseteq PowerBits
      BY <3>2, <3>4 DEF Differ, BitsOf
    <3>6. Differ(PipeBitsOf(regs), PipeBitsOf(u.regs)) = {}
      BY <3>4 DEF Differ, PipeBitsOf
    <3>7. PowerBits = About("set_output_power", n)
      BY DEF About, PowerBits
    <3> QED
      BY <3>5, <3>6, <3>7 DEF Alone
  <2> QED
    BY <2>1, <2>2
<1> HIDE DEF T
<1>4. Call("set_output_power", n, T)
  BY DEF T
<1>5. /\ CallTypeOK' /\ ErrorsTold' /\ OthersKeptStep /\ AcceptedRightStep
      /\ UNCHANGED <<hndl, files, doubtful, hal, group>>
      /\ done'.call = "set_output_power" /\ done'.arg = n
      /\ \E u \in T : /\ regs' = u.regs /\ errno' = u.err
                      /\ done'.failed = u.failed /\ done'.ret = u.ret
  BY <1>2, <1>3, <1>4, Concluded
<1>6. PICK u \in T : regs' = u.regs /\ errno' = u.err
  BY <1>5
<1>7. ~errno' => PowerOf(regs'.RF_SETUP) = n
  BY <1>1, <1>6 DEF PowerSet
<1>8. AsAsked'
  BY <1>5, <1>7 DEF AsAsked, Kept, get_output_power, PowerOf
<1>9. NothingLostStep
  BY <1>5 DEF NothingLostStep
<1> QED
  BY <1>5, <1>8, <1>9 DEF StepOK

\* Every outcome of hal_nrf_save_ctx() that counts all fields reports no
\* error, and the other way round.
LEMMA SaveCtxStep ==
  ASSUME CallTypeOK, Call("save_ctx", "none", save_ctx(Start))
  PROVE  StepOK
<1>1. ASSUME NEW u \in save_ctx(Start)
      PROVE  /\ u.regs = regs
             /\ \/ u.err = TRUE /\ u.failed = TRUE
                \/ u.err = FALSE /\ u.failed = FALSE /\ u.ret = {CtxSize}
  <2>1. CASE \E n \in 0..CtxSize - 1 : u = [Bad(Start) EXCEPT !.ret = {n}]
    <3>1. PICK n \in 0..CtxSize - 1 : u = [Bad(Start) EXCEPT !.ret = {n}]
      BY <2>1
    <3>2. IsCall(Bad(Start)) /\ Bad(Start).err = TRUE /\ Bad(Start).failed = TRUE /\ Bad(Start).regs = regs
      BY StartIs, Marks
    <3> QED
      BY <3>1, <3>2, WithFields
  <2>2. CASE u = [Good(Start) EXCEPT !.ret = {CtxSize}]
    <3>1. /\ IsCall(Good(Start)) /\ Good(Start).err = FALSE /\ Good(Start).failed = FALSE
          /\ Good(Start).regs = regs
      BY StartIs, Marks
    <3> QED
      BY <2>2, <3>1, WithFields
  <2> QED
    BY <2>1, <2>2 DEF save_ctx
<1>2. \A u \in save_ctx(Start) : Typed(u) /\ Told("save_ctx", u)
  BY <1>1 DEF Typed, Told, CallTypeOK
<1>3. \A u \in save_ctx(Start) : Alone("save_ctx", "none", u)
  BY <1>1, FlagsAlone DEF SameFlags
<1>4. /\ CallTypeOK' /\ ErrorsTold' /\ OthersKeptStep /\ AcceptedRightStep
      /\ UNCHANGED <<hndl, files, doubtful, hal, group>>
      /\ done'.call = "save_ctx" /\ done'.arg = "none"
      /\ \E u \in save_ctx(Start) : /\ regs' = u.regs /\ errno' = u.err
                                    /\ done'.failed = u.failed /\ done'.ret = u.ret
  BY <1>2, <1>3, Concluded
<1>5. ~errno' => done'.ret = {CtxSize}
  BY <1>1, <1>4
<1>6. AsAsked'
  BY <1>4, <1>5 DEF AsAsked, Kept
<1>7. NothingLostStep
  BY <1>4 DEF NothingLostStep
<1> QED
  BY <1>4, <1>6, <1>7 DEF StepOK

-----------------------------------------------------------------------------
(***************************************************************************)
(* Pipes: two registers read, then written one after the other.            *)
(***************************************************************************)

SameButPipes(g, h) ==
  /\ h.CONFIG = g.CONFIG /\ h.FEATURE = g.FEATURE /\ h.RF_SETUP = g.RF_SETUP
  /\ h.SETUP_AW = g.SETUP_AW /\ h.SETUP_RETR = g.SETUP_RETR
  /\ h.RX_PW = g.RX_PW /\ h.ADDR = g.ADDR

\* What WritePipes leaves of the registers of t: each of the two as it was or
\* as it should be, and without an error both as they should be.
PipesLeft(t, p, rx, aa, u) ==
  /\ IsCall(u) /\ u.regs \in RegMaps /\ SameButPipes(t.regs, u.regs)
  /\ u.regs.EN_RXADDR \in {t.regs.EN_RXADDR, rx} /\ u.regs.EN_AA \in {t.regs.EN_AA, aa}
  /\ \/ /\ u.err = FALSE /\ u.failed = t.failed
        /\ p # HAL_NRF_TX => u.regs.EN_RXADDR = rx /\ u.regs.EN_AA = aa
     \/ u.err = TRUE /\ u.failed = TRUE

LEMMA PipeTyped ==
  ASSUME NEW g \in RegMaps, NEW S \in SUBSET Pipes
  PROVE  /\ [g EXCEPT !["EN_RXADDR"] = S] \in RegMaps
         /\ [g EXCEPT !["EN_RXADDR"] = S].EN_RXADDR = S
         /\ [g EXCEPT !["EN_RXADDR"] = S].EN_AA = g.EN_AA
         /\ SameButPipes(g, [g EXCEPT !["EN_RXADDR"] = S])
         /\ [g EXCEPT !["EN_AA"] = S] \in RegMaps
         /\ [g EXCEPT !["EN_AA"] = S].EN_AA = S
         /\ [g EXCEPT !["EN_AA"] = S].EN_RXADDR = g.EN_RXADDR
         /\ SameButPipes(g, [g EXCEPT !["EN_AA"] = S])
<1>1. [g EXCEPT !["EN_RXADDR"] = S] \in RegMaps
  BY ZenonT(60) DEF RegMaps
<1>4. [g EXCEPT !["EN_AA"] = S] \in RegMaps
  BY ZenonT(60) DEF RegMaps
<1>2. /\ [g EXCEPT !["EN_RXADDR"] = S].EN_RXADDR = S
      /\ [g EXCEPT !["EN_RXADDR"] = S].EN_AA = g.EN_AA
      /\ SameButPipes(g, [g EXCEPT !["EN_RXADDR"] = S])
  BY DEF RegMaps, SameButPipes
<1>3. /\ [g EXCEPT !["EN_AA"] = S].EN_AA = S
      /\ [g EXCEPT !["EN_AA"] = S].EN_RXADDR = g.EN_RXADDR
      /\ SameButPipes(g, [g EXCEPT !["EN_AA"] = S])
  BY DEF RegMaps, SameButPipes
<1> QED
  BY <1>1, <1>2, <1>3, <1>4

LEMMA PipesWritten ==
  ASSUME NEW t, IsCall(t), t.regs \in RegMaps, NEW p, NEW rx \in SUBSET Pipes,
         NEW aa \in SUBSET Pipes, NEW u \in WritePipes(t, p, rx, aa)
  PROVE  PipesLeft(t, p, rx, aa, u)
<1>1. PICK v \in Transfer(t, t.regs) :
        u \in IF v.err THEN {v}
              ELSE Read(v, LAMBDA w :
                     IF p = HAL_NRF_TX THEN {w}
                     ELSE IfSent(Write(w, "EN_RXADDR", rx), LAMBDA x : Write(x, "EN_AA", aa)))
  BY DEF WritePipes, Read, IfSent
<1>2. IsCall(v) /\ (Sent1(t, v, t.regs) \/ Lost1(t, v, t.regs))
  BY Transferred
<1>3. v.regs = t.regs
  BY <1>2 DEF Sent1, Lost1
<1>4. SameButPipes(t.regs, t.regs)
  BY DEF SameButPipes
<1>5. CASE Lost1(t, v, t.regs)
  <2>1. u = v /\ u.err = TRUE /\ u.failed = TRUE
    BY <1>1, <1>5 DEF Lost1
  <2> QED
    BY <1>2, <1>3, <1>4, <2>1 DEF PipesLeft
<1>6. CASE Sent1(t, v, t.regs)
  <2>1. v.err = FALSE /\ v.failed = t.failed
    BY <1>6 DEF Sent1
  <2>2. PICK w \in Transfer(v, v.regs) :
          u \in IF w.err THEN {w}
                ELSE IF p = HAL_NRF_TX THEN {w}
                ELSE IfSent(Write(w, "EN_RXADDR", rx), LAMBDA x : Write(x, "EN_AA", aa))
    BY <1>1, <2>1 DEF Read, IfSent
  <2>3. IsCall(w) /\ (Sent1(v, w, v.regs) \/ Lost1(v, w, v.regs))
    BY <1>2, Transferred
  <2>4. w.regs = t.regs
    BY <1>3, <2>3 DEF Sent1, Lost1
  <2>5. CASE Lost1(v, w, v.regs)
    <3>1. u = w /\ u.err = TRUE /\ u.failed = TRUE
      BY <2>2, <2>5 DEF Lost1
    <3> QED
      BY <1>4, <2>3, <2>4, <3>1 DEF PipesLeft
  <2>6. CASE Sent1(v, w, v.regs) /\ p = HAL_NRF_TX
    <3>1. u = w /\ u.err = FALSE /\ u.failed = t.failed
      BY <2>1, <2>2, <2>6 DEF Sent1
    <3> QED
      BY <1>4, <2>3, <2>4, <2>6, <3>1 DEF PipesLeft
  <2>7. CASE Sent1(v, w, v.regs) /\ p # HAL_NRF_TX
    <3>1. w.err = FALSE /\ w.failed = t.failed
      BY <2>1, <2>7 DEF Sent1
    <3> DEFINE g == [t.regs EXCEPT !["EN_RXADDR"] = rx]
               h == [g EXCEPT !["EN_AA"] = aa]
    <3>2. g \in RegMaps /\ g.EN_RXADDR = rx /\ g.EN_AA = t.regs.EN_AA /\ SameButPipes(t.regs, g)
      BY PipeTyped
    <3>3. PICK x \in Write(w, "EN_RXADDR", rx) :
            u \in IF x.err THEN {x} ELSE Write(x, "EN_AA", aa)
      BY <2>2, <2>7, <3>1 DEF IfSent
    <3>4. IsCall(x) /\ (Sent1(w, x, g) \/ Lost1(w, x, g))
      BY <2>3, <2>4, <3>3, Written
    <3> HIDE DEF g
    <3>5. h \in RegMaps /\ h.EN_RXADDR = rx /\ h.EN_AA = aa /\ SameButPipes(g, h)
      BY <3>2, PipeTyped
    <3>6. SameButPipes(t.regs, h)
      BY <3>2, <3>5 DEF SameButPipes
    <3>7. CASE Lost1(w, x, g)
      <4>1. u = x /\ u.err = TRUE /\ u.failed = TRUE /\ (u.regs = g \/ u.regs = t.regs)
        BY <2>4, <3>3, <3>7 DEF Lost1
      <4> QED
        BY <1>4, <3>2, <3>4, <4>1 DEF PipesLeft
    <3>8. CASE Sent1(w, x, g)
      <4>1. x.err = FALSE /\ x.failed = t.failed /\ x.regs = g
        BY <3>1, <3>8 DEF Sent1
      <4>2. u \in Write(x, "EN_AA", aa)
        BY <3>3, <4>1
      <4>3. IsCall(u) /\ (Sent1(x, u, h) \/ Lost1(x, u, h))
        BY <3>4, <4>1, <4>2, Written
      <4> HIDE DEF h
      <4>4. CASE Sent1(x, u, h)
        <5>1. u.err = FALSE /\ u.failed = t.failed /\ u.regs = h
          BY <4>1, <4>4 DEF Sent1
        <5> QED
          BY <3>5, <3>6, <4>3, <5>1 DEF PipesLeft
      <4>5. CASE Lost1(x, u, h)
        <5>1. u.err = TRUE /\ u.failed = TRUE /\ (u.regs = h \/ u.regs = g)
          BY <4>1, <4>5 DEF Lost1
        <5> QED
          BY <3>2, <3>5, <3>6, <4>3, <5>1 DEF PipesLeft
      <4> QED
        BY <4>3, <4>4, <4>5
    <3> QED
      BY <3>4, <3>7, <3>8
  <2> QED
    BY <2>3, <2>5, <2>6, <2>7
<1> QED
  BY <1>2, <1>5, <1>6

\* The pipes of PipeBits that differ are those of the two registers.
LEMMA PipesDiffer ==
  ASSUME NEW g, NEW N,
         g.CONFIG = regs.CONFIG, g.FEATURE = regs.FEATURE, g.RF_SETUP = regs.RF_SETUP,
         Differ(regs.EN_RXADDR, g.EN_RXADDR) \subseteq N, Differ(regs.EN_AA, g.EN_AA) \subseteq N
  PROVE  /\ Differ(BitsOf(regs), BitsOf(g)) = {}
         /\ {x[1] : x \in Differ(PipeBitsOf(regs), PipeBitsOf(g))} \subseteq N
<1>1. Differ(BitsOf(regs), BitsOf(g)) = {}
  BY DEF Differ, BitsOf
<1>2. ASSUME NEW x \in Differ(PipeBitsOf(regs), PipeBitsOf(g))
      PROVE  x[1] \in N
  <2>1. x \in PipeBitsOf(regs) \cup PipeBitsOf(g)
    BY DEF Differ
  <2>2. \/ x[2] = "EN_RXADDR" /\ x = <<x[1], "EN_RXADDR">>
        \/ x[2] = "EN_AA" /\ x = <<x[1], "EN_AA">>
    BY <2>1 DEF PipeBitsOf
  <2>3. CASE x[2] = "EN_RXADDR" /\ x = <<x[1], "EN_RXADDR">>
    <3>1. \A G : (<<x[1], "EN_RXADDR">> \in PipeBitsOf(G)) <=> (x[1] \in G.EN_RXADDR)
      BY DEF PipeBitsOf
    <3>2. x[1] \in Differ(regs.EN_RXADDR, g.EN_RXADDR)
      BY <2>3, <3>1 DEF Differ
    <3> QED
      BY <3>2
  <2>4. CASE x[2] = "EN_AA" /\ x = <<x[1], "EN_AA">>
    <3>1. \A G : (<<x[1], "EN_AA">> \in PipeBitsOf(G)) <=> (x[1] \in G.EN_AA)
      BY DEF PipeBitsOf
    <3>2. x[1] \in Differ(regs.EN_AA, g.EN_AA)
      BY <2>4, <3>1 DEF Differ
    <3> QED
      BY <3>2
  <2> QED
    BY <2>2, <2>3, <2>4
<1> QED
  BY <1>1, <1>2

\* hal_nrf_open_pipe() of a pipe, of all of them or of none.
LEMMA PipeOpened ==
  ASSUME NEW t, IsCall(t), t.regs \in RegMaps, NEW p, NEW b \in BOOLEAN,
         NEW u \in open_pipe(t, <<p, b>>)
  PROVE  LET rx == t.regs.EN_RXADDR \cup Named(p)
             aa == IF b THEN t.regs.EN_AA \cup Named(p) ELSE t.regs.EN_AA \ Named(p)
         IN  /\ rx \in SUBSET Pipes /\ aa \in SUBSET Pipes
             /\ PipesLeft(t, p, rx, aa, u)
             /\ Differ(t.regs.EN_RXADDR, u.regs.EN_RXADDR) \subseteq Named(p)
             /\ Differ(t.regs.EN_AA, u.regs.EN_AA) \subseteq Named(p)
<1> DEFINE rx == t.regs.EN_RXADDR \cup Named(p)
           aa == IF b THEN t.regs.EN_AA \cup Named(p) ELSE t.regs.EN_AA \ Named(p)
<1>1. rx \in SUBSET Pipes /\ aa \in SUBSET Pipes
  BY DEF RegMaps, Named
<1>2. u \in WritePipes(t, p, rx, aa)
  BY DEF open_pipe
<1>3. Differ(t.regs.EN_RXADDR, rx) \subseteq Named(p) /\ Differ(t.regs.EN_AA, aa) \subseteq Named(p)
  BY DEF Differ
<1>4. \A S : Differ(S, S) = {}
  BY DEF Differ
<1> HIDE DEF rx, aa
<1>5. PipesLeft(t, p, rx, aa, u)
  BY <1>1, <1>2, PipesWritten
<1>6. u.regs.EN_RXADDR \in {t.regs.EN_RXADDR, rx} /\ u.regs.EN_AA \in {t.regs.EN_AA, aa}
  BY <1>5 DEF PipesLeft
<1>7. /\ Differ(t.regs.EN_RXADDR, u.regs.EN_RXADDR) \subseteq Named(p)
      /\ Differ(t.regs.EN_AA, u.regs.EN_AA) \subseteq Named(p)
  BY <1>3, <1>4, <1>6
<1> QED
  BY <1>1, <1>5, <1>7 DEF rx, aa

\* Nothing is named by HAL_NRF_TX.
LEMMA TxIsNoPipe == HAL_NRF_TX \notin Pipes /\ HAL_NRF_ALL \notin Pipes /\ Named(HAL_NRF_TX) = {}
BY PipesAssumption DEF HAL_NRF_TX, HAL_NRF_ALL, Named

LEMMA OpenPipeStep ==
  ASSUME CallTypeOK, NEW a \in AnyPipe \X BOOLEAN,
         Call("open_pipe", a, open_pipe(Start, a))
  PROVE  StepOK
<1> DEFINE T == open_pipe(Start, a)
           rx == regs.EN_RXADDR \cup Named(a[1])
           aa == IF a[2] THEN regs.EN_AA \cup Named(a[1]) ELSE regs.EN_AA \ Named(a[1])
<1>1. a = <<a[1], a[2]>> /\ a[2] \in BOOLEAN
  OBVIOUS
<1>2. ASSUME NEW u \in T
      PROVE  /\ PipesLeft(Start, a[1], rx, aa, u)
             /\ Differ(regs.EN_RXADDR, u.regs.EN_RXADDR) \subseteq Named(a[1])
             /\ Differ(regs.EN_AA, u.regs.EN_AA) \subseteq Named(a[1])
  <2>1. u \in open_pipe(Start, <<a[1], a[2]>>)
    BY <1>1
  <2> QED
    BY <1>1, <2>1, StartIs, PipeOpened DEF CallTypeOK
<1>3. \A p \in Named(a[1]) : p \in rx /\ (p \in aa <=> a[2] = TRUE)
  BY <1>1
<1> HIDE DEF T, rx, aa
<1>4. Call("open_pipe", a, T)
  BY DEF T
<1>5. ASSUME NEW u \in T
      PROVE  /\ Typed(u) /\ Told("open_pipe", u) /\ Alone("open_pipe", a, u)
             /\ u.err = FALSE => \A p \in Named(a[1]) : p \in u.regs.EN_RXADDR /\ (p \in u.regs.EN_AA <=> a[2] = TRUE)
  <2>1. PipesLeft(Start, a[1], rx, aa, u)
    BY <1>2
  <2>2. \/ u.err = FALSE /\ u.failed = FALSE
        \/ u.err = TRUE /\ u.failed = TRUE
    BY <2>1, StartIs, Zenon DEF PipesLeft
  <2>3. u.regs \in RegMaps
    BY <2>1 DEF PipesLeft
  <2>4. Typed(u) /\ Told("open_pipe", u)
    BY <2>2, <2>3, Zenon DEF Typed, Told
  <2>5. u.regs.CONFIG = regs.CONFIG /\ u.regs.FEATURE = regs.FEATURE /\ u.regs.RF_SETUP = regs.RF_SETUP
    BY <2>1, StartIs DEF PipesLeft, SameButPipes
  <2>6. AboutPipes("open_pipe", a) = Named(a[1])
    BY DEF AboutPipes
  <2>7. Alone("open_pipe", a, u)
    BY <1>2, <2>5, <2>6, PipesDiffer DEF Alone
  <2>8. ASSUME u.err = FALSE, NEW p \in Named(a[1])
        PROVE  p \in u.regs.EN_RXADDR /\ (p \in u.regs.EN_AA <=> a[2] = TRUE)
    <3>1. a[1] # HAL_NRF_TX
      BY TxIsNoPipe
    <3>2. u.regs.EN_RXADDR = rx /\ u.regs.EN_AA = aa
      BY <2>1, <2>8, <3>1 DEF PipesLeft
    <3> QED
      BY <1>3, <3>2
  <2> QED
    BY <2>4, <2>7, <2>8
<1>6. /\ CallTypeOK' /\ ErrorsTold' /\ OthersKeptStep /\ AcceptedRightStep
      /\ UNCHANGED <<hndl, files, doubtful, hal, group>>
      /\ done'.call = "open_pipe" /\ done'.arg = a
      /\ \E u \in T : /\ regs' = u.regs /\ errno' = u.err
                      /\ done'.failed = u.failed /\ done'.ret = u.ret
  BY <1>4, <1>5, Concluded
<1>7. PICK u \in T : regs' = u.regs /\ errno' = u.err
  BY <1>6
<1>8. ASSUME ~errno', NEW p \in Named(a[1])
      PROVE  <<p \in regs'.EN_RXADDR, p \in regs'.EN_AA>> = <<TRUE, a[2]>>
  <2>1. u.err = FALSE
    BY <1>5, <1>7, <1>8 DEF Typed
  <2>2. p \in regs'.EN_RXADDR /\ (p \in regs'.EN_AA <=> a[2] = TRUE)
    BY <1>5, <1>7, <2>1
  <2>3. (p \in regs'.EN_RXADDR) = TRUE /\ (p \in regs'.EN_AA) = a[2]
    BY <1>1, <2>2
  <2> QED
    BY <2>3, Zenon
<1>9. AsAsked'
  BY <1>6, <1>8 DEF AsAsked, Kept, get_pipe_status
<1>10. NothingLostStep
  BY <1>6 DEF NothingLostStep
<1> QED
  BY <1>6, <1>9, <1>10 DEF StepOK

LEMMA ClosePipeStep ==
  ASSUME CallTypeOK, NEW p \in AnyPipe,
         Call("close_pipe", p, close_pipe(Start, p))
  PROVE  StepOK
<1> DEFINE T == close_pipe(Start, p)
           rx == regs.EN_RXADDR \ Named(p)
           aa == regs.EN_AA \ Named(p)
<1>1. /\ rx \in SUBSET Pipes /\ aa \in SUBSET Pipes
      /\ Differ(regs.EN_RXADDR, rx) \subseteq Named(p) /\ Differ(regs.EN_AA, aa) \subseteq Named(p)
  BY DEF CallTypeOK, RegMaps, Named, Differ
<1>2. \A u \in T : u \in WritePipes(Start, p, rx, aa)
  BY StartIs DEF close_pipe
<1>3. \A q \in Named(p) : q \notin rx /\ q \notin aa
  OBVIOUS
<1> HIDE DEF T, rx, aa
<1>4. \A u \in T : PipesLeft(Start, p, rx, aa, u)
  BY <1>1, <1>2, StartIs, PipesWritten DEF CallTypeOK
<1>5. Call("close_pipe", p, T)
  BY DEF T
<1>6. ASSUME NEW u \in T
      PROVE  /\ Typed(u) /\ Told("close_pipe", u) /\ Alone("close_pipe", p, u)
             /\ u.err = FALSE => \A q \in Named(p) : q \notin u.regs.EN_RXADDR /\ q \notin u.regs.EN_AA
  <2>1. PipesLeft(Start, p, rx, aa, u)
    BY <1>4
  <2>2. \/ u.err = FALSE /\ u.failed = FALSE
        \/ u.err = TRUE /\ u.failed = TRUE
    BY <2>1, StartIs, Zenon DEF PipesLeft
  <2>3. u.regs \in RegMaps
    BY <2>1 DEF PipesLeft
  <2>4. Typed(u) /\ Told("close_pipe", u)
    BY <2>2, <2>3, Zenon DEF Typed, Told
  <2>5. u.regs.CONFIG = regs.CONFIG /\ u.regs.FEATURE = regs.FEATURE /\ u.regs.RF_SETUP = regs.RF_SETUP
    BY <2>1, StartIs DEF PipesLeft, SameButPipes
  <2>6. AboutPipes("close_pipe", p) = Named(p)
    BY DEF AboutPipes
  <2>7. u.regs.EN_RXADDR \in {regs.EN_RXADDR, rx} /\ u.regs.EN_AA \in {regs.EN_AA, aa}
    BY <2>1, StartIs DEF PipesLeft
  <2>8. /\ Differ(regs.EN_RXADDR, u.regs.EN_RXADDR) \subseteq Named(p)
        /\ Differ(regs.EN_AA, u.regs.EN_AA) \subseteq Named(p)
    BY <1>1, <2>7 DEF Differ
  <2>9. Alone("close_pipe", p, u)
    BY <2>5, <2>6, <2>8, PipesDiffer DEF Alone
  <2>10. ASSUME u.err = FALSE, NEW q \in Named(p)
         PROVE  q \notin u.regs.EN_RXADDR /\ q \notin u.regs.EN_AA
    <3>1. p # HAL_NRF_TX
      BY TxIsNoPipe
    <3>2. u.regs.EN_RXADDR = rx /\ u.regs.EN_AA = aa
      BY <2>1, <2>10, <3>1 DEF PipesLeft
    <3> QED
      BY <1>3, <3>2
  <2> QED
    BY <2>4, <2>9, <2>10
<1>7. /\ CallTypeOK' /\ ErrorsTold' /\ OthersKeptStep /\ AcceptedRightStep
      /\ UNCHANGED <<hndl, files, doubtful, hal, group>>
      /\ done'.call = "close_pipe" /\ done'.arg = p
      /\ \E u \in T : /\ regs' = u.regs /\ errno' = u.err
                      /\ done'.failed = u.failed /\ done'.ret = u.ret
  BY <1>5, <1>6, Concluded
<1>8. PICK u \in T : regs' = u.regs /\ errno' = u.err
  BY <1>7
<1>9. ASSUME ~errno', NEW q \in Named(p)
      PROVE  <<q \in regs'.EN_RXADDR, q \in regs'.EN_AA>> = <<FALSE, FALSE>>
  <2>1. u.err = FALSE
    BY <1>6, <1>8, <1>9 DEF Typed
  <2>2. q \notin regs'.EN_RXADDR /\ q \notin regs'.EN_AA
    BY <1>6, <1>8, <2>1
  <2>3. (q \in regs'.EN_RXADDR) = FALSE /\ (q \in regs'.EN_AA) = FALSE
    BY <2>2
  <2> QED
    BY <2>3, Zenon
<1>10. AsAsked'
  BY <1>7, <1>9 DEF AsAsked, Kept, get_pipe_status
<1>11. NothingLostStep
  BY <1>7 DEF NothingLostStep
<1> QED
  BY <1>7, <1>10, <1>11 DEF StepOK

-----------------------------------------------------------------------------
(***************************************************************************)
(* Addresses.                                                              *)
(***************************************************************************)

SameButAddr(g, h) ==
  /\ h.CONFIG = g.CONFIG /\ h.FEATURE = g.FEATURE /\ h.RF_SETUP = g.RF_SETUP
  /\ h.EN_RXADDR = g.EN_RXADDR /\ h.EN_AA = g.EN_AA
  /\ h.SETUP_AW = g.SETUP_AW /\ h.SETUP_RETR = g.SETUP_RETR /\ h.RX_PW = g.RX_PW

\* Addressed, of the registers g
HasAddress(g, p, x) ==
  /\ p \in FullWidth => g.ADDR[p] = <<x, g.SETUP_AW + 2>>
  /\ p \in 2..5 => g.ADDR[p] = <<x, 1>>

\* What a write of an address of p, or none, leaves of the call t.
AddrKept(t, p, u) ==
  /\ IsCall(u) /\ u.regs \in RegMaps /\ SameButAddr(t.regs, u.regs)
  /\ u.err \in BOOLEAN /\ u.failed \in BOOLEAN
  /\ u.failed = FALSE => t.failed = FALSE
  /\ \A q \in TxOrPipe \ {p} : u.regs.ADDR[q] = t.regs.ADDR[q]

\* What hal_nrf_set_address() leaves of it: a failed read of the width may be
\* hidden by the write after it, and only then the address is not whole.
AddrSet(t, p, x, u) == AddrKept(t, p, u) /\ (u.failed = FALSE => HasAddress(u.regs, p, x))

WithAddr(g, p, y) == [g EXCEPT !.ADDR[p] = y]
AddrWritten(g, p, y, h) ==
  /\ h \in RegMaps /\ SameButAddr(g, h) /\ h.ADDR[p] = y
  /\ \A q \in TxOrPipe \ {p} : h.ADDR[q] = g.ADDR[q]

LEMMA AddrTyped ==
  ASSUME NEW g \in RegMaps, NEW p \in TxOrPipe, NEW x \in Addrs, NEW w \in 1..5
  PROVE  AddrWritten(g, p, <<x, w>>, WithAddr(g, p, <<x, w>>))
<1> DEFINE y == <<x, w>>
           h == WithAddr(g, p, y)
<1>1. y \in Addrs \X (1..5)
  OBVIOUS
<1> HIDE DEF y
<1>2. h \in RegMaps
  BY <1>1, ZenonT(60) DEF WithAddr, RegMaps
<1>3. SameButAddr(g, h)
  BY DEF WithAddr, RegMaps, SameButAddr
<1>4. h.ADDR[p] = y /\ \A q \in TxOrPipe \ {p} : h.ADDR[q] = g.ADDR[q]
  BY DEF WithAddr, RegMaps
<1> QED
  BY <1>2, <1>3, <1>4 DEF y, AddrWritten

\* One transfer of w bytes of x: they are there unless it failed.
LEMMA AddrTransfer ==
  ASSUME NEW t, IsCall(t), t.regs \in RegMaps, t.failed \in BOOLEAN,
         NEW p \in TxOrPipe, NEW x \in Addrs, NEW w \in 1..5,
         NEW u \in Transfer(t, WithAddr(t.regs, p, <<x, w>>))
  PROVE  AddrKept(t, p, u) /\ (u.failed = FALSE => u.regs.ADDR[p] = <<x, w>>)
<1> DEFINE y == <<x, w>>
           h == WithAddr(t.regs, p, y)
<1>1. AddrWritten(t.regs, p, y, h)
  BY AddrTyped
<1>2. IsCall(u) /\ (Sent1(t, u, h) \/ Lost1(t, u, h))
  BY Transferred
<1>3. SameButAddr(t.regs, t.regs)
  BY DEF SameButAddr
<1> HIDE DEF y, h
<1>4. CASE Sent1(t, u, h)
  <2>1. u.regs.ADDR[p] = y
    BY <1>1, <1>4 DEF Sent1, AddrWritten
  <2>2. AddrKept(t, p, u)
    BY <1>1, <1>2, <1>4 DEF AddrKept, Sent1, AddrWritten
  <2> QED
    BY <2>1, <2>2 DEF y
<1>5. CASE Lost1(t, u, h)
  <2>1. u.err = TRUE /\ u.failed = TRUE /\ (u.regs = h \/ u.regs = t.regs)
    BY <1>5 DEF Lost1
  <2> QED
    BY <1>1, <1>2, <1>3, <2>1 DEF AddrKept, AddrWritten
<1> QED
  BY <1>2, <1>4, <1>5

\* A transfer that has failed before, of a width nobody read: any number of
\* bytes, and the rest as it was.
LEMMA AddrGuessed ==
  ASSUME NEW t, IsCall(t), t.regs \in RegMaps, t.failed = TRUE, t.err = TRUE,
         NEW p \in TxOrPipe, NEW x \in Addrs, NEW n \in 0..255,
         NEW u \in WriteAddress(t, p, x, n)
  PROVE  AddrKept(t, p, u) /\ u.failed = TRUE
<1>1. SameButAddr(t.regs, t.regs)
  BY DEF SameButAddr
<1>2. CASE n > NRF_MAX_PL
  <2> DEFINE o == {"overrun"}
             v == [t EXCEPT !.ret = o]
  <2>1. u = v
    BY <1>2 DEF WriteAddress
  <2> HIDE DEF o
  <2>2. IsCall(v)
    BY DEF IsCall, Fields
  <2>3. v.regs = t.regs /\ v.err = t.err /\ v.failed = t.failed
    BY DEF IsCall, Fields
  <2> HIDE DEF v
  <2> QED
    BY <1>1, <2>1, <2>2, <2>3 DEF AddrKept
<1>3. CASE ~(n > NRF_MAX_PL) /\ n = 0
  <2>1. u \in Transfer(t, t.regs)
    BY <1>3 DEF WriteAddress
  <2>2. IsCall(u) /\ (Sent1(t, u, t.regs) \/ Lost1(t, u, t.regs))
    BY <2>1, Transferred
  <2>3. u.regs = t.regs /\ u.err \in BOOLEAN /\ u.failed = TRUE
    BY <2>2 DEF Sent1, Lost1
  <2> QED
    BY <1>1, <2>2, <2>3 DEF AddrKept
<1>4. CASE ~(n > NRF_MAX_PL) /\ n # 0
  <2> DEFINE w == IF n < 5 THEN n ELSE 5
  <2>1. w \in 1..5
    BY <1>4
  <2>2. u \in Transfer(t, WithAddr(t.regs, p, <<x, w>>))
    BY <1>4 DEF WriteAddress, WithAddr
  <2> HIDE DEF w
  <2>3. AddrKept(t, p, u)
    BY <2>1, <2>2, AddrTransfer
  <2>4. Sent1(t, u, WithAddr(t.regs, p, <<x, w>>)) \/ Lost1(t, u, WithAddr(t.regs, p, <<x, w>>))
    BY <2>2, Transferred
  <2>5. u.failed = TRUE
    BY <2>4 DEF Sent1, Lost1
  <2> QED
    BY <2>3, <2>5
<1> QED
  BY <1>2, <1>3, <1>4

LEMMA AddressSet ==
  ASSUME NEW t, IsCall(t), t.regs \in RegMaps, t.failed \in BOOLEAN, t.err \in BOOLEAN,
         NEW a \in AnyPipe \X Addrs, NEW u \in set_address(t, a)
  PROVE  AddrSet(t, a[1], a[2], u)
<1>1. CASE a[1] \in FullWidth
  <2>1. a[1] \notin 2..5 /\ a[1] \in TxOrPipe /\ a[2] \in Addrs
    BY <1>1 DEF FullWidth, HAL_NRF_TX, HAL_NRF_ALL, AnyPipe
  <2>2. u \in ReadUnchecked(t, "SETUP_AW", LAMBDA v, n : WriteAddress(v, a[1], a[2], (n + 2) % 256))
    BY <1>1, <2>1, Zenon DEF set_address
  <2>3. PICK v \in Transfer(t, t.regs) :
          u \in IF v.err THEN UNION {WriteAddress(v, a[1], a[2], (n + 2) % 256) : n \in Garbage["SETUP_AW"]}
                ELSE WriteAddress(v, a[1], a[2], (v.regs["SETUP_AW"] + 2) % 256)
    BY <2>2 DEF ReadUnchecked
  <2>4. IsCall(v) /\ (Sent1(t, v, t.regs) \/ Lost1(t, v, t.regs))
    BY Transferred
  <2>5. v.regs = t.regs /\ v.failed \in BOOLEAN /\ (v.failed = FALSE => t.failed = FALSE)
    BY <2>4 DEF Sent1, Lost1
  <2>6. CASE Lost1(t, v, t.regs)
    <3>1. v.err = TRUE /\ v.failed = TRUE
      BY <2>6 DEF Lost1
    <3>2. PICK n \in 0..255 : u \in WriteAddress(v, a[1], a[2], (n + 2) % 256)
      BY <2>3, <3>1, ValuesAssumption DEF Garbage
    <3>3. (n + 2) % 256 \in 0..255
      BY <3>2
    <3>4. AddrKept(v, a[1], u) /\ u.failed = TRUE
      BY <2>1, <2>4, <2>5, <3>1, <3>2, <3>3, AddrGuessed
    <3> QED
      BY <2>5, <3>4 DEF AddrSet, AddrKept
  <2>7. CASE Sent1(t, v, t.regs)
    <3>1. v.err = FALSE /\ t.regs.SETUP_AW \in 0..3
      BY <2>7 DEF Sent1, RegMaps
    <3> DEFINE w == t.regs.SETUP_AW + 2
    <3>2. w \in 1..5 /\ w % 256 = w /\ (IF w < 5 THEN w ELSE 5) = w /\ w # 0 /\ ~(w > 32)
      BY <3>1
    <3>3. u \in WriteAddress(v, a[1], a[2], w)
      BY <2>3, <2>5, <3>1, <3>2
    <3> HIDE DEF w
    <3>4. u \in Transfer(v, WithAddr(v.regs, a[1], <<a[2], w>>))
      BY <3>2, <3>3 DEF WriteAddress, WithAddr, NRF_MAX_PL
    <3>5. AddrKept(v, a[1], u) /\ (u.failed = FALSE => u.regs.ADDR[a[1]] = <<a[2], w>>)
      <4>1. v.regs \in RegMaps /\ w \in 1..5
        BY <2>5, <3>2
      <4> DEFINE p == a[1]
                 x == a[2]
      <4>2. p \in TxOrPipe /\ x \in Addrs /\ u \in Transfer(v, WithAddr(v.regs, p, <<x, w>>))
        BY <2>1, <3>4
      <4> HIDE DEF p, x
      <4>3. AddrKept(v, p, u) /\ (u.failed = FALSE => u.regs.ADDR[p] = <<x, w>>)
        BY <2>4, <2>5, <4>1, <4>2, AddrTransfer
      <4> QED
        BY <4>3 DEF p, x
    <3>6. u.regs.SETUP_AW = t.regs.SETUP_AW
      BY <2>5, <3>5 DEF AddrKept, SameButAddr
    <3>7. AddrKept(t, a[1], u)
      BY <2>5, <3>5 DEF AddrKept
    <3> QED
      BY <2>1, <3>5, <3>6, <3>7 DEF AddrSet, HasAddress, w
  <2> QED
    BY <2>4, <2>6, <2>7
<1>2. CASE a[1] \in 2..5
  <2>1. a[1] \notin FullWidth
    BY <1>2 DEF FullWidth, HAL_NRF_TX
  <2>2. u \in Transfer(t, WithAddr(t.regs, a[1], <<a[2], 1>>))
    BY <1>2, <2>1 DEF set_address, WithAddr
  <2>3. a[1] \in TxOrPipe /\ a[2] \in Addrs
    BY <1>2 DEF HAL_NRF_ALL, AnyPipe
  <2>4. 1 \in 1..5
    OBVIOUS
  <2>5. AddrKept(t, a[1], u) /\ (u.failed = FALSE => u.regs.ADDR[a[1]] = <<a[2], 1>>)
    BY <2>2, <2>3, <2>4, AddrTransfer
  <2> QED
    BY <2>1, <2>5 DEF AddrSet, HasAddress
<1>3. CASE a[1] \notin FullWidth /\ a[1] \notin 2..5
  <2>1. u \in {t}
    BY <1>3, Zenon DEF set_address
  <2>2. SameButAddr(t.regs, t.regs)
    BY DEF SameButAddr
  <2> QED
    BY <1>3, <2>1, <2>2 DEF AddrSet, AddrKept, HasAddress
<1> QED
  BY <1>1, <1>2, <1>3

\* The same of the calls that are given an address or none.
AddrGiven(t, p, x, u) ==
  AddrKept(t, p, u) /\ (x # NULL /\ u.failed = FALSE => HasAddress(u.regs, p, x))

LEMMA AddressGiven ==
  ASSUME NEW t, IsCall(t), t.regs \in RegMaps, t.failed \in BOOLEAN, t.err \in BOOLEAN,
         NEW p \in AnyPipe, NEW x \in AddrOrNull, NEW u \in GivenAddress(t, p, x)
  PROVE  AddrGiven(t, p, x, u)
<1>1. CASE x = NULL
  <2>1. u = t
    BY <1>1 DEF GivenAddress
  <2>2. SameButAddr(t.regs, t.regs)
    BY DEF SameButAddr
  <2> QED
    BY <1>1, <2>1, <2>2 DEF AddrGiven, AddrKept
<1>2. CASE x # NULL
  <2> DEFINE a == <<p, x>>
  <2>1. a \in AnyPipe \X Addrs /\ a[1] = p /\ a[2] = x
    BY <1>2 DEF AddrOrNull
  <2>2. u \in set_address(t, a)
    BY <1>2 DEF GivenAddress
  <2> HIDE DEF a
  <2>3. AddrSet(t, a[1], a[2], u)
    BY <2>1, <2>2, AddressSet
  <2> QED
    BY <2>1, <2>3 DEF AddrSet, AddrGiven
<1> QED
  BY <1>1, <1>2

LEMMA SetAddressStep ==
  ASSUME CallTypeOK, NEW a \in AnyPipe \X Addrs,
         Call("set_address", a, set_address(Start, a))
  PROVE  StepOK
<1>1. \A u \in set_address(Start, a) : AddrSet(Start, a[1], a[2], u)
  BY StartIs, AddressSet DEF CallTypeOK
<1>2. ASSUME NEW u \in set_address(Start, a)
      PROVE  Typed(u) /\ Told("set_address", u) /\ Alone("set_address", a, u)
  <2>1. AddrKept(Start, a[1], u)
    BY <1>1 DEF AddrSet
  <2>2. Typed(u) /\ Told("set_address", u)
    BY <2>1 DEF AddrKept, Typed, Told, Careless
  <2>3. SameFlags(regs, u.regs)
    BY <2>1, StartIs DEF AddrKept, SameButAddr, SameFlags
  <2> QED
    BY <2>2, <2>3, FlagsAlone
<1>3. /\ CallTypeOK' /\ ErrorsTold' /\ OthersKeptStep /\ AcceptedRightStep
      /\ UNCHANGED <<hndl, files, doubtful, hal, group>>
      /\ done'.call = "set_address" /\ done'.arg = a
      /\ \E u \in set_address(Start, a) : /\ regs' = u.regs /\ errno' = u.err
                                          /\ done'.failed = u.failed /\ done'.ret = u.ret
  BY <1>2, Concluded
<1>4. done'.failed \in BOOLEAN /\ (done'.failed = FALSE => HasAddress(regs', a[1], a[2]))
  BY <1>1, <1>3 DEF AddrSet, AddrKept
<1>5. AsAsked'
  BY <1>3, <1>4 DEF AsAsked, Kept, Addressed, HasAddress, get_address_width
<1>6. NothingLostStep
  BY <1>3 DEF NothingLostStep
<1> QED
  BY <1>3, <1>5, <1>6 DEF StepOK

LEMMA GetAddressStep ==
  ASSUME CallTypeOK, NEW p \in TxOrPipe, Call("get_address", p, get_address(Start, p))
  PROVE  StepOK
<1>1. ASSUME NEW u \in get_address(Start, p)
      PROVE  Sent1(Start, u, regs) \/ Lost1(Start, u, regs)
  <2>1. CASE p \in FullWidth
    <3>1. PICK v \in Transfer(Start, Start.regs) : u \in IF v.err THEN {v} ELSE Transfer(v, v.regs)
      BY <2>1 DEF get_address, Read, IfSent
    <3>2. IsCall(v) /\ (Sent1(Start, v, regs) \/ Lost1(Start, v, regs))
      BY StartIs, Transferred
    <3>3. CASE Lost1(Start, v, regs)
      BY <3>1, <3>3 DEF Lost1
    <3>4. CASE Sent1(Start, v, regs)
      <4>1. v.err = FALSE /\ v.regs = regs /\ v.failed = Start.failed
        BY <3>4 DEF Sent1
      <4>2. Sent1(v, u, regs) \/ Lost1(v, u, regs)
        BY <3>1, <3>2, <4>1, Transferred
      <4> QED
        BY <4>1, <4>2, StartIs DEF Sent1, Lost1
    <3> QED
      BY <3>2, <3>3, <3>4
  <2>2. CASE p \notin FullWidth
    BY <2>2, StartIs, Transferred DEF get_address
  <2> QED
    BY <2>1, <2>2
<1>2. regs \in RegMaps /\ SameFlags(regs, regs)
  BY DEF CallTypeOK, SameFlags
<1>3. "get_address" \notin DataNames
  BY DEF DataNames
<1>4. /\ CallTypeOK' /\ ErrorsTold' /\ OthersKeptStep
      /\ NothingLostStep /\ AcceptedRightStep
      /\ UNCHANGED <<hndl, files, doubtful, hal, group>>
      /\ done'.call = "get_address"
  BY <1>1, <1>2, <1>3, QuietCall
<1>5. AsAsked'
  BY <1>4 DEF AsAsked, Kept
<1> QED
  BY <1>4, <1>5 DEF StepOK

-----------------------------------------------------------------------------
(***************************************************************************)
(* The calls that configure a pipe or the transmitter: several of the      *)
(* calls above, one after the other as long as none reports an error.      *)
(***************************************************************************)

\* What hal_nrf_set_rx_payload_width() leaves of the call t.
WidthSet(t, p, n, u) ==
  /\ u.regs \in RegMaps /\ u.err \in BOOLEAN /\ u.failed \in BOOLEAN
  /\ SameFlags(t.regs, u.regs) /\ u.regs.SETUP_AW = t.regs.SETUP_AW
  /\ u.failed = FALSE => t.failed = FALSE
  /\ p # HAL_NRF_ALL => u.regs.ADDR = t.regs.ADDR
  /\ u.err = FALSE /\ p \in Pipes => u.regs.RX_PW[p] = n

LEMMA PayloadWidth ==
  ASSUME NEW t, IsCall(t), t.regs \in RegMaps, t.failed \in BOOLEAN,
         NEW p, NEW n \in PlWidths, NEW u \in set_rx_payload_width(t, <<p, n>>)
  PROVE  WidthSet(t, p, n, u)
<1> DEFINE x == WidthAt(t.regs, p, n)
<1>1. /\ x \in RegMaps /\ SameFlags(t.regs, x) /\ x.SETUP_AW = t.regs.SETUP_AW
      /\ p # HAL_NRF_ALL => x.ADDR = t.regs.ADDR
      /\ p \in Pipes => x.RX_PW[p] = n
  BY WidthAtTyped
<1>2. SameFlags(t.regs, t.regs)
  BY DEF SameFlags
<1>3. u \in Transfer(t, x)
  BY DEF set_rx_payload_width
<1> HIDE DEF x
<1>4. Sent1(t, u, x) \/ Lost1(t, u, x)
  BY <1>3, Transferred
<1> QED
  BY <1>1, <1>2, <1>4 DEF WidthSet, Sent1, Lost1

\* What the chain of hal_nrf_config_rx_pipe() leaves of the registers.
RxPipeLeft(p, x, b, n, u) ==
  /\ u.regs \in RegMaps /\ u.err \in BOOLEAN /\ u.failed \in BOOLEAN
  /\ u.regs.CONFIG = regs.CONFIG /\ u.regs.FEATURE = regs.FEATURE
  /\ u.regs.RF_SETUP = regs.RF_SETUP
  /\ Differ(regs.EN_RXADDR, u.regs.EN_RXADDR) \subseteq Named(p)
  /\ Differ(regs.EN_AA, u.regs.EN_AA) \subseteq Named(p)
  /\ u.err = FALSE =>
       /\ \A q \in Named(p) : q \in u.regs.EN_RXADDR /\ (q \in u.regs.EN_AA <=> b = TRUE)
       /\ p \in Pipes => u.regs.RX_PW[p] = n
       /\ x # NULL /\ u.failed = FALSE => HasAddress(u.regs, p, x)

LEMMA RxPipeConfigured ==
  ASSUME CallTypeOK, NEW p \in AnyPipe, NEW x \in AddrOrNull, NEW b \in BOOLEAN, NEW n \in PlWidths,
         NEW u \in config_rx_pipe(Start, <<p, x, b, n>>)
  PROVE  RxPipeLeft(p, x, b, n, u)
<1>1. PICK v \in open_pipe(Start, <<p, b>>) :
        u \in IF v.err THEN {v}
              ELSE IfSent(GivenAddress(v, p, x), LAMBDA w : set_rx_payload_width(w, <<p, n>>))
  BY DEF config_rx_pipe, IfSent
<1> DEFINE rx == regs.EN_RXADDR \cup Named(p)
           aa == IF b THEN regs.EN_AA \cup Named(p) ELSE regs.EN_AA \ Named(p)
<1>3. /\ PipesLeft(Start, p, rx, aa, v)
      /\ Differ(regs.EN_RXADDR, v.regs.EN_RXADDR) \subseteq Named(p)
      /\ Differ(regs.EN_AA, v.regs.EN_AA) \subseteq Named(p)
  BY StartIs, PipeOpened DEF CallTypeOK
<1>4. \A q \in Named(p) : q \in rx /\ (q \in aa <=> b = TRUE)
  OBVIOUS
<1> HIDE DEF rx, aa
<1>5. /\ IsCall(v) /\ v.regs \in RegMaps /\ v.err \in BOOLEAN /\ v.failed \in BOOLEAN
      /\ v.regs.CONFIG = regs.CONFIG /\ v.regs.FEATURE = regs.FEATURE
      /\ v.regs.RF_SETUP = regs.RF_SETUP
  BY <1>3, StartIs DEF PipesLeft, SameButPipes
<1>6. v.err = FALSE => \A q \in Named(p) : q \in v.regs.EN_RXADDR /\ (q \in v.regs.EN_AA <=> b = TRUE)
  <2>1. p = HAL_NRF_TX => Named(p) = {}
    BY TxIsNoPipe
  <2> QED
    BY <1>3, <1>4, <2>1 DEF PipesLeft
<1>7. CASE v.err = TRUE
  BY <1>1, <1>3, <1>5, <1>7 DEF RxPipeLeft
<1>8. CASE v.err = FALSE
  <2>1. PICK w \in GivenAddress(v, p, x) :
          u \in IF w.err THEN {w} ELSE set_rx_payload_width(w, <<p, n>>)
    BY <1>1, <1>8 DEF IfSent
  <2>3. AddrGiven(v, p, x, w)
    BY <1>5, <2>1, AddressGiven
  <2>4. /\ IsCall(w) /\ w.regs \in RegMaps /\ w.err \in BOOLEAN /\ w.failed \in BOOLEAN
        /\ w.regs.CONFIG = regs.CONFIG /\ w.regs.FEATURE = regs.FEATURE
        /\ w.regs.RF_SETUP = regs.RF_SETUP
        /\ w.regs.EN_RXADDR = v.regs.EN_RXADDR /\ w.regs.EN_AA = v.regs.EN_AA
    BY <1>5, <2>3 DEF AddrGiven, AddrKept, SameButAddr
  <2>5. CASE w.err = TRUE
    BY <1>3, <2>1, <2>4, <2>5 DEF RxPipeLeft
  <2>6. CASE w.err = FALSE
    <3>2. u \in set_rx_payload_width(w, <<p, n>>)
      BY <2>1, <2>6
    <3>3. WidthSet(w, p, n, u)
      BY <2>4, <3>2, PayloadWidth
    <3>4. ASSUME x # NULL, u.failed = FALSE
          PROVE  HasAddress(u.regs, p, x)
      <4>1. HasAddress(w.regs, p, x)
        BY <2>3, <3>3, <3>4 DEF AddrGiven, WidthSet
      <4>2. p = HAL_NRF_ALL => p \notin FullWidth /\ p \notin 2..5
        BY DEF HAL_NRF_ALL, HAL_NRF_TX, FullWidth
      <4> QED
        BY <3>3, <4>1, <4>2 DEF HasAddress, WidthSet
    <3> QED
      BY <1>3, <1>6, <1>8, <2>4, <3>3, <3>4 DEF RxPipeLeft, WidthSet, SameFlags
  <2> QED
    BY <2>4, <2>5, <2>6
<1> QED
  BY <1>5, <1>7, <1>8

LEMMA ConfigRxPipeStep ==
  ASSUME CallTypeOK, NEW p \in AnyPipe, NEW x \in AddrOrNull, NEW b \in BOOLEAN, NEW n \in PlWidths,
         Call("config_rx_pipe", <<p, x, b, n>>, config_rx_pipe(Start, <<p, x, b, n>>))
  PROVE  StepOK
<1> DEFINE a == <<p, x, b, n>>
           T == config_rx_pipe(Start, a)
<1>1. \A u \in T : RxPipeLeft(p, x, b, n, u)
  BY RxPipeConfigured
<1>2. a[1] = p /\ a[2] = x /\ a[3] = b /\ a[4] = n
  OBVIOUS
<1> HIDE DEF a
<1>3. Call("config_rx_pipe", a, T)
  BY DEF a
<1> HIDE DEF T
<1>4. ASSUME NEW u \in T
      PROVE  Typed(u) /\ Told("config_rx_pipe", u) /\ Alone("config_rx_pipe", a, u)
  <2>1. RxPipeLeft(p, x, b, n, u)
    BY <1>1
  <2>2. Typed(u) /\ Told("config_rx_pipe", u)
    BY <2>1 DEF RxPipeLeft, Typed, Told, Careless
  <2>3. AboutPipes("config_rx_pipe", a) = Named(p)
    BY <1>2 DEF AboutPipes
  <2>4. Alone("config_rx_pipe", a, u)
    BY <2>1, <2>3, PipesDiffer DEF RxPipeLeft, Alone
  <2> QED
    BY <2>2, <2>4
<1>5. /\ CallTypeOK' /\ ErrorsTold' /\ OthersKeptStep /\ AcceptedRightStep
      /\ UNCHANGED <<hndl, files, doubtful, hal, group>>
      /\ done'.call = "config_rx_pipe" /\ done'.arg = a
      /\ \E u \in T : /\ regs' = u.regs /\ errno' = u.err
                      /\ done'.failed = u.failed /\ done'.ret = u.ret
  BY <1>3, <1>4, Concluded
<1>6. PICK u \in T : regs' = u.regs /\ errno' = u.err /\ done'.failed = u.failed
  BY <1>5
<1>7. ASSUME ~errno'
      PROVE  /\ \A q \in Named(p) : <<q \in regs'.EN_RXADDR, q \in regs'.EN_AA>> = <<TRUE, b>>
             /\ p \in Pipes => regs'.RX_PW[p] = n
             /\ x # NULL /\ ~done'.failed => HasAddress(regs', p, x)
  <2>1. RxPipeLeft(p, x, b, n, u)
    BY <1>1
  <2>2. u.err = FALSE
    BY <1>6, <1>7, <2>1 DEF RxPipeLeft
  <2>3. /\ \A q \in Named(p) : q \in regs'.EN_RXADDR /\ (q \in regs'.EN_AA <=> b = TRUE)
        /\ p \in Pipes => regs'.RX_PW[p] = n
        /\ x # NULL /\ ~done'.failed => HasAddress(regs', p, x)
    BY <1>6, <2>1, <2>2 DEF RxPipeLeft
  <2>4. ASSUME NEW q \in Named(p)
        PROVE  <<q \in regs'.EN_RXADDR, q \in regs'.EN_AA>> = <<TRUE, b>>
    <3>1. (q \in regs'.EN_RXADDR) = TRUE /\ (q \in regs'.EN_AA) = b
      BY <2>3
    <3> QED
      BY <3>1, Zenon
  <2> QED
    BY <2>3, <2>4
<1>8. AsAsked'
  BY <1>2, <1>5, <1>7 DEF AsAsked, Kept, get_pipe_status, get_rx_payload_width, Addressed,
     HasAddress, get_address_width
<1>9. NothingLostStep
  BY <1>5 DEF NothingLostStep
<1> QED
  BY <1>5, <1>8, <1>9 DEF StepOK

\* What hal_nrf_set_auto_retr() leaves of the call t.
RetrSet(t, r, d, u) ==
  /\ IsCall(u) /\ Typed(u) /\ SameFlags(t.regs, u.regs) /\ u.regs.ADDR = t.regs.ADDR
  /\ u.failed = FALSE => t.failed = FALSE
  /\ u.err = FALSE => u.regs.SETUP_RETR[2] = r /\ (u.regs.SETUP_RETR[1] + 1) * 250 = d

LEMMA RetrTyped ==
  ASSUME NEW g \in RegMaps, NEW y \in (0..15) \X (0..15)
  PROVE  /\ [g EXCEPT !["SETUP_RETR"] = y] \in RegMaps
         /\ SameFlags(g, [g EXCEPT !["SETUP_RETR"] = y])
         /\ [g EXCEPT !["SETUP_RETR"] = y].ADDR = g.ADDR
         /\ [g EXCEPT !["SETUP_RETR"] = y].SETUP_RETR = y
<1>1. [g EXCEPT !["SETUP_RETR"] = y] \in RegMaps
  BY ZenonT(60) DEF RegMaps
<1>2. SameFlags(g, [g EXCEPT !["SETUP_RETR"] = y])
  BY DEF RegMaps, SameFlags
<1>3. /\ [g EXCEPT !["SETUP_RETR"] = y].ADDR = g.ADDR
      /\ [g EXCEPT !["SETUP_RETR"] = y].SETUP_RETR = y
  BY DEF RegMaps
<1> QED
  BY <1>1, <1>2, <1>3

LEMMA AutoRetr ==
  ASSUME NEW t, IsCall(t), t.regs \in RegMaps, t.failed \in BOOLEAN,
         NEW r \in Retries, NEW u \in set_auto_retr(t, <<r, 250>>)
  PROVE  RetrSet(t, r, 250, u)
<1> DEFINE y == <<0, r>>
           x == [t.regs EXCEPT !["SETUP_RETR"] = y]
<1>1. r \in 0..15 /\ r % 16 = r /\ (250 \div 256) % 16 = 0
  BY ValuesAssumption
<1>2. u \in Transfer(t, x)
  BY <1>1 DEF set_auto_retr, Write
<1>3. y \in (0..15) \X (0..15) /\ y[2] = r /\ (y[1] + 1) * 250 = 250
  BY <1>1
<1> HIDE DEF y
<1>4. x \in RegMaps /\ SameFlags(t.regs, x) /\ x.ADDR = t.regs.ADDR /\ x.SETUP_RETR = y
  BY <1>3, RetrTyped
<1>5. SameFlags(t.regs, t.regs)
  BY DEF SameFlags
<1> HIDE DEF x
<1>6. IsCall(u) /\ (Sent1(t, u, x) \/ Lost1(t, u, x))
  BY <1>2, Transferred
<1>7. /\ u.regs \in RegMaps /\ SameFlags(t.regs, u.regs) /\ u.regs.ADDR = t.regs.ADDR
      /\ u.failed = FALSE => t.failed = FALSE
      /\ u.err = FALSE => u.regs.SETUP_RETR = y
  BY <1>4, <1>5, <1>6 DEF Sent1, Lost1
<1>8. u.err \in BOOLEAN /\ u.failed \in BOOLEAN
  BY <1>6 DEF Sent1, Lost1
<1> QED
  BY <1>3, <1>6, <1>7, <1>8 DEF RetrSet, Typed

\* What hal_nrf_config_tx() keeps at each stage of its chain.
TxKeeps(u) ==
  /\ IsCall(u) /\ Typed(u)
  /\ u.failed = FALSE => /\ u.regs.CONFIG = regs.CONFIG /\ u.regs.FEATURE = regs.FEATURE
                         /\ Differ(regs.RF_SETUP, u.regs.RF_SETUP) \subseteq PowerBits
                         /\ Differ(regs.EN_RXADDR, u.regs.EN_RXADDR) \subseteq {0}
                         /\ Differ(regs.EN_AA, u.regs.EN_AA) \subseteq {0}

LEMMA KeepsOn ==
  ASSUME NEW v, NEW w, TxKeeps(v), IsCall(w), Typed(w), SameFlags(v.regs, w.regs),
         w.failed = FALSE => v.failed = FALSE
  PROVE  TxKeeps(w)
BY DEF TxKeeps, SameFlags

\* What it has set by then: nothing, the power, the retransmits, the address
\* it sends to, the address of pipe 0, and pipe 0 itself.
TxPower(n, u) == PowerOf(u.regs.RF_SETUP) = n
TxRetr(r, u) == u.regs.SETUP_RETR[2] = r /\ (u.regs.SETUP_RETR[1] + 1) * 250 = 250
TxAddr(x, u) == x # NULL /\ u.failed = FALSE => HasAddress(u.regs, HAL_NRF_TX, x)
TxAck(x, u) == x # NULL /\ u.failed = FALSE => HasAddress(u.regs, 0, x)
TxPipe(u) == 0 \in u.regs.EN_RXADDR /\ 0 \in u.regs.EN_AA

TxLeft(x, n, r, u) ==
  TxKeeps(u) /\ (u.err = FALSE => TxPower(n, u) /\ TxRetr(r, u) /\ TxAddr(x, u) /\ TxAck(x, u) /\ TxPipe(u))

LEMMA TxConfigured ==
  ASSUME CallTypeOK, 0 \in Pipes, NEW x \in AddrOrNull, NEW n \in {0, 3}, NEW r \in Retries,
         NEW u \in config_tx(Start, <<x, n, r, 250>>)
  PROVE  TxLeft(x, n, r, u)
<1>1. PICK v \in set_output_power(Start, n) :
        u \in IF v.err THEN {v}
              ELSE IfSent(set_auto_retr(v, <<r, 250>>), LAMBDA w :
                   IfSent(GivenAddress(w, HAL_NRF_TX, x), LAMBDA y :
                   IfSent(GivenAddress(y, 0, x), LAMBDA z : open_pipe(z, <<0, TRUE>>))))
  BY DEF config_tx, IfSent
<1>2. n \in 0..3
  OBVIOUS
<1>3. PowerSet(Start, n, v)
  BY <1>1, <1>2, StartIs, OutputPower DEF CallTypeOK
<1>4. TxKeeps(v)
  <2> DEFINE R == v.regs.RF_SETUP
  <2>1. v.regs = [regs EXCEPT !["RF_SETUP"] = R]
    BY <1>3, StartIs DEF PowerSet
  <2> HIDE DEF R
  <2>2. /\ v.regs.CONFIG = regs.CONFIG /\ v.regs.FEATURE = regs.FEATURE
        /\ v.regs.EN_RXADDR = regs.EN_RXADDR /\ v.regs.EN_AA = regs.EN_AA
    BY <2>1 DEF CallTypeOK, RegMaps
  <2>3. \A S : Differ(S, S) = {}
    BY DEF Differ
  <2> QED
    BY <1>3, <2>2, <2>3, StartIs DEF PowerSet, TxKeeps, Typed
<1>5. CASE v.err = TRUE
  BY <1>1, <1>4, <1>5 DEF TxLeft
<1>6. CASE v.err = FALSE
  <2>1. TxPower(n, v)
    BY <1>3, <1>6 DEF PowerSet, TxPower
  <2>2. PICK w \in set_auto_retr(v, <<r, 250>>) :
          u \in IF w.err THEN {w}
                ELSE IfSent(GivenAddress(w, HAL_NRF_TX, x), LAMBDA y :
                     IfSent(GivenAddress(y, 0, x), LAMBDA z : open_pipe(z, <<0, TRUE>>)))
    BY <1>1, <1>6 DEF IfSent
  <2>3. RetrSet(v, r, 250, w)
    BY <1>3, <2>2, AutoRetr DEF PowerSet
  <2>4. TxKeeps(w)
    BY <1>4, <2>3, KeepsOn DEF RetrSet
  <2>5. CASE w.err = TRUE
    BY <2>2, <2>4, <2>5 DEF TxLeft
  <2>6. CASE w.err = FALSE
    <3>1. TxPower(n, w) /\ TxRetr(r, w)
      BY <2>1, <2>3, <2>6 DEF RetrSet, TxPower, TxRetr, SameFlags
    <3>2. PICK y \in GivenAddress(w, HAL_NRF_TX, x) :
            u \in IF y.err THEN {y} ELSE IfSent(GivenAddress(y, 0, x), LAMBDA z : open_pipe(z, <<0, TRUE>>))
      BY <2>2, <2>6 DEF IfSent
    <3>3. AddrGiven(w, HAL_NRF_TX, x, y)
      BY <2>4, <3>2, AddressGiven DEF TxKeeps, Typed, AnyPipe, TxOrPipe
    <3>4. SameFlags(w.regs, y.regs) /\ y.regs.SETUP_RETR = w.regs.SETUP_RETR /\ IsCall(y) /\ Typed(y)
      BY <3>3 DEF AddrGiven, AddrKept, SameButAddr, SameFlags, Typed
    <3>5. TxKeeps(y)
      BY <2>4, <3>3, <3>4, KeepsOn DEF AddrGiven, AddrKept
    <3>6. CASE y.err = TRUE
      BY <3>2, <3>5, <3>6 DEF TxLeft
    <3>7. CASE y.err = FALSE
      <4>1. TxPower(n, y) /\ TxRetr(r, y)
        BY <3>1, <3>4 DEF TxPower, TxRetr, SameFlags
      <4>2. TxAddr(x, y)
        BY <3>3 DEF TxAddr, AddrGiven
      <4>3. PICK z \in GivenAddress(y, 0, x) : u \in IF z.err THEN {z} ELSE open_pipe(z, <<0, TRUE>>)
        BY <3>2, <3>7 DEF IfSent
      <4>4. AddrGiven(y, 0, x, z)
        BY <3>5, <4>3, AddressGiven DEF TxKeeps, Typed, AnyPipe, TxOrPipe
      <4>5. SameFlags(y.regs, z.regs) /\ z.regs.SETUP_RETR = y.regs.SETUP_RETR /\ IsCall(z) /\ Typed(z)
        BY <4>4 DEF AddrGiven, AddrKept, SameButAddr, SameFlags, Typed
      <4>6. TxKeeps(z)
        BY <3>5, <4>4, <4>5, KeepsOn DEF AddrGiven, AddrKept
      <4>7. CASE z.err = TRUE
        BY <4>3, <4>6, <4>7 DEF TxLeft
      <4>8. CASE z.err = FALSE
        <5>1. TxPower(n, z) /\ TxRetr(r, z)
          BY <4>1, <4>5 DEF TxPower, TxRetr, SameFlags
        <5>2. HAL_NRF_TX \in TxOrPipe \ {0} /\ 0 \in TxOrPipe
          BY DEF TxOrPipe, HAL_NRF_TX
        <5>3. TxAddr(x, z) /\ TxAck(x, z)
          <6>1. z.regs.ADDR[HAL_NRF_TX] = y.regs.ADDR[HAL_NRF_TX] /\ z.regs.SETUP_AW = y.regs.SETUP_AW
            BY <4>4, <5>2 DEF AddrGiven, AddrKept, SameButAddr
          <6>2. z.failed = FALSE => y.failed = FALSE
            BY <4>4 DEF AddrGiven, AddrKept
          <6>3. TxAddr(x, z)
            BY <4>2, <6>1, <6>2 DEF TxAddr, HasAddress, HAL_NRF_TX
          <6>4. TxAck(x, z)
            BY <4>4 DEF TxAck, AddrGiven
          <6> QED
            BY <6>3, <6>4
        <5>4. u \in open_pipe(z, <<0, TRUE>>)
          BY <4>3, <4>8
        <5> DEFINE rx == z.regs.EN_RXADDR \cup Named(0)
                   aa == IF TRUE THEN z.regs.EN_AA \cup Named(0) ELSE z.regs.EN_AA \ Named(0)
        <5>5. Named(0) = {0}
          BY DEF Named, HAL_NRF_ALL
        <5>6. /\ PipesLeft(z, 0, rx, aa, u)
              /\ Differ(z.regs.EN_RXADDR, u.regs.EN_RXADDR) \subseteq {0}
              /\ Differ(z.regs.EN_AA, u.regs.EN_AA) \subseteq {0}
          BY <4>6, <5>4, <5>5, PipeOpened DEF TxKeeps, Typed
        <5>7. 0 \in rx /\ 0 \in aa
          BY <5>5
        <5> HIDE DEF rx, aa
        <5>8. /\ IsCall(u) /\ u.regs \in RegMaps /\ SameButPipes(z.regs, u.regs)
              /\ \/ u.err = FALSE /\ u.failed = z.failed /\ TxPipe(u)
                 \/ u.err = TRUE /\ u.failed = TRUE
          BY <5>6, <5>7 DEF PipesLeft, TxPipe, HAL_NRF_TX
        <5>9. TxKeeps(u)
          <6>1. CASE u.err = FALSE /\ u.failed = z.failed
            <7>1. Typed(u)
              BY <4>5, <5>8, <6>1 DEF Typed
            <7>2. Differ(regs.EN_RXADDR, u.regs.EN_RXADDR)
                    \subseteq Differ(regs.EN_RXADDR, z.regs.EN_RXADDR) \cup Differ(z.regs.EN_RXADDR, u.regs.EN_RXADDR)
              BY DEF Differ
            <7>3. Differ(regs.EN_AA, u.regs.EN_AA)
                    \subseteq Differ(regs.EN_AA, z.regs.EN_AA) \cup Differ(z.regs.EN_AA, u.regs.EN_AA)
              BY DEF Differ
            <7> QED
              BY <4>6, <5>6, <5>8, <6>1, <7>1, <7>2, <7>3 DEF TxKeeps, SameButPipes
          <6>2. CASE u.err = TRUE /\ u.failed = TRUE
            BY <5>8, <6>2 DEF TxKeeps, Typed
          <6> QED
            BY <5>8, <6>1, <6>2
        <5>10. u.err = FALSE => TxPipe(u)
          BY <5>8
        <5> QED
          BY <5>1, <5>3, <5>8, <5>9, <5>10
             DEF TxLeft, TxPower, TxRetr, TxAddr, TxAck, SameButPipes, HasAddress
      <4> QED
        BY <4>5, <4>7, <4>8 DEF Typed
    <3> QED
      BY <3>4, <3>6, <3>7 DEF Typed
  <2> QED
    BY <2>4, <2>5, <2>6 DEF TxKeeps, Typed
<1> QED
  BY <1>4, <1>5, <1>6 DEF TxKeeps, Typed

LEMMA ConfigTxStep ==
  ASSUME CallTypeOK, 0 \in Pipes, NEW x \in AddrOrNull, NEW n \in {0, 3}, NEW r \in Retries,
         Call("config_tx", <<x, n, r, 250>>, config_tx(Start, <<x, n, r, 250>>))
  PROVE  StepOK
<1> DEFINE a == <<x, n, r, 250>>
           T == config_tx(Start, a)
<1>1. \A u \in T : TxLeft(x, n, r, u)
  BY TxConfigured
<1>2. a[1] = x /\ a[2] = n /\ a[3] = r /\ a[4] = 250
  OBVIOUS
<1> HIDE DEF a
<1>3. Call("config_tx", a, T)
  BY DEF a
<1> HIDE DEF T
<1>4. ASSUME NEW u \in T
      PROVE  Typed(u) /\ Told("config_tx", u) /\ Alone("config_tx", a, u)
  <2>1. TxKeeps(u)
    BY <1>1 DEF TxLeft
  <2>2. Typed(u) /\ Told("config_tx", u)
    BY <2>1 DEF TxKeeps, Told, Careless
  <2>3. AboutPipes("config_tx", a) = {0} /\ About("config_tx", a) = PowerBits
    BY DEF AboutPipes, About, PowerBits
  <2>4. CASE u.failed = TRUE
    <3>1. u.failed /\ "config_tx" \in {"set_output_power", "config_tx"}
      BY <2>4
    <3> QED
      BY <2>2, <3>1, Zenon DEF Alone
  <2>5. CASE u.failed = FALSE
    <3>1. /\ u.regs.CONFIG = regs.CONFIG /\ u.regs.FEATURE = regs.FEATURE
          /\ Differ(regs.RF_SETUP, u.regs.RF_SETUP) \subseteq PowerBits
          /\ Differ(regs.EN_RXADDR, u.regs.EN_RXADDR) \subseteq {0}
          /\ Differ(regs.EN_AA, u.regs.EN_AA) \subseteq {0}
      BY <2>1, <2>5 DEF TxKeeps
    <3>2. Differ(BitsOf(regs), BitsOf(u.regs)) \subseteq PowerBits
      BY <3>1 DEF Differ, BitsOf
    <3>3. {y[1] : y \in Differ(PipeBitsOf(regs), PipeBitsOf(u.regs))} \subseteq {0}
      <4> DEFINE g == [u.regs EXCEPT !["RF_SETUP"] = regs.RF_SETUP]
      <4>1. u.regs \in RegMaps
        BY <2>2 DEF Typed
      <4>2. /\ g.CONFIG = u.regs.CONFIG /\ g.FEATURE = u.regs.FEATURE /\ g.RF_SETUP = regs.RF_SETUP
            /\ g.EN_RXADDR = u.regs.EN_RXADDR /\ g.EN_AA = u.regs.EN_AA
        BY <4>1 DEF RegMaps
      <4> HIDE DEF g
      <4>3. PipeBitsOf(g) = PipeBitsOf(u.regs)
        BY <4>2 DEF PipeBitsOf
      <4> QED
        BY <3>1, <4>2, <4>3, PipesDiffer
    <3> QED
      BY <2>2, <2>3, <3>2, <3>3, Zenon DEF Alone
  <2> QED
    BY <2>2, <2>4, <2>5 DEF Typed
<1>5. /\ CallTypeOK' /\ ErrorsTold' /\ OthersKeptStep /\ AcceptedRightStep
      /\ UNCHANGED <<hndl, files, doubtful, hal, group>>
      /\ done'.call = "config_tx" /\ done'.arg = a
      /\ \E u \in T : /\ regs' = u.regs /\ errno' = u.err
                      /\ done'.failed = u.failed /\ done'.ret = u.ret
  BY <1>3, <1>4, Concluded
<1>6. PICK u \in T : regs' = u.regs /\ errno' = u.err /\ done'.failed = u.failed
  BY <1>5
<1>7. ASSUME ~errno'
      PROVE  /\ PowerOf(regs'.RF_SETUP) = n
             /\ regs'.SETUP_RETR[2] = r /\ (regs'.SETUP_RETR[1] + 1) * 250 = 250
             /\ x # NULL /\ ~done'.failed => HasAddress(regs', HAL_NRF_TX, x) /\ HasAddress(regs', 0, x)
             /\ <<0 \in regs'.EN_RXADDR, 0 \in regs'.EN_AA>> = <<TRUE, TRUE>>
  <2>1. TxLeft(x, n, r, u)
    BY <1>1
  <2>2. u.err = FALSE
    BY <1>6, <1>7, <2>1 DEF TxLeft, TxKeeps, Typed
  <2>3. TxPower(n, u) /\ TxRetr(r, u) /\ TxAddr(x, u) /\ TxAck(x, u) /\ TxPipe(u)
    BY <2>1, <2>2 DEF TxLeft
  <2>4. (0 \in regs'.EN_RXADDR) = TRUE /\ (0 \in regs'.EN_AA) = TRUE
    BY <1>6, <2>3 DEF TxPipe
  <2>5. <<0 \in regs'.EN_RXADDR, 0 \in regs'.EN_AA>> = <<TRUE, TRUE>>
    BY <2>4, Zenon
  <2>6. ~done'.failed => u.failed = FALSE
    BY <1>6, <2>1 DEF TxLeft, TxKeeps, Typed
  <2> QED
    BY <1>6, <2>3, <2>5, <2>6 DEF TxPower, TxRetr, TxAddr, TxAck
<1>8. AsAsked'
  BY <1>2, <1>5, <1>7, ZenonT(60) DEF AsAsked, Kept, get_output_power, PowerOf, get_auto_retr_ctr,
     get_auto_retr_delay, get_pipe_status, Addressed, HasAddress, get_address_width
<1>9. NothingLostStep
  BY <1>5 DEF NothingLostStep
<1> QED
  BY <1>5, <1>8, <1>9 DEF StepOK

-----------------------------------------------------------------------------
(***************************************************************************)
(* Status and data.                                                        *)
(***************************************************************************)

WithStatus(g, flags) == [g EXCEPT !.STATUS = @ \ flags]

LEMMA StatusTyped ==
  ASSUME NEW g \in RegMaps, NEW flags
  PROVE  /\ WithStatus(g, flags) \in RegMaps /\ SameFlags(g, WithStatus(g, flags))
         /\ WithStatus(g, flags).STATUS = g.STATUS \ flags /\ g.STATUS \subseteq IRQ_FLAGS
<1>1. g.STATUS \ flags \in SUBSET IRQ_FLAGS /\ g.STATUS \subseteq IRQ_FLAGS
  BY DEF RegMaps
<1> DEFINE S == g.STATUS \ flags
<1>2. WithStatus(g, flags) = [g EXCEPT !["STATUS"] = S]
  BY DEF WithStatus
<1> HIDE DEF S
<1>3. [g EXCEPT !["STATUS"] = S] \in RegMaps
  BY <1>1, ZenonT(60) DEF RegMaps, S
<1>4. SameFlags(g, [g EXCEPT !["STATUS"] = S]) /\ [g EXCEPT !["STATUS"] = S].STATUS = S
  BY DEF RegMaps, SameFlags
<1> QED
  BY <1>1, <1>2, <1>3, <1>4 DEF S

\* The old status is returned, whether the transfer failed or not.
LEMMA FlagsCleared ==
  ASSUME CallTypeOK, NEW flags, NEW u \in ClearFlags(Start, flags)
  PROVE  /\ IsCall(u) /\ u.ret = regs.STATUS
         /\ \/ Sent1(Start, u, WithStatus(regs, flags))
            \/ Lost1(Start, u, WithStatus(regs, flags))
<1> DEFINE t == [Start EXCEPT !.ret = Start.regs.STATUS]
<1>1. IsCall(t) /\ t.regs = regs /\ t.failed = Start.failed /\ t.ret = regs.STATUS
  <2>1. IsCall(t) /\ t.regs = Start.regs /\ t.failed = Start.failed /\ t.ret = Start.regs.STATUS
    <3> DEFINE R == Start.regs.STATUS
    <3> HIDE DEF R
    <3>1. [Start EXCEPT !.ret = R].failed = Start.failed
      BY StartIs, WithRetFailed, Zenon
    <3>2. /\ IsCall([Start EXCEPT !.ret = R]) /\ [Start EXCEPT !.ret = R].regs = Start.regs
          /\ [Start EXCEPT !.ret = R].ret = R
      BY StartIs, WithRet
    <3> QED
      BY <3>1, <3>2, Zenon DEF R
  <2> QED
    BY <2>1, StartIs, Zenon
<1>2. u \in Transfer(t, WithStatus(regs, flags))
  BY StartIs DEF ClearFlags, WithStatus
<1> HIDE DEF t
<1>3. /\ IsCall(u) /\ u.ret = t.ret
      /\ Sent1(t, u, WithStatus(regs, flags)) \/ Lost1(t, u, WithStatus(regs, flags))
  BY <1>1, <1>2, Transferred
<1> QED
  BY <1>1, <1>3, StartIs DEF Sent1, Lost1

LEMMA ClearIrqFlagStep ==
  ASSUME CallTypeOK, NEW f \in IRQ_FLAGS, Call("clear_irq_flag", f, clear_irq_flag(Start, f))
  PROVE  StepOK
<1> DEFINE x == WithStatus(regs, {f})
<1>1. \A u \in clear_irq_flag(Start, f) : Sent1(Start, u, x) \/ Lost1(Start, u, x)
  BY FlagsCleared DEF clear_irq_flag
<1>2. x \in RegMaps /\ SameFlags(regs, x)
  BY StatusTyped DEF CallTypeOK
<1> HIDE DEF x
<1>3. "clear_irq_flag" \notin DataNames
  BY DEF DataNames
<1>4. /\ CallTypeOK' /\ ErrorsTold' /\ OthersKeptStep
      /\ NothingLostStep /\ AcceptedRightStep
      /\ UNCHANGED <<hndl, files, doubtful, hal, group>>
      /\ done'.call = "clear_irq_flag"
  BY <1>1, <1>2, <1>3, QuietCall
<1>5. AsAsked'
  BY <1>4 DEF AsAsked, Kept
<1> QED
  BY <1>4, <1>5 DEF StepOK

\* Of the calls that take all flags: without an error the flags that are
\* gone are those returned.
LEMMA AllFlagsCall ==
  ASSUME CallTypeOK, NEW T,
         NEW name \in {"get_clear_irq_flags", "clear_irq_flags_get_status"},
         Call(name, "none", T),
         \A u \in T : /\ u.ret = regs.STATUS
                      /\ \/ Sent1(Start, u, WithStatus(regs, IRQ_FLAGS))
                         \/ Lost1(Start, u, WithStatus(regs, IRQ_FLAGS))
  PROVE  StepOK
<1> DEFINE x == WithStatus(regs, IRQ_FLAGS)
<1>1. x \in RegMaps /\ SameFlags(regs, x) /\ x.STATUS = {} /\ regs.STATUS \ x.STATUS = regs.STATUS
  BY StatusTyped DEF CallTypeOK
<1>2. \A u \in T : u.ret = regs.STATUS /\ (Sent1(Start, u, x) \/ Lost1(Start, u, x))
  OBVIOUS
<1> HIDE DEF x
<1>3. \A u \in T : Typed(u) /\ Told(name, u) /\ Alone(name, "none", u) /\ (~u.err => u.regs = x)
  BY <1>1, <1>2, QuietOutcome
<1>4. /\ CallTypeOK' /\ ErrorsTold' /\ OthersKeptStep /\ AcceptedRightStep
      /\ UNCHANGED <<hndl, files, doubtful, hal, group>>
      /\ done'.call = name /\ done'.arg = "none"
      /\ \E u \in T : /\ regs' = u.regs /\ errno' = u.err
                      /\ done'.failed = u.failed /\ done'.ret = u.ret
  BY <1>3, Concluded
<1>5. AsAsked'
  BY <1>4 DEF AsAsked, Kept
<1>6. ~errno' => regs' = x /\ done'.ret = regs.STATUS
  BY <1>2, <1>3, <1>4
<1>7. NothingLostStep
  BY <1>1, <1>4, <1>6 DEF NothingLostStep
<1> QED
  BY <1>4, <1>5, <1>7 DEF StepOK

LEMMA GetClearIrqFlagsStep ==
  ASSUME CallTypeOK, Call("get_clear_irq_flags", "none", get_clear_irq_flags(Start))
  PROVE  StepOK
BY FlagsCleared, AllFlagsCall DEF get_clear_irq_flags

LEMMA ClearIrqFlagsGetStatusStep ==
  ASSUME CallTypeOK, Call("clear_irq_flags_get_status", "none", clear_irq_flags_get_status(Start))
  PROVE  StepOK
<1> DEFINE x == WithStatus(regs, IRQ_FLAGS)
<1> HIDE DEF x
<1>1. ASSUME NEW u \in clear_irq_flags_get_status(Start)
      PROVE  u.ret = regs.STATUS /\ (Sent1(Start, u, x) \/ Lost1(Start, u, x))
  <2>1. PICK v \in ClearFlags(Start, IRQ_FLAGS) : u \in IF v.err THEN {v} ELSE Transfer(v, v.regs)
    BY DEF clear_irq_flags_get_status, get_clear_irq_flags, IfSent
  <2>2. IsCall(v) /\ v.ret = regs.STATUS /\ (Sent1(Start, v, x) \/ Lost1(Start, v, x))
    BY <2>1, FlagsCleared DEF x
  <2>3. CASE Lost1(Start, v, x)
    <3>1. u = v
      BY <2>1, <2>3 DEF Lost1
    <3> QED
      BY <2>2, <2>3, <3>1
  <2>4. CASE Sent1(Start, v, x)
    <3>1. v.err = FALSE /\ v.failed = Start.failed /\ v.regs = x
      BY <2>4 DEF Sent1
    <3>2. u.ret = v.ret /\ (Sent1(v, u, x) \/ Lost1(v, u, x))
      BY <2>1, <2>2, <3>1, Transferred
    <3> QED
      BY <2>2, <3>1, <3>2 DEF Sent1, Lost1
  <2> QED
    BY <2>2, <2>3, <2>4
<1> QED
  BY <1>1, AllFlagsCall DEF x

\* The FIFO of received payloads.
WithRx(g, s) == [g EXCEPT !["RX"] = s]
Fifos == UNION {[1..n -> Pipes] : n \in 0..FifoSize}

LEMMA RxTyped ==
  ASSUME NEW g \in RegMaps, NEW s \in Fifos
  PROVE  /\ WithRx(g, s) \in RegMaps /\ SameFlags(g, WithRx(g, s)) /\ WithRx(g, s).RX = s
         /\ WithRx(g, s).STATUS = g.STATUS
         /\ g.RX \in Fifos
<1>1. WithRx(g, s) \in RegMaps /\ g.RX \in Fifos
  BY ZenonT(60) DEF WithRx, RegMaps, Fifos
<1>2. SameFlags(g, WithRx(g, s)) /\ WithRx(g, s).RX = s /\ WithRx(g, s).STATUS = g.STATUS
  BY DEF WithRx, RegMaps, SameFlags
<1> QED
  BY <1>1, <1>2

LEMMA FifoIs ==
  ASSUME NEW s
  PROVE  s \in Fifos <=> (s \in Seq(Pipes) /\ Len(s) <= FifoSize)
<1>1. ASSUME s \in Fifos
      PROVE  s \in Seq(Pipes) /\ Len(s) <= FifoSize
  <2>1. PICK n \in 0..FifoSize : s \in [1..n -> Pipes]
    BY <1>1 DEF Fifos
  <2>2. n \in Nat
    OBVIOUS
  <2>3. s \in Seq(Pipes) /\ Len(s) = n
    BY <2>1, <2>2, SeqDef, LenProperties
  <2> QED
    BY <2>1, <2>3
<1>2. ASSUME s \in Seq(Pipes), Len(s) <= FifoSize
      PROVE  s \in Fifos
  <2>1. Len(s) \in Nat /\ s \in [1..Len(s) -> Pipes]
    BY <1>2, LenProperties
  <2>2. Len(s) \in 0..FifoSize
    BY <1>2, <2>1, ValuesAssumption
  <2> QED
    BY <2>1, <2>2 DEF Fifos
<1> QED
  BY <1>1, <1>2

LEMMA OneRead ==
  ASSUME NEW p
  PROVE  (IF {p} = {} THEN <<>> ELSE <<CHOOSE q \in {p} : TRUE>>) = <<p>>
<1>1. (CHOOSE q \in {p} : TRUE) = p
  OBVIOUS
<1> QED
  BY <1>1

\* A first payload and the rest of them.
LEMMA HeadAndTail ==
  ASSUME NEW s \in Seq(Pipes), s # <<>>
  PROVE  /\ <<Head(s)>> \o Tail(s) = s /\ Tail(s) \in Seq(Pipes)
         /\ Len(Tail(s)) <= Len(s) /\ Head(s) \in Pipes
<1>1. /\ Head(s) \in Pipes /\ Tail(s) \in Seq(Pipes) /\ Len(Tail(s)) = Len(s) - 1
      /\ \A i \in 1 .. Len(Tail(s)) : Tail(s)[i] = s[i + 1]
  BY HeadTailProperties
<1>2. Len(s) \in Nat /\ Len(s) # 0 /\ Head(s) = s[1]
  BY EmptySeq, LenProperties
<1> DEFINE c == <<Head(s)>> \o Tail(s)
<1>3. c \in Seq(Pipes) /\ Len(c) = Len(s)
  BY <1>1, <1>2
<1>4. \A i \in 1..Len(s) : c[i] = s[i]
  BY <1>1, <1>2
<1> HIDE DEF c
<1>5. c = s
  BY <1>3, <1>4, SeqEqual
<1> QED
  BY <1>1, <1>2, <1>5 DEF c

\* What hal_nrf_read_rx_payload() leaves: nothing taken, or the first payload
\* gone and its pipe told, or an error.
RxRead(u) ==
  /\ u.regs \in RegMaps /\ SameFlags(regs, u.regs)
  /\ \/ /\ u.err = FALSE /\ u.failed = FALSE
        /\ \/ regs.RX = <<>> /\ u.regs.RX = <<>> /\ u.ret = {}
           \/ regs.RX # <<>> /\ u.regs.RX = Tail(regs.RX) /\ u.ret = {Head(regs.RX)}
     \/ u.err = TRUE /\ u.failed = TRUE

LEMMA PayloadRead ==
  ASSUME CallTypeOK, NEW u \in read_rx_payload(Start)
  PROVE  RxRead(u)
<1>1. PICK v \in Transfer(Start, Start.regs) :
        u \in IF v.err THEN {v}
              ELSE IF v.regs.RX = <<>> THEN {v}
              ELSE Read([v EXCEPT !.ret = {Head(v.regs.RX)}], LAMBDA w :
                     Transfer(w, [w.regs EXCEPT !.RX = Tail(@)]))
  BY DEF read_rx_payload, Read, IfSent
<1>2. IsCall(v) /\ v.ret = {} /\ (Sent1(Start, v, regs) \/ Lost1(Start, v, regs))
  BY StartIs, Transferred
<1>3. regs \in RegMaps /\ SameFlags(regs, regs) /\ regs.RX \in Fifos
  BY DEF CallTypeOK, SameFlags, RegMaps, Fifos
<1>4. CASE Lost1(Start, v, regs)
  <2>1. u = v /\ u.err = TRUE /\ u.failed = TRUE /\ u.regs = regs
    BY <1>1, <1>4, StartIs DEF Lost1
  <2> QED
    BY <1>3, <2>1 DEF RxRead
<1>5. CASE Sent1(Start, v, regs)
  <2>1. v.err = FALSE /\ v.failed = FALSE /\ v.regs = regs
    BY <1>5, StartIs DEF Sent1
  <2>2. CASE regs.RX = <<>>
    <3>1. u = v
      BY <1>1, <2>1, <2>2
    <3> QED
      BY <1>2, <1>3, <2>1, <2>2, <3>1 DEF RxRead
  <2>3. CASE regs.RX # <<>>
    <3> DEFINE t == [v EXCEPT !.ret = {Head(regs.RX)}]
               x == WithRx(regs, Tail(regs.RX))
    <3>1. IsCall(t) /\ t.regs = regs /\ t.failed = v.failed /\ t.ret = {Head(regs.RX)}
      <4> DEFINE R == {Head(regs.RX)}
      <4> HIDE DEF R
      <4>1. [v EXCEPT !.ret = R].failed = v.failed
        BY <1>2, WithRetFailed, Zenon
      <4>2. /\ IsCall([v EXCEPT !.ret = R]) /\ [v EXCEPT !.ret = R].regs = v.regs
            /\ [v EXCEPT !.ret = R].ret = R
        BY <1>2, WithRet
      <4> QED
        BY <2>1, <4>1, <4>2, Zenon DEF R
    <3>2. u \in Read(t, LAMBDA w : Transfer(w, [w.regs EXCEPT !.RX = Tail(@)]))
      BY <1>1, <2>1, <2>3
    <3> HIDE DEF t
    <3>3. PICK w \in Transfer(t, t.regs) :
            u \in IF w.err THEN {w} ELSE Transfer(w, [w.regs EXCEPT !.RX = Tail(@)])
      BY <3>2 DEF Read, IfSent
    <3>4. IsCall(w) /\ w.ret = t.ret /\ (Sent1(t, w, regs) \/ Lost1(t, w, regs))
      BY <3>1, <3>3, Transferred
    <3>5. regs.RX \in Seq(Pipes) /\ Len(regs.RX) <= FifoSize
      BY <1>3, FifoIs
    <3>6. Tail(regs.RX) \in Seq(Pipes) /\ Len(Tail(regs.RX)) <= Len(regs.RX)
      BY <2>3, <3>5, HeadAndTail
    <3>7. Tail(regs.RX) \in Fifos
      <4>1. Len(Tail(regs.RX)) \in Nat /\ Len(regs.RX) \in Nat
        BY <3>5, <3>6, LenProperties
      <4>2. Len(Tail(regs.RX)) <= FifoSize
        BY <3>5, <3>6, <4>1, ValuesAssumption
      <4> QED
        BY <3>6, <4>2, FifoIs
    <3>8. x \in RegMaps /\ SameFlags(regs, x) /\ x.RX = Tail(regs.RX)
      BY <1>3, <3>7, RxTyped
    <3> HIDE DEF x
    <3>9. CASE Lost1(t, w, regs)
      <4>1. u = w /\ u.err = TRUE /\ u.failed = TRUE /\ u.regs = regs
        BY <3>1, <3>3, <3>9 DEF Lost1
      <4> QED
        BY <1>3, <4>1 DEF RxRead
    <3>10. CASE Sent1(t, w, regs)
      <4>1. w.err = FALSE /\ w.failed = FALSE /\ w.regs = regs
        BY <2>1, <3>1, <3>10 DEF Sent1
      <4>2. [regs EXCEPT !.RX = Tail(@)] = x
        BY DEF x, WithRx
      <4>3. u \in Transfer(w, x)
        BY <3>3, <4>1, <4>2
      <4>4. u.ret = w.ret /\ (Sent1(w, u, x) \/ Lost1(w, u, x))
        BY <3>4, <4>3, Transferred
      <4>5. CASE Sent1(w, u, x)
        <5>1. u.err = FALSE /\ u.failed = FALSE /\ u.regs = x
          BY <4>1, <4>5 DEF Sent1
        <5> QED
          BY <2>3, <3>1, <3>4, <3>8, <4>4, <5>1 DEF RxRead
      <4>6. CASE Lost1(w, u, x)
        <5>1. u.err = TRUE /\ u.failed = TRUE /\ (u.regs = x \/ u.regs = regs)
          BY <4>1, <4>6 DEF Lost1
        <5> QED
          BY <1>3, <3>8, <5>1 DEF RxRead
      <4> QED
        BY <4>4, <4>5, <4>6
    <3> QED
      BY <3>4, <3>9, <3>10
  <2> QED
    BY <2>2, <2>3
<1> QED
  BY <1>2, <1>4, <1>5

LEMMA ReadRxPayloadStep ==
  ASSUME CallTypeOK, Call("read_rx_payload", "none", read_rx_payload(Start))
  PROVE  StepOK
<1>1. \A u \in read_rx_payload(Start) : RxRead(u)
  BY PayloadRead
<1>2. ASSUME NEW u \in read_rx_payload(Start)
      PROVE  Typed(u) /\ Told("read_rx_payload", u) /\ Alone("read_rx_payload", "none", u)
  <2>1. /\ u.regs \in RegMaps /\ SameFlags(regs, u.regs)
        /\ \/ u.err = FALSE /\ u.failed = FALSE
           \/ u.err = TRUE /\ u.failed = TRUE
    BY <1>1, Zenon DEF RxRead
  <2>2. Typed(u) /\ Told("read_rx_payload", u)
    BY <2>1, Zenon DEF Typed, Told
  <2> QED
    BY <2>1, <2>2, FlagsAlone
<1>3. /\ CallTypeOK' /\ ErrorsTold' /\ OthersKeptStep /\ AcceptedRightStep
      /\ UNCHANGED <<hndl, files, doubtful, hal, group>>
      /\ done'.call = "read_rx_payload"
      /\ \E u \in read_rx_payload(Start) : /\ regs' = u.regs /\ errno' = u.err
                                           /\ done'.failed = u.failed /\ done'.ret = u.ret
  BY <1>2, Concluded
<1>4. AsAsked'
  BY <1>3 DEF AsAsked, Kept
<1>5. PICK u \in read_rx_payload(Start) : regs' = u.regs /\ errno' = u.err /\ done'.ret = u.ret
  BY <1>3
<1>6. ASSUME ~errno'
      PROVE  regs.RX = (IF done'.ret = {} THEN <<>> ELSE <<CHOOSE p \in done'.ret : TRUE>>) \o regs'.RX
  <2>1. \/ regs.RX = <<>> /\ regs'.RX = <<>> /\ done'.ret = {}
        \/ regs.RX # <<>> /\ regs'.RX = Tail(regs.RX) /\ done'.ret = {Head(regs.RX)}
    BY <1>1, <1>5, <1>6 DEF RxRead
  <2>2. CASE regs.RX = <<>> /\ regs'.RX = <<>> /\ done'.ret = {}
    <3>1. (<<>> \o <<>>) = <<>>
      OBVIOUS
    <3> QED
      BY <2>2, <3>1, Zenon
  <2>3. CASE regs.RX # <<>> /\ regs'.RX = Tail(regs.RX) /\ done'.ret = {Head(regs.RX)}
    <3>1. regs.RX \in Seq(Pipes)
      BY FifoIs DEF CallTypeOK, RegMaps, Fifos
    <3>2. <<Head(regs.RX)>> \o Tail(regs.RX) = regs.RX
      BY <2>3, <3>1, HeadAndTail
    <3>3. (IF done'.ret = {} THEN <<>> ELSE <<CHOOSE p \in done'.ret : TRUE>>) = <<Head(regs.RX)>>
      BY <2>3, OneRead
    <3> QED
      BY <2>3, <3>2, <3>3, Zenon
  <2> QED
    BY <2>1, <2>2, <2>3
<1>7. NothingLostStep
  BY <1>3, <1>6 DEF NothingLostStep
<1> QED
  BY <1>3, <1>4, <1>7 DEF StepOK

\* The FIFO of payloads to send.
LEMMA TxTyped ==
  ASSUME NEW g \in RegMaps, NEW n \in 0..FifoSize
  PROVE  /\ [g EXCEPT !["TX"] = n] \in RegMaps /\ SameFlags(g, [g EXCEPT !["TX"] = n])
         /\ g.TX \in 0..FifoSize
<1>1. [g EXCEPT !["TX"] = n] \in RegMaps /\ g.TX \in 0..FifoSize
  BY ZenonT(60) DEF RegMaps
<1>2. SameFlags(g, [g EXCEPT !["TX"] = n])
  BY DEF RegMaps, SameFlags
<1> QED
  BY <1>1, <1>2

\* Calls that change a FIFO, whatever they are asked for.
LEMMA FifoCall ==
  ASSUME CallTypeOK, NEW x \in RegMaps, SameFlags(regs, x), NEW arg, NEW T,
         NEW name \in {"write_tx_payload", "write_ack_payload", "flush_rx", "flush_tx"},
         Call(name, arg, T),
         \A u \in T : Sent1(Start, u, x) \/ Lost1(Start, u, x)
  PROVE  StepOK
<1>1. name \notin DataNames /\ name # "set_spi_hndl"
  BY DEF DataNames
<1>2. /\ CallTypeOK' /\ ErrorsTold' /\ OthersKeptStep
      /\ NothingLostStep /\ AcceptedRightStep
      /\ UNCHANGED <<hndl, files, doubtful, hal, group>>
      /\ done'.call = name
  BY <1>1, QuietCall
<1>3. AsAsked'
  BY <1>2 DEF AsAsked, Kept
<1> QED
  BY <1>2, <1>3 DEF StepOK

LEMMA PayloadWritten ==
  ASSUME CallTypeOK
  PROVE  \E x \in RegMaps : /\ SameFlags(regs, x)
                            /\ \A u \in write_tx_payload(Start) : Sent1(Start, u, x) \/ Lost1(Start, u, x)
<1> DEFINE n == IF regs.TX < FifoSize THEN regs.TX + 1 ELSE regs.TX
           x == [regs EXCEPT !["TX"] = n]
<1>1. regs.TX \in 0..FifoSize
  BY DEF CallTypeOK, RegMaps
<1>2. n \in 0..FifoSize
  BY <1>1, ValuesAssumption
<1>3. \A u \in write_tx_payload(Start) : u \in Transfer(Start, x)
  BY StartIs DEF write_tx_payload
<1> HIDE DEF n
<1>4. x \in RegMaps /\ SameFlags(regs, x)
  BY <1>2, TxTyped DEF CallTypeOK
<1> HIDE DEF x
<1>5. \A u \in write_tx_payload(Start) : Sent1(Start, u, x) \/ Lost1(Start, u, x)
  BY <1>3, SentAs
<1> QED
  BY <1>4, <1>5

LEMMA WriteTxPayloadStep ==
  ASSUME CallTypeOK, Call("write_tx_payload", "none", write_tx_payload(Start))
  PROVE  StepOK
BY PayloadWritten, FifoCall

\* A call that sends nothing changes nothing.
LEMMA NoTransferStep ==
  ASSUME CallTypeOK, NEW p, Call("write_ack_payload", p, {Start})
  PROVE  StepOK
<1>1. /\ regs' = regs /\ errno' = errno /\ done'.failed = FALSE
      /\ done'.call = "write_ack_payload"
      /\ UNCHANGED <<hndl, files, doubtful, hal, group>>
  BY StartIs, CallIs
<1>2. CallTypeOK' /\ ErrorsTold'
  BY <1>1 DEF CallTypeOK, ErrorsTold
<1>3. AsAsked' /\ NothingLostStep /\ AcceptedRightStep
  BY <1>1 DEF AsAsked, Kept, NothingLostStep, AcceptedRightStep
<1>4. Differ(Bits, Bits') = {} /\ Differ(PipeBits, PipeBits') = {}
  BY <1>1 DEF Differ, Bits, PipeBits
<1>5. OthersKeptStep
  BY <1>4 DEF OthersKeptStep
<1> QED
  BY <1>1, <1>2, <1>3, <1>5 DEF StepOK

LEMMA WriteAckPayloadStep ==
  ASSUME CallTypeOK, NEW p \in TxOrPipe, Call("write_ack_payload", p, write_ack_payload(Start, p))
  PROVE  StepOK
<1>1. CASE p \in 0..5
  BY <1>1, PayloadWritten, FifoCall DEF write_ack_payload
<1>2. CASE p \notin 0..5
  BY <1>2, NoTransferStep DEF write_ack_payload
<1> QED
  BY <1>1, <1>2

LEMMA FlushRxStep ==
  ASSUME CallTypeOK, Call("flush_rx", "none", flush_rx(Start))
  PROVE  StepOK
<1> DEFINE x == WithRx(regs, <<>>)
<1>1. <<>> \in Fifos
  <2>1. <<>> \in Seq(Pipes) /\ Len(<<>>) = 0
    OBVIOUS
  <2>2. Len(<<>>) <= FifoSize
    BY <2>1, ValuesAssumption
  <2> QED
    BY <2>1, <2>2, FifoIs
<1>2. x \in RegMaps /\ SameFlags(regs, x)
  BY <1>1, RxTyped DEF CallTypeOK
<1>3. \A u \in flush_rx(Start) : u \in Transfer(Start, x)
  BY StartIs DEF flush_rx, WithRx
<1> HIDE DEF x
<1>4. \A u \in flush_rx(Start) : Sent1(Start, u, x) \/ Lost1(Start, u, x)
  BY <1>3, SentAs
<1> QED
  BY <1>2, <1>4, FifoCall

LEMMA FlushTxStep ==
  ASSUME CallTypeOK, Call("flush_tx", "none", flush_tx(Start))
  PROVE  StepOK
<1> DEFINE x == [regs EXCEPT !["TX"] = 0]
<1>1. 0 \in 0..FifoSize
  BY ValuesAssumption
<1>2. x \in RegMaps /\ SameFlags(regs, x)
  BY <1>1, TxTyped DEF CallTypeOK
<1>3. \A u \in flush_tx(Start) : u \in Transfer(Start, x)
  BY StartIs DEF flush_tx
<1> HIDE DEF x
<1>4. \A u \in flush_tx(Start) : Sent1(Start, u, x) \/ Lost1(Start, u, x)
  BY <1>3, SentAs
<1> QED
  BY <1>2, <1>4, FifoCall

-----------------------------------------------------------------------------
(***************************************************************************)
(* The transceiver between calls.                                          *)
(***************************************************************************)

LEMMA ChipStep ==
  ASSUME CallTypeOK, NEW r \in RegMaps, SameFlags(regs, r), NEW flag \in IRQ_FLAGS, Chip(r, flag)
  PROVE  StepOK
<1> DEFINE S == r.STATUS \cup {flag}
           x == [r EXCEPT !["STATUS"] = S]
<1>1. S \in SUBSET IRQ_FLAGS
  BY DEF RegMaps
<1>2. regs' = x
  BY DEF Chip
<1>3. /\ done'.call = "chip" /\ done'.failed = FALSE
      /\ UNCHANGED <<hndl, files, doubtful, hal, errno, group>>
  BY DEF Chip, spiVars
<1> HIDE DEF S
<1>4. x \in RegMaps
  BY <1>1, ZenonT(60) DEF RegMaps
<1>5. SameFlags(regs, x)
  BY DEF RegMaps, SameFlags
<1> HIDE DEF x
<1>6. CallTypeOK' /\ ErrorsTold'
  BY <1>2, <1>3, <1>4 DEF CallTypeOK, ErrorsTold
<1>7. AsAsked' /\ NothingLostStep /\ AcceptedRightStep
  BY <1>3 DEF AsAsked, Kept, NothingLostStep, AcceptedRightStep
<1>8. Differ(Bits, Bits') = {} /\ Differ(PipeBits, PipeBits') = {}
  BY <1>2, <1>5 DEF SameFlags, Differ, Bits, PipeBits
<1>9. OthersKeptStep
  BY <1>8 DEF OthersKeptStep
<1> QED
  BY <1>3, <1>6, <1>7, <1>9 DEF StepOK

LEMMA ReceiveStep ==
  ASSUME CallTypeOK, NEW p \in Pipes, Receive(p)
  PROVE  StepOK
<1> DEFINE s == Append(regs.RX, p)
           x == WithRx(regs, s)
<1>1. regs \in RegMaps /\ regs.RX \in Fifos
  BY DEF CallTypeOK, RegMaps, Fifos
<1>2. regs.RX \in Seq(Pipes) /\ Len(regs.RX) < FifoSize
  BY <1>1, FifoIs DEF Receive
<1>3. s \in Seq(Pipes) /\ Len(s) = Len(regs.RX) + 1
  BY <1>2, AppendProperties
<1>4. s \in Fifos
  <2>1. Len(regs.RX) \in Nat
    BY <1>2, LenProperties
  <2>2. Len(s) <= FifoSize
    BY <1>2, <1>3, <2>1, ValuesAssumption
  <2> QED
    BY <1>3, <2>2, FifoIs
<1>5. Chip(x, "RX_DR")
  BY DEF Receive, WithRx
<1> HIDE DEF s
<1>6. x \in RegMaps /\ SameFlags(regs, x)
  BY <1>1, <1>4, RxTyped
<1> HIDE DEF x
<1>7. "RX_DR" \in IRQ_FLAGS
  BY DEF IRQ_FLAGS
<1> QED
  BY <1>5, <1>6, <1>7, ChipStep

LEMMA SentStep ==
  ASSUME CallTypeOK, Sent
  PROVE  StepOK
<1> DEFINE n == regs.TX - 1
           x == [regs EXCEPT !["TX"] = n]
<1>1. regs \in RegMaps /\ regs.TX \in 0..FifoSize
  BY DEF CallTypeOK, RegMaps
<1>2. n \in 0..FifoSize
  BY <1>1, ValuesAssumption DEF Sent
<1>3. Chip(x, "TX_DS")
  BY DEF Sent
<1> HIDE DEF n
<1>4. x \in RegMaps /\ SameFlags(regs, x)
  BY <1>1, <1>2, TxTyped
<1> HIDE DEF x
<1>5. "TX_DS" \in IRQ_FLAGS
  BY DEF IRQ_FLAGS
<1> QED
  BY <1>3, <1>4, <1>5, ChipStep

LEMMA GivenUpStep ==
  ASSUME CallTypeOK, GivenUp
  PROVE  StepOK
BY ChipStep DEF CallTypeOK, GivenUp, SameFlags, IRQ_FLAGS

-----------------------------------------------------------------------------
(***************************************************************************)
(* SPI handles and their devices.                                          *)
(***************************************************************************)

\* An open handle has an open file of its own, and unless a setter of it has
\* failed, the file is set as the handle says.
InMode(p, f) == f.mode = p.mode
InOrder(p, f) == (f.lsb = TRUE) <=> (p.lsb = TRUE)
InStep(p, f) == InMode(p, f) /\ InOrder(p, f)
SpiInv ==
  /\ SpiTypeOK
  /\ \A h \in Handles : hndl[h].fd # NoFd =>
       /\ files[hndl[h].fd].open = TRUE
       /\ h \notin doubtful => InStep(hndl[h], files[hndl[h].fd])
  /\ \A h, i \in Handles : h # i /\ hndl[h].fd # NoFd => hndl[h].fd # hndl[i].fd

\* What a setter of the field leaves of o, a handle and a file: the file
\* stays open and the handle's own, and after success both agree on the field,
\* and as before on the others.
Agrees(o, field, q) ==
  /\ field = "mode" \/ InMode(o.p, o.f) => InMode(q.p, q.f)
  /\ field = "lsb" \/ InOrder(o.p, o.f) => InOrder(q.p, q.f)
Settled(o, field, q) ==
  /\ q.p \in Handle /\ q.f \in File /\ q.p.fd = o.p.fd /\ q.f.open = o.f.open
  /\ q.ok \in BOOLEAN /\ (q.ok = TRUE => Agrees(o, field, q))

FieldValues(field) ==
  IF field = "mode" THEN Modes \cup {0} ELSE IF field = "lsb" THEN BOOLEAN ELSE Words \cup {0}

LEMMA FieldSet ==
  ASSUME NEW p \in Handle, NEW f \in File, NEW field \in {"mode", "lsb", "bits"},
         NEW v \in FieldValues(field)
  PROVE  LET r == [p EXCEPT ![field] = v]
             g == [f EXCEPT ![field] = v]
         IN  /\ r \in Handle /\ g \in File /\ r.fd = p.fd /\ g.open = f.open
             /\ field = "mode" \/ InMode(p, f) => InMode(r, g)
             /\ field = "lsb" \/ InOrder(p, f) => InOrder(r, g)
<1>1. CASE field = "mode"
  <2>1. v \in Modes \cup {0}
    BY <1>1 DEF FieldValues
  <2>2. [p EXCEPT !["mode"] = v] \in Handle /\ [f EXCEPT !["mode"] = v] \in File
    BY <2>1 DEF Handle, File
  <2>3. [p EXCEPT !["mode"] = v].fd = p.fd /\ [p EXCEPT !["mode"] = v].mode = v
    BY DEF Handle
  <2>4. [p EXCEPT !["mode"] = v].lsb = p.lsb
    BY DEF Handle
  <2>5. [f EXCEPT !["mode"] = v].open = f.open
    BY DEF File
  <2>6. [f EXCEPT !["mode"] = v].lsb = f.lsb
    BY DEF File
  <2>7. [f EXCEPT !["mode"] = v].mode = v
    BY DEF File
  <2> QED
    BY <1>1, <2>2, <2>3, <2>4, <2>5, <2>6, <2>7 DEF InMode, InOrder
<1>2. CASE field = "lsb"
  <2>1. v \in BOOLEAN
    BY <1>2 DEF FieldValues
  <2>2. [p EXCEPT !["lsb"] = v] \in Handle /\ [f EXCEPT !["lsb"] = v] \in File
    BY <2>1 DEF Handle, File
  <2>3. [p EXCEPT !["lsb"] = v].fd = p.fd /\ [p EXCEPT !["lsb"] = v].mode = p.mode
    BY DEF Handle
  <2>4. [p EXCEPT !["lsb"] = v].lsb = v
    BY DEF Handle
  <2>5. [f EXCEPT !["lsb"] = v].open = f.open
    BY DEF File
  <2>6. [f EXCEPT !["lsb"] = v].lsb = v
    BY DEF File
  <2>7. [f EXCEPT !["lsb"] = v].mode = f.mode
    BY DEF File
  <2> QED
    BY <1>2, <2>2, <2>3, <2>4, <2>5, <2>6, <2>7 DEF InMode, InOrder
<1>3. CASE field = "bits"
  <2>1. v \in Words \cup {0}
    BY <1>3 DEF FieldValues
  <2>2. [p EXCEPT !["bits"] = v] \in Handle /\ [f EXCEPT !["bits"] = v] \in File
    BY <2>1 DEF Handle, File
  <2>3. [p EXCEPT !["bits"] = v].fd = p.fd /\ [p EXCEPT !["bits"] = v].mode = p.mode
    BY DEF Handle
  <2>4. [p EXCEPT !["bits"] = v].lsb = p.lsb
    BY DEF Handle
  <2>5. [f EXCEPT !["bits"] = v].open = f.open
    BY DEF File
  <2>6. [f EXCEPT !["bits"] = v].lsb = f.lsb
    BY DEF File
  <2>7. [f EXCEPT !["bits"] = v].mode = f.mode
    BY DEF File
  <2> QED
    BY <1>3, <2>2, <2>3, <2>4, <2>5, <2>6, <2>7 DEF InMode, InOrder
<1> QED
  BY <1>1, <1>2, <1>3

\* a handle and its file as spi_init() or a setter starts from them
IsPair(o) == o.p \in Handle /\ o.f \in File /\ o.ok = TRUE

LEMMA SetSettles ==
  ASSUME NEW o, IsPair(o), NEW field \in {"mode", "lsb", "bits"}, NEW v \in FieldValues(field),
         NEW q \in Set(o, field, v)
  PROVE  Settled(o, field, q)
<1> DEFINE r == [o.p EXCEPT ![field] = v]
           g == [o.f EXCEPT ![field] = v]
<1>1. /\ r \in Handle /\ g \in File /\ r.fd = o.p.fd /\ g.open = o.f.open
      /\ field = "mode" \/ InMode(o.p, o.f) => InMode(r, g)
      /\ field = "lsb" \/ InOrder(o.p, o.f) => InOrder(r, g)
  BY FieldSet DEF IsPair
<1>2. q \in {[p |-> r, f |-> g, ok |-> TRUE]} \cup [p : {r}, f : {o.f, g}, ok : {FALSE}]
  BY DEF Set
<1> HIDE DEF r, g
<1>3. CASE q = [p |-> r, f |-> g, ok |-> TRUE]
  <2>1. q.p = r /\ q.f = g /\ q.ok = TRUE
    BY <1>3
  <2> QED
    BY <1>1, <2>1 DEF Settled, Agrees
<1>4. CASE q \in [p : {r}, f : {o.f, g}, ok : {FALSE}]
  <2>1. q.p = r /\ q.f \in {o.f, g} /\ q.ok = FALSE
    BY <1>4
  <2> QED
    BY <1>1, <2>1 DEF Settled, IsPair
<1> QED
  BY <1>2, <1>3, <1>4

LEMMA SetWordSettles ==
  ASSUME NEW o, IsPair(o), NEW v \in Words, NEW i \in BOOLEAN, NEW q \in SetWord(o, v, i)
  PROVE  Settled(o, "bits", q)
<1>1. v \in FieldValues("bits")
  BY DEF FieldValues
<1>2. CASE i
  BY <1>1, <1>2, SetSettles DEF SetWord
<1>3. CASE ~i
  <2> DEFINE r == [o.p EXCEPT !["bits"] = v]
  <2>1. r \in Handle /\ r.fd = o.p.fd
    BY <1>1, FieldSet DEF IsPair
  <2>2. InMode(o.p, o.f) => InMode(r, o.f)
    BY DEF InMode, IsPair, Handle
  <2>3. InOrder(o.p, o.f) => InOrder(r, o.f)
    BY DEF InOrder, IsPair, Handle
  <2>4. q = [p |-> r, f |-> o.f, ok |-> TRUE]
    BY <1>3 DEF SetWord
  <2> HIDE DEF r
  <2>5. q.p = r /\ q.f = o.f /\ q.ok = TRUE
    BY <2>4
  <2> QED
    BY <2>1, <2>2, <2>3, <2>5 DEF Settled, Agrees, IsPair
<1> QED
  BY <1>2, <1>3

LEMMA NewIsHandle ==
  /\ NewHandle \in Handle /\ NewHandle.fd = NoFd
  /\ \A fd \in Fds : [NewHandle EXCEPT !.fd = fd] \in Handle /\ [NewHandle EXCEPT !.fd = fd].fd = fd
  /\ ClosedFile \in File
BY DEF NewHandle, Handle, ClosedFile, File

\* A successful spi_init() leaves handle and device in step.
LEMMA Initialised ==
  ASSUME NEW fd \in Fds, NEW g \in File, NEW m \in Modes \cup {0}, NEW b \in BOOLEAN, NEW n \in Words,
         NEW q \in Configure(fd, g, m, b, n)
  PROVE  /\ q.p \in Handle /\ q.f \in File /\ q.p.fd = fd /\ q.f.open = g.open
         /\ q.ok \in BOOLEAN /\ (q.ok = TRUE => InStep(q.p, q.f))
<1> DEFINE h == [NewHandle EXCEPT !.fd = fd]
           o == [p |-> h, f |-> g, ok |-> TRUE]
<1>1. h \in Handle /\ h.fd = fd
  BY NewIsHandle
<1>2. PICK v \in Set(o, "mode", m) :
        q \in IF v.ok THEN IfOk(Set(v, "lsb", b), LAMBDA w : SetWord(w, n, TRUE)) ELSE {v}
  BY DEF Configure, IfOk
<1> HIDE DEF h
<1>3. o.p = h /\ o.f = g /\ o.ok = TRUE
  OBVIOUS
<1> HIDE DEF o
<1>4. Settled(o, "mode", v)
  BY <1>1, <1>2, <1>3, SetSettles DEF IsPair, FieldValues
<1>5. CASE v.ok = FALSE
  <2>1. q = v
    BY <1>2, <1>5
  <2> QED
    BY <1>1, <1>3, <1>4, <1>5, <2>1 DEF Settled
<1>6. CASE v.ok = TRUE
  <2>1. IsPair(v) /\ v.p.fd = fd /\ v.f.open = g.open /\ InMode(v.p, v.f)
    BY <1>1, <1>3, <1>4, <1>6 DEF Settled, IsPair, Agrees
  <2>2. PICK w \in Set(v, "lsb", b) : q \in IF w.ok THEN SetWord(w, n, TRUE) ELSE {w}
    BY <1>2, <1>6 DEF IfOk
  <2>3. Settled(v, "lsb", w)
    BY <2>1, <2>2, SetSettles DEF FieldValues
  <2>4. CASE w.ok = FALSE
    <3>1. q = w
      BY <2>2, <2>4
    <3> QED
      BY <2>1, <2>3, <2>4, <3>1 DEF Settled
  <2>5. CASE w.ok = TRUE
    <3>1. IsPair(w) /\ w.p.fd = fd /\ w.f.open = g.open /\ InStep(w.p, w.f)
      BY <2>1, <2>3, <2>5 DEF Settled, IsPair, Agrees, InStep
    <3>2. q \in SetWord(w, n, TRUE)
      BY <2>2, <2>5
    <3>3. Settled(w, "bits", q)
      BY <3>1, <3>2, SetWordSettles
    <3> QED
      BY <3>1, <3>3 DEF Settled, Agrees, InStep
  <2> QED
    BY <2>3, <2>4, <2>5 DEF Settled
<1> QED
  BY <1>4, <1>5, <1>6 DEF Settled

\* A step that changes one handle and at most its own file.
LEMMA OneHandle ==
  ASSUME SpiInv, NEW h \in Handles, NEW p \in Handle,
         hndl' = [hndl EXCEPT ![h] = p], files' \in [Fds -> File], doubtful' \subseteq Handles,
         \A i \in Handles \ {h} : i \in doubtful => i \in doubtful',
         \A i \in Handles \ {h} : hndl[i].fd # NoFd =>
           files'[hndl[i].fd] = files[hndl[i].fd] /\ hndl[i].fd # p.fd,
         p.fd # NoFd => /\ files'[p.fd].open = TRUE
                        /\ h \notin doubtful' => InStep(p, files'[p.fd])
  PROVE  SpiInv'
<1>1. hndl \in [Handles -> Handle]
  BY DEF SpiInv, SpiTypeOK
<1>2. hndl' \in [Handles -> Handle] /\ hndl'[h] = p /\ \A i \in Handles \ {h} : hndl'[i] = hndl[i]
  BY <1>1
<1>3. SpiTypeOK'
  BY <1>2 DEF SpiTypeOK
<1>4. ASSUME NEW i \in Handles, hndl'[i].fd # NoFd
      PROVE  /\ files'[hndl'[i].fd].open = TRUE
             /\ i \notin doubtful' => InStep(hndl'[i], files'[hndl'[i].fd])
  <2>1. CASE i = h
    BY <1>2, <1>4, <2>1
  <2>2. CASE i # h
    <3>1. hndl'[i] = hndl[i]
      BY <1>2, <2>2
    <3>2. files'[hndl[i].fd] = files[hndl[i].fd]
      BY <1>4, <2>2, <3>1
    <3>3. /\ files[hndl[i].fd].open = TRUE
          /\ i \notin doubtful => InStep(hndl[i], files[hndl[i].fd])
      BY <1>4, <3>1 DEF SpiInv
    <3> QED
      BY <2>2, <3>1, <3>2, <3>3
  <2> QED
    BY <2>1, <2>2
<1>5. ASSUME NEW j \in Handles, NEW i \in Handles, j # i, hndl'[j].fd # NoFd
      PROVE  hndl'[j].fd # hndl'[i].fd
  <2>1. CASE j = h
    <3>1. hndl'[i] = hndl[i] /\ hndl'[j] = p
      BY <1>2, <1>5, <2>1
    <3>2. CASE hndl[i].fd = NoFd
      BY <1>5, <3>1, <3>2
    <3>3. CASE hndl[i].fd # NoFd
      BY <1>5, <2>1, <3>1, <3>3
    <3> QED
      BY <3>2, <3>3
  <2>2. CASE i = h
    BY <1>2, <1>5, <2>2
  <2>3. CASE j # h /\ i # h
    BY <1>2, <1>5, <2>3 DEF SpiInv
  <2> QED
    BY <2>1, <2>2, <2>3
<1>6. \A i \in Handles : hndl'[i].fd # NoFd =>
        /\ files'[hndl'[i].fd].open = TRUE
        /\ i \notin doubtful' => InStep(hndl'[i], files'[hndl'[i].fd])
  BY <1>4, Zenon
<1> QED
  BY <1>3, <1>5, <1>6 DEF SpiInv, InStep, InMode, InOrder

LEMMA FreedIs ==
  ASSUME NEW p \in Handle
  PROVE  Freed(p) \in Handle /\ Freed(p).fd = NoFd
BY DEF Freed, Handle

LEMMA InitSpi ==
  ASSUME SpiInv, NEW h \in Handles, NEW m \in Modes \cup {0}, NEW b \in BOOLEAN, NEW n \in Words,
         spi_init(h, m, b, n)
  PROVE  SpiInv'
<1>1. /\ hndl \in [Handles -> Handle] /\ files \in [Fds -> File] /\ doubtful \subseteq Handles
      /\ hndl[h].fd = NoFd
  BY DEF SpiInv, SpiTypeOK, spi_init
<1>2. doubtful' = doubtful \ {h}
  BY DEF spi_init
<1>3. CASE hndl' = [hndl EXCEPT ![h] = NewHandle] /\ UNCHANGED files
  BY <1>1, <1>2, <1>3, NewIsHandle, OneHandle
<1>4. ASSUME NEW fd \in Fds, NEW g \in File, ~files[fd].open, g.open,
             NEW o \in Configure(fd, g, m, b, n),
             hndl' = [hndl EXCEPT ![h] = IF o.ok THEN o.p ELSE Freed(o.p)],
             files' = [files EXCEPT ![fd] = IF o.ok THEN o.f ELSE ClosedFile]
      PROVE  SpiInv'
  <2>1. /\ o.p \in Handle /\ o.f \in File /\ o.p.fd = fd /\ o.f.open = g.open
        /\ o.ok \in BOOLEAN /\ (o.ok = TRUE => InStep(o.p, o.f))
    BY Initialised
  <2>2. g.open = TRUE
    BY <1>4 DEF File
  <2>3. \A i \in Handles : hndl[i].fd # NoFd => hndl[i].fd # fd
    BY <1>4 DEF SpiInv
  <2>4. \A i \in Handles : hndl[i].fd # NoFd => hndl[i].fd \in Fds
    BY <1>1 DEF Handle
  <2>5. CASE o.ok = TRUE
    <3>1. hndl' = [hndl EXCEPT ![h] = o.p] /\ files' = [files EXCEPT ![fd] = o.f]
      BY <1>4, <2>5
    <3>2. /\ files' \in [Fds -> File] /\ files'[fd] = o.f
          /\ \A i \in Handles \ {h} : hndl[i].fd # NoFd =>
               files'[hndl[i].fd] = files[hndl[i].fd] /\ hndl[i].fd # o.p.fd
      BY <1>1, <2>1, <2>3, <2>4, <3>1
    <3> QED
      BY <1>1, <1>2, <2>1, <2>2, <2>5, <3>1, <3>2, OneHandle
  <2>6. CASE o.ok = FALSE
    <3>1. hndl' = [hndl EXCEPT ![h] = Freed(o.p)] /\ files' = [files EXCEPT ![fd] = ClosedFile]
      BY <1>4, <2>6
    <3>2. Freed(o.p) \in Handle /\ Freed(o.p).fd = NoFd
      BY <2>1, FreedIs
    <3>3. /\ files' \in [Fds -> File]
          /\ \A i \in Handles \ {h} : hndl[i].fd # NoFd =>
               files'[hndl[i].fd] = files[hndl[i].fd] /\ hndl[i].fd # Freed(o.p).fd
      BY <1>1, <2>3, <2>4, <3>1, <3>2, NewIsHandle
    <3> QED
      BY <1>1, <1>2, <3>1, <3>2, <3>3, OneHandle
  <2> QED
    BY <2>1, <2>5, <2>6
<1> QED
  BY <1>3, <1>4 DEF spi_init

LEMMA FreeSpi ==
  ASSUME SpiInv, NEW h \in Handles, spi_free(h)
  PROVE  SpiInv'
<1> DEFINE p == Freed(hndl[h])
<1>1. /\ hndl \in [Handles -> Handle] /\ files \in [Fds -> File] /\ doubtful \subseteq Handles
  BY DEF SpiInv, SpiTypeOK
<1>2. p \in Handle /\ p.fd = NoFd
  BY <1>1, FreedIs
<1>3. hndl' = [hndl EXCEPT ![h] = p] /\ doubtful' = doubtful /\ files' = Close(hndl[h].fd)
  BY DEF spi_free
<1> HIDE DEF p
<1>4. files' \in [Fds -> File]
  BY <1>1, <1>3, NewIsHandle DEF Close
<1>5. ASSUME NEW i \in Handles \ {h}, hndl[i].fd # NoFd
      PROVE  files'[hndl[i].fd] = files[hndl[i].fd] /\ hndl[i].fd # p.fd
  <2>1. hndl[i].fd # hndl[h].fd /\ hndl[i].fd \in Fds
    BY <1>1, <1>5 DEF SpiInv, Handle
  <2> QED
    BY <1>1, <1>2, <1>3, <1>5, <2>1 DEF Close
<1> QED
  BY <1>1, <1>2, <1>3, <1>4, <1>5, OneHandle

LEMMA SetterSpi ==
  ASSUME SpiInv, NEW h \in Handles, hndl[h].fd # NoFd, NEW field, NEW O, Setter(h, O),
         \A o \in O : Settled(Opened(h), field, o)
  PROVE  SpiInv'
<1>1. /\ hndl \in [Handles -> Handle] /\ files \in [Fds -> File] /\ doubtful \subseteq Handles
      /\ hndl[h].fd \in Fds
  BY DEF SpiInv, SpiTypeOK, Handle
<1>2. PICK o \in O :
        /\ hndl' = [hndl EXCEPT ![h] = o.p]
        /\ files' = [files EXCEPT ![hndl[h].fd] = o.f]
        /\ doubtful' = IF o.ok THEN doubtful ELSE doubtful \cup {h}
  BY DEF Setter
<1>3. /\ Settled(Opened(h), field, o)
      /\ Opened(h).p = hndl[h] /\ Opened(h).f = files[hndl[h].fd]
  BY DEF Opened
<1>4. /\ o.p \in Handle /\ o.f \in File /\ o.p.fd = hndl[h].fd
      /\ o.f.open = files[hndl[h].fd].open /\ o.ok \in BOOLEAN
  BY <1>3 DEF Settled
<1>5. files[hndl[h].fd].open = TRUE /\ (h \notin doubtful => InStep(hndl[h], files[hndl[h].fd]))
  BY DEF SpiInv
<1>6. /\ files' \in [Fds -> File] /\ files'[o.p.fd] = o.f
      /\ \A i \in Handles \ {h} : hndl[i].fd # NoFd =>
           files'[hndl[i].fd] = files[hndl[i].fd] /\ hndl[i].fd # o.p.fd
  <2>1. files' \in [Fds -> File] /\ files'[o.p.fd] = o.f
    BY <1>1, <1>2, <1>4
  <2>2. ASSUME NEW i \in Handles \ {h}, hndl[i].fd # NoFd
        PROVE  files'[hndl[i].fd] = files[hndl[i].fd] /\ hndl[i].fd # o.p.fd
    <3>1. hndl[i].fd # hndl[h].fd /\ hndl[i].fd \in Fds
      BY <1>1, <2>2 DEF SpiInv, Handle
    <3> QED
      BY <1>1, <1>2, <1>4, <3>1
  <2> QED
    BY <2>1, <2>2
<1>7. doubtful' \subseteq Handles /\ \A i \in Handles \ {h} : i \in doubtful => i \in doubtful'
  BY <1>1, <1>2
<1>8. h \notin doubtful' => InStep(o.p, o.f)
  <2>1. CASE o.ok = TRUE
    BY <1>2, <1>3, <1>5, <2>1 DEF Settled, Agrees, InStep
  <2>2. CASE o.ok = FALSE
    BY <1>2, <2>2
  <2> QED
    BY <1>4, <2>1, <2>2
<1> QED
  BY <1>2, <1>4, <1>5, <1>6, <1>7, <1>8, OneHandle

LEMMA OpenedIsPair ==
  ASSUME SpiInv, NEW h \in Handles, hndl[h].fd # NoFd
  PROVE  IsPair(Opened(h))
<1>1. hndl[h] \in Handle /\ files[hndl[h].fd] \in File
  BY DEF SpiInv, SpiTypeOK, Handle
<1>2. Opened(h).p = hndl[h] /\ Opened(h).f = files[hndl[h].fd] /\ Opened(h).ok = TRUE
  BY DEF Opened
<1> QED
  BY <1>1, <1>2 DEF IsPair

LEMMA SpiStepInv ==
  ASSUME SpiInv, SpiStep
  PROVE  SpiInv'
<1>1. ASSUME NEW h \in Handles, spi_init(h, 0, FALSE, 8)
      PROVE  SpiInv'
  BY <1>1, InitSpi, ValuesAssumption
<1>2. ASSUME NEW h \in Handles, spi_free(h)
      PROVE  SpiInv'
  BY <1>2, FreeSpi
<1>3. ASSUME NEW h \in Handles, NEW m \in Modes, NEW b \in BOOLEAN, NEW n \in Words, spi_init(h, m, b, n)
      PROVE  SpiInv'
  BY <1>3, InitSpi
<1>4. ASSUME NEW h \in Handles, NEW m \in Modes, spi_set_mode(h, m)
      PROVE  SpiInv'
  <2>1. hndl[h].fd # NoFd /\ Setter(h, Set(Opened(h), "mode", m))
    BY <1>4 DEF spi_set_mode
  <2>2. \A o \in Set(Opened(h), "mode", m) : Settled(Opened(h), "mode", o)
    BY <2>1, OpenedIsPair, SetSettles DEF FieldValues
  <2> QED
    BY <2>1, <2>2, SetterSpi
<1>5. ASSUME NEW h \in Handles, NEW b \in BOOLEAN, spi_set_lsb(h, b)
      PROVE  SpiInv'
  <2>1. hndl[h].fd # NoFd /\ Setter(h, Set(Opened(h), "lsb", b))
    BY <1>5 DEF spi_set_lsb
  <2>2. \A o \in Set(Opened(h), "lsb", b) : Settled(Opened(h), "lsb", o)
    BY <2>1, OpenedIsPair, SetSettles DEF FieldValues
  <2> QED
    BY <2>1, <2>2, SetterSpi
<1>6. ASSUME NEW h \in Handles, NEW n \in Words, NEW i \in BOOLEAN, spi_set_bits_per_word(h, n, i)
      PROVE  SpiInv'
  <2>1. hndl[h].fd # NoFd /\ Setter(h, SetWord(Opened(h), n, i))
    BY <1>6 DEF spi_set_bits_per_word
  <2>2. \A o \in SetWord(Opened(h), n, i) : Settled(Opened(h), "bits", o)
    BY <2>1, OpenedIsPair, SetWordSettles
  <2> QED
    BY <2>1, <2>2, SetterSpi
<1> QED
  BY <1>1, <1>2, <1>3, <1>4, <1>5, <1>6 DEF SpiStep

-----------------------------------------------------------------------------
(***************************************************************************)
(* The steps together.                                                     *)
(***************************************************************************)

Inv == SpiInv /\ hal \in Handle /\ CallTypeOK /\ group \in Groups /\ ErrorsTold /\ AsAsked

NextOK == Inv' /\ OthersKeptStep /\ NothingLostStep /\ AcceptedRightStep

LEMMA ConfigStep ==
  ASSUME CallTypeOK, ConfigCalls PROVE StepOK
BY OperationModeStep, PowerModeStep, CrcModeStep, IrqModeStep DEF ConfigCalls

LEMMA FeatureStep ==
  ASSUME CallTypeOK, FeatureCalls PROVE StepOK
BY DynamicPayloadStep, AckPayloadStep, DynamicAckStep, SetupDynamicPayloadStep, SaveCtxStep
   DEF FeatureCalls

LEMMA RfStep ==
  ASSUME CallTypeOK, RfCalls PROVE StepOK
BY OutputPowerStep, DatarateStep, PllModeStep, ContinuousWaveStep DEF RfCalls

LEMMA AirStep ==
  ASSUME CallTypeOK, AirCalls PROVE StepOK
BY RfChannelStep, AutoRetrStep, RxPayloadWidthStep DEF AirCalls

LEMMA PipesStep ==
  ASSUME CallTypeOK, PipeCalls PROVE StepOK
BY OpenPipeStep, ClosePipeStep DEF PipeCalls

LEMMA AddrStep ==
  ASSUME CallTypeOK, AddrCalls PROVE StepOK
BY AddressWidthStep, SetAddressStep, GetAddressStep DEF AddrCalls

LEMMA RxPipeStep ==
  ASSUME CallTypeOK, RxPipeCalls PROVE StepOK
<1>1. PICK p \in AnyPipe, x \in AddrOrNull, b \in BOOLEAN, n \in PlWidths :
        Call("config_rx_pipe", <<p, x, b, n>>, config_rx_pipe(Start, <<p, x, b, n>>))
  BY DEF RxPipeCalls
<1> QED
  BY <1>1, ConfigRxPipeStep

LEMMA TxStep ==
  ASSUME CallTypeOK, group \in Groups, TxCalls PROVE StepOK
<1>1. PICK x \in AddrOrNull, n \in {0, 3}, r \in Retries :
        Call("config_tx", <<x, n, r, 250>>, config_tx(Start, <<x, n, r, 250>>))
  BY DEF TxCalls
<1>2. 0 \in Pipes
  BY PipesAssumption DEF TxCalls
<1> QED
  BY <1>1, <1>2, ConfigTxStep

LEMMA DataStep ==
  ASSUME CallTypeOK, DataCalls PROVE StepOK
BY GetClearIrqFlagsStep, ClearIrqFlagsGetStatusStep, ClearIrqFlagStep, ReadRxPayloadStep,
   WriteTxPayloadStep, WriteAckPayloadStep, FlushRxStep, FlushTxStep DEF DataCalls

LEMMA StepSuffices ==
  ASSUME Inv, StepOK
  PROVE  NextOK
<1>1. UNCHANGED <<hndl, files, doubtful, hal, group>>
  BY DEF StepOK
<1>2. SpiInv'
  BY <1>1 DEF Inv, SpiInv, SpiTypeOK
<1>3. hal' \in Handle /\ group' \in Groups
  BY <1>1 DEF Inv
<1> QED
  BY <1>2, <1>3 DEF StepOK, NextOK, Inv

LEMMA SpiSteps ==
  ASSUME Inv, SpiStep
  PROVE  NextOK
<1>1. SpiInv'
  BY SpiStepInv DEF Inv
<1>2. /\ done'.call = "spi" /\ done'.failed = FALSE
      /\ UNCHANGED <<hal, regs, errno, group>>
  BY DEF SpiStep
<1>3. hal' \in Handle /\ group' \in Groups /\ CallTypeOK' /\ ErrorsTold'
  BY <1>2 DEF Inv, CallTypeOK, ErrorsTold
<1>4. AsAsked' /\ NothingLostStep /\ AcceptedRightStep
  BY <1>2 DEF AsAsked, Kept, NothingLostStep, AcceptedRightStep
<1>5. Differ(Bits, Bits') = {} /\ Differ(PipeBits, PipeBits') = {}
  BY <1>2 DEF Differ, Bits, PipeBits
<1>6. OthersKeptStep
  BY <1>5 DEF OthersKeptStep
<1> QED
  BY <1>1, <1>3, <1>4, <1>6 DEF NextOK, Inv

\* The handle that is taken is in step with its device.
LEMMA HandleSteps ==
  ASSUME Inv, NEW h \in Handles, set_spi_hndl(h)
  PROVE  NextOK
<1> DEFINE p == hndl[h]
           accepted == p.fd # NoFd /\ p.mode = 0 /\ ~p.lsb /\ p.bits = 8
<1>1. /\ hal' = IF accepted THEN p ELSE hal
      /\ done'.call = "set_spi_hndl" /\ done'.arg = h
      /\ done'.failed = FALSE /\ done'.ret = {accepted}
      /\ UNCHANGED <<hndl, files, doubtful, regs, errno, group>>
  BY DEF set_spi_hndl, spiVars
<1>2. p \in Handle
  BY DEF Inv, SpiInv, SpiTypeOK
<1>3. ASSUME done'.ret = {TRUE}, done'.arg \notin doubtful
      PROVE  files[hal'.fd].open /\ files[hal'.fd].mode = 0 /\ ~files[hal'.fd].lsb
  <2>1. accepted = TRUE
    <3>1. {accepted} = {TRUE}
      BY <1>1, <1>3
    <3> HIDE DEF accepted
    <3> QED
      BY <3>1
  <2>2. hal' = p /\ p.fd # NoFd /\ p.mode = 0 /\ ~p.lsb
    BY <1>1, <2>1
  <2>3. h \notin doubtful
    BY <1>1, <1>3
  <2>4. files[p.fd].open = TRUE /\ InStep(p, files[p.fd])
    BY <2>2, <2>3 DEF Inv, SpiInv
  <2>5. files[p.fd].mode = 0 /\ ~(files[p.fd].lsb = TRUE)
    BY <2>2, <2>4 DEF InStep, InMode, InOrder
  <2>6. files[p.fd].lsb \in BOOLEAN
    BY <1>2, <2>2 DEF Inv, SpiInv, SpiTypeOK, Handle, File
  <2> QED
    BY <2>2, <2>4, <2>5, <2>6
<1>4. hal' \in Handle
  BY <1>1, <1>2 DEF Inv
<1> HIDE DEF accepted
<1>5. SpiInv'
  BY <1>1 DEF Inv, SpiInv, SpiTypeOK
<1>6. group' \in Groups /\ CallTypeOK' /\ ErrorsTold'
  BY <1>1 DEF Inv, CallTypeOK, ErrorsTold
<1>7. AsAsked' /\ NothingLostStep
  BY <1>1 DEF AsAsked, Kept, NothingLostStep
<1>8. Differ(Bits, Bits') = {} /\ Differ(PipeBits, PipeBits') = {}
  BY <1>1 DEF Differ, Bits, PipeBits
<1>9. OthersKeptStep
  BY <1>8 DEF OthersKeptStep
<1>10. AcceptedRightStep
  BY <1>3 DEF AcceptedRightStep
<1> QED
  BY <1>4, <1>5, <1>6, <1>7, <1>9, <1>10 DEF NextOK, Inv

LEMMA Stepped ==
  ASSUME Inv, Next
  PROVE  NextOK
<1>1. CallTypeOK /\ group \in Groups
  BY DEF Inv
<1>2. CASE SpiStep
  BY <1>2, SpiSteps
<1>3. CASE \E h \in Handles : set_spi_hndl(h)
  BY <1>3, HandleSteps
<1>4. CASE Call("nop", "none", nop(Start))
  BY <1>1, <1>4, NopStep, StepSuffices
<1>5. CASE ConfigCalls
  BY <1>1, <1>5, ConfigStep, StepSuffices
<1>6. CASE FeatureCalls
  BY <1>1, <1>6, FeatureStep, StepSuffices
<1>7. CASE RfCalls
  BY <1>1, <1>7, RfStep, StepSuffices
<1>8. CASE AirCalls
  BY <1>1, <1>8, AirStep, StepSuffices
<1>9. CASE PipeCalls
  BY <1>1, <1>9, PipesStep, StepSuffices
<1>10. CASE AddrCalls
  BY <1>1, <1>10, AddrStep, StepSuffices
<1>11. CASE RxPipeCalls
  BY <1>1, <1>11, RxPipeStep, StepSuffices
<1>12. CASE TxCalls
  BY <1>1, <1>12, TxStep, StepSuffices
<1>13. CASE DataCalls
  BY <1>1, <1>13, DataStep, StepSuffices
<1>14. CASE \E p \in Pipes : Receive(p)
  BY <1>1, <1>14, ReceiveStep, StepSuffices
<1>15. CASE Sent
  BY <1>1, <1>15, SentStep, StepSuffices
<1>16. CASE GivenUp
  BY <1>1, <1>16, GivenUpStep, StepSuffices
<1> QED
  BY <1>2, <1>3, <1>4, <1>5, <1>6, <1>7, <1>8, <1>9, <1>10, <1>11, <1>12, <1>13, <1>14,
     <1>15, <1>16 DEF Next, Steps

LEMMA Started == Init => Inv
<1> SUFFICES ASSUME Init
             PROVE  Inv
  OBVIOUS
<1>1. SpiInv
  <2>1. SpiTypeOK
    BY NewIsHandle DEF Init, SpiInit, SpiTypeOK
  <2>2. \A h \in Handles : hndl[h].fd = NoFd
    BY NewIsHandle DEF Init, SpiInit
  <2> QED
    BY <2>1, <2>2 DEF SpiInv
<1>2. hal \in Handle /\ group \in Groups
  BY NewIsHandle DEF Init
<1>3. done.call = "none" /\ done.failed = FALSE /\ errno = FALSE
  BY DEF Init
<1>4. regs \in RegMaps
  <2>1. PICK c \in SUBSET CONFIG_BITS, f \in SUBSET FEATURE_BITS, r \in SUBSET RF_SETUP_BITS :
          regs = [CONFIG |-> c, FEATURE |-> f, RF_SETUP |-> r,
                  EN_RXADDR |-> {}, EN_AA |-> {}, DYNPD |-> {},
                  SETUP_AW |-> 3, SETUP_RETR |-> <<0, 0>>, RF_CH |-> 0,
                  RX_PW |-> [p \in Pipes |-> 0], ADDR |-> [p \in TxOrPipe |-> NoAddr],
                  STATUS |-> {}, RX |-> <<>>, TX |-> 0]
    BY DEF Init
  <2>2. <<>> \in Fifos /\ 0 \in 0..FifoSize
    <3>1. <<>> \in Seq(Pipes) /\ Len(<<>>) = 0
      OBVIOUS
    <3>2. Len(<<>>) <= FifoSize /\ 0 \in 0..FifoSize
      BY <3>1, ValuesAssumption
    <3> QED
      BY <3>1, <3>2, FifoIs
  <2> QED
    BY <2>1, <2>2 DEF RegMaps, Fifos
<1>5. CallTypeOK /\ ErrorsTold
  BY <1>3, <1>4 DEF CallTypeOK, ErrorsTold
<1>6. AsAsked
  BY <1>3 DEF AsAsked, Kept
<1> QED
  BY <1>1, <1>2, <1>5, <1>6 DEF Inv

LEMMA Stuttered ==
  ASSUME Inv, UNCHANGED vars
  PROVE  Inv'
<1>1. UNCHANGED <<hndl, files, doubtful, hal, regs, errno, done, group>>
  BY DEF vars, spiVars, halVars
<1>2. SpiInv'
  BY <1>1 DEF Inv, SpiInv, SpiTypeOK
<1>3. hal' \in Handle /\ group' \in Groups /\ CallTypeOK' /\ ErrorsTold'
  BY <1>1 DEF Inv, CallTypeOK, ErrorsTold
<1>4. Kept(done.call, done.arg, done.failed)' <=> Kept(done.call, done.arg, done.failed)
  BY <1>1, SMTT(30) DEF Kept,
     get_operation_mode, get_power_mode, get_crc_mode, get_irq_mode, is_dynamic_payload_enabled,
     is_ack_payload_enabled, is_dynamic_ack_enabled, get_output_power, AirRate, Addressed, get_pll_mode,
     is_continuous_wave_enabled, get_rf_channel, get_auto_retr_ctr, get_auto_retr_delay,
     get_rx_payload_width, get_pipe_status, get_address_width
<1>5. AsAsked'
  BY <1>1, <1>4 DEF Inv, AsAsked
<1> QED
  BY <1>2, <1>3, <1>5 DEF Inv

LEMMA InvHolds == Spec => []Inv
<1>1. Inv /\ [Next]_vars => Inv'
  BY Stepped, Stuttered DEF NextOK
<1> QED
  BY <1>1, Started, PTL DEF Spec

-----------------------------------------------------------------------------
(***************************************************************************)
(* The theorems.                                                           *)
(***************************************************************************)

\* The registers, the handles and the files stay in their types: what a call
\* writes fits its register (nrf_hal.c: every setter, and spi.c).
THEOREM TypeCorrect == Spec => []TypeOK
<1>1. Inv => TypeOK
  BY PipesAssumption DEF Inv, SpiInv, CallTypeOK, TypeOK
<1> QED
  BY <1>1, InvHolds, PTL

\* Of the calls that are not careless none hides a failed transfer: whatever
\* came after it, errno is at ECOMM when the call returns (nrf_hal.h:30-34).
THEOREM FailuresTold == Spec => []ErrorsTold
<1>1. Inv => ErrorsTold
  BY DEF Inv
<1> QED
  BY <1>1, InvHolds, PTL

\* After a call without an error its getters return what was asked for, for
\* every channel, retransmit count, delay, width, pipe and address; the data
\* rate is the one the radio uses, and an address is whole, whatever an
\* uninitialised byte may hold, if no transfer has failed unseen.
THEOREM SetAsAsked == Spec => []AsAsked
<1>1. Inv => AsAsked
  BY DEF Inv
<1> QED
  BY <1>1, InvHolds, PTL

\* No call changes a flag or a pipe it is not about, even one that fails half
\* way; only a failed read of the output power may.
THEOREM OthersLeft == Spec => OthersKept
<1>1. Inv /\ [Next]_vars =>
        [\/ done'.failed /\ done'.call \in {"set_output_power", "config_tx"}
         \/ /\ Differ(Bits, Bits') \subseteq About(done'.call, done'.arg)
            /\ {x[1] : x \in Differ(PipeBits, PipeBits')} \subseteq AboutPipes(done'.call, done'.arg)]_vars
  BY Stepped, Zenon DEF NextOK, OthersKeptStep
<1> QED
  BY <1>1, InvHolds, PTL DEF Spec, OthersKept

\* Flags that hal_nrf_get_clear_irq_flags() takes and payloads that
\* hal_nrf_read_rx_payload() takes reach the caller, or an error does.
THEOREM NothingTakenLost == Spec => NothingLost
<1>1. Inv /\ [Next]_vars =>
        [~errno' => /\ done'.call \in {"get_clear_irq_flags", "clear_irq_flags_get_status"}
                         => regs.STATUS \ regs'.STATUS = done'.ret
                    /\ done'.call = "read_rx_payload"
                         => regs.RX = (IF done'.ret = {} THEN <<>> ELSE <<CHOOSE p \in done'.ret : TRUE>>) \o regs'.RX]_vars
  BY Stepped, Zenon DEF NextOK, NothingLostStep
<1> QED
  BY <1>1, InvHolds, PTL DEF Spec, NothingLost

\* A handle the HAL takes speaks for its device, if no setter of it failed.
THEOREM HandlesSpeakTrue == Spec => AcceptedRight
<1>1. Inv /\ [Next]_vars =>
        [done'.call = "set_spi_hndl" /\ done'.ret = {TRUE} /\ done'.arg \notin doubtful
           => files[hal'.fd].open /\ files[hal'.fd].mode = 0 /\ ~files[hal'.fd].lsb]_vars
  BY Stepped, Zenon DEF NextOK, AcceptedRightStep
<1> QED
  BY <1>1, InvHolds, PTL DEF Spec, AcceptedRight
=============================================================================
