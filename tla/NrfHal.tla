------------------------------- MODULE NrfHal -------------------------------
(***************************************************************************)
(* The nRF24L01+ driver (src/src/devices/nrf_hal.c) over an SPI handle     *)
(* (module Spi).  A call of the API is one step: a sequence of SPI         *)
(* transfers, each of which sets errno (SET_SPI_ERR) and each of which may *)
(* fail, before or after the transceiver has obeyed; after a failed read   *)
(* the value is what the uninitialised buffer held.  Most calls stop at a  *)
(* failed transfer (CHK_SPI_ERR), some go on.                              *)
(*                                                                         *)
(* Registers made of flags are sets of their bits.  The HAL is one static  *)
(* handle used by one thread (nrf_hal.h:317), so calls do not overlap; the *)
(* transceiver raises flags and receives payloads between them.            *)
(***************************************************************************)
EXTENDS Spi, Sequences, FiniteSets

CONSTANTS Pipes,     \* pipes in use, of 0 .. 5
          Addrs,     \* addresses the application sets
          Channels, Delays, Retries, PlWidths,  \* values it sets
          FifoSize,  \* payloads in a FIFO: 3
          Bytes,     \* what an uninitialised byte may hold, of 0 .. 255
          Groups     \* families of calls, of AllGroups: an application of the
                     \* instance keeps to one, they share no register

AllGroups == {"spi", "config", "feature", "rf", "air", "pipes", "addr", "rxpipe", "tx", "data"}

ASSUME PipesAssumption ==
  /\ Pipes \subseteq 0..5 /\ Groups \subseteq AllGroups
  /\ "tx" \in Groups => 0 \in Pipes    \* hal_nrf_config_tx() opens pipe 0

\* the ranges nrf_hal.h gives, and the settings of an application that uses SPI
\* for the transceiver alone
ASSUME ValuesAssumption ==
  /\ Channels \subseteq 0..127 /\ Retries \subseteq 0..15
  /\ Delays \subseteq {250 * k : k \in 1..16}
  /\ FifoSize \in Nat \ {0} /\ 8 \in Words /\ Bytes \subseteq 0..255

VARIABLES hal,    \* the HAL's copy of the handle (spi_hndl)
          regs,   \* the transceiver
          errno,  \* errno = ECOMM
          done,   \* the last call: its name, argument, result, and whether a
                  \* transfer of it failed
          group   \* the family of calls of this application

halVars == <<hal, regs, errno, done, group>>
vars == <<spiVars, halVars>>

CONFIG_BITS == {"MASK_RX_DR", "MASK_TX_DS", "MASK_MAX_RT", "EN_CRC", "CRCO", "PWR_UP", "PRIM_RX"}
RF_SETUP_BITS == {"CONT_WAVE", "RF_DR_LOW", "PLL_LOCK", "RF_DR_HIGH", "RF_PWR1", "RF_PWR0", "LNA_HCURR"}
FEATURE_BITS == {"EN_DPL", "EN_ACK_PAY", "EN_DYN_ACK"}
IRQ_FLAGS == {"RX_DR", "TX_DS", "MAX_RT"}

\* hal_nrf_address_t
HAL_NRF_TX == 6
HAL_NRF_ALL == 255
TxOrPipe == Pipes \cup {HAL_NRF_TX}
AnyPipe == TxOrPipe \cup {HAL_NRF_ALL}

\* no address given
NULL == "NULL"
AddrOrNull == Addrs \cup {NULL}

\* an address register: the address last written, in that many bytes; or the
\* byte that set_rx_payload_width() writes there
NoAddr == <<"none", 0>>
WidthByte == <<"width", 1>>

\* what an unchecked read that failed may return, an uninitialised byte: of
\* the bits the extremes stand for any
Garbage == [RF_SETUP |-> {{}, RF_SETUP_BITS}, SETUP_AW |-> Bytes]

RegMaps ==
  [CONFIG : SUBSET CONFIG_BITS, FEATURE : SUBSET FEATURE_BITS, RF_SETUP : SUBSET RF_SETUP_BITS,
   EN_RXADDR : SUBSET Pipes, EN_AA : SUBSET Pipes, DYNPD : SUBSET Pipes,
   SETUP_AW : 0..3, SETUP_RETR : (0..15) \X (0..15), RF_CH : 0..127,
   RX_PW : [Pipes -> PlWidths \cup {0}],
   ADDR : [TxOrPipe -> {NoAddr, WidthByte} \cup (Addrs \X (1..5))],
   STATUS : SUBSET IRQ_FLAGS,
   RX : UNION {[1..n -> Pipes] : n \in 0..FifoSize}, TX : 0..FifoSize]

TypeOK ==
  /\ SpiTypeOK
  /\ hal \in Handle /\ regs \in RegMaps /\ errno \in BOOLEAN /\ group \in AllGroups
  /\ done.failed \in BOOLEAN

\* the transceiver keeps its registers over runs of programs: those of the
\* group start anyhow, and pipes as after a reset of the application's making
Init ==
  /\ SpiInit /\ hal = NewHandle /\ errno = FALSE
  /\ done = [call |-> "none", arg |-> "none", failed |-> FALSE, ret |-> {}]
  /\ group \in Groups
  /\ \E c \in IF group = "config" THEN SUBSET CONFIG_BITS ELSE {{}},
        f \in IF group = "feature" THEN SUBSET FEATURE_BITS ELSE {{}},
        r \in IF group = "rf" THEN SUBSET RF_SETUP_BITS ELSE {{}} :
       regs = [CONFIG |-> c, FEATURE |-> f, RF_SETUP |-> r,
               EN_RXADDR |-> {}, EN_AA |-> {}, DYNPD |-> {},
               SETUP_AW |-> 3, SETUP_RETR |-> <<0, 0>>, RF_CH |-> 0,
               RX_PW |-> [p \in Pipes |-> 0], ADDR |-> [p \in TxOrPipe |-> NoAddr],
               STATUS |-> {}, RX |-> <<>>, TX |-> 0]

-----------------------------------------------------------------------------
(* Transfers.  A call in progress is t: the registers, errno, whether a    *)
(* transfer has failed, and the result so far.                             *)

Start == [regs |-> regs, err |-> errno, failed |-> FALSE, ret |-> {}]
Good(t) == [t EXCEPT !.err = FALSE]
Bad(t) == [t EXCEPT !.err = TRUE, !.failed = TRUE]

\* SET_SPI_ERR(spi_transmit(...)) of a transfer that makes the registers r;
\* without a handle nothing is sent
Transfer(t, r) ==
  (IF Transmits(hal.fd) THEN {Good([t EXCEPT !.regs = r]), Bad([t EXCEPT !.regs = r])} ELSE {})
  \cup {Bad(t)}

\* CHK_SPI_ERR: go on after success only
IfSent(T, K(_)) == UNION {IF t.err THEN {t} ELSE K(t) : t \in T}

\* no CHK_SPI_ERR: go on in any case
Anyhow(T, K(_)) == UNION {K(t) : t \in T}

\* hal_nrf_write_reg()
Write(t, r, v) == Transfer(t, [t.regs EXCEPT ![r] = v])

\* hal_nrf_read_reg() and CHK_SPI_ERR
Read(t, K(_)) == IfSent(Transfer(t, t.regs), K)

\* hal_nrf_read_reg() of the register r without a check: garbage if it fails
ReadUnchecked(t, r, K(_, _)) ==
  UNION {IF u.err THEN UNION {K(u, g) : g \in Garbage[r]} ELSE K(u, u.regs[r])
         : u \in Transfer(t, t.regs)}

\* mutant: the modified value is written also when the read has failed
ModifyBlind(t, r, clear, set) ==
  Anyhow(Transfer(t, t.regs), LAMBDA u :
    Write(u, r, ((IF u.err THEN {} ELSE u.regs[r]) \ clear) \cup set))

\* read, modify, write: out with the bits clear, in with the bits set
Modify(t, r, clear, set) ==
  Read(t, LAMBDA u : Write(u, r, (u.regs[r] \ clear) \cup set))

\* SET_BIT or CLR_BIT
Only(b, bit) == IF b THEN {bit} ELSE {}

-----------------------------------------------------------------------------
(* The setters, each with the getter that reads back what it sets.         *)

set_operation_mode(t, prx) == Modify(t, "CONFIG", {"PRIM_RX"}, Only(prx, "PRIM_RX"))
get_operation_mode == "PRIM_RX" \in regs.CONFIG

set_power_mode(t, up) == Modify(t, "CONFIG", {"PWR_UP"}, Only(up, "PWR_UP"))
get_power_mode == "PWR_UP" \in regs.CONFIG

\* the number of CRC bytes; OFF leaves the length bit as it was
set_crc_mode(t, n) ==
  Modify(t, "CONFIG", IF n = 0 THEN {"EN_CRC"} ELSE {"CRCO"},
         IF n = 0 THEN {} ELSE {"EN_CRC"} \cup Only(n = 2, "CRCO"))
get_crc_mode ==
  IF "EN_CRC" \notin regs.CONFIG THEN 0 ELSE IF "CRCO" \in regs.CONFIG THEN 2 ELSE 1

\* an interrupt is on when its mask bit is clear
Mask(source) == CASE source = "RX_DR" -> "MASK_RX_DR"
                  [] source = "TX_DS" -> "MASK_TX_DS"
                  [] source = "MAX_RT" -> "MASK_MAX_RT"
set_irq_mode(t, a) == Modify(t, "CONFIG", {Mask(a[1])}, Only(~a[2], Mask(a[1])))
get_irq_mode(source) == Mask(source) \notin regs.CONFIG

enable_dynamic_payload(t, b) == Modify(t, "FEATURE", {"EN_DPL"}, Only(b, "EN_DPL"))
is_dynamic_payload_enabled == "EN_DPL" \in regs.FEATURE

enable_ack_payload(t, b) == Modify(t, "FEATURE", {"EN_ACK_PAY"}, Only(b, "EN_ACK_PAY"))
is_ack_payload_enabled == "EN_ACK_PAY" \in regs.FEATURE

enable_dynamic_ack(t, b) == Modify(t, "FEATURE", {"EN_DYN_ACK"}, Only(b, "EN_DYN_ACK"))
is_dynamic_ack_enabled == "EN_DYN_ACK" \in regs.FEATURE

setup_dynamic_payload(t, pipes) == Write(t, "DYNPD", pipes)

\* the power 0 .. 3 in two bits; the read is not checked
set_output_power(t, n) ==
  ReadUnchecked(t, "RF_SETUP", LAMBDA u, v :
    Write(u, "RF_SETUP", (v \ {"RF_PWR0", "RF_PWR1"})
                         \cup Only(n % 2 = 1, "RF_PWR0") \cup Only(n \div 2 = 1, "RF_PWR1")))
get_output_power ==
  (IF "RF_PWR0" \in regs.RF_SETUP THEN 1 ELSE 0) + (IF "RF_PWR1" \in regs.RF_SETUP THEN 2 ELSE 0)

\* hal_nrf_datarate_t: 0 is 1 Mbps, 1 is 2 Mbps, 2 is 250 kbps
set_datarate(t, n) ==
  Modify(t, "RF_SETUP", {"RF_DR_LOW", "RF_DR_HIGH"},
         Only(n = 2, "RF_DR_LOW") \cup Only(n = 1, "RF_DR_HIGH"))
\* the bits as they lie in the register, one of them shifted: 0, 8 or 64,
\* none of which but 0 is a hal_nrf_datarate_t
get_datarate ==
  (IF "RF_DR_LOW" \in regs.RF_SETUP THEN 64 ELSE 0) + (IF "RF_DR_HIGH" \in regs.RF_SETUP THEN 8 ELSE 0)

set_pll_mode(t, b) == Modify(t, "RF_SETUP", {"PLL_LOCK"}, Only(b, "PLL_LOCK"))
get_pll_mode == "PLL_LOCK" \in regs.RF_SETUP

enable_continuous_wave(t, b) == Modify(t, "RF_SETUP", {"CONT_WAVE"}, Only(b, "CONT_WAVE"))
is_continuous_wave_enabled == "CONT_WAVE" \in regs.RF_SETUP

set_rf_channel(t, n) == Write(t, "RF_CH", n % 128)
get_rf_channel == regs.RF_CH % 128

\* mutant: 250 us a step, the first one not taken off
set_auto_retrRaw(t, a) == Write(t, "SETUP_RETR", <<(a[2] \div 250) % 16, a[1] % 16>>)

\* a = <<number of retransmits, delay in usec>>, a nibble each
set_auto_retr(t, a) == Write(t, "SETUP_RETR", <<(a[2] \div 256) % 16, a[1] % 16>>)
get_auto_retr_ctr == regs.SETUP_RETR[2]
get_auto_retr_delay == (regs.SETUP_RETR[1] + 1) * 250

\* mutant: the registers of the widths begin one too early
WidthAtRaw(r, p, n) ==
  IF p \in Pipes \ {0} THEN [r EXCEPT !.RX_PW[p] = n]
  ELSE IF p \in {0, HAL_NRF_ALL} THEN [r EXCEPT !.ADDR[HAL_NRF_TX] = WidthByte] ELSE r

\* the register RX_PW_P0 + p: of a pipe its width, of HAL_NRF_ALL, in 8 bits,
\* TX_ADDR, of HAL_NRF_TX one that can only be read
WidthAt(r, p, n) ==
  IF p \in Pipes THEN [r EXCEPT !.RX_PW[p] = n]
  ELSE IF p = HAL_NRF_ALL THEN [r EXCEPT !.ADDR[HAL_NRF_TX] = WidthByte] ELSE r

\* a = <<pipe, width>>
set_rx_payload_width(t, a) == Transfer(t, WidthAt(t.regs, a[1], a[2]))
get_rx_payload_width(p) == regs.RX_PW[p]

-----------------------------------------------------------------------------
(* Pipes and addresses.                                                    *)

\* p a pipe, HAL_NRF_ALL, or HAL_NRF_TX, which changes nothing
Named(p) == IF p = HAL_NRF_ALL THEN Pipes ELSE {p} \cap Pipes

\* mutant: the second write without a look at the first
WritePipesBlind(t, p, rxaddr, aa) ==
  Read(t, LAMBDA u : Read(u, LAMBDA v :
    IF p = HAL_NRF_TX THEN {v}
    ELSE Anyhow(Write(v, "EN_RXADDR", rxaddr), LAMBDA w : Write(w, "EN_AA", aa))))

\* two reads, then two writes: the pipe is enabled before its auto-ack is set
WritePipes(t, p, rxaddr, aa) ==
  Read(t, LAMBDA u : Read(u, LAMBDA v :
    IF p = HAL_NRF_TX THEN {v}
    ELSE IfSent(Write(v, "EN_RXADDR", rxaddr), LAMBDA w : Write(w, "EN_AA", aa))))

\* a = <<pipe, auto-ack>>
open_pipe(t, a) ==
  WritePipes(t, a[1], t.regs.EN_RXADDR \cup Named(a[1]),
             IF a[2] THEN t.regs.EN_AA \cup Named(a[1]) ELSE t.regs.EN_AA \ Named(a[1]))
close_pipe(t, p) ==
  WritePipes(t, p, t.regs.EN_RXADDR \ Named(p), t.regs.EN_AA \ Named(p))

\* <<enabled, auto-ack>>
get_pipe_status(p) == <<p \in regs.EN_RXADDR, p \in regs.EN_AA>>

\* mutant: the enum's value as it is
set_address_widthRaw(t, n) == Write(t, "SETUP_AW", n)

\* 3, 4 or 5 bytes
set_address_width(t, n) == Write(t, "SETUP_AW", (n - 2) % 4)
get_address_width == regs.SETUP_AW + 2

NRF_MAX_PL == 32
FullWidth == {0, 1, HAL_NRF_TX}   \* the others have one byte of their own

\* hal_nrf_write_multibyte_reg() of n bytes from the address x on: more than
\* tx[] has room for overwrite what lies behind it, and of what happens then
\* nothing is known; no byte writes nothing; of the rest 5 are kept
WriteAddress(t, p, x, n) ==
  IF n > NRF_MAX_PL THEN {[t EXCEPT !.ret = {"overrun"}]}
  ELSE IF n = 0 THEN Transfer(t, t.regs)
  ELSE Transfer(t, [t.regs EXCEPT !.ADDR[p] = <<x, IF n < 5 THEN n ELSE 5>>])

\* pipes 0 and 1 and TX: as many bytes as the width read before, unchecked,
\* tells; the others one byte; HAL_NRF_ALL: nothing, and errno stays
\* a = <<pipe, address>>
set_address(t, a) ==
  CASE a[1] \in FullWidth ->
         ReadUnchecked(t, "SETUP_AW", LAMBDA u, v : WriteAddress(u, a[1], a[2], (v + 2) % 256))
    [] a[1] \in 2..5 -> Transfer(t, [t.regs EXCEPT !.ADDR[a[1]] = <<a[2], 1>>])
    [] OTHER -> {t}
get_address(t, p) ==
  IF p \in FullWidth THEN Read(t, LAMBDA u : Transfer(u, u.regs)) ELSE Transfer(t, t.regs)

\* if (addr): without one the address stays
GivenAddress(t, p, x) == IF x = NULL THEN {t} ELSE set_address(t, <<p, x>>)

\* a = <<pipe, address or NULL, auto-ack, payload width>>
config_rx_pipe(t, a) ==
  IfSent(open_pipe(t, <<a[1], a[3]>>), LAMBDA u :
  IfSent(GivenAddress(u, a[1], a[2]), LAMBDA v : set_rx_payload_width(v, <<a[1], a[4]>>)))

\* a = <<address or NULL, power, retransmits, delay>>
config_tx(t, a) ==
  IfSent(set_output_power(t, a[2]), LAMBDA u :
  IfSent(set_auto_retr(u, <<a[3], a[4]>>), LAMBDA v :
  IfSent(GivenAddress(v, HAL_NRF_TX, a[1]), LAMBDA w :
  IfSent(GivenAddress(w, 0, a[1]), LAMBDA x : open_pipe(x, <<0, TRUE>>)))))

-----------------------------------------------------------------------------
(* Data and status.                                                        *)

\* mutant: the status is read after the flags were cleared
ClearFlagsFirst(t, flags) ==
  Transfer([t EXCEPT !.ret = t.regs.STATUS \ flags], [t.regs EXCEPT !.STATUS = @ \ flags])

\* writing a flag of STATUS clears it; the transfer returns the old STATUS
ClearFlags(t, flags) ==
  Transfer([t EXCEPT !.ret = t.regs.STATUS], [t.regs EXCEPT !.STATUS = @ \ flags])
get_clear_irq_flags(t) == ClearFlags(t, IRQ_FLAGS)
clear_irq_flag(t, flag) == ClearFlags(t, {flag})

\* the read for the pipe bits after it adds no flags
clear_irq_flags_get_status(t) == IfSent(get_clear_irq_flags(t), LAMBDA u : Transfer(u, u.regs))

\* the pipe of the first payload, its width, the payload, which leaves the
\* FIFO; of an empty FIFO nothing is read
read_rx_payload(t) ==
  Read(t, LAMBDA u :
    IF u.regs.RX = <<>> THEN {u}
    ELSE Read([u EXCEPT !.ret = {Head(u.regs.RX)}], LAMBDA v :
           Transfer(v, [v.regs EXCEPT !.RX = Tail(@)])))

\* into the TX FIFO; a full one takes no more
write_tx_payload(t) ==
  Transfer(t, [t.regs EXCEPT !.TX = IF @ < FifoSize THEN @ + 1 ELSE @])
\* the payload of an ACK waits in the same FIFO; not for HAL_NRF_TX
write_ack_payload(t, p) == IF p \in 0..5 THEN write_tx_payload(t) ELSE {t}
flush_rx(t) == Transfer(t, [t.regs EXCEPT !.RX = <<>>])
flush_tx(t) == Transfer(t, [t.regs EXCEPT !.TX = 0])

\* hal_nrf_nop(), and each getter that reads one register
nop(t) == Transfer(t, t.regs)

\* one register after the other, up to the first that fails; the result is
\* the number of fields of the context that hold their register
CtxSize == 22
save_ctx(t) ==
  {[Bad(t) EXCEPT !.ret = {n}] : n \in 0..CtxSize - 1}
  \cup (IF Transmits(hal.fd) THEN {[Good(t) EXCEPT !.ret = {CtxSize}]} ELSE {})

-----------------------------------------------------------------------------
(* The steps.                                                              *)

\* a call that ends as one of the outcomes T
Call(name, arg, T) ==
  /\ \E t \in T :
       /\ regs' = t.regs
       /\ errno' = t.err
       /\ done' = [call |-> name, arg |-> arg, failed |-> t.failed, ret |-> t.ret]
  /\ UNCHANGED <<spiVars, hal, group>>

\* hal_nrf_set_spi_hndl(): a deep copy of a handle that looks right
set_spi_hndl(h) ==
  LET p == hndl[h]
      accepted == p.fd # NoFd /\ p.mode = 0 /\ ~p.lsb /\ p.bits = 8
  IN  /\ hal' = IF accepted THEN p ELSE hal
      /\ done' = [call |-> "set_spi_hndl", arg |-> h, failed |-> FALSE, ret |-> {accepted}]
      /\ UNCHANGED <<spiVars, regs, errno, group>>

\* the application's SPI calls between HAL calls; outside the group "spi" it
\* takes the defaults and leaves them
SpiStep ==
  /\ \/ \E h \in Handles : spi_init(h, 0, FALSE, 8)
     \/ /\ group = "spi"
        /\ \E h \in Handles :
             \/ spi_free(h)
             \/ \E m \in Modes, b \in BOOLEAN, n \in Words : spi_init(h, m, b, n)
             \/ \E m \in Modes : spi_set_mode(h, m)
             \/ \E b \in BOOLEAN : spi_set_lsb(h, b)
             \/ \E n \in Words, i \in BOOLEAN : spi_set_bits_per_word(h, n, i)
  /\ UNCHANGED <<hal, regs, errno, group>>
  /\ done' = [call |-> "spi", arg |-> "none", failed |-> FALSE, ret |-> {}]

ConfigCalls ==
  /\ group = "config"
  /\ \/ \E b \in BOOLEAN : \/ Call("set_operation_mode", b, set_operation_mode(Start, b))
                           \/ Call("set_power_mode", b, set_power_mode(Start, b))
     \/ \E n \in 0..2 : Call("set_crc_mode", n, set_crc_mode(Start, n))
     \/ \E a \in IRQ_FLAGS \X BOOLEAN : Call("set_irq_mode", a, set_irq_mode(Start, a))

FeatureCalls ==
  /\ group = "feature"
  /\ \/ \E b \in BOOLEAN : \/ Call("enable_dynamic_payload", b, enable_dynamic_payload(Start, b))
                           \/ Call("enable_ack_payload", b, enable_ack_payload(Start, b))
                           \/ Call("enable_dynamic_ack", b, enable_dynamic_ack(Start, b))
     \/ \E s \in SUBSET Pipes : Call("setup_dynamic_payload", s, setup_dynamic_payload(Start, s))
     \/ Call("save_ctx", "none", save_ctx(Start))

RfCalls ==
  /\ group = "rf"
  /\ \/ \E n \in 0..3 : Call("set_output_power", n, set_output_power(Start, n))
     \/ \E n \in 0..2 : Call("set_datarate", n, set_datarate(Start, n))
     \/ \E b \in BOOLEAN : \/ Call("set_pll_mode", b, set_pll_mode(Start, b))
                           \/ Call("enable_continuous_wave", b, enable_continuous_wave(Start, b))

AirCalls ==
  /\ group = "air"
  /\ \/ \E n \in Channels : Call("set_rf_channel", n, set_rf_channel(Start, n))
     \/ \E a \in Retries \X Delays : Call("set_auto_retr", a, set_auto_retr(Start, a))
     \/ \E a \in AnyPipe \X PlWidths : Call("set_rx_payload_width", a, set_rx_payload_width(Start, a))

PipeCalls ==
  /\ group = "pipes"
  /\ \/ \E a \in AnyPipe \X BOOLEAN : Call("open_pipe", a, open_pipe(Start, a))
     \/ \E p \in AnyPipe : Call("close_pipe", p, close_pipe(Start, p))

AddrCalls ==
  /\ group = "addr"
  /\ \/ \E n \in 3..5 : Call("set_address_width", n, set_address_width(Start, n))
     \/ \E a \in AnyPipe \X Addrs : Call("set_address", a, set_address(Start, a))
     \/ \E p \in TxOrPipe : Call("get_address", p, get_address(Start, p))

RxPipeCalls ==
  /\ group = "rxpipe"
  /\ \E p \in AnyPipe, x \in AddrOrNull, b \in BOOLEAN, n \in PlWidths :
       Call("config_rx_pipe", <<p, x, b, n>>, config_rx_pipe(Start, <<p, x, b, n>>))

TxCalls ==
  /\ group = "tx"
  /\ \E x \in AddrOrNull, n \in {0, 3}, r \in Retries, d \in {250} :
       Call("config_tx", <<x, n, r, d>>, config_tx(Start, <<x, n, r, d>>))

DataCalls ==
  /\ group = "data"
  /\ \/ Call("get_clear_irq_flags", "none", get_clear_irq_flags(Start))
     \/ Call("clear_irq_flags_get_status", "none", clear_irq_flags_get_status(Start))
     \/ \E f \in IRQ_FLAGS : Call("clear_irq_flag", f, clear_irq_flag(Start, f))
     \/ Call("read_rx_payload", "none", read_rx_payload(Start))
     \/ Call("write_tx_payload", "none", write_tx_payload(Start))
     \/ \E p \in TxOrPipe : Call("write_ack_payload", p, write_ack_payload(Start, p))
     \/ Call("flush_rx", "none", flush_rx(Start))
     \/ Call("flush_tx", "none", flush_tx(Start))

\* the transceiver between two calls: a payload comes in, one goes out, or
\* one is given up
Chip(r, flag) ==
  /\ group = "data"
  /\ regs' = [r EXCEPT !.STATUS = @ \cup {flag}]
  /\ done' = [call |-> "chip", arg |-> flag, failed |-> FALSE, ret |-> {}]
  /\ UNCHANGED <<spiVars, hal, errno, group>>
Receive(p) == Len(regs.RX) < FifoSize /\ Chip([regs EXCEPT !.RX = Append(@, p)], "RX_DR")
Sent == regs.TX > 0 /\ Chip([regs EXCEPT !.TX = @ - 1], "TX_DS")
GivenUp == regs.TX > 0 /\ Chip(regs, "MAX_RT")

\* a call has written past its buffer: the program may do anything now
Overrun == done.call \in {"set_address", "config_rx_pipe", "config_tx"} /\ done.ret = {"overrun"}

Steps ==
  \/ SpiStep
  \/ \E h \in Handles : set_spi_hndl(h)
  \/ Call("nop", "none", nop(Start))
  \/ ConfigCalls \/ FeatureCalls \/ RfCalls \/ AirCalls \/ PipeCalls \/ AddrCalls
  \/ RxPipeCalls \/ TxCalls \/ DataCalls
  \/ \E p \in Pipes : Receive(p)
  \/ Sent
  \/ GivenUp

Next == ~Overrun /\ Steps

Spec == Init /\ [][Next]_vars

-----------------------------------------------------------------------------
(* Properties.                                                             *)

\* calls with a transfer the next one's success may hide
Careless == {"set_output_power", "set_address", "config_rx_pipe", "config_tx"}

\* A call one of whose transfers failed leaves errno at ECOMM, whatever came
\* after the failure (nrf_hal.h:30-34); the careless ones do not.
ErrorsTold == done.failed /\ done.call \notin Careless => errno

\* ... which a caller may take for granted ("A caller should check the errno
\* value against ECOMM after any API call to detect SPI communication issues",
\* nrf_hal.h:30-34): the statement for every call, which does not hold.
AllErrorsTold == done.failed => errno

\* the data rate the transceiver uses with these bits
AirRate == IF "RF_DR_LOW" \in regs.RF_SETUP THEN 2 ELSE IF "RF_DR_HIGH" \in regs.RF_SETUP THEN 1 ELSE 0

\* all of the address x and no more is in the register of p
Addressed(p, x) ==
  /\ p \in FullWidth => regs.ADDR[p] = <<x, get_address_width>>
  /\ p \in 2..5 => regs.ADDR[p] = <<x, 1>>

\* what a call that reports no error has promised of the registers; f: whether
\* a transfer of it failed
Kept(c, a, f) ==
  /\ c = "set_operation_mode" => get_operation_mode = a
  /\ c = "set_power_mode" => get_power_mode = a
  /\ c = "set_crc_mode" => get_crc_mode = a
  /\ c = "set_irq_mode" => get_irq_mode(a[1]) = a[2]
  /\ c = "enable_dynamic_payload" => is_dynamic_payload_enabled = a
  /\ c = "enable_ack_payload" => is_ack_payload_enabled = a
  /\ c = "enable_dynamic_ack" => is_dynamic_ack_enabled = a
  /\ c = "set_output_power" => get_output_power = a
  /\ c = "set_datarate" => AirRate = a
  /\ c = "set_pll_mode" => get_pll_mode = a
  /\ c = "enable_continuous_wave" => is_continuous_wave_enabled = a
  /\ c = "set_rf_channel" => get_rf_channel = a
  /\ c = "set_auto_retr" => get_auto_retr_ctr = a[1] /\ get_auto_retr_delay = a[2]
  /\ c = "set_rx_payload_width" /\ a[1] \in Pipes => get_rx_payload_width(a[1]) = a[2]
  /\ c = "open_pipe" => \A p \in Named(a[1]) : get_pipe_status(p) = <<TRUE, a[2]>>
  /\ c = "close_pipe" => \A p \in Named(a) : get_pipe_status(p) = <<FALSE, FALSE>>
  /\ c = "set_address_width" => get_address_width = a
  /\ c = "set_address" /\ ~f => Addressed(a[1], a[2])
  /\ c = "config_rx_pipe" => /\ \A p \in Named(a[1]) : get_pipe_status(p) = <<TRUE, a[3]>>
                             /\ a[1] \in Pipes => get_rx_payload_width(a[1]) = a[4]
                             /\ a[2] # NULL /\ ~f => Addressed(a[1], a[2])
  /\ c = "config_tx" => /\ get_output_power = a[2]
                        /\ get_auto_retr_ctr = a[3] /\ get_auto_retr_delay = a[4]
                        /\ a[1] # NULL /\ ~f => Addressed(HAL_NRF_TX, a[1]) /\ Addressed(0, a[1])
                        /\ get_pipe_status(0) = <<TRUE, TRUE>>
  /\ c = "save_ctx" => done.ret = {CtxSize}

\* After a call that reports no error its getters return what was asked for:
\* every step of the call was taken, and the encodings and decodings of the
\* registers are inverse to each other.  The data rate, whose getter returns
\* something else, is the one the transceiver uses; an address is whole if no
\* transfer has failed unseen.
AsAsked == ~errno => Kept(done.call, done.arg, done.failed)

\* hal_nrf_get_datarate() returns the hal_nrf_datarate_t that was set, as its
\* type and its comment have it (nrf_hal.h:439-442): it does not.
DatarateRead == done.call = "set_datarate" /\ ~errno => get_datarate = done.arg

\* the bits a call is about
About(c, a) ==
  CASE c = "set_operation_mode" -> {"PRIM_RX"}
    [] c = "set_power_mode" -> {"PWR_UP"}
    [] c = "set_crc_mode" -> {"EN_CRC", "CRCO"}
    [] c = "set_irq_mode" -> {Mask(a[1])}
    [] c = "enable_dynamic_payload" -> {"EN_DPL"}
    [] c = "enable_ack_payload" -> {"EN_ACK_PAY"}
    [] c = "enable_dynamic_ack" -> {"EN_DYN_ACK"}
    [] c \in {"set_output_power", "config_tx"} -> {"RF_PWR0", "RF_PWR1"}
    [] c = "set_datarate" -> {"RF_DR_LOW", "RF_DR_HIGH"}
    [] c = "set_pll_mode" -> {"PLL_LOCK"}
    [] c = "enable_continuous_wave" -> {"CONT_WAVE"}
    [] OTHER -> {}

AboutPipes(c, a) ==
  CASE c = "open_pipe" -> Named(a[1])
    [] c = "close_pipe" -> Named(a)
    [] c = "config_rx_pipe" -> Named(a[1])
    [] c = "config_tx" -> {0}
    [] OTHER -> {}

\* the address registers it may write; HAL_NRF_ALL makes a payload width the
\* first byte of the TX address, where it was not asked for
AboutAddrs(c, a) ==
  (CASE c = "set_address" -> {a[1]}
     [] c = "config_rx_pipe" -> IF a[2] = NULL THEN {} ELSE {a[1]}
     [] c = "config_tx" -> IF a[1] = NULL THEN {} ELSE {0, HAL_NRF_TX}
     [] OTHER -> {})
  \cup (IF c \in {"set_rx_payload_width", "config_rx_pipe"} /\ a[1] = HAL_NRF_ALL
        THEN {HAL_NRF_TX} ELSE {})

Bits == regs.CONFIG \cup regs.FEATURE \cup regs.RF_SETUP
PipeBits == (regs.EN_RXADDR \X {"EN_RXADDR"}) \cup (regs.EN_AA \X {"EN_AA"})
Differ(S, T) == (S \ T) \cup (T \ S)

\* A call changes only the bits it is about, also when a transfer fails half
\* way: a register is never written back from a value that was not read
\* ("the rest of the interrupt sources are left unchanged", nrf_hal.h).  A
\* failed read in hal_nrf_set_output_power() is the exception.
OthersKept ==
  [][\/ done'.failed /\ done'.call \in {"set_output_power", "config_tx"}
     \/ /\ Differ(Bits, Bits') \subseteq About(done'.call, done'.arg)
        /\ {x[1] : x \in Differ(PipeBits, PipeBits')} \subseteq AboutPipes(done'.call, done'.arg)]_vars

\* A call writes no address register but those of the pipes it is given an
\* address for: without one the configuring calls leave it ("if 0: don't
\* change the address", nrf_hal.h), wherever a transfer fails.
AddressesKept ==
  [][\A p \in TxOrPipe \ AboutAddrs(done'.call, done'.arg) : regs'.ADDR[p] = regs.ADDR[p]]_vars

\* What is taken from the transceiver reaches the caller or an error does:
\* flags that were cleared are among those returned, and a payload that left
\* the FIFO is the one whose pipe is returned.
NothingLost ==
  [][~errno' => /\ done'.call \in {"get_clear_irq_flags", "clear_irq_flags_get_status"}
                     => regs.STATUS \ regs'.STATUS = done'.ret
                /\ done'.call = "read_rx_payload"
                     => regs.RX = (IF done'.ret = {} THEN <<>> ELSE <<CHOOSE p \in done'.ret : TRUE>>) \o regs'.RX]_vars

\* The HAL takes no handle whose device transfers in another mode or bit
\* order than the transceiver needs, provided no setter of the handle has
\* failed: a handle that spi_init() returned speaks for its device.
AcceptedRight ==
  [][done'.call = "set_spi_hndl" /\ done'.ret = {TRUE} /\ done'.arg \notin doubtful
     => files[hal'.fd].open /\ files[hal'.fd].mode = 0 /\ ~files[hal'.fd].lsb]_vars
=============================================================================
