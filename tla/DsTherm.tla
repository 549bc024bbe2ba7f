------------------------------ MODULE DsTherm -------------------------------
(***************************************************************************)
(* DS18x20 thermometers on a 1-wire bus (src/src/devices/ds_therm.c).  The *)
(* calls are sequences of w1 messages (module W1Exec); the kernel executes *)
(* one message at a time, and between two messages of a call come those of *)
(* other processes.  A message may fail, before or after the sensor has    *)
(* obeyed, and what is read may be wrong: the CRC of a scratchpad tells,   *)
(* except when all its bytes are 0; the bit of the power supply has none.  *)
(*                                                                         *)
(* A parasitic sensor takes its power from the bus.  It converts only      *)
(* while nobody talks: under a pull-up the bus is held by the kernel,      *)
(* without one any message cuts the power, and the sensor starts again     *)
(* from its EEPROM.                                                        *)
(*                                                                         *)
(* Time goes in units of 93.75 ms, the longest conversion at 9 bits.  The  *)
(* fraction of a millisecond that the shift in dsth_get_conv_time drops    *)
(* (93 ms) passes while the next message addresses the sensor, some 5 ms.  *)
(* How long its conversions take is up to the sensor, within its data      *)
(* sheet; the sleep of the program may be cut short by a signal.           *)
(***************************************************************************)
EXTENDS Integers

CONSTANTS Procs,       \* processes that probe and set resolutions, each in at
                       \* most one call
          Others,      \* processes whose calls are single messages
          Therms,      \* sensors
          Buses,       \* the possible sets of sensors on the bus
          DS18S20,     \* those of this family; the others have a resolution
          Parasitics,  \* the possible sets of parasitic ones
          Temps,       \* temperatures, in 1/16 of a degree
          Pullups,     \* pull-up times the others ask for
          Speeds,      \* what the sensors' conversions may take, by resolution
          Alarms,      \* values of TH and TL
          Resolutions, \* of dsth_res_t: 0 is 9 bits, 3 is 12 bits
          MaxFaults,   \* bound on messages that fail or are read wrong
          MaxChanges   \* bound on changes of the temperature

\* DSTH_CONV_T_12BIT, 750 ms
DSTH_CONV_T_12BIT == 8

\* (external) of the data sheets: the longest conversion doubles with every bit
Slowest(res) == 2^res

ASSUME ThermAssumption ==
  /\ Speeds \subseteq [Therms -> [0..3 -> Nat \ {0}]] /\ 0 \in Alarms
  /\ \A v \in Speeds : \A s \in Therms : \A res \in 0..3 : v[s][res] <= Slowest(res)
  /\ Resolutions \subseteq 0..3 /\ DS18S20 \subseteq Therms
  /\ Temps \subseteq -880..2000 /\ MaxFaults \in Nat /\ MaxChanges \in Nat
  /\ Pullups \subseteq Nat /\ Buses \subseteq SUBSET Therms
  /\ Procs \cap Others = {} /\ "none" \notin Procs

VARIABLES WritePullup, \* CONFIG_WRITE_PULLUP of the build
          bus,         \* sensors on the bus; more of its devices may be talked to
          parasitic,   \* sensors without a supply of their own
          speed,       \* how long their conversions take
          amb,         \* the temperature, which all sensors share
          sens,        \* the sensors
          hold,        \* time for which the kernel still holds the bus pulled up
          call,        \* the calls in progress
          done,        \* the call that returned in the last step
          felt,        \* history: temperatures since the conversion of a call
          spoiled,     \* history: someone else commanded the sensor of the
                       \* call, or something was read wrong and not noticed
          faults, changes

thermVars == <<WritePullup, bus, parasitic, speed, amb, sens, hold, call, done, felt, spoiled, faults, changes>>
setting == <<WritePullup, bus, parasitic, speed>>

\* alarms and resolution, of which a scratchpad and the EEPROM behind it have
\* one each.  A sensor is a record of both (reg, eeprom), the last temperature and
\* the resolution it was taken with (temp, tres), and the time left of a conversion
Settings == [alarm : Alarms, res : Resolutions]

\* a call: where it is, its sensor, what it has read of it, the time it sleeps
Idle == [at |-> "idle", s |-> "none", paras |-> FALSE, res |-> 0, wait |-> 0,
         old |-> CHOOSE r \in Settings : TRUE]
NoReturn == [p |-> "none", ret |-> "none", temp |-> 0]

\* mutant: shifted once more
dsth_get_conv_timeShort(res) == DSTH_CONV_T_12BIT \div 2^(4 - res)

dsth_get_conv_time(res) == DSTH_CONV_T_12BIT \div 2^(3 - res)

\* what the sensor makes of registers written to it
Regs(s, reg) == IF s \in DS18S20 THEN [reg EXCEPT !.res = 3] ELSE reg

ThermInit ==
  /\ WritePullup \in BOOLEAN /\ bus \in Buses /\ parasitic \in Parasitics /\ speed \in Speeds /\ amb \in Temps
  /\ \E r \in Settings :
       sens = [s \in Therms |-> [temp |-> 1360, tres |-> 3, conv |-> 0,
                                 reg |-> Regs(s, r), eeprom |-> Regs(s, r)]]
  /\ hold = 0 /\ call = [p \in Procs |-> Idle] /\ done = NoReturn
  /\ felt = [p \in Procs |-> {}] /\ spoiled = [p \in Procs |-> FALSE]
  /\ faults = 0 /\ changes = 0

-----------------------------------------------------------------------------
(* The bus and the sensors (external).                                     *)

\* power-on: 85 degrees, and the EEPROM's registers
Reset(x) == [x EXCEPT !.temp = 1360, !.tres = 3, !.reg = x.eeprom, !.conv = 0]

\* the sensors when a message begins: parasitic ones may not be converting
Awake == [s \in Therms |->
            IF s \in parasitic /\ sens[s].conv > 0 THEN Reset(sens[s]) ELSE sens[s]]

\* commands
Convert(s, x) == [x EXCEPT !.conv = speed[s][x.reg.res]]
WriteRegs(s, x, reg) == [x EXCEPT !.reg = Regs(s, reg)]
Copy(x) == [x EXCEPT !.eeprom = x.reg]
Recall(x) == [x EXCEPT !.reg = x.eeprom]

\* a message of p that makes the sensors in S obey, F giving their new states
Message(p, S, F(_, _)) ==
  /\ hold = 0
  /\ sens' = [s \in Therms |-> IF s \in S THEN F(s, Awake[s]) ELSE Awake[s]]
  /\ spoiled' = [q \in Procs |-> spoiled[q] \/ (q # p /\ call[q].s \in S)]

\* one that changes nothing
Query(p) == Message(p, {}, LAMBDA s, x : x)

Fault == faults < MaxFaults /\ faults' = faults + 1
NoFault == UNCHANGED faults

\* a read of p that brings something else than the sensor sent, and no error
Misread(p) ==
  /\ hold = 0 /\ sens' = Awake /\ Fault
  /\ spoiled' = [spoiled EXCEPT ![p] = TRUE]

\* the scratchpad's two temperature bytes; of the bits below the resolution
\* all may be 0 or all 1.  A DS18S20 has the degrees, doubled, and the rest in
\* sixteenths to the next one (COUNT_REMAIN of COUNT_PER_C, here rem of per)
Bytes(t) == [hsb |-> (t \div 256) % 256, lsb |-> t % 256]
Scratchpads(s, x) ==
  IF s \in DS18S20
  THEN LET k == x.temp + 3
       IN  {[bytes |-> Bytes(2 * (k \div 16) + half), res |-> 3, rem |-> 15 - (k % 16), per |-> 16] : half \in {0, 1}}
  ELSE LET step == 2^(3 - x.tres)
       IN  {[bytes |-> Bytes((x.temp \div step) * step + low), res |-> x.reg.res, rem |-> 0, per |-> 16]
            : low \in {0, step - 1}}

\* one of zeros, as a bus stuck low gives it: its CRC is right
ZeroScratchpad == [bytes |-> Bytes(0), res |-> 0, rem |-> 0, per |-> 0]
ZeroRegs == [alarm |-> 0, res |-> 0]

-----------------------------------------------------------------------------
(* The program.                                                            *)

\* division in C
CDiv(a, b) == IF a >= 0 THEN a \div b ELSE -((-a) \div b)

dsth_get_temp_scratchpad(s, scpd) ==
  LET hsb == scpd.bytes.hsb
      temp == (IF hsb < 128 THEN hsb ELSE hsb - 256) * 256 + scpd.bytes.lsb
      step == 2^(3 - scpd.res)
  IN  IF s \notin DS18S20 THEN CDiv((temp \div step) * step * 1000, 16)
      ELSE IF scpd.per = 0 THEN CDiv(temp * 1000, 2)
      ELSE 1000 * (temp \div 2) - 250 + CDiv(1000 * (scpd.per - scpd.rem), scpd.per)

Goto(p, c) == call' = [call EXCEPT ![p] = c] /\ done' = NoReturn /\ UNCHANGED felt
Return(p, ret, temp) ==
  /\ call' = [call EXCEPT ![p] = Idle]
  /\ done' = [p |-> p, ret |-> ret, temp |-> temp]
  /\ felt' = [felt EXCEPT ![p] = {}]

\* EXEC_RG: the message was sent or not, and its call returns an error
Fails(p, S, F(_, _)) ==
  /\ Fault
  /\ Message(p, S, F) \/ (UNCHANGED <<sens, spoiled>> /\ hold = 0)
  /\ Return(p, "ERR", 0)

\* a scratchpad whose CRC does not match
Garbled(p) == Fault /\ Query(p) /\ Return(p, "DTA_CRPT", 0)

Begin(p, c) ==
  /\ call[p].at = "idle"
  /\ Goto(p, c)
  /\ spoiled' = [spoiled EXCEPT ![p] = FALSE]
  /\ UNCHANGED <<setting, amb, sens, hold, faults, changes>>

dsth_probe(p, s) == Begin(p, [Idle EXCEPT !.s = s, !.at = IF WritePullup THEN "pow" ELSE "res"])

dsth_read_pow_supply(p) ==
  LET is_paras == call[p].s \in parasitic
      next(b) == Goto(p, [call[p] EXCEPT !.paras = b, !.at = "res"])
  IN  /\ call[p].at = "pow"
      /\ \/ Query(p) /\ NoFault /\ next(is_paras)
         \/ Misread(p) /\ next(~is_paras)
         \/ Fails(p, {}, LAMBDA s, x : x)
      /\ UNCHANGED <<setting, amb, hold, changes>>

\* a DS18S20 is not asked
dsth_get_res(p) ==
  LET s == call[p].s
      next(r) == Goto(p, [call[p] EXCEPT !.res = r, !.at = "conv"])
  IN  /\ call[p].at = "res"
      /\ \/ s \in DS18S20 /\ next(3) /\ UNCHANGED <<sens, spoiled, faults>>
         \/ /\ s \notin DS18S20
            /\ \/ Query(p) /\ NoFault /\ next(Awake[s].reg.res)
               \/ Misread(p) /\ next(ZeroRegs.res)
               \/ Garbled(p)
               \/ Fails(p, {}, LAMBDA t, x : x)
      /\ UNCHANGED <<setting, amb, hold, changes>>

\* dsth_convert_t() and usleep(), or dsth_convert_t_with_pullup(), whose
\* message ends with the pull-up
dsth_convert_t(p) ==
  LET s == call[p].s
      time == dsth_get_conv_time(call[p].res)
  IN  /\ call[p].at = "conv"
      /\ \/ /\ Message(p, {s}, Convert) /\ NoFault
            /\ felt' = [felt EXCEPT ![p] = {amb}] /\ done' = NoReturn
            /\ IF call[p].paras
               THEN /\ hold' = time
                    /\ call' = [call EXCEPT ![p].at = "pull"]
               ELSE /\ call' = [call EXCEPT ![p].at = "wait", ![p].wait = time]
                    /\ UNCHANGED hold
         \/ Fails(p, {s}, Convert) /\ UNCHANGED hold
      /\ UNCHANGED <<setting, amb, changes>>

\* the usleep() is cut short by a signal, which nobody looks at
Signal(p) ==
  /\ call[p].at = "wait" /\ call[p].wait > 0
  /\ Goto(p, [call[p] EXCEPT !.at = "cut", !.wait = 0])
  /\ UNCHANGED <<setting, amb, sens, hold, spoiled, faults, changes>>

\* the temperature, after the wait
Waited(p) == call[p].at \in {"pull", "cut"} \/ (call[p].at = "wait" /\ call[p].wait = 0)
ReadTemp(p) ==
  LET s == call[p].s
      answer(scpd) == Return(p, "SUCCESS", dsth_get_temp_scratchpad(s, scpd))
  IN  /\ Waited(p)
      /\ \/ /\ Query(p) /\ NoFault
            /\ \E scpd \in Scratchpads(s, Awake[s]) : answer(scpd)
         \/ Misread(p) /\ answer(ZeroScratchpad)
         \/ Garbled(p)
         \/ Fails(p, {}, LAMBDA t, x : x)
      /\ UNCHANGED <<setting, amb, hold, changes>>

\* dsth_set_res(): read the scratchpad, write it back with the resolution; a
\* DS18S20 takes 12 bits only, and nothing is sent
dsth_set_res(p, s, r) ==
  \/ s \notin DS18S20 /\ Begin(p, [Idle EXCEPT !.s = s, !.res = r, !.at = "get"])
  \/ /\ s \in DS18S20 /\ call[p].at = "idle"
     /\ Return(p, IF r = 3 THEN "SUCCESS" ELSE "DEV_ERR", 0)
     /\ UNCHANGED <<setting, amb, sens, hold, spoiled, faults, changes>>

\* mutant: the CRC is not looked at
SetResReadBlind(p) ==
  LET s == call[p].s
  IN  /\ call[p].at = "get"
      /\ \/ /\ Query(p) /\ NoFault
            /\ Goto(p, [call[p] EXCEPT !.at = "put", !.old = Awake[s].reg])
         \/ \E reg \in Settings : /\ Query(p) /\ Fault
                                  /\ Goto(p, [call[p] EXCEPT !.at = "put", !.old = reg])
         \/ Fails(p, {}, LAMBDA t, x : x)
      /\ UNCHANGED <<setting, amb, hold, changes>>

SetResRead(p) ==
  LET s == call[p].s
  IN  /\ call[p].at = "get"
      /\ \/ /\ Query(p) /\ NoFault
            /\ Goto(p, [call[p] EXCEPT !.at = "put", !.old = Awake[s].reg])
         \/ Misread(p) /\ Goto(p, [call[p] EXCEPT !.at = "put", !.old = ZeroRegs])
         \/ Garbled(p)
         \/ Fails(p, {}, LAMBDA t, x : x)
      /\ UNCHANGED <<setting, amb, hold, changes>>

SetResWrite(p) ==
  LET s == call[p].s
      F(t, x) == WriteRegs(t, x, [call[p].old EXCEPT !.res = call[p].res])
  IN  /\ call[p].at = "put"
      /\ \/ Message(p, {s}, F) /\ NoFault /\ Return(p, "SUCCESS", 0)
         \/ Fails(p, {s}, F)
      /\ UNCHANGED <<setting, amb, hold, changes>>

\* the calls of one message, to one sensor or to all; a pull-up lasts for the
\* time the caller names (that of a copy is less than a unit)
Commands(p, S) ==
  /\ \/ \E time \in {0} \cup (IF WritePullup THEN Pullups ELSE {}) :
          Message(p, S, Convert) /\ hold' = time
     \/ /\ \/ Query(p)
           \/ \E reg \in Settings : Message(p, S, LAMBDA s, x : WriteRegs(s, x, reg))
           \/ Message(p, S, LAMBDA s, x : Copy(x))
           \/ Message(p, S, LAMBDA s, x : Recall(x))
        /\ UNCHANGED hold
  /\ done' = NoReturn
  /\ UNCHANGED <<setting, amb, call, felt, faults, changes>>

-----------------------------------------------------------------------------
\* a unit of time, if anything waits for it: a conversion ends with the
\* temperature of that moment
Minus(n) == IF n = 0 THEN 0 ELSE n - 1
Tick ==
  /\ hold > 0 \/ (\E s \in Therms : sens[s].conv > 0) \/ (\E p \in Procs : call[p].wait > 0)
  /\ hold' = Minus(hold)
  /\ call' = [p \in Procs |-> [call[p] EXCEPT !.wait = Minus(@)]]
  /\ sens' = [s \in Therms |->
       IF sens[s].conv = 1
       THEN [sens[s] EXCEPT !.conv = 0, !.temp = amb, !.tres = sens[s].reg.res]
       ELSE [sens[s] EXCEPT !.conv = Minus(@)]]
  /\ done' = NoReturn
  /\ UNCHANGED <<setting, amb, felt, spoiled, faults, changes>>

\* the temperature changes
Warm ==
  /\ changes < MaxChanges /\ changes' = changes + 1
  /\ amb' \in Temps \ {amb}
  /\ felt' = [p \in Procs |-> IF felt[p] = {} THEN {} ELSE felt[p] \cup {amb'}]
  /\ done' = NoReturn
  /\ UNCHANGED <<setting, sens, hold, call, spoiled, faults>>

ThermNext ==
  \/ \E p \in Procs :
       \/ \E s \in bus :
            \/ dsth_probe(p, s)
            \/ \E r \in Resolutions : dsth_set_res(p, s, r)
       \/ dsth_read_pow_supply(p) \/ dsth_get_res(p) \/ dsth_convert_t(p) \/ Signal(p) \/ ReadTemp(p)
       \/ SetResRead(p) \/ SetResWrite(p)
  \/ \E p \in Others, S \in {{s} : s \in bus} \cup {bus} : Commands(p, S)
  \/ Tick
  \/ Warm

ThermSpec == ThermInit /\ [][ThermNext]_thermVars

-----------------------------------------------------------------------------
(* Properties.                                                             *)

\* t thousandths of a degree are the temperature a, in sixteenths, cut to a
\* multiple of step sixteenths and then to thousandths
Reads(t, a, step) == 1000 * (a - step + 1) - 16 < 16 * t /\ 16 * t < 1000 * a + 16

\* The call of p that returns in this step; its sensor was left alone, and
\* nothing was read wrong without notice.
Undisturbed(p) == done'.p = p /\ ~spoiled'[p]

\* the sensor of p has its power throughout
Powered(p) == call[p].s \in parasitic => WritePullup

\* dsth_probe() returns a temperature that was there between its conversion
\* command and its end, to the resolution read, whatever else goes over the
\* bus and however long the sensor takes; except for a sensor that is parasitic
\* in a build without pull-up, if another process commanded the same sensor, if
\* a read was wrong and not noticed, and if a signal cut the sleep short.
ReadingRight ==
  [][\A p \in Procs :
       /\ Undisturbed(p) /\ done'.ret = "SUCCESS" /\ call[p].at \in {"wait", "pull"}
       /\ Powered(p)
       => \E a \in felt[p] : Reads(done'.temp, a, 2^(3 - call[p].res))]_thermVars

\* What the comment in dsth_probe() has it do: "always wait specified amount of
\* time [...] before reading the result".  A call that comes to read the
\* temperature after its sleep, undisturbed, finds the conversion over.
AlwaysWaits ==
  \A p \in Procs :
    call[p].at # "pull" /\ Waited(p) /\ ~spoiled[p] /\ Powered(p) => sens[call[p].s].conv = 0

\* dsth_set_res() changes the resolution and nothing else: of an undisturbed
\* sensor the alarms are those from before, also when the call fails, and a
\* scratchpad that was garbled is not written back.
ResolutionOnly ==
  [][\A p \in Procs :
       call[p].at = "put" /\ Undisturbed(p)
       => LET reg == sens[call[p].s].reg
              new == sens'[call[p].s].reg
          IN  /\ new.alarm = reg.alarm
              /\ new.res \in {reg.res, call[p].res}
              /\ done'.ret = "SUCCESS" => new.res = call[p].res]_thermVars
=============================================================================
