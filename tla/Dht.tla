-------------------------------- MODULE Dht ---------------------------------
(***************************************************************************)
(* Probing a DHT sensor (src/src/devices/dht.c).  The program pulls the    *)
(* data line low, lets it go, and samples it in a loop: the length of each *)
(* high signal is a bit, the first one is the sensor's greeting.           *)
(*                                                                         *)
(* The line is a sequence of phases: 0 high, 1 low and 2 high (greeting),  *)
(* then a low and a high one per bit, and a last low.  A sample may come   *)
(* late (the thread has been preempted): it then misses phases or measures *)
(* a signal wrongly.  A late sample is a slip; their number is bounded.    *)
(***************************************************************************)
EXTENDS Probing, Sequences

CONSTANTS DHT_DTA_BITS,  \* 40 (bits with the checksum)
          ByteBits,      \* 8
          CD_NO_RESP,    \* 10: silent tries in a row that mean no device
          Retries,       \* values of n_retries
          MaxSlips,      \* bound on late samples of a try
          Answers        \* numbers of phases a sensor may give, 0: absent

ASSUME BitsAssumption ==
  /\ DHT_DTA_BITS \in Nat /\ ByteBits \in Nat \ {0} /\ DHT_DTA_BITS % ByteBits = 0
  /\ MaxSlips \in Nat /\ Answers \subseteq Nat

\* n_retries is an unsigned int
ASSUME RetriesAssumption == CD_NO_RESP \in Nat \ {0} /\ Retries \subseteq Nat

VARIABLES sensor,   \* [bits, phases]: what it sends in this try, and how much of it
          phase,    \* of the line
          loop,     \* [state, from, fuzzy, sig]: the loop's state (3, 0, 1), the
                    \* phase of the last seen edge and whether it was seen late,
                    \* the signals measured, as bits
          slips,    \* late samples of this try
          set_low,  \* the line is pulled low
          try,      \* [max, n, cd]: retries allowed, tries so far, cd_no_resp
          heard     \* history: a try of this probe measured a signal

dhtVars == <<sensor, phase, loop, slips, set_low, try, heard>>

LastPhase == 2 * DHT_DTA_BITS + 3
Level(k) == IF k % 2 = 0 THEN 1 ELSE 0

\* the bytes of a sequence of bits, and the checksum: the last byte is the
\* sum of the others
Byte(bits, i) ==
  LET value[n \in 0..ByteBits] ==
        IF n = 0 THEN 0 ELSE 2 * value[n - 1] + bits[(i - 1) * ByteBits + n]
  IN  value[ByteBits]
CrcOk(bits) ==
  LET n == DHT_DTA_BITS \div ByteBits
      sum[i \in 0..n - 1] == IF i = 0 THEN 0 ELSE sum[i - 1] + Byte(bits, i)
  IN  sum[n - 1] % 2^ByteBits = Byte(bits, n)

Messages == {b \in [1..DHT_DTA_BITS -> {0, 1}] : CrcOk(b)}

\* the bit the high phase k stands for; the greeting is a long signal
BitOf(k) == IF k = 2 THEN 1 ELSE sensor.bits[(k - 2) \div 2]

NewLoop == [state |-> 3, from |-> 0, fuzzy |-> FALSE, sig |-> <<>>]

Silent == [bits |-> <<>>, phases |-> 0]
NoTry == [max |-> 0, n |-> 0, cd |-> 0]

DhtInit ==
  /\ sensor = Silent /\ phase = 0 /\ loop = NewLoop /\ slips = 0
  /\ set_low = FALSE /\ heard = FALSE /\ try = NoTry

-----------------------------------------------------------------------------
\* dht_probe_retried() is called; dht_probe() is its one try
DhtCall ==
  /\ pc = "idle"
  /\ \E r \in Retries : try' = [max |-> r, n |-> 0, cd |-> CD_NO_RESP]
  /\ pc' = "d_try" /\ ret' = "SUCCESS" /\ heard' = FALSE
  /\ UNCHANGED <<schedVars, pins, refused, sensor, phase, loop, slips, set_low>>

\* a try: raise the priority, pull the line low
DhtTry ==
  /\ pc = "d_try"
  /\ sched_rt_raise_max
  /\ try' = [try EXCEPT !.n = @ + 1]
  /\ \/ Write("DATA", 0) /\ set_low' = TRUE /\ pc' = "d_low" /\ UNCHANGED ret
     \/ PullFails("DATA") /\ set_low' = FALSE /\ Fail("GPIO_ERR", "d_finish")
  /\ UNCHANGED <<sensor, phase, loop, slips, heard>>

\* after 20 ms let it go; 30 us later the sensor may begin
DhtRelease ==
  /\ pc = "d_low"
  /\ \/ /\ Write("DATA", 1) /\ set_low' = FALSE
        /\ \/ pc' = "d_read" /\ UNCHANGED ret
           \/ SysDriver /\ Fail("CLOCK_ERR", "d_finish")
     \/ WriteFails("DATA") /\ Fail("GPIO_ERR", "d_finish") /\ UNCHANGED set_low
     \/ ClockFails /\ Fail("CLOCK_ERR", "d_finish") /\ UNCHANGED set_low
  /\ sensor' \in [bits : Messages, phases : Answers]
  /\ UNCHANGED <<schedVars, phase, loop, slips, try, heard>>

\* what is measured for the high signal that began at the phase from and is
\* seen to end at k: a signal that hides others in it is a long one
Measured(k, late) ==
  IF late \/ loop.fuzzy THEN {0, 1}
  ELSE IF k = loop.from + 1 THEN {BitOf(loop.from)} ELSE {1}

\* one sample, which finds the line at phase k
Sample(k, late) ==
  LET in == Level(k)
      edge == [loop EXCEPT !.state = in, !.from = k, !.fuzzy = late]
  IN  /\ phase' = k
      /\ slips' = IF late \/ k > phase + 1 THEN slips + 1 ELSE slips
      /\ slips' <= MaxSlips
      /\ CASE loop.state = 3 -> loop' = IF in = 0 THEN edge ELSE loop
           [] loop.state = 0 -> loop' = IF in = 1 THEN edge ELSE loop
           [] loop.state = 1 ->
                IF in = 0 THEN \E b \in Measured(k, late) :
                                 loop' = [edge EXCEPT !.sig = Append(@, b)]
                ELSE loop' = loop

\* mutant: no time-out while signals are missing
DhtReadOn ==
  /\ pc = "d_read"
  /\ \/ /\ Len(loop.sig) <= DHT_DTA_BITS
        /\ \E k \in phase..sensor.phases, late \in BOOLEAN : Sample(k, late)
        /\ UNCHANGED pc
     \/ /\ Len(loop.sig) > DHT_DTA_BITS
        /\ pc' = "d_decode" /\ UNCHANGED <<phase, loop, slips>>
  /\ UNCHANGED <<schedVars, ret, pins, refused, sensor, set_low, try, heard>>

\* the loop goes on until all signals are in, or the line rests too long:
\* because the sensor is silent, or the thread was preempted for that long
DhtRead ==
  /\ pc = "d_read"
  /\ \/ /\ Len(loop.sig) <= DHT_DTA_BITS
        /\ \E k \in phase..sensor.phases, late \in BOOLEAN : Sample(k, late)
        /\ UNCHANGED pc
     \/ /\ phase = sensor.phases \/ slips < MaxSlips
        /\ slips' = IF phase = sensor.phases THEN slips ELSE slips + 1
        /\ pc' = "d_decode" /\ UNCHANGED <<phase, loop>>
     \/ /\ Len(loop.sig) > DHT_DTA_BITS
        /\ pc' = "d_decode" /\ UNCHANGED <<phase, loop, slips>>
  /\ UNCHANGED <<schedVars, ret, pins, refused, sensor, set_low, try, heard>>

\* a sample fails
DhtReadFails ==
  /\ pc = "d_read"
  /\ \E code \in {"GPIO_ERR"} \cup (IF SysDriver THEN {"CLOCK_ERR"} ELSE {}) : Fail(code, "d_finish")
  /\ UNCHANGED <<schedVars, pins, refused, dhtVars>>

\* mutant: the greeting is taken for a bit
DataGreeting == loop.sig

\* the data bits: without the greeting, if that was measured too
Data ==
  IF Len(loop.sig) > DHT_DTA_BITS THEN Tail(loop.sig) ELSE loop.sig

Result ==
  IF loop.sig = <<>> THEN "NO_RESP"
  ELSE IF Len(loop.sig) < DHT_DTA_BITS \/ ~CrcOk(Data) THEN "DTA_CRPT" ELSE "SUCCESS"

\* out of the real-time section, and the result
DhtDecode ==
  /\ pc = "d_decode"
  /\ sched_restore
  /\ ret' = Result
  /\ pc' = "d_finish"
  /\ heard' = (heard \/ loop.sig # <<>>)
  /\ UNCHANGED <<pins, refused, sensor, phase, loop, slips, set_low, try>>

\* a try ends, and with it its data
DhtFinish ==
  /\ pc = "d_finish"
  /\ Finish(set_low, "DATA")
  /\ set_low' = FALSE
  /\ pc' = "d_retry"
  /\ sensor' = Silent /\ phase' = 0 /\ loop' = NewLoop /\ slips' = 0
  /\ UNCHANGED <<ret, try, heard>>

\* the retry loop returns: success or another error, the last of CD_NO_RESP
\* silent tries (cd is 0 for good once a device has answered), or no retry left
DhtReturn ==
  /\ pc = "d_retry"
  /\ \/ ret \notin {"NO_RESP", "DTA_CRPT"} /\ UNCHANGED ret
     \/ ret = "NO_RESP" /\ try.cd = 1 /\ ret' = "NO_DEV"
     \/ /\ ret = "DTA_CRPT" \/ (ret = "NO_RESP" /\ try.cd # 1)
        /\ try.n - 1 >= try.max
        /\ ret' = "DEV_ERR"
  /\ pc' = "idle" /\ try' = NoTry /\ heard' = FALSE
  /\ UNCHANGED <<schedVars, pins, refused, sensor, phase, loop, slips, set_low>>

\* mutant: a device that has answered may still be taken for missing
DhtRetryForgets ==
  /\ pc = "d_retry" /\ try.n - 1 < try.max
  /\ \/ ret = "DTA_CRPT" /\ UNCHANGED try
     \/ /\ ret = "NO_RESP" /\ try.cd # 1
        /\ try' = [try EXCEPT !.cd = @ - 1]
  /\ pc' = "d_try"
  /\ UNCHANGED <<schedVars, ret, pins, refused, sensor, phase, loop, slips, set_low, heard>>

\* another try
DhtRetry ==
  /\ pc = "d_retry" /\ try.n - 1 < try.max
  /\ \/ ret = "DTA_CRPT" /\ try' = [try EXCEPT !.cd = 0]
     \/ /\ ret = "NO_RESP" /\ try.cd # 1
        /\ try' = [try EXCEPT !.cd = IF @ = 0 THEN 0 ELSE @ - 1]
  /\ pc' = "d_try"
  /\ UNCHANGED <<schedVars, ret, pins, refused, sensor, phase, loop, slips, set_low, heard>>

DhtStep == \/ DhtTry \/ DhtRelease \/ DhtRead
           \/ DhtDecode \/ DhtFinish \/ DhtReturn \/ DhtRetry
DhtNext == DhtCall \/ DhtStep \/ DhtReadFails
=============================================================================
