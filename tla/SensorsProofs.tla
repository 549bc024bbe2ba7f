--------------------------- MODULE SensorsProofs ---------------------------
(***************************************************************************)
(* What holds of the sensor probes of Sensors for every length of the      *)
(* messages, every number of retries, silent tries and shift register      *)
(* bits, and every number of refused writes; then, of the thermometers of  *)
(* DsTherm.                                                                *)
(***************************************************************************)
EXTENDS Sensors, DsTherm, SequenceTheorems, TLAPS

\* Where a probe is.
DhtSites == {"d_try", "d_low", "d_read", "d_decode", "d_finish", "d_retry"}
HcsrSites == {"h_trigger", "h_release", "h_wait", "h_count", "h_decode", "h_finish"}
PisoSites == {"p_load", "p_hold", "p_fall", "p_read", "p_rise", "p_finish"}
Places == {"idle"} \cup DhtSites \cup HcsrSites \cup PisoSites

-----------------------------------------------------------------------------
\* A pin is at rest unless its last write was refused or its probe says it has it away.
Away(p) ==
  \/ p = "DATA" /\ set_low = TRUE
  \/ p = "TRIG" /\ set_high = TRUE
  \/ p = "CLK" /\ clk_low = TRUE
  \/ p = "SH_LD" /\ pc = "p_hold"

PinsInv ==
  /\ pins \in [Outputs -> {0, 1}]
  /\ set_low \in BOOLEAN /\ set_high \in BOOLEAN /\ clk_low \in BOOLEAN
  /\ \A p \in Outputs \ refused : Away(p) \/ pins[p] = Rest[p]
  /\ set_low = TRUE => pc \in {"d_low", "d_finish"}
  /\ set_high = TRUE => pc \in {"h_release", "h_finish"}
  /\ clk_low = TRUE => pc \in PisoSites


\* A write sets its pin or nothing (gpio_set_value()).
LEMMA WriteOnly ==
  ASSUME pins \in [Outputs -> {0, 1}], NEW p \in Outputs, NEW v \in {0, 1},
         Write(p, v) \/ WriteFails(p)
  PROVE  /\ pins' \in [Outputs -> {0, 1}]
         /\ \A q \in Outputs \ {p} : pins'[q] = pins[q] /\ (q \in refused' <=> q \in refused)
         /\ Write(p, v) => pins'[p] = v
         /\ WriteFails(p) => p \in refused'
  BY DEF Write, WriteFails, Refuse

\* Every step is one of the probes', or changes nothing.
LEMMA StepCases ==
  ASSUME [Next]_vars
  PROVE  \/ DhtNext /\ UNCHANGED <<hcsrVars, pisoVars, orig>>
         \/ HcsrNext /\ UNCHANGED <<dhtVars, pisoVars, orig>>
         \/ PisoNext /\ UNCHANGED <<dhtVars, hcsrVars, orig>>
         \/ UNCHANGED vars
  BY DEF Next

LEMMA PinsDht ==
  ASSUME PinsInv, DhtNext, UNCHANGED <<hcsrVars, pisoVars>>
  PROVE  PinsInv'
<1> USE DEF PinsInv, Away, hcsrVars, pisoVars
<1>1. CASE DhtCall
  BY <1>1 DEF DhtCall, PisoSites
<1>2. CASE DhtTry
  <2>1. CASE Write("DATA", 0) /\ set_low' = TRUE /\ pc' = "d_low"
    BY <1>2, <2>1, WriteOnly DEF DhtTry, Outputs, PisoSites
  <2>2. CASE PullFails("DATA") /\ set_low' = FALSE /\ pc' = "d_finish"
    <3>1. UNCHANGED <<set_high, clk_low>> /\ "DATA" \in refused' /\ pc = "d_try"
          /\ pins' \in [Outputs -> {0, 1}]
          /\ \A q \in Outputs \ {"DATA"} : pins'[q] = pins[q] /\ (q \in refused' <=> q \in refused)
      BY <1>2, <2>2 DEF DhtTry, PullFails, Refuse
    <3> QED BY <2>2, <3>1 DEF PisoSites
  <2> QED BY <1>2, <2>1, <2>2 DEF DhtTry, Fail
<1>3. CASE DhtRelease
  BY <1>3, WriteOnly DEF DhtRelease, Outputs, ClockFails, NoWrite, Fail, PisoSites, Rest
<1>4. CASE DhtRead
  BY <1>4 DEF DhtRead, PisoSites
<1>5. CASE DhtReadFails
  BY <1>5 DEF DhtReadFails, Fail, dhtVars, PisoSites
<1>6. CASE DhtDecode
  BY <1>6 DEF DhtDecode, PisoSites
<1>7. CASE DhtFinish
  <2>1. CASE set_low = TRUE
    BY <1>7, <2>1, WriteOnly DEF DhtFinish, Finish, Outputs, Rest, PisoSites
  <2>2. CASE set_low = FALSE
    BY <1>7, <2>2 DEF DhtFinish, Finish, NoWrite, PisoSites
  <2> QED BY <2>1, <2>2
<1>8. CASE DhtReturn \/ DhtRetry
  BY <1>8 DEF DhtReturn, DhtRetry, PisoSites
<1> QED BY <1>1, <1>2, <1>3, <1>4, <1>5, <1>6, <1>7, <1>8 DEF DhtNext, DhtStep

LEMMA PinsHcsr ==
  ASSUME PinsInv, HcsrNext, UNCHANGED <<dhtVars, pisoVars>>
  PROVE  PinsInv'
<1> USE DEF PinsInv, Away, dhtVars, pisoVars
<1>1. CASE HcsrCall
  BY <1>1 DEF HcsrCall, Fail, PisoSites
<1>2. CASE HcsrTrigger
  <2>1. CASE Write("TRIG", 1) /\ set_high' = TRUE /\ pc' = "h_release"
    BY <1>2, <2>1, WriteOnly DEF HcsrTrigger, Outputs, PisoSites
  <2>2. CASE WriteFails("TRIG") /\ UNCHANGED set_high /\ pc' = "h_finish"
    BY <1>2, <2>2, WriteOnly DEF HcsrTrigger, Outputs, PisoSites
  <2> QED BY <1>2, <2>1, <2>2 DEF HcsrTrigger, Fail
<1>3. CASE HcsrRelease
  BY <1>3, WriteOnly DEF HcsrRelease, Outputs, ClockFails, NoWrite, Fail, PisoSites, Rest
<1>4. CASE HcsrRead
  BY <1>4 DEF HcsrRead, PisoSites
<1>5. CASE HcsrReadFails
  BY <1>5 DEF HcsrReadFails, Fail, hcsrVars, PisoSites
<1>6. CASE HcsrDecode
  BY <1>6 DEF HcsrDecode, hcsrVars, PisoSites
<1>7. CASE HcsrFinish
  <2>1. CASE set_high = TRUE
    BY <1>7, <2>1, WriteOnly DEF HcsrFinish, Finish, Outputs, Rest, PisoSites
  <2>2. CASE set_high = FALSE
    BY <1>7, <2>2 DEF HcsrFinish, Finish, NoWrite, PisoSites
  <2> QED BY <2>1, <2>2
<1>8. CASE EchoOver \/ \E v \in {0, 1} : Echo(v)
  BY <1>8 DEF EchoOver, Echo, callVars
<1> QED BY <1>1, <1>2, <1>3, <1>4, <1>5, <1>6, <1>7, <1>8 DEF HcsrNext, HcsrStep

LEMMA PinsPiso ==
  ASSUME PinsInv, PisoNext, UNCHANGED <<dhtVars, hcsrVars>>
  PROVE  PinsInv'
<1> USE DEF PinsInv, Away, dhtVars, hcsrVars
<1>1. CASE PisoCall
  BY <1>1 DEF PisoCall, PisoSites
<1>2. CASE PisoLoad
  BY <1>2, WriteOnly DEF PisoLoad, Outputs, Fail, PisoSites
<1>3. CASE PisoHold
  BY <1>3, WriteOnly DEF PisoHold, pisoVars, Outputs, Fail, PisoSites, Rest
<1>4. ASSUME NEW v \in {0, 1}, pc \in {"p_fall", "p_rise"}, pc' \in PisoSites \ {"p_hold"},
             Clock(v) \/ ClockFail
      PROVE  PinsInv'
  <2>1. CASE Clock(v)
    <3>1. clk_low' = (v = 0) /\ Write("CLK", v)
      BY <2>1 DEF Clock
    <3>2. clk_low' \in BOOLEAN /\ (clk_low' = TRUE <=> v = 0)
      BY <3>1
    <3> QED BY <1>4, <3>1, <3>2, WriteOnly DEF Outputs, PisoSites, Rest
  <2>2. CASE ClockFail
    BY <1>4, <2>2, WriteOnly DEF ClockFail, Outputs, PisoSites
  <2> QED BY <1>4, <2>1, <2>2
<1>5. CASE PisoFall
  BY <1>4, <1>5 DEF PisoFall, ClockFail, Fail, PisoSites
<1>6. CASE PisoRead
  BY <1>6 DEF PisoRead, Fail, PisoSites
<1>7. CASE PisoRise
  BY <1>4, <1>7 DEF PisoRise, ClockFail, Fail, PisoSites
<1>8. CASE PisoFinish
  <2>1. CASE clk_low = TRUE
    BY <1>8, <2>1, WriteOnly DEF PisoFinish, Outputs, Rest, PisoSites
  <2>2. CASE clk_low = FALSE
    BY <1>8, <2>2 DEF PisoFinish, NoWrite, PisoSites
  <2> QED BY <2>1, <2>2
<1> QED BY <1>1, <1>2, <1>3, <1>5, <1>6, <1>7, <1>8 DEF PisoNext, PisoStep

LEMMA PinsStep == PinsInv /\ [Next]_vars => PinsInv'
<1> SUFFICES ASSUME PinsInv, [Next]_vars PROVE PinsInv'
  OBVIOUS
<1>1. CASE UNCHANGED vars
  BY <1>1 DEF PinsInv, Away, vars, schedVars, callVars, dhtVars, hcsrVars, pisoVars
<1> QED BY <1>1, StepCases, PinsDht, PinsHcsr, PinsPiso

\* Between probes each pin is at the level the headers name as the state after a
\* call (dht.h, hcsr04.h, shr_piso.h), whichever step failed, unless the last write
\* of that very pin was refused: however many writes are refused.
THEOREM PinsLeftAtRest == Spec => []PinsAtRest
<1>1. Init => PinsInv
  BY DEF Init, ProbingInit, DhtInit, HcsrInit, PisoInit, PinsInv, Rest
<1>2. PinsInv => PinsAtRest
  BY DEF PinsInv, Away, PinsAtRest, PisoSites
<1> QED BY <1>1, <1>2, PinsStep, PTL DEF Spec

-----------------------------------------------------------------------------
\* In a probe the thread of a program that started plain is plain and the handle
\* holds nothing else, or it is raised and the handle remembers.
Remembers == [sched |-> "other", prio |-> 0]
RtSites == {"d_low", "d_read", "d_decode", "d_finish",
            "h_release", "h_wait", "h_count", "h_decode", "h_finish"}

InRt ==
  \/ thr = Plain /\ sched_h \in {Remembers, NoHandle}
  \/ thr = [Plain EXCEPT !.sched = "rr", !.prio = MaxPrio] /\ sched_h = Remembers

SchedInv ==
  /\ wild \in BOOLEAN
  /\ orig = Plain /\ wild = FALSE =>
       /\ pc \notin RtSites => thr = Plain
       /\ pc \in RtSites => InRt


\* sched_rt_raise_max(), sched_restore() in a probe and on its way out, of a thread
\* that was plain.
LEMMA RaiseSaves == thr = Plain /\ sched_rt_raise_max => InRt'
  BY DEF sched_rt_raise_max, Raised, Plain, InRt, Remembers, NoHandle, Unsaved

LEMMA RestoredPlain ==
  ASSUME InRt, NEW r \in Restored(sched_h)
  PROVE  r[1] = Plain /\ r[2] = sched_h
<1>1. CASE sched_h = NoHandle
  <2>1. Restored(sched_h) = {<<thr, sched_h>>} /\ thr = Plain
    BY <1>1 DEF Restored, NoHandle, InRt, Remembers, Unsaved
  <2> QED BY <2>1
<1>2. CASE sched_h = Remembers
  <2>1. sched_h.sched = "other" /\ sched_h.prio = 0 /\ Valid(sched_h.sched, sched_h.prio)
    BY <1>2 DEF Remembers, Valid
  <2> DEFINE given == [thr EXCEPT !.sched = sched_h.sched, !.prio = sched_h.prio]
  <2>2. Restored(sched_h) = {<<given, sched_h>>}
    <3> HIDE DEF given
    <3>1. {<<given, sched_h>>} \cup {} = {<<given, sched_h>>}
      OBVIOUS
    <3> QED BY <2>1, <3>1, Zenon DEF Restored, Unsaved, given
  <2>3. given = Plain
    <3>1. given = [thr EXCEPT !.sched = "other", !.prio = 0]
      BY <2>1
    <3> HIDE DEF given
    <3>2. CASE thr = [sched |-> "other", prio |-> 0, nice |-> 0]
      <4>1. given = [[sched |-> "other", prio |-> 0, nice |-> 0] EXCEPT !.sched = "other", !.prio = 0]
        BY <3>1, <3>2
      <4> QED BY <4>1 DEF Plain
    <3>3. CASE thr = [sched |-> "rr", prio |-> MaxPrio, nice |-> 0]
      <4>1. given = [[sched |-> "rr", prio |-> MaxPrio, nice |-> 0]
                       EXCEPT !.sched = "other", !.prio = 0]
        BY <3>1, <3>3
      <4> QED BY <4>1 DEF Plain
    <3> QED BY <3>2, <3>3 DEF InRt, Plain
  <2> QED BY <2>2, <2>3
<1> QED BY <1>1, <1>2 DEF InRt

LEMMA RestoreKeeps == InRt /\ sched_restore => InRt'
  BY RestoredPlain DEF sched_restore, InRt

LEMMA LastRestores == InRt /\ LastRestore(sched_h) => thr' = Plain
  BY RestoredPlain DEF LastRestore

LEMMA SchedStep == SchedInv /\ [Next]_vars => SchedInv'
<1>0. ASSUME SchedInv, [Next]_vars PROVE wild' \in BOOLEAN
  <2>1. CASE HcsrNext
    BY <1>0, <2>1 DEF SchedInv, HcsrNext, HcsrCall, HcsrStep, HcsrTrigger, HcsrRelease, HcsrRead,
       HcsrReadFails, HcsrDecode, HcsrFinish, EchoOver, Echo, hcsrVars
  <2> QED BY <1>0, <2>1, StepCases DEF SchedInv, hcsrVars, vars
<1> SUFFICES ASSUME SchedInv, [Next]_vars, orig' = Plain, wild' = FALSE
             PROVE  (pc' \notin RtSites => thr' = Plain) /\ (pc' \in RtSites => InRt')
  BY <1>0 DEF SchedInv
<1> DEFINE Goal == (pc' \notin RtSites => thr' = Plain) /\ (pc' \in RtSites => InRt')
<1>1. UNCHANGED orig
  BY DEF Next, vars
<1>2. ASSUME wild = FALSE, UNCHANGED schedVars, pc \in RtSites <=> pc' \in RtSites PROVE Goal
  BY <1>1, <1>2 DEF SchedInv, schedVars, InRt
<1>3. ASSUME wild = FALSE, pc \notin RtSites, sched_rt_raise_max, pc' \in RtSites PROVE Goal
  BY <1>1, <1>3, RaiseSaves DEF SchedInv
<1>4. ASSUME wild = FALSE, pc \in RtSites, sched_restore, pc' \in RtSites PROVE Goal
  BY <1>1, <1>4, RestoreKeeps DEF SchedInv
<1>5. ASSUME wild = FALSE, pc \in RtSites, LastRestore(sched_h), pc' \notin RtSites PROVE Goal
  BY <1>1, <1>5, LastRestores DEF SchedInv
<1>6. CASE DhtNext /\ UNCHANGED wild
  <2>1. CASE DhtCall \/ DhtRead \/ DhtReadFails \/ DhtReturn \/ DhtRetry \/ DhtRelease
    BY <1>2, <1>6, <2>1 DEF DhtCall, DhtRead, DhtReadFails, DhtReturn, DhtRetry, DhtRelease, Fail,
       RtSites
  <2>2. CASE DhtTry
    BY <1>3, <1>6, <2>2 DEF DhtTry, Fail, RtSites
  <2>3. CASE DhtDecode
    BY <1>4, <1>6, <2>3 DEF DhtDecode, RtSites
  <2>4. CASE DhtFinish
    BY <1>5, <1>6, <2>4 DEF DhtFinish, Finish, RtSites
  <2> QED BY <1>6, <2>1, <2>2, <2>3, <2>4 DEF DhtNext, DhtStep
<1>7. CASE HcsrNext
  <2>1. CASE HcsrCall
    <3>1. CASE UNCHANGED <<schedVars, wild>> /\ pc' = "h_trigger" /\ pc = "idle"
      BY <1>2, <3>1 DEF RtSites
    <3>2. CASE pc = "idle" /\ pc' = "idle" /\ wild = FALSE /\ UNCHANGED thr
      BY <1>1, <3>2 DEF SchedInv, RtSites
    <3>3. CASE \E h \in Wild : LastRestore(h) /\ wild' = (wild \/ h.sched # Unsaved)
      <4>1. PICK h \in Wild : LastRestore(h) /\ wild' = (wild \/ h.sched # Unsaved)
        BY <3>3
      <4>2. h.sched = Unsaved /\ wild = FALSE
        BY <4>1, Zenon DEF SchedInv
      <4>3. UNCHANGED thr
        BY <4>1, <4>2 DEF LastRestore, Restored
      <4>4. CASE pc' = "idle"
        BY <2>1, <3>2, <4>2, <4>3, <4>4 DEF HcsrCall
      <4>5. CASE pc' = "h_trigger" /\ UNCHANGED <<schedVars, wild>>
        BY <2>1, <3>1, <4>5 DEF HcsrCall
      <4> QED BY <2>1, <4>4, <4>5 DEF HcsrCall, Fail
    <3> QED BY <2>1, <3>1, <3>3 DEF HcsrCall
  <2>2. CASE HcsrTrigger
    BY <1>3, <2>2 DEF HcsrTrigger, Fail, RtSites
  <2>3. CASE HcsrRelease \/ HcsrRead
    BY <1>2, <2>3 DEF HcsrRelease, HcsrRead, Fail, RtSites
  <2>4. CASE HcsrReadFails \/ EchoOver \/ \E v \in {0, 1} : Echo(v)
    BY <1>2, <2>4 DEF HcsrReadFails, EchoOver, Echo, Fail, RtSites, hcsrVars, callVars
  <2>5. CASE HcsrDecode
    BY <1>4, <2>5 DEF HcsrDecode, hcsrVars, RtSites
  <2>6. CASE HcsrFinish
    BY <1>5, <2>6 DEF HcsrFinish, Finish, RtSites
  <2> QED BY <1>7, <2>1, <2>2, <2>3, <2>4, <2>5, <2>6 DEF HcsrNext, HcsrStep
<1>8. CASE PisoNext /\ UNCHANGED wild
  BY <1>2, <1>8 DEF PisoNext, PisoStep, PisoCall, PisoLoad, PisoHold, PisoFall, PisoRead, PisoRise,
     PisoFinish, ClockFail, Fail, RtSites
<1>9. CASE UNCHANGED vars
  BY <1>2, <1>9 DEF vars, callVars, hcsrVars
<1> QED BY <1>6, <1>7, <1>8, <1>9, StepCases DEF hcsrVars

\* A thread that started with the ordinary scheduler and no nice value has it again
\* between probes, whichever step of them failed (sched_restore(), common.c), unless
\* a scheduler was restored from a handle never written: whatever the other priorities
\* are, and though the restored handle stays marked as unrestored.
THEOREM PlainGivenBack == Spec => []GivenBack
<1>1. Init => SchedInv
  BY DEF Init, ProbingInit, HcsrInit, SchedInv, RtSites
<1>2. SchedInv => GivenBack
  BY DEF SchedInv, GivenBack, RtSites
<1> QED BY <1>1, <1>2, SchedStep, PTL DEF Spec

-----------------------------------------------------------------------------
\* Silent tries are counted down, until the device is heard.
Tried == IF pc = "d_try" THEN try.n ELSE try.n - 1   \* tries before the current one

RetryInv ==
  /\ heard \in BOOLEAN /\ try \in [max : Nat, n : Nat, cd : Nat]
  /\ pc \in DhtSites =>
       /\ Tried <= try.max
       /\ pc \in {"d_finish", "d_retry"} =>
            (ret = "DTA_CRPT" => heard = TRUE) /\ ret \notin {"NO_DEV", "DEV_ERR"}
       /\ pc \notin {"d_finish", "d_retry"} \/ ret = "NO_RESP" =>
            /\ heard = TRUE => try.cd = 0
            /\ heard = FALSE => try.cd = CD_NO_RESP - Tried /\ try.cd > 0

LEMMA RetryStep == RetryInv /\ [Next]_vars => RetryInv'
<1> SUFFICES ASSUME RetryInv, [Next]_vars PROVE RetryInv'
  OBVIOUS
<1> USE RetriesAssumption DEF RetryInv, Tried
<1>1. CASE DhtCall
  <2>1. PICK r \in Retries : try' = [max |-> r, n |-> 0, cd |-> CD_NO_RESP]
    BY <1>1 DEF DhtCall
  <2>2. pc' = "d_try" /\ heard' = FALSE
    BY <1>1 DEF DhtCall
  <2>3. try'.n = 0 /\ try'.max = r /\ try'.cd = CD_NO_RESP /\ try' \in [max : Nat, n : Nat, cd : Nat]
    BY <2>1
  <2>4. heard' \in BOOLEAN /\ ~(heard' = TRUE)
    BY <2>2
  <2>5. Tried' = 0
    BY <2>2, <2>3
  <2> QED BY <2>2, <2>3, <2>4, <2>5 DEF Tried
<1>2. CASE DhtTry
  <2>1. /\ pc = "d_try" /\ UNCHANGED heard
        /\ \/ pc' = "d_low" /\ ret' = ret
           \/ pc' = "d_finish" /\ ret' = "GPIO_ERR"
    BY <1>2 DEF DhtTry, Fail
  <2>2. try'.n = try.n + 1 /\ try'.cd = try.cd /\ try'.max = try.max
        /\ try' \in [max : Nat, n : Nat, cd : Nat]
    BY <1>2 DEF DhtTry
  <2> QED BY <2>1, <2>2 DEF DhtSites
<1>3. ASSUME UNCHANGED <<try, heard>>, pc \in {"d_low", "d_read"}, pc' \in {"d_low", "d_read", "d_decode"}
      PROVE  RetryInv'
  BY <1>3 DEF DhtSites
<1>4. ASSUME UNCHANGED <<try, heard>>, pc \in {"d_low", "d_read"}, pc' = "d_finish",
             ret' \in {"GPIO_ERR", "CLOCK_ERR"}
      PROVE  RetryInv'
  BY <1>4 DEF DhtSites
<1>5. CASE DhtRelease \/ DhtRead \/ DhtReadFails
  BY <1>3, <1>4, <1>5 DEF DhtRelease, DhtRead, DhtReadFails, Fail, dhtVars
<1>6. CASE DhtDecode
  <2>1. /\ pc = "d_decode" /\ pc' = "d_finish" /\ UNCHANGED try /\ ret' = Result
        /\ heard' = (heard \/ loop.sig # <<>>)
    BY <1>6 DEF DhtDecode
  <2>2. loop.sig = <<>> => ret' = "NO_RESP"
    BY <2>1 DEF Result
  <2>3. loop.sig # <<>> => ret' # "NO_RESP"
    BY <2>1 DEF Result
  <2>4. heard' \in BOOLEAN /\ (loop.sig # <<>> => heard' = TRUE) /\ (loop.sig = <<>> => heard' = heard)
    BY <2>1
  <2>5. Tried' = try.n - 1 /\ Tried = try.n - 1 /\ pc \in DhtSites
    BY <2>1 DEF DhtSites
  <2>6. ret' = "DTA_CRPT" => heard' = TRUE
    BY <2>2, <2>4
  <2>7. ret' = "NO_RESP" => heard' = heard
    BY <2>3, <2>4
  <2>8. ret' \notin {"NO_DEV", "DEV_ERR"}
    BY <2>1 DEF Result
  <2> QED BY <2>1, <2>4, <2>5, <2>6, <2>7, <2>8
<1>7. CASE DhtFinish
  BY <1>7 DEF DhtFinish, DhtSites
<1>8. CASE DhtReturn
  BY <1>8 DEF DhtReturn, NoTry, DhtSites
<1>9. CASE DhtRetry
  <2>1. /\ pc = "d_retry" /\ pc' = "d_try" /\ try.n - 1 < try.max /\ UNCHANGED heard
        /\ \/ ret = "DTA_CRPT" /\ try' = [try EXCEPT !.cd = 0]
           \/ ret = "NO_RESP" /\ try.cd # 1 /\ try' = [try EXCEPT !.cd = IF try.cd = 0 THEN 0 ELSE try.cd - 1]
    BY <1>9 DEF DhtRetry
  <2>2. try'.n = try.n /\ try'.max = try.max /\ try' \in [max : Nat, n : Nat, cd : Nat]
    BY <2>1
  <2>3. try'.cd = IF ret = "DTA_CRPT" \/ try.cd = 0 THEN 0 ELSE try.cd - 1
    BY <2>1
  <2> QED BY <2>1, <2>2, <2>3 DEF DhtSites
<1>10. CASE HcsrNext /\ UNCHANGED dhtVars
  <2>1. pc \in {"idle"} \cup HcsrSites => pc' \notin DhtSites
    BY <1>10 DEF HcsrNext, HcsrCall, HcsrStep, HcsrTrigger, HcsrRelease, HcsrRead, HcsrReadFails,
       HcsrDecode, HcsrFinish, EchoOver, Echo, Fail, HcsrSites, DhtSites, callVars
  <2>2. pc \notin {"idle"} \cup HcsrSites => UNCHANGED <<pc, ret>>
    BY <1>10 DEF HcsrNext, HcsrCall, HcsrStep, HcsrTrigger, HcsrRelease, HcsrRead, HcsrReadFails,
       HcsrDecode, HcsrFinish, EchoOver, Echo, Fail, HcsrSites, callVars
  <2> QED BY <1>10, <2>1, <2>2 DEF dhtVars
<1>11. CASE PisoNext /\ UNCHANGED dhtVars
  <2>1. pc' \notin DhtSites
    BY <1>11 DEF PisoNext, PisoStep, PisoCall, PisoLoad, PisoHold, PisoFall, PisoRead, PisoRise,
       PisoFinish, ClockFail, Fail, DhtSites
  <2> QED BY <1>11, <2>1 DEF dhtVars
<1>12. CASE UNCHANGED vars
  BY <1>12 DEF vars, dhtVars, callVars
<1> QED BY <1>1, <1>2, <1>5, <1>6, <1>7, <1>8, <1>9, <1>10, <1>11, <1>12, StepCases
       DEF DhtNext, DhtStep

\* dht_probe_retried() (dht.c 179-217) reports a missing device only of one that has
\* not been heard in any try, after CD_NO_RESP of them; it gives up only after all
\* the retries; and it ends with neither of the results of a single try: for every
\* number of retries and of silent tries.
THEOREM RetriesReported == Spec => RetriesTold
<1>1. Init => RetryInv
  <2> SUFFICES ASSUME Init PROVE RetryInv
    OBVIOUS
  <2>1. heard = FALSE /\ pc = "idle" /\ try = [max |-> 0, n |-> 0, cd |-> 0]
    BY DEF Init, ProbingInit, DhtInit, NoTry
  <2> QED BY <2>1 DEF RetryInv, DhtSites
<1>2. ASSUME RetryInv, [Next]_vars, pc = "d_retry", pc' = "idle"
      PROVE  /\ ret' \notin {"NO_RESP", "DTA_CRPT"}
             /\ ret' = "NO_DEV" => ~heard /\ try.n = CD_NO_RESP
             /\ ret' = "DEV_ERR" => try.n = try.max + 1
  <2>1. DhtReturn
    <3>1. ~HcsrNext /\ ~PisoNext /\ ~UNCHANGED vars
      BY <1>2 DEF HcsrNext, HcsrCall, HcsrStep, HcsrTrigger, HcsrRelease, HcsrRead, HcsrReadFails,
         HcsrDecode, HcsrFinish, EchoOver, Echo, callVars, vars, PisoNext, PisoStep, PisoCall,
         PisoLoad, PisoHold, PisoFall, PisoRead, PisoRise, PisoFinish
    <3>2. DhtNext
      BY <1>2, <3>1, StepCases
    <3> QED BY <1>2, <3>2 DEF DhtNext, DhtStep, DhtCall, DhtTry, DhtRelease, DhtRead, DhtReadFails,
            DhtDecode, DhtFinish, DhtRetry
  <2>2. CASE ret \notin {"NO_RESP", "DTA_CRPT"}
    BY <1>2, <2>1, <2>2 DEF DhtReturn, RetryInv, DhtSites
  <2> QED BY <1>2, <2>1, <2>2, RetriesAssumption DEF DhtReturn, RetryInv, Tried, DhtSites
<1>3. RetryInv /\ [Next]_vars =>
        (pc = "d_retry" /\ pc' = "idle"
         => /\ ret' \notin {"NO_RESP", "DTA_CRPT"}
            /\ ret' = "NO_DEV" => ~heard /\ try.n = CD_NO_RESP
            /\ ret' = "DEV_ERR" => try.n = try.max + 1)
  BY <1>2
<1> QED BY <1>1, <1>3, RetryStep, PTL DEF Spec, RetriesTold

-----------------------------------------------------------------------------
\* The bits read are those of the inputs, and the register holds the rest; the bit
\* that has been read is still at its output until the clock rises.
Bits == {0, 1}
ReadSoFar(k) ==   \* k inputs have left the register
  /\ shreg \in Seq(Bits) /\ Len(shreg) = Len(inputs) - k
  /\ \A i \in 1..Len(shreg) : shreg[i] = inputs[k + i]

PisoInv ==
  /\ inputs \in Seq(Bits) /\ out \in Seq(Bits)
  /\ pins \in [Outputs -> {0, 1}]
  /\ pc \notin PisoSites => out = <<>>
  /\ \A i \in 1..Len(out) : i <= Len(inputs) /\ out[i] = inputs[i]
  /\ Len(out) <= Len(inputs)
  /\ pc \in {"p_load", "p_hold"} => out = <<>> /\ Len(inputs) > 0
  /\ pc = "p_hold" => shreg = inputs
  /\ pc \in {"p_fall", "p_read"} => ReadSoFar(Len(out)) /\ Len(out) < Len(inputs)
  /\ pc = "p_rise" => ReadSoFar(Len(out) - 1) /\ Len(out) > 0
  /\ pc \in {"p_read", "p_rise"} => pins["CLK"] = 0
  /\ pc \in {"p_fall", "p_read", "p_rise"} => pins["SH_LD"] = 1
  /\ pc = "p_finish" /\ ret = "SUCCESS" => out = inputs


LEMMA PisoStepOk ==
  ASSUME PisoInv, PisoNext
  PROVE  PisoInv'
<1> USE DEF PisoInv, Bits
<1>0. {0, 1} = Bits
  BY DEF Bits
<1>1. CASE PisoCall
  <2>1. PICK n \in 0..MaxBits : inputs' \in [1..n -> Bits] /\ pc' = IF n = 0 THEN "idle" ELSE "p_load"
    BY <1>1 DEF PisoCall
  <2>2. n \in Nat
    BY MaxBitsAssumption
  <2>3. inputs' \in Seq(Bits) /\ Len(inputs') = n
    BY <2>1, <2>2
  <2>4. pc = "idle" /\ out' = out /\ out = <<>> /\ UNCHANGED pins
    BY <1>1 DEF PisoCall, PisoSites
  <2> QED BY <2>1, <2>2, <2>3, <2>4 DEF PisoSites
<1>2. ASSUME NEW p \in Outputs, NEW v \in {0, 1}, Write(p, v) \/ WriteFails(p),
             UNCHANGED <<inputs, out>>, pc' = "p_finish", ret' = "GPIO_ERR", pc \in PisoSites
      PROVE  PisoInv'
  BY <1>2, WriteOnly DEF PisoSites
<1>3. CASE PisoLoad
  <2>1. CASE Write("SH_LD", 0) /\ shreg' = inputs /\ pc' = "p_hold"
    BY <1>3, <2>1, WriteOnly DEF PisoLoad, Outputs, PisoSites
  <2> QED BY <1>2, <1>3, <2>1 DEF PisoLoad, Fail, Outputs, PisoSites
<1>4. CASE PisoHold
  <2>1. CASE Write("SH_LD", 1) /\ pc' = "p_fall"
    <3>1. pins' \in [Outputs -> {0, 1}] /\ pins'["SH_LD"] = 1
      BY <2>1, WriteOnly DEF Outputs
    <3>2. pc = "p_hold" /\ out = <<>> /\ shreg = inputs /\ UNCHANGED <<inputs, out, shreg>>
          /\ Len(inputs) > 0
      BY <1>4 DEF PisoHold, pisoVars
    <3> QED BY <2>1, <3>1, <3>2 DEF PisoSites, ReadSoFar
  <2> QED BY <1>2, <1>4, <2>1 DEF PisoHold, pisoVars, Fail, Outputs, PisoSites
<1>5. CASE PisoFall
  <2>1. CASE Clock(0) /\ pc' = "p_read"
    <3>1. /\ pins' \in [Outputs -> {0, 1}] /\ pins'["CLK"] = 0 /\ pins'["SH_LD"] = pins["SH_LD"]
          /\ UNCHANGED shreg
      BY <2>1, WriteOnly DEF Outputs, Clock
    <3>2. pc = "p_fall" /\ UNCHANGED <<inputs, out>>
      BY <1>5 DEF PisoFall
    <3> QED BY <2>1, <3>1, <3>2 DEF PisoSites, ReadSoFar
  <2> QED BY <1>2, <1>5, <2>1 DEF PisoFall, ClockFail, Fail, Outputs, PisoSites
<1>6. CASE PisoRead
  <2>1. pc = "p_read" /\ UNCHANGED <<pins, inputs, shreg>>
    BY <1>6 DEF PisoRead
  <2>2. CASE pc' = "p_rise" /\ out' = Append(out, IF shreg = <<>> THEN 0 ELSE Head(shreg))
    <3>1. ReadSoFar(Len(out)) /\ Len(out) < Len(inputs)
      BY <2>1
    <3>2. shreg # <<>> /\ Head(shreg) = inputs[Len(out) + 1] /\ Head(shreg) \in Bits
      BY <3>1 DEF ReadSoFar
    <3>3. out' = Append(out, inputs[Len(out) + 1]) /\ inputs[Len(out) + 1] \in Bits
      BY <2>2, <3>2
    <3>4. /\ out' \in Seq(Bits) /\ Len(out') = Len(out) + 1
          /\ \A i \in 1..Len(out) : out'[i] = out[i]
          /\ out'[Len(out) + 1] = inputs[Len(out) + 1]
      BY <3>3
    <3>5. \A i \in 1..Len(out') : i <= Len(inputs) /\ out'[i] = inputs[i]
      BY <3>1, <3>4
    <3>6. /\ shreg' \in Seq(Bits) /\ Len(shreg') = Len(inputs') - (Len(out') - 1)
          /\ \A i \in 1..Len(shreg') : shreg'[i] = inputs'[(Len(out') - 1) + i]
      BY <2>1, <3>1, <3>4 DEF ReadSoFar
    <3>7. Len(out') <= Len(inputs') /\ inputs' \in Seq(Bits) /\ pins' = pins /\ pc = "p_read"
      BY <2>1, <3>1, <3>4
    <3> HIDE DEF PisoInv
    <3>8. pins \in [Outputs -> {0, 1}] /\ pins["CLK"] = 0 /\ pins["SH_LD"] = 1
      BY <3>7 DEF PisoInv
    <3> QED BY <2>1, <2>2, <3>4, <3>5, <3>6, <3>7, <3>8 DEF PisoInv, PisoSites, ReadSoFar
  <2>3. CASE pc' = "p_finish" /\ ret' = "GPIO_ERR" /\ UNCHANGED out
    BY <2>1, <2>3 DEF PisoSites
  <2> QED BY <1>6, <2>2, <2>3 DEF PisoRead, Fail
<1>7. CASE PisoRise
  <2>1. CASE Clock(1) /\ pc' = (IF Len(out) = Len(inputs) THEN "p_finish" ELSE "p_fall")
    <3>1. /\ pins' \in [Outputs -> {0, 1}] /\ pins'["SH_LD"] = pins["SH_LD"]
      BY <2>1, WriteOnly DEF Outputs, Clock
    <3>2. pc = "p_rise" /\ UNCHANGED <<inputs, out>> /\ ReadSoFar(Len(out) - 1) /\ Len(out) > 0
      BY <1>7 DEF PisoRise
    <3>3. shreg' = Tail(shreg) /\ shreg # <<>>
      BY <2>1, <3>2 DEF Clock, ReadSoFar
    <3>4. /\ shreg' \in Seq(Bits) /\ Len(shreg') = Len(inputs) - Len(out)
          /\ \A i \in 1..Len(shreg') : shreg'[i] = inputs[Len(out) + i]
      BY <3>2, <3>3 DEF ReadSoFar
    <3>5. CASE Len(out) = Len(inputs)
      <4>1. out = inputs
        BY <3>5
      <4> QED BY <2>1, <3>1, <3>2, <3>5, <4>1 DEF PisoSites
    <3>6. CASE Len(out) # Len(inputs)
      BY <2>1, <3>1, <3>2, <3>4, <3>6 DEF PisoSites, ReadSoFar
    <3> QED BY <3>5, <3>6
  <2> QED BY <1>2, <1>7, <2>1 DEF PisoRise, ClockFail, Fail, Outputs, PisoSites
<1>8. CASE PisoFinish
  <2>1. pins' \in [Outputs -> {0, 1}]
    BY <1>8, WriteOnly DEF PisoFinish, NoWrite, Outputs
  <2> QED BY <1>8, <2>1 DEF PisoFinish, PisoSites
<1> QED BY <1>1, <1>3, <1>4, <1>5, <1>6, <1>7, <1>8 DEF PisoNext, PisoStep

\* The other probes leave the register alone.
LEMMA OthersNotPiso ==
  ASSUME PinsInv, [Next]_vars, ~PisoNext
  PROVE  /\ UNCHANGED pisoVars
         /\ \/ UNCHANGED <<pc, ret, pins>>
            \/ pc \notin PisoSites /\ pc' \notin PisoSites
<1>1. CASE DhtNext
  BY <1>1, StepCases DEF DhtNext, DhtCall, DhtStep, DhtTry, DhtRelease, DhtRead, DhtReadFails,
     DhtDecode, DhtFinish, DhtReturn, DhtRetry, Fail, PisoSites, vars
<1>2. CASE HcsrNext
  BY <1>2, StepCases DEF HcsrNext, HcsrCall, HcsrStep, HcsrTrigger, HcsrRelease, HcsrRead,
     HcsrReadFails, HcsrDecode, HcsrFinish, EchoOver, Echo, Fail, PisoSites, callVars, vars
<1>3. CASE UNCHANGED vars
  BY <1>3 DEF vars, callVars
<1> QED BY <1>1, <1>2, <1>3, StepCases

\* The bits read of a shift register are its inputs in order, for every number of
\* bits and whatever an earlier read that was broken off left behind (shr_piso.c).
THEOREM ShiftedExactly == Spec => []PisoExact
<1>1. Init => PinsInv /\ PisoInv
  <2>1. Init => PinsInv
    BY DEF Init, ProbingInit, DhtInit, HcsrInit, PisoInit, PinsInv, Rest
  <2>2. Init => PisoInv
    BY DEF Init, ProbingInit, PisoInit, PisoInv, PisoSites, Rest
  <2> QED BY <2>1, <2>2
<1>2. PinsInv /\ PisoInv /\ [Next]_vars => PinsInv' /\ PisoInv'
  <2> SUFFICES ASSUME PinsInv, PisoInv, [Next]_vars PROVE PisoInv'
    BY PinsStep
  <2>1. CASE PisoNext
    BY <2>1, PisoStepOk
  <2>2. CASE ~PisoNext
    <3>1. pins' \in [Outputs -> {0, 1}]
      BY PinsStep DEF PinsInv
    <3>2. CASE UNCHANGED <<pc, ret, pins, inputs, shreg, out>>
      BY <3>2 DEF PisoInv, ReadSoFar
    <3>3. CASE pc \notin PisoSites /\ pc' \notin PisoSites /\ UNCHANGED pisoVars
      BY <3>1, <3>3 DEF PisoInv, PisoSites, pisoVars
    <3> QED BY <2>2, <3>2, <3>3, OthersNotPiso DEF pisoVars
  <2> QED BY <2>1, <2>2
<1>3. PisoInv => PisoExact
  BY DEF PisoInv, PisoExact
<1> QED BY <1>1, <1>2, <1>3, PTL DEF Spec

-----------------------------------------------------------------------------
\* Without a late sample the loop is where the line is, and has measured every high
\* signal before that.
Following ==
  /\ loop \in [state : {0, 1, 3}, from : Nat, fuzzy : {FALSE}, sig : Seq(Bits)]
  /\ loop.from = phase
  /\ loop.state = IF phase = 0 THEN 3 ELSE Level(phase)
  /\ Len(loop.sig) = IF phase = 0 THEN 0 ELSE (phase - 1) \div 2
  /\ \A i \in 1..Len(loop.sig) : loop.sig[i] = BitOf(2 * i)

PromptInv ==
  /\ slips \in Nat /\ phase \in Nat
  /\ pc \notin {"d_read", "d_decode", "d_finish"} => phase = 0 /\ loop = NewLoop /\ slips = 0
  /\ pc \in {"d_read", "d_decode"} =>
       /\ sensor \in [bits : Messages, phases : Answers] /\ phase <= sensor.phases
       /\ slips = 0 => Following
  /\ pc = "d_decode" /\ slips = 0 => phase = sensor.phases \/ Len(loop.sig) > DHT_DTA_BITS

\* Low and high phases, and how many high ones have ended before them.
LEMMA Phases ==
  ASSUME NEW k \in Nat
  PROVE  \E j \in Nat :
           \/ k = 2 * j /\ Level(k) = 1 /\ (k - 1) \div 2 = j - 1
           \/ k = 2 * j + 1 /\ Level(k) = 0 /\ (k - 1) \div 2 = j
<1>1. PICK j \in Nat : k = 2 * j \/ k = 2 * j + 1
  <2>1. k \div 2 \in Nat /\ (k = 2 * (k \div 2) \/ k = 2 * (k \div 2) + 1)
    OBVIOUS
  <2> QED BY <2>1
<1>2. CASE k = 2 * j
  <2>1. k % 2 = 0 /\ (k - 1) \div 2 = j - 1
    BY <1>2
  <2> QED BY <1>2, <2>1 DEF Level
<1>3. CASE k = 2 * j + 1
  <2>1. k % 2 = 1 /\ (k - 1) \div 2 = j
    BY <1>3
  <2> QED BY <1>3, <2>1 DEF Level
<1> QED BY <1>1, <1>2, <1>3

\* The signal of a bit that is on its way is one the sensor sends.
LEMMA BitSent ==
  ASSUME NEW j \in 1..(DHT_DTA_BITS + 1), sensor.bits \in Messages
  PROVE  /\ BitOf(2 * j) \in Bits
         /\ j > 1 => BitOf(2 * j) = sensor.bits[j - 1]
<1>1. (2 * j - 2) \div 2 = j - 1 /\ (2 * j = 2 <=> j = 1)
  BY BitsAssumption
<1>2. sensor.bits \in [1..DHT_DTA_BITS -> {0, 1}]
  BY DEF Messages
<1> QED BY <1>1, <1>2, BitsAssumption DEF BitOf, Bits

\* What a sample does, by the state of the loop.
EdgeAt(k, late) == [loop EXCEPT !.state = Level(k), !.from = k, !.fuzzy = late]

LEMMA SampleCases ==
  ASSUME NEW k \in Nat, NEW late \in BOOLEAN, Sample(k, late)
  PROVE  /\ phase' = k /\ slips' = IF late \/ k > phase + 1 THEN slips + 1 ELSE slips
         /\ loop.state = 3 => loop' = IF Level(k) = 0 THEN EdgeAt(k, late) ELSE loop
         /\ loop.state = 0 => loop' = IF Level(k) = 1 THEN EdgeAt(k, late) ELSE loop
         /\ loop.state = 1 /\ Level(k) = 1 => loop' = loop
         /\ loop.state = 1 /\ Level(k) = 0 =>
              \E b \in Measured(k, late) :
                loop' = [EdgeAt(k, late) EXCEPT !.sig = Append(EdgeAt(k, late).sig, b)]
<1>1. phase' = k /\ slips' = IF late \/ k > phase + 1 THEN slips + 1 ELSE slips
  BY Zenon DEF Sample
<1>2. CASE loop.state = 3
  BY <1>2, <1>1 DEF Sample, EdgeAt
<1>3. CASE loop.state = 0
  BY <1>3, <1>1 DEF Sample, EdgeAt
<1>4. CASE loop.state = 1
  <2>1. ~(loop.state = 3) /\ ~(loop.state = 0)
    BY <1>4
  <2>2. Level(k) = 1 => ~(Level(k) = 0)
    OBVIOUS
  <2>3. IF Level(k) = 0
        THEN \E b \in Measured(k, late) :
               loop' = [EdgeAt(k, late) EXCEPT !.sig = Append(EdgeAt(k, late).sig, b)]
        ELSE loop' = loop
    BY <1>4, <2>1, Zenon DEF Sample, EdgeAt
  <2> QED BY <1>1, <1>4, <2>1, <2>2, <2>3, Zenon
<1> QED BY <1>1, <1>2, <1>3, <1>4

\* A sample in time (the loop of __dht_probe(), dht.c).
LEMMA SampleFollows ==
  ASSUME Following, slips \in Nat, phase \in Nat, sensor.bits \in Messages, UNCHANGED sensor,
         Len(loop.sig) <= DHT_DTA_BITS,
         NEW k \in Nat, k >= phase, NEW late \in BOOLEAN, Sample(k, late), slips' = 0
  PROVE  Following'
<1>1. /\ slips = 0 /\ late = FALSE /\ (k = phase \/ k = phase + 1) /\ phase' = k
      /\ loop.fuzzy = FALSE /\ loop.sig \in Seq(Bits)
  <2>1. phase' = k /\ slips' = IF late \/ k > phase + 1 THEN slips + 1 ELSE slips
    BY SampleCases
  <2>2. CASE late = FALSE
    <3>1. slips' = IF k > phase + 1 THEN slips + 1 ELSE slips
      BY <2>1, <2>2
    <3>2. slips = 0 /\ ~(k > phase + 1)
      BY <3>1
    <3>3. loop.fuzzy = FALSE /\ loop.sig \in Seq(Bits)
      BY DEF Following
    <3>4. k = phase \/ k = phase + 1
      BY <3>2
    <3> QED BY <2>1, <2>2, <3>2, <3>3, <3>4
  <2>3. CASE late = TRUE
    BY <2>1, <2>3
  <2> QED BY <2>2, <2>3
<1>2. CASE loop' = loop /\ k = phase
  BY <1>1, <1>2 DEF Following, BitOf
<1>3. ASSUME k = phase + 1, Level(k) \in {0, 1}, loop' = EdgeAt(k, late),
             Len(loop.sig) = (k - 1) \div 2
      PROVE  Following'
  <2>1. /\ loop' \in [state : {0, 1, 3}, from : Nat, fuzzy : {FALSE}, sig : Seq(Bits)]
        /\ loop'.from = k /\ loop'.state = Level(k) /\ loop'.sig = loop.sig
    BY <1>1, <1>3 DEF Following, EdgeAt
  <2>2. phase' = k /\ phase' # 0
    BY <1>1, <1>3
  <2>3. \A i \in 1..Len(loop'.sig) : loop'.sig[i] = BitOf(2 * i)'
    BY <2>1 DEF Following, BitOf
  <2> QED BY <1>3, <2>1, <2>2, <2>3 DEF Following, BitOf, Level
<1>4. CASE k = phase
  <2>1. loop' = loop
    <3>1. CASE phase = 0
      <4>1. loop.state = 3 /\ Level(k) = 1
        BY <1>4, <3>1 DEF Following, Level
      <4> QED BY <4>1, SampleCases
    <3>2. CASE phase # 0
      <4>1. loop.state = Level(k) /\ Level(k) \in {0, 1}
        BY <1>4, <3>2 DEF Following, Level
      <4> QED BY <4>1, SampleCases
    <3> QED BY <3>1, <3>2
  <2> QED BY <1>2, <1>4, <2>1
<1>5. CASE k = phase + 1
  <2>1. PICK j \in Nat :
          \/ phase = 2 * j /\ Level(phase) = 1 /\ (phase - 1) \div 2 = j - 1
          \/ phase = 2 * j + 1 /\ Level(phase) = 0 /\ (phase - 1) \div 2 = j
    BY Phases
  <2>2. PICK n \in Nat :
          \/ k = 2 * n /\ Level(k) = 1 /\ (k - 1) \div 2 = n - 1
          \/ k = 2 * n + 1 /\ Level(k) = 0 /\ (k - 1) \div 2 = n
    BY Phases
  <2>3. CASE phase = 0
    <3>1. k = 1 /\ Level(k) = 0 /\ (k - 1) \div 2 = 0 /\ loop.state = 3 /\ Len(loop.sig) = 0
      BY <1>5, <2>2, <2>3 DEF Following
    <3>2. loop' = EdgeAt(k, late)
      BY <3>1, SampleCases
    <3> QED BY <1>3, <1>5, <3>1, <3>2
  <2>4. CASE phase = 2 * j + 1
    <3>1. /\ k = 2 * (j + 1) /\ Level(k) = 1 /\ (k - 1) \div 2 = j
          /\ loop.state = 0 /\ Len(loop.sig) = j
      BY <1>5, <2>1, <2>2, <2>4 DEF Following
    <3>2. loop' = EdgeAt(k, late)
      BY <3>1, SampleCases
    <3> QED BY <1>3, <1>5, <3>1, <3>2
  <2>5. CASE phase = 2 * j /\ phase # 0
    <3>1. /\ k = 2 * j + 1 /\ Level(k) = 0 /\ (k - 1) \div 2 = j
          /\ loop.state = 1 /\ Len(loop.sig) = j - 1 /\ loop.from = 2 * j
      BY <1>5, <2>1, <2>2, <2>5 DEF Following
    <3>2. BitOf(2 * j) \in Bits
      <4>1. j \in 1..(DHT_DTA_BITS + 1)
        BY <2>5, <3>1, BitsAssumption
      <4> QED BY <4>1, BitSent
    <3>3. Measured(k, late) = {BitOf(2 * j)}
      BY <1>1, <1>5, <2>5, <3>1 DEF Measured
    <3>4. loop' = [EdgeAt(k, late) EXCEPT !.sig = Append(EdgeAt(k, late).sig, BitOf(2 * j))]
      BY <3>1, <3>3, SampleCases, SMTT(30)
    <3>9. EdgeAt(k, late) \in [state : {0, 1, 3}, from : Nat, fuzzy : {FALSE}, sig : Seq(Bits)]
          /\ EdgeAt(k, late).from = k /\ EdgeAt(k, late).state = 0 /\ EdgeAt(k, late).sig = loop.sig
      BY <1>1, <3>1 DEF EdgeAt, Following
    <3> DEFINE sig == Append(loop.sig, BitOf(2 * j))
    <3>5. /\ sig \in Seq(Bits) /\ Len(sig) = j
          /\ \A i \in 1..Len(sig) : sig[i] = BitOf(2 * i)
      BY <1>1, <3>1, <3>2, SMTT(60) DEF Following
    <3> HIDE DEF sig
    <3>6. /\ loop' \in [state : {0, 1, 3}, from : Nat, fuzzy : {FALSE}, sig : Seq(Bits)]
          /\ loop'.from = k /\ loop'.state = 0 /\ loop'.sig = sig
      BY <3>4, <3>5, <3>9 DEF sig
    <3>7. \A i \in 1..Len(sig) : sig[i] = BitOf(2 * i)'
      BY <3>5 DEF BitOf
    <3>8. phase' # 0 /\ Level(phase') = 0 /\ (phase' - 1) \div 2 = j
      BY <1>1, <3>1
    <3> QED BY <1>1, <3>1, <3>5, <3>6, <3>7, <3>8 DEF Following, BitOf, Level
  <2> QED BY <2>1, <2>3, <2>4, <2>5
<1> QED BY <1>1, <1>4, <1>5

LEMMA PromptStep == PromptInv /\ [Next]_vars => PromptInv'
<1> SUFFICES ASSUME PromptInv, [Next]_vars PROVE PromptInv'
  OBVIOUS
<1> DEFINE In == {"d_read", "d_decode", "d_finish"}
<1>1. ASSUME UNCHANGED <<sensor, phase, loop, slips>>,
             \/ UNCHANGED pc
             \/ pc' \notin In /\ pc \notin In
             \/ pc' = "d_finish"
      PROVE  PromptInv'
  BY <1>1 DEF PromptInv, Following, BitOf
<1>2. CASE DhtCall \/ DhtTry \/ DhtReturn \/ DhtRetry
  BY <1>1, <1>2 DEF DhtCall, DhtTry, DhtReturn, DhtRetry, Fail
<1>3. CASE DhtRelease
  <2>1. /\ phase = 0 /\ loop = NewLoop /\ slips = 0 /\ UNCHANGED <<phase, loop, slips>>
        /\ pc' \in {"d_read", "d_finish"}
    BY <1>3 DEF DhtRelease, PromptInv, Fail
  <2>2. sensor' \in [bits : Messages, phases : Answers] /\ sensor'.phases \in Nat
    BY <1>3, BitsAssumption DEF DhtRelease
  <2>3. Following'
    BY <2>1 DEF Following, NewLoop, Bits
  <2> QED BY <2>1, <2>2, <2>3 DEF PromptInv
<1>4. CASE DhtRead
  <2>1. pc = "d_read" /\ UNCHANGED sensor
    BY <1>4 DEF DhtRead
  <2>2. /\ sensor \in [bits : Messages, phases : Answers] /\ sensor.bits \in Messages
        /\ sensor.phases \in Nat /\ phase <= sensor.phases /\ phase \in Nat /\ slips \in Nat
        /\ slips = 0 => Following
    BY <2>1, BitsAssumption DEF PromptInv
  <2>3. CASE /\ Len(loop.sig) <= DHT_DTA_BITS /\ UNCHANGED pc
             /\ \E k \in phase..sensor.phases, late \in BOOLEAN : Sample(k, late)
    <3>1. PICK k \in phase..sensor.phases, late \in BOOLEAN : Sample(k, late)
      BY <2>3
    <3>2. k \in Nat /\ k >= phase /\ k <= sensor.phases
      BY <2>2
    <3>3. slips' \in Nat /\ phase' = k /\ (slips' = 0 => slips = 0)
      <4>1. phase' = k /\ slips' = IF late \/ k > phase + 1 THEN slips + 1 ELSE slips
        BY <3>1, <3>2, SampleCases
      <4> QED BY <2>2, <4>1
    <3>4. slips' = 0 => Following'
      BY <2>1, <2>2, <2>3, <3>1, <3>2, <3>3, SampleFollows
    <3> QED BY <2>1, <2>2, <2>3, <3>2, <3>3, <3>4 DEF PromptInv
  <2>4. CASE /\ UNCHANGED <<phase, loop>> /\ pc' = "d_decode"
             /\ slips' = IF phase = sensor.phases THEN slips ELSE slips + 1
    <3>1. slips' \in Nat /\ (slips' = 0 => slips = 0 /\ phase = sensor.phases)
      BY <2>2, <2>4
    <3> QED BY <2>1, <2>2, <2>4, <3>1 DEF PromptInv, Following, BitOf
  <2>5. CASE Len(loop.sig) > DHT_DTA_BITS /\ pc' = "d_decode" /\ UNCHANGED <<phase, loop, slips>>
    BY <2>1, <2>2, <2>5 DEF PromptInv, Following, BitOf
  <2> QED BY <1>4, <2>3, <2>4, <2>5 DEF DhtRead
<1>5. CASE DhtReadFails
  BY <1>1, <1>5 DEF DhtReadFails, Fail, dhtVars
<1>6. CASE DhtDecode
  BY <1>1, <1>6 DEF DhtDecode
<1>7. CASE DhtFinish
  BY <1>7 DEF DhtFinish, PromptInv
<1>8. CASE HcsrNext /\ UNCHANGED dhtVars
  BY <1>1, <1>8 DEF HcsrNext, HcsrCall, HcsrStep, HcsrTrigger, HcsrRelease, HcsrRead, HcsrReadFails,
     HcsrDecode, HcsrFinish, EchoOver, Echo, Fail, callVars, dhtVars
<1>9. CASE PisoNext /\ UNCHANGED dhtVars
  BY <1>1, <1>9 DEF PisoNext, PisoStep, PisoCall, PisoLoad, PisoHold, PisoFall, PisoRead, PisoRise,
     PisoFinish, ClockFail, Fail, dhtVars
<1>10. CASE UNCHANGED vars
  BY <1>1, <1>10 DEF vars, dhtVars, callVars
<1> QED BY <1>2, <1>3, <1>4, <1>5, <1>6, <1>7, <1>8, <1>9, <1>10, StepCases DEF DhtNext, DhtStep

\* When no sample came late and the sensor has sent its whole message, the decoded
\* bits are those sent, the greeting being neither taken for a bit nor one dropped
\* for it, and the try succeeds (__dht_probe(), dht.c): for messages of any length.
THEOREM PromptDecodesExactly == Spec => []PromptIsExact
<1>1. Init => PromptInv
  BY DEF Init, ProbingInit, DhtInit, PromptInv
<1>2. ASSUME PromptInv, pc = "d_decode", slips = 0, sensor.phases = LastPhase
      PROVE  Result = "SUCCESS" /\ Data = sensor.bits
  <2>1. /\ Following /\ phase \in Nat /\ phase <= LastPhase /\ sensor.bits \in Messages
        /\ phase = LastPhase \/ Len(loop.sig) > DHT_DTA_BITS
    BY <1>2 DEF PromptInv
  <2>2. loop.sig \in Seq(Bits) /\ DHT_DTA_BITS \in Nat
    BY <2>1, BitsAssumption DEF Following
  <2>3. Len(loop.sig) = DHT_DTA_BITS + 1
    <3>1. (2 * DHT_DTA_BITS + 3 - 1) \div 2 = DHT_DTA_BITS + 1
      BY <2>2
    <3>2. Len(loop.sig) <= DHT_DTA_BITS + 1
      BY <2>1, <2>2, <3>1 DEF Following, LastPhase
    <3>3. phase = LastPhase => Len(loop.sig) = DHT_DTA_BITS + 1
      BY <2>1, <2>2, <3>1 DEF Following, LastPhase
    <3> QED BY <2>1, <2>2, <3>2, <3>3
  <2>4. Data = Tail(loop.sig) /\ loop.sig # <<>> /\ ~(Len(loop.sig) < DHT_DTA_BITS)
    BY <2>2, <2>3 DEF Data
  <2>5. /\ Tail(loop.sig) \in Seq(Bits) /\ Len(Tail(loop.sig)) = DHT_DTA_BITS
        /\ \A i \in 1..DHT_DTA_BITS : Tail(loop.sig)[i] = loop.sig[i + 1]
    BY <2>2, <2>3, <2>4
  <2>6. \A i \in 1..DHT_DTA_BITS : loop.sig[i + 1] = sensor.bits[i]
    <3> SUFFICES ASSUME NEW i \in 1..DHT_DTA_BITS PROVE loop.sig[i + 1] = sensor.bits[i]
      OBVIOUS
    <3>1. i + 1 \in 1..(DHT_DTA_BITS + 1) /\ i + 1 > 1 /\ (i + 1) - 1 = i
      BY <2>2
    <3>2. loop.sig[i + 1] = BitOf(2 * (i + 1))
      BY <2>1, <2>3, <3>1 DEF Following
    <3> QED BY <2>1, <3>1, <3>2, BitSent
  <2>7. sensor.bits \in [1..DHT_DTA_BITS -> Bits] /\ CrcOk(sensor.bits)
    BY <2>1 DEF Messages, Bits
  <2>8. Tail(loop.sig) = sensor.bits
    <3> DEFINE t == Tail(loop.sig)
    <3>1. t \in [1..DHT_DTA_BITS -> Bits] /\ \A i \in 1..DHT_DTA_BITS : t[i] = sensor.bits[i]
      BY <2>5, <2>6, LenProperties
    <3> HIDE DEF t
    <3> DEFINE b == sensor.bits
    <3>2. b \in [1..DHT_DTA_BITS -> Bits] /\ \A i \in 1..DHT_DTA_BITS : t[i] = b[i]
      BY <2>7, <3>1
    <3> HIDE DEF b
    <3>3. t = b
      <4>1. t = [i \in 1..DHT_DTA_BITS |-> t[i]] /\ b = [i \in 1..DHT_DTA_BITS |-> b[i]]
        BY <3>1, <3>2
      <4>2. [i \in 1..DHT_DTA_BITS |-> t[i]] = [i \in 1..DHT_DTA_BITS |-> b[i]]
        BY <3>2
      <4> QED BY <4>1, <4>2
    <3> QED BY <3>3 DEF t, b
  <2> QED BY <2>4, <2>7, <2>8 DEF Result
<1>3. PromptInv => PromptIsExact
  BY <1>2 DEF PromptIsExact
<1> QED BY <1>1, <1>3, PromptStep, PTL DEF Spec

-----------------------------------------------------------------------------
(***************************************************************************)
(* The thermometers (module DsTherm), for every set of processes, sensors, *)
(* buses and temperatures, however they are powered, and every number of   *)
(* failed or garbled messages.                                             *)
(***************************************************************************)
Celsius == -880..2000

\* conversions take some time, and no longer than the data sheet says
InTime(v) ==
  /\ v \in [Therms -> [0..3 -> Nat \ {0}]]
  /\ \A s \in Therms : \A res \in 0..3 : v[s][res] <= Slowest(res)

\* what the proofs use of ThermAssumption
ThermSetup ==
  /\ Resolutions \subseteq 0..3 /\ Temps \subseteq Celsius /\ Pullups \subseteq Nat
  /\ Buses \subseteq SUBSET Therms /\ 0 \in Alarms
  /\ \A v \in Speeds : InTime(v)
  /\ Procs \cap Others = {} /\ "none" \notin Procs

\* The proofs use no more of the assumption than this.
LEMMA SetupIs == ThermSetup
  BY ThermAssumption DEF ThermSetup, Celsius, InTime

Registers == [alarm : Alarms, res : 0..3]
Sensor == [temp : Celsius, tres : 0..3, conv : Nat, reg : Registers, eeprom : Registers]
CallPlaces == {"idle", "pow", "res", "conv", "wait", "pull", "cut", "get", "put"}
Olds == Registers \cup {Idle.old}
Call == [at : CallPlaces, s : Therms \cup {"none"}, paras : BOOLEAN, res : 0..3, wait : Nat, old : Olds]

\* a DS18S20 has 12 bits, also after a reset
Fixed(s, x) == s \in DS18S20 => x.reg.res = 3 /\ x.eeprom.res = 3
SensorsOK == sens \in [Therms -> Sensor] /\ \A s \in Therms : Fixed(s, sens[s])

\* dsth_get_conv_time() is enough for every sensor.
LEMMA ConvTime ==
  ASSUME NEW r \in 0..3
  PROVE  dsth_get_conv_time(r) \in Nat /\ Slowest(r) <= dsth_get_conv_time(r)
<1>1. 2^0 = 1 /\ 2^1 = 2 /\ 2^2 = 4 /\ 2^3 = 8
  OBVIOUS
<1> DEFINE n == 3 - r
<1>2. dsth_get_conv_time(r) = 8 \div 2^n /\ Slowest(r) = 2^r
  BY DEF dsth_get_conv_time, DSTH_CONV_T_12BIT, Slowest
<1>3. (r = 0 /\ n = 3) \/ (r = 1 /\ n = 2) \/ (r = 2 /\ n = 1) \/ (r = 3 /\ n = 0)
  OBVIOUS
<1> HIDE DEF n
<1>4. CASE r = 0 /\ n = 3
  BY <1>1, <1>2, <1>4
<1>5. CASE r = 1 /\ n = 2
  BY <1>1, <1>2, <1>5
<1>6. CASE r = 2 /\ n = 1
  BY <1>1, <1>2, <1>6
<1>7. CASE r = 3 /\ n = 0
  BY <1>1, <1>2, <1>7
<1> QED BY <1>3, <1>4, <1>5, <1>6, <1>7

\* The longest conversion of the data sheet is a number.
LEMMA SlowestIs ==
  ASSUME NEW r \in 0..3
  PROVE  Slowest(r) \in Nat
<1>1. 2^0 = 1 /\ 2^1 = 2 /\ 2^2 = 4 /\ 2^3 = 8
  OBVIOUS
<1>2. r = 0 \/ r = 1 \/ r = 2 \/ r = 3
  OBVIOUS
<1>3. 2^r \in Nat
  <2>1. CASE r = 0
    BY <1>1, <2>1
  <2>2. CASE r = 1
    BY <1>1, <2>2
  <2>3. CASE r = 2
    BY <1>1, <2>3
  <2>4. CASE r = 3
    BY <1>1, <2>4
  <2> QED BY <1>2, <2>1, <2>2, <2>3, <2>4
<1> QED BY <1>3 DEF Slowest

\* A sensor that lost its power is one that has read its EEPROM.
LEMMA ResetIs ==
  ASSUME NEW x \in Sensor
  PROVE  /\ Reset(x) \in Sensor
         /\ Reset(x).conv = 0
         /\ Reset(x).reg = x.eeprom /\ Reset(x).eeprom = x.eeprom
<1> DEFINE x1 == [x EXCEPT !.temp = 1360]
           x2 == [x1 EXCEPT !.tres = 3]
           x3 == [x2 EXCEPT !.reg = x.eeprom]
           x4 == [x3 EXCEPT !.conv = 0]
<1>1. 1360 \in Celsius /\ x.eeprom \in Registers
  BY DEF Celsius, Sensor
<1>2. x1 \in Sensor
  BY <1>1 DEF Sensor
<1> HIDE DEF x1
<1>3. x2 \in Sensor
  BY <1>2 DEF Sensor
<1> HIDE DEF x2
<1>4. x3 \in Sensor
  BY <1>1, <1>3 DEF Sensor
<1> HIDE DEF x3
<1>5. x4 \in Sensor
  BY <1>4 DEF Sensor
<1>6. Reset(x) = x4
  BY DEF Reset, Sensor, x1, x2, x3
<1>7. /\ Reset(x).conv = 0
      /\ Reset(x).reg = x.eeprom /\ Reset(x).eeprom = x.eeprom
  BY DEF Reset, Sensor
<1> QED BY <1>5, <1>6, <1>7

\* What a message finds: a sensor as it was, unless the message cut its power.
LEMMA AwakeIs ==
  ASSUME SensorsOK, NEW s \in Therms
  PROVE  /\ Awake[s] \in Sensor /\ Fixed(s, Awake[s])
         /\ s \in parasitic => Awake[s].conv = 0
         /\ s \notin parasitic \/ sens[s].conv = 0 => Awake[s] = sens[s]
<1>1. sens[s] \in Sensor /\ Fixed(s, sens[s])
  BY DEF SensorsOK
<1>2. Awake[s] = IF s \in parasitic /\ sens[s].conv > 0 THEN Reset(sens[s]) ELSE sens[s]
  BY DEF Awake
<1>3. Reset(sens[s]) \in Sensor /\ Fixed(s, Reset(sens[s])) /\ Reset(sens[s]).conv = 0
  BY <1>1, ResetIs DEF Fixed
<1>4. sens[s].conv \in Nat
  BY <1>1 DEF Sensor
<1> QED BY <1>1, <1>2, <1>3, <1>4

\* what a sensor may make of a command
Obeys(s, x) == {Convert(s, x), Copy(x), Recall(x)}
               \cup {WriteRegs(s, x, reg) : reg \in Registers}

\* A command leaves a sensor a sensor, and a DS18S20 at 12 bits.
LEMMA ObeysIs ==
  ASSUME InTime(speed), NEW s \in Therms, NEW x \in Sensor, Fixed(s, x), NEW y \in Obeys(s, x)
  PROVE  y \in Sensor /\ Fixed(s, y)
<1>1. CASE y = Convert(s, x)
  <2>1. x.reg.res \in 0..3
    BY DEF Sensor, Registers
  <2>2. speed[s][x.reg.res] \in Nat
    BY <2>1 DEF InTime
  <2>3. y.reg = x.reg /\ y.eeprom = x.eeprom
    BY <1>1 DEF Convert, Sensor
  <2> QED BY <1>1, <2>2, <2>3 DEF Convert, Sensor, Fixed
<1>2. CASE y = Copy(x)
  BY <1>2 DEF Copy, Sensor, Fixed, Registers
<1>3. CASE y = Recall(x)
  BY <1>3 DEF Recall, Sensor, Fixed, Registers
<1>4. CASE \E reg \in Registers : y = WriteRegs(s, x, reg)
  <2>1. PICK reg \in Registers : y = WriteRegs(s, x, reg)
    BY <1>4
  <2>2. Regs(s, reg) \in Registers /\ (s \in DS18S20 => Regs(s, reg).res = 3)
    BY DEF Regs, Registers
  <2> QED BY <2>1, <2>2 DEF WriteRegs, Sensor, Fixed
<1> QED BY <1>1, <1>2, <1>3, <1>4 DEF Obeys

\* the step of the bus: a message of p to the sensors in S
Heard(p, S) ==
  /\ hold = 0
  /\ sens' \in [Therms -> Sensor]
  /\ \A s \in Therms : sens'[s] = Awake[s] \/ (s \in S /\ sens'[s] \in Obeys(s, Awake[s]))
  /\ spoiled' = [q \in Procs |-> spoiled[q] \/ (q # p /\ call[q].s \in S)]

\* A message that only reads (exec_cmd() for READ_SCRATCHPAD and READ_POW_SUPPLY).
LEMMA QueryHeard ==
  ASSUME SensorsOK, NEW p, Query(p)
  PROVE  Heard(p, {}) /\ \A s \in Therms : sens'[s] = Awake[s]
  BY AwakeIs DEF Query, Message, Heard

\* the messages of Commands
ConvertMessage(p, S) == Message(p, S, Convert)
WriteMessage(p, S, reg) == Message(p, S, LAMBDA s, x : WriteRegs(s, x, reg))
CopyMessage(p, S) == Message(p, S, LAMBDA s, x : Copy(x))
RecallMessage(p, S) == Message(p, S, LAMBDA s, x : Recall(x))

\* CONVERT_T starts the conversions.
LEMMA ConvertHeard ==
  ASSUME SensorsOK, InTime(speed), NEW p, NEW S, ConvertMessage(p, S)
  PROVE  Heard(p, S) /\ \A s \in S \cap Therms : sens'[s] = Convert(s, Awake[s])
<1>1. \A s \in Therms : sens'[s] = IF s \in S THEN Convert(s, Awake[s]) ELSE Awake[s]
  BY DEF Message, ConvertMessage
<1>2. \A s \in Therms : Convert(s, Awake[s]) \in Obeys(s, Awake[s])
  BY DEF Obeys
<1>3. \A s \in Therms : sens'[s] \in Sensor
  BY <1>1, <1>2, AwakeIs, ObeysIs
<1> QED BY <1>1, <1>2, <1>3 DEF Message, ConvertMessage, Heard

\* COPY_SCRATCHPAD.
LEMMA CopyHeard ==
  ASSUME SensorsOK, InTime(speed), NEW p, NEW S, CopyMessage(p, S)
  PROVE  Heard(p, S)
<1>1. \A s \in Therms : sens'[s] = IF s \in S THEN Copy(Awake[s]) ELSE Awake[s]
  BY DEF Message, CopyMessage
<1>2. \A s \in Therms : Copy(Awake[s]) \in Obeys(s, Awake[s])
  BY DEF Obeys
<1>3. \A s \in Therms : sens'[s] \in Sensor
  BY <1>1, <1>2, AwakeIs, ObeysIs
<1> QED BY <1>1, <1>2, <1>3 DEF Message, CopyMessage, Heard

\* RECALL_EEPROM.
LEMMA RecallHeard ==
  ASSUME SensorsOK, InTime(speed), NEW p, NEW S, RecallMessage(p, S)
  PROVE  Heard(p, S)
<1>1. \A s \in Therms : sens'[s] = IF s \in S THEN Recall(Awake[s]) ELSE Awake[s]
  BY DEF Message, RecallMessage
<1>2. \A s \in Therms : Recall(Awake[s]) \in Obeys(s, Awake[s])
  BY DEF Obeys
<1>3. \A s \in Therms : sens'[s] \in Sensor
  BY <1>1, <1>2, AwakeIs, ObeysIs
<1> QED BY <1>1, <1>2, <1>3 DEF Message, RecallMessage, Heard

\* WRITE_SCRATCHPAD sets the registers of those it is for.
LEMMA WriteHeard ==
  ASSUME SensorsOK, InTime(speed), NEW p, NEW S, NEW reg \in Registers, WriteMessage(p, S, reg)
  PROVE  Heard(p, S) /\ \A s \in S \cap Therms : sens'[s] = WriteRegs(s, Awake[s], reg)
<1>1. \A s \in Therms : sens'[s] = IF s \in S THEN WriteRegs(s, Awake[s], reg) ELSE Awake[s]
  BY DEF Message, WriteMessage
<1>2. \A s \in Therms : WriteRegs(s, Awake[s], reg) \in Obeys(s, Awake[s])
  BY DEF Obeys
<1>3. \A s \in Therms : sens'[s] \in Sensor
  BY <1>1, <1>2, AwakeIs, ObeysIs
<1> QED BY <1>1, <1>2, <1>3 DEF Message, WriteMessage, Heard

\* the registers that SetResRead and SetResWrite have read and write back
SetResGood(p) ==
  LET c == call[p]
      x == sens[c.s]
  IN  /\ c.at \in {"get", "put"} => c.s \notin DS18S20
      /\ c.at = "put" => c.old \in Registers
      /\ c.at = "put" /\ ~spoiled[p] => c.old = x.reg /\ (c.s \in parasitic => x.conv = 0)

ProbeGood(p) ==
  LET c == call[p]
      x == sens[c.s]
  IN  ~spoiled[p] /\ (c.s \in parasitic => WritePullup)
      => /\ c.at \in {"res", "conv", "wait", "pull"} => (c.paras <=> c.s \in parasitic)
         /\ c.at \in {"conv", "wait", "pull"} => x.reg.res = c.res
         /\ c.at = "conv" /\ c.s \in parasitic /\ c.s \notin DS18S20 => x.conv = 0
         /\ c.at \in {"wait", "pull"} => amb \in felt[p] /\ (x.conv = 0 => x.temp \in felt[p] /\ x.tres = c.res)
         /\ c.at = "wait" => ~c.paras /\ x.conv <= c.wait
         /\ c.at = "pull" => c.paras /\ x.conv <= hold

CallGood(p) == call[p].at # "idle" => call[p].s \in Therms /\ SetResGood(p) /\ ProbeGood(p)

ThermTypes ==
  /\ bus \in Buses /\ InTime(speed) /\ amb \in Celsius /\ hold \in Nat /\ SensorsOK
  /\ call \in [Procs -> Call]
  /\ felt \in [Procs -> SUBSET Celsius]
  /\ spoiled \in [Procs -> BOOLEAN]

ThermInv == ThermTypes /\ \A p \in Procs : CallGood(p)

(***************************************************************************)
(* A process that the message of another is not for keeps what it knows.   *)
(***************************************************************************)
Untouched(s) == sens'[s] = sens[s] \/ (hold = 0 /\ sens'[s] = Awake[s])

\* What CallGood says of q outlives a step that leaves its call alone and its sensor
\* untouched, or spoils the call.
LEMMA Bystander ==
  ASSUME ThermTypes, NEW q \in Procs, CallGood(q),
         call'[q] = call[q], felt'[q] = felt[q], amb' = amb,
         parasitic' = parasitic, WritePullup' = WritePullup,
         hold' = hold \/ (hold = 0 /\ hold' \in Nat),
         call[q].at # "idle" /\ ~spoiled'[q] => ~spoiled[q] /\ Untouched(call[q].s)
  PROVE  CallGood(q)'
<1> DEFINE c == call[q]
           s == c.s
<1> SUFFICES ASSUME c.at # "idle"
             PROVE  SetResGood(q)' /\ ProbeGood(q)'
  BY DEF CallGood
<1>1. s \in Therms /\ SetResGood(q) /\ ProbeGood(q)
  BY DEF CallGood
<1>2. CASE spoiled'[q]
  BY <1>1, <1>2 DEF SetResGood, ProbeGood
<1>3. CASE ~spoiled'[q]
  <2>1. ~spoiled[q] /\ Untouched(s)
    BY <1>3
  <2>2. s \notin parasitic \/ sens[s].conv = 0 => sens'[s] = sens[s]
    BY <1>1, <2>1, AwakeIs DEF Untouched, ThermTypes
  <2>3. sens[s] \in Sensor /\ sens'[s] \in Sensor /\ Fixed(s, sens[s]) /\ Fixed(s, sens'[s])
    BY <1>1, <2>1, AwakeIs DEF Untouched, ThermTypes, SensorsOK
  <2>4. SetResGood(q)'
    BY <1>1, <1>3, <2>1, <2>2 DEF SetResGood
  <2>5. ASSUME s \in parasitic => WritePullup
        PROVE  ProbeGood(q)'
    <3>1. CASE c.at = "res"
      BY <1>1, <2>1, <2>5, <3>1 DEF ProbeGood
    <3>2. CASE c.at = "conv"
      <4>1. sens[s].reg.res = c.res /\ (s \in parasitic /\ s \notin DS18S20 => sens[s].conv = 0)
        BY <1>1, <2>1, <2>5, <3>2 DEF ProbeGood
      <4>2. CASE s \in DS18S20
        BY <1>1, <2>1, <2>3, <2>5, <3>2, <4>1, <4>2 DEF ProbeGood, Fixed
      <4>3. CASE s \notin DS18S20
        BY <1>1, <2>1, <2>2, <2>5, <3>2, <4>1, <4>3 DEF ProbeGood
      <4> QED BY <4>2, <4>3
    <3>3. CASE c.at = "wait"
      BY <1>1, <2>1, <2>2, <2>5, <3>3 DEF ProbeGood
    <3>4. CASE c.at = "pull"
      <4>1. c.paras /\ s \in parasitic /\ sens[s].conv <= hold
        BY <1>1, <2>1, <2>5, <3>4 DEF ProbeGood
      <4>2. sens[s].conv \in Nat /\ hold \in Nat
        BY <2>3 DEF Sensor, ThermTypes
      <4>3. sens'[s] = sens[s] /\ sens[s].conv <= hold'
        BY <2>1, <2>2, <4>1, <4>2 DEF Untouched
      <4> QED BY <1>1, <2>1, <2>5, <3>4, <4>3 DEF ProbeGood
    <3> QED BY <3>1, <3>2, <3>3, <3>4 DEF ProbeGood
  <2> QED BY <2>4, <2>5 DEF ProbeGood
<1> QED BY <1>2, <1>3

\* a step of p, as the other processes see it
Aside(p) ==
  /\ SensorsOK' /\ spoiled' \in [Procs -> BOOLEAN]
  /\ \A q \in Procs \ {p} :
       call[q].s \in Therms /\ ~spoiled'[q] => ~spoiled[q] /\ Untouched(call[q].s)

\* A message of p, as the other processes see it.
LEMMA HeardAside ==
  ASSUME ThermTypes, NEW p, NEW S, Heard(p, S)
  PROVE  Aside(p) /\ (p \in Procs => spoiled'[p] = spoiled[p])
<1>1. SensorsOK'
  <2>1. \A s \in Therms : Fixed(s, sens'[s])
    BY AwakeIs, ObeysIs DEF ThermTypes, Heard
  <2> QED BY <2>1 DEF Heard, SensorsOK
<1>2. spoiled' \in [Procs -> BOOLEAN]
  BY DEF ThermTypes, Heard
<1>3. ASSUME NEW q \in Procs \ {p}, call[q].s \in Therms, ~spoiled'[q]
      PROVE  ~spoiled[q] /\ Untouched(call[q].s)
  <2>1. ~spoiled[q] /\ call[q].s \notin S
    BY <1>3 DEF Heard
  <2> QED BY <1>3, <2>1 DEF Heard, Untouched
<1>4. ASSUME p \in Procs
      PROVE  spoiled'[p] = spoiled[p]
  BY <1>4 DEF Heard, ThermTypes
<1> QED BY <1>1, <1>2, <1>3, <1>4 DEF Aside

\* A step that touches no sensor.
LEMMA StillAside ==
  ASSUME ThermTypes, NEW p, UNCHANGED <<sens, spoiled>>
  PROVE  Aside(p)
  BY DEF Aside, ThermTypes, SensorsOK, Untouched, Fixed

\* so a step of p keeps the invariant if it keeps what concerns p
LEMMA OfOne ==
  ASSUME ThermInv, NEW p, Aside(p),
         UNCHANGED <<WritePullup, bus, parasitic, speed, amb>>,
         hold' = hold \/ (hold = 0 /\ hold' \in Nat),
         call' \in [Procs -> Call], felt' \in [Procs -> SUBSET Celsius],
         \A q \in Procs \ {p} : call'[q] = call[q] /\ felt'[q] = felt[q],
         p \in Procs => CallGood(p)'
  PROVE  ThermInv'
<1>1. ThermTypes'
  BY DEF ThermInv, ThermTypes, Aside
<1>2. ASSUME NEW q \in Procs
      PROVE  CallGood(q)'
  <2>1. CASE q = p
    BY <2>1
  <2>2. CASE q # p
    <3>1. call[q].at # "idle" /\ ~spoiled'[q] => ~spoiled[q] /\ Untouched(call[q].s)
      BY <2>2 DEF Aside, ThermInv, CallGood
    <3> QED BY <2>2, <3>1, Bystander DEF ThermInv
  <2> QED BY <2>1, <2>2
<1> QED BY <1>1, <1>2 DEF ThermInv

\* The place of a process that has no call.
LEMMA IdleIs ==
  /\ Idle \in Call /\ Idle.at = "idle"
<1>1. /\ Idle.at = "idle" /\ Idle.s = "none" /\ Idle.paras = FALSE
      /\ Idle.res = 0 /\ Idle.wait = 0
  BY DEF Idle
<1>2. Idle = [at |-> "idle", s |-> "none", paras |-> FALSE, res |-> 0, wait |-> 0, old |-> Idle.old]
  BY DEF Idle
<1>3. [at |-> "idle", s |-> "none", paras |-> FALSE, res |-> 0, wait |-> 0, old |-> Idle.old] \in Call
  BY DEF Call, CallPlaces, Olds
<1> QED BY <1>1, <1>2, <1>3

\* one that begins
ProbeCall(s, at) == [Idle EXCEPT !.s = s, !.at = at]
SetResCall(s, r) == [Idle EXCEPT !.s = s, !.res = r, !.at = "get"]

\* The record of a dsth_probe() that begins.
LEMMA BegunProbe ==
  ASSUME NEW s \in Therms, NEW at \in CallPlaces
  PROVE  LET c == ProbeCall(s, at)
         IN  c \in Call /\ c.s = s /\ c.at = at /\ ~c.paras
<1> DEFINE i == Idle
<1>1. i \in Call /\ ~i.paras
  BY IdleIs DEF Idle
<1> HIDE DEF i
<1>2. [i EXCEPT !.s = s, !.at = at] \in Call
  BY <1>1 DEF Call
<1>3. [i EXCEPT !.s = s, !.at = at].s = s /\ [i EXCEPT !.s = s, !.at = at].at = at
  BY <1>1 DEF Call
<1>4. [i EXCEPT !.s = s, !.at = at].paras = i.paras
  BY <1>1 DEF Call
<1> QED BY <1>1, <1>2, <1>3, <1>4, Zenon DEF i, ProbeCall

\* The record of a dsth_set_res() that begins.
LEMMA BegunSetRes ==
  ASSUME NEW s \in Therms, NEW r \in 0..3
  PROVE  LET c == SetResCall(s, r)
         IN  c \in Call /\ c.s = s /\ c.at = "get"
<1> DEFINE i == Idle
           j == [i EXCEPT !.s = s]
           k == [j EXCEPT !.res = r]
<1>1. i \in Call
  BY IdleIs
<1> HIDE DEF i
<1>2. j \in Call /\ j.s = s
  BY <1>1 DEF Call
<1>3. [i EXCEPT !.s = s, !.res = r, !.at = "get"] = [k EXCEPT !.at = "get"]
  BY <1>1 DEF Call
<1> HIDE DEF j
<1>4. k \in Call /\ k.s = s
  BY <1>2 DEF Call
<1> HIDE DEF k
<1>5. [k EXCEPT !.at = "get"] \in Call
  BY <1>4 DEF Call, CallPlaces
<1>6. [k EXCEPT !.at = "get"].s = s /\ [k EXCEPT !.at = "get"].at = "get"
  BY <1>4 DEF Call
<1> QED BY <1>3, <1>5, <1>6 DEF i, SetResCall

\* a call that returns
LEMMA Returned ==
  ASSUME ThermInv, NEW p \in Procs, Aside(p),
         UNCHANGED <<WritePullup, bus, parasitic, speed, amb, hold>>,
         NEW rc, NEW temp, Return(p, rc, temp)
  PROVE  ThermInv'
<1>1. call' = [call EXCEPT ![p] = Idle] /\ felt' = [felt EXCEPT ![p] = {}]
  BY DEF Return
<1>2. call' \in [Procs -> Call] /\ felt' \in [Procs -> SUBSET Celsius]
  BY <1>1, IdleIs DEF ThermInv, ThermTypes
<1>3. CallGood(p)'
  BY <1>1, IdleIs DEF CallGood, ThermInv, ThermTypes
<1>4. \A q \in Procs \ {p} : call'[q] = call[q] /\ felt'[q] = felt[q]
  BY <1>1 DEF ThermInv, ThermTypes
<1>5. UNCHANGED <<WritePullup, bus, parasitic, speed, amb>>
  OBVIOUS
<1>6. hold' = hold \/ (hold = 0 /\ hold' \in Nat)
  OBVIOUS
<1> QED BY <1>2, <1>3, <1>4, <1>5, <1>6, OfOne

\* one that goes on
LEMMA WentOn ==
  ASSUME ThermInv, NEW p \in Procs, Aside(p),
         UNCHANGED <<WritePullup, bus, parasitic, speed, amb>>,
         hold' = hold \/ (hold = 0 /\ hold' \in Nat),
         NEW c \in Call, call' = [call EXCEPT ![p] = c],
         NEW F \in SUBSET Celsius, felt' = [felt EXCEPT ![p] = F],
         CallGood(p)'
  PROVE  ThermInv'
<1>2. call' \in [Procs -> Call] /\ felt' \in [Procs -> SUBSET Celsius]
  BY DEF ThermInv, ThermTypes
<1>4. \A q \in Procs \ {p} : call'[q] = call[q] /\ felt'[q] = felt[q]
  BY DEF ThermInv, ThermTypes
<1> QED BY <1>2, <1>4, OfOne

(***************************************************************************)
(* The actions.                                                            *)
(***************************************************************************)
\* A read that is wrong without notice spoils the call and disturbs no other.
LEMMA MisreadAside ==
  ASSUME ThermInv, NEW p \in Procs, Misread(p)
  PROVE  Aside(p) /\ spoiled'[p]
<1>1. /\ spoiled' \in [Procs -> BOOLEAN] /\ spoiled'[p]
      /\ \A q \in Procs \ {p} : spoiled'[q] = spoiled[q]
  BY DEF Misread, ThermInv, ThermTypes
<1>2. SensorsOK'
  <2>1. sens' \in [Therms -> Sensor]
    BY AwakeIs DEF Misread, Awake, ThermInv, ThermTypes
  <2>2. \A s \in Therms : Fixed(s, sens'[s])
    BY AwakeIs DEF Misread, ThermInv, ThermTypes
  <2> QED BY <2>1, <2>2 DEF SensorsOK
<1> QED BY <1>1, <1>2 DEF Misread, Aside, Untouched

\* A read message that fails ends the call.
LEMMA QueryFails ==
  ASSUME ThermInv, NEW p \in Procs, UNCHANGED <<WritePullup, bus, parasitic, speed, amb, hold>>,
         Fails(p, {}, LAMBDA s, x : x)
  PROVE  ThermInv'
<1>1. Query(p) \/ UNCHANGED <<sens, spoiled>>
  BY DEF Fails, Query
<1>2. Aside(p)
  <2>1. CASE Query(p)
    BY <2>1, QueryHeard, HeardAside DEF ThermInv, ThermTypes
  <2>2. CASE UNCHANGED <<sens, spoiled>>
    BY <2>2, StillAside DEF ThermInv
  <2> QED BY <1>1, <2>1, <2>2
<1>3. Return(p, "ERR", 0)
  BY DEF Fails
<1> QED BY <1>2, <1>3, Returned

\* So does a scratchpad with a wrong CRC.
LEMMA GarbledKeeps ==
  ASSUME ThermInv, NEW p \in Procs, UNCHANGED <<WritePullup, bus, parasitic, speed, amb, hold>>,
         Garbled(p)
  PROVE  ThermInv'
<1>1. Aside(p)
  BY QueryHeard, HeardAside DEF ThermInv, ThermTypes, Garbled
<1>2. Return(p, "DTA_CRPT", 0)
  BY DEF Garbled
<1> QED BY <1>1, <1>2, Returned

\* A call that begins.
LEMMA BeginKeeps ==
  ASSUME ThermInv, NEW p \in Procs, NEW c \in Call, Begin(p, c),
         c.at \in {"pow", "res", "get"}, c.s \in Therms,
         c.at = "get" => c.s \notin DS18S20,
         c.at = "res" => ~c.paras /\ ~WritePullup
  PROVE  ThermInv'
<1>1. /\ call' = [call EXCEPT ![p] = c] /\ felt' = felt
      /\ UNCHANGED <<WritePullup, bus, parasitic, speed, amb, sens, hold>>
      /\ spoiled' = [spoiled EXCEPT ![p] = FALSE]
  BY DEF Begin, Goto, setting
<1>2. /\ spoiled' \in [Procs -> BOOLEAN]
      /\ \A q \in Procs \ {p} : spoiled'[q] = spoiled[q]
  BY <1>1 DEF ThermInv, ThermTypes
<1>3. Aside(p)
  BY <1>1, <1>2 DEF Aside, ThermInv, ThermTypes, SensorsOK, Untouched, Fixed
<1>4. call'[p] = c
  BY <1>1 DEF ThermInv, ThermTypes
<1>5. SetResGood(p)'
  BY <1>4 DEF SetResGood
<1>6. ProbeGood(p)'
  BY <1>1, <1>4 DEF ProbeGood
<1>7. CallGood(p)'
  BY <1>4, <1>5, <1>6 DEF CallGood
<1>8. felt[p] \in SUBSET Celsius /\ felt' = [felt EXCEPT ![p] = felt[p]]
  BY <1>1 DEF ThermInv, ThermTypes
<1>9. UNCHANGED <<WritePullup, bus, parasitic, speed, amb>>
  BY <1>1
<1>10. hold' = hold \/ (hold = 0 /\ hold' \in Nat)
  BY <1>1
<1>11. call' = [call EXCEPT ![p] = c]
  BY <1>1
<1> QED BY <1>3, <1>7, <1>8, <1>9, <1>10, <1>11, WentOn

\* dsth_probe() is entered.
LEMMA ProbeKeeps ==
  ASSUME ThermSetup, ThermInv, NEW p \in Procs, NEW s \in bus, dsth_probe(p, s)
  PROVE  ThermInv'
<1> DEFINE at == IF WritePullup THEN "pow" ELSE "res"
           c == ProbeCall(s, at)
<1>1. s \in Therms
  BY DEF ThermSetup, ThermInv, ThermTypes
<1>2. at \in CallPlaces /\ at \in {"pow", "res"} /\ (at = "res" => ~WritePullup)
  BY DEF CallPlaces
<1>3. Begin(p, c)
  BY DEF dsth_probe, ProbeCall
<1> HIDE DEF at
<1>4. c \in Call /\ c.s = s /\ c.at = at /\ ~c.paras
  BY <1>1, <1>2, BegunProbe
<1> HIDE DEF c
<1> QED BY <1>1, <1>2, <1>3, <1>4, BeginKeeps

\* dsth_set_res() is entered, or refuses a DS18S20.
LEMMA SetResKeeps ==
  ASSUME ThermSetup, ThermInv, NEW p \in Procs, NEW s \in bus, NEW r \in Resolutions,
         dsth_set_res(p, s, r)
  PROVE  ThermInv'
<1>1. s \in Therms /\ r \in 0..3
  BY DEF ThermSetup, ThermInv, ThermTypes
<1>2. CASE s \notin DS18S20 /\ Begin(p, SetResCall(s, r))
  <2> DEFINE c == SetResCall(s, r)
  <2>1. c \in Call /\ c.at = "get" /\ c.s = s
    BY <1>1, BegunSetRes
  <2> HIDE DEF c
  <2> QED BY <1>1, <1>2, <2>1, BeginKeeps DEF c
<1>3. CASE /\ Return(p, IF r = 3 THEN "SUCCESS" ELSE "DEV_ERR", 0)
           /\ UNCHANGED <<setting, amb, sens, hold, spoiled, faults, changes>>
  <2>1. UNCHANGED <<WritePullup, bus, parasitic, speed, amb, hold>> /\ UNCHANGED <<sens, spoiled>>
    BY <1>3 DEF setting
  <2>2. Aside(p)
    BY <2>1, StillAside DEF ThermInv
  <2> QED BY <1>3, <2>1, <2>2, Returned
<1> QED BY <1>2, <1>3 DEF dsth_set_res, SetResCall

\* the calls as their steps change them
PowCall(c, b) == [c EXCEPT !.paras = b, !.at = "res"]
ResCall(c, r) == [c EXCEPT !.res = r, !.at = "conv"]
PullCall(c) == [c EXCEPT !.at = "pull"]
WaitCall(c, n) == [c EXCEPT !.at = "wait", !.wait = n]
PutCall(c, reg) == [c EXCEPT !.at = "put", !.old = reg]

\* The call once dsth_read_pow_supply() has answered.
LEMMA PowCallIs ==
  ASSUME NEW c \in Call, NEW b \in BOOLEAN
  PROVE  PowCall(c, b) \in Call /\ PowCall(c, b).s = c.s /\ PowCall(c, b).at = "res"
         /\ (PowCall(c, b).paras <=> b)
<1> DEFINE d == [c EXCEPT !.paras = b]
<1>1. d \in Call /\ d.s = c.s
  BY DEF Call
<1>2. d.paras = b
  BY DEF Call
<1>3. PowCall(c, b) = [d EXCEPT !.at = "res"]
  BY DEF Call, PowCall
<1> HIDE DEF d
<1>4. [d EXCEPT !.at = "res"] \in Call
  BY <1>1 DEF Call, CallPlaces
<1>5. [d EXCEPT !.at = "res"].s = d.s /\ [d EXCEPT !.at = "res"].at = "res"
  BY <1>1 DEF Call
<1>6. [d EXCEPT !.at = "res"].paras = d.paras
  BY <1>1 DEF Call
<1> QED BY <1>1, <1>2, <1>3, <1>4, <1>5, <1>6

\* The call once dsth_get_res() has answered.
LEMMA ResCallIs ==
  ASSUME NEW c \in Call, NEW r \in 0..3
  PROVE  ResCall(c, r) \in Call /\ ResCall(c, r).s = c.s /\ ResCall(c, r).at = "conv"
         /\ (ResCall(c, r).paras <=> c.paras) /\ ResCall(c, r).res = r
<1> DEFINE d == [c EXCEPT !.res = r]
<1>1. d \in Call /\ d.s = c.s /\ d.res = r
  BY DEF Call
<1>2. d.paras = c.paras
  BY DEF Call
<1>3. ResCall(c, r) = [d EXCEPT !.at = "conv"]
  BY DEF Call, ResCall
<1> HIDE DEF d
<1>4. [d EXCEPT !.at = "conv"] \in Call
  BY <1>1 DEF Call, CallPlaces
<1>5. [d EXCEPT !.at = "conv"].s = d.s /\ [d EXCEPT !.at = "conv"].at = "conv" /\ [d EXCEPT !.at = "conv"].res = d.res
  BY <1>1 DEF Call
<1>6. [d EXCEPT !.at = "conv"].paras = d.paras
  BY <1>1 DEF Call
<1> QED BY <1>1, <1>2, <1>3, <1>4, <1>5, <1>6

\* The call that has converted under a pull-up.
LEMMA PullCallIs ==
  ASSUME NEW c \in Call
  PROVE  PullCall(c) \in Call /\ PullCall(c).s = c.s /\ PullCall(c).at = "pull"
         /\ (PullCall(c).paras <=> c.paras) /\ PullCall(c).res = c.res
<1>1. PullCall(c) \in Call
  BY DEF Call, CallPlaces, PullCall
<1>2. PullCall(c).s = c.s /\ PullCall(c).at = "pull" /\ PullCall(c).res = c.res
  BY DEF Call, PullCall
<1>3. PullCall(c).paras = c.paras
  BY DEF Call, PullCall
<1> QED BY <1>1, <1>2, <1>3

\* The call that sleeps while the sensor converts.
LEMMA WaitCallIs ==
  ASSUME NEW c \in Call, NEW n \in Nat
  PROVE  WaitCall(c, n) \in Call /\ WaitCall(c, n).s = c.s /\ WaitCall(c, n).at = "wait"
         /\ (WaitCall(c, n).paras <=> c.paras) /\ WaitCall(c, n).res = c.res /\ WaitCall(c, n).wait = n
<1> DEFINE d == [c EXCEPT !.at = "wait"]
<1>1. d \in Call /\ d.s = c.s /\ d.at = "wait" /\ d.res = c.res
  BY DEF Call, CallPlaces
<1>2. d.paras = c.paras
  BY DEF Call
<1>3. WaitCall(c, n) = [d EXCEPT !.wait = n]
  BY DEF Call, WaitCall
<1> HIDE DEF d
<1>4. [d EXCEPT !.wait = n] \in Call
  BY <1>1 DEF Call
<1>5. /\ [d EXCEPT !.wait = n].s = d.s /\ [d EXCEPT !.wait = n].at = d.at
      /\ [d EXCEPT !.wait = n].res = d.res /\ [d EXCEPT !.wait = n].wait = n
  BY <1>1 DEF Call
<1>6. [d EXCEPT !.wait = n].paras = d.paras
  BY <1>1 DEF Call
<1> QED BY <1>1, <1>2, <1>3, <1>4, <1>5, <1>6

\* The call that has read the registers it will write back.
LEMMA PutCallIs ==
  ASSUME NEW c \in Call, NEW reg \in Registers
  PROVE  PutCall(c, reg) \in Call /\ PutCall(c, reg).s = c.s /\ PutCall(c, reg).at = "put"
         /\ PutCall(c, reg).old = reg
<1> DEFINE d == [c EXCEPT !.at = "put"]
<1>1. d \in Call /\ d.s = c.s /\ d.at = "put" /\ reg \in Olds
  BY DEF Call, CallPlaces, Olds
<1>3. PutCall(c, reg) = [d EXCEPT !.old = reg]
  BY DEF Call, PutCall
<1> HIDE DEF d
<1>4. [d EXCEPT !.old = reg] \in Call
  BY <1>1 DEF Call
<1>5. [d EXCEPT !.old = reg].s = d.s /\ [d EXCEPT !.old = reg].at = d.at /\ [d EXCEPT !.old = reg].old = reg
  BY <1>1 DEF Call
<1> QED BY <1>1, <1>3, <1>4, <1>5

\* a call that goes on
LEMMA Moved ==
  ASSUME ThermInv, NEW p \in Procs, NEW c \in Call, Goto(p, c)
  PROVE  /\ call' = [call EXCEPT ![p] = c] /\ call'[p] = c
         /\ felt' = felt /\ felt[p] \in SUBSET Celsius /\ felt' = [felt EXCEPT ![p] = felt[p]]
  BY DEF Goto, ThermInv, ThermTypes

\* Such a step keeps the invariant if it keeps what is known of its own call.
LEMMA GotoKeeps ==
  ASSUME ThermInv, NEW p \in Procs, Aside(p),
         UNCHANGED <<WritePullup, bus, parasitic, speed, amb, hold>>,
         NEW c \in Call, Goto(p, c), CallGood(p)'
  PROVE  ThermInv'
<1>1. UNCHANGED <<WritePullup, bus, parasitic, speed, amb>>
  OBVIOUS
<1>2. hold' = hold \/ (hold = 0 /\ hold' \in Nat)
  OBVIOUS
<1> QED BY <1>1, <1>2, Moved, WentOn

\* what a process knows of its call
LEMMA Own ==
  ASSUME ThermInv, NEW p \in Procs, call[p].at # "idle"
  PROVE  /\ call[p] \in Call /\ call[p].s \in Therms
         /\ SetResGood(p) /\ ProbeGood(p)
         /\ sens[call[p].s] \in Sensor /\ Fixed(call[p].s, sens[call[p].s])
  BY DEF ThermInv, ThermTypes, CallGood, SensorsOK

\* dsth_read_pow_supply(): the answer is right, or the call is spoiled.
LEMMA PowKeeps ==
  ASSUME ThermInv, NEW p \in Procs, dsth_read_pow_supply(p)
  PROVE  ThermInv'
<1> DEFINE is_paras == call[p].s \in parasitic
<1>1. call[p].at = "pow" /\ UNCHANGED <<WritePullup, bus, parasitic, speed, amb, hold>>
  BY DEF dsth_read_pow_supply, setting
<1>2. call[p] \in Call /\ call[p].s \in Therms
  BY <1>1, Own
<1>3. ASSUME NEW b \in BOOLEAN, Goto(p, PowCall(call[p], b)), Aside(p), spoiled'[p] \/ (b <=> is_paras)
      PROVE  ThermInv'
  <2> DEFINE c == PowCall(call[p], b)
  <2>1. c \in Call /\ c.s = call[p].s /\ c.at = "res" /\ (c.paras <=> b)
    BY <1>2, PowCallIs
  <2>2. Goto(p, c)
    BY <1>3
  <2> HIDE DEF c
  <2>3. call'[p] = c
    BY <2>1, <2>2, Moved
  <2>4. SetResGood(p)'
    BY <2>1, <2>3 DEF SetResGood
  <2>5. ProbeGood(p)'
    BY <1>1, <1>3, <2>1, <2>3 DEF ProbeGood
  <2>6. CallGood(p)'
    BY <1>2, <2>1, <2>3, <2>4, <2>5 DEF CallGood
  <2> QED BY <1>1, <1>3, <2>1, <2>2, <2>6, GotoKeeps
<1>4. CASE Query(p) /\ Goto(p, PowCall(call[p], is_paras))
  <2>1. Aside(p)
    BY <1>4, QueryHeard, HeardAside DEF ThermInv, ThermTypes
  <2>2. is_paras \in BOOLEAN
    OBVIOUS
  <2> HIDE DEF is_paras
  <2> QED BY <1>3, <1>4, <2>1, <2>2, Zenon
<1>5. CASE Misread(p) /\ Goto(p, PowCall(call[p], ~is_paras))
  <2>1. Aside(p) /\ spoiled'[p]
    BY <1>5, MisreadAside
  <2> QED BY <1>3, <1>5, <2>1
<1>6. CASE Fails(p, {}, LAMBDA s, x : x)
  BY <1>1, <1>6, QueryFails
<1> QED BY <1>4, <1>5, <1>6 DEF dsth_read_pow_supply, PowCall

\* dsth_get_res(): the resolution read is the one of the sensor.
LEMMA GetResKeeps ==
  ASSUME ThermInv, NEW p \in Procs, dsth_get_res(p)
  PROVE  ThermInv'
<1> DEFINE s == call[p].s
<1>1. call[p].at = "res" /\ UNCHANGED <<WritePullup, bus, parasitic, speed, amb, hold>>
  BY DEF dsth_get_res, setting
<1>2. /\ call[p] \in Call /\ s \in Therms /\ ProbeGood(p)
      /\ sens[s] \in Sensor /\ Fixed(s, sens[s])
  BY <1>1, Own
<1>3. ASSUME NEW r \in 0..3, Goto(p, ResCall(call[p], r)), Aside(p),
             \/ spoiled'[p]
             \/ /\ spoiled'[p] = spoiled[p] /\ r = sens'[s].reg.res
                /\ s \in parasitic /\ s \notin DS18S20 => sens'[s].conv = 0
      PROVE  ThermInv'
  <2> DEFINE c == ResCall(call[p], r)
  <2>1. c \in Call /\ c.s = s /\ c.at = "conv" /\ (c.paras <=> call[p].paras) /\ c.res = r
    BY <1>2, ResCallIs
  <2>2. Goto(p, c)
    BY <1>3
  <2> HIDE DEF c
  <2>3. call'[p] = c
    BY <2>1, <2>2, Moved
  <2>4. SetResGood(p)'
    BY <2>1, <2>3 DEF SetResGood
  <2>5. ProbeGood(p)'
    BY <1>1, <1>2, <1>3, <2>1, <2>3 DEF ProbeGood
  <2>6. CallGood(p)'
    BY <1>2, <2>1, <2>3, <2>4, <2>5 DEF CallGood
  <2> QED BY <1>1, <1>3, <2>1, <2>2, <2>6, GotoKeeps
<1>4. CASE s \in DS18S20 /\ Goto(p, ResCall(call[p], 3)) /\ UNCHANGED <<sens, spoiled>>
  <2>1. Aside(p) /\ sens'[s].reg.res = 3
    BY <1>2, <1>4, StillAside DEF ThermInv, Fixed
  <2> QED BY <1>3, <1>4, <2>1
<1>5. CASE s \notin DS18S20 /\ Query(p) /\ Goto(p, ResCall(call[p], Awake[s].reg.res))
  <2>1. Aside(p) /\ spoiled'[p] = spoiled[p] /\ sens'[s] = Awake[s]
    BY <1>2, <1>5, QueryHeard, HeardAside DEF ThermInv, ThermTypes
  <2>2. /\ Awake[s] \in Sensor
        /\ s \in parasitic => Awake[s].conv = 0
    BY <1>2, AwakeIs DEF ThermInv, ThermTypes
  <2>3. Awake[s].reg.res \in 0..3
    BY <2>2 DEF Sensor, Registers
  <2> QED BY <1>3, <1>5, <2>1, <2>2, <2>3
<1>6. CASE Garbled(p)
  BY <1>1, <1>6, GarbledKeeps
<1>7. CASE Fails(p, {}, LAMBDA t, x : x)
  BY <1>1, <1>7, QueryFails
<1>8. CASE Misread(p) /\ Goto(p, ResCall(call[p], 0))
  BY <1>3, <1>8, MisreadAside
<1> QED BY <1>4, <1>5, <1>6, <1>7, <1>8 DEF dsth_get_res, ResCall, ZeroRegs

\* the sensor of a conversion, when it obeys
LEMMA Converted ==
  ASSUME ThermInv, NEW p \in Procs, call[p].at = "conv", ~spoiled[p],
         call[p].s \in parasitic => WritePullup,
         NEW y, y = Convert(call[p].s, Awake[call[p].s])
  PROVE  /\ call[p].paras <=> call[p].s \in parasitic
         /\ y.reg.res = call[p].res
         /\ y.conv \in Nat \ {0} /\ y.conv <= dsth_get_conv_time(call[p].res)
<1> DEFINE s == call[p].s
           x == Awake[s]
<1>1. /\ s \in Therms /\ ProbeGood(p) /\ call[p] \in Call
      /\ sens[s] \in Sensor /\ Fixed(s, sens[s])
  BY Own
<1>2. /\ x \in Sensor /\ Fixed(s, x)
      /\ s \notin parasitic \/ sens[s].conv = 0 => x = sens[s]
  BY <1>1, AwakeIs DEF ThermInv, ThermTypes
<1>3. /\ call[p].paras <=> s \in parasitic
      /\ sens[s].reg.res = call[p].res
      /\ s \in parasitic /\ s \notin DS18S20 => sens[s].conv = 0
  BY <1>1 DEF ProbeGood
<1>4. x.reg.res = call[p].res
  BY <1>1, <1>2, <1>3 DEF Fixed
<1> HIDE DEF x
<1>5. y.reg = x.reg /\ y.conv = speed[s][x.reg.res]
  BY <1>2 DEF x, Convert, Sensor
<1>6. call[p].res \in 0..3 /\ InTime(speed)
  BY <1>1 DEF Call, ThermInv, ThermTypes
<1>7. y.conv = speed[s][call[p].res]
  BY <1>4, <1>5
<1>8. y.conv \in Nat \ {0} /\ y.conv <= Slowest(call[p].res)
  BY <1>1, <1>6, <1>7 DEF InTime
<1>9. Slowest(call[p].res) <= dsth_get_conv_time(call[p].res) /\ dsth_get_conv_time(call[p].res) \in Nat
  BY <1>6, ConvTime
<1>10. Slowest(call[p].res) \in Nat
  BY <1>6, SlowestIs
<1>11. y.conv <= dsth_get_conv_time(call[p].res)
  BY <1>8, <1>9, <1>10
<1> QED BY <1>3, <1>4, <1>5, <1>8, <1>11

\* dsth_probe() starts the conversion: from now on its end is known.
LEMMA ConvKeeps ==
  ASSUME ThermInv, NEW p \in Procs, dsth_convert_t(p)
  PROVE  ThermInv'
<1> DEFINE s == call[p].s
           time == dsth_get_conv_time(call[p].res)
<1>1. call[p].at = "conv" /\ UNCHANGED <<WritePullup, bus, parasitic, speed, amb>>
  BY DEF dsth_convert_t, setting
<1>2. call[p] \in Call /\ s \in Therms
  BY <1>1, Own
<1>3. call[p].res \in 0..3 /\ time \in Nat
  BY <1>2, ConvTime DEF Call
<1>4. CASE /\ ConvertMessage(p, {s})
           /\ felt' = [felt EXCEPT ![p] = {amb}]
           /\ IF call[p].paras
              THEN hold' = time /\ call' = [call EXCEPT ![p].at = "pull"]
              ELSE call' = [call EXCEPT ![p].at = "wait", ![p].wait = time] /\ UNCHANGED hold
  <2>1. Heard(p, {s}) /\ sens'[s] = Convert(s, Awake[s])
    BY <1>2, <1>4, ConvertHeard DEF ThermInv, ThermTypes
  <2>2. Aside(p) /\ spoiled'[p] = spoiled[p] /\ hold = 0
    BY <2>1, HeardAside DEF ThermInv, Heard
  <2>3. felt'[p] = {amb} /\ {amb} \in SUBSET Celsius
    BY <1>4 DEF ThermInv, ThermTypes
  <2>4. ASSUME NEW c \in Call, call' = [call EXCEPT ![p] = c],
               c.s = s, c.paras <=> call[p].paras, c.res = call[p].res,
               \/ c.at = "pull" /\ c.paras /\ hold' = time
               \/ c.at = "wait" /\ ~c.paras /\ c.wait = time /\ hold' = hold
        PROVE  ThermInv'
    <3>1. call'[p] = c
      BY <2>4 DEF ThermInv, ThermTypes
    <3>2. SetResGood(p)'
      BY <2>4, <3>1 DEF SetResGood
    <3>3. ASSUME ~spoiled'[p], s \in parasitic => WritePullup
          PROVE  /\ c.paras <=> s \in parasitic
                 /\ sens'[s].reg.res = c.res
                 /\ sens'[s].conv \in Nat \ {0} /\ sens'[s].conv <= time
      BY <1>1, <2>1, <2>2, <2>4, <3>3, Converted
    <3>4. ProbeGood(p)'
      BY <1>1, <1>3, <2>3, <2>4, <3>1, <3>3 DEF ProbeGood
    <3>5. CallGood(p)'
      BY <1>2, <2>4, <3>1, <3>2, <3>4 DEF CallGood
    <3>6. UNCHANGED <<WritePullup, bus, parasitic, speed, amb>>
      BY <1>1
    <3>7. hold' = hold \/ (hold = 0 /\ hold' \in Nat)
      BY <1>3, <2>2, <2>4
    <3> QED BY <1>4, <2>2, <2>3, <2>4, <3>5, <3>6, <3>7, WentOn
  <2>5. CASE call[p].paras
    <3>1. call' = [call EXCEPT ![p] = PullCall(call[p])] /\ hold' = time
      BY <1>4, <2>5 DEF PullCall
    <3>2. /\ PullCall(call[p]) \in Call /\ PullCall(call[p]).s = s /\ PullCall(call[p]).at = "pull"
          /\ (PullCall(call[p]).paras <=> call[p].paras) /\ PullCall(call[p]).res = call[p].res
      BY <1>2, PullCallIs
    <3> QED BY <2>4, <2>5, <3>1, <3>2
  <2>6. CASE ~call[p].paras
    <3>1. call' = [call EXCEPT ![p] = WaitCall(call[p], time)] /\ hold' = hold
      BY <1>4, <2>6 DEF WaitCall, ThermInv, ThermTypes
    <3>2. /\ WaitCall(call[p], time) \in Call /\ WaitCall(call[p], time).s = s /\ WaitCall(call[p], time).at = "wait"
          /\ (WaitCall(call[p], time).paras <=> call[p].paras) /\ WaitCall(call[p], time).res = call[p].res
          /\ WaitCall(call[p], time).wait = time
      BY <1>2, <1>3, WaitCallIs
    <3> QED BY <2>4, <2>6, <3>1, <3>2
  <2> QED BY <2>5, <2>6
<1>5. CASE Fails(p, {s}, Convert) /\ UNCHANGED hold
  <2>1. ConvertMessage(p, {s}) \/ UNCHANGED <<sens, spoiled>>
    BY <1>5 DEF Fails, ConvertMessage
  <2>2. Aside(p)
    <3>1. CASE ConvertMessage(p, {s})
      BY <3>1, ConvertHeard, HeardAside DEF ThermInv, ThermTypes
    <3>2. CASE UNCHANGED <<sens, spoiled>>
      BY <3>2, StillAside DEF ThermInv
    <3> QED BY <2>1, <3>1, <3>2
  <2>3. Return(p, "ERR", 0)
    BY <1>5 DEF Fails
  <2>4. UNCHANGED <<WritePullup, bus, parasitic, speed, amb, hold>>
    BY <1>1, <1>5
  <2> QED BY <2>2, <2>3, <2>4, Returned
<1> QED BY <1>4, <1>5 DEF dsth_convert_t, ConvertMessage

\* A call whose sleep was cut short knows its sensor only.
LEMMA SignalKeeps ==
  ASSUME ThermInv, NEW p \in Procs, Signal(p)
  PROVE  ThermInv'
<1> DEFINE c == [call[p] EXCEPT !.at = "cut", !.wait = 0]
           d == [call[p] EXCEPT !.at = "cut"]
<1>1. /\ call[p].at = "wait" /\ UNCHANGED <<WritePullup, bus, parasitic, speed, amb, hold>>
      /\ UNCHANGED <<sens, spoiled>> /\ Goto(p, c)
  BY DEF Signal, setting
<1>2. call[p] \in Call /\ call[p].s \in Therms
  BY <1>1, Own
<1>3. d \in Call /\ d.s = call[p].s /\ d.at = "cut"
  BY <1>2 DEF Call, CallPlaces
<1>4. c = [d EXCEPT !.wait = 0]
  BY <1>2 DEF Call
<1> HIDE DEF d
<1>5. c \in Call /\ c.s = call[p].s /\ c.at = "cut"
  BY <1>3, <1>4 DEF Call
<1> HIDE DEF c
<1>6. call'[p] = c
  BY <1>1, <1>5, Moved
<1>7. CallGood(p)'
  BY <1>2, <1>5, <1>6 DEF CallGood, SetResGood, ProbeGood
<1>8. Aside(p)
  BY <1>1, StillAside DEF ThermInv
<1> QED BY <1>1, <1>5, <1>7, <1>8, GotoKeeps

\* dsth_probe() reads the temperature and returns.
LEMMA ReadKeeps ==
  ASSUME ThermInv, NEW p \in Procs, ReadTemp(p)
  PROVE  ThermInv'
<1>1. UNCHANGED <<WritePullup, bus, parasitic, speed, amb, hold>>
  BY DEF ReadTemp, setting
<1>2. ASSUME Query(p), NEW temp, Return(p, "SUCCESS", temp)
      PROVE  ThermInv'
  <2>1. Aside(p)
    BY <1>2, QueryHeard, HeardAside DEF ThermInv, ThermTypes
  <2> QED BY <1>1, <1>2, <2>1, Returned
<1>3. CASE Garbled(p)
  BY <1>1, <1>3, GarbledKeeps
<1>4. CASE Fails(p, {}, LAMBDA t, x : x)
  BY <1>1, <1>4, QueryFails
<1>5. ASSUME Misread(p), NEW temp, Return(p, "SUCCESS", temp)
      PROVE  ThermInv'
  BY <1>1, <1>5, MisreadAside, Returned
<1> QED BY <1>2, <1>3, <1>4, <1>5 DEF ReadTemp

\* dsth_set_res() reads the registers.
LEMMA SetResReadKeeps ==
  ASSUME ThermInv, NEW p \in Procs, SetResRead(p)
  PROVE  ThermInv'
<1> DEFINE s == call[p].s
           reg == Awake[s].reg
<1>1. call[p].at = "get" /\ UNCHANGED <<WritePullup, bus, parasitic, speed, amb, hold>>
  BY DEF SetResRead, setting
<1>2. call[p] \in Call /\ s \in Therms /\ SetResGood(p)
  BY <1>1, Own
<1>3. CASE Query(p) /\ Goto(p, PutCall(call[p], reg))
  <2>1. Aside(p) /\ sens'[s] = Awake[s]
    BY <1>2, <1>3, QueryHeard, HeardAside DEF ThermInv, ThermTypes
  <2>2. Awake[s] \in Sensor /\ (s \in parasitic => Awake[s].conv = 0)
    BY <1>2, AwakeIs DEF ThermInv, ThermTypes
  <2>3. reg \in Registers
    BY <2>2 DEF Sensor
  <2> DEFINE c == PutCall(call[p], reg)
  <2>4. c \in Call /\ c.s = s /\ c.at = "put" /\ c.old = reg
    BY <1>2, <2>3, PutCallIs
  <2>5. Goto(p, c)
    BY <1>3
  <2> HIDE DEF c
  <2>6. call'[p] = c
    BY <2>4, <2>5, Moved
  <2>7. SetResGood(p)'
    BY <1>1, <1>2, <2>1, <2>2, <2>3, <2>4, <2>6 DEF SetResGood
  <2>8. ProbeGood(p)'
    BY <2>4, <2>6 DEF ProbeGood
  <2>9. CallGood(p)'
    BY <1>2, <2>4, <2>6, <2>7, <2>8 DEF CallGood
  <2> QED BY <1>1, <2>1, <2>4, <2>5, <2>9, GotoKeeps
<1>4. CASE Garbled(p)
  BY <1>1, <1>4, GarbledKeeps
<1>5. CASE Fails(p, {}, LAMBDA t, x : x)
  BY <1>1, <1>5, QueryFails
<1>6. CASE Misread(p) /\ Goto(p, PutCall(call[p], ZeroRegs))
  <2>1. Aside(p) /\ spoiled'[p]
    BY <1>6, MisreadAside
  <2>2. ZeroRegs \in Registers
    BY SetupIs DEF ZeroRegs, Registers, ThermSetup
  <2> DEFINE c == PutCall(call[p], ZeroRegs)
  <2>3. c \in Call /\ c.s = s /\ c.at = "put" /\ c.old = ZeroRegs
    BY <1>2, <2>2, PutCallIs
  <2>4. Goto(p, c)
    BY <1>6
  <2> HIDE DEF c
  <2>5. call'[p] = c
    BY <2>3, <2>4, Moved
  <2>6. SetResGood(p)'
    BY <1>1, <1>2, <2>1, <2>2, <2>3, <2>5 DEF SetResGood
  <2>7. ProbeGood(p)'
    BY <2>3, <2>5 DEF ProbeGood
  <2>8. CallGood(p)'
    BY <1>2, <2>3, <2>5, <2>6, <2>7 DEF CallGood
  <2> QED BY <1>1, <2>1, <2>3, <2>4, <2>8, GotoKeeps
<1> QED BY <1>3, <1>4, <1>5, <1>6 DEF SetResRead, PutCall

\* dsth_set_res() writes them back and returns.
LEMMA SetResWriteKeeps ==
  ASSUME ThermInv, NEW p \in Procs, SetResWrite(p)
  PROVE  ThermInv'
<1> DEFINE s == call[p].s
           reg == [call[p].old EXCEPT !.res = call[p].res]
<1>1. call[p].at = "put" /\ UNCHANGED <<WritePullup, bus, parasitic, speed, amb, hold>>
  BY DEF SetResWrite, setting
<1>2. call[p] \in Call /\ s \in Therms /\ SetResGood(p)
  BY <1>1, Own
<1>3. reg \in Registers
  BY <1>1, <1>2 DEF SetResGood, Call, Registers
<1>4. WriteMessage(p, {s}, reg) \/ UNCHANGED <<sens, spoiled>>
  BY DEF SetResWrite, Fails, Message, WriteMessage
<1>5. PICK rc, temp : Return(p, rc, temp)
  BY DEF SetResWrite, Fails
<1> HIDE DEF reg
<1>6. Aside(p)
  <2>1. CASE WriteMessage(p, {s}, reg)
    BY <1>3, <2>1, WriteHeard, HeardAside DEF ThermInv, ThermTypes
  <2>2. CASE UNCHANGED <<sens, spoiled>>
    BY <2>2, StillAside DEF ThermInv
  <2> QED BY <1>4, <2>1, <2>2
<1> QED BY <1>1, <1>5, <1>6, Returned

\* What Commands may write are registers.
LEMMA SettingsAre ==
  ASSUME ThermSetup, NEW r \in Settings
  PROVE  r \in Registers
<1> DEFINE a == r.alarm
           n == r.res
<1>1. r = [alarm |-> a, res |-> n] /\ a \in Alarms /\ n \in Resolutions
  BY DEF Settings
<1>2. n \in 0..3
  BY <1>1 DEF ThermSetup
<1> HIDE DEF a, n
<1> QED BY <1>1, <1>2 DEF Registers

\* The single messages of the other processes.
LEMMA CommandsKeep ==
  ASSUME ThermSetup, ThermInv, NEW p \in Others, NEW S, Commands(p, S)
  PROVE  ThermInv'
<1>1. UNCHANGED <<WritePullup, bus, parasitic, speed, amb>> /\ UNCHANGED <<call, felt>>
  BY DEF Commands, setting, Query, Message
<1>2. p \notin Procs
  BY DEF ThermSetup
<1>3. \/ \E time \in {0} \cup (IF WritePullup THEN Pullups ELSE {}) : ConvertMessage(p, S) /\ hold' = time
      \/ Query(p) /\ hold' = hold
      \/ (\E reg \in Settings : WriteMessage(p, S, reg)) /\ hold' = hold
      \/ CopyMessage(p, S) /\ hold' = hold
      \/ RecallMessage(p, S) /\ hold' = hold
  BY DEF Commands, Query, Message, ConvertMessage, WriteMessage, CopyMessage, RecallMessage
<1>4. Aside(p) /\ (hold' = hold \/ (hold = 0 /\ hold' \in Nat))
  <2>1. CASE \E time \in {0} \cup (IF WritePullup THEN Pullups ELSE {}) : ConvertMessage(p, S) /\ hold' = time
    <3>1. ConvertMessage(p, S) /\ hold' \in Nat
      BY <2>1 DEF ThermSetup
    <3>2. Heard(p, S)
      BY <3>1, ConvertHeard DEF ThermInv, ThermTypes
    <3>3. Aside(p)
      BY <3>2, HeardAside DEF ThermInv
    <3>4. hold = 0
      BY <3>2 DEF Heard
    <3> QED BY <3>1, <3>3, <3>4
  <2>2. CASE Query(p) /\ hold' = hold
    BY <2>2, QueryHeard, HeardAside DEF ThermInv, ThermTypes
  <2>3. CASE (\E reg \in Settings : WriteMessage(p, S, reg)) /\ hold' = hold
    <3>1. Settings \subseteq Registers
      BY SettingsAre
    <3>2. Heard(p, S)
      BY <2>3, <3>1, WriteHeard DEF ThermInv, ThermTypes
    <3> QED BY <2>3, <3>2, HeardAside DEF ThermInv
  <2>4. CASE CopyMessage(p, S) /\ hold' = hold
    BY <2>4, CopyHeard, HeardAside DEF ThermInv, ThermTypes
  <2>5. CASE RecallMessage(p, S) /\ hold' = hold
    BY <2>5, RecallHeard, HeardAside DEF ThermInv, ThermTypes
  <2> QED BY <1>3, <2>1, <2>2, <2>3, <2>4, <2>5
<1>5. call' \in [Procs -> Call] /\ felt' \in [Procs -> SUBSET Celsius]
  BY <1>1 DEF ThermInv, ThermTypes
<1>6. \A q \in Procs \ {p} : call'[q] = call[q] /\ felt'[q] = felt[q]
  BY <1>1
<1> QED BY <1>1, <1>2, <1>4, <1>5, <1>6, OfOne

\* what a unit of time does to a call and to a sensor
TickCall(c) == [c EXCEPT !.wait = Minus(@)]
TickSensor(x) == IF x.conv = 1 THEN [x EXCEPT !.conv = 0, !.temp = amb, !.tres = x.reg.res]
                 ELSE [x EXCEPT !.conv = Minus(@)]

\* Time brings a call nearer to the end of its sleep.
LEMMA TickCallIs ==
  ASSUME NEW c \in Call
  PROVE  /\ TickCall(c) \in Call /\ TickCall(c).s = c.s /\ TickCall(c).at = c.at
         /\ (TickCall(c).paras <=> c.paras) /\ TickCall(c).res = c.res /\ TickCall(c).old = c.old
         /\ TickCall(c).wait = Minus(c.wait)
<1>1. Minus(c.wait) \in Nat
  BY DEF Call, Minus
<1>2. TickCall(c) \in Call
  BY <1>1 DEF Call, TickCall
<1>3. /\ TickCall(c).s = c.s /\ TickCall(c).at = c.at /\ TickCall(c).res = c.res
      /\ TickCall(c).old = c.old /\ TickCall(c).wait = Minus(c.wait)
  BY DEF Call, TickCall
<1>4. TickCall(c).paras = c.paras
  BY DEF Call, TickCall
<1> QED BY <1>2, <1>3, <1>4

\* Time brings a sensor nearer to the end of its conversion, which takes the temperature.
LEMMA TickSensorIs ==
  ASSUME NEW x \in Sensor, amb \in Celsius
  PROVE  LET y == TickSensor(x)
         IN  /\ y \in Sensor /\ y.reg = x.reg /\ y.eeprom = x.eeprom /\ y.conv = Minus(x.conv)
             /\ IF x.conv = 1 THEN y.temp = amb /\ y.tres = x.reg.res
                ELSE y.temp = x.temp /\ y.tres = x.tres
<1>1. x.conv \in Nat /\ x.reg.res \in 0..3
  BY DEF Sensor, Registers
<1>2. CASE x.conv = 1
  <2> DEFINE x1 == [x EXCEPT !.conv = 0]
             x2 == [x1 EXCEPT !.temp = amb]
             x3 == [x2 EXCEPT !.tres = x.reg.res]
  <2>1. x1 \in Sensor /\ x1.conv = 0 /\ x1.reg = x.reg /\ x1.eeprom = x.eeprom
    BY DEF Sensor
  <2>2. TickSensor(x) = x3
    BY <1>2 DEF TickSensor, Sensor
  <2> HIDE DEF x1
  <2>3. x2 \in Sensor /\ x2.conv = 0 /\ x2.reg = x.reg /\ x2.eeprom = x.eeprom /\ x2.temp = amb
    BY <2>1 DEF Sensor
  <2> HIDE DEF x2
  <2>4. x3 \in Sensor
    BY <1>1, <2>3 DEF Sensor
  <2>5. x3.conv = 0 /\ x3.reg = x.reg /\ x3.eeprom = x.eeprom /\ x3.temp = amb /\ x3.tres = x.reg.res
    BY <2>3 DEF Sensor
  <2>6. Minus(x.conv) = 0
    BY <1>2 DEF Minus
  <2> QED BY <1>2, <2>2, <2>4, <2>5, <2>6
<1>3. CASE x.conv # 1
  <2>1. Minus(x.conv) \in Nat
    BY <1>1 DEF Minus
  <2>2. TickSensor(x) = [x EXCEPT !.conv = Minus(x.conv)]
    BY <1>3 DEF TickSensor, Sensor
  <2> QED BY <1>3, <2>1, <2>2 DEF Sensor
<1> QED BY <1>2, <1>3

\* Time passes for sensors, sleepers and the pull-up alike.
LEMMA TickKeeps ==
  ASSUME ThermInv, Tick
  PROVE  ThermInv'
<1>1. /\ UNCHANGED <<WritePullup, bus, parasitic, speed, amb>> /\ UNCHANGED <<felt, spoiled>>
      /\ hold' = Minus(hold)
      /\ call' = [p \in Procs |-> TickCall(call[p])]
      /\ sens' = [s \in Therms |-> TickSensor(sens[s])]
  BY DEF Tick, setting, TickCall, TickSensor
<1>2. hold \in Nat /\ hold' \in Nat
  BY <1>1 DEF ThermInv, ThermTypes, Minus
<1>3. SensorsOK'
  <2>1. \A s \in Therms : sens[s] \in Sensor /\ Fixed(s, sens[s])
    BY DEF ThermInv, ThermTypes, SensorsOK
  <2>2. \A s \in Therms : sens'[s] \in Sensor /\ Fixed(s, sens'[s])
    BY <1>1, <2>1, TickSensorIs DEF ThermInv, ThermTypes, Fixed
  <2> QED BY <1>1, <2>1, <2>2, TickSensorIs DEF SensorsOK, ThermInv, ThermTypes
<1>4. ThermTypes'
  BY <1>1, <1>2, <1>3, TickCallIs DEF ThermInv, ThermTypes
<1>5. ASSUME NEW p \in Procs
      PROVE  CallGood(p)'
  <2> DEFINE c == call[p]
             s == c.s
             d == call'[p]
             x == sens[s]
             y == sens'[s]
  <2>1. /\ d.s = s /\ d.at = c.at /\ (d.paras <=> c.paras) /\ d.res = c.res /\ d.old = c.old
        /\ d.wait = Minus(c.wait) /\ c.wait \in Nat
    BY <1>1, TickCallIs DEF ThermInv, ThermTypes, Call
  <2> SUFFICES ASSUME c.at # "idle"
               PROVE  SetResGood(p)' /\ ProbeGood(p)' /\ s \in Therms
    BY <2>1 DEF CallGood
  <2>2. s \in Therms /\ SetResGood(p) /\ ProbeGood(p) /\ x \in Sensor
    BY Own
  <2>3. /\ y.reg = x.reg /\ y.eeprom = x.eeprom /\ y.conv = Minus(x.conv)
        /\ IF x.conv = 1 THEN y.temp = amb /\ y.tres = x.reg.res
           ELSE y.temp = x.temp /\ y.tres = x.tres
    BY <1>1, <2>2, TickSensorIs DEF ThermInv, ThermTypes
  <2>4. x.conv \in Nat
    BY <2>2 DEF Sensor
  <2>5. SetResGood(p)'
    BY <1>1, <2>1, <2>2, <2>3, <2>4 DEF SetResGood, Minus
  <2>6. ASSUME ~spoiled[p], s \in parasitic => WritePullup
        PROVE  ProbeGood(p)'
    <3>1. /\ c.at \in {"res", "conv", "wait", "pull"} => (c.paras <=> s \in parasitic)
          /\ c.at \in {"conv", "wait", "pull"} => x.reg.res = c.res
          /\ c.at = "conv" /\ s \in parasitic /\ s \notin DS18S20 => x.conv = 0
          /\ c.at \in {"wait", "pull"} => amb \in felt[p] /\ (x.conv = 0 => x.temp \in felt[p] /\ x.tres = c.res)
          /\ c.at = "wait" => ~c.paras /\ x.conv <= c.wait
          /\ c.at = "pull" => c.paras /\ x.conv <= hold
      BY <2>2, <2>6 DEF ProbeGood
    <3>2. c.at = "conv" /\ s \in parasitic /\ s \notin DS18S20 => y.conv = 0
      BY <2>3, <3>1 DEF Minus
    <3>3. c.at \in {"wait", "pull"} => (y.conv = 0 => y.temp \in felt[p] /\ y.tres = c.res)
      BY <2>3, <2>4, <3>1 DEF Minus
    <3>4. c.at = "wait" => y.conv <= d.wait
      BY <2>1, <2>3, <2>4, <3>1 DEF Minus
    <3>5. c.at = "pull" => y.conv <= hold'
      BY <1>1, <1>2, <2>3, <2>4, <3>1 DEF Minus
    <3> HIDE DEF x, y, c, d, s
    <3>6. /\ d.at \in {"res", "conv", "wait", "pull"} => (d.paras <=> d.s \in parasitic')
          /\ d.at \in {"conv", "wait", "pull"} => y.reg.res = d.res
          /\ d.at = "conv" /\ d.s \in parasitic' /\ d.s \notin DS18S20 => y.conv = 0
          /\ d.at \in {"wait", "pull"} => amb' \in felt'[p] /\ (y.conv = 0 => y.temp \in felt'[p] /\ y.tres = d.res)
          /\ d.at = "wait" => ~d.paras /\ y.conv <= d.wait
          /\ d.at = "pull" => d.paras /\ y.conv <= hold'
      BY <1>1, <2>1, <2>3, <3>1, <3>2, <3>3, <3>4, <3>5
    <3> QED BY <2>1, <3>6 DEF ProbeGood, x, y, c, d, s
  <2>7. ProbeGood(p)'
    BY <1>1, <2>1, <2>6 DEF ProbeGood
  <2> QED BY <2>2, <2>5, <2>7
<1> QED BY <1>4, <1>5 DEF ThermInv

\* The temperature changes; the calls in progress have felt it.
LEMMA WarmKeeps ==
  ASSUME ThermSetup, ThermInv, Warm
  PROVE  ThermInv'
<1>1. /\ UNCHANGED <<WritePullup, bus, parasitic, speed, sens, hold, call, spoiled>>
      /\ amb' \in Celsius
      /\ felt' = [p \in Procs |-> IF felt[p] = {} THEN {} ELSE felt[p] \cup {amb'}]
  <2>1. amb' \in Temps
    BY DEF Warm
  <2>2. amb' \in Celsius
    BY <2>1 DEF ThermSetup
  <2> QED BY <2>2 DEF Warm, setting
<1>2. ThermTypes'
  BY <1>1 DEF ThermInv, ThermTypes, SensorsOK, Fixed
<1>3. ASSUME NEW p \in Procs
      PROVE  CallGood(p)'
  <2>1. SetResGood(p) => SetResGood(p)'
    BY <1>1 DEF SetResGood
  <2>2. felt'[p] = IF felt[p] = {} THEN {} ELSE felt[p] \cup {amb'}
    BY <1>1
  <2>3. ProbeGood(p) => ProbeGood(p)'
    BY <1>1, <2>2 DEF ProbeGood
  <2> QED BY <1>1, <2>1, <2>3 DEF CallGood, ThermInv
<1> QED BY <1>2, <1>3 DEF ThermInv

\* The invariant holds at first.
LEMMA InitIs ==
  ASSUME ThermSetup, ThermInit
  PROVE  ThermInv
<1>1. /\ bus \in Buses /\ speed \in Speeds /\ amb \in Temps /\ hold = 0
      /\ call = [p \in Procs |-> Idle]
      /\ felt = [p \in Procs |-> {}] /\ spoiled = [p \in Procs |-> FALSE]
  BY DEF ThermInit
<1>2. SensorsOK
  <2>1. PICK r \in Settings :
          sens = [s \in Therms |-> [temp |-> 1360, tres |-> 3, conv |-> 0,
                                    reg |-> Regs(s, r), eeprom |-> Regs(s, r)]]
    BY DEF ThermInit
  <2>2. r \in Registers
    BY SettingsAre
  <2>3. ASSUME NEW s \in Therms
        PROVE  sens[s] \in Sensor /\ Fixed(s, sens[s])
    <3>1. Regs(s, r) \in Registers /\ (s \in DS18S20 => Regs(s, r).res = 3)
      BY <2>2 DEF Regs, Registers
    <3> QED BY <2>1, <3>1 DEF Sensor, Fixed, Celsius
  <2>4. sens \in [Therms -> Sensor]
    BY <2>1, <2>3
  <2> QED BY <2>3, <2>4 DEF SensorsOK
<1>3. ThermTypes
  BY <1>1, <1>2, IdleIs DEF ThermTypes, ThermSetup, Celsius
<1>4. \A p \in Procs : CallGood(p)
  BY <1>1, IdleIs DEF CallGood
<1> QED BY <1>3, <1>4 DEF ThermInv

\* Every step keeps it.
LEMMA NextKeeps ==
  ASSUME ThermSetup, ThermInv, [ThermNext]_thermVars
  PROVE  ThermInv'
<1>1. ASSUME NEW p \in Procs, NEW s \in bus, dsth_probe(p, s)
      PROVE  ThermInv'
  BY <1>1, ProbeKeeps
<1>2. ASSUME NEW p \in Procs, NEW s \in bus, NEW r \in Resolutions, dsth_set_res(p, s, r)
      PROVE  ThermInv'
  BY <1>2, SetResKeeps
<1>3. ASSUME NEW p \in Procs, dsth_read_pow_supply(p)
      PROVE  ThermInv'
  BY <1>3, PowKeeps
<1>4. ASSUME NEW p \in Procs, dsth_get_res(p)
      PROVE  ThermInv'
  BY <1>4, GetResKeeps
<1>5. ASSUME NEW p \in Procs, dsth_convert_t(p)
      PROVE  ThermInv'
  BY <1>5, ConvKeeps
<1>6. ASSUME NEW p \in Procs, ReadTemp(p)
      PROVE  ThermInv'
  BY <1>6, ReadKeeps
<1>14. ASSUME NEW p \in Procs, Signal(p)
      PROVE  ThermInv'
  BY <1>14, SignalKeeps
<1>7. ASSUME NEW p \in Procs, SetResRead(p)
      PROVE  ThermInv'
  BY <1>7, SetResReadKeeps
<1>8. ASSUME NEW p \in Procs, SetResWrite(p)
      PROVE  ThermInv'
  BY <1>8, SetResWriteKeeps
<1>9. ASSUME NEW p \in Others, NEW S, Commands(p, S)
      PROVE  ThermInv'
  BY <1>9, CommandsKeep
<1>10. CASE Tick
  BY <1>10, TickKeeps
<1>11. CASE Warm
  BY <1>11, WarmKeeps
<1>12. CASE UNCHANGED thermVars
  BY <1>12 DEF thermVars, ThermInv, ThermTypes, SensorsOK, Fixed, CallGood, SetResGood, ProbeGood
<1>13. CASE ThermNext
  <2>1. ASSUME NEW p \in Procs,
               \/ \E s \in bus : \/ dsth_probe(p, s)
                                 \/ \E r \in Resolutions : dsth_set_res(p, s, r)
               \/ dsth_read_pow_supply(p) \/ dsth_get_res(p)
               \/ dsth_convert_t(p) \/ Signal(p) \/ ReadTemp(p)
               \/ SetResRead(p) \/ SetResWrite(p)
        PROVE  ThermInv'
    BY <1>1, <1>2, <1>3, <1>4, <1>5, <1>6, <1>7, <1>8, <1>14, <2>1
  <2>2. ASSUME NEW p \in Others, NEW S, Commands(p, S)
        PROVE  ThermInv'
    BY <1>9, <2>2
  <2> QED BY <1>10, <1>11, <1>13, <2>1, <2>2 DEF ThermNext
<1> QED BY <1>12, <1>13

\* The high byte of a temperature that a sensor can have,
LEMMA ByteHigh ==
  ASSUME NEW t \in Int, -1000 <= t, t <= 2100, NEW q \in Int, NEW l \in Int, 0 <= l, l <= 255, t = 256 * q + l
  PROVE  -4 <= q /\ q <= 8
  OBVIOUS

\* as it is sent.
LEMMA ByteMod ==
  ASSUME NEW q \in Int, -4 <= q, q <= 8
  PROVE  q % 256 = IF q < 0 THEN q + 256 ELSE q
  OBVIOUS
Signed(h) == IF h < 128 THEN h ELSE h - 256
High(t) == (t \div 256) % 256
Low(t) == t % 256

\* Two bytes, the high one signed, are the number they were made of (temp_hsb, temp_lsb).
LEMMA SignedBytes ==
  ASSUME NEW t \in Int, -1000 <= t, t <= 2100
  PROVE  Signed(High(t)) * 256 + Low(t) = t
<1> DEFINE q == t \div 256
           l == t % 256
<1>1. q \in Int /\ l \in Int /\ 0 <= l /\ l <= 255
  OBVIOUS
<1>2. t = 256 * q + l
  OBVIOUS
<1>3. High(t) = q % 256 /\ Low(t) = l
  BY DEF High, Low
<1> HIDE DEF q, l
<1>4. -4 <= q /\ q <= 8
  BY <1>1, <1>2, ByteHigh
<1>5. High(t) = IF q < 0 THEN q + 256 ELSE q
  BY <1>1, <1>3, <1>4, ByteMod
<1>6. Signed(High(t)) = q
  BY <1>1, <1>4, <1>5 DEF Signed
<1> QED BY <1>1, <1>2, <1>3, <1>6

\* Division of C is less than one off.
LEMMA CDivIs ==
  ASSUME NEW n \in Int
  PROVE  /\ CDiv(n, 16) \in Int
         /\ n - 16 < 16 * CDiv(n, 16) /\ 16 * CDiv(n, 16) < n + 16
  BY DEF CDiv

\* Bits that have no meaning, by resolution.
LEMMA StepIs ==
  ASSUME NEW r \in 0..3
  PROVE  2^(3 - r) \in {1, 2, 4, 8} /\ (r = 3 => 2^(3 - r) = 1)
<1>1. 2^0 = 1 /\ 2^1 = 2 /\ 2^2 = 4 /\ 2^3 = 8
  OBVIOUS
<1>2. r = 0 \/ r = 1 \/ r = 2 \/ r = 3
  OBVIOUS
<1>3. 3 - r \in {0, 1, 2, 3}
  OBVIOUS
<1> DEFINE n == 3 - r
<1>4. 2^n \in {1, 2, 4, 8}
  <2> HIDE DEF n
  <2>1. CASE n = 0
    BY <1>1, <2>1
  <2>2. CASE n = 1
    BY <1>1, <2>2
  <2>3. CASE n = 2
    BY <1>1, <2>3
  <2>4. CASE n = 3
    BY <1>1, <2>4
  <2> QED BY <1>3, <2>1, <2>2, <2>3, <2>4 DEF n
<1>5. ASSUME r = 3 PROVE 2^n = 1
  <2>1. n = 0
    BY <1>5
  <2> HIDE DEF n
  <2> QED BY <1>1, <2>1
<1> QED BY <1>4, <1>5

\* To cut them is to be less than a step off.
LEMMA CutBits ==
  ASSUME NEW a \in Int, NEW step \in {1, 2, 4, 8}, NEW low \in {0, step - 1}
  PROVE  LET t == (a \div step) * step + low
             m == (t \div step) * step
         IN  t \in Int /\ m \in Int /\ a - step + 1 <= m /\ m <= a /\ a - step + 1 <= t /\ t <= a + step - 1
<1>1. CASE step = 1
  BY <1>1
<1>2. CASE step = 2
  BY <1>2
<1>3. CASE step = 4
  BY <1>3
<1>4. CASE step = 8
  BY <1>4
<1> QED BY <1>1, <1>2, <1>3, <1>4

\* What dsth_get_temp_scratchpad() computes, with the bytes put together.
LEMMA ScratchpadTemp ==
  ASSUME NEW s, NEW t \in Int, -1000 <= t, t <= 2100, NEW r, NEW m,
         NEW scpd, scpd = [bytes |-> Bytes(t), res |-> r, rem |-> m, per |-> 16]
  PROVE  dsth_get_temp_scratchpad(s, scpd) =
           IF s \notin DS18S20 THEN CDiv((t \div 2^(3 - r)) * 2^(3 - r) * 1000, 16)
           ELSE 1000 * (t \div 2) - 250 + CDiv(1000 * (16 - m), 16)
<1>1. /\ scpd.bytes.hsb = High(t) /\ scpd.bytes.lsb = Low(t) /\ scpd.res = r
      /\ scpd.rem = m /\ scpd.per = 16
  BY DEF Bytes, High, Low
<1>2. Signed(scpd.bytes.hsb) * 256 + scpd.bytes.lsb = t
  BY <1>1, SignedBytes
<1> DEFINE temp == Signed(scpd.bytes.hsb) * 256 + scpd.bytes.lsb
<1>3. dsth_get_temp_scratchpad(s, scpd) =
        IF s \notin DS18S20 THEN CDiv((temp \div 2^(3 - scpd.res)) * 2^(3 - scpd.res) * 1000, 16)
        ELSE 1000 * (temp \div 2) - 250 + CDiv(1000 * (16 - scpd.rem), 16)
  BY <1>1 DEF dsth_get_temp_scratchpad, Signed
<1>4. temp = t
  BY <1>2
<1> HIDE DEF temp
<1> QED BY <1>1, <1>3, <1>4

\* It is right to a step of the resolution, whatever the undefined bits are.
LEMMA PlainReads ==
  ASSUME NEW s, s \notin DS18S20, NEW a \in Celsius, NEW r \in 0..3,
         NEW step, step = 2^(3 - r), NEW low \in {0, step - 1},
         NEW scpd, scpd = [bytes |-> Bytes((a \div step) * step + low), res |-> r, rem |-> 0, per |-> 16]
  PROVE  Reads(dsth_get_temp_scratchpad(s, scpd), a, step)
<1> DEFINE t == (a \div step) * step + low
           m == (t \div step) * step
           v == dsth_get_temp_scratchpad(s, scpd)
<1>1. step \in {1, 2, 4, 8}
  BY StepIs
<1>2. a \in Int /\ -880 <= a /\ a <= 2000
  BY DEF Celsius
<1>3. t \in Int /\ m \in Int /\ a - step + 1 <= m /\ m <= a /\ a - step + 1 <= t /\ t <= a + step - 1
  BY <1>1, <1>2, CutBits
<1>4. scpd = [bytes |-> Bytes(t), res |-> r, rem |-> 0, per |-> 16]
  OBVIOUS
<1> HIDE DEF t
<1>5. -1000 <= t /\ t <= 2100
  BY <1>1, <1>2, <1>3
<1>6. v = CDiv((t \div step) * step * 1000, 16)
  BY <1>3, <1>4, <1>5, ScratchpadTemp
<1>7. v = CDiv(m * 1000, 16)
  BY <1>6
<1> HIDE DEF m, v
<1>8. v \in Int /\ m * 1000 - 16 < 16 * v /\ 16 * v < m * 1000 + 16
  BY <1>3, <1>7, CDivIs
<1>9. 1000 * (a - step + 1) - 16 < 16 * v /\ 16 * v < 1000 * a + 16
  BY <1>1, <1>2, <1>3, <1>8
<1> QED BY <1>9 DEF Reads, v

\* The formula with COUNT_REMAIN is right to a step of 12 bits for a DS18S20.
LEMMA DS18S20Reads ==
  ASSUME NEW s \in DS18S20, NEW a \in Celsius, NEW half \in {0, 1}, NEW k, k = a + 3,
         NEW scpd, scpd = [bytes |-> Bytes(2 * (k \div 16) + half), res |-> 3, rem |-> 15 - (k % 16), per |-> 16]
  PROVE  Reads(dsth_get_temp_scratchpad(s, scpd), a, 1)
<1> DEFINE q == k \div 16
           l == k % 16
           t == 2 * q + half
           v == dsth_get_temp_scratchpad(s, scpd)
<1>1. q \in Int /\ l \in 0..15 /\ k = 16 * q + l /\ a \in -880..2000
  BY DEF Celsius
<1>2. scpd = [bytes |-> Bytes(t), res |-> 3, rem |-> 15 - l, per |-> 16]
  OBVIOUS
<1> HIDE DEF q, l
<1>3. t \in Int /\ -1000 <= t /\ t <= 2100 /\ t \div 2 = q
  BY <1>1
<1> HIDE DEF t
<1>4. v = 1000 * (t \div 2) - 250 + CDiv(1000 * (16 - (15 - l)), 16)
  BY <1>2, <1>3, ScratchpadTemp
<1>5. v = 1000 * q - 250 + (1000 * (l + 1)) \div 16
  <2>1. 16 - (15 - l) = l + 1 /\ 1000 * (l + 1) >= 0
    BY <1>1
  <2>2. CDiv(1000 * (16 - (15 - l)), 16) = (1000 * (l + 1)) \div 16
    BY <2>1 DEF CDiv
  <2> QED BY <1>3, <1>4, <2>2
<1> HIDE DEF v
<1>6. PICK d \in Int : d = (1000 * (l + 1)) \div 16
  BY <1>1
<1>7. 16 * d <= 1000 * (l + 1) /\ 1000 * (l + 1) < 16 * d + 16
  BY <1>1, <1>6
<1>8. 1000 * (a - 1 + 1) - 16 < 16 * v /\ 16 * v < 1000 * a + 16
  BY <1>1, <1>5, <1>6, <1>7
<1> QED BY <1>8 DEF Reads, v

\* which call it is that returns
LEMMA Returns ==
  ASSUME ThermSetup, ThermInv, ThermNext,
         NEW p \in Procs, done'.p = p, call[p].at \in {"wait", "pull", "put"}
  PROVE  ReadTemp(p) \/ (call[p].at = "put" /\ SetResWrite(p))
<1>1. NoReturn.p # p
  BY DEF NoReturn, ThermSetup
<1>5. ASSUME NEW q \in Procs, NEW s \in bus, dsth_probe(q, s)
      PROVE  FALSE
  BY <1>1, <1>5 DEF dsth_probe, Begin, Goto
<1>6. ASSUME NEW q \in Procs, NEW s \in bus, NEW r \in Resolutions, dsth_set_res(q, s, r)
      PROVE  FALSE
  BY <1>1, <1>6 DEF dsth_set_res, Begin, Goto, Return
<1>7. ASSUME NEW q \in Procs, dsth_read_pow_supply(q)
      PROVE  FALSE
  <2>1. call[q].at = "pow" /\ (done' = NoReturn \/ done'.p = q)
    BY <1>7 DEF dsth_read_pow_supply, Goto, Return, Fails, Garbled, Misread, Message, Query
  <2> QED BY <1>1, <2>1
<1>8. ASSUME NEW q \in Procs, dsth_get_res(q)
      PROVE  FALSE
  <2>1. call[q].at = "res" /\ (done' = NoReturn \/ done'.p = q)
    BY <1>8 DEF dsth_get_res, Goto, Return, Fails, Garbled, Misread, Message, Query
  <2> QED BY <1>1, <2>1
<1>9. ASSUME NEW q \in Procs, dsth_convert_t(q)
      PROVE  FALSE
  <2>1. call[q].at = "conv" /\ (done' = NoReturn \/ done'.p = q)
    BY <1>9 DEF dsth_convert_t, Goto, Return, Fails, Garbled, Message, Query
  <2> QED BY <1>1, <2>1
<1>10. ASSUME NEW q \in Procs, ReadTemp(q)
       PROVE  q = p
  <2>1. (done' = NoReturn \/ done'.p = q)
    BY <1>10 DEF ReadTemp, Goto, Return, Fails, Garbled, Misread, Message, Query
  <2> QED BY <1>1, <2>1
<1>16. ASSUME NEW q \in Procs, Signal(q)
       PROVE  FALSE
  BY <1>1, <1>16 DEF Signal, Goto
<1>11. ASSUME NEW q \in Procs, SetResRead(q)
       PROVE  FALSE
  <2>1. call[q].at = "get" /\ (done' = NoReturn \/ done'.p = q)
    BY <1>11 DEF SetResRead, Goto, Return, Fails, Garbled, Misread, Message, Query
  <2> QED BY <1>1, <2>1
<1>12. ASSUME NEW q \in Procs, SetResWrite(q)
       PROVE  q = p /\ call[p].at = "put"
  <2>1. call[q].at = "put" /\ (done' = NoReturn \/ done'.p = q)
    BY <1>12 DEF SetResWrite, Goto, Return, Fails, Garbled, Message, Query
  <2> QED BY <1>1, <2>1
<1>13. ASSUME NEW q \in Others, NEW S, Commands(q, S)
       PROVE  FALSE
  <2>1. done' = NoReturn
    BY <1>13 DEF Commands, Query, Message
  <2> QED BY <1>1, <2>1
<1>14. ~Tick
  <2>1. Tick => done' = NoReturn
    BY Zenon DEF Tick
  <2> QED BY <1>1, <2>1
<1>15. ~Warm
  <2>1. Warm => done' = NoReturn
    BY Zenon DEF Warm
  <2> QED BY <1>1, <2>1
<1> QED BY <1>5, <1>6, <1>7, <1>8, <1>9, <1>10, <1>11, <1>12, <1>13, <1>14, <1>15, <1>16 DEF ThermNext

\* the promise of dsth_set_res() for the call of p that returns
OnlyRes(p) ==
  LET reg == sens[call[p].s].reg
      new == sens'[call[p].s].reg
  IN  /\ new.alarm = reg.alarm
      /\ new.res \in {reg.res, call[p].res}
      /\ done'.ret = "SUCCESS" => new.res = call[p].res

\* A dsth_set_res() that returns keeps its promise.
LEMMA ResolutionStep ==
  ASSUME ThermSetup, ThermInv, ThermNext,
         NEW p \in Procs, call[p].at = "put", Undisturbed(p)
  PROVE  OnlyRes(p)
<1> DEFINE c == call[p]
           s == c.s
           reg == sens[s].reg
           put == [c.old EXCEPT !.res = c.res]
<1>1. done'.p = p /\ ~spoiled'[p]
  BY DEF Undisturbed
<1>2. SetResWrite(p)
  <2>1. ~ReadTemp(p)
    BY DEF ReadTemp, Waited
  <2> QED BY <1>1, <2>1, Returns
<1>3. /\ c \in Call /\ s \in Therms /\ SetResGood(p) /\ sens[s] \in Sensor
  BY Own
<1>9. ~spoiled[p]
  BY <1>1, <1>2 DEF SetResWrite, Fails, Message, ThermInv, ThermTypes
<1>4. s \notin DS18S20 /\ c.old = reg /\ c.old \in Registers /\ put \in Registers
  BY <1>9, <1>3 DEF SetResGood, Call, Registers
<1>5. put.alarm = reg.alarm /\ put.res = c.res
  BY <1>4 DEF Registers
<1>6. \/ WriteMessage(p, {s}, put) /\ Return(p, "SUCCESS", 0)
      \/ WriteMessage(p, {s}, put) /\ Return(p, "ERR", 0)
      \/ sens' = sens /\ Return(p, "ERR", 0)
  BY <1>2 DEF SetResWrite, Fails, Message, WriteMessage
<1>7. ASSUME NEW rc, NEW temp, Return(p, rc, temp)
      PROVE  done'.ret = rc
  BY <1>7 DEF Return
<1> HIDE DEF put
<1>8. ASSUME WriteMessage(p, {s}, put)
      PROVE  sens'[s].reg = put
  <2>1. sens'[s] = WriteRegs(s, Awake[s], put)
    BY <1>3, <1>4, <1>8, WriteHeard DEF ThermInv, ThermTypes
  <2>2. Awake[s] \in Sensor
    BY <1>3, AwakeIs DEF ThermInv, ThermTypes
  <2>3. Regs(s, put) = put
    BY <1>4 DEF Regs
  <2> QED BY <2>1, <2>2, <2>3 DEF WriteRegs, Sensor
<1> QED BY <1>5, <1>6, <1>7, <1>8 DEF OnlyRes

\* A temperature that is returned is one that was there.
LEMMA ReadingStep ==
  ASSUME ThermSetup, ThermInv, ThermNext, NEW p \in Procs,
         Undisturbed(p), done'.ret = "SUCCESS", call[p].at \in {"wait", "pull"},
         Powered(p)
  PROVE  \E a \in felt[p] : Reads(done'.temp, a, 2^(3 - call[p].res))
<1> DEFINE c == call[p]
           s == c.s
           x == sens[s]
           step == 2^(3 - c.res)
<1>1. done'.p = p /\ ~spoiled'[p]
  BY DEF Undisturbed
<1>2. ReadTemp(p)
  BY <1>1, Returns
<1>3. /\ c \in Call /\ s \in Therms /\ ProbeGood(p) /\ x \in Sensor /\ Fixed(s, x)
  BY Own
<1>4. ASSUME NEW rc, NEW temp, Return(p, rc, temp)
      PROVE  done'.ret = rc /\ done'.temp = temp
  BY <1>4 DEF Return
<1>5. /\ Query(p)
      /\ \E scpd \in Scratchpads(s, Awake[s]) :
           Return(p, "SUCCESS", dsth_get_temp_scratchpad(s, scpd))
      /\ c.at = "pull" \/ (c.at = "wait" /\ c.wait = 0)
  <2>1. \/ /\ Query(p)
           /\ \E scpd \in Scratchpads(s, Awake[s]) :
                Return(p, "SUCCESS", dsth_get_temp_scratchpad(s, scpd))
        \/ Misread(p)
        \/ Return(p, "DTA_CRPT", 0)
        \/ Return(p, "ERR", 0)
    BY <1>2 DEF ReadTemp, Garbled, Fails, Message
  <2>2. c.at = "pull" \/ (c.at = "wait" /\ c.wait = 0)
    BY <1>2 DEF ReadTemp, Waited
  <2>3. ~Misread(p)
    BY <1>1, MisreadAside
  <2> QED BY <1>4, <2>1, <2>2, <2>3
<1>6. hold = 0 /\ ~spoiled[p]
  BY <1>1, <1>5 DEF Query, Message, ThermInv, ThermTypes
<1>7. /\ x.reg.res = c.res /\ x.conv = 0
      /\ x.temp \in felt[p] /\ x.tres = c.res
  <2>1. x.conv \in Nat /\ (x.conv <= c.wait \/ x.conv <= hold)
    BY <1>3, <1>6 DEF ProbeGood, Sensor, Powered
  <2>2. x.conv = 0
    BY <1>3, <1>5, <1>6, <2>1 DEF ProbeGood, Powered
  <2> QED BY <1>3, <1>6, <2>2 DEF ProbeGood, Powered
<1>8. Awake[s] = x
  BY <1>3, <1>7, AwakeIs DEF ThermInv, ThermTypes
<1>9. PICK scpd \in Scratchpads(s, x) : done'.temp = dsth_get_temp_scratchpad(s, scpd)
  BY <1>4, <1>5, <1>8
<1>10. x.temp \in Celsius /\ c.res \in 0..3
  BY <1>3 DEF Sensor, Call
<1>11. CASE s \in DS18S20
  <2>1. c.res = 3
    BY <1>3, <1>7, <1>11 DEF Fixed
  <2>3. 2^(3 - c.res) = 1
    BY <1>10, <2>1, StepIs
  <2>2. PICK half \in {0, 1} :
          scpd = [bytes |-> Bytes(2 * ((x.temp + 3) \div 16) + half), res |-> 3,
                  rem |-> 15 - ((x.temp + 3) % 16), per |-> 16]
    BY <1>9, <1>11 DEF Scratchpads
  <2>4. Reads(dsth_get_temp_scratchpad(s, scpd), x.temp, 1)
    BY <1>10, <1>11, <2>2, DS18S20Reads
  <2>5. x.temp \in felt[p] /\ Reads(done'.temp, x.temp, 2^(3 - c.res))
    BY <1>7, <1>9, <2>3, <2>4
  <2> QED BY <2>5
<1>12. CASE s \notin DS18S20
  <2>1. PICK low \in {0, step - 1} :
          scpd = [bytes |-> Bytes((x.temp \div step) * step + low), res |-> c.res, rem |-> 0, per |-> 16]
    BY <1>7, <1>9, <1>12 DEF Scratchpads
  <2>2. step = 2^(3 - c.res)
    OBVIOUS
  <2> HIDE DEF step
  <2>3. Reads(dsth_get_temp_scratchpad(s, scpd), x.temp, step)
    BY <1>10, <1>12, <2>1, <2>2, PlainReads
  <2> QED BY <1>7, <1>9, <2>2, <2>3
<1> QED BY <1>11, <1>12

\* The inductive invariant: while nobody spoils a call, dsth_probe() knows the supply and the
\* resolution of its sensor and when the conversion ends, and dsth_set_res() the registers.
THEOREM ThermInvAlways == ThermSpec => []ThermInv
<1>1. ThermInit => ThermInv
  BY SetupIs, InitIs
<1>2. ThermInv /\ [ThermNext]_thermVars => ThermInv'
  BY SetupIs, NextKeeps
<1> QED BY <1>1, <1>2, PTL DEF ThermSpec

\* dsth_set_res() changes the resolution of its sensor and never an alarm, if nobody else
\* commands the sensor meanwhile; when it returns SUCCESS, the resolution is the one asked for.
THEOREM ResolutionAlone == ThermSpec => ResolutionOnly
<1> DEFINE A == \A p \in Procs : call[p].at = "put" /\ Undisturbed(p) => OnlyRes(p)
<1>1. ThermInv /\ [ThermNext]_thermVars => [A]_thermVars
  BY SetupIs, ResolutionStep
<1>2. ResolutionOnly <=> [][A]_thermVars
  BY DEF ResolutionOnly, OnlyRes
<1> QED BY <1>1, <1>2, ThermInvAlways, PTL DEF ThermSpec

\* A temperature that dsth_probe() returns with SUCCESS is, to a step of the resolution, one
\* that the sensor felt since the conversion was started.
THEOREM ReadingsRight == ThermSpec => ReadingRight
<1> DEFINE A == \A p \in Procs :
                  /\ Undisturbed(p) /\ done'.ret = "SUCCESS" /\ call[p].at \in {"wait", "pull"}
                  /\ Powered(p)
                  => \E a \in felt[p] : Reads(done'.temp, a, 2^(3 - call[p].res))
<1>1. ThermInv /\ [ThermNext]_thermVars => [A]_thermVars
  <2> SUFFICES ASSUME ThermInv, ThermNext, NEW p \in Procs, Undisturbed(p),
                      done'.ret = "SUCCESS", call[p].at \in {"wait", "pull"},
                      Powered(p)
               PROVE  \E a \in felt[p] : Reads(done'.temp, a, 2^(3 - call[p].res))
    OBVIOUS
  <2> QED BY SetupIs, ReadingStep
<1>2. ReadingRight <=> [][A]_thermVars
  BY DEF ReadingRight
<1> QED BY <1>1, <1>2, ThermInvAlways, PTL DEF ThermSpec
=============================================================================
