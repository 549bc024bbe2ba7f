---------------------------- MODULE ClockProofs ----------------------------
(***************************************************************************)
(* The promises of the clock, for every width of the registers, every wait *)
(* and every delay between two reads of the timer.                         *)
(***************************************************************************)
EXTENDS Clock, TLAPS

(***************************************************************************)
(* The two halves of the counter.                                          *)
(***************************************************************************)

\* A counter value is put together from its halves.
LEMMA Halves ==
  ASSUME NEW n \in Nat
  PROVE  /\ Hi(n) \in Nat /\ Lo(n) \in Word
         /\ n = Hi(n) * U32 + Lo(n)
  BY ClockAssumption DEF Hi, Lo, Word

\* A higher high half outweighs any low half.
LEMMA HiWeighs ==
  ASSUME NEW a \in Nat, NEW b \in Nat, a < b
  PROVE  a * U32 + U32 <= b * U32
<1>1. PICK d \in Nat : b = a + 1 + d
  BY b - a - 1 \in Nat
<1>2. b * U32 = a * U32 + U32 + d * U32
  BY <1>1, ClockAssumption
<1>3. d * U32 >= 0
  BY ClockAssumption
<1>4. QED
  BY <1>2, <1>3, ClockAssumption

\* The high half never goes back.
LEMMA HiMonotone ==
  ASSUME NEW a \in Nat, NEW b \in Nat, a <= b
  PROVE  Hi(a) <= Hi(b)
<1> SUFFICES ASSUME Hi(b) < Hi(a) PROVE FALSE
  BY Halves
<1>1. Hi(b) * U32 + U32 <= Hi(a) * U32
  BY HiWeighs, Halves
<1>2. Hi(a) * U32 \in Nat /\ Hi(b) * U32 \in Nat
  BY Halves, ClockAssumption
<1>3. QED
  BY <1>1, <1>2, Halves, ClockAssumption DEF Word

\* Sums and differences of 32-bit words.
LEMMA Wraps ==
  ASSUME NEW p \in Word, NEW q \in Word
  PROVE  /\ (q - p) % U32 = IF p <= q THEN q - p ELSE U32 + q - p
         /\ (p + q) % U32 = IF p + q < U32 THEN p + q ELSE p + q - U32
<1>1. CASE p <= q
  BY <1>1, ClockAssumption DEF Word
<1>2. CASE q < p
  BY <1>2, ClockAssumption DEF Word
<1>3. QED
  BY <1>1, <1>2 DEF Word

\* The difference of two low halves, in 32 bits, is at most the time between.
LEMMA DeltaBound ==
  ASSUME NEW a \in Nat, NEW b \in Nat, a <= b
  PROVE  (Lo(b) - Lo(a)) % U32 <= b - a
<1>1. /\ Lo(a) \in Word /\ Lo(b) \in Word /\ Hi(a) \in Nat /\ Hi(b) \in Nat
      /\ a = Hi(a) * U32 + Lo(a) /\ b = Hi(b) * U32 + Lo(b)
  BY Halves
<1>2. Hi(a) * U32 \in Nat /\ Hi(b) * U32 \in Nat
  BY <1>1, ClockAssumption
<1>3. CASE Hi(a) = Hi(b)
  <2>1. b - a = Lo(b) - Lo(a) /\ Lo(b) - Lo(a) \in Word
    BY <1>1, <1>2, <1>3, ClockAssumption DEF Word
  <2>2. QED
    BY <2>1, ClockAssumption DEF Word
<1>4. CASE Hi(a) < Hi(b)
  <2>1. Hi(a) * U32 + U32 <= Hi(b) * U32
    BY <1>1, <1>4, HiWeighs
  <2>2. b - a >= U32 + Lo(b) - Lo(a)
    <3>1. PICK x \in Nat, y \in Nat : x = Hi(a) * U32 /\ y = Hi(b) * U32
      BY <1>2
    <3>2. x + U32 <= y /\ a = x + Lo(a) /\ b = y + Lo(b)
      BY <1>1, <2>1, <3>1
    <3>3. QED
      BY <1>1, <3>2, ClockAssumption DEF Word
  <2>3. (Lo(b) - Lo(a)) % U32 <= U32 + Lo(b) - Lo(a)
    BY <1>1, Wraps, ClockAssumption DEF Word
  <2>4. QED
    BY <1>1, <2>2, <2>3, ClockAssumption DEF Word
<1>5. Hi(a) <= Hi(b)
  BY HiMonotone
<1>6. QED
  BY <1>1, <1>3, <1>4, <1>5

(***************************************************************************)
(* The invariant.                                                          *)
(***************************************************************************)

\* The halves read so far: the high one is not older than the call, the low one
\* belongs to a moment t of the call with at least that high half, and a high half
\* that moved makes any value put together with it later than the call's start.
Read64Inv ==
  /\ start <= now
  /\ pc = "lo" => Hi(start) <= chi
  /\ pc = "hi2" => Hi(start) <= chi /\ \E t \in start..now : clo = Lo(t) /\ chi <= Hi(t)
  /\ pc = "lo2" => Hi(start) < chi /\ chi <= Hi(now)
  /\ pc = "lo" => chi <= Hi(now)

\* The time counted so far had passed when the timer was last read.
SleepInv ==
  pc \in {"test", "nap", "read"} =>
    \E t \in start..now : ticks = Lo(t) /\ time <= t - start

ClockInv == TypeOK /\ Read64Inv /\ SleepInv /\ LeftAgrees /\ Ticks64InCall /\ SleepsEnough

LEMMA InitInv == Init => ClockInv
<1> SUFFICES ASSUME Init PROVE ClockInv
  OBVIOUS
<1>1. 0 \in Word /\ now \in Nat
  BY ClockAssumption DEF Init, Word
<1>2. TypeOK
  BY <1>1 DEF Init, TypeOK
<1>3. Read64Inv
  BY <1>1 DEF Init, Read64Inv
<1>4. SleepInv /\ LeftAgrees /\ Ticks64InCall /\ SleepsEnough
  BY DEF Init, SleepInv, LeftAgrees, Ticks64InCall, SleepsEnough
<1>5. QED
  BY <1>2, <1>3, <1>4 DEF ClockInv

LEMMA StepInv == ClockInv /\ [Next]_vars => ClockInv'
<1> SUFFICES ASSUME ClockInv, [Next]_vars PROVE ClockInv'
  OBVIOUS
<1> USE ClockAssumption DEF ClockInv
<1>a. TypeOK
  OBVIOUS
<1>b. Hi(now) \in Nat /\ Lo(now) \in Word /\ now = Hi(now) * U32 + Lo(now)
  BY Halves DEF TypeOK
<1>1. ASSUME NEW d \in {"io", "sys"}, clock_set_driver(d) PROVE ClockInv'
  <2>1. UNCHANGED <<now, pc, last, start, read64, sleep>> /\ pc = "idle"
    BY <1>1 DEF clock_set_driver
  <2>2. /\ drv' \in {"none", "io", "sys"} /\ mapped' \in BOOLEAN
        /\ (drv' = "io" => mapped') /\ (mapped' => drv' # "none")
        /\ ret' \in {"SUCCESS", "MMAP_ERR", "PLAT_ERR", "NOT_SUPP", "CLK_ERR"}
    <3>1. CASE d = "io"
      <4>1. CASE mapped' = TRUE /\ drv' = "io" /\ ret' = "SUCCESS"
        BY <4>1, Zenon
      <4>2. CASE ret' \in {"MMAP_ERR", "PLAT_ERR"} /\ UNCHANGED handle
        <5>1. drv' = drv /\ mapped' = mapped
          BY <4>2 DEF handle
        <5>2. QED
          BY <4>2, <5>1 DEF TypeOK
      <4>3. QED
        BY <1>1, <3>1, <4>1, <4>2, Zenon DEF clock_set_driver
    <3>2. CASE d = "sys" /\ SysDriver
      BY <1>1, <3>2 DEF clock_set_driver, TypeOK
    <3>3. CASE d = "sys" /\ ~SysDriver
      BY <1>1, <3>3 DEF clock_set_driver, TypeOK
    <3>4. QED
      BY <3>1, <3>2, <3>3
  <2>3. TypeOK'
    BY <2>1, <2>2 DEF TypeOK, read64, sleep
  <2>4. Read64Inv' /\ SleepInv' /\ LeftAgrees' /\ Ticks64InCall' /\ SleepsEnough'
    BY <2>1 DEF Read64Inv, SleepInv, LeftAgrees, Ticks64InCall, SleepsEnough, read64, sleep
  <2>5. QED
    BY <2>3, <2>4
<1>2. CASE clock_free
  BY <1>2 DEF clock_free, TypeOK, Read64Inv, SleepInv, LeftAgrees,
     Ticks64InCall, SleepsEnough, handle, read64, sleep, Hi
<1>3. CASE clock_get_ticks64
  BY <1>3 DEF clock_get_ticks64, TypeOK, Read64Inv, SleepInv, LeftAgrees,
     Ticks64InCall, SleepsEnough, handle, Word
<1>4. CASE ReadHi
  <2>1. Hi(start) <= Hi(now)
    BY HiMonotone DEF TypeOK, Read64Inv
  <2>2. QED
    BY <1>4, <1>b, <2>1 DEF ReadHi, TypeOK, Read64Inv, SleepInv, LeftAgrees,
       Ticks64InCall, SleepsEnough, handle, sleep, Hi
<1>5. CASE ReadLo
  <2>1. now \in start..now
    BY DEF TypeOK, Read64Inv
  <2>2. QED
    BY <1>5, <1>b, <2>1 DEF ReadLo, TypeOK, Read64Inv, SleepInv, LeftAgrees,
       Ticks64InCall, SleepsEnough, handle, sleep, Hi, Lo
<1>6. ASSUME NEW hi \in Nat, NEW lo \in Word, Return64(hi, lo), pc # "idle",
             hi * U32 + lo \in start..now, UNCHANGED <<now, handle, start, sleep>>
      PROVE  ClockInv'
  <2>1. out' \in Nat
    BY <1>6 DEF Return64, Word
  <2>2. QED
    BY <1>6, <2>1 DEF Return64, TypeOK, Read64Inv, SleepInv, LeftAgrees,
       Ticks64InCall, SleepsEnough, handle, sleep, Word, Hi
<1>7. CASE ReadHi2
  <2>1. PICK t \in start..now : clo = Lo(t) /\ chi <= Hi(t)
    BY <1>7 DEF ReadHi2, Read64Inv
  <2>2. /\ t \in Nat /\ Hi(t) \in Nat /\ Lo(t) \in Word /\ t = Hi(t) * U32 + Lo(t)
        /\ Hi(t) <= Hi(now)
    BY <2>1, Halves, HiMonotone DEF TypeOK
  <2>3. CASE Hi(now) > chi
    BY <1>7, <1>b, <2>3, HiMonotone DEF ReadHi2, Return64, TypeOK, Read64Inv, SleepInv,
       LeftAgrees, Ticks64InCall, SleepsEnough, handle, sleep, Hi
  <2>4. CASE ~(Hi(now) > chi)
    <3>1. chi = Hi(t) /\ clo = Lo(t)
      BY <1>b, <2>1, <2>2, <2>4 DEF TypeOK
    <3>2. chi * U32 + clo = t
      BY <2>2, <3>1
    <3>3. Return64(chi, clo) /\ pc # "idle" /\ UNCHANGED <<now, handle, start, sleep>>
      BY <1>7, <2>4 DEF ReadHi2
    <3>4. QED
      BY <1>6, <2>1, <3>2, <3>3 DEF TypeOK
  <2>5. QED
    BY <2>3, <2>4
<1>8. CASE ReadLo2
  <2>1. /\ chi \in Nat /\ Hi(start) < chi /\ chi <= Hi(now)
        /\ start \in Nat /\ Hi(start) \in Nat /\ Lo(start) \in Word
        /\ start = Hi(start) * U32 + Lo(start)
    BY <1>8, Halves DEF ReadLo2, TypeOK, Read64Inv
  <2>2. Hi(start) * U32 + U32 <= chi * U32
    BY <2>1, HiWeighs
  <2>3. chi * U32 <= Hi(now) * U32
    BY <2>1, <1>b, HiWeighs
  <2>4. chi * U32 + Lo(now) \in start..now
    <3>1. PICK x \in Nat, y \in Nat, z \in Nat :
            x = Hi(start) * U32 /\ y = chi * U32 /\ z = Hi(now) * U32
      BY <1>b, <2>1
    <3>2. x + U32 <= y /\ y <= z /\ start = x + Lo(start) /\ now = z + Lo(now)
      BY <1>b, <2>1, <2>2, <2>3, <3>1
    <3>3. y + Lo(now) \in start..now
      BY <1>b, <2>1, <3>2 DEF Word, TypeOK
    <3>4. QED
      BY <3>1, <3>3
  <2>5. QED
    BY <1>6, <1>8, <1>b, <2>1, <2>4 DEF ReadLo2
<1>9. ASSUME NEW u \in Usecs, clock_usleep(u) PROVE ClockInv'
  BY <1>9 DEF clock_usleep, TypeOK, Read64Inv, SleepInv, LeftAgrees,
     Ticks64InCall, SleepsEnough, handle, Word
<1>10. CASE Begin
  <2>1. now \in start..now /\ 0 <= now - start
    BY DEF TypeOK, Read64Inv
  <2>2. /\ (Lo(now) + usec) % U32 \in Word
        /\ (((Lo(now) + usec) % U32) - Lo(now)) % U32 = usec
    <3>1. usec \in Word
      BY DEF TypeOK
    <3>2. (Lo(now) + usec) % U32 = IF Lo(now) + usec < U32 THEN Lo(now) + usec
                                   ELSE Lo(now) + usec - U32
      BY <1>b, <3>1, Wraps
    <3>3. (Lo(now) + usec) % U32 \in Word
      BY <1>b, <3>1, <3>2 DEF Word
    <3>4. PICK q \in Word : q = (Lo(now) + usec) % U32
      BY <3>3
    <3>5. (q - Lo(now)) % U32 = IF Lo(now) <= q THEN q - Lo(now) ELSE U32 + q - Lo(now)
      BY <1>b, Wraps
    <3>6. (q - Lo(now)) % U32 = usec
      BY <1>b, <3>1, <3>2, <3>4, <3>5, ClockAssumption DEF Word
    <3>7. QED
      BY <3>3, <3>4, <3>6
  <2>3. TypeOK'
    BY <1>10, <1>b, <2>2 DEF Begin, TypeOK, handle, read64, Word
  <2>4. Read64Inv' /\ Ticks64InCall' /\ SleepsEnough'
    BY <1>10 DEF Begin, Read64Inv, Ticks64InCall, SleepsEnough, handle, read64
  <2>5. SleepInv'
    BY <1>10, <2>1 DEF Begin, SleepInv, Lo
  <2>6. LeftAgrees'
    BY <1>10, <2>2 DEF Begin, LeftAgrees, TypeOK, Word
  <2>7. QED
    BY <2>3, <2>4, <2>5, <2>6
<1>11. CASE Test
  <2>1. SleepsEnough'
    <3>1. CASE time >= usec
      <4>1. PICK t \in start..now : ticks = Lo(t) /\ time <= t - start
        BY <1>11 DEF Test, SleepInv
      <4>2. now - start >= usec
        BY <3>1, <4>1 DEF TypeOK, Word
      <4>3. QED
        BY <1>11, <4>2 DEF Test, SleepsEnough
    <3>2. CASE time < usec
      BY <1>11, <3>2 DEF Test, SleepsEnough, TypeOK, Word
    <3>3. QED
      BY <3>1, <3>2 DEF TypeOK, Word
  <2>2. TypeOK'
    BY <1>11 DEF Test, TypeOK, handle, read64, Word
  <2>3. Read64Inv' /\ Ticks64InCall'
    BY <1>11 DEF Test, Read64Inv, Ticks64InCall, handle, read64
  <2>4. SleepInv'
    BY <1>11 DEF Test, SleepInv, Lo
  <2>5. LeftAgrees'
    BY <1>11 DEF Test, LeftAgrees, TypeOK
  <2>6. QED
    BY <2>1, <2>2, <2>3, <2>4, <2>5
<1>12. CASE Nap
  BY <1>12 DEF Nap, TypeOK, Read64Inv, SleepInv, LeftAgrees,
     Ticks64InCall, SleepsEnough, handle, read64, sleep, Hi, Lo
<1>13. CASE Read
  <2>1. PICK t \in start..now : ticks = Lo(t) /\ time <= t - start
    BY <1>13 DEF Read, SleepInv
  <2>2. /\ Lo(t) \in Word /\ Delta \in Word /\ Delta <= now - t
        /\ (ticks + Delta) % U32 = Lo(now)
    <3>1. t \in Nat /\ t <= now /\ now \in Nat
      BY <2>1 DEF TypeOK
    <3>2. Lo(t) \in Word
      BY <3>1, Halves
    <3>3. Delta = (Lo(now) - Lo(t)) % U32
      BY <2>1 DEF Delta
    <3>4. Delta = IF Lo(t) <= Lo(now) THEN Lo(now) - Lo(t) ELSE U32 + Lo(now) - Lo(t)
      BY <1>b, <3>2, <3>3, Wraps
    <3>5. Delta \in Word
      BY <1>b, <3>2, <3>4 DEF Word
    <3>6. Delta <= now - t
      BY <3>1, <3>3, DeltaBound
    <3>7. (ticks + Delta) % U32 = IF ticks + Delta < U32 THEN ticks + Delta
                                  ELSE ticks + Delta - U32
      BY <2>1, <3>2, <3>5, Wraps
    <3>8. (ticks + Delta) % U32 = Lo(now)
      BY <1>b, <2>1, <3>2, <3>4, <3>7 DEF Word
    <3>9. QED
      BY <3>2, <3>5, <3>6, <3>8
  <2>3. time' \in Word /\ time' <= time + Delta
    BY <1>13, <2>2 DEF Read, AddTicks, TypeOK, Word
  <2>4. time' <= now - start
    BY <2>1, <2>2, <2>3 DEF TypeOK, Word
  <2>5. ticks' = Lo(now) /\ now' = now /\ start' = start /\ now \in start..now
    BY <1>13, <2>1, <2>2 DEF Read, AddTicks, TypeOK
  <2>6. SleepInv'
    BY <2>4, <2>5 DEF SleepInv, Lo
  <2>7. TypeOK'
    BY <1>13, <1>b, <2>3, <2>5 DEF Read, TypeOK, handle, read64
  <2>8. Read64Inv' /\ Ticks64InCall' /\ SleepsEnough'
    BY <1>13 DEF Read, Read64Inv, Ticks64InCall, SleepsEnough, TypeOK, handle, read64
  <2>9. LeftAgrees'
    <3> SUFFICES ASSUME time' < usec PROVE (stop - Lo(now)) % U32 = usec - time'
      BY <1>13, <2>5 DEF Read, LeftAgrees
    <3>1. usec \in Word /\ stop \in Word /\ ticks \in Word /\ time \in Word
      BY DEF TypeOK
    <3>2. time' = time + Delta /\ time < usec
      BY <1>13, <2>2, <3>1 DEF Read, AddTicks, Word
    <3>3. (stop - ticks) % U32 = usec - time
      BY <1>13, <3>2 DEF Read, LeftAgrees
    <3>4. usec - time = IF ticks <= stop THEN stop - ticks ELSE U32 + stop - ticks
      BY <3>1, <3>3, Wraps
    <3>5. Lo(now) = IF ticks + Delta < U32 THEN ticks + Delta ELSE ticks + Delta - U32
      BY <2>2, <3>1, Wraps
    <3>6. (stop - Lo(now)) % U32 = IF Lo(now) <= stop THEN stop - Lo(now)
                                   ELSE U32 + stop - Lo(now)
      BY <1>b, <3>1, Wraps
    <3>7. PICK p \in Word : p = Lo(now)
      BY <1>b
    <3>8. (stop - p) % U32 = usec - (time + Delta)
      BY <2>2, <3>1, <3>2, <3>4, <3>5, <3>6, <3>7 DEF Word
    <3>9. QED
      BY <3>2, <3>7, <3>8
  <2>10. QED
    BY <2>6, <2>7, <2>8, <2>9
<1>14. CASE SystemClock
  BY <1>14 DEF SystemClock, TypeOK, Read64Inv, SleepInv, LeftAgrees,
     Ticks64InCall, SleepsEnough, handle, Word
<1>15. CASE Tick
  <2>1. Hi(now) <= Hi(now + 1) /\ Hi(now + 1) \in Nat
    BY HiMonotone, Halves DEF TypeOK
  <2>2. start..now \subseteq start..(now + 1)
    BY DEF TypeOK
  <2>3. TypeOK'
    BY <1>15 DEF Tick, TypeOK, handle, read64, sleep
  <2>4. Read64Inv'
    <3>1. pc = "hi2" => \E t \in start..(now + 1) : clo = Lo(t) /\ chi <= Hi(t)
      BY <2>2 DEF Read64Inv
    <3>2. Hi(now') = Hi(now + 1)
      BY <1>15 DEF Tick
    <3>3. UNCHANGED <<pc, start, chi, clo>> /\ now' = now + 1
      BY <1>15 DEF Tick, read64
    <3>4. start' <= now' /\ (pc = "lo" => Hi(start) <= chi)
      BY <3>3 DEF Read64Inv, TypeOK
    <3>5. (pc = "hi2" => Hi(start) <= chi) /\ (pc = "lo2" => Hi(start) < chi)
      BY DEF Read64Inv
    <3>6. pc \in {"lo", "lo2"} => chi <= Hi(now + 1)
      BY <1>b, <2>1 DEF Read64Inv, TypeOK
    <3>7. QED
      BY <3>1, <3>2, <3>3, <3>4, <3>5, <3>6 DEF Read64Inv, Hi, Lo
  <2>5. SleepInv'
    BY <1>15, <2>2 DEF Tick, SleepInv, handle, read64, sleep, Lo
  <2>6. LeftAgrees' /\ Ticks64InCall' /\ SleepsEnough'
    BY <1>15 DEF Tick, LeftAgrees, Ticks64InCall, SleepsEnough, TypeOK, Word, handle, read64, sleep
  <2>7. QED
    BY <2>3, <2>4, <2>5, <2>6
<1>16. CASE UNCHANGED vars
  BY <1>16 DEF vars, TypeOK, Read64Inv, SleepInv, LeftAgrees,
     Ticks64InCall, SleepsEnough, handle, read64, sleep, Hi, Lo
<1>17. QED
  BY <1>1, <1>2, <1>3, <1>4, <1>5, <1>7, <1>8, <1>9, <1>10, <1>11, <1>12, <1>13, <1>14,
     <1>15, <1>16 DEF Next

LEMMA Invariance == Spec => []ClockInv
  BY InitInv, StepInv, PTL DEF Spec

\* Whatever happens between the reads of the two halves, clock_get_ticks64()
\* returns a value the counter had during the call (clock.c 124-154).
THEOREM ReadsInCall == Spec => []Ticks64InCall
<1>1. ClockInv => Ticks64InCall
  BY DEF ClockInv
<1>2. QED
  BY <1>1, Invariance, PTL

\* bcm_usleep() sleeps at least as long as it was asked to (clock.c 158-180,
\* clock.h 72), for every 32-bit wait and whatever wraps of the timer it misses.
THEOREM SleepsLongEnough == Spec => []SleepsEnough
<1>1. ClockInv => SleepsEnough
  BY DEF ClockInv
<1>2. QED
  BY <1>1, Invariance, PTL

\* The test that decides on giving up the CPU sees exactly what is left of the wait,
\* across every wrap of both 32-bit differences (clock.c 158-180).
THEOREM LeftExact == Spec => []LeftAgrees
<1>1. ClockInv => LeftAgrees
  BY DEF ClockInv
<1>2. QED
  BY <1>1, Invariance, PTL

\* Every reachable state is well typed, and the I/O driver is active only while
\* the timer is mapped (clock.c 34-92).
THEOREM TypeCorrect == Spec => []TypeOK
<1>1. ClockInv => TypeOK
  BY DEF ClockInv
<1>2. QED
  BY <1>1, Invariance, PTL
=============================================================================
