------------------------------- MODULE Clock -------------------------------
(***************************************************************************)
(* The clock of src/src/clock.c: a handle with its driver, the 64-bit read *)
(* of the system timer (clock_get_ticks64) and the wait built on its low   *)
(* half (bcm_usleep).                                                      *)
(*                                                                         *)
(* The timer is one 64-bit counter of microseconds, read through two       *)
(* 32-bit registers, ST_CHI and ST_CLO.  It runs on between any two reads, *)
(* and the thread may be preempted there for longer than the low half      *)
(* takes to wrap.                                                          *)
(***************************************************************************)
EXTENDS Integers

CONSTANTS
  U32,        \* 2^32
  Usecs,      \* the waits users ask for
  Threshold,  \* BCM_DEF_USLEEP_THRSHD
  SysDriver,  \* CONFIG_CLOCK_SYS_DRIVER
  MaxNow      \* bound: how far the counter runs

ASSUME ClockAssumption ==
  /\ U32 \in Nat /\ U32 > 1
  /\ Usecs \subseteq 0..(U32 - 1)
  /\ Threshold \in Nat /\ MaxNow \in Nat
  /\ SysDriver \in BOOLEAN

VARIABLES
  now,      \* the counter
  drv,      \* p_hndl->drv, "none" when closed
  mapped,   \* p_hndl->io.p_stc_io != NULL
  pc,       \* "idle"; in clock_get_ticks64() "hi", "lo", "hi2", "lo2" before the
            \* read of that name; in bcm_usleep() "begin", "test", "nap", "read"
  ret,      \* what the last call returned
  last,     \* the call whose result stands: "ticks64", "usleep" or "none"
  start,    \* history: the counter when the call began
  chi, clo, \* the locals of clock_get_ticks64()
  out,      \* *p_ticks
  usec,     \* the arguments and locals of bcm_usleep()
  ticks, stop, time

handle == <<drv, mapped>>
read64 == <<chi, clo, out>>
sleep == <<usec, ticks, stop, time>>
vars == <<now, handle, pc, ret, last, start, read64, sleep>>

Hi(n) == n \div U32    \* ST_CHI when the counter is n
Lo(n) == n % U32       \* ST_CLO

Word == 0..(U32 - 1)

TypeOK ==
  /\ now \in Nat /\ start \in Nat /\ out \in Nat /\ chi \in Nat
  /\ drv \in {"none", "io", "sys"} /\ mapped \in BOOLEAN
  /\ drv = "io" => mapped         \* the I/O driver never reads through NULL
  /\ mapped => drv # "none"       \* and a closed handle leaks no mapping
  /\ pc \in {"idle", "hi", "lo", "hi2", "lo2", "begin", "test", "nap", "read"}
  /\ pc # "idle" => drv = "io"
  /\ ret \in {"SUCCESS", "MMAP_ERR", "PLAT_ERR", "NOT_SUPP", "CLK_ERR"}
  /\ last \in {"none", "ticks64", "usleep"}
  /\ clo \in Word /\ usec \in Word /\ ticks \in Word /\ stop \in Word /\ time \in Word

Init ==
  /\ now \in 0..MaxNow
  /\ drv = "none" /\ mapped = FALSE
  /\ pc = "idle" /\ ret = "SUCCESS" /\ last = "none" /\ start = 0
  /\ chi = 0 /\ clo = 0 /\ out = 0
  /\ usec = 0 /\ ticks = 0 /\ stop = 0 /\ time = 0

-----------------------------------------------------------------------------
(***************************************************************************)
(* The handle.                                                             *)
(***************************************************************************)

\* mutant: the I/O driver is made active although the timer could not be mapped
clock_set_driverAnyway(d) ==
  /\ pc = "idle"
  /\ \/ /\ d = "io" /\ mapped' \in {mapped, TRUE}
        /\ ret' = IF mapped' THEN "SUCCESS" ELSE "MMAP_ERR"
        /\ drv' = "io"
     \/ /\ d = "sys"
        /\ ret' = IF SysDriver THEN "SUCCESS" ELSE "NOT_SUPP"
        /\ drv' = IF SysDriver THEN "sys" ELSE drv
        /\ UNCHANGED mapped
  /\ UNCHANGED <<now, pc, last, start, read64, sleep>>

\* clock_set_driver(); clock_init() calls it on a handle it has just cleared.
clock_set_driver(d) ==
  /\ pc = "idle"
  /\ \/ /\ d = "io"      \* mapped already, or io_mmap() succeeds
        /\ mapped' = TRUE
        /\ drv' = "io" /\ ret' = "SUCCESS"
     \/ /\ d = "io" /\ ~mapped
        /\ ret' \in {"MMAP_ERR", "PLAT_ERR"}
        /\ UNCHANGED handle
     \/ /\ d = "sys"
        /\ ret' = IF SysDriver THEN "SUCCESS" ELSE "NOT_SUPP"
        /\ drv' = IF SysDriver THEN "sys" ELSE drv
        /\ UNCHANGED mapped
  /\ UNCHANGED <<now, pc, last, start, read64, sleep>>

clock_free ==
  /\ pc = "idle" /\ drv # "none"
  /\ drv' = "none" /\ mapped' = FALSE
  /\ UNCHANGED <<now, pc, ret, last, start, read64, sleep>>

-----------------------------------------------------------------------------
(***************************************************************************)
(* clock_get_ticks64() on the I/O driver: the high half, the low half, the *)
(* high half again, and the low half again when the high one has moved.    *)
(***************************************************************************)

clock_get_ticks64 ==
  /\ pc = "idle" /\ drv = "io"
  /\ pc' = "hi" /\ start' = now /\ last' = "none"
  /\ out' = 0 /\ usec' = 0
  /\ UNCHANGED <<now, handle, ret, chi, clo, ticks, stop, time>>

ReadHi ==
  /\ pc = "hi"
  /\ chi' = Hi(now) /\ pc' = "lo"
  /\ UNCHANGED <<now, handle, ret, last, start, clo, out, sleep>>

ReadLo ==
  /\ pc = "lo"
  /\ clo' = Lo(now) /\ pc' = "hi2"
  /\ UNCHANGED <<now, handle, ret, last, start, chi, out, sleep>>

\* The value is put together, and the locals die.
Return64(hi, lo) ==
  /\ out' = hi * U32 + lo
  /\ chi' = 0 /\ clo' = 0
  /\ ret' = "SUCCESS" /\ pc' = "idle" /\ last' = "ticks64"

\* mutant: the carry is noticed, but the low half is not read again
ReadHi2Carry ==
  /\ pc = "hi2"
  /\ Return64(Hi(now), clo)
  /\ UNCHANGED <<now, handle, start, sleep>>

ReadHi2 ==
  /\ pc = "hi2"
  /\ \/ /\ Hi(now) > chi
        /\ chi' = Hi(now) /\ pc' = "lo2"
        /\ UNCHANGED <<ret, last, out, clo>>
     \/ /\ ~(Hi(now) > chi)
        /\ Return64(chi, clo)
  /\ UNCHANGED <<now, handle, start, sleep>>

ReadLo2 ==
  /\ pc = "lo2"
  /\ Return64(chi, Lo(now))
  /\ UNCHANGED <<now, handle, start, sleep>>

-----------------------------------------------------------------------------
(***************************************************************************)
(* bcm_usleep(): uint32_t arithmetic on the low half.                      *)
(***************************************************************************)

clock_usleep(u) ==
  /\ pc = "idle" /\ drv = "io"
  /\ usec' = u /\ out' = 0
  /\ pc' = "begin" /\ start' = now /\ last' = "none"
  /\ UNCHANGED <<now, handle, ret, chi, clo, ticks, stop, time>>

Begin ==
  /\ pc = "begin"
  /\ ticks' = Lo(now) /\ stop' = (Lo(now) + usec) % U32 /\ time' = 0
  /\ pc' = "test"
  /\ UNCHANGED <<now, handle, ret, last, start, read64, usec>>

\* The loop condition, and whether there is enough left to give up the CPU.
Test ==
  /\ pc = "test"
  /\ \/ /\ time >= usec
        /\ pc' = "idle" /\ ret' = "SUCCESS" /\ last' = "usleep"
        /\ ticks' = 0 /\ stop' = 0 /\ time' = 0
     \/ /\ time < usec
        /\ pc' = IF (stop - ticks) % U32 >= Threshold THEN "nap" ELSE "read"
        /\ UNCHANGED <<ret, last, ticks, stop, time>>
  /\ UNCHANGED <<now, handle, start, read64, usec>>

\* usleep() returns after any time: early when it fails, late when preempted.
Nap ==
  /\ pc = "nap"
  /\ pc' = "read"
  /\ UNCHANGED <<now, handle, ret, last, start, read64, sleep>>

Delta == (Lo(now) - ticks) % U32

\* mutant: the ticks are counted from the beginning of the wait every time
AddTicksStale ==
  /\ time' = IF time + Delta >= U32 THEN U32 - 1 ELSE time + Delta
  /\ UNCHANGED ticks

\* time saturates where the sum of two uint32_t overflows
AddTicks ==
  /\ time' = IF time + Delta >= U32 THEN U32 - 1 ELSE time + Delta
  /\ ticks' = (ticks + Delta) % U32

Read ==
  /\ pc = "read"
  /\ AddTicks
  /\ pc' = "test"
  /\ UNCHANGED <<now, handle, ret, last, start, read64, usec, stop>>

-----------------------------------------------------------------------------
\* On the other driver, or a closed handle, the calls are those of the system.
SystemClock ==
  /\ pc = "idle" /\ drv # "io"
  /\ ret' \in IF SysDriver THEN {"SUCCESS", "CLK_ERR"} ELSE {"NOT_SUPP"}
  /\ last' = "none" /\ out' = 0 /\ usec' = 0
  /\ UNCHANGED <<now, handle, pc, start, chi, clo, ticks, stop, time>>

\* The hardware: the counter runs.
Tick ==
  /\ now < MaxNow
  /\ now' = now + 1
  /\ UNCHANGED <<handle, pc, ret, last, start, read64, sleep>>

Next ==
  \/ \E d \in {"io", "sys"} : clock_set_driver(d)
  \/ clock_free
  \/ clock_get_ticks64 \/ ReadHi \/ ReadLo \/ ReadHi2 \/ ReadLo2
  \/ \E u \in Usecs : clock_usleep(u)
  \/ Begin \/ Test \/ Nap \/ Read
  \/ SystemClock \/ Tick

Spec == Init /\ [][Next]_vars

-----------------------------------------------------------------------------
(***************************************************************************)
(* Properties.                                                             *)
(***************************************************************************)

\* What clock_get_ticks64() returns is a value the counter had during the call,
\* however long the thread is held up between the reads of the two halves.
Ticks64InCall == last = "ticks64" => out \in start..now

\* "Sleep at least 'usec'" (clock.h 72): bcm_usleep() never returns early, also
\* when the low half wraps, or wraps unseen, during the wait.
SleepsEnough == last = "usleep" => now - start >= usec

\* The test that decides on giving up the CPU (stop - ticks) looks at exactly
\* what is left of the wait (usec - time), across the wrap of both differences.
LeftAgrees ==
  pc \in {"test", "nap", "read"} /\ time < usec =>
    (stop - ticks) % U32 = usec - time
=============================================================================
