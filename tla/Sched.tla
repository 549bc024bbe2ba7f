------------------------------- MODULE Sched --------------------------------
(***************************************************************************)
(* The real-time section of a probe (src/src/common.c: sched_rt_raise_max, *)
(* sched_restore) and the kernel's rule for the priorities of a scheduler. *)
(*                                                                         *)
(* sched_rt_raise_max() saves the scheduler and, as its priority, the nice *)
(* value (getpriority()).  sched_restore() takes success of                *)
(* sched_setscheduler() for an error and the other way round.              *)
(***************************************************************************)
EXTENDS Integers

CONSTANTS MaxPrio,  \* sched_get_priority_max(SCHED_RR)
          Starts    \* scheduling of the thread when the program starts

VARIABLES thr,      \* [sched, prio, nice] of the thread
          sched_h   \* sched_rt_t: [sched, prio], of the call in progress

schedVars == <<thr, sched_h>>

Schedulers == {"other", "fifo", "rr"}
Unsaved == "none"   \* sched = -1: nothing to restore

NoHandle == [sched |-> Unsaved, prio |-> 0]

\* sched_setscheduler() refuses other priorities
Valid(sched, prio) == IF sched = "other" THEN prio = 0 ELSE prio \in 1..MaxPrio

Raised == [thr EXCEPT !.sched = "rr", !.prio = MaxPrio]

\* may be refused: the process lacks the privilege
sched_rt_raise_max ==
  \/ /\ thr' = Raised
     /\ sched_h' = [sched |-> thr.sched, prio |-> thr.nice]
  \/ /\ sched_h' = [sched |-> Unsaved, prio |-> thr.nice]
     /\ UNCHANGED thr

\* sched_restore() with the handle h: the scheduling and the handle after it.
\* The handle stays marked as unrestored when sched_setscheduler() succeeds
\* and is marked as restored when it fails
Restored(h) ==
  LET mark == [h EXCEPT !.sched = Unsaved]
      refusable == ~Valid(h.sched, h.prio) \/ (thr.sched = "other" /\ h.sched # "other")
  IN  IF h.sched = Unsaved THEN {<<thr, h>>}
      ELSE (IF Valid(h.sched, h.prio)
            THEN {<<[thr EXCEPT !.sched = h.sched, !.prio = h.prio], h>>} ELSE {})
           \cup (IF refusable THEN {<<thr, mark>>} ELSE {})

sched_restore == \E r \in Restored(sched_h) : thr' = r[1] /\ sched_h' = r[2]

\* mutant: the way out does not restore
LastRestoreNot(h) == UNCHANGED thr /\ sched_h' = NoHandle

\* the last one of a probe, whose handle is gone with the call
LastRestore(h) == (\E r \in Restored(h) : thr' = r[1]) /\ sched_h' = NoHandle

\* what an uninitialised sched_rt_t may hold: any scheduler, one priority that
\* is valid for each
Wild == [sched : Schedulers \cup {Unsaved}, prio : {0, 1}]
=============================================================================
