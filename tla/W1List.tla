------------------------------- MODULE W1List -------------------------------
(***************************************************************************)
(* Enumeration in src/src/w1.c: list_w1_masters() and the slave searches   *)
(* (__search_slaves: search_w1_slaves, search_w1_alarms), with the         *)
(* callbacks that collect the ids (list_masts_cb, search_slavs_cb).        *)
(*                                                                         *)
(* Nothing in a reply says that it is the last one: kernels differ in      *)
(* whether a status closes the enumeration, so the callbacks ask for more  *)
(* messages as "optional" and the loop under them gives up 50 ms after the *)
(* last one.  The ids of the bus are their positions 1..pop here.          *)
(***************************************************************************)
EXTENDS Integers, Sequences, FiniteSets, SequencesExt

CONSTANTS
  MaxPop,   \* bound: masters in the system, or slaves on the bus
  Sizes     \* bound: capacities (max_sz) of the caller's list

ASSUME ListAssumption == MaxPop \in Nat /\ Sizes \subseteq Nat

VARIABLES
  op,       \* "list", or the search command: "search", "alarm"
  max_sz,   \* capacity of the caller's list
  sz,       \* p_masts->sz, p_slavs->sz: the number of ids the caller may read
  total,    \* *p_n_masts, *p_n_slavs; Unset before the call writes it
  pc,       \* "idle", or "call" inside the operation
  ret,      \* the result of the operation
  cb,       \* list_cb_dta_t: list, n_recv_elems, status, and more_stat
  rcvd,     \* n_rcv_msgs > 0
  chan,     \* replies sent and not yet received; a part of one is a run of n ids, from
            \* `first` on, under the header of command `cmd`
  pop,      \* the ids there are to enumerate
  sent,     \* how many of them the kernel has sent
  kpc,      \* the kernel: "idle", "work", "close" with the ids sent, "done"
  late      \* history: poll() gave up while the kernel was still at work

vars == <<op, max_sz, sz, total, pc, ret, cb, rcvd, chan, pop, sent, kpc, late>>

Unset == -1
Ops == {"list", "search", "alarm"}
NoneYet == [list |-> <<>>, n_recv |-> 0, status |-> "ok", more |-> "req"]

Init ==
  /\ op = "list"
  /\ max_sz \in Sizes
  /\ sz = 0 /\ total = Unset
  /\ pc = "idle" /\ ret = "SUCCESS"
  /\ cb = NoneYet /\ rcvd = FALSE
  /\ chan = <<>>
  /\ pop \in 0..MaxPop /\ sent = 0
  /\ kpc = "idle" /\ late = FALSE

-----------------------------------------------------------------------------
(***************************************************************************)
(* The callbacks.  s is a record of the list, n_recv_elems, status and     *)
(* more_stat; `stop` marks a jump to finish.                               *)
(***************************************************************************)

\* n_recv_elems counts every id; __COPY_LIST_ELEMS stores those that fit
TakeElems(s, p) ==
  LET fit == Min({p.n, max_sz - Len(s.list)})
  IN [s EXCEPT !.n_recv = @ + p.n,
               !.list = @ \o [i \in 1..fit |-> p.first + i - 1]]

Halt(s, status) == [s EXCEPT !.status = status, !.more = "no", !.stop = TRUE]

list_masts_cb(s, m) ==
  IF m.isStatus /\ m.err THEN Halt(s, "err")
  ELSE [FoldLeft(TakeElems, s, m.parts) EXCEPT !.more = IF m.isStatus THEN "no" ELSE "opt"]

TakeHeader(s, p) ==
  IF s.stop THEN s ELSE IF p.cmd # op THEN Halt(s, "nomsg") ELSE TakeElems(s, p)

\* mutant: the first message with slaves is taken for the last one
search_slavs_cbOnce(s, m) ==
  IF m.isStatus /\ m.err THEN Halt(s, "err")
  ELSE FoldLeft(TakeHeader, [s EXCEPT !.more = "no"], m.parts)

search_slavs_cb(s, m) ==
  IF m.isStatus /\ m.err THEN Halt(s, "err")
  ELSE FoldLeft(TakeHeader, [s EXCEPT !.more = IF m.isStatus THEN "no" ELSE "opt"], m.parts)

-----------------------------------------------------------------------------
(***************************************************************************)
(* The operations, with the loop of recv_w1msg() under them.               *)
(***************************************************************************)

\* Masters and slaves come and go between calls.
Call(o) ==
  /\ pc = "idle"
  /\ op' = o
  /\ sz' = 0 /\ total' = Unset
  /\ pop' \in 0..MaxPop /\ sent' = 0 /\ kpc' = "work"
  /\ cb' = NoneYet
  /\ pc' = "call" /\ late' = FALSE
  /\ UNCHANGED <<max_sz, ret, rcvd, chan>>

\* The call returns; replies still underway are of no use to a later call.
Return(r) ==
  /\ ret' = r
  /\ pc' = "idle"
  /\ rcvd' = FALSE
  /\ chan' = <<>> /\ kpc' = "idle"
  /\ UNCHANGED <<op, max_sz, cb, pop, sent>>

Receive ==
  /\ pc = "call" /\ chan # <<>>
  /\ rcvd' = TRUE
  /\ chan' = Tail(chan)
  /\ IF cb.more = "no" THEN UNCHANGED cb
     ELSE LET s == [list |-> cb.list, n_recv |-> cb.n_recv, status |-> cb.status,
                    more |-> cb.more, stop |-> FALSE]
              t == IF op = "list" THEN list_masts_cb(s, Head(chan))
                   ELSE search_slavs_cb(s, Head(chan))
          IN cb' = [list |-> t.list, n_recv |-> t.n_recv, status |-> t.status,
                    more |-> t.more]
  /\ UNCHANGED <<op, max_sz, sz, total, pc, ret, pop, sent, kpc, late>>

\* mutant: the status collected by the callback is not looked at
TimeoutBlind ==
  /\ pc = "call" /\ chan = <<>>
  /\ late' = (kpc # "done")
  /\ \/ /\ ~rcvd \/ cb.more = "req"
        /\ Return("NO_RESP")
        /\ UNCHANGED <<sz, total>>
     \/ /\ rcvd /\ cb.more # "req"
        /\ Return("SUCCESS")
        /\ total' = cb.n_recv
        /\ sz' = Len(cb.list)

\* poll() finds nothing for the time cb.more stands for.
Timeout ==
  /\ pc = "call" /\ chan = <<>>
  /\ late' = (kpc # "done")
  /\ \/ /\ ~rcvd \/ cb.more = "req"
        /\ Return("NO_RESP")
        /\ UNCHANGED <<sz, total>>
     \/ /\ rcvd /\ cb.more # "req" /\ cb.status # "ok"
        /\ Return("PROTO_ERR")
        /\ UNCHANGED <<sz, total>>
     \/ /\ rcvd /\ cb.more # "req" /\ cb.status = "ok"
        /\ Return("SUCCESS")
        /\ total' = cb.n_recv
        /\ sz' = Len(cb.list)

\* poll() or recv() fails, an NLMSG_ERROR comes, or a netlink message that is
\* neither NLMSG_DONE nor NLM_F_MULTI: recv_w1msg() gives up.
TransportFails ==
  /\ pc = "call"
  /\ \E r \in {"COMM_ERR", "PROTO_ERR", "BAD_MSG"} : Return(r)
  /\ UNCHANGED <<sz, total, late>>

-----------------------------------------------------------------------------
(***************************************************************************)
(* The kernel (external): at least one message with ids, more when they do *)
(* not fit one; then a status, or, on success, on many kernels none.       *)
(***************************************************************************)

KernelSends(m) ==
  /\ chan' = Append(chan, m)
  /\ UNCHANGED <<op, max_sz, sz, total, pc, ret, cb, rcvd, pop, late>>

\* the ids of a message, after one header or split between two
KernelPart ==
  /\ kpc = "work"
  /\ \E n \in (IF pop = sent THEN {0} ELSE 1..(pop - sent)) :
       /\ \E k \in 0..n :
            /\ op = "list" => k = 0
            /\ KernelSends([isStatus |-> FALSE, err |-> FALSE, parts |->
                 IF k = 0 THEN <<[cmd |-> op, first |-> sent + 1, n |-> n]>>
                 ELSE <<[cmd |-> op, first |-> sent + 1, n |-> k],
                        [cmd |-> op, first |-> sent + k + 1, n |-> n - k]>>])
       /\ sent' = sent + n
       /\ kpc' = IF sent + n = pop THEN "close" ELSE "work"

KernelStatus ==
  /\ \E err \in BOOLEAN :
       /\ kpc = "close" \/ (kpc = "work" /\ err)
       /\ KernelSends([isStatus |-> TRUE, err |-> err, parts |->
            IF op = "list" \/ sent = 0 THEN <<>>
            ELSE <<[cmd |-> op, first |-> 1, n |-> 0]>>])
  /\ kpc' = "done"
  /\ UNCHANGED sent

KernelSilent ==
  /\ kpc = "close"
  /\ kpc' = "done"
  /\ UNCHANGED <<op, max_sz, sz, total, pc, ret, cb, rcvd, chan, pop, sent, late>>

-----------------------------------------------------------------------------
Next ==
  \/ \E o \in Ops : Call(o)
  \/ Receive \/ Timeout \/ TransportFails
  \/ KernelPart \/ KernelStatus \/ KernelSilent

Spec == Init /\ [][Next]_vars

-----------------------------------------------------------------------------
(***************************************************************************)
(* Properties.                                                             *)
(***************************************************************************)

\* A failed call leaves an empty list and no total.  A successful one leaves the
\* first ids received, without gap or repetition however they were cut into
\* messages and headers, and fewer than the total only if no more fit.
ResultConsistent ==
  pc = "idle" =>
    IF total = Unset THEN sz = 0
    ELSE /\ ret = "SUCCESS" /\ cb.status = "ok"
         /\ sz = Min({total, max_sz})
         /\ cb.list = [i \in 1..sz |-> i]

\* A successful call reports the "overall number" of masters or slaves (w1.h
\* 170-173), and lists them all when they fit.
TotalExact ==
  pc = "idle" /\ total # Unset => total = pop /\ sz = Min({pop, max_sz})

\* So it does when poll() did not give up on a kernel that was still at work.
TotalExactInTime == ~late => TotalExact
=============================================================================
