------------------------------- MODULE W1Exec -------------------------------
(***************************************************************************)
(* w1 messages of src/src/w1.c: building one (w1_msg_init, the add_*_w1_cmd*)
(* family, w1_msg_flush_cmds) and executing it (w1_msg_exec), where the    *)
(* callback w1msg_exec_cb matches the kernel's replies to the commands of  *)
(* the message by their type alone, in order.                              *)
(*                                                                         *)
(* The transport is the one W1Netlink shows it to be: replies to this call *)
(* in the order the kernel sends them.  The kernel executes the commands   *)
(* in order; a read or touch is answered with its data, and every command  *)
(* with a status that repeats the command's header without data.           *)
(***************************************************************************)
EXTENDS Integers, Sequences, FiniteSets, SequencesExt

CONSTANTS
  MaxCmds,      \* capacity of the message (max_cmds)
  Lens,         \* bound: the data lengths commands are given
  MaxLen,       \* the longest message the netlink buffer takes, in bytes
  Configs,      \* values of CONFIG_WRITE_PULLUP the library is built with
  Adjacent      \* TRUE: users put two reads (or two touches) side by side

ASSUME ExecAssumption ==
  /\ MaxCmds \in Nat /\ MaxLen \in Nat /\ Lens \subseteq Nat
  /\ Configs \subseteq BOOLEAN /\ Adjacent \in BOOLEAN

VARIABLES
  WritePullup,  \* CONFIG_WRITE_PULLUP of this build
  type,     \* p_w1msg->type: "master" or "slave"
  cmds,     \* p_w1msg->cmds, its length is n_cmds
  data,     \* data[i]: whose reply fills the buffer of command i, 0 if nobody's
  pc,       \* "exec" inside w1_msg_exec(), "done" when it has returned and the
            \* message was not changed since, "idle" otherwise
  ret,      \* the result of the last operation on the message
  cb,       \* w1msg_exec_cb_dta_t: n_prc_cmds, cmd_msgs, status, and more_stat
  rcvd,     \* n_rcv_msgs > 0
  chan,     \* replies sent and not yet received
  kcmd,     \* the command the kernel executes, 0 when it is done
  ksent,    \* TRUE: the data of command kcmd was sent, its status is due
  failed,   \* history: commands (0: the message) with an error status
  late,     \* history: poll() gave up while the kernel was still at work
  broken    \* history: recv_w1msg() itself failed

vars == <<WritePullup, type, cmds, data, pc, ret, cb, rcvd, chan, kcmd, ksent, failed,
          late, broken>>

CmdTypes == {"read", "write", "touch", "bus_reset", "write_pullup"}
Cmd == [type : CmdTypes, len : Lens \cup {0}]

RespRequired(c) == c.type \in {"read", "touch"}     \* IS_RESP_REQUIRED

\* convert_cmd_type(): the netlink command of a command type, NoCmd for (uint8_t)-1
NoCmd == "none"
convert_cmd_type(t) == IF t = "write_pullup" /\ ~WritePullup THEN NoCmd ELSE t

\* the errors of recv_w1msg() besides a time-out: poll() or recv() failed, an
\* NLMSG_ERROR came, or a netlink message that is neither NLMSG_DONE nor NLM_F_MULTI
TransportErrors == {"COMM_ERR", "PROTO_ERR", "BAD_MSG"}

NoProgress == [n_prc |-> 0, cmd_msgs |-> 0, status |-> "ok", more |-> "req"]

\* one command header in a reply: netlink command, data length, whose data
Header == [cmd : CmdTypes \cup {NoCmd}, len : Lens \cup {0}, src : 1..MaxCmds]
Reply == [isStatus : BOOLEAN, err : BOOLEAN, cmds : Seq(Header)]

TypeOK ==
  /\ WritePullup \in Configs /\ late \in BOOLEAN /\ broken \in BOOLEAN
  /\ type \in {"master", "slave"}
  /\ cmds \in Seq(Cmd) /\ Len(cmds) <= MaxCmds
  /\ data \in [1..MaxCmds -> 0..MaxCmds]
  /\ pc \in {"idle", "exec", "done"}
  /\ ret \in {"SUCCESS", "INV_ARG", "NO_SPACE", "NOT_SUPP", "EMPTY", "MSG_SIZE",
              "NO_RESP"} \cup TransportErrors
  /\ cb \in [n_prc : 0..Len(cmds), cmd_msgs : 0..(2 * MaxCmds),
             status : {"ok", "err", "nomsg"}, more : {"no", "req", "opt"}]
  /\ rcvd \in BOOLEAN
  /\ chan \in Seq(Reply)
  /\ kcmd \in 0..Len(cmds)
  /\ ksent \in BOOLEAN
  /\ failed \subseteq 0..MaxCmds

Init ==
  /\ WritePullup \in Configs /\ late = FALSE /\ broken = FALSE
  /\ type \in {"master", "slave"}
  /\ cmds = <<>>
  /\ data = [i \in 1..MaxCmds |-> 0]
  /\ pc = "idle"
  /\ ret = "SUCCESS"
  /\ cb = NoProgress
  /\ rcvd = FALSE
  /\ chan = <<>>
  /\ kcmd = 0 /\ ksent = FALSE
  /\ failed = {}

-----------------------------------------------------------------------------
(***************************************************************************)
(* Building the message.                                                   *)
(***************************************************************************)

callVars == <<WritePullup, data, cb, rcvd, chan, kcmd, ksent, failed, late, broken>>

Edit == pc \in {"idle", "done"} /\ pc' = "idle"

w1_msg_init ==
  /\ Edit
  /\ type' \in {"master", "slave"}
  /\ cmds' = <<>>
  /\ UNCHANGED <<ret, callVars>>

w1_msg_flush_cmds ==
  /\ Edit
  /\ cmds' = <<>>
  /\ UNCHANGED <<type, ret, callVars>>

\* what users of this configuration put after the commands so far
Welcome(c) ==
  ~Adjacent /\ RespRequired(c) /\ cmds # <<>> => Last(cmds).type # c.type

\* mutant: the message takes one command more than it has room for
add_w1_cmdOneMore(t, len) ==
  /\ Edit
  /\ ~(t = "write_pullup" /\ ~WritePullup)
  /\ ~(t = "bus_reset" /\ type = "slave")
  /\ Len(cmds) <= MaxCmds
  /\ Welcome([type |-> t, len |-> len])
  /\ cmds' = Append(cmds, [type |-> t, len |-> len])
  /\ ret' = "SUCCESS"
  /\ UNCHANGED <<type, callVars>>

\* add_w1_cmd(), and add_write_pullup_w1_cmd() before it: the checks in order.
add_w1_cmd(t, len) ==
  /\ Edit
  /\ \/ /\ t = "write_pullup" /\ ~WritePullup
        /\ ret' = "NOT_SUPP" /\ UNCHANGED cmds
     \/ /\ t = "write_pullup" => WritePullup
        /\ t = "bus_reset" /\ type = "slave"
        /\ ret' = "INV_ARG" /\ UNCHANGED cmds
     \/ /\ t = "write_pullup" => WritePullup
        /\ ~(t = "bus_reset" /\ type = "slave")
        /\ Len(cmds) >= MaxCmds
        /\ ret' = "NO_SPACE" /\ UNCHANGED cmds
     \/ /\ t = "write_pullup" => WritePullup
        /\ ~(t = "bus_reset" /\ type = "slave")
        /\ Len(cmds) < MaxCmds
        /\ Welcome([type |-> t, len |-> len])
        /\ cmds' = Append(cmds, [type |-> t, len |-> len])
        /\ ret' = "SUCCESS"
  /\ UNCHANGED <<type, callVars>>

-----------------------------------------------------------------------------
(***************************************************************************)
(* w1msg_exec_cb(): what a reply does to the progress s of the execution,  *)
(* a record of n_prc_cmds, cmd_msgs, status, more_stat, and the buffers;   *)
(* `stop` marks a jump to finish.                                          *)
(***************************************************************************)

\* Command j may be passed over by a reply of another type: it needs no answer,
\* or it is the current command and was answered.
MayPass(s, j) ==
  ~RespRequired(cmds[j]) \/ (j = s.n_prc + 1 /\ s.cmd_msgs > 0)

\* The command header c is compared to: the first one of its type, or the first
\* one that still waits for its answer; one past the end when there is neither.
Target(s, c) ==
  Min({j \in (s.n_prc + 1)..Len(cmds) :
        convert_cmd_type(cmds[j].type) = c.cmd \/ ~MayPass(s, j)}
      \cup {Len(cmds) + 1})

Halt(s, status) == [s EXCEPT !.status = status, !.more = "no", !.stop = TRUE]

\* mutant: commands that were answered are not passed for good
TakeHeaderStays(s, c) ==
  LET j == Target(s, c)
      hit == [s EXCEPT !.cmd_msgs = @ + 1]
  IN CASE s.stop -> s
       [] ~s.stop /\ j > Len(cmds) -> Halt(s, s.status)
       [] ~s.stop /\ j <= Len(cmds) /\ convert_cmd_type(cmds[j].type) # c.cmd ->
            Halt(s, "nomsg")
       [] OTHER ->
            IF ~RespRequired(cmds[j]) \/ c.len = 0 THEN hit
            ELSE IF c.len # cmds[j].len THEN Halt(hit, "nomsg")
            ELSE [hit EXCEPT !.data[j] = c.src]

\* one header of a reply: the loop body of w1msg_exec_cb()
TakeHeader(s, c) ==
  LET j == Target(s, c)
      \* the state at the j-th command, the ones before it passed
      at == IF j = s.n_prc + 1 THEN s ELSE [s EXCEPT !.n_prc = j - 1, !.cmd_msgs = 0]
      hit == [at EXCEPT !.cmd_msgs = @ + 1]
  IN CASE s.stop -> s
       [] ~s.stop /\ j > Len(cmds) -> Halt(at, at.status)
       [] ~s.stop /\ j <= Len(cmds) /\ convert_cmd_type(cmds[j].type) # c.cmd ->
            Halt(at, "nomsg")
       [] OTHER ->
            IF ~RespRequired(cmds[j]) \/ c.len = 0 THEN hit
            ELSE IF c.len # cmds[j].len THEN Halt(hit, "nomsg")
            ELSE [hit EXCEPT !.data[j] = c.src]

\* mutant: the command after the current one is forgotten
MoreAfterLate(s) ==
  IF \E i \in (s.n_prc + 3)..Len(cmds) : RespRequired(cmds[i]) THEN "req" ELSE "opt"

\* More messages are required while a later command expects data.
MoreAfter(s) ==
  IF \E i \in (s.n_prc + 2)..Len(cmds) : RespRequired(cmds[i]) THEN "req" ELSE "opt"

\* mutant: an error status is taken for an answer
w1msg_exec_cbBlind(s, m) ==
  IF s.n_prc >= Len(cmds) THEN Halt(s, s.status)
  ELSE LET t == FoldLeft(TakeHeader, s, m.cmds)
       IN IF t.stop THEN t ELSE [t EXCEPT !.more = MoreAfter(t)]

w1msg_exec_cb(s, m) ==
  IF s.n_prc >= Len(cmds) THEN Halt(s, s.status)
  ELSE IF m.isStatus /\ m.err THEN Halt(s, "err")
  ELSE LET t == FoldLeft(TakeHeader, s, m.cmds)
       IN IF t.stop THEN t ELSE [t EXCEPT !.more = MoreAfter(t)]

-----------------------------------------------------------------------------
(***************************************************************************)
(* w1_msg_exec(), with the loop of recv_w1msg() under it.                  *)
(***************************************************************************)

\* netlink header of each command, its data, the pull-up time when it has one
MsgLen ==
  FoldLeft(LAMBDA n, c : n + 4 + c.len + (IF c.type = "write_pullup" THEN 2 ELSE 0),
           0, cmds)

w1_msg_exec ==
  /\ pc \in {"idle", "done"}
  /\ data' = [i \in 1..MaxCmds |-> 0]
  /\ failed' = {} /\ late' = FALSE /\ broken' = FALSE
  /\ \/ /\ cmds = <<>>
        /\ ret' = "EMPTY" /\ pc' = "idle"
        /\ UNCHANGED <<cb, rcvd, kcmd>>
     \/ /\ cmds # <<>> /\ MsgLen > MaxLen
        /\ ret' = "MSG_SIZE" /\ pc' = "idle"
        /\ UNCHANGED <<cb, rcvd, kcmd>>
     \/ /\ cmds # <<>> /\ MsgLen <= MaxLen
        /\ pc' = "exec"
        /\ cb' = NoProgress
        /\ rcvd' = FALSE
        /\ kcmd' = 1
        /\ UNCHANGED ret
  /\ UNCHANGED <<WritePullup, type, cmds, chan, ksent>>

\* The call returns; replies still underway are of no use to a later call.
Return(r) ==
  /\ ret' = r
  /\ pc' = "done"
  /\ chan' = <<>> /\ kcmd' = 0 /\ ksent' = FALSE
  /\ cb' = NoProgress /\ rcvd' = FALSE
  /\ UNCHANGED <<WritePullup, type, cmds, data, failed>>

Receive ==
  /\ pc = "exec" /\ chan # <<>>
  /\ rcvd' = TRUE
  /\ chan' = Tail(chan)
  /\ IF cb.more = "no" THEN UNCHANGED <<cb, data>>
     ELSE LET s == [n_prc |-> cb.n_prc, cmd_msgs |-> cb.cmd_msgs, status |-> cb.status,
                    more |-> cb.more, data |-> data, stop |-> FALSE]
              t == w1msg_exec_cb(s, Head(chan))
          IN /\ cb' = [n_prc |-> t.n_prc, cmd_msgs |-> t.cmd_msgs,
                       status |-> t.status, more |-> t.more]
             /\ data' = t.data
  /\ UNCHANGED <<WritePullup, type, cmds, pc, ret, kcmd, ksent, failed, late, broken>>

\* poll() finds nothing for the time cb.more stands for.
Timeout ==
  /\ pc = "exec" /\ chan = <<>>
  /\ late' = (kcmd # 0)
  /\ Return(IF ~rcvd \/ cb.more = "req" THEN "NO_RESP"
            ELSE IF cb.status # "ok" THEN "PROTO_ERR" ELSE "SUCCESS")
  /\ UNCHANGED broken

\* The loop gives up on an error of its own, whatever the commands did.
TransportFails ==
  /\ pc = "exec"
  /\ \E r \in TransportErrors : Return(r)
  /\ broken' = TRUE
  /\ UNCHANGED late

-----------------------------------------------------------------------------
(***************************************************************************)
(* The kernel (external).                                                  *)
(***************************************************************************)

\* The addressed master or slave is gone: one status for the whole message.
KernelRefuses ==
  /\ kcmd = 1 /\ ~ksent
  /\ chan' = Append(chan, [isStatus |-> TRUE, err |-> TRUE, cmds |-> <<>>])
  /\ kcmd' = 0
  /\ failed' = failed \cup {0}
  /\ UNCHANGED <<WritePullup, type, cmds, data, pc, ret, cb, rcvd, ksent, late, broken>>

KernelData ==
  /\ kcmd # 0 /\ ~ksent /\ RespRequired(cmds[kcmd])
  /\ chan' = Append(chan, [isStatus |-> FALSE, err |-> FALSE, cmds |->
       <<[cmd |-> convert_cmd_type(cmds[kcmd].type), len |-> cmds[kcmd].len, src |-> kcmd]>>])
  /\ ksent' = TRUE
  /\ UNCHANGED <<WritePullup, type, cmds, data, pc, ret, cb, rcvd, kcmd, failed, late, broken>>

\* The status of the current command, an error when it produced no data.
KernelStatus ==
  /\ kcmd # 0
  /\ \E err \in BOOLEAN :
       /\ RespRequired(cmds[kcmd]) => err = ~ksent
       /\ chan' = Append(chan, [isStatus |-> TRUE, err |-> err, cmds |->
            <<[cmd |-> convert_cmd_type(cmds[kcmd].type), len |-> 0, src |-> kcmd]>>])
       /\ failed' = IF err THEN failed \cup {kcmd} ELSE failed
  /\ ksent' = FALSE
  /\ kcmd' = IF kcmd = Len(cmds) THEN 0 ELSE kcmd + 1
  /\ UNCHANGED <<WritePullup, type, cmds, data, pc, ret, cb, rcvd, late, broken>>

-----------------------------------------------------------------------------
Kernel == KernelRefuses \/ KernelData \/ KernelStatus

Build ==
  \/ w1_msg_init \/ w1_msg_flush_cmds
  \/ \E t \in CmdTypes : \E len \in (IF t = "bus_reset" THEN {0} ELSE Lens) :
       add_w1_cmd(t, len)

Next == Build \/ w1_msg_exec \/ Receive \/ Timeout \/ TransportFails \/ Kernel

Spec == Init /\ [][Next]_vars

-----------------------------------------------------------------------------
(***************************************************************************)
(* Properties.                                                             *)
(***************************************************************************)

\* A buffer only ever receives the data of its own command, although replies
\* carry no command number and statuses arrive in between (w1msg_exec_cb).
DataInPlace == \A i \in 1..MaxCmds : data[i] \in {0, i}

\* LREC_SUCCESS means that every read and touch of the message has its data
\* (w1.h 119-126), however late or early the replies came (w1.c 617-622).
SuccessMeansFilled ==
  pc = "done" /\ ret = "SUCCESS" =>
    \A i \in 1..Len(cmds) : RespRequired(cmds[i]) /\ cmds[i].len > 0 => data[i] = i

\* Unless poll() gave up on a kernel that was still at work, w1_msg_exec() returns
\* LREC_SUCCESS exactly when the transport held and no command failed, nor the
\* message as a whole; and when the transport held, a failure is LREC_PROTO_ERR.
OutcomeReported ==
  pc = "done" /\ ~late =>
    /\ ret = "SUCCESS" <=> failed = {} /\ ~broken
    /\ ~broken => ret \in {"SUCCESS", "PROTO_ERR"}
=============================================================================
