---------------------------- MODULE W1ExecProofs ----------------------------
(***************************************************************************)
(* What W1Exec promises, for every capacity of the message, every length   *)
(* of its data and every limit of the netlink buffer, to users who put no  *)
(* two reads (and no two touches) side by side.                            *)
(*                                                                         *)
(* Replies carry no command number, so the proof gives them one: every     *)
(* reply the kernel can send stands between two positions of the           *)
(* execution, 2k before command k was answered and 2k + 1 after its data   *)
(* was sent.  The replies underway form a chain from the position the      *)
(* callback has reached to the one of the kernel, and the callback's two   *)
(* counters say how far that position is from the command it points at.    *)
(***************************************************************************)
EXTENDS W1Exec, SequenceTheorems, TLAPS

-----------------------------------------------------------------------------
(***************************************************************************)
(* Replies and positions.                                                  *)
(***************************************************************************)

Refusal == [isStatus |-> TRUE, err |-> TRUE, cmds |-> <<>>]

HeaderOf(k, len) == [cmd |-> convert_cmd_type(cmds[k].type), len |-> len, src |-> k]
DataOf(k) == [isStatus |-> FALSE, err |-> FALSE, cmds |-> <<HeaderOf(k, cmds[k].len)>>]
StatusOf(k, e) == [isStatus |-> TRUE, err |-> e, cmds |-> <<HeaderOf(k, 0)>>]

Src(m) == m.cmds[1].src

\* the position before a reply, and the one after it
Before(m) ==
  IF m.isStatus = TRUE /\ m.err = FALSE /\ RespRequired(cmds[Src(m)])
  THEN 2 * Src(m) + 1 ELSE 2 * Src(m)
After(m) == IF m.isStatus = TRUE THEN 2 * Src(m) + 2 ELSE 2 * Src(m) + 1

\* a reply the kernel sends while it executes the message
MayCome(m) ==
  \E k \in 1..Len(cmds) :
    \/ RespRequired(cmds[k]) /\ m = DataOf(k)
    \/ \E e \in BOOLEAN : m = StatusOf(k, e)

\* the position of the kernel, and the one before the i-th reply underway
KPos == IF kcmd = 0 THEN 2 * Len(cmds) + 2
        ELSE IF ksent = TRUE THEN 2 * kcmd + 1 ELSE 2 * kcmd
At(i) == IF i \in 1..Len(chan) THEN Before(chan[i]) ELSE KPos

-----------------------------------------------------------------------------
(***************************************************************************)
(* The inductive invariant.                                                *)
(***************************************************************************)

\* The message: what add_w1_cmd() lets in.
CmdsOk ==
  /\ ~WritePullup => \A i \in 1..Len(cmds) : cmds[i].type # "write_pullup"
  /\ \A i \in 1..Len(cmds) : \A j \in 1..Len(cmds) :
       j = i + 1 /\ RespRequired(cmds[j]) => cmds[i].type # cmds[j].type

\* Outside a call nothing is underway.
Rest ==
  /\ kcmd = 0 /\ ksent = FALSE /\ rcvd = FALSE
  /\ chan = <<>> /\ cb = NoProgress

\* The kernel found no such master or slave.
Refused ==
  /\ kcmd = 0 /\ ksent = FALSE /\ rcvd = FALSE
  /\ chan = <<Refusal>> /\ cb = NoProgress

\* The replies underway lead from one position to the next, up to the kernel's.
ChanOk ==
  /\ \A i \in 1..Len(chan) : MayCome(chan[i]) /\ After(chan[i]) = At(i + 1)
  /\ ksent = TRUE => kcmd # 0 /\ RespRequired(cmds[kcmd])
  /\ rcvd = TRUE <=> At(1) > 2

\* The progress of the callback when it reached the position of command k,
\* with d = 1 when the command's data has come: it points at k, or at the first
\* of a run of commands of one type that ends just before k.
CbAt(k, d) ==
  /\ cb.status = "ok"
  /\ cb.n_prc + 1 <= k
  /\ d = 1 => cb.n_prc + 1 = k
  /\ k > 1 \/ d = 1 => cb.cmd_msgs > 0
  /\ cb.n_prc + 1 = k /\ d = 0 => k = 1
  /\ cb.cmd_msgs <= 2 * (k - 1) + d
  /\ \A j \in 1..Len(cmds) :
       cb.n_prc + 1 <= j /\ j < k => cmds[j].type = cmds[cb.n_prc + 1].type
  /\ \A j \in 1..Len(cmds) :
       (j < k \/ (j = k /\ d = 1)) /\ RespRequired(cmds[j]) /\ cmds[j].len > 0 => data[j] = j
  /\ cb.more = IF rcvd = TRUE THEN MoreAfter(cb) ELSE "req"
  /\ rcvd = FALSE => cb = NoProgress

CbOk ==
  /\ cb.more = "no" => rcvd = TRUE /\ cb.status = "err"
  /\ cb.more # "no" =>
       \A k \in 1..(Len(cmds) + 1) : \A d \in 0..1 : At(1) = 2 * k + d => CbAt(k, d)

\* A failure is on its way to the callback, or the callback has seen it.
FailedOk ==
  failed # {} <=> cb.more = "no" \/ \E i \in 1..Len(chan) : chan[i].err = TRUE

ExecOk ==
  /\ pc # "exec" => Rest
  /\ pc = "exec" => broken = FALSE /\ cmds # <<>> /\ FailedOk /\ (Refused \/ (ChanOk /\ CbOk))

ExecInv ==
  /\ TypeOK /\ CmdsOk /\ DataInPlace /\ ExecOk
  /\ SuccessMeansFilled /\ OutcomeReported

-----------------------------------------------------------------------------
(***************************************************************************)
(* Lemmas about the operators of the callback.                             *)
(***************************************************************************)

\* The smallest member of a set, where it is known.
LEMMA MinIs ==
  ASSUME NEW S \in SUBSET Int, NEW m \in S, \A x \in S : m <= x
  PROVE  Min(S) = m
<1> DEFINE P(x) == x \in S /\ \A y \in S : x =< y
<1>1. P(m)
  OBVIOUS
<1>2. P(CHOOSE x : P(x))
  BY <1>1
<1>3. (CHOOSE x : P(x)) = m
  <2>1. \A a : P(a) => a <= m /\ m <= a /\ a \in Int
    OBVIOUS
  <2> HIDE DEF P
  <2> QED
    BY <1>2, <2>1
<1> QED
  BY <1>3 DEF Min

\* A reply has one header: folding over it is one step of the callback's loop.
LEMMA OneHeader ==
  ASSUME NEW s, NEW h
  PROVE  FoldLeft(TakeHeader, s, <<h>>) = TakeHeader(s, h)
<1> DEFINE D == DOMAIN <<h>>
           F(g) == g = [t \in SUBSET D |->
                          IF t = {} THEN s
                          ELSE TakeHeader(g[t \ {Max(t)}], <<h>>[Max(t)])]
           it == CHOOSE g : F(g)
           w == [t \in SUBSET {1} |-> IF t = {} THEN s ELSE TakeHeader(s, h)]
<1>1. FoldLeft(TakeHeader, s, <<h>>) = it[D]
  BY Zenon DEF FoldLeft, MapThenFoldSet
<1>2. D = {1}
  OBVIOUS
<1>3. Max({1}) = 1
  BY DEF Max
<1>4. F(w)
  <2>1. ASSUME NEW t \in SUBSET {1}, t # {}
        PROVE  TakeHeader(s, h) = TakeHeader(w[t \ {Max(t)}], <<h>>[Max(t)])
    <3>1. t = {1} /\ t \ {Max(t)} = {}
      BY <2>1, <1>3
    <3>2. w[{}] = s
      OBVIOUS
    <3> QED
      BY <3>1, <3>2, <1>3
  <2>2. w = [t \in SUBSET {1} |-> IF t = {} THEN s
                                  ELSE TakeHeader(w[t \ {Max(t)}], <<h>>[Max(t)])]
    BY <2>1
  <2> QED
    BY <2>2, <1>2
<1>5. it = [t \in SUBSET {1} |-> IF t = {} THEN s
                                 ELSE TakeHeader(it[t \ {Max(t)}], <<h>>[Max(t)])]
  BY <1>2, <1>4
<1> HIDE DEF it
<1>6. it[{}] = s
  BY <1>5
<1>7. it[{1}] = TakeHeader(it[{}], h)
  <2>1. {1} # {} /\ {1} \in SUBSET {1} /\ {1} \ {Max({1})} = {}
    BY <1>3
  <2>2. it[{1}] = TakeHeader(it[{1} \ {Max({1})}], <<h>>[Max({1})])
    BY <1>5, <2>1
  <2> QED
    BY <2>1, <2>2, <1>3
<1> QED
  BY <1>1, <1>2, <1>6, <1>7

\* The first command of the header's type, when every one before it may be passed.
LEMMA TargetIs ==
  ASSUME NEW s, s.n_prc \in Nat, NEW h, cmds \in Seq(Cmd),
         NEW j \in (s.n_prc + 1)..Len(cmds),
         convert_cmd_type(cmds[j].type) = h.cmd,
         \A i \in (s.n_prc + 1)..Len(cmds) :
           i < j => convert_cmd_type(cmds[i].type) # h.cmd /\ MayPass(s, i)
  PROVE  Target(s, h) = j
<1> DEFINE S == {i \in (s.n_prc + 1)..Len(cmds) :
                   convert_cmd_type(cmds[i].type) = h.cmd \/ ~MayPass(s, i)}
                \cup {Len(cmds) + 1}
<1>1. Len(cmds) \in Nat
  BY LenProperties
<1>2. S \in SUBSET Int /\ j \in S
  BY <1>1
<1>3. \A i \in S : j <= i
  BY <1>1
<1> HIDE DEF S
<1>4. Min(S) = j
  BY <1>2, <1>3, MinIs
<1> QED
  BY <1>4 DEF Target, S

Progress == [n_prc : Nat, cmd_msgs : Nat, status : {"ok", "err", "nomsg"},
             more : {"no", "req", "opt"}, data : [1..MaxCmds -> 0..MaxCmds],
             stop : {FALSE}]

\* A header that finds its command: the callback points at it and counts it, and
\* the data of a command that expects some goes to that command's buffer.
LEMMA Taken ==
  ASSUME NEW s \in Progress, NEW h, Len(cmds) \in Nat,
         NEW j \in 1..Len(cmds), Target(s, h) = j,
         convert_cmd_type(cmds[j].type) = h.cmd,
         h.len # 0 => h.len = cmds[j].len
  PROVE  TakeHeader(s, h) =
           [n_prc |-> j - 1,
            cmd_msgs |-> IF j = s.n_prc + 1 THEN s.cmd_msgs + 1 ELSE 1,
            status |-> s.status, more |-> s.more,
            data |-> IF RespRequired(cmds[j]) /\ h.len # 0
                     THEN [s.data EXCEPT ![j] = h.src] ELSE s.data,
            stop |-> FALSE]
<1> DEFINE at == IF j = s.n_prc + 1 THEN s ELSE [s EXCEPT !.n_prc = j - 1, !.cmd_msgs = 0]
           hit == [at EXCEPT !.cmd_msgs = @ + 1]
           new == IF ~RespRequired(cmds[j]) \/ h.len = 0 THEN hit
                  ELSE IF h.len # cmds[j].len THEN Halt(hit, "nomsg")
                  ELSE [hit EXCEPT !.data[j] = h.src]
<1>1. TakeHeader(s, h) = new
  <2>1. s.stop = FALSE
    BY DEF Progress
  <2>2. ~(j > Len(cmds))
    OBVIOUS
  <2> HIDE DEF new
  <2> QED
    BY <2>1, <2>2, Zenon DEF TakeHeader, new
<1> DEFINE n == IF j = s.n_prc + 1 THEN s.cmd_msgs + 1 ELSE 1
<1>0. s.n_prc \in Nat /\ s.cmd_msgs \in Nat /\ s.stop = FALSE
  BY DEF Progress
<1>2. hit = [n_prc |-> j - 1, cmd_msgs |-> n, status |-> s.status, more |-> s.more,
             data |-> s.data, stop |-> FALSE]
  <2>1. CASE j = s.n_prc + 1
    <3>1. s.n_prc = j - 1
      BY <1>0, <2>1
    <3>2. hit = [s EXCEPT !.cmd_msgs = @ + 1] /\ n = s.cmd_msgs + 1
      BY <2>1
    <3>3. [s EXCEPT !.cmd_msgs = @ + 1] =
            [n_prc |-> s.n_prc, cmd_msgs |-> s.cmd_msgs + 1, status |-> s.status,
             more |-> s.more, data |-> s.data, stop |-> s.stop]
      BY DEF Progress
    <3> HIDE DEF n, hit
    <3> QED
      BY <1>0, <3>1, <3>2, <3>3
  <2>2. CASE j # s.n_prc + 1
    <3>1. at = [s EXCEPT !.n_prc = j - 1, !.cmd_msgs = 0]
      BY <2>2
    <3>2. at = [n_prc |-> j - 1, cmd_msgs |-> 0, status |-> s.status, more |-> s.more,
                data |-> s.data, stop |-> FALSE]
      BY <3>1 DEF Progress
    <3>3. hit = [at EXCEPT !.cmd_msgs = @ + 1] /\ n = 0 + 1
      BY <2>2
    <3> HIDE DEF at, n, hit
    <3>4. at \in Progress /\ at.n_prc = j - 1 /\ at.cmd_msgs = 0 /\ at.status = s.status
          /\ at.more = s.more /\ at.data = s.data /\ at.stop = FALSE
      BY <3>2 DEF Progress
    <3>5. [at EXCEPT !.cmd_msgs = @ + 1] =
            [n_prc |-> at.n_prc, cmd_msgs |-> at.cmd_msgs + 1, status |-> at.status,
             more |-> at.more, data |-> at.data, stop |-> at.stop]
      BY <3>4 DEF Progress
    <3> QED
      BY <3>3, <3>4, <3>5
  <2> QED
    BY <2>1, <2>2
<1> HIDE DEF n, hit
<1>3. CASE RespRequired(cmds[j]) /\ h.len # 0
  <2>1. new = [hit EXCEPT !.data[j] = h.src]
    BY <1>3
  <2>2. [hit EXCEPT !.data[j] = h.src] =
           [n_prc |-> j - 1, cmd_msgs |-> n, status |-> s.status, more |-> s.more,
            data |-> [s.data EXCEPT ![j] = h.src], stop |-> FALSE]
    <3>1. hit \in Progress /\ hit.n_prc = j - 1 /\ hit.cmd_msgs = n
          /\ hit.status = s.status /\ hit.more = s.more /\ hit.data = s.data
          /\ hit.stop = FALSE
      <4>1. n \in Nat
        BY <1>0 DEF n
      <4> QED
        BY <1>2, <4>1 DEF Progress
    <3>2. [hit EXCEPT !.data[j] = h.src] =
            [n_prc |-> hit.n_prc, cmd_msgs |-> hit.cmd_msgs, status |-> hit.status,
             more |-> hit.more, data |-> [hit.data EXCEPT ![j] = h.src],
             stop |-> hit.stop]
      BY <3>1 DEF Progress
    <3> QED
      BY <3>1, <3>2
  <2> QED
    BY <1>1, <1>3, <2>1, <2>2 DEF n
<1>4. CASE ~(RespRequired(cmds[j]) /\ h.len # 0)
  <2>1. new = hit
    BY <1>4
  <2> QED
    BY <1>1, <1>2, <1>4, <2>1 DEF n
<1> QED
  BY <1>3, <1>4

\* A reply of the kernel: its command, its header and the positions it joins.
LEMMA Message ==
  ASSUME NEW m, MayCome(m)
  PROVE  \E k \in 1..Len(cmds) : \E h :
           /\ m.cmds = <<h>> /\ h.src = k /\ h.cmd = convert_cmd_type(cmds[k].type)
           /\ \/ /\ m.isStatus = FALSE /\ m.err = FALSE /\ RespRequired(cmds[k])
                 /\ h.len = cmds[k].len /\ Before(m) = 2 * k /\ After(m) = 2 * k + 1
              \/ /\ m.isStatus = TRUE /\ m.err = FALSE /\ ~RespRequired(cmds[k])
                 /\ h.len = 0 /\ Before(m) = 2 * k /\ After(m) = 2 * k + 2
              \/ /\ m.isStatus = TRUE /\ m.err = FALSE /\ RespRequired(cmds[k])
                 /\ h.len = 0 /\ Before(m) = 2 * k + 1 /\ After(m) = 2 * k + 2
              \/ /\ m.isStatus = TRUE /\ m.err = TRUE
                 /\ h.len = 0 /\ Before(m) = 2 * k /\ After(m) = 2 * k + 2
<1>1. PICK k \in 1..Len(cmds) :
        \/ RespRequired(cmds[k]) /\ m = DataOf(k)
        \/ \E e \in BOOLEAN : m = StatusOf(k, e)
  BY DEF MayCome
<1>2. CASE RespRequired(cmds[k]) /\ m = DataOf(k)
  <2> DEFINE h == HeaderOf(k, cmds[k].len)
  <2>1. m.cmds = <<h>> /\ m.isStatus = FALSE /\ m.err = FALSE
    BY <1>2 DEF DataOf
  <2>2. h.src = k /\ h.cmd = convert_cmd_type(cmds[k].type) /\ h.len = cmds[k].len
    BY DEF HeaderOf
  <2> HIDE DEF h
  <2>3. Src(m) = k
    BY <2>1, <2>2 DEF Src
  <2>4. Before(m) = 2 * k /\ After(m) = 2 * k + 1
    BY <2>1, <2>3 DEF Before, After
  <2> QED
    BY <1>2, <2>1, <2>2, <2>4
<1>3. CASE \E e \in BOOLEAN : m = StatusOf(k, e)
  <2>1. PICK e \in BOOLEAN : m = StatusOf(k, e)
    BY <1>3
  <2> DEFINE h == HeaderOf(k, 0)
  <2>2. m.cmds = <<h>> /\ m.isStatus = TRUE /\ m.err = e
    BY <2>1 DEF StatusOf
  <2>3. h.src = k /\ h.cmd = convert_cmd_type(cmds[k].type) /\ h.len = 0
    BY DEF HeaderOf
  <2> HIDE DEF h
  <2>4. Src(m) = k
    BY <2>2, <2>3 DEF Src
  <2>5. After(m) = 2 * k + 2
    BY <2>2, <2>4 DEF After
  <2>6. CASE e = TRUE
    <3>1. Before(m) = 2 * k
      BY <2>2, <2>4, <2>6 DEF Before
    <3> QED
      BY <2>2, <2>3, <2>5, <2>6, <3>1
  <2>7. CASE e = FALSE /\ RespRequired(cmds[k])
    <3>1. Before(m) = 2 * k + 1
      BY <2>2, <2>4, <2>7 DEF Before
    <3> QED
      BY <2>2, <2>3, <2>5, <2>7, <3>1
  <2>8. CASE e = FALSE /\ ~RespRequired(cmds[k])
    <3>1. Before(m) = 2 * k
      BY <2>2, <2>4, <2>8 DEF Before
    <3> QED
      BY <2>2, <2>3, <2>5, <2>8, <3>1
  <2> QED
    BY <2>6, <2>7, <2>8
<1> QED
  BY <1>1, <1>2, <1>3

-----------------------------------------------------------------------------
(***************************************************************************)
(* Building the message and starting the call.                             *)
(***************************************************************************)

LEMMA BuildShape ==
  ASSUME TypeOK, ~Adjacent, Build
  PROVE  /\ pc # "exec" /\ pc' = "idle" /\ UNCHANGED callVars
         /\ type' \in {"master", "slave"}
         /\ ret' \in {ret, "NOT_SUPP", "INV_ARG", "NO_SPACE", "SUCCESS"}
         /\ \/ cmds' = <<>>
            \/ cmds' = cmds
            \/ \E c \in Cmd : /\ cmds' = Append(cmds, c) /\ Len(cmds) < MaxCmds
                              /\ c.type = "write_pullup" => WritePullup
                              /\ RespRequired(c) /\ cmds # <<>> => Last(cmds).type # c.type
<1>1. CASE w1_msg_init
  BY <1>1 DEF w1_msg_init, Edit
<1>2. CASE w1_msg_flush_cmds
  BY <1>2 DEF w1_msg_flush_cmds, Edit, TypeOK
<1>3. ASSUME NEW t \in CmdTypes, NEW len \in Lens \cup {0}, add_w1_cmd(t, len)
      PROVE  /\ pc # "exec" /\ pc' = "idle" /\ UNCHANGED callVars
             /\ type' \in {"master", "slave"}
             /\ ret' \in {ret, "NOT_SUPP", "INV_ARG", "NO_SPACE", "SUCCESS"}
             /\ \/ cmds' = cmds
                \/ \E c \in Cmd :
                     /\ cmds' = Append(cmds, c) /\ Len(cmds) < MaxCmds
                     /\ c.type = "write_pullup" => WritePullup
                     /\ RespRequired(c) /\ cmds # <<>> => Last(cmds).type # c.type
  <2>1. pc # "exec" /\ pc' = "idle" /\ UNCHANGED callVars /\ type' = type
    BY <1>3 DEF add_w1_cmd, Edit
  <2>2. type' \in {"master", "slave"}
    BY <2>1 DEF TypeOK
  <2>3. CASE cmds' = cmds /\ ret' \in {"NOT_SUPP", "INV_ARG", "NO_SPACE"}
    BY <2>1, <2>2, <2>3
  <2>4. CASE /\ t = "write_pullup" => WritePullup
             /\ Len(cmds) < MaxCmds
             /\ Welcome([type |-> t, len |-> len])
             /\ cmds' = Append(cmds, [type |-> t, len |-> len])
             /\ ret' = "SUCCESS"
    <3> DEFINE c == [type |-> t, len |-> len]
    <3>1. c \in Cmd /\ c.type = t
      BY DEF Cmd
    <3>2. RespRequired(c) /\ cmds # <<>> => Last(cmds).type # c.type
      BY <2>4 DEF Welcome
    <3> HIDE DEF c
    <3>3. cmds' = Append(cmds, c)
      BY <2>4 DEF c
    <3> QED
      BY <2>1, <2>2, <2>4, <3>1, <3>2, <3>3
  <2> QED
    BY <1>3, <2>3, <2>4 DEF add_w1_cmd
<1> QED
  BY <1>1, <1>2, <1>3 DEF Build

LEMMA BuildStep ==
  ASSUME ExecInv, ~Adjacent, Build
  PROVE  ExecInv'
<1> USE DEF ExecInv
<1>1. /\ pc # "exec" /\ pc' = "idle"
      /\ UNCHANGED <<WritePullup, data, cb, rcvd, chan, kcmd, ksent, failed, late, broken>>
      /\ type' \in {"master", "slave"}
      /\ ret' \in {ret, "NOT_SUPP", "INV_ARG", "NO_SPACE", "SUCCESS"}
  BY BuildShape DEF callVars
<1>2. cmds' \in Seq(Cmd) /\ Len(cmds') <= MaxCmds /\ CmdsOk'
  <2>0. cmds \in Seq(Cmd) /\ Len(cmds) \in Nat /\ Len(cmds) <= MaxCmds
    BY LenProperties DEF TypeOK
  <2>1. CASE cmds' = <<>>
    <3>1. cmds' \in Seq(Cmd) /\ Len(cmds') = 0 /\ 1..Len(cmds') = {}
      BY <2>1
    <3> QED
      BY <3>1, ExecAssumption DEF CmdsOk
  <2>2. CASE cmds' = cmds
    BY <1>1, <2>0, <2>2 DEF CmdsOk
  <2>3. ASSUME NEW c \in Cmd, cmds' = Append(cmds, c), Len(cmds) < MaxCmds,
               c.type = "write_pullup" => WritePullup,
               RespRequired(c) /\ cmds # <<>> => Last(cmds).type # c.type
        PROVE  cmds' \in Seq(Cmd) /\ Len(cmds') <= MaxCmds /\ CmdsOk'
    <3>1. /\ cmds' \in Seq(Cmd) /\ Len(cmds') = Len(cmds) + 1
          /\ \A i \in 1..Len(cmds) : cmds'[i] = cmds[i]
          /\ cmds'[Len(cmds) + 1] = c
      BY <2>0, <2>3, AppendProperties
    <3>2. ~WritePullup' => \A i \in 1..Len(cmds') : cmds'[i].type # "write_pullup"
      BY <1>1, <2>0, <2>3, <3>1 DEF CmdsOk
    <3>3. ASSUME NEW i \in 1..Len(cmds'), NEW j \in 1..Len(cmds'), j = i + 1,
                 RespRequired(cmds'[j])
          PROVE  cmds'[i].type # cmds'[j].type
      <4>1. CASE j <= Len(cmds)
        <5>1. cmds'[i] = cmds[i] /\ cmds'[j] = cmds[j] /\ i \in 1..Len(cmds)
              /\ j \in 1..Len(cmds)
          BY <2>0, <3>1, <3>3, <4>1
        <5> QED
          BY <3>3, <5>1 DEF CmdsOk
      <4>2. CASE j = Len(cmds) + 1
        <5>1. i = Len(cmds) /\ cmds'[i] = Last(cmds) /\ cmds'[j] = c /\ cmds # <<>>
          BY <2>0, <3>1, <3>3, <4>2 DEF Last
        <5> QED
          BY <2>3, <3>3, <5>1
      <4> QED
        BY <2>0, <3>1, <3>3, <4>1, <4>2
    <3> QED
      <4>1. Len(cmds') <= MaxCmds
        BY <2>0, <2>3, <3>1, ExecAssumption
      <4>2. CmdsOk'
        BY <3>2, <3>3 DEF CmdsOk, RespRequired
      <4> QED
        BY <3>1, <4>1, <4>2
  <2> QED
    BY <2>1, <2>2, <2>3, BuildShape
<1>3. Rest
  BY <1>1 DEF ExecOk
<1>4. TypeOK'
  <2>1. cb' \in [n_prc : 0..Len(cmds'), cmd_msgs : 0..(2 * MaxCmds),
                 status : {"ok", "err", "nomsg"}, more : {"no", "req", "opt"}]
    <3>1. Len(cmds') \in Nat /\ MaxCmds \in Nat
      BY <1>2, LenProperties, ExecAssumption
    <3> QED
      BY <1>1, <1>3, <3>1 DEF Rest, NoProgress
  <2>2. kcmd' \in 0..Len(cmds')
    BY <1>1, <1>2, <1>3, LenProperties DEF Rest
  <2>3. ret' \in {"SUCCESS", "INV_ARG", "NO_SPACE", "NOT_SUPP", "EMPTY", "MSG_SIZE",
                  "NO_RESP"} \cup TransportErrors
    BY <1>1 DEF TypeOK
  <2> QED
    BY <1>1, <1>2, <2>1, <2>2, <2>3 DEF TypeOK
<1>5. DataInPlace'
  BY <1>1 DEF DataInPlace
<1>6. ExecOk'
  BY <1>1, <1>3 DEF ExecOk, Rest
<1>7. SuccessMeansFilled' /\ OutcomeReported'
  BY <1>1 DEF SuccessMeansFilled, OutcomeReported
<1> QED
  BY <1>2, <1>4, <1>5, <1>6, <1>7

LEMMA StartStep ==
  ASSUME ExecInv, w1_msg_exec
  PROVE  ExecInv'
<1> USE DEF ExecInv
<1>1. /\ pc # "exec" /\ data' = [i \in 1..MaxCmds |-> 0] /\ failed' = {}
      /\ late' = FALSE /\ broken' = FALSE
      /\ UNCHANGED <<WritePullup, type, cmds, chan, ksent>>
      /\ \/ ret' \in {"EMPTY", "MSG_SIZE"} /\ pc' = "idle" /\ UNCHANGED <<cb, rcvd, kcmd>>
         \/ /\ cmds # <<>> /\ pc' = "exec" /\ cb' = NoProgress /\ rcvd' = FALSE
            /\ kcmd' = 1 /\ ret' = ret
  BY DEF w1_msg_exec
<1>2. Rest
  BY <1>1 DEF ExecOk
<1>3. cmds \in Seq(Cmd) /\ Len(cmds) \in Nat /\ MaxCmds \in Nat
  BY LenProperties, ExecAssumption DEF TypeOK
<1>4. CmdsOk'
  BY <1>1 DEF CmdsOk, RespRequired
<1>5. DataInPlace'
  BY <1>1 DEF DataInPlace
<1>6. SuccessMeansFilled' /\ OutcomeReported'
  BY <1>1 DEF SuccessMeansFilled, OutcomeReported
<1>7. data' \in [1..MaxCmds -> 0..MaxCmds]
  BY <1>1, <1>3
<1>8. CASE ret' \in {"EMPTY", "MSG_SIZE"} /\ pc' = "idle" /\ UNCHANGED <<cb, rcvd, kcmd>>
  <2>1. TypeOK'
    BY <1>1, <1>7, <1>8 DEF TypeOK
  <2>2. ExecOk'
    BY <1>1, <1>2, <1>8 DEF ExecOk, Rest
  <2> QED
    BY <1>4, <1>5, <1>6, <2>1, <2>2
<1>9. CASE /\ cmds # <<>> /\ pc' = "exec" /\ cb' = NoProgress /\ rcvd' = FALSE
           /\ kcmd' = 1 /\ ret' = ret
  <2>1. Len(cmds) >= 1
    BY <1>3, <1>9, EmptySeq
  <2>2. TypeOK'
    <3>1. cb' \in [n_prc : 0..Len(cmds'), cmd_msgs : 0..(2 * MaxCmds),
                   status : {"ok", "err", "nomsg"}, more : {"no", "req", "opt"}]
      BY <1>1, <1>3, <1>9 DEF NoProgress
    <3>2. kcmd' \in 0..Len(cmds')
      BY <1>1, <1>3, <1>9, <2>1
    <3> QED
      BY <1>1, <1>7, <1>9, <3>1, <3>2 DEF TypeOK
  <2>3. chan' = <<>> /\ Len(chan') = 0 /\ 1..Len(chan') = {} /\ ksent' = FALSE
    BY <1>1, <1>2 DEF Rest
  <2>4. At(1)' = 2
    BY <1>9, <2>3 DEF At, KPos
  <2>5. ChanOk'
    BY <1>9, <2>3, <2>4 DEF ChanOk
  <2>6. ASSUME NEW k \in 1..(Len(cmds) + 1), NEW d \in 0..1, 2 = 2 * k + d
        PROVE  CbAt(k, d)'
    <3>1. k = 1 /\ d = 0
      BY <1>3, <2>6
    <3>2. /\ cb'.status = "ok" /\ cb'.n_prc = 0 /\ cb'.cmd_msgs = 0 /\ cb'.more = "req"
          /\ cb' = NoProgress
      BY <1>9 DEF NoProgress
    <3> QED
      BY <1>1, <1>3, <1>9, <3>1, <3>2 DEF CbAt
  <2>7. CbOk'
    <3>1. cb'.more # "no" /\ cmds' = cmds
      BY <1>1, <1>9 DEF NoProgress
    <3> QED
      BY <2>4, <2>6, <3>1 DEF CbOk
  <2>8. FailedOk'
    <3>1. cb'.more # "no"
      BY <1>9 DEF NoProgress
    <3> QED
      BY <1>1, <2>3, <3>1 DEF FailedOk
  <2>9. ExecOk'
    BY <1>1, <1>9, <2>5, <2>7, <2>8 DEF ExecOk
  <2> QED
    BY <1>4, <1>5, <1>6, <2>2, <2>9
<1> QED
  BY <1>1, <1>8, <1>9

-----------------------------------------------------------------------------
(***************************************************************************)
(* The call returns.                                                       *)
(***************************************************************************)

LEMMA ReturnStep ==
  ASSUME ExecInv, NEW r \in {"SUCCESS", "NO_RESP"} \cup TransportErrors,
         Return(r), late' \in BOOLEAN, broken' \in BOOLEAN,
         SuccessMeansFilled', OutcomeReported'
  PROVE  ExecInv'
<1> USE DEF ExecInv
<1>1. /\ ret' = r /\ pc' = "done" /\ chan' = <<>> /\ kcmd' = 0 /\ ksent' = FALSE
      /\ cb' = NoProgress /\ rcvd' = FALSE
      /\ UNCHANGED <<WritePullup, type, cmds, data, failed>>
  BY DEF Return
<1>2. cmds \in Seq(Cmd) /\ Len(cmds) \in Nat /\ MaxCmds \in Nat
  BY LenProperties, ExecAssumption DEF TypeOK
<1>3. TypeOK'
  <2>1. cb' \in [n_prc : 0..Len(cmds'), cmd_msgs : 0..(2 * MaxCmds),
                 status : {"ok", "err", "nomsg"}, more : {"no", "req", "opt"}]
    BY <1>1, <1>2 DEF NoProgress
  <2>2. kcmd' \in 0..Len(cmds') /\ chan' \in Seq(Reply)
    BY <1>1, <1>2
  <2> QED
    BY <1>1, <2>1, <2>2 DEF TypeOK
<1>4. CmdsOk' /\ DataInPlace'
  BY <1>1 DEF CmdsOk, RespRequired, DataInPlace
<1>5. ExecOk'
  BY <1>1 DEF ExecOk, Rest
<1> QED
  BY <1>3, <1>4, <1>5

LEMMA FailStep ==
  ASSUME ExecInv, TransportFails
  PROVE  ExecInv'
<1>1. PICK r \in TransportErrors : Return(r) /\ late' = late /\ broken' = TRUE
  BY DEF TransportFails
<1>2. SuccessMeansFilled' /\ OutcomeReported'
  BY <1>1 DEF Return, TransportErrors, SuccessMeansFilled, OutcomeReported
<1>3. late' \in BOOLEAN /\ broken' \in BOOLEAN
  BY <1>1 DEF ExecInv, TypeOK
<1> QED
  BY <1>1, <1>2, <1>3, ReturnStep

\* When nothing is underway the callback has seen everything the kernel sent.
LEMMA AllReceived ==
  ASSUME ExecInv, pc = "exec", chan = <<>>
  PROVE  /\ cb.more = "no" => rcvd = TRUE /\ cb.status = "err" /\ failed # {}
         /\ cb.more # "no" =>
              /\ failed = {}
              /\ \E k \in 1..(Len(cmds) + 1) : \E d \in 0..1 :
                   /\ CbAt(k, d) /\ (rcvd = TRUE <=> 2 * k + d > 2)
                   /\ kcmd = 0 => k = Len(cmds) + 1 /\ d = 0
<1>1. cmds # <<>> /\ FailedOk /\ (Refused \/ (ChanOk /\ CbOk))
  BY DEF ExecInv, ExecOk
<1>2. ~Refused
  BY DEF Refused
<1>3. cmds \in Seq(Cmd) /\ Len(cmds) \in Nat /\ kcmd \in 0..Len(cmds)
  BY LenProperties DEF ExecInv, TypeOK
<1>4. Len(chan) = 0 /\ 1..Len(chan) = {} /\ At(1) = KPos
  BY DEF At
<1>5. failed # {} <=> cb.more = "no"
  BY <1>1, <1>4 DEF FailedOk
<1>6. ASSUME cb.more # "no"
      PROVE  \E k \in 1..(Len(cmds) + 1) : \E d \in 0..1 :
               /\ CbAt(k, d) /\ (rcvd = TRUE <=> 2 * k + d > 2)
               /\ kcmd = 0 => k = Len(cmds) + 1 /\ d = 0
  <2>1. \A k \in 1..(Len(cmds) + 1) : \A d \in 0..1 : KPos = 2 * k + d => CbAt(k, d)
    BY <1>1, <1>2, <1>4, <1>6 DEF CbOk
  <2>2. rcvd = TRUE <=> KPos > 2
    BY <1>1, <1>2, <1>4 DEF ChanOk
  <2>3. CASE kcmd = 0
    <3>1. KPos = 2 * (Len(cmds) + 1) + 0
      BY <1>3, <2>3 DEF KPos
    <3> QED
      BY <1>3, <2>1, <2>2, <2>3, <3>1
  <2>4. CASE kcmd # 0 /\ ksent = TRUE
    <3>1. KPos = 2 * kcmd + 1
      BY <1>3, <2>4 DEF KPos
    <3> QED
      BY <1>3, <2>1, <2>2, <2>4, <3>1
  <2>5. CASE kcmd # 0 /\ ksent # TRUE
    <3>1. KPos = 2 * kcmd
      BY <2>5 DEF KPos
    <3>2. KPos = 2 * kcmd + 0 /\ kcmd \in 1..(Len(cmds) + 1)
      BY <1>3, <2>5, <3>1
    <3> QED
      BY <1>3, <2>1, <2>2, <2>5, <3>2
  <2> QED
    BY <2>3, <2>4, <2>5
<1> QED
  BY <1>1, <1>2, <1>5, <1>6 DEF CbOk

LEMMA TimeoutStep ==
  ASSUME ExecInv, Timeout
  PROVE  ExecInv'
<1> DEFINE r == IF ~rcvd \/ cb.more = "req" THEN "NO_RESP"
                ELSE IF cb.status # "ok" THEN "PROTO_ERR" ELSE "SUCCESS"
<1>1. pc = "exec" /\ chan = <<>> /\ late' = (kcmd # 0) /\ Return(r)
      /\ broken' = broken /\ broken = FALSE
  BY DEF Timeout, ExecInv, ExecOk
<1>2. /\ r \in {"SUCCESS", "NO_RESP"} \cup TransportErrors
      /\ late' \in BOOLEAN /\ broken' \in BOOLEAN
  BY <1>1 DEF TransportErrors
<1>3. UNCHANGED <<cmds, data, failed>> /\ ret' = r
  BY <1>1 DEF Return
<1>4. cmds \in Seq(Cmd) /\ Len(cmds) \in Nat /\ rcvd \in BOOLEAN /\ cmds # <<>>
  BY <1>1, LenProperties DEF ExecInv, ExecOk, TypeOK
<1>5. Len(cmds) >= 1
  BY <1>4, EmptySeq
<1>6. SuccessMeansFilled' /\ OutcomeReported'
  <2>1. CASE cb.more = "no"
    <3>1. r = "PROTO_ERR" /\ failed # {}
      BY <1>1, <2>1, AllReceived
    <3> QED
      BY <1>1, <1>3, <3>1 DEF SuccessMeansFilled, OutcomeReported
  <2>2. CASE cb.more # "no"
    <3>1. PICK k \in 1..(Len(cmds) + 1), d \in 0..1 :
            /\ CbAt(k, d) /\ (rcvd = TRUE <=> 2 * k + d > 2)
            /\ kcmd = 0 => k = Len(cmds) + 1 /\ d = 0
      BY <1>1, <2>2, AllReceived
    <3> DEFINE cur == cb.n_prc + 1
    <3>2. cur \in Nat /\ cur >= 1 /\ k \in Nat /\ d \in {0, 1}
      BY <1>4 DEF ExecInv, TypeOK
    <3>3. /\ cb.status = "ok" /\ cur <= k /\ (d = 1 => cur = k)
          /\ (cur = k /\ d = 0 => k = 1)
          /\ \A j \in 1..Len(cmds) : cur <= j /\ j < k => cmds[j].type = cmds[cur].type
          /\ \A j \in 1..Len(cmds) :
               (j < k \/ (j = k /\ d = 1)) /\ RespRequired(cmds[j]) /\ cmds[j].len > 0
                 => data[j] = j
          /\ cb.more = IF rcvd = TRUE THEN MoreAfter(cb) ELSE "req"
      BY <3>1 DEF CbAt
    <3>4. MoreAfter(cb) = IF \E i \in (cur + 1)..Len(cmds) : RespRequired(cmds[i])
                          THEN "req" ELSE "opt"
      <4>1. (cb.n_prc + 2)..Len(cmds) = (cur + 1)..Len(cmds)
        <5>1. cb.n_prc \in Nat
          BY <1>4 DEF ExecInv, TypeOK
        <5>2. cb.n_prc + 2 = cur + 1
          BY <5>1
        <5> QED
          BY <5>2
      <4> HIDE DEF cur
      <4>2. (\E i \in (cb.n_prc + 2)..Len(cmds) : RespRequired(cmds[i]))
              <=> (\E i \in (cur + 1)..Len(cmds) : RespRequired(cmds[i]))
        BY <4>1, Zenon
      <4> QED
        BY <4>2, Zenon DEF MoreAfter
    <3> HIDE DEF cur
    <3>5. SuccessMeansFilled'
      <4>1. ASSUME r = "SUCCESS", NEW i \in 1..Len(cmds), RespRequired(cmds[i]),
                   cmds[i].len > 0
            PROVE  data[i] = i
        <5>1. rcvd = TRUE /\ cb.more # "req"
          BY <1>4, <4>1
        <5>2. i < cur + 1
          BY <1>4, <3>2, <3>3, <3>4, <4>1, <5>1
        <5>3. CASE i < k \/ (i = k /\ d = 1)
          BY <3>3, <4>1, <5>3
        <5>4. CASE ~(i < k \/ (i = k /\ d = 1))
          <6>1. i = k /\ cur = k /\ d = 0
            BY <3>2, <3>3, <5>2, <5>4
          <6>2. k = 1
            BY <3>3, <6>1
          <6> QED
            BY <3>1, <5>1, <6>1, <6>2
        <5> QED
          BY <5>3, <5>4
      <4> QED
        BY <1>3, <4>1 DEF SuccessMeansFilled, RespRequired
    <3>6. OutcomeReported'
      <4>1. ASSUME ~late'
            PROVE  r = "SUCCESS" /\ failed = {}
        <5>1. k = Len(cmds) + 1 /\ d = 0
          BY <1>1, <3>1, <4>1
        <5>2. rcvd = TRUE
          BY <1>4, <1>5, <3>1, <5>1
        <5>3. ASSUME NEW i \in (cur + 1)..Len(cmds)
              PROVE  ~RespRequired(cmds[i])
          <6>1. i - 1 \in 1..Len(cmds) /\ i \in 1..Len(cmds) /\ i = (i - 1) + 1
                /\ cur <= i - 1 /\ i < k /\ cur <= i /\ i - 1 < k
            BY <1>4, <3>2, <5>1
          <6>2. cmds[i].type = cmds[i - 1].type
            BY <3>3, <6>1
          <6> QED
            BY <6>1, <6>2 DEF ExecInv, CmdsOk
        <5>4. cb.more = "opt"
          BY <3>3, <3>4, <5>2, <5>3
        <5>5. failed = {}
          BY <1>1, <2>2, AllReceived
        <5> QED
          BY <3>3, <5>2, <5>4, <5>5
      <4> QED
        BY <1>1, <1>3, <4>1 DEF OutcomeReported
    <3> QED
      BY <3>5, <3>6
  <2> QED
    BY <2>1, <2>2
<1> QED
  BY <1>1, <1>2, <1>6, ReturnStep

-----------------------------------------------------------------------------
(***************************************************************************)
(* The kernel.                                                             *)
(***************************************************************************)

LEMMA Working ==
  ASSUME ExecInv, kcmd # 0
  PROVE  /\ pc = "exec" /\ broken = FALSE
         /\ cmds # <<>> /\ FailedOk /\ ChanOk /\ CbOk
         /\ kcmd \in 1..Len(cmds) /\ cmds \in Seq(Cmd) /\ Len(cmds) \in Nat
         /\ chan \in Seq(Reply) /\ Len(chan) \in Nat
         /\ Len(cmds) <= MaxCmds /\ MaxCmds \in Nat
<1>1. pc = "exec"
  BY DEF ExecInv, ExecOk, Rest
<1>2. ~Refused
  BY DEF Refused
<1>3. broken = FALSE /\ cmds # <<>> /\ FailedOk /\ ChanOk /\ CbOk
  BY <1>1, <1>2 DEF ExecInv, ExecOk
<1> QED
  BY <1>1, <1>3, LenProperties, ExecAssumption DEF ExecInv, TypeOK

LEMMA RefusesStep ==
  ASSUME ExecInv, KernelRefuses
  PROVE  ExecInv'
<1>1. /\ kcmd = 1 /\ ksent = FALSE /\ chan' = Append(chan, Refusal) /\ kcmd' = 0
      /\ failed' = failed \cup {0}
      /\ UNCHANGED <<WritePullup, type, cmds, data, pc, ret, cb, rcvd, ksent, late, broken>>
  BY DEF KernelRefuses, Refusal, ExecInv, TypeOK
<1>2. /\ pc = "exec" /\ broken = FALSE
      /\ cmds # <<>> /\ ChanOk /\ CbOk /\ Len(chan) \in Nat
      /\ chan \in Seq(Reply) /\ Len(cmds) \in Nat /\ MaxCmds \in Nat /\ Len(cmds) >= 1
  BY <1>1, Working
<1>3. KPos = 2
  BY <1>1 DEF KPos
<1>4. chan = <<>>
  <2>1. ASSUME Len(chan) # 0
        PROVE  FALSE
    <3>1. Len(chan) \in 1..Len(chan) /\ Len(chan) + 1 \notin 1..Len(chan)
      BY <1>2, <2>1
    <3>2. MayCome(chan[Len(chan)]) /\ After(chan[Len(chan)]) = At(Len(chan) + 1)
      BY <1>2, <3>1 DEF ChanOk
    <3>3. After(chan[Len(chan)]) = 2
      BY <1>3, <3>1, <3>2 DEF At
    <3>4. PICK k \in 1..Len(cmds) :
            After(chan[Len(chan)]) = 2 * k + 1 \/ After(chan[Len(chan)]) = 2 * k + 2
      BY <3>2, Message
    <3> QED
      BY <3>3, <3>4
  <2> QED
    BY <1>2, <2>1, EmptySeq
<1>5. At(1) = 2
  BY <1>3, <1>4 DEF At
<1>6. rcvd = FALSE
  BY <1>2, <1>5 DEF ChanOk, ExecInv, TypeOK
<1>7. cb.more # "no"
  BY <1>2, <1>6 DEF CbOk
<1>8. cb = NoProgress
  <2>1. 1 \in 1..(Len(cmds) + 1) /\ 0 \in 0..1 /\ 2 = 2 * 1 + 0
    BY <1>2
  <2>2. CbAt(1, 0)
    BY <1>2, <1>5, <1>7, <2>1 DEF CbOk
  <2> QED
    BY <1>6, <2>2 DEF CbAt
<1>9. chan' = <<Refusal>>
  BY <1>1, <1>4
<1>10. Refusal.err = TRUE /\ Refusal \in Reply
  BY DEF Refusal, Reply
<1>11. Refused'
  BY <1>1, <1>6, <1>8, <1>9 DEF Refused, Refusal, NoProgress
<1>12. FailedOk'
  <2>1. 1 \in 1..Len(chan') /\ chan'[1].err = TRUE /\ failed' # {}
    BY <1>1, <1>9, <1>10
  <2> QED
    BY <2>1 DEF FailedOk
<1>13. ExecOk'
  BY <1>1, <1>2, <1>11, <1>12 DEF ExecOk
<1>14. TypeOK'
  <2>1. chan' \in Seq(Reply)
    BY <1>9, <1>10
  <2>2. failed' \subseteq 0..MaxCmds
    BY <1>1, <1>2 DEF ExecInv, TypeOK
  <2>3. kcmd' \in 0..Len(cmds')
    BY <1>1, <1>2
  <2> QED
    BY <1>1, <2>1, <2>2, <2>3 DEF ExecInv, TypeOK
<1>15. CmdsOk' /\ DataInPlace'
  BY <1>1 DEF ExecInv, CmdsOk, RespRequired, DataInPlace
<1>16. SuccessMeansFilled' /\ OutcomeReported'
  BY <1>1, <1>2 DEF SuccessMeansFilled, OutcomeReported
<1> QED
  BY <1>13, <1>14, <1>15, <1>16 DEF ExecInv

\* A reply that carries the kernel from one position to the next.
LEMMA SendStep ==
  ASSUME ExecInv, kcmd # 0,
         NEW m \in Reply, MayCome(m), Before(m) = KPos,
         chan' = Append(chan, m), After(m) = KPos',
         failed' = IF m.err = TRUE THEN failed \cup {kcmd} ELSE failed,
         kcmd' \in 0..Len(cmds), ksent' \in BOOLEAN,
         ksent' = TRUE => kcmd' # 0 /\ RespRequired(cmds[kcmd']),
         UNCHANGED <<WritePullup, type, cmds, data, pc, ret, cb, rcvd, late, broken>>
  PROVE  ExecInv'
<1>1. /\ pc = "exec" /\ broken = FALSE /\ cmds # <<>> /\ FailedOk /\ ChanOk /\ CbOk
      /\ kcmd \in 1..Len(cmds) /\ cmds \in Seq(Cmd) /\ Len(cmds) \in Nat
      /\ chan \in Seq(Reply) /\ Len(chan) \in Nat
      /\ Len(cmds) <= MaxCmds /\ MaxCmds \in Nat
  BY Working
<1>2. /\ chan' \in Seq(Reply) /\ Len(chan') = Len(chan) + 1
      /\ \A i \in 1..Len(chan) : chan'[i] = chan[i]
      /\ chan'[Len(chan) + 1] = m
  BY <1>1, AppendProperties
<1>3. \A i \in 1..Len(chan) : At(i)' = At(i)
  BY <1>1, <1>2 DEF At, Before, Src, RespRequired
<1>4. \A i : i = Len(chan) + 1 => At(i)' = At(i)
  <2>1. ASSUME NEW i, i = Len(chan) + 1
        PROVE  At(i)' = At(i)
    <3>1. At(i) = KPos
      BY <1>1, <2>1 DEF At
    <3>2. At(i)' = Before(m)
      BY <1>1, <1>2, <2>1 DEF At, Before, Src, RespRequired
    <3> QED
      BY <3>1, <3>2
  <2> QED
    BY <2>1
<1>5. \A i : i = Len(chan) + 2 => At(i)' = After(m)
  BY <1>1, <1>2 DEF At
<1>a. At(1)' = At(1)
  <2>1. 1 \in 1..Len(chan) \/ 1 = Len(chan) + 1
    BY <1>1
  <2> QED
    BY <1>3, <1>4, <2>1
<1>6. ChanOk'
  <2>1. ASSUME NEW i \in 1..Len(chan')
        PROVE  MayCome(chan[i])' /\ After(chan[i])' = At(i + 1)'
    <3>1. CASE i = Len(chan) + 1
      <4>1. MayCome(chan[i])'
        BY <1>2, <3>1 DEF MayCome, DataOf, StatusOf, HeaderOf, convert_cmd_type, RespRequired
      <4>2. After(chan[i])' = After(m)
        BY <1>2, <3>1 DEF After, Src
      <4>3. i + 1 = Len(chan) + 2
        BY <1>1, <3>1
      <4> QED
        BY <1>5, <4>1, <4>2, <4>3
    <3>2. CASE i \in 1..Len(chan)
      <4>1. chan'[i] = chan[i] /\ MayCome(chan[i]) /\ After(chan[i]) = At(i + 1)
        BY <1>1, <1>2, <3>2 DEF ChanOk
      <4>2. MayCome(chan[i])'
        BY <4>1 DEF MayCome, DataOf, StatusOf, HeaderOf, convert_cmd_type, RespRequired
      <4>3. After(chan[i])' = After(chan[i])
        BY <4>1 DEF After, Src
      <4>4. At(i + 1)' = At(i + 1)
        <5>1. i + 1 \in 1..Len(chan) \/ i + 1 = Len(chan) + 1
          BY <1>1, <3>2
        <5> QED
          BY <1>3, <1>4, <5>1
      <4> QED
        BY <4>1, <4>2, <4>3, <4>4
    <3> QED
      BY <1>1, <1>2, <3>1, <3>2
  <2>2. ksent' = TRUE => kcmd' # 0 /\ RespRequired(cmds[kcmd])'
    BY DEF RespRequired
  <2>4. rcvd' = TRUE <=> At(1)' > 2
    BY <1>1, <1>a DEF ChanOk
  <2> QED
    BY <2>1, <2>2, <2>4 DEF ChanOk
<1>7. CbOk'
  <2>1. At(1)' = At(1)
    BY <1>a
  <2>2. ASSUME NEW k \in 1..(Len(cmds) + 1), NEW d \in 0..1, CbAt(k, d)
        PROVE  CbAt(k, d)'
    BY <2>2 DEF CbAt, MoreAfter, RespRequired
  <2> QED
    BY <1>1, <2>1, <2>2 DEF CbOk
<1>8. FailedOk'
  <2>1. ~(failed = {} /\ cb.more = "no")
    BY <1>1 DEF FailedOk
  <2>2. \A i \in 1..Len(chan') : i \in 1..Len(chan) \/ i = Len(chan) + 1
    BY <1>1, <1>2
  <2>3. Len(chan) + 1 \in 1..Len(chan') /\ 1..Len(chan) \subseteq 1..Len(chan')
    BY <1>1, <1>2
  <2>4. (\E i \in 1..Len(chan') : chan'[i].err = TRUE) <=>
          (m.err = TRUE \/ \E i \in 1..Len(chan) : chan[i].err = TRUE)
    BY <1>2, <2>2, <2>3
  <2>5. failed' # {} <=> m.err = TRUE \/ failed # {}
    OBVIOUS
  <2> QED
    BY <1>1, <2>4, <2>5 DEF FailedOk
<1>9. ExecOk'
  BY <1>1, <1>6, <1>7, <1>8 DEF ExecOk
<1>10. TypeOK'
  <2>1. failed' \subseteq 0..MaxCmds
    BY <1>1 DEF ExecInv, TypeOK
  <2> QED
    BY <1>2, <2>1 DEF ExecInv, TypeOK
<1>11. CmdsOk' /\ DataInPlace'
  BY DEF ExecInv, CmdsOk, RespRequired, DataInPlace
<1>12. SuccessMeansFilled' /\ OutcomeReported'
  BY <1>1 DEF SuccessMeansFilled, OutcomeReported
<1> QED
  BY <1>9, <1>10, <1>11, <1>12 DEF ExecInv

LEMMA DataStep ==
  ASSUME ExecInv, KernelData
  PROVE  ExecInv'
<1> DEFINE m == DataOf(kcmd)
<1>1. /\ kcmd # 0 /\ ksent = FALSE /\ RespRequired(cmds[kcmd])
      /\ chan' = Append(chan, m) /\ ksent' = TRUE
      /\ UNCHANGED <<WritePullup, type, cmds, data, pc, ret, cb, rcvd, kcmd, failed, late, broken>>
  BY DEF KernelData, DataOf, HeaderOf, ExecInv, TypeOK
<1>2. kcmd \in 1..Len(cmds) /\ cmds \in Seq(Cmd) /\ Len(cmds) <= MaxCmds
      /\ MaxCmds \in Nat /\ Len(cmds) \in Nat
  BY <1>1, Working
<1>3. MayCome(m)
  BY <1>1, <1>2 DEF MayCome
<1>4. m \in Reply /\ m.err = FALSE
  <2>1. cmds[kcmd] \in Cmd
    BY <1>2, ElementOfSeq
  <2>2. HeaderOf(kcmd, cmds[kcmd].len) \in Header
    BY <1>2, <2>1 DEF HeaderOf, Header, Cmd, convert_cmd_type
  <2> QED
    BY <2>2 DEF DataOf, Reply
<1>5. Src(m) = kcmd /\ m.isStatus = FALSE
  BY DEF Src, DataOf, HeaderOf
<1>6. Before(m) = KPos /\ After(m) = KPos'
  BY <1>1, <1>5 DEF Before, After, KPos
<1> HIDE DEF m
<1>7. failed' = IF m.err = TRUE THEN failed \cup {kcmd} ELSE failed
  BY <1>1, <1>4
<1>8. kcmd' \in 0..Len(cmds) /\ (ksent' = TRUE => kcmd' # 0 /\ RespRequired(cmds[kcmd']))
  BY <1>1, <1>2
<1> QED
  BY <1>1, <1>3, <1>4, <1>6, <1>7, <1>8, SendStep

LEMMA StatusStep ==
  ASSUME ExecInv, KernelStatus
  PROVE  ExecInv'
<1>1. PICK e \in BOOLEAN :
        /\ RespRequired(cmds[kcmd]) => e = ~ksent
        /\ chan' = Append(chan, StatusOf(kcmd, e))
        /\ failed' = IF e THEN failed \cup {kcmd} ELSE failed
  BY DEF KernelStatus, StatusOf, HeaderOf
<1>2. /\ kcmd # 0 /\ ksent' = FALSE
      /\ kcmd' = IF kcmd = Len(cmds) THEN 0 ELSE kcmd + 1
      /\ UNCHANGED <<WritePullup, type, cmds, data, pc, ret, cb, rcvd, late, broken>>
  BY DEF KernelStatus
<1>3. kcmd \in 1..Len(cmds) /\ cmds \in Seq(Cmd) /\ Len(cmds) <= MaxCmds
      /\ MaxCmds \in Nat /\ Len(cmds) \in Nat /\ ChanOk
  BY <1>2, Working
<1> DEFINE m == StatusOf(kcmd, e)
<1>4. MayCome(m)
  BY <1>3 DEF MayCome
<1>5. m \in Reply
  <2>1. cmds[kcmd] \in Cmd
    BY <1>3, ElementOfSeq
  <2>2. HeaderOf(kcmd, 0) \in Header
    BY <1>3, <2>1 DEF HeaderOf, Header, Cmd, convert_cmd_type
  <2> QED
    BY <2>2 DEF StatusOf, Reply
<1>6. Src(m) = kcmd /\ m.isStatus = TRUE /\ m.err = e
  BY DEF Src, StatusOf, HeaderOf
<1> HIDE DEF m
<1>7. After(m) = KPos'
  <2>1. After(m) = 2 * kcmd + 2
    BY <1>6 DEF After
  <2>2. CASE kcmd = Len(cmds)
    BY <1>2, <2>1, <2>2 DEF KPos
  <2>3. CASE kcmd # Len(cmds)
    <3>1. kcmd' = kcmd + 1 /\ kcmd' # 0
      BY <1>2, <1>3, <2>3
    <3>2. KPos' = 2 * kcmd'
      BY <1>2, <3>1 DEF KPos
    <3> QED
      BY <1>3, <2>1, <3>1, <3>2
  <2> QED
    BY <2>2, <2>3
<1>8. Before(m) = KPos
  <2>1. ksent \in BOOLEAN
    BY DEF ExecInv, TypeOK
  <2>2. CASE ksent = TRUE
    <3>1. RespRequired(cmds[kcmd])
      BY <1>3, <2>2 DEF ChanOk
    <3>2. e = FALSE
      BY <1>1, <2>2, <3>1
    <3> QED
      BY <1>2, <1>6, <2>2, <3>1, <3>2 DEF Before, KPos
  <2>3. CASE ksent = FALSE
    <3>1. ~(m.err = FALSE /\ RespRequired(cmds[kcmd]))
      BY <1>1, <1>6, <2>3
    <3> QED
      BY <1>2, <1>6, <2>3, <3>1 DEF Before, KPos
  <2> QED
    BY <2>1, <2>2, <2>3
<1>9. failed' = IF m.err = TRUE THEN failed \cup {kcmd} ELSE failed
  BY <1>1, <1>6
<1>10. kcmd' \in 0..Len(cmds)
  BY <1>2, <1>3
<1>11. chan' = Append(chan, m)
  BY <1>1 DEF m
<1> QED
  BY <1>2, <1>4, <1>5, <1>7, <1>8, <1>9, <1>10, <1>11, SendStep

-----------------------------------------------------------------------------
(***************************************************************************)
(* A reply reaches the callback.                                           *)
(***************************************************************************)

\* The callback's result t for the first reply, as Receive stores it.
CbState == [n_prc |-> cb.n_prc, cmd_msgs |-> cb.cmd_msgs, status |-> cb.status,
            more |-> cb.more, data |-> data, stop |-> FALSE]

LEMMA ReceiveShape ==
  ASSUME ExecInv, Receive
  PROVE  /\ pc = "exec" /\ chan # <<>> /\ rcvd' = TRUE /\ chan' = Tail(chan)
         /\ UNCHANGED <<WritePullup, type, cmds, pc, ret, kcmd, ksent, failed, late, broken>>
         /\ cb.more = "no" => UNCHANGED <<cb, data>>
         /\ cb.more # "no" =>
              LET t == w1msg_exec_cb(CbState, chan[1])
              IN  /\ cb' = [n_prc |-> t.n_prc, cmd_msgs |-> t.cmd_msgs,
                            status |-> t.status, more |-> t.more]
                  /\ data' = t.data
         /\ cmds # <<>> /\ FailedOk /\ (Refused \/ (ChanOk /\ CbOk))
         /\ cmds \in Seq(Cmd) /\ Len(cmds) \in Nat /\ Len(cmds) >= 1
         /\ Len(cmds) <= MaxCmds /\ MaxCmds \in Nat
         /\ Len(chan) \in Nat /\ Len(chan) >= 1
         /\ chan' \in Seq(Reply) /\ Len(chan') = Len(chan) - 1
         /\ \A i \in 1..Len(chan') : chan'[i] = chan[i + 1]
<1>1. /\ pc = "exec" /\ chan # <<>> /\ rcvd' = TRUE /\ chan' = Tail(chan)
      /\ UNCHANGED <<WritePullup, type, cmds, pc, ret, kcmd, ksent, failed, late, broken>>
      /\ cb.more = "no" => UNCHANGED <<cb, data>>
  BY DEF Receive
<1>2. cb.more # "no" =>
        LET t == w1msg_exec_cb(CbState, Head(chan))
        IN  /\ cb' = [n_prc |-> t.n_prc, cmd_msgs |-> t.cmd_msgs,
                      status |-> t.status, more |-> t.more]
            /\ data' = t.data
  BY DEF Receive, CbState
<1>3. cmds # <<>> /\ FailedOk /\ (Refused \/ (ChanOk /\ CbOk))
  BY <1>1 DEF ExecInv, ExecOk
<1>4. cmds \in Seq(Cmd) /\ Len(cmds) <= MaxCmds /\ chan \in Seq(Reply)
  BY DEF ExecInv, TypeOK
<1>5. Head(chan) = chan[1]
  BY <1>1, <1>4
<1>6. Len(cmds) \in Nat /\ Len(cmds) >= 1
  BY <1>3, <1>4, LenProperties, EmptySeq
<1>7. Len(chan) \in Nat /\ Len(chan) >= 1
  BY <1>1, <1>4, LenProperties, EmptySeq
<1>8. chan' \in Seq(Reply) /\ Len(chan') = Len(chan) - 1
      /\ \A i \in 1..Len(chan') : chan'[i] = chan[i + 1]
  BY <1>1, <1>4, HeadTailProperties
<1> QED
  BY <1>1, <1>2, <1>3, <1>4, <1>5, <1>6, <1>7, <1>8, ExecAssumption

\* What is left to prove: the part of the callback.
LEMMA ReceiveRest ==
  ASSUME ExecInv, Receive, FailedOk', ChanOk', CbOk',
         cb' \in [n_prc : 0..Len(cmds), cmd_msgs : 0..(2 * MaxCmds),
                  status : {"ok", "err", "nomsg"}, more : {"no", "req", "opt"}],
         data' \in [1..MaxCmds -> 0..MaxCmds], DataInPlace'
  PROVE  ExecInv'
<1>1. /\ pc = "exec" /\ rcvd' = TRUE /\ cmds # <<>> /\ chan' \in Seq(Reply)
      /\ UNCHANGED <<WritePullup, type, cmds, pc, ret, kcmd, ksent, failed, late, broken>>
  BY ReceiveShape
<1>2. TypeOK'
  BY <1>1 DEF ExecInv, TypeOK
<1>3. CmdsOk'
  BY <1>1 DEF ExecInv, CmdsOk, RespRequired
<1>4. ExecOk'
  BY <1>1 DEF ExecInv, ExecOk
<1>5. SuccessMeansFilled' /\ OutcomeReported'
  BY <1>1 DEF SuccessMeansFilled, OutcomeReported
<1> QED
  BY <1>2, <1>3, <1>4, <1>5 DEF ExecInv

\* Taking the first reply moves the callback's position past it.
LEMMA ChainStep ==
  ASSUME ExecInv, Receive, ChanOk
  PROVE  /\ MayCome(chan[1]) /\ At(1) = Before(chan[1]) /\ At(1)' = After(chan[1])
         /\ ChanOk'
<1>1. /\ rcvd' = TRUE /\ UNCHANGED <<WritePullup, cmds, kcmd, ksent>>
      /\ Len(chan) \in Nat /\ Len(chan) >= 1 /\ Len(chan') = Len(chan) - 1
      /\ \A i \in 1..Len(chan') : chan'[i] = chan[i + 1]
      /\ Len(cmds) \in Nat
  BY ReceiveShape
<1>2. 1 \in 1..Len(chan)
  BY <1>1
<1>3. MayCome(chan[1]) /\ At(1) = Before(chan[1]) /\ After(chan[1]) = At(1 + 1)
  BY <1>2 DEF ChanOk, At
<1>4. \A i, j : i \in 1..Len(chan) /\ j = i + 1 => At(i)' = At(j)
  <2>1. ASSUME NEW i \in 1..Len(chan), NEW j, j = i + 1
        PROVE  At(i)' = At(j)
    <3>1. CASE i \in 1..Len(chan')
      <4>1. j \in 1..Len(chan) /\ chan'[i] = chan[j]
        BY <1>1, <2>1, <3>1
      <4> QED
        BY <1>1, <3>1, <4>1 DEF At, Before, Src, RespRequired
    <3>2. CASE i \notin 1..Len(chan')
      <4>1. j \notin 1..Len(chan)
        BY <1>1, <2>1, <3>2
      <4>2. KPos' = KPos
        BY <1>1 DEF KPos
      <4> QED
        BY <3>2, <4>1, <4>2 DEF At
    <3> QED
      BY <3>1, <3>2
  <2> QED
    BY <2>1
<1>5. At(1)' = After(chan[1])
  BY <1>2, <1>3, <1>4
<1>6. ASSUME NEW i \in 1..Len(chan')
      PROVE  MayCome(chan[i])' /\ After(chan[i])' = At(i + 1)'
  <2>1. i \in 1..Len(chan) /\ i + 1 \in 1..Len(chan) /\ chan'[i] = chan[i + 1]
        /\ (i + 1) + 1 = i + 2
    BY <1>1
  <2>2. MayCome(chan[i + 1]) /\ After(chan[i + 1]) = At((i + 1) + 1)
    BY <2>1 DEF ChanOk
  <2>3. MayCome(chan[i])'
    BY <1>1, <2>1, <2>2 DEF MayCome, DataOf, StatusOf, HeaderOf, convert_cmd_type, RespRequired
  <2>4. After(chan[i])' = After(chan[i + 1])
    BY <2>1 DEF After, Src
  <2>5. At(i + 1)' = At((i + 1) + 1)
    BY <1>4, <2>1
  <2> QED
    BY <2>2, <2>3, <2>4, <2>5
<1>7. At(1)' > 2
  <2>1. PICK k \in 1..Len(cmds) : After(chan[1]) = 2 * k + 1 \/ After(chan[1]) = 2 * k + 2
    BY <1>3, Message
  <2> QED
    BY <1>1, <1>5, <2>1
<1>8. ksent' = TRUE => kcmd' # 0 /\ RespRequired(cmds[kcmd])'
  BY <1>1 DEF ChanOk, RespRequired
<1> QED
  BY <1>1, <1>3, <1>5, <1>6, <1>7, <1>8 DEF ChanOk

\* The callback on a reply with one header that is no error status.
LEMMA CbResult ==
  ASSUME NEW s, NEW m, NEW h, ~(s.n_prc >= Len(cmds)), ~(m.isStatus /\ m.err),
         m.cmds = <<h>>
  PROVE  w1msg_exec_cb(s, m) = LET t == TakeHeader(s, h)
                               IN IF t.stop THEN t ELSE [t EXCEPT !.more = MoreAfter(t)]
<1>1. FoldLeft(TakeHeader, s, m.cmds) = TakeHeader(s, h)
  BY OneHeader, Zenon
<1> QED
  BY <1>1, Zenon DEF w1msg_exec_cb

LEMMA Halted ==
  ASSUME ExecInv, Receive, cb.more # "no", cb.n_prc < Len(cmds),
         chan[1].isStatus = TRUE, chan[1].err = TRUE
  PROVE  /\ data' = data
         /\ cb' = [n_prc |-> cb.n_prc, cmd_msgs |-> cb.cmd_msgs,
                   status |-> "err", more |-> "no"]
<1> DEFINE t == w1msg_exec_cb(CbState, chan[1])
<1>1. cb.n_prc \in Nat /\ Len(cmds) \in Nat
  BY ReceiveShape DEF ExecInv, TypeOK
<1>2. CbState.n_prc = cb.n_prc
  BY DEF CbState
<1>3. t = Halt(CbState, "err")
  <2>1. ~(CbState.n_prc >= Len(cmds))
    BY <1>1, <1>2
  <2> QED
    BY <2>1 DEF w1msg_exec_cb
<1>4. /\ t.n_prc = cb.n_prc /\ t.cmd_msgs = cb.cmd_msgs /\ t.status = "err"
      /\ t.more = "no" /\ t.data = data
  BY <1>3 DEF Halt, CbState
<1>5. /\ cb' = [n_prc |-> t.n_prc, cmd_msgs |-> t.cmd_msgs,
                status |-> t.status, more |-> t.more]
      /\ data' = t.data
  BY ReceiveShape
<1> HIDE DEF t
<1> QED
  BY <1>4, <1>5

LEMMA Progressed ==
  ASSUME ExecInv, Receive, cb.more # "no", cb.n_prc < Len(cmds),
         ~(chan[1].isStatus /\ chan[1].err),
         NEW h, chan[1].cmds = <<h>>,
         NEW j \in 1..Len(cmds), Target(CbState, h) = j,
         convert_cmd_type(cmds[j].type) = h.cmd,
         h.len # 0 => h.len = cmds[j].len
  PROVE  /\ cb'.n_prc = j - 1
         /\ cb'.cmd_msgs = IF j = cb.n_prc + 1 THEN cb.cmd_msgs + 1 ELSE 1
         /\ cb'.status = cb.status
         /\ cb'.more = MoreAfter(cb)'
         /\ cb' = [n_prc |-> cb'.n_prc, cmd_msgs |-> cb'.cmd_msgs,
                   status |-> cb'.status, more |-> cb'.more]
         /\ data' = IF RespRequired(cmds[j]) /\ h.len # 0
                    THEN [data EXCEPT ![j] = h.src] ELSE data
<1> DEFINE t == w1msg_exec_cb(CbState, chan[1])
           u == TakeHeader(CbState, h)
<1>1. /\ cb' = [n_prc |-> t.n_prc, cmd_msgs |-> t.cmd_msgs,
                status |-> t.status, more |-> t.more]
      /\ data' = t.data /\ UNCHANGED cmds
      /\ Len(cmds) \in Nat
  BY ReceiveShape
<1>2. CbState \in Progress
  BY <1>1 DEF CbState, Progress, ExecInv, TypeOK
<1>3. CbState.n_prc = cb.n_prc /\ CbState.cmd_msgs = cb.cmd_msgs
      /\ CbState.status = cb.status /\ CbState.data = data
  BY DEF CbState
<1>4. ~(CbState.n_prc >= Len(cmds))
  BY <1>1, <1>2, <1>3 DEF Progress
<1>5. t = IF u.stop THEN u ELSE [u EXCEPT !.more = MoreAfter(u)]
  BY <1>4, CbResult
<1> HIDE DEF t
<1>6. u = [n_prc |-> j - 1,
           cmd_msgs |-> IF j = CbState.n_prc + 1 THEN CbState.cmd_msgs + 1 ELSE 1,
           status |-> CbState.status, more |-> CbState.more,
           data |-> IF RespRequired(cmds[j]) /\ h.len # 0
                    THEN [CbState.data EXCEPT ![j] = h.src] ELSE CbState.data,
           stop |-> FALSE]
  BY <1>1, <1>2, Taken
<1> HIDE DEF u
<1>7. /\ u.n_prc = j - 1 /\ u.stop = FALSE
      /\ u.cmd_msgs = IF j = cb.n_prc + 1 THEN cb.cmd_msgs + 1 ELSE 1
      /\ u.status = cb.status
      /\ u.data = IF RespRequired(cmds[j]) /\ h.len # 0
                  THEN [data EXCEPT ![j] = h.src] ELSE data
  BY <1>3, <1>6
<1>8. t = [u EXCEPT !.more = MoreAfter(u)]
  BY <1>5, <1>7
<1>9. /\ t.n_prc = u.n_prc /\ t.cmd_msgs = u.cmd_msgs /\ t.status = u.status
      /\ t.data = u.data /\ t.more = MoreAfter(u)
  BY <1>6, <1>8
<1>10. cb'.n_prc = u.n_prc /\ cb'.cmd_msgs = u.cmd_msgs /\ cb'.status = u.status
       /\ cb'.more = MoreAfter(u) /\ data' = u.data
       /\ cb' = [n_prc |-> cb'.n_prc, cmd_msgs |-> cb'.cmd_msgs,
                 status |-> cb'.status, more |-> cb'.more]
  BY <1>1, <1>9
<1>11. MoreAfter(u) = MoreAfter(cb)'
  BY <1>1, <1>10 DEF MoreAfter, RespRequired
<1> QED
  BY <1>7, <1>10, <1>11

\* Where the callback goes with a reply for command k that is no error: to k, or
\* it stays at the run of commands of k's type that it points at.
LEMMA Lands ==
  ASSUME ExecInv, Receive, ~Refused, cb.more # "no",
         NEW k \in 1..Len(cmds), NEW d \in 0..1, CbAt(k, d),
         NEW h, h.cmd = convert_cmd_type(cmds[k].type)
  PROVE  \E j \in 1..Len(cmds) :
           /\ Target(CbState, h) = j /\ cb.n_prc + 1 <= j /\ j <= k
           /\ convert_cmd_type(cmds[j].type) = h.cmd
           /\ \A i \in 1..Len(cmds) : j <= i /\ i <= k => cmds[i].type = cmds[j].type
           /\ j < k => ~RespRequired(cmds[k]) /\ d = 0
<1> DEFINE cur == cb.n_prc + 1
<1>1. /\ Len(cmds) \in Nat /\ cmds \in Seq(Cmd) /\ CmdsOk
  BY ReceiveShape DEF ExecInv
<1>2. cb.n_prc \in Nat /\ CbState.n_prc = cb.n_prc /\ CbState.cmd_msgs = cb.cmd_msgs
  BY <1>1 DEF ExecInv, TypeOK, CbState
<1>3. cur \in 1..Len(cmds) /\ cur <= k /\ CbState.n_prc + 1 = cur
  BY <1>1, <1>2 DEF CbAt
<1>4. /\ d = 1 => cur = k
      /\ k > 1 => cb.cmd_msgs > 0
      /\ \A i \in 1..Len(cmds) : cur <= i /\ i < k => cmds[i].type = cmds[cur].type
  BY DEF CbAt
<1> HIDE DEF cur
<1>5. \A i \in 1..Len(cmds) : \A j \in 1..Len(cmds) :
        j = i + 1 /\ RespRequired(cmds[j]) => cmds[i].type # cmds[j].type
  BY <1>1 DEF CmdsOk
<1>6. CASE cmds[cur].type = cmds[k].type
  <2>1. convert_cmd_type(cmds[cur].type) = h.cmd
    BY <1>6
  <2>2. cur \in (CbState.n_prc + 1)..Len(cmds)
        /\ \A i \in (CbState.n_prc + 1)..Len(cmds) : ~(i < cur)
    BY <1>1, <1>3
  <2>3. Target(CbState, h) = cur
    BY <1>1, <1>2, <2>1, <2>2, TargetIs
  <2>4. \A i \in 1..Len(cmds) : cur <= i /\ i <= k => cmds[i].type = cmds[cur].type
    BY <1>3, <1>4, <1>6
  <2>5. ASSUME cur < k
        PROVE  ~RespRequired(cmds[k]) /\ d = 0
    <3>1. k - 1 \in 1..Len(cmds) /\ cur <= k - 1 /\ k - 1 < k /\ k = (k - 1) + 1
      BY <1>1, <1>3, <2>5
    <3>2. cmds[k - 1].type = cmds[k].type
      BY <1>4, <1>6, <3>1
    <3> QED
      BY <1>3, <1>4, <1>5, <2>5, <3>1, <3>2
  <2> QED
    BY <1>3, <2>1, <2>3, <2>4, <2>5 DEF cur
<1>7. CASE cmds[cur].type # cmds[k].type
  <2>1. cur < k
    BY <1>3, <1>7
  <2>2. ASSUME NEW i \in (CbState.n_prc + 1)..Len(cmds), i < k
        PROVE  convert_cmd_type(cmds[i].type) # h.cmd /\ MayPass(CbState, i)
    <3>1. i \in 1..Len(cmds) /\ cur <= i
      BY <1>1, <1>3, <2>2
    <3>2. cmds[i].type = cmds[cur].type
      BY <1>4, <2>2, <3>1
    <3>3. convert_cmd_type(cmds[i].type) # h.cmd
      <4>1. cmds[i] \in Cmd /\ cmds[k] \in Cmd
        BY <1>1, <3>1, ElementOfSeq
      <4>2. cmds[i].type \in CmdTypes /\ cmds[k].type \in CmdTypes
        BY <4>1 DEF Cmd
      <4>3. ~WritePullup => cmds[i].type # "write_pullup" /\ cmds[k].type # "write_pullup"
        BY <1>1, <3>1 DEF CmdsOk
      <4>4. cmds[i].type # cmds[k].type
        BY <1>7, <3>2
      <4> QED
        BY <4>2, <4>3, <4>4 DEF convert_cmd_type
    <3>4. MayPass(CbState, i)
      <4>1. ASSUME RespRequired(cmds[i])
            PROVE  i = cur
        <5>1. ASSUME i # cur
              PROVE  FALSE
          <6>1. i - 1 \in 1..Len(cmds) /\ cur <= i - 1 /\ i - 1 < k /\ i = (i - 1) + 1
            BY <1>1, <1>3, <2>2, <3>1, <5>1
          <6>2. cmds[i - 1].type = cmds[i].type
            BY <1>4, <3>2, <6>1
          <6> QED
            BY <1>5, <3>1, <4>1, <6>1, <6>2
        <5> QED
          BY <5>1
      <4>2. cb.cmd_msgs > 0
        BY <1>3, <1>4, <2>1
      <4> QED
        BY <1>2, <1>3, <4>1, <4>2 DEF MayPass
    <3> QED
      BY <3>3, <3>4
  <2>3. k \in (CbState.n_prc + 1)..Len(cmds)
    BY <1>1, <1>3
  <2>4. Target(CbState, h) = k
    BY <1>1, <1>2, <2>2, <2>3, TargetIs
  <2>5. \A i \in 1..Len(cmds) : k <= i /\ i <= k => cmds[i].type = cmds[k].type
    OBVIOUS
  <2> QED
    BY <1>3, <2>4, <2>5 DEF cur
<1> QED
  BY <1>6, <1>7

LEMMA LenIsNat ==
  ASSUME NEW c \in Cmd
  PROVE  c.len \in Nat
<1>1. c.len \in Lens \cup {0}
  BY DEF Cmd
<1>2. Lens \subseteq Nat
  BY ExecAssumption
<1>3. CASE c.len \in Lens
  BY <1>2, <1>3, Zenon
<1>4. CASE c.len = 0
  BY <1>4
<1> QED
  BY <1>1, <1>3, <1>4

LEMMA ProgressStep ==
  ASSUME ExecInv, Receive, ~Refused, cb.more # "no", chan[1].err = FALSE
  PROVE  ExecInv'
<1>1. ChanOk /\ CbOk /\ FailedOk
  BY ReceiveShape
<1>2. /\ MayCome(chan[1]) /\ At(1) = Before(chan[1]) /\ At(1)' = After(chan[1])
      /\ ChanOk'
  BY <1>1, ChainStep
<1> DEFINE Tells(k, h) ==
        /\ chan[1].cmds = <<h>> /\ h.src = k /\ h.cmd = convert_cmd_type(cmds[k].type)
        /\ \/ /\ RespRequired(cmds[k])
              /\ h.len = cmds[k].len /\ At(1) = 2 * k /\ At(1)' = 2 * k + 1
           \/ /\ ~RespRequired(cmds[k])
              /\ h.len = 0 /\ At(1) = 2 * k /\ At(1)' = 2 * k + 2
           \/ /\ RespRequired(cmds[k])
              /\ h.len = 0 /\ At(1) = 2 * k + 1 /\ At(1)' = 2 * k + 2
<1>21. \E k \in 1..Len(cmds) : \E h : Tells(k, h)
  <2>1. PICK k, h :
          /\ k \in 1..Len(cmds)
          /\ chan[1].cmds = <<h>> /\ h.src = k /\ h.cmd = convert_cmd_type(cmds[k].type)
          /\ \/ /\ RespRequired(cmds[k]) /\ h.len = cmds[k].len
                /\ Before(chan[1]) = 2 * k /\ After(chan[1]) = 2 * k + 1
             \/ /\ ~RespRequired(cmds[k]) /\ h.len = 0
                /\ Before(chan[1]) = 2 * k /\ After(chan[1]) = 2 * k + 2
             \/ /\ RespRequired(cmds[k]) /\ h.len = 0
                /\ Before(chan[1]) = 2 * k + 1 /\ After(chan[1]) = 2 * k + 2
             \/ chan[1].err = TRUE
    BY <1>2, Message, ZenonT(60)
  <2>2. chan[1].err # TRUE
    OBVIOUS
  <2> QED
    BY <1>2, <2>1, <2>2
<1>22. PICK k \in 1..Len(cmds) : \E h : Tells(k, h)
  BY <1>21
<1>3. PICK h : Tells(k, h)
  BY <1>22
<1>23. h.cmd = convert_cmd_type(cmds[k].type)
  BY <1>3
<1>4. /\ UNCHANGED <<cmds, failed>> /\ rcvd' = TRUE
      /\ cmds \in Seq(Cmd) /\ Len(cmds) \in Nat /\ Len(cmds) <= MaxCmds /\ MaxCmds \in Nat
      /\ Len(chan) \in Nat /\ Len(chan) >= 1 /\ Len(chan') = Len(chan) - 1
      /\ \A i \in 1..Len(chan') : chan'[i] = chan[i + 1]
  BY ReceiveShape
<1>5. /\ data \in [1..MaxCmds -> 0..MaxCmds] /\ cb.n_prc \in Nat /\ cb.cmd_msgs \in Nat
      /\ DataInPlace
  BY <1>4 DEF ExecInv, TypeOK
<1>6. cmds[k] \in Cmd
  BY <1>4, ElementOfSeq
<1>7. cmds[k].len \in Nat
  BY <1>6, LenIsNat
\* d: whether the data of k came before; e: whether this is the data of k
<1>8. PICK d \in 0..1, e \in 0..1 :
        /\ At(1) = 2 * k + d
        /\ e = 1 => d = 0 /\ RespRequired(cmds[k]) /\ h.len = cmds[k].len
                    /\ At(1)' = 2 * k + 1
        /\ e = 0 => h.len = 0 /\ At(1)' = 2 * k + 2
                    /\ (d = 1 \/ ~RespRequired(cmds[k]))
        /\ d = 1 => RespRequired(cmds[k])
  <2>1. CASE At(1) = 2 * k + 1
    <3>1. At(1) # 2 * k
      BY <2>1
    <3>2. RespRequired(cmds[k]) /\ h.len = 0 /\ At(1)' = 2 * k + 2
      BY <1>3, <3>1
    <3> QED
      BY <2>1, <3>2
  <2>2. CASE RespRequired(cmds[k]) /\ At(1) = 2 * k
    <3>1. At(1) # 2 * k + 1 /\ At(1) = 2 * k + 0
      BY <2>2
    <3>2. h.len = cmds[k].len /\ At(1)' = 2 * k + 1
      BY <1>3, <2>2, <3>1
    <3> QED
      BY <2>2, <3>1, <3>2
  <2>3. CASE ~RespRequired(cmds[k]) /\ At(1) = 2 * k
    <3>1. At(1) = 2 * k + 0 /\ h.len = 0 /\ At(1)' = 2 * k + 2
      BY <1>3, <2>3
    <3> QED
      BY <2>3, <3>1
  <2> QED
    BY <1>3, <2>1, <2>2, <2>3
<1>9. CbAt(k, d)
  <2>1. k \in 1..(Len(cmds) + 1)
    BY <1>4
  <2> QED
    BY <1>1, <1>8, <2>1 DEF CbOk
<1>10. PICK j \in 1..Len(cmds) :
         /\ Target(CbState, h) = j /\ cb.n_prc + 1 <= j /\ j <= k
         /\ convert_cmd_type(cmds[j].type) = h.cmd
         /\ \A i \in 1..Len(cmds) : j <= i /\ i <= k => cmds[i].type = cmds[j].type
         /\ j < k => ~RespRequired(cmds[k]) /\ d = 0
  BY <1>9, <1>23, Lands
<1>11. e = 1 \/ d = 1 => j = k
  BY <1>4, <1>8, <1>10
<1>12. /\ cb'.n_prc = j - 1
       /\ cb'.cmd_msgs = IF j = cb.n_prc + 1 THEN cb.cmd_msgs + 1 ELSE 1
       /\ cb'.status = cb.status
       /\ cb'.more = MoreAfter(cb)'
       /\ cb' = [n_prc |-> cb'.n_prc, cmd_msgs |-> cb'.cmd_msgs,
                 status |-> cb'.status, more |-> cb'.more]
       /\ data' = IF RespRequired(cmds[j]) /\ h.len # 0
                  THEN [data EXCEPT ![j] = h.src] ELSE data
  <2>1. cb.n_prc < Len(cmds)
    BY <1>4, <1>5, <1>10
  <2>2. ~(chan[1].isStatus /\ chan[1].err)
    OBVIOUS
  <2>3. h.len # 0 => h.len = cmds[j].len
    BY <1>8, <1>11
  <2> QED
    BY <1>3, <1>10, <2>1, <2>2, <2>3, Progressed
<1>13. /\ data' \in [1..MaxCmds -> 0..MaxCmds] /\ DataInPlace'
       /\ \A i \in 1..Len(cmds) : i < k => data'[i] = data[i]
       /\ e = 0 => data' = data
       /\ e = 1 /\ h.len # 0 => data'[k] = k
  <2>1. CASE e = 1 /\ h.len # 0
    <3>1. k \in 1..MaxCmds /\ data' = [data EXCEPT ![k] = k]
      BY <1>3, <1>4, <1>8, <1>11, <1>12, <2>1
    <3> QED
      BY <1>4, <1>5, <2>1, <3>1 DEF DataInPlace
  <2>2. CASE ~(e = 1 /\ h.len # 0)
    <3>1. data' = data
      BY <1>8, <1>12, <2>2
    <3> QED
      BY <1>5, <2>2, <3>1 DEF DataInPlace
  <2> QED
    BY <2>1, <2>2
<1>14. cb'.cmd_msgs \in Nat /\ cb'.cmd_msgs > 0 /\ cb'.cmd_msgs <= 2 * k
       /\ (e = 1 => cb'.cmd_msgs <= 2 * (k - 1) + 1)
  <2>1. cb.cmd_msgs <= 2 * (k - 1) + d
    BY <1>9 DEF CbAt
  <2>2. e = 1 => d = 0
    BY <1>8
  <2>3. cb'.cmd_msgs = cb.cmd_msgs + 1 \/ cb'.cmd_msgs = 1
    BY <1>12
  <2>4. k \in Nat /\ k >= 1 /\ d <= 1
    BY <1>4
  <2> HIDE <1>12
  <2>5. cb'.cmd_msgs \in Nat /\ cb'.cmd_msgs > 0 /\ cb'.cmd_msgs <= 2 * (k - 1) + d + 1
    BY <1>5, <2>1, <2>3, <2>4
  <2>6. 2 * (k - 1) + d + 1 <= 2 * k
    BY <2>4
  <2> QED
    BY <2>2, <2>4, <2>5, <2>6
<1>15. cb'.more \in {"req", "opt"}
  BY <1>12 DEF MoreAfter
<1>16. cb'.status = "ok"
  BY <1>9, <1>12 DEF CbAt
<1>17. CbOk'
  <2>1. ASSUME NEW k2 \in 1..(Len(cmds) + 1), NEW d2 \in 0..1, At(1)' = 2 * k2 + d2
        PROVE  CbAt(k2, d2)'
    <3>1. \/ e = 1 /\ k2 = k /\ d2 = 1
          \/ e = 0 /\ k2 = k + 1 /\ d2 = 0
      BY <1>4, <1>8, <2>1
    <3>2. /\ cb'.n_prc + 1 = j /\ j <= k2
          /\ d2 = 1 => j = k2
          /\ j = k2 /\ d2 = 0 => k2 = 1
      BY <1>4, <1>10, <1>11, <1>12, <3>1
    <3>3. cb'.cmd_msgs > 0 /\ cb'.cmd_msgs <= 2 * (k2 - 1) + d2
      <4>1. CASE e = 1 /\ k2 = k /\ d2 = 1
        BY <1>14, <4>1
      <4>2. CASE e = 0 /\ k2 = k + 1 /\ d2 = 0
        <5>1. 2 * (k2 - 1) + d2 = 2 * k
          BY <1>4, <4>2
        <5> QED
          BY <1>14, <5>1
      <4> QED
        BY <3>1, <4>1, <4>2
    <3>4. \A i \in 1..Len(cmds) : j <= i /\ i < k2 => cmds[i].type = cmds[j].type
      <4>1. ASSUME NEW i \in 1..Len(cmds), i < k2
            PROVE  i <= k
        BY <1>4, <3>1, <4>1
      <4> QED
        BY <1>10, <4>1
    <3>5. ASSUME NEW i \in 1..Len(cmds), i < k2 \/ (i = k2 /\ d2 = 1),
                 RespRequired(cmds[i]), cmds[i].len > 0
          PROVE  data'[i] = i
      <4>1. CASE i < k
        <5>1. data[i] = i
          BY <1>9, <3>5, <4>1 DEF CbAt
        <5> QED
          BY <1>13, <4>1, <5>1
      <4>2. CASE i = k
        <5>1. CASE e = 1
          BY <1>7, <1>8, <1>13, <3>5, <4>2, <5>1
        <5>2. CASE e = 0
          <6>1. d = 1
            BY <1>8, <3>5, <4>2, <5>2
          <6>2. data[i] = i
            BY <1>9, <3>5, <4>2, <6>1 DEF CbAt
          <6> QED
            BY <1>13, <5>2, <6>2
        <5> QED
          BY <5>1, <5>2
      <4> QED
        BY <1>4, <3>1, <3>5, <4>1, <4>2
    <3> QED
      BY <1>4, <1>12, <1>16, <3>2, <3>3, <3>4, <3>5 DEF CbAt, RespRequired
  <2> QED
    BY <1>4, <1>15, <2>1 DEF CbOk
<1>18. FailedOk'
  <2>1. ASSUME NEW i \in 1..Len(chan), chan[i].err = TRUE
        PROVE  \E n \in 1..Len(chan') : chan'[n].err = TRUE
    <3>1. i # 1
      BY <2>1
    <3>2. i - 1 \in 1..Len(chan') /\ (i - 1) + 1 = i
      BY <1>4, <3>1
    <3>3. chan'[i - 1] = chan[i]
      BY <1>4, <3>2
    <3> QED
      BY <2>1, <3>2, <3>3
  <2>2. ASSUME NEW i \in 1..Len(chan'), chan'[i].err = TRUE
        PROVE  \E n \in 1..Len(chan) : chan[n].err = TRUE
    <3>1. i + 1 \in 1..Len(chan) /\ chan'[i] = chan[i + 1]
      BY <1>4
    <3> QED
      BY <2>2, <3>1
  <2> QED
    BY <1>1, <1>4, <1>15, <2>1, <2>2 DEF FailedOk
<1>19. cb' \in [n_prc : 0..Len(cmds), cmd_msgs : 0..(2 * MaxCmds),
                status : {"ok", "err", "nomsg"}, more : {"no", "req", "opt"}]
  <2>1. cb'.n_prc \in 0..Len(cmds)
    BY <1>4, <1>12
  <2>2. cb'.cmd_msgs \in 0..(2 * MaxCmds)
    BY <1>4, <1>14
  <2> QED
    BY <1>12, <1>15, <1>16, <2>1, <2>2
<1> QED
  BY <1>2, <1>13, <1>17, <1>18, <1>19, ReceiveRest

LEMMA ReceiveStep ==
  ASSUME ExecInv, Receive
  PROVE  ExecInv'
<1>1. /\ UNCHANGED <<cmds, kcmd, ksent, failed>> /\ rcvd' = TRUE
      /\ cmds # <<>> /\ FailedOk /\ (Refused \/ (ChanOk /\ CbOk))
      /\ Len(cmds) \in Nat /\ Len(cmds) >= 1 /\ Len(cmds) <= MaxCmds /\ MaxCmds \in Nat
      /\ Len(chan) \in Nat /\ Len(chan) >= 1
      /\ chan' = Tail(chan) /\ Len(chan') = Len(chan) - 1
      /\ \A i \in 1..Len(chan') : chan'[i] = chan[i + 1]
  BY ReceiveShape
<1>2. /\ cb \in [n_prc : 0..Len(cmds), cmd_msgs : 0..(2 * MaxCmds),
                 status : {"ok", "err", "nomsg"}, more : {"no", "req", "opt"}]
      /\ data \in [1..MaxCmds -> 0..MaxCmds] /\ DataInPlace
  BY DEF ExecInv, TypeOK
<1>3. CASE cb.more = "no"
  <2>1. UNCHANGED <<cb, data>>
    BY <1>3, ReceiveShape
  <2>2. ~Refused
    BY <1>3 DEF Refused, NoProgress
  <2>3. ChanOk'
    BY <1>1, <2>2, ChainStep
  <2>4. CbOk'
    BY <1>1, <1>3, <2>1, <2>2 DEF CbOk
  <2>5. FailedOk'
    BY <1>1, <1>3, <2>1 DEF FailedOk
  <2>6. DataInPlace'
    BY <1>2, <2>1 DEF DataInPlace
  <2> QED
    BY <1>2, <2>1, <2>3, <2>4, <2>5, <2>6, ReceiveRest
<1>4. CASE cb.more # "no" /\ chan[1].isStatus = TRUE /\ chan[1].err = TRUE
           /\ cb.n_prc < Len(cmds)
  <2>1. /\ data' = data
        /\ cb' = [n_prc |-> cb.n_prc, cmd_msgs |-> cb.cmd_msgs,
                  status |-> "err", more |-> "no"]
    BY <1>4, Halted
  <2>2. failed # {}
    <3>1. 1 \in 1..Len(chan)
      BY <1>1
    <3> QED
      BY <1>1, <1>4, <3>1 DEF FailedOk
  <2>3. FailedOk'
    BY <1>1, <2>1, <2>2 DEF FailedOk
  <2>4. CbOk'
    BY <1>1, <2>1 DEF CbOk
  <2>5. ChanOk'
    <3>1. CASE Refused
      <4>1. Len(chan') = 0 /\ 1..Len(chan') = {} /\ kcmd' = 0 /\ ksent' = FALSE
        BY <1>1, <3>1 DEF Refused
      <4>2. At(1)' = 2 * Len(cmds) + 2
        BY <1>1, <4>1 DEF At, KPos
      <4>3. At(1)' > 2
        BY <1>1, <4>2
      <4> QED
        BY <1>1, <4>1, <4>3 DEF ChanOk
    <3>2. CASE ~Refused
      BY <1>1, <3>2, ChainStep
    <3> QED
      BY <3>1, <3>2
  <2>6. DataInPlace'
    BY <1>2, <2>1 DEF DataInPlace
  <2>7. cb' \in [n_prc : 0..Len(cmds), cmd_msgs : 0..(2 * MaxCmds),
                 status : {"ok", "err", "nomsg"}, more : {"no", "req", "opt"}]
    BY <1>2, <2>1
  <2> QED
    BY <1>2, <2>1, <2>3, <2>4, <2>5, <2>6, <2>7, ReceiveRest
<1>5. CASE cb.more # "no" /\ ~Refused
  <2>1. ChanOk /\ CbOk /\ MayCome(chan[1]) /\ At(1) = Before(chan[1])
    BY <1>1, <1>5, ChainStep
  <2>2. PICK k \in 1..Len(cmds) :
          /\ Before(chan[1]) = 2 * k \/ Before(chan[1]) = 2 * k + 1
          /\ chan[1].err = FALSE \/ (chan[1].isStatus = TRUE /\ chan[1].err = TRUE)
    BY <2>1, Message
  <2>3. PICK d \in 0..1 : At(1) = 2 * k + d
    BY <2>1, <2>2
  <2>4. CbAt(k, d)
    <3>1. k \in 1..(Len(cmds) + 1)
      BY <1>1
    <3> QED
      BY <1>5, <2>1, <2>3, <3>1 DEF CbOk
  <2>5. cb.n_prc < Len(cmds)
    BY <1>1, <1>2, <2>4 DEF CbAt
  <2> QED
    BY <1>4, <1>5, <2>2, <2>5, ProgressStep
<1>6. CASE cb.more # "no" /\ Refused
  <2>1. chan[1] = Refusal /\ cb = NoProgress
    BY <1>6 DEF Refused
  <2>2. chan[1].isStatus = TRUE /\ chan[1].err = TRUE /\ cb.n_prc < Len(cmds)
    BY <1>1, <2>1 DEF Refusal, NoProgress
  <2> QED
    BY <1>4, <1>6, <2>2
<1> QED
  BY <1>3, <1>5, <1>6

-----------------------------------------------------------------------------
(***************************************************************************)
(* The theorems.                                                           *)
(***************************************************************************)

LEMMA ExecInit == Init => ExecInv
<1> SUFFICES ASSUME Init PROVE ExecInv
  OBVIOUS
<1>1. /\ WritePullup \in Configs /\ late = FALSE /\ broken = FALSE /\ type \in {"master", "slave"}
      /\ cmds = <<>> /\ data = [i \in 1..MaxCmds |-> 0] /\ pc = "idle"
      /\ ret = "SUCCESS" /\ Rest /\ failed = {}
  BY DEF Init, Rest
<1>2. MaxCmds \in Nat
  BY ExecAssumption
<1>3. cmds \in Seq(Cmd) /\ Len(cmds) = 0 /\ 1..Len(cmds) = {}
  BY <1>1
<1>4. chan \in Seq(Reply)
  BY <1>1 DEF Rest
<1>5. cb \in [n_prc : 0..Len(cmds), cmd_msgs : 0..(2 * MaxCmds),
              status : {"ok", "err", "nomsg"}, more : {"no", "req", "opt"}]
  BY <1>1, <1>2, <1>3 DEF Rest, NoProgress
<1>6. TypeOK
  <2>1. data \in [1..MaxCmds -> 0..MaxCmds]
    BY <1>1, <1>2
  <2>2. kcmd \in 0..Len(cmds) /\ Len(cmds) <= MaxCmds
    <3>1. kcmd = 0 /\ ksent = FALSE /\ rcvd = FALSE
      BY <1>1 DEF Rest
    <3> QED
      BY <1>2, <1>3, <3>1
  <2> QED
    BY <1>1, <1>3, <1>4, <1>5, <2>1, <2>2 DEF TypeOK, Rest
<1>7. CmdsOk
  BY <1>3 DEF CmdsOk
<1>8. DataInPlace /\ ExecOk /\ SuccessMeansFilled /\ OutcomeReported
  BY <1>1 DEF DataInPlace, ExecOk, SuccessMeansFilled, OutcomeReported
<1> QED
  BY <1>6, <1>7, <1>8 DEF ExecInv

LEMMA ExecNext ==
  ASSUME ~Adjacent, ExecInv, [Next]_vars
  PROVE  ExecInv'
<1>1. CASE UNCHANGED vars
  <2>1. UNCHANGED <<WritePullup, type, cmds, data, pc, ret, cb, rcvd, chan, kcmd, ksent,
                    failed, late, broken>>
    BY <1>1 DEF vars
  <2>2. TypeOK'
    BY <2>1 DEF ExecInv, TypeOK
  <2>3. CmdsOk' /\ DataInPlace' /\ FailedOk' = FailedOk
    BY <2>1 DEF ExecInv, CmdsOk, RespRequired, DataInPlace, FailedOk
  <2>4. SuccessMeansFilled' /\ OutcomeReported'
    BY <2>1 DEF ExecInv, SuccessMeansFilled, OutcomeReported, RespRequired
  <2>5. \A i : At(i)' = At(i)
    BY <2>1 DEF At, KPos, Before, Src, RespRequired
  <2>6. ChanOk => ChanOk'
    BY <2>1, <2>5 DEF ChanOk, After, Src, MayCome, DataOf, StatusOf, HeaderOf,
       convert_cmd_type, RespRequired
  <2>7. ASSUME NEW k, NEW d, CbAt(k, d)
        PROVE  CbAt(k, d)'
    BY <2>1, <2>7 DEF CbAt, MoreAfter, RespRequired
  <2>8. CbOk => CbOk'
    BY <2>1, <2>5, <2>7 DEF CbOk
  <2>9. ExecOk'
    BY <2>1, <2>3, <2>6, <2>8 DEF ExecInv, ExecOk, Rest, Refused
  <2> QED
    BY <2>2, <2>3, <2>4, <2>9 DEF ExecInv
<1>2. CASE Next
  BY <1>2, BuildStep, StartStep, ReceiveStep, TimeoutStep, FailStep, RefusesStep,
     DataStep, StatusStep DEF Next, Kernel
<1> QED
  BY <1>1, <1>2

LEMMA ExecAlways ==
  ASSUME ~Adjacent
  PROVE  Spec => []ExecInv
<1>1. Init => ExecInv
  BY ExecInit
<1>2. ExecInv /\ [Next]_vars => ExecInv'
  BY ExecNext
<1> QED
  BY <1>1, <1>2, PTL DEF Spec

\* The state stays in its types; in particular the callback's counters stay within
\* the message (w1.c, w1msg_exec_cb_dta_t).
THEOREM TypeCorrect ==
  ASSUME ~Adjacent
  PROVE  Spec => []TypeOK
<1>1. ExecInv => TypeOK
  BY DEF ExecInv
<1> QED
  BY <1>1, ExecAlways, PTL

\* w1msg_exec_cb() matches replies to commands by type and order alone, and still
\* no buffer ever receives the data of another command.
THEOREM EachInItsPlace ==
  ASSUME ~Adjacent
  PROVE  Spec => []DataInPlace
<1>1. ExecInv => DataInPlace
  BY DEF ExecInv
<1> QED
  BY <1>1, ExecAlways, PTL

\* When w1_msg_exec() returns LREC_SUCCESS, every read and every touch of the
\* message has its data, also when the call did not wait for the last statuses.
THEOREM SuccessIsComplete ==
  ASSUME ~Adjacent
  PROVE  Spec => []SuccessMeansFilled
<1>1. ExecInv => SuccessMeansFilled
  BY DEF ExecInv
<1> QED
  BY <1>1, ExecAlways, PTL

\* Unless it stopped waiting for a kernel that was still at work, w1_msg_exec()
\* returns LREC_SUCCESS exactly when nothing failed, neither the transport nor a
\* command, and LREC_PROTO_ERR when commands failed over a transport that held.
THEOREM OutcomeTold ==
  ASSUME ~Adjacent
  PROVE  Spec => []OutcomeReported
<1>1. ExecInv => OutcomeReported
  BY DEF ExecInv
<1> QED
  BY <1>1, ExecAlways, PTL
=============================================================================
