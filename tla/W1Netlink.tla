----------------------------- MODULE W1Netlink -----------------------------
(***************************************************************************)
(* The transport of src/src/w1.c: handles (w1_init, w1_free), one request  *)
(* at a time per handle (send_recv_w1msg) and the loop that collects its   *)
(* replies (recv_w1msg), against the kernel's w1 netlink connector.        *)
(*                                                                         *)
(* A reply is identified by the sequence number of its request: the kernel *)
(* works on requests in its own time, so replies come late (after the call *)
(* they answer gave up), and the socket joins every multicast group of the *)
(* connector, so it also receives messages nobody asked for.  The caller's *)
(* callback is left open here: it may answer anything.                     *)
(***************************************************************************)
EXTENDS Integers, Sequences, FiniteSets

CONSTANTS
  Handles,      \* w1_hndl_t objects (of one or of several processes)
  Ids,          \* masters and slaves a request may address
  Ports,        \* netlink port ids
  NoPort,       \* sock_nl == -1
  Requests,     \* the [type, id] pairs users send
  U32,          \* 2^32: the range of the uint32_t counter and of acks
  MaxCalls,     \* bound: requests per handle
  MaxReplies,   \* bound: datagrams the kernel sends for one request
  MaxQueue,     \* the datagrams a socket buffer holds
  MaxNoise,     \* bound: unsolicited datagrams
  NoiseKinds,   \* the kinds of netlink messages unsolicited datagrams hold
  MaxLag,       \* a reply is late by MaxLag requests of its handle at most
  Multicast,    \* TRUE: the kernel multicasts replies to every socket
  QuietReopen   \* TRUE: a port is not reused while a reply to it is underway

ASSUME PortsAssumption == NoPort \notin Ports
ASSUME RequestsAssumption ==
  Requests \subseteq [type : {"list", "master", "slave"}, id : Ids]
ASSUME BoundsAssumption ==
  /\ U32 \in Nat /\ U32 > 3
  /\ MaxCalls \in Nat /\ MaxReplies \in Nat \ {0} /\ MaxQueue \in Nat \ {0}
  /\ MaxNoise \in Nat /\ MaxLag \in Nat
  /\ Multicast \in BOOLEAN /\ QuietReopen \in BOOLEAN
ASSUME NoiseAssumption == NoiseKinds \subseteq {"data", "error", "noop", "other"}

VARIABLES
  sock,     \* sock[h]: the port of p_hndl->sock_nl, NoPort when closed
  seq,      \* seq[h]: p_hndl->seq
  pc,       \* pc[h]: "closed", "idle", or in a call: "poll" in poll(), "parse"
            \* in the w1 message chain, "spin" in the netlink message chain
  req,      \* req[h]: the request of the call in progress
  more,     \* more[h]: more_stat
  rcvd,     \* rcvd[h]: n_rcv_msgs > 0
  buf,      \* buf[h]: the messages of recv_buf not yet handled
  ret,      \* ret[h]: the result of the last operation
  rxq,      \* rxq[h]: datagrams waiting in the socket
  lost,     \* lost[h]: the socket dropped a datagram, ENOBUFS is pending
  jobs,     \* requests the kernel has not finished
  noise,    \* unsolicited datagrams so far
  call,     \* history: call[h] numbers the requests of h
  got       \* history: got[h], the callbacks run for the last request

vars == <<sock, seq, pc, req, more, rcvd, buf, ret, rxq, lost, jobs, noise, call, got>>

AckStat == U32 - 1          \* ACK_STAT_VAL
SeqRangeTooWide == AckStat  \* mutant: a data reply can echo ACK_STAT_VAL
SeqRange == AckStat - 1     \* SEQ_RANGE
Seqs == 0..(SeqRange - 1)
NoCall == <<"none", 0>>     \* the origin of a message that answers nobody

MoreStat == {"no", "req", "opt"}    \* w1msg_more_stat_t
Types == {"list", "master", "slave"}
Results == {"SUCCESS", "NO_RESP", "COMM_ERR", "PROTO_ERR", "BAD_MSG", "MSG_SIZE"}

Request == [type : Types, id : Ids, seq : Seqs]
NoRequest == [type |-> "none", id |-> "none", seq |-> 0]

\* A w1 message with the fields of the connector message around it.  `from` and
\* `status` (what the kernel meant) are history, not part of the message.
Message ==
  [w1 : BOOLEAN, seq : 0..(U32 - 1), ack : 0..(U32 - 1),
   type : Types \cup {"notify"}, id : Ids,
   from : (Handles \X Nat) \cup {NoCall}, status : BOOLEAN]
Datagram == [nl : {"data", "error", "noop", "other"}, msgs : Seq(Message)]
Job == [port : Ports, seq : Seqs, type : Types, id : Ids,
        from : Handles \X Nat, left : 1..MaxReplies]
Callback == [from : (Handles \X Nat) \cup {NoCall}, status : BOOLEAN,
             told : BOOLEAN, more : MoreStat]

TypeOK ==
  /\ sock \in [Handles -> Ports \cup {NoPort}]
  /\ seq \in [Handles -> 0..(U32 - 1)]
  /\ pc \in [Handles -> {"closed", "idle", "poll", "parse", "spin"}]
  /\ \A h \in Handles : pc[h] = "closed" <=> sock[h] = NoPort
  /\ req \in [Handles -> Request \cup {NoRequest}]
  /\ more \in [Handles -> MoreStat]
  /\ rcvd \in [Handles -> BOOLEAN]
  /\ buf \in [Handles -> Seq(Message)]
  /\ ret \in [Handles -> Results]
  /\ rxq \in [Handles -> Seq(Datagram)]
  /\ lost \in [Handles -> BOOLEAN]
  /\ jobs \subseteq Job
  /\ noise \in Nat
  /\ call \in [Handles -> Nat]
  /\ got \in [Handles -> Seq(Callback)]

Init ==
  /\ sock = [h \in Handles |-> NoPort]
  /\ seq = [h \in Handles |-> 0]
  /\ pc = [h \in Handles |-> "closed"]
  /\ req = [h \in Handles |-> NoRequest]
  /\ more = [h \in Handles |-> "no"]
  /\ rcvd = [h \in Handles |-> FALSE]
  /\ buf = [h \in Handles |-> <<>>]
  /\ ret = [h \in Handles |-> "SUCCESS"]
  /\ rxq = [h \in Handles |-> <<>>]
  /\ lost = [h \in Handles |-> FALSE]
  /\ jobs = {}
  /\ noise = 0
  /\ call = [h \in Handles |-> 0]
  /\ got = [h \in Handles |-> <<>>]

-----------------------------------------------------------------------------
(***************************************************************************)
(* Handles: w1_init() and w1_free(); a process that dies in a call leaves  *)
(* the closing of its socket to the kernel.                                *)
(***************************************************************************)

\* The locals of recv_w1msg() die with the call.
LeaveCall(h) ==
  /\ req' = [req EXCEPT ![h] = NoRequest]
  /\ more' = [more EXCEPT ![h] = "no"]
  /\ rcvd' = [rcvd EXCEPT ![h] = FALSE]
  /\ buf' = [buf EXCEPT ![h] = <<>>]

\* w1_init(): memset() clears the counter, bind() picks a free port.
w1_init(h) ==
  /\ pc[h] = "closed"
  /\ seq' = [seq EXCEPT ![h] = 0]
  /\ \/ \E p \in Ports :
          /\ \A g \in Handles : sock[g] # p
          /\ QuietReopen => \A j \in jobs : j.port # p
          /\ sock' = [sock EXCEPT ![h] = p]
          /\ pc' = [pc EXCEPT ![h] = "idle"]
          /\ ret' = [ret EXCEPT ![h] = "SUCCESS"]
     \/ \* socket() or bind() fails; w1_free()
        /\ ret' = [ret EXCEPT ![h] = "COMM_ERR"]
        /\ UNCHANGED <<sock, pc>>
  /\ UNCHANGED <<req, more, rcvd, buf, rxq, lost, jobs, noise, call, got>>

\* w1_free() between calls, or the death of the process at any point; what
\* waits in the socket is dropped with it.
w1_free(h) ==
  /\ pc[h] # "closed"
  /\ sock' = [sock EXCEPT ![h] = NoPort]
  /\ pc' = [pc EXCEPT ![h] = "closed"]
  /\ rxq' = [rxq EXCEPT ![h] = <<>>]
  /\ lost' = [lost EXCEPT ![h] = FALSE]
  /\ LeaveCall(h)
  /\ UNCHANGED <<seq, ret, jobs, noise, call, got>>

-----------------------------------------------------------------------------
(***************************************************************************)
(* send_recv_w1msg(): the sending half.                                    *)
(***************************************************************************)

\* the sequence number of the request sent when the handle's counter is n
SeqOf(n) == n % SeqRange

\* Something still underway answers request n of handle h.
Underway(h, n) ==
  \/ \E j \in jobs : j.from = <<h, n>>
  \/ \E g \in Handles : \E i \in 1..Len(rxq[g]) : \E k \in 1..Len(rxq[g][i].msgs) :
        rxq[g][i].msgs[k].from = <<h, n>>

\* mutants: the counter never advances; it is not confined to 32 bits
NewRequestSameSeq(h) ==
  /\ pc[h] = "idle" /\ call[h] < MaxCalls
  /\ \A n \in 1..call[h] : n + MaxLag < call[h] + 1 => ~Underway(h, n)
  /\ call' = [call EXCEPT ![h] = @ + 1]
  /\ got' = [got EXCEPT ![h] = <<>>]
  /\ UNCHANGED seq
NewRequestWide(h) ==
  /\ pc[h] = "idle" /\ call[h] < MaxCalls
  /\ \A n \in 1..call[h] : n + MaxLag < call[h] + 1 => ~Underway(h, n)
  /\ seq' = [seq EXCEPT ![h] = @ + 1]
  /\ call' = [call EXCEPT ![h] = @ + 1]
  /\ got' = [got EXCEPT ![h] = <<>>]

\* A new request takes the next number; when it does, replies to requests more
\* than MaxLag back are over and done with.
NewRequest(h) ==
  /\ pc[h] = "idle" /\ call[h] < MaxCalls
  /\ \A n \in 1..call[h] : n + MaxLag < call[h] + 1 => ~Underway(h, n)
  /\ seq' = [seq EXCEPT ![h] = (@ + 1) % U32]
  /\ call' = [call EXCEPT ![h] = @ + 1]
  /\ got' = [got EXCEPT ![h] = <<>>]

Send(h, r) ==
  /\ NewRequest(h)
  /\ req' = [req EXCEPT ![h] = [type |-> r.type, id |-> r.id, seq |-> SeqOf(seq[h])]]
  /\ jobs' = jobs \cup
       {[port |-> sock[h], seq |-> SeqOf(seq[h]), type |-> r.type, id |-> r.id,
         from |-> <<h, call[h] + 1>>, left |-> MaxReplies]}
  /\ pc' = [pc EXCEPT ![h] = "poll"]
  /\ more' = [more EXCEPT ![h] = "req"]
  /\ rcvd' = [rcvd EXCEPT ![h] = FALSE]
  /\ UNCHANGED <<sock, buf, ret, rxq, lost, noise>>

\* send() fails: the sequence number is spent all the same.
SendFails(h) ==
  /\ NewRequest(h)
  /\ ret' = [ret EXCEPT ![h] = "COMM_ERR"]
  /\ UNCHANGED <<sock, pc, req, more, rcvd, buf, rxq, lost, jobs, noise>>

\* The message does not fit the send buffer: refused before it takes a number.
TooLong(h) ==
  /\ pc[h] = "idle"
  /\ ret' = [ret EXCEPT ![h] = "MSG_SIZE"]
  /\ UNCHANGED <<sock, seq, pc, req, more, rcvd, buf, rxq, lost, jobs, noise, call, got>>

-----------------------------------------------------------------------------
(***************************************************************************)
(* recv_w1msg(): poll(), then one datagram at a time.                      *)
(***************************************************************************)

Return(h, r) ==
  /\ ret' = [ret EXCEPT ![h] = r]
  /\ pc' = [pc EXCEPT ![h] = "idle"]
  /\ LeaveCall(h)

\* mutants: any traffic counts as an answer; an optional message is waited for
\* until it comes
PollTimeoutAnyTraffic(h) ==
  /\ pc[h] = "poll" /\ rxq[h] = <<>> /\ ~lost[h]
  /\ Return(h, IF ~rcvd[h] THEN "NO_RESP" ELSE "SUCCESS")
  /\ UNCHANGED <<sock, seq, rxq, lost, jobs, noise, call, got>>
PollTimeoutRequiredOnly(h) ==
  /\ pc[h] = "poll" /\ rxq[h] = <<>> /\ ~lost[h] /\ more[h] # "opt"
  /\ Return(h, IF ~rcvd[h] \/ more[h] = "req" THEN "NO_RESP" ELSE "SUCCESS")
  /\ UNCHANGED <<sock, seq, rxq, lost, jobs, noise, call, got>>

\* poll() ran for 1000, 50 or 1 ms, as more[h] asks, with nothing to read.
PollTimeout(h) ==
  /\ pc[h] = "poll" /\ rxq[h] = <<>> /\ ~lost[h]
  /\ Return(h, IF ~rcvd[h] \/ more[h] = "req" THEN "NO_RESP" ELSE "SUCCESS")
  /\ UNCHANGED <<sock, seq, rxq, lost, jobs, noise, call, got>>

\* poll() fails (a signal), or recv() does: with ENOBUFS when the socket
\* overflowed, which recv() reports once, before what it holds.
PollFails(h) ==
  /\ pc[h] = "poll"
  /\ lost' = [lost EXCEPT ![h] = FALSE]
  /\ Return(h, "COMM_ERR")
  /\ UNCHANGED <<sock, seq, rxq, jobs, noise, call, got>>

\* recv() and the walk over the datagram's netlink messages.  An empty message
\* of type NLMSG_NOOP is met by a `continue` that does not step over it.
Recv(h) ==
  /\ pc[h] = "poll" /\ rxq[h] # <<>> /\ ~lost[h]
  /\ rxq' = [rxq EXCEPT ![h] = Tail(@)]
  /\ \/ /\ Head(rxq[h]).nl = "error"
        /\ Return(h, "PROTO_ERR")
     \/ /\ Head(rxq[h]).nl = "other"
        /\ Return(h, "BAD_MSG")
     \/ /\ Head(rxq[h]).nl = "noop"
        /\ pc' = [pc EXCEPT ![h] = "spin"]
        /\ UNCHANGED <<ret, req, more, rcvd, buf>>
     \/ /\ Head(rxq[h]).nl = "data"
        /\ pc' = [pc EXCEPT ![h] = "parse"]
        /\ rcvd' = [rcvd EXCEPT ![h] = TRUE]
        /\ buf' = [buf EXCEPT ![h] = Head(rxq[h]).msgs]
        /\ UNCHANGED <<ret, req, more>>
  /\ UNCHANGED <<sock, seq, lost, jobs, noise, call, got>>

\* mutant: the sequence number is not compared
AcceptedAnySeq(h, m) ==
  /\ m.w1
  /\ m.type = req[h].type
  /\ m.type # "list" => m.id = req[h].id

\* the filter on connector messages and the one on w1 messages
Accepted(h, m) ==
  /\ m.w1 /\ m.seq = req[h].seq
  /\ m.type = req[h].type
  /\ m.type # "list" => m.id = req[h].id

\* The next message of the datagram: called back when it passes the filters and
\* more messages are wanted, skipped otherwise.
HandleMessage(h) ==
  /\ pc[h] = "parse" /\ buf[h] # <<>>
  /\ LET m == Head(buf[h])
     IN \/ /\ Accepted(h, m) /\ more[h] # "no"
           /\ \E a \in MoreStat :
                /\ more' = [more EXCEPT ![h] = a]
                /\ got' = [got EXCEPT ![h] = Append(@,
                     [from |-> m.from, status |-> m.status,
                      told |-> (m.ack = AckStat), more |-> a])]
        \/ /\ ~(Accepted(h, m) /\ more[h] # "no")
           /\ UNCHANGED <<more, got>>
  /\ buf' = [buf EXCEPT ![h] = Tail(@)]
  /\ UNCHANGED <<sock, seq, pc, req, rcvd, ret, rxq, lost, jobs, noise, call>>

\* The end of the datagram: back to poll().
EndOfDatagram(h) ==
  /\ pc[h] = "parse" /\ buf[h] = <<>>
  /\ pc' = [pc EXCEPT ![h] = "poll"]
  /\ UNCHANGED <<sock, seq, req, more, rcvd, buf, ret, rxq, lost, jobs, noise, call, got>>

-----------------------------------------------------------------------------
(***************************************************************************)
(* The kernel (external).  A data reply acknowledges seq + 1, a status     *)
(* echoes the ack of the request, ACK_STAT_VAL.  Replies may be bundled.   *)
(***************************************************************************)

\* datagram d reaches the sockets of the handles in S
Deliver(S, d) ==
  /\ rxq' = [h \in Handles |->
       IF h \in S /\ Len(rxq[h]) < MaxQueue THEN Append(rxq[h], d) ELSE rxq[h]]
  /\ lost' = [h \in Handles |-> lost[h] \/ (h \in S /\ Len(rxq[h]) >= MaxQueue)]

Open == {h \in Handles : sock[h] # NoPort}

ReplyTo(j, kind) ==
  [w1 |-> TRUE, seq |-> j.seq,
   ack |-> IF kind = "status" THEN AckStat ELSE (j.seq + 1) % U32,
   type |-> j.type, id |-> j.id, from |-> j.from, status |-> kind = "status"]

Reply(j) ==
  /\ \E bundle \in {<<"data">>, <<"status">>, <<"data", "status">>} :
       Deliver(IF Multicast THEN Open ELSE {h \in Open : sock[h] = j.port},
               [nl |-> "data", msgs |-> [i \in DOMAIN bundle |-> ReplyTo(j, bundle[i])]])
  /\ jobs' = (jobs \ {j}) \cup
       {[j EXCEPT !.left = i] : i \in {k \in 1..MaxReplies : k = j.left - 1}}
  /\ UNCHANGED <<sock, seq, pc, req, more, rcvd, buf, ret, noise, call, got>>

\* The kernel is done with a request, maybe without a reply.
Finish(j) ==
  /\ jobs' = jobs \ {j}
  /\ UNCHANGED <<sock, seq, pc, req, more, rcvd, buf, ret, rxq, lost, noise, call, got>>

\* Messages nobody asked for: of another connector user, with any numbers, or a
\* w1 notification, which carries a sequence number of the bus master's own.
Stray(r, s) ==
  {[w1 |-> FALSE, seq |-> s, ack |-> AckStat, type |-> r.type, id |-> r.id,
    from |-> NoCall, status |-> FALSE],
   [w1 |-> TRUE, seq |-> s, ack |-> 0, type |-> "notify", id |-> r.id,
    from |-> NoCall, status |-> FALSE]}

Noise(k) ==
  /\ noise < MaxNoise
  /\ noise' = noise + 1
  /\ \/ /\ k = "data"
        /\ \E r \in Requests, s \in Seqs : \E m \in Stray(r, s) :
             Deliver(Open, [nl |-> k, msgs |-> <<m>>])
     \/ /\ k # "data"
        /\ \E h \in Open : Deliver({h}, [nl |-> k, msgs |-> <<>>])
  /\ UNCHANGED <<sock, seq, pc, req, more, rcvd, buf, ret, jobs, call, got>>

-----------------------------------------------------------------------------
Receiver(h) ==
  \/ PollTimeout(h) \/ PollFails(h) \/ Recv(h)
  \/ HandleMessage(h) \/ EndOfDatagram(h)

User(h) ==
  \/ w1_init(h) \/ w1_free(h)
  \/ \E r \in Requests : Send(h, r)
  \/ SendFails(h) \/ TooLong(h)

Kernel ==
  \/ \E j \in jobs : Reply(j) \/ Finish(j)
  \/ \E k \in NoiseKinds : Noise(k)

Next == Kernel \/ \E h \in Handles : User(h) \/ Receiver(h)

Spec == Init /\ [][Next]_vars

\* A thread in a call keeps running; the kernel and the user need not.
FairSpec ==
  Spec /\ \A h \in Handles :
    WF_vars(PollTimeout(h) \/ Recv(h) \/ HandleMessage(h) \/ EndOfDatagram(h)
            \/ (lost[h] /\ PollFails(h)))

-----------------------------------------------------------------------------
(***************************************************************************)
(* Properties.                                                             *)
(***************************************************************************)

\* What a callback is given answers the request being executed, never an
\* earlier request of the handle or a request of another handle (w1.c 86-88).
OwnReplies ==
  \A h \in Handles : \A i \in 1..Len(got[h]) : got[h][i].from = <<h, call[h]>>

\* A callback is told that a message is a status exactly when the kernel sent it
\* as one: no data reply's ack, seq + 1, can be ACK_STAT_VAL (w1.c 29-30, 366).
StatusUnmistaken ==
  \A h \in Handles : \A i \in 1..Len(got[h]) : got[h][i].told = got[h][i].status

-----------------------------------------------------------------------------
(***************************************************************************)
(* Why replies are told apart: the invariants behind the two properties.   *)
(***************************************************************************)

\* the messages on their way from the kernel to the callback of h
InFlight(h) ==
  {buf[h][k] : k \in 1..Len(buf[h])} \cup
  UNION {{rxq[h][i].msgs[k] : k \in 1..Len(rxq[h][i].msgs)} : i \in 1..Len(rxq[h])}

\* m is from the w1 connector and answers a request
IsReply(m) == m.w1 /\ m.type # "notify"

\* the counter before its last step
Back(n) == IF n = 0 THEN U32 - 1 ELSE n - 1

\* Request n of h is the last one or the one before, and had sequence number s.
Recent(h, n, s) ==
  /\ n \in 1..call[h]
  /\ \/ n = call[h] /\ s = SeqOf(Back(seq[h]))
     \/ n + 1 = call[h] /\ s = SeqOf(Back(Back(seq[h])))

\* The replies on their way to h answer its last two requests, ...
FlightRecent(h) ==
  \A m \in InFlight(h) :
    IsReply(m) => \E n \in 1..call[h] : m.from = <<h, n>> /\ Recent(h, n, m.seq)

\* ... so do the ones the kernel is still to send to its port, ...
JobsRecent(h) ==
  \A j \in jobs : sock[h] = j.port =>
    \E n \in 1..call[h] : j.from = <<h, n>> /\ Recent(h, n, j.seq)

\* ... no two sockets share a port, ...
OnePort ==
  \A g, h \in Handles : sock[g] = sock[h] /\ sock[h] # NoPort => g = h

\* ... and the call in progress is for the last request.
CallLast(h) ==
  /\ pc[h] \in {"poll", "parse", "spin"} => req[h].seq = SeqOf(Back(seq[h]))
  /\ pc[h] # "parse" => buf[h] = <<>>
  /\ pc[h] = "closed" => rxq[h] = <<>>

\* Every reply on its way to a handle, or still to be sent to its port, answers
\* the last request of that handle or the one before, under its own number: with
\* replies no later than that, the numbers of two requests are all that counts.
RepliesRecent ==
  OnePort /\ \A h \in Handles : FlightRecent(h) /\ JobsRecent(h) /\ CallLast(h)

\* Every reply underway has the ack that tells what it is.
AcksTell ==
  \A h \in Handles : \A m \in InFlight(h) :
    IsReply(m) => m.status = (m.ack = AckStat)

-----------------------------------------------------------------------------
\* A call returns whatever the kernel does, as long as it stops talking: no
\* answer of the callback and no late, lost or stray message holds it up.
CallsReturn ==
  \A h \in Handles :
    pc[h] \in {"poll", "parse", "spin"} ~> pc[h] \in {"idle", "closed"}

\* What W1Link sees of the transport.
Phase ==
  [h \in Handles |-> IF pc[h] \in {"poll", "parse", "spin"} THEN "busy" ELSE pc[h]]
Answers ==
  [h \in Handles |-> [i \in 1..Len(got[h]) |->
     [own |-> got[h][i].from = <<h, call[h]>>,
      told |-> got[h][i].told = got[h][i].status,
      more |-> got[h][i].more]]]

\* The transport keeps the promise of W1Link: own replies only, none after the
\* callback declined, success only when no further message was required.
Link == INSTANCE W1Link WITH phase <- Phase, answers <- Answers, result <- ret
ImplementsLink == Link!Spec
=============================================================================
