-------------------------- MODULE W1NetlinkProofs --------------------------
(***************************************************************************)
(* What holds of W1Netlink for every number of handles, requests, replies  *)
(* and stray messages, and for every width of the counter.                 *)
(***************************************************************************)
EXTENDS W1Netlink, TLAPS

(***************************************************************************)
(* Type correctness.                                                       *)
(***************************************************************************)

\* The sequence number taken from a 32-bit counter is in the range that w1.c
\* line 29 gives, and the counter stays in its 32 bits.
LEMMA SeqOfType ==
  ASSUME NEW n \in 0..(U32 - 1)
  PROVE  SeqOf(n) \in Seqs /\ (n + 1) % U32 \in 0..(U32 - 1)
  BY BoundsAssumption DEF SeqOf, Seqs, SeqRange, AckStat

\* A datagram of replies to a job is well formed.
LEMMA ReplyType ==
  ASSUME NEW j \in Job, NEW bundle \in {<<"data">>, <<"status">>, <<"data", "status">>}
  PROVE  [nl |-> "data", msgs |-> [i \in DOMAIN bundle |-> ReplyTo(j, bundle[i])]]
           \in Datagram
<1>1. \A k \in {"data", "status"} : ReplyTo(j, k) \in Message
  <2> SUFFICES ASSUME NEW k \in {"data", "status"} PROVE ReplyTo(j, k) \in Message
    OBVIOUS
  <2>1. j.seq \in 0..(U32 - 1) /\ (j.seq + 1) % U32 \in 0..(U32 - 1) /\ AckStat \in 0..(U32 - 1)
    BY BoundsAssumption DEF Job, Seqs, SeqRange, AckStat
  <2>2. QED
    BY <2>1 DEF ReplyTo, Message, Job
<1>2. bundle \in Seq({"data", "status"})
  <2>1. <<"data">> \in Seq({"data", "status"})
    OBVIOUS
  <2>2. <<"status">> \in Seq({"data", "status"})
    OBVIOUS
  <2>3. <<"data", "status">> \in Seq({"data", "status"})
    OBVIOUS
  <2>4. QED
    BY <2>1, <2>2, <2>3
<1>3. DOMAIN bundle = 1..Len(bundle) /\ \A i \in DOMAIN bundle : bundle[i] \in {"data", "status"}
  BY <1>2
<1>4. [i \in 1..Len(bundle) |-> ReplyTo(j, bundle[i])] \in Seq(Message)
  BY <1>1, <1>2, <1>3
<1>5. QED
  BY <1>3, <1>4 DEF Datagram

\* So is a datagram nobody asked for.
LEMMA StrayType ==
  ASSUME NEW r \in Requests, NEW s \in Seqs, NEW m \in Stray(r, s)
  PROVE  [nl |-> "data", msgs |-> <<m>>] \in Datagram
<1>1. /\ s \in 0..(U32 - 1) /\ AckStat \in 0..(U32 - 1) /\ 0 \in 0..(U32 - 1)
      /\ r.type \in Types /\ r.id \in Ids
  BY BoundsAssumption, RequestsAssumption DEF Seqs, SeqRange, AckStat, Types
<1>2. m \in Message
  <2>1. CASE m = [w1 |-> FALSE, seq |-> s, ack |-> AckStat, type |-> r.type, id |-> r.id,
                  from |-> NoCall, status |-> FALSE]
    BY <1>1, <2>1 DEF Message
  <2>2. CASE m = [w1 |-> TRUE, seq |-> s, ack |-> 0, type |-> "notify", id |-> r.id,
                  from |-> NoCall, status |-> FALSE]
    BY <1>1, <2>2 DEF Message
  <2>3. QED
    BY <2>1, <2>2 DEF Stray
<1>3. QED
  BY <1>2 DEF Datagram

\* Delivery keeps the sockets well formed.
LEMMA DeliverType ==
  ASSUME TypeOK, NEW S, NEW d \in Datagram, Deliver(S, d)
  PROVE  rxq' \in [Handles -> Seq(Datagram)] /\ lost' \in [Handles -> BOOLEAN]
  BY DEF TypeOK, Deliver

\* A new request keeps the counters well formed.
LEMMA NewRequestType ==
  ASSUME TypeOK, NEW h \in Handles, NewRequest(h)
  PROVE  /\ seq' \in [Handles -> 0..(U32 - 1)] /\ call' \in [Handles -> Nat]
         /\ got' \in [Handles -> Seq(Callback)]
<1>1. seq[h] \in 0..(U32 - 1) /\ seq \in [Handles -> 0..(U32 - 1)]
  BY DEF TypeOK
<1>2. (seq[h] + 1) % U32 \in 0..(U32 - 1)
  BY <1>1, SeqOfType
<1>3. seq' \in [Handles -> 0..(U32 - 1)]
  BY <1>1, <1>2 DEF NewRequest
<1>4. QED
  BY <1>3 DEF TypeOK, NewRequest

LEMMA TypeStep == TypeOK /\ [Next]_vars => TypeOK'
<1> SUFFICES ASSUME TypeOK, [Next]_vars PROVE TypeOK'
  OBVIOUS
<1> USE BoundsAssumption
<1>1. ASSUME NEW h \in Handles, w1_init(h) PROVE TypeOK'
  <2>1. seq' \in [Handles -> 0..(U32 - 1)]
    BY <1>1 DEF TypeOK, w1_init
  <2>2. ASSUME NEW p \in Ports, sock' = [sock EXCEPT ![h] = p],
               pc' = [pc EXCEPT ![h] = "idle"], ret' = [ret EXCEPT ![h] = "SUCCESS"]
        PROVE  TypeOK'
    BY <1>1, <2>1, <2>2, PortsAssumption DEF TypeOK, w1_init, Results
  <2>3. ASSUME ret' = [ret EXCEPT ![h] = "COMM_ERR"], UNCHANGED <<sock, pc>>
        PROVE  TypeOK'
    BY <1>1, <2>1, <2>3 DEF TypeOK, w1_init, Results
  <2>4. QED
    BY <1>1, <2>2, <2>3 DEF w1_init
<1>2. ASSUME NEW h \in Handles, w1_free(h) PROVE TypeOK'
  BY <1>2 DEF TypeOK, w1_free, LeaveCall, MoreStat
<1>3. ASSUME NEW h \in Handles, NEW r \in Requests, Send(h, r) PROVE TypeOK'
  <2>1. /\ SeqOf(seq[h]) \in Seqs /\ sock[h] \in Ports
        /\ r.type \in Types /\ r.id \in Ids
    BY <1>3, SeqOfType, RequestsAssumption DEF TypeOK, Send, NewRequest, Types
  <2>2. /\ seq' \in [Handles -> 0..(U32 - 1)] /\ call' \in [Handles -> Nat]
        /\ got' \in [Handles -> Seq(Callback)]
    BY <1>3, NewRequestType DEF Send
  <2>3. req' \in [Handles -> Request \cup {NoRequest}]
    BY <1>3, <2>1 DEF TypeOK, Send, Request
  <2>4. jobs' \subseteq Job
    BY <1>3, <2>1 DEF TypeOK, Send, Job
  <2>5. /\ pc' \in [Handles -> {"closed", "idle", "poll", "parse", "spin"}]
        /\ \A g \in Handles : pc'[g] = "closed" <=> sock'[g] = NoPort
        /\ more' \in [Handles -> MoreStat] /\ rcvd' \in [Handles -> BOOLEAN]
    BY <1>3 DEF TypeOK, Send, NewRequest, MoreStat
  <2>6. QED
    BY <1>3, <2>2, <2>3, <2>4, <2>5 DEF TypeOK, Send
<1>4. ASSUME NEW h \in Handles, SendFails(h) PROVE TypeOK'
  <2>1. /\ seq' \in [Handles -> 0..(U32 - 1)] /\ call' \in [Handles -> Nat]
        /\ got' \in [Handles -> Seq(Callback)]
    BY <1>4, NewRequestType DEF SendFails
  <2>2. QED
    BY <1>4, <2>1 DEF TypeOK, SendFails, Results
<1>5. ASSUME NEW h \in Handles, TooLong(h) PROVE TypeOK'
  BY <1>5 DEF TypeOK, TooLong, Results
<1>6. ASSUME NEW h \in Handles, PollTimeout(h) PROVE TypeOK'
  BY <1>6 DEF TypeOK, PollTimeout, Return, LeaveCall, Results, MoreStat
<1>7. ASSUME NEW h \in Handles, PollFails(h) PROVE TypeOK'
  BY <1>7 DEF TypeOK, PollFails, Return, LeaveCall, Results, MoreStat
<1>8. ASSUME NEW h \in Handles, Recv(h) PROVE TypeOK'
  <2>1. Head(rxq[h]) \in Datagram /\ rxq' \in [Handles -> Seq(Datagram)]
    BY <1>8 DEF TypeOK, Recv
  <2>2. CASE Head(rxq[h]).nl = "data"
    <3>1. buf' \in [Handles -> Seq(Message)]
      BY <1>8, <2>1, <2>2 DEF TypeOK, Recv, Datagram
    <3>2. QED
      BY <1>8, <2>1, <2>2, <3>1 DEF TypeOK, Recv
  <2>3. CASE Head(rxq[h]).nl = "noop"
    BY <1>8, <2>1, <2>3 DEF TypeOK, Recv
  <2>4. CASE Head(rxq[h]).nl \in {"error", "other"}
    <3>1. Return(h, "PROTO_ERR") \/ Return(h, "BAD_MSG")
      BY <1>8, <2>4 DEF Recv
    <3>2. pc[h] = "poll" /\ UNCHANGED <<sock, seq, lost, jobs, noise, call, got>>
      BY <1>8 DEF Recv
    <3>3. ASSUME NEW r \in Results, Return(h, r) PROVE TypeOK'
      BY <2>1, <3>2, <3>3 DEF TypeOK, Return, LeaveCall, MoreStat
    <3>4. QED
      BY <3>1, <3>3 DEF Results
  <2>5. QED
    BY <2>1, <2>2, <2>3, <2>4 DEF Datagram
<1>9. ASSUME NEW h \in Handles, HandleMessage(h) PROVE TypeOK'
  <2>1. Head(buf[h]) \in Message /\ buf' \in [Handles -> Seq(Message)]
    BY <1>9 DEF TypeOK, HandleMessage
  <2>2. more' \in [Handles -> MoreStat] /\ got' \in [Handles -> Seq(Callback)]
    <3>1. \A a \in MoreStat :
            [from |-> Head(buf[h]).from, status |-> Head(buf[h]).status,
             told |-> (Head(buf[h]).ack = AckStat), more |-> a] \in Callback
      BY <2>1 DEF Message, Callback
    <3>2. CASE UNCHANGED <<more, got>>
      BY <3>2 DEF TypeOK
    <3>3. ASSUME NEW a \in MoreStat, more' = [more EXCEPT ![h] = a],
                 got' = [got EXCEPT ![h] = Append(@,
                   [from |-> Head(buf[h]).from, status |-> Head(buf[h]).status,
                    told |-> (Head(buf[h]).ack = AckStat), more |-> a])]
          PROVE  more' \in [Handles -> MoreStat] /\ got' \in [Handles -> Seq(Callback)]
      BY <3>1, <3>3 DEF TypeOK
    <3>4. QED
      BY <1>9, <3>2, <3>3 DEF HandleMessage
  <2>3. QED
    BY <1>9, <2>1, <2>2 DEF TypeOK, HandleMessage
<1>10. ASSUME NEW h \in Handles, EndOfDatagram(h) PROVE TypeOK'
  BY <1>10 DEF TypeOK, EndOfDatagram
<1>11. ASSUME NEW j \in jobs, Reply(j) PROVE TypeOK'
  <2>1. j \in Job
    BY DEF TypeOK
  <2>2. rxq' \in [Handles -> Seq(Datagram)] /\ lost' \in [Handles -> BOOLEAN]
    BY <1>11, <2>1, ReplyType, DeliverType DEF Reply
  <2>3. jobs' \subseteq Job
    <3>1. \A i \in 1..MaxReplies : [j EXCEPT !.left = i] \in Job
      BY <2>1 DEF Job
    <3>2. QED
      BY <1>11, <3>1 DEF TypeOK, Reply
  <2>4. QED
    BY <1>11, <2>2, <2>3 DEF TypeOK, Reply
<1>12. ASSUME NEW j \in jobs, Finish(j) PROVE TypeOK'
  BY <1>12 DEF TypeOK, Finish
<1>13. ASSUME NEW k \in NoiseKinds, Noise(k) PROVE TypeOK'
  <2>1. rxq' \in [Handles -> Seq(Datagram)] /\ lost' \in [Handles -> BOOLEAN]
    <3>1. CASE k = "data"
      BY <1>13, <3>1, StrayType, DeliverType DEF Noise
    <3>2. CASE k # "data"
      <4>1. [nl |-> k, msgs |-> <<>>] \in Datagram
        BY NoiseAssumption DEF Datagram
      <4>2. QED
        BY <1>13, <3>2, <4>1, DeliverType DEF Noise
    <3>3. QED
      BY <3>1, <3>2
  <2>2. QED
    BY <1>13, <2>1 DEF TypeOK, Noise
<1>14. CASE UNCHANGED vars
  BY <1>14 DEF TypeOK, vars
<1>15. QED
  BY <1>1, <1>2, <1>3, <1>4, <1>5, <1>6, <1>7, <1>8, <1>9, <1>10, <1>11, <1>12,
     <1>13, <1>14 DEF Next, Kernel, User, Receiver

\* Every reachable state is well typed: in particular the handle's counter stays
\* in 32 bits and every sequence number in SEQ_RANGE (w1.c 29-30, 357).
THEOREM TypeCorrect == Spec => []TypeOK
<1>1. Init => TypeOK
  BY BoundsAssumption DEF Init, TypeOK, MoreStat, Results
<1>2. QED
  BY <1>1, TypeStep, PTL DEF Spec

(***************************************************************************)
(* Messages move from the kernel through the socket to the receive buffer  *)
(* and do not change on the way.                                           *)
(***************************************************************************)

\* What a step adds to the messages on their way to h: a reply the kernel sends
\* to the port of h, or to every open handle, or a stray message.
Sent(h, m) ==
  \/ /\ \E j \in jobs : \E k \in {"data", "status"} :
          m = ReplyTo(j, k) /\ (Multicast \/ sock[h] = j.port)
  \/ \E r \in Requests, s \in Seqs : m \in Stray(r, s)

\* A message waiting in the socket is on its way, and one on its way after a step
\* waits in the receive buffer or in the socket.
LEMMA FlightIntro ==
  ASSUME NEW h \in Handles, NEW i \in 1..Len(rxq[h]), NEW k \in 1..Len(rxq[h][i].msgs)
  PROVE  rxq[h][i].msgs[k] \in InFlight(h)
<1>1. rxq[h][i].msgs[k] \in {rxq[h][i].msgs[l] : l \in 1..Len(rxq[h][i].msgs)}
  OBVIOUS
<1>2. QED
  BY <1>1 DEF InFlight

LEMMA FlightElim ==
  ASSUME NEW h \in Handles, NEW m \in InFlight(h)'
  PROVE  \/ \E k \in 1..Len(buf'[h]) : m = buf'[h][k]
         \/ \E i \in 1..Len(rxq'[h]) : \E k \in 1..Len(rxq'[h][i].msgs) :
              m = rxq'[h][i].msgs[k]
  BY DEF InFlight

\* A delivery adds the messages of the datagram to the sockets it reaches only.
LEMMA DeliverFlight ==
  ASSUME TypeOK, NEW S, NEW d \in Datagram, Deliver(S, d), UNCHANGED buf,
         NEW h \in Handles, NEW m \in InFlight(h)'
  PROVE  m \in InFlight(h) \/ (h \in S /\ \E k \in 1..Len(d.msgs) : m = d.msgs[k])
<1>1. rxq[h] \in Seq(Datagram)
  BY DEF TypeOK
<1>2. rxq'[h] = rxq[h] \/ (h \in S /\ rxq'[h] = Append(rxq[h], d))
  BY DEF Deliver
<1>3. CASE rxq'[h] = rxq[h]
  BY <1>3 DEF InFlight
<1>4. CASE h \in S /\ rxq'[h] = Append(rxq[h], d)
  <2>1. CASE \E k \in 1..Len(buf[h]) : m = buf[h][k]
    BY <2>1 DEF InFlight
  <2>2. CASE \E i \in 1..Len(rxq'[h]) : \E k \in 1..Len(rxq'[h][i].msgs) : m = rxq'[h][i].msgs[k]
    <3>1. PICK i \in 1..Len(rxq'[h]) : \E k \in 1..Len(rxq'[h][i].msgs) : m = rxq'[h][i].msgs[k]
      BY <2>2
    <3>2. CASE i \in 1..Len(rxq[h])
      <4>1. rxq'[h][i] = rxq[h][i]
        BY <1>1, <1>4, <3>2
      <4>2. QED
        BY <3>1, <3>2, <4>1, FlightIntro
    <3>3. CASE i = Len(rxq[h]) + 1
      <4>1. rxq'[h][i] = d
        BY <1>1, <1>4, <3>3
      <4>2. QED
        BY <1>4, <3>1, <4>1
    <3>4. QED
      BY <1>1, <1>4, <3>2, <3>3
  <2>3. QED
    BY <2>1, <2>2 DEF InFlight
<1>5. QED
  BY <1>2, <1>3, <1>4

LEMMA FlightStep ==
  ASSUME TypeOK, [Next]_vars, NEW h \in Handles, NEW m \in InFlight(h)'
  PROVE  m \in InFlight(h) \/ Sent(h, m)
<1>1. ASSUME UNCHANGED <<buf, rxq>> PROVE m \in InFlight(h)
  BY <1>1 DEF InFlight
<1>2. ASSUME NEW g \in Handles, w1_free(g) PROVE m \in InFlight(h)
  <2>1. CASE g = h
    <3>1. buf'[h] = <<>> /\ rxq'[h] = <<>>
      BY <1>2, <2>1 DEF w1_free, LeaveCall, TypeOK
    <3>2. QED
      BY <3>1 DEF InFlight
  <2>2. CASE g # h
    BY <1>2, <2>2 DEF w1_free, LeaveCall, TypeOK, InFlight
  <2>3. QED
    BY <2>1, <2>2
<1>3. ASSUME NEW g \in Handles, NEW r \in Results, Return(g, r),
             rxq' = rxq \/ (rxq[g] # <<>> /\ rxq' = [rxq EXCEPT ![g] = Tail(@)])
      PROVE m \in InFlight(h)
  <2>1. \A i \in 1..Len(rxq'[h]) : \E l \in 1..Len(rxq[h]) : rxq'[h][i] = rxq[h][l]
    <3>1. CASE rxq'[h] = rxq[h]
      BY <3>1
    <3>2. CASE g = h /\ rxq[h] # <<>> /\ rxq'[h] = Tail(rxq[h])
      <4>1. rxq[h] \in Seq(Datagram)
        BY DEF TypeOK
      <4>2. \A i \in 1..Len(Tail(rxq[h])) : i + 1 \in 1..Len(rxq[h]) /\ Tail(rxq[h])[i] = rxq[h][i + 1]
        BY <3>2, <4>1
      <4>3. QED
        BY <3>2, <4>2
    <3>3. QED
      BY <1>3, <3>1, <3>2 DEF TypeOK
  <2>2. buf'[h] = <<>> \/ buf'[h] = buf[h]
    <3>1. h \in DOMAIN buf /\ buf' = [buf EXCEPT ![g] = <<>>]
      BY <1>3 DEF Return, LeaveCall, TypeOK
    <3>2. QED
      BY <3>1
  <2>3. CASE \E k \in 1..Len(buf'[h]) : m = buf'[h][k]
    <3>1. buf'[h] = buf[h]
      BY <2>2, <2>3
    <3>2. QED
      BY <2>3, <3>1 DEF InFlight
  <2>4. CASE \E i \in 1..Len(rxq'[h]) : \E k \in 1..Len(rxq'[h][i].msgs) : m = rxq'[h][i].msgs[k]
    <3>1. PICK i \in 1..Len(rxq'[h]) : \E k \in 1..Len(rxq'[h][i].msgs) : m = rxq'[h][i].msgs[k]
      BY <2>4
    <3>2. PICK k \in 1..Len(rxq'[h][i].msgs) : m = rxq'[h][i].msgs[k]
      BY <3>1
    <3>3. PICK l \in 1..Len(rxq[h]) : rxq'[h][i] = rxq[h][l]
      BY <2>1
    <3>4. QED
      BY <3>2, <3>3, FlightIntro
  <2>5. QED
    BY <2>3, <2>4, FlightElim
<1>4. ASSUME NEW g \in Handles, Recv(g) PROVE m \in InFlight(h)
  <2>1. CASE Head(rxq[g]).nl \in {"error", "other"}
    BY <1>3, <1>4, <2>1 DEF Recv, Results
  <2>2. CASE Head(rxq[g]).nl \in {"noop", "data"}
    <3>1. rxq[h] \in Seq(Datagram) /\ rxq[g] \in Seq(Datagram) /\ rxq[g] # <<>>
      BY <1>4 DEF TypeOK, Recv
    <3>2. CASE g # h
      <4>1. rxq'[h] = rxq[h] /\ buf'[h] = buf[h]
        BY <1>4, <2>2, <3>2 DEF Recv, TypeOK
      <4>2. QED
        BY <4>1 DEF InFlight
    <3>3. CASE g = h
      <4>1. /\ rxq'[h] = Tail(rxq[h])
            /\ buf'[h] = buf[h] \/ buf'[h] = rxq[h][1].msgs
        BY <1>4, <2>2, <3>1, <3>3 DEF Recv, TypeOK
      <4>2. \A i \in 1..Len(rxq'[h]) : i + 1 \in 1..Len(rxq[h]) /\ rxq'[h][i] = rxq[h][i + 1]
        BY <3>1, <3>3, <4>1
      <4>3. 1 \in 1..Len(rxq[h])
        BY <3>1, <3>3
      <4>4. QED
        BY <4>1, <4>2, <4>3 DEF InFlight
    <3>4. QED
      BY <3>2, <3>3
  <2>3. Head(rxq[g]) \in Datagram
    BY <1>4 DEF Recv, TypeOK
  <2>4. QED
    BY <2>1, <2>2, <2>3 DEF Datagram
<1>5. ASSUME NEW g \in Handles, HandleMessage(g) PROVE m \in InFlight(h)
  <2>1. buf[h] \in Seq(Message) /\ UNCHANGED rxq
    BY <1>5 DEF TypeOK, HandleMessage
  <2>2. buf'[h] = buf[h] \/ (buf[h] # <<>> /\ buf'[h] = Tail(buf[h]))
    BY <1>5 DEF HandleMessage, TypeOK
  <2>3. \A k \in 1..Len(buf'[h]) : \E l \in 1..Len(buf[h]) : buf'[h][k] = buf[h][l]
    <3>1. CASE buf'[h] = buf[h]
      BY <3>1
    <3>2. CASE buf[h] # <<>> /\ buf'[h] = Tail(buf[h])
      <4>1. \A k \in 1..Len(Tail(buf[h])) : k + 1 \in 1..Len(buf[h]) /\ Tail(buf[h])[k] = buf[h][k + 1]
        BY <2>1, <3>2
      <4>2. QED
        BY <3>2, <4>1
    <3>3. QED
      BY <2>2, <3>1, <3>2
  <2>4. QED
    BY <2>1, <2>3 DEF InFlight
<1>6. ASSUME NEW j \in jobs, Reply(j) PROVE m \in InFlight(h) \/ Sent(h, m)
  <2>1. PICK bundle \in {<<"data">>, <<"status">>, <<"data", "status">>} :
          Deliver(IF Multicast THEN Open ELSE {g \in Open : sock[g] = j.port},
                  [nl |-> "data", msgs |-> [i \in DOMAIN bundle |-> ReplyTo(j, bundle[i])]])
    BY <1>6 DEF Reply
  <2> DEFINE d == [nl |-> "data", msgs |-> [i \in DOMAIN bundle |-> ReplyTo(j, bundle[i])]]
             S == IF Multicast THEN Open ELSE {g \in Open : sock[g] = j.port}
  <2>2. d \in Datagram
    <3>1. j \in Job
      BY DEF TypeOK
    <3>2. QED
      BY <3>1, ReplyType
  <2>3. m \in InFlight(h) \/ (h \in S /\ \E k \in 1..Len(d.msgs) : m = d.msgs[k])
    <3>1. UNCHANGED buf
      BY <1>6 DEF Reply
    <3> HIDE DEF d, S
    <3>2. QED
      BY <2>1, <2>2, <3>1, DeliverFlight DEF d, S
  <2>4. \A k \in 1..Len(d.msgs) : \E kind \in {"data", "status"} : d.msgs[k] = ReplyTo(j, kind)
    OBVIOUS
  <2>5. QED
    BY <2>3, <2>4 DEF Sent
<1>7. ASSUME NEW kind \in NoiseKinds, Noise(kind) PROVE m \in InFlight(h) \/ Sent(h, m)
  <2>1. UNCHANGED buf
    BY <1>7 DEF Noise
  <2>2. CASE kind = "data"
    <3>1. PICK r \in Requests, s \in Seqs : \E x \in Stray(r, s) :
            Deliver(Open, [nl |-> "data", msgs |-> <<x>>])
      BY <1>7, <2>2 DEF Noise
    <3>2. PICK x \in Stray(r, s) : Deliver(Open, [nl |-> "data", msgs |-> <<x>>])
      BY <3>1
    <3>3. m \in InFlight(h) \/ \E k \in 1..Len(<<x>>) : m = <<x>>[k]
      BY <2>1, <3>2, StrayType, DeliverFlight
    <3>4. QED
      BY <3>3 DEF Sent
  <2>3. CASE kind # "data"
    <3>1. PICK g \in Open : Deliver({g}, [nl |-> kind, msgs |-> <<>>])
      BY <1>7, <2>3 DEF Noise
    <3>2. [nl |-> kind, msgs |-> <<>>] \in Datagram
      BY NoiseAssumption DEF Datagram
    <3>3. m \in InFlight(h) \/ \E k \in 1..Len(<<>>) : m = <<>>[k]
      BY <2>1, <3>1, <3>2, DeliverFlight
    <3>4. QED
      BY <3>3
  <2>4. QED
    BY <2>2, <2>3
<1>8. CASE UNCHANGED vars
  BY <1>1, <1>8 DEF vars
<1>9. ASSUME NEW g \in Handles, User(g) PROVE m \in InFlight(h)
  BY <1>1, <1>2, <1>9 DEF User, w1_init, Send, SendFails, TooLong
<1>10. ASSUME NEW g \in Handles, Receiver(g) PROVE m \in InFlight(h)
  <2>1. CASE PollTimeout(g) \/ PollFails(g)
    BY <1>3, <2>1 DEF PollTimeout, PollFails, Results
  <2>2. CASE EndOfDatagram(g)
    BY <1>1, <2>2 DEF EndOfDatagram
  <2>3. QED
    BY <1>4, <1>5, <1>10, <2>1, <2>2 DEF Receiver
<1>11. ASSUME NEW j \in jobs, Finish(j) PROVE m \in InFlight(h)
  BY <1>1, <1>11 DEF Finish
<1>12. QED
  BY <1>6, <1>7, <1>8, <1>9, <1>10, <1>11 DEF Next, Kernel

\* A callback record that a step leaves in got[h] was there, or is that of an
\* accepted message which waited in the receive buffer.
LEMMA GotStep ==
  ASSUME TypeOK, [Next]_vars, NEW h \in Handles, NEW i \in 1..Len(got'[h])
  PROVE  \/ i \in 1..Len(got[h]) /\ got'[h][i] = got[h][i] /\ call'[h] = call[h]
         \/ /\ pc[h] = "parse" /\ call'[h] = call[h]
            /\ \E m \in InFlight(h) :
                 /\ Accepted(h, m)
                 /\ got'[h][i].from = m.from /\ got'[h][i].status = m.status
                 /\ got'[h][i].told = (m.ack = AckStat)
<1>1. CASE got'[h] = got[h] /\ call'[h] = call[h]
  BY <1>1
<1>2. CASE got'[h] = <<>>
  BY <1>2
<1>3. ASSUME HandleMessage(h), got'[h] # got[h] PROVE
         /\ pc[h] = "parse" /\ call'[h] = call[h]
         /\ \/ i \in 1..Len(got[h]) /\ got'[h][i] = got[h][i]
            \/ \E m \in InFlight(h) :
                 /\ Accepted(h, m)
                 /\ got'[h][i].from = m.from /\ got'[h][i].status = m.status
                 /\ got'[h][i].told = (m.ack = AckStat)
  <2>1. /\ pc[h] = "parse" /\ call'[h] = call[h] /\ buf[h] # <<>>
        /\ buf[h] \in Seq(Message) /\ got[h] \in Seq(Callback) /\ h \in DOMAIN got
    BY <1>3 DEF HandleMessage, TypeOK
  <2> DEFINE m == Head(buf[h])
  <2>2. Accepted(h, m)
    BY <1>3 DEF HandleMessage
  <2>3. m \in InFlight(h)
    <3>1. m = buf[h][1] /\ 1 \in 1..Len(buf[h])
      BY <2>1
    <3>2. QED
      BY <3>1 DEF InFlight
  <2>4. PICK a \in MoreStat : got' = [got EXCEPT ![h] = Append(@,
          [from |-> m.from, status |-> m.status, told |-> (m.ack = AckStat), more |-> a])]
    BY <1>3 DEF HandleMessage
  <2> DEFINE c == [from |-> m.from, status |-> m.status, told |-> (m.ack = AckStat), more |-> a]
  <2>5. got'[h] = Append(got[h], c)
    BY <2>1, <2>4
  <2>6. \/ i \in 1..Len(got[h]) /\ got'[h][i] = got[h][i]
        \/ got'[h][i] = c
    <3> HIDE DEF c
    <3>1. QED
      BY <2>1, <2>5
  <2>7. c.from = m.from /\ c.status = m.status /\ c.told = (m.ack = AckStat)
    OBVIOUS
  <2>8. QED
    BY <2>1, <2>2, <2>3, <2>6, <2>7
<1>4. \/ got'[h] = got[h] /\ call'[h] = call[h]
      \/ got'[h] = <<>>
      \/ HandleMessage(h)
  <2>1. CASE UNCHANGED <<got, call>>
    BY <2>1
  <2>2. ASSUME NEW g \in Handles, NewRequest(g)
        PROVE  (got'[h] = got[h] /\ call'[h] = call[h]) \/ got'[h] = <<>>
    BY <2>2 DEF NewRequest, TypeOK
  <2>3. ASSUME NEW g \in Handles, HandleMessage(g), g # h
        PROVE  got'[h] = got[h] /\ call'[h] = call[h]
    BY <2>3 DEF HandleMessage, TypeOK
  <2>4. QED
    BY <2>1, <2>2, <2>3 DEF Next, Kernel, User, Receiver, Reply, Finish, Noise, w1_init,
       w1_free, Send, SendFails, TooLong, PollTimeout, PollFails, Recv, EndOfDatagram, vars
<1>5. CASE HandleMessage(h) /\ got'[h] # got[h]
  BY <1>3, <1>5, Zenon
<1>6. CASE HandleMessage(h) /\ got'[h] = got[h]
  BY <1>1, <1>6 DEF HandleMessage
<1>7. QED
  BY <1>1, <1>2, <1>4, <1>5, <1>6, Zenon

(***************************************************************************)
(* A callback is told truly what it is given.                              *)
(***************************************************************************)

\* No data reply the kernel sends carries ACK_STAT_VAL.
LEMMA ReplyTells ==
  ASSUME NEW j \in Job, NEW k \in {"data", "status"}
  PROVE  ReplyTo(j, k).status = (ReplyTo(j, k).ack = AckStat)
<1>1. j.seq \in Nat /\ j.seq + 1 < AckStat /\ (j.seq + 1) % U32 = j.seq + 1
  BY BoundsAssumption DEF Job, Seqs, SeqRange, AckStat
<1>2. QED
  BY <1>1 DEF ReplyTo

\* No request has the type of a notification.
LEMMA RequestKind ==
  ASSUME TypeOK, NEW h \in Handles
  PROVE  req[h].type # "notify"
<1>1. req[h] \in Request \/ req[h] = NoRequest
  BY DEF TypeOK
<1>2. CASE req[h] = NoRequest
  BY <1>2 DEF NoRequest
<1>3. CASE req[h] \in Request
  <2>1. req[h].type \in Types
    BY <1>3 DEF Request
  <2>2. QED
    BY <2>1 DEF Types
<1>4. QED
  BY <1>1, <1>2, <1>3

\* the inductive invariant
TellInv == TypeOK /\ AcksTell /\ StatusUnmistaken

LEMMA TellStep == TellInv /\ [Next]_vars => TellInv'
<1> SUFFICES ASSUME TellInv, [Next]_vars PROVE TellInv'
  OBVIOUS
<1>1. TypeOK /\ TypeOK'
  BY TypeStep DEF TellInv
<1>2. ASSUME NEW h \in Handles, NEW m \in InFlight(h)', IsReply(m)
      PROVE  m.status = (m.ack = AckStat)
  <2>1. CASE m \in InFlight(h)
    BY <1>2, <2>1 DEF TellInv, AcksTell
  <2>2. CASE Sent(h, m)
    <3>1. \A r \in Requests, s \in Seqs : m \notin Stray(r, s)
      BY <1>2 DEF Stray, IsReply
    <3>2. PICK j \in jobs, k \in {"data", "status"} : m = ReplyTo(j, k)
      BY <2>2, <3>1 DEF Sent
    <3>3. j \in Job
      BY <1>1 DEF TypeOK
    <3>4. QED
      BY <3>2, <3>3, ReplyTells
  <2>3. QED
    BY <1>1, <2>1, <2>2, FlightStep
<1>3. ASSUME NEW h \in Handles, NEW i \in 1..Len(got'[h])
      PROVE  got'[h][i].told = got'[h][i].status
  <2>1. CASE i \in 1..Len(got[h]) /\ got'[h][i] = got[h][i]
    BY <2>1 DEF TellInv, StatusUnmistaken
  <2>2. ASSUME NEW m \in InFlight(h), Accepted(h, m), got'[h][i].status = m.status,
               got'[h][i].told = (m.ack = AckStat)
        PROVE  got'[h][i].told = got'[h][i].status
    <3>1. req[h].type # "notify"
      BY <1>1, RequestKind
    <3>2. IsReply(m)
      BY <2>2, <3>1 DEF Accepted, IsReply
    <3>3. QED
      BY <2>2, <3>2 DEF TellInv, AcksTell
  <2>3. QED
    BY <1>1, <2>1, <2>2, GotStep
<1>4. AcksTell'
  BY <1>2 DEF AcksTell, IsReply, AckStat
<1>5. StatusUnmistaken'
  BY <1>3 DEF StatusUnmistaken
<1>6. QED
  BY <1>1, <1>4, <1>5 DEF TellInv

\* Whatever arrives late, twice or unasked, a callback is told that a message is
\* a status exactly when the kernel sent it as one (w1.c 29-30, 366, 314).
THEOREM StatusTold == Spec => []StatusUnmistaken
<1>1. Init => TellInv
  <2>1. Init => TypeOK
    BY BoundsAssumption DEF Init, TypeOK, MoreStat, Results
  <2>2. Init => AcksTell /\ StatusUnmistaken
    BY DEF Init, AcksTell, StatusUnmistaken, InFlight
  <2>3. QED
    BY <2>1, <2>2 DEF TellInv
<1>2. TellInv => StatusUnmistaken
  BY DEF TellInv
<1>3. QED
  BY <1>1, <1>2, TellStep, PTL DEF Spec

(***************************************************************************)
(* A callback is given replies to its own request, as long as no reply is  *)
(* late by more than one request, replies are sent to one port, and a port *)
(* is not reused while a reply to it is underway.                          *)
(***************************************************************************)

\* Consecutive requests have different numbers, also when the counter wraps.
LEMMA SeqStep ==
  ASSUME NEW n \in 0..(U32 - 1)
  PROVE  SeqOf(n) # SeqOf(Back(n)) /\ Back((n + 1) % U32) = n /\ Back(n) \in 0..(U32 - 1)
<1> USE BoundsAssumption
<1>1. CASE n = 0
  <2>1. Back(n) = U32 - 1 /\ U32 - 1 = (U32 - 2) + 1 /\ 1 < U32 - 2 + 0
    BY <1>1 DEF Back
  <2>2. SeqOf(0) = 0 /\ SeqOf(U32 - 1) = 1
    BY <2>1 DEF SeqOf, SeqRange, AckStat
  <2>3. QED
    BY <1>1, <2>1, <2>2 DEF Back
<1>2. CASE n # 0
  <2>1. SeqOf(n) # SeqOf(n - 1)
    BY <1>2 DEF SeqOf, SeqRange, AckStat
  <2>2. Back((n + 1) % U32) = n
    BY <1>2 DEF Back
  <2>3. QED
    BY <1>2, <2>1, <2>2 DEF Back
<1>3. QED
  BY <1>1, <1>2

\* No step breaks that sockets have ports of their own.
LEMMA OnePortStep ==
  ASSUME TypeOK, OnePort, [Next]_vars
  PROVE  OnePort'
<1>1. CASE UNCHANGED sock
  BY <1>1 DEF OnePort
<1>2. ASSUME NEW g \in Handles, w1_init(g) PROVE OnePort'
  <2>1. ASSUME NEW p \in Ports, \A x \in Handles : sock[x] # p,
               sock' = [sock EXCEPT ![g] = p]
        PROVE  OnePort'
    BY <2>1 DEF TypeOK, OnePort
  <2>2. QED
    BY <1>1, <1>2, <2>1 DEF w1_init
<1>3. ASSUME NEW g \in Handles, w1_free(g) PROVE OnePort'
  BY <1>3 DEF w1_free, TypeOK, OnePort
<1>4. QED
  BY <1>1, <1>2, <1>3 DEF Next, Kernel, User, Receiver, Reply, Finish, Noise,
     Send, SendFails, TooLong, PollTimeout, PollFails, Recv, HandleMessage,
     EndOfDatagram, vars

\* A call stays a call for the last request.
LEMMA CallLastStep ==
  ASSUME TypeOK, \A h \in Handles : CallLast(h), [Next]_vars, NEW h \in Handles
  PROVE  CallLast(h)'
<1> USE DEF TypeOK, CallLast, SeqOf, SeqRange, AckStat, Back
<1>1. ASSUME NEW g \in Handles, w1_init(g) PROVE CallLast(h)'
  BY <1>1 DEF w1_init
<1>2. ASSUME NEW g \in Handles, w1_free(g) PROVE CallLast(h)'
  BY <1>2 DEF w1_free, LeaveCall
<1>3. ASSUME NEW g \in Handles, NEW r \in Requests, Send(g, r) PROVE CallLast(h)'
  <2>1. CASE g # h
    BY <1>3, <2>1 DEF Send, NewRequest
  <2>2. CASE g = h
    <3>1. /\ req'[h].seq = SeqOf(seq[h]) /\ seq'[h] = (seq[h] + 1) % U32
          /\ pc'[h] = "poll" /\ buf'[h] = <<>>
      BY <1>3, <2>2 DEF Send, NewRequest
    <3>2. Back((seq[h] + 1) % U32) = seq[h]
      <4> HIDE DEF Back, CallLast
      <4>1. QED
        BY SeqStep
    <3>3. QED
      BY <3>1, <3>2
  <2>3. QED
    BY <2>1, <2>2
<1>4. ASSUME NEW g \in Handles, SendFails(g) PROVE CallLast(h)'
  BY <1>4 DEF SendFails, NewRequest
<1>5. ASSUME NEW g \in Handles, TooLong(g) PROVE CallLast(h)'
  BY <1>5 DEF TooLong
<1>6. ASSUME NEW g \in Handles, PollTimeout(g) \/ PollFails(g) PROVE CallLast(h)'
  BY <1>6 DEF PollTimeout, PollFails, Return, LeaveCall
<1>7. ASSUME NEW g \in Handles, Recv(g) PROVE CallLast(h)'
  BY <1>7, SMTT(30) DEF Recv, Return, LeaveCall
<1>8. ASSUME NEW g \in Handles, HandleMessage(g) \/ EndOfDatagram(g) PROVE CallLast(h)'
  BY <1>8 DEF HandleMessage, EndOfDatagram
<1>9. ASSUME NEW S, NEW d, S \subseteq Open, Deliver(S, d), UNCHANGED <<pc, req, seq, buf>>
      PROVE  CallLast(h)'
  BY <1>9 DEF Deliver, Open
<1>10. ASSUME UNCHANGED <<pc, req, seq, buf, rxq>> PROVE CallLast(h)'
  BY <1>10
<1> HIDE DEF CallLast
<1>11. ASSUME NEW j \in jobs, Reply(j) PROVE CallLast(h)'
  <2>1. (IF Multicast THEN Open ELSE {g \in Open : sock[g] = j.port}) \subseteq Open
    OBVIOUS
  <2>2. QED
    BY <1>9, <1>11, <2>1 DEF Reply
<1>12. ASSUME NEW k \in NoiseKinds, Noise(k) PROVE CallLast(h)'
  <2>1. \E S \in SUBSET Open : \E d : Deliver(S, d)
    <3>1. CASE k = "data"
      <4>1. \E d : Deliver(Open, d)
        BY <1>12, <3>1 DEF Noise
      <4>2. QED
        BY <4>1
    <3>2. CASE k # "data"
      <4>1. PICK g \in Open : \E d : Deliver({g}, d)
        BY <1>12, <3>2 DEF Noise
      <4>2. {g} \in SUBSET Open
        OBVIOUS
      <4>3. QED
        BY <4>1, <4>2
    <3>3. QED
      BY <3>1, <3>2
  <2>2. UNCHANGED <<pc, req, seq, buf>>
    BY <1>12 DEF Noise
  <2>3. QED
    BY <1>9, <2>1, <2>2
<1>13. QED
  BY <1>1, <1>2, <1>3, <1>4, <1>5, <1>6, <1>7, <1>8, <1>10, <1>11, <1>12
     DEF Next, Kernel, User, Receiver, Finish, vars

\* What is underway for one of the last two requests when a new one starts
\* answered the last of them.
LEMMA NewRequestRecent ==
  ASSUME TypeOK, MaxLag <= 1, NEW g \in Handles, NewRequest(g), NEW h \in Handles,
         NEW n \in 1..call[h], NEW s, Recent(h, n, s), Underway(h, n)
  PROVE  n \in 1..call'[h] /\ Recent(h, n, s)'
<1>1. CASE g # h
  BY <1>1 DEF NewRequest, Recent, TypeOK, SeqOf, SeqRange, AckStat, Back
<1>2. CASE g = h
  <2>1. call'[h] = call[h] + 1 /\ seq'[h] = (seq[h] + 1) % U32 /\ call[h] \in Nat
    BY <1>2 DEF NewRequest, TypeOK
  <2>2. Back(seq'[h]) = seq[h]
    BY <2>1, SeqStep DEF TypeOK
  <2>3. n = call[h]
    BY <1>2, <2>1, BoundsAssumption DEF NewRequest
  <2>4. s = SeqOf(Back(seq[h]))
    BY <2>1, <2>3 DEF Recent
  <2>5. n + 1 = call'[h] /\ n \in 1..call'[h]
    BY <2>1, <2>3
  <2>6. s = SeqOf(Back(Back(seq'[h])))
    BY <2>2, <2>4
  <2>7. QED
    BY <2>5, <2>6 DEF Recent, SeqOf, SeqRange, AckStat, Back
<1>3. QED
  BY <1>1, <1>2

\* A job of the kernel stays that of a recent request of the handle at its port.
LEMMA JobsRecentStep ==
  ASSUME TypeOK, TypeOK', OnePort, MaxLag <= 1, QuietReopen,
         \A h \in Handles : JobsRecent(h), [Next]_vars, NEW h \in Handles
  PROVE  JobsRecent(h)'
<1> USE DEF JobsRecent
<1>1. ASSUME UNCHANGED <<seq, call>>,
             sock'[h] = sock[h] \/ sock'[h] = NoPort \/ \A j \in jobs : j.port # sock'[h],
             \A j \in jobs' : \E i \in jobs :
               j.port = i.port /\ j.from = i.from /\ j.seq = i.seq
      PROVE  JobsRecent(h)'
  <2> SUFFICES ASSUME NEW j \in jobs', sock'[h] = j.port
               PROVE  \E n \in 1..call[h] : j.from = <<h, n>> /\ Recent(h, n, j.seq)
    BY <1>1 DEF Recent, SeqOf, SeqRange, AckStat, Back
  <2>1. PICK i \in jobs : j.port = i.port /\ j.from = i.from /\ j.seq = i.seq
    BY <1>1
  <2>2. i.port \in Ports
    BY DEF TypeOK, Job
  <2>3. sock[h] = i.port
    BY <1>1, <2>1, <2>2, PortsAssumption
  <2>4. QED
    BY <2>1, <2>3
<1>2. CASE UNCHANGED <<seq, call, sock, jobs>>
  BY <1>1, <1>2
<1>3. ASSUME NEW g \in Handles, w1_init(g) PROVE JobsRecent(h)'
  <2>1. UNCHANGED <<call, jobs>>
    BY <1>3 DEF w1_init
  <2>2. CASE g # h
    <3>1. sock'[h] = sock[h] /\ seq'[h] = seq[h]
      BY <1>3, <2>2 DEF w1_init, TypeOK
    <3>2. QED
      BY <2>1, <3>1, ZenonT(60) DEF Recent, SeqOf, SeqRange, AckStat, Back
  <2>3. CASE g = h
    <3>1. sock'[h] = NoPort \/ \A j \in jobs : j.port # sock'[h]
      BY <1>3, <2>3 DEF w1_init, TypeOK
    <3>2. \A j \in jobs : j.port # NoPort
      BY PortsAssumption DEF TypeOK, Job
    <3>3. QED
      BY <2>1, <3>1, <3>2
  <2>4. QED
    BY <2>2, <2>3
<1>4. ASSUME NEW g \in Handles, w1_free(g) PROVE JobsRecent(h)'
  BY <1>1, <1>4 DEF w1_free, TypeOK
<1>5. ASSUME NEW g \in Handles, NewRequest(g), sock' = sock,
             NEW j \in jobs, sock[h] = j.port
      PROVE  \E n \in 1..call'[h] : j.from = <<h, n>> /\ Recent(h, n, j.seq)'
  <2>1. PICK n \in 1..call[h] : j.from = <<h, n>> /\ Recent(h, n, j.seq)
    BY <1>5
  <2>2. Underway(h, n)
    BY <2>1 DEF Underway
  <2>3. n \in 1..call'[h] /\ Recent(h, n, j.seq)'
    BY <1>5, <2>1, <2>2, NewRequestRecent
  <2>4. QED
    BY <2>1, <2>3
<1>6. ASSUME NEW g \in Handles, NEW r \in Requests, Send(g, r) PROVE JobsRecent(h)'
  <2>1. SUFFICES ASSUME NEW j \in jobs', sock'[h] = j.port
                 PROVE  \E n \in 1..call'[h] : j.from = <<h, n>> /\ Recent(h, n, j.seq)'
    BY DEF Recent, SeqOf, SeqRange, AckStat, Back
  <2>2. NewRequest(g) /\ sock' = sock
    BY <1>6 DEF Send
  <2>3. CASE j \in jobs
    BY <1>5, <2>1, <2>2, <2>3
  <2>4. CASE j = [port |-> sock[g], seq |-> SeqOf(seq[g]), type |-> r.type, id |-> r.id,
                  from |-> <<g, call[g] + 1>>, left |-> MaxReplies]
    <3>1. sock[g] = sock[h] /\ sock[h] # NoPort
      BY <2>1, <2>2, <2>4 DEF NewRequest, TypeOK
    <3>2. g = h
      BY <3>1 DEF OnePort
    <3>3. call'[h] = call[h] + 1 /\ seq'[h] = (seq[h] + 1) % U32 /\ call[h] \in Nat
      BY <2>2, <3>2 DEF NewRequest, TypeOK
    <3>4. Back(seq'[h]) = seq[h]
      BY <3>3, SeqStep DEF TypeOK
    <3>5. j.from = <<h, call'[h]>> /\ j.seq = SeqOf(seq[h]) /\ call'[h] \in 1..call'[h]
      <4>1. j.from = <<g, call[g] + 1>> /\ j.seq = SeqOf(seq[g])
        BY <2>4
      <4>2. QED
        BY <3>2, <3>3, <4>1
    <3>6. j.seq = SeqOf(Back(seq'[h]))
      BY <3>4, <3>5
    <3>7. PICK n \in 1..call'[h] : n = call'[h]
      BY <3>5
    <3>8. Recent(h, n, j.seq)'
      BY <3>6, <3>7 DEF Recent, SeqOf, SeqRange, AckStat, Back
    <3>9. QED
      BY <3>5, <3>7, <3>8
  <2>5. QED
    BY <1>6, <2>3, <2>4 DEF Send
<1>7. ASSUME NEW g \in Handles, SendFails(g) PROVE JobsRecent(h)'
  <2>1. SUFFICES ASSUME NEW j \in jobs', sock'[h] = j.port
                 PROVE  \E n \in 1..call'[h] : j.from = <<h, n>> /\ Recent(h, n, j.seq)'
    BY DEF Recent, SeqOf, SeqRange, AckStat, Back
  <2>2. QED
    BY <1>5, <1>7, <2>1 DEF SendFails
<1>8. ASSUME NEW j \in jobs, Reply(j) PROVE JobsRecent(h)'
  <2>1. \A i : /\ [j EXCEPT !.left = i].port = j.port
               /\ [j EXCEPT !.left = i].from = j.from
               /\ [j EXCEPT !.left = i].seq = j.seq
    <3>1. j \in Job
      BY DEF TypeOK
    <3>2. {"port", "seq", "from"} \subseteq DOMAIN j
      BY <3>1 DEF Job
    <3>3. QED
      BY <3>2
  <2>2. \A x \in jobs' : x \in jobs \/ \E i : x = [j EXCEPT !.left = i]
    BY <1>8 DEF Reply
  <2>3. \A x \in jobs' : \E i \in jobs : x.port = i.port /\ x.from = i.from /\ x.seq = i.seq
    BY <2>1, <2>2, ZenonT(60)
  <2>4. UNCHANGED <<seq, call, sock>>
    BY <1>8 DEF Reply
  <2>5. QED
    BY <1>1, <2>3, <2>4
<1>9. ASSUME NEW j \in jobs, Finish(j) PROVE JobsRecent(h)'
  BY <1>1, <1>9 DEF Finish
<1>10. QED
  BY <1>2, <1>3, <1>4, <1>6, <1>7, <1>8, <1>9 DEF Next, Kernel, User, Receiver, Noise,
     TooLong, PollTimeout, PollFails, Recv, HandleMessage, EndOfDatagram, vars

\* A reply on its way stays one to a recent request of the handle it goes to.
LEMMA FlightRecentStep ==
  ASSUME TypeOK, MaxLag <= 1, ~Multicast, RepliesRecent, [Next]_vars, NEW h \in Handles
  PROVE  FlightRecent(h)'
<1> SUFFICES ASSUME NEW m \in InFlight(h)', IsReply(m)
             PROVE  \E n \in 1..call'[h] : m.from = <<h, n>> /\ Recent(h, n, m.seq)'
  BY DEF FlightRecent, Recent, IsReply, SeqOf, SeqRange, AckStat, Back
<1>1. \E n \in 1..call[h] : m.from = <<h, n>> /\ Recent(h, n, m.seq)
  <2>1. CASE m \in InFlight(h)
    BY <2>1 DEF RepliesRecent, FlightRecent
  <2>2. CASE Sent(h, m)
    <3>1. \A r \in Requests, s \in Seqs : m \notin Stray(r, s)
      BY DEF Stray, IsReply
    <3>2. PICK j \in jobs, k \in {"data", "status"} : m = ReplyTo(j, k) /\ sock[h] = j.port
      BY <2>2, <3>1 DEF Sent
    <3>3. \E n \in 1..call[h] : j.from = <<h, n>> /\ Recent(h, n, j.seq)
      BY <3>2 DEF RepliesRecent, JobsRecent
    <3>4. m.from = j.from /\ m.seq = j.seq
      BY <3>2 DEF ReplyTo
    <3>5. QED
      BY <3>3, <3>4
  <2>3. QED
    BY <2>1, <2>2, FlightStep
<1>2. CASE UNCHANGED <<seq, call>>
  BY <1>1, <1>2 DEF Recent, SeqOf, SeqRange, AckStat, Back
<1>3. ASSUME NEW g \in Handles, w1_init(g) PROVE
         \E n \in 1..call'[h] : m.from = <<h, n>> /\ Recent(h, n, m.seq)'
  <2>1. CASE g # h
    <3>1. seq'[h] = seq[h] /\ call'[h] = call[h]
      BY <1>3, <2>1 DEF w1_init, TypeOK
    <3>2. QED
      BY <1>1, <3>1 DEF Recent, SeqOf, SeqRange, AckStat, Back
  <2>2. CASE g = h
    <3>1. buf'[h] = <<>> /\ rxq'[h] = <<>>
      BY <1>3, <2>2 DEF w1_init, RepliesRecent, CallLast
    <3>2. QED
      BY <3>1 DEF InFlight
  <2>3. QED
    BY <2>1, <2>2
<1>4. ASSUME NEW g \in Handles, NewRequest(g), UNCHANGED <<buf, rxq>>
      PROVE  \E n \in 1..call'[h] : m.from = <<h, n>> /\ Recent(h, n, m.seq)'
  <2>1. PICK n \in 1..call[h] : m.from = <<h, n>> /\ Recent(h, n, m.seq)
    BY <1>1
  <2>2. CASE g = h
    <3>1. buf'[h] = <<>>
      BY <1>4, <2>2 DEF NewRequest, RepliesRecent, CallLast
    <3>2. PICK i \in 1..Len(rxq'[h]) : \E k \in 1..Len(rxq'[h][i].msgs) : m = rxq'[h][i].msgs[k]
      BY <3>1, FlightElim
    <3>3. Underway(h, n)
      BY <1>4, <2>1, <3>2 DEF Underway
    <3>4. n \in 1..call'[h] /\ Recent(h, n, m.seq)'
      BY <1>4, <2>1, <3>3, NewRequestRecent
    <3>5. QED
      BY <2>1, <3>4
  <2>3. CASE g # h
    <3>1. seq'[h] = seq[h] /\ call'[h] = call[h]
      BY <1>4, <2>3 DEF NewRequest, TypeOK
    <3>2. QED
      BY <1>1, <3>1 DEF Recent, SeqOf, SeqRange, AckStat, Back
  <2>4. QED
    BY <2>2, <2>3
<1>5. QED
  BY <1>2, <1>3, <1>4 DEF Next, Kernel, User, Receiver, Reply, Finish, Noise, w1_free,
     Send, SendFails, TooLong, PollTimeout, PollFails, Recv, HandleMessage,
     EndOfDatagram, vars

\* the inductive invariant
OwnInv == TypeOK /\ RepliesRecent /\ OwnReplies

LEMMA OwnInit == Init => OwnInv
<1>1. Init => TypeOK
  BY BoundsAssumption DEF Init, TypeOK, MoreStat, Results
<1>2. Init => RepliesRecent /\ OwnReplies
  BY DEF Init, RepliesRecent, OnePort, FlightRecent, JobsRecent, CallLast, InFlight, OwnReplies
<1>3. QED
  BY <1>1, <1>2 DEF OwnInv

LEMMA OwnStep ==
  ASSUME MaxLag <= 1, ~Multicast, QuietReopen
  PROVE  OwnInv /\ [Next]_vars => OwnInv'
<1> SUFFICES ASSUME OwnInv, [Next]_vars PROVE OwnInv'
  OBVIOUS
<1>1. TypeOK /\ TypeOK' /\ RepliesRecent
  BY TypeStep DEF OwnInv
<1>2. RepliesRecent'
  <2>1. OnePort /\ \A h \in Handles : JobsRecent(h) /\ CallLast(h)
    BY <1>1 DEF RepliesRecent
  <2>2. OnePort'
    BY <1>1, <2>1, OnePortStep
  <2>3. \A h \in Handles : FlightRecent(h)'
    BY <1>1, FlightRecentStep
  <2>4. \A h \in Handles : JobsRecent(h)'
    BY <1>1, <2>1, JobsRecentStep
  <2>5. \A h \in Handles : CallLast(h)'
    BY <1>1, <2>1, CallLastStep
  <2>6. QED
    BY <2>2, <2>3, <2>4, <2>5 DEF RepliesRecent
<1>3. ASSUME NEW h \in Handles, NEW i \in 1..Len(got'[h])
      PROVE  got'[h][i].from = <<h, call'[h]>>
  <2>1. CASE i \in 1..Len(got[h]) /\ got'[h][i] = got[h][i] /\ call'[h] = call[h]
    BY <2>1 DEF OwnInv, OwnReplies
  <2>2. ASSUME pc[h] = "parse", call'[h] = call[h],
               NEW m \in InFlight(h), Accepted(h, m), got'[h][i].from = m.from
        PROVE  got'[h][i].from = <<h, call'[h]>>
    <3>1. IsReply(m) /\ m.seq = req[h].seq
      BY <1>1, <2>2, RequestKind DEF Accepted, IsReply
    <3>2. m.seq = SeqOf(Back(seq[h]))
      BY <1>1, <2>2, <3>1 DEF RepliesRecent, CallLast
    <3>3. PICK n \in 1..call[h] : m.from = <<h, n>> /\ Recent(h, n, m.seq)
      BY <1>1, <2>2, <3>1 DEF RepliesRecent, FlightRecent
    <3>4. m.seq # SeqOf(Back(Back(seq[h])))
      <4>1. seq[h] \in 0..(U32 - 1)
        BY <1>1 DEF TypeOK
      <4>2. QED
        BY <3>2, <4>1, SeqStep
    <3>5. n = call[h]
      BY <3>3, <3>4 DEF Recent
    <3>6. QED
      BY <2>2, <3>3, <3>5
  <2>3. QED
    BY <1>1, <2>1, <2>2, GotStep
<1>4. QED
  BY <1>1, <1>2, <1>3 DEF OwnInv, OwnReplies

\* What a callback is given answers the request being executed, for any number
\* of handles and requests and any width of the counter: the comparison of the
\* sequence numbers (w1.c 239-246) is enough when replies are late by no more
\* than one request and no port is reused too early.
THEOREM OwnRepliesOnly ==
  ASSUME MaxLag <= 1, ~Multicast, QuietReopen
  PROVE  Spec => []OwnReplies
<1>1. OwnInv => OwnReplies
  BY DEF OwnInv
<1>2. QED
  BY <1>1, OwnInit, OwnStep, PTL DEF Spec

\* Every reply on its way to a handle, and every request the kernel is still to
\* answer at its port, is one of the handle's last two, under its own number
\* (w1.c 126, 357): what the comparison of the numbers rests on.
THEOREM OnlyRecentReplies ==
  ASSUME MaxLag <= 1, ~Multicast, QuietReopen
  PROVE  Spec => []RepliesRecent
<1>1. OwnInv => RepliesRecent
  BY DEF OwnInv
<1>2. QED
  BY <1>1, OwnInit, OwnStep, PTL DEF Spec

(***************************************************************************)
(* The transport implements W1Link.                                        *)
(***************************************************************************)

\* In a call, more[h] is what the last callback asked for, "req" before the
\* first (w1.c 132, 314).
LastAnswer ==
  \A h \in Handles : pc[h] \in {"poll", "parse", "spin"} =>
    more[h] = IF got[h] = <<>> THEN "req" ELSE got[h][Len(got[h])].more

\* the inductive invariant
KeepInv == OwnInv /\ TellInv /\ LastAnswer

\* what W1Link sees of the callbacks s when all of them are the call's own
Told(s) == [i \in 1..Len(s) |-> [own |-> TRUE, told |-> TRUE, more |-> s[i].more]]

LEMMA ToldAppend ==
  ASSUME NEW s \in Seq(Callback), NEW c \in Callback
  PROVE  /\ Told(<<>>) = <<>> /\ Len(Told(s)) = Len(s)
         /\ s # <<>> => Told(s) # <<>> /\ Told(s)[Len(s)].more = s[Len(s)].more
         /\ Told(Append(s, c)) = Append(Told(s), [own |-> TRUE, told |-> TRUE, more |-> c.more])
<1> DEFINE a == [own |-> TRUE, told |-> TRUE, more |-> c.more]
           T == [own : {TRUE}, told : {TRUE}, more : MoreStat]
<1>0. a \in T /\ \A x \in Callback : [own |-> TRUE, told |-> TRUE, more |-> x.more] \in T
  BY DEF Callback
<1>a. \A x \in Seq(Callback) : Told(x) \in Seq(T) /\ Len(Told(x)) = Len(x)
  <2> SUFFICES ASSUME NEW x \in Seq(Callback)
               PROVE  Told(x) \in Seq(T) /\ Len(Told(x)) = Len(x)
    OBVIOUS
  <2>1. Len(x) \in Nat /\ \A i \in 1..Len(x) : x[i] \in Callback
    OBVIOUS
  <2>2. Told(x) \in [1..Len(x) -> T]
    BY <1>0, <2>1 DEF Told
  <2> HIDE DEF T
  <2>3. QED
    BY <2>1, <2>2
<1>1. Told(s) \in Seq(T) /\ Len(Told(s)) = Len(s) /\ a \in T /\ Told(<<>>) = <<>>
  <2>1. Told(<<>>) = <<>>
    BY DEF Told
  <2>2. QED
    BY <1>0, <1>a, <2>1
<1>2. Append(s, c) \in Seq(Callback) /\ Len(Append(s, c)) = Len(s) + 1 /\ Len(s) \in Nat
  OBVIOUS
<1>3. Told(Append(s, c)) \in Seq(T) /\ Len(Told(Append(s, c))) = Len(s) + 1
  BY <1>2, <1>a
<1>4. Append(Told(s), a) \in Seq(T) /\ Len(Append(Told(s), a)) = Len(s) + 1
  <2> HIDE DEF a, T
  <2>1. QED
    BY <1>1
<1>5. ASSUME NEW i \in 1..(Len(s) + 1) PROVE Told(Append(s, c))[i] = Append(Told(s), a)[i]
  <2>1. CASE i = Len(s) + 1
    <3>1. Append(s, c)[i] = c
      BY <2>1
    <3>2. Told(Append(s, c))[i] = a
      BY <1>2, <3>1 DEF Told
    <3>3. Append(Told(s), a)[i] = a
      <4> HIDE DEF a, T
      <4>1. QED
        BY <1>1, <2>1
    <3>4. QED
      BY <3>2, <3>3
  <2>2. CASE i \in 1..Len(s)
    <3>1. Append(s, c)[i] = s[i]
      BY <2>2
    <3>2. Told(Append(s, c))[i] = Told(s)[i]
      BY <1>2, <2>2, <3>1 DEF Told
    <3>3. Append(Told(s), a)[i] = Told(s)[i]
      <4> HIDE DEF a, T
      <4>1. QED
        BY <1>1, <2>2
    <3>4. QED
      BY <3>2, <3>3
  <2>3. i = Len(s) + 1 \/ i \in 1..Len(s)
    BY <1>2
  <2>4. QED
    BY <2>1, <2>2, <2>3, Zenon
<1>6. Told(Append(s, c)) = Append(Told(s), a)
  <2> HIDE DEF a, T
  <2>1. QED
    BY <1>3, <1>4, <1>5
<1>7. ASSUME s # <<>> PROVE Told(s) # <<>> /\ Told(s)[Len(s)].more = s[Len(s)].more
  <2>1. Len(s) \in 1..Len(s)
    BY <1>7
  <2>2. QED
    BY <1>1, <2>1 DEF Told
<1>8. QED
  BY <1>1, <1>6, <1>7

\* No callback of a call answers another call or is told a lie: what W1Link sees
\* of them is what they asked for.
LEMMA AnswersTold ==
  ASSUME OwnReplies, StatusUnmistaken
  PROVE  Answers = [h \in Handles |-> Told(got[h])]
  BY DEF OwnReplies, StatusUnmistaken, Answers, Told

LEMMA LastAnswerStep == TypeOK /\ LastAnswer /\ [Next]_vars => LastAnswer'
<1> DEFINE Busy == {"poll", "parse", "spin"}
<1> SUFFICES ASSUME TypeOK, LastAnswer, [Next]_vars, NEW h \in Handles, pc'[h] \in Busy
             PROVE  more'[h] = IF got'[h] = <<>> THEN "req" ELSE got'[h][Len(got'[h])].more
  BY DEF LastAnswer
<1>1. ASSUME pc[h] \in Busy, more'[h] = more[h], got'[h] = got[h]
      PROVE  more'[h] = IF got'[h] = <<>> THEN "req" ELSE got'[h][Len(got'[h])].more
  BY <1>1 DEF LastAnswer
<1>2. ASSUME NEW g \in Handles, NEW r \in Requests, Send(g, r)
      PROVE  more'[h] = IF got'[h] = <<>> THEN "req" ELSE got'[h][Len(got'[h])].more
  <2>1. CASE g = h
    BY <1>2, <2>1 DEF Send, NewRequest, TypeOK
  <2>2. CASE g # h
    <3>1. pc[h] \in Busy /\ more'[h] = more[h] /\ got'[h] = got[h]
      BY <1>2, <2>2 DEF Send, NewRequest, TypeOK
    <3>2. QED
      BY <1>1, <3>1
  <2>3. QED
    BY <2>1, <2>2
<1>3. ASSUME NEW g \in Handles, HandleMessage(g), g = h, ~UNCHANGED <<more, got>>
      PROVE  more'[h] = IF got'[h] = <<>> THEN "req" ELSE got'[h][Len(got'[h])].more
  <2>1. PICK a, c :
          a \in MoreStat /\ c.more = a /\ more'[h] = a /\ got'[h] = Append(got[h], c)
    <3>1. PICK a \in MoreStat :
            /\ more' = [more EXCEPT ![h] = a]
            /\ got' = [got EXCEPT ![h] = Append(@,
                 [from |-> Head(buf[h]).from, status |-> Head(buf[h]).status,
                  told |-> (Head(buf[h]).ack = AckStat), more |-> a])]
      BY <1>3 DEF HandleMessage
    <3> DEFINE c == [from |-> Head(buf[h]).from, status |-> Head(buf[h]).status,
                     told |-> (Head(buf[h]).ack = AckStat), more |-> a]
    <3>2. h \in DOMAIN more /\ h \in DOMAIN got /\ c.more = a
      BY DEF TypeOK
    <3>3. more'[h] = a /\ got'[h] = Append(got[h], c)
      BY <3>1, <3>2
    <3> HIDE DEF c
    <3>4. QED
      BY <3>2, <3>3
  <2>2. got[h] \in Seq(Callback)
    BY DEF TypeOK
  <2>3. Len(got'[h]) = Len(got[h]) + 1 /\ got'[h][Len(got[h]) + 1] = c /\ got'[h] # <<>>
    BY <2>1, <2>2
  <2>4. QED
    BY <2>1, <2>3
<1>4. ASSUME NEW g \in Handles, Return(g, ret'[g]), UNCHANGED got
      PROVE  more'[h] = IF got'[h] = <<>> THEN "req" ELSE got'[h][Len(got'[h])].more
  <2>1. pc[h] \in Busy /\ more'[h] = more[h] /\ got'[h] = got[h]
    BY <1>4 DEF Return, LeaveCall, TypeOK
  <2>2. QED
    BY <1>1, <2>1
<1>5. ASSUME NEW g \in Handles, Receiver(g)
      PROVE  more'[h] = IF got'[h] = <<>> THEN "req" ELSE got'[h][Len(got'[h])].more
  <2>1. ASSUME NEW r, Return(g, r), UNCHANGED got
        PROVE  more'[h] = IF got'[h] = <<>> THEN "req" ELSE got'[h][Len(got'[h])].more
    <3>1. ret'[g] = r
      BY <2>1 DEF Return, TypeOK
    <3>2. QED
      BY <1>4, <2>1, <3>1
  <2>2. ASSUME Recv(g), UNCHANGED <<req, more>>
        PROVE  more'[h] = IF got'[h] = <<>> THEN "req" ELSE got'[h][Len(got'[h])].more
    <3>1. pc[h] \in Busy /\ more'[h] = more[h] /\ got'[h] = got[h]
      BY <2>2 DEF Recv, Return, TypeOK
    <3>2. QED
      BY <1>1, <3>1
  <2>3. CASE HandleMessage(g)
    <3>1. CASE (g # h \/ UNCHANGED <<more, got>>)
      <4>1. pc[h] \in Busy /\ more'[h] = more[h] /\ got'[h] = got[h]
        BY <2>3, <3>1 DEF HandleMessage, TypeOK
      <4>2. QED
        BY <1>1, <4>1
    <3>2. QED
      BY <1>3, <2>3, <3>1
  <2>4. CASE EndOfDatagram(g)
    <3>1. pc[h] \in Busy /\ more'[h] = more[h] /\ got'[h] = got[h]
      BY <2>4 DEF EndOfDatagram, TypeOK
    <3>2. QED
      BY <1>1, <3>1
  <2>5. CASE PollTimeout(g) \/ PollFails(g)
    BY <2>1, <2>5 DEF PollTimeout, PollFails
  <2>6. CASE Recv(g)
    BY <2>1, <2>2, <2>6 DEF Recv
  <2>7. QED
    BY <1>5, <2>3, <2>4, <2>5, <2>6 DEF Receiver
<1>6. ASSUME NEW g \in Handles, w1_init(g) \/ w1_free(g) \/ SendFails(g) \/ TooLong(g)
      PROVE  more'[h] = IF got'[h] = <<>> THEN "req" ELSE got'[h][Len(got'[h])].more
  <2>1. pc[h] \in Busy
    BY <1>6 DEF w1_init, w1_free, SendFails, TooLong, NewRequest, TypeOK
  <2>2. more'[h] = more[h]
    BY <1>6 DEF w1_init, w1_free, LeaveCall, SendFails, TooLong, TypeOK
  <2>3. got'[h] = got[h]
    BY <1>6, <2>1 DEF w1_init, w1_free, SendFails, TooLong, NewRequest, TypeOK
  <2>4. QED
    BY <1>1, <2>1, <2>2, <2>3
<1>7. CASE UNCHANGED <<pc, more, got>>
  BY <1>1, <1>7
<1>8. QED
  BY <1>2, <1>5, <1>6, <1>7 DEF Next, Kernel, User, Reply, Finish, Noise, vars

\* A step of the transport with its effect on what W1Link sees: the phase of one
\* handle and the callbacks of one handle change.
LEMMA PhaseStep ==
  ASSUME TypeOK, NEW h \in Handles, NEW p, pc' = [pc EXCEPT ![h] = p]
  PROVE  Phase' = [Phase EXCEPT ![h] = IF p \in {"poll", "parse", "spin"} THEN "busy" ELSE p]
<1> DEFINE Seen(q) == IF q \in {"poll", "parse", "spin"} THEN "busy" ELSE q
<1>1. Phase = [g \in Handles |-> Seen(pc[g])] /\ Phase' = [g \in Handles |-> Seen(pc'[g])]
  BY DEF Phase
<1>2. \A g \in Handles : pc'[g] = IF g = h THEN p ELSE pc[g]
  BY DEF TypeOK
<1> HIDE DEF Seen
<1>3. Phase' = [Phase EXCEPT ![h] = Seen(p)]
  BY <1>1, <1>2
<1>4. QED
  BY <1>3 DEF Seen

LEMMA AnswersStep ==
  ASSUME TypeOK, OwnReplies, StatusUnmistaken, OwnReplies', StatusUnmistaken',
         NEW h \in Handles, NEW s, got' = [got EXCEPT ![h] = s]
  PROVE  Answers' = [Answers EXCEPT ![h] = Told(s)]
<1>1. Answers = [g \in Handles |-> Told(got[g])]
  BY AnswersTold
<1>2. Answers' = [g \in Handles |-> Told(got'[g])]
  BY ZenonT(60) DEF OwnReplies, StatusUnmistaken, Answers, Told
<1>3. \A g \in Handles : got'[g] = IF g = h THEN s ELSE got[g]
  BY DEF TypeOK
<1>4. QED
  BY <1>1, <1>2, <1>3

LEMMA AnswersKept ==
  ASSUME TypeOK, OwnReplies, StatusUnmistaken, OwnReplies', StatusUnmistaken', got' = got
  PROVE  Answers' = Answers
<1>1. Answers = [g \in Handles |-> Told(got[g])]
  BY AnswersTold
<1>2. Answers' = [g \in Handles |-> Told(got'[g])]
  BY DEF OwnReplies, StatusUnmistaken, Answers, Told
<1>3. QED
  BY <1>1, <1>2

\* Every step of the transport is one W1Link allows, or none it sees.
LEMMA LinkStep ==
  ASSUME KeepInv, KeepInv', [Next]_vars
  PROVE  [Link!Next]_(Link!linkVars)
<1> DEFINE Goal == [Link!Next]_(Link!linkVars)
<1> USE DEF Link!linkVars
<1>1. /\ TypeOK /\ OwnReplies /\ StatusUnmistaken /\ LastAnswer
      /\ OwnReplies' /\ StatusUnmistaken'
  BY DEF KeepInv, OwnInv, TellInv
<1>2. ASSUME got' = got PROVE Answers' = Answers
  BY <1>1, <1>2, AnswersKept
<1>3. ASSUME UNCHANGED <<pc, got, ret>> PROVE Goal
  BY <1>2, <1>3 DEF Phase
<1>4. ASSUME NEW h \in Handles, w1_init(h) PROVE Goal
  <2>1. Phase[h] = "closed" /\ Answers' = Answers
    BY <1>1, <1>2, <1>4 DEF w1_init, Phase
  <2>2. CASE pc' = [pc EXCEPT ![h] = "idle"] /\ ret' = [ret EXCEPT ![h] = "SUCCESS"]
    <3>1. Phase' = [Phase EXCEPT ![h] = "idle"]
      BY <1>1, <2>2, PhaseStep
    <3>2. Link!Open(h)
      BY <2>1, <2>2, <3>1 DEF Link!Open
    <3>3. QED
      BY <3>2 DEF Link!Next
  <2>3. CASE UNCHANGED pc /\ ret' = [ret EXCEPT ![h] = "COMM_ERR"]
    <3>1. Link!Open(h)
      BY <2>1, <2>3 DEF Link!Open, Phase
    <3>2. QED
      BY <3>1 DEF Link!Next
  <2>4. QED
    BY <1>4, <2>2, <2>3 DEF w1_init
<1>5. ASSUME NEW h \in Handles, w1_free(h) PROVE Goal
  <2>1. pc' = [pc EXCEPT ![h] = "closed"] /\ UNCHANGED <<got, ret>>
    BY <1>5 DEF w1_free
  <2>2. Phase' = [Phase EXCEPT ![h] = "closed"]
    BY <1>1, <2>1, PhaseStep
  <2>3. Link!Close(h)
    BY <1>2, <2>1, <2>2 DEF Link!Close
  <2>4. QED
    BY <2>3 DEF Link!Next
<1>6. ASSUME NEW h \in Handles, NewRequest(h)
      PROVE  Phase[h] = "idle" /\ Answers' = [Answers EXCEPT ![h] = <<>>]
  <2>1. Answers' = [Answers EXCEPT ![h] = Told(<<>>)]
    BY <1>1, <1>6, AnswersStep DEF NewRequest
  <2>2. Told(<<>>) = <<>>
    BY DEF Told
  <2>3. QED
    BY <1>6, <2>1, <2>2 DEF NewRequest, Phase
<1>7. ASSUME NEW h \in Handles, NEW r \in Requests, Send(h, r) PROVE Goal
  <2>1. NewRequest(h) /\ pc' = [pc EXCEPT ![h] = "poll"] /\ ret' = ret
    BY <1>7 DEF Send
  <2>2. Phase' = [Phase EXCEPT ![h] = "busy"]
    BY <1>1, <2>1, PhaseStep
  <2>3. Link!Call(h)
    BY <1>6, <2>1, <2>2 DEF Link!Call
  <2>4. QED
    BY <2>3 DEF Link!Next
<1>8. ASSUME NEW h \in Handles, SendFails(h) PROVE Goal
  <2>1. Link!Refuse(h)
    BY <1>6, <1>8 DEF SendFails, Link!Refuse, Phase
  <2>2. QED
    BY <2>1 DEF Link!Next
<1>9. ASSUME NEW h \in Handles, TooLong(h) PROVE Goal
  <2>1. Phase[h] = "idle" /\ Answers' = Answers /\ Phase' = Phase
    BY <1>2, <1>9 DEF TooLong, Phase
  <2>2. Link!Refuse(h)
    BY <1>9, <2>1 DEF TooLong, Link!Refuse
  <2>3. QED
    BY <2>2 DEF Link!Next
<1>10. ASSUME NEW h \in Handles, pc[h] \in {"poll", "parse", "spin"}, NEW r, Return(h, r),
              got' = got,
              \/ r \in Link!Failures
              \/ r = "SUCCESS" /\ more[h] # "req"
       PROVE  Goal
  <2>1. Phase[h] = "busy" /\ Phase' = [Phase EXCEPT ![h] = "idle"] /\ Answers' = Answers
    <3>1. pc' = [pc EXCEPT ![h] = "idle"]
      BY <1>10 DEF Return
    <3>2. QED
      BY <1>1, <1>2, <1>10, <3>1, PhaseStep DEF Phase
  <2>2. ret' = [ret EXCEPT ![h] = r]
    BY <1>10 DEF Return
  <2>3. ASSUME more[h] # "req"
        PROVE  Answers[h] # <<>> /\ Answers[h][Len(Answers[h])].more # "req"
    <3>1. got[h] \in Seq(Callback) /\ got[h] # <<>> /\ more[h] = got[h][Len(got[h])].more
      BY <1>1, <1>10, <2>3 DEF LastAnswer, TypeOK
    <3>2. Answers[h] = Told(got[h])
      BY <1>1, AnswersTold
    <3>3. 1 \in 1..Len(got[h])
      BY <3>1
    <3>4. got[h][1] \in Callback
      BY <3>1, <3>3
    <3>5. /\ Len(Told(got[h])) = Len(got[h])
          /\ Told(got[h]) # <<>> /\ Told(got[h])[Len(got[h])].more = got[h][Len(got[h])].more
      BY <3>1, <3>4, ToldAppend
    <3>6. QED
      BY <2>3, <3>1, <3>2, <3>5
  <2>4. Link!Return(h)
    BY <1>10, <2>1, <2>2, <2>3 DEF Link!Return
  <2>5. QED
    BY <2>4 DEF Link!Next
<1>11. ASSUME NEW h \in Handles, PollTimeout(h) \/ PollFails(h) PROVE Goal
  BY <1>10, <1>11 DEF PollTimeout, PollFails, Link!Failures
<1>12. ASSUME NEW h \in Handles, Recv(h) PROVE Goal
  <2>1. pc[h] = "poll" /\ got' = got
    BY <1>12 DEF Recv
  <2>2. CASE Return(h, "PROTO_ERR") \/ Return(h, "BAD_MSG")
    BY <1>10, <2>1, <2>2 DEF Link!Failures
  <2>3. ASSUME NEW p \in {"spin", "parse"}, pc' = [pc EXCEPT ![h] = p], ret' = ret PROVE Goal
    <3>1. Phase' = [Phase EXCEPT ![h] = "busy"]
      BY <1>1, <2>3, PhaseStep
    <3>2. Phase[h] = "busy" /\ Phase \in [Handles -> {"busy", "closed", "idle"}]
      BY <1>1, <2>1 DEF Phase, TypeOK
    <3>3. Phase' = Phase
      BY <3>1, <3>2
    <3>4. QED
      BY <1>2, <2>1, <2>3, <3>3
  <2>4. QED
    BY <1>12, <2>2, <2>3 DEF Recv
<1>13. ASSUME NEW h \in Handles, HandleMessage(h) PROVE Goal
  <2>1. pc[h] = "parse" /\ UNCHANGED <<pc, ret>>
    BY <1>13 DEF HandleMessage
  <2>2. CASE got' = got
    BY <1>3, <2>1, <2>2
  <2>3. ASSUME NEW c \in Callback, got' = [got EXCEPT ![h] = Append(@, c)], more[h] # "no"
        PROVE  Goal
    <3> DEFINE a == [own |-> TRUE, told |-> TRUE, more |-> c.more]
    <3>1. got[h] \in Seq(Callback)
      BY <1>1 DEF TypeOK
    <3>2. Answers[h] = Told(got[h])
      BY <1>1, AnswersTold
    <3>3. Answers' = [Answers EXCEPT ![h] = Told(Append(got[h], c))]
      <4>1. got' = [got EXCEPT ![h] = Append(got[h], c)]
        BY <2>3
      <4>2. QED
        BY <1>1, <4>1, AnswersStep
    <3>4. Answers' = [Answers EXCEPT ![h] = Append(Answers[h], a)]
      BY <3>1, <3>2, <3>3, ToldAppend, Zenon
    <3>5. a \in Link!Answer
      BY DEF Link!Answer, Link!MoreStat, Callback, MoreStat
    <3>6. Answers[h] # <<>> => Answers[h][Len(Answers[h])].more # "no"
      <4>1. ASSUME got[h] # <<>>
            PROVE  Told(got[h])[Len(got[h])].more # "no" /\ Len(Told(got[h])) = Len(got[h])
        <5>1. more[h] = got[h][Len(got[h])].more
          BY <1>1, <2>1, <4>1 DEF LastAnswer
        <5>2. QED
          BY <2>3, <3>1, <4>1, <5>1, ToldAppend
      <4>2. Told(<<>>) = <<>>
        BY DEF Told
      <4>3. QED
        BY <3>2, <4>1, <4>2
    <3>7. Phase[h] = "busy" /\ Phase' = Phase
      BY <2>1 DEF Phase
    <3> HIDE DEF a
    <3>8. Link!Hand(h)
      BY <2>1, <3>4, <3>5, <3>6, <3>7 DEF Link!Hand
    <3>9. QED
      BY <3>8 DEF Link!Next
  <2>4. CASE \E c \in Callback : got' = [got EXCEPT ![h] = Append(@, c)] /\ more[h] # "no"
    BY <2>3, <2>4
  <2>5. got' = got \/ \E c \in Callback : got' = [got EXCEPT ![h] = Append(@, c)] /\ more[h] # "no"
    <3>1. CASE UNCHANGED <<more, got>>
      BY <3>1
    <3>2. CASE ~UNCHANGED <<more, got>>
      <4>1. PICK x \in MoreStat : more[h] # "no" /\ got' = [got EXCEPT ![h] = Append(@,
              [from |-> Head(buf[h]).from, status |-> Head(buf[h]).status,
               told |-> (Head(buf[h]).ack = AckStat), more |-> x])]
        BY <1>13, <3>2 DEF HandleMessage
      <4>2. Head(buf[h]) \in Message
        BY <1>1, <1>13 DEF HandleMessage, TypeOK
      <4>3. [from |-> Head(buf[h]).from, status |-> Head(buf[h]).status,
             told |-> (Head(buf[h]).ack = AckStat), more |-> x] \in Callback
        BY <4>2 DEF Message, Callback
      <4>4. QED
        BY <4>1, <4>3
    <3>3. QED
      BY <3>1, <3>2
  <2>6. QED
    BY <2>2, <2>4, <2>5
<1>14. ASSUME NEW h \in Handles, EndOfDatagram(h) PROVE Goal
  <2>1. pc[h] = "parse" /\ pc' = [pc EXCEPT ![h] = "poll"] /\ UNCHANGED <<got, ret>>
    BY <1>14 DEF EndOfDatagram
  <2>2. Phase' = [Phase EXCEPT ![h] = "busy"]
    BY <1>1, <2>1, PhaseStep
  <2>3. Phase[h] = "busy" /\ Phase \in [Handles -> {"busy", "closed", "idle"}]
    BY <1>1, <2>1 DEF Phase, TypeOK
  <2>4. QED
    BY <1>2, <2>1, <2>2, <2>3
<1>15. ASSUME Kernel PROVE Goal
  BY <1>3, <1>15 DEF Kernel, Reply, Finish, Noise
<1>16. QED
  <2>1. CASE UNCHANGED vars
    BY <1>3, <2>1 DEF vars
  <2>2. ASSUME NEW h \in Handles, User(h) PROVE Goal
    BY <1>4, <1>5, <1>7, <1>8, <1>9, <2>2 DEF User
  <2>3. ASSUME NEW h \in Handles, Receiver(h) PROVE Goal
    BY <1>11, <1>12, <1>13, <1>14, <2>3 DEF Receiver
  <2>4. QED
    BY <1>15, <2>1, <2>2, <2>3 DEF Next

LEMMA LinkInit == Init => Link!Init
  BY DEF Init, Link!Init, Phase, Answers

LEMMA KeepStep ==
  ASSUME MaxLag <= 1, ~Multicast, QuietReopen
  PROVE  KeepInv /\ [Next]_vars => KeepInv'
  BY OwnStep, TellStep, LastAnswerStep DEF KeepInv, TellInv

LEMMA KeepInit == Init => KeepInv
<1>1. Init => TypeOK
  BY BoundsAssumption DEF Init, TypeOK, MoreStat, Results
<1>2. Init => AcksTell /\ StatusUnmistaken /\ LastAnswer
  BY DEF Init, AcksTell, StatusUnmistaken, LastAnswer, InFlight
<1>3. QED
  BY <1>1, <1>2, OwnInit DEF KeepInv, TellInv

\* The transport keeps the promise of W1Link for any number of handles and
\* requests (w1.c 86-88, 140-158, 312-315): the callback is run with replies to
\* the request being executed only, told truly what they are, never again after
\* it asked for no more, and LREC_SUCCESS means that no further message was due.
THEOREM KeepsPromise ==
  ASSUME MaxLag <= 1, ~Multicast, QuietReopen
  PROVE  Spec => ImplementsLink
<1>1. KeepInv /\ KeepInv' /\ [Next]_vars => [Link!Next]_(Link!linkVars)
  BY LinkStep
<1>2. QED
  BY <1>1, KeepInit, KeepStep, LinkInit, PTL DEF Spec, Link!Spec, ImplementsLink
=============================================================================
