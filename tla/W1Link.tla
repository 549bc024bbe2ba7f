------------------------------- MODULE W1Link -------------------------------
(***************************************************************************)
(* What send_recv_w1msg() promises to the operations of w1.c built on it   *)
(* (w1_msg_exec, list_w1_masters, the searches): the caller's callback is  *)
(* run once per reply, only with replies to the request being executed     *)
(* ("it's guaranteed the message corresponds to the request message", w1.c *)
(* lines 86-88), told truly whether a reply is a status, and never again   *)
(* after it asked for no more; LREC_SUCCESS means that the last callback   *)
(* did not require a further message.                                      *)
(***************************************************************************)
EXTENDS Sequences

CONSTANT Handles    \* the w1_hndl_t handles of the library's users

VARIABLES
  phase,      \* phase[h]: "closed", "idle" or "busy" with a call
  answers,    \* answers[h]: the callbacks of the last call, oldest first
  result      \* result[h]: what the last call on h returned

linkVars == <<phase, answers, result>>

MoreStat == {"no", "req", "opt"}
Failures == {"NO_RESP", "COMM_ERR", "PROTO_ERR", "BAD_MSG", "MSG_SIZE"}

\* one callback: with a reply to the call in progress, the status flag true
Answer == [own : {TRUE}, told : {TRUE}, more : MoreStat]

Init ==
  /\ phase = [h \in Handles |-> "closed"]
  /\ answers = [h \in Handles |-> <<>>]
  /\ result = [h \in Handles |-> "SUCCESS"]

Open(h) ==
  /\ phase[h] = "closed"
  /\ \/ phase' = [phase EXCEPT ![h] = "idle"] /\ result' = [result EXCEPT ![h] = "SUCCESS"]
     \/ phase' = phase /\ result' = [result EXCEPT ![h] = "COMM_ERR"]
  /\ UNCHANGED answers

Close(h) ==
  /\ phase' = [phase EXCEPT ![h] = "closed"]
  /\ UNCHANGED <<answers, result>>

Call(h) ==
  /\ phase[h] = "idle"
  /\ phase' = [phase EXCEPT ![h] = "busy"]
  /\ answers' = [answers EXCEPT ![h] = <<>>]
  /\ UNCHANGED result

\* a call that fails before anything is sent
Refuse(h) ==
  /\ phase[h] = "idle"
  /\ result' \in {[result EXCEPT ![h] = f] : f \in {"COMM_ERR", "MSG_SIZE"}}
  /\ answers' \in {answers, [answers EXCEPT ![h] = <<>>]}
  /\ UNCHANGED phase

Hand(h) ==
  /\ phase[h] = "busy"
  /\ answers[h] # <<>> => answers[h][Len(answers[h])].more # "no"
  /\ \E a \in Answer : answers' = [answers EXCEPT ![h] = Append(@, a)]
  /\ UNCHANGED <<phase, result>>

Return(h) ==
  /\ phase[h] = "busy"
  /\ phase' = [phase EXCEPT ![h] = "idle"]
  /\ \/ \E f \in Failures : result' = [result EXCEPT ![h] = f]
     \/ /\ answers[h] # <<>>
        /\ answers[h][Len(answers[h])].more # "req"
        /\ result' = [result EXCEPT ![h] = "SUCCESS"]
  /\ UNCHANGED answers

Next == \E h \in Handles :
  Open(h) \/ Close(h) \/ Call(h) \/ Refuse(h) \/ Hand(h) \/ Return(h)

Spec == Init /\ [][Next]_linkVars
=============================================================================
