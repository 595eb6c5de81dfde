--------------------------- MODULE PacketOutProofs ---------------------------
(***************************************************************************)
(* The netlink transactions of the main process, for every set of packet   *)
(* outs and ports, every number of sequence numbers and every list of at   *)
(* least three messages: answers are paired with requests and messages go  *)
(* back, as long as the kernel takes packets for the table and requests    *)
(* for port statistics can be sent.                                        *)
(***************************************************************************)
EXTENDS PacketOut, TLAPS

(* The two cases that the code does not handle do not happen, and the list  *)
(* is long enough for a call, its answer and a caller (it has 8).           *)
Handled == ~TABLE_REFUSALS /\ ~STATS_FAILURES /\ FREELIST_SIZE >= 3

Waiting == {"acknowledge", "reply", "parse"}
Steps == Waiting \cup {"idle", "transact", "request", "execute", "port_stats", "return"}

(* What is in the socket is one answer to the request just sent, of a kind  *)
(* that the step expects.                                                   *)
OneAnswer(types) ==
  \/ socket = <<>>
  \/ socket = <<Head(socket)>> /\ Head(socket).seq = seq /\ Head(socket).type \in types

(* MessagesGoBack and RepliesMatch say nothing of the socket between        *)
(* requests: that it is empty is what makes the next answer the right one.  *)
IInv ==
  /\ fault = "none" /\ pc \in Steps
  /\ outer \in {0, 1}
  /\ free = FREELIST_SIZE - outer - (IF pc \in {"idle", "return", "reply"} THEN 0 ELSE 1)
  /\ pc \notin Waiting => socket = <<>>
  /\ pc = "acknowledge" => OneAnswer({"error"})
  /\ pc = "reply" => OneAnswer({"error", "reply"})
  /\ pc = "parse" => OneAnswer({"error", "packet"})

(* An answer put in an empty socket is the only one.                        *)
LEMMA AnswerInEmpty ==
  ASSUME socket = <<>>, NEW type, NEW outcome, NEW types, type \in types,
         socket' = socket \o Kernel_Answer(type, outcome)
  PROVE  OneAnswer(types)'
<1> DEFINE a == Answer(type, Errno[outcome])
<1>1. a.seq = seq' /\ a.type = type
  BY DEF Answer
<1>2. socket' = <<>> \/ socket' = <<a>>
  <2>1. Kernel_Answer(type, outcome) = <<>> \/ Kernel_Answer(type, outcome) = <<a>>
    BY DEF Kernel_Answer
  <2> HIDE DEF a
  <2>2. <<>> \o <<>> = <<>> /\ <<>> \o <<a>> = <<a>>
    OBVIOUS
  <2> QED
    BY <2>1, <2>2
<1> HIDE DEF a
<1>3. Head(<<a>>) = a
  OBVIOUS
<1> QED
  BY <1>1, <1>2, <1>3 DEF OneAnswer

(* Reading the only answer leaves the socket empty.                         *)
LEMMA ReadOne ==
  ASSUME NEW types, OneAnswer(types), socket # <<>>
  PROVE  Tail(socket) = <<>> /\ Head(socket).seq = seq /\ Head(socket).type \in types
<1>1. socket = <<Head(socket)>> /\ Head(socket).seq = seq /\ Head(socket).type \in types
  BY DEF OneAnswer
<1>2. ASSUME NEW x PROVE Tail(<<x>>) = <<>>
  OBVIOUS
<1> QED
  BY <1>1, <1>2

-----------------------------------------------------------------------------
(* One lemma for each kind of call.                                         *)

(* The steps that start a call, or hold and release a message.              *)
LEMMA BeginKeeps ==
  ASSUME Handled, IInv,
         \/ ind_ovs_transact \/ ind_ovs_transact_reply \/ indigo_port_stats_get
         \/ HoldMessage \/ ReleaseMessage \/ Finish \/ \E p \in PacketOuts : indigo_fwd_packet_out(p)
  PROVE  IInv'
<1> USE PacketOutAssumption DEF Handled, IInv, Steps, Waiting
<1>1. CASE ind_ovs_transact \/ ind_ovs_transact_reply \/ indigo_port_stats_get
  BY <1>1 DEF ind_ovs_transact, ind_ovs_transact_reply, indigo_port_stats_get, Begin, Fault
<1>2. CASE HoldMessage \/ ReleaseMessage
  BY <1>2 DEF HoldMessage, ReleaseMessage, Begin, Fault
<1>3. CASE Finish
  BY <1>3 DEF Finish
<1>4. CASE \E p \in PacketOuts : indigo_fwd_packet_out(p)
  BY <1>4 DEF indigo_fwd_packet_out, Begin, Fault, Return
<1> QED
  BY <1>1, <1>2, <1>3, <1>4

(* The steps that send a request and wait for its answer.                   *)
LEMMA SendKeeps ==
  ASSUME Handled, IInv, NEW outcome,
         \/ TransactSend(outcome) \/ RequestSend(outcome) \/ ExecuteSend(outcome) \/ PortStatsSend(outcome)
  PROVE  IInv'
<1> USE PacketOutAssumption DEF Handled, IInv, Steps, Waiting
<1>1. CASE TransactSend(outcome)
  <2>1. socket = <<>>
    BY <1>1 DEF TransactSend
  <2>2. CASE outcome = "send_failed"
    BY <1>1, <2>1, <2>2 DEF TransactSend, Return
  <2>3. CASE outcome # "send_failed"
    <3>1. socket' = socket \o Kernel_Answer("error", outcome)
      BY <1>1, <2>3 DEF TransactSend, Kernel_Ack
    <3>2. OneAnswer({"error"})'
      BY <2>1, <3>1, AnswerInEmpty
    <3> QED
      BY <1>1, <2>3, <3>2 DEF TransactSend
  <2> QED
    BY <2>2, <2>3
<1>2. CASE RequestSend(outcome)
  <2>1. socket = <<>>
    BY <1>2 DEF RequestSend
  <2>2. CASE outcome = "send_failed"
    BY <1>2, <2>1, <2>2 DEF RequestSend, Return
  <2>3. CASE outcome # "send_failed"
    <3>1. PICK type \in {"error", "reply"} : socket' = socket \o Kernel_Answer(type, outcome)
      BY <1>2, <2>3 DEF RequestSend, Kernel_Reply
    <3>2. OneAnswer({"error", "reply"})'
      BY <2>1, <3>1, AnswerInEmpty
    <3> QED
      BY <1>2, <2>3, <3>2 DEF RequestSend
  <2> QED
    BY <2>2, <2>3
<1>3. CASE ExecuteSend(outcome)
  <2>1. socket = <<>>
    BY <1>3 DEF ExecuteSend
  <2>2. CASE outcome = "send_failed"
    BY <1>3, <2>1, <2>2 DEF ExecuteSend, Return
  <2>3. CASE outcome # "send_failed" /\ UsesTable(po[1])
    <3>1. socket' = socket \o <<>>
      BY <1>3, <2>3 DEF ExecuteSend
    <3>2. socket' = <<>>
      BY <2>1, <3>1
    <3> QED
      BY <1>3, <2>3, <3>2 DEF ExecuteSend, Return
  <2>4. CASE outcome # "send_failed" /\ ~UsesTable(po[1])
    <3>1. PICK type \in {"error", "packet"} : socket' = socket \o Kernel_Answer(type, outcome)
      BY <1>3, <2>4 DEF ExecuteSend, Kernel_Packet
    <3>2. OneAnswer({"error", "packet"})'
      BY <2>1, <3>1, AnswerInEmpty
    <3> QED
      BY <1>3, <2>4, <3>2 DEF ExecuteSend
  <2> QED
    BY <2>2, <2>3, <2>4
<1>4. CASE PortStatsSend(outcome)
  BY <1>4 DEF PortStatsSend, Return
<1> QED
  BY <1>1, <1>2, <1>3, <1>4

(* The steps that read an answer: the message for it is free, and it is the *)
(* answer that the step expects.                                            *)
LEMMA ReceiveKeeps ==
  ASSUME Handled, IInv, TransactReceive \/ RequestReceive \/ ExecuteReceive
  PROVE  IInv'
<1> USE PacketOutAssumption DEF Handled, IInv, Steps, Waiting
<1>1. free # 0
  OBVIOUS
<1>2. CASE TransactReceive
  <2>1. socket = <<>> \/ (Tail(socket) = <<>> /\ Head(socket).seq = seq /\ Head(socket).type = "error")
    BY <1>2, ReadOne DEF TransactReceive
  <2>2. socket' = <<>> /\ pc' = "return" /\ free' = free + 1 /\ UNCHANGED <<fault, outer>>
    BY <1>1, <1>2, <2>1 DEF TransactReceive, Receive, Return
  <2> QED
    BY <1>2, <2>2 DEF TransactReceive
<1>3. CASE RequestReceive
  <2>1. socket = <<>> \/ (Tail(socket) = <<>> /\ Head(socket).seq = seq)
    BY <1>3, ReadOne DEF RequestReceive
  <2>2. pc = "reply" /\ socket' = <<>> /\ pc' = "return" /\ UNCHANGED <<free, fault, outer>>
    BY <1>3, <2>1 DEF RequestReceive, Return
  <2> QED
    BY <2>2
<1>4. CASE ExecuteReceive
  <2>1. \/ socket = <<>>
        \/ Tail(socket) = <<>> /\ Head(socket).seq = seq /\ Head(socket).type \in {"error", "packet"}
    BY <1>4, ReadOne DEF ExecuteReceive
  <2>2. socket' = <<>> /\ UNCHANGED <<fault, outer>>
    BY <1>1, <1>4, <2>1 DEF ExecuteReceive, Receive
  <2>3. (pc' = "return" /\ free' = free + 1) \/ (pc' = "transact" /\ free' = free)
    BY <1>1, <1>4, <2>1 DEF ExecuteReceive, Receive, ParseFailed, Return
  <2>4. pc = "parse"
    BY <1>4 DEF ExecuteReceive
  <2> QED
    BY <2>2, <2>3, <2>4
<1> QED
  BY <1>2, <1>3, <1>4

(* The invariant is inductive.                                              *)
LEMMA IInvStep ==
  ASSUME Handled, IInv, [Next]_vars
  PROVE  IInv'
<1>1. CASE UNCHANGED vars
  BY <1>1 DEF vars, IInv, OneAnswer
<1>2. CASE Next
  BY <1>2, BeginKeeps, SendKeeps, ReceiveKeeps DEF Next
<1> QED
  BY <1>1, <1>2

LEMMA IInvAlways ==
  ASSUME Handled
  PROVE  Spec => []IInv
<1>1. Init => IInv
  BY PacketOutAssumption DEF Handled, Init, IInv, Steps, Waiting
<1>2. IInv /\ [Next]_vars => IInv'
  BY IInvStep
<1> QED
  BY <1>1, <1>2, PTL DEF Spec

(* The assertions on nlmsg_seq of util.c and pktout.c hold for every        *)
(* sequence of calls, whatever is refused or lost.                          *)
THEOREM RepliesAlwaysMatch ==
  ASSUME Handled
  PROVE  Spec => []RepliesMatch
<1>1. IInv => RepliesMatch
  BY DEF IInv, RepliesMatch
<1> QED
  BY <1>1, IInvAlways, PTL

(* Every message goes back to the list of free messages, which is never     *)
(* empty when one is needed (ind_ovs_nlmsg_freelist_alloc).                 *)
THEOREM MessagesAlwaysGoBack ==
  ASSUME Handled
  PROVE  Spec => []MessagesGoBack
<1>1. IInv => MessagesGoBack
  BY DEF IInv, MessagesGoBack
<1> QED
  BY <1>1, IInvAlways, PTL
=============================================================================
