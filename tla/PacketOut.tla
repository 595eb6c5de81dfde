------------------------------ MODULE PacketOut ------------------------------
(***************************************************************************)
(* Packet outs (pktout.c) and the netlink transactions of the main process *)
(* (util.c): one socket for all requests, answered in order, and a small   *)
(* list of preallocated messages.                                          *)
(*                                                                         *)
(* A call goes through its sends and receives step by step; the kernel     *)
(* answers a send at once, refuses it, or loses the answer.  A fault is a  *)
(* failed assertion or an empty list of free messages.                     *)
(***************************************************************************)
EXTENDS ActionContext

LOCAL Seqs == INSTANCE SequencesExt

CONSTANTS
  PacketOuts,             \* [in_port, populated, val, actions]
  Ports, NoFlood,         \* the ports, and those that are not flooded
  MAX_PORTS,              \* IND_OVS_MAX_PORTS
  FREELIST_SIZE,          \* IND_OVS_NLMSG_FREELIST_SIZE
  SEQUENCE,               \* bound: sequence numbers repeat after so many
  TABLE_REFUSALS,         \* whether the kernel may refuse a packet for the table
  STATS_FAILURES          \* whether the request for port statistics may not be sent

ASSUME PacketOutAssumption ==
  /\ FREELIST_SIZE \in Nat /\ SEQUENCE \in Nat \ {0, 1}
  /\ TABLE_REFUSALS \in BOOLEAN /\ STATS_FAILURES \in BOOLEAN
  /\ NoFlood \subseteq Ports /\ Ports \subseteq 0 .. MAX_PORTS - 1

VARIABLES
  pc,                     \* where the call is: "idle" if there is none
  po,                     \* <<packet out>>, or <<>> for another request
  msg,                    \* the actions of the message being made
  done,                   \* what the kernel did with the last request
  result,                 \* what the call returns
  socket,                 \* messages to be read from ind_ovs_socket
  seq,                    \* sequence number of the last request
  free,                   \* free messages
  outer,                  \* messages that a caller of the call holds
  fault

vars == <<pc, po, msg, done, result, socket, seq, free, outer, fault>>

NONE == "NONE"
UNKNOWN == "UNKNOWN"
NOT_FOUND == "NOT_FOUND"
PARAM == "PARAM"
COMPAT == "COMPAT"

-----------------------------------------------------------------------------
(* Translation of the actions.                                              *)

(* check_for_table_action                                                   *)
check_for_table_action(acts) ==
  LET rest == {i \in DOMAIN acts : acts[i].of # "set_queue"}
      first == CHOOSE i \in rest : \A j \in rest : i <= j
  IN  rest # {} /\ acts[first].of = "output" /\ acts[first].arg = PORT_TABLE

(* The queue that check_for_table_action finds, 0 if none.                  *)
QueueId(acts) ==
  LET before == {i \in DOMAIN acts : \A j \in 1 .. i : acts[j].of = "set_queue"}
  IN  IF before = {} THEN 0 ELSE acts[CHOOSE i \in before : \A j \in before : j <= i].arg

(* Mutant: the packet also goes back to where it came from.                 *)
flood_all(ctx, in_port) ==
  Seqs!FoldLeft(action_output, ctx, SelectSeq([i \in 1 .. MAX_PORTS |-> i - 1],
                                              LAMBDA p : p \in Ports \ NoFlood))

flood(ctx, in_port) ==
  Seqs!FoldLeft(action_output, ctx, SelectSeq([i \in 1 .. MAX_PORTS |-> i - 1],
                                              LAMBDA p : p \in Ports \ NoFlood /\ p # in_port))

OutputAction(ctx, port, in_port) ==
  CASE port = PORT_CONTROLLER -> action_userspace(ctx, PKTIN_ACTION)
    [] port = PORT_FLOOD -> flood(ctx, in_port)
    [] port = PORT_LOCAL -> action_output_local(ctx)
    [] port = PORT_IN_PORT -> action_output_in_port(ctx)
    [] OTHER -> action_output(ctx, port)

(* A field of set_field, by the name of its OXM.                            *)
SetFieldAction(ctx, oxm, v) ==
  CASE oxm = "vlan_vid" -> action_set_vlan(ctx, "vid", v)
    [] oxm = "vlan_pcp" -> action_set_vlan(ctx, "pcp", v)
    [] oxm \in {"eth_src", "eth_dst"} -> action_set_eth(ctx, oxm, v)
    [] oxm = "ipv4_src" -> action_set_ipv4_addr(ctx, "ip4_src", v)
    [] oxm = "ipv4_dst" -> action_set_ipv4_addr(ctx, "ip4_dst", v)
    [] oxm = "ip_dscp" -> action_set_ipv6_dscp(action_set_ipv4_dscp(ctx, 2 * v), 2 * v)
    [] oxm = "ip_ecn" -> action_set_ipv6_ecn(action_set_ipv4_ecn(ctx, v), v)
    [] oxm = "ipv6_src" -> action_set_ipv6_addr(ctx, "ip6_src", v)
    [] oxm = "ipv6_dst" -> action_set_ipv6_addr(ctx, "ip6_dst", v)
    [] oxm = "ipv6_flabel" -> action_set_ipv6_flabel(ctx, v)
    [] oxm \in {"tcp_src", "tcp_dst"} -> action_set_tcp(ctx, oxm, v)
    [] oxm \in {"udp_src", "udp_dst"} -> action_set_udp(ctx, oxm, v)

SetFields == {"vlan_vid", "vlan_pcp", "eth_src", "eth_dst", "ipv4_src", "ipv4_dst", "ip_dscp", "ip_ecn",
              "ipv6_src", "ipv6_dst", "ipv6_flabel", "tcp_src", "tcp_dst", "udp_src", "udp_dst"}

(* The actions of OpenFlow 1.0, and those without an argument.              *)
LegacyAction(ctx, of, v) ==
  CASE of = "set_dl_dst" -> action_set_eth(ctx, "eth_dst", v)
    [] of = "set_dl_src" -> action_set_eth(ctx, "eth_src", v)
    [] of = "set_nw_dst" -> action_set_ipv4_addr(ctx, "ip4_dst", v)
    [] of = "set_nw_src" -> action_set_ipv4_addr(ctx, "ip4_src", v)
    [] of = "set_nw_tos" -> action_set_ipv6_dscp(action_set_ipv4_dscp(ctx, v), v)
    [] of = "set_tp_dst" -> action_set_udp(action_set_tcp(ctx, "tcp_dst", v), "udp_dst", v)
    [] of = "set_tp_src" -> action_set_udp(action_set_tcp(ctx, "tcp_src", v), "udp_src", v)
    [] of = "set_vlan_vid" -> action_set_vlan(ctx, "vid", v)
    [] of = "set_vlan_pcp" -> action_set_vlan(ctx, "pcp", v)
    [] of \in {"pop_vlan", "strip_vlan"} -> action_pop_vlan(ctx)
    [] of = "push_vlan" -> action_push_vlan(ctx)
    [] of = "set_nw_ttl" -> action_set_ipv6_ttl(action_set_ipv4_ttl(ctx, v), v)
    [] of = "set_queue" -> action_set_priority(ctx, v)

LegacyActions == {"set_dl_dst", "set_dl_src", "set_nw_dst", "set_nw_src", "set_nw_tos", "set_tp_dst",
                  "set_tp_src", "set_vlan_vid", "set_vlan_pcp", "pop_vlan", "strip_vlan", "push_vlan",
                  "set_nw_ttl", "set_queue"}

(* dec_nw_ttl: ipv4 first; a ttl that comes to zero ends the list.          *)
Ttl(ctx, a, f) == a \in ctx.current_key.populated /\ ctx.current_key.val[f] <= 1
DecNwTtl(ctx) ==
  LET Dec(c, a, f) == SetField(c, a, f, IF c.current_key.val[f] = 0 THEN 0 ELSE c.current_key.val[f] - 1)
      ipv4 == Dec(ctx, "ipv4", "ip4_ttl")
  IN  IF Ttl(ctx, "ipv4", "ip4_ttl") THEN ipv4 ELSE Dec(ipv4, "ipv6", "ip6_ttl")

Refused(a) ==
  \/ a.of = "output" /\ (a.arg \in OtherPorts \cup {PORT_TABLE} \/ a.arg >= MAX_PORTS)
  \/ a.of = "set_field" /\ \/ a.field \notin SetFields
                           \/ a.field \in {"ip_dscp", "ip_ecn"} /\ a.arg > 1
                           \/ a.field = "ipv6_flabel" /\ a.arg > 3
  \/ a.of = "push_vlan" /\ a.field # "8021q"
  \/ a.of \notin {"output", "set_field", "dec_nw_ttl", "nicira_dec_ttl"} \cup LegacyActions

Step(ctx, a) ==
  CASE a.of = "output" -> OutputAction(ctx, a.arg, ctx.current_key.val["in_port"])
    [] a.of = "set_field" -> SetFieldAction(ctx, a.field, a.arg)
    [] a.of \in {"dec_nw_ttl", "nicira_dec_ttl"} -> DecNwTtl(ctx)
    [] OTHER -> LegacyAction(ctx, a.of, a.arg)

Expires(ctx, a) ==
  a.of \in {"dec_nw_ttl", "nicira_dec_ttl"} /\ (Ttl(ctx, "ipv4", "ip4_ttl") \/ Ttl(ctx, "ipv6", "ip6_ttl"))

(* The whole list: a refused action ends it with an error, a ttl of zero    *)
(* without one.                                                             *)
translate_openflow_actions(acts, key) ==
  LET One(st, a) ==
        IF st.ended THEN st
        ELSE IF Refused(a) THEN [st EXCEPT !.ended = TRUE, !.rv = COMPAT]
        ELSE [st EXCEPT !.ctx = Step(st.ctx, a), !.ended = Expires(st.ctx, a)]
  IN  Seqs!FoldLeft(One, [ctx |-> action_context_init(key, {}), ended |-> FALSE, rv |-> NONE], acts)

-----------------------------------------------------------------------------
(* The socket.                                                              *)

Answer(type, err) == [type |-> type, seq |-> seq', err |-> err]

(* What the kernel does with a request, and the answer it puts in the       *)
(* socket: of a request for an acknowledgement, for a reply, or for the     *)
(* parsed packet.  A wrong errno is one of a bug that the code knows of.    *)
Errno == [done |-> 0, done_wrong_errno |-> 1, refused |-> -22, not_found |-> -2]
Kernel_Answer(type, outcome) ==
  IF outcome \in {"done_lost", "lost"} THEN <<>> ELSE <<Answer(type, Errno[outcome])>>
Kernel_Ack(outcome) == Kernel_Answer("error", outcome)
Kernel_Reply(outcome) == Kernel_Answer(IF outcome = "done" THEN "reply" ELSE "error", outcome)
Kernel_Packet(outcome) == Kernel_Answer(IF outcome = "done" THEN "packet" ELSE "error", outcome)

sys2indigoerr(err) == IF err = 2 THEN NOT_FOUND ELSE UNKNOWN

(* Mutant: without the workaround.                                          *)
AckResultStrict(err) == IF err # 0 THEN sys2indigoerr(-err) ELSE NONE

(* The result of an acknowledgement, in ind_ovs_transact_nofree.            *)
AckResult(err) ==
  LET e == IF err > 0 THEN 0 ELSE err
  IN  IF e < 0 THEN sys2indigoerr(-e) ELSE NONE

Send == seq' = (seq + 1) % SEQUENCE

Return(rv) == pc' = "return" /\ result' = rv
Fault(f) == fault' = f /\ pc' = "fault" /\ UNCHANGED <<result, socket, free>>

(* ind_ovs_recv_nlmsg needs a free message, and gives it back if there is   *)
(* nothing to read.                                                         *)
Receive(handled, nothing) ==
  IF free = 0 THEN Fault("exhausted") /\ UNCHANGED msg
  ELSE IF socket = <<>> THEN nothing /\ UNCHANGED <<socket, fault>>
  ELSE handled

-----------------------------------------------------------------------------
(* ind_ovs_transact: send, wait for the acknowledgement.                    *)

(* ind_ovs_create_nlmsg, and on to the next step.                           *)
Begin(step) ==
  IF free = 0 THEN Fault("exhausted")
  ELSE free' = free - 1 /\ pc' = step /\ UNCHANGED <<result, socket, fault>>

ind_ovs_transact ==
  /\ pc = "idle"
  /\ Begin("transact")
  /\ UNCHANGED <<po, msg, done, seq, outer>>

TransactSend(outcome) ==
  /\ pc = "transact"
  /\ Send
  /\ done' = outcome
  /\ IF outcome = "send_failed" THEN Return(UNKNOWN) /\ free' = free + 1 /\ UNCHANGED socket
     ELSE /\ socket' = socket \o Kernel_Ack(outcome)
          /\ pc' = "acknowledge"
          /\ UNCHANGED <<result, free>>
  /\ UNCHANGED <<po, msg, outer, fault>>

TransactReceive ==
  LET reply == Head(socket)
      handled ==
        IF reply.type # "error" \/ reply.seq # seq THEN Fault("mismatch") /\ UNCHANGED msg
        ELSE /\ socket' = Tail(socket)
             /\ free' = free + 1
             /\ Return(AckResult(reply.err))
             /\ UNCHANGED <<msg, fault>>
  IN  /\ pc = "acknowledge"
      /\ Receive(handled, Return(UNKNOWN) /\ free' = free + 1 /\ UNCHANGED msg)
      /\ UNCHANGED <<po, done, seq, outer>>

-----------------------------------------------------------------------------
(* ind_ovs_transact_reply: the reply is not from the list of messages.      *)

ind_ovs_transact_reply ==
  /\ pc = "idle"
  /\ Begin("request")
  /\ UNCHANGED <<po, msg, done, seq, outer>>

(* Mutant: an acknowledgement is asked for too.                             *)
RequestSendAck(outcome) ==
  /\ pc = "request"
  /\ Send
  /\ done' = outcome
  /\ free' = free + 1
  /\ IF outcome = "send_failed" THEN Return(UNKNOWN) /\ UNCHANGED socket
     ELSE /\ socket' = socket \o Kernel_Reply(outcome) \o (IF outcome = "done" THEN Kernel_Ack(outcome) ELSE <<>>)
          /\ pc' = "reply"
          /\ UNCHANGED result
  /\ UNCHANGED <<po, msg, outer, fault>>

RequestSend(outcome) ==
  /\ pc = "request"
  /\ Send
  /\ done' = outcome
  /\ free' = free + 1
  /\ IF outcome = "send_failed" THEN Return(UNKNOWN) /\ UNCHANGED socket
     ELSE socket' = socket \o Kernel_Reply(outcome) /\ pc' = "reply" /\ UNCHANGED result
  /\ UNCHANGED <<po, msg, outer, fault>>

RequestReceive ==
  /\ pc = "reply"
  /\ IF socket = <<>> THEN Return(UNKNOWN) /\ UNCHANGED <<socket, free, fault>>
     ELSE IF Head(socket).seq # seq THEN Fault("mismatch")
     ELSE /\ socket' = Tail(socket)
          /\ Return(IF Head(socket).type = "error" THEN sys2indigoerr(-Head(socket).err) ELSE NONE)
          /\ UNCHANGED <<free, fault>>
  /\ UNCHANGED <<po, msg, done, seq, outer>>

-----------------------------------------------------------------------------
(* indigo_port_stats_get: a socket of its own, and no answer of that socket *)
(* is left when the call returns.                                           *)

indigo_port_stats_get ==
  /\ pc = "idle"
  /\ Begin("port_stats")
  /\ UNCHANGED <<po, msg, done, seq, outer>>

(* A message that is not sent is not freed.                                 *)
PortStatsSend(outcome) ==
  /\ pc = "port_stats"
  /\ outcome = "send_failed" => STATS_FAILURES
  /\ done' = outcome
  /\ free' = IF outcome = "send_failed" THEN free ELSE free + 1
  /\ Return(IF outcome = "done" THEN NONE ELSE UNKNOWN)
  /\ UNCHANGED <<po, msg, socket, seq, outer, fault>>

-----------------------------------------------------------------------------
(* indigo_fwd_packet_out: the message goes to the kernel once to have the   *)
(* packet parsed, or to have it sent to an upcall process, and then with    *)
(* the actions.                                                             *)

UsesTable(p) == check_for_table_action(p.actions)

(* The port number in the message, -1 if it has none.                       *)
InPort(p) ==
  LET port == IF UsesTable(p) /\ p.in_port = PORT_CONTROLLER THEN PORT_LOCAL ELSE p.in_port
  IN  IF port = PORT_LOCAL THEN OVSP_LOCAL ELSE IF port \in 0 .. MAX_PORTS - 1 THEN port ELSE -1

(* The key that the kernel makes of the packet and the message's own key.   *)
KeyOf(p) ==
  ParsedKey(p.populated \cup {"priority"} \cup (IF InPort(p) = -1 THEN {} ELSE {"in_port"}),
            [in_port |-> InPort(p), priority |-> IF UsesTable(p) THEN QueueId(p.actions) ELSE 0] @@ p.val)

indigo_fwd_packet_out(p) ==
  /\ pc = "idle"
  /\ po' = <<p>>
  /\ IF UsesTable(p) /\ InPort(p) \notin Ports THEN Return(PARAM) /\ UNCHANGED <<socket, free, fault>>
     ELSE Begin("execute")
  /\ UNCHANGED <<msg, done, seq, outer>>

ExecuteSend(outcome) ==
  LET table == UsesTable(po[1])
  IN  /\ pc = "execute"
      /\ Send
      /\ done' = outcome
      /\ outcome = "refused" /\ table => TABLE_REFUSALS
      /\ IF outcome = "send_failed" THEN Return(UNKNOWN) /\ free' = free + 1 /\ UNCHANGED socket
         ELSE IF table
           THEN /\ socket' = socket \o (IF outcome = "refused" THEN Kernel_Packet(outcome) ELSE <<>>)
                /\ free' = free + 1
                /\ Return(NONE)
         ELSE socket' = socket \o Kernel_Packet(outcome) /\ pc' = "parse" /\ UNCHANGED <<result, free>>
      /\ UNCHANGED <<po, msg, outer, fault>>

(* Mutant: after an error only the reply is freed.                          *)
ParseFailedLeak == Return(UNKNOWN) /\ UNCHANGED free

ParseFailed == Return(UNKNOWN) /\ free' = free + 1

ExecuteReceive ==
  LET reply == Head(socket)
      handled ==
        IF reply.type = "error"
          THEN IF reply.seq # seq THEN Fault("mismatch") /\ UNCHANGED msg
               ELSE ParseFailed /\ socket' = Tail(socket) /\ UNCHANGED <<msg, fault>>
        ELSE IF reply.type # "packet" THEN Fault("mismatch") /\ UNCHANGED msg
        ELSE LET translated == translate_openflow_actions(po[1].actions, KeyOf(po[1]))
             IN  /\ socket' = Tail(socket)
                 /\ msg' = translated.ctx.msg
                 /\ IF translated.rv # NONE THEN Return(translated.rv) /\ free' = free + 1
                    ELSE pc' = "transact" /\ UNCHANGED <<result, free>>
                 /\ UNCHANGED fault
  IN  /\ pc = "parse"
      /\ Receive(handled, ParseFailed /\ UNCHANGED msg)
      /\ UNCHANGED <<po, done, seq, outer>>

-----------------------------------------------------------------------------
(* The call returns.                                                        *)
Finish ==
  /\ pc = "return"
  /\ pc' = "idle" /\ po' = <<>> /\ msg' = <<>> /\ done' = "none" /\ result' = NONE
  /\ UNCHANGED <<socket, seq, free, outer, fault>>

(* A caller holds a message while it makes calls: the one that an           *)
(* invalidated kernel flow is changed with.                                 *)
HoldMessage ==
  /\ pc = "idle" /\ outer = 0
  /\ Begin("idle")
  /\ outer' = 1
  /\ UNCHANGED <<po, msg, done, seq>>

ReleaseMessage ==
  /\ pc = "idle" /\ outer = 1
  /\ free' = free + 1 /\ outer' = 0
  /\ UNCHANGED <<pc, po, msg, done, result, socket, seq, fault>>

Init ==
  /\ pc = "idle" /\ po = <<>> /\ msg = <<>> /\ done = "none" /\ result = NONE
  /\ socket = <<>> /\ seq = 0
  /\ free = FREELIST_SIZE /\ outer = 0
  /\ fault = "none"

Outcomes == {"done", "done_lost", "refused", "not_found", "lost", "send_failed"}

Next ==
  \/ ind_ovs_transact
  \/ \E outcome \in Outcomes \cup {"done_wrong_errno"} : TransactSend(outcome)
  \/ TransactReceive
  \/ ind_ovs_transact_reply
  \/ \E outcome \in Outcomes : RequestSend(outcome)
  \/ RequestReceive
  \/ indigo_port_stats_get
  \/ \E outcome \in {"done", "refused", "lost", "send_failed"} : PortStatsSend(outcome)
  \/ \E p \in PacketOuts : indigo_fwd_packet_out(p)
  \/ \E outcome \in {"done", "refused", "lost", "send_failed"} : ExecuteSend(outcome)
  \/ ExecuteReceive
  \/ Finish
  \/ HoldMessage
  \/ ReleaseMessage

Spec == Init /\ [][Next]_vars

-----------------------------------------------------------------------------
(* Properties.                                                              *)

(* The steps of a call; only the answer to its last request is in the       *)
(* socket.                                                                  *)
TypeOK ==
  /\ pc \in {"idle", "transact", "acknowledge", "request", "reply", "execute", "parse", "port_stats",
            "return", "fault"}
  /\ (po = <<>>) \/ (po[1] \in PacketOuts /\ pc # "idle")
  /\ result \in {NONE, UNKNOWN, NOT_FOUND, PARAM, COMPAT}
  /\ seq \in 0 .. SEQUENCE - 1 /\ outer \in {0, 1}
  /\ Len(socket) <= IF pc \in {"acknowledge", "reply", "parse"} THEN 1 ELSE 0

(* assert(reply->nlmsg_seq == seq) in util.c and pktout.c: what is read     *)
(* from the socket is the answer to the request just sent, whatever was     *)
(* refused or lost before.                                                  *)
RepliesMatch == fault # "mismatch"

(* "We know we'll never need more than a few nlmsgs at a time": every       *)
(* message goes back to the list on every path of a call, and the list is   *)
(* never empty when one is needed (util.c).                                 *)
MessagesGoBack ==
  /\ fault # "exhausted"
  /\ free = FREELIST_SIZE - outer - (IF pc \in {"idle", "return", "reply"} THEN 0 ELSE 1)

(* A call that returns NONE was done by the kernel, and a call that the     *)
(* kernel did and answered returns NONE, even with the wrong errno of old   *)
(* kernels, unless it is a packet out whose actions are refused; only an    *)
(* upcall process knows about a packet for the table.                       *)
ResultsAreTrue ==
  /\ TypeOK
  /\ pc = "return" /\ (po = <<>> \/ ~UsesTable(po[1])) =>
       /\ (result = NONE) => done \in {"done", "done_wrong_errno"}
       /\ done \in {"done", "done_wrong_errno"} => result \in {NONE, COMPAT}
       /\ (result = NOT_FOUND) <=> (done = "not_found")

(* What the actions mean when each is done at once to the packet.           *)
MeaningStep(st, a) ==
  LET in_port == st.packet.val["in_port"]
      after == Step(action_context_init(st.packet, {}), a)
      packet == ParsedKey(after.current_key.populated, after.current_key.val)
      ports == CASE a.of # "output" \/ a.arg = PORT_CONTROLLER -> {}
                 [] a.of = "output" /\ a.arg = PORT_FLOOD -> Ports \ (NoFlood \cup {in_port})
                 [] a.of = "output" /\ a.arg = PORT_LOCAL -> {OVSP_LOCAL}
                 [] a.of = "output" /\ a.arg = PORT_IN_PORT -> {in_port}
                 [] OTHER -> {a.arg}
  IN  IF st.ended THEN st
      ELSE [packet |-> packet, out |-> st.out \o <<{<<p, packet>> : p \in ports}>>,
            ended |-> Expires(action_context_init(st.packet, {}), a)]

(* A packet out that is sent to the kernel puts out, on the ports that its  *)
(* actions name, the packets that the actions before each output make; a    *)
(* flood leaves out the port the packet came from                           *)
(* (translate_openflow_actions and flood in pktout.c).                      *)
OutputsAsAsked ==
  pc = "transact" /\ (po # <<>>) =>
    LET key == KeyOf(po[1])
        out == Kernel(key, msg).out
        meant == Seqs!FoldLeft(MeaningStep, [packet |-> key, out |-> <<>>, ended |-> FALSE], po[1].actions).out
    IN  /\ {out[i] : i \in DOMAIN out} = UNION {meant[i] : i \in DOMAIN meant}
        /\ Len(out) = Seqs!FoldLeft(LAMBDA n, ps : n + Cardinality(ps), 0, meant)
=============================================================================
