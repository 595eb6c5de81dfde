----------------------------- MODULE ActionContext -----------------------------
(***************************************************************************)
(* action.c: the context in which a pipeline turns OpenFlow actions into   *)
(* the actions of a kernel flow.  Set-field actions only change            *)
(* current_key; they reach the message when an output commits them.        *)
(*                                                                         *)
(* A key has the set of its populated attributes and a value for each      *)
(* field.  An address or port is two binary digits, in network order; a    *)
(* tos is a dscp digit and an ecn digit.  A mask is a set of fields.       *)
(***************************************************************************)
EXTENDS Integers, Sequences, FiniteSets, TLC

LOCAL Seqs == INSTANCE SequencesExt

CONSTANT OVSP_LOCAL       \* port number of the local port

(* OVS_KEY_FIELDS: the attributes, in the order they are committed, and     *)
(* their fields.                                                            *)
AttrOrder == <<"priority", "in_port", "ethernet", "vlan", "ethertype",
               "ipv4", "ipv6", "tcp", "udp", "icmp", "icmpv6", "arp">>

AttrFields ==
  [priority |-> {"priority"}, in_port |-> {"in_port"},
   ethernet |-> {"eth_dst", "eth_src"}, vlan |-> {"vid", "pcp"},
   ethertype |-> {"ethertype"},
   ipv4 |-> {"ip4_src", "ip4_dst", "ip4_proto", "ip4_dscp", "ip4_ecn", "ip4_ttl"},
   ipv6 |-> {"ip6_src", "ip6_dst", "ip6_label", "ip6_proto", "ip6_dscp", "ip6_ecn", "ip6_ttl"},
   tcp |-> {"tcp_src", "tcp_dst"}, udp |-> {"udp_src", "udp_dst"},
   icmp |-> {"icmp_type", "icmp_code"}, icmpv6 |-> {"icmpv6_type", "icmpv6_code"},
   arp |-> {"arp_op", "arp_sip", "arp_tip"}]

Fields == UNION {AttrFields[a] : a \in DOMAIN AttrFields}

(* ind_ovs_parse_key: what a field is without its attribute.                *)
Unset(f) == IF f = "in_port" THEN -1 ELSE 0

(* A key with attributes that have the values of val.                       *)
ParsedKey(populated, val) ==
  [populated |-> populated,
   val |-> [f \in Fields |-> IF \E a \in populated : f \in AttrFields[a] /\ f \in DOMAIN val
                            THEN val[f] ELSE Unset(f)]]

(* Reserved ports of OpenFlow, and reasons of a packet in.                  *)
PORT_CONTROLLER == -3
PORT_LOCAL == -2
PORT_IN_PORT == -8
PORT_FLOOD == -5
PORT_TABLE == -7
OtherPorts == {-4, -1, -6}                 \* ALL, ANY, NORMAL
PKTIN_NO_MATCH == 0
PKTIN_ACTION == 1

(* htons and htonl on a little-endian host.                                 *)
hton(v) == 2 * (v % 2) + v \div 2

action_context_init(key, mask) ==
  [current_key |-> key, mask |-> mask, modified |-> {}, msg |-> <<>>]

(* The MASK macro.                                                          *)
MaskAttr(ctx, a) == [ctx EXCEPT !.mask = @ \cup AttrFields[a]]

Put(ctx, action) == [ctx EXCEPT !.msg = Append(@, action)]

-----------------------------------------------------------------------------
(* commit_set_field_actions                                                 *)

(* Mutant: a popped tag is not taken off the packet.                        *)
CommitVlanPushOnly(ctx) ==
  IF "vlan" \notin ctx.modified THEN ctx
  ELSE LET pushed == IF "vlan" \in ctx.current_key.populated
                       THEN Put(Put(ctx, [op |-> "pop_vlan"]),
                                [op |-> "push_vlan", vid |-> ctx.current_key.val["vid"],
                                 pcp |-> ctx.current_key.val["pcp"]])
                       ELSE ctx
       IN  MaskAttr(pushed, "vlan")

(* The vlan tag is always taken off, and put back with its new content.     *)
CommitVlan(ctx) ==
  IF "vlan" \notin ctx.modified THEN ctx
  ELSE LET popped == Put(ctx, [op |-> "pop_vlan"])
           pushed == IF "vlan" \in ctx.current_key.populated
                       THEN Put(popped, [op |-> "push_vlan", vid |-> ctx.current_key.val["vid"],
                                         pcp |-> ctx.current_key.val["pcp"]])
                       ELSE popped
       IN  MaskAttr(pushed, "vlan")

(* Every other attribute is written whole, and masked whole.                *)
CommitAttrs(ctx) ==
  LET written == SelectSeq(AttrOrder, LAMBDA a : a \in ctx.modified \ {"vlan"})
  IN  [ctx EXCEPT
         !.msg = @ \o [i \in DOMAIN written |->
                         [op |-> "set", attr |-> written[i],
                          val |-> [f \in AttrFields[written[i]] |-> ctx.current_key.val[f]]]],
         !.mask = @ \cup UNION {AttrFields[a] : a \in ctx.modified \ {"vlan"}}]

commit_set_field_actions(ctx) == [CommitAttrs(CommitVlan(ctx)) EXCEPT !.modified = {}]

-----------------------------------------------------------------------------
(* Output actions                                                           *)

action_userspace(ctx, userdata) ==
  MaskAttr(Put(commit_set_field_actions(ctx), [op |-> "userspace", userdata |-> userdata]), "in_port")

action_output(ctx, port) ==
  Put(commit_set_field_actions(ctx), [op |-> "output", port |-> port])

action_output_local(ctx) ==
  Put(commit_set_field_actions(ctx), [op |-> "output", port |-> OVSP_LOCAL])

action_output_in_port(ctx) ==
  MaskAttr(Put(commit_set_field_actions(ctx),
               [op |-> "output", port |-> ctx.current_key.val["in_port"]]), "in_port")

-----------------------------------------------------------------------------
(* Set-field actions: no effect on a packet without the attribute.          *)

SetField(ctx, a, f, v) ==
  IF a \notin ctx.current_key.populated THEN ctx
  ELSE [ctx EXCEPT !.modified = @ \cup {a}, !.current_key.val[f] = v]

action_set_eth(ctx, f, v) == SetField(ctx, "ethernet", f, v)

(* vid and pcp: an untagged packet becomes a tagged one, whose other part   *)
(* is zero.                                                                 *)
action_set_vlan(ctx, f, v) ==
  LET tag == IF "vlan" \in ctx.current_key.populated THEN ctx.current_key.val
             ELSE [ctx.current_key.val EXCEPT !["vid"] = 0, !["pcp"] = 0]
  IN  [ctx EXCEPT !.modified = @ \cup {"vlan"},
                  !.current_key.populated = @ \cup {"vlan"},
                  !.current_key.val = [tag EXCEPT ![f] = v]]

action_pop_vlan(ctx) ==
  IF "vlan" \notin ctx.current_key.populated THEN ctx
  ELSE [ctx EXCEPT !.modified = @ \cup {"vlan"}, !.current_key.populated = @ \ {"vlan"}]

action_push_vlan(ctx) ==
  IF "vlan" \in ctx.current_key.populated THEN ctx
  ELSE [ctx EXCEPT !.modified = @ \cup {"vlan"},
                   !.current_key.populated = @ \cup {"vlan"},
                   !.current_key.val["vid"] = 0, !.current_key.val["pcp"] = 0]

action_set_ipv4_addr(ctx, f, v) == SetField(ctx, "ipv4", f, hton(v))

(* dscp and ecn: the digit is cleared, then the tos v is added with |=.     *)
Or(x, y) == IF x = 1 \/ y = 1 THEN 1 ELSE 0

SetDscp(ctx, a, dscp, ecn, v) ==
  SetField(SetField(ctx, a, dscp, v \div 2), a, ecn, Or(ctx.current_key.val[ecn], v % 2))

SetEcn(ctx, a, dscp, ecn, v) ==
  SetField(SetField(ctx, a, ecn, v % 2), a, dscp, Or(ctx.current_key.val[dscp], v \div 2))

action_set_ipv4_dscp(ctx, v) == SetDscp(ctx, "ipv4", "ip4_dscp", "ip4_ecn", v)

action_set_ipv4_ecn(ctx, v) == SetEcn(ctx, "ipv4", "ip4_dscp", "ip4_ecn", v)

action_set_ipv4_ttl(ctx, v) == SetField(ctx, "ipv4", "ip4_ttl", v)

action_set_ipv6_addr(ctx, f, v) == SetField(ctx, "ipv6", f, v)

action_set_ipv6_dscp(ctx, v) == SetDscp(ctx, "ipv6", "ip6_dscp", "ip6_ecn", v)

action_set_ipv6_ecn(ctx, v) == SetEcn(ctx, "ipv6", "ip6_dscp", "ip6_ecn", v)

action_set_ipv6_ttl(ctx, v) == SetField(ctx, "ipv6", "ip6_ttl", v)

action_set_ipv6_flabel(ctx, v) == SetField(ctx, "ipv6", "ip6_label", hton(v))

action_set_tcp(ctx, f, v) == SetField(ctx, "tcp", f, hton(v))

action_set_udp(ctx, f, v) == SetField(ctx, "udp", f, hton(v))

action_set_priority(ctx, v) ==
  [ctx EXCEPT !.modified = @ \cup {"priority"}, !.current_key.val["priority"] = v]

-----------------------------------------------------------------------------
(* The kernel: the packets that a list of its actions puts out.             *)

KernelStep(st, action) ==
  CASE action.op = "set" ->
         [st EXCEPT !.packet.val = action.val @@ @]
    [] action.op = "pop_vlan" ->
         [st EXCEPT !.packet.populated = @ \ {"vlan"},
                    !.packet.val["vid"] = 0, !.packet.val["pcp"] = 0]
    [] action.op = "push_vlan" ->
         [st EXCEPT !.packet.populated = @ \cup {"vlan"},
                    !.packet.val["vid"] = action.vid, !.packet.val["pcp"] = action.pcp]
    [] action.op = "output" ->
         [st EXCEPT !.out = Append(@, <<action.port, st.packet>>)]
    [] action.op = "userspace" ->
         [st EXCEPT !.up = Append(@, <<action.userdata, st.packet>>)]

Kernel(key, msg) ==
  Seqs!FoldLeft(KernelStep, [packet |-> key, out |-> <<>>, up |-> <<>>], msg)

=============================================================================
