------------------------------ MODULE MCPacketOut ------------------------------
(* Instances of PacketOut.                                                  *)
EXTENDS PacketOut

Of(of, field, arg) == [of |-> of, field |-> field, arg |-> arg]
Output(p) == Of("output", "", p)
Set(field, v) == Of("set_field", field, v)

(* A tagged TCP packet, an untagged UDP packet over IPv6, and neither.      *)
Tcp == [populated |-> {"ethernet", "vlan", "ethertype", "ipv4", "tcp"},
        val |-> [eth_dst |-> 0, eth_src |-> 0, vid |-> 0, pcp |-> 1, ethertype |-> 2048, ip4_src |-> 0,
                 ip4_dst |-> 0, ip4_proto |-> 6, ip4_dscp |-> 0, ip4_ecn |-> 1, ip4_ttl |-> 1,
                 tcp_src |-> 0, tcp_dst |-> 2]]
Udp == [populated |-> {"ethernet", "ethertype", "ipv6", "udp"},
        val |-> [eth_dst |-> 0, eth_src |-> 0, ethertype |-> 34525, ip6_src |-> 0, ip6_dst |-> 0,
                 ip6_label |-> 0, ip6_proto |-> 17, ip6_dscp |-> 1, ip6_ecn |-> 0, ip6_ttl |-> 2,
                 udp_src |-> 0, udp_dst |-> 0]]
Plain == [populated |-> {"ethernet"}, val |-> [eth_dst |-> 0, eth_src |-> 0]]

Alphabet ==
  {Output(1), Output(PORT_IN_PORT), Output(PORT_CONTROLLER), Output(PORT_LOCAL), Output(PORT_FLOOD),
   Output(PORT_TABLE), Output(4), Output(-4), Of("pop_vlan", "", 0), Of("push_vlan", "8021q", 0),
   Of("push_vlan", "8021ad", 0), Of("dec_nw_ttl", "", 0), Of("set_nw_ttl", "", 2), Of("set_queue", "", 1),
   Of("set_nw_tos", "", 2), Of("set_tp_dst", "", 1), Of("set_vlan_vid", "", 1), Of("experimenter", "", 0),
   Set("vlan_pcp", 0), Set("ip_ecn", 1), Set("ip_ecn", 2), Set("ip_dscp", 1), Set("ipv4_dst", 1),
   Set("ipv6_flabel", 1), Set("eth_dst", 1), Set("arp_op", 1)}
Outputs == {Output(PORT_IN_PORT), Output(PORT_FLOOD), Output(PORT_TABLE), Output(PORT_CONTROLLER)}
Lists == {<<>>} \cup {<<a, b>> : a \in Alphabet, b \in Alphabet}
         \cup {<<a, b, c>> : a \in Alphabet, b \in Outputs, c \in Outputs}

PacketOutOf(p, in_port, acts) ==
  [in_port |-> in_port, populated |-> p.populated, val |-> p.val, actions |-> acts]
MCPacketOuts ==
  {PacketOutOf(Tcp, 1, l) : l \in Lists}
  \cup {PacketOutOf(Udp, i, <<a, Output(PORT_FLOOD)>>) : i \in {PORT_CONTROLLER, PORT_LOCAL}, a \in Alphabet}
  \cup {PacketOutOf(Plain, i, <<Of("set_queue", "", 1), b>>) : i \in {2, 3, PORT_CONTROLLER}, b \in Outputs}
=============================================================================
