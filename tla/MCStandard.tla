------------------------------- MODULE MCStandard -------------------------------
(* Instances of the standard pipeline's modules.  A behaviour is about one   *)
(* of the cases: how entries of some kind treat packets, or what entries and *)
(* groups hold.                                                              *)
EXTENDS ActionContext

CONSTANTS g1, g2, OK, BAD

VARIABLES case, flowtables, kflow, running, table, group, refs, slots, modified

NONE == -1
IP == 2048
IPV6 == 34525
ARP == 2054
TCP == 6
UDP == 17
ICMP == 1

(* Packets: untagged if vid is NONE.                                        *)
Tag(vid) == IF vid = NONE THEN {} ELSE {"vlan"}
Base(port, dst, vid, type) ==
  [priority |-> 0, in_port |-> port, eth_dst |-> dst, eth_src |-> 0, vid |-> vid, pcp |-> 1,
   ethertype |-> type]
Outer(vid) == {"priority", "in_port", "ethernet", "ethertype"} \cup Tag(vid)

TcpKey(port, dst, vid, ttl, nw_dst, tp_dst) ==
  ParsedKey(Outer(vid) \cup {"ipv4", "tcp"},
    [ip4_src |-> 0, ip4_dst |-> nw_dst, ip4_proto |-> TCP, ip4_dscp |-> 0, ip4_ecn |-> 1,
     ip4_ttl |-> ttl, tcp_src |-> 0, tcp_dst |-> tp_dst] @@ Base(port, dst, vid, IP))
UdpV6Key(port, vid, ttl, nw_dst, tp_dst) ==
  ParsedKey(Outer(vid) \cup {"ipv6", "udp"},
    [ip6_src |-> 0, ip6_dst |-> nw_dst, ip6_proto |-> UDP, ip6_dscp |-> 1, ip6_ecn |-> 0,
     ip6_label |-> 0, ip6_ttl |-> ttl, udp_src |-> 0, udp_dst |-> tp_dst]
    @@ Base(port, 0, vid, IPV6))
IcmpKey(port, type, code) ==
  ParsedKey(Outer(NONE) \cup {"ipv4", "icmp"},
    [ip4_src |-> 0, ip4_dst |-> 2, ip4_proto |-> ICMP, ip4_dscp |-> 0, ip4_ecn |-> 0,
     ip4_ttl |-> 2, icmp_type |-> type, icmp_code |-> code] @@ Base(port, 0, NONE, IP))
ArpKey(port, vid, op, tip) ==
  ParsedKey(Outer(vid) \cup {"arp"},
    [arp_op |-> op, arp_sip |-> 0, arp_tip |-> tip] @@ Base(port, 0, vid, ARP))
OtherKey(port, dst, vid) == ParsedKey(Outer(vid) \ {"ethertype"}, Base(port, dst, vid, 0))

(* OpenFlow actions.                                                        *)
Of(of, field, arg) == [of |-> of, field |-> field, arg |-> arg]
Output(p) == Of("output", "", p)
Set(field, v) == Of("set_field", field, v)
FlowAdd(id, table_id, priority, match, actions, goto) ==
  [id |-> id, table |-> table_id, priority |-> priority, match |-> match, actions |-> actions,
   goto |-> goto]

Bucketed(kind, field, arg) == [kind |-> kind, field |-> field, arg |-> arg]

MCGroupTable ==
  1 :> [type |-> "all", buckets |-> << <<Bucketed("set", "vid", 1), Bucketed("output", "", 1)>>,
                                       <<Bucketed("pop_vlan", "", 0), Bucketed("dec_nw_ttl", "", 0),
                                         Bucketed("output", "", 2)>> >>]
  @@ 2 :> [type |-> "select", buckets |-> << <<Bucketed("output", "", 1)>>, <<Bucketed("group", "", 3)>> >>]
  @@ 3 :> [type |-> "indirect", buckets |-> << <<Bucketed("set", "eth_dst", 1), Bucketed("output", "", 3)>> >>]
  @@ 4 :> [type |-> "ff", buckets |-> <<>>]

(* One table, every list of up to three of these actions.                   *)
ActionAlphabet ==
  {Output(1), Output(PORT_IN_PORT), Output(PORT_CONTROLLER), Output(PORT_LOCAL), Output(-4),
   Set("vlan_vid", 1), Set("vlan_pcp", 0), Of("pop_vlan", "", 0), Of("push_vlan", "8021q", 0),
   Set("ipv4_dst", 1), Set("ip_dscp", 1), Set("ip_ecn", 0), Of("set_nw_ttl", "", 1),
   Of("dec_nw_ttl", "", 0), Of("set_tp_dst", "", 1), Set("ipv6_flabel", 1), Set("ipv6_dst", 1),
   Of("set_queue", "", 1), Set("eth_dst", 1), Of("group", "", 1)}
ActionLists == UNION {[1 .. n -> ActionAlphabet] : n \in 1 .. 3}
ActionFlowMods == {FlowAdd(0, 0, 1, <<>>, l, NONE) : l \in ActionLists}
ActionKeys == {TcpKey(1, 0, 0, 2, 0, 2), TcpKey(1, 0, NONE, 1, 2, 0), UdpV6Key(0, NONE, 2, 0, 0),
               OtherKey(2, 0, 0)}

(* Two or three tables: matches on each field, set-field actions between.   *)
TableFlowMods ==
  {FlowAdd(1, 0, 0, <<>>, <<Output(PORT_CONTROLLER)>>, NONE),
   FlowAdd(2, 0, 2, [eth_type |-> IP, ipv4_dst |-> 1], <<Set("vlan_vid", 1), Output(1)>>, 1),
   FlowAdd(3, 0, 3, [vlan_vid |-> 0], <<Set("vlan_pcp", 0)>>, 1),
   FlowAdd(4, 0, 1, [eth_dst |-> 0], <<Of("group", "", 2), Set("eth_dst", 1)>>, 2),
   FlowAdd(5, 0, 4, [eth_type |-> IP, ip_proto |-> TCP, tcp_dst |-> 1], <<Of("dec_nw_ttl", "", 0)>>, 2),
   FlowAdd(6, 1, 1, [vlan_vid |-> 1, vlan_pcp |-> 0], <<Output(2)>>, NONE),
   FlowAdd(7, 1, 2, [vlan_vid |-> NONE], <<Set("ip_dscp", 1), Output(2)>>, 2),
   FlowAdd(8, 2, 1, [eth_dst |-> 1], <<Output(PORT_IN_PORT)>>, NONE),
   FlowAdd(9, 2, 3, [eth_type |-> IP, ip_dscp |-> 1], <<Of("group", "", 4), Of("group", "", 1)>>, NONE),
   FlowAdd(10, 1, 3, [in_port |-> 1], <<Output(1)>>, 1),
   FlowAdd(14, 2, 4, [eth_dst |-> 0, in_port |-> 1], <<Output(1)>>, 3),
   FlowAdd(11, 0, 5, [eth_type |-> ARP, arp_op |-> 1, arp_tpa |-> 1], <<Output(1)>>, NONE),
   FlowAdd(12, 0, 6, [eth_type |-> IPV6, ip_proto |-> UDP, udp_dst |-> 1, ipv6_dst |-> 1], <<Output(3)>>, 1),
   FlowAdd(13, 0, 7, [eth_type |-> IP, ip_proto |-> ICMP, icmpv4_type |-> 1], <<Output(3)>>, NONE)}
TableModifications == {fm \in TableFlowMods : fm.id \in {6, 8}}
TableKeys ==
  {TcpKey(p, d, v, 3, n, t) : p \in {1}, d \in {0, 1}, v \in {NONE, 0, 1}, n \in {0, 2}, t \in {0, 2}}
  \cup {TcpKey(2, 0, NONE, 2, 2, 2), TcpKey(2, 0, 1, 2, 2, 2)}
  \cup {UdpV6Key(1, v, 3, n, t) : v \in {NONE, 1}, n \in {0, 1}, t \in {0, 2}}
  \cup {IcmpKey(1, t, c) : t \in {0, 1}, c \in {0, 1}}
  \cup {ArpKey(1, v, o, t) : v \in {NONE, 0}, o \in {1, 2}, t \in {0, 2}}
  \cup {OtherKey(p, d, v) : p \in {0, 1}, d \in {0, 1}, v \in {NONE, 1}}

(* Fields are set, and matched in the next table.                           *)
RewriteFlowMods ==
  {FlowAdd(1, 0, 1, <<>>, <<Set("vlan_pcp", 0), Set("eth_dst", 1), Output(1)>>, 1),
   FlowAdd(2, 0, 2, [eth_dst |-> 0], <<Set("vlan_vid", 1), Set("eth_src", 1)>>, 2),
   FlowAdd(3, 0, 3, [eth_type |-> IP], <<Set("ip_dscp", 1), Of("set_nw_ttl", "", 3)>>, 1),
   FlowAdd(4, 0, 4, [eth_type |-> IPV6], <<Set("ipv6_dst", 1), Set("ip_ecn", 1), Set("ipv6_src", 1)>>, 2),
   FlowAdd(5, 1, 1, [vlan_vid |-> 0, vlan_pcp |-> 0], <<Set("vlan_vid", 1)>>, 2),
   FlowAdd(6, 1, 2, [eth_type |-> IP, ip_dscp |-> 1], <<Set("ip_ecn", 0), Output(2)>>, 2),
   FlowAdd(7, 2, 1, [vlan_vid |-> 1], <<Output(2)>>, NONE),
   FlowAdd(8, 2, 2, [eth_type |-> IPV6, ipv6_dst |-> 1], <<Output(3)>>, NONE)}
RewriteKeys ==
  {TcpKey(1, d, v, 2, 0, 0) : d \in {0, 1}, v \in {NONE, 0, 1}}
  \cup {UdpV6Key(1, v, 2, n, 0) : v \in {NONE, 0}, n \in {0, 1}}

(* OpenFlow 1.0, with in-band management on vlan 1.                         *)
InbandFlowMods ==
  {FlowAdd(1, 0, 1, [vlan_vid |-> NONE], <<Output(1)>>, NONE),
   FlowAdd(2, 0, 2, [vlan_vid |-> 0, vlan_pcp |-> 1], <<Of("strip_vlan", "", 0), Output(PORT_LOCAL)>>, NONE),
   FlowAdd(3, 0, 3, [ipv4_dst |-> 1, tcp_dst |-> 1], <<Of("set_nw_tos", "", 2), Output(2)>>, NONE),
   FlowAdd(4, 0, 4, [eth_type |-> IP, ip_dscp |-> 0], <<Of("set_dl_src", "", 1), Of("set_tp_src", "", 1), Output(2)>>, NONE),
   FlowAdd(5, 0, 5, [eth_dst |-> 1], <<Output(-5)>>, NONE)}
InbandKeys ==
  {TcpKey(p, 0, v, 2, n, 2) : p \in {1, 2, 5}, v \in {NONE, 0, 1}, n \in {0, 2}}
  \cup {OtherKey(p, d, v) : p \in {1, 2, 5}, d \in {0, 1}, v \in {NONE, 0, 1}}

(* A flow that takes one off the ttl.                                       *)
TtlFlowMods == {FlowAdd(1, 0, 1, [eth_type |-> IP], <<Of("dec_nw_ttl", "", 0), Output(1)>>, NONE)}
TtlKeys == {TcpKey(1, 0, NONE, t, 0, 0) : t \in {1, 2, 3}}

(* Messages whose translation fails at each place.                           *)
Inst(kind, actions) == [kind |-> kind, actions |-> actions, table |-> NONE]
Goto(t) == [kind |-> "goto", actions |-> <<>>, table |-> t]
Bucket(weight, actions) == [weight |-> weight, actions |-> actions]

MCInstructions ==
  {<<>>, <<Inst("apply", <<g1, OK, g1>>), Inst("write", <<g2>>)>>,
   <<Inst("apply", <<g1>>), Inst("write", <<g2, BAD>>)>>,
   <<Inst("apply", <<g2, OK>>), Goto(1)>>, <<Inst("write", <<g1>>), Goto(0)>>,
   <<Inst("write", <<g1>>), Inst("apply", <<g1, g2>>), Inst("unknown", <<>>)>>,
   <<Inst("apply", <<g1>>), Inst("apply", <<g2>>), Inst("clear", <<>>), Goto(2)>>}
MCBucketLists ==
  {<<>>, <<Bucket(0, <<g2>>)>>, <<Bucket(1, <<g2, g2>>), Bucket(1, <<OK>>)>>,
   <<Bucket(0, <<g1>>), Bucket(0, <<g2, BAD>>)>>, <<Bucket(1, <<g1, OK>>), Bucket(0, <<g2>>)>>,
   <<Bucket(0, <<g1>>), Bucket(0, <<g1>>)>>}
-----------------------------------------------------------------------------
Actions == INSTANCE StandardPipeline WITH
  Keys <- ActionKeys, FlowMods <- ActionFlowMods, Modifications <- {}, NUM_TABLES <- 1, MAX_ENTRIES <- 1,
  OPENFLOW_VERSION <- 13, GroupTable <- MCGroupTable, INBAND_VLAN <- NONE, INBAND_PORT <- 5,
  Uplinks <- {}, SELECTED_UPLINK <- NONE, QUEUE_PRIORITY_INBAND <- NONE

Tables == INSTANCE StandardPipeline WITH
  Keys <- TableKeys, FlowMods <- TableFlowMods, Modifications <- TableModifications, NUM_TABLES <- 3,
  MAX_ENTRIES <- 3, OPENFLOW_VERSION <- 13, GroupTable <- MCGroupTable, INBAND_VLAN <- NONE,
  INBAND_PORT <- 5, Uplinks <- {}, SELECTED_UPLINK <- NONE, QUEUE_PRIORITY_INBAND <- NONE

Rewrite == INSTANCE StandardPipeline WITH
  Keys <- RewriteKeys, FlowMods <- RewriteFlowMods, Modifications <- {}, NUM_TABLES <- 3,
  MAX_ENTRIES <- 3, OPENFLOW_VERSION <- 13, GroupTable <- MCGroupTable, INBAND_VLAN <- NONE,
  INBAND_PORT <- 5, Uplinks <- {}, SELECTED_UPLINK <- NONE, QUEUE_PRIORITY_INBAND <- NONE

Inband == INSTANCE StandardPipeline WITH
  Keys <- InbandKeys, FlowMods <- InbandFlowMods, Modifications <- InbandFlowMods, NUM_TABLES <- 1,
  MAX_ENTRIES <- 3, OPENFLOW_VERSION <- 10, GroupTable <- MCGroupTable, INBAND_VLAN <- 1,
  INBAND_PORT <- 5, Uplinks <- {1}, SELECTED_UPLINK <- 1, QUEUE_PRIORITY_INBAND <- 2

Ttl == INSTANCE StandardPipeline WITH
  Keys <- TtlKeys, FlowMods <- TtlFlowMods, Modifications <- {}, NUM_TABLES <- 1, MAX_ENTRIES <- 1,
  OPENFLOW_VERSION <- 13, GroupTable <- MCGroupTable, INBAND_VLAN <- NONE, INBAND_PORT <- 5,
  Uplinks <- {}, SELECTED_UPLINK <- NONE, QUEUE_PRIORITY_INBAND <- NONE

Resources == INSTANCE StandardResources WITH
  Groups <- {g1, g2}, Flows <- {"f1"}, Instructions <- MCInstructions, BucketLists <- MCBucketLists,
  NUM_TABLES <- 2, NUM_STATS <- 12

ASSUME StandardAssumption ==
  /\ Actions!StandardPipelineAssumption /\ Tables!StandardPipelineAssumption
  /\ Rewrite!StandardPipelineAssumption /\ Inband!StandardPipelineAssumption
  /\ Ttl!StandardPipelineAssumption /\ Resources!ResourcesAssumption

processing == <<flowtables, kflow>>
holding == <<running, table, group, refs, slots, modified>>

Init ==
  /\ case \in {"actions", "tables", "rewrite", "inband", "resources"}
  /\ Tables!Init /\ Resources!Init

Next ==
  \/ case = "actions" /\ Actions!Next /\ UNCHANGED <<case, holding>>
  \/ case = "tables" /\ Tables!Next /\ UNCHANGED <<case, holding>>
  \/ case = "rewrite" /\ Rewrite!Next /\ UNCHANGED <<case, holding>>
  \/ case = "inband" /\ Inband!Next /\ UNCHANGED <<case, holding>>
  \/ case = "resources" /\ Resources!Next /\ UNCHANGED <<case, processing>>

Spec == Init /\ [][Next]_<<case, processing, holding>>

TtlInit == case = "ttl" /\ Ttl!Init /\ Resources!Init
TtlNext == Ttl!Next /\ UNCHANGED <<case, holding>>
TtlSpec == TtlInit /\ [][TtlNext]_<<case, processing, holding>>

-----------------------------------------------------------------------------
(* A packet that the kernel cannot tell from the one that came up has the    *)
(* same actions, mask and statistics (pipeline_standard_process, as the self *)
(* test in kflow.c asserts).                                                 *)
MaskContract ==
  /\ (case = "tables") => Tables!MaskContract
  /\ (case = "inband") => Inband!MaskContract
  /\ (case = "ttl") => Ttl!MaskContract

(* Each packet that leaves or goes to the controller has the fields that the *)
(* actions before it set (commit_set_field_actions).                         *)
OutputsCarrySetFields ==
  /\ (case = "actions") => Actions!OutputsCarrySetFields
  /\ (case = "tables") => Tables!OutputsCarrySetFields
  /\ (case = "inband") => Inband!OutputsCarrySetFields

(* A later table matches the Ethernet, vlan, dscp, ecn and IPv6 fields that  *)
(* earlier ones set (pipeline_standard_update_cfr).                          *)
CfrFollowsActions == (case = "rewrite") => Rewrite!CfrFollowsActions

(* A packet visits a table at most once, and each visit is counted once      *)
(* (parse_value, pipeline_standard_process).                                 *)
LookupsEndAndCount == (case = "tables") => Tables!TypeOK /\ Tables!LookupsEndAndCount

(* After refused, failed, modified and deleted messages too, the references  *)
(* to a group are those of entries and buckets, no action points to a group  *)
(* that is gone, a slot for statistics has one holder and none is lost, and  *)
(* only group_modify can make groups refer to each other in a circle         *)
(* (parse_value, parse_group_value, group_delete, stats_alloc, stats_free).  *)
ResourcesExact ==
  /\ Resources!TypeOK
  /\ Resources!RefsExact /\ Resources!NoDanglingGroup
  /\ Resources!SlotsExact /\ Resources!LoopsNeedModify
=============================================================================
