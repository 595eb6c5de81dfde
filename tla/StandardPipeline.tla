--------------------------- MODULE StandardPipeline ---------------------------
(***************************************************************************)
(* The standard pipeline: flow entries made from OpenFlow messages, and    *)
(* the processing of a packet by them, from its key to the actions, the    *)
(* mask and the statistics of a kernel flow.  Groups are given; how they   *)
(* come and go is in StandardResources.                                    *)
(***************************************************************************)
EXTENDS ActionContext, FiniteSetsExt

LOCAL Seqs == INSTANCE SequencesExt

CONSTANTS
  Keys,                   \* the packets
  FlowMods,               \* the flow adds
  Modifications,          \* those that also modify entries of their table
  NUM_TABLES,
  OPENFLOW_VERSION,       \* 10 or 13
  GroupTable,             \* id -> [type, buckets]
  INBAND_VLAN, INBAND_PORT,
  Uplinks, SELECTED_UPLINK,
  QUEUE_PRIORITY_INBAND,
  MAX_ENTRIES

NONE == -1                \* no table, no uplink, VLAN_INVALID

StandardPipelineAssumption ==
  /\ NUM_TABLES \in Nat \ {0}
  /\ OPENFLOW_VERSION \in {10, 13}
  /\ MAX_ENTRIES \in Nat
  /\ Modifications \subseteq FlowMods
  /\ \A k \in Keys : k = ParsedKey(k.populated, k.val)

VARIABLES
  flowtables,             \* the installed entries
  kflow                   \* the last kernel flow that was made

vars == <<flowtables, kflow>>

(* ETH_P_*, IPPROTO_*, OF_DL_TYPE_NOT_ETH_TYPE                              *)
IP == 2048
IPV6 == 34525
ARP == 2054
NOT_ETH_TYPE == 1535
TCP == 6
UDP == 17
ICMP == 1
ICMPV6 == 58

UnsupportedPorts == OtherPorts \cup {PORT_FLOOD, PORT_TABLE}

-----------------------------------------------------------------------------
(* cfr.c.  A cfr is a value for each field, a mask a set of fields, a match *)
(* of an entry a function on the fields of its mask.                        *)

CfrFields == {"in_port", "dl_dst", "dl_src", "dl_type", "dl_cfi", "dl_vid", "dl_pcp",
              "nw_dscp", "nw_ecn", "nw_proto", "nw_src", "nw_dst",
              "ipv6_src", "ipv6_dst", "tp_src", "tp_dst"}

pipeline_standard_key_to_cfr(k) ==
  LET Has(a) == a \in k.populated
      v == k.val
      Net(ip4, ip6, arp) == IF Has("ipv4") THEN ip4 ELSE IF Has("ipv6") THEN ip6
                            ELSE IF Has("arp") THEN arp ELSE 0
      Port(tcp, udp, icmp, icmpv6) ==
        IF Has("tcp") THEN tcp ELSE IF Has("udp") THEN udp
        ELSE IF Has("icmp") THEN icmp ELSE IF Has("icmpv6") THEN icmpv6 ELSE 0
  IN  [in_port |-> IF v["in_port"] = OVSP_LOCAL THEN PORT_LOCAL ELSE v["in_port"],
       dl_dst |-> v["eth_dst"],
       dl_src |-> v["eth_src"],
       dl_type |-> IF Has("ethertype") /\ v["ethertype"] > NOT_ETH_TYPE
                     THEN v["ethertype"] ELSE NOT_ETH_TYPE,
       dl_cfi |-> IF Has("vlan") THEN 1 ELSE 0,
       dl_vid |-> IF Has("vlan") THEN v["vid"] ELSE 0,
       dl_pcp |-> IF Has("vlan") THEN v["pcp"] ELSE 0,
       nw_dscp |-> Net(v["ip4_dscp"], v["ip6_dscp"], 0),
       nw_ecn |-> Net(v["ip4_ecn"], v["ip6_ecn"], 0),
       nw_proto |-> Net(v["ip4_proto"], v["ip6_proto"], v["arp_op"]),
       nw_src |-> Net(v["ip4_src"], 0, v["arp_sip"]),
       nw_dst |-> Net(v["ip4_dst"], 0, v["arp_tip"]),
       ipv6_src |-> IF ~Has("ipv4") /\ Has("ipv6") THEN v["ip6_src"] ELSE 0,
       ipv6_dst |-> IF ~Has("ipv4") /\ Has("ipv6") THEN v["ip6_dst"] ELSE 0,
       tp_src |-> Port(v["tcp_src"], v["udp_src"],
                      hton(v["icmp_type"]), hton(v["icmpv6_type"])),
       tp_dst |-> Port(v["tcp_dst"], v["udp_dst"],
                      hton(v["icmp_code"]), hton(v["icmpv6_code"]))]

(* A match is a function on OXM names.  The vlan vid of an untagged packet  *)
(* is NONE; the CFI bit is what tells it apart.                             *)
VlanMatch(m) ==
  LET vid == IF "vlan_vid" \notin DOMAIN m THEN <<>>
             ELSE IF m["vlan_vid"] = NONE THEN [dl_cfi |-> 0, dl_vid |-> 0]
             ELSE [dl_cfi |-> 1, dl_vid |-> m["vlan_vid"]]
      pcp == IF "vlan_pcp" \in DOMAIN m THEN [dl_pcp |-> m["vlan_pcp"]] ELSE <<>>
  IN  IF OPENFLOW_VERSION # 10 THEN vid @@ pcp
      ELSE IF "vlan_vid" \notin DOMAIN m THEN <<>>
      ELSE IF m["vlan_vid"] = NONE THEN vid @@ [dl_pcp |-> 0]
      ELSE vid @@ pcp

(* Which OXM a field of the cfr is taken from: in OpenFlow 1.3 this depends *)
(* on the ethertype and the protocol that are matched.                      *)
MatchSource(m) ==
  LET Is(oxm, values) == oxm \in DOMAIN m /\ m[oxm] \in values
      ether == [in_port |-> "in_port", dl_dst |-> "eth_dst", dl_src |-> "eth_src",
                dl_type |-> "eth_type"]
      ip == [nw_proto |-> "ip_proto", nw_dscp |-> "ip_dscp", nw_ecn |-> "ip_ecn"]
      ipv4 == [nw_src |-> "ipv4_src", nw_dst |-> "ipv4_dst"]
      ipv6 == [ipv6_src |-> "ipv6_src", ipv6_dst |-> "ipv6_dst"]
      tcp == [tp_src |-> "tcp_src", tp_dst |-> "tcp_dst"]
      l4 == IF Is("ip_proto", {TCP}) THEN tcp
            ELSE IF Is("ip_proto", {UDP}) THEN [tp_src |-> "udp_src", tp_dst |-> "udp_dst"]
            ELSE IF Is("ip_proto", {ICMP}) THEN [tp_src |-> "icmpv4_type", tp_dst |-> "icmpv4_code"]
            ELSE IF Is("ip_proto", {ICMPV6}) THEN [tp_src |-> "icmpv6_type", tp_dst |-> "icmpv6_code"]
            ELSE <<>>
  IN  IF OPENFLOW_VERSION = 10
        THEN ether @@ [nw_proto |-> "ip_proto", nw_dscp |-> "ip_dscp"] @@ ipv4 @@ tcp
      ELSE IF Is("eth_type", {IP}) THEN ether @@ ip @@ ipv4 @@ l4
      ELSE IF Is("eth_type", {IPV6}) THEN ether @@ ip @@ ipv6 @@ l4
      ELSE IF Is("eth_type", {ARP})
        THEN ether @@ [nw_proto |-> "arp_op", nw_src |-> "arp_spa", nw_dst |-> "arp_tpa"]
      ELSE ether

pipeline_standard_match_to_cfr(m) ==
  LET source == MatchSource(m)
  IN  VlanMatch(m) @@
      [f \in {g \in DOMAIN source : source[g] \in DOMAIN m} |->
         IF f \in {"nw_src", "nw_dst", "tp_src", "tp_dst"} THEN hton(m[source[f]])
         ELSE m[source[f]]]

-----------------------------------------------------------------------------
(* pipeline_standard_translate_openflow_actions: from OpenFlow actions      *)
(* [of, field, arg] to the pipeline's own [kind, field, arg].               *)

Act(kind, field, arg) == [kind |-> kind, field |-> field, arg |-> arg]
BAD_ACTION == Act("bad", "", 0)

TranslateOutput(a, table_miss) ==
  CASE a.arg = PORT_CONTROLLER ->
         Act("controller", "", IF table_miss THEN PKTIN_NO_MATCH ELSE PKTIN_ACTION)
    [] a.arg \in UnsupportedPorts -> BAD_ACTION
    [] a.arg = PORT_LOCAL -> Act("local", "", 0)
    [] a.arg = PORT_IN_PORT -> Act("in_port", "", 0)
    [] OTHER -> Act("output", "", a.arg)

OxmField ==
  [vlan_vid |-> "vid", vlan_pcp |-> "pcp", eth_src |-> "eth_src", eth_dst |-> "eth_dst",
   ipv4_src |-> "ip4_src", ipv4_dst |-> "ip4_dst", ip_dscp |-> "dscp", ip_ecn |-> "ecn",
   ipv6_src |-> "ip6_src", ipv6_dst |-> "ip6_dst", ipv6_flabel |-> "ip6_label",
   tcp_src |-> "tcp_src", tcp_dst |-> "tcp_dst", udp_src |-> "udp_src", udp_dst |-> "udp_dst"]

TranslateSetField(a) ==
  CASE a.field \notin DOMAIN OxmField -> BAD_ACTION
    [] a.field \in {"ip_dscp", "ip_ecn"} /\ a.arg > 1 -> BAD_ACTION
    [] a.field = "ipv6_flabel" /\ a.arg > 3 -> BAD_ACTION
    [] a.field = "ip_dscp" /\ a.arg <= 1 -> Act("set", "dscp", 2 * a.arg)
    [] OTHER -> Act("set", OxmField[a.field], a.arg)

LegacyField ==
  [set_dl_dst |-> "eth_dst", set_dl_src |-> "eth_src", set_nw_dst |-> "ip4_dst",
   set_nw_src |-> "ip4_src", set_nw_tos |-> "dscp", set_tp_dst |-> "tp_dst",
   set_tp_src |-> "tp_src", set_vlan_vid |-> "vid", set_vlan_pcp |-> "pcp"]

TranslateOther(a) ==
  CASE a.of \in {"pop_vlan", "strip_vlan"} -> Act("pop_vlan", "", 0)
    [] a.of = "push_vlan" /\ a.field = "8021q" -> Act("push_vlan", "", 0)
    [] a.of \in {"dec_nw_ttl", "nicira_dec_ttl"} -> Act("dec_nw_ttl", "", 0)
    [] a.of = "set_nw_ttl" -> Act("set", "ttl", a.arg)
    [] a.of = "set_queue" -> Act("priority", "", a.arg)
    [] a.of = "group" /\ a.arg \in DOMAIN GroupTable -> Act("group", "", a.arg)
    [] OTHER -> BAD_ACTION

TranslateAction(a, table_miss) ==
  CASE a.of = "output" -> TranslateOutput(a, table_miss)
    [] a.of = "set_field" -> TranslateSetField(a)
    [] a.of \in DOMAIN LegacyField -> Act("set", LegacyField[a.of], a.arg)
    [] OTHER -> TranslateOther(a)

pipeline_standard_translate_openflow_actions(acts, table_miss) ==
  [i \in 1 .. Len(acts) |-> TranslateAction(acts[i], table_miss)]

-----------------------------------------------------------------------------
(* pipeline_standard_translate_actions: one action other than a group.      *)

SetFieldAction(ctx, f, v) ==
  CASE f \in {"eth_dst", "eth_src"} -> action_set_eth(ctx, f, v)
    [] f \in {"vid", "pcp"} -> action_set_vlan(ctx, f, v)
    [] f \in {"ip4_dst", "ip4_src"} -> action_set_ipv4_addr(ctx, f, v)
    [] f \in {"ip6_dst", "ip6_src"} -> action_set_ipv6_addr(ctx, f, v)
    [] f = "ip6_label" -> action_set_ipv6_flabel(ctx, v)
    [] f = "dscp" -> action_set_ipv6_dscp(action_set_ipv4_dscp(ctx, v), v)
    [] f = "ecn" -> action_set_ipv6_ecn(action_set_ipv4_ecn(ctx, v), v)
    [] f = "ttl" -> action_set_ipv6_ttl(action_set_ipv4_ttl(ctx, v), v)
    [] f \in {"tcp_dst", "tcp_src"} -> action_set_tcp(ctx, f, v)
    [] f \in {"udp_dst", "udp_src"} -> action_set_udp(ctx, f, v)
    [] f = "tp_dst" -> action_set_udp(action_set_tcp(ctx, "tcp_dst", v), "udp_dst", v)
    [] f = "tp_src" -> action_set_udp(action_set_tcp(ctx, "tcp_src", v), "udp_src", v)

(* IND_OVS_ACTION_DEC_NW_TTL: at zero the list of actions ends.             *)
TtlExpires(ctx) ==
  \/ "ipv4" \in ctx.current_key.populated /\ ctx.current_key.val["ip4_ttl"] <= 1
  \/ "ipv6" \in ctx.current_key.populated /\ ctx.current_key.val["ip6_ttl"] <= 1

DecNwTtl(ctx) ==
  LET Dec(c, a, f) == SetField(c, a, f, Max({c.current_key.val[f] - 1, 0}))
  IN  Dec(Dec(ctx, "ipv4", "ip4_ttl"), "ipv6", "ip6_ttl")

PlainAction(ctx, a) ==
  CASE a.kind = "controller" -> action_userspace(ctx, a.arg)
    [] a.kind = "output" -> action_output(ctx, a.arg)
    [] a.kind = "local" -> action_output_local(ctx)
    [] a.kind = "in_port" -> action_output_in_port(ctx)
    [] a.kind = "set" -> SetFieldAction(ctx, a.field, a.arg)
    [] a.kind = "pop_vlan" -> action_pop_vlan(ctx)
    [] a.kind = "push_vlan" -> action_push_vlan(ctx)
    [] a.kind = "dec_nw_ttl" -> DecNwTtl(ctx)
    [] a.kind = "priority" -> action_set_priority(ctx, a.arg)

-----------------------------------------------------------------------------
(* pipeline_standard_process.  Its state: the context, the cfr and its      *)
(* mask, the statistics, and, for the properties, the actions that were     *)
(* done and what each lookup after the first saw.                           *)

RECURSIVE TranslateActions(_, _, _)

(* A group, whose buckets' statistics follow what their actions add.        *)
process_group(st, id, hash) ==
  LET group == GroupTable[id]
      n == Len(group.buckets)
      chosen == CASE n = 0 -> <<>>
                  [] n > 0 /\ group.type = "select" -> <<1 + (hash % n)>>
                  [] n > 0 /\ group.type \in {"indirect", "ff"} -> <<1>>
                  [] n > 0 /\ group.type = "all" -> [i \in 1 .. n |-> i]
      Bucket(s, i) ==
        [TranslateActions(s, group.buckets[i], hash) EXCEPT
           !.stats = Append(@, <<"bucket", id, i>>)]
  IN  Seqs!FoldLeft(Bucket, st, chosen)

TranslateActions(st, acts, hash) ==
  IF acts = <<>> THEN st
  ELSE LET a == Head(acts)
           plain == [st EXCEPT !.ctx = PlainAction(st.ctx, a), !.done = Append(@, a)]
       IN  IF a.kind = "group" THEN TranslateActions(process_group(st, a.arg, hash), Tail(acts), hash)
           ELSE IF a.kind = "dec_nw_ttl" /\ TtlExpires(st.ctx) THEN plain
           ELSE TranslateActions(plain, Tail(acts), hash)

(* Mutant: the tag of an untagged packet is set without its CFI bit.        *)
UpdateCfrFieldNoCfi(cfr, a) ==
  IF a.kind # "set" THEN cfr
  ELSE CASE a.field = "eth_dst" -> [cfr EXCEPT !["dl_dst"] = a.arg]
         [] a.field = "vid" -> [cfr EXCEPT !["dl_vid"] = a.arg]
         [] a.field = "pcp" -> [cfr EXCEPT !["dl_pcp"] = a.arg]
         [] OTHER -> cfr

(* The fields that an entry's own actions set, for the next table.          *)
UpdateCfrField(cfr, a) ==
  IF a.kind # "set" THEN cfr
  ELSE CASE a.field = "eth_dst" -> [cfr EXCEPT !["dl_dst"] = a.arg]
         [] a.field = "eth_src" -> [cfr EXCEPT !["dl_src"] = a.arg]
         [] a.field = "ip4_dst" -> [cfr EXCEPT !["nw_dst"] = a.arg]
         [] a.field = "ip4_src" -> [cfr EXCEPT !["nw_src"] = a.arg]
         [] a.field = "dscp" -> [cfr EXCEPT !["nw_dscp"] = a.arg \div 2, !["nw_ecn"] = Or(cfr["nw_ecn"], a.arg % 2)]
         [] a.field = "ecn" -> [cfr EXCEPT !["nw_ecn"] = a.arg % 2, !["nw_dscp"] = Or(cfr["nw_dscp"], a.arg \div 2)]
         [] a.field \in {"tcp_dst", "udp_dst", "tp_dst"} -> [cfr EXCEPT !["tp_dst"] = a.arg]
         [] a.field \in {"tcp_src", "udp_src", "tp_src"} -> [cfr EXCEPT !["tp_src"] = a.arg]
         [] a.field = "vid" -> [cfr EXCEPT !["dl_vid"] = a.arg, !["dl_cfi"] = 1]
         [] a.field = "pcp" -> [cfr EXCEPT !["dl_pcp"] = a.arg, !["dl_cfi"] = 1]
         [] a.field = "ip6_dst" -> [cfr EXCEPT !["ipv6_dst"] = a.arg]
         [] a.field = "ip6_src" -> [cfr EXCEPT !["ipv6_src"] = a.arg]
         [] OTHER -> cfr

pipeline_standard_update_cfr(cfr, acts) == Seqs!FoldLeft(UpdateCfrField, cfr, acts)

(* Mutant: the fields of protocols above ethernet are left out.             *)
translate_cfr_mask_ether(cfr, cfr_mask) ==
  LET ether == [in_port |-> {"in_port"}, dl_dst |-> {"eth_dst"}, dl_src |-> {"eth_src"},
                dl_type |-> {"ethertype"}, dl_vid |-> {"vid"}, dl_pcp |-> {"pcp"}]
  IN  UNION {ether[f] : f \in cfr_mask \cap DOMAIN ether}

(* The fields of the key that the fields of a cfr mask stand for.           *)
translate_cfr_mask(cfr, cfr_mask) ==
  LET ether == [in_port |-> {"in_port"}, dl_dst |-> {"eth_dst"}, dl_src |-> {"eth_src"},
                dl_type |-> {"ethertype"}, dl_vid |-> {"vid"}, dl_pcp |-> {"pcp"}]
      net == CASE cfr["dl_type"] = IP ->
                    [nw_dscp |-> {"ip4_dscp"}, nw_ecn |-> {"ip4_ecn"}, nw_proto |-> {"ip4_proto"},
                     nw_src |-> {"ip4_src"}, nw_dst |-> {"ip4_dst"}]
               [] cfr["dl_type"] = IPV6 ->
                    [nw_dscp |-> {"ip6_dscp"}, nw_ecn |-> {"ip6_ecn"}, nw_proto |-> {"ip6_proto"},
                     ipv6_src |-> {"ip6_src"}, ipv6_dst |-> {"ip6_dst"}]
               [] cfr["dl_type"] = ARP ->
                    [nw_proto |-> {"arp_op"}, nw_src |-> {"arp_sip"}, nw_dst |-> {"arp_tip"}]
               [] OTHER -> <<>>
      l4 == CASE cfr["nw_proto"] = TCP -> [tp_src |-> {"tcp_src"}, tp_dst |-> {"tcp_dst"}]
              [] cfr["nw_proto"] = UDP -> [tp_src |-> {"udp_src"}, tp_dst |-> {"udp_dst"}]
              [] cfr["nw_proto"] = ICMP -> [tp_src |-> {"icmp_type"}, tp_dst |-> {"icmp_code"}]
              [] cfr["nw_proto"] = ICMPV6 -> [tp_src |-> {"icmpv6_type"}, tp_dst |-> {"icmpv6_code"}]
              [] OTHER -> <<>>
      all == ether @@ net @@ l4
  IN  UNION {all[f] : f \in cfr_mask \cap DOMAIN all}

(* tcam_match_and_mask, by what Tcam checks of it.                          *)
Table(t) == {e \in flowtables : e.table = t}
TableMask(t) == UNION {DOMAIN e.match : e \in Table(t)}
Matching(t, cfr) == {e \in Table(t) : \A f \in DOMAIN e.match : e.match[f] = cfr[f]}
Best(entries) == CHOOSE e \in entries : \A d \in entries : d.priority <= e.priority

RECURSIVE RunTables(_, _, _, _)

(* The loop over tables; it is cut off if it visits more than there are.    *)
RunTables(st, t, hash, visits) ==
  LET looked == [st EXCEPT !.cfr_mask = @ \cup TableMask(t),
                           !.lookups = Append(@, [cfr |-> st.cfr, key |-> st.ctx.current_key])]
      matching == Matching(t, st.cfr)
  IN  IF t = NONE THEN st
      ELSE IF visits = NUM_TABLES THEN [st EXCEPT !.endless = TRUE]
      ELSE IF matching = {}
        THEN [looked EXCEPT !.ctx = IF OPENFLOW_VERSION < 13 THEN action_userspace(st.ctx, PKTIN_NO_MATCH)
                                     ELSE st.ctx,
                            !.done = IF OPENFLOW_VERSION < 13
                                       THEN Append(@, Act("controller", "", PKTIN_NO_MATCH)) ELSE @,
                            !.stats = Append(@, <<"missed", t, 0>>)]
      ELSE LET e == Best(matching)
               hit == [looked EXCEPT
                         !.stats = @ \o << <<IF e.table_miss THEN "missed" ELSE "matched", t, 0>>,
                                           <<"entry", t, e.id>> >>]
               acted == TranslateActions(hit, e.apply_actions, hash)
           IN  RunTables(IF e.next_table_id = NONE THEN acted
                         ELSE [acted EXCEPT !.cfr = pipeline_standard_update_cfr(acted.cfr, e.apply_actions)],
                         e.next_table_id, hash, visits + 1)

pipeline_standard_process(key, ctx) ==
  LET masked == MaskAttr(ctx, "ethernet")
      st == RunTables([ctx |-> masked, cfr |-> pipeline_standard_key_to_cfr(key), cfr_mask |-> {},
                       stats |-> <<>>, done |-> <<>>, lookups |-> <<>>, endless |-> FALSE],
                      0, key.val["eth_dst"] + 2 * key.val["eth_src"], 0)
  IN  [st EXCEPT !.ctx.mask = @ \cup translate_cfr_mask(st.cfr, st.cfr_mask)]

(* pipeline_process: the in-band management vlan comes before the pipeline. *)
Flow(key, st) ==
  [key |-> key, actions |-> st.ctx.msg, mask |-> st.ctx.mask, stats |-> st.stats,
   done |-> st.done, lookups |-> st.lookups, endless |-> st.endless]

InbandFlow(key, ctx, acts) ==
  Flow(key, [ctx |-> Seqs!FoldLeft(PlainAction, ctx, acts), stats |-> <<>>, done |-> acts,
             lookups |-> <<>>, endless |-> FALSE])

FromUplink(key) == INBAND_VLAN # NONE /\ key.val["in_port"] \in Uplinks

Start(key) ==
  LET ctx == action_context_init(key, {"in_port"})
  IN  IF FromUplink(key) THEN MaskAttr(ctx, "vlan") ELSE ctx

pipeline_process(key) ==
  LET in_port == key.val["in_port"]
      from_uplink == FromUplink(key)
      started == Start(key)
  IN  IF from_uplink /\ key.val["vid"] = INBAND_VLAN
        THEN InbandFlow(key, started, <<Act("pop_vlan", "", 0), Act("output", "", INBAND_PORT)>>)
      ELSE IF INBAND_VLAN # NONE /\ ~from_uplink /\ in_port = INBAND_PORT
        THEN InbandFlow(key, started,
               IF SELECTED_UPLINK = NONE THEN <<>>
               ELSE <<Act("push_vlan", "", 0), Act("set", "vid", INBAND_VLAN)>>
                    \o (IF QUEUE_PRIORITY_INBAND = NONE THEN <<>>
                        ELSE <<Act("priority", "", QUEUE_PRIORITY_INBAND)>>)
                    \o <<Act("output", "", SELECTED_UPLINK)>>)
      ELSE Flow(key, pipeline_standard_process(key, started))

-----------------------------------------------------------------------------
(* Flow entries.  A flow add is [id, table, priority, match, actions,       *)
(* goto]; a change of the tables makes the kernel flows anew.               *)

is_table_miss(match, priority) ==
  OPENFLOW_VERSION >= 13 /\ priority = 0 /\ DOMAIN match = {}

(* Mutant: a flow may go to its own table.                                  *)
parse_value_loop(fm, table_id, table_miss) ==
  LET acts == pipeline_standard_translate_openflow_actions(fm.actions, table_miss)
  IN  IF \/ \E i \in 1 .. Len(acts) : acts[i] = BAD_ACTION
         \/ fm.goto # NONE /\ ~(fm.goto >= table_id /\ fm.goto < NUM_TABLES)
        THEN {}
        ELSE {[apply_actions |-> acts, next_table_id |-> fm.goto]}

(* The value, or none if an action or the next table is refused.            *)
parse_value(fm, table_id, table_miss) ==
  LET acts == pipeline_standard_translate_openflow_actions(fm.actions, table_miss)
  IN  IF \/ \E i \in 1 .. Len(acts) : acts[i] = BAD_ACTION
         \/ fm.goto # NONE /\ ~(fm.goto > table_id /\ fm.goto < NUM_TABLES)
        THEN {}
        ELSE {[apply_actions |-> acts, next_table_id |-> fm.goto]}

flowtable_entry_create(fm) ==
  LET match == pipeline_standard_match_to_cfr(fm.match)
      miss == is_table_miss(match, fm.priority)
  IN  /\ Cardinality(flowtables) < MAX_ENTRIES
      /\ \A e \in flowtables : e.id # fm.id /\ <<e.table, e.match, e.priority>> # <<fm.table, match, fm.priority>>
      /\ \E value \in parse_value(fm, fm.table, miss) :
           flowtables' = flowtables \cup
             {[id |-> fm.id, table |-> fm.table, priority |-> fm.priority, match |-> match,
               table_miss |-> miss] @@ value}
      /\ kflow' = <<>>

flowtable_entry_modify(e, fm) ==
  /\ fm.table = e.table
  /\ \E value \in parse_value(fm, e.table, e.table_miss) :
       flowtables' = (flowtables \ {e}) \cup {value @@ e}
  /\ kflow' = <<>>

flowtable_entry_delete(e) ==
  /\ flowtables' = flowtables \ {e}
  /\ kflow' = <<>>

(* A packet without a kernel flow comes up.                                 *)
Upcall(key) ==
  /\ kflow = <<>>
  /\ kflow' = <<pipeline_process(key)>>
  /\ UNCHANGED flowtables

Init ==
  /\ flowtables = {}
  /\ kflow = <<>>

Next ==
  \/ \E fm \in FlowMods : flowtable_entry_create(fm)
  \/ \E e \in flowtables, fm \in Modifications : flowtable_entry_modify(e, fm)
  \/ \E e \in flowtables : flowtable_entry_delete(e)
  \/ \E key \in Keys : Upcall(key)

Spec == Init /\ [][Next]_vars

-----------------------------------------------------------------------------
(* Properties.                                                              *)

(* Tables hold what parse_value lets through.                               *)
TypeOK ==
  /\ \A e \in flowtables :
       /\ e.table \in 0 .. NUM_TABLES - 1
       /\ e.next_table_id \in {NONE} \cup (e.table + 1 .. NUM_TABLES - 1)
       /\ DOMAIN e.match \subseteq CfrFields
  /\ Len(kflow) <= 1
  /\ \A i \in DOMAIN kflow : kflow[i].mask \subseteq Fields

Agree(k, l, mask) == k.populated = l.populated /\ \A f \in mask : k.val[f] = l.val[f]

(* "If changing any of those bits causes the output of the pipeline to      *)
(* change then the mask was incorrect" (kflow.c): a packet that the kernel  *)
(* cannot tell from the one that came up has the same actions, mask and     *)
(* statistics.                                                              *)
MaskContract ==
  \A i \in DOMAIN kflow :
     \A other \in {k \in Keys : Agree(k, kflow[i].key, kflow[i].mask)} :
        LET f == pipeline_process(other)
        IN  /\ f.actions = kflow[i].actions
            /\ f.mask = kflow[i].mask
            /\ f.stats = kflow[i].stats

(* What the actions mean when each is done at once to the packet.           *)
MeaningStep(st, a) ==
  LET after == PlainAction(action_context_init(st.packet, {}), a)
      packet == ParsedKey(after.current_key.populated, after.current_key.val)
      port == CASE a.kind = "output" -> a.arg
                [] a.kind = "local" -> OVSP_LOCAL
                [] a.kind = "in_port" -> st.packet.val["in_port"]
                [] OTHER -> NONE
  IN  [packet |-> packet,
       out |-> IF a.kind \in {"output", "local", "in_port"} THEN Append(st.out, <<port, packet>>) ELSE st.out,
       up |-> IF a.kind = "controller" THEN Append(st.up, <<a.arg, packet>>) ELSE st.up]

Meaning(key, acts) ==
  Seqs!FoldLeft(MeaningStep, [packet |-> key, out |-> <<>>, up |-> <<>>], acts)

(* "make sure all preceding set-field actions take effect on the output     *)
(* packet" (commit_set_field_actions): every packet that leaves or goes to  *)
(* the controller is the one the actions before it make, through all        *)
(* tables and groups, however many outputs are in between.                  *)
OutputsCarrySetFields ==
  \A i \in DOMAIN kflow :
     LET kernel == Kernel(kflow[i].key, kflow[i].actions)
         meant == Meaning(kflow[i].key, kflow[i].done)
     IN  kernel.out = meant.out /\ kernel.up = meant.up

(* "Scan actions list for field modifications and update the CFR            *)
(* accordingly" (pipeline_standard_update_cfr): a later table looks at the  *)
(* packet as the actions of the tables before it left it.                   *)
CfrFollowsActions ==
  \A i \in DOMAIN kflow :
     \A j \in DOMAIN kflow[i].lookups :
        kflow[i].lookups[j].cfr = pipeline_standard_key_to_cfr(kflow[i].lookups[j].key)

(* A packet visits each table at most once, so processing ends, and each    *)
(* visit is counted once as a match or a miss of its table (goto check of   *)
(* parse_value, statistics of pipeline_standard_process).                   *)
LookupsEndAndCount ==
  \A i \in DOMAIN kflow :
     LET counted == SelectSeq(kflow[i].stats, LAMBDA s : s[1] \in {"matched", "missed"})
     IN  /\ ~kflow[i].endless
         /\ Len(counted) = Len(kflow[i].lookups)
         /\ \A a, b \in DOMAIN counted : a < b => counted[a][2] < counted[b][2]
=============================================================================
