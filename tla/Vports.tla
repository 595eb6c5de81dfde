------------------------------- MODULE Vports -------------------------------
(***************************************************************************)
(* The switch's ports (vport.c) as they follow the kernel's: notifications *)
(* of vports on a multicast socket that may overrun (multicast.c), changes *)
(* of network interfaces on another socket, and the choice of the uplink   *)
(* (uplink.c).                                                             *)
(*                                                                         *)
(* The two sockets are read in any order.  Handlers are operators on the   *)
(* record of all variables: adding a port handles interface events first.  *)
(***************************************************************************)
EXTENDS Integers, Sequences, FiniteSets, FiniteSetsExt, Functions, TLC

LOCAL Seqs == INSTANCE SequencesExt

CONSTANTS
  Names,                  \* names of network interfaces
  Uplinks,                \* those given with --uplink
  MAX_PORTS,              \* IND_OVS_MAX_PORTS
  QUEUE,                  \* bound: notifications that the socket holds
  MAX_CHANGES,            \* bound: changes made by others
  SOCKET_FAILURES         \* whether a port's socket may fail to open

ASSUME VportsAssumption ==
  /\ Uplinks \subseteq Names /\ Uplinks # {} /\ "local" \notin Names
  /\ Cardinality(Names) <= MAX_PORTS
  /\ MAX_PORTS \in Nat \ {0, 1} /\ QUEUE \in Nat \ {0} /\ MAX_CHANGES \in Nat
  /\ SOCKET_FAILURES \in BOOLEAN

VARIABLES
  kernel,                 \* port number -> [name, pid]: the datapath's vports
  links,                  \* name -> [up, carrier]: the interfaces
  gone,                   \* names of interfaces that were destroyed
  mcast,                  \* notifications to be read
  overrun,                \* whether the next read of the multicast socket fails
  linkq,                  \* interface events to be read
  ports,                  \* ind_ovs_ports, without the null entries
  current_uplink,
  controller,             \* port number -> [name, running]: what it was told
  changes,                \* changes made by others so far
  missed,                 \* whether an overrun, or a socket that failed, happened
  removed                 \* whether a vport was removed on purpose

vars == <<kernel, links, gone, mcast, overrun, linkq, ports, current_uplink, controller,
          changes, missed, removed>>

State == [kernel |-> kernel, links |-> links, mcast |-> mcast, overrun |-> overrun, linkq |-> linkq,
          ports |-> ports, current_uplink |-> current_uplink, controller |-> controller,
          missed |-> missed, removed |-> removed]

Becomes(s) ==
  /\ kernel' = s.kernel /\ links' = s.links /\ mcast' = s.mcast /\ overrun' = s.overrun
  /\ linkq' = s.linkq /\ ports' = s.ports /\ current_uplink' = s.current_uplink
  /\ controller' = s.controller /\ missed' = s.missed /\ removed' = s.removed

DEST_NONE == -1           \* OF_PORT_DEST_NONE
OVSP_LOCAL == 0

Without(f, x) == Restrict(f, DOMAIN f \ {x})

-----------------------------------------------------------------------------
(* The kernel.                                                              *)

(* A notification that does not fit is lost, and the next read fails.       *)
Kernel_Multicast(s, m) ==
  IF Len(s.mcast) < QUEUE THEN [s EXCEPT !.mcast = Append(s.mcast, m)]
  ELSE [s EXCEPT !.overrun = TRUE, !.missed = TRUE]

Kernel_VportNew(s, name, port_no) ==
  Kernel_Multicast([s EXCEPT !.kernel = (port_no :> [name |-> name, pid |-> 0]) @@ s.kernel],
                   [cmd |-> "NEW", port_no |-> port_no, name |-> name])

Kernel_VportDel(s, port_no) ==
  Kernel_Multicast([s EXCEPT !.kernel = Without(s.kernel, port_no)],
                   [cmd |-> "DEL", port_no |-> port_no, name |-> s.kernel[port_no].name])

Attached(s, name) == \E p \in DOMAIN s.kernel : s.kernel[p].name = name
FreePort(s) == Min(0 .. MAX_PORTS \ DOMAIN s.kernel)

Flags(link) == [up |-> link.up, running |-> link.up /\ link.carrier]

Kernel_LinkEvent(s, act, name) ==
  [s EXCEPT !.linkq = Append(s.linkq, [act |-> act, name |-> name] @@
              (IF act = "DEL" THEN [up |-> FALSE, running |-> FALSE] ELSE Flags(s.links[name])))]

(* ind_ovs_set_interface_flags: an event if the flag changes.               *)
set_interface_flags(s, name, up) ==
  IF name \notin DOMAIN s.links \/ s.links[name].up = up THEN s
  ELSE Kernel_LinkEvent([s EXCEPT !.links = [s.links EXCEPT ![name].up = up]], "CHANGE", name)

-----------------------------------------------------------------------------
(* uplink.c                                                                 *)

(* The sentinel is larger than every port number.                           *)
is_valid_uplink(s, port_no) ==
  port_no \in DOMAIN s.ports /\ s.ports[port_no].is_uplink /\ s.ports[port_no].running

(* Mutant: the first valid uplink is taken at once.                         *)
reselect_first(s) ==
  LET valid == {p \in 0 .. MAX_PORTS - 1 : is_valid_uplink(s, p)}
  IN  [s EXCEPT !.current_uplink = IF valid = {} THEN DEST_NONE ELSE Min(valid)]

ind_ovs_uplink_reselect(s) ==
  LET valid == {p \in 0 .. MAX_PORTS - 1 : is_valid_uplink(s, p)}
  IN  IF is_valid_uplink(s, s.current_uplink) THEN s
      ELSE [s EXCEPT !.current_uplink = IF valid = {} THEN DEST_NONE ELSE Min(valid)]

-----------------------------------------------------------------------------
(* Port status messages, and the interface events they follow.              *)

Desc(port) == [name |-> port.name, running |-> port.running]

port_status_notify(s, port_no, reason) ==
  [s EXCEPT !.controller = IF reason = "DELETE" THEN Without(s.controller, port_no)
                           ELSE (port_no :> Desc(s.ports[port_no])) @@ s.controller]

Known(s, name) == {p \in DOMAIN s.ports : s.ports[p].name = name}

indigo_port_interface_add(s, name) ==
  IF Known(s, name) # {} \/ Attached(s, name) \/ name \notin DOMAIN s.links THEN s
  ELSE Kernel_VportNew(s, name, FreePort(s))

LinkChanged(port, ev) ==
  [port EXCEPT !.up = ev.up, !.running = ev.running, !.admin_down = ~ev.up,
               !.link_up_count = IF ev.running /\ ~port.running THEN port.link_up_count + 1
                                 ELSE port.link_up_count,
               !.link_down_count = IF ~ev.running /\ port.running THEN port.link_down_count + 1
                                   ELSE port.link_down_count]

(* Mutants: the uplink is not chosen again; a new uplink is not added.      *)
link_change_cb_keep(s, ev) ==
  LET port_no == Min(Known(s, ev.name))
  IN  IF ev.act = "NEW" /\ ev.name \in Uplinks /\ Known(s, ev.name) = {}
        THEN indigo_port_interface_add(s, ev.name)
      ELSE IF Known(s, ev.name) = {} THEN s
      ELSE port_status_notify([s EXCEPT !.ports = [s.ports EXCEPT ![port_no] = LinkChanged(s.ports[port_no], ev)]],
                              port_no, "MODIFY")

link_change_cb_ignore(s, ev) ==
  LET port_no == Min(Known(s, ev.name))
      changed == [s EXCEPT !.ports = [s.ports EXCEPT ![port_no] = LinkChanged(s.ports[port_no], ev)]]
      told == port_status_notify(changed, port_no, "MODIFY")
  IN  IF Known(s, ev.name) = {} THEN s
      ELSE IF told.ports[port_no].is_uplink THEN ind_ovs_uplink_reselect(told) ELSE told

link_change_cb(s, ev) ==
  LET port_no == Min(Known(s, ev.name))
      changed == [s EXCEPT !.ports = [s.ports EXCEPT ![port_no] = LinkChanged(s.ports[port_no], ev)]]
      told == port_status_notify(changed, port_no, "MODIFY")
  IN  IF ev.act = "NEW" /\ ev.name \in Uplinks /\ Known(s, ev.name) = {}
        THEN indigo_port_interface_add(s, ev.name)
      ELSE IF Known(s, ev.name) = {} THEN s
      ELSE IF told.ports[port_no].is_uplink THEN ind_ovs_uplink_reselect(told) ELSE told

(* nl_cache_mngr_poll: all events that wait.                                *)
PollLinks(s) == Seqs!FoldLeft(link_change_cb, [s EXCEPT !.linkq = <<>>], s.linkq)

-----------------------------------------------------------------------------
(* Ports come and go with the kernel's.                                     *)

NewPort(s, port_no, name) ==
  LET ifname == IF port_no = OVSP_LOCAL THEN "local" ELSE name
      flags == IF ifname \in DOMAIN s.links THEN Flags(s.links[ifname]) ELSE [up |-> TRUE, running |-> FALSE]
  IN  [name |-> ifname, is_uplink |-> ifname \in Uplinks, up |-> TRUE, running |-> flags.running,
       admin_down |-> FALSE, link_up_count |-> 0, link_down_count |-> 0, was_running |-> flags.running]

(* Configure the vport, bring its interface up, tell the controller.        *)
AddPort(s, port_no, name) ==
  LET port == NewPort(s, port_no, name)
      configured == [s EXCEPT !.kernel = [s.kernel EXCEPT ![port_no].pid = 1]]
      up == set_interface_flags(configured, port.name, TRUE)
      added == port_status_notify([up EXCEPT !.ports = (port_no :> port) @@ up.ports], port_no, "ADD")
  IN  IF port.is_uplink THEN ind_ovs_uplink_reselect(added) ELSE added

(* opens is whether the port's socket does.                                 *)
ind_ovs_port_added(s, port_no, name, opens) ==
  LET polled == PollLinks(s)
  IN  IF port_no >= MAX_PORTS
        THEN IF port_no \in DOMAIN s.kernel THEN [Kernel_VportDel(s, port_no) EXCEPT !.removed = TRUE] ELSE s
      ELSE IF port_no \in DOMAIN s.ports THEN s
      ELSE IF ~opens THEN [polled EXCEPT !.missed = TRUE]
      ELSE IF port_no \notin DOMAIN polled.kernel THEN polled
      ELSE AddPort(polled, port_no, name)

(* Mutant: the controller is not told.                                      *)
ind_ovs_port_deleted_untold(s, port_no) ==
  IF port_no \notin DOMAIN s.ports THEN s
  ELSE LET deleted == [s EXCEPT !.ports = Without(s.ports, port_no)]
       IN  IF s.ports[port_no].is_uplink THEN ind_ovs_uplink_reselect(deleted) ELSE deleted

ind_ovs_port_deleted(s, port_no) ==
  IF port_no \notin DOMAIN s.ports THEN s
  ELSE LET told == port_status_notify(s, port_no, "DELETE")
           deleted == [told EXCEPT !.ports = Without(told.ports, port_no)]
       IN  IF s.ports[port_no].is_uplink THEN ind_ovs_uplink_reselect(deleted) ELSE deleted

(* Mutant: only new vports are handled.                                     *)
handle_vport_new(s, m, opens) ==
  IF m.cmd = "NEW" THEN ind_ovs_port_added(s, m.port_no, m.name, opens) ELSE s

ind_ovs_handle_vport_multicast(s, m, opens) ==
  IF m.cmd = "NEW" THEN ind_ovs_port_added(s, m.port_no, m.name, opens)
  ELSE ind_ovs_port_deleted(s, m.port_no)

(* The dump of the kernel's vports, each taken as a new one.                *)
ind_ovs_multicast_resync(s, opens) ==
  LET dump == SelectSeq([i \in 1 .. MAX_PORTS + 1 |-> i - 1], LAMBDA p : p \in DOMAIN s.kernel)
      One(st, p) == ind_ovs_port_added(st, p, s.kernel[p].name, opens)
  IN  Seqs!FoldLeft(One, s, dump)

-----------------------------------------------------------------------------
(* Steps of the switch.                                                     *)

Opens == IF SOCKET_FAILURES THEN BOOLEAN ELSE {TRUE}

(* One read of the multicast socket: the error of an overrun comes before   *)
(* the notifications that wait.                                             *)
ind_ovs_handle_multicast ==
  \E opens \in Opens :
    /\ overrun \/ mcast # <<>>
    /\ Becomes(IF overrun THEN ind_ovs_multicast_resync([State EXCEPT !.overrun = FALSE], opens)
               ELSE ind_ovs_handle_vport_multicast([State EXCEPT !.mcast = Tail(mcast)], Head(mcast), opens))
    /\ UNCHANGED <<gone, changes>>

route_cache_mngr_socket_cb ==
  /\ linkq # <<>>
  /\ Becomes(PollLinks(State))
  /\ UNCHANGED <<gone, changes>>

(* Mutant: only the port's own record changes.                              *)
indigo_port_modify_record(port_no, down) ==
  /\ changes < MAX_CHANGES /\ port_no \in DOMAIN ports
  /\ changes' = changes + 1
  /\ ports' = [ports EXCEPT ![port_no].admin_down = down, ![port_no].up = ~down]
  /\ UNCHANGED <<kernel, links, gone, mcast, overrun, linkq, current_uplink, controller, missed, removed>>

indigo_port_modify(port_no, down) ==
  LET changed == [State EXCEPT !.ports = [ports EXCEPT ![port_no].admin_down = down, ![port_no].up = ~down]]
  IN  /\ changes < MAX_CHANGES /\ port_no \in DOMAIN ports
      /\ changes' = changes + 1
      /\ Becomes(set_interface_flags(changed, ports[port_no].name, ~down))
      /\ UNCHANGED gone

indigo_port_interface_remove(name) ==
  LET port_no == Min(Known(State, name))
      st == [State EXCEPT !.removed = TRUE]
  IN  /\ changes < MAX_CHANGES /\ Known(State, name) # {}
      /\ changes' = changes + 1
      /\ Becomes(IF port_no \in DOMAIN kernel THEN Kernel_VportDel(st, port_no) ELSE st)
      /\ UNCHANGED gone

AddInterface(name) ==
  /\ changes < MAX_CHANGES /\ name \in DOMAIN links
  /\ changes' = changes + 1
  /\ Becomes(indigo_port_interface_add(State, name))
  /\ UNCHANGED gone

-----------------------------------------------------------------------------
(* Steps of others: ovs-dpctl, cables, and the drivers of interfaces.       *)

Kernel_AddVport(name, port_no) ==
  /\ changes < MAX_CHANGES
  /\ name \in DOMAIN links /\ ~Attached(State, name) /\ port_no \notin DOMAIN kernel
  /\ changes' = changes + 1
  /\ Becomes(Kernel_VportNew(State, name, port_no))
  /\ UNCHANGED gone

Kernel_DelVport(port_no) ==
  /\ changes < MAX_CHANGES /\ port_no \in DOMAIN kernel \ {OVSP_LOCAL}
  /\ changes' = changes + 1
  /\ Becomes([Kernel_VportDel(State, port_no) EXCEPT !.removed = TRUE])
  /\ UNCHANGED gone

Kernel_Carrier(name) ==
  /\ changes < MAX_CHANGES /\ name \in DOMAIN links
  /\ changes' = changes + 1
  /\ LET st == [State EXCEPT !.links = [links EXCEPT ![name].carrier = ~links[name].carrier]]
     IN  Becomes(IF links[name].up THEN Kernel_LinkEvent(st, "CHANGE", name) ELSE st)
  /\ UNCHANGED gone

Kernel_CreateLink(name) ==
  /\ changes < MAX_CHANGES /\ name \notin DOMAIN links
  /\ changes' = changes + 1
  /\ Becomes(Kernel_LinkEvent([State EXCEPT !.links = (name :> [up |-> FALSE, carrier |-> TRUE]) @@ links],
                              "NEW", name))
  /\ UNCHANGED gone

(* The interface takes its vport with it.                                   *)
Kernel_DestroyLink(name) ==
  LET st == Kernel_LinkEvent([State EXCEPT !.links = Without(links, name)], "DEL", name)
      at == {p \in DOMAIN kernel : kernel[p].name = name}
  IN  /\ changes < MAX_CHANGES /\ name \in DOMAIN links
      /\ changes' = changes + 1
      /\ gone' = gone \cup {name}
      /\ Becomes(IF at = {} THEN st ELSE Kernel_VportDel(st, Min(at)))

-----------------------------------------------------------------------------
(* The local port is known; one interface, an uplink, is not yet attached.  *)
Init ==
  LET first == CHOOSE n \in Uplinks : TRUE
      local == [name |-> "local", is_uplink |-> FALSE, up |-> TRUE, running |-> FALSE, admin_down |-> FALSE,
                link_up_count |-> 0, link_down_count |-> 0, was_running |-> FALSE]
  IN  /\ kernel = (OVSP_LOCAL :> [name |-> "local", pid |-> 1])
      /\ links = (first :> [up |-> TRUE, carrier |-> TRUE])
      /\ linkq = <<[act |-> "NEW", name |-> first, up |-> TRUE, running |-> TRUE]>>
      /\ ports = (OVSP_LOCAL :> local) /\ controller = (OVSP_LOCAL :> Desc(local))
      /\ mcast = <<>> /\ overrun = FALSE /\ gone = {}
      /\ current_uplink = DEST_NONE /\ changes = 0 /\ missed = FALSE /\ removed = FALSE

Next ==
  \/ ind_ovs_handle_multicast
  \/ route_cache_mngr_socket_cb
  \/ \E p \in DOMAIN ports, down \in BOOLEAN : indigo_port_modify(p, down)
  \/ \E n \in Names : indigo_port_interface_remove(n)
  \/ \E n \in Names : AddInterface(n)
  \/ \E n \in Names, p \in 1 .. MAX_PORTS : Kernel_AddVport(n, p)
  \/ \E p \in DOMAIN kernel : Kernel_DelVport(p)
  \/ \E n \in Names : Kernel_Carrier(n)
  \/ \E n \in Names : Kernel_CreateLink(n)
  \/ \E n \in Names : Kernel_DestroyLink(n)

(* The event loop serves each socket that has something to read: this is    *)
(* WF_vars of the two handlers, with their guards in place of ENABLED,      *)
(* which TLC would compute from the whole handler.                          *)
Fairness ==
  /\ []<>(~overrun /\ mcast = <<>>) \/ []<><<ind_ovs_handle_multicast>>_vars
  /\ []<>(linkq = <<>>) \/ []<><<route_cache_mngr_socket_cb>>_vars

Spec == Init /\ [][Next]_vars /\ Fairness

-----------------------------------------------------------------------------
(* Properties.                                                              *)

(* The ports are below IND_OVS_MAX_PORTS, the kernel's vports may be one    *)
(* above.                                                                   *)
TypeOK ==
  /\ DOMAIN ports \subseteq 0 .. MAX_PORTS - 1 /\ DOMAIN kernel \subseteq 0 .. MAX_PORTS
  /\ DOMAIN links \subseteq Names /\ gone \subseteq Names
  /\ current_uplink \in -1 .. MAX_PORTS - 1
  /\ Len(mcast) <= QUEUE /\ changes \in 0 .. MAX_CHANGES

(* "Called whenever an uplink is added, removed, or link status changed":   *)
(* no other way makes the chosen uplink wrong.  It is a running uplink      *)
(* port, and there is none only if no uplink runs, whatever was lost        *)
(* (ind_ovs_uplink_reselect and its callers).                               *)
UplinkIsGood ==
  IF current_uplink = DEST_NONE THEN \A p \in DOMAIN ports : ~is_valid_uplink(State, p)
  ELSE is_valid_uplink(State, current_uplink)

(* "Sticky - keep current uplink if it's still good": the choice changes    *)
(* only with the removal of the port or an event that says it stopped       *)
(* running, and not because a better one came (uplink.c).                   *)
UplinkSticky ==
  [][current_uplink # DEST_NONE /\ current_uplink' # current_uplink =>
       \/ current_uplink \notin DOMAIN ports'
       \/ \E i \in DOMAIN linkq : linkq[i].name = ports[current_uplink].name /\ ~linkq[i].running]_vars

(* The counts of a port's transitions are those between the state it had    *)
(* when it was added and the one it has, through repeated and stale events  *)
(* (link_change_cb).                                                        *)
LinkCountsBalance ==
  LET Bit(b) == IF b THEN 1 ELSE 0
  IN  \A p \in DOMAIN ports :
        ports[p].link_up_count - ports[p].link_down_count = Bit(ports[p].running) - Bit(ports[p].was_running)

(* Port status messages give the controller the same ports, with the same   *)
(* names and link states, that the switch has, even when the switch itself  *)
(* missed a notification (port_status_notify and its callers).              *)
ControllerKnows == controller = [p \in DOMAIN ports |-> Desc(ports[p])]

(* When no event waits, the flags of a port, which a port modification, the *)
(* addition and link events all write, are those of its interface.          *)
FlagsSettle ==
  linkq = <<>> /\ ~missed =>
    \A p \in DOMAIN ports : ports[p].name \in DOMAIN links =>
      /\ Flags(links[ports[p].name]) = [up |-> ports[p].up, running |-> ports[p].running]
      /\ ports[p].admin_down = ~ports[p].up

(* What the switch records of a port is true: its number is in range, its   *)
(* counts balance, and its flags settle (link_change_cb).                   *)
PortRecordsTrue == TypeOK /\ LinkCountsBalance /\ FlagsSettle

(* If nothing was lost and no notification waits, the ports are the         *)
(* kernel's, each with its upcall socket set, and none is out of range:     *)
(* notifications that are stale when read do no harm (ind_ovs_port_added,   *)
(* ind_ovs_port_deleted).                                                   *)
PortsMatchKernel ==
  mcast = <<>> /\ ~missed =>
    /\ DOMAIN ports = DOMAIN kernel
    /\ \A p \in DOMAIN ports : ports[p].name = kernel[p].name /\ kernel[p].pid = 1

(* "Automatically add uplinks to datapath": again and again the interface   *)
(* of every uplink is a port, unless it is gone or was destroyed before, a  *)
(* vport was removed on purpose or a notification lost (link_change_cb).    *)
(* One that was destroyed and made again may stay out: the event of the new *)
(* interface may be read before the notification that its vport is gone.    *)
UplinksAttached ==
  \A n \in Uplinks :
    []<>(n \notin DOMAIN links \/ n \in gone \/ Known(State, n) # {} \/ missed \/ removed)
=============================================================================
