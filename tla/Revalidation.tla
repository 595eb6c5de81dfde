----------------------------- MODULE Revalidation -----------------------------
(***************************************************************************)
(* The flow cache of IVS and how it is kept in step with the forwarding    *)
(* state: barrier.c (deferred revalidation), kflow.c (kernel flows),       *)
(* upcall.c (upcall processes forked from the main process), the part of   *)
(* vport.c that touches them, and hitless.c.                               *)
(*                                                                         *)
(* The main process is single threaded, so each of its event handlers is   *)
(* one action.  The upcall processes run beside it: each works on the      *)
(* snapshot of the forwarding state and of the ports that fork() gave it.  *)
(*                                                                         *)
(* A forwarding state ("program") is what the pipeline computes from it: a *)
(* function from packet keys to verdicts.  A verdict is the action list    *)
(* and the megaflow mask, and a mask is represented by the set of keys     *)
(* that a flow with this key and mask matches.                             *)
(***************************************************************************)
EXTENDS Integers, FiniteSets

CONSTANTS
  Cxns,                  \* OpenFlow connections
  MAX_BLOCKED_CXNS,      \* size of the blocked_cxns table
  NumThreads,            \* ind_ovs_num_upcall_threads
  Ports,                 \* kernel port numbers
  Keys,                  \* flow keys
  InPort,                \* the input port in each key
  Actions,               \* action lists
  Programs,              \* forwarding states
  MAX_KFLOWS_PER_PORT,   \* limit on port->num_kflows
  UINT_MOD,              \* num_kflows is unsigned: arithmetic modulo UINT_MOD
  UNSPECIFIED,           \* INDIGO_CXN_ID_UNSPECIFIED
  PipelineError,         \* pipeline_process failed
  NoFlow,                \* no such flow
  NULL,                  \* no such port
  Zombie                 \* an upcall process that died and was not reaped

Slots == 0 .. MAX_BLOCKED_CXNS - 1
Threads == 0 .. NumThreads - 1
Verdicts == [mask : SUBSET Keys, actions : Actions]
PortRecords == [num_kflows : 0 .. UINT_MOD - 1, upcall_thread : Threads]
Processes == [fwd : Programs, polls : SUBSET Ports, closed : SUBSET Ports]

ASSUME SizesAssumption ==
  /\ MAX_BLOCKED_CXNS \in Nat \ {0}
  /\ NumThreads \in Nat \ {0}
  /\ MAX_KFLOWS_PER_PORT \in Nat
  /\ UINT_MOD \in Nat \ {0}
  /\ MAX_KFLOWS_PER_PORT < UINT_MOD
  /\ Ports \subseteq Nat
  /\ IsFiniteSet(Ports)
  /\ IsFiniteSet(Keys)
  /\ InPort \in [Keys -> Ports]

ASSUME SentinelsAssumption ==
  /\ UNSPECIFIED \notin Cxns
  /\ NoFlow \notin Verdicts
  /\ PipelineError \notin Verdicts
  /\ NULL \notin PortRecords
  /\ Zombie \notin Processes

(* The mask contract that test_kflow_mask asserts in debug builds: keys     *)
(* that differ only outside the mask get the same actions and mask.         *)
ASSUME ProgramsAssumption ==
  /\ Programs \subseteq [Keys -> Verdicts \cup {PipelineError}]
  /\ \A p \in Programs : \A k \in Keys :
       p[k] # PipelineError =>
         /\ k \in p[k].mask
         /\ \A x \in p[k].mask : p[x] = p[k]

VARIABLES
  fwd,                   \* the forwarding state of the main process
  hitless,               \* ind_ovs_hitless
  ind_ovs_ports,         \* the ports known to the main process
  assign_idx,            \* next thread of ind_ovs_upcall_assign_thread
  kflows,                \* the main process's copy of the flows it installed
  kernel,                \* the kernel flow table
  kflow_sock,            \* keys waiting in the kflow request sockets
  child,                 \* the upcall process of each upcall thread
  sigchld,               \* SIGCHLD pending on the signalfd
  blocked_cxns,          \* connections whose barrier reply is held back
  barrier_timer_active,
  refused,               \* history: keys the kernel refused to delete
  inforce,               \* history: forwarding states since the last revalidation
  window                 \* history: forwarding states since a connection's last change

mainVars == <<fwd, hitless, ind_ovs_ports, assign_idx>>
flowVars == <<kflows, kernel, refused>>
upcallVars == <<kflow_sock, child, sigchld>>
barrierVars == <<blocked_cxns, barrier_timer_active>>
vars == <<mainVars, flowVars, upcallVars, barrierVars, inforce, window>>

TypeOK ==
  /\ fwd \in Programs
  /\ hitless \in BOOLEAN
  /\ ind_ovs_ports \in [Ports -> PortRecords \cup {NULL}]
  /\ assign_idx \in Threads
  /\ kflows \in [Keys -> Verdicts \cup {NoFlow}]
  /\ kernel \in [Keys -> Verdicts \cup {NoFlow}]
  /\ refused \in SUBSET Keys
  /\ kflow_sock \in SUBSET Keys
  /\ child \in [Threads -> Processes \cup {Zombie}]
  /\ sigchld \in BOOLEAN
  /\ blocked_cxns \in [Slots -> Cxns \cup {UNSPECIFIED}]
  /\ barrier_timer_active \in BOOLEAN
  /\ inforce \in SUBSET Programs
  /\ window \in [Cxns -> SUBSET Programs]

(* The record of port q with its num_kflows set to n.                       *)
WithKflows(q, n) ==
  [num_kflows |-> n, upcall_thread |-> ind_ovs_ports[q].upcall_thread]

Managed == {k \in Keys : kflows[k] # NoFlow}
Present == {q \in Ports : ind_ovs_ports[q] # NULL}
Blocked == {blocked_cxns[i] : i \in Slots} \ {UNSPECIFIED}

-----------------------------------------------------------------------------
(* Kernel flows.                                                            *)

(* port->num_kflows-- for every deleted flow whose input port exists.       *)
Uncounted(deleted) ==
  [q \in Ports |->
     IF ind_ovs_ports[q] = NULL THEN NULL
     ELSE WithKflows(q, (ind_ovs_ports[q].num_kflows
                          - Cardinality({k \in deleted : InPort[k] = q})) % UINT_MOD)]

(* Mutant: the flow is freed without a DEL to the kernel.                   *)
KernelWithoutDelete(deleted, delFails) == kernel

(* ind_ovs_kflow_delete: the result of the kernel's DEL is ignored.         *)
KernelAfterDelete(deleted, delFails) ==
  [k \in Keys |-> IF k \in deleted \ delFails THEN NoFlow ELSE kernel[k]]

DeleteKflows(deleted, delFails) ==
  /\ kflows' = [k \in Keys |-> IF k \in deleted THEN NoFlow ELSE kflows[k]]
  /\ kernel' = KernelAfterDelete(deleted, delFails)
  /\ refused' = refused \cup (deleted \cap delFails)
  /\ ind_ovs_ports' = Uncounted(deleted)

(* Mutant: the mask comparison is missing.                                  *)
InvalidIgnoringMask(p, k) == p[k] = PipelineError

(* ind_ovs_kflow_invalidate under forwarding state p: a flow that the       *)
(* pipeline rejects or gives another mask is deleted; one with other        *)
(* actions is updated, and deleted if the kernel refuses the update.        *)
Invalid(p, k) == p[k] = PipelineError \/ p[k].mask # kflows[k].mask
ToDelete(p) == {k \in Managed : Invalid(p, k)}
ToUpdate(p) ==
  {k \in Managed : ~Invalid(p, k) /\ p[k].actions # kflows[k].actions}

InvalidateEach(p, updated, deleted, delFails) ==
  /\ kflows' = [k \in Keys |-> IF k \in deleted THEN NoFlow
                               ELSE IF k \in updated THEN p[k] ELSE kflows[k]]
  /\ kernel' = [k \in Keys |-> IF k \in updated THEN p[k]
                               ELSE KernelAfterDelete(deleted, delFails)[k]]
  /\ refused' = refused \cup delFails
  /\ ind_ovs_ports' = Uncounted(deleted)

(* ind_ovs_kflow_invalidate_all, with the SETs and DELs the kernel refuses. *)
InvalidateAll(p) ==
  IF hitless
  THEN UNCHANGED <<flowVars, ind_ovs_ports>>
  ELSE \E setFails \in SUBSET ToUpdate(p) :
       \E delFails \in SUBSET (ToDelete(p) \cup setFails) :
         InvalidateEach(p, ToUpdate(p) \ setFails, ToDelete(p) \cup setFails, delFails)

(* ind_ovs_kflow_add past its early returns, with the kernel accepting the  *)
(* flow.  Only the key comes from the upcall process: the verdict is        *)
(* computed here, from the main process's forwarding state.                 *)
KflowInstall(k) ==
  LET q == InPort[k] IN
  /\ ~hitless
  /\ ind_ovs_ports[q] # NULL
  /\ ind_ovs_ports[q].num_kflows < MAX_KFLOWS_PER_PORT
  /\ \A m \in Managed : k \notin kflows[m].mask
  /\ fwd[k] # PipelineError
  /\ kflows' = [kflows EXCEPT ![k] = fwd[k]]
  /\ kernel' = [kernel EXCEPT ![k] = fwd[k]]
  /\ refused' = refused \ {k}
  /\ ind_ovs_ports' = [ind_ovs_ports EXCEPT ![q] =
                         WithKflows(q, (ind_ovs_ports[q].num_kflows + 1) % UINT_MOD)]

(* kflow_sock_ready: the request is consumed whatever becomes of it.  An    *)
(* early return, or a kernel that refuses the flow, changes nothing else.   *)
KflowSockReady(k) ==
  /\ k \in kflow_sock
  /\ kflow_sock' = kflow_sock \ {k}
  /\ KflowInstall(k) \/ UNCHANGED <<flowVars, ind_ovs_ports>>
  /\ UNCHANGED <<fwd, hitless, assign_idx, child, sigchld, barrierVars,
                 inforce, window>>

(* kflow_expire deletes a flow that was idle too long (time is abstracted). *)
KflowExpire(k) ==
  /\ ~hitless
  /\ k \in Managed
  /\ \E delFails \in SUBSET {k} : DeleteKflows({k}, delFails)
  /\ UNCHANGED <<fwd, hitless, assign_idx, upcallVars, barrierVars, inforce,
                 window>>

-----------------------------------------------------------------------------
(* Upcall processes.                                                        *)

(* ind_ovs_upcall_respawn_child: fork() copies the forwarding state, and    *)
(* ind_ovs_upcall_thread_init polls the ports assigned to the thread.       *)
Forked(t, p, ports) ==
  [fwd |-> p,
   polls |-> {q \in Ports : ports[q] # NULL /\ ports[q].upcall_thread = t},
   closed |-> {}]

(* Mutant: processes that are alive are not replaced.                       *)
RespawnDead(p) ==
  /\ child' = [t \in Threads |-> IF child[t] = Zombie THEN Forked(t, p, ind_ovs_ports')
                                 ELSE child[t]]
  /\ sigchld' = TRUE

(* ind_ovs_upcall_respawn: kill, reap and fork every process.  The killed   *)
(* processes leave SIGCHLD pending although they are already reaped.        *)
Respawn(p) ==
  /\ child' = [t \in Threads |-> Forked(t, p, ind_ovs_ports')]
  /\ sigchld' = TRUE

(* ind_ovs_handle_packet_miss: an upcall process that has seen the key      *)
(* before asks for a kernel flow.  Packets may still be queued on the       *)
(* socket of a port that the main process has deleted.  (Without a request: *)
(* key not seen yet, socket full, pipeline error, nothing changes here.)    *)
PacketMiss(t, k) ==
  /\ child[t] # Zombie
  /\ InPort[k] \in child[t].polls \cup child[t].closed
  /\ child[t].fwd[k] # PipelineError
  /\ kflow_sock' = kflow_sock \cup {k}
  /\ UNCHANGED <<mainVars, flowVars, child, sigchld, barrierVars, inforce,
                 window>>

(* An upcall process dies (abort, assertion, OOM killer).                   *)
UpcallDies(t) ==
  /\ child[t] # Zombie
  /\ child' = [child EXCEPT ![t] = Zombie]
  /\ sigchld' = TRUE
  /\ UNCHANGED <<mainVars, flowVars, kflow_sock, barrierVars, inforce, window>>

(* Mutant: one waitpid() per SIGCHLD instead of a loop.                     *)
SignalfdReapsOne ==
  /\ sigchld
  /\ sigchld' = FALSE
  /\ \/ \E t \in Threads :
          /\ child[t] = Zombie
          /\ child' = [child EXCEPT ![t] = Forked(t, fwd, ind_ovs_ports)]
     \/ Zombie \notin {child[t] : t \in Threads} /\ UNCHANGED child
  /\ UNCHANGED <<mainVars, flowVars, kflow_sock, barrierVars, inforce, window>>

(* signalfd_sock_ready: one SIGCHLD may stand for several dead processes.   *)
SignalfdSockReady ==
  /\ sigchld
  /\ sigchld' = FALSE
  /\ child' = [t \in Threads |->
                 IF child[t] = Zombie THEN Forked(t, fwd, ind_ovs_ports)
                 ELSE child[t]]
  /\ UNCHANGED <<mainVars, flowVars, kflow_sock, barrierVars, inforce, window>>

-----------------------------------------------------------------------------
(* Deferred revalidation.                                                   *)

NoneBlocked == [i \in Slots |-> UNSPECIFIED]

(* The slot ind_ovs_barrier_defer_revalidation uses: the last free one.     *)
LastFree(i, table) ==
  /\ table[i] = UNSPECIFIED
  /\ \A j \in Slots : j > i => table[j] # UNSPECIFIED

(* revalidate() up to the unblocking of the connections, with forwarding    *)
(* state p (the handler may just have changed it).                          *)
RevalidateCache(p) ==
  /\ InvalidateAll(p)
  /\ Respawn(p)
  /\ inforce' = {p}

Revalidate ==
  /\ RevalidateCache(fwd)
  /\ blocked_cxns' = NoneBlocked
  /\ barrier_timer_active' = FALSE
  /\ UNCHANGED <<fwd, hitless, assign_idx, kflow_sock, window>>

(* A handler replaces the forwarding state; c is the connection it acts     *)
(* for, or UNSPECIFIED.                                                     *)
ChangeForwarding(c, p) ==
  /\ fwd' = p
  /\ window' = [d \in Cxns |-> IF d = c THEN {p} ELSE window[d] \cup {p}]

(* ind_ovs_barrier_defer_revalidation_internal.                             *)
DeferRevalidationInternal(p) ==
  /\ barrier_timer_active' = TRUE
  /\ inforce' = inforce \cup {p}
  /\ UNCHANGED blocked_cxns

(* The ways through ind_ovs_barrier_defer_revalidation(c).                  *)
NoConnection(c, p) ==
  /\ c = UNSPECIFIED
  /\ DeferRevalidationInternal(p)
  /\ UNCHANGED <<flowVars, ind_ovs_ports, child, sigchld>>

AlreadyBlocked(c, p) ==
  /\ c \in Blocked
  /\ inforce' = inforce \cup {p}
  /\ UNCHANGED <<barrierVars, flowVars, ind_ovs_ports, child, sigchld>>

(* Mutant: the search stops at a free slot, before it finds the connection. *)
BlockWithoutSearch(c, p) ==
  /\ c \in Cxns
  /\ \E i \in Slots :
       /\ LastFree(i, blocked_cxns)
       /\ blocked_cxns' = [blocked_cxns EXCEPT ![i] = c]
  /\ barrier_timer_active' = TRUE
  /\ inforce' = inforce \cup {p}
  /\ UNCHANGED <<flowVars, ind_ovs_ports, child, sigchld>>

(* Mutant: the barrier timer is left to the port changes.                   *)
BlockWithoutTimer(c, p) ==
  /\ c \in Cxns \ Blocked
  /\ \E i \in Slots :
       /\ LastFree(i, blocked_cxns)
       /\ blocked_cxns' = [blocked_cxns EXCEPT ![i] = c]
  /\ inforce' = inforce \cup {p}
  /\ UNCHANGED <<barrier_timer_active, flowVars, ind_ovs_ports, child, sigchld>>

BlockInFreeSlot(c, p) ==
  /\ c \in Cxns \ Blocked
  /\ \E i \in Slots :
       /\ LastFree(i, blocked_cxns)
       /\ blocked_cxns' = [blocked_cxns EXCEPT ![i] = c]
  /\ barrier_timer_active' = TRUE
  /\ inforce' = inforce \cup {p}
  /\ UNCHANGED <<flowVars, ind_ovs_ports, child, sigchld>>

(* Mutant: a handler that defers before it changes its table.               *)
RevalidateTooEarly(c, p) ==
  /\ c \in Cxns \ Blocked
  /\ \A i \in Slots : blocked_cxns[i] # UNSPECIFIED
  /\ RevalidateCache(fwd)
  /\ \E i \in Slots :
       /\ LastFree(i, NoneBlocked)
       /\ blocked_cxns' = [NoneBlocked EXCEPT ![i] = c]
  /\ barrier_timer_active' = TRUE

RevalidateThenBlock(c, p) ==
  /\ c \in Cxns \ Blocked
  /\ \A i \in Slots : blocked_cxns[i] # UNSPECIFIED
  /\ RevalidateCache(p)
  /\ \E i \in Slots :
       /\ LastFree(i, NoneBlocked)
       /\ blocked_cxns' = [NoneBlocked EXCEPT ![i] = c]
  /\ barrier_timer_active' = TRUE

DeferRevalidation(c, p) ==
  \/ NoConnection(c, p)
  \/ AlreadyBlocked(c, p)
  \/ BlockInFreeSlot(c, p)
  \/ RevalidateThenBlock(c, p)

(* A flow-mod, group-mod or gentable operation of connection c, or of none  *)
(* (a flow that timed out, a packet trace client coming or going).          *)
TableChange(c, p) ==
  /\ ChangeForwarding(c, p)
  /\ DeferRevalidation(c, p)
  /\ UNCHANGED <<hitless, assign_idx, kflow_sock>>

(* barrier_received: nothing to do for a connection that is not blocked.    *)
BarrierReceived(c) ==
  /\ c \in Blocked
  /\ Revalidate

BarrierTimer ==
  /\ barrier_timer_active
  /\ Revalidate

-----------------------------------------------------------------------------
(* Ports.  The pipeline reads the ports, so a port change may change the    *)
(* forwarding state as well.                                                *)

(* Mutant: a new port does not schedule a revalidation.                     *)
PortAddedQuietly(q, p) ==
  /\ ind_ovs_ports[q] = NULL
  /\ ind_ovs_ports' = [ind_ovs_ports EXCEPT ![q] =
                         [num_kflows |-> 0, upcall_thread |-> assign_idx]]
  /\ assign_idx' = (assign_idx + 1) % NumThreads
  /\ ChangeForwarding(UNSPECIFIED, p)
  /\ inforce' = inforce \cup {p}
  /\ UNCHANGED <<hitless, flowVars, upcallVars, barrierVars>>

(* ind_ovs_port_added for a new port that the kernel configures.            *)
PortAdded(q, p) ==
  /\ ind_ovs_ports[q] = NULL
  /\ ind_ovs_ports' = [ind_ovs_ports EXCEPT ![q] =
                         [num_kflows |-> 0, upcall_thread |-> assign_idx]]
  /\ assign_idx' = (assign_idx + 1) % NumThreads
  /\ ChangeForwarding(UNSPECIFIED, p)
  /\ DeferRevalidationInternal(p)
  /\ UNCHANGED <<hitless, flowVars, upcallVars>>

(* ind_ovs_port_deleted frees the port and its socket but leaves the flows  *)
(* of the port alone.  The processes keep their copies of the socket.       *)
PortDeleted(q, p) ==
  /\ ind_ovs_ports[q] # NULL
  /\ ind_ovs_ports' = [ind_ovs_ports EXCEPT ![q] = NULL]
  /\ child' = [t \in Threads |->
                 IF child[t] # Zombie /\ q \in child[t].polls
                 THEN [fwd |-> child[t].fwd, polls |-> child[t].polls \ {q},
                       closed |-> child[t].closed \cup {q}]
                 ELSE child[t]]
  /\ ChangeForwarding(UNSPECIFIED, p)
  /\ DeferRevalidationInternal(p)
  /\ UNCHANGED <<hitless, assign_idx, flowVars, kflow_sock, sigchld>>

(* Mutant: a port change does not schedule a revalidation.                  *)
PortModifiedQuietly(q, p) ==
  /\ ind_ovs_ports[q] # NULL
  /\ ChangeForwarding(UNSPECIFIED, p)
  /\ inforce' = inforce \cup {p}
  /\ UNCHANGED <<hitless, ind_ovs_ports, assign_idx, flowVars, upcallVars,
                 barrierVars>>

(* indigo_port_modify and link_change_cb.                                   *)
PortModified(q, p) ==
  /\ ind_ovs_ports[q] # NULL
  /\ ChangeForwarding(UNSPECIFIED, p)
  /\ DeferRevalidationInternal(p)
  /\ UNCHANGED <<hitless, ind_ovs_ports, assign_idx, flowVars, upcallVars>>

-----------------------------------------------------------------------------
(* Startup, hitless restart and takeover.                                   *)

(* ind_ovs_kflow_flush: a refusal by the kernel is only logged.             *)
KflowFlush ==
  \/ /\ kernel' = [k \in Keys |-> NoFlow]
     /\ refused' = {}
  \/ /\ kernel' = kernel
     /\ refused' = {k \in Keys : kernel[k] # NoFlow}

(* ind_ovs_multicast_resync at startup adds the ports in order, and the     *)
(* threads are assigned round robin.                                        *)
BootPorts(S) ==
  [q \in Ports |->
     IF q \in S THEN [num_kflows |-> 0,
                      upcall_thread |-> Cardinality({r \in S : r < q}) % NumThreads]
     ELSE NULL]

BootChildren(p, S) == [t \in Threads |-> Forked(t, p, BootPorts(S))]

(* The main process has started with forwarding state p on a datapath that  *)
(* holds the ports S: ind_ovs_init up to ind_ovs_enable.  Adding ports has  *)
(* armed the barrier timer.                                                 *)
Init ==
  \E p \in Programs, S \in SUBSET Ports :
    /\ fwd = p
    /\ hitless \in BOOLEAN
    /\ ind_ovs_ports = BootPorts(S)
    /\ assign_idx = Cardinality(S) % NumThreads
    /\ kflows = [k \in Keys |-> NoFlow]
    /\ kernel = [k \in Keys |-> NoFlow]
    /\ refused = {}
    /\ kflow_sock = {}
    /\ child = BootChildren(p, S)
    /\ sigchld = FALSE
    /\ blocked_cxns = NoneBlocked
    /\ barrier_timer_active = (S # {})
    /\ inforce = {p}
    /\ window = [c \in Cxns |-> {p}]

(* Mutant: a hitless restart flushes the kernel flow table as well.         *)
RestartFlushes(h, p, S) ==
  /\ fwd' = p
  /\ hitless' = h
  /\ ind_ovs_ports' = BootPorts(S)
  /\ assign_idx' = Cardinality(S) % NumThreads
  /\ kflows' = [k \in Keys |-> NoFlow]
  /\ KflowFlush
  /\ kflow_sock' = {}
  /\ child' = BootChildren(p, S)
  /\ sigchld' = FALSE
  /\ blocked_cxns' = NoneBlocked
  /\ barrier_timer_active' = (S # {})
  /\ inforce' = {p}
  /\ window' = [c \in Cxns |-> {p}]

(* The main process is killed and started again, with or without --hitless. *)
(* Its processes die with it; the kernel keeps its flow table.              *)
Restart(h, p, S) ==
  /\ fwd' = p
  /\ hitless' = h
  /\ ind_ovs_ports' = BootPorts(S)
  /\ assign_idx' = Cardinality(S) % NumThreads
  /\ kflows' = [k \in Keys |-> NoFlow]
  /\ IF h THEN kernel' = kernel /\ refused' = {} ELSE KflowFlush
  /\ kflow_sock' = {}
  /\ child' = BootChildren(p, S)
  /\ sigchld' = FALSE
  /\ blocked_cxns' = NoneBlocked
  /\ barrier_timer_active' = (S # {})
  /\ inforce' = {p}
  /\ window' = [c \in Cxns |-> {p}]

(* handle_takeover.                                                         *)
Takeover ==
  /\ hitless
  /\ KflowFlush
  /\ hitless' = FALSE
  /\ UNCHANGED <<fwd, ind_ovs_ports, assign_idx, kflows, upcallVars,
                 barrierVars, inforce, window>>

-----------------------------------------------------------------------------
Next ==
  \/ \E k \in Keys : KflowSockReady(k) \/ KflowExpire(k)
  \/ \E t \in Threads, k \in Keys : PacketMiss(t, k)
  \/ \E t \in Threads : UpcallDies(t)
  \/ SignalfdSockReady
  \/ \E c \in Cxns \cup {UNSPECIFIED}, p \in Programs : TableChange(c, p)
  \/ \E c \in Cxns : BarrierReceived(c)
  \/ BarrierTimer
  \/ \E q \in Ports, p \in Programs :
       PortAdded(q, p) \/ PortDeleted(q, p) \/ PortModified(q, p)
  \/ \E h \in BOOLEAN, p \in Programs, S \in SUBSET Ports : Restart(h, p, S)
  \/ Takeover

Spec == Init /\ [][Next]_vars

(* The event loop runs an armed timer and a readable signalfd eventually.   *)
Fairness == WF_vars(BarrierTimer) /\ WF_vars(SignalfdSockReady)

FairSpec == Spec /\ Fairness

-----------------------------------------------------------------------------
(* Properties.                                                              *)

(* Every packet that a managed kernel flow or a live upcall process handles *)
(* is treated as some forwarding state in W prescribes.                     *)
CacheFollows(W) ==
  /\ \A k \in Managed : \A x \in kernel[k].mask :
       \E p \in W : p[x] # PipelineError /\ p[x].actions = kernel[k].actions
  /\ \A t \in Threads : child[t] # Zombie => child[t].fwd \in W

(* The barrier promise (revalidate, barrier_received, the full blocked_cxns *)
(* table): while nothing holds back the barrier reply of a connection, no   *)
(* managed kernel flow and no upcall process forwards by a forwarding state *)
(* older than the connection's last change.                                 *)
BarrierGuarantee == \A c \in Cxns \ Blocked : CacheFollows(window[c])

(* The inductive invariant behind it: cached forwarding stems from the      *)
(* forwarding states since the last revalidation (inforce), which a         *)
(* connection that is not blocked has all seen, and when the barrier timer  *)
(* is not armed there has been one such state.                              *)
CacheFrom(W) ==
  /\ \A k \in Managed : \E p \in W : kflows[k] = p[k]
  /\ \A t \in Threads : child[t] # Zombie => child[t].fwd \in W

(* Every port is polled by the process of its thread unless that is dead.   *)
PortsPolled ==
  \A q \in Present :
    LET t == ind_ovs_ports[q].upcall_thread
    IN  child[t] = Zombie \/ q \in child[t].polls

FreshInv ==
  /\ fwd \in inforce
  /\ \A c \in Cxns : fwd \in window[c]
  /\ CacheFrom(inforce)
  /\ \A c \in Cxns \ Blocked : inforce \subseteq window[c]
  /\ ~barrier_timer_active => inforce = {fwd} /\ Blocked = {} /\ PortsPolled

(* What packets get from the managed kernel flows and upcall processes.     *)
CachedTreatments ==
  {ka \in Keys \X Actions :
     \/ \E k \in Managed : ka[1] \in kernel[k].mask /\ kernel[k].actions = ka[2]
     \/ \E t \in Threads :
          /\ child[t] # Zombie
          /\ child[t].fwd[ka[1]] # PipelineError
          /\ child[t].fwd[ka[1]].actions = ka[2]}

Promise ==
  INSTANCE BarrierPromise
  WITH NoCxn <- UNSPECIFIED, since <- window, held <- Blocked,
       cache <- CachedTreatments

(* The flow cache implements the abstract promise to the controller: the    *)
(* barriers of revalidate() are released only by steps after which no       *)
(* packet is treated by an earlier forwarding state.                        *)
PromiseKept == Promise!Spec

(* If the barrier timer is not armed, no revalidation is owed: all cached   *)
(* forwarding is current, no barrier is held back, and every port is polled *)
(* by the process of its thread unless that process is dead.                *)
UnscheduledMeansCurrent ==
  ~barrier_timer_active =>
    /\ CacheFollows({fwd})
    /\ Blocked = {}
    /\ PortsPolled

(* The copy of a flow's actions and mask that ind_ovs_kflow_invalidate      *)
(* compares with is what the kernel has, so skipping an update is sound.    *)
CopyMatchesKernel == \A k \in Managed : kernel[k] = kflows[k]

(* Out of hitless mode, a kernel flow that the main process does not manage *)
(* is one whose deletion the kernel refused.                                *)
OrphansWereRefused ==
  ~hitless => {k \in Keys \ Managed : kernel[k] # NoFlow} \subseteq refused

(* When no revalidation is owed, no packet matches two managed kernel       *)
(* flows: the kernel's choice among flows can never matter (kflow_match in  *)
(* ind_ovs_kflow_add, the mask comparison in ind_ovs_kflow_invalidate).     *)
SettledFlowsDisjoint ==
  ~barrier_timer_active =>
    \A k, m \in Managed : k # m => kernel[k].mask \cap kernel[m].mask = {}

(* The assertion in ind_ovs_kflow_flush: in hitless mode the main process   *)
(* manages no flow.                                                         *)
HitlessManagesNothing == hitless => Managed = {}

(* Until the takeover message a hitless main process leaves the kernel flow *)
(* table alone (the comment on handle_takeover).                            *)
HitlessLeavesKernelAlone == [][hitless /\ hitless' => kernel' = kernel]_vars

(* A connection never holds two slots of blocked_cxns, so its barrier has   *)
(* one blocker and one unblock releases it.                                 *)
OneBlockerPerCxn ==
  \A i, j \in Slots :
    blocked_cxns[i] = blocked_cxns[j] /\ i # j => blocked_cxns[i] = UNSPECIFIED

(* A held-back barrier is released even if the controller sends no barrier  *)
(* (the barrier timer).                                                     *)
BarrierReleased == \A c \in Cxns : c \in Blocked ~> c \notin Blocked

(* A dead upcall process is replaced (SIGCHLD compression).                 *)
UpcallRespawned == \A t \in Threads : child[t] = Zombie ~> child[t] # Zombie

(* A new port's upcalls are polled eventually, unless it is deleted.        *)
PortPolled ==
  \A q \in Ports :
    q \in Present ~> (q \notin Present \/ \E t \in Threads :
                        child[t] # Zombie /\ q \in child[t].polls)

(* "Number of kflows with this in_port" (struct ind_ovs_port).              *)
NumKflowsExact ==
  \A q \in Present :
    ind_ovs_ports[q].num_kflows = Cardinality({k \in Managed : InPort[k] = q})
=============================================================================
