-------------------------- MODULE RevalidationProofs --------------------------
(* Proofs about Revalidation for every value of its constants.              *)
EXTENDS Revalidation, FiniteSetTheorems, TLAPS

-----------------------------------------------------------------------------
(* Typing of the operators the actions are built from.                      *)

LEMMA ModRange ==
  ASSUME NEW a \in Int, NEW b \in Nat \ {0}
  PROVE  a % b \in 0 .. b - 1
  OBVIOUS

LEMMA SubsetCardinality ==
  ASSUME NEW S, IsFiniteSet(S), NEW T \in SUBSET S
  PROVE  Cardinality(T) \in Nat
  BY FS_Subset, FS_CardinalityType

LEMMA ThreadIndex ==
  ASSUME NEW n \in Nat
  PROVE  n % NumThreads \in Threads
  BY ModRange, SizesAssumption DEF Threads

(* What a forwarding state prescribes for a key.                            *)
LEMMA ProgramVerdict ==
  ASSUME NEW p \in Programs, NEW k \in Keys, p[k] # PipelineError
  PROVE  p[k] \in Verdicts /\ p[k] # NoFlow
<1>1. p \in [Keys -> Verdicts \cup {PipelineError}]
  BY ProgramsAssumption
<1>2. p[k] \in Verdicts
  BY <1>1
<1> QED
  BY <1>2, SentinelsAssumption

(* The mask contract for one key.                                           *)
LEMMA MaskContract ==
  ASSUME NEW p \in Programs, NEW k \in Keys, p[k] # PipelineError
  PROVE  k \in p[k].mask /\ \A x \in p[k].mask : p[x] = p[k]
  BY ProgramsAssumption

(* The record of a port with one more flow.                                 *)
LEMMA CountedRecord ==
  ASSUME TypeOK, NEW q \in Ports, ind_ovs_ports[q] # NULL
  PROVE  LET r == WithKflows(q, (ind_ovs_ports[q].num_kflows + 1) % UINT_MOD)
         IN  r \in PortRecords /\ r.upcall_thread = ind_ovs_ports[q].upcall_thread
<1> DEFINE n == (ind_ovs_ports[q].num_kflows + 1) % UINT_MOD
<1>1. ind_ovs_ports[q] \in PortRecords
  BY DEF TypeOK
<1>2. ind_ovs_ports[q].num_kflows + 1 \in Int
  BY <1>1, SizesAssumption DEF PortRecords
<1>3. n \in 0 .. UINT_MOD - 1
  BY <1>2, ModRange, SizesAssumption
<1> HIDE DEF n
<1>4. WithKflows(q, n) \in PortRecords
      /\ WithKflows(q, n).upcall_thread = ind_ovs_ports[q].upcall_thread
  BY <1>1, <1>3 DEF WithKflows, PortRecords
<1> QED
  BY <1>4 DEF n

(* Counting deleted flows out keeps the ports and their threads.            *)
LEMMA UncountedKeeps ==
  ASSUME TypeOK, NEW deleted \in SUBSET Keys
  PROVE  /\ Uncounted(deleted) \in [Ports -> PortRecords \cup {NULL}]
         /\ \A q \in Ports :
              /\ Uncounted(deleted)[q] = NULL <=> ind_ovs_ports[q] = NULL
              /\ ind_ovs_ports[q] # NULL =>
                   Uncounted(deleted)[q].upcall_thread = ind_ovs_ports[q].upcall_thread
<1>1. ASSUME NEW q \in Ports, ind_ovs_ports[q] # NULL
      PROVE  /\ Uncounted(deleted)[q] \in PortRecords
             /\ Uncounted(deleted)[q].upcall_thread = ind_ovs_ports[q].upcall_thread
  <2> DEFINE n == Cardinality({k \in deleted : InPort[k] = q})
             m == (ind_ovs_ports[q].num_kflows - n) % UINT_MOD
  <2>1. n \in Nat
    BY SubsetCardinality, SizesAssumption
  <2>2. ind_ovs_ports[q] \in PortRecords
    BY <1>1 DEF TypeOK
  <2>3. ind_ovs_ports[q].num_kflows - n \in Int
    BY <2>1, <2>2, SizesAssumption DEF PortRecords
  <2>4. m \in 0 .. UINT_MOD - 1
    BY <2>3, ModRange, SizesAssumption
  <2>5. Uncounted(deleted)[q] = WithKflows(q, m)
    BY <1>1 DEF Uncounted
  <2> HIDE DEF m
  <2> QED
    BY <2>2, <2>4, <2>5 DEF PortRecords, WithKflows
<1> QED
  BY <1>1, SentinelsAssumption DEF Uncounted

(* What a forked process is.                                                *)
LEMMA ForkedType ==
  ASSUME NEW t \in Threads, NEW p \in Programs, NEW ports
  PROVE  /\ Forked(t, p, ports) \in Processes
         /\ Forked(t, p, ports).fwd = p
         /\ \A q \in Ports : ports[q] # NULL /\ ports[q].upcall_thread = t =>
              q \in Forked(t, p, ports).polls
  BY DEF Forked, Processes

(* The port table after startup, and the next thread to assign.             *)
LEMMA BootType ==
  ASSUME NEW p \in Programs, NEW S \in SUBSET Ports
  PROVE  /\ BootPorts(S) \in [Ports -> PortRecords \cup {NULL}]
         /\ Cardinality(S) % NumThreads \in Threads
         /\ BootChildren(p, S) \in [Threads -> Processes \cup {Zombie}]
<1>1. ASSUME NEW T \in SUBSET Ports PROVE Cardinality(T) % NumThreads \in Threads
  BY SubsetCardinality, ThreadIndex, SizesAssumption
<1>2. ASSUME NEW q \in Ports
      PROVE  Cardinality({r \in S : r < q}) % NumThreads \in Threads
  BY <1>1
<1>3. BootPorts(S) \in [Ports -> PortRecords \cup {NULL}]
  BY <1>2, SizesAssumption DEF BootPorts, PortRecords
<1> QED
  BY <1>1, <1>3, ForkedType DEF BootChildren

(* What ind_ovs_kflow_invalidate_all leaves behind: every surviving flow    *)
(* is what forwarding state p prescribes, has the mask it had before, and   *)
(* is in the kernel; every other flow is gone or its deletion was refused.  *)
LEMMA InvalidateAllResult ==
  ASSUME TypeOK, CopyMatchesKernel, HitlessManagesNothing,
         NEW p \in Programs, InvalidateAll(p)
  PROVE  /\ kflows' \in [Keys -> Verdicts \cup {NoFlow}]
         /\ kernel' \in [Keys -> Verdicts \cup {NoFlow}]
         /\ refused' \in SUBSET Keys
         /\ ind_ovs_ports' \in [Ports -> PortRecords \cup {NULL}]
         /\ \A k \in Keys : kflows'[k] # NoFlow =>
              /\ kflows'[k] = p[k]
              /\ kernel'[k] = p[k]
              /\ kflows[k] # NoFlow
              /\ kflows[k].mask = p[k].mask
         /\ \A k \in Keys : kflows'[k] = NoFlow =>
              kernel'[k] = NoFlow \/ k \in refused'
                \/ (kflows[k] = NoFlow /\ kernel'[k] = kernel[k])
         /\ refused \subseteq refused'
         /\ \A q \in Ports :
              /\ ind_ovs_ports'[q] = NULL <=> ind_ovs_ports[q] = NULL
              /\ ind_ovs_ports[q] # NULL =>
                   ind_ovs_ports'[q].upcall_thread = ind_ovs_ports[q].upcall_thread
         /\ hitless => kernel' = kernel
<1>1. CASE hitless
  BY <1>1 DEF InvalidateAll, TypeOK, flowVars, HitlessManagesNothing, Managed
<1>2. CASE ~hitless
  <2>1. PICK setFails \in SUBSET ToUpdate(p) :
          \E delFails \in SUBSET (ToDelete(p) \cup setFails) :
            InvalidateEach(p, ToUpdate(p) \ setFails, ToDelete(p) \cup setFails, delFails)
    BY <1>2 DEF InvalidateAll
  <2> DEFINE deleted == ToDelete(p) \cup setFails
             updated == ToUpdate(p) \ setFails
  <2>2. PICK delFails \in SUBSET deleted : InvalidateEach(p, updated, deleted, delFails)
    BY <2>1
  <2>3. deleted \in SUBSET Keys /\ updated \in SUBSET Keys
    BY DEF Managed, ToDelete, ToUpdate
  <2>4. \A k \in updated : p[k] \in Verdicts /\ k \notin deleted
    BY ProgramsAssumption DEF ToUpdate, ToDelete, Invalid, Managed
  <2>5. deleted \in SUBSET Managed
    BY DEF ToDelete, ToUpdate
  <2>6. \A k \in Managed \ deleted :
          /\ kflows[k].mask = p[k].mask
          /\ k \notin updated => kflows[k] = p[k]
    <3> SUFFICES ASSUME NEW k \in Managed, k \notin deleted
                 PROVE  /\ kflows[k].mask = p[k].mask
                        /\ k \notin updated => kflows[k] = p[k]
      OBVIOUS
    <3>1. ~Invalid(p, k)
      BY DEF ToDelete
    <3>2. p[k] \in Verdicts /\ kflows[k] \in Verdicts
      BY <3>1, ProgramsAssumption DEF Invalid, TypeOK, Managed
    <3>3. k \notin updated => p[k].actions = kflows[k].actions
      BY <3>1 DEF ToUpdate
    <3> QED
      BY <3>1, <3>2, <3>3 DEF Invalid, Verdicts
  <2> HIDE DEF deleted, updated
  <2>7. /\ kflows' \in [Keys -> Verdicts \cup {NoFlow}]
        /\ kernel' \in [Keys -> Verdicts \cup {NoFlow}]
        /\ refused' \in SUBSET Keys
        /\ refused \subseteq refused'
    BY <2>2, <2>3, <2>4 DEF TypeOK, KernelAfterDelete, InvalidateEach
  <2>8. /\ ind_ovs_ports' \in [Ports -> PortRecords \cup {NULL}]
        /\ \A q \in Ports :
             /\ ind_ovs_ports'[q] = NULL <=> ind_ovs_ports[q] = NULL
             /\ ind_ovs_ports[q] # NULL =>
                  ind_ovs_ports'[q].upcall_thread = ind_ovs_ports[q].upcall_thread
    BY <2>2, <2>3, UncountedKeeps DEF InvalidateEach
  <2>9. ASSUME NEW k \in Keys, kflows'[k] # NoFlow
        PROVE  /\ kflows'[k] = p[k]
               /\ kernel'[k] = p[k]
               /\ kflows[k] # NoFlow
               /\ kflows[k].mask = p[k].mask
    <3>1. k \notin deleted
      BY <2>2, <2>9 DEF InvalidateEach
    <3>2. CASE k \in updated
      BY <2>2, <2>4, <2>6, <3>1, <3>2, <2>9 DEF InvalidateEach, updated, ToUpdate, Managed
    <3>3. CASE k \notin updated
      BY <2>2, <2>6, <2>9, <3>1, <3>3
         DEF InvalidateEach, KernelAfterDelete, CopyMatchesKernel, Managed
    <3> QED
      BY <3>2, <3>3
  <2>10. ASSUME NEW k \in Keys, kflows'[k] = NoFlow
         PROVE  kernel'[k] = NoFlow \/ k \in refused'
                  \/ (kflows[k] = NoFlow /\ kernel'[k] = kernel[k])
    <3>1. k \notin updated
      BY <2>2, <2>4, <2>10, SentinelsAssumption DEF InvalidateEach
    <3> QED
      BY <3>1, <2>2, <2>10 DEF InvalidateEach, KernelAfterDelete
  <2> QED
    BY <1>2, <2>7, <2>8, <2>9, <2>10
<1> QED
  BY <1>1, <1>2

-----------------------------------------------------------------------------
(* Typing, the copy of the kernel's flows, and hitless mode.                *)

BaseInv == TypeOK /\ CopyMatchesKernel /\ HitlessManagesNothing

LEMMA BaseInit == Init => BaseInv
<1> SUFFICES ASSUME Init PROVE BaseInv
  OBVIOUS
<1>1. PICK p \in Programs, S \in SUBSET Ports :
        /\ fwd = p
        /\ ind_ovs_ports = BootPorts(S)
        /\ assign_idx = Cardinality(S) % NumThreads
        /\ child = BootChildren(p, S)
        /\ barrier_timer_active = (S # {})
        /\ inforce = {p}
        /\ window = [c \in Cxns |-> {p}]
  BY DEF Init
<1>2. /\ hitless \in BOOLEAN /\ kflows = [k \in Keys |-> NoFlow]
      /\ kernel = [k \in Keys |-> NoFlow] /\ refused = {} /\ kflow_sock = {}
      /\ sigchld = FALSE /\ blocked_cxns = NoneBlocked
  BY DEF Init
<1>3. TypeOK
  BY <1>1, <1>2, BootType DEF TypeOK, NoneBlocked
<1> QED
  BY <1>2, <1>3 DEF BaseInv, CopyMatchesKernel, HitlessManagesNothing, Managed

(* A revalidation under p, without the barrier tables.                      *)
LEMMA BaseRevalidate ==
  ASSUME BaseInv, NEW p \in Programs, RevalidateCache(p), hitless' = hitless
  PROVE  /\ kflows' \in [Keys -> Verdicts \cup {NoFlow}]
         /\ kernel' \in [Keys -> Verdicts \cup {NoFlow}]
         /\ refused' \in SUBSET Keys
         /\ ind_ovs_ports' \in [Ports -> PortRecords \cup {NULL}]
         /\ child' \in [Threads -> Processes \cup {Zombie}]
         /\ sigchld' \in BOOLEAN
         /\ inforce' \in SUBSET Programs
         /\ CopyMatchesKernel'
         /\ HitlessManagesNothing'
<1>1. InvalidateAll(p) /\ Respawn(p) /\ inforce' = {p}
  BY DEF RevalidateCache
<1>2. child' \in [Threads -> Processes \cup {Zombie}] /\ sigchld' \in BOOLEAN
  BY <1>1, ForkedType DEF Respawn
<1>3. CopyMatchesKernel' /\ HitlessManagesNothing'
  BY <1>1, InvalidateAllResult
     DEF BaseInv, CopyMatchesKernel, HitlessManagesNothing, Managed
<1> QED
  BY <1>1, <1>2, <1>3, InvalidateAllResult DEF BaseInv

LEMMA BaseNext == BaseInv /\ [Next]_vars => BaseInv'
<1> SUFFICES ASSUME BaseInv, [Next]_vars PROVE BaseInv'
  OBVIOUS
<1> USE DEF BaseInv
<1>1. ASSUME NEW k \in Keys, KflowSockReady(k) PROVE BaseInv'
  <2>1. CASE UNCHANGED <<flowVars, ind_ovs_ports>>
    BY <1>1, <2>1 DEF KflowSockReady, TypeOK, flowVars, barrierVars,
         CopyMatchesKernel, HitlessManagesNothing, Managed
  <2>2. CASE KflowInstall(k)
    <3>1. InPort[k] \in Ports /\ ind_ovs_ports[InPort[k]] # NULL
      BY <2>2, SizesAssumption DEF KflowInstall
    <3>2. ind_ovs_ports' \in [Ports -> PortRecords \cup {NULL}]
      BY <2>2, <3>1, CountedRecord DEF KflowInstall, TypeOK
    <3>3. fwd[k] \in Verdicts
      <4>1. fwd \in Programs /\ fwd[k] # PipelineError
        BY <2>2 DEF KflowInstall, TypeOK
      <4> QED
        BY <4>1, ProgramVerdict
    <3>4. TypeOK'
      BY <1>1, <2>2, <3>2, <3>3 DEF KflowSockReady, KflowInstall, TypeOK, barrierVars
    <3>5. CopyMatchesKernel' /\ HitlessManagesNothing'
      BY <1>1, <2>2 DEF KflowSockReady, KflowInstall, TypeOK, CopyMatchesKernel,
           HitlessManagesNothing, Managed
    <3> QED
      BY <3>4, <3>5
  <2> QED
    BY <1>1, <2>1, <2>2 DEF KflowSockReady
<1>2. ASSUME NEW k \in Keys, KflowExpire(k) PROVE BaseInv'
  <2>1. PICK delFails \in SUBSET {k} : DeleteKflows({k}, delFails)
    BY <1>2 DEF KflowExpire
  <2>2. ind_ovs_ports' \in [Ports -> PortRecords \cup {NULL}]
    BY <2>1, UncountedKeeps DEF DeleteKflows
  <2>3. /\ kflows' \in [Keys -> Verdicts \cup {NoFlow}]
        /\ kernel' \in [Keys -> Verdicts \cup {NoFlow}]
        /\ refused' \in SUBSET Keys
    BY <2>1 DEF DeleteKflows, KernelAfterDelete, TypeOK
  <2>4. TypeOK'
    BY <1>2, <2>2, <2>3 DEF KflowExpire, TypeOK, upcallVars, barrierVars
  <2> QED
    BY <1>2, <2>1, <2>4 DEF KflowExpire, DeleteKflows, KernelAfterDelete, TypeOK,
         CopyMatchesKernel, HitlessManagesNothing, Managed
<1>3. ASSUME NEW t \in Threads, NEW k \in Keys, PacketMiss(t, k) PROVE BaseInv'
  BY <1>3 DEF PacketMiss, TypeOK, mainVars, flowVars, barrierVars,
       CopyMatchesKernel, HitlessManagesNothing, Managed
<1>4. ASSUME NEW t \in Threads, UpcallDies(t) PROVE BaseInv'
  BY <1>4 DEF UpcallDies, TypeOK, mainVars, flowVars, barrierVars,
       CopyMatchesKernel, HitlessManagesNothing, Managed
<1>5. CASE SignalfdSockReady
  <2>1. child' \in [Threads -> Processes \cup {Zombie}]
    BY <1>5, ForkedType DEF SignalfdSockReady, TypeOK
  <2> QED
    BY <1>5, <2>1 DEF SignalfdSockReady, TypeOK, mainVars, flowVars, barrierVars,
         CopyMatchesKernel, HitlessManagesNothing, Managed
<1>6. ASSUME NEW c \in Cxns \cup {UNSPECIFIED}, NEW p \in Programs, TableChange(c, p)
      PROVE  BaseInv'
  <2>1. /\ fwd' \in Programs /\ window' \in [Cxns -> SUBSET Programs]
        /\ UNCHANGED <<hitless, assign_idx, kflow_sock>>
    BY <1>6 DEF TableChange, ChangeForwarding, TypeOK
  <2>2. CASE NoConnection(c, p) \/ AlreadyBlocked(c, p) \/ BlockInFreeSlot(c, p)
    <3>1. /\ UNCHANGED <<flowVars, ind_ovs_ports, child, sigchld>>
          /\ inforce' = inforce \cup {p}
      BY <2>2 DEF NoConnection, AlreadyBlocked, BlockInFreeSlot, DeferRevalidationInternal
    <3>2. /\ blocked_cxns' \in [Slots -> Cxns \cup {UNSPECIFIED}]
          /\ barrier_timer_active' \in BOOLEAN
      BY <2>2 DEF NoConnection, AlreadyBlocked, BlockInFreeSlot,
           DeferRevalidationInternal, TypeOK, barrierVars
    <3> QED
      BY <2>1, <3>1, <3>2 DEF TypeOK, flowVars, CopyMatchesKernel,
           HitlessManagesNothing, Managed
  <2>3. CASE RevalidateThenBlock(c, p)
    <3>1. RevalidateCache(p) /\ barrier_timer_active' = TRUE
      BY <2>3 DEF RevalidateThenBlock
    <3>2. blocked_cxns' \in [Slots -> Cxns \cup {UNSPECIFIED}]
      BY <2>3 DEF RevalidateThenBlock, NoneBlocked
    <3> QED
      BY <2>1, <3>1, <3>2, BaseRevalidate DEF TypeOK
  <2> QED
    BY <1>6, <2>2, <2>3 DEF TableChange, DeferRevalidation
<1>7. CASE Revalidate
  <2>1. RevalidateCache(fwd) /\ hitless' = hitless /\ fwd \in Programs
    BY <1>7 DEF Revalidate, TypeOK
  <2> QED
    BY <1>7, <2>1, BaseRevalidate DEF Revalidate, NoneBlocked, TypeOK
<1>8. ASSUME NEW q \in Ports, NEW p \in Programs, PortAdded(q, p) PROVE BaseInv'
  <2>1. assign_idx \in Nat
    BY SizesAssumption DEF TypeOK, Threads
  <2>2. (assign_idx + 1) % NumThreads \in Threads
    BY <2>1, ThreadIndex
  <2>3. [num_kflows |-> 0, upcall_thread |-> assign_idx] \in PortRecords
    BY SizesAssumption DEF TypeOK, PortRecords
  <2> QED
    BY <1>8, <2>2, <2>3 DEF PortAdded, ChangeForwarding, DeferRevalidationInternal,
         TypeOK, flowVars, upcallVars, CopyMatchesKernel, HitlessManagesNothing, Managed
<1>9. ASSUME NEW q \in Ports, NEW p \in Programs, PortDeleted(q, p) PROVE BaseInv'
  <2>1. child' \in [Threads -> Processes \cup {Zombie}]
    BY <1>9 DEF PortDeleted, TypeOK, Processes
  <2> QED
    BY <1>9, <2>1 DEF PortDeleted, ChangeForwarding, DeferRevalidationInternal,
         TypeOK, flowVars, CopyMatchesKernel, HitlessManagesNothing, Managed
<1>10. ASSUME NEW q \in Ports, NEW p \in Programs, PortModified(q, p) PROVE BaseInv'
  BY <1>10 DEF PortModified, ChangeForwarding, DeferRevalidationInternal,
       TypeOK, flowVars, upcallVars, CopyMatchesKernel, HitlessManagesNothing, Managed
<1>11. ASSUME NEW h \in BOOLEAN, NEW p \in Programs, NEW S \in SUBSET Ports,
              Restart(h, p, S)
       PROVE  BaseInv'
  <2>1. kernel' \in [Keys -> Verdicts \cup {NoFlow}] /\ refused' \in SUBSET Keys
    BY <1>11 DEF Restart, KflowFlush, TypeOK
  <2> QED
    BY <1>11, <2>1, BootType DEF Restart, TypeOK, NoneBlocked, CopyMatchesKernel,
         HitlessManagesNothing, Managed
<1>12. CASE Takeover
  BY <1>12 DEF Takeover, KflowFlush, TypeOK, upcallVars, barrierVars,
       CopyMatchesKernel, HitlessManagesNothing, Managed
<1>13. CASE UNCHANGED vars
  BY <1>13 DEF vars, mainVars, flowVars, upcallVars, barrierVars, TypeOK,
       CopyMatchesKernel, HitlessManagesNothing, Managed
<1> QED
  BY <1>1, <1>2, <1>3, <1>4, <1>5, <1>6, <1>7, <1>8, <1>9, <1>10, <1>11, <1>12, <1>13
     DEF Next, BarrierReceived, BarrierTimer

LEMMA BaseInvariant == Spec => []BaseInv
  BY BaseInit, BaseNext, PTL DEF Spec

(* The variables keep their types in every execution, num_kflows wrapping   *)
(* modulo UINT_MOD included.                                                *)
THEOREM TypeCorrect == Spec => []TypeOK
  BY BaseInvariant, PTL DEF BaseInv

(* The main process's copy of a flow is what the kernel has, so that        *)
(* ind_ovs_kflow_invalidate may skip an update when its copy is right.      *)
THEOREM CopyCorrect == Spec => []CopyMatchesKernel
  BY BaseInvariant, PTL DEF BaseInv

(* The assertion of ind_ovs_kflow_flush never fails.                        *)
THEOREM HitlessCorrect == Spec => []HitlessManagesNothing
  BY BaseInvariant, PTL DEF BaseInv

-----------------------------------------------------------------------------
(* Where cached forwarding comes from.                                      *)

LEMMA BootPolled ==
  ASSUME NEW p \in Programs, NEW S \in SUBSET Ports,
         ind_ovs_ports = BootPorts(S), child = BootChildren(p, S)
  PROVE  PortsPolled
<1> SUFFICES ASSUME NEW q \in Present
             PROVE  q \in child[ind_ovs_ports[q].upcall_thread].polls
  BY DEF PortsPolled
<1>1. q \in Ports /\ ind_ovs_ports[q] # NULL
  BY DEF Present
<1>2. ind_ovs_ports[q].upcall_thread \in Threads
  BY <1>1, BootType DEF PortRecords
<1> QED
  BY <1>1, <1>2 DEF BootChildren, Forked

LEMMA FreshInit == Init => FreshInv
<1> SUFFICES ASSUME Init PROVE FreshInv
  OBVIOUS
<1>1. PICK p \in Programs, S \in SUBSET Ports :
        /\ fwd = p
        /\ ind_ovs_ports = BootPorts(S)
        /\ child = BootChildren(p, S)
        /\ inforce = {p}
        /\ window = [c \in Cxns |-> {p}]
  BY DEF Init
<1>2. kflows = [k \in Keys |-> NoFlow] /\ blocked_cxns = NoneBlocked
  BY DEF Init
<1>3. PortsPolled
  BY <1>1, BootPolled
<1>4. CacheFrom(inforce)
  BY <1>1, <1>2 DEF CacheFrom, Managed, BootChildren, Forked
<1>5. Blocked = {}
  BY <1>2 DEF Blocked, NoneBlocked
<1> QED
  BY <1>1, <1>3, <1>4, <1>5 DEF FreshInv

(* After a revalidation under p, everything cached stems from p and every   *)
(* port is polled.                                                          *)
LEMMA RevalidateCacheFresh ==
  ASSUME BaseInv, NEW p \in Programs, RevalidateCache(p)
  PROVE  CacheFrom({p})' /\ PortsPolled' /\ inforce' = {p}
<1>1. InvalidateAll(p) /\ Respawn(p) /\ inforce' = {p}
  BY DEF RevalidateCache
<1>2. \A k \in Keys : kflows'[k] # NoFlow => kflows'[k] = p[k]
  BY <1>1, InvalidateAllResult DEF BaseInv
<1>3. \A t \in Threads :
        /\ child'[t].fwd = p
        /\ \A q \in Ports :
             ind_ovs_ports'[q] # NULL /\ ind_ovs_ports'[q].upcall_thread = t =>
               q \in child'[t].polls
  BY <1>1, ForkedType DEF Respawn
<1>4. ASSUME NEW q \in Ports, ind_ovs_ports'[q] # NULL
      PROVE  q \in child'[ind_ovs_ports'[q].upcall_thread].polls
  <2>1. ind_ovs_ports'[q].upcall_thread \in Threads
    BY <1>1, <1>4, InvalidateAllResult DEF BaseInv, PortRecords
  <2> QED
    BY <2>1, <1>3, <1>4
<1>5. CacheFrom({p})'
  BY <1>2, <1>3 DEF CacheFrom, Managed
<1>6. PortsPolled'
  BY <1>4 DEF PortsPolled, Present
<1> QED
  BY <1>1, <1>5, <1>6

(* Blocking c in a free slot of a table blocks c and no one else.           *)
LEMMA BlockedAfter ==
  ASSUME NEW c \in Cxns, NEW table \in [Slots -> Cxns \cup {UNSPECIFIED}],
         NEW i \in Slots, LastFree(i, table)
  PROVE  {[table EXCEPT ![i] = c][j] : j \in Slots} \ {UNSPECIFIED} =
           ({table[j] : j \in Slots} \ {UNSPECIFIED}) \cup {c}
<1>1. c # UNSPECIFIED /\ table[i] = UNSPECIFIED
  BY SentinelsAssumption DEF LastFree
<1> QED
  BY <1>1

(* A change of the forwarding state to p that only schedules a revalidation.*)
LEMMA DeferFresh ==
  ASSUME BaseInv, FreshInv, NEW c, NEW p \in Programs,
         ChangeForwarding(c, p), inforce' = inforce \cup {p},
         kflows' = kflows, barrier_timer_active' = TRUE,
         Blocked' = Blocked \cup ({c} \cap Cxns),
         \A t \in Threads : child'[t] # Zombie =>
           child[t] # Zombie /\ child'[t].fwd = child[t].fwd
  PROVE  FreshInv'
<1>1. fwd' \in inforce'
  BY DEF ChangeForwarding
<1>2. CacheFrom(inforce)'
  BY DEF FreshInv, CacheFrom, Managed
<1>3. \A d \in Cxns \ Blocked' : inforce' \subseteq window'[d]
  BY DEF FreshInv, ChangeForwarding
<1>4. \A d \in Cxns : fwd' \in window'[d]
  BY DEF ChangeForwarding
<1> QED
  BY <1>1, <1>2, <1>3, <1>4 DEF FreshInv

LEMMA FreshNext == BaseInv /\ FreshInv /\ [Next]_vars => FreshInv'
<1> SUFFICES ASSUME BaseInv, FreshInv, [Next]_vars PROVE FreshInv'
  OBVIOUS
<1>1. ASSUME NEW k \in Keys, KflowSockReady(k) PROVE FreshInv'
  <2>1. UNCHANGED <<fwd, inforce, window, child, blocked_cxns, barrier_timer_active>>
    BY <1>1 DEF KflowSockReady, barrierVars
  <2>2. \A m \in Keys : kflows'[m] = kflows[m] \/ kflows'[m] = fwd[m]
    <3>1. CASE UNCHANGED kflows
      BY <3>1
    <3>2. CASE KflowInstall(k)
      <4>1. kflows \in [Keys -> Verdicts \cup {NoFlow}]
        BY DEF BaseInv, TypeOK
      <4>2. kflows' = [kflows EXCEPT ![k] = fwd[k]]
        BY <3>2 DEF KflowInstall
      <4> QED
        BY <4>1, <4>2
    <3> QED
      BY <1>1, <3>1, <3>2 DEF KflowSockReady, flowVars
  <2>3. CacheFrom(inforce)'
    BY <2>1, <2>2 DEF FreshInv, CacheFrom, Managed
  <2>4. \A q \in Ports :
          /\ ind_ovs_ports'[q] = NULL <=> ind_ovs_ports[q] = NULL
          /\ ind_ovs_ports[q] # NULL =>
               ind_ovs_ports'[q].upcall_thread = ind_ovs_ports[q].upcall_thread
    <3>1. CASE UNCHANGED ind_ovs_ports
      BY <3>1
    <3>2. CASE KflowInstall(k)
      <4>1. InPort[k] \in Ports /\ ind_ovs_ports[InPort[k]] # NULL
        BY <3>2, SizesAssumption DEF KflowInstall
      <4> QED
        BY <3>2, <4>1, CountedRecord, SentinelsAssumption DEF KflowInstall, BaseInv, TypeOK
    <3> QED
      BY <1>1, <3>1, <3>2 DEF KflowSockReady
  <2>5. PortsPolled => PortsPolled'
    BY <2>1, <2>4 DEF PortsPolled, Present
  <2> QED
    BY <2>1, <2>3, <2>5 DEF FreshInv, Blocked
<1>2. ASSUME NEW k \in Keys, KflowExpire(k) PROVE FreshInv'
  <2>1. PICK delFails \in SUBSET {k} : DeleteKflows({k}, delFails)
    BY <1>2 DEF KflowExpire
  <2>2. UNCHANGED <<fwd, inforce, window, child, blocked_cxns, barrier_timer_active>>
    BY <1>2 DEF KflowExpire, upcallVars, barrierVars
  <2>3. CacheFrom(inforce)'
    BY <2>1, <2>2 DEF FreshInv, CacheFrom, Managed, DeleteKflows
  <2>4. PortsPolled => PortsPolled'
    <3>1. ind_ovs_ports' = Uncounted({k})
      BY <2>1 DEF DeleteKflows
    <3>2. \A q \in Ports :
            /\ ind_ovs_ports'[q] = NULL <=> ind_ovs_ports[q] = NULL
            /\ ind_ovs_ports[q] # NULL =>
                 ind_ovs_ports'[q].upcall_thread = ind_ovs_ports[q].upcall_thread
      BY <3>1, UncountedKeeps DEF BaseInv
    <3> QED
      BY <2>2, <3>2 DEF PortsPolled, Present
  <2> QED
    BY <2>2, <2>3, <2>4 DEF FreshInv, Blocked
<1>3. ASSUME NEW t \in Threads, NEW k \in Keys, PacketMiss(t, k) PROVE FreshInv'
  BY <1>3 DEF PacketMiss, mainVars, flowVars, barrierVars, FreshInv, CacheFrom,
       Managed, Blocked, PortsPolled, Present
<1>4. ASSUME NEW t \in Threads, UpcallDies(t) PROVE FreshInv'
  <2>1. /\ UNCHANGED <<fwd, inforce, window, kflows, ind_ovs_ports, blocked_cxns,
                       barrier_timer_active>>
        /\ \A u \in Threads : child'[u] = child[u] \/ child'[u] = Zombie
    BY <1>4 DEF UpcallDies, mainVars, flowVars, barrierVars, BaseInv, TypeOK
  <2>2. CacheFrom(inforce)'
    BY <2>1 DEF FreshInv, CacheFrom, Managed
  <2>3. PortsPolled => PortsPolled'
    BY <2>1 DEF PortsPolled, Present, BaseInv, TypeOK, PortRecords
  <2> QED
    BY <2>1, <2>2, <2>3 DEF FreshInv, Blocked
<1>5. CASE SignalfdSockReady
  <2>1. UNCHANGED <<fwd, inforce, window, kflows, ind_ovs_ports, blocked_cxns,
                    barrier_timer_active>>
    BY <1>5 DEF SignalfdSockReady, mainVars, flowVars, barrierVars
  <2>2. \A t \in Threads :
          child'[t] = IF child[t] = Zombie THEN Forked(t, fwd, ind_ovs_ports) ELSE child[t]
    BY <1>5 DEF SignalfdSockReady
  <2>3. fwd \in Programs
    BY DEF BaseInv, TypeOK
  <2>4. CacheFrom(inforce)'
    <3>1. \A t \in Threads : child'[t] # Zombie => child'[t].fwd \in inforce
      <4> SUFFICES ASSUME NEW t \in Threads, child'[t] # Zombie
                   PROVE  child'[t].fwd \in inforce
        OBVIOUS
      <4>1. CASE child[t] = Zombie
        <5>1. child'[t].fwd = fwd
          <6>1. child'[t] = Forked(t, fwd, ind_ovs_ports)
            BY <2>2, <4>1
          <6>2. Forked(t, fwd, ind_ovs_ports).fwd = fwd
            BY <2>3, ForkedType
          <6> QED
            BY <6>1, <6>2
        <5> QED
          BY <5>1 DEF FreshInv
      <4>2. CASE child[t] # Zombie
        BY <2>2, <4>2 DEF FreshInv, CacheFrom
      <4> QED
        BY <4>1, <4>2
    <3> QED
      BY <2>1, <3>1 DEF FreshInv, CacheFrom, Managed
  <2>5. PortsPolled => PortsPolled'
    <3> SUFFICES ASSUME PortsPolled, NEW q \in Ports, ind_ovs_ports[q] # NULL
                 PROVE  q \in child'[ind_ovs_ports[q].upcall_thread].polls
      BY <2>1 DEF PortsPolled, Present
    <3>1. ind_ovs_ports[q].upcall_thread \in Threads
      BY DEF BaseInv, TypeOK, PortRecords
    <3> DEFINE t == ind_ovs_ports[q].upcall_thread
    <3>2. CASE child[t] = Zombie
      BY <2>2, <2>3, <3>1, <3>2, ForkedType
    <3>3. CASE child[t] # Zombie
      BY <2>2, <3>1, <3>3 DEF PortsPolled, Present
    <3> QED
      BY <3>2, <3>3
  <2> QED
    BY <2>1, <2>4, <2>5 DEF FreshInv, Blocked
<1>6. ASSUME NEW c \in Cxns \cup {UNSPECIFIED}, NEW p \in Programs, TableChange(c, p)
      PROVE  FreshInv'
  <2>1. ChangeForwarding(c, p) /\ hitless' = hitless
    BY <1>6 DEF TableChange
  <2>2. CASE NoConnection(c, p)
    <3>1. Blocked' = Blocked \cup ({c} \cap Cxns)
      BY <2>2, SentinelsAssumption DEF NoConnection, DeferRevalidationInternal, Blocked
    <3> QED
      BY <2>1, <2>2, <3>1, DeferFresh DEF NoConnection, DeferRevalidationInternal, flowVars
  <2>3. CASE AlreadyBlocked(c, p)
    <3>1. c \in Blocked /\ Blocked' = Blocked /\ c \in Cxns
      BY <2>3 DEF AlreadyBlocked, Blocked, barrierVars
    <3>2. barrier_timer_active' = TRUE
      BY <2>3, <3>1 DEF AlreadyBlocked, barrierVars, FreshInv, BaseInv, TypeOK
    <3> QED
      BY <2>1, <2>3, <3>1, <3>2, DeferFresh DEF AlreadyBlocked, flowVars
  <2>4. CASE BlockInFreeSlot(c, p)
    <3>1. c \in Cxns /\ blocked_cxns \in [Slots -> Cxns \cup {UNSPECIFIED}]
      BY <2>4 DEF BlockInFreeSlot, BaseInv, TypeOK
    <3>2. PICK i \in Slots : /\ LastFree(i, blocked_cxns)
                             /\ blocked_cxns' = [blocked_cxns EXCEPT ![i] = c]
      BY <2>4 DEF BlockInFreeSlot
    <3>3. Blocked' = Blocked \cup {c}
      BY <3>1, <3>2, BlockedAfter DEF Blocked
    <3> QED
      BY <2>1, <2>4, <3>1, <3>3, DeferFresh DEF BlockInFreeSlot, flowVars
  <2>5. CASE RevalidateThenBlock(c, p)
    <3>1. CacheFrom({p})' /\ inforce' = {p} /\ barrier_timer_active' = TRUE
      BY <2>5, RevalidateCacheFresh DEF RevalidateThenBlock
    <3>2. c \in Cxns /\ NoneBlocked \in [Slots -> Cxns \cup {UNSPECIFIED}]
      BY <2>5 DEF RevalidateThenBlock, NoneBlocked
    <3>3. Blocked' = {c}
      <4>1. {NoneBlocked[j] : j \in Slots} \ {UNSPECIFIED} = {}
        BY DEF NoneBlocked
      <4>2. PICK i \in Slots : /\ LastFree(i, NoneBlocked)
                               /\ blocked_cxns' = [NoneBlocked EXCEPT ![i] = c]
        BY <2>5 DEF RevalidateThenBlock
      <4> QED
        BY <3>2, <4>1, <4>2, BlockedAfter DEF Blocked
    <3>4. \A d \in Cxns \ Blocked' : inforce' \subseteq window'[d]
      BY <2>1, <3>1 DEF ChangeForwarding
    <3>5. fwd' \in inforce' /\ \A d \in Cxns : fwd' \in window'[d]
      BY <2>1, <3>1 DEF ChangeForwarding
    <3> QED
      BY <3>1, <3>4, <3>5 DEF FreshInv, CacheFrom
  <2> QED
    BY <1>6, <2>2, <2>3, <2>4, <2>5 DEF TableChange, DeferRevalidation
<1>7. CASE Revalidate
  <2>1. fwd \in Programs /\ UNCHANGED <<fwd, window>> /\ RevalidateCache(fwd)
    BY <1>7 DEF Revalidate, BaseInv, TypeOK
  <2>2. CacheFrom({fwd})' /\ PortsPolled' /\ inforce' = {fwd}
    BY <2>1, RevalidateCacheFresh DEF CacheFrom
  <2>3. Blocked' = {}
    BY <1>7 DEF Revalidate, NoneBlocked, Blocked
  <2>4. \A c \in Cxns : fwd \in window[c]
    BY DEF FreshInv
  <2> QED
    BY <2>1, <2>2, <2>3, <2>4 DEF FreshInv, CacheFrom
<1>8. ASSUME NEW q \in Ports, NEW p \in Programs, PortAdded(q, p) PROVE FreshInv'
  <2>1. Blocked' = Blocked \cup ({UNSPECIFIED} \cap Cxns)
    BY <1>8, SentinelsAssumption DEF PortAdded, DeferRevalidationInternal, Blocked
  <2> QED
    BY <1>8, <2>1, DeferFresh
       DEF PortAdded, DeferRevalidationInternal, flowVars, upcallVars
<1>9. ASSUME NEW q \in Ports, NEW p \in Programs, PortDeleted(q, p) PROVE FreshInv'
  <2>1. Blocked' = Blocked \cup ({UNSPECIFIED} \cap Cxns)
    BY <1>9, SentinelsAssumption DEF PortDeleted, DeferRevalidationInternal, Blocked
  <2>2. \A t \in Threads : child'[t] # Zombie =>
          child[t] # Zombie /\ child'[t].fwd = child[t].fwd
    BY <1>9 DEF PortDeleted
  <2> QED
    BY <1>9, <2>1, <2>2, DeferFresh DEF PortDeleted, DeferRevalidationInternal, flowVars
<1>10. ASSUME NEW q \in Ports, NEW p \in Programs, PortModified(q, p) PROVE FreshInv'
  <2>1. Blocked' = Blocked \cup ({UNSPECIFIED} \cap Cxns)
    BY <1>10, SentinelsAssumption DEF PortModified, DeferRevalidationInternal, Blocked
  <2> QED
    BY <1>10, <2>1, DeferFresh
       DEF PortModified, DeferRevalidationInternal, flowVars, upcallVars
<1>11. ASSUME NEW h \in BOOLEAN, NEW p \in Programs, NEW S \in SUBSET Ports,
              Restart(h, p, S)
       PROVE  FreshInv'
  <2>1. /\ fwd' = p /\ inforce' = {p} /\ window' = [c \in Cxns |-> {p}]
        /\ kflows' = [k \in Keys |-> NoFlow] /\ child' = BootChildren(p, S)
        /\ ind_ovs_ports' = BootPorts(S) /\ blocked_cxns' = NoneBlocked
    BY <1>11 DEF Restart
  <2>2. CacheFrom(inforce)'
    BY <2>1, ForkedType DEF CacheFrom, Managed, BootChildren
  <2>3. PortsPolled'
    <3> SUFFICES ASSUME NEW q \in Ports, BootPorts(S)[q] # NULL
                 PROVE  q \in BootChildren(p, S)[BootPorts(S)[q].upcall_thread].polls
      BY <2>1 DEF PortsPolled, Present
    <3>1. BootPorts(S)[q].upcall_thread \in Threads
      BY BootType DEF PortRecords
    <3> QED
      BY <3>1, ForkedType DEF BootChildren
  <2>4. Blocked' = {}
    BY <2>1 DEF Blocked, NoneBlocked
  <2> QED
    BY <2>1, <2>2, <2>3, <2>4 DEF FreshInv
<1>12. CASE Takeover
  BY <1>12 DEF Takeover, upcallVars, barrierVars, FreshInv, CacheFrom, Managed,
       Blocked, PortsPolled, Present
<1>13. CASE UNCHANGED vars
  BY <1>13 DEF vars, mainVars, flowVars, upcallVars, barrierVars, FreshInv,
       CacheFrom, Managed, Blocked, PortsPolled, Present
<1> QED
  BY <1>1, <1>2, <1>3, <1>4, <1>5, <1>6, <1>7, <1>8, <1>9, <1>10, <1>11, <1>12, <1>13
     DEF Next, BarrierReceived, BarrierTimer

LEMMA FreshInvariant == Spec => [](BaseInv /\ FreshInv)
  BY BaseInit, BaseNext, FreshInit, FreshNext, PTL DEF Spec

(* What stems from a set of forwarding states follows it, for every packet  *)
(* a megaflow matches.                                                      *)
LEMMA FromImpliesFollows ==
  ASSUME BaseInv, NEW V \in SUBSET Programs, CacheFrom(V), NEW W, V \subseteq W
  PROVE  CacheFollows(W)
<1>1. ASSUME NEW k \in Managed, NEW x \in kernel[k].mask
      PROVE  \E p \in W : p[x] # PipelineError /\ p[x].actions = kernel[k].actions
  <2>1. k \in Keys /\ kflows[k] \in Verdicts /\ kernel[k] = kflows[k]
    BY DEF BaseInv, TypeOK, CopyMatchesKernel, Managed
  <2>2. PICK p \in V : kflows[k] = p[k]
    BY DEF CacheFrom
  <2>3. p[x] = p[k] /\ p[k] # PipelineError
    <3>1. p \in Programs /\ p[k] # PipelineError /\ x \in p[k].mask
      BY <2>1, <2>2, SentinelsAssumption
    <3> QED
      BY <2>1, <3>1, MaskContract
  <2> QED
    BY <2>1, <2>2, <2>3
<1> QED
  BY <1>1 DEF CacheFollows, CacheFrom

(* The barrier promise holds for any number of connections, slots, upcall   *)
(* threads, ports, keys and forwarding states: while no barrier reply is    *)
(* held back, nothing cached predates the connection's last change.         *)
THEOREM BarrierCorrect == Spec => []BarrierGuarantee
<1>1. BaseInv /\ FreshInv => BarrierGuarantee
  BY FromImpliesFollows DEF BarrierGuarantee, FreshInv, BaseInv, TypeOK
<1> QED
  BY <1>1, FreshInvariant, PTL

(* If no revalidation is scheduled then none is owed.                       *)
THEOREM SchedulingCorrect == Spec => []UnscheduledMeansCurrent
<1>1. BaseInv /\ FreshInv => UnscheduledMeansCurrent
  <2> SUFFICES ASSUME BaseInv, FreshInv, ~barrier_timer_active
               PROVE  CacheFollows({fwd}) /\ Blocked = {} /\ PortsPolled
    BY DEF UnscheduledMeansCurrent
  <2>1. {fwd} \in SUBSET Programs /\ CacheFrom({fwd})
    BY DEF FreshInv, BaseInv, TypeOK
  <2> QED
    BY <2>1, FromImpliesFollows DEF FreshInv
<1> QED
  BY <1>1, FreshInvariant, PTL

-----------------------------------------------------------------------------
(* The kernel flow table.                                                   *)

(* The ways in which a step can touch the flows or hitless mode.            *)
LEMMA FlowSteps ==
  ASSUME TypeOK, [Next]_vars
  PROVE  \/ UNCHANGED <<flowVars, hitless>>
         \/ \E k \in Keys : KflowInstall(k) /\ UNCHANGED hitless
         \/ \E k \in Keys : KflowExpire(k)
         \/ \E p \in Programs : InvalidateAll(p) /\ UNCHANGED hitless
         \/ \E h \in BOOLEAN, p \in Programs, S \in SUBSET Ports : Restart(h, p, S)
         \/ Takeover
<1>1. ASSUME NEW k \in Keys, KflowSockReady(k)
      PROVE  UNCHANGED <<flowVars, hitless>> \/ (KflowInstall(k) /\ UNCHANGED hitless)
  BY <1>1 DEF KflowSockReady
<1>2. ASSUME NEW t \in Threads, NEW k \in Keys, PacketMiss(t, k)
      PROVE  UNCHANGED <<flowVars, hitless>>
  BY <1>2 DEF PacketMiss, mainVars
<1>3. ASSUME NEW t \in Threads, UpcallDies(t) PROVE UNCHANGED <<flowVars, hitless>>
  BY <1>3 DEF UpcallDies, mainVars
<1>4. SignalfdSockReady => UNCHANGED <<flowVars, hitless>>
  BY DEF SignalfdSockReady, mainVars
<1>5. ASSUME NEW c, NEW p \in Programs, TableChange(c, p)
      PROVE  \/ UNCHANGED <<flowVars, hitless>>
             \/ InvalidateAll(p) /\ UNCHANGED hitless
  BY <1>5 DEF TableChange, DeferRevalidation, NoConnection, AlreadyBlocked,
       BlockInFreeSlot, RevalidateThenBlock, RevalidateCache
<1>6. Revalidate => fwd \in Programs /\ InvalidateAll(fwd) /\ UNCHANGED hitless
  BY DEF Revalidate, RevalidateCache, TypeOK
<1>7. ASSUME NEW q \in Ports, NEW p \in Programs,
             PortAdded(q, p) \/ PortDeleted(q, p) \/ PortModified(q, p)
      PROVE  UNCHANGED <<flowVars, hitless>>
  BY <1>7 DEF PortAdded, PortDeleted, PortModified
<1>8. UNCHANGED vars => UNCHANGED <<flowVars, hitless>>
  BY DEF vars, mainVars
<1> QED
  BY <1>1, <1>2, <1>3, <1>4, <1>5, <1>6, <1>7, <1>8
     DEF Next, BarrierReceived, BarrierTimer

(* Until the takeover message a hitless main process never writes to the    *)
(* kernel flow table, revalidations and restarts included.                  *)
THEOREM HitlessUntouched == Spec => HitlessLeavesKernelAlone
<1>1. BaseInv /\ [Next]_vars => [hitless /\ hitless' => kernel' = kernel]_vars
  <2> SUFFICES ASSUME BaseInv, [Next]_vars, hitless, hitless' PROVE kernel' = kernel
    OBVIOUS
  <2>1. TypeOK
    BY DEF BaseInv
  <2>2. ASSUME NEW p \in Programs, InvalidateAll(p) PROVE kernel' = kernel
    BY <2>2 DEF InvalidateAll, flowVars
  <2>3. ASSUME NEW h \in BOOLEAN, NEW p \in Programs, NEW S \in SUBSET Ports,
               Restart(h, p, S)
        PROVE  kernel' = kernel
    BY <2>3 DEF Restart
  <2> QED
    BY <2>1, <2>2, <2>3, FlowSteps DEF flowVars, KflowInstall, KflowExpire, Takeover
<1> QED
  BY <1>1, BaseInvariant, PTL DEF Spec, HitlessLeavesKernelAlone

(* A kernel flow escapes the main process only if the kernel refused to     *)
(* delete it: no handler forgets a flow.                                    *)
THEOREM OrphansCorrect == Spec => []OrphansWereRefused
<1>1. Init => OrphansWereRefused
  BY DEF Init, OrphansWereRefused, Managed
<1>2. BaseInv /\ OrphansWereRefused /\ [Next]_vars => OrphansWereRefused'
  <2> SUFFICES ASSUME BaseInv, OrphansWereRefused, [Next]_vars,
                      ~hitless', NEW k \in Keys, kflows'[k] = NoFlow
               PROVE  kernel'[k] = NoFlow \/ k \in refused'
    BY DEF OrphansWereRefused, Managed
  <2> USE DEF BaseInv
  <2>1. ~hitless /\ kflows[k] = NoFlow => kernel[k] = NoFlow \/ k \in refused
    BY DEF OrphansWereRefused, Managed
  <2>2. CASE UNCHANGED <<flowVars, hitless>>
    BY <2>1, <2>2 DEF flowVars
  <2>3. ASSUME NEW m \in Keys, KflowInstall(m), UNCHANGED hitless
        PROVE  kernel'[k] = NoFlow \/ k \in refused'
    <3>1. fwd[m] # NoFlow
      <4>1. fwd \in Programs /\ fwd[m] # PipelineError
        BY <2>3 DEF KflowInstall, TypeOK
      <4> QED
        BY <4>1, ProgramVerdict
    <3>2. k # m
      BY <2>3, <3>1 DEF KflowInstall, TypeOK
    <3> QED
      BY <2>1, <2>3, <3>2 DEF KflowInstall, TypeOK
  <2>4. ASSUME NEW m \in Keys, KflowExpire(m)
        PROVE  kernel'[k] = NoFlow \/ k \in refused'
    <3>1. PICK delFails \in SUBSET {m} : DeleteKflows({m}, delFails)
      BY <2>4 DEF KflowExpire
    <3> QED
      BY <2>1, <2>4, <3>1 DEF KflowExpire, DeleteKflows, KernelAfterDelete
  <2>5. ASSUME NEW p \in Programs, InvalidateAll(p), UNCHANGED hitless
        PROVE  kernel'[k] = NoFlow \/ k \in refused'
    BY <2>1, <2>5, InvalidateAllResult
  <2>6. ASSUME NEW h \in BOOLEAN, NEW p \in Programs, NEW S \in SUBSET Ports,
               Restart(h, p, S)
        PROVE  kernel'[k] = NoFlow \/ k \in refused'
    BY <2>6 DEF Restart, KflowFlush
  <2>7. CASE Takeover
    BY <2>7 DEF Takeover, KflowFlush
  <2> QED
    BY <2>2, <2>3, <2>4, <2>5, <2>6, <2>7, FlowSteps
<1> QED
  BY <1>1, <1>2, BaseInvariant, PTL DEF Spec

(* Two flows may overlap between a change and the next revalidation, but    *)
(* never so that each matches the other's key: kflow_match refuses such an  *)
(* addition, and the mask of a flow never changes.                          *)
NoMutualCover ==
  \A k, m \in Managed :
    k # m => ~(k \in kflows[m].mask /\ m \in kflows[k].mask)

LEMMA NoMutualCoverInvariant == Spec => []NoMutualCover
<1>1. Init => NoMutualCover
  BY DEF Init, NoMutualCover, Managed
<1>2. BaseInv /\ NoMutualCover /\ [Next]_vars => NoMutualCover'
  <2> SUFFICES ASSUME BaseInv, NoMutualCover, [Next]_vars PROVE NoMutualCover'
    OBVIOUS
  <2> USE DEF BaseInv
  <2>1. CASE UNCHANGED kflows
    BY <2>1 DEF NoMutualCover, Managed
  <2>2. ASSUME NEW k \in Keys, KflowInstall(k) PROVE NoMutualCover'
    <3>1. \A m \in Keys : m # k => kflows'[m] = kflows[m]
      BY <2>2 DEF KflowInstall, TypeOK
    <3>2. \A m \in Managed : k \notin kflows[m].mask
      BY <2>2 DEF KflowInstall
    <3>3. ASSUME NEW a \in Managed', NEW b \in Managed', a # b
          PROVE  ~(a \in kflows'[b].mask /\ b \in kflows'[a].mask)
      <4>1. \A m \in Managed' : m # k => m \in Managed /\ kflows'[m] = kflows[m]
        BY <3>1 DEF Managed
      <4>2. CASE a = k
        BY <3>2, <3>3, <4>1, <4>2
      <4>3. CASE b = k
        BY <3>2, <3>3, <4>1, <4>3
      <4>4. CASE a # k /\ b # k
        BY <3>3, <4>1, <4>4 DEF NoMutualCover
      <4> QED
        BY <4>2, <4>3, <4>4
    <3> QED
      BY <3>3 DEF NoMutualCover
  <2>3. ASSUME NEW k \in Keys, KflowExpire(k) PROVE NoMutualCover'
    BY <2>3 DEF KflowExpire, DeleteKflows, NoMutualCover, Managed
  <2>4. ASSUME NEW p \in Programs, InvalidateAll(p) PROVE NoMutualCover'
    <3>1. \A k \in Keys : kflows'[k] # NoFlow =>
            kflows[k] # NoFlow /\ kflows'[k].mask = kflows[k].mask
      BY <2>4, InvalidateAllResult
    <3> QED
      BY <3>1 DEF NoMutualCover, Managed
  <2>5. ASSUME NEW h \in BOOLEAN, NEW p \in Programs, NEW S \in SUBSET Ports,
               Restart(h, p, S)
        PROVE  NoMutualCover'
    BY <2>5 DEF Restart, NoMutualCover, Managed
  <2> QED
    BY <2>1, <2>2, <2>3, <2>4, <2>5, FlowSteps DEF flowVars, Takeover
<1> QED
  BY <1>1, <1>2, BaseInvariant, PTL DEF Spec

(* When no revalidation is owed the managed flows are disjoint.  All stem   *)
(* from one forwarding state, so overlapping flows would be the same        *)
(* megaflow, and each would match the other's key.                          *)
THEOREM DisjointCorrect == Spec => []SettledFlowsDisjoint
<1>1. BaseInv /\ FreshInv /\ NoMutualCover => SettledFlowsDisjoint
  <2> SUFFICES ASSUME BaseInv, FreshInv, NoMutualCover, ~barrier_timer_active,
                      NEW k \in Managed, NEW m \in Managed, k # m,
                      NEW x \in kernel[k].mask \cap kernel[m].mask
               PROVE  FALSE
    BY DEF SettledFlowsDisjoint
  <2>1. ASSUME NEW j \in Managed
        PROVE  j \in Keys /\ kernel[j] = fwd[j] /\ kflows[j] = fwd[j]
               /\ fwd[j] # PipelineError
    <3>1. j \in Keys /\ kflows[j] \in Verdicts /\ kernel[j] = kflows[j]
      BY <2>1 DEF BaseInv, CopyMatchesKernel, Managed, TypeOK
    <3>2. kflows[j] = fwd[j]
      BY <2>1 DEF FreshInv, CacheFrom
    <3> QED
      BY <3>1, <3>2, SentinelsAssumption
  <2>2. ASSUME NEW j \in Managed PROVE j \in fwd[j].mask
                 /\ \A y \in fwd[j].mask : fwd[y] = fwd[j]
    <3>1. fwd \in Programs
      BY DEF BaseInv, TypeOK
    <3>2. j \in Keys /\ fwd[j] # PipelineError
      BY <2>1, <2>2
    <3> QED
      BY <3>1, <3>2, MaskContract
  <2>3. fwd[x] = fwd[k] /\ fwd[x] = fwd[m]
    BY <2>1, <2>2
  <2> QED
    BY <2>1, <2>2, <2>3 DEF NoMutualCover
<1> QED
  BY <1>1, FreshInvariant, NoMutualCoverInvariant, PTL

-----------------------------------------------------------------------------
(* Refinement of the abstract promise.                                      *)

LEMMA CachedDrawn ==
  ASSUME BaseInv, NEW W \in SUBSET Programs, CacheFrom(W)
  PROVE  CachedTreatments \in SUBSET Promise!Treatments(W)
<1>1. CacheFollows(W)
  BY FromImpliesFollows
<1> SUFFICES ASSUME NEW ka \in CachedTreatments
             PROVE  ka \in Promise!Treatments(W)
  OBVIOUS
<1>2. ka \in Keys \X Actions
  BY DEF CachedTreatments
<1>3. \E p \in W : p[ka[1]] # PipelineError /\ p[ka[1]].actions = ka[2]
  <2>1. CASE \E k \in Managed : ka[1] \in kernel[k].mask /\ kernel[k].actions = ka[2]
    <3>1. PICK k \in Managed : ka[1] \in kernel[k].mask /\ kernel[k].actions = ka[2]
      BY <2>1
    <3>2. \E p \in W : p[ka[1]] # PipelineError /\ p[ka[1]].actions = kernel[k].actions
      BY <1>1, <3>1 DEF CacheFollows
    <3> QED
      BY <3>1, <3>2
  <2>2. CASE \E t \in Threads :
               /\ child[t] # Zombie
               /\ child[t].fwd[ka[1]] # PipelineError
               /\ child[t].fwd[ka[1]].actions = ka[2]
    BY <1>1, <2>2 DEF CacheFollows
  <2> QED
    BY <2>1, <2>2 DEF CachedTreatments
<1> QED
  BY <1>2, <1>3 DEF Promise!Treatments

Drawn == CachedTreatments \in SUBSET Promise!Treatments(inforce)

LEMMA AlwaysDrawn == BaseInv /\ FreshInv => Drawn
  BY CachedDrawn DEF FreshInv, BaseInv, TypeOK, Drawn

LEMMA PromiseInit == Init => Promise!Init
<1> SUFFICES ASSUME Init PROVE Promise!Init
  OBVIOUS
<1>1. BaseInv /\ FreshInv /\ Drawn
  BY BaseInit, FreshInit, AlwaysDrawn
<1>2. fwd \in Programs /\ inforce = {fwd} /\ window = [c \in Cxns |-> {fwd}]
  BY DEF Init
<1>3. Blocked = {}
  BY DEF Init, Blocked, NoneBlocked
<1> QED
  BY <1>1, <1>2, <1>3 DEF Promise!Init, Drawn

(* Every step is a step of the promise, as far as the forwarding state and  *)
(* the blocked connections go.                                              *)
LEMMA PromiseStep ==
  ASSUME BaseInv, FreshInv, [Next]_vars
  PROVE  \/ Promise!Restart
         \/ \E c \in Cxns \cup {UNSPECIFIED} : Promise!Change(c)
         \/ Promise!Sync
         \/ Promise!Fill
<1>1. ASSUME UNCHANGED <<fwd, inforce, window, blocked_cxns>> PROVE Promise!Fill
  BY <1>1 DEF Promise!Fill, Blocked
<1>2. ASSUME NEW c \in Cxns \cup {UNSPECIFIED}, NEW p \in Programs, TableChange(c, p)
      PROVE  Promise!Change(c)
  <2>1. ChangeForwarding(c, p)
    BY <1>2 DEF TableChange
  <2>2. CASE NoConnection(c, p)
    <3>1. Blocked' = Blocked \cup ({c} \cap Cxns)
      BY <2>2, SentinelsAssumption DEF NoConnection, DeferRevalidationInternal, Blocked
    <3> QED
      BY <2>1, <2>2, <3>1
         DEF NoConnection, DeferRevalidationInternal, ChangeForwarding, Promise!Change
  <2>3. CASE AlreadyBlocked(c, p)
    <3>1. c \in Blocked /\ Blocked' = Blocked
      BY <2>3 DEF AlreadyBlocked, Blocked, barrierVars
    <3> QED
      BY <2>1, <2>3, <3>1 DEF AlreadyBlocked, ChangeForwarding, Promise!Change
  <2>4. CASE BlockInFreeSlot(c, p)
    <3>1. c \in Cxns /\ blocked_cxns \in [Slots -> Cxns \cup {UNSPECIFIED}]
      BY <2>4 DEF BlockInFreeSlot, BaseInv, TypeOK
    <3>2. PICK i \in Slots : /\ LastFree(i, blocked_cxns)
                             /\ blocked_cxns' = [blocked_cxns EXCEPT ![i] = c]
      BY <2>4 DEF BlockInFreeSlot
    <3>3. Blocked' = Blocked \cup {c}
      BY <3>1, <3>2, BlockedAfter DEF Blocked
    <3> QED
      BY <2>1, <2>4, <3>1, <3>3 DEF BlockInFreeSlot, ChangeForwarding, Promise!Change
  <2>5. CASE RevalidateThenBlock(c, p)
    <3>1. c \in Cxns /\ NoneBlocked \in [Slots -> Cxns \cup {UNSPECIFIED}]
      BY <2>5 DEF RevalidateThenBlock, NoneBlocked
    <3>2. PICK i \in Slots : /\ LastFree(i, NoneBlocked)
                             /\ blocked_cxns' = [NoneBlocked EXCEPT ![i] = c]
      BY <2>5 DEF RevalidateThenBlock
    <3>3. {NoneBlocked[j] : j \in Slots} \ {UNSPECIFIED} = {}
      BY DEF NoneBlocked
    <3>4. Blocked' = {c}
      BY <3>1, <3>2, <3>3, BlockedAfter DEF Blocked
    <3> QED
      BY <2>1, <2>5, <3>1, <3>4
         DEF RevalidateThenBlock, RevalidateCache, ChangeForwarding, Promise!Change
  <2> QED
    BY <1>2, <2>2, <2>3, <2>4, <2>5 DEF TableChange, DeferRevalidation
<1>3. CASE Revalidate
  <2>1. Blocked' = {}
    BY <1>3 DEF Revalidate, NoneBlocked, Blocked
  <2> QED
    BY <1>3, <2>1 DEF Revalidate, RevalidateCache, Promise!Sync
<1>4. ASSUME NEW p \in Programs, ChangeForwarding(UNSPECIFIED, p),
             DeferRevalidationInternal(p)
      PROVE  Promise!Change(UNSPECIFIED)
  <2>1. Blocked' = Blocked \cup ({UNSPECIFIED} \cap Cxns)
    BY <1>4, SentinelsAssumption DEF DeferRevalidationInternal, Blocked
  <2> QED
    BY <1>4, <2>1 DEF DeferRevalidationInternal, ChangeForwarding, Promise!Change
<1>5. ASSUME NEW h \in BOOLEAN, NEW p \in Programs, NEW S \in SUBSET Ports,
             Restart(h, p, S)
      PROVE  Promise!Restart
  <2>1. Blocked' = {}
    BY <1>5 DEF Restart, NoneBlocked, Blocked
  <2> QED
    BY <1>5, <2>1 DEF Restart, Promise!Restart
<1>6. ASSUME \/ \E k \in Keys : KflowSockReady(k) \/ KflowExpire(k)
             \/ \E t \in Threads, k \in Keys : PacketMiss(t, k)
             \/ \E t \in Threads : UpcallDies(t)
             \/ SignalfdSockReady
             \/ Takeover
             \/ UNCHANGED vars
      PROVE  UNCHANGED <<fwd, inforce, window, blocked_cxns>>
  BY <1>6 DEF KflowSockReady, KflowExpire, PacketMiss, UpcallDies, SignalfdSockReady,
       Takeover, vars, mainVars, flowVars, upcallVars, barrierVars
<1> QED
  BY <1>1, <1>2, <1>3, <1>4, <1>5, <1>6
     DEF Next, BarrierReceived, BarrierTimer, PortAdded, PortDeleted, PortModified

(* The flow cache implements the abstract promise to the controller.        *)
THEOREM PromiseCorrect == Spec => PromiseKept
<1>1. /\ BaseInv /\ FreshInv /\ [Next]_vars /\ Drawn'
      => [Promise!Next]_(Promise!vars)
  BY PromiseStep DEF Promise!Next, Drawn
<1>2. Spec => [](BaseInv /\ FreshInv /\ Drawn)
  BY FreshInvariant, AlwaysDrawn, PTL
<1> QED
  BY <1>1, <1>2, PromiseInit, PTL DEF Spec, PromiseKept, Promise!Spec

-----------------------------------------------------------------------------
(* The table of blocked connections.                                        *)

(* A step empties the table, keeps it, or adds a connection that it does    *)
(* not hold (the four ways through ind_ovs_barrier_defer_revalidation).     *)
LEMMA BlockedStep ==
  ASSUME [Next]_vars
  PROVE  \/ UNCHANGED blocked_cxns
         \/ blocked_cxns' = NoneBlocked
         \/ \E c \in Cxns \ Blocked, i \in Slots : blocked_cxns' = [blocked_cxns EXCEPT ![i] = c]
         \/ \E c \in Cxns, i \in Slots : blocked_cxns' = [NoneBlocked EXCEPT ![i] = c]
<1>1. CASE \E k \in Keys : KflowSockReady(k) \/ KflowExpire(k)
  BY <1>1 DEF KflowSockReady, KflowExpire, barrierVars
<1>2. CASE (\E t \in Threads, k \in Keys : PacketMiss(t, k)) \/ (\E t \in Threads : UpcallDies(t))
  BY <1>2 DEF PacketMiss, UpcallDies, barrierVars
<1>3. CASE SignalfdSockReady
  BY <1>3 DEF SignalfdSockReady, barrierVars
<1>4. ASSUME NEW c \in Cxns \cup {UNSPECIFIED}, NEW p \in Programs, DeferRevalidation(c, p)
      PROVE  \/ UNCHANGED blocked_cxns
             \/ \E i \in Slots : c \in Cxns \ Blocked /\ blocked_cxns' = [blocked_cxns EXCEPT ![i] = c]
             \/ \E i \in Slots : c \in Cxns /\ blocked_cxns' = [NoneBlocked EXCEPT ![i] = c]
  BY <1>4 DEF DeferRevalidation, NoConnection, DeferRevalidationInternal, AlreadyBlocked, BlockInFreeSlot,
              RevalidateThenBlock, barrierVars
<1>5. CASE \E c \in Cxns \cup {UNSPECIFIED}, p \in Programs : TableChange(c, p)
  BY <1>4, <1>5 DEF TableChange
<1>6. CASE (\E c \in Cxns : BarrierReceived(c)) \/ BarrierTimer
  BY <1>6 DEF BarrierReceived, BarrierTimer, Revalidate
<1>7. CASE \E q \in Ports, p \in Programs : PortAdded(q, p) \/ PortDeleted(q, p) \/ PortModified(q, p)
  BY <1>7 DEF PortAdded, PortDeleted, PortModified, DeferRevalidationInternal
<1>8. CASE \E h \in BOOLEAN, p \in Programs, S \in SUBSET Ports : Restart(h, p, S)
  BY <1>8 DEF Restart
<1>9. CASE Takeover
  BY <1>9 DEF Takeover, barrierVars
<1>10. CASE UNCHANGED vars
  BY <1>10 DEF vars, barrierVars
<1> QED
  BY <1>1, <1>2, <1>3, <1>5, <1>6, <1>7, <1>8, <1>9, <1>10 DEF Next

(* One slot for a connection, in a table of any size: one unblock releases  *)
(* its barrier (ind_ovs_barrier_defer_revalidation, revalidate).            *)
THEOREM BlockerCorrect == Spec => []OneBlockerPerCxn
<1>1. Init => OneBlockerPerCxn
  BY DEF Init, NoneBlocked, OneBlockerPerCxn
<1>2. BaseInv /\ OneBlockerPerCxn /\ [Next]_vars => OneBlockerPerCxn'
  <2> SUFFICES ASSUME BaseInv, OneBlockerPerCxn, [Next]_vars PROVE OneBlockerPerCxn'
    OBVIOUS
  <2>1. blocked_cxns \in [Slots -> Cxns \cup {UNSPECIFIED}]
    BY DEF BaseInv, TypeOK
  <2>2. CASE UNCHANGED blocked_cxns
    BY <2>2 DEF OneBlockerPerCxn
  <2>3. CASE blocked_cxns' = NoneBlocked
    BY <2>3 DEF OneBlockerPerCxn, NoneBlocked
  <2>4. ASSUME NEW c \in Cxns \ Blocked, NEW i \in Slots, blocked_cxns' = [blocked_cxns EXCEPT ![i] = c]
        PROVE  OneBlockerPerCxn'
    <3>1. \A j \in Slots : blocked_cxns[j] # c \/ c = UNSPECIFIED
      BY <2>4 DEF Blocked
    <3> QED
      BY <2>1, <2>4, <3>1 DEF OneBlockerPerCxn
  <2>5. ASSUME NEW c \in Cxns, NEW i \in Slots, blocked_cxns' = [NoneBlocked EXCEPT ![i] = c]
        PROVE  OneBlockerPerCxn'
    BY <2>5 DEF OneBlockerPerCxn, NoneBlocked
  <2> QED
    BY <2>2, <2>3, <2>4, <2>5, BlockedStep
<1> QED
  BY <1>1, <1>2, BaseInvariant, PTL DEF Spec
=============================================================================
