-------------------------- MODULE UpcallLoopProofs --------------------------
(***************************************************************************)
(* The filter of an upcall process is exact and within its capacity, for   *)
(* every hash function, capacity, batch size and number of restarts.       *)
(***************************************************************************)
EXTENDS UpcallLoop, FiniteSetTheorems, TLAPS

filter == <<bloom_filter, bloom_filter_count, inserted>>

(* FilterWithinCapacity is inductive once the keys are known to be finitely *)
(* many, as Cardinality needs.                                              *)
FilterInv == IsFiniteSet(inserted) /\ FilterWithinCapacity

(* BLOOM_CAPACITY is a positive number.                                     *)
LEMMA CapacityPositive == BLOOM_CAPACITY \in Nat /\ BLOOM_CAPACITY >= 1
<1>1. BLOOM_CAPACITY \in Nat \ {0}
  BY UpcallAssumption
<1> QED
  BY <1>1

(* A filter with nothing in it satisfies the invariant: the initial state   *)
(* and a process that was just started.                                     *)
LEMMA EmptyFilter ==
  ASSUME bloom_filter = {}, bloom_filter_count = 0, inserted = {}
  PROVE  FilterInv
<1>1. IsFiniteSet(inserted) /\ Cardinality(inserted) = 0
  BY FS_EmptySet
<1>2. UNION {Hash(f) : f \in inserted} = {}
  OBVIOUS
<1> QED
  BY <1>1, <1>2, CapacityPositive DEF FilterInv, FilterWithinCapacity

(* The buckets of one more key.                                             *)
LEMMA UnionAdd ==
  ASSUME NEW S, NEW k
  PROVE  UNION {Hash(f) : f \in S \cup {k}} = (UNION {Hash(f) : f \in S}) \cup Hash(k)
<1>1. ASSUME NEW b \in UNION {Hash(f) : f \in S \cup {k}}
      PROVE  b \in (UNION {Hash(f) : f \in S}) \cup Hash(k)
  <2>1. PICK f \in S \cup {k} : b \in Hash(f)
    OBVIOUS
  <2> QED
    BY <2>1
<1>2. ASSUME NEW b \in (UNION {Hash(f) : f \in S}) \cup Hash(k)
      PROVE  b \in UNION {Hash(f) : f \in S \cup {k}}
  <2>1. \E f \in S \cup {k} : b \in Hash(f)
    OBVIOUS
  <2> QED
    BY <2>1
<1> QED
  BY <1>1, <1>2

(* ind_ovs_upcall_seen_key for a key that is not seen: it is not among the  *)
(* keys counted, so one more insertion is one more key, and a full filter   *)
(* is cleared first.                                                        *)
LEMMA InsertKeeps ==
  ASSUME NEW k, FilterInv, ~Seen(k), Insert(k)
  PROVE  FilterInv'
<1> DEFINE full == bloom_filter_count >= BLOOM_CAPACITY
<1>1. k \notin inserted
  <2>1. SUFFICES ASSUME k \in inserted PROVE FALSE
    OBVIOUS
  <2>2. Hash(k) \subseteq UNION {Hash(f) : f \in inserted}
    BY <2>1
  <2> QED
    BY <2>2 DEF FilterInv, FilterWithinCapacity, Seen
<1>2. bloom_filter_count \in Nat
  BY FS_CardinalityType DEF FilterInv, FilterWithinCapacity
<1>3. CASE full
  <2>1. bloom_filter' = Hash(k) /\ bloom_filter_count' = 1 /\ inserted' = {k}
    BY <1>3 DEF Insert
  <2>2. IsFiniteSet({k}) /\ Cardinality({k}) = 1
    BY FS_Singleton
  <2>3. UNION {Hash(f) : f \in {k}} = Hash(k)
    OBVIOUS
  <2> QED
    BY <2>1, <2>2, <2>3, CapacityPositive DEF FilterInv, FilterWithinCapacity
<1>4. CASE ~full
  <2>1. /\ bloom_filter' = bloom_filter \cup Hash(k)
        /\ bloom_filter_count' = bloom_filter_count + 1
        /\ inserted' = inserted \cup {k}
    BY <1>4 DEF Insert
  <2>2. IsFiniteSet(inserted \cup {k}) /\ Cardinality(inserted \cup {k}) = Cardinality(inserted) + 1
    BY <1>1, FS_AddElement DEF FilterInv
  <2>3. bloom_filter' = UNION {Hash(f) : f \in inserted \cup {k}}
    BY <2>1, UnionAdd DEF FilterInv, FilterWithinCapacity
  <2>4. bloom_filter_count + 1 <= BLOOM_CAPACITY
    BY <1>2, <1>4, CapacityPositive
  <2> QED
    BY <2>1, <2>2, <2>3, <2>4 DEF FilterInv, FilterWithinCapacity
<1> QED
  BY <1>3, <1>4

(* Every step keeps the invariant: only the handling of a packet and a      *)
(* restart touch the filter.                                                *)
LEMMA FilterStep ==
  ASSUME FilterInv, [Next]_vars
  PROVE  FilterInv'
<1>1. CASE UNCHANGED filter
  BY <1>1 DEF filter, FilterInv, FilterWithinCapacity
<1>2. CASE ind_ovs_upcall_respawn_child
  <2>1. bloom_filter' = {} /\ bloom_filter_count' = 0 /\ inserted' = {}
    BY <1>2 DEF ind_ovs_upcall_respawn_child
  <2>2. IsFiniteSet({}) /\ Cardinality({}) = 0
    BY FS_EmptySet
  <2>3. UNION {Hash(f) : f \in {}} = {}
    OBVIOUS
  <2> QED
    BY <2>1, <2>2, <2>3, CapacityPositive DEF FilterInv, FilterWithinCapacity
<1>3. CASE HandleOneUpcall
  <2>1. UNCHANGED filter \/ (~Seen(Head(batch)) /\ Insert(Head(batch)))
    BY <1>3 DEF HandleOneUpcall, filter
  <2> QED
    BY <2>1, <1>1, InsertKeeps
<1>4. UNCHANGED filter \/ ind_ovs_upcall_respawn_child \/ HandleOneUpcall
  <2>1. CASE \E f \in Flows : Kernel_Upcall(f) \/ Expire(f)
    BY <2>1 DEF Kernel_Upcall, Expire, process, filter
  <2>2. CASE kflow_sock_ready
    BY <2>2 DEF kflow_sock_ready, process, filter
  <2>3. CASE EpollWait \/ (\E p \in Ports : NextEvent(p))
    BY <2>3 DEF EpollWait, NextEvent, filter
  <2>4. CASE Recv \/ Send
    BY <2>4 DEF Recv, Send, filter
  <2>5. CASE UNCHANGED vars
    BY <2>5 DEF vars, process, filter
  <2> QED
    BY <2>1, <2>2, <2>3, <2>4, <2>5 DEF Next
<1> QED
  BY <1>1, <1>2, <1>3, <1>4

(* The filter of an upcall process holds exactly the keys inserted since it *)
(* was cleared, as many as bloom_filter_count says and never more than      *)
(* BLOOM_CAPACITY, through resets and restarts (ind_ovs_upcall_seen_key).   *)
THEOREM FilterCorrect == Spec => []FilterWithinCapacity
<1>1. Init => FilterInv
  BY EmptyFilter DEF Init
<1>2. FilterInv /\ [Next]_vars => FilterInv'
  BY FilterStep
<1>3. FilterInv => FilterWithinCapacity
  BY DEF FilterInv
<1> QED
  BY <1>1, <1>2, <1>3, PTL DEF Spec
=============================================================================
