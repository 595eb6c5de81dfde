------------------------------- MODULE FlowStats -------------------------------
(***************************************************************************)
(* Packet counters, from the kernel to OpenFlow flow entries: the slots of *)
(* stats.c with one counter for each writer, the kernel flows of kflow.c   *)
(* that remember which slots their packets count for, the expiry task that *)
(* reads a dump of the kernel's flow table, and the upcall processes that  *)
(* count the packets the kernel sends them.  Byte counters are treated     *)
(* like packet counters.                                                   *)
(***************************************************************************)
EXTENDS Integers, Sequences, FiniteSets, FiniteSetsExt, Functions

CONSTANTS
  Keys,                 \* keys of kernel flows
  Entries,              \* OpenFlow flow entries
  Matches,              \* [Entries -> SUBSET Keys]
  Priority,             \* [Entries -> Nat]
  MAX_STATS,            \* slots
  WORD,                 \* counters are modulo WORD
  NONE,
  MAX_PACKETS           \* bound on the number of packets

ASSUME FlowStatsAssumption ==
  /\ Matches \in [Entries -> SUBSET Keys]
  /\ Priority \in [Entries -> Nat]
  /\ MAX_STATS \in Nat /\ MAX_PACKETS \in Nat /\ WORD \in Nat \ {0}
  /\ MAX_STATS >= Cardinality(Entries)

Slots == 0 .. MAX_STATS - 1
Writers == {"kflow", "upcall"}

VARIABLES
  free_stack,           \* free slots
  slot,                 \* the stats_handle of each entry in the table, or NONE
  stats,                \* the counter of each writer for each slot
  kflow,                \* userspace's record of each kernel flow, or NONE
  kernel,               \* the kernel's flow table
  child,                \* slot, as it was when the upcall processes were forked
  changed,              \* a revalidation is due
  expire,               \* the expiry task: whether it runs, the flows the
                        \* kernel has not dumped yet, the messages not yet read
  packets,              \* auxiliary: packets so far
  matched,              \* auxiliary: packets each entry was applied to
  raced,                \* auxiliary: those counted for it less those not counted,
                        \* as they came in the middle of a handler
  clean,                \* auxiliary: entries whose slot nobody else referred
                        \* to when they got it
  orphans               \* auxiliary: entries of child that are deleted

vars == <<free_stack, slot, stats, kflow, kernel, child, changed, expire,
          packets, matched, raced, clean, orphans>>
aux == <<packets, matched, raced, clean, orphans>>

Installed == {k \in Keys : kflow[k] # NONE}

(* Counters are words, ages are 0 (used lately) or 1 (not used for          *)
(* IND_OVS_KFLOW_EXPIRATION_MS).                                            *)
Counter == 0 .. WORD - 1
KernelFlow == [n_packets : Counter, age : {0, 1}]
Kflow == [handle : Slots \cup {NONE}, owner : Entries \cup {NONE}, packets : Counter, age : {0, 1}]

TypeOK ==
  /\ free_stack \in Seq(Slots)
  /\ slot \in [Entries -> Slots \cup {NONE}] /\ child \in [Entries -> Slots \cup {NONE}]
  /\ stats \in [Writers -> [Slots -> Counter]]
  /\ kflow \in [Keys -> Kflow \cup {NONE}]
  /\ kernel \in [Keys -> KernelFlow \cup {NONE}]
  /\ \A k \in Keys : kernel[k] # NONE <=> kflow[k] # NONE
  /\ changed \in BOOLEAN
  /\ expire.running \in BOOLEAN /\ expire.todo \subseteq Keys
  /\ packets \in 0 .. MAX_PACKETS

-----------------------------------------------------------------------------
(* stats.c                                                                  *)

(* stats_alloc, which clears the slot's counters in place of every writer.  *)
StatsAlloc ==
  LET s == free_stack[Len(free_stack)]
  IN  /\ free_stack # <<>>
      /\ free_stack' = SubSeq(free_stack, 1, Len(free_stack) - 1)
      /\ stats' = [w \in Writers |-> [stats[w] EXCEPT ![s] = 0]]

(* Mutant: the slot that is pushed is the one below.                        *)
StatsFreeOther(s) == free_stack' = Append(free_stack, IF s = 0 THEN s ELSE s - 1)

StatsFree(s) == free_stack' = Append(free_stack, s)

(* stats_inc of one slot, or of none.                                       *)
StatsInc(counters, w, s, n) ==
  IF s = NONE THEN counters ELSE [counters EXCEPT ![w][s] = (@ + n) % WORD]

(* stats_get *)
StatsGet(s) == (stats["kflow"][s] + stats["upcall"][s]) % WORD

-----------------------------------------------------------------------------
(* The pipeline: the entry with the highest priority that matches.          *)
Lookup(k, slots) ==
  LET es == {e \in Entries : slots[e] # NONE /\ k \in Matches[e]}
  IN  IF es = {} THEN NONE
      ELSE CHOOSE e \in es : \A f \in es : Priority[f] <= Priority[e]

HandleOf(e, slots) == IF e = NONE THEN NONE ELSE slots[e]

(* kflow_sync_stats for the kernel flows ks, given the kernel's counters:   *)
(* what is new goes to their handles.                                       *)
Diff(f, n) == (n - f.packets) % WORD

Counted(ks, n) ==
  [stats EXCEPT !["kflow"] =
     [s \in Slots |->
        (@[s] + MapThenSumSet(LAMBDA k : Diff(kflow[k], n[k]), {k \in ks : kflow[k].handle = s}))
          % WORD]]

KernelPackets == [k \in Installed |-> kernel[k].n_packets]

(* Mutant: a deleted kernel flow is not synchronised.                       *)
CountedBeforeDelete(gone, moved) == Counted(moved, KernelPackets)

(* ind_ovs_kflow_invalidate_all synchronises what it deletes, and what      *)
(* counts for another entry from now on.                                    *)
CountedAtRevalidation(gone, moved) == Counted(gone \cup moved, KernelPackets)

(* Packets that the kernel matches between the synchronisation of a kernel  *)
(* flow and its deletion or the change of its actions.                      *)
Late(late, slots) ==
  /\ packets + Cardinality(late) <= MAX_PACKETS
  /\ packets' = packets + Cardinality(late)
  /\ matched' = [e \in Entries |-> matched[e] + Cardinality({k \in late : kflow[k].owner = e})]
  /\ raced' = [e \in Entries |->
       raced[e] - Cardinality({k \in late : kflow[k].owner = e})
                + Cardinality({k \in late : kflow'[k] # NONE /\ kflow'[k].owner = e})]

(* revalidate: ind_ovs_kflow_invalidate_all deletes the flows gone, whose   *)
(* mask has changed, and ind_ovs_upcall_respawn forks with the new table.   *)
RevalidateWith(slots, gone, late) ==
  LET Now(k) == Lookup(k, slots)
      moved == {k \in Installed \ gone : kflow[k].handle # HandleOf(Now(k), slots)}
  IN  /\ late \subseteq gone \cup moved
      /\ stats' = CountedAtRevalidation(gone, moved)
      /\ kflow' = [k \in Keys |->
           IF k \notin Installed \ gone THEN NONE
           ELSE [kflow[k] EXCEPT
                   !.handle = HandleOf(Now(k), slots),
                   !.owner = Now(k),
                   !.packets = IF k \in moved THEN kernel[k].n_packets ELSE @,
                   !.age = IF k \in moved THEN Min({@, kernel[k].age}) ELSE @]]
      /\ kernel' = [k \in Keys |->
           IF k \in gone THEN NONE
           ELSE IF k \in late THEN [n_packets |-> (kernel[k].n_packets + 1) % WORD, age |-> 0]
           ELSE kernel[k]]
      /\ Late(late, slots)
      /\ child' = slots
      /\ orphans' = {}
      /\ changed' = FALSE

(* The barrier or the timer.                                                *)
Revalidate ==
  /\ changed
  /\ \E gone \in SUBSET Installed : \E late \in SUBSET Installed : RevalidateWith(slot, gone, late)
  /\ UNCHANGED <<free_stack, slot, expire, clean>>

-----------------------------------------------------------------------------
(* Flow entries.                                                            *)

Referenced(s) ==
  (\E k \in Installed : kflow[k].handle = s) \/ (\E e \in orphans : child[e] = s)

(* flowtable_entry_create *)
EntryCreate(e) ==
  /\ slot[e] = NONE
  /\ StatsAlloc
  /\ LET s == free_stack[Len(free_stack)]
     IN  /\ slot' = [slot EXCEPT ![e] = s]
         /\ clean' = IF Referenced(s) THEN clean ELSE clean \cup {e}
  /\ changed' = TRUE
  /\ matched' = [matched EXCEPT ![e] = 0]
  /\ raced' = [raced EXCEPT ![e] = 0]
  /\ UNCHANGED <<kflow, kernel, child, expire, packets, orphans>>

(* flowtable_entry_delete, when the revalidation is deferred: kernel flows  *)
(* and upcall processes go on counting for a slot that is free.             *)
EntryDelete(e) ==
  /\ slot[e] # NONE
  /\ StatsFree(slot[e])
  /\ slot' = [slot EXCEPT ![e] = NONE]
  /\ kflow' = [k \in Keys |->
       IF k \in Installed /\ kflow[k].owner = e THEN [kflow[k] EXCEPT !.owner = NONE] ELSE kflow[k]]
  /\ orphans' = IF child[e] # NONE THEN orphans \cup {e} ELSE orphans
  /\ changed' = TRUE
  /\ clean' = clean \ {e}
  /\ UNCHANGED <<stats, kernel, child, expire, packets, matched, raced>>

(* flowtable_entry_delete, when the message comes without a connection and  *)
(* the revalidation happens between the removal and the release.            *)
EntryDeleteRevalidate(e) ==
  /\ slot[e] # NONE
  /\ \E gone \in SUBSET Installed : RevalidateWith([slot EXCEPT ![e] = NONE], gone, {})
  /\ StatsFree(slot[e])
  /\ slot' = [slot EXCEPT ![e] = NONE]
  /\ clean' = clean \ {e}
  /\ UNCHANGED expire

-----------------------------------------------------------------------------
(* Kernel flows and packets.                                                *)

(* ind_ovs_kflow_add *)
KflowAdd(k) ==
  /\ k \notin Installed
  /\ LET e == Lookup(k, slot)
     IN  kflow' = [kflow EXCEPT
           ![k] = [handle |-> HandleOf(e, slot), owner |-> e, packets |-> 0, age |-> 0]]
  /\ kernel' = [kernel EXCEPT ![k] = [n_packets |-> 0, age |-> 0]]
  /\ UNCHANGED <<free_stack, slot, stats, child, changed, expire, aux>>

MatchedBy(e) ==
  /\ packets < MAX_PACKETS
  /\ packets' = packets + 1
  /\ matched' = IF e = NONE THEN matched ELSE [matched EXCEPT ![e] = @ + 1]

(* The kernel matches a packet with a flow.                                 *)
KernelPacket(k) ==
  /\ k \in Installed
  /\ kernel' = [kernel EXCEPT ![k] = [n_packets |-> (@.n_packets + 1) % WORD, age |-> 0]]
  /\ MatchedBy(kflow[k].owner)
  /\ UNCHANGED <<free_stack, slot, stats, kflow, child, changed, expire, raced, clean, orphans>>

(* ind_ovs_handle_packet_miss, of an upcall process with its own copy of    *)
(* the table.                                                               *)
UpcallPacket(k) ==
  LET e == Lookup(k, child)
  IN  /\ k \notin Installed
      /\ stats' = StatsInc(stats, "upcall", HandleOf(e, child), 1)
      /\ MatchedBy(IF e \in orphans THEN NONE ELSE e)
      /\ UNCHANGED <<free_stack, slot, kflow, kernel, child, changed, expire, raced, clean, orphans>>

(* IND_OVS_KFLOW_EXPIRATION_MS pass.                                        *)
Tick ==
  /\ kflow' = [k \in Keys |-> IF k \in Installed THEN [kflow[k] EXCEPT !.age = 1] ELSE NONE]
  /\ kernel' = [k \in Keys |-> IF k \in Installed THEN [kernel[k] EXCEPT !.age = 1] ELSE NONE]
  /\ expire' = [expire EXCEPT
       !.queue = [i \in DOMAIN expire.queue |-> [expire.queue[i] EXCEPT !.age = 1]]]
  /\ UNCHANGED <<free_stack, slot, stats, child, changed, aux>>

-----------------------------------------------------------------------------
(* Expiry.                                                                  *)

(* ind_ovs_kflow_expire, from a timer, asks for a dump.                     *)
KflowExpire ==
  /\ ~expire.running
  /\ expire' = [running |-> TRUE, todo |-> Installed, queue |-> <<>>]
  /\ UNCHANGED <<free_stack, slot, stats, kflow, kernel, child, changed, aux>>

(* The kernel puts a flow, if it still has it, into the socket's buffer.    *)
KernelDump(k) ==
  /\ k \in expire.todo
  /\ expire' = [expire EXCEPT
       !.todo = @ \ {k},
       !.queue = IF k \in Installed
                 THEN Append(@, [key |-> k, n_packets |-> kernel[k].n_packets, age |-> kernel[k].age])
                 ELSE @]
  /\ UNCHANGED <<free_stack, slot, stats, kflow, kernel, child, changed, aux>>

(* kflow_expire reads a message: it counts what the message says, and       *)
(* deletes the flow if it was not used lately.                              *)
KflowExpireMessage ==
  LET msg == Head(expire.queue)
      k == msg.key
      read == Counted({k}, [x \in {k} |-> msg.n_packets])
      dead == Min({kflow[k].age, msg.age}) = 1
      \* ind_ovs_kflow_delete synchronises again, from the message's count
      diff == (kernel[k].n_packets - msg.n_packets) % WORD
  IN  /\ expire.queue # <<>>
      /\ expire' = [expire EXCEPT !.queue = Tail(@)]
      /\ IF k \notin Installed
         THEN UNCHANGED <<stats, kflow, kernel, packets, matched, raced>>
         ELSE IF dead
         THEN /\ stats' = StatsInc(read, "kflow", kflow[k].handle, diff)
              /\ kflow' = [kflow EXCEPT ![k] = NONE]
              /\ kernel' = [kernel EXCEPT ![k] = NONE]
              /\ \E late \in SUBSET {k} : Late(late, slot)
         ELSE /\ stats' = read
              /\ kflow' = [kflow EXCEPT ![k].packets = msg.n_packets,
                                        ![k].age = Min({@, msg.age})]
              /\ UNCHANGED <<kernel, packets, matched, raced>>
      /\ UNCHANGED <<free_stack, slot, child, changed, clean, orphans>>

(* Mutant: kflow_expire_task_running stays set.                             *)
KflowExpireEndRunning ==
  /\ expire.running /\ expire.todo = {} /\ expire.queue = <<>>
  /\ UNCHANGED vars

(* kflow_expire_task at the end of the dump.                                *)
KflowExpireEnd ==
  /\ expire.running /\ expire.todo = {} /\ expire.queue = <<>>
  /\ expire' = [expire EXCEPT !.running = FALSE]
  /\ UNCHANGED <<free_stack, slot, stats, kflow, kernel, child, changed, aux>>

-----------------------------------------------------------------------------
Init ==
  /\ free_stack = [i \in 1 .. MAX_STATS |-> MAX_STATS - i]
  /\ slot = [e \in Entries |-> NONE]
  /\ stats = [w \in Writers |-> [s \in Slots |-> 0]]
  /\ kflow = [k \in Keys |-> NONE]
  /\ kernel = [k \in Keys |-> NONE]
  /\ child = slot
  /\ changed = FALSE
  /\ expire = [running |-> FALSE, todo |-> {}, queue |-> <<>>]
  /\ packets = 0
  /\ matched = [e \in Entries |-> 0]
  /\ raced = matched
  /\ clean = {}
  /\ orphans = {}

Next ==
  \/ \E e \in Entries : EntryCreate(e) \/ EntryDelete(e) \/ EntryDeleteRevalidate(e)
  \/ \E k \in Keys : KflowAdd(k) \/ KernelPacket(k) \/ UpcallPacket(k) \/ KernelDump(k)
  \/ Revalidate \/ Tick \/ KflowExpire \/ KflowExpireMessage \/ KflowExpireEnd

(* Timers fire, the event loop runs its tasks, the kernel answers.          *)
Fairness ==
  /\ WF_vars(Tick) /\ WF_vars(KflowExpire) /\ WF_vars(KflowExpireMessage)
  /\ WF_vars(KflowExpireEnd) /\ \A k \in Keys : WF_vars(KernelDump(k))

Spec == Init /\ [][Next]_vars /\ Fairness

-----------------------------------------------------------------------------
(* Properties.                                                              *)

(* A slot is free once or belongs to one entry: the stack of stats.c is     *)
(* never exhausted by, or full of, what entries hold.                       *)
SlotsOwnedOnce ==
  /\ TypeOK
  /\ \A s \in Slots :
       Cardinality({i \in DOMAIN free_stack : free_stack[i] = s})
         + Cardinality({e \in Entries : slot[e] = s}) = 1

Pending(s) ==
  MapThenSumSet(LAMBDA k : Diff(kflow[k], kernel[k].n_packets),
                {k \in Installed : kflow[k].handle = s})

(* No packet is lost or counted twice on its way from the kernel to an      *)
(* entry whose slot was free of references when it was allocated: what was  *)
(* counted and what the kernel still has is what the entry was applied to,  *)
(* but for the packets that raced.  Stale dump messages, kernel flows that  *)
(* move, go and come back and upcall processes with old tables included     *)
(* (kflow_sync_stats, ind_ovs_kflow_invalidate, ind_ovs_kflow_delete).      *)
EveryPacketCountedOnce ==
  \A e \in clean :
     slot[e] # NONE =>
       (StatsGet(slot[e]) + Pending(slot[e])) % WORD = (matched[e] + raced[e]) % WORD

(* A kernel flow that is not used any more is deleted (kflow_expire_task).  *)
IdleFlowsExpire ==
  \A k \in Keys : []<>(kflow[k] = NONE \/ kernel[k].age = 0)
=============================================================================
