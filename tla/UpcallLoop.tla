----------------------------- MODULE UpcallLoop -----------------------------
(***************************************************************************)
(* The loop of an upcall process (upcall.c): batches of packets from the   *)
(* sockets of its ports, the filter that tells a flow's first packet from  *)
(* the others, and the requests for kernel flows that the main process     *)
(* reads from a short datagram socket.  The process may be killed and      *)
(* started again between any two steps.                                    *)
(***************************************************************************)
EXTENDS Integers, Sequences, FiniteSets, FiniteSetsExt, TLC

CONSTANTS
  Flows,                  \* keys of packets
  PortOf(_), Hash(_),     \* the port of a key, the buckets that it hashes to
  Failing, Dropped,       \* keys the pipeline fails for, or has no actions for
  NUM_UPCALL_BUFFERS,
  UPCALLS,                \* packets of a port handled in a row (128)
  BLOOM_CAPACITY,
  SOCKET,                 \* bound: packets that a port's socket holds
  KFLOW_QUEUE,            \* net.unix.max_dgram_qlen
  MAX_RESPAWNS,           \* bound: how often the process is killed
  MAX_EXPIRED             \* bound: how often kernel flows expire

Ports == {PortOf(f) : f \in Flows}

ASSUME UpcallAssumption ==
  /\ Failing \cup Dropped \subseteq Flows
  /\ {NUM_UPCALL_BUFFERS, UPCALLS, BLOOM_CAPACITY, SOCKET, KFLOW_QUEUE} \subseteq Nat \ {0}

VARIABLES
  socks,                  \* port -> packets that wait in its socket
  pc, port,               \* where the loop is, and the port it serves
  events,                 \* ports of this wakeup that are still to be served
  count,                  \* packets of the port so far
  batch, received,        \* packets received and not yet handled, and how many there were
  tx_queue,               \* replies to be sent
  bloom_filter, bloom_filter_count,
  inserted,               \* keys inserted since the filter was cleared
  kflow_sock,             \* requests that the main process has not read
  kflows,                 \* keys with a kernel flow
  respawns, expired

process == <<pc, port, events, count, batch, received, tx_queue, bloom_filter, bloom_filter_count, inserted>>
vars == <<socks, process, kflow_sock, kflows, respawns, expired>>

NoPort == "none"

-----------------------------------------------------------------------------
(* Outside of the process: packets, kernel flows, the main process.         *)

(* A packet that no kernel flow takes goes to the socket of its port.       *)
Kernel_Upcall(f) ==
  /\ f \notin kflows /\ Len(socks[PortOf(f)]) < SOCKET
  /\ socks' = [socks EXCEPT ![PortOf(f)] = Append(@, f)]
  /\ UNCHANGED <<process, kflow_sock, kflows, respawns, expired>>

kflow_sock_ready ==
  /\ kflow_sock # <<>>
  /\ kflows' = kflows \cup {Head(kflow_sock)}
  /\ kflow_sock' = Tail(kflow_sock)
  /\ UNCHANGED <<socks, process, respawns, expired>>

Expire(f) ==
  /\ f \in kflows /\ expired < MAX_EXPIRED
  /\ kflows' = kflows \ {f}
  /\ expired' = expired + 1
  /\ UNCHANGED <<socks, process, kflow_sock, respawns>>

(* The new process has the parent's filter, which nothing was put in.       *)
ind_ovs_upcall_respawn_child ==
  /\ respawns < MAX_RESPAWNS
  /\ respawns' = respawns + 1
  /\ pc' = "wait" /\ port' = NoPort /\ events' = {} /\ count' = 0 /\ batch' = <<>> /\ received' = 0
  /\ tx_queue' = <<>> /\ bloom_filter' = {} /\ bloom_filter_count' = 0 /\ inserted' = {}
  /\ UNCHANGED <<socks, kflow_sock, kflows, expired>>

-----------------------------------------------------------------------------
(* ind_ovs_upcall_thread_main                                               *)

EpollWait ==
  /\ pc = "wait"
  /\ \E p \in Ports : socks[p] # <<>>
  /\ events' = {p \in Ports : socks[p] # <<>>}
  /\ pc' = "event"
  /\ UNCHANGED <<socks, port, count, batch, received, tx_queue, bloom_filter, bloom_filter_count, inserted,
                 kflow_sock, kflows, respawns, expired>>

(* The ports of a wakeup are served in the order that epoll_wait gives.     *)
NextEvent(p) ==
  /\ pc = "event" /\ p \in events
  /\ events' = events \ {p}
  /\ port' = p /\ count' = 0 /\ pc' = "recv"
  /\ UNCHANGED <<socks, batch, received, tx_queue, bloom_filter, bloom_filter_count, inserted,
                 kflow_sock, kflows, respawns, expired>>

EventDone == IF events = {} THEN "wait" ELSE "event"

(* ind_ovs_handle_port_upcalls: recvmmsg, or nothing left.                  *)
Recv ==
  LET n == Min({NUM_UPCALL_BUFFERS, Len(socks[port])})
  IN  /\ pc = "recv"
      /\ IF n = 0
           THEN /\ pc' = EventDone /\ port' = NoPort /\ count' = 0
                /\ UNCHANGED <<socks, batch, received, tx_queue>>
           ELSE /\ batch' = SubSeq(socks[port], 1, n) /\ received' = n /\ tx_queue' = <<>>
                /\ socks' = [socks EXCEPT ![port] = SubSeq(@, n + 1, Len(@))]
                /\ pc' = "handle"
                /\ UNCHANGED <<port, count>>
      /\ UNCHANGED <<events, bloom_filter, bloom_filter_count, inserted, kflow_sock, kflows, respawns, expired>>

(* A request that finds the socket full is dropped.                         *)
ind_ovs_upcall_request_kflow(f) ==
  kflow_sock' = IF Len(kflow_sock) < KFLOW_QUEUE THEN Append(kflow_sock, f) ELSE kflow_sock

Seen(f) == Hash(f) \subseteq bloom_filter

(* Mutants: the count is kept when the filter is cleared; only the first    *)
(* bucket is set.                                                           *)
InsertKeepCount(f) ==
  LET full == bloom_filter_count >= BLOOM_CAPACITY
  IN  /\ bloom_filter' = (IF full THEN {} ELSE bloom_filter) \cup Hash(f)
      /\ bloom_filter_count' = bloom_filter_count + 1
      /\ inserted' = (IF full THEN {} ELSE inserted) \cup {f}
InsertOne(f) ==
  LET full == bloom_filter_count >= BLOOM_CAPACITY
  IN  /\ bloom_filter' = (IF full THEN {} ELSE bloom_filter) \cup {Min(Hash(f))}
      /\ bloom_filter_count' = (IF full THEN 0 ELSE bloom_filter_count) + 1
      /\ inserted' = (IF full THEN {} ELSE inserted) \cup {f}

Insert(f) ==
  LET full == bloom_filter_count >= BLOOM_CAPACITY
  IN  /\ bloom_filter' = (IF full THEN {} ELSE bloom_filter) \cup Hash(f)
      /\ bloom_filter_count' = (IF full THEN 0 ELSE bloom_filter_count) + 1
      /\ inserted' = (IF full THEN {} ELSE inserted) \cup {f}

Reply(f) == IF f \in Failing \cup Dropped THEN tx_queue ELSE Append(tx_queue, f)

(* ind_ovs_handle_packet_miss, for the next packet of the batch.            *)
HandleOneUpcall ==
  LET f == Head(batch)
  IN  /\ pc = "handle"
      /\ batch' = Tail(batch)
      /\ tx_queue' = Reply(f)
      /\ IF f \in Failing THEN UNCHANGED <<bloom_filter, bloom_filter_count, inserted, kflow_sock>>
         ELSE IF Seen(f)
           THEN ind_ovs_upcall_request_kflow(f) /\ UNCHANGED <<bloom_filter, bloom_filter_count, inserted>>
         ELSE Insert(f) /\ UNCHANGED kflow_sock
      /\ pc' = IF Len(batch) = 1 THEN "send" ELSE "handle"
      /\ UNCHANGED <<socks, port, events, count, received, kflows, respawns, expired>>

(* Whether the port is read again.                                          *)
More == received = NUM_UPCALL_BUFFERS /\ count + received < UPCALLS

(* Mutant: what was handled is not added to the count.                      *)
SendUncounted ==
  /\ pc = "send"
  /\ tx_queue' = <<>> /\ received' = 0
  /\ IF More THEN pc' = "recv" /\ UNCHANGED <<count, port>>
     ELSE pc' = EventDone /\ count' = 0 /\ port' = NoPort
  /\ UNCHANGED <<socks, events, batch, bloom_filter, bloom_filter_count, inserted, kflow_sock, kflows,
                 respawns, expired>>

Send ==
  /\ pc = "send"
  /\ tx_queue' = <<>> /\ received' = 0
  /\ IF More THEN pc' = "recv" /\ count' = count + received /\ UNCHANGED port
     ELSE pc' = EventDone /\ count' = 0 /\ port' = NoPort
  /\ UNCHANGED <<socks, events, batch, bloom_filter, bloom_filter_count, inserted, kflow_sock, kflows,
                 respawns, expired>>

-----------------------------------------------------------------------------
Init ==
  /\ socks = [p \in Ports |-> <<>>]
  /\ pc = "wait" /\ port = NoPort /\ events = {} /\ count = 0 /\ batch = <<>> /\ received = 0
  /\ tx_queue = <<>> /\ bloom_filter = {} /\ bloom_filter_count = 0 /\ inserted = {}
  /\ kflow_sock = <<>> /\ kflows = {} /\ respawns = 0 /\ expired = 0

Loop == EpollWait \/ (\E p \in Ports : NextEvent(p)) \/ Recv \/ HandleOneUpcall \/ Send

Next ==
  \/ \E f \in Flows : Kernel_Upcall(f)
  \/ kflow_sock_ready
  \/ \E f \in Flows : Expire(f)
  \/ ind_ovs_upcall_respawn_child
  \/ EpollWait
  \/ \E p \in Ports : NextEvent(p)
  \/ Recv
  \/ HandleOneUpcall
  \/ Send

(* The process runs, and the main process serves its socket.                *)
Spec == Init /\ [][Next]_vars /\ WF_vars(Loop) /\ WF_vars(kflow_sock_ready)

-----------------------------------------------------------------------------
(* Properties.                                                              *)

(* "we reset it after a certain number of insertions": the filter holds     *)
(* exactly the keys inserted since the last reset, as many as it counts and *)
(* at most BLOOM_CAPACITY, also after the process was killed                *)
(* (ind_ovs_upcall_seen_key).                                               *)
FilterWithinCapacity ==
  /\ bloom_filter = UNION {Hash(f) : f \in inserted}
  /\ bloom_filter_count = Cardinality(inserted)
  /\ bloom_filter_count <= BLOOM_CAPACITY

(* A port that never runs out of packets does not keep the loop from the    *)
(* others: a packet that waits is received (the limit of 128 in             *)
(* ind_ovs_handle_port_upcalls).                                            *)
PortsServed ==
  \A p \in Ports : socks[p] # <<>> ~> (pc = "handle" /\ port = p)

(* A flow whose packets keep coming gets a kernel flow, though its first    *)
(* packet asks for none, false positives and resets of the filter change    *)
(* what it knows, requests are dropped when the socket is full and the      *)
(* process is killed, if in the end not more than BLOOM_CAPACITY flows that *)
(* the pipeline knows send packets (ind_ovs_upcall_seen_key,                *)
(* ind_ovs_upcall_request_kflow).                                           *)
BusyFlowsCached ==
  \A F \in SUBSET (Flows \ Failing) : Cardinality(F) <= BLOOM_CAPACITY =>
    \A f \in F :
      /\ []<><<Kernel_Upcall(f)>>_vars
      /\ <>[][\A g \in Flows \ (F \cup Failing) : ~Kernel_Upcall(g)]_vars
      => <>(f \in kflows)
=============================================================================
