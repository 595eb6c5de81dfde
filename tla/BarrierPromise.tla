---------------------------- MODULE BarrierPromise ----------------------------
(***************************************************************************)
(* What the flow cache promises the controller, without kernel flows,      *)
(* processes, timers or tables.  Packets are treated from a cache that may *)
(* lag behind the forwarding state.  The cache draws on the forwarding     *)
(* states in force since it was last brought up to date, and a connection  *)
(* that has changed the forwarding state gets no barrier reply until then. *)
(***************************************************************************)
CONSTANTS Cxns, NoCxn, Keys, Actions, Programs, PipelineError

VARIABLES
  fwd,        \* the current forwarding state
  inforce,    \* the forwarding states the cache may draw on
  since,      \* for each connection, the forwarding states since its last change
  held,       \* connections whose barrier reply is held back
  cache       \* pairs of a key and the actions a packet with this key may get

vars == <<fwd, inforce, since, held, cache>>

(* The treatment of packets that the forwarding states in W prescribe.      *)
Treatments(W) ==
  {ka \in Keys \X Actions :
     \E p \in W : p[ka[1]] # PipelineError /\ p[ka[1]].actions = ka[2]}

Init ==
  /\ fwd \in Programs
  /\ inforce = {fwd}
  /\ since = [c \in Cxns |-> {fwd}]
  /\ held = {}
  /\ cache \in SUBSET Treatments({fwd})

Restart ==
  /\ fwd' \in Programs
  /\ inforce' = {fwd'}
  /\ since' = [c \in Cxns |-> {fwd'}]
  /\ held' = {}

(* A change of the forwarding state by connection c, or by none (NoCxn).    *)
(* The change may bring the cache up to date on its way.                    *)
Change(c) ==
  /\ fwd' \in Programs
  /\ since' = [d \in Cxns |-> IF d = c THEN {fwd'} ELSE since[d] \cup {fwd'}]
  /\ \/ /\ inforce' = inforce \cup {fwd'}
        /\ held' = held \cup ({c} \cap Cxns)
     \/ /\ inforce' = {fwd'}
        /\ held' = {c} \cap Cxns

(* The cache is brought up to date and all barriers are released.           *)
Sync ==
  /\ inforce' = {fwd}
  /\ held' = {}
  /\ UNCHANGED <<fwd, since>>

(* Entries come and go between changes.                                     *)
Fill == UNCHANGED <<fwd, inforce, since, held>>

Next ==
  /\ \/ Restart
     \/ \E c \in Cxns \cup {NoCxn} : Change(c)
     \/ Sync
     \/ Fill
  /\ cache' \in SUBSET Treatments(inforce')

Spec == Init /\ [][Next]_vars
=============================================================================
