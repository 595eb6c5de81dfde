--------------------------- MODULE StandardResources ---------------------------
(***************************************************************************)
(* What the entries and groups of the standard pipeline hold: references   *)
(* to groups and slots for statistics, through every error path of         *)
(* parse_value and parse_group_value and through the pipeline's own        *)
(* beginning and end.                                                      *)
(*                                                                         *)
(* An action is a group, OK (it is translated and holds nothing) or BAD    *)
(* (it is refused).  The state manager, which owns the groups' references, *)
(* is external: it gives out groups that exist and deletes those that      *)
(* nothing refers to.                                                      *)
(***************************************************************************)
EXTENDS Integers, Sequences, FiniteSets, FiniteSetsExt, Functions

LOCAL Seqs == INSTANCE SequencesExt

CONSTANTS
  Groups, Flows, OK, BAD,
  Instructions,           \* lists of instructions that flow messages have
  BucketLists,            \* lists of buckets that group messages have
  NUM_TABLES, NUM_STATS

ResourcesAssumption ==
  /\ NUM_TABLES \in Nat \ {0} /\ NUM_STATS \in Nat
  /\ OK \notin Groups /\ BAD \notin Groups

VARIABLES
  running,                \* between pipeline_standard_init and _finish
  table,                  \* of the installed flows: [id, apply, write, next, slot]
  group,                  \* of the existing groups: [type, buckets]
  refs,                   \* references that the state manager counts
  slots,                  \* slots for statistics that are in use
  modified                \* groups that were modified since they were made

vars == <<running, table, group, refs, slots, modified>>

Free == 1 .. NUM_STATS \ slots
NOTABLE == -1

(* n calls of stats_alloc; which of the free slots they return does not     *)
(* matter here.                                                             *)
Allocations(n) ==
  IF Cardinality(Free) < n THEN {}
  ELSE {[i \in 1 .. n |-> CHOOSE s \in Free : Cardinality({r \in Free : r < s}) = i - 1]}

(* The occurrences of a group in a list of actions.                         *)
Uses(acts, g) == Cardinality({i \in DOMAIN acts : acts[i] = g})
BucketUses(buckets, g) ==
  MapThenSumSet(LAMBDA i : Uses(buckets[i].actions, g), DOMAIN buckets)

-----------------------------------------------------------------------------
(* Translation of actions.                                                  *)

(* The actions that are refused: indigo_core_group_acquire returns no group *)
(* that does not exist.                                                     *)
Refused(acts) == {i \in DOMAIN acts : acts[i] = BAD \/ acts[i] \in Groups \ DOMAIN group}

(* pipeline_standard_translate_openflow_actions: what it has appended, each *)
(* group with a reference, when it ends or is refused an action.            *)
Translated(acts) ==
  IF Refused(acts) = {} THEN acts ELSE SubSeq(acts, 1, Min(Refused(acts)) - 1)

(* The references after those of the actions in taken are acquired and      *)
(* those in released are released.                                          *)
Refs(taken, released) ==
  [g \in Groups |-> refs[g] + Uses(taken, g) - Uses(released, g)]

-----------------------------------------------------------------------------
(* Flow entries.                                                            *)

(* An instruction fails: an action is refused, the next table is out of     *)
(* range, or the instruction is not known.                                  *)
Fails(inst, id) ==
  \/ inst.kind \in {"apply", "write"} /\ Refused(inst.actions) # {}
  \/ inst.kind = "goto" /\ (inst.table <= id \/ inst.table >= NUM_TABLES)
  \/ inst.kind = "unknown"

ParsedActions(insts, kind) ==
  Seqs!FoldLeft(LAMBDA acts, inst : IF inst.kind = kind THEN acts \o Translated(inst.actions) ELSE acts,
                <<>>, insts)

(* parse_value: the lists of actions it has made, and whether it is to be   *)
(* used; if not the lists are cleaned up.                                   *)
parse_value(insts, id) ==
  LET failing == {i \in DOMAIN insts : Fails(insts[i], id)}
      seen == IF failing = {} THEN insts ELSE SubSeq(insts, 1, Min(failing))
      gotos == {i \in DOMAIN seen : seen[i].kind = "goto"}
  IN  [ok |-> failing = {}, apply |-> ParsedActions(seen, "apply"), write |-> ParsedActions(seen, "write"),
       next |-> IF gotos = {} THEN NOTABLE ELSE seen[Max(gotos)].table]

(* Mutant: the list of written actions is not cleaned up.                   *)
cleanup_apply(value) == value.apply

(* pipeline_standard_cleanup_actions of both lists.                         *)
cleanup_value(value) == value.apply \o value.write

(* What the translation of both lists acquired.                             *)
Taken(value) == value.apply \o value.write

(* A value that is not used releases what it acquired.                      *)
ParseFailure(value) ==
  /\ ~value.ok
  /\ refs' = Refs(Taken(value), cleanup_value(value))
  /\ UNCHANGED <<running, table, group, slots, modified>>

flowtable_entry_create(f, id, insts) ==
  LET value == parse_value(insts, id)
  IN  /\ running /\ f \notin DOMAIN table
      /\ \/ ParseFailure(value)
         \/ /\ value.ok
            /\ refs' = Refs(Taken(value), <<>>)
            /\ \E s \in Allocations(1) :
                 /\ slots' = slots \cup Range(s)
                 /\ table' = [x \in DOMAIN table \cup {f} |->
                                IF x # f THEN table[x]
                                ELSE [id |-> id, apply |-> value.apply, write |-> value.write,
                                      next |-> value.next, slot |-> s[1]]]
            /\ UNCHANGED <<running, group, modified>>

flowtable_entry_modify(f, insts) ==
  LET value == parse_value(insts, table[f].id)
  IN  /\ f \in DOMAIN table
      /\ \/ ParseFailure(value)
         \/ /\ value.ok
            /\ refs' = Refs(Taken(value), cleanup_value(table[f]))
            /\ table' = [table EXCEPT ![f].apply = value.apply, ![f].write = value.write,
                                      ![f].next = value.next]
            /\ UNCHANGED <<running, group, slots, modified>>

flowtable_entry_delete(f) ==
  /\ f \in DOMAIN table
  /\ refs' = Refs(<<>>, cleanup_value(table[f]))
  /\ slots' = slots \ {table[f].slot}
  /\ table' = [x \in DOMAIN table \ {f} |-> table[x]]
  /\ UNCHANGED <<running, group, modified>>

-----------------------------------------------------------------------------
(* Groups.                                                                  *)

(* The first bucket that is refused: its weight does not fit the type, it   *)
(* is the second of an indirect group, or an action is refused.             *)
BucketFails(type, buckets, i) ==
  \/ buckets[i].weight > 0 /\ type # "select"
  \/ buckets[i].weight = 0 /\ type = "select"
  \/ type = "indirect" /\ i > 1
  \/ Refused(buckets[i].actions) # {}

(* A bucket whose weight or place is wrong has a slot, and no actions yet.  *)
BucketActions(type, buckets, i) ==
  IF (buckets[i].weight > 0) # (type = "select") \/ (type = "indirect" /\ i > 1) THEN <<>>
  ELSE Translated(buckets[i].actions)

(* parse_group_value: the buckets it has made, with a slot each.            *)
parse_group_value(type, buckets) ==
  LET failing == {i \in DOMAIN buckets : BucketFails(type, buckets, i)}
      n == IF failing = {} THEN Len(buckets) ELSE Min(failing)
  IN  [ok |-> failing = {}, lists |-> [i \in 1 .. n |-> BucketActions(type, buckets, i)]]

AllActions(lists) == Seqs!FlattenSeq(lists)
ActionsOf(buckets) == AllActions([i \in DOMAIN buckets |-> buckets[i].actions])
SlotsOf(buckets) == {buckets[i].slot : i \in DOMAIN buckets}

(* cleanup_group_value after an error.                                      *)
Abandoned(lists) == AllActions(lists)

GroupFailure(value) ==
  /\ ~value.ok
  /\ refs' = Refs(AllActions(value.lists), Abandoned(value.lists))
  /\ UNCHANGED <<running, table, group, slots, modified>>

WithSlots(lists, s) == [i \in DOMAIN lists |-> [actions |-> lists[i], slot |-> s[i]]]

group_create(g, type, buckets) ==
  LET value == parse_group_value(type, buckets)
  IN  /\ running /\ g \notin DOMAIN group
      /\ \/ GroupFailure(value)
         \/ /\ value.ok
            /\ refs' = Refs(AllActions(value.lists), <<>>)
            /\ \E s \in Allocations(Len(value.lists)) :
                 /\ slots' = slots \cup Range(s)
                 /\ group' = [x \in DOMAIN group \cup {g} |->
                                IF x # g THEN group[x]
                                ELSE [type |-> type, buckets |-> WithSlots(value.lists, s)]]
            /\ modified' = modified \ {g}
            /\ UNCHANGED <<running, table>>

(* cleanup_group_value of the old buckets.                                  *)
ReleasedByModify(g) == ActionsOf(group[g].buckets)

group_modify(g, buckets) ==
  LET value == parse_group_value(group[g].type, buckets)
  IN  /\ running /\ g \in DOMAIN group
      /\ \/ GroupFailure(value)
         \/ /\ value.ok
            /\ refs' = Refs(AllActions(value.lists), ReleasedByModify(g))
            /\ \E s \in Allocations(Len(value.lists)) :
                 /\ slots' = (slots \ SlotsOf(group[g].buckets)) \cup Range(s)
                 /\ group' = [group EXCEPT ![g].buckets = WithSlots(value.lists, s)]
            /\ modified' = modified \cup {g}
            /\ UNCHANGED <<running, table>>

group_delete(g) ==
  /\ g \in DOMAIN group
  /\ refs[g] = 0
  /\ refs' = Refs(<<>>, ActionsOf(group[g].buckets))
  /\ slots' = slots \ SlotsOf(group[g].buckets)
  /\ group' = [x \in DOMAIN group \ {g} |-> group[x]]
  /\ UNCHANGED <<running, table, modified>>

-----------------------------------------------------------------------------
(* The pipeline itself: two slots for each table.                           *)

pipeline_standard_init ==
  /\ ~running /\ group = <<>>
  /\ slots' = 1 .. 2 * NUM_TABLES
  /\ running' = TRUE
  /\ UNCHANGED <<table, group, refs, modified>>

(* The tables go first, with their entries; the groups that are left are    *)
(* deleted afterwards.                                                      *)
pipeline_standard_finish ==
  /\ running
  /\ running' = FALSE
  /\ refs' = Refs(<<>>, Seqs!FoldLeft(LAMBDA acts, f : acts \o cleanup_value(table[f]),
                                      <<>>, Seqs!SetToSeq(DOMAIN table)))
  /\ slots' = slots \ ((1 .. 2 * NUM_TABLES) \cup {table[f].slot : f \in DOMAIN table})
  /\ table' = <<>>
  /\ UNCHANGED <<group, modified>>

Init ==
  /\ running = FALSE
  /\ table = <<>> /\ group = <<>>
  /\ refs = [g \in Groups |-> 0]
  /\ slots = {}
  /\ modified = {}

(* Fast failover groups are parsed like those of type all.                  *)
Next ==
  \/ pipeline_standard_init
  \/ pipeline_standard_finish
  \/ \E f \in Flows, id \in 0 .. NUM_TABLES - 1, insts \in Instructions : flowtable_entry_create(f, id, insts)
  \/ \E f \in Flows, insts \in Instructions : flowtable_entry_modify(f, insts)
  \/ \E f \in Flows : flowtable_entry_delete(f)
  \/ \E g \in Groups, type \in {"select", "indirect", "all"}, buckets \in BucketLists :
       group_create(g, type, buckets)
  \/ \E g \in Groups, buckets \in BucketLists : group_modify(g, buckets)
  \/ \E g \in Groups : group_delete(g)

Spec == Init /\ [][Next]_vars

-----------------------------------------------------------------------------
(* Properties.                                                              *)

(* Entries and groups are well formed.                                      *)
TypeOK ==
  /\ DOMAIN table \subseteq Flows /\ DOMAIN group \subseteq Groups
  /\ refs \in [Groups -> Nat]
  /\ slots \subseteq 1 .. NUM_STATS
  /\ modified \subseteq Groups
  /\ \A f \in DOMAIN table :
       running /\ table[f].next \in {NOTABLE} \cup (table[f].id + 1 .. NUM_TABLES - 1)

(* The state manager's count of a group is the number of group actions that *)
(* installed entries and groups have for it, whatever was refused, modified *)
(* or deleted: a group that can be deleted is one that nothing points to    *)
(* (indigo_core_group_acquire and _release in pipeline_standard).           *)
RefsExact ==
  \A g \in Groups :
     refs[g] = MapThenSumSet(LAMBDA f : Uses(table[f].apply, g) + Uses(table[f].write, g), DOMAIN table)
               + MapThenSumSet(LAMBDA h : BucketUses(group[h].buckets, g), DOMAIN group)

(* Actions hold pointers to groups: none points to a group that is gone.    *)
NoDanglingGroup ==
  \A g \in Groups \ DOMAIN group :
     /\ \A f \in DOMAIN table : Uses(table[f].apply \o table[f].write, g) = 0
     /\ \A h \in DOMAIN group : BucketUses(group[h].buckets, g) = 0

(* A slot is in use exactly if one entry, one bucket or one counter of a    *)
(* table has it: none is lost and none is shared (stats_alloc and           *)
(* stats_free in pipeline_standard).                                        *)
SlotsExact ==
  LET own == IF running THEN 1 .. 2 * NUM_TABLES ELSE {}
      entries == {table[f].slot : f \in DOMAIN table}
      buckets == UNION {SlotsOf(group[g].buckets) : g \in DOMAIN group}
  IN  /\ slots = own \cup entries \cup buckets
      /\ Cardinality(slots) = Cardinality(own) + Cardinality(DOMAIN table)
                              + MapThenSumSet(LAMBDA g : Len(group[g].buckets), DOMAIN group)

(* A group refers to groups that were there before it, so that              *)
(* process_group comes to an end; only group_modify can close a loop.       *)
LoopsNeedModify ==
  \A hs \in SUBSET (DOMAIN group \ modified) :
     (hs # {}) => \E h \in hs : \A g \in hs : BucketUses(group[h].buckets, g) = 0
=============================================================================
