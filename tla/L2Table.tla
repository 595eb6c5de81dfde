------------------------------- MODULE L2Table -------------------------------
(***************************************************************************)
(* l2table.c: an open-addressed hash table with triangular probing and     *)
(* tombstones.  A key stands for a MAC address and a VLAN, a value for a   *)
(* port and metadata.                                                      *)
(***************************************************************************)
EXTENDS Integers, Sequences, FiniteSets, FiniteSetsExt, TLC

LOCAL Seqs == INSTANCE SequencesExt

CONSTANTS
  Keys,
  Values,
  NOT_FOUND, EXISTS, OK,  \* results
  KEY_FREE, KEY_DELETED,  \* keys of unoccupied entries
  HASHES,                 \* the hash values that keys may have
  MAX_SIZE                \* bound on the size of the table

L2TableAssumption ==
  /\ {KEY_FREE, KEY_DELETED} \cap Keys = {}
  /\ KEY_FREE # KEY_DELETED
  /\ HASHES \subseteq Nat
  /\ MAX_SIZE \in Nat \ {0}

VARIABLES
  hash,                   \* the hash function that the salt selects
  t,                      \* the struct l2table
  result                  \* operation, key and result of the last call

vars == <<hash, t, result>>

Entries == [key : Keys \cup {KEY_FREE, KEY_DELETED}, value : Values \cup {NOT_FOUND}]
Free == [key |-> KEY_FREE, value |-> NOT_FOUND]

(* The table is well formed, and the counters count.                       *)
TypeOK ==
  /\ hash \in [Keys -> HASHES]
  /\ t.size \in Nat \ {0}
  /\ t.entries \in [0 .. t.size - 1 -> Entries]
  /\ t.num_occupied = Cardinality({i \in 0 .. t.size - 1 : t.entries[i].key \in Keys})
  /\ t.num_deleted = Cardinality({i \in 0 .. t.size - 1 : t.entries[i].key = KEY_DELETED})

-----------------------------------------------------------------------------
(* Probing.                                                                 *)

(* The index of the i-th probe: triangular steps, modulo a power of two.    *)
Idx(table, k, i) == (hash[k] + (i * (i + 1)) \div 2) % table.size

(* Where the probe for k ends: at k itself or at a free entry.  Triangular  *)
(* steps come back to the same slots after 2 * size probes; without such an *)
(* entry the loop never ends.                                               *)
Ends(table, k) ==
  {i \in 0 .. 2 * table.size - 1 : table.entries[Idx(table, k, i)].key \in {k, KEY_FREE}}

(* l2table_find__: the index of k, or NOT_FOUND.                            *)
Find(table, k) ==
  LET idx == Idx(table, k, Min(Ends(table, k)))
  IN  IF table.entries[idx].key = k THEN idx ELSE NOT_FOUND

(* Mutant: the first unoccupied entry ends the search for a duplicate.      *)
FindUnoccupiedAtOnce(table, k) ==
  LET stops == {i \in 0 .. 2 * table.size - 1 :
                  table.entries[Idx(table, k, i)].key \in {k, KEY_FREE, KEY_DELETED}}
      idx == Idx(table, k, Min(stops))
  IN  IF table.entries[idx].key = k THEN EXISTS ELSE idx

(* l2table_find_unoccupied__: the first unoccupied entry on the way to the  *)
(* free one that ends the search, or EXISTS.                                *)
FindUnoccupied(table, k) ==
  LET end == Min(Ends(table, k))
      unoccupied == {i \in 0 .. end : table.entries[Idx(table, k, i)].key \notin Keys}
  IN  IF table.entries[Idx(table, k, end)].key = k THEN EXISTS
      ELSE Idx(table, k, Min(unoccupied))

-----------------------------------------------------------------------------
(* Operations.                                                              *)

Empty(size) ==
  [entries |-> [i \in 0 .. size - 1 |-> Free],
   size |-> size, num_occupied |-> 0, num_deleted |-> 0]

(* The end of l2table_insert: k goes into the unoccupied entry idx.         *)
Stored(table, idx, k, v) ==
  [table EXCEPT
     !.num_deleted = IF table.entries[idx].key = KEY_DELETED THEN @ - 1 ELSE @,
     !.num_occupied = @ + 1,
     !.entries[idx] = [key |-> k, value |-> v]]

(* Mutant: tombstones are not counted.                                      *)
MustGrowIgnoringDeleted(table) == 2 * (table.num_occupied + 1) > table.size

MustGrow(table) == 2 * (table.num_occupied + table.num_deleted + 1) > table.size

(* l2table_resize__: the occupied entries in order, into a table twice as   *)
(* large.  These insertions never grow it again: HalfFree.                  *)
Resized(table) ==
  LET occupied == SelectSeq([i \in 1 .. table.size |-> table.entries[i - 1]],
                            LAMBDA e : e.key \in Keys)
  IN  Seqs!FoldLeft(LAMBDA new, e : Stored(new, FindUnoccupied(new, e.key), e.key, e.value),
                    Empty(2 * table.size), occupied)

Returns(op, k, r) == result' = [op |-> op, key |-> k, value |-> r]

Lookup(k) ==
  LET idx == Find(t, k)
  IN  /\ Returns("lookup", k, IF idx = NOT_FOUND THEN NOT_FOUND ELSE t.entries[idx].value)
      /\ UNCHANGED <<hash, t>>

(* The table grows before the search for a duplicate.                       *)
Insert(k, v) ==
  LET table == IF MustGrow(t) THEN Resized(t) ELSE t
      idx == FindUnoccupied(table, k)
  IN  /\ MustGrow(t) => 2 * t.size <= MAX_SIZE
      /\ IF idx = EXISTS
         THEN t' = table /\ Returns("insert", k, EXISTS)
         ELSE t' = Stored(table, idx, k, v) /\ Returns("insert", k, OK)
      /\ UNCHANGED hash

Remove(k) ==
  LET idx == Find(t, k)
  IN  /\ IF idx = NOT_FOUND
         THEN t' = t /\ Returns("remove", k, NOT_FOUND)
         ELSE /\ t' = [t EXCEPT !.num_deleted = @ + 1,
                                !.num_occupied = @ - 1,
                                !.entries[idx] = [key |-> KEY_DELETED, value |-> NOT_FOUND]]
              /\ Returns("remove", k, OK)
      /\ UNCHANGED hash

(* l2table_create, with any hash function.                                  *)
Init ==
  /\ hash \in [Keys -> HASHES]
  /\ t = Empty(1)
  /\ result = [op |-> "create", key |-> NOT_FOUND, value |-> OK]

Next == \E k \in Keys : Lookup(k) \/ Remove(k) \/ \E v \in Values : Insert(k, v)

Spec == Init /\ [][Next]_vars

-----------------------------------------------------------------------------
(* Properties.                                                              *)

(* "Ensure that at least half of all entries after the insertion are in     *)
(* state FREE" (l2table_insert), at any mix of occupied and deleted.        *)
HalfFree == 2 * Cardinality({i \in 0 .. t.size - 1 : t.entries[i] = Free}) >= t.size

(* No search runs for ever: "guaranteed to hit every slot in a 2^n sized    *)
(* hashtable" (l2table_find_internal__), and a free one is there.           *)
SearchesEnd == \A k \in Keys : Ends(t, k) # {}

(* The table is a map: insertions, removals and lookups return and do what  *)
(* those of a map do, whatever collides, was deleted or was moved.          *)
Contents ==
  [k \in {k \in Keys : Find(t, k) # NOT_FOUND} |-> t.entries[Find(t, k)].value]
Map == INSTANCE Dictionary WITH dict <- Contents
ImplementsMap == Map!Spec
=============================================================================
