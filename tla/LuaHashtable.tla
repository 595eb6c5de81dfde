----------------------------- MODULE LuaHashtable -----------------------------
(***************************************************************************)
(* hashtable.lua: the Robin Hood hash table that Lua pipelines keep their  *)
(* tables in.  A removed entry stays as a tombstone that keeps its hash.   *)
(* A key stands for its key fields and its value fields, which always move *)
(* together.                                                               *)
(***************************************************************************)
EXTENDS Integers, FiniteSets, FiniteSetsExt

CONSTANTS
  Keys,
  Hash,               \* hash_key: [Keys -> hashes]
  EMPTY,
  initial_size,
  FAST_PROBES,        \* number of lookup_int_fast calls in lookup_int
  MAX_SIZE            \* bound on the size of the table

LuaHashtableAssumption ==
  /\ Hash \in [Keys -> Nat \ {0}]
  /\ initial_size \in Nat \ {0}
  /\ FAST_PROBES \in Nat
  /\ MAX_SIZE \in Nat

VARIABLES
  size, count, entries,
  inserted,           \* auxiliary: the keys inserted and not removed
  removed             \* auxiliary: a key was removed since the table last grew

vars == <<size, count, entries, inserted, removed>>

Entry == [key : Keys, deleted : BOOLEAN]
Live(e) == e # EMPTY /\ ~e.deleted

(* The table is well formed.                                                *)
TypeOK ==
  /\ size \in Nat /\ count \in 0 .. size
  /\ entries \in [0 .. size - 1 -> Entry \cup {EMPTY}]
  /\ inserted \subseteq Keys
  /\ removed \in BOOLEAN

-----------------------------------------------------------------------------
index(n, k, dist) == (Hash[k] + dist) % n
distance(n, idx, k) == (idx + n - index(n, k, 0)) % n

(* Mutant: a victim starts again one slot too late.                         *)
RECURSIVE insert_internal_skipping(_, _, _, _)
insert_internal_skipping(n, ents, k, dist) ==
  LET idx == index(n, k, dist)
      e == ents[idx]
      new == [ents EXCEPT ![idx] = [key |-> k, deleted |-> FALSE]]
  IN  CASE dist >= n -> ents
        [] dist < n /\ ~Live(e) -> new
        [] dist < n /\ Live(e) /\ distance(n, idx, e.key) < dist
             -> insert_internal_skipping(n, new, e.key, distance(n, idx, e.key) + 2)
        [] OTHER -> insert_internal_skipping(n, ents, k, dist + 1)

(* insert_internal: the first empty or deleted slot, or that of an entry    *)
(* closer to its home, which is then inserted further on.                   *)
RECURSIVE insert_internal(_, _, _, _)
insert_internal(n, ents, k, dist) ==
  LET idx == index(n, k, dist)
      e == ents[idx]
      new == [ents EXCEPT ![idx] = [key |-> k, deleted |-> FALSE]]
  IN  CASE dist >= n -> ents
        [] dist < n /\ ~Live(e) -> new
        [] dist < n /\ Live(e) /\ distance(n, idx, e.key) < dist
             -> insert_internal(n, new, e.key, distance(n, idx, e.key) + 1)
        [] OTHER -> insert_internal(n, ents, k, dist + 1)

(* grow: the live entries in order, into a table twice as large.            *)
Grown ==
  LET n == 2 * size
      Step[i \in 0 .. size] ==
        IF i = 0 THEN [j \in 0 .. n - 1 |-> EMPTY]
        ELSE IF Live(entries[i - 1]) THEN insert_internal(n, Step[i - 1], entries[i - 1].key, 0)
        ELSE Step[i - 1]
  IN  Step[size]

(* load_factor is 0.8.                                                      *)
MustGrow == 5 * count >= 4 * size

(* insert.  Nothing checks for a duplicate: callers insert absent keys.     *)
Insert(k) ==
  /\ k \notin inserted
  /\ MustGrow => 2 * size <= MAX_SIZE
  /\ size' = IF MustGrow THEN 2 * size ELSE size
  /\ entries' = insert_internal(size', IF MustGrow THEN Grown ELSE entries, k, 0)
  /\ count' = count + 1
  /\ inserted' = inserted \cup {k}
  /\ removed' = (removed /\ ~MustGrow)

At(k, dist) ==
  LET e == entries[index(size, k, dist)] IN Live(e) /\ e.key = k

(* The probe of lookup_int_slow that ends at an empty slot or at an entry,  *)
(* live or deleted, that is closer to its home than k would be.             *)
Breaks(k, dist) ==
  LET idx == index(size, k, dist)
  IN  entries[idx] = EMPTY \/ distance(size, idx, entries[idx].key) < dist

lookup_int_slow(k) ==
  \E dist \in 0 .. size - 1 : At(k, dist) /\ \A d \in 0 .. dist - 1 : ~Breaks(k, d)

lookup_int(k) == (\E dist \in 0 .. FAST_PROBES - 1 : At(k, dist)) \/ lookup_int_slow(k)

Found(k) == {dist \in 0 .. size - 1 : At(k, dist)}

(* remove, of an inserted key: it looks at every slot.                      *)
Remove(k) ==
  /\ k \in inserted
  /\ Found(k) # {}
  /\ entries' = [entries EXCEPT ![index(size, k, Min(Found(k)))].deleted = TRUE]
  /\ count' = count - 1
  /\ inserted' = inserted \ {k}
  /\ removed' = TRUE
  /\ UNCHANGED size

(* create *)
Init ==
  /\ size = initial_size
  /\ count = 0
  /\ entries = [i \in 0 .. initial_size - 1 |-> EMPTY]
  /\ inserted = {}
  /\ removed = FALSE

Next == \E k \in Keys : Insert(k) \/ Remove(k)

Spec == Init /\ [][Next]_vars

-----------------------------------------------------------------------------
(* Properties.                                                              *)

(* Stealing slots, reusing tombstones and growing lose no entry and         *)
(* duplicate none, and the counter that decides on growth is exact: remove  *)
(* never raises "Did not find entry during remove".                         *)
NothingLost ==
  /\ count = Cardinality(inserted)
  /\ \A k \in Keys :
       Cardinality({i \in 0 .. size - 1 : Live(entries[i]) /\ entries[i].key = k})
         = IF k \in inserted THEN 1 ELSE 0

(* From the creation or the last growth to the first removal after it, a    *)
(* lookup finds exactly the inserted keys.                                  *)
LookupUntilRemoval == ~removed => \A k \in Keys : lookup_int(k) <=> k \in inserted
=============================================================================
