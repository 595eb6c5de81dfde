------------------------------- MODULE MCTables -------------------------------
(* The hash tables of the switch, which share nothing: each behaviour works *)
(* on one of them.                                                          *)
EXTENDS Integers, Sequences, TLC

CONSTANTS k1, k2, k3, e1, e2, e3, NOT_FOUND, EXISTS, OK, KEY_FREE, KEY_DELETED, NONE, EMPTY

VARIABLES working, l2_hash, t, result, tcam_hash, entry, shards, size, count, entries, inserted, removed

L2Keys == {k1, k2, k3}
TcamEntries == {e1, e2, e3}

(* Keys are interchangeable: the initial states have every hash function.   *)
TableSymmetry == Permutations(L2Keys) \cup Permutations(TcamEntries)

L2 == INSTANCE L2Table WITH
  Keys <- L2Keys, Values <- {1, 2}, HASHES <- {0, 1, 4}, MAX_SIZE <- 8, hash <- l2_hash

TcamMasks == {{"x"}, {"x", "y"}}
TcamArguments == UNION {{<<mask, masked>> : masked \in [mask -> {0, 1}]} : mask \in TcamMasks}

(* Everything collides; keys share a bucket until the shard grows; keys     *)
(* with the same sum collide.                                               *)
TcamHashFunctions ==
  {[a \in TcamArguments |-> 0],
   [a \in TcamArguments |-> 2 * a[2]["x"]],
   [a \in TcamArguments |-> a[2]["x"] + IF "y" \in a[1] THEN a[2]["y"] ELSE 0]}

Tc == INSTANCE Tcam WITH
  Words <- {"x", "y"}, WordValues <- {0, 1}, Masks <- TcamMasks, Priorities <- {0, 1},
  Entries <- TcamEntries, TCAM_INITIAL_ENTRY_BUCKETS <- 2, HASHES <- 0 .. 2,
  HashFunctions <- TcamHashFunctions, hash <- tcam_hash

(* Five keys that collide in a table of four slots, not all of them in one  *)
(* of eight.                                                                *)
LuaHash == <<1, 1, 2, 6, 8>>

Lua == INSTANCE LuaHashtable WITH
  Keys <- 1 .. 5, Hash <- LuaHash, initial_size <- 4, FAST_PROBES <- 1, MAX_SIZE <- 8

ASSUME TablesAssumption == L2!L2TableAssumption /\ Tc!TcamAssumption /\ Lua!LuaHashtableAssumption

Init ==
  /\ working \in {"l2table", "tcam", "hashtable"}
  /\ L2!Init /\ Tc!Init /\ Lua!Init
  /\ (working # "l2table") => l2_hash = [k \in L2Keys |-> 0]
  /\ (working # "tcam") => tcam_hash = [a \in TcamArguments |-> 0]

Next ==
  \/ /\ working = "l2table" /\ L2!Next
     /\ UNCHANGED <<working, tcam_hash, entry, shards, size, count, entries, inserted, removed>>
  \/ /\ working = "tcam" /\ Tc!Next
     /\ UNCHANGED <<working, l2_hash, t, result, size, count, entries, inserted, removed>>
  \/ /\ working = "hashtable" /\ Lua!Next
     /\ UNCHANGED <<working, l2_hash, t, result, tcam_hash, entry, shards>>

vars == <<working, l2_hash, t, result, tcam_hash, entry, shards, size, count, entries, inserted, removed>>

Spec == Init /\ [][Next]_vars

(* At least half of an l2table is free, its counters count, and no search   *)
(* runs for ever (l2table_insert, l2table_find_internal__).                 *)
SearchesEnd == L2!TypeOK /\ L2!HalfFree /\ L2!SearchesEnd

(* An l2table is a map (l2table_insert, l2table_remove, l2table_lookup).    *)
ImplementsMap == L2!ImplementsMap

(* tcam_match returns a match with the highest priority, and tcam_remove    *)
(* finds every entry where tcam_insert and growth left it.                  *)
MatchIsBest == Tc!TypeOK /\ Tc!RemoveFindsEntry /\ ((working = "tcam") => Tc!MatchIsBest)

(* The mask of tcam_match_and_mask determines its match.                    *)
MaskIsEnough == (working = "tcam") => Tc!MaskIsEnough

(* A Lua hash table loses no entry and duplicates none (insert_internal,    *)
(* remove), and its lookups are right until an entry is removed.            *)
NothingLost == Lua!TypeOK /\ Lua!NothingLost /\ Lua!LookupUntilRemoval
=============================================================================
