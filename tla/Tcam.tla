--------------------------------- MODULE Tcam ---------------------------------
(***************************************************************************)
(* tcam.c: entries with a key, a mask and a priority, kept in one hash     *)
(* table ("shard") for each mask.  A key is a function from words to       *)
(* values, a mask the set of the words it has bits in.                     *)
(***************************************************************************)
EXTENDS Integers, Sequences, FiniteSets, FiniteSetsExt, Functions, TLC

LOCAL Seqs == INSTANCE SequencesExt

CONSTANTS
  Words, WordValues,      \* keys are [Words -> WordValues]
  Masks,                  \* subsets of Words
  Priorities,
  Entries,                \* the callers' struct tcam_entry
  NONE,
  TCAM_INITIAL_ENTRY_BUCKETS,
  HASHES, HashFunctions   \* the hash functions that salts select

Keys == [Words -> WordValues]

TcamAssumption ==
  /\ Masks \subseteq SUBSET Words
  /\ Priorities \subseteq Nat
  /\ NONE \notin Entries
  /\ TCAM_INITIAL_ENTRY_BUCKETS \in Nat \ {0}
  /\ HASHES \subseteq Nat

VARIABLES
  hash,                   \* hash_key: of a mask and the masked part of a key
  entry,                  \* fields of the inserted entries
  shards                  \* shard_list

vars == <<hash, entry, shards>>

Masked(key, mask) == Restrict(key, mask)
HashKey(key, mask) == hash[<<mask, Masked(key, mask)>>]

Buckets(size) == [0 .. size - 1 -> Seq(Entries)]

(* Shards are well formed.                                                  *)
TypeOK ==
  /\ DOMAIN entry \subseteq Entries
  /\ \A e \in DOMAIN entry : entry[e] \in [key : Keys, mask : Masks, priority : Priorities, hash : HASHES]
  /\ \A i \in 1 .. Len(shards) :
       LET s == shards[i]
       IN  /\ s.mask \in Masks
           /\ s.count = Cardinality({e \in DOMAIN entry : entry[e].mask = s.mask})
           /\ s.count > 0 /\ 2 * s.count <= s.buckets_size
           /\ s.buckets \in Buckets(s.buckets_size)
           /\ \A j \in 1 .. Len(shards) : shards[j].mask = s.mask => i = j

-----------------------------------------------------------------------------
(* The counting Bloom filter: never wrong about a hash that was added, and  *)
(* wrong about those in fp.                                                 *)
BloomCreate == [h \in HASHES |-> 0]
BloomAdd(bloom, h) == [bloom EXCEPT ![h] = @ + 1]
BloomRemove(bloom, h) == [bloom EXCEPT ![h] = @ - 1]
BloomLookup(bloom, h, fp) == bloom[h] > 0 \/ h \in fp

-----------------------------------------------------------------------------
(* Shards.                                                                  *)

ShardCreate(mask) ==
  [mask |-> mask, count |-> 0, buckets_size |-> TCAM_INITIAL_ENTRY_BUCKETS,
   buckets |-> [i \in 0 .. TCAM_INITIAL_ENTRY_BUCKETS - 1 |-> <<>>],
   bloom_filter |-> BloomCreate]

FindShard(mask) == {i \in 1 .. Len(shards) : shards[i].mask = mask}

(* Mutant: entries are pushed to the front of their new bucket.             *)
ShardGrowReversed(s, fields) ==
  LET size == 2 * s.buckets_size
      In(i) == SelectSeq(s.buckets[i % s.buckets_size], LAMBDA e : fields[e].hash % size = i)
  IN  [s EXCEPT !.buckets_size = size,
                !.buckets = [i \in 0 .. size - 1 |-> Seqs!Reverse(In(i))]]

(* tcam_shard_grow: each bucket is split by one more bit of the hash, in    *)
(* order, and the filter is built anew.                                     *)
ShardGrow(s, fields) ==
  LET size == 2 * s.buckets_size
      In(i) == SelectSeq(s.buckets[i % s.buckets_size], LAMBDA e : fields[e].hash % size = i)
      all == UNION {Range(s.buckets[i]) : i \in DOMAIN s.buckets}
  IN  [s EXCEPT
         !.buckets_size = size,
         !.buckets = [i \in 0 .. size - 1 |-> In(i)],
         !.bloom_filter = [h \in HASHES |-> Cardinality({e \in all : fields[e].hash = h})]]

(* tcam_insert: before the first entry of the same or a lower priority.     *)
InsertionPoint(bucket, priority, fields) ==
  Min({i \in 1 .. Len(bucket) : priority >= fields[bucket[i]].priority} \cup {Len(bucket) + 1})

-----------------------------------------------------------------------------
(* Operations.                                                              *)

(* tcam_insert, of an entry that is not inserted.                           *)
Insert(e, key, mask, priority) ==
  LET h == HashKey(key, mask)
      fields == (e :> [key |-> key, mask |-> mask, priority |-> priority, hash |-> h]) @@ entry
      i == IF FindShard(mask) = {} THEN Len(shards) + 1 ELSE Min(FindShard(mask))
      s == IF FindShard(mask) = {} THEN ShardCreate(mask) ELSE shards[i]
      b == h % s.buckets_size
      added == [s EXCEPT
                  !.buckets[b] = Seqs!InsertAt(@, InsertionPoint(@, priority, fields), e),
                  !.count = @ + 1,
                  !.bloom_filter = BloomAdd(@, h)]
      grown == IF 2 * added.count > added.buckets_size THEN ShardGrow(added, fields) ELSE added
  IN  /\ e \notin DOMAIN entry
      /\ entry' = fields
      /\ shards' = [j \in 1 .. Max({i, Len(shards)}) |-> IF j = i THEN grown ELSE shards[j]]
      /\ UNCHANGED hash

(* tcam_remove, of an inserted entry; the shard goes with its last entry.   *)
Remove(e) ==
  /\ e \in DOMAIN entry
  /\ \E i \in FindShard(entry[e].mask) :
       LET s == shards[i]
           b == HashKey(entry[e].key, entry[e].mask) % s.buckets_size
           removed == [s EXCEPT !.buckets[b] = SelectSeq(@, LAMBDA x : x # e),
                                !.count = @ - 1,
                                !.bloom_filter = BloomRemove(@, entry[e].hash)]
       IN  shards' = IF removed.count = 0 THEN Seqs!RemoveAt(shards, i)
                     ELSE [shards EXCEPT ![i] = removed]
  /\ entry' = [x \in DOMAIN entry \ {e} |-> entry[x]]
  /\ UNCHANGED hash

(* The scan of one shard in tcam_match_and_mask: the first entry of the     *)
(* bucket that matches, no further than the priority found so far.          *)
Scan(s, key, found, fp) ==
  LET h == HashKey(key, s.mask)
      bucket == s.buckets[h % s.buckets_size]
      priority == IF found = NONE THEN 0 ELSE entry[found].priority
      hits == {i \in 1 .. Len(bucket) :
                 /\ \A j \in 1 .. i : entry[bucket[j]].priority >= priority
                 /\ entry[bucket[i]].hash = h
                 /\ Masked(entry[bucket[i]].key, s.mask) = Masked(key, s.mask)}
  IN  IF ~BloomLookup(s.bloom_filter, h, fp) \/ hits = {} THEN found ELSE bucket[Min(hits)]

(* tcam_match, and the entry that tcam_match_and_mask returns.              *)
Match(key, fp) ==
  Seqs!FoldLeft(LAMBDA found, s : Scan(s, key, found, fp), NONE, shards)

(* Mutant: shards that the Bloom filter rules out are left out of the mask. *)
MatchMaskOfScanned(key, fp) ==
  UNION {shards[i].mask : i \in
           {j \in 1 .. Len(shards) :
              BloomLookup(shards[j].bloom_filter, HashKey(key, shards[j].mask), fp)}}

(* The mask that tcam_match_and_mask adds.                                  *)
MatchMask(key, fp) == UNION {shards[i].mask : i \in 1 .. Len(shards)}

(* tcam_create.                                                             *)
Init ==
  /\ hash \in HashFunctions
  /\ entry = <<>>
  /\ shards = <<>>

Next ==
  \E e \in Entries :
     \/ Remove(e)
     \/ \E key \in Keys, mask \in Masks, priority \in Priorities : Insert(e, key, mask, priority)

Spec == Init /\ [][Next]_vars

-----------------------------------------------------------------------------
(* Properties.                                                              *)

(* An entry is in the bucket that its hash selects among those of the shard *)
(* of its mask, and nowhere else: "entry does not exist during remove" and  *)
(* "shard does not exist during remove" (tcam_remove) never happen.         *)
RemoveFindsEntry ==
  \A e \in DOMAIN entry :
     \E i \in 1 .. Len(shards) :
        /\ shards[i].mask = entry[e].mask
        /\ \A j \in 1 .. Len(shards) :
             \A b \in DOMAIN shards[j].buckets :
                e \in Range(shards[j].buckets[b])
                   <=> j = i /\ b = entry[e].hash % shards[i].buckets_size

Matching(key) == {e \in DOMAIN entry : Masked(entry[e].key, entry[e].mask) = Masked(key, entry[e].mask)}

(* A lookup returns a matching entry with the highest priority if there is  *)
(* any, whatever was inserted, removed or moved, and whatever the filter    *)
(* wrongly holds possible (tcam_match).                                     *)
MatchIsBest ==
  \A key \in Keys, fp \in SUBSET HASHES :
     LET found == Match(key, fp)
     IN  IF Matching(key) = {} THEN found = NONE
         ELSE /\ found \in Matching(key)
              /\ \A e \in Matching(key) : entry[e].priority <= entry[found].priority

(* The mask is what the kernel's wildcarding rests on: every key that       *)
(* agrees with this one on it has the same match (tcam_match_and_mask).     *)
MaskIsEnough ==
  \A key, other \in Keys, fp \in SUBSET HASHES :
     Masked(key, MatchMask(key, fp)) = Masked(other, MatchMask(key, fp))
        => Match(key, fp) = Match(other, fp)
=============================================================================
