------------------------------ MODULE Dictionary ------------------------------
(***************************************************************************)
(* What a hash table promises its callers: a map from keys to values, and  *)
(* the result of the last call.  L2Table implements it.                    *)
(***************************************************************************)
EXTENDS TLC

CONSTANTS
  Keys,
  Values,
  NOT_FOUND,          \* result of a lookup or removal of an absent key
  EXISTS,             \* result of the insertion of a present key
  OK                  \* result of a successful insertion or removal

VARIABLES
  dict,               \* the map
  result              \* the key, the operation and its result

vars == <<dict, result>>

Returns(op, k, r) == result' = [op |-> op, key |-> k, value |-> r]

Init == dict = <<>> /\ result = [op |-> "create", key |-> NOT_FOUND, value |-> OK]

Lookup(k) ==
  /\ Returns("lookup", k, IF k \in DOMAIN dict THEN dict[k] ELSE NOT_FOUND)
  /\ UNCHANGED dict

Insert(k, v) ==
  \/ /\ k \in DOMAIN dict
     /\ Returns("insert", k, EXISTS)
     /\ UNCHANGED dict
  \/ /\ k \notin DOMAIN dict
     /\ Returns("insert", k, OK)
     /\ dict' = (k :> v) @@ dict

Remove(k) ==
  \/ /\ k \notin DOMAIN dict
     /\ Returns("remove", k, NOT_FOUND)
     /\ UNCHANGED dict
  \/ /\ k \in DOMAIN dict
     /\ Returns("remove", k, OK)
     /\ dict' = [j \in DOMAIN dict \ {k} |-> dict[j]]

Next == \E k \in Keys : Lookup(k) \/ Remove(k) \/ \E v \in Values : Insert(k, v)

Spec == Init /\ [][Next]_vars
=============================================================================
