--------------------------- MODULE MCRevalidation ---------------------------
(* Small instances of Revalidation.                                         *)
EXTENDS Revalidation, TLC

CONSTANTS k1, k2, Output, Drop

OnePort == [k \in Keys |-> 1]
MCActions == {Output, Drop}

(* One megaflow for all keys.                                               *)
Wide == [k \in Keys |-> [mask |-> Keys, actions |-> Output]]
(* One exact flow per key, with one action or the other.                    *)
Sending == [k \in Keys |-> [mask |-> {k}, actions |-> Output]]
Dropping == [k \in Keys |-> [mask |-> {k}, actions |-> Drop]]
(* The pipeline fails on k2.                                                *)
Failing == [k \in Keys |-> IF k = k2 THEN PipelineError ELSE Sending[k]]

MaskPrograms == {Wide, Failing}
ActionPrograms == {Sending, Dropping}

(* Connections are interchangeable.                                         *)
CxnSymmetry == Permutations(Cxns)
=============================================================================
