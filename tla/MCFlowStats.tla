------------------------------ MODULE MCFlowStats ------------------------------
EXTENDS FlowStats

(* One entry for the key, and a more important one.                         *)
MCMatches == [e \in Entries |-> Keys]
MCPriority == [e \in Entries |-> e]
=============================================================================
