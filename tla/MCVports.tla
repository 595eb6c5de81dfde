------------------------------ MODULE MCVports ------------------------------
(* Instances of Vports.                                                     *)
EXTENDS Vports
=============================================================================
