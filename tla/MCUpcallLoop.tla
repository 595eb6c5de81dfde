---------------------------- MODULE MCUpcallLoop ----------------------------
(* Instances of UpcallLoop.                                                 *)
EXTENDS UpcallLoop

(* Two flows share a port; the buckets of f3 are among those of f1 and f4.  *)
MCPortOf(f) == IF f \in {"f1", "f2"} THEN "p1" ELSE "p2"
MCHash(f) == CASE f = "f1" -> {1, 2} [] f = "f2" -> {5} [] f = "f3" -> {2, 3} [] f = "f4" -> {3, 4}
=============================================================================
