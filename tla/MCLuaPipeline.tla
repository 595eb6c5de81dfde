---------------------------- MODULE MCLuaPipeline ----------------------------
(* Small instances of LuaPipeline.                                          *)
EXTENDS LuaPipeline

CONSTANTS f1, f2

(* One file registers a table.                                              *)
MCRegisters == (f1 :> 1) @@ (f2 :> 0)
=============================================================================
