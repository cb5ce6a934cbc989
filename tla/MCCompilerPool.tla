--------------------------- MODULE MCCompilerPool ---------------------------
(* Small instances of CompilerPool: two forks, of which one may stay dead while *)
(* the other works, and enough failures to interrupt a job twice.               *)
EXTENDS CompilerPool
=============================================================================
