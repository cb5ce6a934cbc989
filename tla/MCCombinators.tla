---------------------------- MODULE MCCombinators ----------------------------
(* Small instances of promises with combinators.                               *)
EXTENDS Combinators
=============================================================================
