----------------------------- MODULE MCPromises -----------------------------
(* Small instances of Promises.                                                *)
EXTENDS Promises
=============================================================================
