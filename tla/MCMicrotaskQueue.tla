-------------------------- MODULE MCMicrotaskQueue --------------------------
(* Small instances of MicrotaskQueue: an initial capacity of one slot, so that *)
(* a few enqueues double the arrays twice, in the middle of nested drains.     *)
EXTENDS MicrotaskQueue

CONSTANTS f1, f2, e1, e2

MCFuns == {f1, f2}
MCExterns == {e1, e2}
MCJobs == {[fn |-> f1, caps |-> e1, arg |-> e2], [fn |-> f2, caps |-> e2, arg |-> e1]}
=============================================================================
