------------------------------ MODULE JobQueue ------------------------------
(***************************************************************************)
(* What every client of the microtask queue relies on (Promise reactions,  *)
(* await continuations, queueMicrotask): jobs are started in the order in  *)
(* which they were enqueued, each one once, and none disappears.           *)
(*                                                                         *)
(*   queue   the jobs that were enqueued and not started yet               *)
(*   last    the job started last                                          *)
(*   count   how many jobs were started                                    *)
(***************************************************************************)
EXTENDS Naturals, Sequences

CONSTANTS Jobs, NoJob

VARIABLES queue, last, count

vars == <<queue, last, count>>

Init == queue = <<>> /\ last = NoJob /\ count = 0

Enqueue(j) == queue' = Append(queue, j) /\ UNCHANGED <<last, count>>

Start ==
  /\ queue # <<>>
  /\ last' = Head(queue)
  /\ count' = count + 1
  /\ queue' = Tail(queue)

Next == Start \/ \E j \in Jobs : Enqueue(j)

Spec == Init /\ [][Next]_vars
=============================================================================
