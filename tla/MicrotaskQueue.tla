--------------------------- MODULE MicrotaskQueue ---------------------------
(***************************************************************************)
(* The Wasm-owned microtask queue of the native async runtime              *)
(* (runtime/wasmgc/async/microtask-queue-bodies.ts) and its callers: an    *)
(* export running user code, the full and the single-job drain, and the    *)
(* JavaScript embedder's checkpoint (runtime/native-microtask-checkpoint). *)
(*                                                                         *)
(* The queue is three parallel arrays addressed by head and tail.  One     *)
(* thread runs, so __microtask_enqueue and __microtask_grow are atomic;    *)
(* what interleaves is user code: a job may enqueue, drain the queue again *)
(* while an outer drain is on the stack, or throw through it.              *)
(***************************************************************************)
EXTENDS Naturals, Sequences

CONSTANTS
  Funs,              \* funcrefs a slot of __mt_funcs may hold
  Externs,           \* externrefs a slot of __mt_caps / __mt_args may hold
  Jobs,              \* the (fn, caps, arg) triples that clients enqueue
  Null,              \* ref.null
  NoJob,             \* no job has been started yet
  InitialCapacity,   \* MICROTASK_QUEUE_INITIAL_SLOTS
  MayThrow,          \* whether user code may end in an uncaught exception
  MaxEnqueues,       \* bound: enqueues in a behaviour
  MaxExports,        \* bound: export calls in a behaviour
  MaxDepth           \* bound: nested activations

ASSUME QueueAssumption ==
  /\ Null \notin Funs \cup Externs
  /\ Jobs \subseteq [fn : Funs, caps : Externs, arg : Externs]
  /\ InitialCapacity \in Nat \ {0}
  /\ MayThrow \in BOOLEAN
  /\ MaxEnqueues \in Nat /\ MaxExports \in Nat /\ MaxDepth \in Nat

VARIABLES
  q,            \* the six __mt_* globals
  stack,        \* activations, innermost last
  last,         \* the job whose callback was called last
  count,        \* jobs started so far
  enqueued,     \* enqueues so far
  exports,      \* export calls so far
  checkpoints,  \* host microtasks queued by the embedder's checkpoint
  escaped       \* history: an exception reached the host since an export last returned

vars == <<q, stack, last, count, enqueued, exports, checkpoints, escaped>>

-----------------------------------------------------------------------------
(* The queue's data: pure functions from one state of the globals to the next *)

\* A null array global is the array with no slots: array.new never makes one.
NullArray == [i \in {} |-> Null]

InitialQueue == [head |-> 0, tail |-> 0, cap |-> 0,
                 funcs |-> NullArray, caps |-> NullArray, args |-> NullArray]

\* Mutation: the copy starts at slot 0 instead of at head.
MovedFromZero(a, h, t, n) == [i \in 0..(n-1) |-> IF i < t - h THEN a[i] ELSE Null]

\* A fresh array of n null slots that begins with the live slice of a.
MovedSlice(a, h, t, n) == [i \in 0..(n-1) |-> IF i < t - h THEN a[h + i] ELSE Null]

\* Mutations of the growth: head is kept; one of the arrays is not copied.
GrowKeepingHead(s, n) ==
  [head  |-> s.head, tail |-> s.tail - s.head, cap |-> n,
   funcs |-> MovedSlice(s.funcs, s.head, s.tail, n),
   caps  |-> MovedSlice(s.caps, s.head, s.tail, n),
   args  |-> MovedSlice(s.args, s.head, s.tail, n)]
GrowWithoutArgs(s, n) ==
  [head  |-> 0, tail |-> s.tail - s.head, cap |-> n,
   funcs |-> MovedSlice(s.funcs, s.head, s.tail, n),
   caps  |-> MovedSlice(s.caps, s.head, s.tail, n),
   args  |-> [i \in 0..(n-1) |-> Null]]

\* __microtask_grow(newCap)
Grow(s, n) ==
  [head  |-> 0,
   tail  |-> IF s.funcs = NullArray THEN 0 ELSE s.tail - s.head,
   cap   |-> n,
   funcs |-> MovedSlice(s.funcs, s.head, s.tail, n),
   caps  |-> MovedSlice(s.caps, s.head, s.tail, n),
   args  |-> MovedSlice(s.args, s.head, s.tail, n)]

\* Mutation: one doubling too many, on the slot before the last.
WithRoomTooSoon(s) ==
  LET allocated == IF s.funcs = NullArray THEN Grow(s, InitialCapacity) ELSE s
  IN  IF allocated.tail + 1 >= allocated.cap THEN Grow(allocated, 4 * allocated.cap + 4)
                                             ELSE allocated

\* Room for one more slot at tail: the lazy first allocation, then the doubling.
WithRoom(s) ==
  LET allocated == IF s.funcs = NullArray THEN Grow(s, InitialCapacity) ELSE s
  IN  IF allocated.tail = allocated.cap THEN Grow(allocated, 2 * allocated.cap)
                                        ELSE allocated

\* Mutation: the function is stored among the captures.
StoreSwapped(s, j) ==
  [head  |-> s.head, tail  |-> s.tail + 1, cap |-> s.cap,
   funcs |-> [s.funcs EXCEPT ![s.tail] = j.caps],
   caps  |-> [s.caps EXCEPT ![s.tail] = j.fn],
   args  |-> [s.args EXCEPT ![s.tail] = j.arg]]

\* The three parts of the job go to slot tail.
Store(s, j) ==
  [head  |-> s.head,
   tail  |-> s.tail + 1,
   cap   |-> s.cap,
   funcs |-> [s.funcs EXCEPT ![s.tail] = j.fn],
   caps  |-> [s.caps EXCEPT ![s.tail] = j.caps],
   args  |-> [s.args EXCEPT ![s.tail] = j.arg]]

\* __microtask_enqueue(fn, caps, arg)
EnqueueBody(s, j) == Store(WithRoom(s), j)

\* The triple that the drain reads at index i
SlotAt(s, i) == [fn |-> s.funcs[i], caps |-> s.caps[i], arg |-> s.args[i]]

\* head is advanced before the job runs
Advance(s) == [head |-> s.head + 1, tail |-> s.tail, cap |-> s.cap,
               funcs |-> s.funcs, caps |-> s.caps, args |-> s.args]

\* __microtasks_pending()
Pending(s) == s.tail - s.head

-----------------------------------------------------------------------------
(* Activations.  "user" is user code (an export's body or a job's callback), *)
(* "loop" the top of a drain's loop.                                         *)

Frames == [kind : {"export", "drain", "drainOne"}, at : {"user", "loop"}]

Top == stack[Len(stack)]
Pop == SubSeq(stack, 1, Len(stack) - 1)
Push(kind, at) == Append(stack, [kind |-> kind, at |-> at])
InUserCode == stack # <<>> /\ Top.at = "user"

Init ==
  /\ q = InitialQueue
  /\ stack = <<>>
  /\ last = NoJob
  /\ count = 0 /\ enqueued = 0 /\ exports = 0 /\ checkpoints = 0
  /\ escaped = FALSE

\* wrapExports: the host calls an export
CallExport ==
  /\ stack = <<>> /\ exports < MaxExports
  /\ stack' = Push("export", "user")
  /\ exports' = exports + 1
  /\ UNCHANGED <<q, last, count, enqueued, checkpoints, escaped>>

\* User code settles a promise, awaits or calls queueMicrotask.
Enqueue(j) ==
  /\ InUserCode /\ enqueued < MaxEnqueues
  /\ q' = EnqueueBody(q, j)
  /\ enqueued' = enqueued + 1
  /\ UNCHANGED <<stack, last, count, exports, checkpoints, escaped>>

\* A drain is entered: nothing happens while the arrays were never allocated.
EnterDrain(kind) == IF q.funcs = NullArray THEN stack' = stack ELSE stack' = Push(kind, "loop")

\* The __drain_microtasks() intrinsic in user code, or the host calling the
\* export when a native promise crosses the boundary.
CallDrain ==
  /\ stack = <<>> \/ InUserCode
  /\ Len(stack) < MaxDepth
  /\ EnterDrain("drain")
  /\ UNCHANGED <<q, last, count, enqueued, exports, checkpoints, escaped>>

\* The host steps the queue by one job.
CallDrainOne ==
  /\ stack = <<>>
  /\ EnterDrain("drainOne")
  /\ UNCHANGED <<q, last, count, enqueued, exports, checkpoints, escaped>>

\* The loop's exit test is head == tail.
DrainExit ==
  /\ stack # <<>> /\ Top.at = "loop"
  /\ q.head = q.tail
  /\ stack' = Pop
  /\ UNCHANGED <<q, last, count, enqueued, exports, checkpoints, escaped>>

\* Read the slot, advance head, call the job.
DrainStart ==
  /\ stack # <<>> /\ Top.at = "loop"
  /\ q.head # q.tail
  /\ last' = SlotAt(q, q.head)
  /\ count' = count + 1
  /\ q' = Advance(q)
  /\ stack' = [stack EXCEPT ![Len(stack)].at = "user"]
  /\ UNCHANGED <<enqueued, exports, checkpoints, escaped>>

\* The job's callback returns to the drain that called it.
JobReturn ==
  /\ InUserCode /\ Top.kind # "export"
  /\ stack' = IF Top.kind = "drain" THEN [stack EXCEPT ![Len(stack)].at = "loop"] ELSE Pop
  /\ UNCHANGED <<q, last, count, enqueued, exports, checkpoints, escaped>>

\* Mutations: no host microtask is queued; none for a single job.
ScheduleNothing == UNCHANGED checkpoints
ScheduleForTwo ==
  IF Pending(q) <= 1 THEN UNCHANGED checkpoints ELSE checkpoints' = checkpoints + 1

\* scheduleNativeMicrotaskCheckpoint, called once an export has returned
Schedule ==
  IF Pending(q) = 0 THEN UNCHANGED checkpoints ELSE checkpoints' = checkpoints + 1

ExportReturn ==
  /\ InUserCode /\ Top.kind = "export"
  /\ stack' = Pop
  /\ Schedule
  /\ escaped' = FALSE
  /\ UNCHANGED <<q, last, count, enqueued, exports>>

\* An exception leaves the activation.  No body here catches it: it reaches the
\* user code below, which goes on or throws in turn, or else the host.
Throw ==
  /\ MayThrow /\ InUserCode
  /\ stack' = Pop
  /\ escaped' = (escaped \/ Len(stack) = 1)
  /\ UNCHANGED <<q, last, count, enqueued, exports, checkpoints>>

\* The host runs the queued checkpoint.
Checkpoint ==
  /\ stack = <<>> /\ checkpoints > 0
  /\ checkpoints' = checkpoints - 1
  /\ IF Pending(q) = 0 THEN stack' = stack ELSE EnterDrain("drain")
  /\ UNCHANGED <<q, last, count, enqueued, exports, escaped>>

Next ==
  \/ CallExport \/ CallDrain \/ CallDrainOne \/ DrainExit \/ DrainStart
  \/ JobReturn \/ ExportReturn \/ Throw \/ Checkpoint
  \/ \E j \in Jobs : Enqueue(j)

Spec == Init /\ [][Next]_vars

\* A drain that is running goes on; user code finishes, however often it drains
\* in between; the host serves its own microtask queue.  Nothing obliges the host
\* to call an export or a drain.
Fairness ==
  /\ WF_vars(DrainExit) /\ WF_vars(DrainStart)
  /\ SF_vars(JobReturn) /\ SF_vars(ExportReturn) /\ SF_vars(Checkpoint)

FairSpec == Spec /\ Fairness

-----------------------------------------------------------------------------
(* Properties *)

\* The globals and the activations have the shapes the bodies declare.
TypeOK ==
  /\ q.head \in Nat /\ q.tail \in Nat /\ q.cap \in Nat
  /\ q.funcs \in [0..(q.cap - 1) -> Funs \cup {Null}]
  /\ q.caps \in [0..(q.cap - 1) -> Externs \cup {Null}]
  /\ q.args \in [0..(q.cap - 1) -> Externs \cup {Null}]
  /\ stack \in Seq(Frames)
  /\ last \in Jobs \cup {NoJob}
  /\ {count, enqueued, exports, checkpoints} \subseteq Nat
  /\ escaped \in BOOLEAN

\* The drain stops on head == tail and the enqueue doubles on tail == cap, both
\* tests of equality: they work only while the indices stay ordered, through
\* growth in the middle of a drain and through nested drains.
IndexOrder == q.head <= q.tail /\ q.tail <= q.cap

\* call_ref casts the slot's funcref to a non-null reference: every live slot
\* must hold the three parts of one job, also after the arrays were moved.
LiveSlotsHoldJobs == \A i \in q.head..(q.tail - 1) : SlotAt(q, i) \in Jobs

\* No job is lost or run twice, whatever throws through a drain: what was
\* enqueued is what was started and what __microtasks_pending() reports.
Conservation == enqueued = count + Pending(q)

\* Growth is bounded by twice the number of enqueues (head and tail are not
\* reset when the queue empties, so the number of live jobs bounds nothing).
CapacityBound ==
  /\ q.tail <= enqueued
  /\ q.cap <= InitialCapacity \/ q.cap <= 2 * enqueued

\* The queue implements the first-in first-out job queue.
Live(s) == [i \in 1..Pending(s) |-> SlotAt(s, s.head + i - 1)]
Fifo == INSTANCE JobQueue WITH queue <- Live(q)
ImplementsJobQueue == Fifo!Spec

\* A host that is idle has jobs left behind only when a checkpoint is on its way,
\* or when an exception has reached the host (through an export that had queued
\* jobs, or through a drain) and no export has returned since: wrapExports calls
\* the checkpoint's scheduler after the call, so a call that throws skips it.
NoJobStranded == stack = <<>> /\ checkpoints = 0 /\ ~escaped => Pending(q) = 0

\* Every job that is queued is started, unless an exception reaches the host: the
\* embedder's checkpoint runs the jobs that a synchronous export left behind.
QueuedJobsRun == (Pending(q) > 0) ~> (Pending(q) = 0 \/ escaped)
=============================================================================
