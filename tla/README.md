# Formal models of js2wasm: async runtime, allocator and tooling protocols

js2wasm compiles JavaScript and TypeScript ahead of time to WasmGC, and to linear
memory. A compiled program brings its own asynchronous runtime: a microtask queue,
promises and their combinators, timers, an event loop and, under WASI, standard
input. No JavaScript engine stands behind them, so their ordering, reentrancy and
end conditions are the compiler's own. The linear backend brings its own memory
allocator. Around the compiler, a pool of forked processes compiles tests, and
agents that work on the repository coordinate through a lock kept on a git branch.

This directory models these parts in TLA+, checks them with TLC on small instances
and proves the safety of each of them (queue, timers, standard input, promises and
their combinators, allocator, compiler pool and claims) with TLAPS for every instance.

Paths below are relative to `src/` of the repository (so `src/codegen/...` is the
compiler's own source directory).

## 1. Inventory

| part | state | operations | interacts with |
|---|---|---|---|
| microtask queue (`src/runtime/wasmgc/async/microtask-queue-bodies.ts`) | `__mt_head`, `__mt_tail`, `__mt_cap` and three parallel arrays | enqueue, grow, drain all, drain one, pending | called by promises, timers, `queueMicrotask`, the embedder; jobs call it again |
| embedder checkpoint (`src/runtime/native-microtask-checkpoint.ts`, `wrapExports` in `src/runtime.ts`) | the host's own microtask queue | schedule after an export, drain from the host microtask | microtask queue |
| timer table and run loop (`src/codegen/async-scheduler.ts`, `src/codegen/expressions/calls.ts`) | deadlines, intervals, callbacks, cancelled flags, count, capacity | set, clear, fire due, peek, sleep | drains microtasks; callbacks set and clear timers |
| stdin reactor (same file) and `process.stdin` (`src/process-stdin-prelude.ts`) | a one-page byte buffer with two cursors, the fd 0 subscription; the stream's buffer, flags and listeners | fd_read, poll_oneoff, pump, on, read, pause, resume, destroy | run loop, timers, microtasks; listeners call the stream again |
| promises (`src/runtime/wasmgc/promise/*.ts`, `src/codegen/promise-executor.ts`) | state, value, reaction list and handled flag per promise; a guard cell per resolving pair | settle, resolve, adopt, thenable job, then, Promise.resolve, Promise.reject | microtask queue, user getters and methods |
| unhandled rejections (`src/codegen/unhandled-rejection.ts`) | a linked list of nodes | note, mark, report at exit | promises, `_start` |
| combinators (`src/runtime/wasmgc/promise/combinator-bodies.ts`, `src/codegen/promise-combinators.ts`) | a countdown and a result vector per call, a capture per input | all, allSettled, any, race | promises, jobs, user getters |
| heap allocator of the linear backend (`src/codegen-linear/heap-allocator.ts`) | boundary tags in memory, bins of free lists, regions | malloc, calloc, realloc, free, usable size, free count | a region source that may refuse |
| compiler pool (`scripts/compiler-pool.ts`) | fork slots, queue, pending jobs, outstanding processes | submit, dispatch, time out, retry, recycle, shut down | forked processes and their messages |
| issue claims (`scripts/claim-issue.mjs`) | one record per issue on a shared branch, a legacy book | claim, release, complete, allocate a number | other invocations, a git server |
| `finally`, delay | wrappers around callbacks, a timer | - | promises, timers |
| async functions (`src/codegen/async-frame.ts`, `async-cps.ts`) | frames with a resume state | suspend, resume, return, throw | promises |
| arenas and reference counts (`src/codegen-linear/`) | bump pointers, counts in objects | allocate, release | compiled code |
| isolated evaluator (`src/runtime-node-eval-worker.ts`) | shared-memory request and answer | evaluate, time out | worker thread |
| linker, package linker, tree shaking, IR analyses, optimiser | program representations | pure passes | - |
| front end, code generation, emission, host runtime | - | translation | TypeScript |

What makes the runtime hard is reentrancy rather than threads. One thread runs, but
user code runs in the middle of almost every operation: inside a drain, inside a
scan of the timer table, inside the stream's pump, inside the subscription loop of a
combinator, and, as the getter of a `then` property, inside the resolution of a
promise. It may call back into whatever was going on. On top come the clock, a peer
that writes, closes or fails at any time, buffers that are compacted and doubled,
and exceptions. The allocator has no concurrency at all; what is hard there is that
every call trusts words that long sequences of earlier calls left in memory. The
pool and the claims are distributed: processes die between two messages, timeouts
race late answers, pushes are lost, misreported or land late. `PROJECT.json` lists
the hazards with their lines and the properties aimed at them.

What makes each part correct, in a sentence:

- **Queue, checkpoint**: jobs run once, in order, whatever grows, nests or throws,
  and jobs that an export leaves behind have somebody who will run them.
- **Timers, loop**: no timer fires early, twice or after being cleared, each armed
  one fires, and the loop ends exactly when nothing is left.
- **Stdin**: bytes arrive once and in order, `end` comes after the last of them, and
  the program ends when its input does.
- **Promises**: one thing settles a promise, with what it was first resolved to;
  reactions run in order; every unhandled rejection is known at the end.
- **Combinators**: the result is what the inputs say, each in its own place.
- **Allocator**: tags, lists and contents stay true under every sequence of calls.
- **Pool**: a job is in one place and answered once; no process is forgotten.
- **Claims**: nobody takes a live claim, and no number is handed out twice.

## 2. Modules

| module | what it is |
|---|---|
| `JobQueue` | abstract specification: a first-in first-out queue of jobs |
| `MicrotaskQueue` | the three arrays, both drains, nested activations, the embedder's checkpoint; refines `JobQueue` |
| `EventLoop` | timer table, `setTimeout`, `setInterval`, `clearTimeout`, the run loop without stdin |
| `StdinReactor` | the run loop with fd 0, the reactor's buffer, `process.stdin` |
| `Promises` | promises, thenables, resolving pairs, reaction jobs, unhandled rejections |
| `Combinators` | `Promise.all`, `allSettled`, `any`, `race`, composed with `Promises` |
| `HeapAllocator` | the linear backend's allocator over one array of words |
| `CompilerPool` | the pool's parent process, its children and their channels |
| `ClaimIssue` | invocations of the claim tool and the shared branch |
| `MC*` | instances for TLC |
| `MicrotaskQueueProofs`, `EventLoopProofs`, `StdinReactorProofs`, `HeapAllocatorProofs`, `CompilerPoolProofs`, `ClaimIssueProofs` | TLAPS proofs about the module each one extends |
| `PromisesProofs` | TLAPS proofs about `Promises` and, in its second half, `Combinators` |
| `NatFacts` | lemmas that these proofs share: least and greatest elements of sets of naturals |

### How state and actions correspond to the code

**MicrotaskQueue.** `q` is the record of the six `__mt_*` globals. A null array
global is the array without slots, since `array.new` never makes an empty one.
`Grow`, `WithRoom`, `Store`, `SlotAt` and `Advance` are the pieces of the bodies
that `buildGrowBody`, `buildEnqueueBody` and `buildDrainBody` emit. They are
atomic because nothing they call runs user code. `stack` is the activation stack:
an export running user code, or a drain that is at the top of its loop or inside a
job. `CallDrain` from user code is the nested drain. `Throw` removes an activation
the way an exception does: no body here catches it. `checkpoints` counts the host
microtasks that `scheduleNativeMicrotaskCheckpoint` has queued. `last`, `count` and
`enqueued` record history; so does `escaped`, which says that an exception has
reached the host since an export last returned normally: `wrapExports` then skips
the checkpoint.

**EventLoop.** `table` holds count, capacity and, per slot, deadline, interval and
the cancelled flag. The id that `setTimeout` returns is the slot. `pc` is the place
of `_start`: the program, a drain, the scan, a callback, a job. `Due` and
`RearmOrRetire` are the two decisions of `__timer_fire_due`; `i` is its scan index
and `nowNs` the reading it was given. `Sleep` rounds up to milliseconds and wraps
the way `i32.wrap_i64` does. `log` is history.

**StdinReactor.** `rb` is the reactor's buffer with `pos`, `len` and the
subscription. `st` has the fields of the `__Js2wasmReadable` class. A byte is its
number in the peer's output. A pump is a frame on `stack` that goes through the
stages readable, flow, data, finish, end; listeners run with `user` set, and may
use the stream, which pushes further frames. Timers and microtasks are counters
here: they only matter as places where user code runs. Four reductions keep the
state space small. The peer steps only where the loop is about to look at fd 0
(`LoopLooks`): nothing else reads what it changes, so its steps commute with all
others. `fd_read` takes all that fits: a short read is one before the peer has
written more. A failure loses what was not read, and comes instead of the end, since
it hides the end. Cells of a buffer whose bytes have been taken are 0 (`Blank`): the
code overwrites them before it reads them again.

**Promises.** A promise is a record of state, value, reaction list, handled flag
and (history) the number of reactions attached. Settlement and adoption are pure
functions of the heap (promises, queue, list of rejections), because the code calls
them several times in a row. `ResolveValue` is `__promise_resolve_value`: for an
object with a `then` property it enters the getter's frame, and `FoundThen`,
`FoundNoThen` and `ThrowGetter` are its three ends. `pairs` are the resolve and
reject functions with the guard cell they share; a thenable job makes a pair of its
own. An executor runs as part of the code that calls `new Promise`; its uncaught
exception is a call of the pair's reject. `fate` and `started` are history: what a
promise was first resolved to, and which reactions were started. The queue is a
sequence, which `MicrotaskQueueProofs` justifies.

**Combinators.** `combs` are the `$CombinatorState` structs, `caps` the captures of
the elements. A call pushes a frame with the index of its loop; each iteration wraps
an input that is no promise (which may enter the getter of a thenable, so that user
code runs amid the loop) and subscribes to it. The k-th capture takes the place of
the chained promise in a reaction, as `-k`. `RunElement` is the job of an element:
`Element` selects the body by kind and outcome. `ran`, the order in which elements
ran, is history. The vector of results is one value, `Results`; its contents are
`results` of the state. What is expected of a result follows from `ran` and the
states of the inputs only, and never from values: the result of one combinator may be
the input of another one, so an input may itself carry `Results` or `AggregateError`.

**HeapAllocator.** Memory is one array of 4-byte words; addresses and sizes are in
words. Headers, links, footers and client data share it, so stale words are really
there. Each entry point is one step, because the module is single-threaded and calls
nothing back; `Malloc`, `CallocZero`, `Free` and `Resize` are a client that makes
them in any order and fills the words it gets. `source` chooses whether the region
source serves the normal request, only the smaller retry, or nothing. `Scrub`
replaces words of free blocks that no code reads before writing them by one junk
value. The regions are contiguous, with their epilogues between them, as
`memory.grow` hands them out. `Iterate` follows links, and `Pow2` doubles: both are
recursive functions, so that the walks along lists and through memory can be proved
about. The assumption `Geometry` states what the code's constants satisfy: regions are
multiples of eight bytes, the largest request with its header does not wrap, the first
range begins no later than the exact bins end, and a size in words fits in 30 bits.
Call counters and the request-size histogram are left out: nothing reads them back.

**CompilerPool.** `pool` holds the fields of the class. The parent is one event
loop, so a handler is an action. `children` are all processes ever forked; a process
has a channel to the parent, and `attached` says whether the parent still listens.
Exit and close are events of their own, and messages may arrive after the exit.
`Finish`, `Start` and `Crash` are the processes (external).

**ClaimIssue.** The branch is the sequence `log` of its commits; a tip that was read
is its length. `proc` holds the invocations: `read`, `push`, `verify` and their
exits. A push takes effect only on the tip it was based on. `inflight` are pushes
that the server still works on after the client was killed by its timeout. A record
carries the identity of the invocation that wrote it (`write_id`) and a time stamp
with a resolution so coarse that attempts may share it.

## 3. Runs

All passing runs finish within five minutes on two workers.

| run | question | instance |
|---|---|---|
| `microtask` | can growth under nested drains and exceptions lose, repeat, reorder, tear or strand a job; does the queue implement `JobQueue`; do the jobs of an export run | 1 initial slot, 5 enqueues, 2 exports, depth 3: the arrays double three times, also in nested drains |
| `loop` | identity and deadlines of timers; no early, double or cleared firing; every timer fires; the loop ends when and only when nothing is pending | 3 timers, among them intervals, 1 microtask, clock up to 4, a sleep that wraps at 2 ms, growth under the scan |
| `stdin` | are bytes preserved, is `end` neither early nor missing, is nesting bounded, does the program end | reactor buffer 2, stream buffer 1, 3 bytes, 1 listener per event, a timer or a microtask, a failing fd 0 |
| `stdin_destroy` (violation) | is a destroyed stream silent | the same, fd 0 does not fail |
| `stdin_endlost` (violation) | is `end` always dispatched | the same |
| `promises` | one settler per pending promise, the first resolution decides, no unhandled rejection forgotten, order and start of reactions, outcome of combinators | 3 promises, 2 resolving pairs, a thenable, 1 combinator of each kind with up to 2 inputs |
| `promises_report` (violation) | does the program fail for unhandled rejections only | 3 promises, 2 pairs |
| `heap` | can any sequence of calls leave wrong tags, a block off its list, a lost word, changed contents, or a fit that is not found | 1 exact bin and 2 ranges, two regions in 38 words, 3 live blocks, requests of 3, 9 and 63 words, products that wrap |
| `pool` | can a job be lost, answered twice or retried without end, a process forgotten, shutdown resolved early; is every job answered | 2 forks, 1 job, 2 failures, 1 retry |
| `pool_stranded` (violation) | is an interrupted job answered while a fork is idle | the same |
| `claim` | can a claim be stolen, a number be handed out twice, a release hit another claim, an invocation starve | 2 invocations (claim, complete or allocate), 2 agents, 2 attempts, a stray number, a legacy claim |
| `claim_legacy` (violation) | the same lock when the legacy book may be unreadable | claims only |

**Why the bounds are enough.** The queue's code distinguishes no array, a full
array and room; one initial slot and five enqueues reach every transition between
these at every nesting depth up to three. The timer scan distinguishes slots before,
at and after its index: three timers give one of each. Both of the stream's buffers
are so small that three bytes force compaction, growth and a full reactor buffer;
one timer or microtask is enough to use the stream between two pumps. Three promises
allow a cycle of adoption, a chain through a handler, and a combinator over two
inputs, which may be the same one. The allocator's memory holds three live blocks
with free ones between them, so that a free coalesces to either side, both sides or
none, remainders are too small to split, a bin of ranges mixes sizes, and the region
source is exhausted in the middle of a realloc. One job in the pool meets every
sequence of two failures, time-outs and recyclings, and two forks let one slot stay
dead beside a working one; jobs do not read each other's state. Their queueing was
checked on two more instances, both without error: one fork, two jobs, two failures,
and two forks, two jobs, one failure. Two invocations with two attempts each suffice
for every order of two reads, two pushes and a late one; `release` differs from
`complete` in the status it writes only, so the instance leaves it out.

**Deadlock** checking is off where the program really stops (the exits of the
loops, a pool that is shut down, invocations that have ended) or a bound stops it;
in `MicrotaskQueue` and `HeapAllocator` it is on: there always is a next call.

**Symmetry.** Invocations of the claim tool are interchangeable; that run has no
liveness property.

**Fairness.** A thread that runs is never suspended, hence weak fairness of the
loop's and the drains' steps. User code is assumed to end: weak fairness of its
return, strong fairness where it may call a drain or the stream again in between
and the return is disabled meanwhile. The clock advances. `FireTimer` in
`StdinReactor` is strongly fair because time, which that module leaves out, makes an
armed timer due. The embedder serves its microtask queue. In the pool events that
have happened are delivered, timers expire and a process that starts gets ready or
dies; that a job ever ends is not assumed. Nothing is assumed of the peer of fd 0,
nor that the host ever calls a drain or another export. `ClaimIssue` and
`HeapAllocator` need no fairness: their properties are safety properties.

**What the runs show.** The properties of the passing runs hold. Worth knowing:

- The index tests of the queue are tests of equality; that `head <= tail <= cap`
  (`IndexOrder`, proved) is what makes them sound.
- Jobs are stranded only after an exception has reached the host (`NoJobStranded`):
  the checkpoint is skipped then, and the jobs wait for the next export.
- Pumps nest at most four deep, and that bound is reached.
- `OneSettler` implies that the one-shot test at the head of `__promise_fulfill`
  and `__promise_reject` is never needed on the modelled paths of single promises:
  the guard of the resolving pair already excludes a second settlement. For the
  result of a combinator it is needed: there the first decisive element wins by it.
- The allocator coalesces fully: no two free blocks ever touch, and every word taken
  from the region source is accounted for.
- A pool job is answered exactly once although its timer, its result and the exit of
  its process compete.
- The lock holds although the status of a push is not believed, because a push only
  wins on the tip it read and the verification compares whole records.

The violations are disagreements between the code and what its comments or tests
say, each recorded as a finding with the quotation:

- a stream destroyed from one of its callbacks still dispatches the rest of the pump;
- `end` is not dispatched when the program reads the last bytes from a timer or
  a microtask and nothing keeps the loop alive;
- a rejected promise that was adopted by another is reported at exit although the
  rejection was handled;
- an interrupted compile job waits for ever when the replacement of its process fails
  to start, although another fork is idle;
- a claim that only the legacy book holds is overwritten when that book cannot be
  read.

Further differences and hazards met while modelling, without a run of their own:

- timers that are due together fire in slot order, whatever their deadlines
  (`src/codegen/async-scheduler.ts:2661`), where a test is titled "timers fire in
  non-decreasing deadline order" (`tests/issue-2632-event-loop.test.ts:101`);
- a timer set with delay 0 in a callback can fire in the same scan; microtasks of a
  callback run after the other due callbacks; `setInterval(f, 0)` fires once
  (`:2708`), because period 0 marks a one-shot timer; slots of fired timers are never
  used again (`:2444`);
- `clearTimeout(undefined)` truncates to id 0, the first timer, and a huge delay
  wraps in 64 bits (`src/codegen/expressions/calls.ts:6528`, `:6598`);
- the queue's arrays double although most slots are free: `head` and `tail` are
  reset by growth only;
- `resume()` in the first of two data listeners dispatches `end` before the second
  one has got the chunk; fd 0 is polled after its end while a timer is armed, so the
  loop spins;
- an own `then` accessor of a native promise that throws leaves the promise pending
  (`src/runtime/wasmgc/promise/resolution-bodies.ts:292`);
- in the array literal form of a combinator call an element expression is evaluated
  after the previous elements were subscribed to
  (`src/codegen/promise-combinators.ts:1953`);
- a second `ready()` of the pool overwrites the waiter of the first
  (`scripts/compiler-pool.ts:319`);
- the claim tool, when it gives up, reports that nothing was written
  (`scripts/claim-issue.mjs:131`, `:1582`), although a push that its timeout cut off
  may still land afterwards; `allocate` reads main before it lists the open pull
  requests (`:1340`);
- after a retry at the least size, the allocator's later regions may be smaller than
  the first (`src/codegen-linear/heap-allocator.ts:637`, `:163`).

## 4. Proofs

The proofs hold for every value of the constants that the assumption of the
component's module admits; the bounds that make TLC's instances finite are arbitrary
naturals there. Each module of proofs states an inductive invariant `IInv` (`CInv` for
the combinators), proves that it holds initially and that every step keeps it (one
lemma per action), and derives the properties of the runs from it. TLC finds no
violation of any of them on the instance of its run, with two exceptions: in
`StdinReactorProofs` the type of the stream's record was left out, since TLC does not
evaluate a union of infinite sets; and the invariant of `HeapAllocatorProofs` says that
some tiling of memory exists, where the properties of the run `heap` say the same of
the tiling that a walk computes. `IInv` of `PromisesProofs` was checked on single promises, `CInv` on the
instance of the run, on one with two combinators, and on one with two combinators and
four promises.

| theorem | states | property |
|---|---|---|
| `MicrotaskQueueProofs` | | |
| `TypeCorrect`, `SlotsSafe`, `NoJobLost`, `CapacityBounded`, `NoneStranded` | types; indices stay ordered and live slots hold whole jobs; enqueued = started + pending; capacity is at most the initial one or twice the enqueues; jobs left behind have a checkpoint, unless an exception escaped | `TypeOK`, `LiveSlotsHoldJobs`, `Conservation`, `CapacityBound`, `NoJobStranded` |
| `Refinement` | the arrays implement the abstract queue | `ImplementsJobQueue` |
| `EventLoopProofs` | | |
| `TypeCorrect`, `HistoryKept` | types; each slot has the deadline that its timer's history gives, and nothing fired early | `TypeOK`, `TimerHistory` |
| `ScanComplete` | no due one-shot behind the scan's index | `NothingDueBehindScan` |
| `ExitIsClean` | the loop ends with nothing armed or queued | `ExitClean` |
| `ClearedSilent` | no step fires a cleared timer (action property) | `ClearedStaysSilent` |
| `StdinReactorProofs` | | |
| `TypeCorrect`, `BytesKept` | types; received, stream's buffer and reactor's buffer in a row are what `fd_read` took | `TypeOK`, `ByteStream` |
| `EndIsComplete` | `end` comes after the last byte, or fd 0 failed | `EndComplete` |
| `NestingIsBounded` | pumps nest at most four deep | `NestingBounded` |
| `ExitIsDelivered` | the loop does not return on undelivered bytes | `ExitDelivered` |
| `PromisesProofs` | | |
| `TypeCorrect`, `OneSettlerEach` | types; exactly one settler per pending promise, none per settled one | `TypeOK`, `OneSettler` |
| `FirstDecides` | a promise settles as its first resolution says | `FirstResolutionDecides` |
| `RejectionsTracked` | unhandled rejections have one unmarked node | `UnhandledIsTracked` |
| `InOrder` | reactions start in the order they were attached (action property) | `ReactionsInOrder` |
| `Outcomes` | the result of a combinator is what the elements that have run make of it; each input counts once, in its place | `CombinatorOutcome` |
| `HeapAllocatorProofs` | | |
| `Tags` | tags and footers tell the truth, no two free blocks touch, every word is accounted for | `TagsTrue` |
| `FreeLists` | the lists hold every free block once, in its bin, with matching back links | `ListsExact` |
| `Contents` | the client holds exactly the used blocks, with the contents it left there; no call traps | `ContentsKept` |
| `Search` | a search finds a fit when there is one, and only then | `FindSound` |
| `CompilerPoolProofs` | | |
| `TypeCorrect`, `JobsHaveOnePlace` | types, retries within the limit; a job is queued, active in one slot, or answered once | `TypeOK`, `OnePlace` |
| `NoneOrphaned` | no process goes on unseen; shutdown resolves only when all have closed | `NoOrphan` |
| `ClaimIssueProofs` | | |
| `TypeCorrect`, `LockHolds` | types; no claim without `--force` replaces a live one of another agent | `TypeOK`, `NoSteal` |
| `ReleaseExact` | a release ends the claim it has read | `ReleasesWhatItRead` |
| `NumbersFresh` | no number is reserved twice | `FreshNumbers` |
| `ReasonToGiveUp` | giving up means that each attempt was overtaken or failed | `GivesUpForAReason` |

`LockHolds` alone has a hypothesis, `LegacyMayFail = FALSE`: the run `claim_legacy`
shows that the lock does not hold when the legacy book cannot be read.

### The arguments

**Queue.** `IInv` is the conjunction of five invariants. None is inductive alone:
that live slots hold jobs after a store needs `tail < cap`, which needs the ordering
of the indices; the bound on the capacity needs `tail <= enqueued`; the types of the
arrays are needed wherever one is read. The argument goes through lemmas about the
pure functions: growing with enough room keeps the live sequence (`GrowLemma`),
storing appends to it (`StoreLemma`), an enqueue appends whatever it has to allocate
(`EnqueueLemma`), advancing takes the head (`AdvanceLemma`).

`NoneStranded` needs a second invariant, `SInv`. `Nesting` says that only the
outermost activation can be an export or a single-step drain, and that those below
the top are in user code. `Covered` says that pending jobs without a checkpoint or an
escaped exception have an activation at the bottom of the stack that will see to
them: an export, which schedules a checkpoint when it returns, or a full drain, which
does not return before the queue is empty; and that a single-step drain runs its job
only while a checkpoint is on its way or an exception has escaped.

For the refinement the mapping is `queue <- Live(q)`, the slots from head to tail as
a sequence: `Enqueue` maps to the abstract `Enqueue`, `DrainStart` to `Start`, every
other step to a stutter.

**Timers.** `TableOK` adds to the types that the slots behind `count` are free:
`__timer_add` does not clear the flag of the slot it takes. `HistoryInv` is
`TimerHistory` with what keeps it: an interval's period is its delay, and a one-shot
that is armed has not fired. `ScanInv` adds to `NothingDueBehindScan` that the index
stays within the table and that the timer whose callback runs is an interval or was
retired before the call, so that moving on leaves nothing due. A callback's new timer
gets a slot at `count`, ahead of the index. `ExitClean` needs `DrainInv`: the second
drain of a turn has emptied the queue before the next deadline is peeked.

**Standard input.** `Bytes` says of every live cell of the two buffers which byte of
the peer it holds, as an offset from what was received; compaction, doubling and
`fd_read` each keep it (`EnsureLemma`, `AppendLemma`, `ReceivedLemma`, `DrainLemma`).
`Nesting` says what holds while pumps are on the stack: the reactor's buffer is
drained, a pump that dispatches `data` or `end` has emptied the stream, and no event
is dispatched by two pumps at once (`Alone`), from which the bound on the nesting
follows. `Settled` says what the last pump leaves behind, or is still to do, as long
as the program has not used the stream since; `Places` says where in the loop it holds.
The copy loop of `drainBytes`
is a recursive function; `DrainUnfold` shows that it exists, so that its equation may
be used, and `DrainLemma` what it computes, both by a least counterexample.

**Promises.** `OneSettler` counts settlers in four places at once, and one action
moves a settler between them: it takes one away, and settles the promise or puts
another in place. `Whole(..., owed)` is therefore the invariant with one promise
`owed` a settlement (0 for none). The lemmas are halves of actions. `PopWhole`,
`CloseWhole`, `DequeueWhole` and `MadeWhole` leave a promise owed, by taking its
settler away or making a new promise; `SettleWhole`, `AttachWhole`, `PushWhole`,
`PairWhole`, `ThenableWhole` and `ResolveWhole` discharge the debt.
An action's lemma puts two or three of them
together. That the first resolution decides needs `MayAwait`:
a reaction on q settles another promise, which is undecided or has adopted q. The
order of reactions needs `OrderOK`: the list of a pending promise has its reactions
last one first, and the jobs from a settled one are those that were not started, in
increasing order; settlement reverses the list (`SettleOK`). `ListOK` says that nodes
and rejected promises belong together. These theorems are about `Promises` by itself: in `Combinators` the
chained promise of a reaction may also be an element of a combinator, and there these
four properties are model-checked only.

**Combinators.** `CombinatorOutcome` is not inductive: nothing in it prevents that the
program settles a result, or that an element runs twice. `CInv` adds both. The
capture of an element is a token: it is in at most one reaction, which is one of its
input, or in one job, which carries the input's outcome, or its element has run
(`Token`, `ListSound`, `JobsSound`); and no reaction, job, pair or frame of the program
leads to a result (`Free`). `Stated` says what has become of the result: with a decisive
element among those that ran it has the outcome of the first one; without, the
countdown is the number of inputs less those that ran, and each of these is in its
place. Settling, attaching, making a promise, pushing a frame each keep `Sound`
(`SettleSound`, `AttachSound`, `MadeSound`, ...), and `Stated` because a settled input
does not change (`Later`); the loop's own steps replace a combinator or add a capture
(`Rearranged`, `Wrapping`, `Capturing`, `Calling`). When an element runs, its input is
one that was not counted before, so fewer than all were (`Pigeons`); hence a countdown
that reaches 0 has counted all of them, and one with an element missing has not
(`RanStated`). Nothing is assumed of the inputs: they may repeat, be results of other
combinators, or of this one through a thenable.

**Allocator.** The invariant says that some tiling `sz` of the regions into blocks, and
some set `F` of free ones, explains every word that the code reads: the header of a
block has its size and its two flags (`Tagged`), a free block has its size in its
footer, no two free blocks touch (`Spaced`), and the free lists hold exactly `F`
(`Listed`). That the lists end is stated through a rank that goes down along the links,
so that no walk needs an induction; `ListOf` of the code is shown to walk them by a
least counterexample. The operations do not keep this invariant half-way: in the
middle of a free or a realloc a block is marked free and not yet listed, or two halves
are joined and still tagged as two. `Well(h, sz, F, L)` therefore lets `L`, the listed
blocks, be fewer than `F`, and `Change` describes a step that retiles the words
between two addresses and leaves all others: unlinking, filing, cutting, joining, a new
region are such steps. What an entry point leaves (`Leaves`) names the used blocks that
stay, and the client's blocks follow (`Holds`, `UpdateLemma`). The client may write any
word of its blocks in between, which changes no tag (`Settled` speaks of their contents
only through what the client holds).

**Pool.** `StateOK` ties the forks, the queue and the answers together: a fork with a
job is busy, a job has one place, a queued job has used no more attempts than its
retries, and every live process that was not killed is owned by a fork. The bound on
`readyCount` needs `ReadyOK`: each initial process counts once, because it says
`ready` once. The handlers are compositions of a few changes of the pool record, each
with a lemma on what it does to the places of jobs (`JobsAnswer`, `JobsRetry`,
`JobsEnqueue`, `JobsDispatch`). The one that is not obvious is dispatch, which the
model states as one step: `TurnLemma` shows that it matches the free forks with the
front of the queue one to one.

**Claims.** A push carries the tip that its decision was taken at and lands only
while that is still the tip, so what a commit replaces is what its writer has read
(`DecidedAt`). This has to hold of pushes in flight too, which may land after their
sender has ended (`FlightInv`). `PrefixLemma`: records at a tip do not depend on
later commits. `NumberLemma`: the number that is chosen has no record at the tip read.
`AttemptsOK` counts, per attempt, a commit that landed since the start or a failed
push of its own.

Induction theorems over data take an operator as a parameter, which the installed
provers do not instantiate. Where an induction over the naturals is needed the proofs
use `LeastLemma` of `NatFacts` on the set of counterexamples instead; it rests on the
library's theorem that `<` is well founded.

### Only model-checked

- All liveness properties: they rest on fairness and on `ENABLED`, which is out of
  the prover's reach.
- In `Combinators`, the four invariants and the action property of `Promises`: the
  types of `IInv` know no captures and no results of combinators, so the proofs about
  single promises do not carry over as they stand.
- The violations: they are counterexamples.

## 5. Not modelled

- In the modelled parts: an own `then` property on a native promise, species
  constructors, the promise hooks and rejection events of the Deno embedding, the
  step by step drive of a combinator over an iterator and the protocol of a replaced
  `resolve`, exceptions that leave a timer callback or the program (they end
  `_start`), the conversion of timer ids and delays from JavaScript numbers,
  overflow of a deadline in 64 bits, running out of memory in a WasmGC allocation,
  the validation of a pool's prepared answers, `--list`, `--check` and `--dry-run`
  of the claim tool, which write nothing.
- Whole parts: see the status of each component in `PROJECT.json`. The translation
  from TypeScript to WasmGC, by far the largest part of the repository, is a function
  of large inputs without a state machine for TLC; the host runtime is a collection
  of library functions for it. This is why the share of the repository's lines that
  the models stand for is small.

## 6. Plan

1. Async functions on top of `Promises`: a frame that suspends on a promise and
   resumes by a reaction job; then `finally`.
2. Own `then` properties on native promises and throwing accessors.
3. The request and answer protocol of the isolated evaluator: a time-out racing a
   late answer over shared memory.
4. Relocation in the linker against a reference definition.
5. Proofs: the invariants of `Promises` in the presence of combinators.
6. A composition of `Promises` with `MicrotaskQueue` through `JobQueue`.
