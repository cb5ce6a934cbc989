---------------------------- MODULE CompilerPool ----------------------------
(***************************************************************************)
(* The pool of compiler processes (scripts/compiler-pool.ts).  The parent  *)
(* keeps a fixed number of fork slots, each with the process it owns now,  *)
(* a queue of jobs, and the set of jobs that a process has accepted.  A    *)
(* process that dies, times out or asks to be recycled is retired and its  *)
(* slot gets a new one; retired processes stay "outstanding" until the     *)
(* operating system has closed them, and shutdown() waits for all of them. *)
(*                                                                         *)
(* The parent is one event loop, so every handler is one action.  The      *)
(* processes, their message channels and their exit and close events are   *)
(* external: a process may die at any moment, its last messages may arrive *)
(* after its exit event, and a job may hang.  A prepared request is        *)
(* validated when its answer arrives; that changes what the answer says,   *)
(* never whether the job is answered, so all answers of a worker are alike *)
(* here.  The branch of dispatch() for a foreign child is left out: the    *)
(* callers refuse such requests before they reach the queue.               *)
(***************************************************************************)
EXTENDS Integers, Sequences, SequencesExt, FiniteSets

CONSTANTS
  Size,         \* forks of the pool
  MaxRetries,   \* MAX_WORKER_CRASH_RETRIES
  MaxJobs,      \* bound: jobs submitted in a behaviour
  MaxFailures,  \* bound: processes that die or report an error by themselves
  NoJob

ASSUME PoolAssumption ==
  /\ Size \in Nat \ {0} /\ MaxRetries \in Nat /\ MaxJobs \in Nat /\ MaxFailures \in Nat
  /\ NoJob \notin Nat

VARIABLES
  pool,      \* the fields of CompilerPool
  children,  \* every process forked so far, by its identity
  answers,   \* the results each job's promise was resolved with, in order
  failures   \* how many processes failed by themselves so far

vars == <<pool, children, answers, failures>>

Forks == 1..Size
Jobs == 1..MaxJobs
Processes == 1..Len(children)

-----------------------------------------------------------------------------
(* Processes *)

\* forkProcess and attachForkHandlers: a process starts with its handlers on.
NewChild(fork, initial) ==
  [fork |-> fork, initial |-> initial, status |-> "starting", job |-> NoJob, out |-> <<>>,
   attached |-> TRUE, exit |-> FALSE, closed |-> FALSE, killed |-> FALSE]

Alive(c) == c.status # "dead"

\* signalChild: kill() reports success, and sets `killed`, for a live process only.
Signalled(c) == [c EXCEPT !.killed = @ \/ Alive(c)]

\* detachJobHandlers, or shuttingDown, with which every handler returns at once:
\* what the process still says is ignored; only signals and its close event count.
Detached(c) ==
  [c EXCEPT !.attached = FALSE, !.out = <<>>, !.job = NoJob, !.initial = FALSE,
            !.status = IF Alive(c) THEN "started" ELSE "dead"]

Outstanding == {p \in Processes : ~children[p].closed}

-----------------------------------------------------------------------------
(* The pool: functions of the pair s = [pool, children] *)

State == [pool |-> pool, children |-> children]

IdleFork == [proc |-> 0, busy |-> FALSE, ready |-> FALSE, active |-> NoJob]

Free(s) == {f \in Forks : s.pool.forks[f].ready /\ ~s.pool.forks[f].busy}

\* The k-th free fork takes the k-th job of the queue.
Turn(s, f) == Cardinality({g \in Free(s) : g <= f})
Taking(s) == {f \in Free(s) : Turn(s, f) <= Len(s.pool.queue)}
JobOf(s, f) == s.pool.queue[Turn(s, f)]

\* Mutation: a job that is handed out stays in the queue.
DispatchKeeping(s) ==
  IF s.pool.shuttingDown THEN s
  ELSE [s EXCEPT !.pool.forks = [f \in Forks |->
                     IF f \in Taking(s)
                     THEN [@[f] EXCEPT !.busy = TRUE, !.active = JobOf(s, f)] ELSE @[f]],
                 !.pool.pending = @ \cup {JobOf(s, f) : f \in Taking(s)}]

\* dispatch()
Dispatch(s) ==
  IF s.pool.shuttingDown THEN s
  ELSE [pool |-> [s.pool EXCEPT
          !.forks = [f \in Forks |->
            IF f \in Taking(s) THEN [@[f] EXCEPT !.busy = TRUE, !.active = JobOf(s, f)] ELSE @[f]],
          !.queue = SubSeq(@, Cardinality(Taking(s)) + 1, Len(@)),
          !.pending = @ \cup {JobOf(s, f) : f \in Taking(s)},
          !.attempts = [j \in Jobs |->
            IF \E f \in Taking(s) : JobOf(s, f) = j THEN @[j] + 1 ELSE @[j]]],
        children |-> [p \in DOMAIN s.children |->
          LET c == s.children[p]
          IN  IF c.fork \in Taking(s) /\ s.pool.forks[c.fork].proc = p
              THEN [c EXCEPT !.job = JobOf(s, c.fork)] ELSE c]]

\* Mutation: the retired process is not signalled.
RespawnUnsignalled(s, f) ==
  IF s.pool.shuttingDown THEN s
  ELSE [s EXCEPT !.children = Append([@ EXCEPT ![s.pool.forks[f].proc] = Detached(@)],
                                     NewChild(f, FALSE)),
                 !.pool.forks[f] = [IdleFork EXCEPT !.proc = Len(s.children) + 1]]

\* respawnFork(state): retires the fork's process and forks another.
Respawn(s, f) ==
  IF s.pool.shuttingDown THEN s
  ELSE [pool |-> [s.pool EXCEPT !.forks[f] = [IdleFork EXCEPT !.proc = Len(s.children) + 1]],
        children |-> Append([s.children EXCEPT ![s.pool.forks[f].proc] = Detached(Signalled(@))],
                            NewChild(f, FALSE))]

\* The fork has no job and accepts none.
Reset(s, f) ==
  [s EXCEPT !.pool.forks[f] = [@ EXCEPT !.busy = FALSE, !.ready = FALSE, !.active = NoJob]]

\* Mutation: an interrupted job is retried without a limit.
RetryAlways(s, j) ==
  [s EXCEPT !.pool.pending = @ \ {j},
            !.pool.retries[j] = @ + 1,
            !.pool.queue = <<j>> \o @]

\* handleForkFailure, the retry of the job that the failure interrupted
Retry(s, j) ==
  [s EXCEPT !.pool.pending = @ \ {j},
            !.pool.retries[j] = IF @ < MaxRetries THEN @ + 1 ELSE @,
            !.pool.queue = IF s.pool.retries[j] < MaxRetries THEN <<j>> \o @ ELSE @]

GivesUp(s, j) == s.pool.retries[j] >= MaxRetries

\* finishShutdownIfClosed, after the processes have become cs
FinishShutdown(p, cs) ==
  IF p.shutdown = "waiting" /\ \A q \in DOMAIN cs : cs[q].closed
  THEN [p EXCEPT !.shutdown = "resolved"] ELSE p

Become(s) == pool' = s.pool /\ children' = s.children

Answer(j, result) == answers' = [answers EXCEPT ![j] = Append(@, result)]

-----------------------------------------------------------------------------
(* Initially every slot has a process that starts. *)

Init ==
  /\ pool = [forks |-> [f \in Forks |-> [IdleFork EXCEPT !.proc = f]],
             queue |-> <<>>, pending |-> {}, nextId |-> 0,
             attempts |-> [j \in Jobs |-> 0], retries |-> [j \in Jobs |-> 0],
             readyCount |-> 0, waiter |-> "none",
             shuttingDown |-> FALSE, shutdown |-> "none"]
  /\ children = [f \in Forks |-> NewChild(f, TRUE)]
  /\ answers = [j \in Jobs |-> <<>>]
  /\ failures = 0

-----------------------------------------------------------------------------
(* Calls of the pool's methods *)

\* compile() and runTest(): enqueue
Enqueue ==
  /\ pool.nextId < MaxJobs
  /\ Become(Dispatch([State EXCEPT !.pool.nextId = @ + 1, !.pool.queue = Append(@, pool.nextId + 1)]))
  /\ UNCHANGED <<answers, failures>>

\* ready(), which callers await before their first job; the pool keeps one waiter
AwaitReady ==
  /\ pool.waiter = "none" /\ pool.nextId = 0
  /\ pool' = [pool EXCEPT !.waiter = IF pool.readyCount = Size THEN "resolved" ELSE "waiting"]
  /\ UNCHANGED <<children, answers, failures>>

\* shutdown(timeoutMs): a bad timeout rejects, but the pool is shut down all the same.
Shutdown(valid) ==
  /\ pool.shutdown = "none"
  /\ pool' = [pool EXCEPT !.shuttingDown = TRUE,
                          !.shutdown = IF ~valid THEN "rejected"
                                       ELSE IF Outstanding = {} THEN "resolved" ELSE "waiting"]
  /\ children' = [p \in Processes |->
                    IF p \in Outstanding THEN Detached(Signalled(children[p])) ELSE children[p]]
  /\ UNCHANGED <<answers, failures>>

-----------------------------------------------------------------------------
(* Timers *)

\* Mutation: the timers stop with the pool.
TimeoutUnlessShutdown(f) ==
  LET j == pool.forks[f].active
      s == Reset([State EXCEPT !.pool.pending = @ \ {j},
                               !.children[pool.forks[f].proc] = Signalled(@)], f)
  IN  /\ j # NoJob /\ ~pool.shuttingDown
      /\ Answer(j, "timeout")
      /\ Become(Respawn(s, f))
      /\ UNCHANGED failures

\* The timer of fork f's job, armed in dispatch(); it is not cancelled by shutdown.
Timeout(f) ==
  LET j == pool.forks[f].active
      s == Reset([State EXCEPT !.pool.pending = @ \ {j},
                               !.children[pool.forks[f].proc] = Signalled(@)], f)
  IN  /\ j # NoJob
      /\ Answer(j, "timeout")
      /\ Become(Respawn(s, f))
      /\ UNCHANGED failures

ShutdownTimeout ==
  /\ pool.shutdown = "waiting"
  /\ pool' = [pool EXCEPT !.shutdown = "rejected"]
  /\ UNCHANGED <<children, answers, failures>>

-----------------------------------------------------------------------------
(* Events of the process p *)

\* The parent's state once the head of p's channel has been taken.
Received(p) == [State EXCEPT !.children[p].out = Tail(@)]

Heard(p, type) ==
  children[p].out # <<>> /\ Head(children[p].out).type = type

\* onMessage, "ready"; only the first processes are counted
OnReady(p) ==
  LET f == children[p].fork
      s == Dispatch([Received(p) EXCEPT
             !.pool.forks[f].ready = TRUE,
             !.pool.readyCount = IF children[p].initial THEN @ + 1 ELSE @])
  IN  /\ Heard(p, "ready")
      /\ Become([s EXCEPT !.pool.waiter =
                   IF @ = "waiting" /\ s.pool.readyCount = Size THEN "resolved" ELSE @])
      /\ UNCHANGED <<answers, failures>>

\* The answer is for the job that the fork has now.
Expected(p) == pool.forks[children[p].fork].active = Head(children[p].out).job

\* onMessage, a result: the job is answered, the fork is free or recycled; an
\* answer that is not expected is ignored.
OnResult(p) ==
  LET f == children[p].fork
      j == Head(children[p].out).job
      s == [Received(p) EXCEPT !.pool.pending = @ \ {j},
                               !.pool.forks[f] = [@ EXCEPT !.active = NoJob, !.busy = FALSE]]
  IN  /\ Heard(p, "result")
      /\ IF Expected(p)
         THEN /\ Answer(j, "result")
              /\ Become(IF Head(children[p].out).recycle THEN Respawn(s, f) ELSE Dispatch(s))
         ELSE Become(Received(p)) /\ UNCHANGED answers
      /\ UNCHANGED failures

\* handleForkFailure(state, proc) from the state s
HandleForkFailure(s, p) ==
  LET f == children[p].fork
      j == pool.forks[f].active
      idle == Reset(s, f)
  IN  IF j = NoJob
      THEN /\ Become(IF pool.forks[f].ready THEN Respawn(idle, f) ELSE idle)
           /\ UNCHANGED answers
      ELSE /\ Become(Respawn(Retry(idle, j), f))
           /\ IF GivesUp(s, j) THEN Answer(j, "crash") ELSE UNCHANGED answers

\* (The exit event of a retired process is only recorded, for error reports.)
OnExit(p) ==
  /\ children[p].status = "dead" /\ ~children[p].exit /\ children[p].attached
  /\ HandleForkFailure([State EXCEPT !.children[p].exit = TRUE], p)
  /\ UNCHANGED failures

\* An "error" event: a message could not be sent, or anything else Node reports.
OnError(p) ==
  /\ children[p].attached /\ ~children[p].closed
  /\ \/ ~Alive(children[p]) /\ children[p].job # NoJob /\ UNCHANGED failures
     \/ failures < MaxFailures /\ failures' = failures + 1
  /\ HandleForkFailure(State, p)

\* "close" follows the death of the process, its exit event and its last message.
OnClose(p) ==
  LET cs == [children EXCEPT ![p] = [Detached(@) EXCEPT !.status = "dead", !.exit = TRUE,
                                                        !.closed = TRUE]]
  IN  /\ ~children[p].closed /\ children[p].out = <<>>
      /\ IF children[p].attached THEN children[p].exit
         ELSE children[p].killed \/ ~Alive(children[p])
      /\ children' = cs
      /\ pool' = FinishShutdown(pool, cs)
      /\ UNCHANGED <<answers, failures>>

-----------------------------------------------------------------------------
(* What a process does; external *)

Send(p, message) ==
  LET c == children[p]
  IN  children' = [children EXCEPT ![p] = [c EXCEPT !.status = "started", !.job = NoJob,
                                                    !.out = Append(c.out, message)]]

Start(p) ==
  /\ children[p].status = "starting" /\ children[p].attached
  /\ Send(p, [type |-> "ready", job |-> NoJob, recycle |-> FALSE])
  /\ UNCHANGED <<pool, answers, failures>>

Finish(p, recycle) ==
  /\ children[p].status = "started" /\ children[p].job # NoJob
  /\ Send(p, [type |-> "result", job |-> children[p].job, recycle |-> recycle])
  /\ UNCHANGED <<pool, answers, failures>>

Crash(p) ==
  /\ Alive(children[p]) /\ children[p].attached /\ failures < MaxFailures
  /\ children' = [children EXCEPT ![p].status = "dead"]
  /\ failures' = failures + 1
  /\ UNCHANGED <<pool, answers>>

Handler(p) == OnReady(p) \/ OnResult(p) \/ OnExit(p) \/ OnClose(p)

Next ==
  \/ Enqueue \/ AwaitReady \/ ShutdownTimeout
  \/ \E valid \in BOOLEAN : Shutdown(valid)
  \/ \E f \in Forks : Timeout(f)
  \/ \E p \in Processes :
       \/ Handler(p) \/ OnError(p)
       \/ Start(p) \/ Crash(p) \/ \E recycle \in BOOLEAN : Finish(p, recycle)

Spec == Init /\ [][Next]_vars

\* Events that have happened are delivered, timers expire, a process that starts
\* gets ready or dies.  A job may hang: Finish is not fair.
Progress ==
  \/ \E p \in Processes : Handler(p) \/ Start(p)
  \/ \E f \in Forks : Timeout(f)

FairSpec == Spec /\ WF_vars(Progress)

-----------------------------------------------------------------------------
(* Properties *)

Results == {"result", "timeout", "crash"}

ForkState == [proc : Processes, busy : BOOLEAN, ready : BOOLEAN, active : Jobs \cup {NoJob}]

Message == [type : {"ready", "result"}, job : Jobs \cup {NoJob}, recycle : BOOLEAN]

ChildState ==
  [fork : Forks, initial : BOOLEAN, status : {"starting", "started", "dead"},
   job : Jobs \cup {NoJob}, out : Seq(Message),
   attached : BOOLEAN, exit : BOOLEAN, closed : BOOLEAN, killed : BOOLEAN]

PoolState ==
  [forks : [Forks -> ForkState], queue : Seq(Jobs), pending : SUBSET Jobs, nextId : 0..MaxJobs,
   attempts : [Jobs -> 0..(MaxRetries + 1)], retries : [Jobs -> 0..MaxRetries],
   readyCount : 0..Size, waiter : {"none", "waiting", "resolved"},
   shuttingDown : BOOLEAN, shutdown : {"none", "waiting", "resolved", "rejected"}]

\* In particular a job is given to at most MaxRetries + 1 processes.
TypeOK ==
  /\ pool \in PoolState
  /\ children \in Seq(ChildState)
  /\ answers \in [Jobs -> Seq(Results)]
  /\ failures \in 0..MaxFailures

Active(j) == {f \in Forks : pool.forks[f].active = j}
Places(j) == Cardinality(Active(j)) + Cardinality({k \in DOMAIN pool.queue : pool.queue[k] = j})

\* A submitted job is in exactly one place: once in the queue, or with one fork, or
\* answered, and it is answered once, however timeouts, crashes, late results and
\* retries fall together; `pending` is what the forks have.
OnePlace ==
  /\ \A j \in 1..pool.nextId : Places(j) + Len(answers[j]) = 1
  /\ \A j \in (pool.nextId + 1)..MaxJobs : Places(j) + Len(answers[j]) = 0
  /\ pool.pending = {pool.forks[f].active : f \in Forks} \ {NoJob}

Owned == {pool.forks[f].proc : f \in Forks}

\* Every process that the pool no longer owns, or that it shuts down, has been told
\* to end, so that none goes on computing unseen, and when shutdown() resolves the
\* processes of every generation have closed.
NoOrphan ==
  /\ \A p \in Processes :
       Alive(children[p]) /\ ~children[p].killed => p \in Owned /\ ~pool.shuttingDown
  /\ pool.shutdown = "resolved" => Outstanding = {}

\* The slot's process is gone and was not replaced, because it never got ready.
DeadSlot(f) ==
  children[pool.forks[f].proc].closed /\ pool.forks[f].active = NoJob /\ ~pool.forks[f].ready

Submitted(j) == j <= pool.nextId
Answered(j) == answers[j] # <<>>
Queued(j) == \E k \in DOMAIN pool.queue : pool.queue[k] = j

\* Every job is answered, although any of its processes may hang or die, as long as
\* no replacement fails to start; a job that a process has is answered even during
\* a shutdown, one that is queued then is not.
EveryJobAnswered ==
  \A j \in Jobs :
    Submitted(j) ~> (Answered(j) \/ (pool.shuttingDown /\ Queued(j)) \/ \E f \in Forks : DeadSlot(f))

\* "Re-run one interrupted job on a fresh process, then surface a bounded compile
\* error": an interrupted job does not wait for ever while a fork could take it.
InterruptedJobAnswered ==
  \A j \in Jobs :
    Submitted(j) ~> (Answered(j) \/ pool.shuttingDown \/ \A f \in Forks : DeadSlot(f))
=============================================================================
