----------------------------- MODULE EventLoop -----------------------------
(***************************************************************************)
(* The timer table and the run loop of a WASI program                      *)
(* (codegen/async-scheduler.ts, "timer heap + run-loop reactor"): _start   *)
(* runs the program, then __run_event_loop drains microtasks, fires the    *)
(* timers that are due and sleeps until the next deadline, until no timer  *)
(* is left.                                                                *)
(*                                                                         *)
(* User code runs in three places: the program itself ("main"), a timer's  *)
(* callback and a microtask; in each it may set and clear timers and queue *)
(* microtasks.  The microtask queue is the one MicrotaskQueue implements;  *)
(* here only the number of queued jobs matters.  The clock is external: it *)
(* never goes back, and it may stand still between two readings.           *)
(***************************************************************************)
EXTENDS Integers, FiniteSets, FiniteSetsExt

CONSTANTS
  InitialSlots,   \* TIMER_QUEUE_INITIAL_SLOTS
  UnitsPerMs,     \* clock units in a millisecond (1e6 ns in the code)
  SleepModulus,   \* milliseconds at which the i32 argument of the sleep wraps (2^32)
  Delays,         \* milliseconds that programs pass to setTimeout
  Periods,        \* milliseconds that programs pass to setInterval
  MaxTimers,      \* bound: timers set in a behaviour
  MaxJobs,        \* bound: microtasks queued in a behaviour
  Horizon         \* bound: the clock reading at which a behaviour ends

ASSUME LoopAssumption ==
  /\ InitialSlots \in Nat \ {0} /\ UnitsPerMs \in Nat \ {0} /\ SleepModulus \in Nat \ {0}
  /\ Delays \subseteq Nat /\ Periods \subseteq Nat
  /\ MaxTimers \in Nat /\ MaxJobs \in Nat /\ Horizon \in Nat

VARIABLES
  table,    \* the __timer_* globals
  pc,       \* where _start is
  after,    \* what follows the drain that is running
  now,      \* the monotonic clock
  nowNs,    \* the reading that __timer_fire_due was given
  i,        \* the scan index of __timer_fire_due
  micro,    \* queued microtasks
  queued,   \* microtasks queued so far
  log       \* history of each timer: when it was set, how often it fired

vars == <<table, pc, after, now, nowNs, i, micro, queued, log>>

-----------------------------------------------------------------------------
(* The timer table *)

FreeSlot == [deadline |-> 0, interval |-> 0, cancelled |-> FALSE]

InitialTable == [count |-> 0, cap |-> 0, slots |-> [k \in {} |-> FreeSlot]]

Ids(t) == 0..(t.count - 1)
LiveIds(t) == {k \in Ids(t) : ~t.slots[k].cancelled}

\* Mutation: growth squeezes the cancelled timers out.
TimerGrowCompacting(t, n) ==
  LET kept == LiveIds(t)
  IN  [t EXCEPT !.cap = n,
                !.slots = [k \in 0..(n-1) |->
                    IF \E l \in kept : Cardinality({m \in kept : m < l}) = k
                    THEN t.slots[CHOOSE l \in kept : Cardinality({m \in kept : m < l}) = k]
                    ELSE FreeSlot]]

\* __timer_grow(newCap): ids stay what they were
TimerGrow(t, n) ==
  [count |-> t.count, cap |-> n,
   slots |-> [k \in 0..(n-1) |-> IF k < t.count THEN t.slots[k] ELSE FreeSlot]]

\* Mutation: the table is not doubled.
TimerAddWithoutRoom(t, deadline, interval) ==
  LET allocated == IF t.cap = 0 THEN TimerGrow(t, InitialSlots) ELSE t
  IN  [allocated EXCEPT !.slots = [k \in DOMAIN @ |->
                            IF k = allocated.count
                            THEN [deadline |-> deadline, interval |-> interval, cancelled |-> FALSE]
                            ELSE @[k]],
                        !.count = @ + 1]

\* __timer_add(deadlineNs, cb, cap, intervalNs); the id is the old count, and the
\* cancelled flag of the slot is not written
TimerAdd(t, deadline, interval) ==
  LET allocated == IF t.cap = 0 THEN TimerGrow(t, InitialSlots) ELSE t
      room == IF allocated.count = allocated.cap
              THEN TimerGrow(allocated, 2 * allocated.cap) ELSE allocated
  IN  [count |-> room.count + 1, cap |-> room.cap,
       slots |-> [room.slots EXCEPT ![room.count] =
                    [deadline |-> deadline, interval |-> interval, cancelled |-> @.cancelled]]]

\* __timer_cancel(id): ids out of range are ignored
TimerCancel(t, id) ==
  IF id \in Ids(t) THEN [t EXCEPT !.slots[id].cancelled = TRUE] ELSE t

\* __timer_fire_due, before the callback of timer k is called: an interval is
\* armed again relative to its deadline, a one-shot is retired.
RearmOrRetire(t, k) ==
  IF t.slots[k].interval > 0
  THEN [t EXCEPT !.slots[k].deadline = @ + t.slots[k].interval]
  ELSE [t EXCEPT !.slots[k].cancelled = TRUE]

\* Mutations: strictly before the reading; cancelled or not.
DueStrict(t, k) == ~t.slots[k].cancelled /\ t.slots[k].deadline < nowNs
DueOrCancelled(t, k) == t.slots[k].deadline <= nowNs

\* The timer at k fires in a scan that was given the reading nowNs.
Due(t, k) == ~t.slots[k].cancelled /\ t.slots[k].deadline <= nowNs

NoTimer == -1

\* Mutations: timers that are retired count; the scan starts at slot 1.
PeekRetired(t) == IF Ids(t) = {} THEN NoTimer ELSE Min({t.slots[k].deadline : k \in Ids(t)})
PeekFromOne(t) ==
  IF LiveIds(t) \ {0} = {} THEN NoTimer ELSE Min({t.slots[k].deadline : k \in LiveIds(t) \ {0}})

\* __timer_peek_deadline(); the code answers i64 max when there is no timer
PeekDeadline(t) ==
  IF LiveIds(t) = {} THEN NoTimer ELSE Min({t.slots[k].deadline : k \in LiveIds(t)})

-----------------------------------------------------------------------------
(* User code *)

InUserCode == pc \in {"main", "callback", "job"}

Init ==
  /\ table = InitialTable
  /\ pc = "main" /\ after = "read"
  /\ now = 0 /\ nowNs = 0 /\ i = 0
  /\ micro = 0 /\ queued = 0
  /\ log = [k \in {} |-> 0]

\* A call of setTimeout or setInterval: the deadline is computed from the clock
\* of the call, the id is the new slot's index.
AddTimer(delay, interval, isInterval) ==
  LET deadline == now + delay * UnitsPerMs
  IN  /\ InUserCode
      /\ table.count < MaxTimers /\ deadline <= Horizon
      /\ table' = TimerAdd(table, deadline, interval * UnitsPerMs)
      /\ log' = [k \in 0..table.count |->
                   IF k < table.count THEN log[k]
                   ELSE [set |-> now, delay |-> delay * UnitsPerMs, isInterval |-> isInterval,
                         fired |-> 0]]
      /\ UNCHANGED <<pc, after, now, nowNs, i, micro, queued>>

SetTimeout(delay) == AddTimer(delay, 0, FALSE)
SetInterval(period) == AddTimer(period, period, TRUE)

ClearTimer(id) ==
  /\ InUserCode
  /\ table' = TimerCancel(table, id)
  /\ UNCHANGED <<pc, after, now, nowNs, i, micro, queued, log>>

QueueMicrotask ==
  /\ InUserCode /\ queued < MaxJobs
  /\ micro' = micro + 1 /\ queued' = queued + 1
  /\ UNCHANGED <<table, pc, after, now, nowNs, i, log>>

\* The program, a callback or a job ends.
Return ==
  /\ InUserCode
  /\ pc' = CASE pc = "main" -> "drain" [] pc = "callback" -> "fire" [] pc = "job" -> "drain"
  /\ i' = IF pc = "callback" THEN i + 1 ELSE i
  /\ UNCHANGED <<table, after, now, nowNs, micro, queued, log>>

\* Time passes.
Tick ==
  /\ pc # "exit" /\ now < Horizon
  /\ now' = now + 1
  /\ UNCHANGED <<table, pc, after, nowNs, i, micro, queued, log>>

-----------------------------------------------------------------------------
(* __run_event_loop *)

\* __drain_microtasks, before the clock is read and after the timers have fired
RunJob ==
  /\ pc = "drain" /\ micro > 0
  /\ micro' = micro - 1
  /\ pc' = "job"
  /\ UNCHANGED <<table, after, now, nowNs, i, queued, log>>

\* Mutation: the second drain of a turn is left out.
DrainOnce ==
  /\ pc = "drain" /\ (micro = 0 \/ after = "peek")
  /\ pc' = after
  /\ UNCHANGED <<table, after, now, nowNs, i, micro, queued, log>>

DrainDone ==
  /\ pc = "drain" /\ micro = 0
  /\ pc' = after
  /\ UNCHANGED <<table, after, now, nowNs, i, micro, queued, log>>

\* now = __rl_now_ns(); the scan starts, unless no timer was ever set.
ReadNow ==
  /\ pc = "read"
  /\ nowNs' = now /\ i' = 0
  /\ pc' = "fire"
  /\ UNCHANGED <<table, after, now, micro, queued, log>>

SkipTimer ==
  /\ pc = "fire" /\ i < table.count /\ ~Due(table, i)
  /\ i' = i + 1
  /\ UNCHANGED <<table, pc, after, now, nowNs, micro, queued, log>>

FireTimer ==
  /\ pc = "fire" /\ i < table.count /\ Due(table, i)
  /\ table' = RearmOrRetire(table, i)
  /\ log' = [log EXCEPT ![i].fired = @ + 1]
  /\ pc' = "callback"
  /\ UNCHANGED <<after, now, nowNs, i, micro, queued>>

FireDone ==
  /\ pc = "fire" /\ i >= table.count
  /\ pc' = "drain" /\ after' = "peek"
  /\ UNCHANGED <<table, now, nowNs, i, micro, queued, log>>

\* No timer is left: the loop returns to _start.
Exit ==
  /\ pc = "peek" /\ PeekDeadline(table) = NoTimer
  /\ pc' = "exit"
  /\ UNCHANGED <<table, after, now, nowNs, i, micro, queued, log>>

\* The sleep until the next deadline, in whole milliseconds, rounded up; the
\* argument of __wasi_sleep_ms is an i32.
SleepTime(wait) ==
  IF wait > 0 THEN (((wait + UnitsPerMs - 1) \div UnitsPerMs) % SleepModulus) * UnitsPerMs ELSE 0

Sleep ==
  /\ pc = "peek" /\ PeekDeadline(table) # NoTimer
  /\ PeekDeadline(table) <= Horizon
  /\ now' = now + SleepTime(PeekDeadline(table) - now)
  /\ pc' = "drain" /\ after' = "read"
  /\ UNCHANGED <<table, nowNs, i, micro, queued, log>>

Loop == RunJob \/ DrainDone \/ ReadNow \/ SkipTimer \/ FireTimer \/ FireDone \/ Exit \/ Sleep

Next ==
  \/ Loop \/ Return \/ Tick \/ QueueMicrotask
  \/ \E d \in Delays : SetTimeout(d)
  \/ \E p \in Periods : SetInterval(p)
  \/ \E id \in -1..MaxTimers : ClearTimer(id)

Spec == Init /\ [][Next]_vars

\* The loop is one thread that is never suspended, user code ends, time passes.
FairSpec == Spec /\ WF_vars(Loop) /\ WF_vars(Return) /\ WF_vars(Tick)

-----------------------------------------------------------------------------
(* Properties *)

TypeOK ==
  /\ table.count \in 0..MaxTimers /\ table.count <= table.cap
  /\ table.slots \in [0..(table.cap - 1) -> [deadline : Nat, interval : Nat, cancelled : BOOLEAN]]
  /\ pc \in {"main", "callback", "job", "drain", "read", "fire", "peek", "exit"}
  /\ after \in {"read", "peek"}
  /\ {now, nowNs, i} \subseteq Nat /\ micro \in 0..queued /\ queued \in 0..MaxJobs
  /\ log \in [Ids(table) -> [set : Nat, delay : Nat, isInterval : BOOLEAN, fired : Nat]]

\* An id keeps meaning its own timer, through growth in the middle of a scan, and
\* an interval does not drift: the deadline in slot k is always the one that
\* follows from when timer k was set and how often it has fired.  No callback runs
\* before its deadline, whatever the sleep is rounded or wrapped to.
TimerHistory ==
  \A k \in Ids(table) :
    /\ table.slots[k].deadline =
         log[k].set + log[k].delay * (IF table.slots[k].interval > 0 THEN log[k].fired + 1 ELSE 1)
    /\ log[k].fired > 0 => log[k].set + log[k].delay * log[k].fired <= now

\* Once cleared, a timer never fires again, even from the scan in progress.
ClearedStaysSilent ==
  [][\A k \in Ids(table) : table.slots[k].cancelled => log'[k].fired = log[k].fired]_vars

\* A scan leaves no one-shot behind that was due at its clock reading: of two
\* timers, the one that was set first and is due first fires first.
NothingDueBehindScan ==
  pc \in {"fire", "callback"} =>
    \A k \in LiveIds(table) : k < i /\ table.slots[k].interval = 0 => table.slots[k].deadline > nowNs

\* _start ends only when no timer is armed and no microtask is queued.
ExitClean == pc = "exit" => LiveIds(table) = {} /\ micro = 0

\* Every timer that is set fires, unless it is cleared first.
EveryTimerFires ==
  \A k \in 0..(MaxTimers - 1) :
    (k \in LiveIds(table)) ~> (k \notin LiveIds(table) \/ log[k].fired > 0)

IntervalArmed == \E k \in LiveIds(table) : table.slots[k].interval > 0

\* A program whose intervals are all cleared in the end exits, though the sleep is
\* rounded and wrapped and retired timers stay in the table.
ProgramEnds == <>[](~IntervalArmed) => <>(pc = "exit")
=============================================================================
