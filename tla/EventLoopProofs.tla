-------------------------- MODULE EventLoopProofs --------------------------
(***************************************************************************)
(* For every set of delays and periods, initial capacity, sleep modulus    *)
(* and bound: the timer table keeps every id's own timer through growth    *)
(* and re-arming, no callback runs early, no scan leaves a due one-shot    *)
(* behind, a cleared timer stays silent, and _start ends only when nothing *)
(* is armed or queued.                                                     *)
(*                                                                         *)
(* The lemmas are about the pure functions on the table; the invariance    *)
(* proof then follows the actions.                                         *)
(***************************************************************************)
EXTENDS EventLoop, NatFacts

Slot == [deadline : Nat, interval : Nat, cancelled : BOOLEAN]

\* What the table must satisfy for the bodies of __timer_* to work on it.  The
\* slots behind count have to be free: __timer_add does not clear the flag of the
\* slot that it takes.
TableOK(t) ==
  /\ t \in [count : Nat, cap : Nat, slots : [0..(t.cap - 1) -> Slot]]
  /\ t.count <= t.cap
  /\ \A k \in t.count..(t.cap - 1) : ~t.slots[k].cancelled

Entry == [set : Nat, delay : Nat, isInterval : BOOLEAN, fired : Nat]

\* How the slot s of a timer follows from its history h.
SlotFits(s, h) ==
  /\ s.deadline = h.set + h.delay * (IF s.interval > 0 THEN h.fired + 1 ELSE 1)
  /\ h.fired > 0 => h.set + h.delay * h.fired <= now
  /\ s.interval > 0 => s.interval = h.delay
  /\ s.interval = 0 => h.fired <= 1 /\ (~s.cancelled => h.fired = 0)

HistoryInv == \A k \in Ids(table) : SlotFits(table.slots[k], log[k])

\* Behind the scan nothing is due; the timer whose callback runs is an interval or
\* has been retired.
ScanInv ==
  /\ pc \in {"fire", "callback"} => i <= table.count
  /\ pc = "callback" => /\ i < table.count
                        /\ table.slots[i].interval > 0 \/ table.slots[i].cancelled
  /\ NothingDueBehindScan

CounterInv ==
  /\ pc \in {"main", "callback", "job", "drain", "read", "fire", "peek", "exit"}
  /\ after \in {"read", "peek"}
  /\ now \in Nat /\ nowNs \in Nat /\ i \in Nat /\ nowNs <= now
  /\ micro \in Nat /\ queued \in Nat /\ micro <= queued /\ queued <= MaxJobs
  /\ table.count <= MaxTimers

\* The second drain of a turn has emptied the queue before the deadline is peeked.
DrainInv == pc \in {"peek", "exit"} => micro = 0

\* The inductive invariant.
IInv ==
  /\ TableOK(table)
  /\ log \in [Ids(table) -> Entry]
  /\ CounterInv
  /\ HistoryInv
  /\ ScanInv
  /\ DrainInv
  /\ ExitClean

-----------------------------------------------------------------------------
(* The timer table *)

\* Growing to a capacity with room for the table keeps every id's slot.
LEMMA GrowLemma ==
  ASSUME NEW t, TableOK(t), NEW n \in Nat, t.count <= n
  PROVE  /\ TableOK(TimerGrow(t, n))
         /\ TimerGrow(t, n).count = t.count
         /\ TimerGrow(t, n).cap = n
         /\ \A k \in Ids(t) : TimerGrow(t, n).slots[k] = t.slots[k]
<1> DEFINE g == TimerGrow(t, n)
<1>1. /\ g.count = t.count /\ g.cap = n
      /\ g.slots = [k \in 0..(n-1) |-> IF k < t.count THEN t.slots[k] ELSE FreeSlot]
      /\ g = [count |-> g.count, cap |-> g.cap, slots |-> g.slots]
  BY DEF TimerGrow
<1>2. FreeSlot \in Slot /\ ~FreeSlot.cancelled
  BY DEF FreeSlot, Slot
<1>3. \A k \in Ids(t) : k \in 0..(t.cap - 1) /\ k \in 0..(n - 1) /\ k < t.count
  BY DEF TableOK, Ids
<1>4. g.slots \in [0..(n - 1) -> Slot]
  <2>1. \A k \in 0..(n - 1) : k < t.count => t.slots[k] \in Slot
    BY DEF TableOK
  <2> QED BY <1>1, <1>2, <2>1
<1>5. \A k \in t.count..(n - 1) : ~g.slots[k].cancelled
  <2> TAKE k \in t.count..(n - 1)
  <2>1. k \in 0..(n - 1) /\ ~(k < t.count)
    BY DEF TableOK
  <2>2. g.slots[k] = FreeSlot
    BY <1>1, <2>1
  <2> QED BY <1>2, <2>2
<1>6. \A k \in Ids(t) : g.slots[k] = t.slots[k]
  BY <1>1, <1>3
<1>7. TableOK(g)
  <2> HIDE DEF g
  <2>1. g \in [count : Nat, cap : Nat, slots : [0..(g.cap - 1) -> Slot]]
    BY <1>1, <1>4 DEF TableOK
  <2> QED BY <1>1, <1>5, <2>1 DEF TableOK
<1> QED BY <1>1, <1>6, <1>7

\* Setting a timer takes the slot behind the last one and touches no other id,
\* whether or not the table has to be allocated or doubled.
LEMMA AddLemma ==
  ASSUME NEW t, TableOK(t), NEW d \in Nat, NEW v \in Nat
  PROVE  /\ TableOK(TimerAdd(t, d, v))
         /\ TimerAdd(t, d, v).count = t.count + 1
         /\ TimerAdd(t, d, v).slots[t.count] =
              [deadline |-> d, interval |-> v, cancelled |-> FALSE]
         /\ \A k \in Ids(t) : TimerAdd(t, d, v).slots[k] = t.slots[k]
<1> DEFINE a == IF t.cap = 0 THEN TimerGrow(t, InitialSlots) ELSE t
           r == IF a.count = a.cap THEN TimerGrow(a, 2 * a.cap) ELSE a
           g == TimerAdd(t, d, v)
<1>0. InitialSlots \in Nat \ {0}
  BY LoopAssumption
<1>1. /\ TableOK(a) /\ a.count = t.count /\ a.cap > 0
      /\ \A k \in Ids(t) : a.slots[k] = t.slots[k]
  <2>1. CASE t.cap = 0
    <3>1. t.count <= InitialSlots
      BY <1>0, <2>1 DEF TableOK
    <3> QED BY <1>0, <2>1, <3>1, GrowLemma
  <2>2. CASE t.cap # 0
    BY <2>2 DEF TableOK
  <2> QED BY <2>1, <2>2
<1>2. g = [count |-> r.count + 1, cap |-> r.cap,
           slots |-> [r.slots EXCEPT ![r.count] =
                        [deadline |-> d, interval |-> v, cancelled |-> @.cancelled]]]
  BY DEF TimerAdd
<1> HIDE DEF a, g
<1>3. Ids(a) = Ids(t)
  BY <1>1 DEF Ids
<1>4. /\ TableOK(r) /\ r.count = t.count /\ r.count < r.cap
      /\ \A k \in Ids(t) : r.slots[k] = t.slots[k]
  <2>1. CASE a.count = a.cap
    <3>1. 2 * a.cap \in Nat /\ a.count <= 2 * a.cap /\ a.cap < 2 * a.cap
      BY <1>1 DEF TableOK
    <3> QED BY <1>1, <1>3, <2>1, <3>1, GrowLemma
  <2>2. CASE a.count # a.cap
    BY <1>1, <2>2 DEF TableOK
  <2> QED BY <2>1, <2>2
<1> HIDE DEF r
<1>5. /\ r \in [count : Nat, cap : Nat, slots : [0..(r.cap - 1) -> Slot]]
      /\ r.count \in 0..(r.cap - 1) /\ r.count \in Nat /\ r.cap \in Nat
      /\ r.slots[r.count] \in Slot /\ ~r.slots[r.count].cancelled
  BY <1>4 DEF TableOK
<1>6. /\ g.count = r.count + 1 /\ g.cap = r.cap
      /\ g.slots = [r.slots EXCEPT ![r.count] =
                      [deadline |-> d, interval |-> v, cancelled |-> FALSE]]
      /\ g = [count |-> g.count, cap |-> g.cap, slots |-> g.slots]
  <2>1. r.slots[r.count].cancelled = FALSE
    BY <1>5 DEF Slot
  <2> QED BY <1>2, <2>1
<1>7. /\ g.slots[r.count] = [deadline |-> d, interval |-> v, cancelled |-> FALSE]
      /\ \A k \in 0..(r.cap - 1) : k # r.count => g.slots[k] = r.slots[k]
      /\ g.slots \in [0..(r.cap - 1) -> Slot]
  <2>1. [deadline |-> d, interval |-> v, cancelled |-> FALSE] \in Slot
    BY DEF Slot
  <2> QED BY <1>5, <1>6, <2>1
<1>8. TableOK(g)
  <2>1. \A k \in g.count..(g.cap - 1) : ~g.slots[k].cancelled
    <3> TAKE k \in g.count..(g.cap - 1)
    <3>1. k \in r.count..(r.cap - 1) /\ k \in 0..(r.cap - 1) /\ k # r.count
      BY <1>5, <1>6
    <3> QED BY <1>4, <1>7, <3>1 DEF TableOK
  <2>2. g.count \in Nat /\ g.cap \in Nat /\ g.slots \in [0..(g.cap - 1) -> Slot]
    BY <1>5, <1>6, <1>7
  <2>3. g \in [count : Nat, cap : Nat, slots : [0..(g.cap - 1) -> Slot]]
    BY <1>6, <2>2
  <2> QED BY <1>4, <1>5, <1>6, <2>1, <2>3 DEF TableOK
<1>9. \A k \in Ids(t) : g.slots[k] = t.slots[k]
  <2> TAKE k \in Ids(t)
  <2>1. k \in 0..(r.cap - 1) /\ k # r.count
    BY <1>4, <1>5 DEF Ids
  <2> QED BY <1>4, <1>7, <2>1
<1> QED BY <1>4, <1>6, <1>7, <1>8, <1>9 DEF g

\* Cancelling sets one flag.
LEMMA CancelLemma ==
  ASSUME NEW t, TableOK(t), NEW id \in Int
  PROVE  LET g == TimerCancel(t, id)
         IN  /\ TableOK(g) /\ g.count = t.count
             /\ \A k \in Ids(t) :
                  /\ g.slots[k].deadline = t.slots[k].deadline
                  /\ g.slots[k].interval = t.slots[k].interval
                  /\ t.slots[k].cancelled => g.slots[k].cancelled
<1>1. CASE id \notin Ids(t)
  BY <1>1 DEF TimerCancel
<1>2. CASE id \in Ids(t)
  <2> DEFINE g == TimerCancel(t, id)
             s == [t.slots[id] EXCEPT !.cancelled = TRUE]
  <2>1. /\ t \in [count : Nat, cap : Nat, slots : [0..(t.cap - 1) -> Slot]]
        /\ id \in 0..(t.cap - 1) /\ id < t.count /\ t.slots[id] \in Slot
    BY <1>2 DEF TableOK, Ids
  <2>2. /\ s \in Slot /\ s.deadline = t.slots[id].deadline
        /\ s.interval = t.slots[id].interval /\ s.cancelled = TRUE
    BY <2>1 DEF Slot
  <2>3. /\ g.count = t.count /\ g.cap = t.cap
        /\ g.slots = [t.slots EXCEPT ![id] = s]
        /\ g = [count |-> g.count, cap |-> g.cap, slots |-> g.slots]
    BY <1>2, <2>1 DEF TimerCancel
  <2> HIDE DEF g, s
  <2>4. /\ g.slots \in [0..(t.cap - 1) -> Slot]
        /\ g.slots[id] = s
        /\ \A k \in 0..(t.cap - 1) : k # id => g.slots[k] = t.slots[k]
    BY <2>1, <2>2, <2>3
  <2>5. TableOK(g)
    <3>1. \A k \in g.count..(g.cap - 1) : ~g.slots[k].cancelled
      BY <2>1, <2>3, <2>4 DEF TableOK
    <3>2. g \in [count : Nat, cap : Nat, slots : [0..(g.cap - 1) -> Slot]]
      BY <2>1, <2>3, <2>4
    <3> QED BY <2>3, <3>1, <3>2 DEF TableOK
  <2>6. \A k \in Ids(t) :
          /\ g.slots[k].deadline = t.slots[k].deadline
          /\ g.slots[k].interval = t.slots[k].interval
          /\ t.slots[k].cancelled => g.slots[k].cancelled
    <3> TAKE k \in Ids(t)
    <3>1. k \in 0..(t.cap - 1)
      BY DEF TableOK, Ids
    <3>2. CASE k = id
      BY <2>2, <2>4, <3>2
    <3>3. CASE k # id
      BY <2>4, <3>1, <3>3
    <3> QED BY <3>2, <3>3
  <2> QED BY <2>3, <2>5, <2>6 DEF g
<1> QED BY <1>1, <1>2

\* Firing touches the slot of the timer that fires, and no other.
LEMMA RearmLemma ==
  ASSUME NEW t, TableOK(t), NEW j \in Ids(t)
  PROVE  LET g == RearmOrRetire(t, j)
             s == t.slots[j]
         IN  /\ TableOK(g) /\ g.count = t.count
             /\ s \in Slot
             /\ g.slots[j].interval = s.interval
             /\ s.interval > 0 => /\ g.slots[j].deadline = s.deadline + s.interval
                                  /\ g.slots[j].cancelled = s.cancelled
             /\ s.interval = 0 => /\ g.slots[j].deadline = s.deadline
                                  /\ g.slots[j].cancelled
             /\ \A k \in Ids(t) : k # j => g.slots[k] = t.slots[k]
<1> DEFINE g == RearmOrRetire(t, j)
           s == t.slots[j]
           n == IF s.interval > 0 THEN [s EXCEPT !.deadline = @ + s.interval]
                                  ELSE [s EXCEPT !.cancelled = TRUE]
<1>1. /\ t \in [count : Nat, cap : Nat, slots : [0..(t.cap - 1) -> Slot]]
      /\ j \in 0..(t.cap - 1) /\ j < t.count /\ s \in Slot
  BY DEF TableOK, Ids
<1>2. /\ n \in Slot /\ n.interval = s.interval
      /\ s.interval > 0 => n.deadline = s.deadline + s.interval /\ n.cancelled = s.cancelled
      /\ s.interval = 0 => n.deadline = s.deadline /\ n.cancelled
  <2> HIDE DEF s
  <2>1. CASE s.interval > 0
    BY <1>1, <2>1 DEF Slot
  <2>2. CASE ~(s.interval > 0)
    BY <1>1, <2>2 DEF Slot
  <2> QED BY <2>1, <2>2
<1>3. /\ g.count = t.count /\ g.cap = t.cap
      /\ g.slots = [t.slots EXCEPT ![j] = n]
      /\ g = [count |-> g.count, cap |-> g.cap, slots |-> g.slots]
  BY <1>1 DEF RearmOrRetire
<1> HIDE DEF g, n
<1>4. /\ g.slots \in [0..(t.cap - 1) -> Slot]
      /\ g.slots[j] = n
      /\ \A k \in 0..(t.cap - 1) : k # j => g.slots[k] = t.slots[k]
  BY <1>1, <1>2, <1>3
<1>5. TableOK(g)
  <2>1. \A k \in g.count..(g.cap - 1) : ~g.slots[k].cancelled
    BY <1>1, <1>3, <1>4 DEF TableOK
  <2>2. g \in [count : Nat, cap : Nat, slots : [0..(g.cap - 1) -> Slot]]
    BY <1>1, <1>3, <1>4
  <2> QED BY <1>3, <2>1, <2>2 DEF TableOK
<1>6. \A k \in Ids(t) : k # j => g.slots[k] = t.slots[k]
  BY <1>4 DEF TableOK, Ids
<1> QED BY <1>1, <1>2, <1>3, <1>4, <1>5, <1>6 DEF g

\* What is peeked at is a deadline, unless every timer has been retired or cleared.
LEMMA PeekNatLemma ==
  ASSUME NEW t, TableOK(t), LiveIds(t) # {}
  PROVE  PeekDeadline(t) \in Nat
<1> DEFINE D == {t.slots[k].deadline : k \in LiveIds(t)}
<1>1. D \subseteq Nat /\ D # {}
  <2>1. \A k \in LiveIds(t) : t.slots[k] \in Slot
    <3>1. \A k \in LiveIds(t) : k \in 0..(t.cap - 1)
      BY DEF TableOK, LiveIds, Ids
    <3> QED BY <3>1 DEF TableOK
  <2>2. \A k \in LiveIds(t) : t.slots[k].deadline \in Nat
    BY <2>1 DEF Slot
  <2> QED BY <2>2
<1>2. PeekDeadline(t) = Min(D)
  BY DEF PeekDeadline
<1> HIDE DEF D
<1>3. Min(D) \in D
  BY <1>1, MinLemma
<1> QED BY <1>1, <1>2, <1>3

\* The sleep never turns the clock back, whatever it is rounded or wrapped to.
LEMMA SleepLemma ==
  ASSUME NEW w \in Int
  PROVE  SleepTime(w) \in Nat
<1>0. UnitsPerMs \in Nat \ {0} /\ SleepModulus \in Nat \ {0}
  BY LoopAssumption
<1>1. CASE w > 0
  <2>1. (w + UnitsPerMs - 1) \div UnitsPerMs \in Int
    BY <1>0
  <2>2. ((w + UnitsPerMs - 1) \div UnitsPerMs) % SleepModulus \in Nat
    BY <1>0, <2>1
  <2>3. \A m, n \in Nat : m * n \in Nat
    OBVIOUS
  <2> QED BY <1>0, <1>1, <2>2, <2>3 DEF SleepTime
<1>2. CASE ~(w > 0)
  BY <1>2 DEF SleepTime
<1> QED BY <1>1, <1>2

-----------------------------------------------------------------------------
(* The invariant is inductive *)

\* The initial state: an empty table, nothing queued.
LEMMA InitLemma == Init => IInv
<1> SUFFICES ASSUME Init PROVE IInv
  OBVIOUS
<1> USE LoopAssumption DEF Init
<1>1. Ids(table) = {} /\ LiveIds(table) = {} /\ table.count = 0
  BY DEF InitialTable, Ids, LiveIds
<1>2. TableOK(table)
  <2>1. /\ table = [count |-> 0, cap |-> 0, slots |-> [k \in {} |-> FreeSlot]]
        /\ 0..(0 - 1) = {}
    BY DEF InitialTable
  <2>2. table.slots \in [0..(0 - 1) -> Slot]
    BY <2>1
  <2> QED BY <2>1, <2>2 DEF TableOK
<1>3. log \in [Ids(table) -> Entry]
  BY <1>1
<1>4. CounterInv
  BY <1>1 DEF CounterInv
<1>5. HistoryInv /\ ScanInv /\ DrainInv /\ ExitClean
  BY <1>1 DEF HistoryInv, ScanInv, DrainInv, ExitClean, NothingDueBehindScan
<1> QED BY <1>2, <1>3, <1>4, <1>5 DEF IInv

\* Time passing keeps what the histories say of the past.
LEMMA LaterLemma ==
  ASSUME IInv, table' = table, log' = log, now' \in Nat, now <= now'
  PROVE  HistoryInv'
<1> SUFFICES ASSUME NEW k \in Ids(table) PROVE SlotFits(table.slots[k], log[k])'
  BY DEF HistoryInv, Ids
<1>1. SlotFits(table.slots[k], log[k]) /\ log[k] \in Entry /\ now \in Nat
  BY DEF IInv, HistoryInv, CounterInv
<1>2. log[k].set + log[k].delay * log[k].fired \in Nat
  <2>1. log[k].set \in Nat /\ log[k].delay \in Nat /\ log[k].fired \in Nat
    BY <1>1 DEF Entry
  <2> QED BY <2>1
<1>3. log'[k] = log[k] /\ table'.slots[k] = table.slots[k]
  OBVIOUS
<1> HIDE DEF Entry
<1> QED BY <1>1, <1>2, <1>3 DEF SlotFits

\* A call of setTimeout or setInterval.
LEMMA AddStep ==
  ASSUME IInv, NEW d \in Nat, NEW v \in Nat, NEW b \in BOOLEAN, v = 0 \/ v = d,
         AddTimer(d, v, b)
  PROVE  IInv'
<1> DEFINE u == UnitsPerMs
           e == [set |-> now, delay |-> d * u, isInterval |-> b, fired |-> 0]
<1>0. u \in Nat \ {0}
  BY LoopAssumption
<1>1. /\ TableOK(table) /\ log \in [Ids(table) -> Entry] /\ CounterInv
      /\ HistoryInv /\ ScanInv /\ DrainInv /\ ExitClean
  BY DEF IInv
<1>2. /\ InUserCode /\ table.count < MaxTimers
      /\ table' = TimerAdd(table, now + d * u, v * u)
      /\ log' = [k \in 0..table.count |-> IF k < table.count THEN log[k] ELSE e]
      /\ UNCHANGED <<pc, after, now, nowNs, i, micro, queued>>
  BY DEF AddTimer
<1>3. /\ now \in Nat /\ d * u \in Nat /\ v * u \in Nat /\ now + d * u \in Nat
      /\ table.count \in Nat
      /\ v * u > 0 => v * u = d * u
  <2>1. now \in Nat /\ table.count \in Nat
    BY <1>1 DEF CounterInv, TableOK
  <2>2. \A m, n \in Nat : m * n \in Nat
    OBVIOUS
  <2>3. d * u \in Nat /\ v * u \in Nat
    BY <1>0, <2>2
  <2>4. v * u > 0 => v * u = d * u
    BY <1>0
  <2> QED BY <2>1, <2>3, <2>4
<1> HIDE DEF u
<1>4. /\ TableOK(table') /\ table'.count = table.count + 1
      /\ table'.slots[table.count] =
           [deadline |-> now + d * u, interval |-> v * u, cancelled |-> FALSE]
      /\ \A k \in Ids(table) : table'.slots[k] = table.slots[k]
  BY SMTT(30), <1>1, <1>2, <1>3, AddLemma
<1>5. /\ Ids(table') = 0..table.count /\ Ids(table') = Ids(table) \cup {table.count}
      /\ \A k \in Ids(table) : k \in Nat /\ k < table.count
  BY <1>3, <1>4, SMTT(30) DEF Ids
<1>6. /\ \A k \in Ids(table) : log'[k] = log[k]
      /\ log'[table.count] = e
  BY <1>2, <1>3, <1>5
<1>7. e \in Entry
  BY <1>3 DEF Entry
<1>8. log' \in [Ids(table') -> Entry]
  <2> HIDE DEF e
  <2>1. \A k \in 0..table.count : log'[k] \in Entry
    BY <1>1, <1>5, <1>6, <1>7
  <2>2. log' = [k \in 0..table.count |-> log'[k]]
    BY <1>2
  <2> QED BY <1>5, <2>1, <2>2
<1>9. CounterInv'
  BY <1>1, <1>2, <1>3, <1>4, LoopAssumption DEF CounterInv
<1>10. HistoryInv'
  <2> SUFFICES ASSUME NEW k \in Ids(table') PROVE SlotFits(table.slots[k], log[k])'
    BY DEF HistoryInv
  <2>1. CASE k \in Ids(table)
    <3>1. SlotFits(table.slots[k], log[k])
      BY <1>1, <2>1 DEF HistoryInv
    <3>2. table'.slots[k] = table.slots[k] /\ log'[k] = log[k] /\ now' = now
      BY <1>2, <1>4, <1>6, <2>1
    <3> QED BY <3>1, <3>2 DEF SlotFits
  <2>2. CASE k = table.count
    <3>1. /\ table'.slots[k].deadline = now + d * u
          /\ table'.slots[k].interval = v * u
          /\ log'[k].set = now /\ log'[k].delay = d * u /\ log'[k].fired = 0
      BY <1>4, <1>6, <2>2
    <3>2. d * u * 1 = d * u
      BY <1>3
    <3> QED BY <1>3, <3>1, <3>2 DEF SlotFits
  <2> QED BY <1>5, <2>1, <2>2
<1>11. ScanInv'
  <2>1. pc' \notin {"fire"} /\ pc' = pc /\ i' = i /\ nowNs' = nowNs /\ i \in Nat
    BY <1>1, <1>2 DEF InUserCode, CounterInv
  <2>2. ASSUME pc = "callback"
        PROVE  /\ i < table'.count
               /\ table'.slots[i].interval > 0 \/ table'.slots[i].cancelled
               /\ \A k \in LiveIds(table') : k < i /\ table'.slots[k].interval = 0
                                               => table'.slots[k].deadline > nowNs
    <3>1. /\ i < table.count /\ i \in Ids(table)
          /\ table.slots[i].interval > 0 \/ table.slots[i].cancelled
      BY <1>1, <1>3, <2>1, <2>2 DEF ScanInv, Ids
    <3>2. \A k \in LiveIds(table') : k < i => k \in LiveIds(table) /\ table'.slots[k] = table.slots[k]
      <4> SUFFICES ASSUME NEW k \in LiveIds(table'), k < i
                   PROVE  k \in LiveIds(table) /\ table'.slots[k] = table.slots[k]
        OBVIOUS
      <4>1. k \in Ids(table') /\ ~table'.slots[k].cancelled
        BY DEF LiveIds
      <4>2. k \in Ids(table)
        BY <1>3, <1>5, <2>1, <3>1, <4>1
      <4>3. table'.slots[k] = table.slots[k]
        BY <1>4, <4>2
      <4> QED BY <4>1, <4>2, <4>3 DEF LiveIds
    <3>3. i < table'.count
      BY <1>3, <1>4, <2>1, <3>1
    <3>4. table'.slots[i].interval > 0 \/ table'.slots[i].cancelled
      BY <1>4, <3>1
    <3>5. \A k \in LiveIds(table) : k < i /\ table.slots[k].interval = 0
                                      => table.slots[k].deadline > nowNs
      BY <1>1, <2>2 DEF ScanInv, NothingDueBehindScan
    <3> QED BY <3>2, <3>3, <3>4, <3>5
  <2> QED BY <1>3, <1>4, <2>1, <2>2 DEF ScanInv, NothingDueBehindScan
<1>12. DrainInv' /\ ExitClean'
  BY <1>2 DEF DrainInv, ExitClean, InUserCode
<1> QED BY <1>4, <1>8, <1>9, <1>10, <1>11, <1>12 DEF IInv

\* clearTimeout and clearInterval, of an id that exists or not.
LEMMA ClearStep ==
  ASSUME IInv, NEW id \in Int, ClearTimer(id)
  PROVE  IInv'
<1>1. /\ TableOK(table) /\ log \in [Ids(table) -> Entry] /\ CounterInv
      /\ HistoryInv /\ ScanInv /\ DrainInv /\ ExitClean
  BY DEF IInv
<1>2. /\ InUserCode /\ table' = TimerCancel(table, id)
      /\ UNCHANGED <<pc, after, now, nowNs, i, micro, queued, log>>
  BY DEF ClearTimer
<1>3. /\ TableOK(table') /\ table'.count = table.count
      /\ \A k \in Ids(table) :
           /\ table'.slots[k].deadline = table.slots[k].deadline
           /\ table'.slots[k].interval = table.slots[k].interval
           /\ table.slots[k].cancelled => table'.slots[k].cancelled
  BY <1>1, <1>2, CancelLemma
<1>4. Ids(table') = Ids(table)
  BY <1>3 DEF Ids
<1>5. CounterInv'
  BY <1>1, <1>2, <1>3 DEF CounterInv
<1>6. HistoryInv'
  <2> SUFFICES ASSUME NEW k \in Ids(table) PROVE SlotFits(table.slots[k], log[k])'
    BY <1>4 DEF HistoryInv
  <2>1. SlotFits(table.slots[k], log[k])
    BY <1>1 DEF HistoryInv
  <2> QED BY <1>2, <1>3, <2>1 DEF SlotFits
<1>7. ScanInv'
  <2>1. i \in Nat /\ pc' = pc /\ i' = i /\ nowNs' = nowNs /\ table.count \in Nat
    BY <1>1, <1>2 DEF CounterInv, TableOK
  <2>2. ASSUME pc = "callback" PROVE table'.slots[i].interval > 0 \/ table'.slots[i].cancelled
    <3>1. i \in Ids(table)
      BY <1>1, <2>1, <2>2 DEF ScanInv, Ids
    <3> QED BY <1>1, <1>3, <2>2, <3>1 DEF ScanInv
  <2>3. NothingDueBehindScan'
    <3>1. \A k \in LiveIds(table') : k \in LiveIds(table)
      BY <1>3, <1>4 DEF LiveIds
    <3>2. \A k \in LiveIds(table) : k \in Ids(table)
      BY DEF LiveIds
    <3> QED BY <1>1, <1>3, <2>1, <3>1, <3>2 DEF ScanInv, NothingDueBehindScan
  <2> QED BY <1>1, <1>3, <2>1, <2>2, <2>3 DEF ScanInv
<1>8. DrainInv' /\ ExitClean'
  BY <1>2 DEF DrainInv, ExitClean, InUserCode
<1> QED BY <1>1, <1>2, <1>3, <1>4, <1>5, <1>6, <1>7, <1>8 DEF IInv

\* The scan calls a timer that is due.
LEMMA FireStep ==
  ASSUME IInv, FireTimer
  PROVE  IInv'
<1> DEFINE s == table.slots[i]
           h == log[i]
<1>1. /\ TableOK(table) /\ log \in [Ids(table) -> Entry] /\ CounterInv
      /\ HistoryInv /\ ScanInv /\ DrainInv /\ ExitClean
  BY DEF IInv
<1>2. /\ pc = "fire" /\ i < table.count /\ ~s.cancelled /\ s.deadline <= nowNs
      /\ table' = RearmOrRetire(table, i)
      /\ log' = [log EXCEPT ![i].fired = @ + 1]
      /\ pc' = "callback"
      /\ UNCHANGED <<after, now, nowNs, i, micro, queued>>
  BY DEF FireTimer, Due
<1>3. /\ i \in Ids(table) /\ i \in Nat /\ table.count \in Nat
      /\ now \in Nat /\ nowNs \in Nat /\ nowNs <= now
  BY <1>1, <1>2 DEF CounterInv, TableOK, Ids
<1>4. /\ TableOK(table') /\ table'.count = table.count
      /\ s \in Slot
      /\ table'.slots[i].interval = s.interval
      /\ s.interval > 0 => /\ table'.slots[i].deadline = s.deadline + s.interval
                           /\ table'.slots[i].cancelled = s.cancelled
      /\ s.interval = 0 => /\ table'.slots[i].deadline = s.deadline
                           /\ table'.slots[i].cancelled
      /\ \A k \in Ids(table) : k # i => table'.slots[k] = table.slots[k]
  BY <1>1, <1>2, <1>3, RearmLemma
<1>5. Ids(table') = Ids(table)
  BY <1>4 DEF Ids
<1>6. /\ h \in Entry /\ log'[i] = [h EXCEPT !.fired = @ + 1]
      /\ \A k \in Ids(table) : k # i => log'[k] = log[k]
      /\ log' \in [Ids(table) -> Entry]
  <2>1. h \in Entry /\ [h EXCEPT !.fired = @ + 1] \in Entry
    BY <1>1, <1>3 DEF Entry
  <2> QED BY <1>1, <1>2, <1>3, <2>1
<1>7. /\ h.set \in Nat /\ h.delay \in Nat /\ h.fired \in Nat
      /\ log'[i].set = h.set /\ log'[i].delay = h.delay /\ log'[i].fired = h.fired + 1
      /\ s.deadline \in Nat /\ s.interval \in Nat
  BY <1>4, <1>6 DEF Entry, Slot
<1>8. SlotFits(table.slots[i], log[i])'
  <2>1. SlotFits(s, h)
    BY <1>1, <1>3 DEF HistoryInv
  <2>2. CASE s.interval > 0
    <3>1. /\ s.deadline = h.set + h.delay * (h.fired + 1)
          /\ s.interval = h.delay
      BY <2>1, <2>2 DEF SlotFits
    <3>2. h.delay * (h.fired + 1) + h.delay = h.delay * (h.fired + 1 + 1)
      <4>1. \A m, n \in Nat : m * (n + 1) + m = m * (n + 1 + 1)
        OBVIOUS
      <4> QED BY <1>7, <4>1
    <3>3. table'.slots[i].deadline = h.set + h.delay * (h.fired + 1 + 1)
      BY <1>4, <1>7, <2>2, <3>1, <3>2
    <3>4. h.set + h.delay * (h.fired + 1) <= now
      BY <1>2, <1>3, <1>7, <3>1
    <3> HIDE DEF s, h
    <3> QED BY <1>2, <1>4, <1>7, <2>2, <3>1, <3>3, <3>4 DEF SlotFits
  <2>3. CASE s.interval = 0
    <3>1. /\ s.deadline = h.set + h.delay * 1 /\ h.fired = 0
      BY <1>2, <2>1, <2>3 DEF SlotFits
    <3>2. h.set + h.delay * 1 <= now
      BY <1>2, <1>3, <1>7, <3>1
    <3> HIDE DEF s, h
    <3> QED BY <1>2, <1>4, <1>7, <2>3, <3>1, <3>2 DEF SlotFits
  <2> QED BY <1>7, <2>2, <2>3
<1>9. HistoryInv'
  <2> SUFFICES ASSUME NEW k \in Ids(table), k # i PROVE SlotFits(table.slots[k], log[k])'
    BY <1>5, <1>8, <1>2 DEF HistoryInv
  <2>1. SlotFits(table.slots[k], log[k])
    BY <1>1 DEF HistoryInv
  <2> QED BY <1>2, <1>4, <1>6, <2>1 DEF SlotFits
<1>10. CounterInv'
  BY <1>1, <1>2, <1>4 DEF CounterInv
<1>11. ScanInv'
  <2>1. table'.slots[i].interval > 0 \/ table'.slots[i].cancelled
    BY <1>4, <1>7
  <2>2. NothingDueBehindScan'
    <3>1. \A k \in LiveIds(table') : k < i => k \in LiveIds(table) /\ table'.slots[k] = table.slots[k]
      BY <1>3, <1>4, <1>5 DEF LiveIds, Ids
    <3> QED BY <1>1, <1>2, <3>1 DEF ScanInv, NothingDueBehindScan
  <2> QED BY <1>2, <1>3, <1>4, <2>1, <2>2 DEF ScanInv
<1>12. DrainInv' /\ ExitClean'
  BY <1>2 DEF DrainInv, ExitClean
<1> QED BY <1>4, <1>5, <1>6, <1>9, <1>10, <1>11, <1>12 DEF IInv

\* The steps that change neither the table nor the histories.
LEMMA QuietStep ==
  ASSUME IInv, UNCHANGED <<table, log>>, CounterInv', now <= now',
         ScanInv', DrainInv', ExitClean'
  PROVE  IInv'
<1>1. now' \in Nat
  BY DEF CounterInv
<1> QED BY <1>1, LaterLemma DEF IInv, Ids, TableOK

\* Every step keeps the invariant.
LEMMA StepLemma == IInv /\ [Next]_vars => IInv'
<1> SUFFICES ASSUME IInv, [Next]_vars PROVE IInv'
  OBVIOUS
<1>0. /\ TableOK(table) /\ CounterInv /\ ScanInv /\ DrainInv /\ ExitClean
      /\ table.count \in Nat
  BY DEF IInv, TableOK
<1>1. CASE RunJob
  <2>1. /\ pc = "drain" /\ micro > 0 /\ micro' = micro - 1 /\ pc' = "job"
        /\ UNCHANGED <<table, after, now, nowNs, i, queued, log>>
    BY <1>1 DEF RunJob
  <2>2. CounterInv' /\ now <= now'
    BY <1>0, <2>1 DEF CounterInv
  <2>3. ScanInv' /\ DrainInv' /\ ExitClean'
    BY <2>1 DEF ScanInv, DrainInv, ExitClean, NothingDueBehindScan
  <2> QED BY <2>1, <2>2, <2>3, QuietStep
<1>2. CASE DrainDone
  <2>1. /\ pc = "drain" /\ micro = 0 /\ pc' = after
        /\ UNCHANGED <<table, after, now, nowNs, i, micro, queued, log>>
    BY <1>2 DEF DrainDone
  <2>2. CounterInv' /\ now <= now' /\ pc' \in {"read", "peek"}
    BY <1>0, <2>1 DEF CounterInv
  <2>3. ScanInv' /\ DrainInv' /\ ExitClean'
    BY <2>1, <2>2 DEF ScanInv, DrainInv, ExitClean, NothingDueBehindScan
  <2> QED BY <2>1, <2>2, <2>3, QuietStep
<1>3. CASE ReadNow
  <2>1. /\ pc = "read" /\ nowNs' = now /\ i' = 0 /\ pc' = "fire"
        /\ UNCHANGED <<table, after, now, micro, queued, log>>
    BY <1>3 DEF ReadNow
  <2>2. CounterInv' /\ now <= now'
    BY <1>0, <2>1 DEF CounterInv
  <2>3. \A k \in LiveIds(table) : ~(k < 0)
    BY <1>0 DEF LiveIds, Ids
  <2>4. ScanInv' /\ DrainInv' /\ ExitClean'
    BY <1>0, <2>1, <2>3 DEF ScanInv, DrainInv, ExitClean, NothingDueBehindScan
  <2> QED BY <2>1, <2>2, <2>4, QuietStep
<1>4. CASE SkipTimer
  <2>1. /\ pc = "fire" /\ i < table.count
        /\ table.slots[i].cancelled \/ ~(table.slots[i].deadline <= nowNs)
        /\ i' = i + 1
        /\ UNCHANGED <<table, pc, after, now, nowNs, micro, queued, log>>
    BY <1>4 DEF SkipTimer, Due
  <2>2. /\ CounterInv' /\ now <= now' /\ i \in Nat /\ nowNs \in Nat
    BY <1>0, <2>1 DEF CounterInv
  <2>3. NothingDueBehindScan'
    <3> SUFFICES ASSUME NEW k \in LiveIds(table), k < i + 1, table.slots[k].interval = 0
                 PROVE  table.slots[k].deadline > nowNs
      BY <2>1 DEF NothingDueBehindScan, LiveIds, Ids
    <3>1. k \in Nat /\ k \in 0..(table.cap - 1) /\ ~table.slots[k].cancelled
      BY <1>0 DEF LiveIds, Ids, TableOK
    <3>2. table.slots[k].deadline \in Nat
      BY <1>0, <3>1 DEF TableOK, Slot
    <3>3. CASE k = i
      BY <2>1, <2>2, <3>1, <3>2, <3>3
    <3>4. CASE k # i
      <4>1. k < i
        BY <2>2, <3>1, <3>4
      <4> QED BY <1>0, <2>1, <4>1 DEF ScanInv, NothingDueBehindScan
    <3> QED BY <3>3, <3>4
  <2>4. ScanInv' /\ DrainInv' /\ ExitClean'
    BY <1>0, <2>1, <2>2, <2>3 DEF ScanInv, DrainInv, ExitClean
  <2> QED BY <2>1, <2>2, <2>4, QuietStep
<1>5. CASE FireTimer
  BY <1>5, FireStep
<1>6. CASE FireDone
  <2>1. /\ pc = "fire" /\ pc' = "drain" /\ after' = "peek"
        /\ UNCHANGED <<table, now, nowNs, i, micro, queued, log>>
    BY <1>6 DEF FireDone
  <2>2. CounterInv' /\ now <= now'
    BY <1>0, <2>1 DEF CounterInv
  <2>3. ScanInv' /\ DrainInv' /\ ExitClean'
    BY <2>1 DEF ScanInv, DrainInv, ExitClean, NothingDueBehindScan
  <2> QED BY <2>1, <2>2, <2>3, QuietStep
<1>7. CASE Exit
  <2>1. /\ pc = "peek" /\ PeekDeadline(table) = NoTimer /\ pc' = "exit"
        /\ UNCHANGED <<table, after, now, nowNs, i, micro, queued, log>>
    BY <1>7 DEF Exit
  <2>2. CounterInv' /\ now <= now'
    BY <1>0, <2>1 DEF CounterInv
  <2>3. LiveIds(table) = {}
    BY <1>0, <2>1, PeekNatLemma DEF NoTimer
  <2>4. ScanInv' /\ DrainInv' /\ ExitClean'
    BY <1>0, <2>1, <2>3 DEF ScanInv, DrainInv, ExitClean, NothingDueBehindScan, LiveIds, Ids
  <2> QED BY <2>1, <2>2, <2>4, QuietStep
<1>8. CASE Sleep
  <2>1. /\ pc = "peek" /\ PeekDeadline(table) # NoTimer
        /\ now' = now + SleepTime(PeekDeadline(table) - now)
        /\ pc' = "drain" /\ after' = "read"
        /\ UNCHANGED <<table, nowNs, i, micro, queued, log>>
    BY <1>8 DEF Sleep
  <2>2. SleepTime(PeekDeadline(table) - now) \in Nat
    <3>1. PeekDeadline(table) \in Nat
      BY <1>0, <2>1, PeekNatLemma DEF PeekDeadline
    <3> QED BY <1>0, <3>1, SleepLemma DEF CounterInv
  <2>3. CounterInv' /\ now <= now'
    BY <1>0, <2>1, <2>2 DEF CounterInv
  <2>4. ScanInv' /\ DrainInv' /\ ExitClean'
    BY <2>1 DEF ScanInv, DrainInv, ExitClean, NothingDueBehindScan
  <2> QED BY <2>1, <2>3, <2>4, QuietStep
<1>9. CASE Return
  <2>1. /\ InUserCode
        /\ pc' = IF pc = "callback" THEN "fire" ELSE "drain"
        /\ i' = IF pc = "callback" THEN i + 1 ELSE i
        /\ UNCHANGED <<table, after, now, nowNs, micro, queued, log>>
    BY <1>9 DEF Return, InUserCode
  <2>2. CounterInv' /\ now <= now' /\ i \in Nat
    BY <1>0, <2>1 DEF CounterInv
  <2>3. ASSUME pc = "callback" PROVE i + 1 <= table.count /\ NothingDueBehindScan'
    <3>1. /\ i < table.count
          /\ table.slots[i].interval > 0 \/ table.slots[i].cancelled
      BY <1>0, <2>3 DEF ScanInv
    <3> SUFFICES ASSUME NEW k \in LiveIds(table), k < i + 1, table.slots[k].interval = 0
                 PROVE  table.slots[k].deadline > nowNs
      BY <1>0, <2>1, <2>2, <2>3, <3>1 DEF NothingDueBehindScan, LiveIds, Ids
    <3>2. k \in Nat /\ ~table.slots[k].cancelled
      BY <1>0 DEF LiveIds, Ids
    <3>3. k < i
      BY <2>2, <3>1, <3>2
    <3> QED BY <1>0, <2>3, <3>3 DEF ScanInv, NothingDueBehindScan
  <2>4. ScanInv'
    BY <2>1, <2>3 DEF ScanInv, NothingDueBehindScan
  <2>5. DrainInv' /\ ExitClean'
    BY <2>1 DEF DrainInv, ExitClean
  <2> QED BY <2>1, <2>2, <2>4, <2>5, QuietStep
<1>10. CASE Tick
  <2>1. now' = now + 1 /\ UNCHANGED <<table, pc, after, nowNs, i, micro, queued, log>>
    BY <1>10 DEF Tick
  <2>2. CounterInv' /\ now <= now'
    BY <1>0, <2>1 DEF CounterInv
  <2>3. ScanInv' /\ DrainInv' /\ ExitClean'
    BY <1>0, <2>1 DEF ScanInv, DrainInv, ExitClean, NothingDueBehindScan, LiveIds, Ids
  <2> QED BY <2>1, <2>2, <2>3, QuietStep
<1>11. CASE QueueMicrotask
  <2>1. /\ InUserCode /\ queued < MaxJobs /\ micro' = micro + 1 /\ queued' = queued + 1
        /\ UNCHANGED <<table, pc, after, now, nowNs, i, log>>
    BY <1>11 DEF QueueMicrotask
  <2>2. CounterInv' /\ now <= now'
    BY <1>0, <2>1, LoopAssumption DEF CounterInv
  <2>3. ScanInv' /\ DrainInv' /\ ExitClean'
    BY <1>0, <2>1 DEF ScanInv, DrainInv, ExitClean, NothingDueBehindScan, LiveIds, Ids, InUserCode
  <2> QED BY <2>1, <2>2, <2>3, QuietStep
<1>12. ASSUME NEW d \in Delays, SetTimeout(d) PROVE IInv'
  <2>1. d \in Nat
    BY LoopAssumption
  <2> QED BY <1>12, <2>1, AddStep DEF SetTimeout
<1>13. ASSUME NEW p \in Periods, SetInterval(p) PROVE IInv'
  <2>1. p \in Nat
    BY LoopAssumption
  <2> QED BY <1>13, <2>1, AddStep DEF SetInterval
<1>14. ASSUME NEW id \in -1..MaxTimers, ClearTimer(id) PROVE IInv'
  <2>1. id \in Int
    BY LoopAssumption
  <2> QED BY <1>14, <2>1, ClearStep
<1>15. CASE UNCHANGED vars
  <2>1. UNCHANGED <<table, pc, after, now, nowNs, i, micro, queued, log>>
    BY <1>15 DEF vars
  <2>2. CounterInv' /\ now <= now'
    BY <1>0, <2>1 DEF CounterInv
  <2>3. ScanInv' /\ DrainInv' /\ ExitClean'
    BY <1>0, <2>1 DEF ScanInv, DrainInv, ExitClean, NothingDueBehindScan, LiveIds, Ids
  <2> QED BY <2>1, <2>2, <2>3, QuietStep
<1> QED BY <1>1, <1>2, <1>3, <1>4, <1>5, <1>6, <1>7, <1>8, <1>9, <1>10, <1>11, <1>12,
           <1>13, <1>14, <1>15 DEF Next, Loop

-----------------------------------------------------------------------------
(* The theorems *)

\* The strengthened invariant holds in every reachable state of the loop.
THEOREM Invariance == Spec => []IInv
BY InitLemma, StepLemma, PTL DEF Spec

\* The __timer_* globals keep their types; no index leaves the slot arrays.
THEOREM TypeCorrect == Spec => []TypeOK
<1>1. IInv => TypeOK
  <2> SUFFICES ASSUME IInv PROVE TypeOK
    OBVIOUS
  <2>1. /\ table.count \in 0..MaxTimers /\ table.count <= table.cap
        /\ table.slots \in [0..(table.cap - 1) -> [deadline : Nat, interval : Nat, cancelled : BOOLEAN]]
    BY LoopAssumption DEF IInv, TableOK, CounterInv, Slot
  <2>2. /\ pc \in {"main", "callback", "job", "drain", "read", "fire", "peek", "exit"}
        /\ after \in {"read", "peek"}
        /\ {now, nowNs, i} \subseteq Nat /\ micro \in 0..queued /\ queued \in 0..MaxJobs
    BY LoopAssumption DEF IInv, CounterInv
  <2>3. log \in [Ids(table) -> [set : Nat, delay : Nat, isInterval : BOOLEAN, fired : Nat]]
    BY DEF IInv, Entry
  <2> QED BY <2>1, <2>2, <2>3 DEF TypeOK
<1> QED BY <1>1, Invariance, PTL

\* __timer_add, __timer_grow and __timer_fire_due keep every id's own timer: its
\* deadline follows from when it was set and how often it fired, and it never fired
\* early, for every delay, period, capacity and wrap of the sleep.
THEOREM HistoryKept == Spec => []TimerHistory
<1>1. IInv => TimerHistory
  BY DEF IInv, HistoryInv, SlotFits, TimerHistory
<1> QED BY <1>1, Invariance, PTL

\* __timer_fire_due leaves no due one-shot behind its scan index, whatever the
\* callbacks set and clear while it scans.
THEOREM ScanComplete == Spec => []NothingDueBehindScan
<1>1. IInv => NothingDueBehindScan
  BY DEF IInv, ScanInv
<1> QED BY <1>1, Invariance, PTL

\* __run_event_loop returns only when no timer is armed and no job is queued.
THEOREM ExitIsClean == Spec => []ExitClean
<1>1. IInv => ExitClean
  BY DEF IInv
<1> QED BY <1>1, Invariance, PTL

\* No step makes a timer fire that __timer_cancel has marked, not even one of the
\* scan that was running when it was cleared.
THEOREM ClearedSilent == Spec => ClearedStaysSilent
<1> DEFINE Silent == \A k \in Ids(table) : table.slots[k].cancelled => log'[k].fired = log[k].fired
<1>1. IInv /\ [Next]_vars => [Silent]_vars
  <2> SUFFICES ASSUME IInv, Next, NEW k \in Ids(table), table.slots[k].cancelled
               PROVE  log'[k] = log[k]
    BY DEF vars
  <2>1. CASE FireTimer
    <3>1. i # k /\ log' = [log EXCEPT ![i].fired = @ + 1]
      BY <2>1 DEF FireTimer, Due
    <3>2. k \in DOMAIN log
      BY DEF IInv
    <3> QED BY <3>1, <3>2
  <2>2. ASSUME NEW d, NEW v, NEW b, AddTimer(d, v, b) PROVE log'[k] = log[k]
    <3>1. k \in 0..table.count /\ k < table.count
      BY DEF IInv, TableOK, Ids
    <3> QED BY <2>2, <3>1 DEF AddTimer
  <2>3. CASE UNCHANGED log
    BY <2>3
  <2>4. FireTimer \/ UNCHANGED log \/ \E d, v, b : AddTimer(d, v, b)
    BY DEF Next, Loop, RunJob, DrainDone, ReadNow, SkipTimer, FireDone, Exit, Sleep, Return,
           Tick, QueueMicrotask, SetTimeout, SetInterval, ClearTimer
  <2> QED BY <2>1, <2>2, <2>3, <2>4
<1> QED BY <1>1, Invariance, PTL DEF Spec, ClearedStaysSilent
=============================================================================
