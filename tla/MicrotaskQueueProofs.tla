------------------------ MODULE MicrotaskQueueProofs ------------------------
(***************************************************************************)
(* For every set of jobs, initial capacity and bound: the microtask queue  *)
(* keeps its indices ordered and its live slots whole, loses no job, and   *)
(* implements the first-in first-out JobQueue.                             *)
(*                                                                         *)
(* The lemmas are about the pure functions on the queue's globals; the     *)
(* invariance proof then only follows the actions.                         *)
(***************************************************************************)
EXTENDS MicrotaskQueue, SequenceTheorems, TLAPS

\* What a state of the globals must satisfy for the bodies to work on it.
QueueOK(s) ==
  /\ s.head \in Nat /\ s.tail \in Nat /\ s.cap \in Nat
  /\ s.funcs \in [0..(s.cap - 1) -> Funs \cup {Null}]
  /\ s.caps \in [0..(s.cap - 1) -> Externs \cup {Null}]
  /\ s.args \in [0..(s.cap - 1) -> Externs \cup {Null}]
  /\ s.head <= s.tail /\ s.tail <= s.cap
  /\ \A i \in s.head..(s.tail - 1) : SlotAt(s, i) \in Jobs

\* The arrays are null exactly while the capacity is zero.
LEMMA NullArrayLemma ==
  ASSUME NEW s, QueueOK(s)
  PROVE  s.funcs = NullArray <=> s.cap = 0
<1>1. s.cap \in Nat /\ s.funcs \in [0..(s.cap - 1) -> Funs \cup {Null}]
  BY DEF QueueOK
<1>2. ASSUME s.cap = 0 PROVE s.funcs = NullArray
  <2>1. 0..(s.cap - 1) = {}
    BY <1>2
  <2> QED BY <1>1, <2>1 DEF NullArray
<1>3. ASSUME s.cap # 0 PROVE s.funcs # NullArray
  <2>1. 0 \in 0..(s.cap - 1)
    BY <1>1, <1>3
  <2>2. 0 \in DOMAIN s.funcs
    BY <1>1, <2>1
  <2>3. DOMAIN NullArray = {}
    BY DEF NullArray
  <2> QED BY <2>2, <2>3
<1> QED BY <1>2, <1>3

\* The live jobs are a sequence of jobs, in slot order from head.
LEMMA LiveLemma ==
  ASSUME NEW s, QueueOK(s)
  PROVE  /\ Pending(s) \in Nat
         /\ Live(s) \in Seq(Jobs)
         /\ Len(Live(s)) = Pending(s)
         /\ \A i \in 1..Pending(s) : Live(s)[i] = SlotAt(s, s.head + i - 1)
<1>1. Pending(s) \in Nat
  BY DEF QueueOK, Pending
<1>2. \A i \in 1..Pending(s) : SlotAt(s, s.head + i - 1) \in Jobs
  BY <1>1, SMTT(30) DEF Pending, QueueOK
<1> QED BY <1>1, <1>2 DEF Live

\* Growing to any capacity with room for the live jobs keeps them, in order
\* (buildGrowBody's copy of [oldHead, oldTail) to the front).
LEMMA GrowLemma ==
  ASSUME NEW s, QueueOK(s), NEW n \in Nat, Pending(s) <= n
  PROVE  /\ QueueOK(Grow(s, n))
         /\ Grow(s, n).head = 0
         /\ Grow(s, n).tail = Pending(s)
         /\ Grow(s, n).cap = n
         /\ Live(Grow(s, n)) = Live(s)
<1> DEFINE g == Grow(s, n)
<1>1. /\ g.head = 0 /\ g.cap = n
      /\ g.funcs = MovedSlice(s.funcs, s.head, s.tail, n)
      /\ g.caps = MovedSlice(s.caps, s.head, s.tail, n)
      /\ g.args = MovedSlice(s.args, s.head, s.tail, n)
  BY DEF Grow
<1>2. g.tail = Pending(s)
  <2>1. CASE s.funcs = NullArray
    <3>1. s.cap = 0
      BY <2>1, NullArrayLemma
    <3> QED BY <2>1, <3>1 DEF QueueOK, Grow, Pending
  <2>2. CASE s.funcs # NullArray
    BY <2>2 DEF Grow, Pending
  <2> QED BY <2>1, <2>2
<1>3. Pending(s) \in Nat /\ g.tail \in Nat
  BY <1>2 DEF QueueOK, Pending
<1>4. \A i \in 0..(Pending(s) - 1) : s.head + i \in 0..(s.cap - 1) /\ i \in 0..(n - 1)
  BY SMTT(30), <1>3 DEF QueueOK, Pending
<1>5. /\ g.funcs \in [0..(n - 1) -> Funs \cup {Null}]
      /\ g.caps \in [0..(n - 1) -> Externs \cup {Null}]
      /\ g.args \in [0..(n - 1) -> Externs \cup {Null}]
  <2> HIDE DEF g
  <2>1. /\ s.cap \in Nat /\ s.head \in Nat /\ s.tail \in Nat
        /\ s.head <= s.tail /\ s.tail <= s.cap
        /\ s.funcs \in [0..(s.cap - 1) -> Funs \cup {Null}]
        /\ s.caps \in [0..(s.cap - 1) -> Externs \cup {Null}]
        /\ s.args \in [0..(s.cap - 1) -> Externs \cup {Null}]
    BY DEF QueueOK
  <2>2. \A i \in 0..(n - 1) : i < s.tail - s.head => s.head + i \in 0..(s.cap - 1)
    BY SMTT(30), <2>1
  <2>3. g.funcs \in [0..(n - 1) -> Funs \cup {Null}]
    BY SMTT(30), <1>1, <2>1, <2>2 DEF MovedSlice
  <2>4. g.caps \in [0..(n - 1) -> Externs \cup {Null}]
    BY SMTT(30), <1>1, <2>1, <2>2 DEF MovedSlice
  <2>5. g.args \in [0..(n - 1) -> Externs \cup {Null}]
    BY SMTT(30), <1>1, <2>1, <2>2 DEF MovedSlice
  <2> QED BY <2>3, <2>4, <2>5
<1>6. \A i \in 0..(Pending(s) - 1) : SlotAt(g, i) = SlotAt(s, s.head + i)
  BY <1>1, <1>3, <1>4 DEF SlotAt, MovedSlice, Pending
<1>7. \A i \in 0..(Pending(s) - 1) : SlotAt(s, s.head + i) \in Jobs
  BY <1>3, SMTT(30) DEF QueueOK, Pending
<1>8. QueueOK(g)
  BY <1>1, <1>2, <1>3, <1>5, <1>6, <1>7 DEF QueueOK
<1>9. Live(g) = Live(s)
  <2>1. Pending(g) = Pending(s)
    BY <1>1, <1>2, <1>3 DEF Pending
  <2>2. \A i \in 1..Pending(s) : SlotAt(g, g.head + i - 1) = SlotAt(s, s.head + i - 1)
    <3> TAKE i \in 1..Pending(s)
    <3>1. i - 1 \in 0..(Pending(s) - 1) /\ g.head + i - 1 = i - 1 /\ s.head + (i - 1) = s.head + i - 1
      BY <1>1, <1>3 DEF QueueOK
    <3> QED BY <1>6, <3>1
  <2> QED BY <2>1, <2>2 DEF Live
<1> QED BY <1>1, <1>2, <1>8, <1>9

\* Storing at tail, where there is room, appends the job.
LEMMA StoreLemma ==
  ASSUME NEW s, QueueOK(s), s.tail < s.cap, NEW j \in Jobs
  PROVE  /\ QueueOK(Store(s, j))
         /\ Store(s, j).head = s.head
         /\ Store(s, j).tail = s.tail + 1
         /\ Store(s, j).cap = s.cap
         /\ Live(Store(s, j)) = Append(Live(s), j)
<1> DEFINE g == Store(s, j)
<1>1. /\ g.head = s.head /\ g.tail = s.tail + 1 /\ g.cap = s.cap
      /\ g.funcs = [s.funcs EXCEPT ![s.tail] = j.fn]
      /\ g.caps = [s.caps EXCEPT ![s.tail] = j.caps]
      /\ g.args = [s.args EXCEPT ![s.tail] = j.arg]
  BY DEF Store
<1>2. j \in [fn : Funs, caps : Externs, arg : Externs]
  BY QueueAssumption
<1>3. s.tail \in 0..(s.cap - 1)
  BY DEF QueueOK
<1>4. /\ g.funcs \in [0..(s.cap - 1) -> Funs \cup {Null}]
      /\ g.caps \in [0..(s.cap - 1) -> Externs \cup {Null}]
      /\ g.args \in [0..(s.cap - 1) -> Externs \cup {Null}]
  BY <1>1, <1>2, <1>3 DEF QueueOK
<1>5. SlotAt(g, s.tail) = j
  <2>1. g.funcs[s.tail] = j.fn /\ g.caps[s.tail] = j.caps /\ g.args[s.tail] = j.arg
    BY <1>1, <1>3 DEF QueueOK
  <2> QED BY <1>2, <2>1 DEF SlotAt
<1>6. \A i \in 0..(s.tail - 1) : SlotAt(g, i) = SlotAt(s, i)
  BY SMTT(30), <1>1, <1>3 DEF SlotAt, QueueOK
<1>7. QueueOK(g)
  <2>1. \A i \in g.head..(g.tail - 1) : SlotAt(g, i) \in Jobs
    <3> TAKE i \in g.head..(g.tail - 1)
    <3>1. i \in s.head..(s.tail - 1) \/ i = s.tail
      BY <1>1 DEF QueueOK
    <3> QED BY <3>1, <1>5, <1>6 DEF QueueOK
  <2> QED BY <1>1, <1>3, <1>4, <2>1 DEF QueueOK
<1>8. Live(g) = Append(Live(s), j)
  <2>1. /\ Pending(s) \in Nat /\ Live(s) \in Seq(Jobs) /\ Len(Live(s)) = Pending(s)
        /\ \A i \in 1..Pending(s) : Live(s)[i] = SlotAt(s, s.head + i - 1)
    BY LiveLemma
  <2>2. /\ Live(g) \in Seq(Jobs) /\ Len(Live(g)) = Pending(g)
        /\ \A i \in 1..Pending(g) : Live(g)[i] = SlotAt(g, g.head + i - 1)
    BY <1>7, LiveLemma
  <2>3. Pending(g) = Pending(s) + 1
    BY <1>1 DEF Pending, QueueOK
  <2>4. /\ Append(Live(s), j) \in Seq(Jobs) /\ Len(Append(Live(s), j)) = Pending(s) + 1
        /\ \A i \in 1..Pending(s) : Append(Live(s), j)[i] = Live(s)[i]
        /\ Append(Live(s), j)[Pending(s) + 1] = j
    BY <2>1, AppendProperties
  <2>5. \A i \in 1..Pending(s) : SlotAt(g, g.head + i - 1) = SlotAt(s, s.head + i - 1)
    <3> TAKE i \in 1..Pending(s)
    <3>1. s.head + i - 1 \in 0..(s.tail - 1)
      BY <2>1 DEF Pending, QueueOK
    <3> QED BY <1>1, <1>6, <3>1
  <2>6. SlotAt(g, g.head + Pending(g) - 1) = j
    BY <1>1, <1>5, <2>1 DEF Pending, QueueOK
  <2>7. \A i \in 1..Len(Live(g)) : Live(g)[i] = Append(Live(s), j)[i]
    <3> TAKE i \in 1..Len(Live(g))
    <3>1. i \in 1..Pending(s) \/ i = Pending(s) + 1
      BY <2>1, <2>2, <2>3
    <3> QED BY <2>1, <2>2, <2>3, <2>4, <2>5, <2>6, <3>1
  <2> HIDE DEF g
  <2> QED BY <2>2, <2>3, <2>4, <2>7, SeqEqual
<1> QED BY <1>1, <1>7, <1>8

\* An enqueue appends the job, whether or not it has to allocate or to double.
LEMMA EnqueueLemma ==
  ASSUME NEW s, QueueOK(s), NEW j \in Jobs, NEW m \in Nat, s.tail <= m,
         s.cap <= InitialCapacity \/ s.cap <= 2 * m
  PROVE  /\ QueueOK(EnqueueBody(s, j))
         /\ Live(EnqueueBody(s, j)) = Append(Live(s), j)
         /\ Pending(EnqueueBody(s, j)) = Pending(s) + 1
         /\ EnqueueBody(s, j).tail <= m + 1
         /\ EnqueueBody(s, j).cap <= InitialCapacity \/ EnqueueBody(s, j).cap <= 2 * (m + 1)
<1> DEFINE a == IF s.funcs = NullArray THEN Grow(s, InitialCapacity) ELSE s
           r == IF a.tail = a.cap THEN Grow(a, 2 * a.cap) ELSE a
<1>0. InitialCapacity \in Nat \ {0}
  BY QueueAssumption
<1>1. /\ QueueOK(a) /\ Live(a) = Live(s) /\ Pending(a) = Pending(s)
      /\ a.tail <= m /\ a.cap > 0
      /\ a.cap <= InitialCapacity \/ a.cap <= 2 * m
  <2>1. CASE s.funcs = NullArray
    <3>3. s.cap = 0
      BY <2>1, NullArrayLemma
    <3>4. Pending(s) = 0
      BY <3>3 DEF Pending, QueueOK
    <3>5. /\ QueueOK(a) /\ Live(a) = Live(s)
          /\ a.head = 0 /\ a.tail = 0 /\ a.cap = InitialCapacity
      BY <1>0, <2>1, <3>4, GrowLemma
    <3> QED BY <1>0, <3>4, <3>5 DEF Pending
  <2>2. CASE s.funcs # NullArray
    <3>1. s.cap # 0
      BY <2>2, NullArrayLemma
    <3> QED BY <2>2, <3>1 DEF QueueOK
  <2> QED BY <2>1, <2>2
<1> HIDE DEF a
<1>2. a.tail \in Nat /\ a.cap \in Nat /\ a.head \in Nat /\ a.head <= a.tail /\ a.tail <= a.cap
  BY <1>1 DEF QueueOK
<1>3. /\ QueueOK(r) /\ Live(r) = Live(s) /\ Pending(r) = Pending(s)
      /\ r.tail <= m /\ r.tail < r.cap
      /\ r.cap <= InitialCapacity \/ r.cap <= 2 * m
  <2>1. CASE a.tail = a.cap
    <3>1. 2 * a.cap \in Nat /\ Pending(a) <= 2 * a.cap
      BY <1>2 DEF Pending
    <3>2. /\ QueueOK(r) /\ Live(r) = Live(a)
          /\ r.head = 0 /\ r.tail = Pending(a) /\ r.cap = 2 * a.cap
      BY <1>1, <2>1, <3>1, GrowLemma
    <3> QED BY <1>0, <1>1, <1>2, <2>1, <3>2 DEF Pending
  <2>2. CASE a.tail # a.cap
    BY <1>1, <1>2, <2>2
  <2> QED BY <2>1, <2>2
<1>4. EnqueueBody(s, j) = Store(r, j)
  BY DEF EnqueueBody, WithRoom, a
<1> HIDE DEF r
<1>5. r.tail \in Nat /\ r.head \in Nat /\ r.cap \in Nat
  BY <1>3 DEF QueueOK
<1>6. /\ QueueOK(Store(r, j)) /\ Live(Store(r, j)) = Append(Live(r), j)
      /\ Store(r, j).head = r.head /\ Store(r, j).tail = r.tail + 1 /\ Store(r, j).cap = r.cap
  BY <1>3, StoreLemma
<1>7. Pending(Store(r, j)) = Pending(r) + 1
  BY <1>5, <1>6 DEF Pending
<1> QED BY <1>0, <1>3, <1>4, <1>5, <1>6, <1>7

\* Advancing head takes the first live job off, and it is the one that was read.
LEMMA AdvanceLemma ==
  ASSUME NEW s, QueueOK(s), s.head # s.tail
  PROVE  /\ QueueOK(Advance(s))
         /\ Live(s) # <<>>
         /\ Live(Advance(s)) = Tail(Live(s))
         /\ SlotAt(s, s.head) = Head(Live(s))
         /\ SlotAt(s, s.head) \in Jobs
         /\ Pending(Advance(s)) = Pending(s) - 1
         /\ Advance(s).tail = s.tail /\ Advance(s).cap = s.cap
<1> DEFINE g == Advance(s)
<1>1. /\ g.head = s.head + 1 /\ g.tail = s.tail /\ g.cap = s.cap
      /\ g.funcs = s.funcs /\ g.caps = s.caps /\ g.args = s.args
  BY DEF Advance
<1>2. s.head \in Nat /\ s.tail \in Nat /\ s.cap \in Nat /\ s.head < s.tail /\ s.tail <= s.cap
  BY DEF QueueOK
<1>3. \A i : SlotAt(g, i) = SlotAt(s, i)
  BY <1>1 DEF SlotAt
<1>4. QueueOK(g)
  BY <1>1, <1>2, <1>3 DEF QueueOK
<1>5. /\ Pending(s) \in Nat /\ Live(s) \in Seq(Jobs) /\ Len(Live(s)) = Pending(s)
      /\ \A i \in 1..Pending(s) : Live(s)[i] = SlotAt(s, s.head + i - 1)
  BY LiveLemma
<1>6. /\ Live(g) \in Seq(Jobs) /\ Len(Live(g)) = Pending(g)
      /\ \A i \in 1..Pending(g) : Live(g)[i] = SlotAt(g, g.head + i - 1)
  BY <1>4, LiveLemma
<1>7. Pending(s) > 0 /\ Pending(g) = Pending(s) - 1
  BY <1>1, <1>2 DEF Pending
<1>8. Live(s) # <<>>
  BY <1>5, <1>7, EmptySeq
<1>9. SlotAt(s, s.head) = Live(s)[1]
  BY <1>2, <1>5, <1>7
<1>10. Head(Live(s)) = Live(s)[1] /\ Head(Live(s)) \in Jobs
  BY <1>5, <1>8, HeadTailProperties
<1>11. /\ Tail(Live(s)) \in Seq(Jobs) /\ Len(Tail(Live(s))) = Pending(s) - 1
       /\ \A i \in 1..Len(Tail(Live(s))) : Tail(Live(s))[i] = Live(s)[i + 1]
  BY <1>5, <1>8, HeadTailProperties
<1>12. \A i \in 1..Len(Live(g)) : Live(g)[i] = Tail(Live(s))[i]
  <2> TAKE i \in 1..Len(Live(g))
  <2>1. i + 1 \in 1..Pending(s) /\ g.head + i - 1 = s.head + (i + 1) - 1
    BY <1>1, <1>2, <1>5, <1>6, <1>7
  <2>2. Live(g)[i] = SlotAt(s, s.head + (i + 1) - 1)
    BY <1>3, <1>6, <2>1
  <2>3. Tail(Live(s))[i] = Live(s)[i + 1]
    BY <1>6, <1>7, <1>11
  <2> QED BY <1>5, <2>1, <2>2, <2>3
<1> HIDE DEF g
<1>13. Live(g) = Tail(Live(s))
  BY <1>6, <1>7, <1>11, <1>12, SeqEqual
<1> QED BY <1>1, <1>4, <1>7, <1>8, <1>9, <1>10, <1>13 DEF g

-----------------------------------------------------------------------------
(* The inductive invariant is the conjunction of what the runs check: the    *)
(* slots are whole only while the indices are ordered, and the bound on the  *)
(* capacity needs the bound on tail.                                         *)

IInv == TypeOK /\ IndexOrder /\ LiveSlotsHoldJobs /\ Conservation /\ CapacityBound

\* The three invariants about the queue say together that it is well formed.
LEMMA QueueOKLemma ==
  ASSUME TypeOK, IndexOrder, LiveSlotsHoldJobs PROVE QueueOK(q)
BY DEF TypeOK, IndexOrder, LiveSlotsHoldJobs, QueueOK

\* What an action has to establish about the queue and its counters.
LEMMA PartsLemma ==
  ASSUME QueueOK(q)', stack' \in Seq(Frames), last' \in Jobs \cup {NoJob},
         count' \in Nat, enqueued' \in Nat, exports' \in Nat, checkpoints' \in Nat,
         escaped' \in BOOLEAN, Conservation', CapacityBound'
  PROVE  IInv'
<1>1. IndexOrder' /\ LiveSlotsHoldJobs'
  BY DEF QueueOK, IndexOrder, LiveSlotsHoldJobs, SlotAt
<1>2. TypeOK'
  BY DEF QueueOK, TypeOK
<1> QED BY <1>1, <1>2 DEF IInv

\* Pushing, popping and moving the top activation keep the stack well formed.
LEMMA StackLemma ==
  ASSUME stack \in Seq(Frames)
  PROVE  /\ \A kind \in {"export", "drain", "drainOne"}, at \in {"user", "loop"} :
               Push(kind, at) \in Seq(Frames)
         /\ stack # <<>> => Pop \in Seq(Frames)
         /\ stack # <<>> => \A at \in {"user", "loop"} :
               [stack EXCEPT ![Len(stack)].at = at] \in Seq(Frames)
<1>1. \A kind \in {"export", "drain", "drainOne"}, at \in {"user", "loop"} :
         Push(kind, at) \in Seq(Frames)
  BY DEF Push, Frames
<1>2. ASSUME stack # <<>>
      PROVE  /\ Pop \in Seq(Frames)
             /\ \A at \in {"user", "loop"} :
                  [stack EXCEPT ![Len(stack)].at = at] \in Seq(Frames)
  <2>1. Len(stack) \in Nat \ {0} /\ Len(stack) \in 1..Len(stack)
    BY <1>2, EmptySeq
  <2>2. Pop \in Seq(Frames)
    <3>1. \A i \in 1..(Len(stack) - 1) : stack[i] \in Frames
      BY <2>1, ElementOfSeq
    <3> QED BY <2>1, <3>1, SubSeqProperties DEF Pop
  <2>3. ASSUME NEW at \in {"user", "loop"}
        PROVE  [stack EXCEPT ![Len(stack)].at = at] \in Seq(Frames)
    <3>1. stack[Len(stack)] \in Frames
      BY <2>1, ElementOfSeq
    <3>2. [stack[Len(stack)] EXCEPT !.at = at] \in Frames
      BY <3>1 DEF Frames
    <3> QED BY <2>1, <3>2, ExceptSeq
  <2> QED BY <2>2, <2>3
<1> QED BY <1>1, <1>2

\* The initial queue is well formed and empty.
LEMMA InitLemma == Init => IInv
<1> SUFFICES ASSUME Init PROVE IInv
  OBVIOUS
<1>1. /\ q.head = 0 /\ q.tail = 0 /\ q.cap = 0
      /\ q.funcs = NullArray /\ q.caps = NullArray /\ q.args = NullArray
  BY DEF Init, InitialQueue
<1>2. 0..(0 - 1) = {}
  OBVIOUS
<1>3. /\ NullArray \in [0..(0 - 1) -> Funs \cup {Null}]
      /\ NullArray \in [0..(0 - 1) -> Externs \cup {Null}]
  BY <1>2 DEF NullArray
<1>4. stack \in Seq(Frames)
  BY EmptySeq DEF Init
<1>5. TypeOK
  <2>1. escaped \in BOOLEAN
    BY Zenon DEF Init
  <2>2. last \in Jobs \cup {NoJob} /\ {count, enqueued, exports, checkpoints} \subseteq Nat
    BY DEF Init
  <2> QED BY <1>1, <1>3, <1>4, <2>1, <2>2 DEF TypeOK
<1>6. IndexOrder /\ LiveSlotsHoldJobs /\ Conservation /\ CapacityBound
  BY <1>1, QueueAssumption DEF Init, IndexOrder, LiveSlotsHoldJobs, Conservation, CapacityBound, Pending
<1> QED BY <1>5, <1>6 DEF IInv

\* Every action preserves the invariant.
LEMMA StepLemma == IInv /\ [Next]_vars => IInv'
<1> SUFFICES ASSUME IInv, [Next]_vars PROVE IInv'
  OBVIOUS
<1>1. /\ TypeOK /\ IndexOrder /\ LiveSlotsHoldJobs /\ Conservation /\ CapacityBound
      /\ QueueOK(q)
  BY QueueOKLemma DEF IInv
<1>2. /\ stack \in Seq(Frames) /\ last \in Jobs \cup {NoJob}
      /\ count \in Nat /\ enqueued \in Nat /\ exports \in Nat /\ checkpoints \in Nat
      /\ q.head \in Nat /\ q.tail \in Nat /\ q.cap \in Nat /\ Pending(q) \in Nat
  BY <1>1 DEF TypeOK, IndexOrder, Pending
<1>0. escaped' \in BOOLEAN
  <2>1. escaped \in BOOLEAN
    BY <1>1 DEF TypeOK
  <2> QED
    BY <2>1, Zenon DEF Next, vars, CallExport, CallDrain, CallDrainOne, DrainExit, DrainStart,
                       JobReturn, ExportReturn, Throw, Checkpoint, Enqueue
<1>3. ASSUME UNCHANGED <<q, last, count, enqueued>>,
             stack' \in Seq(Frames), exports' \in Nat, checkpoints' \in Nat
      PROVE  IInv'
  <2>1. QueueOK(q)'
    BY <1>1, <1>3 DEF QueueOK, SlotAt
  <2>2. Conservation' /\ CapacityBound'
    BY <1>1, <1>3 DEF Conservation, CapacityBound, Pending
  <2> QED BY <1>0, <1>2, <1>3, <2>1, <2>2, PartsLemma
<1>4. CASE UNCHANGED vars
  BY <1>2, <1>3, <1>4 DEF vars
<1>5. CASE CallExport
  BY <1>2, <1>3, <1>5, StackLemma DEF CallExport
<1>6. CASE CallDrain
  BY <1>2, <1>3, <1>6, StackLemma DEF CallDrain, EnterDrain
<1>7. CASE CallDrainOne
  BY <1>2, <1>3, <1>7, StackLemma DEF CallDrainOne, EnterDrain
<1>8. CASE DrainExit
  BY <1>2, <1>3, <1>8, StackLemma DEF DrainExit
<1>9. CASE JobReturn
  BY <1>2, <1>3, <1>9, StackLemma DEF JobReturn, InUserCode
<1>10. CASE ExportReturn
  BY <1>2, <1>3, <1>10, StackLemma DEF ExportReturn, Schedule, InUserCode
<1>11. CASE Throw
  BY <1>2, <1>3, <1>11, StackLemma DEF Throw, InUserCode
<1>12. CASE Checkpoint
  <2>1. checkpoints' \in Nat /\ UNCHANGED <<q, last, count, enqueued, exports>>
    BY <1>2, <1>12 DEF Checkpoint
  <2>2. stack' = stack \/ stack' = Push("drain", "loop")
    BY <1>12 DEF Checkpoint, EnterDrain
  <2>3. stack' \in Seq(Frames)
    BY <1>2, <2>2, StackLemma
  <2> QED BY <1>2, <1>3, <2>1, <2>3
<1>13. CASE DrainStart
  <2>1. q' = Advance(q) /\ last' = SlotAt(q, q.head) /\ count' = count + 1 /\ q.head # q.tail
        /\ UNCHANGED <<enqueued, exports, checkpoints, escaped>>
    BY <1>13 DEF DrainStart
  <2>2. /\ QueueOK(Advance(q)) /\ SlotAt(q, q.head) \in Jobs
        /\ Pending(Advance(q)) = Pending(q) - 1
        /\ Advance(q).tail = q.tail /\ Advance(q).cap = q.cap
    BY <1>1, <2>1, AdvanceLemma
  <2>3. QueueOK(q)'
    BY <2>1, <2>2 DEF QueueOK, SlotAt
  <2>4. Conservation'
    BY <1>1, <1>2, <2>1, <2>2 DEF Conservation, Pending
  <2>5. CapacityBound'
    BY <1>1, <2>1, <2>2 DEF CapacityBound
  <2>6. stack' \in Seq(Frames)
    BY <1>2, <1>13, StackLemma DEF DrainStart
  <2> QED BY <1>0, <1>2, <2>1, <2>2, <2>3, <2>4, <2>5, <2>6, PartsLemma
<1>14. ASSUME NEW j \in Jobs, Enqueue(j) PROVE IInv'
  <2>1. q' = EnqueueBody(q, j) /\ enqueued' = enqueued + 1
        /\ UNCHANGED <<stack, last, count, exports, checkpoints, escaped>>
    BY <1>14 DEF Enqueue
  <2>2. /\ QueueOK(EnqueueBody(q, j))
        /\ Pending(EnqueueBody(q, j)) = Pending(q) + 1
        /\ EnqueueBody(q, j).tail <= enqueued + 1
        /\ EnqueueBody(q, j).cap <= InitialCapacity \/ EnqueueBody(q, j).cap <= 2 * (enqueued + 1)
    BY <1>1, <1>2, EnqueueLemma DEF CapacityBound
  <2>3. QueueOK(q)'
    BY <2>1, <2>2 DEF QueueOK, SlotAt
  <2>4. Conservation'
    BY <1>1, <1>2, <2>1, <2>2 DEF Conservation, Pending
  <2>5. CapacityBound'
    BY <2>1, <2>2 DEF CapacityBound
  <2> QED BY <1>0, <1>2, <2>1, <2>3, <2>4, <2>5, PartsLemma
<1> QED
  BY <1>4, <1>5, <1>6, <1>7, <1>8, <1>9, <1>10, <1>11, <1>12, <1>13, <1>14 DEF Next

\* The invariant holds in every reachable state.
THEOREM Invariance == Spec => []IInv
BY InitLemma, StepLemma, PTL DEF Spec

\* The globals keep the types the bodies declare.
THEOREM TypeCorrect == Spec => []TypeOK
<1>1. IInv => TypeOK
  BY DEF IInv
<1> QED BY <1>1, Invariance, PTL

\* head <= tail <= capacity at every step, and the drain only ever calls whole jobs.
THEOREM SlotsSafe == Spec => [](IndexOrder /\ LiveSlotsHoldJobs)
<1>1. IInv => IndexOrder /\ LiveSlotsHoldJobs
  BY DEF IInv
<1> QED BY <1>1, Invariance, PTL

\* No job is lost or started twice, through growth, nested drains and exceptions.
THEOREM NoJobLost == Spec => []Conservation
<1>1. IInv => Conservation
  BY DEF IInv
<1> QED BY <1>1, Invariance, PTL

\* The capacity never exceeds the larger of the initial one and twice the enqueues.
THEOREM CapacityBounded == Spec => []CapacityBound
<1>1. IInv => CapacityBound
  BY DEF IInv
<1> QED BY <1>1, Invariance, PTL

-----------------------------------------------------------------------------
(* Stranded jobs.  The invariant says why none is left behind: what is       *)
(* pending with no checkpoint on its way lies under an export or a full      *)
(* drain, which will schedule one or run it; a single-step drain runs a job  *)
(* only when a checkpoint is on its way.                                     *)

\* Only the outermost activation can be an export or a single-step drain, and the
\* ones below the top are in user code.
Nesting ==
  /\ \A k \in 1..Len(stack) : k > 1 => stack[k].kind = "drain"
  /\ \A k \in 1..Len(stack) : k < Len(stack) => stack[k].at = "user"

Covered ==
  /\ Pending(q) > 0 /\ checkpoints = 0 /\ ~escaped =>
       stack # <<>> /\ stack[1].kind \in {"export", "drain"}
  /\ stack # <<>> /\ stack[1].kind = "drainOne" /\ stack[1].at = "user" =>
       checkpoints > 0 \/ escaped

SInv == Nesting /\ Covered

\* What pushing, popping and moving the top activation do to the activations.
LEMMA ActivationLemma ==
  ASSUME stack \in Seq(Frames)
  PROVE  /\ \A kind, at : /\ Len(Push(kind, at)) = Len(stack) + 1
                          /\ Push(kind, at)[Len(stack) + 1] = [kind |-> kind, at |-> at]
                          /\ \A k \in 1..Len(stack) : Push(kind, at)[k] = stack[k]
         /\ stack # <<>> => /\ Len(Pop) = Len(stack) - 1
                            /\ \A k \in 1..(Len(stack) - 1) : Pop[k] = stack[k]
         /\ Len(stack) \in Nat /\ (stack = <<>> <=> Len(stack) = 0)
         /\ \A k \in 1..Len(stack) : stack[k] \in Frames
<1>1. \A kind, at : /\ Len(Push(kind, at)) = Len(stack) + 1
                    /\ Push(kind, at)[Len(stack) + 1] = [kind |-> kind, at |-> at]
                    /\ \A k \in 1..Len(stack) : Push(kind, at)[k] = stack[k]
  BY DEF Push
<1>2. Len(stack) \in Nat /\ (stack = <<>> <=> Len(stack) = 0)
  BY EmptySeq
<1>3. ASSUME stack # <<>>
      PROVE  /\ Len(Pop) = Len(stack) - 1
             /\ \A k \in 1..(Len(stack) - 1) : Pop[k] = stack[k]
  <2>1. \A k \in 1..(Len(stack) - 1) : stack[k] \in Frames
    BY <1>2, ElementOfSeq
  <2>2. Len(stack) - 1 \in Nat /\ 1 \in Int
    BY <1>2, <1>3
  <2> DEFINE n == Len(stack) - 1
  <2>3. /\ Len(SubSeq(stack, 1, n)) = IF 1 <= n THEN n - 1 + 1 ELSE 0
        /\ \A k \in 1..(n - 1 + 1) : SubSeq(stack, 1, n)[k] = stack[1 + k - 1]
    BY <2>1, <2>2, SubSeqProperties
  <2>4. Pop = SubSeq(stack, 1, n) /\ n \in Nat
    BY <2>2 DEF Pop
  <2> HIDE DEF n
  <2>5. Len(Pop) = n /\ \A k \in 1..n : Pop[k] = stack[k]
    BY <2>3, <2>4
  <2> QED BY <2>5 DEF n
<1>4. \A k \in 1..Len(stack) : stack[k] \in Frames
  BY ElementOfSeq
<1> QED BY <1>1, <1>2, <1>3, <1>4

\* Every action keeps the pending jobs covered.
LEMMA CoverLemma == IInv /\ SInv /\ [Next]_vars => SInv'
<1> SUFFICES ASSUME IInv, SInv, [Next]_vars PROVE SInv'
  OBVIOUS
<1>1. /\ stack \in Seq(Frames) /\ QueueOK(q) /\ Pending(q) \in Nat
      /\ checkpoints \in Nat /\ escaped \in BOOLEAN /\ enqueued \in Nat /\ CapacityBound
      /\ Nesting /\ Covered
  BY QueueOKLemma, LiveLemma DEF IInv, SInv, TypeOK
<1>2. /\ \A kind, at : /\ Len(Push(kind, at)) = Len(stack) + 1
                       /\ Push(kind, at)[Len(stack) + 1] = [kind |-> kind, at |-> at]
                       /\ \A k \in 1..Len(stack) : Push(kind, at)[k] = stack[k]
      /\ stack # <<>> => /\ Len(Pop) = Len(stack) - 1
                         /\ \A k \in 1..(Len(stack) - 1) : Pop[k] = stack[k]
      /\ Len(stack) \in Nat /\ (stack = <<>> <=> Len(stack) = 0)
      /\ \A k \in 1..Len(stack) : stack[k] \in Frames
  BY <1>1, ActivationLemma
<1>3. stack' \in Seq(Frames) /\ Len(stack') \in Nat /\ (stack' = <<>> <=> Len(stack') = 0)
      /\ QueueOK(q)' /\ Pending(q)' \in Nat
  <2>1. IInv'
    BY StepLemma
  <2>2. TypeOK' /\ IndexOrder' /\ LiveSlotsHoldJobs'
    BY <2>1 DEF IInv
  <2> QED BY <2>2, EmptySeq, SMTT(30) DEF TypeOK, IndexOrder, LiveSlotsHoldJobs, Pending, QueueOK, SlotAt
<1>4. CASE UNCHANGED vars
  BY <1>1, <1>4 DEF vars, SInv, Nesting, Covered, Pending
<1>5. CASE CallExport
  <2>1. stack = <<>> /\ stack' = Push("export", "user") /\ Len(stack') = 1
        /\ stack'[1] = [kind |-> "export", at |-> "user"]
    BY <1>2, <1>5 DEF CallExport
  <2> QED BY <2>1 DEF SInv, Nesting, Covered
<1>6. CASE CallDrain
  <2>1. stack' = stack \/ stack' = Push("drain", "loop")
    BY <1>6 DEF CallDrain, EnterDrain
  <2>2. stack # <<>> => stack[Len(stack)].at = "user"
    BY <1>6 DEF CallDrain, InUserCode, Top
  <2>3. UNCHANGED <<q, checkpoints, escaped>>
    BY <1>6 DEF CallDrain
  <2>4. CASE stack' = stack
    BY <1>1, <2>3, <2>4 DEF SInv, Nesting, Covered, Pending
  <2>5. CASE stack' = Push("drain", "loop")
    <3>1. /\ Len(stack') = Len(stack) + 1 /\ stack'[Len(stack) + 1] = [kind |-> "drain", at |-> "loop"]
          /\ \A k \in 1..Len(stack) : stack'[k] = stack[k]
      BY <1>2, <2>5
    <3> QED BY <1>1, <1>2, <1>3, <2>2, <2>3, <3>1, SMTT(30) DEF SInv, Nesting, Covered, Pending
  <2> QED BY <2>1, <2>4, <2>5
<1>7. CASE CallDrainOne
  <2>1. stack = <<>> /\ UNCHANGED <<q, checkpoints, escaped>>
    BY <1>7 DEF CallDrainOne
  <2>2. stack' = stack \/ stack' = Push("drainOne", "loop")
    BY <1>7 DEF CallDrainOne, EnterDrain
  <2>3. stack' = <<>> \/ (Len(stack') = 1 /\ stack'[1] = [kind |-> "drainOne", at |-> "loop"])
    BY <1>2, <2>1, <2>2
  <2>4. ~(Pending(q) > 0 /\ checkpoints = 0 /\ ~escaped)
    BY <1>1, <2>1 DEF Covered
  <2>5. Covered'
    BY <2>1, <2>3, <2>4 DEF Covered, Pending
  <2>6. Nesting'
    <3>1. Len(stack') \in {0, 1}
      BY <1>3, <2>3
    <3>2. CASE Len(stack') = 0
      BY <3>2 DEF Nesting
    <3>3. CASE Len(stack') = 1
      BY <3>3 DEF Nesting
    <3> QED BY <3>1, <3>2, <3>3
  <2> QED BY <2>5, <2>6 DEF SInv
<1>8. CASE DrainExit
  <2>1. stack # <<>> /\ stack' = Pop /\ q.head = q.tail /\ UNCHANGED <<q, checkpoints, escaped>>
    BY <1>8 DEF DrainExit
  <2>2. ~(Pending(q)' > 0)
    BY <1>1, <2>1 DEF Pending, QueueOK
  <2> QED BY <1>1, <1>2, <2>1, <2>2 DEF SInv, Nesting, Covered
<1>9. CASE JobReturn
  <2>1. stack # <<>> /\ stack[Len(stack)].at = "user" /\ stack[Len(stack)].kind # "export"
        /\ UNCHANGED <<q, checkpoints, escaped>>
    BY <1>9 DEF JobReturn, InUserCode, Top
  <2>2. CASE stack[Len(stack)].kind = "drain"
    <3>1. stack' = [stack EXCEPT ![Len(stack)].at = "loop"]
      BY <1>9, <2>2 DEF JobReturn, Top
    <3> QED BY <1>1, <1>2, <2>1, <2>2, <3>1 DEF SInv, Nesting, Covered, Pending, Frames
  <2>3. CASE stack[Len(stack)].kind = "drainOne"
    <3>1. stack' = Pop
      BY <1>9, <2>3 DEF JobReturn, Top
    <3>2. Len(stack) = 1 /\ stack' = <<>>
      BY <1>1, <1>2, <1>3, <2>1, <2>3, <3>1 DEF Nesting
    <3> QED BY <1>1, <1>2, <2>1, <2>3, <3>2 DEF SInv, Nesting, Covered, Pending
  <2> QED BY <1>2, <2>1, <2>2, <2>3 DEF Frames
<1>10. CASE ExportReturn
  <2>1. stack # <<>> /\ stack[Len(stack)].kind = "export" /\ stack' = Pop /\ UNCHANGED q
    BY <1>10 DEF ExportReturn, InUserCode, Top
  <2>2. Len(stack) = 1 /\ stack' = <<>>
    BY <1>1, <1>2, <1>3, <2>1 DEF Nesting
  <2>3. Pending(q) = 0 \/ checkpoints' = checkpoints + 1
    BY <1>10 DEF ExportReturn, Schedule
  <2> QED BY <1>1, <1>2, <2>1, <2>2, <2>3 DEF SInv, Nesting, Covered, Pending
<1>11. CASE Throw
  <2>1. stack # <<>> /\ stack' = Pop /\ UNCHANGED <<q, checkpoints>>
    BY <1>11 DEF Throw, InUserCode
  <2>2. CASE Len(stack) = 1
    <3>1. stack' = <<>>
      BY <1>2, <1>3, <2>1, <2>2
    <3>2. escaped'
      BY <1>11, <2>2, Zenon DEF Throw
    <3> QED BY <1>3, <3>1, <3>2 DEF SInv, Nesting, Covered
  <2>3. CASE Len(stack) # 1
    <3>1. escaped => escaped'
      BY <1>11, Zenon DEF Throw
    <3> QED BY <1>1, <1>2, <2>1, <2>3, <3>1 DEF SInv, Nesting, Covered, Pending
  <2> QED BY <2>2, <2>3
<1>12. CASE Checkpoint
  <2>1. stack = <<>> /\ UNCHANGED <<q, escaped>>
    BY <1>12 DEF Checkpoint
  <2>2. CASE Pending(q) = 0
    <3>1. stack' = stack
      BY <1>12, <2>2 DEF Checkpoint
    <3> QED BY <1>2, <2>1, <2>2, <3>1 DEF SInv, Nesting, Covered, Pending
  <2>3. CASE Pending(q) # 0
    <3>1. q.funcs # NullArray
      BY <1>1, <2>3, NullArrayLemma DEF QueueOK, Pending
    <3>2. stack' = Push("drain", "loop")
      BY <1>12, <2>3, <3>1 DEF Checkpoint, EnterDrain
    <3>3. Len(stack') = 1 /\ stack'[1] = [kind |-> "drain", at |-> "loop"]
      BY <1>2, <2>1, <3>2
    <3> QED BY <1>3, <3>3 DEF SInv, Nesting, Covered
  <2> QED BY <2>2, <2>3
<1>13. CASE DrainStart
  <2>1. stack # <<>> /\ q.head # q.tail /\ q' = Advance(q)
        /\ stack' = [stack EXCEPT ![Len(stack)].at = "user"]
        /\ UNCHANGED <<checkpoints, escaped>>
    BY <1>13 DEF DrainStart
  <2>2. Pending(q) > 0
    BY <1>1, <2>1 DEF Pending, QueueOK
  <2>3. /\ Len(stack') = Len(stack)
        /\ \A k \in 1..Len(stack) : stack'[k].kind = stack[k].kind
        /\ \A k \in 1..Len(stack) : k < Len(stack) => stack'[k].at = stack[k].at
    BY <1>1, <1>2, <2>1 DEF Frames
  <2> QED BY <1>1, <1>2, <1>3, <2>1, <2>2, <2>3 DEF SInv, Nesting, Covered
<1>14. ASSUME NEW j \in Jobs, Enqueue(j) PROVE SInv'
  <2>1. stack # <<>> /\ stack[Len(stack)].at = "user" /\ UNCHANGED <<stack, checkpoints, escaped>>
    BY <1>14 DEF Enqueue, InUserCode, Top
  <2>2. stack[1].at = "user" /\ stack[1] \in Frames
    BY <1>1, <1>2, <2>1 DEF Nesting
  <2> QED BY <1>1, <1>2, <2>1, <2>2 DEF SInv, Nesting, Covered, Frames
<1> QED
  BY <1>4, <1>5, <1>6, <1>7, <1>8, <1>9, <1>10, <1>11, <1>12, <1>13, <1>14 DEF Next

\* An idle host has pending jobs only when a checkpoint is on its way or an
\* exception has reached it since an export last returned.
THEOREM NoneStranded == Spec => []NoJobStranded
<1>1. Init => SInv
  BY EmptySeq DEF Init, InitialQueue, Pending, SInv, Nesting, Covered
<1>2. IInv /\ SInv => NoJobStranded
  <2> SUFFICES ASSUME IInv, SInv, stack = <<>>, checkpoints = 0, ~escaped PROVE Pending(q) = 0
    BY DEF NoJobStranded
  <2>1. Pending(q) \in Nat
    BY QueueOKLemma, LiveLemma DEF IInv
  <2> QED BY <2>1 DEF SInv, Covered
<1> QED BY <1>1, <1>2, CoverLemma, Invariance, PTL DEF Spec

\* Jobs are started in the order in which they were enqueued: every step of the
\* array queue is a step of the abstract queue or leaves it unchanged.
THEOREM Refinement == Spec => ImplementsJobQueue
<1>1. Init => Fifo!Init
  <2> SUFFICES ASSUME Init PROVE Fifo!Init
    OBVIOUS
  <2>1. Pending(q) = 0
    BY DEF Init, InitialQueue, Pending
  <2>2. QueueOK(q)
    BY InitLemma, QueueOKLemma DEF IInv
  <2>3. Live(q) = <<>>
    BY <2>1, <2>2, LiveLemma, EmptySeq
  <2> QED BY <2>3 DEF Init, Fifo!Init
<1>2. IInv /\ [Next]_vars => [Fifo!Next]_(Fifo!vars)
  <2> SUFFICES ASSUME IInv, [Next]_vars PROVE [Fifo!Next]_(Fifo!vars)
    OBVIOUS
  <2>1. QueueOK(q) /\ enqueued \in Nat /\ CapacityBound
    BY QueueOKLemma DEF IInv, TypeOK
  <2>2. ASSUME UNCHANGED <<q, last, count>> PROVE UNCHANGED Fifo!vars
    BY <2>2 DEF Fifo!vars, Live, Pending, SlotAt
  <2>3. CASE DrainStart
    <3>1. q' = Advance(q) /\ last' = SlotAt(q, q.head) /\ count' = count + 1 /\ q.head # q.tail
      BY <2>3 DEF DrainStart
    <3>2. Live(q)' = Live(Advance(q))
      BY <3>1 DEF Live, Pending, SlotAt
    <3>3. /\ Live(q) # <<>> /\ Live(Advance(q)) = Tail(Live(q))
          /\ SlotAt(q, q.head) = Head(Live(q))
      BY <2>1, <3>1, AdvanceLemma
    <3>4. Fifo!Start
      BY <3>1, <3>2, <3>3 DEF Fifo!Start
    <3> QED BY <3>4 DEF Fifo!Next
  <2>4. ASSUME NEW j \in Jobs, Enqueue(j) PROVE Fifo!Next
    <3>1. q' = EnqueueBody(q, j) /\ UNCHANGED <<last, count>>
      BY <2>4 DEF Enqueue
    <3>2. Live(q)' = Live(EnqueueBody(q, j))
      BY <3>1 DEF Live, Pending, SlotAt
    <3>3. Live(EnqueueBody(q, j)) = Append(Live(q), j)
      BY <2>1, EnqueueLemma DEF CapacityBound
    <3>4. Fifo!Enqueue(j)
      BY <3>1, <3>2, <3>3 DEF Fifo!Enqueue
    <3> QED BY <3>4 DEF Fifo!Next
  <2>5. ASSUME Next, ~DrainStart, ~ \E j \in Jobs : Enqueue(j)
        PROVE  UNCHANGED <<q, last, count>>
    BY <2>5 DEF Next, CallExport, CallDrain, CallDrainOne, DrainExit, JobReturn,
                ExportReturn, Throw, Checkpoint
  <2>6. CASE UNCHANGED vars
    BY <2>2, <2>6 DEF vars
  <2> QED BY <2>2, <2>3, <2>4, <2>5, <2>6
<1>3. Fifo!Init /\ [][Fifo!Next]_(Fifo!vars) => ImplementsJobQueue
  BY DEF ImplementsJobQueue, Fifo!Spec
<1> QED BY <1>1, <1>2, <1>3, Invariance, PTL DEF Spec
=============================================================================
