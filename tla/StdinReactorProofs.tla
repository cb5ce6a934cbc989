------------------------- MODULE StdinReactorProofs -------------------------
(***************************************************************************)
(* Proofs about StdinReactor, for every size of the two buffers, every     *)
(* number of listeners and every peer.  Bytes carries the identity of each *)
(* byte from cell to cell; Nesting says what holds while pumps are on the  *)
(* stack; Settled what a pump leaves behind.                               *)
(***************************************************************************)
EXTENDS StdinReactor, SequenceTheorems, FiniteSetTheorems, NatFacts

-----------------------------------------------------------------------------
(* The parts of the inductive invariant *)

\* An array is a function from an initial segment of the naturals.
Arrays == UNION {[0..(n - 1) -> Nat] : n \in Nat \ {0}}

StreamRec ==
  [buf : Arrays, head : Nat, tail : Nat, flowing : BOOLEAN, paused : BOOLEAN, ended : BOOLEAN,
   armed : BOOLEAN, eofReadableFired : BOOLEAN, destroyed : BOOLEAN]

FrameRec == [at : Stages, i : Nat, eof : BOOLEAN, user : BOOLEAN]

StreamOK(s) == s \in StreamRec /\ s.head <= s.tail /\ s.tail <= Cardinality(DOMAIN s.buf)

ReactorOK(r) ==
  /\ r \in [mem : [0..(Cap - 1) -> 0..MaxBytes], pos : 0..Cap, len : 0..Cap, active : BOOLEAN]
  /\ r.pos <= r.len

Typed ==
  /\ peer \in [written : 0..MaxBytes, read : 0..MaxBytes, closed : BOOLEAN, failed : BOOLEAN]
  /\ peer.read <= peer.written
  /\ ReactorOK(rb) /\ StreamOK(st)
  /\ listeners \in [Dispatching -> 0..MaxListeners]
  /\ stack \in Seq(FrameRec)
  /\ pc \in {"drain1", "stdin", "pump", "fire", "drain2", "peek", "poll", "exit"}
  /\ timers \in Nat /\ micro \in Nat /\ bodies \in Nat
  /\ timers + micro <= bodies /\ bodies <= MaxBodies
  /\ out \in Seq(Nat) /\ touched \in BOOLEAN

\* The stream s holds the bytes that follow the first g ones.
Follows(s, g) == \A k \in 0..(Avail(s) - 1) : s.buf[s.head + k] = g + k + 1

\* So does the unread part of the reactor's buffer r.
Queues(r, g) == \A k \in 0..(r.len - r.pos - 1) : r.mem[r.pos + k] = g + k + 1

\* ByteStream, cell by cell
Bytes ==
  /\ \A k \in 1..Len(out) : out[k] = k
  /\ Follows(st, Len(out))
  /\ Queues(rb, Len(out) + Avail(st))
  /\ Len(out) + Avail(st) + Unread = peer.read

\* fd 0 has nothing more to give
SourceDone == peer.failed \/ (peer.closed /\ peer.read = peer.written)

SourceOK ==
  /\ ~rb.active /\ ~st.destroyed => SourceDone
  /\ st.ended => peer.failed \/ (peer.closed /\ Len(out) = peer.written)

IsPump(f) == f.at \notin {"body", "close"}

\* User code runs in the frames below the top, and only in a body or a dispatch.
FrameOK(k) ==
  /\ k < Depth => stack[k].user
  /\ stack[k].user => stack[k].at \in Dispatching \cup {"body"}
  /\ stack[k].at = "body" => stack[k].user
  /\ stack[k].at = "close" => st.destroyed

\* What holds while a pump is under way
PumpOK(k) ==
  /\ Unread = 0 /\ st.armed
  /\ ~rb.active /\ ~st.destroyed => stack[k].eof /\ (Avail(st) > 0 => st.eofReadableFired)
  /\ stack[k].eof => SourceDone
  /\ stack[k].at = "data" => Avail(st) = 0
  /\ stack[k].at = "end" => Avail(st) = 0 /\ st.ended

\* No event is dispatched by two pumps at once.
Alone ==
  \A k, l \in 1..Depth :
    IsPump(stack[k]) /\ stack[k].at = stack[l].at /\ stack[k].at \in Dispatching => k = l

Nesting ==
  /\ \A k \in 1..Depth : FrameOK(k)
  /\ \A k \in 1..Depth : IsPump(stack[k]) => PumpOK(k)
  /\ Alone

AtSome(stages) == \E k \in 1..Depth : stack[k].at \in stages

\* What the last pump has left, unless it is still to come to it
Settled ==
  st.armed /\ ~st.destroyed /\ ~touched =>
    /\ Unread = 0
    /\ (st.flowing /\ ~st.paused => Avail(st) = 0) \/ AtSome({"readable", "flow"})
    /\ (Avail(st) = 0 /\ ~rb.active => st.ended) \/ AtSome({"readable", "flow", "data", "finish"})

Places ==
  /\ pc = "exit" => stack = <<>> /\ ~rb.active
  /\ pc \in {"fire", "drain2", "peek", "exit"} => Settled

IInv == Typed /\ Bytes /\ SourceOK /\ Nesting /\ Places
-----------------------------------------------------------------------------
(* drainBytes() is a loop: the recursive function that models it exists, so *)
(* that its equation may be used.                                           *)

LEMMA DrainUnfold ==
  ASSUME NEW s, NEW n \in Nat, Unread = n
  PROVE  \E f : /\ f = [k \in 0..n |-> IF k = 0 THEN s ELSE AppendByte(f[k - 1], rb.mem[rb.pos + k - 1])]
                /\ DrainBytes(s) = f[n]
<1> DEFINE Byte(k) == rb.mem[rb.pos + k - 1]
           Good(m, f) == f = [k \in 0..m |-> IF k = 0 THEN s ELSE AppendByte(f[k - 1], Byte(k))]
           Bad == {m \in Nat : ~\E f : Good(m, f)}
<1>1. \E f : Good(n, f)
  <2> SUFFICES ASSUME Bad # {} PROVE FALSE
    OBVIOUS
  <2>1. PICK m \in Bad : \A j \in Bad : m <= j
    BY LeastLemma
  <2>2. CASE m = 0
    <3>1. Good(0, [k \in 0..0 |-> s])
      OBVIOUS
    <3> QED BY <2>2, <3>1
  <2>3. CASE m # 0
    <3>1. m - 1 \in Nat /\ m - 1 \notin Bad
      BY <2>1, <2>3
    <3>2. PICK f : Good(m - 1, f)
      BY <3>1
    <3> DEFINE g == [k \in 0..m |-> IF k = m THEN AppendByte(f[m - 1], Byte(m)) ELSE f[k]]
    <3>3. \A k \in 0..m : g[k] = IF k = 0 THEN s ELSE AppendByte(g[k - 1], Byte(k))
      <4> TAKE k \in 0..m
      <4> HIDE DEF Byte
      <4>1. CASE k = m
        BY <3>1, <4>1
      <4>2. CASE k # m
        <5>1. k \in 0..(m - 1) /\ (k # 0 => k - 1 \in 0..(m - 1) /\ k - 1 # m)
          BY <4>2, <3>1
        <5>2. f[k] = IF k = 0 THEN s ELSE AppendByte(f[k - 1], Byte(k))
          BY <5>1, <3>2
        <5> QED BY <4>2, <5>1, <5>2
      <4> QED BY <4>1, <4>2
    <3>4. Good(m, g)
      <4> HIDE DEF Byte
      <4> QED BY <3>3
    <3> QED BY <3>4
  <2> QED BY <2>2, <2>3
<1> DEFINE after == CHOOSE f : Good(n, f)
<1>2. Good(n, after)
  <2> HIDE DEF Good
  <2> QED BY <1>1
<1>3. DrainBytes(s) = after[n]
  BY DEF DrainBytes
<1> HIDE DEF after
<1> QED BY <1>2, <1>3
-----------------------------------------------------------------------------
(* The stream's buffer *)

LEMMA ArrayFacts ==
  ASSUME NEW b \in Arrays
  PROVE  \E n \in Nat \ {0} : b \in [0..(n - 1) -> Nat] /\ Cardinality(DOMAIN b) = n
<1>1. PICK n \in Nat \ {0} : b \in [0..(n - 1) -> Nat]
  BY DEF Arrays
<1>2. Cardinality(0..(n - 1)) = n
  BY FS_Interval
<1> QED BY <1>1, <1>2

LEMMA ArrayMade ==
  ASSUME NEW n \in Nat \ {0}, NEW b \in [0..(n - 1) -> Nat]
  PROVE  b \in Arrays /\ Cardinality(DOMAIN b) = n
<1>1. Cardinality(0..(n - 1)) = n
  BY FS_Interval
<1> QED BY <1>1 DEF Arrays

\* The two streams differ in their buffers only.
Alike(s, d) ==
  /\ d.flowing = s.flowing /\ d.paused = s.paused /\ d.ended = s.ended /\ d.armed = s.armed
  /\ d.eofReadableFired = s.eofReadableFired /\ d.destroyed = s.destroyed

\* ensure(1) makes room and moves no byte out of its turn.
LEMMA EnsureLemma ==
  ASSUME NEW s, StreamOK(s), NEW g \in Nat, Follows(s, g)
  PROVE  LET r == Ensure(s)
         IN  /\ StreamOK(r) /\ Follows(r, g) /\ Alike(s, r) /\ Avail(r) = Avail(s)
             /\ r.tail < Cardinality(DOMAIN r.buf)
<1>1. PICK n \in Nat \ {0} : s.buf \in [0..(n - 1) -> Nat] /\ Cardinality(DOMAIN s.buf) = n
  BY ArrayFacts DEF StreamOK, StreamRec
<1>2. s \in StreamRec /\ s.head \in Nat /\ s.tail \in Nat /\ s.head <= s.tail /\ s.tail <= n
  BY <1>1 DEF StreamOK, StreamRec
<1>3. CASE s.tail < n
  <2>1. Ensure(s) = s
    BY <1>1, <1>2, <1>3 DEF Ensure
  <2> QED BY <1>1, <1>3, <2>1 DEF Alike
<1>4. CASE s.tail >= n /\ s.head > 0
  <2> DEFINE m == s.tail - s.head
  <2>1. m \in Nat /\ m < n
    BY <1>2, <1>4
  <2>2. PICK b : b = [k \in DOMAIN s.buf |-> IF k < m THEN s.buf[s.head + k] ELSE 0]
    OBVIOUS
  <2>3. b \in [0..(n - 1) -> Nat]
    <3>1. \A k \in 0..(n - 1) : k < m => s.head + k \in 0..(n - 1)
      BY <1>2, <2>1
    <3>2. \A k \in 0..(n - 1) : (IF k < m THEN s.buf[s.head + k] ELSE 0) \in Nat
      BY <1>1, <3>1
    <3> QED BY <1>1, <2>2, <3>2
  <2>4. b \in Arrays /\ Cardinality(DOMAIN b) = n
    BY <2>3, ArrayMade
  <2>5. PICK r : r = [s EXCEPT !.buf = b, !.head = 0, !.tail = m]
    OBVIOUS
  <2>6. Ensure(s) = r
    BY <1>1, <1>4, <2>2, <2>5 DEF Ensure, Avail
  <2>7. r \in StreamRec /\ r.buf = b /\ r.head = 0 /\ r.tail = m /\ Alike(s, r)
    BY <1>2, <2>1, <2>4, <2>5 DEF StreamRec, Alike
  <2>8. StreamOK(r) /\ Avail(r) = Avail(s) /\ r.tail < Cardinality(DOMAIN r.buf)
    BY <2>1, <2>4, <2>7 DEF StreamOK, Avail
  <2>9. Follows(r, g)
    <3>1. \A k \in 0..(m - 1) : b[k] = g + k + 1
      <4> TAKE k \in 0..(m - 1)
      <4>1. k \in DOMAIN s.buf /\ k < m
        BY <1>1, <2>1
      <4>2. s.buf[s.head + k] = g + k + 1
        BY DEF Follows, Avail
      <4> QED BY <2>2, <4>1, <4>2
    <3> QED BY <2>1, <2>7, <3>1 DEF Follows, Avail
  <2> QED BY <2>6, <2>7, <2>8, <2>9
<1>5. CASE s.tail >= n /\ ~(s.head > 0)
  <2>1. PICK b : b = [k \in 0..(2 * n - 1) |-> IF k < n THEN s.buf[k] ELSE 0]
    OBVIOUS
  <2>2. b \in [0..(2 * n - 1) -> Nat] /\ 2 * n \in Nat \ {0}
    BY <1>1, <2>1
  <2>3. b \in Arrays /\ Cardinality(DOMAIN b) = 2 * n
    BY <2>2, ArrayMade
  <2>4. PICK r : r = [s EXCEPT !.buf = b]
    OBVIOUS
  <2>5. Ensure(s) = r
    <3> DEFINE size == Cardinality(DOMAIN s.buf)
               q == [s EXCEPT !.buf = [k \in 0..(2 * size - 1) |-> IF k < size THEN s.buf[k] ELSE 0]]
    <3>1. q = r
      BY <1>1, <2>1, <2>4
    <3>2. ~(s.tail < size) /\ ~(s.tail >= size /\ s.head > 0)
      BY <1>1, <1>2, <1>5
    <3>3. Ensure(s) = q
      BY <3>2 DEF Ensure
    <3> QED BY <3>1, <3>3
  <2>6. r \in StreamRec /\ r.buf = b /\ r.head = s.head /\ r.tail = s.tail /\ Alike(s, r)
    BY <1>2, <2>3, <2>4 DEF StreamRec, Alike
  <2>7. StreamOK(r) /\ Avail(r) = Avail(s) /\ r.tail < Cardinality(DOMAIN r.buf)
    BY <1>2, <2>3, <2>6 DEF StreamOK, Avail
  <2>8. Follows(r, g)
    <3>1. \A k \in 0..(Avail(s) - 1) : b[s.head + k] = g + k + 1
      <4> TAKE k \in 0..(Avail(s) - 1)
      <4>1. s.buf[s.head + k] = g + k + 1
        BY DEF Follows
      <4>2. s.head + k \in 0..(2 * n - 1) /\ s.head + k < n
        BY <1>2 DEF Avail
      <4> QED BY <2>1, <4>1, <4>2
    <3> QED BY <2>6, <2>7, <3>1 DEF Follows
  <2> QED BY <2>5, <2>6, <2>7, <2>8
<1> QED BY <1>2, <1>3, <1>4, <1>5

\* A byte that is appended comes behind the others.
LEMMA AppendLemma ==
  ASSUME NEW s, StreamOK(s), NEW g \in Nat, Follows(s, g), NEW b \in Nat, b = g + Avail(s) + 1
  PROVE  LET d == AppendByte(s, b)
         IN  StreamOK(d) /\ Follows(d, g) /\ Alike(s, d) /\ Avail(d) = Avail(s) + 1
<1>1. PICK r : r = Ensure(s)
  OBVIOUS
<1>2. /\ StreamOK(r) /\ Follows(r, g) /\ Alike(s, r) /\ Avail(r) = Avail(s)
      /\ r.tail < Cardinality(DOMAIN r.buf)
  BY <1>1, EnsureLemma
<1>3. PICK n \in Nat \ {0} : r.buf \in [0..(n - 1) -> Nat] /\ Cardinality(DOMAIN r.buf) = n
  BY <1>2, ArrayFacts DEF StreamOK, StreamRec
<1>4. r \in StreamRec /\ r.head \in Nat /\ r.tail \in Nat /\ r.head <= r.tail /\ r.tail < n
  BY <1>2, <1>3 DEF StreamOK, StreamRec
<1>5. PICK c : c = [r.buf EXCEPT ![r.tail] = b]
  OBVIOUS
<1>6. c \in [0..(n - 1) -> Nat] /\ c[r.tail] = b /\ \A k \in 0..(n - 1) : k # r.tail => c[k] = r.buf[k]
  BY <1>3, <1>4, <1>5
<1>7. c \in Arrays /\ Cardinality(DOMAIN c) = n
  BY <1>6, ArrayMade
<1>8. PICK d : d = [r EXCEPT !.buf = c, !.tail = r.tail + 1]
  OBVIOUS
<1>9. AppendByte(s, b) = d
  BY <1>1, <1>4, <1>5, <1>8 DEF AppendByte, StreamRec
<1>10. d \in StreamRec /\ d.buf = c /\ d.head = r.head /\ d.tail = r.tail + 1 /\ Alike(s, d)
  <2>1. r.tail + 1 \in Nat
    BY <1>4
  <2>2. d \in StreamRec /\ d.buf = c /\ d.head = r.head /\ d.tail = r.tail + 1
    BY <1>4, <1>7, <1>8, <2>1 DEF StreamRec
  <2>3. Alike(r, d)
    BY <1>4, <1>8 DEF StreamRec, Alike
  <2> QED BY <1>2, <2>2, <2>3 DEF Alike
<1>11. StreamOK(d) /\ Avail(d) = Avail(s) + 1
  BY <1>2, <1>4, <1>7, <1>10 DEF StreamOK, Avail
<1>12. Follows(d, g)
  <2> SUFFICES ASSUME NEW k \in 0..(Avail(d) - 1) PROVE c[r.head + k] = g + k + 1
    BY <1>10 DEF Follows
  <2>1. CASE k = Avail(d) - 1
    <3>1. r.head + k = r.tail /\ k = Avail(s)
      BY <1>4, <1>2, <1>10, <1>11, <2>1 DEF Avail
    <3> QED BY <1>6, <3>1
  <2>2. CASE k # Avail(d) - 1
    <3>1. k \in 0..(Avail(r) - 1) /\ r.head + k \in 0..(n - 1) /\ r.head + k # r.tail
      BY <1>4, <1>2, <1>10, <1>11, <2>2 DEF Avail
    <3> QED BY <1>2, <1>6, <3>1 DEF Follows
  <2> QED BY <2>1, <2>2
<1> QED BY <1>9, <1>10, <1>11, <1>12
\* drainBytes() appends what the reactor's buffer holds.
LEMMA DrainLemma ==
  ASSUME NEW s, StreamOK(s), NEW g \in Nat, Follows(s, g), ReactorOK(rb), Queues(rb, g + Avail(s))
  PROVE  LET d == DrainBytes(s)
         IN  /\ StreamOK(d) /\ Follows(d, g) /\ Alike(s, d) /\ Avail(d) = Avail(s) + Unread
             /\ Unread = 0 => d = s
<1>1. PICK n \in Nat : n = Unread
  BY DEF Unread, ReactorOK
<1>2. PICK f : /\ f = [k \in 0..n |-> IF k = 0 THEN s
                                      ELSE AppendByte(f[k - 1], rb.mem[rb.pos + k - 1])]
               /\ DrainBytes(s) = f[n]
  BY <1>1, DrainUnfold
<1>3. f[0] = s /\ \A k \in 1..n : f[k] = AppendByte(f[k - 1], rb.mem[rb.pos + k - 1])
  BY <1>2
<1> DEFINE Good(k) == StreamOK(f[k]) /\ Follows(f[k], g) /\ Alike(s, f[k]) /\ Avail(f[k]) = Avail(s) + k
           Bad == {k \in 0..n : ~Good(k)}
<1>4. Avail(s) \in Nat
  BY DEF StreamOK, StreamRec, Avail
<1>5. Bad = {}
  <2> SUFFICES ASSUME Bad # {} PROVE FALSE
    OBVIOUS
  <2>1. PICK m \in Bad : \A j \in Bad : m <= j
    <3>1. Bad \subseteq Nat
      OBVIOUS
    <3> HIDE DEF Bad
    <3> QED BY <3>1, LeastLemma
  <2>2. Good(0)
    BY <1>3, <1>4 DEF Alike
  <2>3. m \in 1..n /\ m - 1 \in 0..n /\ m - 1 \in Nat /\ Good(m - 1)
    <3> HIDE DEF Good
    <3> QED BY <2>1, <2>2
  <2>4. PICK b : b = rb.mem[rb.pos + m - 1]
    OBVIOUS
  <2>5. b = g + Avail(f[m - 1]) + 1
    <3>1. m - 1 \in 0..(rb.len - rb.pos - 1)
      BY <1>1, <2>3 DEF ReactorOK, Unread
    <3>2. rb.mem[rb.pos + (m - 1)] = g + Avail(s) + (m - 1) + 1
      BY <3>1 DEF Queues
    <3>3. rb.pos + (m - 1) = rb.pos + m - 1
      BY <2>3 DEF ReactorOK
    <3>4. Avail(f[m - 1]) = Avail(s) + (m - 1)
      BY <2>3
    <3> QED BY <1>4, <2>3, <2>4, <3>2, <3>3, <3>4
  <2>6. b \in Nat
    BY <1>4, <2>3, <2>5
  <2>7. f[m] = AppendByte(f[m - 1], b)
    BY <1>3, <2>3, <2>4
  <2>8. /\ StreamOK(f[m]) /\ Follows(f[m], g) /\ Alike(f[m - 1], f[m])
        /\ Avail(f[m]) = Avail(f[m - 1]) + 1
    BY <2>3, <2>5, <2>6, <2>7, AppendLemma
  <2>9. Good(m)
    BY <1>4, <2>3, <2>8 DEF Alike
  <2> QED BY <2>9
<1>6. Good(n)
  <2> HIDE DEF Good
  <2> QED BY <1>5
<1> QED BY <1>1, <1>2, <1>3, <1>6
\* Giving every buffered byte away leaves the buffer empty.
LEMMA EmptiedLemma ==
  ASSUME NEW s, StreamOK(s)
  PROVE  StreamOK(Emptied(s)) /\ Avail(Emptied(s)) = 0 /\ Alike(s, Emptied(s))
<1>1. PICK n \in Nat \ {0} : s.buf \in [0..(n - 1) -> Nat] /\ Cardinality(DOMAIN s.buf) = n
  BY ArrayFacts DEF StreamOK, StreamRec
<1>2. PICK b : b = Blank(s.buf)
  OBVIOUS
<1>3. b \in [0..(n - 1) -> Nat]
  BY <1>1, <1>2 DEF Blank
<1>4. b \in Arrays /\ Cardinality(DOMAIN b) = n
  BY <1>3, ArrayMade
<1>5. PICK r : r = [s EXCEPT !.head = 0, !.tail = 0, !.buf = b]
  OBVIOUS
<1>6. Emptied(s) = r
  BY <1>2, <1>5 DEF Emptied, StreamOK, StreamRec
<1>7. r \in StreamRec /\ r.buf = b /\ r.head = 0 /\ r.tail = 0 /\ Alike(s, r)
  BY <1>4, <1>5 DEF StreamRec, Alike, StreamOK
<1> QED BY <1>4, <1>6, <1>7 DEF StreamOK, Avail

\* Taking n of the bytes leaves those behind them.
LEMMA TakenLemma ==
  ASSUME NEW s, StreamOK(s), NEW g \in Nat, Follows(s, g), NEW n \in Nat, n <= Avail(s)
  PROVE  LET d == Taken(s, n)
         IN  StreamOK(d) /\ Follows(d, g + n) /\ Alike(s, d) /\ Avail(d) = Avail(s) - n
<1>1. CASE n >= Avail(s)
  <2>1. Taken(s, n) = Emptied(s)
    BY <1>1 DEF Taken
  <2>2. Avail(s) \in Nat
    BY DEF Avail, StreamOK, StreamRec
  <2>3. Avail(s) - n = 0
    BY <1>1, <2>2
  <2>4. Follows(Emptied(s), g + n)
    BY EmptiedLemma DEF Follows
  <2> QED BY <2>1, <2>3, <2>4, EmptiedLemma
<1>2. CASE ~(n >= Avail(s))
  <2>1. PICK m \in Nat \ {0} : s.buf \in [0..(m - 1) -> Nat] /\ Cardinality(DOMAIN s.buf) = m
    BY ArrayFacts DEF StreamOK, StreamRec
  <2>2. s \in StreamRec /\ s.head \in Nat /\ s.tail \in Nat /\ s.head <= s.tail /\ s.tail <= m
    BY <2>1 DEF StreamOK, StreamRec
  <2>3. PICK b : b = [k \in DOMAIN s.buf |-> IF k < s.head + n THEN 0 ELSE s.buf[k]]
    OBVIOUS
  <2>4. b \in [0..(m - 1) -> Nat]
    BY <2>1, <2>3
  <2>5. b \in Arrays /\ Cardinality(DOMAIN b) = m
    BY <2>4, ArrayMade
  <2>6. PICK h \in Nat : h = s.head + n
    BY <2>2
  <2>7. PICK d : d = [s EXCEPT !.head = h, !.buf = b]
    OBVIOUS
  <2>8. Taken(s, n) = d
    BY <1>2, <2>2, <2>3, <2>6, <2>7 DEF Taken, StreamRec
  <2>9. d \in StreamRec /\ d.buf = b /\ d.head = h /\ d.tail = s.tail
    BY <2>2, <2>5, <2>6, <2>7 DEF StreamRec
  <2>10. Alike(s, d)
    BY <2>2, <2>7 DEF StreamRec, Alike
  <2>11. StreamOK(d) /\ Avail(d) = Avail(s) - n
    BY <1>2, <2>2, <2>5, <2>6, <2>9 DEF StreamOK, Avail
  <2>12. Follows(d, g + n)
    <3> SUFFICES ASSUME NEW k \in 0..(Avail(d) - 1) PROVE b[h + k] = g + n + k + 1
      BY <2>9 DEF Follows
    <3>1. n + k \in 0..(Avail(s) - 1)
      BY <2>2, <2>11 DEF Avail
    <3>2. s.buf[s.head + (n + k)] = g + (n + k) + 1
      BY <3>1 DEF Follows
    <3>3. h + k \in DOMAIN s.buf /\ ~(h + k < s.head + n) /\ h + k = s.head + (n + k)
      <4>1. k \in Nat /\ n + k < s.tail - s.head
        BY <2>2, <2>9, <3>1 DEF Avail
      <4>2. h + k \in 0..(m - 1) /\ ~(h + k < s.head + n) /\ h + k = s.head + (n + k)
        BY <2>2, <2>6, <4>1
      <4> QED BY <2>1, <4>2
    <3> QED BY <2>3, <3>2, <3>3
  <2> QED BY <2>8, <2>10, <2>11, <2>12
<1> QED BY <1>1, <1>2

\* The bytes handed out go on where they stopped.
LEMMA OutLemma ==
  ASSUME NEW s, StreamOK(s), out \in Seq(Nat), \A k \in 1..Len(out) : out[k] = k,
         Follows(s, Len(out)), NEW n \in Nat, n <= Avail(s)
  PROVE  LET o == out \o Slice(s, n)
         IN  o \in Seq(Nat) /\ Len(o) = Len(out) + n /\ \A k \in 1..Len(o) : o[k] = k
<1>1. PICK w : w = Slice(s, n)
  OBVIOUS
<1>2. \A k \in 1..n : s.buf[s.head + k - 1] = Len(out) + k
  <2> TAKE k \in 1..n
  <2>1. s.head \in Nat /\ s.tail \in Nat
    BY DEF StreamOK, StreamRec
  <2>2. k - 1 \in 0..(Avail(s) - 1)
    BY <2>1 DEF Avail
  <2>3. s.buf[s.head + (k - 1)] = Len(out) + (k - 1) + 1
    BY <2>2 DEF Follows
  <2>4. s.head + (k - 1) = s.head + k - 1 /\ Len(out) + (k - 1) + 1 = Len(out) + k
    BY <2>1
  <2> QED BY <2>3, <2>4
<1>3. w = [k \in 1..n |-> Len(out) + k]
  BY <1>1, <1>2 DEF Slice
<1>4. w \in Seq(Nat) /\ Len(w) = n /\ \A k \in 1..n : w[k] = Len(out) + k
  BY <1>3
<1>5. PICK o : o = out \o w
  OBVIOUS
<1>6. /\ o \in Seq(Nat) /\ Len(o) = Len(out) + n
      /\ \A k \in 1..(Len(out) + n) : o[k] = IF k <= Len(out) THEN out[k] ELSE w[k - Len(out)]
  <2>1. o \in Seq(Nat) /\ Len(o) = Len(out) + n
    BY <1>4, <1>5, ConcatProperties
  <2>2. \A k \in 1..(Len(out) + n) : o[k] = IF k <= Len(out) THEN out[k] ELSE w[k - Len(out)]
    BY <1>4, <1>5, ConcatProperties
  <2> QED BY <2>1, <2>2
<1>7. \A k \in 1..Len(o) : o[k] = k
  <2> TAKE k \in 1..Len(o)
  <2>1. CASE k <= Len(out)
    <3>1. k \in 1..Len(out) /\ k \in 1..(Len(out) + n)
      BY <1>6, <2>1
    <3> QED BY <1>6, <2>1, <3>1
  <2>2. CASE ~(k <= Len(out))
    <3>1. k - Len(out) \in 1..n
      BY <1>6, <2>2
    <3> QED BY <1>4, <1>6, <2>2, <3>1
  <2> QED BY <2>1, <2>2
<1> QED BY <1>1, <1>5, <1>6, <1>7

\* drainBytes() empties the reactor's buffer and keeps the subscription.
LEMMA AllTakenLemma ==
  ASSUME ReactorOK(rb), StdinAssumption
  PROVE  /\ ReactorOK(AllTaken) /\ AllTaken.len = AllTaken.pos /\ AllTaken.active = rb.active
<1>1. PICK b : b = Blank(rb.mem)
  OBVIOUS
<1>2. b \in [0..(Cap - 1) -> 0..MaxBytes]
  BY <1>1 DEF Blank, ReactorOK, StdinAssumption
<1>3. PICK r : r = [rb EXCEPT !.pos = rb.len, !.mem = b]
  OBVIOUS
<1>4. AllTaken = r
  BY <1>1, <1>3 DEF AllTaken, ReactorOK
<1>5. rb.len \in 0..Cap /\ rb.len <= rb.len
  BY DEF ReactorOK, StdinAssumption
<1>6. /\ r \in [mem : [0..(Cap - 1) -> 0..MaxBytes], pos : 0..Cap, len : 0..Cap, active : BOOLEAN]
      /\ r.pos = rb.len /\ r.len = rb.len /\ r.active = rb.active
  BY <1>2, <1>3, <1>5 DEF ReactorOK
<1> QED BY <1>4, <1>5, <1>6 DEF ReactorOK
-----------------------------------------------------------------------------
(* The stack of activations *)

LEMMA TopLemma ==
  ASSUME stack \in Seq(FrameRec), stack # <<>>
  PROVE  Depth \in Nat /\ Depth >= 1 /\ Top \in FrameRec /\ \A k \in 1..Depth : stack[k] \in FrameRec
BY DEF Depth, Top

\* The top frame is replaced.
Replaced(t, f) ==
  /\ t \in Seq(FrameRec) /\ Len(t) = Depth /\ t[Depth] = f
  /\ \A k \in 1..Depth : k # Depth => t[k] = stack[k]

LEMMA ReplacedLemma ==
  ASSUME stack \in Seq(FrameRec), stack # <<>>, NEW f \in FrameRec
  PROVE  Replaced([stack EXCEPT ![Depth] = f], f)
BY TopLemma DEF Replaced, Depth

LEMMA GotoLemma ==
  ASSUME stack \in Seq(FrameRec), stack # <<>>, NEW a \in Stages
  PROVE  Replaced(Goto(a), [at |-> a, i |-> 0, eof |-> Top.eof, user |-> Top.user])
<1>1. PICK f : f = [at |-> a, i |-> 0, eof |-> Top.eof, user |-> Top.user]
  OBVIOUS
<1>2. f \in FrameRec
  BY <1>1, TopLemma DEF FrameRec
<1>3. [[Top EXCEPT !.at = a] EXCEPT !.i = 0] = f
  <2>1. PICK u : u = Top
    OBVIOUS
  <2>2. u \in FrameRec
    BY <2>1, TopLemma
  <2>3. PICK v : v = [u EXCEPT !.at = a]
    OBVIOUS
  <2>4. v \in FrameRec /\ v.at = a /\ v.eof = u.eof /\ v.user = u.user
    BY <2>2, <2>3 DEF FrameRec
  <2>5. PICK w : w = [v EXCEPT !.i = 0]
    OBVIOUS
  <2>6. w \in FrameRec /\ w.at = a /\ w.i = 0 /\ w.eof = u.eof /\ w.user = u.user
    BY <2>4, <2>5 DEF FrameRec
  <2>7. w = f
    BY <1>1, <1>2, <2>1, <2>6 DEF FrameRec
  <2> QED BY <2>1, <2>3, <2>5, <2>7
<1>4. Goto(a) = [stack EXCEPT ![Depth] = f]
  BY <1>3, TopLemma DEF Goto, Top, Depth
<1> QED BY <1>1, <1>2, <1>4, ReplacedLemma

LEMMA PopLemma ==
  ASSUME stack \in Seq(FrameRec), stack # <<>>
  PROVE  Pop \in Seq(FrameRec) /\ Len(Pop) = Depth - 1 /\ \A k \in 1..(Depth - 1) : Pop[k] = stack[k]
<1>1. Depth - 1 \in 0..Len(stack) /\ Depth = Len(stack) /\ Depth \in Nat
  BY TopLemma DEF Depth
<1>2. \A k \in 1..(Depth - 1) : stack[k] \in FrameRec
  BY <1>1, TopLemma
<1>3. Pop = [k \in 1..(Depth - 1) |-> stack[k]]
  BY <1>1 DEF Pop
<1> QED BY <1>1, <1>2, <1>3

LEMMA PushLemma ==
  ASSUME NEW base \in Seq(FrameRec), NEW f \in FrameRec
  PROVE  LET t == Append(base, f)
         IN  /\ t \in Seq(FrameRec) /\ Len(t) = Len(base) + 1 /\ t[Len(base) + 1] = f
             /\ \A k \in 1..Len(base) : t[k] = base[k]
OBVIOUS

LEMMA FrameLemma ==
  ASSUME NEW a \in Stages, NEW e \in BOOLEAN
  PROVE  /\ Frame(a, e) \in FrameRec /\ Frame(a, e).at = a /\ Frame(a, e).eof = e
         /\ Frame(a, e).user = (a = "body")
BY DEF Frame, FrameRec

LEMMA SingleLemma ==
  ASSUME NEW f \in FrameRec
  PROVE  <<f>> \in Seq(FrameRec) /\ Len(<<f>>) = 1 /\ <<f>>[1] = f
<1>1. <<f>> = [k \in 1..1 |-> f]
  OBVIOUS
<1> QED BY <1>1
-----------------------------------------------------------------------------
(* The steps of the loop *)

LEMMA InitLemma == ASSUME StdinAssumption, Init PROVE IInv
<1>1. PICK b : b = [k \in 0..(InitialBuf - 1) |-> 0]
  OBVIOUS
<1>2. b \in Arrays /\ Cardinality(DOMAIN b) = InitialBuf
  <2>1. b \in [0..(InitialBuf - 1) -> Nat] /\ InitialBuf \in Nat \ {0}
    BY <1>1 DEF StdinAssumption
  <2> QED BY <2>1, ArrayMade
<1>3. StreamOK(st) /\ Avail(st) = 0 /\ ~st.armed /\ ~st.destroyed /\ ~st.ended
  BY <1>1, <1>2 DEF Init, StreamOK, StreamRec, Avail, StdinAssumption
<1>4. ReactorOK(rb) /\ Unread = 0 /\ rb.active /\ rb.len = rb.pos
  BY DEF Init, ReactorOK, StdinAssumption, Unread
<1>5. stack \in Seq(FrameRec) /\ Depth = 1 /\ stack[1].at = "body" /\ stack[1].user
  <2>1. PICK f : f = Frame("body", FALSE)
    OBVIOUS
  <2>2. f \in FrameRec /\ f.at = "body" /\ f.user
    BY <2>1, FrameLemma DEF Stages
  <2>3. stack = <<f>>
    BY <2>1 DEF Init
  <2> QED BY <2>2, <2>3, SingleLemma DEF Depth
<1>6. Typed
  <2>1. /\ peer \in [written : 0..MaxBytes, read : 0..MaxBytes, closed : BOOLEAN, failed : BOOLEAN]
        /\ peer.read <= peer.written /\ listeners \in [Dispatching -> 0..MaxListeners]
    BY DEF Init, StdinAssumption
  <2>2. timers + micro <= bodies /\ bodies <= MaxBodies
    BY DEF Init, StdinAssumption
  <2>3. pc = "drain1" /\ timers \in Nat /\ micro \in Nat /\ bodies \in Nat
    BY DEF Init
  <2>4. out \in Seq(Nat)
    BY DEF Init
  <2>5. touched \in BOOLEAN
    BY Zenon DEF Init
  <2> QED BY <1>3, <1>4, <1>5, <2>1, <2>2, <2>3, <2>4, <2>5 DEF Typed
<1>7. Bytes
  BY <1>3, <1>4 DEF Init, Bytes, Follows, Queues, ReactorOK
<1>8. SourceOK
  BY <1>3, <1>4 DEF SourceOK
<1>9. Nesting
  BY <1>5 DEF Nesting, FrameOK, IsPump, Alone
<1>10. Places
  BY DEF Init, Places
<1> QED BY <1>6, <1>7, <1>8, <1>9, <1>10 DEF IInv

\* Without an activation nothing is nested.
LEMMA NoFrames ==
  ASSUME stack = <<>>
  PROVE  Nesting /\ stack \in Seq(FrameRec) /\ \A S : ~AtSome(S)
BY DEF Nesting, Alone, AtSome, Depth

\* What the loop does between activations: only pc moves.
LEMMA MoveStep ==
  ASSUME IInv, stack = <<>>, UNCHANGED <<peer, rb, st, listeners, stack, timers, micro, bodies, out, touched>>,
         pc' \in {"drain1", "stdin", "pump", "fire", "drain2", "peek", "poll", "exit"},
         pc' \in {"fire", "drain2", "peek", "exit"} => pc \in {"fire", "drain2", "peek"},
         pc' = "exit" => ~rb.active
  PROVE  IInv'
<1>1. Typed'
  BY DEF IInv, Typed
<1>2. Bytes'
  BY DEF IInv, Bytes, Follows, Queues, Avail, Unread
<1>3. SourceOK'
  BY DEF IInv, SourceOK, SourceDone
<1>4. Nesting'
  BY DEF IInv, Nesting, FrameOK, IsPump, PumpOK, Alone, Depth, Avail, Unread, SourceDone
<1>5. Places'
  BY DEF IInv, Places, Settled, AtSome, Avail, Unread, Depth
<1> QED BY <1>1, <1>2, <1>3, <1>4, <1>5 DEF IInv

LEMMA LoopMoves ==
  ASSUME IInv, DrainDone \/ FireDone \/ Peek \/ Poll
  PROVE  IInv'
<1>1. CASE DrainDone
  BY <1>1, MoveStep DEF DrainDone
<1>2. CASE FireDone
  BY <1>2, MoveStep DEF FireDone, InLoop
<1>3. CASE Peek
  BY <1>3, MoveStep DEF Peek, InLoop
<1>4. CASE Poll
  BY <1>4, MoveStep DEF Poll, InLoop
<1> QED BY <1>1, <1>2, <1>3, <1>4

\* The loop starts user code.
StartsBody == stack' = <<Frame("body", FALSE)>>

LEMMA BodyStep ==
  ASSUME IInv, StdinAssumption, stack = <<>>, pc # "exit", StartsBody,
         UNCHANGED <<peer, rb, st, listeners, pc, bodies, out, touched>>,
         timers' \in Nat, micro' \in Nat, timers' + micro' <= bodies
  PROVE  IInv'
<1>1. PICK f : f = Frame("body", FALSE)
  OBVIOUS
<1>2. f \in FrameRec /\ f.at = "body" /\ f.user
  BY <1>1, FrameLemma DEF Stages
<1>3. stack' \in Seq(FrameRec) /\ Depth' = 1 /\ stack'[1] = f
  <2>1. stack' = <<f>>
    BY <1>1, Zenon DEF StartsBody
  <2> QED BY <1>2, <2>1, SingleLemma DEF Depth
<1>4. Typed'
  BY <1>3 DEF IInv, Typed
<1>5. Bytes'
  BY DEF IInv, Bytes, Follows, Queues, Avail, Unread
<1>6. SourceOK'
  BY DEF IInv, SourceOK, SourceDone
<1>7. Nesting'
  <2>1. \A k \in 1..Depth' : k = 1 /\ ~IsPump(f) /\ FrameOK(k)'
    <3> TAKE k \in 1..Depth'
    <3>1. k = 1 /\ stack'[k] = f /\ ~(k < Depth')
      BY <1>3
    <3>2. f.user /\ f.at = "body"
      BY <1>2
    <3> QED BY <3>1, <3>2 DEF FrameOK, IsPump
  <2>2. Alone'
    BY <1>3 DEF Alone
  <2> QED BY <1>3, <2>1, <2>2 DEF Nesting, IsPump
<1>8. Places'
  <2>1. ~AtSome({"readable", "flow"}) /\ ~AtSome({"readable", "flow", "data", "finish"})
    BY NoFrames
  <2> QED BY <2>1 DEF IInv, Places, Settled, Avail, Unread
<1> QED BY <1>4, <1>5, <1>6, <1>7, <1>8 DEF IInv

LEMMA LoopBodies ==
  ASSUME IInv, StdinAssumption, RunJob \/ FireTimer
  PROVE  IInv'
<1>1. timers \in Nat /\ micro \in Nat /\ bodies \in Nat /\ timers + micro <= bodies
  BY DEF IInv, Typed
<1>2. CASE RunJob
  BY <1>1, <1>2, BodyStep DEF RunJob, StartsBody
<1>3. CASE FireTimer
  BY <1>1, <1>3, BodyStep DEF FireTimer, StartsBody, InLoop
<1> QED BY <1>2, <1>3

PeerRec == [written : 0..MaxBytes, read : 0..MaxBytes, closed : BOOLEAN, failed : BOOLEAN]

\* The peer acts while the loop is about to look at fd 0.
LEMMA PeerSteps ==
  ASSUME IInv, StdinAssumption, PeerWrite \/ PeerClose \/ PeerFail
  PROVE  IInv'
<1>1. /\ stack = <<>> /\ rb.active /\ pc \in {"stdin", "poll"} /\ ~peer.closed /\ ~peer.failed
      /\ UNCHANGED <<rb, st, listeners, stack, pc, timers, micro, bodies, out, touched>>
  BY DEF PeerWrite, PeerClose, PeerFail, LoopLooks
<1>2. peer \in PeerRec /\ peer.read <= peer.written
  BY DEF IInv, Typed, PeerRec
<1>3. /\ peer' \in PeerRec /\ peer'.read = peer.read /\ peer'.read <= peer'.written
  <2>1. CASE PeerWrite
    <3>1. peer.written + 1 \in 0..MaxBytes
      BY <1>2, <2>1 DEF PeerWrite, PeerRec, StdinAssumption
    <3> QED BY <1>2, <2>1, <3>1 DEF PeerWrite, PeerRec
  <2>2. CASE PeerClose
    BY <1>2, <2>2 DEF PeerClose, PeerRec
  <2>3. CASE PeerFail
    <3>1. PICK u : u = [peer EXCEPT !.failed = TRUE]
      OBVIOUS
    <3>2. u \in PeerRec /\ u.read = peer.read
      BY <1>2, <3>1 DEF PeerRec
    <3>3. peer' = [u EXCEPT !.written = peer.read] /\ peer.read \in 0..MaxBytes /\ peer.read \in Nat
      BY <1>2, <2>3, <3>1 DEF PeerFail, PeerRec, StdinAssumption
    <3>4. peer' \in PeerRec /\ peer'.read = peer.read /\ peer'.written = peer.read
      BY <3>2, <3>3 DEF PeerRec
    <3> QED BY <3>3, <3>4
  <2> QED BY <2>1, <2>2, <2>3
<1>4. Typed'
  BY <1>1, <1>3 DEF IInv, Typed, PeerRec
<1>5. Bytes'
  BY <1>1, <1>3 DEF IInv, Bytes, Follows, Queues, Avail, Unread
<1>6. SourceOK'
  BY <1>1 DEF IInv, SourceOK
<1>7. Nesting'
  <2>1. stack' = <<>>
    BY <1>1
  <2> QED BY <2>1 DEF Nesting, Alone, Depth
<1>8. Places'
  BY <1>1 DEF Places
<1> QED BY <1>4, <1>5, <1>6, <1>7, <1>8 DEF IInv

LEMMA ReclaimLemma ==
  ASSUME StdinAssumption, ReactorOK(rb), NEW g \in Nat, Queues(rb, g)
  PROVE  /\ ReactorOK(Reclaim) /\ Queues(Reclaim, g) /\ Reclaim.active = rb.active
         /\ Reclaim.len - Reclaim.pos = Unread
<1>1. CASE rb.pos >= rb.len
  <2>1. PICK r : r = [rb EXCEPT !.pos = 0, !.len = 0]
    OBVIOUS
  <2>2. Reclaim = r
    BY <1>1, <2>1 DEF Reclaim
  <2>3. 0 \in 0..Cap /\ rb.pos = rb.len /\ rb.len \in Nat
    BY <1>1 DEF ReactorOK, StdinAssumption
  <2>4. ReactorOK(r) /\ r.len = 0 /\ r.pos = 0 /\ r.active = rb.active
    <3>1. /\ r \in [mem : [0..(Cap - 1) -> 0..MaxBytes], pos : 0..Cap, len : 0..Cap, active : BOOLEAN]
          /\ r.len = 0 /\ r.pos = 0 /\ r.active = rb.active
      BY <2>1, <2>3 DEF ReactorOK
    <3> QED BY <3>1 DEF ReactorOK
  <2> QED BY <2>2, <2>3, <2>4 DEF Queues, Unread
<1>2. CASE ~(rb.pos >= rb.len)
  BY <1>2 DEF Reclaim, Unread
<1> QED BY <1>1, <1>2

\* The cells that fd_read fills, in numbers
LEMMA ReceiveArith ==
  ASSUME NEW p \in Nat, NEW l \in Nat, NEW c \in Nat, NEW n \in Nat, NEW rd \in Nat, NEW w \in Nat,
         NEW mx \in Nat, NEW g \in Nat,
         p <= l, n <= c - l, n <= w - rd, w <= mx, g + (l - p) = rd
  PROVE  /\ l + n \in 0..c
         /\ \A k \in l..(l + n - 1) : rd + 1 + k - l \in 0..mx
         /\ \A k \in 0..(l + n - p - 1) : /\ p + k \in 0..(c - 1)
                                          /\ IF p + k \in l..(l + n - 1)
                                             THEN rd + 1 + (p + k) - l = g + k + 1
                                             ELSE k \in 0..(l - p - 1)
OBVIOUS

\* fd_read puts the next bytes of the peer behind those that are unread.
LEMMA ReceivedLemma ==
  ASSUME StdinAssumption, peer \in PeerRec, NEW r, ReactorOK(r), NEW g \in Nat, Queues(r, g),
         g + (r.len - r.pos) = peer.read,
         NEW n \in Nat, n <= Cap - r.len, n <= peer.written - peer.read
  PROVE  LET q == Received(r, n)
         IN  /\ ReactorOK(q) /\ Queues(q, g) /\ q.active = r.active
             /\ q.len - q.pos = r.len - r.pos + n
<1>1. /\ r.pos \in Nat /\ r.len \in Nat /\ r.pos <= r.len /\ Cap \in Nat /\ MaxBytes \in Nat
      /\ r.mem \in [0..(Cap - 1) -> 0..MaxBytes]
  BY DEF ReactorOK, StdinAssumption
<1>2. peer.read \in Nat /\ peer.written \in Nat /\ peer.written <= MaxBytes
  BY <1>1 DEF PeerRec
<1>3. PICK p \in Nat, l \in Nat, rd \in Nat : p = r.pos /\ l = r.len /\ rd = peer.read
  BY <1>1, <1>2
<1>4. /\ l + n \in 0..Cap
      /\ \A k \in l..(l + n - 1) : rd + 1 + k - l \in 0..MaxBytes
      /\ \A k \in 0..(l + n - p - 1) : /\ p + k \in 0..(Cap - 1)
                                       /\ IF p + k \in l..(l + n - 1)
                                          THEN rd + 1 + (p + k) - l = g + k + 1
                                          ELSE k \in 0..(l - p - 1)
  <2>1. PICK w \in Nat : w = peer.written
    BY <1>2
  <2>2. p <= l /\ n <= Cap - l /\ n <= w - rd /\ w <= MaxBytes /\ g + (l - p) = rd
    BY <1>1, <1>2, <1>3, <2>1
  <2>3. Cap \in Nat /\ MaxBytes \in Nat
    BY <1>1
  <2> QED BY <2>2, <2>3, ReceiveArith
<1>5. PICK m : m = [k \in 0..(Cap - 1) |-> IF k \in l..(l + n - 1) THEN rd + 1 + k - l ELSE r.mem[k]]
  OBVIOUS
<1>6. m \in [0..(Cap - 1) -> 0..MaxBytes]
  BY <1>1, <1>4, <1>5
<1>7. PICK q : q = [r EXCEPT !.mem = m, !.len = l + n]
  OBVIOUS
<1>8. Received(r, n) = q
  BY <1>1, <1>3, <1>5, <1>7 DEF Received, ReactorOK
<1>9. /\ q \in [mem : [0..(Cap - 1) -> 0..MaxBytes], pos : 0..Cap, len : 0..Cap, active : BOOLEAN]
      /\ q.mem = m /\ q.len = l + n /\ q.pos = p /\ q.active = r.active
  <2>1. PICK h : h = l + n
    OBVIOUS
  <2>2. PICK u : u = [r EXCEPT !.mem = m]
    OBVIOUS
  <2>3. /\ u \in [mem : [0..(Cap - 1) -> 0..MaxBytes], pos : 0..Cap, len : 0..Cap, active : BOOLEAN]
        /\ u.mem = m /\ u.pos = r.pos /\ u.active = r.active
    BY <1>6, <2>2 DEF ReactorOK
  <2>4. q = [u EXCEPT !.len = h] /\ h \in 0..Cap
    BY <1>4, <1>7, <2>1, <2>2
  <2>5. /\ q \in [mem : [0..(Cap - 1) -> 0..MaxBytes], pos : 0..Cap, len : 0..Cap, active : BOOLEAN]
        /\ q.mem = u.mem /\ q.len = h /\ q.pos = u.pos /\ q.active = u.active
    BY <2>3, <2>4
  <2> QED BY <1>3, <2>1, <2>3, <2>5
<1>10. Queues(q, g)
  <2> SUFFICES ASSUME NEW k \in 0..(l + n - p - 1) PROVE m[p + k] = g + k + 1
    BY SMTT(30), <1>9 DEF Queues
  <2>1. CASE p + k \in l..(l + n - 1)
    <3>1. p + k \in 0..(Cap - 1) /\ rd + 1 + (p + k) - l = g + k + 1
      BY <1>4, <2>1
    <3> QED BY <1>5, <2>1, <3>1
  <2>2. CASE p + k \notin l..(l + n - 1)
    <3>1. k \in 0..(r.len - r.pos - 1) /\ p + k \in 0..(Cap - 1)
      BY <1>3, <1>4, <2>2
    <3>2. r.mem[p + k] = g + k + 1
      BY <1>3, <3>1 DEF Queues
    <3> QED BY <1>5, <2>2, <3>1, <3>2
  <2> QED BY <2>1, <2>2
<1>11. q.pos <= q.len /\ q.len - q.pos = r.len - r.pos + n
  <2>1. p <= l
    BY <1>1, <1>3
  <2>2. p <= l + n /\ l + n - p = l - p + n
    BY <2>1
  <2> QED BY <1>3, <1>9, <2>2, SMTT(30)
<1> QED BY <1>8, <1>9, <1>10, <1>11 DEF ReactorOK

\* The buffer goes on from the g bytes that are behind it, after the step too.
FedOK(g) ==
  /\ peer' \in PeerRec /\ peer'.read <= peer'.written
  /\ ReactorOK(rb') /\ Queues(rb', g) /\ g + (rb'.len - rb'.pos) = peer'.read
  /\ peer'.written = peer.written /\ peer'.closed = peer.closed /\ peer'.failed = peer.failed
  /\ ~rb'.active /\ ~st.destroyed => SourceDone'

LEMMA DrainFdLemma ==
  ASSUME StdinAssumption, peer \in PeerRec, peer.read <= peer.written, NEW r, ReactorOK(r),
         NEW g \in Nat, Queues(r, g), g + (r.len - r.pos) = peer.read, r.active, r.len # Cap,
         StdinDrain(r)
  PROVE  FedOK(g)
<1>1. peer.read \in Nat /\ peer.written \in Nat /\ r.len \in Nat /\ r.len <= Cap /\ Cap \in Nat
  BY DEF PeerRec, ReactorOK, StdinAssumption
<1>2. ASSUME NEW v \in BOOLEAN, rb' = [r EXCEPT !.active = v], UNCHANGED peer, ~v => SourceDone
      PROVE  FedOK(g)
  <2>1. ReactorOK(rb') /\ rb'.len = r.len /\ rb'.pos = r.pos /\ rb'.mem = r.mem /\ rb'.active = v
    BY <1>2 DEF ReactorOK
  <2> QED BY <1>2, <2>1 DEF FedOK, Queues, SourceDone
<1>3. CASE peer.failed /\ rb' = [r EXCEPT !.active = FALSE] /\ UNCHANGED peer
  <2>1. PICK v \in BOOLEAN : v = FALSE
    OBVIOUS
  <2> QED BY <1>2, <1>3, <2>1 DEF SourceDone
<1>4. CASE /\ ~peer.failed /\ peer.written = peer.read
           /\ rb' = [r EXCEPT !.active = ~peer.closed] /\ UNCHANGED peer
  <2>1. PICK v \in BOOLEAN : v = ~peer.closed
    BY DEF PeerRec
  <2> QED BY <1>2, <1>4, <2>1 DEF SourceDone
<1>5. CASE /\ Fits(r) > 0 /\ rb' = Received(r, Fits(r))
           /\ peer' = [peer EXCEPT !.read = @ + Fits(r)]
  <2>1. PICK n : n = Fits(r)
    OBVIOUS
  <2>2. n \in Nat /\ n <= Cap - r.len /\ n <= peer.written - peer.read
    <3> DEFINE T == {Cap - r.len, peer.written - peer.read}
    <3>1. T \subseteq Nat /\ T # {}
      BY <1>1
    <3>2. Min(T) \in T /\ \A y \in T : Min(T) <= y
      BY <3>1, MinLemma
    <3>3. n = Min(T)
      BY <2>1 DEF Fits
    <3> QED BY <3>1, <3>2, <3>3
  <2>3. /\ ReactorOK(rb') /\ Queues(rb', g) /\ rb'.active
        /\ rb'.len - rb'.pos = r.len - r.pos + n
    BY <1>5, <2>1, <2>2, ReceivedLemma
  <2>4. PICK m \in 0..MaxBytes : m = peer.read + n
    BY <1>1, <2>2 DEF PeerRec, StdinAssumption
  <2>5. peer' = [peer EXCEPT !.read = m]
    BY <1>5, <2>1, <2>4 DEF PeerRec
  <2>6. /\ peer' \in PeerRec /\ peer'.read = m /\ peer'.written = peer.written
        /\ peer'.closed = peer.closed /\ peer'.failed = peer.failed
    BY <2>5 DEF PeerRec
  <2>7. r.pos \in Nat
    BY DEF ReactorOK, StdinAssumption
  <2> QED BY <1>1, <2>2, <2>3, <2>4, <2>6, <2>7 DEF FedOK
<1> QED BY <1>3, <1>4, <1>5 DEF StdinDrain

LEMMA ReadFdStep ==
  ASSUME IInv, StdinAssumption, ReadFd
  PROVE  IInv'
<1>1. /\ stack' = <<>> /\ pc' = "pump"
      /\ UNCHANGED <<st, listeners, stack, timers, micro, bodies, out, touched>>
  BY DEF ReadFd, InLoop
<1>2. /\ peer \in PeerRec /\ peer.read <= peer.written /\ ReactorOK(rb) /\ StreamOK(st)
      /\ out \in Seq(Nat)
  BY DEF IInv, Typed, PeerRec
<1>3. PICK g \in Nat : g = Len(out) + Avail(st)
  BY <1>2 DEF StreamOK, StreamRec, Avail
<1>4. Queues(rb, g) /\ g + Unread = peer.read
  BY <1>3 DEF IInv, Bytes
<1>5. PICK r : r = Reclaim
  OBVIOUS
<1>6. ReactorOK(r) /\ Queues(r, g) /\ r.active = rb.active /\ r.len - r.pos = Unread
  BY <1>2, <1>4, <1>5, ReclaimLemma
<1>7. FedOK(g)
  <2>1. CASE ~rb.active
    BY <1>2, <1>4, <2>1 DEF ReadFd, IInv, SourceOK, SourceDone, Unread, FedOK
  <2>2. CASE rb.active /\ r.len = Cap
    BY <1>2, <1>4, <1>5, <1>6, <2>2 DEF ReadFd, FedOK
  <2>3. CASE rb.active /\ r.len # Cap
    <3>1. StdinDrain(r)
      BY <1>5, <2>3 DEF ReadFd
    <3> QED BY <1>2, <1>4, <1>6, <2>3, <3>1, DrainFdLemma
  <2> QED BY <2>1, <2>2, <2>3
<1>8. Typed'
  BY <1>1, <1>7 DEF IInv, Typed, FedOK, PeerRec
<1>9. Bytes'
  <2>1. Len(out)' = Len(out) /\ Avail(st)' = Avail(st) /\ Unread' = rb'.len - rb'.pos
    BY <1>1 DEF Avail, Unread
  <2>2. Queues(rb', (Len(out) + Avail(st))') /\ (Len(out) + Avail(st) + Unread = peer.read)'
    BY <1>3, <1>7, <2>1 DEF FedOK
  <2>3. Follows(st, Len(out))'
    BY <1>1 DEF IInv, Bytes, Follows, Avail
  <2> QED BY <1>1, <2>2, <2>3 DEF IInv, Bytes
<1>10. SourceOK'
  BY <1>1, <1>7 DEF IInv, SourceOK, FedOK
<1>11. Nesting'
  BY <1>1 DEF Nesting, Alone, Depth
<1>12. Places'
  BY <1>1 DEF Places
<1> QED BY <1>8, <1>9, <1>10, <1>11, <1>12 DEF IInv
-----------------------------------------------------------------------------
(* Steps that replace or remove the top frame and leave the stream alone *)

\* Only the stack changes.
OnlyStack == UNCHANGED <<peer, rb, st, listeners, pc, timers, micro, bodies, out, touched>>

LEMMA StackStep ==
  ASSUME IInv, stack # <<>>, OnlyStack, stack' \in Seq(FrameRec), Nesting', Settled => Settled'
  PROVE  IInv'
<1>1. Typed'
  BY DEF IInv, Typed, OnlyStack
<1>2. Bytes'
  BY DEF IInv, Bytes, Follows, Queues, Avail, Unread, OnlyStack
<1>3. SourceOK'
  BY DEF IInv, SourceOK, SourceDone, OnlyStack
<1>4. Places'
  BY DEF IInv, Places, OnlyStack
<1> QED BY <1>1, <1>2, <1>3, <1>4 DEF IInv

\* The scalars that PumpOK reads
LEMMA SameScalars ==
  ASSUME OnlyStack
  PROVE  /\ Unread' = Unread /\ Avail(st)' = Avail(st) /\ SourceDone' = SourceDone
         /\ st' = st /\ rb' = rb /\ touched' = touched
BY DEF OnlyStack, Unread, Avail, SourceDone

\* What a step may do to the stream under the pumps on the stack
Moves ==
  /\ st.armed => st'.armed
  /\ st'.destroyed = st.destroyed /\ rb'.active = rb.active
  /\ st.ended => st'.ended
  /\ st.eofReadableFired => st'.eofReadableFired
  /\ Avail(st) \in Nat /\ Avail(st') \in Nat
  /\ Unread = 0 => Unread' = 0 /\ Avail(st') <= Avail(st)
  /\ SourceDone => SourceDone'

LEMMA SameMoves ==
  ASSUME IInv, OnlyStack
  PROVE  Moves
<1>1. Avail(st) \in Nat
  BY DEF IInv, Typed, StreamOK, StreamRec, Avail
<1> QED BY <1>1, SameScalars DEF Moves

LEMMA KeepFrame ==
  ASSUME Moves, NEW k, FrameOK(k), IsPump(stack[k]) => PumpOK(k), stack'[k] = stack[k],
         k < Depth' => stack[k].user
  PROVE  FrameOK(k)' /\ (IsPump(stack[k]) => PumpOK(k))'
<1>1. FrameOK(k)'
  BY DEF FrameOK, Moves
<1>2. ASSUME IsPump(stack[k]) PROVE PumpOK(k)'
  BY <1>2 DEF PumpOK, Moves
<1> QED BY <1>1, <1>2 DEF IsPump

\* The top frame is replaced by one of the same pump.
LEMMA ReplaceStep ==
  ASSUME IInv, stack # <<>>, OnlyStack, NEW f \in FrameRec, Replaced(stack', f), f.eof = Top.eof,
         f.user => f.at \in Dispatching \cup {"body"}, f.at = "body" => f.user,
         \/ f.at = Top.at
         \/ /\ IsPump(Top) /\ f.at \in {"flow", "finish"}
            /\ f.at = "flow" \/ (st.flowing /\ ~st.paused => Avail(st) = 0)
  PROVE  IInv'
<1>1. stack \in Seq(FrameRec) /\ Depth \in Nat /\ Depth >= 1 /\ Depth' = Depth
  BY TopLemma DEF IInv, Typed, Replaced, Depth
<1>2. /\ stack' \in Seq(FrameRec) /\ stack'[Depth] = f /\ Top = stack[Depth]
      /\ \A k \in 1..Depth : k # Depth => stack'[k] = stack[k]
  BY DEF Replaced, Top
<1>3. FrameOK(Depth) /\ (IsPump(Top) => PumpOK(Depth))
  BY <1>1, <1>2 DEF IInv, Nesting
<1>4. FrameOK(Depth)' /\ (IsPump(stack[Depth]) => PumpOK(Depth))'
  <2>1. FrameOK(Depth)'
    <3>1. f.at = "close" => st.destroyed
      BY <1>2, <1>3 DEF FrameOK
    <3>2. stack'[Depth'] = f /\ ~(Depth' < Depth') /\ st' = st
      BY <1>1, <1>2, SameScalars
    <3> QED BY <3>1, <3>2 DEF FrameOK
  <2>2. ASSUME IsPump(f) PROVE PumpOK(Depth)'
    <3>1. IsPump(Top)
      BY <2>2 DEF IsPump
    <3>2. stack'[Depth'] = f
      BY <1>1, <1>2
    <3>3. f.at = "data" => Top.at = "data"
      OBVIOUS
    <3>4. f.at = "end" => Top.at = "end"
      OBVIOUS
    <3> QED BY <1>2, <1>3, <3>1, <3>2, <3>3, <3>4, SameScalars DEF PumpOK
  <2> QED BY <1>1, <1>2, <2>1, <2>2 DEF IsPump
<1>5. \A k \in 1..Depth' : FrameOK(k)' /\ (IsPump(stack[k]) => PumpOK(k))'
  <2> TAKE k \in 1..Depth'
  <2>1. CASE k = Depth
    <3>1. k = Depth'
      BY <1>1, <2>1
    <3> QED BY <1>1, <1>4, <2>1, <3>1
  <2>2. CASE k # Depth
    <3>1. k \in 1..Depth /\ k < Depth /\ stack'[k] = stack[k]
      BY <1>1, <1>2, <2>2
    <3>2. FrameOK(k) /\ (IsPump(stack[k]) => PumpOK(k)) /\ stack[k].user
      BY <3>1 DEF IInv, Nesting, FrameOK
    <3> QED BY <3>1, <3>2, KeepFrame, SameMoves
  <2> QED BY <2>1, <2>2
<1>6. Alone'
  <2> SUFFICES ASSUME NEW k \in 1..Depth, NEW l \in 1..Depth, IsPump(stack'[k]),
                      stack'[k].at = stack'[l].at, stack'[k].at \in Dispatching
               PROVE  k = l
    BY <1>1 DEF Alone
  <2>1. f.at \in Dispatching => f.at = Top.at
    BY DEF Dispatching
  <2>2. \A m \in 1..Depth : stack'[m].at \in Dispatching => stack'[m].at = stack[m].at
    BY <1>2, <2>1
  <2>3. IsPump(stack[k]) /\ stack[k].at = stack[l].at /\ stack[k].at \in Dispatching
    BY <2>2 DEF IsPump
  <2> QED BY <2>3 DEF IInv, Nesting, Alone
<1>7. Nesting'
  BY <1>5, <1>6 DEF Nesting
<1>8. Settled => Settled'
  <2>1. CASE f.at = Top.at
    <3>1. \A m \in 1..Depth : stack'[m].at = stack[m].at
      BY <1>2, <2>1
    <3>2. \A S : AtSome(S) => AtSome(S)'
      BY <1>1, <3>1 DEF AtSome
    <3> QED BY <3>2, SameScalars DEF Settled
  <2>2. CASE f.at # Top.at /\ f.at = "flow"
    <3>1. AtSome({"readable", "flow"})' /\ AtSome({"readable", "flow", "data", "finish"})'
      BY <1>1, <1>2, <2>2 DEF AtSome
    <3> QED BY <3>1, SameScalars DEF Settled
  <2>3. CASE f.at # Top.at /\ f.at # "flow"
    <3>1. AtSome({"readable", "flow", "data", "finish"})'
      BY <1>1, <1>2, <2>3 DEF AtSome
    <3> QED BY <2>3, <3>1, SameScalars DEF Settled
  <2> QED BY <2>1, <2>2, <2>3
<1> QED BY <1>2, <1>7, <1>8, StackStep

\* The top frame is removed.
LEMMA PopStep ==
  ASSUME IInv, stack # <<>>, OnlyStack, stack' = Pop, Top.at \notin {"readable", "flow", "data"},
         Top.at = "finish" /\ Avail(st) = 0 /\ ~rb.active /\ ~st.destroyed => st.ended
  PROVE  IInv'
<1>1. stack \in Seq(FrameRec) /\ Depth \in Nat /\ Depth >= 1
  BY TopLemma DEF IInv, Typed
<1>2. stack' \in Seq(FrameRec) /\ Depth' = Depth - 1 /\ \A k \in 1..(Depth - 1) : stack'[k] = stack[k]
  BY <1>1, PopLemma DEF Depth
<1>3. \A k \in 1..Depth' : FrameOK(k)' /\ (IsPump(stack[k]) => PumpOK(k))'
  <2> TAKE k \in 1..Depth'
  <2>1. k \in 1..Depth /\ k < Depth /\ stack'[k] = stack[k]
    BY <1>1, <1>2
  <2>2. FrameOK(k) /\ (IsPump(stack[k]) => PumpOK(k)) /\ stack[k].user
    BY <2>1 DEF IInv, Nesting, FrameOK
  <2> QED BY <2>1, <2>2, KeepFrame, SameMoves
<1>4. Alone'
  <2> SUFFICES ASSUME NEW k \in 1..(Depth - 1), NEW l \in 1..(Depth - 1), IsPump(stack[k]),
                      stack[k].at = stack[l].at, stack[k].at \in Dispatching
               PROVE  k = l
    BY <1>2 DEF Alone
  <2>1. k \in 1..Depth /\ l \in 1..Depth
    BY <1>1
  <2> QED BY <2>1 DEF IInv, Nesting, Alone
<1>5. Nesting'
  BY <1>3, <1>4 DEF Nesting
<1>6. Settled => Settled'
  <2>1. \A S : AtSome(S) /\ Top.at \notin S => AtSome(S)'
    <3> SUFFICES ASSUME NEW S, NEW k \in 1..Depth, stack[k].at \in S, Top.at \notin S
                 PROVE  AtSome(S)'
      BY DEF AtSome
    <3>1. k # Depth
      BY DEF Top
    <3>2. k \in 1..Depth' /\ stack'[k].at \in S
      BY <1>1, <1>2, <3>1
    <3> QED BY <3>2 DEF AtSome
  <2>2. AtSome({"readable", "flow"}) => AtSome({"readable", "flow"})'
    BY <2>1
  <2>3. CASE Top.at # "finish"
    <3>1. AtSome({"readable", "flow", "data", "finish"}) => AtSome({"readable", "flow", "data", "finish"})'
      BY <2>1, <2>3
    <3> QED BY <2>2, <3>1, SameScalars DEF Settled
  <2>4. CASE Top.at = "finish"
    BY <2>2, <2>4, SameScalars DEF Settled
  <2> QED BY <2>3, <2>4
<1> QED BY <1>2, <1>5, <1>6, StackStep
-----------------------------------------------------------------------------
(* The steps of a pump *)

LEMMA CallListenerStep == ASSUME IInv, CallListener PROVE IInv'
<1>1. stack \in Seq(FrameRec) /\ stack # <<>> /\ ~Top.user /\ Top.at \in Dispatching /\ OnlyStack
  BY DEF IInv, Typed, CallListener, At, OnlyStack
<1>2. PICK f : f = [at |-> Top.at, i |-> Top.i + 1, eof |-> Top.eof, user |-> TRUE]
  OBVIOUS
<1>3. f \in FrameRec /\ f.at = Top.at /\ f.eof = Top.eof /\ f.user
  BY <1>1, <1>2, TopLemma DEF FrameRec
<1>4. stack' = [stack EXCEPT ![Depth] = f]
  <2>1. PICK u : u = Top
    OBVIOUS
  <2>2. u \in FrameRec /\ u = stack[Depth]
    BY <1>1, <2>1, TopLemma DEF Top
  <2>3. PICK v : v = [u EXCEPT !.i = u.i + 1]
    OBVIOUS
  <2>4. v \in FrameRec /\ v.at = u.at /\ v.eof = u.eof /\ v.i = u.i + 1
    BY <2>2, <2>3 DEF FrameRec
  <2>5. [v EXCEPT !.user = TRUE] = f
    <3>1. PICK w : w = [v EXCEPT !.user = TRUE]
      OBVIOUS
    <3>2. w \in FrameRec /\ w.at = u.at /\ w.eof = u.eof /\ w.i = u.i + 1 /\ w.user = TRUE
      BY <2>4, <3>1 DEF FrameRec
    <3>3. f.at = u.at /\ f.eof = u.eof /\ f.i = u.i + 1 /\ f.user = TRUE
      BY <1>2, <2>1
    <3>4. w = f
      BY <1>3, <3>2, <3>3 DEF FrameRec
    <3> QED BY <3>1, <3>4
  <2>6. Depth \in DOMAIN stack
    BY <1>1, TopLemma DEF Depth
  <2>7. stack' = [[stack EXCEPT ![Depth] = v] EXCEPT ![Depth] = f]
    BY <2>2, <2>3, <2>5, <2>6 DEF CallListener
  <2> QED BY <1>1, <2>6, <2>7
<1>5. Replaced(stack', f)
  BY <1>1, <1>3, <1>4, ReplacedLemma
<1> QED BY <1>1, <1>3, <1>5, ReplaceStep DEF Dispatching

\* What the provers need to know of the frame that Goto makes.
LEMMA GotoFrame ==
  ASSUME stack \in Seq(FrameRec), stack # <<>>, NEW a \in Stages
  PROVE  \E f \in FrameRec : Replaced(Goto(a), f) /\ f.at = a /\ f.eof = Top.eof /\ f.user = Top.user
<1>1. PICK f : f = [at |-> a, i |-> 0, eof |-> Top.eof, user |-> Top.user]
  OBVIOUS
<1>2. f \in FrameRec /\ f.at = a /\ f.eof = Top.eof /\ f.user = Top.user
  BY <1>1, TopLemma DEF FrameRec
<1> QED BY <1>1, <1>2, GotoLemma

LEMMA DispatchDoneStep == ASSUME IInv, DispatchDone PROVE IInv'
<1>1. stack \in Seq(FrameRec) /\ stack # <<>> /\ ~Top.user /\ Top.at \in Dispatching /\ OnlyStack
  BY DEF IInv, Typed, DispatchDone, At, OnlyStack
<1>2. CASE Top.at = "readable"
  <2>1. stack' = Goto("flow")
    BY <1>2 DEF DispatchDone
  <2>2. PICK f \in FrameRec : Replaced(Goto("flow"), f) /\ f.at = "flow" /\ f.eof = Top.eof /\ f.user = Top.user
    BY <1>1, GotoFrame DEF Stages
  <2> QED BY <1>1, <1>2, <2>1, <2>2, ReplaceStep DEF IsPump
<1>3. CASE Top.at = "data"
  <2>1. stack' = Goto("finish")
    BY <1>3 DEF DispatchDone
  <2>2. PICK f \in FrameRec : Replaced(Goto("finish"), f) /\ f.at = "finish" /\ f.eof = Top.eof /\ f.user = Top.user
    BY <1>1, GotoFrame DEF Stages
  <2>3. Avail(st) = 0
    <3>1. Depth \in 1..Depth /\ IsPump(stack[Depth])
      BY <1>1, <1>3, TopLemma DEF IsPump, Top
    <3> QED BY <1>3, <3>1 DEF IInv, Nesting, PumpOK, Top
  <2> QED BY <1>1, <1>3, <2>1, <2>2, <2>3, ReplaceStep DEF IsPump
<1>4. CASE Top.at \in {"end", "close"}
  <2>1. stack' = Pop
    BY <1>4 DEF DispatchDone
  <2> QED BY <1>1, <1>4, <2>1, PopStep
<1> QED BY <1>1, <1>2, <1>3, <1>4 DEF Dispatching

LEMMA ReturnStep == ASSUME IInv, Return PROVE IInv'
<1>1. stack \in Seq(FrameRec) /\ stack # <<>> /\ Top.user /\ OnlyStack
  BY DEF IInv, Typed, Return, InUserCode, OnlyStack
<1>2. CASE Top.at = "body"
  <2>1. stack' = Pop
    BY <1>2 DEF Return
  <2> QED BY <1>1, <1>2, <2>1, PopStep
<1>3. CASE Top.at # "body"
  <2>1. PICK f : f = [Top EXCEPT !.user = FALSE]
    OBVIOUS
  <2>2. f \in FrameRec /\ f.at = Top.at /\ f.eof = Top.eof /\ ~f.user
    BY <1>1, <2>1, TopLemma DEF FrameRec
  <2>3. stack' = [stack EXCEPT ![Depth] = f]
    BY <1>1, <1>3, <2>1, TopLemma DEF Return, Top, Depth
  <2>4. Replaced(stack', f)
    BY <1>1, <2>2, <2>3, ReplacedLemma
  <2> QED BY <1>1, <1>3, <2>2, <2>4, ReplaceStep
<1> QED BY <1>2, <1>3

\* A step of the top pump that changes the stream
LEMMA PumpMoves ==
  ASSUME IInv, stack # <<>>, Moves, NEW f \in FrameRec, Replaced(stack', f), IsPump(Top),
         f.eof = Top.eof, f.user = Top.user, ~Top.user,
         f.at \in {"data", "end"}, ~AtSome({f.at}), Avail(st') = 0, f.at = "end" => st'.ended
  PROVE  Nesting'
<1>1. stack \in Seq(FrameRec) /\ Depth \in Nat /\ Depth >= 1 /\ Depth' = Depth
  BY TopLemma DEF IInv, Typed, Replaced, Depth
<1>2. /\ stack' \in Seq(FrameRec) /\ stack'[Depth] = f /\ Top = stack[Depth]
      /\ \A k \in 1..Depth : k # Depth => stack'[k] = stack[k]
  BY DEF Replaced, Top
<1>3. PumpOK(Depth)
  BY <1>1, <1>2 DEF IInv, Nesting
<1>4. FrameOK(Depth)' /\ PumpOK(Depth)'
  <2>1. stack'[Depth'] = f /\ ~(Depth' < Depth')
    BY <1>1, <1>2
  <2>2. FrameOK(Depth)'
    BY <2>1 DEF FrameOK
  <2>3. PumpOK(Depth)'
    BY <1>2, <1>3, <2>1 DEF PumpOK, Moves
  <2> QED BY <2>2, <2>3
<1>5. \A k \in 1..Depth' : FrameOK(k)' /\ (IsPump(stack[k]) => PumpOK(k))'
  <2> TAKE k \in 1..Depth'
  <2>1. CASE k = Depth
    <3>1. k = Depth'
      BY <1>1, <2>1
    <3> QED BY <1>1, <1>4, <2>1, <3>1
  <2>2. CASE k # Depth
    <3>1. k \in 1..Depth /\ k < Depth /\ stack'[k] = stack[k]
      BY <1>1, <1>2, <2>2
    <3>2. FrameOK(k) /\ (IsPump(stack[k]) => PumpOK(k)) /\ stack[k].user
      BY <3>1 DEF IInv, Nesting, FrameOK
    <3> QED BY <3>1, <3>2, KeepFrame
  <2> QED BY <2>1, <2>2
<1>6. Alone'
  <2> SUFFICES ASSUME NEW k \in 1..Depth, NEW l \in 1..Depth, IsPump(stack'[k]),
                      stack'[k].at = stack'[l].at, stack'[k].at \in Dispatching
               PROVE  k = l
    BY <1>1 DEF Alone
  <2>1. \A m \in 1..Depth : stack[m].at # f.at
    BY DEF AtSome
  <2>2. CASE k = Depth \/ l = Depth
    BY <1>2, <2>1, <2>2
  <2>3. CASE k # Depth /\ l # Depth
    <3>1. IsPump(stack[k]) /\ stack[k].at = stack[l].at /\ stack[k].at \in Dispatching
      BY <1>2, <2>3
    <3> QED BY <3>1 DEF IInv, Nesting, Alone
  <2> QED BY <2>2, <2>3
<1> QED BY <1>5, <1>6 DEF Nesting

LEMMA FlowStep == ASSUME IInv, StdinAssumption, Flow PROVE IInv'
<1>1. /\ stack \in Seq(FrameRec) /\ stack # <<>> /\ ~Top.user /\ Top.at = "flow"
      /\ StreamOK(st) /\ out \in Seq(Nat)
  BY DEF IInv, Typed, Flow, At
<1>2. CASE st.flowing /\ ~st.paused /\ Avail(st) > 0
  <2>1. /\ out' = out \o Slice(st, Avail(st)) /\ st' = Emptied(st) /\ stack' = Goto("data")
        /\ UNCHANGED <<peer, rb, listeners, pc, timers, micro, bodies, touched>>
    BY <1>2 DEF Flow
  <2>2. PICK f \in FrameRec : Replaced(stack', f) /\ f.at = "data" /\ f.eof = Top.eof /\ f.user = Top.user
    BY <1>1, <2>1, GotoFrame DEF Stages, Dispatching
  <2>3. StreamOK(st') /\ Avail(st') = 0 /\ Alike(st, st')
    BY <1>1, <2>1, EmptiedLemma
  <2>4. PICK n \in Nat : n = Avail(st)
    BY <1>1 DEF StreamOK, StreamRec, Avail
  <2>5. out' \in Seq(Nat) /\ Len(out') = Len(out) + n /\ \A k \in 1..Len(out') : out'[k] = k
    <3>1. (\A k \in 1..Len(out) : out[k] = k) /\ Follows(st, Len(out)) /\ n <= Avail(st)
      BY <2>4 DEF IInv, Bytes
    <3>2. PICK o : o = out \o Slice(st, n)
      OBVIOUS
    <3>3. o \in Seq(Nat) /\ Len(o) = Len(out) + n /\ \A k \in 1..Len(o) : o[k] = k
      BY <1>1, <3>1, <3>2, OutLemma
    <3>4. out' = o
      BY <2>1, <2>4, <3>2
    <3> QED BY <3>3, <3>4
  <2>6. Depth \in Nat /\ Depth >= 1 /\ IsPump(Top)
    BY <1>1, TopLemma DEF IsPump
  <2>7. Unread = 0 /\ Unread' = 0
    <3>1. PumpOK(Depth)
      BY <2>6 DEF IInv, Nesting, Top
    <3> QED BY <2>1, <3>1 DEF PumpOK, Unread
  <2>8. Moves
    BY <2>1, <2>3, <2>4, <2>7 DEF Moves, Alike, SourceDone
  <2>9. ~AtSome({"data"})
    BY <1>2 DEF IInv, Nesting, AtSome, PumpOK, IsPump
  <2>10. Nesting'
    BY <1>1, <2>2, <2>3, <2>6, <2>8, <2>9, PumpMoves
  <2>11. Typed'
    BY <2>1, <2>2, <2>3, <2>5 DEF IInv, Typed, Replaced
  <2>12. Bytes'
    <3>1. Follows(st, Len(out))'
      BY <2>3 DEF Follows
    <3>2. Queues(rb, Len(out) + Avail(st))'
      BY <2>1, <2>7 DEF Queues, Unread, IInv, Typed, ReactorOK
    <3>3. (Len(out) + Avail(st) + Unread = peer.read)'
      BY <1>1, <2>1, <2>3, <2>4, <2>5, <2>7 DEF IInv, Bytes
    <3> QED BY <2>5, <3>1, <3>2, <3>3 DEF Bytes
  <2>13. SourceOK'
    <3>1. st.ended => peer.failed
      <4>1. peer.read <= peer.written /\ peer.read \in Nat /\ peer.written \in Nat
        BY DEF IInv, Typed, StdinAssumption
      <4>2. Len(out) \in Nat /\ Len(out) + n = peer.read /\ n > 0
        BY <1>1, <1>2, <2>4, <2>7 DEF IInv, Bytes
      <4>3. Len(out) # peer.written
        BY <4>1, <4>2
      <4> QED BY <4>3 DEF IInv, SourceOK
    <3> QED BY <2>1, <2>3, <3>1 DEF IInv, SourceOK, SourceDone, Alike
  <2>14. Places'
    <3>1. pc # "exit"
      BY <1>1 DEF IInv, Places
    <3>2. AtSome({"readable", "flow", "data", "finish"})'
      BY <2>2, <2>6 DEF AtSome, Replaced, Depth
    <3> QED BY <2>1, <2>3, <2>7, <3>1, <3>2 DEF Places, Settled
  <2> QED BY <2>10, <2>11, <2>12, <2>13, <2>14 DEF IInv
<1>3. CASE ~(st.flowing /\ ~st.paused /\ Avail(st) > 0)
  <2>1. stack' = Goto("finish") /\ OnlyStack
    BY <1>3 DEF Flow, OnlyStack
  <2>2. PICK f \in FrameRec : Replaced(stack', f) /\ f.at = "finish" /\ f.eof = Top.eof /\ f.user = Top.user
    BY <1>1, <2>1, GotoFrame DEF Stages
  <2>3. st.flowing /\ ~st.paused => Avail(st) = 0
    BY <1>1, <1>3 DEF StreamOK, StreamRec, Avail
  <2> QED BY <1>1, <2>1, <2>2, <2>3, ReplaceStep DEF IsPump
<1> QED BY <1>2, <1>3

LEMMA FinishStep == ASSUME IInv, StdinAssumption, Finish PROVE IInv'
<1>1. /\ stack \in Seq(FrameRec) /\ stack # <<>> /\ ~Top.user /\ Top.at = "finish"
      /\ StreamOK(st) /\ out \in Seq(Nat)
  BY DEF IInv, Typed, Finish, At
<1>2. Depth \in Nat /\ Depth >= 1 /\ IsPump(Top) /\ PumpOK(Depth) /\ Top = stack[Depth]
  <2>1. Depth \in Nat /\ Depth >= 1 /\ IsPump(Top)
    BY <1>1, TopLemma DEF IsPump
  <2> QED BY <2>1 DEF IInv, Nesting, Top
<1>3. CASE Top.eof /\ Avail(st) = 0 /\ ~st.ended
  <2>1. /\ st' = [st EXCEPT !.ended = TRUE] /\ stack' = Goto("end")
        /\ UNCHANGED <<peer, rb, listeners, pc, timers, micro, bodies, out, touched>>
    BY <1>3 DEF Finish
  <2>2. PICK f \in FrameRec : Replaced(stack', f) /\ f.at = "end" /\ f.eof = Top.eof /\ f.user = Top.user
    BY <1>1, <2>1, GotoFrame DEF Stages, Dispatching
  <2>3. /\ st' \in StreamRec /\ st'.buf = st.buf /\ st'.head = st.head /\ st'.tail = st.tail
        /\ st'.armed = st.armed /\ st'.destroyed = st.destroyed /\ st'.ended
        /\ st'.eofReadableFired = st.eofReadableFired
        /\ st'.flowing = st.flowing /\ st'.paused = st.paused
    BY <1>1, <2>1 DEF StreamOK, StreamRec
  <2>4. StreamOK(st') /\ Avail(st') = Avail(st) /\ Avail(st) = 0
    BY <1>1, <1>3, <2>3 DEF StreamOK, Avail
  <2>5. Unread = 0 /\ Unread' = 0 /\ SourceDone
    BY <1>2, <1>3, <2>1 DEF PumpOK, Unread
  <2>6. Moves
    BY <2>1, <2>3, <2>4, <2>5 DEF Moves, SourceDone
  <2>7. ~AtSome({"end"})
    BY <1>3 DEF IInv, Nesting, AtSome, PumpOK, IsPump
  <2>8. Nesting'
    BY <1>1, <1>2, <2>2, <2>3, <2>4, <2>6, <2>7, PumpMoves
  <2>9. Typed'
    BY <2>1, <2>2, <2>4 DEF IInv, Typed, Replaced
  <2>10. Bytes'
    BY <2>1, <2>3, <2>4, <2>5 DEF IInv, Bytes, Follows, Queues, Avail, Unread
  <2>11. SourceOK'
    <3>1. Len(out) \in Nat
      BY <1>1
    <3>2. Len(out) = peer.read
      BY <2>4, <2>5, <3>1 DEF IInv, Bytes
    <3> QED BY <2>1, <2>5, <3>2 DEF SourceOK, SourceDone
  <2>12. Places'
    <3>1. pc # "exit"
      BY <1>1 DEF IInv, Places
    <3> QED BY <2>1, <2>3, <2>4, <2>5, <3>1 DEF Places, Settled
  <2> QED BY <2>8, <2>9, <2>10, <2>11, <2>12 DEF IInv
<1>4. CASE ~(Top.eof /\ Avail(st) = 0 /\ ~st.ended)
  <2>1. stack' = Pop /\ OnlyStack
    BY <1>4 DEF Finish, OnlyStack
  <2>2. Avail(st) = 0 /\ ~rb.active /\ ~st.destroyed => st.ended
    BY <1>2, <1>4 DEF PumpOK
  <2> QED BY <1>1, <2>1, <2>2, PopStep
<1> QED BY <1>3, <1>4
-----------------------------------------------------------------------------
(* The calls of user code *)

LEMMA UserNesting ==
  ASSUME IInv, Moves, stack' = stack
  PROVE  Nesting'
<1>1. Depth' = Depth
  BY DEF Depth
<1>2. \A k \in 1..Depth' : FrameOK(k)' /\ (IsPump(stack[k]) => PumpOK(k))'
  <2> TAKE k \in 1..Depth'
  <2>1. FrameOK(k) /\ (IsPump(stack[k]) => PumpOK(k)) /\ stack'[k] = stack[k]
    BY <1>1 DEF IInv, Nesting
  <2>2. k < Depth' => stack[k].user
    BY <1>1, <2>1 DEF FrameOK
  <2> QED BY <2>1, <2>2, KeepFrame
<1>3. Alone'
  BY <1>1 DEF IInv, Nesting, Alone
<1> QED BY <1>2, <1>3 DEF Nesting

\* User code runs in a body, in the dispatch of a pump, or after destroy().
LEMMA UserTop ==
  ASSUME IInv, InUserCode
  PROVE  /\ stack \in Seq(FrameRec) /\ stack # <<>> /\ Depth \in Nat /\ Depth >= 1 /\ pc # "exit"
         /\ Top = stack[Depth] /\ Top.user
         /\ \/ Top.at = "body"
            \/ Top.at = "close" /\ st.destroyed
            \/ Top.at \in {"readable", "data", "end"} /\ PumpOK(Depth)
<1>1. stack \in Seq(FrameRec) /\ stack # <<>> /\ Top.user /\ Top = stack[Depth]
  BY DEF IInv, Typed, InUserCode, Top
<1>2. Depth \in Nat /\ Depth >= 1
  BY <1>1, TopLemma
<1>3. pc # "exit"
  BY <1>1 DEF IInv, Places
<1>4. FrameOK(Depth) /\ (IsPump(Top) => PumpOK(Depth))
  BY <1>1, <1>2 DEF IInv, Nesting
<1>5. Top.at \in Dispatching \cup {"body"} /\ (Top.at = "close" => st.destroyed)
  BY <1>1, <1>4 DEF FrameOK
<1> QED BY <1>1, <1>2, <1>3, <1>4, <1>5 DEF Dispatching, IsPump

\* A call that uses the stream spoils what the last pump has left, unless a pump
\* is still to look at it.
LEMMA UserSettled ==
  ASSUME IInv, InUserCode, Touch, Moves, stack' = stack
  PROVE  Settled'
<1>1. CASE Top.at = "body"
  BY <1>1 DEF Touch, Settled
<1>2. CASE Top.at = "close" /\ st.destroyed
  BY <1>2 DEF Moves, Settled
<1>3. CASE Top.at \in {"readable", "data", "end"} /\ PumpOK(Depth)
  <2>1. Unread' = 0 /\ Avail(st') <= Avail(st) /\ Avail(st) \in Nat /\ Avail(st') \in Nat
    BY <1>3 DEF PumpOK, Moves
  <2>2. Depth \in 1..Depth' /\ stack'[Depth] = Top
    BY UserTop DEF Depth, Top
  <2>3. CASE Top.at = "readable"
    <3>1. AtSome({"readable", "flow"})' /\ AtSome({"readable", "flow", "data", "finish"})'
      BY <2>2, <2>3 DEF AtSome
    <3> QED BY <2>1, <3>1 DEF Settled
  <2>4. CASE Top.at = "data"
    <3>1. AtSome({"readable", "flow", "data", "finish"})'
      BY <2>2, <2>4 DEF AtSome
    <3>2. Avail(st)' = 0
      BY <1>3, <2>1, <2>4, UserTop DEF PumpOK
    <3> QED BY <2>1, <3>1, <3>2 DEF Settled
  <2>5. CASE Top.at = "end"
    <3>1. Avail(st)' = 0 /\ st'.ended
      BY <1>3, <2>1, <2>5, UserTop DEF PumpOK, Moves
    <3> QED BY <2>1, <3>1 DEF Settled
  <2> QED BY <1>3, <2>3, <2>4, <2>5
<1> QED BY <1>1, <1>2, <1>3, UserTop

\* Calls that do not use the stream
LEMMA QuietStep ==
  ASSUME IInv, StdinAssumption, SetTimer \/ QueueMicrotask
  PROVE  IInv'
<1>1. UNCHANGED <<peer, rb, st, listeners, stack, pc, out, touched>>
  BY DEF SetTimer, QueueMicrotask
<1>2. timers \in Nat /\ micro \in Nat /\ bodies \in Nat /\ timers + micro <= bodies /\ bodies <= MaxBodies
  BY DEF IInv, Typed
<1>3. /\ timers' \in Nat /\ micro' \in Nat /\ bodies' \in Nat /\ timers' + micro' <= bodies'
      /\ bodies' <= MaxBodies
  <2>1. CASE SetTimer
    BY <1>2, <2>1 DEF SetTimer, StdinAssumption
  <2>2. CASE QueueMicrotask
    BY <1>2, <2>2 DEF QueueMicrotask, StdinAssumption
  <2> QED BY <2>1, <2>2
<1>4. Typed'
  BY <1>1, <1>3 DEF IInv, Typed
<1>5. Bytes'
  BY <1>1 DEF IInv, Bytes, Follows, Queues, Avail, Unread
<1>6. SourceOK'
  BY <1>1 DEF IInv, SourceOK, SourceDone
<1>7. Moves
  <2>1. Avail(st) \in Nat
    BY DEF IInv, Typed, StreamOK, StreamRec, Avail
  <2> QED BY <1>1, <2>1 DEF Moves, SourceDone, Unread
<1>8. Nesting'
  BY <1>1, <1>7, UserNesting
<1>9. Places'
  BY <1>1 DEF IInv, Places, Settled, AtSome, Avail, Unread, Depth
<1> QED BY <1>4, <1>5, <1>6, <1>8, <1>9 DEF IInv

\* on() and pause() change flags of the stream only.
FlagsOnly ==
  /\ st' \in StreamRec /\ st'.buf = st.buf /\ st'.head = st.head /\ st'.tail = st.tail
  /\ (st.armed => st'.armed) /\ st'.destroyed = st.destroyed /\ st'.ended = st.ended
  /\ st'.eofReadableFired = st.eofReadableFired

LEMMA FlagsStep ==
  ASSUME IInv, InUserCode, FlagsOnly, listeners' \in [Dispatching -> 0..MaxListeners],
         touched' \in BOOLEAN, UNCHANGED <<peer, rb, stack, pc, timers, micro, bodies, out>>,
         Moves => (Settled => Settled')
  PROVE  IInv'
<1>1. StreamOK(st) /\ StreamOK(st') /\ Avail(st') = Avail(st) /\ Avail(st) \in Nat
  BY DEF IInv, Typed, StreamOK, StreamRec, Avail, FlagsOnly
<1>2. Typed'
  BY <1>1 DEF IInv, Typed
<1>3. Bytes'
  BY DEF IInv, Bytes, Follows, Queues, Avail, Unread, FlagsOnly
<1>4. SourceOK'
  BY DEF IInv, SourceOK, SourceDone, FlagsOnly
<1>5. Moves
  BY <1>1 DEF Moves, SourceDone, Unread, FlagsOnly
<1>6. Nesting'
  BY <1>5, UserNesting
<1>7. Places'
  BY <1>5, UserTop DEF IInv, Places
<1> QED BY <1>2, <1>3, <1>4, <1>6, <1>7 DEF IInv

LEMMA PauseStep == ASSUME IInv, Pause PROVE IInv'
<1>1. st \in StreamRec
  BY DEF IInv, Typed, StreamOK
<1>2. /\ InUserCode /\ st' = [st EXCEPT !.paused = TRUE]
      /\ UNCHANGED <<peer, rb, listeners, stack, pc, timers, micro, bodies, out, touched>>
  BY DEF Pause
<1>3. FlagsOnly /\ st'.paused /\ st'.armed = st.armed
  BY <1>1, <1>2 DEF FlagsOnly, StreamRec
<1>4. Settled => Settled'
  <2>1. Unread' = Unread /\ Avail(st)' = Avail(st) /\ Depth' = Depth
    BY <1>2, <1>3 DEF Unread, Avail, FlagsOnly, Depth
  <2>2. \A S : AtSome(S)' <=> AtSome(S)
    BY <1>2, <2>1 DEF AtSome
  <2> QED BY <1>2, <1>3, <2>1, <2>2 DEF Settled, FlagsOnly
<1>5. listeners' \in [Dispatching -> 0..MaxListeners] /\ touched' \in BOOLEAN
  BY <1>2 DEF IInv, Typed
<1> QED BY <1>2, <1>3, <1>4, <1>5, FlagsStep

LEMMA OnStep ==
  ASSUME IInv, StdinAssumption, NEW e \in Dispatching, On(e)
  PROVE  IInv'
<1>1. st \in StreamRec /\ listeners \in [Dispatching -> 0..MaxListeners] /\ touched \in BOOLEAN
  BY DEF IInv, Typed, StreamOK
<1>2. /\ InUserCode /\ listeners[e] < MaxListeners /\ listeners' = [listeners EXCEPT ![e] = @ + 1]
      /\ st' = [st EXCEPT !.flowing = @ \/ e = "data", !.armed = @ \/ e # "close"] /\ Touch
      /\ UNCHANGED <<peer, rb, stack, pc, timers, micro, bodies, out>>
  BY DEF On
<1>3. FlagsOnly
  <2>1. PICK a \in BOOLEAN : a = (st.armed \/ e # "close")
    OBVIOUS
  <2>2. PICK b \in BOOLEAN : b = (st.flowing \/ e = "data")
    OBVIOUS
  <2>3. PICK u : u = [st EXCEPT !.flowing = b]
    OBVIOUS
  <2>4. /\ u \in StreamRec /\ u.buf = st.buf /\ u.head = st.head /\ u.tail = st.tail
        /\ u.destroyed = st.destroyed /\ u.ended = st.ended /\ u.armed = st.armed
        /\ u.eofReadableFired = st.eofReadableFired
    BY <1>1, <2>3 DEF StreamRec
  <2>5. st' = [u EXCEPT !.armed = a]
    BY <1>1, <1>2, <2>1, <2>2, <2>3, <2>4 DEF StreamRec
  <2> QED BY <2>1, <2>4, <2>5 DEF StreamRec, FlagsOnly
<1>4. listeners' \in [Dispatching -> 0..MaxListeners]
  <2>1. listeners[e] + 1 \in 0..MaxListeners
    BY <1>1, <1>2 DEF StdinAssumption
  <2> QED BY <1>1, <1>2, <2>1
<1>5. touched' \in BOOLEAN
  BY <1>1, <1>2 DEF Touch
<1>6. Moves => Settled'
  BY <1>2, UserSettled
<1> QED BY <1>2, <1>3, <1>4, <1>5, <1>6, FlagsStep

\* read(size) hands out at most what there is.
LEMMA ReadCountLemma ==
  ASSUME StdinAssumption, NEW d, StreamOK(d), NEW size \in ReadSizes \cup {AllSizes}
  PROVE  ReadCount(d, size) \in Nat /\ ReadCount(d, size) <= Avail(d)
<1>1. PICK m \in Nat : m = Avail(d)
  BY DEF StreamOK, StreamRec, Avail
<1>2. size = AllSizes \/ size \in Nat
  BY DEF StdinAssumption
<1>3. CASE size = AllSizes
  BY <1>1, <1>3 DEF ReadCount
<1>4. CASE size # AllSizes /\ m < size
  BY <1>1, <1>4 DEF ReadCount
<1>5. CASE size # AllSizes /\ ~(m < size)
  <2>1. ReadCount(d, size) = size
    BY <1>1, <1>5 DEF ReadCount
  <2> QED BY <1>1, <1>2, <1>5, <2>1
<1> QED BY <1>3, <1>4, <1>5

LEMMA ReadStep ==
  ASSUME IInv, StdinAssumption, NEW size \in ReadSizes \cup {AllSizes}, Read(size)
  PROVE  IInv'
<1>1. /\ InUserCode /\ Touch
      /\ UNCHANGED <<peer, listeners, stack, pc, timers, micro, bodies>>
  BY DEF Read
<1>2. StreamOK(st) /\ ReactorOK(rb) /\ out \in Seq(Nat)
  BY DEF IInv, Typed
<1>3. PICK g \in Nat : g = Len(out)
  BY <1>2
<1>4. PICK m \in Nat, w \in Nat : m = Avail(st) /\ w = Unread
  <2>1. Avail(st) \in Nat
    BY <1>2 DEF StreamOK, StreamRec, Avail
  <2>2. Unread \in Nat
    BY <1>2 DEF ReactorOK, Unread
  <2> QED BY <2>1, <2>2
<1>5. /\ \A k \in 1..Len(out) : out[k] = k
      /\ Follows(st, g) /\ Queues(rb, g + m) /\ g + m + w = peer.read
  BY <1>3, <1>4 DEF IInv, Bytes
<1>6. PICK d : d = DrainBytes(st)
  OBVIOUS
<1>7. StreamOK(d) /\ Follows(d, g) /\ Alike(st, d) /\ Avail(d) = m + w
  BY <1>2, <1>4, <1>5, <1>6, DrainLemma
<1>8. PICK n \in Nat : n = ReadCount(d, size) /\ n <= m + w
  BY <1>7, ReadCountLemma
<1>9. /\ rb' = AllTaken /\ st' = (IF n = 0 THEN d ELSE Taken(d, n)) /\ out' = out \o Slice(d, n)
  BY <1>6, <1>8 DEF Read
<1>10. StreamOK(st') /\ Follows(st', g + n) /\ Alike(st, st') /\ Avail(st') = m + w - n
  <2>1. CASE n = 0
    BY <1>7, <1>9, <2>1
  <2>2. CASE n # 0
    <3>1. StreamOK(st') /\ Follows(st', g + n) /\ Alike(d, st') /\ Avail(st') = m + w - n
      BY <1>7, <1>8, <1>9, <2>2, TakenLemma
    <3> QED BY <1>7, <3>1 DEF Alike
  <2> QED BY <2>1, <2>2
<1>11. out' \in Seq(Nat) /\ Len(out') = g + n /\ \A k \in 1..Len(out') : out'[k] = k
  <2>1. PICK o : o = out \o Slice(d, n)
    OBVIOUS
  <2>2. Follows(d, Len(out)) /\ n <= Avail(d)
    BY <1>3, <1>7, <1>8
  <2>3. o \in Seq(Nat) /\ Len(o) = Len(out) + n /\ \A k \in 1..Len(o) : o[k] = k
    BY <1>2, <1>5, <1>7, <2>1, <2>2, OutLemma
  <2> QED BY <1>3, <1>9, <2>1, <2>3
<1>12. ReactorOK(rb') /\ rb'.len = rb'.pos /\ rb'.active = rb.active
  BY <1>2, <1>9, AllTakenLemma
<1>13. Unread' = 0 /\ rb'.len - rb'.pos = 0
  BY <1>12 DEF Unread, ReactorOK, StdinAssumption
<1>14. touched' \in BOOLEAN
  BY <1>1 DEF Touch, IInv, Typed
<1>15. Typed'
  BY <1>1, <1>10, <1>11, <1>12, <1>14 DEF IInv, Typed
<1>16. Bytes'
  <2>1. Follows(st', Len(out')) /\ Len(out') + Avail(st') + Unread' = peer'.read
    <3>1. Follows(st', Len(out'))
      BY <1>10, <1>11
    <3>2. (g + n) + (m + w - n) + 0 = g + m + w
      OBVIOUS
    <3> QED BY <1>1, <1>5, <1>10, <1>11, <1>13, <3>1, <3>2
  <2>2. Queues(rb, Len(out) + Avail(st))'
    BY <1>13 DEF Queues
  <2> QED BY <1>11, <2>1, <2>2 DEF Bytes, Follows, Avail
<1>17. SourceOK'
  <2>1. peer.read <= peer.written /\ peer.read \in Nat /\ peer.written \in Nat
    BY DEF IInv, Typed, StdinAssumption
  <2>2. g = peer.written => g + n = peer.written
    <3>1. PICK r \in Nat, t \in Nat : r = peer.read /\ t = peer.written
      BY <2>1
    <3>2. g + m + w = r /\ r <= t /\ n <= m + w
      BY <1>5, <1>8, <2>1, <3>1
    <3>3. g = t => g + n = t
      BY <3>2
    <3> QED BY <3>1, <3>3
  <2> QED BY <1>1, <1>3, <1>10, <1>11, <1>12, <2>2 DEF IInv, SourceOK, SourceDone, Alike
<1>18. Moves
  <2>1. Avail(st') \in Nat /\ (w = 0 => Avail(st') <= m)
    BY <1>8, <1>10
  <2> QED BY <1>1, <1>4, <1>10, <1>12, <1>13, <2>1 DEF Moves, Alike, SourceDone
<1>19. Nesting'
  BY <1>1, <1>18, UserNesting
<1>20. Places'
  BY <1>1, <1>18, UserSettled, UserTop DEF Places
<1> QED BY <1>15, <1>16, <1>17, <1>19, <1>20 DEF IInv

\* destroy() ends the subscription and dispatches 'close'.
LEMMA DestroyStep == ASSUME IInv, StdinAssumption, Destroy PROVE IInv'
<1>1. /\ InUserCode /\ st' = [st EXCEPT !.destroyed = TRUE] /\ rb' = [rb EXCEPT !.active = FALSE]
      /\ stack' = Append(stack, Frame("close", FALSE))
      /\ UNCHANGED <<peer, listeners, pc, timers, micro, bodies, out, touched>>
  BY DEF Destroy
<1>2. StreamOK(st) /\ ReactorOK(rb) /\ stack \in Seq(FrameRec)
  BY DEF IInv, Typed
<1>3. /\ st' \in StreamRec /\ st'.buf = st.buf /\ st'.head = st.head /\ st'.tail = st.tail
      /\ st'.armed = st.armed /\ st'.destroyed /\ st'.ended = st.ended
  BY <1>1, <1>2 DEF StreamOK, StreamRec
<1>4. StreamOK(st') /\ Avail(st') = Avail(st)
  BY <1>2, <1>3 DEF StreamOK, Avail
<1>5. ReactorOK(rb') /\ rb'.len = rb.len /\ rb'.pos = rb.pos /\ rb'.mem = rb.mem
  BY <1>1, <1>2 DEF ReactorOK
<1>6. PICK f : f = Frame("close", FALSE)
  OBVIOUS
<1>7. f \in FrameRec /\ f.at = "close" /\ ~f.user
  BY <1>6, FrameLemma DEF Stages, Dispatching
<1>8. Depth \in Nat /\ Depth >= 1 /\ Top.user /\ Top = stack[Depth] /\ pc # "exit"
  BY UserTop, <1>1
<1>9. /\ stack' \in Seq(FrameRec) /\ Depth' = Depth + 1 /\ stack'[Depth + 1] = f
      /\ \A k \in 1..Depth : stack'[k] = stack[k]
  <2>1. stack' = Append(stack, f)
    BY <1>1, <1>6, Zenon
  <2> QED BY <1>2, <1>7, <2>1, PushLemma DEF Depth
<1>10. Typed'
  BY <1>1, <1>4, <1>5, <1>9 DEF IInv, Typed
<1>11. Bytes'
  BY <1>1, <1>3, <1>4, <1>5 DEF IInv, Bytes, Follows, Queues, Avail, Unread
<1>12. SourceOK'
  BY <1>1, <1>3 DEF IInv, SourceOK
<1>13. \A k \in 1..Depth' : FrameOK(k)' /\ (IsPump(stack[k]) => PumpOK(k))'
  <2> TAKE k \in 1..Depth'
  <2>1. CASE k = Depth + 1
    <3>1. stack'[k] = f /\ ~(k < Depth')
      BY <1>8, <1>9, <2>1
    <3> QED BY <1>3, <1>7, <3>1 DEF FrameOK, IsPump
  <2>2. CASE k # Depth + 1
    <3>1. k \in 1..Depth /\ stack'[k] = stack[k]
      BY <1>8, <1>9, <2>2
    <3>2. FrameOK(k) /\ (IsPump(stack[k]) => PumpOK(k)) /\ stack[k].user
      BY <1>8, <3>1 DEF IInv, Nesting, FrameOK
    <3>3. FrameOK(k)'
      BY <1>3, <3>1, <3>2 DEF FrameOK
    <3>4. ASSUME IsPump(stack[k]) PROVE PumpOK(k)'
      <4>1. Unread' = Unread /\ SourceDone' = SourceDone
        BY <1>1, <1>5 DEF Unread, SourceDone
      <4> QED BY <1>3, <1>4, <3>1, <3>2, <3>4, <4>1 DEF PumpOK
    <3> QED BY <3>1, <3>3, <3>4 DEF IsPump
  <2> QED BY <2>1, <2>2
<1>14. Alone'
  <2> SUFFICES ASSUME NEW k \in 1..Depth', NEW l \in 1..Depth', IsPump(stack'[k]),
                      stack'[k].at = stack'[l].at, stack'[k].at \in Dispatching
               PROVE  k = l
    BY DEF Alone
  <2>1. k # Depth + 1 /\ l # Depth + 1
    BY <1>7, <1>9 DEF IsPump
  <2>2. k \in 1..Depth /\ l \in 1..Depth
    BY <1>8, <1>9, <2>1
  <2> QED BY <1>9, <2>2 DEF IInv, Nesting, Alone
<1>15. Nesting'
  BY <1>13, <1>14 DEF Nesting
<1>16. Places'
  BY <1>1, <1>3, <1>8 DEF Places, Settled
<1> QED BY <1>10, <1>11, <1>12, <1>15, <1>16 DEF IInv

\* pump() up to its first callback, called by the loop or by resume() with flags
\* set; s is the stream that it finds.
LEMMA PumpEntryStep ==
  ASSUME IInv, StdinAssumption, NEW s, s \in StreamRec, s.buf = st.buf, s.head = st.head,
         s.tail = st.tail, s.armed, s.ended = st.ended, s.destroyed = st.destroyed,
         s.eofReadableFired = st.eofReadableFired,
         stack # <<>> => Top.user, PumpEntry(stack, s),
         UNCHANGED <<peer, listeners, timers, micro, bodies, out>>,
         pc' \in {"drain1", "stdin", "pump", "fire", "drain2", "peek", "poll"}
  PROVE  IInv'
<1>1. StreamOK(st) /\ ReactorOK(rb) /\ out \in Seq(Nat) /\ stack \in Seq(FrameRec) /\ touched \in BOOLEAN
  BY DEF IInv, Typed
<1>2. StreamOK(s) /\ Avail(s) = Avail(st)
  BY <1>1 DEF StreamOK, Avail
<1>3. PICK g \in Nat, m \in Nat, w \in Nat : g = Len(out) /\ m = Avail(st) /\ w = Unread
  <2>1. Len(out) \in Nat /\ Avail(st) \in Nat
    BY <1>1 DEF StreamOK, StreamRec, Avail
  <2>2. Unread \in Nat
    BY SMTT(30), <1>1 DEF ReactorOK, Unread
  <2> QED BY <2>1, <2>2
<1>4. Follows(st, g) /\ Queues(rb, g + m) /\ g + m + w = peer.read
  BY <1>3 DEF IInv, Bytes
<1>5. Follows(s, g)
  BY <1>2, <1>4 DEF Follows
<1>6. CASE s.destroyed
  <2>1. stack' = stack /\ st' = s /\ rb' = rb /\ touched' = touched
    BY <1>6 DEF PumpEntry
  <2>2. Typed'
    BY <1>1, <1>2, <2>1 DEF IInv, Typed
  <2>3. Bytes'
    BY <1>2, <2>1 DEF IInv, Bytes, Follows, Queues, Avail, Unread
  <2>4. SourceOK'
    BY <1>6, <2>1 DEF IInv, SourceOK
  <2>5. Moves
    BY <1>2, <1>3, <2>1 DEF Moves, Unread, SourceDone
  <2>6. Nesting'
    BY <2>1, <2>5, UserNesting
  <2>7. Places'
    BY <1>6, <2>1 DEF Places, Settled
  <2> QED BY <2>2, <2>3, <2>4, <2>6, <2>7 DEF IInv
<1>7. CASE ~s.destroyed
  <2>1. PICK d : d = DrainBytes(s)
    OBVIOUS
  <2>2. /\ StreamOK(d) /\ Follows(d, g) /\ Alike(s, d) /\ Avail(d) = m + w
        /\ w = 0 => d = s
    BY <1>1, <1>2, <1>3, <1>4, <1>5, <2>1, DrainLemma
  <2>3. PICK e \in BOOLEAN : e = Eof'
    BY DEF Eof
  <2>4. PICK a \in {"readable", "flow"} : a = IF Announces(Unread, d) THEN "readable" ELSE "flow"
    OBVIOUS
  <2>5. PICK h \in BOOLEAN : h = (d.eofReadableFired \/ (e /\ Avail(d) > 0))
    OBVIOUS
  <2>6. /\ rb' = AllTaken /\ stack' = Append(stack, Frame(a, e))
        /\ st' = [d EXCEPT !.eofReadableFired = h] /\ touched' = FALSE
    <3>1. /\ rb' = AllTaken
          /\ stack' = Append(stack, Frame(IF Announces(Unread, d) THEN "readable" ELSE "flow", Eof'))
          /\ st' = [d EXCEPT !.eofReadableFired = @ \/ (Eof' /\ Avail(d) > 0)]
          /\ touched' = FALSE
      BY <1>7, <2>1 DEF PumpEntry
    <3>2. stack' = Append(stack, Frame(a, e))
      BY <2>3, <2>4, <3>1, Zenon
    <3>3. st' = [d EXCEPT !.eofReadableFired = h]
      BY <2>2, <2>3, <2>5, <3>1 DEF StreamOK, StreamRec
    <3> QED BY <3>1, <3>2, <3>3
  <2>7. ReactorOK(rb') /\ rb'.len = rb'.pos /\ rb'.active = rb.active
    BY <1>1, <2>6, AllTakenLemma
  <2>8. Unread' = 0 /\ rb'.len - rb'.pos = 0 /\ (e <=> ~rb.active)
    <3>1. PICK l \in Nat : l = rb'.len /\ l = rb'.pos
      BY <2>7 DEF ReactorOK, StdinAssumption
    <3>2. l - l = 0 /\ l >= l
      OBVIOUS
    <3>3. Unread' = 0 /\ rb'.len - rb'.pos = 0
      BY <3>1, <3>2 DEF Unread
    <3>4. e <=> ~rb'.active
      BY <2>3, <3>1, <3>2 DEF Eof
    <3> QED BY <2>7, <3>3, <3>4
  <2>9. /\ st' \in StreamRec /\ st'.buf = d.buf /\ st'.head = d.head /\ st'.tail = d.tail
        /\ st'.armed /\ ~st'.destroyed /\ st'.ended = st.ended /\ st'.eofReadableFired = h
    BY <1>7, <2>2, <2>6 DEF StreamOK, StreamRec, Alike
  <2>10. StreamOK(st') /\ Avail(st') = m + w /\ Follows(st', g)
    BY <2>2, <2>9 DEF StreamOK, Avail, Follows
  <2>11. PICK f : f = Frame(a, e)
    OBVIOUS
  <2>12. f \in FrameRec /\ f.at = a /\ f.eof = e /\ ~f.user
    <3>1. a \in Stages /\ a # "body"
      BY DEF Stages, Dispatching
    <3> QED BY <2>11, <3>1, FrameLemma, ZenonT(60)
  <2>13. /\ stack' \in Seq(FrameRec) /\ Depth \in Nat /\ Depth' = Depth + 1 /\ stack'[Depth + 1] = f
         /\ \A k \in 1..Depth : stack'[k] = stack[k]
    <3>1. stack' = Append(stack, f)
      BY <2>6, <2>11, Zenon
    <3> QED BY <1>1, <2>12, <3>1, PushLemma DEF Depth
  <2>14. Typed'
    BY <2>6, <2>7, <2>10, <2>13 DEF IInv, Typed
  <2>15. Bytes'
    <3>1. Len(out') = g /\ Follows(st', Len(out')) /\ Len(out') + Avail(st') + Unread' = peer'.read
      BY <1>3, <1>4, <2>8, <2>10
    <3>2. Queues(rb, Len(out) + Avail(st))'
      BY <2>8 DEF Queues
    <3>3. \A k \in 1..Len(out') : out'[k] = k
      BY DEF IInv, Bytes
    <3> QED BY <3>1, <3>2, <3>3 DEF Bytes, Follows, Avail
  <2>16. SourceDone' = SourceDone /\ (e => SourceDone)
    BY <1>7, <2>8 DEF SourceDone, IInv, SourceOK
  <2>17. SourceOK'
    BY <2>8, <2>7, <2>9, <2>16 DEF IInv, SourceOK
  <2>18. Moves
    <3>1. Avail(st') \in Nat /\ (w = 0 => Avail(st') <= m)
      BY <2>10
    <3>2. st.eofReadableFired => st'.eofReadableFired
      BY <2>2, <2>5, <2>9 DEF Alike
    <3>3. ~st.destroyed /\ ~st'.destroyed /\ st'.destroyed = st.destroyed
      BY <1>1, <1>7, <2>9 DEF StreamOK, StreamRec
    <3> QED BY <1>3, <2>7, <2>8, <2>9, <2>16, <3>1, <3>2, <3>3 DEF Moves
  <2>19. \A k \in 1..Depth' : FrameOK(k)' /\ (IsPump(stack[k]) => PumpOK(k))'
    <3> TAKE k \in 1..Depth'
    <3>1. CASE k = Depth + 1
      <4>1. stack'[k] = f /\ ~(k < Depth')
        BY <2>13, <3>1
      <4>2. FrameOK(k)'
        BY <2>12, <4>1 DEF FrameOK
      <4>3. PumpOK(k)'
        <5>1. ~rb'.active /\ ~st'.destroyed => f.eof /\ (Avail(st') > 0 => st'.eofReadableFired)
          BY <2>2, <2>5, <2>7, <2>8, <2>9, <2>10, <2>12
        <5>2. f.eof => SourceDone'
          BY <2>12, <2>16
        <5> QED BY <2>8, <2>9, <2>12, <4>1, <5>1, <5>2 DEF PumpOK
      <4> QED BY <4>2, <4>3
    <3>2. CASE k # Depth + 1
      <4>1. k \in 1..Depth /\ stack'[k] = stack[k]
        BY <2>13, <3>2
      <4>2. FrameOK(k) /\ (IsPump(stack[k]) => PumpOK(k))
        BY <4>1 DEF IInv, Nesting
      <4>3. stack[k].user
        <5>1. CASE k < Depth
          BY <4>2, <5>1 DEF FrameOK
        <5>2. CASE k = Depth
          BY <1>1, <2>13, <4>1, <5>2 DEF Top, Depth
        <5> QED BY <2>13, <4>1, <5>1, <5>2
      <4> QED BY <2>18, <4>1, <4>2, <4>3, KeepFrame
    <3> QED BY <3>1, <3>2
  <2>20. Alone'
    <3> SUFFICES ASSUME NEW k \in 1..Depth', NEW l \in 1..Depth', IsPump(stack'[k]),
                        stack'[k].at = stack'[l].at, stack'[k].at \in Dispatching
                 PROVE  k = l
      BY DEF Alone
    <3>1. \A j \in 1..Depth : stack[j].at # "readable" \/ a # "readable"
      <4> SUFFICES ASSUME NEW j \in 1..Depth, stack[j].at = "readable" PROVE a # "readable"
        OBVIOUS
      <4>1. PumpOK(j)
        BY DEF IInv, Nesting, IsPump
      <4>2. w = 0 /\ (~rb.active /\ m > 0 => st.eofReadableFired)
        BY <1>3, <1>7, <4>1 DEF PumpOK
      <4>3. d = s /\ Avail(d) = m
        BY <1>2, <1>3, <2>2, <4>2
      <4>4. ~Announces(Unread, d)
        BY <1>3, <2>3, <2>8, <4>2, <4>3 DEF Announces
      <4> QED BY <2>4, <4>4
    <3>2. f.at \in Dispatching => f.at = "readable"
      BY <2>12 DEF Dispatching
    <3>3. CASE k = Depth + 1 /\ l # Depth + 1
      <4>1. l \in 1..Depth /\ stack'[l] = stack[l] /\ stack'[k] = f
        BY <2>13, <3>3
      <4> QED BY <2>12, <3>1, <3>2, <4>1
    <3>4. CASE k # Depth + 1 /\ l = Depth + 1
      <4>1. k \in 1..Depth /\ stack'[k] = stack[k] /\ stack'[l] = f
        BY <2>13, <3>4
      <4> QED BY <2>12, <3>1, <3>2, <4>1
    <3>5. CASE k # Depth + 1 /\ l # Depth + 1
      <4>1. k \in 1..Depth /\ l \in 1..Depth /\ stack'[k] = stack[k] /\ stack'[l] = stack[l]
        BY <2>13, <3>5
      <4> QED BY <4>1 DEF IInv, Nesting, Alone
    <3> QED BY <3>3, <3>4, <3>5
  <2>21. Nesting'
    BY <2>19, <2>20 DEF Nesting
  <2>22. Places'
    <3>1. AtSome({"readable", "flow"})' /\ AtSome({"readable", "flow", "data", "finish"})'
      <4>1. Depth + 1 \in 1..Depth' /\ stack'[Depth + 1].at \in {"readable", "flow"}
        BY <2>12, <2>13
      <4> QED BY <4>1 DEF AtSome
    <3> QED BY <2>8, <3>1 DEF Places, Settled
  <2> QED BY <2>14, <2>15, <2>17, <2>21, <2>22 DEF IInv
<1> QED BY <1>6, <1>7

LEMMA ResumeStep == ASSUME IInv, StdinAssumption, Resume PROVE IInv'
<1>1. PICK s : s = [st EXCEPT !.paused = FALSE, !.flowing = TRUE, !.armed = TRUE]
  OBVIOUS
<1>2. /\ InUserCode /\ PumpEntry(stack, s)
      /\ UNCHANGED <<peer, listeners, pc, timers, micro, bodies, out>>
  BY <1>1 DEF Resume
<1>3. /\ s \in StreamRec /\ s.buf = st.buf /\ s.head = st.head /\ s.tail = st.tail /\ s.armed
      /\ s.ended = st.ended /\ s.destroyed = st.destroyed /\ s.eofReadableFired = st.eofReadableFired
  <2>1. st \in StreamRec
    BY DEF IInv, Typed, StreamOK
  <2> QED BY <1>1, <2>1 DEF StreamRec
<1>4. Top.user /\ pc # "exit" /\ pc' = pc
  BY <1>2, UserTop
<1>5. pc' \in {"drain1", "stdin", "pump", "fire", "drain2", "peek", "poll"}
  BY <1>4 DEF IInv, Typed
<1> QED BY <1>2, <1>3, <1>4, <1>5, PumpEntryStep

LEMMA PumpTickStep == ASSUME IInv, StdinAssumption, PumpTick PROVE IInv'
<1>1. /\ stack = <<>> /\ pc' = "fire"
      /\ UNCHANGED <<peer, listeners, timers, micro, bodies, out>>
  BY DEF PumpTick, InLoop
<1>2. CASE st.armed
  <2>1. PumpEntry(stack, st)
    BY <1>1, <1>2 DEF PumpTick
  <2>2. st \in StreamRec
    BY DEF IInv, Typed, StreamOK
  <2> QED BY <1>1, <1>2, <2>1, <2>2, PumpEntryStep
<1>3. CASE ~st.armed
  <2>1. UNCHANGED <<rb, st, stack, touched>>
    BY <1>3 DEF PumpTick
  <2>2. Typed'
    BY <1>1, <2>1 DEF IInv, Typed
  <2>3. Bytes'
    BY <1>1, <2>1 DEF IInv, Bytes, Follows, Queues, Avail, Unread
  <2>4. SourceOK'
    BY <1>1, <2>1 DEF IInv, SourceOK, SourceDone
  <2>5. Nesting'
    BY <1>1, <2>1 DEF Nesting, Alone, Depth
  <2>6. Places'
    BY <1>1, <1>3, <2>1 DEF Places, Settled
  <2> QED BY <2>2, <2>3, <2>4, <2>5, <2>6 DEF IInv
<1> QED BY <1>2, <1>3
-----------------------------------------------------------------------------
(* The theorems *)

LEMMA StepLemma == ASSUME StdinAssumption, IInv, [Next]_vars PROVE IInv'
<1>1. CASE Loop
  BY <1>1, LoopMoves, LoopBodies, ReadFdStep, PumpTickStep DEF Loop
<1>2. CASE Pump
  BY <1>2, CallListenerStep, DispatchDoneStep, FlowStep, FinishStep DEF Pump
<1>3. CASE User
  BY <1>3, PauseStep, ResumeStep, DestroyStep, QuietStep, OnStep, ReadStep DEF User
<1>4. CASE Return
  BY <1>4, ReturnStep
<1>5. CASE PeerWrite \/ PeerClose \/ PeerFail
  BY <1>5, PeerSteps
<1>6. CASE UNCHANGED vars
  <2>1. stack' = stack /\ OnlyStack
    BY <1>6 DEF vars, OnlyStack
  <2>2. Moves
    BY <2>1, SameMoves
  <2>3. Nesting'
    BY <2>1, <2>2, UserNesting
  <2>4. Typed'
    BY <2>1 DEF IInv, Typed, OnlyStack
  <2>5. Bytes'
    BY <2>1 DEF IInv, Bytes, Follows, Queues, Avail, Unread, OnlyStack
  <2>6. SourceOK'
    BY <2>1 DEF IInv, SourceOK, SourceDone, OnlyStack
  <2>7. Places'
    BY <2>1 DEF IInv, Places, Settled, AtSome, Avail, Unread, Depth, OnlyStack
  <2> QED BY <2>3, <2>4, <2>5, <2>6, <2>7 DEF IInv
<1> QED BY <1>1, <1>2, <1>3, <1>4, <1>5, <1>6 DEF Next

\* The inductive invariant holds in every behaviour of the loop, the stream, the
\* peer and the program that uses the stream.
THEOREM Invariance == Spec => []IInv
<1>1. Init => IInv
  BY StdinAssumption, InitLemma
<1>2. IInv /\ [Next]_vars => IInv'
  BY StdinAssumption, StepLemma
<1> QED BY <1>1, <1>2, PTL DEF Spec

\* The cursors of both buffers stay inside them, and the bounds of the model are
\* respected (RL_STDIN_BUF_CAP, the stream's growing buffer).
THEOREM TypeCorrect == Spec => []TypeOK
<1>1. IInv => TypeOK
  BY DEF IInv, Typed, TypeOK, ReactorOK, StreamOK, StreamRec, FrameRec
<1> QED BY <1>1, Invariance, PTL

\* No byte of fd 0 is lost, repeated or reordered between fd_read and the
\* program, through drainBytes(), ensure() and read(size).
THEOREM BytesKept == Spec => []ByteStream
<1>1. IInv => ByteStream
  <2> SUFFICES ASSUME IInv PROVE ByteStream
    OBVIOUS
  <2>1. StreamOK(st) /\ ReactorOK(rb) /\ out \in Seq(Nat)
    BY DEF IInv, Typed
  <2>2. PICK m \in Nat, w \in Nat : m = Avail(st) /\ w = Unread
    <3>1. Avail(st) \in Nat
      BY <2>1 DEF StreamOK, StreamRec, Avail
    <3>2. Unread \in Nat
      BY <2>1, StdinAssumption DEF ReactorOK, Unread, StdinAssumption
    <3> QED BY <3>1, <3>2
  <2>3. PICK a : a = out \o Slice(st, m)
    OBVIOUS
  <2>4. a \in Seq(Nat) /\ Len(a) = Len(out) + m /\ \A k \in 1..Len(a) : a[k] = k
    <3>1. (\A k \in 1..Len(out) : out[k] = k) /\ Follows(st, Len(out)) /\ m <= Avail(st)
      BY <2>2 DEF IInv, Bytes
    <3> QED BY <2>1, <2>3, <3>1, OutLemma
  <2>5. PICK b : b = [k \in 1..Unread |-> rb.mem[rb.pos + k - 1]]
    OBVIOUS
  <2>6. b = [k \in 1..w |-> Len(a) + k]
    <3>1. \A k \in 1..w : rb.mem[rb.pos + k - 1] = Len(a) + k
      <4> TAKE k \in 1..w
      <4>1. k - 1 \in 0..(rb.len - rb.pos - 1) /\ rb.pos + (k - 1) = rb.pos + k - 1
        BY <2>1, <2>2, StdinAssumption DEF Unread, ReactorOK, StdinAssumption
      <4>2. rb.mem[rb.pos + (k - 1)] = Len(out) + Avail(st) + (k - 1) + 1
        BY <4>1 DEF IInv, Bytes, Queues
      <4>3. Len(out) + m + (k - 1) + 1 = Len(a) + k
        BY <2>1, <2>4
      <4> QED BY <2>2, <4>1, <4>2, <4>3
    <3> QED BY <2>2, <2>5, <3>1
  <2>7. b \in Seq(Nat) /\ Len(b) = w /\ \A k \in 1..w : b[k] = Len(a) + k
    BY <2>4, <2>6
  <2>8. PICK c : c = a \o b
    OBVIOUS
  <2>9. /\ c \in Seq(Nat) /\ Len(c) = Len(a) + w
        /\ \A k \in 1..(Len(a) + w) : c[k] = IF k <= Len(a) THEN a[k] ELSE b[k - Len(a)]
    BY <2>4, <2>7, <2>8, ConcatProperties
  <2>10. \A k \in 1..Len(c) : c[k] = k
    <3> TAKE k \in 1..Len(c)
    <3>1. CASE k <= Len(a)
      <4>1. k \in 1..Len(a) /\ k \in 1..(Len(a) + w)
        BY <2>4, <2>9, <3>1
      <4> QED BY <2>4, <2>9, <3>1, <4>1
    <3>2. CASE ~(k <= Len(a))
      <4>1. k - Len(a) \in 1..w /\ k \in 1..(Len(a) + w) /\ Len(a) + (k - Len(a)) = k
        BY <2>4, <2>9, <3>2
      <4> QED BY <2>7, <2>9, <3>2, <4>1
    <3> QED BY <3>1, <3>2
  <2>11. Len(c) = peer.read
    BY <2>1, <2>2, <2>4, <2>9 DEF IInv, Bytes
  <2>12. c = [k \in 1..peer.read |-> k]
    BY <2>9, <2>10, <2>11
  <2>13. c = out \o Slice(st, Avail(st)) \o [k \in 1..Unread |-> rb.mem[rb.pos + k - 1]]
    BY <2>2, <2>3, <2>5, <2>8
  <2> QED BY <2>12, <2>13 DEF ByteStream
<1> QED BY <1>1, Invariance, PTL

\* 'end' is not dispatched before everything the peer wrote was handed out.
THEOREM EndIsComplete == Spec => []EndComplete
<1>1. IInv => EndComplete
  BY DEF IInv, SourceOK, EndComplete
<1> QED BY <1>1, Invariance, PTL

\* resume() from the callbacks of a pump nests at most four pumps, whatever the
\* number of listeners: each event is dispatched by one of them at a time.
THEOREM NestingIsBounded == Spec => []NestingBounded
<1>1. IInv => NestingBounded
  <2> SUFFICES ASSUME IInv PROVE NestingBounded
    OBVIOUS
  <2>1. stack \in Seq(FrameRec) /\ Depth \in Nat
    BY DEF IInv, Typed, Depth
  <2> DEFINE P == {k \in 1..Depth : stack[k].at \notin {"body", "close"}}
             D == {k \in P : stack[k].at \in Dispatching}
             E == {"readable", "data", "end"}
  <2>2. IsFiniteSet(P) /\ IsFiniteSet(D)
    <3>1. IsFiniteSet(1..Depth)
      BY <2>1, FS_Interval
    <3>2. P \subseteq 1..Depth /\ D \subseteq P
      OBVIOUS
    <3> QED BY <3>1, <3>2, FS_Subset
  <2>3. IsFiniteSet(E) /\ Cardinality(E) <= 3
    <3>1. IsFiniteSet({}) /\ Cardinality({}) = 0
      BY FS_EmptySet
    <3>2. IsFiniteSet({"end"}) /\ Cardinality({"end"}) = 1
      BY FS_Singleton
    <3>3. IsFiniteSet({"end"} \cup {"data"}) /\ Cardinality({"end"} \cup {"data"}) = 2
      BY <3>2, FS_AddElement
    <3>4. /\ IsFiniteSet(({"end"} \cup {"data"}) \cup {"readable"})
          /\ Cardinality(({"end"} \cup {"data"}) \cup {"readable"}) = 3
      BY <3>3, FS_AddElement
    <3>5. E = ({"end"} \cup {"data"}) \cup {"readable"}
      OBVIOUS
    <3> QED BY <3>4, <3>5
  <2>4. Cardinality(D) <= 3
    <3> DEFINE f == [k \in D |-> stack[k].at]
    <3>1. f \in Injection(D, E)
      <4>1. \A k \in D : stack[k].at \in E
        BY DEF Dispatching
      <4>2. \A k, l \in D : stack[k].at = stack[l].at => k = l
        BY DEF IInv, Nesting, Alone, IsPump
      <4> QED BY <4>1, <4>2 DEF Injection, IsInjective
    <3>2. Cardinality(D) <= Cardinality(E)
      BY <2>2, <2>3, <3>1, FS_Injection
    <3>3. Cardinality(D) \in Nat /\ Cardinality(E) \in Nat
      BY <2>2, <2>3, FS_CardinalityType
    <3> HIDE DEF D, E
    <3> QED BY <2>3, <3>2, <3>3
  <2>5. P \subseteq D \cup {Depth}
    <3> SUFFICES ASSUME NEW k \in P, k # Depth PROVE stack[k].at \in Dispatching
      OBVIOUS
    <3>1. k \in 1..Depth /\ k < Depth
      BY <2>1
    <3> QED BY <3>1 DEF IInv, Nesting, FrameOK
  <2> HIDE DEF P, D
  <2>6. IsFiniteSet(D \cup {Depth}) /\ Cardinality(D \cup {Depth}) <= 4
    <3>1. PICK n \in Nat : n = Cardinality(D)
      BY <2>2, FS_CardinalityType
    <3>2. IsFiniteSet(D \cup {Depth}) /\ Cardinality(D \cup {Depth}) = IF Depth \in D THEN n ELSE n + 1
      BY <2>2, <3>1, FS_AddElement
    <3> QED BY <2>4, <3>1, <3>2
  <2>7. Cardinality(P) <= Cardinality(D \cup {Depth})
    BY <2>5, <2>6, FS_Subset
  <2>8. Cardinality(P) \in Nat /\ Cardinality(D \cup {Depth}) \in Nat
    BY <2>2, <2>6, FS_CardinalityType
  <2>9. Cardinality(P) <= 4
    BY <2>6, <2>7, <2>8
  <2> QED BY <2>9 DEF P, NestingBounded
<1> QED BY <1>1, Invariance, PTL

\* When __run_event_loop returns, nothing that arrived is stuck and 'end' was
\* dispatched, unless the program used the stream after it was last pumped.
THEOREM ExitIsDelivered == Spec => []ExitDelivered
<1>1. IInv => ExitDelivered
  <2> SUFFICES ASSUME IInv, pc = "exit", st.armed, ~st.destroyed, ~touched
               PROVE  /\ Unread = 0
                      /\ st.flowing /\ ~st.paused => Avail(st) = 0
                      /\ Avail(st) = 0 => st.ended
    BY DEF ExitDelivered
  <2>1. stack = <<>> /\ ~rb.active /\ Settled
    BY DEF IInv, Places
  <2>2. ~AtSome({"readable", "flow"}) /\ ~AtSome({"readable", "flow", "data", "finish"})
    BY <2>1, NoFrames
  <2> QED BY <2>1, <2>2 DEF Settled
<1> QED BY <1>1, Invariance, PTL
=============================================================================
