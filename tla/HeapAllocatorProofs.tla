------------------------ MODULE HeapAllocatorProofs ------------------------
(***************************************************************************)
(* For every size of memory, number of bins, request and pattern of calls: *)
(* the tags, footers and free lists of the allocator are right after every *)
(* call, no two free blocks touch, every word from the source is accounted *)
(* for, and no call changes a word that the client holds.                  *)
(*                                                                         *)
(* The invariant, Settled, says that some tiling sz of the regions and set *)
(* F of free blocks explains all words the allocator reads.  The lemmas    *)
(* follow the code: list operations on one tiling, then what free, the     *)
(* taking of a fit, carving, a new region and __heap_init do to it, then   *)
(* the entry points, then the client's own writes into its blocks.         *)
(***************************************************************************)
EXTENDS HeapAllocator, NatFacts, SequenceTheorems, FunctionTheorems

USE DEF MIN_BLOCK, INUSE, PINUSE

---------------------------------------------------------------------------
(* Iterate, Pow2, Log2 and Bin.                                            *)

\* The recursive function of Iterate exists, so that its equations hold.
LEMMA IterateLemma ==
  ASSUME NEW nx, NEW x
  PROVE  /\ Iterate(nx, x)[0] = x
         /\ \A k \in Nat : Iterate(nx, x)[k + 1] =
              IF Iterate(nx, x)[k] \in DOMAIN nx THEN nx[Iterate(nx, x)[k]] ELSE Iterate(nx, x)[k]
<1> DEFINE Step(y) == IF y \in DOMAIN nx THEN nx[y] ELSE y
           Part(m, f) == f[0] = x /\ \A k \in 1..m : f[k] = Step(f[k - 1])
           Bad == {m \in Nat : ~\E f : Part(m, f)}
<1>1. \A m \in Nat : \E f : Part(m, f)
  <2> SUFFICES ASSUME Bad # {} PROVE FALSE
    OBVIOUS
  <2>1. PICK m \in Bad : \A j \in Bad : m <= j
    BY LeastLemma
  <2>2. CASE m = 0
    <3> DEFINE g == [k \in 0..0 |-> x]
    <3>1. Part(0, g)
      OBVIOUS
    <3> QED BY <2>2, <3>1
  <2>3. CASE m # 0
    <3>1. m - 1 \in Nat /\ m - 1 \notin Bad
      <4> HIDE DEF Part
      <4> QED BY <2>1, <2>3
    <3>2. PICK f : Part(m - 1, f)
      BY <3>1
    <3> DEFINE g == [k \in 0..m |-> IF k = m THEN Step(f[m - 1]) ELSE f[k]]
    <3> HIDE DEF Step
    <3>3. \A k \in 1..m : g[k] = Step(g[k - 1])
      BY SMTT(30), <3>1, <3>2
    <3>4. Part(m, g)
      BY <3>1, <3>2, <3>3
    <3> QED BY <3>4
  <2> QED BY <2>2, <2>3
<1> DEFINE G(m) == CHOOSE f : Part(m, f)
<1>2. \A m \in Nat : Part(m, G(m))
  <2> HIDE DEF Part
  <2> QED BY <1>1
<1>3. \A m, n \in Nat : \A k \in Nat : k <= m /\ k <= n => G(m)[k] = G(n)[k]
  <2> HIDE DEF G, Step
  <2> SUFFICES ASSUME NEW m \in Nat, NEW n \in Nat PROVE \A k \in Nat : k <= m /\ k <= n => G(m)[k] = G(n)[k]
    OBVIOUS
  <2> DEFINE T == {k \in Nat : k <= m /\ k <= n /\ G(m)[k] # G(n)[k]}
  <2> SUFFICES ASSUME T # {} PROVE FALSE
    OBVIOUS
  <2>1. PICK k \in T : \A j \in T : k <= j
    BY LeastLemma
  <2>2. k # 0
    BY <1>2
  <2>3. k - 1 \in Nat /\ k - 1 <= m /\ k - 1 <= n /\ k \in 1..m /\ k \in 1..n /\ k - 1 \notin T
    BY <2>1, <2>2
  <2>4. G(m)[k - 1] = G(n)[k - 1]
    BY <2>3
  <2>5. G(n)[k] = Step(G(n)[k - 1]) /\ G(m)[k] = Step(G(m)[k - 1])
    BY <1>2, <2>3
  <2> QED
    BY <2>1, <2>4, <2>5
<1> DEFINE it == [k \in Nat |-> G(k)[k]]
           Rec(at) == at = [k \in Nat |-> IF k = 0 THEN x ELSE LET last == at[k - 1]
                                                             IN  IF last \in DOMAIN nx THEN nx[last] ELSE last]
<1>4. \A k \in Nat : k # 0 => it[k] = Step(it[k - 1])
  <2> HIDE DEF G, Step
  <2> SUFFICES ASSUME NEW k \in Nat, k # 0 PROVE it[k] = Step(it[k - 1])
    OBVIOUS
  <2>1. k - 1 \in Nat /\ k - 1 <= k /\ k \in 1..k
    OBVIOUS
  <2>2. G(k)[k] = Step(G(k)[k - 1]) /\ G(k)[k - 1] = G(k - 1)[k - 1]
    BY <1>2, <1>3, <2>1
  <2> QED BY <2>1, <2>2
<1>5. Rec(it)
  <2>1. it[0] = x
    <3> HIDE DEF G
    <3> QED BY <1>2
  <2> HIDE DEF G
  <2>2. it = [k \in Nat |-> it[k]]
    OBVIOUS
  <2> HIDE DEF it
  <2>3. \A k \in Nat : it[k] = IF k = 0 THEN x ELSE LET last == it[k - 1]
                                                     IN  IF last \in DOMAIN nx THEN nx[last] ELSE last
    BY <1>4, <2>1
  <2> QED BY <2>2, <2>3
<1> DEFINE at == CHOOSE at : Rec(at)
<1>6. Rec(at)
  <2> HIDE DEF Rec, it
  <2> QED BY <1>5
<1>7. Iterate(nx, x) = at
  BY DEF Iterate
<1> HIDE DEF at
<1>8. at[0] = x /\ \A k \in Nat : at[k + 1] = Step(at[k])
  <2>1. at[0] = x
    BY <1>6
  <2>2. ASSUME NEW k \in Nat PROVE at[k + 1] = Step(at[k])
    <3>1. k + 1 \in Nat /\ k + 1 # 0 /\ (k + 1) - 1 = k
      OBVIOUS
    <3>2. at[k + 1] = Step(at[(k + 1) - 1])
      BY <1>6, <3>1
    <3> QED BY <3>1, <3>2
  <2> QED BY <2>1, <2>2
<1> QED BY <1>7, <1>8

\* Pow2 doubles from 1 on, as the shifts of __heap_bin do.
LEMMA PowLemma ==
  /\ Pow2(0) = 1
  /\ \A k \in Nat : Pow2(k) \in Nat \ {0} /\ Pow2(k + 1) = 2 * Pow2(k)
<1> DEFINE it == Iterate(Double, 1)
           Bad == {k \in Nat : it[k] \notin Nat \ {0}}
<1>1. it[0] = 1 /\ \A k \in Nat : it[k + 1] = IF it[k] \in DOMAIN Double THEN Double[it[k]] ELSE it[k]
  BY IterateLemma
<1> HIDE DEF it
<1>2. \A k \in Nat : it[k] \in Nat => it[k + 1] = 2 * it[k]
  BY <1>1 DEF Double
<1>3. Bad = {}
  <2> SUFFICES ASSUME Bad # {} PROVE FALSE
    OBVIOUS
  <2>1. PICK k \in Bad : \A j \in Bad : k <= j
    BY LeastLemma
  <2>2. k # 0
    BY <1>1
  <2>3. k - 1 \in Nat /\ k - 1 \notin Bad /\ (k - 1) + 1 = k
    BY <2>1, <2>2
  <2>4. it[k - 1] \in Nat \ {0} /\ it[k] = 2 * it[k - 1]
    BY <1>2, <2>3
  <2> QED BY <2>4
<1> QED
  <2>1. \A k \in Nat : it[k] \in Nat \ {0}
    BY <1>3
  <2> QED BY <1>1, <1>2, <2>1 DEF Pow2, Powers, it

\* Pow2 is monotone.
LEMMA PowMonotone ==
  ASSUME NEW j \in Nat, NEW k \in Nat, j <= k
  PROVE  Pow2(j) <= Pow2(k)
<1> DEFINE Bad == {i \in Nat : j <= i /\ ~(Pow2(j) <= Pow2(i))}
<1> SUFFICES ASSUME Bad # {} PROVE FALSE
  OBVIOUS
<1>1. PICK i \in Bad : \A m \in Bad : i <= m
  BY LeastLemma
<1>2. Pow2(j) \in Nat
  BY PowLemma
<1>3. i # j
  BY <1>2
<1>4. i - 1 \in Nat /\ j <= i - 1 /\ i - 1 \notin Bad /\ (i - 1) + 1 = i
  BY <1>1, <1>3
<1>5. Pow2(j) <= Pow2(i - 1) /\ Pow2(i - 1) \in Nat /\ Pow2(i) = 2 * Pow2(i - 1)
  BY <1>4, PowLemma
<1> QED BY <1>2, <1>5

\* Log2 is what it should be for every size there is.
LEMMA LogLemma ==
  ASSUME NEW n \in Nat, 1 <= n, n < Pow2(30)
  PROVE  Log2(n) \in 0..29 /\ Pow2(Log2(n)) <= n /\ n < Pow2(Log2(n) + 1)
<1> DEFINE Above == {k \in Nat : n < Pow2(k)}
<1>1. PICK k \in Above : \A j \in Above : k <= j
  <2>1. 30 \in Above
    OBVIOUS
  <2> QED BY <2>1, LeastLemma
<1>2. k # 0 /\ k <= 30
  BY <1>1, PowLemma
<1>3. k - 1 \in 0..29 /\ k - 1 \notin Above /\ (k - 1) + 1 = k /\ k - 1 \in Nat
  BY <1>1, <1>2
<1>4. Pow2(k - 1) <= n
  <2>1. Pow2(k - 1) \in Nat
    BY <1>3, PowLemma
  <2> QED BY <1>3, <2>1
<1>5. \E l \in 0..29 : Pow2(l) <= n /\ n < Pow2(l + 1)
  BY <1>3, <1>4
<1> QED BY <1>5 DEF Log2

\* Log2 is monotone below 2^30, where the CHOOSE of it has an answer.
LEMMA LogMonotone ==
  ASSUME NEW n \in Nat, NEW m \in Nat, 1 <= n, n <= m, m < Pow2(30)
  PROVE  Log2(n) <= Log2(m)
<1>1. n < Pow2(30) /\ 1 <= m
  BY PowLemma
<1>2. PICK k \in 0..29 : k = Log2(n) /\ Pow2(k) <= n
  BY <1>1, LogLemma
<1>3. PICK l \in 0..29 : l = Log2(m) /\ m < Pow2(l + 1)
  BY <1>1, LogLemma
<1>4. ~(l < k)
  <2> SUFFICES ASSUME l < k PROVE FALSE
    OBVIOUS
  <2>1. Pow2(l + 1) <= Pow2(k)
    BY PowMonotone
  <2>2. Pow2(l + 1) \in Nat /\ Pow2(k) \in Nat
    BY PowLemma
  <2> QED BY <1>2, <1>3, <2>1, <2>2
<1> QED BY <1>2, <1>3, <1>4

Evens == {n \in Nat : n % 2 = 0}
BlockSizes == {n \in Evens : 4 <= n /\ n < Pow2(30)}

\* Bin selects a bin of the table, an exact one only for one size, and a larger one
\* only for larger sizes.
LEMMA BinLemma ==
  /\ \A s \in BlockSizes : Bin(s) \in 0..(NBINS - 1)
  /\ \A s \in BlockSizes : Bin(s) < NSMALL => s = 4 + 2 * Bin(s)
  /\ \A s, t \in BlockSizes : s <= t => Bin(s) <= Bin(t)
<1> DEFINE large(s) == Log2(s) - LargeShift
<1>1. \A s \in BlockSizes : s > SMALL_MAX => large(s) \in Nat
  <2> SUFFICES ASSUME NEW s \in BlockSizes, s > SMALL_MAX PROVE large(s) \in Nat
    OBVIOUS
  <2>1. s \in Nat /\ 2 * NSMALL + 4 <= s /\ s < Pow2(30) /\ 1 <= s
    <3>1. s \in Nat /\ s % 2 = 0 /\ s > 2 + 2 * NSMALL /\ NSMALL \in Nat
      BY Geometry DEF BlockSizes, Evens, SMALL_MAX
    <3>2. s < Pow2(30)
      BY Geometry, PowLemma DEF BlockSizes, Evens
    <3> QED BY <3>1, <3>2
  <2>2. PICK l \in 0..29 : l = Log2(s) /\ s < Pow2(l + 1)
    BY <2>1, LogLemma
  <2>3. LargeShift \in Nat /\ Pow2(LargeShift) <= s /\ Pow2(LargeShift) \in Nat
    <3>1. LargeShift \in Nat /\ Pow2(LargeShift) <= 2 * NSMALL + 4 /\ NSMALL \in Nat
      BY Geometry
    <3>2. Pow2(LargeShift) \in Nat
      BY <3>1, PowLemma
    <3> QED BY <3>1, <3>2, <2>1
  <2>4. ~(l < LargeShift)
    <3> SUFFICES ASSUME l < LargeShift PROVE FALSE
      OBVIOUS
    <3>1. Pow2(l + 1) <= Pow2(LargeShift) /\ Pow2(l + 1) \in Nat
      <4>1. l + 1 \in Nat /\ l + 1 <= LargeShift /\ LargeShift \in Nat
        BY <2>3
      <4> QED BY <4>1, PowMonotone, PowLemma
    <3> QED BY <2>1, <2>2, <2>3, <3>1
  <2> QED BY <2>2, <2>3, <2>4
<1>2. \A s, t \in BlockSizes : s <= t => Log2(s) <= Log2(t)
  <2> SUFFICES ASSUME NEW s \in BlockSizes, NEW t \in BlockSizes, s <= t PROVE Log2(s) <= Log2(t)
    OBVIOUS
  <2>1. s \in Nat /\ t \in Nat /\ 1 <= s /\ t < Pow2(30)
    BY Geometry, PowLemma DEF BlockSizes, Evens
  <2> QED BY <2>1, LogMonotone
<1>3. \A s \in BlockSizes : Log2(s) \in Nat
  <2> SUFFICES ASSUME NEW s \in BlockSizes PROVE Log2(s) \in Nat
    OBVIOUS
  <2>1. s \in Nat /\ 1 <= s /\ s < Pow2(30)
    BY Geometry, PowLemma DEF BlockSizes, Evens
  <2>2. Log2(s) \in 0..29
    BY <2>1, LogLemma
  <2> QED BY <2>2
<1>4. NSMALL \in Nat \ {0} /\ NLARGE \in Nat \ {0} /\ LargeShift \in Nat
  BY Geometry
<1>5. \A m \in Nat : Min({NLARGE - 1, m}) = IF m <= NLARGE - 1 THEN m ELSE NLARGE - 1
  <2> SUFFICES ASSUME NEW m \in Nat PROVE Min({NLARGE - 1, m}) = IF m <= NLARGE - 1 THEN m ELSE NLARGE - 1
    OBVIOUS
  <2>1. Min({NLARGE - 1, m}) \in {NLARGE - 1, m} /\ \A y \in {NLARGE - 1, m} : Min({NLARGE - 1, m}) <= y
    BY <1>4, MinLemma
  <2> QED BY <1>4, <2>1
<1>6. ASSUME NEW s \in BlockSizes
      PROVE  Bin(s) = IF s <= SMALL_MAX THEN (s - 4) \div 2
                      ELSE NSMALL + (IF large(s) <= NLARGE - 1 THEN large(s) ELSE NLARGE - 1)
  <2>1. CASE s <= SMALL_MAX
    BY <2>1 DEF Bin
  <2>2. CASE ~(s <= SMALL_MAX)
    <3>1. large(s) \in Nat
      <4>1. s \in Nat /\ SMALL_MAX \in Nat
        BY <1>4 DEF SMALL_MAX, BlockSizes, Evens
      <4> QED BY <1>1, <2>2, <4>1
    <3> QED BY <1>5, <2>2, <3>1 DEF Bin
  <2> QED BY <2>1, <2>2
<1>7. \A s \in BlockSizes : s \in Nat /\ s % 2 = 0 /\ 4 <= s
  BY DEF BlockSizes, Evens
<1>8. SMALL_MAX = 4 + 2 * (NSMALL - 1) /\ NBINS = NSMALL + NLARGE
  BY DEF SMALL_MAX, NBINS
<1>9. \A s \in BlockSizes : s <= SMALL_MAX => (s - 4) \div 2 \in 0..(NSMALL - 1) /\ s = 4 + 2 * ((s - 4) \div 2)
  BY <1>4, <1>7, <1>8
<1>10. \A s \in BlockSizes : ~(s <= SMALL_MAX) => large(s) \in Nat
  BY <1>1, <1>4, <1>7, <1>8
<1> HIDE DEF large
<1>11. \A s \in BlockSizes : /\ Bin(s) \in 0..(NBINS - 1)
                             /\ Bin(s) < NSMALL => s = 4 + 2 * Bin(s)
  BY <1>4, <1>6, <1>7, <1>8, <1>9, <1>10
<1>12. ASSUME NEW s \in BlockSizes, NEW t \in BlockSizes, s <= t PROVE Bin(s) <= Bin(t)
  <2>1. large(s) <= large(t) /\ (~(s <= SMALL_MAX) => ~(t <= SMALL_MAX))
    BY <1>2, <1>3, <1>4, <1>7, <1>8, <1>12 DEF large
  <2>2. CASE t <= SMALL_MAX
    BY <1>6, <1>4, <1>7, <1>9, <2>1, <2>2, <1>12
  <2>3. CASE ~(t <= SMALL_MAX)
    BY <1>6, <1>4, <1>7, <1>9, <1>10, <2>1, <2>3, <1>12
  <2> QED BY <2>2, <2>3
<1> QED BY <1>11, <1>12

---------------------------------------------------------------------------
(* What the heap's words say.  The size of every block and, as 0, of every *)
(* epilogue is the function sz; F are the free blocks, L those on a list.  *)

Heaps == [mem : [1..MemWords -> Int], bins : [0..(NBINS - 1) -> Nat], ctl : Nat, next : Nat, total : Nat,
          regions : Seq([base : Nat, epi : Nat, words : Nat]), brk : Nat, trap : BOOLEAN]

\* Blocks follow each other without gaps or overlaps, up to an epilogue.
Tiled(sz) ==
  /\ DOMAIN sz \subseteq 3..MemWords
  /\ \A c \in DOMAIN sz : sz[c] \in Evens /\ (sz[c] # 0 => 4 <= sz[c] /\ c + sz[c] \in DOMAIN sz)
  /\ \A c, d \in DOMAIN sz : c < d => c + sz[c] <= d

Within(r, c) == r.base <= c /\ c <= r.epi

\* Every region is a run of blocks, and every block lies in a region.
Regioned(rs, brk, sz) ==
  /\ \A i \in DOMAIN rs : /\ rs[i].base \in DOMAIN sz /\ rs[i].epi \in DOMAIN sz
                          /\ rs[i].base < rs[i].epi /\ sz[rs[i].epi] = 0 /\ rs[i].epi < brk
  /\ \A i, j \in DOMAIN rs : i < j => rs[i].epi < rs[j].base
  /\ \A c \in DOMAIN sz : \E i \in DOMAIN rs : Within(rs[i], c) /\ (sz[c] = 0 => c = rs[i].epi)

\* No two free blocks touch.
Spaced(sz, F) == F \subseteq DOMAIN sz /\ \A f \in F : sz[f] # 0 /\ f + sz[f] \notin F

Ends(sz, F) == {f + sz[f] : f \in F}

Tag(sz, F, c) == 2 * sz[c] + (IF c \in Ends(sz, F) THEN 0 ELSE 2) + (IF c \in F THEN 0 ELSE 1)

Tagged(mem, sz, F) ==
  /\ \A c \in DOMAIN sz : mem[c] = Tag(sz, F, c)
  /\ \A f \in F : mem[f + sz[f] - 1] = sz[f]

\* The links are mutual, stay in the bin and go down in rank.
Linked(mem, bins, sz, L, rank, top) ==
  /\ \A i \in 0..(NBINS - 1) : bins[i] # 0 => /\ bins[i] \in L /\ Bin(sz[bins[i]]) = i
                                              /\ mem[bins[i] + 2] = 0
  /\ \A b \in L : rank[b] \in 0..top
  /\ \A b \in L : mem[b + 1] # 0 => /\ mem[b + 1] \in L /\ mem[mem[b + 1] + 2] = b
                                    /\ Bin(sz[mem[b + 1]]) = Bin(sz[b])
                                    /\ rank[mem[b + 1]] < rank[b]
  /\ \A b \in L : IF mem[b + 2] = 0 THEN bins[Bin(sz[b])] = b
                                    ELSE mem[b + 2] \in L /\ mem[mem[b + 2] + 1] = b

Listed(h, sz, L) == \E top \in Nat : \E rank : Linked(h.mem, h.bins, sz, L, rank, top)

Shape(h, sz, F) ==
  /\ h \in Heaps /\ Tiled(sz) /\ Regioned(h.regions, h.brk, sz)
  /\ Spaced(sz, F) /\ Tagged(h.mem, sz, F)

Well(h, sz, F, L) == Shape(h, sz, F) /\ L \subseteq F /\ Listed(h, sz, L)

Used(sz, F) == {c \in DOMAIN sz : sz[c] # 0 /\ c \notin F}

\* The blocks of U keep their sizes and what they hold.
Keeps(h, sz, g, sz2, U) ==
  \A u \in U : sz2[u] = sz[u] /\ \A w \in (u + 1)..(u + sz[u] - 1) : g.mem[w] = h.mem[w]

SameRest(h, g) ==
  /\ g.ctl = h.ctl /\ g.next = h.next /\ g.total = h.total
  /\ g.regions = h.regions /\ g.brk = h.brk /\ g.trap = h.trap

---------------------------------------------------------------------------
(* Reading tags.                                                           *)

\* A header written with a size and two flags is read back as them: the flags live in
\* the low bits that an aligned size leaves 0.
LEMMA TagLemma ==
  ASSUME NEW s \in Evens, NEW p \in {0, 2}, NEW i \in {0, 1}, NEW w, w = 2 * s + p + i
  PROVE  w \in Nat /\ SizeOf(w) = s /\ Flag(w, INUSE) = i /\ Flag(w, PINUSE) = p
<1>1. PICK k \in Nat : s = 2 * k
  <2>1. s \in Nat /\ s % 2 = 0
    BY DEF Evens
  <2>2. s = 2 * (s \div 2) /\ s \div 2 \in Nat
    BY <2>1
  <2> QED BY <2>2
<1>2. w = 4 * k + p + i
  BY <1>1
<1> QED BY <1>1, <1>2 DEF SizeOf, Flag

\* What the code reads from a header is the truth.
LEMMA ReadLemma ==
  ASSUME NEW h, NEW sz, NEW F, Shape(h, sz, F), NEW c \in DOMAIN sz
  PROVE  /\ h.mem[c] \in Nat /\ SizeAt(h, c) = sz[c] /\ (IsFree(h, c) <=> c \in F)
         /\ Flag(h.mem[c], INUSE) = (IF c \in F THEN 0 ELSE 1)
         /\ Flag(h.mem[c], PINUSE) = (IF c \in Ends(sz, F) THEN 0 ELSE 2)
<1> DEFINE p == IF c \in Ends(sz, F) THEN 0 ELSE 2
           i == IF c \in F THEN 0 ELSE 1
<1>1. sz[c] \in Evens /\ h.mem[c] = 2 * sz[c] + p + i
  BY DEF Shape, Tiled, Tagged, Tag
<1>2. p \in {0, 2} /\ i \in {0, 1}
  OBVIOUS
<1> HIDE DEF p, i
<1>3. h.mem[c] \in Nat /\ SizeOf(h.mem[c]) = sz[c] /\ Flag(h.mem[c], INUSE) = i /\ Flag(h.mem[c], PINUSE) = p
  BY <1>1, <1>2, TagLemma
<1> QED BY <1>3 DEF SizeAt, IsFree, p, i

\* Two blocks do not overlap.
LEMMA Apart ==
  ASSUME NEW sz, Tiled(sz), NEW c \in DOMAIN sz, NEW d \in DOMAIN sz, c # d
  PROVE  c \in Nat /\ d \in Nat /\ (c + sz[c] <= d \/ d + sz[d] <= c)
BY DEF Tiled

\* A tiling puts every block in memory, with an even size and room for a free block.
LEMMA SizeLemma ==
  ASSUME NEW sz, Tiled(sz), NEW c \in DOMAIN sz
  PROVE  /\ c \in Nat /\ 3 <= c /\ c <= MemWords /\ sz[c] \in Nat /\ sz[c] % 2 = 0
         /\ sz[c] # 0 => /\ 4 <= sz[c] /\ c + sz[c] \in DOMAIN sz /\ c + sz[c] <= MemWords
                         /\ sz[c] \in BlockSizes
<1>1. c \in Nat /\ 3 <= c /\ c <= MemWords /\ sz[c] \in Nat /\ sz[c] % 2 = 0
  BY Geometry DEF Tiled, Evens
<1>2. sz[c] # 0 => 4 <= sz[c] /\ c + sz[c] \in DOMAIN sz /\ c + sz[c] <= MemWords
  BY Geometry DEF Tiled
<1>3. PICK top \in Nat : top = Pow2(30) /\ MemWords < top /\ MemWords \in Nat
  BY Geometry, PowLemma
<1>4. sz[c] # 0 => 4 <= sz[c] /\ sz[c] < top
  BY <1>1, <1>2, <1>3
<1> QED BY <1>1, <1>2, <1>3, <1>4 DEF BlockSizes, Evens

\* A write to a link of a free block disturbs no block in use, no header and no footer.
LinksOnly(h, g, F) ==
  \A w \in 1..MemWords : g.mem[w] # h.mem[w] => \E f \in F : w = f + 1 \/ w = f + 2

\* Such a write leaves the tags and every block in use as they were.
LEMMA LinksOnlyLemma ==
  ASSUME NEW h, NEW g, NEW sz, NEW F, Shape(h, sz, F), LinksOnly(h, g, F),
         g \in Heaps, SameRest(h, g)
  PROVE  Shape(g, sz, F) /\ Keeps(h, sz, g, sz, Used(sz, F))
<1>1. Tiled(sz) /\ Spaced(sz, F) /\ Regioned(g.regions, g.brk, sz) /\ Tagged(h.mem, sz, F)
  BY DEF Shape, SameRest
<1>2. ASSUME NEW c \in DOMAIN sz PROVE g.mem[c] = h.mem[c]
  <2> SUFFICES ASSUME NEW f \in F, c = f + 1 \/ c = f + 2 PROVE FALSE
    <3>1. c \in 1..MemWords
      BY <1>1, SizeLemma, Geometry
    <3> QED BY <3>1 DEF LinksOnly
  <2>1. f \in DOMAIN sz /\ sz[f] # 0
    BY <1>1 DEF Spaced
  <2>2. f \in Nat /\ sz[f] \in Nat /\ 4 <= sz[f]
    BY <1>1, <2>1, SizeLemma
  <2>3. f < c
    BY <2>2
  <2> QED BY <1>1, <2>1, <2>2, <2>3 DEF Tiled
<1>3. ASSUME NEW c \in DOMAIN sz, sz[c] # 0, NEW w \in (c + 1)..(c + sz[c] - 1),
             c \in F => w = c + sz[c] - 1
      PROVE  g.mem[w] = h.mem[w]
  <2>1. c \in Nat /\ sz[c] \in Nat /\ 4 <= sz[c] /\ c + sz[c] <= MemWords
    BY <1>1, <1>3, SizeLemma
  <2> SUFFICES ASSUME NEW f \in F, w = f + 1 \/ w = f + 2 PROVE FALSE
    <3>1. w \in 1..MemWords
      BY <2>1, Geometry
    <3> QED BY <3>1 DEF LinksOnly
  <2>2. f \in DOMAIN sz /\ sz[f] # 0
    BY <1>1 DEF Spaced
  <2>3. f \in Nat /\ sz[f] \in Nat /\ 4 <= sz[f]
    BY <1>1, <2>2, SizeLemma
  <2>4. f # c
    BY <1>3, <2>1, <2>3
  <2>5. f + sz[f] <= c \/ c + sz[c] <= f
    BY <1>1, <2>2, <2>4, Apart
  <2> QED BY <2>1, <2>3, <2>5
<1>4. \A f \in F : g.mem[f + sz[f] - 1] = h.mem[f + sz[f] - 1]
  <2> SUFFICES ASSUME NEW f \in F PROVE g.mem[f + sz[f] - 1] = h.mem[f + sz[f] - 1]
    OBVIOUS
  <2>1. f \in DOMAIN sz /\ sz[f] # 0
    BY <1>1 DEF Spaced
  <2>2. f \in Nat /\ sz[f] \in Nat /\ 4 <= sz[f]
    BY <1>1, <2>1, SizeLemma
  <2>3. f + sz[f] - 1 \in (f + 1)..(f + sz[f] - 1)
    BY <2>2
  <2> QED BY <1>3, <2>1, <2>3
<1>5. Tagged(g.mem, sz, F)
  BY <1>1, <1>2, <1>4 DEF Tagged
<1>6. Keeps(h, sz, g, sz, Used(sz, F))
  BY <1>3 DEF Keeps, Used
<1> QED BY <1>1, <1>5, <1>6 DEF Shape

---------------------------------------------------------------------------
(* The free lists: unlink and insert.                                      *)

\* __heap_unlink takes a block off its list, from whichever place it has in it.
LEMMA UnlinkLemma ==
  ASSUME NEW h, NEW sz, NEW F, NEW L, Well(h, sz, F, L), NEW b \in L, NEW g, g = Unlink(h, b)
  PROVE  Well(g, sz, F, L \ {b}) /\ LinksOnly(h, g, F) /\ SameRest(h, g)
<1>1. Tiled(sz) /\ Spaced(sz, F) /\ L \subseteq F /\ h \in Heaps /\ Shape(h, sz, F)
  BY DEF Well, Shape
<1>2. PICK top \in Nat : \E rank : Linked(h.mem, h.bins, sz, L, rank, top)
  BY DEF Well, Listed
<1>3. PICK rank : Linked(h.mem, h.bins, sz, L, rank, top)
  BY <1>2
<1>4. \A c \in L : /\ c \in Nat /\ 3 <= c /\ c + 4 <= MemWords /\ c \in DOMAIN sz
                   /\ sz[c] \in BlockSizes /\ Bin(sz[c]) \in 0..(NBINS - 1)
                   /\ SizeAt(h, c) = sz[c]
  <2> TAKE c \in L
  <2>1. c \in F /\ c \in DOMAIN sz /\ sz[c] # 0
    BY <1>1 DEF Spaced
  <2>2. c \in Nat /\ 3 <= c /\ 4 <= sz[c] /\ c + sz[c] <= MemWords /\ sz[c] \in Nat /\ sz[c] \in BlockSizes
    BY <1>1, <2>1, SizeLemma
  <2>3. SizeAt(h, c) = sz[c]
    BY <1>1, <2>1, ReadLemma
  <2>4. c + 4 <= MemWords
    BY <2>2, Geometry
  <2> QED BY <2>1, <2>2, <2>3, <2>4, BinLemma
<1>5. \A c, d \in L : c # d => c + 4 <= d \/ d + 4 <= c
  <2> SUFFICES ASSUME NEW c \in L, NEW d \in L, c # d PROVE c + 4 <= d \/ d + 4 <= c
    OBVIOUS
  <2>1. c \in DOMAIN sz /\ sz[c] # 0 /\ d \in DOMAIN sz /\ sz[d] # 0
    BY <1>1 DEF Spaced
  <2>2. c \in Nat /\ d \in Nat /\ 4 <= sz[c] /\ 4 <= sz[d] /\ sz[c] \in Nat /\ sz[d] \in Nat
    BY <1>1, <2>1, SizeLemma
  <2>3. c + sz[c] <= d \/ d + sz[d] <= c
    BY <1>1, <2>1, Apart
  <2> QED BY <2>2, <2>3
<1>6. PICK nxt, prv : nxt = h.mem[b + 1] /\ prv = h.mem[b + 2]
  OBVIOUS
<1>7. PICK bin \in 0..(NBINS - 1) : bin = Bin(sz[b]) /\ bin = Bin(SizeAt(h, b))
  BY <1>4
<1>8. /\ nxt # 0 => nxt \in L /\ h.mem[nxt + 2] = b /\ Bin(sz[nxt]) = bin /\ nxt # b
      /\ prv # 0 => prv \in L /\ h.mem[prv + 1] = b /\ prv # b
      /\ prv = 0 => h.bins[bin] = b
  <2>1. /\ nxt # 0 => nxt \in L /\ h.mem[nxt + 2] = b /\ Bin(sz[nxt]) = bin /\ rank[nxt] < rank[b]
        /\ prv # 0 => prv \in L /\ h.mem[prv + 1] = b
        /\ prv = 0 => h.bins[bin] = b
    BY <1>3, <1>6, <1>7 DEF Linked
  <2>2. nxt # 0 => nxt # b
    BY <1>3, <2>1 DEF Linked
  <2>3. prv # 0 => prv # b
    <3> SUFFICES ASSUME prv # 0, prv = b PROVE FALSE
      OBVIOUS
    <3>1. nxt = b
      BY <2>1, <1>6
    <3>2. b # 0
      BY <1>4
    <3> QED BY <2>2, <3>1, <3>2
  <2> QED BY <2>1, <2>2, <2>3
<1>9. h.mem \in [1..MemWords -> Int] /\ h.bins \in [0..(NBINS - 1) -> Nat]
  BY <1>1 DEF Heaps
<1>10. nxt \in Nat /\ prv \in Nat
  BY <1>4, <1>8
<1>11. PICK m : m = [w \in 1..MemWords |-> IF prv # 0 /\ w = prv + 1 THEN nxt
                                           ELSE IF nxt # 0 /\ w = nxt + 2 THEN prv ELSE h.mem[w]]
  OBVIOUS
<1>12. PICK bins : bins = [i \in 0..(NBINS - 1) |-> IF prv = 0 /\ i = bin THEN nxt ELSE h.bins[i]]
  OBVIOUS
<1>13. nxt # 0 /\ prv # 0 => prv + 1 # nxt + 2
  <2> SUFFICES ASSUME nxt # 0, prv # 0 PROVE prv + 1 # nxt + 2
    OBVIOUS
  <2>1. prv = nxt \/ prv + 4 <= nxt \/ nxt + 4 <= prv
    BY <1>5, <1>8
  <2> QED BY <1>10, <2>1
<1>14. g = [h EXCEPT !.mem = m, !.bins = bins]
  <2> DEFINE passed == IF prv # 0 THEN [h EXCEPT !.mem[prv + 1] = nxt] ELSE [h EXCEPT !.bins[bin] = nxt]
  <2>1. g = IF nxt = 0 THEN passed ELSE [passed EXCEPT !.mem[nxt + 2] = prv]
    BY <1>6, <1>7 DEF Unlink
  <2>2. PICK m1 : m1 = [w \in 1..MemWords |-> IF prv # 0 /\ w = prv + 1 THEN nxt ELSE h.mem[w]]
    OBVIOUS
  <2>3. m1 = IF prv # 0 THEN [h.mem EXCEPT ![prv + 1] = nxt] ELSE h.mem
    <3>1. prv # 0 => prv + 1 \in 1..MemWords
      BY <1>4, <1>8, Geometry
    <3> QED BY <1>9, <2>2, <3>1
  <2>4. m = IF nxt # 0 THEN [m1 EXCEPT ![nxt + 2] = prv] ELSE m1
    <3>1. nxt # 0 => nxt + 2 \in 1..MemWords
      BY <1>4, <1>8, Geometry
    <3> QED BY <1>11, <1>13, <2>2, <3>1
  <2>5. bins = IF prv = 0 THEN [h.bins EXCEPT ![bin] = nxt] ELSE h.bins
    BY <1>9, <1>12
  <2>6. passed = [h EXCEPT !.mem = m1, !.bins = bins]
    <3>1. CASE prv # 0
      BY <1>1, <2>3, <2>5, <3>1 DEF Heaps
    <3>2. CASE prv = 0
      BY <1>1, <2>3, <2>5, <3>2 DEF Heaps
    <3> QED BY <3>1, <3>2
  <2> HIDE DEF passed
  <2>7. CASE nxt = 0
    BY <2>1, <2>4, <2>6, <2>7
  <2>8. CASE nxt # 0
    BY <1>1, <2>1, <2>4, <2>6, <2>8 DEF Heaps
  <2> QED BY <2>7, <2>8
<1>15. m \in [1..MemWords -> Int] /\ bins \in [0..(NBINS - 1) -> Nat]
  <2>1. nxt \in Int /\ prv \in Int
    BY <1>10
  <2>2. \A w \in 1..MemWords : h.mem[w] \in Int
    BY <1>9
  <2>3. m \in [1..MemWords -> Int]
    BY <1>11, <2>1, <2>2
  <2> QED BY <1>9, <1>10, <1>12, <2>3
<1>16. g \in Heaps /\ SameRest(h, g) /\ g.mem = m /\ g.bins = bins
  BY <1>1, <1>14, <1>15 DEF Heaps, SameRest
<1>17. LinksOnly(h, g, F)
  BY <1>1, <1>8, <1>11, <1>16 DEF LinksOnly
<1>18. Linked(m, bins, sz, L \ {b}, rank, top)
  <2> DEFINE K == L \ {b}
  <2>1. \A c \in K : /\ c + 1 \in 1..MemWords /\ c + 2 \in 1..MemWords
    BY <1>4, Geometry
  <2>2. \A c \in K : /\ m[c + 1] = IF prv # 0 /\ c = prv THEN nxt ELSE h.mem[c + 1]
                     /\ m[c + 2] = IF nxt # 0 /\ c = nxt THEN prv ELSE h.mem[c + 2]
    <3> TAKE c \in K
    <3>1. nxt # 0 => c + 1 # nxt + 2
      BY <1>4, <1>5, <1>8, <1>10
    <3>2. prv # 0 => c + 2 # prv + 1
      BY <1>4, <1>5, <1>8, <1>10
    <3>3. c \in Nat /\ (c + 1 = prv + 1 => c = prv) /\ (c + 2 = nxt + 2 => c = nxt)
      BY <1>4, <1>10
    <3> QED BY <1>11, <2>1, <3>1, <3>2, <3>3
  <2>3. \A i \in 0..(NBINS - 1) : bins[i] # 0 => /\ bins[i] \in K /\ Bin(sz[bins[i]]) = i
                                                  /\ m[bins[i] + 2] = 0
    <3> SUFFICES ASSUME NEW i \in 0..(NBINS - 1), bins[i] # 0
                 PROVE  bins[i] \in K /\ Bin(sz[bins[i]]) = i /\ m[bins[i] + 2] = 0
      OBVIOUS
    <3>1. CASE prv = 0 /\ i = bin
      <4>1. bins[i] = nxt /\ nxt \in K
        BY <1>12, <1>8, <3>1
      <4>2. m[nxt + 2] = prv
        BY <2>2, <4>1, <1>4
      <4> QED BY <1>8, <3>1, <4>1, <4>2
    <3>2. CASE ~(prv = 0 /\ i = bin)
      <4>1. bins[i] = h.bins[i]
        BY <1>12, <3>2
      <4>2. bins[i] \in L /\ Bin(sz[bins[i]]) = i /\ h.mem[bins[i] + 2] = 0
        BY <1>3, <4>1 DEF Linked
      <4>3. bins[i] # b
        BY <1>6, <1>7, <3>2, <4>2
      <4>4. ~(nxt # 0 /\ bins[i] = nxt)
        <5>1. b # 0
          BY <1>4
        <5> QED BY <1>8, <4>2, <5>1
      <4> QED BY <2>2, <4>2, <4>3, <4>4
    <3> QED BY <3>1, <3>2
  <2>4. \A c \in K : rank[c] \in 0..top
    BY <1>3 DEF Linked
  <2>5. ASSUME NEW c \in K, m[c + 1] # 0
        PROVE  m[c + 1] \in K /\ m[m[c + 1] + 2] = c /\ Bin(sz[m[c + 1]]) = Bin(sz[c]) /\ rank[m[c + 1]] < rank[c]
    <3>1. CASE prv # 0 /\ c = prv
      <4>1. m[c + 1] = nxt /\ nxt # 0 /\ nxt \in K
        BY <1>8, <2>2, <2>5, <3>1
      <4>2. m[nxt + 2] = c
        BY <2>2, <3>1, <4>1
      <4>3. h.mem[c + 1] = b /\ b # 0
        BY <1>4, <1>8, <3>1
      <4>4. Bin(sz[b]) = Bin(sz[c]) /\ rank[b] < rank[c]
        BY <1>3, <4>3 DEF Linked
      <4>5. rank[nxt] < rank[b]
        BY <1>3, <1>6, <4>1 DEF Linked
      <4>6. rank[nxt] < rank[c]
        <5>1. rank[nxt] \in 0..top /\ rank[b] \in 0..top /\ rank[c] \in 0..top
          BY <1>3, <4>1 DEF Linked
        <5> QED BY <1>2, <4>4, <4>5, <5>1
      <4> QED BY <1>7, <1>8, <4>1, <4>2, <4>4, <4>6
    <3>2. CASE ~(prv # 0 /\ c = prv)
      <4>1. m[c + 1] = h.mem[c + 1]
        BY <2>2, <3>2
      <4>2. m[c + 1] \in L /\ h.mem[m[c + 1] + 2] = c /\ Bin(sz[m[c + 1]]) = Bin(sz[c]) /\ rank[m[c + 1]] < rank[c]
        BY <1>3, <2>5, <4>1 DEF Linked
      <4>3. m[c + 1] # b
        <5> SUFFICES ASSUME m[c + 1] = b PROVE FALSE
          OBVIOUS
        <5>1. prv = c /\ c # 0
          BY <1>4, <1>6, <4>2
        <5> QED BY <3>2, <5>1
      <4>4. ~(nxt # 0 /\ m[c + 1] = nxt)
        BY <1>8, <4>2
      <4> QED BY <2>2, <4>2, <4>3, <4>4
    <3> QED BY <3>1, <3>2
  <2>6. ASSUME NEW c \in K
        PROVE  IF m[c + 2] = 0 THEN bins[Bin(sz[c])] = c ELSE m[c + 2] \in K /\ m[m[c + 2] + 1] = c
    <3>0. Bin(sz[c]) \in 0..(NBINS - 1) /\ c # 0
      BY <1>4
    <3>1. CASE nxt # 0 /\ c = nxt
      <4>1. m[c + 2] = prv
        BY <2>2, <3>1
      <4>2. CASE prv = 0
        BY <1>8, <1>12, <3>0, <3>1, <4>1, <4>2
      <4>3. CASE prv # 0
        <5>1. prv \in K
          BY <1>8, <4>3
        <5>2. m[prv + 1] = c
          BY <2>2, <3>1, <4>3, <5>1
        <5> QED BY <4>1, <4>3, <5>1, <5>2
      <4> QED BY <4>2, <4>3
    <3>2. CASE ~(nxt # 0 /\ c = nxt)
      <4>1. m[c + 2] = h.mem[c + 2]
        BY <2>2, <3>2
      <4>2. CASE m[c + 2] = 0
        <5>1. h.bins[Bin(sz[c])] = c
          BY <1>3, <4>1, <4>2 DEF Linked
        <5>2. ~(prv = 0 /\ Bin(sz[c]) = bin)
          BY <1>8, <5>1
        <5> QED BY <1>12, <3>0, <4>2, <5>1, <5>2
      <4>3. CASE m[c + 2] # 0
        <5>1. m[c + 2] \in L /\ h.mem[m[c + 2] + 1] = c
          BY <1>3, <4>1, <4>3 DEF Linked
        <5>2. m[c + 2] # b
          BY <1>6, <3>0, <3>2, <5>1
        <5>3. ~(prv # 0 /\ m[c + 2] = prv)
          BY <1>8, <5>1
        <5> QED BY <2>2, <4>3, <5>1, <5>2, <5>3
      <4> QED BY <4>2, <4>3
    <3> QED BY <3>1, <3>2
  <2> QED BY <2>3, <2>4, <2>5, <2>6 DEF Linked
<1>19. Shape(g, sz, F)
  BY <1>1, <1>16, <1>17, LinksOnlyLemma
<1> QED BY <1>1, <1>16, <1>17, <1>18, <1>19 DEF Well, Listed

\* The first lines of __heap_insert: the head of the bin, and what it is.
LEMMA InsertLemma ==
  ASSUME NEW h, NEW sz, NEW F, NEW L, Well(h, sz, F, L), NEW b \in F \ L,
         NEW size, size = sz[b], NEW g, g = Insert(h, b, size)
  PROVE  Well(g, sz, F, L \cup {b}) /\ LinksOnly(h, g, F) /\ SameRest(h, g)
<1>1. Tiled(sz) /\ Spaced(sz, F) /\ L \subseteq F /\ h \in Heaps /\ Shape(h, sz, F)
  BY DEF Well, Shape
<1>2. PICK top \in Nat : \E rank : Linked(h.mem, h.bins, sz, L, rank, top)
  BY DEF Well, Listed
<1>3. PICK rank : Linked(h.mem, h.bins, sz, L, rank, top)
  BY <1>2
<1>4. \A c \in F : /\ c \in Nat /\ 3 <= c /\ c + 4 <= MemWords /\ c \in DOMAIN sz
                   /\ sz[c] \in BlockSizes /\ Bin(sz[c]) \in 0..(NBINS - 1)
  <2> TAKE c \in F
  <2>1. c \in DOMAIN sz /\ sz[c] # 0
    BY <1>1 DEF Spaced
  <2>2. c \in Nat /\ 3 <= c /\ 4 <= sz[c] /\ c + sz[c] <= MemWords /\ sz[c] \in Nat /\ sz[c] \in BlockSizes
    BY <1>1, <2>1, SizeLemma
  <2>3. c + 4 <= MemWords
    BY <2>2, Geometry
  <2> QED BY <2>1, <2>2, <2>3, BinLemma
<1>5. \A c, d \in F : c # d => c + 4 <= d \/ d + 4 <= c
  <2> SUFFICES ASSUME NEW c \in F, NEW d \in F, c # d PROVE c + 4 <= d \/ d + 4 <= c
    OBVIOUS
  <2>1. c \in DOMAIN sz /\ sz[c] # 0 /\ d \in DOMAIN sz /\ sz[d] # 0
    BY <1>1 DEF Spaced
  <2>2. c \in Nat /\ d \in Nat /\ 4 <= sz[c] /\ 4 <= sz[d] /\ sz[c] \in Nat /\ sz[d] \in Nat
    BY <1>1, <2>1, SizeLemma
  <2>3. c + sz[c] <= d \/ d + sz[d] <= c
    BY <1>1, <2>1, Apart
  <2> QED BY <2>2, <2>3
<1>6. PICK bin \in 0..(NBINS - 1) : bin = Bin(sz[b])
  BY <1>4
<1>7. PICK head : head = h.bins[bin]
  OBVIOUS
<1>8. head # 0 => head \in L /\ Bin(sz[head]) = bin /\ h.mem[head + 2] = 0 /\ head # b
  BY <1>3, <1>7 DEF Linked
<1>9. h.mem \in [1..MemWords -> Int] /\ h.bins \in [0..(NBINS - 1) -> Nat]
  BY <1>1 DEF Heaps
<1>10. head \in Nat /\ b \in Nat /\ b # 0
  <2>1. head \in Nat
    BY <1>7, <1>9
  <2>2. b \in Nat /\ 3 <= b
    BY <1>4
  <2> QED BY <2>1, <2>2
<1>11. PICK m : m = [w \in 1..MemWords |-> IF head # 0 /\ w = head + 2 THEN b
                                           ELSE IF w = b + 2 THEN 0
                                           ELSE IF w = b + 1 THEN head ELSE h.mem[w]]
  OBVIOUS
<1>12. PICK bins : bins = [i \in 0..(NBINS - 1) |-> IF i = bin THEN b ELSE h.bins[i]]
  OBVIOUS
<1>13. head # 0 => head + 4 <= b \/ b + 4 <= head
  BY <1>1, <1>5, <1>8
<1>14. g = [h EXCEPT !.mem = m, !.bins = bins]
  <2> DEFINE linked == [h EXCEPT !.mem[b + 1] = head, !.mem[b + 2] = 0, !.bins[bin] = b]
  <2>1. g = IF head = 0 THEN linked ELSE [linked EXCEPT !.mem[head + 2] = b]
    BY <1>6, <1>7 DEF Insert
  <2>2. PICK m1 : m1 = [w \in 1..MemWords |-> IF w = b + 2 THEN 0 ELSE IF w = b + 1 THEN head ELSE h.mem[w]]
    OBVIOUS
  <2>3. m1 = [[h.mem EXCEPT ![b + 1] = head] EXCEPT ![b + 2] = 0]
    <3>1. b + 1 \in 1..MemWords /\ b + 2 \in 1..MemWords /\ b + 1 # b + 2
      BY <1>4, <1>10, Geometry
    <3> QED BY <1>9, <2>2, <3>1
  <2>4. m = IF head # 0 THEN [m1 EXCEPT ![head + 2] = b] ELSE m1
    <3>1. head # 0 => head + 2 \in 1..MemWords
      BY <1>1, <1>4, <1>8, Geometry
    <3> QED BY <1>11, <2>2, <3>1
  <2>5. bins = [h.bins EXCEPT ![bin] = b]
    BY <1>9, <1>12
  <2>6. linked = [h EXCEPT !.mem = m1, !.bins = bins]
    BY <1>1, <2>3, <2>5 DEF Heaps
  <2> HIDE DEF linked
  <2>7. CASE head = 0
    BY <2>1, <2>4, <2>6, <2>7
  <2>8. CASE head # 0
    BY <1>1, <2>1, <2>4, <2>6, <2>8 DEF Heaps
  <2> QED BY <2>7, <2>8
<1>15. m \in [1..MemWords -> Int] /\ bins \in [0..(NBINS - 1) -> Nat]
  <2>1. head \in Int /\ b \in Int
    BY <1>10
  <2>2. \A w \in 1..MemWords : h.mem[w] \in Int
    BY <1>9
  <2>3. m \in [1..MemWords -> Int]
    BY <1>11, <2>1, <2>2
  <2> QED BY <1>9, <1>10, <1>12, <2>3
<1>16. g \in Heaps /\ SameRest(h, g) /\ g.mem = m /\ g.bins = bins
  BY <1>1, <1>14, <1>15 DEF Heaps, SameRest
<1>17. LinksOnly(h, g, F)
  BY <1>1, <1>8, <1>11, <1>16 DEF LinksOnly
<1>18. PICK up : up = [c \in L \cup {b} |-> IF c = b THEN top + 1 ELSE rank[c]]
  OBVIOUS
<1>19. Linked(m, bins, sz, L \cup {b}, up, top + 1)
  <2> DEFINE K == L \cup {b}
  <2>1. \A c \in K : c \in F /\ c + 1 \in 1..MemWords /\ c + 2 \in 1..MemWords
    BY <1>1, <1>4, Geometry
  <2>2. \A c \in K : /\ m[c + 1] = IF c = b THEN head ELSE h.mem[c + 1]
                     /\ m[c + 2] = IF head # 0 /\ c = head THEN b ELSE IF c = b THEN 0 ELSE h.mem[c + 2]
    <3> TAKE c \in K
    <3>1. c # b => c + 1 # b + 2 /\ c + 2 # b + 1 /\ c + 1 # b + 1 /\ c + 2 # b + 2
      <4> SUFFICES ASSUME c # b PROVE c + 1 # b + 2 /\ c + 2 # b + 1 /\ c + 1 # b + 1 /\ c + 2 # b + 2
        OBVIOUS
      <4>1. c \in F /\ b \in F
        BY <2>1
      <4>2. c \in Nat /\ (c + 4 <= b \/ b + 4 <= c)
        BY <1>4, <1>5, <4>1
      <4> QED BY <1>10, <4>2
    <3>2. head # 0 => c + 1 # head + 2 /\ (c # head => c + 2 # head + 2)
      <4> SUFFICES ASSUME head # 0 PROVE c + 1 # head + 2 /\ (c # head => c + 2 # head + 2)
        OBVIOUS
      <4>1. head \in F /\ c \in F
        BY <1>1, <1>8, <2>1
      <4>2. c = head \/ c + 4 <= head \/ head + 4 <= c
        BY <1>5, <4>1
      <4>3. c \in Nat
        BY <1>4, <4>1
      <4> QED BY <1>10, <4>2, <4>3
    <3>3. c = b => c + 1 # b + 2
      BY <1>10
    <3> QED BY <1>11, <2>1, <3>1, <3>2, <3>3
  <2>3. \A i \in 0..(NBINS - 1) : bins[i] # 0 => /\ bins[i] \in K /\ Bin(sz[bins[i]]) = i
                                                  /\ m[bins[i] + 2] = 0
    <3> SUFFICES ASSUME NEW i \in 0..(NBINS - 1), bins[i] # 0
                 PROVE  bins[i] \in K /\ Bin(sz[bins[i]]) = i /\ m[bins[i] + 2] = 0
      OBVIOUS
    <3>1. CASE i = bin
      <4>1. bins[i] = b /\ b \in K
        BY <1>12, <3>1
      <4>2. m[b + 2] = 0
        BY <2>2, <4>1, <1>8
      <4> QED BY <1>6, <3>1, <4>1, <4>2
    <3>2. CASE i # bin
      <4>1. bins[i] = h.bins[i]
        BY <1>12, <3>2
      <4>2. bins[i] \in L /\ Bin(sz[bins[i]]) = i /\ h.mem[bins[i] + 2] = 0
        BY <1>3, <4>1, <3>2 DEF Linked
      <4>3. ~(head # 0 /\ bins[i] = head)
        BY <1>8, <3>2, <4>2
      <4> QED BY <2>2, <4>2, <4>3
    <3> QED BY <3>1, <3>2
  <2>4. \A c \in K : up[c] \in 0..(top + 1)
    <3>1. \A c \in L : rank[c] \in 0..top
      BY <1>3 DEF Linked
    <3> QED BY <1>2, <1>18, <3>1
  <2>5. ASSUME NEW c \in K, m[c + 1] # 0
        PROVE  m[c + 1] \in K /\ m[m[c + 1] + 2] = c /\ Bin(sz[m[c + 1]]) = Bin(sz[c]) /\ up[m[c + 1]] < up[c]
    <3>1. CASE c = b
      <4>1. m[c + 1] = head /\ head # 0 /\ head \in K /\ head \in L /\ head # b
        BY <1>8, <2>2, <2>5, <3>1
      <4>2. m[head + 2] = c
        BY <2>2, <3>1, <4>1
      <4>3. up[head] < up[c]
        <5>1. rank[head] \in 0..top
          BY <1>3, <4>1 DEF Linked
        <5> QED BY <1>2, <1>18, <3>1, <4>1, <5>1
      <4> QED BY <1>6, <1>8, <3>1, <4>1, <4>2, <4>3
    <3>2. CASE c # b
      <4>1. m[c + 1] = h.mem[c + 1] /\ c \in L
        BY <2>2, <3>2
      <4>2. m[c + 1] \in L /\ h.mem[m[c + 1] + 2] = c /\ Bin(sz[m[c + 1]]) = Bin(sz[c]) /\ rank[m[c + 1]] < rank[c]
        BY <1>3, <2>5, <4>1 DEF Linked
      <4>3. m[c + 1] # b
        BY <4>2
      <4>4. ~(head # 0 /\ m[c + 1] = head)
        <5>1. c # 0
          BY <1>1, <1>4, <4>1
        <5> QED BY <1>8, <4>2, <5>1
      <4>5. up[m[c + 1]] = rank[m[c + 1]] /\ up[c] = rank[c]
        BY <1>18, <3>2, <4>1, <4>2, <4>3
      <4> QED BY <2>2, <4>2, <4>3, <4>4, <4>5
    <3> QED BY <3>1, <3>2
  <2>6. ASSUME NEW c \in K
        PROVE  IF m[c + 2] = 0 THEN bins[Bin(sz[c])] = c ELSE m[c + 2] \in K /\ m[m[c + 2] + 1] = c
    <3>0. Bin(sz[c]) \in 0..(NBINS - 1)
      BY <1>4, <2>1
    <3>1. CASE head # 0 /\ c = head
      <4>1. m[c + 2] = b /\ m[b + 1] = head
        BY <2>2, <3>1
      <4> QED BY <1>10, <3>1, <4>1
    <3>2. CASE c = b
      BY <1>6, <1>8, <1>12, <2>2, <3>2
    <3>3. CASE ~(head # 0 /\ c = head) /\ c # b
      <4>1. m[c + 2] = h.mem[c + 2] /\ c \in L
        BY <2>2, <3>3
      <4>2. CASE m[c + 2] = 0
        <5>1. h.bins[Bin(sz[c])] = c
          BY <1>3, <4>1, <4>2 DEF Linked
        <5>2. Bin(sz[c]) # bin
          <6>1. c # 0
            BY <1>4, <2>1
          <6> QED BY <1>7, <3>3, <5>1, <6>1
        <5> QED BY <1>12, <3>0, <4>2, <5>1, <5>2
      <4>3. CASE m[c + 2] # 0
        <5>1. m[c + 2] \in L /\ h.mem[m[c + 2] + 1] = c
          BY <1>3, <4>1, <4>3 DEF Linked
        <5>2. m[c + 2] # b
          BY <5>1
        <5> QED BY <2>2, <4>3, <5>1, <5>2
      <4> QED BY <4>2, <4>3
    <3> QED BY <3>1, <3>2, <3>3
  <2> QED BY <2>3, <2>4, <2>5, <2>6 DEF Linked
<1>20. Shape(g, sz, F)
  BY <1>1, <1>16, <1>17, LinksOnlyLemma
<1>21. Listed(g, sz, L \cup {b})
  <2>1. top + 1 \in Nat
    BY <1>2
  <2> QED BY <1>16, <1>19, <2>1 DEF Listed
<1> QED BY <1>1, <1>16, <1>17, <1>20, <1>21 DEF Well

---------------------------------------------------------------------------
(* Blocks split and joined: the words from b to e are tiled anew.          *)

Outside(b, e, c) == c < b \/ e <= c

Retiled(sz, sz2, b, e) ==
  /\ b \in DOMAIN sz /\ e \in DOMAIN sz /\ b < e /\ b \in DOMAIN sz2
  /\ \A c \in DOMAIN sz : Outside(b, e, c) => c \in DOMAIN sz2 /\ sz2[c] = sz[c]
  /\ \A c \in DOMAIN sz2 : c \in Nat /\ (Outside(b, e, c) => c \in DOMAIN sz)
  /\ \A c \in DOMAIN sz2 : b <= c /\ c < e => /\ sz2[c] \in Evens /\ 4 <= sz2[c]
                                              /\ c + sz2[c] \in DOMAIN sz2 /\ c + sz2[c] <= e
  /\ \A c, d \in DOMAIN sz2 : b <= c /\ c < d /\ d < e => c + sz2[c] <= d
  /\ \A c \in DOMAIN sz : b <= c /\ c < e => sz[c] # 0

\* Tiling the words of one stretch anew tiles the regions again.
LEMMA RetileLemma ==
  ASSUME NEW sz, NEW sz2, NEW b, NEW e, Tiled(sz), Retiled(sz, sz2, b, e),
         NEW rs, rs \in Seq([base : Nat, epi : Nat, words : Nat]), NEW brk, Regioned(rs, brk, sz)
  PROVE  Tiled(sz2) /\ Regioned(rs, brk, sz2)
<1>1. \A c \in DOMAIN sz : c \in Nat /\ 3 <= c /\ c <= MemWords /\ sz[c] \in Nat
  BY SizeLemma
<1>2. b \in Nat /\ e \in Nat /\ b < e /\ 3 <= b /\ e <= MemWords
  BY <1>1 DEF Retiled
<1>3. \A c \in DOMAIN sz2 : c \in Nat /\ sz2[c] \in Evens /\ sz2[c] \in Nat
                            /\ (Outside(b, e, c) \/ (b <= c /\ c < e))
  <2> TAKE c \in DOMAIN sz2
  <2>1. c \in Nat
    BY DEF Retiled
  <2>2. Outside(b, e, c) \/ (b <= c /\ c < e)
    BY <1>2, <2>1 DEF Outside
  <2>3. sz2[c] \in Evens
    <3>1. CASE Outside(b, e, c)
      BY <3>1 DEF Retiled, Tiled
    <3>2. CASE b <= c /\ c < e
      BY <3>2 DEF Retiled
    <3> QED BY <2>2, <3>1, <3>2
  <2> QED BY <2>1, <2>2, <2>3 DEF Evens
<1>4. DOMAIN sz2 \subseteq 3..MemWords
  <2> SUFFICES ASSUME NEW c \in DOMAIN sz2 PROVE c \in 3..MemWords
    OBVIOUS
  <2>1. CASE Outside(b, e, c)
    <3>1. c \in DOMAIN sz
      BY <2>1 DEF Retiled
    <3> QED BY <1>1, <3>1, Geometry
  <2>2. CASE b <= c /\ c < e
    BY <1>2, <1>3, <2>2, Geometry
  <2> QED BY <1>3, <2>1, <2>2
<1>5. \A c \in DOMAIN sz2 : sz2[c] # 0 => 4 <= sz2[c] /\ c + sz2[c] \in DOMAIN sz2
  <2> SUFFICES ASSUME NEW c \in DOMAIN sz2, sz2[c] # 0 PROVE 4 <= sz2[c] /\ c + sz2[c] \in DOMAIN sz2
    OBVIOUS
  <2>1. CASE Outside(b, e, c)
    <3>1. c \in DOMAIN sz /\ sz[c] = sz2[c]
      BY <2>1 DEF Retiled
    <3>2. 4 <= sz[c] /\ c + sz[c] \in DOMAIN sz
      BY <3>1 DEF Tiled
    <3>3. Outside(b, e, c + sz[c]) \/ c + sz[c] = b
      <4>1. c < b => c + sz[c] <= b
        BY <3>1 DEF Tiled, Retiled
      <4>2. c \in Nat /\ sz[c] \in Nat
        BY <1>1, <3>1
      <4> QED BY <1>2, <2>1, <4>1, <4>2 DEF Outside
    <3>4. c + sz[c] \in DOMAIN sz2
      BY <3>2, <3>3 DEF Retiled
    <3> QED BY <3>1, <3>2, <3>4
  <2>2. CASE b <= c /\ c < e
    BY <2>2 DEF Retiled
  <2> QED BY <1>3, <2>1, <2>2
<1>6. \A c, d \in DOMAIN sz2 : c < d => c + sz2[c] <= d
  <2> SUFFICES ASSUME NEW c \in DOMAIN sz2, NEW d \in DOMAIN sz2, c < d PROVE c + sz2[c] <= d
    OBVIOUS
  <2>0. c \in Nat /\ d \in Nat /\ sz2[c] \in Nat
    BY <1>3
  <2>1. CASE Outside(b, e, c)
    <3>1. c \in DOMAIN sz /\ sz[c] = sz2[c]
      BY <2>1 DEF Retiled
    <3>2. CASE Outside(b, e, d)
      <4>1. d \in DOMAIN sz
        BY <3>2 DEF Retiled
      <4> QED BY <3>1, <4>1 DEF Tiled
    <3>3. CASE b <= d /\ d < e
      <4>1. c < b
        BY <1>2, <2>0, <2>1, <3>3 DEF Outside
      <4>2. c + sz[c] <= b
        BY <3>1, <4>1 DEF Tiled, Retiled
      <4> QED BY <1>2, <2>0, <3>1, <3>3, <4>2
    <3> QED BY <1>3, <3>2, <3>3
  <2>2. CASE b <= c /\ c < e
    <3>1. CASE d < e
      BY <2>2, <3>1 DEF Retiled
    <3>2. CASE ~(d < e)
      <4>1. c + sz2[c] <= e
        BY <2>2 DEF Retiled
      <4> QED BY <1>2, <2>0, <3>2, <4>1
    <3> QED BY <3>1, <3>2
  <2> QED BY <1>3, <2>1, <2>2
<1>7. Tiled(sz2)
  BY <1>3, <1>4, <1>5, <1>6 DEF Tiled
<1>8. \A i \in DOMAIN rs : rs[i].base \in Nat /\ rs[i].epi \in Nat
  <2> SUFFICES ASSUME NEW i \in DOMAIN rs PROVE rs[i].base \in Nat /\ rs[i].epi \in Nat
    OBVIOUS
  <2>1. rs[i] \in [base : Nat, epi : Nat, words : Nat]
    <3>1. i \in 1..Len(rs)
      OBVIOUS
    <3> QED BY <3>1, ElementOfSeq
  <2> QED BY <2>1
<1>9. PICK j \in DOMAIN rs : Within(rs[j], b) /\ (sz[b] = 0 => b = rs[j].epi)
  BY DEF Regioned, Retiled
<1>10. rs[j].base <= b /\ b < rs[j].epi /\ e <= rs[j].epi
  <2>1. rs[j].base <= b /\ b <= rs[j].epi
    BY <1>9 DEF Within
  <2>2. sz[b] # 0 /\ sz[rs[j].epi] = 0 /\ rs[j].epi \in DOMAIN sz
    BY <1>2 DEF Retiled, Regioned
  <2>3. ~(b <= rs[j].epi /\ rs[j].epi < e)
    BY <2>2 DEF Retiled
  <2> QED BY SMTT(30), <1>2, <1>8, <2>1, <2>2, <2>3
<1>11. \A i \in DOMAIN rs : i # j => rs[i].epi < b \/ e < rs[i].base
  <2> SUFFICES ASSUME NEW i \in DOMAIN rs, i # j PROVE rs[i].epi < b \/ e < rs[i].base
    OBVIOUS
  <2>1. rs[i].epi < rs[j].base \/ rs[j].epi < rs[i].base
    <3>1. i < j \/ j < i
      OBVIOUS
    <3> QED BY <3>1 DEF Regioned
  <2>2. PICK ib \in Nat, ie \in Nat, jb \in Nat, je \in Nat :
             ib = rs[i].base /\ ie = rs[i].epi /\ jb = rs[j].base /\ je = rs[j].epi
    BY <1>8
  <2>3. (ie < jb \/ je < ib) /\ jb <= b /\ e <= je
    BY <1>10, <2>1, <2>2
  <2>4. ie < b \/ e < ib
    BY SMTT(30), <1>2, <2>3
  <2> QED BY <2>2, <2>4
<1>12. \A i \in DOMAIN rs : /\ Outside(b, e, rs[i].epi)
                            /\ Outside(b, e, rs[i].base) \/ rs[i].base = b
  <2> SUFFICES ASSUME NEW i \in DOMAIN rs
               PROVE  Outside(b, e, rs[i].epi) /\ (Outside(b, e, rs[i].base) \/ rs[i].base = b)
    OBVIOUS
  <2>1. rs[i].base < rs[i].epi
    BY DEF Regioned
  <2>2. CASE i = j
    BY SMTT(30), <1>2, <1>8, <1>10, <2>2 DEF Outside
  <2>3. CASE i # j
    <3>1. PICK ib \in Nat, ie \in Nat : ib = rs[i].base /\ ie = rs[i].epi
      BY <1>8
    <3>2. (ie < b \/ e < ib) /\ ib < ie
      BY <1>11, <2>1, <2>3, <3>1
    <3>3. Outside(b, e, ie) /\ Outside(b, e, ib)
      BY SMTT(30), <1>2, <3>2 DEF Outside
    <3> QED BY <3>1, <3>3
  <2> QED BY <2>2, <2>3
<1>13. \A i \in DOMAIN rs : /\ rs[i].base \in DOMAIN sz2 /\ rs[i].epi \in DOMAIN sz2
                            /\ rs[i].base < rs[i].epi /\ sz2[rs[i].epi] = 0 /\ rs[i].epi < brk
  BY <1>12 DEF Regioned, Retiled
<1>14. ASSUME NEW c \in DOMAIN sz2
       PROVE  \E i \in DOMAIN rs : Within(rs[i], c) /\ (sz2[c] = 0 => c = rs[i].epi)
  <2>1. CASE Outside(b, e, c)
    BY <2>1 DEF Regioned, Retiled
  <2>2. CASE b <= c /\ c < e
    <3>1. sz2[c] # 0
      <4>1. 4 <= sz2[c]
        BY <2>2 DEF Retiled
      <4> QED BY <4>1
    <3>2. Within(rs[j], c)
      BY SMTT(30), <1>2, <1>3, <1>8, <1>10, <2>2 DEF Within
    <3> QED BY <3>1, <3>2
  <2> QED BY <1>3, <2>1, <2>2
<1>15. \A i, k \in DOMAIN rs : i < k => rs[i].epi < rs[k].base
  BY DEF Regioned
<1>16. Regioned(rs, brk, sz2)
  BY <1>13, <1>14, <1>15 DEF Regioned
<1> QED BY <1>7, <1>16

\* What a change of the blocks between b and e must respect.
Change(h, sz, F, g, sz2, F2, b, e) ==
  /\ Retiled(sz, sz2, b, e)
  /\ F2 \subseteq DOMAIN sz2
  /\ \A c \in DOMAIN sz : Outside(b, e, c) => (c \in F2 <=> c \in F)
  /\ \A c \in F2 : b <= c /\ c < e => /\ c + sz2[c] \notin F2
                                      /\ g.mem[c + sz2[c] - 1] = sz2[c]
  /\ b \in F2 => b \notin Ends(sz, F)
  /\ g \in Heaps /\ SameRest(h, g) /\ g.bins = h.bins
  /\ \A w \in 1..MemWords : w < b \/ e < w => g.mem[w] = h.mem[w]
  /\ \A c \in DOMAIN sz2 : b <= c /\ c <= e => g.mem[c] = Tag(sz2, F2, c)

\* The used blocks elsewhere are the same, and as they were.
Changed(h, sz, F, g, sz2, F2, b, e) ==
  /\ Keeps(h, sz, g, sz2, {u \in Used(sz, F) : Outside(b, e, u)})
  /\ \A c : Outside(b, e, c) => (c \in Used(sz2, F2) <=> c \in Used(sz, F))

\* Such a change leaves a heap with true tags and lists.
LEMMA ChangeLemma ==
  ASSUME NEW h, NEW sz, NEW F, NEW L, Well(h, sz, F, L), NEW b, NEW e, NEW sz2, NEW F2, NEW g,
         Change(h, sz, F, g, sz2, F2, b, e), \A c \in L : Outside(b, e, c)
  PROVE  Well(g, sz2, F2, L) /\ Changed(h, sz, F, g, sz2, F2, b, e)
<1>1. Tiled(sz) /\ Spaced(sz, F) /\ L \subseteq F /\ h \in Heaps /\ Shape(h, sz, F)
      /\ Regioned(h.regions, h.brk, sz) /\ Tagged(h.mem, sz, F)
  BY DEF Well, Shape
<1>2. Retiled(sz, sz2, b, e) /\ g \in Heaps /\ SameRest(h, g) /\ g.bins = h.bins
  BY DEF Change
<1>3. Tiled(sz2) /\ Regioned(g.regions, g.brk, sz2)
  <2>1. h.regions \in Seq([base : Nat, epi : Nat, words : Nat])
    BY <1>1 DEF Heaps
  <2>2. Tiled(sz2) /\ Regioned(h.regions, h.brk, sz2)
    BY <1>1, <1>2, <2>1, RetileLemma
  <2> QED BY <1>2, <2>2 DEF SameRest
<1>4. b \in Nat /\ e \in Nat /\ b < e /\ b \in DOMAIN sz /\ e \in DOMAIN sz
  BY <1>1, <1>2, SizeLemma DEF Retiled
<1>5. \A c \in DOMAIN sz2 : /\ c \in Nat /\ 3 <= c /\ c <= MemWords /\ sz2[c] \in Nat
                            /\ Outside(b, e, c) => c \in DOMAIN sz /\ sz[c] = sz2[c]
                            /\ ~Outside(b, e, c) => b <= c /\ c < e /\ 4 <= sz2[c] /\ c + sz2[c] <= e
  <2> TAKE c \in DOMAIN sz2
  <2>1. c \in Nat /\ 3 <= c /\ c <= MemWords /\ sz2[c] \in Nat
    BY <1>3, SizeLemma
  <2>2. ~Outside(b, e, c) => b <= c /\ c < e
    BY <1>4, <2>1 DEF Outside
  <2> QED BY <1>2, <2>1, <2>2 DEF Retiled
<1>6. \A c \in DOMAIN sz : Outside(b, e, c) => c \in DOMAIN sz2 /\ sz2[c] = sz[c]
  BY <1>2 DEF Retiled
<1>7. F2 \subseteq DOMAIN sz2 /\ \A c \in F2 : /\ sz2[c] # 0
                                               /\ Outside(b, e, c) => c \in F
                                               /\ ~Outside(b, e, c) => /\ c + sz2[c] \notin F2
                                                                       /\ g.mem[c + sz2[c] - 1] = sz2[c]
  <2>1. F2 \subseteq DOMAIN sz2
    BY DEF Change
  <2>2. ASSUME NEW c \in F2, Outside(b, e, c) PROVE c \in F /\ sz2[c] # 0
    <3>1. c \in DOMAIN sz /\ sz[c] = sz2[c]
      BY <1>5, <2>1, <2>2
    <3>2. c \in F
      BY <2>2, <3>1 DEF Change
    <3> QED BY <1>1, <3>1, <3>2 DEF Spaced
  <2>3. ASSUME NEW c \in F2, ~Outside(b, e, c)
        PROVE  sz2[c] # 0 /\ c + sz2[c] \notin F2 /\ g.mem[c + sz2[c] - 1] = sz2[c]
    <3>1. b <= c /\ c < e /\ 4 <= sz2[c]
      BY <1>5, <2>1, <2>3
    <3> QED BY <3>1 DEF Change
  <2> QED BY <2>1, <2>2, <2>3
<1>8. \A c \in F : Outside(b, e, c) => c \in F2 /\ sz2[c] = sz[c]
  BY <1>1, <1>6 DEF Change, Spaced
<1>9. \A f \in F : f \in DOMAIN sz /\ sz[f] \in Nat /\ 4 <= sz[f] /\ f \in Nat /\ f + sz[f] \in DOMAIN sz
                   /\ f + sz[f] \in Nat
  <2> TAKE f \in F
  <2>1. f \in DOMAIN sz /\ sz[f] # 0
    BY <1>1 DEF Spaced
  <2> QED BY <1>1, <2>1, SizeLemma
<1>10. Spaced(sz2, F2)
  <2> SUFFICES ASSUME NEW f \in F2, Outside(b, e, f) PROVE f + sz2[f] \notin F2
    BY <1>7 DEF Spaced
  <2>1. f \in F /\ sz2[f] = sz[f]
    BY <1>7, <1>8
  <2>2. f + sz[f] \notin F /\ f + sz[f] \in DOMAIN sz
    BY <1>1, <1>9, <2>1 DEF Spaced
  <2>3. Outside(b, e, f + sz[f]) \/ f + sz[f] = b
    <3>1. f < b => f + sz[f] <= b
      BY <1>1, <1>4, <1>9, <2>1 DEF Tiled
    <3> QED BY <1>4, <1>9, <2>1, <3>1 DEF Outside
  <2>4. CASE Outside(b, e, f + sz[f])
    BY <2>1, <2>2, <2>4 DEF Change
  <2>5. CASE f + sz[f] = b
    BY <2>1, <2>5 DEF Change, Ends
  <2> QED BY <2>3, <2>4, <2>5
<1>11. ASSUME NEW c \in DOMAIN sz2, c < b \/ e < c PROVE g.mem[c] = Tag(sz2, F2, c)
  <2>1. c \in Nat /\ c \in DOMAIN sz /\ sz[c] = sz2[c] /\ Outside(b, e, c) /\ c \in 1..MemWords
    BY <1>4, <1>5, <1>11, Geometry DEF Outside
  <2>2. g.mem[c] = Tag(sz, F, c)
    BY <1>1, <1>11, <2>1 DEF Change, Tagged
  <2>3. c \in F2 <=> c \in F
    BY <2>1 DEF Change
  <2>4. ASSUME NEW f \in F, f + sz[f] = c PROVE c \in Ends(sz2, F2)
    <3>1. Outside(b, e, f)
      <4> SUFFICES ASSUME b <= f, f < e PROVE FALSE
        BY <1>4, <1>9 DEF Outside
      <4>1. f + sz[f] <= e
        BY <1>1, <1>4, <1>9 DEF Tiled
      <4> QED BY <1>4, <1>9, <1>11, <2>4, <4>1
    <3> QED BY <1>8, <2>4, <3>1 DEF Ends
  <2>5. ASSUME NEW f \in F2, f + sz2[f] = c PROVE c \in Ends(sz, F)
    <3>1. Outside(b, e, f)
      <4> SUFFICES ASSUME ~Outside(b, e, f) PROVE FALSE
        OBVIOUS
      <4>1. b <= f /\ f + sz2[f] <= e /\ 4 <= sz2[f] /\ f \in Nat /\ sz2[f] \in Nat
        BY <1>5, <1>7
      <4> QED BY <1>4, <1>11, <2>5, <4>1
    <3> QED BY <1>7, <1>8, <2>5, <3>1 DEF Ends
  <2>6. c \in Ends(sz2, F2) <=> c \in Ends(sz, F)
    BY <2>4, <2>5 DEF Ends
  <2> QED BY <2>1, <2>2, <2>3, <2>6 DEF Tag
<1>12. ASSUME NEW f \in F2 PROVE g.mem[f + sz2[f] - 1] = sz2[f]
  <2>1. CASE ~Outside(b, e, f)
    BY <1>7, <2>1
  <2>2. CASE Outside(b, e, f)
    <3>1. f \in F /\ sz2[f] = sz[f]
      BY <1>7, <1>8, <2>2
    <3>2. h.mem[f + sz[f] - 1] = sz[f]
      BY <1>1, <3>1 DEF Tagged
    <3>3. f + sz[f] - 1 < b \/ e < f + sz[f] - 1
      <4>1. f < b => f + sz[f] <= b
        BY <1>1, <1>4, <1>9, <3>1 DEF Tiled
      <4> QED BY <1>4, <1>9, <2>2, <3>1, <4>1 DEF Outside
    <3>4. f + sz[f] - 1 \in 1..MemWords
      <4>1. f + sz[f] <= MemWords
        BY <1>1, <1>9, <3>1, SizeLemma
      <4> QED BY <1>9, <3>1, <4>1, Geometry
    <3> QED BY <3>1, <3>2, <3>3, <3>4 DEF Change
  <2> QED BY <2>1, <2>2
<1>13. Shape(g, sz2, F2)
  <2>1. ASSUME NEW c \in DOMAIN sz2 PROVE g.mem[c] = Tag(sz2, F2, c)
    <3>1. CASE c < b \/ e < c
      BY <1>11, <3>1
    <3>2. CASE b <= c /\ c <= e
      BY <3>2 DEF Change
    <3> QED BY <1>4, <1>5, <3>1, <3>2
  <2>2. Tagged(g.mem, sz2, F2)
    BY <1>12, <2>1 DEF Tagged
  <2> QED BY <1>2, <1>3, <1>10, <2>2 DEF Shape
<1>14. \A c \in L : /\ c \in F2 /\ sz2[c] = sz[c] /\ g.mem[c + 1] = h.mem[c + 1]
                    /\ g.mem[c + 2] = h.mem[c + 2]
  <2> TAKE c \in L
  <2>1. c \in F /\ Outside(b, e, c)
    BY <1>1
  <2>2. c \in F2 /\ sz2[c] = sz[c] /\ sz[c] \in Nat /\ 4 <= sz[c] /\ c \in Nat
    BY <1>8, <1>9, <2>1
  <2>3. c < b => c + sz[c] <= b
    BY <1>1, <1>4, <1>9, <2>1 DEF Tiled
  <2>4. c + sz[c] <= MemWords
    BY <1>1, <1>9, <2>1, SizeLemma
  <2>5. c + 1 < b \/ e < c + 1
    BY <1>4, <2>1, <2>2, <2>3 DEF Outside
  <2>6. c + 2 < b \/ e < c + 2
    BY <1>4, <2>1, <2>2, <2>3 DEF Outside
  <2>7. c + 1 \in 1..MemWords /\ c + 2 \in 1..MemWords
    BY <2>2, <2>4, Geometry
  <2> QED BY <2>2, <2>5, <2>6, <2>7 DEF Change
<1>15. Listed(g, sz2, L)
  <2>1. PICK top \in Nat : \E rank : Linked(h.mem, h.bins, sz, L, rank, top)
    BY DEF Well, Listed
  <2>2. PICK rank : Linked(h.mem, h.bins, sz, L, rank, top)
    BY <2>1
  <2>3. Linked(g.mem, h.bins, sz2, L, rank, top)
    <3>1. \A i \in 0..(NBINS - 1) : h.bins[i] # 0 => /\ h.bins[i] \in L /\ Bin(sz2[h.bins[i]]) = i
                                                     /\ g.mem[h.bins[i] + 2] = 0
      BY <1>14, <2>2 DEF Linked
    <3>2. \A c \in L : g.mem[c + 1] # 0 => /\ g.mem[c + 1] \in L /\ g.mem[g.mem[c + 1] + 2] = c
                                           /\ Bin(sz2[g.mem[c + 1]]) = Bin(sz2[c])
                                           /\ rank[g.mem[c + 1]] < rank[c]
      BY <1>14, <2>2 DEF Linked
    <3>3. \A c \in L : IF g.mem[c + 2] = 0 THEN h.bins[Bin(sz2[c])] = c
                                           ELSE g.mem[c + 2] \in L /\ g.mem[g.mem[c + 2] + 1] = c
      BY <1>14, <2>2 DEF Linked
    <3>4. \A c \in L : rank[c] \in 0..top
      BY <2>2 DEF Linked
    <3> QED BY <3>1, <3>2, <3>3, <3>4 DEF Linked
  <2> QED BY <1>2, <2>3 DEF Listed
<1>16. Keeps(h, sz, g, sz2, {u \in Used(sz, F) : Outside(b, e, u)})
  <2> SUFFICES ASSUME NEW u \in Used(sz, F), Outside(b, e, u)
               PROVE  sz2[u] = sz[u] /\ \A w \in (u + 1)..(u + sz[u] - 1) : g.mem[w] = h.mem[w]
    BY DEF Keeps
  <2>1. u \in DOMAIN sz /\ sz[u] # 0
    BY DEF Used
  <2>2. u \in Nat /\ sz[u] \in Nat /\ u + sz[u] <= MemWords
    BY <1>1, <2>1, SizeLemma
  <2>3. u < b => u + sz[u] <= b
    BY <1>1, <1>4, <2>1 DEF Tiled
  <2>4. ASSUME NEW w \in (u + 1)..(u + sz[u] - 1) PROVE g.mem[w] = h.mem[w]
    <3>1. w \in 1..MemWords /\ (w < b \/ e < w)
      BY <1>4, <2>2, <2>3, Geometry DEF Outside
    <3> QED BY <3>1 DEF Change
  <2> QED BY <1>6, <2>1, <2>4
<1>17. \A c : Outside(b, e, c) => (c \in Used(sz2, F2) <=> c \in Used(sz, F))
  <2> SUFFICES ASSUME NEW c, Outside(b, e, c) PROVE c \in Used(sz2, F2) <=> c \in Used(sz, F)
    OBVIOUS
  <2>1. c \in DOMAIN sz <=> c \in DOMAIN sz2
    BY <1>5, <1>6
  <2>2. c \in DOMAIN sz => sz2[c] = sz[c] /\ (c \in F2 <=> c \in F)
    BY <1>6 DEF Change
  <2> QED BY <2>1, <2>2 DEF Used
<1>18. L \subseteq F2
  BY <1>14
<1> QED BY <1>13, <1>15, <1>16, <1>17, <1>18 DEF Well, Changed

\* One block from b to e.
Merged(sz, b, e) ==
  [c \in {c \in DOMAIN sz : Outside(b, e, c)} \cup {b} |-> IF c = b THEN e - b ELSE sz[c]]

\* The blocks of a stretch replaced by one of its whole length tile it.
LEMMA MergeLemma ==
  ASSUME NEW sz, Tiled(sz), NEW b \in DOMAIN sz, NEW e \in DOMAIN sz, b < e, e - b \in Evens,
         \A c \in DOMAIN sz : b <= c /\ c < e => sz[c] # 0,
         NEW sz2, sz2 = Merged(sz, b, e)
  PROVE  /\ Retiled(sz, sz2, b, e) /\ sz2[b] = e - b /\ 4 <= e - b
         /\ \A c \in DOMAIN sz2 : b <= c /\ c < e => c = b
<1>1. b \in Nat /\ e \in Nat /\ sz[b] \in Nat /\ sz[b] # 0
  BY SizeLemma
<1>2. 4 <= sz[b] /\ b + sz[b] <= e
  BY <1>1, SizeLemma DEF Tiled
<1>3. 4 <= e - b
  BY <1>1, <1>2
<1>4. \A c \in DOMAIN sz : c \in Nat
  BY SizeLemma
<1>5. DOMAIN sz2 = {c \in DOMAIN sz : Outside(b, e, c)} \cup {b}
      /\ \A c \in DOMAIN sz2 : sz2[c] = IF c = b THEN e - b ELSE sz[c]
  BY DEF Merged
<1>6. \A c \in DOMAIN sz2 : b <= c /\ c < e => c = b
  BY <1>1, <1>4, <1>5 DEF Outside
<1>7. \A c \in DOMAIN sz : Outside(b, e, c) => c \in DOMAIN sz2 /\ sz2[c] = sz[c]
  BY <1>1, <1>5 DEF Outside
<1>8. \A c \in DOMAIN sz2 : b <= c /\ c < e => /\ sz2[c] \in Evens /\ 4 <= sz2[c]
                                               /\ c + sz2[c] \in DOMAIN sz2 /\ c + sz2[c] <= e
  <2>1. b + (e - b) = e /\ e \in DOMAIN sz2
    BY <1>1, <1>5 DEF Outside
  <2> QED BY <1>1, <1>3, <1>5, <1>6, <2>1
<1>9. \A c \in DOMAIN sz2 : c \in Nat /\ (Outside(b, e, c) => c \in DOMAIN sz)
  BY <1>4, <1>5
<1>10. \A c, d \in DOMAIN sz2 : b <= c /\ c < d /\ d < e => c + sz2[c] <= d
  <2> SUFFICES ASSUME NEW c \in DOMAIN sz2, NEW d \in DOMAIN sz2, b <= c, c < d, d < e PROVE FALSE
    OBVIOUS
  <2>1. b <= d /\ c < e
    BY <1>1, <1>9
  <2>2. c = b /\ d = b
    BY <1>6, <2>1
  <2> QED BY <1>1, <2>2
<1>11. b \in DOMAIN sz2
  BY <1>5
<1>12. Retiled(sz, sz2, b, e)
  BY <1>7, <1>8, <1>9, <1>10, <1>11 DEF Retiled
<1> QED BY <1>3, <1>5, <1>6, <1>11, <1>12

\* The block b cut in two at m.
Cut(sz, b, m) ==
  [c \in DOMAIN sz \cup {m} |-> IF c = b THEN m - b ELSE IF c = m THEN b + sz[b] - m ELSE sz[c]]

\* A block replaced by two tiles the same stretch.
LEMMA CutLemma ==
  ASSUME NEW sz, Tiled(sz), NEW b \in DOMAIN sz, sz[b] # 0, NEW m \in Nat, m - b \in Evens, b + 4 <= m,
         m + 4 <= b + sz[b], NEW sz2, sz2 = Cut(sz, b, m)
  PROVE  /\ Retiled(sz, sz2, b, b + sz[b]) /\ m \in DOMAIN sz2
         /\ sz2[b] = m - b /\ sz2[m] = b + sz[b] - m
         /\ \A c \in DOMAIN sz2 : b <= c /\ c < b + sz[b] => c = b \/ c = m
<1>1. b \in Nat /\ sz[b] \in Nat /\ sz[b] % 2 = 0 /\ b + sz[b] \in DOMAIN sz
  BY SizeLemma
<1>2. PICK e \in Nat : e = b + sz[b]
  BY <1>1
<1>3. \A c \in DOMAIN sz : c \in Nat
  BY SizeLemma
<1>4. \A c \in DOMAIN sz : b <= c /\ c < e => c = b
  <2> SUFFICES ASSUME NEW c \in DOMAIN sz, b < c PROVE e <= c
    BY <1>1, <1>2, <1>3
  <2> QED BY <1>2 DEF Tiled
<1>5. m \notin DOMAIN sz /\ m # b /\ b < m /\ m < e
  <2>1. b < m /\ m < e
    BY <1>1, <1>2
  <2> QED BY <1>1, <1>4, <2>1
<1>6. DOMAIN sz2 = DOMAIN sz \cup {m}
      /\ \A c \in DOMAIN sz2 : sz2[c] = IF c = b THEN m - b ELSE IF c = m THEN e - m ELSE sz[c]
  <2>1. b + sz[b] - m = e - m
    BY <1>1, <1>2
  <2>2. sz2 = [c \in DOMAIN sz \cup {m} |-> IF c = b THEN m - b ELSE IF c = m THEN e - m ELSE sz[c]]
    BY <2>1 DEF Cut
  <2> QED BY <2>2
<1>7. m - b \in Evens /\ e - m \in Evens /\ 4 <= m - b /\ 4 <= e - m
  <2>1. m - b \in Nat /\ (m - b) % 2 = 0
    BY DEF Evens
  <2>2. e - m = sz[b] - (m - b) /\ e - m \in Nat /\ 4 <= e - m /\ 4 <= m - b
    BY <1>1, <1>2, <2>1
  <2>3. (e - m) % 2 = 0
    BY <1>1, <2>1, <2>2
  <2> QED BY <2>1, <2>2, <2>3 DEF Evens
<1>8. \A c \in DOMAIN sz2 : b <= c /\ c < e => c = b \/ c = m
  BY <1>4, <1>6
<1>9. \A c \in DOMAIN sz : Outside(b, e, c) => c \in DOMAIN sz2 /\ sz2[c] = sz[c]
  BY <1>1, <1>2, <1>5, <1>6 DEF Outside
<1>10. \A c \in DOMAIN sz2 : c \in Nat /\ (Outside(b, e, c) => c \in DOMAIN sz)
  BY <1>1, <1>2, <1>3, <1>5, <1>6 DEF Outside
<1>11. \A c \in DOMAIN sz2 : b <= c /\ c < e => /\ sz2[c] \in Evens /\ 4 <= sz2[c]
                                                /\ c + sz2[c] \in DOMAIN sz2 /\ c + sz2[c] <= e
  <2>1. b + (m - b) = m /\ m + (e - m) = e /\ m <= e
    BY <1>1, <1>2, <1>5
  <2>2. sz2[b] = m - b /\ sz2[m] = e - m
    BY <1>5, <1>6
  <2> QED BY <1>1, <1>2, <1>6, <1>7, <1>8, <2>1, <2>2
<1>12. \A c, d \in DOMAIN sz2 : b <= c /\ c < d /\ d < e => c + sz2[c] <= d
  <2> SUFFICES ASSUME NEW c \in DOMAIN sz2, NEW d \in DOMAIN sz2, b <= c, c < d, d < e
               PROVE  c + sz2[c] <= d
    OBVIOUS
  <2>1. c \in Nat /\ d \in Nat
    BY <1>10
  <2>2. b <= d /\ c < e
    BY <1>1, <1>2, <2>1
  <2>3. (c = b \/ c = m) /\ (d = b \/ d = m)
    BY <1>8, <2>2
  <2>4. c = b /\ d = m
    BY <1>1, <1>5, <2>1, <2>3
  <2>5. sz2[b] = m - b
    BY <1>5, <1>6
  <2> QED BY <1>1, <2>4, <2>5
<1>13. b \in DOMAIN sz2 /\ e \in DOMAIN sz /\ b < e
  BY <1>1, <1>2, <1>5, <1>6
<1>14. Retiled(sz, sz2, b, e)
  BY <1>4, <1>9, <1>10, <1>11, <1>12, <1>13 DEF Retiled
<1>15. m \in DOMAIN sz2 /\ sz2[b] = m - b /\ sz2[m] = e - m
  BY <1>5, <1>6
<1>16. Retiled(sz, sz2, b, b + sz[b])
  BY ONLY <1>2, <1>14
<1>17. sz2[m] = b + sz[b] - m
  BY <1>1, <1>2, <1>15
<1>18. \A c \in DOMAIN sz2 : b <= c /\ c < b + sz[b] => c = b \/ c = m
  BY ONLY <1>2, <1>8
<1> QED BY <1>15, <1>16, <1>17, <1>18

\* A heap with other words in its memory.
LEMMA WriteLemma ==
  ASSUME NEW h \in Heaps, NEW m \in [1..MemWords -> Int], NEW g, g = [h EXCEPT !.mem = m]
  PROVE  g \in Heaps /\ SameRest(h, g) /\ g.mem = m /\ g.bins = h.bins
BY DEF Heaps, SameRest

\* What one store into the memory array changes.
LEMMA PutLemma ==
  ASSUME NEW h \in Heaps, NEW a \in 1..MemWords, NEW v \in Int, NEW g, g = [h EXCEPT !.mem[a] = v]
  PROVE  /\ g \in Heaps /\ SameRest(h, g) /\ g.bins = h.bins
         /\ \A w \in 1..MemWords : g.mem[w] = IF w = a THEN v ELSE h.mem[w]
<1>1. h.mem \in [1..MemWords -> Int]
  BY DEF Heaps
<1>2. PICK m : m = [w \in 1..MemWords |-> IF w = a THEN v ELSE h.mem[w]]
  OBVIOUS
<1>3. m = [h.mem EXCEPT ![a] = v] /\ m \in [1..MemWords -> Int]
  BY <1>1, <1>2
<1>4. g = [h EXCEPT !.mem = m]
  BY <1>3 DEF Heaps
<1>5. g \in Heaps /\ SameRest(h, g) /\ g.mem = m /\ g.bins = h.bins
  BY <1>3, <1>4 DEF Heaps, SameRest
<1> QED BY <1>2, <1>5

---------------------------------------------------------------------------
(* __heap_free.                                                            *)

\* Sizes stay even when blocks are joined or cut.
LEMMA EvenSum ==
  ASSUME NEW x \in Evens, NEW y \in Evens
  PROVE  x + y \in Evens /\ (y <= x => x - y \in Evens)
BY DEF Evens

\* What two steps in a row keep, both together keep.
LEMMA KeepsTrans ==
  ASSUME NEW h, NEW sz, NEW g, NEW sz2, NEW k, NEW sz3, NEW U,
         Keeps(h, sz, g, sz2, U), Keeps(g, sz2, k, sz3, U)
  PROVE  Keeps(h, sz, k, sz3, U)
BY DEF Keeps

\* To keep some blocks is to keep fewer of them.
LEMMA KeepsSubset ==
  ASSUME NEW h, NEW sz, NEW g, NEW sz2, NEW U, NEW V, V \subseteq U, Keeps(h, sz, g, sz2, U)
  PROVE  Keeps(h, sz, g, sz2, V)
BY DEF Keeps

\* Two steps that leave the control block alone leave it alone together.
LEMMA RestTrans ==
  ASSUME NEW h, NEW g, NEW k, SameRest(h, g), SameRest(g, k)
  PROVE  SameRest(h, k)
BY DEF SameRest

\* On the way through free: the free blocks next to b are off their lists, and
\* together with b they are the words from x.b on.
Joined(h, sz, F, x, b) ==
  /\ SameRest(h, x.heap) /\ Keeps(h, sz, x.heap, sz, Used(sz, F))
  /\ x.b \in DOMAIN sz /\ x.b <= b /\ b < x.b + x.size
  /\ x.size \in Evens /\ x.b + x.size \in DOMAIN sz
  /\ \A c \in DOMAIN sz : x.b <= c /\ c < x.b + x.size => c = b \/ c \in F
  /\ Well(x.heap, sz, F, {f \in F : Outside(x.b, x.b + x.size, f)})

\* __heap_free, forward: a free block that follows is unlinked and joined.
LEMMA WithNextLemma ==
  ASSUME NEW h, NEW sz, NEW F, Well(h, sz, F, F), NEW b \in Used(sz, F),
         NEW x, x = WithNext(h, b, SizeAt(h, b))
  PROVE  Joined(h, sz, F, x, b) /\ x.b = b /\ x.b + x.size \notin F
<1>1. Tiled(sz) /\ Spaced(sz, F) /\ Shape(h, sz, F) /\ b \in DOMAIN sz /\ sz[b] # 0 /\ b \notin F
  BY DEF Well, Shape, Used
<1>2. b \in Nat /\ sz[b] \in Nat /\ 4 <= sz[b] /\ b + sz[b] \in DOMAIN sz /\ SizeAt(h, b) = sz[b]
      /\ sz[b] \in Evens
  <2>1. b \in Nat /\ sz[b] \in Nat /\ sz[b] % 2 = 0 /\ 4 <= sz[b] /\ b + sz[b] \in DOMAIN sz
    BY <1>1, SizeLemma
  <2> QED BY <1>1, <2>1, ReadLemma DEF Evens
<1>3. PICK n \in DOMAIN sz : n = b + sz[b]
  BY <1>2
<1>4. n \in Nat /\ sz[n] \in Nat /\ SizeAt(h, n) = sz[n] /\ (IsFree(h, n) <=> n \in F)
      /\ sz[n] \in Evens
  <2>1. n \in Nat /\ sz[n] \in Nat /\ sz[n] % 2 = 0
    BY <1>1, SizeLemma
  <2> QED BY <1>1, <2>1, ReadLemma DEF Evens
<1>5. \A c \in DOMAIN sz : c \in Nat
  BY <1>1, SizeLemma
<1>6. \A c \in DOMAIN sz : b <= c /\ c < n => c = b
  <2> SUFFICES ASSUME NEW c \in DOMAIN sz, b < c PROVE n <= c
    BY <1>2, <1>4, <1>5
  <2> QED BY <1>1, <1>3 DEF Tiled
<1>7. CASE n \notin F
  <2>1. x = [heap |-> h, b |-> b, size |-> sz[b]]
    BY <1>2, <1>3, <1>4, <1>7 DEF WithNext
  <2>2. x.heap = h /\ x.b = b /\ x.size = sz[b]
    BY <2>1
  <2>3. {f \in F : Outside(b, n, f)} = F
    <3> SUFFICES ASSUME NEW f \in F PROVE Outside(b, n, f)
      OBVIOUS
    <3>1. f \in DOMAIN sz /\ f # b
      BY <1>1 DEF Spaced
    <3> QED BY <1>2, <1>4, <1>5, <1>6, <3>1 DEF Outside
  <2>4. SameRest(h, h) /\ Keeps(h, sz, h, sz, Used(sz, F))
    BY DEF SameRest, Keeps
  <2>5. b <= b /\ b < n /\ Well(h, sz, F, {f \in F : Outside(b, n, f)})
    BY <1>2, <1>3, <2>3
  <2>6. x.b + x.size = n
    BY <1>3, <2>2
  <2> QED BY <1>1, <1>2, <1>6, <1>7, <2>2, <2>4, <2>5, <2>6 DEF Joined
<1>8. CASE n \in F
  <2>1. PICK u : u = Unlink(h, n)
    OBVIOUS
  <2>2. x = [heap |-> u, b |-> b, size |-> sz[b] + sz[n]]
    BY <1>2, <1>3, <1>4, <1>8, <2>1 DEF WithNext
  <2>3. x.heap = u /\ x.b = b /\ x.size = sz[b] + sz[n]
    BY <2>2
  <2>4. Well(u, sz, F, F \ {n}) /\ LinksOnly(h, u, F) /\ SameRest(h, u)
    BY <1>8, <2>1, UnlinkLemma
  <2>5. Keeps(h, sz, u, sz, Used(sz, F))
    <3>1. u \in Heaps
      BY <2>4 DEF Well, Shape
    <3> QED BY <1>1, <2>4, <3>1, LinksOnlyLemma
  <2>6. sz[n] # 0 /\ n + sz[n] \notin F
    BY <1>1, <1>8 DEF Spaced
  <2>7. PICK e \in DOMAIN sz : e = n + sz[n]
    BY <1>1, <1>3, <2>6, SizeLemma
  <2>8. e \in Nat /\ n < e /\ b + (sz[b] + sz[n]) = e
    BY <1>1, <1>2, <1>3, <1>4, <2>6, <2>7, SizeLemma
  <2>9. \A c \in DOMAIN sz : b <= c /\ c < e => c = b \/ c = n
    <3> SUFFICES ASSUME NEW c \in DOMAIN sz, b <= c, c < e, c # b PROVE c = n
      OBVIOUS
    <3>1. n <= c
      BY <1>2, <1>4, <1>5, <1>6
    <3>2. n < c => e <= c
      BY <1>1, <2>7 DEF Tiled
    <3> QED BY <1>4, <1>5, <2>8, <3>1, <3>2
  <2>10. {f \in F : Outside(b, e, f)} = F \ {n}
    <3>1. ~Outside(b, e, n)
      BY <1>2, <1>3, <1>4, <2>8 DEF Outside
    <3>2. ASSUME NEW f \in F, f # n PROVE Outside(b, e, f)
      <4>1. f \in DOMAIN sz /\ f # b
        BY <1>1 DEF Spaced
      <4> QED BY <1>2, <1>5, <2>8, <2>9, <3>2, <4>1 DEF Outside
    <3> QED BY <3>1, <3>2
  <2>11. x.b + x.size = e /\ x.size \in Evens
    BY <1>2, <1>4, <2>3, <2>8, EvenSum
  <2>12. b <= b /\ b < e
    BY <1>2, <1>3, <1>4, <2>8
  <2>13. Well(u, sz, F, {f \in F : Outside(b, e, f)})
    BY <2>4, <2>10
  <2> QED BY <1>1, <1>8, <2>3, <2>4, <2>5, <2>6, <2>7, <2>9, <2>11, <2>12, <2>13 DEF Joined
<1> QED BY <1>7, <1>8

\* __heap_free, backward: PINUSE = 0 means that the word below is the footer of a free
\* block, which is unlinked and joined.
LEMMA WithPreviousLemma ==
  ASSUME NEW h, NEW sz, NEW F, Shape(h, sz, F), NEW b \in Used(sz, F), NEW x, Joined(h, sz, F, x, b), x.b = b,
         x.b + x.size \notin F, NEW y, y = WithPrevious(x)
  PROVE  Joined(h, sz, F, y, b) /\ y.b + y.size \notin F /\ y.b \notin Ends(sz, F)
<1>1. Tiled(sz) /\ Spaced(sz, F) /\ b \in DOMAIN sz /\ b \notin F
  BY DEF Shape, Used
<1>2. PICK e \in DOMAIN sz : e = x.b + x.size
  BY DEF Joined
<1>3. /\ SameRest(h, x.heap) /\ Keeps(h, sz, x.heap, sz, Used(sz, F)) /\ b < e
      /\ x.size \in Evens /\ e \notin F /\ e = b + x.size
      /\ \A c \in DOMAIN sz : b <= c /\ c < e => c = b \/ c \in F
      /\ Well(x.heap, sz, F, {f \in F : Outside(b, e, f)})
  BY ONLY <1>2, x.b = b, Joined(h, sz, F, x, b), x.b + x.size \notin F DEF Joined
<1>4. Shape(x.heap, sz, F) /\ Tagged(x.heap.mem, sz, F)
  BY <1>3 DEF Well, Shape
<1>5. Flag(x.heap.mem[b], PINUSE) = IF b \in Ends(sz, F) THEN 0 ELSE 2
  BY <1>1, <1>4, ReadLemma
<1>6. CASE b \notin Ends(sz, F)
  <2>1. y = x
    BY <1>5, <1>6 DEF WithPrevious
  <2> QED BY <1>6, <2>1
<1>7. CASE b \in Ends(sz, F)
  <2>1. PICK p \in F : p + sz[p] = b
    BY <1>7 DEF Ends
  <2>2. p \in DOMAIN sz /\ sz[p] # 0
    BY <1>1 DEF Spaced
  <2>3. p \in Nat /\ sz[p] \in Nat /\ 4 <= sz[p] /\ sz[p] \in Evens
    <3>1. p \in Nat /\ sz[p] \in Nat /\ sz[p] % 2 = 0 /\ 4 <= sz[p]
      BY <1>1, <2>2, SizeLemma
    <3> QED BY <3>1 DEF Evens
  <2>4. b \in Nat /\ e \in Nat /\ \A c \in DOMAIN sz : c \in Nat
    BY <1>1, SizeLemma
  <2>5. x.heap.mem[b - 1] = sz[p] /\ b - sz[p] = p
    BY <1>4, <2>1, <2>3 DEF Tagged
  <2>6. PICK u : u = Unlink(x.heap, p)
    OBVIOUS
  <2>7. y = [heap |-> u, b |-> p, size |-> x.size + sz[p]]
    BY <1>5, <1>7, <2>5, <2>6 DEF WithPrevious
  <2>8. y.heap = u /\ y.b = p /\ y.size = x.size + sz[p]
    BY <2>7
  <2>9. Outside(b, e, p)
    BY <2>1, <2>3, <2>4 DEF Outside
  <2>10. /\ Well(u, sz, F, {f \in F : Outside(b, e, f)} \ {p})
         /\ LinksOnly(x.heap, u, F) /\ SameRest(x.heap, u)
    <3>1. p \in {f \in F : Outside(b, e, f)}
      BY <2>9
    <3> QED BY <1>3, <2>6, <3>1, UnlinkLemma
  <2>11. Keeps(x.heap, sz, u, sz, Used(sz, F))
    <3>1. u \in Heaps
      BY <2>10 DEF Well, Shape
    <3> QED BY <1>4, <2>10, <3>1, LinksOnlyLemma
  <2>12. Keeps(h, sz, u, sz, Used(sz, F)) /\ SameRest(h, u)
    BY <1>3, <2>10, <2>11, KeepsTrans, RestTrans
  <2>13. \A c \in DOMAIN sz : p <= c /\ c < b => c = p
    <3> SUFFICES ASSUME NEW c \in DOMAIN sz, p < c PROVE b <= c
      BY <2>3, <2>4
    <3> QED BY <1>1, <2>1, <2>2 DEF Tiled
  <2>14. \A c \in DOMAIN sz : p <= c /\ c < e => c = b \/ c = p \/ (b <= c /\ c < e)
    BY <2>3, <2>4, <2>13
  <2>15. {f \in F : Outside(p, e, f)} = {f \in F : Outside(b, e, f)} \ {p}
    <3>1. ASSUME NEW f \in F PROVE Outside(p, e, f) <=> Outside(b, e, f) /\ f # p
      <4>1. f \in DOMAIN sz /\ f \in Nat /\ f # b
        BY <1>1, <2>4 DEF Spaced
      <4>2. p < b /\ p < e
        BY <1>3, <2>1, <2>3, <2>4
      <4> QED BY <2>3, <2>4, <2>13, <4>1, <4>2 DEF Outside
    <3> QED BY <3>1
  <2>16. y.b + y.size = e /\ y.size \in Evens
    <3>1. x.size \in Nat /\ p + (x.size + sz[p]) = e
      BY <1>3, <2>1, <2>3, <2>4 DEF Evens
    <3> QED BY <1>3, <2>3, <2>8, <3>1, EvenSum
  <2>17. p <= b /\ Well(u, sz, F, {f \in F : Outside(p, e, f)})
    BY <2>1, <2>3, <2>4, <2>10, <2>15
  <2>18. p \notin Ends(sz, F)
    BY <1>1, <2>1 DEF Ends, Spaced
  <2>19. \A c \in DOMAIN sz : p <= c /\ c < e => c = b \/ c \in F
    BY <1>3, <2>1, <2>14
  <2> QED BY <1>3, <2>2, <2>8, <2>12, <2>16, <2>17, <2>18, <2>19 DEF Joined
<1> QED BY <1>6, <1>7

\* What an entry point leaves: a heap with true tags and all free blocks listed, whose
\* used blocks are V, those of U as they were.
Leaves(h, sz, g, U, V) ==
  \E sz2, F2 : Well(g, sz2, F2, F2) /\ Used(sz2, F2) = V /\ Keeps(h, sz, g, sz2, U)

\* __heap_free, the end: the joined block is tagged and listed, and is all that changed.
LEMMA FileLemma ==
  ASSUME NEW h, NEW sz, NEW F, Shape(h, sz, F), NEW b \in Used(sz, F), NEW x, Joined(h, sz, F, x, b),
         x.b + x.size \notin F, x.b \notin Ends(sz, F), NEW g, g = File(x)
  PROVE  SameRest(h, g) /\ Leaves(h, sz, g, Used(sz, F) \ {b}, Used(sz, F) \ {b})
<1>1. Tiled(sz) /\ Spaced(sz, F) /\ b \in DOMAIN sz /\ b \notin F /\ sz[b] # 0
  BY DEF Shape, Used
<1>0. PICK k : k = x.heap
  OBVIOUS
<1>2. PICK a \in DOMAIN sz, e \in DOMAIN sz : a = x.b /\ e = x.b + x.size /\ k = x.heap
  BY <1>0 DEF Joined
<1>3. /\ SameRest(h, k) /\ Keeps(h, sz, k, sz, Used(sz, F)) /\ a <= b /\ b < e
      /\ x.size \in Evens /\ e = a + x.size /\ e \notin F /\ a \notin Ends(sz, F)
      /\ \A c \in DOMAIN sz : a <= c /\ c < e => c = b \/ c \in F
      /\ Well(k, sz, F, {f \in F : Outside(a, e, f)})
  BY ONLY <1>2, Joined(h, sz, F, x, b), x.b + x.size \notin F, x.b \notin Ends(sz, F) DEF Joined
<1>4. a \in Nat /\ e \in Nat /\ 3 <= a /\ e <= MemWords /\ x.size \in Nat /\ e - a = x.size /\ a < e
      /\ b \in Nat
  <2>1. a \in Nat /\ e \in Nat /\ 3 <= a /\ e <= MemWords /\ b \in Nat
    BY <1>1, SizeLemma
  <2>2. x.size \in Nat
    BY <1>3 DEF Evens
  <2> QED BY <1>3, <2>1, <2>2
<1>5. \A c \in DOMAIN sz : a <= c /\ c < e => sz[c] # 0
  BY <1>1, <1>3 DEF Spaced
<1>6. PICK sz2 : sz2 = Merged(sz, a, e)
  OBVIOUS
<1>7. /\ Retiled(sz, sz2, a, e) /\ sz2[a] = x.size /\ 4 <= x.size
      /\ \A c \in DOMAIN sz2 : a <= c /\ c < e => c = a
  <2>1. /\ Retiled(sz, sz2, a, e) /\ sz2[a] = e - a /\ 4 <= e - a
        /\ \A c \in DOMAIN sz2 : a <= c /\ c < e => c = a
    BY <1>1, <1>3, <1>4, <1>5, <1>6, MergeLemma
  <2> QED BY <1>4, <2>1
<1>8. PICK F2 : F2 = {f \in F : Outside(a, e, f)} \cup {a}
  OBVIOUS
<1>9. Shape(k, sz, F) /\ k \in Heaps
  BY <1>3 DEF Well, Shape
<1>10. Flag(k.mem[a], PINUSE) = 2
  BY <1>3, <1>9, ReadLemma
<1>11. PICK p : p = Flag(k.mem[e], PINUSE) /\ k.mem[e] = 2 * sz[e] + p + 1 /\ p \in {0, 2}
  <2>1. Flag(k.mem[e], PINUSE) = IF e \in Ends(sz, F) THEN 0 ELSE 2
    BY <1>9, ReadLemma
  <2>2. k.mem[e] = 2 * sz[e] + (IF e \in Ends(sz, F) THEN 0 ELSE 2) + 1
    BY <1>3, <1>9 DEF Shape, Tagged, Tag
  <2> QED BY <2>1, <2>2
<1>12. PICK k1, k2, filed : /\ k1 = [k EXCEPT !.mem[a] = Header(x.size, Flag(@, PINUSE))]
                            /\ k2 = [k1 EXCEPT !.mem[a + x.size - 1] = x.size]
                            /\ filed = [k2 EXCEPT !.mem[a + x.size] = @ - Flag(@, PINUSE)]
  OBVIOUS
<1>14. a \in 1..MemWords /\ e - 1 \in 1..MemWords /\ e \in 1..MemWords /\ a # e - 1 /\ a # e /\ e # e - 1
       /\ a + x.size - 1 = e - 1 /\ a + x.size = e
  BY <1>3, <1>4, <1>7, Geometry
<1>15. /\ k1 \in Heaps /\ SameRest(k, k1) /\ k1.bins = k.bins
       /\ \A w \in 1..MemWords : k1.mem[w] = IF w = a THEN 2 * x.size + 2 ELSE k.mem[w]
  <2>1. k1 = [k EXCEPT !.mem[a] = Header(x.size, Flag(k.mem[a], PINUSE))]
    BY <1>12
  <2>2. Header(x.size, Flag(k.mem[a], PINUSE)) = 2 * x.size + 2 /\ 2 * x.size + 2 \in Int
    BY <1>4, <1>10 DEF Header
  <2> QED BY <1>9, <1>14, <2>1, <2>2, PutLemma
<1>16. /\ k2 \in Heaps /\ SameRest(k1, k2) /\ k2.bins = k1.bins
       /\ \A w \in 1..MemWords : k2.mem[w] = IF w = e - 1 THEN x.size ELSE k1.mem[w]
  <2>0. a + x.size - 1 = e - 1
    BY <1>14
  <2>1. k2 = [k1 EXCEPT !.mem[e - 1] = x.size]
    BY ONLY <1>12, <2>0
  <2>2. x.size \in Int
    BY <1>4
  <2> QED BY <1>14, <1>15, <2>1, <2>2, PutLemma
<1>17. /\ filed \in Heaps /\ SameRest(k2, filed) /\ filed.bins = k2.bins
       /\ \A w \in 1..MemWords : filed.mem[w] = IF w = e THEN 2 * sz[e] + 1 ELSE k2.mem[w]
  <2>1. filed = [k2 EXCEPT !.mem[e] = k2.mem[e] - Flag(k2.mem[e], PINUSE)]
    BY <1>12, <1>14
  <2>2. k2.mem[e] = k.mem[e]
    BY <1>14, <1>15, <1>16
  <2>3. sz[e] \in Nat
    BY <1>1, SizeLemma
  <2>4. k2.mem[e] - Flag(k2.mem[e], PINUSE) = 2 * sz[e] + 1 /\ 2 * sz[e] + 1 \in Int
    BY <1>11, <2>2, <2>3
  <2> QED BY <1>14, <1>16, <2>1, <2>4, PutLemma
<1>18. /\ filed \in Heaps /\ SameRest(k, filed) /\ filed.bins = k.bins
       /\ \A w \in 1..MemWords : filed.mem[w] = IF w = e THEN 2 * sz[e] + 1 ELSE IF w = e - 1 THEN x.size
                                                ELSE IF w = a THEN 2 * x.size + 2 ELSE k.mem[w]
  BY <1>15, <1>16, <1>17, RestTrans
<1>13. g = Insert(filed, a, x.size)
  <2>1. k2.mem[a + x.size] = k.mem[a + x.size]
    BY <1>14, <1>15, <1>16
  <2>2. filed = [x.heap EXCEPT !.mem[x.b] = Header(x.size, Flag(@, PINUSE)),
                               !.mem[x.b + x.size - 1] = x.size,
                               !.mem[x.b + x.size] = @ - Flag(@, PINUSE)]
    BY ONLY <1>2, <1>12, <2>1
  <2> QED BY <1>2, <2>2 DEF File
<1>19. Change(k, sz, F, filed, sz2, F2, a, e)
  <2>1. F2 \subseteq DOMAIN sz2
    <3>1. \A f \in F : f \in DOMAIN sz
      BY <1>1 DEF Spaced
    <3> QED BY <1>7, <1>8, <3>1 DEF Retiled
  <2>2. \A c \in DOMAIN sz : Outside(a, e, c) => (c \in F2 <=> c \in F)
    BY <1>4, <1>8 DEF Outside
  <2>3. \A c \in F2 : a <= c /\ c < e => c = a
    BY <1>7, <2>1
  <2>4. a + sz2[a] \notin F2 /\ a + sz2[a] = e
    BY <1>3, <1>4, <1>7, <1>8
  <2>5. filed.mem[e - 1] = x.size /\ filed.mem[a] = 2 * x.size + 2 /\ filed.mem[e] = 2 * sz[e] + 1
    BY <1>14, <1>18
  <2>6. filed.mem[a + sz2[a] - 1] = sz2[a]
    <3>1. a + sz2[a] - 1 = e - 1
      BY <1>7, <1>14
    <3> QED BY <1>7, <2>5, <3>1
  <2>7. \A w \in 1..MemWords : w < a \/ e < w => filed.mem[w] = k.mem[w]
    BY <1>4, <1>7, <1>18
  <2>8. a \notin Ends(sz2, F2)
    <3> SUFFICES ASSUME NEW f \in F2, f + sz2[f] = a PROVE FALSE
      BY DEF Ends
    <3>1. CASE f = a
      BY <1>4, <2>4, <3>1
    <3>2. CASE f \in F /\ Outside(a, e, f)
      <4>1. sz2[f] = sz[f]
        BY <1>1, <1>7, <3>2 DEF Spaced, Retiled
      <4> QED BY <1>3, <3>2, <4>1 DEF Ends
    <3> QED BY <1>8, <3>1, <3>2
  <2>9. e \in Ends(sz2, F2)
    BY <1>8, <2>4 DEF Ends
  <2>10. sz2[e] = sz[e] /\ e \notin F2 /\ a \in F2
    <3>1. Outside(a, e, e)
      BY <1>4 DEF Outside
    <3> QED BY <1>3, <1>4, <1>7, <1>8, <3>1 DEF Retiled
  <2>11. Tag(sz2, F2, a) = 2 * x.size + 2 /\ Tag(sz2, F2, e) = 2 * sz[e] + 1
    <3>1. sz[e] \in Nat
      BY <1>1, SizeLemma
    <3> QED BY <1>4, <1>7, <2>8, <2>9, <2>10, <3>1 DEF Tag
  <2>12. \A c \in DOMAIN sz2 : a <= c /\ c <= e => c = a \/ c = e
    <3>1. \A c \in DOMAIN sz2 : c \in Nat
      BY <1>7 DEF Retiled
    <3> QED BY <1>4, <1>7, <3>1
  <2>13. \A c \in DOMAIN sz2 : a <= c /\ c <= e => filed.mem[c] = Tag(sz2, F2, c)
    BY <2>5, <2>11, <2>12
  <2>14. \A c \in F2 : a <= c /\ c < e => /\ c + sz2[c] \notin F2
                                          /\ filed.mem[c + sz2[c] - 1] = sz2[c]
    BY <2>3, <2>4, <2>6
  <2> QED BY <1>3, <1>7, <1>18, <2>1, <2>2, <2>7, <2>13, <2>14 DEF Change
<1>20. /\ Well(filed, sz2, F2, {f \in F : Outside(a, e, f)})
       /\ Keeps(k, sz, filed, sz2, {u \in Used(sz, F) : Outside(a, e, u)})
       /\ \A c : Outside(a, e, c) => (c \in Used(sz2, F2) <=> c \in Used(sz, F))
  <2>1. PICK L : L = {f \in F : Outside(a, e, f)}
    OBVIOUS
  <2>2. Well(k, sz, F, L) /\ \A c \in L : Outside(a, e, c)
    BY <1>3, <2>1
  <2>3. Well(filed, sz2, F2, L) /\ Changed(k, sz, F, filed, sz2, F2, a, e)
    BY ONLY <1>19, <2>2, ChangeLemma
  <2> QED BY <2>1, <2>3 DEF Changed
<1>21. ~Outside(a, e, a) /\ ~Outside(a, e, b)
  BY <1>3, <1>4 DEF Outside
<1>22. /\ Well(g, sz2, F2, {f \in F : Outside(a, e, f)} \cup {a})
       /\ LinksOnly(filed, g, F2) /\ SameRest(filed, g)
  <2>1. a \in F2 \ {f \in F : Outside(a, e, f)} /\ x.size = sz2[a]
    BY <1>7, <1>8, <1>21
  <2> QED BY <1>13, <1>20, <2>1, InsertLemma
<1>23. {u \in Used(sz, F) : Outside(a, e, u)} = Used(sz, F) \ {b}
  <2>1. \A u \in Used(sz, F) : ~Outside(a, e, u) => u = b
    <3> SUFFICES ASSUME NEW u \in Used(sz, F), ~Outside(a, e, u) PROVE u = b
      OBVIOUS
    <3>1. u \in DOMAIN sz /\ u \notin F /\ u \in Nat
      BY <1>1, SizeLemma DEF Used
    <3> QED BY <1>3, <1>4, <3>1 DEF Outside
  <2> QED BY <1>21, <2>1
<1>24. Used(sz2, F2) = Used(sz, F) \ {b}
  <2>1. ASSUME NEW c \in Used(sz2, F2) PROVE Outside(a, e, c)
    <3>1. c \in DOMAIN sz2 /\ c # a /\ c \in Nat
      BY <1>7, <1>8 DEF Used, Retiled
    <3> QED BY <1>4, <1>7, <3>1 DEF Outside
  <2> QED BY <1>20, <1>23, <2>1
<1>25. Keeps(filed, sz2, g, sz2, Used(sz2, F2))
  <2>1. Shape(filed, sz2, F2) /\ g \in Heaps
    BY <1>20, <1>22 DEF Well, Shape
  <2> QED BY <1>22, <2>1, LinksOnlyLemma
<1>26. Keeps(h, sz, g, sz2, Used(sz, F) \ {b})
  <2>1. Keeps(h, sz, k, sz, Used(sz, F) \ {b})
    <3>1. Used(sz, F) \ {b} \subseteq Used(sz, F)
      OBVIOUS
    <3> QED BY <1>3, <3>1, KeepsSubset
  <2>2. Keeps(k, sz, filed, sz2, Used(sz, F) \ {b})
    BY <1>20, <1>23
  <2>3. Keeps(filed, sz2, g, sz2, Used(sz, F) \ {b})
    BY <1>24, <1>25
  <2>4. Keeps(h, sz, filed, sz2, Used(sz, F) \ {b})
    BY ONLY <2>1, <2>2, KeepsTrans
  <2> QED BY ONLY <2>3, <2>4, KeepsTrans
<1>27. SameRest(h, g)
  BY <1>3, <1>18, <1>22 DEF SameRest
<1>28. Well(g, sz2, F2, F2)
  BY <1>8, <1>22
<1> QED BY <1>24, <1>26, <1>27, <1>28 DEF Leaves

\* A free gives the block back, and leaves the others alone; it does not trap.
LEMMA FreeLemma ==
  ASSUME NEW h, NEW sz, NEW F, Well(h, sz, F, F), NEW b \in Used(sz, F),
         NEW payload, payload = b + 1, NEW g, g = FreeBlock(h, payload)
  PROVE  SameRest(h, g) /\ Leaves(h, sz, g, Used(sz, F) \ {b}, Used(sz, F) \ {b})
<1>1. Shape(h, sz, F) /\ Tiled(sz) /\ b \in DOMAIN sz /\ b \notin F /\ sz[b] # 0
  BY DEF Well, Shape, Used
<1>2. b \in Nat /\ 4 <= sz[b] /\ sz[b] \in Nat /\ SizeAt(h, b) = sz[b] /\ ~IsFree(h, b)
  BY <1>1, SizeLemma, ReadLemma
<1>3. PICK x : x = WithNext(h, b, SizeAt(h, b))
  OBVIOUS
<1>4. PICK y : y = WithPrevious(x)
  OBVIOUS
<1>5. g = File(y)
  <2>1. payload - 1 = b /\ payload # 0 /\ ~(SizeAt(h, b) < MIN_BLOCK)
    BY <1>2
  <2> QED BY <1>2, <1>3, <1>4, <2>1 DEF FreeBlock
<1>6. Joined(h, sz, F, x, b) /\ x.b = b /\ x.b + x.size \notin F
  BY <1>3, WithNextLemma
<1>7. Joined(h, sz, F, y, b) /\ y.b + y.size \notin F /\ y.b \notin Ends(sz, F)
  BY <1>1, <1>4, <1>6, WithPreviousLemma
<1> QED BY <1>1, <1>5, <1>7, FileLemma

---------------------------------------------------------------------------
(* Blocks handed out, absorbed and cut.                                    *)

\* Which of the words at the two ends of the change follow a free block.
LEMMA EndsLemma ==
  ASSUME NEW sz, NEW sz2, NEW b, NEW e, Tiled(sz), Retiled(sz, sz2, b, e), NEW F, Spaced(sz, F),
         NEW F2, F2 \subseteq DOMAIN sz2, \A c \in DOMAIN sz : Outside(b, e, c) => (c \in F2 <=> c \in F)
  PROVE  /\ b \in Ends(sz2, F2) <=> b \in Ends(sz, F)
         /\ e \in Ends(sz2, F2) <=> \E f \in F2 : b <= f /\ f < e /\ f + sz2[f] = e
<1>1. b \in Nat /\ e \in Nat /\ b < e /\ b \in DOMAIN sz /\ e \in DOMAIN sz
  BY SizeLemma DEF Retiled
<1>2. \A f \in F : f \in Nat /\ f \in DOMAIN sz /\ sz[f] \in Nat /\ 4 <= sz[f]
                   /\ (f < b => f + sz[f] <= b) /\ (f < e => f + sz[f] <= e)
  <2> TAKE f \in F
  <2>1. f \in DOMAIN sz /\ sz[f] # 0
    BY DEF Spaced
  <2>2. f \in Nat /\ sz[f] \in Nat /\ 4 <= sz[f]
    BY <2>1, SizeLemma
  <2>3. (f < b => f + sz[f] <= b) /\ (f < e => f + sz[f] <= e)
    BY <1>1, <2>1 DEF Tiled
  <2> QED BY <2>1, <2>2, <2>3
<1>3. \A f \in F2 : \/ f \in F /\ sz2[f] = sz[f] /\ Outside(b, e, f)
                    \/ /\ b <= f /\ f < e /\ f \in Nat /\ sz2[f] \in Nat
                       /\ 4 <= sz2[f] /\ f + sz2[f] <= e
  <2> TAKE f \in F2
  <2>1. f \in DOMAIN sz2 /\ f \in Nat
    BY DEF Retiled
  <2>2. CASE Outside(b, e, f)
    <3>1. f \in DOMAIN sz /\ sz2[f] = sz[f]
      BY <2>1, <2>2 DEF Retiled
    <3> QED BY <2>2, <3>1
  <2>3. CASE ~Outside(b, e, f)
    <3>1. b <= f /\ f < e
      BY <1>1, <2>1, <2>3 DEF Outside
    <3>2. sz2[f] \in Evens /\ 4 <= sz2[f] /\ f + sz2[f] <= e
      BY <2>1, <3>1 DEF Retiled
    <3> QED BY <2>1, <3>1, <3>2 DEF Evens
  <2> QED BY <2>2, <2>3
<1>4. ASSUME NEW f \in F2, f + sz2[f] = b PROVE b \in Ends(sz, F)
  <2>1. f \in F /\ sz2[f] = sz[f]
    BY <1>1, <1>3, <1>4
  <2> QED BY <1>4, <2>1 DEF Ends
<1>5. ASSUME NEW f \in F, f + sz[f] = b PROVE b \in Ends(sz2, F2)
  <2>1. f < b /\ f \in DOMAIN sz
    BY <1>1, <1>2, <1>5
  <2>2. Outside(b, e, f)
    BY <2>1 DEF Outside
  <2>3. f \in F2 /\ sz2[f] = sz[f]
    BY <2>1, <2>2 DEF Retiled
  <2> QED BY <1>5, <2>3 DEF Ends
<1>6. ASSUME NEW f \in F2, f + sz2[f] = e PROVE b <= f /\ f < e
  <2> SUFFICES ASSUME f \in F, sz2[f] = sz[f], Outside(b, e, f) PROVE FALSE
    BY <1>3
  <2>1. f \in Nat /\ sz[f] \in Nat /\ 4 <= sz[f] /\ (f < b => f + sz[f] <= b) /\ f + sz[f] = e
    BY <1>2, <1>6
  <2> QED BY <1>1, <2>1 DEF Outside
<1> QED BY <1>4, <1>5, <1>6 DEF Ends

\* The words from b to e become one block in use.
Taking(k, sz, F, L, b, e, k1, g, sz2, F2) ==
  /\ Well(k, sz, F, L) /\ b \in DOMAIN sz /\ e \in DOMAIN sz /\ b < e /\ e - b \in Evens
  /\ \A c \in DOMAIN sz : b <= c /\ c < e => sz[c] # 0
  /\ \A c \in L : Outside(b, e, c)
  /\ k1 = [k EXCEPT !.mem[b] = Header(e - b, Flag(k.mem[b], PINUSE) + INUSE)]
  /\ g = [k1 EXCEPT !.mem[e] = k.mem[e] - Flag(k.mem[e], PINUSE) + PINUSE]
  /\ sz2 = Merged(sz, b, e) /\ F2 = {f \in F : Outside(b, e, f)}

Taken(k, sz, F, L, b, e, g, sz2, F2) ==
  /\ Well(g, sz2, F2, L) /\ Changed(k, sz, F, g, sz2, F2, b, e) /\ SameRest(k, g)
  /\ sz2[b] = e - b /\ \A c \in Used(sz2, F2) : b <= c /\ c < e => c = b
  /\ b \in Used(sz2, F2)
  /\ \A w \in 1..MemWords : w # b /\ w # e => g.mem[w] = k.mem[w]

\* A stretch tagged as one block in use, with PINUSE of the block behind it set.
LEMMA TakeLemma ==
  ASSUME NEW k, NEW sz, NEW F, NEW L, NEW b, NEW e, NEW k1, NEW g, NEW sz2, NEW F2,
         Taking(k, sz, F, L, b, e, k1, g, sz2, F2)
  PROVE  Taken(k, sz, F, L, b, e, g, sz2, F2)
<1>0. /\ Well(k, sz, F, L) /\ b \in DOMAIN sz /\ e \in DOMAIN sz /\ b < e /\ e - b \in Evens
      /\ \A c \in DOMAIN sz : b <= c /\ c < e => sz[c] # 0
      /\ \A c \in L : Outside(b, e, c)
      /\ k1 = [k EXCEPT !.mem[b] = Header(e - b, Flag(k.mem[b], PINUSE) + INUSE)]
      /\ g = [k1 EXCEPT !.mem[e] = k.mem[e] - Flag(k.mem[e], PINUSE) + PINUSE]
      /\ sz2 = Merged(sz, b, e) /\ F2 = {f \in F : Outside(b, e, f)}
  BY DEF Taking
<1> USE <1>0
<1>1. Shape(k, sz, F) /\ Tiled(sz) /\ Spaced(sz, F) /\ k \in Heaps
  BY DEF Well, Shape
<1>2. b \in Nat /\ e \in Nat /\ 3 <= b /\ e <= MemWords /\ sz[e] \in Nat
  BY <1>1, SizeLemma
<1>3. /\ Retiled(sz, sz2, b, e) /\ sz2[b] = e - b /\ 4 <= e - b
      /\ \A c \in DOMAIN sz2 : b <= c /\ c < e => c = b
  BY <1>1, MergeLemma
<1>4. F2 \subseteq DOMAIN sz2 /\ \A c \in DOMAIN sz : Outside(b, e, c) => (c \in F2 <=> c \in F)
  BY <1>1, <1>3 DEF Spaced, Retiled
<1>5. b \notin F2 /\ \A c \in F2 : ~(b <= c /\ c < e)
  <2>1. ~Outside(b, e, b)
    BY <1>2 DEF Outside
  <2> QED BY <1>3, <1>4, <2>1
<1>6. (b \in Ends(sz2, F2) <=> b \in Ends(sz, F)) /\ e \notin Ends(sz2, F2)
  BY <1>1, <1>3, <1>4, <1>5, EndsLemma
<1>7. PICK p : p = Flag(k.mem[b], PINUSE) /\ p = (IF b \in Ends(sz, F) THEN 0 ELSE 2)
  BY <1>1, ReadLemma
<1>8. k.mem[e] - Flag(k.mem[e], PINUSE) + PINUSE = 2 * sz[e] + 2 + (IF e \in F THEN 0 ELSE 1)
  <2>1. PICK q \in {0, 2} : q = (IF e \in Ends(sz, F) THEN 0 ELSE 2)
    OBVIOUS
  <2>2. PICK i \in {0, 1} : i = (IF e \in F THEN 0 ELSE 1)
    OBVIOUS
  <2>3. k.mem[e] = 2 * sz[e] + q + i
    BY <1>1, <2>1, <2>2 DEF Shape, Tagged, Tag
  <2>4. Flag(k.mem[e], PINUSE) = q
    BY <1>1, <2>1, ReadLemma
  <2>5. k.mem[e] - Flag(k.mem[e], PINUSE) + PINUSE = 2 * sz[e] + 2 + i
    BY <1>2, <2>3, <2>4
  <2> QED BY <2>2, <2>5
<1>9. b \in 1..MemWords /\ e \in 1..MemWords /\ b # e
  BY <1>2, Geometry
<1>10. /\ k1 \in Heaps /\ SameRest(k, k1) /\ k1.bins = k.bins
       /\ \A w \in 1..MemWords : k1.mem[w] = IF w = b THEN 2 * (e - b) + p + 1 ELSE k.mem[w]
  <2>1. Header(e - b, Flag(k.mem[b], PINUSE) + INUSE) = 2 * (e - b) + p + 1
    BY <1>2, <1>7 DEF Header
  <2>2. 2 * (e - b) + p + 1 \in Int
    BY <1>2, <1>7
  <2> QED BY <1>1, <1>9, <2>1, <2>2, PutLemma
<1>11. /\ g \in Heaps /\ SameRest(k1, g) /\ g.bins = k1.bins
       /\ \A w \in 1..MemWords : g.mem[w] = IF w = e THEN 2 * sz[e] + 2 + (IF e \in F THEN 0 ELSE 1) ELSE k1.mem[w]
  <2>1. PICK t \in Int : t = 2 * sz[e] + 2 + (IF e \in F THEN 0 ELSE 1)
    BY <1>2
  <2>2. g = [k1 EXCEPT !.mem[e] = t]
    BY <1>8, <2>1
  <2>3. /\ g \in Heaps /\ SameRest(k1, g) /\ g.bins = k1.bins
        /\ \A w \in 1..MemWords : g.mem[w] = IF w = e THEN t ELSE k1.mem[w]
    <3>1. k1 \in Heaps /\ e \in 1..MemWords /\ t \in Int
      BY <1>9, <1>10
    <3> QED BY ONLY <2>2, <3>1, PutLemma
  <2> QED BY <2>1, <2>3
<1>12. g \in Heaps /\ SameRest(k, g) /\ g.bins = k.bins
  BY <1>10, <1>11, RestTrans
<1>13. \A w \in 1..MemWords : w # b /\ w # e => g.mem[w] = k.mem[w]
  BY <1>10, <1>11
<1>14. g.mem[b] = Tag(sz2, F2, b) /\ g.mem[e] = Tag(sz2, F2, e)
  <2>1. sz2[e] = sz[e] /\ (e \in F2 <=> e \in F)
    <3>1. Outside(b, e, e)
      BY <1>2 DEF Outside
    <3> QED BY <1>3, <1>4, <3>1 DEF Retiled
  <2>2. g.mem[b] = 2 * (e - b) + p + 1
    BY <1>9, <1>10, <1>11
  <2>3. g.mem[e] = 2 * sz[e] + 2 + (IF e \in F THEN 0 ELSE 1)
    BY <1>9, <1>11
  <2> QED BY <1>3, <1>5, <1>6, <1>7, <2>1, <2>2, <2>3 DEF Tag
<1>15. \A c \in DOMAIN sz2 : b <= c /\ c <= e => c = b \/ c = e
  <2>1. \A c \in DOMAIN sz2 : c \in Nat
    BY <1>3 DEF Retiled
  <2> QED BY <1>2, <1>3, <2>1
<1>16. \A c \in DOMAIN sz2 : b <= c /\ c <= e => g.mem[c] = Tag(sz2, F2, c)
  BY <1>14, <1>15
<1>17. \A w \in 1..MemWords : w < b \/ e < w => g.mem[w] = k.mem[w]
  BY <1>2, <1>13
<1>18. Change(k, sz, F, g, sz2, F2, b, e)
  BY <1>3, <1>4, <1>5, <1>12, <1>16, <1>17 DEF Change
<1>19. Well(g, sz2, F2, L) /\ Changed(k, sz, F, g, sz2, F2, b, e)
  BY ONLY <1>0, <1>18, ChangeLemma
<1>20. b \in Used(sz2, F2) /\ \A c \in Used(sz2, F2) : b <= c /\ c < e => c = b
  <2>1. b \in DOMAIN sz2 /\ sz2[b] # 0
    BY <1>2, <1>3 DEF Retiled
  <2> QED BY <1>3, <1>5, <2>1 DEF Used
<1> QED BY <1>3, <1>12, <1>13, <1>19, <1>20 DEF Taken

\* The block b is cut at m; the part before m is in use, that from m on is free
\* or in use as well.
Splitting(k, sz, F, L, b, m, e, g, sz2, F2) ==
  /\ Well(k, sz, F, L) /\ b \in DOMAIN sz /\ sz[b] # 0 /\ m \in Nat /\ m - b \in Evens
  /\ b + 4 <= m /\ m + 4 <= b + sz[b] /\ e = b + sz[b] /\ b \notin L
  /\ sz2 = Cut(sz, b, m) /\ F2 = (F \ {b}) \cup (IF b \in F THEN {m} ELSE {})
  /\ g \in Heaps /\ SameRest(k, g) /\ g.bins = k.bins
  /\ \A w \in 1..MemWords : w # b /\ w # m /\ (b \in F => w # e - 1) => g.mem[w] = k.mem[w]
  /\ g.mem[b] = Header(m - b, Flag(k.mem[b], PINUSE) + INUSE)
  /\ g.mem[m] = Header(e - m, IF b \in F THEN PINUSE ELSE PINUSE + INUSE)
  /\ b \in F => g.mem[e - 1] = e - m

IsSplit(k, sz, F, L, b, m, e, g, sz2, F2) ==
  /\ Well(g, sz2, F2, L) /\ Changed(k, sz, F, g, sz2, F2, b, e)
  /\ sz2[b] = m - b /\ sz2[m] = e - m /\ m \in DOMAIN sz2 /\ m \notin F
  /\ b \in Used(sz2, F2) /\ m \notin Used(sz, F)
  /\ \A c \in Used(sz2, F2) : b <= c /\ c < e => c = b \/ c = m

\* The tags of __heap_carve_tail cut a block in two and disturb no other.
LEMMA SplitLemma ==
  ASSUME NEW k, NEW sz, NEW F, NEW L, NEW b, NEW m, NEW e, NEW g, NEW sz2, NEW F2,
         Splitting(k, sz, F, L, b, m, e, g, sz2, F2)
  PROVE  IsSplit(k, sz, F, L, b, m, e, g, sz2, F2)
<1>0. /\ Well(k, sz, F, L) /\ b \in DOMAIN sz /\ sz[b] # 0 /\ m \in Nat /\ m - b \in Evens
      /\ b + 4 <= m /\ m + 4 <= b + sz[b] /\ e = b + sz[b] /\ b \notin L
      /\ sz2 = Cut(sz, b, m) /\ F2 = (F \ {b}) \cup (IF b \in F THEN {m} ELSE {})
      /\ g \in Heaps /\ SameRest(k, g) /\ g.bins = k.bins
      /\ \A w \in 1..MemWords : w # b /\ w # m /\ (b \in F => w # e - 1) => g.mem[w] = k.mem[w]
      /\ g.mem[b] = Header(m - b, Flag(k.mem[b], PINUSE) + INUSE)
      /\ g.mem[m] = Header(e - m, IF b \in F THEN PINUSE ELSE PINUSE + INUSE)
      /\ b \in F => g.mem[e - 1] = e - m
  BY DEF Splitting
<1> USE <1>0
<1>1. Shape(k, sz, F) /\ Tiled(sz) /\ Spaced(sz, F) /\ k \in Heaps /\ L \subseteq F /\ Tagged(k.mem, sz, F)
  BY DEF Well, Shape
<1>2. b \in Nat /\ e \in DOMAIN sz /\ e \in Nat /\ 3 <= b /\ e <= MemWords /\ sz[e] \in Nat /\ sz[b] \in Nat
      /\ b < m /\ m < e /\ 4 <= e - m /\ 4 <= m - b
  <2>1. b \in Nat /\ e \in DOMAIN sz /\ 3 <= b /\ sz[b] \in Nat
    BY <1>1, SizeLemma
  <2>2. e \in Nat /\ e <= MemWords /\ sz[e] \in Nat
    BY <1>1, <2>1, SizeLemma
  <2> QED BY <2>1, <2>2
<1>3. /\ Retiled(sz, sz2, b, e) /\ m \in DOMAIN sz2 /\ sz2[b] = m - b /\ sz2[m] = e - m
      /\ \A c \in DOMAIN sz2 : b <= c /\ c < e => c = b \/ c = m
  <2>1. /\ Retiled(sz, sz2, b, b + sz[b]) /\ m \in DOMAIN sz2
        /\ sz2[b] = m - b /\ sz2[m] = b + sz[b] - m
        /\ \A c \in DOMAIN sz2 : b <= c /\ c < b + sz[b] => c = b \/ c = m
    BY <1>1, CutLemma
  <2>2. Retiled(sz, sz2, b, e)
    BY ONLY <2>1, <1>0
  <2>3. sz2[m] = e - m
    BY <1>2, <2>1
  <2>4. \A c \in DOMAIN sz2 : b <= c /\ c < e => c = b \/ c = m
    BY ONLY <2>1, <1>0
  <2> QED BY <2>1, <2>2, <2>3, <2>4
<1>4. \A c \in DOMAIN sz : ~Outside(b, e, c) => c = b
  <2> SUFFICES ASSUME NEW c \in DOMAIN sz, ~Outside(b, e, c), c # b PROVE FALSE
    OBVIOUS
  <2>1. c \in Nat
    BY <1>1, SizeLemma
  <2>2. b < c /\ c < e
    BY <1>2, <2>1 DEF Outside
  <2>3. b + sz[b] <= c
    BY <1>1, <2>2 DEF Tiled
  <2> QED BY <1>2, <2>1, <2>2, <2>3
<1>5. ~Outside(b, e, b) /\ ~Outside(b, e, m) /\ Outside(b, e, e) /\ m \notin DOMAIN sz
  BY <1>2, <1>4 DEF Outside
<1>6. F \subseteq DOMAIN sz /\ m \notin F
  BY <1>1, <1>5 DEF Spaced
<1>7. F2 \subseteq DOMAIN sz2 /\ \A c \in DOMAIN sz : Outside(b, e, c) => (c \in F2 <=> c \in F)
  <2>1. \A c \in DOMAIN sz : Outside(b, e, c) => (c \in F2 <=> c \in F)
    BY <1>5
  <2>2. \A c \in F \ {b} : c \in DOMAIN sz2
    BY <1>3, <1>4, <1>6 DEF Retiled
  <2> QED BY <1>3, <2>1, <2>2
<1>8. \A c \in F2 : b <= c /\ c < e => c = m /\ b \in F
  <2> SUFFICES ASSUME NEW c \in F2, b <= c, c < e PROVE c = m /\ b \in F
    OBVIOUS
  <2>1. c = b \/ c = m
    BY <1>3, <1>7
  <2> QED BY <1>2, <1>6, <2>1
<1>9. (b \in Ends(sz2, F2) <=> b \in Ends(sz, F))
      /\ (e \in Ends(sz2, F2) <=> b \in F) /\ (e \in Ends(sz, F) <=> b \in F)
  <2>1. /\ b \in Ends(sz2, F2) <=> b \in Ends(sz, F)
        /\ e \in Ends(sz2, F2) <=> \E f \in F2 : b <= f /\ f < e /\ f + sz2[f] = e
    BY <1>1, <1>3, <1>7, EndsLemma
  <2>2. m + sz2[m] = e
    BY <1>2, <1>3
  <2>3. e \in Ends(sz2, F2) <=> b \in F
    BY <1>2, <1>8, <2>1, <2>2
  <2>4. e \in Ends(sz, F) => b \in F
    <3> SUFFICES ASSUME NEW f \in F, f + sz[f] = e PROVE f = b
      BY DEF Ends
    <3>1. f \in DOMAIN sz /\ sz[f] # 0
      BY <1>1 DEF Spaced
    <3>2. f \in Nat /\ sz[f] \in Nat /\ (f # b => f + sz[f] <= b \/ b + sz[b] <= f)
      BY <1>1, <3>1, SizeLemma, Apart
    <3> QED BY <1>2, <3>1, <3>2
  <2> QED BY <2>1, <2>3, <2>4 DEF Ends
<1>10. PICK p : p = Flag(k.mem[b], PINUSE) /\ p = (IF b \in Ends(sz, F) THEN 0 ELSE 2)
  BY <1>1, ReadLemma
<1>11. b \notin F2
  BY <1>2, <1>8
<1>12. m \in Ends(sz2, F2) => FALSE
  <2> SUFFICES ASSUME NEW f \in F2, f + sz2[f] = m PROVE FALSE
    BY DEF Ends
  <2>1. CASE Outside(b, e, f)
    <3>1. f \in DOMAIN sz /\ f \in F /\ sz2[f] = sz[f]
      BY <1>3, <1>6, <1>7, <2>1 DEF Retiled
    <3>2. f \in Nat /\ sz[f] \in Nat /\ (f < b => f + sz[f] <= b)
      BY <1>1, <3>1, SizeLemma DEF Tiled
    <3> QED BY <1>2, <2>1, <3>1, <3>2 DEF Outside
  <2>2. CASE ~Outside(b, e, f)
    <3>1. f = m
      <4>1. f \in Nat
        BY <1>3, <1>7 DEF Retiled
      <4> QED BY <1>2, <1>8, <2>2, <4>1 DEF Outside
    <3> QED BY <1>2, <1>3, <3>1
  <2> QED BY <2>1, <2>2
<1>13. g.mem[b] = Tag(sz2, F2, b)
  <2>1. g.mem[b] = 2 * (m - b) + p + 1
    BY <1>2, <1>10 DEF Header
  <2> QED BY <1>3, <1>9, <1>10, <1>11, <2>1 DEF Tag
<1>14. g.mem[m] = Tag(sz2, F2, m)
  <2>1. g.mem[m] = 2 * (e - m) + 2 + (IF b \in F THEN 0 ELSE 1)
    BY <1>2 DEF Header
  <2>2. m \in F2 <=> b \in F
    BY <1>6, <1>8, <1>2
  <2> QED BY <1>3, <1>12, <2>1, <2>2 DEF Tag
<1>15. g.mem[e] = Tag(sz2, F2, e)
  <2>1. g.mem[e] = k.mem[e]
    BY <1>2, Geometry
  <2>2. sz2[e] = sz[e] /\ (e \in F2 <=> e \in F)
    BY <1>2, <1>3, <1>5, <1>7 DEF Retiled
  <2> QED BY <1>1, <1>2, <1>9, <2>1, <2>2 DEF Tagged, Tag
<1>16. \A c \in DOMAIN sz2 : b <= c /\ c <= e => g.mem[c] = Tag(sz2, F2, c)
  <2>1. \A c \in DOMAIN sz2 : b <= c /\ c <= e => c = b \/ c = m \/ c = e
    <3>1. \A c \in DOMAIN sz2 : c \in Nat
      BY <1>3 DEF Retiled
    <3> QED BY <1>2, <1>3, <3>1
  <2> QED BY <1>13, <1>14, <1>15, <2>1
<1>17. \A w \in 1..MemWords : w < b \/ e < w => g.mem[w] = k.mem[w]
  BY <1>2
<1>18. \A c \in F2 : b <= c /\ c < e => c + sz2[c] \notin F2 /\ g.mem[c + sz2[c] - 1] = sz2[c]
  <2> SUFFICES ASSUME b \in F PROVE m + sz2[m] \notin F2 /\ g.mem[m + sz2[m] - 1] = sz2[m]
    BY <1>8
  <2>1. m + sz2[m] = e /\ m + sz2[m] - 1 = e - 1
    BY <1>2, <1>3
  <2>2. e \notin F
    BY <1>1 DEF Spaced
  <2>3. e \notin F2
    BY <1>2, <1>5, <1>7, <2>2
  <2> QED BY <1>3, <2>1, <2>3
<1>19. Change(k, sz, F, g, sz2, F2, b, e)
  BY <1>3, <1>7, <1>11, <1>16, <1>17, <1>18 DEF Change
<1>20. \A c \in L : Outside(b, e, c)
  BY <1>1, <1>4, <1>6
<1>21. Well(g, sz2, F2, L) /\ Changed(k, sz, F, g, sz2, F2, b, e)
  BY ONLY <1>0, <1>19, <1>20, ChangeLemma
<1>22. b \in Used(sz2, F2)
  <2>1. b \in DOMAIN sz2 /\ sz2[b] # 0
    BY <1>2, <1>3 DEF Retiled
  <2> QED BY <1>11, <2>1 DEF Used
<1>23. \A c \in Used(sz2, F2) : b <= c /\ c < e => c = b \/ c = m
  BY <1>3 DEF Used
<1> QED BY <1>3, <1>5, <1>6, <1>21, <1>22, <1>23 DEF Used, IsSplit

\* The used blocks beyond the change, as a set.
LEMMA ChangedUsed ==
  ASSUME NEW h, NEW sz, NEW F, NEW g, NEW sz2, NEW F2, NEW b, NEW e, Changed(h, sz, F, g, sz2, F2, b, e),
         NEW U, U \subseteq Used(sz, F), \A u \in U : Outside(b, e, u)
  PROVE  U \subseteq Used(sz2, F2) /\ Keeps(h, sz, g, sz2, U)
BY DEF Changed, Keeps

Gives(h, sz, F, g, b, blk) ==
  \E sz2, F2 : /\ Well(g, sz2, F2, F2) /\ Used(sz2, F2) = Used(sz, F) \cup {b}
               /\ Keeps(h, sz, g, sz2, Used(sz, F)) /\ blk <= sz2[b]

\* A free block that is large enough is handed out, whole or in part.
LEMMA CarveLemma ==
  ASSUME NEW h, NEW sz, NEW F, Well(h, sz, F, F), NEW b \in F, NEW blk \in Evens, 4 <= blk, blk <= sz[b],
         NEW g, g = Carve(h, b, blk)
  PROVE  SameRest(h, g) /\ Gives(h, sz, F, g, b, blk)
<1>1. Shape(h, sz, F) /\ Tiled(sz) /\ Spaced(sz, F) /\ b \in DOMAIN sz /\ sz[b] # 0
  BY DEF Well, Shape, Spaced
<1>2. /\ b \in Nat /\ 3 <= b /\ sz[b] \in Nat /\ sz[b] \in Evens /\ b + sz[b] \in DOMAIN sz
      /\ b + sz[b] <= MemWords /\ SizeAt(h, b) = sz[b] /\ blk \in Nat /\ 4 <= sz[b]
  <2>1. b \in Nat /\ 3 <= b /\ sz[b] \in Nat /\ sz[b] % 2 = 0 /\ b + sz[b] \in DOMAIN sz
        /\ b + sz[b] <= MemWords /\ 4 <= sz[b]
    BY <1>1, SizeLemma
  <2> QED BY <1>1, <2>1, ReadLemma DEF Evens
<1>3. PICK out : out = Unlink(h, b)
  OBVIOUS
<1>4. Well(out, sz, F, F \ {b}) /\ LinksOnly(h, out, F) /\ SameRest(h, out)
  BY <1>3, UnlinkLemma
<1>5. Shape(out, sz, F) /\ out \in Heaps /\ Keeps(h, sz, out, sz, Used(sz, F))
  <2>1. Shape(out, sz, F) /\ out \in Heaps
    BY <1>4 DEF Well, Shape
  <2> QED BY <1>1, <1>4, <2>1, LinksOnlyLemma
<1>6. PICK e \in DOMAIN sz : e = b + sz[b]
  BY <1>2
<1>7. e \in Nat /\ b < e /\ e <= MemWords /\ e - b = sz[b] /\ \A c \in DOMAIN sz : b <= c /\ c < e => c = b
  <2>1. ASSUME NEW c \in DOMAIN sz, b < c PROVE e <= c
    BY <1>1, <1>6, <2>1 DEF Tiled
  <2>2. \A c \in DOMAIN sz : c \in Nat
    BY <1>1, SizeLemma
  <2>3. e \in Nat /\ b < e /\ e <= MemWords /\ e - b = sz[b]
    BY <1>2, <1>6
  <2> QED BY <1>2, <2>1, <2>2, <2>3
<1>8. /\ \A c \in F \ {b} : Outside(b, e, c)
      /\ \A c \in Used(sz, F) : Outside(b, e, c)
      /\ ~Outside(b, e, b)
  <2>1. \A c \in DOMAIN sz : c \in Nat
    BY <1>1, SizeLemma
  <2>2. \A c \in DOMAIN sz : c # b => Outside(b, e, c)
    BY <1>2, <1>7, <2>1 DEF Outside
  <2> QED BY <1>1, <1>2, <1>7, <2>2 DEF Spaced, Used, Outside
<1>9. PICK own : own = Flag(out.mem[b], PINUSE) + INUSE
  OBVIOUS
<1>10. CASE sz[b] - blk >= 4
  <2>1. PICK m \in Nat : m = b + blk
    BY <1>2
  <2>2. m \in 1..MemWords /\ b \in 1..MemWords /\ e - 1 \in 1..MemWords /\ b # m /\ m # e - 1 /\ b # e - 1
        /\ m - b = blk /\ b + 4 <= m /\ m + 4 <= b + sz[b] /\ e - m = sz[b] - blk /\ b + sz[b] - 1 = e - 1
    BY <1>2, <1>6, <1>7, <1>10, <2>1, Geometry
  <2>3. PICK k1, k2, k3 : /\ k1 = [out EXCEPT !.mem[b] = Header(blk, own)]
                          /\ k2 = [k1 EXCEPT !.mem[m] = Header(e - m, PINUSE)]
                          /\ k3 = [k2 EXCEPT !.mem[e - 1] = e - m]
    OBVIOUS
  <2>4. g = Insert(k3, m, e - m)
    <3>1. k3 = [out EXCEPT !.mem[b] = Header(blk, own),
                           !.mem[b + blk] = Header(sz[b] - blk, PINUSE),
                           !.mem[b + sz[b] - 1] = sz[b] - blk]
      BY ONLY <2>1, <2>2, <2>3
    <3> QED BY <1>2, <1>3, <1>9, <1>10, <2>1, <2>2, <3>1 DEF Carve
  <2>5. /\ k1 \in Heaps /\ SameRest(out, k1) /\ k1.bins = out.bins
        /\ \A w \in 1..MemWords : k1.mem[w] = IF w = b THEN Header(blk, own) ELSE out.mem[w]
    <3>1. Flag(out.mem[b], PINUSE) \in {0, 2}
      BY <1>1, <1>5, ReadLemma
    <3>2. Header(blk, own) \in Int
      BY <1>2, <1>9, <3>1 DEF Header
    <3> QED BY <1>5, <2>2, <2>3, <3>2, PutLemma
  <2>6. /\ k2 \in Heaps /\ SameRest(k1, k2) /\ k2.bins = k1.bins
        /\ \A w \in 1..MemWords : k2.mem[w] = IF w = m THEN Header(e - m, PINUSE) ELSE k1.mem[w]
    <3>1. PICK v \in Int : v = Header(e - m, PINUSE)
      BY <1>7, <2>1 DEF Header
    <3>2. k1 \in Heaps /\ m \in 1..MemWords /\ v \in Int
      BY <2>2, <2>5, <3>1
    <3>3. k2 = [k1 EXCEPT !.mem[m] = v]
      BY ONLY <2>3, <3>1
    <3>4. /\ k2 \in Heaps /\ SameRest(k1, k2) /\ k2.bins = k1.bins
          /\ \A w \in 1..MemWords : k2.mem[w] = IF w = m THEN v ELSE k1.mem[w]
      BY ONLY <3>2, <3>3, PutLemma
    <3> QED BY ONLY <3>1, <3>4
  <2>7. /\ k3 \in Heaps /\ SameRest(k2, k3) /\ k3.bins = k2.bins
        /\ \A w \in 1..MemWords : k3.mem[w] = IF w = e - 1 THEN e - m ELSE k2.mem[w]
    <3>1. PICK v \in Int, f \in Int : v = e - m /\ f = e - 1
      BY <1>7, <2>1
    <3>2. k2 \in Heaps /\ f \in 1..MemWords /\ v \in Int
      BY <2>2, <2>6, <3>1
    <3>3. k3 = [k2 EXCEPT !.mem[f] = v]
      BY ONLY <2>3, <3>1
    <3>4. /\ k3 \in Heaps /\ SameRest(k2, k3) /\ k3.bins = k2.bins
          /\ \A w \in 1..MemWords : k3.mem[w] = IF w = f THEN v ELSE k2.mem[w]
      BY ONLY <3>2, <3>3, PutLemma
    <3> QED BY ONLY <3>1, <3>4
  <2>8. SameRest(out, k3) /\ k3.bins = out.bins
    BY <2>5, <2>6, <2>7, RestTrans
  <2>9. /\ \A w \in 1..MemWords : w # b /\ w # m /\ (b \in F => w # e - 1) => k3.mem[w] = out.mem[w]
        /\ k3.mem[b] = Header(m - b, Flag(out.mem[b], PINUSE) + INUSE)
        /\ k3.mem[m] = Header(e - m, IF b \in F THEN PINUSE ELSE PINUSE + INUSE)
        /\ b \in F => k3.mem[e - 1] = e - m
    BY <1>9, <2>2, <2>5, <2>6, <2>7
  <2>10. PICK sz2, F2 : sz2 = Cut(sz, b, m) /\ F2 = (F \ {b}) \cup {m}
    OBVIOUS
  <2>11. /\ Well(k3, sz2, F2, F \ {b}) /\ Changed(out, sz, F, k3, sz2, F2, b, e)
         /\ sz2[b] = m - b /\ sz2[m] = e - m /\ m \in DOMAIN sz2 /\ m \notin F
         /\ b \in Used(sz2, F2)
         /\ \A c \in Used(sz2, F2) : b <= c /\ c < e => c = b \/ c = m
    <3>1. b \notin F \ {b} /\ {m} = IF b \in F THEN {m} ELSE {}
      OBVIOUS
    <3>2. m - b \in Evens
      BY <2>2
    <3>3. PICK L : L = F \ {b}
      OBVIOUS
    <3>4. Well(out, sz, F, L) /\ b \notin L /\ F2 = (F \ {b}) \cup (IF b \in F THEN {m} ELSE {})
      BY <1>4, <2>10, <3>1, <3>3
    <3>5. Splitting(out, sz, F, L, b, m, e, k3, sz2, F2)
      BY ONLY <1>1, <1>6, <2>1, <2>2, <2>7, <2>8, <2>9, <2>10, <3>2, <3>4 DEF Splitting
    <3>6. IsSplit(out, sz, F, L, b, m, e, k3, sz2, F2)
      BY ONLY <3>5, SplitLemma
    <3> QED BY <3>3, <3>6 DEF IsSplit
  <2>12. Well(g, sz2, F2, F2) /\ LinksOnly(k3, g, F2) /\ SameRest(k3, g)
    <3>1. m \in F2 \ (F \ {b}) /\ (F \ {b}) \cup {m} = F2
      BY <2>10, <2>11
    <3>2. Well(g, sz2, F2, (F \ {b}) \cup {m}) /\ LinksOnly(k3, g, F2) /\ SameRest(k3, g)
      BY <2>4, <2>11, <3>1, InsertLemma
    <3> QED BY <3>1, <3>2
  <2>13. Used(sz2, F2) = Used(sz, F) \cup {b} /\ Keeps(out, sz, k3, sz2, Used(sz, F))
    <3>1. Used(sz, F) \subseteq Used(sz2, F2) /\ Keeps(out, sz, k3, sz2, Used(sz, F))
      BY <1>8, <2>11, ChangedUsed
    <3>2. ASSUME NEW c \in Used(sz2, F2), c # b PROVE c \in Used(sz, F)
      <4>1. c # m
        BY <2>10 DEF Used
      <4>2. c \in DOMAIN sz2 /\ c \in Nat
        <5>1. Tiled(sz2)
          BY <2>11 DEF Well, Shape
        <5> QED BY <5>1, SizeLemma DEF Used
      <4>3. Outside(b, e, c)
        BY <1>2, <1>7, <2>11, <3>2, <4>1, <4>2 DEF Outside
      <4> QED BY <2>11, <4>3 DEF Changed
    <3> QED BY <2>11, <3>1, <3>2
  <2>14. Keeps(k3, sz2, g, sz2, Used(sz, F))
    <3>1. Keeps(k3, sz2, g, sz2, Used(sz2, F2))
      <4>1. Shape(k3, sz2, F2) /\ g \in Heaps
        BY <2>11, <2>12 DEF Well, Shape
      <4> QED BY <2>12, <4>1, LinksOnlyLemma
    <3>2. Used(sz, F) \subseteq Used(sz2, F2)
      BY <2>13
    <3> QED BY ONLY <3>1, <3>2, KeepsSubset
  <2>15. Keeps(h, sz, g, sz2, Used(sz, F))
    <3>1. Keeps(h, sz, k3, sz2, Used(sz, F))
      BY ONLY <1>5, <2>13, KeepsTrans
    <3> QED BY ONLY <2>14, <3>1, KeepsTrans
  <2>16. SameRest(h, g)
    BY <1>4, <2>8, <2>12, RestTrans
  <2>17. blk <= sz2[b]
    BY <1>2, <2>2, <2>11
  <2> QED BY <2>12, <2>13, <2>15, <2>16, <2>17 DEF Gives
<1>11. CASE ~(sz[b] - blk >= 4)
  <2>1. PICK k1 : k1 = [out EXCEPT !.mem[b] = Header(e - b, Flag(out.mem[b], PINUSE) + INUSE)]
    OBVIOUS
  <2>2. k1.mem[e] = out.mem[e]
    <3>1. /\ k1 \in Heaps /\ SameRest(out, k1) /\ k1.bins = out.bins
          /\ \A w \in 1..MemWords : k1.mem[w] = IF w = b THEN Header(e - b, own) ELSE out.mem[w]
      <4>1. Flag(out.mem[b], PINUSE) \in {0, 2}
        BY <1>1, <1>5, ReadLemma
      <4>2. Header(e - b, own) \in Int /\ b \in 1..MemWords
        BY <1>2, <1>7, <1>9, <4>1, Geometry DEF Header
      <4>3. k1 = [out EXCEPT !.mem[b] = Header(e - b, own)]
        BY <1>9, <2>1
      <4> QED BY ONLY <1>5, <4>2, <4>3, PutLemma
    <3>2. e \in 1..MemWords /\ e # b
      BY <1>2, <1>7, Geometry
    <3> QED BY <3>1, <3>2
  <2>3. g = [k1 EXCEPT !.mem[e] = out.mem[e] - Flag(out.mem[e], PINUSE) + PINUSE]
    <3>1. g = [out EXCEPT !.mem[b] = Header(sz[b], own), !.mem[b + sz[b]] = @ - Flag(@, PINUSE) + PINUSE]
      BY <1>2, <1>3, <1>9, <1>11 DEF Carve
    <3>2. g = [out EXCEPT !.mem[b] = Header(e - b, own), !.mem[e] = @ - Flag(@, PINUSE) + PINUSE]
      BY ONLY <1>6, <1>7, <3>1
    <3> QED BY ONLY <1>9, <2>1, <2>2, <3>2
  <2>4. PICK sz2, F2 : sz2 = Merged(sz, b, e) /\ F2 = {f \in F : Outside(b, e, f)}
    OBVIOUS
  <2>5. F2 = F \ {b}
    BY <1>8, <2>4
  <2>6. /\ Well(g, sz2, F2, F2) /\ Changed(out, sz, F, g, sz2, F2, b, e) /\ SameRest(out, g)
        /\ sz2[b] = e - b /\ \A c \in Used(sz2, F2) : b <= c /\ c < e => c = b
        /\ b \in Used(sz2, F2)
    <3>1. Well(out, sz, F, F2) /\ \A c \in F2 : Outside(b, e, c)
      BY <1>4, <1>8, <2>5
    <3>2. e - b \in Evens /\ \A c \in DOMAIN sz : b <= c /\ c < e => sz[c] # 0
      BY <1>1, <1>2, <1>7
    <3>3. b \in DOMAIN sz /\ e \in DOMAIN sz /\ b < e
      BY <1>1, <1>7
    <3>4. Taking(out, sz, F, F2, b, e, k1, g, sz2, F2)
      BY ONLY <2>1, <2>3, <2>4, <3>1, <3>2, <3>3 DEF Taking
    <3>5. Taken(out, sz, F, F2, b, e, g, sz2, F2)
      BY ONLY <3>4, TakeLemma
    <3> QED BY <3>5 DEF Taken
  <2>7. Used(sz2, F2) = Used(sz, F) \cup {b} /\ Keeps(out, sz, g, sz2, Used(sz, F))
    <3>1. Used(sz, F) \subseteq Used(sz2, F2) /\ Keeps(out, sz, g, sz2, Used(sz, F))
      BY <1>8, <2>6, ChangedUsed
    <3>2. ASSUME NEW c \in Used(sz2, F2), c # b PROVE c \in Used(sz, F)
      <4>1. c \in DOMAIN sz2 /\ c \in Nat
        <5>1. Tiled(sz2)
          BY <2>6 DEF Well, Shape
        <5> QED BY <5>1, SizeLemma DEF Used
      <4>2. Outside(b, e, c)
        BY <1>2, <1>7, <2>6, <3>2, <4>1 DEF Outside
      <4> QED BY <2>6, <4>2 DEF Changed
    <3> QED BY <2>6, <3>1, <3>2
  <2>8. Keeps(h, sz, g, sz2, Used(sz, F)) /\ SameRest(h, g)
    BY <1>4, <1>5, <2>6, <2>7, KeepsTrans, RestTrans
  <2>9. blk <= sz2[b]
    BY <1>7, <2>6
  <2> QED BY <2>6, <2>7, <2>8, <2>9 DEF Gives
<1> QED BY <1>10, <1>11

\* What realloc in place leaves: the same blocks in use, b with blk words at least and
\* with its contents as far as they still fit.
Resized(h, sz, F, g, b, blk) ==
  \E sz2, F2 : /\ Well(g, sz2, F2, F2) /\ Used(sz2, F2) = Used(sz, F)
               /\ Keeps(h, sz, g, sz2, Used(sz, F) \ {b}) /\ blk <= sz2[b]
               /\ \A w \in (b + 1)..(b + sz[b] - 1) : w < b + sz2[b] => g.mem[w] = h.mem[w]

\* The tail of a block that is cut short comes back as a free block.
LEMMA ShrinkLemma ==
  ASSUME NEW h, NEW sz, NEW F, Well(h, sz, F, F), NEW b \in Used(sz, F),
         NEW blk \in Evens, 4 <= blk, blk <= sz[b], NEW g, g = ShrinkTail(h, b, blk)
  PROVE  SameRest(h, g) /\ Resized(h, sz, F, g, b, blk)
<1>1. Shape(h, sz, F) /\ Tiled(sz) /\ b \in DOMAIN sz /\ b \notin F /\ sz[b] # 0 /\ h \in Heaps
  BY DEF Well, Shape, Used
<1>2. /\ b \in Nat /\ 3 <= b /\ sz[b] \in Nat /\ b + sz[b] <= MemWords /\ SizeAt(h, b) = sz[b]
      /\ blk \in Nat /\ 4 <= sz[b]
  BY <1>1, SizeLemma, ReadLemma DEF Evens
<1>3. CASE sz[b] - blk < 4
  <2>1. g = h
    BY <1>2, <1>3 DEF ShrinkTail
  <2> QED BY <2>1 DEF Resized, SameRest, Keeps
<1>4. CASE ~(sz[b] - blk < 4)
  <2>1. PICK m \in Nat, e \in Nat : m = b + blk /\ e = b + sz[b]
    BY <1>2
  <2>2. m \in 1..MemWords /\ b \in 1..MemWords /\ b # m /\ m - b = blk /\ b + 4 <= m /\ m + 4 <= b + sz[b]
        /\ e - m = sz[b] - blk
    BY <1>2, <1>4, <2>1, Geometry
  <2>3. PICK v \in Int, t \in Int : /\ v = Header(m - b, Flag(h.mem[b], PINUSE) + INUSE)
                                    /\ t = Header(e - m, PINUSE + INUSE)
    <3>1. Flag(h.mem[b], PINUSE) \in {0, 2}
      BY <1>1, ReadLemma
    <3>2. PICK q \in {0, 2} : q = Flag(h.mem[b], PINUSE)
      BY <3>1
    <3>3. 2 * (m - b) + (q + 1) \in Int /\ 2 * (e - m) + 3 \in Int
      BY <1>2, <2>1
    <3> QED BY <3>2, <3>3 DEF Header
  <2>4. PICK k1, k2 : k1 = [h EXCEPT !.mem[b] = v] /\ k2 = [k1 EXCEPT !.mem[m] = t]
    OBVIOUS
  <2>5. /\ k1 \in Heaps /\ SameRest(h, k1) /\ k1.bins = h.bins
        /\ \A w \in 1..MemWords : k1.mem[w] = IF w = b THEN v ELSE h.mem[w]
    <3>1. h \in Heaps /\ b \in 1..MemWords /\ v \in Int
      BY <1>1, <2>2
    <3> QED BY ONLY <2>4, <3>1, PutLemma
  <2>6. /\ k2 \in Heaps /\ SameRest(k1, k2) /\ k2.bins = k1.bins
        /\ \A w \in 1..MemWords : k2.mem[w] = IF w = m THEN t ELSE k1.mem[w]
    <3>1. k1 \in Heaps /\ m \in 1..MemWords /\ t \in Int
      BY <2>2, <2>5
    <3>2. k2 = [k1 EXCEPT !.mem[m] = t]
      BY <2>4
    <3> QED BY ONLY SMTT(30), <3>1, <3>2, PutLemma
  <2>7. g = FreeBlock(k2, m + 1)
    <3>1. k2 = [h EXCEPT !.mem[b] = Header(blk, Flag(@, PINUSE) + INUSE),
                         !.mem[b + blk] = Header(sz[b] - blk, PINUSE + INUSE)]
      BY ONLY <2>1, <2>2, <2>3, <2>4
    <3> QED BY <1>2, <1>4, <2>1, <3>1 DEF ShrinkTail
  <2>8. PICK sz2, F2 : sz2 = Cut(sz, b, m) /\ F2 = F
    OBVIOUS
  <2>9. IsSplit(h, sz, F, F, b, m, e, k2, sz2, F2)
    <3>1. F2 = (F \ {b}) \cup (IF b \in F THEN {m} ELSE {})
      BY <1>1, <2>8
    <3>2. SameRest(h, k2) /\ k2.bins = h.bins
      BY <2>5, <2>6, RestTrans
    <3>3. /\ \A w \in 1..MemWords : w # b /\ w # m /\ (b \in F => w # e - 1) => k2.mem[w] = h.mem[w]
          /\ k2.mem[b] = Header(m - b, Flag(h.mem[b], PINUSE) + INUSE)
          /\ k2.mem[m] = Header(e - m, IF b \in F THEN PINUSE ELSE PINUSE + INUSE)
          /\ b \in F => k2.mem[e - 1] = e - m
      BY <1>1, <2>2, <2>3, <2>5, <2>6
    <3>4. Well(h, sz, F, F) /\ m - b \in Evens /\ k2 \in Heaps
      BY <2>2, <2>6
    <3>5. Splitting(h, sz, F, F, b, m, e, k2, sz2, F2)
      BY ONLY <1>1, <2>1, <2>2, <2>8, <3>1, <3>2, <3>3, <3>4 DEF Splitting
    <3> QED BY ONLY <3>5, SplitLemma
  <2>10. /\ Well(k2, sz2, F2, F2) /\ Changed(h, sz, F, k2, sz2, F2, b, e) /\ sz2[b] = blk
         /\ m \in DOMAIN sz2 /\ m \notin F2 /\ sz2[m] # 0 /\ b \in Used(sz2, F2) /\ m \notin Used(sz, F)
         /\ \A c \in Used(sz2, F2) : b <= c /\ c < e => c = b \/ c = m
    BY <1>2, <2>2, <2>8, <2>9 DEF IsSplit
  <2>11. m \in Used(sz2, F2)
    BY <2>10 DEF Used
  <2>12. SameRest(k2, g) /\ Leaves(k2, sz2, g, Used(sz2, F2) \ {m}, Used(sz2, F2) \ {m})
    <3>1. PICK payload : payload = m + 1
      OBVIOUS
    <3>2. g = FreeBlock(k2, payload) /\ Well(k2, sz2, F2, F2)
      BY <2>7, <2>10, <3>1
    <3> QED BY ONLY <2>11, <3>1, <3>2, FreeLemma
  <2>13. PICK sz3, F3 : /\ Well(g, sz3, F3, F3) /\ Used(sz3, F3) = Used(sz2, F2) \ {m}
                        /\ Keeps(k2, sz2, g, sz3, Used(sz2, F2) \ {m})
    BY <2>12 DEF Leaves
  <2>14. \A u \in Used(sz, F) : u # b => Outside(b, e, u)
    <3> SUFFICES ASSUME NEW u \in Used(sz, F), u # b PROVE Outside(b, e, u)
      OBVIOUS
    <3>1. u \in DOMAIN sz /\ u \in Nat
      BY <1>1, SizeLemma DEF Used
    <3>2. b < u => b + sz[b] <= u
      BY <1>1, <3>1 DEF Tiled
    <3> QED BY <1>2, <2>1, <3>1, <3>2 DEF Outside
  <2>15. \A c \in Used(sz2, F2) : c = b \/ c = m \/ Outside(b, e, c)
    <3> SUFFICES ASSUME NEW c \in Used(sz2, F2) PROVE c = b \/ c = m \/ Outside(b, e, c)
      OBVIOUS
    <3>1. c \in Nat
      <4>1. Tiled(sz2)
        BY <2>10 DEF Well, Shape
      <4> QED BY <4>1, SizeLemma DEF Used
    <3> QED BY <1>2, <2>1, <2>10, <3>1 DEF Outside
  <2>16. Used(sz3, F3) = Used(sz, F)
    <3>1. \A c \in Used(sz2, F2) \ {m} : c \in Used(sz, F)
      BY <2>10, <2>15 DEF Changed
    <3>2. \A c \in Used(sz, F) : c \in Used(sz2, F2) \ {m}
      BY <2>10, <2>14 DEF Changed
    <3> QED BY <2>13, <3>1, <3>2
  <2>17. Keeps(h, sz, g, sz3, Used(sz, F) \ {b})
    <3>1. PICK U : U = Used(sz, F) \ {b}
      OBVIOUS
    <3>2. Keeps(h, sz, k2, sz2, U)
      BY <2>10, <2>14, <3>1, ChangedUsed
    <3>3. Keeps(k2, sz2, g, sz3, U)
      <4>1. U \subseteq Used(sz2, F2) \ {m}
        BY <2>13, <2>16, <3>1
      <4> QED BY <2>13, <4>1, KeepsSubset
    <3>4. Keeps(h, sz, g, sz3, U)
      BY ONLY <3>2, <3>3, KeepsTrans
    <3> QED BY <3>1, <3>4
  <2>18. sz3[b] = blk /\ \A w \in (b + 1)..(b + blk - 1) : g.mem[w] = k2.mem[w]
    <3>1. b \in Used(sz2, F2) \ {m}
      BY <2>2, <2>10
    <3> QED BY <2>10, <2>13, <3>1 DEF Keeps
  <2>19. \A w \in (b + 1)..(b + sz[b] - 1) : w < b + sz3[b] => g.mem[w] = h.mem[w]
    <3> SUFFICES ASSUME NEW w \in (b + 1)..(b + sz[b] - 1), w < b + sz3[b] PROVE g.mem[w] = h.mem[w]
      OBVIOUS
    <3>1. w \in Nat /\ w \in (b + 1)..(b + blk - 1) /\ w # b /\ w # m /\ w \in 1..MemWords
      BY <1>2, <2>1, <2>18, Geometry
    <3> QED BY <2>5, <2>6, <2>18, <3>1
  <2>20. blk <= sz3[b] /\ SameRest(h, g)
    <3>1. SameRest(h, k2)
      BY <2>9, <2>5, <2>6, RestTrans
    <3> QED BY <1>2, <2>12, <2>18, <3>1, RestTrans
  <2> QED BY <2>13, <2>16, <2>17, <2>19, <2>20 DEF Resized
<1> QED BY <1>3, <1>4

\* A block in use takes in its free successor.
LEMMA AbsorbLemma ==
  ASSUME NEW h, NEW sz, NEW F, Well(h, sz, F, F), NEW b \in Used(sz, F), b + sz[b] \in F,
         NEW g, g = Absorb(h, b)
  PROVE  /\ SameRest(h, g) /\ Resized(h, sz, F, g, b, sz[b] + sz[b + sz[b]])
<1>1. Shape(h, sz, F) /\ Tiled(sz) /\ Spaced(sz, F) /\ b \in DOMAIN sz /\ b \notin F /\ sz[b] # 0
  BY DEF Well, Shape, Used
<1>2. PICK n \in F : n = b + sz[b]
  OBVIOUS
<1>3. n \in DOMAIN sz /\ sz[n] # 0 /\ n + sz[n] \notin F
  BY <1>1 DEF Spaced
<1>4. /\ b \in Nat /\ 3 <= b /\ sz[b] \in Nat /\ sz[b] \in Evens /\ SizeAt(h, b) = sz[b]
      /\ n \in Nat /\ sz[n] \in Nat /\ sz[n] \in Evens /\ SizeAt(h, n) = sz[n]
      /\ 4 <= sz[b] /\ 4 <= sz[n] /\ n + sz[n] \in DOMAIN sz /\ n + sz[n] <= MemWords
  <2>1. sz[b] \in Evens /\ sz[n] \in Evens
    BY <1>1, <1>3 DEF Tiled
  <2> QED BY <1>1, <1>3, <2>1, SizeLemma, ReadLemma
<1>5. PICK e \in DOMAIN sz : e = n + sz[n]
  BY <1>4
<1>6. e \in Nat /\ b < e /\ b < n /\ n < e /\ e <= MemWords /\ e - b = sz[b] + sz[n] /\ e - b \in Evens
      /\ b + (sz[b] + sz[n]) = e
  <2>1. sz[b] + sz[n] \in Evens
    BY <1>4, EvenSum
  <2>2. e - b = sz[b] + sz[n] /\ b + (sz[b] + sz[n]) = e
    BY <1>2, <1>4, <1>5
  <2> QED BY <1>2, <1>4, <1>5, <2>1, <2>2
<1>7. \A c \in DOMAIN sz : ~Outside(b, e, c) => c = b \/ c = n
  <2> SUFFICES ASSUME NEW c \in DOMAIN sz, ~Outside(b, e, c), c # b, c # n PROVE FALSE
    OBVIOUS
  <2>1. c \in Nat
    BY <1>1, SizeLemma
  <2>2. b < c /\ c < e
    BY <1>4, <1>6, <2>1 DEF Outside
  <2>3. n <= c
    BY <1>1, <1>2, <2>2 DEF Tiled
  <2>4. n < c
    BY <1>4, <2>1, <2>3
  <2>5. e <= c
    BY <1>1, <1>3, <1>5, <2>4 DEF Tiled
  <2> QED BY <1>6, <2>1, <2>2, <2>5
<1>8. ~Outside(b, e, b) /\ ~Outside(b, e, n)
  BY <1>4, <1>6 DEF Outside
<1>9. PICK out : out = Unlink(h, n)
  OBVIOUS
<1>10. Well(out, sz, F, F \ {n}) /\ LinksOnly(h, out, F) /\ SameRest(h, out)
  BY <1>9, UnlinkLemma
<1>11. Shape(out, sz, F) /\ out \in Heaps /\ Keeps(h, sz, out, sz, Used(sz, F))
  <2>1. Shape(out, sz, F) /\ out \in Heaps
    BY <1>10 DEF Well, Shape
  <2> QED BY <1>1, <1>10, <2>1, LinksOnlyLemma
<1>12. PICK v \in Int : v = Header(e - b, Flag(out.mem[b], PINUSE) + INUSE)
  <2>1. PICK q \in {0, 2} : q = Flag(out.mem[b], PINUSE)
    BY <1>1, <1>11, ReadLemma
  <2>2. 2 * (e - b) + (q + 1) \in Int
    BY <1>4, <1>6
  <2> QED BY <2>1, <2>2 DEF Header
<1>13. PICK k1 : k1 = [out EXCEPT !.mem[b] = v]
  OBVIOUS
<1>14. /\ k1 \in Heaps /\ SameRest(out, k1) /\ k1.bins = out.bins
       /\ \A w \in 1..MemWords : k1.mem[w] = IF w = b THEN v ELSE out.mem[w]
  <2>1. out \in Heaps /\ b \in 1..MemWords /\ v \in Int
    BY <1>4, <1>6, <1>11, Geometry
  <2> QED BY ONLY <1>13, <2>1, PutLemma
<1>15. k1.mem[e] = out.mem[e]
  <2>1. e \in 1..MemWords /\ e # b
    BY <1>4, <1>6, Geometry
  <2> QED BY <1>14, <2>1
<1>16. g = [k1 EXCEPT !.mem[e] = out.mem[e] - Flag(out.mem[e], PINUSE) + PINUSE]
  <2>1. g = [out EXCEPT !.mem[b] = Header(e - b, Flag(@, PINUSE) + INUSE),
                        !.mem[b + (sz[b] + sz[n])] = @ - Flag(@, PINUSE) + PINUSE]
    BY <1>2, <1>4, <1>6, <1>9 DEF Absorb
  <2>2. g = [out EXCEPT !.mem[b] = Header(e - b, Flag(@, PINUSE) + INUSE),
                        !.mem[e] = @ - Flag(@, PINUSE) + PINUSE]
    BY ONLY <1>6, <2>1
  <2> QED BY ONLY <1>12, <1>13, <1>15, <2>2
<1>17. PICK sz2, F2 : sz2 = Merged(sz, b, e) /\ F2 = {f \in F : Outside(b, e, f)}
  OBVIOUS
<1>18. F2 = F \ {n}
  <2>1. \A f \in F : Outside(b, e, f) <=> f # n
    BY <1>1, <1>7, <1>8 DEF Spaced
  <2> QED BY <1>17, <2>1
<1>19. /\ Well(g, sz2, F2, F2) /\ Changed(out, sz, F, g, sz2, F2, b, e) /\ SameRest(out, g)
       /\ sz2[b] = e - b /\ \A c \in Used(sz2, F2) : b <= c /\ c < e => c = b
       /\ b \in Used(sz2, F2)
       /\ \A w \in 1..MemWords : w # b /\ w # e => g.mem[w] = out.mem[w]
  <2>1. Well(out, sz, F, F2) /\ \A c \in F2 : Outside(b, e, c)
    BY <1>10, <1>17, <1>18
  <2>2. \A c \in DOMAIN sz : b <= c /\ c < e => sz[c] # 0
    <3> SUFFICES ASSUME NEW c \in DOMAIN sz, b <= c, c < e PROVE sz[c] # 0
      OBVIOUS
    <3>1. c \in Nat
      BY <1>1, SizeLemma
    <3>2. c = b \/ c = n
      BY <1>4, <1>6, <1>7, <3>1 DEF Outside
    <3> QED BY <1>1, <1>3, <3>2
  <2>3. b \in DOMAIN sz /\ e \in DOMAIN sz /\ b < e /\ e - b \in Evens
    BY <1>1, <1>6
  <2>4. k1 = [out EXCEPT !.mem[b] = Header(e - b, Flag(out.mem[b], PINUSE) + INUSE)]
    BY ONLY <1>12, <1>13
  <2>5. Taking(out, sz, F, F2, b, e, k1, g, sz2, F2)
    BY ONLY <1>16, <1>17, <2>1, <2>2, <2>3, <2>4 DEF Taking
  <2>6. Taken(out, sz, F, F2, b, e, g, sz2, F2)
    BY ONLY <2>5, TakeLemma
  <2> QED BY <2>6 DEF Taken
<1>20. \A u \in Used(sz, F) : u # b => Outside(b, e, u)
  BY <1>7 DEF Used
<1>21. Used(sz2, F2) = Used(sz, F)
  <2>1. ASSUME NEW c \in Used(sz2, F2), c # b PROVE c \in Used(sz, F)
    <3>1. c \in Nat
      <4>1. Tiled(sz2)
        BY <1>19 DEF Well, Shape
      <4> QED BY <4>1, SizeLemma DEF Used
    <3>2. Outside(b, e, c)
      BY <1>4, <1>6, <1>19, <2>1, <3>1 DEF Outside
    <3> QED BY <1>19, <3>2 DEF Changed
  <2>2. \A c \in Used(sz, F) : c \in Used(sz2, F2)
    BY <1>19, <1>20 DEF Changed
  <2> QED BY <2>1, <2>2
<1>22. Keeps(h, sz, g, sz2, Used(sz, F) \ {b})
  <2>1. PICK U : U = Used(sz, F) \ {b}
    OBVIOUS
  <2>2. Keeps(out, sz, g, sz2, U)
    BY <1>19, <1>20, <2>1, ChangedUsed
  <2>3. Keeps(h, sz, out, sz, U)
    <3>1. U \subseteq Used(sz, F)
      BY <2>1
    <3> QED BY <1>11, <3>1, KeepsSubset
  <2>4. Keeps(h, sz, g, sz2, U)
    BY ONLY <2>2, <2>3, KeepsTrans
  <2> QED BY <2>1, <2>4
<1>23. \A w \in (b + 1)..(b + sz[b] - 1) : g.mem[w] = h.mem[w]
  <2> SUFFICES ASSUME NEW w \in (b + 1)..(b + sz[b] - 1) PROVE g.mem[w] = h.mem[w]
    OBVIOUS
  <2>1. w \in 1..MemWords /\ w # b /\ w # e
    BY <1>2, <1>4, <1>6, Geometry
  <2>2. out.mem[w] = h.mem[w]
    BY <1>11 DEF Keeps
  <2> QED BY <1>19, <2>1, <2>2
<1>24. SameRest(h, g)
  BY <1>10, <1>19, RestTrans
<1>25. sz[b] + sz[b + sz[b]] <= sz2[b]
  BY <1>2, <1>4, <1>6, <1>19
<1> QED BY <1>19, <1>21, <1>22, <1>23, <1>24, <1>25 DEF Resized

\* Growing in place, as realloc does it.
LEMMA GrowLemma ==
  ASSUME NEW h, NEW sz, NEW F, Well(h, sz, F, F), NEW b \in Used(sz, F), b + sz[b] \in F,
         NEW blk \in Evens, sz[b] < blk, blk <= sz[b] + sz[b + sz[b]],
         NEW g, g = ShrinkTail(Absorb(h, b), b, blk)
  PROVE  SameRest(h, g) /\ Resized(h, sz, F, g, b, blk)
<1>1. Tiled(sz) /\ b \in DOMAIN sz /\ sz[b] # 0
  BY DEF Well, Shape, Used
<1>2. b \in Nat /\ sz[b] \in Nat /\ 4 <= sz[b] /\ blk \in Nat /\ sz[b + sz[b]] \in Nat
  <2>1. b \in Nat /\ sz[b] \in Nat /\ 4 <= sz[b] /\ b + sz[b] \in DOMAIN sz
    BY <1>1, SizeLemma
  <2> QED BY <1>1, <2>1, SizeLemma DEF Evens
<1>3. PICK k : k = Absorb(h, b)
  OBVIOUS
<1>4. SameRest(h, k) /\ Resized(h, sz, F, k, b, sz[b] + sz[b + sz[b]])
  BY <1>3, AbsorbLemma
<1>5. PICK sz2, F2 : /\ Well(k, sz2, F2, F2) /\ Used(sz2, F2) = Used(sz, F)
                     /\ Keeps(h, sz, k, sz2, Used(sz, F) \ {b}) /\ sz[b] + sz[b + sz[b]] <= sz2[b]
                     /\ \A w \in (b + 1)..(b + sz[b] - 1) : w < b + sz2[b] => k.mem[w] = h.mem[w]
  BY <1>4 DEF Resized
<1>6. b \in Used(sz2, F2) /\ sz2[b] \in Nat
  <2>1. b \in Used(sz2, F2) /\ b \in DOMAIN sz2 /\ Tiled(sz2)
    BY <1>5 DEF Used, Well, Shape
  <2> QED BY <2>1, SizeLemma
<1>7. 4 <= blk /\ blk <= sz2[b] /\ sz[b] < sz2[b]
  BY <1>2, <1>5, <1>6
<1>8. SameRest(k, g) /\ Resized(k, sz2, F2, g, b, blk)
  BY <1>3, <1>5, <1>6, <1>7, ShrinkLemma
<1>9. PICK sz3, F3 : /\ Well(g, sz3, F3, F3) /\ Used(sz3, F3) = Used(sz2, F2)
                     /\ Keeps(k, sz2, g, sz3, Used(sz2, F2) \ {b}) /\ blk <= sz3[b]
                     /\ \A w \in (b + 1)..(b + sz2[b] - 1) : w < b + sz3[b] => g.mem[w] = k.mem[w]
  BY <1>8 DEF Resized
<1>10. PICK U : U = Used(sz, F) \ {b} /\ U = Used(sz2, F2) \ {b}
  BY <1>5
<1>11. Keeps(h, sz, g, sz3, U)
  <2>1. Keeps(h, sz, k, sz2, U) /\ Keeps(k, sz2, g, sz3, U)
    BY <1>5, <1>9, <1>10
  <2> QED BY ONLY <2>1, KeepsTrans
<1>12. \A w \in (b + 1)..(b + sz[b] - 1) : w < b + sz3[b] => g.mem[w] = h.mem[w]
  <2> SUFFICES ASSUME NEW w \in (b + 1)..(b + sz[b] - 1), w < b + sz3[b] PROVE g.mem[w] = h.mem[w]
    OBVIOUS
  <2>1. w \in (b + 1)..(b + sz2[b] - 1) /\ w < b + sz2[b]
    BY <1>2, <1>6, <1>7
  <2> QED BY <1>5, <1>9, <2>1
<1>13. SameRest(h, g)
  BY <1>4, <1>8, RestTrans
<1> QED BY <1>5, <1>9, <1>10, <1>11, <1>12, <1>13 DEF Resized

\* The walk of a bin meets every free block of the bin once, and each names the one before.
IsList(h, sz, F, i, list) ==
  /\ list \in Seq(F)
  /\ \A k \in DOMAIN list : /\ Bin(sz[list[k]]) = i
                            /\ h.mem[list[k] + 2] = IF k = 1 THEN 0 ELSE list[k - 1]
  /\ \A f \in F : Bin(sz[f]) = i => \E k \in DOMAIN list : list[k] = f
  /\ \A j, k \in DOMAIN list : list[j] = list[k] => j = k

\* The walk over a bin visits the free blocks of that bin, each once, and ends.
LEMMA ListLemma ==
  ASSUME NEW h, NEW sz, NEW F, Well(h, sz, F, F), NEW i \in 0..(NBINS - 1), NEW list, list = ListOf(h, i)
  PROVE  IsList(h, sz, F, i, list)
<1>1. Shape(h, sz, F) /\ Tiled(sz) /\ Spaced(sz, F) /\ h \in Heaps
  BY DEF Well, Shape
<1>2. PICK top \in Nat : \E rank : Linked(h.mem, h.bins, sz, F, rank, top)
  BY DEF Well, Listed
<1>3. PICK rank : Linked(h.mem, h.bins, sz, F, rank, top)
  BY <1>2
<1>4. \A f \in F : f \in Nat /\ 3 <= f /\ f + 4 <= MemWords /\ f # 0 /\ f \in 1..(MemWords - 1)
  <2> TAKE f \in F
  <2>1. f \in DOMAIN sz /\ sz[f] # 0
    BY <1>1 DEF Spaced
  <2>2. f \in Nat /\ 3 <= f /\ 4 <= sz[f] /\ f + sz[f] <= MemWords /\ sz[f] \in Nat
    BY <1>1, <2>1, SizeLemma
  <2> QED BY <2>2, Geometry
<1>5. MemWords \in Nat
  BY Geometry
<1> DEFINE follow == [b \in 1..(MemWords - 1) |-> h.mem[b + 1]]
<1>6. PICK at, nx : at = Iterate(nx, h.bins[i]) /\ nx = follow
  OBVIOUS
<1>7. /\ at[0] = h.bins[i]
      /\ \A k \in Nat : at[k + 1] = IF at[k] \in 1..(MemWords - 1) THEN h.mem[at[k] + 1] ELSE at[k]
  <2>1. at = Iterate(nx, h.bins[i])
    BY <1>6
  <2>2. /\ at[0] = h.bins[i]
        /\ \A k \in Nat : at[k + 1] = IF at[k] \in DOMAIN nx THEN nx[at[k]] ELSE at[k]
    BY ONLY <2>1, IterateLemma
  <2> QED BY <1>6, <2>2
<1> DEFINE On(b) == b \in F /\ Bin(sz[b]) = i
<1>8. \A k \in Nat : at[k] = 0 => at[k + 1] = 0
  BY <1>7
<1>9. \A k \in Nat : at[k] = 0 \/ On(at[k])
  <2> DEFINE Bad == {k \in Nat : ~(at[k] = 0 \/ On(at[k]))}
  <2> SUFFICES ASSUME Bad # {} PROVE FALSE
    OBVIOUS
  <2>1. PICK k \in Bad : \A j \in Bad : k <= j
    BY LeastLemma
  <2>2. k # 0
    BY <1>3, <1>7 DEF Linked
  <2>3. PICK j \in Nat : k = j + 1
    <3>1. k - 1 \in Nat /\ k = (k - 1) + 1
      BY <2>2
    <3> QED BY <3>1
  <2>4. j \notin Bad
    BY <2>1, <2>3
  <2>5. On(at[j])
    BY <1>8, <2>3, <2>4
  <2>6. at[k] = h.mem[at[j] + 1]
    BY <1>4, <1>7, <2>3, <2>5
  <2>7. at[k] # 0 => On(at[k])
    BY <1>3, <2>5, <2>6 DEF Linked
  <2> QED BY <2>7
<1>10. \A k \in Nat : at[k] # 0 => at[k + 1] = h.mem[at[k] + 1]
  BY <1>4, <1>7, <1>9
<1>11. \A k \in Nat : at[k + 1] # 0 => /\ at[k] # 0 /\ h.mem[at[k + 1] + 2] = at[k]
                                       /\ rank[at[k + 1]] < rank[at[k]]
  <2> SUFFICES ASSUME NEW k \in Nat, at[k + 1] # 0
               PROVE  at[k] # 0 /\ h.mem[at[k + 1] + 2] = at[k] /\ rank[at[k + 1]] < rank[at[k]]
    OBVIOUS
  <2>1. at[k] # 0
    BY <1>8
  <2>2. at[k] \in F /\ at[k + 1] = h.mem[at[k] + 1]
    BY <1>9, <1>10, <2>1
  <2> QED BY <1>3, <2>1, <2>2 DEF Linked
<1>12. \A f \in F : rank[f] \in Nat
  BY <1>3 DEF Linked
<1>13. \A j, k \in Nat : j < k /\ at[k] # 0 => at[j] # 0 /\ rank[at[k]] < rank[at[j]]
  <2> SUFFICES ASSUME NEW j \in Nat PROVE \A k \in Nat : j < k /\ at[k] # 0 => at[j] # 0 /\ rank[at[k]] < rank[at[j]]
    OBVIOUS
  <2> DEFINE Bad == {k \in Nat : j < k /\ at[k] # 0 /\ ~(at[j] # 0 /\ rank[at[k]] < rank[at[j]])}
  <2> SUFFICES ASSUME Bad # {} PROVE FALSE
    OBVIOUS
  <2>1. PICK k \in Bad : \A m \in Bad : k <= m
    BY LeastLemma
  <2>2. PICK m \in Nat : k = m + 1
    <3>1. k - 1 \in Nat /\ k = (k - 1) + 1
      OBVIOUS
    <3> QED BY <3>1
  <2>3. at[m] # 0 /\ rank[at[k]] < rank[at[m]]
    BY <1>11, <2>2
  <2>4. m # j
    BY <2>3
  <2>5. j < m /\ m \notin Bad
    BY <2>1, <2>2, <2>4
  <2>6. at[j] # 0 /\ rank[at[m]] < rank[at[j]]
    BY <2>3, <2>5
  <2>7. rank[at[k]] \in Nat /\ rank[at[m]] \in Nat /\ rank[at[j]] \in Nat
    BY <1>9, <1>12, <2>3, <2>6
  <2> QED BY <2>3, <2>6, <2>7
<1>14. \A j, k \in Nat : at[j] # 0 /\ at[j] = at[k] => j = k
  <2> SUFFICES ASSUME NEW j \in Nat, NEW k \in Nat, at[j] # 0, at[j] = at[k], j # k PROVE FALSE
    OBVIOUS
  <2>1. rank[at[j]] \in Nat /\ (rank[at[k]] < rank[at[j]] \/ rank[at[j]] < rank[at[k]])
    BY <1>9, <1>12, <1>13
  <2> QED BY <2>1
<1>15. at[MemWords] = 0
  <2> SUFFICES ASSUME at[MemWords] # 0 PROVE FALSE
    OBVIOUS
  <2>1. \A k \in 0..MemWords : k \in Nat /\ at[k] # 0
    BY <1>5, <1>13
  <2> DEFINE f == [k \in 0..MemWords |-> at[k]]
  <2>2. f \in [0..MemWords -> 1..MemWords]
    <3>1. \A k \in 0..MemWords : at[k] \in 1..MemWords
      BY <1>4, <1>5, <1>9, <2>1
    <3> QED BY <3>1
  <2>3. IsFiniteSet(0..MemWords) /\ Cardinality(0..MemWords) = MemWords + 1
        /\ IsFiniteSet(1..MemWords) /\ Cardinality(1..MemWords) = MemWords
    <3>1. 0 \in Int /\ 1 \in Int /\ MemWords \in Int
      BY <1>5
    <3>2. IsFiniteSet(0..MemWords) /\ Cardinality(0..MemWords) = (IF 0 > MemWords THEN 0 ELSE MemWords - 0 + 1)
      BY <3>1, FS_Interval
    <3>3. IsFiniteSet(1..MemWords) /\ Cardinality(1..MemWords) = (IF 1 > MemWords THEN 0 ELSE MemWords - 1 + 1)
      BY <3>1, FS_Interval
    <3> QED BY <1>5, <3>2, <3>3
  <2>4. Cardinality(1..MemWords) < Cardinality(0..MemWords)
    BY <1>5, <2>3
  <2>5. \E x, y \in 0..MemWords : x # y /\ f[x] = f[y]
    <3> HIDE DEF f
    <3> QED BY <2>2, <2>3, <2>4, FS_PigeonHole
  <2> QED BY <1>14, <2>1, <2>5
<1>16. PICK len \in Nat : at[len] = 0 /\ len <= MemWords /\ \A k \in Nat : at[k] = 0 => len <= k
  <2> DEFINE Z == {k \in Nat : at[k] = 0}
  <2>1. MemWords \in Z
    BY <1>5, <1>15
  <2>2. PICK len \in Z : \A k \in Z : len <= k
    BY <2>1, LeastLemma
  <2> QED BY <2>1, <2>2
<1>17. \A k \in Nat : k < len <=> at[k] # 0
  <2> TAKE k \in Nat
  <2>1. at[k] = 0 => len <= k
    BY <1>16
  <2>2. len <= k => at[k] = 0
    BY <1>13, <1>16
  <2> QED BY <1>16, <2>1, <2>2
<1>18. \A k \in 0..MemWords : at[k] = 0 /\ (k = 0 \/ at[k - 1] # 0) <=> k = len
  <2> TAKE k \in 0..MemWords
  <2>1. k \in Nat /\ (k = 0 \/ k - 1 \in Nat)
    OBVIOUS
  <2> QED BY <1>16, <1>17, <2>1
<1>19. list = [k \in 1..len |-> at[k - 1]]
  <2>1. len \in 0..MemWords
    BY <1>5, <1>16
  <2>2. (CHOOSE k \in 0..MemWords : at[k] = 0 /\ (k = 0 \/ at[k - 1] # 0)) = len
    BY <1>18, <2>1
  <2> QED BY <1>6, <2>2 DEF ListOf
<1>20. \A k \in 1..len : k - 1 \in Nat /\ k - 1 < len /\ at[k - 1] # 0 /\ On(at[k - 1])
  BY <1>9, <1>16, <1>17
<1>21. list \in Seq(F) /\ DOMAIN list = 1..len
  BY <1>16, <1>19, <1>20
<1>22. ASSUME NEW k \in 1..len
       PROVE  Bin(sz[list[k]]) = i /\ h.mem[list[k] + 2] = IF k = 1 THEN 0 ELSE list[k - 1]
  <2>1. list[k] = at[k - 1] /\ Bin(sz[list[k]]) = i
    BY <1>19, <1>20
  <2>2. CASE k = 1
    <3>1. h.bins[i] = at[0] /\ at[0] # 0 /\ list[k] = at[0]
      <4>1. k - 1 = 0
        BY <2>2
      <4> QED BY <1>7, <1>20, <2>1, <4>1
    <3> QED BY <1>3, <2>1, <2>2, <3>1 DEF Linked
  <2>3. CASE k # 1
    <3>1. PICK j \in Nat : k = j + 2
      <4>1. k - 2 \in Nat /\ k = (k - 2) + 2
        BY <1>16, <2>3
      <4> QED BY <4>1
    <3>2. list[k] = at[j + 1] /\ at[j + 1] # 0 /\ list[k - 1] = at[j]
      <4>1. k - 1 = j + 1 /\ k - 1 \in 1..len /\ (k - 1) - 1 = j
        BY <1>16, <3>1
      <4> QED BY <1>19, <1>20, <2>1, <4>1
    <3> QED BY <1>11, <2>1, <2>3, <3>1, <3>2
  <2> QED BY <2>2, <2>3
<1>23. ASSUME NEW f \in F, Bin(sz[f]) = i PROVE \E k \in Nat : at[k] = f
  <2> DEFINE Missed(b) == On(b) /\ \A k \in Nat : at[k] # b
             R == {r \in Nat : \E b : Missed(b) /\ r = top - rank[b]}
  <2> SUFFICES ASSUME Missed(f) PROVE FALSE
    BY <1>23
  <2>1. \A b \in F : rank[b] \in 0..top
    BY <1>3 DEF Linked
  <2>2. top - rank[f] \in R
    BY <1>2, <2>1
  <2>3. PICK r \in R : \A s \in R : r <= s
    BY <2>2, LeastLemma
  <2>4. PICK b : Missed(b) /\ r = top - rank[b]
    OBVIOUS
  <2>5. b \in F /\ Bin(sz[b]) = i /\ b # 0
    BY <1>4, <2>4
  <2>6. h.mem[b + 2] # 0
    <3> SUFFICES ASSUME h.mem[b + 2] = 0 PROVE FALSE
      OBVIOUS
    <3>1. h.bins[i] = b
      BY <1>3, <2>5 DEF Linked
    <3> QED BY <1>7, <2>4, <3>1
  <2>7. PICK p \in F : p = h.mem[b + 2] /\ h.mem[p + 1] = b
    BY <1>3, <2>5, <2>6 DEF Linked
  <2>8. Bin(sz[p]) = i /\ rank[b] < rank[p]
    BY <1>3, <2>5, <2>7 DEF Linked
  <2>9. ~Missed(p)
    <3> SUFFICES ASSUME Missed(p) PROVE FALSE
      OBVIOUS
    <3>1. rank[p] \in 0..top /\ rank[b] \in 0..top
      BY <2>1, <2>5
    <3>2. top - rank[p] \in R
      BY <1>2, <3>1
    <3> QED BY <1>2, <2>3, <2>4, <2>8, <3>1, <3>2
  <2>10. PICK k \in Nat : at[k] = p
    BY <2>7, <2>8, <2>9
  <2>11. at[k + 1] = b
    BY <1>4, <1>10, <2>7, <2>10
  <2> QED BY <2>4, <2>11
<1>24. ASSUME NEW f \in F, Bin(sz[f]) = i PROVE \E k \in DOMAIN list : list[k] = f
  <2>1. PICK k \in Nat : at[k] = f
    BY <1>23, <1>24
  <2>2. k < len
    BY <1>4, <1>17, <2>1
  <2>3. k + 1 \in 1..len /\ (k + 1) - 1 = k
    BY <1>16, <2>2
  <2> QED BY <1>19, <1>21, <2>1, <2>3
<1>25. \A j, k \in DOMAIN list : list[j] = list[k] => j = k
  <2> SUFFICES ASSUME NEW j \in 1..len, NEW k \in 1..len, list[j] = list[k] PROVE j = k
    BY <1>21
  <2>1. at[j - 1] = at[k - 1] /\ j - 1 \in Nat /\ k - 1 \in Nat /\ at[j - 1] # 0
    BY <1>19, <1>20
  <2>2. j - 1 = k - 1
    BY <1>14, <2>1
  <2> QED BY <2>2
<1> QED BY <1>21, <1>22, <1>24, <1>25 DEF IsList

\* What a search for blk words may return.
Found(sz, F, blk, b) == IF b = 0 THEN \A f \in F : sz[f] < blk ELSE b \in F /\ blk <= sz[b]

\* __heap_find fails only when no free block is large enough, and returns one that is.
LEMMA FindLemma ==
  ASSUME NEW h, NEW sz, NEW F, Well(h, sz, F, F), NEW blk \in BlockSizes, NEW b, b = Find(h, blk)
  PROVE  Found(sz, F, blk, b)
<1>1. Shape(h, sz, F) /\ Tiled(sz) /\ Spaced(sz, F)
  BY DEF Well, Shape
<1>2. \A f \in F : /\ f # 0 /\ SizeAt(h, f) = sz[f] /\ sz[f] \in BlockSizes /\ sz[f] \in Nat
                   /\ Bin(sz[f]) \in 0..(NBINS - 1)
  <2> TAKE f \in F
  <2>1. f \in DOMAIN sz /\ sz[f] # 0
    BY <1>1 DEF Spaced
  <2>2. f \in Nat /\ 3 <= f /\ sz[f] \in BlockSizes /\ sz[f] \in Nat
    BY <1>1, <2>1, SizeLemma
  <2> QED BY <1>1, <2>1, <2>2, ReadLemma, BinLemma
<1>3. PICK first \in Nat : first = Bin(blk) /\ first \in 0..(NBINS - 1)
  BY BinLemma
<1>4. blk \in Nat /\ NBINS \in Nat /\ NSMALL \in Nat
  BY Geometry DEF BlockSizes, Evens, NBINS
<1> DEFINE fits(i) == LET list == ListOf(h, i)
                      IN  {k \in DOMAIN list : i < NSMALL \/ SizeAt(h, list[k]) >= blk}
           bins == {i \in first..(NBINS - 1) : fits(i) # {}}
<1>5. b = IF bins = {} THEN 0 ELSE ListOf(h, Min(bins))[Min(fits(Min(bins)))]
  BY <1>3 DEF Find
<1>6. bins \subseteq Nat /\ \A i \in bins : i \in 0..(NBINS - 1) /\ first <= i
  BY <1>3, <1>4
<1>7. ASSUME NEW i \in bins, NEW k \in fits(i)
      PROVE  k \in Nat /\ ListOf(h, i)[k] \in F /\ blk <= sz[ListOf(h, i)[k]]
  <2>1. PICK list : list = ListOf(h, i)
    OBVIOUS
  <2>2. IsList(h, sz, F, i, list)
    BY <1>6, <2>1, ListLemma
  <2>3. k \in DOMAIN list /\ list \in Seq(F) /\ Bin(sz[list[k]]) = i
    BY <2>1, <2>2 DEF IsList
  <2>4. k \in Nat /\ list[k] \in F
    <3>1. k \in 1..Len(list)
      BY <2>3
    <3> QED BY <2>3, <3>1, ElementOfSeq
  <2>5. PICK f \in F : f = list[k]
    BY <2>4
  <2>6. CASE i < NSMALL
    <3>1. sz[f] = 4 + 2 * i
      BY <1>2, <2>3, <2>5, <2>6, BinLemma
    <3>2. first < NSMALL /\ first <= i /\ i \in Nat
      BY <1>3, <1>4, <1>6, <2>6
    <3>3. blk = 4 + 2 * first
      BY <1>3, <3>2, BinLemma
    <3>4. blk <= sz[f]
      BY <1>3, <3>1, <3>2, <3>3
    <3> QED BY <2>1, <2>4, <2>5, <3>4
  <2>7. CASE ~(i < NSMALL)
    <3>1. SizeAt(h, f) >= blk
      BY <2>1, <2>5, <2>7
    <3>2. blk <= sz[f]
      BY <1>2, <1>4, <3>1
    <3> QED BY <2>1, <2>4, <2>5, <3>2
  <2> QED BY <2>6, <2>7
<1>8. ASSUME NEW f \in F, blk <= sz[f] PROVE bins # {}
  <2>1. PICK i \in 0..(NBINS - 1) : i = Bin(sz[f])
    BY <1>2
  <2>2. first <= i
    BY <1>2, <1>3, <1>8, <2>1, BinLemma
  <2>3. PICK list : list = ListOf(h, i)
    OBVIOUS
  <2>4. IsList(h, sz, F, i, list)
    BY <2>3, ListLemma
  <2>5. PICK k \in DOMAIN list : list[k] = f
    BY <2>1, <2>4 DEF IsList
  <2>6. SizeAt(h, f) >= blk
    BY <1>2, <1>4, <1>8
  <2>7. k \in fits(i)
    BY <2>3, <2>5, <2>6
  <2>8. i \in first..(NBINS - 1)
    BY <1>3, <1>4, <2>2
  <2> QED BY <2>7, <2>8
<1>9. ASSUME bins # {} PROVE b \in F /\ blk <= sz[b]
  <2>1. PICK i \in bins : i = Min(bins)
    <3> HIDE DEF bins
    <3> QED BY <1>6, <1>9, MinLemma
  <2>2. fits(i) # {} /\ fits(i) \subseteq Nat
    <3>1. fits(i) # {}
      OBVIOUS
    <3>2. \A k \in fits(i) : k \in Nat
      <4> HIDE DEF bins, fits
      <4> QED BY <1>7
    <3> QED BY <3>1, <3>2
  <2> HIDE DEF fits, bins
  <2>3. Min(fits(i)) \in fits(i)
    BY <2>2, MinLemma
  <2>4. b = ListOf(h, i)[Min(fits(i))]
    BY <1>5, <1>9, <2>1
  <2> QED BY <1>7, <2>3, <2>4
<1>10. CASE b = 0
  <2>1. bins = {}
    <3> HIDE DEF bins
    <3> QED BY <1>2, <1>9, <1>10
  <2>2. \A f \in F : ~(blk <= sz[f])
    <3> HIDE DEF bins
    <3> QED BY <1>8, <2>1
  <2> QED BY <1>2, <1>4, <1>10, <2>2 DEF Found
<1>11. CASE b # 0
  <2>1. bins # {}
    BY <1>5, <1>11
  <2> HIDE DEF bins
  <2> QED BY <1>9, <1>11, <2>1 DEF Found
<1> QED BY <1>10, <1>11

\* The ends of a region are naturals.
LEMMA RegionType ==
  ASSUME NEW h \in Heaps, NEW i \in DOMAIN h.regions
  PROVE  h.regions[i].base \in Nat /\ h.regions[i].epi \in Nat
<1>1. h.regions \in Seq([base : Nat, epi : Nat, words : Nat])
  BY DEF Heaps
<1>2. i \in 1..Len(h.regions)
  BY SMTT(30), <1>1
<1>3. h.regions[i] \in [base : Nat, epi : Nat, words : Nat]
  BY <1>1, <1>2, ElementOfSeq
<1> QED BY <1>3

\* The only header of size zero in a region is its epilogue.
LEMMA ZeroLemma ==
  ASSUME NEW h, NEW sz, NEW F, Shape(h, sz, F), NEW i \in DOMAIN h.regions, NEW c \in DOMAIN sz,
         Within(h.regions[i], c)
  PROVE  sz[c] = 0 <=> c = h.regions[i].epi
<1>1. Regioned(h.regions, h.brk, sz) /\ h \in Heaps /\ c \in Nat
  BY SizeLemma DEF Shape
<1>2. ASSUME sz[c] = 0 PROVE c = h.regions[i].epi
  <2>1. PICK j \in DOMAIN h.regions : Within(h.regions[j], c) /\ c = h.regions[j].epi
    BY <1>1, <1>2 DEF Regioned
  <2>2. PICK ib \in Nat, ie \in Nat, jb \in Nat, je \in Nat :
             /\ ib = h.regions[i].base /\ ie = h.regions[i].epi
             /\ jb = h.regions[j].base /\ je = h.regions[j].epi
    BY <1>1, RegionType
  <2>3. ib <= c /\ c <= ie /\ jb <= c /\ c <= je
    BY <2>1, <2>2 DEF Within
  <2>4. i = j
    <3> SUFFICES ASSUME i # j PROVE FALSE
      OBVIOUS
    <3>1. i < j \/ j < i
      <4>1. h.regions \in Seq([base : Nat, epi : Nat, words : Nat])
        BY <1>1 DEF Heaps
      <4> QED BY <4>1
    <3>2. ie < jb \/ je < ib
      BY <1>1, <2>2, <3>1 DEF Regioned
    <3> QED BY <1>1, <2>3, <3>2
  <2> QED BY <2>1, <2>4
<1> QED BY <1>1, <1>2 DEF Regioned

\* The walk of a region by its sizes meets all its blocks, and ends at the epilogue.
LEMMA WalkLemma ==
  ASSUME NEW h, NEW sz, NEW F, Shape(h, sz, F), NEW i \in DOMAIN h.regions,
         NEW r, r = h.regions[i]
  PROVE  Walk(h, r) = {c \in DOMAIN sz : Within(r, c)}
<1>1. Regioned(h.regions, h.brk, sz) /\ h \in Heaps /\ Tiled(sz)
  BY DEF Shape
<1>2. PICK base \in Nat, epi \in Nat : base = r.base /\ epi = r.epi
  BY <1>1, RegionType
<1>3. base \in DOMAIN sz /\ epi \in DOMAIN sz /\ base < epi /\ sz[epi] = 0
  BY <1>1, <1>2 DEF Regioned
<1>4. \A c \in DOMAIN sz : c \in Nat /\ sz[c] \in Nat /\ SizeAt(h, c) = sz[c]
  BY <1>1, SizeLemma, ReadLemma
<1>5. \A c \in DOMAIN sz : base <= c /\ c < epi => 4 <= sz[c] /\ c + sz[c] \in DOMAIN sz /\ c + sz[c] <= epi
  <2> SUFFICES ASSUME NEW c \in DOMAIN sz, base <= c, c < epi
               PROVE  4 <= sz[c] /\ c + sz[c] \in DOMAIN sz /\ c + sz[c] <= epi
    OBVIOUS
  <2>1. Within(r, c) /\ c # epi
    BY <1>2, <1>4 DEF Within
  <2>2. sz[c] # 0
    BY <1>2, <2>1, ZeroLemma
  <2> QED BY <1>1, <1>3, <2>2 DEF Tiled
<1> DEFINE step == [b \in base..(epi - 1) |-> b + SizeAt(h, b)]
<1>6. PICK at, nx : at = Iterate(nx, base) /\ nx = step
  OBVIOUS
<1>7. at[0] = base /\ \A k \in Nat : at[k + 1] = IF at[k] \in base..(epi - 1) THEN at[k] + SizeAt(h, at[k]) ELSE at[k]
  <2>1. at = Iterate(nx, base)
    BY <1>6
  <2>2. at[0] = base /\ \A k \in Nat : at[k + 1] = IF at[k] \in DOMAIN nx THEN nx[at[k]] ELSE at[k]
    BY ONLY <2>1, IterateLemma
  <2> QED BY <1>6, <2>2
<1> DEFINE In(c) == c \in DOMAIN sz /\ base <= c /\ c <= epi
<1>8. \A k \in Nat : In(at[k]) => In(at[k + 1]) /\ (at[k] # epi => at[k + 1] = at[k] + sz[at[k]] /\ 4 <= sz[at[k]])
                                  /\ (at[k] = epi => at[k + 1] = epi)
  <2> SUFFICES ASSUME NEW k \in Nat, In(at[k])
               PROVE  In(at[k + 1]) /\ (at[k] # epi => at[k + 1] = at[k] + sz[at[k]] /\ 4 <= sz[at[k]])
                      /\ (at[k] = epi => at[k + 1] = epi)
    OBVIOUS
  <2>1. at[k] \in Nat /\ sz[at[k]] \in Nat /\ SizeAt(h, at[k]) = sz[at[k]]
    BY <1>4
  <2>2. CASE at[k] = epi
    BY <1>7, <2>2
  <2>3. CASE at[k] # epi
    <3>1. at[k] \in base..(epi - 1) /\ at[k] < epi
      BY <2>1, <2>3
    <3>2. at[k + 1] = at[k] + sz[at[k]]
      BY <1>7, <2>1, <3>1
    <3>3. 4 <= sz[at[k]] /\ at[k] + sz[at[k]] \in DOMAIN sz /\ at[k] + sz[at[k]] <= epi
      BY <1>5, <3>1
    <3> QED BY <2>1, <2>3, <3>2, <3>3
  <2> QED BY <2>2, <2>3
<1>9. \A k \in Nat : In(at[k]) /\ (at[k] = epi \/ base + 4 * k <= at[k])
  <2> DEFINE Bad == {k \in Nat : ~(In(at[k]) /\ (at[k] = epi \/ base + 4 * k <= at[k]))}
  <2> SUFFICES ASSUME Bad # {} PROVE FALSE
    OBVIOUS
  <2>1. PICK k \in Bad : \A j \in Bad : k <= j
    BY LeastLemma
  <2>2. k # 0
    BY <1>3, <1>7
  <2>3. PICK j \in Nat : k = j + 1
    <3>1. k - 1 \in Nat /\ k = (k - 1) + 1
      BY <2>2
    <3> QED BY <3>1
  <2>4. j \notin Bad
    BY <2>1, <2>3
  <2>5. In(at[j]) /\ (at[j] = epi \/ base + 4 * j <= at[j])
    BY <2>4
  <2>6. In(at[k]) /\ (at[j] # epi => at[k] = at[j] + sz[at[j]] /\ 4 <= sz[at[j]]) /\ (at[j] = epi => at[k] = epi)
    BY <1>8, <2>3, <2>5
  <2>7. at[j] \in Nat /\ sz[at[j]] \in Nat
    BY <1>4, <2>5
  <2> QED BY <2>3, <2>5, <2>6, <2>7
<1>10. PICK K \in Nat : K = (epi - base) \div 2
  BY <1>3
<1>11. at[K] = epi
  <2>1. base + 4 <= epi
    <3>1. 4 <= sz[base] /\ base + sz[base] <= epi /\ sz[base] \in Nat
      BY <1>3, <1>4, <1>5
    <3> QED BY <3>1
  <2>2. epi <= base + 4 * K
    BY <1>10, <2>1
  <2>3. In(at[K]) /\ (at[K] = epi \/ base + 4 * K <= at[K]) /\ at[K] \in Nat
    BY <1>4, <1>9
  <2> QED BY <2>2, <2>3
<1>12. Walk(h, r) = {at[k] : k \in 0..K}
  BY <1>2, <1>6, <1>10 DEF Walk
<1>13. ASSUME NEW c \in DOMAIN sz, Within(r, c) PROVE \E k \in 0..K : at[k] = c
  <2> DEFINE R == {k \in Nat : c <= at[k]}
  <2>0. c \in Nat /\ base <= c /\ c <= epi
    BY <1>2, <1>4, <1>13 DEF Within
  <2>1. K \in R
    BY <1>11, <2>0
  <2>2. PICK k \in R : \A j \in R : k <= j
    BY <2>1, LeastLemma
  <2>3. k \in 0..K
    BY <2>1, <2>2
  <2>4. at[k] \in Nat
    BY <1>4, <1>9
  <2> SUFFICES ASSUME c < at[k] PROVE FALSE
    BY <2>0, <2>2, <2>3, <2>4
  <2>5. k # 0
    BY <1>7, <2>0
  <2>6. PICK j \in Nat : k = j + 1
    <3>1. k - 1 \in Nat /\ k = (k - 1) + 1
      BY <2>5
    <3> QED BY <3>1
  <2>7. at[j] \in Nat /\ at[j] \in DOMAIN sz /\ at[j] < c
    <3>1. j \notin R
      BY <2>2, <2>6
    <3>2. at[j] \in Nat /\ at[j] \in DOMAIN sz
      BY <1>4, <1>9
    <3> QED BY <2>0, <3>1, <3>2
  <2>8. at[k] = at[j] + sz[at[j]]
    <3>1. at[j] # epi
      BY <2>0, <2>7
    <3> QED BY <1>8, <1>9, <2>6, <3>1
  <2>9. at[j] + sz[at[j]] <= c
    BY <1>1, <2>7 DEF Tiled
  <2> QED BY <2>0, <2>4, <2>8, <2>9
<1>14. \A k \in 0..K : at[k] \in DOMAIN sz /\ Within(r, at[k])
  <2> TAKE k \in 0..K
  <2>1. In(at[k])
    BY <1>9, <1>10
  <2> QED BY <1>2, <2>1 DEF Within
<1> QED BY <1>12, <1>13, <1>14

\* The blocks of the heap are those of sz.
LEMMA BlocksLemma ==
  ASSUME NEW h, NEW sz, NEW F, Shape(h, sz, F)
  PROVE  /\ BlocksOf(h) = {c \in DOMAIN sz : sz[c] # 0}
         /\ {b \in BlocksOf(h) : IsFree(h, b)} = F
         /\ BlocksOf(h) \ F = Used(sz, F)
<1>1. Regioned(h.regions, h.brk, sz) /\ h \in Heaps /\ Tiled(sz) /\ Spaced(sz, F)
  BY DEF Shape
<1>2. ASSUME NEW c \in DOMAIN sz, sz[c] # 0 PROVE c \in BlocksOf(h)
  <2>1. PICK i \in DOMAIN h.regions : Within(h.regions[i], c)
    BY <1>1 DEF Regioned
  <2>2. PICK r : r = h.regions[i]
    OBVIOUS
  <2>3. c \in Walk(h, r) /\ c # r.epi /\ r \in RegionsOf(h)
    BY <1>2, <2>1, <2>2, WalkLemma, ZeroLemma DEF RegionsOf
  <2> QED BY <2>3 DEF BlocksOf
<1>3. ASSUME NEW c \in BlocksOf(h) PROVE c \in DOMAIN sz /\ sz[c] # 0
  <2>1. PICK r \in RegionsOf(h) : c \in Walk(h, r) \ {r.epi}
    BY <1>3 DEF BlocksOf
  <2>2. PICK i \in DOMAIN h.regions : r = h.regions[i]
    BY DEF RegionsOf
  <2>3. c \in DOMAIN sz /\ Within(r, c)
    BY <2>1, <2>2, WalkLemma
  <2> QED BY <2>1, <2>2, <2>3, ZeroLemma
<1>4. \A c \in DOMAIN sz : IsFree(h, c) <=> c \in F
  BY ReadLemma
<1> QED BY <1>1, <1>2, <1>3, <1>4 DEF Spaced, Used

\* What Append adds, index by index.
LEMMA AppendLemma ==
  ASSUME NEW S, NEW s \in Seq(S), NEW x \in S, NEW t, t = Append(s, x)
  PROVE  /\ Len(s) \in Nat /\ DOMAIN s = 1..Len(s) /\ DOMAIN t = 1..(Len(s) + 1) /\ Len(t) = Len(s) + 1
         /\ t \in Seq(S) /\ t[Len(s) + 1] = x /\ \A i \in 1..Len(s) : t[i] = s[i]
<1>1. /\ t \in Seq(S) /\ Len(t) = Len(s) + 1 /\ t[Len(s) + 1] = x
      /\ \A i \in 1..Len(s) : t[i] = s[i]
  BY AppendProperties
<1>2. Len(s) \in Nat /\ DOMAIN s = 1..Len(s) /\ DOMAIN t = 1..Len(t)
  BY <1>1, LenProperties
<1> QED BY <1>1, <1>2

\* The words from p to the word before q are a new region: one free block, not yet on a
\* list, and the epilogue.
Extending(h, sz, F, p, q, f, rs, sz2, F2) ==
  /\ Well(h, sz, F, F) /\ Regioned(h.regions, p, sz)
  /\ p \in Nat /\ q \in Nat /\ 2 <= p /\ p + 8 <= q /\ q <= MemWords /\ q <= h.brk
  /\ (q - p) - 2 \in Evens
  /\ f \in Heaps /\ f.bins = h.bins /\ f.brk = h.brk /\ f.regions = rs
  /\ \E words \in Nat : rs = Append(h.regions, [base |-> p + 1, epi |-> q - 1, words |-> words])
  /\ \A w \in 1..MemWords : f.mem[w] = IF w = p + 1 THEN 2 * (q - p - 2) + 2
                                       ELSE IF w = q - 2 THEN q - p - 2
                                       ELSE IF w = q - 1 THEN 1 ELSE h.mem[w]
  /\ sz2 = [c \in DOMAIN sz \cup {p + 1, q - 1} |->
              IF c = p + 1 THEN q - p - 2 ELSE IF c = q - 1 THEN 0 ELSE sz[c]]
  /\ F2 = F \cup {p + 1}

\* The region is filed with its tags.
Extended(h, sz, F, p, f, sz2, F2) ==
  /\ Well(f, sz2, F2, F) /\ p + 1 \in F2 \ F /\ Used(sz2, F2) = Used(sz, F)
  /\ Keeps(h, sz, f, sz2, Used(sz, F))

\* A region filed above the others: one free block, its epilogue, no block disturbed.
LEMMA ExtendLemma ==
  ASSUME NEW h, NEW sz, NEW F, NEW p, NEW q, NEW f, NEW rs, NEW sz2, NEW F2,
         Extending(h, sz, F, p, q, f, rs, sz2, F2)
  PROVE  Extended(h, sz, F, p, f, sz2, F2)
<1>0. /\ Well(h, sz, F, F) /\ Regioned(h.regions, p, sz)
      /\ p \in Nat /\ q \in Nat /\ 2 <= p /\ p + 8 <= q /\ q <= MemWords /\ q <= h.brk
      /\ (q - p) - 2 \in Evens
      /\ f \in Heaps /\ f.bins = h.bins /\ f.brk = h.brk /\ f.regions = rs
      /\ sz2 = [c \in DOMAIN sz \cup {p + 1, q - 1} |->
                  IF c = p + 1 THEN q - p - 2 ELSE IF c = q - 1 THEN 0 ELSE sz[c]]
      /\ F2 = F \cup {p + 1}
  BY DEF Extending
<1>1. Shape(h, sz, F) /\ Tiled(sz) /\ Spaced(sz, F) /\ Tagged(h.mem, sz, F) /\ h \in Heaps
      /\ Regioned(h.regions, h.brk, sz)
  BY <1>0 DEF Well, Shape
<1>2. PICK base \in Nat, epi \in Nat, size \in Evens :
         /\ base = p + 1 /\ epi = q - 1 /\ size = q - p - 2 /\ base + size = epi /\ 4 <= size /\ size \in Nat
  BY <1>0 DEF Evens
<1>3. p < base /\ base < epi /\ p < epi /\ 3 <= base /\ epi <= MemWords /\ epi < h.brk
  <2>1. h.brk \in Nat
    BY <1>1 DEF Heaps
  <2> QED BY <1>0, <1>2, <2>1, Geometry
<1>4. \A c \in DOMAIN sz : /\ c \in Nat /\ 3 <= c /\ c < p /\ c + sz[c] < p /\ sz[c] \in Nat
                           /\ c # base /\ c # epi /\ c <= MemWords /\ sz[c] \in Evens
                           /\ sz[c] # 0 => 4 <= sz[c] /\ c + sz[c] \in DOMAIN sz
  <2>1. \A c \in DOMAIN sz : c \in Nat /\ c < p
    <3> SUFFICES ASSUME NEW c \in DOMAIN sz PROVE c \in Nat /\ c < p
      OBVIOUS
    <3>1. PICK i \in DOMAIN h.regions : Within(h.regions[i], c)
      BY <1>0 DEF Regioned
    <3>2. PICK ie \in Nat : ie = h.regions[i].epi
      BY <1>1, RegionType
    <3>3. c <= ie /\ ie < p
      BY <1>0, <3>1, <3>2 DEF Regioned, Within
    <3>4. c \in Nat
      BY <1>1, SizeLemma
    <3> QED BY <1>0, <3>2, <3>3, <3>4
  <2> SUFFICES ASSUME NEW c \in DOMAIN sz
               PROVE  /\ c \in Nat /\ 3 <= c /\ c < p /\ c + sz[c] < p /\ sz[c] \in Nat
                      /\ c # base /\ c # epi /\ c <= MemWords /\ sz[c] \in Evens
                      /\ sz[c] # 0 => 4 <= sz[c] /\ c + sz[c] \in DOMAIN sz
    OBVIOUS
  <2>2. c \in Nat /\ 3 <= c /\ sz[c] \in Nat /\ c <= MemWords
        /\ (sz[c] # 0 => 4 <= sz[c] /\ c + sz[c] \in DOMAIN sz)
    BY <1>1, SizeLemma
  <2>3. c < p /\ (sz[c] # 0 => c + sz[c] < p)
    BY <2>1, <2>2
  <2>4. sz[c] \in Evens
    BY <1>1 DEF Tiled
  <2> QED BY <1>0, <1>2, <1>3, <2>2, <2>3, <2>4
<1>5. /\ DOMAIN sz2 = DOMAIN sz \cup {base, epi} /\ sz2[base] = size /\ sz2[epi] = 0
      /\ \A c \in DOMAIN sz : sz2[c] = sz[c]
  BY <1>0, <1>2, <1>3, <1>4
<1>6. /\ \A w \in 1..MemWords : w < p => f.mem[w] = h.mem[w]
      /\ f.mem[base] = 2 * size + 2 /\ f.mem[epi - 1] = size /\ f.mem[epi] = 1
  <2>1. \A w \in 1..MemWords : f.mem[w] = IF w = base THEN 2 * size + 2
                                          ELSE IF w = q - 2 THEN size
                                          ELSE IF w = epi THEN 1 ELSE h.mem[w]
    BY <1>2 DEF Extending
  <2>2. q - 2 = epi - 1 /\ base # epi - 1 /\ base # epi /\ base \in 1..MemWords /\ epi \in 1..MemWords
        /\ epi - 1 \in 1..MemWords
    BY <1>0, <1>2, <1>3, Geometry
  <2>3. \A w \in 1..MemWords : w < p => w # base /\ w # epi /\ w # q - 2
    BY <1>0, <1>2
  <2> QED BY <2>1, <2>2, <2>3
<1>7. Tiled(sz2)
  <2>1. DOMAIN sz2 \subseteq 3..MemWords
    <3>1. base \in 3..MemWords /\ epi \in 3..MemWords
      BY <1>3, Geometry
    <3>2. \A c \in DOMAIN sz : c \in 3..MemWords
      BY <1>4, Geometry
    <3> QED BY <1>5, <3>1, <3>2
  <2>2. ASSUME NEW c \in DOMAIN sz2
        PROVE  sz2[c] \in Evens /\ (sz2[c] # 0 => 4 <= sz2[c] /\ c + sz2[c] \in DOMAIN sz2)
    <3>1. CASE c = base
      BY <1>2, <1>5, <3>1
    <3>2. CASE c = epi
      BY <1>5, <3>2 DEF Evens
    <3>3. CASE c \in DOMAIN sz
      BY <1>4, <1>5, <3>3
    <3> QED BY <1>5, <3>1, <3>2, <3>3
  <2>3. ASSUME NEW c \in DOMAIN sz2, NEW d \in DOMAIN sz2, c < d PROVE c + sz2[c] <= d
    <3>1. CASE c \in DOMAIN sz
      <4>1. CASE d \in DOMAIN sz
        BY <1>1, <1>5, <2>3, <3>1, <4>1 DEF Tiled
      <4>2. CASE d = base \/ d = epi
        <5>1. c + sz[c] < p /\ c + sz[c] \in Nat
          BY <1>4, <3>1
        <5> QED BY <1>0, <1>3, <1>5, <3>1, <4>2, <5>1
      <4> QED BY <1>5, <4>1, <4>2
    <3>2. CASE c = base
      <4>1. d = epi
        <5>1. d \in DOMAIN sz => d < p /\ d \in Nat
          BY <1>4
        <5> QED BY <1>0, <1>3, <1>5, <2>3, <3>2, <5>1
      <4> QED BY <1>2, <1>5, <3>2, <4>1
    <3>3. CASE c = epi
      <4>1. d \in DOMAIN sz => d < p /\ d \in Nat
        BY <1>4
      <4> QED BY <1>0, <1>3, <1>5, <2>3, <3>3, <4>1
    <3> QED BY <1>5, <3>1, <3>2, <3>3
  <2> QED BY <2>1, <2>2, <2>3 DEF Tiled
<1>8. PICK rec : /\ rec.base = base /\ rec.epi = epi /\ rs = Append(h.regions, rec)
                 /\ rec \in [base : Nat, epi : Nat, words : Nat]
  <2>1. PICK words \in Nat : rs = Append(h.regions, [base |-> p + 1, epi |-> q - 1, words |-> words])
    BY DEF Extending
  <2>2. PICK rec : rec = [base |-> p + 1, epi |-> q - 1, words |-> words]
    OBVIOUS
  <2> QED BY SMTT(30), <1>2, <2>1, <2>2
<1>20. PICK len \in Nat : /\ len = Len(h.regions) /\ DOMAIN rs = 1..(len + 1) /\ rs[len + 1] = rec
                         /\ DOMAIN h.regions = 1..len /\ \A i \in 1..len : rs[i] = h.regions[i]
  <2>1. h.regions \in Seq([base : Nat, epi : Nat, words : Nat])
    BY <1>1 DEF Heaps
  <2>2. PICK S : S = [base : Nat, epi : Nat, words : Nat]
    OBVIOUS
  <2>3. h.regions \in Seq(S) /\ rec \in S /\ rs = Append(h.regions, rec)
    BY <1>8, <2>1, <2>2
  <2>4. /\ Len(h.regions) \in Nat /\ DOMAIN rs = 1..(Len(h.regions) + 1) /\ rs[Len(h.regions) + 1] = rec
        /\ DOMAIN h.regions = 1..Len(h.regions) /\ \A i \in 1..Len(h.regions) : rs[i] = h.regions[i]
    BY ONLY <2>3, AppendLemma
  <2> QED BY ONLY <2>4
<1>9. Regioned(rs, f.brk, sz2)
  <2>1. ASSUME NEW i \in DOMAIN rs
        PROVE  /\ rs[i].base \in DOMAIN sz2 /\ rs[i].epi \in DOMAIN sz2
               /\ rs[i].base < rs[i].epi /\ sz2[rs[i].epi] = 0 /\ rs[i].epi < f.brk
    <3>1. CASE i = len + 1
      BY <1>0, <1>3, <1>5, <1>8, <1>20, <3>1
    <3>2. CASE i \in 1..len
      <4>1. PICK r : r = h.regions[i] /\ r = rs[i] /\ i \in DOMAIN h.regions
        BY <1>20, <3>2
      <4>2. r.base \in DOMAIN sz /\ r.epi \in DOMAIN sz /\ r.base < r.epi /\ sz[r.epi] = 0 /\ r.epi < h.brk
        BY <1>1, <4>1 DEF Regioned
      <4> QED BY <1>0, <1>5, <4>1, <4>2
    <3> QED BY <1>8, <1>20, <3>1, <3>2
  <2>2. ASSUME NEW i \in DOMAIN rs, NEW j \in DOMAIN rs, i < j PROVE rs[i].epi < rs[j].base
    <3>1. i \in 1..len
      BY <1>8, <1>20, <2>2
    <3>2. CASE j = len + 1
      <4>1. PICK ie \in Nat : ie = rs[i].epi
        BY <1>1, <1>8, <1>20, <3>1, RegionType
      <4>2. ie < p
        BY <1>0, <1>8, <1>20, <3>1, <4>1 DEF Regioned
      <4> QED BY SMTT(30), <1>0, <1>3, <1>8, <1>20, <3>2, <4>1, <4>2
    <3>3. CASE j \in 1..len
      BY <1>1, <1>8, <1>20, <2>2, <3>1, <3>3 DEF Regioned
    <3> QED BY <1>8, <1>20, <3>2, <3>3
  <2>3. ASSUME NEW c \in DOMAIN sz2
        PROVE  \E i \in DOMAIN rs : Within(rs[i], c) /\ (sz2[c] = 0 => c = rs[i].epi)
    <3>1. CASE c \in DOMAIN sz
      <4>1. PICK i \in DOMAIN h.regions : Within(h.regions[i], c) /\ (sz[c] = 0 => c = h.regions[i].epi)
        BY <1>1, <3>1 DEF Regioned
      <4>2. i \in DOMAIN rs /\ rs[i] = h.regions[i]
        BY <1>8, <1>20
      <4> QED BY <1>5, <3>1, <4>1, <4>2
    <3>2. CASE c = base \/ c = epi
      <4>1. len + 1 \in DOMAIN rs /\ Within(rs[len + 1], c)
        BY <1>3, <1>8, <1>20, <3>2 DEF Within
      <4>2. sz2[c] = 0 => c = rs[len + 1].epi
        BY <1>2, <1>5, <1>8, <1>20, <3>2
      <4> QED BY <4>1, <4>2
    <3> QED BY <1>5, <3>1, <3>2
  <2> QED BY <2>1, <2>2, <2>3 DEF Regioned
<1>10. \A c \in F : c \in DOMAIN sz /\ sz[c] # 0 /\ c + sz[c] \in DOMAIN sz /\ c + sz[c] \notin F
  BY <1>1, <1>4 DEF Spaced
<1>11. F2 = F \cup {base} /\ base \notin DOMAIN sz /\ epi \notin DOMAIN sz /\ base # epi /\ base \notin F /\ epi \notin F2
  BY <1>0, <1>2, <1>3, <1>4, <1>10
<1>12. Spaced(sz2, F2)
  <2>1. F2 \subseteq DOMAIN sz2
    BY <1>5, <1>10, <1>11
  <2>2. ASSUME NEW c \in F2 PROVE sz2[c] # 0 /\ c + sz2[c] \notin F2
    <3>1. CASE c = base
      BY <1>2, <1>5, <1>11, <3>1
    <3>2. CASE c \in F
      BY <1>5, <1>10, <1>11, <3>2
    <3> QED BY <1>11, <3>1, <3>2
  <2> QED BY <2>1, <2>2 DEF Spaced
<1>13. Ends(sz2, F2) = Ends(sz, F) \cup {epi} /\ Ends(sz, F) \subseteq DOMAIN sz
  <2>1. \A c \in F2 : (c = base /\ c + sz2[c] = epi) \/ (c \in F /\ sz2[c] = sz[c])
    BY <1>2, <1>5, <1>10, <1>11
  <2>2. base \in F2 /\ base + sz2[base] = epi
    BY <1>2, <1>5, <1>11
  <2>3. \A c \in F : c \in F2 /\ sz2[c] = sz[c]
    BY <1>5, <1>10, <1>11
  <2>4. ASSUME NEW x \in Ends(sz2, F2) PROVE x \in Ends(sz, F) \cup {epi}
    BY <2>1 DEF Ends
  <2>5. ASSUME NEW x \in Ends(sz, F) PROVE x \in Ends(sz2, F2)
    <3>1. PICK c \in F : x = c + sz[c]
      BY DEF Ends
    <3>2. c \in F2 /\ x = c + sz2[c]
      BY <2>3, <3>1
    <3> QED BY <3>2 DEF Ends
  <2>6. epi \in Ends(sz2, F2)
    BY <2>2 DEF Ends
  <2>7. Ends(sz, F) \subseteq DOMAIN sz
    BY <1>10 DEF Ends
  <2> QED BY <2>4, <2>5, <2>6, <2>7
<1>14. \A w \in 1..MemWords : w < p => f.mem[w] = h.mem[w]
  BY <1>6
<1>15. Tagged(f.mem, sz2, F2)
  <2>1. ASSUME NEW c \in DOMAIN sz2 PROVE f.mem[c] = Tag(sz2, F2, c)
    <3>1. CASE c \in DOMAIN sz
      <4>1. f.mem[c] = h.mem[c]
        <5>1. c \in Nat /\ 3 <= c /\ c <= MemWords /\ c < p
          BY <1>4, <3>1
        <5>2. c \in 1..MemWords
          BY <5>1, Geometry
        <5> QED BY <1>14, <5>1, <5>2
      <4>2. h.mem[c] = Tag(sz, F, c)
        BY <1>1, <3>1 DEF Tagged
      <4>3. c # base /\ c # epi /\ (c \in Ends(sz2, F2) <=> c \in Ends(sz, F)) /\ (c \in F2 <=> c \in F)
        BY <1>11, <1>13, <3>1
      <4>4. Tag(sz2, F2, c) = Tag(sz, F, c)
        BY <1>5, <3>1, <4>3 DEF Tag
      <4> QED BY <4>1, <4>2, <4>4
    <3>2. CASE c = base
      <4>1. base \in F2 /\ base \notin Ends(sz2, F2)
        BY <1>11, <1>13
      <4>2. Tag(sz2, F2, base) = 2 * size + 2
        BY <1>2, <1>5, <4>1 DEF Tag
      <4> QED BY <1>6, <3>2, <4>2
    <3>3. CASE c = epi
      <4>1. epi \notin F2 /\ epi \in Ends(sz2, F2)
        BY <1>11, <1>13
      <4>2. Tag(sz2, F2, epi) = 1
        BY <1>5, <4>1 DEF Tag
      <4> QED BY <1>6, <3>3, <4>2
    <3> QED BY <1>5, <3>1, <3>2, <3>3
  <2>2. ASSUME NEW c \in F2 PROVE f.mem[c + sz2[c] - 1] = sz2[c]
    <3>1. CASE c = base
      <4>1. c + sz2[c] - 1 = epi - 1
        BY <1>2, <1>5, <3>1
      <4> QED BY <1>5, <1>6, <3>1, <4>1
    <3>2. CASE c \in F
      <4>1. sz2[c] = sz[c] /\ h.mem[c + sz[c] - 1] = sz[c]
        BY <1>1, <1>5, <1>10, <3>2 DEF Tagged
      <4>2. c \in Nat /\ sz[c] \in Nat /\ 4 <= sz[c] /\ c + sz[c] < p /\ p <= MemWords /\ 3 <= c
        BY <1>0, <1>4, <1>10, <3>2, Geometry
      <4>3. c + sz[c] - 1 \in 1..MemWords /\ c + sz[c] - 1 < p
        BY <1>0, <4>2, Geometry
      <4> QED BY <1>14, <4>1, <4>3
    <3> QED BY <1>11, <3>1, <3>2
  <2> QED BY <2>1, <2>2 DEF Tagged
<1>16. Listed(f, sz2, F)
  <2>1. PICK top \in Nat : \E rank : Linked(h.mem, h.bins, sz, F, rank, top)
    BY <1>0 DEF Well, Listed
  <2>2. PICK rank : Linked(h.mem, h.bins, sz, F, rank, top)
    BY <2>1
  <2>3. \A b \in F : f.mem[b + 1] = h.mem[b + 1] /\ f.mem[b + 2] = h.mem[b + 2] /\ sz2[b] = sz[b] /\ b # 0
    <3> SUFFICES ASSUME NEW b \in F
                 PROVE  f.mem[b + 1] = h.mem[b + 1] /\ f.mem[b + 2] = h.mem[b + 2] /\ sz2[b] = sz[b] /\ b # 0
      OBVIOUS
    <3>1. b \in Nat /\ sz[b] \in Nat /\ 4 <= sz[b] /\ b + sz[b] < p /\ p <= MemWords /\ 3 <= b /\ sz2[b] = sz[b]
      BY <1>0, <1>4, <1>5, <1>10, Geometry
    <3>2. b + 1 \in 1..MemWords /\ b + 2 \in 1..MemWords /\ b + 1 < p /\ b + 2 < p
      BY <1>0, <3>1, Geometry
    <3> QED BY <1>14, <3>1, <3>2
  <2>4. f.bins = h.bins
    BY <1>0
  <2>5. Linked(f.mem, f.bins, sz2, F, rank, top)
    BY ONLY <2>2, <2>3, <2>4 DEF Linked
  <2> QED BY <2>1, <2>5 DEF Listed
<1>17. Well(f, sz2, F2, F)
  BY <1>0, <1>7, <1>9, <1>11, <1>12, <1>15, <1>16 DEF Well, Shape
<1>18. Used(sz2, F2) = Used(sz, F)
  BY <1>2, <1>5, <1>11 DEF Used
<1>19. Keeps(h, sz, f, sz2, Used(sz, F))
  <2> SUFFICES ASSUME NEW u \in Used(sz, F)
               PROVE  sz2[u] = sz[u] /\ \A w \in (u + 1)..(u + sz[u] - 1) : f.mem[w] = h.mem[w]
    BY DEF Keeps
  <2>1. u \in DOMAIN sz /\ u \in Nat /\ sz[u] \in Nat /\ u + sz[u] < p /\ p <= MemWords
    BY <1>0, <1>4, Geometry DEF Used
  <2>2. \A w \in (u + 1)..(u + sz[u] - 1) : w \in 1..MemWords /\ w < p
    BY <1>0, <2>1, Geometry
  <2> QED BY <1>5, <1>14, <2>1, <2>2
<1> QED BY <1>2, <1>11, <1>17, <1>18, <1>19 DEF Extended

\* One word written, as a fact to cite.
Putting(h, a, v, g) == h \in Heaps /\ a \in 1..MemWords /\ v \in Int /\ g = [h EXCEPT !.mem[a] = v]

Put(h, a, v, g) ==
  /\ g \in Heaps /\ SameRest(h, g) /\ g.bins = h.bins
  /\ \A w \in 1..MemWords : g.mem[w] = IF w = a THEN v ELSE h.mem[w]

\* PutLemma for these two predicates.
LEMMA WordLemma ==
  ASSUME NEW h, NEW a, NEW v, NEW g, Putting(h, a, v, g)
  PROVE  Put(h, a, v, g)
<1>1. h \in Heaps /\ a \in 1..MemWords /\ v \in Int
  BY DEF Putting
<1>2. g = [h EXCEPT !.mem[a] = v]
  BY DEF Putting
<1>3. /\ g \in Heaps /\ SameRest(h, g) /\ g.bins = h.bins
      /\ \A w \in 1..MemWords : g.mem[w] = IF w = a THEN v ELSE h.mem[w]
  BY ONLY <1>1, <1>2, PutLemma
<1> QED BY <1>3 DEF Put

Installed(h, sz, F, p, n, g) ==
  /\ Leaves(h, sz, g, Used(sz, F), Used(sz, F))
  /\ g.ctl = h.ctl /\ g.next = h.next /\ g.total = h.total /\ g.brk = h.brk /\ g.trap = h.trap
  /\ g.regions = Append(h.regions, [base |-> p + 1, epi |-> p + n - 1, words |-> n])

\* A region of eight words or more is installed, and changes nothing below it.
LEMMA InstallLemma ==
  ASSUME NEW h, NEW sz, NEW F, Well(h, sz, F, F), NEW p \in Evens, NEW n \in Evens,
         Regioned(h.regions, p, sz), 2 <= p, 8 <= n, p + n <= MemWords, p + n <= h.brk,
         NEW x, x = Install(h, p, n)
  PROVE  x.ok = TRUE /\ Installed(h, sz, F, p, n, x.heap)
<1>1. h \in Heaps /\ h.regions \in Seq([base : Nat, epi : Nat, words : Nat])
  BY DEF Well, Shape, Heaps
<1>2. PICK base \in Nat, epi \in Nat, size \in Nat, q \in Nat :
         base = p + 1 /\ epi = p + n - 1 /\ size = n - 2 /\ q = p + n
  BY DEF Evens
<1>3. /\ ((p + 1) \div 2) * 2 + 1 = base /\ ((p + n - 2) \div 2) * 2 + 1 = epi /\ epi - base = size
      /\ ~(n < 8) /\ ~(epi <= base) /\ ~(size < 4) /\ p \in Nat /\ n \in Nat
  BY <1>2 DEF Evens
<1>4. /\ base \in 1..MemWords /\ epi \in 1..MemWords /\ epi - 1 \in 1..MemWords
      /\ base # epi /\ base # epi - 1 /\ epi # epi - 1 /\ base + size - 1 = epi - 1
  BY <1>2, <1>3, Geometry
<1>5. PICK rec, rs : /\ rec = [base |-> base, epi |-> epi, words |-> n]
                     /\ rs = Append(h.regions, rec)
  OBVIOUS
<1>6. PICK head \in Int, foot \in Int : head = Header(size, PINUSE) /\ head = 2 * size + 2 /\ foot = epi - 1
  BY <1>2 DEF Header
<1>7. PICK k1, k2, k3, f : /\ k1 = [h EXCEPT !.mem[base] = head]
                           /\ k2 = [k1 EXCEPT !.mem[foot] = size]
                           /\ k3 = [k2 EXCEPT !.mem[epi] = 1]
                           /\ f = [k3 EXCEPT !.regions = rs]
  OBVIOUS
<1>8. /\ k1 \in Heaps /\ SameRest(h, k1) /\ k1.bins = h.bins
      /\ \A w \in 1..MemWords : k1.mem[w] = IF w = base THEN head ELSE h.mem[w]
  <2>1. h \in Heaps /\ base \in 1..MemWords /\ head \in Int
    BY <1>1, <1>4
  <2>2. k1 = [h EXCEPT !.mem[base] = head]
    BY <1>7
  <2>3. Putting(h, base, head, k1)
    BY <2>1, <2>2 DEF Putting
  <2>4. Put(h, base, head, k1)
    BY ONLY <2>3, WordLemma
  <2> QED BY <2>4 DEF Put
<1>9. /\ k2 \in Heaps /\ SameRest(k1, k2) /\ k2.bins = k1.bins
      /\ \A w \in 1..MemWords : k2.mem[w] = IF w = foot THEN size ELSE k1.mem[w]
  <2>1. k2 = [k1 EXCEPT !.mem[foot] = size] /\ k1 \in Heaps /\ foot \in 1..MemWords /\ size \in Int
    BY <1>4, <1>6, <1>7, <1>8
  <2>2. Putting(k1, foot, size, k2)
    BY ONLY <2>1 DEF Putting
  <2>3. Put(k1, foot, size, k2)
    BY ONLY <2>2, WordLemma
  <2> QED BY <2>3 DEF Put
<1>10. /\ k3 \in Heaps /\ SameRest(k2, k3) /\ k3.bins = k2.bins
       /\ \A w \in 1..MemWords : k3.mem[w] = IF w = epi THEN 1 ELSE k2.mem[w]
  <2>1. k3 = [k2 EXCEPT !.mem[epi] = 1] /\ k2 \in Heaps /\ epi \in 1..MemWords /\ 1 \in Int
    BY <1>4, <1>7, <1>9
  <2>2. Putting(k2, epi, 1, k3)
    BY ONLY <2>1 DEF Putting
  <2>3. Put(k2, epi, 1, k3)
    BY ONLY <2>2, WordLemma
  <2> QED BY <2>3 DEF Put
<1>11. rs \in Seq([base : Nat, epi : Nat, words : Nat])
  <2>1. rec \in [base : Nat, epi : Nat, words : Nat]
    BY <1>3, <1>5
  <2> QED BY <1>1, <1>5, <2>1, AppendProperties
<1>12. /\ f \in Heaps /\ f.regions = rs /\ f.bins = k3.bins /\ f.mem = k3.mem /\ f.ctl = k3.ctl
       /\ f.next = k3.next /\ f.total = k3.total /\ f.brk = k3.brk /\ f.trap = k3.trap
  BY ZenonT(40), <1>7, <1>10, <1>11 DEF Heaps
<1>13. SameRest(h, k3) /\ k3.bins = h.bins
  BY <1>8, <1>9, <1>10, RestTrans
<1>14. x = [ok |-> TRUE, heap |-> Insert(f, base, size)]
  <2>1. f = [h EXCEPT !.mem[base] = Header(size, PINUSE), !.mem[base + size - 1] = size,
                      !.mem[epi] = Header(0, INUSE), !.regions = rs]
    <3>1. Header(0, INUSE) = 1 /\ base + size - 1 = foot
      BY <1>4, <1>6 DEF Header
    <3> QED BY ONLY <1>6, <1>7, <3>1
  <2>2. k3.regions = h.regions
    BY <1>13 DEF SameRest
  <2>3. f = [h EXCEPT !.mem[base] = Header(size, PINUSE), !.mem[base + size - 1] = size,
                      !.mem[epi] = Header(0, INUSE),
                      !.regions = Append(@, [base |-> base, epi |-> epi, words |-> n])]
    BY ONLY <1>5, <2>1
  <2> DEFINE Filed(a, s, e) == [h EXCEPT !.mem[a] = Header(s, PINUSE), !.mem[a + s - 1] = s,
                                         !.mem[e] = Header(0, INUSE),
                                         !.regions = Append(@, [base |-> a, epi |-> e, words |-> n])]
             Made(a, e) == IF n < 8 \/ e <= a \/ e - a < 4
                             THEN [ok |-> FALSE, heap |-> h]
                             ELSE [ok |-> TRUE, heap |-> Insert(Filed(a, e - a, e), a, e - a)]
  <2>4. Install(h, p, n) = Made(((p + 1) \div 2) * 2 + 1, ((p + n - 2) \div 2) * 2 + 1)
    BY DEF Install
  <2>5. Filed(base, size, epi) = f
    BY <2>3
  <2> HIDE DEF Filed
  <2>6. Made(base, epi) = [ok |-> TRUE, heap |-> Insert(Filed(base, size, epi), base, size)]
    BY ONLY <1>3
  <2> HIDE DEF Made
  <2> QED BY ONLY x = Install(h, p, n), <1>3, <2>4, <2>5, <2>6
<1>15. PICK sz2, F2 : /\ sz2 = [c \in DOMAIN sz \cup {p + 1, q - 1} |->
                                  IF c = p + 1 THEN q - p - 2 ELSE IF c = q - 1 THEN 0 ELSE sz[c]]
                      /\ F2 = F \cup {p + 1}
  OBVIOUS
<1>16. Extending(h, sz, F, p, q, f, rs, sz2, F2)
  <2>1. p \in Nat /\ q \in Nat /\ 2 <= p /\ p + 8 <= q /\ q <= MemWords /\ q <= h.brk /\ q - p = n
    BY <1>2, <1>3
  <2>2. (q - p) - 2 \in Evens
    BY <1>2, <2>1 DEF Evens
  <2>3. f.bins = h.bins /\ f.brk = h.brk
    BY <1>12, <1>13 DEF SameRest
  <2>4. \E words \in Nat : rs = Append(h.regions, [base |-> p + 1, epi |-> q - 1, words |-> words])
    BY <1>2, <1>3, <1>5
  <2>5. \A w \in 1..MemWords : f.mem[w] = IF w = p + 1 THEN 2 * (q - p - 2) + 2
                                          ELSE IF w = q - 2 THEN q - p - 2
                                          ELSE IF w = q - 1 THEN 1 ELSE h.mem[w]
    <3>1. p + 1 = base /\ q - 2 = foot /\ q - 1 = epi /\ q - p - 2 = size /\ 2 * (q - p - 2) + 2 = head
      BY <1>2, <1>3, <1>6
    <3>2. base # foot /\ base # epi /\ foot # epi
      BY <1>4, <1>6
    <3> HIDE <1>2, <1>3
    <3>3. \A w \in 1..MemWords : f.mem[w] = IF w = base THEN head ELSE IF w = foot THEN size
                                            ELSE IF w = epi THEN 1 ELSE h.mem[w]
      BY ONLY <1>8, <1>9, <1>10, <1>12, <3>2
    <3> QED BY ONLY <3>1, <3>3
  <2> QED BY <1>12, <1>15, <2>1, <2>2, <2>3, <2>4, <2>5 DEF Extending
<1>17. /\ Well(f, sz2, F2, F) /\ p + 1 \in F2 \ F /\ Used(sz2, F2) = Used(sz, F)
       /\ Keeps(h, sz, f, sz2, Used(sz, F))
  <2>1. Extended(h, sz, F, p, f, sz2, F2)
    BY ONLY <1>16, ExtendLemma
  <2> QED BY <2>1 DEF Extended
<1>18. PICK g : g = Insert(f, base, size)
  OBVIOUS
<1>19. Well(g, sz2, F2, F2) /\ LinksOnly(f, g, F2) /\ SameRest(f, g)
  <2>1. base \in F2 \ F /\ size = sz2[base] /\ F \cup {base} = F2
    <3>1. size = sz2[p + 1]
      BY <1>2, <1>3, <1>15
    <3> QED BY <1>2, <1>15, <1>17, <3>1
  <2>2. Well(g, sz2, F2, F \cup {base}) /\ LinksOnly(f, g, F2) /\ SameRest(f, g)
    BY <1>17, <1>18, <2>1, InsertLemma
  <2> QED BY <2>1, <2>2
<1>20. Keeps(h, sz, g, sz2, Used(sz, F))
  <2>1. Keeps(f, sz2, g, sz2, Used(sz, F))
    <3>1. Shape(f, sz2, F2) /\ g \in Heaps
      BY <1>17, <1>19 DEF Well, Shape
    <3> QED BY <1>17, <1>19, <3>1, LinksOnlyLemma
  <2> QED BY <1>17, <2>1, KeepsTrans
<1>21. Leaves(h, sz, g, Used(sz, F), Used(sz, F))
  BY <1>17, <1>19, <1>20 DEF Leaves
<1>22. /\ g.ctl = h.ctl /\ g.next = h.next /\ g.total = h.total /\ g.brk = h.brk /\ g.trap = h.trap
       /\ g.regions = rs
  BY <1>12, <1>13, <1>19 DEF SameRest
<1> QED BY <1>2, <1>5, <1>14, <1>18, <1>21, <1>22 DEF Installed

\* The words of the blocks of all regions.
Extent(rs) == UNION {rs[i].base..(rs[i].epi - 1) : i \in DOMAIN rs}

Tally(rs) == CtlWords + 2 * Len(rs) + Cardinality(Extent(rs))

\* The control block: what the counters say, and what no call may have done.
Geared(h) ==
  /\ h.brk \in Evens /\ 2 <= h.brk /\ h.next \in Evens /\ h.trap = FALSE
  /\ h.ctl = 0 => h.regions = <<>>
  /\ h.ctl # 0 => h.total = Tally(h.regions)

Regions == Seq([base : Nat, epi : Nat, words : Nat])

\* The greater of two.
LEMMA MaxTwo ==
  ASSUME NEW a \in Nat, NEW b \in Nat
  PROVE  Max({a, b}) \in {a, b} /\ a <= Max({a, b}) /\ b <= Max({a, b})
<1>1. a <= a + b /\ b <= a + b /\ a + b \in Nat
  OBVIOUS
<1>2. PICK c \in Nat : c = a + b
  BY <1>1
<1>5. PICK T : T = {a, b}
  OBVIOUS
<1>3. T \subseteq Nat /\ T # {} /\ \A x \in T : x <= c
  BY <1>1, <1>2, <1>5
<1>4. Max(T) \in T /\ \A y \in T : y <= Max(T)
  BY ONLY <1>3, c \in Nat, BoundedMaxLemma
<1> QED BY <1>4, <1>5

\* The lesser of two.
LEMMA MinTwo ==
  ASSUME NEW a \in Nat, NEW b \in Nat
  PROVE  Min({a, b}) \in {a, b}
<1>1. PICK T : T = {a, b}
  OBVIOUS
<1>2. Min(T) \in T
  BY <1>1, MinLemma
<1> QED BY <1>1, <1>2

\* A region of n words from p on, above all others.
Appending(rs, p, n, rs2) ==
  /\ rs \in Regions /\ p \in Nat /\ n \in Nat /\ 8 <= n
  /\ \A i \in DOMAIN rs : rs[i].epi < p
  /\ rs2 = Append(rs, [base |-> p + 1, epi |-> p + n - 1, words |-> n])

\* It adds its words, less two, to the blocks.
LEMMA TallyLemma ==
  ASSUME NEW rs, NEW p, NEW n, NEW rs2, Appending(rs, p, n, rs2)
  PROVE  Tally(rs) \in Nat /\ Tally(rs2) = Tally(rs) + n
<1>0. /\ rs \in Regions /\ p \in Nat /\ n \in Nat /\ 8 <= n
      /\ \A i \in DOMAIN rs : rs[i].epi < p
      /\ rs2 = Append(rs, [base |-> p + 1, epi |-> p + n - 1, words |-> n])
  BY DEF Appending
<1> USE <1>0
<1>1. PICK rec : rec = [base |-> p + 1, epi |-> p + n - 1, words |-> n]
  OBVIOUS
<1>2. rec.base = p + 1 /\ rec.epi = p + n - 1 /\ rec \in [base : Nat, epi : Nat, words : Nat]
  BY <1>1
<1>3. /\ Len(rs) \in Nat /\ DOMAIN rs = 1..Len(rs) /\ DOMAIN rs2 = 1..(Len(rs) + 1) /\ Len(rs2) = Len(rs) + 1
      /\ rs2[Len(rs) + 1] = rec /\ \A i \in 1..Len(rs) : rs2[i] = rs[i]
  <2>1. PICK S : S = [base : Nat, epi : Nat, words : Nat]
    OBVIOUS
  <2>2. rs \in Seq(S) /\ rec \in S /\ rs2 = Append(rs, rec)
    BY <1>1, <1>2, <2>1 DEF Regions
  <2>3. /\ Len(rs) \in Nat /\ DOMAIN rs = 1..Len(rs) /\ DOMAIN rs2 = 1..(Len(rs) + 1) /\ Len(rs2) = Len(rs) + 1
        /\ rs2[Len(rs) + 1] = rec /\ \A i \in 1..Len(rs) : rs2[i] = rs[i]
    BY ONLY <2>2, AppendLemma
  <2> QED BY ONLY <2>3
<1>4. \A i \in DOMAIN rs : rs[i].base \in Nat /\ rs[i].epi \in Nat
  <2> SUFFICES ASSUME NEW i \in DOMAIN rs PROVE rs[i].base \in Nat /\ rs[i].epi \in Nat
    OBVIOUS
  <2>1. i \in 1..Len(rs) /\ rs \in Seq([base : Nat, epi : Nat, words : Nat])
    BY <1>3 DEF Regions
  <2>2. rs[i] \in [base : Nat, epi : Nat, words : Nat]
    BY <2>1, ElementOfSeq
  <2> QED BY <2>2
<1>5. PICK X, Y : X = Extent(rs) /\ Y = (p + 1)..(p + n - 2)
  OBVIOUS
<1>6. X \subseteq 0..p
  <2> SUFFICES ASSUME NEW x \in X PROVE x \in 0..p
    OBVIOUS
  <2>1. PICK i \in DOMAIN rs : x \in rs[i].base..(rs[i].epi - 1)
    BY <1>5 DEF Extent
  <2>2. PICK b \in Nat, e \in Nat : b = rs[i].base /\ e = rs[i].epi
    BY <1>4
  <2>3. e < p /\ x \in b..(e - 1)
    BY <2>1, <2>2
  <2> QED BY <2>3
<1>7. IsFiniteSet(X) /\ Cardinality(X) \in Nat /\ IsFiniteSet(Y) /\ Cardinality(Y) = n - 2
  <2>1. IsFiniteSet(0..p)
    BY FS_Interval
  <2>2. IsFiniteSet(X)
    BY <1>6, <2>1, FS_Subset
  <2>3. PICK a \in Int, b \in Int : a = p + 1 /\ b = p + n - 2
    OBVIOUS
  <2>4. IsFiniteSet(a..b) /\ Cardinality(a..b) = IF a > b THEN 0 ELSE b - a + 1
    BY FS_Interval
  <2>5. b - a + 1 = n - 2 /\ ~(a > b)
    BY <2>3
  <2> QED BY <1>5, <2>2, <2>3, <2>4, <2>5, FS_CardinalityType
<1>8. X \cap Y = {}
  BY <1>5, <1>6
<1>9. Extent(rs2) = X \cup Y
  <2>1. rs2[Len(rs) + 1].base..(rs2[Len(rs) + 1].epi - 1) = Y
    <3>1. p + n - 1 - 1 = p + n - 2
      OBVIOUS
    <3> QED BY <1>2, <1>3, <1>5, <3>1
  <2>2. \A x : x \in Extent(rs2) <=> \E i \in 1..(Len(rs) + 1) : x \in rs2[i].base..(rs2[i].epi - 1)
    BY <1>3 DEF Extent
  <2>3. \A x : x \in X <=> \E i \in 1..Len(rs) : x \in rs[i].base..(rs[i].epi - 1)
    BY <1>3, <1>5 DEF Extent
  <2>4. \A i \in 1..(Len(rs) + 1) : i = Len(rs) + 1 \/ i \in 1..Len(rs)
    BY <1>3
  <2>5. Len(rs) + 1 \in 1..(Len(rs) + 1) /\ \A i \in 1..Len(rs) : i \in 1..(Len(rs) + 1)
    BY <1>3
  <2>6. \A x : x \in Extent(rs2) <=> x \in X \/ x \in Y
    BY <1>3, <2>1, <2>2, <2>3, <2>4, <2>5
  <2> QED BY <2>6
<1>10. Cardinality(Extent(rs2)) = Cardinality(X) + (n - 2)
  <2>1. Cardinality(X \cup Y) = Cardinality(X) + Cardinality(Y) - Cardinality(X \cap Y)
    BY <1>7, FS_Union
  <2>2. Cardinality(X \cap Y) = 0
    BY <1>8, FS_EmptySet
  <2>3. PICK u \in Nat : u = Cardinality(X)
    BY <1>7
  <2>4. Cardinality(Extent(rs2)) = u + (n - 2) - 0
    BY <1>7, <1>9, <2>1, <2>2, <2>3
  <2> QED BY <2>3, <2>4
<1>11. CtlWords \in Nat
  BY Geometry
<1> QED BY SMTT(30), <1>3, <1>5, <1>7, <1>10, <1>11 DEF Tally

\* A change of the control block alone.
LEMMA ControlLemma ==
  ASSUME NEW h, NEW sz, NEW F, NEW L, Well(h, sz, F, L), NEW g \in Heaps,
         g.mem = h.mem, g.bins = h.bins, g.regions = h.regions, h.brk <= g.brk
  PROVE  Well(g, sz, F, L) /\ Keeps(h, sz, g, sz, Used(sz, F))
<1>1. Regioned(h.regions, h.brk, sz) /\ h \in Heaps
  BY DEF Well, Shape
<1>2. h.brk \in Nat /\ g.brk \in Nat
  BY <1>1 DEF Heaps
<1>3. \A i \in DOMAIN h.regions : h.regions[i].epi < g.brk
  <2> SUFFICES ASSUME NEW i \in DOMAIN h.regions PROVE h.regions[i].epi < g.brk
    OBVIOUS
  <2>1. PICK e \in Nat : e = h.regions[i].epi
    BY <1>1, RegionType
  <2>2. e < h.brk
    BY <1>1, <2>1 DEF Regioned
  <2> QED BY <1>2, <2>1, <2>2
<1>4. Regioned(g.regions, g.brk, sz)
  BY <1>1, <1>3 DEF Regioned
<1> QED BY <1>4 DEF Well, Shape, Listed, Keeps

\* A step that keeps the blocks, before one that leaves a sound heap.
LEMMA LeavesTrans ==
  ASSUME NEW h, NEW sz, NEW k, NEW sz2, NEW g, NEW U, NEW V,
         Keeps(h, sz, k, sz2, U), Leaves(k, sz2, g, U, V)
  PROVE  Leaves(h, sz, g, U, V)
<1>1. PICK sz3, F3 : Well(g, sz3, F3, F3) /\ Used(sz3, F3) = V /\ Keeps(k, sz2, g, sz3, U)
  BY DEF Leaves
<1>2. Keeps(h, sz, g, sz3, U)
  BY <1>1, KeepsTrans
<1> QED BY <1>1, <1>2 DEF Leaves

\* What __heap_init leaves.
Readied(h, sz, F, x) ==
  /\ Geared(x.heap) /\ Leaves(h, sz, x.heap, Used(sz, F), Used(sz, F))
  /\ x.ok => x.heap.ctl # 0

\* __heap_init builds the first region once, and leaves a sound heap when the source
\* refuses too.
LEMMA InitLemma ==
  ASSUME NEW h, NEW sz, NEW F, Well(h, sz, F, F), Geared(h), NEW source,
         NEW x, x = InitHeap(h, source)
  PROVE  Readied(h, sz, F, x)
<1>1. h \in Heaps /\ Regioned(h.regions, h.brk, sz)
  BY DEF Well, Shape
<1>2. Leaves(h, sz, h, Used(sz, F), Used(sz, F))
  BY DEF Leaves, Keeps
<1>3. PICK p : p = Acquire(h, First, source = "refuses")
  OBVIOUS
<1>4. CASE h.ctl # 0
  <2>1. x = [ok |-> TRUE, heap |-> h]
    BY <1>4 DEF InitHeap
  <2> QED BY <1>2, <1>4, <2>1 DEF Readied
<1>5. CASE h.ctl = 0 /\ p = 0
  <2>1. x = [ok |-> FALSE, heap |-> h]
    BY <1>3, <1>5 DEF InitHeap
  <2> QED BY <1>2, <2>1 DEF Readied
<1>6. CASE h.ctl = 0 /\ p # 0
  <2>1. p = h.brk /\ h.brk + First <= MemWords
    <3>1. h.brk + First > MemWords => p = 0
      BY <1>3 DEF Acquire
    <3>2. p = h.brk
      BY <1>3, <1>6 DEF Acquire
    <3>3. h.brk \in Nat /\ MemWords \in Nat
      BY <1>1, Geometry DEF Heaps
    <3>4. First \in Nat
      <4>1. RegionWords \in Nat /\ CtlWords + 4 + 8 \in Nat
        BY Geometry
      <4> QED BY <4>1, MaxTwo DEF First
    <3> QED BY <1>6, <3>1, <3>2, <3>3, <3>4
  <2>2. p \in Evens /\ p \in Nat /\ 2 <= p /\ ((p + 1) \div 2) * 2 = p
    <3>1. p \in Evens /\ 2 <= p
      BY <2>1 DEF Geared
    <3> QED BY <3>1 DEF Evens
  <2>3. First \in Evens /\ First \in Nat /\ CtlWords + 12 <= First /\ CtlWords \in Evens /\ CtlWords \in Nat
    <3>1. RegionWords \in Evens /\ CtlWords + 12 \in Evens /\ CtlWords \in Evens /\ CtlWords + 4 + 8 = CtlWords + 12
      BY Geometry DEF Evens
    <3>2. RegionWords \in Nat /\ CtlWords + 12 \in Nat
      BY <3>1 DEF Evens
    <3>3. First \in {RegionWords, CtlWords + 12} /\ CtlWords + 12 <= First
      BY <3>1, <3>2, MaxTwo DEF First
    <3> QED BY <3>1, <3>3 DEF Evens
  <2>4. Min({2 * First, MaxRegion}) \in Evens
    <3>1. 2 * First \in Nat /\ 2 * First \in Evens /\ MaxRegion \in Nat /\ MaxRegion \in Evens
      BY <2>3, Geometry DEF Evens
    <3> QED BY <3>1, MinTwo
  <2>5. PICK low \in Evens, n \in Evens, next \in Evens, top \in Nat :
             /\ low = p + CtlWords /\ n = First - CtlWords /\ next = Min({2 * First, MaxRegion})
             /\ low \in Nat /\ 2 <= low /\ n \in Nat /\ 12 <= n /\ next \in Nat
             /\ low + n = p + First /\ p + First - p - CtlWords = n /\ top = p + First
             /\ top \in Evens /\ 2 <= top /\ h.brk <= top /\ top <= MemWords
    <3>1. PICK low \in Evens, n \in Evens, top \in Evens : low = p + CtlWords /\ n = First - CtlWords /\ top = p + First
      <4>1. CtlWords <= First
        BY <2>3
      <4> QED BY <2>2, <2>3, <4>1, EvenSum
    <3>2. /\ low \in Nat /\ 2 <= low /\ n \in Nat /\ 12 <= n
          /\ low + n = p + First /\ p + First - p - CtlWords = n /\ 2 <= top /\ p <= top /\ top \in Nat
      BY <2>2, <2>3, <3>1 DEF Evens
    <3>3. PICK next \in Evens : next = Min({2 * First, MaxRegion}) /\ next \in Nat
      BY <2>4 DEF Evens
    <3> QED BY <2>1, <3>1, <3>2, <3>3
  <2>6. PICK taken : taken = [h EXCEPT !.ctl = p, !.brk = top, !.total = First, !.next = next]
    OBVIOUS
  <2>7. taken \in Heaps /\ taken.mem = h.mem /\ taken.bins = h.bins /\ taken.regions = h.regions
        /\ taken.ctl = p /\ taken.brk = top /\ taken.total = First /\ taken.next = next /\ taken.trap = h.trap
    BY <1>1, <2>2, <2>3, <2>5, <2>6 DEF Heaps
  <2>8. x = Install(taken, low, n)
    <3>1. taken = [h EXCEPT !.ctl = p, !.brk = p + First, !.total = First, !.next = Min({2 * First, MaxRegion})]
      BY ONLY <2>5, <2>6
    <3> DEFINE Out(c) == Install([h EXCEPT !.ctl = c, !.brk = p + First, !.total = First,
                                           !.next = Min({2 * First, MaxRegion})], c + CtlWords, p + First - c - CtlWords)
    <3>2. x = Out(((p + 1) \div 2) * 2)
      BY <1>3, <1>6 DEF InitHeap
    <3>3. Out(p) = Install(taken, low, n)
      BY ONLY <2>5, <3>1
    <3> HIDE DEF Out
    <3> QED BY ONLY <2>2, <3>2, <3>3
  <2>9. Well(taken, sz, F, F) /\ Keeps(h, sz, taken, sz, Used(sz, F))
    BY <2>5, <2>7, ControlLemma
  <2>10. h.regions = <<>> /\ Regioned(taken.regions, low, sz)
    <3>1. h.regions = <<>>
      BY <1>6 DEF Geared
    <3> QED BY <1>1, <2>7, <3>1 DEF Regioned
  <2>11. x.ok = TRUE /\ Installed(taken, sz, F, low, n, x.heap)
    <3>1. 8 <= n /\ low + n <= MemWords /\ low + n <= taken.brk
      BY <2>1, <2>5, <2>7
    <3> QED BY <2>5, <2>8, <2>9, <2>10, <3>1, InstallLemma
  <2>12. PICK g : g = x.heap
    OBVIOUS
  <2>13. /\ Leaves(taken, sz, g, Used(sz, F), Used(sz, F))
         /\ g.ctl = p /\ g.next = next /\ g.total = First /\ g.brk = top /\ g.trap = h.trap
         /\ g.regions = Append(<<>>, [base |-> low + 1, epi |-> low + n - 1, words |-> n])
    BY <2>7, <2>10, <2>11, <2>12 DEF Installed
  <2>14. Leaves(h, sz, g, Used(sz, F), Used(sz, F))
    BY <2>9, <2>13, LeavesTrans
  <2>15. g.total = Tally(g.regions)
    <3>1. PICK rs : rs = <<>>
      OBVIOUS
    <3>2. rs \in Regions /\ DOMAIN rs = {} /\ Len(rs) = 0
      BY <3>1 DEF Regions
    <3>3. Tally(g.regions) = Tally(rs) + n
      <4>1. 8 <= n /\ low \in Nat /\ n \in Nat
        BY <2>5
      <4>2. g.regions = Append(rs, [base |-> low + 1, epi |-> low + n - 1, words |-> n])
        BY <2>13, <3>1
      <4>3. Appending(rs, low, n, g.regions)
        BY <3>2, <4>1, <4>2 DEF Appending
      <4> QED BY <4>3, TallyLemma
    <3>4. Tally(rs) = CtlWords
      <4>1. Extent(rs) = {}
        BY <3>2 DEF Extent
      <4>2. Cardinality(Extent(rs)) = 0
        BY <4>1, FS_EmptySet
      <4> QED BY <2>3, <3>2, <4>2 DEF Tally
    <3> QED BY <2>3, <2>5, <2>13, <3>3, <3>4
  <2>16. Geared(g)
    BY <2>2, <2>5, <2>13, <2>15 DEF Geared
  <2>17. g.ctl # 0
    BY <2>2, <2>13
  <2> QED BY <2>12, <2>14, <2>16, <2>17 DEF Readied
<1> QED BY <1>4, <1>5, <1>6

\* What is left of q * d + r when it is divided by q.
LEMMA ModLemma ==
  ASSUME NEW q \in Nat, NEW r \in Nat, NEW d \in Nat, r < q
  PROVE  (q * d + r) % q = r
<1>1. PICK n \in Nat : n = q * d + r
  BY SMT
<1>2. PICK a \in Int, c \in Nat : a = n \div q /\ c = n % q /\ n = q * a + c /\ c < q
  BY SMT
<1>3. a = d
  <2>1. q * a + c = q * d + r
    BY <1>1, <1>2
  <2>2. ~(a <= d - 1)
    <3> SUFFICES ASSUME a <= d - 1 PROVE FALSE
      OBVIOUS
    <3>1. q * a <= q * (d - 1)
      BY SMT
    <3>2. q * (d - 1) = q * d - q
      BY SMT
    <3> QED BY <2>1, <3>1, <3>2, <1>2, SMT
  <2>3. ~(d <= a - 1)
    <3> SUFFICES ASSUME d <= a - 1 PROVE FALSE
      OBVIOUS
    <3>1. q * d <= q * (a - 1)
      BY SMT
    <3>2. q * (a - 1) = q * a - q
      BY SMT
    <3> QED BY <2>1, <3>1, <3>2, <1>2, SMT
  <2> QED BY <2>2, <2>3
<1> QED BY <1>1, <1>2, <1>3, SMT

\* What __heap_more leaves, whether the source granted the words or not.
Grown(h, sz, F, x) ==
  Geared(x.heap) /\ Leaves(h, sz, x.heap, Used(sz, F), Used(sz, F)) /\ x.heap.ctl = h.ctl

\* __heap_more adds a region, or changes nothing when both requests are refused; the total
\* it reports stays the words it took.
LEMMA MoreLemma ==
  ASSUME NEW h, NEW sz, NEW F, Well(h, sz, F, F), Geared(h), h.ctl # 0, NEW blk \in BlockSizes,
         NEW source, NEW x, x = More(h, blk, source)
  PROVE  Grown(h, sz, F, x)
<1>1. h \in Heaps /\ Regioned(h.regions, h.brk, sz)
  BY DEF Well, Shape
<1>2. Leaves(h, sz, h, Used(sz, F), Used(sz, F))
  BY DEF Leaves, Keeps
<1>3. PICK least \in Evens : least = blk + CtlWords /\ 8 <= least
  <2>1. blk \in Nat /\ blk % 2 = 0 /\ 4 <= blk /\ CtlWords \in Nat /\ 4 <= CtlWords /\ CtlWords % 2 = 0
    BY Geometry DEF BlockSizes, Evens
  <2> QED BY <2>1 DEF Evens
<1>4. PICK want \in Evens : want = Max({h.next, least}) /\ 8 <= want
  <2>1. h.next \in Evens
    BY DEF Geared
  <2>2. h.next \in Nat /\ least \in Nat
    BY <2>1, <1>3 DEF Evens
  <2>3. Max({h.next, least}) \in {h.next, least} /\ least <= Max({h.next, least})
    BY <2>2, MaxTwo
  <2> QED BY <1>3, <2>1, <2>2, <2>3
<1>5. PICK greedy : greedy = Acquire(h, want, source # "grants")
  OBVIOUS
<1>6. PICK size \in Evens : size = (IF greedy = 0 /\ want > least THEN least ELSE want) /\ 8 <= size
  BY <1>3, <1>4
<1>7. PICK p : p = (IF greedy = 0 /\ want > least THEN Acquire(h, least, source = "refuses") ELSE greedy)
  OBVIOUS
<1>8. PICK done : done = Install([h EXCEPT !.brk = p + size], p, size)
  OBVIOUS
<1>9. x = IF p = 0 THEN [ok |-> FALSE, heap |-> h]
          ELSE IF ~done.ok THEN done
          ELSE [done EXCEPT !.heap.total = @ + size, !.heap.next = Min({MaxRegion, (2 * size) % Modulus})]
  BY <1>3, <1>4, <1>5, <1>6, <1>7, <1>8 DEF More
<1>10. CASE p = 0
  <2>1. x.heap = h
    BY <1>9, <1>10
  <2> QED BY <1>2, <2>1 DEF Grown
<1>11. CASE p # 0
  <2>1. p = h.brk /\ h.brk + size <= MemWords
    <3>1. \A r : \A n \in Nat : Acquire(h, n, r) # 0 => Acquire(h, n, r) = h.brk /\ h.brk + n <= MemWords
      <4>1. h.brk \in Nat /\ MemWords \in Nat
        BY <1>1, Geometry DEF Heaps
      <4> QED BY <4>1 DEF Acquire
    <3>2. least \in Nat /\ want \in Nat
      BY DEF Evens
    <3> QED BY <1>5, <1>6, <1>7, <1>11, <3>1, <3>2
  <2>2. p \in Evens /\ p \in Nat /\ 2 <= p /\ size \in Nat
    BY <2>1 DEF Geared, Evens
  <2>3. PICK top \in Evens : top = p + size /\ top \in Nat /\ 2 <= top /\ h.brk <= top
    <3>1. p + size \in Evens
      BY <2>2, EvenSum
    <3> QED BY <2>1, <2>2, <3>1
  <2>4. PICK taken : taken = [h EXCEPT !.brk = top]
    OBVIOUS
  <2>5. /\ taken \in Heaps /\ taken.mem = h.mem /\ taken.bins = h.bins /\ taken.regions = h.regions
        /\ taken.ctl = h.ctl /\ taken.brk = top /\ taken.total = h.total /\ taken.next = h.next
        /\ taken.trap = h.trap
    BY <1>1, <2>3, <2>4 DEF Heaps
  <2>6. done = Install(taken, p, size)
    BY <1>8, <2>3, <2>4
  <2>7. Well(taken, sz, F, F) /\ Keeps(h, sz, taken, sz, Used(sz, F))
    BY <2>3, <2>5, ControlLemma
  <2>8. done.ok = TRUE /\ Installed(taken, sz, F, p, size, done.heap)
    <3>1. Regioned(taken.regions, p, sz)
      BY <1>1, <2>1, <2>5
    <3>2. p + size <= MemWords /\ p + size <= taken.brk
      BY <2>1, <2>2, <2>3, <2>5
    <3> QED BY <1>6, <2>2, <2>6, <2>7, <3>1, <3>2, InstallLemma
  <2>9. PICK k : k = done.heap
    OBVIOUS
  <2>10. /\ Leaves(taken, sz, k, Used(sz, F), Used(sz, F))
         /\ k.ctl = h.ctl /\ k.total = h.total /\ k.brk = top /\ k.trap = h.trap
         /\ k.regions = Append(h.regions, [base |-> p + 1, epi |-> p + size - 1, words |-> size])
    BY <2>5, <2>8, <2>9 DEF Installed
  <2>11. PICK next \in Evens : next = Min({MaxRegion, (2 * size) % Modulus})
    <3>1. MaxRegion \in Evens /\ MaxRegion \in Nat
      BY Geometry DEF Evens
    <3>2. (2 * size) % Modulus \in Evens
      <4>1. PICK q \in Nat : Modulus = 2 * q /\ q # 0
        <5>1. Modulus \in Nat /\ Modulus % 2 = 0 /\ 2 < Modulus
          BY Geometry
        <5>2. Modulus = 2 * (Modulus \div 2) /\ Modulus \div 2 \in Nat /\ Modulus \div 2 # 0
          BY <5>1
        <5> QED BY <5>2
      <4>2. (2 * size) % (2 * q) = 2 * (size % q) /\ size % q \in Nat
        <5>1. PICK r \in Nat, d \in Nat : r = size % q /\ d = size \div q /\ size = q * d + r /\ r < q
          BY <2>2, <4>1
        <5>2. 2 * size = (2 * q) * d + 2 * r /\ 2 * r < 2 * q /\ 2 * r \in Nat
          <6>1. (2 * q) * d = 2 * (q * d)
            BY SMT
          <6>2. PICK e \in Nat : e = q * d
            BY SMT
          <6>3. size = e + r
            BY <5>1, <6>2
          <6>4. 2 * size = 2 * e + 2 * r
            BY <6>2, <6>3
          <6>5. 2 * r < 2 * q /\ 2 * r \in Nat
            BY <5>1
          <6> QED BY <6>1, <6>2, <6>4, <6>5
        <5>3. PICK Q \in Nat, R \in Nat, D \in Nat : Q = 2 * q /\ R = 2 * r /\ D = d /\ 0 < Q
          BY <4>1, <5>1, <5>2
        <5>4. (Q * D + R) % Q = R
          <6>1. R < Q
            BY <5>2, <5>3
          <6> QED BY <5>3, <6>1, ModLemma
        <5> QED BY <5>1, <5>2, <5>3, <5>4
      <4>3. PICK r \in Nat : r = size % q
        BY <4>2
      <4>4. 2 * r \in Evens
        BY DEF Evens
      <4> QED BY <4>1, <4>2, <4>3, <4>4
    <3>3. (2 * size) % Modulus \in Nat
      BY <3>2 DEF Evens
    <3> QED BY <3>1, <3>2, <3>3, MinTwo
  <2>12. PICK total : total = k.total + size
    OBVIOUS
  <2>13. PICK sz2, F2 : Well(k, sz2, F2, F2) /\ Used(sz2, F2) = Used(sz, F) /\ Keeps(taken, sz, k, sz2, Used(sz, F))
    BY <2>10 DEF Leaves
  <2>14. k \in Heaps
    BY <2>13 DEF Well, Shape
  <2>15. PICK g : g = [k EXCEPT !.total = total, !.next = next]
    OBVIOUS
  <2>16. total = Tally(k.regions) /\ total \in Nat
    <3>1. h.total = Tally(h.regions)
      BY <1>11 DEF Geared
    <3>2. Appending(h.regions, p, size, k.regions)
      <4>1. h.regions \in Regions
        BY <1>1 DEF Heaps, Regions
      <4>2. \A i \in DOMAIN h.regions : h.regions[i].epi < p
        BY <1>1, <2>1 DEF Regioned
      <4> QED BY <1>6, <2>2, <2>10, <4>1, <4>2 DEF Appending
    <3>3. Tally(h.regions) \in Nat /\ Tally(k.regions) = Tally(h.regions) + size
      BY ONLY <3>2, TallyLemma
    <3>4. PICK t \in Nat : t = Tally(h.regions)
      BY <3>3
    <3>5. total = t + size
      BY <2>10, <2>12, <3>1, <3>4
    <3> QED BY <2>2, <3>3, <3>4, <3>5
  <2>17. /\ g \in Heaps /\ g.mem = k.mem /\ g.bins = k.bins /\ g.regions = k.regions
         /\ g.ctl = k.ctl /\ g.brk = k.brk /\ g.total = total /\ g.next = next /\ g.trap = k.trap
    BY <2>2, <2>11, <2>14, <2>15, <2>16 DEF Heaps, Evens
  <2>18. x.heap = g
    <3>1. x = [done EXCEPT !.heap.total = @ + size, !.heap.next = next]
      BY <1>9, <1>11, <2>8, <2>11
    <3>2. done = [ok |-> TRUE, heap |-> k]
      BY <2>6, <2>8, <2>9 DEF Install
    <3> QED BY ONLY <2>12, <2>15, <3>1, <3>2
  <2>19. Well(g, sz2, F2, F2) /\ Keeps(k, sz2, g, sz2, Used(sz2, F2))
    <3>1. k.brk <= g.brk
      BY <2>3, <2>10, <2>17
    <3> QED BY <2>13, <2>17, <3>1, ControlLemma
  <2>20. Leaves(h, sz, g, Used(sz, F), Used(sz, F))
    <3>1. Keeps(h, sz, k, sz2, Used(sz, F))
      BY <2>7, <2>13, KeepsTrans
    <3>2. Keeps(h, sz, g, sz2, Used(sz, F))
      BY <2>13, <2>19, <3>1, KeepsTrans
    <3> QED BY <2>13, <2>19, <3>2 DEF Leaves
  <2>21. Geared(g)
    <3>1. h.trap = FALSE
      BY DEF Geared
    <3> QED BY <2>3, <2>10, <2>11, <2>16, <2>17, <3>1 DEF Geared
  <2> QED BY <2>10, <2>17, <2>18, <2>20, <2>21 DEF Grown
<1> QED BY <1>10, <1>11

\* The block size of a request that is not too large holds the header and the request.
LEMMA BlockSizeLemma ==
  ASSUME NEW n \in Nat, n <= Limit
  PROVE  BlockSize(n) \in BlockSizes /\ n + 1 <= BlockSize(n)
<1>1. PICK m \in Nat : m = n + 2 /\ m < Modulus /\ m < Pow2(30)
  <2>1. Pow2(30) \in Nat
    BY PowLemma
  <2> QED BY <2>1, Geometry
<1>2. m % Modulus = m
  BY <1>1, Geometry
<1>3. PICK r \in Nat : r = (m \div 2) * 2 /\ r % 2 = 0 /\ r <= m /\ m <= r + 1
  OBVIOUS
<1>4. PICK s \in Nat : s = BlockSize(n) /\ s \in {4, r} /\ 4 <= s /\ r <= s
  <2>1. BlockSize(n) = Max({4, r})
    BY <1>1, <1>2, <1>3 DEF BlockSize
  <2> QED BY <2>1, MaxTwo
<1>5. 4 < Pow2(30) /\ Pow2(30) \in Nat
  <2>1. Pow2(3) <= Pow2(30)
    BY PowMonotone
  <2>2. Pow2(0) = 1 /\ Pow2(0 + 1) = 2 * Pow2(0) /\ Pow2(1 + 1) = 2 * Pow2(1) /\ Pow2(2 + 1) = 2 * Pow2(2)
    BY PowLemma
  <2>3. Pow2(3) = 8
    BY <2>2
  <2> QED BY <2>1, <2>3, PowLemma
<1> QED BY <1>1, <1>3, <1>4, <1>5 DEF BlockSizes, Evens

\* The control block is right as long as no field of it changes.
LEMMA GearedSame ==
  ASSUME NEW h, NEW g, Geared(h), SameRest(h, g)
  PROVE  Geared(g)
BY DEF Geared, SameRest

\* What the search comes to, with the region that __heap_more may add.
Fits(h, sz, F, fit, blk) ==
  /\ Geared(fit.heap)
  /\ \E sz2, F2 : /\ Well(fit.heap, sz2, F2, F2) /\ Used(sz2, F2) = Used(sz, F)
                  /\ Keeps(h, sz, fit.heap, sz2, Used(sz, F))
                  /\ fit.b # 0 => fit.b \in F2 /\ blk <= sz2[fit.b]

\* The fit of malloc: found on a list, or in a region added for it, or none.
LEMMA FitLemma ==
  ASSUME NEW h, NEW sz, NEW F, Well(h, sz, F, F), Geared(h), h.ctl # 0, NEW blk \in BlockSizes,
         NEW source, NEW fit, fit = Fit(h, Find(h, blk), blk, source)
  PROVE  Fits(h, sz, F, fit, blk)
<1>1. PICK b : b = Find(h, blk)
  OBVIOUS
<1>2. CASE b # 0
  <2>1. fit = [heap |-> h, b |-> b]
    BY <1>1, <1>2 DEF Fit
  <2>2. b \in F /\ blk <= sz[b]
    BY <1>1, <1>2, FindLemma DEF Found
  <2>3. Keeps(h, sz, h, sz, Used(sz, F))
    BY DEF Keeps
  <2> QED BY <2>1, <2>2, <2>3 DEF Fits
<1>3. CASE b = 0
  <2>1. PICK more : more = More(h, blk, source)
    OBVIOUS
  <2>2. Geared(more.heap) /\ Leaves(h, sz, more.heap, Used(sz, F), Used(sz, F))
    BY <2>1, MoreLemma DEF Grown
  <2>3. PICK sz2, F2 : Well(more.heap, sz2, F2, F2) /\ Used(sz2, F2) = Used(sz, F) /\ Keeps(h, sz, more.heap, sz2, Used(sz, F))
    BY <2>2 DEF Leaves
  <2>4. PICK c : c = Find(more.heap, blk)
    OBVIOUS
  <2>5. Found(sz2, F2, blk, c)
    BY <2>3, <2>4, FindLemma
  <2>6. fit.heap = more.heap /\ fit.b \in {0, c}
    BY <1>1, <1>3, <2>1, <2>4 DEF Fit, FitAfterMore
  <2> QED BY <2>2, <2>3, <2>5, <2>6 DEF Fits, Found
<1> QED BY <1>2, <1>3

\* What malloc promises: NULL and the heap with the same blocks in use, or one block more,
\* of blk words at least.
Allocates(h, sz, F, got, blk) ==
  /\ Geared(got.heap)
  /\ got.ret = 0 => Leaves(h, sz, got.heap, Used(sz, F), Used(sz, F))
  /\ got.ret # 0 => /\ got.ret - 1 \notin Used(sz, F) /\ got.ret \in Nat
                    /\ Gives(h, sz, F, got.heap, got.ret - 1, blk)

\* Taking the fit unlinks it, tags it in use and carves off the rest.
LEMMA TakeFitLemma ==
  ASSUME NEW h, NEW sz, NEW F, NEW blk \in BlockSizes, NEW fit, Fits(h, sz, F, fit, blk),
         NEW got, got = Take(fit, blk)
  PROVE  Allocates(h, sz, F, got, blk)
<1>1. PICK k, sz2, F2 : /\ k = fit.heap /\ Geared(k) /\ Well(k, sz2, F2, F2) /\ Used(sz2, F2) = Used(sz, F)
                        /\ Keeps(h, sz, k, sz2, Used(sz, F))
                        /\ fit.b # 0 => fit.b \in F2 /\ blk <= sz2[fit.b]
  BY DEF Fits
<1>2. CASE fit.b = 0
  <2>1. got = [heap |-> k, ret |-> 0]
    BY <1>1, <1>2 DEF Take
  <2> QED BY <1>1, <2>1 DEF Allocates, Leaves
<1>3. CASE fit.b # 0
  <2>1. PICK b \in F2 : b = fit.b /\ blk <= sz2[b]
    BY <1>1, <1>3
  <2>2. PICK g : g = Carve(k, b, blk)
    OBVIOUS
  <2>3. got = [heap |-> g, ret |-> b + 1]
    BY <1>1, <1>3, <2>1, <2>2 DEF Take
  <2>4. SameRest(k, g) /\ Gives(k, sz2, F2, g, b, blk)
    BY <1>1, <2>1, <2>2, CarveLemma DEF BlockSizes
  <2>5. PICK sz3, F3 : /\ Well(g, sz3, F3, F3) /\ Used(sz3, F3) = Used(sz2, F2) \cup {b}
                       /\ Keeps(k, sz2, g, sz3, Used(sz2, F2)) /\ blk <= sz3[b]
    BY <2>4 DEF Gives
  <2>6. Gives(h, sz, F, g, b, blk)
    <3>1. Keeps(h, sz, g, sz3, Used(sz, F))
      BY <1>1, <2>5, KeepsTrans
    <3> QED BY <1>1, <2>5, <3>1 DEF Gives
  <2>7. Geared(g)
    BY <1>1, <2>4, GearedSame
  <2>8. b \in Nat /\ b \notin Used(sz, F)
    <3>1. b \notin Used(sz2, F2)
      BY DEF Used
    <3>2. b \in DOMAIN sz2 /\ Tiled(sz2)
      BY <1>1 DEF Well, Shape, Spaced
    <3> QED BY <1>1, <3>1, <3>2, SizeLemma
  <2>9. b + 1 # 0 /\ b + 1 - 1 = b /\ b + 1 \in Nat
    BY <2>8
  <2> QED BY <2>3, <2>6, <2>7, <2>8, <2>9 DEF Allocates
<1> QED BY <1>2, <1>3

\* malloc behind __heap_init.
LEMMA AllocReadyLemma ==
  ASSUME NEW h, NEW sz, NEW F, NEW ready, Readied(h, sz, F, ready), NEW blk \in BlockSizes,
         NEW source, NEW got, got = AllocReady(ready, blk, source)
  PROVE  Allocates(h, sz, F, got, blk)
<1>1. PICK k, sz2, F2 : /\ k = ready.heap /\ Geared(k) /\ Well(k, sz2, F2, F2) /\ Used(sz2, F2) = Used(sz, F)
                        /\ Keeps(h, sz, k, sz2, Used(sz, F)) /\ (ready.ok => k.ctl # 0)
  BY DEF Readied, Leaves
<1>2. CASE ~ready.ok
  <2>1. got = [heap |-> k, ret |-> 0]
    BY <1>1, <1>2 DEF AllocReady
  <2> QED BY <1>1, <2>1 DEF Allocates, Leaves
<1>3. CASE ready.ok
  <2>1. PICK fit : fit = Fit(k, Find(k, blk), blk, source)
    OBVIOUS
  <2>2. Fits(k, sz2, F2, fit, blk)
    BY <1>1, <1>3, <2>1, FitLemma
  <2>3. Fits(h, sz, F, fit, blk)
    <3>1. PICK sz3, F3 : /\ Well(fit.heap, sz3, F3, F3) /\ Used(sz3, F3) = Used(sz2, F2)
                         /\ Keeps(k, sz2, fit.heap, sz3, Used(sz2, F2))
                         /\ fit.b # 0 => fit.b \in F3 /\ blk <= sz3[fit.b]
      BY <2>2 DEF Fits
    <3>2. Keeps(h, sz, fit.heap, sz3, Used(sz, F))
      BY <1>1, <3>1, KeepsTrans
    <3> QED BY <1>1, <2>2, <3>1, <3>2 DEF Fits
  <2>4. got = Take(fit, blk)
    BY <1>1, <1>3, <2>1 DEF AllocReady
  <2> QED BY <2>3, <2>4, TakeFitLemma
<1> QED BY <1>2, <1>3

\* __heap_alloc, for a request that is not too large.
LEMMA AllocLemma ==
  ASSUME NEW h, NEW sz, NEW F, Well(h, sz, F, F), Geared(h), NEW n \in Nat, n <= Limit,
         NEW source, NEW got, got = Alloc(h, n, source)
  PROVE  Allocates(h, sz, F, got, BlockSize(n))
<1>1. ~(n > Limit)
  BY Geometry
<1>2. PICK ready : ready = InitHeap(h, source)
  OBVIOUS
<1>3. got = AllocReady(ready, BlockSize(n), source)
  BY <1>1, <1>2 DEF Alloc
<1>4. Readied(h, sz, F, ready)
  BY <1>2, InitLemma
<1>5. BlockSize(n) \in BlockSizes
  BY BlockSizeLemma
<1> QED BY <1>3, <1>4, <1>5, AllocReadyLemma

\* The words that the allocator reads: headers, links and footers.
Vital(sz, F) == DOMAIN sz \cup (UNION {{f + 1, f + 2, f + sz[f] - 1} : f \in F})

\* A heap that agrees with h on them has the same blocks and lists.
Agrees(h, g, W) == g \in Heaps /\ SameRest(h, g) /\ g.bins = h.bins /\ \A w \in W : g.mem[w] = h.mem[w]

\* Writes that spare those words disturb neither tag nor list.
LEMMA FrameLemma ==
  ASSUME NEW h, NEW sz, NEW F, Well(h, sz, F, F), NEW g, Agrees(h, g, Vital(sz, F))
  PROVE  Well(g, sz, F, F)
<1>1. /\ g \in Heaps /\ SameRest(h, g) /\ g.bins = h.bins
      /\ \A c \in DOMAIN sz : g.mem[c] = h.mem[c]
      /\ \A f \in F : g.mem[f + 1] = h.mem[f + 1] /\ g.mem[f + 2] = h.mem[f + 2]
                      /\ g.mem[f + sz[f] - 1] = h.mem[f + sz[f] - 1]
  <2>1. \A f \in F : f + 1 \in Vital(sz, F) /\ f + 2 \in Vital(sz, F) /\ f + sz[f] - 1 \in Vital(sz, F)
    BY DEF Vital
  <2>2. DOMAIN sz \subseteq Vital(sz, F)
    BY DEF Vital
  <2> QED BY <2>1, <2>2 DEF Agrees
<1>2. Shape(g, sz, F)
  BY <1>1 DEF Well, Shape, SameRest, Tagged
<1>3. Listed(g, sz, F)
  <2>1. PICK top, rank : top \in Nat /\ Linked(h.mem, h.bins, sz, F, rank, top)
    BY DEF Well, Listed
  <2>2. Linked(g.mem, g.bins, sz, F, rank, top)
    <3>1. \A i \in 0..(NBINS - 1) : g.bins[i] # 0 => /\ g.bins[i] \in F /\ Bin(sz[g.bins[i]]) = i
                                                     /\ g.mem[g.bins[i] + 2] = 0
      BY <1>1, <2>1 DEF Linked
    <3>2. \A b \in F : rank[b] \in 0..top
      BY <2>1 DEF Linked
    <3>3. \A b \in F : g.mem[b + 1] # 0 => /\ g.mem[b + 1] \in F /\ g.mem[g.mem[b + 1] + 2] = b
                                           /\ Bin(sz[g.mem[b + 1]]) = Bin(sz[b])
                                           /\ rank[g.mem[b + 1]] < rank[b]
      BY <1>1, <2>1 DEF Linked
    <3>4. \A b \in F : IF g.mem[b + 2] = 0 THEN g.bins[Bin(sz[b])] = b
                                           ELSE g.mem[b + 2] \in F /\ g.mem[g.mem[b + 2] + 1] = b
      BY <1>1, <2>1 DEF Linked
    <3> QED BY <3>1, <3>2, <3>3, <3>4 DEF Linked
  <2> QED BY <2>1, <2>2 DEF Listed
<1> QED BY <1>2, <1>3 DEF Well

\* The payload of a block in use has no such word, and no word of another block.
LEMMA InsideLemma ==
  ASSUME NEW h, NEW sz, NEW F, Shape(h, sz, F), NEW u \in Used(sz, F), NEW w \in Nat, u < w, w < u + sz[u]
  PROVE  /\ w \notin Vital(sz, F) /\ w \in 1..MemWords
         /\ \A v \in Used(sz, F) \ {u} : w \notin (v + 1)..(v + sz[v] - 1)
<1>1. Tiled(sz) /\ Spaced(sz, F) /\ u \in DOMAIN sz /\ sz[u] # 0 /\ u \notin F
  BY DEF Shape, Used
<1>2. u \in Nat /\ sz[u] \in Nat /\ 3 <= u /\ u + sz[u] <= MemWords
  BY <1>1, SizeLemma
<1>3. \A c \in DOMAIN sz : c # u => \A x \in Nat : c <= x /\ (x < c + sz[c] \/ x = c) => x # w
  <2> SUFFICES ASSUME NEW c \in DOMAIN sz, c # u, NEW x \in Nat, c <= x, x < c + sz[c] \/ x = c PROVE x # w
    OBVIOUS
  <2>1. c + sz[c] <= u \/ u + sz[u] <= c
    BY <1>1, Apart
  <2>2. PICK C \in Nat, S \in Nat, n \in Nat, s \in Nat : C = c /\ S = sz[c] /\ n = u /\ s = sz[u]
    BY <1>1, <1>2, SizeLemma
  <2> QED BY <2>1, <2>2
<1>4. w \notin DOMAIN sz
  <2> SUFFICES ASSUME w \in DOMAIN sz PROVE FALSE
    OBVIOUS
  <2>1. w # u
    BY <1>2
  <2> QED BY <1>3, <2>1
<1>5. \A f \in F : w \notin {f + 1, f + 2, f + sz[f] - 1}
  <2> SUFFICES ASSUME NEW f \in F PROVE w \notin {f + 1, f + 2, f + sz[f] - 1}
    OBVIOUS
  <2>1. f \in DOMAIN sz /\ f # u /\ sz[f] # 0
    BY <1>1 DEF Spaced
  <2>2. f \in Nat /\ sz[f] \in Nat /\ 4 <= sz[f]
    BY <1>1, <2>1, SizeLemma
  <2>3. \A x \in Nat : f <= x /\ x < f + sz[f] => x # w
    BY <1>3, <2>1
  <2> QED BY <2>2, <2>3
<1>6. \A v \in Used(sz, F) \ {u} : w \notin (v + 1)..(v + sz[v] - 1)
  <2> SUFFICES ASSUME NEW v \in Used(sz, F) \ {u}, w \in (v + 1)..(v + sz[v] - 1) PROVE FALSE
    OBVIOUS
  <2>1. v \in DOMAIN sz /\ v # u /\ v \in Nat /\ sz[v] \in Nat
    BY <1>1, SizeLemma DEF Used
  <2> QED BY <1>3, <2>1
<1>7. w \in 1..MemWords
  <2>1. MemWords \in Nat
    BY Geometry
  <2> QED BY <1>2, <2>1
<1> QED BY <1>4, <1>5, <1>6, <1>7 DEF Vital

\* The client, or the allocator for it, writes into the payload of a block in use.
Writes(h, sz, F, u, g) ==
  /\ g \in Heaps /\ SameRest(h, g) /\ g.bins = h.bins
  /\ \A w \in 1..MemWords : ~(u < w /\ w < u + sz[u]) => g.mem[w] = h.mem[w]

\* The payload of a block in use holds no word that the allocator reads, and a write there
\* reaches no other block.
LEMMA WritesLemma ==
  ASSUME NEW h, NEW sz, NEW F, Well(h, sz, F, F), NEW u \in Used(sz, F), NEW g, Writes(h, sz, F, u, g)
  PROVE  Well(g, sz, F, F) /\ Keeps(h, sz, g, sz, Used(sz, F) \ {u})
<1>1. Shape(h, sz, F) /\ Tiled(sz) /\ Spaced(sz, F)
  BY DEF Well, Shape
<1>2. Vital(sz, F) \subseteq 1..MemWords
  <2>1. \A c \in DOMAIN sz : c \in 1..MemWords
    <3> SUFFICES ASSUME NEW c \in DOMAIN sz PROVE c \in 1..MemWords
      OBVIOUS
    <3>1. c \in Nat /\ 3 <= c /\ c <= MemWords /\ MemWords \in Nat
      BY <1>1, SizeLemma, Geometry
    <3> QED BY <3>1
  <2>2. \A f \in F : f + 1 \in 1..MemWords /\ f + 2 \in 1..MemWords /\ f + sz[f] - 1 \in 1..MemWords
    <3> SUFFICES ASSUME NEW f \in F PROVE f + 1 \in 1..MemWords /\ f + 2 \in 1..MemWords /\ f + sz[f] - 1 \in 1..MemWords
      OBVIOUS
    <3>1. f \in DOMAIN sz /\ sz[f] # 0
      BY <1>1 DEF Spaced
    <3>2. f \in Nat /\ sz[f] \in Nat /\ 4 <= sz[f] /\ f + sz[f] <= MemWords /\ MemWords \in Nat
      BY <1>1, <3>1, SizeLemma, Geometry
    <3> QED BY <3>2
  <2> QED BY <2>1, <2>2 DEF Vital
<1>3. Agrees(h, g, Vital(sz, F))
  <2> SUFFICES ASSUME NEW w \in Vital(sz, F) PROVE g.mem[w] = h.mem[w]
    BY DEF Agrees, Writes
  <2>1. w \in 1..MemWords /\ w \in Nat
    BY <1>2
  <2>2. ~(u < w /\ w < u + sz[u])
    BY <1>1, <2>1, InsideLemma
  <2> QED BY <2>1, <2>2 DEF Writes
<1>4. Keeps(h, sz, g, sz, Used(sz, F) \ {u})
  <2> SUFFICES ASSUME NEW v \in Used(sz, F) \ {u}, NEW w \in (v + 1)..(v + sz[v] - 1) PROVE g.mem[w] = h.mem[w]
    BY DEF Keeps
  <2>1. v \in Nat /\ sz[v] \in Nat /\ v + sz[v] <= MemWords /\ MemWords \in Nat
    BY <1>1, SizeLemma, Geometry DEF Used
  <2>2. w \in Nat /\ w \in 1..MemWords
    BY <2>1
  <2>3. ~(u < w /\ w < u + sz[u])
    BY <1>1, <2>2, InsideLemma
  <2> QED BY <2>2, <2>3 DEF Writes
<1> QED BY <1>3, <1>4, FrameLemma

\* The words a client, or the memset of calloc, writes are in the payload.
LEMMA FillLemma ==
  ASSUME NEW h, NEW sz, NEW F, Well(h, sz, F, F), NEW u \in Used(sz, F), NEW v \in Int,
         NEW from \in Int, NEW to \in Int, u < from, to < u + sz[u], NEW g, g = Fill(h, from, to, v)
  PROVE  /\ Writes(h, sz, F, u, g)
         /\ \A w \in 1..MemWords : g.mem[w] = IF from <= w /\ w <= to THEN v ELSE h.mem[w]
<1>1. h \in Heaps /\ h.mem \in [1..MemWords -> Int]
  BY DEF Well, Shape, Heaps
<1>2. PICK m : m = [w \in DOMAIN h.mem |-> IF w \in from..to THEN v ELSE h.mem[w]]
  OBVIOUS
<1>3. m \in [1..MemWords -> Int] /\ \A w \in 1..MemWords : m[w] = IF w \in from..to THEN v ELSE h.mem[w]
  BY <1>1, <1>2
<1>4. g = [h EXCEPT !.mem = m]
  BY <1>2 DEF Fill
<1>5. g \in Heaps /\ SameRest(h, g) /\ g.mem = m /\ g.bins = h.bins
  BY <1>1, <1>3, <1>4, WriteLemma
<1>6. u \in Nat /\ sz[u] \in Nat
  BY SizeLemma DEF Well, Shape, Used
<1>7. \A w \in 1..MemWords : g.mem[w] = IF from <= w /\ w <= to THEN v ELSE h.mem[w]
  BY <1>3, <1>5
<1>8. \A w \in 1..MemWords : ~(u < w /\ w < u + sz[u]) => ~(from <= w /\ w <= to)
  BY <1>6
<1> QED BY <1>5, <1>7, <1>8 DEF Writes

\* realloc copies the contents of a block to a larger one.
Copying(h, sz, F, u, b, s, g) ==
  /\ Well(h, sz, F, F) /\ u \in Used(sz, F) /\ b \in Used(sz, F)
  /\ s \in Nat /\ s = sz[b] /\ s <= sz[u] /\ 0 < s /\ g = Copy(h, b + 1, u + 1, s - 1)

\* The memcpy of realloc stays within the new payload and carries the old contents over.
LEMMA CopyLemma ==
  ASSUME NEW h, NEW sz, NEW F, NEW u, NEW b, NEW s, NEW g, Copying(h, sz, F, u, b, s, g)
  PROVE  /\ Writes(h, sz, F, u, g)
         /\ \A i \in 0..(s - 2) : g.mem[u + 1 + i] = h.mem[b + 1 + i]
<1>0. /\ Well(h, sz, F, F) /\ u \in Used(sz, F) /\ b \in Used(sz, F)
      /\ s \in Nat /\ s = sz[b] /\ s <= sz[u] /\ 0 < s /\ g = Copy(h, b + 1, u + 1, s - 1)
  BY DEF Copying
<1> USE <1>0
<1>1. h \in Heaps /\ h.mem \in [1..MemWords -> Int]
  BY DEF Well, Shape, Heaps
<1>2. /\ u \in Nat /\ sz[u] \in Nat /\ 3 <= u /\ u + sz[u] <= MemWords
      /\ b \in Nat /\ 3 <= b /\ b + sz[b] <= MemWords /\ MemWords \in Nat
  BY SizeLemma, Geometry DEF Well, Shape, Used
<1>3. PICK m : m = [w \in DOMAIN h.mem |->
                      IF w \in (u + 1)..((u + 1) + (s - 1) - 1) THEN h.mem[w - (u + 1) + (b + 1)] ELSE h.mem[w]]
  OBVIOUS
<1>4. /\ m \in [1..MemWords -> Int]
      /\ \A w \in 1..MemWords : m[w] = IF w \in (u + 1)..((u + 1) + (s - 1) - 1)
                                         THEN h.mem[w - (u + 1) + (b + 1)] ELSE h.mem[w]
  <2>1. \A w \in (u + 1)..((u + 1) + (s - 1) - 1) : w - (u + 1) + (b + 1) \in 1..MemWords
    BY <1>2
  <2> QED BY <1>1, <1>3, <2>1
<1>5. g = [h EXCEPT !.mem = m]
  BY <1>3 DEF Copy
<1>6. g \in Heaps /\ SameRest(h, g) /\ g.mem = m /\ g.bins = h.bins
  BY <1>1, <1>4, <1>5, WriteLemma
<1>7. Writes(h, sz, F, u, g)
  <2>1. \A w \in 1..MemWords : ~(u < w /\ w < u + sz[u]) => w \notin (u + 1)..((u + 1) + (s - 1) - 1)
    BY <1>2
  <2> QED BY <1>4, <1>6, <2>1 DEF Writes
<1>8. \A i \in 0..(s - 2) : g.mem[u + 1 + i] = h.mem[b + 1 + i]
  <2> SUFFICES ASSUME NEW i \in 0..(s - 2) PROVE g.mem[u + 1 + i] = h.mem[b + 1 + i]
    OBVIOUS
  <2>1. /\ u + 1 + i \in 1..MemWords /\ u + 1 + i \in (u + 1)..((u + 1) + (s - 1) - 1)
        /\ (u + 1 + i) - (u + 1) + (b + 1) = b + 1 + i
    BY <1>2
  <2> QED BY <1>4, <1>6, <2>1
<1> QED BY <1>7, <1>8

Grips == [p : Nat, n : Nat, req : Nat, val : Int]

\* The client's block: in use, large enough, and with the contents it counts on.
Grasps(h, sz, U, e) ==
  e.p # 0 => /\ e.p - 1 \in U /\ e.n < sz[e.p - 1] /\ e.req < sz[e.p - 1]
             /\ \A w \in e.p..(e.p + e.n - 1) : h.mem[w] = e.val

\* The client holds the blocks in use, each under one handle.
Holds(h, sz, U, l) ==
  /\ l \in [Handles -> Grips]
  /\ \A a \in Handles : Grasps(h, sz, U, l[a])
  /\ \A a, b \in Handles : l[a].p # 0 /\ l[a].p = l[b].p => a = b
  /\ \A u \in U : \E a \in Handles : l[a].p = u + 1

\* The inductive invariant: tags, lists and control block are right for some list of
\* blocks, and the client's blocks are those in use.
Settled(h, l) ==
  Geared(h) /\ \E sz, F : Well(h, sz, F, F) /\ Holds(h, sz, Used(sz, F), l)

\* One handle changes: its old block is no longer in use, and the new one was not.
Updating(h, sz, U, l, a, e, g, sz2, U2, l2) ==
  /\ Holds(h, sz, U, l) /\ a \in Handles /\ e \in Grips /\ l2 = [l EXCEPT ![a] = e]
  /\ \A u \in U2 : u \in Nat
  /\ \A u \in U : u \in Nat /\ sz[u] \in Nat
  /\ \A u \in U : u + 1 # l[a].p => u \in U2 /\ e.p # u + 1
  /\ \A u \in U2 : (u \in U /\ u + 1 # l[a].p) \/ e.p = u + 1
  /\ Keeps(h, sz, g, sz2, {u \in U : u + 1 # l[a].p})
  /\ Grasps(g, sz2, U2, e)

\* When one handle changes so, every client block is in use and every block in use held.
LEMMA UpdateLemma ==
  ASSUME NEW h, NEW sz, NEW U, NEW l, NEW a, NEW e, NEW g, NEW sz2, NEW U2, NEW l2,
         Updating(h, sz, U, l, a, e, g, sz2, U2, l2)
  PROVE  Holds(g, sz2, U2, l2)
<1>1. /\ Holds(h, sz, U, l) /\ a \in Handles /\ e \in Grips /\ l2 = [l EXCEPT ![a] = e]
      /\ \A u \in U2 : u \in Nat
      /\ \A u \in U : u \in Nat /\ sz[u] \in Nat
      /\ \A u \in U : u + 1 # l[a].p => u \in U2 /\ e.p # u + 1
      /\ \A u \in U2 : (u \in U /\ u + 1 # l[a].p) \/ e.p = u + 1
      /\ Grasps(g, sz2, U2, e)
  BY DEF Updating
<1>2. \A u \in U : u + 1 # l[a].p => sz2[u] = sz[u] /\ \A w \in (u + 1)..(u + sz[u] - 1) : g.mem[w] = h.mem[w]
  BY DEF Updating, Keeps
<1>3. /\ l \in [Handles -> Grips] /\ l2 \in [Handles -> Grips] /\ l2[a] = e
      /\ \A b \in Handles : b # a => l2[b] = l[b]
  BY <1>1 DEF Holds
<1>4. \A b \in Handles : b # a /\ l[b].p # 0 =>
          l[b].p - 1 \in U /\ (l[b].p - 1) + 1 = l[b].p /\ l[b].p # l[a].p /\ l[b].p # e.p /\ l[b].p - 1 \in U2
  <2> SUFFICES ASSUME NEW b \in Handles, b # a, l[b].p # 0
               PROVE  l[b].p - 1 \in U /\ (l[b].p - 1) + 1 = l[b].p /\ l[b].p # l[a].p /\ l[b].p # e.p /\ l[b].p - 1 \in U2
    OBVIOUS
  <2>1. PICK p \in Nat : p = l[b].p
    BY <1>3 DEF Grips
  <2>2. p - 1 \in U /\ (p - 1) + 1 = p
    BY <1>1, <2>1 DEF Holds, Grasps
  <2>3. p # l[a].p
    BY <1>1, <2>1 DEF Holds
  <2>4. PICK u \in U : u = p - 1 /\ u + 1 = p
    BY <2>2
  <2>5. u \in U2 /\ e.p # u + 1
    BY <1>1, <2>3, <2>4
  <2> QED BY <2>1, <2>2, <2>3, <2>4, <2>5
<1>5. \A b \in Handles : Grasps(g, sz2, U2, l2[b])
  <2> SUFFICES ASSUME NEW b \in Handles, b # a, l[b].p # 0 PROVE Grasps(g, sz2, U2, l[b])
    BY <1>1, <1>3 DEF Grasps
  <2>0. PICK val : val = l[b].val
    OBVIOUS
  <2>1. PICK p \in Nat, n \in Nat, req \in Nat : p = l[b].p /\ n = l[b].n /\ req = l[b].req /\ val = l[b].val
    BY <2>0, <1>3 DEF Grips
  <2>2. PICK u \in U : u = p - 1 /\ u + 1 = p /\ u \in U2 /\ u + 1 # l[a].p
    BY <1>4, <2>1
  <2>3. n < sz[u] /\ req < sz[u] /\ \A w \in p..(p + n - 1) : h.mem[w] = val
    BY <1>1, <2>1, <2>2 DEF Holds, Grasps
  <2>4. sz2[u] = sz[u] /\ \A w \in (u + 1)..(u + sz[u] - 1) : g.mem[w] = h.mem[w]
    BY <1>2, <2>2
  <2>5. u \in Nat /\ sz[u] \in Nat
    BY <1>1
  <2>6. PICK s \in Nat : s = sz[u]
    BY <2>5
  <2>7. \A w \in p..(p + n - 1) : w \in (u + 1)..(u + s - 1)
    BY <2>2, <2>3, <2>5, <2>6
  <2>8. \A w \in p..(p + n - 1) : g.mem[w] = val
    BY <2>3, <2>4, <2>6, <2>7
  <2> QED BY <2>1, <2>2, <2>3, <2>4, <2>8 DEF Grasps
<1>6. \A b, c \in Handles : l2[b].p # 0 /\ l2[b].p = l2[c].p => b = c
  <2>1. \A b, c \in Handles : l[b].p # 0 /\ l[b].p = l[c].p => b = c
    BY <1>1 DEF Holds
  <2> QED BY <1>3, <1>4, <2>1
<1>7. \A u \in U2 : \E b \in Handles : l2[b].p = u + 1
  <2> SUFFICES ASSUME NEW u \in U2 PROVE \E b \in Handles : l2[b].p = u + 1
    OBVIOUS
  <2>1. CASE u \in U /\ u + 1 # l[a].p
    <3>1. PICK b \in Handles : l[b].p = u + 1
      BY <1>1, <2>1 DEF Holds
    <3> QED BY <1>3, <2>1, <3>1
  <2>2. CASE e.p = u + 1
    BY <1>1, <1>3, <2>2
  <2> QED BY <1>1, <2>1, <2>2
<1> QED BY <1>3, <1>5, <1>6, <1>7 DEF Holds

\* The blocks stay as they were, and so does what the client holds.
LEMMA HoldsKeeps ==
  ASSUME NEW h, NEW sz, NEW U, NEW l, Holds(h, sz, U, l), NEW g, NEW sz2, Keeps(h, sz, g, sz2, U),
         \A u \in U : u \in Nat /\ sz[u] \in Nat
  PROVE  Holds(g, sz2, U, l)
<1>1. \A a \in Handles : Grasps(g, sz2, U, l[a])
  <2> SUFFICES ASSUME NEW b \in Handles, l[b].p # 0 PROVE Grasps(g, sz2, U, l[b])
    BY DEF Grasps
  <2>0. PICK val : val = l[b].val
    OBVIOUS
  <2>1. PICK p \in Nat, n \in Nat, req \in Nat : p = l[b].p /\ n = l[b].n /\ req = l[b].req /\ val = l[b].val
    BY <2>0 DEF Holds, Grips
  <2>2. PICK u \in U : u = p - 1
    BY <2>1 DEF Holds, Grasps
  <2>3. n < sz[u] /\ req < sz[u] /\ \A w \in p..(p + n - 1) : h.mem[w] = val
    BY <2>1, <2>2 DEF Holds, Grasps
  <2>4. sz2[u] = sz[u] /\ \A w \in (u + 1)..(u + sz[u] - 1) : g.mem[w] = h.mem[w]
    BY DEF Keeps
  <2>5. PICK s \in Nat : s = sz[u] /\ u \in Nat
    OBVIOUS
  <2>7. \A w \in p..(p + n - 1) : w \in (u + 1)..(u + s - 1)
    BY <2>2, <2>3, <2>5
  <2>8. \A w \in p..(p + n - 1) : g.mem[w] = val
    BY <2>3, <2>4, <2>5, <2>7
  <2> QED BY <2>1, <2>2, <2>3, <2>4, <2>8 DEF Grasps
<1> QED BY <1>1 DEF Holds

\* Scrub touches no word the allocator reads and none the client counts on.
LEMMA ScrubLemma ==
  ASSUME NEW h, NEW l, Settled(h, l), NEW g, g = Scrub(h, l)
  PROVE  Settled(g, l)
<1>1. PICK sz, F : Well(h, sz, F, F) /\ Holds(h, sz, Used(sz, F), l)
  BY DEF Settled
<1>2. PICK W : W = BlocksOf(h) \cup {r.epi : r \in RegionsOf(h)}
                     \cup (UNION {{b + 1, b + 2, b + SizeAt(h, b) - 1} : b \in {b \in BlocksOf(h) : IsFree(h, b)}})
                     \cup (UNION {l[c].p..(l[c].p + l[c].n - 1) : c \in Handles})
  OBVIOUS
<1>3. PICK m : m = [w \in DOMAIN h.mem |-> IF w \in W THEN h.mem[w] ELSE Junk]
  OBVIOUS
<1>4. h \in Heaps /\ h.mem \in [1..MemWords -> Int] /\ Shape(h, sz, F)
  BY <1>1 DEF Well, Shape, Heaps
<1>5. m \in [1..MemWords -> Int] /\ \A w \in 1..MemWords : w \in W => m[w] = h.mem[w]
  <2>1. \A w \in 1..MemWords : (IF w \in W THEN h.mem[w] ELSE Junk) \in Int
    <3>1. Junk \in Int
      BY DEF Junk
    <3>2. \A w \in 1..MemWords : h.mem[w] \in Int
      BY <1>4
    <3> QED BY <3>1, <3>2
  <2>2. DOMAIN h.mem = 1..MemWords
    BY <1>4
  <2> QED BY <1>3, <2>1, <2>2
<1>6. g = [h EXCEPT !.mem = m]
  BY <1>2, <1>3 DEF Scrub
<1>7. g \in Heaps /\ SameRest(h, g) /\ g.mem = m /\ g.bins = h.bins
  BY <1>4, <1>5, <1>6, WriteLemma
<1>8. Geared(g)
  BY <1>7, GearedSame DEF Settled
<1>9. \A c \in DOMAIN sz : c \in W
  <2> SUFFICES ASSUME NEW c \in DOMAIN sz PROVE c \in W
    OBVIOUS
  <2>1. CASE sz[c] # 0
    BY <1>2, <1>4, <2>1, BlocksLemma
  <2>2. CASE sz[c] = 0
    <3>1. PICK i \in DOMAIN h.regions : c = h.regions[i].epi
      BY <1>4, <2>2 DEF Shape, Regioned
    <3> QED BY <1>2, <3>1 DEF RegionsOf
  <2> QED BY <2>1, <2>2
<1>10. \A f \in F : f + 1 \in W /\ f + 2 \in W /\ f + sz[f] - 1 \in W
  <2> SUFFICES ASSUME NEW f \in F PROVE f + 1 \in W /\ f + 2 \in W /\ f + sz[f] - 1 \in W
    OBVIOUS
  <2>1. f \in {b \in BlocksOf(h) : IsFree(h, b)}
    BY <1>4, BlocksLemma
  <2>2. SizeAt(h, f) = sz[f]
    <3>1. f \in DOMAIN sz
      BY <1>4 DEF Shape, Spaced
    <3> QED BY <1>4, <3>1, ReadLemma
  <2> QED BY <1>2, <2>1, <2>2
<1>11. Vital(sz, F) \subseteq W
  BY <1>9, <1>10 DEF Vital
<1>12. \A u \in Used(sz, F) : u \in Nat /\ sz[u] \in Nat /\ u + sz[u] <= MemWords /\ 3 <= u
  BY <1>4, SizeLemma DEF Used, Shape
<1>13. Vital(sz, F) \subseteq 1..MemWords
  <2>1. MemWords \in Nat
    BY Geometry
  <2>2. Tiled(sz) /\ Spaced(sz, F)
    BY <1>4 DEF Shape
  <2>3. \A c \in DOMAIN sz : c \in 1..MemWords
    BY <2>1, <2>2, SizeLemma
  <2>4. \A f \in F : f + 1 \in 1..MemWords /\ f + 2 \in 1..MemWords /\ f + sz[f] - 1 \in 1..MemWords
    <3> SUFFICES ASSUME NEW f \in F PROVE f + 1 \in 1..MemWords /\ f + 2 \in 1..MemWords /\ f + sz[f] - 1 \in 1..MemWords
      OBVIOUS
    <3>1. f \in DOMAIN sz /\ sz[f] # 0
      BY <2>2 DEF Spaced
    <3>2. f \in Nat /\ sz[f] \in Nat /\ 4 <= sz[f] /\ f + sz[f] <= MemWords /\ MemWords \in Nat
      BY <2>1, <2>2, <3>1, SizeLemma
    <3> QED BY <3>2
  <2> QED BY <2>3, <2>4 DEF Vital
<1>14. Well(g, sz, F, F)
  <2>1. Agrees(h, g, Vital(sz, F))
    BY <1>5, <1>7, <1>11, <1>13 DEF Agrees
  <2> QED BY <1>1, <2>1, FrameLemma
<1>15. Holds(g, sz, Used(sz, F), l)
  <2>1. \A a \in Handles : Grasps(g, sz, Used(sz, F), l[a])
    <3> SUFFICES ASSUME NEW a \in Handles, l[a].p # 0 PROVE Grasps(g, sz, Used(sz, F), l[a])
      BY DEF Grasps
    <3>1. Grasps(h, sz, Used(sz, F), l[a])
      BY <1>1 DEF Holds
    <3>2. PICK p \in Nat, n \in Nat : p = l[a].p /\ n = l[a].n
      BY <1>1 DEF Holds, Grips
    <3>3. PICK u \in Used(sz, F) : u = p - 1 /\ n < sz[u]
      BY <3>1, <3>2 DEF Grasps
    <3>4. PICK s \in Nat : s = sz[u] /\ u \in Nat /\ u + s <= MemWords /\ 3 <= u
      BY <1>12
    <3>5. \A w \in p..(p + n - 1) : w \in 1..MemWords
      <4>1. MemWords \in Nat
        BY Geometry
      <4> QED BY <3>2, <3>3, <3>4, <4>1
    <3>6. p..(p + n - 1) \subseteq W
      BY <1>2, <3>2
    <3>7. \A w \in p..(p + n - 1) : g.mem[w] = h.mem[w]
      BY <1>5, <1>7, <3>5, <3>6
    <3> QED BY <3>1, <3>2, <3>7 DEF Grasps
  <2> QED BY <1>1, <2>1 DEF Holds
<1> QED BY <1>8, <1>14, <1>15 DEF Settled

\* The blocks in use lie in memory, and their headers say how large they are.
LEMMA UsedLemma ==
  ASSUME NEW h, NEW sz, NEW F, Well(h, sz, F, F), NEW u \in Used(sz, F)
  PROVE  /\ u \in Nat /\ sz[u] \in Nat /\ 4 <= sz[u] /\ 3 <= u /\ u + sz[u] <= MemWords
         /\ SizeAt(h, u) = sz[u] /\ ~IsFree(h, u) /\ Usable(h, u + 1) = sz[u] - 1
<1>1. Shape(h, sz, F) /\ Tiled(sz) /\ u \in DOMAIN sz /\ sz[u] # 0 /\ u \notin F
  BY DEF Well, Shape, Used
<1>2. u \in Nat /\ sz[u] \in Nat /\ 4 <= sz[u] /\ 3 <= u /\ u + sz[u] <= MemWords
  BY <1>1, SizeLemma
<1>3. SizeAt(h, u) = sz[u] /\ ~IsFree(h, u)
  BY <1>1, ReadLemma
<1>4. u + 1 # 0 /\ u + 1 - 1 = u
  BY <1>2
<1>5. Usable(h, u + 1) = sz[u] - 1
  <2>1. PICK p \in Nat : p = u + 1 /\ p # 0 /\ p - 1 = u
    BY <1>2
  <2>2. Usable(h, p) = SizeAt(h, p - 1) - 1
    BY <2>1 DEF Usable
  <2> QED BY ONLY <1>3, <2>1, <2>2
<1> QED BY <1>2, <1>3, <1>5

\* Writing no words changes nothing.
LEMMA EmptyFill ==
  ASSUME NEW h \in Heaps, NEW v, NEW from \in Int, NEW to \in Int, to < from
  PROVE  Fill(h, from, to, v) = h
<1>1. PICK m : m = [w \in DOMAIN h.mem |-> IF w \in from..to THEN v ELSE h.mem[w]]
  OBVIOUS
<1>2. h.mem \in [1..MemWords -> Int]
  BY DEF Heaps
<1>3. from..to = {}
  OBVIOUS
<1>4. m = h.mem
  BY <1>1, <1>2, <1>3
<1>5. Fill(h, from, to, v) = [h EXCEPT !.mem = m]
  BY <1>1 DEF Fill
<1>6. [h EXCEPT !.mem = h.mem] = h
  BY DEF Heaps
<1> QED BY <1>4, <1>5, <1>6

\* A handle that holds nothing goes on holding nothing.
LEMMA ClearLemma ==
  ASSUME NEW h, NEW l, Settled(h, l), NEW a \in Handles, l[a].p = 0,
         NEW l2, l2 = [l EXCEPT ![a] = Nothing]
  PROVE  Settled(h, l2)
<1>1. PICK sz, F : Well(h, sz, F, F) /\ Holds(h, sz, Used(sz, F), l)
  BY DEF Settled
<1>2. PICK U : U = Used(sz, F)
  OBVIOUS
<1>3. \A u \in U : u \in Nat /\ sz[u] \in Nat /\ u + 1 # 0
  BY <1>1, <1>2, UsedLemma
<1>4. Nothing \in Grips /\ Nothing.p = 0
  BY DEF Nothing, Grips
<1>5. Updating(h, sz, U, l, a, Nothing, h, sz, U, l2)
  BY <1>1, <1>2, <1>3, <1>4 DEF Updating, Keeps, Grasps
<1>6. Holds(h, sz, U, l2)
  BY <1>5, UpdateLemma
<1> QED BY <1>1, <1>2, <1>6 DEF Settled

\* A call that leaves the same blocks in use leaves the client what it had.
LEMMA StayLemma ==
  ASSUME NEW h, NEW sz, NEW F, Well(h, sz, F, F), NEW l, Holds(h, sz, Used(sz, F), l),
         NEW g, Geared(g), Leaves(h, sz, g, Used(sz, F), Used(sz, F))
  PROVE  Settled(g, l)
<1>1. PICK sz2, F2 : Well(g, sz2, F2, F2) /\ Used(sz2, F2) = Used(sz, F) /\ Keeps(h, sz, g, sz2, Used(sz, F))
  BY DEF Leaves
<1>2. PICK U : U = Used(sz, F)
  OBVIOUS
<1>3. \A u \in U : u \in Nat /\ sz[u] \in Nat
  BY <1>2, UsedLemma
<1>4. Holds(g, sz2, U, l)
  BY <1>1, <1>2, <1>3, HoldsKeeps
<1> QED BY <1>1, <1>2, <1>4 DEF Settled

\* The new block, filled by the client or zeroed for it, becomes the client's.
LEMMA GrantLemma ==
  ASSUME NEW h, NEW sz, NEW F, Well(h, sz, F, F), NEW l, Holds(h, sz, Used(sz, F), l),
         NEW a \in Handles, l[a].p = 0, NEW b \in Nat, b \notin Used(sz, F),
         NEW k, Geared(k), NEW sz2, NEW F2, Well(k, sz2, F2, F2), Used(sz2, F2) = Used(sz, F) \cup {b},
         Keeps(h, sz, k, sz2, Used(sz, F)),
         NEW g, Writes(k, sz2, F2, b, g),
         NEW e \in Grips, e.p = b + 1, e.n < sz2[b], e.req < sz2[b],
         \A w \in (b + 1)..(b + e.n) : g.mem[w] = e.val,
         NEW l2, l2 = [l EXCEPT ![a] = e]
  PROVE  Settled(g, l2)
<1>1. PICK U, U2 : U = Used(sz, F) /\ U2 = Used(sz2, F2)
  OBVIOUS
<1>2. b \in U2 /\ U2 \ {b} = U
  BY <1>1
<1>3. Well(g, sz2, F2, F2) /\ Keeps(k, sz2, g, sz2, U) /\ SameRest(k, g)
  <2>1. Well(g, sz2, F2, F2) /\ Keeps(k, sz2, g, sz2, Used(sz2, F2) \ {b})
    BY <1>1, <1>2, WritesLemma
  <2>2. SameRest(k, g)
    BY DEF Writes
  <2> QED BY <1>1, <1>2, <2>1, <2>2
<1>4. Keeps(h, sz, g, sz2, U)
  BY <1>1, <1>3, KeepsTrans
<1>5. \A u \in U : u \in Nat /\ sz[u] \in Nat /\ u + 1 # 0
  BY <1>1, UsedLemma
<1>6. \A u \in U2 : u \in Nat /\ sz2[u] \in Nat
  BY <1>1, UsedLemma
<1>7. Grasps(g, sz2, U2, e)
  <2>1. e.p - 1 = b
    OBVIOUS
  <2>2. e.n \in Nat
    BY DEF Grips
  <2>3. e.p + e.n - 1 = b + e.n
    BY <2>2
  <2> QED BY <1>2, <2>1, <2>3 DEF Grasps
<1>8. Updating(h, sz, U, l, a, e, g, sz2, U2, l2)
  <2>1. \A u \in U : u + 1 # l[a].p /\ u \in U2 /\ e.p # u + 1
    BY <1>1, <1>2, <1>5
  <2>2. \A u \in U2 : u \in U \/ e.p = u + 1
    BY <1>1
  <2>3. Keeps(h, sz, g, sz2, {u \in U : u + 1 # l[a].p})
    BY <1>4, KeepsSubset
  <2>4. Holds(h, sz, U, l)
    BY <1>1
  <2> QED BY <1>5, <1>6, <1>7, <2>1, <2>2, <2>3, <2>4 DEF Updating
<1>9. Holds(g, sz2, U2, l2)
  BY <1>8, UpdateLemma
<1>10. Geared(g)
  BY <1>3, GearedSame
<1> QED BY <1>1, <1>3, <1>9, <1>10 DEF Settled

\* malloc, up to the client's own writes.
Mallocs(h, l, a, n, source, got, words, l2, g) ==
  /\ Settled(h, l) /\ a \in Handles /\ l[a].p = 0 /\ n \in Nat
  /\ got = Alloc(h, n, source) /\ words = Usable(got.heap, got.ret)
  /\ l2 = [l EXCEPT ![a] = IF got.ret = 0 THEN Nothing
                            ELSE [p |-> got.ret, n |-> words, req |-> n, val |-> -a]]
  /\ g = Fill(got.heap, got.ret, got.ret + words - 1, -a)

\* malloc, then the client's writes, keeps the heap sound.
LEMMA MallocLemma ==
  ASSUME NEW h, NEW l, NEW a, NEW n, NEW source, NEW got, NEW words, NEW l2, NEW g,
         Mallocs(h, l, a, n, source, got, words, l2, g)
  PROVE  Settled(g, l2)
<1>0. /\ Settled(h, l) /\ a \in Handles /\ l[a].p = 0 /\ n \in Nat
      /\ got = Alloc(h, n, source) /\ words = Usable(got.heap, got.ret)
      /\ l2 = [l EXCEPT ![a] = IF got.ret = 0 THEN Nothing
                                ELSE [p |-> got.ret, n |-> words, req |-> n, val |-> -a]]
      /\ g = Fill(got.heap, got.ret, got.ret + words - 1, -a)
  BY DEF Mallocs
<1> USE <1>0
<1>1. PICK sz, F : Well(h, sz, F, F) /\ Holds(h, sz, Used(sz, F), l) /\ Geared(h)
  BY DEF Settled
<1>2. PICK k, ret : k = got.heap /\ ret = got.ret
  OBVIOUS
<1>3. CASE ret = 0
  <2>1. Settled(k, l)
    <3>1. CASE n > Limit
      <4>1. got = [heap |-> h, ret |-> 0]
        BY <3>1 DEF Alloc
      <4> QED BY <1>2, <4>1
    <3>2. CASE ~(n > Limit)
      <4>1. n <= Limit
        BY <3>2, Geometry
      <4>2. Allocates(h, sz, F, got, BlockSize(n))
        BY <1>1, <4>1, AllocLemma
      <4>3. Geared(k) /\ Leaves(h, sz, k, Used(sz, F), Used(sz, F))
        BY <1>2, <1>3, <4>2 DEF Allocates
      <4> QED BY <1>1, <4>3, StayLemma
    <3> QED BY <3>1, <3>2
  <2>2. words = 0 /\ g = Fill(k, 0, -1, -a)
    <3>1. words = 0
      BY <1>2, <1>3 DEF Usable
    <3> QED BY <1>2, <1>3, <3>1
  <2>3. k \in Heaps
    BY <2>1 DEF Settled, Well, Shape
  <2>4. g = k
    BY <2>2, <2>3, EmptyFill
  <2>5. l2 = [l EXCEPT ![a] = Nothing]
    BY <1>2, <1>3
  <2> QED BY <2>1, <2>4, <2>5, ClearLemma
<1>4. CASE ret # 0
  <2>1. n <= Limit
    <3>1. CASE n > Limit
      <4>1. got = [heap |-> h, ret |-> 0]
        BY <3>1 DEF Alloc
      <4> QED BY <1>2, <1>4, <4>1
    <3> QED BY <3>1, Geometry
  <2>2. Allocates(h, sz, F, got, BlockSize(n))
    BY <1>1, <2>1, AllocLemma
  <2>3. PICK b \in Nat : ret = b + 1 /\ b \notin Used(sz, F) /\ Gives(h, sz, F, k, b, BlockSize(n)) /\ Geared(k)
    <3>1. ret - 1 \notin Used(sz, F) /\ ret \in Nat /\ Gives(h, sz, F, k, ret - 1, BlockSize(n)) /\ Geared(k)
      BY <1>2, <1>4, <2>2 DEF Allocates
    <3>2. ret - 1 \in Nat /\ ret = (ret - 1) + 1
      BY <1>4, <3>1
    <3> QED BY <3>1, <3>2
  <2>4. PICK sz2, F2 : /\ Well(k, sz2, F2, F2) /\ Used(sz2, F2) = Used(sz, F) \cup {b}
                       /\ Keeps(h, sz, k, sz2, Used(sz, F)) /\ BlockSize(n) <= sz2[b]
    BY <2>3 DEF Gives
  <2>5. b \in Used(sz2, F2)
    BY <2>4
  <2>6. sz2[b] \in Nat /\ 4 <= sz2[b] /\ b + sz2[b] <= MemWords /\ words = sz2[b] - 1
    BY <1>2, <2>3, <2>4, <2>5, UsedLemma
  <2>7. PICK s \in Nat : s = sz2[b] /\ 4 <= s /\ b + s <= MemWords /\ words = s - 1 /\ n < s
    <3>1. n + 1 <= BlockSize(n) /\ BlockSize(n) \in Nat
      BY <2>1, BlockSizeLemma DEF BlockSizes, Evens
    <3>2. n < sz2[b]
      BY <2>4, <2>6, <3>1
    <3> QED BY <2>6, <3>2
  <2>8. g = Fill(k, b + 1, b + s - 1, -a)
    <3>1. got.ret + words - 1 = b + s - 1
      BY <1>2, <2>3, <2>7
    <3> QED BY <1>2, <2>3, <3>1
  <2>9. a \in Nat /\ -a \in Int
    BY Client
  <2>10. /\ Writes(k, sz2, F2, b, g)
         /\ \A w \in 1..MemWords : g.mem[w] = IF b + 1 <= w /\ w <= b + s - 1 THEN -a ELSE k.mem[w]
    <3>1. b + 1 \in Int /\ b + s - 1 \in Int /\ b < b + 1 /\ b + s - 1 < b + sz2[b]
      BY <2>7
    <3> QED BY <2>4, <2>5, <2>8, <2>9, <3>1, FillLemma
  <2>11. PICK e : e = [p |-> ret, n |-> words, req |-> n, val |-> -a]
    OBVIOUS
  <2>12. e \in Grips /\ e.p = b + 1 /\ e.n = s - 1 /\ e.n < sz2[b] /\ e.req < sz2[b] /\ e.val = -a
    BY <2>3, <2>7, <2>9, <2>11 DEF Grips
  <2>13. \A w \in (b + 1)..(b + e.n) : g.mem[w] = e.val
    <3> SUFFICES ASSUME NEW w \in (b + 1)..(b + e.n) PROVE g.mem[w] = -a
      BY <2>12
    <3>1. w \in (b + 1)..(b + (s - 1)) /\ MemWords \in Nat
      BY <2>12, Geometry
    <3>2. w \in 1..MemWords /\ b + 1 <= w /\ w <= b + s - 1
      BY <2>7, <3>1
    <3> QED BY <2>10, <3>2
  <2>14. l2 = [l EXCEPT ![a] = e]
    BY <1>2, <1>4, <2>11
  <2> QED BY ONLY <1>1, a \in Handles, l[a].p = 0, b \in Nat, <2>3, <2>4, <2>10, <2>12, <2>13, <2>14, GrantLemma
<1> QED BY <1>3, <1>4

\* The product that does not overflow is the number of words to clear.
LEMMA ProductLemma ==
  ASSUME NEW count \in Nat, NEW size \in Nat, NEW total, total = (count * size) % Modulus,
         ~(count # 0 /\ total \div count # size)
  PROVE  total \in Nat /\ count * size = total
<1>1. PICK M \in Nat : M = Modulus /\ 0 < M
  BY Geometry
<1>2. PICK m \in Nat : m = count * size
  BY SMT
<1>3. total = m % M /\ m % M \in Nat /\ m % M <= m
  BY <1>1, <1>2
<1>4. CASE count = 0
  <2>1. m = 0
    BY <1>2, <1>4
  <2> QED BY <1>2, <1>3, <2>1
<1>5. CASE count # 0
  <2>1. PICK t \in Nat : t = total /\ t \div count = size
    BY <1>3, <1>5
  <2>2. count * (t \div count) <= t
    BY <1>5, SMT
  <2>3. m <= t
    BY <1>2, <2>1, <2>2
  <2> QED BY <1>2, <1>3, <2>1, <2>3
<1> QED BY <1>4, <1>5

\* malloc returns a heap and a payload.
LEMMA AllocRecord ==
  ASSUME NEW h, NEW n, NEW source
  PROVE  DOMAIN Alloc(h, n, source) = {"heap", "ret"}
<1>1. \A fit, blk : DOMAIN Take(fit, blk) = {"heap", "ret"}
  BY DEF Take
<1>2. \A ready, blk : DOMAIN AllocReady(ready, blk, source) = {"heap", "ret"}
  BY <1>1 DEF AllocReady
<1> QED BY <1>2 DEF Alloc

\* calloc: the words the client asked for are zero.
Callocs(h, l, a, count, size, source, got, l2) ==
  /\ Settled(h, l) /\ a \in Handles /\ l[a].p = 0 /\ count \in Nat /\ size \in Nat
  /\ got = Calloc(h, count, size, source)
  /\ l2 = [l EXCEPT ![a] = IF got.ret = 0 THEN Nothing
                            ELSE [p |-> got.ret, n |-> count * size, req |-> count * size, val |-> 0]]

\* calloc keeps the heap sound, and what it hands out is zero.
LEMMA CallocLemma ==
  ASSUME NEW h, NEW l, NEW a, NEW count, NEW size, NEW source, NEW got, NEW l2,
         Callocs(h, l, a, count, size, source, got, l2)
  PROVE  Settled(got.heap, l2)
<1>0. /\ Settled(h, l) /\ a \in Handles /\ l[a].p = 0 /\ count \in Nat /\ size \in Nat
      /\ got = Calloc(h, count, size, source)
      /\ l2 = [l EXCEPT ![a] = IF got.ret = 0 THEN Nothing
                                ELSE [p |-> got.ret, n |-> count * size, req |-> count * size, val |-> 0]]
  BY DEF Callocs
<1> USE <1>0
<1>1. PICK sz, F : Well(h, sz, F, F) /\ Holds(h, sz, Used(sz, F), l) /\ Geared(h)
  BY DEF Settled
<1>2. PICK total : total = (count * size) % Modulus
  OBVIOUS
<1>3. PICK x : x = Alloc(h, total, source)
  OBVIOUS
<1>4. got = IF count # 0 /\ total \div count # size THEN [heap |-> h, ret |-> 0]
            ELSE IF x.ret = 0 THEN x
            ELSE [x EXCEPT !.heap = Fill(x.heap, x.ret, x.ret + total - 1, 0)]
  BY <1>2, <1>3 DEF Calloc
<1>5. CASE count # 0 /\ total \div count # size
  <2>1. got = [heap |-> h, ret |-> 0]
    BY <1>4, <1>5
  <2>2. got.ret = 0 /\ got.heap = h
    BY <2>1
  <2>3. l2 = [l EXCEPT ![a] = Nothing]
    BY <2>2
  <2> QED BY <2>2, <2>3, ClearLemma
<1>6. CASE ~(count # 0 /\ total \div count # size)
  <2>1. total \in Nat /\ count * size = total
    BY <1>2, <1>6, ProductLemma
  <2>2. CASE x.ret = 0
    <3>1. got = x
      BY <1>4, <1>6, <2>2
    <3>2. l2 = [l EXCEPT ![a] = Nothing]
      BY <2>2, <3>1
    <3>3. Settled(x.heap, l)
      <4>1. CASE total > Limit
        <5>1. x = [heap |-> h, ret |-> 0]
          BY <1>3, <4>1 DEF Alloc
        <5> QED BY <5>1
      <4>2. CASE ~(total > Limit)
        <5>1. total <= Limit
          BY <2>1, <4>2, Geometry
        <5>2. Allocates(h, sz, F, x, BlockSize(total))
          BY <1>1, <1>3, <2>1, <5>1, AllocLemma
        <5>3. Geared(x.heap) /\ Leaves(h, sz, x.heap, Used(sz, F), Used(sz, F))
          BY <2>2, <5>2 DEF Allocates
        <5> QED BY <1>1, <5>3, StayLemma
      <4> QED BY <4>1, <4>2
    <3> QED BY <3>1, <3>2, <3>3, ClearLemma
  <2>3. CASE x.ret # 0
    <3>1. total <= Limit
      <4>1. CASE total > Limit
        <5>1. x = [heap |-> h, ret |-> 0]
          BY <1>3, <4>1 DEF Alloc
        <5> QED BY <2>3, <5>1
      <4> QED BY <2>1, <4>1, Geometry
    <3>2. Allocates(h, sz, F, x, BlockSize(total))
      BY <1>1, <1>3, <2>1, <3>1, AllocLemma
    <3>3. PICK k, ret : k = x.heap /\ ret = x.ret
      OBVIOUS
    <3>4. PICK b \in Nat : ret = b + 1 /\ b \notin Used(sz, F) /\ Gives(h, sz, F, k, b, BlockSize(total)) /\ Geared(k)
      <4>1. ret - 1 \notin Used(sz, F) /\ ret \in Nat /\ Gives(h, sz, F, k, ret - 1, BlockSize(total)) /\ Geared(k)
        BY <2>3, <3>2, <3>3 DEF Allocates
      <4>2. ret - 1 \in Nat /\ ret = (ret - 1) + 1
        BY <2>3, <3>3, <4>1
      <4> QED BY <4>1, <4>2
    <3>5. PICK sz2, F2 : /\ Well(k, sz2, F2, F2) /\ Used(sz2, F2) = Used(sz, F) \cup {b}
                         /\ Keeps(h, sz, k, sz2, Used(sz, F)) /\ BlockSize(total) <= sz2[b]
      BY <3>4 DEF Gives
    <3>6. b \in Used(sz2, F2)
      BY <3>5
    <3>7. PICK s \in Nat : s = sz2[b] /\ b + s <= MemWords /\ total < s
      <4>1. total + 1 <= BlockSize(total) /\ BlockSize(total) \in Nat
        BY <2>1, <3>1, BlockSizeLemma DEF BlockSizes, Evens
      <4>2. sz2[b] \in Nat /\ b + sz2[b] <= MemWords
        BY <3>5, <3>6, UsedLemma
      <4> QED BY <2>1, <3>5, <4>1, <4>2
    <3>8. PICK g : g = Fill(k, b + 1, b + total, 0)
      OBVIOUS
    <3>9. got.heap = g /\ got.ret = b + 1
      <4>1. got = [x EXCEPT !.heap = Fill(x.heap, x.ret, x.ret + total - 1, 0)]
        BY <1>4, <1>6, <2>3
      <4>2. x.ret + total - 1 = b + total
        BY <2>1, <3>3, <3>4
      <4>3. g = Fill(x.heap, x.ret, x.ret + total - 1, 0)
        BY ONLY <3>3, <3>4, <3>8, <4>2
      <4>4. DOMAIN x = {"heap", "ret"}
        BY <1>3, AllocRecord
      <4> QED BY <3>3, <3>4, <4>1, <4>3, <4>4
    <3>10. /\ Writes(k, sz2, F2, b, g)
           /\ \A w \in 1..MemWords : g.mem[w] = IF b + 1 <= w /\ w <= b + total THEN 0 ELSE k.mem[w]
      <4>1. PICK from \in Int, to \in Int : from = b + 1 /\ to = b + total /\ b < from /\ to < b + sz2[b]
        BY <2>1, <3>7
      <4>2. g = Fill(k, from, to, 0) /\ Well(k, sz2, F2, F2) /\ 0 \in Int
        BY <3>5, <3>8, <4>1
      <4>3. /\ Writes(k, sz2, F2, b, g)
            /\ \A w \in 1..MemWords : g.mem[w] = IF from <= w /\ w <= to THEN 0 ELSE k.mem[w]
        BY ONLY <3>6, <4>1, <4>2, FillLemma
      <4> QED BY <4>1, <4>3
    <3>11. PICK e : e = [p |-> b + 1, n |-> total, req |-> total, val |-> 0]
      OBVIOUS
    <3>12. e \in Grips /\ e.p = b + 1 /\ e.n = total /\ e.n < sz2[b] /\ e.req < sz2[b] /\ e.val = 0
      BY <2>1, <3>7, <3>11 DEF Grips
    <3>13. \A w \in (b + 1)..(b + e.n) : g.mem[w] = e.val
      <4> SUFFICES ASSUME NEW w \in (b + 1)..(b + e.n) PROVE g.mem[w] = 0
        BY <3>12
      <4>1. w \in (b + 1)..(b + total) /\ MemWords \in Nat
        BY <3>12, Geometry
      <4>2. w \in 1..MemWords /\ b + 1 <= w /\ w <= b + total
        BY <2>1, <3>7, <4>1
      <4> QED BY <3>10, <4>2
    <3>14. l2 = [l EXCEPT ![a] = e]
      <4>1. got.ret # 0
        BY <3>9
      <4> QED BY <2>1, <3>9, <3>11, <4>1
    <3>15. Settled(g, l2)
      BY ONLY <1>1, a \in Handles, l[a].p = 0, b \in Nat, <3>4, <3>5, <3>10, <3>12, <3>13, <3>14, GrantLemma
    <3> QED BY <3>9, <3>15
  <2> QED BY <2>2, <2>3
<1> QED BY <1>5, <1>6

\* The block behind a handle.
LEMMA HeldLemma ==
  ASSUME NEW h, NEW sz, NEW U, NEW l, Holds(h, sz, U, l), NEW a \in Handles, l[a].p # 0
  PROVE  \E b \in U : /\ l[a].p = b + 1 /\ l[a] \in Grips /\ l[a].n < sz[b] /\ l[a].req < sz[b]
                      /\ \A w \in (b + 1)..(b + l[a].n) : h.mem[w] = l[a].val
<1>1. PICK p \in Nat, n \in Nat : p = l[a].p /\ n = l[a].n /\ l[a] \in Grips
  BY DEF Holds, Grips
<1>2. /\ p - 1 \in U /\ n < sz[p - 1] /\ l[a].req < sz[p - 1]
      /\ \A w \in p..(p + n - 1) : h.mem[w] = l[a].val
  BY <1>1 DEF Holds, Grasps
<1>3. PICK b \in U : b = p - 1 /\ p = b + 1 /\ p + n - 1 = b + n
  BY <1>1, <1>2
<1> QED BY <1>1, <1>2, <1>3

\* free: the block goes back, and the client's others stay.
LEMMA GiveBackLemma ==
  ASSUME NEW h, NEW l, Settled(h, l), NEW a \in Handles, l[a].p # 0, NEW g, g = FreeBlock(h, l[a].p),
         NEW l2, l2 = [l EXCEPT ![a] = Nothing]
  PROVE  Settled(g, l2)
<1>1. PICK sz, F : Well(h, sz, F, F) /\ Holds(h, sz, Used(sz, F), l) /\ Geared(h)
  BY DEF Settled
<1>2. PICK b \in Used(sz, F) : l[a].p = b + 1
  BY <1>1, HeldLemma
<1>3. SameRest(h, g) /\ Leaves(h, sz, g, Used(sz, F) \ {b}, Used(sz, F) \ {b})
  BY <1>1, <1>2, FreeLemma
<1>4. PICK sz2, F2 : Well(g, sz2, F2, F2) /\ Used(sz2, F2) = Used(sz, F) \ {b} /\ Keeps(h, sz, g, sz2, Used(sz, F) \ {b})
  BY <1>3 DEF Leaves
<1>5. PICK U, U2 : U = Used(sz, F) /\ U2 = Used(sz2, F2)
  OBVIOUS
<1>6. \A u \in U : u \in Nat /\ sz[u] \in Nat /\ u + 1 # 0 /\ (u + 1 = b + 1 <=> u = b)
  BY <1>1, <1>5, UsedLemma
<1>7. Nothing \in Grips /\ Nothing.p = 0
  BY DEF Nothing, Grips
<1>8. Updating(h, sz, U, l, a, Nothing, g, sz2, U2, l2)
  <2>1. Keeps(h, sz, g, sz2, {u \in U : u + 1 # l[a].p})
    <3>1. {u \in U : u + 1 # l[a].p} \subseteq U \ {b}
      BY <1>2, <1>6
    <3> QED BY <1>4, <1>5, <3>1, KeepsSubset
  <2>2. \A u \in U : u + 1 # l[a].p => u \in U2 /\ Nothing.p # u + 1
    BY <1>2, <1>4, <1>5, <1>6, <1>7
  <2>3. \A u \in U2 : u \in Nat /\ u \in U /\ u + 1 # l[a].p
    BY <1>2, <1>4, <1>5, <1>6
  <2> QED BY <1>1, <1>5, <1>6, <1>7, <2>1, <2>2, <2>3 DEF Updating, Grasps
<1>9. Holds(g, sz2, U2, l2)
  BY <1>8, UpdateLemma
<1>10. Geared(g)
  BY <1>1, <1>3, GearedSame
<1> QED BY <1>4, <1>5, <1>9, <1>10 DEF Settled

\* After a realloc the client fills the words it gained, from the n0 words it had on.
Regripped(b, words, n, val) == [p |-> b + 1, n |-> words, req |-> n, val |-> val]

Refilling(k, sz, F, b, n0, val, words, n, g, e, U) ==
  /\ Well(k, sz, F, F) /\ b \in Used(sz, F) /\ n0 \in Nat /\ val \in Int
  /\ \A w \in (b + 1)..(b + n0) : w < b + sz[b] => k.mem[w] = val
  /\ words = Usable(k, b + 1) /\ n \in Nat /\ n < sz[b]
  /\ g = Fill(k, b + 1 + n0, b + 1 + words - 1, val)
  /\ e = Regripped(b, words, n, val) /\ b \in U

Refilled(k, sz, F, b, g, e, U) ==
  /\ Well(g, sz, F, F) /\ Keeps(k, sz, g, sz, Used(sz, F) \ {b}) /\ SameRest(k, g)
  /\ e \in Grips /\ e.p = b + 1 /\ Grasps(g, sz, U, e)

\* The client's writes after a realloc stay in its block.
LEMMA RefillLemma ==
  ASSUME NEW k, NEW sz, NEW F, NEW b, NEW n0, NEW val, NEW words, NEW n, NEW g, NEW e, NEW U,
         Refilling(k, sz, F, b, n0, val, words, n, g, e, U)
  PROVE  Refilled(k, sz, F, b, g, e, U)
<1>0. /\ Well(k, sz, F, F) /\ b \in Used(sz, F) /\ n0 \in Nat /\ val \in Int
      /\ \A w \in (b + 1)..(b + n0) : w < b + sz[b] => k.mem[w] = val
      /\ words = Usable(k, b + 1) /\ n \in Nat /\ n < sz[b]
      /\ g = Fill(k, b + 1 + n0, b + 1 + words - 1, val)
      /\ e = Regripped(b, words, n, val) /\ b \in U
  BY DEF Refilling
<1> USE <1>0
<1>1. PICK s \in Nat : s = sz[b] /\ 4 <= s /\ b \in Nat /\ words = s - 1 /\ b + s <= MemWords
  BY UsedLemma
<1>2. PICK from \in Int, to \in Int : from = b + 1 + n0 /\ to = b + s - 1 /\ b < from /\ to < b + s
  <2>1. b \in Nat /\ s \in Nat /\ n0 \in Nat
    BY <1>1
  <2>2. b + 1 + n0 \in Int /\ b + s - 1 \in Int /\ b < b + 1 + n0 /\ b + s - 1 < b + s
    BY ONLY <2>1
  <2> QED BY ONLY <2>2
<1>3. b + 1 + words - 1 = to
  BY <1>1, <1>2
<1>4. /\ Writes(k, sz, F, b, g)
      /\ \A w \in 1..MemWords : g.mem[w] = IF from <= w /\ w <= to THEN val ELSE k.mem[w]
  <2>1. g = Fill(k, from, to, val) /\ Well(k, sz, F, F) /\ to < b + sz[b]
    BY <1>1, <1>2, <1>3
  <2> QED BY ONLY b \in Used(sz, F), val \in Int, <1>2, <2>1, FillLemma
<1>5. Well(g, sz, F, F) /\ Keeps(k, sz, g, sz, Used(sz, F) \ {b})
  BY <1>4, WritesLemma
<1>6. SameRest(k, g)
  BY <1>4 DEF Writes
<1>7. e = [p |-> b + 1, n |-> s - 1, req |-> n, val |-> val]
  BY <1>1 DEF Regripped
<1>8. e \in Grips /\ e.p = b + 1 /\ e.n = s - 1 /\ e.req = n /\ e.val = val
  BY <1>1, <1>7 DEF Grips
<1>9. Grasps(g, sz, U, e)
  <2>1. \A w \in (b + 1)..(b + s - 1) : g.mem[w] = val
    <3> SUFFICES ASSUME NEW w \in (b + 1)..(b + s - 1) PROVE g.mem[w] = val
      OBVIOUS
    <3>1. w \in 1..MemWords /\ w \in Nat /\ w <= to /\ w < b + s
      <4>1. MemWords \in Nat
        BY Geometry
      <4> QED BY <1>1, <1>2, <4>1
    <3>2. CASE from <= w
      BY <1>4, <3>1, <3>2
    <3>3. CASE ~(from <= w)
      <4>1. w \in (b + 1)..(b + n0)
        BY <1>1, <1>2, <3>1, <3>3
      <4>2. k.mem[w] = val
        BY <1>1, <3>1, <4>1
      <4> QED BY <1>4, <3>1, <3>3, <4>2
    <3> QED BY <3>2, <3>3
  <2>2. e.p - 1 = b /\ e.p + e.n - 1 = b + s - 1 /\ e.n < s /\ e.req < s
    BY <1>1, <1>8
  <2> QED BY <1>1, <1>8, <2>1, <2>2 DEF Grasps
<1> QED BY <1>5, <1>6, <1>8, <1>9 DEF Refilled

\* realloc in place, up to the client's own writes.
LEMMA InPlaceLemma ==
  ASSUME NEW h, NEW sz, NEW F, Well(h, sz, F, F), NEW l, Holds(h, sz, Used(sz, F), l), Geared(h),
         NEW a \in Handles, NEW b \in Used(sz, F), l[a].p = b + 1,
         NEW k, NEW blk \in Nat, SameRest(h, k), Resized(h, sz, F, k, b, blk),
         NEW n \in Nat, n + 1 <= blk, NEW words, words = Usable(k, b + 1),
         NEW g, g = Fill(k, b + 1 + l[a].n, b + 1 + words - 1, l[a].val),
         NEW l2, l2 = [l EXCEPT ![a] = Regripped(b, words, n, l[a].val)]
  PROVE  Settled(g, l2)
<1>1. PICK sz2, F2 : /\ Well(k, sz2, F2, F2) /\ Used(sz2, F2) = Used(sz, F)
                     /\ Keeps(h, sz, k, sz2, Used(sz, F) \ {b}) /\ blk <= sz2[b]
                     /\ \A w \in (b + 1)..(b + sz[b] - 1) : w < b + sz2[b] => k.mem[w] = h.mem[w]
  BY DEF Resized
<1>2. PICK U : U = Used(sz, F)
  OBVIOUS
<1>3. b \in Nat /\ \A u \in U : u \in Nat /\ sz[u] \in Nat /\ sz2[u] \in Nat /\ u + 1 # 0 /\ (u + 1 = b + 1 <=> u = b)
  <2>1. \A u \in U : u \in Nat /\ sz[u] \in Nat
    BY <1>2, UsedLemma
  <2>2. \A u \in U : sz2[u] \in Nat
    BY <1>1, <1>2, UsedLemma
  <2> QED BY <1>2, <2>1, <2>2
<1>4. l[a].p # 0
  BY <1>2, <1>3
<1>5. PICK n0 \in Nat, val \in Int : /\ n0 = l[a].n /\ val = l[a].val /\ n0 < sz[b]
                                     /\ \A w \in (b + 1)..(b + n0) : h.mem[w] = val
  <2>1. PICK c \in Used(sz, F) : /\ l[a].p = c + 1 /\ l[a] \in Grips /\ l[a].n < sz[c]
                                 /\ \A w \in (c + 1)..(c + l[a].n) : h.mem[w] = l[a].val
    BY <1>4, HeldLemma
  <2>2. c = b
    BY <1>2, <1>3, <2>1
  <2> QED BY <2>1, <2>2 DEF Grips
<1>6. \A w \in (b + 1)..(b + n0) : w < b + sz2[b] => k.mem[w] = val
  <2> SUFFICES ASSUME NEW w \in (b + 1)..(b + n0), w < b + sz2[b] PROVE k.mem[w] = val
    OBVIOUS
  <2>1. w \in (b + 1)..(b + sz[b] - 1)
    BY <1>2, <1>3, <1>5
  <2> QED BY <1>1, <1>5, <2>1
<1>7. n < sz2[b]
  BY <1>1, <1>2, <1>3
<1>8. PICK e : e = Regripped(b, words, n, val)
  OBVIOUS
<1>9. /\ Well(g, sz2, F2, F2) /\ Keeps(k, sz2, g, sz2, U \ {b}) /\ SameRest(k, g)
      /\ e \in Grips /\ e.p = b + 1 /\ Grasps(g, sz2, U, e)
  <2>1. b \in Used(sz2, F2) /\ b \in U
    BY <1>1, <1>2
  <2>2. g = Fill(k, b + 1 + n0, b + 1 + words - 1, val)
    BY <1>5
  <2>3. /\ Well(g, sz2, F2, F2) /\ Keeps(k, sz2, g, sz2, Used(sz2, F2) \ {b}) /\ SameRest(k, g)
        /\ e \in Grips /\ e.p = b + 1 /\ Grasps(g, sz2, U, e)
    <3>1. Refilling(k, sz2, F2, b, n0, val, words, n, g, e, U)
      BY <1>1, <1>5, <1>6, <1>7, <1>8, <2>1, <2>2 DEF Refilling
    <3>2. Refilled(k, sz2, F2, b, g, e, U)
      BY <3>1, RefillLemma
    <3> QED BY <3>2 DEF Refilled
  <2> QED BY <1>1, <1>2, <2>3
<1>10. Updating(h, sz, U, l, a, e, g, sz2, U, l2)
  <2>1. Keeps(h, sz, g, sz2, U \ {b})
    BY <1>1, <1>2, <1>9, KeepsTrans
  <2>2. {u \in U : u + 1 # l[a].p} \subseteq U \ {b}
    BY <1>3
  <2>3. Keeps(h, sz, g, sz2, {u \in U : u + 1 # l[a].p})
    BY <2>1, <2>2, KeepsSubset
  <2>4. l2 = [l EXCEPT ![a] = e]
    BY <1>5, <1>8
  <2> QED BY <1>2, <1>3, <1>9, <2>3, <2>4 DEF Updating
<1>11. Holds(g, sz2, U, l2)
  BY <1>10, UpdateLemma
<1>12. Geared(g)
  BY <1>9, GearedSame
<1> QED BY <1>1, <1>2, <1>9, <1>11, <1>12 DEF Settled

\* realloc to another block, up to the client's own writes.
Moving(h, sz, F, l, a, b, k, blk, c, k2, k3, n, words, g, l2) ==
  /\ Well(h, sz, F, F) /\ Holds(h, sz, Used(sz, F), l)
  /\ a \in Handles /\ b \in Used(sz, F) /\ l[a].p = b + 1
  /\ blk \in Nat /\ c \in Nat /\ c \notin Used(sz, F) /\ Geared(k) /\ Gives(h, sz, F, k, c, blk)
  /\ sz[b] < blk /\ k2 = Copy(k, b + 1, c + 1, sz[b] - 1) /\ k3 = FreeBlock(k2, b + 1)
  /\ n \in Nat /\ n + 1 <= blk /\ words = Usable(k3, c + 1)
  /\ g = Fill(k3, c + 1 + l[a].n, c + 1 + words - 1, l[a].val)
  /\ l2 = [l EXCEPT ![a] = Regripped(c, words, n, l[a].val)]

\* A moving realloc keeps the heap sound and the contents.
LEMMA MovedLemma ==
  ASSUME NEW h, NEW sz, NEW F, NEW l, NEW a, NEW b, NEW k, NEW blk, NEW c, NEW k2, NEW k3, NEW n,
         NEW words, NEW g, NEW l2, Moving(h, sz, F, l, a, b, k, blk, c, k2, k3, n, words, g, l2)
  PROVE  Settled(g, l2)
<1>0. /\ Well(h, sz, F, F) /\ Holds(h, sz, Used(sz, F), l)
      /\ a \in Handles /\ b \in Used(sz, F) /\ l[a].p = b + 1
      /\ blk \in Nat /\ c \in Nat /\ c \notin Used(sz, F) /\ Geared(k) /\ Gives(h, sz, F, k, c, blk)
      /\ sz[b] < blk /\ k2 = Copy(k, b + 1, c + 1, sz[b] - 1) /\ k3 = FreeBlock(k2, b + 1)
      /\ n \in Nat /\ n + 1 <= blk /\ words = Usable(k3, c + 1)
      /\ g = Fill(k3, c + 1 + l[a].n, c + 1 + words - 1, l[a].val)
      /\ l2 = [l EXCEPT ![a] = Regripped(c, words, n, l[a].val)]
  BY DEF Moving
<1> USE <1>0
<1>1. PICK sz2, F2 : /\ Well(k, sz2, F2, F2) /\ Used(sz2, F2) = Used(sz, F) \cup {c}
                     /\ Keeps(h, sz, k, sz2, Used(sz, F)) /\ blk <= sz2[c]
  BY DEF Gives
<1>2. PICK U, U2 : U = Used(sz, F) /\ U2 = Used(sz2, F2)
  OBVIOUS
<1>3. b \in U /\ b \in U2 /\ c \in U2 /\ c \notin U /\ c # b /\ U2 \ {c} = U
  BY <1>1, <1>2
<1>4. b \in Nat /\ \A u \in U : u \in Nat /\ sz[u] \in Nat /\ u + 1 # 0 /\ (u + 1 = b + 1 <=> u = b)
  <2>1. \A u \in U : u \in Nat /\ sz[u] \in Nat
    BY <1>2, UsedLemma
  <2> QED BY <1>3, <2>1
<1>5. PICK s \in Nat : s = sz[b] /\ s = sz2[b] /\ 4 <= s
  <2>1. sz[b] \in Nat /\ 4 <= sz[b]
    BY <1>2, <1>3, UsedLemma
  <2>2. sz2[b] = sz[b]
    BY <1>1, <1>2, <1>3 DEF Keeps
  <2> QED BY <2>1, <2>2
<1>6. PICK t \in Nat : t = sz2[c] /\ s <= t /\ n < t
  <2>1. sz2[c] \in Nat
    BY <1>1, <1>2, <1>3, UsedLemma
  <2> QED BY <1>1, <1>5, <2>1
<1>7. /\ Writes(k, sz2, F2, c, k2)
      /\ \A i \in 0..(s - 2) : k2.mem[c + 1 + i] = k.mem[b + 1 + i]
  <2>1. k2 = Copy(k, b + 1, c + 1, s - 1) /\ c \in Used(sz2, F2) /\ b \in Used(sz2, F2) /\ s <= sz2[c] /\ 0 < s /\ s = sz2[b]
    BY <1>2, <1>3, <1>5, <1>6
  <2>2. Copying(k, sz2, F2, c, b, s, k2)
    BY <1>1, <2>1 DEF Copying
  <2> QED BY <2>2, CopyLemma
<1>8. Well(k2, sz2, F2, F2) /\ Keeps(k, sz2, k2, sz2, U) /\ SameRest(k, k2)
  <2>1. Well(k2, sz2, F2, F2) /\ Keeps(k, sz2, k2, sz2, Used(sz2, F2) \ {c})
    BY <1>1, <1>2, <1>3, <1>7, WritesLemma
  <2>2. SameRest(k, k2)
    BY <1>7 DEF Writes
  <2> QED BY <1>2, <1>3, <2>1, <2>2
<1>9. SameRest(k2, k3) /\ Leaves(k2, sz2, k3, Used(sz2, F2) \ {b}, Used(sz2, F2) \ {b})
  <2>1. PICK payload : payload = b + 1
    OBVIOUS
  <2>2. k3 = FreeBlock(k2, payload) /\ b \in Used(sz2, F2)
    BY <1>2, <1>3, <2>1
  <2> QED BY ONLY <1>8, <2>1, <2>2, FreeLemma
<1>10. PICK sz3, F3 : Well(k3, sz3, F3, F3) /\ Used(sz3, F3) = U2 \ {b} /\ Keeps(k2, sz2, k3, sz3, U2 \ {b})
  BY <1>2, <1>9 DEF Leaves
<1>11. PICK U3 : U3 = Used(sz3, F3) /\ U3 = (U \ {b}) \cup {c} /\ U3 \ {c} = U \ {b}
  BY <1>3, <1>10
<1>12. sz3[c] = t /\ \A w \in (c + 1)..(c + t - 1) : k3.mem[w] = k2.mem[w]
  BY <1>3, <1>6, <1>10 DEF Keeps
<1>13. l[a].p # 0
  BY <1>3, <1>4
<1>14. PICK n0 \in Nat, val \in Int : /\ n0 = l[a].n /\ val = l[a].val /\ n0 < s
                                      /\ \A w \in (b + 1)..(b + n0) : h.mem[w] = val
  <2>1. PICK d \in Used(sz, F) : /\ l[a].p = d + 1 /\ l[a] \in Grips /\ l[a].n < sz[d]
                                 /\ \A w \in (d + 1)..(d + l[a].n) : h.mem[w] = l[a].val
    BY <1>13, HeldLemma
  <2>2. d = b
    BY <1>2, <1>3, <1>4, <2>1
  <2> QED BY <1>5, <2>1, <2>2 DEF Grips
<1>15. \A w \in (c + 1)..(c + n0) : k3.mem[w] = val
  <2> SUFFICES ASSUME NEW w \in (c + 1)..(c + n0) PROVE k3.mem[w] = val
    OBVIOUS
  <2>1. PICK i \in Nat : i = w - (c + 1) /\ w = c + 1 + i /\ i < n0 /\ i \in 0..(s - 2)
    BY <1>14
  <2>2. w \in (c + 1)..(c + t - 1)
    BY <1>6, <1>14
  <2>3. k3.mem[w] = k.mem[b + 1 + i]
    BY <1>7, <1>12, <2>1, <2>2
  <2>4. b + 1 + i \in (b + 1)..(b + n0) /\ b + 1 + i \in (b + 1)..(b + s - 1)
    BY <1>4, <1>14, <2>1
  <2>5. k.mem[b + 1 + i] = h.mem[b + 1 + i]
    BY <1>1, <1>2, <1>3, <1>5, <2>4 DEF Keeps
  <2> QED BY <1>14, <2>3, <2>4, <2>5
<1>16. PICK e : e = Regripped(c, words, n, val)
  OBVIOUS
<1>17. /\ Well(g, sz3, F3, F3) /\ Keeps(k3, sz3, g, sz3, U \ {b}) /\ SameRest(k3, g)
       /\ e \in Grips /\ e.p = c + 1 /\ Grasps(g, sz3, U3, e)
  <2>1. c \in Used(sz3, F3) /\ c \in U3
    BY <1>11
  <2>2. g = Fill(k3, c + 1 + n0, c + 1 + words - 1, val) /\ n < sz3[c]
    BY <1>6, <1>12, <1>14
  <2>3. \A w \in (c + 1)..(c + n0) : w < c + sz3[c] => k3.mem[w] = val
    BY <1>15
  <2>4. /\ Well(g, sz3, F3, F3) /\ Keeps(k3, sz3, g, sz3, Used(sz3, F3) \ {c}) /\ SameRest(k3, g)
        /\ e \in Grips /\ e.p = c + 1 /\ Grasps(g, sz3, U3, e)
    <3>1. Refilling(k3, sz3, F3, c, n0, val, words, n, g, e, U3)
      BY <1>10, <1>14, <1>16, <2>1, <2>2, <2>3 DEF Refilling
    <3>2. Refilled(k3, sz3, F3, c, g, e, U3)
      BY <3>1, RefillLemma
    <3> QED BY <3>2 DEF Refilled
  <2> QED BY <1>11, <2>4
<1>18. Keeps(h, sz, g, sz3, U \ {b})
  <2>1. U \ {b} \subseteq U /\ U \ {b} \subseteq U2 \ {b}
    BY <1>3
  <2>2. Keeps(h, sz, k, sz2, U \ {b}) /\ Keeps(k, sz2, k2, sz2, U \ {b}) /\ Keeps(k2, sz2, k3, sz3, U \ {b})
    BY <1>1, <1>2, <1>8, <1>10, <2>1, KeepsSubset
  <2>3. Keeps(h, sz, k2, sz2, U \ {b})
    BY <2>2, KeepsTrans
  <2>4. Keeps(h, sz, k3, sz3, U \ {b})
    BY <2>2, <2>3, KeepsTrans
  <2> QED BY <1>17, <2>4, KeepsTrans
<1>19. Updating(h, sz, U, l, a, e, g, sz3, U3, l2)
  <2>1. {u \in U : u + 1 # l[a].p} \subseteq U \ {b}
    BY <1>4
  <2>2. Keeps(h, sz, g, sz3, {u \in U : u + 1 # l[a].p})
    BY <1>18, <2>1, KeepsSubset
  <2>3. l2 = [l EXCEPT ![a] = e]
    BY <1>14, <1>16
  <2>4. \A u \in U : u + 1 # l[a].p => u \in U3 /\ e.p # u + 1
    <3>1. \A u \in U : u # c /\ c + 1 # u + 1
      BY <1>3, <1>4
    <3> QED BY <1>4, <1>11, <1>17, <3>1
  <2>5. \A u \in U3 : u \in Nat /\ ((u \in U /\ u + 1 # l[a].p) \/ e.p = u + 1)
    BY <1>4, <1>11, <1>17
  <2> QED BY <1>2, <1>4, <1>17, <2>2, <2>3, <2>4, <2>5 DEF Updating
<1>20. Holds(g, sz3, U3, l2)
  BY <1>19, UpdateLemma
<1>21. Geared(g)
  BY <1>8, <1>9, <1>17, GearedSame
<1>22. Well(g, sz3, F3, F3) /\ Holds(g, sz3, Used(sz3, F3), l2)
  BY <1>11, <1>17, <1>20
<1> QED BY <1>21, <1>22 DEF Settled

\* The record of a handle after the client's update.
LEMMA RegripLemma ==
  ASSUME NEW old \in Grips, NEW q, NEW words, NEW n,
         NEW new, new = [old EXCEPT !.p = q, !.n = words, !.req = n]
  PROVE  new = [p |-> q, n |-> words, req |-> n, val |-> old.val]
<1>1. DOMAIN old = {"p", "n", "req", "val"}
  BY DEF Grips
<1>3. DOMAIN new = {"p", "n", "req", "val"} /\ new.p = q /\ new.n = words /\ new.req = n /\ new.val = old.val
  BY <1>1
<1>4. new = [i \in DOMAIN new |-> new[i]]
  OBVIOUS
<1>5. PICK rec : rec = [p |-> q, n |-> words, req |-> n, val |-> old.val]
  OBVIOUS
<1>6. rec = [i \in DOMAIN rec |-> rec[i]] /\ DOMAIN rec = {"p", "n", "req", "val"}
      /\ rec.p = q /\ rec.n = words /\ rec.req = n /\ rec.val = old.val
  BY <1>5
<1>7. \A i \in DOMAIN new : new[i] = rec[i]
  BY <1>3, <1>6
<1>8. new = rec
  BY <1>3, <1>4, <1>6, <1>7
<1> QED BY <1>5, <1>8

\* realloc, up to the client's own writes: in place, moved, given back or refused.
Reallocs(h, l, a, n, source, got, words, l2, g) ==
  /\ Settled(h, l) /\ a \in Handles /\ l[a].p # 0 /\ n \in Nat
  /\ got = Realloc(h, l[a].p, n, source) /\ words = Usable(got.heap, got.ret)
  /\ l2 = IF got.ret = 0 THEN [l EXCEPT ![a] = IF n = 0 THEN Nothing ELSE l[a]]
          ELSE [l EXCEPT ![a] = [l[a] EXCEPT !.p = got.ret, !.n = words, !.req = n]]
  /\ g = IF got.ret = 0 THEN got.heap
         ELSE Fill(got.heap, got.ret + l[a].n, got.ret + words - 1, l[a].val)

\* realloc keeps the heap sound and the contents, whichever way it answers.
LEMMA ReallocLemma ==
  ASSUME NEW h, NEW l, NEW a, NEW n, NEW source, NEW got, NEW words, NEW l2, NEW g,
         Reallocs(h, l, a, n, source, got, words, l2, g)
  PROVE  Settled(g, l2)
<1>0. /\ Settled(h, l) /\ a \in Handles /\ l[a].p # 0 /\ n \in Nat
      /\ got = Realloc(h, l[a].p, n, source) /\ words = Usable(got.heap, got.ret)
      /\ l2 = IF got.ret = 0 THEN [l EXCEPT ![a] = IF n = 0 THEN Nothing ELSE l[a]]
              ELSE [l EXCEPT ![a] = [l[a] EXCEPT !.p = got.ret, !.n = words, !.req = n]]
      /\ g = IF got.ret = 0 THEN got.heap
             ELSE Fill(got.heap, got.ret + l[a].n, got.ret + words - 1, l[a].val)
  BY DEF Reallocs
<1> USE <1>0
<1>1. PICK sz, F : Well(h, sz, F, F) /\ Holds(h, sz, Used(sz, F), l) /\ Geared(h)
  BY DEF Settled
<1>2. PICK b \in Used(sz, F) : l[a].p = b + 1 /\ l[a] \in Grips
  BY <1>1, HeldLemma
<1>3. PICK s \in Nat, payload \in Nat : /\ s = sz[b] /\ s = SizeAt(h, b) /\ 4 <= s /\ b \in Nat
                                        /\ payload = b + 1 /\ payload - 1 = b /\ payload # 0
  <2>1. sz[b] = SizeAt(h, b) /\ 4 <= sz[b] /\ b \in Nat /\ sz[b] \in Nat
    BY <1>1, UsedLemma
  <2>2. b + 1 \in Nat /\ b + 1 - 1 = b /\ b + 1 # 0
    BY <2>1
  <2> QED BY <2>1, <2>2
<1>4. PICK blk, x : blk = BlockSize(n) /\ x = Alloc(h, n, source)
  OBVIOUS
<1>5. got = IF n = 0 THEN [heap |-> FreeBlock(h, payload), ret |-> 0]
            ELSE IF n > Limit THEN [heap |-> h, ret |-> 0]
            ELSE IF blk <= s THEN [heap |-> ShrinkTail(h, b, blk), ret |-> payload]
            ELSE IF IsFree(h, b + s) /\ s + SizeAt(h, b + s) >= blk
              THEN [heap |-> ShrinkTail(Absorb(h, b), b, blk), ret |-> payload]
            ELSE IF x.ret = 0 THEN x
            ELSE [x EXCEPT !.heap = FreeBlock(Copy(x.heap, payload, x.ret, s - 1), payload)]
  <2> DEFINE Out(c, t) == IF n = 0 THEN [heap |-> FreeBlock(h, payload), ret |-> 0]
                          ELSE IF n > Limit THEN [heap |-> h, ret |-> 0]
                          ELSE IF blk <= t THEN [heap |-> ShrinkTail(h, c, blk), ret |-> payload]
                          ELSE IF IsFree(h, c + t) /\ t + SizeAt(h, c + t) >= blk
                            THEN [heap |-> ShrinkTail(Absorb(h, c), c, blk), ret |-> payload]
                          ELSE IF x.ret = 0 THEN x
                          ELSE [x EXCEPT !.heap = FreeBlock(Copy(@, payload, x.ret, t - 1), payload)]
  <2>1. got = Realloc(h, payload, n, source)
    BY SMTT(30), <1>2, <1>3
  <2>2. Realloc(h, payload, n, source) = Out(payload - 1, SizeAt(h, payload - 1))
    BY <1>3, <1>4 DEF Realloc
  <2>3. Out(payload - 1, SizeAt(h, payload - 1)) = Out(b, s)
    <3> HIDE DEF Out
    <3>1. payload - 1 = b /\ SizeAt(h, b) = s
      BY <1>3
    <3> QED BY ONLY <3>1
  <2>4. got = Out(b, s)
    BY ONLY <2>1, <2>2, <2>3
  <2> QED BY ONLY <2>4
<1>6. l \in [Handles -> Grips] /\ [l EXCEPT ![a] = l[a]] = l
  BY <1>1 DEF Holds
<1>7. ASSUME NEW c, got.ret = c + 1, got.ret # 0
      PROVE  l2 = [l EXCEPT ![a] = Regripped(c, words, n, l[a].val)]
  <2>1. l2 = [l EXCEPT ![a] = [l[a] EXCEPT !.p = got.ret, !.n = words, !.req = n]]
    BY <1>7
  <2>2. [l[a] EXCEPT !.p = got.ret, !.n = words, !.req = n] = Regripped(c, words, n, l[a].val)
    <3>0. PICK q : q = got.ret
      OBVIOUS
    <3>1. PICK old \in Grips : old = l[a] /\ q = got.ret /\ q = c + 1
      BY <3>0, <1>2, <1>7
    <3>2. PICK new : new = [old EXCEPT !.p = q, !.n = words, !.req = n]
      OBVIOUS
    <3>3. new = [p |-> q, n |-> words, req |-> n, val |-> old.val]
      BY ONLY ZenonT(40), old \in Grips, <3>2, RegripLemma
    <3> QED BY ONLY <3>1, <3>2, <3>3 DEF Regripped
  <2> QED BY ONLY <2>1, <2>2
<1>8. CASE n = 0
  <2>1. got = [heap |-> FreeBlock(h, payload), ret |-> 0]
    BY <1>5, <1>8
  <2>2. g = FreeBlock(h, l[a].p) /\ l2 = [l EXCEPT ![a] = Nothing]
    BY <1>2, <1>3, <1>8, <2>1
  <2> QED BY ONLY Settled(h, l), a \in Handles, l[a].p # 0, <2>2, GiveBackLemma
<1>9. CASE n # 0 /\ n > Limit
  <2>1. got = [heap |-> h, ret |-> 0]
    BY <1>5, <1>9
  <2>2. g = h /\ l2 = l
    BY <1>6, <1>9, <2>1
  <2> QED BY <2>2
<1>10. CASE n # 0 /\ ~(n > Limit)
  <2>1. n <= Limit
    BY <1>10, Geometry
  <2>2. blk \in BlockSizes /\ blk \in Evens /\ blk \in Nat /\ 4 <= blk /\ n + 1 <= blk
    BY <1>4, <2>1, BlockSizeLemma DEF BlockSizes, Evens
  <2>3. ASSUME NEW k, got = [heap |-> k, ret |-> payload], SameRest(h, k), Resized(h, sz, F, k, b, blk)
        PROVE  Settled(g, l2)
    <3>1. got.ret = b + 1 /\ got.heap = k /\ got.ret # 0
      BY <1>3, <2>3
    <3>2. words = Usable(k, b + 1)
      BY <3>1
    <3>3. g = Fill(k, b + 1 + l[a].n, b + 1 + words - 1, l[a].val)
      BY <3>1
    <3>4. l2 = [l EXCEPT ![a] = Regripped(b, words, n, l[a].val)]
      BY <1>7, <3>1
    <3> QED BY ONLY <1>1, <1>2, <2>2, <2>3, <3>2, <3>3, <3>4, a \in Handles, n \in Nat, InPlaceLemma
  <2>4. CASE blk <= s
    <3>1. PICK k : k = ShrinkTail(h, b, blk)
      OBVIOUS
    <3>2. got = [heap |-> k, ret |-> payload]
      BY <1>5, <1>10, <2>4, <3>1
    <3>3. SameRest(h, k) /\ Resized(h, sz, F, k, b, blk)
      BY <1>1, <1>3, <2>2, <2>4, <3>1, ShrinkLemma
    <3> QED BY <2>3, <3>2, <3>3
  <2>5. CASE ~(blk <= s) /\ IsFree(h, b + s) /\ s + SizeAt(h, b + s) >= blk
    <3>1. b + s \in F /\ SizeAt(h, b + s) = sz[b + s] /\ sz[b + s] \in Nat
      <4>1. Shape(h, sz, F) /\ Tiled(sz) /\ b \in DOMAIN sz /\ sz[b] # 0
        BY <1>1 DEF Well, Shape, Used
      <4>2. b + s \in DOMAIN sz
        BY <1>3, <4>1, SizeLemma
      <4>3. SizeAt(h, b + s) = sz[b + s] /\ (IsFree(h, b + s) <=> b + s \in F) /\ sz[b + s] \in Nat
        BY <4>1, <4>2, ReadLemma, SizeLemma
      <4> QED BY <2>5, <4>3
    <3>2. PICK k : k = ShrinkTail(Absorb(h, b), b, blk)
      OBVIOUS
    <3>3. got = [heap |-> k, ret |-> payload]
      BY <1>5, <1>10, <2>5, <3>2
    <3>4. SameRest(h, k) /\ Resized(h, sz, F, k, b, blk)
      <4>1. sz[b] < blk /\ blk <= sz[b] + sz[b + sz[b]] /\ b + sz[b] \in F
        BY <1>3, <2>2, <2>5, <3>1
      <4> QED BY <1>1, <2>2, <3>2, <4>1, GrowLemma
    <3> QED BY <2>3, <3>3, <3>4
  <2>6. CASE ~(blk <= s) /\ ~(IsFree(h, b + s) /\ s + SizeAt(h, b + s) >= blk)
    <3>1. Allocates(h, sz, F, x, blk)
      BY <1>1, <1>4, <2>1, AllocLemma
    <3>2. CASE x.ret = 0
      <4>1. got = x
        BY <1>5, <1>10, <2>6, <3>2
      <4>2. g = x.heap /\ l2 = l
        BY <1>6, <1>10, <3>2, <4>1
      <4>3. Geared(x.heap) /\ Leaves(h, sz, x.heap, Used(sz, F), Used(sz, F))
        BY SMTT(30), <3>1, <3>2 DEF Allocates
      <4> QED BY <1>1, <4>2, <4>3, StayLemma
    <3>3. CASE x.ret # 0
      <4>1. PICK c, k : c \in Nat /\ x.ret = c + 1 /\ c \notin Used(sz, F) /\ Gives(h, sz, F, k, c, blk) /\ Geared(k) /\ k = x.heap
        <5>1. x.ret - 1 \notin Used(sz, F) /\ x.ret \in Nat /\ Gives(h, sz, F, x.heap, x.ret - 1, blk) /\ Geared(x.heap)
          BY <3>1, <3>3 DEF Allocates
        <5>2. x.ret - 1 \in Nat /\ x.ret = (x.ret - 1) + 1
          BY <3>3, <5>1
        <5> QED BY <5>1, <5>2
      <4>2. PICK k2 : k2 = Copy(k, b + 1, c + 1, s - 1)
        OBVIOUS
      <4>3. PICK k3 : k3 = FreeBlock(k2, b + 1)
        OBVIOUS
      <4>4. got.heap = k3 /\ got.ret = c + 1
        <5>1. got = [x EXCEPT !.heap = FreeBlock(Copy(x.heap, payload, x.ret, s - 1), payload)]
          BY <1>5, <1>10, <2>6, <3>3
        <5>2. FreeBlock(Copy(x.heap, payload, x.ret, s - 1), payload) = k3
          BY ONLY <1>3, <4>1, <4>2, <4>3
        <5>3. DOMAIN x = {"heap", "ret"}
          BY <1>4, AllocRecord
        <5> QED BY ONLY <4>1, <5>1, <5>2, <5>3
      <4>5. words = Usable(k3, c + 1)
        BY <4>4
      <4>6. got.ret # 0
        BY <4>1, <4>4
      <4>7. g = Fill(k3, c + 1 + l[a].n, c + 1 + words - 1, l[a].val)
        BY <4>4, <4>6
      <4>8. l2 = [l EXCEPT ![a] = Regripped(c, words, n, l[a].val)]
        BY <1>7, <4>4, <4>6
      <4>9. k2 = Copy(k, b + 1, c + 1, sz[b] - 1) /\ sz[b] < blk
        BY <1>3, <2>2, <2>6, <4>2
      <4>10. Moving(h, sz, F, l, a, b, k, blk, c, k2, k3, n, words, g, l2)
        BY ONLY <1>1, <1>2, <2>2, <4>1, <4>3, <4>5, <4>7, <4>8, <4>9, a \in Handles, n \in Nat DEF Moving
      <4> QED BY <4>10, MovedLemma
    <3> QED BY <3>2, <3>3
  <2> QED BY <2>4, <2>5, <2>6
<1> QED BY <1>8, <1>9, <1>10

\* The inductive invariant: the heap is well formed, and the client holds its used blocks.
IInv == Settled(heap, live)

\* Initially there are no blocks, and none is held.
LEMMA InitIInv == Init => IInv
<1> SUFFICES ASSUME Init PROVE IInv
  OBVIOUS
<1>1. PICK h, l : h = heap /\ l = live
  OBVIOUS
<1>2. /\ h = [mem |-> [w \in 1..MemWords |-> Junk], bins |-> [i \in 0..(NBINS - 1) |-> 0],
              ctl |-> 0, next |-> 0, total |-> 0, regions |-> <<>>, brk |-> 2, trap |-> FALSE]
      /\ l = [a \in Handles |-> Nothing]
  BY <1>1 DEF Init
<1>3. PICK sz : sz = [c \in {} |-> 0]
  OBVIOUS
<1>4. DOMAIN sz = {}
  BY <1>3
<1>5. /\ h.mem = [w \in 1..MemWords |-> Junk] /\ h.bins = [i \in 0..(NBINS - 1) |-> 0]
      /\ h.ctl = 0 /\ h.next = 0 /\ h.total = 0 /\ h.regions = <<>> /\ h.brk = 2 /\ h.trap = FALSE
  BY <1>2
<1>6. h \in Heaps
  <2>1. h.mem \in [1..MemWords -> Int]
    BY <1>5 DEF Junk
  <2>2. h.bins \in [0..(NBINS - 1) -> Nat]
    BY <1>5
  <2>3. PICK m, n : m = h.mem /\ n = h.bins
    OBVIOUS
  <2>4. h = [mem |-> m, bins |-> n, ctl |-> 0, next |-> 0, total |-> 0, regions |-> <<>>, brk |-> 2, trap |-> FALSE]
    BY <1>2, <1>5, <2>3
  <2>5. <<>> \in Seq([base : Nat, epi : Nat, words : Nat])
    OBVIOUS
  <2> QED BY <2>1, <2>2, <2>3, <2>4, <2>5 DEF Heaps
<1>7. Geared(h)
  <2>1. 0 \in Evens /\ 2 \in Evens
    BY DEF Evens
  <2> QED BY <1>5, <2>1 DEF Geared
<1>8. Well(h, sz, {}, {})
  <2>1. DOMAIN h.regions = {}
    BY <1>5
  <2>2. Shape(h, sz, {})
    BY <1>4, <1>6, <2>1 DEF Shape, Tiled, Regioned, Spaced, Tagged
  <2>3. Linked(h.mem, h.bins, sz, {}, <<>>, 0)
    BY <1>5 DEF Linked
  <2> QED BY <2>2, <2>3 DEF Well, Listed
<1>9. Holds(h, sz, Used(sz, {}), l)
  <2>1. Used(sz, {}) = {}
    BY <1>4 DEF Used
  <2>2. Nothing \in Grips /\ Nothing.p = 0
    BY DEF Nothing, Grips
  <2>3. l \in [Handles -> Grips] /\ \A a \in Handles : l[a].p = 0
    BY <1>2, <2>2
  <2> QED BY <2>1, <2>3 DEF Holds, Grasps
<1> QED BY <1>1, <1>7, <1>8, <1>9 DEF IInv, Settled

\* The first handle that holds nothing.
LEMMA UnusedLemma ==
  ASSUME Unused # {}
  PROVE  Min(Unused) \in Handles /\ live[Min(Unused)].p = 0
<1>1. Unused \subseteq Handles /\ Handles \subseteq Nat
  BY Client DEF Unused
<1>2. Min(Unused) \in Unused
  BY <1>1, MinLemma
<1> QED BY <1>2 DEF Unused

\* malloc, and what the client writes into the block, keep the invariant.
LEMMA MallocStep ==
  ASSUME IInv, NEW n \in Sizes, NEW source, Malloc(n, source)
  PROVE  IInv'
<1>1. PICK a, got : a = Min(Unused) /\ got = Alloc(heap, n, source)
  OBVIOUS
<1>2. PICK words, l2 : words = Usable(got.heap, got.ret) /\ l2 = live'
  OBVIOUS
<1>3. PICK g : g = Fill(got.heap, got.ret, got.ret + words - 1, -a)
  OBVIOUS
<1>4. /\ l2 = [live EXCEPT ![a] = IF got.ret = 0 THEN Nothing
                                  ELSE [p |-> got.ret, n |-> words, req |-> n, val |-> -a]]
      /\ heap' = Scrub(g, l2) /\ Unused # {}
  BY <1>1, <1>2, <1>3 DEF Malloc
<1>5. a \in Handles /\ live[a].p = 0 /\ n \in Nat
  BY <1>1, <1>4, UnusedLemma, Client
<1>6. PICK h, l : h = heap /\ l = live
  OBVIOUS
<1>7. Settled(h, l)
  BY <1>6 DEF IInv
<1>8. Settled(g, l2)
  <2>1. Mallocs(h, l, a, n, source, got, words, l2, g)
    BY <1>1, <1>2, <1>3, <1>4, <1>5, <1>6, <1>7 DEF Mallocs
  <2> QED BY <2>1, MallocLemma
<1>9. Settled(Scrub(g, l2), l2)
  BY <1>8, ScrubLemma
<1> QED BY <1>2, <1>4, <1>9 DEF IInv

\* calloc keeps the invariant.
LEMMA CallocStep ==
  ASSUME IInv, NEW e \in Products, NEW source, CallocZero(e[1], e[2], source)
  PROVE  IInv'
<1>1. PICK count \in Nat, size \in Nat : count = e[1] /\ size = e[2]
  BY Client
<1>2. PICK a, got : a = Min(Unused) /\ got = Calloc(heap, count, size, source)
  OBVIOUS
<1>3. PICK l2 : l2 = live'
  OBVIOUS
<1>4. /\ l2 = [live EXCEPT ![a] = IF got.ret = 0 THEN Nothing
                 ELSE [p |-> got.ret, n |-> count * size, req |-> count * size, val |-> 0]]
      /\ heap' = Scrub(got.heap, l2) /\ Unused # {}
  BY <1>1, <1>2, <1>3 DEF CallocZero
<1>5. a \in Handles /\ live[a].p = 0
  BY <1>2, <1>4, UnusedLemma
<1>6. PICK h, l : h = heap /\ l = live
  OBVIOUS
<1>7. Settled(h, l)
  BY <1>6 DEF IInv
<1>8. PICK g : g = got.heap
  OBVIOUS
<1>9. Settled(g, l2)
  <2>1. Callocs(h, l, a, count, size, source, got, l2)
    BY <1>1, <1>2, <1>4, <1>5, <1>6, <1>7 DEF Callocs
  <2> QED BY <1>8, <2>1, CallocLemma
<1>10. Settled(Scrub(g, l2), l2)
  BY <1>9, ScrubLemma
<1> QED BY <1>3, <1>4, <1>8, <1>10 DEF IInv

\* free keeps the invariant.
LEMMA FreeStep ==
  ASSUME IInv, NEW a \in Handles, Free(a)
  PROVE  IInv'
<1>1. PICK h, l, l2 : h = heap /\ l = live /\ l2 = live'
  OBVIOUS
<1>2. PICK g : g = FreeBlock(h, l[a].p)
  OBVIOUS
<1>3. l[a].p # 0 /\ l2 = [l EXCEPT ![a] = Nothing] /\ heap' = Scrub(g, l2)
  BY <1>1, <1>2 DEF Free
<1>4. Settled(h, l)
  BY <1>1 DEF IInv
<1>5. Settled(g, l2)
  BY <1>2, <1>3, <1>4, GiveBackLemma
<1>6. Settled(Scrub(g, l2), l2)
  BY <1>5, ScrubLemma
<1> QED BY <1>1, <1>3, <1>6 DEF IInv

\* realloc, in place or not, and what the client writes, keep the invariant.
LEMMA ResizeStep ==
  ASSUME IInv, NEW a \in Handles, NEW n \in Sizes \cup {0}, NEW source, Resize(a, n, source)
  PROVE  IInv'
<1>1. PICK h, l, l2 : h = heap /\ l = live /\ l2 = live'
  OBVIOUS
<1>2. PICK got : got = Realloc(h, l[a].p, n, source)
  OBVIOUS
<1>3. PICK words : words = Usable(got.heap, got.ret)
  OBVIOUS
<1>4. PICK g : g = IF got.ret = 0 THEN got.heap
                   ELSE Fill(got.heap, got.ret + l[a].n, got.ret + words - 1, l[a].val)
  OBVIOUS
<1>5. /\ l[a].p # 0 /\ heap' = Scrub(g, l2)
      /\ l2 = IF got.ret = 0 THEN [l EXCEPT ![a] = IF n = 0 THEN Nothing ELSE l[a]]
              ELSE [l EXCEPT ![a] = [l[a] EXCEPT !.p = got.ret, !.n = words, !.req = n]]
  <2>1. l[a].p # 0 /\ heap' = Scrub(Gained(l[a], got), l2) /\ l2 = [l EXCEPT ![a] = Kept(l[a], n, got)]
    BY <1>1, <1>2 DEF Resize
  <2>2. g = Gained(l[a], got)
    BY <1>3, <1>4 DEF Gained
  <2>3. l2 = IF got.ret = 0 THEN [l EXCEPT ![a] = IF n = 0 THEN Nothing ELSE l[a]]
             ELSE [l EXCEPT ![a] = [l[a] EXCEPT !.p = got.ret, !.n = words, !.req = n]]
    BY <1>3, <2>1 DEF Kept
  <2> QED BY <2>1, <2>2, <2>3
<1>6. Settled(h, l) /\ n \in Nat
  BY <1>1, Client DEF IInv
<1>7. Settled(g, l2)
  <2>1. Reallocs(h, l, a, n, source, got, words, l2, g)
    BY ONLY a \in Handles, <1>2, <1>3, <1>4, <1>5, <1>6 DEF Reallocs
  <2> QED BY <2>1, ReallocLemma
<1>8. Settled(Scrub(g, l2), l2)
  BY <1>7, ScrubLemma
<1> QED BY <1>1, <1>5, <1>8 DEF IInv

\* Every call of the client keeps the invariant.
THEOREM Invariance == Spec => []IInv
<1>1. IInv /\ [Next]_vars => IInv'
  <2> SUFFICES ASSUME IInv, [Next]_vars PROVE IInv'
    OBVIOUS
  <2>1. ASSUME NEW n \in Sizes, NEW source, Malloc(n, source) PROVE IInv'
    BY <2>1, MallocStep
  <2>2. ASSUME NEW e \in Products, NEW source, CallocZero(e[1], e[2], source) PROVE IInv'
    BY <2>2, CallocStep
  <2>3. ASSUME NEW a \in Handles, Free(a) PROVE IInv'
    BY <2>3, FreeStep
  <2>4. ASSUME NEW a \in Handles, NEW n \in Sizes \cup {0}, NEW source, Resize(a, n, source) PROVE IInv'
    BY <2>4, ResizeStep
  <2>5. CASE UNCHANGED vars
    BY <2>5 DEF vars, IInv
  <2> QED BY <2>1, <2>2, <2>3, <2>4, <2>5 DEF Next
<1> QED BY InitIInv, <1>1, PTL DEF Spec

\* A search fails only when no free block is large enough, and never returns one that is
\* too small: small bins need no inspection, and the walk of a large bin loses no block.
THEOREM Search == Spec => []FindSound
<1>1. IInv => FindSound
  <2> SUFFICES ASSUME IInv PROVE FindSound
    OBVIOUS
  <2>1. PICK h, sz, F : h = heap /\ Well(h, sz, F, F)
    BY DEF IInv, Settled
  <2>2. FreeBlocks = F
    BY <2>1, BlocksLemma DEF Well, FreeBlocks, Blocks
  <2>3. ASSUME NEW n \in Sizes, n <= Limit, NEW blk, blk = BlockSize(n), NEW b, b = Find(h, blk)
        PROVE  IF b = 0 THEN \A f \in FreeBlocks : SizeAt(h, f) < blk
                        ELSE b \in FreeBlocks /\ SizeAt(h, b) >= blk
    <3>1. n \in Nat
      BY Client
    <3>2. blk \in BlockSizes
      BY <2>3, <3>1, BlockSizeLemma
    <3>3. Found(sz, F, blk, b)
      BY <2>1, <2>3, <3>2, FindLemma
    <3>4. \A f \in F : SizeAt(h, f) = sz[f] /\ sz[f] \in Nat
      <4> SUFFICES ASSUME NEW f \in F PROVE SizeAt(h, f) = sz[f] /\ sz[f] \in Nat
        OBVIOUS
      <4>1. Shape(h, sz, F) /\ Tiled(sz) /\ f \in DOMAIN sz
        BY <2>1 DEF Well, Shape, Spaced
      <4> QED BY <4>1, ReadLemma, SizeLemma
    <3>5. blk \in Nat
      BY <3>2 DEF BlockSizes, Evens
    <3> QED BY <2>2, <3>3, <3>4, <3>5 DEF Found
  <2> QED BY <2>1, <2>3 DEF FindSound
<1> QED BY <1>1, Invariance, PTL

\* What the client holds is exactly the allocated blocks, each large enough and with the
\* contents it left there, and no call traps.
THEOREM Contents == Spec => []ContentsKept
<1>1. IInv => ContentsKept
  <2> SUFFICES ASSUME IInv PROVE ContentsKept
    OBVIOUS
  <2>1. PICK h, l, sz, F : /\ h = heap /\ l = live /\ Well(h, sz, F, F) /\ Geared(h)
                           /\ Holds(h, sz, Used(sz, F), l)
    BY DEF IInv, Settled
  <2>2. ~heap.trap
    BY <2>1 DEF Geared
  <2>3. Handles \ Unused = {a \in Handles : l[a].p # 0}
    BY <2>1 DEF Unused
  <2>4. PICK U : U = Used(sz, F)
    OBVIOUS
  <2>5. Blocks \ FreeBlocks = U
    BY <2>1, <2>4, BlocksLemma DEF Well, FreeBlocks, Blocks
  <2>6. ASSUME NEW a \in Handles, l[a].p # 0
        PROVE  /\ l[a].p - 1 \in U /\ l[a].req <= Usable(h, l[a].p)
               /\ \A w \in l[a].p..(l[a].p + l[a].n - 1) : h.mem[w] = l[a].val
    <3>1. PICK b \in U : /\ l[a].p = b + 1 /\ l[a] \in Grips /\ l[a].req < sz[b]
      BY <2>1, <2>4, <2>6, HeldLemma
    <3>2. b \in Nat /\ sz[b] \in Nat /\ Usable(h, b + 1) = sz[b] - 1
      BY <2>1, <2>4, <3>1, UsedLemma
    <3>3. PICK r \in Nat : r = l[a].req
      BY <3>1 DEF Grips
    <3>4. r <= sz[b] - 1 /\ b + 1 - 1 = b
      BY <3>1, <3>2, <3>3
    <3>5. \A w \in l[a].p..(l[a].p + l[a].n - 1) : h.mem[w] = l[a].val
      BY <2>1, <2>6 DEF Holds, Grasps
    <3> QED BY <3>1, <3>2, <3>3, <3>4, <3>5
  <2>7. {live[a].p - 1 : a \in Handles \ Unused} = Blocks \ FreeBlocks
    <3>1. \A u \in U : \E a \in Handles \ Unused : l[a].p - 1 = u
      <4> SUFFICES ASSUME NEW u \in U PROVE \E a \in Handles \ Unused : l[a].p - 1 = u
        OBVIOUS
      <4>1. PICK a \in Handles : l[a].p = u + 1
        BY <2>1, <2>4 DEF Holds
      <4>2. u \in Nat
        BY <2>1, <2>4, UsedLemma
      <4> QED BY <2>3, <4>1, <4>2
    <3>2. \A a \in Handles \ Unused : l[a].p - 1 \in U
      BY <2>3, <2>6
    <3> QED BY <2>1, <2>5, <3>1, <3>2
  <2>8. \A a \in Handles \ Unused :
          /\ live[a].req <= Usable(heap, live[a].p)
          /\ \A g \in Handles \ (Unused \cup {a}) : live[g].p # live[a].p
          /\ \A w \in live[a].p..(live[a].p + live[a].n - 1) : heap.mem[w] = live[a].val
    <3> SUFFICES ASSUME NEW a \in Handles \ Unused
                 PROVE  /\ l[a].req <= Usable(h, l[a].p)
                        /\ \A g \in Handles \ (Unused \cup {a}) : l[g].p # l[a].p
                        /\ \A w \in l[a].p..(l[a].p + l[a].n - 1) : h.mem[w] = l[a].val
      BY <2>1
    <3>1. a \in Handles /\ l[a].p # 0
      BY <2>3
    <3>2. \A g \in Handles \ (Unused \cup {a}) : l[g].p # l[a].p
      BY <2>1, <3>1 DEF Holds
    <3> QED BY <2>6, <3>1, <3>2
  <2> QED BY <2>2, <2>7, <2>8 DEF ContentsKept
<1> QED BY <1>1, Invariance, PTL

\* A sequence without repetitions has as many elements as its range.
LEMMA RangeLemma ==
  ASSUME NEW S, NEW s \in Seq(S), \A j, k \in DOMAIN s : s[j] = s[k] => j = k,
         NEW T, T = {s[k] : k \in DOMAIN s}
  PROVE  Cardinality(T) = Len(s)
<1>1. Len(s) \in Nat /\ DOMAIN s = 1..Len(s)
  OBVIOUS
<1>0. PICK D : D = DOMAIN s
  BY SMTT(30)
<1>2. PICK n \in Nat : n = Len(s) /\ D = 1..n /\ D = DOMAIN s
  BY <1>0, <1>1
<1>3. IsFiniteSet(D) /\ Cardinality(D) = n
  <2>1. PICK a \in Int, b \in Int : a = 1 /\ b = n
    OBVIOUS
  <2>2. IsFiniteSet(a..b) /\ Cardinality(a..b) = IF a > b THEN 0 ELSE b - a + 1
    BY FS_Interval
  <2> QED BY <1>2, <2>1, <2>2
<1>4. PICK f : f = [k \in D |-> s[k]]
  OBVIOUS
<1>5. f \in Bijection(D, T)
  <2>1. f \in [D -> T] /\ \A k \in D : f[k] = s[k]
    BY <1>2, <1>4
  <2>2. \A j, k \in D : f[j] = f[k] => j = k
    BY <1>2, <2>1
  <2>3. \A t \in T : \E k \in D : f[k] = t
    BY <1>2, <2>1
  <2> QED BY <2>1, <2>2, <2>3 DEF Bijection, Injection, Surjection, IsInjective
<1>6. ExistsBijection(D, T)
  BY <1>5 DEF ExistsBijection
<1>7. Cardinality(T) = Cardinality(D)
  BY <1>3, <1>6, FS_Bijection
<1> QED BY <1>2, <1>3, <1>7

\* One list is right: its blocks are those of the bin, each once, and the back links match.
OneList(h, i, list) ==
  /\ {list[k] : k \in DOMAIN list} = {b \in FreeBlocks : Bin(SizeAt(h, b)) = i}
  /\ Cardinality({list[k] : k \in DOMAIN list}) = Len(list)
  /\ \A k \in DOMAIN list : h.mem[list[k] + 2] = IF k = 1 THEN 0 ELSE list[k - 1]

\* Every list the code walks is right.
LEMMA OneListLemma ==
  ASSUME IInv, NEW i \in 0..(NBINS - 1), NEW list, list = ListOf(heap, i)
  PROVE  OneList(heap, i, list)
<1>1. PICK h, sz, F : h = heap /\ Well(h, sz, F, F)
  BY DEF IInv, Settled
<1>2. FreeBlocks = F
  BY <1>1, BlocksLemma DEF Well, FreeBlocks, Blocks
<1>3. \A f \in F : SizeAt(h, f) = sz[f]
  <2> SUFFICES ASSUME NEW f \in F PROVE SizeAt(h, f) = sz[f]
    OBVIOUS
  <2>1. Shape(h, sz, F) /\ f \in DOMAIN sz
    BY <1>1 DEF Well, Shape, Spaced
  <2> QED BY <2>1, ReadLemma
<1>4. IsList(h, sz, F, i, list)
  BY <1>1, ListLemma
<1>5. list \in Seq(F) /\ \A k \in DOMAIN list : list[k] \in F
  BY <1>4 DEF IsList
<1>6. PICK on : on = {list[k] : k \in DOMAIN list}
  OBVIOUS
<1>7. on = {b \in F : Bin(sz[b]) = i}
  BY <1>4, <1>5, <1>6 DEF IsList
<1>8. on = {b \in FreeBlocks : Bin(SizeAt(h, b)) = i}
  BY <1>2, <1>3, <1>7
<1>9. Cardinality(on) = Len(list)
  <2>1. \A j, k \in DOMAIN list : list[j] = list[k] => j = k
    BY <1>4 DEF IsList
  <2> QED BY <1>5, <1>6, <2>1, RangeLemma
<1>10. \A k \in DOMAIN list : h.mem[list[k] + 2] = IF k = 1 THEN 0 ELSE list[k - 1]
  BY <1>4 DEF IsList
<1> QED BY ONLY <1>1, <1>6, <1>8, <1>9, <1>10 DEF OneList

\* The free lists hold every free block once, in the bin its size selects, and the back
\* links match.
THEOREM FreeLists == Spec => []ListsExact
<1>1. IInv => ListsExact
  <2> SUFFICES ASSUME IInv PROVE ListsExact
    OBVIOUS
  <2> DEFINE lists == [i \in 0..(NBINS - 1) |-> ListOf(heap, i)]
  <2>1. \A i \in 0..(NBINS - 1) : OneList(heap, i, lists[i])
    <3> SUFFICES ASSUME NEW i \in 0..(NBINS - 1) PROVE OneList(heap, i, lists[i])
      OBVIOUS
    <3>1. PICK list : list = ListOf(heap, i)
      OBVIOUS
    <3>2. lists[i] = list
      BY <3>1
    <3>3. OneList(heap, i, list)
      BY <3>1, OneListLemma
    <3> HIDE DEF lists
    <3> QED BY ONLY <3>2, <3>3
  <2>2. \A i \in 0..(NBINS - 1) :
          /\ {lists[i][k] : k \in DOMAIN lists[i]} = {b \in FreeBlocks : Bin(SizeAt(heap, b)) = i}
          /\ Cardinality({lists[i][k] : k \in DOMAIN lists[i]}) = Len(lists[i])
          /\ \A k \in DOMAIN lists[i] : heap.mem[lists[i][k] + 2] = IF k = 1 THEN 0 ELSE lists[i][k - 1]
    <3> HIDE DEF lists
    <3> QED BY ONLY <2>1 DEF OneList
  <2> QED BY ONLY <2>2 DEF ListsExact
<1> QED BY <1>1, Invariance, PTL

\* The words of the blocks of C.
WordsOf(sz, C) == UNION {c..(c + sz[c] - 1) : c \in C}

\* Runs of words that do not overlap, and the pairs that count them.
Spreading(D, f, len, S, T) ==
  /\ \A d \in D : f[d] \in Nat /\ len[d] \in Nat
  /\ \A d, e \in D : d = e \/ f[d] + len[d] <= f[e] \/ f[e] + len[e] <= f[d]
  /\ S = UNION {{d} \X (1..len[d]) : d \in D}
  /\ T = UNION {f[d]..(f[d] + len[d] - 1) : d \in D}
  /\ IsFiniteSet(T)

\* Counting the words of blocks one by one, or block by block, comes to the same.
LEMMA SpreadLemma ==
  ASSUME NEW D, NEW f, NEW len, NEW S, NEW T, Spreading(D, f, len, S, T)
  PROVE  Cardinality(S) = Cardinality(T)
<1>0. /\ \A d \in D : f[d] \in Nat /\ len[d] \in Nat
      /\ \A d, e \in D : d = e \/ f[d] + len[d] <= f[e] \/ f[e] + len[e] <= f[d]
      /\ S = UNION {{d} \X (1..len[d]) : d \in D}
      /\ T = UNION {f[d]..(f[d] + len[d] - 1) : d \in D}
      /\ IsFiniteSet(T)
  BY DEF Spreading
<1>1. \A x \in S : /\ x[1] \in D /\ x[2] \in 1..len[x[1]] /\ x = <<x[1], x[2]>>
                   /\ f[x[1]] + x[2] - 1 \in f[x[1]]..(f[x[1]] + len[x[1]] - 1)
  <2> SUFFICES ASSUME NEW x \in S
               PROVE  /\ x[1] \in D /\ x[2] \in 1..len[x[1]] /\ x = <<x[1], x[2]>>
                      /\ f[x[1]] + x[2] - 1 \in f[x[1]]..(f[x[1]] + len[x[1]] - 1)
    OBVIOUS
  <2>1. PICK d \in D : x \in {d} \X (1..len[d])
    BY <1>0
  <2>2. PICK k \in 1..len[d] : x = <<d, k>>
    BY <2>1
  <2>3. f[d] \in Nat /\ len[d] \in Nat
    BY <1>0
  <2>4. PICK u \in Nat, v \in Nat : u = f[d] /\ v = len[d]
    BY <2>3
  <2>5. u + k - 1 \in u..(u + v - 1)
    BY <2>4
  <2> QED BY <2>2, <2>4, <2>5
<1>2. PICK g : g = [x \in S |-> f[x[1]] + x[2] - 1]
  OBVIOUS
<1>3. g \in [S -> T] /\ \A x \in S : g[x] = f[x[1]] + x[2] - 1
  <2>1. \A x \in S : f[x[1]] + x[2] - 1 \in T
    BY <1>0, <1>1
  <2> QED BY <1>2, <2>1
<1>4. \A x, y \in S : g[x] = g[y] => x = y
  <2> SUFFICES ASSUME NEW x \in S, NEW y \in S, g[x] = g[y] PROVE x = y
    OBVIOUS
  <2>1. PICK d \in D, e \in D : d = x[1] /\ e = y[1]
    BY <1>1
  <2>2. PICK i, j : i = x[2] /\ j = y[2] /\ i \in 1..len[d] /\ j \in 1..len[e] /\ x = <<d, i>> /\ y = <<e, j>>
    BY <1>1, <2>1
  <2>3. PICK u \in Nat, v \in Nat, s \in Nat, t \in Nat : u = f[d] /\ v = f[e] /\ s = len[d] /\ t = len[e]
    BY <1>0
  <2>4. u + i - 1 = v + j - 1 /\ i \in 1..s /\ j \in 1..t
    BY <1>3, <2>1, <2>2, <2>3
  <2>5. d = e \/ u + s <= v \/ v + t <= u
    BY <1>0, <2>3
  <2>6. ~(u + s <= v) /\ ~(v + t <= u)
    BY <2>3, <2>4
  <2>7. d = e
    BY <2>5, <2>6
  <2>8. i = j
    BY <2>3, <2>4, <2>7
  <2> QED BY <2>2, <2>7, <2>8
<1>5. \A w \in T : \E x \in S : g[x] = w
  <2> SUFFICES ASSUME NEW w \in T PROVE \E x \in S : g[x] = w
    OBVIOUS
  <2>1. PICK d \in D : w \in f[d]..(f[d] + len[d] - 1)
    BY <1>0
  <2>2. PICK u \in Nat, v \in Nat : u = f[d] /\ v = len[d]
    BY <1>0
  <2>3. PICK k \in 1..v : k = w - u + 1 /\ u + k - 1 = w
    BY <2>1, <2>2
  <2>4. PICK x : x = <<d, k>>
    OBVIOUS
  <2>5. x \in S /\ x[1] = d /\ x[2] = k
    BY <1>0, <2>2, <2>4
  <2> QED BY <1>3, <2>2, <2>3, <2>5
<1>6. g \in Bijection(S, T)
  BY <1>3, <1>4, <1>5 DEF Bijection, Injection, Surjection, IsInjective
<1>7. ExistsBijection(S, T)
  BY <1>6 DEF ExistsBijection
<1>8. ExistsBijection(T, S)
  BY <1>7, Fun_ExistsBijSymmetric
<1> QED BY <1>0, <1>8, FS_Bijection

\* The blocks of the regions leave no word out.
LEMMA CoverLemma ==
  ASSUME NEW h, NEW sz, NEW F, Shape(h, sz, F)
  PROVE  Extent(h.regions) = WordsOf(sz, F \cup Used(sz, F))
<1>1. h \in Heaps /\ Tiled(sz) /\ Regioned(h.regions, h.brk, sz) /\ Spaced(sz, F)
  BY DEF Shape
<1>2. PICK rs : rs = h.regions
  OBVIOUS
<1>3. \A c \in DOMAIN sz : c \in F \cup Used(sz, F) <=> sz[c] # 0
  BY <1>1 DEF Spaced, Used
<1>4. F \cup Used(sz, F) \subseteq DOMAIN sz
  BY <1>1 DEF Spaced, Used
<1>5. \A i \in DOMAIN rs : rs[i].base \in Nat /\ rs[i].epi \in Nat
  BY <1>1, <1>2, RegionType
<1>6. ASSUME NEW w \in Extent(rs) PROVE w \in WordsOf(sz, F \cup Used(sz, F))
  <2>1. PICK i \in DOMAIN rs : w \in rs[i].base..(rs[i].epi - 1)
    BY <1>6 DEF Extent
  <2>2. PICK lo \in Nat, hi \in Nat : lo = rs[i].base /\ hi = rs[i].epi
    BY <1>5
  <2>3. w \in Nat /\ lo <= w /\ w < hi
    BY <2>1, <2>2
  <2>4. PICK T : T = {c \in DOMAIN sz : c <= w}
    OBVIOUS
  <2>5. \A c \in DOMAIN sz : c \in Nat
    BY <1>1, SizeLemma
  <2>6. lo \in T
    BY <1>1, <1>2, <2>2, <2>3, <2>4 DEF Regioned
  <2>7. PICK c \in T : \A d \in T : d <= c
    <3>1. T \subseteq Nat /\ T # {} /\ \A x \in T : x <= w
      BY <2>4, <2>5, <2>6
    <3>2. Max(T) \in T /\ \A y \in T : y <= Max(T)
      BY ONLY <3>1, <2>3, BoundedMaxLemma
    <3> QED BY <3>2
  <2>8. c \in DOMAIN sz /\ c \in Nat /\ c <= w /\ lo <= c
    BY <2>4, <2>5, <2>6, <2>7
  <2>9. sz[c] # 0
    <3>1. Within(rs[i], c)
      BY <2>2, <2>3, <2>8 DEF Within
    <3>2. c # rs[i].epi
      BY <2>2, <2>3, <2>8
    <3> QED BY <1>2, <2>8, <3>1, <3>2, ZeroLemma
  <2>10. sz[c] \in Nat /\ c + sz[c] \in DOMAIN sz
    BY <1>1, <2>8, <2>9, SizeLemma
  <2>11. w < c + sz[c]
    <3> SUFFICES ASSUME ~(w < c + sz[c]) PROVE FALSE
      OBVIOUS
    <3>1. c + sz[c] <= w
      BY <2>3, <2>8, <2>10
    <3>2. c + sz[c] \in T
      BY <2>4, <2>10, <3>1
    <3>3. c + sz[c] <= c
      BY <2>7, <3>2
    <3> QED BY <2>8, <2>9, <2>10, <3>3
  <2>12. w \in c..(c + sz[c] - 1)
    BY <2>3, <2>8, <2>10, <2>11
  <2>13. c \in F \cup Used(sz, F)
    BY <1>3, <2>8, <2>9
  <2> QED BY <2>12, <2>13 DEF WordsOf
<1>7. ASSUME NEW w \in WordsOf(sz, F \cup Used(sz, F)) PROVE w \in Extent(rs)
  <2>1. PICK c \in F \cup Used(sz, F) : w \in c..(c + sz[c] - 1)
    BY <1>7 DEF WordsOf
  <2>2. c \in DOMAIN sz /\ sz[c] # 0
    BY <1>3, <1>4, <2>1
  <2>3. PICK i \in DOMAIN rs : Within(rs[i], c)
    BY <1>1, <1>2, <2>2 DEF Regioned
  <2>4. PICK lo \in Nat, hi \in Nat : lo = rs[i].base /\ hi = rs[i].epi
    BY <1>5
  <2>5. lo <= c /\ c <= hi /\ c # hi
    <3>1. c # rs[i].epi
      BY <1>2, <2>2, <2>3, ZeroLemma
    <3> QED BY <2>3, <2>4, <3>1 DEF Within
  <2>6. c \in Nat /\ sz[c] \in Nat
    BY <1>1, <2>2, SizeLemma
  <2>7. hi \in DOMAIN sz
    BY <1>1, <1>2, <2>4 DEF Regioned
  <2>8. c + sz[c] <= hi
    <3>1. c < hi
      BY <2>4, <2>5, <2>6
    <3> QED BY <1>1, <2>2, <2>7, <3>1 DEF Tiled
  <2>9. PICK s \in Nat : s = sz[c]
    BY <2>6
  <2>10. w \in lo..(hi - 1)
    BY <2>1, <2>4, <2>5, <2>6, <2>8, <2>9
  <2> QED BY <2>4, <2>10 DEF Extent
<1> QED BY <1>2, <1>6, <1>7

\* The words of the regions are those of the free blocks and those of the used ones.
LEMMA AccountLemma ==
  ASSUME NEW h, NEW sz, NEW F, Shape(h, sz, F)
  PROVE  /\ IsFiniteSet(WordsOf(sz, F)) /\ IsFiniteSet(WordsOf(sz, Used(sz, F)))
         /\ Cardinality(Extent(h.regions)) = Cardinality(WordsOf(sz, F)) + Cardinality(WordsOf(sz, Used(sz, F)))
<1>1. PICK U, X, Y : U = Used(sz, F) /\ X = WordsOf(sz, F) /\ Y = WordsOf(sz, U)
  OBVIOUS
<1>2. Tiled(sz) /\ F \subseteq DOMAIN sz /\ U \subseteq DOMAIN sz /\ (\A u \in U : u \notin F)
  BY <1>1 DEF Shape, Spaced, Used
<1>3. ASSUME NEW c \in DOMAIN sz, NEW w \in c..(c + sz[c] - 1)
      PROVE  w \in 0..MemWords
  <2>1. PICK a \in Nat, s \in Nat, m \in Nat : a = c /\ s = sz[c] /\ m = MemWords
    BY <1>2, SizeLemma, Geometry
  <2>2. s # 0 => a + s <= m
    BY <1>2, <2>1, SizeLemma
  <2>3. w \in a..(a + s - 1)
    BY <2>1
  <2> QED BY <2>1, <2>2, <2>3
<1>4. X \subseteq 0..MemWords /\ Y \subseteq 0..MemWords
  BY <1>1, <1>2, <1>3 DEF WordsOf
<1>5. IsFiniteSet(X) /\ IsFiniteSet(Y)
  <2>1. IsFiniteSet(0..MemWords)
    BY FS_Interval, Geometry
  <2> QED BY <1>4, <2>1, FS_Subset
<1>6. X \cap Y = {}
  <2> SUFFICES ASSUME NEW w \in X, w \in Y PROVE FALSE
    OBVIOUS
  <2>1. PICK f \in F : w \in f..(f + sz[f] - 1)
    BY <1>1 DEF WordsOf
  <2>2. PICK u \in U : w \in u..(u + sz[u] - 1)
    BY <1>1 DEF WordsOf
  <2>3. f \in DOMAIN sz /\ u \in DOMAIN sz /\ f # u
    BY <1>2
  <2>4. f + sz[f] <= u \/ u + sz[u] <= f
    BY <1>2, <2>3, Apart
  <2>5. PICK a \in Nat, s \in Nat, b \in Nat, t \in Nat : a = f /\ s = sz[f] /\ b = u /\ t = sz[u]
    BY <1>2, <2>3, SizeLemma
  <2>6. w \in a..(a + s - 1) /\ w \in b..(b + t - 1) /\ (a + s <= b \/ b + t <= a)
    BY <2>1, <2>2, <2>4, <2>5
  <2> QED BY <2>5, <2>6
<1>7. Extent(h.regions) = X \cup Y
  <2>1. Extent(h.regions) = WordsOf(sz, F \cup U)
    BY <1>1, CoverLemma
  <2>2. WordsOf(sz, F \cup U) = X \cup Y
    BY <1>1 DEF WordsOf
  <2> QED BY <2>1, <2>2
<1>8. Cardinality(X \cup Y) = Cardinality(X) + Cardinality(Y)
  <2>1. Cardinality(X \cup Y) = Cardinality(X) + Cardinality(Y) - Cardinality(X \cap Y)
    BY <1>5, FS_Union
  <2>2. Cardinality(X \cap Y) = 0
    BY <1>6, FS_EmptySet
  <2>3. Cardinality(X) \in Nat /\ Cardinality(Y) \in Nat
    BY <1>5, FS_CardinalityType
  <2> QED BY <2>1, <2>2, <2>3
<1> QED BY <1>1, <1>5, <1>7, <1>8

\* What __heap_stats counts as free is the words of the free blocks.
LEMMA FreeWordsLemma ==
  ASSUME NEW h, NEW sz, NEW F, Well(h, sz, F, F)
  PROVE  FreeWords(h) = Cardinality(WordsOf(sz, F))
<1>1. Shape(h, sz, F) /\ Tiled(sz) /\ Spaced(sz, F)
  BY DEF Well, Shape
<1>2. \A f \in F : f \in DOMAIN sz /\ sz[f] # 0
  BY <1>1 DEF Spaced
<1>3. \A f \in F : f \in Nat /\ sz[f] \in Nat /\ sz[f] \in BlockSizes /\ SizeAt(h, f) = sz[f]
  <2> SUFFICES ASSUME NEW f \in F PROVE f \in Nat /\ sz[f] \in Nat /\ sz[f] \in BlockSizes /\ SizeAt(h, f) = sz[f]
    OBVIOUS
  <2>1. f \in DOMAIN sz /\ sz[f] # 0
    BY <1>2
  <2> QED BY <1>1, <2>1, SizeLemma, ReadLemma
<1>4. PICK on : on = UNION {{ListOf(h, i)[k] : k \in DOMAIN ListOf(h, i)} : i \in 0..(NBINS - 1)}
  OBVIOUS
<1>5. on = F
  <2>1. ASSUME NEW i \in 0..(NBINS - 1), NEW list, list = ListOf(h, i)
        PROVE  {list[k] : k \in DOMAIN list} = {f \in F : Bin(sz[f]) = i}
    <3>1. IsList(h, sz, F, i, list)
      BY <2>1, ListLemma
    <3>2. list \in Seq(F) /\ \A k \in DOMAIN list : list[k] \in F
      BY <3>1 DEF IsList
    <3> QED BY <3>1, <3>2 DEF IsList
  <2>2. \A i \in 0..(NBINS - 1) : {ListOf(h, i)[k] : k \in DOMAIN ListOf(h, i)} = {f \in F : Bin(sz[f]) = i}
    BY <2>1
  <2>3. \A x : x \in on <=> \E i \in 0..(NBINS - 1) : x \in {f \in F : Bin(sz[f]) = i}
    BY <1>4, <2>2
  <2>4. \A f \in F : Bin(sz[f]) \in 0..(NBINS - 1)
    BY <1>3, BinLemma
  <2> QED BY <2>3, <2>4
<1>6. PICK S : S = UNION {{b} \X (1..SizeAt(h, b)) : b \in on}
  OBVIOUS
<1>7. FreeWords(h) = Cardinality(S)
  BY <1>4, <1>6 DEF FreeWords
<1>8. PICK f, len : f = [b \in F |-> b] /\ len = [b \in F |-> sz[b]]
  OBVIOUS
<1>9. Spreading(F, f, len, S, WordsOf(sz, F))
  <2>1. \A d \in F : f[d] = d /\ len[d] = sz[d] /\ f[d] \in Nat /\ len[d] \in Nat
    BY <1>3, <1>8
  <2>2. \A d, e \in F : d = e \/ f[d] + len[d] <= f[e] \/ f[e] + len[e] <= f[d]
    <3> SUFFICES ASSUME NEW d \in F, NEW e \in F, d # e PROVE f[d] + len[d] <= f[e] \/ f[e] + len[e] <= f[d]
      OBVIOUS
    <3>1. d + sz[d] <= e \/ e + sz[e] <= d
      BY <1>1, <1>2, Apart
    <3> QED BY <2>1, <3>1
  <2>3. S = UNION {{d} \X (1..len[d]) : d \in F}
    <3>1. \A x : x \in S <=> \E d \in F : x \in {d} \X (1..SizeAt(h, d))
      BY <1>5, <1>6
    <3>2. \A d \in F : len[d] = SizeAt(h, d)
      BY <1>3, <2>1
    <3>3. \A x : x \in S <=> \E d \in F : x \in {d} \X (1..len[d])
      BY ONLY <3>1, <3>2
    <3> QED BY ONLY <3>3
  <2>4. WordsOf(sz, F) = UNION {f[d]..(f[d] + len[d] - 1) : d \in F}
    BY <2>1 DEF WordsOf
  <2>5. IsFiniteSet(WordsOf(sz, F))
    BY <1>1, AccountLemma
  <2> QED BY <2>1, <2>2, <2>3, <2>4, <2>5 DEF Spreading
<1> QED BY <1>7, <1>9, SpreadLemma

\* D is the handles that hold a block and S has one element for each of their words, the
\* tag counted.
Tallying(h, sz, F, l, D, S) ==
  /\ Well(h, sz, F, F) /\ Holds(h, sz, Used(sz, F), l)
  /\ D = {a \in Handles : l[a].p # 0}
  /\ S = UNION {{a} \X (1..(1 + Usable(h, l[a].p))) : a \in D}

\* The blocks the client holds, counted handle by handle, are the words in use.
LEMMA HeldWordsLemma ==
  ASSUME NEW h, NEW sz, NEW F, NEW l, NEW D, NEW S, Tallying(h, sz, F, l, D, S)
  PROVE  Cardinality(S) = Cardinality(WordsOf(sz, Used(sz, F)))
<1>0. /\ Well(h, sz, F, F) /\ Holds(h, sz, Used(sz, F), l)
      /\ D = {a \in Handles : l[a].p # 0}
      /\ S = UNION {{a} \X (1..(1 + Usable(h, l[a].p))) : a \in D}
  BY DEF Tallying
<1> USE <1>0
<1>1. Shape(h, sz, F) /\ Tiled(sz)
  BY DEF Well, Shape
<1>2. PICK U : U = Used(sz, F) /\ U \subseteq DOMAIN sz
  BY DEF Used
<1>3. PICK f, len : f = [a \in D |-> l[a].p - 1] /\ len = [a \in D |-> 1 + Usable(h, l[a].p)]
  OBVIOUS
<1>4. \A a \in D : f[a] \in U /\ l[a].p = f[a] + 1 /\ f[a] \in Nat /\ len[a] = sz[f[a]] /\ len[a] \in Nat
  <2> SUFFICES ASSUME NEW a \in D PROVE f[a] \in U /\ l[a].p = f[a] + 1 /\ f[a] \in Nat /\ len[a] = sz[f[a]] /\ len[a] \in Nat
    OBVIOUS
  <2>1. PICK b \in U : l[a].p = b + 1
    BY <1>2, HeldLemma
  <2>2. b \in Nat /\ sz[b] \in Nat /\ Usable(h, b + 1) = sz[b] - 1
    BY <1>2, <2>1, UsedLemma
  <2>3. b + 1 - 1 = b /\ 1 + (sz[b] - 1) = sz[b]
    BY <2>2
  <2>4. f[a] = b /\ len[a] = sz[b]
    BY <1>3, <2>1, <2>2, <2>3
  <2> QED BY <2>1, <2>2, <2>4
<1>5. \A u \in U : \E a \in D : f[a] = u
  <2> SUFFICES ASSUME NEW u \in U PROVE \E a \in D : f[a] = u
    OBVIOUS
  <2>1. PICK a \in Handles : l[a].p = u + 1
    BY <1>2 DEF Holds
  <2>2. u \in Nat
    BY <1>2, UsedLemma
  <2>3. a \in D /\ l[a].p - 1 = u
    BY <2>1, <2>2
  <2> QED BY <1>3, <2>3
<1>6. \A a, b \in D : f[a] = f[b] => a = b
  BY <1>4 DEF Holds
<1>7. Spreading(D, f, len, S, WordsOf(sz, U))
  <2>1. \A a, b \in D : a = b \/ f[a] + len[a] <= f[b] \/ f[b] + len[b] <= f[a]
    <3> SUFFICES ASSUME NEW a \in D, NEW b \in D, a # b PROVE f[a] + len[a] <= f[b] \/ f[b] + len[b] <= f[a]
      OBVIOUS
    <3>1. f[a] # f[b] /\ f[a] \in DOMAIN sz /\ f[b] \in DOMAIN sz
      BY <1>2, <1>4, <1>6
    <3>2. f[a] + sz[f[a]] <= f[b] \/ f[b] + sz[f[b]] <= f[a]
      BY <1>1, <3>1, Apart
    <3> QED BY <1>4, <3>2
  <2>2. S = UNION {{a} \X (1..len[a]) : a \in D}
    <3>1. \A x : x \in S <=> \E a \in D : x \in {a} \X (1..(1 + Usable(h, l[a].p)))
      OBVIOUS
    <3>2. \A a \in D : len[a] = 1 + Usable(h, l[a].p)
      BY <1>3
    <3>3. \A x : x \in S <=> \E a \in D : x \in {a} \X (1..len[a])
      BY ONLY <3>1, <3>2
    <3> QED BY ONLY <3>3
  <2>3. WordsOf(sz, U) = UNION {f[a]..(f[a] + len[a] - 1) : a \in D}
    <3>1. \A w : w \in WordsOf(sz, U) <=> \E u \in U : w \in u..(u + sz[u] - 1)
      BY DEF WordsOf
    <3>2. \A w : (\E u \in U : w \in u..(u + sz[u] - 1)) <=> \E a \in D : w \in f[a]..(f[a] + len[a] - 1)
      BY <1>4, <1>5
    <3> QED BY <3>1, <3>2
  <2>4. IsFiniteSet(WordsOf(sz, U))
    BY <1>1, <1>2, AccountLemma
  <2> QED BY <1>4, <2>1, <2>2, <2>3, <2>4 DEF Spreading
<1> QED BY <1>2, <1>7, SpreadLemma

\* Which tags follow a free block, and that none does at the base of a region.
LEMMA TagsLemma ==
  ASSUME NEW h, NEW sz, NEW F, Shape(h, sz, F), NEW r \in RegionsOf(h)
  PROVE  /\ r.epi \in Walk(h, r) /\ SizeAt(h, r.epi) = 0 /\ ~IsFree(h, r.epi)
         /\ Flag(h.mem[r.base], PINUSE) = PINUSE
         /\ \A b \in Walk(h, r) \ {r.epi} :
               /\ SizeAt(h, b) >= MIN_BLOCK
               /\ (Flag(h.mem[b + SizeAt(h, b)], PINUSE) = 0) <=> IsFree(h, b)
               /\ IsFree(h, b) => h.mem[b + SizeAt(h, b) - 1] = SizeAt(h, b) /\ ~IsFree(h, b + SizeAt(h, b))
<1>1. h \in Heaps /\ Tiled(sz) /\ Regioned(h.regions, h.brk, sz) /\ Spaced(sz, F) /\ Tagged(h.mem, sz, F)
  BY DEF Shape
<1>2. PICK i \in DOMAIN h.regions : r = h.regions[i]
  BY DEF RegionsOf
<1>3. Walk(h, r) = {c \in DOMAIN sz : Within(r, c)}
  BY <1>2, WalkLemma
<1>4. PICK lo \in Nat, hi \in Nat : lo = r.base /\ hi = r.epi /\ lo \in DOMAIN sz /\ hi \in DOMAIN sz /\ lo < hi /\ sz[hi] = 0
  BY <1>1, <1>2, RegionType DEF Regioned
<1>5. hi \in Walk(h, r) /\ SizeAt(h, hi) = 0 /\ ~IsFree(h, hi)
  <2>1. hi \in Walk(h, r)
    BY <1>3, <1>4 DEF Within
  <2>2. hi \notin F
    BY <1>1, <1>4 DEF Spaced
  <2> QED BY <1>4, <2>1, <2>2, ReadLemma
<1>6. Flag(h.mem[lo], PINUSE) = PINUSE
  <2>1. lo \notin Ends(sz, F)
    <3> SUFFICES ASSUME NEW f \in F, lo = f + sz[f] PROVE FALSE
      BY DEF Ends
    <3>1. f \in DOMAIN sz /\ sz[f] # 0
      BY <1>1 DEF Spaced
    <3>2. PICK j \in DOMAIN h.regions : Within(h.regions[j], f)
      BY <1>1, <3>1 DEF Regioned
    <3>3. f # h.regions[j].epi
      BY <3>1, <3>2, ZeroLemma
    <3>4. PICK lo2 \in Nat, hi2 \in Nat : lo2 = h.regions[j].base /\ hi2 = h.regions[j].epi /\ hi2 \in DOMAIN sz
      BY <1>1, RegionType DEF Regioned
    <3>5. PICK a \in Nat, s \in Nat : a = f /\ s = sz[f] /\ 4 <= s
      BY <1>1, <3>1, SizeLemma
    <3>6. lo2 <= a /\ a < hi2
      BY <3>2, <3>3, <3>4, <3>5 DEF Within
    <3>7. a + s <= hi2
      BY <1>1, <3>1, <3>4, <3>5, <3>6 DEF Tiled
    <3>8. lo = a + s
      BY <3>5
    <3>9. j # i
      <4> SUFFICES ASSUME j = i PROVE FALSE
        OBVIOUS
      <4>1. lo2 = lo
        BY <1>2, <1>4, <3>4
      <4> QED BY <3>5, <3>6, <3>8, <4>1
    <3>10. i \in Nat /\ j \in Nat
      <4>1. PICK rs, R : rs = h.regions /\ R = [base : Nat, epi : Nat, words : Nat] /\ rs \in Seq(R)
        BY <1>1 DEF Heaps
      <4>2. DOMAIN rs = 1..Len(rs) /\ Len(rs) \in Nat
        BY ONLY <4>1, LenProperties
      <4>3. i \in DOMAIN rs /\ j \in DOMAIN rs
        BY <1>2, <3>2, <4>1
      <4> QED BY <4>2, <4>3
    <3>11. ~(i < j)
      <4> SUFFICES ASSUME i < j PROVE FALSE
        OBVIOUS
      <4>1. hi < lo2
        BY <1>1, <1>2, <1>4, <3>4 DEF Regioned
      <4> QED BY <1>4, <3>5, <3>6, <3>8, <4>1
    <3>12. ~(j < i)
      <4> SUFFICES ASSUME j < i PROVE FALSE
        OBVIOUS
      <4>1. hi2 < lo
        BY <1>1, <1>2, <1>4, <3>4 DEF Regioned
      <4> QED BY <3>4, <3>5, <3>7, <3>8, <4>1
    <3> QED BY <3>9, <3>10, <3>11, <3>12
  <2> QED BY <1>4, <2>1, ReadLemma
<1>7. ASSUME NEW b \in Walk(h, r) \ {r.epi}, NEW s, s = SizeAt(h, b)
      PROVE  /\ s >= MIN_BLOCK
             /\ (Flag(h.mem[b + s], PINUSE) = 0) <=> IsFree(h, b)
             /\ IsFree(h, b) => h.mem[b + s - 1] = s /\ ~IsFree(h, b + s)
  <2>1. b \in DOMAIN sz /\ Within(r, b) /\ b # r.epi
    BY <1>3
  <2>2. sz[b] # 0
    BY <1>2, <2>1, ZeroLemma
  <2>3. b \in Nat /\ s = sz[b] /\ s \in Nat /\ 4 <= s /\ b + s \in DOMAIN sz /\ (IsFree(h, b) <=> b \in F)
    <3>1. SizeAt(h, b) = sz[b] /\ (IsFree(h, b) <=> b \in F)
      BY <2>1, ReadLemma
    <3>2. b \in Nat /\ sz[b] \in Nat /\ 4 <= sz[b] /\ b + sz[b] \in DOMAIN sz
      BY <1>1, <2>1, <2>2, SizeLemma
    <3> QED BY <1>7, <3>1, <3>2
  <2>4. Flag(h.mem[b + s], PINUSE) = (IF b + s \in Ends(sz, F) THEN 0 ELSE 2) /\ (IsFree(h, b + s) <=> b + s \in F)
    BY <2>3, ReadLemma
  <2>5. b + s \in Ends(sz, F) <=> b \in F
    <3>1. b \in F => b + s \in Ends(sz, F)
      BY <2>3 DEF Ends
    <3>2. ASSUME NEW f \in F, b + s = f + sz[f] PROVE f = b
      <4> SUFFICES ASSUME f # b PROVE FALSE
        OBVIOUS
      <4>1. f \in DOMAIN sz /\ sz[f] # 0
        BY <1>1 DEF Spaced
      <4>2. PICK a \in Nat, t \in Nat : a = f /\ t = sz[f] /\ 4 <= t
        BY <1>1, <4>1, SizeLemma
      <4>3. a + t <= b \/ b + s <= a
        BY <1>1, <2>1, <2>3, <4>1, <4>2, Apart
      <4>4. b + s = a + t
        BY <3>2, <4>2
      <4> QED BY <2>3, <4>2, <4>3, <4>4
    <3> QED BY <3>1, <3>2 DEF Ends
  <2>6. b \in F => h.mem[b + s - 1] = s /\ b + s \notin F
    BY <1>1, <2>3 DEF Tagged, Spaced
  <2> QED BY <2>3, <2>4, <2>5, <2>6
<1> QED BY <1>4, <1>5, <1>6, <1>7

\* The tags tell the truth, no two free blocks touch, and every word taken from the source
\* is accounted for, in every state.
THEOREM Tags == Spec => []TagsTrue
<1>1. IInv => TagsTrue
  <2> SUFFICES ASSUME IInv PROVE TagsTrue
    OBVIOUS
  <2>1. PICK h, l, sz, F : /\ h = heap /\ l = live /\ Well(h, sz, F, F) /\ Geared(h)
                           /\ Holds(h, sz, Used(sz, F), l)
    BY DEF IInv, Settled
  <2>2. Shape(h, sz, F)
    BY <2>1 DEF Well
  <2>3. Accounted
    <3> SUFFICES ASSUME heap.ctl # 0
                 PROVE  heap.total = CtlWords + 2 * Len(heap.regions) + FreeWords(heap)
                          + Cardinality(UNION {{a} \X (1..(1 + Usable(heap, live[a].p))) : a \in Handles \ Unused})
      BY DEF Accounted
    <3>1. PICK D : D = {a \in Handles : l[a].p # 0}
      OBVIOUS
    <3>2. D = Handles \ Unused
      BY <2>1, <3>1 DEF Unused
    <3>3. PICK S : S = UNION {{a} \X (1..(1 + Usable(h, l[a].p))) : a \in D}
      OBVIOUS
    <3>4. S = UNION {{a} \X (1..(1 + Usable(heap, live[a].p))) : a \in Handles \ Unused}
      BY ONLY <2>1, <3>2, <3>3
    <3>5. PICK X, Y : X = WordsOf(sz, F) /\ Y = WordsOf(sz, Used(sz, F))
      OBVIOUS
    <3>6. Cardinality(S) = Cardinality(Y)
      <4>1. Tallying(h, sz, F, l, D, S)
        BY <2>1, <3>1, <3>3 DEF Tallying
      <4>2. Cardinality(S) = Cardinality(WordsOf(sz, Used(sz, F)))
        BY ONLY <4>1, HeldWordsLemma
      <4> QED BY <3>5, <4>2
    <3>7. FreeWords(h) = Cardinality(X)
      BY <2>1, <3>5, FreeWordsLemma
    <3>8. /\ Cardinality(Extent(h.regions)) = Cardinality(X) + Cardinality(Y)
          /\ Cardinality(X) \in Nat /\ Cardinality(Y) \in Nat
      BY <2>2, <3>5, AccountLemma, FS_CardinalityType
    <3>9. PICK x \in Nat, y \in Nat : x = Cardinality(X) /\ y = Cardinality(Y)
      BY <3>8
    <3>10. h.total = CtlWords + 2 * Len(h.regions) + (x + y)
      BY <2>1, <3>8, <3>9 DEF Geared, Tally
    <3>11. Len(h.regions) \in Nat /\ CtlWords \in Nat
      <4>1. h.regions \in Seq([base : Nat, epi : Nat, words : Nat])
        BY <2>2 DEF Shape, Heaps
      <4> QED BY <4>1, Geometry
    <3>12. PICK n \in Nat : n = Len(h.regions)
      BY <3>11
    <3>13. CtlWords + 2 * n + (x + y) = CtlWords + 2 * n + x + y
      BY <3>11
    <3>14. h.total = CtlWords + 2 * Len(h.regions) + x + y
      BY <3>10, <3>12, <3>13
    <3> QED BY ONLY <2>1, <3>4, <3>6, <3>7, <3>9, <3>14
  <2>4. \A r \in RegionsOf(heap) :
           /\ r.epi \in Walk(heap, r) /\ SizeAt(heap, r.epi) = 0 /\ ~IsFree(heap, r.epi)
           /\ Flag(heap.mem[r.base], PINUSE) = PINUSE
           /\ \A b \in Walk(heap, r) \ {r.epi} :
                 /\ SizeAt(heap, b) >= MIN_BLOCK
                 /\ (Flag(heap.mem[b + SizeAt(heap, b)], PINUSE) = 0) <=> IsFree(heap, b)
                 /\ IsFree(heap, b) => heap.mem[b + SizeAt(heap, b) - 1] = SizeAt(heap, b)
                                       /\ ~IsFree(heap, b + SizeAt(heap, b))
    BY <2>1, <2>2, TagsLemma
  <2> QED BY <2>3, <2>4 DEF TagsTrue
<1> QED BY <1>1, Invariance, PTL

=============================================================================
