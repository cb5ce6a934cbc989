--------------------------- MODULE HeapAllocator ---------------------------
(***************************************************************************)
(* The allocator of the linear backend (src/codegen-linear/                *)
(* heap-allocator.ts): boundary tags, segregated free lists, regions taken *)
(* from a source that may refuse, realloc in place in both directions.     *)
(*                                                                         *)
(* The memory is one array of 4-byte words; addresses and sizes are in     *)
(* words.  A block base is odd (4 mod 8 in bytes) and its size even.       *)
(* Headers, list links, footers and the client's data share that array,    *)
(* so a stale word is really there when the code reads it.                 *)
(*                                                                         *)
(*   allocated:  [size|PINUSE|INUSE] payload ...                           *)
(*   free:       [size|PINUSE] next prev ... size                          *)
(*                                                                         *)
(* Every entry point runs to its end before the next one is called: the    *)
(* module is single-threaded, so one call is one step.                     *)
(***************************************************************************)
EXTENDS Integers, FiniteSets, FiniteSetsExt, Sequences

CONSTANTS NSMALL,      \* exact-size bins                        (32)
          NLARGE,      \* power-of-two bins above them           (16)
          LargeShift,  \* log2 of the first large size           (6 words)
          CtlWords,    \* CTL_BYTES, the control block           (68)
          RegionWords, \* regionBytes, the first region          (16384)
          MaxRegion,   \* MAX_REGION_BYTES                       (2097152)
          Limit,       \* the largest request                    (0x7ffffff0)
          Modulus,     \* arithmetic wraps here                  (2^32 bytes)
          MemWords,    \* bound: words the region source owns
          Handles,     \* bound: blocks the client holds at once, 1..k
          Sizes,       \* request sizes of malloc and realloc
          Products     \* the <<count, size>> requests of calloc

(* x, nx[x], nx[nx[x]], ...; it stays where nx leads no further.            *)
Iterate(nx, x) ==
    LET at[k \in Nat] ==
            IF k = 0 THEN x
            ELSE LET last == at[k - 1] IN IF last \in DOMAIN nx THEN nx[last] ELSE last
    IN  at

Double == [n \in Nat |-> 2 * n]
Powers == Iterate(Double, 1)
Pow2(k) == Powers[k]

(* Regions are multiples of eight bytes; a request, its header and the     *)
(* least region for it do not wrap; addresses and sizes have 32 bits, 30  *)
(* for words.                                                              *)
ASSUME Geometry ==
    /\ NSMALL \in Nat \ {0} /\ NLARGE \in Nat \ {0} /\ LargeShift \in 0..29
    /\ CtlWords \in Nat /\ CtlWords >= 4 /\ CtlWords % 2 = 0 /\ MemWords \in Nat
    /\ RegionWords \in Nat /\ RegionWords % 2 = 0 /\ MaxRegion \in Nat /\ MaxRegion % 2 = 0
    /\ Pow2(LargeShift) <= 2 * NSMALL + 4
    /\ Limit \in Nat /\ Modulus \in Nat /\ Modulus % 2 = 0
    /\ Limit + 2 < Modulus /\ Modulus <= Pow2(30) /\ MemWords < Pow2(30)

ASSUME Client ==
    /\ Handles \subseteq Nat /\ IsFiniteSet(Handles)
    /\ Sizes \subseteq Nat /\ Products \subseteq Nat \X Nat

VARIABLES heap,   \* the module's memory, control block and region source
          live    \* handle -> what the client holds: payload, words, contents

vars == <<heap, live>>

MIN_BLOCK == 4
SMALL_MAX == MIN_BLOCK + 2 * (NSMALL - 1)
NBINS == NSMALL + NLARGE
INUSE == 1
PINUSE == 2

---------------------------------------------------------------------------
(* Header words: the size with two flag bits below it.                     *)

SizeOf(w) == (w \div 4) * 2
Flag(w, bit) == IF (w \div bit) % 2 = 1 THEN bit ELSE 0
Header(size, flags) == 2 * size + flags

SizeAt(h, b) == SizeOf(h.mem[b])
IsFree(h, b) == Flag(h.mem[b], INUSE) = 0

Log2(n) == CHOOSE k \in 0..29 : Pow2(k) <= n /\ n < Pow2(k + 1)

(* __heap_bin: exact bins for small sizes, ranges of powers of two above.  *)
Bin(size) ==
    IF size <= SMALL_MAX
      THEN (size - MIN_BLOCK) \div 2
      ELSE NSMALL + Min({NLARGE - 1, Log2(size) - LargeShift})

(* The block size of a request: header added, rounded up, never too small  *)
(* to be freed.                                                            *)
BlockSize(n) == Max({MIN_BLOCK, ((((n + 2) % Modulus) \div 2) * 2)})

---------------------------------------------------------------------------
(* The free lists, doubly linked through the payload of the free blocks.   *)

Insert(h, b, size) ==
    LET i == Bin(size)
        head == h.bins[i]
        linked == [h EXCEPT !.mem[b + 1] = head, !.mem[b + 2] = 0, !.bins[i] = b]
    IN  IF head = 0 THEN linked ELSE [linked EXCEPT !.mem[head + 2] = b]

(* Mutant: the back link of the next block is not updated.                 *)
UnlinkOneWay(h, b) ==
    LET nxt == h.mem[b + 1]
        prv == h.mem[b + 2]
    IN  IF prv # 0 THEN [h EXCEPT !.mem[prv + 1] = nxt]
                   ELSE [h EXCEPT !.bins[Bin(SizeAt(h, b))] = nxt]

Unlink(h, b) ==
    LET nxt == h.mem[b + 1]
        prv == h.mem[b + 2]
        passed == IF prv # 0 THEN [h EXCEPT !.mem[prv + 1] = nxt]
                             ELSE [h EXCEPT !.bins[Bin(SizeAt(h, b))] = nxt]
    IN  IF nxt = 0 THEN passed ELSE [passed EXCEPT !.mem[nxt + 2] = prv]

(* The list of a bin, as the code walks it.                                *)
ListOf(h, i) ==
    LET at == Iterate([b \in 1..(MemWords - 1) |-> h.mem[b + 1]], h.bins[i])
        len == CHOOSE k \in 0..MemWords : at[k] = 0 /\ (k = 0 \/ at[k - 1] # 0)
    IN  [k \in 1..len |-> at[k - 1]]

(* Mutant: a large bin is taken for an exact one.                          *)
FindUninspected(h, blk) ==
    LET bins == {i \in Bin(blk)..(NBINS - 1) : h.bins[i] # 0}
    IN  IF bins = {} THEN 0 ELSE h.bins[Min(bins)]

(* __heap_find: the first block that fits, bin by bin; a small bin is not  *)
(* inspected, a large one is walked.                                       *)
Find(h, blk) ==
    LET fits(i) == LET list == ListOf(h, i)
                   IN  {k \in DOMAIN list : i < NSMALL \/ SizeAt(h, list[k]) >= blk}
        bins == {i \in Bin(blk)..(NBINS - 1) : fits(i) # {}}
        first == Min(bins)
    IN  IF bins = {} THEN 0 ELSE ListOf(h, first)[Min(fits(first))]

---------------------------------------------------------------------------
(* Regions.                                                                *)

(* The region source, host malloc or memory.grow: hands out the words      *)
(* above brk, directly after the last region, or refuses.                  *)
Acquire(h, n, refused) == IF refused \/ h.brk + n > MemWords THEN 0 ELSE h.brk

(* __heap_install: one free block and an epilogue.  0 when it is too small. *)
Install(h, p, n) ==
    LET base == ((p + 1) \div 2) * 2 + 1
        epi == ((p + n - 2) \div 2) * 2 + 1
        size == epi - base
        filed == [h EXCEPT !.mem[base] = Header(size, PINUSE),
                           !.mem[base + size - 1] = size,
                           !.mem[epi] = Header(0, INUSE),
                           !.regions = Append(@, [base |-> base, epi |-> epi, words |-> n])]
    IN  IF n < MIN_BLOCK + 4 \/ epi <= base \/ size < MIN_BLOCK
          THEN [ok |-> FALSE, heap |-> h]
          ELSE [ok |-> TRUE, heap |-> Insert(filed, base, size)]

First == Max({RegionWords, CtlWords + MIN_BLOCK + 8})

(* __heap_init: the control block comes out of the first region.           *)
InitHeap(h, source) ==
    LET p == Acquire(h, First, source = "refuses")
        ctl == ((p + 1) \div 2) * 2
        taken == [h EXCEPT !.ctl = ctl, !.brk = p + First, !.total = First,
                           !.next = Min({2 * First, MaxRegion})]
    IN  IF h.ctl # 0 THEN [ok |-> TRUE, heap |-> h]
        ELSE IF p = 0 THEN [ok |-> FALSE, heap |-> h]
        ELSE Install(taken, ctl + CtlWords, p + First - ctl - CtlWords)

(* __heap_more: the geometric step, and once more at the least size that   *)
(* serves the request.                                                     *)
More(h, need, source) ==
    LET least == need + CtlWords
        want == Max({h.next, least})
        greedy == Acquire(h, want, source # "grants")
        retried == greedy = 0 /\ want > least
        size == IF retried THEN least ELSE want
        p == IF retried THEN Acquire(h, least, source = "refuses") ELSE greedy
        done == Install([h EXCEPT !.brk = p + size], p, size)
    IN  IF p = 0 THEN [ok |-> FALSE, heap |-> h]
        ELSE IF ~done.ok THEN done
        ELSE [done EXCEPT !.heap.total = @ + size,
                          !.heap.next = Min({MaxRegion, (2 * size) % Modulus})]

---------------------------------------------------------------------------
(* The entry points.  Each returns the heap and the payload, 0 for NULL.   *)

(* Mutant: a block handed out whole leaves its successor's PINUSE clear.    *)
CarveUntold(h, b, blk) ==
    LET s == SizeAt(h, b)
        rem == s - blk
        out == Unlink(h, b)
        own == Flag(out.mem[b], PINUSE) + INUSE
    IN  IF rem >= MIN_BLOCK
          THEN Insert([out EXCEPT !.mem[b] = Header(blk, own),
                                  !.mem[b + blk] = Header(rem, PINUSE),
                                  !.mem[b + s - 1] = rem], b + blk, rem)
          ELSE [out EXCEPT !.mem[b] = Header(s, own)]

(* The block b is handed out with blk of its words: the rest is split off  *)
(* when it can stand alone, otherwise the successor learns that its        *)
(* predecessor is in use.                                                  *)
Carve(h, b, blk) ==
    LET s == SizeAt(h, b)
        rem == s - blk
        out == Unlink(h, b)
        own == Flag(out.mem[b], PINUSE) + INUSE
    IN  IF rem >= MIN_BLOCK
          THEN Insert([out EXCEPT !.mem[b] = Header(blk, own),
                                  !.mem[b + blk] = Header(rem, PINUSE),
                                  !.mem[b + s - 1] = rem], b + blk, rem)
          ELSE [out EXCEPT !.mem[b] = Header(s, own),
                           !.mem[b + s] = @ - Flag(@, PINUSE) + PINUSE]

(* A region more, and the search once more.                                *)
FitAfterMore(grown, blk) ==
    [heap |-> grown.heap, b |-> IF grown.ok THEN Find(grown.heap, blk) ELSE 0]

(* A free block of blk words, 0 when there is none to be had.              *)
Fit(h, found, blk, source) ==
    IF found # 0 THEN [heap |-> h, b |-> found] ELSE FitAfterMore(More(h, blk, source), blk)

Take(fit, blk) ==
    IF fit.b = 0 THEN [heap |-> fit.heap, ret |-> 0]
                 ELSE [heap |-> Carve(fit.heap, fit.b, blk), ret |-> fit.b + 1]

AllocReady(ready, blk, source) ==
    IF ready.ok THEN Take(Fit(ready.heap, Find(ready.heap, blk), blk, source), blk)
                ELSE [heap |-> ready.heap, ret |-> 0]

(* __heap_alloc.                                                           *)
Alloc(h, n, source) ==
    IF n > Limit THEN [heap |-> h, ret |-> 0]
                 ELSE AllocReady(InitHeap(h, source), BlockSize(n), source)

(* The block b of s words together with its successor, if that is free.    *)
WithNext(h, b, s) ==
    IF IsFree(h, b + s)
      THEN [heap |-> Unlink(h, b + s), b |-> b, size |-> s + SizeAt(h, b + s)]
      ELSE [heap |-> h, b |-> b, size |-> s]

(* A block together with its predecessor, found through the footer.        *)
WithPrevious(x) ==
    LET below == x.heap.mem[x.b - 1]
    IN  IF Flag(x.heap.mem[x.b], PINUSE) = PINUSE THEN x
        ELSE [heap |-> Unlink(x.heap, x.b - below), b |-> x.b - below, size |-> x.size + below]

(* The result is filed, and its successor told.                            *)
File(x) ==
    Insert([x.heap EXCEPT !.mem[x.b] = Header(x.size, Flag(@, PINUSE)),
                          !.mem[x.b + x.size - 1] = x.size,
                          !.mem[x.b + x.size] = @ - Flag(@, PINUSE)], x.b, x.size)

(* __heap_free: trap on what is no allocated block, coalesce with the      *)
(* successor, then with the predecessor.                                   *)
FreeBlock(h, payload) ==
    LET b == payload - 1
    IN  IF payload = 0 THEN h
        ELSE IF IsFree(h, b) \/ SizeAt(h, b) < MIN_BLOCK THEN [h EXCEPT !.trap = TRUE]
        ELSE File(WithPrevious(WithNext(h, b, SizeAt(h, b))))

(* __heap_usable.                                                          *)
Usable(h, payload) == IF payload = 0 THEN 0 ELSE SizeAt(h, payload - 1) - 1

(* __heap_stats(2): the words on the free lists.                           *)
FreeWords(h) ==
    LET onLists == UNION {{ListOf(h, i)[k] : k \in DOMAIN ListOf(h, i)} : i \in 0..(NBINS - 1)}
    IN  Cardinality(UNION {{b} \X (1..SizeAt(h, b)) : b \in onLists})

Fill(h, from, to, v) == [h EXCEPT !.mem = [w \in DOMAIN @ |-> IF w \in from..to THEN v ELSE @[w]]]

(* Mutant: the product is not checked for overflow.                        *)
CallocUnchecked(h, count, size, source) ==
    LET total == (count * size) % Modulus
        got == Alloc(h, total, source)
    IN  IF got.ret = 0 THEN got ELSE [got EXCEPT !.heap = Fill(@, got.ret, got.ret + total - 1, 0)]

(* __heap_calloc.                                                          *)
Calloc(h, count, size, source) ==
    LET total == (count * size) % Modulus
        got == Alloc(h, total, source)
    IN  IF count # 0 /\ total \div count # size THEN [heap |-> h, ret |-> 0]
        ELSE IF got.ret = 0 THEN got
        ELSE [got EXCEPT !.heap = Fill(@, got.ret, got.ret + total - 1, 0)]

(* The end of an in-place realloc: the words beyond blk become a block of  *)
(* their own, marked allocated and given back through __heap_free.         *)
ShrinkTail(h, b, blk) ==
    LET s == SizeAt(h, b) IN
    IF s - blk < MIN_BLOCK THEN h
    ELSE FreeBlock([h EXCEPT !.mem[b] = Header(blk, Flag(@, PINUSE) + INUSE),
                             !.mem[b + blk] = Header(s - blk, PINUSE + INUSE)], b + blk + 1)

(* The block b takes in its free successor.                                *)
Absorb(h, b) ==
    LET nb == b + SizeAt(h, b)
        s == SizeAt(h, b) + SizeAt(h, nb)
    IN  [Unlink(h, nb) EXCEPT !.mem[b] = Header(s, Flag(@, PINUSE) + INUSE),
                              !.mem[b + s] = @ - Flag(@, PINUSE) + PINUSE]

Copy(h, from, to, n) ==
    [h EXCEPT !.mem = [w \in DOMAIN @ |-> IF w \in to..(to + n - 1) THEN @[w - to + from] ELSE @[w]]]

(* __heap_realloc.                                                         *)
Realloc(h, payload, n, source) ==
    LET b == payload - 1
        s == SizeAt(h, b)
        blk == BlockSize(n)
        nb == b + s
        got == Alloc(h, n, source)
    IN  IF payload = 0 THEN got
        ELSE IF n = 0 THEN [heap |-> FreeBlock(h, payload), ret |-> 0]
        ELSE IF n > Limit THEN [heap |-> h, ret |-> 0]
        ELSE IF blk <= s THEN [heap |-> ShrinkTail(h, b, blk), ret |-> payload]
        ELSE IF IsFree(h, nb) /\ s + SizeAt(h, nb) >= blk
          THEN [heap |-> ShrinkTail(Absorb(h, b), b, blk), ret |-> payload]
        ELSE IF got.ret = 0 THEN got
        ELSE [got EXCEPT !.heap = FreeBlock(Copy(@, payload, got.ret, s - 1), payload)]

---------------------------------------------------------------------------
RegionsOf(h) == {h.regions[i] : i \in DOMAIN h.regions}

(* The block bases met when a region is walked by its sizes.               *)
Walk(h, r) ==
    LET at == Iterate([b \in r.base..(r.epi - 1) |-> b + SizeAt(h, b)], r.base)
    IN  {at[k] : k \in 0..((r.epi - r.base) \div 2)}

BlocksOf(h) == UNION {Walk(h, r) \ {r.epi} : r \in RegionsOf(h)}

(* Words that hold no tag, no link and nothing of the client's may hold    *)
(* anything: old headers, old links, old data.  Junk stands for that; a    *)
(* read of it is neither a size nor an address.                            *)
Junk == -9

Scrub(h, held) ==
    LET blocks == BlocksOf(h)
        free == {b \in blocks : IsFree(h, b)}
        kept == blocks \cup {r.epi : r \in RegionsOf(h)}
                     \cup (UNION {{b + 1, b + 2, b + SizeAt(h, b) - 1} : b \in free})
                     \cup (UNION {held[g].p..(held[g].p + held[g].n - 1) : g \in Handles})
    IN  [h EXCEPT !.mem = [w \in DOMAIN @ |-> IF w \in kept THEN @[w] ELSE Junk]]

(* The client: an engine that holds blocks, writes all the words it was    *)
(* told are usable, and gives back what it was given.                      *)

Nothing == [p |-> 0, n |-> 0, req |-> 0, val |-> 0]

Init ==
    /\ heap = [mem |-> [w \in 1..MemWords |-> Junk], bins |-> [i \in 0..(NBINS - 1) |-> 0],
               ctl |-> 0, next |-> 0, total |-> 0, regions |-> <<>>, brk |-> 2, trap |-> FALSE]
    /\ live = [h \in Handles |-> Nothing]

(* The region source grants what it is asked for, or only small requests,  *)
(* or nothing; a call that finds a block does not ask it.                  *)
Sources(n) == IF heap.ctl # 0 /\ Find(heap, BlockSize(n)) # 0
                THEN {"grants"} ELSE {"grants", "short", "refuses"}

Unused == {h \in Handles : live[h].p = 0}

(* malloc; the client writes its own mark over the whole reservation.      *)
Malloc(n, source) ==
    /\ Unused # {}
    /\ LET h == Min(Unused)
           got == Alloc(heap, n, source)
           words == Usable(got.heap, got.ret)
       IN  /\ live' = [live EXCEPT ![h] = IF got.ret = 0 THEN Nothing
                          ELSE [p |-> got.ret, n |-> words, req |-> n, val |-> -h]]
           /\ heap' = Scrub(Fill(got.heap, got.ret, got.ret + words - 1, -h), live')

(* calloc; the client counts on zeros in all the words it asked for.       *)
CallocZero(count, size, source) ==
    /\ Unused # {}
    /\ LET h == Min(Unused)
           got == Calloc(heap, count, size, source)
       IN  /\ live' = [live EXCEPT ![h] = IF got.ret = 0 THEN Nothing
                          ELSE [p |-> got.ret, n |-> count * size, req |-> count * size, val |-> 0]]
           /\ heap' = Scrub(got.heap, live')

Free(h) ==
    /\ live[h].p # 0
    /\ live' = [live EXCEPT ![h] = Nothing]
    /\ heap' = Scrub(FreeBlock(heap, live[h].p), live')

(* realloc; on success the client fills the words it gained, on failure    *)
(* it keeps what it had.                                                   *)
Kept(old, n, got) ==
    IF got.ret # 0 THEN [old EXCEPT !.p = got.ret, !.n = Usable(got.heap, got.ret), !.req = n]
    ELSE IF n = 0 THEN Nothing ELSE old

Gained(old, got) ==
    IF got.ret = 0 THEN got.heap
    ELSE Fill(got.heap, got.ret + old.n, got.ret + Usable(got.heap, got.ret) - 1, old.val)

Resize(h, n, source) ==
    LET got == Realloc(heap, live[h].p, n, source)
    IN  /\ live[h].p # 0
        /\ live' = [live EXCEPT ![h] = Kept(live[h], n, got)]
        /\ heap' = Scrub(Gained(live[h], got), live')

Next ==
    \/ \E n \in Sizes : \E source \in Sources(n) : Malloc(n, source)
    \/ \E e \in Products : \E source \in Sources(e[1] * e[2]) : CallocZero(e[1], e[2], source)
    \/ \E h \in Handles : Free(h)
    \/ \E h \in Handles, n \in Sizes \cup {0} : \E source \in Sources(n) : Resize(h, n, source)

Spec == Init /\ [][Next]_vars

---------------------------------------------------------------------------
(* The heap, as one reads it from its words.                               *)

Blocks == BlocksOf(heap)
FreeBlocks == {b \in Blocks : IsFree(heap, b)}

(* Every word taken from the source is accounted for: control block, the   *)
(* free words __heap_stats counts, the blocks the client holds and two     *)
(* words of overhead per region; the total it reports is what was really   *)
(* taken, the retry at the least size included.                            *)
Accounted ==
    heap.ctl # 0 =>
        heap.total = CtlWords + 2 * Len(heap.regions) + FreeWords(heap)
                       + Cardinality(UNION {{h} \X (1..(1 + Usable(heap, live[h].p))) : h \in Handles \ Unused})

(* The tags tell the truth: every region is tiled by blocks up to its      *)
(* epilogue, each block's PINUSE says whether its predecessor is           *)
(* allocated, each free block carries its size at its end, and no two free *)
(* blocks touch, so free() has coalesced all it could; no word is lost.    *)
TagsTrue ==
    /\ Accounted
    /\ \A r \in RegionsOf(heap) :
           /\ r.epi \in Walk(heap, r) /\ SizeAt(heap, r.epi) = 0 /\ ~IsFree(heap, r.epi)
           /\ Flag(heap.mem[r.base], PINUSE) = PINUSE
           /\ \A b \in Walk(heap, r) \ {r.epi} :
                 LET s == SizeAt(heap, b) IN
                 /\ s >= MIN_BLOCK
                 /\ (Flag(heap.mem[b + s], PINUSE) = 0) <=> IsFree(heap, b)
                 /\ IsFree(heap, b) => heap.mem[b + s - 1] = s /\ ~IsFree(heap, b + s)

(* The free lists hold every free block once, in the bin its size selects, *)
(* and nothing else, with back links that match: an unlink from the middle *)
(* (coalescing) finds its neighbours.                                      *)
ListsExact ==
    LET lists == [i \in 0..(NBINS - 1) |-> ListOf(heap, i)]
        onList(i) == {lists[i][k] : k \in DOMAIN lists[i]}
    IN  /\ \A i \in 0..(NBINS - 1) :
              /\ onList(i) = {b \in FreeBlocks : Bin(SizeAt(heap, b)) = i}
              /\ Cardinality(onList(i)) = Len(lists[i])
              /\ \A k \in DOMAIN lists[i] :
                    heap.mem[lists[i][k] + 2] = IF k = 1 THEN 0 ELSE lists[i][k - 1]

(* What the client holds is exactly the allocated blocks, each large       *)
(* enough for the request and still with the contents the client (or       *)
(* calloc) left there: nothing overlaps, nothing leaks, realloc keeps the  *)
(* data, a failed realloc keeps the block, and no call on a block that the  *)
(* client holds traps.                                                     *)
ContentsKept ==
    /\ ~heap.trap
    /\ {live[h].p - 1 : h \in Handles \ Unused} = Blocks \ FreeBlocks
    /\ \A h \in Handles \ Unused :
          /\ live[h].req <= Usable(heap, live[h].p)
          /\ \A g \in Handles \ (Unused \cup {h}) : live[g].p # live[h].p
          /\ \A w \in live[h].p..(live[h].p + live[h].n - 1) : heap.mem[w] = live[h].val

(* A search fails only when no free block is large enough, and never       *)
(* returns one that is too small, although small bins are not inspected    *)
(* and large ones mix sizes.                                               *)
FindSound ==
    heap.ctl # 0 =>
        \A n \in Sizes :
            LET blk == BlockSize(n)
                b == Find(heap, blk)
            IN  n <= Limit =>
                   IF b = 0 THEN \A f \in FreeBlocks : SizeAt(heap, f) < blk
                            ELSE b \in FreeBlocks /\ SizeAt(heap, b) >= blk
============================================================================
