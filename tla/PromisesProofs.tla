--------------------------- MODULE PromisesProofs ---------------------------
(***************************************************************************)
(* For every number of promises and resolving pairs, and every set of      *)
(* values, reasons and thenables: exactly one thing will settle a pending  *)
(* promise, the first resolution decides, reactions start in order, and no *)
(* unhandled rejection is forgotten.                                       *)
(*                                                                         *)
(* An action takes away what was going to settle some promise, which is    *)
(* owed a settlement from then on, and then settles it or puts another     *)
(* settler in place.  Whole(..., owed) is the invariant with that promise  *)
(* excepted; the lemmas about it are the halves of the actions.            *)
(*                                                                         *)
(* The second half is about Combinators: for every number of combinators   *)
(* and inputs, results are what the elements that have run make of them.   *)
(***************************************************************************)
EXTENDS Combinators, SequenceTheorems, NatFacts

(* Types that do not depend on the state *)

Ordinary == Plain \cup Thenables
Data == Ordinary \cup Reasons \cup {SelfError, Nothing}

ReactionRec == [fulfil : Handlers, reject : Handlers, chained : Nat, place : Nat]

PromiseRec ==
  [state : States, value : Data, callbacks : Seq(ReactionRec), handled : BOOLEAN, reactions : Nat]

JobRec ==
  [kind : {"fulfil", "reject", "thenable"}, chained : Nat, value : Data, from : Nat, place : Nat,
   handler : Handlers]

NodeRec == [promise : Nat, handled : BOOLEAN]
HeapRec == [prom : Seq(PromiseRec), jobs : Seq(JobRec), unhandled : Seq(NodeRec)]
PairRec == [promise : Nat, resolved : BOOLEAN]
FrameRec == [kind : {"main", "handler", "then", "getter"}, promise : Nat, pair : Nat, value : Data]
FateRec == [how : {"undecided", "value", "rejection"}, with : Data \cup Nat]

-----------------------------------------------------------------------------
(* What will settle a promise: the sets that Settlers counts *)

Hits(s, x) == {k \in DOMAIN s : s[k].chained = x}
At(q, T) == {<<q, k>> : k \in T}
WaitSet(pr, x) == UNION {At(q, Hits(pr[q].callbacks, x)) : q \in 1..Len(pr)}
OpenSet(prs, x) == {k \in DOMAIN prs : prs[k].promise = x /\ ~prs[k].resolved}
ActiveSet(stk, x) == {k \in DOMAIN stk : stk[k].kind \in {"handler", "getter"} /\ stk[k].promise = x}

Waits(pr, x) == Cardinality(WaitSet(pr, x))
Queued(js, x) == Cardinality(Hits(js, x))
Open(prs, x) == Cardinality(OpenSet(prs, x))
Active(stk, x) == Cardinality(ActiveSet(stk, x))

Total(h, prs, stk, x) == Open(prs, x) + Waits(h.prom, x) + Queued(h.jobs, x) + Active(stk, x)

\* Every pending promise has one settler, or is the owed one; the others have none.
Ind(a, b) == IF a = b THEN 1 ELSE 0

Balanced(h, prs, stk, owed) ==
  \A x \in 1..Len(h.prom) :
    Total(h, prs, stk, x) + Ind(owed, x) = IF h.prom[x].state = "pending" THEN 1 ELSE 0

-----------------------------------------------------------------------------
(* The inductive invariant *)

\* The promises: only a pending one has reactions, and one with reactions is handled.
PromOK(pr) ==
  \A q \in 1..Len(pr) :
    /\ pr[q].state # "pending" => pr[q].callbacks = <<>>
    /\ pr[q].callbacks # <<>> => pr[q].handled
    /\ pr[q].state = "fulfilled" => pr[q].value \in Ordinary

\* What a reaction on promise q may settle, given the fates: another promise, that is
\* undecided or has adopted q.
MayAwait(n, ft, q, p) == p \in 1..n /\ p # q /\ ft[p] \in {Undecided, With(q)}

CallbacksOK(pr, ft) ==
  \A q \in 1..Len(pr) : \A k \in 1..Len(pr[q].callbacks) :
    MayAwait(Len(pr), ft, q, pr[q].callbacks[k].chained)

\* A reaction job passes on the outcome of a settled promise.
OutcomeOf(kind) == IF kind = "fulfil" THEN "fulfilled" ELSE "rejected"

JobOK(pr, ft, j) ==
  /\ j.chained \in 1..Len(pr)
  /\ IF j.kind = "thenable" THEN j.from = 0 /\ j.value \in Thenables
     ELSE /\ j.from \in 1..Len(pr)
          /\ pr[j.from].state = OutcomeOf(j.kind) /\ pr[j.from].value = j.value
          /\ MayAwait(Len(pr), ft, j.from, j.chained)

JobsOK(pr, js, ft) == \A k \in 1..Len(js) : JobOK(pr, ft, js[k])

\* The list of rejections has no node twice, and none of a promise that is not rejected.
ListOK(pr, list) ==
  /\ \A k \in 1..Len(list) : list[k].promise \in 1..Len(pr) /\ pr[list[k].promise].state = "rejected"
  /\ \A k, l \in 1..Len(list) : list[k].promise = list[l].promise => k = l
  /\ \A p \in 1..Len(pr) : pr[p].state = "rejected" /\ ~pr[p].handled =>
       \E k \in 1..Len(list) : list[k] = [promise |-> p, handled |-> FALSE]

\* The list of a pending promise has its reactions, last one first; those of a settled
\* one are the jobs from it, in order, except for the ones that were started.
PendingOrder(pr, st, q) ==
  /\ st[q] = 0 /\ Len(pr[q].callbacks) = pr[q].reactions
  /\ \A k \in 1..Len(pr[q].callbacks) : pr[q].callbacks[k].place = pr[q].reactions + 1 - k

InRange(pr, st, j) == j.place \in (st[j.from] + 1)..pr[j.from].reactions

Increasing(js) ==
  \A k, l \in 1..Len(js) : k < l /\ js[k].from # 0 /\ js[l].from = js[k].from =>
    js[k].place < js[l].place

AllThere(pr, js, st, q) ==
  /\ st[q] <= pr[q].reactions
  /\ \A m \in (st[q] + 1)..pr[q].reactions :
       \E k \in 1..Len(js) : js[k].from = q /\ js[k].place = m

OrderOK(pr, js, st) ==
  /\ \A q \in 1..Len(pr) : pr[q].state = "pending" => PendingOrder(pr, st, q)
  /\ \A k \in 1..Len(js) : js[k].from # 0 => InRange(pr, st, js[k])
  /\ Increasing(js)
  /\ \A q \in 1..Len(pr) : pr[q].state # "pending" => AllThere(pr, js, st, q)

HeapOK(h, ft, st) ==
  /\ h \in HeapRec
  /\ PromOK(h.prom) /\ CallbacksOK(h.prom, ft) /\ JobsOK(h.prom, h.jobs, ft)
  /\ ListOK(h.prom, h.unhandled) /\ OrderOK(h.prom, h.jobs, st)

\* A lookup of then belongs to the resolution by its object, or to the adoption of a
\* promise that was fulfilled with it.
LookupOK(pr, ft, p, v) ==
  \/ ft[p] = With(v)
  \/ \E q \in 1..Len(pr) :
       q # p /\ ft[p] = With(q) /\ pr[q].state = "fulfilled" /\ pr[q].value = v

FrameOK(pr, prs, ft, f) ==
  /\ f.kind \in {"handler", "getter"} => f.promise \in 1..Len(pr)
  /\ f.kind = "getter" => f.value \in Thenables /\ LookupOK(pr, ft, f.promise, f.value)
  /\ f.kind = "then" => f.pair \in 1..Len(prs)

FramesOK(pr, prs, stk, ft) == \A k \in 1..Len(stk) : FrameOK(pr, prs, ft, stk[k])
PairsOK(pr, prs) == \A k \in 1..Len(prs) : prs[k].promise \in 1..Len(pr)

\* FirstResolutionDecides for promise p
Is(pr, p, state, value) == pr[p].state = state /\ pr[p].value = value

Stands(pr, ft, p) ==
  LET f == ft[p]
  IN  /\ f.how = "undecided" => pr[p].state = "pending"
      /\ f.how = "rejection" => Is(pr, p, "rejected", f.with)
      /\ f.how = "value" =>
           IF pr[p].state = "pending" THEN f.with \in Thenables \cup ((1..Len(pr)) \ {p})
           ELSE IF f.with = p THEN Is(pr, p, "rejected", SelfError)
           ELSE IF f.with \in 1..Len(pr)
                THEN pr[f.with].state # "pending" /\ Is(pr, p, pr[f.with].state, pr[f.with].value)
           ELSE Is(pr, p, "fulfilled", f.with)

Whole(h, prs, stk, ft, st, owed) ==
  /\ HeapOK(h, ft, st)
  /\ prs \in Seq(PairRec) /\ stk \in Seq(FrameRec) /\ ft \in Seq(FateRec) /\ st \in Seq(Nat)
  /\ Len(ft) = Len(h.prom) /\ Len(st) = Len(h.prom)
  /\ PairsOK(h.prom, prs) /\ FramesOK(h.prom, prs, stk, ft)
  /\ \A p \in 1..Len(h.prom) : p # owed => Stands(h.prom, ft, p)
  /\ Balanced(h, prs, stk, owed)
  /\ owed # 0 => owed \in 1..Len(h.prom) /\ h.prom[owed].state = "pending"

IInv ==
  /\ Whole(Heap, pairs, stack, fate, started, 0)
  /\ exitCode \in {Nothing, "success", "failure"}

-----------------------------------------------------------------------------
(* Counting: how the sets change when a sequence does *)

LEMMA SameSize ==
  ASSUME NEW T, NEW U, IsFiniteSet(T), NEW f \in [T -> U],
         \A a, b \in T : f[a] = f[b] => a = b, \A u \in U : \E a \in T : f[a] = u
  PROVE  IsFiniteSet(U) /\ Cardinality(U) = Cardinality(T)
<1>1. f \in Injection(T, U)
  BY DEF Injection, IsInjective
<1>2. f \in Surjection(T, U)
  BY DEF Surjection
<1>3. ExistsBijection(T, U)
  BY <1>1, <1>2 DEF ExistsBijection, Bijection
<1> QED BY <1>3, FS_Bijection

LEMMA FinitePart ==
  ASSUME NEW n \in Nat, NEW T \in SUBSET (1..n)
  PROVE  IsFiniteSet(T) /\ Cardinality(T) \in Nat
<1>1. IsFiniteSet(1..n)
  BY FS_Interval
<1> QED BY <1>1, FS_Subset, FS_CardinalityType

LEMMA HitsType ==
  ASSUME NEW S, NEW s \in Seq(S), NEW x
  PROVE  /\ Hits(s, x) \in SUBSET (1..Len(s)) /\ Len(s) \in Nat
         /\ IsFiniteSet(Hits(s, x)) /\ Queued(s, x) \in Nat
<1>1. Hits(s, x) \in SUBSET (1..Len(s)) /\ Len(s) \in Nat
  BY LenProperties DEF Hits
<1> QED BY <1>1, FinitePart DEF Queued

\* A set of positions and a position that is not in it
LEMMA Added ==
  ASSUME NEW T, IsFiniteSet(T), NEW y, y \notin T
  PROVE  IsFiniteSet(T \cup {y}) /\ Cardinality(T \cup {y}) = Cardinality(T) + 1 /\ Cardinality(T) \in Nat
BY FS_AddElement, FS_CardinalityType

LEMMA Removed ==
  ASSUME NEW T, IsFiniteSet(T), NEW y \in T
  PROVE  Cardinality(T \ {y}) = Cardinality(T) - 1 /\ Cardinality(T) \in Nat /\ Cardinality(T \ {y}) \in Nat
BY FS_RemoveElement, FS_CardinalityType

LEMMA HitsAppend ==
  ASSUME NEW S, NEW s \in Seq(S), NEW e \in S, NEW x
  PROVE  Queued(Append(s, e), x) = Queued(s, x) + Ind(e.chained, x)
<1> DEFINE t == Append(s, e)
           n == Len(s)
<1>1. /\ n \in Nat /\ DOMAIN s = 1..n /\ DOMAIN t = 1..(n + 1)
      /\ t[n + 1] = e /\ \A k \in 1..n : t[k] = s[k]
  BY LenProperties, AppendProperties
<1>2. IsFiniteSet(Hits(s, x)) /\ Queued(s, x) \in Nat /\ n + 1 \notin Hits(s, x)
  BY <1>1, HitsType
<1> HIDE DEF t, n
<1>3. CASE e.chained = x
  <2>1. Hits(t, x) = Hits(s, x) \cup {n + 1}
    BY <1>1, <1>3 DEF Hits
  <2> QED BY <1>2, <1>3, <2>1, Added DEF Queued, Ind, t
<1>4. CASE e.chained # x
  <2>1. Hits(t, x) = Hits(s, x)
    BY <1>1, <1>4 DEF Hits
  <2> QED BY <1>2, <1>4, <2>1 DEF Queued, Ind, t
<1> QED BY <1>3, <1>4

\* The first element is taken off.
LEMMA HitsTail ==
  ASSUME NEW S, NEW s \in Seq(S), NEW t \in Seq(S), NEW x,
         Len(s) = Len(t) + 1, \A k \in 1..Len(t) : t[k] = s[k + 1]
  PROVE  Queued(s, x) = Queued(t, x) + Ind(s[1].chained, x)
<1> DEFINE n == Len(t)
           T == Hits(s, x) \ {1}
           f == [k \in Hits(t, x) |-> k + 1]
<1>1. n \in Nat /\ DOMAIN t = 1..n /\ DOMAIN s = 1..(n + 1)
  BY LenProperties
<1>2. /\ IsFiniteSet(Hits(t, x)) /\ Queued(t, x) \in Nat /\ Hits(t, x) \subseteq 1..n
      /\ IsFiniteSet(Hits(s, x))
  BY HitsType
<1> HIDE DEF n
<1>3. \A k \in Hits(t, x) : k \in Nat /\ k + 1 \in T
  BY <1>1, <1>2 DEF Hits, n
<1>4. f \in [Hits(t, x) -> T]
  BY <1>3
<1>5. \A a, b \in Hits(t, x) : f[a] = f[b] => a = b
  BY <1>3
<1>6. \A u \in T : \E a \in Hits(t, x) : f[a] = u
  <2> TAKE u \in T
  <2>1. u \in 2..(n + 1) /\ s[u].chained = x
    BY <1>1 DEF Hits
  <2>2. u - 1 \in 1..n /\ t[u - 1] = s[u]
    BY <1>1, <2>1 DEF n
  <2>3. u - 1 \in Hits(t, x)
    BY <1>1, <2>1, <2>2 DEF Hits
  <2> QED BY <2>1, <2>3
<1> HIDE DEF f, T
<1>7. Cardinality(T) = Cardinality(Hits(t, x))
  BY <1>2, <1>4, <1>5, <1>6, SameSize
<1>8. CASE s[1].chained = x
  <2>1. 1 \in Hits(s, x)
    BY <1>1, <1>8 DEF Hits
  <2>2. Cardinality(T) = Queued(s, x) - 1 /\ Queued(s, x) \in Nat
    BY <1>2, <2>1, Removed DEF T, Queued
  <2> QED BY <1>2, <1>7, <1>8, <2>2 DEF Queued, Ind
<1>9. CASE s[1].chained # x
  <2>1. T = Hits(s, x)
    BY <1>1, <1>9 DEF T, Hits
  <2> QED BY <1>2, <1>7, <1>9, <2>1 DEF Queued, Ind
<1> QED BY <1>8, <1>9

LEMMA ConcatFacts ==
  ASSUME NEW S, NEW s \in Seq(S), NEW t \in Seq(S)
  PROVE  /\ s \o t \in Seq(S) /\ Len(s \o t) = Len(s) + Len(t)
         /\ Len(s) \in Nat /\ Len(t) \in Nat
         /\ \A k \in 1..Len(s) : (s \o t)[k] = s[k]
         /\ \A k \in (Len(s) + 1)..(Len(s) + Len(t)) : (s \o t)[k] = t[k - Len(s)]
<1>1. Len(s) \in Nat /\ Len(t) \in Nat
  BY LenProperties
<1> QED BY <1>1, ConcatProperties

\* The reactions u are appended in reverse order, as the jobs t.
LEMMA HitsReversed ==
  ASSUME NEW S, NEW s \in Seq(S), NEW t \in Seq(S), NEW R, NEW u \in Seq(R), NEW x,
         Len(t) = Len(u), \A k \in 1..Len(t) : t[k].chained = u[Len(u) + 1 - k].chained
  PROVE  Queued(s \o t, x) = Queued(s, x) + Queued(u, x)
<1> DEFINE n == Len(s)
           m == Len(u)
           U == Hits(u, x)
           T == Hits(s \o t, x) \ (1..n)
           f == [k \in U |-> n + m + 1 - k]
<1>1. /\ n \in Nat /\ m \in Nat /\ DOMAIN s = 1..n /\ DOMAIN u = 1..m /\ DOMAIN t = 1..m
      /\ DOMAIN (s \o t) = 1..(n + m)
      /\ \A k \in 1..n : (s \o t)[k] = s[k]
      /\ \A k \in (n + 1)..(n + m) : (s \o t)[k] = t[k - n]
  <2>1. /\ s \o t \in Seq(S) /\ Len(s \o t) = Len(s) + Len(t)
        /\ \A k \in 1..Len(s) : (s \o t)[k] = s[k]
        /\ \A k \in (Len(s) + 1)..(Len(s) + Len(t)) : (s \o t)[k] = t[k - Len(s)]
    BY ONLY s \in Seq(S), t \in Seq(S), ConcatFacts
  <2>2. /\ Len(s) \in Nat /\ Len(u) \in Nat /\ DOMAIN s = 1..Len(s) /\ DOMAIN u = 1..Len(u)
        /\ DOMAIN t = 1..Len(t) /\ DOMAIN (s \o t) = 1..Len(s \o t)
    BY <2>1, LenProperties
  <2> QED BY <2>1, <2>2
<1>2. /\ IsFiniteSet(U) /\ Queued(u, x) \in Nat /\ U \subseteq 1..m
      /\ IsFiniteSet(Hits(s, x)) /\ Queued(s, x) \in Nat /\ Hits(s, x) \subseteq 1..n
  BY HitsType
<1>3. s \o t \in Seq(S) /\ IsFiniteSet(Hits(s \o t, x))
  BY ConcatProperties, HitsType
<1> DEFINE c == s \o t
<1>4. \A k \in 1..m : c[n + m + 1 - k].chained = u[k].chained
  <2> TAKE k \in 1..m
  <2>1. n + m + 1 - k \in (n + 1)..(n + m) /\ (n + m + 1 - k) - n = m + 1 - k /\ m + 1 - k \in 1..m /\ m + 1 - (m + 1 - k) = k
    BY <1>1
  <2>2. c[n + m + 1 - k] = t[m + 1 - k]
    BY <1>1, <2>1
  <2> QED BY <2>1, <2>2
<1>5. T = {k \in (n + 1)..(n + m) : c[k].chained = x} /\ Hits(s, x) = Hits(c, x) \cap (1..n)
  BY <1>1 DEF Hits
<1>6. U = {k \in 1..m : u[k].chained = x}
  BY <1>1 DEF Hits
<1> HIDE DEF n, m, U, T, c
<1>7. f \in [U -> T]
  <2> SUFFICES ASSUME NEW k \in U PROVE n + m + 1 - k \in T
    OBVIOUS
  <2>1. k \in 1..m /\ u[k].chained = x
    BY <1>6
  <2>2. n + m + 1 - k \in (n + 1)..(n + m)
    BY <1>1, <2>1
  <2> QED BY <1>4, <1>5, <2>1, <2>2
<1>8. \A a, b \in U : f[a] = f[b] => a = b
  BY <1>1, <1>2
<1>9. \A v \in T : \E a \in U : f[a] = v
  <2> TAKE v \in T
  <2>1. v \in (n + 1)..(n + m) /\ c[v].chained = x
    BY <1>5
  <2>2. n + m + 1 - v \in 1..m /\ n + m + 1 - (n + m + 1 - v) = v
    BY <1>1, <2>1
  <2>3. n + m + 1 - v \in U
    BY <1>4, <1>6, <2>1, <2>2
  <2> QED BY <2>2, <2>3
<1> HIDE DEF f
<1>10. IsFiniteSet(T) /\ Cardinality(T) = Cardinality(U)
  BY <1>2, <1>7, <1>8, <1>9, SameSize
<1>11. Hits(c, x) = Hits(s, x) \cup T /\ Hits(s, x) \cap T = {}
  <2>1. \A k \in Hits(c, x) : k \in 1..(n + m)
    BY <1>1 DEF Hits, c
  <2>2. T = Hits(c, x) \ (1..n)
    BY DEF T, c
  <2> QED BY <1>5, <2>2
<1>12. Cardinality(Hits(c, x)) = Cardinality(Hits(s, x)) + Cardinality(T) - Cardinality({})
  BY <1>2, <1>10, <1>11, FS_Union
<1> QED BY <1>2, <1>10, <1>12, FS_EmptySet DEF Queued, c, U

\* A tag makes no difference.
LEMMA AtSize ==
  ASSUME NEW q, NEW T, IsFiniteSet(T)
  PROVE  IsFiniteSet(At(q, T)) /\ Cardinality(At(q, T)) = Cardinality(T)
<1> DEFINE f == [k \in T |-> <<q, k>>]
<1>1. f \in [T -> At(q, T)]
  BY DEF At
<1>2. \A a, b \in T : f[a] = f[b] => a = b
  OBVIOUS
<1>3. \A u \in At(q, T) : \E a \in T : f[a] = u
  BY DEF At
<1> HIDE DEF f
<1> QED BY <1>1, <1>2, <1>3, SameSize

LEMMA CallbacksType ==
  ASSUME NEW pr \in Seq(PromiseRec), NEW q \in 1..Len(pr)
  PROVE  pr[q] \in PromiseRec /\ pr[q].callbacks \in Seq(ReactionRec)
<1>1. pr[q] \in PromiseRec
  BY ElementOfSeq
<1> QED BY <1>1 DEF PromiseRec

LEMMA WaitMember ==
  ASSUME NEW pr, NEW x, NEW w
  PROVE  w \in WaitSet(pr, x) <=>
           \E q \in 1..Len(pr) : \E k \in Hits(pr[q].callbacks, x) : w = <<q, k>>
BY DEF WaitSet, At

LEMMA WaitType ==
  ASSUME NEW pr \in Seq(PromiseRec), NEW x
  PROVE  IsFiniteSet(WaitSet(pr, x)) /\ Waits(pr, x) \in Nat
<1> DEFINE n == Len(pr)
           a == [q \in 1..n |-> At(q, Hits(pr[q].callbacks, x))]
           C == {At(q, Hits(pr[q].callbacks, x)) : q \in 1..n}
<1>1. \A T \in C : IsFiniteSet(T)
  BY CallbacksType, HitsType, AtSize
<1>2. IsFiniteSet(1..n)
  BY LenProperties, FS_Interval
<1>3. IsFiniteSet(C)
  <2>1. a \in Surjection(1..n, C)
    BY DEF Surjection
  <2> QED BY <1>2, <2>1, FS_Surjection
<1>4. IsFiniteSet(UNION C)
  BY <1>1, <1>3, FS_UNION
<1> QED BY <1>4, FS_CardinalityType DEF WaitSet, Waits

\* The reactions of one promise change.
LEMMA WaitChange ==
  ASSUME NEW pr \in Seq(PromiseRec), NEW pr2 \in Seq(PromiseRec), NEW q \in 1..Len(pr), NEW x,
         Len(pr2) = Len(pr), \A p \in 1..Len(pr) : p # q => pr2[p].callbacks = pr[p].callbacks
  PROVE  Waits(pr2, x) + Queued(pr[q].callbacks, x) = Waits(pr, x) + Queued(pr2[q].callbacks, x)
<1> DEFINE W == {w \in WaitSet(pr, x) : w[1] # q}
<1>1. \A r \in Seq(PromiseRec) :
        Len(r) = Len(pr) /\ (\A p \in 1..Len(pr) : p # q => r[p].callbacks = pr[p].callbacks) =>
          /\ Waits(r, x) = Cardinality(W) + Queued(r[q].callbacks, x)
          /\ Queued(r[q].callbacks, x) \in Nat
  <2> SUFFICES ASSUME NEW r \in Seq(PromiseRec), Len(r) = Len(pr),
                      \A p \in 1..Len(pr) : p # q => r[p].callbacks = pr[p].callbacks
               PROVE  /\ Waits(r, x) = Cardinality(W) + Queued(r[q].callbacks, x)
                      /\ Queued(r[q].callbacks, x) \in Nat
    OBVIOUS
  <2> DEFINE A == At(q, Hits(r[q].callbacks, x))
  <2>1. WaitSet(r, x) = W \cup A
    <3>1. ASSUME NEW w \in WaitSet(r, x) PROVE w \in W \cup A
      <4>1. PICK p \in 1..Len(pr) : \E k \in Hits(r[p].callbacks, x) : w = <<p, k>>
        BY <3>1, WaitMember
      <4>2. PICK k \in Hits(r[p].callbacks, x) : w = <<p, k>>
        BY <4>1
      <4>3. CASE p = q
        BY <4>2, <4>3 DEF At
      <4>4. CASE p # q
        <5>1. w \in WaitSet(pr, x)
          BY <4>2, <4>4, WaitMember
        <5> QED BY <4>2, <4>4, <5>1
      <4> QED BY <4>3, <4>4
    <3>2. ASSUME NEW w \in W PROVE w \in WaitSet(r, x)
      <4>1. PICK p \in 1..Len(pr) : \E k \in Hits(pr[p].callbacks, x) : w = <<p, k>>
        BY <3>2, WaitMember
      <4>2. p # q
        BY <3>2, <4>1
      <4> QED BY <4>1, <4>2, WaitMember
    <3>3. ASSUME NEW w \in A PROVE w \in WaitSet(r, x)
      BY <3>3, WaitMember DEF At
    <3> HIDE DEF W, A
    <3> QED BY <3>1, <3>2, <3>3
  <2>2. W \cap A = {}
    BY DEF At
  <2>3. IsFiniteSet(W) /\ Cardinality(W) \in Nat
    <3>1. IsFiniteSet(WaitSet(pr, x))
      BY WaitType
    <3>2. W \in SUBSET WaitSet(pr, x)
      OBVIOUS
    <3> HIDE DEF W
    <3> QED BY <3>1, <3>2, FS_Subset, FS_CardinalityType
  <2>4. /\ IsFiniteSet(A) /\ Cardinality(A) = Queued(r[q].callbacks, x)
        /\ Queued(r[q].callbacks, x) \in Nat
    <3>1. r[q].callbacks \in Seq(ReactionRec)
      BY CallbacksType
    <3>2. IsFiniteSet(Hits(r[q].callbacks, x)) /\ Queued(r[q].callbacks, x) \in Nat
      BY <3>1, HitsType
    <3> QED BY <3>2, AtSize DEF Queued
  <2> HIDE DEF W, A
  <2>5. Cardinality(W \cup A) = Cardinality(W) + Cardinality(A) - Cardinality({})
    BY <2>2, <2>3, <2>4, FS_Union
  <2> QED BY <2>1, <2>3, <2>4, <2>5, FS_EmptySet DEF Waits
<1>2. Cardinality(W) \in Nat
  <2>1. IsFiniteSet(WaitSet(pr, x))
    BY WaitType
  <2>2. W \in SUBSET WaitSet(pr, x)
    OBVIOUS
  <2> HIDE DEF W
  <2> QED BY <2>1, <2>2, FS_Subset, FS_CardinalityType
<1> HIDE DEF W
<1> QED BY <1>1, <1>2

\* A promise without reactions comes last.
LEMMA WaitMade ==
  ASSUME NEW pr \in Seq(PromiseRec), NEW r \in PromiseRec, r.callbacks = <<>>, NEW x
  PROVE  Waits(Append(pr, r), x) = Waits(pr, x)
<1> DEFINE n == Len(pr)
           t == Append(pr, r)
<1>1. n \in Nat /\ Len(t) = n + 1 /\ t[n + 1] = r /\ \A k \in 1..n : t[k] = pr[k]
  BY LenProperties, AppendProperties
<1>2. Hits(r.callbacks, x) = {}
  BY DEF Hits
<1> HIDE DEF n, t
<1>3. \A w : w \in WaitSet(t, x) <=> w \in WaitSet(pr, x)
  <2> TAKE w
  <2>1. w \in WaitSet(t, x) <=> \E q \in 1..(n + 1) : \E k \in Hits(t[q].callbacks, x) : w = <<q, k>>
    BY <1>1, WaitMember
  <2>2. w \in WaitSet(pr, x) <=> \E q \in 1..n : \E k \in Hits(pr[q].callbacks, x) : w = <<q, k>>
    BY WaitMember DEF n
  <2> QED BY <1>1, <1>2, <2>1, <2>2
<1>4. WaitSet(t, x) = WaitSet(pr, x)
  BY <1>3
<1> QED BY <1>4 DEF Waits, t

LEMMA OpenType ==
  ASSUME NEW prs \in Seq(PairRec), NEW x
  PROVE  IsFiniteSet(OpenSet(prs, x)) /\ Open(prs, x) \in Nat
<1>1. OpenSet(prs, x) \in SUBSET (1..Len(prs)) /\ Len(prs) \in Nat
  BY LenProperties DEF OpenSet
<1> QED BY <1>1, FinitePart DEF Open

LEMMA OpenAppend ==
  ASSUME NEW prs \in Seq(PairRec), NEW p \in Nat, NEW x
  PROVE  Open(Append(prs, [promise |-> p, resolved |-> FALSE]), x) = Open(prs, x) + Ind(p, x)
<1> DEFINE e == [promise |-> p, resolved |-> FALSE]
           t == Append(prs, e)
           n == Len(prs)
<1>1. /\ n \in Nat /\ DOMAIN prs = 1..n /\ DOMAIN t = 1..(n + 1)
      /\ t[n + 1] = e /\ \A k \in 1..n : t[k] = prs[k]
  BY LenProperties, AppendProperties DEF PairRec
<1>2. IsFiniteSet(OpenSet(prs, x)) /\ Open(prs, x) \in Nat /\ n + 1 \notin OpenSet(prs, x)
  <2>1. n + 1 \notin OpenSet(prs, x)
    BY <1>1 DEF OpenSet
  <2> QED BY <2>1, OpenType
<1>3. e.promise = p /\ e.resolved = FALSE
  OBVIOUS
<1> HIDE DEF t, n, e
<1>4. CASE p = x
  <2>1. OpenSet(t, x) = OpenSet(prs, x) \cup {n + 1}
    BY <1>1, <1>3, <1>4 DEF OpenSet
  <2> QED BY <1>2, <1>4, <2>1, Added DEF Open, Ind, t, e
<1>5. CASE p # x
  <2>1. OpenSet(t, x) = OpenSet(prs, x)
    BY <1>1, <1>3, <1>5 DEF OpenSet
  <2> QED BY <1>2, <1>5, <2>1 DEF Open, Ind, t, e
<1> QED BY <1>4, <1>5

LEMMA OpenClose ==
  ASSUME NEW prs \in Seq(PairRec), NEW k \in 1..Len(prs), ~prs[k].resolved, NEW x,
         NEW t \in Seq(PairRec), Len(t) = Len(prs), t[k].resolved,
         \A l \in 1..Len(prs) : l # k => t[l] = prs[l]
  PROVE  Open(prs, x) = Open(t, x) + Ind(prs[k].promise, x)
<1>1. DOMAIN prs = 1..Len(prs) /\ DOMAIN t = 1..Len(prs)
  BY LenProperties
<1>2. OpenSet(t, x) = OpenSet(prs, x) \ {k}
  BY <1>1 DEF OpenSet
<1>3. k \in OpenSet(prs, x) <=> prs[k].promise = x
  BY <1>1 DEF OpenSet
<1>4. IsFiniteSet(OpenSet(prs, x)) /\ Open(prs, x) \in Nat
  BY OpenType
<1>5. CASE prs[k].promise = x
  <2>1. Cardinality(OpenSet(prs, x) \ {k}) = Cardinality(OpenSet(prs, x)) - 1
    BY <1>3, <1>4, <1>5, Removed
  <2> QED BY <1>2, <1>4, <1>5, <2>1 DEF Open, Ind
<1>6. CASE prs[k].promise # x
  <2>1. OpenSet(t, x) = OpenSet(prs, x)
    BY <1>2, <1>3, <1>6
  <2> QED BY <1>4, <1>6, <2>1 DEF Open, Ind
<1> QED BY <1>5, <1>6

LEMMA ActiveType ==
  ASSUME NEW stk \in Seq(FrameRec), NEW x
  PROVE  IsFiniteSet(ActiveSet(stk, x)) /\ Active(stk, x) \in Nat
<1>1. ActiveSet(stk, x) \in SUBSET (1..Len(stk)) /\ Len(stk) \in Nat
  BY LenProperties DEF ActiveSet
<1> QED BY <1>1, FinitePart DEF Active

\* A frame is pushed or popped.
Acts(f, x) == IF f.kind \in {"handler", "getter"} /\ f.promise = x THEN 1 ELSE 0

LEMMA ActivePush ==
  ASSUME NEW stk \in Seq(FrameRec), NEW t \in Seq(FrameRec), Len(t) = Len(stk) + 1,
         \A k \in 1..Len(stk) : t[k] = stk[k], NEW x
  PROVE  Active(t, x) = Active(stk, x) + Acts(t[Len(t)], x)
<1> DEFINE n == Len(stk)
           f == t[n + 1]
<1>1. n \in Nat /\ DOMAIN stk = 1..n /\ DOMAIN t = 1..(n + 1)
  BY LenProperties
<1>2. IsFiniteSet(ActiveSet(stk, x)) /\ Active(stk, x) \in Nat /\ n + 1 \notin ActiveSet(stk, x)
  <2>1. n + 1 \notin ActiveSet(stk, x)
    BY <1>1 DEF ActiveSet
  <2> QED BY <2>1, ActiveType
<1> HIDE DEF n
<1>3. CASE f.kind \in {"handler", "getter"} /\ f.promise = x
  <2>1. ActiveSet(t, x) = ActiveSet(stk, x) \cup {n + 1}
    BY <1>1, <1>3 DEF ActiveSet, n
  <2>2. Acts(f, x) = 1
    BY <1>3 DEF Acts
  <2> QED BY <1>2, <2>1, <2>2, Added DEF Active, n
<1>4. CASE ~(f.kind \in {"handler", "getter"} /\ f.promise = x)
  <2>1. ActiveSet(t, x) = ActiveSet(stk, x)
    BY <1>1, <1>4 DEF ActiveSet, n
  <2>2. Acts(f, x) = 0
    BY <1>4 DEF Acts
  <2> QED BY <1>2, <2>1, <2>2 DEF Active, n
<1> QED BY <1>3, <1>4

-----------------------------------------------------------------------------
(* What the operations on the heap do to it *)

LEMMA HeapFacts ==
  ASSUME NEW h \in HeapRec
  PROVE  /\ h.prom \in Seq(PromiseRec) /\ h.jobs \in Seq(JobRec) /\ h.unhandled \in Seq(NodeRec)
         /\ Len(h.prom) \in Nat /\ Len(h.jobs) \in Nat /\ Len(h.unhandled) \in Nat
         /\ \A q \in 1..Len(h.prom) : h.prom[q] \in PromiseRec
         /\ \A k \in 1..Len(h.jobs) : h.jobs[k] \in JobRec
         /\ \A k \in 1..Len(h.unhandled) : h.unhandled[k] \in NodeRec
<1>1. h.prom \in Seq(PromiseRec) /\ h.jobs \in Seq(JobRec) /\ h.unhandled \in Seq(NodeRec)
  BY DEF HeapRec
<1>2. \A q \in 1..Len(h.prom) : h.prom[q] \in PromiseRec
  BY <1>1, ElementOfSeq
<1>3. \A k \in 1..Len(h.jobs) : h.jobs[k] \in JobRec
  BY <1>1, ElementOfSeq
<1>4. \A k \in 1..Len(h.unhandled) : h.unhandled[k] \in NodeRec
  BY <1>1, ElementOfSeq
<1> QED BY <1>1, <1>2, <1>3, <1>4, LenProperties

LEMMA FunIsSeq ==
  ASSUME NEW S, NEW n \in Nat, NEW f \in [1..n -> S]
  PROVE  f \in Seq(S) /\ Len(f) = n
<1>1. f \in Seq(S)
  BY SeqDef
<1>2. DOMAIN f = 1..n /\ DOMAIN f = 1..Len(f) /\ Len(f) \in Nat
  BY <1>1, LenProperties
<1> QED BY <1>1, <1>2

LEMMA NoHits ==
  ASSUME NEW x
  PROVE  Queued(<<>>, x) = 0
<1>1. Hits(<<>>, x) = {}
  BY DEF Hits
<1> QED BY <1>1, FS_EmptySet DEF Queued

\* One element of a sequence is replaced.
LEMMA Replaced ==
  ASSUME NEW S, NEW s \in Seq(S), NEW k \in 1..Len(s), NEW e \in S
  PROVE  LET t == [s EXCEPT ![k] = e]
         IN  t \in Seq(S) /\ Len(t) = Len(s) /\ t[k] = e /\ \A l \in 1..Len(s) : l # k => t[l] = s[l]
<1> DEFINE t == [s EXCEPT ![k] = e]
<1>1. t \in Seq(S) /\ Len(t) = Len(s)
  BY ExceptSeq
<1>2. DOMAIN s = 1..Len(s)
  BY LenProperties
<1> QED BY <1>1, <1>2

\* The job of reaction c on promise p, that was settled
FromReaction(j, c, p, state, value) ==
  /\ j \in JobRec /\ j.kind # "thenable" /\ OutcomeOf(j.kind) = state
  /\ j.chained = c.chained /\ j.value = value /\ j.from = p /\ j.place = c.place

LEMMA ReactionJobFacts ==
  ASSUME NEW kind \in {"fulfil", "reject"}, NEW c \in ReactionRec, NEW p \in Nat, NEW value \in Data
  PROVE  FromReaction(ReactionJob(kind, c, p, value), c, p, OutcomeOf(kind), value)
BY DEF FromReaction, ReactionJob, ReactionRec, JobRec, OutcomeOf

SettledHeap(h, p, state, value, g) ==
  /\ g \in HeapRec /\ Len(g.prom) = Len(h.prom)
  /\ \A q \in 1..Len(h.prom) : q # p => g.prom[q] = h.prom[q]
  /\ g.prom[p].state = state /\ g.prom[p].value = value /\ g.prom[p].callbacks = <<>>
  /\ g.prom[p].handled = h.prom[p].handled /\ g.prom[p].reactions = h.prom[p].reactions
  /\ Len(g.jobs) = Len(h.jobs) + Len(h.prom[p].callbacks)
  /\ \A k \in 1..Len(h.jobs) : g.jobs[k] = h.jobs[k]
  /\ \A k \in 1..Len(h.prom[p].callbacks) :
       FromReaction(g.jobs[Len(h.jobs) + k], h.prom[p].callbacks[Len(h.prom[p].callbacks) + 1 - k],
                    p, state, value)
  /\ g.unhandled = IF state = "rejected" /\ h.prom[p].callbacks = <<>> /\ ~h.prom[p].handled
                   THEN <<[promise |-> p, handled |-> FALSE]>> \o h.unhandled ELSE h.unhandled
  /\ \A x : Waits(g.prom, x) + Queued(g.jobs, x) = Waits(h.prom, x) + Queued(h.jobs, x)

LEMMA SettleShape ==
  ASSUME NEW h \in HeapRec, NEW p \in 1..Len(h.prom), h.prom[p].state = "pending",
         NEW state \in {"fulfilled", "rejected"}, NEW value \in Data
  PROVE  SettledHeap(h, p, state, value, Settle(h, p, state, value))
<1> DEFINE cb == h.prom[p].callbacks
           m == Len(cb)
           n == Len(h.jobs)
           kind == IF state = "fulfilled" THEN "fulfil" ELSE "reject"
           rec == [h.prom[p] EXCEPT !.state = state, !.value = value, !.callbacks = <<>>]
           new == [k \in 1..m |-> ReactionJob(kind, cb[m + 1 - k], p, value)]
           g == Settle(h, p, state, value)
           list == IF Unhandled(h.prom[p], state) THEN Note(h.unhandled, p) ELSE h.unhandled
<1>1. /\ h.prom \in Seq(PromiseRec) /\ h.jobs \in Seq(JobRec) /\ h.unhandled \in Seq(NodeRec)
      /\ h.prom[p] \in PromiseRec /\ n \in Nat /\ p \in Nat
  BY HeapFacts
<1>2. cb \in Seq(ReactionRec) /\ m \in Nat /\ DOMAIN cb = 1..m /\ \A k \in 1..m : cb[k] \in ReactionRec
  <2>1. cb \in Seq(ReactionRec)
    BY <1>1 DEF PromiseRec
  <2> QED BY <2>1, LenProperties, ElementOfSeq
<1>3. /\ rec \in PromiseRec /\ rec.state = state /\ rec.value = value /\ rec.callbacks = <<>>
      /\ rec.handled = h.prom[p].handled /\ rec.reactions = h.prom[p].reactions
  <2>1. <<>> \in Seq(ReactionRec)
    BY EmptySeq
  <2> QED BY <1>1, <2>1 DEF PromiseRec, States
<1>4. kind \in {"fulfil", "reject"} /\ OutcomeOf(kind) = state
  BY DEF OutcomeOf
<1>5. \A k \in 1..m : m + 1 - k \in 1..m
  BY <1>2
<1> HIDE DEF rec, kind, m
<1>6. \A k \in 1..m : FromReaction(new[k], cb[m + 1 - k], p, state, value)
  <2> TAKE k \in 1..m
  <2>1. cb[m + 1 - k] \in ReactionRec
    BY <1>2, <1>5
  <2> QED BY <1>1, <1>4, <2>1, ReactionJobFacts
<1>7. new \in Seq(JobRec) /\ Len(new) = m
  <2>1. \A k \in 1..m : new[k] \in JobRec
    BY <1>6 DEF FromReaction
  <2> HIDE DEF cb
  <2>2. DOMAIN new = 1..m
    OBVIOUS
  <2>3. new \in [1..m -> JobRec]
    BY <2>1, <2>2
  <2> HIDE DEF new
  <2> QED BY <1>2, <2>3, FunIsSeq
<1>8. g = [prom |-> [h.prom EXCEPT ![p] = rec], jobs |-> h.jobs \o new, unhandled |-> list]
  <2>1. DOMAIN RegistrationOrdered(cb) = 1..m
    BY <1>2 DEF RegistrationOrdered
  <2>2. \A k \in 1..m : RegistrationOrdered(cb)[k] = cb[m + 1 - k]
    BY <1>2 DEF RegistrationOrdered, m
  <2>3. [k \in DOMAIN RegistrationOrdered(cb) |-> ReactionJob(kind, RegistrationOrdered(cb)[k], p, value)] = new
    BY <2>1, <2>2
  <2> HIDE DEF new, list
  <2> QED BY <2>3 DEF Settle, rec, kind, list
<1>9. list = IF state = "rejected" /\ cb = <<>> /\ ~h.prom[p].handled
             THEN <<[promise |-> p, handled |-> FALSE]>> \o h.unhandled ELSE h.unhandled
  BY DEF Unhandled, Note
<1>10. list \in Seq(NodeRec)
  <2>1. [promise |-> p, handled |-> FALSE] \in NodeRec
    BY <1>1 DEF NodeRec
  <2>2. <<[promise |-> p, handled |-> FALSE]>> \in Seq(NodeRec)
    BY <2>1
  <2>3. <<[promise |-> p, handled |-> FALSE]>> \o h.unhandled \in Seq(NodeRec)
    BY <1>1, <2>2, ConcatFacts
  <2> QED BY <1>1, <1>9, <2>3
<1> HIDE DEF new, list, cb, g
<1> DEFINE pr == [h.prom EXCEPT ![p] = rec]
<1>11. /\ pr \in Seq(PromiseRec) /\ Len(pr) = Len(h.prom) /\ pr[p] = rec
       /\ \A q \in 1..Len(h.prom) : q # p => pr[q] = h.prom[q]
  BY <1>1, <1>3, Replaced
<1>12. /\ h.jobs \o new \in Seq(JobRec) /\ Len(h.jobs \o new) = n + m
       /\ \A k \in 1..n : (h.jobs \o new)[k] = h.jobs[k]
       /\ \A k \in (n + 1)..(n + m) : (h.jobs \o new)[k] = new[k - n]
  BY ZenonT(40), <1>1, <1>7, ConcatFacts
<1>13. \A k \in 1..m : (h.jobs \o new)[n + k] = new[k]
  <2> TAKE k \in 1..m
  <2>1. n + k \in (n + 1)..(n + m) /\ n + k - n = k
    BY <1>1, <1>2
  <2> QED BY <1>12, <2>1
<1> HIDE DEF pr, n
<1>14. \A x : Waits(pr, x) + Queued(h.jobs \o new, x) = Waits(h.prom, x) + Queued(h.jobs, x)
  <2> TAKE x
  <2>1. \A k \in 1..Len(new) : new[k].chained = cb[Len(cb) + 1 - k].chained
    BY <1>6, <1>7 DEF FromReaction, m
  <2>2. Queued(h.jobs \o new, x) = Queued(h.jobs, x) + Queued(cb, x)
    BY <1>1, <1>2, <1>7, <2>1, HitsReversed DEF m
  <2>3. Waits(pr, x) + Queued(cb, x) = Waits(h.prom, x) + Queued(pr[p].callbacks, x)
    <3>1. \A q \in 1..Len(h.prom) : q # p => pr[q].callbacks = h.prom[q].callbacks
      BY <1>11
    <3> QED BY <1>1, <1>11, <3>1, WaitChange DEF cb
  <2>4. Queued(pr[p].callbacks, x) = 0
    BY <1>3, <1>11, NoHits
  <2>5. Queued(cb, x) \in Nat /\ Queued(h.jobs, x) \in Nat
    BY <1>1, <1>2, HitsType
  <2>6. Waits(pr, x) \in Nat /\ Waits(h.prom, x) \in Nat
    BY <1>1, <1>11, WaitType
  <2> QED BY <2>2, <2>3, <2>4, <2>5, <2>6
<1>15. g.prom = pr /\ g.jobs = h.jobs \o new /\ g.unhandled = list /\ g \in HeapRec
  BY <1>8, <1>10, <1>11, <1>12 DEF pr, HeapRec
<1>16. /\ Len(g.jobs) = Len(h.jobs) + Len(h.prom[p].callbacks)
       /\ \A k \in 1..Len(h.jobs) : g.jobs[k] = h.jobs[k]
       /\ \A k \in 1..Len(h.prom[p].callbacks) :
            FromReaction(g.jobs[Len(h.jobs) + k], h.prom[p].callbacks[Len(h.prom[p].callbacks) + 1 - k],
                         p, state, value)
  BY <1>6, <1>12, <1>13, <1>15 DEF n, m, cb
<1>17. g.unhandled = IF state = "rejected" /\ h.prom[p].callbacks = <<>> /\ ~h.prom[p].handled
                     THEN <<[promise |-> p, handled |-> FALSE]>> \o h.unhandled ELSE h.unhandled
  BY <1>9, <1>15 DEF cb
<1>18. \A x : Waits(g.prom, x) + Queued(g.jobs, x) = Waits(h.prom, x) + Queued(h.jobs, x)
  BY <1>14, <1>15
<1>19. /\ Len(g.prom) = Len(h.prom)
       /\ \A q \in 1..Len(h.prom) : q # p => g.prom[q] = h.prom[q]
       /\ g.prom[p].state = state /\ g.prom[p].value = value /\ g.prom[p].callbacks = <<>>
       /\ g.prom[p].handled = h.prom[p].handled /\ g.prom[p].reactions = h.prom[p].reactions
  BY <1>3, <1>11, <1>15
<1> QED BY <1>15, <1>16, <1>17, <1>18, <1>19 DEF SettledHeap, g

AttachedHeap(h, q, c, g) ==
  /\ g \in HeapRec /\ Len(g.prom) = Len(h.prom)
  /\ \A p \in 1..Len(h.prom) : p # q => g.prom[p] = h.prom[p]
  /\ g.prom[q].state = h.prom[q].state /\ g.prom[q].value = h.prom[q].value
  /\ g.prom[q].handled = TRUE /\ g.prom[q].reactions = h.prom[q].reactions + 1
  /\ g.unhandled = h.unhandled
  /\ h.prom[q].state = "pending" =>
       /\ g.jobs = h.jobs /\ Len(g.prom[q].callbacks) = Len(h.prom[q].callbacks) + 1
       /\ g.prom[q].callbacks[1].chained = c
       /\ g.prom[q].callbacks[1].place = h.prom[q].reactions + 1
       /\ \A k \in 1..Len(h.prom[q].callbacks) :
            g.prom[q].callbacks[k + 1] = h.prom[q].callbacks[k]
  /\ h.prom[q].state # "pending" =>
       /\ g.prom[q].callbacks = h.prom[q].callbacks /\ Len(g.jobs) = Len(h.jobs) + 1
       /\ \A k \in 1..Len(h.jobs) : g.jobs[k] = h.jobs[k]
       /\ FromReaction(g.jobs[Len(h.jobs) + 1], [chained |-> c, place |-> h.prom[q].reactions + 1],
                       q, h.prom[q].state, h.prom[q].value)
  /\ \A x : Waits(g.prom, x) + Queued(g.jobs, x) = Waits(h.prom, x) + Queued(h.jobs, x) + Ind(c, x)

LEMMA AttachShape ==
  ASSUME NEW h \in HeapRec, NEW q \in 1..Len(h.prom), NEW f \in Handlers, NEW r \in Handlers, NEW c \in Nat
  PROVE  AttachedHeap(h, q, c, Attach(h, q, f, r, c))
<1> DEFINE pq == h.prom[q]
           cb == pq.callbacks
           place == pq.reactions + 1
           reaction == Reaction(f, r, c, place)
           marked == [pq EXCEPT !.handled = TRUE, !.reactions = pq.reactions + 1]
           pr == [h.prom EXCEPT ![q] = marked]
           g == Attach(h, q, f, r, c)
<1>1. /\ h.prom \in Seq(PromiseRec) /\ h.jobs \in Seq(JobRec) /\ h.unhandled \in Seq(NodeRec)
      /\ pq \in PromiseRec /\ q \in Nat /\ Len(h.jobs) \in Nat
  BY HeapFacts
<1>2. cb \in Seq(ReactionRec) /\ Len(cb) \in Nat
  BY <1>1, LenProperties DEF PromiseRec
<1>3. /\ marked \in PromiseRec /\ marked.state = pq.state /\ marked.value = pq.value
      /\ marked.callbacks = cb /\ marked.handled = TRUE /\ marked.reactions = place /\ place \in Nat
  <2>1. PICK n \in Nat : n = pq.reactions + 1
    BY SMTT(30), <1>1 DEF PromiseRec
  <2>2. /\ [pq EXCEPT !.handled = TRUE, !.reactions = n] \in PromiseRec
        /\ [pq EXCEPT !.handled = TRUE, !.reactions = n].state = pq.state
        /\ [pq EXCEPT !.handled = TRUE, !.reactions = n].value = pq.value
        /\ [pq EXCEPT !.handled = TRUE, !.reactions = n].callbacks = pq.callbacks
        /\ [pq EXCEPT !.handled = TRUE, !.reactions = n].handled = TRUE
        /\ [pq EXCEPT !.handled = TRUE, !.reactions = n].reactions = n
    BY <1>1 DEF PromiseRec
  <2> QED BY <2>1, <2>2
<1>4. reaction \in ReactionRec /\ reaction.chained = c /\ reaction.place = place
  BY <1>3 DEF Reaction, ReactionRec
<1>5. ReactionHandled(h, q) = [h EXCEPT !.prom = pr]
  BY DEF ReactionHandled
<1> HIDE DEF marked, reaction
<1>6. /\ pr \in Seq(PromiseRec) /\ Len(pr) = Len(h.prom) /\ pr[q] = marked
      /\ \A p \in 1..Len(h.prom) : p # q => pr[p] = h.prom[p]
  BY <1>1, <1>3, Replaced
<1>7. CASE pq.state = "pending"
  <2> DEFINE list == <<reaction>> \o cb
             rec == [marked EXCEPT !.callbacks = list]
             pr2 == [pr EXCEPT ![q] = rec]
  <2>1. /\ list \in Seq(ReactionRec) /\ Len(list) = Len(cb) + 1 /\ list[1] = reaction
        /\ \A k \in 1..Len(cb) : list[k + 1] = cb[k]
    <3>1. <<reaction>> \in Seq(ReactionRec) /\ Len(<<reaction>>) = 1 /\ <<reaction>>[1] = reaction
      BY <1>4
    <3>2. /\ list \in Seq(ReactionRec) /\ Len(list) = 1 + Len(cb)
          /\ \A k \in 1..1 : list[k] = <<reaction>>[k]
          /\ \A k \in (1 + 1)..(1 + Len(cb)) : list[k] = cb[k - 1]
      BY <1>2, <3>1, ConcatFacts
    <3> HIDE DEF list
    <3>3. \A k \in 1..Len(cb) : list[k + 1] = cb[k]
      <4> TAKE k \in 1..Len(cb)
      <4>1. k + 1 \in (1 + 1)..(1 + Len(cb)) /\ (k + 1) - 1 = k
        BY <1>2
      <4> QED BY <3>2, <4>1
    <3> QED BY <1>2, <3>1, <3>2, <3>3
  <2> HIDE DEF list
  <2>2. /\ rec \in PromiseRec /\ rec.state = pq.state /\ rec.value = pq.value
        /\ rec.callbacks = list /\ rec.handled = TRUE /\ rec.reactions = place
    BY <1>3, <2>1 DEF PromiseRec
  <2>3. g = [[h EXCEPT !.prom = pr] EXCEPT !.prom = pr2]
    <3>1. [h EXCEPT !.prom = pr].prom = pr
      BY DEF HeapRec
    <3> HIDE DEF pr
    <3> QED BY <1>5, <1>6, <1>7, <3>1 DEF Attach, reaction, list
  <2> HIDE DEF rec
  <2>4. /\ pr2 \in Seq(PromiseRec) /\ Len(pr2) = Len(h.prom) /\ pr2[q] = rec
        /\ \A p \in 1..Len(h.prom) : p # q => pr2[p] = h.prom[p]
    <3>1. q \in 1..Len(pr)
      BY <1>6
    <3> HIDE DEF pr
    <3>2. /\ pr2 \in Seq(PromiseRec) /\ Len(pr2) = Len(pr) /\ pr2[q] = rec
          /\ \A p \in 1..Len(pr) : p # q => pr2[p] = pr[p]
      BY <1>6, <2>2, <3>1, Replaced
    <3> QED BY <1>6, <3>2
  <2> HIDE DEF pr2, pr
  <2>5. g.prom = pr2 /\ g.jobs = h.jobs /\ g.unhandled = h.unhandled /\ g \in HeapRec
    BY <1>1, <2>3, <2>4 DEF HeapRec
  <2>6. \A x : Waits(pr2, x) + Queued(h.jobs, x) = Waits(h.prom, x) + Queued(h.jobs, x) + Ind(c, x)
    <3> TAKE x
    <3>1. Waits(pr2, x) + Queued(cb, x) = Waits(h.prom, x) + Queued(pr2[q].callbacks, x)
      <4>1. \A p \in 1..Len(h.prom) : p # q => pr2[p].callbacks = h.prom[p].callbacks
        BY <2>4
      <4> QED BY <1>1, <2>4, <4>1, WaitChange
    <3>2. Queued(list, x) = Queued(cb, x) + Ind(c, x)
      <4>1. Queued(list, x) = Queued(cb, x) + Ind(list[1].chained, x)
        <5>1. \A k \in 1..Len(cb) : cb[k] = list[k + 1]
          BY <2>1
        <5> QED BY <1>2, <2>1, <5>1, HitsTail
      <4> QED BY <1>4, <2>1, <4>1
    <3>3. Queued(cb, x) \in Nat /\ Queued(h.jobs, x) \in Nat /\ Ind(c, x) \in Nat
      BY <1>1, <1>2, HitsType DEF Ind
    <3>4. Waits(pr2, x) \in Nat /\ Waits(h.prom, x) \in Nat
      BY <1>1, <2>4, WaitType
    <3>5. Waits(pr2, x) + Queued(cb, x) = Waits(h.prom, x) + (Queued(cb, x) + Ind(c, x))
      BY <2>2, <2>4, <3>1, <3>2
    <3>6. PICK a \in Nat, b \in Nat, d \in Nat, e \in Nat, i \in Nat :
            /\ a = Waits(pr2, x) /\ b = Queued(cb, x) /\ d = Waits(h.prom, x)
            /\ e = Queued(h.jobs, x) /\ i = Ind(c, x)
      BY <3>3, <3>4
    <3>7. a + b = d + (b + i)
      BY <3>5, <3>6
    <3>8. a + e = d + e + i
      BY <3>7
    <3> QED BY <3>6, <3>8
  <2>7. /\ Len(g.prom) = Len(h.prom)
        /\ \A p \in 1..Len(h.prom) : p # q => g.prom[p] = h.prom[p]
        /\ g.prom[q].state = h.prom[q].state /\ g.prom[q].value = h.prom[q].value
        /\ g.prom[q].handled = TRUE /\ g.prom[q].reactions = h.prom[q].reactions + 1
    BY <2>2, <2>4, <2>5
  <2>8. /\ Len(g.prom[q].callbacks) = Len(h.prom[q].callbacks) + 1
        /\ g.prom[q].callbacks[1].chained = c
        /\ g.prom[q].callbacks[1].place = h.prom[q].reactions + 1
        /\ \A k \in 1..Len(h.prom[q].callbacks) :
             g.prom[q].callbacks[k + 1] = h.prom[q].callbacks[k]
    BY <1>4, <2>1, <2>2, <2>4, <2>5
  <2>9. \A x : Waits(g.prom, x) + Queued(g.jobs, x) = Waits(h.prom, x) + Queued(h.jobs, x) + Ind(c, x)
    BY <2>5, <2>6
  <2> QED BY <1>7, <2>5, <2>7, <2>8, <2>9 DEF AttachedHeap, g
<1>8. CASE pq.state # "pending"
  <2> DEFINE kind == IF pq.state = "fulfilled" THEN "fulfil" ELSE "reject"
             j == ReactionJob(kind, reaction, q, pq.value)
             js == Append(h.jobs, j)
  <2>1. kind \in {"fulfil", "reject"} /\ OutcomeOf(kind) = pq.state /\ pq.value \in Data
    BY <1>1, <1>8 DEF OutcomeOf, PromiseRec, States
  <2>2. g = [[h EXCEPT !.prom = pr] EXCEPT !.jobs = js]
    <3>1. [h EXCEPT !.prom = pr].jobs = h.jobs
      BY DEF HeapRec
    <3>2. pq.state \in {"fulfilled", "rejected"}
      BY <1>1, <1>8 DEF PromiseRec, States
    <3> HIDE DEF pr
    <3>3. CASE pq.state = "fulfilled"
      BY <1>5, <3>1, <3>3 DEF Attach, reaction
    <3>4. CASE pq.state = "rejected"
      BY <1>5, <3>1, <3>4 DEF Attach, reaction
    <3> QED BY <3>2, <3>3, <3>4
  <2> HIDE DEF kind
  <2>3. FromReaction(j, reaction, q, pq.state, pq.value) /\ j \in JobRec /\ j.chained = c
    BY <1>1, <1>4, <2>1, ReactionJobFacts DEF FromReaction
  <2> HIDE DEF j
  <2>4. FromReaction(j, [chained |-> c, place |-> h.prom[q].reactions + 1], q, pq.state, pq.value)
    BY <1>4, <2>3 DEF FromReaction
  <2>5. /\ js \in Seq(JobRec) /\ Len(js) = Len(h.jobs) + 1 /\ js[Len(h.jobs) + 1] = j
        /\ \A k \in 1..Len(h.jobs) : js[k] = h.jobs[k]
    BY <1>1, <2>3, AppendProperties
  <2>6. g.prom = pr /\ g.jobs = js /\ g.unhandled = h.unhandled /\ g \in HeapRec
    <3> HIDE DEF pr, js
    <3> QED BY <1>1, <1>6, <2>2, <2>5 DEF HeapRec
  <2>7. \A x : Waits(pr, x) + Queued(js, x) = Waits(h.prom, x) + Queued(h.jobs, x) + Ind(c, x)
    <3> TAKE x
    <3>1. Queued(js, x) = Queued(h.jobs, x) + Ind(c, x)
      BY <1>1, <2>3, HitsAppend
    <3>2. Waits(pr, x) + Queued(cb, x) = Waits(h.prom, x) + Queued(pr[q].callbacks, x)
      <4>1. \A p \in 1..Len(h.prom) : p # q => pr[p].callbacks = h.prom[p].callbacks
        BY <1>6
      <4> HIDE DEF pr
      <4> QED BY <1>1, <1>6, <4>1, WaitChange
    <3>3. Queued(cb, x) \in Nat /\ Queued(h.jobs, x) \in Nat /\ Ind(c, x) \in Nat
      BY <1>1, <1>2, HitsType DEF Ind
    <3>4. Waits(pr, x) \in Nat /\ Waits(h.prom, x) \in Nat
      <4> HIDE DEF pr
      <4> QED BY <1>1, <1>6, WaitType
    <3> HIDE DEF pr, js
    <3> QED BY <1>3, <1>6, <3>1, <3>2, <3>3, <3>4
  <2> HIDE DEF pr, js
  <2>8. /\ Len(g.prom) = Len(h.prom)
        /\ \A p \in 1..Len(h.prom) : p # q => g.prom[p] = h.prom[p]
        /\ g.prom[q].state = h.prom[q].state /\ g.prom[q].value = h.prom[q].value
        /\ g.prom[q].handled = TRUE /\ g.prom[q].reactions = h.prom[q].reactions + 1
        /\ g.prom[q].callbacks = h.prom[q].callbacks
    BY <1>3, <1>6, <2>6
  <2>9. /\ Len(g.jobs) = Len(h.jobs) + 1
        /\ \A k \in 1..Len(h.jobs) : g.jobs[k] = h.jobs[k]
        /\ FromReaction(g.jobs[Len(h.jobs) + 1], [chained |-> c, place |-> h.prom[q].reactions + 1],
                        q, h.prom[q].state, h.prom[q].value)
    BY <2>4, <2>5, <2>6
  <2>10. \A x : Waits(g.prom, x) + Queued(g.jobs, x) = Waits(h.prom, x) + Queued(h.jobs, x) + Ind(c, x)
    BY <2>6, <2>7
  <2> QED BY <1>8, <2>6, <2>8, <2>9, <2>10 DEF AttachedHeap, g
<1> QED BY <1>7, <1>8

-----------------------------------------------------------------------------
(* The operations on the heap keep it consistent *)

LEMMA JobFacts ==
  ASSUME NEW h, NEW ft, NEW st, HeapOK(h, ft, st), NEW k \in 1..Len(h.jobs)
  PROVE  /\ h.jobs[k] \in JobRec /\ h.jobs[k].from \in Nat /\ h.jobs[k].place \in Nat
         /\ h.jobs[k].chained \in 1..Len(h.prom) /\ h.jobs[k].value \in Data
         /\ h.jobs[k].kind = "thenable" => h.jobs[k].from = 0
         /\ h.jobs[k].kind # "thenable" =>
              /\ h.jobs[k].from \in 1..Len(h.prom) /\ h.prom[h.jobs[k].from].state # "pending"
              /\ h.prom[h.jobs[k].from].state = OutcomeOf(h.jobs[k].kind)
              /\ h.prom[h.jobs[k].from].value = h.jobs[k].value
              /\ MayAwait(Len(h.prom), ft, h.jobs[k].from, h.jobs[k].chained)
<1>1. h.jobs[k] \in JobRec
  BY HeapFacts DEF HeapOK
<1>2. JobOK(h.prom, ft, h.jobs[k])
  BY DEF HeapOK, JobsOK
<1>3. h.jobs[k].from \in Nat /\ h.jobs[k].place \in Nat /\ h.jobs[k].value \in Data
  BY <1>1 DEF JobRec
<1>4. \A kind : OutcomeOf(kind) # "pending"
  BY DEF OutcomeOf
<1> QED BY <1>1, <1>2, <1>3, <1>4 DEF JobOK

\* MayAwait and JobOK look at the promises' number, states and values only.
LEMMA JobKept ==
  ASSUME NEW pr, NEW g, NEW ft, NEW j, JobOK(pr, ft, j), Len(g) = Len(pr), Len(pr) \in Nat,
         \A q \in 1..Len(pr) : pr[q].state # "pending" => g[q].state = pr[q].state /\ g[q].value = pr[q].value
  PROVE  JobOK(g, ft, j)
<1>1. \A kind : OutcomeOf(kind) # "pending"
  BY DEF OutcomeOf
<1> QED BY <1>1 DEF JobOK

LEMMA SplitIndex ==
  ASSUME NEW l \in Nat, NEW m \in Nat, NEW k \in 1..(l + m)
  PROVE  k \in 1..l \/ \E i \in 1..m : k = l + i
<1> SUFFICES ASSUME k \notin 1..l PROVE \E i \in 1..m : k = l + i
  OBVIOUS
<1>1. k - l \in 1..m /\ k = l + (k - l)
  OBVIOUS
<1> QED BY <1>1

LEMMA SettleOK ==
  ASSUME NEW h, NEW ft, NEW st \in Seq(Nat), HeapOK(h, ft, st), Len(st) = Len(h.prom),
         NEW p \in 1..Len(h.prom), h.prom[p].state = "pending",
         NEW state \in {"fulfilled", "rejected"}, NEW value \in Data,
         state = "fulfilled" => value \in Ordinary,
         NEW g, SettledHeap(h, p, state, value, g)
  PROVE  HeapOK(g, ft, st)
<1> DEFINE n == Len(h.prom)
           m == Len(h.prom[p].callbacks)
           l == Len(h.jobs)
           cb == h.prom[p].callbacks
<1>1. /\ h \in HeapRec /\ PromOK(h.prom) /\ CallbacksOK(h.prom, ft) /\ JobsOK(h.prom, h.jobs, ft)
      /\ ListOK(h.prom, h.unhandled) /\ OrderOK(h.prom, h.jobs, st)
  BY DEF HeapOK
<1>2. /\ n \in Nat /\ l \in Nat /\ Len(h.unhandled) \in Nat
      /\ \A q \in 1..n : h.prom[q] \in PromiseRec
      /\ h.unhandled \in Seq(NodeRec) /\ p \in Nat /\ p # 0
  BY <1>1, HeapFacts
<1>3. cb \in Seq(ReactionRec) /\ m \in Nat
  BY <1>1, <1>2, LenProperties DEF PromiseRec
<1>4. /\ g \in HeapRec /\ Len(g.prom) = n
      /\ \A q \in 1..n : q # p => g.prom[q] = h.prom[q]
      /\ g.prom[p].state = state /\ g.prom[p].value = value /\ g.prom[p].callbacks = <<>>
      /\ g.prom[p].handled = h.prom[p].handled /\ g.prom[p].reactions = h.prom[p].reactions
  BY DEF SettledHeap
<1>5. /\ Len(g.jobs) = l + m
      /\ \A k \in 1..l : g.jobs[k] = h.jobs[k]
      /\ \A k \in 1..m : FromReaction(g.jobs[l + k], cb[m + 1 - k], p, state, value)
  BY DEF SettledHeap
<1>6. g.unhandled = IF state = "rejected" /\ cb = <<>> /\ ~h.prom[p].handled
                    THEN <<[promise |-> p, handled |-> FALSE]>> \o h.unhandled ELSE h.unhandled
  BY DEF SettledHeap
<1>7. \A k \in 1..(l + m) : k \in 1..l \/ \E i \in 1..m : k = l + i
  BY <1>2, <1>3, SplitIndex
<1> HIDE DEF n, m, l, cb
<1>8. PromOK(g.prom)
  BY <1>1, <1>4 DEF PromOK, n
<1>9. CallbacksOK(g.prom, ft)
  <2> SUFFICES ASSUME NEW q \in 1..n, NEW k \in 1..Len(g.prom[q].callbacks)
               PROVE  MayAwait(n, ft, q, g.prom[q].callbacks[k].chained)
    BY <1>4 DEF CallbacksOK
  <2>1. q # p
    BY <1>4
  <2> QED BY <1>1, <1>4, <2>1 DEF CallbacksOK, n
<1>10. \A k \in 1..l : g.jobs[k].from # p
  <2> TAKE k \in 1..l
  <2>1. /\ h.jobs[k].kind = "thenable" => h.jobs[k].from = 0
        /\ h.jobs[k].kind # "thenable" => h.prom[h.jobs[k].from].state # "pending"
    BY JobFacts DEF l
  <2> QED BY <1>2, <1>5, <2>1
<1>11. JobsOK(g.prom, g.jobs, ft)
  <2> SUFFICES ASSUME NEW k \in 1..(l + m) PROVE JobOK(g.prom, ft, g.jobs[k])
    BY <1>5 DEF JobsOK
  <2>1. CASE k \in 1..l
    <3>1. JobOK(h.prom, ft, h.jobs[k])
      BY <1>1, <2>1 DEF JobsOK, l
    <3>2. \A q \in 1..n : h.prom[q].state # "pending" =>
            g.prom[q].state = h.prom[q].state /\ g.prom[q].value = h.prom[q].value
      BY <1>4
    <3>3. JobOK(g.prom, ft, h.jobs[k])
      BY <1>2, <1>4, <3>1, <3>2, JobKept DEF n
    <3> QED BY <1>5, <2>1, <3>3
  <2>2. CASE \E i \in 1..m : k = l + i
    <3>1. PICK i \in 1..m : k = l + i
      BY <2>2
    <3>2. FromReaction(g.jobs[k], cb[m + 1 - i], p, state, value)
      BY <1>5, <3>1
    <3>3. m + 1 - i \in 1..m
      BY <1>3
    <3>4. MayAwait(n, ft, p, cb[m + 1 - i].chained)
      BY <1>1, <3>3 DEF CallbacksOK, n, m, cb
    <3>5. /\ g.jobs[k].kind # "thenable" /\ OutcomeOf(g.jobs[k].kind) = state /\ g.jobs[k].value = value
          /\ g.jobs[k].from = p /\ MayAwait(n, ft, p, g.jobs[k].chained)
      BY <3>2, <3>4 DEF FromReaction
    <3>6. g.jobs[k].chained \in 1..n
      BY <3>5 DEF MayAwait
    <3> QED BY <1>4, <3>5, <3>6 DEF JobOK, n
  <2> QED BY <1>7, <2>1, <2>2
<1>12. ListOK(g.prom, g.unhandled)
  <2>0. \A k \in 1..Len(h.unhandled) : h.unhandled[k].promise # p
    BY <1>1 DEF ListOK
  <2>1. CASE state = "rejected" /\ cb = <<>> /\ ~h.prom[p].handled
    <3> DEFINE a == [promise |-> p, handled |-> FALSE]
               u == Len(h.unhandled)
               t == g.unhandled
    <3>1. <<a>> \in Seq(NodeRec) /\ Len(<<a>>) = 1 /\ <<a>>[1] = a
      <4>1. a \in NodeRec
        BY <1>2 DEF NodeRec
      <4> QED BY <4>1
    <3>2. t = <<a>> \o h.unhandled
      BY <1>6, <2>1
    <3>3. /\ Len(t) = 1 + u
          /\ \A k \in 1..1 : t[k] = <<a>>[k]
          /\ \A k \in (1 + 1)..(1 + u) : t[k] = h.unhandled[k - 1]
      BY <1>2, <3>1, <3>2, ConcatFacts
    <3>4. u \in Nat /\ Len(t) = u + 1 /\ t[1] = a
      BY <1>2, <3>1, <3>3
    <3>5. \A k \in 1..u : t[k + 1] = h.unhandled[k]
      <4> TAKE k \in 1..u
      <4>1. k + 1 \in (1 + 1)..(1 + u) /\ (k + 1) - 1 = k
        BY <3>4
      <4> QED BY <3>3, <4>1
    <3>6. \A k \in 1..(u + 1) : k = 1 \/ \E i \in 1..u : k = i + 1
      <4> SUFFICES ASSUME NEW k \in 1..(u + 1), k # 1 PROVE \E i \in 1..u : k = i + 1
        OBVIOUS
      <4>1. k - 1 \in 1..u /\ k = (k - 1) + 1
        BY <3>4
      <4> QED BY <4>1
    <3>7. a.promise = p /\ a.handled = FALSE
      OBVIOUS
    <3> HIDE DEF u, t, a
    <3>8. \A k \in 1..(u + 1) : t[k].promise \in 1..n /\ g.prom[t[k].promise].state = "rejected"
      <4> TAKE k \in 1..(u + 1)
      <4>1. CASE k = 1
        BY <1>4, <2>1, <3>4, <3>7, <4>1 DEF n
      <4>2. CASE \E i \in 1..u : k = i + 1
        <5>1. PICK i \in 1..u : k = i + 1
          BY <4>2
        <5>2. t[k] = h.unhandled[i]
          BY <3>5, <5>1
        <5>3. h.unhandled[i].promise \in 1..n /\ h.prom[h.unhandled[i].promise].state = "rejected"
          BY <1>1 DEF ListOK, u, n
        <5>4. h.unhandled[i].promise # p
          BY <5>3
        <5> QED BY <1>4, <5>2, <5>3, <5>4
      <4> QED BY <3>6, <4>1, <4>2
    <3>9. \A k \in 1..u : t[k + 1].promise # p
      BY <2>0, <3>5 DEF u
    <3>10. \A k, i \in 1..(u + 1) : t[k].promise = t[i].promise => k = i
      <4> SUFFICES ASSUME NEW k \in 1..(u + 1), NEW i \in 1..(u + 1), t[k].promise = t[i].promise
                   PROVE  k = i
        OBVIOUS
      <4>1. CASE k = 1
        BY <3>4, <3>6, <3>7, <3>9, <4>1
      <4>2. CASE i = 1
        BY <3>4, <3>6, <3>7, <3>9, <4>2
      <4>3. CASE k # 1 /\ i # 1
        <5>1. PICK k2 \in 1..u : k = k2 + 1
          BY <3>6, <4>3
        <5>2. PICK i2 \in 1..u : i = i2 + 1
          BY <3>6, <4>3
        <5>3. h.unhandled[k2].promise = h.unhandled[i2].promise
          BY <3>5, <5>1, <5>2
        <5> QED BY <1>1, <5>1, <5>2, <5>3 DEF ListOK, u
      <4> QED BY <4>1, <4>2, <4>3
    <3>11. \A q \in 1..n : g.prom[q].state = "rejected" /\ ~g.prom[q].handled =>
             \E k \in 1..(u + 1) : t[k] = [promise |-> q, handled |-> FALSE]
      <4> SUFFICES ASSUME NEW q \in 1..n, g.prom[q].state = "rejected", ~g.prom[q].handled
                   PROVE  \E k \in 1..(u + 1) : t[k] = [promise |-> q, handled |-> FALSE]
        OBVIOUS
      <4>1. CASE q = p
        <5>1. 1 \in 1..(u + 1)
          BY <3>4
        <5> QED BY <3>4, <4>1, <5>1 DEF a
      <4>2. CASE q # p
        <5>1. PICK k \in 1..u : h.unhandled[k] = [promise |-> q, handled |-> FALSE]
          BY <1>1, <1>4, <4>2 DEF ListOK, u, n
        <5>2. k + 1 \in 1..(u + 1)
          BY SMTT(30), <3>4
        <5> QED BY <3>5, <5>1, <5>2
      <4> QED BY <4>1, <4>2
    <3> QED BY <1>4, <3>4, <3>8, <3>10, <3>11 DEF ListOK, t
  <2>2. CASE ~(state = "rejected" /\ cb = <<>> /\ ~h.prom[p].handled)
    <3>1. g.unhandled = h.unhandled
      BY <1>6, <2>2
    <3>2. g.prom[p].state = "rejected" => g.prom[p].handled
      BY <1>1, <1>4, <2>2 DEF PromOK, cb, n
    <3>3. \A k \in 1..Len(h.unhandled) : h.unhandled[k].promise \in 1..n /\ g.prom[h.unhandled[k].promise].state = "rejected"
      BY <1>1, <1>4, <2>0 DEF ListOK, n
    <3>4. \A q \in 1..n : g.prom[q].state = "rejected" /\ ~g.prom[q].handled =>
             \E k \in 1..Len(h.unhandled) : h.unhandled[k] = [promise |-> q, handled |-> FALSE]
      <4> SUFFICES ASSUME NEW q \in 1..n, g.prom[q].state = "rejected", ~g.prom[q].handled
                   PROVE  \E k \in 1..Len(h.unhandled) : h.unhandled[k] = [promise |-> q, handled |-> FALSE]
        OBVIOUS
      <4>1. q # p
        BY <3>2
      <4> QED BY <1>1, <1>4, <4>1 DEF ListOK, n
    <3>5. \A k, i \in 1..Len(h.unhandled) : h.unhandled[k].promise = h.unhandled[i].promise => k = i
      BY <1>1 DEF ListOK
    <3>6. Len(g.prom) = n
      BY <1>4
    <3> QED BY ONLY <3>1, <3>3, <3>4, <3>5, <3>6 DEF ListOK
  <2> QED BY <2>1, <2>2
<1>13. /\ st[p] = 0 /\ m = h.prom[p].reactions /\ m \in Nat
       /\ \A k \in 1..m : cb[k].place = m + 1 - k
  BY <1>1, <1>3 DEF OrderOK, PendingOrder, m, cb
<1>14. \A k \in 1..m : g.jobs[l + k].from = p /\ g.jobs[l + k].place = k
  <2> TAKE k \in 1..m
  <2>1. m + 1 - k \in 1..m /\ m + 1 - (m + 1 - k) = k
    BY <1>3
  <2> QED BY <1>5, <1>13, <2>1 DEF FromReaction
<1>15. OrderOK(g.prom, g.jobs, st)
  <2>1. \A q \in 1..n : g.prom[q].state = "pending" => PendingOrder(g.prom, st, q)
    <3> SUFFICES ASSUME NEW q \in 1..n, g.prom[q].state = "pending" PROVE PendingOrder(g.prom, st, q)
      OBVIOUS
    <3>1. g.prom[q] = h.prom[q]
      BY <1>4
    <3>2. PendingOrder(h.prom, st, q)
      BY <1>1, <3>1 DEF OrderOK, n
    <3> QED BY <3>1, <3>2 DEF PendingOrder
  <2>2. \A k \in 1..(l + m) : g.jobs[k].from # 0 => InRange(g.prom, st, g.jobs[k])
    <3> SUFFICES ASSUME NEW k \in 1..(l + m), g.jobs[k].from # 0 PROVE InRange(g.prom, st, g.jobs[k])
      OBVIOUS
    <3>1. CASE k \in 1..l
      <4>1. g.jobs[k] = h.jobs[k] /\ g.jobs[k].from # p
        BY <1>5, <1>10, <3>1
      <4>2. h.jobs[k].from \in 1..n
        BY <3>1, <4>1, JobFacts DEF l, n
      <4>3. InRange(h.prom, st, h.jobs[k])
        BY <1>1, <3>1, <4>1 DEF OrderOK, l
      <4>4. g.prom[h.jobs[k].from] = h.prom[h.jobs[k].from]
        BY <1>4, <4>1, <4>2
      <4> QED BY <4>1, <4>3, <4>4 DEF InRange
    <3>2. CASE \E i \in 1..m : k = l + i
      <4>1. PICK i \in 1..m : k = l + i
        BY <3>2
      <4>2. g.jobs[k].from = p /\ g.jobs[k].place = i
        BY <1>14, <4>1
      <4>3. i \in (st[p] + 1)..g.prom[p].reactions
        BY <1>4, <1>13
      <4> QED BY <4>2, <4>3 DEF InRange
    <3> QED BY <1>7, <3>1, <3>2
  <2>3. \A k, i \in 1..(l + m) : k < i /\ g.jobs[k].from # 0 /\ g.jobs[i].from = g.jobs[k].from =>
          g.jobs[k].place < g.jobs[i].place
    <3> SUFFICES ASSUME NEW k \in 1..(l + m), NEW i \in 1..(l + m), k < i, g.jobs[k].from # 0,
                        g.jobs[i].from = g.jobs[k].from
                 PROVE  g.jobs[k].place < g.jobs[i].place
      OBVIOUS
    <3>1. CASE i \in 1..l
      <4>1. k \in 1..l
        BY <1>2, <1>3, <3>1
      <4> QED BY <1>1, <1>5, <3>1, <4>1 DEF OrderOK, Increasing, l
    <3>2. CASE i \notin 1..l
      <4>1. PICK i2 \in 1..m : i = l + i2
        BY <1>7, <3>2
      <4>2. k \notin 1..l
        BY <1>10, <1>14, <4>1
      <4>3. PICK k2 \in 1..m : k = l + k2
        BY <1>7, <4>2
      <4>4. k2 < i2
        BY <1>2, <1>3, <4>1, <4>3
      <4> QED BY <1>14, <4>1, <4>3, <4>4
    <3> QED BY <3>1, <3>2
  <2>4. \A q \in 1..n : g.prom[q].state # "pending" => AllThere(g.prom, g.jobs, st, q)
    <3>0. \A q \in 1..n : g.prom[q].state # "pending" => st[q] <= g.prom[q].reactions
      <4> SUFFICES ASSUME NEW q \in 1..n, g.prom[q].state # "pending" PROVE st[q] <= g.prom[q].reactions
        OBVIOUS
      <4>1. CASE q = p
        BY <1>4, <1>13, <4>1
      <4>2. CASE q # p
        BY <1>1, <1>4, <4>2 DEF OrderOK, AllThere, n
      <4> QED BY <4>1, <4>2
    <3> SUFFICES ASSUME NEW q \in 1..n, g.prom[q].state # "pending",
                        NEW i \in (st[q] + 1)..g.prom[q].reactions
                 PROVE  \E k \in 1..(l + m) : g.jobs[k].from = q /\ g.jobs[k].place = i
      BY <1>5, <3>0 DEF AllThere
    <3>1. CASE q = p
      <4>1. i \in 1..m
        BY <1>4, <1>13, <3>1
      <4>2. l + i \in 1..(l + m)
        BY SMTT(30), <1>2, <1>3, <4>1
      <4> QED BY <1>14, <3>1, <4>1, <4>2
    <3>2. CASE q # p
      <4>1. PICK k \in 1..l : h.jobs[k].from = q /\ h.jobs[k].place = i
        BY <1>1, <1>4, <3>2 DEF OrderOK, AllThere, n, l
      <4>2. k \in 1..(l + m)
        BY <1>2, <1>3
      <4> QED BY <1>5, <4>1, <4>2
    <3> QED BY <3>1, <3>2
  <2> QED BY <1>4, <1>5, <2>1, <2>2, <2>3, <2>4 DEF OrderOK, Increasing
<1> QED BY <1>4, <1>8, <1>9, <1>11, <1>12, <1>15 DEF HeapOK

LEMMA AttachOK ==
  ASSUME NEW h, NEW ft, NEW st \in Seq(Nat), HeapOK(h, ft, st), Len(st) = Len(h.prom),
         NEW q \in 1..Len(h.prom), NEW c, MayAwait(Len(h.prom), ft, q, c),
         NEW g, AttachedHeap(h, q, c, g)
  PROVE  HeapOK(g, ft, st)
<1> DEFINE n == Len(h.prom)
           l == Len(h.jobs)
           pq == h.prom[q]
           m == Len(h.prom[q].callbacks)
<1>1. /\ h \in HeapRec /\ PromOK(h.prom) /\ CallbacksOK(h.prom, ft) /\ JobsOK(h.prom, h.jobs, ft)
      /\ ListOK(h.prom, h.unhandled) /\ OrderOK(h.prom, h.jobs, st)
  BY DEF HeapOK
<1>2. n \in Nat /\ l \in Nat /\ pq \in PromiseRec /\ q \in Nat /\ q # 0
  BY <1>1, HeapFacts
<1>3. pq.callbacks \in Seq(ReactionRec) /\ m \in Nat /\ pq.reactions \in Nat
  BY <1>2, LenProperties DEF PromiseRec
<1>4. /\ g \in HeapRec /\ Len(g.prom) = n
      /\ \A p \in 1..n : p # q => g.prom[p] = h.prom[p]
      /\ g.prom[q].state = pq.state /\ g.prom[q].value = pq.value
      /\ g.prom[q].handled = TRUE /\ g.prom[q].reactions = pq.reactions + 1
      /\ g.unhandled = h.unhandled
  BY DEF AttachedHeap
<1>5. pq.state = "pending" =>
        /\ g.jobs = h.jobs /\ Len(g.prom[q].callbacks) = m + 1
        /\ g.prom[q].callbacks[1].chained = c
        /\ g.prom[q].callbacks[1].place = pq.reactions + 1
        /\ \A k \in 1..m : g.prom[q].callbacks[k + 1] = pq.callbacks[k]
  BY DEF AttachedHeap
<1>6. pq.state # "pending" =>
        /\ g.prom[q].callbacks = pq.callbacks /\ Len(g.jobs) = l + 1
        /\ \A k \in 1..l : g.jobs[k] = h.jobs[k]
        /\ FromReaction(g.jobs[l + 1], [chained |-> c, place |-> pq.reactions + 1], q, pq.state, pq.value)
  BY DEF AttachedHeap
<1>7. \A k \in 1..(m + 1) : k = 1 \/ \E i \in 1..m : k = i + 1
  <2> HIDE DEF m
  <2> SUFFICES ASSUME NEW k \in 1..(m + 1), k # 1 PROVE \E i \in 1..m : k = i + 1
    OBVIOUS
  <2>1. k - 1 \in 1..m /\ k = (k - 1) + 1
    BY SMTT(30), <1>3
  <2> QED BY <2>1
<1> HIDE DEF n, l, pq, m
<1>8. PromOK(g.prom)
  <2> SUFFICES ASSUME NEW p \in 1..n
               PROVE  /\ g.prom[p].state # "pending" => g.prom[p].callbacks = <<>>
                      /\ g.prom[p].callbacks # <<>> => g.prom[p].handled
                      /\ g.prom[p].state = "fulfilled" => g.prom[p].value \in Ordinary
    BY <1>4 DEF PromOK
  <2>1. CASE p = q
    BY <1>1, <1>4, <1>6, <2>1 DEF PromOK, n, pq
  <2>2. CASE p # q
    BY <1>1, <1>4, <2>2 DEF PromOK, n
  <2> QED BY <2>1, <2>2
<1>9. CallbacksOK(g.prom, ft)
  <2> SUFFICES ASSUME NEW p \in 1..n, NEW k \in 1..Len(g.prom[p].callbacks)
               PROVE  MayAwait(n, ft, p, g.prom[p].callbacks[k].chained)
    BY <1>4 DEF CallbacksOK
  <2>1. CASE p # q
    BY <1>1, <1>4, <2>1 DEF CallbacksOK, n
  <2>2. CASE p = q /\ pq.state # "pending"
    BY <1>1, <1>6, <2>2 DEF CallbacksOK, n, pq
  <2>3. CASE p = q /\ pq.state = "pending"
    <3>1. k \in 1..(m + 1)
      BY <1>5, <2>3
    <3>2. CASE k = 1
      BY <1>5, <2>3, <3>2 DEF n
    <3>3. CASE \E i \in 1..m : k = i + 1
      <4>1. PICK i \in 1..m : k = i + 1
        BY <3>3
      <4>2. g.prom[p].callbacks[k] = pq.callbacks[i]
        BY <1>5, <2>3, <4>1
      <4>3. MayAwait(n, ft, q, pq.callbacks[i].chained)
        BY <1>1 DEF CallbacksOK, n, m, pq
      <4> QED BY <2>3, <4>2, <4>3
    <3> QED BY <1>7, <3>1, <3>2, <3>3
  <2> QED BY <2>1, <2>2, <2>3
<1>10. \A j : JobOK(h.prom, ft, j) => JobOK(g.prom, ft, j)
  <2>1. \A p \in 1..n : g.prom[p].state = h.prom[p].state /\ g.prom[p].value = h.prom[p].value
    BY <1>4 DEF pq
  <2> QED BY <1>2, <1>4, <2>1, JobKept DEF n
<1>11. JobsOK(g.prom, g.jobs, ft)
  <2>1. CASE pq.state = "pending"
    BY <1>1, <1>5, <1>10, <2>1 DEF JobsOK
  <2>2. CASE pq.state # "pending"
    <3> DEFINE j == g.jobs[l + 1]
    <3>1. /\ j.kind # "thenable" /\ OutcomeOf(j.kind) = pq.state /\ j.value = pq.value
          /\ j.from = q /\ j.chained = c
      BY <1>6, <2>2 DEF FromReaction
    <3>2. c \in 1..n
      BY DEF MayAwait, n
    <3>3. JobOK(g.prom, ft, j)
      BY <1>4, <3>1, <3>2 DEF JobOK, n
    <3>4. \A k \in 1..l : JobOK(g.prom, ft, g.jobs[k])
      BY <1>1, <1>6, <1>10, <2>2 DEF JobsOK, l
    <3>5. \A k \in 1..(l + 1) : k \in 1..l \/ k = l + 1
      BY <1>2
    <3> HIDE DEF j
    <3>6. \A k \in 1..(l + 1) : JobOK(g.prom, ft, g.jobs[k])
      BY <3>3, <3>4, <3>5 DEF j
    <3> QED BY <1>6, <2>2, <3>6 DEF JobsOK
  <2> QED BY <2>1, <2>2
<1>12. ListOK(g.prom, g.unhandled)
  <2>1. \A p \in 1..n : g.prom[p].state = h.prom[p].state
    BY <1>4 DEF pq
  <2>2. \A p \in 1..n : ~g.prom[p].handled => ~h.prom[p].handled
    BY <1>4
  <2> DEFINE u == h.unhandled
  <2>3. \A k \in 1..Len(u) : u[k].promise \in 1..n /\ g.prom[u[k].promise].state = "rejected"
    BY <1>1, <2>1 DEF ListOK, n
  <2>4. \A k, i \in 1..Len(u) : u[k].promise = u[i].promise => k = i
    BY <1>1 DEF ListOK
  <2>5. \A p \in 1..n : g.prom[p].state = "rejected" /\ ~g.prom[p].handled =>
          \E k \in 1..Len(u) : u[k] = [promise |-> p, handled |-> FALSE]
    BY <1>1, <2>1, <2>2 DEF ListOK, n
  <2> QED BY SMTT(30), <1>4, <2>3, <2>4, <2>5 DEF ListOK
<1>13. OrderOK(g.prom, g.jobs, st)
  <2>1. \A p \in 1..n : g.prom[p].state = "pending" => PendingOrder(g.prom, st, p)
    <3> SUFFICES ASSUME NEW p \in 1..n, g.prom[p].state = "pending" PROVE PendingOrder(g.prom, st, p)
      OBVIOUS
    <3>1. CASE p # q
      <4>1. g.prom[p] = h.prom[p]
        BY <1>4, <3>1
      <4>2. PendingOrder(h.prom, st, p)
        BY <1>1, <4>1 DEF OrderOK, n
      <4> QED BY <4>1, <4>2 DEF PendingOrder
    <3>2. CASE p = q
      <4>1. pq.state = "pending"
        BY <1>4, <3>2
      <4>2. /\ st[q] = 0 /\ m = pq.reactions
            /\ \A k \in 1..m : pq.callbacks[k].place = pq.reactions + 1 - k
        BY <1>1, <4>1 DEF OrderOK, PendingOrder, m, pq
      <4>3. Len(g.prom[q].callbacks) = m + 1 /\ g.prom[q].reactions = m + 1
        BY <1>4, <1>5, <4>1, <4>2
      <4>4. \A k \in 1..(m + 1) : g.prom[q].callbacks[k].place = m + 1 + 1 - k
        <5> TAKE k \in 1..(m + 1)
        <5>1. CASE k = 1
          BY <1>3, <1>5, <4>1, <4>2, <5>1
        <5>2. CASE \E i \in 1..m : k = i + 1
          <6>1. PICK i \in 1..m : k = i + 1
            BY <5>2
          <6>2. g.prom[q].callbacks[k].place = m + 1 - i
            BY <1>5, <4>1, <4>2, <6>1
          <6> QED BY <1>3, <6>1, <6>2
        <5> QED BY <1>7, <5>1, <5>2
      <4> QED BY <3>2, <4>2, <4>3, <4>4 DEF PendingOrder
    <3> QED BY <3>1, <3>2
  <2>2. \A j : j.from \in 1..n /\ j.place \in Nat /\ InRange(h.prom, st, j) => InRange(g.prom, st, j)
    <3> SUFFICES ASSUME NEW j, j.from \in 1..n, j.place \in Nat, InRange(h.prom, st, j)
                 PROVE  InRange(g.prom, st, j)
      OBVIOUS
    <3>1. CASE j.from # q
      BY <1>4, <3>1 DEF InRange
    <3>2. CASE j.from = q
      <4>1. st[q] \in Nat
        BY ElementOfSeq
      <4>2. j.place \in (st[q] + 1)..pq.reactions
        BY <3>2 DEF InRange, pq
      <4>3. j.place \in (st[q] + 1)..(pq.reactions + 1)
        BY <1>3, <4>1, <4>2
      <4> QED BY <1>4, <3>2, <4>3 DEF InRange
    <3> QED BY <3>1, <3>2
  <2>3. \A k \in 1..l : h.jobs[k].from # 0 => InRange(g.prom, st, h.jobs[k])
    <3> SUFFICES ASSUME NEW k \in 1..l, h.jobs[k].from # 0 PROVE InRange(g.prom, st, h.jobs[k])
      OBVIOUS
    <3>1. h.jobs[k].from \in 1..n /\ h.jobs[k].place \in Nat
      BY JobFacts DEF l, n
    <3>2. InRange(h.prom, st, h.jobs[k])
      BY <1>1 DEF OrderOK, l
    <3> QED BY <2>2, <3>1, <3>2
  <2>4. CASE pq.state = "pending"
    <3>1. \A p \in 1..n : g.prom[p].state # "pending" => AllThere(g.prom, g.jobs, st, p)
      <4> SUFFICES ASSUME NEW p \in 1..n, g.prom[p].state # "pending" PROVE AllThere(g.prom, g.jobs, st, p)
        OBVIOUS
      <4>1. g.prom[p] = h.prom[p]
        BY <1>4, <2>4
      <4>2. AllThere(h.prom, h.jobs, st, p)
        BY <1>1, <4>1 DEF OrderOK, n
      <4> QED BY ZenonT(40), <1>5, <2>4, <4>1, <4>2 DEF AllThere
    <3>2. \A k \in 1..Len(g.jobs) : g.jobs[k].from # 0 => InRange(g.prom, st, g.jobs[k])
      BY <1>5, <2>3, <2>4 DEF l
    <3>3. Increasing(g.jobs)
      BY <1>1, <1>5, <2>4 DEF OrderOK
    <3> QED BY <1>4, <2>1, <3>1, <3>2, <3>3 DEF OrderOK
  <2>5. CASE pq.state # "pending"
    <3> DEFINE j == g.jobs[l + 1]
               b == pq.reactions + 1
    <3>1. j.from = q /\ j.place = b
      BY <1>6, <2>5 DEF FromReaction
    <3>2. Len(g.jobs) = l + 1 /\ \A k \in 1..l : g.jobs[k] = h.jobs[k]
      BY <1>6, <2>5
    <3>3. b \in Nat /\ g.prom[q].reactions = b
      BY <1>3, <1>4
    <3>4. \A k \in 1..(l + 1) : k \in 1..l \/ k = l + 1
      BY <1>2
    <3>5. st[q] \in Nat /\ st[q] <= pq.reactions
      <4>1. st[q] \in Nat
        BY ElementOfSeq
      <4> QED BY <1>1, <2>5, <4>1 DEF OrderOK, AllThere, pq
    <3> HIDE DEF j, b
    <3>6. InRange(g.prom, st, j)
      <4>1. b \in (st[q] + 1)..b
        BY <1>3, <3>3, <3>5 DEF b
      <4> QED BY <3>1, <3>3, <4>1 DEF InRange
    <3>7. \A k \in 1..(l + 1) : g.jobs[k].from # 0 => InRange(g.prom, st, g.jobs[k])
      BY <2>3, <3>2, <3>4, <3>6 DEF j
    <3>8. Increasing(g.jobs)
      <4> SUFFICES ASSUME NEW k \in 1..(l + 1), NEW i \in 1..(l + 1), k < i, g.jobs[k].from # 0,
                          g.jobs[i].from = g.jobs[k].from
                   PROVE  g.jobs[k].place < g.jobs[i].place
        BY <3>2 DEF Increasing
      <4>1. k \in 1..l
        BY <1>2
      <4>2. CASE i \in 1..l
        BY <1>1, <3>2, <4>1, <4>2 DEF OrderOK, Increasing, l
      <4>3. CASE i = l + 1
        <5>1. h.jobs[k].from = q
          BY <3>1, <3>2, <4>1, <4>3 DEF j
        <5>2. InRange(h.prom, st, h.jobs[k])
          BY <1>1, <1>2, <4>1, <5>1 DEF OrderOK, l
        <5>3. h.jobs[k].place \in (st[q] + 1)..pq.reactions
          BY <5>1, <5>2 DEF InRange, pq
        <5>4. h.jobs[k].place < b
          BY SMTT(30), <1>3, <3>5, <5>3 DEF b
        <5> QED BY <3>1, <3>2, <4>1, <4>3, <5>4 DEF j
      <4> QED BY <3>4, <4>2, <4>3
    <3>9. \A p \in 1..n : g.prom[p].state # "pending" => AllThere(g.prom, g.jobs, st, p)
      <4> SUFFICES ASSUME NEW p \in 1..n, g.prom[p].state # "pending" PROVE AllThere(g.prom, g.jobs, st, p)
        OBVIOUS
      <4>1. \A i : (\E k \in 1..l : h.jobs[k].from = p /\ h.jobs[k].place = i) =>
                   \E k \in 1..(l + 1) : g.jobs[k].from = p /\ g.jobs[k].place = i
        <5>1. \A k \in 1..l : k \in 1..(l + 1)
          BY <1>2
        <5> QED BY <3>2, <5>1
      <4>2. CASE p # q
        <5>1. g.prom[p] = h.prom[p] /\ AllThere(h.prom, h.jobs, st, p)
          BY <1>1, <1>4, <4>2 DEF OrderOK, n
        <5> QED BY <3>2, <4>1, <5>1 DEF AllThere, l
      <4>3. CASE p = q
        <5>1. AllThere(h.prom, h.jobs, st, q)
          BY <1>1, <2>5 DEF OrderOK, pq
        <5>2. \A i \in (st[q] + 1)..b : i \in (st[q] + 1)..pq.reactions \/ i = b
          BY <1>3, <3>5 DEF b
        <5>3. \A i \in (st[q] + 1)..pq.reactions : \E k \in 1..l : h.jobs[k].from = q /\ h.jobs[k].place = i
          BY <5>1 DEF AllThere, l, pq
        <5>4. l + 1 \in 1..(l + 1)
          BY <1>2
        <5>5. \A i \in (st[q] + 1)..b : \E k \in 1..(l + 1) : g.jobs[k].from = q /\ g.jobs[k].place = i
          BY <3>1, <4>1, <4>3, <5>2, <5>3, <5>4 DEF j
        <5>6. st[q] <= b
          BY <1>3, <3>5 DEF b
        <5> QED BY <3>2, <3>3, <4>3, <5>5, <5>6 DEF AllThere
      <4> QED BY <4>2, <4>3
    <3> QED BY <1>4, <2>1, <3>2, <3>7, <3>8, <3>9 DEF OrderOK
  <2> QED BY <2>4, <2>5
<1> QED BY <1>4, <1>8, <1>9, <1>11, <1>12, <1>13 DEF HeapOK

\* __mark_rejection_handled: the list of a promise that has a reaction
LEMMA MarkOK ==
  ASSUME NEW h, NEW ft, NEW st, HeapOK(h, ft, st), NEW q \in 1..Len(h.prom), h.prom[q].handled
  PROVE  LET g == [h EXCEPT !.unhandled = MarkHandled(h.unhandled, q)]
         IN  HeapOK(g, ft, st) /\ g.prom = h.prom /\ g.jobs = h.jobs
<1> DEFINE u == h.unhandled
           t == MarkHandled(u, q)
           g == [h EXCEPT !.unhandled = t]
<1>1. /\ h \in HeapRec /\ PromOK(h.prom) /\ CallbacksOK(h.prom, ft) /\ JobsOK(h.prom, h.jobs, ft)
      /\ ListOK(h.prom, u) /\ OrderOK(h.prom, h.jobs, st)
  BY DEF HeapOK
<1>2. u \in Seq(NodeRec) /\ Len(u) \in Nat /\ DOMAIN u = 1..Len(u) /\ \A k \in 1..Len(u) : u[k] \in NodeRec
  BY <1>1, HeapFacts, LenProperties
<1>3. \A k \in 1..Len(u) :
        t[k] \in NodeRec /\ t[k].promise = u[k].promise /\ (u[k].promise # q => t[k] = u[k])
  <2> TAKE k \in 1..Len(u)
  <2>1. t[k] = u[k] \/ (u[k].promise = q /\ t[k] = [u[k] EXCEPT !.handled = TRUE])
    BY <1>2 DEF MarkHandled
  <2>2. /\ [u[k] EXCEPT !.handled = TRUE] \in NodeRec
        /\ [u[k] EXCEPT !.handled = TRUE].promise = u[k].promise
    BY <1>2 DEF NodeRec
  <2> HIDE DEF t, u
  <2> QED BY <1>2, <2>1, <2>2
<1>4. t \in Seq(NodeRec) /\ Len(t) = Len(u)
  <2>1. DOMAIN t = 1..Len(u) /\ t = [k \in 1..Len(u) |-> t[k]]
    BY <1>2 DEF MarkHandled
  <2> HIDE DEF t, u
  <2>2. t \in [1..Len(u) -> NodeRec]
    BY <1>3, <2>1
  <2> QED BY <1>2, <2>2, FunIsSeq
<1> HIDE DEF t
<1>5. g \in HeapRec /\ g.prom = h.prom /\ g.jobs = h.jobs /\ g.unhandled = t
  BY <1>1, <1>4 DEF HeapRec
<1> HIDE DEF u, g
<1>6. ListOK(h.prom, t)
  <2>1. \A k \in 1..Len(t) : t[k].promise \in 1..Len(h.prom) /\ h.prom[t[k].promise].state = "rejected"
    BY <1>1, <1>3, <1>4 DEF ListOK
  <2>2. \A k, i \in 1..Len(t) : t[k].promise = t[i].promise => k = i
    BY <1>1, <1>3, <1>4 DEF ListOK
  <2>3. \A p \in 1..Len(h.prom) : h.prom[p].state = "rejected" /\ ~h.prom[p].handled =>
          \E k \in 1..Len(t) : t[k] = [promise |-> p, handled |-> FALSE]
    <3> SUFFICES ASSUME NEW p \in 1..Len(h.prom), h.prom[p].state = "rejected", ~h.prom[p].handled
                 PROVE  \E k \in 1..Len(t) : t[k] = [promise |-> p, handled |-> FALSE]
      OBVIOUS
    <3>1. PICK k \in 1..Len(u) : u[k] = [promise |-> p, handled |-> FALSE]
      BY <1>1 DEF ListOK
    <3>2. u[k].promise # q
      BY <3>1
    <3> QED BY <1>3, <1>4, <3>1, <3>2
  <2> QED BY <2>1, <2>2, <2>3 DEF ListOK
<1> QED BY <1>1, <1>5, <1>6 DEF HeapOK, g, t, u

\* A promise is made.
MadeHeap(h, g) ==
  /\ g \in HeapRec /\ Len(g.prom) = Len(h.prom) + 1
  /\ \A q \in 1..Len(h.prom) : g.prom[q] = h.prom[q]
  /\ g.prom[Len(h.prom) + 1] = NewPromiseStruct
  /\ g.jobs = h.jobs /\ g.unhandled = h.unhandled
  /\ \A x : Waits(g.prom, x) = Waits(h.prom, x)

LEMMA NewType == NewPromiseStruct \in PromiseRec
<1>1. <<>> \in Seq(ReactionRec) /\ Nothing \in Data
  BY EmptySeq DEF Data
<1> QED BY <1>1 DEF NewPromiseStruct, PromiseRec, States

LEMMA MadeShape ==
  ASSUME NEW h \in HeapRec
  PROVE  MadeHeap(h, Made(h))
<1> DEFINE pr == Append(h.prom, NewPromiseStruct)
<1>1. h.prom \in Seq(PromiseRec) /\ Len(h.prom) \in Nat /\ NewPromiseStruct \in PromiseRec
  BY HeapFacts, NewType
<1>2. /\ pr \in Seq(PromiseRec) /\ Len(pr) = Len(h.prom) + 1 /\ pr[Len(h.prom) + 1] = NewPromiseStruct
      /\ \A q \in 1..Len(h.prom) : pr[q] = h.prom[q]
  BY <1>1, AppendProperties
<1>3. \A x : Waits(pr, x) = Waits(h.prom, x)
  <2>1. NewPromiseStruct.callbacks = <<>>
    BY DEF NewPromiseStruct
  <2> QED BY <1>1, <2>1, WaitMade
<1>4. Made(h) = [h EXCEPT !.prom = pr]
  BY DEF Made
<1> HIDE DEF pr
<1>5. Made(h) \in HeapRec /\ Made(h).prom = pr /\ Made(h).jobs = h.jobs /\ Made(h).unhandled = h.unhandled
  BY <1>2, <1>4 DEF HeapRec
<1> QED BY <1>2, <1>3, <1>5 DEF MadeHeap

\* What is known of the old promises is known of them when there is one more.
LEMMA MayAwaitLater ==
  ASSUME NEW n \in Nat, NEW ft, NEW f2, \A p \in 1..n : f2[p] = ft[p], NEW q, NEW p, MayAwait(n, ft, q, p)
  PROVE  MayAwait(n + 1, f2, q, p) /\ p \in 1..(n + 1)
<1>1. p \in 1..n /\ p \in 1..(n + 1)
  BY DEF MayAwait
<1> QED BY <1>1 DEF MayAwait

LEMMA MadeOK ==
  ASSUME NEW h, NEW ft, NEW st, HeapOK(h, ft, st), NEW g, MadeHeap(h, g),
         NEW f2, \A p \in 1..Len(h.prom) : f2[p] = ft[p],
         NEW s2, \A p \in 1..Len(h.prom) : s2[p] = st[p], s2[Len(h.prom) + 1] = 0
  PROVE  HeapOK(g, f2, s2)
<1> DEFINE n == Len(h.prom)
           new == NewPromiseStruct
<1>1. /\ h \in HeapRec /\ PromOK(h.prom) /\ CallbacksOK(h.prom, ft) /\ JobsOK(h.prom, h.jobs, ft)
      /\ ListOK(h.prom, h.unhandled) /\ OrderOK(h.prom, h.jobs, st)
  BY DEF HeapOK
<1>2. n \in Nat
  BY <1>1, HeapFacts
<1>3. /\ g \in HeapRec /\ Len(g.prom) = n + 1 /\ \A q \in 1..n : g.prom[q] = h.prom[q]
      /\ g.prom[n + 1] = new /\ g.jobs = h.jobs /\ g.unhandled = h.unhandled
  BY DEF MadeHeap
<1>4. /\ new.state = "pending" /\ new.callbacks = <<>> /\ new.reactions = 0 /\ new.handled = FALSE
      /\ Len(new.callbacks) = 0
  BY DEF NewPromiseStruct
<1>5. \A q \in 1..(n + 1) : q \in 1..n \/ q = n + 1
  BY <1>2
<1>6. \A q \in 1..n : q \in 1..(n + 1)
  BY <1>2
<1> HIDE DEF n, new
<1>7. PromOK(g.prom)
  BY SMTT(30), <1>1, <1>3, <1>4, <1>5 DEF PromOK, n
<1>8. CallbacksOK(g.prom, f2)
  <2> SUFFICES ASSUME NEW q \in 1..(n + 1), NEW k \in 1..Len(g.prom[q].callbacks)
               PROVE  MayAwait(n + 1, f2, q, g.prom[q].callbacks[k].chained)
    BY <1>3 DEF CallbacksOK
  <2>1. q \in 1..n
    BY <1>3, <1>4, <1>5
  <2>2. MayAwait(n, ft, q, g.prom[q].callbacks[k].chained)
    BY <1>1, <1>3, <2>1 DEF CallbacksOK, n
  <2> QED BY <1>2, <2>2, MayAwaitLater DEF n
<1>9. JobsOK(g.prom, g.jobs, f2)
  <2> SUFFICES ASSUME NEW k \in 1..Len(h.jobs) PROVE JobOK(g.prom, f2, h.jobs[k])
    BY <1>3 DEF JobsOK
  <2> DEFINE j == h.jobs[k]
  <2>1. JobOK(h.prom, ft, j)
    BY <1>1 DEF JobsOK
  <2> HIDE DEF j
  <2>2. j.chained \in 1..(n + 1)
    BY <1>6, <2>1 DEF JobOK, n
  <2>3. CASE j.kind = "thenable"
    BY <1>3, <2>1, <2>2, <2>3 DEF JobOK, j
  <2>4. CASE j.kind # "thenable"
    <3>1. /\ j.from \in 1..n /\ h.prom[j.from].state = OutcomeOf(j.kind)
          /\ h.prom[j.from].value = j.value /\ MayAwait(n, ft, j.from, j.chained)
      BY <2>1, <2>4 DEF JobOK, n
    <3>2. MayAwait(n + 1, f2, j.from, j.chained)
      BY <1>2, <3>1, MayAwaitLater DEF n
    <3> QED BY <1>3, <1>6, <2>2, <2>4, <3>1, <3>2 DEF JobOK, j
  <2> QED BY <2>3, <2>4
<1>10. ListOK(g.prom, g.unhandled)
  <2> DEFINE u == h.unhandled
  <2>1. \A k \in 1..Len(u) : u[k].promise \in 1..n /\ h.prom[u[k].promise].state = "rejected"
    BY <1>1 DEF ListOK, n
  <2>2. \A k \in 1..Len(u) : u[k].promise \in 1..(n + 1) /\ g.prom[u[k].promise].state = "rejected"
    BY <1>3, <1>6, <2>1
  <2>3. \A k, i \in 1..Len(u) : u[k].promise = u[i].promise => k = i
    BY <1>1 DEF ListOK
  <2>4. \A p \in 1..(n + 1) : g.prom[p].state = "rejected" /\ ~g.prom[p].handled =>
          \E k \in 1..Len(u) : u[k] = [promise |-> p, handled |-> FALSE]
    <3> SUFFICES ASSUME NEW p \in 1..(n + 1), g.prom[p].state = "rejected", ~g.prom[p].handled
                 PROVE  \E k \in 1..Len(u) : u[k] = [promise |-> p, handled |-> FALSE]
      OBVIOUS
    <3>1. p \in 1..n
      BY <1>3, <1>4, <1>5
    <3> QED BY <1>1, <1>3, <3>1 DEF ListOK, n
  <2> QED BY <1>3, <2>2, <2>3, <2>4 DEF ListOK
<1>11. OrderOK(g.prom, g.jobs, s2)
  <2>1. ASSUME NEW q \in 1..(n + 1), g.prom[q].state = "pending" PROVE PendingOrder(g.prom, s2, q)
    <3>1. CASE q \in 1..n
      <4>1. PendingOrder(h.prom, st, q)
        BY <1>1, <1>3, <2>1, <3>1 DEF OrderOK, n
      <4> QED BY <1>3, <3>1, <4>1 DEF PendingOrder, n
    <3>2. CASE q = n + 1
      BY <1>3, <1>4, <3>2 DEF PendingOrder, n
    <3> QED BY <1>5, <3>1, <3>2
  <2>2. ASSUME NEW k \in 1..Len(h.jobs), h.jobs[k].from # 0 PROVE InRange(g.prom, s2, h.jobs[k])
    <3>1. h.jobs[k].from \in 1..n
      BY <2>2, JobFacts DEF n
    <3>2. InRange(h.prom, st, h.jobs[k])
      BY <1>1, <2>2 DEF OrderOK
    <3> QED BY <1>3, <3>1, <3>2 DEF InRange, n
  <2>3. ASSUME NEW q \in 1..(n + 1), g.prom[q].state # "pending" PROVE AllThere(g.prom, g.jobs, s2, q)
    <3>1. q \in 1..n
      BY <1>3, <1>4, <1>5, <2>3
    <3>2. AllThere(h.prom, h.jobs, st, q)
      BY <1>1, <1>3, <2>3, <3>1 DEF OrderOK, n
    <3> QED BY <1>3, <3>1, <3>2 DEF AllThere, n
  <2> QED BY <1>1, <1>3, <2>1, <2>2, <2>3 DEF OrderOK
<1> QED BY <1>3, <1>7, <1>8, <1>9, <1>10, <1>11 DEF HeapOK

\* The fate of a promise that nothing will settle may change.
LEMMA FateOK ==
  ASSUME NEW h, NEW ft, NEW st, HeapOK(h, ft, st), NEW f2, NEW p,
         \A x \in 1..Len(h.prom) : x # p => f2[x] = ft[x],
         \A q \in 1..Len(h.prom) : \A k \in 1..Len(h.prom[q].callbacks) : h.prom[q].callbacks[k].chained # p,
         \A k \in 1..Len(h.jobs) : h.jobs[k].chained # p
  PROVE  HeapOK(h, f2, st)
<1>1. \A q, x : x # p /\ MayAwait(Len(h.prom), ft, q, x) => MayAwait(Len(h.prom), f2, q, x)
  BY DEF MayAwait
<1>2. CallbacksOK(h.prom, ft) /\ JobsOK(h.prom, h.jobs, ft)
  BY DEF HeapOK
<1>3. CallbacksOK(h.prom, f2)
  BY <1>1, <1>2 DEF CallbacksOK
<1>4. JobsOK(h.prom, h.jobs, f2)
  BY <1>1, <1>2 DEF JobsOK, JobOK
<1> QED BY <1>3, <1>4 DEF HeapOK

\* The first job is taken: it is the next one of its promise.
DequeuedHeap(h, g) ==
  /\ g \in HeapRec /\ g.prom = h.prom /\ g.unhandled = h.unhandled
  /\ Len(h.jobs) = Len(g.jobs) + 1 /\ Len(g.jobs) \in Nat
  /\ \A k \in 1..Len(g.jobs) : g.jobs[k] = h.jobs[k + 1]
  /\ \A x : Queued(h.jobs, x) = Queued(g.jobs, x) + Ind(h.jobs[1].chained, x)

LEMMA DequeueShape ==
  ASSUME NEW h \in HeapRec, h.jobs # <<>>
  PROVE  DequeuedHeap(h, [h EXCEPT !.jobs = Tail(h.jobs)]) /\ Head(h.jobs) = h.jobs[1]
<1> DEFINE t == Tail(h.jobs)
           g == [h EXCEPT !.jobs = t]
<1>1. h.jobs \in Seq(JobRec) /\ Len(h.jobs) \in Nat
  BY HeapFacts
<1>2. /\ t \in Seq(JobRec) /\ Len(t) = Len(h.jobs) - 1 /\ Len(t) \in Nat
      /\ \A k \in 1..Len(t) : t[k] = h.jobs[k + 1] /\ Head(h.jobs) = h.jobs[1]
  BY <1>1, HeadTailProperties, LenProperties
<1>3. Head(h.jobs) = h.jobs[1] /\ Len(h.jobs) = Len(t) + 1
  BY <1>1, <1>2, HeadTailProperties
<1> HIDE DEF t
<1>4. \A x : Queued(h.jobs, x) = Queued(t, x) + Ind(h.jobs[1].chained, x)
  <2>1. \A k \in 1..Len(t) : t[k] = h.jobs[k + 1]
    BY <1>2
  <2> QED BY ZenonT(40), <1>1, <1>2, <1>3, <2>1, HitsTail
<1>5. g \in HeapRec /\ g.prom = h.prom /\ g.jobs = t /\ g.unhandled = h.unhandled
  BY <1>2 DEF HeapRec
<1> HIDE DEF g
<1>6. DequeuedHeap(h, g)
  BY <1>2, <1>3, <1>4, <1>5 DEF DequeuedHeap
<1> QED BY <1>3, <1>6 DEF g, t

LEMMA DequeueOK ==
  ASSUME NEW h, NEW ft, NEW st \in Seq(Nat), HeapOK(h, ft, st), Len(st) = Len(h.prom),
         NEW g, DequeuedHeap(h, g), NEW s2,
         h.jobs[1].kind = "thenable" => s2 = st,
         h.jobs[1].kind # "thenable" => s2 = [st EXCEPT ![h.jobs[1].from] = h.jobs[1].place]
  PROVE  /\ HeapOK(g, ft, s2) /\ s2 \in Seq(Nat) /\ Len(s2) = Len(st)
         /\ h.jobs[1].kind # "thenable" => h.jobs[1].place = st[h.jobs[1].from] + 1
<1> DEFINE n == Len(h.prom)
           l == Len(g.jobs)
           j == h.jobs[1]
<1>1. /\ h \in HeapRec /\ PromOK(h.prom) /\ CallbacksOK(h.prom, ft) /\ JobsOK(h.prom, h.jobs, ft)
      /\ ListOK(h.prom, h.unhandled) /\ OrderOK(h.prom, h.jobs, st)
  BY DEF HeapOK
<1>2. /\ g \in HeapRec /\ g.prom = h.prom /\ g.unhandled = h.unhandled
      /\ Len(h.jobs) = l + 1 /\ l \in Nat
      /\ \A k \in 1..l : g.jobs[k] = h.jobs[k + 1]
  BY DEF DequeuedHeap
<1>3. 1 \in 1..Len(h.jobs) /\ \A k \in 1..l : k + 1 \in 1..Len(h.jobs)
  BY <1>2
<1>4. /\ j.from \in Nat /\ j.place \in Nat
      /\ j.kind = "thenable" => j.from = 0
      /\ j.kind # "thenable" => j.from \in 1..n /\ h.prom[j.from].state # "pending"
  BY SMTT(30), <1>3, JobFacts
<1>5. /\ \A q \in 1..n : h.prom[q] \in PromiseRec /\ h.prom[q].reactions \in Nat /\ st[q] \in Nat
      /\ n \in Nat
  <2>1. \A q \in 1..n : h.prom[q] \in PromiseRec
    BY <1>1, HeapFacts
  <2>2. \A q \in 1..n : st[q] \in Nat
    BY ElementOfSeq
  <2> QED BY <1>1, <2>1, <2>2, HeapFacts DEF PromiseRec
<1> HIDE DEF n, l, j
<1>6. /\ s2 \in Seq(Nat) /\ Len(s2) = Len(st)
      /\ \A q \in 1..n : q # j.from => s2[q] = st[q]
      /\ j.kind # "thenable" => s2[j.from] = j.place
  <2>1. CASE j.kind = "thenable"
    BY <1>4, <2>1 DEF n, j
  <2>2. CASE j.kind # "thenable"
    <3>1. s2 = [st EXCEPT ![j.from] = j.place]
      BY <2>2 DEF j
    <3>2. /\ s2 \in Seq(Nat) /\ Len(s2) = Len(st) /\ s2[j.from] = j.place
          /\ \A q \in 1..Len(st) : q # j.from => s2[q] = st[q]
      BY <1>4, <2>2, <3>1, Replaced DEF n
    <3> QED BY <3>2 DEF n
  <2> QED BY <2>1, <2>2
<1>7. JobsOK(g.prom, g.jobs, ft)
  BY <1>1, <1>2, <1>3 DEF JobsOK, l
<1>8. \A k \in 1..Len(h.jobs) : h.jobs[k].from # 0 => InRange(h.prom, st, h.jobs[k])
  BY <1>1 DEF OrderOK
<1>9. j.kind # "thenable" => j.place = st[j.from] + 1
  <2> SUFFICES ASSUME j.kind # "thenable" PROVE j.place = st[j.from] + 1
    OBVIOUS
  <2> DEFINE q == j.from
             a == st[q] + 1
  <2>1. q \in 1..n /\ AllThere(h.prom, h.jobs, st, q)
    BY <1>1, <1>4 DEF OrderOK, n
  <2>2. j.place \in a..h.prom[q].reactions
    <3>1. q # 0
      BY <1>5, <2>1
    <3> QED BY <1>3, <1>8, <3>1 DEF InRange, j
  <2>3. a \in Nat /\ a \in a..h.prom[q].reactions
    BY SMTT(30), <1>4, <1>5, <2>1, <2>2
  <2>4. PICK k \in 1..Len(h.jobs) : h.jobs[k].from = q /\ h.jobs[k].place = a
    BY <2>1, <2>3 DEF AllThere
  <2>5. CASE k = 1
    BY <2>4, <2>5 DEF j
  <2>6. CASE k # 1
    <3>1. 1 < k
      BY <1>2, <2>6
    <3>2. h.jobs[1].place < h.jobs[k].place
      <4>1. h.jobs[1].from # 0 /\ h.jobs[k].from = h.jobs[1].from
        BY <1>5, <2>1, <2>4 DEF j
      <4> QED BY <1>1, <1>3, <3>1, <4>1 DEF OrderOK, Increasing
    <3>3. j.place < a
      BY <2>4, <3>2 DEF j
    <3> HIDE DEF a
    <3> QED BY <1>4, <2>2, <2>3, <3>3
  <2> QED BY <2>5, <2>6
<1>10. OrderOK(g.prom, g.jobs, s2)
  <2>1. ASSUME NEW q \in 1..n, h.prom[q].state = "pending" PROVE PendingOrder(h.prom, s2, q)
    <3>1. q # j.from
      BY <1>4, <1>5, <2>1
    <3>2. PendingOrder(h.prom, st, q) /\ s2[q] = st[q]
      BY <1>1, <1>6, <2>1, <3>1 DEF OrderOK, n
    <3> QED BY <3>2 DEF PendingOrder
  <2>2. ASSUME NEW k \in 1..l, g.jobs[k].from # 0 PROVE InRange(h.prom, s2, g.jobs[k])
    <3> DEFINE i == h.jobs[k + 1]
    <3>1. g.jobs[k] = i /\ k + 1 \in 1..Len(h.jobs) /\ 1 < k + 1
      BY <1>2, <1>3
    <3>2. i.from # 0 /\ i.from \in 1..n /\ i.place \in Nat
      BY <2>2, <3>1, JobFacts DEF n
    <3>3. InRange(h.prom, st, i)
      BY <1>8, <3>1, <3>2
    <3>4. CASE i.from # j.from
      BY <1>6, <3>1, <3>2, <3>3, <3>4 DEF InRange
    <3>5. CASE i.from = j.from
      <4>1. j.place < i.place
        BY <1>1, <1>3, <3>1, <3>2, <3>5 DEF OrderOK, Increasing, j
      <4>2. j.kind # "thenable"
        BY <1>4, <3>2, <3>5
      <4>3. s2[i.from] = j.place /\ h.prom[i.from].reactions \in Nat /\ st[i.from] \in Nat
        BY <1>5, <1>6, <3>2, <3>5, <4>2
      <4>4. i.place \in (st[i.from] + 1)..h.prom[i.from].reactions
        BY <3>3 DEF InRange
      <4> HIDE DEF i
      <4>5. i.place \in (s2[i.from] + 1)..h.prom[i.from].reactions
        BY <1>4, <3>2, <4>1, <4>3, <4>4
      <4> QED BY <3>1, <4>5 DEF InRange
    <3> QED BY <3>4, <3>5
  <2>3. Increasing(g.jobs)
    <3> SUFFICES ASSUME NEW k \in 1..l, NEW i \in 1..l, k < i, g.jobs[k].from # 0,
                        g.jobs[i].from = g.jobs[k].from
                 PROVE  g.jobs[k].place < g.jobs[i].place
      BY DEF Increasing, l
    <3>1. /\ g.jobs[k] = h.jobs[k + 1] /\ g.jobs[i] = h.jobs[i + 1] /\ k + 1 < i + 1
          /\ k + 1 \in 1..Len(h.jobs) /\ i + 1 \in 1..Len(h.jobs)
      BY <1>2, <1>3
    <3> QED BY <1>1, <3>1 DEF OrderOK, Increasing
  <2>4. ASSUME NEW q \in 1..n, h.prom[q].state # "pending" PROVE AllThere(h.prom, g.jobs, s2, q)
    <3>1. AllThere(h.prom, h.jobs, st, q)
      BY <1>1, <2>4 DEF OrderOK, n
    <3>2. \A k \in 1..Len(h.jobs) : k = 1 \/ \E i \in 1..l : k = i + 1
      <4> SUFFICES ASSUME NEW k \in 1..(l + 1), k # 1 PROVE \E i \in 1..l : k = i + 1
        BY <1>2
      <4>1. k - 1 \in 1..l /\ k = (k - 1) + 1
        BY <1>2
      <4> QED BY <4>1
    <3>3. st[q] <= s2[q] /\ s2[q] <= h.prom[q].reactions /\ s2[q] \in Nat /\ (q = j.from => s2[q] = j.place)
      <4>1. CASE q # j.from
        <5>1. st[q] <= h.prom[q].reactions /\ st[q] \in Nat /\ s2[q] = st[q]
          BY <1>5, <1>6, <3>1, <4>1 DEF AllThere
        <5> QED BY <4>1, <5>1
      <4>2. CASE q = j.from
        <5>1. j.kind # "thenable" /\ j.from # 0
          BY <1>4, <1>5, <4>2
        <5>2. InRange(h.prom, st, j)
          BY <1>3, <1>8, <5>1 DEF j
        <5>3. s2[q] = st[q] + 1 /\ s2[q] = j.place
          BY <1>6, <1>9, <4>2, <5>1
        <5>4. j.place \in (st[q] + 1)..h.prom[q].reactions
          BY <4>2, <5>2 DEF InRange
        <5> QED BY <1>4, <1>5, <5>3, <5>4
      <4> QED BY <4>1, <4>2
    <3>4. ASSUME NEW m \in (s2[q] + 1)..h.prom[q].reactions
          PROVE  \E k \in 1..l : g.jobs[k].from = q /\ g.jobs[k].place = m
      <4>1. m \in (st[q] + 1)..h.prom[q].reactions /\ m # s2[q]
        BY <1>5, <3>3
      <4>2. PICK k \in 1..Len(h.jobs) : h.jobs[k].from = q /\ h.jobs[k].place = m
        BY <3>1, <4>1 DEF AllThere
      <4>3. k # 1
        BY <3>3, <4>1, <4>2 DEF j
      <4>4. PICK i \in 1..l : k = i + 1
        BY <3>2, <4>3
      <4> QED BY <1>2, <4>2, <4>4
    <3> QED BY <3>3, <3>4 DEF AllThere, l
  <2> QED BY <1>2, <2>1, <2>2, <2>3, <2>4 DEF OrderOK, n, l
<1>11. HeapOK(g, ft, s2)
  BY <1>1, <1>2, <1>7, <1>10 DEF HeapOK
<1> QED BY <1>6, <1>9, <1>11 DEF j

-----------------------------------------------------------------------------
(* The halves of the actions *)

LEMMA DataNotNat == Data \cap Nat = {}
BY PromiseAssumption DEF Data, Ordinary

Known(h, prs, stk, ft, st, owed) ==
  /\ HeapOK(h, ft, st) /\ h \in HeapRec /\ Len(h.prom) \in Nat /\ Len(h.jobs) \in Nat
  /\ prs \in Seq(PairRec) /\ stk \in Seq(FrameRec) /\ ft \in Seq(FateRec) /\ st \in Seq(Nat)
  /\ Len(prs) \in Nat /\ Len(stk) \in Nat
  /\ Len(ft) = Len(h.prom) /\ Len(st) = Len(h.prom)
  /\ PairsOK(h.prom, prs) /\ FramesOK(h.prom, prs, stk, ft)
  /\ \A p \in 1..Len(h.prom) : p # owed => Stands(h.prom, ft, p)
  /\ Balanced(h, prs, stk, owed)
  /\ owed # 0 => owed \in 1..Len(h.prom) /\ owed \in Nat /\ h.prom[owed].state = "pending"
  /\ \A q \in 1..Len(h.prom) : h.prom[q] \in PromiseRec
  /\ \A q \in 1..Len(h.prom) : ft[q] \in FateRec

LEMMA WholeFacts ==
  ASSUME NEW h, NEW prs, NEW stk, NEW ft, NEW st, NEW owed, Whole(h, prs, stk, ft, st, owed)
  PROVE  Known(h, prs, stk, ft, st, owed)
<1>1. /\ HeapOK(h, ft, st) /\ h \in HeapRec
      /\ prs \in Seq(PairRec) /\ stk \in Seq(FrameRec) /\ ft \in Seq(FateRec)
  BY DEF Whole, HeapOK
<1>2. Len(h.prom) \in Nat /\ Len(h.jobs) \in Nat /\ \A q \in 1..Len(h.prom) : h.prom[q] \in PromiseRec
  BY <1>1, HeapFacts
<1>3. Len(prs) \in Nat /\ Len(stk) \in Nat
  BY <1>1, LenProperties
<1>4. \A q \in 1..Len(ft) : ft[q] \in FateRec
  BY <1>1, ElementOfSeq
<1>5. owed # 0 => owed \in 1..Len(h.prom) /\ owed \in Nat
  BY <1>2 DEF Whole
<1> QED BY <1>1, <1>2, <1>3, <1>4, <1>5 DEF Whole, Known

LEMMA TotalType ==
  ASSUME NEW h \in HeapRec, NEW prs \in Seq(PairRec), NEW stk \in Seq(FrameRec), NEW x
  PROVE  /\ Open(prs, x) \in Nat /\ Waits(h.prom, x) \in Nat /\ Queued(h.jobs, x) \in Nat
         /\ Active(stk, x) \in Nat /\ Total(h, prs, stk, x) \in Nat
<1>1. h.prom \in Seq(PromiseRec) /\ h.jobs \in Seq(JobRec)
  BY HeapFacts
<1>2. Open(prs, x) \in Nat /\ Active(stk, x) \in Nat
  BY OpenType, ActiveType
<1>3. Waits(h.prom, x) \in Nat /\ Queued(h.jobs, x) \in Nat
  BY <1>1, WaitType, HitsType
<1> QED BY <1>2, <1>3 DEF Total

\* Nothing will settle the owed promise.
Unsettled(h, stk, p) ==
  /\ \A q \in 1..Len(h.prom) : \A k \in 1..Len(h.prom[q].callbacks) : h.prom[q].callbacks[k].chained # p
  /\ \A k \in 1..Len(h.jobs) : h.jobs[k].chained # p
  /\ \A k \in 1..Len(stk) : stk[k].kind \in {"handler", "getter"} => stk[k].promise # p

LEMMA NoSettler ==
  ASSUME NEW h, NEW prs, NEW stk, NEW ft, NEW st, NEW p, Whole(h, prs, stk, ft, st, p), p # 0
  PROVE  p \in 1..Len(h.prom) /\ h.prom[p].state = "pending" /\ Unsettled(h, stk, p)
<1>1. /\ h \in HeapRec /\ prs \in Seq(PairRec) /\ stk \in Seq(FrameRec) /\ Balanced(h, prs, stk, p)
      /\ p \in 1..Len(h.prom) /\ h.prom[p].state = "pending"
  <2>1. Known(h, prs, stk, ft, st, p)
    BY ONLY Whole(h, prs, stk, ft, st, p), WholeFacts
  <2> QED BY <2>1 DEF Known
<1>2. /\ Open(prs, p) \in Nat /\ Waits(h.prom, p) \in Nat /\ Queued(h.jobs, p) \in Nat
      /\ Active(stk, p) \in Nat /\ Total(h, prs, stk, p) \in Nat
  BY <1>1, TotalType
<1>3. Total(h, prs, stk, p) + 1 = 1
  BY <1>1 DEF Balanced, Ind
<1>4. Waits(h.prom, p) = 0 /\ Queued(h.jobs, p) = 0 /\ Active(stk, p) = 0
  <2>1. PICK o \in Nat, w \in Nat, j \in Nat, a \in Nat :
          o = Open(prs, p) /\ w = Waits(h.prom, p) /\ j = Queued(h.jobs, p) /\ a = Active(stk, p)
    BY <1>2
  <2>2. Total(h, prs, stk, p) = o + w + j + a
    BY <2>1 DEF Total
  <2>3. o + w + j + a + 1 = 1
    BY <1>3, <2>2
  <2>4. w = 0 /\ j = 0 /\ a = 0
    BY <2>3
  <2> QED BY <2>1, <2>4
<1>5. h.prom \in Seq(PromiseRec) /\ h.jobs \in Seq(JobRec)
  BY <1>1, HeapFacts
<1>6. WaitSet(h.prom, p) = {} /\ Hits(h.jobs, p) = {} /\ ActiveSet(stk, p) = {}
  <2>1. IsFiniteSet(WaitSet(h.prom, p))
    BY <1>5, WaitType
  <2>2. IsFiniteSet(Hits(h.jobs, p))
    BY <1>5, HitsType
  <2>3. IsFiniteSet(ActiveSet(stk, p))
    BY <1>1, ActiveType
  <2> QED BY <1>4, <2>1, <2>2, <2>3, FS_EmptySet DEF Waits, Queued, Active
<1>7. ASSUME NEW q \in 1..Len(h.prom), NEW k \in 1..Len(h.prom[q].callbacks),
             h.prom[q].callbacks[k].chained = p
      PROVE  FALSE
  <2>1. h.prom[q].callbacks \in Seq(ReactionRec)
    BY <1>5, CallbacksType
  <2>2. k \in Hits(h.prom[q].callbacks, p)
    BY <1>7, <2>1, LenProperties DEF Hits
  <2>3. <<q, k>> \in WaitSet(h.prom, p)
    BY <2>2, WaitMember
  <2> QED BY <1>6, <2>3
<1>8. \A k \in 1..Len(h.jobs) : h.jobs[k].chained # p
  BY <1>5, <1>6, LenProperties DEF Hits
<1>9. \A k \in 1..Len(stk) : stk[k].kind \in {"handler", "getter"} => stk[k].promise # p
  BY <1>1, <1>6, LenProperties DEF ActiveSet
<1> QED BY <1>1, <1>7, <1>8, <1>9 DEF Unsettled

\* Promises are made and settled, and never change once they are settled.
Later(pr, g) ==
  /\ Len(pr) \in Nat /\ Len(g) \in Nat /\ Len(pr) <= Len(g)
  /\ \A q \in 1..Len(pr) : pr[q].state # "pending" => g[q].state = pr[q].state /\ g[q].value = pr[q].value

LEMMA StandsKept ==
  ASSUME NEW pr, NEW g, Later(pr, g), NEW ft, NEW f2, NEW p \in 1..Len(pr), f2[p] = ft[p],
         g[p].state = pr[p].state, g[p].value = pr[p].value, pr[p].value \in Data, Stands(pr, ft, p)
  PROVE  Stands(g, f2, p)
<1> DEFINE f == ft[p]
<1>1. Len(pr) \in Nat /\ Len(g) \in Nat /\ 1..Len(pr) \subseteq 1..Len(g)
  BY DEF Later
<1>2. CASE f.how # "value"
  BY <1>2 DEF Stands, Is
<1>3. CASE f.how = "value" /\ pr[p].state = "pending"
  BY <1>1, <1>3 DEF Stands
<1>4. CASE f.how = "value" /\ pr[p].state # "pending" /\ f.with = p
  BY <1>4 DEF Stands, Is
<1>5. CASE f.how = "value" /\ pr[p].state # "pending" /\ f.with # p /\ f.with \in 1..Len(pr)
  <2>1. pr[f.with].state # "pending" /\ Is(pr, p, pr[f.with].state, pr[f.with].value)
    BY <1>5 DEF Stands
  <2>2. g[f.with].state = pr[f.with].state /\ g[f.with].value = pr[f.with].value
    BY <1>5, <2>1 DEF Later
  <2>3. f.with \in 1..Len(g)
    BY <1>1, <1>5
  <2> QED BY <1>5, <2>1, <2>2, <2>3 DEF Stands, Is
<1>6. CASE f.how = "value" /\ pr[p].state # "pending" /\ f.with # p /\ f.with \notin 1..Len(pr)
  <2>1. Is(pr, p, "fulfilled", f.with)
    BY <1>6 DEF Stands
  <2>2. f.with \notin 1..Len(g)
    BY <1>1, <2>1, DataNotNat DEF Is
  <2> QED BY <1>6, <2>1, <2>2 DEF Stands, Is
<1> QED BY <1>2, <1>3, <1>4, <1>5, <1>6

LEMMA FrameKept ==
  ASSUME NEW pr, NEW g, Later(pr, g), NEW prs, NEW prs2, Len(prs) \in Nat, Len(prs2) \in Nat,
         Len(prs) <= Len(prs2), NEW ft, NEW f2, \A p \in 1..Len(pr) : f2[p] = ft[p],
         NEW f, FrameOK(pr, prs, ft, f)
  PROVE  FrameOK(g, prs2, f2, f)
<1>1. /\ 1..Len(pr) \subseteq 1..Len(g) /\ 1..Len(prs) \subseteq 1..Len(prs2)
  BY DEF Later
<1>2. ASSUME NEW p \in 1..Len(pr), NEW v, LookupOK(pr, ft, p, v) PROVE LookupOK(g, f2, p, v)
  <2>1. f2[p] = ft[p]
    OBVIOUS
  <2>2. CASE ft[p] = With(v)
    BY <2>1, <2>2 DEF LookupOK
  <2>3. CASE ft[p] # With(v)
    <3>1. PICK q \in 1..Len(pr) :
            q # p /\ ft[p] = With(q) /\ pr[q].state = "fulfilled" /\ pr[q].value = v
      BY <1>2, <2>3 DEF LookupOK
    <3>2. q \in 1..Len(g) /\ g[q].state = "fulfilled" /\ g[q].value = v
      BY <1>1, <3>1 DEF Later
    <3> QED BY <2>1, <3>1, <3>2 DEF LookupOK
  <2> QED BY <2>2, <2>3
<1> QED BY <1>1, <1>2 DEF FrameOK

Agree(pr, ft, f2) == \A p \in 1..Len(pr) : f2[p] = ft[p]

LEMMA FramesLater ==
  ASSUME NEW pr, NEW g, Later(pr, g), NEW prs \in Seq(PairRec), NEW stk, NEW ft, NEW f2, Agree(pr, ft, f2),
         FramesOK(pr, prs, stk, ft)
  PROVE  FramesOK(g, prs, stk, f2)
<1> SUFFICES ASSUME NEW k \in 1..Len(stk) PROVE FrameOK(g, prs, f2, stk[k])
  BY DEF FramesOK
<1>1. FrameOK(pr, prs, ft, stk[k])
  BY DEF FramesOK
<1>2. Len(prs) \in Nat /\ Len(prs) <= Len(prs)
  BY LenProperties
<1>3. \A p \in 1..Len(pr) : f2[p] = ft[p]
  BY DEF Agree
<1> QED BY ONLY <1>1, <1>2, <1>3, Later(pr, g), FrameKept

\* What one part of a total loses another one gains.
Moves(h, prs, stk, g, prs2, stk2, owed, owed2, x) ==
  LET heap == Waits(h.prom, x) + Queued(h.jobs, x)
      heap2 == Waits(g.prom, x) + Queued(g.jobs, x)
      i == Ind(owed, x)
      j == Ind(owed2, x)
  IN  \/ Open(prs2, x) + j = Open(prs, x) + i /\ heap2 = heap /\ Active(stk2, x) = Active(stk, x)
      \/ Open(prs2, x) = Open(prs, x) /\ heap2 + j = heap + i /\ Active(stk2, x) = Active(stk, x)
      \/ Open(prs2, x) = Open(prs, x) /\ heap2 = heap /\ Active(stk2, x) + j = Active(stk, x) + i

LEMMA TotalMoved ==
  ASSUME NEW h \in HeapRec, NEW prs \in Seq(PairRec), NEW stk \in Seq(FrameRec),
         NEW g \in HeapRec, NEW prs2 \in Seq(PairRec), NEW stk2 \in Seq(FrameRec),
         NEW owed, NEW owed2, NEW x, Moves(h, prs, stk, g, prs2, stk2, owed, owed2, x)
  PROVE  Total(g, prs2, stk2, x) + Ind(owed2, x) = Total(h, prs, stk, x) + Ind(owed, x)
<1> DEFINE i == Ind(owed, x)
           j == Ind(owed2, x)
<1>0. i \in Nat /\ j \in Nat
  BY DEF Ind
<1>1. PICK o \in Nat, w \in Nat, q \in Nat, a \in Nat :
        /\ o = Open(prs, x) /\ w = Waits(h.prom, x) /\ q = Queued(h.jobs, x) /\ a = Active(stk, x)
  BY TotalType
<1>2. PICK o2 \in Nat, w2 \in Nat, q2 \in Nat, a2 \in Nat :
        /\ o2 = Open(prs2, x) /\ w2 = Waits(g.prom, x) /\ q2 = Queued(g.jobs, x) /\ a2 = Active(stk2, x)
  BY TotalType
<1>3. Total(h, prs, stk, x) = o + w + q + a /\ Total(g, prs2, stk2, x) = o2 + w2 + q2 + a2
  BY <1>1, <1>2 DEF Total
<1>4. \/ o2 + j = o + i /\ w2 + q2 = w + q /\ a2 = a
      \/ o2 = o /\ (w2 + q2) + j = (w + q) + i /\ a2 = a
      \/ o2 = o /\ w2 + q2 = w + q /\ a2 + j = a + i
  BY <1>1, <1>2 DEF Moves
<1> HIDE DEF i, j
<1>5. o2 + w2 + q2 + a2 + j = o + w + q + a + i
  BY <1>0, <1>4
<1> QED BY <1>3, <1>5 DEF i, j

LEMMA IndType ==
  ASSUME NEW a, NEW b
  PROVE  Ind(a, b) \in Nat /\ (a # b => Ind(a, b) = 0) /\ (a = b => Ind(a, b) = 1)
BY DEF Ind

AllMove(h, prs, stk, g, prs2, stk2, owed, owed2) ==
  /\ Len(g.prom) = Len(h.prom)
  /\ \A x \in 1..Len(h.prom) :
       g.prom[x].state = h.prom[x].state /\ Moves(h, prs, stk, g, prs2, stk2, owed, owed2, x)

LEMMA BalanceMoved ==
  ASSUME NEW h \in HeapRec, NEW prs \in Seq(PairRec), NEW stk \in Seq(FrameRec),
         NEW g \in HeapRec, NEW prs2 \in Seq(PairRec), NEW stk2 \in Seq(FrameRec),
         NEW owed, NEW owed2, Balanced(h, prs, stk, owed),
         AllMove(h, prs, stk, g, prs2, stk2, owed, owed2)
  PROVE  Balanced(g, prs2, stk2, owed2)
<1> SUFFICES ASSUME NEW x \in 1..Len(h.prom)
             PROVE  Total(g, prs2, stk2, x) + Ind(owed2, x) = IF g.prom[x].state = "pending" THEN 1 ELSE 0
  BY DEF Balanced, AllMove
<1>1. Total(h, prs, stk, x) + Ind(owed, x) = IF h.prom[x].state = "pending" THEN 1 ELSE 0
  BY DEF Balanced
<1>2. g.prom[x].state = h.prom[x].state /\ Moves(h, prs, stk, g, prs2, stk2, owed, owed2, x)
  BY DEF AllMove
<1>3. Total(g, prs2, stk2, x) + Ind(owed2, x) = Total(h, prs, stk, x) + Ind(owed, x)
  BY ONLY <1>2, TotalMoved, h \in HeapRec, prs \in Seq(PairRec), stk \in Seq(FrameRec),
          g \in HeapRec, prs2 \in Seq(PairRec), stk2 \in Seq(FrameRec)
<1> QED BY <1>1, <1>2, <1>3

\* The innermost activation ends.
LEMMA PopWhole ==
  ASSUME NEW h, NEW prs, NEW stk, NEW ft, NEW st, Whole(h, prs, stk, ft, st, 0), stk # <<>>,
         NEW f, f = stk[Len(stk)], NEW t, t = SubSeq(stk, 1, Len(stk) - 1),
         NEW owed, owed = IF f.kind \in {"handler", "getter"} THEN f.promise ELSE 0
  PROVE  /\ Whole(h, prs, t, ft, st, owed)
         /\ f \in FrameRec /\ FrameOK(h.prom, prs, ft, f) /\ (owed # 0 => Stands(h.prom, ft, owed))
<1>1. /\ HeapOK(h, ft, st) /\ h \in HeapRec /\ Len(h.prom) \in Nat /\ prs \in Seq(PairRec)
      /\ stk \in Seq(FrameRec) /\ ft \in Seq(FateRec) /\ st \in Seq(Nat) /\ Len(stk) \in Nat
      /\ Len(ft) = Len(h.prom) /\ Len(st) = Len(h.prom) /\ PairsOK(h.prom, prs)
      /\ FramesOK(h.prom, prs, stk, ft) /\ Balanced(h, prs, stk, 0)
      /\ \A p \in 1..Len(h.prom) : p # 0 => Stands(h.prom, ft, p)
  <2>1. Known(h, prs, stk, ft, st, 0)
    BY ONLY Whole(h, prs, stk, ft, st, 0), WholeFacts
  <2> QED BY ONLY <2>1 DEF Known
<1>2. Len(stk) \in Nat \ {0} /\ Len(stk) \in 1..Len(stk)
  BY <1>1, EmptySeq
<1>3. /\ t \in Seq(FrameRec) /\ Len(stk) = Len(t) + 1 /\ Len(t) \in Nat
      /\ \A k \in 1..Len(t) : stk[k] = t[k]
  <2>1. t \in Seq(FrameRec)
    BY <1>1, <1>2, ElementOfSeq, SubSeqProperties
  <2>2. PICK n \in Nat : n = Len(stk) - 1
    BY <1>2
  <2>3. \A k \in 1..n : stk[k] \in FrameRec
    BY <1>1, <1>2, <2>2, ElementOfSeq
  <2>4. /\ Len(SubSeq(stk, 1, n)) = (IF 1 <= n THEN n - 1 + 1 ELSE 0)
        /\ \A k \in 1..(n - 1 + 1) : SubSeq(stk, 1, n)[k] = stk[1 + k - 1]
    BY ONLY <2>2, <2>3, SubSeqProperties
  <2>5. Len(t) = n /\ \A k \in 1..n : t[k] = stk[k]
    BY <2>2, <2>4
  <2> QED BY <1>2, <2>1, <2>2, <2>5
<1>4. f \in FrameRec /\ FrameOK(h.prom, prs, ft, f)
  BY <1>1, <1>2, ElementOfSeq DEF FramesOK
<1>5. owed # 0 => owed \in 1..Len(h.prom)
  BY <1>4 DEF FrameOK
<1>6. ASSUME NEW x \in 1..Len(h.prom) PROVE Moves(h, prs, stk, h, prs, t, 0, owed, x)
  <2>1. Active(stk, x) = Active(t, x) + Acts(f, x)
    BY ONLY <1>1, <1>3, ActivePush, f = stk[Len(stk)]
  <2>2. Acts(f, x) = Ind(owed, x)
    BY <1>4 DEF Acts, Ind, FrameRec
  <2>3. Active(t, x) + Ind(owed, x) = Active(stk, x) + Ind(0, x)
    <3>1. Active(stk, x) \in Nat /\ Ind(owed, x) \in Nat /\ Ind(0, x) = 0
      BY <1>1, TotalType, IndType
    <3> QED BY <2>1, <2>2, <3>1
  <2> QED BY <2>3 DEF Moves
<1>7. AllMove(h, prs, stk, h, prs, t, 0, owed)
  BY <1>6 DEF AllMove
<1>9. Balanced(h, prs, t, owed)
  BY ONLY <1>1, <1>3, <1>7, BalanceMoved
<1>10. owed # 0 => h.prom[owed].state = "pending"
  <2> SUFFICES ASSUME owed # 0, h.prom[owed].state # "pending" PROVE FALSE
    OBVIOUS
  <2>1. owed \in 1..Len(h.prom) /\ Ind(owed, owed) = 1
    BY <1>5, IndType
  <2>2. Total(h, prs, t, owed) + 1 = 0
    BY <1>9, <2>1 DEF Balanced
  <2>3. Total(h, prs, t, owed) \in Nat
    BY <1>1, <1>3, TotalType
  <2> QED BY <2>2, <2>3
<1>11. FramesOK(h.prom, prs, t, ft)
  <2> SUFFICES ASSUME NEW k \in 1..Len(t) PROVE FrameOK(h.prom, prs, ft, t[k])
    BY DEF FramesOK
  <2>1. k \in 1..Len(stk) /\ stk[k] = t[k]
    BY <1>3
  <2> QED BY <1>1, <2>1 DEF FramesOK
<1>12. Whole(h, prs, t, ft, st, owed)
  BY SMTT(30), <1>1, <1>3, <1>5, <1>9, <1>10, <1>11 DEF Whole
<1>13. owed # 0 => Stands(h.prom, ft, owed)
  BY <1>1, <1>5
<1> QED BY <1>4, <1>12, <1>13

\* An activation begins: a handler or a lookup takes over the owed promise.
LEMMA PushWhole ==
  ASSUME NEW h, NEW prs, NEW stk, NEW ft, NEW st, NEW owed, Whole(h, prs, stk, ft, st, owed),
         NEW f \in FrameRec, FrameOK(h.prom, prs, ft, f), f.kind \in {"handler", "getter"},
         f.promise = owed, owed # 0, Stands(h.prom, ft, owed),
         NEW t, t = Append(stk, f)
  PROVE  Whole(h, prs, t, ft, st, 0)
<1>1. /\ HeapOK(h, ft, st) /\ h \in HeapRec /\ Len(h.prom) \in Nat /\ prs \in Seq(PairRec)
      /\ stk \in Seq(FrameRec) /\ ft \in Seq(FateRec) /\ st \in Seq(Nat) /\ Len(stk) \in Nat
      /\ Len(ft) = Len(h.prom) /\ Len(st) = Len(h.prom) /\ PairsOK(h.prom, prs)
      /\ FramesOK(h.prom, prs, stk, ft) /\ Balanced(h, prs, stk, owed)
      /\ \A p \in 1..Len(h.prom) : p # owed => Stands(h.prom, ft, p)
  <2>1. Known(h, prs, stk, ft, st, owed)
    BY ONLY Whole(h, prs, stk, ft, st, owed), WholeFacts
  <2> QED BY ONLY <2>1 DEF Known
<1>2. /\ t \in Seq(FrameRec) /\ Len(t) = Len(stk) + 1 /\ t[Len(t)] = f
      /\ \A k \in 1..Len(stk) : t[k] = stk[k]
  BY <1>1, AppendProperties
<1>3. ASSUME NEW x \in 1..Len(h.prom) PROVE Moves(h, prs, stk, h, prs, t, owed, 0, x)
  <2>1. Active(t, x) = Active(stk, x) + Acts(f, x)
    BY ONLY <1>1, <1>2, ActivePush
  <2>2. Acts(f, x) = Ind(owed, x)
    BY DEF Acts, Ind
  <2>3. Active(t, x) + Ind(0, x) = Active(stk, x) + Ind(owed, x)
    <3>1. Active(stk, x) \in Nat /\ Ind(owed, x) \in Nat /\ Ind(0, x) = 0
      BY <1>1, TotalType, IndType
    <3> QED BY <2>1, <2>2, <3>1
  <2> QED BY <2>3 DEF Moves
<1>4. AllMove(h, prs, stk, h, prs, t, owed, 0)
  BY <1>3 DEF AllMove
<1>5. Balanced(h, prs, t, 0)
  BY ONLY <1>1, <1>2, <1>4, BalanceMoved
<1>6. FramesOK(h.prom, prs, t, ft)
  <2> SUFFICES ASSUME NEW k \in 1..Len(t) PROVE FrameOK(h.prom, prs, ft, t[k])
    BY DEF FramesOK
  <2>1. k \in 1..Len(stk) \/ k = Len(t)
    BY <1>1, <1>2
  <2> QED BY <1>1, <1>2, <2>1 DEF FramesOK
<1> QED BY <1>1, <1>2, <1>5, <1>6 DEF Whole

\* Whether the fate of p says that it ends with this outcome
Decided(pr, ft, p, state, value) ==
  \/ ft[p] = Rejection(value) /\ state = "rejected"
  \/ ft[p] = With(p) /\ state = "rejected" /\ value = SelfError
  \/ ft[p] = With(value) /\ value \in Ordinary /\ state = "fulfilled"
  \/ \E q \in 1..Len(pr) : q # p /\ ft[p] = With(q) /\ pr[q].state = state /\ pr[q].value = value

\* The owed promise is settled.
LEMMA SettleWhole ==
  ASSUME NEW h, NEW prs, NEW stk, NEW ft, NEW st, NEW p, Whole(h, prs, stk, ft, st, p), p # 0,
         NEW state \in {"fulfilled", "rejected"}, NEW value \in Data,
         state = "fulfilled" => value \in Ordinary, Decided(h.prom, ft, p, state, value),
         NEW g, g = Settle(h, p, state, value)
  PROVE  Whole(g, prs, stk, ft, st, 0)
<1>1. /\ HeapOK(h, ft, st) /\ h \in HeapRec /\ Len(h.prom) \in Nat /\ prs \in Seq(PairRec)
      /\ stk \in Seq(FrameRec) /\ ft \in Seq(FateRec) /\ st \in Seq(Nat) /\ Len(prs) \in Nat
      /\ Len(ft) = Len(h.prom) /\ Len(st) = Len(h.prom) /\ PairsOK(h.prom, prs)
      /\ FramesOK(h.prom, prs, stk, ft) /\ Balanced(h, prs, stk, p)
      /\ \A x \in 1..Len(h.prom) : x # p => Stands(h.prom, ft, x)
      /\ \A q \in 1..Len(h.prom) : h.prom[q] \in PromiseRec
  <2>1. Known(h, prs, stk, ft, st, p)
    BY ONLY Whole(h, prs, stk, ft, st, p), WholeFacts
  <2> QED BY ONLY <2>1 DEF Known
<1>2. p \in 1..Len(h.prom) /\ h.prom[p].state = "pending"
  BY NoSettler
<1>3. SettledHeap(h, p, state, value, g)
  BY <1>1, <1>2, SettleShape
<1>4. HeapOK(g, ft, st)
  BY <1>1, <1>2, <1>3, SettleOK
<1>5. /\ g \in HeapRec /\ Len(g.prom) = Len(h.prom)
      /\ \A q \in 1..Len(h.prom) : q # p => g.prom[q] = h.prom[q]
      /\ g.prom[p].state = state /\ g.prom[p].value = value
      /\ \A x : Waits(g.prom, x) + Queued(g.jobs, x) = Waits(h.prom, x) + Queued(h.jobs, x)
  BY <1>3 DEF SettledHeap
<1>6. Later(h.prom, g.prom)
  <2>1. Len(h.prom) \in Nat /\ Len(g.prom) = Len(h.prom) /\ Len(h.prom) <= Len(g.prom)
    BY <1>1, <1>5
  <2>2. \A q \in 1..Len(h.prom) : h.prom[q].state # "pending" => g.prom[q] = h.prom[q]
    BY <1>2, <1>5
  <2> QED BY ONLY <2>1, <2>2 DEF Later
<1>7. \A x \in 1..Len(h.prom) : x # p => Stands(g.prom, ft, x)
  <2> TAKE x \in 1..Len(h.prom)
  <2> HAVE x # p
  <2>1. g.prom[x].state = h.prom[x].state /\ g.prom[x].value = h.prom[x].value /\ h.prom[x].value \in Data
    BY <1>1, <1>5 DEF PromiseRec
  <2> QED BY <1>1, <1>6, <2>1, StandsKept
<1>8. Stands(g.prom, ft, p)
  <2>1. CASE ft[p] = Rejection(value) /\ state = "rejected"
    BY <1>5, <2>1 DEF Stands, Is, Rejection
  <2>2. CASE ft[p] = With(p) /\ state = "rejected" /\ value = SelfError
    BY <1>5, <2>2 DEF Stands, Is, With
  <2>3. CASE ft[p] = With(value) /\ value \in Ordinary /\ state = "fulfilled"
    <3>1. value # p /\ value \notin 1..Len(g.prom)
      BY SMTT(30), <1>1, <1>2, <1>5, DataNotNat
    <3> QED BY <1>5, <2>3, <3>1 DEF Stands, Is, With
  <2>4. CASE \E q \in 1..Len(h.prom) :
               q # p /\ ft[p] = With(q) /\ h.prom[q].state = state /\ h.prom[q].value = value
    <3>1. PICK q \in 1..Len(h.prom) :
            q # p /\ ft[p] = With(q) /\ h.prom[q].state = state /\ h.prom[q].value = value
      BY <2>4
    <3>2. g.prom[q].state = state /\ g.prom[q].value = value /\ q \in 1..Len(g.prom)
      BY <1>5, <3>1
    <3> QED BY <1>5, <3>1, <3>2 DEF Stands, Is, With
  <2> QED BY <2>1, <2>2, <2>3, <2>4 DEF Decided
<1>9. Balanced(g, prs, stk, 0)
  <2> SUFFICES ASSUME NEW x \in 1..Len(h.prom)
               PROVE  Total(g, prs, stk, x) + Ind(0, x) = IF g.prom[x].state = "pending" THEN 1 ELSE 0
    BY <1>5 DEF Balanced
  <2>1. Moves(h, prs, stk, g, prs, stk, p, p, x)
    BY <1>5 DEF Moves
  <2>2. Total(g, prs, stk, x) + Ind(p, x) = Total(h, prs, stk, x) + Ind(p, x)
    BY ONLY <1>1, <1>5, <2>1, TotalMoved
  <2>3. Total(h, prs, stk, x) + Ind(p, x) = IF h.prom[x].state = "pending" THEN 1 ELSE 0
    BY <1>1 DEF Balanced
  <2>4. Ind(0, x) = 0 /\ Total(g, prs, stk, x) \in Nat
    BY <1>1, <1>5, TotalType, IndType
  <2>5. CASE x = p
    <3>1. Ind(p, x) = 1
      BY <2>5, IndType
    <3>2. Total(g, prs, stk, x) + 1 = 1
      BY <1>2, <2>2, <2>3, <2>5, <3>1
    <3>3. Total(g, prs, stk, x) = 0
      BY <2>4, <3>2
    <3> QED BY <1>5, <2>4, <2>5, <3>3
  <2>6. CASE x # p
    <3>1. Ind(p, x) = 0
      BY <2>6, IndType
    <3> QED BY <1>5, <2>2, <2>3, <2>4, <2>6, <3>1
  <2> QED BY <2>5, <2>6
<1>10. FramesOK(g.prom, prs, stk, ft)
  <2>1. Agree(h.prom, ft, ft)
    BY DEF Agree
  <2> QED BY <1>1, <1>6, <2>1, FramesLater
<1>11. PairsOK(g.prom, prs)
  BY <1>1, <1>5 DEF PairsOK
<1> QED BY <1>1, <1>4, <1>5, <1>7, <1>8, <1>9, <1>10, <1>11 DEF Whole

\* A reaction that will settle the owed promise is attached to another one.
LEMMA AttachWhole ==
  ASSUME NEW h, NEW prs, NEW stk, NEW ft, NEW st, NEW p, Whole(h, prs, stk, ft, st, p), p # 0,
         NEW q \in 1..Len(h.prom), MayAwait(Len(h.prom), ft, q, p),
         NEW f \in Handlers, NEW r \in Handlers, NEW g, g = Attach(h, q, f, r, p)
  PROVE  /\ Whole(g, prs, stk, ft, st, 0)
         /\ Len(g.prom) = Len(h.prom) /\ g.prom[q].handled /\ g.unhandled = h.unhandled
<1>1. /\ HeapOK(h, ft, st) /\ h \in HeapRec /\ Len(h.prom) \in Nat /\ prs \in Seq(PairRec)
      /\ stk \in Seq(FrameRec) /\ ft \in Seq(FateRec) /\ st \in Seq(Nat) /\ Len(prs) \in Nat
      /\ Len(ft) = Len(h.prom) /\ Len(st) = Len(h.prom) /\ PairsOK(h.prom, prs)
      /\ FramesOK(h.prom, prs, stk, ft) /\ Balanced(h, prs, stk, p)
      /\ \A x \in 1..Len(h.prom) : x # p => Stands(h.prom, ft, x)
      /\ \A x \in 1..Len(h.prom) : h.prom[x] \in PromiseRec
  <2>1. Known(h, prs, stk, ft, st, p)
    BY ONLY Whole(h, prs, stk, ft, st, p), WholeFacts
  <2> QED BY ONLY <2>1 DEF Known
<1>2. p \in 1..Len(h.prom) /\ p \in Nat /\ h.prom[p].state = "pending"
  BY <1>1, NoSettler
<1>3. AttachedHeap(h, q, p, g)
  BY <1>1, <1>2, AttachShape
<1>4. HeapOK(g, ft, st)
  BY <1>1, <1>3, AttachOK
<1>5. /\ g \in HeapRec /\ Len(g.prom) = Len(h.prom)
      /\ \A x \in 1..Len(h.prom) : g.prom[x].state = h.prom[x].state /\ g.prom[x].value = h.prom[x].value
      /\ g.prom[q].handled /\ g.unhandled = h.unhandled
      /\ \A x : Waits(g.prom, x) + Queued(g.jobs, x) = Waits(h.prom, x) + Queued(h.jobs, x) + Ind(p, x)
  BY <1>3 DEF AttachedHeap
<1>6. Later(h.prom, g.prom)
  BY SMTT(30), <1>1, <1>5 DEF Later
<1>7. Stands(h.prom, ft, p)
  <2>1. p # q /\ ft[p] \in {Undecided, With(q)}
    BY DEF MayAwait
  <2> QED BY <1>2, <2>1 DEF Stands, Undecided, With
<1>8. \A x \in 1..Len(h.prom) : Stands(g.prom, ft, x)
  <2> TAKE x \in 1..Len(h.prom)
  <2>1. h.prom[x].value \in Data /\ Stands(h.prom, ft, x)
    BY <1>1, <1>7 DEF PromiseRec
  <2> QED BY <1>5, <1>6, <2>1, StandsKept
<1>9. AllMove(h, prs, stk, g, prs, stk, p, 0)
  <2> SUFFICES ASSUME NEW x \in 1..Len(h.prom) PROVE Moves(h, prs, stk, g, prs, stk, p, 0, x)
    BY <1>5 DEF AllMove
  <2>1. Ind(0, x) = 0 /\ Ind(p, x) \in Nat
    BY <1>1, IndType
  <2>2. PICK a \in Nat, b \in Nat, c \in Nat, d \in Nat :
          a = Waits(g.prom, x) /\ b = Queued(g.jobs, x) /\ c = Waits(h.prom, x) /\ d = Queued(h.jobs, x)
    BY <1>1, <1>5, TotalType
  <2>3. a + b + 0 = c + d + Ind(p, x)
    BY <1>5, <2>2
  <2> QED BY <2>1, <2>2, <2>3 DEF Moves
<1>10. Balanced(g, prs, stk, 0)
  BY ONLY <1>1, <1>5, <1>9, BalanceMoved
<1>11. FramesOK(g.prom, prs, stk, ft)
  <2>1. Agree(h.prom, ft, ft)
    BY DEF Agree
  <2> QED BY <1>1, <1>6, <2>1, FramesLater
<1>12. PairsOK(g.prom, prs)
  BY <1>1, <1>5 DEF PairsOK
<1> QED BY <1>1, <1>4, <1>5, <1>8, <1>10, <1>11, <1>12 DEF Whole

\* A node of the list of rejections is marked.
LEMMA MarkWhole ==
  ASSUME NEW h, NEW prs, NEW stk, NEW ft, NEW st, NEW owed, Whole(h, prs, stk, ft, st, owed),
         NEW q \in 1..Len(h.prom), h.prom[q].handled,
         NEW g, g = [h EXCEPT !.unhandled = MarkHandled(h.unhandled, q)]
  PROVE  Whole(g, prs, stk, ft, st, owed)
<1>1. HeapOK(h, ft, st)
  <2>1. Known(h, prs, stk, ft, st, owed)
    BY ONLY Whole(h, prs, stk, ft, st, owed), WholeFacts
  <2> QED BY ONLY <2>1 DEF Known
<1>2. HeapOK(g, ft, st) /\ g.prom = h.prom /\ g.jobs = h.jobs
  BY <1>1, MarkOK
<1> QED BY <1>2 DEF Whole, Balanced, Total

\* A promise is made and owed: nothing refers to it yet.
Grows(h, ft, st, f, n, g, f2, s2) ==
  n = Len(h.prom) + 1 /\ g = Made(h) /\ f2 = Append(ft, f) /\ s2 = Append(st, 0)

LEMMA MadeWhole ==
  ASSUME NEW h, NEW prs, NEW stk, NEW ft, NEW st, Whole(h, prs, stk, ft, st, 0),
         NEW f \in FateRec, NEW n, NEW g, NEW f2, NEW s2, Grows(h, ft, st, f, n, g, f2, s2)
  PROVE  Whole(g, prs, stk, f2, s2, n) /\ n # 0 /\ f2[n] = f
<1> USE DEF Grows
<1>1. /\ HeapOK(h, ft, st) /\ h \in HeapRec /\ Len(h.prom) \in Nat /\ prs \in Seq(PairRec)
      /\ stk \in Seq(FrameRec) /\ ft \in Seq(FateRec) /\ st \in Seq(Nat) /\ Len(prs) \in Nat
      /\ Len(stk) \in Nat
      /\ Len(ft) = Len(h.prom) /\ Len(st) = Len(h.prom) /\ PairsOK(h.prom, prs)
      /\ FramesOK(h.prom, prs, stk, ft) /\ Balanced(h, prs, stk, 0)
      /\ \A x \in 1..Len(h.prom) : x # 0 => Stands(h.prom, ft, x)
      /\ \A q \in 1..Len(h.prom) : h.prom[q] \in PromiseRec
  <2>1. Known(h, prs, stk, ft, st, 0)
    BY ONLY Whole(h, prs, stk, ft, st, 0), WholeFacts
  <2> QED BY ONLY <2>1 DEF Known
<1>2. MadeHeap(h, g)
  BY <1>1, MadeShape
<1>3. /\ g \in HeapRec /\ Len(g.prom) = n /\ n \in Nat /\ n # 0 /\ n \notin 1..Len(h.prom)
      /\ Len(h.prom) <= n
      /\ \A q \in 1..Len(h.prom) : g.prom[q] = h.prom[q]
      /\ g.prom[n] = NewPromiseStruct /\ g.jobs = h.jobs /\ g.unhandled = h.unhandled
      /\ \A x : Waits(g.prom, x) = Waits(h.prom, x)
      /\ \A x \in 1..n : x \in 1..Len(h.prom) \/ x = n
  BY SMTT(30), <1>1, <1>2 DEF MadeHeap
<1>4. /\ f2 \in Seq(FateRec) /\ Len(f2) = n /\ f2[n] = f /\ \A p \in 1..Len(h.prom) : f2[p] = ft[p]
  BY <1>1, AppendProperties
<1>5. /\ s2 \in Seq(Nat) /\ Len(s2) = n /\ s2[Len(h.prom) + 1] = 0 /\ \A p \in 1..Len(h.prom) : s2[p] = st[p]
  BY <1>1, AppendProperties
<1>6. HeapOK(g, f2, s2)
  BY ONLY <1>1, <1>2, <1>4, <1>5, MadeOK
<1>7. Later(h.prom, g.prom)
  BY ONLY <1>1, <1>3 DEF Later
<1>8. FramesOK(g.prom, prs, stk, f2)
  <2>1. Agree(h.prom, ft, f2)
    BY <1>4 DEF Agree
  <2> QED BY ONLY <1>1, <1>7, <2>1, FramesLater
<1>9. PairsOK(g.prom, prs)
  <2> SUFFICES ASSUME NEW k \in 1..Len(prs) PROVE prs[k].promise \in 1..Len(g.prom)
    BY DEF PairsOK
  <2>1. prs[k].promise \in 1..Len(h.prom)
    BY <1>1 DEF PairsOK
  <2> QED BY ONLY <1>1, <1>3, <2>1
<1>10. \A x \in 1..n : x # n => Stands(g.prom, f2, x)
  <2> TAKE x \in 1..n
  <2> HAVE x # n
  <2>1. x \in 1..Len(h.prom) /\ x # 0
    BY <1>1, <1>3
  <2>2. h.prom[x].value \in Data /\ g.prom[x] = h.prom[x] /\ Stands(h.prom, ft, x) /\ f2[x] = ft[x]
    BY <1>1, <1>3, <1>4, <2>1 DEF PromiseRec
  <2> QED BY <1>7, <2>1, <2>2, StandsKept
<1>11. Total(g, prs, stk, n) = 0
  <2>1. OpenSet(prs, n) = {}
    <3> SUFFICES ASSUME NEW k \in DOMAIN prs, prs[k].promise = n PROVE FALSE
      BY DEF OpenSet
    <3>1. k \in 1..Len(prs)
      BY <1>1, LenProperties
    <3> QED BY ONLY <1>1, <1>3, <3>1, prs[k].promise = n DEF PairsOK
  <2>2. ActiveSet(stk, n) = {}
    <3> SUFFICES ASSUME NEW k \in DOMAIN stk, stk[k].kind \in {"handler", "getter"}, stk[k].promise = n
                 PROVE  FALSE
      BY DEF ActiveSet
    <3>1. k \in 1..Len(stk)
      BY <1>1, LenProperties
    <3>2. FrameOK(h.prom, prs, ft, stk[k])
      BY <1>1, <3>1 DEF FramesOK
    <3>3. stk[k].promise \in 1..Len(h.prom)
      BY <3>2 DEF FrameOK
    <3> QED BY ONLY <1>3, <3>3, stk[k].promise = n
  <2>3. h.jobs \in Seq(JobRec) /\ h.prom \in Seq(PromiseRec)
    BY <1>1, HeapFacts
  <2>4. Hits(h.jobs, n) = {}
    <3>1. \A k \in 1..Len(h.jobs) : h.jobs[k].chained \in 1..Len(h.prom)
      BY <1>1, JobFacts
    <3> SUFFICES ASSUME NEW k \in DOMAIN h.jobs, h.jobs[k].chained = n PROVE FALSE
      BY DEF Hits
    <3>2. k \in 1..Len(h.jobs)
      BY <2>3, LenProperties
    <3> QED BY ONLY <1>3, <3>1, <3>2, h.jobs[k].chained = n
  <2>5. WaitSet(h.prom, n) = {}
    <3> SUFFICES ASSUME NEW q \in 1..Len(h.prom), NEW k \in Hits(h.prom[q].callbacks, n) PROVE FALSE
      BY WaitMember
    <3>1. h.prom[q].callbacks \in Seq(ReactionRec)
      BY <2>3, CallbacksType
    <3>2. k \in 1..Len(h.prom[q].callbacks) /\ h.prom[q].callbacks[k].chained = n
      BY <3>1, LenProperties DEF Hits
    <3> QED BY ZenonT(40), <1>1, <1>3, <3>2 DEF HeapOK, CallbacksOK, MayAwait
  <2>6. Open(prs, n) = 0 /\ Waits(g.prom, n) = 0 /\ Queued(g.jobs, n) = 0 /\ Active(stk, n) = 0
    BY <1>3, <2>1, <2>2, <2>4, <2>5, FS_EmptySet DEF Open, Waits, Queued, Active
  <2> QED BY <2>6 DEF Total
<1>12. Balanced(g, prs, stk, n)
  <2> SUFFICES ASSUME NEW x \in 1..n
               PROVE  Total(g, prs, stk, x) + Ind(n, x) = IF g.prom[x].state = "pending" THEN 1 ELSE 0
    BY <1>3 DEF Balanced
  <2>1. CASE x = n
    <3>1. Ind(n, x) = 1
      BY <2>1, IndType
    <3>2. g.prom[x].state = "pending"
      BY <1>3, <2>1 DEF NewPromiseStruct
    <3> QED BY <1>11, <2>1, <3>1, <3>2
  <2>2. CASE x # n
    <3>1. x \in 1..Len(h.prom) /\ x # 0 /\ g.prom[x] = h.prom[x]
      BY ONLY <1>1, <1>3, <2>2, x \in 1..n
    <3>2. Ind(n, x) = 0 /\ Ind(0, x) = 0
      BY <2>2, <3>1, IndType
    <3>3. Total(g, prs, stk, x) = Total(h, prs, stk, x)
      BY <1>3 DEF Total
    <3>4. Total(h, prs, stk, x) + Ind(0, x) = IF h.prom[x].state = "pending" THEN 1 ELSE 0
      BY <1>1, <3>1 DEF Balanced
    <3> QED BY <3>1, <3>2, <3>3, <3>4
  <2> QED BY <2>1, <2>2
<1>13. n \in 1..Len(g.prom) /\ g.prom[n].state = "pending"
  BY <1>3 DEF NewPromiseStruct
<1>14. Whole(g, prs, stk, f2, s2, n)
  BY <1>1, <1>3, <1>4, <1>5, <1>6, <1>8, <1>9, <1>10, <1>12, <1>13 DEF Whole
<1> QED BY <1>3, <1>4, <1>14

\* A promise that is owed a settlement is pending.
LEMMA OwedPending ==
  ASSUME NEW h \in HeapRec, NEW prs \in Seq(PairRec), NEW stk \in Seq(FrameRec), NEW owed,
         Balanced(h, prs, stk, owed), owed \in 1..Len(h.prom)
  PROVE  h.prom[owed].state = "pending"
<1> SUFFICES ASSUME h.prom[owed].state # "pending" PROVE FALSE
  OBVIOUS
<1>1. Ind(owed, owed) = 1
  BY IndType
<1>2. Total(h, prs, stk, owed) + 1 = 0
  BY <1>1 DEF Balanced
<1>3. Total(h, prs, stk, owed) \in Nat
  BY TotalType
<1> QED BY <1>2, <1>3

LEMMA PairClosed ==
  ASSUME NEW c \in PairRec
  PROVE  LET closed == [c EXCEPT !.resolved = TRUE]
         IN  closed \in PairRec /\ closed.promise = c.promise /\ closed.resolved
BY DEF PairRec

LEMMA PairMade ==
  ASSUME NEW p \in Nat
  PROVE  [promise |-> p, resolved |-> FALSE] \in PairRec
BY DEF PairRec

\* A resolving pair is used.
LEMMA CloseWhole ==
  ASSUME NEW h, NEW prs, NEW stk, NEW ft, NEW st, Whole(h, prs, stk, ft, st, 0),
         NEW k \in 1..Len(prs), ~prs[k].resolved, NEW t, t = [prs EXCEPT ![k].resolved = TRUE],
         NEW p, p = prs[k].promise
  PROVE  Whole(h, t, stk, ft, st, p) /\ p # 0 /\ Stands(h.prom, ft, p)
<1>1. /\ HeapOK(h, ft, st) /\ h \in HeapRec /\ Len(h.prom) \in Nat /\ prs \in Seq(PairRec)
      /\ stk \in Seq(FrameRec) /\ ft \in Seq(FateRec) /\ st \in Seq(Nat) /\ Len(prs) \in Nat
      /\ Len(ft) = Len(h.prom) /\ Len(st) = Len(h.prom) /\ PairsOK(h.prom, prs)
      /\ FramesOK(h.prom, prs, stk, ft) /\ Balanced(h, prs, stk, 0)
      /\ \A x \in 1..Len(h.prom) : x # 0 => Stands(h.prom, ft, x)
  <2>1. Known(h, prs, stk, ft, st, 0)
    BY ONLY Whole(h, prs, stk, ft, st, 0), WholeFacts
  <2> QED BY ONLY <2>1 DEF Known
<1>2. prs[k] \in PairRec /\ p \in 1..Len(h.prom) /\ p # 0
  BY <1>1, ElementOfSeq DEF PairsOK
<1>3. PICK e \in PairRec : e = [prs[k] EXCEPT !.resolved = TRUE] /\ e.promise = p /\ e.resolved
  BY <1>2, PairClosed
<1>4. t = [prs EXCEPT ![k] = e]
  BY <1>3
<1>5. /\ t \in Seq(PairRec) /\ Len(t) = Len(prs) /\ t[k] = e
      /\ \A l \in 1..Len(prs) : l # k => t[l] = prs[l]
  BY ONLY <1>1, <1>4, e \in PairRec, k \in 1..Len(prs), Replaced
<1>6. AllMove(h, prs, stk, h, t, stk, 0, p)
  <2> SUFFICES ASSUME NEW x \in 1..Len(h.prom) PROVE Moves(h, prs, stk, h, t, stk, 0, p, x)
    BY DEF AllMove
  <2>1. Open(prs, x) = Open(t, x) + Ind(p, x)
    <3>1. t[k].resolved
      BY <1>3, <1>5
    <3>2. Open(prs, x) = Open(t, x) + Ind(prs[k].promise, x)
      BY ONLY <1>1, <1>5, <3>1, k \in 1..Len(prs), ~prs[k].resolved, OpenClose
    <3> QED BY <3>2
  <2>2. Ind(0, x) = 0 /\ Open(prs, x) \in Nat
    BY SMTT(30), <1>1, TotalType, IndType
  <2>3. Open(t, x) + Ind(p, x) = Open(prs, x) + Ind(0, x)
    BY <2>1, <2>2
  <2> QED BY <2>3 DEF Moves
<1>7. Balanced(h, t, stk, p)
  BY ONLY <1>1, <1>5, <1>6, BalanceMoved
<1>8. h.prom[p].state = "pending"
  BY ONLY <1>1, <1>2, <1>5, <1>7, OwedPending
<1>9. PairsOK(h.prom, t)
  <2> SUFFICES ASSUME NEW l \in 1..Len(prs) PROVE t[l].promise \in 1..Len(h.prom)
    BY <1>5 DEF PairsOK
  <2> QED BY <1>1, <1>2, <1>3, <1>5 DEF PairsOK
<1>10. FramesOK(h.prom, t, stk, ft)
  BY <1>1, <1>5 DEF FramesOK, FrameOK
<1> QED BY <1>1, <1>2, <1>5, <1>7, <1>8, <1>9, <1>10 DEF Whole

\* A pair for the owed promise is made.
WithPair(prs, p, t) == t = Append(prs, [promise |-> p, resolved |-> FALSE])

LEMMA PairWhole ==
  ASSUME NEW h, NEW prs, NEW stk, NEW ft, NEW st, NEW p, Whole(h, prs, stk, ft, st, p), p # 0,
         Stands(h.prom, ft, p), NEW t, WithPair(prs, p, t)
  PROVE  Whole(h, t, stk, ft, st, 0) /\ Len(t) = Len(prs) + 1
<1> USE DEF WithPair
<1>1. Known(h, prs, stk, ft, st, p)
  BY WholeFacts
<1>3. /\ HeapOK(h, ft, st) /\ h \in HeapRec /\ Len(h.prom) \in Nat /\ prs \in Seq(PairRec)
      /\ stk \in Seq(FrameRec) /\ ft \in Seq(FateRec) /\ st \in Seq(Nat) /\ Len(prs) \in Nat
      /\ Len(ft) = Len(h.prom) /\ Len(st) = Len(h.prom) /\ PairsOK(h.prom, prs)
      /\ FramesOK(h.prom, prs, stk, ft) /\ Balanced(h, prs, stk, p)
      /\ \A x \in 1..Len(h.prom) : x # p => Stands(h.prom, ft, x)
  BY <1>1 DEF Known
<1>2. p \in 1..Len(h.prom) /\ p \in Nat
  BY <1>1 DEF Known
<1>4. PICK e \in PairRec : e = [promise |-> p, resolved |-> FALSE] /\ e.promise = p
  BY <1>2, PairMade
<1>5. /\ t \in Seq(PairRec) /\ Len(t) = Len(prs) + 1 /\ t[Len(prs) + 1] = e
      /\ \A k \in 1..Len(prs) : t[k] = prs[k]
  BY <1>3, <1>4, AppendProperties
<1>6. AllMove(h, prs, stk, h, t, stk, p, 0)
  <2> SUFFICES ASSUME NEW x \in 1..Len(h.prom) PROVE Moves(h, prs, stk, h, t, stk, p, 0, x)
    BY DEF AllMove
  <2>1. Open(t, x) = Open(prs, x) + Ind(p, x)
    BY <1>2, <1>3, OpenAppend
  <2>2. Ind(0, x) = 0 /\ Open(t, x) \in Nat
    BY ONLY <1>3, <1>5, x \in 1..Len(h.prom), TotalType, IndType
  <2>3. Open(t, x) + Ind(0, x) = Open(prs, x) + Ind(p, x)
    BY <2>1, <2>2
  <2> QED BY <2>3 DEF Moves
<1>7. Balanced(h, t, stk, 0)
  BY ONLY <1>3, <1>5, <1>6, BalanceMoved
<1>8. PairsOK(h.prom, t)
  <2> SUFFICES ASSUME NEW k \in 1..Len(t) PROVE t[k].promise \in 1..Len(h.prom)
    BY DEF PairsOK
  <2>1. k \in 1..Len(prs) \/ k = Len(prs) + 1
    BY <1>3, <1>5
  <2> QED BY <1>2, <1>3, <1>4, <1>5, <2>1 DEF PairsOK
<1>9. FramesOK(h.prom, t, stk, ft)
  <2>1. \A k \in 1..Len(prs) : k \in 1..Len(t)
    BY <1>3, <1>5
  <2> QED BY <1>3, <2>1 DEF FramesOK, FrameOK
<1>10. \A x \in 1..Len(h.prom) : Stands(h.prom, ft, x)
  BY <1>3
<1> QED BY <1>3, <1>5, <1>7, <1>8, <1>9, <1>10 DEF Whole

\* The fate of the owed promise may be decided: nothing relies on it.
Redecided(ft, p, f, f2) == f2 = [ft EXCEPT ![p] = f]

LEMMA FateWhole ==
  ASSUME NEW h, NEW prs, NEW stk, NEW ft, NEW st, NEW p, Whole(h, prs, stk, ft, st, p), p # 0,
         NEW f \in FateRec, NEW f2, Redecided(ft, p, f, f2)
  PROVE  Whole(h, prs, stk, f2, st, p) /\ f2[p] = f
<1>1. Known(h, prs, stk, ft, st, p)
  BY WholeFacts
<1>2. /\ HeapOK(h, ft, st) /\ h \in HeapRec /\ Len(h.prom) \in Nat /\ prs \in Seq(PairRec)
      /\ stk \in Seq(FrameRec) /\ ft \in Seq(FateRec) /\ st \in Seq(Nat)
      /\ Len(ft) = Len(h.prom) /\ Len(st) = Len(h.prom) /\ PairsOK(h.prom, prs)
      /\ FramesOK(h.prom, prs, stk, ft) /\ Balanced(h, prs, stk, p)
      /\ \A x \in 1..Len(h.prom) : x # p => Stands(h.prom, ft, x)
  BY <1>1 DEF Known
<1>3. /\ p \in 1..Len(h.prom) /\ h.prom[p].state = "pending"
      /\ \A q \in 1..Len(h.prom) : \A k \in 1..Len(h.prom[q].callbacks) :
           h.prom[q].callbacks[k].chained # p
      /\ \A k \in 1..Len(h.jobs) : h.jobs[k].chained # p
      /\ \A k \in 1..Len(stk) : stk[k].kind \in {"handler", "getter"} => stk[k].promise # p
  <2>1. p \in 1..Len(h.prom) /\ h.prom[p].state = "pending" /\ Unsettled(h, stk, p)
    BY NoSettler
  <2> QED BY ONLY <2>1 DEF Unsettled
<1>4. /\ f2 \in Seq(FateRec) /\ Len(f2) = Len(ft) /\ f2[p] = f
      /\ \A x \in 1..Len(h.prom) : x # p => f2[x] = ft[x]
  <2>1. p \in 1..Len(ft)
    BY <1>2, <1>3
  <2>2. /\ f2 \in Seq(FateRec) /\ Len(f2) = Len(ft) /\ f2[p] = f
        /\ \A x \in 1..Len(ft) : x # p => f2[x] = ft[x]
    BY ONLY <1>2, <2>1, f \in FateRec, Redecided(ft, p, f, f2), Replaced DEF Redecided
  <2> QED BY <1>2, <2>2
<1>5. HeapOK(h, f2, st)
  BY ONLY <1>2, <1>3, <1>4, FateOK
<1>6. \A x \in 1..Len(h.prom) : x # p => Stands(h.prom, f2, x)
  BY <1>2, <1>4 DEF Stands
<1>7. FramesOK(h.prom, prs, stk, f2)
  <2> SUFFICES ASSUME NEW k \in 1..Len(stk) PROVE FrameOK(h.prom, prs, f2, stk[k])
    BY DEF FramesOK
  <2>1. FrameOK(h.prom, prs, ft, stk[k])
    BY <1>2 DEF FramesOK
  <2>2. CASE stk[k].kind \in {"handler", "getter"}
    <3>1. stk[k].promise \in 1..Len(h.prom) /\ stk[k].promise # p
      BY <1>3, <2>1, <2>2 DEF FrameOK
    <3>2. f2[stk[k].promise] = ft[stk[k].promise]
      BY <1>4, <3>1
    <3> QED BY <2>1, <3>2 DEF FrameOK, LookupOK
  <2>3. CASE stk[k].kind \notin {"handler", "getter"}
    BY <2>1, <2>3 DEF FrameOK
  <2> QED BY <2>2, <2>3
<1>8. Whole(h, prs, stk, f2, st, p)
  BY <1>2, <1>3, <1>4, <1>5, <1>6, <1>7 DEF Whole
<1> QED BY <1>4, <1>8

\* The first job is taken from the queue.
Dequeues(h, st, g, j, s2) ==
  /\ h.jobs # <<>> /\ g = [h EXCEPT !.jobs = Tail(h.jobs)] /\ j = Head(h.jobs)
  /\ j.kind = "thenable" => s2 = st
  /\ j.kind # "thenable" => s2 = [st EXCEPT ![j.from] = j.place]

LEMMA DequeueWhole ==
  ASSUME NEW h, NEW prs, NEW stk, NEW ft, NEW st, Whole(h, prs, stk, ft, st, 0),
         NEW g, NEW j, NEW s2, Dequeues(h, st, g, j, s2)
  PROVE  /\ Whole(g, prs, stk, ft, s2, j.chained) /\ j.chained # 0 /\ Stands(g.prom, ft, j.chained)
         /\ j \in JobRec /\ JobOK(g.prom, ft, j) /\ g.prom = h.prom
         /\ j.kind # "thenable" => j.place = st[j.from] + 1 /\ j.from \in 1..Len(st)
<1>1. Known(h, prs, stk, ft, st, 0)
  BY WholeFacts
<1>2. /\ HeapOK(h, ft, st) /\ h \in HeapRec /\ Len(h.prom) \in Nat /\ Len(h.jobs) \in Nat
      /\ prs \in Seq(PairRec) /\ stk \in Seq(FrameRec) /\ ft \in Seq(FateRec) /\ st \in Seq(Nat)
      /\ Len(ft) = Len(h.prom) /\ Len(st) = Len(h.prom) /\ PairsOK(h.prom, prs)
      /\ FramesOK(h.prom, prs, stk, ft) /\ Balanced(h, prs, stk, 0)
      /\ \A x \in 1..Len(h.prom) : x # 0 => Stands(h.prom, ft, x)
  BY <1>1 DEF Known
<1>3. DequeuedHeap(h, g) /\ j = h.jobs[1]
  BY <1>2, DequeueShape DEF Dequeues
<1>4. /\ g \in HeapRec /\ g.prom = h.prom /\ 1 \in 1..Len(h.jobs)
      /\ \A x : Queued(h.jobs, x) = Queued(g.jobs, x) + Ind(j.chained, x)
  BY <1>2, <1>3 DEF DequeuedHeap
<1>5. /\ HeapOK(g, ft, s2) /\ s2 \in Seq(Nat) /\ Len(s2) = Len(st)
      /\ j.kind # "thenable" => j.place = st[j.from] + 1
  <2>1. /\ h.jobs[1].kind = "thenable" => s2 = st
        /\ h.jobs[1].kind # "thenable" => s2 = [st EXCEPT ![h.jobs[1].from] = h.jobs[1].place]
    BY <1>3 DEF Dequeues
  <2>2. /\ HeapOK(g, ft, s2) /\ s2 \in Seq(Nat) /\ Len(s2) = Len(st)
        /\ h.jobs[1].kind # "thenable" => h.jobs[1].place = st[h.jobs[1].from] + 1
    BY ONLY <1>2, <1>3, <2>1, DequeueOK
  <2> QED BY <1>3, <2>2
<1>6. j \in JobRec /\ JobOK(h.prom, ft, j)
  <2>1. h.jobs[1] \in JobRec
    BY <1>2, <1>4, JobFacts
  <2>2. JobOK(h.prom, ft, h.jobs[1])
    BY <1>2, <1>4 DEF HeapOK, JobsOK
  <2> QED BY <1>3, <2>1, <2>2
<1>7. j.chained \in 1..Len(h.prom) /\ j.chained # 0
  BY <1>2, <1>6 DEF JobOK
<1>8. AllMove(h, prs, stk, g, prs, stk, 0, j.chained)
  <2> SUFFICES ASSUME NEW x \in 1..Len(h.prom) PROVE Moves(h, prs, stk, g, prs, stk, 0, j.chained, x)
    BY <1>4 DEF AllMove
  <2>1. PICK w \in Nat, a \in Nat, b \in Nat, i \in Nat :
          w = Waits(h.prom, x) /\ a = Queued(h.jobs, x) /\ b = Queued(g.jobs, x) /\ i = Ind(j.chained, x)
    BY ONLY <1>2, <1>4, TotalType, IndType
  <2>2. a = b + i /\ Ind(0, x) = 0 /\ Waits(g.prom, x) = w
    BY <1>4, <2>1, IndType
  <2>3. w + b + i = w + a + 0
    BY <2>2
  <2> QED BY <2>1, <2>2, <2>3 DEF Moves
<1>9. Balanced(g, prs, stk, j.chained)
  BY ONLY <1>2, <1>4, <1>8, BalanceMoved
<1>10. g.prom[j.chained].state = "pending"
  <2>1. j.chained \in 1..Len(g.prom)
    BY <1>4, <1>7
  <2> QED BY ONLY <1>2, <1>4, <1>9, <2>1, OwedPending
<1>11. Whole(g, prs, stk, ft, s2, j.chained)
  BY ONLY <1>2, <1>4, <1>5, <1>7, <1>9, <1>10 DEF Whole
<1>12. j.kind # "thenable" => j.from \in 1..Len(st)
  BY <1>2, <1>6 DEF JobOK
<1>13. Stands(g.prom, ft, j.chained)
  BY <1>2, <1>4, <1>7
<1> QED BY <1>4, <1>5, <1>6, <1>7, <1>11, <1>12, <1>13

\* A job that calls the then method of a thenable is queued for the owed promise.
LEMMA ThenableWhole ==
  ASSUME NEW h, NEW prs, NEW stk, NEW ft, NEW st, NEW p, Whole(h, prs, stk, ft, st, p), p # 0,
         Stands(h.prom, ft, p), NEW v \in Thenables,
         NEW g, g = [h EXCEPT !.jobs = Append(h.jobs, ThenableJob(p, v))]
  PROVE  Whole(g, prs, stk, ft, st, 0)
<1>1. Known(h, prs, stk, ft, st, p)
  BY WholeFacts
<1>2. /\ HeapOK(h, ft, st) /\ h \in HeapRec /\ Len(h.prom) \in Nat /\ Len(h.jobs) \in Nat
      /\ prs \in Seq(PairRec) /\ stk \in Seq(FrameRec) /\ ft \in Seq(FateRec) /\ st \in Seq(Nat)
      /\ Len(ft) = Len(h.prom) /\ Len(st) = Len(h.prom) /\ PairsOK(h.prom, prs)
      /\ FramesOK(h.prom, prs, stk, ft) /\ Balanced(h, prs, stk, p)
      /\ \A x \in 1..Len(h.prom) : x # p => Stands(h.prom, ft, x)
  BY <1>1 DEF Known
<1>3. p \in 1..Len(h.prom) /\ p \in Nat
  BY <1>1 DEF Known
<1>4. PICK e : e = ThenableJob(p, v)
  OBVIOUS
<1>5. /\ e \in JobRec /\ e.chained = p /\ e.from = 0 /\ e.kind = "thenable" /\ e.value = v
  <2>1. v \in Data
    BY DEF Data, Ordinary
  <2> QED BY <1>3, <1>4, <2>1 DEF ThenableJob, JobRec, Handlers
<1>6. PICK js \in Seq(JobRec) : js = Append(h.jobs, e)
  BY <1>2, <1>5, HeapFacts, AppendProperties
<1>7. Len(js) = Len(h.jobs) + 1 /\ js[Len(h.jobs) + 1] = e /\ \A k \in 1..Len(h.jobs) : js[k] = h.jobs[k]
  BY <1>2, <1>5, <1>6, HeapFacts, AppendProperties
<1>8. g \in HeapRec /\ g.prom = h.prom /\ g.jobs = js /\ g.unhandled = h.unhandled
  BY <1>2, <1>4, <1>6 DEF HeapRec
<1>9. \A k \in 1..Len(js) : k \in 1..Len(h.jobs) \/ k = Len(h.jobs) + 1
  BY <1>2, <1>7
<1>10. JobsOK(h.prom, js, ft)
  <2> SUFFICES ASSUME NEW k \in 1..Len(js) PROVE JobOK(h.prom, ft, js[k])
    BY DEF JobsOK
  <2>1. CASE k \in 1..Len(h.jobs)
    BY <1>2, <1>7, <2>1 DEF HeapOK, JobsOK
  <2>2. CASE k = Len(h.jobs) + 1
    BY <1>3, <1>5, <1>7, <2>2 DEF JobOK
  <2> QED BY <1>9, <2>1, <2>2
<1>11. OrderOK(h.prom, js, st)
  <2>1. OrderOK(h.prom, h.jobs, st)
    BY <1>2 DEF HeapOK
  <2>2. \A k \in 1..Len(js) : js[k].from # 0 => k \in 1..Len(h.jobs) /\ js[k] = h.jobs[k]
    BY <1>5, <1>7, <1>9
  <2>3. \A k \in 1..Len(js) : js[k].from # 0 => InRange(h.prom, st, js[k])
    BY <2>1, <2>2 DEF OrderOK
  <2>4. Increasing(js)
    <3> SUFFICES ASSUME NEW k \in 1..Len(js), NEW i \in 1..Len(js), k < i, js[k].from # 0,
                        js[i].from = js[k].from
                 PROVE  js[k].place < js[i].place
      BY DEF Increasing
    <3> QED BY <2>1, <2>2 DEF OrderOK, Increasing
  <2>5. ASSUME NEW q \in 1..Len(h.prom), h.prom[q].state # "pending" PROVE AllThere(h.prom, js, st, q)
    <3>1. AllThere(h.prom, h.jobs, st, q)
      BY <2>1, <2>5 DEF OrderOK
    <3>2. \A k \in 1..Len(h.jobs) : k \in 1..Len(js) /\ js[k] = h.jobs[k]
      BY <1>2, <1>7
    <3> QED BY <3>1, <3>2 DEF AllThere
  <2> QED BY <2>1, <2>3, <2>4, <2>5 DEF OrderOK
<1>12. HeapOK(g, ft, st)
  BY <1>2, <1>8, <1>10, <1>11 DEF HeapOK
<1>13. AllMove(h, prs, stk, g, prs, stk, p, 0)
  <2> SUFFICES ASSUME NEW x \in 1..Len(h.prom) PROVE Moves(h, prs, stk, g, prs, stk, p, 0, x)
    BY <1>8 DEF AllMove
  <2>1. Queued(js, x) = Queued(h.jobs, x) + Ind(p, x)
    BY <1>2, <1>5, <1>6, HeapFacts, HitsAppend
  <2>2. PICK w \in Nat, a \in Nat, b \in Nat, i \in Nat :
          w = Waits(h.prom, x) /\ a = Queued(h.jobs, x) /\ b = Queued(g.jobs, x) /\ i = Ind(p, x)
    BY ONLY <1>2, <1>8, TotalType, IndType
  <2>3. b = a + i /\ Ind(0, x) = 0 /\ Waits(g.prom, x) = w
    BY <1>8, <2>1, <2>2, IndType
  <2>4. w + b + 0 = w + a + i
    BY <2>3
  <2> QED BY <2>2, <2>3, <2>4 DEF Moves
<1>14. Balanced(g, prs, stk, 0)
  BY ONLY <1>2, <1>8, <1>13, BalanceMoved
<1>15. \A x \in 1..Len(h.prom) : Stands(h.prom, ft, x)
  BY <1>2
<1> QED BY ONLY <1>2, <1>8, <1>12, <1>14, <1>15 DEF Whole

\* A then method is called: it settles nothing by itself.
LEMMA PushThenWhole ==
  ASSUME NEW h, NEW prs, NEW stk, NEW ft, NEW st, Whole(h, prs, stk, ft, st, 0),
         NEW f \in FrameRec, FrameOK(h.prom, prs, ft, f), f.kind = "then",
         NEW t, t = Append(stk, f)
  PROVE  Whole(h, prs, t, ft, st, 0)
<1>1. Known(h, prs, stk, ft, st, 0)
  BY WholeFacts
<1>2. /\ HeapOK(h, ft, st) /\ h \in HeapRec /\ Len(h.prom) \in Nat /\ prs \in Seq(PairRec)
      /\ stk \in Seq(FrameRec) /\ ft \in Seq(FateRec) /\ st \in Seq(Nat) /\ Len(stk) \in Nat
      /\ Len(ft) = Len(h.prom) /\ Len(st) = Len(h.prom) /\ PairsOK(h.prom, prs)
      /\ FramesOK(h.prom, prs, stk, ft) /\ Balanced(h, prs, stk, 0)
      /\ \A p \in 1..Len(h.prom) : p # 0 => Stands(h.prom, ft, p)
  BY <1>1 DEF Known
<1>3. /\ t \in Seq(FrameRec) /\ Len(t) = Len(stk) + 1 /\ t[Len(t)] = f
      /\ \A k \in 1..Len(stk) : t[k] = stk[k]
  BY <1>2, AppendProperties
<1>4. AllMove(h, prs, stk, h, prs, t, 0, 0)
  <2> SUFFICES ASSUME NEW x \in 1..Len(h.prom) PROVE Moves(h, prs, stk, h, prs, t, 0, 0, x)
    BY DEF AllMove
  <2>1. Active(t, x) = Active(stk, x) + Acts(f, x)
    BY ONLY <1>2, <1>3, ActivePush
  <2>2. Acts(f, x) = 0 /\ Active(stk, x) \in Nat
    BY <1>2, ActiveType DEF Acts
  <2>3. Active(t, x) = Active(stk, x)
    BY <2>1, <2>2
  <2> QED BY <2>3 DEF Moves
<1>5. Balanced(h, prs, t, 0)
  BY ONLY <1>2, <1>3, <1>4, BalanceMoved
<1>6. FramesOK(h.prom, prs, t, ft)
  <2> SUFFICES ASSUME NEW k \in 1..Len(t) PROVE FrameOK(h.prom, prs, ft, t[k])
    BY DEF FramesOK
  <2>1. k \in 1..Len(stk) \/ k = Len(t)
    BY <1>2, <1>3
  <2> QED BY <1>2, <1>3, <2>1 DEF FramesOK
<1> QED BY <1>2, <1>3, <1>5, <1>6 DEF Whole

LEMMA HeapSet ==
  ASSUME NEW h \in HeapRec, SetHeap(h)
  PROVE  Heap' = h
BY DEF SetHeap, Heap, HeapRec

\* __promise_resolve_value on the owed promise
LEMMA ResolveWhole ==
  ASSUME NEW h, NEW prs, NEW base, NEW ft, NEW st, NEW p, Whole(h, prs, base, ft, st, p), p # 0,
         NEW v \in Ordinary \cup (1..Len(h.prom)), LookupOK(h.prom, ft, p, v), ResolveValue(h, p, v, base)
  PROVE  Whole(Heap', prs, stack', ft, st, 0)
<1>1. Known(h, prs, base, ft, st, p)
  BY WholeFacts
<1>2. /\ HeapOK(h, ft, st) /\ h \in HeapRec /\ Len(h.prom) \in Nat
      /\ \A q \in 1..Len(h.prom) : h.prom[q] \in PromiseRec
      /\ base \in Seq(FrameRec)
  BY <1>1 DEF Known
<1>3. p \in 1..Len(h.prom) /\ p \in Nat /\ h.prom[p].state = "pending"
  BY <1>1 DEF Known
<1>4. DOMAIN h.prom = 1..Len(h.prom)
  BY <1>2, HeapFacts, LenProperties
<1>5. Ordinary \cap Nat = {} /\ Ordinary \subseteq Data /\ SelfError \in Data
  BY DataNotNat DEF Data
<1>6. CASE v \in Thenables
  <2>1. PICK f : f = Frame("getter", p, 0, v)
    OBVIOUS
  <2>2. f \in FrameRec /\ f.kind = "getter" /\ f.promise = p /\ f.value = v
    BY <1>3, <1>5, <1>6, <2>1 DEF Frame, FrameRec, Ordinary
  <2>3. FrameOK(h.prom, prs, ft, f)
    BY <1>3, <1>6, <2>2 DEF FrameOK
  <2>4. Stands(h.prom, ft, p)
    <3>1. PICK w \in Thenables \cup ((1..Len(h.prom)) \ {p}) : ft[p] = With(w)
      BY <1>6 DEF LookupOK
    <3>2. ft[p].how = "value" /\ ft[p].with = w
      BY <3>1 DEF With
    <3> QED BY <1>3, <3>2 DEF Stands
  <2>5. SetHeap(h) /\ stack' = Append(base, f)
    BY <1>6, <2>1 DEF ResolveValue
  <2>6. Heap' = h
    BY <1>2, <2>5, HeapSet
  <2>7. Whole(h, prs, Append(base, f), ft, st, 0)
    BY <2>2, <2>3, <2>4, PushWhole
  <2> QED BY <2>5, <2>6, <2>7
<1>7. CASE v \notin Thenables
  <2>1. PICK g : g = ResolveTo(h, p, v)
    OBVIOUS
  <2>2. SetHeap(g) /\ stack' = base
    BY <1>7, <2>1 DEF ResolveValue
  <2>3. v \in 1..Len(h.prom) => ft[p] = With(v)
    <3> SUFFICES ASSUME v \in 1..Len(h.prom), NEW q \in 1..Len(h.prom), h.prom[q].value = v PROVE FALSE
      BY DEF LookupOK
    <3>1. v \in Data
      BY <1>2 DEF PromiseRec
    <3> QED BY <1>2, <3>1, DataNotNat
  <2>4. Whole(g, prs, base, ft, st, 0)
    <3>1. CASE v = p
      <4>1. g = Settle(h, p, "rejected", SelfError)
        BY <2>1, <3>1 DEF ResolveTo
      <4>2. Decided(h.prom, ft, p, "rejected", SelfError)
        BY <1>3, <2>3, <3>1 DEF Decided
      <4> QED BY <1>5, <4>1, <4>2, SettleWhole
    <3>2. CASE v # p /\ v \in 1..Len(h.prom)
      <4>1. g = Attach(h, v, "none", "none", p)
        BY <1>4, <2>1, <3>2 DEF ResolveTo
      <4>2. MayAwait(Len(h.prom), ft, v, p)
        BY <1>3, <2>3, <3>2 DEF MayAwait
      <4>3. "none" \in Handlers
        BY DEF Handlers
      <4> QED BY <3>2, <4>1, <4>2, <4>3, AttachWhole
    <3>3. CASE v \notin 1..Len(h.prom)
      <4>1. v # p /\ v \in Ordinary
        BY <1>3, <3>3
      <4>2. g = Settle(h, p, "fulfilled", v)
        BY <1>4, <2>1, <3>3, <4>1 DEF ResolveTo
      <4>3. Decided(h.prom, ft, p, "fulfilled", v)
        BY <4>1 DEF Decided, LookupOK
      <4> QED BY <1>5, <4>1, <4>2, <4>3, SettleWhole
    <3> QED BY <3>1, <3>2, <3>3
  <2>5. g \in HeapRec
    BY <2>4 DEF Whole, HeapOK
  <2> QED BY <2>2, <2>4, <2>5, HeapSet
<1> QED BY <1>6, <1>7

LEMMA FateTypes ==
  /\ Undecided \in FateRec
  /\ \A v \in Data \cup Nat : With(v) \in FateRec
  /\ \A r \in Data : Rejection(r) \in FateRec
BY DEF Undecided, With, Rejection, FateRec, Data

LEMMA HeapTyped ==
  ASSUME Whole(Heap, pairs, stack, fate, started, 0)
  PROVE  /\ Heap \in HeapRec /\ Heap.prom = prom /\ Heap.jobs = jobs /\ Heap.unhandled = unhandled
         /\ prom \in Seq(PromiseRec) /\ jobs \in Seq(JobRec) /\ unhandled \in Seq(NodeRec)
         /\ pairs \in Seq(PairRec) /\ DOMAIN pairs = 1..Len(pairs)
         /\ stack \in Seq(FrameRec) /\ Len(prom) \in Nat /\ Len(pairs) \in Nat
<1>1. Heap \in HeapRec /\ pairs \in Seq(PairRec) /\ stack \in Seq(FrameRec)
  <2>1. Known(Heap, pairs, stack, fate, started, 0)
    BY ONLY Whole(Heap, pairs, stack, fate, started, 0), WholeFacts
  <2> QED BY ONLY <2>1 DEF Known
<1>2. Heap.prom = prom /\ Heap.jobs = jobs /\ Heap.unhandled = unhandled
  BY DEF Heap
<1> QED BY <1>1, <1>2, HeapFacts, LenProperties

-----------------------------------------------------------------------------
(* The actions *)

LEMMA InitLemma == Init => IInv
<1> SUFFICES ASSUME Init PROVE IInv
  OBVIOUS
<1>1. PICK h : h = Heap
  OBVIOUS
<1>2. /\ h.prom = <<>> /\ h.jobs = <<>> /\ h.unhandled = <<>> /\ pairs = <<>> /\ fate = <<>> /\ started = <<>>
      /\ h \in HeapRec /\ Len(h.prom) = 0 /\ Len(h.jobs) = 0 /\ Len(h.unhandled) = 0 /\ Len(pairs) = 0
  BY <1>1 DEF Init, Heap, HeapRec
<1>3. HeapOK(h, fate, started)
  BY <1>2 DEF HeapOK, PromOK, CallbacksOK, JobsOK, ListOK, OrderOK, Increasing
<1>4. /\ stack \in Seq(FrameRec) /\ Len(stack) = 1 /\ stack[1].kind = "main"
  <2>1. Frame("main", 0, 0, Nothing) \in FrameRec /\ Frame("main", 0, 0, Nothing).kind = "main"
    BY DEF Frame, FrameRec, Data
  <2> QED BY <2>1 DEF Init
<1>5. FramesOK(h.prom, pairs, stack, fate)
  BY <1>4 DEF FramesOK, FrameOK
<1>6. Whole(h, pairs, stack, fate, started, 0)
  BY <1>2, <1>3, <1>4, <1>5 DEF Whole, PairsOK, Balanced
<1> QED BY <1>1, <1>6 DEF IInv, Init

Kept == Whole(Heap', pairs', stack', fate', started', 0)
Holds == Whole(Heap, pairs, stack, fate, started, 0)

LEMMA TrackLemma ==
  ASSUME Holds, NEW f \in FateRec, Track(f)
  PROVE  Whole(Made(Heap), pairs, stack, fate', started', Fresh) /\ Fresh # 0 /\ fate'[Fresh] = f
<1>1. Grows(Heap, fate, started, f, Fresh, Made(Heap), fate', started')
  BY DEF Heap, Track, Fresh, Grows
<1> QED BY ONLY <1>1, Holds, f \in FateRec, MadeWhole DEF Holds

LEMMA RejectedStruct ==
  ASSUME NEW s \in PromiseRec, NEW r \in Data
  PROVE  LET c == [s EXCEPT !.state = "rejected", !.value = r]
         IN  /\ c \in PromiseRec /\ c.state = "rejected" /\ c.value = r
             /\ c.callbacks = s.callbacks /\ c.handled = s.handled /\ c.reactions = s.reactions
BY DEF PromiseRec, States

LEMMA NewPromiseLemma ==
  ASSUME Holds, NewPromise
  PROVE  Kept
<1>1. /\ Heap \in HeapRec /\ Heap.prom = prom
  BY HeapTyped DEF Holds
<1>2. PICK g : g = Made(Heap)
  OBVIOUS
<1>3. /\ SetHeap(g) /\ pairs' = Append(pairs, [promise |-> Fresh, resolved |-> FALSE])
      /\ fate' = Append(fate, Undecided) /\ started' = Append(started, 0) /\ stack' = stack
      /\ Fresh = Len(Heap.prom) + 1
  BY <1>1, <1>2 DEF NewPromise, Track, Fresh
<1>4. Whole(g, pairs, stack, fate', started', Fresh) /\ Fresh # 0 /\ fate'[Fresh] = Undecided
  BY <1>2, FateTypes, TrackLemma DEF NewPromise
<1>5. Stands(g.prom, fate', Fresh)
  <2>1. g.prom[Fresh].state = "pending"
    BY <1>4, NoSettler
  <2> QED BY <1>4, <2>1 DEF Stands, Undecided
<1>6. Whole(g, pairs', stack, fate', started', 0)
  <2>1. WithPair(pairs, Fresh, pairs')
    BY <1>3 DEF WithPair
  <2> QED BY ONLY <1>4, <1>5, <2>1, PairWhole
<1>7. Heap' = g
  BY <1>3, <1>6, HeapSet DEF Whole, HeapOK
<1> QED BY <1>3, <1>6, <1>7 DEF Kept

LEMMA PromiseResolveLemma ==
  ASSUME Holds, NEW v \in Values, PromiseResolve(v)
  PROVE  Kept
<1>1. /\ Heap \in HeapRec /\ Heap.prom = prom
  BY HeapTyped DEF Holds
<1>2. PICK g : g = Made(Heap)
  OBVIOUS
<1>3. v \in Ordinary /\ With(v) \in FateRec
  BY FateTypes DEF PromiseResolve, Values, Ordinary, Data
<1>4. /\ ResolveValue(g, Fresh, v, stack) /\ pairs' = pairs
      /\ fate' = Append(fate, With(v)) /\ started' = Append(started, 0)
      /\ Fresh = Len(Heap.prom) + 1
  BY <1>1, <1>2 DEF PromiseResolve, Track, Fresh
<1>5. Whole(g, pairs, stack, fate', started', Fresh) /\ Fresh # 0 /\ fate'[Fresh] = With(v)
  BY <1>2, <1>3, TrackLemma DEF PromiseResolve
<1>6. v \in Ordinary \cup (1..Len(g.prom)) /\ LookupOK(g.prom, fate', Fresh, v)
  BY <1>3, <1>5 DEF LookupOK
<1>7. Whole(Heap', pairs, stack', fate', started', 0)
  BY ONLY <1>4, <1>5, <1>6, ResolveWhole
<1> QED BY <1>4, <1>7 DEF Kept

LEMMA PromiseRejectLemma ==
  ASSUME Holds, NEW r \in Reasons, PromiseReject(r)
  PROVE  Kept
<1>1. /\ Heap \in HeapRec /\ Heap.prom = prom /\ Heap.jobs = jobs /\ Heap.unhandled = unhandled
      /\ Len(prom) \in Nat /\ prom \in Seq(PromiseRec) /\ jobs \in Seq(JobRec)
  BY HeapTyped DEF Holds
<1>2. PICK h : h = Made(Heap)
  OBVIOUS
<1>3. r \in Data /\ Rejection(r) \in FateRec
  BY FateTypes DEF Data
<1>4. PICK c : c = [NewPromiseStruct EXCEPT !.state = "rejected", !.value = r]
  OBVIOUS
<1>5. /\ c \in PromiseRec /\ c.state = "rejected" /\ c.value = r
      /\ c.callbacks = <<>> /\ c.handled = FALSE /\ c.reactions = 0
  <2>1. /\ NewPromiseStruct.callbacks = <<>> /\ NewPromiseStruct.handled = FALSE
        /\ NewPromiseStruct.reactions = 0
    BY DEF NewPromiseStruct
  <2>2. /\ c \in PromiseRec /\ c.state = "rejected" /\ c.value = r
        /\ c.callbacks = NewPromiseStruct.callbacks /\ c.handled = NewPromiseStruct.handled
        /\ c.reactions = NewPromiseStruct.reactions
    BY ONLY <1>3, <1>4, NewType, RejectedStruct
  <2> QED BY ONLY <2>1, <2>2
<1>6. /\ prom' = Append(prom, c) /\ unhandled' = <<[promise |-> Fresh, handled |-> FALSE]>> \o unhandled
      /\ fate' = Append(fate, Rejection(r)) /\ started' = Append(started, 0)
      /\ jobs' = jobs /\ pairs' = pairs /\ stack' = stack /\ Fresh = Len(Heap.prom) + 1
  BY <1>1, <1>4 DEF PromiseReject, Track, Fresh, Note
<1>7. Whole(h, pairs, stack, fate', started', Fresh) /\ Fresh # 0 /\ fate'[Fresh] = Rejection(r)
  BY <1>2, <1>3, TrackLemma DEF PromiseReject
<1>8. PICK g : g = Settle(h, Fresh, "rejected", r)
  OBVIOUS
<1>9. Whole(g, pairs, stack, fate', started', 0)
  <2>1. Decided(h.prom, fate', Fresh, "rejected", r)
    BY <1>7 DEF Decided
  <2> QED BY <1>3, <1>7, <1>8, <2>1, SettleWhole
<1>10. MadeHeap(Heap, h)
  BY <1>1, <1>2, MadeShape
<1>11. /\ h \in HeapRec /\ Len(h.prom) = Fresh /\ Fresh \in 1..Len(h.prom) /\ h.prom[Fresh] = NewPromiseStruct
       /\ h.jobs = jobs /\ h.unhandled = unhandled /\ \A q \in 1..Len(prom) : h.prom[q] = prom[q]
  BY <1>1, <1>6, <1>10 DEF MadeHeap
<1>12. /\ h.prom[Fresh].state = "pending" /\ h.prom[Fresh].callbacks = <<>> /\ h.prom[Fresh].handled = FALSE
       /\ h.prom[Fresh].reactions = 0 /\ Len(h.prom[Fresh].callbacks) = 0
  BY <1>11 DEF NewPromiseStruct
<1>13. SettledHeap(h, Fresh, "rejected", r, g)
  BY <1>3, <1>8, <1>11, <1>12, SettleShape
<1>14. g \in HeapRec /\ g.prom \in Seq(PromiseRec) /\ g.jobs \in Seq(JobRec)
  BY <1>13, HeapFacts DEF SettledHeap
<1>15. g.jobs = jobs
  <2>1. Len(g.jobs) = Len(jobs) + 0 /\ \A k \in 1..Len(jobs) : g.jobs[k] = jobs[k]
    BY <1>11, <1>12, <1>13 DEF SettledHeap
  <2>2. Len(g.jobs) = Len(jobs)
    BY <1>1, <2>1, LenProperties
  <2> QED BY <1>1, <1>14, <2>1, <2>2, SeqEqual
<1>16. g.unhandled = unhandled'
  BY <1>6, <1>11, <1>12, <1>13 DEF SettledHeap
<1>17. g.prom = prom'
  <2>1. /\ prom' \in Seq(PromiseRec) /\ Len(prom') = Fresh /\ prom'[Fresh] = c
        /\ \A k \in 1..Len(prom) : prom'[k] = prom[k]
    BY <1>1, <1>6, <1>5, AppendProperties
  <2>2. Len(g.prom) = Fresh /\ \A q \in 1..Fresh : q # Fresh => g.prom[q] = h.prom[q]
    BY <1>11, <1>13 DEF SettledHeap
  <2>3. g.prom[Fresh] = c
    <3>1. g.prom[Fresh] \in PromiseRec
      BY <1>11, <1>14, <2>2, CallbacksType
    <3>2. /\ g.prom[Fresh].state = "rejected" /\ g.prom[Fresh].value = r /\ g.prom[Fresh].callbacks = <<>>
          /\ g.prom[Fresh].handled = FALSE /\ g.prom[Fresh].reactions = 0
      BY <1>12, <1>13 DEF SettledHeap
    <3> QED BY <1>5, <3>1, <3>2 DEF PromiseRec
  <2>4. \A q \in 1..Fresh : q # Fresh => q \in 1..Len(prom)
    BY <1>1 DEF Fresh
  <2>5. \A q \in 1..Fresh : g.prom[q] = prom'[q]
    BY <1>11, <2>1, <2>2, <2>3, <2>4
  <2> QED BY <1>14, <2>1, <2>2, <2>5, SeqEqual
<1>18. SetHeap(g)
  BY <1>6, <1>15, <1>16, <1>17 DEF SetHeap
<1>19. Heap' = g
  BY <1>14, <1>18, HeapSet
<1> QED BY <1>6, <1>9, <1>19 DEF Kept

LEMMA ThenLemma ==
  ASSUME Holds, NEW p \in Promises, NEW f \in Handlers, NEW r \in Handlers, Then(p, f, r)
  PROVE  Kept
<1>1. /\ Heap \in HeapRec /\ Heap.prom = prom /\ Len(prom) \in Nat
  BY HeapTyped DEF Holds
<1>2. PICK h : h = Made(Heap)
  OBVIOUS
<1>3. PICK g : g = Attach(h, p, f, r, Fresh)
  OBVIOUS
<1>4. PICK g2 : g2 = IF h.prom[p].state = "rejected"
                     THEN [g EXCEPT !.unhandled = MarkHandled(g.unhandled, p)] ELSE g
  OBVIOUS
<1>5. /\ SetHeap(g2) /\ pairs' = pairs /\ stack' = stack
      /\ fate' = Append(fate, Undecided) /\ started' = Append(started, 0)
      /\ Fresh = Len(Heap.prom) + 1 /\ p # Fresh /\ p \in 1..Len(prom)
  BY <1>1, <1>2, <1>3, <1>4 DEF Then, AttachThen, Track, Fresh, Promises
<1>6. Whole(h, pairs, stack, fate', started', Fresh) /\ Fresh # 0 /\ fate'[Fresh] = Undecided
  BY <1>2, FateTypes, TrackLemma DEF Then
<1>7. p \in 1..Len(h.prom) /\ Fresh \in 1..Len(h.prom)
  <2>1. MadeHeap(Heap, h)
    BY <1>1, <1>2, MadeShape
  <2> QED BY <1>1, <1>5, <2>1 DEF MadeHeap
<1>8. MayAwait(Len(h.prom), fate', p, Fresh)
  BY <1>5, <1>6, <1>7 DEF MayAwait
<1>9. Whole(g, pairs, stack, fate', started', 0) /\ Len(g.prom) = Len(h.prom) /\ g.prom[p].handled
  BY <1>3, <1>6, <1>7, <1>8, AttachWhole
<1>10. Whole(g2, pairs, stack, fate', started', 0)
  <2>1. CASE h.prom[p].state = "rejected"
    <3>1. p \in 1..Len(g.prom) /\ g2 = [g EXCEPT !.unhandled = MarkHandled(g.unhandled, p)]
      BY <1>4, <1>7, <1>9, <2>1
    <3> QED BY <1>9, <3>1, MarkWhole
  <2>2. CASE h.prom[p].state # "rejected"
    BY <1>4, <1>9, <2>2
  <2> QED BY <2>1, <2>2
<1>11. Heap' = g2
  BY <1>5, <1>10, HeapSet DEF Whole, HeapOK
<1> QED BY <1>5, <1>10, <1>11 DEF Kept

\* A pair's reject function, on whatever is left of the stack
LEMMA RejectPairLemma ==
  ASSUME NEW base, Whole(Heap, pairs, base, fate, started, 0), NEW k \in 1..Len(pairs),
         NEW r \in Reasons, RejectPair(k, r, base)
  PROVE  Whole(Heap', pairs', stack', fate', started, 0)
<1>1. Heap \in HeapRec /\ pairs \in Seq(PairRec)
  <2>1. Known(Heap, pairs, base, fate, started, 0)
    BY ONLY Whole(Heap, pairs, base, fate, started, 0), WholeFacts
  <2> QED BY ONLY <2>1 DEF Known
<1>2. stack' = base /\ pairs' = [pairs EXCEPT ![k].resolved = TRUE]
  BY DEF RejectPair
<1>3. CASE ~pairs[k].resolved
  <2>1. PICK p : p = pairs[k].promise
    OBVIOUS
  <2>2. PICK g : g = Settle(Heap, p, "rejected", r)
    OBVIOUS
  <2>3. SetHeap(g) /\ fate' = [fate EXCEPT ![p] = Rejection(r)]
    BY <1>3, <2>1, <2>2 DEF RejectPair, GuardOpen, Decide
  <2>4. Whole(Heap, pairs', base, fate, started, p) /\ p # 0
    BY <1>2, <1>3, <2>1, CloseWhole
  <2>5. r \in Data /\ Rejection(r) \in FateRec
    BY FateTypes DEF Data
  <2>6. Whole(Heap, pairs', base, fate', started, p) /\ fate'[p] = Rejection(r)
    <3>1. Redecided(fate, p, Rejection(r), fate')
      BY <2>3 DEF Redecided
    <3> QED BY ONLY <2>4, <2>5, <3>1, FateWhole
  <2>7. Decided(Heap.prom, fate', p, "rejected", r)
    BY <2>6 DEF Decided
  <2>8. Whole(g, pairs', base, fate', started, 0)
    BY <2>2, <2>4, <2>5, <2>6, <2>7, SettleWhole
  <2>9. Heap' = g
    BY <2>3, <2>8, HeapSet DEF Whole, HeapOK
  <2> QED BY <1>2, <2>8, <2>9
<1>4. CASE pairs[k].resolved
  <2>1. SetHeap(Heap) /\ fate' = fate
    BY <1>4 DEF RejectPair, GuardOpen, Decide
  <2>2. Heap' = Heap
    BY <1>1, <2>1, HeapSet
  <2>3. pairs' = pairs
    <3>1. PICK c \in PairRec : c = pairs[k]
      BY <1>1, ElementOfSeq
    <3>2. [c EXCEPT !.resolved = TRUE] = c
      BY <1>4, <3>1 DEF PairRec
    <3>3. pairs' = [pairs EXCEPT ![k] = c]
      BY <1>2, <3>1, <3>2
    <3>4. /\ pairs' \in Seq(PairRec) /\ Len(pairs') = Len(pairs) /\ pairs'[k] = c
          /\ \A l \in 1..Len(pairs) : l # k => pairs'[l] = pairs[l]
      BY <1>1, <3>3, Replaced
    <3>5. \A l \in 1..Len(pairs) : pairs'[l] = pairs[l]
      BY <3>1, <3>4
    <3> QED BY <1>1, <3>4, <3>5, SeqEqual
  <2> QED BY <1>2, <2>1, <2>2, <2>3
<1> QED BY <1>3, <1>4

LEMMA CallResolveLemma ==
  ASSUME Holds, NEW k \in DOMAIN pairs, NEW v \in Values, CallResolve(k, v)
  PROVE  Kept
<1>1. /\ Heap.prom = prom /\ k \in 1..Len(pairs) /\ Len(prom) \in Nat
  BY HeapTyped DEF Holds
<1>2. PICK p : p = pairs[k].promise
  OBVIOUS
<1>3. /\ ~pairs[k].resolved /\ pairs' = [pairs EXCEPT ![k].resolved = TRUE]
      /\ ResolveValue(Heap, p, v, stack) /\ fate' = [fate EXCEPT ![p] = With(v)] /\ started' = started
  BY <1>2 DEF CallResolve, GuardOpen, Decide
<1>4. Whole(Heap, pairs', stack, fate, started, p) /\ p # 0
  BY <1>1, <1>2, <1>3, CloseWhole DEF Holds
<1>5. v \in Ordinary \cup (1..Len(Heap.prom)) /\ With(v) \in FateRec
  <2>1. v \in Ordinary \cup (1..Len(Heap.prom)) /\ v \in Data \cup Nat
    BY <1>1 DEF Values, Promises, Ordinary, Data
  <2> QED BY <2>1, FateTypes
<1>6. Whole(Heap, pairs', stack, fate', started, p) /\ fate'[p] = With(v)
  <2>1. Redecided(fate, p, With(v), fate')
    BY <1>3 DEF Redecided
  <2> QED BY ONLY <1>4, <1>5, <2>1, FateWhole
<1>7. LookupOK(Heap.prom, fate', p, v)
  BY <1>6 DEF LookupOK
<1>8. Whole(Heap', pairs', stack', fate', started, 0)
  BY ONLY <1>3, <1>4, <1>5, <1>6, <1>7, ResolveWhole
<1> QED BY <1>3, <1>8 DEF Kept

LEMMA CallRejectLemma ==
  ASSUME Holds, NEW k \in DOMAIN pairs, NEW r \in Reasons, CallReject(k, r)
  PROVE  Kept
<1>1. k \in 1..Len(pairs)
  BY HeapTyped DEF Holds
<1>2. RejectPair(k, r, stack) /\ started' = started
  BY DEF CallReject
<1> QED BY <1>1, <1>2, RejectPairLemma DEF Holds, Kept

\* The innermost activation ends: what it owes
LEMMA PopLemma ==
  ASSUME Holds, InUserCode
  PROVE  /\ Top \in FrameRec /\ FrameOK(Heap.prom, pairs, fate, Top)
         /\ Top.kind \in {"handler", "getter"} =>
              /\ Whole(Heap, pairs, Pop, fate, started, Top.promise) /\ Top.promise # 0
              /\ Stands(Heap.prom, fate, Top.promise)
         /\ Top.kind \notin {"handler", "getter"} => Whole(Heap, pairs, Pop, fate, started, 0)
<1>1. PICK owed : owed = IF Top.kind \in {"handler", "getter"} THEN Top.promise ELSE 0
  OBVIOUS
<1>2. stack # <<>> /\ Top = stack[Len(stack)] /\ Pop = SubSeq(stack, 1, Len(stack) - 1)
  BY DEF InUserCode, Top, Pop
<1>3. /\ Whole(Heap, pairs, Pop, fate, started, owed)
      /\ Top \in FrameRec /\ FrameOK(Heap.prom, pairs, fate, Top)
      /\ owed # 0 => Stands(Heap.prom, fate, owed)
  BY ONLY <1>1, <1>2, Holds, PopWhole DEF Holds
<1>4. Top.kind \in {"handler", "getter"} => Top.promise # 0
  <2>1. Len(Heap.prom) \in Nat
    BY <1>3, WholeFacts DEF Known
  <2> QED BY <1>3, <2>1 DEF FrameOK
<1> QED BY <1>1, <1>3, <1>4

LEMMA ReturnLemma ==
  ASSUME Holds, ReturnMain \/ ReturnThen
  PROVE  Kept
<1>1. InUserCode /\ Top.kind \notin {"handler", "getter"} /\ stack' = Pop
  BY DEF ReturnMain, ReturnThen
<1>2. prom' = prom /\ jobs' = jobs /\ unhandled' = unhandled /\ pairs' = pairs /\ fate' = fate /\ started' = started
  BY DEF ReturnMain, ReturnThen
<1>3. Heap' = Heap
  BY <1>2 DEF Heap
<1>4. Whole(Heap, pairs, Pop, fate, started, 0)
  BY <1>1, PopLemma
<1> QED BY <1>1, <1>2, <1>3, <1>4 DEF Kept

LEMMA ReturnHandlerLemma ==
  ASSUME Holds, NEW v \in Values, ReturnHandler(v)
  PROVE  Kept
<1>1. Heap.prom = prom /\ Len(prom) \in Nat
  BY HeapTyped DEF Holds
<1>2. PICK p : p = Top.promise
  OBVIOUS
<1>3. /\ InUserCode /\ Top.kind = "handler" /\ ResolveValue(Heap, p, v, Pop)
      /\ fate' = [fate EXCEPT ![p] = With(v)] /\ pairs' = pairs /\ started' = started
  BY <1>2 DEF ReturnHandler
<1>4. Whole(Heap, pairs, Pop, fate, started, p) /\ p # 0
  BY <1>2, <1>3, PopLemma
<1>5. v \in Ordinary \cup (1..Len(Heap.prom)) /\ With(v) \in FateRec
  <2>1. v \in Ordinary \cup (1..Len(Heap.prom)) /\ v \in Data \cup Nat
    BY <1>1 DEF Values, Promises, Ordinary, Data
  <2> QED BY <2>1, FateTypes
<1>6. Whole(Heap, pairs, Pop, fate', started, p) /\ fate'[p] = With(v)
  <2>1. Redecided(fate, p, With(v), fate')
    BY <1>3 DEF Redecided
  <2> QED BY ONLY <1>4, <1>5, <2>1, FateWhole
<1>7. LookupOK(Heap.prom, fate', p, v)
  BY <1>6 DEF LookupOK
<1>8. Whole(Heap', pairs, stack', fate', started, 0)
  BY ONLY <1>3, <1>4, <1>5, <1>6, <1>7, ResolveWhole
<1> QED BY <1>3, <1>8 DEF Kept

LEMMA ThrowLemma ==
  ASSUME Holds, NEW r \in Reasons, ThrowHandler(r) \/ ThrowGetter(r)
  PROVE  Kept
<1>1. PICK p : p = Top.promise
  OBVIOUS
<1>2. PICK g : g = Settle(Heap, p, "rejected", r)
  OBVIOUS
<1>3. /\ InUserCode /\ Top.kind \in {"handler", "getter"} /\ SetHeap(g) /\ stack' = Pop
      /\ fate' = [fate EXCEPT ![p] = Rejection(r)] /\ pairs' = pairs /\ started' = started
  BY <1>1, <1>2 DEF ThrowHandler, ThrowGetter
<1>4. Whole(Heap, pairs, Pop, fate, started, p) /\ p # 0
  BY <1>1, <1>3, PopLemma
<1>5. r \in Data /\ Rejection(r) \in FateRec
  BY FateTypes DEF Data
<1>6. Whole(Heap, pairs, Pop, fate', started, p) /\ fate'[p] = Rejection(r)
  <2>1. Redecided(fate, p, Rejection(r), fate')
    BY <1>3 DEF Redecided
  <2> QED BY ONLY <1>4, <1>5, <2>1, FateWhole
<1>7. Decided(Heap.prom, fate', p, "rejected", r)
  BY <1>6 DEF Decided
<1>8. Whole(g, pairs, Pop, fate', started, 0)
  BY <1>2, <1>4, <1>5, <1>6, <1>7, SettleWhole
<1>9. Heap' = g
  BY <1>3, <1>8, HeapSet DEF Whole, HeapOK
<1> QED BY <1>3, <1>8, <1>9 DEF Kept

LEMMA ThrowThenLemma ==
  ASSUME Holds, NEW r \in Reasons, ThrowThen(r)
  PROVE  Kept
<1>1. /\ InUserCode /\ Top.kind = "then" /\ RejectPair(Top.pair, r, Pop) /\ started' = started
  BY DEF ThrowThen
<1>2. Whole(Heap, pairs, Pop, fate, started, 0) /\ FrameOK(Heap.prom, pairs, fate, Top)
  BY <1>1, PopLemma
<1>3. Top.pair \in 1..Len(pairs)
  BY <1>1, <1>2 DEF FrameOK
<1> QED BY <1>1, <1>2, <1>3, RejectPairLemma DEF Kept

LEMMA FoundThenLemma ==
  ASSUME Holds, FoundThen
  PROVE  Kept
<1>1. PICK p, v : p = Top.promise /\ v = Top.value
  OBVIOUS
<1>2. PICK g : g = [Heap EXCEPT !.jobs = Append(Heap.jobs, ThenableJob(p, v))]
  OBVIOUS
<1>3. /\ InUserCode /\ Top.kind = "getter" /\ stack' = Pop
      /\ jobs' = Append(jobs, ThenableJob(p, v)) /\ prom' = prom /\ unhandled' = unhandled
      /\ fate' = fate /\ pairs' = pairs /\ started' = started
  BY <1>1 DEF FoundThen
<1>4. /\ Whole(Heap, pairs, Pop, fate, started, p) /\ p # 0 /\ Stands(Heap.prom, fate, p)
      /\ FrameOK(Heap.prom, pairs, fate, Top)
  BY <1>1, <1>3, PopLemma
<1>5. v \in Thenables
  BY <1>1, <1>3, <1>4 DEF FrameOK
<1>6. Whole(g, pairs, Pop, fate, started, 0)
  BY <1>2, <1>4, <1>5, ThenableWhole
<1>7. Heap' = g
  BY <1>2, <1>3 DEF Heap
<1> QED BY <1>3, <1>6, <1>7 DEF Kept

LEMMA FoundNoThenLemma ==
  ASSUME Holds, FoundNoThen
  PROVE  Kept
<1>1. PICK p, v : p = Top.promise /\ v = Top.value
  OBVIOUS
<1>2. PICK g : g = Settle(Heap, p, "fulfilled", v)
  OBVIOUS
<1>3. /\ InUserCode /\ Top.kind = "getter" /\ stack' = Pop /\ SetHeap(g)
      /\ fate' = fate /\ pairs' = pairs /\ started' = started
  BY <1>1, <1>2 DEF FoundNoThen
<1>4. /\ Whole(Heap, pairs, Pop, fate, started, p) /\ p # 0
      /\ FrameOK(Heap.prom, pairs, fate, Top)
  BY <1>1, <1>3, PopLemma
<1>5. v \in Thenables /\ LookupOK(Heap.prom, fate, p, v)
  BY <1>1, <1>3, <1>4 DEF FrameOK
<1>6. v \in Data /\ v \in Ordinary
  BY <1>5 DEF Data, Ordinary
<1>7. Decided(Heap.prom, fate, p, "fulfilled", v)
  BY <1>5, <1>6 DEF Decided, LookupOK
<1>8. Whole(g, pairs, Pop, fate, started, 0)
  BY <1>2, <1>4, <1>6, <1>7, SettleWhole
<1>9. Heap' = g
  BY <1>3, <1>8, HeapSet DEF Whole, HeapOK
<1> QED BY <1>3, <1>8, <1>9 DEF Kept

\* The drain takes the first job.
LEMMA DequeueLemma ==
  ASSUME Holds, stack = <<>>, jobs # <<>>, NEW j, j = Head(jobs), NEW s2,
         IF j.kind = "thenable" THEN s2 = started ELSE s2 = [started EXCEPT ![j.from] = j.place]
  PROVE  /\ Whole(Dequeued, pairs, <<>>, fate, s2, j.chained) /\ j.chained # 0
         /\ Stands(Dequeued.prom, fate, j.chained) /\ j \in JobRec /\ JobOK(Dequeued.prom, fate, j)
         /\ j.kind # "thenable" => j.place = started[j.from] + 1 /\ j.from \in 1..Len(started)
         /\ Dequeued \in HeapRec
<1>1. PICK h : h = Heap
  OBVIOUS
<1>2. h.jobs = jobs /\ Dequeued = [h EXCEPT !.jobs = Tail(h.jobs)]
  BY <1>1 DEF Heap, Dequeued
<1>3. Whole(h, pairs, <<>>, fate, started, 0) /\ h.jobs # <<>> /\ j = Head(h.jobs)
  BY <1>1, <1>2 DEF Holds
<1>4. /\ j.kind = "thenable" => s2 = started
      /\ j.kind # "thenable" => s2 = [started EXCEPT ![j.from] = j.place]
  OBVIOUS
<1>5. PICK g : g = Dequeued
  OBVIOUS
<1>6. g = [h EXCEPT !.jobs = Tail(h.jobs)]
  BY <1>2, <1>5
<1>7. /\ Whole(g, pairs, <<>>, fate, s2, j.chained) /\ j.chained # 0 /\ Stands(g.prom, fate, j.chained)
      /\ j \in JobRec /\ JobOK(g.prom, fate, j)
      /\ j.kind # "thenable" => j.place = started[j.from] + 1 /\ j.from \in 1..Len(started)
  <2>1. Dequeues(h, started, g, j, s2)
    BY <1>3, <1>4, <1>6 DEF Dequeues
  <2> QED BY ONLY <1>3, <2>1, DequeueWhole
<1>8. g \in HeapRec
  BY <1>7 DEF Whole, HeapOK
<1> QED BY <1>5, <1>7, <1>8

LEMMA RunIdentityLemma ==
  ASSUME Holds, RunIdentity
  PROVE  Kept
<1>1. PICK j : j = Head(jobs)
  OBVIOUS
<1>2. PICK h : h = Dequeued
  OBVIOUS
<1>3. PICK p, v, q : p = j.chained /\ v = j.value /\ q = j.from
  OBVIOUS
<1>4. /\ stack = <<>> /\ jobs # <<>> /\ j.kind # "thenable" /\ pairs' = pairs
      /\ j.kind = "fulfil" => ResolveValue(h, p, v, <<>>)
      /\ j.kind # "fulfil" => SetHeap(Settle(h, p, "rejected", v)) /\ stack' = <<>>
      /\ fate' = [fate EXCEPT ![p] = IF fate[p] # Undecided THEN fate[p]
                                     ELSE IF j.kind = "fulfil" THEN With(v) ELSE Rejection(v)]
      /\ started' = [started EXCEPT ![j.from] = j.place]
  BY <1>1, <1>2, <1>3 DEF RunIdentity, Started
<1>5. /\ Whole(h, pairs, <<>>, fate, started', p) /\ p # 0 /\ j \in JobRec /\ JobOK(h.prom, fate, j)
  BY <1>1, <1>2, <1>3, <1>4, DequeueLemma
<1>6. /\ q \in 1..Len(h.prom) /\ h.prom[q].state = OutcomeOf(j.kind) /\ h.prom[q].value = v
      /\ p \in 1..Len(h.prom) /\ p # q /\ fate[p] \in {Undecided, With(q)}
  BY <1>3, <1>4, <1>5 DEF JobOK, MayAwait
<1>7. v \in Data /\ Len(h.prom) \in Nat /\ q \in Nat /\ Undecided # With(q)
  <2>1. Len(h.prom) \in Nat /\ v \in Data
    BY <1>3, <1>5, WholeFacts DEF Known, JobRec
  <2>2. Undecided.how # With(q).how
    BY DEF Undecided, With
  <2> QED BY <1>6, <2>1, <2>2
<1>8. PICK f : f = IF fate[p] # Undecided THEN fate[p]
                   ELSE IF j.kind = "fulfil" THEN With(v) ELSE Rejection(v)
  OBVIOUS
<1>9. f \in FateRec
  BY <1>6, <1>7, <1>8, FateTypes
<1>10. Whole(h, pairs, <<>>, fate', started', p) /\ fate'[p] = f
  <2>1. Redecided(fate, p, f, fate')
    BY <1>4, <1>8 DEF Redecided
  <2> QED BY ONLY <1>5, <1>9, <2>1, FateWhole
<1>11. CASE j.kind = "fulfil"
  <2>1. h.prom[q].state = "fulfilled" /\ ResolveValue(h, p, v, <<>>)
    BY <1>4, <1>6, <1>11 DEF OutcomeOf
  <2>2. v \in Ordinary
    BY <1>5, <1>6, <2>1 DEF Whole, HeapOK, PromOK
  <2>3. LookupOK(h.prom, fate', p, v)
    BY <1>6, <1>8, <1>10, <1>11, <2>1 DEF LookupOK
  <2>4. v \in Ordinary \cup (1..Len(h.prom))
    BY <2>2
  <2>5. Whole(Heap', pairs, stack', fate', started', 0)
    BY ONLY <1>5, <1>10, <2>1, <2>3, <2>4, ResolveWhole
  <2> QED BY <1>4, <2>5 DEF Kept
<1>12. CASE j.kind # "fulfil"
  <2>1. PICK g : g = Settle(h, p, "rejected", v)
    OBVIOUS
  <2>2. h.prom[q].state = "rejected" /\ SetHeap(g) /\ stack' = <<>>
    BY <1>4, <1>6, <1>12, <2>1 DEF OutcomeOf
  <2>3. Decided(h.prom, fate', p, "rejected", v)
    BY <1>6, <1>8, <1>10, <1>12, <2>2 DEF Decided
  <2>4. Whole(g, pairs, <<>>, fate', started', 0)
    BY <1>5, <1>7, <1>10, <2>1, <2>3, SettleWhole
  <2>5. Heap' = g
    BY <2>2, <2>4, HeapSet DEF Whole, HeapOK
  <2> QED BY <1>4, <2>2, <2>4, <2>5 DEF Kept
<1> QED BY <1>11, <1>12

LEMMA RunHandlerLemma ==
  ASSUME Holds, RunHandler
  PROVE  Kept
<1>1. PICK j : j = Head(jobs)
  OBVIOUS
<1>2. PICK h, f : h = Dequeued /\ f = Frame("handler", j.chained, 0, j.value)
  OBVIOUS
<1>3. /\ stack = <<>> /\ jobs # <<>> /\ j.kind # "thenable" /\ SetHeap(h) /\ stack' = <<f>>
      /\ started' = [started EXCEPT ![j.from] = j.place] /\ pairs' = pairs /\ fate' = fate
  BY <1>1, <1>2 DEF RunHandler, Started
<1>4. /\ Whole(h, pairs, <<>>, fate, started', j.chained) /\ j.chained # 0 /\ Stands(h.prom, fate, j.chained)
      /\ j \in JobRec /\ JobOK(h.prom, fate, j) /\ h \in HeapRec
  BY <1>1, <1>2, <1>3, DequeueLemma
<1>5. f \in FrameRec /\ f.kind = "handler" /\ f.promise = j.chained
  <2>1. j.chained \in Nat /\ j.value \in Data
    BY <1>4 DEF JobRec
  <2> QED BY <1>2, <2>1 DEF Frame, FrameRec
<1>6. FrameOK(h.prom, pairs, fate, f)
  BY <1>4, <1>5 DEF FrameOK, JobOK
<1>7. stack' = Append(<<>>, f)
  BY <1>3
<1>8. Whole(h, pairs, stack', fate, started', 0)
  BY <1>4, <1>5, <1>6, <1>7, PushWhole
<1>9. Heap' = h
  BY <1>3, <1>4, HeapSet
<1> QED BY <1>3, <1>8, <1>9 DEF Kept

LEMMA RunThenableJobLemma ==
  ASSUME Holds, RunThenableJob
  PROVE  Kept
<1>1. PICK j : j = Head(jobs)
  OBVIOUS
<1>2. PICK h, f : h = Dequeued /\ f = Frame("then", j.chained, Len(pairs) + 1, j.value)
  OBVIOUS
<1>3. /\ stack = <<>> /\ jobs # <<>> /\ j.kind = "thenable" /\ SetHeap(h) /\ stack' = <<f>>
      /\ pairs' = Append(pairs, [promise |-> j.chained, resolved |-> FALSE])
      /\ started' = started /\ fate' = fate
  BY <1>1, <1>2 DEF RunThenableJob
<1>4. /\ Whole(h, pairs, <<>>, fate, started, j.chained) /\ j.chained # 0 /\ Stands(h.prom, fate, j.chained)
      /\ j \in JobRec /\ JobOK(h.prom, fate, j) /\ h \in HeapRec
  BY <1>1, <1>2, <1>3, DequeueLemma
<1>5. Whole(h, pairs', <<>>, fate, started, 0) /\ Len(pairs') = Len(pairs) + 1
  <2>1. WithPair(pairs, j.chained, pairs')
    BY <1>3 DEF WithPair
  <2> QED BY ONLY <1>4, <2>1, PairWhole
<1>6. Len(pairs) \in Nat
  BY HeapTyped DEF Holds
<1>7. f \in FrameRec /\ f.kind = "then" /\ f.pair = Len(pairs) + 1
  <2>1. j.chained \in Nat /\ j.value \in Data
    BY <1>4 DEF JobRec
  <2> QED BY <1>2, <1>6, <2>1 DEF Frame, FrameRec
<1>8. FrameOK(h.prom, pairs', fate, f)
  BY <1>5, <1>6, <1>7 DEF FrameOK
<1>9. stack' = Append(<<>>, f)
  BY <1>3
<1>10. Whole(h, pairs', stack', fate, started, 0)
  BY <1>5, <1>7, <1>8, <1>9, PushThenWhole
<1>11. Heap' = h
  BY <1>3, <1>4, HeapSet
<1> QED BY <1>3, <1>10, <1>11 DEF Kept

LEMMA StepLemma == IInv /\ [Next]_vars => IInv'
<1> SUFFICES ASSUME IInv, [Next]_vars PROVE IInv'
  OBVIOUS
<1>1. Holds /\ exitCode \in {Nothing, "success", "failure"}
  BY DEF IInv, Holds
<1>2. Kept
  <2>1. CASE NewPromise
    BY <1>1, <2>1, NewPromiseLemma
  <2>2. CASE ReturnMain \/ ReturnThen
    BY <1>1, <2>2, ReturnLemma
  <2>3. CASE FoundThen
    BY <1>1, <2>3, FoundThenLemma
  <2>4. CASE FoundNoThen
    BY <1>1, <2>4, FoundNoThenLemma
  <2>5. CASE RunIdentity
    BY <1>1, <2>5, RunIdentityLemma
  <2>6. CASE RunHandler
    BY <1>1, <2>6, RunHandlerLemma
  <2>7. CASE RunThenableJob
    BY <1>1, <2>7, RunThenableJobLemma
  <2>8. CASE Exit \/ UNCHANGED vars
    BY <1>1, <2>8 DEF Exit, vars, Holds, Kept, Heap
  <2>9. CASE \E v \in Values : PromiseResolve(v) \/ ReturnHandler(v)
    BY <1>1, <2>9, PromiseResolveLemma, ReturnHandlerLemma
  <2>10. CASE \E r \in Reasons : PromiseReject(r) \/ ThrowHandler(r) \/ ThrowThen(r) \/ ThrowGetter(r)
    BY <1>1, <2>10, PromiseRejectLemma, ThrowLemma, ThrowThenLemma
  <2>11. CASE \E p \in Promises, f \in Handlers, r \in Handlers : Then(p, f, r)
    BY <1>1, <2>11, ThenLemma
  <2>12. CASE \E k \in DOMAIN pairs, v \in Values : CallResolve(k, v)
    BY <1>1, <2>12, CallResolveLemma
  <2>13. CASE \E k \in DOMAIN pairs, r \in Reasons : CallReject(k, r)
    BY <1>1, <2>13, CallRejectLemma
  <2> QED BY <2>1, <2>2, <2>3, <2>4, <2>5, <2>6, <2>7, <2>8, <2>9, <2>10, <2>11, <2>12, <2>13 DEF Next
<1>3. exitCode' \in {Nothing, "success", "failure"}
  <2>1. CASE Exit
    BY <2>1 DEF Exit
  <2>2. CASE ~Exit
    <3>1. exitCode' = exitCode
      BY <2>2 DEF Next, vars, NewPromise, ReturnMain, ReturnThen, FoundThen, FoundNoThen, RunIdentity,
        RunHandler, RunThenableJob, PromiseResolve, ReturnHandler, PromiseReject, ThrowHandler, ThrowThen,
        ThrowGetter, Then, CallResolve, CallReject
    <3> QED BY SMTT(30), <1>1, <3>1
  <2> QED BY <2>1, <2>2
<1> QED BY <1>2, <1>3 DEF IInv, Kept

-----------------------------------------------------------------------------
(* The theorems *)

\* The invariant: what HeapOK says of promises, jobs, rejections and the order of
\* reactions, the frames and pairs refer to promises, every first resolution stands
\* and every pending promise has exactly one settler.
THEOREM Invariance == Spec => []IInv
BY InitLemma, StepLemma, PTL DEF Spec

LEMMA InvariantFacts ==
  ASSUME IInv
  PROVE  /\ Heap \in HeapRec /\ HeapOK(Heap, fate, started) /\ Heap.prom = prom /\ Heap.jobs = jobs
         /\ Heap.unhandled = unhandled /\ prom \in Seq(PromiseRec) /\ Len(prom) \in Nat
         /\ jobs \in Seq(JobRec) /\ DOMAIN jobs = 1..Len(jobs)
         /\ DOMAIN unhandled = 1..Len(unhandled) /\ DOMAIN pairs = 1..Len(pairs)
         /\ \A p \in Promises : prom[p] \in PromiseRec /\ Stands(prom, fate, p) /\ fate[p] \in FateRec
         /\ Balanced(Heap, pairs, stack, 0) /\ PairsOK(prom, pairs)
         /\ Len(fate) = Len(prom) /\ Len(started) = Len(prom) /\ DOMAIN started = 1..Len(prom)
         /\ pairs \in Seq(PairRec) /\ stack \in Seq(FrameRec)
<1>1. Whole(Heap, pairs, stack, fate, started, 0)
  BY DEF IInv
<1>2. /\ Heap \in HeapRec /\ Heap.prom = prom /\ Heap.jobs = jobs /\ Heap.unhandled = unhandled
      /\ prom \in Seq(PromiseRec) /\ jobs \in Seq(JobRec) /\ unhandled \in Seq(NodeRec)
      /\ pairs \in Seq(PairRec) /\ DOMAIN pairs = 1..Len(pairs) /\ stack \in Seq(FrameRec)
      /\ Len(prom) \in Nat
  BY <1>1, HeapTyped
<1>3. Known(Heap, pairs, stack, fate, started, 0)
  BY <1>1, WholeFacts
<1>4. /\ HeapOK(Heap, fate, started) /\ Balanced(Heap, pairs, stack, 0) /\ PairsOK(prom, pairs)
      /\ Len(fate) = Len(prom) /\ Len(started) = Len(prom) /\ started \in Seq(Nat)
      /\ \A p \in 1..Len(prom) : prom[p] \in PromiseRec /\ fate[p] \in FateRec
      /\ \A p \in 1..Len(prom) : p # 0 => Stands(prom, fate, p)
  BY <1>2, <1>3 DEF Known
<1>5. \A p \in 1..Len(prom) : Stands(prom, fate, p)
  <2> SUFFICES ASSUME NEW p \in 1..Len(prom) PROVE Stands(prom, fate, p)
    OBVIOUS
  <2>1. p # 0
    BY <1>2
  <2> QED BY <1>4, <2>1
<1>6. DOMAIN jobs = 1..Len(jobs) /\ DOMAIN unhandled = 1..Len(unhandled) /\ DOMAIN started = 1..Len(prom)
  BY <1>2, <1>4, LenProperties
<1> QED BY ONLY <1>2, <1>4, <1>5, <1>6 DEF Promises

\* Types: no $Promise struct ever holds a promise as its value, for adoption never
\* settles with one, and callbacks, jobs, pairs and nodes refer to promises that were made.
THEOREM TypeCorrect == Spec => []TypeOK
<1>1. IInv => TypeOK
  <2> SUFFICES ASSUME IInv PROVE TypeOK
    OBVIOUS
  <2>1. ASSUME NEW p \in Promises
        PROVE  /\ prom[p].state \in States /\ prom[p].handled \in BOOLEAN
               /\ prom[p].value \notin Promises
               /\ \A k \in DOMAIN prom[p].callbacks : prom[p].callbacks[k].chained <= Len(prom)
    <3>1. prom[p] \in PromiseRec /\ Len(prom) \in Nat
      BY InvariantFacts
    <3>2. prom[p].state \in States /\ prom[p].handled \in BOOLEAN /\ prom[p].value \in Data
          /\ prom[p].callbacks \in Seq(ReactionRec)
      BY <3>1 DEF PromiseRec
    <3>3. prom[p].value \notin Promises
      BY <3>1, <3>2, DataNotNat DEF Promises
    <3>4. ASSUME NEW k \in DOMAIN prom[p].callbacks PROVE prom[p].callbacks[k].chained <= Len(prom)
      <4>1. k \in 1..Len(prom[p].callbacks)
        BY <3>2, LenProperties
      <4>2. HeapOK(Heap, fate, started) /\ Heap.prom = prom
        BY InvariantFacts
      <4>3. prom[p].callbacks[k].chained \in 1..Len(prom)
        BY <4>1, <4>2 DEF HeapOK, CallbacksOK, MayAwait, Promises
      <4> QED BY <3>1, <4>3
    <3> QED BY <3>2, <3>3, <3>4
  <2>2. \A k \in DOMAIN jobs : jobs[k].chained <= Len(prom)
    <3> TAKE k \in DOMAIN jobs
    <3>1. HeapOK(Heap, fate, started) /\ Heap.prom = prom /\ Heap.jobs = jobs /\ k \in 1..Len(jobs)
          /\ Len(prom) \in Nat
      BY InvariantFacts
    <3>2. jobs[k].chained \in 1..Len(prom)
      BY <3>1 DEF HeapOK, JobsOK, JobOK
    <3> QED BY <3>1, <3>2
  <2>3. \A k \in DOMAIN unhandled : unhandled[k].promise \in Promises
    BY InvariantFacts DEF HeapOK, ListOK, Promises
  <2>4. \A k \in DOMAIN pairs : pairs[k].promise \in Promises
    BY InvariantFacts DEF PairsOK, Promises
  <2>5. exitCode \in {Nothing, "success", "failure"} /\ Len(fate) = Len(prom) /\ Len(started) = Len(prom)
    BY InvariantFacts DEF IInv
  <2> QED BY <2>1, <2>2, <2>3, <2>4, <2>5 DEF TypeOK
<1> QED BY <1>1, Invariance, PTL

\* Exactly one thing will settle a pending promise and nothing a settled one, whichever
\* way __promise_resolve_value, the resolving functions, then() and the drain take: a
\* settler goes away only in the step that settles or that puts another one in place.
THEOREM OneSettlerEach == Spec => []OneSettler
<1>1. IInv => OneSettler
  <2> SUFFICES ASSUME IInv, NEW p \in Promises PROVE Settlers(p) = IF Pending(p) THEN 1 ELSE 0
    BY DEF OneSettler
  <2>1. Settlers(p) = Total(Heap, pairs, stack, p)
    <3>1. Heap.prom = prom /\ Heap.jobs = jobs
      BY InvariantFacts
    <3> QED BY <3>1 DEF Settlers, Total, Open, Waits, Queued, Active, OpenSet, WaitSet, Hits, At, ActiveSet,
                        Promises
  <2>2. Total(Heap, pairs, stack, p) + Ind(0, p) = IF Pending(p) THEN 1 ELSE 0
    BY InvariantFacts DEF Balanced, Pending, Promises
  <2>3. Ind(0, p) = 0 /\ Total(Heap, pairs, stack, p) \in Nat
    BY InvariantFacts, TotalType, IndType DEF Promises
  <2> QED BY <2>1, <2>2, <2>3
<1> QED BY <1>1, Invariance, PTL

\* The first resolution decides: the guard cell of a pair and the one-shot
\* __promise_fulfill and __promise_reject keep every later call, and every call from a
\* getter in the middle of a resolution, from changing the outcome.
THEOREM FirstDecides == Spec => []FirstResolutionDecides
<1>1. IInv => FirstResolutionDecides
  <2> SUFFICES ASSUME IInv PROVE FirstResolutionDecides
    OBVIOUS
  <2>1. \A p \in Promises : Stands(prom, fate, p) /\ fate[p].how \in {"undecided", "value", "rejection"}
    BY InvariantFacts DEF FateRec
  <2> QED BY <2>1 DEF FirstResolutionDecides, Stands, Is, Pending, Promises
<1> QED BY <1>1, Invariance, PTL

\* Every rejection that nobody reacted to is on the list at __unhandled_head, once and
\* not marked, so that __report_unhandled_rejections finds it.
THEOREM RejectionsTracked == Spec => []UnhandledIsTracked
<1>1. IInv => UnhandledIsTracked
  BY InvariantFacts DEF HeapOK, ListOK, UnhandledIsTracked, Promises
<1> QED BY <1>1, Invariance, PTL

\* Reactions start one by one in the order of their attachment, though they are
\* prepended to the list of a pending promise: settlement reverses it.
THEOREM InOrder == Spec => ReactionsInOrder
<1>1. IInv /\ [Next]_vars =>
        [\A p \in DOMAIN started : started'[p] # started[p] => started'[p] = started[p] + 1]_vars
  <2> SUFFICES ASSUME IInv, [Next]_vars, NEW p \in DOMAIN started, started'[p] # started[p]
               PROVE  started'[p] = started[p] + 1
    OBVIOUS
  <2>1. /\ DOMAIN started = 1..Len(prom) /\ Len(started) = Len(prom) /\ Len(prom) \in Nat /\ Holds
        /\ started \in Seq(Nat)
    BY InvariantFacts DEF IInv, Holds, Whole
  <2>2. CASE RunIdentity \/ RunHandler
    <3>1. PICK j : j = Head(jobs)
      OBVIOUS
    <3>2. /\ stack = <<>> /\ jobs # <<>> /\ j.kind # "thenable"
          /\ started' = [started EXCEPT ![j.from] = j.place]
      BY <2>2, <3>1 DEF RunIdentity, RunHandler, Started
    <3>3. j.place = started[j.from] + 1 /\ j.from \in 1..Len(started)
      BY <2>1, <3>1, <3>2, DequeueLemma
    <3> QED BY <2>1, <3>2, <3>3
  <2>3. CASE started' = started
    BY <2>3
  <2>4. CASE \E f : Track(f)
    <3>1. started' = Append(started, 0) /\ p \in 1..Len(started)
      BY <2>1, <2>4 DEF Track
    <3>2. started'[p] = started[p]
      BY SMTT(30), <2>1, <3>1, AppendProperties
    <3> QED BY <3>2
  <2>5. \/ RunIdentity \/ RunHandler \/ started' = started \/ \E f : Track(f)
    BY DEF Next, vars, NewPromise, ReturnMain, ReturnThen, FoundThen, FoundNoThen, RunIdentity,
       RunThenableJob, PromiseResolve, ReturnHandler, PromiseReject, ThrowHandler, ThrowThen,
       ThrowGetter, Then, CallResolve, CallReject, Exit
  <2> QED BY <2>2, <2>3, <2>4, <2>5
<1> QED BY <1>1, Invariance, PTL DEF Spec, ReactionsInOrder

-----------------------------------------------------------------------------
(* The promises with the combinators on them                               *)
(*                                                                         *)
(* The element of an input runs at most once.  The number of its capture   *)
(* is the token for that: it is in one reaction of the input, or in one    *)
(* job, or used up.  Sound says so, and that the program itself settles no *)
(* result, which only the elements do.  Stated says what the state and the *)
(* value of a result follow from: the elements that have run, in their     *)
(* order.  An action keeps Sound by moving a token or by using it up, and  *)
(* Stated since a settled input does not change any more; that all inputs  *)
(* are in when the count says so is the pigeonhole principle.              *)

\* The types, with the captures: a negative chained is the capture of an element.
CVal == Plain \cup Thenables \cup Reasons \cup {SelfError, Nothing, Results, AggregateError} \cup Nat
AnyHandler == Handlers \cup {"element"}
CReaction == [fulfil : AnyHandler, reject : AnyHandler, chained : Int, place : Nat]
CPromise == [state : States, value : CVal, callbacks : Seq(CReaction), handled : BOOLEAN, reactions : Nat]
CJob == [kind : {"fulfil", "reject", "thenable"}, chained : Int, value : CVal, from : Nat, place : Nat,
         handler : AnyHandler]
CPair == [promise : Nat, resolved : BOOLEAN]
CFrame == [kind : {"main", "handler", "then", "getter", "subscribe"}, promise : Nat, pair : Nat, value : CVal]
Entries == [status : {"fulfil", "reject"}, value : CVal] \cup CVal
Comb == [kind : {"all", "allSettled", "any", "race"}, result : Nat, inputs : Seq(CVal), results : Seq(Entries),
         remaining : Int, ran : Seq(Nat)]
Cap == [state : Nat, index : Nat]

\* The state has these types.
Typed(pr, js, prs, stk, cs, ks) ==
  /\ pr \in Seq(CPromise) /\ js \in Seq(CJob) /\ prs \in Seq(CPair) /\ stk \in Seq(CFrame)
  /\ cs \in Seq(Comb) /\ ks \in Seq(Cap)

\* Promise p is not the result of a combinator: the program may settle it.
Free(pr, cs, p) == p \in 1..Len(pr) /\ \A c \in 1..Len(cs) : cs[c].result # p

\* Capture -x stands for an input q whose element has not run.
Token(cs, ks, x, q) ==
  /\ -x \in 1..Len(ks) /\ cs[ks[-x].state].inputs[ks[-x].index] = q
  /\ \A m \in 1..Len(cs[ks[-x].state].ran) : cs[ks[-x].state].ran[m] # ks[-x].index

\* A reaction on promise q runs an element of q, or leads to a promise of the program.
ReactionSound(pr, cs, ks, q, r) ==
  IF r.fulfil = "element" THEN r.reject = "element" /\ Token(cs, ks, r.chained, q)
  ELSE r.reject # "element" /\ Free(pr, cs, r.chained)

\* The reactions of q wait while it is pending, each capture once.
ListSound(pr, cs, ks, q) ==
  /\ pr[q].state # "pending" => pr[q].callbacks = <<>>
  /\ \A k \in 1..Len(pr[q].callbacks) : ReactionSound(pr, cs, ks, q, pr[q].callbacks[k])
  /\ \A k, l \in 1..Len(pr[q].callbacks) :
       /\ pr[q].callbacks[k].fulfil = "element" /\ pr[q].callbacks[l].fulfil = "element"
       /\ pr[q].callbacks[k].chained = pr[q].callbacks[l].chained
       => k = l

\* A job runs an element with the outcome of its input, or settles a promise of the program.
JobSound(pr, cs, ks, j) ==
  IF j.handler = "element"
  THEN /\ j.kind # "thenable" /\ j.from \in 1..Len(pr) /\ Token(cs, ks, j.chained, j.from)
       /\ pr[j.from].state = OutcomeOf(j.kind) /\ pr[j.from].value = j.value
  ELSE Free(pr, cs, j.chained)

\* No two jobs have the same capture.
JobsSound(pr, js, cs, ks) ==
  /\ \A k \in 1..Len(js) : JobSound(pr, cs, ks, js[k])
  /\ \A k, l \in 1..Len(js) :
       /\ js[k].handler = "element" /\ js[l].handler = "element" /\ js[k].chained = js[l].chained
       => k = l

\* What a frame will do: a loop has captures up to its place only.
FrameSound(pr, prs, cs, ks, f) ==
  /\ f.kind \in {"handler", "getter", "then"} => Free(pr, cs, f.promise)
  /\ f.kind = "then" => f.pair \in 1..Len(prs)
  /\ f.kind = "subscribe" => /\ f.promise \in 1..Len(cs) /\ f.pair # 0
                             /\ \A k \in 1..Len(ks) : ks[k].state = f.promise => ks[k].index < f.pair

\* A combinator has one loop.
FramesSound(pr, prs, stk, cs, ks) ==
  /\ \A k \in 1..Len(stk) : FrameSound(pr, prs, cs, ks, stk[k])
  /\ \A k, l \in 1..Len(stk) :
       stk[k].kind = "subscribe" /\ stk[l].kind = "subscribe" /\ stk[k].promise = stk[l].promise => k = l

\* A capture stands for an input of a combinator, and no other one does.
CapsSound(pr, cs, ks) ==
  /\ \A k \in 1..Len(ks) : /\ ks[k].state \in 1..Len(cs) /\ ks[k].index \in 1..Len(cs[ks[k].state].inputs)
                           /\ cs[ks[k].state].inputs[ks[k].index] \in 1..Len(pr)
  /\ \A k, l \in 1..Len(ks) : ks[k].state = ks[l].state /\ ks[k].index = ks[l].index => k = l

\* The elements that have run had a capture, and their inputs are settled; none ran twice.
RanSound(pr, ks, c, s) ==
  /\ \A m \in 1..Len(s.ran) : /\ \E k \in 1..Len(ks) : ks[k].state = c /\ ks[k].index = s.ran[m]
                              /\ pr[s.inputs[s.ran[m]]].state # "pending"
  /\ \A k, l \in 1..Len(s.ran) : s.ran[k] = s.ran[l] => k = l

\* A combinator has a result of its own.
CombsSound(pr, cs, ks) ==
  /\ \A c \in 1..Len(cs) : cs[c].result \in 1..Len(pr) /\ Len(cs[c].results) = Len(cs[c].inputs) /\ RanSound(pr, ks, c, cs[c])
  /\ \A c, d \in 1..Len(cs) : cs[c].result = cs[d].result => c = d

\* The reactions and the resolving pairs of all promises
ListsSound(pr, cs, ks) == \A q \in 1..Len(pr) : ListSound(pr, cs, ks, q)
PairsFree(pr, prs, cs) == \A k \in 1..Len(prs) : Free(pr, cs, prs[k].promise)

\* All of it
Sound(pr, js, prs, stk, cs, ks) ==
  /\ Typed(pr, js, prs, stk, cs, ks)
  /\ ListsSound(pr, cs, ks) /\ JobsSound(pr, js, cs, ks) /\ PairsFree(pr, prs, cs)
  /\ FramesSound(pr, prs, stk, cs, ks) /\ CapsSound(pr, cs, ks) /\ CombsSound(pr, cs, ks)

\* The elements that settle the result by themselves, in any heap
Deciding(pr, s) ==
  {m \in 1..Len(s.ran) :
     \/ s.kind = "all" /\ pr[s.inputs[s.ran[m]]].state = "rejected"
     \/ s.kind = "any" /\ pr[s.inputs[s.ran[m]]].state = "fulfilled"
     \/ s.kind = "race"}

\* The entry of input i in the vector of results
EntryOf(pr, s, i) ==
  IF s.kind = "allSettled"
  THEN [status |-> IF pr[s.inputs[i]].state = "fulfilled" THEN "fulfil" ELSE "reject", value |-> pr[s.inputs[i]].value]
  ELSE pr[s.inputs[i]].value

\* What the elements that have run make of the result
Stated(pr, s) ==
  /\ Deciding(pr, s) # {} =>
       \E m \in Deciding(pr, s) :
         /\ \A l \in Deciding(pr, s) : m <= l
         /\ pr[s.result].state = pr[s.inputs[s.ran[m]]].state
         /\ pr[s.result].value = pr[s.inputs[s.ran[m]]].value
  /\ Deciding(pr, s) = {} /\ s.kind # "race" =>
       /\ s.remaining = Len(s.inputs) - Len(s.ran)
       /\ \A m \in 1..Len(s.ran) : s.results[s.ran[m]] = EntryOf(pr, s, s.ran[m])
       /\ Len(s.ran) = Len(s.inputs) =>
            /\ pr[s.result].state = IF s.kind = "any" THEN "rejected" ELSE "fulfilled"
            /\ pr[s.result].value = IF s.kind = "any" THEN AggregateError ELSE Results
  /\ Deciding(pr, s) = {} /\ (s.kind = "race" \/ Len(s.ran) # Len(s.inputs)) =>
       pr[s.result].state = "pending" /\ pr[s.result].value = Nothing

\* The inductive invariant, of any heap
Core(pr, js, prs, stk, cs, ks) ==
  /\ Sound(pr, js, prs, stk, cs, ks)
  /\ \A c \in 1..Len(cs) : Stated(pr, cs[c])

\* The inductive invariant of CSpec
CInv == Core(prom, jobs, pairs, stack, combs, caps)

-----------------------------------------------------------------------------

\* An element that settles the result by itself
Decides(kind, state) ==
  \/ kind = "all" /\ state = "rejected"
  \/ kind = "any" /\ state = "fulfilled"
  \/ kind = "race"

\* The entry for an input that was settled so
EntryFor(kind, state, value) ==
  IF kind = "allSettled" THEN [status |-> IF state = "fulfilled" THEN "fulfil" ELSE "reject", value |-> value]
  ELSE value

\* Both definitions agree.
LEMMA DecidingMember ==
  ASSUME NEW pr, NEW s, NEW m
  PROVE  m \in Deciding(pr, s) <=> m \in 1..Len(s.ran) /\ Decides(s.kind, pr[s.inputs[s.ran[m]]].state)
BY DEF Deciding, Decides

\* Both definitions agree.
LEMMA EntryIs ==
  ASSUME NEW pr, NEW s, NEW i
  PROVE  EntryOf(pr, s, i) = EntryFor(s.kind, pr[s.inputs[i]].state, pr[s.inputs[i]].value)
BY DEF EntryOf, EntryFor

\* A heap
HeapOf(pr, js, un) == [prom |-> pr, jobs |-> js, unhandled |-> un]

\* A sequence, its domain and its elements
LEMMA SeqFacts ==
  ASSUME NEW S, NEW s \in Seq(S)
  PROVE  Len(s) \in Nat /\ DOMAIN s = 1..Len(s) /\ \A k \in 1..Len(s) : s[k] \in S
BY LenProperties, ElementOfSeq

\* What the types say of a promise
LEMMA PromiseFacts ==
  ASSUME NEW pr \in Seq(CPromise)
  PROVE  /\ Len(pr) \in Nat /\ DOMAIN pr = 1..Len(pr)
         /\ \A q \in 1..Len(pr) : /\ pr[q] \in CPromise /\ pr[q].state \in States /\ pr[q].value \in CVal
                                  /\ pr[q].callbacks \in Seq(CReaction) /\ Len(pr[q].callbacks) \in Nat
                                  /\ pr[q].reactions \in Nat
                                  /\ \A k \in 1..Len(pr[q].callbacks) : pr[q].callbacks[k] \in CReaction
<1>1. Len(pr) \in Nat /\ DOMAIN pr = 1..Len(pr) /\ \A q \in 1..Len(pr) : pr[q] \in CPromise
  BY SeqFacts
<1>2. ASSUME NEW q \in 1..Len(pr)
      PROVE  /\ pr[q].state \in States /\ pr[q].value \in CVal /\ pr[q].reactions \in Nat
             /\ pr[q].callbacks \in Seq(CReaction)
  BY <1>1 DEF CPromise
<1>3. ASSUME NEW q \in 1..Len(pr)
      PROVE  Len(pr[q].callbacks) \in Nat /\ \A k \in 1..Len(pr[q].callbacks) : pr[q].callbacks[k] \in CReaction
  <2>1. PICK cb \in Seq(CReaction) : cb = pr[q].callbacks
    BY <1>2
  <2>2. Len(cb) \in Nat /\ \A k \in 1..Len(cb) : cb[k] \in CReaction
    BY SeqFacts
  <2> QED BY <2>1, <2>2
<1> QED BY <1>1, <1>2, <1>3

\* What the types say of all structs
LEMMA WorldFacts ==
  ASSUME NEW pr, NEW js, NEW prs, NEW stk, NEW cs, NEW ks, Typed(pr, js, prs, stk, cs, ks)
  PROVE  /\ Len(pr) \in Nat /\ Len(js) \in Nat /\ Len(prs) \in Nat /\ Len(stk) \in Nat
         /\ Len(cs) \in Nat /\ Len(ks) \in Nat
         /\ \A k \in 1..Len(js) : js[k] \in CJob
         /\ \A k \in 1..Len(prs) : prs[k] \in CPair
         /\ \A k \in 1..Len(stk) : stk[k] \in CFrame
         /\ \A c \in 1..Len(cs) : cs[c] \in Comb
         /\ \A k \in 1..Len(ks) : ks[k] \in Cap
<1>1. /\ pr \in Seq(CPromise) /\ js \in Seq(CJob) /\ prs \in Seq(CPair) /\ stk \in Seq(CFrame)
      /\ cs \in Seq(Comb) /\ ks \in Seq(Cap)
  BY DEF Typed
<1>2. Len(pr) \in Nat
  BY <1>1, SeqFacts
<1>3. Len(js) \in Nat /\ \A k \in 1..Len(js) : js[k] \in CJob
  BY <1>1, SeqFacts
<1>4. Len(prs) \in Nat /\ \A k \in 1..Len(prs) : prs[k] \in CPair
  BY <1>1, SeqFacts
<1>5. Len(stk) \in Nat /\ \A k \in 1..Len(stk) : stk[k] \in CFrame
  BY <1>1, SeqFacts
<1>6. Len(cs) \in Nat /\ \A c \in 1..Len(cs) : cs[c] \in Comb
  BY <1>1, SeqFacts
<1>7. Len(ks) \in Nat /\ \A k \in 1..Len(ks) : ks[k] \in Cap
  BY <1>1, SeqFacts
<1> QED BY <1>2, <1>3, <1>4, <1>5, <1>6, <1>7

\* The job of reaction r on promise p, that was settled
IsJobOf(j, r, p, state, value) ==
  /\ j \in CJob /\ j.kind # "thenable" /\ OutcomeOf(j.kind) = state
  /\ j.chained = r.chained /\ j.value = value /\ j.from = p
  /\ j.handler = IF state = "fulfilled" THEN r.fulfil ELSE r.reject

\* ReactionJob makes the job of a reaction.
LEMMA JobOfReaction ==
  ASSUME NEW kind \in {"fulfil", "reject"}, NEW r \in CReaction, NEW p \in Nat, NEW value \in CVal
  PROVE  IsJobOf(ReactionJob(kind, r, p, value), r, p, OutcomeOf(kind), value)
BY DEF IsJobOf, ReactionJob, CReaction, CJob, OutcomeOf

\* Promise p was settled: its reactions are jobs, reversed.
SettledAs(pr, js, p, state, value, pr2, js2) ==
  /\ pr2 \in Seq(CPromise) /\ js2 \in Seq(CJob) /\ Len(pr2) = Len(pr)
  /\ \A q \in 1..Len(pr) : q # p => pr2[q] = pr[q]
  /\ pr2[p].state = state /\ pr2[p].value = value /\ pr2[p].callbacks = <<>>
  /\ Len(js2) = Len(js) + Len(pr[p].callbacks)
  /\ \A k \in 1..Len(js) : js2[k] = js[k]
  /\ \A k \in 1..Len(pr[p].callbacks) :
       IsJobOf(js2[Len(js) + k], pr[p].callbacks[Len(pr[p].callbacks) + 1 - k], p, state, value)

\* Settle settles a pending promise so.
Settles(pr, js, un, p, state, value) ==
  \E pr2, js2, un2 : /\ Settle(HeapOf(pr, js, un), p, state, value) = HeapOf(pr2, js2, un2)
                     /\ SettledAs(pr, js, p, state, value, pr2, js2)

\* It does.
LEMMA SettledAsLemma ==
  ASSUME NEW pr \in Seq(CPromise), NEW js \in Seq(CJob), NEW un, NEW p \in 1..Len(pr),
         pr[p].state = "pending", NEW state \in {"fulfilled", "rejected"}, NEW value \in CVal
  PROVE  Settles(pr, js, un, p, state, value)
<1>1. PICK cb, m, kind : /\ cb = pr[p].callbacks /\ m = Len(cb)
                         /\ kind = IF state = "fulfilled" THEN "fulfil" ELSE "reject"
  OBVIOUS
<1>2. /\ cb \in Seq(CReaction) /\ m \in Nat /\ DOMAIN cb = 1..m /\ \A k \in 1..m : cb[k] \in CReaction
      /\ pr[p] \in CPromise /\ p \in Nat
  <2>1. cb \in Seq(CReaction) /\ m \in Nat /\ pr[p] \in CPromise /\ p \in Nat
    BY <1>1, PromiseFacts
  <2> QED BY <1>1, <2>1, SeqFacts
<1>3. kind \in {"fulfil", "reject"} /\ OutcomeOf(kind) = state
  BY <1>1 DEF OutcomeOf
<1>4. PICK rec : rec = [pr[p] EXCEPT !.state = state, !.value = value, !.callbacks = <<>>]
  OBVIOUS
<1>5. rec \in CPromise /\ rec.state = state /\ rec.value = value /\ rec.callbacks = <<>>
  <2>1. <<>> \in Seq(CReaction)
    BY EmptySeq
  <2> QED BY <1>2, <1>4, <2>1 DEF CPromise, States
<1>6. PICK new : new = [k \in 1..m |-> ReactionJob(kind, cb[m + 1 - k], p, value)]
  OBVIOUS
<1>7. \A k \in 1..m : IsJobOf(new[k], cb[m + 1 - k], p, state, value)
  <2> SUFFICES ASSUME NEW k \in 1..m PROVE IsJobOf(new[k], cb[m + 1 - k], p, state, value)
    OBVIOUS
  <2>1. m + 1 - k \in 1..m
    BY <1>2
  <2>2. PICK r \in CReaction : r = cb[m + 1 - k]
    BY <1>2, <2>1
  <2>3. IsJobOf(ReactionJob(kind, r, p, value), r, p, OutcomeOf(kind), value)
    BY <1>2, <1>3, JobOfReaction
  <2> QED BY <1>3, <1>6, <2>2, <2>3
<1>8. new \in Seq(CJob) /\ Len(new) = m
  <2>1. \A k \in 1..m : new[k] \in CJob
    BY <1>7 DEF IsJobOf
  <2>2. new \in [1..m -> CJob]
    BY <1>6, <2>1
  <2> QED BY <1>2, <2>2, FunIsSeq
<1>9. PICK un2 : un2 = IF Unhandled(pr[p], state) THEN Note(un, p) ELSE un
  OBVIOUS
<1>10. PICK pr2, js2 : pr2 = [pr EXCEPT ![p] = rec] /\ js2 = js \o new
  OBVIOUS
<1>11. Settle(HeapOf(pr, js, un), p, state, value) = HeapOf(pr2, js2, un2)
  <2>1. PICK h : h = HeapOf(pr, js, un)
    OBVIOUS
  <2>2. h.prom = pr /\ h.jobs = js /\ h.unhandled = un
    BY <2>1 DEF HeapOf
  <2>3. RegistrationOrdered(cb) = [k \in 1..m |-> cb[m + 1 - k]]
    BY <1>1, <1>2 DEF RegistrationOrdered
  <2>4. [k \in DOMAIN RegistrationOrdered(cb) |-> ReactionJob(kind, RegistrationOrdered(cb)[k], p, value)] = new
    BY <1>6, <2>3
  <2>5. Settle(h, p, state, value) =
          [prom |-> [h.prom EXCEPT ![p] = [h.prom[p] EXCEPT !.state = state, !.value = value, !.callbacks = <<>>]],
           jobs |-> h.jobs \o [k \in DOMAIN RegistrationOrdered(h.prom[p].callbacks) |->
                                 ReactionJob(IF state = "fulfilled" THEN "fulfil" ELSE "reject",
                                             RegistrationOrdered(h.prom[p].callbacks)[k], p, value)],
           unhandled |-> IF Unhandled(h.prom[p], state) THEN Note(h.unhandled, p) ELSE h.unhandled]
    BY <2>2 DEF Settle
  <2> QED BY <1>1, <1>4, <1>9, <1>10, <2>1, <2>2, <2>4, <2>5 DEF HeapOf
<1>12. /\ pr2 \in Seq(CPromise) /\ Len(pr2) = Len(pr) /\ pr2[p] = rec
       /\ \A q \in 1..Len(pr) : q # p => pr2[q] = pr[q]
  BY <1>5, <1>10, Replaced
<1>13. /\ js2 \in Seq(CJob) /\ Len(js2) = Len(js) + m /\ Len(js) \in Nat
       /\ \A k \in 1..Len(js) : js2[k] = js[k]
       /\ \A k \in (Len(js) + 1)..(Len(js) + m) : js2[k] = new[k - Len(js)]
  BY <1>8, <1>10, ConcatFacts
<1>14. \A k \in 1..m : js2[Len(js) + k] = new[k]
  <2> SUFFICES ASSUME NEW k \in 1..m PROVE js2[Len(js) + k] = new[k]
    OBVIOUS
  <2>1. Len(js) + k \in (Len(js) + 1)..(Len(js) + m) /\ Len(js) + k - Len(js) = k
    BY <1>2, <1>13
  <2>2. \A i \in (Len(js) + 1)..(Len(js) + m) : js2[i] = new[i - Len(js)]
    BY <1>13
  <2>3. PICK i : i = Len(js) + k
    OBVIOUS
  <2> QED BY ONLY <2>1, <2>2, <2>3
<1>15. SettledAs(pr, js, p, state, value, pr2, js2)
  BY <1>1, <1>5, <1>7, <1>12, <1>13, <1>14 DEF SettledAs
<1> QED BY <1>11, <1>15 DEF Settles

\* Reaction r is added to promise q: in front of its list or, when q is settled, as a job.
AttachedAs(pr, js, q, r, pr2, js2) ==
  /\ pr2 \in Seq(CPromise) /\ js2 \in Seq(CJob) /\ Len(pr2) = Len(pr)
  /\ \A p \in 1..Len(pr) : p # q => pr2[p] = pr[p]
  /\ pr2[q].state = pr[q].state /\ pr2[q].value = pr[q].value
  /\ pr[q].state = "pending" =>
       /\ js2 = js /\ Len(pr2[q].callbacks) = Len(pr[q].callbacks) + 1
       /\ pr2[q].callbacks[1] = r
       /\ \A k \in 1..Len(pr[q].callbacks) : pr2[q].callbacks[k + 1] = pr[q].callbacks[k]
  /\ pr[q].state # "pending" =>
       /\ pr2[q].callbacks = pr[q].callbacks /\ Len(js2) = Len(js) + 1
       /\ \A k \in 1..Len(js) : js2[k] = js[k]
       /\ IsJobOf(js2[Len(js) + 1], r, q, pr[q].state, pr[q].value)

\* AttachThen attaches a reaction so.
Attaches(pr, js, un, q, f, r, c) ==
  \E pr2, js2, e : /\ Attach(HeapOf(pr, js, un), q, f, r, c) = HeapOf(pr2, js2, un)
                   /\ e.fulfil = f /\ e.reject = r /\ e.chained = c
                   /\ AttachedAs(pr, js, q, e, pr2, js2)

\* It does.
LEMMA AttachedAsLemma ==
  ASSUME NEW pr \in Seq(CPromise), NEW js \in Seq(CJob), NEW un, NEW q \in 1..Len(pr),
         NEW f \in AnyHandler, NEW r \in AnyHandler, NEW c \in Int
  PROVE  Attaches(pr, js, un, q, f, r, c)
<1> SUFFICES \E pr2, js2, e : /\ Attach(HeapOf(pr, js, un), q, f, r, c) = HeapOf(pr2, js2, un)
                         /\ e.fulfil = f /\ e.reject = r /\ e.chained = c
                         /\ AttachedAs(pr, js, q, e, pr2, js2)
  BY DEF Attaches
<1>1. PICK h : h = HeapOf(pr, js, un)
  OBVIOUS
<1>2. h = [prom |-> pr, jobs |-> js, unhandled |-> un] /\ h.prom = pr /\ h.jobs = js /\ h.unhandled = un
  BY <1>1 DEF HeapOf
<1>3. PICK cb, n, st, val : cb = pr[q].callbacks /\ n = pr[q].reactions + 1 /\ st = pr[q].state /\ val = pr[q].value
  OBVIOUS
<1>4. /\ cb \in Seq(CReaction) /\ Len(cb) \in Nat /\ n \in Nat /\ pr[q] \in CPromise /\ st \in States
      /\ val \in CVal /\ q \in Nat
  BY <1>3, PromiseFacts
<1>5. PICK e : e = Reaction(f, r, c, n)
  OBVIOUS
<1>6. e \in CReaction /\ e.fulfil = f /\ e.reject = r /\ e.chained = c
  BY <1>4, <1>5 DEF Reaction, CReaction
<1>7. PICK marked : marked = [pr[q] EXCEPT !.handled = TRUE, !.reactions = n]
  OBVIOUS
<1>8. marked \in CPromise /\ marked.state = st /\ marked.value = val /\ marked.callbacks = cb
  BY <1>3, <1>4, <1>7 DEF CPromise
<1>9. PICK pm : pm = [pr EXCEPT ![q] = marked]
  OBVIOUS
<1>10. /\ pm \in Seq(CPromise) /\ Len(pm) = Len(pr) /\ pm[q] = marked
       /\ \A p \in 1..Len(pr) : p # q => pm[p] = pr[p]
  BY <1>8, <1>9, Replaced
<1>11. ReactionHandled(h, q) = [prom |-> pm, jobs |-> js, unhandled |-> un]
  <2>1. ReactionHandled(h, q) =
          [h EXCEPT !.prom = [h.prom EXCEPT ![q] = [h.prom[q] EXCEPT !.handled = TRUE,
                                                                    !.reactions = h.prom[q].reactions + 1]]]
    BY DEF ReactionHandled
  <2>2. h.prom[q] = pr[q] /\ h.prom[q].reactions + 1 = n
    BY <1>2, <1>3
  <2>3. ReactionHandled(h, q) = [h EXCEPT !.prom = [pr EXCEPT ![q] = marked]]
    BY ONLY <1>2, <1>7, <2>1, <2>2
  <2> QED BY <1>2, <1>9, <2>3
<1>12. CASE st = "pending"
  <2>1. PICK list : list = <<e>> \o cb
    OBVIOUS
  <2>2. /\ list \in Seq(CReaction) /\ Len(list) = Len(cb) + 1 /\ list[1] = e
        /\ \A k \in 1..Len(cb) : list[k + 1] = cb[k]
    <3>1. PICK one : one = <<e>>
      OBVIOUS
    <3>2. one \in Seq(CReaction) /\ Len(one) = 1 /\ one[1] = e
      BY <1>6, <3>1
    <3>3. /\ list \in Seq(CReaction) /\ Len(list) = 1 + Len(cb)
          /\ \A k \in 1..1 : list[k] = one[k]
          /\ \A k \in (1 + 1)..(1 + Len(cb)) : list[k] = cb[k - 1]
      BY <1>4, <2>1, <3>1, <3>2, ConcatFacts
    <3>4. \A k \in 1..Len(cb) : list[k + 1] = cb[k]
      <4> TAKE k \in 1..Len(cb)
      <4>1. k + 1 \in (1 + 1)..(1 + Len(cb)) /\ (k + 1) - 1 = k
        BY <1>4
      <4> QED BY <3>3, <4>1
    <3> QED BY <1>4, <3>2, <3>3, <3>4
  <2>3. PICK rec : rec = [marked EXCEPT !.callbacks = list]
    OBVIOUS
  <2>4. rec \in CPromise /\ rec.state = st /\ rec.value = val /\ rec.callbacks = list
    BY <1>8, <2>2, <2>3 DEF CPromise
  <2>5. PICK pr2 : pr2 = [pm EXCEPT ![q] = rec]
    OBVIOUS
  <2>6. /\ pr2 \in Seq(CPromise) /\ Len(pr2) = Len(pm) /\ pr2[q] = rec
        /\ \A p \in 1..Len(pm) : p # q => pr2[p] = pm[p]
    <3>1. q \in 1..Len(pm)
      BY <1>10
    <3> QED BY <1>10, <2>4, <2>5, <3>1, Replaced
  <2>7. Attach(h, q, f, r, c) = HeapOf(pr2, js, un)
    <3>1. PICK mk : mk = ReactionHandled(h, q)
      OBVIOUS
    <3>2. mk = [prom |-> pm, jobs |-> js, unhandled |-> un] /\ mk.prom = pm
      BY <1>11, <3>1
    <3>3. Attach(h, q, f, r, c) = [mk EXCEPT !.prom = [mk.prom EXCEPT ![q] =
                                      [mk.prom[q] EXCEPT !.callbacks = <<Reaction(f, r, c, h.prom[q].reactions + 1)>> \o h.prom[q].callbacks]]]
      BY <1>2, <1>3, <1>12, <3>1 DEF Attach
    <3>4. Attach(h, q, f, r, c) = [mk EXCEPT !.prom = [pm EXCEPT ![q] = [pm[q] EXCEPT !.callbacks = <<e>> \o cb]]]
      BY <1>2, <1>3, <1>5, <3>2, <3>3
    <3>5. Attach(h, q, f, r, c) = [mk EXCEPT !.prom = pr2]
      BY <1>10, <2>1, <2>3, <2>5, <3>4
    <3> QED BY <3>2, <3>5 DEF HeapOf
  <2>8. AttachedAs(pr, js, q, e, pr2, js)
    BY <1>3, <1>10, <1>12, <2>2, <2>4, <2>6 DEF AttachedAs
  <2> QED BY <1>1, <1>6, <2>7, <2>8
<1>13. CASE st # "pending"
  <2>1. PICK kind : kind = IF st = "fulfilled" THEN "fulfil" ELSE "reject"
    OBVIOUS
  <2>2. kind \in {"fulfil", "reject"} /\ OutcomeOf(kind) = st
    BY <1>4, <1>13, <2>1 DEF OutcomeOf, States
  <2>3. PICK j : j = ReactionJob(kind, e, q, val)
    OBVIOUS
  <2>4. IsJobOf(j, e, q, st, val) /\ j \in CJob
    <3>1. IsJobOf(ReactionJob(kind, e, q, val), e, q, OutcomeOf(kind), val)
      BY <1>4, <1>6, <2>2, JobOfReaction
    <3> QED BY <2>2, <2>3, <3>1 DEF IsJobOf
  <2>5. PICK js2 : js2 = Append(js, j)
    OBVIOUS
  <2>6. /\ js2 \in Seq(CJob) /\ Len(js2) = Len(js) + 1 /\ js2[Len(js) + 1] = j
        /\ \A k \in 1..Len(js) : js2[k] = js[k]
    BY <2>4, <2>5, AppendProperties
  <2>7. Attach(h, q, f, r, c) = HeapOf(pm, js2, un)
    <3>1. PICK mk : mk = ReactionHandled(h, q)
      OBVIOUS
    <3>2. mk = [prom |-> pm, jobs |-> js, unhandled |-> un] /\ mk.jobs = js
      BY <1>11, <3>1
    <3>3. Attach(h, q, f, r, c) = [mk EXCEPT !.jobs = Append(mk.jobs, ReactionJob(kind, Reaction(f, r, c, h.prom[q].reactions + 1), q, h.prom[q].value))]
      <4>1. st = "fulfilled" \/ st = "rejected"
        BY <1>4, <1>13 DEF States
      <4>2. CASE st = "fulfilled"
        BY <1>2, <1>3, <2>1, <3>1, <4>2 DEF Attach
      <4>3. CASE st = "rejected"
        BY <1>2, <1>3, <2>1, <3>1, <4>3 DEF Attach
      <4> QED BY <4>1, <4>2, <4>3
    <3>4. Attach(h, q, f, r, c) = [mk EXCEPT !.jobs = js2]
      BY <1>2, <1>3, <1>5, <2>3, <2>5, <3>2, <3>3
    <3> QED BY <3>2, <3>4 DEF HeapOf
  <2>8. AttachedAs(pr, js, q, e, pm, js2)
    BY <1>3, <1>8, <1>10, <1>13, <2>4, <2>6 DEF AttachedAs
  <2> QED BY <1>1, <1>6, <2>7, <2>8
<1> QED BY <1>12, <1>13

\* Nothing that is sound of a promise ends when later promises do more.
LEMMA FreeLater ==
  ASSUME NEW pr, NEW pr2, Later(pr, pr2), NEW cs, NEW p, Free(pr, cs, p)
  PROVE  Free(pr2, cs, p)
BY DEF Later, Free

\* A reaction stays sound.
LEMMA ReactionLater ==
  ASSUME NEW pr, NEW pr2, Later(pr, pr2), NEW cs, NEW ks, NEW q, NEW r, ReactionSound(pr, cs, ks, q, r)
  PROVE  ReactionSound(pr2, cs, ks, q, r)
BY FreeLater DEF ReactionSound

\* A job stays sound.
LEMMA JobLater ==
  ASSUME NEW pr, NEW pr2, Later(pr, pr2), NEW cs, NEW ks, NEW j, JobSound(pr, cs, ks, j)
  PROVE  JobSound(pr2, cs, ks, j)
<1>1. CASE j.handler = "element"
  <2>1. OutcomeOf(j.kind) # "pending"
    BY DEF OutcomeOf
  <2> QED BY <1>1, <2>1 DEF JobSound, Later
<1>2. CASE j.handler # "element"
  BY <1>2, FreeLater DEF JobSound
<1> QED BY <1>1, <1>2

\* The frames stay sound.
LEMMA FramesLaterC ==
  ASSUME NEW pr, NEW pr2, Later(pr, pr2), NEW prs, NEW stk, NEW cs, NEW ks, FramesSound(pr, prs, stk, cs, ks)
  PROVE  FramesSound(pr2, prs, stk, cs, ks)
<1>1. ASSUME NEW f, FrameSound(pr, prs, cs, ks, f)
      PROVE  FrameSound(pr2, prs, cs, ks, f)
  BY <1>1, FreeLater DEF FrameSound
<1> QED BY <1>1 DEF FramesSound

\* The captures stay sound.
LEMMA CapsLater ==
  ASSUME NEW pr, NEW pr2, Later(pr, pr2), NEW cs, NEW ks, CapsSound(pr, cs, ks)
  PROVE  CapsSound(pr2, cs, ks)
<1>1. \A x : x \in 1..Len(pr) => x \in 1..Len(pr2)
  BY DEF Later
<1> QED BY <1>1 DEF CapsSound

\* The inputs of the elements that have run are settled promises.
LEMMA RanInput ==
  ASSUME NEW pr, NEW cs, NEW ks, CapsSound(pr, cs, ks), NEW c \in 1..Len(cs), NEW s, s = cs[c],
         RanSound(pr, ks, c, s), NEW m \in 1..Len(s.ran)
  PROVE  /\ s.ran[m] \in 1..Len(s.inputs) /\ s.inputs[s.ran[m]] \in 1..Len(pr)
         /\ pr[s.inputs[s.ran[m]]].state # "pending"
<1>1. PICK k \in 1..Len(ks) : ks[k].state = c /\ ks[k].index = s.ran[m]
  BY DEF RanSound
<1>2. ks[k].index \in 1..Len(cs[ks[k].state].inputs) /\ cs[ks[k].state].inputs[ks[k].index] \in 1..Len(pr)
  BY DEF CapsSound
<1>3. pr[s.inputs[s.ran[m]]].state # "pending"
  BY DEF RanSound
<1> QED BY <1>1, <1>2, <1>3

\* The combinators stay sound.
LEMMA CombsLater ==
  ASSUME NEW pr, NEW pr2, Later(pr, pr2), NEW cs, NEW ks, CapsSound(pr, cs, ks), CombsSound(pr, cs, ks)
  PROVE  CombsSound(pr2, cs, ks)
<1>1. \A x : x \in 1..Len(pr) => x \in 1..Len(pr2)
  BY DEF Later
<1>2. ASSUME NEW c \in 1..Len(cs), NEW s, s = cs[c], RanSound(pr, ks, c, s)
      PROVE  RanSound(pr2, ks, c, s)
  <2>1. ASSUME NEW m \in 1..Len(s.ran) PROVE pr2[s.inputs[s.ran[m]]].state # "pending"
    <3>1. s.inputs[s.ran[m]] \in 1..Len(pr) /\ pr[s.inputs[s.ran[m]]].state # "pending"
      BY <1>2, RanInput
    <3> QED BY <3>1 DEF Later
  <2> QED BY <1>2, <2>1 DEF RanSound
<1> QED BY <1>1, <1>2 DEF CombsSound

\* An element's job is no job of a pending promise.
LEMMA ElementSource ==
  ASSUME NEW pr, NEW cs, NEW ks, NEW j, JobSound(pr, cs, ks, j), j.handler = "element"
  PROVE  /\ j.kind # "thenable" /\ j.from \in 1..Len(pr) /\ pr[j.from].state # "pending"
         /\ pr[j.from].state = OutcomeOf(j.kind) /\ pr[j.from].value = j.value
         /\ Token(cs, ks, j.chained, j.from)
BY DEF JobSound, OutcomeOf

\* A token stands for one input.
LEMMA TokenSource ==
  ASSUME NEW cs, NEW ks, NEW x, NEW p, NEW q, Token(cs, ks, x, p), Token(cs, ks, x, q)
  PROVE  p = q
BY DEF Token

\* The job of a sound reaction is sound.
LEMMA ReactionJobSound ==
  ASSUME NEW pr, NEW cs, NEW ks, NEW p \in 1..Len(pr), NEW r, ReactionSound(pr, cs, ks, p, r),
         NEW state, NEW value, pr[p].state = state, pr[p].value = value, NEW j, IsJobOf(j, r, p, state, value)
  PROVE  JobSound(pr, cs, ks, j) /\ (j.handler = "element" <=> r.fulfil = "element")
<1>1. /\ j.kind # "thenable" /\ OutcomeOf(j.kind) = state /\ j.chained = r.chained /\ j.value = value
      /\ j.from = p /\ j.handler = IF state = "fulfilled" THEN r.fulfil ELSE r.reject
  BY DEF IsJobOf
<1>2. CASE r.fulfil = "element"
  BY <1>1, <1>2 DEF ReactionSound, JobSound
<1>3. CASE r.fulfil # "element"
  BY <1>1, <1>3 DEF ReactionSound, JobSound
<1> QED BY <1>2, <1>3

\* A job carries the element of the reaction it is made from.
MadeFrom(j, r, p) ==
  (j.handler = "element" <=> r.fulfil = "element") /\ j.chained = r.chained /\ j.from = p

\* A promise is settled: its tokens move from its reactions to the jobs.
LEMMA SettleSound ==
  ASSUME NEW pr, NEW js, NEW prs, NEW stk, NEW cs, NEW ks, Sound(pr, js, prs, stk, cs, ks),
         NEW p \in 1..Len(pr), pr[p].state = "pending", NEW state \in {"fulfilled", "rejected"}, NEW value,
         NEW pr2, NEW js2, SettledAs(pr, js, p, state, value, pr2, js2)
  PROVE  Sound(pr2, js2, prs, stk, cs, ks) /\ Later(pr, pr2)
<1>1. /\ Typed(pr, js, prs, stk, cs, ks) /\ ListsSound(pr, cs, ks) /\ JobsSound(pr, js, cs, ks)
      /\ PairsFree(pr, prs, cs) /\ FramesSound(pr, prs, stk, cs, ks) /\ CapsSound(pr, cs, ks)
      /\ CombsSound(pr, cs, ks)
  BY DEF Sound
<1>2. Len(pr) \in Nat /\ Len(js) \in Nat
  BY <1>1, WorldFacts
<1>3. /\ pr2 \in Seq(CPromise) /\ js2 \in Seq(CJob) /\ Len(pr2) = Len(pr)
      /\ \A q \in 1..Len(pr) : q # p => pr2[q] = pr[q]
      /\ pr2[p].state = state /\ pr2[p].value = value /\ pr2[p].callbacks = <<>>
  BY DEF SettledAs
<1>4. PICK cb, m : cb = pr[p].callbacks /\ m = Len(cb)
  OBVIOUS
<1>5. m \in Nat
  <2>1. pr \in Seq(CPromise)
    BY <1>1 DEF Typed
  <2> QED BY <1>4, <2>1, PromiseFacts
<1>6. /\ Len(js2) = Len(js) + m /\ \A k \in 1..Len(js) : js2[k] = js[k]
      /\ \A i \in 1..m : IsJobOf(js2[Len(js) + i], cb[m + 1 - i], p, state, value)
  BY <1>4 DEF SettledAs
<1>7. Later(pr, pr2)
  BY <1>2, <1>3 DEF Later
<1>8. \A k \in 1..m : ReactionSound(pr, cs, ks, p, cb[k])
  BY <1>1, <1>4 DEF ListsSound, ListSound
<1>9. \A k, l \in 1..m : cb[k].fulfil = "element" /\ cb[l].fulfil = "element" /\ cb[k].chained = cb[l].chained => k = l
  BY <1>1, <1>4 DEF ListsSound, ListSound
<1>10. \A i \in 1..m : m + 1 - i \in 1..m
  BY <1>5
<1>11. \A i \in 1..m : JobSound(pr2, cs, ks, js2[Len(js) + i]) /\ MadeFrom(js2[Len(js) + i], cb[m + 1 - i], p)
  <2> SUFFICES ASSUME NEW i \in 1..m, NEW j, j = js2[Len(js) + i], NEW r, r = cb[m + 1 - i]
               PROVE  JobSound(pr2, cs, ks, j) /\ MadeFrom(j, r, p)
    OBVIOUS
  <2>1. ReactionSound(pr, cs, ks, p, r)
    BY <1>8, <1>10
  <2>2. ReactionSound(pr2, cs, ks, p, r)
    BY <1>7, <2>1, ReactionLater
  <2>3. IsJobOf(j, r, p, state, value)
    BY <1>6
  <2>4. p \in 1..Len(pr2)
    BY <1>3
  <2>5. JobSound(pr2, cs, ks, j) /\ (j.handler = "element" <=> r.fulfil = "element")
    <3>1. /\ state \in {"fulfilled", "rejected"} /\ pr2[p].state = state /\ pr2[p].value = value
      BY <1>3
    <3> QED BY ONLY <2>2, <2>3, <2>4, <3>1, ReactionJobSound
  <2> QED BY ONLY <2>3, <2>5 DEF IsJobOf, MadeFrom
<1>12. \A k \in 1..Len(js2) : k \in 1..Len(js) \/ \E i \in 1..m : k = Len(js) + i
  <2> SUFFICES ASSUME NEW k \in 1..(Len(js) + m) PROVE k \in 1..Len(js) \/ \E i \in 1..m : k = Len(js) + i
    BY <1>6
  <2> QED BY <1>2, <1>5, SplitIndex
<1>13. \A k \in 1..Len(js2) : JobSound(pr2, cs, ks, js2[k])
  <2> SUFFICES ASSUME NEW k \in 1..Len(js2) PROVE JobSound(pr2, cs, ks, js2[k])
    OBVIOUS
  <2>1. CASE k \in 1..Len(js)
    <3>1. JobSound(pr, cs, ks, js[k])
      BY <1>1, <2>1 DEF JobsSound
    <3>2. JobSound(pr2, cs, ks, js[k])
      BY <1>7, <3>1, JobLater
    <3> QED BY <1>6, <2>1, <3>2
  <2>2. CASE \E i \in 1..m : k = Len(js) + i
    BY <1>11, <2>2
  <2> QED BY <1>12, <2>1, <2>2
<1>14. ASSUME NEW k \in 1..Len(js), js[k].handler = "element", NEW i \in 1..m, js2[Len(js) + i].handler = "element",
              js[k].chained = js2[Len(js) + i].chained
       PROVE  FALSE
  <2>1. JobSound(pr, cs, ks, js[k])
    BY <1>1 DEF JobsSound
  <2>2. pr[js[k].from].state # "pending" /\ Token(cs, ks, js[k].chained, js[k].from)
    BY <1>14, <2>1, ElementSource
  <2>3. PICK j : j = js2[Len(js) + i]
    OBVIOUS
  <2>4. JobSound(pr2, cs, ks, j) /\ j.from = p
    BY <1>11, <2>3 DEF MadeFrom
  <2>5. Token(cs, ks, j.chained, p)
    BY <1>14, <2>3, <2>4, ElementSource
  <2>6. js[k].from = p
    BY <1>14, <2>2, <2>3, <2>5, TokenSource
  <2> QED BY <2>2, <2>6
<1>15. \A k, l \in 1..Len(js2) :
         js2[k].handler = "element" /\ js2[l].handler = "element" /\ js2[k].chained = js2[l].chained => k = l
  <2> SUFFICES ASSUME NEW k \in 1..Len(js2), NEW l \in 1..Len(js2), js2[k].handler = "element",
                      js2[l].handler = "element", js2[k].chained = js2[l].chained
               PROVE  k = l
    OBVIOUS
  <2>1. CASE k \in 1..Len(js) /\ l \in 1..Len(js)
    BY <1>1, <1>6, <2>1 DEF JobsSound
  <2>2. CASE k \in 1..Len(js) /\ \E i \in 1..m : l = Len(js) + i
    BY <1>6, <1>14, <2>2
  <2>3. CASE l \in 1..Len(js) /\ \E i \in 1..m : k = Len(js) + i
    BY <1>6, <1>14, <2>3
  <2>4. CASE (\E i \in 1..m : k = Len(js) + i) /\ (\E i \in 1..m : l = Len(js) + i)
    <3>1. PICK a \in 1..m, b \in 1..m : k = Len(js) + a /\ l = Len(js) + b
      BY <2>4
    <3>2. PICK x \in 1..m, y \in 1..m : x = m + 1 - a /\ y = m + 1 - b
      BY ONLY a \in 1..m, b \in 1..m, <1>10
    <3>3. MadeFrom(js2[k], cb[x], p) /\ MadeFrom(js2[l], cb[y], p)
      <4>1. MadeFrom(js2[Len(js) + a], cb[m + 1 - a], p) /\ MadeFrom(js2[Len(js) + b], cb[m + 1 - b], p)
        BY ONLY a \in 1..m, b \in 1..m, <1>11
      <4> QED BY ONLY <3>1, <3>2, <4>1
    <3>4. cb[x].fulfil = "element" /\ cb[y].fulfil = "element" /\ cb[x].chained = cb[y].chained
      BY ONLY js2[k].handler = "element", js2[l].handler = "element", js2[k].chained = js2[l].chained, <3>3 DEF MadeFrom
    <3>5. x = y
      BY ONLY <1>9, <3>4
    <3> QED BY <1>5, <3>1, <3>2, <3>5
  <2> QED BY <1>12, <2>1, <2>2, <2>3, <2>4
<1>16. ListsSound(pr2, cs, ks)
  <2> SUFFICES ASSUME NEW q \in 1..Len(pr2) PROVE ListSound(pr2, cs, ks, q)
    BY DEF ListsSound
  <2>1. CASE q = p
    <3>1. Len(<<>>) = 0
      OBVIOUS
    <3> QED BY <1>3, <2>1, <3>1 DEF ListSound
  <2>2. CASE q # p
    <3>1. pr2[q] = pr[q] /\ ListSound(pr, cs, ks, q)
      BY <1>1, <1>3, <2>2 DEF ListsSound
    <3>2. \A k \in 1..Len(pr[q].callbacks) : ReactionSound(pr2, cs, ks, q, pr[q].callbacks[k])
      <4> SUFFICES ASSUME NEW k \in 1..Len(pr[q].callbacks) PROVE ReactionSound(pr2, cs, ks, q, pr[q].callbacks[k])
        OBVIOUS
      <4>1. ReactionSound(pr, cs, ks, q, pr[q].callbacks[k])
        BY <3>1 DEF ListSound
      <4> QED BY <1>7, <4>1, ReactionLater
    <3> QED BY <3>1, <3>2 DEF ListSound
  <2> QED BY <2>1, <2>2
<1>17. JobsSound(pr2, js2, cs, ks)
  BY <1>13, <1>15 DEF JobsSound
<1>18. PairsFree(pr2, prs, cs)
  BY <1>1, <1>7, FreeLater DEF PairsFree
<1>19. FramesSound(pr2, prs, stk, cs, ks) /\ CapsSound(pr2, cs, ks) /\ CombsSound(pr2, cs, ks)
  BY <1>1, <1>7, FramesLaterC, CapsLater, CombsLater
<1>20. Typed(pr2, js2, prs, stk, cs, ks)
  BY <1>1, <1>3 DEF Typed
<1> QED BY <1>7, <1>16, <1>17, <1>18, <1>19, <1>20 DEF Sound

\* The capture x is neither with a reaction nor with a job.
Loose(pr, js, x) ==
  /\ \A q \in 1..Len(pr) : \A k \in 1..Len(pr[q].callbacks) :
       pr[q].callbacks[k].fulfil = "element" => pr[q].callbacks[k].chained # x
  /\ \A k \in 1..Len(js) : js[k].handler = "element" => js[k].chained # x

\* A reaction is attached: its token is a new one.
LEMMA AttachSound ==
  ASSUME NEW pr, NEW js, NEW prs, NEW stk, NEW cs, NEW ks, Sound(pr, js, prs, stk, cs, ks),
         NEW q \in 1..Len(pr), NEW e, ReactionSound(pr, cs, ks, q, e),
         e.fulfil = "element" => Loose(pr, js, e.chained),
         NEW pr2, NEW js2, AttachedAs(pr, js, q, e, pr2, js2)
  PROVE  Sound(pr2, js2, prs, stk, cs, ks) /\ Later(pr, pr2)
<1>1. /\ Typed(pr, js, prs, stk, cs, ks) /\ ListsSound(pr, cs, ks) /\ JobsSound(pr, js, cs, ks)
      /\ PairsFree(pr, prs, cs) /\ FramesSound(pr, prs, stk, cs, ks) /\ CapsSound(pr, cs, ks)
      /\ CombsSound(pr, cs, ks)
  BY DEF Sound
<1>2. Len(pr) \in Nat /\ Len(js) \in Nat
  BY <1>1, WorldFacts
<1>3. /\ pr2 \in Seq(CPromise) /\ js2 \in Seq(CJob) /\ Len(pr2) = Len(pr)
      /\ \A p \in 1..Len(pr) : p # q => pr2[p] = pr[p]
      /\ pr2[q].state = pr[q].state /\ pr2[q].value = pr[q].value
  BY DEF AttachedAs
<1>4. PICK cb, m : cb = pr[q].callbacks /\ m = Len(cb)
  OBVIOUS
<1>5. m \in Nat
  <2>1. pr \in Seq(CPromise)
    BY <1>1 DEF Typed
  <2> QED BY <1>4, <2>1, PromiseFacts
<1>6. Later(pr, pr2)
  BY <1>2, <1>3 DEF Later
<1>7. ReactionSound(pr2, cs, ks, q, e)
  BY <1>6, ReactionLater
<1>8. PairsFree(pr2, prs, cs)
  BY <1>1, <1>6, FreeLater DEF PairsFree
<1>9. FramesSound(pr2, prs, stk, cs, ks) /\ CapsSound(pr2, cs, ks) /\ CombsSound(pr2, cs, ks)
  BY <1>1, <1>6, FramesLaterC, CapsLater, CombsLater
<1>10. Typed(pr2, js2, prs, stk, cs, ks)
  BY <1>1, <1>3 DEF Typed
<1>11. \A p \in 1..Len(pr) : \A k \in 1..Len(pr[p].callbacks) : ReactionSound(pr2, cs, ks, p, pr[p].callbacks[k])
  <2> SUFFICES ASSUME NEW p \in 1..Len(pr), NEW k \in 1..Len(pr[p].callbacks)
               PROVE  ReactionSound(pr2, cs, ks, p, pr[p].callbacks[k])
    OBVIOUS
  <2>1. ReactionSound(pr, cs, ks, p, pr[p].callbacks[k])
    BY <1>1 DEF ListsSound, ListSound
  <2> QED BY <1>6, <2>1, ReactionLater
<1>12. \A k \in 1..Len(js) : JobSound(pr2, cs, ks, js[k])
  <2> SUFFICES ASSUME NEW k \in 1..Len(js) PROVE JobSound(pr2, cs, ks, js[k])
    OBVIOUS
  <2>1. JobSound(pr, cs, ks, js[k])
    BY <1>1 DEF JobsSound
  <2> QED BY <1>6, <2>1, JobLater
<1>13. \A p \in 1..Len(pr) : p # q => ListSound(pr2, cs, ks, p)
  <2> SUFFICES ASSUME NEW p \in 1..Len(pr), p # q PROVE ListSound(pr2, cs, ks, p)
    OBVIOUS
  <2>1. ListSound(pr, cs, ks, p) /\ pr2[p] = pr[p]
    BY <1>1, <1>3 DEF ListsSound
  <2> QED BY <1>11, <2>1 DEF ListSound
<1>14. ListSound(pr, cs, ks, q)
  BY <1>1 DEF ListsSound
<1>15. CASE pr[q].state = "pending"
  <2>1. PICK list : list = pr2[q].callbacks
    OBVIOUS
  <2>2. js2 = js /\ Len(list) = m + 1 /\ list[1] = e /\ \A k \in 1..m : list[k + 1] = cb[k]
    BY <1>4, <1>15, <2>1 DEF AttachedAs
  <2>3. \A k \in 1..Len(list) : k = 1 \/ (k - 1 \in 1..m /\ list[k] = cb[k - 1])
    <3> SUFFICES ASSUME NEW k \in 1..(m + 1), k # 1 PROVE k - 1 \in 1..m /\ list[k] = cb[k - 1]
      BY <2>2
    <3>1. PICK i \in 1..m : k = i + 1 /\ k - 1 = i
      <4>1. k - 1 \in 1..m /\ k = (k - 1) + 1
        BY <1>5
      <4> QED BY <4>1
    <3> QED BY <2>2, <3>1
  <2>4. \A k \in 1..Len(list) : ReactionSound(pr2, cs, ks, q, list[k])
    BY <1>4, <1>7, <1>11, <2>2, <2>3
  <2>5. \A k, l \in 1..Len(list) : list[k].fulfil = "element" /\ list[l].fulfil = "element"
                                   /\ list[k].chained = list[l].chained => k = l
    <3> SUFFICES ASSUME NEW k \in 1..Len(list), NEW l \in 1..Len(list), list[k].fulfil = "element",
                        list[l].fulfil = "element", list[k].chained = list[l].chained
                 PROVE  k = l
      OBVIOUS
    <3>1. \A i \in 1..m : e.fulfil = "element" /\ cb[i].fulfil = "element" => cb[i].chained # e.chained
      BY <1>4 DEF Loose
    <3>2. \A i, j \in 1..m : cb[i].fulfil = "element" /\ cb[j].fulfil = "element" /\ cb[i].chained = cb[j].chained
                             => i = j
      BY <1>4, <1>14 DEF ListSound
    <3>3. CASE k = 1 /\ l = 1
      BY <3>3
    <3>4. CASE k = 1 /\ l # 1
      BY <2>2, <2>3, <3>1, <3>4
    <3>5. CASE k # 1 /\ l = 1
      BY <2>2, <2>3, <3>1, <3>5
    <3>6. CASE k # 1 /\ l # 1
      <4>1. k - 1 = l - 1
        BY <2>3, <3>2, <3>6
      <4> QED BY <1>5, <2>2, <4>1
    <3> QED BY <3>3, <3>4, <3>5, <3>6
  <2>6. ListSound(pr2, cs, ks, q)
    BY <1>3, <1>15, <2>1, <2>4, <2>5 DEF ListSound
  <2>7. ListsSound(pr2, cs, ks)
    BY <1>3, <1>13, <2>6 DEF ListsSound
  <2>8. JobsSound(pr2, js2, cs, ks)
    BY <1>1, <1>12, <2>2 DEF JobsSound
  <2> QED BY <1>6, <1>8, <1>9, <1>10, <2>7, <2>8 DEF Sound
<1>16. CASE pr[q].state # "pending"
  <2>1. PICK j : j = js2[Len(js) + 1]
    OBVIOUS
  <2>2. /\ pr2[q].callbacks = cb /\ Len(js2) = Len(js) + 1 /\ \A k \in 1..Len(js) : js2[k] = js[k]
        /\ IsJobOf(j, e, q, pr[q].state, pr[q].value)
    BY <1>4, <1>16, <2>1 DEF AttachedAs
  <2>3. ListSound(pr2, cs, ks, q)
    BY <1>3, <1>4, <1>11, <1>14, <2>2 DEF ListSound
  <2>4. ListsSound(pr2, cs, ks)
    BY <1>3, <1>13, <2>3 DEF ListsSound
  <2>5. JobSound(pr2, cs, ks, j) /\ (j.handler = "element" <=> e.fulfil = "element") /\ j.chained = e.chained
    <3>1. q \in 1..Len(pr2)
      BY <1>3
    <3>2. JobSound(pr2, cs, ks, j) /\ (j.handler = "element" <=> e.fulfil = "element")
      BY <1>3, <1>7, <2>2, <3>1, ReactionJobSound
    <3> QED BY <2>2, <3>2 DEF IsJobOf
  <2>6. \A k \in 1..Len(js2) : k \in 1..Len(js) \/ k = Len(js) + 1
    BY <1>2, <2>2
  <2>7. \A k \in 1..Len(js2) : JobSound(pr2, cs, ks, js2[k])
    BY <1>12, <2>1, <2>2, <2>5, <2>6
  <2>8. \A k \in 1..Len(js) : js[k].handler = "element" /\ j.handler = "element" => js[k].chained # j.chained
    BY <2>5 DEF Loose
  <2>9. \A k, l \in 1..Len(js2) :
          js2[k].handler = "element" /\ js2[l].handler = "element" /\ js2[k].chained = js2[l].chained => k = l
    <3>1. \A k, l \in 1..Len(js) :
            js[k].handler = "element" /\ js[l].handler = "element" /\ js[k].chained = js[l].chained => k = l
      BY <1>1 DEF JobsSound
    <3> QED BY <2>1, <2>2, <2>6, <2>8, <3>1
  <2>10. JobsSound(pr2, js2, cs, ks)
    BY <2>7, <2>9 DEF JobsSound
  <2> QED BY <1>6, <1>8, <1>9, <1>10, <2>4, <2>10 DEF Sound
<1> QED BY <1>15, <1>16

\* A promise is made; it may be rejected from the start.
MadeAs(pr, new, pr2) == pr2 = Append(pr, new) /\ new \in CPromise /\ new.callbacks = <<>>

\* A promise is made: nothing is on it.
LEMMA MadeSound ==
  ASSUME NEW pr, NEW js, NEW prs, NEW stk, NEW cs, NEW ks, Sound(pr, js, prs, stk, cs, ks),
         NEW new, NEW pr2, MadeAs(pr, new, pr2)
  PROVE  /\ Sound(pr2, js, prs, stk, cs, ks) /\ Later(pr, pr2) /\ Len(pr2) = Len(pr) + 1
         /\ pr2[Len(pr) + 1] = new /\ Free(pr2, cs, Len(pr) + 1)
         /\ \A q \in 1..Len(pr) : pr2[q] = pr[q]
<1>1. /\ Typed(pr, js, prs, stk, cs, ks) /\ ListsSound(pr, cs, ks) /\ JobsSound(pr, js, cs, ks)
      /\ PairsFree(pr, prs, cs) /\ FramesSound(pr, prs, stk, cs, ks) /\ CapsSound(pr, cs, ks)
      /\ CombsSound(pr, cs, ks)
  BY DEF Sound
<1>2. Len(pr) \in Nat /\ pr \in Seq(CPromise)
  BY <1>1, WorldFacts DEF Typed
<1>3. /\ pr2 \in Seq(CPromise) /\ Len(pr2) = Len(pr) + 1 /\ pr2[Len(pr) + 1] = new
      /\ \A q \in 1..Len(pr) : pr2[q] = pr[q]
  BY <1>2, AppendProperties DEF MadeAs
<1>4. Later(pr, pr2)
  BY <1>2, <1>3 DEF Later
<1>5. PairsFree(pr2, prs, cs)
  BY <1>1, <1>4, FreeLater DEF PairsFree
<1>6. FramesSound(pr2, prs, stk, cs, ks) /\ CapsSound(pr2, cs, ks) /\ CombsSound(pr2, cs, ks)
  BY <1>1, <1>4, FramesLaterC, CapsLater, CombsLater
<1>7. Typed(pr2, js, prs, stk, cs, ks)
  BY <1>1, <1>3 DEF Typed
<1>8. JobsSound(pr2, js, cs, ks)
  BY <1>1, <1>4, JobLater DEF JobsSound
<1>9. ListsSound(pr2, cs, ks)
  <2> SUFFICES ASSUME NEW q \in 1..Len(pr2) PROVE ListSound(pr2, cs, ks, q)
    BY DEF ListsSound
  <2>1. CASE q \in 1..Len(pr)
    <3>1. ListSound(pr, cs, ks, q) /\ pr2[q] = pr[q]
      BY <1>1, <1>3, <2>1 DEF ListsSound
    <3>2. \A k \in 1..Len(pr[q].callbacks) : ReactionSound(pr2, cs, ks, q, pr[q].callbacks[k])
      <4> SUFFICES ASSUME NEW k \in 1..Len(pr[q].callbacks) PROVE ReactionSound(pr2, cs, ks, q, pr[q].callbacks[k])
        OBVIOUS
      <4>1. ReactionSound(pr, cs, ks, q, pr[q].callbacks[k])
        BY <3>1 DEF ListSound
      <4> QED BY <1>4, <4>1, ReactionLater
    <3> QED BY <3>1, <3>2 DEF ListSound
  <2>2. CASE q = Len(pr) + 1
    <3>1. Len(<<>>) = 0 /\ pr2[q].callbacks = <<>>
      BY <1>3, <2>2 DEF MadeAs
    <3> QED BY <3>1 DEF ListSound
  <2> QED BY <1>2, <1>3, <2>1, <2>2
<1>10. Free(pr2, cs, Len(pr) + 1)
  <2>1. \A c \in 1..Len(cs) : cs[c].result \in 1..Len(pr)
    BY <1>1 DEF CombsSound
  <2> QED BY <1>2, <1>3, <2>1 DEF Free
<1> QED BY <1>3, <1>4, <1>5, <1>6, <1>7, <1>8, <1>9, <1>10 DEF Sound

\* The first job is taken.
Dequeued2(js, j, js2) == js # <<>> /\ j = Head(js) /\ js2 = Tail(js)

\* Its token is in no reaction and no other job.
LEMMA DequeueSound ==
  ASSUME NEW pr, NEW js, NEW prs, NEW stk, NEW cs, NEW ks, Sound(pr, js, prs, stk, cs, ks),
         NEW j, NEW js2, Dequeued2(js, j, js2)
  PROVE  /\ Sound(pr, js2, prs, stk, cs, ks) /\ JobSound(pr, cs, ks, j) /\ j \in CJob
         /\ j.handler = "element" => Loose(pr, js2, j.chained)
<1>1. Typed(pr, js, prs, stk, cs, ks) /\ ListsSound(pr, cs, ks) /\ JobsSound(pr, js, cs, ks)
  BY DEF Sound
<1>2. js \in Seq(CJob) /\ js # <<>> /\ Len(js) \in Nat /\ j = Head(js) /\ js2 = Tail(js)
  BY <1>1, WorldFacts DEF Typed, Dequeued2
<1>3. js2 \in Seq(CJob) /\ Len(js2) = Len(js) - 1 /\ j = js[1] /\ Len(js) # 0
      /\ \A k \in 1..Len(js2) : js2[k] = js[k + 1]
  BY <1>2, HeadTailProperties, EmptySeq
<1>4. \A k \in 1..Len(js2) : k + 1 \in 1..Len(js) /\ k + 1 # 1
  BY <1>2, <1>3
<1>5. 1 \in 1..Len(js)
  BY <1>2, <1>3
<1>6. JobSound(pr, cs, ks, j) /\ j \in CJob
  BY <1>1, <1>3, <1>5, WorldFacts DEF JobsSound
<1>7. JobsSound(pr, js2, cs, ks)
  <2>1. \A k \in 1..Len(js2) : JobSound(pr, cs, ks, js2[k])
    BY <1>1, <1>3, <1>4 DEF JobsSound
  <2>2. ASSUME NEW k \in 1..Len(js2), NEW l \in 1..Len(js2), js2[k].handler = "element",
               js2[l].handler = "element", js2[k].chained = js2[l].chained
        PROVE  k = l
    <3>1. k + 1 = l + 1
      BY <1>1, <1>3, <1>4, <2>2 DEF JobsSound
    <3> QED BY <1>3, <3>1
  <2> QED BY <2>1, <2>2 DEF JobsSound
<1>8. ASSUME j.handler = "element" PROVE Loose(pr, js2, j.chained)
  <2>1. pr[j.from].state # "pending" /\ Token(cs, ks, j.chained, j.from)
    BY <1>6, <1>8, ElementSource
  <2>2. ASSUME NEW q \in 1..Len(pr), NEW k \in 1..Len(pr[q].callbacks), pr[q].callbacks[k].fulfil = "element",
               pr[q].callbacks[k].chained = j.chained
        PROVE  FALSE
    <3>1. ListSound(pr, cs, ks, q)
      BY <1>1 DEF ListsSound
    <3>2. Token(cs, ks, j.chained, q)
      BY <2>2, <3>1 DEF ListSound, ReactionSound
    <3>3. q = j.from
      BY <2>1, <3>2, TokenSource
    <3>4. pr[q].callbacks = <<>>
      BY <2>1, <3>1, <3>3 DEF ListSound
    <3>5. Len(<<>>) = 0
      OBVIOUS
    <3> QED BY <2>2, <3>4, <3>5
  <2>3. ASSUME NEW k \in 1..Len(js2), js2[k].handler = "element", js2[k].chained = j.chained
        PROVE  FALSE
    <3>1. js[k + 1].handler = "element" /\ js[k + 1].chained = js[1].chained /\ js[1].handler = "element"
      BY <1>3, <1>8, <2>3
    <3>2. k + 1 = 1
      BY <1>1, <1>4, <1>5, <3>1 DEF JobsSound
    <3> QED BY <1>4, <3>2
  <2> QED BY <2>2, <2>3 DEF Loose
<1>9. Typed(pr, js2, prs, stk, cs, ks)
  BY <1>1, <1>3 DEF Typed
<1> QED BY <1>6, <1>7, <1>8, <1>9 DEF Sound

\* A frame ends.
LEMMA PopSound ==
  ASSUME NEW pr, NEW js, NEW prs, NEW stk, NEW cs, NEW ks, Sound(pr, js, prs, stk, cs, ks),
         stk # <<>>, NEW stk2, stk2 = SubSeq(stk, 1, Len(stk) - 1)
  PROVE  Sound(pr, js, prs, stk2, cs, ks)
<1>1. Typed(pr, js, prs, stk, cs, ks) /\ FramesSound(pr, prs, stk, cs, ks)
  BY DEF Sound
<1>2. stk \in Seq(CFrame) /\ Len(stk) \in Nat /\ Len(stk) # 0
  BY <1>1, WorldFacts, EmptySeq DEF Typed
<1>3. stk2 \in Seq(CFrame) /\ Len(stk2) = Len(stk) - 1 /\ \A k \in 1..Len(stk2) : stk2[k] = stk[k]
  <2>1. PICK n \in Nat : n = Len(stk) - 1
    BY <1>2
  <2>2. \A k \in 1..n : stk[k] \in CFrame
    BY <1>1, <1>2, <2>1, WorldFacts
  <2>3. /\ SubSeq(stk, 1, n) \in Seq(CFrame) /\ Len(SubSeq(stk, 1, n)) = (IF 1 <= n THEN n - 1 + 1 ELSE 0)
        /\ \A k \in 1..(n - 1 + 1) : SubSeq(stk, 1, n)[k] = stk[1 + k - 1]
    BY ONLY <2>1, <2>2, SubSeqProperties
  <2>4. stk2 = SubSeq(stk, 1, n)
    BY <2>1
  <2>5. Len(stk2) = n /\ \A k \in 1..n : stk2[k] = stk[k]
    BY ONLY <2>1, <2>3, <2>4
  <2> QED BY <2>1, <2>3, <2>4, <2>5
<1>4. \A k \in 1..Len(stk2) : k \in 1..Len(stk)
  BY <1>2, <1>3
<1>5. FramesSound(pr, prs, stk2, cs, ks)
  BY <1>1, <1>3, <1>4 DEF FramesSound
<1>6. Typed(pr, js, prs, stk2, cs, ks)
  BY <1>1, <1>3 DEF Typed
<1> QED BY <1>5, <1>6 DEF Sound

\* A frame that is sound begins, no loop.
LEMMA PushSound ==
  ASSUME NEW pr, NEW js, NEW prs, NEW stk, NEW cs, NEW ks, Sound(pr, js, prs, stk, cs, ks),
         NEW f \in CFrame, FrameSound(pr, prs, cs, ks, f), f.kind # "subscribe", NEW stk2, stk2 = Append(stk, f)
  PROVE  Sound(pr, js, prs, stk2, cs, ks)
<1>1. Typed(pr, js, prs, stk, cs, ks) /\ FramesSound(pr, prs, stk, cs, ks)
  BY DEF Sound
<1>2. stk \in Seq(CFrame) /\ Len(stk) \in Nat
  BY <1>1, WorldFacts DEF Typed
<1>3. stk2 \in Seq(CFrame) /\ Len(stk2) = Len(stk) + 1 /\ stk2[Len(stk) + 1] = f
      /\ \A k \in 1..Len(stk) : stk2[k] = stk[k]
  BY <1>2, AppendProperties
<1>4. \A k \in 1..Len(stk2) : k \in 1..Len(stk) \/ k = Len(stk) + 1
  BY <1>2, <1>3
<1>5. \A k \in 1..Len(stk2) : FrameSound(pr, prs, cs, ks, stk2[k])
  BY <1>1, <1>3, <1>4 DEF FramesSound
<1>6. \A k, l \in 1..Len(stk2) : stk2[k].kind = "subscribe" /\ stk2[l].kind = "subscribe"
                                 /\ stk2[k].promise = stk2[l].promise => k = l
  BY <1>1, <1>3, <1>4 DEF FramesSound
<1>7. FramesSound(pr, prs, stk2, cs, ks)
  BY <1>5, <1>6 DEF FramesSound
<1>8. Typed(pr, js, prs, stk2, cs, ks)
  BY <1>1, <1>3 DEF Typed
<1> QED BY <1>7, <1>8 DEF Sound

\* A pair of resolving functions for promise p
OpenedPair(prs, p, prs2) == prs2 = Append(prs, [promise |-> p, resolved |-> FALSE])

\* A pair is made for a promise of the program.
LEMMA PairSound ==
  ASSUME NEW pr, NEW js, NEW prs, NEW stk, NEW cs, NEW ks, Sound(pr, js, prs, stk, cs, ks),
         NEW p, Free(pr, cs, p), NEW prs2, OpenedPair(prs, p, prs2)
  PROVE  Sound(pr, js, prs2, stk, cs, ks) /\ Len(prs2) = Len(prs) + 1
<1>1. Typed(pr, js, prs, stk, cs, ks) /\ FramesSound(pr, prs, stk, cs, ks) /\ PairsFree(pr, prs, cs)
  BY DEF Sound
<1>2. prs \in Seq(CPair) /\ Len(prs) \in Nat /\ p \in Nat
  BY <1>1, WorldFacts DEF Typed, Free
<1>3. PICK new : new = [promise |-> p, resolved |-> FALSE]
  OBVIOUS
<1>4. new \in CPair /\ new.promise = p
  BY <1>2, <1>3 DEF CPair
<1>5. prs2 \in Seq(CPair) /\ Len(prs2) = Len(prs) + 1 /\ prs2[Len(prs) + 1] = new
      /\ \A k \in 1..Len(prs) : prs2[k] = prs[k]
  BY <1>2, <1>3, <1>4, AppendProperties DEF OpenedPair
<1>6. \A k \in 1..Len(prs2) : k \in 1..Len(prs) \/ k = Len(prs) + 1
  BY <1>2, <1>5
<1>7. PairsFree(pr, prs2, cs)
  BY <1>1, <1>4, <1>5, <1>6 DEF PairsFree
<1>8. \A k \in 1..Len(prs) : k \in 1..Len(prs2)
  BY <1>2, <1>5
<1>9. FramesSound(pr, prs2, stk, cs, ks)
  BY <1>1, <1>8 DEF FramesSound, FrameSound
<1>10. Typed(pr, js, prs2, stk, cs, ks)
  BY <1>1, <1>5 DEF Typed
<1> QED BY <1>5, <1>7, <1>9, <1>10 DEF Sound

\* A pair is used up.
LEMMA CloseSound ==
  ASSUME NEW pr, NEW js, NEW prs, NEW stk, NEW cs, NEW ks, Sound(pr, js, prs, stk, cs, ks),
         NEW k \in 1..Len(prs), NEW prs2, prs2 = [prs EXCEPT ![k].resolved = TRUE]
  PROVE  Sound(pr, js, prs2, stk, cs, ks)
<1>1. Typed(pr, js, prs, stk, cs, ks) /\ FramesSound(pr, prs, stk, cs, ks) /\ PairsFree(pr, prs, cs)
  BY DEF Sound
<1>2. prs \in Seq(CPair) /\ prs[k] \in CPair
  BY <1>1, WorldFacts DEF Typed
<1>3. PICK new : new = [prs[k] EXCEPT !.resolved = TRUE]
  OBVIOUS
<1>4. new \in CPair /\ new.promise = prs[k].promise
  BY <1>2, <1>3 DEF CPair
<1>5. prs2 = [prs EXCEPT ![k] = new]
  BY <1>3
<1>6. prs2 \in Seq(CPair) /\ Len(prs2) = Len(prs) /\ \A l \in 1..Len(prs) : prs2[l].promise = prs[l].promise
  <2>1. /\ prs2 \in Seq(CPair) /\ Len(prs2) = Len(prs) /\ prs2[k] = new
        /\ \A l \in 1..Len(prs) : l # k => prs2[l] = prs[l]
    <3>1. k \in 1..Len(prs)
      OBVIOUS
    <3> QED BY ONLY <1>2, <1>4, <1>5, <3>1, Replaced
  <2> QED BY <1>4, <2>1
<1>7. PairsFree(pr, prs2, cs) /\ FramesSound(pr, prs2, stk, cs, ks)
  BY <1>1, <1>6 DEF PairsFree, FramesSound, FrameSound
<1>8. Typed(pr, js, prs2, stk, cs, ks)
  BY SMTT(30), <1>1, <1>6 DEF Typed
<1> QED BY <1>7, <1>8 DEF Sound

\* What a combinator has made of its inputs stands as long as its result does not change.
LEMMA StatedLater ==
  ASSUME NEW pr, NEW pr2, Later(pr, pr2), NEW cs, NEW ks, CapsSound(pr, cs, ks), CombsSound(pr, cs, ks),
         NEW c \in 1..Len(cs), NEW s, s = cs[c], Stated(pr, s),
         pr2[s.result].state = pr[s.result].state, pr2[s.result].value = pr[s.result].value
  PROVE  Stated(pr2, s) /\ Deciding(pr2, s) = Deciding(pr, s)
<1>1. \A m \in 1..Len(s.ran) :
        /\ pr2[s.inputs[s.ran[m]]].state = pr[s.inputs[s.ran[m]]].state
        /\ pr2[s.inputs[s.ran[m]]].value = pr[s.inputs[s.ran[m]]].value
  <2> SUFFICES ASSUME NEW m \in 1..Len(s.ran)
               PROVE  /\ pr2[s.inputs[s.ran[m]]].state = pr[s.inputs[s.ran[m]]].state
                      /\ pr2[s.inputs[s.ran[m]]].value = pr[s.inputs[s.ran[m]]].value
    OBVIOUS
  <2>1. RanSound(pr, ks, c, s)
    BY DEF CombsSound
  <2>2. s.inputs[s.ran[m]] \in 1..Len(pr) /\ pr[s.inputs[s.ran[m]]].state # "pending"
    BY SMTT(30), <2>1, RanInput
  <2> QED BY <2>2 DEF Later
<1>2. Deciding(pr2, s) = Deciding(pr, s)
  <2>1. ASSUME NEW m PROVE m \in Deciding(pr2, s) <=> m \in Deciding(pr, s)
    <3>1. /\ m \in Deciding(pr2, s) <=> m \in 1..Len(s.ran) /\ Decides(s.kind, pr2[s.inputs[s.ran[m]]].state)
          /\ m \in Deciding(pr, s) <=> m \in 1..Len(s.ran) /\ Decides(s.kind, pr[s.inputs[s.ran[m]]].state)
      BY ONLY DecidingMember
    <3> QED BY ONLY <1>1, <3>1
  <2> QED BY ONLY <2>1
<1>3. \A m \in 1..Len(s.ran) : EntryOf(pr2, s, s.ran[m]) = EntryOf(pr, s, s.ran[m])
  <2> SUFFICES ASSUME NEW m \in 1..Len(s.ran) PROVE EntryOf(pr2, s, s.ran[m]) = EntryOf(pr, s, s.ran[m])
    OBVIOUS
  <2>1. /\ EntryOf(pr2, s, s.ran[m]) = EntryFor(s.kind, pr2[s.inputs[s.ran[m]]].state, pr2[s.inputs[s.ran[m]]].value)
        /\ EntryOf(pr, s, s.ran[m]) = EntryFor(s.kind, pr[s.inputs[s.ran[m]]].state, pr[s.inputs[s.ran[m]]].value)
    BY ONLY EntryIs
  <2> QED BY ONLY <1>1, <2>1
<1>4. \A m \in Deciding(pr, s) : m \in 1..Len(s.ran)
  BY DEF Deciding
<1>5. Deciding(pr2, s) # {} =>
        \E m \in Deciding(pr2, s) :
          /\ \A l \in Deciding(pr2, s) : m <= l
          /\ pr2[s.result].state = pr2[s.inputs[s.ran[m]]].state
          /\ pr2[s.result].value = pr2[s.inputs[s.ran[m]]].value
  <2>1. HAVE Deciding(pr2, s) # {}
  <2>2. Deciding(pr, s) # {} /\ Stated(pr, s)
    BY <1>2, <2>1
  <2>3. PICK m \in Deciding(pr, s) :
          /\ \A l \in Deciding(pr, s) : m <= l
          /\ pr[s.result].state = pr[s.inputs[s.ran[m]]].state
          /\ pr[s.result].value = pr[s.inputs[s.ran[m]]].value
    BY ONLY <2>2 DEF Stated
  <2>4. m \in 1..Len(s.ran)
    BY ONLY SMTT(30), <1>4, <2>3
  <2>5. /\ pr2[s.result].state = pr2[s.inputs[s.ran[m]]].state
        /\ pr2[s.result].value = pr2[s.inputs[s.ran[m]]].value
    BY ONLY pr2[s.result].state = pr[s.result].state, pr2[s.result].value = pr[s.result].value,
            <1>1, <2>3, <2>4
  <2>6. m \in Deciding(pr2, s) /\ \A l \in Deciding(pr2, s) : m <= l
    BY ONLY <1>2, <2>3
  <2> QED BY ONLY <2>5, <2>6
<1>6. Deciding(pr2, s) = {} /\ s.kind # "race" =>
        /\ s.remaining = Len(s.inputs) - Len(s.ran)
        /\ \A m \in 1..Len(s.ran) : s.results[s.ran[m]] = EntryOf(pr2, s, s.ran[m])
        /\ Len(s.ran) = Len(s.inputs) =>
             /\ pr2[s.result].state = IF s.kind = "any" THEN "rejected" ELSE "fulfilled"
             /\ pr2[s.result].value = IF s.kind = "any" THEN AggregateError ELSE Results
  BY <1>2, <1>3 DEF Stated
<1>7. Deciding(pr2, s) = {} /\ (s.kind = "race" \/ Len(s.ran) # Len(s.inputs)) =>
        pr2[s.result].state = "pending" /\ pr2[s.result].value = Nothing
  BY <1>2 DEF Stated
<1> QED BY <1>2, <1>5, <1>6, <1>7 DEF Stated

\* The promises that combinators settle are as they were.
ResultsKept(pr, pr2, cs) ==
  \A c \in 1..Len(cs) : /\ pr2[cs[c].result].state = pr[cs[c].result].state
                        /\ pr2[cs[c].result].value = pr[cs[c].result].value

\* A step that changes no result keeps what is stated of the results.
LEMMA CoreLater ==
  ASSUME NEW pr, NEW js, NEW prs, NEW stk, NEW cs, NEW ks, Core(pr, js, prs, stk, cs, ks),
         NEW pr2, NEW js2, NEW prs2, NEW stk2, Sound(pr2, js2, prs2, stk2, cs, ks),
         Later(pr, pr2), ResultsKept(pr, pr2, cs)
  PROVE  Core(pr2, js2, prs2, stk2, cs, ks)
<1>1. CapsSound(pr, cs, ks) /\ CombsSound(pr, cs, ks)
  BY DEF Core, Sound
<1>2. ASSUME NEW c \in 1..Len(cs) PROVE Stated(pr2, cs[c])
  <2>1. PICK s : s = cs[c]
    OBVIOUS
  <2>2. Stated(pr, s)
    BY <2>1 DEF Core
  <2>3. pr2[s.result].state = pr[s.result].state /\ pr2[s.result].value = pr[s.result].value
    BY <2>1 DEF ResultsKept
  <2>4. Stated(pr2, s)
    BY <1>1, <2>1, <2>2, <2>3, StatedLater
  <2> QED BY <2>1, <2>4
<1> QED BY <1>2 DEF Core

\* No promise changes.
LEMMA SameResults ==
  ASSUME NEW pr, NEW cs
  PROVE  ResultsKept(pr, pr, cs)
BY DEF ResultsKept

\* No promise changes.
LEMMA SameLater ==
  ASSUME NEW pr \in Seq(CPromise)
  PROVE  Later(pr, pr)
<1>1. Len(pr) \in Nat
  BY PromiseFacts
<1> QED BY <1>1 DEF Later

\* The parts of the invariant that are cited most
LEMMA CoreTypes ==
  ASSUME NEW pr, NEW js, NEW prs, NEW stk, NEW cs, NEW ks, Core(pr, js, prs, stk, cs, ks)
  PROVE  /\ Sound(pr, js, prs, stk, cs, ks) /\ Typed(pr, js, prs, stk, cs, ks)
         /\ pr \in Seq(CPromise) /\ js \in Seq(CJob) /\ prs \in Seq(CPair) /\ stk \in Seq(CFrame)
         /\ cs \in Seq(Comb) /\ ks \in Seq(Cap) /\ Later(pr, pr)
         /\ \A c \in 1..Len(cs) : cs[c].result \in 1..Len(pr)
<1>1. Sound(pr, js, prs, stk, cs, ks)
  BY DEF Core
<1>2. Typed(pr, js, prs, stk, cs, ks) /\ CombsSound(pr, cs, ks)
  BY <1>1 DEF Sound
<1>3. /\ pr \in Seq(CPromise) /\ js \in Seq(CJob) /\ prs \in Seq(CPair) /\ stk \in Seq(CFrame)
      /\ cs \in Seq(Comb) /\ ks \in Seq(Cap)
  BY <1>2 DEF Typed
<1>4. Later(pr, pr)
  BY <1>3, SameLater
<1>5. \A c \in 1..Len(cs) : cs[c].result \in 1..Len(pr)
  BY <1>2 DEF CombsSound
<1> QED BY <1>1, <1>2, <1>3, <1>4, <1>5

\* Whatever leaves the promises alone keeps what combinators have made.
LEMMA CoreSame ==
  ASSUME NEW pr, NEW js, NEW prs, NEW stk, NEW cs, NEW ks, Core(pr, js, prs, stk, cs, ks),
         NEW js2, NEW prs2, NEW stk2, Sound(pr, js2, prs2, stk2, cs, ks)
  PROVE  Core(pr, js2, prs2, stk2, cs, ks)
BY CoreTypes, SameResults, CoreLater

\* Settling p keeps the core.
SettlesTo(pr, js, un, prs, stk, cs, ks, p, state, value) ==
  \E pr2, js2, un2 :
    /\ Settle(HeapOf(pr, js, un), p, state, value) = HeapOf(pr2, js2, un2)
    /\ Core(pr2, js2, prs, stk, cs, ks)

\* The program settles a promise of its own.
LEMMA CoreSettle ==
  ASSUME NEW pr, NEW js, NEW un, NEW prs, NEW stk, NEW cs, NEW ks, Core(pr, js, prs, stk, cs, ks),
         NEW p, Free(pr, cs, p), NEW state \in {"fulfilled", "rejected"}, NEW value \in CVal
  PROVE  SettlesTo(pr, js, un, prs, stk, cs, ks, p, state, value)
<1> SUFFICES \E pr2, js2, un2 :
               /\ Settle(HeapOf(pr, js, un), p, state, value) = HeapOf(pr2, js2, un2)
               /\ Core(pr2, js2, prs, stk, cs, ks)
  BY DEF SettlesTo
<1>1. /\ Sound(pr, js, prs, stk, cs, ks) /\ pr \in Seq(CPromise) /\ js \in Seq(CJob)
      /\ \A c \in 1..Len(cs) : cs[c].result \in 1..Len(pr)
  BY CoreTypes
<1>2. p \in 1..Len(pr) /\ \A c \in 1..Len(cs) : cs[c].result # p
  BY DEF Free
<1>3. CASE pr[p].state = "pending"
  <2>1. PICK pr2, js2, un2 : /\ Settle(HeapOf(pr, js, un), p, state, value) = HeapOf(pr2, js2, un2)
                             /\ SettledAs(pr, js, p, state, value, pr2, js2)
    <3>1. p \in 1..Len(pr)
      BY <1>2
    <3>2. Settles(pr, js, un, p, state, value)
      BY <1>1, <1>3, <3>1, SettledAsLemma
    <3> QED BY <3>2 DEF Settles
  <2>2. Sound(pr2, js2, prs, stk, cs, ks) /\ Later(pr, pr2)
    BY <1>1, <1>2, <1>3, <2>1, SettleSound
  <2>3. ResultsKept(pr, pr2, cs)
    <3>1. \A q \in 1..Len(pr) : q # p => pr2[q] = pr[q]
      BY <2>1 DEF SettledAs
    <3> QED BY <1>1, <1>2, <3>1 DEF ResultsKept
  <2>4. Core(pr2, js2, prs, stk, cs, ks)
    BY <2>2, <2>3, CoreLater
  <2> QED BY <2>1, <2>4
<1>4. CASE pr[p].state # "pending"
  <2>1. PICK h : h = HeapOf(pr, js, un)
    OBVIOUS
  <2>2. h.prom = pr
    BY <2>1 DEF HeapOf
  <2>3. Settle(h, p, state, value) = h
    BY <1>4, <2>2 DEF Settle
  <2> QED BY <2>1, <2>3
<1> QED BY <1>3, <1>4

\* A reaction of the program is attached.
LEMMA CoreAttach ==
  ASSUME NEW pr, NEW js, NEW un, NEW prs, NEW stk, NEW cs, NEW ks, Core(pr, js, prs, stk, cs, ks),
         NEW q \in 1..Len(pr), NEW f \in Handlers, NEW r \in Handlers, NEW c, Free(pr, cs, c)
  PROVE  \E pr2, js2 : /\ Attach(HeapOf(pr, js, un), q, f, r, c) = HeapOf(pr2, js2, un)
                       /\ Core(pr2, js2, prs, stk, cs, ks)
<1>1. /\ Sound(pr, js, prs, stk, cs, ks) /\ pr \in Seq(CPromise) /\ js \in Seq(CJob)
      /\ \A d \in 1..Len(cs) : cs[d].result \in 1..Len(pr)
  BY CoreTypes
<1>2. f \in AnyHandler /\ r \in AnyHandler /\ f # "element" /\ r # "element" /\ c \in Int
  BY DEF AnyHandler, Handlers, Free
<1>3. PICK pr2, js2, e : /\ Attach(HeapOf(pr, js, un), q, f, r, c) = HeapOf(pr2, js2, un)
                         /\ e.fulfil = f /\ e.reject = r /\ e.chained = c
                         /\ AttachedAs(pr, js, q, e, pr2, js2)
  <2>1. q \in 1..Len(pr)
    OBVIOUS
  <2>2. Attaches(pr, js, un, q, f, r, c)
    BY ONLY <1>1, <1>2, <2>1, AttachedAsLemma
  <2> QED BY <2>2 DEF Attaches
<1>4. ReactionSound(pr, cs, ks, q, e)
  BY <1>2, <1>3 DEF ReactionSound
<1>5. Sound(pr2, js2, prs, stk, cs, ks) /\ Later(pr, pr2)
  BY <1>1, <1>2, <1>3, <1>4, AttachSound
<1>6. ResultsKept(pr, pr2, cs)
  <2>1. /\ \A p \in 1..Len(pr) : p # q => pr2[p] = pr[p]
        /\ pr2[q].state = pr[q].state /\ pr2[q].value = pr[q].value
    BY <1>3 DEF AttachedAs
  <2> QED BY <1>1, <2>1 DEF ResultsKept
<1>7. Core(pr2, js2, prs, stk, cs, ks)
  BY <1>5, <1>6, CoreLater
<1> QED BY <1>3, <1>7

\* A promise of the program is resolved with another promise.
LEMMA CoreResolve ==
  ASSUME NEW pr, NEW js, NEW un, NEW prs, NEW stk, NEW cs, NEW ks, Core(pr, js, prs, stk, cs, ks),
         NEW p, Free(pr, cs, p), NEW v \in CVal
  PROVE  \E pr2, js2, un2 :
           /\ ResolveTo(HeapOf(pr, js, un), p, v) = HeapOf(pr2, js2, un2)
           /\ Core(pr2, js2, prs, stk, cs, ks)
<1>1. PICK h : h = HeapOf(pr, js, un)
  OBVIOUS
<1>2. DOMAIN h.prom = 1..Len(pr)
  <2>1. h.prom = pr
    BY <1>1 DEF HeapOf
  <2> QED BY <2>1, CoreTypes, PromiseFacts
<1>3. CASE v = p
  <2>1. ResolveTo(h, p, v) = Settle(h, p, "rejected", SelfError)
    BY <1>3 DEF ResolveTo
  <2>2. SelfError \in CVal /\ "rejected" \in {"fulfilled", "rejected"}
    BY DEF CVal
  <2> QED BY <1>1, <2>1, <2>2, CoreSettle DEF SettlesTo
<1>4. CASE v # p /\ v \in 1..Len(pr)
  <2>1. ResolveTo(h, p, v) = Attach(h, v, "none", "none", p)
    BY <1>2, <1>4 DEF ResolveTo
  <2>2. "none" \in Handlers
    BY DEF Handlers
  <2>3. PICK pr2, js2 : /\ Attach(HeapOf(pr, js, un), v, "none", "none", p) = HeapOf(pr2, js2, un)
                        /\ Core(pr2, js2, prs, stk, cs, ks)
    BY <1>4, <2>2, CoreAttach
  <2> QED BY <1>1, <2>1, <2>3
<1>5. CASE v # p /\ v \notin 1..Len(pr)
  <2>1. ResolveTo(h, p, v) = Settle(h, p, "fulfilled", v)
    BY <1>2, <1>5 DEF ResolveTo
  <2>2. "fulfilled" \in {"fulfilled", "rejected"}
    OBVIOUS
  <2> QED BY <1>1, <2>1, <2>2, CoreSettle DEF SettlesTo
<1> QED BY <1>3, <1>4, <1>5

\* A frame begins.
LEMMA CorePush ==
  ASSUME NEW pr, NEW js, NEW prs, NEW stk, NEW cs, NEW ks, Core(pr, js, prs, stk, cs, ks),
         NEW f \in CFrame, FrameSound(pr, prs, cs, ks, f), f.kind # "subscribe"
  PROVE  Core(pr, js, prs, Append(stk, f), cs, ks)
<1>1. PICK stk2 : stk2 = Append(stk, f)
  OBVIOUS
<1>2. Sound(pr, js, prs, stk2, cs, ks)
  BY <1>1, CoreTypes, PushSound
<1> QED BY <1>1, <1>2, CoreSame

\* A frame ends.
LEMMA CorePop ==
  ASSUME NEW pr, NEW js, NEW prs, NEW stk, NEW cs, NEW ks, Core(pr, js, prs, stk, cs, ks), stk # <<>>
  PROVE  Core(pr, js, prs, SubSeq(stk, 1, Len(stk) - 1), cs, ks)
<1>1. PICK stk2 : stk2 = SubSeq(stk, 1, Len(stk) - 1)
  OBVIOUS
<1>2. Sound(pr, js, prs, stk2, cs, ks)
  BY <1>1, CoreTypes, PopSound
<1>3. Core(pr, js, prs, stk2, cs, ks)
  BY <1>2, CoreSame
<1> QED BY <1>1, <1>3

\* A value resolves a promise, when its then property was looked up or has not to be.
LEMMA CoreResolveValue ==
  ASSUME NEW pr, NEW js, NEW un, NEW prs, NEW base, NEW cs, NEW ks, Core(pr, js, prs, base, cs, ks),
         NEW p, Free(pr, cs, p), NEW v \in CVal, ResolveValue(HeapOf(pr, js, un), p, v, base)
  PROVE  Core(prom', jobs', prs, stack', cs, ks)
<1>1. CASE v \in Thenables
  <2>1. prom' = pr /\ jobs' = js /\ stack' = Append(base, Frame("getter", p, 0, v))
    BY <1>1 DEF ResolveValue, SetHeap, HeapOf
  <2>2. PICK f : f = Frame("getter", p, 0, v)
    OBVIOUS
  <2>3. f \in CFrame /\ f.kind = "getter" /\ f.promise = p
    BY <2>2 DEF CFrame, Frame, Free
  <2>4. FrameSound(pr, prs, cs, ks, f)
    BY <2>3 DEF FrameSound
  <2>5. Core(pr, js, prs, Append(base, f), cs, ks)
    BY <2>3, <2>4, CorePush
  <2> QED BY <2>1, <2>2, <2>5
<1>2. CASE v \notin Thenables
  <2>1. PICK pr2, js2, un2 : /\ ResolveTo(HeapOf(pr, js, un), p, v) = HeapOf(pr2, js2, un2)
                             /\ Core(pr2, js2, prs, base, cs, ks)
    BY CoreResolve
  <2>2. SetHeap(HeapOf(pr2, js2, un2)) /\ stack' = base
    BY <1>2, <2>1 DEF ResolveValue
  <2>3. prom' = pr2 /\ jobs' = js2
    BY <2>2 DEF SetHeap, HeapOf
  <2> QED BY <2>1, <2>2, <2>3
<1> QED BY <1>1, <1>2

\* A promise is made.
LEMMA CoreMade ==
  ASSUME NEW pr, NEW js, NEW prs, NEW stk, NEW cs, NEW ks, Core(pr, js, prs, stk, cs, ks),
         NEW new, NEW pr2, MadeAs(pr, new, pr2)
  PROVE  /\ Core(pr2, js, prs, stk, cs, ks) /\ Len(pr) \in Nat /\ Len(pr2) = Len(pr) + 1
         /\ pr2[Len(pr) + 1] = new /\ Free(pr2, cs, Len(pr) + 1)
         /\ \A q \in 1..Len(pr) : pr2[q] = pr[q]
<1>1. /\ Sound(pr2, js, prs, stk, cs, ks) /\ Later(pr, pr2) /\ Len(pr2) = Len(pr) + 1
      /\ pr2[Len(pr) + 1] = new /\ Free(pr2, cs, Len(pr) + 1)
      /\ \A q \in 1..Len(pr) : pr2[q] = pr[q]
  <2>1. Sound(pr, js, prs, stk, cs, ks) /\ MadeAs(pr, new, pr2)
    BY CoreTypes
  <2> QED BY ONLY <2>1, MadeSound
<1>2. ResultsKept(pr, pr2, cs)
  BY <1>1, CoreTypes DEF ResultsKept
<1>3. Core(pr2, js, prs, stk, cs, ks)
  BY <1>1, <1>2, CoreLater
<1> QED BY <1>1, <1>3, CoreTypes, PromiseFacts

\* What a new promise is
LEMMA PendingStruct ==
  ASSUME NEW pr
  PROVE  MadeAs(pr, NewPromiseStruct, Append(pr, NewPromiseStruct))
<1>1. <<>> \in Seq(CReaction)
  BY EmptySeq
<1>2. NewPromiseStruct \in CPromise /\ NewPromiseStruct.callbacks = <<>>
  BY <1>1 DEF NewPromiseStruct, CPromise, States, CVal
<1> QED BY <1>2 DEF MadeAs

\* A job is taken.
LEMMA CoreDequeue ==
  ASSUME NEW pr, NEW js, NEW prs, NEW stk, NEW cs, NEW ks, Core(pr, js, prs, stk, cs, ks), js # <<>>
  PROVE  /\ Core(pr, Tail(js), prs, stk, cs, ks) /\ JobSound(pr, cs, ks, Head(js)) /\ Head(js) \in CJob
         /\ Head(js).handler = "element" => Loose(pr, Tail(js), Head(js).chained)
<1>1. PICK j, js2 : j = Head(js) /\ js2 = Tail(js)
  OBVIOUS
<1>2. Dequeued2(js, j, js2)
  BY <1>1 DEF Dequeued2
<1>3. /\ Sound(pr, js2, prs, stk, cs, ks) /\ JobSound(pr, cs, ks, j) /\ j \in CJob
      /\ j.handler = "element" => Loose(pr, js2, j.chained)
  BY <1>2, CoreTypes, DequeueSound
<1>4. Core(pr, js2, prs, stk, cs, ks)
  BY <1>3, CoreSame
<1> QED BY <1>1, <1>3, <1>4

\* A pair is made.
LEMMA CorePair ==
  ASSUME NEW pr, NEW js, NEW prs, NEW stk, NEW cs, NEW ks, Core(pr, js, prs, stk, cs, ks),
         NEW p, Free(pr, cs, p), NEW prs2, OpenedPair(prs, p, prs2)
  PROVE  Core(pr, js, prs2, stk, cs, ks) /\ Len(prs2) = Len(prs) + 1
<1>1. Sound(pr, js, prs2, stk, cs, ks) /\ Len(prs2) = Len(prs) + 1
  BY CoreTypes, PairSound
<1> QED BY <1>1, CoreSame

\* A pair is used up.
LEMMA CoreClose ==
  ASSUME NEW pr, NEW js, NEW prs, NEW stk, NEW cs, NEW ks, Core(pr, js, prs, stk, cs, ks),
         NEW k \in 1..Len(prs)
  PROVE  Core(pr, js, [prs EXCEPT ![k].resolved = TRUE], stk, cs, ks)
<1>1. PICK prs2 : prs2 = [prs EXCEPT ![k].resolved = TRUE]
  OBVIOUS
<1>2. Sound(pr, js, prs2, stk, cs, ks)
  BY <1>1, CoreTypes, CloseSound
<1> QED BY <1>1, <1>2, CoreSame

\* then() changes only the list of rejections beyond what the attachment does.
LEMMA Marking ==
  ASSUME NEW pr, NEW js, NEW un, NEW q, NEW f, NEW r, NEW c, NEW pr2, NEW js2,
         Attach(HeapOf(pr, js, un), q, f, r, c) = HeapOf(pr2, js2, un)
  PROVE  \E un2 : AttachThen(HeapOf(pr, js, un), q, f, r, c) = HeapOf(pr2, js2, un2)
<1>1. PICK h, g : h = HeapOf(pr, js, un) /\ g = HeapOf(pr2, js2, un)
  OBVIOUS
<1>2. g = [prom |-> pr2, jobs |-> js2, unhandled |-> un] /\ Attach(h, q, f, r, c) = g
  BY <1>1 DEF HeapOf
<1>3. PICK un2 : un2 = IF h.prom[q].state = "rejected" THEN MarkHandled(un, q) ELSE un
  OBVIOUS
<1>4. AttachThen(h, q, f, r, c) =
        IF h.prom[q].state = "rejected" THEN [g EXCEPT !.unhandled = MarkHandled(g.unhandled, q)] ELSE g
  BY ONLY <1>2 DEF AttachThen
<1>5. AttachThen(h, q, f, r, c) = [prom |-> pr2, jobs |-> js2, unhandled |-> un2]
  <2>1. g.unhandled = un
    BY <1>2
  <2>2. [g EXCEPT !.unhandled = MarkHandled(un, q)] = [prom |-> pr2, jobs |-> js2, unhandled |-> MarkHandled(un, q)]
    BY <1>2
  <2> QED BY ONLY <1>2, <1>3, <1>4, <2>1, <2>2
<1>6. AttachThen(HeapOf(pr, js, un), q, f, r, c) = HeapOf(pr2, js2, un2)
  BY <1>1, <1>5 DEF HeapOf
<1> QED BY <1>6

\* p.then() keeps the core.
ThenTo(pr, js, un, prs, stk, cs, ks, q, f, r, c) ==
  \E pr2, js2, un2 : /\ AttachThen(HeapOf(pr, js, un), q, f, r, c) = HeapOf(pr2, js2, un2)
                     /\ Core(pr2, js2, prs, stk, cs, ks)

\* then() does.
LEMMA CoreThen ==
  ASSUME NEW pr, NEW js, NEW un, NEW prs, NEW stk, NEW cs, NEW ks, Core(pr, js, prs, stk, cs, ks),
         NEW q \in 1..Len(pr), NEW f \in Handlers, NEW r \in Handlers, NEW c, Free(pr, cs, c)
  PROVE  ThenTo(pr, js, un, prs, stk, cs, ks, q, f, r, c)
<1>1. PICK pr2, js2 : /\ Attach(HeapOf(pr, js, un), q, f, r, c) = HeapOf(pr2, js2, un)
                      /\ Core(pr2, js2, prs, stk, cs, ks)
  BY CoreAttach
<1>2. \E un2 : AttachThen(HeapOf(pr, js, un), q, f, r, c) = HeapOf(pr2, js2, un2)
  BY <1>1, Marking
<1> QED BY <1>1, <1>2 DEF ThenTo

-----------------------------------------------------------------------------
(* The actions of the promises *)

\* The combinators stay.
LEMMA StayLemma ==
  ASSUME CInv, UNCHANGED <<combs, caps>>, Core(prom', jobs', pairs', stack', combs, caps)
  PROVE  CInv'
BY DEF CInv

\* The frame on top
LEMMA TopFrame ==
  ASSUME CInv, stack # <<>>
  PROVE  Top \in CFrame /\ FrameSound(prom, pairs, combs, caps, Top) /\ Len(stack) \in 1..Len(stack)
<1>1. Sound(prom, jobs, pairs, stack, combs, caps) /\ stack \in Seq(CFrame)
  BY CoreTypes DEF CInv
<1>2. Len(stack) \in Nat /\ Len(stack) # 0 /\ \A k \in 1..Len(stack) : stack[k] \in CFrame
  BY <1>1, EmptySeq, SeqFacts
<1>3. Len(stack) \in 1..Len(stack)
  BY <1>2
<1>4. FrameSound(prom, pairs, combs, caps, stack[Len(stack)])
  BY <1>1, <1>3 DEF Sound, FramesSound
<1> QED BY <1>2, <1>3, <1>4 DEF Top

\* User code that runs for a promise is going to settle it.
LEMMA TopFree ==
  ASSUME CInv, stack # <<>>, Top.kind \in {"handler", "getter", "then"}
  PROVE  Free(prom, combs, Top.promise)
BY TopFrame DEF FrameSound

\* The frame on top ends.
LEMMA PopCore ==
  ASSUME CInv, stack # <<>>
  PROVE  Core(prom, jobs, pairs, Pop, combs, caps)
BY CorePop DEF CInv, Pop

\* The heap of the state
LEMMA HeapIs == Heap = HeapOf(prom, jobs, unhandled) /\ Made(Heap) = HeapOf(Append(prom, NewPromiseStruct), jobs, unhandled)
BY DEF Heap, HeapOf, Made

\* The heap that is set
LEMMA SetIs ==
  ASSUME NEW pr, NEW js, NEW un, SetHeap(HeapOf(pr, js, un))
  PROVE  prom' = pr /\ jobs' = js
BY DEF SetHeap, HeapOf

\* A new promise
LEMMA MadeCore ==
  ASSUME CInv
  PROVE  /\ Core(Append(prom, NewPromiseStruct), jobs, pairs, stack, combs, caps)
         /\ Free(Append(prom, NewPromiseStruct), combs, Fresh) /\ Fresh \in Nat
         /\ Len(prom) \in Nat /\ Len(Append(prom, NewPromiseStruct)) = Fresh
<1>1. PICK pr2 : pr2 = Append(prom, NewPromiseStruct)
  OBVIOUS
<1>2. MadeAs(prom, NewPromiseStruct, pr2)
  BY <1>1, PendingStruct
<1>3. Core(prom, jobs, pairs, stack, combs, caps)
  BY DEF CInv
<1>4. /\ Core(pr2, jobs, pairs, stack, combs, caps) /\ Len(prom) \in Nat /\ Len(pr2) = Len(prom) + 1
      /\ Free(pr2, combs, Len(prom) + 1)
  BY ONLY <1>2, <1>3, CoreMade
<1> QED BY <1>1, <1>4 DEF Fresh

\* The values of the program
LEMMA ValueTypes ==
  ASSUME CInv
  PROVE  Values \subseteq CVal /\ Reasons \subseteq CVal /\ Thenables \subseteq CVal
<1>1. Len(prom) \in Nat
  BY MadeCore
<1> QED BY <1>1 DEF Values, Promises, CVal

\* new Promise(executor)
LEMMA NewPromiseCore ==
  ASSUME CInv, NewPromise, UNCHANGED <<combs, caps>>
  PROVE  CInv'
<1>1. PICK pr : pr = Append(prom, NewPromiseStruct)
  OBVIOUS
<1>2. Core(pr, jobs, pairs, stack, combs, caps) /\ Free(pr, combs, Fresh)
  BY <1>1, MadeCore
<1>3. prom' = pr /\ jobs' = jobs /\ stack' = stack /\ OpenedPair(pairs, Fresh, pairs')
  BY <1>1, HeapIs, SetIs DEF NewPromise, OpenedPair
<1>4. Core(pr, jobs, pairs', stack, combs, caps)
  BY <1>2, <1>3, CorePair
<1> QED BY <1>3, <1>4, StayLemma

\* Promise.resolve(v)
LEMMA PromiseResolveCore ==
  ASSUME CInv, NEW v \in Values, PromiseResolve(v), UNCHANGED <<combs, caps>>
  PROVE  CInv'
<1>1. PICK pr : pr = Append(prom, NewPromiseStruct)
  OBVIOUS
<1>2. Core(pr, jobs, pairs, stack, combs, caps) /\ Free(pr, combs, Fresh)
  BY <1>1, MadeCore
<1>3. ResolveValue(HeapOf(pr, jobs, unhandled), Fresh, v, stack) /\ pairs' = pairs
  BY <1>1, HeapIs DEF PromiseResolve
<1>4. v \in CVal
  BY ValueTypes
<1>5. Core(prom', jobs', pairs, stack', combs, caps)
  BY ONLY <1>2, <1>3, <1>4, CoreResolveValue
<1> QED BY <1>3, <1>5, StayLemma

\* Promise.reject(r)
LEMMA PromiseRejectCore ==
  ASSUME CInv, NEW r \in Reasons, PromiseReject(r), UNCHANGED <<combs, caps>>
  PROVE  CInv'
<1>1. PICK new : new = [NewPromiseStruct EXCEPT !.state = "rejected", !.value = r]
  OBVIOUS
<1>2. MadeAs(prom, new, prom') /\ jobs' = jobs /\ pairs' = pairs /\ stack' = stack
  <2>1. NewPromiseStruct \in CPromise /\ NewPromiseStruct.callbacks = <<>>
    BY PendingStruct DEF MadeAs
  <2>2. r \in CVal
    BY ValueTypes
  <2>3. new \in CPromise /\ new.callbacks = <<>>
    BY <1>1, <2>1, <2>2 DEF CPromise, States
  <2> QED BY <1>1, <2>3 DEF PromiseReject, MadeAs
<1>3. Core(prom, jobs, pairs, stack, combs, caps)
  BY DEF CInv
<1>4. Core(prom', jobs, pairs, stack, combs, caps)
  BY ONLY <1>2, <1>3, CoreMade
<1> QED BY <1>2, <1>4, StayLemma

\* p.then(f, r), on a result as well
LEMMA ThenCore ==
  ASSUME CInv, NEW p \in Promises, NEW f \in Handlers, NEW r \in Handlers, Then(p, f, r), UNCHANGED <<combs, caps>>
  PROVE  CInv'
<1>1. PICK pr : pr = Append(prom, NewPromiseStruct)
  OBVIOUS
<1>2. Core(pr, jobs, pairs, stack, combs, caps) /\ Free(pr, combs, Fresh) /\ p \in 1..Len(pr)
  BY <1>1, MadeCore DEF Promises, Fresh
<1>3. PICK pr2, js2, un2 : /\ AttachThen(HeapOf(pr, jobs, unhandled), p, f, r, Fresh) = HeapOf(pr2, js2, un2)
                           /\ Core(pr2, js2, pairs, stack, combs, caps)
  <2>1. ThenTo(pr, jobs, unhandled, pairs, stack, combs, caps, p, f, r, Fresh)
    BY <1>2, CoreThen
  <2> QED BY <2>1 DEF ThenTo
<1>4. SetHeap(HeapOf(pr2, js2, un2)) /\ pairs' = pairs /\ stack' = stack
  BY <1>1, <1>3, HeapIs DEF Then
<1>5. prom' = pr2 /\ jobs' = js2
  BY <1>4, SetIs
<1> QED BY <1>3, <1>4, <1>5, StayLemma

\* A pair is one of a promise of the program.
LEMMA PairFree ==
  ASSUME CInv, NEW k \in DOMAIN pairs
  PROVE  /\ k \in 1..Len(pairs) /\ Free(prom, combs, pairs[k].promise)
         /\ Core(prom, jobs, [pairs EXCEPT ![k].resolved = TRUE], stack, combs, caps)
<1>1. Core(prom, jobs, pairs, stack, combs, caps) /\ Sound(prom, jobs, pairs, stack, combs, caps) /\ pairs \in Seq(CPair)
  BY CoreTypes DEF CInv
<1>2. k \in 1..Len(pairs)
  BY <1>1, SeqFacts
<1>3. Free(prom, combs, pairs[k].promise)
  BY <1>1, <1>2 DEF Sound, PairsFree
<1> QED BY <1>1, <1>2, <1>3, CoreClose

\* resolve(v) of a pair
LEMMA CallResolveCore ==
  ASSUME CInv, NEW k \in DOMAIN pairs, NEW v \in Values, CallResolve(k, v), UNCHANGED <<combs, caps>>
  PROVE  CInv'
<1>1. Free(prom, combs, pairs[k].promise) /\ Core(prom, jobs, pairs', stack, combs, caps)
  BY PairFree DEF CallResolve
<1>2. ResolveValue(HeapOf(prom, jobs, unhandled), pairs[k].promise, v, stack) /\ v \in CVal
  BY HeapIs, ValueTypes DEF CallResolve
<1>3. Core(prom', jobs', pairs', stack', combs, caps)
  BY <1>1, <1>2, CoreResolveValue
<1> QED BY <1>3, StayLemma

\* The resolving functions of a pair are used, while the stack becomes base.
LEMMA RejectPairCore ==
  ASSUME CInv, NEW k \in DOMAIN pairs, NEW r \in Reasons, NEW base, RejectPair(k, r, base), UNCHANGED <<combs, caps>>,
         Core(prom, jobs, pairs, base, combs, caps)
  PROVE  CInv'
<1>1. k \in 1..Len(pairs) /\ Free(prom, combs, pairs[k].promise)
  BY PairFree
<1>2. pairs' = [pairs EXCEPT ![k].resolved = TRUE] /\ stack' = base
  BY DEF RejectPair
<1>3. Core(prom, jobs, pairs', base, combs, caps)
  BY <1>1, <1>2, CoreClose
<1>4. r \in CVal /\ "rejected" \in {"fulfilled", "rejected"}
  BY ValueTypes
<1>5. PICK pr2, js2, un2 :
        /\ Settle(HeapOf(prom, jobs, unhandled), pairs[k].promise, "rejected", r) = HeapOf(pr2, js2, un2)
        /\ Core(pr2, js2, pairs', base, combs, caps)
  <2>1. SettlesTo(prom, jobs, unhandled, pairs', base, combs, caps, pairs[k].promise, "rejected", r)
    BY <1>1, <1>3, <1>4, CoreSettle
  <2> QED BY <2>1 DEF SettlesTo
<1>6. SetHeap(HeapOf(pr2, js2, un2)) \/ SetHeap(HeapOf(prom, jobs, unhandled))
  BY <1>5, HeapIs DEF RejectPair
<1>7. Core(prom', jobs', pairs', stack', combs, caps)
  BY <1>2, <1>3, <1>5, <1>6, SetIs
<1> QED BY <1>7, StayLemma

\* reject(r) of a pair
LEMMA CallRejectCore ==
  ASSUME CInv, NEW k \in DOMAIN pairs, NEW r \in Reasons, CallReject(k, r), UNCHANGED <<combs, caps>>
  PROVE  CInv'
<1>1. RejectPair(k, r, stack) /\ Core(prom, jobs, pairs, stack, combs, caps)
  BY DEF CallReject, CInv
<1> QED BY <1>1, RejectPairCore

\* An action that only ends a frame
LEMMA PoppedCore ==
  ASSUME CInv, stack # <<>>, stack' = Pop, UNCHANGED <<prom, jobs, pairs, combs, caps>>
  PROVE  CInv'
<1>1. Core(prom', jobs', pairs', stack', combs, caps)
  BY PopCore
<1> QED BY <1>1, StayLemma

\* A handler returns.
LEMMA ReturnHandlerCore ==
  ASSUME CInv, NEW v \in Values, ReturnHandler(v), UNCHANGED <<combs, caps>>
  PROVE  CInv'
<1>1. stack # <<>> /\ Top.kind = "handler" /\ pairs' = pairs
  BY DEF ReturnHandler, InUserCode
<1>2. Core(prom, jobs, pairs, Pop, combs, caps) /\ Free(prom, combs, Top.promise)
  BY <1>1, PopCore, TopFree
<1>3. ResolveValue(HeapOf(prom, jobs, unhandled), Top.promise, v, Pop) /\ v \in CVal
  BY HeapIs, ValueTypes DEF ReturnHandler
<1>4. Core(prom', jobs', pairs, stack', combs, caps)
  BY ONLY <1>2, <1>3, CoreResolveValue
<1> QED BY <1>1, <1>4, StayLemma

\* User code ends, and a promise is settled.
LEMMA EndCore ==
  ASSUME CInv, stack # <<>>, Top.kind \in {"handler", "getter"}, NEW state \in {"fulfilled", "rejected"},
         NEW v \in CVal, SetHeap(Settle(Heap, Top.promise, state, v)), stack' = Pop, pairs' = pairs,
         UNCHANGED <<combs, caps>>
  PROVE  CInv'
<1>1. Core(prom, jobs, pairs, Pop, combs, caps) /\ Free(prom, combs, Top.promise)
  BY PopCore, TopFree
<1>2. PICK pr2, js2, un2 :
        /\ Settle(HeapOf(prom, jobs, unhandled), Top.promise, state, v) = HeapOf(pr2, js2, un2)
        /\ Core(pr2, js2, pairs, Pop, combs, caps)
  <2>1. SettlesTo(prom, jobs, unhandled, pairs, Pop, combs, caps, Top.promise, state, v)
    BY <1>1, CoreSettle
  <2> QED BY <2>1 DEF SettlesTo
<1>3. SetHeap(HeapOf(pr2, js2, un2))
  BY <1>2, HeapIs
<1>4. Core(prom', jobs', pairs', stack', combs, caps)
  BY <1>2, <1>3, SetIs
<1> QED BY <1>4, StayLemma

\* A then method throws.
LEMMA ThrowThenCore ==
  ASSUME CInv, NEW r \in Reasons, ThrowThen(r), UNCHANGED <<combs, caps>>
  PROVE  CInv'
<1>1. stack # <<>> /\ Top.kind = "then" /\ RejectPair(Top.pair, r, Pop)
  BY DEF ThrowThen, InUserCode
<1>2. Core(prom, jobs, pairs, Pop, combs, caps) /\ Top.pair \in 1..Len(pairs)
  BY <1>1, PopCore, TopFrame DEF FrameSound
<1>3. pairs \in Seq(CPair)
  BY CoreTypes DEF CInv
<1>4. Top.pair \in DOMAIN pairs
  BY <1>2, <1>3, SeqFacts
<1> QED BY <1>1, <1>2, <1>4, RejectPairCore

\* A job for a free promise is added.
LEMMA QueueSound ==
  ASSUME NEW pr, NEW js, NEW prs, NEW stk, NEW cs, NEW ks, Core(pr, js, prs, stk, cs, ks),
         NEW j \in CJob, j.handler # "element", Free(pr, cs, j.chained)
  PROVE  Core(pr, Append(js, j), prs, stk, cs, ks)
<1>1. Sound(pr, js, prs, stk, cs, ks) /\ js \in Seq(CJob) /\ JobsSound(pr, js, cs, ks) /\ Typed(pr, js, prs, stk, cs, ks)
  BY CoreTypes DEF Sound
<1>2. PICK js2 : js2 = Append(js, j)
  OBVIOUS
<1>3. /\ js2 \in Seq(CJob) /\ Len(js2) = Len(js) + 1 /\ js2[Len(js) + 1] = j
      /\ \A k \in 1..Len(js) : js2[k] = js[k]
  BY <1>1, <1>2, AppendProperties
<1>4. \A k \in 1..Len(js2) : k \in 1..Len(js) \/ k = Len(js) + 1
  BY <1>1, <1>3, SeqFacts
<1>5. JobSound(pr, cs, ks, j)
  BY DEF JobSound
<1>6. JobsSound(pr, js2, cs, ks)
  <2>1. \A k \in 1..Len(js2) : JobSound(pr, cs, ks, js2[k])
    BY <1>1, <1>3, <1>4, <1>5 DEF JobsSound
  <2>2. \A k \in 1..Len(js2) : js2[k].handler = "element" => k \in 1..Len(js)
    BY <1>3, <1>4
  <2> QED BY <1>1, <1>3, <2>1, <2>2 DEF JobsSound
<1>7. Typed(pr, js2, prs, stk, cs, ks)
  BY <1>1, <1>3 DEF Typed
<1>8. Sound(pr, js2, prs, stk, cs, ks)
  BY <1>1, <1>6, <1>7 DEF Sound
<1> QED BY <1>2, <1>8, CoreSame

\* The getter found a then method: a job is queued.
LEMMA FoundThenCore ==
  ASSUME CInv, FoundThen, UNCHANGED <<combs, caps>>
  PROVE  CInv'
<1>1. /\ stack # <<>> /\ Top.kind = "getter" /\ stack' = Pop /\ prom' = prom /\ pairs' = pairs
      /\ jobs' = Append(jobs, ThenableJob(Top.promise, Top.value))
  BY DEF FoundThen, InUserCode
<1>2. Core(prom, jobs, pairs, Pop, combs, caps) /\ Free(prom, combs, Top.promise) /\ Top \in CFrame
  BY <1>1, PopCore, TopFree, TopFrame
<1>3. PICK j : j = ThenableJob(Top.promise, Top.value)
  OBVIOUS
<1>4. j \in CJob /\ j.handler # "element" /\ j.chained = Top.promise
  BY <1>2, <1>3 DEF ThenableJob, CJob, CFrame, AnyHandler, Handlers
<1>5. Core(prom, Append(jobs, j), pairs, Pop, combs, caps)
  BY <1>2, <1>4, QueueSound
<1> QED BY <1>1, <1>3, <1>5, StayLemma

\* The drain takes the first job.
LEMMA TakenCore ==
  ASSUME CInv, jobs # <<>>
  PROVE  /\ Core(prom, Tail(jobs), pairs, stack, combs, caps) /\ Head(jobs) \in CJob
         /\ JobSound(prom, combs, caps, Head(jobs))
         /\ Head(jobs).handler = "element" => Loose(prom, Tail(jobs), Head(jobs).chained)
         /\ Dequeued = HeapOf(prom, Tail(jobs), unhandled)
<1>1. Dequeued = HeapOf(prom, Tail(jobs), unhandled)
  BY SMTT(30) DEF Dequeued, HeapOf, Heap
<1> QED BY <1>1, CoreDequeue DEF CInv

\* A reaction without a handler passes the outcome on.
LEMMA RunIdentityCore ==
  ASSUME CInv, RunIdentity, UNCHANGED <<combs, caps>>
  PROVE  CInv'
<1>1. PICK j : j = Head(jobs)
  OBVIOUS
<1>2. /\ stack = <<>> /\ jobs # <<>> /\ j.handler = "none" /\ pairs' = pairs
      /\ IF j.kind = "fulfil"
         THEN ResolveValue(Dequeued, j.chained, j.value, <<>>)
         ELSE SetHeap(Settle(Dequeued, j.chained, "rejected", j.value)) /\ stack' = <<>>
  BY <1>1 DEF RunIdentity
<1>3. /\ Core(prom, Tail(jobs), pairs, <<>>, combs, caps) /\ j \in CJob /\ JobSound(prom, combs, caps, j)
      /\ Dequeued = HeapOf(prom, Tail(jobs), unhandled)
  BY <1>1, <1>2, TakenCore
<1>4. Free(prom, combs, j.chained) /\ j.value \in CVal
  BY <1>2, <1>3 DEF JobSound, CJob
<1>5. CASE j.kind = "fulfil"
  <2>1. ResolveValue(HeapOf(prom, Tail(jobs), unhandled), j.chained, j.value, <<>>)
    BY <1>2, <1>3, <1>5
  <2>2. Core(prom', jobs', pairs, stack', combs, caps)
    BY ONLY <1>3, <1>4, <2>1, CoreResolveValue
  <2> QED BY <1>2, <2>2, StayLemma
<1>6. CASE j.kind # "fulfil"
  <2>1. SetHeap(Settle(HeapOf(prom, Tail(jobs), unhandled), j.chained, "rejected", j.value)) /\ stack' = <<>>
    BY <1>2, <1>3, <1>6
  <2>2. PICK pr2, js2, un2 :
          /\ Settle(HeapOf(prom, Tail(jobs), unhandled), j.chained, "rejected", j.value) = HeapOf(pr2, js2, un2)
          /\ Core(pr2, js2, pairs, <<>>, combs, caps)
    <3>1. SettlesTo(prom, Tail(jobs), unhandled, pairs, <<>>, combs, caps, j.chained, "rejected", j.value)
      BY <1>3, <1>4, CoreSettle
    <3> QED BY <3>1 DEF SettlesTo
  <2>3. prom' = pr2 /\ jobs' = js2
    BY <2>1, <2>2, SetIs
  <2> QED BY <1>2, <2>1, <2>2, <2>3, StayLemma
<1> QED BY <1>5, <1>6

\* A handler begins.
LEMMA RunHandlerCore ==
  ASSUME CInv, RunHandler, UNCHANGED <<combs, caps>>
  PROVE  CInv'
<1>1. PICK j, f : j = Head(jobs) /\ f = Frame("handler", j.chained, 0, j.value)
  OBVIOUS
<1>2. /\ stack = <<>> /\ jobs # <<>> /\ j.handler = "user" /\ pairs' = pairs /\ SetHeap(Dequeued) /\ stack' = <<f>>
  BY <1>1 DEF RunHandler
<1>3. /\ Core(prom, Tail(jobs), pairs, <<>>, combs, caps) /\ j \in CJob /\ JobSound(prom, combs, caps, j)
      /\ Dequeued = HeapOf(prom, Tail(jobs), unhandled)
  BY <1>1, <1>2, TakenCore
<1>4. Free(prom, combs, j.chained) /\ j.value \in CVal
  BY <1>2, <1>3 DEF JobSound, CJob
<1>5. f \in CFrame /\ f.kind = "handler" /\ f.promise = j.chained
  BY <1>1, <1>4 DEF Frame, CFrame, Free
<1>6. FrameSound(prom, pairs, combs, caps, f)
  BY <1>4, <1>5 DEF FrameSound
<1>7. Core(prom, Tail(jobs), pairs, Append(<<>>, f), combs, caps)
  BY <1>3, <1>5, <1>6, CorePush
<1>8. prom' = prom /\ jobs' = Tail(jobs)
  BY <1>2, <1>3, SetIs
<1>9. Append(<<>>, f) = <<f>>
  OBVIOUS
<1> QED BY <1>2, <1>7, <1>8, <1>9, StayLemma

\* The then method of a thenable begins, with a pair of its own.
LEMMA RunThenableJobCore ==
  ASSUME CInv, RunThenableJob, UNCHANGED <<combs, caps>>
  PROVE  CInv'
<1>1. PICK j, f : j = Head(jobs) /\ f = Frame("then", j.chained, Len(pairs) + 1, j.value)
  OBVIOUS
<1>2. /\ stack = <<>> /\ jobs # <<>> /\ j.kind = "thenable" /\ OpenedPair(pairs, j.chained, pairs')
      /\ SetHeap(Dequeued) /\ stack' = <<f>>
  BY <1>1 DEF RunThenableJob, OpenedPair
<1>3. /\ Core(prom, Tail(jobs), pairs, <<>>, combs, caps) /\ j \in CJob /\ JobSound(prom, combs, caps, j)
      /\ Dequeued = HeapOf(prom, Tail(jobs), unhandled)
  BY <1>1, <1>2, TakenCore
<1>4. Free(prom, combs, j.chained) /\ j.value \in CVal
  BY <1>2, <1>3 DEF JobSound, CJob
<1>5. Core(prom, Tail(jobs), pairs', <<>>, combs, caps) /\ Len(pairs') = Len(pairs) + 1
  BY <1>2, <1>3, <1>4, CorePair
<1>6. Len(pairs) \in Nat
  BY <1>3, CoreTypes, SeqFacts
<1>7. f \in CFrame /\ f.kind = "then" /\ f.promise = j.chained /\ f.pair \in 1..Len(pairs')
  BY <1>1, <1>4, <1>5, <1>6 DEF Frame, CFrame, Free
<1>8. FrameSound(prom, pairs', combs, caps, f)
  BY <1>4, <1>7 DEF FrameSound
<1>9. Core(prom, Tail(jobs), pairs', Append(<<>>, f), combs, caps)
  BY <1>5, <1>7, <1>8, CorePush
<1>10. prom' = prom /\ jobs' = Tail(jobs)
  BY <1>2, <1>3, SetIs
<1>11. Append(<<>>, f) = <<f>>
  OBVIOUS
<1> QED BY <1>2, <1>9, <1>10, <1>11, StayLemma

\* Every step of the promises themselves keeps the invariant.
LEMMA PromiseStep ==
  ASSUME CInv, Next, UNCHANGED <<combs, caps>>
  PROVE  CInv'
<1>1. CASE NewPromise
  BY <1>1, NewPromiseCore
<1>2. CASE ReturnMain \/ ReturnThen
  <2>1. stack # <<>> /\ stack' = Pop /\ UNCHANGED <<prom, jobs, pairs>>
    BY <1>2 DEF ReturnMain, ReturnThen, InUserCode
  <2> QED BY <2>1, PoppedCore
<1>3. CASE FoundThen
  BY <1>3, FoundThenCore
<1>4. CASE FoundNoThen
  <2>1. /\ stack # <<>> /\ Top.kind \in {"handler", "getter"} /\ "fulfilled" \in {"fulfilled", "rejected"}
        /\ SetHeap(Settle(Heap, Top.promise, "fulfilled", Top.value)) /\ stack' = Pop /\ pairs' = pairs
    BY <1>4 DEF FoundNoThen, InUserCode
  <2>2. Top.value \in CVal
    BY <2>1, TopFrame DEF CFrame
  <2> QED BY <2>1, <2>2, EndCore
<1>5. CASE RunIdentity
  BY <1>5, RunIdentityCore
<1>6. CASE RunHandler
  BY <1>6, RunHandlerCore
<1>7. CASE RunThenableJob
  BY <1>7, RunThenableJobCore
<1>8. CASE Exit
  BY <1>8 DEF Exit, CInv
<1>9. ASSUME NEW v \in Values, PromiseResolve(v) \/ ReturnHandler(v)
      PROVE  CInv'
  BY <1>9, PromiseResolveCore, ReturnHandlerCore
<1>10. ASSUME NEW r \in Reasons, PromiseReject(r)
       PROVE  CInv'
  BY <1>10, PromiseRejectCore
<1>11. ASSUME NEW r \in Reasons, ThrowHandler(r) \/ ThrowGetter(r)
       PROVE  CInv'
  <2>1. /\ stack # <<>> /\ Top.kind \in {"handler", "getter"} /\ "rejected" \in {"fulfilled", "rejected"}
        /\ SetHeap(Settle(Heap, Top.promise, "rejected", r)) /\ stack' = Pop /\ pairs' = pairs
    BY <1>11 DEF ThrowHandler, ThrowGetter, InUserCode
  <2>2. r \in CVal
    BY ValueTypes
  <2> QED BY <2>1, <2>2, EndCore
<1>12. ASSUME NEW r \in Reasons, ThrowThen(r)
       PROVE  CInv'
  BY <1>12, ThrowThenCore
<1>13. ASSUME NEW p \in Promises, NEW f \in Handlers, NEW r \in Handlers, Then(p, f, r)
       PROVE  CInv'
  BY <1>13, ThenCore
<1>14. ASSUME NEW k \in DOMAIN pairs, NEW v \in Values, CallResolve(k, v)
       PROVE  CInv'
  BY <1>14, CallResolveCore
<1>15. ASSUME NEW k \in DOMAIN pairs, NEW r \in Reasons, CallReject(k, r)
       PROVE  CInv'
  BY <1>15, CallRejectCore
<1> QED BY <1>1, <1>2, <1>3, <1>4, <1>5, <1>6, <1>7, <1>8, <1>9, <1>10, <1>11, <1>12, <1>13, <1>14, <1>15 DEF Next

\* The captures that are in use stay good, and so do the promises of no combinator.
TokensKept(pr, js, cs, ks, cs2, ks2) ==
  \A x \in Int : \A q : Token(cs, ks, x, q) /\ ~Loose(pr, js, x) => Token(cs2, ks2, x, q)

\* The promises of the program stay its own.
FreeKept(pr, cs, pr2, cs2) == \A p : Free(pr, cs, p) => Free(pr2, cs2, p)

\* Promises are only added, or their reactions.
Extended(pr, pr2) ==
  /\ Later(pr, pr2)
  /\ \A q \in 1..Len(pr) : pr2[q] = pr[q]
  /\ \A q \in 1..Len(pr2) : q \in 1..Len(pr) \/ pr2[q].callbacks = <<>>

\* A step that changes combinators and captures, and loses no token, keeps Sound
\* of the promises and the jobs.
LEMMA Rearranged ==
  ASSUME NEW pr, NEW js, NEW prs, NEW stk, NEW cs, NEW ks, Sound(pr, js, prs, stk, cs, ks),
         NEW pr2, NEW stk2, NEW cs2, NEW ks2, Typed(pr2, js, prs, stk2, cs2, ks2), Extended(pr, pr2),
         FreeKept(pr, cs, pr2, cs2), TokensKept(pr, js, cs, ks, cs2, ks2),
         CapsSound(pr2, cs2, ks2), CombsSound(pr2, cs2, ks2), FramesSound(pr2, prs, stk2, cs2, ks2)
  PROVE  Sound(pr2, js, prs, stk2, cs2, ks2)
<1>1. ListsSound(pr, cs, ks) /\ JobsSound(pr, js, cs, ks) /\ PairsFree(pr, prs, cs)
      /\ Typed(pr, js, prs, stk, cs, ks)
  BY DEF Sound
<1>2. PairsFree(pr2, prs, cs2)
  BY <1>1 DEF PairsFree, FreeKept
<1>3. \A k \in 1..Len(js) : JobSound(pr2, cs2, ks2, js[k])
  <2> SUFFICES ASSUME NEW k \in 1..Len(js) PROVE JobSound(pr2, cs2, ks2, js[k])
    OBVIOUS
  <2>1. PICK j : j = js[k]
    OBVIOUS
  <2>2. JobSound(pr, cs, ks, j)
    BY <1>1, <2>1 DEF JobsSound
  <2>3. CASE j.handler = "element"
    <3>1. /\ j.kind # "thenable" /\ j.from \in 1..Len(pr) /\ Token(cs, ks, j.chained, j.from)
          /\ pr[j.from].state = OutcomeOf(j.kind) /\ pr[j.from].value = j.value
      BY <2>2, <2>3 DEF JobSound
    <3>2. ~Loose(pr, js, j.chained)
      BY <2>1, <2>3 DEF Loose
    <3>3. Token(cs2, ks2, j.chained, j.from)
      <4>1. j \in CJob
        BY <1>1, <2>1, WorldFacts
      <4>2. j.chained \in Int
        BY <4>1 DEF CJob
      <4> QED BY <3>1, <3>2, <4>2 DEF TokensKept
    <3>4. j.from \in 1..Len(pr2) /\ pr2[j.from] = pr[j.from]
      BY <3>1 DEF Extended, Later
    <3> QED BY <2>1, <2>3, <3>1, <3>3, <3>4 DEF JobSound
  <2>4. CASE j.handler # "element"
    <3>1. Free(pr, cs, j.chained)
      BY <2>2, <2>4 DEF JobSound
    <3> QED BY <2>1, <2>4, <3>1 DEF JobSound, FreeKept
  <2> QED BY <2>3, <2>4
<1>4. JobsSound(pr2, js, cs2, ks2)
  BY <1>1, <1>3 DEF JobsSound
<1>5. ListsSound(pr2, cs2, ks2)
  <2> SUFFICES ASSUME NEW q \in 1..Len(pr2) PROVE ListSound(pr2, cs2, ks2, q)
    BY DEF ListsSound
  <2>1. CASE q \in 1..Len(pr)
    <3>1. ListSound(pr, cs, ks, q) /\ pr2[q] = pr[q]
      BY <1>1, <2>1 DEF ListsSound, Extended
    <3>2. \A k \in 1..Len(pr[q].callbacks) : ReactionSound(pr2, cs2, ks2, q, pr[q].callbacks[k])
      <4> SUFFICES ASSUME NEW k \in 1..Len(pr[q].callbacks)
                   PROVE  ReactionSound(pr2, cs2, ks2, q, pr[q].callbacks[k])
        OBVIOUS
      <4>1. PICK r : r = pr[q].callbacks[k]
        OBVIOUS
      <4>2. ReactionSound(pr, cs, ks, q, r)
        BY <3>1, <4>1 DEF ListSound
      <4>3. CASE r.fulfil = "element"
        <5>1. r.reject = "element" /\ Token(cs, ks, r.chained, q)
          BY <4>2, <4>3 DEF ReactionSound
        <5>2. ~Loose(pr, js, r.chained)
          BY <2>1, <4>1, <4>3 DEF Loose
        <5>3. Token(cs2, ks2, r.chained, q)
          <6>1. r \in CReaction
            BY <1>1, <2>1, <4>1, PromiseFacts DEF Typed
          <6>2. r.chained \in Int
            BY <6>1 DEF CReaction
          <6> QED BY <5>1, <5>2, <6>2 DEF TokensKept
        <5> QED BY <4>1, <4>3, <5>1, <5>3 DEF ReactionSound
      <4>4. CASE r.fulfil # "element"
        <5>1. r.reject # "element" /\ Free(pr, cs, r.chained)
          BY <4>2, <4>4 DEF ReactionSound
        <5> QED BY <4>1, <4>4, <5>1 DEF ReactionSound, FreeKept
      <4> QED BY <4>3, <4>4
    <3> QED BY <3>1, <3>2 DEF ListSound
  <2>2. CASE q \notin 1..Len(pr)
    <3>1. pr2[q].callbacks = <<>>
      BY <2>2 DEF Extended
    <3>2. Len(<<>>) = 0
      OBVIOUS
    <3> QED BY <3>1, <3>2 DEF ListSound
  <2> QED BY <2>1, <2>2
<1> QED BY <1>2, <1>4, <1>5 DEF Sound

\* No promise changes.
LEMMA SameExtended ==
  ASSUME NEW pr \in Seq(CPromise)
  PROVE  Extended(pr, pr)
BY SameLater DEF Extended

\* combinator c is replaced by s, which settles the same promise
ReplacedComb(cs, c, s, cs2) ==
  /\ Len(cs2) = Len(cs) /\ cs2 \in Seq(Comb) /\ cs2[c] = s
  /\ \A d \in 1..Len(cs) : d # c => cs2[d] = cs[d]

\* Every combinator keeps its result.
SameSettled(cs, cs2) == \A d \in 1..Len(cs2) : d \in 1..Len(cs) /\ cs2[d].result = cs[d].result

\* It does when one is replaced.
LEMMA ReplacedCombSettles ==
  ASSUME NEW cs, NEW c, NEW s, NEW cs2, ReplacedComb(cs, c, s, cs2), NEW t, t = cs[c], s.result = t.result
  PROVE  SameSettled(cs, cs2)
BY DEF ReplacedComb, SameSettled

\* So the promises of the program stay its own.
LEMMA SettledFree ==
  ASSUME NEW pr, NEW cs, NEW cs2, SameSettled(cs, cs2)
  PROVE  FreeKept(pr, cs, pr, cs2)
BY DEF FreeKept, Free, SameSettled

\* Frames stay good when the captures do.
LEMMA FramesKept ==
  ASSUME NEW pr, NEW prs, NEW stk, NEW cs, NEW ks, FramesSound(pr, prs, stk, cs, ks), NEW pr2, NEW cs2,
         FreeKept(pr, cs, pr2, cs2), Len(cs2) = Len(cs)
  PROVE  FramesSound(pr2, prs, stk, cs2, ks)
BY DEF FramesSound, FrameSound, FreeKept

\* What a capture stands for
LEMMA CapFacts ==
  ASSUME NEW ks \in Seq(Cap)
  PROVE  Len(ks) \in Nat /\ \A k \in 1..Len(ks) : ks[k] \in Cap /\ ks[k].state \in Nat /\ ks[k].index \in Nat
<1>1. Len(ks) \in Nat /\ \A k \in 1..Len(ks) : ks[k] \in Cap
  BY SeqFacts
<1> QED BY <1>1 DEF Cap

-----------------------------------------------------------------------------

\* Input i of combinator c, that no capture stands for, becomes promise q.
Wrapped(cs, ks, c, i, q, cs2) ==
  /\ c \in 1..Len(cs) /\ i \in 1..Len(cs[c].inputs) /\ q \in Nat
  /\ \A k \in 1..Len(ks) : ks[k].state = c => ks[k].index # i
  /\ cs2 = [cs EXCEPT ![c].inputs[i] = q]

\* An input that no capture stands for is put into promise q.
LEMMA Wrapping ==
  ASSUME NEW pr, NEW js, NEW prs, NEW stk, NEW cs, NEW ks, Core(pr, js, prs, stk, cs, ks),
         NEW c, NEW i, NEW q, NEW cs2, Wrapped(cs, ks, c, i, q, cs2)
  PROVE  Core(pr, js, prs, stk, cs2, ks) /\ FreeKept(pr, cs, pr, cs2)
<1>0. /\ c \in 1..Len(cs) /\ i \in 1..Len(cs[c].inputs) /\ q \in Nat
      /\ \A k \in 1..Len(ks) : ks[k].state = c => ks[k].index # i
      /\ cs2 = [cs EXCEPT ![c].inputs[i] = q]
  BY DEF Wrapped
<1> USE <1>0
<1>1. PICK s : s = [cs[c] EXCEPT !.inputs = [cs[c].inputs EXCEPT ![i] = q]]
  OBVIOUS
<1>2. cs2 = [cs EXCEPT ![c] = s]
  BY <1>1
<1> USE <1>1, <1>2
<1>3. /\ Sound(pr, js, prs, stk, cs, ks) /\ Typed(pr, js, prs, stk, cs, ks) /\ pr \in Seq(CPromise)
      /\ cs \in Seq(Comb)
  BY CoreTypes
<1>4. FramesSound(pr, prs, stk, cs, ks) /\ CapsSound(pr, cs, ks) /\ CombsSound(pr, cs, ks)
  BY <1>3 DEF Sound
<1>5. cs[c] \in Comb /\ cs[c].inputs \in Seq(CVal)
  <2>1. cs[c] \in Comb
    BY <1>3, SeqFacts
  <2> QED BY <2>1 DEF Comb
<1>6. PICK ins : ins = [cs[c].inputs EXCEPT ![i] = q]
  OBVIOUS
<1>7. /\ ins \in Seq(CVal) /\ Len(ins) = Len(cs[c].inputs) /\ ins[i] = q
      /\ \A l \in 1..Len(cs[c].inputs) : l # i => ins[l] = cs[c].inputs[l]
  <2>1. q \in CVal
    BY DEF CVal
  <2>2. i \in 1..Len(cs[c].inputs)
    OBVIOUS
  <2> QED BY ONLY <1>5, <1>6, <2>1, <2>2, Replaced
<1>8. s = [cs[c] EXCEPT !.inputs = ins]
  BY <1>6
<1>9. /\ s \in Comb /\ s.inputs = ins /\ s.ran = cs[c].ran /\ s.result = cs[c].result /\ s.kind = cs[c].kind
      /\ s.results = cs[c].results /\ s.remaining = cs[c].remaining
  BY <1>5, <1>7, <1>8 DEF Comb
<1>10. ReplacedComb(cs, c, s, cs2)
  <2>1. cs2 \in Seq(Comb) /\ Len(cs2) = Len(cs) /\ cs2[c] = s /\ \A d \in 1..Len(cs) : d # c => cs2[d] = cs[d]
    <3>1. c \in 1..Len(cs) /\ cs2 = [cs EXCEPT ![c] = s]
      OBVIOUS
    <3> QED BY ONLY <1>3, <1>9, <3>1, Replaced
  <2> QED BY <2>1 DEF ReplacedComb
<1>11. /\ FreeKept(pr, cs, pr, cs2) /\ \A d \in 1..Len(cs2) : d \in 1..Len(cs) /\ cs2[d].result = cs[d].result
  <2>1. PICK t : t = cs[c] /\ s.result = t.result
    BY <1>9
  <2>2. SameSettled(cs, cs2)
    BY ONLY <1>10, <2>1, ReplacedCombSettles
  <2> QED BY <2>2, SettledFree DEF SameSettled
<1>12. Len(cs2) = Len(cs) /\ cs2[c] = s /\ \A d \in 1..Len(cs) : d # c => cs2[d] = cs[d]
  BY <1>10 DEF ReplacedComb
<1>13. \A d \in 1..Len(cs) : cs2[d].ran = cs[d].ran /\ Len(cs2[d].inputs) = Len(cs[d].inputs)
                             /\ Len(cs2[d].results) = Len(cs[d].results)
  BY <1>7, <1>9, <1>12
<1>14. \A k \in 1..Len(ks) :
         /\ ks[k].state \in 1..Len(cs) /\ ks[k].index \in 1..Len(cs[ks[k].state].inputs)
         /\ cs2[ks[k].state].inputs[ks[k].index] = cs[ks[k].state].inputs[ks[k].index]
  BY SMTT(30), <1>4, <1>7, <1>9, <1>12 DEF CapsSound
<1>15. TokensKept(pr, js, cs, ks, cs2, ks)
  <2> SUFFICES ASSUME NEW x \in Int, NEW p, Token(cs, ks, x, p) PROVE Token(cs2, ks, x, p)
    BY DEF TokensKept
  <2>1. PICK k : k = -x
    OBVIOUS
  <2>2. /\ k \in 1..Len(ks) /\ cs[ks[k].state].inputs[ks[k].index] = p
        /\ \A m \in 1..Len(cs[ks[k].state].ran) : cs[ks[k].state].ran[m] # ks[k].index
    BY <2>1 DEF Token
  <2>3. /\ cs2[ks[k].state].inputs[ks[k].index] = p
        /\ \A m \in 1..Len(cs2[ks[k].state].ran) : cs2[ks[k].state].ran[m] # ks[k].index
    BY <1>13, <1>14, <2>2
  <2> QED BY <2>1, <2>2, <2>3 DEF Token
<1>16. CapsSound(pr, cs2, ks)
  BY <1>4, <1>12, <1>13, <1>14 DEF CapsSound
<1>17. \A m \in 1..Len(s.ran) : s.inputs[s.ran[m]] = cs[c].inputs[cs[c].ran[m]] /\ s.ran[m] # i
  <2> SUFFICES ASSUME NEW m \in 1..Len(s.ran)
               PROVE  s.inputs[s.ran[m]] = cs[c].inputs[cs[c].ran[m]] /\ s.ran[m] # i
    OBVIOUS
  <2>1. RanSound(pr, ks, c, cs[c])
    BY <1>4 DEF CombsSound
  <2>2. PICK k \in 1..Len(ks) : ks[k].state = c /\ ks[k].index = cs[c].ran[m]
    BY <1>9, <2>1 DEF RanSound
  <2> QED BY SMTT(30), <1>9, <1>12, <1>14, <2>2
<1>18. RanSound(pr, ks, c, s)
  <2>1. PICK t : t = cs[c]
    OBVIOUS
  <2>2. RanSound(pr, ks, c, t)
    BY <1>4, <2>1 DEF CombsSound
  <2>3. s.ran = t.ran /\ \A m \in 1..Len(s.ran) : s.inputs[s.ran[m]] = t.inputs[s.ran[m]]
    BY <1>9, <1>17, <2>1
  <2> QED BY ONLY <2>2, <2>3 DEF RanSound
<1>19. CombsSound(pr, cs2, ks)
  BY <1>4, <1>11, <1>12, <1>13, <1>18 DEF CombsSound
<1>20. FramesSound(pr, prs, stk, cs2, ks)
  BY <1>4, <1>11, <1>12, FramesKept
<1>21. Typed(pr, js, prs, stk, cs2, ks)
  BY <1>3, <1>10 DEF Typed, ReplacedComb
<1>22. Extended(pr, pr)
  BY <1>3, SameExtended
<1>23. Sound(pr, js, prs, stk, cs2, ks)
  BY <1>3, <1>11, <1>15, <1>16, <1>19, <1>20, <1>21, <1>22, Rearranged
<1>24. Stated(pr, s)
  <2>1. PICK t : t = cs[c]
    OBVIOUS
  <2>2. Stated(pr, t)
    BY <2>1 DEF Core
  <2>0. /\ s.kind = t.kind /\ s.ran = t.ran
        /\ \A m \in 1..Len(s.ran) : s.inputs[s.ran[m]] = t.inputs[t.ran[m]]
    BY <1>9, <1>17, <2>1
  <2>3. Deciding(pr, s) = Deciding(pr, t)
    <3>1. ASSUME NEW m PROVE m \in Deciding(pr, s) <=> m \in Deciding(pr, t)
      <4>1. m \in Deciding(pr, s) <=> m \in 1..Len(s.ran) /\ Decides(s.kind, pr[s.inputs[s.ran[m]]].state)
        BY ONLY DecidingMember
      <4>2. m \in Deciding(pr, t) <=> m \in 1..Len(t.ran) /\ Decides(t.kind, pr[t.inputs[t.ran[m]]].state)
        BY ONLY DecidingMember
      <4> QED BY ONLY <2>0, <4>1, <4>2
    <3> QED BY ONLY <3>1
  <2>4. \A m \in 1..Len(s.ran) : EntryOf(pr, s, s.ran[m]) = EntryOf(pr, t, t.ran[m])
    <3> SUFFICES ASSUME NEW m \in 1..Len(s.ran) PROVE EntryOf(pr, s, s.ran[m]) = EntryOf(pr, t, t.ran[m])
      OBVIOUS
    <3>1. /\ EntryOf(pr, s, s.ran[m]) = EntryFor(s.kind, pr[s.inputs[s.ran[m]]].state, pr[s.inputs[s.ran[m]]].value)
          /\ EntryOf(pr, t, t.ran[m]) = EntryFor(t.kind, pr[t.inputs[t.ran[m]]].state, pr[t.inputs[t.ran[m]]].value)
      BY ONLY EntryIs
    <3>2. s.kind = t.kind /\ s.inputs[s.ran[m]] = t.inputs[t.ran[m]]
      BY ONLY <2>0, m \in 1..Len(s.ran)
    <3> QED BY ONLY <3>1, <3>2
  <2>5. \A m \in Deciding(pr, t) : m \in 1..Len(s.ran) /\ s.inputs[s.ran[m]] = t.inputs[t.ran[m]]
    BY <2>0, <2>3 DEF Deciding
  <2>6. Len(s.inputs) = Len(t.inputs)
    BY <1>7, <1>9, <2>1
  <2>7. /\ s.ran = t.ran /\ s.result = t.result /\ s.kind = t.kind /\ s.results = t.results /\ s.remaining = t.remaining
    BY <1>9, <2>1
  <2> QED BY ZenonT(40), <2>2, <2>3, <2>4, <2>5, <2>6, <2>7 DEF Stated
<1>25. \A d \in 1..Len(cs2) : Stated(pr, cs2[d])
  BY <1>12, <1>24 DEF Core
<1> QED BY <1>11, <1>23, <1>25 DEF Core

\* An input that is no promise is put into one.
LEMMA WrapInputCore ==
  ASSUME CInv, WrapInput
  PROVE  CInv'
<1>1. PICK c, i, v : c = Top.promise /\ i = Top.pair /\ v = combs[c].inputs[i]
  OBVIOUS
<1>2. /\ stack # <<>> /\ Top.kind = "subscribe" /\ i <= Len(combs[c].inputs) /\ v \notin Promises
      /\ ResolveValue(Made(Heap), Fresh, v, stack) /\ pairs' = pairs /\ caps' = caps
      /\ combs' = [combs EXCEPT ![c].inputs[i] = Fresh]
  BY <1>1 DEF WrapInput, InLoop, Subscribing, Inputs
<1>3. /\ c \in 1..Len(combs) /\ i \in Nat /\ i # 0 /\ \A k \in 1..Len(caps) : caps[k].state = c => caps[k].index < i
  BY <1>1, <1>2, TopFrame DEF FrameSound, CFrame
<1>4. PICK pr : pr = Append(prom, NewPromiseStruct)
  OBVIOUS
<1>5. Core(pr, jobs, pairs, stack, combs, caps) /\ Free(pr, combs, Fresh) /\ Fresh \in Nat
  BY <1>4, MadeCore
<1>6. combs \in Seq(Comb) /\ caps \in Seq(Cap)
  BY <1>5, CoreTypes
<1>7. combs[c] \in Comb /\ combs[c].inputs \in Seq(CVal)
  <2>1. combs[c] \in Comb
    BY <1>3, <1>6, SeqFacts
  <2> QED BY <2>1 DEF Comb
<1>8. i \in 1..Len(combs[c].inputs) /\ v \in CVal
  <2>1. Len(combs[c].inputs) \in Nat
    BY <1>7, SeqFacts
  <2>2. i \in 1..Len(combs[c].inputs)
    BY <1>2, <1>3, <2>1
  <2> QED BY <1>1, <1>7, <2>2, SeqFacts
<1>9. \A k \in 1..Len(caps) : caps[k].state = c => caps[k].index # i
  <2>1. \A k \in 1..Len(caps) : caps[k].index \in Nat
    BY <1>6, CapFacts
  <2> QED BY <1>3, <2>1
<1>10. Wrapped(combs, caps, c, i, Fresh, combs')
  BY <1>2, <1>3, <1>5, <1>8, <1>9 DEF Wrapped
<1>11. Core(pr, jobs, pairs, stack, combs, caps)
  BY <1>5
<1>12. Core(pr, jobs, pairs, stack, combs', caps) /\ FreeKept(pr, combs, pr, combs')
  BY ONLY <1>10, <1>11, Wrapping
<1>13. Free(pr, combs', Fresh)
  BY <1>5, <1>12 DEF FreeKept
<1>14. ResolveValue(HeapOf(pr, jobs, unhandled), Fresh, v, stack)
  BY <1>2, <1>4, HeapIs
<1>15. Core(prom', jobs', pairs, stack', combs', caps)
  BY ONLY <1>8, <1>12, <1>13, <1>14, CoreResolveValue
<1> QED BY <1>2, <1>15 DEF CInv

\* The loop ends.
LEMMA LoopDoneCore ==
  ASSUME CInv, LoopDone
  PROVE  CInv'
<1>1. stack # <<>> /\ stack' = Pop /\ UNCHANGED <<prom, jobs, pairs, combs, caps>>
  BY DEF LoopDone, Subscribing
<1> QED BY <1>1, PoppedCore

-----------------------------------------------------------------------------

\* The loop of combinator c gives the next input, promise q, a capture.
Captured(stk, cs, ks, c, i, q, stk2, ks2) ==
  /\ Len(stk) \in 1..Len(stk) /\ stk[Len(stk)].kind = "subscribe"
  /\ c = stk[Len(stk)].promise /\ i = stk[Len(stk)].pair
  /\ c \in 1..Len(cs) /\ i \in 1..Len(cs[c].inputs) /\ q = cs[c].inputs[i]
  /\ stk2 = [stk EXCEPT ![Len(stk)].pair = i + 1]
  /\ ks2 = Append(ks, [state |-> c, index |-> i])

\* The same, with the new frame and the new capture
CaptureMade(stk, ks, c, i, stk2, ks2, n, m) ==
  /\ ks2 \in Seq(Cap) /\ Len(ks2) = n /\ Len(ks) \in Nat
  /\ ks2[n].state = c /\ ks2[n].index = i
  /\ \A k \in 1..Len(ks) : ks2[k] = ks[k]
  /\ stk2 \in Seq(CFrame) /\ Len(stk2) = Len(stk) /\ stk2[m].kind = "subscribe"
  /\ stk2[m].promise = c /\ stk2[m].pair = i + 1
  /\ \A k \in 1..Len(stk) : k # m => stk2[k] = stk[k]

\* SubscribeInput does this to the stack and the captures.
LEMMA CaptureShape ==
  ASSUME NEW stk \in Seq(CFrame), NEW cs \in Seq(Comb), NEW ks \in Seq(Cap), NEW c, NEW i, NEW q, NEW stk2, NEW ks2,
         Captured(stk, cs, ks, c, i, q, stk2, ks2)
  PROVE  CaptureMade(stk, ks, c, i, stk2, ks2, Len(ks) + 1, Len(stk))
<1>1. /\ Len(stk) \in 1..Len(stk) /\ stk[Len(stk)].kind = "subscribe"
      /\ c = stk[Len(stk)].promise /\ i = stk[Len(stk)].pair
      /\ stk2 = [stk EXCEPT ![Len(stk)].pair = i + 1] /\ ks2 = Append(ks, [state |-> c, index |-> i])
  BY DEF Captured
<1>2. PICK n, f : n = Len(stk) /\ f = stk[n]
  OBVIOUS
<1>3. f \in CFrame /\ n \in 1..Len(stk)
  BY <1>1, <1>2, SeqFacts
<1>4. PICK g : g = [f EXCEPT !.pair = i + 1]
  OBVIOUS
<1>5. g \in CFrame /\ g.kind = "subscribe" /\ g.promise = c /\ g.pair = i + 1 /\ c \in Nat /\ i \in Nat
  <2>1. f.kind = "subscribe" /\ f.promise = c /\ f.pair = i
    BY <1>1, <1>2
  <2>2. c \in Nat /\ i \in Nat
    BY <1>3, <2>1 DEF CFrame
  <2>3. i + 1 \in Nat
    BY <2>2
  <2> QED BY <1>3, <1>4, <2>1, <2>2, <2>3 DEF CFrame
<1>6. stk2 = [stk EXCEPT ![n] = g]
  BY <1>1, <1>2, <1>4
<1>7. stk \in Seq(CFrame)
  OBVIOUS
<1>8. stk2 \in Seq(CFrame) /\ Len(stk2) = Len(stk) /\ stk2[n] = g /\ \A k \in 1..Len(stk) : k # n => stk2[k] = stk[k]
  BY ONLY <1>3, <1>5, <1>6, <1>7, Replaced
<1>9. PICK e : e = [state |-> c, index |-> i]
  OBVIOUS
<1>10. e \in Cap /\ e.state = c /\ e.index = i /\ ks2 = Append(ks, e)
  BY <1>1, <1>5, <1>9 DEF Cap
<1>11. /\ ks2 \in Seq(Cap) /\ Len(ks2) = Len(ks) + 1 /\ ks2[Len(ks) + 1] = e /\ Len(ks) \in Nat
       /\ \A k \in 1..Len(ks) : ks2[k] = ks[k]
  BY <1>10, AppendProperties, SeqFacts
<1> QED BY <1>2, <1>5, <1>8, <1>10, <1>11 DEF CaptureMade

\* A new capture is a new token, and the place in the loop moves on.
LEMMA Capturing ==
  ASSUME NEW pr, NEW js, NEW prs, NEW stk, NEW cs, NEW ks, Core(pr, js, prs, stk, cs, ks),
         NEW c, NEW i, NEW q \in 1..Len(pr), NEW stk2, NEW ks2, Captured(stk, cs, ks, c, i, q, stk2, ks2),
         NEW x, x = -(Len(ks) + 1)
  PROVE  /\ Core(pr, js, prs, stk2, cs, ks2)
         /\ x \in Int /\ Token(cs, ks2, x, q) /\ Loose(pr, js, x)
<1>1. /\ Sound(pr, js, prs, stk, cs, ks) /\ Typed(pr, js, prs, stk, cs, ks) /\ pr \in Seq(CPromise)
      /\ stk \in Seq(CFrame) /\ cs \in Seq(Comb) /\ ks \in Seq(Cap)
  BY CoreTypes
<1>2. /\ FramesSound(pr, prs, stk, cs, ks) /\ CapsSound(pr, cs, ks) /\ CombsSound(pr, cs, ks)
      /\ ListsSound(pr, cs, ks) /\ JobsSound(pr, js, cs, ks)
  BY <1>1 DEF Sound
<1>3. PICK n, m : n = Len(ks) + 1 /\ m = Len(stk)
  OBVIOUS
<1>4. /\ ks2 \in Seq(Cap) /\ Len(ks2) = n /\ Len(ks) \in Nat
      /\ ks2[n].state = c /\ ks2[n].index = i
      /\ \A k \in 1..Len(ks) : ks2[k] = ks[k]
      /\ stk2 \in Seq(CFrame) /\ Len(stk2) = Len(stk) /\ stk2[m].kind = "subscribe"
      /\ stk2[m].promise = c /\ stk2[m].pair = i + 1
      /\ \A k \in 1..Len(stk) : k # m => stk2[k] = stk[k]
  <2>1. CaptureMade(stk, ks, c, i, stk2, ks2, Len(ks) + 1, Len(stk))
    BY <1>1, CaptureShape
  <2> QED BY <1>3, <2>1 DEF CaptureMade
<1>5. /\ m \in 1..Len(stk) /\ stk[m].kind = "subscribe" /\ c = stk[m].promise /\ i = stk[m].pair
      /\ c \in 1..Len(cs) /\ i \in 1..Len(cs[c].inputs) /\ q = cs[c].inputs[i] /\ i \in Nat
  <2>1. Len(cs[c].inputs) \in Nat \/ i \in Nat
    BY <1>1, <1>3, SeqFacts DEF Captured, CFrame
  <2>2. /\ m \in 1..Len(stk) /\ stk[m].kind = "subscribe" /\ c = stk[m].promise /\ i = stk[m].pair
        /\ c \in 1..Len(cs) /\ i \in 1..Len(cs[c].inputs) /\ q = cs[c].inputs[i]
    BY <1>3 DEF Captured
  <2>3. stk[m] \in CFrame
    BY <1>1, <2>2, SeqFacts
  <2> QED BY <2>2, <2>3 DEF CFrame
<1>6. \A k \in 1..Len(ks) : ks[k].state = c => ks[k].index < i
  BY <1>2, <1>5 DEF FramesSound, FrameSound
<1>7. \A k \in 1..Len(ks) : ks[k].state = c => ks[k].index # i
  <2>1. \A k \in 1..Len(ks) : ks[k].index \in Nat
    BY <1>1, CapFacts
  <2> QED BY <1>5, <1>6, <2>1
<1>8. \A k \in 1..Len(ks2) : k \in 1..Len(ks) \/ k = n
  BY <1>3, <1>4
<1>9. \A k \in 1..Len(ks) : k \in 1..Len(ks2)
  BY <1>3, <1>4
<1>10. CapsSound(pr, cs, ks2)
  <2>1. \A k \in 1..Len(ks2) : /\ ks2[k].state \in 1..Len(cs) /\ ks2[k].index \in 1..Len(cs[ks2[k].state].inputs)
                               /\ cs[ks2[k].state].inputs[ks2[k].index] \in 1..Len(pr)
    BY <1>2, <1>4, <1>5, <1>8 DEF CapsSound
  <2>2. \A k, l \in 1..Len(ks2) : ks2[k].state = ks2[l].state /\ ks2[k].index = ks2[l].index => k = l
    <3> SUFFICES ASSUME NEW k \in 1..Len(ks2), NEW l \in 1..Len(ks2), ks2[k].state = ks2[l].state,
                        ks2[k].index = ks2[l].index
                 PROVE  k = l
      OBVIOUS
    <3>1. CASE k \in 1..Len(ks) /\ l \in 1..Len(ks)
      <4>1. ks[k].state = ks[l].state /\ ks[k].index = ks[l].index
        BY <1>4, <3>1
      <4> QED BY <1>2, <3>1, <4>1 DEF CapsSound
    <3>2. CASE k \in 1..Len(ks) /\ l = n
      BY <1>4, <1>7, <3>2
    <3>3. CASE k = n /\ l \in 1..Len(ks)
      BY <1>4, <1>7, <3>3
    <3> QED BY <1>8, <3>1, <3>2, <3>3
  <2> QED BY SMTT(30), <2>1, <2>2 DEF CapsSound
<1>11. CombsSound(pr, cs, ks2)
  <2>1. ASSUME NEW d \in 1..Len(cs), NEW s, s = cs[d], RanSound(pr, ks, d, s) PROVE RanSound(pr, ks2, d, s)
    <3>1. ASSUME NEW l, \E k \in 1..Len(ks) : ks[k].state = d /\ ks[k].index = l
          PROVE  \E k \in 1..Len(ks2) : ks2[k].state = d /\ ks2[k].index = l
      BY <1>4, <1>9, <3>1
    <3> QED BY <2>1, <3>1 DEF RanSound
  <2> QED BY <1>2, <2>1 DEF CombsSound
<1>12. FramesSound(pr, prs, stk2, cs, ks2)
  <2>1. ASSUME NEW k \in 1..Len(stk2) PROVE FrameSound(pr, prs, cs, ks2, stk2[k])
    <3>1. CASE k = m
      <4>1. \A l \in 1..Len(ks2) : ks2[l].state = c => ks2[l].index < i + 1
        <5>1. \A l \in 1..Len(ks) : ks[l].index \in Nat
          BY <1>1, CapFacts
        <5>2. \A l \in 1..Len(ks) : ks[l].state = c => ks[l].index < i + 1
          <6>1. \A a \in Nat : a < i => a < i + 1
            BY <1>5
          <6> QED BY ONLY <1>6, <5>1, <6>1
        <5>3. i < i + 1
          BY <1>5
        <5> QED BY <1>4, <1>8, <5>2, <5>3
      <4>2. i + 1 # 0
        BY <1>5
      <4> QED BY <1>4, <1>5, <3>1, <4>1, <4>2 DEF FrameSound
    <3>2. CASE k # m
      <4>1. PICK f : f = stk[k]
        OBVIOUS
      <4>2. FrameSound(pr, prs, cs, ks, f) /\ stk2[k] = f /\ (f.kind = "subscribe" => f.promise # c)
        BY <1>2, <1>4, <1>5, <3>2, <4>1 DEF FramesSound
      <4>3. f.kind = "subscribe" => \A l \in 1..Len(ks2) : ks2[l].state = f.promise => ks2[l].index < f.pair
        BY <1>4, <1>8, <4>2 DEF FrameSound
      <4> QED BY <4>2, <4>3 DEF FrameSound
    <3> QED BY <3>1, <3>2
  <2>2. \A k \in 1..Len(stk) : stk2[k].kind = stk[k].kind /\ stk2[k].promise = stk[k].promise
    BY <1>4, <1>5
  <2>3. \A k, l \in 1..Len(stk2) : stk2[k].kind = "subscribe" /\ stk2[l].kind = "subscribe"
                                   /\ stk2[k].promise = stk2[l].promise => k = l
    BY <1>2, <1>4, <2>2 DEF FramesSound
  <2> QED BY <2>1, <2>3 DEF FramesSound
<1>13. TokensKept(pr, js, cs, ks, cs, ks2)
  BY <1>4, <1>9 DEF TokensKept, Token
<1>14. FreeKept(pr, cs, pr, cs) /\ Extended(pr, pr)
  BY <1>1, SameExtended DEF FreeKept
<1>15. Typed(pr, js, prs, stk2, cs, ks2)
  BY <1>1, <1>4 DEF Typed
<1>16. Sound(pr, js, prs, stk2, cs, ks2)
  BY <1>1, <1>10, <1>11, <1>12, <1>13, <1>14, <1>15, Rearranged
<1>17. Core(pr, js, prs, stk2, cs, ks2)
  BY <1>16 DEF Core
<1>18. x \in Int /\ -x = n /\ n \in 1..Len(ks2) /\ n \notin 1..Len(ks)
  BY <1>3, <1>4
<1>19. \A l \in 1..Len(cs[c].ran) : cs[c].ran[l] # i
  <2> SUFFICES ASSUME NEW l \in 1..Len(cs[c].ran) PROVE cs[c].ran[l] # i
    OBVIOUS
  <2>1. PICK s : s = cs[c]
    OBVIOUS
  <2>2. RanSound(pr, ks, c, s)
    BY <1>2, <1>5, <2>1 DEF CombsSound
  <2>3. PICK k \in 1..Len(ks) : ks[k].state = c /\ ks[k].index = s.ran[l]
    BY SMTT(30), <2>1, <2>2 DEF RanSound
  <2> QED BY <1>7, <2>1, <2>3
<1>20. Token(cs, ks2, x, q)
  BY <1>4, <1>5, <1>18, <1>19 DEF Token
<1>21. \A p : ~Token(cs, ks, x, p)
  BY <1>18 DEF Token
<1>22. Loose(pr, js, x)
  <2>1. ASSUME NEW p \in 1..Len(pr), NEW k \in 1..Len(pr[p].callbacks), pr[p].callbacks[k].fulfil = "element"
        PROVE  pr[p].callbacks[k].chained # x
    <3>1. Token(cs, ks, pr[p].callbacks[k].chained, p)
      BY <1>2, <2>1 DEF ListsSound, ListSound, ReactionSound
    <3> QED BY <1>21, <3>1
  <2>2. ASSUME NEW k \in 1..Len(js), js[k].handler = "element" PROVE js[k].chained # x
    <3>1. Token(cs, ks, js[k].chained, js[k].from)
      BY <1>2, <2>2 DEF JobsSound, JobSound
    <3> QED BY <1>21, <3>1
  <2> QED BY <2>1, <2>2 DEF Loose
<1> QED BY <1>17, <1>18, <1>20, <1>22

\* An element is attached to promise q.
LEMMA CoreSubscribe ==
  ASSUME NEW pr, NEW js, NEW un, NEW prs, NEW stk, NEW cs, NEW ks, Core(pr, js, prs, stk, cs, ks),
         NEW q \in 1..Len(pr), NEW x \in Int, Token(cs, ks, x, q), Loose(pr, js, x)
  PROVE  ThenTo(pr, js, un, prs, stk, cs, ks, q, "element", "element", x)
<1>1. /\ Sound(pr, js, prs, stk, cs, ks) /\ pr \in Seq(CPromise) /\ js \in Seq(CJob)
      /\ \A d \in 1..Len(cs) : cs[d].result \in 1..Len(pr)
  BY CoreTypes
<1>2. PICK f : f = "element"
  OBVIOUS
<1>3. f \in AnyHandler /\ q \in 1..Len(pr) /\ x \in Int
  BY <1>2 DEF AnyHandler
<1>4. PICK pr2, js2, e : /\ Attach(HeapOf(pr, js, un), q, f, f, x) = HeapOf(pr2, js2, un)
                         /\ e.fulfil = f /\ e.reject = f /\ e.chained = x
                         /\ AttachedAs(pr, js, q, e, pr2, js2)
  <2>1. Attaches(pr, js, un, q, f, f, x)
    BY ONLY <1>1, <1>3, AttachedAsLemma
  <2> QED BY <2>1 DEF Attaches
<1>5. ReactionSound(pr, cs, ks, q, e)
  BY <1>2, <1>4 DEF ReactionSound
<1>6. Sound(pr2, js2, prs, stk, cs, ks) /\ Later(pr, pr2)
  BY <1>1, <1>4, <1>5, AttachSound
<1>7. ResultsKept(pr, pr2, cs)
  <2>1. /\ \A p \in 1..Len(pr) : p # q => pr2[p] = pr[p]
        /\ pr2[q].state = pr[q].state /\ pr2[q].value = pr[q].value
    BY <1>4 DEF AttachedAs
  <2> QED BY <1>1, <2>1 DEF ResultsKept
<1>8. Core(pr2, js2, prs, stk, cs, ks)
  BY <1>6, <1>7, CoreLater
<1>9. Attach(HeapOf(pr, js, un), q, "element", "element", x) = HeapOf(pr2, js2, un)
  BY <1>2, <1>4
<1>10. \E un2 : AttachThen(HeapOf(pr, js, un), q, "element", "element", x) = HeapOf(pr2, js2, un2)
  BY <1>9, Marking
<1> QED BY <1>8, <1>10 DEF ThenTo

\* An input is subscribed to.
LEMMA SubscribeInputCore ==
  ASSUME CInv, SubscribeInput
  PROVE  CInv'
<1>1. PICK c, i, q : c = Top.promise /\ i = Top.pair /\ q = combs[c].inputs[i]
  OBVIOUS
<1>2. /\ stack # <<>> /\ Top.kind = "subscribe" /\ i <= Len(combs[c].inputs) /\ q \in 1..Len(prom)
      /\ SetHeap(AttachThen(Heap, q, "element", "element", -(Len(caps) + 1))) /\ pairs' = pairs /\ combs' = combs
      /\ caps' = Append(caps, [state |-> c, index |-> i])
      /\ stack' = [stack EXCEPT ![Len(stack)].pair = @ + 1]
  BY <1>1 DEF SubscribeInput, InLoop, Subscribing, Inputs, Subscribe, Promises
<1>3. c \in 1..Len(combs) /\ i \in Nat /\ i # 0 /\ Len(stack) \in 1..Len(stack)
  BY <1>1, <1>2, TopFrame DEF FrameSound, CFrame
<1>4. Core(prom, jobs, pairs, stack, combs, caps)
  BY DEF CInv
<1>5. i \in 1..Len(combs[c].inputs)
  <2>1. combs[c] \in Comb
    BY <1>3, <1>4, CoreTypes, SeqFacts
  <2>2. Len(combs[c].inputs) \in Nat
    BY <2>1, SeqFacts DEF Comb
  <2> QED BY <1>2, <1>3, <2>2
<1>6. Captured(stack, combs, caps, c, i, q, stack', caps')
  <2>1. stack' = [stack EXCEPT ![Len(stack)].pair = i + 1]
    BY <1>1, <1>2 DEF Top
  <2> QED BY <1>1, <1>2, <1>3, <1>5, <2>1 DEF Captured, Top
<1>7. PICK x : x = -(Len(caps) + 1)
  OBVIOUS
<1>8. Core(prom, jobs, pairs, stack', combs, caps') /\ x \in Int /\ Token(combs, caps', x, q) /\ Loose(prom, jobs, x)
  <2>1. q \in 1..Len(prom)
    BY <1>2
  <2> QED BY ONLY <1>4, <1>6, <1>7, <2>1, Capturing
<1>9. ThenTo(prom, jobs, unhandled, pairs, stack', combs, caps', q, "element", "element", x)
  BY <1>2, <1>8, CoreSubscribe
<1>10. PICK pr2, js2, un2 : /\ AttachThen(HeapOf(prom, jobs, unhandled), q, "element", "element", x) = HeapOf(pr2, js2, un2)
                            /\ Core(pr2, js2, pairs, stack', combs, caps')
  BY <1>9 DEF ThenTo
<1>11. SetHeap(HeapOf(pr2, js2, un2))
  BY <1>2, <1>7, <1>10, HeapIs
<1>12. prom' = pr2 /\ jobs' = js2
  BY <1>11, SetIs
<1> QED BY <1>2, <1>10, <1>12 DEF CInv

\* A combinator is called: its struct s and the frame f of its loop
Called(pr, stk, cs, s, f, pr2, stk2, cs2) ==
  /\ s \in Comb /\ s.result = Len(pr) + 1 /\ Len(s.results) = Len(s.inputs) /\ s.ran = <<>>
  /\ f \in CFrame /\ f.kind = "subscribe" /\ f.promise = Len(cs) + 1 /\ f.pair = 1
  /\ pr2 = Append(pr, NewPromiseStruct) /\ stk2 = Append(stk, f) /\ cs2 = Append(cs, s)

\* A new combinator has no capture, and nothing has run.
LEMMA Calling ==
  ASSUME NEW pr, NEW js, NEW prs, NEW stk, NEW cs, NEW ks, Core(pr, js, prs, stk, cs, ks),
         NEW s, NEW f, NEW pr2, NEW stk2, NEW cs2, Called(pr, stk, cs, s, f, pr2, stk2, cs2)
  PROVE  /\ Sound(pr2, js, prs, stk2, cs2, ks) /\ Later(pr, pr2) /\ Len(pr2) = Len(pr) + 1
         /\ pr2[Len(pr) + 1] = NewPromiseStruct /\ \A q \in 1..Len(pr) : pr2[q] = pr[q]
<1>1. /\ Sound(pr, js, prs, stk, cs, ks) /\ Typed(pr, js, prs, stk, cs, ks) /\ pr \in Seq(CPromise)
      /\ stk \in Seq(CFrame) /\ cs \in Seq(Comb) /\ ks \in Seq(Cap)
  BY CoreTypes
<1>2. FramesSound(pr, prs, stk, cs, ks) /\ CapsSound(pr, cs, ks) /\ CombsSound(pr, cs, ks)
  BY <1>1 DEF Sound
<1>3. PICK n, d, m : n = Len(pr) + 1 /\ d = Len(cs) + 1 /\ m = Len(stk) + 1
  OBVIOUS
<1>4. Len(pr) \in Nat /\ Len(cs) \in Nat /\ Len(stk) \in Nat
  BY <1>1, SeqFacts
<1>5. /\ s \in Comb /\ s.result = n /\ Len(s.results) = Len(s.inputs) /\ s.ran = <<>>
      /\ f \in CFrame /\ f.kind = "subscribe" /\ f.promise = d /\ f.pair = 1
      /\ pr2 = Append(pr, NewPromiseStruct) /\ stk2 = Append(stk, f) /\ cs2 = Append(cs, s)
  BY <1>3 DEF Called
<1>6. NewPromiseStruct \in CPromise /\ NewPromiseStruct.callbacks = <<>>
  BY PendingStruct DEF MadeAs
<1>7. /\ pr2 \in Seq(CPromise) /\ Len(pr2) = n /\ pr2[n] = NewPromiseStruct /\ \A q \in 1..Len(pr) : pr2[q] = pr[q]
  BY <1>1, <1>3, <1>5, <1>6, AppendProperties
<1>8. /\ cs2 \in Seq(Comb) /\ Len(cs2) = d /\ cs2[d] = s /\ \A c \in 1..Len(cs) : cs2[c] = cs[c]
  BY <1>1, <1>3, <1>5, AppendProperties
<1>9. /\ stk2 \in Seq(CFrame) /\ Len(stk2) = m /\ stk2[m] = f /\ \A k \in 1..Len(stk) : stk2[k] = stk[k]
  BY <1>1, <1>3, <1>5, AppendProperties
<1>10. /\ \A q \in 1..Len(pr2) : q \in 1..Len(pr) \/ q = n
       /\ \A c \in 1..Len(cs2) : c \in 1..Len(cs) \/ c = d
       /\ \A k \in 1..Len(stk2) : k \in 1..Len(stk) \/ k = m
  BY <1>3, <1>4, <1>7, <1>8, <1>9
<1>11. /\ n \notin 1..Len(pr) /\ d \notin 1..Len(cs) /\ m \notin 1..Len(stk)
       /\ n \in 1..Len(pr2) /\ d \in 1..Len(cs2)
       /\ \A q \in 1..Len(pr) : q \in 1..Len(pr2)
       /\ \A c \in 1..Len(cs) : c \in 1..Len(cs2)
  BY <1>3, <1>4, <1>7, <1>8
<1>12. Extended(pr, pr2) /\ Later(pr, pr2)
  <2>1. Later(pr, pr2)
    BY <1>3, <1>4, <1>7 DEF Later
  <2> QED BY <1>6, <1>7, <1>10, <2>1 DEF Extended
<1>13. FreeKept(pr, cs, pr2, cs2)
  BY <1>5, <1>8, <1>10, <1>11 DEF FreeKept, Free
<1>14. \A k \in 1..Len(ks) : ks[k].state \in 1..Len(cs) /\ ks[k].state # d /\ cs2[ks[k].state] = cs[ks[k].state]
  BY <1>2, <1>8, <1>11 DEF CapsSound
<1>15. TokensKept(pr, js, cs, ks, cs2, ks)
  BY <1>14 DEF TokensKept, Token
<1>16. CapsSound(pr2, cs2, ks)
  BY <1>2, <1>11, <1>14 DEF CapsSound
<1>17. CombsSound(pr2, cs2, ks)
  <2>1. CombsSound(pr2, cs, ks)
    BY <1>2, <1>12, CombsLater
  <2>2. RanSound(pr2, ks, d, s)
    <3>1. Len(s.ran) = 0
      BY <1>5
    <3> QED BY <3>1 DEF RanSound
  <2>3. ASSUME NEW c \in 1..Len(cs2)
        PROVE  /\ cs2[c].result \in 1..Len(pr2) /\ Len(cs2[c].results) = Len(cs2[c].inputs)
               /\ RanSound(pr2, ks, c, cs2[c])
    BY <1>5, <1>8, <1>10, <1>11, <2>1, <2>2 DEF CombsSound
  <2>4. \A c \in 1..Len(cs) : cs[c].result # n
    BY <1>2, <1>11 DEF CombsSound
  <2>5. ASSUME NEW c \in 1..Len(cs2), NEW e \in 1..Len(cs2), cs2[c].result = cs2[e].result
        PROVE  c = e
    <3>1. CASE c \in 1..Len(cs) /\ e \in 1..Len(cs)
      BY <1>2, <1>8, <2>5, <3>1 DEF CombsSound
    <3>2. CASE c \in 1..Len(cs) /\ e = d
      BY <1>5, <1>8, <2>4, <2>5, <3>2
    <3>3. CASE c = d /\ e \in 1..Len(cs)
      BY <1>5, <1>8, <2>4, <2>5, <3>3
    <3> QED BY <1>10, <3>1, <3>2, <3>3
  <2> QED BY <2>3, <2>5 DEF CombsSound
<1>18. FramesSound(pr2, prs, stk2, cs2, ks)
  <2>1. \A k \in 1..Len(stk) : FrameSound(pr2, prs, cs2, ks, stk[k])
    <3> SUFFICES ASSUME NEW k \in 1..Len(stk) PROVE FrameSound(pr2, prs, cs2, ks, stk[k])
      OBVIOUS
    <3>1. PICK g : g = stk[k]
      OBVIOUS
    <3>2. FrameSound(pr, prs, cs, ks, g)
      BY <1>2, <3>1 DEF FramesSound
    <3>3. FrameSound(pr2, prs, cs2, ks, g)
      BY <1>11, <1>13, <3>2 DEF FrameSound, FreeKept
    <3> QED BY <3>1, <3>3
  <2>2. FrameSound(pr2, prs, cs2, ks, f)
    BY <1>5, <1>11, <1>14 DEF FrameSound
  <2>3. \A k \in 1..Len(stk) : stk[k].kind = "subscribe" => stk[k].promise # d
    BY <1>2, <1>11 DEF FramesSound, FrameSound
  <2>4. ASSUME NEW k \in 1..Len(stk2), NEW l \in 1..Len(stk2), stk2[k].kind = "subscribe",
               stk2[l].kind = "subscribe", stk2[k].promise = stk2[l].promise
        PROVE  k = l
    <3>1. CASE k \in 1..Len(stk) /\ l \in 1..Len(stk)
      BY <1>2, <1>9, <2>4, <3>1 DEF FramesSound
    <3>2. CASE k \in 1..Len(stk) /\ l = m
      BY <1>5, <1>9, <2>3, <2>4, <3>2
    <3>3. CASE k = m /\ l \in 1..Len(stk)
      BY <1>5, <1>9, <2>3, <2>4, <3>3
    <3> QED BY <1>10, <3>1, <3>2, <3>3
  <2>5. \A k \in 1..Len(stk2) : FrameSound(pr2, prs, cs2, ks, stk2[k])
    BY <1>9, <1>10, <2>1, <2>2
  <2> QED BY <2>4, <2>5 DEF FramesSound
<1>19. Typed(pr2, js, prs, stk2, cs2, ks)
  BY <1>1, <1>7, <1>8, <1>9 DEF Typed
<1>20. Sound(pr2, js, prs, stk2, cs2, ks)
  BY <1>1, <1>12, <1>13, <1>15, <1>16, <1>17, <1>18, <1>19, Rearranged
<1> QED BY <1>3, <1>7, <1>12, <1>20

\* What becomes of the result at the call
Begun(pr, s) ==
  IF Len(s.inputs) = 0 /\ s.kind # "race"
  THEN /\ pr[s.result].state = (IF s.kind = "any" THEN "rejected" ELSE "fulfilled")
       /\ pr[s.result].value = (IF s.kind = "any" THEN AggregateError ELSE Results)
  ELSE pr[s.result].state = "pending" /\ pr[s.result].value = Nothing

\* That is what is stated of it.
LEMMA BegunStated ==
  ASSUME NEW pr, NEW s \in Comb, s.ran = <<>>, s.remaining = Len(s.inputs), Begun(pr, s)
  PROVE  Stated(pr, s)
<1>1. PICK k, r, ln, p : k = Len(s.ran) /\ r = s.remaining /\ ln = Len(s.inputs) /\ p = s.result
  OBVIOUS
<1>2. k = 0 /\ r = ln
  <2>1. Len(<<>>) = 0
    OBVIOUS
  <2> QED BY <1>1, <2>1
<1>3. ln \in Nat
  <2>1. s.inputs \in Seq(CVal)
    BY DEF Comb
  <2> QED BY <1>1, <2>1, SeqFacts
<1>4. Deciding(pr, s) = {}
  BY <1>1, <1>2 DEF Deciding
<1>5. r = ln - k /\ (k = ln <=> ln = 0)
  BY <1>2, <1>3
<1>6. s.remaining = Len(s.inputs) - Len(s.ran) /\ (Len(s.ran) = Len(s.inputs) <=> Len(s.inputs) = 0)
  BY <1>1, <1>5
<1>7. \A m \in 1..Len(s.ran) : FALSE
  BY <1>1, <1>2
<1> QED BY <1>4, <1>6, <1>7 DEF Begun, Stated

\* Sound states follow one another: the results of all combinators but the new one are kept.
LEMMA NewStated ==
  ASSUME NEW pr, NEW js, NEW prs, NEW stk, NEW cs, NEW ks, Core(pr, js, prs, stk, cs, ks),
         NEW pr3, NEW js3, NEW prs3, NEW stk3, NEW s \in Comb, NEW cs2, cs2 = Append(cs, s),
         Sound(pr3, js3, prs3, stk3, cs2, ks),
         Later(pr, pr3), \A q \in 1..Len(pr) : pr3[q].state = pr[q].state /\ pr3[q].value = pr[q].value,
         Stated(pr3, s)
  PROVE  Core(pr3, js3, prs3, stk3, cs2, ks)
<1>1. cs \in Seq(Comb) /\ \A c \in 1..Len(cs) : cs[c].result \in 1..Len(pr)
  BY CoreTypes
<1>2. CapsSound(pr, cs, ks) /\ CombsSound(pr, cs, ks)
  BY DEF Core, Sound
<1>3. /\ Len(cs) \in Nat /\ Len(cs2) = Len(cs) + 1 /\ cs2[Len(cs) + 1] = s /\ \A c \in 1..Len(cs) : cs2[c] = cs[c]
  BY <1>1, AppendProperties, SeqFacts
<1>4. \A c \in 1..Len(cs2) : c \in 1..Len(cs) \/ c = Len(cs) + 1
  BY <1>3
<1>5. ASSUME NEW c \in 1..Len(cs) PROVE Stated(pr3, cs[c])
  <2>1. PICK t : t = cs[c]
    OBVIOUS
  <2>2. Stated(pr, t) /\ t.result \in 1..Len(pr)
    BY <1>1, <2>1 DEF Core
  <2>3. pr3[t.result].state = pr[t.result].state /\ pr3[t.result].value = pr[t.result].value
    BY <2>2
  <2>4. Stated(pr3, t)
    BY <1>2, <2>1, <2>2, <2>3, StatedLater
  <2> QED BY <2>1, <2>4
<1>6. \A c \in 1..Len(cs2) : Stated(pr3, cs2[c])
  BY <1>3, <1>4, <1>5
<1> QED BY <1>6 DEF Core

\* Two steps
LEMMA LaterLater ==
  ASSUME NEW pr, NEW pr2, NEW pr3, Later(pr, pr2), Later(pr2, pr3)
  PROVE  Later(pr, pr3)
<1>1. \A q \in 1..Len(pr) : q \in 1..Len(pr2)
  BY DEF Later
<1>2. Len(pr) <= Len(pr3)
  BY DEF Later
<1> QED BY <1>1, <1>2 DEF Later

\* A vector of inputs
LEMMA VectorFacts ==
  ASSUME CInv, NEW inputs \in Vectors
  PROVE  /\ inputs \in Seq(CVal) /\ Len(inputs) \in Nat /\ DOMAIN inputs = 1..Len(inputs)
         /\ [i \in DOMAIN inputs |-> Nothing] \in Seq(Entries)
         /\ Len([i \in DOMAIN inputs |-> Nothing]) = Len(inputs)
<1>1. PICK n \in 0..MaxInputs : inputs \in [1..n -> Values]
  BY DEF Vectors
<1>2. n \in Nat
  BY <1>1, CombinatorAssumption
<1>3. inputs \in [1..n -> CVal]
  BY <1>1, ValueTypes
<1>4. inputs \in Seq(CVal) /\ Len(inputs) = n /\ DOMAIN inputs = 1..n
  BY <1>2, <1>3, FunIsSeq
<1>5. PICK rs : rs = [i \in DOMAIN inputs |-> Nothing]
  OBVIOUS
<1>6. rs \in [1..n -> Entries]
  BY <1>4, <1>5 DEF Entries, CVal
<1>7. rs \in Seq(Entries) /\ Len(rs) = n
  BY <1>2, <1>6, FunIsSeq
<1> QED BY <1>2, <1>4, <1>5, <1>7

\* Promise.all, allSettled, any and race
LEMMA NewCombinatorCore ==
  ASSUME CInv, NEW kind \in Kinds, NEW inputs \in Vectors, NewCombinator(kind, inputs)
  PROVE  CInv'
<1>1. PICK s, f : /\ s = [kind |-> kind, result |-> Fresh, inputs |-> inputs,
                          results |-> [i \in DOMAIN inputs |-> Nothing], remaining |-> Len(inputs), ran |-> <<>>]
                  /\ f = Frame("subscribe", Len(combs) + 1, 1, Nothing)
  OBVIOUS
<1>2. /\ SetHeap(IF Len(inputs) = 0 THEN SettleEmpty(Made(Heap), Fresh, kind) ELSE Made(Heap))
      /\ combs' = Append(combs, s) /\ stack' = Append(stack, f) /\ pairs' = pairs /\ caps' = caps
  BY <1>1 DEF NewCombinator
<1>3. /\ inputs \in Seq(CVal) /\ Len(inputs) \in Nat /\ [i \in DOMAIN inputs |-> Nothing] \in Seq(Entries)
      /\ Len([i \in DOMAIN inputs |-> Nothing]) = Len(inputs)
  BY VectorFacts
<1>4. kind \in {"all", "allSettled", "any", "race"}
  BY CombinatorAssumption
<1>5. Len(prom) \in Nat /\ Fresh = Len(prom) + 1 /\ Fresh \in Nat /\ Len(combs) \in Nat
  <2>1. Len(combs) \in Nat
    BY CoreTypes, SeqFacts DEF CInv
  <2> QED BY <2>1, MadeCore DEF Fresh
<1>6. /\ s \in Comb /\ s.kind = kind /\ s.result = Fresh /\ s.inputs = inputs /\ Len(s.results) = Len(s.inputs)
      /\ s.remaining = Len(s.inputs) /\ s.ran = <<>>
  <2>1. <<>> \in Seq(Nat) /\ Len(inputs) \in Int
    BY <1>3, EmptySeq
  <2> QED BY <1>1, <1>3, <1>4, <1>5, <2>1 DEF Comb
<1>7. f \in CFrame /\ f.kind = "subscribe" /\ f.promise = Len(combs) + 1 /\ f.pair = 1
  BY <1>1, <1>5 DEF Frame, CFrame, CVal
<1>8. PICK pr2 : pr2 = Append(prom, NewPromiseStruct)
  OBVIOUS
<1>9. Called(prom, stack, combs, s, f, pr2, stack', combs')
  BY <1>2, <1>5, <1>6, <1>7, <1>8 DEF Called
<1>10. Core(prom, jobs, pairs, stack, combs, caps)
  BY DEF CInv
<1>11. /\ Sound(pr2, jobs, pairs, stack', combs', caps) /\ Later(prom, pr2) /\ Len(pr2) = Len(prom) + 1
       /\ pr2[Len(prom) + 1] = NewPromiseStruct /\ \A q \in 1..Len(prom) : pr2[q] = prom[q]
  BY ONLY <1>9, <1>10, Calling
<1>12. Made(Heap) = HeapOf(pr2, jobs, unhandled)
  BY <1>8, HeapIs
<1>13. pr2[Fresh].state = "pending" /\ pr2[Fresh].value = Nothing /\ Fresh \in 1..Len(pr2)
  BY <1>5, <1>11 DEF NewPromiseStruct
<1>14. \E pr3, js3 : /\ prom' = pr3 /\ jobs' = js3 /\ Sound(pr3, js3, pairs, stack', combs', caps)
                     /\ Later(pr2, pr3) /\ \A q \in 1..Len(prom) : pr3[q] = pr2[q]
                     /\ Begun(pr3, s)
  <2>1. CASE Len(inputs) = 0 /\ kind # "race"
    <3>1. PICK st, v : /\ st = (IF s.kind = "any" THEN "rejected" ELSE "fulfilled")
                       /\ v = (IF s.kind = "any" THEN AggregateError ELSE Results)
      OBVIOUS
    <3>2. SetHeap(Settle(HeapOf(pr2, jobs, unhandled), Fresh, st, v))
      BY <1>2, <1>4, <1>6, <1>12, <2>1, <3>1 DEF SettleEmpty
    <3>3. st \in {"fulfilled", "rejected"} /\ v \in CVal
      BY <3>1 DEF CVal
    <3>4. pr2 \in Seq(CPromise) /\ jobs \in Seq(CJob)
      BY <1>11 DEF Sound, Typed
    <3>5. PICK pr3, js3, un3 : /\ Settle(HeapOf(pr2, jobs, unhandled), Fresh, st, v) = HeapOf(pr3, js3, un3)
                               /\ SettledAs(pr2, jobs, Fresh, st, v, pr3, js3)
      <4>1. Settles(pr2, jobs, unhandled, Fresh, st, v)
        BY <1>13, <3>3, <3>4, SettledAsLemma
      <4> QED BY <4>1 DEF Settles
    <3>6. Sound(pr3, js3, pairs, stack', combs', caps) /\ Later(pr2, pr3)
      BY <1>11, <1>13, <3>3, <3>5, SettleSound
    <3>7. pr3[Fresh].state = st /\ pr3[Fresh].value = v /\ \A q \in 1..Len(pr2) : q # Fresh => pr3[q] = pr2[q]
      BY <3>5 DEF SettledAs
    <3>8. \A q \in 1..Len(prom) : q \in 1..Len(pr2) /\ q # Fresh
      BY <1>5, <1>11
    <3>9. Begun(pr3, s)
      BY <1>6, <2>1, <3>1, <3>7 DEF Begun
    <3>10. prom' = pr3 /\ jobs' = js3
      BY <3>2, <3>5, SetIs
    <3> QED BY <3>6, <3>7, <3>8, <3>9, <3>10
  <2>2. CASE ~(Len(inputs) = 0 /\ kind # "race")
    <3>1. SetHeap(HeapOf(pr2, jobs, unhandled))
      BY <1>2, <1>12, <2>2 DEF SettleEmpty
    <3>2. prom' = pr2 /\ jobs' = jobs
      BY <3>1, SetIs
    <3>3. Begun(pr2, s)
      BY <1>6, <1>13, <2>2 DEF Begun
    <3>4. Later(pr2, pr2)
      BY <1>11, SameLater DEF Sound, Typed
    <3> QED BY <1>11, <3>2, <3>3, <3>4
  <2> QED BY <2>1, <2>2
<1>15. /\ Sound(prom', jobs', pairs, stack', combs', caps) /\ Later(prom, prom') /\ Begun(prom', s)
       /\ \A q \in 1..Len(prom) : prom'[q].state = prom[q].state /\ prom'[q].value = prom[q].value
  <2>1. Later(pr2, prom') /\ \A q \in 1..Len(prom) : prom'[q] = pr2[q]
    BY <1>14
  <2>2. Later(prom, prom')
    BY <1>11, <2>1, LaterLater
  <2> QED BY <1>11, <1>14, <2>1, <2>2
<1>16. Stated(prom', s)
  BY <1>6, <1>15, BegunStated
<1>17. Core(prom', jobs', pairs, stack', combs', caps)
  BY <1>2, <1>6, <1>10, <1>15, <1>16, NewStated
<1> QED BY <1>2, <1>17 DEF CInv

\* Different places leave one free when one is.
LEMMA Pigeons ==
  ASSUME NEW n \in Nat, NEW k \in Nat, NEW s, \A m \in 1..k : s[m] \in 1..n,
         \A l, m \in 1..k : s[l] = s[m] => l = m,
         NEW i \in 1..n, \A m \in 1..k : s[m] # i
  PROVE  k < n
<1>1. PICK S, T : S = 1..k /\ T = (1..n) \ {i}
  OBVIOUS
<1>2. IsFiniteSet(1..n) /\ Cardinality(1..n) = n /\ IsFiniteSet(S) /\ Cardinality(S) = k
  BY <1>1, FS_Interval
<1>3. IsFiniteSet(T) /\ Cardinality(T) = n - 1
  BY <1>1, <1>2, FS_RemoveElement
<1>4. PICK f : f = [m \in S |-> s[m]]
  OBVIOUS
<1>5. f \in [S -> T]
  BY <1>1, <1>4
<1>6. ASSUME n - 1 < k PROVE FALSE
  <2>1. \E a, b \in S : a # b /\ f[a] = f[b]
    BY <1>2, <1>3, <1>5, <1>6, FS_PigeonHole
  <2> QED BY <1>1, <1>4, <2>1
<1> QED BY <1>6

\* The first that decides is all there is to state.
LEMMA StatedFirst ==
  ASSUME NEW pr, NEW s, NEW m \in Deciding(pr, s), \A l \in Deciding(pr, s) : m <= l,
         pr[s.result].state = pr[s.inputs[s.ran[m]]].state, pr[s.result].value = pr[s.inputs[s.ran[m]]].value
  PROVE  Stated(pr, s)
<1>1. PICK D : D = Deciding(pr, s)
  OBVIOUS
<1>2. m \in D /\ D # {} /\ \A l \in D : m <= l
  BY <1>1
<1> QED BY ONLY <1>1, <1>2, pr[s.result].state = pr[s.inputs[s.ran[m]]].state,
                pr[s.result].value = pr[s.inputs[s.ran[m]]].value DEF Stated

\* Element i has run: s becomes t.  What it adds is the entry e.
Counted(s, t, i, decides, e) ==
  /\ t.kind = s.kind /\ t.result = s.result /\ t.inputs = s.inputs
  /\ Len(t.ran) = Len(s.ran) + 1 /\ t.ran[Len(s.ran) + 1] = i
  /\ \A m \in 1..Len(s.ran) : t.ran[m] = s.ran[m]
  /\ t.remaining = IF decides THEN s.remaining ELSE s.remaining - 1
  /\ ~decides => /\ t.results[i] = e
                 /\ \A l \in 1..Len(s.inputs) : l # i => t.results[l] = s.results[l]

\* What the element does to the result
Reached(pr, pr3, t, decides, state, value) ==
  IF decides
  THEN pr[t.result].state = "pending" => pr3[t.result].state = state /\ pr3[t.result].value = value
  ELSE IF t.remaining = 0
  THEN pr[t.result].state = "pending" =>
         /\ pr3[t.result].state = (IF t.kind = "any" THEN "rejected" ELSE "fulfilled")
         /\ pr3[t.result].value = (IF t.kind = "any" THEN AggregateError ELSE Results)
  ELSE pr3[t.result].state = pr[t.result].state /\ pr3[t.result].value = pr[t.result].value

\* One more element has run: what is stated of the result follows, by the
\* pigeonhole principle for the last one.
LEMMA RanStated ==
  ASSUME NEW pr, NEW pr3, Later(pr, pr3), NEW cs, NEW ks, CapsSound(pr, cs, ks), CombsSound(pr, cs, ks),
         cs \in Seq(Comb), NEW c \in 1..Len(cs), NEW s, s = cs[c], Stated(pr, s),
         NEW i \in 1..Len(s.inputs), \A m \in 1..Len(s.ran) : s.ran[m] # i,
         NEW q \in 1..Len(pr), s.inputs[i] = q, pr[q].state # "pending",
         NEW t, NEW decides, NEW e, Counted(s, t, i, decides, e),
         decides = Decides(s.kind, pr[q].state), e = EntryOf(pr, s, i),
         Reached(pr, pr3, t, decides, pr[q].state, pr[q].value)
  PROVE  Stated(pr3, t)
<1>1. RanSound(pr, ks, c, s) /\ s.result \in 1..Len(pr) /\ Len(s.results) = Len(s.inputs)
  BY DEF CombsSound
<1>2. s \in Comb
  BY SeqFacts
<1>3. PICK n, ln, r, D, D3, ran, ran3 :
        /\ n = Len(s.ran) /\ ln = Len(s.inputs) /\ r = s.result /\ D = Deciding(pr, s) /\ D3 = Deciding(pr3, t)
        /\ ran = s.ran /\ ran3 = t.ran
  OBVIOUS
<1>4. n \in Nat /\ ln \in Nat /\ s.remaining \in Int
  <2>1. s.ran \in Seq(Nat) /\ s.inputs \in Seq(CVal) /\ s.remaining \in Int
    BY <1>2 DEF Comb
  <2> QED BY <1>3, <2>1, SeqFacts
<1>5. \A m \in 1..n : /\ ran[m] \in 1..ln /\ s.inputs[ran[m]] \in 1..Len(pr)
                      /\ pr[s.inputs[ran[m]]].state # "pending"
  <2> SUFFICES ASSUME NEW m \in 1..Len(s.ran)
               PROVE  /\ s.ran[m] \in 1..Len(s.inputs) /\ s.inputs[s.ran[m]] \in 1..Len(pr)
                      /\ pr[s.inputs[s.ran[m]]].state # "pending"
    BY <1>3
  <2>1. CapsSound(pr, cs, ks) /\ c \in 1..Len(cs) /\ s = cs[c] /\ RanSound(pr, ks, c, s) /\ m \in 1..Len(s.ran)
    BY <1>1
  <2> QED BY ONLY <2>1, RanInput
<1>6. \A m \in 1..n : /\ pr3[s.inputs[ran[m]]].state = pr[s.inputs[ran[m]]].state
                      /\ pr3[s.inputs[ran[m]]].value = pr[s.inputs[ran[m]]].value
  BY <1>5 DEF Later
<1>7. pr3[q].state = pr[q].state /\ pr3[q].value = pr[q].value
  BY DEF Later
<1>8. n < ln
  <2>1. \A l, m \in 1..n : ran[l] = ran[m] => l = m
    BY <1>1, <1>3 DEF RanSound
  <2>2. i \in 1..ln /\ \A m \in 1..n : ran[m] # i
    BY <1>3
  <2>3. \A m \in 1..n : ran[m] \in 1..ln
    BY <1>5
  <2> QED BY ONLY <1>4, <2>1, <2>2, <2>3, Pigeons
<1>9. /\ t.kind = s.kind /\ t.result = r /\ t.inputs = s.inputs
      /\ Len(ran3) = n + 1 /\ ran3[n + 1] = i /\ \A m \in 1..n : ran3[m] = ran[m]
      /\ t.remaining = (IF decides THEN s.remaining ELSE s.remaining - 1)
      /\ ~decides => t.results[i] = e /\ \A l \in 1..ln : l # i => t.results[l] = s.results[l]
  BY <1>3 DEF Counted
<1>10. \A m \in 1..(n + 1) : m \in 1..n \/ m = n + 1
  BY <1>4
<1>11. \A m \in 1..n : m \in 1..(n + 1) /\ m # n + 1 /\ m <= n + 1
  BY <1>4
<1>12. n + 1 \in 1..(n + 1)
  BY <1>4
<1>13. \A m \in 1..n : m \in D3 <=> m \in D
  <2> SUFFICES ASSUME NEW m \in 1..n PROVE m \in D3 <=> m \in D
    OBVIOUS
  <2>1. m \in D3 <=> Decides(t.kind, pr3[t.inputs[ran3[m]]].state)
    BY <1>3, <1>9, <1>11, DecidingMember
  <2>2. m \in D <=> Decides(s.kind, pr[s.inputs[ran[m]]].state)
    BY <1>3, DecidingMember
  <2>3. pr3[t.inputs[ran3[m]]].state = pr[s.inputs[ran[m]]].state /\ t.kind = s.kind
    BY <1>6, <1>9
  <2> QED BY ONLY <2>1, <2>2, <2>3
<1>14. n + 1 \in D3 <=> decides
  <2>1. n + 1 \in D3 <=> Decides(t.kind, pr3[t.inputs[ran3[n + 1]]].state)
    BY <1>3, <1>9, <1>12, DecidingMember
  <2>2. pr3[t.inputs[ran3[n + 1]]].state = pr[q].state /\ t.kind = s.kind
    BY <1>7, <1>9
  <2> QED BY <2>1, <2>2
<1>15. D \subseteq 1..n /\ D3 \subseteq 1..(n + 1)
  BY <1>3, <1>9 DEF Deciding
<1>16. CASE D # {}
  <2>1. PICK m \in D : /\ \A l \in D : m <= l
                       /\ pr[r].state = pr[s.inputs[ran[m]]].state /\ pr[r].value = pr[s.inputs[ran[m]]].value
    BY <1>3, <1>16 DEF Stated
  <2>2. m \in 1..n
    BY SMTT(30), <1>15
  <2>3. pr3[r].state = pr[r].state /\ pr3[r].value = pr[r].value
    BY ZenonT(40), <1>1, <1>3, <1>5, <2>1, <2>2 DEF Later
  <2>4. m \in D3 /\ \A l \in D3 : m <= l
    BY <1>10, <1>11, <1>13, <1>15, <2>1, <2>2
  <2>5. pr3[r].state = pr3[t.inputs[ran3[m]]].state /\ pr3[r].value = pr3[t.inputs[ran3[m]]].value
    <3>1. ran3[m] = ran[m] /\ t.inputs = s.inputs
      BY ONLY <1>9, <2>2
    <3>2. /\ pr3[s.inputs[ran[m]]].state = pr[s.inputs[ran[m]]].state
          /\ pr3[s.inputs[ran[m]]].value = pr[s.inputs[ran[m]]].value
      BY ONLY <1>6, <2>2
    <3> QED BY ONLY <2>1, <2>3, <3>1, <3>2
  <2>6. m \in Deciding(pr3, t) /\ \A l \in Deciding(pr3, t) : m <= l
    BY <1>3, <2>4
  <2>7. /\ pr3[t.result].state = pr3[t.inputs[t.ran[m]]].state
        /\ pr3[t.result].value = pr3[t.inputs[t.ran[m]]].value
    BY <1>3, <1>9, <2>5
  <2> QED BY ONLY SMTT(30), <2>6, <2>7, StatedFirst
<1>17. CASE D = {}
  <2>1. pr[r].state = "pending" /\ pr[r].value = Nothing
    BY <1>3, <1>4, <1>8, <1>17 DEF Stated
  <2>2. CASE decides
    <3>1. pr3[r].state = pr[q].state /\ pr3[r].value = pr[q].value
      BY <1>9, <2>1, <2>2 DEF Reached
    <3>2. n + 1 \in D3 /\ \A l \in D3 : l = n + 1
      BY <1>10, <1>13, <1>14, <1>15, <1>17, <2>2
    <3>3. \A l \in D3 : n + 1 <= l
      BY <1>4, <3>2
    <3>4. t.inputs[ran3[n + 1]] = q
      BY <1>9
    <3>5. pr3[r].state = pr3[t.inputs[ran3[n + 1]]].state /\ pr3[r].value = pr3[t.inputs[ran3[n + 1]]].value
      BY <1>7, <3>1, <3>4
    <3>6. PICK m : m = n + 1
      OBVIOUS
    <3>7. m \in Deciding(pr3, t) /\ \A l \in Deciding(pr3, t) : m <= l
      BY SMTT(30), <1>3, <3>2, <3>3, <3>6
    <3>8. /\ pr3[t.result].state = pr3[t.inputs[t.ran[m]]].state
          /\ pr3[t.result].value = pr3[t.inputs[t.ran[m]]].value
      BY <1>3, <1>9, <3>5, <3>6
    <3> QED BY ONLY <3>7, <3>8, StatedFirst
  <2>3. CASE ~decides
    <3>1. D3 = {} /\ t.kind # "race"
      BY <1>9, <1>10, <1>13, <1>14, <1>15, <1>17, <2>3 DEF Decides
    <3>2. /\ s.remaining = ln - n
          /\ \A m \in 1..n : s.results[ran[m]] = EntryOf(pr, s, ran[m])
      BY <1>3, <1>9, <1>17, <3>1 DEF Stated
    <3>3. t.remaining = ln - (n + 1) /\ (t.remaining = 0 <=> n + 1 = ln)
      BY <1>4, <1>9, <2>3, <3>2
    <3>4. \A m \in 1..(n + 1) : t.results[ran3[m]] = EntryOf(pr3, t, ran3[m])
      <4>1. ASSUME NEW m \in 1..n PROVE t.results[ran3[m]] = EntryOf(pr3, t, ran3[m])
        <5>1. ran3[m] = ran[m] /\ ran[m] # i /\ ran[m] \in 1..ln
          BY <1>3, <1>5, <1>9
        <5>2. t.results[ran3[m]] = EntryOf(pr, s, ran[m])
          BY SMTT(30), <1>9, <2>3, <3>2, <5>1
        <5>3. EntryOf(pr3, t, ran3[m]) = EntryOf(pr, s, ran[m])
          <6>1. /\ pr3[t.inputs[ran3[m]]].state = pr[s.inputs[ran[m]]].state
                /\ pr3[t.inputs[ran3[m]]].value = pr[s.inputs[ran[m]]].value /\ t.kind = s.kind
            <7>1. ran3[m] = ran[m] /\ t.inputs = s.inputs /\ t.kind = s.kind
              BY ONLY <1>9, m \in 1..n
            <7>2. /\ pr3[s.inputs[ran[m]]].state = pr[s.inputs[ran[m]]].state
                  /\ pr3[s.inputs[ran[m]]].value = pr[s.inputs[ran[m]]].value
              BY ONLY <1>6, m \in 1..n
            <7> QED BY ONLY <7>1, <7>2
          <6>2. /\ EntryOf(pr3, t, ran3[m]) = EntryFor(t.kind, pr3[t.inputs[ran3[m]]].state, pr3[t.inputs[ran3[m]]].value)
                /\ EntryOf(pr, s, ran[m]) = EntryFor(s.kind, pr[s.inputs[ran[m]]].state, pr[s.inputs[ran[m]]].value)
            BY EntryIs
          <6> QED BY ONLY <6>1, <6>2
        <5> QED BY <5>2, <5>3
      <4>2. t.results[ran3[n + 1]] = EntryOf(pr3, t, ran3[n + 1])
        <5>1. EntryOf(pr3, t, i) = EntryOf(pr, s, i)
          <6>1. /\ EntryOf(pr3, t, i) = EntryFor(t.kind, pr3[t.inputs[i]].state, pr3[t.inputs[i]].value)
                /\ EntryOf(pr, s, i) = EntryFor(s.kind, pr[s.inputs[i]].state, pr[s.inputs[i]].value)
            BY ONLY EntryIs
          <6>2. t.inputs[i] = q /\ s.inputs[i] = q /\ t.kind = s.kind
            BY ONLY <1>9, s.inputs[i] = q
          <6> QED BY ONLY <1>7, <6>1, <6>2
        <5> QED BY <1>9, <2>3, <5>1
      <4> QED BY <1>10, <4>1, <4>2
    <3>5. PICK k : k = n + 1
      OBVIOUS
    <3>6. /\ Deciding(pr3, t) = {} /\ t.kind # "race" /\ Len(t.ran) = k /\ Len(t.inputs) = ln
          /\ t.remaining = Len(t.inputs) - Len(t.ran)
      BY <1>3, <1>9, <3>1, <3>3, <3>5
    <3>7. \A m \in 1..Len(t.ran) : t.results[t.ran[m]] = EntryOf(pr3, t, t.ran[m])
      BY <1>3, <3>4, <3>5, <3>6
    <3>8. CASE t.remaining = 0
      <4>1. /\ pr3[r].state = (IF t.kind = "any" THEN "rejected" ELSE "fulfilled")
            /\ pr3[r].value = (IF t.kind = "any" THEN AggregateError ELSE Results)
        BY <1>9, <2>1, <2>3, <3>8 DEF Reached
      <4>2. Len(t.ran) = Len(t.inputs) /\ t.result = r
        BY <1>9, <3>3, <3>5, <3>6, <3>8
      <4> QED BY ONLY <3>6, <3>7, <4>1, <4>2 DEF Stated
    <3>9. CASE t.remaining # 0
      <4>1. pr3[r].state = "pending" /\ pr3[r].value = Nothing
        BY <1>9, <2>1, <2>3, <3>9 DEF Reached
      <4>2. Len(t.ran) # Len(t.inputs) /\ t.result = r
        BY <1>9, <3>3, <3>5, <3>6, <3>9
      <4> QED BY ONLY <3>6, <3>7, <4>1, <4>2 DEF Stated
    <3> QED BY <3>8, <3>9
  <2> QED BY <2>2, <2>3
<1> QED BY <1>16, <1>17

\* The job of the capture x was taken: its element has run.
LEMMA RanCounted ==
  ASSUME NEW pr, NEW js, NEW prs, NEW stk, NEW cs, NEW ks, Core(pr, js, prs, stk, cs, ks),
         NEW x \in Int, NEW q, Token(cs, ks, x, q), Loose(pr, js, x), pr[q].state # "pending",
         NEW k, k = -x, NEW c, NEW i, c = ks[k].state, i = ks[k].index, NEW s, s = cs[c],
         NEW t \in Comb, NEW decides, NEW e, Counted(s, t, i, decides, e), Len(t.results) = Len(s.results),
         NEW cs2, cs2 = [cs EXCEPT ![c] = t]
  PROVE  Sound(pr, js, prs, stk, cs2, ks) /\ ReplacedComb(cs, c, t, cs2)
<1>1. /\ Sound(pr, js, prs, stk, cs, ks) /\ Typed(pr, js, prs, stk, cs, ks) /\ pr \in Seq(CPromise)
      /\ cs \in Seq(Comb) /\ ks \in Seq(Cap)
  BY CoreTypes
<1>2. FramesSound(pr, prs, stk, cs, ks) /\ CapsSound(pr, cs, ks) /\ CombsSound(pr, cs, ks)
  BY <1>1 DEF Sound
<1>3. /\ k \in 1..Len(ks) /\ s.inputs[i] = q /\ \A m \in 1..Len(s.ran) : s.ran[m] # i
  BY DEF Token
<1>4. c \in 1..Len(cs)
  BY <1>2, <1>3 DEF CapsSound
<1>5. s \in Comb /\ RanSound(pr, ks, c, s) /\ Len(s.ran) \in Nat
  <2>1. s \in Comb /\ RanSound(pr, ks, c, s)
    BY <1>1, <1>2, <1>4, SeqFacts DEF CombsSound
  <2>2. s.ran \in Seq(Nat)
    BY <2>1 DEF Comb
  <2> QED BY <2>1, <2>2, SeqFacts
<1>6. /\ t.result = s.result /\ t.inputs = s.inputs /\ Len(t.ran) = Len(s.ran) + 1 /\ t.ran[Len(s.ran) + 1] = i
      /\ \A m \in 1..Len(s.ran) : t.ran[m] = s.ran[m]
  BY DEF Counted
<1>7. cs2 \in Seq(Comb) /\ Len(cs2) = Len(cs) /\ cs2[c] = t /\ \A d \in 1..Len(cs) : d # c => cs2[d] = cs[d]
  <2>1. t \in Comb /\ cs2 = [cs EXCEPT ![c] = t]
    OBVIOUS
  <2> QED BY ONLY <1>1, <1>4, <2>1, Replaced
<1>8. ReplacedComb(cs, c, t, cs2)
  BY <1>7 DEF ReplacedComb
<1>9. SameSettled(cs, cs2) /\ FreeKept(pr, cs, pr, cs2)
  BY <1>6, <1>8, ReplacedCombSettles, SettledFree
<1>10. \A d \in 1..Len(cs2) : d \in 1..Len(cs) /\ cs2[d].result = cs[d].result
  BY <1>9 DEF SameSettled
<1>11. \A m \in 1..Len(t.ran) : m \in 1..Len(s.ran) \/ m = Len(s.ran) + 1
  BY <1>5, <1>6
<1>12. \A d \in 1..Len(cs) : cs2[d].inputs = cs[d].inputs
  BY <1>6, <1>7
<1>13. CapsSound(pr, cs2, ks)
  BY <1>2, <1>7, <1>12 DEF CapsSound
<1>14. RanSound(pr, ks, c, t)
  <2>1. \A m \in 1..Len(t.ran) : /\ \E l \in 1..Len(ks) : ks[l].state = c /\ ks[l].index = t.ran[m]
                                 /\ pr[t.inputs[t.ran[m]]].state # "pending"
    <3>1. ASSUME NEW m \in 1..Len(s.ran)
          PROVE  /\ \E l \in 1..Len(ks) : ks[l].state = c /\ ks[l].index = t.ran[m]
                 /\ pr[t.inputs[t.ran[m]]].state # "pending"
      <4>1. t.ran[m] = s.ran[m]
        BY <1>6
      <4>2. /\ \E l \in 1..Len(ks) : ks[l].state = c /\ ks[l].index = s.ran[m]
            /\ pr[s.inputs[s.ran[m]]].state # "pending"
        BY <1>5 DEF RanSound
      <4> QED BY ZenonT(40), <1>6, <4>1, <4>2
    <3>2. ks[k].state = c /\ ks[k].index = t.ran[Len(s.ran) + 1]
          /\ pr[t.inputs[t.ran[Len(s.ran) + 1]]].state # "pending"
      BY <1>3, <1>6
    <3> QED BY ZenonT(40), <1>3, <1>11, <3>1, <3>2
  <2>2. ASSUME NEW l \in 1..Len(t.ran), NEW m \in 1..Len(t.ran), t.ran[l] = t.ran[m]
        PROVE  l = m
    <3>1. CASE l \in 1..Len(s.ran) /\ m \in 1..Len(s.ran)
      <4>1. s.ran[l] = s.ran[m]
        BY SMTT(30), <1>6, <2>2, <3>1
      <4>2. \A a, b \in 1..Len(s.ran) : s.ran[a] = s.ran[b] => a = b
        BY <1>5 DEF RanSound
      <4> QED BY <3>1, <4>1, <4>2
    <3>2. CASE l \in 1..Len(s.ran) /\ m = Len(s.ran) + 1
      BY <1>3, <1>6, <2>2, <3>2
    <3>3. CASE l = Len(s.ran) + 1 /\ m \in 1..Len(s.ran)
      BY <1>3, <1>6, <2>2, <3>3
    <3> QED BY <1>11, <3>1, <3>2, <3>3
  <2> QED BY <2>1, <2>2 DEF RanSound
<1>15. CombsSound(pr, cs2, ks)
  <2>1. ASSUME NEW d \in 1..Len(cs2)
        PROVE  /\ cs2[d].result \in 1..Len(pr) /\ Len(cs2[d].results) = Len(cs2[d].inputs)
               /\ RanSound(pr, ks, d, cs2[d])
    <3>1. CASE d = c
      <4>1. s.result \in 1..Len(pr) /\ Len(s.results) = Len(s.inputs)
        BY <1>2, <1>4 DEF CombsSound
      <4> QED BY SMTT(30), <1>6, <1>7, <1>14, <3>1, <4>1
    <3>2. CASE d # c
      BY <1>2, <1>7, <1>10, <3>2 DEF CombsSound
    <3> QED BY <3>1, <3>2
  <2> QED BY <1>2, <1>10, <2>1 DEF CombsSound
<1>16. TokensKept(pr, js, cs, ks, cs2, ks)
  <2> SUFFICES ASSUME NEW y \in Int, NEW p, Token(cs, ks, y, p), ~Loose(pr, js, y) PROVE Token(cs2, ks, y, p)
    BY DEF TokensKept
  <2>1. PICK l : l = -y
    OBVIOUS
  <2>2. /\ l \in 1..Len(ks) /\ cs[ks[l].state].inputs[ks[l].index] = p
        /\ \A m \in 1..Len(cs[ks[l].state].ran) : cs[ks[l].state].ran[m] # ks[l].index
    BY <2>1 DEF Token
  <2>3. ks[l].state \in 1..Len(cs)
    BY <1>2, <2>2 DEF CapsSound
  <2>4. cs2[ks[l].state].inputs[ks[l].index] = p
    BY <1>12, <2>2, <2>3
  <2>5. CASE ks[l].state # c
    <3>1. cs2[ks[l].state] = cs[ks[l].state]
      BY <1>7, <2>3, <2>5
    <3> QED BY <2>1, <2>2, <3>1 DEF Token
  <2>6. CASE ks[l].state = c
    <3>1. ks[l].index # i
      <4> SUFFICES ASSUME ks[l].index = i PROVE FALSE
        OBVIOUS
      <4>1. l = k
        BY <1>2, <1>3, <2>2, <2>6 DEF CapsSound
      <4>2. -y = -x
        BY <2>1, <4>1
      <4>3. y = x
        BY <4>2
      <4> QED BY <4>3
    <3>2. \A m \in 1..Len(t.ran) : t.ran[m] # ks[l].index
      BY <1>6, <1>11, <2>2, <2>6, <3>1
    <3>3. \A m \in 1..Len(cs2[ks[l].state].ran) : cs2[ks[l].state].ran[m] # ks[l].index
      BY <1>7, <2>6, <3>2
    <3> QED BY <2>1, <2>2, <2>4, <3>3 DEF Token
  <2> QED BY <2>5, <2>6
<1>17. FramesSound(pr, prs, stk, cs2, ks)
  BY <1>2, <1>7, <1>9, FramesKept
<1>18. Typed(pr, js, prs, stk, cs2, ks)
  BY <1>1, <1>7 DEF Typed
<1>19. Extended(pr, pr)
  BY <1>1, SameExtended
<1>20. Sound(pr, js, prs, stk, cs2, ks)
  BY <1>1, <1>9, <1>13, <1>15, <1>16, <1>17, <1>18, <1>19, Rearranged
<1> QED BY <1>8, <1>20

\* p is settled unless it was before
Tried(pr, js, un, prs, stk, cs, ks, p, state, value, pr3, js3) ==
  /\ \E un3 : Settle(HeapOf(pr, js, un), p, state, value) = HeapOf(pr3, js3, un3)
  /\ Sound(pr3, js3, prs, stk, cs, ks) /\ Later(pr, pr3)
  /\ \A q \in 1..Len(pr) : q # p => pr3[q].state = pr[q].state /\ pr3[q].value = pr[q].value
  /\ pr[p].state = "pending" => pr3[p].state = state /\ pr3[p].value = value

\* Settle does that, for a result that only elements settle.
LEMMA Trying ==
  ASSUME NEW pr, NEW js, NEW un, NEW prs, NEW stk, NEW cs, NEW ks, Sound(pr, js, prs, stk, cs, ks),
         NEW p \in 1..Len(pr), NEW state \in {"fulfilled", "rejected"}, NEW value \in CVal
  PROVE  \E pr3, js3 : Tried(pr, js, un, prs, stk, cs, ks, p, state, value, pr3, js3)
<1>1. pr \in Seq(CPromise) /\ js \in Seq(CJob)
  BY DEF Sound, Typed
<1>2. CASE pr[p].state = "pending"
  <2>1. PICK pr3, js3, un3 : /\ Settle(HeapOf(pr, js, un), p, state, value) = HeapOf(pr3, js3, un3)
                             /\ SettledAs(pr, js, p, state, value, pr3, js3)
    <3>1. /\ pr \in Seq(CPromise) /\ js \in Seq(CJob) /\ p \in 1..Len(pr) /\ pr[p].state = "pending"
          /\ state \in {"fulfilled", "rejected"} /\ value \in CVal
      BY <1>1, <1>2
    <3>2. Settles(pr, js, un, p, state, value)
      BY ONLY <3>1, SettledAsLemma
    <3> QED BY <3>2 DEF Settles
  <2>2. Sound(pr3, js3, prs, stk, cs, ks) /\ Later(pr, pr3)
    BY <1>2, <2>1, SettleSound
  <2>3. /\ \A q \in 1..Len(pr) : q # p => pr3[q] = pr[q]
        /\ pr3[p].state = state /\ pr3[p].value = value
    BY <2>1 DEF SettledAs
  <2> QED BY <2>1, <2>2, <2>3 DEF Tried
<1>3. CASE pr[p].state # "pending"
  <2>1. PICK h : h = HeapOf(pr, js, un)
    OBVIOUS
  <2>2. h.prom = pr
    BY <2>1 DEF HeapOf
  <2>3. Settle(h, p, state, value) = h
    BY <1>3, <2>2 DEF Settle
  <2>4. \E un3 : Settle(HeapOf(pr, js, un), p, state, value) = HeapOf(pr, js, un3)
    BY <2>1, <2>3
  <2>5. Later(pr, pr)
    BY <1>1, SameLater
  <2>6. Tried(pr, js, un, prs, stk, cs, ks, p, state, value, pr, js)
    BY <1>3, <2>4, <2>5 DEF Tried
  <2> QED BY <2>6
<1> QED BY <1>2, <1>3

\* The state and the value of a result that all were awaited for
LastState(kind) == IF kind = "any" THEN "rejected" ELSE "fulfilled"
LastValue(kind) == IF kind = "any" THEN AggregateError ELSE Results

\* An element that decides settles the result with the outcome of its input.
LEMMA ElementDecides ==
  ASSUME NEW h, NEW s, NEW i, NEW o \in {"fulfil", "reject"}, NEW v, Decides(s.kind, OutcomeOf(o))
  PROVE  Element(h, s, i, o, v) = [state |-> s, heap |-> Settle(h, s.result, OutcomeOf(o), v)]
<1>1. /\ ~(s.kind = "all" /\ o = "fulfil") /\ ~(s.kind = "any" /\ o = "reject") /\ s.kind # "allSettled"
  BY DEF Decides, OutcomeOf
<1>2. Element(h, s, i, o, v) = SettleResult(h, s, o, v)
  BY <1>1 DEF Element
<1>3. (IF o = "fulfil" THEN "fulfilled" ELSE "rejected") = OutcomeOf(o)
  BY DEF OutcomeOf
<1> QED BY <1>2, <1>3 DEF SettleResult

\* An element that does not decide is counted, and the last one settles the result.
LEMMA ElementCollects ==
  ASSUME NEW h, NEW s \in Comb, NEW i, NEW o \in {"fulfil", "reject"}, NEW v, ~Decides(s.kind, OutcomeOf(o)),
         NEW t, t = Collect(s, i, EntryFor(s.kind, OutcomeOf(o), v))
  PROVE  Element(h, s, i, o, v) =
           [state |-> t, heap |-> IF t.remaining = 0 THEN Settle(h, t.result, LastState(s.kind), LastValue(s.kind)) ELSE h]
<1>1. s.kind \in {"all", "allSettled", "any", "race"}
  BY DEF Comb
<1>2. CASE s.kind = "all"
  <2>1. o = "fulfil"
    BY <1>2 DEF Decides, OutcomeOf
  <2>2. Element(h, s, i, o, v) = AllFulfill(h, s, i, v)
    BY <1>2, <2>1 DEF Element
  <2>3. EntryFor(s.kind, OutcomeOf(o), v) = v /\ LastState(s.kind) = "fulfilled" /\ LastValue(s.kind) = Results
    BY <1>2 DEF EntryFor, LastState, LastValue
  <2> QED BY <2>2, <2>3 DEF AllFulfill, Countdown
<1>3. CASE s.kind = "any"
  <2>1. o = "reject"
    BY <1>3 DEF Decides, OutcomeOf
  <2>2. Element(h, s, i, o, v) = AnyReject(h, s, i, v)
    BY <1>3, <2>1 DEF Element
  <2>3. EntryFor(s.kind, OutcomeOf(o), v) = v /\ LastState(s.kind) = "rejected" /\ LastValue(s.kind) = AggregateError
    BY <1>3 DEF EntryFor, LastState, LastValue
  <2> QED BY <2>2, <2>3 DEF AnyReject, Countdown
<1>4. CASE s.kind = "allSettled"
  <2>1. Element(h, s, i, o, v) = AllSettled(h, s, i, o, v)
    BY <1>4 DEF Element
  <2>2. EntryFor(s.kind, OutcomeOf(o), v) = [status |-> o, value |-> v]
    BY <1>4 DEF EntryFor, OutcomeOf
  <2>3. LastState(s.kind) = "fulfilled" /\ LastValue(s.kind) = Results
    BY <1>4 DEF LastState, LastValue
  <2> QED BY <2>1, <2>2, <2>3 DEF AllSettled, Countdown
<1>5. s.kind # "race"
  BY DEF Decides
<1> QED BY <1>1, <1>2, <1>3, <1>4, <1>5

\* The struct becomes u and, with the history of the element, t.
Counting(s, i, decides, e, u, t) ==
  u = (IF decides THEN s ELSE Collect(s, i, e)) /\ t = [u EXCEPT !.ran = Append(u.ran, i)]

\* What was run counts so.
LEMMA CountedShape ==
  ASSUME NEW s \in Comb, NEW i \in 1..Len(s.inputs), Len(s.results) = Len(s.inputs),
         NEW decides \in BOOLEAN, NEW e \in Entries,
         NEW u, NEW t, Counting(s, i, decides, e, u, t)
  PROVE  t \in Comb /\ Counted(s, t, i, decides, e) /\ Len(t.results) = Len(s.results) /\ t.remaining = u.remaining
<1>0. u = (IF decides THEN s ELSE Collect(s, i, e)) /\ t = [u EXCEPT !.ran = Append(u.ran, i)]
  BY DEF Counting
<1> USE <1>0
<1>1. s.ran \in Seq(Nat) /\ s.results \in Seq(Entries) /\ s.remaining \in Int /\ s.inputs \in Seq(CVal)
  BY DEF Comb
<1>2. Len(s.inputs) \in Nat /\ i \in Nat
  BY <1>1, SeqFacts
<1>3. PICK ran : ran = Append(s.ran, i)
  OBVIOUS
<1>4. /\ ran \in Seq(Nat) /\ Len(ran) = Len(s.ran) + 1 /\ ran[Len(s.ran) + 1] = i
      /\ \A m \in 1..Len(s.ran) : ran[m] = s.ran[m]
  BY <1>1, <1>2, <1>3, AppendProperties
<1>5. CASE decides
  <2>1. u = s /\ t = [s EXCEPT !.ran = ran]
    BY <1>3, <1>5
  <2>2. /\ t \in Comb /\ t.kind = s.kind /\ t.result = s.result /\ t.inputs = s.inputs /\ t.ran = ran
        /\ t.remaining = s.remaining /\ t.results = s.results
    BY <1>4, <2>1 DEF Comb
  <2> QED BY <1>4, <1>5, <2>1, <2>2 DEF Counted
<1>6. CASE ~decides
  <2>1. PICK rs, re : rs = [s.results EXCEPT ![i] = e] /\ re = s.remaining - 1
    OBVIOUS
  <2>2. /\ rs \in Seq(Entries) /\ Len(rs) = Len(s.results) /\ rs[i] = e
        /\ \A l \in 1..Len(s.results) : l # i => rs[l] = s.results[l]
    <3>1. i \in 1..Len(s.results) /\ e \in Entries
      OBVIOUS
    <3>2. rs = [s.results EXCEPT ![i] = e]
      BY <2>1
    <3> QED BY ONLY <1>1, <3>1, <3>2, Replaced
  <2>3. re \in Int
    BY <1>1, <2>1
  <2>4. u = [s EXCEPT !.results = rs, !.remaining = re]
    BY <1>6, <2>1 DEF Collect
  <2>5. u.ran = s.ran /\ u.remaining = re
    BY <2>4 DEF Comb
  <2>6. t = [u EXCEPT !.ran = ran]
    BY <1>3, <2>5
  <2>7. /\ u \in Comb /\ u.kind = s.kind /\ u.result = s.result /\ u.inputs = s.inputs
        /\ u.remaining = re /\ u.results = rs
    BY <2>2, <2>3, <2>4 DEF Comb
  <2>8. /\ t \in Comb /\ t.kind = s.kind /\ t.result = s.result /\ t.inputs = s.inputs /\ t.ran = ran
        /\ t.remaining = re /\ t.results = rs
    BY <1>4, <2>6, <2>7 DEF Comb
  <2>9. Counted(s, t, i, decides, e)
    BY <1>4, <1>6, <2>1, <2>2, <2>8 DEF Counted
  <2> QED BY <2>2, <2>5, <2>8, <2>9
<1> QED BY <1>5, <1>6

\* Combinator c went on to t; its result may have been settled.
LEMMA ElementStated ==
  ASSUME NEW pr, NEW js, NEW prs, NEW stk, NEW cs, NEW ks, Core(pr, js, prs, stk, cs, ks),
         NEW c \in 1..Len(cs), NEW t, NEW cs2, ReplacedComb(cs, c, t, cs2), NEW r, r = cs[c].result,
         NEW pr3, NEW js3, Sound(pr3, js3, prs, stk, cs2, ks), Later(pr, pr3),
         \A q \in 1..Len(pr) : q # r => pr3[q].state = pr[q].state /\ pr3[q].value = pr[q].value,
         Stated(pr3, t)
  PROVE  Core(pr3, js3, prs, stk, cs2, ks)
<1>1. CapsSound(pr, cs, ks) /\ CombsSound(pr, cs, ks)
  BY DEF Core, Sound
<1>2. Len(cs2) = Len(cs) /\ cs2[c] = t /\ \A d \in 1..Len(cs) : d # c => cs2[d] = cs[d]
  BY DEF ReplacedComb
<1>3. ASSUME NEW d \in 1..Len(cs), d # c PROVE Stated(pr3, cs[d])
  <2>1. PICK s : s = cs[d]
    OBVIOUS
  <2>2. Stated(pr, s) /\ s.result \in 1..Len(pr) /\ s.result # r
    BY <1>1, <1>3, <2>1 DEF Core, CombsSound
  <2>3. pr3[s.result].state = pr[s.result].state /\ pr3[s.result].value = pr[s.result].value
    BY <2>2
  <2>4. Stated(pr3, s)
    BY <1>1, <2>1, <2>2, <2>3, StatedLater
  <2> QED BY <2>1, <2>4
<1>4. \A d \in 1..Len(cs2) : Stated(pr3, cs2[d])
  BY <1>2, <1>3
<1> QED BY <1>4 DEF Core

\* The job of an element runs.
LEMMA RunElementCore ==
  ASSUME CInv, RunElement
  PROVE  CInv'
<1>1. PICK j, k, c, i, s, q, js :
        /\ j = Head(jobs) /\ k = -j.chained /\ c = caps[k].state /\ i = caps[k].index /\ s = combs[c]
        /\ q = j.from /\ js = Tail(jobs)
  OBVIOUS
<1>2. PICK done, u, t : /\ done = Element(Dequeued, s, i, j.kind, j.value) /\ u = done.state
                        /\ t = [u EXCEPT !.ran = Append(u.ran, i)]
  OBVIOUS
<1>3. /\ jobs # <<>> /\ j.handler = "element" /\ combs' = [combs EXCEPT ![c] = t] /\ SetHeap(done.heap)
      /\ pairs' = pairs /\ stack' = stack /\ caps' = caps
  BY <1>1, <1>2 DEF RunElement
<1>4. /\ Core(prom, js, pairs, stack, combs, caps) /\ j \in CJob /\ JobSound(prom, combs, caps, j)
      /\ Loose(prom, js, j.chained) /\ Dequeued = HeapOf(prom, js, unhandled)
  BY <1>1, <1>3, TakenCore
<1>5. /\ j.kind \in {"fulfil", "reject"} /\ q \in 1..Len(prom) /\ Token(combs, caps, j.chained, q)
      /\ prom[q].state = OutcomeOf(j.kind) /\ prom[q].value = j.value /\ prom[q].state # "pending"
      /\ prom[q].state \in {"fulfilled", "rejected"} /\ j.value \in CVal /\ j.chained \in Int
  <2>1. /\ j.kind # "thenable" /\ j.from \in 1..Len(prom) /\ Token(combs, caps, j.chained, j.from)
        /\ prom[j.from].state = OutcomeOf(j.kind) /\ prom[j.from].value = j.value
    BY <1>3, <1>4 DEF JobSound
  <2>2. j.kind \in {"fulfil", "reject", "thenable"} /\ j.value \in CVal /\ j.chained \in Int
    BY <1>4 DEF CJob
  <2> QED BY <1>1, <2>1, <2>2 DEF OutcomeOf
<1>6. /\ Sound(prom, js, pairs, stack, combs, caps) /\ combs \in Seq(Comb) /\ prom \in Seq(CPromise)
      /\ CapsSound(prom, combs, caps) /\ CombsSound(prom, combs, caps)
  BY SMTT(30), <1>4, CoreTypes DEF Sound
<1>7. /\ k \in 1..Len(caps) /\ s.inputs[i] = q /\ \A m \in 1..Len(s.ran) : s.ran[m] # i
  BY ZenonT(40), <1>1, <1>5 DEF Token
<1>8. c \in 1..Len(combs) /\ i \in 1..Len(s.inputs)
  BY <1>1, <1>6, <1>7 DEF CapsSound
<1>9. s \in Comb /\ Len(s.results) = Len(s.inputs) /\ s.result \in 1..Len(prom) /\ Stated(prom, s)
  BY <1>1, <1>4, <1>6, <1>8, SeqFacts DEF CombsSound, Core
<1>10. PICK decides, e : /\ decides = Decides(s.kind, prom[q].state)
                         /\ e = EntryFor(s.kind, OutcomeOf(j.kind), j.value)
  OBVIOUS
<1>11. decides \in BOOLEAN /\ e \in Entries /\ e = EntryOf(prom, s, i)
  <2>1. e = EntryOf(prom, s, i)
    BY <1>5, <1>7, <1>10, EntryIs
  <2>2. e \in Entries
    BY <1>5, <1>10 DEF EntryFor, Entries
  <2> QED BY <1>10, <2>1, <2>2 DEF Decides
<1>12. u = (IF decides THEN s ELSE Collect(s, i, e))
       /\ done.heap = IF decides THEN Settle(Dequeued, s.result, prom[q].state, j.value)
                      ELSE IF u.remaining = 0 THEN Settle(Dequeued, u.result, LastState(s.kind), LastValue(s.kind))
                      ELSE Dequeued
  <2>1. CASE decides
    <3>1. done = [state |-> s, heap |-> Settle(Dequeued, s.result, OutcomeOf(j.kind), j.value)]
      <4>1. PICK o, v : o = j.kind /\ v = j.value
        OBVIOUS
      <4>2. o \in {"fulfil", "reject"} /\ Decides(s.kind, OutcomeOf(o))
        BY <1>5, <1>10, <2>1, <4>1
      <4>3. Element(Dequeued, s, i, o, v) = [state |-> s, heap |-> Settle(Dequeued, s.result, OutcomeOf(o), v)]
        BY ONLY <4>2, ElementDecides
      <4> QED BY <1>2, <4>1, <4>3
    <3> QED BY <1>2, <1>5, <2>1, <3>1
  <2>2. CASE ~decides
    <3>1. PICK w : w = Collect(s, i, e)
      OBVIOUS
    <3>2. done = [state |-> w, heap |-> IF w.remaining = 0 THEN Settle(Dequeued, w.result, LastState(s.kind), LastValue(s.kind))
                                        ELSE Dequeued]
      <4>1. PICK o, v : o = j.kind /\ v = j.value
        OBVIOUS
      <4>2. /\ s \in Comb /\ o \in {"fulfil", "reject"} /\ ~Decides(s.kind, OutcomeOf(o))
            /\ w = Collect(s, i, EntryFor(s.kind, OutcomeOf(o), v))
        BY <1>5, <1>9, <1>10, <2>2, <3>1, <4>1
      <4>3. Element(Dequeued, s, i, o, v) =
              [state |-> w, heap |-> IF w.remaining = 0
                                     THEN Settle(Dequeued, w.result, LastState(s.kind), LastValue(s.kind)) ELSE Dequeued]
        BY ONLY <4>2, ElementCollects
      <4> QED BY <1>2, <4>1, <4>3
    <3> QED BY <1>2, <2>2, <3>1, <3>2
  <2> QED BY <2>1, <2>2
<1>13. t \in Comb /\ Counted(s, t, i, decides, e) /\ Len(t.results) = Len(s.results) /\ t.remaining = u.remaining
  <2>1. /\ s \in Comb /\ i \in 1..Len(s.inputs) /\ Len(s.results) = Len(s.inputs) /\ decides \in BOOLEAN
        /\ e \in Entries /\ Counting(s, i, decides, e, u, t)
    BY <1>2, <1>8, <1>9, <1>11, <1>12 DEF Counting
  <2> QED BY ONLY <2>1, CountedShape
<1>14. t.result = s.result /\ t.kind = s.kind /\ u.result = s.result
  <2>1. t.result = s.result /\ t.kind = s.kind
    BY <1>13 DEF Counted
  <2>2. u.result = s.result
    BY <1>9, <1>12 DEF Collect, Comb
  <2> QED BY <2>1, <2>2
<1>15. Sound(prom, js, pairs, stack, combs', caps) /\ ReplacedComb(combs, c, t, combs')
  <2>1. PICK x, cs2 : x = j.chained /\ cs2 = combs'
    OBVIOUS
  <2>2. /\ Core(prom, js, pairs, stack, combs, caps) /\ x \in Int /\ Token(combs, caps, x, q) /\ Loose(prom, js, x)
        /\ prom[q].state # "pending" /\ k = -x /\ c = caps[k].state /\ i = caps[k].index /\ s = combs[c]
        /\ t \in Comb /\ Counted(s, t, i, decides, e) /\ Len(t.results) = Len(s.results)
        /\ cs2 = [combs EXCEPT ![c] = t]
    BY <1>1, <1>3, <1>4, <1>5, <1>13, <2>1
  <2>3. Sound(prom, js, pairs, stack, cs2, caps) /\ ReplacedComb(combs, c, t, cs2)
    BY ONLY ZenonT(40), <2>2, RanCounted
  <2> QED BY <2>1, <2>3
<1>16. \E pr3, js3 :
         /\ prom' = pr3 /\ jobs' = js3
         /\ Sound(pr3, js3, pairs, stack, combs', caps) /\ Later(prom, pr3)
         /\ \A p \in 1..Len(prom) : p # s.result => pr3[p].state = prom[p].state /\ pr3[p].value = prom[p].value
         /\ Reached(prom, pr3, t, decides, prom[q].state, prom[q].value)
  <2>1. ASSUME NEW st \in {"fulfilled", "rejected"}, NEW v \in CVal, done.heap = Settle(Dequeued, s.result, st, v)
        PROVE  \E pr3, js3 :
                 /\ prom' = pr3 /\ jobs' = js3
                 /\ Sound(pr3, js3, pairs, stack, combs', caps) /\ Later(prom, pr3)
                 /\ \A p \in 1..Len(prom) : p # s.result => pr3[p].state = prom[p].state /\ pr3[p].value = prom[p].value
                 /\ prom[s.result].state = "pending" => pr3[s.result].state = st /\ pr3[s.result].value = v
    <3>1. PICK pr3, js3 : Tried(prom, js, unhandled, pairs, stack, combs', caps, s.result, st, v, pr3, js3)
      BY <1>9, <1>15, Trying
    <3>2. PICK un3 : Settle(HeapOf(prom, js, unhandled), s.result, st, v) = HeapOf(pr3, js3, un3)
      BY <3>1 DEF Tried
    <3>3. SetHeap(HeapOf(pr3, js3, un3))
      BY <1>3, <1>4, <2>1, <3>2
    <3>4. prom' = pr3 /\ jobs' = js3
      BY <3>3, SetIs
    <3> QED BY <3>1, <3>4 DEF Tried
  <2>2. CASE decides
    <3>1. done.heap = Settle(Dequeued, s.result, prom[q].state, j.value)
      BY <1>12, <2>2
    <3>2. PICK pr3, js3 :
            /\ prom' = pr3 /\ jobs' = js3
            /\ Sound(pr3, js3, pairs, stack, combs', caps) /\ Later(prom, pr3)
            /\ \A p \in 1..Len(prom) : p # s.result => pr3[p].state = prom[p].state /\ pr3[p].value = prom[p].value
            /\ prom[s.result].state = "pending" => pr3[s.result].state = prom[q].state /\ pr3[s.result].value = j.value
      BY <1>5, <2>1, <3>1
    <3>3. Reached(prom, pr3, t, decides, prom[q].state, prom[q].value)
      BY <1>5, <1>14, <2>2, <3>2 DEF Reached
    <3> QED BY <3>2, <3>3
  <2>3. CASE ~decides /\ u.remaining = 0
    <3>1. done.heap = Settle(Dequeued, s.result, LastState(s.kind), LastValue(s.kind))
      BY <1>12, <1>14, <2>3
    <3>2. LastState(s.kind) \in {"fulfilled", "rejected"} /\ LastValue(s.kind) \in CVal
      BY DEF LastState, LastValue, CVal
    <3>3. PICK pr3, js3 :
            /\ prom' = pr3 /\ jobs' = js3
            /\ Sound(pr3, js3, pairs, stack, combs', caps) /\ Later(prom, pr3)
            /\ \A p \in 1..Len(prom) : p # s.result => pr3[p].state = prom[p].state /\ pr3[p].value = prom[p].value
            /\ prom[s.result].state = "pending" =>
                 pr3[s.result].state = LastState(s.kind) /\ pr3[s.result].value = LastValue(s.kind)
      BY <2>1, <3>1, <3>2
    <3>4. Reached(prom, pr3, t, decides, prom[q].state, prom[q].value)
      BY <1>13, <1>14, <2>3, <3>3 DEF Reached, LastState, LastValue
    <3> QED BY <3>3, <3>4
  <2>4. CASE ~decides /\ u.remaining # 0
    <3>1. SetHeap(HeapOf(prom, js, unhandled))
      BY <1>3, <1>4, <1>12, <2>4
    <3>2. prom' = prom /\ jobs' = js
      BY <3>1, SetIs
    <3>3. Reached(prom, prom, t, decides, prom[q].state, prom[q].value)
      BY <1>13, <2>4 DEF Reached
    <3>4. Later(prom, prom)
      BY <1>6, SameLater
    <3> QED BY <1>15, <3>2, <3>3, <3>4
  <2> QED BY <2>2, <2>3, <2>4
<1>17. PICK pr3, js3 :
         /\ prom' = pr3 /\ jobs' = js3
         /\ Sound(pr3, js3, pairs, stack, combs', caps) /\ Later(prom, pr3)
         /\ \A p \in 1..Len(prom) : p # s.result => pr3[p].state = prom[p].state /\ pr3[p].value = prom[p].value
         /\ Reached(prom, pr3, t, decides, prom[q].state, prom[q].value)
  BY <1>16
<1>18. Stated(pr3, t)
  <2>1. /\ Later(prom, pr3) /\ CapsSound(prom, combs, caps) /\ CombsSound(prom, combs, caps) /\ combs \in Seq(Comb)
        /\ c \in 1..Len(combs) /\ s = combs[c] /\ Stated(prom, s) /\ i \in 1..Len(s.inputs)
        /\ (\A m \in 1..Len(s.ran) : s.ran[m] # i) /\ q \in 1..Len(prom) /\ s.inputs[i] = q
        /\ prom[q].state # "pending" /\ Counted(s, t, i, decides, e) /\ decides = Decides(s.kind, prom[q].state)
        /\ e = EntryOf(prom, s, i) /\ Reached(prom, pr3, t, decides, prom[q].state, prom[q].value)
    BY <1>1, <1>5, <1>6, <1>7, <1>8, <1>9, <1>10, <1>11, <1>13, <1>17
  <2> QED BY ONLY SMTT(30), <2>1, RanStated
<1>19. Core(pr3, js3, pairs, stack, combs', caps)
  <2>1. PICK cs2, r : cs2 = combs' /\ r = combs[c].result
    OBVIOUS
  <2>2. \A p \in 1..Len(prom) : p # r => pr3[p].state = prom[p].state /\ pr3[p].value = prom[p].value
    BY SMTT(30), <1>1, <1>17, <2>1
  <2>3. /\ Core(prom, js, pairs, stack, combs, caps) /\ c \in 1..Len(combs) /\ ReplacedComb(combs, c, t, cs2)
        /\ r = combs[c].result /\ Sound(pr3, js3, pairs, stack, cs2, caps) /\ Later(prom, pr3) /\ Stated(pr3, t)
    BY <1>1, <1>4, <1>8, <1>15, <1>17, <1>18, <2>1
  <2>4. Core(pr3, js3, pairs, stack, cs2, caps)
    BY ONLY <2>2, <2>3, ElementStated
  <2> QED BY <2>1, <2>4
<1> QED BY <1>3, <1>17, <1>19 DEF CInv

\* Nothing has been called yet.
LEMMA CInitLemma == CInit => CInv
<1> SUFFICES ASSUME CInit PROVE CInv
  OBVIOUS
<1>1. PICK f : f = Frame("main", 0, 0, Nothing)
  OBVIOUS
<1>2. /\ prom = <<>> /\ jobs = <<>> /\ pairs = <<>> /\ stack = <<f>> /\ combs = <<>> /\ caps = <<>>
  BY <1>1 DEF CInit, Init
<1>3. f \in CFrame /\ f.kind = "main"
  BY <1>1 DEF Frame, CFrame, CVal
<1>4. Typed(prom, jobs, pairs, stack, combs, caps)
  BY <1>2, <1>3 DEF Typed
<1>5. /\ Len(prom) = 0 /\ Len(jobs) = 0 /\ Len(pairs) = 0 /\ Len(combs) = 0 /\ Len(caps) = 0
      /\ Len(stack) = 1 /\ stack[1] = f
  BY <1>2
<1>6. FramesSound(prom, pairs, stack, combs, caps)
  BY <1>3, <1>5 DEF FramesSound, FrameSound
<1>7. Sound(prom, jobs, pairs, stack, combs, caps)
  BY <1>4, <1>5, <1>6 DEF Sound, ListsSound, JobsSound, PairsFree, CapsSound, CombsSound
<1> QED BY <1>5, <1>7 DEF CInv, Core

\* Every step keeps the invariant.
LEMMA CStep == CInv /\ [CNext]_cvars => CInv'
<1> SUFFICES ASSUME CInv, [CNext]_cvars PROVE CInv'
  OBVIOUS
<1>1. CASE Next /\ UNCHANGED <<combs, caps>>
  BY <1>1, PromiseStep
<1>2. ASSUME NEW kind \in Kinds, NEW inputs \in Vectors, NewCombinator(kind, inputs) PROVE CInv'
  BY <1>2, NewCombinatorCore
<1>3. CASE WrapInput
  BY <1>3, WrapInputCore
<1>4. CASE SubscribeInput
  BY <1>4, SubscribeInputCore
<1>5. CASE LoopDone
  BY <1>5, LoopDoneCore
<1>6. CASE RunElement
  BY <1>6, RunElementCore
<1>7. CASE UNCHANGED cvars
  BY <1>7 DEF cvars, vars, CInv
<1> QED BY <1>1, <1>2, <1>3, <1>4, <1>5, <1>6, <1>7 DEF CNext, Loop

\* The inductive invariant of the promises with the combinators on them.
THEOREM CombinatorInvariance == CSpec => []CInv
BY CInitLemma, CStep, PTL DEF CSpec

-----------------------------------------------------------------------------
(* What the invariant says of a result *)

\* The definition of the property and that of the invariant agree.
LEMMA DecisiveIs ==
  ASSUME NEW s \in Comb
  PROVE  Decisive(s) = Deciding(prom, s)
<1>1. s.kind \in {"all", "allSettled", "any", "race"} /\ s.ran \in Seq(Nat)
  BY DEF Comb
<1>2. DOMAIN s.ran = 1..Len(s.ran)
  BY <1>1, SeqFacts
<1>3. CASE s.kind = "all"
  BY <1>2, <1>3 DEF Decisive, Deciding, InputState
<1>4. CASE s.kind = "any"
  BY <1>2, <1>4 DEF Decisive, Deciding, InputState
<1>5. CASE s.kind = "race"
  BY <1>2, <1>5 DEF Decisive, Deciding, InputState
<1>6. CASE s.kind = "allSettled"
  BY <1>2, <1>6 DEF Decisive, Deciding, InputState
<1> QED BY <1>1, <1>3, <1>4, <1>5, <1>6

\* The result is what is expected of it.
LEMMA ExpectedNow ==
  ASSUME NEW s \in Comb, Stated(prom, s)
  PROVE  [state |-> prom[s.result].state, value |-> prom[s.result].value] = Expected(s)
<1>1. PICK D, first : D = Decisive(s) /\ first = CHOOSE k \in D : \A l \in D : k <= l
  OBVIOUS
<1>2. D = Deciding(prom, s) /\ D \subseteq 1..Len(s.ran)
  BY <1>1, DecisiveIs DEF Deciding
<1>3. Expected(s) =
        CASE D # {} -> [state |-> prom[s.inputs[s.ran[first]]].state, value |-> prom[s.inputs[s.ran[first]]].value]
          [] Complete(s) -> [state |-> IF s.kind = "any" THEN "rejected" ELSE "fulfilled",
                             value |-> IF s.kind = "any" THEN AggregateError ELSE Results]
          [] OTHER -> [state |-> "pending", value |-> Nothing]
  BY <1>1 DEF Expected
<1>4. Complete(s) <=> s.kind # "race" /\ D = {} /\ Len(s.ran) = Len(s.inputs)
  BY <1>1 DEF Complete
<1>5. CASE D # {}
  <2>1. PICK m \in D : /\ \A l \in D : m <= l
                       /\ prom[s.result].state = prom[s.inputs[s.ran[m]]].state
                       /\ prom[s.result].value = prom[s.inputs[s.ran[m]]].value
    BY <1>2, <1>5 DEF Stated
  <2>2. first \in D /\ \A l \in D : first <= l
    BY <1>1, <2>1
  <2>3. first = m
    <3>1. first <= m /\ m <= first
      BY <2>1, <2>2
    <3>2. \A k \in D : k \in Int
      BY <1>2
    <3> QED BY <2>2, <3>1, <3>2
  <2>4. Expected(s) = [state |-> prom[s.inputs[s.ran[first]]].state, value |-> prom[s.inputs[s.ran[first]]].value]
    BY <1>3, <1>4, <1>5
  <2> QED BY <2>1, <2>3, <2>4
<1>6. CASE D = {} /\ Complete(s)
  <2>1. Deciding(prom, s) = {} /\ s.kind # "race" /\ Len(s.ran) = Len(s.inputs)
    BY <1>2, <1>4, <1>6
  <2>2. /\ prom[s.result].state = (IF s.kind = "any" THEN "rejected" ELSE "fulfilled")
        /\ prom[s.result].value = (IF s.kind = "any" THEN AggregateError ELSE Results)
    BY <2>1 DEF Stated
  <2> QED BY <1>3, <1>6, <2>2
<1>7. CASE D = {} /\ ~Complete(s)
  <2>1. prom[s.result].state = "pending" /\ prom[s.result].value = Nothing
    BY <1>2, <1>4, <1>7 DEF Stated
  <2> QED BY <1>3, <1>7, <2>1
<1> QED BY <1>5, <1>6, <1>7

\* All inputs are in the vector, each in its place: as many elements have run as
\* there are inputs, each for another one.
LEMMA CollectedNow ==
  ASSUME CInv, NEW c \in 1..Len(combs), NEW s, s = combs[c], Complete(s), NEW i \in 1..Len(s.inputs)
  PROVE  s.results[i] = EntryOf(prom, s, i)
<1>1. /\ CapsSound(prom, combs, caps) /\ CombsSound(prom, combs, caps) /\ combs \in Seq(Comb) /\ Stated(prom, s)
  BY CoreTypes DEF CInv, Sound, Core
<1>2. s \in Comb /\ RanSound(prom, caps, c, s)
  BY <1>1, SeqFacts DEF CombsSound
<1>3. /\ Deciding(prom, s) = {} /\ s.kind # "race" /\ Len(s.ran) = Len(s.inputs)
  BY <1>2, DecisiveIs DEF Complete
<1>4. PICK n, ran : n = Len(s.ran) /\ ran = s.ran
  OBVIOUS
<1>5. n \in Nat
  <2>1. s.ran \in Seq(Nat)
    BY <1>2 DEF Comb
  <2> QED BY <1>4, <2>1, SeqFacts
<1>6. \A m \in 1..n : ran[m] \in 1..n
  BY <1>1, <1>2, <1>3, <1>4, RanInput
<1>7. \A l, m \in 1..n : ran[l] = ran[m] => l = m
  BY <1>2, <1>4 DEF RanSound
<1>8. PICK m \in 1..n : ran[m] = i
  <2> SUFFICES ASSUME \A m \in 1..n : ran[m] # i PROVE FALSE
    OBVIOUS
  <2>1. i \in 1..n
    BY <1>3, <1>4
  <2>2. \A m \in 1..n : ran[m] # i
    OBVIOUS
  <2>3. n < n
    BY ONLY <1>5, <1>6, <1>7, <2>1, <2>2, Pigeons
  <2> QED BY <1>5, <2>3
<1>9. \A l \in 1..Len(s.ran) : s.results[s.ran[l]] = EntryOf(prom, s, s.ran[l])
  BY <1>1, <1>3 DEF Stated
<1> QED BY <1>4, <1>8, <1>9

\* The result of a combinator is at all times what the elements that have run make
\* of it, and the vector has every input's outcome in the place of the input,
\* whatever the number of combinators, inputs and promises, one the input of
\* another included.
THEOREM Outcomes == CSpec => []CombinatorOutcome
<1>1. CInv => CombinatorOutcome
  <2> SUFFICES ASSUME CInv, NEW c \in DOMAIN combs, NEW s, s = combs[c]
               PROVE  /\ [state |-> prom[s.result].state, value |-> prom[s.result].value] = Expected(s)
                      /\ \A k, l \in DOMAIN s.ran : s.ran[k] = s.ran[l] => k = l
                      /\ Complete(s) =>
                           \A i \in DOMAIN s.inputs :
                             s.results[i] = IF s.kind = "allSettled"
                                            THEN [status |-> IF InputState(s, i) = "fulfilled" THEN "fulfil" ELSE "reject",
                                                  value |-> prom[s.inputs[i]].value]
                                            ELSE prom[s.inputs[i]].value
    BY DEF CombinatorOutcome
  <2>1. combs \in Seq(Comb) /\ CombsSound(prom, combs, caps) /\ \A d \in 1..Len(combs) : Stated(prom, combs[d])
    BY CoreTypes DEF CInv, Sound, Core
  <2>2. c \in 1..Len(combs)
    BY <2>1, SeqFacts
  <2>3. s \in Comb /\ Stated(prom, s) /\ RanSound(prom, caps, c, s)
    BY <2>1, <2>2, SeqFacts DEF CombsSound
  <2>4. DOMAIN s.ran = 1..Len(s.ran) /\ DOMAIN s.inputs = 1..Len(s.inputs)
    <3>1. s.ran \in Seq(Nat) /\ s.inputs \in Seq(CVal)
      BY <2>3 DEF Comb
    <3> QED BY <3>1, SeqFacts
  <2>5. [state |-> prom[s.result].state, value |-> prom[s.result].value] = Expected(s)
    BY <2>3, ExpectedNow
  <2>6. \A k, l \in DOMAIN s.ran : s.ran[k] = s.ran[l] => k = l
    BY <2>3, <2>4 DEF RanSound
  <2>7. ASSUME Complete(s), NEW i \in DOMAIN s.inputs
        PROVE  s.results[i] = IF s.kind = "allSettled"
                              THEN [status |-> IF InputState(s, i) = "fulfilled" THEN "fulfil" ELSE "reject",
                                    value |-> prom[s.inputs[i]].value]
                              ELSE prom[s.inputs[i]].value
    <3>1. s.results[i] = EntryOf(prom, s, i)
      BY <2>2, <2>4, <2>7, CollectedNow
    <3> QED BY <3>1 DEF EntryOf, InputState
  <2> QED BY <2>5, <2>6, <2>7
<1> QED BY <1>1, CombinatorInvariance, PTL

=============================================================================
