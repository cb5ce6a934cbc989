------------------------- MODULE CompilerPoolProofs -------------------------
(***************************************************************************)
(* For every number of forks, jobs, retries and failures: a submitted job  *)
(* is in one place and answered once, no process goes on unseen, and       *)
(* shutdown() resolves only when the processes of every generation have    *)
(* closed.                                                                 *)
(*                                                                         *)
(* The first lemmas are about dispatch(): the free forks and the front of  *)
(* the queue are matched one to one.  The others say what each handler's   *)
(* change of the pool record does to the places of the jobs; the           *)
(* invariance proof then follows the actions.                              *)
(***************************************************************************)
EXTENDS CompilerPool, SequenceTheorems, NatFacts

(* Types that do not depend on the state *)

ForkRec == [proc : Nat, busy : BOOLEAN, ready : BOOLEAN, active : Jobs \cup {NoJob}]

PoolRec ==
  [forks : [Forks -> ForkRec], queue : Seq(Jobs), pending : SUBSET Jobs, nextId : Nat,
   attempts : [Jobs -> Nat], retries : [Jobs -> Nat],
   readyCount : Nat, waiter : {"none", "waiting", "resolved"},
   shuttingDown : BOOLEAN, shutdown : {"none", "waiting", "resolved", "rejected"}]

StateRec == [pool : PoolRec, children : Seq(ChildState)]

-----------------------------------------------------------------------------
(* The inductive invariant *)

\* The pool record p, with the answers a: a fork that has a job is busy; a job has one
\* place; counting a job's turns by its retries is what bounds its attempts.
BusyOK(p) == \A f \in Forks : p.forks[f].active # NoJob => p.forks[f].busy

ActiveOK(p, a) ==
  \A f \in Forks : p.forks[f].active # NoJob =>
    /\ p.forks[f].active <= p.nextId /\ a[p.forks[f].active] = <<>>
    /\ \A g \in Forks : p.forks[g].active = p.forks[f].active => g = f
    /\ \A k \in 1..Len(p.queue) : p.queue[k] # p.forks[f].active

QueueOK(p, a) ==
  \A k \in 1..Len(p.queue) :
    /\ p.queue[k] <= p.nextId /\ a[p.queue[k]] = <<>>
    /\ p.attempts[p.queue[k]] <= p.retries[p.queue[k]]
    /\ \A l \in 1..Len(p.queue) : p.queue[l] = p.queue[k] => l = k

PlacedOK(p, a) ==
  \A j \in Jobs : IF j <= p.nextId
                  THEN \/ \E f \in Forks : p.forks[f].active = j
                       \/ \E k \in 1..Len(p.queue) : p.queue[k] = j
                       \/ Len(a[j]) = 1
                  ELSE a[j] = <<>> /\ p.attempts[j] = 0

CountOK(p) ==
  /\ p.nextId <= MaxJobs
  /\ \A j \in Jobs : p.attempts[j] <= p.retries[j] + 1 /\ p.retries[j] <= MaxRetries

PendingOK(p) == \A j \in Jobs : j \in p.pending <=> \E f \in Forks : p.forks[f].active = j

JobsOK(p, a) ==
  ActiveOK(p, a) /\ QueueOK(p, a) /\ PlacedOK(p, a) /\ CountOK(p) /\ PendingOK(p)

\* The processes cs of the pool record p: those that are alive and were not told to
\* end are owned.
ProcsOK(p, cs) ==
  /\ \A f \in Forks : p.forks[f].proc \in 1..Len(cs)
  /\ \A q \in 1..Len(cs) : Alive(cs[q]) /\ ~cs[q].killed =>
       ~p.shuttingDown /\ \E f \in Forks : p.forks[f].proc = q
  /\ p.shutdown # "none" => p.shuttingDown
  /\ p.shutdown = "resolved" => \A q \in 1..Len(cs) : cs[q].closed

\* A process says "ready" first, and once; a closed one is dead.
ChannelOK(c) ==
  /\ c.closed => ~Alive(c)
  /\ c.status = "starting" => c.out = <<>>
  /\ \A k \in 2..Len(c.out) : c.out[k].type # "ready"
  /\ \A k \in 1..Len(c.out) : c.out[k].type = "result" => c.out[k].job # NoJob

\* The first processes of the pool that may still count as ready.
MayCount(c) ==
  c.initial /\ (c.status = "starting" \/ (c.out # <<>> /\ c.out[1].type = "ready"))

MayGetReady(cs) == {q \in 1..Len(cs) : MayCount(cs[q])}

ReadyOK(p, cs) ==
  /\ \A q \in 1..Len(cs) : ChannelOK(cs[q])
  /\ p.readyCount + Cardinality(MayGetReady(cs)) <= Size

StateOK(s, a) ==
  /\ s \in StateRec
  /\ a \in [Jobs -> Seq(Results)]
  /\ BusyOK(s.pool) /\ JobsOK(s.pool, a)
  /\ ProcsOK(s.pool, s.children)
  /\ ReadyOK(s.pool, s.children)

IInv == StateOK(State, answers) /\ failures \in 0..MaxFailures

-----------------------------------------------------------------------------
(* dispatch() hands the front of the queue to the free forks, one to one *)

LEMMA TurnLemma ==
  ASSUME NEW s, Len(s.pool.queue) \in Nat
  PROVE  LET n == Cardinality(Taking(s))
         IN  /\ n \in Nat /\ n <= Len(s.pool.queue)
             /\ \A f \in Taking(s) : Turn(s, f) \in 1..n
             /\ \A f, g \in Taking(s) : Turn(s, f) = Turn(s, g) => f = g
             /\ \A k \in 1..n : \E f \in Taking(s) : Turn(s, f) = k
<1> DEFINE F == Free(s)
           N == Cardinality(F)
           L == Len(s.pool.queue)
           T == Taking(s)
           upto(f) == {g \in F : g <= f}
           M == IF N <= L THEN N ELSE L
<1>0. F \subseteq 1..Size /\ Size \in Nat
  BY PoolAssumption DEF Free, Forks
<1>1. IsFiniteSet(F) /\ N \in Nat /\ F \subseteq Nat
  <2>1. IsFiniteSet(1..Size)
    BY <1>0, FS_Interval
  <2> HIDE DEF F
  <2>2. IsFiniteSet(F)
    BY <1>0, <2>1, FS_Subset
  <2> QED BY <1>0, <2>2, FS_CardinalityType
<1> HIDE DEF F
<1>2. \A f \in F : IsFiniteSet(upto(f)) /\ Cardinality(upto(f)) \in Nat /\ Cardinality(upto(f)) <= N
  <2> TAKE f \in F
  <2>1. upto(f) \in SUBSET F
    OBVIOUS
  <2> QED BY <1>1, <2>1, FS_Subset, FS_CardinalityType
<1>3. \A f \in F : Turn(s, f) = Cardinality(upto(f))
  BY DEF Turn, F
<1>4. \A f \in F : Turn(s, f) \in 1..N
  <2> TAKE f \in F
  <2>1. f \in upto(f)
    BY <1>1
  <2>2. Cardinality(upto(f)) # 0
    BY <1>2, <2>1, FS_EmptySet
  <2> QED BY <1>1, <1>2, <1>3, <2>2, SMTT(30)
<1>5. \A f, g \in F : f < g => Turn(s, f) < Turn(s, g)
  <2> SUFFICES ASSUME NEW f \in F, NEW g \in F, f < g
               PROVE  Cardinality(upto(f)) < Cardinality(upto(g))
    BY <1>3
  <2>0. f \in Nat /\ g \in Nat
    BY <1>1
  <2>1. upto(f) \in SUBSET upto(g)
    <3> SUFFICES ASSUME NEW h \in F, h <= f PROVE h <= g
      OBVIOUS
    <3>1. h \in Nat
      BY <1>1
    <3> QED BY <2>0, <3>1
  <2>2. g \in upto(g) /\ g \notin upto(f)
    BY <2>0
  <2>3. upto(f) # upto(g)
    BY <2>2
  <2>4. /\ Cardinality(upto(f)) <= Cardinality(upto(g))
        /\ Cardinality(upto(f)) # Cardinality(upto(g))
    <3> HIDE DEF upto
    <3> QED BY <1>2, <2>1, <2>3, FS_Subset
  <2>5. PICK a, b \in Nat : a = Cardinality(upto(f)) /\ b = Cardinality(upto(g))
    BY <1>2
  <2>6. a < b
    BY <2>4, <2>5
  <2> QED BY <2>5, <2>6
<1>6. \A f, g \in F : Turn(s, f) = Turn(s, g) => f = g
  <2> SUFFICES ASSUME NEW f \in F, NEW g \in F, Turn(s, f) = Turn(s, g), f # g PROVE FALSE
    OBVIOUS
  <2>1. f \in Nat /\ g \in Nat /\ Turn(s, f) \in Nat /\ Turn(s, g) \in Nat
    BY <1>1, <1>4
  <2>2. f < g \/ g < f
    BY <2>1
  <2> QED BY <1>5, <2>1, <2>2
<1>7. \A k \in 1..N : \E f \in F : Turn(s, f) = k
  <2> DEFINE t == [f \in F |-> Turn(s, f)]
  <2>1. t \in Injection(F, 1..N)
    BY <1>4, <1>6 DEF Injection, IsInjective
  <2>2. IsFiniteSet(1..N) /\ Cardinality(1..N) = N
    BY <1>1, FS_Interval
  <2> HIDE DEF t
  <2>3. t \in Surjection(F, 1..N)
    BY <2>1, <2>2, FS_Injection
  <2> QED BY <2>3 DEF Surjection, t
<1>8. T = {f \in F : Turn(s, f) <= L}
  BY DEF Taking, F
<1>9. M \in Nat /\ M <= L /\ M <= N
  BY <1>1
<1>10. \A f \in T : Turn(s, f) \in 1..M
  <2> TAKE f \in T
  <2>1. Turn(s, f) \in 1..N /\ Turn(s, f) <= L
    BY <1>4, <1>8
  <2> QED BY <1>1, <2>1
<1>11. \A k \in 1..M : \E f \in T : Turn(s, f) = k
  <2> TAKE k \in 1..M
  <2>1. k \in 1..N /\ k <= L
    BY <1>1, <1>9
  <2>2. PICK f \in F : Turn(s, f) = k
    BY <1>7, <2>1
  <2> QED BY <1>8, <2>1, <2>2
<1>12. Cardinality(T) = M
  <2> DEFINE t == [f \in T |-> Turn(s, f)]
  <2>1. t \in Bijection(T, 1..M)
    <3>1. t \in [T -> 1..M]
      BY <1>10
    <3>2. IsInjective(t)
      BY <1>6, <1>8 DEF IsInjective
    <3>3. \A k \in 1..M : \E f \in T : t[f] = k
      BY <1>11
    <3> QED BY <3>1, <3>2, <3>3 DEF Bijection, Injection, Surjection
  <2>2. IsFiniteSet(T)
    <3>1. T \in SUBSET F
      BY <1>8
    <3> QED BY <1>1, <3>1, FS_Subset
  <2>3. Cardinality(1..M) = M
    BY <1>9, FS_Interval
  <2> HIDE DEF t, T, M
  <2>4. ExistsBijection(T, 1..M)
    BY <2>1 DEF ExistsBijection
  <2> QED BY <2>2, <2>3, <2>4, FS_Bijection
<1> HIDE DEF T, M
<1>13. \A f, g \in T : Turn(s, f) = Turn(s, g) => f = g
  BY <1>6, <1>8
<1> QED BY <1>9, <1>10, <1>11, <1>12, <1>13 DEF T

-----------------------------------------------------------------------------
(* What the handlers do to the places of the jobs *)

LEMMA JobFacts ==
  /\ \A j \in Jobs : j \in Nat \ {0} /\ j # NoJob
  /\ NoJob \notin Jobs
  /\ MaxJobs \in Nat /\ MaxRetries \in Nat /\ Size \in Nat
  /\ \A n \in Nat : n < MaxJobs => n + 1 \in Jobs
<1>1. Jobs \subseteq Nat
  BY PoolAssumption DEF Jobs
<1> QED BY <1>1, PoolAssumption DEF Jobs

\* The fields of q that say where jobs are, except the forks, are those of p.
SameQueue(p, q) ==
  /\ q.nextId = p.nextId /\ q.attempts = p.attempts
  /\ q.queue = p.queue /\ q.retries = p.retries

\* Fork f of q has no job; the other forks have what they have in p.
Relieved(p, q, f) ==
  /\ q.forks[f].active = NoJob
  /\ \A g \in Forks \ {f} : q.forks[g].active = p.forks[g].active

LEMMA JobsSame ==
  ASSUME NEW p \in PoolRec, NEW q \in PoolRec, NEW a \in [Jobs -> Seq(Results)], JobsOK(p, a),
         SameQueue(p, q), q.pending = p.pending,
         \A f \in Forks : q.forks[f].active = p.forks[f].active
  PROVE  JobsOK(q, a)
<1>1. ActiveOK(q, a)
  BY DEF JobsOK, SameQueue, ActiveOK
<1>2. QueueOK(q, a)
  BY DEF JobsOK, SameQueue, QueueOK
<1>3. PlacedOK(q, a)
  BY DEF JobsOK, SameQueue, PlacedOK
<1>4. CountOK(q) /\ PendingOK(q)
  BY SMTT(30) DEF JobsOK, SameQueue, CountOK, PendingOK
<1> QED BY <1>1, <1>2, <1>3, <1>4 DEF JobsOK

\* What the lemmas on the job j of fork f have in common: the other forks keep theirs.
OthersKeep(p, q, a, f, j) ==
  /\ a[j] = <<>> /\ j # NoJob /\ j <= p.nextId
  /\ p.queue \in Seq(Jobs) /\ Len(p.queue) \in Nat
  /\ \A k \in 1..Len(p.queue) : p.queue[k] \in Jobs \ {j}
  /\ \A g \in Forks : q.forks[g].active # NoJob =>
       g # f /\ q.forks[g].active \in Jobs \ {j} /\ q.forks[g].active = p.forks[g].active
  /\ \A i \in Jobs \ {j} : (\E g \in Forks : p.forks[g].active = i)
                             => \E g \in Forks : q.forks[g].active = i

LEMMA RelievedLemma ==
  ASSUME NEW p \in PoolRec, NEW q \in PoolRec, NEW a \in [Jobs -> Seq(Results)], JobsOK(p, a),
         NEW f \in Forks, NEW j \in Jobs, p.forks[f].active = j,
         Relieved(p, q, f), q.pending = p.pending \ {j}
  PROVE  OthersKeep(p, q, a, f, j) /\ PendingOK(q)
<1>1. a[j] = <<>> /\ j # NoJob /\ j <= p.nextId
  BY JobFacts DEF JobsOK, ActiveOK
<1>2. p.queue \in Seq(Jobs) /\ Len(p.queue) \in Nat
  BY DEF PoolRec
<1>3. \A k \in 1..Len(p.queue) : p.queue[k] \in Jobs \ {j}
  BY SMTT(30), <1>1, <1>2 DEF JobsOK, ActiveOK
<1>4. \A g \in Forks \ {f} : p.forks[g].active # j
  BY <1>1 DEF JobsOK, ActiveOK
<1>5. \A g \in Forks : q.forks[g].active # NoJob =>
        g # f /\ q.forks[g].active \in Jobs \ {j} /\ q.forks[g].active = p.forks[g].active
  <2>1. \A g \in Forks : q.forks[g].active \in Jobs \cup {NoJob}
    BY DEF PoolRec, ForkRec
  <2> QED BY <1>4, <2>1 DEF Relieved
<1>6. \A i \in Jobs \ {j} : (\E g \in Forks : p.forks[g].active = i) => (\E g \in Forks : q.forks[g].active = i)
  BY JobFacts DEF Relieved
<1>7. PendingOK(q)
  <2> SUFFICES ASSUME NEW i \in Jobs PROVE i \in q.pending <=> \E g \in Forks : q.forks[g].active = i
    BY DEF PendingOK
  <2>1. CASE i = j
    BY <1>5, <2>1, JobFacts
  <2>2. CASE i # j
    <3>1. i \in p.pending <=> \E g \in Forks : p.forks[g].active = i
      BY DEF JobsOK, PendingOK
    <3>2. (\E g \in Forks : p.forks[g].active = i) <=> (\E g \in Forks : q.forks[g].active = i)
      <4>1. i \in Jobs \ {j} /\ i # NoJob
        BY <2>2, JobFacts
      <4>2. ASSUME NEW g \in Forks, q.forks[g].active = i PROVE p.forks[g].active = i
        BY ONLY <1>5, <4>1, <4>2, g \in Forks
      <4> QED BY ONLY <1>6, <4>1, <4>2
    <3> QED BY <2>2, <3>1, <3>2
  <2> QED BY <2>1, <2>2
<1> QED BY <1>1, <1>2, <1>3, <1>5, <1>6, <1>7 DEF OthersKeep

\* A job is answered, and its fork has none.
LEMMA JobsAnswer ==
  ASSUME NEW p \in PoolRec, NEW q \in PoolRec, NEW a \in [Jobs -> Seq(Results)], JobsOK(p, a),
         NEW f \in Forks, NEW j \in Jobs, p.forks[f].active = j, NEW r \in Results,
         SameQueue(p, q), Relieved(p, q, f), q.pending = p.pending \ {j},
         NEW b, b = [a EXCEPT ![j] = Append(@, r)]
  PROVE  b \in [Jobs -> Seq(Results)] /\ JobsOK(q, b)
<1>0. OthersKeep(p, q, a, f, j) /\ PendingOK(q)
  BY RelievedLemma
<1>1. /\ a[j] = <<>> /\ j # NoJob /\ j <= p.nextId
      /\ p.queue \in Seq(Jobs) /\ Len(p.queue) \in Nat
      /\ \A k \in 1..Len(p.queue) : p.queue[k] \in Jobs \ {j}
      /\ \A g \in Forks : q.forks[g].active # NoJob =>
           g # f /\ q.forks[g].active \in Jobs \ {j} /\ q.forks[g].active = p.forks[g].active
      /\ \A i \in Jobs \ {j} : (\E g \in Forks : p.forks[g].active = i)
                                 => \E g \in Forks : q.forks[g].active = i
  BY <1>0 DEF OthersKeep
<1>2. b \in [Jobs -> Seq(Results)] /\ Len(b[j]) = 1 /\ \A i \in Jobs \ {j} : b[i] = a[i]
  BY <1>1
<1>3. ActiveOK(q, b)
  <2> SUFFICES ASSUME NEW g \in Forks, q.forks[g].active # NoJob
               PROVE  /\ q.forks[g].active <= q.nextId /\ b[q.forks[g].active] = <<>>
                      /\ \A h \in Forks : q.forks[h].active = q.forks[g].active => h = g
                      /\ \A k \in 1..Len(q.queue) : q.queue[k] # q.forks[g].active
    BY DEF ActiveOK
  <2>1. /\ q.forks[g].active = p.forks[g].active /\ q.forks[g].active \in Jobs \ {j}
        /\ \A h \in Forks : q.forks[h].active = q.forks[g].active => q.forks[h].active = p.forks[h].active
    BY <1>1
  <2>2. /\ q.forks[g].active <= p.nextId /\ a[q.forks[g].active] = <<>>
        /\ \A h \in Forks : q.forks[h].active = q.forks[g].active => h = g
        /\ \A k \in 1..Len(p.queue) : p.queue[k] # q.forks[g].active
    BY <2>1 DEF JobsOK, ActiveOK
  <2> QED BY <1>2, <2>1, <2>2 DEF SameQueue
<1>4. QueueOK(q, b)
  <2>1. \A k \in 1..Len(p.queue) : b[p.queue[k]] = a[p.queue[k]]
    BY <1>1, <1>2
  <2> QED BY <2>1 DEF JobsOK, SameQueue, QueueOK
<1>5. PlacedOK(q, b)
  <2> SUFFICES ASSUME NEW i \in Jobs
               PROVE  IF i <= q.nextId
                      THEN \/ \E g \in Forks : q.forks[g].active = i
                           \/ \E k \in 1..Len(q.queue) : q.queue[k] = i
                           \/ Len(b[i]) = 1
                      ELSE b[i] = <<>> /\ q.attempts[i] = 0
    BY DEF PlacedOK
  <2>1. CASE i = j
    BY <1>1, <1>2, <2>1 DEF SameQueue
  <2>2. CASE i # j
    <3>1. IF i <= p.nextId
          THEN \/ \E g \in Forks : p.forks[g].active = i
               \/ \E k \in 1..Len(p.queue) : p.queue[k] = i
               \/ Len(a[i]) = 1
          ELSE a[i] = <<>> /\ p.attempts[i] = 0
      BY DEF JobsOK, PlacedOK
    <3> QED BY SMTT(30), <1>1, <1>2, <2>2, <3>1 DEF SameQueue
  <2> QED BY <2>1, <2>2
<1>6. CountOK(q)
  BY DEF JobsOK, CountOK, SameQueue
<1> QED BY <1>0, <1>2, <1>3, <1>4, <1>5, <1>6 DEF JobsOK

\* An interrupted job goes back to the front of the queue.
LEMMA JobsRetry ==
  ASSUME NEW p \in PoolRec, NEW q \in PoolRec, NEW a \in [Jobs -> Seq(Results)], JobsOK(p, a),
         NEW f \in Forks, NEW j \in Jobs, p.forks[f].active = j, p.retries[j] < MaxRetries,
         q.nextId = p.nextId, q.attempts = p.attempts, Relieved(p, q, f),
         q.queue = <<j>> \o p.queue, q.retries = [p.retries EXCEPT ![j] = @ + 1],
         q.pending = p.pending \ {j}
  PROVE  JobsOK(q, a)
<1>0. OthersKeep(p, q, a, f, j) /\ PendingOK(q)
  BY RelievedLemma
<1>1. /\ a[j] = <<>> /\ j # NoJob /\ j <= p.nextId
      /\ p.queue \in Seq(Jobs) /\ Len(p.queue) \in Nat
      /\ \A k \in 1..Len(p.queue) : p.queue[k] \in Jobs \ {j}
      /\ \A g \in Forks : q.forks[g].active # NoJob =>
           g # f /\ q.forks[g].active \in Jobs \ {j} /\ q.forks[g].active = p.forks[g].active
      /\ \A i \in Jobs \ {j} : (\E g \in Forks : p.forks[g].active = i)
                                 => \E g \in Forks : q.forks[g].active = i
  BY <1>0 DEF OthersKeep
<1>2. /\ Len(q.queue) = Len(p.queue) + 1 /\ q.queue[1] = j /\ 1 \in 1..Len(q.queue)
      /\ \A k \in 1..Len(q.queue) :
           k = 1 \/ (k - 1 \in 1..Len(p.queue) /\ q.queue[k] = p.queue[k - 1])
      /\ \A k \in 1..Len(p.queue) : k + 1 \in 1..Len(q.queue) /\ q.queue[k + 1] = p.queue[k]
  BY SMTT(30), <1>1
<1>3. \A i \in Jobs : /\ p.retries[i] \in Nat /\ p.attempts[i] \in Nat
                      /\ q.retries[i] = IF i = j THEN p.retries[i] + 1 ELSE p.retries[i]
  BY SMTT(60) DEF PoolRec
<1>4. ActiveOK(q, a)
  <2> SUFFICES ASSUME NEW g \in Forks, q.forks[g].active # NoJob
               PROVE  /\ q.forks[g].active <= q.nextId /\ a[q.forks[g].active] = <<>>
                      /\ \A h \in Forks : q.forks[h].active = q.forks[g].active => h = g
                      /\ \A k \in 1..Len(q.queue) : q.queue[k] # q.forks[g].active
    BY DEF ActiveOK
  <2>1. /\ q.forks[g].active = p.forks[g].active /\ q.forks[g].active # j
        /\ \A h \in Forks : q.forks[h].active = q.forks[g].active => q.forks[h].active = p.forks[h].active
    BY <1>1
  <2>2. /\ q.forks[g].active <= q.nextId /\ a[q.forks[g].active] = <<>>
        /\ \A h \in Forks : q.forks[h].active = q.forks[g].active => h = g
        /\ \A k \in 1..Len(p.queue) : p.queue[k] # q.forks[g].active
    BY <2>1 DEF JobsOK, ActiveOK
  <2> QED BY <1>2, <2>1, <2>2
<1>5. QueueOK(q, a)
  <2> SUFFICES ASSUME NEW k \in 1..Len(q.queue)
               PROVE  /\ q.queue[k] <= q.nextId /\ a[q.queue[k]] = <<>>
                      /\ q.attempts[q.queue[k]] <= q.retries[q.queue[k]]
                      /\ \A l \in 1..Len(q.queue) : q.queue[l] = q.queue[k] => l = k
    BY DEF QueueOK
  <2>1. CASE k = 1
    <3>1. p.attempts[j] <= p.retries[j] + 1
      BY DEF JobsOK, CountOK
    <3>2. \A l \in 1..Len(q.queue) : q.queue[l] = q.queue[k] => l = k
      <4> TAKE l \in 1..Len(q.queue)
      <4>1. l = 1 \/ q.queue[l] \in Jobs \ {j}
        <5> SUFFICES ASSUME l # 1 PROVE q.queue[l] \in Jobs \ {j}
          OBVIOUS
        <5>1. l - 1 \in 1..Len(p.queue) /\ q.queue[l] = p.queue[l - 1]
          BY <1>2
        <5>2. p.queue[l - 1] \in Jobs \ {j}
          BY <1>1, <5>1
        <5> QED BY <5>1, <5>2
      <4> QED BY <1>2, <2>1, <4>1
    <3>3. q.retries[j] = p.retries[j] + 1
      BY <1>3
    <3> QED BY <1>1, <1>2, <2>1, <3>1, <3>2, <3>3
  <2>2. CASE k # 1
    <3>1. PICK m \in 1..Len(p.queue) : m = k - 1 /\ q.queue[k] = p.queue[m] /\ p.queue[m] \in Jobs \ {j}
      BY <1>1, <1>2, <2>2
    <3>2. /\ p.queue[m] <= p.nextId /\ a[p.queue[m]] = <<>>
          /\ p.attempts[p.queue[m]] <= p.retries[p.queue[m]]
          /\ \A l \in 1..Len(p.queue) : p.queue[l] = p.queue[m] => l = m
      BY DEF JobsOK, QueueOK
    <3>3. \A l \in 1..Len(q.queue) : q.queue[l] = q.queue[k] => l = k
      <4> TAKE l \in 1..Len(q.queue)
      <4> HAVE q.queue[l] = q.queue[k]
      <4>1. l - 1 \in 1..Len(p.queue) /\ p.queue[l - 1] = p.queue[m]
        BY <1>2, <3>1
      <4>2. l - 1 = m
        BY <3>2, <4>1
      <4> QED BY <3>1, <4>2
    <3> QED BY <1>3, <3>1, <3>2, <3>3
  <2> QED BY <2>1, <2>2
<1>6. PlacedOK(q, a)
  <2> SUFFICES ASSUME NEW i \in Jobs
               PROVE  IF i <= q.nextId
                      THEN \/ \E g \in Forks : q.forks[g].active = i
                           \/ \E k \in 1..Len(q.queue) : q.queue[k] = i
                           \/ Len(a[i]) = 1
                      ELSE a[i] = <<>> /\ q.attempts[i] = 0
    BY DEF PlacedOK
  <2>1. CASE i = j
    BY <1>1, <1>2, <2>1
  <2>2. CASE i # j
    <3>1. (\E k \in 1..Len(p.queue) : p.queue[k] = i) => (\E k \in 1..Len(q.queue) : q.queue[k] = i)
      BY <1>2
    <3>2. IF i <= p.nextId
          THEN \/ \E g \in Forks : p.forks[g].active = i
               \/ \E k \in 1..Len(p.queue) : p.queue[k] = i
               \/ Len(a[i]) = 1
          ELSE a[i] = <<>> /\ p.attempts[i] = 0
      BY DEF JobsOK, PlacedOK
    <3> QED BY <1>1, <2>2, <3>1, <3>2
  <2> QED BY <2>1, <2>2
<1>7. CountOK(q)
  BY <1>3, JobFacts, SMTT(30) DEF JobsOK, CountOK
<1> QED BY <1>0, <1>4, <1>5, <1>6, <1>7 DEF JobsOK

\* A new job enters at the end of the queue.
LEMMA JobsEnqueue ==
  ASSUME NEW p \in PoolRec, NEW q \in PoolRec, NEW a \in [Jobs -> Seq(Results)], JobsOK(p, a),
         p.nextId < MaxJobs, q.nextId = p.nextId + 1, q.queue = Append(p.queue, p.nextId + 1),
         q.forks = p.forks, q.attempts = p.attempts, q.retries = p.retries, q.pending = p.pending
  PROVE  JobsOK(q, a)
<1>1. PICK n \in Nat : n = p.nextId
  BY DEF PoolRec
<1>2. PICK j \in Jobs : j = n + 1
  BY <1>1, JobFacts
<1>3. /\ p.queue \in Seq(Jobs) /\ Len(p.queue) \in Nat
      /\ p.retries \in [Jobs -> Nat] /\ p.attempts \in [Jobs -> Nat]
      /\ \A g \in Forks : p.forks[g].active \in Jobs \cup {NoJob}
  BY SMTT(30) DEF PoolRec, ForkRec
<1>4. /\ Len(q.queue) = Len(p.queue) + 1 /\ q.queue[Len(p.queue) + 1] = j
      /\ Len(p.queue) + 1 \in 1..Len(q.queue)
      /\ \A k \in 1..Len(p.queue) : k \in 1..Len(q.queue) /\ q.queue[k] = p.queue[k]
      /\ \A k \in 1..Len(q.queue) : k = Len(p.queue) + 1 \/ k \in 1..Len(p.queue)
  BY <1>1, <1>2, <1>3, SMTT(30)
<1>5. a[j] = <<>> /\ p.attempts[j] <= p.retries[j]
  <2>1. ~(j <= n)
    BY <1>2
  <2>2. a[j] = <<>> /\ p.attempts[j] = 0
    BY <1>1, <2>1 DEF JobsOK, PlacedOK
  <2> QED BY <1>3, <2>2
<1>6. \A i \in Jobs : i <= n => i <= n + 1 /\ i # j
  BY <1>2, JobFacts
<1>7. \A i \in Jobs : i <= n + 1 => i <= n \/ i = j
  BY <1>2, JobFacts
<1>8. \A g \in Forks : p.forks[g].active # NoJob => p.forks[g].active \in Jobs /\ p.forks[g].active <= n
  BY <1>1, <1>3 DEF JobsOK, ActiveOK
<1>9. \A k \in 1..Len(p.queue) : p.queue[k] \in Jobs /\ p.queue[k] <= n
  BY <1>1, <1>3 DEF JobsOK, QueueOK
<1>10. ActiveOK(q, a)
  BY <1>1, <1>4, <1>6, <1>8, SMTT(30) DEF JobsOK, ActiveOK
<1>11. QueueOK(q, a)
  <2> SUFFICES ASSUME NEW k \in 1..Len(q.queue)
               PROVE  /\ q.queue[k] <= n + 1 /\ a[q.queue[k]] = <<>>
                      /\ q.attempts[q.queue[k]] <= q.retries[q.queue[k]]
                      /\ \A l \in 1..Len(q.queue) : q.queue[l] = q.queue[k] => l = k
    BY <1>1 DEF QueueOK
  <2>1. CASE k = Len(p.queue) + 1
    BY <1>2, <1>4, <1>5, <1>6, <1>9, <2>1
  <2>2. CASE k \in 1..Len(p.queue)
    <3>1. /\ a[p.queue[k]] = <<>> /\ p.attempts[p.queue[k]] <= p.retries[p.queue[k]]
          /\ \A l \in 1..Len(p.queue) : p.queue[l] = p.queue[k] => l = k
      BY <2>2 DEF JobsOK, QueueOK
    <3>2. p.queue[k] <= n + 1 /\ p.queue[k] # j
      BY <1>6, <1>9, <2>2
    <3> QED BY <1>4, <2>2, <3>1, <3>2
  <2> QED BY <1>4, <2>1, <2>2
<1>12. PlacedOK(q, a)
  <2> SUFFICES ASSUME NEW i \in Jobs
               PROVE  IF i <= n + 1
                      THEN \/ \E g \in Forks : q.forks[g].active = i
                           \/ \E k \in 1..Len(q.queue) : q.queue[k] = i
                           \/ Len(a[i]) = 1
                      ELSE a[i] = <<>> /\ q.attempts[i] = 0
    BY <1>1 DEF PlacedOK
  <2>1. CASE i = j
    BY <1>2, <1>4, <2>1
  <2>2. CASE i # j /\ i <= n
    BY <1>1, <1>4, <1>6, <2>2 DEF JobsOK, PlacedOK
  <2>3. CASE i # j /\ ~(i <= n)
    BY <1>1, <1>7, <2>3 DEF JobsOK, PlacedOK
  <2> QED BY <2>1, <2>2, <2>3
<1>13. CountOK(q)
  BY <1>1, JobFacts DEF JobsOK, CountOK
<1>14. PendingOK(q)
  BY DEF JobsOK, PendingOK
<1> QED BY <1>10, <1>11, <1>12, <1>13, <1>14 DEF JobsOK

\* From p to q the front of the queue, of length n, goes to the forks of T: fork f gets
\* the t[f]-th job.
Dispatched(p, q, n, T, t) ==
  /\ n <= Len(p.queue) /\ t \in [T -> 1..n]
  /\ \A f, g \in T : t[f] = t[g] => f = g
  /\ \A k \in 1..n : \E f \in T : t[f] = k
  /\ \A f \in T : p.forks[f].active = NoJob
  /\ q.nextId = p.nextId /\ q.retries = p.retries
  /\ q.queue = SubSeq(p.queue, n + 1, Len(p.queue))
  /\ \A f \in T : q.forks[f].active = p.queue[t[f]]
  /\ \A f \in Forks \ T : q.forks[f].active = p.forks[f].active
  /\ \A f \in T : q.attempts[p.queue[t[f]]] = p.attempts[p.queue[t[f]]] + 1
  /\ \A j \in Jobs : (\A f \in T : p.queue[t[f]] # j) => q.attempts[j] = p.attempts[j]
  /\ q.pending = p.pending \cup {p.queue[t[f]] : f \in T}

LEMMA JobsDispatch ==
  ASSUME NEW p \in PoolRec, NEW q \in PoolRec, NEW a \in [Jobs -> Seq(Results)], JobsOK(p, a),
         NEW n \in Nat, NEW T \in SUBSET Forks, NEW t, Dispatched(p, q, n, T, t)
  PROVE  JobsOK(q, a)
<1> USE DEF Dispatched
<1>1. PICK L \in Nat : L = Len(p.queue) /\ p.queue \in Seq(Jobs) /\ \A k \in 1..L : p.queue[k] \in Jobs
  BY DEF PoolRec
<1>2. \A f \in T : t[f] \in 1..L /\ t[f] <= n
  BY <1>1
<1>3. /\ Len(q.queue) = L - n
      /\ \A k \in 1..Len(q.queue) : k + n \in 1..L /\ k + n > n /\ q.queue[k] = p.queue[k + n]
      /\ \A k \in 1..L : k <= n \/ (k - n \in 1..Len(q.queue) /\ q.queue[k - n] = p.queue[k])
  BY <1>1
<1>4. \A k \in 1..L :
        /\ p.queue[k] <= p.nextId /\ a[p.queue[k]] = <<>>
        /\ p.attempts[p.queue[k]] <= p.retries[p.queue[k]]
        /\ \A l \in 1..L : p.queue[l] = p.queue[k] => l = k
  BY <1>1 DEF JobsOK, QueueOK
<1>5. \A f \in Forks : p.forks[f].active # NoJob =>
        /\ f \notin T /\ q.forks[f].active = p.forks[f].active
        /\ p.forks[f].active <= p.nextId /\ a[p.forks[f].active] = <<>>
        /\ \A g \in Forks : p.forks[g].active = p.forks[f].active => g = f
        /\ \A k \in 1..L : p.queue[k] # p.forks[f].active
  BY <1>1 DEF JobsOK, ActiveOK
<1>6. \A f \in T : q.forks[f].active = p.queue[t[f]] /\ q.forks[f].active \in Jobs
  BY <1>1, <1>2
<1>7. ActiveOK(q, a)
  <2> SUFFICES ASSUME NEW f \in Forks, q.forks[f].active # NoJob
               PROVE  /\ q.forks[f].active <= q.nextId /\ a[q.forks[f].active] = <<>>
                      /\ \A g \in Forks : q.forks[g].active = q.forks[f].active => g = f
                      /\ \A k \in 1..Len(q.queue) : q.queue[k] # q.forks[f].active
    BY DEF ActiveOK
  <2>1. CASE f \in T
    <3>1. PICK m \in 1..L : m = t[f] /\ m <= n /\ q.forks[f].active = p.queue[m]
      BY <1>2, <1>6, <2>1
    <3>2. \A g \in Forks : q.forks[g].active = p.queue[m] => g = f
      <4> TAKE g \in Forks
      <4> HAVE q.forks[g].active = p.queue[m]
      <4>1. p.queue[m] \in Jobs
        BY <1>1
      <4>2. CASE g \in T
        <5>1. p.queue[t[g]] = p.queue[m] /\ t[g] \in 1..L
          BY <1>2, <1>6, <4>2
        <5> QED BY <1>4, <2>1, <3>1, <4>2, <5>1
      <4>3. CASE g \notin T
        BY <1>5, <4>1, <4>3, JobFacts, SMTT(30)
      <4> QED BY <4>2, <4>3
    <3>3. \A k \in 1..Len(q.queue) : q.queue[k] # p.queue[m]
      <4> TAKE k \in 1..Len(q.queue)
      <4>1. k + n \in 1..L /\ k + n > n /\ q.queue[k] = p.queue[k + n]
        BY <1>3
      <4>2. k + n # m
        BY <3>1, <4>1
      <4> QED BY <1>4, <4>1, <4>2
    <3> QED BY <1>4, <3>1, <3>2, <3>3
  <2>2. CASE f \notin T
    <3>1. q.forks[f].active = p.forks[f].active /\ p.forks[f].active # NoJob
      BY <2>2
    <3>2. \A g \in Forks : q.forks[g].active = q.forks[f].active => g = f
      <4> TAKE g \in Forks
      <4> HAVE q.forks[g].active = q.forks[f].active
      <4>1. g \notin T
        BY <1>2, <1>5, <1>6, <3>1, SMTT(30)
      <4> QED BY <1>5, <3>1, <4>1
    <3> QED BY <1>3, <1>5, <3>1, <3>2, SMTT(30)
  <2> QED BY <2>1, <2>2
<1>8. QueueOK(q, a)
  <2> SUFFICES ASSUME NEW k \in 1..Len(q.queue)
               PROVE  /\ q.queue[k] <= q.nextId /\ a[q.queue[k]] = <<>>
                      /\ q.attempts[q.queue[k]] <= q.retries[q.queue[k]]
                      /\ \A l \in 1..Len(q.queue) : q.queue[l] = q.queue[k] => l = k
    BY DEF QueueOK
  <2>1. PICK m \in 1..L : m = k + n /\ m > n /\ q.queue[k] = p.queue[m] /\ p.queue[m] \in Jobs
    BY <1>1, <1>3
  <2>2. ~\E f \in T : p.queue[t[f]] = p.queue[m]
    <3> SUFFICES ASSUME NEW f \in T, p.queue[t[f]] = p.queue[m] PROVE FALSE
      OBVIOUS
    <3>1. t[f] = m
      BY <1>2, <1>4
    <3> QED BY <1>2, <2>1, <3>1
  <2>3. q.attempts[p.queue[m]] = p.attempts[p.queue[m]]
    BY <2>1, <2>2
  <2>4. \A l \in 1..Len(q.queue) : q.queue[l] = q.queue[k] => l = k
    <3> TAKE l \in 1..Len(q.queue)
    <3> HAVE q.queue[l] = q.queue[k]
    <3>1. l + n = m
      BY <1>3, <1>4, <2>1
    <3> QED BY <2>1, <3>1
  <2>5. /\ p.queue[m] <= p.nextId /\ a[p.queue[m]] = <<>>
        /\ p.attempts[p.queue[m]] <= p.retries[p.queue[m]]
    BY <1>4
  <2> QED BY <2>1, <2>3, <2>4, <2>5
<1>9. PlacedOK(q, a)
  <2> SUFFICES ASSUME NEW i \in Jobs
               PROVE  IF i <= q.nextId
                      THEN \/ \E g \in Forks : q.forks[g].active = i
                           \/ \E k \in 1..Len(q.queue) : q.queue[k] = i
                           \/ Len(a[i]) = 1
                      ELSE a[i] = <<>> /\ q.attempts[i] = 0
    BY DEF PlacedOK
  <2>1. IF i <= p.nextId
        THEN \/ \E g \in Forks : p.forks[g].active = i
             \/ \E k \in 1..L : p.queue[k] = i
             \/ Len(a[i]) = 1
        ELSE a[i] = <<>> /\ p.attempts[i] = 0
    BY <1>1 DEF JobsOK, PlacedOK
  <2>2. (\E g \in Forks : p.forks[g].active = i) => \E g \in Forks : q.forks[g].active = i
    <3> SUFFICES ASSUME NEW g \in Forks, p.forks[g].active = i PROVE q.forks[g].active = i
      OBVIOUS
    <3> QED BY <1>5, JobFacts
  <2>3. ASSUME NEW k \in 1..L, p.queue[k] = i
        PROVE  (\E g \in Forks : q.forks[g].active = i) \/ (\E m \in 1..Len(q.queue) : q.queue[m] = i)
    <3>1. CASE k <= n
      <4>1. PICK f \in T : t[f] = k
        BY <3>1
      <4> QED BY <1>6, <2>3, <4>1
    <3>2. CASE ~(k <= n)
      BY <1>3, <2>3, <3>2
    <3> QED BY <3>1, <3>2
  <2>4. ~(i <= p.nextId) => q.attempts[i] = p.attempts[i]
    BY <1>2, <1>4
  <2> QED BY <2>1, <2>2, <2>3, <2>4
<1>10. CountOK(q)
  <2>1. \A j \in Jobs : /\ p.attempts[j] \in Nat /\ p.retries[j] \in Nat
                        /\ p.attempts[j] <= p.retries[j] + 1 /\ p.retries[j] <= MaxRetries
    BY DEF JobsOK, CountOK, PoolRec
  <2>2. \A j \in Jobs : q.attempts[j] <= p.retries[j] + 1
    <3> TAKE j \in Jobs
    <3>1. CASE \E f \in T : p.queue[t[f]] = j
      <4>1. PICK f \in T : p.queue[t[f]] = j
        BY <3>1
      <4>2. p.attempts[j] <= p.retries[j] /\ q.attempts[j] = p.attempts[j] + 1
        BY <1>2, <1>4, <4>1
      <4> QED BY <2>1, <4>2
    <3>2. CASE ~\E f \in T : p.queue[t[f]] = j
      BY <2>1, <3>2
    <3> QED BY <3>1, <3>2
  <2> QED BY <2>1, <2>2 DEF JobsOK, CountOK
<1>11. PendingOK(q)
  <2> SUFFICES ASSUME NEW i \in Jobs PROVE i \in q.pending <=> \E g \in Forks : q.forks[g].active = i
    BY DEF PendingOK
  <2>1. i \in p.pending <=> \E g \in Forks : p.forks[g].active = i
    BY DEF JobsOK, PendingOK
  <2>2. (\E g \in Forks : q.forks[g].active = i)
          <=> (\E g \in Forks : p.forks[g].active = i) \/ (\E f \in T : p.queue[t[f]] = i)
    <3>1. ASSUME NEW g \in Forks, q.forks[g].active = i
          PROVE  (\E h \in Forks : p.forks[h].active = i) \/ (\E f \in T : p.queue[t[f]] = i)
      BY <3>1
    <3>2. ASSUME NEW g \in Forks, p.forks[g].active = i PROVE q.forks[g].active = i
      BY <1>5, <3>2, JobFacts
    <3>3. ASSUME NEW f \in T, p.queue[t[f]] = i PROVE f \in Forks /\ q.forks[f].active = i
      BY <3>3
    <3> QED BY <3>1, <3>2, <3>3
  <2> QED BY <2>1, <2>2
<1> QED BY <1>7, <1>8, <1>9, <1>10, <1>11 DEF JobsOK

-----------------------------------------------------------------------------
(* What the handlers do to the processes *)

\* No process comes alive, no kill is taken back, and the forks keep their processes.
LEMMA ProcsKept ==
  ASSUME NEW p, NEW q, NEW cs, NEW ds, ProcsOK(p, cs),
         Len(ds) = Len(cs),
         p.shuttingDown => q.shuttingDown, q.shuttingDown => p.shuttingDown,
         q.shutdown = p.shutdown,
         \A f \in Forks : q.forks[f].proc = p.forks[f].proc,
         \A i \in 1..Len(cs) : /\ Alive(ds[i]) /\ ~ds[i].killed => Alive(cs[i]) /\ ~cs[i].killed
                               /\ cs[i].closed => ds[i].closed
  PROVE  ProcsOK(q, ds)
BY DEF ProcsOK

\* No process may get ready again.
LEMMA IntervalFinite ==
  \A m \in Nat : IsFiniteSet(1..m)
<1> TAKE m \in Nat
<1>1. 1 \in Int /\ m \in Int
  OBVIOUS
<1> QED BY <1>1, FS_Interval

LEMMA ReadyKept ==
  ASSUME NEW p, NEW q, NEW cs, Len(cs) \in Nat, NEW ds, Len(ds) \in Nat, ReadyOK(p, cs),
         p.readyCount \in Nat, q.readyCount = p.readyCount,
         \A i \in 1..Len(ds) : ChannelOK(ds[i]),
         MayGetReady(ds) \subseteq MayGetReady(cs)
  PROVE  ReadyOK(q, ds)
<1>1. IsFiniteSet(MayGetReady(cs))
  <2>1. IsFiniteSet(1..Len(cs)) /\ MayGetReady(cs) \in SUBSET (1..Len(cs))
    BY FS_Interval DEF MayGetReady
  <2> QED BY <2>1, FS_Subset
<1>2. /\ Cardinality(MayGetReady(ds)) \in Nat /\ Cardinality(MayGetReady(cs)) \in Nat
      /\ Cardinality(MayGetReady(ds)) <= Cardinality(MayGetReady(cs))
  <2>1. MayGetReady(ds) \in SUBSET MayGetReady(cs)
    OBVIOUS
  <2> QED BY <1>1, <2>1, FS_Subset, FS_CardinalityType
<1>3. PICK x, y, r \in Nat : /\ x = Cardinality(MayGetReady(ds)) /\ y = Cardinality(MayGetReady(cs))
                             /\ r = p.readyCount
  BY <1>2
<1>4. r + y <= Size
  BY <1>3 DEF ReadyOK
<1>5. r + x <= Size
  BY <1>2, <1>3, <1>4, JobFacts
<1> QED BY <1>3, <1>5 DEF ReadyOK

\* dispatch() keeps the invariant.
LEMMA DispatchOK ==
  ASSUME NEW s, NEW a, StateOK(s, a)
  PROVE  StateOK(Dispatch(s), a)
<1>1. CASE s.pool.shuttingDown
  BY <1>1 DEF Dispatch
<1>2. CASE ~s.pool.shuttingDown
  <2> DEFINE p == s.pool
             T == Taking(s)
             n == Cardinality(T)
             t == [f \in T |-> Turn(s, f)]
             q == Dispatch(s).pool
             ds == Dispatch(s).children
  <2>1. p \in PoolRec /\ s.children \in Seq(ChildState)
    BY DEF StateOK, StateRec
  <2>2. /\ p.queue \in Seq(Jobs) /\ Len(p.queue) \in Nat /\ p.pending \in SUBSET Jobs
        /\ p.forks \in [Forks -> ForkRec] /\ p.attempts \in [Jobs -> Nat]
    BY <2>1 DEF PoolRec
  <2>3. /\ n \in Nat /\ n <= Len(p.queue)
        /\ \A f \in T : Turn(s, f) \in 1..n
        /\ \A f, g \in T : Turn(s, f) = Turn(s, g) => f = g
        /\ \A k \in 1..n : \E f \in T : Turn(s, f) = k
    BY <2>2, TurnLemma
  <2>4. T \in SUBSET Forks
    BY DEF Taking, Free
  <2>5. \A f \in T : p.forks[f].active = NoJob
    BY DEF StateOK, BusyOK, Taking, Free
  <2>6. \A f \in T : JobOf(s, f) = p.queue[Turn(s, f)] /\ JobOf(s, f) \in Jobs
    BY <2>2, <2>3 DEF JobOf
  <2> HIDE DEF T, n
  <2>7. Dispatch(s) =
          [pool |-> [p EXCEPT
             !.forks = [f \in Forks |->
               IF f \in T THEN [p.forks[f] EXCEPT !.busy = TRUE, !.active = JobOf(s, f)] ELSE p.forks[f]],
             !.queue = SubSeq(p.queue, n + 1, Len(p.queue)),
             !.pending = p.pending \cup {JobOf(s, f) : f \in T},
             !.attempts = [j \in Jobs |->
               IF \E f \in T : JobOf(s, f) = j THEN p.attempts[j] + 1 ELSE p.attempts[j]]],
           children |-> [i \in DOMAIN s.children |->
             IF s.children[i].fork \in T /\ p.forks[s.children[i].fork].proc = i
             THEN [s.children[i] EXCEPT !.job = JobOf(s, s.children[i].fork)] ELSE s.children[i]]]
    BY <1>2 DEF Dispatch, T, n
  <2> DEFINE F == [f \in Forks |->
               IF f \in T THEN [p.forks[f] EXCEPT !.busy = TRUE, !.active = JobOf(s, f)] ELSE p.forks[f]]
             Q == SubSeq(p.queue, n + 1, Len(p.queue))
             P == p.pending \cup {JobOf(s, f) : f \in T}
             A == [j \in Jobs |->
               IF \E f \in T : JobOf(s, f) = j THEN p.attempts[j] + 1 ELSE p.attempts[j]]
  <2>8. /\ F \in [Forks -> ForkRec]
        /\ \A f \in Forks : F[f].proc = p.forks[f].proc
        /\ \A f \in T : F[f].active = JobOf(s, f) /\ F[f].busy
        /\ \A f \in Forks \ T : F[f] = p.forks[f]
    <3>1. \A f \in Forks : p.forks[f] \in ForkRec
      BY <2>2
    <3>2. \A f \in T : [p.forks[f] EXCEPT !.busy = TRUE, !.active = JobOf(s, f)] \in ForkRec
      BY <2>4, <2>6, <3>1 DEF ForkRec
    <3>3. \A f \in T : LET r == [p.forks[f] EXCEPT !.busy = TRUE, !.active = JobOf(s, f)]
                       IN  r.proc = p.forks[f].proc /\ r.active = JobOf(s, f) /\ r.busy
      BY <2>4, <2>6, <3>1 DEF ForkRec
    <3> QED BY <2>4, <3>1, <3>2, <3>3
  <2>9. Q \in Seq(Jobs)
    BY <2>2, <2>3
  <2>10. P \in SUBSET Jobs
    BY <2>2, <2>6
  <2>11. A \in [Jobs -> Nat]
    BY <2>2
  <2>12. /\ \A f \in T : A[p.queue[t[f]]] = p.attempts[p.queue[t[f]]] + 1
         /\ \A j \in Jobs : (\A f \in T : p.queue[t[f]] # j) => A[j] = p.attempts[j]
    BY <2>6
  <2>13. P = p.pending \cup {p.queue[t[f]] : f \in T}
    BY <2>6
  <2> HIDE DEF F, Q, P, A, p
  <2>14. q = [p EXCEPT !.forks = F, !.queue = Q, !.pending = P, !.attempts = A]
    BY <2>7 DEF F, Q, P, A
  <2> HIDE DEF q
  <2>15. /\ q \in PoolRec
         /\ q.forks = F /\ q.queue = Q /\ q.pending = P /\ q.attempts = A
         /\ q.nextId = p.nextId /\ q.retries = p.retries /\ q.readyCount = p.readyCount
         /\ q.shuttingDown = p.shuttingDown /\ q.shutdown = p.shutdown
    BY <2>1, <2>8, <2>9, <2>10, <2>11, <2>14 DEF PoolRec
  <2>16. /\ ds \in Seq(ChildState) /\ Len(ds) = Len(s.children)
         /\ \A i \in 1..Len(ds) :
              /\ ds[i].status = s.children[i].status /\ ds[i].out = s.children[i].out
              /\ ds[i].initial = s.children[i].initial /\ ds[i].killed = s.children[i].killed
              /\ ds[i].closed = s.children[i].closed
    <3> DEFINE cs == s.children
               new(i) == IF cs[i].fork \in T /\ p.forks[cs[i].fork].proc = i
                         THEN [cs[i] EXCEPT !.job = JobOf(s, cs[i].fork)] ELSE cs[i]
    <3>1. PICK m \in Nat : m = Len(cs) /\ DOMAIN cs = 1..m /\ \A i \in 1..m : cs[i] \in ChildState
      BY <2>1
    <3>2. ds = [i \in 1..m |-> new(i)]
      BY <2>7, <3>1 DEF p
    <3>3. \A i \in 1..m :
            /\ new(i) \in ChildState
            /\ new(i).status = cs[i].status /\ new(i).out = cs[i].out
            /\ new(i).initial = cs[i].initial /\ new(i).killed = cs[i].killed
            /\ new(i).closed = cs[i].closed
      BY <2>6, <3>1 DEF ChildState
    <3> HIDE DEF new, ds, cs
    <3>4. ds \in Seq(ChildState) /\ Len(ds) = m /\ \A i \in 1..m : ds[i] = new(i)
      BY <3>2, <3>3
    <3> QED BY <3>1, <3>3, <3>4 DEF cs
  <2> HIDE DEF ds
  <2>20. JobsOK(q, a)
    <3>1. t \in [T -> 1..n]
      BY <2>3
    <3>2. \A f \in T : t[f] = Turn(s, f)
      OBVIOUS
    <3> HIDE DEF t
    <3>3. JobsOK(p, a) /\ a \in [Jobs -> Seq(Results)] /\ p \in PoolRec
      BY <2>1 DEF StateOK, p
    <3>4. /\ \A f, g \in T : t[f] = t[g] => f = g
          /\ \A k \in 1..n : \E f \in T : t[f] = k
          /\ n \in Nat /\ n <= Len(p.queue)
      BY <2>3, <3>2
    <3>5. /\ \A f \in T : q.forks[f].active = p.queue[t[f]]
          /\ \A f \in Forks \ T : q.forks[f].active = p.forks[f].active
      BY <2>4, <2>6, <2>8, <2>15, <3>2
    <3>6. Dispatched(p, q, n, T, t)
      BY <2>5, <2>12, <2>13, <2>15, <3>1, <3>4, <3>5 DEF Dispatched, Q, t
    <3> QED BY <2>4, <2>15, <3>3, <3>4, <3>6, JobsDispatch
  <2>21. BusyOK(q)
    BY <2>8, <2>15 DEF StateOK, BusyOK, p
  <2>22. ProcsOK(q, ds)
    <3>1. ProcsOK(p, s.children) /\ \A f \in Forks : q.forks[f].proc = p.forks[f].proc
      BY <2>8, <2>15 DEF StateOK, p
    <3>2. \A i \in 1..Len(s.children) :
            /\ Alive(ds[i]) /\ ~ds[i].killed => Alive(s.children[i]) /\ ~s.children[i].killed
            /\ s.children[i].closed => ds[i].closed
      BY <2>16 DEF Alive
    <3> QED BY <2>15, <2>16, <3>1, <3>2, ProcsKept
  <2>23. ReadyOK(q, ds)
    <3>1. ReadyOK(p, s.children) /\ p.readyCount \in Nat /\ Len(ds) \in Nat /\ Len(s.children) \in Nat
      BY <2>1, <2>16 DEF StateOK, p, PoolRec
    <3>2. \A i \in 1..Len(ds) : ChannelOK(ds[i])
      <4> TAKE i \in 1..Len(ds)
      <4>1. ChannelOK(s.children[i])
        BY <2>16, <3>1 DEF ReadyOK
      <4> QED BY <2>16, <4>1 DEF ChannelOK, Alive
    <3>3. MayGetReady(ds) \subseteq MayGetReady(s.children)
      BY SMTT(30), <2>16 DEF MayGetReady, MayCount
    <3> QED BY <2>15, <3>1, <3>2, <3>3, ReadyKept
  <2>24. Dispatch(s) \in StateRec
    BY <2>7, <2>15, <2>16 DEF StateRec, q, ds
  <2> QED BY <2>20, <2>21, <2>22, <2>23, <2>24 DEF StateOK, q, ds
<1> QED BY <1>1, <1>2

\* What is left of a process that is told to end, or that nobody listens to any more.
LEMMA ChildFacts ==
  ASSUME NEW c \in ChildState
  PROVE  /\ Signalled(c) \in ChildState /\ (Signalled(c).killed \/ ~Alive(c))
         /\ Signalled(c).status = c.status /\ Signalled(c).out = c.out
         /\ Signalled(c).initial = c.initial /\ Signalled(c).closed = c.closed
         /\ c.killed => Signalled(c).killed
         /\ Detached(c) \in ChildState /\ Detached(c).killed = c.killed
         /\ Alive(Detached(c)) <=> Alive(c)
         /\ Detached(c).status # "starting" /\ Detached(c).out = <<>>
         /\ ~Detached(c).initial /\ Detached(c).closed = c.closed
<1>1. /\ Signalled(c) \in ChildState /\ (Signalled(c).killed \/ ~Alive(c))
      /\ Signalled(c).status = c.status /\ Signalled(c).out = c.out
      /\ Signalled(c).initial = c.initial /\ Signalled(c).closed = c.closed
      /\ c.killed => Signalled(c).killed
  BY DEF Signalled, Alive, ChildState
<1>2. /\ Detached(c) \in ChildState /\ Detached(c).killed = c.killed
      /\ Alive(Detached(c)) <=> Alive(c)
      /\ Detached(c).status # "starting" /\ Detached(c).out = <<>>
      /\ ~Detached(c).initial /\ Detached(c).closed = c.closed
  <2>1. PICK st \in {"started", "dead"} : st = IF Alive(c) THEN "started" ELSE "dead"
    OBVIOUS
  <2>2. st # "dead" <=> Alive(c)
    BY <2>1
  <2>3. Detached(c) = [c EXCEPT !.attached = FALSE, !.out = <<>>, !.job = NoJob, !.initial = FALSE, !.status = st]
    BY <2>1 DEF Detached
  <2>4. Detached(c) \in ChildState
    <3>0. <<>> \in Seq(Message)
      BY EmptySeq
    <3>1. PICK e \in Seq(Message) : e = <<>>
      BY <3>0
    <3>2. PICK d : d = [c EXCEPT !.attached = FALSE, !.out = e, !.job = NoJob]
      OBVIOUS
    <3>3. d \in ChildState
      BY <3>2 DEF ChildState
    <3>4. Detached(c) = [d EXCEPT !.initial = FALSE, !.status = st]
      BY <2>3, <3>1, <3>2
    <3> QED BY <3>3, <3>4 DEF ChildState
  <2>5. /\ Detached(c).killed = c.killed /\ Detached(c).status = st
        /\ Detached(c).out = <<>> /\ ~Detached(c).initial /\ Detached(c).closed = c.closed
    BY <2>3 DEF ChildState
  <2> QED BY <2>2, <2>4, <2>5 DEF Alive
<1> QED BY <1>1, <1>2

\* respawnFork() keeps the invariant when the fork has no job.
LEMMA RespawnOK ==
  ASSUME NEW s, NEW a, StateOK(s, a), NEW f \in Forks, s.pool.forks[f].active = NoJob
  PROVE  StateOK(Respawn(s, f), a)
<1>1. CASE s.pool.shuttingDown
  BY <1>1 DEF Respawn
<1>2. CASE ~s.pool.shuttingDown
  <2> DEFINE p == s.pool
             cs == s.children
             old == p.forks[f].proc
             m == Len(cs)
             q == Respawn(s, f).pool
             ds == Respawn(s, f).children
             gone == Detached(Signalled(cs[old]))
             new == NewChild(f, FALSE)
             idle == [IdleFork EXCEPT !.proc = m + 1]
  <2>1. s \in StateRec /\ p \in PoolRec /\ cs \in Seq(ChildState) /\ m \in Nat
    BY DEF StateOK, StateRec
  <2>2. old \in 1..m /\ cs[old] \in ChildState
    <3>1. old \in 1..m
      BY DEF StateOK, ProcsOK
    <3> QED BY <2>1, <3>1
  <2>3. Respawn(s, f) = [pool |-> [p EXCEPT !.forks[f] = idle],
                         children |-> Append([cs EXCEPT ![old] = gone], new)]
    BY SMTT(30), <1>2 DEF Respawn
  <2>4. /\ gone \in ChildState /\ gone.out = <<>> /\ ~gone.initial /\ gone.status # "starting"
        /\ gone.killed \/ ~Alive(gone)
        /\ cs[old].closed <=> gone.closed
        /\ Alive(gone) <=> Alive(cs[old])
    <3>1. Signalled(cs[old]) \in ChildState
      BY <2>2, ChildFacts
    <3>2. Signalled(cs[old]).killed \/ ~Alive(cs[old])
      BY <2>2, ChildFacts
    <3>3. Signalled(cs[old]).closed = cs[old].closed /\ Signalled(cs[old]).status = cs[old].status
      BY <2>2, ChildFacts
    <3>4. PICK c \in ChildState : c = Signalled(cs[old])
      BY <3>1
    <3>5. /\ Detached(c) \in ChildState /\ Detached(c).killed = c.killed
          /\ Alive(Detached(c)) <=> Alive(c)
          /\ Detached(c).status # "starting" /\ Detached(c).out = <<>>
          /\ ~Detached(c).initial /\ Detached(c).closed = c.closed
      BY SMTT(30), ChildFacts
    <3>6. Alive(c) <=> Alive(cs[old])
      BY <3>3, <3>4 DEF Alive
    <3> QED BY <3>2, <3>3, <3>4, <3>5, <3>6
  <2>5. /\ new \in ChildState /\ new.out = <<>> /\ ~new.initial /\ ~new.closed
    BY JobFacts DEF NewChild, ChildState
  <2>6. idle \in ForkRec /\ idle.proc = m + 1 /\ idle.active = NoJob
    <3>1. IdleFork \in ForkRec /\ IdleFork.active = NoJob
      BY DEF IdleFork, ForkRec
    <3>2. m + 1 \in Nat
      BY <2>1
    <3> QED BY <3>1, <3>2 DEF ForkRec
  <2> HIDE DEF gone, new, idle
  <2>7. /\ q = [p EXCEPT !.forks[f] = idle]
        /\ ds = Append([cs EXCEPT ![old] = gone], new)
        /\ Respawn(s, f) \in StateRec
    <3>1. Append([cs EXCEPT ![old] = gone], new) \in Seq(ChildState)
      BY <2>1, <2>2, <2>4, <2>5
    <3>2. [p EXCEPT !.forks[f] = idle] \in PoolRec
      BY <2>1, <2>6 DEF PoolRec
    <3> QED BY <2>3, <3>1, <3>2 DEF StateRec
  <2> HIDE DEF q, ds
  <2>8. /\ q \in PoolRec
        /\ SameQueue(p, q) /\ q.pending = p.pending /\ q.readyCount = p.readyCount
        /\ q.shuttingDown = p.shuttingDown /\ q.shutdown = p.shutdown
        /\ q.forks[f] = idle /\ \A g \in Forks \ {f} : q.forks[g] = p.forks[g]
    BY <2>1, <2>6, <2>7 DEF PoolRec, SameQueue
  <2>9. /\ ds \in Seq(ChildState) /\ Len(ds) = m + 1 /\ ds[m + 1] = new /\ ds[old] = gone
        /\ \A i \in 1..m : i = old \/ ds[i] = cs[i]
    BY <2>1, <2>2, <2>4, <2>5, <2>7
  <2>10. \A i \in 1..(m + 1) : i = m + 1 \/ i \in 1..m
    BY <2>1
  <2>11. JobsOK(q, a)
    <3>1. \A g \in Forks : q.forks[g].active = p.forks[g].active
      BY <2>6, <2>8
    <3> QED BY <2>1, <2>8, <3>1, JobsSame DEF StateOK
  <2>12. BusyOK(q)
    BY <2>6, <2>8 DEF StateOK, BusyOK
  <2>13. ProcsOK(q, ds)
    <3>0. ProcsOK(p, cs) /\ p.shutdown = "none"
      BY <1>2, <2>1 DEF StateOK, ProcsOK, StateRec, PoolRec
    <3> HIDE DEF p, cs, m, old
    <3>1. \A g \in Forks : q.forks[g].proc \in 1..(m + 1)
      <4> TAKE g \in Forks
      <4>1. CASE g = f
        BY <2>1, <2>6, <2>8, <4>1
      <4>2. CASE g # f
        <5>1. p.forks[g].proc \in 1..m
          BY <3>0 DEF ProcsOK, m
        <5> QED BY <2>1, <2>8, <4>2, <5>1
      <4> QED BY <4>1, <4>2
    <3>2. ASSUME NEW i \in 1..(m + 1), Alive(ds[i]), ~ds[i].killed
          PROVE  \E g \in Forks : q.forks[g].proc = i
      <4>1. CASE i = m + 1
        BY <2>6, <2>8, <4>1
      <4>2. CASE i # m + 1
        <5>1. i \in 1..m /\ i # old /\ ds[i] = cs[i]
          BY <2>4, <2>9, <2>10, <3>2, <4>2
        <5>2. PICK g \in Forks : p.forks[g].proc = i
          BY <3>0, <3>2, <5>1 DEF ProcsOK, m
        <5>3. g # f
          BY <5>1, <5>2 DEF old
        <5> QED BY <2>8, <5>2, <5>3
      <4> QED BY <4>1, <4>2
    <3> QED BY <1>2, <2>8, <2>9, <3>0, <3>1, <3>2 DEF ProcsOK, p
  <2>14. ReadyOK(q, ds)
    <3>1. ReadyOK(p, cs) /\ p.readyCount \in Nat /\ Len(ds) \in Nat
      BY <2>1, <2>9 DEF StateOK, PoolRec
    <3>2. ChannelOK(gone) /\ ChannelOK(new)
      <4>1. cs[old].closed => ~Alive(cs[old])
        BY <2>1, <2>2, <3>1 DEF ReadyOK, ChannelOK
      <4> QED BY <2>4, <2>5, <4>1 DEF ChannelOK
    <3>3. \A i \in 1..Len(ds) : ChannelOK(ds[i])
      BY <2>9, <2>10, <3>1, <3>2 DEF ReadyOK
    <3>4. MayGetReady(ds) \subseteq MayGetReady(cs)
      <4> SUFFICES ASSUME NEW i \in MayGetReady(ds) PROVE i \in MayGetReady(cs)
        OBVIOUS
      <4>1. i \in 1..(m + 1) /\ ds[i].initial
        BY <2>9 DEF MayGetReady, MayCount
      <4>2. i \in 1..m /\ ds[i] = cs[i]
        BY <2>4, <2>5, <2>9, <2>10, <4>1
      <4> QED BY <4>2 DEF MayGetReady
    <3> QED BY <2>1, <2>8, <3>1, <3>3, <3>4, ReadyKept
  <2> QED BY <2>7, <2>11, <2>12, <2>13, <2>14 DEF StateOK, q, ds
<1> QED BY <1>1, <1>2

-----------------------------------------------------------------------------
(* The actions *)

\* From p to q the pool keeps its processes and its phase.
SameOwners(p, q) ==
  /\ \A f \in Forks : q.forks[f].proc = p.forks[f].proc
  /\ q.shuttingDown <=> p.shuttingDown
  /\ q.shutdown = p.shutdown /\ q.readyCount = p.readyCount

\* From c to d a process does nothing that matters to the pool.
Weaker(c, d) ==
  /\ Alive(d) /\ ~d.killed => Alive(c) /\ ~c.killed
  /\ c.closed => d.closed
  /\ ChannelOK(c) => ChannelOK(d)
  /\ MayCount(d) => MayCount(c)

LEMMA Assemble ==
  ASSUME NEW s, NEW a, StateOK(s, a), NEW u \in StateRec, NEW b \in [Jobs -> Seq(Results)],
         JobsOK(u.pool, b), BusyOK(u.pool), SameOwners(s.pool, u.pool),
         Len(u.children) = Len(s.children),
         \A i \in 1..Len(s.children) : Weaker(s.children[i], u.children[i])
  PROVE  StateOK(u, b)
<1>1. /\ s.pool \in PoolRec /\ s.children \in Seq(ChildState) /\ s.pool.readyCount \in Nat
      /\ u.pool \in PoolRec /\ u.children \in Seq(ChildState)
      /\ Len(u.children) \in Nat /\ Len(s.children) \in Nat
  BY DEF StateOK, StateRec, PoolRec
<1>2. ProcsOK(u.pool, u.children)
  <2>1. ProcsOK(s.pool, s.children)
    BY DEF StateOK
  <2>2. \A i \in 1..Len(s.children) :
          /\ Alive(u.children[i]) /\ ~u.children[i].killed => Alive(s.children[i]) /\ ~s.children[i].killed
          /\ s.children[i].closed => u.children[i].closed
    BY DEF Weaker
  <2>3. /\ \A f \in Forks : u.pool.forks[f].proc = s.pool.forks[f].proc
        /\ s.pool.shuttingDown => u.pool.shuttingDown
        /\ u.pool.shuttingDown => s.pool.shuttingDown
        /\ u.pool.shutdown = s.pool.shutdown
    BY DEF SameOwners
  <2> QED BY <2>1, <2>2, <2>3, ProcsKept
<1>3. ReadyOK(u.pool, u.children)
  <2>1. \A i \in 1..Len(u.children) : ChannelOK(u.children[i])
    BY DEF StateOK, ReadyOK, Weaker
  <2>2. MayGetReady(u.children) \subseteq MayGetReady(s.children)
    BY DEF MayGetReady, Weaker
  <2> QED BY <1>1, <2>1, <2>2, ReadyKept DEF StateOK, SameOwners
<1> QED BY <1>2, <1>3 DEF StateOK

LEMMA SameChildren ==
  ASSUME NEW cs
  PROVE  \A i \in 1..Len(cs) : Weaker(cs[i], cs[i])
BY DEF Weaker

\* The change of one process.
LEMMA OneChild ==
  ASSUME NEW cs \in Seq(ChildState), NEW i \in 1..Len(cs), NEW d \in ChildState, Weaker(cs[i], d)
  PROVE  /\ [cs EXCEPT ![i] = d] \in Seq(ChildState) /\ Len([cs EXCEPT ![i] = d]) = Len(cs)
         /\ \A k \in 1..Len(cs) : Weaker(cs[k], [cs EXCEPT ![i] = d][k])
<1>1. \A k \in 1..Len(cs) : [cs EXCEPT ![i] = d][k] = IF k = i THEN d ELSE cs[k]
  OBVIOUS
<1>2. [cs EXCEPT ![i] = d] \in Seq(ChildState) /\ Len([cs EXCEPT ![i] = d]) = Len(cs)
  OBVIOUS
<1>3. \A k \in 1..Len(cs) : Weaker(cs[k], [cs EXCEPT ![i] = d][k])
  BY <1>1, SameChildren
<1> QED BY <1>2, <1>3

\* The state after Become(s).
LEMMA BecomeLemma ==
  ASSUME NEW s, NEW a, StateOK(s, a), Become(s), answers' = a
  PROVE  StateOK(State', answers')
<1>1. State' = s
  BY DEF Become, State, StateOK, StateRec
<1> QED BY <1>1

LEMMA EnqueueLemma ==
  ASSUME StateOK(State, answers), Enqueue
  PROVE  StateOK(State', answers')
<1>1. PICK s, a : s = State /\ a = answers
  OBVIOUS
<1>2. /\ s \in StateRec /\ StateOK(s, a) /\ s.pool = pool /\ s.children = children
      /\ s.pool \in PoolRec /\ s.children \in Seq(ChildState) /\ a \in [Jobs -> Seq(Results)]
  BY <1>1 DEF StateOK, State, StateRec
<1>3. PICK n \in Nat : n = pool.nextId /\ s.pool.nextId = n /\ n < MaxJobs
  BY <1>2 DEF PoolRec, Enqueue
<1>4. PICK u : u = [s EXCEPT !.pool.nextId = @ + 1, !.pool.queue = Append(@, n + 1)]
  OBVIOUS
<1>5. n + 1 \in Jobs
  BY <1>3, JobFacts
<1>6. PICK q : q = [s.pool EXCEPT !.nextId = n + 1, !.queue = Append(s.pool.queue, n + 1)]
  OBVIOUS
<1>7. u = [pool |-> q, children |-> s.children]
  BY <1>2, <1>3, <1>4, <1>5, <1>6 DEF StateRec, PoolRec
<1>8. /\ q \in PoolRec /\ q.nextId = n + 1 /\ q.queue = Append(s.pool.queue, n + 1)
      /\ q.forks = s.pool.forks /\ q.attempts = s.pool.attempts /\ q.retries = s.pool.retries
      /\ q.pending = s.pool.pending /\ q.shuttingDown = s.pool.shuttingDown
      /\ q.shutdown = s.pool.shutdown /\ q.readyCount = s.pool.readyCount
  <2>0. Append(s.pool.queue, n + 1) \in Seq(Jobs)
    BY <1>2, <1>5 DEF PoolRec
  <2>1. PICK Q \in Seq(Jobs) : Q = Append(s.pool.queue, n + 1)
    BY <2>0
  <2>2. q = [s.pool EXCEPT !.nextId = n + 1, !.queue = Q] /\ n + 1 \in Nat
    BY <1>6, <2>1
  <2> QED BY <1>2, <2>1, <2>2 DEF PoolRec
<1>9. JobsOK(q, a)
  BY <1>2, <1>3, <1>8, JobsEnqueue DEF StateOK
<1>10. BusyOK(q) /\ SameOwners(s.pool, q)
  BY <1>2, <1>8 DEF StateOK, BusyOK, SameOwners
<1>11. StateOK(u, a)
  <2>1. u \in StateRec /\ u.pool = q /\ u.children = s.children
    BY <1>2, <1>7, <1>8 DEF StateRec
  <2> QED BY <1>2, <1>9, <1>10, <2>1, Assemble, SameChildren
<1>12. PICK v : v = Dispatch(u) /\ StateOK(v, a)
  BY <1>11, DispatchOK
<1>13. Become(v) /\ answers' = a
  <2>1. Become(Dispatch([State EXCEPT !.pool.nextId = @ + 1, !.pool.queue = Append(@, pool.nextId + 1)]))
    BY DEF Enqueue
  <2>2. [State EXCEPT !.pool.nextId = @ + 1, !.pool.queue = Append(@, pool.nextId + 1)] = u
    BY <1>1, <1>3, <1>4
  <2>3. Dispatch([State EXCEPT !.pool.nextId = @ + 1, !.pool.queue = Append(@, pool.nextId + 1)]) = v
    BY <1>12, <2>2
  <2>4. Become(v)
    BY <2>1, <2>3
  <2> QED BY <1>1, <2>4 DEF Enqueue
<1> QED BY <1>12, <1>13, BecomeLemma

\* What a step knows of the state it starts in, and of what it leaves.
Known(s, a) ==
  /\ s = State /\ a = answers /\ StateOK(s, a)
  /\ s \in StateRec /\ s.pool = pool /\ s.children = children
  /\ s.pool \in PoolRec /\ s.children \in Seq(ChildState) /\ a \in [Jobs -> Seq(Results)]

LEMMA KnownLemma ==
  ASSUME StateOK(State, answers)
  PROVE  \E s, a : Known(s, a)
<1>1. PICK s, a : s = State /\ a = answers
  OBVIOUS
<1> QED BY <1>1 DEF Known, StateOK, State, StateRec

\* Only shutdown and ready() read the waiter.
LEMMA WaiterLemma ==
  ASSUME NEW s, NEW a, StateOK(s, a), NEW w \in {"none", "waiting", "resolved"},
         NEW u, u = [s EXCEPT !.pool.waiter = w]
  PROVE  StateOK(u, a)
<1>1. s \in StateRec /\ s.pool \in PoolRec /\ a \in [Jobs -> Seq(Results)]
  BY DEF StateOK, StateRec
<1>2. PICK q : q = [s.pool EXCEPT !.waiter = w]
  OBVIOUS
<1>3. /\ q \in PoolRec /\ SameQueue(s.pool, q) /\ q.forks = s.pool.forks
      /\ q.pending = s.pool.pending /\ q.shuttingDown = s.pool.shuttingDown
      /\ q.shutdown = s.pool.shutdown /\ q.readyCount = s.pool.readyCount
  BY <1>1, <1>2 DEF PoolRec, SameQueue
<1>4. JobsOK(q, a)
  BY <1>1, <1>3, JobsSame DEF StateOK
<1>5. BusyOK(q) /\ SameOwners(s.pool, q)
  BY <1>3 DEF StateOK, BusyOK, SameOwners
<1>6. u \in StateRec /\ u.pool = q /\ u.children = s.children
  <2>1. u = [s EXCEPT !.pool = q]
    BY <1>2
  <2> QED BY <1>1, <1>3, <2>1 DEF StateRec
<1> QED BY <1>1, <1>4, <1>5, <1>6, Assemble, SameChildren

LEMMA AwaitReadyLemma ==
  ASSUME StateOK(State, answers), AwaitReady
  PROVE  StateOK(State', answers')
<1>1. PICK s, a : Known(s, a)
  BY KnownLemma
<1> USE DEF Known
<1>2. PICK w \in {"none", "waiting", "resolved"} : pool' = [pool EXCEPT !.waiter = w]
  BY DEF AwaitReady
<1>3. PICK u : u = [s EXCEPT !.pool.waiter = w]
  OBVIOUS
<1>4. StateOK(u, a)
  BY <1>1, <1>3, WaiterLemma
<1>5. State' = u /\ answers' = a
  <2>1. u = [pool |-> [s.pool EXCEPT !.waiter = w], children |-> s.children]
    BY <1>1, <1>3 DEF StateRec
  <2> QED BY <1>1, <1>2, <2>1 DEF AwaitReady, State
<1> QED BY <1>4, <1>5

\* The fields of p and q that shutdown() does not change.
SameJobs(p, q) == SameQueue(p, q) /\ q.forks = p.forks /\ q.pending = p.pending

\* Shutting down, and finishing it, leave the jobs where they are.
LEMMA PhaseLemma ==
  ASSUME NEW s, NEW a, StateOK(s, a), NEW u \in StateRec, SameJobs(s.pool, u.pool),
         ProcsOK(u.pool, u.children), u.pool.readyCount = s.pool.readyCount,
         Len(u.children) = Len(s.children),
         \A i \in 1..Len(s.children) : ChannelOK(u.children[i]) /\ (MayCount(u.children[i]) => MayCount(s.children[i]))
  PROVE  StateOK(u, a)
<1>1. /\ s.pool \in PoolRec /\ s.children \in Seq(ChildState) /\ s.pool.readyCount \in Nat
      /\ u.pool \in PoolRec /\ u.children \in Seq(ChildState)
      /\ Len(u.children) \in Nat /\ Len(s.children) \in Nat
  BY DEF StateOK, StateRec, PoolRec
<1>2. JobsOK(u.pool, a)
  BY <1>1, JobsSame DEF StateOK, SameJobs
<1>3. BusyOK(u.pool)
  BY DEF StateOK, BusyOK, SameJobs
<1>4. ReadyOK(u.pool, u.children)
  <2>1. MayGetReady(u.children) \subseteq MayGetReady(s.children)
    BY DEF MayGetReady
  <2> QED BY <1>1, <2>1, ReadyKept DEF StateOK
<1> QED BY <1>2, <1>3, <1>4 DEF StateOK

LEMMA ShutdownTimeoutLemma ==
  ASSUME StateOK(State, answers), ShutdownTimeout
  PROVE  StateOK(State', answers')
<1>1. PICK s, a : Known(s, a)
  BY KnownLemma
<1> USE DEF Known
<1>2. PICK q : q = [s.pool EXCEPT !.shutdown = "rejected"]
  OBVIOUS
<1>3. /\ q \in PoolRec /\ SameJobs(s.pool, q) /\ q.shuttingDown = s.pool.shuttingDown
      /\ q.shutdown = "rejected" /\ q.readyCount = s.pool.readyCount
  BY <1>1, <1>2 DEF PoolRec, SameQueue, SameJobs
<1>4. PICK u \in StateRec : u.pool = q /\ u.children = s.children /\ u = [pool |-> q, children |-> s.children]
  BY <1>1, <1>3 DEF StateRec
<1>5. ProcsOK(q, s.children)
  <2>1. s.pool.shutdown = "waiting" /\ ProcsOK(s.pool, s.children)
    BY <1>1 DEF ShutdownTimeout, StateOK
  <2> QED BY <1>3, <2>1 DEF ProcsOK, SameJobs
<1>6. \A i \in 1..Len(s.children) : ChannelOK(s.children[i])
  BY <1>1 DEF StateOK, ReadyOK
<1>7. StateOK(u, a)
  BY <1>1, <1>3, <1>4, <1>5, <1>6, PhaseLemma
<1>8. State' = u /\ answers' = a
  BY <1>1, <1>2, <1>4 DEF ShutdownTimeout, State
<1> QED BY <1>7, <1>8

\* shutdown() tells every process to end.
LEMMA ShutdownLemma ==
  ASSUME StateOK(State, answers), NEW valid \in BOOLEAN, Shutdown(valid)
  PROVE  StateOK(State', answers')
<1>1. PICK s, a : Known(s, a)
  BY KnownLemma
<1> USE DEF Known
<1> DEFINE cs == s.children
           end(i) == IF ~cs[i].closed THEN Detached(Signalled(cs[i])) ELSE cs[i]
<1>2. PICK m \in Nat : m = Len(cs) /\ \A i \in 1..m : cs[i] \in ChildState /\ ChannelOK(cs[i])
  BY <1>1 DEF StateOK, ReadyOK
<1>3. PICK st \in {"rejected", "resolved", "waiting"} :
        /\ pool' = [pool EXCEPT !.shuttingDown = TRUE, !.shutdown = st]
        /\ st = "resolved" => \A i \in 1..m : cs[i].closed
  <2>1. Outstanding = {i \in 1..m : ~cs[i].closed}
    BY <1>1, <1>2 DEF Outstanding, Processes
  <2> DEFINE w == IF ~valid THEN "rejected" ELSE IF Outstanding = {} THEN "resolved" ELSE "waiting"
  <2>2. w \in {"rejected", "resolved", "waiting"} /\ (w = "resolved" => Outstanding = {})
    OBVIOUS
  <2>3. pool' = [pool EXCEPT !.shuttingDown = TRUE, !.shutdown = w]
    BY DEF Shutdown
  <2> HIDE DEF w
  <2> QED BY <2>1, <2>2, <2>3
<1>4. PICK ds : ds = [i \in 1..m |-> end(i)]
  OBVIOUS
<1>5. \A i \in 1..m : /\ end(i) \in ChildState
                      /\ end(i).killed \/ ~Alive(end(i))
                      /\ cs[i].closed => end(i).closed
                      /\ ChannelOK(end(i)) /\ (MayCount(end(i)) => MayCount(cs[i]))
  <2> TAKE i \in 1..m
  <2>1. CASE cs[i].closed
    <3>1. end(i) = cs[i] /\ ~Alive(cs[i])
      BY <1>2, <2>1 DEF ChannelOK
    <3> QED BY <1>2, <3>1
  <2>2. CASE ~cs[i].closed
    <3>1. PICK c, d : c = Signalled(cs[i]) /\ d = Detached(c) /\ d = end(i)
      BY <2>2
    <3>2. c \in ChildState /\ (c.killed \/ ~Alive(cs[i])) /\ c.status = cs[i].status /\ c.closed = cs[i].closed
      BY <1>2, <3>1, ChildFacts
    <3>3. /\ d \in ChildState /\ d.killed = c.killed /\ (Alive(d) <=> Alive(c))
          /\ d.out = <<>> /\ ~d.initial /\ d.closed = c.closed /\ d.status # "starting"
      <4>1. /\ Detached(c) \in ChildState /\ Detached(c).killed = c.killed
            /\ Alive(Detached(c)) <=> Alive(c)
            /\ Detached(c).status # "starting" /\ Detached(c).out = <<>>
            /\ ~Detached(c).initial /\ Detached(c).closed = c.closed
        BY <3>2, ChildFacts
      <4> QED BY <3>1, <4>1
    <3>4. Alive(c) <=> Alive(cs[i])
      BY <3>2 DEF Alive
    <3>5. ChannelOK(d) /\ ~MayCount(d)
      BY <2>2, <3>2, <3>3 DEF ChannelOK, MayCount
    <3> HIDE DEF end
    <3> QED BY <2>2, <3>1, <3>2, <3>3, <3>4, <3>5
  <2> QED BY <2>1, <2>2
<1> HIDE DEF end
<1>6. ds \in Seq(ChildState) /\ Len(ds) = m /\ \A i \in 1..m : ds[i] = end(i)
  BY <1>4, <1>5
<1>7. PICK q : q = [s.pool EXCEPT !.shuttingDown = TRUE, !.shutdown = st]
  OBVIOUS
<1>8. /\ q \in PoolRec /\ SameJobs(s.pool, q) /\ q.shuttingDown
      /\ q.shutdown = st /\ q.readyCount = s.pool.readyCount
  BY <1>1, <1>7 DEF PoolRec, SameQueue, SameJobs
<1>9. PICK u \in StateRec : u.pool = q /\ u.children = ds /\ u = [pool |-> q, children |-> ds]
  BY <1>6, <1>8 DEF StateRec
<1>10. ProcsOK(q, ds)
  <2>1. ProcsOK(s.pool, cs)
    BY <1>1 DEF StateOK
  <2> QED BY <1>2, <1>3, <1>5, <1>6, <1>8, <2>1 DEF ProcsOK, SameJobs
<1>11. StateOK(u, a)
  <2>1. \A i \in 1..Len(s.children) : ChannelOK(ds[i]) /\ (MayCount(ds[i]) => MayCount(s.children[i]))
    BY <1>2, <1>5, <1>6
  <2> QED BY <1>1, <1>2, <1>6, <1>8, <1>9, <1>10, <2>1, PhaseLemma
<1>12. State' = u /\ answers' = a
  <2>1. children' = ds
    <3>1. children' = [i \in 1..m |-> IF i \in {k \in 1..m : ~cs[k].closed} THEN Detached(Signalled(cs[i])) ELSE cs[i]]
      BY <1>1, <1>2 DEF Shutdown, Outstanding, Processes
    <3> QED BY <1>4, <3>1 DEF end
  <2>2. pool' = q
    BY <1>1, <1>3, <1>7
  <2> QED BY <1>1, <1>9, <2>1, <2>2 DEF Shutdown, State
<1> QED BY <1>11, <1>12

\* From s to u fork f has given up its job and takes none.
Freed(s, u, f) ==
  /\ u.children = s.children /\ u.pool.pending = s.pool.pending
  /\ SameQueue(s.pool, u.pool) /\ SameOwners(s.pool, u.pool) /\ Relieved(s.pool, u.pool, f)
  /\ BusyOK(s.pool) => BusyOK(u.pool)

LEMMA ResetLemma ==
  ASSUME NEW s \in StateRec, NEW f \in Forks
  PROVE  Reset(s, f) \in StateRec /\ Freed(s, Reset(s, f), f)
<1>1. /\ s.pool \in PoolRec /\ s.children \in Seq(ChildState) /\ s.pool.forks \in [Forks -> ForkRec]
      /\ s.pool.forks[f] \in ForkRec
  BY DEF StateRec, PoolRec
<1>2. PICK r : r = [s.pool.forks[f] EXCEPT !.busy = FALSE, !.ready = FALSE, !.active = NoJob]
  OBVIOUS
<1>3. r \in ForkRec /\ r.active = NoJob /\ r.proc = s.pool.forks[f].proc
  BY <1>1, <1>2 DEF ForkRec
<1>4. PICK q : q = [s.pool EXCEPT !.forks[f] = r]
  OBVIOUS
<1>5. /\ q \in PoolRec /\ SameQueue(s.pool, q) /\ q.pending = s.pool.pending
      /\ q.shuttingDown = s.pool.shuttingDown /\ q.shutdown = s.pool.shutdown
      /\ q.readyCount = s.pool.readyCount
      /\ q.forks[f] = r /\ \A g \in Forks \ {f} : q.forks[g] = s.pool.forks[g]
  BY <1>1, <1>3, <1>4 DEF PoolRec, SameQueue
<1>6. PICK u : u = Reset(s, f)
  OBVIOUS
<1>7. u \in StateRec /\ u.pool = q /\ u.children = s.children
  <2>1. u = [s EXCEPT !.pool.forks[f] = r]
    BY <1>2, <1>6 DEF Reset
  <2>2. u = [s EXCEPT !.pool = q]
    BY <1>4, <2>1
  <2> QED BY <1>1, <1>5, <2>2 DEF StateRec
<1>8. SameOwners(s.pool, q) /\ Relieved(s.pool, q, f) /\ (BusyOK(s.pool) => BusyOK(q))
  BY <1>3, <1>5 DEF SameOwners, Relieved, BusyOK
<1> QED BY <1>5, <1>6, <1>7, <1>8 DEF Freed

\* A step that changes nothing but one process, which does nothing that matters.
LEMMA ChildChange ==
  ASSUME NEW s, NEW a, StateOK(s, a), NEW i \in 1..Len(s.children), NEW d \in ChildState,
         Weaker(s.children[i], d),
         NEW u, u = [pool |-> s.pool, children |-> [s.children EXCEPT ![i] = d]]
  PROVE  StateOK(u, a)
<1>1. s \in StateRec /\ s.pool \in PoolRec /\ s.children \in Seq(ChildState)
  BY DEF StateOK, StateRec
<1>2. /\ u.children \in Seq(ChildState) /\ Len(u.children) = Len(s.children)
      /\ \A k \in 1..Len(s.children) : Weaker(s.children[k], u.children[k])
  BY <1>1, OneChild
<1>3. u \in StateRec
  BY <1>1, <1>2 DEF StateRec
<1>4. SameOwners(s.pool, u.pool)
  BY DEF SameOwners
<1> QED BY <1>2, <1>3, <1>4, Assemble DEF StateOK

LEMMA SignalledLemma ==
  ASSUME NEW c \in ChildState
  PROVE  Weaker(c, Signalled(c))
<1>1. PICK d : d = Signalled(c)
  OBVIOUS
<1>2. /\ d \in ChildState /\ (d.killed \/ ~Alive(c))
      /\ d.status = c.status /\ d.out = c.out
      /\ d.initial = c.initial /\ d.closed = c.closed
  BY <1>1, ChildFacts
<1>3. Alive(d) <=> Alive(c)
  BY <1>2 DEF Alive
<1>4. ChannelOK(c) => ChannelOK(d)
  BY <1>2, <1>3 DEF ChannelOK
<1>5. MayCount(d) => MayCount(c)
  BY <1>2 DEF MayCount
<1> QED BY <1>1, <1>2, <1>3, <1>4, <1>5 DEF Weaker

\* The timer of a job: the job is answered and its process is told to end.
LEMMA TimeoutLemma ==
  ASSUME StateOK(State, answers), NEW f \in Forks, Timeout(f)
  PROVE  StateOK(State', answers')
<1>1. PICK s, a : Known(s, a)
  BY KnownLemma
<1> USE DEF Known
<1>2. PICK j \in Jobs : j = pool.forks[f].active
  BY <1>1 DEF Timeout, PoolRec, ForkRec
<1>3. PICK old \in 1..Len(s.children) : old = pool.forks[f].proc /\ s.children[old] \in ChildState
  BY <1>1 DEF StateOK, ProcsOK
<1>4. PICK d \in ChildState : d = Signalled(s.children[old]) /\ Weaker(s.children[old], d)
  BY <1>3, ChildFacts, SignalledLemma
<1>5. PICK u1 : u1 = [s EXCEPT !.pool.pending = @ \ {j}, !.children[old] = d]
  OBVIOUS
<1>6. PICK q : q = [s.pool EXCEPT !.pending = @ \ {j}]
  OBVIOUS
<1>7. /\ q \in PoolRec /\ SameQueue(s.pool, q) /\ q.pending = s.pool.pending \ {j}
      /\ q.shuttingDown = s.pool.shuttingDown /\ q.shutdown = s.pool.shutdown
      /\ q.readyCount = s.pool.readyCount /\ q.forks = s.pool.forks
  BY <1>1, <1>6 DEF PoolRec, SameQueue
<1>8. PICK ds : ds = [s.children EXCEPT ![old] = d]
  OBVIOUS
<1>9. /\ ds \in Seq(ChildState) /\ Len(ds) = Len(s.children)
      /\ \A k \in 1..Len(s.children) : Weaker(s.children[k], ds[k])
  BY <1>1, <1>3, <1>4, <1>8, OneChild
<1>10. u1 \in StateRec /\ u1.pool = q /\ u1.children = ds
  <2>1. PICK v : v = [s EXCEPT !.pool = q]
    OBVIOUS
  <2>2. v.children = s.children /\ v.pool = q /\ v \in StateRec
    BY <1>1, <1>7, <2>1 DEF StateRec
  <2>3. u1 = [v EXCEPT !.children = ds]
    BY <1>5, <1>6, <1>8, <2>1, <2>2
  <2> QED BY <1>9, <2>2, <2>3 DEF StateRec
<1>11. PICK u \in StateRec : u = Reset(u1, f) /\ Freed(u1, u, f)
  BY <1>10, ResetLemma
<1>12. PICK b : b = [a EXCEPT ![j] = Append(@, "timeout")]
  OBVIOUS
<1>13. /\ SameQueue(s.pool, u.pool) /\ Relieved(s.pool, u.pool, f)
       /\ u.pool.pending = s.pool.pending \ {j} /\ u.pool \in PoolRec
       /\ SameOwners(s.pool, u.pool) /\ u.children = ds /\ BusyOK(u.pool)
  <2>1. u.pool \in PoolRec
    BY DEF StateRec
  <2>2. BusyOK(q)
    BY <1>1, <1>7 DEF StateOK, BusyOK
  <2>3. SameQueue(s.pool, u.pool)
    BY <1>7, <1>10, <1>11 DEF Freed, SameQueue
  <2>4. Relieved(s.pool, u.pool, f) /\ u.pool.pending = s.pool.pending \ {j}
    BY <1>7, <1>10, <1>11 DEF Freed, Relieved
  <2>5. SameOwners(s.pool, u.pool)
    BY <1>7, <1>10, <1>11 DEF Freed, SameOwners
  <2> QED BY <1>10, <1>11, <2>1, <2>2, <2>3, <2>4, <2>5 DEF Freed
<1>14. b \in [Jobs -> Seq(Results)] /\ JobsOK(u.pool, b)
  <2>1. "timeout" \in Results /\ s.pool.forks[f].active = j /\ JobsOK(s.pool, a)
    BY <1>1, <1>2 DEF Results, StateOK
  <2>2. PICK r \in Results : r = "timeout"
    BY <2>1
  <2>3. b = [a EXCEPT ![j] = Append(@, r)]
    BY <1>12, <2>2
  <2> QED BY <1>1, <1>13, <2>1, <2>3, JobsAnswer, ZenonT(60)
<1>15. StateOK(u, b)
  BY <1>1, <1>9, <1>13, <1>14, Assemble
<1>16. u.pool.forks[f].active = NoJob
  BY <1>13 DEF Relieved
<1>17. PICK v : v = Respawn(u, f) /\ StateOK(v, b)
  BY <1>15, <1>16, RespawnOK
<1>18. Become(v) /\ answers' = b
  <2>1. u1 = [State EXCEPT !.pool.pending = @ \ {pool.forks[f].active}, !.children[pool.forks[f].proc] = Signalled(@)]
    BY <1>1, <1>2, <1>3, <1>4, <1>5
  <2>2. Become(Respawn(Reset([State EXCEPT !.pool.pending = @ \ {pool.forks[f].active},
                                          !.children[pool.forks[f].proc] = Signalled(@)], f), f))
    BY DEF Timeout
  <2>3. Become(v)
    BY <1>11, <1>17, <2>1, <2>2
  <2> QED BY <1>1, <1>2, <1>12, <2>3 DEF Timeout, Answer
<1> QED BY <1>17, <1>18, BecomeLemma

\* A message is taken: what is left of the channel has no "ready".
LEMMA ReceivedLemma ==
  ASSUME NEW c \in ChildState, ChannelOK(c), c.out # <<>>,
         NEW d, d = [c EXCEPT !.out = Tail(@)]
  PROVE  d \in ChildState /\ Weaker(c, d) /\ ~MayCount(d)
<1>1. PICK o \in Seq(Message) : o = c.out /\ o # <<>>
  BY DEF ChildState
<1>2. PICK t \in Seq(Message) : t = Tail(o)
  <2>1. Tail(o) \in Seq(Message)
    BY <1>1
  <2> QED BY <2>1
<1>3. /\ Len(t) \in Nat /\ Len(o) = Len(t) + 1
      /\ \A k \in 1..Len(t) : k + 1 \in 2..Len(o) /\ k + 1 \in 1..Len(o) /\ t[k] = o[k + 1]
  BY <1>1, <1>2
<1>4. /\ d \in ChildState /\ d.out = t /\ d.status = c.status /\ d.initial = c.initial
      /\ d.closed = c.closed /\ d.killed = c.killed
  <2>1. d = [c EXCEPT !.out = t]
    BY <1>1, <1>2
  <2> QED BY <2>1 DEF ChildState
<1>5. c.status # "starting"
  BY <1>1 DEF ChannelOK
<1>6. Alive(d) <=> Alive(c)
  BY <1>4 DEF Alive
<1>7. \A k \in 1..Len(t) : t[k].type # "ready" /\ (t[k].type = "result" => t[k].job # NoJob)
  BY <1>1, <1>3 DEF ChannelOK
<1>8. ChannelOK(d)
  <2>1. \A k \in 2..Len(t) : k \in 1..Len(t)
    BY <1>3
  <2>2. c.closed => ~Alive(c)
    BY DEF ChannelOK
  <2> QED BY <1>4, <1>5, <1>6, <1>7, <2>1, <2>2 DEF ChannelOK
<1>9. ~MayCount(d)
  <2>1. t # <<>> => 1 \in 1..Len(t)
    BY <1>2, <1>3
  <2> QED BY <1>4, <1>5, <1>7, <2>1 DEF MayCount
<1> QED BY <1>4, <1>6, <1>8, <1>9 DEF Weaker

\* Received(p), in the state s
Taken(s, u, p) ==
  /\ u \in StateRec /\ u.pool = s.pool
  /\ Len(u.children) = Len(s.children)
  /\ \A k \in 1..Len(s.children) : Weaker(s.children[k], u.children[k])
  /\ ~MayCount(u.children[p])

LEMMA TakenLemma ==
  ASSUME NEW s, NEW a, Known(s, a), NEW p \in Processes, children[p].out # <<>>,
         NEW u, u = Received(p)
  PROVE  /\ Taken(s, u, p) /\ p \in 1..Len(s.children) /\ s.children[p] \in ChildState
         /\ ChannelOK(s.children[p]) /\ s.children[p].fork \in Forks
<1> USE DEF Known
<1>1. PICK c \in ChildState : c = s.children[p] /\ ChannelOK(c) /\ c.out # <<>> /\ p \in 1..Len(s.children)
  BY DEF Processes, StateOK, ReadyOK
<1>2. PICK d : d = [c EXCEPT !.out = Tail(@)]
  OBVIOUS
<1>3. d \in ChildState /\ Weaker(c, d) /\ ~MayCount(d)
  BY <1>1, <1>2, ReceivedLemma
<1>4. u = [s EXCEPT !.children[p] = d]
  BY <1>1, <1>2 DEF Received
<1>5. PICK ds : ds = [s.children EXCEPT ![p] = d]
  OBVIOUS
<1>6. /\ ds \in Seq(ChildState) /\ Len(ds) = Len(s.children)
      /\ \A k \in 1..Len(s.children) : Weaker(s.children[k], ds[k])
  BY <1>1, <1>3, <1>5, OneChild
<1>7. ds[p] = d
  BY <1>1, <1>5
<1>8. u \in StateRec /\ u.pool = s.pool /\ u.children = ds
  <2>1. u = [s EXCEPT !.children = ds]
    BY <1>4, <1>5
  <2> QED BY <1>6, <2>1 DEF StateRec
<1>9. c.fork \in Forks
  BY DEF ChildState
<1> QED BY <1>1, <1>3, <1>6, <1>7, <1>8, <1>9 DEF Taken

\* A first process gets ready: it is counted, and never again.
LEMMA CountedLemma ==
  ASSUME NEW s, NEW a, StateOK(s, a), NEW p \in 1..Len(s.children), MayCount(s.children[p]),
         NEW u, Taken(s, u, p), NEW q, q.readyCount = s.pool.readyCount + 1
  PROVE  ReadyOK(q, u.children)
<1> DEFINE A == MayGetReady(s.children)
           B == MayGetReady(u.children)
<1>1. PICK m \in Nat : m = Len(s.children) /\ m = Len(u.children)
  BY DEF StateOK, StateRec, Taken
<1>2. IsFiniteSet(A)
  <2>1. IsFiniteSet(1..m)
    BY IntervalFinite
  <2>2. A \in SUBSET (1..m)
    BY <1>1 DEF MayGetReady
  <2> QED BY <2>1, <2>2, FS_Subset
<1>3. p \in A
  BY DEF MayGetReady
<1>4. B \in SUBSET (A \ {p})
  <2> SUFFICES ASSUME NEW k \in B PROVE k \in A /\ k # p
    OBVIOUS
  <2>1. k \in 1..m /\ MayCount(u.children[k])
    BY <1>1 DEF MayGetReady
  <2> QED BY <1>1, <2>1 DEF Taken, Weaker, MayGetReady
<1> HIDE DEF A, B
<1>5. /\ IsFiniteSet(A \ {p}) /\ Cardinality(A \ {p}) = Cardinality(A) - 1
      /\ Cardinality(A) \in Nat
  BY <1>2, <1>3, FS_RemoveElement, FS_CardinalityType
<1>6. Cardinality(B) \in Nat /\ Cardinality(B) <= Cardinality(A \ {p})
  BY <1>4, <1>5, FS_Subset, FS_CardinalityType
<1>7. PICK x, y, r \in Nat : x = Cardinality(B) /\ y = Cardinality(A) /\ r = s.pool.readyCount
  BY <1>5, <1>6 DEF StateOK, StateRec, PoolRec
<1>8. x <= y - 1 /\ r + y <= Size
  BY <1>5, <1>6, <1>7 DEF StateOK, ReadyOK, A
<1>9. (r + 1) + x <= Size
  BY <1>8, JobFacts
<1>10. \A i \in 1..Len(u.children) : ChannelOK(u.children[i])
  BY <1>1 DEF StateOK, ReadyOK, Taken, Weaker
<1> QED BY <1>7, <1>9, <1>10 DEF ReadyOK, B

LEMMA OnReadyLemma ==
  ASSUME StateOK(State, answers), NEW p \in Processes, OnReady(p)
  PROVE  StateOK(State', answers')
<1>1. PICK s, a : Known(s, a)
  BY KnownLemma
<1> USE DEF Known
<1>2. PICK u1 : u1 = Received(p)
  BY SMTT(30)
<1>3. children[p].out # <<>> /\ Head(children[p].out).type = "ready"
  BY DEF OnReady, Heard
<1>4. /\ Taken(s, u1, p) /\ p \in 1..Len(s.children) /\ s.children[p] \in ChildState
      /\ ChannelOK(s.children[p]) /\ s.children[p].fork \in Forks
  BY <1>1, <1>2, <1>3, TakenLemma
<1>5. PICK f \in Forks : f = children[p].fork
  BY <1>1, <1>4
<1>6. PICK n : n = IF children[p].initial THEN s.pool.readyCount + 1 ELSE s.pool.readyCount
  OBVIOUS
<1>7. n \in Nat
  BY <1>1, <1>6 DEF PoolRec
<1>8. PICK fk : fk = [s.pool.forks[f] EXCEPT !.ready = TRUE]
  OBVIOUS
<1>9. /\ fk \in ForkRec /\ fk.active = s.pool.forks[f].active /\ fk.proc = s.pool.forks[f].proc
      /\ fk.busy = s.pool.forks[f].busy
  <2>1. s.pool.forks[f] \in ForkRec
    BY <1>1 DEF PoolRec
  <2> QED BY <1>8, <2>1 DEF ForkRec
<1>10. PICK q : q = [s.pool EXCEPT !.forks[f] = fk, !.readyCount = n]
  OBVIOUS
<1>11. /\ q \in PoolRec /\ SameQueue(s.pool, q) /\ q.pending = s.pool.pending
       /\ q.shuttingDown = s.pool.shuttingDown /\ q.shutdown = s.pool.shutdown
       /\ q.readyCount = n
       /\ q.forks[f] = fk /\ \A g \in Forks \ {f} : q.forks[g] = s.pool.forks[g]
  BY <1>1, <1>7, <1>9, <1>10 DEF PoolRec, SameQueue
<1>12. PICK u : u = [u1 EXCEPT !.pool.forks[f].ready = TRUE,
                               !.pool.readyCount = IF children[p].initial THEN @ + 1 ELSE @]
  OBVIOUS
<1>13. u \in StateRec /\ u.pool = q /\ u.children = u1.children
  <2>1. u1 \in StateRec /\ u1.pool = s.pool /\ u1.children \in Seq(ChildState)
    BY <1>4 DEF Taken, StateRec
  <2>2. PICK q1 : q1 = [s.pool EXCEPT !.forks[f] = fk]
    OBVIOUS
  <2>3. q1 \in PoolRec /\ q1.readyCount = s.pool.readyCount /\ q = [q1 EXCEPT !.readyCount = n]
    BY <1>1, <1>9, <1>10, <2>2 DEF PoolRec
  <2>4. PICK u2 : u2 = [u1 EXCEPT !.pool = q1]
    OBVIOUS
  <2>5. u2 \in StateRec /\ u2.pool = q1 /\ u2.children = u1.children
    BY <2>1, <2>3, <2>4 DEF StateRec
  <2>6. u = [u2 EXCEPT !.pool.readyCount = IF children[p].initial THEN @ + 1 ELSE @]
    BY <1>8, <1>12, <2>1, <2>2, <2>4
  <2>7. u = [u2 EXCEPT !.pool = q]
    BY <1>6, <2>3, <2>5, <2>6
  <2> QED BY <1>11, <2>5, <2>7 DEF StateRec
<1>14. JobsOK(q, a)
  BY <1>1, <1>9, <1>11, JobsSame, SMTT(30) DEF StateOK
<1>15. BusyOK(q)
  BY <1>1, <1>9, <1>11 DEF StateOK, BusyOK
<1>16. StateOK(u, a)
  <2>1. CASE ~children[p].initial
    <3>1. SameOwners(s.pool, q)
      BY <1>6, <1>9, <1>11, <2>1 DEF SameOwners
    <3> QED BY <1>1, <1>4, <1>13, <1>14, <1>15, <3>1, Assemble DEF Taken
  <2>2. CASE children[p].initial
    <3>1. MayCount(s.children[p])
      <4>1. s.children[p].out \in Seq(Message)
        BY <1>4 DEF ChildState
      <4> QED BY <1>1, <1>3, <2>2, <4>1 DEF MayCount
    <3>2. ReadyOK(q, u.children)
      BY <1>1, <1>4, <1>6, <1>11, <1>13, <2>2, <3>1, CountedLemma
    <3>3. ProcsOK(q, u.children)
      <4>1. ProcsOK(s.pool, s.children)
        BY <1>1 DEF StateOK
      <4>2. \A i \in 1..Len(s.children) :
              /\ Alive(u.children[i]) /\ ~u.children[i].killed => Alive(s.children[i]) /\ ~s.children[i].killed
              /\ s.children[i].closed => u.children[i].closed
        BY <1>4, <1>13 DEF Taken, Weaker
      <4>3. Len(u.children) = Len(s.children) /\ \A g \in Forks : q.forks[g].proc = s.pool.forks[g].proc
        BY <1>4, <1>9, <1>11, <1>13 DEF Taken
      <4> QED BY <1>11, <4>1, <4>2, <4>3, ProcsKept
    <3> QED BY <1>1, <1>13, <1>14, <1>15, <3>2, <3>3 DEF StateOK
  <2> QED BY <2>1, <2>2
<1>17. PICK v : v = Dispatch(u) /\ StateOK(v, a)
  BY <1>16, DispatchOK
<1>18. PICK w : w = IF v.pool.waiter = "waiting" /\ v.pool.readyCount = Size THEN "resolved" ELSE v.pool.waiter
  OBVIOUS
<1>19. w \in {"none", "waiting", "resolved"}
  BY <1>17, <1>18 DEF StateOK, StateRec, PoolRec
<1>20. PICK x : x = [v EXCEPT !.pool.waiter = w] /\ StateOK(x, a)
  BY <1>17, <1>19, WaiterLemma
<1>21. Become(x) /\ answers' = a
  <2>1. v = Dispatch([Received(p) EXCEPT
             !.pool.forks[children[p].fork].ready = TRUE,
             !.pool.readyCount = IF children[p].initial THEN @ + 1 ELSE @])
    BY SMTT(30), <1>2, <1>5, <1>12, <1>17
  <2> DEFINE told(y) == [y EXCEPT !.pool.waiter =
                           IF @ = "waiting" /\ y.pool.readyCount = Size THEN "resolved" ELSE @]
  <2>2. Become(told(Dispatch([Received(p) EXCEPT
             !.pool.forks[children[p].fork].ready = TRUE,
             !.pool.readyCount = IF children[p].initial THEN @ + 1 ELSE @])))
    BY DEF OnReady
  <2>3. x = told(v)
    BY <1>18, <1>20
  <2> HIDE DEF told
  <2>4. Become(x)
    BY <2>1, <2>2, <2>3
  <2> QED BY <1>1, <2>4 DEF OnReady
<1> QED BY <1>20, <1>21, BecomeLemma

\* A result: the job is answered, its fork free or recycled.
LEMMA OnResultLemma ==
  ASSUME StateOK(State, answers), NEW p \in Processes, OnResult(p)
  PROVE  StateOK(State', answers')
<1>1. PICK s, a : Known(s, a)
  BY KnownLemma
<1> USE DEF Known
<1>2. PICK u1 : u1 = Received(p)
  OBVIOUS
<1>3. children[p].out # <<>> /\ Head(children[p].out).type = "result"
  BY DEF OnResult, Heard
<1>4. /\ Taken(s, u1, p) /\ p \in 1..Len(s.children) /\ s.children[p] \in ChildState
      /\ ChannelOK(s.children[p]) /\ s.children[p].fork \in Forks
  BY <1>1, <1>2, <1>3, TakenLemma
<1>5. PICK f \in Forks : f = children[p].fork
  BY <1>1, <1>4
<1>6. CASE ~Expected(p)
  <2>1. StateOK(u1, a)
    <3>1. SameOwners(s.pool, u1.pool)
      BY <1>4 DEF Taken, SameOwners
    <3> QED BY <1>1, <1>4, <3>1, Assemble DEF Taken, StateOK
  <2>2. Become(u1) /\ answers' = a
    BY <1>1, <1>2, <1>6 DEF OnResult
  <2> QED BY <2>1, <2>2, BecomeLemma
<1>7. CASE Expected(p)
  <2>1. PICK j \in Jobs : j = Head(children[p].out).job /\ s.pool.forks[f].active = j
    <3>1. PICK o \in Seq(Message) : o = s.children[p].out /\ o # <<>> /\ o[1].type = "result" /\ o[1].job = Head(o).job
      BY <1>1, <1>3, <1>4 DEF ChildState
    <3>2. 1 \in 1..Len(o) /\ o[1] \in Message
      BY <3>1
    <3>3. o[1].job # NoJob /\ o[1].job \in Jobs \cup {NoJob}
      BY <1>4, <3>1, <3>2 DEF ChannelOK, Message
    <3> QED BY <1>1, <1>5, <1>7, <3>1, <3>3 DEF Expected
  <2>2. PICK fk : fk = [s.pool.forks[f] EXCEPT !.active = NoJob, !.busy = FALSE]
    OBVIOUS
  <2>3. fk \in ForkRec /\ fk.active = NoJob /\ fk.proc = s.pool.forks[f].proc
    <3>1. s.pool.forks[f] \in ForkRec
      BY <1>1 DEF PoolRec
    <3> QED BY <2>2, <3>1 DEF ForkRec
  <2>4. PICK q : q = [s.pool EXCEPT !.pending = @ \ {j}, !.forks[f] = fk]
    OBVIOUS
  <2>5. /\ q \in PoolRec /\ SameQueue(s.pool, q) /\ q.pending = s.pool.pending \ {j}
        /\ q.shuttingDown = s.pool.shuttingDown /\ q.shutdown = s.pool.shutdown
        /\ q.readyCount = s.pool.readyCount
        /\ q.forks[f] = fk /\ \A g \in Forks \ {f} : q.forks[g] = s.pool.forks[g]
    BY <1>1, <2>3, <2>4 DEF PoolRec, SameQueue
  <2>6. PICK u : u = [u1 EXCEPT !.pool.pending = @ \ {j},
                                !.pool.forks[f] = [@ EXCEPT !.active = NoJob, !.busy = FALSE]]
    OBVIOUS
  <2>7. u \in StateRec /\ u.pool = q /\ u.children = u1.children
    <3>1. u1 \in StateRec /\ u1.pool = s.pool /\ u1.children \in Seq(ChildState)
      BY <1>4 DEF Taken, StateRec
    <3>2. PICK q1 : q1 = [s.pool EXCEPT !.pending = @ \ {j}]
      OBVIOUS
    <3>3. q1 \in PoolRec /\ q1.forks = s.pool.forks /\ q = [q1 EXCEPT !.forks[f] = fk]
      BY <1>1, <2>4, <3>2 DEF PoolRec
    <3>4. PICK u2 : u2 = [u1 EXCEPT !.pool = q1]
      OBVIOUS
    <3>5. u2 \in StateRec /\ u2.pool = q1 /\ u2.children = u1.children
      BY <3>1, <3>3, <3>4 DEF StateRec
    <3>6. u = [u2 EXCEPT !.pool.forks[f] = [@ EXCEPT !.active = NoJob, !.busy = FALSE]]
      BY <2>6, <3>1, <3>2, <3>4
    <3>7. u = [u2 EXCEPT !.pool = q]
      BY <2>2, <3>3, <3>5, <3>6
    <3> QED BY <2>5, <3>1, <3>5, <3>7 DEF StateRec
  <2>8. PICK r \in Results : r = "result"
    BY DEF Results
  <2>9. PICK b : b = [a EXCEPT ![j] = Append(@, r)]
    OBVIOUS
  <2>10. Relieved(s.pool, q, f)
    BY <2>3, <2>5 DEF Relieved
  <2>11. b \in [Jobs -> Seq(Results)] /\ JobsOK(q, b)
    <3>1. JobsOK(s.pool, a)
      BY <1>1 DEF StateOK
    <3> QED BY <1>1, <2>1, <2>5, <2>9, <2>10, <3>1, JobsAnswer
  <2>12. BusyOK(q) /\ SameOwners(s.pool, q)
    BY <1>1, <2>3, <2>5 DEF StateOK, BusyOK, SameOwners
  <2>13. StateOK(u, b)
    BY <1>1, <1>4, <2>7, <2>11, <2>12, Assemble DEF Taken
  <2>14. StateOK(Respawn(u, f), b) /\ StateOK(Dispatch(u), b)
    <3>1. u.pool.forks[f].active = NoJob
      BY <2>3, <2>5, <2>7
    <3> QED BY <2>13, <3>1, RespawnOK, DispatchOK
  <2>15. PICK v : v = (IF Head(children[p].out).recycle THEN Respawn(u, f) ELSE Dispatch(u)) /\ StateOK(v, b)
    BY <2>14
  <2>16. Become(v) /\ answers' = b
    <3> DEFINE ux == [Received(p) EXCEPT !.pool.pending = @ \ {Head(children[p].out).job},
                               !.pool.forks[children[p].fork] = [@ EXCEPT !.active = NoJob, !.busy = FALSE]]
    <3>1. /\ Answer(Head(children[p].out).job, "result")
          /\ Become(IF Head(children[p].out).recycle THEN Respawn(ux, children[p].fork) ELSE Dispatch(ux))
      BY <1>7 DEF OnResult
    <3>2. ux = u
      BY <1>2, <1>5, <2>1, <2>6
    <3> HIDE DEF ux
    <3>3. Become(v)
      BY <1>5, <2>15, <3>1, <3>2
    <3> QED BY <1>1, <2>1, <2>8, <2>9, <3>1, <3>3 DEF Answer
  <2> QED BY <2>15, <2>16, BecomeLemma
<1> QED BY <1>6, <1>7

\* The retry of job j, or its last failure.
Retried(s, u, j) ==
  /\ u \in StateRec /\ u.children = s.children
  /\ u.pool.forks = s.pool.forks /\ SameOwners(s.pool, u.pool)
  /\ u.pool.nextId = s.pool.nextId /\ u.pool.attempts = s.pool.attempts
  /\ u.pool.pending = s.pool.pending \ {j}
  /\ IF s.pool.retries[j] < MaxRetries
     THEN /\ u.pool.queue = <<j>> \o s.pool.queue
          /\ u.pool.retries = [s.pool.retries EXCEPT ![j] = @ + 1]
     ELSE u.pool.queue = s.pool.queue /\ u.pool.retries = s.pool.retries

LEMMA RetryLemma ==
  ASSUME NEW s \in StateRec, NEW j \in Jobs
  PROVE  Retried(s, Retry(s, j), j)
<1>1. /\ s.pool \in PoolRec /\ s.children \in Seq(ChildState) /\ s.pool.retries \in [Jobs -> Nat]
      /\ s.pool.queue \in Seq(Jobs)
  BY DEF StateRec, PoolRec
<1>2. PICK n : n = IF s.pool.retries[j] < MaxRetries THEN s.pool.retries[j] + 1 ELSE s.pool.retries[j]
  OBVIOUS
<1>3. PICK R : R = [s.pool.retries EXCEPT ![j] = n]
  OBVIOUS
<1>4. PICK Q : Q = IF s.pool.retries[j] < MaxRetries THEN <<j>> \o s.pool.queue ELSE s.pool.queue
  OBVIOUS
<1>5. R \in [Jobs -> Nat] /\ Q \in Seq(Jobs)
  <2>1. n \in Nat
    BY <1>1, <1>2
  <2>2. <<j>> \o s.pool.queue \in Seq(Jobs)
    BY <1>1
  <2> QED BY <1>1, <1>3, <1>4, <2>1, <2>2
<1>6. PICK q : q = [s.pool EXCEPT !.pending = @ \ {j}, !.retries = R, !.queue = Q]
  OBVIOUS
<1>7. /\ q \in PoolRec /\ q.pending = s.pool.pending \ {j} /\ q.retries = R /\ q.queue = Q
      /\ q.forks = s.pool.forks /\ q.nextId = s.pool.nextId /\ q.attempts = s.pool.attempts
      /\ q.shuttingDown = s.pool.shuttingDown /\ q.shutdown = s.pool.shutdown
      /\ q.readyCount = s.pool.readyCount
  BY <1>1, <1>5, <1>6 DEF PoolRec
<1>8. PICK u : u = Retry(s, j)
  OBVIOUS
<1>9. u \in StateRec /\ u.pool = q /\ u.children = s.children
  <2>1. PICK q1, q2 : q1 = [s.pool EXCEPT !.pending = @ \ {j}] /\ q2 = [q1 EXCEPT !.retries = R]
    OBVIOUS
  <2>2. /\ q1 \in PoolRec /\ q2 \in PoolRec /\ q1.retries = s.pool.retries /\ q2.queue = s.pool.queue
    BY <1>1, <1>5, <2>1 DEF PoolRec
  <2>3. q = [q2 EXCEPT !.queue = Q]
    BY <1>6, <2>1
  <2>4. PICK u1, u2 : u1 = [s EXCEPT !.pool = q1] /\ u2 = [u1 EXCEPT !.pool = q2]
    OBVIOUS
  <2>5. u1 \in StateRec /\ u2 \in StateRec /\ u1.pool = q1 /\ u2.pool = q2 /\ u2.children = s.children
    BY <2>2, <2>4 DEF StateRec
  <2>6. u = [[u1 EXCEPT !.pool.retries[j] = IF @ < MaxRetries THEN @ + 1 ELSE @]
               EXCEPT !.pool.queue = IF s.pool.retries[j] < MaxRetries THEN <<j>> \o @ ELSE @]
    BY <1>8, <2>1, <2>4 DEF Retry
  <2>7. [u1 EXCEPT !.pool.retries[j] = IF @ < MaxRetries THEN @ + 1 ELSE @] = u2
    BY <1>2, <1>3, <2>1, <2>2, <2>4, <2>5, ZenonT(60)
  <2>8. u = [u2 EXCEPT !.pool = q]
    BY <1>4, <2>2, <2>3, <2>5, <2>6, <2>7
  <2> QED BY <1>7, <2>5, <2>8 DEF StateRec
<1>10. SameOwners(s.pool, q)
  BY <1>7 DEF SameOwners
<1>11. IF s.pool.retries[j] < MaxRetries
       THEN q.queue = <<j>> \o s.pool.queue /\ q.retries = [s.pool.retries EXCEPT ![j] = @ + 1]
       ELSE q.queue = s.pool.queue /\ q.retries = s.pool.retries
  BY <1>1, <1>2, <1>3, <1>4, <1>7
<1> QED BY <1>7, <1>8, <1>9, <1>10, <1>11 DEF Retried

\* handleForkFailure, from a state e that differs from the present one at most in what
\* the processes have reported.
LEMMA FailureLemma ==
  ASSUME StateOK(State, answers), NEW p \in Processes, NEW e, StateOK(e, answers), e.pool = pool,
         HandleForkFailure(e, p)
  PROVE  StateOK(State', answers')
<1>1. PICK s, a : Known(s, a)
  BY KnownLemma
<1> USE DEF Known
<1>2. PICK f \in Forks : f = children[p].fork
  <2>1. s.children[p] \in ChildState
    BY <1>1 DEF Processes
  <2> QED BY <1>1, <2>1 DEF ChildState
<1>3. e \in StateRec /\ StateOK(e, a) /\ e.pool = s.pool
  BY <1>1 DEF StateOK
<1>4. PICK i \in StateRec : i = Reset(e, f) /\ Freed(e, i, f)
  BY <1>3, ResetLemma
<1>5. PICK j \in Jobs \cup {NoJob} : j = pool.forks[f].active
  BY <1>1 DEF PoolRec, ForkRec
<1>6. BusyOK(i.pool) /\ i.pool \in PoolRec /\ i.pool.forks[f].active = NoJob
  BY <1>3, <1>4 DEF Freed, StateOK, StateRec, Relieved
<1>7. CASE j = NoJob
  <2>1. StateOK(i, a)
    <3>1. JobsOK(i.pool, a)
      <4>1. \A g \in Forks : i.pool.forks[g].active = s.pool.forks[g].active
        BY <1>1, <1>3, <1>4, <1>5, <1>7 DEF Freed, Relieved
      <4> QED BY SMTT(30), <1>1, <1>3, <1>4, <1>6, <4>1, JobsSame DEF Freed, StateOK
    <3> QED BY <1>1, <1>3, <1>4, <1>6, <3>1, Assemble, SameChildren DEF Freed
  <2>2. StateOK(Respawn(i, f), a)
    BY <1>6, <2>1, RespawnOK
  <2>3. PICK v : v = (IF pool.forks[f].ready THEN Respawn(i, f) ELSE i) /\ StateOK(v, a)
    BY <2>1, <2>2
  <2>4. Become(v) /\ answers' = a
    BY <1>1, <1>2, <1>4, <1>5, <1>7, <2>3 DEF HandleForkFailure
  <2> QED BY <2>3, <2>4, BecomeLemma
<1>8. CASE j # NoJob
  <2>1. j \in Jobs /\ s.pool.forks[f].active = j
    BY <1>1, <1>5, <1>8
  <2>2. PICK u : u = Retry(i, j) /\ Retried(i, u, j)
    BY <2>1, RetryLemma
  <2>3. /\ u \in StateRec /\ u.pool \in PoolRec /\ u.children = e.children
        /\ u.pool.forks = i.pool.forks /\ u.pool.forks[f].active = NoJob
        /\ u.pool.nextId = s.pool.nextId /\ u.pool.attempts = s.pool.attempts
        /\ u.pool.pending = s.pool.pending \ {j}
    BY <1>3, <1>4, <1>6, <2>2 DEF Retried, Freed, StateRec, SameQueue
  <2>4. Relieved(s.pool, u.pool, f) /\ SameOwners(e.pool, u.pool) /\ BusyOK(u.pool)
    <3>1. Relieved(s.pool, u.pool, f)
      BY <1>3, <1>4, <2>3 DEF Freed, Relieved
    <3>2. SameOwners(e.pool, u.pool)
      BY <1>4, <2>2 DEF Freed, Retried, SameOwners
    <3>3. BusyOK(u.pool)
      BY <1>6, <2>3 DEF BusyOK
    <3> QED BY <3>1, <3>2, <3>3
  <2>5. PICK r \in Results : r = "crash"
    BY DEF Results
  <2>6. PICK b : b = IF GivesUp(e, j) THEN [a EXCEPT ![j] = Append(@, r)] ELSE a
    OBVIOUS
  <2>7. i.pool.queue = s.pool.queue /\ i.pool.retries = s.pool.retries
    BY <1>3, <1>4 DEF Freed, SameQueue
  <2>8. JobsOK(s.pool, a) /\ s.pool.retries[j] \in Nat
    BY <1>1, <2>1 DEF StateOK, PoolRec
  <2>9. b \in [Jobs -> Seq(Results)] /\ JobsOK(u.pool, b)
    <3>1. CASE s.pool.retries[j] < MaxRetries
      <4>1. ~GivesUp(e, j)
        BY <1>3, <2>8, <3>1, JobFacts DEF GivesUp
      <4>2. u.pool.queue = <<j>> \o s.pool.queue /\ u.pool.retries = [s.pool.retries EXCEPT ![j] = @ + 1]
        BY <2>2, <2>7, <3>1 DEF Retried
      <4>3. JobsOK(u.pool, a)
        BY <1>1, <2>1, <2>3, <2>4, <2>8, <3>1, <4>2, JobsRetry
      <4> QED BY <1>1, <2>6, <4>1, <4>3
    <3>2. CASE ~(s.pool.retries[j] < MaxRetries)
      <4>1. b = [a EXCEPT ![j] = Append(@, r)]
        BY <1>3, <2>6, <2>8, <3>2, JobFacts DEF GivesUp
      <4>2. SameQueue(s.pool, u.pool)
        BY <2>2, <2>3, <2>7, <3>2 DEF Retried, SameQueue
      <4> QED BY <1>1, <2>1, <2>3, <2>4, <2>8, <4>1, <4>2, JobsAnswer
    <3> QED BY <3>1, <3>2
  <2>10. StateOK(u, b)
    BY <1>3, <2>3, <2>4, <2>9, Assemble, SameChildren
  <2>11. PICK v : v = Respawn(u, f) /\ StateOK(v, b)
    BY SMTT(30), <2>3, <2>10, RespawnOK
  <2>12. Become(v) /\ answers' = b
    BY <1>1, <1>2, <1>4, <1>5, <1>8, <2>2, <2>5, <2>6, <2>11 DEF HandleForkFailure, Answer
  <2> QED BY <2>11, <2>12, BecomeLemma
<1> QED BY <1>7, <1>8

LEMMA OnExitLemma ==
  ASSUME StateOK(State, answers), NEW p \in Processes, OnExit(p)
  PROVE  StateOK(State', answers')
<1>1. PICK s, a : Known(s, a)
  BY KnownLemma
<1> USE DEF Known
<1>2. PICK c \in ChildState : c = s.children[p] /\ p \in 1..Len(s.children)
  BY <1>1 DEF Processes
<1>3. PICK d : d = [c EXCEPT !.exit = TRUE]
  OBVIOUS
<1>4. /\ d \in ChildState /\ d.status = c.status /\ d.out = c.out /\ d.initial = c.initial
      /\ d.killed = c.killed /\ d.closed = c.closed
  BY <1>3 DEF ChildState
<1>5. Weaker(c, d)
  BY <1>4 DEF Weaker, Alive, ChannelOK, MayCount
<1>6. PICK e : e = [s EXCEPT !.children[p].exit = TRUE]
  OBVIOUS
<1>7. PICK ds : ds = [s.children EXCEPT ![p] = d]
  OBVIOUS
<1>8. e = [pool |-> s.pool, children |-> ds]
  <2>1. e = [s EXCEPT !.children = ds]
    BY <1>2, <1>3, <1>6, <1>7
  <2> QED BY <1>1, <2>1 DEF StateRec
<1>9. StateOK(e, a) /\ e.pool = s.pool
  BY <1>1, <1>2, <1>4, <1>5, <1>7, <1>8, ChildChange
<1>10. HandleForkFailure(e, p)
  BY <1>1, <1>6 DEF OnExit
<1> QED BY <1>1, <1>8, <1>9, <1>10, FailureLemma

LEMMA OnErrorLemma ==
  ASSUME StateOK(State, answers), NEW p \in Processes, OnError(p)
  PROVE  StateOK(State', answers')
<1>1. PICK s, a : Known(s, a)
  BY KnownLemma
<1>2. s = State /\ StateOK(s, answers) /\ s.pool = pool
  BY <1>1 DEF Known
<1>3. HandleForkFailure(s, p)
  BY <1>2 DEF OnError
<1> QED BY <1>2, <1>3, FailureLemma

\* What the processes do by themselves matters to the pool only when it hears of it.
LEMMA ProcessLemma ==
  ASSUME StateOK(State, answers), NEW p \in Processes, NEW d \in ChildState,
         Weaker(children[p], d), children' = [children EXCEPT ![p] = d], UNCHANGED <<pool, answers>>
  PROVE  StateOK(State', answers')
<1>1. PICK s, a : Known(s, a)
  BY KnownLemma
<1> USE DEF Known
<1>2. p \in 1..Len(s.children)
  BY <1>1 DEF Processes
<1>3. PICK u : u = [pool |-> s.pool, children |-> [s.children EXCEPT ![p] = d]]
  OBVIOUS
<1>4. StateOK(u, a)
  BY <1>1, <1>2, <1>3, ChildChange
<1>5. State' = u /\ answers' = a
  BY <1>1, <1>3 DEF State
<1> QED BY <1>4, <1>5

LEMMA ProcessFacts ==
  ASSUME StateOK(State, answers), NEW p \in Processes
  PROVE  children[p] \in ChildState /\ ChannelOK(children[p])
<1>1. PICK s, a : Known(s, a)
  BY KnownLemma
<1> QED BY <1>1 DEF Known, Processes, StateOK, ReadyOK

LEMMA StartLemma ==
  ASSUME StateOK(State, answers), NEW p \in Processes, Start(p)
  PROVE  StateOK(State', answers')
<1>1. PICK c \in ChildState : c = children[p] /\ ChannelOK(c) /\ c.status = "starting"
  BY ProcessFacts DEF Start
<1>2. c.out = <<>> /\ ~c.closed
  BY <1>1 DEF ChannelOK, Alive
<1>3. PICK m : m = [type |-> "ready", job |-> NoJob, recycle |-> FALSE]
  OBVIOUS
<1>4. m \in Message /\ m.type = "ready"
  BY <1>3 DEF Message
<1>5. PICK o \in Seq(Message) : o = Append(c.out, m) /\ Len(o) = 1 /\ o[1] = m
  <2>1. Append(<<>>, m) \in Seq(Message) /\ Len(Append(<<>>, m)) = 1 /\ Append(<<>>, m)[1] = m
    BY <1>4
  <2> QED BY <1>2, <2>1
<1>6. PICK d : d = [c EXCEPT !.status = "started", !.job = NoJob, !.out = o]
  OBVIOUS
<1>7. /\ d \in ChildState /\ d.status = "started" /\ d.out = o /\ d.initial = c.initial
      /\ d.killed = c.killed /\ d.closed = c.closed
  BY <1>6 DEF ChildState
<1>8. Weaker(c, d)
  <2>1. ChannelOK(d)
    BY <1>2, <1>4, <1>5, <1>7 DEF ChannelOK
  <2>2. Alive(c) /\ (MayCount(d) => MayCount(c))
    BY <1>1, <1>7 DEF Alive, MayCount
  <2> QED BY <1>7, <2>1, <2>2 DEF Weaker
<1>9. children' = [children EXCEPT ![p] = d]
  BY <1>1, <1>3, <1>5, <1>6 DEF Start, Send
<1> QED BY <1>1, <1>7, <1>8, <1>9, ProcessLemma DEF Start

LEMMA FinishLemma ==
  ASSUME StateOK(State, answers), NEW p \in Processes, NEW recycle \in BOOLEAN, Finish(p, recycle)
  PROVE  StateOK(State', answers')
<1>1. PICK c \in ChildState : c = children[p] /\ ChannelOK(c) /\ c.status = "started" /\ c.job # NoJob
  BY ProcessFacts DEF Finish
<1>2. ~c.closed
  BY <1>1 DEF ChannelOK, Alive
<1>3. PICK m : m = [type |-> "result", job |-> c.job, recycle |-> recycle]
  OBVIOUS
<1>4. m \in Message /\ m.type = "result" /\ m.job # NoJob
  BY <1>1, <1>3 DEF Message, ChildState
<1>5. c.out \in Seq(Message) /\ Append(c.out, m) \in Seq(Message)
  BY <1>4 DEF ChildState
<1>6. PICK i, o \in Seq(Message) : i = c.out /\ o = Append(i, m)
  BY <1>5
<1>7. /\ Len(i) \in Nat /\ Len(o) = Len(i) + 1
      /\ \A k \in 1..Len(o) : (k \in 1..Len(i) /\ o[k] = i[k]) \/ (k = Len(i) + 1 /\ o[k] = m)
  BY <1>4, <1>6
<1>8. PICK d : d = [c EXCEPT !.status = "started", !.job = NoJob, !.out = o]
  OBVIOUS
<1>9. /\ d \in ChildState /\ d.status = "started" /\ d.out = o /\ d.initial = c.initial
      /\ d.killed = c.killed /\ d.closed = c.closed
  BY <1>8 DEF ChildState
<1>10. ChannelOK(d)
  <2>1. /\ \A k \in 2..Len(i) : i[k].type # "ready"
        /\ \A k \in 1..Len(i) : i[k].type = "result" => i[k].job # NoJob
    BY <1>1, <1>6 DEF ChannelOK
  <2>2. ASSUME NEW k \in 2..Len(o) PROVE o[k].type # "ready"
    <3>1. k \in 1..Len(o) /\ k >= 2
      BY <1>7
    <3>2. CASE k \in 1..Len(i) /\ o[k] = i[k]
      <4>1. k \in 2..Len(i)
        BY <1>7, <3>1, <3>2
      <4> QED BY <2>1, <3>2, <4>1
    <3>3. CASE o[k] = m
      BY <1>4, <3>3
    <3> QED BY <1>7, <3>1, <3>2, <3>3
  <2>3. \A k \in 1..Len(o) : o[k].type = "result" => o[k].job # NoJob
    BY <1>4, <1>7, <2>1
  <2> QED BY <1>2, <1>9, <2>2, <2>3 DEF ChannelOK
<1>11. MayCount(d) => MayCount(c)
  <2>1. 1 \in 1..Len(o)
    BY <1>7
  <2>2. o[1].type = "ready" => i # <<>> /\ o[1] = i[1]
    <3> HAVE o[1].type = "ready"
    <3>1. 1 \in 1..Len(i) /\ o[1] = i[1]
      BY <1>4, <1>7, <2>1
    <3> QED BY <3>1
  <2> QED BY <1>6, <1>9, <2>2 DEF MayCount
<1>12. Weaker(c, d)
  <2>1. Alive(c)
    BY <1>1 DEF Alive
  <2> QED BY <1>9, <1>10, <1>11, <2>1 DEF Weaker
<1>13. children' = [children EXCEPT ![p] = d]
  BY <1>1, <1>3, <1>6, <1>8 DEF Finish, Send
<1> QED BY <1>1, <1>9, <1>12, <1>13, ProcessLemma DEF Finish

LEMMA CrashLemma ==
  ASSUME StateOK(State, answers), NEW p \in Processes, Crash(p)
  PROVE  StateOK(State', answers')
<1>1. PICK c \in ChildState : c = children[p] /\ ChannelOK(c)
  BY ProcessFacts
<1>2. PICK d : d = [c EXCEPT !.status = "dead"]
  OBVIOUS
<1>3. /\ d \in ChildState /\ d.status = "dead" /\ d.out = c.out /\ d.initial = c.initial
      /\ d.killed = c.killed /\ d.closed = c.closed
  BY <1>2 DEF ChildState
<1>4. Weaker(c, d)
  BY <1>3 DEF Weaker, Alive, ChannelOK, MayCount
<1>5. children' = [children EXCEPT ![p] = d]
  BY <1>1, <1>2 DEF Crash
<1> QED BY <1>1, <1>3, <1>4, <1>5, ProcessLemma DEF Crash

\* The last process to close ends the shutdown.
LEMMA OnCloseLemma ==
  ASSUME StateOK(State, answers), NEW p \in Processes, OnClose(p)
  PROVE  StateOK(State', answers')
<1>1. PICK s, a : Known(s, a)
  BY KnownLemma
<1> USE DEF Known
<1>2. PICK c \in ChildState : c = s.children[p] /\ ChannelOK(c) /\ p \in 1..Len(s.children)
  BY <1>1 DEF Processes, StateOK, ReadyOK
<1>3. PICK d : d = [Detached(c) EXCEPT !.status = "dead", !.exit = TRUE, !.closed = TRUE]
  OBVIOUS
<1>4. d \in ChildState /\ d.status = "dead" /\ d.closed /\ d.out = <<>> /\ ~d.initial
  <2>1. PICK g \in ChildState : g = Detached(c) /\ g.out = <<>> /\ ~g.initial
    BY ChildFacts
  <2>2. d = [g EXCEPT !.status = "dead", !.exit = TRUE, !.closed = TRUE]
    BY <1>3, <2>1
  <2> QED BY <2>1, <2>2 DEF ChildState
<1>5. Weaker(c, d)
  BY <1>4 DEF Weaker, Alive, ChannelOK, MayCount
<1>6. PICK ds : ds = [s.children EXCEPT ![p] = d]
  OBVIOUS
<1>7. /\ ds \in Seq(ChildState) /\ Len(ds) = Len(s.children) /\ DOMAIN ds = 1..Len(s.children)
      /\ \A k \in 1..Len(s.children) : Weaker(s.children[k], ds[k])
  BY <1>1, <1>2, <1>4, <1>5, <1>6, OneChild
<1>8. PICK q : q = FinishShutdown(s.pool, ds)
  OBVIOUS
<1>9. /\ q \in PoolRec /\ SameJobs(s.pool, q) /\ q.shuttingDown = s.pool.shuttingDown
      /\ q.readyCount = s.pool.readyCount
      /\ q.shutdown = s.pool.shutdown
           \/ (q.shutdown = "resolved" /\ s.pool.shutdown = "waiting" /\ \A k \in 1..Len(ds) : ds[k].closed)
  <2>1. CASE s.pool.shutdown = "waiting" /\ \A k \in DOMAIN ds : ds[k].closed
    <3>1. q = [s.pool EXCEPT !.shutdown = "resolved"]
      BY <1>8, <2>1 DEF FinishShutdown
    <3>2. /\ q \in PoolRec /\ SameJobs(s.pool, q) /\ q.shuttingDown = s.pool.shuttingDown
          /\ q.readyCount = s.pool.readyCount /\ q.shutdown = "resolved"
      BY <1>1, <3>1 DEF PoolRec, SameQueue, SameJobs
    <3> QED BY <1>7, <2>1, <3>2
  <2>2. CASE ~(s.pool.shutdown = "waiting" /\ \A k \in DOMAIN ds : ds[k].closed)
    <3>1. q = s.pool
      BY <1>8, <2>2 DEF FinishShutdown
    <3> QED BY <1>1, <3>1 DEF SameQueue, SameJobs
  <2> QED BY <2>1, <2>2
<1>10. ProcsOK(q, ds)
  <2>1. ProcsOK(s.pool, s.children)
    BY <1>1 DEF StateOK
  <2> QED BY <1>7, <1>9, <2>1 DEF ProcsOK, SameJobs, Weaker
<1>11. PICK u : u = [pool |-> q, children |-> ds]
  OBVIOUS
<1>12. u \in StateRec /\ u.pool = q /\ u.children = ds
  BY <1>7, <1>9, <1>11 DEF StateRec
<1>13. \A k \in 1..Len(s.children) : ChannelOK(ds[k]) /\ (MayCount(ds[k]) => MayCount(s.children[k]))
  BY <1>1, <1>7 DEF StateOK, ReadyOK, Weaker
<1>14. StateOK(u, a)
  BY <1>1, <1>7, <1>9, <1>10, <1>12, <1>13, PhaseLemma
<1>15. State' = u /\ answers' = a
  <2>1. children' = ds
    BY <1>1, <1>2, <1>3, <1>6 DEF OnClose
  <2>2. pool' = q
    BY <1>1, <1>2, <1>3, <1>6, <1>8 DEF OnClose
  <2> QED BY <1>1, <1>11, <2>1, <2>2 DEF OnClose, State
<1> QED BY <1>14, <1>15

-----------------------------------------------------------------------------
(* Invariance *)

\* The invariant of the next state, in terms of the next state.
LEMMA PrimeLemma ==
  ASSUME StateOK(State', answers')
  PROVE  StateOK(State, answers)'
BY DEF StateOK, BusyOK, JobsOK, ActiveOK, QueueOK, PlacedOK, CountOK, PendingOK, ProcsOK, ReadyOK,
       ChannelOK, MayGetReady, MayCount, Alive, State

LEMMA InitLemma == Init => IInv
<1> SUFFICES ASSUME Init PROVE IInv
  OBVIOUS
<1>1. Size \in Nat /\ Forks = 1..Size
  BY PoolAssumption DEF Forks
<1>2. PICK F : F = [f \in Forks |-> [IdleFork EXCEPT !.proc = f]]
  OBVIOUS
<1>3. F \in [Forks -> ForkRec] /\ \A f \in Forks : F[f].proc = f /\ F[f].active = NoJob
  <2>1. IdleFork \in ForkRec /\ IdleFork.active = NoJob
    BY DEF IdleFork, ForkRec
  <2>2. \A f \in Forks : /\ [IdleFork EXCEPT !.proc = f] \in ForkRec
                         /\ [IdleFork EXCEPT !.proc = f].proc = f
                         /\ [IdleFork EXCEPT !.proc = f].active = NoJob
    BY <1>1, <2>1 DEF ForkRec
  <2> QED BY <1>2, <2>2
<1>4. PICK z : z = [j \in Jobs |-> 0]
  OBVIOUS
<1>5. pool = [forks |-> F, queue |-> <<>>, pending |-> {}, nextId |-> 0, attempts |-> z, retries |-> z,
              readyCount |-> 0, waiter |-> "none", shuttingDown |-> FALSE, shutdown |-> "none"]
  BY <1>2, <1>4 DEF Init
<1>6. z \in [Jobs -> Nat] /\ \A j \in Jobs : z[j] = 0
  BY <1>4
<1>7. /\ pool \in PoolRec /\ pool.forks = F /\ pool.queue = <<>> /\ pool.pending = {} /\ pool.nextId = 0
      /\ pool.attempts = z /\ pool.retries = z /\ pool.readyCount = 0 /\ ~pool.shuttingDown
      /\ pool.shutdown = "none"
  <2>1. <<>> \in Seq(Jobs)
    BY EmptySeq
  <2> QED BY <1>3, <1>5, <1>6, <2>1 DEF PoolRec
<1>8. \A f \in Forks : LET c == NewChild(f, TRUE)
                       IN  /\ c \in ChildState /\ c.initial /\ c.status = "starting" /\ c.out = <<>>
                           /\ ~c.closed
  BY EmptySeq DEF NewChild, ChildState
<1>9. /\ children \in Seq(ChildState) /\ Len(children) = Size
      /\ \A p \in 1..Size : /\ children[p].initial /\ children[p].status = "starting"
                            /\ children[p].out = <<>> /\ ~children[p].closed
  <2>1. children = [f \in 1..Size |-> NewChild(f, TRUE)]
    BY <1>1 DEF Init
  <2>2. \A f \in 1..Size : children[f] = NewChild(f, TRUE)
    BY <2>1
  <2>3. \A f \in 1..Size : NewChild(f, TRUE) \in ChildState
    BY <1>1, <1>8
  <2>4. children \in Seq(ChildState) /\ Len(children) = Size
    <3> DEFINE first(f) == NewChild(f, TRUE)
    <3>1. children = [f \in 1..Size |-> first(f)] /\ \A f \in 1..Size : first(f) \in ChildState
      BY <2>1, <2>3
    <3> HIDE DEF first
    <3> QED BY <1>1, <3>1
  <2> QED BY <1>1, <1>8, <2>2, <2>4
<1>10. answers \in [Jobs -> Seq(Results)] /\ \A j \in Jobs : answers[j] = <<>>
  <2>1. <<>> \in Seq(Results)
    BY EmptySeq
  <2> QED BY <2>1 DEF Init
<1>11. BusyOK(pool) /\ ActiveOK(pool, answers)
  BY <1>3, <1>7 DEF BusyOK, ActiveOK
<1>12. QueueOK(pool, answers)
  <2>1. 1..Len(pool.queue) = {}
    BY <1>7
  <2> QED BY <2>1 DEF QueueOK
<1>13. PlacedOK(pool, answers)
  <2> SUFFICES ASSUME NEW j \in Jobs PROVE ~(j <= pool.nextId) /\ answers[j] = <<>> /\ pool.attempts[j] = 0
    BY DEF PlacedOK
  <2> QED BY <1>6, <1>7, <1>10, JobFacts
<1>14. CountOK(pool)
  BY <1>6, <1>7, JobFacts DEF CountOK
<1>15. PendingOK(pool)
  BY <1>3, <1>7, JobFacts DEF PendingOK
<1>16. ProcsOK(pool, children)
  BY <1>1, <1>3, <1>7, <1>9 DEF ProcsOK
<1>17. ReadyOK(pool, children)
  <2>1. MayGetReady(children) = 1..Size
    BY <1>9 DEF MayGetReady, MayCount
  <2>2. Cardinality(1..Size) = Size
    <3>1. Size \in Int /\ 1 \in Int /\ ~(1 > Size) => Size - 1 + 1 = Size
      BY <1>1
    <3>2. (1 > Size) => Size = 0
      BY <1>1
    <3> QED BY <1>1, <3>1, <3>2, FS_Interval
  <2>3. \A p \in 1..Len(children) : ChannelOK(children[p])
    <3> TAKE p \in 1..Len(children)
    <3>1. children[p].out = <<>> /\ ~children[p].closed
      BY <1>9
    <3>2. Len(children[p].out) = 0
      BY <3>1
    <3> QED BY <3>1, <3>2 DEF ChannelOK
  <2>4. pool.readyCount + Cardinality(MayGetReady(children)) = Size
    BY <1>1, <1>7, <2>1, <2>2
  <2> QED BY <1>1, <2>3, <2>4 DEF ReadyOK
<1>18. State \in StateRec /\ State.pool = pool /\ State.children = children
  BY <1>7, <1>9 DEF State, StateRec
<1>19. failures \in 0..MaxFailures
  BY PoolAssumption DEF Init
<1> QED BY <1>10, <1>11, <1>12, <1>13, <1>14, <1>15, <1>16, <1>17, <1>18, <1>19 DEF IInv, StateOK, JobsOK

LEMMA StepLemma == IInv /\ [Next]_vars => IInv'
<1> SUFFICES ASSUME IInv, [Next]_vars PROVE IInv'
  OBVIOUS
<1>0. StateOK(State, answers) /\ failures \in 0..MaxFailures
  BY DEF IInv
<1>1. failures' \in 0..MaxFailures
  <2>1. failures' = failures \/ (failures < MaxFailures /\ failures' = failures + 1)
    BY DEF Next, vars, Enqueue, AwaitReady, ShutdownTimeout, Shutdown, Timeout, Handler, OnReady,
           OnResult, OnExit, OnClose, OnError, Start, Crash, Finish
  <2> QED BY SMTT(30), <1>0, <2>1, PoolAssumption
<1>2. CASE Enqueue
  BY <1>0, <1>1, <1>2, EnqueueLemma, PrimeLemma DEF IInv
<1>3. CASE AwaitReady
  BY <1>0, <1>1, <1>3, AwaitReadyLemma, PrimeLemma DEF IInv
<1>4. CASE ShutdownTimeout
  BY <1>0, <1>1, <1>4, ShutdownTimeoutLemma, PrimeLemma DEF IInv
<1>5. ASSUME NEW valid \in BOOLEAN, Shutdown(valid) PROVE IInv'
  BY <1>0, <1>1, <1>5, ShutdownLemma, PrimeLemma DEF IInv
<1>6. ASSUME NEW f \in Forks, Timeout(f) PROVE IInv'
  BY <1>0, <1>1, <1>6, TimeoutLemma, PrimeLemma DEF IInv
<1>7. ASSUME NEW p \in Processes, OnReady(p) PROVE IInv'
  BY <1>0, <1>1, <1>7, OnReadyLemma, PrimeLemma DEF IInv
<1>8. ASSUME NEW p \in Processes, OnResult(p) PROVE IInv'
  BY <1>0, <1>1, <1>8, OnResultLemma, PrimeLemma DEF IInv
<1>9. ASSUME NEW p \in Processes, OnExit(p) PROVE IInv'
  BY <1>0, <1>1, <1>9, OnExitLemma, PrimeLemma DEF IInv
<1>10. ASSUME NEW p \in Processes, OnClose(p) PROVE IInv'
  BY <1>0, <1>1, <1>10, OnCloseLemma, PrimeLemma DEF IInv
<1>11. ASSUME NEW p \in Processes, OnError(p) PROVE IInv'
  BY <1>0, <1>1, <1>11, OnErrorLemma, PrimeLemma DEF IInv
<1>12. ASSUME NEW p \in Processes, Start(p) PROVE IInv'
  BY <1>0, <1>1, <1>12, StartLemma, PrimeLemma DEF IInv
<1>13. ASSUME NEW p \in Processes, Crash(p) PROVE IInv'
  BY <1>0, <1>1, <1>13, CrashLemma, PrimeLemma DEF IInv
<1>14. ASSUME NEW p \in Processes, NEW recycle \in BOOLEAN, Finish(p, recycle) PROVE IInv'
  BY <1>0, <1>1, <1>14, FinishLemma, PrimeLemma DEF IInv
<1>15. CASE UNCHANGED vars
  <2>1. State' = State /\ answers' = answers
    BY <1>15 DEF vars, State
  <2>2. StateOK(State', answers')
    BY <1>0, <2>1
  <2> QED BY <1>1, <2>2, PrimeLemma DEF IInv
<1> QED BY <1>2, <1>3, <1>4, <1>5, <1>6, <1>7, <1>8, <1>9, <1>10, <1>11, <1>12, <1>13, <1>14, <1>15
        DEF Next, Handler

\* Jobs, processes, channels and counts stay consistent for ever (scripts/compiler-pool.ts).
THEOREM Invariance == Spec => []IInv
<1> QED BY InitLemma, StepLemma, PTL DEF Spec

\* The types hold for every number of forks, jobs, retries and failures: in particular
\* dispatch() gives a job to at most MAX_WORKER_CRASH_RETRIES + 1 processes, and no more
\* than the first Size processes are counted as ready.
THEOREM TypeCorrect == Spec => []TypeOK
<1>1. IInv => TypeOK
  <2> SUFFICES ASSUME IInv PROVE TypeOK
    OBVIOUS
  <2>1. PICK s, a : Known(s, a)
    BY KnownLemma DEF IInv
  <2> USE DEF Known
  <2>2. \A f \in Forks : pool.forks[f] \in ForkState
    <3> TAKE f \in Forks
    <3>1. s.pool.forks[f] \in ForkRec /\ s.pool.forks[f].proc \in 1..Len(s.children)
      BY <2>1 DEF PoolRec, StateOK, ProcsOK
    <3> QED BY <2>1, <3>1 DEF ForkRec, ForkState, Processes
  <2>3. pool.forks \in [Forks -> ForkState]
    BY <2>1, <2>2 DEF PoolRec
  <2>4. pool.nextId \in 0..MaxJobs
    BY <2>1, JobFacts DEF PoolRec, StateOK, JobsOK, CountOK
  <2>5. pool.attempts \in [Jobs -> 0..(MaxRetries + 1)] /\ pool.retries \in [Jobs -> 0..MaxRetries]
    <3>1. /\ s.pool.attempts \in [Jobs -> Nat] /\ s.pool.retries \in [Jobs -> Nat]
          /\ \A j \in Jobs : s.pool.attempts[j] <= s.pool.retries[j] + 1 /\ s.pool.retries[j] <= MaxRetries
      BY <2>1 DEF PoolRec, StateOK, JobsOK, CountOK
    <3>2. \A j \in Jobs : s.pool.attempts[j] \in 0..(MaxRetries + 1) /\ s.pool.retries[j] \in 0..MaxRetries
      BY <3>1, JobFacts
    <3> QED BY <2>1, <3>1, <3>2
  <2>6. pool.readyCount \in 0..Size
    <3>1. IsFiniteSet(MayGetReady(s.children))
      <4>1. Len(s.children) \in Nat /\ MayGetReady(s.children) \in SUBSET (1..Len(s.children))
        BY <2>1 DEF MayGetReady
      <4>2. IsFiniteSet(1..Len(s.children))
        BY <4>1, IntervalFinite
      <4> QED BY <4>1, <4>2, FS_Subset
    <3>2. PICK n, r \in Nat : n = Cardinality(MayGetReady(s.children)) /\ r = s.pool.readyCount
      BY <2>1, <3>1, FS_CardinalityType DEF PoolRec
    <3>3. r + n <= Size
      BY <2>1, <3>2 DEF StateOK, ReadyOK
    <3> QED BY <2>1, <3>2, <3>3, JobFacts
  <2>7. pool \in PoolState
    BY <2>1, <2>3, <2>4, <2>5, <2>6 DEF PoolRec, PoolState
  <2> QED BY <2>1, <2>7 DEF TypeOK, IInv
<1> QED BY <1>1, Invariance, PTL

\* Every process that the pool no longer owns, or that it shuts down, has been told to
\* end; when shutdown() resolves the processes of every generation have closed.
THEOREM NoneOrphaned == Spec => []NoOrphan
<1>1. IInv => NoOrphan
  BY DEF IInv, StateOK, State, ProcsOK, NoOrphan, Processes, Owned, Outstanding
<1> QED BY <1>1, Invariance, PTL

\* A submitted job is in exactly one place, and answered once, however timeouts,
\* crashes, late results and retries fall together.
THEOREM JobsHaveOnePlace == Spec => []OnePlace
<1>1. IInv => OnePlace
  <2> SUFFICES ASSUME IInv PROVE OnePlace
    OBVIOUS
  <2>1. PICK s, a : Known(s, a)
    BY KnownLemma DEF IInv
  <2>2. /\ s.pool = pool /\ a = answers /\ s.pool \in PoolRec /\ a \in [Jobs -> Seq(Results)]
        /\ JobsOK(s.pool, a)
    BY <2>1 DEF Known, StateOK
  <2> DEFINE p == s.pool
             act(j) == {f \in Forks : p.forks[f].active = j}
             que(j) == {k \in DOMAIN p.queue : p.queue[k] = j}
  <2>3. \A j \in Jobs : Places(j) = Cardinality(act(j)) + Cardinality(que(j))
    BY <2>2 DEF Places, Active
  <2>4. DOMAIN p.queue = 1..Len(p.queue) /\ \A k \in 1..Len(p.queue) : p.queue[k] \in Jobs
    BY <2>2 DEF PoolRec
  <2>5. Cardinality({}) = 0
    BY FS_EmptySet
  <2>6. \A x : Cardinality({x}) = 1
    BY FS_Singleton
  <2>7. ASSUME NEW j \in Jobs, j <= p.nextId
        PROVE  Places(j) + Len(answers[j]) = 1
    <3>1. CASE \E f \in Forks : p.forks[f].active = j
      <4>1. PICK f \in Forks : p.forks[f].active = j
        BY <3>1
      <4>2. act(j) = {f} /\ que(j) = {} /\ a[j] = <<>>
        BY <2>2, <2>4, <4>1, JobFacts DEF JobsOK, ActiveOK
      <4>3. Cardinality(act(j)) = 1 /\ Cardinality(que(j)) = 0 /\ Len(a[j]) = 0
        BY <2>5, <2>6, <4>2
      <4> HIDE DEF act, que
      <4> QED BY <2>2, <2>3, <4>3
    <3>2. CASE \E k \in 1..Len(p.queue) : p.queue[k] = j
      <4>1. PICK k \in 1..Len(p.queue) : p.queue[k] = j
        BY <3>2
      <4>2. act(j) = {}
        BY <2>2, <4>1, JobFacts DEF JobsOK, ActiveOK
      <4>3. que(j) = {k} /\ a[j] = <<>>
        BY <2>2, <2>4, <4>1 DEF JobsOK, QueueOK
      <4>4. Cardinality(act(j)) = 0 /\ Cardinality(que(j)) = 1 /\ Len(a[j]) = 0
        BY <2>5, <2>6, <4>2, <4>3
      <4> HIDE DEF act, que
      <4> QED BY <2>2, <2>3, <4>4
    <3>3. CASE Len(a[j]) = 1
      <4>1. a[j] # <<>>
        BY <3>3
      <4>2. act(j) = {} /\ que(j) = {}
        BY <2>2, <2>4, <4>1, JobFacts DEF JobsOK, ActiveOK, QueueOK
      <4>3. Cardinality(act(j)) = 0 /\ Cardinality(que(j)) = 0
        BY <2>5, <4>2
      <4> HIDE DEF act, que
      <4> QED BY <2>2, <2>3, <3>3, <4>3
    <3> QED BY <2>2, <2>7, <3>1, <3>2, <3>3 DEF JobsOK, PlacedOK
  <2>8. ASSUME NEW j \in Jobs, ~(j <= p.nextId)
        PROVE  Places(j) + Len(answers[j]) = 0
    <3>1. act(j) = {}
      BY <2>2, <2>8, JobFacts DEF JobsOK, ActiveOK
    <3>2. que(j) = {}
      BY <2>2, <2>4, <2>8 DEF JobsOK, QueueOK
    <3>3. Len(a[j]) = 0
      BY <2>2, <2>8 DEF JobsOK, PlacedOK
    <3> QED BY <2>2, <2>3, <2>5, <3>1, <3>2, <3>3, SMTT(30)
  <2>9. p.nextId \in Nat /\ p.nextId <= MaxJobs /\ MaxJobs \in Nat /\ Jobs = 1..MaxJobs
    BY <2>2, JobFacts DEF PoolRec, JobsOK, CountOK, Jobs
  <2>10. \A j \in 1..pool.nextId : Places(j) + Len(answers[j]) = 1
    <3> TAKE j \in 1..pool.nextId
    <3>1. j \in Jobs /\ j <= p.nextId
      BY <2>2, <2>9
    <3> QED BY <2>7, <3>1
  <2>11. \A j \in (pool.nextId + 1)..MaxJobs : Places(j) + Len(answers[j]) = 0
    <3> TAKE j \in (pool.nextId + 1)..MaxJobs
    <3>1. j \in Jobs /\ ~(j <= p.nextId)
      BY <2>2, <2>9
    <3> QED BY <2>8, <3>1
  <2>12. pool.pending = {pool.forks[f].active : f \in Forks} \ {NoJob}
    <3>1. p.pending \in SUBSET Jobs /\ \A f \in Forks : p.forks[f].active \in Jobs \cup {NoJob}
      BY <2>2 DEF PoolRec, ForkRec
    <3>2. \A j \in Jobs : j \in p.pending <=> \E f \in Forks : p.forks[f].active = j
      BY <2>2 DEF JobsOK, PendingOK
    <3> QED BY <2>2, <3>1, <3>2, JobFacts
  <2> QED BY <2>10, <2>11, <2>12 DEF OnePlace
<1> QED BY <1>1, Invariance, PTL
=============================================================================
