-------------------------- MODULE ClaimIssueProofs --------------------------
(***************************************************************************)
(* For every number of invocations, agents, issues and attempts: no claim  *)
(* without --force takes an issue that another agent holds, a release ends *)
(* the claim that it was decided on, and a reservation takes a number that *)
(* nobody has, though pushes are lost, land late or land unseen.           *)
(*                                                                         *)
(* The argument: a push carries the tip that its decision was taken at,    *)
(* and the server takes it only while that is still the tip, so what a     *)
(* commit replaces is what its writer has read.  A record at a tip does    *)
(* not depend on the commits behind it.                                    *)
(***************************************************************************)
EXTENDS ClaimIssue, SequenceTheorems, NatFacts

Change == [key : Nat \ {0}, rec : Record]

\* A commit that was decided on at the tip n: what it replaces there is what its
\* writer has checked (writeMode's refusals, doAllocate's number).  A claim is only
\* checked against the legacy book where that book can be read.
DecidedAt(n, c) ==
  LET old == AnyEntry(n, c.key, TRUE)
  IN  /\ c.rec.kind = "claim" /\ ~c.rec.force /\ ~LegacyMayFail =>
           ~IsHeld(old) \/ old.assignee = c.rec.assignee
      /\ c.rec.kind \in {"release", "complete"} => IsHeld(old) /\ old.assignee = c.rec.assignee
      /\ c.rec.kind = "allocate" => old = NoRecord

\* A push that may still land: it was decided on at a tip that the branch has had.
PushOK(base, c) ==
  /\ c \in Change /\ c.rec.kind # "none"
  /\ base \in Nat /\ base <= Len(log)
  /\ DecidedAt(base, c)

LogInv ==
  /\ log \in Seq(Change)
  /\ \A n \in 1..Len(log) : log[n].rec.kind # "none" /\ DecidedAt(n - 1, log[n])

FlightInv == \A m \in inflight : PushOK(m.base, m.commit)

\* What an invocation that is under way knows.
BusyOK(p) ==
  LET s == proc[p]
  IN  /\ s.pc \in {"read", "push", "verify"} =>
           /\ s.kind \in {"claim", "release", "complete", "allocate"}
           /\ s.legacy \/ LegacyMayFail
           /\ s.kind = "allocate" => s.legacy
           /\ s.kind = "claim" => s.who # Nobody
           /\ s.kind # "allocate" => s.key # 0
      /\ s.pc \in {"push", "verify"} => s.rec.by = p /\ s.rec.kind = s.kind
      /\ s.pc = "push" => PushOK(s.base, Commit(p))

\* Each attempt that is over has seen the branch grow or its push fail.
AttemptsOK(p) ==
  LET s == proc[p]
  IN  /\ s.pc = "read" => /\ (Len(log) - s.start) + s.faults >= s.attempt - 1
                          /\ s.faults <= s.attempt - 1
      /\ s.pc = "push" => /\ (s.base - s.start) + s.faults >= s.attempt - 1
                          /\ s.faults <= s.attempt - 1
      /\ s.pc \in {"verify", "gaveup"} => /\ (Len(log) - s.start) + s.faults >= s.attempt
                                          /\ s.faults <= s.attempt

\* A number that an invocation has reported is in a commit of that invocation.
ReportOK(p) ==
  proc[p].pc = "ok" /\ proc[p].kind = "allocate" =>
    \E n \in 1..Len(log) : /\ log[n].key = proc[p].key
                           /\ log[n].rec.kind = "allocate" /\ log[n].rec.by = p

ProcInv ==
  /\ proc \in [Procs -> ProcState]
  /\ \A p \in Procs : /\ proc[p].base <= Len(log) /\ proc[p].start <= Len(log)
                      /\ BusyOK(p) /\ AttemptsOK(p) /\ ReportOK(p)

\* The inductive invariant.
IInv == LogInv /\ FlightInv /\ ProcInv

-----------------------------------------------------------------------------
(* Records at a tip *)

\* The record of a key at a tip is the one of a commit up to that tip, or none.
LEMMA EntryLemma ==
  ASSUME NEW n \in Nat, NEW k
  PROVE  \/ Entry(n, k) = NoRecord /\ \A j \in 1..n : log[j].key # k
         \/ \E j \in 1..n : log[j].key = k /\ Entry(n, k) = log[j].rec
<1> DEFINE at == {j \in 1..n : log[j].key = k}
<1>1. CASE at = {}
  BY <1>1 DEF Entry
<1>2. CASE at # {}
  <2>1. at \subseteq Nat /\ \A x \in at : x <= n
    OBVIOUS
  <2>2. Max(at) \in at
    <3> HIDE DEF at
    <3> QED BY <1>2, <2>1, BoundedMaxLemma
  <2>3. Entry(n, k) = log[Max(at)].rec
    BY <1>2 DEF Entry
  <2> QED BY <2>2, <2>3
<1> QED BY <1>1, <1>2

\* A tip that has been read keeps its records, whatever is pushed on top of it.
LEMMA PrefixLemma ==
  ASSUME NEW n \in Nat, NEW k, \A j \in 1..n : log'[j] = log[j]
  PROVE  Entry(n, k)' = Entry(n, k)
<1> DEFINE at == {j \in 1..n : log[j].key = k}
           atp == {j \in 1..n : log'[j].key = k}
<1>1. at = atp
  OBVIOUS
<1>2. CASE at = {}
  BY <1>1, <1>2 DEF Entry
<1>3. CASE at # {}
  <2>1. at \subseteq Nat /\ \A x \in at : x <= n
    OBVIOUS
  <2>2. Max(at) \in at
    <3> HIDE DEF at
    <3> QED BY <1>3, <2>1, BoundedMaxLemma
  <2>3. Entry(n, k) = log[Max(at)].rec
    BY <1>3 DEF Entry
  <2>4. Entry(n, k)' = log'[Max(atp)].rec
    BY <1>1, <1>3 DEF Entry
  <2> QED BY <1>1, <2>2, <2>3, <2>4
<1> QED BY <1>2, <1>3

\* So a decision that was right at a tip stays right at that tip.
LEMMA DecidedLemma ==
  ASSUME NEW n \in Nat, NEW c, \A j \in 1..n : log'[j] = log[j], DecidedAt(n, c)
  PROVE  DecidedAt(n, c)'
<1>1. Entry(n, c.key)' = Entry(n, c.key)
  BY PrefixLemma
<1>2. AnyEntry(n, c.key, TRUE)' = AnyEntry(n, c.key, TRUE)
  BY <1>1 DEF AnyEntry, LegacyRecord
<1> QED BY <1>2 DEF DecidedAt, IsHeld

-----------------------------------------------------------------------------
(* Issue numbers *)

\* contiguousMax answers a number of the set whose successor is not in the set.
LEMMA ContiguousLemma ==
  ASSUME NEW S, S \subseteq Nat \ {0}, S # {}, IsFiniteSet(S)
  PROVE  ContiguousMax(S) \in S /\ ContiguousMax(S) + 1 \notin S
<1> DEFINE B == Body(S)
           m == Max(B)
<1>0. StrayGap \in Nat \ {0}
  BY ClaimAssumption
<1>1. B \subseteq S /\ B \subseteq Nat /\ IsFiniteSet(B)
  <2>1. B \in SUBSET S
    BY DEF Body
  <2> QED BY <2>1, FS_Subset
<1>2. B # {}
  <2>1. Min(S) \in S /\ \A y \in S : Min(S) <= y
    BY MinLemma
  <2>2. \A y \in S : ~(y < Min(S))
    <3> TAKE y \in S
    <3>1. Min(S) \in Nat /\ y \in Nat /\ Min(S) <= y
      BY <2>1
    <3> QED BY <3>1
  <2>3. Min(S) \in B
    BY <2>1, <2>2 DEF Body
  <2> QED BY <2>3
<1>3. ContiguousMax(S) = m
  BY DEF ContiguousMax
<1>4. m \in B /\ \A y \in B : y <= m
  <2> HIDE DEF B
  <2> QED BY <1>1, <1>2, FiniteMaxLemma
<1> HIDE DEF m
<1>5. m \in Nat /\ m \in S
  BY <1>1, <1>4
<1>6. ASSUME m + 1 \in S PROVE FALSE
  <2>1. \A n \in S : n < m + 1 => \E k \in S : n < k /\ k <= m + 1 /\ k - n <= StrayGap
    <3> SUFFICES ASSUME NEW n \in S, n < m + 1
                 PROVE  \E k \in S : n < k /\ k <= m + 1 /\ k - n <= StrayGap
      OBVIOUS
    <3>1. n \in Nat
      OBVIOUS
    <3>2. CASE n = m
      <4>1. n < m + 1 /\ m + 1 <= m + 1 /\ (m + 1) - n <= StrayGap
        BY <1>0, <1>5, <3>2
      <4> QED BY <1>6, <4>1
    <3>3. CASE n # m
      <4>1. n < m
        BY <1>5, <3>1, <3>3
      <4>2. PICK k \in S : n < k /\ k <= m /\ k - n <= StrayGap
        BY <1>4, <4>1 DEF Body
      <4>3. k <= m + 1
        BY <1>5, <4>2
      <4> QED BY <4>2, <4>3
    <3> QED BY <3>2, <3>3
  <2>2. m + 1 \in B
    BY <1>6, <2>1 DEF Body
  <2>3. m + 1 <= m
    BY <1>4, <2>2
  <2> QED BY <1>5, <2>3
<1> QED BY <1>3, <1>5, <1>6

\* The number that doAllocate proposes has no record in either book.
LEMMA NumberLemma ==
  ASSUME NEW n \in Nat, n <= Len(log), log \in Seq(Change), NEW p, proc[p].legacy
  PROVE  LET k == ContiguousMax(UsedIds(p, n)) + 1
         IN  k \in Nat \ {0} /\ AnyEntry(n, k, TRUE) = NoRecord
<1> DEFINE S == UsedIds(p, n)
           k == ContiguousMax(S) + 1
<1>1. S = KnownIds \cup RefIds(n) \cup DOMAIN LegacyHolder
  BY DEF UsedIds
<1>2. \A j \in 1..n : j \in 1..Len(log) /\ log[j].key \in Nat \ {0}
  <2>1. Len(log) \in Nat /\ \A j \in 1..n : j \in 1..Len(log)
    BY LenProperties
  <2>2. \A j \in 1..Len(log) : log[j] \in Change
    BY ElementOfSeq
  <2> QED BY <2>1, <2>2 DEF Change
<1>3. RefIds(n) \subseteq Nat \ {0}
  BY <1>2 DEF RefIds
<1>4. IsFiniteSet(RefIds(n))
  <2> DEFINE f == [j \in 1..n |-> log[j].key]
  <2>1. f \in Surjection(1..n, RefIds(n))
    BY DEF Surjection, RefIds
  <2>2. IsFiniteSet(1..n)
    BY FS_Interval
  <2> QED BY <2>1, <2>2, FS_Surjection
<1>5. S \subseteq Nat \ {0} /\ S # {} /\ IsFiniteSet(S)
  <2>1. IsFiniteSet(KnownIds \cup RefIds(n))
    BY <1>4, ClaimAssumption, FS_Union
  <2>2. IsFiniteSet((KnownIds \cup RefIds(n)) \cup DOMAIN LegacyHolder)
    BY <2>1, ClaimAssumption, FS_Union
  <2> HIDE DEF S
  <2>3. IsFiniteSet(S)
    BY <1>1, <2>2
  <2> QED BY <1>1, <1>3, <2>3, ClaimAssumption
<1> HIDE DEF S
<1>6. ContiguousMax(S) \in Nat /\ k \notin S
  BY <1>5, ContiguousLemma
<1>7. Entry(n, k) = NoRecord
  <2>1. \A j \in 1..n : log[j].key # k
    BY <1>1, <1>6 DEF RefIds
  <2> QED BY <2>1, EntryLemma
<1>8. LegacyRecord(k) = NoRecord
  BY <1>1, <1>6 DEF LegacyRecord
<1>9. AnyEntry(n, k, TRUE) = NoRecord
  BY <1>7, <1>8 DEF AnyEntry
<1>10. k \in Nat \ {0}
  <2>1. \A j \in Nat : j + 1 \in Nat \ {0}
    OBVIOUS
  <2> QED BY <1>6, <2>1
<1> HIDE DEF k
<1> QED BY <1>9, <1>10 DEF k, S

-----------------------------------------------------------------------------
(* The branch only grows *)

\* What every step does to the branch: commits are kept, and the new ones were
\* decided on at the tip before them.
Grows ==
  /\ LogInv'
  /\ Len(log) \in Nat /\ Len(log') \in Nat /\ Len(log) <= Len(log')
  /\ \A j \in 1..Len(log) : log'[j] = log[j]

\* A step that leaves the branch alone.
LEMMA SameLogLemma ==
  ASSUME IInv, log' = log
  PROVE  Grows
<1>1. log \in Seq(Change) /\ Len(log) \in Nat
  BY LenProperties DEF IInv, LogInv
<1>2. \A n \in 1..Len(log) : DecidedAt(n - 1, log[n])'
  <2> TAKE n \in 1..Len(log)
  <2>1. DecidedAt(n - 1, log[n])
    BY DEF IInv, LogInv
  <2> QED BY <2>1 DEF DecidedAt, AnyEntry, Entry
<1>3. LogInv'
  BY <1>1, <1>2 DEF IInv, LogInv
<1> QED BY <1>1, <1>3 DEF Grows

\* The server takes a push that extends the tip.
LEMMA AppendLemma ==
  ASSUME IInv, NEW c, PushOK(Len(log), c), log' = Append(log, c)
  PROVE  Grows /\ Len(log') = Len(log) + 1 /\ log'[Len(log) + 1] = c
<1>1. log \in Seq(Change) /\ Len(log) \in Nat /\ c \in Change
  BY LenProperties DEF IInv, LogInv, PushOK
<1>2. /\ log' \in Seq(Change) /\ Len(log') = Len(log) + 1
      /\ \A j \in 1..Len(log) : log'[j] = log[j]
      /\ log'[Len(log) + 1] = c
  BY <1>1, AppendProperties
<1>3. \A n \in 1..Len(log') : log'[n].rec.kind # "none" /\ DecidedAt(n - 1, log[n])'
  <2> TAKE n \in 1..Len(log')
  <2>1. CASE n \in 1..Len(log)
    <3>1. PICK d : d = log[n]
      OBVIOUS
    <3>2. n - 1 \in Nat /\ \A j \in 1..(n - 1) : log'[j] = log[j]
      BY <1>1, <1>2, <2>1
    <3>3. DecidedAt(n - 1, d) /\ d.rec.kind # "none"
      BY <2>1, <3>1 DEF IInv, LogInv
    <3>4. DecidedAt(n - 1, d)'
      BY <3>2, <3>3, DecidedLemma
    <3>5. d = log'[n]
      BY <1>2, <2>1, <3>1
    <3> QED BY <3>3, <3>4, <3>5 DEF DecidedAt, AnyEntry, Entry
  <2>2. CASE n = Len(log) + 1
    <3>1. PICK m \in Nat : m = Len(log)
      BY <1>1
    <3>2. n - 1 = m /\ \A j \in 1..m : log'[j] = log[j]
      BY <1>1, <1>2, <2>2, <3>1
    <3>3. DecidedAt(m, c) /\ c.rec.kind # "none"
      BY <3>1 DEF PushOK
    <3>4. DecidedAt(m, c)'
      BY <3>2, <3>3, DecidedLemma
    <3>5. log'[n] = c
      BY <1>2, <2>2
    <3>6. DecidedAt(n - 1, c)'
      BY <3>2, <3>4
    <3> QED BY <3>3, <3>5, <3>6 DEF DecidedAt, AnyEntry, Entry
  <2> QED BY <1>1, <1>2, <2>1, <2>2
<1>4. LogInv'
  BY <1>2, <1>3 DEF LogInv
<1> QED BY <1>1, <1>2, <1>4 DEF Grows

\* A push that is pending stays justified.
LEMMA KeepPushLemma ==
  ASSUME Grows, NEW b, NEW c, PushOK(b, c)
  PROVE  PushOK(b, c)'
<1>1. b \in Nat /\ b <= Len(log) /\ DecidedAt(b, c)
  BY DEF PushOK
<1>2. \A j \in 1..b : log'[j] = log[j]
  BY <1>1 DEF Grows
<1>3. DecidedAt(b, c)'
  BY <1>1, <1>2, DecidedLemma
<1>4. b <= Len(log')
  BY <1>1 DEF Grows
<1> QED BY <1>1, <1>3, <1>4 DEF PushOK

\* An invocation that takes no part in a step keeps what it knows.
LEMMA OthersLemma ==
  ASSUME IInv, Grows, NEW q \in Procs, proc'[q] = proc[q]
  PROVE  /\ proc'[q].base <= Len(log') /\ proc'[q].start <= Len(log')
         /\ BusyOK(q)' /\ AttemptsOK(q)' /\ ReportOK(q)'
<1>1. /\ proc[q] \in ProcState /\ proc[q].base <= Len(log) /\ proc[q].start <= Len(log)
      /\ BusyOK(q) /\ AttemptsOK(q) /\ ReportOK(q)
  BY DEF IInv, ProcInv
<1>2. /\ Len(log) \in Nat /\ Len(log') \in Nat /\ Len(log) <= Len(log')
      /\ \A j \in 1..Len(log) : log'[j] = log[j]
  BY DEF Grows
<1>3. /\ proc[q].base \in Nat /\ proc[q].start \in Nat /\ proc[q].faults \in Nat
      /\ proc[q].attempt \in Nat
  BY <1>1, ClaimAssumption DEF ProcState
<1>4. proc'[q].base <= Len(log') /\ proc'[q].start <= Len(log')
  BY <1>1, <1>2, <1>3
<1>5. BusyOK(q)'
  <2>1. ASSUME proc[q].pc = "push" PROVE PushOK(proc[q].base, Commit(q))'
    <3>1. PICK b, c : b = proc[q].base /\ c = Commit(q)
      OBVIOUS
    <3>2. PushOK(b, c)
      BY <1>1, <2>1, <3>1 DEF BusyOK
    <3>3. PushOK(b, c)'
      BY <3>2, KeepPushLemma
    <3>4. b = proc'[q].base /\ c = Commit(q)'
      BY <3>1 DEF Commit
    <3> QED BY <3>3, <3>4 DEF PushOK, DecidedAt, AnyEntry, Entry
  <2> QED BY <1>1, <2>1 DEF BusyOK
<1>6. AttemptsOK(q)'
  <2>1. \A m, n, a, b, f \in Nat : m <= n /\ (m - a) + f >= b => (n - a) + f >= b
    OBVIOUS
  <2>2. \A m, n, a, b, f \in Nat : m <= n /\ (m - a) + f >= b - 1 => (n - a) + f >= b - 1
    OBVIOUS
  <2> QED BY <1>1, <1>2, <1>3, <2>1, <2>2 DEF AttemptsOK
<1>7. ReportOK(q)'
  <2> SUFFICES ASSUME proc[q].pc = "ok", proc[q].kind = "allocate"
               PROVE  \E n \in 1..Len(log') : /\ log'[n].key = proc[q].key
                                              /\ log'[n].rec.kind = "allocate"
                                              /\ log'[n].rec.by = q
    BY DEF ReportOK
  <2>1. PICK n \in 1..Len(log) : /\ log[n].key = proc[q].key
                                 /\ log[n].rec.kind = "allocate" /\ log[n].rec.by = q
    BY <1>1 DEF ReportOK
  <2>2. n \in 1..Len(log') /\ log'[n] = log[n]
    BY <1>2
  <2> QED BY <2>1, <2>2
<1> QED BY <1>4, <1>5, <1>6, <1>7

\* A step of one invocation.
LEMMA OneLemma ==
  ASSUME IInv, Grows, NEW p \in Procs, NEW s \in ProcState, proc' = [proc EXCEPT ![p] = s],
         s.base <= Len(log'), s.start <= Len(log'),
         BusyOK(p)', AttemptsOK(p)', ReportOK(p)',
         FlightInv'
  PROVE  IInv'
<1>1. proc \in [Procs -> ProcState]
  BY DEF IInv, ProcInv
<1>2. proc' \in [Procs -> ProcState] /\ proc'[p] = s /\ \A q \in Procs : q # p => proc'[q] = proc[q]
  BY <1>1
<1>3. \A q \in Procs : /\ proc'[q].base <= Len(log') /\ proc'[q].start <= Len(log')
                       /\ BusyOK(q)' /\ AttemptsOK(q)' /\ ReportOK(q)'
  <2> TAKE q \in Procs
  <2>1. CASE q = p
    BY <1>2, <2>1
  <2>2. CASE q # p
    BY <1>2, <2>2, OthersLemma
  <2> QED BY <2>1, <2>2
<1>4. ProcInv'
  BY <1>2, <1>3 DEF ProcInv
<1> QED BY <1>4 DEF IInv, Grows

\* The pushes that are on their way stay justified.
LEMMA FlightLemma ==
  ASSUME IInv, Grows, inflight' \subseteq inflight
  PROVE  FlightInv'
<1> SUFFICES ASSUME NEW m \in inflight' PROVE PushOK(m.base, m.commit)'
  BY DEF FlightInv
<1>1. PushOK(m.base, m.commit)
  BY DEF IInv, FlightInv
<1> QED BY <1>1, KeepPushLemma

\* An invocation that has not started.
LEMMA IdleLemma == NoRecord \in Record /\ Idle \in ProcState
<1>1. NoRecord \in Record
  BY ClaimAssumption DEF NoRecord, Record, Statuses
<1>2. Idle \in ProcState
  BY <1>1, ClaimAssumption DEF Idle, ProcState
<1> QED BY <1>1, <1>2

\* An invocation ends without a result that matters later.
LEMMA EndLemma ==
  ASSUME IInv, NEW p \in Procs, NEW code \in {"nothing", "refused", "failed", "unknown"},
         proc' = [proc EXCEPT ![p] = Ended(code)], UNCHANGED <<log, inflight>>
  PROVE  IInv'
<1> DEFINE s == Ended(code)
<1>1. s \in ProcState /\ s.base = 0 /\ s.start = 0 /\ s.pc = code
  <2>1. s = [Idle EXCEPT !.pc = code]
    BY DEF Ended
  <2>2. s \in ProcState /\ s.pc = code
    BY <2>1, IdleLemma DEF ProcState
  <2>3. s.base = 0 /\ s.start = 0
    BY <2>1 DEF Idle
  <2> QED BY <2>2, <2>3
<1>2. proc'[p] = s
  BY DEF IInv, ProcInv
<1> HIDE DEF s
<1>3. Grows /\ Len(log) \in Nat
  BY SameLogLemma DEF Grows
<1>4. BusyOK(p)' /\ AttemptsOK(p)' /\ ReportOK(p)'
  BY <1>1, <1>2 DEF BusyOK, AttemptsOK, ReportOK
<1>5. FlightInv'
  BY <1>3, FlightLemma
<1>6. s.base <= Len(log') /\ s.start <= Len(log')
  BY <1>1, <1>3
<1> QED BY <1>1, <1>3, <1>4, <1>5, <1>6, OneLemma DEF s

-----------------------------------------------------------------------------
(* One lemma for each step of an invocation *)

\* A claim, a release or a completion begins.
LEMMA StartWriteStep ==
  ASSUME IInv, NEW p \in Procs, NEW kind \in Kinds \ {"allocate"}, NEW key \in Keys,
         NEW who \in Agents \cup {Nobody}, NEW force \in BOOLEAN,
         StartWrite(p, kind, key, who, force)
  PROVE  IInv'
<1>1. PICK legacy \in LegacyRead, done \in BOOLEAN :
        /\ who = Nobody => kind # "claim"
        /\ proc' = [proc EXCEPT ![p] =
                      IF kind = "claim" /\ done THEN [Idle EXCEPT !.pc = "refused"]
                      ELSE [Idle EXCEPT !.pc = "read", !.kind = kind, !.key = key, !.who = who,
                                        !.force = force, !.legacy = legacy, !.start = Len(log)]]
        /\ UNCHANGED <<log, inflight>>
  BY DEF StartWrite, Step
<1>2. CASE kind = "claim" /\ done
  <2>1. proc' = [proc EXCEPT ![p] = Ended("refused")]
    BY <1>1, <1>2 DEF Ended
  <2> QED BY <1>1, <2>1, EndLemma
<1>3. CASE ~(kind = "claim" /\ done)
  <2> DEFINE s == [Idle EXCEPT !.pc = "read", !.kind = kind, !.key = key, !.who = who,
                               !.force = force, !.legacy = legacy, !.start = Len(log)]
  <2>1. Grows /\ Len(log) \in Nat /\ log' = log
    BY <1>1, SameLogLemma DEF Grows
  <2>2. /\ kind \in {"claim", "release", "complete"} /\ key \in Nat /\ key # 0
        /\ legacy \in BOOLEAN /\ (legacy \/ LegacyMayFail)
    BY ClaimAssumption DEF LegacyRead
  <2>3. s \in ProcState
    BY <2>1, <2>2, IdleLemma DEF ProcState
  <2>4. /\ s.pc = "read" /\ s.kind = kind /\ s.key = key /\ s.who = who /\ s.legacy = legacy
        /\ s.start = Len(log) /\ s.base = 0 /\ s.attempt = 1 /\ s.faults = 0
    BY DEF Idle
  <2>5. proc' = [proc EXCEPT ![p] = s]
    BY <1>1, <1>3
  <2> HIDE DEF s
  <2>6. proc'[p] = s
    BY <2>5 DEF IInv, ProcInv
  <2>7. BusyOK(p)'
    BY <1>1, <2>2, <2>4, <2>6 DEF BusyOK
  <2>8. AttemptsOK(p)' /\ ReportOK(p)'
    BY <2>1, <2>4, <2>6 DEF AttemptsOK, ReportOK
  <2>9. FlightInv'
    BY <1>1, <2>1, FlightLemma
  <2>10. s.base <= Len(log') /\ s.start <= Len(log')
    BY <2>1, <2>4
  <2> QED BY <2>1, <2>3, <2>5, <2>7, <2>8, <2>9, <2>10, OneLemma
<1> QED BY <1>2, <1>3

\* An allocation begins, unless the legacy book cannot be read.
LEMMA StartAllocateStep ==
  ASSUME IInv, NEW p \in Procs, NEW who \in Agents \cup {Nobody}, StartAllocate(p, who)
  PROVE  IInv'
<1>1. PICK legacy \in LegacyRead :
        /\ proc' = [proc EXCEPT ![p] =
                      IF ~legacy THEN [Idle EXCEPT !.pc = "failed"]
                      ELSE [Idle EXCEPT !.pc = "read", !.kind = "allocate", !.who = who,
                                        !.legacy = TRUE, !.start = Len(log)]]
        /\ UNCHANGED <<log, inflight>>
  BY DEF StartAllocate, Step
<1>2. CASE ~legacy
  <2>1. proc' = [proc EXCEPT ![p] = Ended("failed")]
    BY <1>1, <1>2 DEF Ended
  <2> QED BY <1>1, <2>1, EndLemma
<1>3. CASE legacy
  <2> DEFINE s == [Idle EXCEPT !.pc = "read", !.kind = "allocate", !.who = who,
                               !.legacy = TRUE, !.start = Len(log)]
  <2>1. Grows /\ Len(log) \in Nat /\ log' = log
    BY <1>1, SameLogLemma DEF Grows
  <2>2. s \in ProcState
    BY <2>1, IdleLemma DEF ProcState
  <2>3. /\ s.pc = "read" /\ s.kind = "allocate" /\ s.legacy = TRUE
        /\ s.start = Len(log) /\ s.base = 0 /\ s.attempt = 1 /\ s.faults = 0
    BY DEF Idle
  <2>4. proc' = [proc EXCEPT ![p] = s]
    BY <1>1, <1>3
  <2> HIDE DEF s
  <2>5. proc'[p] = s
    BY <2>4 DEF IInv, ProcInv
  <2>6. BusyOK(p)' /\ AttemptsOK(p)' /\ ReportOK(p)'
    BY <2>1, <2>3, <2>5 DEF BusyOK, AttemptsOK, ReportOK
  <2>7. FlightInv'
    BY <1>1, <2>1, FlightLemma
  <2>8. s.base <= Len(log') /\ s.start <= Len(log')
    BY <2>1, <2>3
  <2> QED BY <2>1, <2>2, <2>4, <2>6, <2>7, <2>8, OneLemma
<1> QED BY <1>2, <1>3

\* An invocation that has decided goes on to push: the commit that it carries is
\* justified at the tip that it has read.
LEMMA ToPushStep ==
  ASSUME IInv, NEW p \in Procs, NEW key \in Nat \ {0}, NEW assignee \in Agents \cup {Nobody},
         ToPush(p, Len(log), key, assignee), UNCHANGED <<log, inflight>>,
         \A rec \in Record : rec.kind = proc[p].kind /\ rec.force = proc[p].force
                               /\ rec.assignee = assignee =>
           DecidedAt(Len(log), [key |-> key, rec |-> rec])
  PROVE  IInv'
<1> DEFINE t == proc[p]
<1>0. t \in ProcState /\ t.rec \in Record /\ t.pc = "read"
  BY DEF IInv, ProcInv, ProcState, ToPush, Step
<1>1. PICK at \in Stamps(p) :
        proc' = [proc EXCEPT ![p] =
          [t EXCEPT !.pc = "push", !.base = Len(log), !.key = key,
                    !.rec = [by |-> p, kind |-> t.kind, force |-> t.force, assignee |-> assignee,
                             status |-> NewStatus(t.kind, t.who), at |-> at]]]
  BY DEF ToPush, Step
<1> DEFINE r == [by |-> p, kind |-> t.kind, force |-> t.force, assignee |-> assignee,
                 status |-> NewStatus(t.kind, t.who), at |-> at]
           s == [t EXCEPT !.pc = "push", !.base = Len(log), !.key = key, !.rec = r]
<1>2. Grows /\ Len(log) \in Nat /\ log' = log
  BY SameLogLemma DEF Grows
<1>3. BusyOK(p) /\ AttemptsOK(p) /\ t.start <= Len(log)
  BY DEF IInv, ProcInv
<1>4. /\ t.kind \in {"claim", "release", "complete", "allocate"}
      /\ t.legacy \/ LegacyMayFail
      /\ t.kind = "allocate" => t.legacy
      /\ t.kind = "claim" => t.who # Nobody
  BY <1>0, <1>3 DEF BusyOK
<1>5. r \in Record /\ r.kind = t.kind /\ r.force = t.force /\ r.assignee = assignee /\ r.by = p
  <2>1. NewStatus(t.kind, t.who) \in Statuses
    BY <1>4 DEF NewStatus, Statuses
  <2>2. at \in 0..MaxAttempts
    BY SMTT(30), <1>0, ClaimAssumption DEF Stamps, ProcState, Record
  <2>3. t.force \in BOOLEAN
    BY <1>0 DEF ProcState
  <2> QED BY <1>4, <2>1, <2>2, <2>3 DEF Record
<1>6. proc' = [proc EXCEPT ![p] = s]
  BY <1>1
<1> HIDE DEF r
<1>7. s \in ProcState
  BY <1>0, <1>2, <1>5 DEF ProcState
<1>8. /\ s.pc = "push" /\ s.base = Len(log) /\ s.key = key /\ s.rec = r
      /\ s.kind = t.kind /\ s.legacy = t.legacy /\ s.who = t.who
      /\ s.start = t.start /\ s.faults = t.faults /\ s.attempt = t.attempt
  BY <1>0 DEF ProcState
<1> HIDE DEF s
<1>9. proc'[p] = s
  BY <1>6 DEF IInv, ProcInv
<1>10. BusyOK(p)'
  <2>1. [key |-> key, rec |-> r] \in Change
    BY <1>5 DEF Change
  <2>2. PICK b, c : b = Len(log) /\ c = [key |-> key, rec |-> r]
    OBVIOUS
  <2>3. PushOK(b, c)
    BY <1>2, <1>4, <1>5, <2>1, <2>2 DEF PushOK
  <2>4. PushOK(b, c)'
    BY <1>2, <2>3, KeepPushLemma
  <2>5. b = proc'[p].base /\ c = Commit(p)'
    BY <1>8, <1>9, <2>2 DEF Commit
  <2>6. PushOK(proc[p].base, Commit(p))'
    BY <2>4, <2>5 DEF PushOK, DecidedAt, AnyEntry, Entry
  <2> HIDE DEF t
  <2> QED BY <1>4, <1>5, <1>8, <1>9, <2>6 DEF BusyOK
<1>11. AttemptsOK(p)' /\ ReportOK(p)'
  BY <1>0, <1>2, <1>3, <1>8, <1>9 DEF AttemptsOK, ReportOK
<1>12. FlightInv'
  BY <1>2, FlightLemma
<1>13. s.base <= Len(log') /\ s.start <= Len(log')
  BY <1>2, <1>3, <1>8
<1> QED BY <1>2, <1>6, <1>7, <1>10, <1>11, <1>12, <1>13, OneLemma

\* writeMode, one attempt up to the push.
LEMMA CheckStep ==
  ASSUME IInv, NEW p \in Procs, ReadAndCheck(p)
  PROVE  IInv'
<1> DEFINE t == proc[p]
           old == AnyEntry(Len(log), t.key, t.legacy)
           assignee == IF t.kind = "claim" THEN t.who ELSE old.assignee
<1>1. /\ t.kind \in {"claim", "release", "complete"}
      /\ UNCHANGED <<log, inflight>>
      /\ \/ proc' = [proc EXCEPT ![p] = Ended("nothing")]
         \/ proc' = [proc EXCEPT ![p] = Ended("refused")]
         \/ /\ t.kind = "claim" \/ IsHeld(old)
            /\ MayWrite(t.kind, t.who, t.force, old, t.attempt)
            /\ ToPush(p, Len(log), t.key, assignee)
  BY DEF ReadAndCheck, Tip, Step
<1>2. ASSUME t.kind = "claim" \/ IsHeld(old),
             MayWrite(t.kind, t.who, t.force, old, t.attempt),
             ToPush(p, Len(log), t.key, assignee)
      PROVE  IInv'
  <2>1. t \in ProcState /\ t.pc = "read" /\ BusyOK(p)
    BY <1>2 DEF IInv, ProcInv, ToPush, Step
  <2>2. /\ t.key \in Nat \ {0} /\ (t.legacy \/ LegacyMayFail)
        /\ t.legacy \in BOOLEAN /\ t.who \in Agents \cup {Nobody}
        /\ t.kind = "claim" => t.who # Nobody
    BY <1>1, <2>1 DEF BusyOK, ProcState
  <2>3. old.assignee \in Agents \cup {Nobody}
    <3>1. Entry(Len(log), t.key) \in Record
      <4>1. log \in Seq(Change) /\ Len(log) \in Nat
        BY LenProperties DEF IInv, LogInv
      <4>2. \A j \in 1..Len(log) : log[j].rec \in Record
        <5>1. \A j \in 1..Len(log) : log[j] \in Change
          BY <4>1, ElementOfSeq
        <5> QED BY <5>1 DEF Change
      <4> QED BY <4>1, <4>2, EntryLemma, IdleLemma
    <3>2. NoRecord.assignee = Nobody
      BY DEF NoRecord
    <3>3. LegacyRecord(t.key).assignee \in Agents \cup {Nobody}
      <4>1. CASE t.key \in DOMAIN LegacyHolder
        <5>1. LegacyHolder[t.key] \in Agents
          BY <4>1, ClaimAssumption
        <5>2. LegacyRecord(t.key).assignee = LegacyHolder[t.key]
          BY <4>1 DEF LegacyRecord, NoRecord
        <5> QED BY <5>1, <5>2
      <4>2. CASE t.key \notin DOMAIN LegacyHolder
        BY <3>2, <4>2 DEF LegacyRecord
      <4> QED BY <4>1, <4>2
    <3> QED BY <3>1, <3>2, <3>3 DEF AnyEntry, Record
  <2>4. ASSUME NEW rec \in Record, rec.kind = t.kind, rec.force = t.force, rec.assignee = assignee
        PROVE  DecidedAt(Len(log), [key |-> t.key, rec |-> rec])
    <3> DEFINE c == [key |-> t.key, rec |-> rec]
    <3>1. c.key = t.key /\ c.rec = rec
      OBVIOUS
    <3> HIDE DEF c
    <3>2. ASSUME t.kind = "claim", ~LegacyMayFail, ~t.force
          PROVE  LET now == AnyEntry(Len(log), t.key, TRUE)
                 IN  ~IsHeld(now) \/ now.assignee = assignee
      <4>1. t.legacy = TRUE
        BY <2>2, <3>2
      <4>2. ~IsHeld(old) \/ old.assignee = t.who
        BY <1>2, <2>2, <3>2 DEF MayWrite
      <4> QED BY <3>2, <4>1, <4>2
    <3>3. ASSUME t.kind # "claim"
          PROVE  LET now == AnyEntry(Len(log), t.key, TRUE)
                 IN  IsHeld(now) /\ now.assignee = assignee
      <4>1. IsHeld(old)
        BY <1>2, <3>3
      <4>2. old # NoRecord
        BY <4>1 DEF IsHeld, NoRecord
      <4>3. AnyEntry(Len(log), t.key, TRUE) = old
        BY <4>2 DEF AnyEntry
      <4> QED BY <3>3, <4>1, <4>3
    <3> QED BY <1>1, <2>4, <3>1, <3>2, <3>3 DEF DecidedAt
  <2>5. assignee \in Agents \cup {Nobody}
    BY <2>2, <2>3
  <2> HIDE DEF assignee, old
  <2> QED BY <1>1, <1>2, <2>2, <2>4, <2>5, ToPushStep
<1> QED BY <1>1, <1>2, EndLemma

\* doAllocate, one attempt up to the push.
LEMMA NumberStep ==
  ASSUME IInv, NEW p \in Procs, ReadAndNumber(p)
  PROVE  IInv'
<1> DEFINE t == proc[p]
           k == ContiguousMax(UsedIds(p, Len(log))) + 1
<1>1. t.kind = "allocate" /\ ToPush(p, Len(log), k, t.who) /\ UNCHANGED <<log, inflight>>
  BY DEF ReadAndNumber, Tip
<1>2. /\ log \in Seq(Change) /\ Len(log) \in Nat
      /\ t \in ProcState /\ t.pc = "read" /\ BusyOK(p)
  BY <1>1, LenProperties DEF IInv, LogInv, ProcInv, ToPush, Step
<1>3. t.legacy /\ t.who \in Agents \cup {Nobody}
  BY <1>1, <1>2 DEF BusyOK, ProcState
<1>4. k \in Nat \ {0} /\ AnyEntry(Len(log), k, TRUE) = NoRecord
  <2>1. Len(log) <= Len(log)
    BY <1>2
  <2> QED BY <1>2, <1>3, <2>1, NumberLemma
<1> HIDE DEF k
<1>5. ASSUME NEW rec \in Record, rec.kind = t.kind
      PROVE  DecidedAt(Len(log), [key |-> k, rec |-> rec])
  BY <1>1, <1>4, <1>5 DEF DecidedAt
<1> QED BY <1>1, <1>3, <1>4, <1>5, ToPushStep

\* The push reaches the server, which takes it if it extends the tip.
LEMMA ArrivesStep ==
  ASSUME IInv, NEW p \in Procs, PushArrives(p)
  PROVE  IInv'
<1> DEFINE t == proc[p]
           s == [t EXCEPT !.pc = "verify"]
<1>1. /\ t.pc = "push" /\ proc' = [proc EXCEPT ![p] = s]
      /\ log' = IF t.base = Len(log) THEN Append(log, Commit(p)) ELSE log
      /\ UNCHANGED inflight
  BY DEF PushArrives, Step, Exits, Extends
<1>2. /\ t \in ProcState /\ BusyOK(p) /\ AttemptsOK(p)
      /\ t.base <= Len(log) /\ t.start <= Len(log)
      /\ Len(log) \in Nat
  BY LenProperties DEF IInv, ProcInv, LogInv
<1>3. /\ s \in ProcState /\ s.pc = "verify" /\ s.kind = t.kind /\ s.legacy = t.legacy
      /\ s.who = t.who /\ s.key = t.key /\ s.rec = t.rec /\ s.base = t.base
      /\ s.start = t.start /\ s.faults = t.faults /\ s.attempt = t.attempt
  BY <1>2 DEF ProcState
<1>4. /\ t.base \in Nat /\ t.start \in Nat /\ t.faults \in Nat /\ t.attempt \in Nat
  BY <1>2, ClaimAssumption DEF ProcState
<1>5. Grows /\ Len(log') >= t.base + 1
  <2>1. CASE t.base = Len(log)
    <3>1. PushOK(Len(log), Commit(p))
      BY <1>1, <1>2, <2>1 DEF BusyOK
    <3>2. PICK c : c = Commit(p)
      OBVIOUS
    <3>3. Grows /\ Len(log') = Len(log) + 1
      BY <1>1, <2>1, <3>1, <3>2, AppendLemma
    <3> QED BY <1>2, <1>4, <2>1, <3>3
  <2>2. CASE t.base # Len(log)
    <3>1. log' = log
      BY <1>1, <2>2
    <3> QED BY <1>2, <1>4, <2>2, <3>1, SameLogLemma
  <2> QED BY <2>1, <2>2
<1> HIDE DEF s
<1>6. proc'[p] = s
  BY <1>1 DEF IInv, ProcInv
<1>7. BusyOK(p)' /\ ReportOK(p)'
  BY <1>1, <1>2, <1>3, <1>6 DEF BusyOK, ReportOK
<1>8. AttemptsOK(p)'
  <2>1. (t.base - t.start) + t.faults >= t.attempt - 1 /\ t.faults <= t.attempt - 1
    BY <1>1, <1>2 DEF AttemptsOK
  <2>2. Len(log') \in Nat
    BY <1>5 DEF Grows
  <2>3. (Len(log') - t.start) + t.faults >= t.attempt /\ t.faults <= t.attempt
    <3>1. PICK l, b, a, f, n \in Nat : /\ l = Len(log') /\ b = t.base /\ a = t.start
                                       /\ f = t.faults /\ n = t.attempt
      BY <1>4, <2>2
    <3>2. l >= b + 1 /\ (b - a) + f >= n - 1 /\ f <= n - 1
      BY <1>5, <2>1, <3>1
    <3>3. (l - a) + f >= n /\ f <= n
      BY <3>2
    <3> QED BY <3>1, <3>3
  <2> HIDE DEF t
  <2> QED BY <1>3, <1>6, <2>3 DEF AttemptsOK
<1>9. FlightInv'
  BY <1>1, <1>5, FlightLemma
<1>10. s.base <= Len(log') /\ s.start <= Len(log')
  BY <1>2, <1>3, <1>4, <1>5 DEF Grows
<1> QED BY <1>1, <1>3, <1>5, <1>7, <1>8, <1>9, <1>10, OneLemma

\* The push times out: it is lost, or it stays on its way.
LEMMA TimesOutStep ==
  ASSUME IInv, NEW p \in Procs, NEW late \in BOOLEAN, PushTimesOut(p, late)
  PROVE  IInv'
<1> DEFINE t == proc[p]
           s == [[t EXCEPT !.pc = "verify"] EXCEPT !.faults = @ + 1]
<1>1. /\ t.pc = "push" /\ proc' = [proc EXCEPT ![p] = s]
      /\ log' = log
      /\ inflight' = IF late THEN inflight \cup {[base |-> t.base, commit |-> Commit(p)]}
                     ELSE inflight
  BY DEF PushTimesOut, Step, Exits
<1>2. /\ t \in ProcState /\ BusyOK(p) /\ AttemptsOK(p)
      /\ t.base <= Len(log) /\ t.start <= Len(log)
      /\ Len(log) \in Nat
  BY LenProperties DEF IInv, ProcInv, LogInv
<1>3. /\ t.base \in Nat /\ t.start \in Nat /\ t.faults \in Nat /\ t.attempt \in Nat
      /\ t.attempt <= MaxAttempts
      /\ (t.base - t.start) + t.faults >= t.attempt - 1 /\ t.faults <= t.attempt - 1
  BY <1>1, <1>2, ClaimAssumption DEF ProcState, AttemptsOK
<1>4. t.faults + 1 \in 0..MaxAttempts
  BY <1>3, ClaimAssumption
<1>5. s \in ProcState
  BY <1>2, <1>4 DEF ProcState
<1>6. /\ s.pc = "verify" /\ s.kind = t.kind /\ s.legacy = t.legacy
      /\ s.who = t.who /\ s.key = t.key /\ s.rec = t.rec /\ s.base = t.base
      /\ s.start = t.start /\ s.faults = t.faults + 1 /\ s.attempt = t.attempt
  BY <1>2 DEF ProcState
<1>7. Grows
  BY <1>1, SameLogLemma
<1> HIDE DEF s
<1>8. proc'[p] = s
  BY <1>1 DEF IInv, ProcInv
<1>9. BusyOK(p)' /\ ReportOK(p)'
  BY <1>1, <1>2, <1>6, <1>8 DEF BusyOK, ReportOK
<1>10. AttemptsOK(p)'
  <2>1. (Len(log) - t.start) + (t.faults + 1) >= t.attempt /\ t.faults + 1 <= t.attempt
    <3>1. PICK l, b, a, f, n \in Nat : /\ l = Len(log) /\ b = t.base /\ a = t.start
                                       /\ f = t.faults /\ n = t.attempt
      BY <1>2, <1>3
    <3>2. b <= l /\ (b - a) + f >= n - 1 /\ f <= n - 1
      BY <1>2, <1>3, <3>1
    <3>3. (l - a) + (f + 1) >= n /\ f + 1 <= n
      BY <3>2
    <3> QED BY <3>1, <3>3
  <2> HIDE DEF t
  <2> QED BY <1>1, <1>6, <1>8, <2>1 DEF AttemptsOK
<1>11. FlightInv'
  <2> SUFFICES ASSUME NEW m \in inflight' PROVE PushOK(m.base, m.commit)'
    BY DEF FlightInv
  <2>1. PushOK(m.base, m.commit)
    <3>1. CASE m \in inflight
      BY <3>1 DEF IInv, FlightInv
    <3>2. CASE m = [base |-> t.base, commit |-> Commit(p)]
      BY <1>1, <1>2, <3>2 DEF BusyOK
    <3> QED BY <1>1, <3>1, <3>2
  <2> QED BY <1>7, <2>1, KeepPushLemma
<1>12. s.base <= Len(log') /\ s.start <= Len(log')
  BY <1>1, <1>2, <1>6
<1> QED BY <1>1, <1>5, <1>7, <1>9, <1>10, <1>11, <1>12, OneLemma

\* A push lands after its sender has given up on it.
LEMMA LateStep ==
  ASSUME IInv, NEW m \in inflight, LatePush(m)
  PROVE  IInv'
<1>1. /\ inflight' \subseteq inflight /\ proc' = proc
      /\ log' = IF m.base = Len(log) THEN Append(log, m.commit) ELSE log
  BY DEF LatePush, Extends
<1>2. PushOK(m.base, m.commit)
  BY DEF IInv, FlightInv
<1>3. Grows
  <2>1. CASE m.base = Len(log)
    BY <1>1, <1>2, <2>1, AppendLemma
  <2>2. CASE m.base # Len(log)
    BY <1>1, <2>2, SameLogLemma
  <2> QED BY <2>1, <2>2
<1>4. FlightInv'
  BY <1>1, <1>3, FlightLemma
<1>5. ProcInv'
  <2>1. \A q \in Procs : /\ proc'[q].base <= Len(log') /\ proc'[q].start <= Len(log')
                         /\ BusyOK(q)' /\ AttemptsOK(q)' /\ ReportOK(q)'
    <3> TAKE q \in Procs
    <3>1. proc'[q] = proc[q]
      BY <1>1
    <3> QED BY <1>3, <3>1, OthersLemma
  <2>2. proc' \in [Procs -> ProcState]
    BY <1>1 DEF IInv, ProcInv
  <2> QED BY <2>1, <2>2 DEF ProcInv
<1> QED BY <1>3, <1>4, <1>5 DEF IInv, Grows

\* The record is there: a reservation is reported together with its commit.
LEMMA LandedStep ==
  ASSUME IInv, NEW p \in Procs, VerifyLanded(p)
  PROVE  IInv'
<1> DEFINE t == proc[p]
           s == [Ended("ok") EXCEPT !.kind = t.kind, !.key = t.key]
<1>1. /\ t.pc = "verify" /\ proc' = [proc EXCEPT ![p] = s]
      /\ Entry(Len(log), t.key) = t.rec /\ UNCHANGED <<log, inflight>>
  BY DEF VerifyLanded, Step, Same
<1>2. t \in ProcState /\ BusyOK(p) /\ Len(log) \in Nat
  BY LenProperties DEF IInv, ProcInv, LogInv
<1>3. s \in ProcState /\ s.pc = "ok" /\ s.kind = t.kind /\ s.key = t.key
  <2>1. Ended("ok") \in ProcState /\ Ended("ok").pc = "ok"
    BY IdleLemma DEF Ended, ProcState
  <2> HIDE DEF Ended
  <2> QED BY <1>2, <2>1 DEF ProcState
<1>4. s.base = 0 /\ s.start = 0
  BY DEF Ended, Idle
<1>5. Grows
  BY <1>1, SameLogLemma
<1> HIDE DEF s
<1>6. proc'[p] = s
  BY <1>1 DEF IInv, ProcInv
<1>7. BusyOK(p)' /\ AttemptsOK(p)'
  BY <1>3, <1>6 DEF BusyOK, AttemptsOK
<1>8. ReportOK(p)'
  <2> SUFFICES ASSUME t.kind = "allocate"
               PROVE  \E n \in 1..Len(log) : /\ log[n].key = t.key
                                             /\ log[n].rec.kind = "allocate" /\ log[n].rec.by = p
    BY <1>1, <1>3, <1>6 DEF ReportOK
  <2>1. t.rec.kind = "allocate" /\ t.rec.by = p
    BY <1>1, <1>2 DEF BusyOK
  <2>2. Entry(Len(log), t.key) # NoRecord
    BY <1>1, <2>1 DEF NoRecord
  <2>3. PICK n \in 1..Len(log) : log[n].key = t.key /\ Entry(Len(log), t.key) = log[n].rec
    BY <1>2, <2>2, EntryLemma
  <2> QED BY <1>1, <2>1, <2>3
<1>9. FlightInv'
  BY <1>1, <1>5, FlightLemma
<1>10. s.base <= Len(log') /\ s.start <= Len(log')
  BY <1>1, <1>2, <1>4
<1> QED BY <1>1, <1>3, <1>5, <1>7, <1>8, <1>9, <1>10, OneLemma

\* The record is not there: another attempt, or the end of the attempts.
LEMMA AbsentStep ==
  ASSUME IInv, NEW p \in Procs, VerifyAbsent(p)
  PROVE  IInv'
<1> DEFINE t == proc[p]
           s == IF t.attempt < MaxAttempts THEN [t EXCEPT !.pc = "read", !.attempt = @ + 1]
                ELSE [t EXCEPT !.pc = "gaveup"]
<1>1. /\ t.pc = "verify" /\ proc' = [proc EXCEPT ![p] = s] /\ UNCHANGED <<log, inflight>>
  BY DEF VerifyAbsent, Step, Exits
<1>2. /\ t \in ProcState /\ BusyOK(p) /\ AttemptsOK(p)
      /\ t.base <= Len(log) /\ t.start <= Len(log)
      /\ Len(log) \in Nat
  BY LenProperties DEF IInv, ProcInv, LogInv
<1>3. /\ t.start \in Nat /\ t.faults \in Nat /\ t.attempt \in Nat
      /\ (Len(log) - t.start) + t.faults >= t.attempt /\ t.faults <= t.attempt
  BY <1>1, <1>2, ClaimAssumption DEF ProcState, AttemptsOK
<1>4. s \in ProcState
  <2>1. t.attempt < MaxAttempts => t.attempt + 1 \in 1..MaxAttempts
    BY <1>3, ClaimAssumption, SMTT(30)
  <2>2. CASE t.attempt < MaxAttempts
    BY <1>2, <2>1, <2>2 DEF ProcState
  <2>3. CASE ~(t.attempt < MaxAttempts)
    BY <1>2, <2>3 DEF ProcState
  <2> QED BY <2>2, <2>3
<1>5. /\ s.kind = t.kind /\ s.legacy = t.legacy /\ s.who = t.who /\ s.key = t.key
      /\ s.base = t.base /\ s.start = t.start /\ s.faults = t.faults
      /\ \/ s.pc = "read" /\ s.attempt = t.attempt + 1
         \/ s.pc = "gaveup" /\ s.attempt = t.attempt
  <2>1. CASE t.attempt < MaxAttempts
    BY <1>2, <2>1 DEF ProcState
  <2>2. CASE ~(t.attempt < MaxAttempts)
    BY <1>2, <2>2 DEF ProcState
  <2> QED BY <2>1, <2>2
<1>6. Grows
  BY <1>1, SameLogLemma
<1> HIDE DEF s
<1>7. proc'[p] = s
  BY <1>1 DEF IInv, ProcInv
<1>8. BusyOK(p)' /\ ReportOK(p)'
  BY <1>1, <1>2, <1>5, <1>7 DEF BusyOK, ReportOK
<1>9. AttemptsOK(p)'
  <2>1. (Len(log) - t.start) + t.faults >= (t.attempt + 1) - 1 /\ t.faults <= (t.attempt + 1) - 1
    BY <1>2, <1>3
  <2> HIDE DEF t
  <2> QED BY <1>1, <1>3, <1>5, <1>7, <2>1 DEF AttemptsOK
<1>10. FlightInv'
  BY <1>1, <1>6, FlightLemma
<1>11. s.base <= Len(log') /\ s.start <= Len(log')
  BY <1>1, <1>2, <1>5
<1> QED BY <1>1, <1>4, <1>6, <1>8, <1>9, <1>10, <1>11, OneLemma

\* The deadline has passed before another attempt.
LEMMA DeadlineStep ==
  ASSUME IInv, NEW p \in Procs, DeadlinePasses(p)
  PROVE  IInv'
<1> DEFINE t == proc[p]
           s == [[t EXCEPT !.pc = "gaveup"] EXCEPT !.attempt = @ - 1]
<1>1. /\ t.attempt > 1 /\ t.pc = "read" /\ proc' = [proc EXCEPT ![p] = s]
      /\ UNCHANGED <<log, inflight>>
  BY DEF DeadlinePasses, Step, Exits
<1>2. /\ t \in ProcState /\ AttemptsOK(p)
      /\ t.base <= Len(log) /\ t.start <= Len(log)
      /\ Len(log) \in Nat
  BY LenProperties DEF IInv, ProcInv, LogInv
<1>3. /\ t.attempt - 1 \in 1..MaxAttempts
      /\ (Len(log) - t.start) + t.faults >= t.attempt - 1 /\ t.faults <= t.attempt - 1
  <2>1. t.attempt \in 1..MaxAttempts
    BY <1>2 DEF ProcState
  <2> QED BY <1>1, <1>2, <2>1, ClaimAssumption DEF AttemptsOK
<1>4. s \in ProcState
  BY <1>2, <1>3 DEF ProcState
<1>5. /\ s.pc = "gaveup" /\ s.base = t.base /\ s.start = t.start
      /\ s.faults = t.faults /\ s.attempt = t.attempt - 1
  BY <1>2 DEF ProcState
<1>6. Grows
  BY <1>1, SameLogLemma
<1> HIDE DEF s
<1>7. proc'[p] = s
  BY <1>1 DEF IInv, ProcInv
<1>8. BusyOK(p)' /\ ReportOK(p)'
  BY <1>5, <1>7 DEF BusyOK, ReportOK
<1>9. AttemptsOK(p)'
  <2> HIDE DEF t
  <2> QED BY <1>1, <1>3, <1>5, <1>7 DEF AttemptsOK
<1>10. FlightInv'
  BY <1>1, <1>6, FlightLemma
<1>11. s.base <= Len(log') /\ s.start <= Len(log')
  BY <1>1, <1>2, <1>5
<1> QED BY <1>1, <1>4, <1>6, <1>8, <1>9, <1>10, <1>11, OneLemma

-----------------------------------------------------------------------------
(* The invariant is inductive *)

\* The initial state: an empty branch, nobody under way.
LEMMA InitLemma == Init => IInv
<1> SUFFICES ASSUME Init PROVE IInv
  OBVIOUS
<1>1. log \in Seq(Change) /\ Len(log) = 0
  BY EmptySeq DEF Init
<1>2. LogInv /\ FlightInv
  BY <1>1 DEF Init, LogInv, FlightInv
<1>3. Idle.pc = "idle" /\ Idle.base = 0 /\ Idle.start = 0
  BY DEF Idle
<1>4. ProcInv
  <2>1. proc = [p \in Procs |-> Idle]
    BY DEF Init
  <2>2. \A p \in Procs : /\ proc[p].base <= Len(log) /\ proc[p].start <= Len(log)
                         /\ BusyOK(p) /\ AttemptsOK(p) /\ ReportOK(p)
    BY <1>1, <1>3, <2>1 DEF BusyOK, AttemptsOK, ReportOK
  <2> QED BY <2>1, <2>2, IdleLemma DEF ProcInv
<1> QED BY <1>2, <1>4 DEF IInv

\* Every step keeps the invariant.
LEMMA StepLemma == IInv /\ [Next]_vars => IInv'
<1> SUFFICES ASSUME IInv, [Next]_vars PROVE IInv'
  OBVIOUS
<1>1. ASSUME NEW p \in Procs, Invocation(p) PROVE IInv'
  <2>1. ASSUME NEW late \in BOOLEAN, PushTimesOut(p, late) PROVE IInv'
    BY <2>1, TimesOutStep
  <2>2. CASE ReadFails(p)
    BY <2>2, EndLemma DEF ReadFails, Step
  <2>3. CASE VerifyUnreachable(p)
    BY <2>3, EndLemma DEF VerifyUnreachable, Step
  <2> QED BY <1>1, <2>1, <2>2, <2>3, DeadlineStep, CheckStep, NumberStep, ArrivesStep,
             LandedStep, AbsentStep DEF Invocation
<1>2. ASSUME NEW p \in Procs, NEW who \in Agents \cup {Nobody}, StartAllocate(p, who) PROVE IInv'
  BY <1>2, StartAllocateStep
<1>3. ASSUME NEW p \in Procs, NEW kind \in Kinds \ {"allocate"}, NEW key \in Keys,
             NEW who \in Agents \cup {Nobody}, NEW force \in BOOLEAN,
             StartWrite(p, kind, key, who, force)
      PROVE  IInv'
  BY <1>3, StartWriteStep
<1>4. ASSUME NEW m \in inflight, LatePush(m) PROVE IInv'
  BY <1>4, LateStep
<1>5. CASE UNCHANGED vars
  <2>1. UNCHANGED <<log, inflight, proc>>
    BY <1>5 DEF vars
  <2>2. Grows
    BY <2>1, SameLogLemma
  <2>3. \A q \in Procs : /\ proc'[q].base <= Len(log') /\ proc'[q].start <= Len(log')
                         /\ BusyOK(q)' /\ AttemptsOK(q)' /\ ReportOK(q)'
    BY <2>1, <2>2, OthersLemma
  <2>4. ProcInv'
    BY <2>1, <2>3 DEF IInv, ProcInv
  <2>5. FlightInv'
    BY <2>1, <2>2, FlightLemma
  <2> QED BY <2>2, <2>4, <2>5 DEF IInv, Grows
<1> QED BY <1>1, <1>2, <1>3, <1>4, <1>5 DEF Next

-----------------------------------------------------------------------------
(* The theorems *)

\* The strengthened invariant holds in every reachable state of the lock.
THEOREM Invariance == Spec => []IInv
BY InitLemma, StepLemma, PTL DEF Spec

\* The branch, the pending pushes and the invocations keep their types, and no
\* invocation has read a tip that the branch does not have.
THEOREM TypeCorrect == Spec => []TypeOK
<1>1. IInv => TypeOK
  BY DEF IInv, LogInv, FlightInv, ProcInv, PushOK, TypeOK, Change
<1> QED BY <1>1, Invariance, PTL

\* The lock: while the legacy book can be read, no claim without --force replaces a
\* live claim of another agent, for every number of agents, invocations and
\* attempts, and however late pushes land.
THEOREM LockHolds == LegacyMayFail = FALSE => (Spec => []NoSteal)
<1> SUFFICES ASSUME LegacyMayFail = FALSE PROVE Spec => []NoSteal
  OBVIOUS
<1>1. IInv => NoSteal
  BY DEF IInv, LogInv, DecidedAt, NoSteal, Replaced
<1> QED BY <1>1, Invariance, PTL

\* A release or completion ends the claim that writeMode has read, though the
\* legacy book may be unreadable.
THEOREM ReleaseExact == Spec => []ReleasesWhatItRead
<1>1. IInv => ReleasesWhatItRead
  BY DEF IInv, LogInv, DecidedAt, ReleasesWhatItRead, Replaced
<1> QED BY <1>1, Invariance, PTL

\* doAllocate never reserves a number that has a record, and no two invocations
\* report the same number.
THEOREM NumbersFresh == Spec => []FreshNumbers
<1>1. IInv => FreshNumbers
  <2> SUFFICES ASSUME IInv PROVE FreshNumbers
    OBVIOUS
  <2>1. \A n \in 1..Len(log) : log[n].rec.kind = "allocate" => Replaced(n) = NoRecord
    BY DEF IInv, LogInv, DecidedAt, Replaced
  <2>2. \A m, n \in 1..Len(log) : m < n /\ log[n].rec.kind = "allocate" => log[m].key # log[n].key
    <3> SUFFICES ASSUME NEW m \in 1..Len(log), NEW n \in 1..Len(log), m < n,
                        log[n].rec.kind = "allocate", log[m].key = log[n].key
                 PROVE  FALSE
      OBVIOUS
    <3>0. Len(log) \in Nat
      BY LenProperties DEF IInv, LogInv
    <3>1. n - 1 \in Nat /\ m \in 1..(n - 1) /\ \A j \in 1..(n - 1) : j \in 1..Len(log)
      BY <3>0
    <3>2. PICK j \in 1..(n - 1) : Entry(n - 1, log[n].key) = log[j].rec
      BY <3>1, EntryLemma
    <3>3. log[j].rec.kind # "none"
      BY <3>1 DEF IInv, LogInv
    <3>4. log[j].rec # NoRecord
      BY <3>3 DEF NoRecord
    <3>5. Replaced(n) # NoRecord
      BY <3>2, <3>4 DEF Replaced, AnyEntry
    <3> QED BY <2>1, <3>5
  <2>3. ASSUME NEW p \in Procs, NEW q \in Procs,
               proc[p].kind = "allocate", proc[p].pc = "ok",
               proc[q].kind = "allocate", proc[q].pc = "ok", proc[p].key = proc[q].key
        PROVE  p = q
    <3>1. ReportOK(p) /\ ReportOK(q) /\ Len(log) \in Nat
      BY LenProperties DEF IInv, ProcInv, LogInv
    <3>2. PICK m \in 1..Len(log) : /\ log[m].key = proc[p].key
                                   /\ log[m].rec.kind = "allocate" /\ log[m].rec.by = p
      BY <2>3, <3>1 DEF ReportOK
    <3>3. PICK n \in 1..Len(log) : /\ log[n].key = proc[q].key
                                   /\ log[n].rec.kind = "allocate" /\ log[n].rec.by = q
      BY <2>3, <3>1 DEF ReportOK
    <3>4. ~(m < n) /\ ~(n < m)
      BY <2>2, <2>3, <3>2, <3>3
    <3>5. m = n
      BY <3>1, <3>4
    <3> QED BY <3>2, <3>3, <3>5
  <2> QED BY <2>1, <2>3 DEF FreshNumbers
<1> QED BY <1>1, Invariance, PTL

\* The retry loop never gives up for nothing: each attempt that it counts saw the
\* branch grow or its push fail.
THEOREM ReasonToGiveUp == Spec => []GivesUpForAReason
<1>1. IInv => GivesUpForAReason
  BY DEF IInv, ProcInv, AttemptsOK, GivesUpForAReason
<1> QED BY <1>1, Invariance, PTL
=============================================================================
