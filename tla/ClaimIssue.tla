----------------------------- MODULE ClaimIssue -----------------------------
(***************************************************************************)
(* The lock that agents take on issues (scripts/claim-issue.mjs).  Records *)
(* live on a branch of a shared repository.  An invocation reads the tip   *)
(* of the branch, decides, pushes one commit on top of what it read, and   *)
(* then reads the branch again to see whether its record is there: the     *)
(* exit status of the push is not believed.  When the record is not there  *)
(* it starts over, a bounded number of times.                              *)
(*                                                                         *)
(* The branch is the sequence of its commits, each of which sets one       *)
(* record, so a tip that somebody has read is a length.  The server takes  *)
(* a push only when it extends the tip (first push wins).  A push may be   *)
(* lost, may land although its sender was told that it failed, and may     *)
(* land late, when the sender has already been killed by its timeout.      *)
(* Reads may fail.  A key is an issue number; the numbers of slices are    *)
(* further keys and are not distinguished.                                 *)
(***************************************************************************)
EXTENDS Integers, Sequences, FiniteSets, FiniteSetsExt

CONSTANTS
  Procs,          \* invocations of the tool
  Agents,         \* assignees
  Nobody,         \* the assignee of a bare reservation
  Kinds,          \* what invocations do: "claim", "release", "complete", "allocate"
  Keys,           \* issues that agents claim
  MaxAttempts,    \* MAX_RETRIES
  StrayGap,       \* STRAY_GAP
  KnownIds,       \* ids of the issue files on main and in open pull requests
  LegacyHolder,   \* the claims in the legacy book, by key
  LegacyMayFail   \* whether the legacy book may be unreadable

ASSUME ClaimAssumption ==
  /\ Nobody \notin Agents /\ MaxAttempts \in Nat \ {0} /\ StrayGap \in Nat \ {0}
  /\ KnownIds \subseteq Nat \ {0} /\ KnownIds # {} /\ IsFiniteSet(KnownIds)
  /\ Keys \subseteq Nat \ {0}
  /\ Kinds \subseteq {"claim", "release", "complete", "allocate"}
  /\ LegacyHolder \in [DOMAIN LegacyHolder -> Agents]
  /\ DOMAIN LegacyHolder \subseteq Nat \ {0} /\ IsFiniteSet(DOMAIN LegacyHolder)
  /\ LegacyMayFail \in BOOLEAN

VARIABLES
  log,       \* the commits of the assignment branch
  inflight,  \* pushes that are still on their way although their senders gave up
  proc       \* the invocations

vars == <<log, inflight, proc>>

-----------------------------------------------------------------------------
(* Records *)

NoRecord == [by |-> Nobody, kind |-> "none", force |-> FALSE, assignee |-> Nobody, status |-> "none", at |-> 0]

\* readEntry: the record of key k at the tip n
Entry(n, k) ==
  LET at == {i \in 1..n : log[i].key = k}
  IN  IF at = {} THEN NoRecord ELSE log[Max(at)].rec

LegacyRecord(k) ==
  IF k \in DOMAIN LegacyHolder
  THEN [NoRecord EXCEPT !.kind = "legacy", !.assignee = LegacyHolder[k], !.status = "in-progress"]
  ELSE NoRecord

\* readEntryAnyBook: the legacy book answers where the branch says nothing; a book
\* that could not be read is passed over.
AnyEntry(n, k, legacyRead) ==
  IF Entry(n, k) # NoRecord THEN Entry(n, k)
  ELSE IF legacyRead THEN LegacyRecord(k) ELSE NoRecord

\* isHeldRecord
IsHeld(rec) == rec.assignee # Nobody /\ rec.status \notin {"released", "done"}

\* Mutation: records carry no write_id, and seconds are too coarse to tell them apart.
SameWithoutWriteId(r, s) == r.assignee = s.assignee /\ r.status = s.status

\* verifyLanded compares whole records: write_id, assignee, status and time stamp.
Same(r, s) == r = s

-----------------------------------------------------------------------------
(* Issue numbers *)

\* contiguousMax: the ids that are reached from the smallest one without a gap
\* larger than StrayGap
Body(S) == {m \in S : \A n \in S : n < m => \E k \in S : n < k /\ k <= m /\ k - n <= StrayGap}
ContiguousMax(S) == IF S = {} THEN 0 ELSE Max(Body(S))

\* idsFromAssignRef
RefIds(n) == {log[i].key : i \in 1..n}

\* allUsedIds
UsedIds(p, n) ==
  KnownIds \cup RefIds(n) \cup (IF proc[p].legacy THEN DOMAIN LegacyHolder ELSE {})

-----------------------------------------------------------------------------

Idle ==
  [pc |-> "idle", kind |-> "none", key |-> 0, who |-> Nobody, force |-> FALSE, legacy |-> FALSE,
   attempt |-> 1, base |-> 0, rec |-> NoRecord, start |-> 0, faults |-> 0]

Init ==
  /\ log = <<>> /\ inflight = {}
  /\ proc = [p \in Procs |-> Idle]

Step(p, from, to) ==
  proc[p].pc = from /\ proc' = [proc EXCEPT ![p] = to]

Exits(p, code) == [proc[p] EXCEPT !.pc = code]

\* An invocation that has ended without an answer that matters later.
Ended(code) == [Idle EXCEPT !.pc = code]

\* legacyTips, read once per invocation
LegacyRead == IF LegacyMayFail THEN BOOLEAN ELSE {TRUE}

\* A claim, a release or a completion begins.  A claim is refused when the issue
\* is done on main; without an assignee a release takes whoever holds the issue.
StartWrite(p, kind, key, who, force) ==
  /\ who = Nobody => kind # "claim"
  /\ \E legacy \in LegacyRead, done \in BOOLEAN :
       Step(p, "idle",
            IF kind = "claim" /\ done THEN [Idle EXCEPT !.pc = "refused"]
            ELSE [Idle EXCEPT !.pc = "read", !.kind = kind, !.key = key, !.who = who,
                              !.force = force, !.legacy = legacy, !.start = Len(log)])
  /\ UNCHANGED <<log, inflight>>

\* doAllocate: guardScanCoverage refuses without the legacy book.
StartAllocate(p, who) ==
  /\ \E legacy \in LegacyRead :
       Step(p, "idle",
            IF ~legacy THEN [Idle EXCEPT !.pc = "failed"]
            ELSE [Idle EXCEPT !.pc = "read", !.kind = "allocate", !.who = who,
                              !.legacy = TRUE, !.start = Len(log)])
  /\ UNCHANGED <<log, inflight>>

\* Within one second two attempts of an invocation write the same time stamp.
Stamps(p) == {proc[p].attempt} \cup (IF proc[p].rec = NoRecord THEN {} ELSE {proc[p].rec.at})

NewStatus(kind, who) ==
  CASE kind = "claim" -> "in-progress"
    [] kind = "release" -> "released"
    [] kind = "complete" -> "done"
    [] kind = "allocate" -> IF who = Nobody THEN "reserved" ELSE "in-progress"

\* The invocation goes on to push a record for `key` on top of the tip n.
ToPush(p, n, key, assignee) ==
  \E at \in Stamps(p) :
    Step(p, "read",
         [proc[p] EXCEPT !.pc = "push", !.base = n, !.key = key,
                         !.rec = [by |-> p, kind |-> proc[p].kind, force |-> proc[p].force,
                                  assignee |-> assignee,
                                  status |-> NewStatus(proc[p].kind, proc[p].who), at |-> at]])

\* Mutation: nobody else's claim stands in the way after the first attempt.
MayWriteFirst(kind, who, force, rec, attempt) ==
  who = Nobody \/ force \/ rec.assignee = who \/ (kind = "claim" /\ ~IsHeld(rec)) \/ attempt > 1

\* writeMode's refusals: somebody else holds the issue, and no --force.
MayWrite(kind, who, force, rec, attempt) ==
  who = Nobody \/ force \/ rec.assignee = who \/ (kind = "claim" /\ ~IsHeld(rec))

\* Mutation: a retry writes on top of the tip that the first attempt has read.
TipOfFirstRead(p) == IF proc[p].attempt = 1 THEN Len(log) ELSE proc[p].base

\* tipShaOrDie: every attempt reads the tip anew.
Tip(p) == Len(log)

\* writeMode, one attempt up to the push
ReadAndCheck(p) ==
  LET n == Tip(p)
      rec == AnyEntry(n, proc[p].key, proc[p].legacy)
  IN  /\ proc[p].kind \in {"claim", "release", "complete"}
      /\ \/ proc[p].kind # "claim" /\ ~IsHeld(rec) /\ Step(p, "read", Ended("nothing"))
         \/ /\ proc[p].kind = "claim" \/ IsHeld(rec)
            /\ IF MayWrite(proc[p].kind, proc[p].who, proc[p].force, rec, proc[p].attempt)
               THEN ToPush(p, n, proc[p].key,
                           IF proc[p].kind = "claim" THEN proc[p].who ELSE rec.assignee)
               ELSE Step(p, "read", Ended("refused"))
      /\ UNCHANGED <<log, inflight>>

\* doAllocate, one attempt up to the push
ReadAndNumber(p) ==
  /\ proc[p].kind = "allocate"
  /\ ToPush(p, Tip(p), ContiguousMax(UsedIds(p, Tip(p))) + 1, proc[p].who)
  /\ UNCHANGED <<log, inflight>>

\* The branch, or the pull requests, cannot be read.
ReadFails(p) ==
  /\ Step(p, "read", Ended("failed"))
  /\ UNCHANGED <<log, inflight>>

Commit(p) == [key |-> proc[p].key, rec |-> proc[p].rec]

\* Mutation: a forced push.
ExtendsAlways(base) == TRUE

\* The server takes a push that extends the tip; external.
Extends(base) == base = Len(log)

\* commitAndPush: the push reaches the server, whatever the sender is told.
PushArrives(p) ==
  /\ Step(p, "push", Exits(p, "verify"))
  /\ log' = IF Extends(proc[p].base) THEN Append(log, Commit(p)) ELSE log
  /\ UNCHANGED inflight

\* The push times out: it is lost, or it is still on its way.
PushTimesOut(p, late) ==
  /\ Step(p, "push", [Exits(p, "verify") EXCEPT !.faults = @ + 1])
  /\ inflight' = IF late THEN inflight \cup {[base |-> proc[p].base, commit |-> Commit(p)]} ELSE inflight
  /\ UNCHANGED log

LatePush(m) ==
  /\ inflight' = inflight \ {m}
  /\ log' = IF Extends(m.base) THEN Append(log, m.commit) ELSE log
  /\ UNCHANGED proc

\* verifyLanded and settle: the record is there.
VerifyLanded(p) ==
  /\ Same(Entry(Len(log), proc[p].key), proc[p].rec)
  /\ Step(p, "verify", [Ended("ok") EXCEPT !.kind = proc[p].kind, !.key = proc[p].key])
  /\ UNCHANGED <<log, inflight>>

\* Mutation: the attempts are not counted.
VerifyAbsentForever(p) ==
  /\ ~Same(Entry(Len(log), proc[p].key), proc[p].rec)
  /\ Step(p, "verify", [proc[p] EXCEPT !.pc = "read", !.attempt = @ + 1])
  /\ UNCHANGED <<log, inflight>>

\* The record is not there: another attempt, or the end of the attempts.
VerifyAbsent(p) ==
  /\ ~Same(Entry(Len(log), proc[p].key), proc[p].rec)
  /\ Step(p, "verify", IF proc[p].attempt < MaxAttempts
                       THEN [proc[p] EXCEPT !.pc = "read", !.attempt = @ + 1]
                       ELSE Exits(p, "gaveup"))
  /\ UNCHANGED <<log, inflight>>

\* The deadline is looked at before every attempt but the first.
DeadlinePasses(p) ==
  /\ proc[p].attempt > 1
  /\ Step(p, "read", [Exits(p, "gaveup") EXCEPT !.attempt = @ - 1])
  /\ UNCHANGED <<log, inflight>>

VerifyUnreachable(p) ==
  /\ Step(p, "verify", Ended("unknown"))
  /\ UNCHANGED <<log, inflight>>

Invocation(p) ==
  \/ DeadlinePasses(p) \/ ReadAndCheck(p) \/ ReadAndNumber(p) \/ ReadFails(p)
  \/ PushArrives(p) \/ \E late \in BOOLEAN : PushTimesOut(p, late)
  \/ VerifyLanded(p) \/ VerifyAbsent(p) \/ VerifyUnreachable(p)

Next ==
  \/ \E p \in Procs :
       \/ Invocation(p)
       \/ "allocate" \in Kinds /\ \E who \in Agents \cup {Nobody} : StartAllocate(p, who)
       \/ \E kind \in Kinds \ {"allocate"}, key \in Keys, who \in Agents \cup {Nobody}, force \in BOOLEAN :
            StartWrite(p, kind, key, who, force)
  \/ \E m \in inflight : LatePush(m)

Spec == Init /\ [][Next]_vars

-----------------------------------------------------------------------------
(* Properties *)

Statuses == {"none", "reserved", "in-progress", "released", "done"}

Record ==
  [by : Procs \cup {Nobody}, kind : {"none", "claim", "release", "complete", "allocate"},
   force : BOOLEAN, assignee : Agents \cup {Nobody}, status : Statuses, at : 0..MaxAttempts]

ProcState ==
  [pc : {"idle", "read", "push", "verify", "ok", "nothing", "refused", "failed", "gaveup", "unknown"},
   kind : {"none", "claim", "release", "complete", "allocate"}, key : Nat,
   who : Agents \cup {Nobody}, force : BOOLEAN, legacy : BOOLEAN,
   attempt : 1..MaxAttempts, base : Nat, rec : Record, start : Nat, faults : 0..MaxAttempts]

TypeOK ==
  /\ log \in Seq([key : Nat \ {0}, rec : Record])
  /\ \A m \in inflight : m.base \in Nat /\ m.commit \in [key : Nat \ {0}, rec : Record]
  /\ proc \in [Procs -> ProcState]
  /\ \A p \in Procs : proc[p].base <= Len(log) /\ proc[p].start <= Len(log)

\* What a commit replaced: the record before it, in either book.
Replaced(n) == AnyEntry(n - 1, log[n].key, TRUE)

\* No claim without --force ever replaces the live claim of another agent, through
\* races of readers, retries and pushes that land late; this is the lock.
NoSteal ==
  \A n \in 1..Len(log) :
    log[n].rec.kind = "claim" /\ ~log[n].rec.force =>
      ~IsHeld(Replaced(n)) \/ Replaced(n).assignee = log[n].rec.assignee

\* A release or completion ends the very claim that it was decided on: the commit
\* replaces a live record of the agent that it names.
ReleasesWhatItRead ==
  \A n \in 1..Len(log) :
    log[n].rec.kind \in {"release", "complete"} =>
      IsHeld(Replaced(n)) /\ Replaced(n).assignee = log[n].rec.assignee

\* "two concurrent allocators can NEVER hand out the same number": every reservation
\* takes a number that no record has, and no two invocations report the same one.
FreshNumbers ==
  /\ \A n \in 1..Len(log) : log[n].rec.kind = "allocate" => Replaced(n) = NoRecord
  /\ \A p, q \in Procs :
       proc[p].kind = "allocate" /\ proc[p].pc = "ok" /\ proc[q].kind = "allocate" /\ proc[q].pc = "ok"
         /\ proc[p].key = proc[q].key => p = q

\* An invocation gives up only when, for each of its attempts, a push has landed
\* (another's, or a late one of its own) or its push has failed: whoever loses,
\* somebody wins.
GivesUpForAReason ==
  \A p \in Procs :
    proc[p].pc = "gaveup" => (Len(log) - proc[p].start) + proc[p].faults >= proc[p].attempt

=============================================================================
