------------------------------ MODULE Promises ------------------------------
(***************************************************************************)
(* The native promises of compiled programs: settlement, resolution and    *)
(* adoption, thenables, resolving pairs, reaction jobs and the tracking of *)
(* unhandled rejections (runtime/wasmgc/promise/*.ts and their users in    *)
(* codegen/async-scheduler.ts, promise-executor.ts and                     *)
(* unhandled-rejection.ts).                                                *)
(*                                                                         *)
(* Reaction jobs go through the queue that MicrotaskQueue implements: here *)
(* it is a sequence.  User code runs as the program itself, as a handler,  *)
(* as the then method of a thenable and as the getter of a then property,  *)
(* the last one in the middle of a resolution; wherever it runs it may use *)
(* every promise and every resolving function again.                       *)
(***************************************************************************)
EXTENDS Integers, Sequences, FiniteSets

CONSTANTS
  Plain,          \* values that are neither promises nor thenables
  Reasons,        \* reasons that programs reject with
  Thenables,      \* objects with a then property of the program's own
  SelfError,      \* the TypeError of a promise resolved with itself
  Nothing,        \* ref.null
  MaxPromises,    \* bound: promises made in a behaviour
  MaxPairs        \* bound: resolving pairs made in a behaviour

ASSUME PromiseAssumption ==
  /\ MaxPromises \in Nat /\ MaxPairs \in Nat
  /\ (Plain \cup Thenables \cup Reasons \cup {SelfError, Nothing}) \cap Nat = {}
  /\ Plain \cap Thenables = {}

VARIABLES
  prom,        \* the $Promise structs, in the order they were made
  jobs,        \* the microtask queue
  unhandled,   \* the list at __unhandled_head
  pairs,       \* resolving pairs: the promise and the shared guard cell
  stack,       \* activations of user code, innermost last
  exitCode,    \* Nothing while the program runs
  fate,        \* history: how each promise was resolved first
  started      \* history: the reactions of each promise that were started

vars == <<prom, jobs, unhandled, pairs, stack, exitCode, fate, started>>

Promises == 1..Len(prom)
Values == Plain \cup Thenables \cup Promises
Pending(p) == prom[p].state = "pending"

-----------------------------------------------------------------------------
(* The heap: the promises, the queued jobs and the list of rejections *)

NewPromiseStruct == [state |-> "pending", value |-> Nothing, callbacks |-> <<>>,
                     handled |-> FALSE, reactions |-> 0]

\* A reaction: the two handlers ("user", or "none" for the identity wrapper),
\* the promise that they settle, and its place among the promise's reactions.
\* (Combinators adds the handler "element", which settles no chained promise.)
Reaction(f, r, chained, place) ==
  [fulfil |-> f, reject |-> r, chained |-> chained, place |-> place]

ReactionJob(kind, reaction, from, value) ==
  [kind |-> kind, chained |-> reaction.chained, value |-> value, from |-> from,
   place |-> reaction.place,
   handler |-> IF kind = "fulfil" THEN reaction.fulfil ELSE reaction.reject]

ThenableJob(p, t) ==
  [kind |-> "thenable", chained |-> p, value |-> t, from |-> 0, place |-> 0, handler |-> "none"]

Note(list, p) == <<[promise |-> p, handled |-> FALSE]>> \o list

\* __mark_rejection_handled: the first node of the promise
MarkHandled(list, p) ==
  [k \in DOMAIN list |->
     IF list[k].promise = p /\ \A l \in 1..(k-1) : list[l].promise # p
     THEN [list[k] EXCEPT !.handled = TRUE] ELSE list[k]]

\* Mutation: the order of the list, last registered first.
ListOrdered(callbacks) == callbacks

\* Reactions are prepended to the list; settlement reverses it.
RegistrationOrdered(callbacks) ==
  [k \in DOMAIN callbacks |-> callbacks[Len(callbacks) + 1 - k]]

\* Mutation: no rejection is noted.
UnhandledNever(promise, state) == FALSE

\* Whether settling the promise is a rejection that nobody has reacted to
Unhandled(promise, state) ==
  state = "rejected" /\ promise.callbacks = <<>> /\ ~promise.handled

\* __promise_fulfill and __promise_reject: one-shot; the reactions are detached
\* and queued in the order of their registration.
Settle(h, p, state, value) ==
  IF h.prom[p].state # "pending" THEN h
  ELSE LET reactions == RegistrationOrdered(h.prom[p].callbacks)
           kind == IF state = "fulfilled" THEN "fulfil" ELSE "reject"
           settled == [h.prom[p] EXCEPT !.state = state, !.value = value, !.callbacks = <<>>]
       IN  [prom |-> [h.prom EXCEPT ![p] = settled],
            jobs |-> h.jobs \o [k \in DOMAIN reactions |-> ReactionJob(kind, reactions[k], p, value)],
            unhandled |-> IF Unhandled(h.prom[p], state) THEN Note(h.unhandled, p) ELSE h.unhandled]

\* Attaching a reaction marks the promise.
ReactionHandled(h, q) ==
  LET marked == [h.prom[q] EXCEPT !.handled = TRUE, !.reactions = h.prom[q].reactions + 1]
  IN  [h EXCEPT !.prom = [h.prom EXCEPT ![q] = marked]]

\* Mutation: a settled promise keeps the reaction for later.
AttachToList(h, q, f, r, chained) ==
  LET place == h.prom[q].reactions + 1
  IN  [ReactionHandled(h, q) EXCEPT
         !.prom[q].callbacks = <<Reaction(f, r, chained, place)>> \o @]

\* A reaction is attached to promise q: a job when q is settled, else a node in
\* front of its list.
Attach(h, q, f, r, chained) ==
  LET place == h.prom[q].reactions + 1
      reaction == Reaction(f, r, chained, place)
      marked == ReactionHandled(h, q)
  IN  CASE h.prom[q].state = "fulfilled" ->
             [marked EXCEPT !.jobs = Append(@, ReactionJob("fulfil", reaction, q, h.prom[q].value))]
        [] h.prom[q].state = "rejected" ->
             [marked EXCEPT !.jobs = Append(@, ReactionJob("reject", reaction, q, h.prom[q].value))]
        [] OTHER ->
             LET list == [marked.prom[q] EXCEPT !.callbacks = <<reaction>> \o h.prom[q].callbacks]
             IN  [marked EXCEPT !.prom = [marked.prom EXCEPT ![q] = list]]

\* then() also takes an already rejected receiver off the list of unhandled
\* rejections; the adoption by __promise_resolve_value does not.
AttachThen(h, q, f, r, chained) ==
  LET attached == Attach(h, q, f, r, chained)
  IN  IF h.prom[q].state = "rejected"
      THEN [attached EXCEPT !.unhandled = MarkHandled(@, q)] ELSE attached

\* Mutations: a promise is an ordinary value; a promise may wait for itself.
ResolveWithoutAdoption(h, p, v) ==
  Settle(h, p, IF v = p THEN "rejected" ELSE "fulfilled", IF v = p THEN SelfError ELSE v)
ResolveWithoutSelfCheck(h, p, v) ==
  IF v \in DOMAIN h.prom THEN Attach(h, v, "none", "none", p) ELSE Settle(h, p, "fulfilled", v)

\* __promise_resolve_value, for a value that is not a thenable
ResolveTo(h, p, v) ==
  CASE v = p -> Settle(h, p, "rejected", SelfError)
    [] v # p /\ v \in DOMAIN h.prom -> Attach(h, v, "none", "none", p)
    [] OTHER -> Settle(h, p, "fulfilled", v)

-----------------------------------------------------------------------------
(* Activations *)

Frame(kind, promise, pair, value) ==
  [kind |-> kind, promise |-> promise, pair |-> pair, value |-> value]
Top == stack[Len(stack)]
Pop == SubSeq(stack, 1, Len(stack) - 1)
InUserCode == stack # <<>> /\ Top.kind # "subscribe"     \* see Combinators

Heap == [prom |-> prom, jobs |-> jobs, unhandled |-> unhandled]
SetHeap(h) == prom' = h.prom /\ jobs' = h.jobs /\ unhandled' = h.unhandled

\* __promise_resolve_value(p, v) on heap h: a thenable's then property is looked
\* up first, which may run the program's getter.
ResolveValue(h, p, v, base) ==
  IF v \in Thenables
  THEN SetHeap(h) /\ stack' = Append(base, Frame("getter", p, 0, v))
  ELSE SetHeap(ResolveTo(h, p, v)) /\ stack' = base

Init ==
  /\ prom = <<>> /\ jobs = <<>> /\ unhandled = <<>> /\ pairs = <<>>
  /\ stack = <<Frame("main", 0, 0, Nothing)>>
  /\ exitCode = Nothing /\ fate = <<>> /\ started = <<>>

\* A promise is made; the history starts.
Made(h) == [h EXCEPT !.prom = Append(@, NewPromiseStruct)]
Fresh == Len(prom) + 1
Track(f) == fate' = Append(fate, f) /\ started' = Append(started, 0)
CanMake == InUserCode /\ Len(prom) < MaxPromises

\* Room for another pair: every queued thenable job is going to make one.
RoomForPair ==
  Len(pairs) + Cardinality({k \in DOMAIN jobs : jobs[k].kind = "thenable"}) < MaxPairs

\* How a promise is resolved: by a value, or by a rejection.
With(v) == [how |-> "value", with |-> v]
Rejection(r) == [how |-> "rejection", with |-> r]
Undecided == [how |-> "undecided", with |-> Nothing]
Elsewhere == [how |-> "elsewhere", with |-> Nothing]     \* see Combinators

-----------------------------------------------------------------------------
(* What programs do with promises *)

\* new Promise(executor), Promise.withResolvers()
NewPromise ==
  /\ CanMake /\ RoomForPair
  /\ SetHeap(Made(Heap))
  /\ pairs' = Append(pairs, [promise |-> Fresh, resolved |-> FALSE])
  /\ Track(Undecided)
  /\ UNCHANGED <<stack, exitCode>>

\* Promise.resolve(v): a promise is passed through
PromiseResolve(v) ==
  /\ CanMake /\ v \notin Promises
  /\ ResolveValue(Made(Heap), Fresh, v, stack)
  /\ Track(With(v))
  /\ UNCHANGED <<pairs, exitCode>>

\* Promise.reject(r) makes a rejected promise without settling one.
PromiseReject(r) ==
  /\ CanMake
  /\ prom' = Append(prom, [NewPromiseStruct EXCEPT !.state = "rejected", !.value = r])
  /\ unhandled' = Note(unhandled, Fresh)
  /\ Track(Rejection(r))
  /\ UNCHANGED <<jobs, pairs, stack, exitCode>>

\* p.then(f, r)
Then(p, f, r) ==
  /\ CanMake
  /\ SetHeap(AttachThen(Made(Heap), p, f, r, Fresh))
  /\ Track(Undecided)
  /\ UNCHANGED <<pairs, stack, exitCode>>

\* Mutation: the guard cell is not looked at.
GuardOpenAlways(k) == TRUE

\* The guard that the two functions of a pair share
GuardOpen(k) == ~pairs[k].resolved

Decide(k, f) ==
  fate' = IF pairs[k].resolved THEN fate ELSE [fate EXCEPT ![pairs[k].promise] = f]

\* The pair's resolve function: the guard is closed before then is looked up.
CallResolve(k, v) ==
  /\ InUserCode /\ GuardOpen(k)
  /\ pairs' = [pairs EXCEPT ![k].resolved = TRUE]
  /\ ResolveValue(Heap, pairs[k].promise, v, stack)
  /\ Decide(k, With(v))
  /\ UNCHANGED <<exitCode, started>>

\* The pair's reject function, called by the program or because it threw
RejectPair(k, r, base) ==
  /\ pairs' = [pairs EXCEPT ![k].resolved = TRUE]
  /\ SetHeap(IF GuardOpen(k) THEN Settle(Heap, pairs[k].promise, "rejected", r) ELSE Heap)
  /\ Decide(k, Rejection(r))
  /\ stack' = base

CallReject(k, r) ==
  /\ InUserCode /\ GuardOpen(k) /\ RejectPair(k, r, stack)
  /\ UNCHANGED <<exitCode, started>>

-----------------------------------------------------------------------------
(* User code ends *)

ReturnMain ==
  /\ InUserCode /\ Top.kind = "main" /\ stack' = Pop
  /\ UNCHANGED <<prom, jobs, unhandled, pairs, exitCode, fate, started>>

\* A handler returns: its result resolves the chained promise.
ReturnHandler(v) ==
  /\ InUserCode /\ Top.kind = "handler"
  /\ ResolveValue(Heap, Top.promise, v, Pop)
  /\ fate' = [fate EXCEPT ![Top.promise] = With(v)]
  /\ UNCHANGED <<pairs, exitCode, started>>

ThrowHandler(r) ==
  /\ InUserCode /\ Top.kind = "handler"
  /\ SetHeap(Settle(Heap, Top.promise, "rejected", r))
  /\ stack' = Pop
  /\ fate' = [fate EXCEPT ![Top.promise] = Rejection(r)]
  /\ UNCHANGED <<pairs, exitCode, started>>

\* A thenable's then method returns or throws.
ReturnThen ==
  /\ InUserCode /\ Top.kind = "then" /\ stack' = Pop
  /\ UNCHANGED <<prom, jobs, unhandled, pairs, exitCode, fate, started>>

ThrowThen(r) ==
  /\ InUserCode /\ Top.kind = "then"
  /\ RejectPair(Top.pair, r, Pop)
  /\ UNCHANGED <<exitCode, started>>

\* The lookup of then gives a function: calling it is a job of its own.
FoundThen ==
  /\ InUserCode /\ Top.kind = "getter" /\ RoomForPair
  /\ jobs' = Append(jobs, ThenableJob(Top.promise, Top.value))
  /\ stack' = Pop
  /\ UNCHANGED <<prom, unhandled, pairs, exitCode, fate, started>>

\* It gives something else: the object is an ordinary value.
FoundNoThen ==
  /\ InUserCode /\ Top.kind = "getter"
  /\ SetHeap(Settle(Heap, Top.promise, "fulfilled", Top.value))
  /\ stack' = Pop
  /\ UNCHANGED <<pairs, exitCode, fate, started>>

\* The getter throws.
ThrowGetter(r) ==
  /\ InUserCode /\ Top.kind = "getter"
  /\ SetHeap(Settle(Heap, Top.promise, "rejected", r))
  /\ stack' = Pop
  /\ fate' = [fate EXCEPT ![Top.promise] = Rejection(r)]
  /\ UNCHANGED <<pairs, exitCode, started>>

-----------------------------------------------------------------------------
(* The drain *)

Dequeued == [Heap EXCEPT !.jobs = Tail(@)]
Started(j) == started' = [started EXCEPT ![j.from] = j.place]

\* A reaction without a handler passes the outcome on.
RunIdentity ==
  /\ stack = <<>> /\ jobs # <<>>
  /\ LET j == Head(jobs)
     IN  /\ j.kind # "thenable" /\ j.handler = "none"
         /\ IF j.kind = "fulfil"
            THEN ResolveValue(Dequeued, j.chained, j.value, <<>>)
            ELSE SetHeap(Settle(Dequeued, j.chained, "rejected", j.value)) /\ stack' = <<>>
         /\ fate' = [fate EXCEPT ![j.chained] =
                       IF @ # Undecided THEN @
                       ELSE IF j.kind = "fulfil" THEN With(j.value) ELSE Rejection(j.value)]
         /\ Started(j)
  /\ UNCHANGED <<pairs, exitCode>>

RunHandler ==
  /\ stack = <<>> /\ jobs # <<>>
  /\ LET j == Head(jobs)
     IN  /\ j.kind # "thenable" /\ j.handler = "user"
         /\ SetHeap(Dequeued)
         /\ stack' = <<Frame("handler", j.chained, 0, j.value)>>
         /\ Started(j)
  /\ UNCHANGED <<pairs, exitCode, fate>>

\* __promise_thenable_job: then is called with a pair of its own.
RunThenableJob ==
  /\ stack = <<>> /\ jobs # <<>>
  /\ LET j == Head(jobs)
     IN  /\ j.kind = "thenable"
         /\ SetHeap(Dequeued)
         /\ pairs' = Append(pairs, [promise |-> j.chained, resolved |-> FALSE])
         /\ stack' = <<Frame("then", j.chained, Len(pairs) + 1, j.value)>>
  /\ UNCHANGED <<exitCode, fate, started>>

\* The queue is empty and nothing else is pending: __report_unhandled_rejections.
Exit ==
  /\ stack = <<>> /\ jobs = <<>> /\ exitCode = Nothing
  /\ exitCode' = IF \E k \in DOMAIN unhandled : ~unhandled[k].handled THEN "failure" ELSE "success"
  /\ UNCHANGED <<prom, jobs, unhandled, pairs, stack, fate, started>>

Handlers == {"user", "none"}

Next ==
  \/ NewPromise \/ ReturnMain \/ ReturnThen \/ FoundThen \/ FoundNoThen
  \/ RunIdentity \/ RunHandler \/ RunThenableJob \/ Exit
  \/ \E v \in Values : PromiseResolve(v) \/ ReturnHandler(v)
  \/ \E r \in Reasons : PromiseReject(r) \/ ThrowHandler(r) \/ ThrowThen(r) \/ ThrowGetter(r)
  \/ \E p \in Promises, f \in Handlers, r \in Handlers : Then(p, f, r)
  \/ \E k \in DOMAIN pairs, v \in Values : CallResolve(k, v)
  \/ \E k \in DOMAIN pairs, r \in Reasons : CallReject(k, r)

Spec == Init /\ [][Next]_vars

\* The one thread goes on: the drain when nothing runs, else user code ends.
Thread ==
  \/ RunIdentity \/ RunHandler \/ RunThenableJob
  \/ ReturnMain \/ ReturnThen \/ FoundThen \/ FoundNoThen
  \/ \E v \in Values : ReturnHandler(v)

FairSpec == Spec /\ WF_vars(Thread)

-----------------------------------------------------------------------------
(* Properties *)

States == {"pending", "fulfilled", "rejected"}

TypeOK ==
  /\ \A p \in Promises :
       /\ prom[p].state \in States /\ prom[p].handled \in BOOLEAN
       /\ prom[p].value \notin Promises
       /\ \A k \in DOMAIN prom[p].callbacks : prom[p].callbacks[k].chained <= Len(prom)
  /\ \A k \in DOMAIN jobs : jobs[k].chained <= Len(prom)
  /\ \A k \in DOMAIN unhandled : unhandled[k].promise \in Promises
  /\ \A k \in DOMAIN pairs : pairs[k].promise \in Promises
  /\ exitCode \in {Nothing, "success", "failure"}
  /\ Len(fate) = Len(prom) /\ Len(started) = Len(prom)

\* What will settle promise p: an open resolving pair, a reaction waiting on a
\* pending promise, a queued job, a handler or a lookup of then in progress.
Settlers(p) ==
  LET waiting == UNION {{<<q, k>> : k \in {k \in DOMAIN prom[q].callbacks :
                                             prom[q].callbacks[k].chained = p}} : q \in Promises}
  IN    Cardinality({k \in DOMAIN pairs : pairs[k].promise = p /\ ~pairs[k].resolved})
      + Cardinality(waiting)
      + Cardinality({k \in DOMAIN jobs : jobs[k].chained = p})
      + Cardinality({k \in DOMAIN stack : stack[k].kind \in {"handler", "getter"} /\ stack[k].promise = p})

\* No promise is forgotten and none is settled from two sides: exactly one thing
\* will settle a pending promise and nothing a settled one, through adoption,
\* thenables, getters that use the promise again and handlers that throw.
OneSettler ==
  \A p \in Promises :
    fate[p] # Elsewhere => Settlers(p) = IF Pending(p) THEN 1 ELSE 0

\* The first resolution decides, whatever the program calls afterwards and even
\* from a getter in the middle of it: a promise ends up with the value or the
\* reason it was first given, or with the outcome of the promise it adopted, and
\* only a thenable or another promise makes it wait: it never waits for itself.
FirstResolutionDecides ==
  \A p \in Promises :
    LET f == fate[p]
        is(state, value) == prom[p].state = state /\ prom[p].value = value
    IN  CASE f.how = "elsewhere" -> TRUE
          [] f.how = "undecided" -> Pending(p)
          [] f.how = "value" /\ Pending(p) -> f.with \in Thenables \cup (Promises \ {p})
          [] f.how = "rejection" -> is("rejected", f.with)
          [] f.how = "value" /\ ~Pending(p) /\ f.with = p -> is("rejected", SelfError)
          [] f.how = "value" /\ ~Pending(p) /\ f.with # p /\ f.with \in Promises ->
               ~Pending(f.with) /\ is(prom[f.with].state, prom[f.with].value)
          [] OTHER -> is("fulfilled", f.with)

\* The reactions of a promise start one by one in the order in which they were
\* attached, those attached while it was pending before those attached later.
ReactionsInOrder ==
  [][\A p \in DOMAIN started : started'[p] # started[p] => started'[p] = started[p] + 1]_vars

\* Every rejected promise that no reaction was ever attached to is on the list
\* exactly once, not marked: the program cannot end with success.
UnhandledIsTracked ==
  /\ \A k, l \in DOMAIN unhandled : unhandled[k].promise = unhandled[l].promise => k = l
  /\ \A p \in Promises : prom[p].state = "rejected" /\ ~prom[p].handled =>
       \E k \in DOMAIN unhandled : unhandled[k] = [promise |-> p, handled |-> FALSE]

\* Every reaction of a settled promise runs: there always comes a moment when all
\* that were attached to settled promises have been started.
ReactionsRun == []<>(\A p \in Promises : Pending(p) \/ started[p] = prom[p].reactions)

\* "A native $Promise that settles REJECTED with no reaction attached": only such
\* a rejection makes the program fail.
FailsForUnhandledOnly ==
  exitCode = "failure" => \E p \in Promises : prom[p].state = "rejected" /\ ~prom[p].handled
=============================================================================
