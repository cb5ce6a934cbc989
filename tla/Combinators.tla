---------------------------- MODULE Combinators ----------------------------
(***************************************************************************)
(* Promise.all, allSettled, any and race over a vector of inputs           *)
(* (runtime/wasmgc/promise/combinator-bodies.ts,                           *)
(* codegen/promise-combinators.ts), composed with the promises they work   *)
(* on: a combinator subscribes to each input in a loop, which runs the     *)
(* program's own code when an input is a thenable, and its elements run as *)
(* jobs between all other jobs.                                            *)
(***************************************************************************)
EXTENDS Promises

CONSTANTS
  Kinds,            \* the combinators that the program uses
  Results,          \* the vector of results, as a value
  AggregateError,   \* the error that carries the vector of reasons
  MaxInputs,        \* bound: inputs of a combinator
  MaxCombinators    \* bound: combinators in a behaviour

ASSUME CombinatorAssumption ==
  /\ Kinds \subseteq {"all", "allSettled", "any", "race"}
  /\ MaxInputs \in Nat /\ MaxCombinators \in Nat

VARIABLES
  combs,    \* the $CombinatorState structs, with the inputs; ran is history: the
            \* elements that were run, in that order
  caps      \* the $CombinatorElemCaps structs

cvars == <<vars, combs, caps>>

CInit == Init /\ combs = <<>> /\ caps = <<>>

-----------------------------------------------------------------------------
(* The call *)

Vectors == UNION {[1..n -> Values] : n \in 0..MaxInputs}

\* Promise.race([]) stays pending, the others settle at once.
SettleEmpty(h, p, kind) ==
  CASE kind \in {"all", "allSettled"} -> Settle(h, p, "fulfilled", Results)
    [] kind = "any" -> Settle(h, p, "rejected", AggregateError)
    [] OTHER -> h

\* Room for the result and for the promises that the inputs are put into
RoomFor(inputs) ==
  Len(prom) + Cardinality({i \in DOMAIN inputs : inputs[i] \notin Promises}) < MaxPromises

NewCombinator(kind, inputs) ==
  /\ InUserCode /\ RoomFor(inputs) /\ Len(combs) < MaxCombinators
  /\ SetHeap(IF Len(inputs) = 0 THEN SettleEmpty(Made(Heap), Fresh, kind) ELSE Made(Heap))
  /\ combs' = Append(combs, [kind |-> kind, result |-> Fresh, inputs |-> inputs,
                             results |-> [i \in DOMAIN inputs |-> Nothing],
                             remaining |-> Len(inputs), ran |-> <<>>])
  /\ stack' = Append(stack, Frame("subscribe", Len(combs) + 1, 1, Nothing))
  /\ Track(Elsewhere)
  /\ UNCHANGED <<pairs, exitCode, caps>>

-----------------------------------------------------------------------------
(* The loop over the inputs: a frame holds the combinator and the index *)

Subscribing == stack # <<>> /\ Top.kind = "subscribe"
Inputs == combs[Top.promise].inputs
InLoop == Subscribing /\ Top.pair <= Len(Inputs)

\* An input that is no promise is put into one, as Promise.resolve does.
WrapInput ==
  /\ InLoop /\ Inputs[Top.pair] \notin Promises
  /\ LET v == Inputs[Top.pair]
     IN  ResolveValue(Made(Heap), Fresh, v, stack) /\ Track(With(v))
  /\ combs' = [combs EXCEPT ![Top.promise].inputs[Top.pair] = Fresh]
  /\ UNCHANGED <<pairs, exitCode, caps>>

\* __combinator_subscribe, for a promise: like then(), with the element's capture
\* in the place of a chained promise.
Subscribe(h, p, k) == AttachThen(h, p, "element", "element", -k)

SubscribeInput ==
  /\ InLoop /\ Inputs[Top.pair] \in Promises
  /\ SetHeap(Subscribe(Heap, Inputs[Top.pair], Len(caps) + 1))
  /\ caps' = Append(caps, [state |-> Top.promise, index |-> Top.pair])
  /\ stack' = [stack EXCEPT ![Len(stack)].pair = @ + 1]
  /\ UNCHANGED <<pairs, exitCode, fate, started, combs>>

LoopDone ==
  /\ Subscribing /\ Top.pair > Len(Inputs)
  /\ stack' = Pop
  /\ UNCHANGED <<prom, jobs, unhandled, pairs, exitCode, fate, started, combs, caps>>

-----------------------------------------------------------------------------
(* The jobs of the elements *)

\* Mutation: the results are stored in the order of their arrival.
CollectInOrder(s, i, entry) ==
  [s EXCEPT !.results[Len(s.ran) + 1] = entry, !.remaining = @ - 1]

\* results[index] = entry; remaining -= 1
Collect(s, i, entry) == [s EXCEPT !.results[i] = entry, !.remaining = @ - 1]

\* The last one settles the result with all that was collected.
Countdown(h, s, state, value) ==
  [state |-> s, heap |-> IF s.remaining = 0 THEN Settle(h, s.result, state, value) ELSE h]

\* __combinator_all_fulfill
AllFulfill(h, s, i, v) == Countdown(h, Collect(s, i, v), "fulfilled", Results)

\* __combinator_allsettled_fulfill and __combinator_allsettled_reject
AllSettled(h, s, i, outcome, v) ==
  Countdown(h, Collect(s, i, [status |-> outcome, value |-> v]), "fulfilled", Results)

\* __combinator_any_reject
AnyReject(h, s, i, v) == Countdown(h, Collect(s, i, v), "rejected", AggregateError)

\* __combinator_race_fulfill and __combinator_reject: the first one settles the
\* result, which ignores all later ones.
SettleResult(h, s, outcome, v) ==
  [state |-> s, heap |-> Settle(h, s.result, IF outcome = "fulfil" THEN "fulfilled" ELSE "rejected", v)]

\* combinatorReactionFns: which of them runs
Element(h, s, i, outcome, v) ==
  CASE s.kind = "all" /\ outcome = "fulfil" -> AllFulfill(h, s, i, v)
    [] s.kind = "any" /\ outcome = "reject" -> AnyReject(h, s, i, v)
    [] s.kind = "allSettled" -> AllSettled(h, s, i, outcome, v)
    [] OTHER -> SettleResult(h, s, outcome, v)

RunElement ==
  /\ stack = <<>> /\ jobs # <<>>
  /\ LET j == Head(jobs)
         c == caps[-j.chained].state
         i == caps[-j.chained].index
         done == Element(Dequeued, combs[c], i, j.kind, j.value)
     IN  /\ j.handler = "element"
         /\ combs' = [combs EXCEPT ![c] = [done.state EXCEPT !.ran = Append(@, i)]]
         /\ SetHeap(done.heap)
         /\ Started(j)
  /\ UNCHANGED <<pairs, stack, exitCode, fate, caps>>

-----------------------------------------------------------------------------

Loop == WrapInput \/ SubscribeInput \/ LoopDone

CNext ==
  \/ Next /\ UNCHANGED <<combs, caps>>
  \/ \E kind \in Kinds, inputs \in Vectors : NewCombinator(kind, inputs)
  \/ Loop \/ RunElement

CSpec == CInit /\ [][CNext]_cvars

\* The one thread goes on.
CFairSpec == CSpec /\ WF_cvars((Thread /\ UNCHANGED <<combs, caps>>) \/ Loop \/ RunElement)

-----------------------------------------------------------------------------
(* Properties *)

InputState(s, i) == prom[s.inputs[i]].state

\* The elements that settle the result by themselves
Decisive(s) ==
  {k \in DOMAIN s.ran :
     CASE s.kind = "all" -> InputState(s, s.ran[k]) = "rejected"
       [] s.kind = "any" -> InputState(s, s.ran[k]) = "fulfilled"
       [] s.kind = "race" -> TRUE
       [] s.kind = "allSettled" -> FALSE}

\* Nothing is left to wait for.
Complete(s) == s.kind # "race" /\ Decisive(s) = {} /\ Len(s.ran) = Len(s.inputs)

\* What ECMAScript says of a combinator whose inputs were seen to settle in the
\* order s.ran, as the state and the value of its result
Expected(s) ==
  LET first == CHOOSE k \in Decisive(s) : \A l \in Decisive(s) : k <= l
      input == prom[s.inputs[s.ran[first]]]
  IN  CASE Decisive(s) # {} -> [state |-> input.state, value |-> input.value]
        [] Complete(s) ->
             [state |-> IF s.kind = "any" THEN "rejected" ELSE "fulfilled",
              value |-> IF s.kind = "any" THEN AggregateError ELSE Results]
        [] OTHER -> [state |-> "pending", value |-> Nothing]

\* The result of a combinator is at all times what the elements that have run
\* make of it: the first decisive one wins, else all are awaited, each is counted
\* once, and the vector has every input's outcome in the place of the input,
\* whatever the order in which they settle, for an input that occurs twice, was
\* settled before the call or is a thenable whose getter runs amid the loop.
CombinatorOutcome ==
  \A c \in DOMAIN combs :
    LET s == combs[c]
        r == prom[s.result]
    IN  /\ [state |-> r.state, value |-> r.value] = Expected(s)
        /\ \A k, l \in DOMAIN s.ran : s.ran[k] = s.ran[l] => k = l
        /\ Complete(s) =>
             \A i \in DOMAIN s.inputs :
               s.results[i] = IF s.kind = "allSettled"
                              THEN [status |-> IF InputState(s, i) = "fulfilled" THEN "fulfil" ELSE "reject",
                                    value |-> prom[s.inputs[i]].value]
                              ELSE prom[s.inputs[i]].value
=============================================================================
