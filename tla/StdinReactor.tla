---------------------------- MODULE StdinReactor ----------------------------
(***************************************************************************)
(* Standard input of a WASI program: the fd-readiness variant of the run   *)
(* loop (codegen/async-scheduler.ts, buildRunLoopBodyWithFdReactor), the   *)
(* buffer it reads fd 0 into, and the process.stdin stream that programs   *)
(* are given on top of it (process-stdin-prelude.ts).                      *)
(*                                                                         *)
(* Bytes are numbered in the order the peer writes them; a cell of either  *)
(* buffer that holds no unread byte is 0, whatever the memory still holds, *)
(* so that a stale cell that is read shows in ByteStream.  The stream calls *)
(* back into user code in the middle of its pump, and user code calls the  *)
(* stream again: the stack holds the activations.  Timers and microtasks   *)
(* matter here as further places where user code runs; EventLoop and       *)
(* MicrotaskQueue model them in detail.                                    *)
(***************************************************************************)
EXTENDS Integers, Sequences, FiniteSets, FiniteSetsExt

CONSTANTS
  Cap,            \* RL_STDIN_BUF_CAP
  InitialBuf,     \* length of a new stream's byte buffer (64)
  ReadSizes,      \* sizes that programs pass to read(size)
  MayFail,        \* whether fd_read may fail
  MaxBytes,       \* bound: bytes the peer writes
  MaxListeners,   \* bound: listeners of one event
  MaxBodies       \* bound: timers set and microtasks queued in a behaviour

ASSUME StdinAssumption ==
  /\ Cap \in Nat \ {0} /\ InitialBuf \in Nat \ {0} /\ ReadSizes \subseteq Nat
  /\ MayFail \in BOOLEAN
  /\ {MaxBytes, MaxListeners, MaxBodies} \subseteq Nat

VARIABLES
  peer,       \* the other end of fd 0: bytes written and read, closed, failed
  rb,         \* the reactor's globals: buffer, cursors, fd 0 subscription
  st,         \* the fields of the __Js2wasmReadable singleton
  listeners,  \* listeners registered for each event
  stack,      \* activations, innermost last
  pc,         \* where __run_event_loop is
  timers,     \* how many timers are armed
  micro,      \* how many microtasks are queued
  bodies,     \* how many timers were set and microtasks queued so far
  out,        \* history: the bytes handed to the program
  touched     \* history: the program used the stream since it was last pumped

vars == <<peer, rb, st, listeners, stack, pc, timers, micro, bodies, out, touched>>

-----------------------------------------------------------------------------
(* The reactor's buffer *)

Unread == rb.len - rb.pos                               \* __wasiStdinAvailable

\* __wasiStdinEof
Eof == ~rb.active /\ rb.pos >= rb.len

\* Both cursors go back to 0 when everything was read.
Reclaim == IF rb.pos >= rb.len THEN [rb EXCEPT !.pos = 0, !.len = 0] ELSE rb

-----------------------------------------------------------------------------
(* The stream's own buffer *)

Avail(s) == s.tail - s.head

\* The bytes buf[head..tail)
Slice(s, n) == [k \in 1..n |-> s.buf[s.head + k - 1]]

\* Mutation: the prefix is reclaimed without moving the bytes.
EnsureWithoutMove(s) ==
  LET m == Avail(s)
      grown == [k \in 0..(2 * Cardinality(DOMAIN s.buf) - 1) |->
                  IF k < m THEN s.buf[s.head + k] ELSE 0]
  IN  IF s.tail < Cardinality(DOMAIN s.buf) THEN s
      ELSE IF s.head > 0 THEN [s EXCEPT !.head = 0, !.tail = m]
      ELSE [s EXCEPT !.buf = grown]

\* ensure(1): reclaim the consumed prefix, else double the array (whose length
\* never is below the minimum of 16, since it starts at 64).
Ensure(s) ==
  LET size == Cardinality(DOMAIN s.buf)
      m == Avail(s)
  IN  CASE s.tail < size -> s
        [] s.tail >= size /\ s.head > 0 ->
             [s EXCEPT !.buf = [k \in DOMAIN s.buf |-> IF k < m THEN s.buf[s.head + k] ELSE 0],
                       !.head = 0, !.tail = m]
        [] OTHER ->
             [s EXCEPT !.buf = [k \in 0..(2 * size - 1) |-> IF k < size THEN s.buf[k] ELSE 0]]

AppendByte(s, b) == LET r == Ensure(s) IN [r EXCEPT !.buf[r.tail] = b, !.tail = @ + 1]

\* drainBytes(): take every unread byte out of the reactor's buffer.
DrainBytes(s) ==
  LET after[k \in 0..Unread] ==
        IF k = 0 THEN s ELSE AppendByte(after[k - 1], rb.mem[rb.pos + k - 1])
  IN  after[Unread]

Blank(buf) == [k \in DOMAIN buf |-> 0]

\* The reactor's buffer after drainBytes()
AllTaken == [rb EXCEPT !.pos = rb.len, !.mem = Blank(@)]

Emptied(s) == [s EXCEPT !.head = 0, !.tail = 0, !.buf = Blank(@)]

\* Take the first n buffered bytes.
Taken(s, n) ==
  IF n >= Avail(s) THEN Emptied(s)
  ELSE [s EXCEPT !.head = @ + n,
                 !.buf = [k \in DOMAIN @ |-> IF k < s.head + n THEN 0 ELSE @[k]]]

-----------------------------------------------------------------------------
(* Activations.  A frame is user code started by the loop ("body"), a pump   *)
(* that is at one of its stages, or a dispatch of 'close'; user is TRUE      *)
(* while the program's own code runs in it, i counts the listeners called.   *)

Dispatching == {"readable", "data", "end", "close"}
Stages == Dispatching \cup {"body", "flow", "finish"}

Frame(at, eof) == [at |-> at, i |-> 0, eof |-> eof, user |-> at = "body"]
Depth == Len(stack)
Top == stack[Depth]
Pop == SubSeq(stack, 1, Depth - 1)
Goto(at) == [stack EXCEPT ![Depth].at = at, ![Depth].i = 0]
InUserCode == stack # <<>> /\ Top.user
At(stages) == stack # <<>> /\ ~Top.user /\ Top.at \in stages

Init ==
  /\ peer = [written |-> 0, read |-> 0, closed |-> FALSE, failed |-> FALSE]
  /\ rb = [mem |-> [k \in 0..(Cap - 1) |-> 0], pos |-> 0, len |-> 0, active |-> TRUE]
  /\ st = [buf |-> [k \in 0..(InitialBuf - 1) |-> 0], head |-> 0, tail |-> 0,
           flowing |-> FALSE, paused |-> FALSE, ended |-> FALSE, armed |-> FALSE,
           eofReadableFired |-> FALSE, destroyed |-> FALSE]
  /\ listeners = [e \in Dispatching |-> 0]
  /\ stack = <<Frame("body", FALSE)>>
  /\ pc = "drain1"
  /\ timers = 0 /\ micro = 0 /\ bodies = 0
  /\ out = <<>> /\ touched = FALSE

-----------------------------------------------------------------------------
(* pump() *)

\* Mutation: the final 'readable' dispatch is repeated.
AnnouncesAgain(got, s) == got > 0 \/ (Eof' /\ Avail(s) > 0)

\* New bytes arrived, or the stream has just reached its end with bytes left.
Announces(got, s) == got > 0 \/ (Eof' /\ ~s.eofReadableFired /\ Avail(s) > 0)

\* Mutation: the end of the stream is looked up before the bytes are taken.
PumpEntryStaleEof(base, s) ==
  IF s.destroyed
  THEN stack' = base /\ st' = s /\ UNCHANGED <<rb, touched>>
  ELSE LET d == DrainBytes(s)
       IN  /\ rb' = AllTaken
           /\ stack' = Append(base, Frame(IF Announces(Unread, d) THEN "readable" ELSE "flow", Eof))
           /\ st' = [d EXCEPT !.eofReadableFired = @ \/ (Eof /\ Avail(d) > 0)]
           /\ touched' = FALSE

\* A call of pump(), up to its first callback; base is the stack it is called on.
PumpEntry(base, s) ==
  IF s.destroyed
  THEN stack' = base /\ st' = s /\ UNCHANGED <<rb, touched>>
  ELSE LET d == DrainBytes(s)
       IN  /\ rb' = AllTaken
           /\ stack' = Append(base, Frame(IF Announces(Unread, d) THEN "readable" ELSE "flow", Eof'))
           /\ st' = [d EXCEPT !.eofReadableFired = @ \/ (Eof' /\ Avail(d) > 0)]
           /\ touched' = FALSE

\* The next listener of the event is called.
CallListener ==
  /\ At(Dispatching) /\ Top.i < listeners[Top.at]
  /\ stack' = [stack EXCEPT ![Depth].i = @ + 1, ![Depth].user = TRUE]
  /\ UNCHANGED <<peer, rb, st, listeners, pc, timers, micro, bodies, out, touched>>

\* Every listener was called.
DispatchDone ==
  /\ At(Dispatching) /\ Top.i >= listeners[Top.at]
  /\ stack' = CASE Top.at = "readable" -> Goto("flow")
                [] Top.at = "data" -> Goto("finish")
                [] Top.at \in {"end", "close"} -> Pop
  /\ UNCHANGED <<peer, rb, st, listeners, pc, timers, micro, bodies, out, touched>>

\* emitChunk() when the stream flows: the buffer is emptied before the callbacks.
Flow ==
  /\ At({"flow"})
  /\ IF st.flowing /\ ~st.paused /\ Avail(st) > 0
     THEN /\ out' = out \o Slice(st, Avail(st))
          /\ st' = Emptied(st)
          /\ stack' = Goto("data")
     ELSE stack' = Goto("finish") /\ UNCHANGED <<st, out>>
  /\ UNCHANGED <<peer, rb, listeners, pc, timers, micro, bodies, touched>>

\* Mutation: 'end' does not wait for the bytes that a paused stream withholds.
FinishAtEof ==
  /\ At({"finish"})
  /\ IF Top.eof /\ ~st.ended
     THEN st' = [st EXCEPT !.ended = TRUE] /\ stack' = Goto("end")
     ELSE stack' = Pop /\ UNCHANGED st
  /\ UNCHANGED <<peer, rb, listeners, pc, timers, micro, bodies, out, touched>>

\* 'end', once, when the stream was at its end and everything was delivered
Finish ==
  /\ At({"finish"})
  /\ IF Top.eof /\ Avail(st) = 0 /\ ~st.ended
     THEN st' = [st EXCEPT !.ended = TRUE] /\ stack' = Goto("end")
     ELSE stack' = Pop /\ UNCHANGED st
  /\ UNCHANGED <<peer, rb, listeners, pc, timers, micro, bodies, out, touched>>

-----------------------------------------------------------------------------
(* What the program may do with process.stdin, wherever its code runs *)

\* Only what the loop starts counts: a pump on the stack still looks at the stream.
Touch == touched' = (touched \/ Top.at = "body")

\* on(event, cb)
On(e) ==
  /\ InUserCode /\ listeners[e] < MaxListeners
  /\ listeners' = [listeners EXCEPT ![e] = @ + 1]
  /\ st' = [st EXCEPT !.flowing = @ \/ e = "data", !.armed = @ \/ e # "close"]
  /\ Touch
  /\ UNCHANGED <<peer, rb, stack, pc, timers, micro, bodies, out>>

AllSizes == -1    \* read() without a size

\* How many bytes read(size) returns from the drained stream s.
ReadCount(s, size) ==
  CASE size = AllSizes -> Avail(s)
    [] size # AllSizes /\ Avail(s) < size -> IF Eof' THEN Avail(s) ELSE 0
    [] OTHER -> size

\* read([size]): returns null from a destroyed stream
Read(size) ==
  /\ InUserCode /\ ~st.destroyed
  /\ LET d == DrainBytes(st)
     IN  /\ rb' = AllTaken
         /\ st' = IF ReadCount(d, size) = 0 THEN d ELSE Taken(d, ReadCount(d, size))
         /\ out' = out \o Slice(d, ReadCount(d, size))
  /\ Touch
  /\ UNCHANGED <<peer, listeners, stack, pc, timers, micro, bodies>>

Pause ==
  /\ InUserCode /\ st' = [st EXCEPT !.paused = TRUE]
  /\ UNCHANGED <<peer, rb, listeners, stack, pc, timers, micro, bodies, out, touched>>

\* resume() pumps at once, in the middle of another pump too.
Resume ==
  /\ InUserCode
  /\ PumpEntry(stack, [st EXCEPT !.paused = FALSE, !.flowing = TRUE, !.armed = TRUE])
  /\ UNCHANGED <<peer, listeners, pc, timers, micro, bodies, out>>

\* Mutation: the subscription is kept.
DestroyKeepingFd ==
  /\ InUserCode /\ ~st.destroyed
  /\ st' = [st EXCEPT !.destroyed = TRUE]
  /\ stack' = Append(stack, Frame("close", FALSE))
  /\ UNCHANGED <<peer, rb, listeners, pc, timers, micro, bodies, out, touched>>

\* destroy(): __wasiStdinStop drops the subscription, then 'close' is dispatched.
Destroy ==
  /\ InUserCode /\ ~st.destroyed
  /\ st' = [st EXCEPT !.destroyed = TRUE]
  /\ rb' = [rb EXCEPT !.active = FALSE]
  /\ stack' = Append(stack, Frame("close", FALSE))
  /\ UNCHANGED <<peer, listeners, pc, timers, micro, bodies, out, touched>>

SetTimer ==
  /\ InUserCode /\ bodies < MaxBodies
  /\ timers' = timers + 1 /\ bodies' = bodies + 1
  /\ UNCHANGED <<peer, rb, st, listeners, stack, pc, micro, out, touched>>

QueueMicrotask ==
  /\ InUserCode /\ bodies < MaxBodies
  /\ micro' = micro + 1 /\ bodies' = bodies + 1
  /\ UNCHANGED <<peer, rb, st, listeners, stack, pc, timers, out, touched>>

\* User code ends: back to the loop, or to the dispatch that called it.
Return ==
  /\ InUserCode
  /\ stack' = IF Top.at = "body" THEN Pop ELSE [stack EXCEPT ![Depth].user = FALSE]
  /\ UNCHANGED <<peer, rb, st, listeners, pc, timers, micro, bodies, out, touched>>

-----------------------------------------------------------------------------
(* The peer at the other end of fd 0 (external).  Only ReadFd and Poll look at *)
(* the peer, and only while fd 0 is subscribed (without, the loop polls with a *)
(* timer armed, and Poll does not wait for fd 0), so that its steps commute    *)
(* with all others: they are taken where the loop is about to look, which      *)
(* leaves no outcome out.  After a failure what was not read is lost; a        *)
(* failure after the end cannot be told from one instead of it.                *)

LoopLooks == stack = <<>> /\ rb.active /\ pc \in {"stdin", "poll"}

PeerWrite ==
  /\ LoopLooks /\ ~peer.closed /\ ~peer.failed /\ peer.written < MaxBytes
  /\ peer' = [peer EXCEPT !.written = @ + 1]
  /\ UNCHANGED <<rb, st, listeners, stack, pc, timers, micro, bodies, out, touched>>

PeerClose ==
  /\ LoopLooks /\ ~peer.closed /\ ~peer.failed
  /\ peer' = [peer EXCEPT !.closed = TRUE]
  /\ UNCHANGED <<rb, st, listeners, stack, pc, timers, micro, bodies, out, touched>>

PeerFail ==
  /\ LoopLooks /\ MayFail /\ ~peer.closed /\ ~peer.failed
  /\ peer' = [peer EXCEPT !.failed = TRUE, !.written = peer.read]
  /\ UNCHANGED <<rb, st, listeners, stack, pc, timers, micro, bodies, out, touched>>

\* poll_oneoff reports fd 0: data, hang-up or error
FdReady == peer.written > peer.read \/ peer.closed \/ peer.failed

-----------------------------------------------------------------------------
(* __run_event_loop *)

InLoop(place) == stack = <<>> /\ pc = place

RunJob ==
  /\ stack = <<>> /\ pc \in {"drain1", "drain2"} /\ micro > 0
  /\ micro' = micro - 1
  /\ stack' = <<Frame("body", FALSE)>>
  /\ UNCHANGED <<peer, rb, st, listeners, pc, timers, bodies, out, touched>>

DrainDone ==
  /\ stack = <<>> /\ pc \in {"drain1", "drain2"} /\ micro = 0
  /\ pc' = IF pc = "drain1" THEN "stdin" ELSE "peek"
  /\ UNCHANGED <<peer, rb, st, listeners, stack, timers, micro, bodies, out, touched>>

\* fd_read stores n bytes behind the unread ones.
Received(r, n) ==
  [r EXCEPT !.mem = [k \in DOMAIN r.mem |->
                       IF k \in r.len..(r.len + n - 1) THEN peer.read + 1 + k - r.len ELSE r.mem[k]],
            !.len = @ + n]

\* All there is, as far as there is space; a short read is one before the peer
\* has written more.
Fits(r) == Min({Cap - r.len, peer.written - peer.read})

\* Mutations: fd_read may store more than there is space for; the end of the
\* stream leaves the subscription.
StdinDrainWholeBuffer(r) ==
  /\ ~peer.failed
  /\ \E n \in 0..Cap :
       /\ n <= peer.written - peer.read /\ (n = 0 => peer.written = peer.read)
       /\ rb' = [Received(r, n) EXCEPT !.active = ~(n = 0 /\ peer.closed)]
       /\ peer' = [peer EXCEPT !.read = @ + n]
StdinDrainKeepingFd(r) ==
  \/ peer.failed /\ rb' = [r EXCEPT !.active = FALSE] /\ UNCHANGED peer
  \/ /\ ~peer.failed /\ peer.written = peer.read
     /\ rb' = r /\ UNCHANGED peer
  \/ /\ ~peer.failed
     /\ LET n == Fits(r)
        IN  n > 0 /\ rb' = Received(r, n) /\ peer' = [peer EXCEPT !.read = @ + n]

\* The fd_read of __rl_stdin_drain into the space behind r: an error and a read
\* of 0 bytes drop the subscription, EAGAIN does not.
StdinDrain(r) ==
  \/ peer.failed /\ rb' = [r EXCEPT !.active = FALSE] /\ UNCHANGED peer
  \/ /\ ~peer.failed /\ peer.written = peer.read
     /\ rb' = [r EXCEPT !.active = ~peer.closed] /\ UNCHANGED peer
  \/ /\ ~peer.failed
     /\ LET n == Fits(r)
        IN  n > 0 /\ rb' = Received(r, n) /\ peer' = [peer EXCEPT !.read = @ + n]

\* fd 0 is read while it is subscribed and there is space.
ReadFd ==
  /\ InLoop("stdin")
  /\ IF ~rb.active THEN UNCHANGED <<rb, peer>>
     ELSE IF Reclaim.len = Cap THEN rb' = Reclaim /\ UNCHANGED peer
     ELSE StdinDrain(Reclaim)
  /\ pc' = "pump"
  /\ UNCHANGED <<st, listeners, stack, timers, micro, bodies, out, touched>>

\* The reader hook, once a listener or resume() has set it
PumpTick ==
  /\ InLoop("pump")
  /\ IF st.armed THEN PumpEntry(<<>>, st) ELSE UNCHANGED <<rb, st, stack, touched>>
  /\ pc' = "fire"
  /\ UNCHANGED <<peer, listeners, timers, micro, bodies, out>>

FireTimer ==
  /\ InLoop("fire") /\ timers > 0
  /\ timers' = timers - 1
  /\ stack' = <<Frame("body", FALSE)>>
  /\ UNCHANGED <<peer, rb, st, listeners, pc, micro, bodies, out, touched>>

\* The other timers are not due.
FireDone ==
  /\ InLoop("fire")
  /\ pc' = "drain2"
  /\ UNCHANGED <<peer, rb, st, listeners, stack, timers, micro, bodies, out, touched>>

\* The loop goes on while a timer is armed or fd 0 is subscribed.
Peek ==
  /\ InLoop("peek")
  /\ pc' = IF timers > 0 \/ rb.active THEN "poll" ELSE "exit"
  /\ UNCHANGED <<peer, rb, st, listeners, stack, timers, micro, bodies, out, touched>>

\* __rl_poll_fd0_or_clock blocks on fd 0 and on the next deadline, if there is one.
Poll ==
  /\ InLoop("poll") /\ (FdReady \/ timers > 0)
  /\ pc' = "drain1"
  /\ UNCHANGED <<peer, rb, st, listeners, stack, timers, micro, bodies, out, touched>>

Loop == RunJob \/ DrainDone \/ ReadFd \/ PumpTick \/ FireTimer \/ FireDone \/ Peek \/ Poll
Pump == CallListener \/ DispatchDone \/ Flow \/ Finish

User ==
  \/ Pause \/ Resume \/ Destroy \/ SetTimer \/ QueueMicrotask
  \/ \E e \in Dispatching : On(e)
  \/ \E size \in ReadSizes \cup {AllSizes} : Read(size)

Next == Loop \/ Pump \/ User \/ Return \/ PeerWrite \/ PeerClose \/ PeerFail

Spec == Init /\ [][Next]_vars

\* The loop is one thread that is never suspended, user code ends and an armed
\* timer becomes due.  Nothing is assumed of the peer.
FairSpec == Spec /\ WF_vars(Loop \/ Pump) /\ SF_vars(Return) /\ SF_vars(FireTimer)

-----------------------------------------------------------------------------
(* Properties *)

TypeOK ==
  /\ peer \in [written : 0..MaxBytes, read : 0..MaxBytes, closed : BOOLEAN, failed : BOOLEAN]
  /\ rb \in [mem : [0..(Cap - 1) -> 0..MaxBytes], pos : 0..Cap, len : 0..Cap, active : BOOLEAN]
  /\ st.head \in Nat /\ st.tail \in Nat /\ st.tail <= Cardinality(DOMAIN st.buf)
  /\ listeners \in [Dispatching -> 0..MaxListeners]
  /\ stack \in Seq([at : Stages, i : Nat, eof : BOOLEAN, user : BOOLEAN])
  /\ pc \in {"drain1", "stdin", "pump", "fire", "drain2", "peek", "poll", "exit"}
  /\ timers + micro <= bodies /\ bodies <= MaxBodies
  /\ touched \in BOOLEAN

\* No byte is lost, repeated or reordered on its way through the two buffers,
\* through compaction, growth, short reads and partial read(size) calls: the
\* bytes handed out, those in the stream and those in the reactor's buffer are
\* the bytes read from fd 0.
ByteStream ==
  out \o Slice(st, Avail(st)) \o [k \in 1..Unread |-> rb.mem[rb.pos + k - 1]]
    = [k \in 1..peer.read |-> k]

\* 'end' is not dispatched before the program has got every byte that the peer
\* wrote before it closed, pauses and nested pumps notwithstanding.
EndComplete == st.ended => peer.failed \/ (peer.closed /\ Len(out) = peer.written)

\* Callbacks that resume the stream nest pumps, but not without end: each of the
\* three dispatches of a pump can be nested once, and the innermost has none.
NestingBounded == Cardinality({k \in 1..Depth : stack[k].at \notin {"body", "close"}}) <= 4

\* When the loop returns and the program has not used the stream since it was
\* last pumped, no byte of a flowing stream is stuck and 'end' was dispatched
\* if everything was delivered.
ExitDelivered ==
  pc = "exit" /\ st.armed /\ ~st.destroyed /\ ~touched =>
    /\ Unread = 0
    /\ st.flowing /\ ~st.paused => Avail(st) = 0
    /\ Avail(st) = 0 => st.ended

\* A program ends once it has destroyed the stream, even though the peer keeps
\* fd 0 open and writes on, and a program that listens ends once the peer has
\* closed or fd 0 fails: the buffer is emptied, however small, and the end of
\* the stream is seen.
InputOver == st.destroyed \/ (st.armed /\ (peer.closed \/ peer.failed))
ProgramEnds == InputOver ~> (pc = "exit")

Starts(events) == At(events) /\ Top.i < listeners[Top.at] /\ stack'[Depth].user

\* "Emits 'close' once, then suppresses all further events"
SilentAfterDestroy == [][Starts({"readable", "data", "end"}) => ~st.destroyed]_vars

\* "'end' fires once fd0 is at EOF AND the stream's own buffer is fully delivered":
\* it is not left out when a stream that was pumped at its end with bytes left
\* has these read by the program afterwards.
EndNotLost ==
  pc = "exit" /\ ~st.destroyed /\ st.eofReadableFired /\ Avail(st) = 0 => st.ended
=============================================================================
