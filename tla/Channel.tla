------------------------------ MODULE Channel ------------------------------
(***************************************************************************)
(* The Channel class (vm/channel.go, and Object#<- of vm/class.go) used by *)
(* the main thread and by goroutines started with `go`.                    *)
(*                                                                         *)
(* A ChannelObject is a Go channel of pointers and a field ChannelState    *)
(* that close sets before it closes the Go channel; the other methods test *)
(* the field before they touch the channel.  A thread may block between.   *)
(* Go's channel is modelled here: a bounded queue whose senders panic once *)
(* it is closed and whose receivers then drain it and get nil.             *)
(***************************************************************************)
EXTENDS Integers, Sequences

CONSTANTS
  Threads,
  Main,       \* the thread whose end is the end of the process
  MaxCap,     \* bound: capacity given to Channel new
  MaxValues,  \* bound: values sent in a run
  MaxArgs,    \* bound: arguments of one call of <-
  MaxNest     \* bound: calls of each that one thread nests

ASSUME ChannelAssumption ==
  /\ Main \in Threads
  /\ MaxCap \in Nat /\ MaxValues \in Nat /\ MaxArgs \in Nat \ {0}
  /\ MaxNest \in Nat \ {0}

VARIABLES
  cap,           \* capacity of the Go channel, the argument of Channel new
  ChannelState,  \* "open" or "closed"
  buf,           \* the Go channel: pointers that were sent, not received
  shut,          \* the Go channel is closed
  cells,         \* the variables `obj` allocated so far, by pointer
  numSent,       \* values that calls of <- were given so far
  pc,            \* the step each thread is at; "idle" is Lito code
  args,          \* values that the thread's call of <- has not boxed yet
  ptr,           \* the pointer the thread is sending, or has received
  loops,         \* calls of each whose block is running, per thread
  out,           \* ghost: received, in order: the pointer, the value read
  panicked,      \* ghost: the operation of Go that panicked last
  outcome        \* what became of the process

vars == <<cap, ChannelState, buf, shut, cells, numSent, pc, args, ptr, loops,
          out, panicked, outcome>>

Unread == 0   \* not a value: values are numbered from 1

Goto(t, step) == pc' = [pc EXCEPT ![t] = step]
Idle(t) == pc[t] = "idle"
isClosed == ChannelState = "closed"

-----------------------------------------------------------------------------
(* How a call ends other than by returning.                                *)

\* A goroutine ends silently; the process ends with its main thread.
Die(t, how) ==
  /\ Goto(t, "dead")
  /\ outcome' = IF t = Main THEN how ELSE outcome
  /\ UNCHANGED loops

\* A Lito error unwinds the running calls of each down to a try, or all.
Raise(t) ==
  \/ \E n \in 0..loops[t] :
       /\ loops' = [loops EXCEPT ![t] = n]
       /\ Goto(t, "idle")
       /\ UNCHANGED outcome
  \/ Die(t, "ended")

\* ChannelCloseError, "The channel is already closed."
Refused(t) ==
  /\ Idle(t) /\ isClosed
  /\ Raise(t)
  /\ UNCHANGED <<cap, ChannelState, buf, shut, cells, numSent, args, ptr,
                 out, panicked>>

\* A panic of the Go runtime: no try stops it.
GoPanic(t, op) ==
  /\ panicked' = op
  /\ Die(t, "crashed")
  /\ UNCHANGED <<cap, ChannelState, buf, shut, cells, numSent, args, ptr,
                 out>>

-----------------------------------------------------------------------------
(* channel <- value, ...                                                   *)

Send(t) ==
  /\ Idle(t) /\ ~isClosed
  /\ \E n \in 1..MaxArgs :
       /\ numSent + n <= MaxValues
       /\ args' = [args EXCEPT ![t] = [i \in 1..n |-> numSent + i]]
       /\ numSent' = numSent + n
  /\ Goto(t, "box")
  /\ UNCHANGED <<cap, ChannelState, buf, shut, cells, ptr, loops, out,
                 panicked, outcome>>

\* Mutant: the address of the loop variable is sent.
BoxShared(t) ==
  /\ pc[t] = "box"
  /\ \E p \in 1..Len(cells)+1 :
       /\ p = IF ptr[t] # 0 THEN ptr[t] ELSE Len(cells) + 1
       /\ cells' = [i \in 1..Len(cells) \cup {p} |->
                      IF i = p THEN Head(args[t]) ELSE cells[i]]
       /\ ptr' = [ptr EXCEPT ![t] = p]
  /\ args' = [args EXCEPT ![t] = Tail(@)]
  /\ Goto(t, "send")
  /\ UNCHANGED <<cap, ChannelState, buf, shut, numSent, loops, out,
                 panicked, outcome>>

\* obj := o, "a new variable to make the pointer work".
Box(t) ==
  /\ pc[t] = "box"
  /\ cells' = Append(cells, Head(args[t]))
  /\ ptr' = [ptr EXCEPT ![t] = Len(cells) + 1]
  /\ args' = [args EXCEPT ![t] = Tail(@)]
  /\ Goto(t, "send")
  /\ UNCHANGED <<cap, ChannelState, buf, shut, numSent, loops, out,
                 panicked, outcome>>

AfterSend(t) == IF args[t] = <<>> THEN "idle" ELSE "box"

Put(t) ==
  /\ pc[t] = "send" /\ ~shut /\ Len(buf) < cap
  /\ buf' = Append(buf, ptr[t])
  /\ Goto(t, AfterSend(t))
  /\ UNCHANGED <<cap, ChannelState, shut, cells, numSent, args, ptr, loops,
                 out, panicked, outcome>>

SendPanics(t) == pc[t] = "send" /\ shut /\ GoPanic(t, "send")

-----------------------------------------------------------------------------
(* channel.receive, <-channel and each                                     *)

Receive(t) ==
  /\ Idle(t) /\ ~isClosed
  /\ Goto(t, "receive")
  /\ UNCHANGED <<cap, ChannelState, buf, shut, cells, numSent, args, ptr,
                 loops, out, panicked, outcome>>

Each(t) ==
  /\ Idle(t) /\ ~isClosed /\ loops[t] < MaxNest
  /\ Goto(t, "range")
  /\ UNCHANGED <<cap, ChannelState, buf, shut, cells, numSent, args, ptr,
                 loops, out, panicked, outcome>>

Receiving(t) == pc[t] \in {"receive", "range"}
GotPointer(t) == IF pc[t] = "receive" THEN "deref" ELSE "derefEach"

\* t received the pointer p; ptr keeps its place in out.
Received(t, p) ==
  /\ out' = Append(out, [p |-> p, val |-> Unread])
  /\ ptr' = [ptr EXCEPT ![t] = Len(out) + 1]

Take(t) ==
  /\ Receiving(t) /\ buf # <<>>
  /\ Received(t, Head(buf))
  /\ buf' = Tail(buf)
  /\ Goto(t, GotPointer(t))
  /\ UNCHANGED <<cap, ChannelState, shut, cells, numSent, args, loops,
                 panicked, outcome>>

\* A sender hands its pointer to a thread that is waiting.
Pass(s, t) ==
  /\ pc[s] = "send" /\ ~shut /\ Receiving(t) /\ buf = <<>>
  /\ Received(t, ptr[s])
  /\ pc' = [pc EXCEPT ![s] = AfterSend(s), ![t] = GotPointer(t)]
  /\ UNCHANGED <<cap, ChannelState, buf, shut, cells, numSent, args, loops,
                 panicked, outcome>>

\* receive gives NIL; the loop of each ends.
TakeNil(t) ==
  /\ Receiving(t) /\ buf = <<>> /\ shut
  /\ Goto(t, "idle")
  /\ UNCHANGED <<cap, ChannelState, buf, shut, cells, numSent, args, ptr,
                 loops, out, panicked, outcome>>

\* Mutant: receive yields to a block as each does.
DerefYields(t) ==
  /\ pc[t] \in {"deref", "derefEach"}
  /\ out' = [out EXCEPT ![ptr[t]].val = cells[out[ptr[t]].p]]
  /\ loops' = [loops EXCEPT ![t] = @ + 1]
  /\ Goto(t, "idle")
  /\ UNCHANGED <<cap, ChannelState, buf, shut, cells, numSent, args, ptr,
                 panicked, outcome>>

\* *obj is read, and returned or yielded to the block of each.
Deref(t) ==
  /\ pc[t] \in {"deref", "derefEach"}
  /\ out' = [out EXCEPT ![ptr[t]].val = cells[out[ptr[t]].p]]
  /\ loops' = [loops EXCEPT ![t] = IF pc[t] = "deref" THEN @ ELSE @ + 1]
  /\ Goto(t, "idle")
  /\ UNCHANGED <<cap, ChannelState, buf, shut, cells, numSent, args, ptr,
                 panicked, outcome>>

\* The block of each returns, and the loop goes on unless it was a break.
EndBlock(t) ==
  /\ Idle(t) /\ loops[t] > 0
  /\ loops' = [loops EXCEPT ![t] = @ - 1]
  /\ \/ Goto(t, "range")
     \/ UNCHANGED pc
  /\ UNCHANGED <<cap, ChannelState, buf, shut, cells, numSent, args, ptr,
                 out, panicked, outcome>>

BlockRaises(t) ==
  /\ Idle(t) /\ loops[t] > 0
  /\ Raise(t)
  /\ UNCHANGED <<cap, ChannelState, buf, shut, cells, numSent, args, ptr,
                 out, panicked>>

-----------------------------------------------------------------------------
(* channel.close                                                           *)

Close(t) ==
  /\ Idle(t) /\ ~isClosed
  /\ Goto(t, "mark")
  /\ UNCHANGED <<cap, ChannelState, buf, shut, cells, numSent, args, ptr,
                 loops, out, panicked, outcome>>

\* Mutant: the Go channel is closed first.
MarkShut(t) ==
  /\ pc[t] = "mark"
  /\ shut' = TRUE
  /\ Goto(t, "shut")
  /\ UNCHANGED <<cap, ChannelState, buf, cells, numSent, args, ptr, loops,
                 out, panicked, outcome>>

MarkClosed(t) ==
  /\ pc[t] = "mark"
  /\ ChannelState' = "closed"
  /\ Goto(t, "shut")
  /\ UNCHANGED <<cap, buf, shut, cells, numSent, args, ptr, loops, out,
                 panicked, outcome>>

\* Mutant: close sets the field and leaves the Go channel open.
ShutNothing(t) ==
  /\ pc[t] = "shut"
  /\ Goto(t, "idle")
  /\ UNCHANGED <<cap, ChannelState, buf, shut, cells, numSent, args, ptr,
                 loops, out, panicked, outcome>>

Shut(t) ==
  /\ pc[t] = "shut" /\ ~shut
  /\ shut' = TRUE
  /\ Goto(t, "idle")
  /\ UNCHANGED <<cap, ChannelState, buf, cells, numSent, args, ptr, loops,
                 out, panicked, outcome>>

ClosePanics(t) == pc[t] = "shut" /\ shut /\ GoPanic(t, "close")

-----------------------------------------------------------------------------
\* The block of a goroutine, or the program, ends.
Finish(t) ==
  /\ Idle(t) /\ loops[t] = 0
  /\ Die(t, "ended")
  /\ UNCHANGED <<cap, ChannelState, buf, shut, cells, numSent, args, ptr,
                 out, panicked>>

Init ==
  /\ cap \in 0..MaxCap
  /\ ChannelState = "open" /\ shut = FALSE
  /\ buf = <<>> /\ cells = <<>> /\ out = <<>> /\ numSent = 0
  /\ pc = [t \in Threads |-> "idle"]
  /\ args = [t \in Threads |-> <<>>]
  /\ ptr = [t \in Threads |-> 0]
  /\ loops = [t \in Threads |-> 0]
  /\ panicked = "none" /\ outcome = "running"

\* What one thread does inside a call once it has begun.
Inside(t) ==
  \/ Box(t) \/ Put(t) \/ SendPanics(t) \/ Take(t) \/ TakeNil(t) \/ Deref(t)
  \/ MarkClosed(t) \/ Shut(t) \/ ClosePanics(t)

Step(t) ==
  \/ Inside(t) \/ Refused(t) \/ Send(t) \/ Receive(t) \/ Each(t)
  \/ EndBlock(t) \/ BlockRaises(t) \/ Close(t) \/ Finish(t)
  \/ \E s \in Threads : Pass(s, t)

Next == outcome = "running" /\ \E t \in Threads : Step(t)

Spec == Init /\ [][Next]_vars

\* Go runs every goroutine that can run, and blocks of each end.
FairSpec ==
  /\ Spec
  /\ \A t \in Threads :
       /\ WF_vars(outcome = "running" /\ Inside(t))
       /\ WF_vars(outcome = "running" /\ EndBlock(t))

-----------------------------------------------------------------------------
(* Properties.                                                             *)

Steps == {"idle", "box", "send", "receive", "range", "deref", "derefEach",
          "mark", "shut", "dead"}

\* Every variable keeps the shape the code gives it, and the Go channel its
\* capacity.
TypeOK ==
  /\ cap \in 0..MaxCap
  /\ ChannelState \in {"open", "closed"} /\ shut \in BOOLEAN
  /\ buf \in Seq(1..Len(cells)) /\ Len(buf) <= cap
  /\ cells \in Seq(1..MaxValues) /\ numSent \in 0..MaxValues
  /\ pc \in [Threads -> Steps]
  /\ args \in [Threads -> Seq(1..MaxValues)]
  /\ ptr \in [Threads -> 0..MaxValues]
  /\ loops \in [Threads -> 0..MaxNest]
  /\ out \in Seq([p : 1..Len(cells), val : 0..MaxValues])
  /\ panicked \in {"none", "send", "close"}
  /\ outcome \in {"running", "ended", "crashed"}

\* The values threads get are the values other threads sent, in the order in
\* which the channel accepted them and once each, although what travels are
\* pointers that are followed later.
Contents(ps) == [i \in 1..Len(ps) |-> cells[ps[i]]]
Delivered ==
  [i \in 1..Len(out) |->
     IF out[i].val = Unread THEN cells[out[i].p] ELSE out[i].val]

Abstract == INSTANCE Fifo
  WITH Values <- 1..MaxValues, queue <- Contents(buf), taken <- Delivered,
       closed <- shut
Delivers == Abstract!Spec

\* No value is delivered twice, or delivered and still on its way.
OnlyOnce ==
  LET all == Delivered \o Contents(buf)
  IN \A i, j \in 1..Len(all) : i # j => all[i] # all[j]

\* The end of the Go channel is never seen before closed? answers true: who
\* gets NIL or leaves each because of a close can tell.
FieldFirst == shut => isClosed

\* Once closed? answers true nobody goes on waiting for the channel, sender
\* or receiver, whatever the blocks of each do.
Released ==
  isClosed ~> [](outcome = "running" =>
                 \A t \in Threads : pc[t] \notin {"send", "receive", "range"})

\* specs/channel_spec.lito, "can't send to a closed channel": the sender gets
\* a ChannelCloseError, never a panic of the Go runtime.
SendRefused == panicked # "send"
=============================================================================
