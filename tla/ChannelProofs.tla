---------------------------- MODULE ChannelProofs ----------------------------
(* Channel implements Fifo, for any threads, capacity and number of values,  *)
(* and delivers no value twice.                                              *)
EXTENDS Channel, TLAPS, FiniteSetTheorems

\* The types of the variables the abstract queue depends on.
Shape ==
  /\ ChannelState \in {"open", "closed"} /\ shut \in BOOLEAN
  /\ cells \in Seq(1..MaxValues) /\ buf \in Seq(Nat)
  /\ out \in Seq([p : Nat, val : Nat])
  /\ numSent \in Nat
  /\ pc \in [Threads -> Steps]
  /\ args \in [Threads -> Seq(1..MaxValues)]
  /\ ptr \in [Threads -> Nat]

\* Every pointer leads to a cell, and what was read is what the cell holds.
Pointers ==
  /\ \A i \in 1..Len(buf) : buf[i] \in 1..Len(cells)
  /\ \A i \in 1..Len(out) : /\ out[i].p \in 1..Len(cells)
                            /\ out[i].val \in {Unread, cells[out[i].p]}

\* What each step inside a call knows of the thread's locals and of the field.
CallsSound ==
  \A t \in Threads :
    /\ pc[t] = "box" => args[t] # <<>>
    /\ pc[t] = "send" => ptr[t] \in 1..Len(cells)
    /\ pc[t] \in {"deref", "derefEach"} => ptr[t] \in 1..Len(out)
    /\ pc[t] = "shut" => isClosed

IInv == Shape /\ Pointers /\ CallsSound /\ FieldFirst

\* The state of the queue, as the refinement sees it.
fifo == <<Contents(buf), Delivered, shut>>

-----------------------------------------------------------------------------
(* Sequences.                                                                *)

\* The elements of a sequence over S are in S.
LEMMA ElementFacts ==
  ASSUME NEW S, NEW s \in Seq(S)
  PROVE  Len(s) \in Nat /\ \A k \in 1..Len(s) : s[k] \in S
OBVIOUS

\* Length and elements of a sequence with one more element.
LEMMA AppendFacts ==
  ASSUME NEW S, NEW s \in Seq(S), NEW x \in S
  PROVE  /\ Append(s, x) \in Seq(S) /\ Len(Append(s, x)) = Len(s) + 1
         /\ Append(s, x)[Len(s) + 1] = x
         /\ \A i \in 1..Len(s) : Append(s, x)[i] = s[i]
OBVIOUS

\* Length and elements of the rest of a sequence.
LEMMA TailFacts ==
  ASSUME NEW S, NEW s \in Seq(S), s # <<>>
  PROVE  /\ Tail(s) \in Seq(S) /\ Len(Tail(s)) = Len(s) - 1 /\ Len(s) \in Nat \ {0}
         /\ Head(s) = s[1] /\ Head(s) \in S
         /\ \A i \in 1..Len(s) - 1 : Tail(s)[i] = s[i + 1]
OBVIOUS

\* A function on 1..n is a sequence, with what can be said of one.
LEMMA FunctionIsSeq ==
  ASSUME NEW S, NEW n \in Nat, NEW f \in [1..n -> S]
  PROVE  f \in Seq(S) /\ Len(f) = n
OBVIOUS

\* Two sequences with the same length and elements are equal.
LEMMA SameSeq ==
  ASSUME NEW S, NEW s \in Seq(S), NEW u \in Seq(S), Len(s) = Len(u),
         \A i \in 1..Len(s) : s[i] = u[i]
  PROVE  s = u
OBVIOUS

\* What the refinement reads from the pointers.
Reading ==
  /\ Contents(buf) \in Seq(1..MaxValues)
  /\ Len(Contents(buf)) = Len(buf) /\ Len(buf) \in Nat
  /\ \A i \in 1..Len(buf) : Contents(buf)[i] = cells[buf[i]]
  /\ Delivered \in Seq(1..MaxValues)
  /\ Len(Delivered) = Len(out) /\ Len(out) \in Nat
  /\ \A i \in 1..Len(out) : Delivered[i] = cells[out[i].p]
  /\ \A k \in 1..Len(cells) : cells[k] \in 1..MaxValues

\* In a state of the invariant it reads values.
LEMMA ReadingFacts == IInv => Reading
<1> SUFFICES ASSUME IInv PROVE Reading
  OBVIOUS
<1>1. /\ Len(buf) \in Nat /\ Len(out) \in Nat
      /\ \A k \in 1..Len(cells) : cells[k] \in 1..MaxValues
  <2>1. /\ buf \in Seq(Nat) /\ cells \in Seq(1..MaxValues)
        /\ out \in Seq([p : Nat, val : Nat])
    BY DEF IInv, Shape
  <2> QED BY <2>1, ElementFacts
<1>2. Contents(buf) \in [1..Len(buf) -> 1..MaxValues]
  BY <1>1 DEF IInv, Pointers, Contents
<1>3. \A i \in 1..Len(buf) : Contents(buf)[i] = cells[buf[i]]
  BY DEF Contents
<1>4. \A i \in 1..Len(out) : Delivered[i] = cells[out[i].p]
  BY DEF Delivered, IInv, Pointers, Unread
<1>5. Delivered \in [1..Len(out) -> 1..MaxValues]
  <2>1. \A i \in 1..Len(out) : Delivered[i] \in 1..MaxValues
    BY <1>1, <1>4 DEF IInv, Pointers
  <2> QED BY <2>1 DEF Delivered
<1> QED BY <1>1, <1>2, <1>3, <1>4, <1>5, FunctionIsSeq DEF Reading

\* And so it does after a step that keeps the invariant.
LEMMA ReadingNext == IInv' => Reading'
BY ReadingFacts, PTL

-----------------------------------------------------------------------------
(* Steps.                                                                    *)

\* Steps that move threads to places where nothing is expected of them.
LEMMA QuietStep ==
  ASSUME IInv,
         UNCHANGED <<ChannelState, buf, shut, cells, numSent, args, ptr, out>>,
         pc' \in [Threads -> Steps],
         \A u \in Threads :
           \/ pc'[u] = pc[u]
           \/ pc'[u] \in {"idle", "dead", "receive", "range", "mark"}
  PROVE  IInv' /\ UNCHANGED fifo
<1>1. Shape' /\ Pointers' /\ FieldFirst'
  BY DEF IInv, Shape, Pointers, FieldFirst, isClosed
<1>2. CallsSound'
  BY DEF IInv, CallsSound, isClosed
<1>3. UNCHANGED fifo
  BY DEF fifo, Contents, Delivered
<1> QED BY <1>1, <1>2, <1>3 DEF IInv

\* Every step of a thread that touches neither the memory nor the channel.
LEMMA QuietSteps ==
  ASSUME IInv, NEW t \in Threads,
         \/ Refused(t) \/ SendPanics(t) \/ ClosePanics(t) \/ Receive(t)
         \/ Each(t) \/ TakeNil(t) \/ EndBlock(t) \/ BlockRaises(t) \/ Close(t)
         \/ Finish(t)
  PROVE  IInv' /\ UNCHANGED fifo
<1>1. UNCHANGED <<ChannelState, buf, shut, cells, numSent, args, ptr, out>>
  BY DEF Refused, SendPanics, ClosePanics, GoPanic, Receive, Each, TakeNil,
         EndBlock, BlockRaises, Close, Finish
<1>2. \/ pc' = pc
      \/ \E step \in {"idle", "dead", "receive", "range", "mark"} :
           pc' = [pc EXCEPT ![t] = step]
  BY DEF Refused, SendPanics, ClosePanics, GoPanic, Receive, Each, TakeNil,
         EndBlock, BlockRaises, Close, Finish, Raise, Die, Goto
<1>3. /\ pc' \in [Threads -> Steps]
      /\ \A u \in Threads :
           \/ pc'[u] = pc[u]
           \/ pc'[u] \in {"idle", "dead", "receive", "range", "mark"}
  BY <1>2 DEF IInv, Shape, Steps
<1> QED BY <1>1, <1>3, QuietStep

\* A call of <- starts with at least one value to box.
LEMMA SendStep ==
  ASSUME IInv, NEW t \in Threads, Send(t)
  PROVE  IInv' /\ UNCHANGED fifo
<1>1. PICK n \in 1..MaxArgs :
        /\ numSent + n <= MaxValues /\ numSent' = numSent + n
        /\ args' = [args EXCEPT ![t] = [i \in 1..n |-> numSent + i]]
  BY DEF Send
<1>2. /\ pc' = [pc EXCEPT ![t] = "box"]
      /\ UNCHANGED <<ChannelState, buf, shut, cells, ptr, out>>
      /\ n \in Nat /\ n > 0 /\ numSent \in Nat /\ MaxValues \in Nat
  BY ChannelAssumption DEF Send, Goto, IInv, Shape
<1>3. PICK values : values = [i \in 1..n |-> numSent + i]
  OBVIOUS
<1>4. values \in Seq(1..MaxValues) /\ Len(values) = n
  <2>1. values \in [1..n -> 1..MaxValues]
    BY <1>1, <1>2, <1>3
  <2> QED BY <1>2, <2>1, FunctionIsSeq
<1>5. values # <<>>
  BY <1>2, <1>4
<1>6. /\ args' = [args EXCEPT ![t] = values]
      /\ args' \in [Threads -> Seq(1..MaxValues)] /\ args'[t] = values
      /\ \A u \in Threads : u # t => args'[u] = args[u]
  BY <1>1, <1>3, <1>4 DEF IInv, Shape
<1>7. pc' \in [Threads -> Steps] /\ pc'[t] = "box"
      /\ \A u \in Threads : u # t => pc'[u] = pc[u]
  BY <1>2 DEF IInv, Shape, Steps
<1>8. Shape'
  BY <1>1, <1>2, <1>6, <1>7 DEF IInv, Shape
<1>9. Pointers' /\ FieldFirst' /\ UNCHANGED fifo
  BY <1>2 DEF IInv, Pointers, FieldFirst, isClosed, fifo, Contents, Delivered
<1>10. CallsSound'
  BY <1>2, <1>5, <1>6, <1>7 DEF IInv, CallsSound, isClosed
<1> QED BY <1>8, <1>9, <1>10 DEF IInv

\* A new cell changes nothing that older pointers lead to.
LEMMA BoxStep ==
  ASSUME IInv, NEW t \in Threads, Box(t)
  PROVE  IInv' /\ UNCHANGED fifo
<1>1. /\ args[t] # <<>> /\ args[t] \in Seq(1..MaxValues)
      /\ cells \in Seq(1..MaxValues) /\ Len(cells) \in Nat
  BY DEF IInv, Shape, CallsSound, Box
<1>2. /\ Head(args[t]) \in 1..MaxValues /\ Tail(args[t]) \in Seq(1..MaxValues)
  BY <1>1, TailFacts
<1>3. /\ cells' = Append(cells, Head(args[t]))
      /\ ptr' = [ptr EXCEPT ![t] = Len(cells) + 1]
      /\ args' = [args EXCEPT ![t] = Tail(args[t])]
      /\ pc' = [pc EXCEPT ![t] = "send"]
      /\ UNCHANGED <<ChannelState, buf, shut, numSent, out>>
  BY DEF Box, Goto
<1>4. /\ cells' \in Seq(1..MaxValues) /\ Len(cells') = Len(cells) + 1
      /\ \A i \in 1..Len(cells) : cells'[i] = cells[i]
  BY <1>1, <1>2, <1>3, AppendFacts
<1>5. /\ pc' \in [Threads -> Steps] /\ pc'[t] = "send"
      /\ ptr' \in [Threads -> Nat] /\ ptr'[t] = Len(cells) + 1
      /\ args' \in [Threads -> Seq(1..MaxValues)]
      /\ \A u \in Threads : u # t => /\ pc'[u] = pc[u] /\ ptr'[u] = ptr[u]
                                     /\ args'[u] = args[u]
  BY <1>1, <1>2, <1>3 DEF IInv, Shape, Steps
<1>6. Shape'
  BY <1>3, <1>4, <1>5 DEF IInv, Shape
<1>7. Pointers'
  BY <1>1, <1>3, <1>4 DEF IInv, Pointers
<1>8. CallsSound'
  BY <1>1, <1>3, <1>4, <1>5 DEF IInv, CallsSound, isClosed
<1>9. FieldFirst'
  BY <1>3 DEF IInv, FieldFirst, isClosed
<1>10. IInv'
  BY <1>6, <1>7, <1>8, <1>9 DEF IInv
<1>11. Contents(buf)' = Contents(buf)
  BY <1>3, <1>4 DEF Contents, IInv, Pointers
<1>12. Delivered' = Delivered
  BY <1>3, <1>4 DEF Delivered, IInv, Pointers
<1> QED BY <1>3, <1>10, <1>11, <1>12 DEF fifo

\* A sender puts its pointer into the queue: Put of Fifo.
LEMMA PutStep ==
  ASSUME IInv, NEW t \in Threads, Put(t)
  PROVE  IInv' /\ \E v \in 1..MaxValues : Abstract!Put(v)
<1>1. /\ ~shut /\ ptr[t] \in 1..Len(cells) /\ ptr[t] \in Nat
      /\ buf \in Seq(Nat) /\ Len(buf) \in Nat
  BY DEF IInv, Shape, CallsSound, Put
<1>2. /\ buf' = Append(buf, ptr[t]) /\ pc' = [pc EXCEPT ![t] = AfterSend(t)]
      /\ UNCHANGED <<ChannelState, shut, cells, numSent, args, ptr, out>>
  BY DEF Put, Goto
<1>3. /\ buf' \in Seq(Nat) /\ Len(buf') = Len(buf) + 1
      /\ buf'[Len(buf) + 1] = ptr[t]
      /\ \A i \in 1..Len(buf) : buf'[i] = buf[i]
  BY <1>1, <1>2, AppendFacts
<1>4. /\ pc' \in [Threads -> Steps] /\ pc'[t] \in {"idle", "box"}
      /\ pc'[t] = "box" => args[t] # <<>>
      /\ \A u \in Threads : u # t => pc'[u] = pc[u]
  BY <1>2 DEF IInv, Shape, Steps, AfterSend
<1>5. Shape' /\ Pointers' /\ FieldFirst'
  <2>1. Shape' /\ FieldFirst'
    BY <1>2, <1>3, <1>4 DEF IInv, Shape, FieldFirst, isClosed
  <2>2. \A i \in 1..Len(buf') : buf'[i] \in 1..Len(cells)
    <3>1. ASSUME NEW i \in 1..Len(buf) + 1
          PROVE  buf'[i] \in 1..Len(cells)
      <4>1. CASE i \in 1..Len(buf)
        BY <1>3, <4>1 DEF IInv, Pointers
      <4>2. CASE i = Len(buf) + 1
        BY <1>1, <1>3, <4>2
      <4> QED BY <1>1, <4>1, <4>2
    <3> QED BY <1>3, <3>1
  <2> QED BY <1>2, <2>1, <2>2 DEF IInv, Pointers
<1>6. CallsSound'
  BY <1>2, <1>4 DEF IInv, CallsSound, isClosed
<1>7. IInv'
  BY <1>5, <1>6 DEF IInv
<1>8. cells[ptr[t]] \in 1..MaxValues
  BY <1>1, ReadingFacts DEF Reading
<1>9. Contents(buf)' = Append(Contents(buf), cells[ptr[t]])
  <2>1. /\ Append(Contents(buf), cells[ptr[t]]) \in Seq(1..MaxValues)
        /\ Len(Append(Contents(buf), cells[ptr[t]])) = Len(buf) + 1
        /\ Append(Contents(buf), cells[ptr[t]])[Len(buf) + 1] = cells[ptr[t]]
        /\ \A i \in 1..Len(buf) :
             Append(Contents(buf), cells[ptr[t]])[i] = cells[buf[i]]
    BY <1>8, ReadingFacts, AppendFacts DEF Reading
  <2>2. /\ Contents(buf)' \in Seq(1..MaxValues)
        /\ Len(Contents(buf)') = Len(buf) + 1
        /\ \A i \in 1..Len(buf) + 1 : Contents(buf)'[i] = cells[buf'[i]]
    BY <1>2, <1>3, <1>7, ReadingNext DEF Reading
  <2>3. ASSUME NEW i \in 1..Len(buf) + 1
        PROVE  Contents(buf)'[i] = Append(Contents(buf), cells[ptr[t]])[i]
    <3>0. i \in 1..Len(buf) \/ i = Len(buf) + 1
      <4>1. Len(buf) \in Nat
        BY <1>1
      <4> QED BY <4>1
    <3>1. CASE i \in 1..Len(buf)
      BY <1>3, <2>1, <2>2, <3>1
    <3>2. CASE i = Len(buf) + 1
      BY <1>3, <2>1, <2>2, <3>2
    <3> QED BY <3>0, <3>1, <3>2
  <2> QED BY <2>1, <2>2, <2>3, SameSeq
<1>10. Delivered' = Delivered /\ shut' = shut
  BY <1>2 DEF Delivered
<1> QED BY <1>1, <1>7, <1>8, <1>9, <1>10 DEF Abstract!Put

\* What receiving the pointer p changes.
LEMMA ReceivedFacts ==
  ASSUME IInv, NEW t \in Threads, NEW p \in 1..Len(cells), p \in Nat,
         Received(t, p), UNCHANGED cells
  PROVE  /\ out' \in Seq([p : Nat, val : Nat]) /\ Len(out') = Len(out) + 1
         /\ \A i \in 1..Len(out) : out'[i] = out[i]
         /\ out'[Len(out) + 1].p = p
         /\ ptr' \in [Threads -> Nat] /\ ptr'[t] \in 1..Len(out')
         /\ \A u \in Threads : u # t => ptr'[u] = ptr[u]
         /\ \A i \in 1..Len(out') :
              /\ out'[i].p \in 1..Len(cells)
              /\ out'[i].val \in {Unread, cells[out'[i].p]}
<1>1. /\ out \in Seq([p : Nat, val : Nat]) /\ Len(out) \in Nat
      /\ [p |-> p, val |-> Unread] \in [p : Nat, val : Nat]
      /\ out' = Append(out, [p |-> p, val |-> Unread])
      /\ ptr' = [ptr EXCEPT ![t] = Len(out) + 1]
  BY DEF IInv, Shape, Received, Unread
<1>2. /\ out' \in Seq([p : Nat, val : Nat]) /\ Len(out') = Len(out) + 1
      /\ \A i \in 1..Len(out) : out'[i] = out[i]
      /\ out'[Len(out) + 1] = [p |-> p, val |-> Unread]
  BY <1>1, AppendFacts
<1>3. /\ ptr' \in [Threads -> Nat] /\ ptr'[t] \in 1..Len(out')
      /\ \A u \in Threads : u # t => ptr'[u] = ptr[u]
  BY <1>1, <1>2 DEF IInv, Shape
<1>4. ASSUME NEW i \in 1..Len(out')
      PROVE  /\ out'[i].p \in 1..Len(cells)
             /\ out'[i].val \in {Unread, cells[out'[i].p]}
  <2>1. CASE i \in 1..Len(out)
    BY <1>2, <2>1 DEF IInv, Pointers
  <2>2. CASE i = Len(out) + 1
    BY <1>2, <2>2
  <2> QED BY <1>1, <1>2, <2>1, <2>2
<1> QED BY <1>2, <1>3, <1>4

\* The value that the pointer leads to is the next one delivered.
LEMMA DeliveredFacts ==
  ASSUME IInv, IInv', UNCHANGED cells, NEW p \in 1..Len(cells),
         Len(out') = Len(out) + 1, \A i \in 1..Len(out) : out'[i] = out[i],
         out'[Len(out) + 1].p = p
  PROVE  Delivered' = Append(Delivered, cells[p])
<1>1. Reading /\ Reading'
  BY ReadingFacts, ReadingNext
<1>2. /\ Append(Delivered, cells[p]) \in Seq(1..MaxValues)
      /\ Len(Append(Delivered, cells[p])) = Len(out) + 1
      /\ Append(Delivered, cells[p])[Len(out) + 1] = cells[p]
      /\ \A i \in 1..Len(out) :
           Append(Delivered, cells[p])[i] = cells[out[i].p]
  BY <1>1, AppendFacts DEF Reading
<1>3. /\ Delivered' \in Seq(1..MaxValues) /\ Len(Delivered') = Len(out) + 1
      /\ \A i \in 1..Len(out) + 1 : Delivered'[i] = cells[out'[i].p]
  BY <1>1 DEF Reading
<1>4. ASSUME NEW i \in 1..Len(out) + 1
      PROVE  Delivered'[i] = Append(Delivered, cells[p])[i]
  <2>1. CASE i \in 1..Len(out)
    BY <1>2, <1>3, <2>1
  <2>2. CASE i = Len(out) + 1
    BY <1>2, <1>3, <2>2
  <2> QED BY <1>1, <2>1, <2>2 DEF Reading
<1> QED BY <1>2, <1>3, <1>4, SameSeq

\* A receiver takes the oldest pointer out of the queue: Take of Fifo.
LEMMA TakeStep ==
  ASSUME IInv, NEW t \in Threads, Take(t)
  PROVE  IInv' /\ Abstract!Take
<1>1. /\ buf # <<>> /\ buf \in Seq(Nat) /\ Len(buf) \in Nat
      /\ buf' = Tail(buf) /\ Received(t, Head(buf))
      /\ UNCHANGED <<ChannelState, shut, cells, numSent, args>>
      /\ pc' = [pc EXCEPT ![t] = GotPointer(t)]
  BY DEF IInv, Shape, Take, Goto
<1>2. /\ buf' \in Seq(Nat) /\ Len(buf') = Len(buf) - 1 /\ Len(buf) > 0
      /\ Head(buf) = buf[1]
      /\ \A i \in 1..Len(buf) - 1 : buf'[i] = buf[i + 1]
  BY <1>1, TailFacts
<1>3. buf[1] \in 1..Len(cells) /\ buf[1] \in Nat
  BY <1>1, <1>2 DEF IInv, Pointers
<1>4. /\ out' \in Seq([p : Nat, val : Nat]) /\ Len(out') = Len(out) + 1
      /\ \A i \in 1..Len(out) : out'[i] = out[i]
      /\ out'[Len(out) + 1].p = buf[1]
      /\ ptr' \in [Threads -> Nat] /\ ptr'[t] \in 1..Len(out')
      /\ \A u \in Threads : u # t => ptr'[u] = ptr[u]
      /\ \A i \in 1..Len(out') :
           /\ out'[i].p \in 1..Len(cells)
           /\ out'[i].val \in {Unread, cells[out'[i].p]}
  BY <1>1, <1>2, <1>3, ReceivedFacts
<1>5. /\ pc' \in [Threads -> Steps] /\ pc'[t] \in {"deref", "derefEach"}
      /\ \A u \in Threads : u # t => pc'[u] = pc[u]
  BY <1>1 DEF IInv, Shape, Steps, GotPointer
<1>6. Len(out) \in Nat
  BY DEF IInv, Shape
<1>7. Shape' /\ FieldFirst'
  BY <1>1, <1>2, <1>4, <1>5 DEF IInv, Shape, FieldFirst, isClosed
<1>8. Pointers'
  <2>1. \A i \in 1..Len(buf') : buf'[i] \in 1..Len(cells')
    BY <1>1, <1>2 DEF IInv, Pointers
  <2> QED BY <1>1, <1>4, <2>1 DEF Pointers
<1>9. CallsSound'
  <2>1. \A u \in Threads : u # t => /\ pc'[u] = pc[u] /\ ptr'[u] = ptr[u]
                                     /\ args'[u] = args[u]
    BY <1>1, <1>4, <1>5
  <2>2. \A k \in 1..Len(out) : k \in 1..Len(out')
    BY <1>4, <1>6
  <2> QED BY <1>1, <1>4, <1>5, <2>1, <2>2 DEF IInv, CallsSound, isClosed
<1>10. IInv'
  BY <1>7, <1>8, <1>9 DEF IInv
<1>11. /\ Contents(buf) # <<>> /\ Head(Contents(buf)) = cells[buf[1]]
       /\ Len(Tail(Contents(buf))) = Len(buf) - 1
       /\ Tail(Contents(buf)) \in Seq(1..MaxValues)
       /\ \A i \in 1..Len(buf) - 1 : Tail(Contents(buf))[i] = cells[buf[i + 1]]
  <2>1. Contents(buf) # <<>>
    BY <1>2, ReadingFacts DEF Reading
  <2> QED BY <1>2, <2>1, ReadingFacts, TailFacts DEF Reading
<1>12. Contents(buf)' = Tail(Contents(buf))
  <2>1. /\ Contents(buf)' \in Seq(1..MaxValues)
        /\ Len(Contents(buf)') = Len(buf) - 1
        /\ \A i \in 1..Len(buf) - 1 : Contents(buf)'[i] = cells[buf'[i]]
    BY <1>1, <1>2, <1>10, ReadingNext DEF Reading
  <2>2. \A i \in 1..Len(buf) - 1 :
          Contents(buf)'[i] = Tail(Contents(buf))[i]
    BY <1>2, <1>11, <2>1
  <2> QED BY <1>11, <2>1, <2>2, SameSeq
<1>13. Delivered' = Append(Delivered, cells[buf[1]])
  BY <1>1, <1>3, <1>4, <1>10, DeliveredFacts
<1> QED BY <1>1, <1>10, <1>11, <1>12, <1>13 DEF Abstract!Take

\* A sender hands its pointer to a receiver that waits: Pass of Fifo.
LEMMA PassStep ==
  ASSUME IInv, NEW s \in Threads, NEW t \in Threads, Pass(s, t)
  PROVE  IInv' /\ \E v \in 1..MaxValues : Abstract!Pass(v)
<1>1. /\ pc[s] = "send" /\ ~shut /\ buf = <<>> /\ s # t
      /\ ptr[s] \in 1..Len(cells) /\ ptr[s] \in Nat /\ Received(t, ptr[s])
      /\ UNCHANGED <<ChannelState, buf, shut, cells, numSent, args>>
      /\ pc' = [pc EXCEPT ![s] = AfterSend(s), ![t] = GotPointer(t)]
  BY DEF IInv, CallsSound, Shape, Pass, Receiving
<1>2. /\ out' \in Seq([p : Nat, val : Nat]) /\ Len(out') = Len(out) + 1
      /\ \A i \in 1..Len(out) : out'[i] = out[i]
      /\ out'[Len(out) + 1].p = ptr[s]
      /\ ptr' \in [Threads -> Nat] /\ ptr'[t] \in 1..Len(out')
      /\ \A u \in Threads : u # t => ptr'[u] = ptr[u]
      /\ \A i \in 1..Len(out') :
           /\ out'[i].p \in 1..Len(cells)
           /\ out'[i].val \in {Unread, cells[out'[i].p]}
  BY <1>1, ReceivedFacts
<1>3. /\ pc' \in [Threads -> Steps] /\ pc'[t] \in {"deref", "derefEach"}
      /\ pc'[s] \in {"idle", "box"} /\ (pc'[s] = "box" => args[s] # <<>>)
      /\ \A u \in Threads : u # t /\ u # s => pc'[u] = pc[u]
  BY <1>1 DEF IInv, Shape, Steps, GotPointer, AfterSend
<1>4. Len(out) \in Nat
  BY DEF IInv, Shape
<1>5. Shape' /\ FieldFirst'
  BY <1>1, <1>2, <1>3 DEF IInv, Shape, FieldFirst, isClosed
<1>6. Pointers'
  <2>1. \A i \in 1..Len(buf') : buf'[i] \in 1..Len(cells')
    BY <1>1 DEF IInv, Pointers
  <2> QED BY <1>1, <1>2, <2>1 DEF Pointers
<1>7. CallsSound'
  <2>1. \A u \in Threads :
          u # t => ptr'[u] = ptr[u] /\ args'[u] = args[u]
    BY <1>1, <1>2
  <2>2. \A k \in 1..Len(out) : k \in 1..Len(out')
    BY <1>2, <1>4
  <2> QED BY <1>1, <1>2, <1>3, <2>1, <2>2 DEF IInv, CallsSound, isClosed
<1>8. IInv'
  BY <1>5, <1>6, <1>7 DEF IInv
<1>9. Contents(buf)' = Contents(buf) /\ Contents(buf) = <<>> /\ shut' = shut
  <2>1. Contents(buf)' = Contents(buf)
    BY <1>1 DEF Contents
  <2>2. Contents(buf) = <<>>
    BY <1>1, ReadingFacts DEF Reading
  <2> QED BY <1>1, <2>1, <2>2
<1>10. cells[ptr[s]] \in 1..MaxValues
  BY <1>1, ReadingFacts DEF Reading
<1>11. Delivered' = Append(Delivered, cells[ptr[s]])
  BY <1>1, <1>2, <1>8, DeliveredFacts
<1> QED BY <1>1, <1>8, <1>9, <1>10, <1>11 DEF Abstract!Pass

\* Following a pointer late gives the value that was sent.
LEMMA DerefStep ==
  ASSUME IInv, NEW t \in Threads, Deref(t)
  PROVE  IInv' /\ UNCHANGED fifo
<1>1. PICK k \in 1..Len(out) : k = ptr[t]
  BY DEF IInv, CallsSound, Deref
<1>2. /\ out \in Seq([p : Nat, val : Nat]) /\ Len(out) \in Nat
      /\ out[k] \in [p : Nat, val : Nat] /\ out[k].p \in 1..Len(cells)
      /\ cells[out[k].p] \in Nat
  <2>1. out \in Seq([p : Nat, val : Nat]) /\ Len(out) \in Nat
    BY DEF IInv, Shape
  <2>2. out[k].p \in 1..Len(cells)
    BY <1>1 DEF IInv, Pointers
  <2>3. cells[out[k].p] \in 1..MaxValues
    BY <2>2, ReadingFacts DEF Reading
  <2>4. out[k] \in [p : Nat, val : Nat]
    BY <2>1, ElementFacts
  <2>5. cells[out[k].p] \in Nat
    <3>1. ASSUME NEW v \in 1..MaxValues PROVE v \in Nat
      OBVIOUS
    <3> QED BY <2>3, <3>1
  <2> QED BY <2>1, <2>2, <2>4, <2>5
<1>3. PICK r : r = [out[k] EXCEPT !.val = cells[out[k].p]]
  OBVIOUS
<1>4. /\ r \in [p : Nat, val : Nat] /\ r.p = out[k].p /\ r.val = cells[out[k].p]
  BY <1>2, <1>3
<1>5. /\ out' = [out EXCEPT ![k] = r]
      /\ UNCHANGED <<ChannelState, buf, shut, cells, numSent, args, ptr>>
      /\ pc' = [pc EXCEPT ![t] = "idle"]
  BY <1>1, <1>3 DEF Deref, Goto
<1>6. /\ out' \in Seq([p : Nat, val : Nat]) /\ Len(out') = Len(out)
      /\ out'[k] = r /\ \A i \in 1..Len(out) : i # k => out'[i] = out[i]
  BY <1>2, <1>4, <1>5
<1>7. /\ pc' \in [Threads -> Steps] /\ pc'[t] = "idle"
      /\ \A u \in Threads : u # t => pc'[u] = pc[u]
  BY <1>5 DEF IInv, Shape, Steps
<1>8. Shape' /\ FieldFirst'
  BY <1>5, <1>6, <1>7 DEF IInv, Shape, FieldFirst, isClosed
<1>9. \A i \in 1..Len(out) : /\ out'[i].p = out[i].p
                             /\ out'[i].val \in {Unread, cells[out[i].p]}
  BY <1>4, <1>6 DEF IInv, Pointers
<1>10. Pointers'
  BY <1>5, <1>6, <1>9 DEF IInv, Pointers
<1>11. CallsSound'
  BY <1>5, <1>6, <1>7 DEF IInv, CallsSound, isClosed
<1>12. IInv'
  BY <1>8, <1>10, <1>11 DEF IInv
<1>13. Delivered' = Delivered
  BY <1>2, <1>5, <1>6, <1>9 DEF Delivered, IInv, Pointers, Unread
<1>14. Contents(buf)' = Contents(buf) /\ shut' = shut
  BY <1>5 DEF Contents
<1> QED BY <1>12, <1>13, <1>14 DEF fifo

\* The two halves of close: the field first, then Close of Fifo.
LEMMA CloseSteps ==
  ASSUME IInv, NEW t \in Threads, MarkClosed(t) \/ Shut(t)
  PROVE  IInv' /\ (UNCHANGED fifo \/ Abstract!Close)
<1>1. UNCHANGED <<buf, cells, numSent, args, ptr, out>>
  BY DEF MarkClosed, Shut
<1>2. Contents(buf)' = Contents(buf) /\ Delivered' = Delivered
  BY <1>1 DEF Contents, Delivered
<1>3. CASE MarkClosed(t)
  <2>1. /\ ChannelState' = "closed" /\ shut' = shut
        /\ pc' = [pc EXCEPT ![t] = "shut"]
    BY <1>3 DEF MarkClosed, Goto
  <2>2. pc' \in [Threads -> Steps]
    BY <2>1 DEF IInv, Shape, Steps
  <2>3. Shape' /\ Pointers' /\ FieldFirst'
    BY <1>1, <2>1, <2>2 DEF IInv, Shape, Pointers, FieldFirst, isClosed
  <2>4. CallsSound'
    BY <1>1, <2>1 DEF IInv, Shape, CallsSound, isClosed
  <2> QED BY <1>2, <2>1, <2>3, <2>4 DEF IInv, fifo
<1>4. CASE Shut(t)
  <2>1. /\ ChannelState' = ChannelState /\ shut' = TRUE /\ ~shut /\ isClosed
        /\ pc' = [pc EXCEPT ![t] = "idle"]
    BY <1>4 DEF Shut, Goto, IInv, CallsSound
  <2>2. pc' \in [Threads -> Steps]
    BY <2>1 DEF IInv, Shape, Steps
  <2>3. Shape' /\ Pointers' /\ FieldFirst'
    BY <1>1, <2>1, <2>2 DEF IInv, Shape, Pointers, FieldFirst, isClosed
  <2>4. CallsSound'
    BY <1>1, <2>1 DEF IInv, Shape, CallsSound, isClosed
  <2>5. Abstract!Close
    BY <1>2, <2>1 DEF Abstract!Close
  <2> QED BY <2>3, <2>4, <2>5 DEF IInv
<1> QED BY <1>3, <1>4

-----------------------------------------------------------------------------
\* The initial state satisfies the invariant and is one of Fifo.
LEMMA InitInv == Init => IInv /\ Abstract!Init
<1> SUFFICES ASSUME Init PROVE IInv /\ Abstract!Init
  OBVIOUS
<1>1. /\ pc \in [Threads -> Steps] /\ \A t \in Threads : pc[t] = "idle"
  BY DEF Init, Steps
<1>2. args \in [Threads -> Seq(1..MaxValues)] /\ ptr \in [Threads -> Nat]
  BY DEF Init
<1>3. /\ buf = <<>> /\ cells = <<>> /\ out = <<>> /\ numSent = 0
      /\ ChannelState = "open"
  BY DEF Init
<1>4. shut = FALSE
  BY DEF Init
<1>5. shut \in BOOLEAN
  BY Zenon, <1>4
<1>6. Shape
  BY <1>1, <1>2, <1>3, <1>5 DEF Shape
<1>7. Pointers /\ CallsSound /\ FieldFirst
  BY <1>1, <1>3, <1>4 DEF Pointers, CallsSound, FieldFirst
<1>8. IInv
  BY <1>6, <1>7 DEF IInv
<1>9. Contents(buf) = <<>> /\ Delivered = <<>>
  BY <1>3, <1>8, ReadingFacts DEF Reading
<1> QED BY <1>4, <1>8, <1>9 DEF Abstract!Init

\* Every step keeps the invariant and is a step of Fifo or none at all.
LEMMA StepInv ==
  IInv /\ [Next]_vars => IInv' /\ [Abstract!Next]_fifo
<1> SUFFICES ASSUME IInv, [Next]_vars PROVE IInv' /\ [Abstract!Next]_fifo
  OBVIOUS
<1>1. CASE UNCHANGED vars
  <2>1. UNCHANGED <<ChannelState, buf, shut, cells, numSent, args, ptr, out>>
        /\ pc' = pc
    BY <1>1 DEF vars
  <2>2. pc' \in [Threads -> Steps]
    BY <2>1 DEF IInv, Shape
  <2> QED BY <2>1, <2>2, QuietStep
<1>2. CASE Next
  <2>1. PICK t \in Threads : Step(t)
    BY <1>2 DEF Next
  <2>2. CASE \/ Refused(t) \/ SendPanics(t) \/ ClosePanics(t) \/ Receive(t)
             \/ Each(t) \/ TakeNil(t) \/ EndBlock(t) \/ BlockRaises(t)
             \/ Close(t) \/ Finish(t)
    BY <2>2, QuietSteps
  <2>3. CASE Send(t)
    BY <2>3, SendStep
  <2>4. CASE Box(t)
    BY <2>4, BoxStep
  <2>5. CASE Put(t)
    BY <2>5, PutStep DEF Abstract!Next
  <2>6. CASE Take(t)
    BY <2>6, TakeStep DEF Abstract!Next
  <2>7. CASE \E s \in Threads : Pass(s, t)
    BY <2>7, PassStep DEF Abstract!Next
  <2>8. CASE Deref(t)
    BY <2>8, DerefStep
  <2>9. CASE MarkClosed(t) \/ Shut(t)
    BY <2>9, CloseSteps DEF Abstract!Next
  <2> QED
    BY <2>1, <2>2, <2>3, <2>4, <2>5, <2>6, <2>7, <2>8, <2>9 DEF Step, Inside
<1> QED BY <1>1, <1>2

\* A close of the Go channel is never visible before closed? answers true.
THEOREM FieldComesFirst == Spec => []FieldFirst
<1>1. IInv => FieldFirst
  BY DEF IInv
<1> QED BY <1>1, InitInv, StepInv, PTL DEF Spec

\* channel.go implements a queue that can be closed: what threads receive is
\* what threads sent, in the order in which the channel took it and once each,
\* for any threads that send, receive, iterate and close in any order.
THEOREM ChannelImplementsFifo == Spec => Delivers
<1>1. Init => IInv /\ Abstract!Init
  BY InitInv
<1>2. IInv /\ [Next]_vars => IInv' /\ [Abstract!Next]_(Abstract!vars)
  BY StepInv DEF fifo, Abstract!vars
<1> QED BY <1>1, <1>2, PTL DEF Spec, Delivers, Abstract!Spec

-----------------------------------------------------------------------------
(* No value that was sent is delivered twice: this follows where each value  *)
(* and each pointer is.                                                     *)

\* Every value that a call of <- was given is in one place: not boxed yet in
\* one thread, or in one cell.
ValuesApart ==
  /\ \A k \in 1..Len(cells) : cells[k] <= numSent
  /\ \A k, l \in 1..Len(cells) : cells[k] = cells[l] => k = l
  /\ \A t \in Threads : \A i \in 1..Len(args[t]) :
       /\ args[t][i] <= numSent
       /\ \A k \in 1..Len(cells) : cells[k] # args[t][i]
       /\ \A u \in Threads : \A j \in 1..Len(args[u]) :
            args[u][j] = args[t][i] => u = t /\ j = i

\* Every pointer is in one place: with its sender, in the queue, or received.
PointersApart ==
  /\ \A i, j \in 1..Len(buf) : buf[i] = buf[j] => i = j
  /\ \A i, j \in 1..Len(out) : out[i].p = out[j].p => i = j
  /\ \A i \in 1..Len(buf) : \A j \in 1..Len(out) : buf[i] # out[j].p
  /\ \A t \in Threads : pc[t] = "send" =>
       /\ \A i \in 1..Len(buf) : buf[i] # ptr[t]
       /\ \A j \in 1..Len(out) : out[j].p # ptr[t]
       /\ \A u \in Threads : pc[u] = "send" /\ ptr[u] = ptr[t] => u = t

Once == IInv /\ ValuesApart /\ PointersApart

-----------------------------------------------------------------------------
(* Values.                                                                   *)

\* Steps other than of Send and Box leave the values where they are.
LEMMA ValuesStay ==
  ASSUME ValuesApart, UNCHANGED <<cells, args, numSent>>
  PROVE  ValuesApart'
BY DEF ValuesApart

\* A call of <- is given new values.
LEMMA SendApart ==
  ASSUME Once, NEW t \in Threads, Send(t)
  PROVE  ValuesApart'
<1>1. PICK n \in 1..MaxArgs :
        /\ numSent' = numSent + n
        /\ args' = [args EXCEPT ![t] = [i \in 1..n |-> numSent + i]]
  BY DEF Send
<1>2. /\ cells' = cells /\ n \in Nat /\ numSent \in Nat
      /\ args \in [Threads -> Seq(1..MaxValues)]
      /\ cells \in Seq(1..MaxValues)
  BY ChannelAssumption DEF Send, Once, IInv, Shape
<1>3. PICK values : values = [i \in 1..n |-> numSent + i]
  OBVIOUS
<1>4. values \in Seq(Nat) /\ Len(values) = n
  <2>1. values \in [1..n -> Nat]
    BY <1>2, <1>3
  <2> QED BY <1>2, <2>1, FunctionIsSeq
<1>5. /\ args'[t] = values
      /\ \A u \in Threads : u # t => args'[u] = args[u]
  BY <1>1, <1>2, <1>3
<1>6. ASSUME NEW k \in 1..Len(cells)
      PROVE  cells[k] \in Nat /\ cells[k] <= numSent
  <2>1. cells[k] \in 1..MaxValues
    BY <1>2, ElementFacts
  <2> QED BY <2>1 DEF Once, ValuesApart
<1>7. \A u \in Threads : \A i \in 1..Len(args[u]) :
        args[u][i] \in Nat /\ args[u][i] <= numSent
  <2>1. ASSUME NEW u \in Threads, NEW i \in 1..Len(args[u])
        PROVE  args[u][i] \in Nat /\ args[u][i] <= numSent
    <3>1. args[u] \in Seq(1..MaxValues)
      BY <1>2
    <3>2. args[u][i] \in 1..MaxValues
      BY <3>1, ElementFacts
    <3> QED BY <3>2 DEF Once, ValuesApart
  <2> QED BY <2>1
<1>8. \A i \in 1..n : values[i] = numSent + i /\ i \in Nat /\ i > 0
  BY <1>2, <1>3
<1>9. \A k \in 1..Len(cells') : cells'[k] <= numSent'
  BY <1>1, <1>2, <1>6
<1>10. ASSUME NEW u \in Threads, NEW i \in 1..Len(args'[u])
       PROVE  /\ args'[u][i] <= numSent'
              /\ \A k \in 1..Len(cells') : cells'[k] # args'[u][i]
              /\ \A w \in Threads : \A j \in 1..Len(args'[w]) :
                   args'[w][j] = args'[u][i] => w = u /\ j = i
  <2>1. CASE u = t
    <3>1. i \in 1..n /\ args'[u][i] = numSent + i
      BY <1>4, <1>5, <1>8, <2>1
    <3>2. args'[u][i] <= numSent' /\ args'[u][i] > numSent
      BY <1>1, <1>2, <1>8, <3>1
    <3>3. \A k \in 1..Len(cells') : cells'[k] # args'[u][i]
      BY <1>2, <1>6, <1>8, <3>1
    <3>4. ASSUME NEW w \in Threads, NEW j \in 1..Len(args'[w]),
                 args'[w][j] = args'[u][i]
          PROVE  w = u /\ j = i
      <4>1. CASE w = t
        <5>1. j \in 1..n /\ args'[w][j] = numSent + j
          BY <1>4, <1>5, <1>8, <4>1
        <5>2. numSent + j = numSent + i
          BY <3>1, <3>4, <5>1
        <5>3. numSent \in Int /\ j \in Int /\ i \in Int
          BY <1>2
        <5>4. j = i
          BY <5>2, <5>3
        <5> QED BY <2>1, <4>1, <5>4
      <4>2. CASE w # t
        BY <1>2, <1>5, <1>7, <1>8, <3>1, <3>4, <4>2
      <4> QED BY <4>1, <4>2
    <3> QED BY <3>2, <3>3, <3>4
  <2>2. CASE u # t
    <3>1. args'[u] = args[u] /\ i \in 1..Len(args[u])
      BY <1>5, <2>2
    <3>2. args'[u][i] <= numSent'
      BY <1>1, <1>2, <1>7, <3>1
    <3>3. \A k \in 1..Len(cells') : cells'[k] # args'[u][i]
      BY <1>2, <3>1 DEF Once, ValuesApart
    <3>4. ASSUME NEW w \in Threads, NEW j \in 1..Len(args'[w]),
                 args'[w][j] = args'[u][i]
          PROVE  w = u /\ j = i
      <4>1. CASE w = t
        BY <1>2, <1>4, <1>5, <1>7, <1>8, <3>1, <3>4, <4>1
      <4>2. CASE w # t
        BY <1>5, <3>1, <3>4, <4>2 DEF Once, ValuesApart
      <4> QED BY <4>1, <4>2
    <3> QED BY <3>2, <3>3, <3>4
  <2> QED BY <2>1, <2>2
<1>11. \A k, l \in 1..Len(cells') : cells'[k] = cells'[l] => k = l
  BY <1>2 DEF Once, ValuesApart
<1> QED BY <1>9, <1>10, <1>11 DEF ValuesApart

\* Boxing moves a value from its thread into a cell of its own.
LEMMA BoxApart ==
  ASSUME Once, NEW t \in Threads, Box(t)
  PROVE  ValuesApart'
<1>1. /\ args[t] # <<>> /\ args[t] \in Seq(1..MaxValues)
      /\ args \in [Threads -> Seq(1..MaxValues)]
      /\ cells \in Seq(1..MaxValues) /\ Len(cells) \in Nat
  BY DEF Once, IInv, Shape, CallsSound, Box
<1>2. /\ cells' = Append(cells, Head(args[t])) /\ numSent' = numSent
      /\ args' = [args EXCEPT ![t] = Tail(args[t])]
  BY DEF Box
<1>3. /\ Head(args[t]) = args[t][1] /\ Head(args[t]) \in 1..MaxValues
      /\ Len(args[t]) \in Nat \ {0} /\ Len(Tail(args[t])) = Len(args[t]) - 1
      /\ \A i \in 1..Len(args[t]) - 1 : Tail(args[t])[i] = args[t][i + 1]
  BY <1>1, TailFacts
<1>4. /\ Len(cells') = Len(cells) + 1 /\ cells'[Len(cells) + 1] = args[t][1]
      /\ \A k \in 1..Len(cells) : cells'[k] = cells[k]
  BY <1>1, <1>2, <1>3, AppendFacts
<1>5. 1 \in 1..Len(args[t])
  BY <1>3
<1>6. /\ args'[t] = Tail(args[t])
      /\ \A u \in Threads : u # t => args'[u] = args[u]
  BY <1>1, <1>2
\* The old place of a value that is still to be boxed.
<1>7. ASSUME NEW u \in Threads, NEW i \in 1..Len(args'[u])
      PROVE  \E o \in 1..Len(args[u]) :
               /\ args'[u][i] = args[u][o]
               /\ o = IF u = t THEN i + 1 ELSE i
               /\ u = t => o # 1
  <2>1. CASE u = t
    <3>1. i \in 1..Len(args[t]) - 1 /\ i + 1 \in 1..Len(args[t]) /\ i + 1 # 1
      <4>1. i \in 1..Len(Tail(args[t]))
        BY <1>6, <2>1
      <4>2. PICK n \in Nat \ {0} : n = Len(args[t])
        BY <1>3
      <4>3. i \in 1..n - 1
        BY <1>3, <4>1, <4>2
      <4> QED BY <4>2, <4>3
    <3> QED BY <1>3, <1>6, <2>1, <3>1
  <2>2. CASE u # t
    BY <1>6, <2>2
  <2> QED BY <2>1, <2>2
<1>8. ASSUME NEW u \in Threads, NEW i \in 1..Len(args'[u])
      PROVE  /\ args'[u][i] <= numSent'
             /\ \A k \in 1..Len(cells') : cells'[k] # args'[u][i]
             /\ \A w \in Threads : \A j \in 1..Len(args'[w]) :
                  args'[w][j] = args'[u][i] => w = u /\ j = i
  <2>1. PICK o \in 1..Len(args[u]) :
          /\ args'[u][i] = args[u][o] /\ o = IF u = t THEN i + 1 ELSE i
          /\ u = t => o # 1
    BY <1>7
  <2>2. args'[u][i] <= numSent'
    BY <1>2, <2>1 DEF Once, ValuesApart
  <2>3. ASSUME NEW k \in 1..Len(cells')
        PROVE  cells'[k] # args'[u][i]
    <3>1. CASE k \in 1..Len(cells)
      BY <1>4, <2>1, <3>1 DEF Once, ValuesApart
    <3>2. CASE k = Len(cells) + 1
      <4>1. args[t][1] = args[u][o] => t = u /\ 1 = o
        BY <1>5 DEF Once, ValuesApart
      <4> QED BY <1>4, <2>1, <3>2, <4>1
    <3> QED BY <1>1, <1>4, <3>1, <3>2
  <2>4. ASSUME NEW w \in Threads, NEW j \in 1..Len(args'[w]),
               args'[w][j] = args'[u][i]
        PROVE  w = u /\ j = i
    <3>1. PICK r \in 1..Len(args[w]) :
            args'[w][j] = args[w][r] /\ r = IF w = t THEN j + 1 ELSE j
      BY <1>7
    <3>2. w = u /\ r = o
      BY <2>1, <2>4, <3>1 DEF Once, ValuesApart
    <3> QED BY <2>1, <3>1, <3>2
  <2> QED BY <2>2, <2>3, <2>4
<1>9. ASSUME NEW k \in 1..Len(cells'), NEW l \in 1..Len(cells')
      PROVE  cells'[k] <= numSent' /\ (cells'[k] = cells'[l] => k = l)
  <2>1. /\ k \in 1..Len(cells) \/ k = Len(cells) + 1
        /\ l \in 1..Len(cells) \/ l = Len(cells) + 1
    BY <1>1, <1>4
  <2>2. /\ args[t][1] <= numSent
        /\ \A m \in 1..Len(cells) : cells[m] # args[t][1]
    BY <1>5 DEF Once, ValuesApart
  <2>3. cells'[k] <= numSent'
    BY <1>2, <1>4, <2>1, <2>2 DEF Once, ValuesApart
  <2>4. cells'[k] = cells'[l] => k = l
    BY <1>4, <2>1, <2>2 DEF Once, ValuesApart
  <2> QED BY <2>3, <2>4
<1> QED BY <1>8, <1>9 DEF ValuesApart

-----------------------------------------------------------------------------
(* Pointers.                                                                 *)

\* Steps that move no pointer.
LEMMA PointersStay ==
  ASSUME PointersApart, UNCHANGED <<buf, ptr>>, Len(out') = Len(out),
         \A i \in 1..Len(out) : out'[i].p = out[i].p,
         \A u \in Threads : pc'[u] = "send" => pc[u] = "send"
  PROVE  PointersApart'
BY DEF PointersApart

\* Every step of a thread but Box, Put, Take and Pass is such a step.
LEMMA OthersApart ==
  ASSUME Once, NEW t \in Threads,
         \/ Refused(t) \/ SendPanics(t) \/ ClosePanics(t) \/ Receive(t)
         \/ Each(t) \/ TakeNil(t) \/ EndBlock(t) \/ BlockRaises(t) \/ Close(t)
         \/ Finish(t) \/ Send(t) \/ MarkClosed(t) \/ Shut(t)
  PROVE  PointersApart'
<1>1. UNCHANGED <<buf, ptr, out>>
  BY DEF Refused, SendPanics, ClosePanics, GoPanic, Receive, Each, TakeNil,
         EndBlock, BlockRaises, Close, Finish, Send, MarkClosed, Shut
<1>2. \/ pc' = pc
      \/ \E step \in Steps : step # "send" /\ pc' = [pc EXCEPT ![t] = step]
  BY DEF Refused, SendPanics, ClosePanics, GoPanic, Receive, Each, TakeNil,
         EndBlock, BlockRaises, Close, Finish, Send, MarkClosed, Shut, Raise,
         Die, Goto, Steps
<1>3. \A u \in Threads : pc'[u] = "send" => pc[u] = "send"
  BY <1>2 DEF Once, IInv, Shape
<1> QED BY <1>1, <1>3, PointersStay DEF Once

\* Following a pointer leaves it where it is.
LEMMA DerefApart ==
  ASSUME Once, NEW t \in Threads, Deref(t)
  PROVE  PointersApart'
<1>1. PICK k \in 1..Len(out) : k = ptr[t]
  BY DEF Once, IInv, CallsSound, Deref
<1>2. PICK r : r = [out[k] EXCEPT !.val = cells[out[k].p]]
  OBVIOUS
<1>3. /\ out' = [out EXCEPT ![k] = r] /\ UNCHANGED <<buf, ptr>>
      /\ pc' = [pc EXCEPT ![t] = "idle"]
  BY <1>1, <1>2 DEF Deref, Goto
<1>4. out \in Seq([p : Nat, val : Nat]) /\ Len(out) \in Nat
  BY DEF Once, IInv, Shape
<1>5. out[k] \in [p : Nat, val : Nat]
  BY <1>4, ElementFacts
<1>6. r.p = out[k].p
  BY <1>2, <1>5
<1>7. Len(out') = Len(out) /\ \A i \in 1..Len(out) : out'[i].p = out[i].p
  BY <1>3, <1>4, <1>6
<1>8. \A u \in Threads : pc'[u] = "send" => pc[u] = "send"
  BY <1>3 DEF Once, IInv, Shape
<1> QED BY <1>3, <1>7, <1>8, PointersStay DEF Once

\* A value is boxed at a new pointer: "a new variable to make the pointer
\* work" in channel.go.
LEMMA NewPointer ==
  ASSUME Once, NEW t \in Threads, Box(t)
  PROVE  PointersApart'
<1>1. /\ Len(cells) \in Nat /\ UNCHANGED <<buf, out>>
      /\ ptr' = [ptr EXCEPT ![t] = Len(cells) + 1]
      /\ pc' = [pc EXCEPT ![t] = "send"]
  BY DEF Once, IInv, Shape, Box, Goto
<1>2. /\ ptr'[t] = Len(cells) + 1
      /\ \A u \in Threads : u # t => ptr'[u] = ptr[u] /\ pc'[u] = pc[u]
  BY <1>1 DEF Once, IInv, Shape
<1>3. /\ \A i \in 1..Len(buf) : buf[i] # Len(cells) + 1
      /\ \A i \in 1..Len(out) : out[i].p # Len(cells) + 1
      /\ \A u \in Threads : pc[u] = "send" => ptr[u] # Len(cells) + 1
  BY <1>1 DEF Once, IInv, Pointers, CallsSound
<1> QED BY <1>1, <1>2, <1>3 DEF Once, PointersApart

\* A pointer moves from its sender to the end of the queue.
LEMMA PutApart ==
  ASSUME Once, NEW t \in Threads, Put(t)
  PROVE  PointersApart'
<1>1. /\ pc[t] = "send" /\ ptr[t] \in Nat
      /\ buf \in Seq(Nat) /\ Len(buf) \in Nat
      /\ buf' = Append(buf, ptr[t]) /\ pc' = [pc EXCEPT ![t] = AfterSend(t)]
      /\ UNCHANGED <<ptr, out>>
  BY DEF Once, IInv, Shape, Put, Goto
<1>2. /\ Len(buf') = Len(buf) + 1 /\ buf'[Len(buf) + 1] = ptr[t]
      /\ \A i \in 1..Len(buf) : buf'[i] = buf[i]
  BY <1>1, AppendFacts
<1>3. \A i \in 1..Len(buf') : i \in 1..Len(buf) \/ i = Len(buf) + 1
  BY <1>1, <1>2
<1>4. /\ pc'[t] # "send"
      /\ \A u \in Threads : u # t => pc'[u] = pc[u]
  BY <1>1 DEF Once, IInv, Shape, AfterSend
<1>5. \A i, j \in 1..Len(buf') : buf'[i] = buf'[j] => i = j
  BY <1>1, <1>2, <1>3 DEF Once, PointersApart
<1>6. \A i \in 1..Len(buf') : \A j \in 1..Len(out) : buf'[i] # out[j].p
  BY <1>1, <1>2, <1>3 DEF Once, PointersApart
<1>7. ASSUME NEW u \in Threads, pc'[u] = "send"
      PROVE  \A i \in 1..Len(buf') : buf'[i] # ptr[u]
  <2>1. u # t /\ pc[u] = "send"
    BY <1>4, <1>7
  <2>2. ptr[u] # ptr[t] /\ \A i \in 1..Len(buf) : buf[i] # ptr[u]
    BY <1>1, <2>1 DEF Once, PointersApart
  <2> QED BY <1>2, <1>3, <2>2
<1> QED BY <1>1, <1>4, <1>5, <1>6, <1>7 DEF Once, PointersApart

\* What a thread that receives the pointer p adds to the received ones.
LEMMA ReceivedApart ==
  ASSUME Once, NEW t \in Threads, NEW p \in 1..Len(cells), p \in Nat,
         Received(t, p), UNCHANGED cells,
         \A i \in 1..Len(out) : out[i].p # p
  PROVE  /\ \A i, j \in 1..Len(out') : out'[i].p = out'[j].p => i = j
         /\ \A i \in 1..Len(out') : out'[i].p = p \/ \E j \in 1..Len(out) :
                                                   out'[i].p = out[j].p
         /\ \A u \in Threads : u # t => ptr'[u] = ptr[u]
<1>1. /\ Len(out') = Len(out) + 1 /\ Len(out) \in Nat
      /\ \A i \in 1..Len(out) : out'[i] = out[i]
      /\ out'[Len(out) + 1].p = p
      /\ \A u \in Threads : u # t => ptr'[u] = ptr[u]
  <2>1. out \in Seq([p : Nat, val : Nat])
    BY DEF Once, IInv, Shape
  <2> QED BY <2>1, ElementFacts, ReceivedFacts DEF Once
<1>2. \A i \in 1..Len(out') : i \in 1..Len(out) \/ i = Len(out) + 1
  BY <1>1
<1> QED BY <1>1, <1>2 DEF Once, PointersApart

\* A pointer moves from the front of the queue to the received ones.
LEMMA TakeApart ==
  ASSUME Once, NEW t \in Threads, Take(t)
  PROVE  PointersApart'
<1>1. /\ buf # <<>> /\ buf \in Seq(Nat) /\ buf' = Tail(buf)
      /\ Received(t, Head(buf)) /\ UNCHANGED cells
      /\ pc' = [pc EXCEPT ![t] = GotPointer(t)]
  BY DEF Once, IInv, Shape, Take, Goto
<1>2. /\ Len(buf') = Len(buf) - 1 /\ Len(buf) \in Nat \ {0}
      /\ Head(buf) = buf[1] /\ Head(buf) \in Nat
      /\ \A i \in 1..Len(buf) - 1 : buf'[i] = buf[i + 1]
  BY <1>1, TailFacts
<1>3. ASSUME NEW i \in 1..Len(buf')
      PROVE  i + 1 \in 1..Len(buf) /\ i + 1 # 1 /\ buf'[i] = buf[i + 1]
  <2>1. PICK n \in Nat \ {0} : n = Len(buf)
    BY <1>2
  <2>2. i \in 1..n - 1
    BY <1>2, <2>1
  <2>3. i + 1 \in 1..n /\ i + 1 # 1
    BY <2>1, <2>2
  <2> QED BY <1>2, <2>1, <2>2, <2>3
<1>4. 1 \in 1..Len(buf)
  BY <1>2
<1>5. buf[1] \in 1..Len(cells) /\ \A i \in 1..Len(out) : out[i].p # buf[1]
  BY <1>4 DEF Once, IInv, Pointers, PointersApart
<1>6. /\ \A i, j \in 1..Len(out') : out'[i].p = out'[j].p => i = j
      /\ \A i \in 1..Len(out') :
           out'[i].p = buf[1] \/ \E j \in 1..Len(out) : out'[i].p = out[j].p
      /\ \A u \in Threads : u # t => ptr'[u] = ptr[u]
  <2>1. Received(t, buf[1]) /\ buf[1] \in Nat /\ cells' = cells
    BY <1>1, <1>2
  <2> QED BY <1>5, <2>1, ReceivedApart
<1>7. /\ pc'[t] # "send"
      /\ \A u \in Threads : u # t => pc'[u] = pc[u]
  BY <1>1 DEF Once, IInv, Shape, GotPointer
<1>8. \A i, j \in 1..Len(buf') : buf'[i] = buf'[j] => i = j
  <2>1. ASSUME NEW i \in 1..Len(buf'), NEW j \in 1..Len(buf'),
               buf'[i] = buf'[j]
        PROVE  i = j
    <3>1. i + 1 = j + 1
      BY <1>3, <2>1 DEF Once, PointersApart
    <3> QED BY <1>2, <3>1
  <2> QED BY <2>1
<1>9. ASSUME NEW i \in 1..Len(buf'), NEW j \in 1..Len(out')
      PROVE  buf'[i] # out'[j].p
  <2>1. PICK k \in 1..Len(buf) : k # 1 /\ buf'[i] = buf[k]
    BY <1>3
  <2>2. CASE out'[j].p = buf[1]
    <3>1. buf[k] # buf[1]
      BY <1>4, <2>1 DEF Once, PointersApart
    <3> QED BY <2>1, <2>2, <3>1
  <2>3. CASE \E l \in 1..Len(out) : out'[j].p = out[l].p
    <3>1. \A l \in 1..Len(out) : buf[k] # out[l].p
      BY DEF Once, PointersApart
    <3> QED BY <2>1, <2>3, <3>1
  <2> QED BY <1>6, <2>2, <2>3
<1>10. ASSUME NEW u \in Threads, pc'[u] = "send"
       PROVE  /\ \A i \in 1..Len(buf') : buf'[i] # ptr'[u]
              /\ \A j \in 1..Len(out') : out'[j].p # ptr'[u]
              /\ \A w \in Threads :
                   pc'[w] = "send" /\ ptr'[w] = ptr'[u] => w = u
  <2>1. u # t /\ pc[u] = "send" /\ ptr'[u] = ptr[u]
    BY <1>6, <1>7, <1>10
  <2>2. /\ \A i \in 1..Len(buf) : buf[i] # ptr[u]
        /\ \A j \in 1..Len(out) : out[j].p # ptr[u]
    BY <2>1 DEF Once, PointersApart
  <2>3. \A i \in 1..Len(buf') : buf'[i] # ptr'[u]
    BY <1>3, <2>1, <2>2
  <2>4. \A j \in 1..Len(out') : out'[j].p # ptr'[u]
    BY <1>4, <1>6, <2>1, <2>2
  <2>5. \A w \in Threads : pc'[w] = "send" /\ ptr'[w] = ptr'[u] => w = u
    BY <1>6, <1>7, <2>1 DEF Once, PointersApart
  <2> QED BY <2>3, <2>4, <2>5
<1> QED BY <1>6, <1>8, <1>9, <1>10 DEF PointersApart

\* A pointer moves from its sender to the received ones.
LEMMA PassApart ==
  ASSUME Once, NEW s \in Threads, NEW t \in Threads, Pass(s, t)
  PROVE  PointersApart'
<1>1. /\ pc[s] = "send" /\ s # t /\ ptr[s] \in 1..Len(cells) /\ ptr[s] \in Nat
      /\ Received(t, ptr[s]) /\ buf = <<>> /\ UNCHANGED <<buf, cells>>
      /\ pc' = [pc EXCEPT ![s] = AfterSend(s), ![t] = GotPointer(t)]
  BY DEF Once, IInv, CallsSound, Shape, Pass, Receiving
<1>2. /\ \A i, j \in 1..Len(out') : out'[i].p = out'[j].p => i = j
      /\ \A i \in 1..Len(out') :
           out'[i].p = ptr[s] \/ \E j \in 1..Len(out) : out'[i].p = out[j].p
      /\ \A u \in Threads : u # t => ptr'[u] = ptr[u]
  <2>1. \A i \in 1..Len(out) : out[i].p # ptr[s]
    BY <1>1 DEF Once, PointersApart
  <2> QED BY <1>1, <2>1, ReceivedApart
<1>3. /\ pc'[t] # "send" /\ pc'[s] # "send"
      /\ \A u \in Threads : u # s /\ u # t => pc'[u] = pc[u]
  BY <1>1 DEF Once, IInv, Shape, GotPointer, AfterSend
<1>4. ASSUME NEW u \in Threads, pc'[u] = "send"
      PROVE  /\ \A j \in 1..Len(out') : out'[j].p # ptr'[u]
             /\ \A w \in Threads :
                  pc'[w] = "send" /\ ptr'[w] = ptr'[u] => w = u
  <2>1. u # s /\ u # t /\ pc[u] = "send" /\ ptr'[u] = ptr[u]
    BY <1>2, <1>3, <1>4
  <2>2. ptr[u] # ptr[s] /\ \A j \in 1..Len(out) : out[j].p # ptr[u]
    BY <1>1, <2>1 DEF Once, PointersApart
  <2> QED BY <1>2, <1>3, <2>1, <2>2 DEF Once, PointersApart
<1>5. \A i \in 1..Len(buf') : FALSE
  BY <1>1
<1> QED BY <1>2, <1>4, <1>5 DEF PointersApart

-----------------------------------------------------------------------------
\* Initially no value was sent.
LEMMA OnceInit == Init => Once
<1> SUFFICES ASSUME Init PROVE Once
  OBVIOUS
<1>1. /\ Len(buf) = 0 /\ Len(out) = 0 /\ Len(cells) = 0
      /\ \A t \in Threads : Len(args[t]) = 0 /\ pc[t] = "idle"
  BY DEF Init
<1>2. ValuesApart /\ PointersApart
  BY <1>1 DEF ValuesApart, PointersApart
<1> QED BY <1>2, InitInv DEF Once

\* Every step keeps each value and each pointer in one place.
LEMMA OnceStep == Once /\ [Next]_vars => Once'
<1> SUFFICES ASSUME Once, [Next]_vars PROVE ValuesApart' /\ PointersApart'
  BY StepInv DEF Once
<1>1. CASE UNCHANGED vars
  BY <1>1, ValuesStay, PointersStay DEF vars, Once
<1>2. CASE Next
  <2>1. PICK t \in Threads : Step(t)
    BY <1>2 DEF Next
  <2>2. CASE \/ Refused(t) \/ SendPanics(t) \/ ClosePanics(t) \/ Receive(t)
             \/ Each(t) \/ TakeNil(t) \/ EndBlock(t) \/ BlockRaises(t)
             \/ Close(t) \/ Finish(t) \/ MarkClosed(t) \/ Shut(t)
    <3>1. UNCHANGED <<cells, args, numSent>>
      BY <2>2 DEF Refused, SendPanics, ClosePanics, GoPanic, Receive, Each,
           TakeNil, EndBlock, BlockRaises, Close, Finish, MarkClosed, Shut
    <3> QED BY <2>2, <3>1, ValuesStay, OthersApart DEF Once
  <2>3. CASE Send(t)
    BY <2>3, SendApart, OthersApart
  <2>4. CASE Box(t)
    BY <2>4, BoxApart, NewPointer
  <2>5. CASE Put(t)
    BY <2>5, ValuesStay, PutApart DEF Put, Once
  <2>6. CASE Take(t)
    BY <2>6, ValuesStay, TakeApart DEF Take, Once
  <2>7. CASE \E s \in Threads : Pass(s, t)
    BY <2>7, ValuesStay, PassApart DEF Pass, Once
  <2>8. CASE Deref(t)
    BY <2>8, ValuesStay, DerefApart DEF Deref, Once
  <2> QED
    BY <2>1, <2>2, <2>3, <2>4, <2>5, <2>6, <2>7, <2>8 DEF Step, Inside
<1> QED BY <1>1, <1>2

\* Length and elements of two sequences put together.
LEMMA ConcatFacts ==
  ASSUME NEW S, NEW s \in Seq(S), NEW u \in Seq(S),
         NEW n, NEW m, Len(s) = n, Len(u) = m
  PROVE  /\ Len(s \o u) = n + m /\ n \in Nat /\ m \in Nat
         /\ \A i \in 1..n : (s \o u)[i] = s[i]
         /\ \A i \in n+1..n+m : (s \o u)[i] = u[i - n]
OBVIOUS

\* Where the pointer is that leads to the i-th value delivered or queued.
Place(i) == IF i <= Len(out) THEN out[i].p ELSE buf[i - Len(out)]

\* Different pointers lead to different values.
LEMMA OnceMeans == Once => OnlyOnce
<1> SUFFICES ASSUME Once PROVE OnlyOnce
  OBVIOUS
<1> DEFINE all == Delivered \o Contents(buf)
<1>1. Reading
  BY ReadingFacts DEF Once
<1>2. /\ Len(all) = Len(out) + Len(buf) /\ Len(out) \in Nat /\ Len(buf) \in Nat
      /\ \A i \in 1..Len(out) : all[i] = cells[out[i].p]
      /\ \A i \in Len(out)+1..Len(out)+Len(buf) :
           all[i] = Contents(buf)[i - Len(out)]
  <2>1. /\ Delivered \in Seq(1..MaxValues) /\ Contents(buf) \in Seq(1..MaxValues)
        /\ Len(Delivered) = Len(out) /\ Len(Contents(buf)) = Len(buf)
        /\ Len(out) \in Nat /\ Len(buf) \in Nat
        /\ \A i \in 1..Len(out) : Delivered[i] = cells[out[i].p]
    BY <1>1 DEF Reading
  <2>2. /\ Len(all) = Len(out) + Len(buf) /\ Len(out) \in Nat /\ Len(buf) \in Nat
        /\ \A i \in 1..Len(out) : all[i] = Delivered[i]
        /\ \A i \in Len(out)+1..Len(out)+Len(buf) :
             all[i] = Contents(buf)[i - Len(out)]
    <3>1. PICK d \in Seq(1..MaxValues), c \in Seq(1..MaxValues),
               n \in Nat, m \in Nat :
            /\ d = Delivered /\ c = Contents(buf)
            /\ n = Len(out) /\ m = Len(buf) /\ Len(d) = n /\ Len(c) = m
      BY Zenon, <2>1
    <3>2. /\ Len(d \o c) = n + m /\ n \in Nat /\ m \in Nat
          /\ \A i \in 1..n : (d \o c)[i] = d[i]
          /\ \A i \in n+1..n+m : (d \o c)[i] = c[i - n]
      BY <3>1, ConcatFacts
    <3> QED BY Zenon, <3>1, <3>2
  <2>3. ASSUME NEW i \in 1..Len(out) PROVE all[i] = cells[out[i].p]
    <3>1. all[i] = Delivered[i] /\ Delivered[i] = cells[out[i].p]
      BY <2>1, <2>2
    <3> QED BY Zenon, <3>1
  <2> QED BY Zenon, <2>2, <2>3
<1> HIDE DEF all
<1>3. ASSUME NEW i \in 1..Len(all)
      PROVE  /\ all[i] = cells[Place(i)] /\ Place(i) \in 1..Len(cells)
             /\ i <= Len(out) => i \in 1..Len(out) /\ Place(i) = out[i].p
             /\ ~(i <= Len(out)) => /\ i - Len(out) \in 1..Len(buf)
                                    /\ Place(i) = buf[i - Len(out)]
  <2>1. CASE i <= Len(out)
    <3>1. i \in 1..Len(out)
      BY <1>2, <2>1
    <3> QED BY <1>2, <2>1, <3>1 DEF Place, Once, IInv, Pointers
  <2>2. CASE ~(i <= Len(out))
    <3>1. /\ i - Len(out) \in 1..Len(buf)
          /\ i \in Len(out)+1..Len(out)+Len(buf)
      BY <1>2, <2>2
    <3>2. all[i] = cells[buf[i - Len(out)]]
      BY <1>1, <1>2, <3>1 DEF Reading
    <3> QED BY <2>2, <3>1, <3>2 DEF Place, Once, IInv, Pointers
  <2> QED BY <2>1, <2>2
<1>4. ASSUME NEW i \in 1..Len(all), NEW j \in 1..Len(all), all[i] = all[j]
      PROVE  i = j
  <2>1. Place(i) = Place(j)
    <3>1. cells[Place(i)] = cells[Place(j)]
      BY <1>3, <1>4
    <3> QED BY <1>3, <3>1 DEF Once, ValuesApart
  <2>2. CASE i <= Len(out) /\ j <= Len(out)
    <3>1. /\ i \in 1..Len(out) /\ j \in 1..Len(out)
          /\ out[i].p = out[j].p
      BY <1>3, <2>1, <2>2
    <3> QED BY <3>1 DEF Once, PointersApart
  <2>3. CASE ~(i <= Len(out)) /\ ~(j <= Len(out))
    <3>1. /\ i - Len(out) \in 1..Len(buf) /\ j - Len(out) \in 1..Len(buf)
          /\ buf[i - Len(out)] = buf[j - Len(out)]
      BY <1>3, <2>1, <2>3
    <3>2. i - Len(out) = j - Len(out)
      BY <3>1 DEF Once, PointersApart
    <3>3. i \in Int /\ j \in Int
      OBVIOUS
    <3> QED BY <1>2, <3>2, <3>3
  <2>4. CASE i <= Len(out) /\ ~(j <= Len(out))
    <3>1. /\ i \in 1..Len(out) /\ j - Len(out) \in 1..Len(buf)
          /\ out[i].p = buf[j - Len(out)]
      BY <1>3, <2>1, <2>4
    <3> QED BY <3>1 DEF Once, PointersApart
  <2>5. CASE ~(i <= Len(out)) /\ j <= Len(out)
    <3>1. /\ j \in 1..Len(out) /\ i - Len(out) \in 1..Len(buf)
          /\ out[j].p = buf[i - Len(out)]
      BY <1>3, <2>1, <2>5
    <3> QED BY <3>1 DEF Once, PointersApart
  <2> QED BY <2>2, <2>3, <2>4, <2>5
<1> QED BY <1>4 DEF OnlyOnce, all

\* No value is delivered twice, or delivered and still in the queue, whatever
\* threads send, receive and iterate, although pointers travel.
THEOREM DeliveredOnce == Spec => []OnlyOnce
BY OnceInit, OnceStep, OnceMeans, PTL DEF Spec

-----------------------------------------------------------------------------
(* What a run can allocate: every variable within the bounds of TypeOK.      *)

\* The capacity, the nesting of each, and pointers that lead somewhere.
Bounds ==
  /\ cap \in 0..MaxCap /\ Len(buf) <= cap
  /\ numSent <= MaxValues
  /\ \A t \in Threads : ptr[t] <= Len(cells)
  /\ loops \in [Threads -> 0..MaxNest]
  /\ \A t \in Threads : pc[t] \in {"range", "derefEach"} => loops[t] < MaxNest
  /\ panicked \in {"none", "send", "close"}
  /\ outcome \in {"running", "ended", "crashed"}

Bounded == Once /\ Bounds

\* A sequence that repeats nothing is no longer than what it draws from.
LEMMA NoRepeat ==
  ASSUME NEW n \in Nat, NEW m \in Nat, NEW f \in [1..n -> 1..m],
         \A i, j \in 1..n : f[i] = f[j] => i = j
  PROVE  n <= m
<1> SUFFICES ASSUME m < n PROVE FALSE
  OBVIOUS
<1>1. /\ IsFiniteSet(1..n) /\ Cardinality(1..n) = n
      /\ IsFiniteSet(1..m) /\ Cardinality(1..m) = m
  <2>1. 1 \in Int /\ n \in Int /\ m \in Int
    OBVIOUS
  <2>2. /\ IsFiniteSet(1..n) /\ Cardinality(1..n) = IF 1 > n THEN 0 ELSE n-1+1
        /\ IsFiniteSet(1..m) /\ Cardinality(1..m) = IF 1 > m THEN 0 ELSE m-1+1
    BY <2>1, FS_Interval
  <2> QED BY <2>2
<1>2. \E i, j \in 1..n : i # j /\ f[i] = f[j]
  BY <1>1, FS_PigeonHole
<1> QED BY <1>2

\* There are no more cells than values, and no more received pointers than
\* cells.
LEMMA Fits ==
  ASSUME Once
  PROVE  Len(cells) <= MaxValues /\ Len(out) <= Len(cells)
<1>1. PICK n \in Nat, k \in Nat : n = Len(cells) /\ k = Len(out)
  BY DEF Once, IInv, Shape
<1>2. /\ cells \in Seq(1..MaxValues) /\ MaxValues \in Nat
      /\ out \in Seq([p : Nat, val : Nat])
  BY ChannelAssumption DEF Once, IInv, Shape
<1>3. n <= MaxValues
  <2>1. cells \in [1..n -> 1..MaxValues]
    BY <1>1, <1>2
  <2>2. \A i, j \in 1..n : cells[i] = cells[j] => i = j
    BY <1>1 DEF Once, ValuesApart
  <2> QED BY <1>2, <2>1, <2>2, NoRepeat
<1>4. k <= n
  <2>1. PICK f : f = [i \in 1..k |-> out[i].p]
    OBVIOUS
  <2>2. f \in [1..k -> 1..n]
    BY <1>1, <2>1 DEF Once, IInv, Pointers
  <2>3. \A i, j \in 1..k : f[i] = f[j] => i = j
    BY <1>1, <2>1 DEF Once, PointersApart
  <2> QED BY <2>2, <2>3, NoRepeat
<1> QED BY <1>1, <1>3, <1>4

\* A Lito error unwinds some of the calls of each that are running.
LEMMA RaiseBounds ==
  ASSUME Bounded, NEW t \in Threads, Raise(t)
  PROVE  /\ loops' \in [Threads -> 0..MaxNest]
         /\ \A u \in Threads : pc'[u] \in {"range", "derefEach"} =>
                               loops'[u] < MaxNest
         /\ outcome' \in {"running", "ended", "crashed"}
<1>1. /\ loops \in [Threads -> 0..MaxNest] /\ pc \in [Threads -> Steps]
      /\ \A u \in Threads : pc[u] \in {"range", "derefEach"} =>
                            loops[u] < MaxNest
      /\ outcome \in {"running", "ended", "crashed"} /\ MaxNest \in Nat
  BY ChannelAssumption DEF Bounded, Bounds, Once, IInv, Shape
<1>2. CASE Die(t, "ended")
  <2>1. /\ pc' = [pc EXCEPT ![t] = "dead"] /\ loops' = loops
        /\ outcome' \in {"ended", outcome}
    BY <1>2 DEF Die, Goto
  <2> QED BY <1>1, <2>1
<1>3. CASE \E n \in 0..loops[t] :
             /\ loops' = [loops EXCEPT ![t] = n]
             /\ Goto(t, "idle")
             /\ UNCHANGED outcome
  <2>1. PICK n \in 0..loops[t] :
          /\ loops' = [loops EXCEPT ![t] = n]
          /\ pc' = [pc EXCEPT ![t] = "idle"] /\ UNCHANGED outcome
    BY <1>3 DEF Goto
  <2>2. n \in 0..MaxNest
    <3>1. loops[t] \in 0..MaxNest
      BY <1>1
    <3> QED BY <1>1, <3>1
  <2> QED BY <1>1, <2>1, <2>2
<1> QED BY <1>2, <1>3 DEF Raise

\* Steps that leave the memory, the channel and the count alone.
LEMMA BoundsStay ==
  ASSUME Bounded, NEW t \in Threads,
         \/ Refused(t) \/ SendPanics(t) \/ ClosePanics(t) \/ Receive(t)
         \/ Each(t) \/ TakeNil(t) \/ Deref(t) \/ EndBlock(t) \/ BlockRaises(t)
         \/ Close(t) \/ Finish(t) \/ MarkClosed(t) \/ Shut(t)
  PROVE  Bounds'
<1>1. UNCHANGED <<cap, buf, cells, numSent, ptr>>
  BY DEF Refused, SendPanics, ClosePanics, GoPanic, Receive, Each, TakeNil,
     Deref, EndBlock, BlockRaises, Close, Finish, MarkClosed, Shut
<1>2. /\ loops \in [Threads -> 0..MaxNest] /\ pc \in [Threads -> Steps]
      /\ \A u \in Threads : pc[u] \in {"range", "derefEach"} =>
                            loops[u] < MaxNest
      /\ outcome \in {"running", "ended", "crashed"} /\ MaxNest \in Nat
      /\ loops[t] \in 0..MaxNest
  BY ChannelAssumption DEF Bounded, Bounds, Once, IInv, Shape
<1>3. panicked' \in {"none", "send", "close"}
  BY DEF Refused, SendPanics, ClosePanics, GoPanic, Receive, Each, TakeNil,
     Deref, EndBlock, BlockRaises, Close, Finish, MarkClosed, Shut, Bounded,
     Bounds
<1>4. /\ loops' \in [Threads -> 0..MaxNest]
      /\ \A u \in Threads : pc'[u] \in {"range", "derefEach"} =>
                            loops'[u] < MaxNest
      /\ outcome' \in {"running", "ended", "crashed"}
  <2>1. CASE Refused(t) \/ BlockRaises(t)
    BY <2>1, RaiseBounds DEF Refused, BlockRaises
  <2>2. CASE SendPanics(t) \/ ClosePanics(t) \/ Finish(t)
    <3>1. /\ pc' = [pc EXCEPT ![t] = "dead"] /\ loops' = loops
          /\ outcome' \in {"ended", "crashed", outcome}
      BY <2>2 DEF SendPanics, ClosePanics, GoPanic, Finish, Die, Goto
    <3> QED BY <1>2, <3>1
  <2>3. CASE Each(t)
    <3>1. /\ pc' = [pc EXCEPT ![t] = "range"] /\ UNCHANGED <<loops, outcome>>
          /\ loops[t] < MaxNest
      BY <2>3 DEF Each, Goto
    <3> QED BY <1>2, <3>1
  <2>4. CASE Deref(t)
    <3>1. PICK n : n = IF pc[t] = "deref" THEN loops[t] ELSE loops[t] + 1
      OBVIOUS
    <3>2. /\ pc' = [pc EXCEPT ![t] = "idle"] /\ outcome' = outcome
          /\ loops' = [loops EXCEPT ![t] = n]
          /\ pc[t] \in {"deref", "derefEach"}
      BY <2>4, <3>1 DEF Deref, Goto
    <3>3. n \in 0..MaxNest
      BY <1>2, <3>1, <3>2
    <3> QED BY <1>2, <3>2, <3>3
  <2>5. CASE EndBlock(t)
    <3>1. PICK n : n = loops[t] - 1
      OBVIOUS
    <3>2. /\ loops[t] > 0 /\ outcome' = outcome /\ pc[t] = "idle"
          /\ loops' = [loops EXCEPT ![t] = n]
          /\ pc' = [pc EXCEPT ![t] = "range"] \/ pc' = pc
      BY <2>5, <3>1 DEF EndBlock, Idle, Goto
    <3>3. n \in 0..MaxNest /\ n < MaxNest
      BY <1>2, <3>1, <3>2
    <3> QED BY <1>2, <3>2, <3>3
  <2>6. CASE \/ Receive(t) \/ TakeNil(t) \/ Close(t) \/ MarkClosed(t)
             \/ Shut(t)
    <3>1. PICK step \in {"receive", "idle", "mark", "shut"} :
            /\ pc' = [pc EXCEPT ![t] = step] /\ UNCHANGED <<loops, outcome>>
      BY <2>6 DEF Receive, TakeNil, Close, MarkClosed, Shut, Goto
    <3> QED BY <1>2, <3>1
  <2> QED BY <2>1, <2>2, <2>3, <2>4, <2>5, <2>6
<1> QED BY <1>1, <1>3, <1>4 DEF Bounded, Bounds

\* Sending: the count stays within its bound, a new pointer is that of the new
\* cell, and Put waits for room.
LEMMA SenderBounds ==
  ASSUME Bounded, NEW t \in Threads, Send(t) \/ Box(t) \/ Put(t)
  PROVE  Bounds'
<1>1. /\ loops \in [Threads -> 0..MaxNest] /\ pc \in [Threads -> Steps]
      /\ \A u \in Threads : pc[u] \in {"range", "derefEach"} =>
                            loops[u] < MaxNest
      /\ Len(cells) \in Nat /\ Len(buf) \in Nat /\ cap \in Nat
      /\ ptr \in [Threads -> Nat]
      /\ \A u \in Threads : ptr[u] <= Len(cells)
      /\ numSent \in Nat /\ numSent <= MaxValues /\ Len(buf) <= cap
  BY ChannelAssumption DEF Bounded, Bounds, Once, IInv, Shape
<1>2. UNCHANGED <<cap, loops, panicked, outcome>>
  BY DEF Send, Box, Put
<1>3. \A u \in Threads : pc'[u] \in {"range", "derefEach"} =>
                         loops'[u] < MaxNest
  <2>1. PICK step \in {"box", "send", "idle"} : pc' = [pc EXCEPT ![t] = step]
    BY DEF Send, Box, Put, Goto, AfterSend
  <2> QED BY <1>1, <1>2, <2>1
<1>4. CASE Send(t)
  <2>1. numSent' <= MaxValues /\ UNCHANGED <<buf, cells, ptr>>
    BY <1>4 DEF Send
  <2> QED BY <1>2, <1>3, <2>1 DEF Bounded, Bounds
<1>5. CASE Box(t)
  <2>1. /\ cells' = Append(cells, Head(args[t])) /\ args[t] # <<>>
        /\ ptr' = [ptr EXCEPT ![t] = Len(cells) + 1]
        /\ UNCHANGED <<buf, numSent>>
    BY <1>5 DEF Box, Bounded, Once, IInv, CallsSound
  <2>2. Len(cells') = Len(cells) + 1
    <3>1. /\ args[t] \in Seq(1..MaxValues) /\ cells \in Seq(1..MaxValues)
      BY DEF Bounded, Once, IInv, Shape
    <3>2. Head(args[t]) \in 1..MaxValues
      BY <2>1, <3>1, TailFacts
    <3> QED BY <2>1, <3>1, <3>2, AppendFacts
  <2>3. \A u \in Threads : ptr'[u] <= Len(cells')
    BY <1>1, <2>1, <2>2
  <2> QED BY <1>2, <1>3, <2>1, <2>3 DEF Bounded, Bounds
<1>6. CASE Put(t)
  <2>1. /\ buf' = Append(buf, ptr[t]) /\ Len(buf) < cap
        /\ UNCHANGED <<cells, ptr, numSent>>
    BY <1>6 DEF Put
  <2>2. Len(buf') = Len(buf) + 1
    BY <1>1, <2>1, AppendFacts DEF Bounded, Once, IInv, Shape
  <2>3. Len(buf') <= cap
    BY <1>1, <2>1, <2>2
  <2> QED BY <1>2, <1>3, <2>1, <2>3 DEF Bounded, Bounds
<1> QED BY <1>4, <1>5, <1>6

\* Receiving: the place of the pointer in out is a place there is.
LEMMA ReceiverBounds ==
  ASSUME Bounded, Once', NEW t \in Threads,
         Take(t) \/ \E s \in Threads : Pass(s, t)
  PROVE  Bounds'
<1>1. /\ loops \in [Threads -> 0..MaxNest] /\ pc \in [Threads -> Steps]
      /\ \A u \in Threads : pc[u] \in {"range", "derefEach"} =>
                            loops[u] < MaxNest
      /\ Len(cells) \in Nat /\ cap \in Nat /\ buf \in Seq(Nat)
      /\ Len(buf) \in Nat /\ Len(buf) <= cap
      /\ ptr \in [Threads -> Nat] /\ out \in Seq([p : Nat, val : Nat])
      /\ \A u \in Threads : ptr[u] <= Len(cells)
  <2>1. /\ pc \in [Threads -> Steps] /\ cells \in Seq(1..MaxValues)
        /\ buf \in Seq(Nat) /\ ptr \in [Threads -> Nat]
        /\ out \in Seq([p : Nat, val : Nat])
    BY DEF Bounded, Once, IInv, Shape
  <2>2. /\ loops \in [Threads -> 0..MaxNest] /\ cap \in 0..MaxCap
        /\ \A u \in Threads : pc[u] \in {"range", "derefEach"} =>
                              loops[u] < MaxNest
        /\ Len(buf) <= cap /\ \A u \in Threads : ptr[u] <= Len(cells)
    BY DEF Bounded, Bounds
  <2>3. Len(cells) \in Nat /\ Len(buf) \in Nat /\ cap \in Nat
    BY <2>1, <2>2, ChannelAssumption
  <2> QED BY <2>1, <2>2, <2>3
<1>2. /\ UNCHANGED <<cap, cells, numSent, loops, panicked, outcome>>
      /\ Len(buf') <= cap
  <2>1. CASE Take(t)
    <3>1. buf # <<>> /\ buf' = Tail(buf)
      BY <2>1 DEF Take
    <3>2. Len(buf') = Len(buf) - 1
      BY <1>1, <3>1, TailFacts
    <3> QED BY <1>1, <2>1, <3>2 DEF Take
  <2>2. CASE \E s \in Threads : Pass(s, t)
    BY <1>1, <2>2 DEF Pass
  <2> QED BY <2>1, <2>2
<1>3. PICK r : out' = Append(out, r) /\ ptr' = [ptr EXCEPT ![t] = Len(out) + 1]
  BY DEF Take, Pass, Received
<1>4. Len(out') = Len(out) + 1
  BY <1>1, <1>3
<1>5. Len(out') <= Len(cells)
  <2>1. (Len(out) <= Len(cells))'
    BY Fits, PTL
  <2> QED BY <1>2, <2>1
<1>6. \A u \in Threads : ptr'[u] <= Len(cells)
  BY <1>1, <1>3, <1>4, <1>5
<1>7. \A u \in Threads : pc'[u] \in {"range", "derefEach"} => loops[u] < MaxNest
  <2>1. \A u \in Threads : pc'[u] \in {"range", "derefEach"} =>
                           pc[u] \in {"range", "derefEach"}
    <3>1. CASE Take(t)
      <4>1. pc' = [pc EXCEPT ![t] = GotPointer(t)]
            /\ pc[t] \in {"receive", "range"}
        BY <3>1 DEF Take, Receiving, Goto
      <4> QED BY <1>1, <4>1 DEF GotPointer
    <3>2. CASE \E s \in Threads : Pass(s, t)
      <4>1. PICK s \in Threads :
              /\ pc' = [pc EXCEPT ![s] = AfterSend(s), ![t] = GotPointer(t)]
              /\ pc[t] \in {"receive", "range"} /\ pc[s] = "send"
        BY <3>2 DEF Pass, Receiving
      <4> QED BY <1>1, <4>1 DEF GotPointer, AfterSend
    <3> QED BY <3>1, <3>2
  <2> QED BY <1>1, <2>1
<1> QED BY <1>2, <1>6, <1>7 DEF Bounded, Bounds

\* Initially nothing is allocated.
LEMMA BoundedInit == Init => Bounded
<1> SUFFICES ASSUME Init PROVE Bounded
  OBVIOUS
<1>1. /\ Len(buf) = 0 /\ Len(cells) = 0 /\ numSent = 0 /\ cap \in 0..MaxCap
      /\ \A t \in Threads : ptr[t] = 0 /\ pc[t] = "idle"
      /\ panicked = "none" /\ outcome = "running"
  BY DEF Init
<1>2. loops \in [Threads -> 0..MaxNest]
  BY ChannelAssumption DEF Init
<1>3. Bounds
  BY <1>1, <1>2, ChannelAssumption DEF Bounds
<1> QED BY <1>3, OnceInit DEF Bounded

\* Every step stays within the bounds.
LEMMA BoundedStep == Bounded /\ [Next]_vars => Bounded'
<1> SUFFICES ASSUME Bounded, [Next]_vars PROVE Bounds' /\ Once'
  BY DEF Bounded
<1>1. Once'
  BY OnceStep DEF Bounded
<1>2. CASE UNCHANGED vars
  BY <1>1, <1>2 DEF vars, Bounded, Bounds
<1>3. CASE Next
  <2>1. PICK t \in Threads : Step(t)
    BY <1>3 DEF Next
  <2>2. CASE \/ Refused(t) \/ SendPanics(t) \/ ClosePanics(t) \/ Receive(t)
             \/ Each(t) \/ TakeNil(t) \/ Deref(t) \/ EndBlock(t)
             \/ BlockRaises(t) \/ Close(t) \/ Finish(t) \/ MarkClosed(t)
             \/ Shut(t)
    BY <1>1, <2>2, BoundsStay
  <2>3. CASE Send(t) \/ Box(t) \/ Put(t)
    BY <1>1, <2>3, SenderBounds
  <2>4. CASE Take(t) \/ \E s \in Threads : Pass(s, t)
    BY <1>1, <2>4, ReceiverBounds
  <2> QED BY <2>1, <2>2, <2>3, <2>4 DEF Step, Inside
<1> QED BY <1>2, <1>3

\* A sequence is one over whatever all its elements are in.
LEMMA Retyped ==
  ASSUME NEW S, NEW T, NEW s \in Seq(S), \A i \in 1..Len(s) : s[i] \in T
  PROVE  s \in Seq(T)
<1>1. PICK n \in Nat : n = Len(s) /\ s = [i \in 1..n |-> s[i]]
  OBVIOUS
<1>2. [i \in 1..n |-> s[i]] \in [1..n -> T]
  BY <1>1
<1> QED BY <1>1, <1>2, FunctionIsSeq

\* The bounds and the invariant are what TypeOK asks for.
LEMMA BoundedTypes == Bounded => TypeOK
<1> SUFFICES ASSUME Bounded PROVE TypeOK
  OBVIOUS
<1>1. /\ Len(cells) \in Nat /\ Len(cells) <= MaxValues /\ MaxValues \in Nat
      /\ numSent \in Nat /\ numSent <= MaxValues
      /\ cells \in Seq(1..MaxValues) /\ buf \in Seq(Nat)
      /\ out \in Seq([p : Nat, val : Nat]) /\ ptr \in [Threads -> Nat]
  BY Fits, ChannelAssumption DEF Bounded, Bounds, Once, IInv, Shape
<1>2. buf \in Seq(1..Len(cells))
  BY <1>1, Retyped DEF Bounded, Once, IInv, Pointers
<1>3. out \in Seq([p : 1..Len(cells), val : 0..MaxValues])
  <2>1. ASSUME NEW i \in 1..Len(out)
        PROVE  out[i] \in [p : 1..Len(cells), val : 0..MaxValues]
    <3>1. /\ out[i] \in [p : Nat, val : Nat] /\ out[i].p \in 1..Len(cells)
          /\ out[i].val \in {Unread, cells[out[i].p]}
      BY <1>1, ElementFacts DEF Bounded, Once, IInv, Pointers
    <3>2. cells[out[i].p] \in 1..MaxValues
      BY <1>1, <3>1, ElementFacts
    <3>3. out[i].val \in 0..MaxValues
      <4>1. CASE out[i].val = Unread
        BY <4>1, <1>1 DEF Unread
      <4>2. CASE out[i].val = cells[out[i].p]
        <5>1. out[i].val \in 1..MaxValues
          BY Zenon, <4>2, <3>2
        <5> QED BY <5>1, <1>1
      <4> QED BY Zenon, <3>1, <4>1, <4>2
    <3> QED BY <3>1, <3>3
  <2> QED BY <1>1, <2>1, Retyped
<1>4. ptr \in [Threads -> 0..MaxValues] /\ numSent \in 0..MaxValues
  <2>1. ASSUME NEW t \in Threads PROVE ptr[t] \in 0..MaxValues
    <3>1. ptr[t] \in Nat /\ ptr[t] <= Len(cells)
      BY <1>1 DEF Bounded, Bounds
    <3> QED BY <1>1, <3>1
  <2> QED BY <1>1, <2>1
<1>5. /\ ChannelState \in {"open", "closed"} /\ shut \in BOOLEAN
      /\ pc \in [Threads -> Steps] /\ args \in [Threads -> Seq(1..MaxValues)]
  BY DEF Bounded, Once, IInv, Shape
<1>6. /\ cap \in 0..MaxCap /\ Len(buf) <= cap
      /\ loops \in [Threads -> 0..MaxNest]
      /\ panicked \in {"none", "send", "close"}
      /\ outcome \in {"running", "ended", "crashed"}
  BY DEF Bounded, Bounds
<1> QED BY Zenon, <1>1, <1>2, <1>3, <1>4, <1>5, <1>6 DEF TypeOK

\* The Go channel keeps its capacity, every pointer in it and every pointer
\* received leads to a variable that was allocated, and no more variables are
\* allocated than values were sent (the structs of channel.go).
THEOREM ChannelKeepsTypes == Spec => []TypeOK
BY BoundedInit, BoundedStep, BoundedTypes, PTL DEF Spec
=============================================================================
