---------------------------- MODULE ThreadProofs ----------------------------
(* Proofs about one interpreter thread, for every program, every number of *)
(* frames and errors, as long as no block breaks after it registered a     *)
(* deferred block (BreakWithDefers = FALSE).                               *)
EXTENDS Thread, TLAPS

-----------------------------------------------------------------------------
(* The inductive invariant.                                                *)

\* Frames refer to frames, and every literal block knows where it was written.
FrameSound(f) ==
  /\ heap[f].blockFrame # 0 =>
       /\ heap[f].blockFrame \in 1..Len(heap)
       /\ heap[heap[f].blockFrame].kind = "literal"
  /\ heap[f].ep \in 0..Len(heap)
  /\ heap[f].kind = "literal" => heap[f].ep # 0

HeapSound == \A f \in 1..Len(heap) : FrameSound(f)

\* A Go activation evaluates a frame of its own kind, and a builtin that
\* yields was given a block.
ActSound(i) ==
  /\ acts[i].frame \in 1..Len(heap)
  /\ heap[acts[i].frame].kind =
       (IF acts[i].kind = "normal" THEN "normal" ELSE "go")
  /\ acts[i].kind \in {"each", "try"} => heap[acts[i].frame].blockFrame # 0
  /\ acts[i].kind # "normal" =>
       /\ acts[i].phase = "exec" /\ Len(acts[i].defers) = 0
       /\ acts[i].via = "send"

\* The blocks an activation has deferred, in the order it registered them.
Pending(i) ==
  \A k \in 1..Len(acts[i].defers) :
    /\ acts[i].defers[k] \in acts[i].frame + 1..Len(heap)
    /\ heap[acts[i].defers[k]].kind = "normal"
    /\ ~heap[acts[i].defers[k]].isRemoved
    /\ \A l \in k+1..Len(acts[i].defers) : acts[i].defers[k] < acts[i].defers[l]

\* Its own part of the data stack.
Slots(i) ==
  /\ acts[i].recv \in 1..acts[i].base + 1
  /\ acts[i].via \in {"send", "invoke", "init"} => acts[i].recv <= acts[i].base
  /\ acts[i].base <= Len(stack)

\* Activation j runs inside i: its frame was allocated later, also later than
\* what i has deferred, and its slots lie above.
Above(i, j) ==
  /\ acts[i].frame < acts[j].frame
  /\ \A k \in 1..Len(acts[i].defers) : acts[i].defers[k] < acts[j].frame
  /\ acts[i].base < acts[j].recv

\* An activation with another one inside is live, and if it was executing it
\* is the one to come back to.
Waiting(i) ==
  /\ ~heap[acts[i].frame].isRemoved
  /\ acts[i].phase = "exec" => acts[i + 1].old = acts[i].frame

ActsSound ==
  /\ \A i \in 1..Len(acts) : ActSound(i) /\ Pending(i) /\ Slots(i)
  /\ \A i \in 1..Len(acts) : \A j \in i+1..Len(acts) : Above(i, j)
  /\ \A i \in 1..Len(acts)-1 : Waiting(i)

\* Only a block that broke is removed while Go still evaluates it, and then
\* nothing is left for it to do but to return.
BrokenReturns ==
  LET n == Len(acts)
  IN n > 0 /\ heap[acts[n].frame].isRemoved =>
       /\ acts[n].kind = "normal" /\ panic = NoPanic
       /\ Len(acts[n].defers) = 0
       /\ acts[n].phase = "exec" => heap[acts[n].frame].stopped
       /\ acts[n].phase = "defers" => acts[n].pend = NoPanic

IInv ==
  /\ TypeOK /\ HeapSound /\ ActsSound /\ BrokenReturns
  /\ FramesMatch /\ CurrentFrameRuns

-----------------------------------------------------------------------------
(* Sequences used as stacks.                                               *)

\* Pushing adds one element at the end and moves nothing.
LEMMA AppendFacts ==
  ASSUME NEW S, NEW s \in Seq(S), NEW e \in S
  PROVE  /\ Append(s, e) \in Seq(S)
         /\ Len(Append(s, e)) = Len(s) + 1
         /\ \A i \in 1..Len(s) : Append(s, e)[i] = s[i]
         /\ Append(s, e)[Len(s) + 1] = e
  OBVIOUS

\* Resetting the stack pointer keeps what lies below it.
LEMMA CutFacts ==
  ASSUME NEW S, NEW s \in Seq(S), NEW k \in 0..Len(s)
  PROVE  /\ SubSeq(s, 1, k) \in Seq(S)
         /\ Len(SubSeq(s, 1, k)) = k
         /\ \A i \in 1..k : SubSeq(s, 1, k)[i] = s[i]
  OBVIOUS

\* Popping drops the last element and moves nothing.
LEMMA PopFacts ==
  ASSUME NEW S, NEW s \in Seq(S), s # <<>>
  PROVE  /\ Pop(s) \in Seq(S) /\ Top(s) \in S
         /\ Len(s) \in Nat \ {0}
         /\ Len(Pop(s)) = Len(s) - 1
         /\ \A i \in 1..Len(s) - 1 : Pop(s)[i] = s[i]
<1>1. Len(s) \in Nat \ {0}
  OBVIOUS
<1>2. Top(s) \in S
  BY <1>1 DEF Top
<1>3. Len(s) - 1 \in 0..Len(s)
  BY <1>1
<1> QED
  BY <1>1, <1>2, <1>3, CutFacts DEF Pop

\* Allocating frames moves none of the existing ones.
LEMMA ConcatFacts ==
  ASSUME NEW S, NEW s \in Seq(S), NEW r \in Seq(S)
  PROVE  /\ s \o r \in Seq(S)
         /\ Len(s \o r) = Len(s) + Len(r)
         /\ \A i \in 1..Len(s) : (s \o r)[i] = s[i]
         /\ \A i \in 1..Len(r) : (s \o r)[Len(s) + i] = r[i]
  OBVIOUS

\* Overwriting the top element keeps the others.
LEMMA SetTopFacts ==
  ASSUME NEW S, NEW s \in Seq(S), s # <<>>, NEW e \in S,
         NEW t, t = [s EXCEPT ![Len(s)] = e]
  PROVE  /\ t \in Seq(S) /\ Len(t) = Len(s)
         /\ \A i \in 1..Len(s) - 1 : t[i] = s[i]
         /\ t[Len(s)] = e
  OBVIOUS

\* The fields of one activation.
LEMMA ActFields ==
  ASSUME NEW s \in Seq(ActRecord), NEW i \in 1..Len(s)
  PROVE  /\ s[i].kind \in ActKinds /\ s[i].via \in Vias
         /\ s[i].frame \in Nat /\ s[i].old \in Nat
         /\ s[i].recv \in Nat /\ s[i].base \in Nat /\ s[i].ret \in Nat
         /\ s[i].defers \in Seq(Nat) /\ Len(s[i].defers) \in Nat
         /\ s[i].phase \in {"exec", "defers"} /\ s[i].pend \in PanicValue
<1>1. s[i] \in ActRecord
  OBVIOUS
<1>2. s[i].defers \in Seq(Nat)
  BY <1>1 DEF ActRecord
<1>3. Len(s[i].defers) \in Nat
  BY <1>2
<1>4. /\ s[i].kind \in ActKinds /\ s[i].via \in Vias
      /\ s[i].frame \in Nat /\ s[i].old \in Nat
  BY <1>1 DEF ActRecord
<1>5. /\ s[i].recv \in Nat /\ s[i].base \in Nat /\ s[i].ret \in Nat
      /\ s[i].phase \in {"exec", "defers"} /\ s[i].pend \in PanicValue
  BY <1>1 DEF ActRecord
<1> QED
  BY <1>2, <1>3, <1>4, <1>5


\* What TypeOK says of the sequences, with their lengths.
LEMMA Typed ==
  ASSUME TypeOK
  PROVE  /\ heap \in Seq(FrameRecord) /\ Len(heap) \in Nat
         /\ acts \in Seq(ActRecord) /\ Len(acts) \in Nat
         /\ callFrames \in Seq(Nat) /\ Len(callFrames) \in Nat
         /\ stack \in Seq({Val} \cup Errors) /\ Len(stack) \in Nat
  BY DEF TypeOK

-----------------------------------------------------------------------------
(* The activations a step does not end keep what is true of them.          *)

\* The step changes at most the phase, the flags and the latest deferred
\* blocks of activation i.
SameAct(i) ==
  /\ acts'[i].frame = acts[i].frame /\ acts'[i].kind = acts[i].kind
  /\ acts'[i].via = acts[i].via
  /\ acts'[i].recv = acts[i].recv /\ acts'[i].base = acts[i].base
  /\ acts[i].kind # "normal" => acts'[i].phase = acts[i].phase
  /\ Len(acts'[i].defers) <= Len(acts[i].defers)
  /\ \A k \in 1..Len(acts'[i].defers) : acts'[i].defers[k] = acts[i].defers[k]

\* Frames change nothing but their removed and stopped flags.
SameFrames ==
  /\ Len(heap') >= Len(heap)
  /\ \A f \in 1..Len(heap) :
       /\ heap'[f].kind = heap[f].kind
       /\ heap'[f].blockFrame = heap[f].blockFrame
       /\ heap'[f].ep = heap[f].ep

\* The blocks i has deferred are still to be run.
StillPending(i) ==
  \A k \in 1..Len(acts[i].defers) :
    heap'[acts[i].defers[k]].isRemoved = heap[acts[i].defers[k]].isRemoved

\* Deferred frames exist.
LEMMA PendingRange ==
  ASSUME TypeOK, NEW i \in 1..Len(acts), ActSound(i), Pending(i),
         NEW k \in 1..Len(acts[i].defers)
  PROVE  acts[i].defers[k] \in 1..Len(heap)
<1>1. acts[i].defers[k] \in acts[i].frame + 1..Len(heap)
  BY DEF Pending
<1>2. acts[i].frame \in 1..Len(heap) /\ Len(heap) \in Nat
  BY DEF ActSound, TypeOK
<1> QED
  BY <1>1, <1>2

\* An activation that goes on stays sound.
LEMMA KeptAct ==
  ASSUME TypeOK, TypeOK', NEW i \in 1..Len(acts), i \in 1..Len(acts'),
         SameAct(i), SameFrames, ActSound(i)
  PROVE  ActSound(i)'
<1>1. Len(heap) \in Nat /\ Len(heap') \in Nat
  BY DEF TypeOK
<1>2. Len(acts[i].defers) \in Nat /\ Len(acts'[i].defers) \in Nat
  BY ActFields DEF TypeOK
<1> QED
  BY <1>1, <1>2 DEF ActSound, SameAct, SameFrames

\* Its deferred blocks stay in order.
LEMMA KeptPending ==
  ASSUME TypeOK, TypeOK', NEW i \in 1..Len(acts), i \in 1..Len(acts'),
         SameAct(i), SameFrames, StillPending(i), Pending(i), ActSound(i)
  PROVE  Pending(i)'
<1>1. Len(heap) \in Nat /\ Len(heap') \in Nat /\ Len(heap') >= Len(heap)
  BY DEF TypeOK, SameFrames
<1>2. Len(acts[i].defers) \in Nat /\ Len(acts'[i].defers) \in Nat
  BY ActFields DEF TypeOK
<1>3. ASSUME NEW k \in 1..Len(acts'[i].defers)
      PROVE  /\ acts'[i].defers[k] \in acts'[i].frame + 1..Len(heap')
             /\ heap'[acts'[i].defers[k]].kind = "normal"
             /\ ~heap'[acts'[i].defers[k]].isRemoved
             /\ \A l \in k+1..Len(acts'[i].defers) :
                  acts'[i].defers[k] < acts'[i].defers[l]
  <2>1. /\ k \in 1..Len(acts[i].defers)
        /\ acts'[i].defers[k] = acts[i].defers[k]
        /\ acts'[i].frame = acts[i].frame
        /\ Len(acts'[i].defers) <= Len(acts[i].defers)
    BY <1>2, <1>3 DEF SameAct
  <2>2. /\ acts[i].defers[k] \in acts[i].frame + 1..Len(heap)
        /\ heap[acts[i].defers[k]].kind = "normal"
        /\ ~heap[acts[i].defers[k]].isRemoved
        /\ \A l \in k+1..Len(acts[i].defers) :
             acts[i].defers[k] < acts[i].defers[l]
    BY <2>1 DEF Pending
  <2>3. /\ heap'[acts[i].defers[k]].kind = "normal"
        /\ ~heap'[acts[i].defers[k]].isRemoved
    BY <1>1, <2>1, <2>2, acts[i].frame \in 1..Len(heap)
       DEF SameFrames, StillPending, ActSound
  <2>4. ASSUME NEW l \in k+1..Len(acts'[i].defers)
        PROVE  acts'[i].defers[k] < acts'[i].defers[l]
    BY <1>2, <2>1, <2>2, <2>4 DEF SameAct
  <2> QED
    BY <1>1, <2>1, <2>2, <2>3, <2>4
<1> QED
  BY <1>3 DEF Pending

\* Its slots stay its own as long as the stack is not cut below them.
LEMMA KeptSlots ==
  ASSUME NEW i, SameAct(i), Slots(i), acts[i].base <= Len(stack')
  PROVE  Slots(i)'
  BY DEF Slots, SameAct

\* What runs inside it still does.
LEMMA KeptAbove ==
  ASSUME TypeOK, TypeOK', NEW i \in 1..Len(acts), NEW j, i \in 1..Len(acts'),
         SameAct(i), SameAct(j), Above(i, j)
  PROVE  Above(i, j)'
<1>1. Len(acts[i].defers) \in Nat /\ Len(acts'[i].defers) \in Nat
  BY ActFields DEF TypeOK
<1> QED
  BY <1>1 DEF Above, SameAct

-----------------------------------------------------------------------------
(* What a step allocates.                                                  *)

\* Allocating one frame.
LEMMA AllocOne ==
  ASSUME TypeOK, NEW F \in FrameRecord, heap' = heap \o <<F>>
  PROVE  /\ heap' \in Seq(FrameRecord)
         /\ Len(heap') = Len(heap) + 1
         /\ \A f \in 1..Len(heap) : heap'[f] = heap[f]
         /\ heap'[Len(heap) + 1] = F
  BY DEF TypeOK

\* Allocating a block literal and the frame that gets it.
LEMMA AllocTwo ==
  ASSUME TypeOK, NEW F \in FrameRecord, NEW G \in FrameRecord,
         heap' = heap \o <<F, G>>
  PROVE  /\ heap' \in Seq(FrameRecord)
         /\ Len(heap') = Len(heap) + 2
         /\ \A f \in 1..Len(heap) : heap'[f] = heap[f]
         /\ heap'[Len(heap) + 1] = F
         /\ heap'[Len(heap) + 2] = G
  BY DEF TypeOK

\* The heap stays sound if the new frames are.
LEMMA HeapKept ==
  ASSUME TypeOK, TypeOK', HeapSound, SameFrames,
         \A f \in Len(heap) + 1..Len(heap') : FrameSound(f)'
  PROVE  HeapSound'
<1>1. Len(heap) \in Nat /\ Len(heap') \in Nat /\ Len(heap') >= Len(heap)
  BY DEF TypeOK, SameFrames
<1>2. ASSUME NEW f \in 1..Len(heap) PROVE FrameSound(f)'
  <2>1. FrameSound(f)
    BY DEF HeapSound
  <2>2. /\ heap'[f].kind = heap[f].kind /\ heap'[f].ep = heap[f].ep
        /\ heap'[f].blockFrame = heap[f].blockFrame
    BY DEF SameFrames
  <2>3. heap[f].blockFrame \in 1..Len(heap) =>
          heap'[heap[f].blockFrame].kind = heap[heap[f].blockFrame].kind
    BY DEF SameFrames
  <2> QED
    BY <1>1, <2>1, <2>2, <2>3 DEF FrameSound
<1> QED
  BY <1>1, <1>2 DEF HeapSound

-----------------------------------------------------------------------------
(* The three ways a step can touch the two stacks.                         *)

\* Entering a frame: every evaluateNormalFrame and evaluateGoFrame.
LEMMA EnterInv ==
  ASSUME IInv, TypeOK', HeapSound', SameFrames, panic' = NoPanic,
         NEW n \in Nat, n = Len(acts),
         \A f \in 1..Len(heap) : heap'[f].isRemoved = heap[f].isRemoved,
         Len(acts') = n + 1,
         \A i \in 1..n :
           /\ SameAct(i) /\ Above(i, n + 1)'
           /\ acts'[i].phase = acts[i].phase /\ acts'[i].old = acts[i].old,
         acts # <<>> => ~heap[acts[n].frame].isRemoved,
         acts # <<>> /\ acts[n].phase = "exec" =>
           currentFrame = acts[n].frame,
         callFrames' = Append(callFrames, acts'[n + 1].frame),
         currentFrame' = acts'[n + 1].frame,
         acts'[n + 1].old = currentFrame,
         Len(acts'[n + 1].defers) = 0,
         ActSound(n + 1)', Slots(n + 1)',
         ~heap'[acts'[n + 1].frame].isRemoved,
         Len(stack') >= Len(stack)
  PROVE  IInv'
<1>0. /\ TypeOK /\ HeapSound /\ ActsSound /\ FramesMatch
      /\ n \in Nat /\ Len(stack) \in Nat /\ Len(stack') \in Nat
      /\ n > 0 <=> acts # <<>>
  BY DEF IInv, TypeOK
<1>1. ASSUME NEW i \in 1..n PROVE ActSound(i)' /\ Pending(i)' /\ Slots(i)'
  <2>1. ActSound(i) /\ Pending(i) /\ Slots(i) /\ SameAct(i) /\ i \in 1..Len(acts')
    BY <1>0, <1>1 DEF ActsSound
  <2>2. ActSound(i)'
    BY <1>0, <2>1, KeptAct
  <2>3. StillPending(i)
    BY <1>0, <1>1, <2>1, PendingRange DEF StillPending
  <2>4. Pending(i)'
    BY <1>0, <2>1, <2>3, KeptPending
  <2>5. acts[i].base \in Nat /\ acts[i].base <= Len(stack')
    BY <1>0, <2>1, ActFields DEF Slots, TypeOK
  <2> QED
    BY <2>1, <2>2, <2>4, <2>5, KeptSlots
<1>2. Pending(n + 1)'
  BY DEF Pending
<1>3. ASSUME NEW i \in 1..n, NEW j \in i+1..n PROVE Above(i, j)'
  <2>1. Above(i, j) /\ SameAct(i) /\ SameAct(j) /\ i \in 1..Len(acts')
    BY <1>0, <1>3 DEF ActsSound
  <2> QED
    BY <1>0, <2>1, KeptAbove
<1>4. ASSUME NEW i \in 1..n PROVE Waiting(i)'
  <2>1. acts[i].frame \in 1..Len(heap) /\ acts'[i].frame = acts[i].frame
    BY <1>0, <1>4 DEF ActsSound, ActSound, SameAct
  <2>2. CASE i = n
    BY <1>0, <2>1, <2>2 DEF Waiting
  <2>3. CASE i # n
    <3>1. Waiting(i) /\ i + 1 \in 1..n
      BY <1>0, <1>4, <2>3 DEF ActsSound
    <3> QED
      BY <2>1, <3>1 DEF Waiting
  <2> QED
    BY <2>2, <2>3
<1>5. ActsSound'
  <2>1. \A i \in 1..n + 1 : (ActSound(i) /\ Pending(i) /\ Slots(i))'
    BY <1>0, <1>1, <1>2
  <2>2. ASSUME NEW i \in 1..n + 1, NEW j \in i+1..n + 1 PROVE Above(i, j)'
    <3>1. i \in 1..n /\ (j = n + 1 \/ j \in i+1..n)
      BY <1>0, <2>2
    <3> QED
      BY <1>3, <3>1
  <2>3. \A i \in 1..n + 1 - 1 : Waiting(i)'
    BY <1>0, <1>4
  <2> QED
    BY <2>1, <2>2, <2>3 DEF ActsSound
<1>6. BrokenReturns'
  BY <1>0 DEF BrokenReturns
<1>7. FramesMatch'
  <2>1. Len(callFrames) = n /\ \A i \in 1..n : callFrames[i] = acts[i].frame
    BY <1>0 DEF FramesMatch
  <2>2. /\ callFrames \in Seq(Nat) /\ acts'[n + 1].frame \in Nat
    BY <1>0 DEF TypeOK
  <2>3. Len(callFrames') = n + 1 /\ \A i \in 1..n + 1 : callFrames'[i] = acts'[i].frame
    BY <1>0, <2>1, <2>2, AppendFacts DEF SameAct
  <2> QED
    BY <1>0, <2>3 DEF FramesMatch
<1>8. CurrentFrameRuns'
  BY <1>0 DEF CurrentFrameRuns, Top
<1> QED
  BY <1>5, <1>6, <1>7, <1>8 DEF IInv

\* Leaving a frame, whether it returned or was unwound: what is popped is
\* this frame, unless it broke and was popped already.
LEMMA LeaveInv ==
  ASSUME IInv, TypeOK', HeapSound', SameFrames,
         NEW n \in Nat, n = Len(acts), n > 0, Len(acts') = n - 1,
         \A i \in 1..n - 1 : acts'[i] = acts[i],
         \A f \in 1..Len(heap) :
           f # acts[n].frame => heap'[f].isRemoved = heap[f].isRemoved,
         Len(callFrames') = n - 1,
         \A i \in 1..n - 1 : callFrames'[i] = callFrames[i],
         acts[n].recv <= Len(stack') + 1,
         panic' = NoPanic => currentFrame' = acts[n].old
  PROVE  IInv'
<1>0. /\ TypeOK /\ HeapSound /\ ActsSound /\ FramesMatch
      /\ n \in Nat /\ Len(stack) \in Nat /\ Len(stack') \in Nat
      /\ n \in 1..n
  BY DEF IInv, TypeOK
<1>1. ASSUME NEW i \in 1..n - 1
      PROVE  ActSound(i)' /\ Pending(i)' /\ Slots(i)'
  <2>0. i \in 1..n /\ n \in i + 1..n
    BY <1>0, <1>1
  <2>1. ActSound(i) /\ Pending(i) /\ Slots(i) /\ Above(i, n)
    BY <1>0, <2>0 DEF ActsSound
  <2>9. acts[i].frame \in Nat /\ acts[n].frame \in Nat
    BY <1>0, <2>0, ActFields DEF TypeOK
  <2>2. SameAct(i) /\ i \in 1..Len(acts')
    <3>1. Len(acts[i].defers) \in Nat
      BY <1>0, <2>0, ActFields DEF TypeOK
    <3> QED
      BY <1>1, <3>1 DEF SameAct
  <2>3. ActSound(i)'
    BY <1>0, <2>0, <2>1, <2>2, KeptAct
  <2>4. StillPending(i)
    <3>1. ASSUME NEW k \in 1..Len(acts[i].defers)
          PROVE  acts[i].defers[k] \in 1..Len(heap) \ {acts[n].frame}
      <4>1. acts[i].defers[k] \in 1..Len(heap)
        BY <1>0, <2>0, <2>1, PendingRange
      <4>3. acts[i].defers[k] < acts[n].frame
        BY <2>1 DEF Above
      <4>4. Len(heap) \in Nat
        BY <1>0 DEF TypeOK
      <4> QED
        BY <2>9, <4>1, <4>3, <4>4
    <3> QED
      BY <3>1 DEF StillPending
  <2>5. Pending(i)'
    BY <1>0, <2>0, <2>1, <2>2, <2>4, KeptPending
  <2>6. acts[i].base <= Len(stack')
    <3>1. acts[i].base \in Nat /\ acts[n].recv \in Nat
      BY <1>0, <2>0, ActFields DEF TypeOK
    <3>2. acts[i].base < acts[n].recv
      BY <2>1 DEF Above
    <3> QED
      BY <1>0, <3>1, <3>2
  <2> QED
    BY <2>1, <2>2, <2>3, <2>5, <2>6, KeptSlots
<1>2. ASSUME NEW i \in 1..n - 1, NEW j \in i+1..n - 1 PROVE Above(i, j)'
  <2>1. i \in 1..n /\ j \in i + 1..n /\ j \in 1..n - 1
    BY <1>0, <1>2
  <2>2. Above(i, j)
    BY <1>0, <2>1 DEF ActsSound
  <2> QED
    BY <2>1, <2>2 DEF Above
<1>3. ASSUME NEW i \in 1..n - 1
      PROVE  /\ acts'[i].frame = acts[i].frame
             /\ acts[i].frame \in 1..Len(heap)
             /\ ~heap'[acts'[i].frame].isRemoved
  <2>1. i \in 1..n /\ n \in i + 1..n
    BY <1>0, <1>3
  <2>2. ActSound(i) /\ Waiting(i) /\ Above(i, n)
    BY <1>0, <1>3, <2>1 DEF ActsSound
  <2>3. /\ acts[i].frame \in 1..Len(heap) /\ acts[i].frame < acts[n].frame
        /\ acts[n].frame \in Nat /\ ~heap[acts[i].frame].isRemoved
    BY <1>0, <2>2, ActFields DEF ActSound, Above, Waiting, TypeOK
  <2>4. acts[i].frame # acts[n].frame
    BY <2>3
  <2> QED
    BY <1>3, <2>3, <2>4
<1>4. ASSUME NEW i \in 1..n - 1 - 1 PROVE Waiting(i)'
  <2>1. i \in 1..n - 1 /\ i + 1 \in 1..n - 1
    BY <1>0, <1>4
  <2>2. Waiting(i)
    BY <1>0, <2>1 DEF ActsSound
  <2> QED
    BY <1>3, <2>1, <2>2 DEF Waiting
<1>5. ActsSound'
  BY <1>0, <1>1, <1>2, <1>4 DEF ActsSound
<1>6. n - 1 > 0 => ~heap'[acts'[n - 1].frame].isRemoved
  BY <1>0, <1>3
<1>7. BrokenReturns'
  BY <1>0, <1>6 DEF BrokenReturns
<1>8. FramesMatch'
  <2>1. \A i \in 1..n - 1 : callFrames[i] = acts[i].frame
    BY <1>0 DEF FramesMatch
  <2> QED
    BY <1>0, <1>6, <2>1 DEF FramesMatch
<1>9. CurrentFrameRuns'
  <2>1. CASE n = 1
    BY <1>0, <2>1 DEF CurrentFrameRuns, TypeOK
  <2>2. CASE n # 1
    <3>1. n - 1 \in 1..n - 1 /\ n - 1 + 1 = n
      BY <1>0, <2>2
    <3>2. Waiting(n - 1)
      BY <1>0, <3>1 DEF ActsSound
    <3>3. acts[n - 1].phase = "exec" => acts[n].old = acts[n - 1].frame
      BY <3>1, <3>2 DEF Waiting
    <3> QED
      BY <1>0, <3>1, <3>3 DEF CurrentFrameRuns, Top
  <2> QED
    BY <2>1, <2>2
<1> QED
  BY <1>5, <1>7, <1>8, <1>9 DEF IInv

\* Going on in the same frame.
LEMMA StayInv ==
  ASSUME IInv, TypeOK', BrokenReturns', CurrentFrameRuns',
         UNCHANGED <<heap, callFrames>>,
         NEW n \in Nat, n = Len(acts), Len(acts') = n,
         \A i \in 1..n :
           /\ SameAct(i) /\ acts'[i].old = acts[i].old
           /\ acts[i].base <= Len(stack')
           /\ i # n => acts'[i].phase = acts[i].phase
  PROVE  IInv'
<1>0. /\ TypeOK /\ HeapSound /\ ActsSound /\ FramesMatch
      /\ Len(heap) \in Nat /\ n \in Nat
  BY DEF IInv, TypeOK
<1>1. HeapSound' /\ SameFrames
  BY <1>0 DEF HeapSound, FrameSound, SameFrames
<1>2. ASSUME NEW i \in 1..n
      PROVE  ActSound(i)' /\ Pending(i)' /\ Slots(i)'
  <2>1. ActSound(i) /\ Pending(i) /\ Slots(i) /\ SameAct(i)
    BY <1>0, <1>2 DEF ActsSound
  <2>2. ActSound(i)'
    BY <1>0, <1>1, <2>1, KeptAct
  <2>3. StillPending(i)
    BY DEF StillPending
  <2>4. Pending(i)'
    BY <1>0, <1>1, <2>1, <2>3, KeptPending
  <2> QED
    BY <2>1, <2>2, <2>4, KeptSlots
<1>3. ASSUME NEW i \in 1..n, NEW j \in i+1..n PROVE Above(i, j)'
  <2>1. Above(i, j) /\ SameAct(i) /\ SameAct(j)
    BY <1>0, <1>3 DEF ActsSound
  <2> QED
    BY <1>0, <2>1, KeptAbove
<1>4. ASSUME NEW i \in 1..n - 1 PROVE Waiting(i)'
  <2>1. i \in 1..n /\ i + 1 \in 1..n /\ i # n
    BY <1>0, <1>4
  <2>2. Waiting(i)
    BY <1>0, <1>4 DEF ActsSound
  <2> QED
    BY <2>1, <2>2 DEF Waiting, SameAct
<1>5. ActsSound'
  BY <1>0, <1>2, <1>3, <1>4 DEF ActsSound
<1>6. FramesMatch'
  BY <1>0 DEF FramesMatch, SameAct
<1> QED
  BY <1>1, <1>5, <1>6 DEF IInv

\* Two activations that differ at most in what they ran and returned.
SameFields(a, b) ==
  /\ a.frame = b.frame /\ a.kind = b.kind /\ a.via = b.via /\ a.old = b.old
  /\ a.recv = b.recv /\ a.base = b.base
  /\ a.phase = b.phase /\ a.defers = b.defers

\* An activation is such a copy of itself.
LEMMA SameSelf ==
  ASSUME NEW n
  PROVE  \A i \in 1..n : SameFields(acts[i], acts[i])
  BY DEF SameFields

\* evaluate with a frame that was just allocated, from code that is running
\* or from a builtin that runs code.
LEMMA EvaluateInv ==
  ASSUME IInv, panic = NoPanic, UNCHANGED <<errs, panic, outcome>>,
         NEW n \in Nat, n = Len(acts),
         NEW below \in Seq(ActRecord), Len(below) = n,
         NEW a \in ActRecord, NEW frames \in Seq(FrameRecord),
         evaluate(below, a, frames),
         \A f \in Len(heap) + 1..Len(heap') : FrameSound(f)',
         \A i \in 1..n : SameFields(below[i], acts[i]),
         n > 0 => ~heap[acts[n].frame].isRemoved,
         n > 0 => acts[n].phase = "exec",
         a.frame \in Len(heap) + 1..Len(heap'), ~heap'[a.frame].isRemoved,
         heap'[a.frame].kind = (IF a.kind = "normal" THEN "normal" ELSE "go"),
         a.kind \in {"each", "try"} => heap'[a.frame].blockFrame # 0,
         a.kind # "normal" => a.via = "send",
         a.phase = "exec", Len(a.defers) = 0, a.old = currentFrame,
         a.recv \in Len(stack) + 1..a.base + 1,
         a.via \in {"send", "invoke", "init"} => a.recv <= a.base,
         a.base <= Len(stack'),
         stack' \in Seq({Val} \cup Errors), Len(stack') >= Len(stack)
  PROVE  IInv'
<1>0. /\ TypeOK /\ HeapSound /\ ActsSound /\ CurrentFrameRuns
      /\ Len(heap) \in Nat /\ Len(stack) \in Nat /\ Len(stack') \in Nat
  BY DEF IInv, TypeOK
<1>1. /\ acts' \in Seq(ActRecord) /\ Len(acts') = n + 1 /\ acts'[n + 1] = a
      /\ \A i \in 1..n : acts'[i] = below[i]
  <2>1. acts' = Append(below, a)
    BY DEF evaluate
  <2> QED
    BY <2>1, AppendFacts
<1>2. /\ heap' \in Seq(FrameRecord) /\ Len(heap') \in Nat
      /\ Len(heap') >= Len(heap)
      /\ \A f \in 1..Len(heap) : heap'[f] = heap[f]
  <2>1. /\ heap' = heap \o frames /\ heap \in Seq(FrameRecord)
        /\ Len(frames) \in Nat
    BY <1>0 DEF TypeOK, evaluate
  <2>2. heap' \in Seq(FrameRecord)
    BY <2>1, ConcatFacts
  <2>3. Len(heap') = Len(heap) + Len(frames)
    BY <2>1, ConcatFacts
  <2>4. \A f \in 1..Len(heap) : heap'[f] = heap[f]
    BY <2>1, ConcatFacts
  <2> QED
    BY <1>0, <2>1, <2>2, <2>3, <2>4
<1>3. a.frame \in Nat /\ a.base \in Nat /\ a.recv \in Nat
  BY DEF ActRecord
<1>4. TypeOK'
  <2>1. callFrames' \in Seq(Nat) /\ bottom' \in Nat /\ currentFrame' \in Nat
    BY <1>0, <1>3, AppendFacts DEF evaluate, TypeOK
  <2> QED
    BY <1>0, <1>1, <1>2, <2>1 DEF TypeOK
<1>5. SameFrames
  BY <1>2 DEF SameFrames
<1>6. HeapSound'
  BY <1>0, <1>4, <1>5, HeapKept
<1>7. ASSUME NEW i \in 1..n
      PROVE  /\ SameAct(i) /\ Above(i, n + 1)'
             /\ acts'[i].phase = acts[i].phase /\ acts'[i].old = acts[i].old
  <2>1. /\ ActSound(i) /\ Pending(i) /\ Slots(i)
        /\ acts[i].base \in Nat /\ Len(acts[i].defers) \in Nat
    BY <1>0, ActFields DEF ActsSound, TypeOK
  <2>2. /\ acts'[i].frame = acts[i].frame /\ acts'[i].kind = acts[i].kind
        /\ acts'[i].via = acts[i].via /\ acts'[i].old = acts[i].old
        /\ acts'[i].recv = acts[i].recv /\ acts'[i].base = acts[i].base
        /\ acts'[i].phase = acts[i].phase /\ acts'[i].defers = acts[i].defers
    BY <1>1 DEF SameFields
  <2>3. SameAct(i)
    BY <2>1, <2>2 DEF SameAct
  <2>4. /\ acts[i].frame \in 1..Len(heap)
        /\ \A k \in 1..Len(acts[i].defers) : acts[i].defers[k] \in 1..Len(heap)
        /\ acts[i].base <= Len(stack)
    BY <1>0, <2>1, PendingRange DEF ActSound, Slots
  <2>5. acts'[i].frame < a.frame
    BY <1>0, <1>2, <2>2, <2>4
  <2>6. ASSUME NEW k \in 1..Len(acts'[i].defers)
        PROVE  acts'[i].defers[k] < a.frame
    <3>1. acts[i].defers[k] \in 1..Len(heap)
      BY <2>2, <2>4, <2>6
    <3>2. acts[i].defers[k] < a.frame
      BY <1>0, <1>2, <3>1
    <3> QED
      BY <2>2, <3>2
  <2>7. acts'[i].base < a.recv
    BY <1>0, <1>3, <2>1, <2>2, <2>4
  <2>8. Above(i, n + 1)'
    BY <1>1, <2>5, <2>6, <2>7 DEF Above
  <2> QED
    BY <2>2, <2>3, <2>8
<1>8. ActSound(n + 1)'
  <2>1. a.frame \in 1..Len(heap')
    BY <1>0, <1>2
  <2> QED
    BY <1>1, <2>1 DEF ActSound
<1>9. Slots(n + 1)'
  <2>1. a.recv \in 1..a.base + 1
    BY <1>0, <1>3
  <2> QED
    BY <1>1, <2>1 DEF Slots
<1>10. /\ panic' = NoPanic
       /\ n > 0 <=> acts # <<>>
       /\ n > 0 => currentFrame = acts[n].frame
  BY <1>0 DEF CurrentFrameRuns, Top, TypeOK
<1>11. /\ callFrames' = Append(callFrames, acts'[n + 1].frame)
       /\ currentFrame' = acts'[n + 1].frame
  BY <1>1 DEF evaluate
<1>12. \A f \in 1..Len(heap) : heap'[f].isRemoved = heap[f].isRemoved
  BY <1>2
<1> QED
  BY <1>1, <1>4, <1>5, <1>6, <1>7, <1>8, <1>9, <1>10, <1>11, <1>12, EnterInv

-----------------------------------------------------------------------------
(* What the guards of the actions give.                                    *)

\* Code is running: its activation is live and on top.
LEMMA RunningFacts ==
  ASSUME IInv, Running, NEW n \in Nat, n = Len(acts)
  PROVE  /\ n > 0 /\ acts # <<>> /\ n \in 1..n /\ panic = NoPanic
         /\ acts[n].kind = "normal" /\ acts[n].phase = "exec"
         /\ ~heap[acts[n].frame].isRemoved /\ acts[n].frame \in 1..Len(heap)
         /\ acts[n].base \in Nat /\ acts[n].base <= Len(stack)
         /\ Top(acts) = acts[n] /\ currentFrame = acts[n].frame
<1>1. /\ n > 0 /\ acts # <<>> /\ Top(acts) = acts[n] /\ n \in 1..n
      /\ panic = NoPanic /\ acts[n].kind = "normal" /\ acts[n].phase = "exec"
      /\ ~heap[acts[n].frame].stopped
  BY DEF Running, Top, IInv, TypeOK
<1>2. ActSound(n) /\ Slots(n) /\ acts[n].base \in Nat
  BY <1>1, ActFields DEF IInv, ActsSound, TypeOK
<1> QED
  BY <1>1, <1>2 DEF IInv, ActSound, Slots, BrokenReturns, CurrentFrameRuns

\* A builtin is about to yield or to return.
LEMMA BuiltinFacts ==
  ASSUME IInv, NEW kinds \in SUBSET {"each", "try", "require"},
         InBuiltin(kinds), NEW n \in Nat, n = Len(acts)
  PROVE  /\ n > 0 /\ acts # <<>> /\ n \in 1..n /\ panic = NoPanic
         /\ acts[n].kind \in kinds /\ acts[n].kind # "normal"
         /\ acts[n].phase = "exec" /\ acts[n].via = "send"
         /\ ~heap[acts[n].frame].isRemoved /\ acts[n].frame \in 1..Len(heap)
         /\ acts[n].base \in Nat /\ acts[n].base <= Len(stack)
         /\ Top(acts) = acts[n] /\ currentFrame = acts[n].frame
<1>1. /\ n > 0 /\ acts # <<>> /\ Top(acts) = acts[n] /\ n \in 1..n
      /\ panic = NoPanic /\ acts[n].kind \in kinds /\ acts[n].kind # "normal"
  BY DEF InBuiltin, Top, IInv, TypeOK
<1>2. ActSound(n) /\ Slots(n) /\ acts[n].base \in Nat
  BY <1>1, ActFields DEF IInv, ActsSound, TypeOK
<1> QED
  BY <1>1, <1>2 DEF IInv, ActSound, Slots, BrokenReturns, CurrentFrameRuns

-----------------------------------------------------------------------------
(* The operations that enter a frame.                                      *)

\* The frame of a Send without a block literal.
LEMMA EnterOne ==
  ASSUME IInv, panic = NoPanic, UNCHANGED <<errs, panic, outcome>>,
         NEW n \in Nat, n = Len(acts), NEW below \in Seq(ActRecord),
         Len(below) = n,
         \A i \in 1..n : SameFields(below[i], acts[i]),
         n > 0 => ~heap[acts[n].frame].isRemoved /\ acts[n].phase = "exec",
         NEW kind \in ActKinds, NEW via \in Vias, NEW recv \in Nat,
         NEW base \in Nat, kind # "normal" => via = "send",
         kind \notin {"each", "try"},
         NEW F \in FrameRecord, ~F.isRemoved,
         F.kind = (IF kind = "normal" THEN "normal" ELSE "go"),
         F.blockFrame # 0 =>
           /\ F.blockFrame \in 1..Len(heap)
           /\ heap[F.blockFrame].kind = "literal",
         F.ep \in 0..Len(heap),
         evaluate(below, Act(kind, via, Fresh, recv, base), <<F>>),
         recv \in Len(stack) + 1..base + 1,
         via \in {"send", "invoke", "init"} => recv <= base,
         base <= Len(stack'),
         stack' \in Seq({Val} \cup Errors), Len(stack') >= Len(stack)
  PROVE  IInv'
<1> DEFINE a == Act(kind, via, Fresh, recv, base)
<1>0. TypeOK /\ Len(heap) \in Nat /\ Fresh = Len(heap) + 1 /\ Fresh \in Nat
  BY DEF IInv, TypeOK, Fresh
<1>1. /\ a \in ActRecord /\ a.kind = kind /\ a.via = via /\ a.frame = Fresh
      /\ a.old = currentFrame /\ a.recv = recv /\ a.base = base
      /\ a.phase = "exec" /\ a.defers = <<>>
  <2>1. currentFrame \in Nat /\ NoPanic \in PanicValue
    BY <1>0 DEF TypeOK, NoPanic, PanicValue
  <2> QED
    BY <1>0, <2>1 DEF Act, ActRecord
<1>2. /\ Len(heap') = Len(heap) + 1 /\ heap'[Len(heap) + 1] = F
      /\ \A f \in 1..Len(heap) : heap'[f] = heap[f]
  <2>1. heap' = heap \o <<F>>
    BY DEF evaluate
  <2> QED
    BY <1>0, <2>1, AllocOne
<1> HIDE DEF a
<1>3. ASSUME NEW f \in Len(heap) + 1..Len(heap') PROVE FrameSound(f)'
  <2>1. f = Len(heap) + 1 /\ heap'[f] = F /\ F.kind # "literal"
    BY <1>0, <1>2, <1>3
  <2>2. F.blockFrame # 0 => /\ F.blockFrame \in 1..Len(heap')
                            /\ heap'[F.blockFrame].kind = "literal"
    BY <1>0, <1>2
  <2>3. F.ep \in 0..Len(heap')
    BY <1>0, <1>2
  <2> QED
    BY <2>1, <2>2, <2>3 DEF FrameSound
<1>4. evaluate(below, a, <<F>>) /\ <<F>> \in Seq(FrameRecord)
  BY DEF a
<1>5. Fresh \in Len(heap) + 1..Len(heap') /\ heap'[Fresh] = F
  BY <1>0, <1>2
<1>6. Len(a.defers) = 0
  BY <1>1
<1> QED
  BY <1>1, <1>3, <1>4, <1>5, <1>6, EvaluateInv

\* The frames of a Send with a block literal, and of `new`.
LEMMA EnterTwo ==
  ASSUME IInv, panic = NoPanic, UNCHANGED <<errs, panic, outcome>>,
         NEW n \in Nat, n = Len(acts), n > 0,
         ~heap[acts[n].frame].isRemoved, acts[n].phase = "exec",
         NEW kind \in ActKinds, NEW via \in Vias, NEW recv \in Nat,
         NEW base \in Nat, kind # "normal" => via = "send",
         NEW F \in FrameRecord, F.blockFrame = 0, F.ep \in 0..Len(heap),
         F.kind = "literal" => F.ep # 0,
         NEW G \in FrameRecord, ~G.isRemoved,
         G.kind = (IF kind = "normal" THEN "normal" ELSE "go"), G.ep = 0,
         G.blockFrame # 0 => G.blockFrame = Fresh /\ F.kind = "literal",
         kind \in {"each", "try"} => G.blockFrame # 0,
         evaluate(acts, Act(kind, via, Len(heap) + 2, recv, base), <<F, G>>),
         recv \in Len(stack) + 1..base + 1,
         via \in {"send", "invoke", "init"} => recv <= base,
         base <= Len(stack'),
         stack' \in Seq({Val} \cup Errors), Len(stack') >= Len(stack)
  PROVE  IInv'
<1> DEFINE a == Act(kind, via, Len(heap) + 2, recv, base)
<1>0. /\ TypeOK /\ Len(heap) \in Nat /\ Fresh = Len(heap) + 1
      /\ acts \in Seq(ActRecord) /\ Len(heap) + 2 \in Nat
  BY DEF IInv, TypeOK, Fresh
<1>1. /\ a \in ActRecord /\ a.kind = kind /\ a.via = via
      /\ a.frame = Len(heap) + 2
      /\ a.old = currentFrame /\ a.recv = recv /\ a.base = base
      /\ a.phase = "exec" /\ a.defers = <<>>
  <2>1. currentFrame \in Nat /\ NoPanic \in PanicValue
    BY <1>0 DEF TypeOK, NoPanic, PanicValue
  <2> QED
    BY <1>0, <2>1 DEF Act, ActRecord
<1>2. /\ Len(heap') = Len(heap) + 2
      /\ heap'[Len(heap) + 1] = F /\ heap'[Len(heap) + 2] = G
      /\ \A f \in 1..Len(heap) : heap'[f] = heap[f]
  <2>1. heap' = heap \o <<F, G>>
    BY DEF evaluate
  <2> QED
    BY <1>0, <2>1, AllocTwo
<1>3. evaluate(acts, a, <<F, G>>) /\ <<F, G>> \in Seq(FrameRecord)
  BY DEF a
<1> HIDE DEF a
<1>4. ASSUME NEW f \in Len(heap) + 1..Len(heap') PROVE FrameSound(f)'
  <2>1. CASE f = Len(heap) + 1
    <3>1. heap'[f] = F /\ F.ep \in 0..Len(heap')
      BY <1>0, <1>2, <2>1
    <3> QED
      BY <3>1 DEF FrameSound
  <2>2. CASE f = Len(heap) + 2
    <3>1. heap'[f] = G /\ G.kind # "literal" /\ 0 \in 0..Len(heap')
      BY <1>0, <1>2, <2>2
    <3>2. G.blockFrame # 0 => /\ G.blockFrame \in 1..Len(heap')
                              /\ heap'[G.blockFrame].kind = "literal"
      BY <1>0, <1>2
    <3> QED
      BY <3>1, <3>2 DEF FrameSound
  <2> QED
    BY <1>0, <1>2, <1>4, <2>1, <2>2
<1>5. /\ a.frame \in Len(heap) + 1..Len(heap') /\ heap'[a.frame] = G
      /\ Len(a.defers) = 0
  BY <1>0, <1>1, <1>2
<1> QED
  BY <1>0, <1>1, <1>3, <1>4, <1>5, SameSelf, EvaluateInv

\* Pushing one or two values leaves the slots below alone.
LEMMA PushFacts ==
  ASSUME TypeOK, NEW v \in {Val} \cup Errors, NEW w \in {Val} \cup Errors
  PROVE  /\ Append(stack, v) \in Seq({Val} \cup Errors)
         /\ Len(Append(stack, v)) = Len(stack) + 1
         /\ stack \o <<v, w>> \in Seq({Val} \cup Errors)
         /\ Len(stack \o <<v, w>>) = Len(stack) + 2
         /\ Len(stack) \in Nat
  BY DEF TypeOK

\* The program starts: ExecInstructions on the empty thread.
LEMMA ProgramInv ==
  ASSUME IInv, ExecInstructions
  PROVE  IInv'
<1> DEFINE F == Frame("normal", FALSE, 0, 0)
<1>1. PICK n \in Nat : n = Len(acts)
  BY DEF IInv, TypeOK
<1>2. /\ TypeOK /\ n = 0 /\ acts \in Seq(ActRecord) /\ panic = NoPanic
      /\ Len(stack) \in Nat /\ Len(heap) \in Nat
      /\ stack \in Seq({Val} \cup Errors)
  BY <1>1 DEF ExecInstructions, IInv, TypeOK
<1>3. PICK recv \in Nat, base \in Nat : recv = Len(stack) + 1 /\ base = Len(stack)
  BY <1>2
<1>4. /\ F \in FrameRecord /\ ~F.isRemoved /\ F.kind = "normal"
      /\ F.blockFrame = 0 /\ F.ep = 0 /\ 0 \in 0..Len(heap)
  BY <1>2 DEF Frame, FrameRecord, FrameKinds
<1>5. /\ evaluate(acts, Act("normal", "program", Fresh, recv, base), <<F>>)
      /\ UNCHANGED <<errs, panic, outcome>> /\ stack' = stack
  BY <1>3 DEF ExecInstructions
<1>6. recv \in Len(stack) + 1..base + 1 /\ base <= Len(stack')
  BY <1>2, <1>3, <1>5
<1> HIDE DEF F
<1>7. /\ ~(n > 0) /\ "normal" \in ActKinds /\ "program" \in Vias
      /\ stack' \in Seq({Val} \cup Errors) /\ Len(stack') >= Len(stack)
  BY <1>2, <1>5 DEF ActKinds, Vias
<1> QED
  BY <1>1, <1>2, <1>4, <1>5, <1>6, <1>7, SameSelf, EnterOne

\* A method written in Lito is called, with or without a block.
LEMMA CallMethodInv ==
  ASSUME IInv, CallMethod
  PROVE  IInv'
<1>1. PICK n \in Nat : n = Len(acts)
  BY DEF IInv, TypeOK
<1>2. Running
  BY DEF CallMethod
<1>3. /\ TypeOK /\ acts \in Seq(ActRecord) /\ Len(stack) \in Nat
      /\ Len(heap) \in Nat /\ UNCHANGED <<errs, panic, outcome>>
  BY DEF CallMethod, IInv, TypeOK
<1>4. PICK withBlock \in BOOLEAN, arg \in Values :
        LET frames == Callee("normal", withBlock)
            recv == Len(stack) + 1
        IN /\ evaluate(acts, Act("normal", "send", Len(heap) + Len(frames),
                                 recv, recv + 1), frames)
           /\ stack' = stack \o <<Val, arg>>
  BY DEF CallMethod
<1>5. PICK recv \in Nat, base \in Nat : recv = Len(stack) + 1 /\ base = recv + 1
  BY <1>3
<1>6. stack' \in Seq({Val} \cup Errors) /\ Len(stack') = Len(stack) + 2
  <2>1. arg \in {Val} \cup Errors /\ Val \in {Val} \cup Errors
    BY DEF Values
  <2>2. stack' = stack \o <<Val, arg>>
    BY <1>4
  <2> QED
    BY <1>3, <2>1, <2>2, PushFacts
<1>7. /\ Len(stack') >= Len(stack) /\ base <= Len(stack')
      /\ recv \in Len(stack) + 1..base + 1 /\ recv <= base
  BY <1>3, <1>5, <1>6
<1>8. /\ n > 0 /\ panic = NoPanic /\ acts[n].phase = "exec"
      /\ ~heap[acts[n].frame].isRemoved
  BY <1>1, <1>2, RunningFacts
<1>9. "normal" \in ActKinds /\ "send" \in Vias
  BY DEF ActKinds, Vias
<1>10. CASE withBlock
  <2>1. PICK ep \in 1..Len(heap) : ep = Top(acts).frame
    BY <1>1, <1>2, <1>3, RunningFacts
  <2> DEFINE F == Frame("literal", TRUE, 0, ep)
             G == Frame("normal", FALSE, Fresh, 0)
  <2>2. /\ F \in FrameRecord /\ F.kind = "literal"
        /\ F.blockFrame = 0 /\ F.ep = ep /\ ep \in 0..Len(heap) /\ ep # 0
    BY <1>3, <2>1 DEF Frame, FrameRecord, FrameKinds
  <2>3. /\ G \in FrameRecord /\ ~G.isRemoved /\ G.kind = "normal"
        /\ G.blockFrame = Fresh /\ G.ep = 0
    BY <1>3 DEF Frame, FrameRecord, FrameKinds, Fresh
  <2>4. Callee("normal", withBlock) = <<F, G>>
    BY <1>10, <2>1 DEF Callee
  <2> HIDE DEF F, G
  <2>5. evaluate(acts, Act("normal", "send", Len(heap) + 2, recv, base), <<F, G>>)
    BY <1>4, <1>5, <2>4
  <2> QED
    BY <1>1, <1>3, <1>6, <1>7, <1>8, <1>9, <2>2, <2>3, <2>5, EnterTwo
<1>11. CASE ~withBlock
  <2> DEFINE F == Frame("normal", FALSE, 0, 0)
  <2>1. /\ F \in FrameRecord /\ ~F.isRemoved /\ F.kind = "normal"
        /\ F.blockFrame = 0 /\ F.ep = 0 /\ 0 \in 0..Len(heap)
    BY <1>3 DEF Frame, FrameRecord, FrameKinds
  <2>2. Callee("normal", withBlock) = <<F>>
    BY <1>11 DEF Callee
  <2> HIDE DEF F
  <2>3. evaluate(acts, Act("normal", "send", Fresh, recv, base), <<F>>)
    BY <1>4, <1>5, <2>2 DEF Fresh
  <2> QED
    BY <1>1, <1>3, <1>6, <1>7, <1>8, <1>9, <1>11, <2>1, <2>3,
       SameSelf, EnterOne
<1> QED
  BY <1>10, <1>11

\* A builtin that runs code is called.
LEMMA CallBuiltinInv ==
  ASSUME IInv, NEW kind \in {"each", "try", "require"}, CallBuiltin(kind)
  PROVE  IInv'
<1>1. PICK n \in Nat : n = Len(acts)
  BY DEF IInv, TypeOK
<1>2. Running
  BY DEF CallBuiltin
<1>3. /\ TypeOK /\ acts \in Seq(ActRecord) /\ Len(stack) \in Nat
      /\ Len(heap) \in Nat /\ UNCHANGED <<errs, panic, outcome>>
      /\ kind \in ActKinds /\ kind # "normal" /\ "send" \in Vias
  BY DEF CallBuiltin, IInv, TypeOK, ActKinds, Vias
<1>4. LET frames == Callee("go", kind # "require")
          recv == Len(stack) + 1
      IN /\ evaluate(acts, Act(kind, "send", Len(heap) + Len(frames), recv, recv),
                     frames)
         /\ stack' = Append(stack, Val)
  BY DEF CallBuiltin
<1>5. PICK recv \in Nat : recv = Len(stack) + 1
  BY <1>3
<1>6. stack' \in Seq({Val} \cup Errors) /\ Len(stack') = Len(stack) + 1
  BY <1>3, <1>4, PushFacts
<1>7. /\ Len(stack') >= Len(stack) /\ recv <= Len(stack')
      /\ recv \in Len(stack) + 1..recv + 1 /\ recv <= recv
  BY <1>3, <1>5, <1>6
<1>8. /\ n > 0 /\ panic = NoPanic /\ acts[n].phase = "exec"
      /\ ~heap[acts[n].frame].isRemoved
  BY <1>1, <1>2, RunningFacts
<1>9. CASE kind # "require"
  <2>1. PICK ep \in 1..Len(heap) : ep = Top(acts).frame
    BY <1>1, <1>2, <1>3, RunningFacts
  <2> DEFINE F == Frame("literal", TRUE, 0, ep)
             G == Frame("go", FALSE, Fresh, 0)
  <2>2. /\ F \in FrameRecord /\ F.kind = "literal"
        /\ F.blockFrame = 0 /\ F.ep = ep /\ ep \in 0..Len(heap) /\ ep # 0
    BY <1>3, <2>1 DEF Frame, FrameRecord, FrameKinds
  <2>3. /\ G \in FrameRecord /\ ~G.isRemoved /\ G.kind = "go"
        /\ G.blockFrame = Fresh /\ G.ep = 0 /\ G.blockFrame # 0
    BY <1>3 DEF Frame, FrameRecord, FrameKinds, Fresh
  <2>4. Callee("go", kind # "require") = <<F, G>>
    BY <1>9, <2>1 DEF Callee
  <2> HIDE DEF F, G
  <2>5. evaluate(acts, Act(kind, "send", Len(heap) + 2, recv, recv), <<F, G>>)
    BY <1>4, <1>5, <2>4
  <2> QED
    BY <1>1, <1>3, <1>6, <1>7, <1>8, <2>2, <2>3, <2>5, EnterTwo
<1>10. CASE kind = "require"
  <2> DEFINE F == Frame("go", FALSE, 0, 0)
  <2>1. /\ F \in FrameRecord /\ ~F.isRemoved /\ F.kind = "go"
        /\ F.blockFrame = 0 /\ F.ep = 0 /\ 0 \in 0..Len(heap)
    BY <1>3 DEF Frame, FrameRecord, FrameKinds
  <2>2. Callee("go", kind # "require") = <<F>>
    BY <1>10 DEF Callee
  <2> HIDE DEF F
  <2>3. evaluate(acts, Act(kind, "send", Fresh, recv, recv), <<F>>)
    BY <1>4, <1>5, <2>2 DEF Fresh
  <2> QED
    BY <1>1, <1>3, <1>6, <1>7, <1>8, <1>10, <2>1, <2>3, SameSelf, EnterOne
<1> QED
  BY <1>9, <1>10

\* new calls init on the instance it pushed.
LEMMA CallNewInv ==
  ASSUME IInv, CallNew
  PROVE  IInv'
<1> DEFINE F == Frame("go", FALSE, 0, 0)
           G == Frame("normal", FALSE, 0, 0)
<1>1. PICK n \in Nat : n = Len(acts)
  BY DEF IInv, TypeOK
<1>2. Running
  BY DEF CallNew
<1>3. /\ TypeOK /\ acts \in Seq(ActRecord) /\ Len(stack) \in Nat
      /\ Len(heap) \in Nat /\ UNCHANGED <<errs, panic, outcome>>
  BY DEF CallNew, IInv, TypeOK
<1>4. PICK recv \in Nat, base \in Nat : recv = Len(stack) + 1 /\ base = recv + 1
  BY <1>3
<1>5. /\ evaluate(acts, Act("normal", "init", Len(heap) + 2, recv, base), <<F, G>>)
      /\ stack' = stack \o <<Val, Val>>
  BY <1>4 DEF CallNew
<1>6. stack' \in Seq({Val} \cup Errors) /\ Len(stack') = Len(stack) + 2
  BY <1>3, <1>5, PushFacts
<1>7. /\ Len(stack') >= Len(stack) /\ base <= Len(stack')
      /\ recv \in Len(stack) + 1..base + 1 /\ recv <= base
  BY <1>3, <1>4, <1>6
<1>8. /\ F \in FrameRecord /\ F.kind = "go" /\ F.blockFrame = 0
      /\ F.ep = 0 /\ 0 \in 0..Len(heap)
      /\ G \in FrameRecord /\ ~G.isRemoved /\ G.kind = "normal"
      /\ G.blockFrame = 0 /\ G.ep = 0
  BY <1>3 DEF Frame, FrameRecord, FrameKinds
<1> HIDE DEF F, G
<1>9. /\ n > 0 /\ panic = NoPanic /\ acts[n].phase = "exec"
      /\ ~heap[acts[n].frame].isRemoved
  BY <1>1, <1>2, RunningFacts
<1>10. "normal" \in ActKinds /\ "init" \in Vias
  BY DEF ActKinds, Vias
<1> QED
  BY <1>1, <1>3, <1>5, <1>6, <1>7, <1>8, <1>9, <1>10, EnterTwo

\* The body of a class is evaluated.
LEMMA DefClassInv ==
  ASSUME IInv, DefClass
  PROVE  IInv'
<1> DEFINE F == Frame("normal", FALSE, 0, 0)
<1>1. PICK n \in Nat : n = Len(acts)
  BY DEF IInv, TypeOK
<1>2. Running
  BY DEF DefClass
<1>3. /\ TypeOK /\ acts \in Seq(ActRecord) /\ Len(stack) \in Nat
      /\ Len(heap) \in Nat /\ UNCHANGED <<errs, panic, outcome>>
      /\ stack' = stack /\ stack \in Seq({Val} \cup Errors)
  BY DEF DefClass, IInv, TypeOK
<1>4. PICK recv \in Nat, base \in Nat : recv = Len(stack) + 1 /\ base = Len(stack)
  BY <1>3
<1>5. evaluate(acts, Act("normal", "class", Fresh, recv, base), <<F>>)
  BY <1>4 DEF DefClass
<1>6. recv \in Len(stack) + 1..base + 1 /\ base <= Len(stack')
  BY <1>3, <1>4
<1>7. /\ F \in FrameRecord /\ ~F.isRemoved /\ F.kind = "normal"
      /\ F.blockFrame = 0 /\ F.ep = 0 /\ 0 \in 0..Len(heap)
  BY <1>3 DEF Frame, FrameRecord, FrameKinds
<1> HIDE DEF F
<1>8. /\ n > 0 /\ panic = NoPanic /\ acts[n].phase = "exec"
      /\ ~heap[acts[n].frame].isRemoved /\ Len(stack') >= Len(stack)
      /\ stack' \in Seq({Val} \cup Errors)
  BY <1>1, <1>2, <1>3, RunningFacts
<1>9. "normal" \in ActKinds /\ "class" \in Vias
  BY DEF ActKinds, Vias
<1> QED
  BY <1>1, <1>3, <1>5, <1>6, <1>7, <1>8, <1>9, SameSelf, EnterOne

\* yield runs the block of the frame or of the enclosing method.
LEMMA InvokeBlockInv ==
  ASSUME IInv, InvokeBlock
  PROVE  IInv'
<1>1. PICK n \in Nat : n = Len(acts)
  BY DEF IInv, TypeOK
<1>2. Running
  BY DEF InvokeBlock
<1>3. /\ TypeOK /\ acts \in Seq(ActRecord) /\ Len(stack) \in Nat
      /\ Len(heap) \in Nat /\ UNCHANGED <<errs, panic, outcome>>
      /\ heap \in Seq(FrameRecord) /\ HeapSound
  BY DEF InvokeBlock, IInv, TypeOK
<1>4. PICK f \in 1..Len(heap) : f = Top(acts).frame
  BY <1>1, <1>2, <1>3, RunningFacts
<1>5. PICK blk : blk = InvokedBlock(f)
  OBVIOUS
<1>6. PICK recv \in Nat : recv = Len(stack) + 1
  BY <1>3
<1>7. /\ blk # 0
      /\ evaluate(acts, Act("normal", "invoke", Fresh, recv, recv),
                  <<Frame("normal", TRUE, blk, heap[blk].ep)>>)
      /\ stack' = Append(stack, Val)
  BY <1>4, <1>5, <1>6 DEF InvokeBlock
<1>8. blk \in 1..Len(heap) /\ heap[blk].kind = "literal"
  <2>1. /\ heap[f].blockFrame \in 1..Len(heap)
        /\ heap[heap[f].blockFrame].kind = "literal"
    BY <1>3, <1>5, <1>7 DEF HeapSound, FrameSound, InvokedBlock
  <2>2. CASE blk = heap[f].blockFrame
    BY <2>1, <2>2
  <2>3. CASE blk # heap[f].blockFrame
    <3>1. /\ heap[heap[f].blockFrame].ep = heap[f].ep
          /\ blk = heap[heap[f].ep].blockFrame
      BY <1>5, <2>1, <2>3 DEF InvokedBlock
    <3>2. heap[f].ep \in 1..Len(heap)
      BY <1>3, <2>1, <3>1 DEF HeapSound, FrameSound
    <3> QED
      BY <1>3, <1>7, <3>1, <3>2 DEF HeapSound, FrameSound
  <2> QED
    BY <2>2, <2>3
<1>9. stack' \in Seq({Val} \cup Errors) /\ Len(stack') = Len(stack) + 1
  BY <1>3, <1>7, PushFacts
<1>10. /\ Len(stack') >= Len(stack) /\ recv <= Len(stack')
       /\ recv \in Len(stack) + 1..recv + 1 /\ recv <= recv
  BY <1>3, <1>6, <1>9
<1> DEFINE F == Frame("normal", TRUE, blk, heap[blk].ep)
<1>11. /\ F \in FrameRecord /\ ~F.isRemoved /\ F.kind = "normal"
       /\ F.blockFrame \in 1..Len(heap)
       /\ heap[F.blockFrame].kind = "literal" /\ F.ep \in 0..Len(heap)
  <2>1. heap[blk].ep \in 0..Len(heap) /\ heap[blk].ep \in Nat /\ blk \in Nat
    BY <1>3, <1>8 DEF HeapSound, FrameSound
  <2> QED
    BY <1>8, <2>1 DEF Frame, FrameRecord, FrameKinds
<1>12. evaluate(acts, Act("normal", "invoke", Fresh, recv, recv), <<F>>)
  BY <1>7
<1> HIDE DEF F
<1>13. /\ n > 0 /\ panic = NoPanic /\ acts[n].phase = "exec"
       /\ ~heap[acts[n].frame].isRemoved
  BY <1>1, <1>2, RunningFacts
<1>14. "normal" \in ActKinds /\ "invoke" \in Vias
  BY DEF ActKinds, Vias
<1> QED
  BY <1>1, <1>3, <1>9, <1>10, <1>11, <1>12, <1>13, <1>14,
     SameSelf, EnterOne

\* A builtin notes that it ran its block or file.
LEMMA RanRecord ==
  ASSUME NEW a \in ActRecord, NEW b, b = [a EXCEPT !.ran = TRUE]
  PROVE  b \in ActRecord /\ SameFields(b, a)
<1>1. /\ b \in ActRecord
      /\ b.frame = a.frame /\ b.kind = a.kind /\ b.via = a.via
      /\ b.old = a.old /\ b.recv = a.recv /\ b.base = a.base
      /\ b.phase = a.phase /\ b.defers = a.defers
  BY DEF ActRecord
<1> QED
  BY <1>1 DEF SameFields

\* Noting that does not touch what the other activations are.
LEMMA RanFacts ==
  ASSUME TypeOK, NEW n \in Nat, n = Len(acts), n > 0,
         NEW b \in ActRecord, SameFields(b, acts[n]),
         NEW below, below = [acts EXCEPT ![n] = b]
  PROVE  /\ below \in Seq(ActRecord) /\ Len(below) = n
         /\ \A i \in 1..n : SameFields(below[i], acts[i])
<1>1. acts \in Seq(ActRecord) /\ acts # <<>>
  BY DEF TypeOK
<1>2. /\ below \in Seq(ActRecord) /\ Len(below) = n /\ below[n] = b
      /\ \A i \in 1..n - 1 : below[i] = acts[i]
  BY <1>1, SetTopFacts
<1>3. ASSUME NEW i \in 1..n PROVE SameFields(below[i], acts[i])
  <2>1. CASE i = n
    BY <1>2, <2>1
  <2>2. CASE i \in 1..n - 1
    BY <1>2, <2>2 DEF SameFields
  <2> QED
    BY <2>1, <2>2
<1> QED
  BY <1>2, <1>3

\* A builtin yields to its block.
LEMMA YieldInv ==
  ASSUME IInv, Yield
  PROVE  IInv'
<1>1. PICK n \in Nat : n = Len(acts)
  BY DEF IInv, TypeOK
<1>2. InBuiltin({"each", "try"})
  BY DEF Yield
<1>3. /\ TypeOK /\ acts \in Seq(ActRecord) /\ Len(stack) \in Nat
      /\ Len(heap) \in Nat /\ UNCHANGED <<errs, panic, outcome>>
      /\ stack' = stack /\ stack \in Seq({Val} \cup Errors)
      /\ HeapSound /\ ActsSound
  BY DEF Yield, IInv, TypeOK
<1>4. /\ n > 0 /\ n \in 1..n /\ panic = NoPanic /\ acts[n].phase = "exec"
      /\ ~heap[acts[n].frame].isRemoved /\ acts[n].kind \in {"each", "try"}
      /\ Top(acts) = acts[n] /\ acts # <<>> /\ acts[n].frame \in 1..Len(heap)
  BY <1>1, <1>2, BuiltinFacts
<1>5. PICK blk : blk = heap[acts[n].frame].blockFrame
  OBVIOUS
<1>6. blk \in 1..Len(heap) /\ heap[blk].kind = "literal"
  <2>1. ActSound(n) /\ FrameSound(acts[n].frame)
    BY <1>1, <1>3, <1>4 DEF ActsSound, HeapSound
  <2> QED
    BY <1>4, <1>5, <2>1 DEF ActSound, FrameSound
<1>7. PICK recv \in Nat, base \in Nat : recv = Len(stack) + 1 /\ base = Len(stack)
  BY <1>3
<1>8. PICK b : b = [acts[n] EXCEPT !.ran = TRUE]
  OBVIOUS
<1>14. PICK below : below = [acts EXCEPT ![n] = b]
  OBVIOUS
<1> DEFINE F == Frame("normal", TRUE, blk, heap[blk].ep)
<1>9. evaluate(below, Act("normal", "yield", Fresh, recv, base), <<F>>)
  BY <1>1, <1>4, <1>5, <1>7, <1>8, <1>14 DEF Yield
<1>10. /\ F \in FrameRecord /\ ~F.isRemoved /\ F.kind = "normal"
       /\ F.blockFrame \in 1..Len(heap)
       /\ heap[F.blockFrame].kind = "literal" /\ F.ep \in 0..Len(heap)
  <2>1. heap[blk].ep \in 0..Len(heap) /\ heap[blk].ep \in Nat /\ blk \in Nat
    BY <1>3, <1>6 DEF HeapSound, FrameSound
  <2> QED
    BY <1>6, <2>1 DEF Frame, FrameRecord, FrameKinds
<1> HIDE DEF F
<1>11. /\ below \in Seq(ActRecord) /\ Len(below) = n
       /\ \A i \in 1..n : SameFields(below[i], acts[i])
  <2>1. acts[n] \in ActRecord
    BY <1>1, <1>3, <1>4
  <2>2. b \in ActRecord /\ SameFields(b, acts[n])
    BY <1>8, <2>1, RanRecord
  <2> QED
    BY <1>1, <1>3, <1>4, <1>14, <2>2, RanFacts
<1>12. /\ recv \in Len(stack) + 1..base + 1 /\ base <= Len(stack')
       /\ Len(stack') >= Len(stack) /\ stack' \in Seq({Val} \cup Errors)
  BY <1>3, <1>7
<1>13. "normal" \in ActKinds /\ "yield" \in Vias
  BY DEF ActKinds, Vias
<1> QED
  BY <1>1, <1>3, <1>4, <1>9, <1>10, <1>11, <1>12, <1>13, EnterOne

\* require runs the program of the file.
LEMMA RunFileInv ==
  ASSUME IInv, RunFile
  PROVE  IInv'
<1>1. PICK n \in Nat : n = Len(acts)
  BY DEF IInv, TypeOK
<1>2. InBuiltin({"require"})
  BY DEF RunFile
<1>3. /\ TypeOK /\ acts \in Seq(ActRecord) /\ Len(stack) \in Nat
      /\ Len(heap) \in Nat /\ UNCHANGED <<errs, panic, outcome>>
      /\ stack' = stack /\ stack \in Seq({Val} \cup Errors)
  BY DEF RunFile, IInv, TypeOK
<1>4. /\ n > 0 /\ n \in 1..n /\ panic = NoPanic /\ acts[n].phase = "exec"
      /\ ~heap[acts[n].frame].isRemoved /\ acts # <<>>
  BY <1>1, <1>2, BuiltinFacts
<1>5. PICK recv \in Nat, base \in Nat : recv = Len(stack) + 1 /\ base = Len(stack)
  BY <1>3
<1>6. PICK b : b = [acts[n] EXCEPT !.ran = TRUE]
  OBVIOUS
<1>12. PICK below : below = [acts EXCEPT ![n] = b]
  OBVIOUS
<1> DEFINE F == Frame("normal", FALSE, 0, 0)
<1>7. evaluate(below, Act("normal", "program", Fresh, recv, base), <<F>>)
  BY <1>1, <1>5, <1>6, <1>12 DEF RunFile
<1>8. /\ F \in FrameRecord /\ ~F.isRemoved /\ F.kind = "normal"
      /\ F.blockFrame = 0 /\ F.ep = 0 /\ 0 \in 0..Len(heap)
  BY <1>3 DEF Frame, FrameRecord, FrameKinds
<1> HIDE DEF F
<1>9. /\ below \in Seq(ActRecord) /\ Len(below) = n
      /\ \A i \in 1..n : SameFields(below[i], acts[i])
  <2>1. acts[n] \in ActRecord
    BY <1>1, <1>3, <1>4
  <2>2. b \in ActRecord /\ SameFields(b, acts[n])
    BY <1>6, <2>1, RanRecord
  <2> QED
    BY <1>1, <1>3, <1>4, <1>12, <2>2, RanFacts
<1>10. /\ recv \in Len(stack) + 1..base + 1 /\ base <= Len(stack')
       /\ Len(stack') >= Len(stack) /\ stack' \in Seq({Val} \cup Errors)
  BY <1>3, <1>5
<1>11. "normal" \in ActKinds /\ "program" \in Vias
  BY DEF ActKinds, Vias
<1> QED
  BY <1>1, <1>3, <1>4, <1>7, <1>8, <1>9, <1>10, <1>11, EnterOne

-----------------------------------------------------------------------------
(* The operations that leave a frame.                                      *)

\* Popping what is on top of both stacks.
LEMMA PopBoth ==
  ASSUME TypeOK, FramesMatch, NEW n \in Nat, n = Len(acts), n > 0,
         ~heap[acts[n].frame].isRemoved
  PROVE  /\ acts # <<>> /\ callFrames # <<>> /\ n \in 1..n
         /\ Top(acts) = acts[n] /\ Top(callFrames) = acts[n].frame
         /\ Pop(acts) \in Seq(ActRecord) /\ Len(Pop(acts)) = n - 1
         /\ \A i \in 1..n - 1 : Pop(acts)[i] = acts[i]
         /\ Pop(callFrames) \in Seq(Nat) /\ Len(Pop(callFrames)) = n - 1
         /\ \A i \in 1..n - 1 : Pop(callFrames)[i] = callFrames[i]
<1>1. /\ acts \in Seq(ActRecord) /\ acts # <<>> /\ callFrames \in Seq(Nat)
  BY DEF TypeOK
<1>2. /\ Len(callFrames) = n /\ callFrames[n] = acts[n].frame
      /\ callFrames # <<>> /\ n \in 1..n
  BY <1>1 DEF FramesMatch
<1>3. Top(acts) = acts[n] /\ Top(callFrames) = acts[n].frame
  BY <1>2 DEF Top
<1> QED
  BY <1>1, <1>2, <1>3, PopFacts

\* Changing the flags of one frame.
LEMMA SetFrame ==
  ASSUME TypeOK, NEW f \in 1..Len(heap), NEW F \in FrameRecord,
         F.kind = heap[f].kind, F.blockFrame = heap[f].blockFrame,
         F.ep = heap[f].ep, heap' = [heap EXCEPT ![f] = F]
  PROVE  /\ heap' \in Seq(FrameRecord) /\ Len(heap') = Len(heap)
         /\ heap'[f] = F /\ SameFrames
         /\ \A g \in 1..Len(heap) : g # f => heap'[g] = heap[g]
<1>1. heap \in Seq(FrameRecord) /\ Len(heap) \in Nat
  BY DEF TypeOK
<1>2. /\ heap' \in Seq(FrameRecord) /\ Len(heap') = Len(heap) /\ heap'[f] = F
      /\ \A g \in 1..Len(heap) : g # f => heap'[g] = heap[g]
  BY <1>1
<1>3. ASSUME NEW g \in 1..Len(heap)
      PROVE  /\ heap'[g].kind = heap[g].kind
             /\ heap'[g].blockFrame = heap[g].blockFrame
             /\ heap'[g].ep = heap[g].ep
  <2>1. CASE g = f
    BY <1>2, <2>1
  <2>2. CASE g # f
    BY <1>2, <2>2
  <2> QED
    BY <2>1, <2>2
<1> QED
  BY <1>1, <1>2, <1>3 DEF SameFrames

\* Stopping a frame changes its flag only.
LEMMA StoppedFrame ==
  ASSUME NEW a \in FrameRecord, NEW b,
         b = [a EXCEPT !.stopped = @ \/ a.kind # "go"]
  PROVE  /\ b \in FrameRecord /\ b.kind = a.kind /\ b.ep = a.ep
         /\ b.blockFrame = a.blockFrame /\ b.isRemoved = a.isRemoved
  BY DEF FrameRecord

\* So does removing it.
LEMMA RemovedFrame ==
  ASSUME NEW a \in FrameRecord, NEW b, b = [a EXCEPT !.isRemoved = TRUE]
  PROVE  /\ b \in FrameRecord /\ b.kind = a.kind /\ b.ep = a.ep
         /\ b.blockFrame = a.blockFrame
  BY DEF FrameRecord

\* A builtin returns: through its last line or through a recover.
LEMMA FinishBuiltinInv ==
  ASSUME IInv, NEW n \in Nat, n = Len(acts), n > 0, acts[n].kind # "normal",
         NEW es \in [Errors -> [born : BOOLEAN, Raised : BOOLEAN,
                                Ignore : BOOLEAN]],
         NEW result \in {Val} \cup Errors, FinishBuiltin(es, result)
  PROVE  IInv'
<1>1. /\ TypeOK /\ HeapSound /\ ActsSound /\ FramesMatch /\ BrokenReturns
      /\ Len(stack) \in Nat /\ stack \in Seq({Val} \cup Errors)
      /\ acts \in Seq(ActRecord) /\ n \in 1..n
  BY DEF IInv, TypeOK
<1>2. ~heap[acts[n].frame].isRemoved
  BY <1>1 DEF BrokenReturns
<1>3. /\ Top(acts) = acts[n] /\ callFrames # <<>>
      /\ Pop(acts) \in Seq(ActRecord) /\ Len(Pop(acts)) = n - 1
      /\ \A i \in 1..n - 1 : Pop(acts)[i] = acts[i]
      /\ Pop(callFrames) \in Seq(Nat) /\ Len(Pop(callFrames)) = n - 1
      /\ \A i \in 1..n - 1 : Pop(callFrames)[i] = callFrames[i]
  BY <1>1, <1>2, PopBoth
<1>4. /\ callFrames' = Pop(callFrames) /\ acts' = Pop(acts)
      /\ currentFrame' = acts[n].old /\ heap' = heap /\ bottom' = bottom
      /\ stack' = Append(SubSeq(stack, 1, acts[n].recv - 1), result)
      /\ outcome' = outcome /\ CheckResult(es, result)
  BY <1>2, <1>3 DEF FinishBuiltin, popFrame
<1>5. acts[n].recv \in Nat /\ acts[n].old \in Nat /\ acts[n].base \in Nat
  BY <1>1, ActFields
<1>6. acts[n].recv - 1 \in 0..Len(stack)
  <2>1. Slots(n)
    BY <1>1 DEF ActsSound
  <2> QED
    BY <1>1, <1>5, <2>1 DEF Slots
<1>7. stack' \in Seq({Val} \cup Errors) /\ acts[n].recv <= Len(stack') + 1
  <2>1. PICK cut \in Seq({Val} \cup Errors) :
          /\ Len(cut) = acts[n].recv - 1 /\ stack' = Append(cut, result)
    BY <1>1, <1>4, <1>6, CutFacts
  <2> QED
    BY <1>5, <2>1, AppendFacts
<1>8. /\ errs' \in [Errors -> [born : BOOLEAN, Raised : BOOLEAN,
                               Ignore : BOOLEAN]]
      /\ panic' \in PanicValue
  BY <1>4, NoPanic \in PanicValue
     DEF CheckResult, Armed, NoPanic, PanicValue
<1>9. TypeOK'
  BY <1>1, <1>3, <1>4, <1>5, <1>7, <1>8 DEF TypeOK
<1>10. HeapSound' /\ SameFrames
  BY <1>1, <1>4 DEF HeapSound, FrameSound, SameFrames, TypeOK
<1>11. \A f \in 1..Len(heap) : heap'[f].isRemoved = heap[f].isRemoved
  BY <1>4
<1> QED
  BY <1>3, <1>4, <1>7, <1>9, <1>10, <1>11, LeaveInv

\* A panic leaves a frame: reportErrorAndStop pops it and goes on.
LEMMA UnwindInv ==
  ASSUME IInv, NEW n \in Nat, n = Len(acts), n > 0,
         ~heap[acts[n].frame].isRemoved,
         NEW p \in PanicValue, p # NoPanic, reportErrorAndStop(p)
  PROVE  IInv'
<1>1. /\ TypeOK /\ HeapSound /\ ActsSound /\ FramesMatch
      /\ Len(stack) \in Nat /\ acts \in Seq(ActRecord) /\ n \in 1..n
      /\ heap \in Seq(FrameRecord) /\ Len(heap) \in Nat
  BY DEF IInv, TypeOK
<1>2. /\ Top(callFrames) = acts[n].frame /\ callFrames # <<>>
      /\ Pop(acts) \in Seq(ActRecord) /\ Len(Pop(acts)) = n - 1
      /\ \A i \in 1..n - 1 : Pop(acts)[i] = acts[i]
      /\ Pop(callFrames) \in Seq(Nat) /\ Len(Pop(callFrames)) = n - 1
      /\ \A i \in 1..n - 1 : Pop(callFrames)[i] = callFrames[i]
  BY <1>1, PopBoth
<1>3. PICK f \in 1..Len(heap) : f = acts[n].frame
  BY <1>1 DEF ActsSound, ActSound
<1>4. PICK F : F = [heap[f] EXCEPT !.stopped = @ \/ heap[f].kind # "go"]
  OBVIOUS
<1>5. /\ callFrames' = Pop(callFrames) /\ acts' = Pop(acts)
      /\ heap' = [heap EXCEPT ![f] = F]
      /\ currentFrame' = currentFrame /\ bottom' = bottom /\ stack' = stack
      /\ errs' = errs /\ outcome' = outcome /\ panic' = Reported(p)
  BY <1>2, <1>3, <1>4 DEF reportErrorAndStop, stopFrame, popFrame
<1>6. /\ heap' \in Seq(FrameRecord) /\ Len(heap') = Len(heap) /\ SameFrames
      /\ \A g \in 1..Len(heap) : heap'[g].isRemoved = heap[g].isRemoved
  <2>1. heap[f] \in FrameRecord
    BY <1>1
  <2>2. /\ F \in FrameRecord /\ F.kind = heap[f].kind /\ F.ep = heap[f].ep
        /\ F.blockFrame = heap[f].blockFrame
        /\ F.isRemoved = heap[f].isRemoved
    BY <1>4, <2>1, StoppedFrame
  <2>3. /\ heap' \in Seq(FrameRecord) /\ Len(heap') = Len(heap)
        /\ SameFrames /\ heap'[f] = F
        /\ \A g \in 1..Len(heap) : g # f => heap'[g] = heap[g]
    BY <1>1, <1>5, <2>2, SetFrame
  <2>4. \A g \in 1..Len(heap) : heap'[g].isRemoved = heap[g].isRemoved
    BY <2>2, <2>3
  <2> QED
    BY <2>3, <2>4
<1>7. panic' \in PanicValue /\ panic' # NoPanic
  <2>1. CASE stack # <<>> /\ Top(stack) \in Errors
    <3>1. panic' = Top(stack) /\ Top(stack) # "none"
      BY <1>5, <2>1, ThreadAssumption DEF Reported
    <3> QED
      BY <2>1, <3>1 DEF PanicValue, NoPanic
  <2>2. CASE ~(stack # <<>> /\ Top(stack) \in Errors)
    BY <1>5, <2>2 DEF Reported
  <2> QED
    BY <2>1, <2>2
<1>8. TypeOK'
  BY <1>1, <1>2, <1>5, <1>6, <1>7 DEF TypeOK
<1>9. HeapSound'
  <2>1. \A g \in Len(heap) + 1..Len(heap') : FrameSound(g)'
    BY <1>1, <1>6
  <2> QED
    BY <1>1, <1>6, <1>8, <2>1, HeapKept
<1>10. acts[n].recv <= Len(stack') + 1
  <2>1. Slots(n) /\ acts[n].recv \in Nat /\ acts[n].base \in Nat
    BY <1>1, ActFields DEF ActsSound
  <2> QED
    BY <1>1, <1>5, <2>1 DEF Slots
<1> QED
  BY <1>2, <1>5, <1>6, <1>7, <1>8, <1>9, <1>10, LeaveInv

\* The value on top of the stack, above a slot that is taken.
LEMMA TopValue ==
  ASSUME TypeOK, stack # <<>>
  PROVE  Top(stack) \in {Val} \cup Errors
  BY DEF TypeOK, Top

\* A Send leaves its receiver on the stack.
LEMMA SendHasValue ==
  ASSUME IInv, NEW n \in 1..Len(acts),
         acts[n].via \in {"send", "invoke", "init"}
  PROVE  stack # <<>> /\ Top(stack) \in {Val} \cup Errors
<1>1. /\ TypeOK /\ Slots(n) /\ acts[n].recv \in Nat /\ acts[n].base \in Nat
      /\ Len(stack) \in Nat
  BY ActFields DEF IInv, ActsSound, TypeOK
<1>2. Len(stack) > 0
  BY <1>1 DEF Slots
<1> QED
  BY <1>1, <1>2, TopValue

\* each, try and require return a value of the right type.
LEMMA ReturnInv ==
  ASSUME IInv, ReturnFromEach \/ ReturnFromTry \/ ReturnFromRequire
  PROVE  IInv'
<1>1. PICK n \in Nat : n = Len(acts)
  BY DEF IInv, TypeOK
<1>2. /\ errs \in [Errors -> [born : BOOLEAN, Raised : BOOLEAN,
                              Ignore : BOOLEAN]]
  BY DEF IInv, TypeOK
<1>3. InBuiltin({"each", "try", "require"})
  BY DEF ReturnFromEach, ReturnFromTry, ReturnFromRequire, InBuiltin
<1>4. /\ n > 0 /\ n \in 1..n /\ acts[n].kind # "normal"
      /\ acts[n].via = "send"
  BY <1>1, <1>3, BuiltinFacts
<1>5. Top(stack) \in {Val} \cup Errors
  BY <1>1, <1>4, SendHasValue
<1>6. PICK result \in {Val} \cup Errors : FinishBuiltin(errs, result)
  BY <1>5 DEF ReturnFromEach, ReturnFromTry, ReturnFromRequire
<1> QED
  BY <1>1, <1>2, <1>4, <1>6, FinishBuiltinInv

\* try or require recovers what a panic carries.
LEMMA RecoverInv ==
  ASSUME IInv, TryRecovers \/ RequireRecovers
  PROVE  IInv'
<1>1. PICK n \in Nat : n = Len(acts)
  BY DEF IInv, TypeOK
<1>2. /\ errs \in [Errors -> [born : BOOLEAN, Raised : BOOLEAN,
                              Ignore : BOOLEAN]]
      /\ acts \in Seq(ActRecord)
  BY DEF IInv, TypeOK
<1>3. /\ n > 0 /\ acts[n].kind # "normal"
  BY <1>1, <1>2 DEF TryRecovers, RequireRecovers, Top
<1>4. CASE RequireRecovers
  BY <1>1, <1>2, <1>3, <1>4, FinishBuiltinInv DEF RequireRecovers
<1>5. CASE TryRecovers
  <2>1. CASE panic \in Errors
    <3>1. PICK es : es = [errs EXCEPT ![panic].Ignore = TRUE]
      OBVIOUS
    <3>2. es \in [Errors -> [born : BOOLEAN, Raised : BOOLEAN,
                              Ignore : BOOLEAN]]
      BY <1>2, <3>1
    <3>3. FinishBuiltin(es, panic)
      BY <1>5, <2>1, <3>1 DEF TryRecovers
    <3> QED
      BY <1>1, <1>3, <2>1, <3>2, <3>3, FinishBuiltinInv
  <2>2. CASE panic \notin Errors
    BY <1>1, <1>2, <1>3, <1>5, <2>2, FinishBuiltinInv DEF TryRecovers
  <2> QED
    BY <2>1, <2>2
<1> QED
  BY <1>4, <1>5

\* A panic leaves a frame that does not catch it.
LEMMA RaiseInv ==
  ASSUME IInv, Rethrow \/ UnwindDefers \/ UnwindBuiltin
  PROVE  IInv'
<1>1. PICK n \in Nat : n = Len(acts)
  BY DEF IInv, TypeOK
<1>2. /\ TypeOK /\ acts \in Seq(ActRecord) /\ BrokenReturns
      /\ panic \in PanicValue
  BY DEF IInv, TypeOK
<1>3. n > 0 /\ Top(acts) = acts[n] /\ n \in 1..n
  BY <1>1, <1>2 DEF Rethrow, UnwindDefers, UnwindBuiltin, Deferring, Top
<1>4. acts[n].pend \in PanicValue
  BY <1>1, <1>2, <1>3, ActFields
<1>5. PICK p \in {panic, acts[n].pend} :
        /\ p # NoPanic /\ reportErrorAndStop(p)
        /\ \/ panic # NoPanic
           \/ acts[n].phase = "defers" /\ acts[n].pend # NoPanic
  BY <1>3 DEF Rethrow, UnwindDefers, UnwindBuiltin, Deferring
<1>6. ~heap[acts[n].frame].isRemoved
  BY <1>1, <1>2, <1>3, <1>5 DEF BrokenReturns
<1> QED
  BY <1>1, <1>2, <1>3, <1>4, <1>5, <1>6, UnwindInv

\* A normal frame returns; its frame is already popped if it broke.
LEMMA FinishFrameInv ==
  ASSUME IInv, FinishFrame
  PROVE  IInv'
<1>1. PICK n \in Nat : n = Len(acts)
  BY DEF IInv, TypeOK
<1>2. /\ TypeOK /\ HeapSound /\ ActsSound /\ FramesMatch
      /\ Len(stack) \in Nat /\ stack \in Seq({Val} \cup Errors)
      /\ acts \in Seq(ActRecord) /\ acts # <<>> /\ n > 0 /\ n \in 1..n
      /\ heap \in Seq(FrameRecord) /\ Len(heap) \in Nat
      /\ callFrames \in Seq(Nat) /\ Top(acts) = acts[n] /\ panic = NoPanic
  BY <1>1 DEF IInv, TypeOK, FinishFrame, Deferring, Top
<1>3. /\ acts[n].recv \in Nat /\ acts[n].base \in Nat /\ acts[n].old \in Nat
      /\ acts[n].via \in Vias
      /\ Slots(n) /\ ActSound(n)
  BY <1>1, <1>2, ActFields DEF ActsSound
<1>4. /\ acts' = Pop(acts) /\ currentFrame' = acts[n].old
      /\ stack' = AfterFrame(acts[n])
      /\ UNCHANGED <<bottom, errs, panic, outcome>>
  BY <1>2 DEF FinishFrame
<1>5. /\ Pop(acts) \in Seq(ActRecord) /\ Len(Pop(acts)) = n - 1
      /\ \A i \in 1..n - 1 : Pop(acts)[i] = acts[i]
  BY <1>1, <1>2, PopFacts
<1>6. stack' \in Seq({Val} \cup Errors) /\ acts[n].recv <= Len(stack') + 1
  <2>1. acts[n].recv - 1 \in 0..Len(stack) /\ acts[n].recv <= Len(stack) + 1
    <3>1. /\ acts[n].recv \in 1..acts[n].base + 1 /\ acts[n].base <= Len(stack)
          /\ acts[n].base \in Nat /\ acts[n].recv \in Nat
      BY <1>3 DEF Slots
    <3>2. Len(stack) \in Nat
      BY <1>2
    <3> QED
      BY <3>1, <3>2
  <2>2. PICK cut \in Seq({Val} \cup Errors) :
          cut = SubSeq(stack, 1, acts[n].recv - 1) /\ Len(cut) = acts[n].recv - 1
    BY <1>2, <2>1, CutFacts
  <2>3. \A v \in {Val} \cup Errors, s \in Seq({Val} \cup Errors) :
          /\ Append(s, v) \in Seq({Val} \cup Errors)
          /\ Len(Append(s, v)) = Len(s) + 1
    BY AppendFacts
  <2>4. CASE acts[n].via \in {"send", "invoke"}
    <3>1. Top(stack) \in {Val} \cup Errors
      BY <1>1, <1>2, <2>4, SendHasValue
    <3>2. stack' = Append(cut, Top(stack))
      BY <1>4, <2>2, <2>4 DEF AfterFrame
    <3> QED
      BY <1>3, <2>2, <2>3, <3>1, <3>2
  <2>5. CASE acts[n].via = "init"
    <3>1. PICK v \in {Val} \cup Errors : stack' = Append(cut, v)
      BY <1>4, <2>2, <2>5 DEF AfterFrame
    <3> QED
      BY <1>3, <2>2, <2>3, <3>1
  <2>6. CASE acts[n].via = "class"
    <3>1. stack' = Append(stack, Val)
      BY <1>4, <2>6 DEF AfterFrame
    <3> QED
      BY <1>2, <1>3, <2>1, <2>3, <3>1
  <2>7. CASE acts[n].via = "defer"
    <3>1. stack' = cut
      BY <1>4, <2>2, <2>7 DEF AfterFrame
    <3> QED
      BY <1>3, <2>2, <3>1
  <2>8. CASE acts[n].via \in {"yield", "program"}
    BY <1>2, <1>4, <2>1, <2>8 DEF AfterFrame
  <2> QED
    BY <1>3, <2>4, <2>5, <2>6, <2>7, <2>8 DEF Vias
<1>7. PICK f \in 1..Len(heap) : f = acts[n].frame
  BY <1>3 DEF ActSound
<1>8. /\ heap' \in Seq(FrameRecord) /\ Len(heap') = Len(heap) /\ SameFrames
      /\ \A g \in 1..Len(heap) :
           g # f => heap'[g].isRemoved = heap[g].isRemoved
      /\ callFrames' \in Seq(Nat) /\ Len(callFrames') = n - 1
      /\ \A i \in 1..n - 1 : callFrames'[i] = callFrames[i]
  <2>1. CASE heap[f].isRemoved
    <3>1. heap' = heap /\ callFrames' = callFrames /\ Len(callFrames) = n - 1
      BY <1>1, <1>2, <1>7, <2>1 DEF FinishFrame, FramesMatch
    <3> QED
      BY <1>2, <3>1 DEF SameFrames
  <2>2. CASE ~heap[f].isRemoved
    <3>1. /\ callFrames # <<>>
          /\ Pop(callFrames) \in Seq(Nat) /\ Len(Pop(callFrames)) = n - 1
          /\ \A i \in 1..n - 1 : Pop(callFrames)[i] = callFrames[i]
      BY <1>1, <1>2, <1>7, <2>2, PopBoth
    <3>2. callFrames' = Pop(callFrames)
      BY <1>2, <1>7, <2>2, <3>1 DEF FinishFrame, popFrame
    <3>3. PICK F : F = [heap[f] EXCEPT !.isRemoved = TRUE]
      OBVIOUS
    <3>4. heap' = [heap EXCEPT ![f] = F]
      BY <1>2, <1>7, <2>2, <3>3 DEF FinishFrame
    <3>5. /\ F \in FrameRecord /\ F.kind = heap[f].kind /\ F.ep = heap[f].ep
          /\ F.blockFrame = heap[f].blockFrame
      BY <1>2, <3>3, RemovedFrame, heap[f] \in FrameRecord
    <3>6. /\ heap' \in Seq(FrameRecord) /\ Len(heap') = Len(heap) /\ SameFrames
          /\ \A g \in 1..Len(heap) : g # f => heap'[g] = heap[g]
      BY <1>2, <3>4, <3>5, SetFrame
    <3> QED
      BY <3>1, <3>2, <3>6
  <2> QED
    BY <2>1, <2>2
<1>9. TypeOK'
  BY <1>2, <1>3, <1>4, <1>5, <1>6, <1>8 DEF TypeOK
<1>10. HeapSound'
  <2>1. \A g \in Len(heap) + 1..Len(heap') : FrameSound(g)'
    BY <1>2, <1>8
  <2> QED
    BY <1>2, <1>8, <1>9, <2>1, HeapKept
<1> QED
  BY <1>1, <1>2, <1>4, <1>5, <1>6, <1>7, <1>8, <1>9, <1>10, LeaveInv

-----------------------------------------------------------------------------
(* The operations that stay in their frame.                                *)

\* The top activation turns to its deferred blocks.
LEMMA ToDefersInv ==
  ASSUME IInv, NEW n \in Nat, n = Len(acts), n > 0, acts[n].kind = "normal",
         NEW p \in PanicValue, NEW st \in Seq({Val} \cup Errors),
         acts[n].phase = "exec",
         p # NoPanic => ~heap[acts[n].frame].isRemoved,
         Len(st) >= Len(stack), ToDefers(p, st)
  PROVE  IInv'
<1>1. /\ TypeOK /\ HeapSound /\ ActsSound /\ FramesMatch /\ BrokenReturns
      /\ Len(stack) \in Nat /\ acts \in Seq(ActRecord) /\ n \in 1..n
      /\ acts # <<>> /\ acts[n] \in ActRecord /\ Len(st) \in Nat
  BY DEF IInv, TypeOK
<1>0. PICK k \in Nat : k = Len(st)
  BY <1>1
<1>2. PICK b : b = [acts[n] EXCEPT !.phase = "defers", !.pend = p, !.ret = k]
  OBVIOUS
<1>3. /\ acts' = [acts EXCEPT ![Len(acts)] = b] /\ stack' = st
      /\ panic' = NoPanic
      /\ UNCHANGED <<heap, callFrames, bottom, currentFrame, errs, outcome>>
  BY <1>0, <1>2 DEF ToDefers
<1>4. /\ b \in ActRecord
      /\ b.frame = acts[n].frame /\ b.kind = acts[n].kind /\ b.via = acts[n].via
      /\ b.old = acts[n].old /\ b.recv = acts[n].recv /\ b.base = acts[n].base
      /\ b.defers = acts[n].defers /\ b.phase = "defers" /\ b.pend = p
  <2>1. acts[n] \in ActRecord /\ Len(st) \in Nat
    BY <1>1
  <2> QED
    BY <1>0, <1>2, <2>1 DEF ActRecord
<1>5. /\ acts' \in Seq(ActRecord) /\ Len(acts') = n /\ acts'[n] = b
      /\ \A i \in 1..n - 1 : acts'[i] = acts[i]
  BY <1>1, <1>3, <1>4, SetTopFacts
<1>6. NoPanic \in PanicValue
  BY DEF NoPanic, PanicValue
<1>7. TypeOK'
  BY <1>1, <1>3, <1>5, <1>6 DEF TypeOK
<1>8. ASSUME NEW i \in 1..n
      PROVE  /\ SameAct(i) /\ acts'[i].old = acts[i].old
             /\ acts[i].base <= Len(stack')
             /\ i # n => acts'[i].phase = acts[i].phase
  <2>1. /\ Slots(i) /\ acts[i].base \in Nat /\ Len(acts[i].defers) \in Nat
    BY <1>1, ActFields DEF ActsSound
  <2>2. acts[i].base <= Len(stack')
    BY <1>1, <1>3, <2>1 DEF Slots
  <2>3. CASE i = n
    BY <1>4, <1>5, <2>1, <2>2, <2>3 DEF SameAct
  <2>4. CASE i \in 1..n - 1
    BY <1>5, <2>1, <2>2, <2>4 DEF SameAct
  <2> QED
    BY <2>3, <2>4
<1>9. BrokenReturns'
  BY <1>1, <1>3, <1>4, <1>5 DEF BrokenReturns
<1>10. CurrentFrameRuns'
  BY <1>4, <1>5 DEF CurrentFrameRuns, Top
<1> QED
  BY <1>3, <1>5, <1>7, <1>8, <1>9, <1>10, StayInv

\* Every way a frame stops executing: Leave, past its end, a panic.
LEMMA LeaveFrameInv ==
  ASSUME IInv, Leave \/ Stopped \/ UnwindExec
  PROVE  IInv'
<1>1. PICK n \in Nat : n = Len(acts)
  BY DEF IInv, TypeOK
<1>2. /\ TypeOK /\ BrokenReturns /\ panic \in PanicValue
      /\ Len(stack) \in Nat /\ stack \in Seq({Val} \cup Errors)
  BY DEF IInv, TypeOK
<1>3. /\ n > 0 /\ acts[n].kind = "normal" /\ acts[n].phase = "exec"
  BY <1>1, <1>2 DEF Leave, Stopped, UnwindExec, Running, Top, TypeOK
<1>4. NoPanic \in PanicValue
  BY DEF NoPanic, PanicValue
<1>5. CASE Leave
  <2>1. PICK v \in Values : ToDefers(NoPanic, Append(stack, v))
    BY <1>5 DEF Leave
  <2>2. v \in {Val} \cup Errors
    BY DEF Values
  <2>3. /\ Append(stack, v) \in Seq({Val} \cup Errors)
        /\ Len(Append(stack, v)) >= Len(stack)
    BY <1>2, <2>2, PushFacts
  <2> QED
    BY <1>1, <1>3, <1>4, <2>1, <2>3, ToDefersInv
<1>6. CASE Stopped
  BY <1>1, <1>2, <1>3, <1>4, <1>6, ToDefersInv DEF Stopped
<1>7. CASE UnwindExec
  <2>1. panic # NoPanic /\ ToDefers(panic, stack)
    BY <1>7 DEF UnwindExec
  <2>2. ~heap[acts[n].frame].isRemoved
    BY <1>1, <1>2, <1>3, <2>1 DEF BrokenReturns
  <2> QED
    BY <1>1, <1>2, <1>3, <2>1, <2>2, ToDefersInv
<1> QED
  BY <1>5, <1>6, <1>7

\* Opcodes and builtins that only touch the data stack.
LEMMA StackOnlyInv ==
  ASSUME IInv, NEW n \in Nat, n = Len(acts), n > 0,
         ~heap[acts[n].frame].isRemoved, TypeOK',
         UNCHANGED <<heap, callFrames, acts>>,
         acts[n].base <= Len(stack'),
         panic' = NoPanic => currentFrame' = acts[n].frame
  PROVE  IInv'
<1>1. /\ TypeOK /\ ActsSound /\ acts \in Seq(ActRecord) /\ n \in 1..n
      /\ Len(stack') \in Nat
  BY DEF IInv, TypeOK
<1>2. ASSUME NEW i \in 1..n
      PROVE  /\ SameAct(i) /\ acts'[i].old = acts[i].old
             /\ acts[i].base <= Len(stack')
             /\ i # n => acts'[i].phase = acts[i].phase
  <2>1. Len(acts[i].defers) \in Nat /\ acts[i].base \in Nat
    BY <1>1, ActFields
  <2>2. SameAct(i)
    BY <2>1 DEF SameAct
  <2>3. CASE i # n
    <3>1. i \in 1..n /\ n \in i + 1..n
      BY <2>3
    <3>2. /\ Above(i, n) /\ Slots(n) /\ acts[n].recv \in Nat
          /\ acts[n].base \in Nat
      BY <1>1, <3>1, ActFields DEF ActsSound
    <3>3. acts[i].base < acts[n].recv /\ acts[n].recv <= acts[n].base + 1
      BY <3>2 DEF Above, Slots
    <3> QED
      BY <1>1, <2>1, <2>2, <3>2, <3>3
  <2> QED
    BY <2>2, <2>3
<1>3. BrokenReturns'
  BY DEF BrokenReturns
<1>4. CurrentFrameRuns'
  BY <1>1 DEF CurrentFrameRuns, Top, TypeOK
<1> QED
  BY <1>2, <1>3, <1>4, StayInv

\* Error's builtins set flags to flags.
LEMMA ErrorOpsTyped ==
  ASSUME errs \in [Errors -> [born : BOOLEAN, Raised : BOOLEAN, Ignore : BOOLEAN]],
         NEW e \in Errors, NEW flags \in ErrorOps(e)
  PROVE  flags \in [born : BOOLEAN, Raised : BOOLEAN, Ignore : BOOLEAN]
<1>1. errs[e] \in [born : BOOLEAN, Raised : BOOLEAN, Ignore : BOOLEAN]
  OBVIOUS
<1>2. \A r, i \in BOOLEAN :
        Flags(r, i) \in [born : BOOLEAN, Raised : BOOLEAN, Ignore : BOOLEAN]
  BY DEF Flags
<1>3. \/ \E r, i \in BOOLEAN : flags = Flags(r, i)
      \/ flags = [errs[e] EXCEPT !.Raised = TRUE]
      \/ flags = [errs[e] EXCEPT !.Ignore = TRUE]
      \/ flags = errs[e]
  BY Zenon DEF ErrorOps
<1>4. CASE \E r, i \in BOOLEAN : flags = Flags(r, i)
  BY <1>2, <1>4
<1>5. CASE flags = [errs[e] EXCEPT !.Raised = TRUE]
  BY <1>1, <1>5
<1>6. CASE flags = [errs[e] EXCEPT !.Ignore = TRUE]
  BY <1>1, <1>6
<1> QED
  BY <1>1, <1>3, <1>4, <1>5, <1>6

\* Discard, the builtins that only compute and a Go panic of one.
LEMMA OperandInv ==
  ASSUME IInv, Discard \/ LeafBuiltin \/ BuiltinPanics
  PROVE  IInv'
<1>1. PICK n \in Nat : n = Len(acts)
  BY DEF IInv, TypeOK
<1>2. Running
  BY DEF Discard, LeafBuiltin, BuiltinPanics
<1>3. /\ n > 0 /\ n \in 1..n /\ ~heap[acts[n].frame].isRemoved
      /\ acts[n].base \in Nat /\ acts[n].base <= Len(stack)
      /\ panic = NoPanic /\ Top(acts) = acts[n]
      /\ currentFrame = acts[n].frame
  BY <1>1, <1>2, RunningFacts
<1>4. /\ TypeOK /\ Len(stack) \in Nat /\ stack \in Seq({Val} \cup Errors)
      /\ errs \in [Errors -> [born : BOOLEAN, Raised : BOOLEAN,
                              Ignore : BOOLEAN]]
  BY DEF IInv, TypeOK
<1>5. CASE Discard
  <2>1. /\ stack' = Pop(stack) /\ Len(stack) > acts[n].base
        /\ UNCHANGED <<heap, callFrames, bottom, currentFrame, acts, errs, panic,
                       outcome>>
    BY <1>3, <1>5 DEF Discard
  <2>2. stack' \in Seq({Val} \cup Errors) /\ Len(stack') = Len(stack) - 1
    <3>1. stack # <<>>
      BY <1>3, <1>4, <2>1
    <3> QED
      BY <1>4, <2>1, <3>1, PopFacts
  <2>3. TypeOK'
    BY <1>4, <2>1, <2>2 DEF TypeOK
  <2> QED
    BY <1>1, <1>3, <1>4, <2>1, <2>2, <2>3, StackOnlyInv
<1>6. CASE LeafBuiltin
  <2>8. PICK e \in Errors : \E flags \in ErrorOps(e) :
          /\ CheckResult([errs EXCEPT ![e] = flags], e)
          /\ stack' = Append(stack, e)
    BY <1>6 DEF LeafBuiltin
  <2>1. PICK flags \in ErrorOps(e) :
          /\ CheckResult([errs EXCEPT ![e] = flags], e)
          /\ stack' = Append(stack, e)
    BY <2>8
  <2>2. UNCHANGED <<heap, callFrames, bottom, currentFrame, acts, outcome>>
    BY <1>6 DEF LeafBuiltin
  <2>3. stack' \in Seq({Val} \cup Errors) /\ Len(stack') = Len(stack) + 1
    <3>1. e \in {Val} \cup Errors
      OBVIOUS
    <3> QED
      BY <1>4, <2>1, <3>1, PushFacts
  <2>4. flags \in [born : BOOLEAN, Raised : BOOLEAN, Ignore : BOOLEAN]
    BY <1>4, ErrorOpsTyped
  <2>5. PICK es \in [Errors -> [born : BOOLEAN, Raised : BOOLEAN,
                               Ignore : BOOLEAN]] : CheckResult(es, e)
    BY <1>4, <2>1, <2>4
  <2>6. /\ errs' \in [Errors -> [born : BOOLEAN, Raised : BOOLEAN,
                                 Ignore : BOOLEAN]]
        /\ panic' \in PanicValue
    BY <2>5, NoPanic \in PanicValue
       DEF CheckResult, Armed, NoPanic, PanicValue
  <2>7. TypeOK'
    BY <1>4, <2>2, <2>3, <2>6 DEF TypeOK
  <2> QED
    BY <1>1, <1>3, <1>4, <2>2, <2>3, <2>7, StackOnlyInv
<1>7. CASE BuiltinPanics
  <2>1. PICK arg \in Values, v \in {Runtime, GoString} :
          /\ stack' = stack \o <<Val, arg>>
          /\ panic' = IF arg \in Errors THEN arg ELSE v
    BY <1>7 DEF BuiltinPanics
  <2>2. /\ currentFrame' = 0
        /\ UNCHANGED <<heap, callFrames, bottom, acts, errs, outcome>>
    BY <1>7 DEF BuiltinPanics
  <2>3. stack' \in Seq({Val} \cup Errors) /\ Len(stack') = Len(stack) + 2
    <3>1. arg \in {Val} \cup Errors /\ Val \in {Val} \cup Errors
      BY DEF Values
    <3> QED
      BY <1>4, <2>1, <3>1, PushFacts
  <2>4. panic' \in PanicValue /\ panic' # NoPanic
    BY <2>1, ThreadAssumption DEF NoPanic, PanicValue, Runtime, GoString
  <2>5. TypeOK'
    BY <1>4, <2>2, <2>3, <2>4 DEF TypeOK
  <2> QED
    BY <1>1, <1>3, <1>4, <2>2, <2>3, <2>4, <2>5, StackOnlyInv
<1> QED
  BY <1>5, <1>6, <1>7

-----------------------------------------------------------------------------
(* Deferred blocks and break.                                              *)

\* The next deferred block runs: the last one registered.
LEMMA RunDeferInv ==
  ASSUME IInv, RunDefer
  PROVE  IInv'
<1>1. PICK n \in Nat : n = Len(acts)
  BY DEF IInv, TypeOK
<1>2. /\ TypeOK /\ HeapSound /\ ActsSound /\ FramesMatch /\ BrokenReturns
      /\ Len(stack) \in Nat /\ stack \in Seq({Val} \cup Errors)
      /\ acts \in Seq(ActRecord) /\ acts # <<>> /\ n > 0 /\ n \in 1..n
      /\ heap \in Seq(FrameRecord) /\ Len(heap) \in Nat
      /\ Top(acts) = acts[n] /\ acts[n].phase = "defers" /\ panic = NoPanic
      /\ acts[n].defers # <<>> /\ acts[n] \in ActRecord
      /\ currentFrame \in Nat /\ callFrames \in Seq(Nat)
  BY <1>1 DEF IInv, TypeOK, RunDefer, Deferring, Top
<1>3. PICK d \in Seq(Nat) : d = acts[n].defers
  BY <1>1, <1>2, ActFields
<1>4. PICK m \in Nat : m = Len(d) /\ m > 0 /\ m \in 1..m
  BY <1>2, <1>3
<1>5. PICK c \in Nat : c = d[m] /\ c = Top(d)
  BY <1>4 DEF Top
<1>6. PICK rest \in Seq(Nat) : /\ rest = Pop(d) /\ Len(rest) = m - 1
                              /\ \A k \in 1..m - 1 : rest[k] = d[k]
  <2>1. d # <<>>
    BY <1>2, <1>3
  <2>2. /\ Pop(d) \in Seq(Nat) /\ Len(Pop(d)) = Len(d) - 1
        /\ \A k \in 1..Len(d) - 1 : Pop(d)[k] = d[k]
    BY <1>3, <2>1, PopFacts
  <2> QED
    BY <1>4, <2>2
<1>7. PICK b : b = [acts[n] EXCEPT !.defers = rest]
  OBVIOUS
<1>8. PICK below : below = [acts EXCEPT ![Len(acts)] = b]
  OBVIOUS
<1>9. PICK recv \in Nat : recv = Len(stack) + 1
  BY <1>2
<1>10. PICK a : a = Act("normal", "defer", c, recv, recv)
  OBVIOUS
<1>11. /\ evaluate(below, a, <<>>) /\ stack' = Append(stack, Val)
       /\ UNCHANGED <<errs, panic, outcome>>
  BY <1>1, <1>2, <1>3, <1>5, <1>6, <1>7, <1>8, <1>9, <1>10 DEF RunDefer
<1>12. /\ b \in ActRecord
       /\ b.frame = acts[n].frame /\ b.kind = acts[n].kind
       /\ b.via = acts[n].via /\ b.old = acts[n].old
       /\ b.recv = acts[n].recv /\ b.base = acts[n].base
       /\ b.phase = acts[n].phase /\ b.defers = rest
  BY <1>2, <1>7 DEF ActRecord
<1>13. /\ below \in Seq(ActRecord) /\ Len(below) = n /\ below[n] = b
       /\ \A i \in 1..n - 1 : below[i] = acts[i]
  BY <1>1, <1>2, <1>8, <1>12, SetTopFacts
<1>14. /\ a \in ActRecord /\ a.kind = "normal" /\ a.via = "defer"
       /\ a.frame = c /\ a.old = currentFrame /\ a.recv = recv
       /\ a.base = recv /\ a.phase = "exec" /\ a.defers = <<>>
  BY <1>2, <1>10, NoPanic \in PanicValue
     DEF Act, ActRecord, ActKinds, Vias, NoPanic, PanicValue
<1>15. /\ acts' \in Seq(ActRecord) /\ Len(acts') = n + 1 /\ acts'[n + 1] = a
       /\ acts'[n] = b /\ \A i \in 1..n - 1 : acts'[i] = acts[i]
  <2>1. acts' = Append(below, a)
    BY <1>11 DEF evaluate
  <2>2. /\ acts' \in Seq(ActRecord) /\ Len(acts') = n + 1 /\ acts'[n + 1] = a
        /\ \A i \in 1..n : acts'[i] = below[i]
    BY <1>13, <1>14, <2>1, AppendFacts
  <2>3. n \in 1..n /\ \A i \in 1..n - 1 : i \in 1..n
    BY <1>2
  <2> QED
    BY <1>13, <2>2, <2>3
<1>16. heap' = heap /\ HeapSound' /\ SameFrames
  <2>1. heap' = heap
    BY <1>2, <1>11 DEF evaluate
  <2> QED
    BY <1>2, <2>1 DEF HeapSound, FrameSound, SameFrames
<1>17. stack' \in Seq({Val} \cup Errors) /\ Len(stack') = Len(stack) + 1
  BY <1>2, <1>11, PushFacts
<1>18. /\ callFrames' = Append(callFrames, c) /\ currentFrame' = c
       /\ callFrames' \in Seq(Nat) /\ bottom' \in Nat
  <2>1. /\ callFrames' = Append(callFrames, c) /\ currentFrame' = c
        /\ bottom' = IF callFrames = <<>> THEN c ELSE bottom
    BY <1>11, <1>14 DEF evaluate
  <2> QED
    BY <1>2, <2>1, AppendFacts DEF TypeOK
<1>19. TypeOK'
  BY <1>2, <1>11, <1>15, <1>16, <1>17, <1>18 DEF TypeOK
<1>20. /\ c \in 1..Len(heap) /\ acts[n].frame < c
       /\ heap[c].kind = "normal" /\ ~heap[c].isRemoved
       /\ \A k \in 1..m - 1 : d[k] < c
  <2>1. Pending(n) /\ ActSound(n)
    BY <1>1, <1>2 DEF ActsSound
  <2>2. /\ d[m] \in acts[n].frame + 1..Len(heap)
        /\ heap[d[m]].kind = "normal" /\ ~heap[d[m]].isRemoved
    BY <1>3, <1>4, <2>1 DEF Pending
  <2>3. ASSUME NEW k \in 1..m - 1 PROVE d[k] < d[m]
    <3>1. k \in 1..m /\ m \in k + 1..m
      BY <1>4, <2>3
    <3> QED
      BY <1>3, <1>4, <2>1, <3>1 DEF Pending
  <2>4. acts[n].frame \in 1..Len(heap)
    BY <2>1 DEF ActSound
  <2> QED
    BY <1>2, <1>5, <2>2, <2>3, <2>4
<1>21. ASSUME NEW i \in 1..n
       PROVE  /\ SameAct(i) /\ Above(i, n + 1)'
              /\ acts'[i].phase = acts[i].phase /\ acts'[i].old = acts[i].old
  <2>1. /\ ActSound(i) /\ Slots(i) /\ acts[i].base \in Nat
        /\ Len(acts[i].defers) \in Nat /\ acts[i].frame \in Nat
    BY <1>1, <1>2, ActFields DEF ActsSound
  <2>2. acts[i].base < recv
    BY <1>2, <1>9, <2>1 DEF Slots
  <2>3. CASE i = n
    <3>1. SameAct(i) /\ acts'[i].phase = acts[i].phase /\ acts'[i].old = acts[i].old
      <4>1. /\ acts'[i] = b /\ acts[i].defers = d
            /\ Len(rest) <= Len(d) /\ \A k \in 1..Len(rest) : rest[k] = d[k]
        BY <1>3, <1>4, <1>6, <1>15, <2>3
      <4> QED
        BY <1>12, <2>3, <4>1 DEF SameAct
    <3>2. \A k \in 1..Len(rest) : rest[k] < c
      BY <1>6, <1>20
    <3>3. Above(i, n + 1)'
      BY <1>12, <1>14, <1>15, <1>20, <2>2, <2>3, <3>2 DEF Above
    <3> QED
      BY <3>1, <3>3
  <2>4. CASE i \in 1..n - 1
    <3>1. SameAct(i) /\ acts'[i].phase = acts[i].phase /\ acts'[i].old = acts[i].old
      <4>1. acts'[i] = acts[i] /\ Len(acts[i].defers) \in Nat
        BY <1>15, <2>1, <2>4
      <4> QED
        BY <4>1 DEF SameAct
    <3>2. n \in i + 1..n
      BY <2>4
    <3>3. Above(i, n)
      BY <1>1, <1>2, <3>2 DEF ActsSound
    <3>4. acts[n].frame \in Nat
      BY <1>1, <1>2, ActFields
    <3>5. acts[i].frame < c
      BY <1>20, <2>1, <3>3, <3>4 DEF Above
    <3>6. ASSUME NEW k \in 1..Len(acts[i].defers) PROVE acts[i].defers[k] < c
      <4>1. acts[i].defers[k] < acts[n].frame
        BY <3>3 DEF Above
      <4>2. acts[i].defers[k] \in 1..Len(heap)
        <5>1. i \in 1..Len(acts) /\ Pending(i)
          BY <1>1, <1>2 DEF ActsSound
        <5> QED
          BY <1>2, <2>1, <5>1, PendingRange
      <4>3. acts[i].defers[k] \in Nat /\ c \in Nat /\ acts[n].frame < c
        BY <1>2, <1>5, <1>20, <4>2
      <4> QED
        BY <3>4, <4>1, <4>3
    <3>7. Above(i, n + 1)'
      BY <1>14, <1>15, <2>2, <2>4, <3>5, <3>6 DEF Above
    <3> QED
      BY <3>1, <3>7
  <2> QED
    BY <2>3, <2>4
<1>22. ActSound(n + 1)'
  BY <1>14, <1>15, <1>16, <1>20 DEF ActSound
<1>23. Slots(n + 1)'
  <2>1. recv \in 1..recv + 1 /\ recv <= Len(stack')
    BY <1>2, <1>9, <1>17
  <2> QED
    BY <1>14, <1>15, <2>1 DEF Slots
<1>24. ~heap[acts[n].frame].isRemoved
  BY <1>1, <1>2, <1>3, <1>4 DEF BrokenReturns
<1>25. Len(acts'[n + 1].defers) = 0
  BY <1>14, <1>15
<1>26. /\ \A f \in 1..Len(heap) : heap'[f].isRemoved = heap[f].isRemoved
       /\ panic' = NoPanic /\ ~heap'[acts'[n + 1].frame].isRemoved
       /\ Len(stack') >= Len(stack)
       /\ ~(acts[n].phase = "exec")
  BY <1>2, <1>11, <1>14, <1>15, <1>16, <1>17, <1>20
<1> QED
  BY <1>1, <1>14, <1>15, <1>16, <1>18, <1>19, <1>21, <1>22, <1>23, <1>24,
     <1>25, <1>26, EnterInv

\* Registering a deferred block: its frame is the newest of all.
LEMMA DeferInv ==
  ASSUME IInv, Defer
  PROVE  IInv'
<1>1. PICK n \in Nat : n = Len(acts)
  BY DEF IInv, TypeOK
<1>2. Running
  BY DEF Defer
<1>3. /\ TypeOK /\ HeapSound /\ ActsSound /\ FramesMatch
      /\ acts \in Seq(ActRecord) /\ Len(heap) \in Nat /\ Len(stack) \in Nat
      /\ heap \in Seq(FrameRecord)
  BY DEF IInv, TypeOK
<1>4. /\ n > 0 /\ acts # <<>> /\ n \in 1..n /\ panic = NoPanic
      /\ acts[n].kind = "normal" /\ acts[n].phase = "exec"
      /\ ~heap[acts[n].frame].isRemoved /\ acts[n].frame \in 1..Len(heap)
      /\ Top(acts) = acts[n] /\ currentFrame = acts[n].frame
      /\ acts[n] \in ActRecord
  BY <1>1, <1>2, <1>3, RunningFacts
<1>5. PICK d \in Seq(Nat) : d = acts[n].defers
  BY <1>1, <1>3, <1>4, ActFields
<1>6. PICK m \in Nat, c \in Nat : m = Len(d) /\ c = Len(heap) + 2
  BY <1>3, <1>5
<1>7. PICK e \in Seq(Nat) : /\ e = Append(d, c) /\ Len(e) = m + 1 /\ e[m + 1] = c
                           /\ \A k \in 1..m : e[k] = d[k]
  <2>1. /\ Append(d, c) \in Seq(Nat) /\ Len(Append(d, c)) = Len(d) + 1
        /\ Append(d, c)[Len(d) + 1] = c
        /\ \A k \in 1..Len(d) : Append(d, c)[k] = d[k]
    BY <1>5, <1>6, AppendFacts
  <2> QED
    BY <1>6, <2>1
<1>8. PICK b : b = [acts[n] EXCEPT !.defers = e]
  OBVIOUS
<1>9. /\ acts' = [acts EXCEPT ![Len(acts)] = b]
      /\ UNCHANGED <<callFrames, bottom, currentFrame, stack, errs, panic, outcome>>
  BY <1>1, <1>5, <1>6, <1>7, <1>8 DEF Defer
<1>10. /\ b \in ActRecord
       /\ b.frame = acts[n].frame /\ b.kind = acts[n].kind
       /\ b.via = acts[n].via /\ b.old = acts[n].old
       /\ b.recv = acts[n].recv /\ b.base = acts[n].base
       /\ b.phase = acts[n].phase /\ b.defers = e
  BY <1>4, <1>7, <1>8 DEF ActRecord
<1>11. /\ acts' \in Seq(ActRecord) /\ Len(acts') = n /\ acts'[n] = b
       /\ \A i \in 1..n - 1 : acts'[i] = acts[i]
  BY <1>1, <1>3, <1>4, <1>9, <1>10, SetTopFacts
<1> DEFINE F == Frame("literal", TRUE, 0, acts[n].frame)
           G == Frame("normal", TRUE, Fresh, acts[n].frame)
<1>12. heap' = heap \o <<F, G>>
  BY <1>4 DEF Defer
<1>13. /\ F \in FrameRecord /\ F.kind = "literal" /\ F.blockFrame = 0
       /\ F.ep = acts[n].frame
       /\ G \in FrameRecord /\ G.kind = "normal" /\ ~G.isRemoved
       /\ G.blockFrame = Len(heap) + 1 /\ G.ep = acts[n].frame
  <2>1. acts[n].frame \in Nat /\ Fresh \in Nat /\ Fresh = Len(heap) + 1
    BY <1>3, <1>4 DEF Fresh
  <2> QED
    BY <2>1 DEF Frame, FrameRecord, FrameKinds
<1> HIDE DEF F, G
<1>14. /\ heap' \in Seq(FrameRecord) /\ Len(heap') = Len(heap) + 2
       /\ \A f \in 1..Len(heap) : heap'[f] = heap[f]
       /\ heap'[Len(heap) + 1] = F /\ heap'[Len(heap) + 2] = G
  BY <1>3, <1>12, <1>13, AllocTwo
<1>15. SameFrames
  BY <1>3, <1>14 DEF SameFrames
<1>16. TypeOK'
  BY <1>3, <1>9, <1>11, <1>14 DEF TypeOK
<1>17. ASSUME NEW f \in Len(heap) + 1..Len(heap') PROVE FrameSound(f)'
  <2>1. acts[n].frame \in 0..Len(heap') /\ acts[n].frame # 0
    BY <1>3, <1>4, <1>14
  <2>2. CASE f = Len(heap) + 1
    BY <1>13, <1>14, <2>1, <2>2 DEF FrameSound
  <2>3. CASE f = Len(heap) + 2
    <3>1. Len(heap) + 1 \in 1..Len(heap') /\ heap'[Len(heap) + 1].kind = "literal"
      BY <1>3, <1>13, <1>14
    <3>2. heap'[f] = G
      BY <1>14, <2>3
    <3> QED
      BY <1>13, <2>1, <3>1, <3>2 DEF FrameSound
  <2> QED
    BY <1>3, <1>14, <1>17, <2>2, <2>3
<1>18. HeapSound'
  BY <1>3, <1>15, <1>16, <1>17, HeapKept
<1>19. ASSUME NEW i \in 1..n - 1
       PROVE  ActSound(i)' /\ Pending(i)' /\ Slots(i)'
  <2>1. /\ i \in 1..n /\ i \in 1..Len(acts')
        /\ ActSound(i) /\ Pending(i) /\ Slots(i) /\ acts'[i] = acts[i]
        /\ Len(acts[i].defers) \in Nat
    BY <1>1, <1>3, <1>4, <1>11, ActFields DEF ActsSound
  <2>2. SameAct(i)
    BY <2>1 DEF SameAct
  <2>3. StillPending(i)
    BY <1>1, <1>3, <1>14, <2>1, PendingRange DEF StillPending
  <2>4. ActSound(i)' /\ Pending(i)'
    BY <1>1, <1>3, <1>15, <1>16, <2>1, <2>2, <2>3, KeptAct, KeptPending
  <2>5. acts[i].base <= Len(stack')
    BY <1>9, <2>1 DEF Slots
  <2> QED
    BY <2>1, <2>2, <2>4, <2>5, KeptSlots
<1>20. ActSound(n)' /\ Slots(n)'
  <2>1. ActSound(n) /\ Slots(n)
    BY <1>1, <1>3, <1>4 DEF ActsSound
  <2>2. /\ acts[n].frame \in 1..Len(heap')
        /\ heap'[acts[n].frame] = heap[acts[n].frame]
    BY <1>3, <1>4, <1>14
  <2>3. ActSound(n)'
    BY <1>4, <1>10, <1>11, <2>1, <2>2 DEF ActSound
  <2>4. Slots(n)'
    BY <1>9, <1>10, <1>11, <2>1 DEF Slots
  <2> QED
    BY <2>3, <2>4
<1>21. Pending(n)'
  <2>1. ActSound(n) /\ Pending(n)
    BY <1>1, <1>3, <1>4 DEF ActsSound
  <2>2. acts'[n].defers = e /\ acts'[n].frame = acts[n].frame
    BY <1>10, <1>11
  <2>3. ASSUME NEW k \in 1..m
        PROVE  /\ d[k] \in acts[n].frame + 1..Len(heap')
               /\ heap'[d[k]].kind = "normal" /\ ~heap'[d[k]].isRemoved
               /\ d[k] < c
               /\ \A l \in k + 1..m : d[k] < d[l]
    <3>1. /\ d[k] \in acts[n].frame + 1..Len(heap)
          /\ heap[d[k]].kind = "normal" /\ ~heap[d[k]].isRemoved
          /\ \A l \in k + 1..m : d[k] < d[l]
      BY <1>5, <1>6, <2>1, <2>3 DEF Pending
    <3>2. d[k] \in 1..Len(heap) /\ d[k] \in acts[n].frame + 1..Len(heap')
      BY <1>3, <1>4, <1>14, <3>1
    <3>3. d[k] < c
      BY <1>3, <1>6, <3>2
    <3> QED
      BY <1>14, <3>1, <3>2, <3>3
  <2>4. /\ c \in acts[n].frame + 1..Len(heap')
        /\ heap'[c].kind = "normal" /\ ~heap'[c].isRemoved
    BY <1>3, <1>4, <1>6, <1>13, <1>14
  <2>5. ASSUME NEW k \in 1..m + 1
        PROVE  /\ e[k] \in acts[n].frame + 1..Len(heap')
               /\ heap'[e[k]].kind = "normal" /\ ~heap'[e[k]].isRemoved
               /\ \A l \in k + 1..m + 1 : e[k] < e[l]
    <3>1. CASE k = m + 1
      BY <1>6, <1>7, <2>4, <3>1
    <3>2. CASE k \in 1..m
      <4>1. ASSUME NEW l \in k + 1..m + 1 PROVE d[k] < e[l]
        <5>1. CASE l = m + 1
          BY <1>7, <2>3, <3>2, <5>1
        <5>2. CASE l # m + 1
          <6>1. l \in k + 1..m /\ l \in 1..m
            BY <1>6, <3>2, <4>1, <5>2
          <6> QED
            BY <1>7, <2>3, <3>2, <6>1
        <5> QED
          BY <5>1, <5>2
      <4> QED
        BY <1>7, <2>3, <3>2, <4>1
    <3> QED
      BY <1>6, <2>5, <3>1, <3>2
  <2> QED
    BY <1>7, <2>2, <2>5 DEF Pending
<1>22. ASSUME NEW i \in 1..n, NEW j \in i+1..n PROVE Above(i, j)'
  <2>1. i \in 1..n - 1 /\ j \in 1..n
    BY <1>1, <1>22
  <2>2. Above(i, j)
    BY <1>1, <1>3, <1>22 DEF ActsSound
  <2>3. acts'[j].frame = acts[j].frame /\ acts'[j].recv = acts[j].recv
    <3>1. CASE j = n
      BY <1>10, <1>11, <3>1
    <3>2. CASE j \in 1..n - 1
      BY <1>11, <3>2
    <3> QED
      BY <2>1, <3>1, <3>2
  <2> QED
    BY <1>11, <2>1, <2>2, <2>3 DEF Above
<1>23. ASSUME NEW i \in 1..n - 1 PROVE Waiting(i)'
  <2>1. /\ Waiting(i) /\ i \in 1..n /\ i + 1 \in 1..n
        /\ acts[i].frame \in 1..Len(heap)
    BY <1>1, <1>3, <1>23 DEF ActsSound, ActSound
  <2>2. acts'[i + 1].old = acts[i + 1].old
    <3>1. CASE i + 1 = n
      BY <1>10, <1>11, <3>1
    <3>2. CASE i + 1 \in 1..n - 1
      BY <1>11, <3>2
    <3> QED
      BY <2>1, <3>1, <3>2
  <2> QED
    BY <1>11, <1>14, <2>1, <2>2 DEF Waiting
<1>24. ActsSound'
  <2>1. ASSUME NEW i \in 1..n PROVE ActSound(i)' /\ Pending(i)' /\ Slots(i)'
    <3>1. i = n \/ i \in 1..n - 1
      OBVIOUS
    <3> QED
      BY <1>19, <1>20, <1>21, <3>1
  <2> QED
    BY <1>11, <1>22, <1>23, <2>1 DEF ActsSound
<1>25. ~heap'[acts'[n].frame].isRemoved
  BY <1>4, <1>10, <1>11, <1>14
<1>26. BrokenReturns'
  BY <1>11, <1>25 DEF BrokenReturns
<1>27. FramesMatch'
  <2>1. Len(callFrames) = n /\ \A i \in 1..n : callFrames[i] = acts[i].frame
    BY <1>1, <1>3, <1>4 DEF FramesMatch
  <2>2. \A i \in 1..n : acts'[i].frame = acts[i].frame
    <3>1. ASSUME NEW i \in 1..n PROVE acts'[i].frame = acts[i].frame
      <4>1. i = n \/ i \in 1..n - 1
        OBVIOUS
      <4> QED
        BY <1>10, <1>11, <4>1
    <3> QED
      BY <3>1
  <2> QED
    BY <1>4, <1>9, <1>11, <1>25, <2>1, <2>2 DEF FramesMatch
<1>28. CurrentFrameRuns'
  BY <1>4, <1>9, <1>10, <1>11 DEF CurrentFrameRuns, Top
<1> QED
  BY <1>16, <1>18, <1>24, <1>26, <1>27, <1>28 DEF IInv

\* What Break does to the heap: the flags of the frame and of its block.
LEMMA RemovedFacts ==
  ASSUME TypeOK, NEW f \in 1..Len(heap), heap[f].kind = "normal",
         heap' = Removed(f)
  PROVE  /\ heap' \in Seq(FrameRecord) /\ Len(heap') = Len(heap)
         /\ SameFrames /\ heap'[f].isRemoved /\ heap'[f].stopped
         /\ \A g \in 1..Len(heap) : g # f /\ g # heap[f].blockFrame =>
              heap'[g].isRemoved = heap[g].isRemoved
<1>1. heap \in Seq(FrameRecord) /\ Len(heap) \in Nat
  BY DEF TypeOK
<1> DEFINE R(g) == [heap[g] EXCEPT
                      !.stopped = @ \/ (g = f /\ heap[g].kind # "go"),
                      !.isRemoved = \/ @
                                    \/ g = f
                                    \/ /\ heap[f].isBlock
                                       /\ g = heap[f].blockFrame]
<1>2. heap' = [g \in 1..Len(heap) |-> R(g)]
  BY DEF Removed
<1>3. ASSUME NEW g \in 1..Len(heap)
      PROVE  /\ R(g) \in FrameRecord /\ R(g).kind = heap[g].kind
             /\ R(g).blockFrame = heap[g].blockFrame /\ R(g).ep = heap[g].ep
             /\ g = f => R(g).isRemoved /\ R(g).stopped
             /\ g # f /\ g # heap[f].blockFrame =>
                  R(g).isRemoved = heap[g].isRemoved
  <2>1. heap[g] \in FrameRecord
    BY <1>1
  <2> QED
    BY <2>1 DEF FrameRecord
<1> HIDE DEF R
<1>4. heap' \in Seq(FrameRecord) /\ Len(heap') = Len(heap)
  BY <1>1, <1>2, <1>3
<1>5. \A g \in 1..Len(heap) : heap'[g] = R(g)
  BY <1>2
<1> QED
  BY <1>1, <1>3, <1>4, <1>5 DEF SameFrames

\* Break, when the block has registered no deferred block: the frame it pops
\* is its own, and no other activation or pending block is touched.
LEMMA BreakInv ==
  ASSUME IInv, Break, BreakWithDefers = FALSE
  PROVE  IInv'
<1>1. PICK n \in Nat : n = Len(acts)
  BY DEF IInv, TypeOK
<1>2. Running
  BY DEF Break
<1>3. /\ TypeOK /\ HeapSound /\ ActsSound /\ FramesMatch
      /\ acts \in Seq(ActRecord) /\ Len(heap) \in Nat /\ Len(stack) \in Nat
      /\ heap \in Seq(FrameRecord)
  BY DEF IInv, TypeOK
<1>4. /\ n > 0 /\ acts # <<>> /\ n \in 1..n /\ panic = NoPanic
      /\ acts[n].kind = "normal" /\ acts[n].phase = "exec"
      /\ ~heap[acts[n].frame].isRemoved /\ acts[n].frame \in 1..Len(heap)
      /\ Top(acts) = acts[n] /\ currentFrame = acts[n].frame
  BY <1>1, <1>2, RunningFacts
<1>5. /\ Len(acts[n].defers) = 0
      /\ UNCHANGED <<bottom, currentFrame, acts, stack, errs, panic, outcome>>
  BY <1>4 DEF Break
<1>6. PICK f \in 1..Len(heap) : f = acts[n].frame
  BY <1>4
<1>7. /\ callFrames # <<>> /\ Top(callFrames) = f
      /\ Pop(callFrames) \in Seq(Nat) /\ Len(Pop(callFrames)) = n - 1
      /\ \A i \in 1..n - 1 : Pop(callFrames)[i] = callFrames[i]
  BY <1>1, <1>3, <1>4, <1>6, PopBoth
<1>8. callFrames' = Pop(callFrames) /\ heap' = Removed(f)
  BY <1>7 DEF Break, popFrame
<1>9. heap[f].kind = "normal"
  BY <1>1, <1>3, <1>4, <1>6 DEF ActsSound, ActSound
<1>10. /\ heap' \in Seq(FrameRecord) /\ Len(heap') = Len(heap)
       /\ SameFrames /\ heap'[f].isRemoved /\ heap'[f].stopped
       /\ \A g \in 1..Len(heap) : g # f /\ g # heap[f].blockFrame =>
            heap'[g].isRemoved = heap[g].isRemoved
  BY <1>3, <1>6, <1>8, <1>9, RemovedFacts
<1>11. \A g \in 1..Len(heap) : g # f /\ heap[g].kind # "literal" =>
         heap'[g].isRemoved = heap[g].isRemoved
  <2>1. ASSUME NEW g \in 1..Len(heap), g # f, heap[g].kind # "literal"
        PROVE  g # heap[f].blockFrame
    BY <1>3, <1>6, <2>1 DEF HeapSound, FrameSound
  <2> QED
    BY <1>10, <2>1
<1>12. TypeOK'
  BY <1>3, <1>5, <1>7, <1>8, <1>10 DEF TypeOK
<1>13. HeapSound'
  <2>1. \A g \in Len(heap) + 1..Len(heap') : FrameSound(g)'
    BY <1>3, <1>10
  <2> QED
    BY <1>3, <1>10, <1>12, <2>1, HeapKept
<1>14. ASSUME NEW i \in 1..n
       PROVE  /\ ActSound(i)' /\ Pending(i)' /\ Slots(i)'
              /\ i # n => ~heap'[acts[i].frame].isRemoved
  <2>1. /\ ActSound(i) /\ Pending(i) /\ Slots(i) /\ acts[i].frame \in Nat
        /\ Len(acts[i].defers) \in Nat /\ acts[n].frame \in Nat
    BY <1>1, <1>3, <1>4, ActFields DEF ActsSound
  <2>2. SameAct(i)
    BY <1>5, <2>1 DEF SameAct
  <2>3. CASE i = n
    BY <1>1, <1>3, <1>5, <1>10, <1>12, <2>1, <2>2, <2>3, KeptAct, KeptPending,
       KeptSlots DEF StillPending, Slots
  <2>4. CASE i # n
    <3>1. n \in i + 1..n /\ i \in 1..n - 1
      BY <1>14, <2>4
    <3>2. Above(i, n) /\ Waiting(i)
      BY <1>1, <1>3, <3>1 DEF ActsSound
    <3>3. ASSUME NEW k \in 1..Len(acts[i].defers)
          PROVE  heap'[acts[i].defers[k]].isRemoved
                   = heap[acts[i].defers[k]].isRemoved
      <4>1. /\ acts[i].defers[k] \in 1..Len(heap)
            /\ heap[acts[i].defers[k]].kind = "normal"
        BY <1>1, <1>3, <2>1, PendingRange DEF Pending
      <4>2. acts[i].defers[k] < acts[n].frame
        BY <3>2 DEF Above
      <4>3. acts[i].defers[k] # f
        BY <1>6, <2>1, <4>1, <4>2
      <4> QED
        BY <1>11, <4>1, <4>3
    <3>4. StillPending(i)
      BY <3>3 DEF StillPending
    <3>5. acts[i].base <= Len(stack')
      BY <1>5, <2>1 DEF Slots
    <3>6. ActSound(i)' /\ Pending(i)' /\ Slots(i)'
      <4>1. i \in 1..Len(acts) /\ i \in 1..Len(acts')
        BY <1>1, <1>5
      <4> QED
        BY <1>3, <1>10, <1>12, <2>1, <2>2, <3>4, <3>5, <4>1, KeptAct,
           KeptPending, KeptSlots
    <3>7. acts[i].frame # f
      <4>1. acts[i].frame < acts[n].frame
        BY <3>2 DEF Above
      <4> QED
        BY <1>6, <2>1, <4>1
    <3>8. /\ acts[i].frame \in 1..Len(heap)
          /\ heap[acts[i].frame].kind # "literal"
          /\ ~heap[acts[i].frame].isRemoved
      BY <2>1, <3>2 DEF ActSound, Waiting
    <3> QED
      BY <1>11, <3>6, <3>7, <3>8
  <2> QED
    BY <2>3, <2>4
<1>15. ActsSound'
  <2>1. \A i \in 1..n : \A j \in i+1..n : Above(i, j)'
    BY <1>1, <1>3, <1>5 DEF ActsSound, Above
  <2>2. ASSUME NEW i \in 1..n - 1 PROVE Waiting(i)'
    <3>1. i \in 1..n /\ i # n /\ Waiting(i)
      BY <1>1, <1>3, <2>2 DEF ActsSound
    <3> QED
      BY <1>5, <1>14, <3>1 DEF Waiting
  <2>3. Len(acts') = n
    BY <1>1, <1>5
  <2> QED
    BY <1>14, <2>1, <2>2, <2>3 DEF ActsSound
<1>16. BrokenReturns'
  BY <1>1, <1>4, <1>5, <1>6, <1>10 DEF BrokenReturns
<1>17. FramesMatch'
  <2>1. \A i \in 1..n - 1 : callFrames[i] = acts[i].frame
    BY <1>1, <1>3, <1>4 DEF FramesMatch
  <2> QED
    BY <1>1, <1>4, <1>5, <1>6, <1>7, <1>8, <1>10, <2>1 DEF FramesMatch
<1>18. CurrentFrameRuns'
  BY <1>4, <1>5 DEF CurrentFrameRuns, Top
<1> QED
  BY <1>12, <1>13, <1>15, <1>16, <1>17, <1>18 DEF IInv

-----------------------------------------------------------------------------
(* The invariant holds.                                                    *)

\* A panic that left the program, or ends the process, touches no frame.
LEMMA ExecRecoversInv ==
  ASSUME IInv, ExecRecovers
  PROVE  IInv'
<1>1. /\ UNCHANGED <<heap, callFrames, bottom, currentFrame, acts, stack, errs>>
      /\ panic # NoPanic /\ panic' \in {NoPanic, panic}
      /\ outcome' = Ends(panic)
      /\ acts = <<>> \/ panic' # NoPanic
  BY DEF ExecRecovers
<1>2. TypeOK /\ panic \in PanicValue /\ NoPanic \in PanicValue
  BY DEF IInv, TypeOK, NoPanic, PanicValue
<1>3. TypeOK'
  BY <1>1, <1>2 DEF TypeOK, Ends
<1>4. HeapSound' /\ ActsSound' /\ FramesMatch'
  BY <1>1 DEF IInv, HeapSound, FrameSound, ActsSound, ActSound, Pending, Slots,
              Above, Waiting, FramesMatch
<1>5. BrokenReturns' /\ CurrentFrameRuns'
  <2>1. acts = <<>> => ~(Len(acts) > 0)
    BY <1>2 DEF TypeOK
  <2> QED
    BY <1>1, <2>1 DEF IInv, BrokenReturns, CurrentFrameRuns
<1> QED
  BY <1>3, <1>4, <1>5 DEF IInv

\* The initial state satisfies the invariant.
LEMMA InitInv ==
  ASSUME Init
  PROVE  IInv
<1>1. /\ heap = <<>> /\ acts = <<>> /\ callFrames = <<>> /\ stack = <<>>
      /\ Len(heap) = 0 /\ Len(acts) = 0 /\ Len(callFrames) = 0
  BY DEF Init
<1>2. /\ heap \in Seq(FrameRecord) /\ acts \in Seq(ActRecord)
      /\ callFrames \in Seq(Nat) /\ stack \in Seq({Val} \cup Errors)
      /\ panic \in PanicValue
  BY <1>1 DEF Init, NoPanic, PanicValue
<1>3. TypeOK
  BY <1>2 DEF Init, TypeOK
<1>4. HeapSound /\ ActsSound
  BY <1>1 DEF HeapSound, ActsSound
<1>5. BrokenReturns /\ FramesMatch /\ CurrentFrameRuns
  BY <1>1 DEF BrokenReturns, FramesMatch, CurrentFrameRuns
<1> QED
  BY <1>3, <1>4, <1>5 DEF IInv

\* Every step keeps it.
LEMMA NextInv ==
  ASSUME IInv, [Next]_vars, BreakWithDefers = FALSE
  PROVE  IInv'
<1>1. CASE UNCHANGED vars
  <2>1. UNCHANGED <<heap, callFrames, bottom, currentFrame, acts, stack, errs,
                    panic, outcome>>
    BY <1>1 DEF vars
  <2>2. TypeOK' /\ HeapSound' /\ FramesMatch'
    BY <2>1 DEF IInv, TypeOK, HeapSound, FrameSound, FramesMatch
  <2>3. ActsSound'
    BY <2>1 DEF IInv, ActsSound, ActSound, Pending, Slots, Above, Waiting
  <2>4. BrokenReturns' /\ CurrentFrameRuns'
    BY <2>1 DEF IInv, BrokenReturns, CurrentFrameRuns
  <2> QED
    BY <2>2, <2>3, <2>4 DEF IInv
<1>2. CASE ExecInstructions
  BY <1>2, ProgramInv
<1>3. CASE ExecRecovers
  BY <1>3, ExecRecoversInv
<1>4. CASE CallMethod
  BY <1>4, CallMethodInv
<1>5. CASE CallBuiltin("each") \/ CallBuiltin("try") \/ CallBuiltin("require")
  BY <1>5, CallBuiltinInv
<1>6. CASE CallNew
  BY <1>6, CallNewInv
<1>7. CASE DefClass
  BY <1>7, DefClassInv
<1>8. CASE InvokeBlock
  BY <1>8, InvokeBlockInv
<1>9. CASE Defer
  BY <1>9, DeferInv
<1>10. CASE Break
  BY <1>10, BreakInv
<1>11. CASE Discard \/ LeafBuiltin \/ BuiltinPanics
  BY <1>11, OperandInv
<1>12. CASE Yield
  BY <1>12, YieldInv
<1>13. CASE RunFile
  BY <1>13, RunFileInv
<1>14. CASE ReturnFromEach \/ ReturnFromTry \/ ReturnFromRequire
  BY <1>14, ReturnInv
<1>15. CASE Leave \/ Stopped \/ UnwindExec
  BY <1>15, LeaveFrameInv
<1>16. CASE RunDefer
  BY <1>16, RunDeferInv
<1>17. CASE FinishFrame
  BY <1>17, FinishFrameInv
<1>18. CASE Rethrow \/ UnwindDefers \/ UnwindBuiltin
  BY <1>18, RaiseInv
<1>19. CASE TryRecovers \/ RequireRecovers
  BY <1>19, RecoverInv
<1> QED
  BY <1>1, <1>2, <1>3, <1>4, <1>5, <1>6, <1>7, <1>8, <1>9, <1>10, <1>11, <1>12,
     <1>13, <1>14, <1>15, <1>16, <1>17, <1>18, <1>19 DEF Next, Step

\* Deferred blocks still to run come before anything that is running.
LEMMA DefersInOrder ==
  ASSUME IInv
  PROVE  DefersReversed
<1>1. TypeOK /\ ActsSound
  BY DEF IInv
<1> SUFFICES ASSUME NEW i \in 1..Len(acts), NEW k \in 1..Len(acts[i].defers)
             PROVE  /\ acts[i].frame < acts[i].defers[k]
                    /\ \A j \in i+1..Len(acts) :
                         acts[i].defers[k] < acts[j].frame
  BY DEF DefersReversed
<1>2. acts[i].defers[k] \in acts[i].frame + 1..Len(heap)
  BY <1>1 DEF ActsSound, Pending
<1>3. acts[i].frame \in Nat /\ Len(heap) \in Nat
  BY <1>1, ActFields DEF TypeOK
<1>4. acts[i].frame < acts[i].defers[k]
  BY <1>2, <1>3
<1>5. \A j \in i+1..Len(acts) : Above(i, j)
  BY <1>1 DEF ActsSound
<1> QED
  BY <1>4, <1>5 DEF Above

\* Everything below holds of programs that do not break out of a block after
\* it registered a deferred block: stopFrame then pops a frame of its callers.
LEMMA Invariance ==
  ASSUME BreakWithDefers = FALSE
  PROVE  Spec => []IInv
<1>1. Init => IInv
  BY InitInv
<1>2. IInv /\ [Next]_vars => IInv'
  BY NextInv
<1> QED
  BY <1>1, <1>2, PTL DEF Spec

\* Every variable of the thread keeps its shape (the structs of call_frame.go,
\* thread.go and error.go).
THEOREM TypesKept ==
  ASSUME BreakWithDefers = FALSE
  PROVE  Spec => []TypeOK
<1>1. IInv => TypeOK
  BY DEF IInv
<1> QED
  BY <1>1, Invariance, PTL

\* callFrameStack agrees with Go's own stack of evaluateNormalFrame and
\* evaluateGoFrame calls at every step of execution and of unwinding.
THEOREM StacksAgree ==
  ASSUME BreakWithDefers = FALSE
  PROVE  Spec => []FramesMatch
<1>1. IInv => FramesMatch
  BY DEF IInv
<1> QED
  BY <1>1, Invariance, PTL

\* GetBlock reads the block of the frame that is running, although a panic
\* leaves t.currentFrame pointing at a dead frame.
THEOREM CurrentFrameIsRunning ==
  ASSUME BreakWithDefers = FALSE
  PROVE  Spec => []CurrentFrameRuns
<1>1. IInv => CurrentFrameRuns
  BY DEF IInv
<1> QED
  BY <1>1, Invariance, PTL

\* execFrame's deferStack runs in reverse order, each block at most once.
THEOREM DefersRunReversed ==
  ASSUME BreakWithDefers = FALSE
  PROVE  Spec => []DefersReversed
<1>1. IInv => DefersReversed
  BY DefersInOrder
<1> QED
  BY <1>1, Invariance, PTL
=============================================================================
