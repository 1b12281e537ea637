--------------------------- MODULE ThreadOperands ---------------------------
(* Proofs about the data stack of one interpreter thread: the error that   *)
(* propagates stays on top of it, deferred blocks leave the frame's value  *)
(* where it was, callees leave their callers' operands alone, and try      *)
(* absorbs what it recovers.  They hold for every program, also for one    *)
(* whose blocks break after they registered a deferred block: nothing here *)
(* depends on callFrameStack.                                              *)
EXTENDS ThreadProofs

-----------------------------------------------------------------------------
(* The inductive invariant.                                                *)

ErrorFlags == [born : BOOLEAN, Raised : BOOLEAN, Ignore : BOOLEAN]

\* The part of TypeOK the data stack depends on.
OperandTypes ==
  /\ heap \in Seq({heap[f] : f \in 1..Len(heap)})
  /\ currentFrame \in Nat
  /\ acts \in Seq(ActRecord)
  /\ stack \in Seq({Val} \cup Errors)
  /\ errs \in [Errors -> ErrorFlags]
  /\ panic \in PanicValue

\* A builtin runs no deferred blocks; a frame that does has its value, or the
\* error it was left with, in the slot below them.
Result(i) ==
  /\ acts[i].kind # "normal" => acts[i].via = "send" /\ acts[i].phase = "exec"
  /\ acts[i].phase = "exec" => acts[i].pend = NoPanic
  /\ acts[i].phase = "defers" =>
       /\ acts[i].ret <= Len(stack)
       /\ acts[i].pend \in Errors =>
            acts[i].ret >= 1 /\ stack[acts[i].ret] = acts[i].pend

\* The slots of what runs inside i lie above those of i and above its result.
SlotsAbove(i, j) ==
  /\ acts[i].base < acts[j].recv
  /\ acts[i].phase = "defers" => acts[i].ret < acts[j].recv

\* Inside a frame that is being left only its deferred blocks run.
DeferInside(i) ==
  acts[i].phase = "defers" =>
    acts[i + 1].via = "defer" /\ acts[i + 1].recv = acts[i].ret + 1

PanicOnTop == panic \in Errors => stack # <<>> /\ Top(stack) = panic

Operands ==
  /\ \A i \in 1..Len(acts) : Slots(i) /\ Result(i)
  /\ \A i \in 1..Len(acts) : \A j \in i+1..Len(acts) : SlotsAbove(i, j)
  /\ \A i \in 1..Len(acts)-1 : DeferInside(i)
  /\ ReturnValueKept
  /\ PanicOnTop

OInv == OperandTypes /\ Operands

\* What CallersKept says of one step.
OperandsBelowKept ==
  LET m == IF acts = <<>> THEN 0 ELSE Top(acts).recv - 1
  IN \A i \in 1..m : i <= Len(stack') /\ stack'[i] = stack[i]

-----------------------------------------------------------------------------
(* Sequences and types.                                                    *)

\* A sequence of anything is a sequence of its own elements.
LEMMA Listed ==
  ASSUME NEW S, NEW s \in Seq(S)
  PROVE  s \in Seq({s[f] : f \in 1..Len(s)})
<1>1. Len(s) \in Nat /\ s = [f \in 1..Len(s) |-> s[f]]
  OBVIOUS
<1> QED
  BY <1>1, SMT

\* What OperandTypes says of the sequences, with their lengths.
LEMMA OperandsTyped ==
  ASSUME OperandTypes
  PROVE  /\ Len(heap) \in Nat
         /\ acts \in Seq(ActRecord) /\ Len(acts) \in Nat
         /\ stack \in Seq({Val} \cup Errors) /\ Len(stack) \in Nat
         /\ Val \notin Errors /\ NoPanic \notin Errors
         /\ Runtime \notin Errors /\ GoString \notin Errors
<1>1. Len(heap) \in Nat
  BY DEF OperandTypes
<1>2. /\ acts \in Seq(ActRecord) /\ Len(acts) \in Nat
      /\ stack \in Seq({Val} \cup Errors) /\ Len(stack) \in Nat
  BY DEF OperandTypes
<1>3. /\ Val \notin Errors /\ NoPanic \notin Errors
      /\ Runtime \notin Errors /\ GoString \notin Errors
  BY ThreadAssumption DEF ThreadAssumption, NoPanic
<1> QED
  BY <1>1, <1>2, <1>3

\* The fields of the activation on top, and what the invariant says of it.
LEMMA TopFacts ==
  ASSUME OInv, acts # <<>>, NEW n, n = Len(acts)
  PROVE  /\ n \in 1..Len(acts) /\ n - 1 \in Nat
         /\ Top(acts) = acts[n]
         /\ Slots(n) /\ Result(n)
         /\ acts[n].recv \in Nat /\ acts[n].base \in Nat /\ acts[n].ret \in Nat
         /\ acts[n].recv >= 1 /\ acts[n].recv <= Len(stack) + 1
         /\ acts[n].frame \in Nat /\ acts[n].old \in Nat
         /\ acts[n].kind \in ActKinds /\ acts[n].via \in Vias
         /\ acts[n].phase \in {"exec", "defers"} /\ acts[n].pend \in PanicValue
<1>1. acts \in Seq(ActRecord) /\ Len(stack) \in Nat
  BY OperandsTyped DEF OInv
<1>2. n \in 1..Len(acts) /\ n - 1 \in Nat
  BY <1>1
<1>3. Slots(n) /\ Result(n)
  BY <1>2 DEF OInv, Operands
<1>4. /\ acts[n].recv \in Nat /\ acts[n].base \in Nat /\ acts[n].ret \in Nat
      /\ acts[n].frame \in Nat /\ acts[n].old \in Nat
      /\ acts[n].kind \in ActKinds /\ acts[n].via \in Vias
      /\ acts[n].phase \in {"exec", "defers"} /\ acts[n].pend \in PanicValue
  BY <1>1, <1>2, ActFields
<1>5. acts[n].recv >= 1 /\ acts[n].recv <= Len(stack) + 1
  BY <1>1, <1>3, <1>4 DEF Slots
<1> QED
  BY <1>2, <1>3, <1>4, <1>5 DEF Top

-----------------------------------------------------------------------------
(* The ways a step can touch the two stacks.                               *)

\* Two activations alike in all the data stack depends on.
Alike(b, a) ==
  /\ b.kind = a.kind /\ b.via = a.via /\ b.recv = a.recv /\ b.base = a.base
  /\ b.phase = a.phase /\ b.pend = a.pend /\ b.ret = a.ret

\* The step leaves activation i so.
SameOperands(i) == Alike(acts'[i], acts[i])

\* The slots up to k are still there and hold what they held.
KeptUpTo(k) == \A i \in 1..k : i <= Len(stack') /\ stack'[i] = stack[i]

\* An activation whose slots are kept keeps them.
LEMMA KeptOperands ==
  ASSUME OperandTypes, OperandTypes',
         NEW i \in 1..Len(acts), i \in 1..Len(acts'),
         SameOperands(i), Slots(i), Result(i),
         acts[i].base <= Len(stack'),
         acts[i].phase = "defers" =>
           /\ acts[i].ret <= Len(stack')
           /\ acts[i].ret >= 1 => stack'[acts[i].ret] = stack[acts[i].ret]
  PROVE  Slots(i)' /\ Result(i)'
<1>1. Slots(i)'
  BY DEF Slots, SameOperands, Alike
<1>2. Result(i)'
  BY DEF Result, SameOperands, Alike
<1> QED
  BY <1>1, <1>2

\* What lies below the slots of activation n keeps every activation under it.
LEMMA KeptUnder ==
  ASSUME OInv, OperandTypes', NEW n \in 1..Len(acts),
         NEW i \in 1..n-1, i \in 1..Len(acts'),
         SameOperands(i), KeptUpTo(acts[n].recv - 1),
         acts[n].recv - 1 <= Len(stack')
  PROVE  Slots(i)' /\ Result(i)'
<1>1. /\ acts \in Seq(ActRecord) /\ Len(acts) \in Nat
      /\ Len(stack) \in Nat /\ Len(stack') \in Nat
  BY OperandsTyped, OperandTypes DEF OInv, OperandTypes
<1>2. i \in 1..Len(acts) /\ n \in i+1..Len(acts)
  BY <1>1
<1>3. Slots(i) /\ Result(i) /\ SlotsAbove(i, n)
  BY <1>2 DEF OInv, Operands
<1>4. /\ acts[i].base \in Nat /\ acts[i].ret \in Nat /\ acts[n].recv \in Nat
  BY <1>1, <1>2, ActFields
<1>5. /\ acts[i].base <= Len(stack')
      /\ acts[i].phase = "defers" =>
           /\ acts[i].ret <= Len(stack')
           /\ acts[i].ret >= 1 => stack'[acts[i].ret] = stack[acts[i].ret]
  <2>1. acts[i].base <= acts[n].recv - 1
    BY <1>3, <1>4 DEF SlotsAbove
  <2>2. CASE acts[i].phase = "defers"
    <3>1. acts[i].ret <= acts[n].recv - 1
      BY <1>3, <1>4, <2>2 DEF SlotsAbove
    <3>2. acts[i].ret >= 1 => stack'[acts[i].ret] = stack[acts[i].ret]
      <4>1. acts[i].ret >= 1 => acts[i].ret \in 1..acts[n].recv - 1
        BY <1>4, <3>1
      <4> QED
        BY <4>1 DEF KeptUpTo
    <3>3. /\ acts[i].ret <= Len(stack') /\ acts[i].base <= Len(stack')
      BY <1>1, <1>4, <2>1, <3>1
    <3> QED
      BY <3>2, <3>3
  <2> QED
    BY <1>1, <1>4, <2>1, <2>2
<1> QED
  BY <1>2, <1>3, <1>5, KeptOperands DEF OInv

\* Entering a frame: what was on the data stack stays, and the result of the
\* callee goes to the slot above.
LEMMA Enters ==
  ASSUME OInv, OperandTypes', panic' = NoPanic,
         NEW n \in Nat, n = Len(acts), Len(acts') = n + 1,
         \A i \in 1..n : SameOperands(i),
         KeptUpTo(Len(stack)), Len(stack') >= Len(stack),
         acts'[n + 1].recv = Len(stack) + 1,
         acts'[n + 1].recv <= acts'[n + 1].base + 1,
         acts'[n + 1].base <= Len(stack'),
         acts'[n + 1].via \in {"send", "invoke", "init"} =>
           acts'[n + 1].recv <= acts'[n + 1].base,
         acts'[n + 1].kind # "normal" => acts'[n + 1].via = "send",
         acts'[n + 1].phase = "exec", acts'[n + 1].pend = NoPanic,
         n > 0 /\ acts[n].phase = "defers" =>
           acts'[n + 1].via = "defer" /\ acts[n].ret = Len(stack)
  PROVE  Operands' /\ OperandsBelowKept
<1>1. /\ acts \in Seq(ActRecord) /\ acts' \in Seq(ActRecord)
      /\ Len(stack) \in Nat /\ Len(stack') \in Nat
  BY OperandsTyped DEF OInv, OperandTypes
<1>2. ASSUME NEW i \in 1..n
      PROVE  /\ i \in 1..Len(acts) /\ i \in 1..Len(acts')
             /\ Slots(i) /\ Result(i) /\ SameOperands(i)
             /\ acts[i].base \in Nat /\ acts[i].ret \in Nat
             /\ acts[i].recv \in Nat
             /\ acts[i].base <= Len(stack)
             /\ acts[i].phase = "defers" => acts[i].ret <= Len(stack)
  <2>1. i \in 1..Len(acts) /\ i \in 1..Len(acts')
    OBVIOUS
  <2>2. Slots(i) /\ Result(i)
    BY <2>1 DEF OInv, Operands
  <2>3. /\ acts[i].base \in Nat /\ acts[i].ret \in Nat
        /\ acts[i].recv \in Nat
    BY <1>1, <2>1, ActFields
  <2> QED
    BY <2>1, <2>2, <2>3 DEF Slots, Result
<1>3. ASSUME NEW i \in 1..n PROVE Slots(i)' /\ Result(i)'
  <2>1. acts[i].phase = "defers" /\ acts[i].ret >= 1 =>
          stack'[acts[i].ret] = stack[acts[i].ret]
    BY <1>1, <1>2 DEF KeptUpTo
  <2>2. /\ acts[i].base <= Len(stack')
        /\ acts[i].phase = "defers" => acts[i].ret <= Len(stack')
    BY <1>1, <1>2
  <2> QED
    BY <1>2, <2>1, <2>2, KeptOperands DEF OInv
<1>4. n + 1 \in 1..Len(acts') /\ Top(acts)' = acts'[n + 1] /\ acts' # <<>>
  BY <1>1 DEF Top
<1>5. acts'[n + 1].recv \in Nat /\ acts'[n + 1].base \in Nat
  BY <1>1, <1>4, ActFields
<1>6. Slots(n + 1)' /\ Result(n + 1)'
  BY <1>1, <1>5 DEF Slots, Result
<1>7. ASSUME NEW i \in 1..Len(acts') PROVE Slots(i)' /\ Result(i)'
  BY <1>3, <1>6
<1>8. ASSUME NEW i \in 1..Len(acts'), NEW j \in i+1..Len(acts')
      PROVE  SlotsAbove(i, j)'
  <2>1. i \in 1..n
    OBVIOUS
  <2>2. CASE j = n + 1
    <3>1. /\ acts'[i].base = acts[i].base /\ acts'[i].ret = acts[i].ret
          /\ acts'[i].phase = acts[i].phase
          /\ acts'[j].recv = Len(stack) + 1
      BY <1>2, <2>1, <2>2 DEF SameOperands, Alike
    <3>2. /\ acts[i].base < Len(stack) + 1
          /\ acts[i].phase = "defers" => acts[i].ret < Len(stack) + 1
      BY <1>1, <1>2, <2>1
    <3> QED
      BY <3>1, <3>2 DEF SlotsAbove
  <2>3. CASE j \in i+1..n
    <3>1. SlotsAbove(i, j) /\ SameOperands(i) /\ SameOperands(j)
      BY <1>2, <2>1, <2>3 DEF OInv, Operands
    <3> QED
      BY <3>1 DEF SlotsAbove, SameOperands, Alike
  <2> QED
    BY <2>1, <2>2, <2>3
<1>9. ASSUME NEW i \in 1..Len(acts')-1 PROVE DeferInside(i)'
  <2>1. i \in 1..n /\ SameOperands(i)
    BY <1>2
  <2>2. CASE i = n
    BY <1>1, <2>1, <2>2 DEF DeferInside, SameOperands, Alike
  <2>3. CASE i \in 1..n-1
    <3>1. DeferInside(i) /\ SameOperands(i) /\ SameOperands(i + 1)
      BY <1>2, <2>3 DEF OInv, Operands
    <3> QED
      BY <3>1 DEF DeferInside, SameOperands, Alike
  <2> QED
    BY <2>1, <2>2, <2>3
<1>10. ReturnValueKept'
  BY <1>4 DEF ReturnValueKept, Deferring
<1>11. PanicOnTop'
  BY OperandsTyped DEF PanicOnTop, OInv
<1>12. OperandsBelowKept
  <2>1. CASE acts = <<>>
    BY <2>1 DEF OperandsBelowKept
  <2>2. CASE acts # <<>>
    BY <1>1, <2>2, TopFacts DEF OperandsBelowKept, KeptUpTo
  <2> QED
    BY <2>1, <2>2
<1> QED
  BY <1>7, <1>8, <1>9, <1>10, <1>11, <1>12 DEF Operands

\* An activation ends: its slots are given up, nothing below is touched.
LEMMA Ended ==
  ASSUME OInv, OperandTypes', acts # <<>>, acts' = Pop(acts),
         NEW n, n = Len(acts),
         KeptUpTo(acts[n].recv - 1), acts[n].recv - 1 <= Len(stack'),
         panic' = NoPanic /\ acts[n].via = "defer" =>
           Len(stack') = acts[n].recv - 1,
         PanicOnTop'
  PROVE  Operands' /\ OperandsBelowKept
<1>1. /\ acts \in Seq(ActRecord) /\ Len(acts) \in Nat
      /\ Len(stack) \in Nat /\ Len(stack') \in Nat
  BY OperandsTyped DEF OInv, OperandTypes
<1>2. /\ n \in 1..Len(acts) /\ n - 1 \in Nat
      /\ Len(acts') = n - 1
      /\ \A i \in 1..n-1 : acts'[i] = acts[i]
  BY <1>1, PopFacts
<1>3. ASSUME NEW i \in 1..n-1
      PROVE  i \in 1..Len(acts) /\ i \in 1..Len(acts') /\ SameOperands(i)
  BY <1>1, <1>2 DEF SameOperands, Alike
<1>4. ASSUME NEW i \in 1..Len(acts') PROVE Slots(i)' /\ Result(i)'
  <2>1. i \in 1..n-1
    BY <1>2
  <2> QED
    BY <1>2, <1>3, <2>1, KeptUnder
<1>5. ASSUME NEW i \in 1..Len(acts'), NEW j \in i+1..Len(acts')
      PROVE  SlotsAbove(i, j)'
  <2>1. i \in 1..n-1 /\ j \in 1..n-1 /\ j \in i+1..Len(acts)
    BY <1>1, <1>2
  <2>2. SlotsAbove(i, j)
    BY <1>3, <2>1 DEF OInv, Operands
  <2> QED
    BY <1>3, <2>1, <2>2 DEF SlotsAbove, SameOperands, Alike
<1>6. ASSUME NEW i \in 1..Len(acts')-1 PROVE DeferInside(i)'
  <2>1. i \in 1..n-1 /\ i + 1 \in 1..n-1 /\ i \in 1..Len(acts)-1
    BY <1>1, <1>2
  <2>2. DeferInside(i)
    BY <2>1 DEF OInv, Operands
  <2> QED
    BY <1>3, <2>1, <2>2 DEF DeferInside, SameOperands, Alike
<1>7. ReturnValueKept'
  <2> SUFFICES ASSUME Deferring' PROVE Len(stack') = Top(acts)'.ret
    BY DEF ReturnValueKept
  <2>1. acts' # <<>> /\ panic' = NoPanic /\ Top(acts)'.phase = "defers"
    BY DEF Deferring
  <2>2. n - 1 \in 1..Len(acts)-1 /\ Top(acts)' = acts[n - 1]
    <3>1. Len(acts') # 0
      BY <2>1, <1>1 DEF Pop
    <3>2. n - 1 \in 1..n-1 /\ Top(acts)' = acts'[n - 1]
      BY <1>2, <3>1 DEF Top
    <3> QED
      BY <1>2, <3>2
  <2>3. DeferInside(n - 1)
    BY <2>2 DEF OInv, Operands
  <2>4. (n - 1) + 1 = n
    BY <1>2
  <2>5. acts[n].via = "defer" /\ acts[n].recv = acts[n - 1].ret + 1
    BY <2>1, <2>2, <2>3, <2>4 DEF DeferInside
  <2>6. acts[n - 1].ret \in Nat
    BY <1>1, <2>2, ActFields
  <2> QED
    BY <2>1, <2>2, <2>5, <2>6
<1>8. OperandsBelowKept
  BY DEF OperandsBelowKept, KeptUpTo, Top
<1> QED
  BY <1>4, <1>5, <1>6, <1>7, <1>8 DEF Operands

\* The activation on top goes on executing.
LEMMA GoesOn ==
  ASSUME OInv, OperandTypes', acts # <<>>,
         NEW n, n = Len(acts), Len(acts') = n,
         \A i \in 1..n : SameOperands(i),
         acts[n].phase = "exec",
         KeptUpTo(acts[n].recv - 1), acts[n].base <= Len(stack'),
         PanicOnTop'
  PROVE  Operands' /\ OperandsBelowKept
<1>1. /\ acts \in Seq(ActRecord) /\ Len(acts) \in Nat
      /\ Len(stack) \in Nat /\ Len(stack') \in Nat
  BY OperandsTyped DEF OInv, OperandTypes
<1>2. /\ n \in 1..Len(acts) /\ Slots(n) /\ Result(n)
      /\ acts[n].recv \in Nat /\ acts[n].base \in Nat
      /\ acts[n].recv - 1 <= Len(stack')
  <2>1. /\ n \in 1..Len(acts) /\ Slots(n) /\ Result(n)
        /\ acts[n].recv \in Nat /\ acts[n].base \in Nat
    BY TopFacts
  <2>2. acts[n].recv <= acts[n].base + 1
    BY <2>1 DEF Slots
  <2> QED
    BY <1>1, <2>1, <2>2
<1>3. ASSUME NEW i \in 1..Len(acts') PROVE Slots(i)' /\ Result(i)'
  <2>1. CASE i = n
    BY <1>2, <2>1, KeptOperands DEF OInv
  <2>2. CASE i \in 1..n-1
    BY <1>2, <2>2, KeptUnder
  <2> QED
    BY <1>1, <2>1, <2>2
<1>4. ASSUME NEW i \in 1..Len(acts'), NEW j \in i+1..Len(acts')
      PROVE  SlotsAbove(i, j)'
  <2>1. SlotsAbove(i, j) /\ SameOperands(i) /\ SameOperands(j)
    BY <1>1 DEF OInv, Operands
  <2> QED
    BY <2>1 DEF SlotsAbove, SameOperands, Alike
<1>5. ASSUME NEW i \in 1..Len(acts')-1 PROVE DeferInside(i)'
  <2>1. DeferInside(i) /\ SameOperands(i) /\ SameOperands(i + 1)
    BY <1>1 DEF OInv, Operands
  <2> QED
    BY <2>1 DEF DeferInside, SameOperands, Alike
<1>6. ReturnValueKept'
  <2>1. Top(acts)'.phase = "exec"
    BY <1>2 DEF Top, SameOperands, Alike
  <2> QED
    BY <2>1 DEF ReturnValueKept, Deferring
<1>7. OperandsBelowKept
  BY DEF OperandsBelowKept, KeptUpTo, Top
<1> QED
  BY <1>3, <1>4, <1>5, <1>6, <1>7 DEF Operands

\* A frame starts to be left: its result is on top of the stack.
LEMMA StartsDefers ==
  ASSUME OInv, OperandTypes', acts # <<>>,
         NEW n, n = Len(acts), Len(acts') = n,
         \A i \in 1..n-1 : SameOperands(i),
         acts'[n].kind = "normal", acts'[n].via = acts[n].via,
         acts'[n].recv = acts[n].recv, acts'[n].base = acts[n].base,
         acts'[n].phase = "defers", acts'[n].ret = Len(stack'),
         acts'[n].pend \in Errors =>
           Len(stack') >= 1 /\ stack'[Len(stack')] = acts'[n].pend,
         KeptUpTo(Len(stack)), Len(stack') >= Len(stack), panic' = NoPanic
  PROVE  Operands' /\ OperandsBelowKept
<1>1. /\ acts \in Seq(ActRecord) /\ Len(acts) \in Nat
      /\ Len(stack) \in Nat /\ Len(stack') \in Nat
  BY OperandsTyped DEF OInv, OperandTypes
<1>2. /\ n \in 1..Len(acts) /\ Slots(n) /\ Top(acts) = acts[n]
      /\ acts[n].recv \in Nat /\ acts[n].base \in Nat
      /\ acts[n].recv <= Len(stack) + 1
  BY TopFacts
<1>3. KeptUpTo(acts[n].recv - 1)
  BY <1>1, <1>2 DEF KeptUpTo
<1>4. ASSUME NEW i \in 1..Len(acts') PROVE Slots(i)' /\ Result(i)'
  <2>1. CASE i = n
    <3>1. Slots(n)'
      BY <1>1, <1>2 DEF Slots
    <3>2. Result(n)'
      BY <1>1 DEF Result
    <3> QED
      BY <2>1, <3>1, <3>2
  <2>2. CASE i \in 1..n-1
    <3>1. acts[n].recv - 1 <= Len(stack')
      BY <1>1, <1>2
    <3> QED
      BY <1>2, <1>3, <2>2, <3>1, KeptUnder
  <2> QED
    BY <1>1, <2>1, <2>2
<1>5. ASSUME NEW i \in 1..Len(acts'), NEW j \in i+1..Len(acts')
      PROVE  SlotsAbove(i, j)'
  <2>1. SlotsAbove(i, j) /\ SameOperands(i) /\ acts'[j].recv = acts[j].recv
    <3>1. SlotsAbove(i, j) /\ i \in 1..n-1
      BY <1>1 DEF OInv, Operands
    <3>2. CASE j = n
      BY <3>1, <3>2
    <3>3. CASE j \in 1..n-1
      BY <3>1, <3>3 DEF SameOperands, Alike
    <3> QED
      BY <1>1, <3>1, <3>2, <3>3
  <2> QED
    BY <2>1 DEF SlotsAbove, SameOperands, Alike
<1>6. ASSUME NEW i \in 1..Len(acts')-1 PROVE DeferInside(i)'
  <2>1. DeferInside(i) /\ SameOperands(i)
    BY <1>1 DEF OInv, Operands
  <2>2. acts'[i + 1].via = acts[i + 1].via /\ acts'[i + 1].recv = acts[i + 1].recv
    <3>1. CASE i + 1 = n
      BY <3>1
    <3>2. CASE i + 1 \in 1..n-1
      BY <3>2 DEF SameOperands, Alike
    <3> QED
      BY <1>1, <3>1, <3>2
  <2> QED
    BY <2>1, <2>2 DEF DeferInside, SameOperands, Alike
<1>7. ReturnValueKept'
  BY DEF ReturnValueKept, Top
<1>8. PanicOnTop'
  BY OperandsTyped DEF PanicOnTop, OInv
<1>9. OperandsBelowKept
  BY <1>2, <1>3 DEF OperandsBelowKept, KeptUpTo
<1> QED
  BY <1>4, <1>5, <1>6, <1>7, <1>8, <1>9 DEF Operands

-----------------------------------------------------------------------------
(* The parts of a step.                                                    *)

\* Allocated frames are added at the end.
LEMMA HeapGrows ==
  ASSUME OperandTypes, NEW T, NEW r \in Seq(T), heap' = heap \o r
  PROVE  heap' \in Seq({heap'[f] : f \in 1..Len(heap')})
<1>1. PICK S : heap \in Seq(S)
  BY DEF OperandTypes
<1>2. heap \in Seq(S \cup T) /\ r \in Seq(S \cup T)
  BY <1>1
<1>3. heap' \in Seq(S \cup T)
  BY <1>2, ConcatFacts
<1>4. PICK h \in Seq(S \cup T) : h = heap'
  BY <1>3
<1>5. h \in Seq({h[f] : f \in 1..Len(h)})
  BY Listed
<1> QED
  BY <1>4, <1>5

\* A frame's flags are set.
LEMMA HeapFlag ==
  ASSUME OperandTypes, NEW f, NEW v, heap' = [heap EXCEPT ![f] = v]
  PROVE  heap' \in Seq({heap'[g] : g \in 1..Len(heap')})
<1>1. PICK S : heap \in Seq(S)
  BY DEF OperandTypes
<1>2. heap \in Seq(S \cup {v})
  BY <1>1
<1>3. heap' \in Seq(S \cup {v})
  <2>1. PICK k \in Nat : k = Len(heap)
    BY <1>2
  <2>2. heap \in [1..k -> S \cup {v}]
    BY <1>2, <2>1
  <2>3. PICK h : h = [g \in 1..k |-> IF g = f THEN v ELSE heap[g]]
    OBVIOUS
  <2>4. h \in Seq(S \cup {v})
    BY <2>2, <2>3
  <2>5. heap' = h
    BY <2>2, <2>3
  <2> QED
    BY <2>4, <2>5
<1>4. PICK h \in Seq(S \cup {v}) : h = heap'
  BY <1>3
<1>5. h \in Seq({h[g] : g \in 1..Len(h)})
  BY Listed
<1> QED
  BY <1>4, <1>5

\* Break marks frames.
LEMMA HeapRemoved ==
  ASSUME OperandTypes, NEW popped, heap' = Removed(popped)
  PROVE  heap' \in Seq({heap'[g] : g \in 1..Len(heap')})
<1>1. Len(heap) \in Nat
  BY OperandsTyped
<1>2. PICK h : h = Removed(popped)
  OBVIOUS
<1>3. PICK e : e = [f \in 1..Len(heap) |-> h[f]]
  OBVIOUS
<1>4. h = e
  BY <1>2, <1>3 DEF Removed
<1>5. e \in Seq({h[f] : f \in 1..Len(heap)})
  BY <1>1, <1>3
<1> QED
  BY <1>2, <1>4, <1>5, Listed

\* Everything evaluate does, called with the data stack extended.
LEMMA Evaluates ==
  ASSUME OInv, NEW n \in Nat, n = Len(acts),
         NEW kind \in ActKinds, NEW via \in Vias,
         NEW frame \in Nat, NEW recv \in Nat, NEW base \in Nat,
         NEW T, NEW frames \in Seq(T),
         NEW below \in Seq(ActRecord), Len(below) = n,
         \A i \in 1..n : Alike(below[i], acts[i]),
         evaluate(below, Act(kind, via, frame, recv, base), frames),
         stack' \in Seq({Val} \cup Errors),
         KeptUpTo(Len(stack)), Len(stack') >= Len(stack),
         recv = Len(stack) + 1, recv <= base + 1, base <= Len(stack'),
         via \in {"send", "invoke", "init"} => recv <= base,
         kind # "normal" => via = "send",
         panic = NoPanic, UNCHANGED <<errs, panic, outcome>>,
         n > 0 /\ acts[n].phase = "defers" =>
           via = "defer" /\ acts[n].ret = Len(stack)
  PROVE  OInv' /\ OperandsBelowKept
<1>1. PICK a : a = Act(kind, via, frame, recv, base)
  OBVIOUS
<1>2. OperandTypes
  BY DEF OInv
<1>3. /\ a \in ActRecord /\ a.kind = kind /\ a.via = via
      /\ a.recv = recv /\ a.base = base /\ a.frame = frame
      /\ a.phase = "exec" /\ a.pend = NoPanic
  <2>1. currentFrame \in Nat
    BY <1>2 DEF OperandTypes
  <2> QED
    BY <1>1, <2>1, NoPanic \in PanicValue DEF Act, ActRecord, NoPanic, PanicValue
<1>4. /\ heap' = heap \o frames /\ currentFrame' = a.frame
      /\ acts' = Append(below, a)
  BY <1>1 DEF evaluate
<1>5. /\ acts' \in Seq(ActRecord) /\ Len(acts') = n + 1
      /\ \A i \in 1..n : acts'[i] = below[i]
      /\ acts'[n + 1] = a
  BY <1>3, <1>4, AppendFacts
<1>6. OperandTypes'
  <2>1. heap' \in Seq({heap'[f] : f \in 1..Len(heap')})
    BY <1>2, <1>4, HeapGrows
  <2>2. currentFrame' \in Nat
    BY <1>3, <1>4
  <2> QED
    BY <1>2, <1>5, <2>1, <2>2 DEF OperandTypes
<1>7. \A i \in 1..n : SameOperands(i)
  BY <1>5 DEF SameOperands
<1>8. Operands' /\ OperandsBelowKept
  BY <1>3, <1>5, <1>6, <1>7, Enters
<1> QED
  BY <1>6, <1>8 DEF OInv

\* What stands below the frames that are entered from code that runs.
LEMMA SelfAlike ==
  ASSUME OInv, NEW n, n = Len(acts)
  PROVE  /\ acts \in Seq(ActRecord) /\ n \in Nat
         /\ \A i \in 1..n : Alike(acts[i], acts[i])
  BY OperandsTyped DEF OInv, Alike

\* The activation on top is replaced by one like it.
LEMMA TopAlike ==
  ASSUME OInv, acts # <<>>, NEW n, n = Len(acts),
         NEW b \in ActRecord, Alike(b, acts[n]),
         NEW below, below = [acts EXCEPT ![n] = b]
  PROVE  /\ below \in Seq(ActRecord) /\ Len(below) = n
         /\ \A i \in 1..n : Alike(below[i], acts[i])
<1>1. acts \in Seq(ActRecord) /\ n \in Nat
  BY SelfAlike
<1>2. /\ below \in Seq(ActRecord) /\ Len(below) = n /\ below[n] = b
      /\ \A i \in 1..n - 1 : below[i] = acts[i]
  BY <1>1, SetTopFacts
<1>3. ASSUME NEW i \in 1..n PROVE Alike(below[i], acts[i])
  <2>1. CASE i = n
    BY <1>2, <2>1
  <2>2. CASE i \in 1..n - 1
    BY <1>2, <2>2 DEF Alike
  <2> QED
    BY <1>1, <2>1, <2>2
<1> QED
  BY <1>2, <1>3

\* A builtin notes that it ran its block or file, a frame that it registered
\* or took a deferred block.
LEMMA FieldsAlike ==
  ASSUME NEW a \in ActRecord, NEW d \in Seq(Nat)
  PROVE  /\ [a EXCEPT !.ran = TRUE] \in ActRecord
         /\ Alike([a EXCEPT !.ran = TRUE], a)
         /\ [a EXCEPT !.defers = d] \in ActRecord
         /\ Alike([a EXCEPT !.defers = d], a)
<1>1. PICK b, c : b = [a EXCEPT !.ran = TRUE] /\ c = [a EXCEPT !.defers = d]
  OBVIOUS
<1>2. b \in ActRecord /\ Alike(b, a)
  BY <1>1 DEF ActRecord, Alike
<1>3. c \in ActRecord /\ Alike(c, a)
  BY <1>1 DEF ActRecord, Alike
<1> QED
  BY <1>1, <1>2, <1>3

\* Pushing values, or none, moves nothing on the data stack.
LEMMA Pushed ==
  ASSUME OperandTypes, NEW v \in {Val} \cup Errors, NEW w \in {Val} \cup Errors,
         \/ stack' = stack \o <<v, w>>
         \/ stack' = Append(stack, v)
         \/ stack' = stack
  PROVE  /\ stack' \in Seq({Val} \cup Errors)
         /\ KeptUpTo(Len(stack)) /\ Len(stack) \in Nat /\ Len(stack') \in Nat
         /\ stack' = stack \o <<v, w>> =>
              Len(stack') = Len(stack) + 2 /\ stack'[Len(stack')] = w
         /\ stack' = Append(stack, v) =>
              Len(stack') = Len(stack) + 1 /\ stack'[Len(stack')] = v
         /\ stack' = stack => Len(stack') = Len(stack)
         /\ Len(stack') >= Len(stack)
<1>1. stack \in Seq({Val} \cup Errors) /\ Len(stack) \in Nat
  BY OperandsTyped
<1>2. CASE stack' = stack \o <<v, w>>
  <2>1. <<v, w>> \in Seq({Val} \cup Errors) /\ Len(<<v, w>>) = 2
        /\ <<v, w>>[2] = w
    OBVIOUS
  <2>2. /\ stack' \in Seq({Val} \cup Errors) /\ Len(stack') = Len(stack) + 2
        /\ \A i \in 1..Len(stack) : stack'[i] = stack[i]
        /\ stack'[Len(stack) + 2] = w
    <3>1. PICK r \in Seq({Val} \cup Errors) : r = <<v, w>>
      BY <2>1
    <3> QED
      BY <1>1, <1>2, <2>1, <3>1, ConcatFacts
  <2>3. stack' # Append(stack, v) /\ stack' # stack
    BY <1>1, <2>2
  <2> QED
    BY <1>1, <2>2, <2>3 DEF KeptUpTo
<1>3. CASE stack' = Append(stack, v)
  <2>1. /\ stack' \in Seq({Val} \cup Errors) /\ Len(stack') = Len(stack) + 1
        /\ \A i \in 1..Len(stack) : stack'[i] = stack[i]
        /\ stack'[Len(stack) + 1] = v
    BY <1>1, <1>3, AppendFacts
  <2>2. stack' # stack \o <<v, w>> /\ stack' # stack
    BY <1>1, <2>1
  <2> QED
    BY <1>1, <2>1, <2>2 DEF KeptUpTo
<1>4. CASE stack' = stack
  <2>1. stack' # stack \o <<v, w>> /\ stack' # Append(stack, v)
    BY <1>1, <1>4
  <2> QED
    BY <1>1, <1>4, <2>1 DEF KeptUpTo
<1> QED
  BY <1>2, <1>3, <1>4

-----------------------------------------------------------------------------
(* The operations that enter a frame.                                      *)

\* Code or a builtin is running: its activation is on top, executing.
LEMMA Executing ==
  ASSUME OInv, Running \/ InBuiltin({"each", "try", "require"}),
         NEW n, n = Len(acts)
  PROVE  /\ acts # <<>> /\ panic = NoPanic /\ n \in 1..Len(acts) /\ n \in Nat
         /\ Top(acts) = acts[n] /\ acts[n] \in ActRecord
         /\ acts[n].phase = "exec"
         /\ acts[n].recv \in Nat /\ acts[n].base \in Nat
         /\ acts[n].recv <= acts[n].base + 1
         /\ acts[n].base <= Len(stack) /\ Len(stack) \in Nat
<1>1. acts # <<>> /\ panic = NoPanic
  BY DEF Running, InBuiltin
<1>2. /\ n \in 1..Len(acts) /\ Top(acts) = acts[n] /\ Slots(n) /\ Result(n)
      /\ acts[n].recv \in Nat /\ acts[n].base \in Nat
  BY <1>1, TopFacts
<1>3. acts \in Seq(ActRecord) /\ Len(acts) \in Nat /\ Len(stack) \in Nat
  BY OperandsTyped DEF OInv
<1>4. acts[n].phase = "exec"
  BY <1>2 DEF Running, InBuiltin, Result
<1> QED
  BY <1>1, <1>2, <1>3, <1>4 DEF Slots

\* A method written in Lito is called with its argument above the receiver.
LEMMA CallMethodKeeps ==
  ASSUME OInv, CallMethod
  PROVE  OInv' /\ OperandsBelowKept
<1>1. PICK n : n = Len(acts)
  OBVIOUS
<1>2. OperandTypes /\ Len(heap) \in Nat /\ Len(stack) \in Nat
  BY OperandsTyped DEF OInv
<1>3. /\ acts # <<>> /\ panic = NoPanic /\ n \in Nat /\ acts[n].phase = "exec"
  BY <1>1, Executing DEF CallMethod
<1>4. PICK withBlock \in BOOLEAN, arg \in Values :
        LET frames == Callee("normal", withBlock)
            recv == Len(stack) + 1
        IN /\ evaluate(acts, Act("normal", "send", Len(heap) + Len(frames),
                                 recv, recv + 1), frames)
           /\ stack' = stack \o <<Val, arg>>
  BY DEF CallMethod
<1>5. PICK recv \in Nat, base \in Nat : recv = Len(stack) + 1 /\ base = recv + 1
  BY <1>2
<1>6. PICK T : Callee("normal", withBlock) \in Seq(T)
  <2> DEFINE L == Frame("literal", TRUE, 0, Top(acts).frame)
             F == Frame("normal", FALSE, Fresh, 0)
             G == Frame("normal", FALSE, 0, 0)
  <2>1. Callee("normal", withBlock) \in {<<L, F>>, <<G>>}
    BY DEF Callee
  <2>2. <<L, F>> \in Seq({L, F, G}) /\ <<G>> \in Seq({L, F, G})
    OBVIOUS
  <2> QED
    BY <2>1, <2>2
<1>7. PICK frames \in Seq(T) : frames = Callee("normal", withBlock)
  BY <1>6
<1>8. PICK frame \in Nat : frame = Len(heap) + Len(frames)
  BY <1>2
<1>9. /\ evaluate(acts, Act("normal", "send", frame, recv, base), frames)
      /\ stack' = stack \o <<Val, arg>>
      /\ UNCHANGED <<errs, panic, outcome>>
  BY <1>4, <1>5, <1>7, <1>8 DEF CallMethod
<1>10. arg \in {Val} \cup Errors
  BY DEF Values
<1>11. /\ stack' \in Seq({Val} \cup Errors) /\ KeptUpTo(Len(stack))
       /\ Len(stack') = Len(stack) + 2
  BY <1>2, <1>9, <1>10, Pushed
<1>12. /\ recv <= base + 1 /\ recv <= base /\ base <= Len(stack')
       /\ Len(stack') >= Len(stack)
  BY <1>2, <1>5, <1>11
<1>13. "normal" \in ActKinds /\ "send" \in Vias
  BY DEF ActKinds, Vias
<1> QED
  BY <1>1, <1>3, <1>5, <1>9, <1>11, <1>12, <1>13, SelfAlike, Evaluates

\* A builtin that runs code is called.
LEMMA CallBuiltinKeeps ==
  ASSUME OInv, NEW kind \in {"each", "try", "require"}, CallBuiltin(kind)
  PROVE  OInv' /\ OperandsBelowKept
<1>1. PICK n : n = Len(acts)
  OBVIOUS
<1>2. OperandTypes /\ Len(heap) \in Nat /\ Len(stack) \in Nat
  BY OperandsTyped DEF OInv
<1>3. /\ acts # <<>> /\ panic = NoPanic /\ n \in Nat /\ acts[n].phase = "exec"
  BY <1>1, Executing DEF CallBuiltin
<1>4. PICK recv \in Nat : recv = Len(stack) + 1
  BY <1>2
<1>5. PICK T : Callee("go", kind # "require") \in Seq(T)
  <2> DEFINE L == Frame("literal", TRUE, 0, Top(acts).frame)
             F == Frame("go", FALSE, Fresh, 0)
             G == Frame("go", FALSE, 0, 0)
  <2>1. Callee("go", kind # "require") \in {<<L, F>>, <<G>>}
    BY DEF Callee
  <2>2. <<L, F>> \in Seq({L, F, G}) /\ <<G>> \in Seq({L, F, G})
    OBVIOUS
  <2> QED
    BY <2>1, <2>2
<1>6. PICK frames \in Seq(T) : frames = Callee("go", kind # "require")
  BY <1>5
<1>7. PICK frame \in Nat : frame = Len(heap) + Len(frames)
  BY <1>2
<1>8. /\ evaluate(acts, Act(kind, "send", frame, recv, recv), frames)
      /\ stack' = Append(stack, Val)
      /\ UNCHANGED <<errs, panic, outcome>>
  BY <1>4, <1>6, <1>7 DEF CallBuiltin
<1>9. /\ stack' \in Seq({Val} \cup Errors) /\ KeptUpTo(Len(stack))
      /\ Len(stack') = Len(stack) + 1
  BY <1>2, <1>8, Pushed
<1>10. /\ recv <= recv + 1 /\ recv <= recv /\ recv <= Len(stack')
       /\ Len(stack') >= Len(stack)
  BY <1>2, <1>4, <1>9
<1>11. kind \in ActKinds /\ "send" \in Vias
  BY DEF ActKinds, Vias
<1> QED
  BY <1>1, <1>3, <1>4, <1>8, <1>9, <1>10, <1>11, SelfAlike, Evaluates

\* `new` calls init above the instance it pushed.
LEMMA CallNewKeeps ==
  ASSUME OInv, CallNew
  PROVE  OInv' /\ OperandsBelowKept
<1> DEFINE F == Frame("go", FALSE, 0, 0)
           G == Frame("normal", FALSE, 0, 0)
<1>1. PICK n : n = Len(acts)
  OBVIOUS
<1>2. OperandTypes /\ Len(heap) \in Nat /\ Len(stack) \in Nat
  BY OperandsTyped DEF OInv
<1>3. /\ acts # <<>> /\ panic = NoPanic /\ n \in Nat /\ acts[n].phase = "exec"
  BY <1>1, Executing DEF CallNew
<1>4. PICK recv \in Nat, base \in Nat, frame \in Nat :
        recv = Len(stack) + 1 /\ base = recv + 1 /\ frame = Len(heap) + 2
  <2>1. Len(stack) + 1 \in Nat /\ Len(stack) + 1 + 1 \in Nat
        /\ Len(heap) + 2 \in Nat
    BY <1>2
  <2> QED
    BY <2>1, Zenon
<1>5. <<F, G>> \in Seq({F, G})
  OBVIOUS
<1>6. /\ evaluate(acts, Act("normal", "init", frame, recv, base), <<F, G>>)
      /\ stack' = stack \o <<Val, Val>>
      /\ UNCHANGED <<errs, panic, outcome>>
  BY <1>4 DEF CallNew
<1>7. /\ stack' \in Seq({Val} \cup Errors) /\ KeptUpTo(Len(stack))
      /\ Len(stack') = Len(stack) + 2
  BY <1>2, <1>6, Pushed
<1>8. /\ recv <= base + 1 /\ recv <= base /\ base <= Len(stack')
      /\ Len(stack') >= Len(stack)
  BY <1>2, <1>4, <1>7
<1>9. "normal" \in ActKinds /\ "init" \in Vias
  BY DEF ActKinds, Vias
<1> HIDE DEF F, G
<1> QED
  BY <1>1, <1>3, <1>4, <1>5, <1>6, <1>7, <1>8, <1>9, SelfAlike, Evaluates

\* A class body, or the program itself, starts above what is on the stack.
LEMMA ProgramKeeps ==
  ASSUME OInv, DefClass \/ ExecInstructions
  PROVE  OInv' /\ OperandsBelowKept
<1> DEFINE F == Frame("normal", FALSE, 0, 0)
<1>1. PICK n : n = Len(acts)
  OBVIOUS
<1>2. OperandTypes /\ Len(heap) \in Nat /\ Len(stack) \in Nat /\ n \in Nat
  BY <1>1, OperandsTyped DEF OInv
<1>3. PICK recv \in Nat, base \in Nat, frame \in Nat :
        recv = Len(stack) + 1 /\ base = Len(stack) /\ frame = Fresh
  BY <1>2 DEF Fresh
<1>4. PICK via \in {"class", "program"} :
        evaluate(acts, Act("normal", via, frame, recv, base), <<F>>)
  BY <1>3 DEF DefClass, ExecInstructions
<1>5. panic = NoPanic /\ UNCHANGED <<stack, errs, panic, outcome>>
  BY DEF DefClass, ExecInstructions, Running
<1>6. n > 0 => acts[n].phase = "exec"
  <2>1. CASE DefClass
    BY <1>1, <2>1, Executing DEF DefClass
  <2>2. CASE ExecInstructions
    BY <1>1, <2>2 DEF ExecInstructions
  <2> QED
    BY <2>1, <2>2
<1>7. <<F>> \in Seq({F})
  OBVIOUS
<1>8. /\ stack' \in Seq({Val} \cup Errors) /\ KeptUpTo(Len(stack))
      /\ Len(stack') = Len(stack)
  BY <1>2, <1>5, Pushed
<1>9. /\ recv <= base + 1 /\ base <= Len(stack') /\ Len(stack') >= Len(stack)
  BY <1>2, <1>3, <1>8
<1>10. "normal" \in ActKinds /\ via \in Vias
       /\ via \notin {"send", "invoke", "init"}
  BY DEF ActKinds, Vias
<1> HIDE DEF F
<1> QED
  BY <1>1, <1>2, <1>3, <1>4, <1>5, <1>6, <1>7, <1>8, <1>9, <1>10, SelfAlike,
     Evaluates

\* `yield` calls the block above the receiver slot it pushed.
LEMMA InvokeBlockKeeps ==
  ASSUME OInv, InvokeBlock
  PROVE  OInv' /\ OperandsBelowKept
<1> DEFINE blk == InvokedBlock(Top(acts).frame)
           F == Frame("normal", TRUE, blk, heap[blk].ep)
<1>1. PICK n : n = Len(acts)
  OBVIOUS
<1>2. OperandTypes /\ Len(heap) \in Nat /\ Len(stack) \in Nat
  BY OperandsTyped DEF OInv
<1>3. /\ acts # <<>> /\ panic = NoPanic /\ n \in Nat /\ acts[n].phase = "exec"
  BY <1>1, Executing DEF InvokeBlock
<1>4. PICK recv \in Nat, frame \in Nat : recv = Len(stack) + 1 /\ frame = Fresh
  BY <1>2 DEF Fresh
<1>5. <<F>> \in Seq({F})
  OBVIOUS
<1>6. /\ evaluate(acts, Act("normal", "invoke", frame, recv, recv), <<F>>)
      /\ stack' = Append(stack, Val)
      /\ UNCHANGED <<errs, panic, outcome>>
  BY <1>4 DEF InvokeBlock
<1>7. /\ stack' \in Seq({Val} \cup Errors) /\ KeptUpTo(Len(stack))
      /\ Len(stack') = Len(stack) + 1
  BY <1>2, <1>6, Pushed
<1>8. /\ recv <= recv + 1 /\ recv <= recv /\ recv <= Len(stack')
      /\ Len(stack') >= Len(stack)
  BY <1>2, <1>4, <1>7
<1>9. "normal" \in ActKinds /\ "invoke" \in Vias
  BY DEF ActKinds, Vias
<1> HIDE DEF F
<1> QED
  BY <1>1, <1>3, <1>4, <1>5, <1>6, <1>7, <1>8, <1>9, SelfAlike, Evaluates

\* A builtin yields to its block, or require runs its file.
LEMMA YieldKeeps ==
  ASSUME OInv, Yield \/ RunFile
  PROVE  OInv' /\ OperandsBelowKept
<1> DEFINE blk == heap[Top(acts).frame].blockFrame
<1>1. PICK n : n = Len(acts)
  OBVIOUS
<1>2. OperandTypes /\ Len(heap) \in Nat /\ Len(stack) \in Nat
  BY OperandsTyped DEF OInv
<1>3. InBuiltin({"each", "try", "require"})
  BY DEF Yield, RunFile, InBuiltin
<1>4. /\ acts # <<>> /\ panic = NoPanic /\ n \in Nat /\ acts[n].phase = "exec"
      /\ acts[n] \in ActRecord
  BY <1>1, <1>3, Executing
<1>5. PICK recv \in Nat, base \in Nat, frame \in Nat :
        recv = Len(stack) + 1 /\ base = Len(stack) /\ frame = Fresh
  BY <1>2 DEF Fresh
<1>6. PICK b : b = [acts[n] EXCEPT !.ran = TRUE]
  OBVIOUS
<1>7. PICK below : below = [acts EXCEPT ![n] = b]
  OBVIOUS
<1>8. /\ below \in Seq(ActRecord) /\ Len(below) = n
      /\ \A i \in 1..n : Alike(below[i], acts[i])
  <2>1. <<>> \in Seq(Nat)
    OBVIOUS
  <2>2. b \in ActRecord /\ Alike(b, acts[n])
    BY <1>4, <1>6, <2>1, FieldsAlike
  <2> QED
    BY <1>1, <1>4, <1>7, <2>2, TopAlike
<1>9. PICK via \in {"yield", "program"},
           F \in {Frame("normal", TRUE, blk, heap[blk].ep),
                  Frame("normal", FALSE, 0, 0)} :
        evaluate(below, Act("normal", via, frame, recv, base), <<F>>)
  <2>1. below = [acts EXCEPT ![Len(acts)].ran = TRUE]
    BY <1>1, <1>6, <1>7
  <2>2. CASE Yield
    BY <1>5, <2>1, <2>2 DEF Yield
  <2>3. CASE RunFile
    BY <1>5, <2>1, <2>3 DEF RunFile
  <2> QED
    BY <2>2, <2>3
<1>10. UNCHANGED <<stack, errs, panic, outcome>>
  BY DEF Yield, RunFile
<1>11. <<F>> \in Seq({F})
  OBVIOUS
<1>12. /\ stack' \in Seq({Val} \cup Errors) /\ KeptUpTo(Len(stack))
       /\ Len(stack') = Len(stack)
  BY <1>2, <1>10, Pushed
<1>13. /\ recv <= base + 1 /\ base <= Len(stack') /\ Len(stack') >= Len(stack)
  BY <1>2, <1>5, <1>12
<1>14. "normal" \in ActKinds /\ via \in Vias
       /\ via \notin {"send", "invoke", "init"}
  BY DEF ActKinds, Vias
<1> QED
  BY <1>1, <1>4, <1>5, <1>8, <1>9, <1>10, <1>11, <1>12, <1>13, <1>14, Evaluates

\* A deferred block starts above the frame's result.
LEMMA RunDeferKeeps ==
  ASSUME OInv, RunDefer
  PROVE  OInv' /\ OperandsBelowKept
<1>1. PICK n : n = Len(acts)
  OBVIOUS
<1>2. /\ OperandTypes /\ Len(stack) \in Nat /\ acts \in Seq(ActRecord)
      /\ n \in Nat
  BY <1>1, OperandsTyped DEF OInv
<1>3. /\ acts # <<>> /\ panic = NoPanic /\ acts[n].phase = "defers"
      /\ acts[n].defers # <<>> /\ Top(acts) = acts[n] /\ n \in 1..Len(acts)
      /\ Len(stack) = acts[n].ret
  <2>1. Deferring /\ Top(acts).defers # <<>>
    BY DEF RunDefer
  <2>2. acts # <<>> /\ panic = NoPanic /\ Top(acts).phase = "defers"
    BY <2>1 DEF Deferring
  <2>3. Top(acts) = acts[n] /\ n \in 1..Len(acts)
    BY <1>1, <2>2, TopFacts
  <2>4. Len(stack) = Top(acts).ret
    BY <2>1 DEF OInv, Operands, ReturnValueKept
  <2> QED
    BY <2>1, <2>2, <2>3, <2>4
<1>4. acts[n] \in ActRecord /\ acts[n].defers \in Seq(Nat)
  BY <1>2, <1>3, ActFields
<1>5. PICK c \in Nat, d \in Seq(Nat) :
        c = Top(acts[n].defers) /\ d = Pop(acts[n].defers)
  BY <1>3, <1>4, PopFacts
<1>6. PICK recv \in Nat : recv = Len(stack) + 1
  BY <1>2
<1>7. PICK b : b = [acts[n] EXCEPT !.defers = d]
  OBVIOUS
<1>8. PICK below : below = [acts EXCEPT ![n] = b]
  OBVIOUS
<1>9. /\ below \in Seq(ActRecord) /\ Len(below) = n
      /\ \A i \in 1..n : Alike(below[i], acts[i])
  <2>1. b \in ActRecord /\ Alike(b, acts[n])
    BY <1>4, <1>7, FieldsAlike
  <2> QED
    BY <1>1, <1>3, <1>8, <2>1, TopAlike
<1>10. /\ evaluate(below, Act("normal", "defer", c, recv, recv), <<>>)
       /\ stack' = Append(stack, Val)
       /\ UNCHANGED <<errs, panic, outcome>>
  BY <1>1, <1>3, <1>5, <1>6, <1>7, <1>8 DEF RunDefer
<1>11. /\ stack' \in Seq({Val} \cup Errors) /\ KeptUpTo(Len(stack))
       /\ Len(stack') = Len(stack) + 1
  BY <1>2, <1>10, Pushed
<1>12. /\ recv <= recv + 1 /\ recv <= Len(stack') /\ Len(stack') >= Len(stack)
  BY <1>2, <1>6, <1>11
<1>13. /\ "normal" \in ActKinds /\ "defer" \in Vias
       /\ "defer" \notin {"send", "invoke", "init"} /\ <<>> \in Seq(Nat)
  BY DEF ActKinds, Vias
<1> QED
  BY <1>1, <1>2, <1>3, <1>5, <1>6, <1>9, <1>10, <1>11, <1>12, <1>13, Evaluates

-----------------------------------------------------------------------------
(* The operations of the code that runs.                                   *)

\* Nothing is in flight, so nothing has to be on top.
LEMMA NothingOnTop ==
  ASSUME OInv, panic' \notin Errors
  PROVE  PanicOnTop'
  BY DEF PanicOnTop

\* Steps that change neither activations nor data stack.
LEMMA SameAlike ==
  ASSUME OInv, acts' = acts, NEW n, n = Len(acts)
  PROVE  Len(acts') = n /\ n \in Nat /\ \A i \in 1..n : SameOperands(i)
  BY SelfAlike DEF SameOperands, Alike

\* defer registers a block.
LEMMA DeferKeeps ==
  ASSUME OInv, Defer
  PROVE  OInv' /\ OperandsBelowKept
<1> DEFINE cf == Top(acts).frame
           r == <<Frame("literal", TRUE, 0, cf), Frame("normal", TRUE, Fresh, cf)>>
<1>1. PICK n : n = Len(acts)
  OBVIOUS
<1>2. /\ OperandTypes /\ Len(stack) \in Nat /\ acts \in Seq(ActRecord)
      /\ Len(heap) \in Nat
  BY OperandsTyped DEF OInv
<1>3. /\ acts # <<>> /\ panic = NoPanic /\ n \in 1..Len(acts) /\ n \in Nat
      /\ Top(acts) = acts[n] /\ acts[n] \in ActRecord
      /\ acts[n].phase = "exec" /\ acts[n].recv \in Nat /\ acts[n].base \in Nat
      /\ acts[n].recv <= acts[n].base + 1
      /\ acts[n].base <= Len(stack)
  BY <1>1, Executing DEF Defer
<1>4. acts[n].defers \in Seq(Nat)
  BY <1>2, <1>3, ActFields
<1>5. PICK d \in Seq(Nat) : d = Append(acts[n].defers, Len(heap) + 2)
  <2>1. Len(heap) + 2 \in Nat
    BY <1>2
  <2> QED
    BY <1>4, <2>1, AppendFacts
<1>6. PICK b : b = [acts[n] EXCEPT !.defers = d]
  OBVIOUS
<1>7. /\ acts' = [acts EXCEPT ![n] = b] /\ heap' = heap \o r
      /\ UNCHANGED <<currentFrame, stack, errs, panic>>
  BY <1>1, <1>3, <1>5, <1>6 DEF Defer
<1>8. /\ acts' \in Seq(ActRecord) /\ Len(acts') = n
      /\ \A i \in 1..n : SameOperands(i)
  <2>1. b \in ActRecord /\ Alike(b, acts[n])
    BY <1>3, <1>6, FieldsAlike
  <2> QED
    BY <1>1, <1>3, <1>7, <2>1, TopAlike DEF SameOperands
<1>9. heap' \in Seq({heap'[f] : f \in 1..Len(heap')})
  <2>1. PICK F, G : r = <<F, G>>
    OBVIOUS
  <2>2. <<F, G>> \in Seq({F, G})
    OBVIOUS
  <2> QED
    BY <1>2, <1>7, <2>1, <2>2, HeapGrows
<1>10. OperandTypes'
  BY <1>2, <1>7, <1>8, <1>9 DEF OperandTypes
<1>11. PanicOnTop'
  BY <1>2, <1>3, <1>7, OperandsTyped, NothingOnTop
<1>12. KeptUpTo(acts[n].recv - 1) /\ acts[n].base <= Len(stack')
  BY <1>2, <1>3, <1>7 DEF KeptUpTo
<1>13. Operands' /\ OperandsBelowKept
  BY <1>1, <1>3, <1>8, <1>10, <1>11, <1>12, GoesOn
<1> QED
  BY <1>10, <1>13 DEF OInv

\* break marks frames.
LEMMA BreakKeeps ==
  ASSUME OInv, Break
  PROVE  OInv' /\ OperandsBelowKept
<1>1. PICK n : n = Len(acts)
  OBVIOUS
<1>2. OperandTypes /\ Len(stack) \in Nat /\ acts \in Seq(ActRecord)
  BY OperandsTyped DEF OInv
<1>3. /\ acts # <<>> /\ panic = NoPanic /\ n \in Nat
      /\ acts[n].phase = "exec" /\ acts[n].recv \in Nat /\ acts[n].base \in Nat
      /\ acts[n].recv <= acts[n].base + 1
      /\ acts[n].base <= Len(stack)
  BY <1>1, Executing DEF Break
<1>4. PICK popped : heap' = Removed(popped)
  BY DEF Break
<1>5. UNCHANGED <<currentFrame, acts, stack, errs, panic>>
  BY DEF Break
<1>6. heap' \in Seq({heap'[f] : f \in 1..Len(heap')})
  BY <1>2, <1>4, HeapRemoved
<1>7. OperandTypes'
  BY <1>2, <1>5, <1>6 DEF OperandTypes
<1>8. PanicOnTop'
  BY <1>2, <1>3, <1>5, OperandsTyped, NothingOnTop
<1>9. KeptUpTo(acts[n].recv - 1) /\ acts[n].base <= Len(stack')
  BY <1>2, <1>3, <1>5 DEF KeptUpTo
<1>10. Len(acts') = n /\ \A i \in 1..n : SameOperands(i)
  BY <1>1, <1>5, SameAlike
<1>11. Operands' /\ OperandsBelowKept
  BY <1>1, <1>3, <1>7, <1>8, <1>9, <1>10, GoesOn
<1> QED
  BY <1>7, <1>11 DEF OInv

\* A value is popped from above the slots of the frame.
LEMMA DiscardKeeps ==
  ASSUME OInv, Discard
  PROVE  OInv' /\ OperandsBelowKept
<1>1. PICK n : n = Len(acts)
  OBVIOUS
<1>2. /\ OperandTypes /\ Len(stack) \in Nat /\ acts \in Seq(ActRecord)
      /\ stack \in Seq({Val} \cup Errors)
  BY OperandsTyped DEF OInv
<1>3. /\ acts # <<>> /\ panic = NoPanic /\ n \in Nat /\ Top(acts) = acts[n]
      /\ acts[n].phase = "exec" /\ acts[n].recv \in Nat /\ acts[n].base \in Nat
      /\ acts[n].recv <= acts[n].base + 1
      /\ acts[n].base <= Len(stack)
  BY <1>1, Executing DEF Discard
<1>4. /\ stack' = Pop(stack) /\ Len(stack) > acts[n].base
      /\ UNCHANGED <<heap, currentFrame, acts, errs, panic>>
  BY <1>3 DEF Discard
<1>5. stack # <<>>
  BY <1>2, <1>3, <1>4
<1>6. /\ stack' \in Seq({Val} \cup Errors) /\ Len(stack') = Len(stack) - 1
      /\ \A i \in 1..Len(stack) - 1 : stack'[i] = stack[i]
  BY <1>2, <1>4, <1>5, PopFacts
<1>7. OperandTypes'
  BY <1>2, <1>4, <1>6 DEF OperandTypes
<1>8. PanicOnTop'
  BY <1>2, <1>3, <1>4, OperandsTyped, NothingOnTop
<1>9. KeptUpTo(acts[n].recv - 1) /\ acts[n].base <= Len(stack')
  <2>1. /\ acts[n].recv - 1 <= Len(stack) - 1
        /\ acts[n].base <= Len(stack) - 1
    BY <1>2, <1>3, <1>4
  <2> QED
    BY <1>2, <1>3, <1>6, <2>1 DEF KeptUpTo
<1>10. Len(acts') = n /\ \A i \in 1..n : SameOperands(i)
  BY <1>1, <1>4, SameAlike
<1>11. Operands' /\ OperandsBelowKept
  BY <1>1, <1>3, <1>7, <1>8, <1>9, <1>10, GoesOn
<1> QED
  BY <1>7, <1>11 DEF OInv

\* What checking a builtin's result for an armed error can raise.
LEMMA CheckedFacts ==
  ASSUME OperandTypes, NEW es \in [Errors -> ErrorFlags],
         NEW v \in {Val} \cup Errors, CheckResult(es, v)
  PROVE  /\ errs' \in [Errors -> ErrorFlags]
         /\ panic' \in PanicValue
         /\ panic' \in Errors => panic' = v
<1>1. NoPanic \notin Errors /\ NoPanic \in PanicValue
  BY OperandsTyped DEF PanicValue
<1>2. errs' = es \/ (v \in Errors /\ errs' = [es EXCEPT ![v].Ignore = FALSE])
  BY DEF CheckResult, Armed
<1>3. ASSUME v \in Errors PROVE [es[v] EXCEPT !.Ignore = FALSE] \in ErrorFlags
  <2>1. es[v] \in ErrorFlags
    BY <1>3
  <2> QED
    BY <2>1 DEF ErrorFlags
<1>4. errs' \in [Errors -> ErrorFlags]
  BY <1>2, <1>3
<1>5. panic' = NoPanic \/ (v \in Errors /\ panic' = v)
  BY DEF CheckResult, Armed
<1> QED
  BY <1>1, <1>4, <1>5 DEF PanicValue

\* A builtin that only computes leaves its result on top; a Go panic of one
\* leaves its last argument there.
LEMMA BuiltinKeeps ==
  ASSUME OInv, LeafBuiltin \/ BuiltinPanics
  PROVE  OInv' /\ OperandsBelowKept
<1>1. PICK n : n = Len(acts)
  OBVIOUS
<1>2. /\ OperandTypes /\ Len(stack) \in Nat /\ acts \in Seq(ActRecord)
      /\ stack \in Seq({Val} \cup Errors) /\ NoPanic \notin Errors
      /\ Runtime \notin Errors /\ GoString \notin Errors
  BY OperandsTyped DEF OInv
<1>3. /\ acts # <<>> /\ panic = NoPanic /\ n \in Nat /\ Top(acts) = acts[n]
      /\ acts[n].phase = "exec" /\ acts[n].recv \in Nat /\ acts[n].base \in Nat
      /\ acts[n].recv <= acts[n].base + 1
      /\ acts[n].base <= Len(stack)
  BY <1>1, Executing DEF LeafBuiltin, BuiltinPanics
<1>4. /\ currentFrame' \in Nat /\ errs' \in [Errors -> ErrorFlags]
      /\ panic' \in PanicValue
      /\ stack' \in Seq({Val} \cup Errors) /\ KeptUpTo(Len(stack))
      /\ Len(stack') \in Nat /\ Len(stack') > Len(stack)
      /\ panic' \in Errors => stack'[Len(stack')] = panic'
  <2>1. CASE LeafBuiltin
    <3>1. PICK e \in Errors : \E flags \in ErrorOps(e) :
            /\ CheckResult([errs EXCEPT ![e] = flags], e)
            /\ stack' = Append(stack, e)
      BY <2>1 DEF LeafBuiltin
    <3>2. PICK flags \in ErrorOps(e) :
            /\ CheckResult([errs EXCEPT ![e] = flags], e)
            /\ stack' = Append(stack, e)
      BY <3>1
    <3>3. errs \in [Errors -> ErrorFlags]
      BY <1>2 DEF OperandTypes
    <3>4. flags \in ErrorFlags
      BY <3>3, ErrorOpsTyped DEF ErrorFlags
    <3>5. PICK es \in [Errors -> ErrorFlags] : CheckResult(es, e)
      BY <3>2, <3>3, <3>4
    <3>6. /\ errs' \in [Errors -> ErrorFlags] /\ panic' \in PanicValue
          /\ panic' \in Errors => panic' = e
      BY <1>2, <3>5, CheckedFacts
    <3>7. /\ stack' \in Seq({Val} \cup Errors) /\ KeptUpTo(Len(stack))
          /\ Len(stack') = Len(stack) + 1 /\ stack'[Len(stack')] = e
      BY <1>2, <3>2, Pushed
    <3>8. currentFrame' \in Nat
      BY <1>2, <2>1 DEF LeafBuiltin, OperandTypes
    <3> QED
      BY <1>2, <3>6, <3>7, <3>8
  <2>2. CASE BuiltinPanics
    <3>1. PICK arg \in Values, v \in {Runtime, GoString} :
            /\ stack' = stack \o <<Val, arg>>
            /\ panic' = IF arg \in Errors THEN arg ELSE v
      BY <2>2 DEF BuiltinPanics
    <3>2. arg \in {Val} \cup Errors
      BY DEF Values
    <3>3. /\ stack' \in Seq({Val} \cup Errors) /\ KeptUpTo(Len(stack))
          /\ Len(stack') = Len(stack) + 2 /\ stack'[Len(stack')] = arg
      BY <1>2, <3>1, <3>2, Pushed
    <3>4. panic' \in PanicValue /\ (panic' \in Errors => panic' = arg)
      BY <1>2, <3>1 DEF PanicValue
    <3>5. currentFrame' \in Nat /\ errs' \in [Errors -> ErrorFlags]
      BY <1>2, <2>2 DEF BuiltinPanics, OperandTypes
    <3> QED
      BY <1>2, <3>3, <3>4, <3>5
  <2> QED
    BY <2>1, <2>2
<1>5. heap' = heap /\ acts' = acts
  BY DEF LeafBuiltin, BuiltinPanics
<1>6. OperandTypes'
  BY <1>2, <1>4, <1>5 DEF OperandTypes
<1>7. PanicOnTop'
  BY <1>2, <1>4 DEF PanicOnTop, Top
<1>8. KeptUpTo(acts[n].recv - 1) /\ acts[n].base <= Len(stack')
  <2>1. acts[n].recv - 1 <= Len(stack) /\ acts[n].base <= Len(stack')
    BY <1>2, <1>3, <1>4
  <2>2. ASSUME NEW i \in 1..acts[n].recv - 1 PROVE i \in 1..Len(stack)
    BY <1>2, <1>3, <2>1
  <2> QED
    BY <1>4, <2>1, <2>2 DEF KeptUpTo
<1>9. Len(acts') = n /\ \A i \in 1..n : SameOperands(i)
  BY <1>1, <1>5, SameAlike
<1>10. Operands' /\ OperandsBelowKept
  BY <1>1, <1>3, <1>6, <1>7, <1>8, <1>9, GoesOn
<1> QED
  BY <1>6, <1>10 DEF OInv

-----------------------------------------------------------------------------
(* Leaving a frame.                                                        *)

\* A frame stops executing with its value, or the error, on top.
LEMMA ToDefersKeeps ==
  ASSUME OInv, acts # <<>>, Top(acts).kind = "normal",
         NEW p \in PanicValue, NEW v \in {Val} \cup Errors,
         NEW st \in {stack, Append(stack, v)}, ToDefers(p, st),
         p \in Errors => st # <<>> /\ Top(st) = p
  PROVE  OInv' /\ OperandsBelowKept
<1>1. PICK n : n = Len(acts)
  OBVIOUS
<1>2. OperandTypes /\ Len(stack) \in Nat /\ acts \in Seq(ActRecord)
  BY OperandsTyped DEF OInv
<1>3. /\ n \in 1..Len(acts) /\ n \in Nat /\ Top(acts) = acts[n]
      /\ acts[n] \in ActRecord
  BY <1>1, <1>2, TopFacts
<1>4. /\ stack' = st /\ panic' = NoPanic
      /\ UNCHANGED <<heap, currentFrame, errs>>
  BY DEF ToDefers
<1>5. /\ stack' \in Seq({Val} \cup Errors) /\ KeptUpTo(Len(stack))
      /\ Len(stack') \in Nat /\ Len(stack') >= Len(stack)
  BY <1>2, <1>4, Pushed
<1>6. PICK k \in Nat : k = Len(st)
  BY <1>4, <1>5
<1>7. PICK b : b = [acts[n] EXCEPT !.phase = "defers", !.pend = p, !.ret = k]
  OBVIOUS
<1>8. acts' = [acts EXCEPT ![n] = b]
  BY <1>1, <1>6, <1>7 DEF ToDefers
<1>9. /\ b \in ActRecord /\ b.kind = acts[n].kind /\ b.via = acts[n].via
      /\ b.recv = acts[n].recv /\ b.base = acts[n].base
      /\ b.phase = "defers" /\ b.pend = p /\ b.ret = k
  BY <1>3, <1>7 DEF ActRecord
<1>10. /\ acts' \in Seq(ActRecord) /\ Len(acts') = n /\ acts'[n] = b
       /\ \A i \in 1..n - 1 : acts'[i] = acts[i]
  BY <1>1, <1>2, <1>8, <1>9, SetTopFacts
<1>11. OperandTypes'
  BY <1>2, <1>4, <1>5, <1>10 DEF OperandTypes, PanicValue
<1>12. \A i \in 1..n - 1 : SameOperands(i)
  BY <1>10 DEF SameOperands, Alike
<1>13. acts'[n].pend \in Errors =>
         Len(stack') >= 1 /\ stack'[Len(stack')] = acts'[n].pend
  BY <1>4, <1>5, <1>9, <1>10 DEF Top
<1>14. Operands' /\ OperandsBelowKept
  BY <1>1, <1>3, <1>4, <1>5, <1>6, <1>9, <1>10, <1>11, <1>12, <1>13,
     StartsDefers
<1> QED
  BY <1>11, <1>14 DEF OInv

\* Every way a frame stops executing: Leave, past its end, a panic.
LEMMA LeaveKeeps ==
  ASSUME OInv, Leave \/ Stopped \/ UnwindExec
  PROVE  OInv' /\ OperandsBelowKept
<1>1. acts # <<>> /\ Top(acts).kind = "normal"
  BY DEF Leave, Stopped, UnwindExec, Running
<1>2. NoPanic \notin Errors /\ NoPanic \in PanicValue /\ panic \in PanicValue
  BY OperandsTyped DEF OInv, OperandTypes, PanicValue
<1>3. CASE Leave
  <2>1. PICK v \in Values : ToDefers(NoPanic, Append(stack, v))
    BY <1>3 DEF Leave
  <2>2. v \in {Val} \cup Errors
    BY DEF Values
  <2> QED
    BY <1>1, <1>2, <2>1, <2>2, ToDefersKeeps
<1>4. CASE Stopped
  <2>1. ToDefers(NoPanic, stack)
    BY <1>4 DEF Stopped
  <2> QED
    BY <1>1, <1>2, <2>1, ToDefersKeeps
<1>5. CASE UnwindExec
  <2>1. ToDefers(panic, stack)
    BY <1>5 DEF UnwindExec
  <2>2. panic \in Errors => stack # <<>> /\ Top(stack) = panic
    BY DEF OInv, Operands, PanicOnTop
  <2> QED
    BY <1>1, <1>2, <2>1, <2>2, ToDefersKeeps
<1> QED
  BY <1>3, <1>4, <1>5

\* A builtin returns: its result replaces the slots from the receiver on.
LEMMA FinishBuiltinKeeps ==
  ASSUME OInv, acts # <<>>, Top(acts).kind # "normal",
         NEW es \in [Errors -> ErrorFlags],
         NEW v \in {Val} \cup Errors, FinishBuiltin(es, v)
  PROVE  OInv' /\ OperandsBelowKept
<1>1. PICK n : n = Len(acts)
  OBVIOUS
<1>2. /\ OperandTypes /\ Len(stack) \in Nat /\ acts \in Seq(ActRecord)
      /\ stack \in Seq({Val} \cup Errors)
  BY OperandsTyped DEF OInv
<1>3. /\ n \in 1..Len(acts) /\ n \in Nat /\ Top(acts) = acts[n]
      /\ Result(n) /\ acts[n].recv \in Nat /\ acts[n].recv >= 1
      /\ acts[n].recv <= Len(stack) + 1 /\ acts[n].old \in Nat
  BY <1>1, TopFacts
<1>4. /\ acts' = Pop(acts) /\ currentFrame' = acts[n].old /\ heap' = heap
      /\ stack' = Append(SubSeq(stack, 1, acts[n].recv - 1), v)
      /\ CheckResult(es, v)
  BY <1>3 DEF FinishBuiltin
<1>5. PICK k \in 0..Len(stack) : k = acts[n].recv - 1
  BY <1>2, <1>3
<1>6. PICK cut \in Seq({Val} \cup Errors) :
        /\ cut = SubSeq(stack, 1, k) /\ Len(cut) = k
        /\ \A i \in 1..k : cut[i] = stack[i]
  <2>1. /\ SubSeq(stack, 1, k) \in Seq({Val} \cup Errors)
        /\ Len(SubSeq(stack, 1, k)) = k
        /\ \A i \in 1..k : SubSeq(stack, 1, k)[i] = stack[i]
    BY <1>2, CutFacts
  <2> QED
    BY <2>1, Zenon
<1>7. /\ stack' \in Seq({Val} \cup Errors) /\ Len(stack') = k + 1
      /\ \A i \in 1..k : stack'[i] = stack[i]
      /\ stack'[k + 1] = v
  BY <1>4, <1>5, <1>6, AppendFacts
<1>8. /\ errs' \in [Errors -> ErrorFlags] /\ panic' \in PanicValue
      /\ panic' \in Errors => panic' = v
  BY <1>2, <1>4, CheckedFacts
<1>9. acts' \in Seq(ActRecord)
  BY <1>2, <1>4, PopFacts
<1>10. OperandTypes'
  BY <1>2, <1>3, <1>4, <1>7, <1>8, <1>9 DEF OperandTypes
<1>11. PanicOnTop'
  BY <1>2, <1>7, <1>8 DEF PanicOnTop, Top
<1>12. /\ KeptUpTo(acts[n].recv - 1) /\ acts[n].recv - 1 <= Len(stack')
  BY <1>5, <1>7 DEF KeptUpTo
<1>13. acts[n].via # "defer"
  BY <1>3 DEF Result
<1>14. Operands' /\ OperandsBelowKept
  BY <1>1, <1>4, <1>10, <1>11, <1>12, <1>13, Ended
<1> QED
  BY <1>10, <1>14 DEF OInv

\* The value on top of the data stack, when there is one.
LEMMA TopIsValue ==
  ASSUME OInv, acts # <<>>, Top(acts).kind # "normal"
  PROVE  Top(stack) \in {Val} \cup Errors
<1>1. PICK n : n = Len(acts)
  OBVIOUS
<1>2. Len(stack) \in Nat /\ stack \in Seq({Val} \cup Errors)
  BY OperandsTyped DEF OInv
<1>3. /\ Top(acts) = acts[n] /\ Slots(n) /\ Result(n)
      /\ acts[n].recv \in Nat /\ acts[n].base \in Nat
  BY <1>1, TopFacts
<1>4. acts[n].recv >= 1 /\ acts[n].recv <= acts[n].base
      /\ acts[n].base <= Len(stack)
  BY <1>3 DEF Slots, Result
<1>5. Len(stack) \in 1..Len(stack)
  BY <1>2, <1>3, <1>4
<1> QED
  BY <1>2, <1>5 DEF Top

\* each, try and require return, or recover from what they ran.
LEMMA ReturnKeeps ==
  ASSUME OInv,
         \/ ReturnFromEach \/ ReturnFromTry \/ ReturnFromRequire
         \/ TryRecovers \/ RequireRecovers
  PROVE  OInv' /\ OperandsBelowKept
<1>1. acts # <<>> /\ Top(acts).kind # "normal"
  BY DEF ReturnFromEach, ReturnFromTry, ReturnFromRequire, TryRecovers,
         RequireRecovers, InBuiltin
<1>2. /\ errs \in [Errors -> ErrorFlags]
      /\ Top(stack) \in {Val} \cup Errors /\ Val \in {Val} \cup Errors
  BY <1>1, TopIsValue DEF OInv, OperandTypes
<1>3. PICK es \in [Errors -> ErrorFlags], v \in {Val} \cup Errors :
        FinishBuiltin(es, v)
  <2>1. CASE ReturnFromEach
    BY <1>2, <2>1 DEF ReturnFromEach
  <2>2. CASE ReturnFromTry
    BY <1>2, <2>2 DEF ReturnFromTry
  <2>3. CASE ReturnFromRequire \/ RequireRecovers
    BY <1>2, <2>3 DEF ReturnFromRequire, RequireRecovers
  <2>4. CASE TryRecovers
    <3>1. CASE panic \in Errors
      <4>1. FinishBuiltin([errs EXCEPT ![panic].Ignore = TRUE], panic)
        BY <2>4, <3>1 DEF TryRecovers
      <4>2. [errs[panic] EXCEPT !.Ignore = TRUE] \in ErrorFlags
        <5>1. errs[panic] \in ErrorFlags
          BY <1>2, <3>1
        <5> QED
          BY <5>1 DEF ErrorFlags
      <4>3. [errs EXCEPT ![panic].Ignore = TRUE] \in [Errors -> ErrorFlags]
        BY <1>2, <3>1, <4>2
      <4> QED
        BY <3>1, <4>1, <4>3
    <3>2. CASE panic \notin Errors
      BY <1>2, <2>4, <3>2 DEF TryRecovers
    <3> QED
      BY <3>1, <3>2
  <2> QED
    BY <2>1, <2>2, <2>3, <2>4
<1> QED
  BY <1>1, <1>3, FinishBuiltinKeeps

\* The tail of evaluateNormalFrame: the caller takes the value.
LEMMA FinishFrameKeeps ==
  ASSUME OInv, FinishFrame
  PROVE  OInv' /\ OperandsBelowKept
<1>1. PICK n : n = Len(acts)
  OBVIOUS
<1>2. /\ OperandTypes /\ Len(stack) \in Nat /\ acts \in Seq(ActRecord)
      /\ stack \in Seq({Val} \cup Errors) /\ NoPanic \notin Errors
  BY OperandsTyped DEF OInv
<1>3. acts # <<>> /\ panic = NoPanic
  BY DEF FinishFrame, Deferring
<1>4. /\ n \in 1..Len(acts) /\ n \in Nat /\ Top(acts) = acts[n] /\ Slots(n)
      /\ acts[n].recv \in Nat /\ acts[n].base \in Nat /\ acts[n].recv >= 1
      /\ acts[n].recv <= Len(stack) + 1 /\ acts[n].old \in Nat
      /\ acts[n].via \in Vias
  BY <1>1, <1>3, TopFacts
<1>5. /\ acts' = Pop(acts) /\ currentFrame' = acts[n].old
      /\ stack' = AfterFrame(acts[n])
      /\ UNCHANGED <<errs, panic>>
  BY <1>4 DEF FinishFrame
<1>6. heap' \in Seq({heap'[f] : f \in 1..Len(heap')})
  <2>1. CASE heap' = heap
    BY <1>2, <2>1 DEF OperandTypes
  <2>2. CASE heap' # heap
    <3>1. PICK f, v : heap' = [heap EXCEPT ![f] = v]
      BY <2>2 DEF FinishFrame
    <3> QED
      BY <1>2, <3>1, HeapFlag
  <2> QED
    BY <2>1, <2>2
<1>7. PICK k \in 0..Len(stack) : k = acts[n].recv - 1
  BY <1>2, <1>4
<1>8. PICK cut \in Seq({Val} \cup Errors) :
        /\ cut = SubSeq(stack, 1, k) /\ Len(cut) = k
        /\ \A i \in 1..k : cut[i] = stack[i]
  <2>1. /\ SubSeq(stack, 1, k) \in Seq({Val} \cup Errors)
        /\ Len(SubSeq(stack, 1, k)) = k
        /\ \A i \in 1..k : SubSeq(stack, 1, k)[i] = stack[i]
    BY <1>2, CutFacts
  <2> QED
    BY <2>1, Zenon
<1>9. /\ stack' \in Seq({Val} \cup Errors) /\ KeptUpTo(k)
      /\ k <= Len(stack')
      /\ acts[n].via = "defer" => Len(stack') = k
  <2>1. CASE acts[n].via \in {"send", "invoke", "init"}
    <3>1. Len(stack) \in 1..Len(stack)
      BY <1>2, <1>4, <2>1 DEF Slots
    <3>2. Top(stack) \in {Val} \cup Errors
      BY <1>2, <3>1 DEF Top
    <3>3. PICK v \in {Val} \cup Errors : stack' = Append(cut, v)
      BY <1>5, <1>7, <1>8, <2>1, <3>2 DEF AfterFrame
    <3> QED
      BY <1>8, <2>1, <3>3, AppendFacts DEF KeptUpTo
  <2>2. CASE acts[n].via = "defer"
    <3>1. stack' = cut
      BY <1>5, <1>7, <1>8, <2>2 DEF AfterFrame
    <3> QED
      BY <1>8, <3>1 DEF KeptUpTo
  <2>3. CASE acts[n].via \notin {"send", "invoke", "init", "defer"}
    <3>1. stack' = Append(stack, Val) \/ stack' = stack
      BY <1>5, <2>3 DEF AfterFrame
    <3>2. /\ stack' \in Seq({Val} \cup Errors) /\ KeptUpTo(Len(stack))
          /\ Len(stack') \in Nat /\ Len(stack') >= Len(stack)
      BY <1>2, <3>1, Pushed
    <3> QED
      BY <1>2, <2>3, <3>2 DEF KeptUpTo
  <2> QED
    BY <2>1, <2>2, <2>3
<1>10. acts' \in Seq(ActRecord)
  BY <1>2, <1>3, <1>5, PopFacts
<1>11. OperandTypes'
  BY <1>2, <1>4, <1>5, <1>6, <1>9, <1>10 DEF OperandTypes
<1>12. PanicOnTop'
  BY <1>2, <1>3, <1>5, NothingOnTop
<1>13. Operands' /\ OperandsBelowKept
  BY <1>1, <1>3, <1>5, <1>7, <1>9, <1>11, <1>12, Ended
<1> QED
  BY <1>11, <1>13 DEF OInv

-----------------------------------------------------------------------------
(* Unwinding.                                                              *)

\* A panic leaves a frame, or the one that interrupted it goes on: the error
\* is still on top.
LEMMA RaiseKeeps ==
  ASSUME OInv, Rethrow \/ UnwindDefers \/ UnwindBuiltin
  PROVE  OInv' /\ OperandsBelowKept
<1>1. PICK n : n = Len(acts)
  OBVIOUS
<1>2. /\ OperandTypes /\ Len(stack) \in Nat /\ acts \in Seq(ActRecord)
      /\ stack \in Seq({Val} \cup Errors) /\ NoPanic \notin Errors
  BY OperandsTyped DEF OInv
<1>3. acts # <<>>
  BY DEF Rethrow, UnwindDefers, UnwindBuiltin, Deferring
<1>4. /\ n \in 1..Len(acts) /\ n \in Nat /\ Top(acts) = acts[n] /\ Result(n)
      /\ acts[n].recv \in Nat /\ acts[n].recv >= 1
      /\ acts[n].recv <= Len(stack) + 1 /\ acts[n].pend \in PanicValue
  BY <1>1, <1>3, TopFacts
<1>5. PICK p \in PanicValue :
        /\ p # NoPanic /\ reportErrorAndStop(p)
        /\ p \in Errors => stack # <<>> /\ Top(stack) = p
  <2>1. CASE Rethrow
    <3>1. /\ acts[n].pend # NoPanic /\ reportErrorAndStop(acts[n].pend)
          /\ acts[n].phase = "defers" /\ Len(stack) = acts[n].ret
      BY <1>4, <2>1 DEF Rethrow, Deferring, OInv, Operands, ReturnValueKept
    <3>2. acts[n].pend \in Errors => stack # <<>> /\ Top(stack) = acts[n].pend
      BY <1>2, <1>4, <3>1 DEF Result, Top
    <3> QED
      BY <1>4, <3>1, <3>2
  <2>2. CASE UnwindDefers \/ UnwindBuiltin
    <3>1. panic # NoPanic /\ reportErrorAndStop(panic)
      BY <2>2 DEF UnwindDefers, UnwindBuiltin
    <3> QED
      BY <1>2, <3>1 DEF OInv, Operands, PanicOnTop, OperandTypes
  <2> QED
    BY <2>1, <2>2
<1>6. /\ panic' = Reported(p) /\ acts' = Pop(acts)
      /\ UNCHANGED <<currentFrame, stack, errs>>
  BY <1>5 DEF reportErrorAndStop
<1>7. heap' \in Seq({heap'[f] : f \in 1..Len(heap')})
  <2>1. CASE heap' = heap
    BY <1>2, <2>1 DEF OperandTypes
  <2>2. CASE heap' # heap
    <3>1. stopFrame
      BY <1>5 DEF reportErrorAndStop
    <3>2. PICK f, v : heap' = [heap EXCEPT ![f] = v]
      BY <2>2, <3>1 DEF stopFrame
    <3> QED
      BY <1>2, <3>2, HeapFlag
  <2> QED
    BY <2>1, <2>2
<1>8. /\ panic' \in PanicValue /\ panic' # NoPanic
      /\ panic' \in Errors => stack # <<>> /\ Top(stack) = panic'
  BY <1>2, <1>5, <1>6 DEF Reported, PanicValue
<1>9. acts' \in Seq(ActRecord)
  BY <1>2, <1>3, <1>6, PopFacts
<1>10. OperandTypes'
  BY <1>2, <1>6, <1>7, <1>8, <1>9 DEF OperandTypes
<1>11. PanicOnTop'
  BY <1>6, <1>8 DEF PanicOnTop, Top
<1>12. KeptUpTo(acts[n].recv - 1) /\ acts[n].recv - 1 <= Len(stack')
  BY <1>2, <1>4, <1>6 DEF KeptUpTo
<1>13. Operands' /\ OperandsBelowKept
  BY <1>1, <1>3, <1>6, <1>8, <1>10, <1>11, <1>12, Ended
<1> QED
  BY <1>10, <1>13 DEF OInv

\* The panic reaches ExecInstructions.
LEMMA ExecRecoversKeeps ==
  ASSUME OInv, ExecRecovers
  PROVE  OInv' /\ OperandsBelowKept
<1>1. PICK n : n = Len(acts)
  OBVIOUS
<1>2. /\ OperandTypes /\ Len(stack) \in Nat /\ acts \in Seq(ActRecord)
      /\ NoPanic \notin Errors /\ NoPanic \in PanicValue /\ n \in Nat
  BY <1>1, OperandsTyped DEF OInv, PanicValue
<1>3. /\ UNCHANGED <<heap, currentFrame, acts, stack, errs>>
      /\ panic' \in {panic, NoPanic}
  BY DEF ExecRecovers
<1>4. OperandTypes'
  BY <1>2, <1>3 DEF OperandTypes
<1>5. PanicOnTop'
  BY <1>2, <1>3 DEF OInv, Operands, PanicOnTop, Top
<1>6. CASE acts = <<>>
  <2>1. /\ Len(acts') = 0 /\ acts' = <<>>
    BY <1>3, <1>6
  <2>2. ReturnValueKept'
    BY <2>1 DEF ReturnValueKept, Deferring
  <2>3. Operands'
    BY <1>5, <2>1, <2>2 DEF Operands
  <2>4. OperandsBelowKept
    BY <1>6 DEF OperandsBelowKept
  <2> QED
    BY <1>4, <2>3, <2>4 DEF OInv
<1>7. CASE acts # <<>>
  <2>1. /\ Top(acts) = acts[n] /\ Slots(n) /\ Result(n)
        /\ acts[n].recv \in Nat /\ acts[n].recv >= 1
        /\ acts[n].recv <= Len(stack) + 1 /\ acts[n].base \in Nat
    BY <1>1, <1>7, TopFacts
  <2>2. acts[n].phase = "exec"
    BY <1>7, <2>1 DEF ExecRecovers, Result
  <2>3. KeptUpTo(acts[n].recv - 1) /\ acts[n].base <= Len(stack')
    BY <1>2, <1>3, <2>1 DEF KeptUpTo, Slots
  <2>4. Len(acts') = n /\ \A i \in 1..n : SameOperands(i)
    BY <1>1, <1>3, SameAlike
  <2>5. Operands' /\ OperandsBelowKept
    BY <1>1, <1>4, <1>5, <1>7, <2>2, <2>3, <2>4, GoesOn
  <2> QED
    BY <1>4, <2>5 DEF OInv
<1> QED
  BY <1>6, <1>7

-----------------------------------------------------------------------------
(* Every step.                                                             *)

\* The thread starts with empty stacks.
LEMMA InitOperands ==
  ASSUME Init
  PROVE  OInv
<1>1. /\ heap = <<>> /\ acts = <<>> /\ stack = <<>> /\ currentFrame = 0
      /\ errs = [e \in Errors |-> [born |-> FALSE, Raised |-> FALSE,
                                   Ignore |-> FALSE]]
      /\ panic = NoPanic
  BY DEF Init
<1>2. NoPanic \notin Errors
  BY ThreadAssumption DEF NoPanic
<1>3. heap \in Seq({heap[f] : f \in 1..Len(heap)})
  <2>1. <<>> \in Seq({})
    OBVIOUS
  <2> QED
    BY <1>1, <2>1, Listed
<1>4. [born |-> FALSE, Raised |-> FALSE, Ignore |-> FALSE] \in ErrorFlags
  BY DEF ErrorFlags
<1>5. OperandTypes
  BY <1>1, <1>3, <1>4 DEF OperandTypes, PanicValue
<1>6. Operands
  <2>1. Len(acts) = 0
    BY <1>1
  <2> QED
    BY <1>1, <1>2, <2>1 DEF Operands, ReturnValueKept, Deferring, PanicOnTop
<1> QED
  BY <1>5, <1>6 DEF OInv

\* Every step keeps the invariant, and leaves alone what lies below the slots
\* of the activation on top.
LEMMA NextOperands ==
  ASSUME OInv, [Next]_vars
  PROVE  OInv' /\ OperandsBelowKept
<1>1. CASE UNCHANGED vars
  <2>1. UNCHANGED <<heap, currentFrame, acts, stack, errs, panic>>
    BY <1>1 DEF vars
  <2>2. OperandTypes'
    BY <2>1 DEF OInv, OperandTypes
  <2>3. Operands'
    BY <2>1 DEF OInv, Operands, Slots, Result, SlotsAbove, DeferInside,
                ReturnValueKept, Deferring, PanicOnTop, Top
  <2>4. OperandsBelowKept
    <3>1. CASE acts = <<>>
      BY <3>1 DEF OperandsBelowKept
    <3>2. CASE acts # <<>>
      <4>1. /\ Top(acts).recv \in Nat /\ Top(acts).recv <= Len(stack) + 1
            /\ Len(stack) \in Nat
        BY <3>2, TopFacts, OperandsTyped DEF OInv
      <4> QED
        BY <2>1, <3>2, <4>1 DEF OperandsBelowKept
    <3> QED
      BY <3>1, <3>2
  <2> QED
    BY <2>2, <2>3, <2>4 DEF OInv
<1>2. CASE ExecInstructions \/ DefClass
  BY <1>2, ProgramKeeps
<1>3. CASE ExecRecovers
  BY <1>3, ExecRecoversKeeps
<1>4. CASE CallMethod
  BY <1>4, CallMethodKeeps
<1>5. CASE CallBuiltin("each") \/ CallBuiltin("try") \/ CallBuiltin("require")
  BY <1>5, CallBuiltinKeeps
<1>6. CASE CallNew
  BY <1>6, CallNewKeeps
<1>7. CASE InvokeBlock
  BY <1>7, InvokeBlockKeeps
<1>8. CASE Defer
  BY <1>8, DeferKeeps
<1>9. CASE Break
  BY <1>9, BreakKeeps
<1>10. CASE Discard
  BY <1>10, DiscardKeeps
<1>11. CASE LeafBuiltin \/ BuiltinPanics
  BY <1>11, BuiltinKeeps
<1>12. CASE Yield \/ RunFile
  BY <1>12, YieldKeeps
<1>13. CASE \/ ReturnFromEach \/ ReturnFromTry \/ ReturnFromRequire
            \/ TryRecovers \/ RequireRecovers
  BY <1>13, ReturnKeeps
<1>14. CASE Leave \/ Stopped \/ UnwindExec
  BY <1>14, LeaveKeeps
<1>15. CASE RunDefer
  BY <1>15, RunDeferKeeps
<1>16. CASE FinishFrame
  BY <1>16, FinishFrameKeeps
<1>17. CASE Rethrow \/ UnwindDefers \/ UnwindBuiltin
  BY <1>17, RaiseKeeps
<1> QED
  BY <1>1, <1>2, <1>3, <1>4, <1>5, <1>6, <1>7, <1>8, <1>9, <1>10, <1>11, <1>12,
     <1>13, <1>14, <1>15, <1>16, <1>17 DEF Next, Step

\* The invariant holds of every program.
LEMMA OperandsInvariant ==
  Spec => []OInv
<1>1. Init => OInv
  BY InitOperands
<1>2. OInv /\ [Next]_vars => OInv'
  BY NextOperands
<1> QED
  BY <1>1, <1>2, PTL DEF Spec

\* The error that propagates is on top of the data stack whenever
\* reportErrorAndStop looks there, also after deferred blocks ran in between
\* (thread.go, reportErrorAndStop).
THEOREM PropagatingErrorOnTop ==
  Spec => []ErrorOnTop
<1>1. ASSUME OInv PROVE ErrorOnTop
  <2>1. panic \in Errors => stack # <<>> /\ Top(stack) = panic
    BY <1>1 DEF OInv, Operands, PanicOnTop
  <2>2. ASSUME NEW i \in 1..Len(acts), acts[i].pend \in Errors
        PROVE  acts[i].ret \in 1..Len(stack) /\ stack[acts[i].ret] = acts[i].pend
    <3>1. /\ acts \in Seq(ActRecord) /\ Len(stack) \in Nat
          /\ NoPanic \notin Errors
      BY <1>1, OperandsTyped DEF OInv
    <3>2. acts[i].ret \in Nat /\ acts[i].phase \in {"exec", "defers"}
      BY <3>1, ActFields
    <3>3. Result(i)
      BY <1>1 DEF OInv, Operands
    <3> QED
      BY <2>2, <3>1, <3>2, <3>3 DEF Result
  <2> QED
    BY <2>1, <2>2 DEF ErrorOnTop
<1> QED
  BY <1>1, OperandsInvariant, PTL

\* However many deferred blocks run, and whatever they leave behind, the
\* value of the frame is on top of the data stack after each of them
\* (execFrame's deferred function in thread.go).
THEOREM ReturnValueSurvivesDefers ==
  Spec => []ReturnValueKept
<1>1. OInv => ReturnValueKept
  BY DEF OInv, Operands
<1> QED
  BY <1>1, OperandsInvariant, PTL

\* A callee, however it ends, by returning, by breaking or by an error that
\* unwinds it, leaves every operand of its callers where and what it was.
THEOREM CallersOperandsKept ==
  Spec => CallersKept
<1>1. OInv /\ [Next]_vars => OperandsBelowKept
  BY NextOperands
<1>2. OperandsBelowKept =>
        LET m == IF acts = <<>> THEN 0 ELSE Top(acts).recv - 1
        IN \A i \in 1..m : i <= Len(stack') /\ stack'[i] = stack[i]
  BY DEF OperandsBelowKept
<1> QED
  BY <1>1, <1>2, OperandsInvariant, PTL DEF Spec, CallersKept

\* When try recovers an error nothing is left in flight: the tail of
\* evalBuiltinMethod finds Ignore set and does not raise the error again.
LEMMA TryStep ==
  ASSUME OInv, Next, acts # <<>>, Top(acts).kind = "try", panic \in Errors
  PROVE  panic' = NoPanic
<1>1. panic # NoPanic /\ panic # Runtime /\ errs \in [Errors -> ErrorFlags]
  BY OperandsTyped DEF OInv, OperandTypes
<1>2. TryRecovers
  BY <1>1 DEF Next, Step, ExecInstructions, ExecRecovers, CallMethod,
     CallBuiltin, CallNew, DefClass, InvokeBlock, Defer, Break, Discard,
     LeafBuiltin, BuiltinPanics, Yield, RunFile, ReturnFromEach, ReturnFromTry,
     ReturnFromRequire, Leave, Stopped, RunDefer, FinishFrame, UnwindExec,
     Rethrow, UnwindDefers, RequireRecovers, UnwindBuiltin, Running, InBuiltin,
     Deferring, Catches
<1>3. CheckResult([errs EXCEPT ![panic].Ignore = TRUE], panic)
  BY <1>2 DEF TryRecovers, FinishBuiltin
<1>4. PICK es : es = [errs EXCEPT ![panic].Ignore = TRUE]
  OBVIOUS
<1>5. es[panic].Ignore
  <2>1. errs[panic] \in ErrorFlags
    BY <1>1
  <2>2. [errs[panic] EXCEPT !.Ignore = TRUE].Ignore
    BY <2>1 DEF ErrorFlags
  <2> QED
    BY <1>1, <1>4, <2>2
<1> QED
  BY <1>3, <1>4, <1>5 DEF CheckResult

\* An error that try recovers is not raised again by the flags it carries
\* (try in class.go, the Raised and Ignore test of evalBuiltinMethod).
THEOREM TryTakesTheError ==
  Spec => TryAbsorbs
<1>1. OInv /\ [Next]_vars =>
        [acts # <<>> /\ Top(acts).kind = "try" /\ panic \in Errors
           => panic' = NoPanic]_vars
  BY TryStep
<1> QED
  BY <1>1, OperandsInvariant, PTL DEF Spec, TryAbsorbs
=============================================================================
