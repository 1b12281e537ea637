------------------------------- MODULE Thread -------------------------------
(***************************************************************************)
(* One interpreter thread of Lito: call frames, data stack, deferred       *)
(* blocks and the way errors unwind them (vm/thread.go, call_frame.go,     *)
(* stack.go, the frame-changing opcodes of instruction.go, and the builtin *)
(* methods of class.go that run code or catch errors).                     *)
(*                                                                         *)
(* The interpreter keeps two stacks that ought to agree: callFrameStack,   *)
(* which Lito code and stack traces look at, and Go's own stack of calls   *)
(* to evaluateNormalFrame and evaluateGoFrame (`acts` here).  A panic      *)
(* unwinds the second one call at a time; every recover pops whatever is   *)
(* on top of the first.                                                    *)
(*                                                                         *)
(* The program is any sequence of the operations named in Ops.             *)
(***************************************************************************)
EXTENDS Integers, Sequences

CONSTANTS
  Errors,          \* the Error objects a run may create
  MaxFrames,       \* bound: frame objects allocated in a run
  MaxTemps,        \* bound: values a frame leaves on the data stack
  Ops,             \* the operations programs use, a subset of AllOps
  Mode,            \* "normal" or "commandline" (vm.mode)
  BreakWithDefers  \* TRUE: a block may break after it registered a defer

AllOps == {"method", "block", "new", "class", "each", "try", "require",
           "yield", "break", "defer", "error", "gopanic"}

Val == "value"           \* any object that is not an Error
Runtime == "runtime"     \* a Go panic whose value is a Go error
GoString == "gostring"   \* a Go panic whose value is a string

ASSUME ThreadAssumption ==
  /\ MaxFrames \in Nat /\ MaxTemps \in Nat
  /\ Ops \subseteq AllOps
  /\ Mode \in {"normal", "commandline"}
  /\ BreakWithDefers \in BOOLEAN
  /\ Errors \cap {Val, Runtime, GoString, "none"} = {}

VARIABLES
  heap,          \* every CallFrame and goCallFrame allocated so far
  callFrames,    \* callFrameStack up to its pointer
  bottom,        \* callFrameStack.callFrames[0], which pop never clears
  currentFrame,  \* the frame GetBlock consults; 0 for one that is dead
  acts,          \* Go's stack of running evaluateNormalFrame/evaluateGoFrame
  stack,         \* the data stack up to its pointer
  errs,          \* the flags of every Error object
  panic,         \* the panic in flight
  outcome        \* what became of the process

vars == <<heap, callFrames, bottom, currentFrame, acts, stack, errs, panic,
          outcome>>

Top(s) == s[Len(s)]
Pop(s) == SubSeq(s, 1, Len(s) - 1)

NoPanic == "none"

Frame(kind, isBlock, blk, ep) ==
  [kind |-> kind, isBlock |-> isBlock, blockFrame |-> blk, ep |-> ep,
   isRemoved |-> FALSE, stopped |-> FALSE]

Fresh == Len(heap) + 1

-----------------------------------------------------------------------------
(* One activation per Go call.  recv is the stack slot its result goes to, *)
(* base the stack pointer when it starts; phase "defers" is execFrame's    *)
(* deferred function, with the panic it interrupted in pend.               *)

\* Mutant: the caller's frame is saved after currentFrame was assigned.
ActSavedLate(kind, via, frame, recv, base) ==
  [kind |-> kind, via |-> via, frame |-> frame, old |-> frame,
   recv |-> recv, base |-> base, ran |-> FALSE,
   phase |-> "exec", defers |-> <<>>, pend |-> NoPanic, ret |-> 0]

Act(kind, via, frame, recv, base) ==
  [kind |-> kind, via |-> via, frame |-> frame, old |-> currentFrame,
   recv |-> recv, base |-> base, ran |-> FALSE,
   phase |-> "exec", defers |-> <<>>, pend |-> NoPanic, ret |-> 0]

Running ==
  /\ acts # <<>> /\ panic = NoPanic
  /\ Top(acts).kind = "normal" /\ Top(acts).phase = "exec"
  /\ ~heap[Top(acts).frame].stopped

InBuiltin(kinds) ==
  acts # <<>> /\ panic = NoPanic /\ Top(acts).kind \in kinds

Room == Len(stack) < Top(acts).base + MaxTemps

\* The head shared by evaluateNormalFrame and evaluateGoFrame.
evaluate(below, a, frames) ==
  /\ heap' = heap \o frames
  /\ callFrames' = Append(callFrames, a.frame)
  /\ bottom' = IF callFrames = <<>> THEN a.frame ELSE bottom
  /\ currentFrame' = a.frame
  /\ acts' = Append(below, a)

popFrame ==
  callFrames' = IF callFrames = <<>> THEN <<>> ELSE Pop(callFrames)

\* The frames a Send allocates: the literal block, if any, then the callee's.
Callee(kind, withBlock) ==
  IF withBlock
  THEN <<Frame("literal", TRUE, 0, Top(acts).frame),
         Frame(kind, FALSE, Fresh, 0)>>
  ELSE <<Frame(kind, FALSE, 0, 0)>>

Values == {Val} \cup {e \in Errors : errs[e].born}

-----------------------------------------------------------------------------
(* Opcodes of execFrame that change frames.                                *)

\* Send of a method written in Lito, with one argument (evalMethodCall).
CallMethod ==
  /\ "method" \in Ops /\ Running /\ Room
  /\ \E withBlock \in {b \in BOOLEAN : b => "block" \in Ops}, arg \in Values :
       LET frames == Callee("normal", withBlock)
           recv == Len(stack) + 1
       IN /\ Len(heap) + Len(frames) <= MaxFrames
          /\ evaluate(acts, Act("normal", "send", Len(heap) + Len(frames),
                                recv, recv + 1), frames)
          /\ stack' = stack \o <<Val, arg>>
  /\ UNCHANGED <<errs, panic, outcome>>

\* Send of a builtin that runs code: a block literal for each and try, a
\* required file for require (evalBuiltinMethod).
CallBuiltin(kind) ==
  /\ kind \in Ops /\ Running /\ Room
  /\ LET frames == Callee("go", kind # "require")
         recv == Len(stack) + 1
     IN /\ Len(heap) + Len(frames) <= MaxFrames
        /\ evaluate(acts, Act(kind, "send", Len(heap) + Len(frames),
                              recv, recv), frames)
        /\ stack' = Append(stack, Val)
  /\ UNCHANGED <<errs, panic, outcome>>

\* The special case of evalBuiltinMethod: `new` pushes the instance and then
\* calls init on it.
CallNew ==
  /\ "new" \in Ops /\ Running /\ Room
  /\ Len(heap) + 2 <= MaxFrames
  /\ LET frames == <<Frame("go", FALSE, 0, 0), Frame("normal", FALSE, 0, 0)>>
         recv == Len(stack) + 1
     IN /\ evaluate(acts, Act("normal", "init", Len(heap) + 2, recv, recv + 1),
                    frames)
        /\ stack' = stack \o <<Val, Val>>
  /\ UNCHANGED <<errs, panic, outcome>>

\* DefClass discards the receiver and evaluates the class body.
DefClass ==
  /\ "class" \in Ops /\ Running /\ Room
  /\ Fresh <= MaxFrames
  /\ evaluate(acts, Act("normal", "class", Fresh, Len(stack) + 1, Len(stack)),
              <<Frame("normal", FALSE, 0, 0)>>)
  /\ UNCHANGED <<stack, errs, panic, outcome>>

\* The block `yield` reaches: the frame's own, or the enclosing method's.
InvokedBlock(f) ==
  LET own == heap[f].blockFrame
  IN IF own = 0 THEN 0
     ELSE IF heap[own].ep = heap[f].ep THEN heap[heap[f].ep].blockFrame
     ELSE own

\* `yield` in Lito code; the removed flag of the block is not looked at.
InvokeBlock ==
  /\ "yield" \in Ops /\ Running /\ Room
  /\ Fresh <= MaxFrames
  /\ LET blk == InvokedBlock(Top(acts).frame)
         recv == Len(stack) + 1
     IN /\ blk # 0
        /\ evaluate(acts, Act("normal", "invoke", Fresh, recv, recv),
                    <<Frame("normal", TRUE, blk, heap[blk].ep)>>)
        /\ stack' = Append(stack, Val)
  /\ UNCHANGED <<errs, panic, outcome>>

\* Mutant: deferred blocks are queued, not stacked.
DeferQueued ==
  /\ "defer" \in Ops /\ Running
  /\ Len(heap) + 2 <= MaxFrames
  /\ LET cf == Top(acts).frame
     IN heap' = heap \o <<Frame("literal", TRUE, 0, cf),
                          Frame("normal", TRUE, Fresh, cf)>>
  /\ acts' = [acts EXCEPT ![Len(acts)].defers = <<Len(heap) + 2>> \o @]
  /\ UNCHANGED <<callFrames, bottom, currentFrame, stack, errs, panic, outcome>>

\* Registers a frame for the block, argument values already in its locals.
Defer ==
  /\ "defer" \in Ops /\ Running
  /\ Len(heap) + 2 <= MaxFrames
  /\ LET cf == Top(acts).frame
     IN heap' = heap \o <<Frame("literal", TRUE, 0, cf),
                          Frame("normal", TRUE, Fresh, cf)>>
  /\ acts' = [acts EXCEPT ![Len(acts)].defers = Append(@, Len(heap) + 2)]
  /\ UNCHANGED <<callFrames, bottom, currentFrame, stack, errs, panic, outcome>>

\* Marks popped's pc as past the end, and it and its block as removed.
Removed(popped) ==
  [f \in 1..Len(heap) |->
     [heap[f] EXCEPT
       !.stopped = @ \/ (f = popped /\ heap[f].kind # "go"),
       !.isRemoved = \/ @
                     \/ f = popped
                     \/ /\ heap[popped].isBlock
                        /\ f = heap[popped].blockFrame]]

\* Break pops the frame on top of callFrames, which ought to be this one.
Break ==
  /\ "break" \in Ops /\ Running
  /\ heap[Top(acts).frame].isBlock
  /\ BreakWithDefers \/ Top(acts).defers = <<>>
  /\ popFrame
  /\ heap' = Removed(IF callFrames = <<>> THEN bottom ELSE Top(callFrames))
  /\ UNCHANGED <<bottom, currentFrame, acts, stack, errs, panic, outcome>>

Discard ==
  /\ Running /\ Len(stack) > Top(acts).base
  /\ stack' = Pop(stack)
  /\ UNCHANGED <<heap, callFrames, bottom, currentFrame, acts, errs, panic,
                 outcome>>

-----------------------------------------------------------------------------
(* Builtins that only compute: constructors, Error's own methods, raise,   *)
(* identity-like accessors.  result is what the builtin returned; the tail *)
(* of evalBuiltinMethod raises it when its flags say so.  An error that an *)
(* instruction makes itself is one of these too, as long as callFrames     *)
(* holds a frame: InitErrorObject asks the one on top for its file.        *)

Armed(es, v) == v \in Errors /\ es[v].Raised

\* Mutant: Ignore is not looked at.
RaiseArmed(es, v) ==
  errs' = es /\ panic' = IF Armed(es, v) THEN v ELSE NoPanic

CheckResult(es, v) ==
  /\ errs' = IF Armed(es, v) /\ es[v].Ignore
             THEN [es EXCEPT ![v].Ignore = FALSE] ELSE es
  /\ panic' = IF Armed(es, v) /\ ~es[v].Ignore THEN v ELSE NoPanic

Flags(raised, ignore) == [born |-> TRUE, Raised |-> raised, Ignore |-> ignore]

\* The flags after one builtin returns the error e.
ErrorOps(e) ==
  IF ~errs[e].born
  THEN { Flags(FALSE, TRUE),            \* Error.new
         Flags(TRUE, FALSE) }           \* InitErrorObject, returned or raised
  ELSE { Flags(TRUE, FALSE),            \* Object#raise
         [errs[e] EXCEPT !.Raised = TRUE],
         [errs[e] EXCEPT !.Ignore = TRUE],
         Flags(FALSE, FALSE),           \* cancel
         errs[e] }                      \* anything that returns it unchanged

LeafBuiltin ==
  /\ "error" \in Ops /\ Running /\ Room
  /\ \E e \in Errors : \E flags \in ErrorOps(e) :
       CheckResult([errs EXCEPT ![e] = flags], e) /\ stack' = Append(stack, e)
  /\ UNCHANGED <<heap, callFrames, bottom, currentFrame, acts, outcome>>

\* Mutant: whatever is on top of the stack becomes the panic's value.
ReportedAnything(p) == IF stack # <<>> THEN Top(stack) ELSE p

\* reportErrorAndStop raises what is on top of the stack if it is an Error.
Reported(p) ==
  IF stack # <<>> /\ Top(stack) \in Errors THEN Top(stack)
  ELSE p

\* A builtin panics in Go with arg as its last argument: its own frame is
\* popped by reportErrorAndStop, currentFrame keeps pointing to it.
BuiltinPanics ==
  /\ "gopanic" \in Ops /\ Running /\ Room
  /\ \E arg \in Values, v \in {Runtime, GoString} :
       /\ stack' = stack \o <<Val, arg>>
       /\ panic' = IF arg \in Errors THEN arg ELSE v
  /\ currentFrame' = 0
  /\ UNCHANGED <<heap, callFrames, bottom, acts, errs, outcome>>

-----------------------------------------------------------------------------
(* Builtins that run code.                                                 *)

\* Thread.Yield from a builtin: `each` any number of times, `try` once.
Yield ==
  /\ InBuiltin({"each", "try"})
  /\ Top(acts).kind = "try" => ~Top(acts).ran
  /\ Fresh <= MaxFrames
  /\ LET blk == heap[Top(acts).frame].blockFrame
         n == Len(acts)
     IN /\ ~heap[blk].isRemoved
        /\ evaluate([acts EXCEPT ![n].ran = TRUE],
                    Act("normal", "yield", Fresh, Len(stack) + 1, Len(stack)),
                    <<Frame("normal", TRUE, blk, heap[blk].ep)>>)
  /\ UNCHANGED <<stack, errs, panic, outcome>>

\* require: execFile runs the program through ExecInstructions.
RunFile ==
  /\ InBuiltin({"require"}) /\ ~Top(acts).ran
  /\ Fresh <= MaxFrames
  /\ evaluate([acts EXCEPT ![Len(acts)].ran = TRUE],
              Act("normal", "program", Fresh, Len(stack) + 1, Len(stack)),
              <<Frame("normal", FALSE, 0, 0)>>)
  /\ UNCHANGED <<stack, errs, panic, outcome>>

\* The tail of evaluateGoFrame, then of evalBuiltinMethod.
FinishBuiltin(es, result) ==
  LET a == Top(acts)
  IN /\ IF heap[a.frame].isRemoved THEN UNCHANGED callFrames ELSE popFrame
     /\ currentFrame' = a.old
     /\ acts' = Pop(acts)
     /\ stack' = Append(SubSeq(stack, 1, a.recv - 1), result)
     /\ CheckResult(es, result)
     /\ UNCHANGED <<heap, bottom, outcome>>

\* each and its kin return the receiver or what a block returned.
ReturnFromEach ==
  /\ InBuiltin({"each"})
  /\ \E result \in {Val, Top(stack)} : FinishBuiltin(errs, result)

ReturnFromTry ==
  /\ InBuiltin({"try"}) /\ Top(acts).ran
  /\ LET blk == heap[Top(acts).frame].blockFrame
     IN FinishBuiltin(errs, IF heap[blk].isRemoved THEN Val ELSE Top(stack))

ReturnFromRequire ==
  InBuiltin({"require"}) /\ Top(acts).ran /\ FinishBuiltin(errs, Val)

-----------------------------------------------------------------------------
(* Leaving a normal frame.                                                 *)

ToDefers(p, st) ==
  /\ acts' = [acts EXCEPT ![Len(acts)] =
                [@ EXCEPT !.phase = "defers", !.pend = p, !.ret = Len(st)]]
  /\ stack' = st
  /\ panic' = NoPanic
  /\ UNCHANGED <<heap, callFrames, bottom, currentFrame, errs, outcome>>

\* Leave, with the frame's value on top of the stack.
Leave == Running /\ \E v \in Values : ToDefers(NoPanic, Append(stack, v))

\* The loop of execFrame ends because something moved pc past the end.
Stopped ==
  /\ acts # <<>> /\ panic = NoPanic
  /\ Top(acts).kind = "normal" /\ Top(acts).phase = "exec"
  /\ heap[Top(acts).frame].stopped
  /\ ToDefers(NoPanic, stack)

Deferring ==
  acts # <<>> /\ panic = NoPanic /\ Top(acts).phase = "defers"

\* The next deferred block, last registered first, above a NIL.
RunDefer ==
  /\ Deferring /\ Top(acts).defers # <<>>
  /\ LET c == Top(Top(acts).defers)
         n == Len(acts)
     IN /\ evaluate([acts EXCEPT ![n].defers = Pop(@)],
                    Act("normal", "defer", c, Len(stack) + 1, Len(stack) + 1),
                    <<>>)
        /\ stack' = Append(stack, Val)
  /\ UNCHANGED <<errs, panic, outcome>>

\* Mutant: after a deferred block the pointer is reset one slot too low.
AfterFrameLow(a) ==
  CASE a.via \in {"send", "invoke"} ->
         Append(SubSeq(stack, 1, a.recv - 1), Top(stack))
    [] a.via = "init" -> Append(SubSeq(stack, 1, a.recv - 1), Val)
    [] a.via = "class" -> Append(stack, Val)
    [] a.via = "defer" -> SubSeq(stack, 1, a.recv - 2)
    [] OTHER -> stack

\* What the caller of evaluateNormalFrame does to the data stack.
AfterFrame(a) ==
  CASE a.via \in {"send", "invoke"} ->
         Append(SubSeq(stack, 1, a.recv - 1), Top(stack))
    [] a.via = "init" -> Append(SubSeq(stack, 1, a.recv - 1), Val)
    [] a.via = "class" -> Append(stack, Val)
    [] a.via = "defer" -> SubSeq(stack, 1, a.recv - 1)
    [] OTHER -> stack

\* The tail of evaluateNormalFrame when nothing is being raised.
FinishFrame ==
  /\ Deferring /\ Top(acts).defers = <<>> /\ Top(acts).pend = NoPanic
  /\ LET a == Top(acts)
     IN /\ IF heap[a.frame].isRemoved
           THEN UNCHANGED <<heap, callFrames>>
           ELSE popFrame /\ heap' = [heap EXCEPT ![a.frame].isRemoved = TRUE]
        /\ currentFrame' = a.old
        /\ acts' = Pop(acts)
        /\ stack' = AfterFrame(a)
  /\ UNCHANGED <<bottom, errs, panic, outcome>>

-----------------------------------------------------------------------------
(* Unwinding.                                                              *)

\* A panic reaches a frame that was executing: its deferred blocks run first.
UnwindExec ==
  /\ acts # <<>> /\ panic # NoPanic
  /\ Top(acts).kind = "normal" /\ Top(acts).phase = "exec"
  /\ ToDefers(panic, stack)

\* Mutant: the frame an error leaves is stopped and not popped.
stopFrameOnly ==
  IF callFrames = <<>> THEN UNCHANGED <<heap, callFrames>>
  ELSE LET f == Top(callFrames)
       IN /\ heap' = [heap EXCEPT ![f].stopped = @ \/ heap[f].kind # "go"]
          /\ UNCHANGED callFrames

\* stopFrame stops and pops the top of callFrames, whoever that is.
stopFrame ==
  IF callFrames = <<>> THEN UNCHANGED <<heap, callFrames>>
  ELSE LET f == Top(callFrames)
       IN /\ heap' = [heap EXCEPT ![f].stopped = @ \/ heap[f].kind # "go"]
          /\ IF heap[f].isRemoved THEN UNCHANGED callFrames ELSE popFrame

reportErrorAndStop(p) ==
  /\ stopFrame
  /\ panic' = Reported(p)
  /\ acts' = Pop(acts)
  /\ UNCHANGED <<bottom, currentFrame, stack, errs, outcome>>

\* The deferred blocks are done: the panic goes on.
Rethrow ==
  /\ Deferring /\ Top(acts).defers = <<>> /\ Top(acts).pend # NoPanic
  /\ reportErrorAndStop(Top(acts).pend)

\* A deferred block raised: the loop over deferStack is abandoned.
UnwindDefers ==
  /\ acts # <<>> /\ panic # NoPanic
  /\ Top(acts).kind = "normal" /\ Top(acts).phase = "defers"
  /\ reportErrorAndStop(panic)

\* A panic out of a program: a Go error crashes the process; a Lito error is
\* printed and, in command line mode, ends it; a Go string is dropped.
Ends(v) ==
  CASE v = Runtime -> "crashed"
    [] v \in Errors /\ Mode = "commandline" -> "exited"
    [] OTHER -> "alive"

\* try's recover takes Errors, lets Go errors through and loses Go strings.
Catches(kind, v) ==
  \/ kind = "try" /\ v # Runtime
  \/ kind = "require" /\ Ends(v) = "alive"

TryRecovers ==
  /\ acts # <<>> /\ panic # NoPanic
  /\ Top(acts).kind = "try" /\ Catches("try", panic)
  /\ LET v == panic
     IN IF v \in Errors
        THEN FinishBuiltin([errs EXCEPT ![v].Ignore = TRUE], v)
        ELSE FinishBuiltin(errs, Val)

\* ExecInstructions reports an error of the required file and returns.
RequireRecovers ==
  /\ acts # <<>> /\ panic # NoPanic
  /\ Top(acts).kind = "require" /\ Catches("require", panic)
  /\ FinishBuiltin(errs, Val)

UnwindBuiltin ==
  /\ acts # <<>> /\ panic # NoPanic
  /\ Top(acts).kind # "normal" /\ ~Catches(Top(acts).kind, panic)
  /\ ~(Top(acts).kind = "require" /\ panic \in Errors)
  /\ reportErrorAndStop(panic)

-----------------------------------------------------------------------------
(* The thread's base: ExecInstructions.                                    *)

ExecInstructions ==
  /\ acts = <<>> /\ panic = NoPanic
  /\ Fresh <= MaxFrames
  /\ evaluate(acts, Act("normal", "program", Fresh, Len(stack) + 1, Len(stack)),
              <<Frame("normal", FALSE, 0, 0)>>)
  /\ UNCHANGED <<stack, errs, panic, outcome>>

ExecRecovers ==
  /\ panic # NoPanic
  /\ \/ acts = <<>>
     \/ acts # <<>> /\ Top(acts).kind = "require" /\ Ends(panic) = "exited"
  /\ outcome' = Ends(panic)
  /\ panic' = IF outcome' = "alive" THEN NoPanic ELSE panic
  /\ UNCHANGED <<heap, callFrames, bottom, currentFrame, acts, stack, errs>>

-----------------------------------------------------------------------------
Init ==
  /\ heap = <<>> /\ callFrames = <<>> /\ bottom = 0 /\ currentFrame = 0
  /\ acts = <<>> /\ stack = <<>>
  /\ errs = [e \in Errors |-> [born |-> FALSE, Raised |-> FALSE,
                               Ignore |-> FALSE]]
  /\ panic = NoPanic /\ outcome = "alive"

Step ==
  \/ ExecInstructions \/ ExecRecovers
  \/ CallMethod \/ CallBuiltin("each") \/ CallBuiltin("try")
  \/ CallBuiltin("require") \/ CallNew \/ DefClass \/ InvokeBlock
  \/ Defer \/ Break \/ Discard \/ LeafBuiltin \/ BuiltinPanics
  \/ Yield \/ RunFile \/ ReturnFromEach \/ ReturnFromTry \/ ReturnFromRequire
  \/ Leave \/ Stopped \/ RunDefer \/ FinishFrame
  \/ UnwindExec \/ Rethrow \/ UnwindDefers
  \/ TryRecovers \/ RequireRecovers \/ UnwindBuiltin

Next == outcome = "alive" /\ Step

Spec == Init /\ [][Next]_vars

-----------------------------------------------------------------------------
(* Properties.                                                             *)

FrameKinds == {"literal", "normal", "go"}
ActKinds == {"normal", "each", "try", "require"}
Vias == {"send", "init", "class", "invoke", "yield", "defer", "program"}

FrameRecord ==
  [kind : FrameKinds, isBlock : BOOLEAN, blockFrame : Nat, ep : Nat,
   isRemoved : BOOLEAN, stopped : BOOLEAN]
PanicValue == Errors \cup {NoPanic, Runtime, GoString}
ActRecord ==
  [kind : ActKinds, via : Vias, frame : Nat, old : Nat, recv : Nat,
   base : Nat, ran : BOOLEAN, phase : {"exec", "defers"},
   defers : Seq(Nat), pend : PanicValue, ret : Nat]

\* Every variable keeps the shape the code gives it.
TypeOK ==
  /\ heap \in Seq(FrameRecord)
  /\ callFrames \in Seq(Nat) /\ bottom \in Nat /\ currentFrame \in Nat
  /\ acts \in Seq(ActRecord)
  /\ stack \in Seq({Val} \cup Errors)
  /\ errs \in [Errors -> [born : BOOLEAN, Raised : BOOLEAN, Ignore : BOOLEAN]]
  /\ panic \in PanicValue
  /\ outcome \in {"alive", "crashed", "exited"}

\* callFrameStack lists exactly the frames Go is evaluating, in order, at
\* every moment of execution and of unwinding.  The one exception is a block
\* that just executed Break, which is popped before its Go call returns.
FramesMatch ==
  LET n == Len(acts)
      m == IF n > 0 /\ heap[acts[n].frame].isRemoved THEN n - 1 ELSE n
  IN /\ Len(callFrames) = m
     /\ \A i \in 1..m : callFrames[i] = acts[i].frame

\* Whenever code runs, currentFrame (the frame GetBlock reads the block from)
\* is the frame that is running, although panics do not restore it.
CurrentFrameRuns ==
  acts # <<>> /\ panic = NoPanic /\ Top(acts).phase = "exec"
    => currentFrame = Top(acts).frame

\* reportErrorAndStop raises whatever Error is on top of the data stack, so
\* the one that is propagating must be there: when it leaves a frame and
\* when it resumes after the frame's deferred blocks.
ErrorOnTop ==
  /\ panic \in Errors => stack # <<>> /\ Top(stack) = panic
  /\ \A i \in 1..Len(acts) :
       acts[i].pend \in Errors =>
         /\ acts[i].ret \in 1..Len(stack)
         /\ stack[acts[i].ret] = acts[i].pend

\* "Add something to the stack to prevent overwriting the return value":
\* after any number of deferred blocks the frame's value is on top again.
ReturnValueKept == Deferring => Len(stack) = Top(acts).ret

\* A frame's deferred blocks run in reverse order and at most once: the ones
\* still pending were registered before any frame that is now running.
DefersReversed ==
  \A i \in 1..Len(acts) : \A k \in 1..Len(acts[i].defers) :
    /\ acts[i].frame < acts[i].defers[k]
    /\ \A j \in i+1..Len(acts) : acts[i].defers[k] < acts[j].frame

\* No step writes below the slots of the activation on top: a callee, however
\* it ends, leaves its callers' operands alone.
CallersKept ==
  [][LET m == IF acts = <<>> THEN 0 ELSE Top(acts).recv - 1
     IN \A i \in 1..m : i <= Len(stack') /\ stack'[i] = stack[i]]_vars

\* A try that recovers an error leaves nothing in flight: the flags of the
\* error it returns do not raise it again at once.
TryAbsorbs ==
  [][acts # <<>> /\ Top(acts).kind = "try" /\ panic \in Errors
       => panic' = NoPanic]_vars

-----------------------------------------------------------------------------
(* What a comment of the code says and the code does not do.               *)

\* instruction.go, "Execute defer statements in reverse order, like Go": in Go
\* every deferred call of a frame runs before the frame ends, also when one of
\* them panics.
DefersAllRun ==
  [][acts # <<>> /\ Len(acts') < Len(acts) => Top(acts).defers = <<>>]_vars
=============================================================================
