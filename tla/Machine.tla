------------------------------- MODULE Machine -------------------------------
(***************************************************************************)
(* The opcode loop (execFrame of vm/instruction.go) running what Generator *)
(* makes of a program: frames, locals chained through ep, the data stack,  *)
(* blocks and what calls them.                                             *)
(*                                                                         *)
(* Thread has every way in which frames can come and go, for any code;     *)
(* here the code is given, an error ends the program, and callFrameStack   *)
(* and currentFrame, which Thread shows to follow Go's calls, are left     *)
(* out.                                                                    *)
(***************************************************************************)
EXTENDS Generator, FiniteSets

CONSTANT Programs

VARIABLES
  program,
  compiled, \* what Generator made of it
  frames,  \* every frame allocated so far, a block literal's among them
  calls,   \* Go's calls: of evaluateNormalFrame, and of times, innermost last
  stack,   \* the data stack below its pointer
  out      \* what was printed

vars == <<program, compiled, frames, calls, stack, out>>

NoFrame == 0
Unset == -10   \* a nil *Pointer in locals

newFrame(is, ep, blockFrame, isBlock, locals) ==
  [is |-> is, pc |-> 1, ep |-> ep, blockFrame |-> blockFrame,
   isBlock |-> isBlock, isRemoved |-> FALSE, locals |-> locals]

\* A call: who called and what for, the frame it runs (of times: the block
\* literal), the receiver's slot, the height of the stack it started with,
\* and the counter and limit of times.
Activation(how, f, rp, base, n) ==
  [how |-> how, f |-> f, rp |-> rp, base |-> base, i |-> 0, n |-> n]

Current == calls[Len(calls)]
cf == frames[Current.f]
code == compiled.sets[cf.is].code
instruction == code[cf.pc]

\* execFrame is about to execute op.
Fetch(op) ==
  /\ calls # <<>> /\ Current.how # "times"
  /\ cf.pc <= Len(code)
  /\ instruction.op = op

Goto(pc) == frames' = [frames EXCEPT ![Current.f].pc = pc]
Advance == Goto(cf.pc + 1)

top == stack[Len(stack)]
DropTop(n) == SubSeq(stack, 1, Len(stack) - n)

-----------------------------------------------------------------------------
(* Locals.                                                                 *)

RECURSIVE EnvAt(_, _)
EnvAt(f, depth) == IF depth = 0 THEN f ELSE EnvAt(frames[f].ep, depth - 1)

getLocal(f, index, depth) ==
  LET locals == frames[EnvAt(f, depth)].locals
  IN IF index < Len(locals) THEN locals[index + 1] ELSE Unset

\* The locals of a frame once v is at index, for the callers that find no
\* pointer there: nil pointers fill the gap.
Extended(locals, index, v) ==
  [i \in 1..(IF index < Len(locals) THEN Len(locals) ELSE index + 1) |->
     IF i = index + 1 THEN v ELSE IF i <= Len(locals) THEN locals[i] ELSE Unset]

\* Mutant: the frame itself is written whatever the depth.
InsertHere(f, index, depth, v) ==
  frames' = [frames EXCEPT ![f].locals = Extended(@, index, v),
                           ![Current.f].pc = @ + 1]

\* An existing pointer is written through; otherwise the frame gets a local
\* of its own, "depth" not considered.
insertLocal(f, index, depth, v) ==
  LET owner == IF getLocal(f, index, depth) # Unset THEN EnvAt(f, depth) ELSE f
  IN frames' = [frames EXCEPT ![owner].locals = Extended(@, index, v),
                              ![Current.f].pc = @ + 1]

GetLocal ==
  /\ Fetch("GetLocal")
  /\ LET p == getLocal(Current.f, instruction.b, instruction.a)
     IN stack' = Append(stack, IF p = Unset THEN Nil ELSE p)
  /\ Advance
  /\ UNCHANGED <<program, compiled, calls, out>>

\* Mutant: the value is popped, and again as a statement.
SetLocalPops ==
  /\ Fetch("SetLocal")
  /\ stack' = DropTop(1)
  /\ insertLocal(Current.f, instruction.b, instruction.a, top)
  /\ UNCHANGED <<program, compiled, calls, out>>

SetLocal ==
  /\ Fetch("SetLocal")
  /\ insertLocal(Current.f, instruction.b, instruction.a, top)
  /\ UNCHANGED <<program, compiled, calls, stack, out>>

SetOptional ==
  /\ Fetch("SetOptional")
  /\ stack' = DropTop(1)
  /\ IF getLocal(Current.f, instruction.b, instruction.a) = Unset
     THEN insertLocal(Current.f, instruction.b, instruction.a, top)
     ELSE Advance
  /\ UNCHANGED <<program, compiled, calls, out>>

-----------------------------------------------------------------------------
(* Opcodes that stay in the frame.                                         *)

\* PutInt, PutNull, PutTrue, PutFalse, PutSelf.
Put ==
  /\ Fetch("Put")
  /\ stack' = Append(stack, instruction.a)
  /\ Advance
  /\ UNCHANGED <<program, compiled, calls, out>>

Dup ==
  /\ Fetch("Dup")
  /\ stack' = Append(stack, top)
  /\ Advance
  /\ UNCHANGED <<program, compiled, calls, out>>

\* Discard leaves an empty stack alone.
Pop ==
  /\ Fetch("Pop")
  /\ stack' = IF stack = <<>> THEN stack ELSE DropTop(1)
  /\ Advance
  /\ UNCHANGED <<program, compiled, calls, out>>

\* Add and Less of two integers.
Arithmetic ==
  /\ \/ Fetch("add")
     \/ Fetch("less")
  /\ LET l == stack[Len(stack) - 1]
         v == IF instruction.op = "add" THEN l + top ELSE Bool(l < top)
     IN stack' = Append(DropTop(2), v)
  /\ Advance
  /\ UNCHANGED <<program, compiled, calls, out>>

Branch ==
  /\ \/ Fetch("BranchUnless")
     \/ Fetch("BranchIf")
  /\ LET jumps == Falsy(top) <=> instruction.op = "BranchUnless"
     IN Goto(IF jumps THEN instruction.a ELSE cf.pc + 1)
  /\ stack' = DropTop(1)
  /\ UNCHANGED <<program, compiled, calls, out>>

Jump ==
  /\ Fetch("Jump")
  /\ Goto(instruction.a)
  /\ UNCHANGED <<program, compiled, calls, stack, out>>

\* Mutant: execution stops at the last instruction, not behind it.
LeaveAtLast ==
  /\ Fetch("Leave")
  /\ Goto(Len(code))
  /\ UNCHANGED <<program, compiled, calls, stack, out>>

\* stopExecution
Leave ==
  /\ Fetch("Leave")
  /\ Goto(Len(code) + 1)
  /\ UNCHANGED <<program, compiled, calls, stack, out>>

\* A block stops, and it and its literal are removed; elsewhere nothing.
BreakBlock ==
  /\ Fetch("Break")
  /\ IF cf.isBlock
     THEN frames' = [frames EXCEPT ![Current.f].pc = Len(code) + 1,
                                   ![Current.f].isRemoved = TRUE,
                                   ![cf.blockFrame].isRemoved = TRUE]
     ELSE Advance
  /\ UNCHANGED <<program, compiled, calls, stack, out>>

-----------------------------------------------------------------------------
(* Calls.                                                                  *)

\* print, a builtin method of self: its result NIL replaces the receiver.
SendPuts ==
  /\ Fetch("SendPuts")
  /\ out' = Append(out, top)
  /\ stack' = Append(DropTop(2), Nil)
  /\ Advance
  /\ UNCHANGED <<program, compiled, calls>>

\* The frames with the caller's pc advanced and the frame of the block
\* literal, if the call has one, whose environment is the caller.
WithLiteral ==
  LET advanced == [frames EXCEPT ![Current.f].pc = @ + 1]
  IN IF instruction.b = 0 THEN advanced
     ELSE Append(advanced, newFrame(instruction.b, Current.f, NoFrame, TRUE, <<>>))

\* times of an integer, with a block.
SendTimes ==
  /\ Fetch("SendTimes")
  /\ frames' = WithLiteral
  /\ calls' = Append(calls, Activation("times", Len(frames) + 1, Len(stack),
                                       Len(stack), top))
  /\ UNCHANGED <<program, compiled, stack, out>>

\* Yield: a frame of the block with i as its local.
YieldBlock ==
  /\ calls # <<>> /\ Current.how = "times" /\ Current.i < Current.n
  /\ LET literal == frames[Current.f]
         c == newFrame(literal.is, literal.ep, Current.f, TRUE, <<Current.i>>)
         counted == [calls EXCEPT ![Len(calls)].i = @ + 1]
     IN IF literal.isRemoved
        THEN calls' = counted /\ UNCHANGED frames
        ELSE /\ frames' = Append(frames, c)
             /\ calls' = Append(counted, Activation("yield", Len(frames) + 1, 0,
                                                    Len(stack), 0))
  /\ UNCHANGED <<program, compiled, stack, out>>

\* times returns its receiver.
TimesReturns ==
  /\ calls # <<>> /\ Current.how = "times" /\ Current.i >= Current.n
  /\ calls' = Front(calls)
  /\ stack' = SubSeq(stack, 1, Current.rp)
  /\ UNCHANGED <<program, compiled, frames, out>>

\* What evalMethodCall has of a call: the arguments with their kinds, and the
\* parameters.
argCount == instruction.a
args == SubSeq(stack, Len(stack) - argCount + 1, Len(stack))
argSet == instruction.argSet
params == program.params
normalParamsCount == Len(SelectSeq(params, LAMBDA q : q.kind = "normal"))

\* reportArgumentError, a required key not given, an unknown key.
WrongCall ==
  \/ argCount > Len(params) /\ ~\E q \in Range(params) : q.kind = "splat"
  \/ normalParamsCount > argCount
  \/ \E q \in Range(params) :
       /\ q.kind = "required key"
       /\ ~\E a \in Range(argSet) : a.kind \in Keys /\ a.x = q.x
  \/ \E a \in Range(argSet) :
       /\ a.kind \in Keys
       /\ ~\E q \in Range(params) : q.kind \in Keys /\ q.x = a.x

\* How many of the first i parameters are of these kinds.
Among(kinds, i) ==
  Cardinality({j \in 1..i : params[j].kind \in kinds})

\* assignKeywordArguments, assignNormalAndOptionedArguments,
\* assignSplatArgument and assignNormalArguments: what parameter i gets.
Bound(i) ==
  LET q == params[i]
      key == SelectLastInSeq(argSet, LAMBDA a : a.kind \in Keys /\ a.x = q.x)
      plain == SelectSeq([j \in 1..argCount |-> j],
                         LAMBDA j : argSet[j].kind \notin Keys)
      nth == Among({"normal", "optional"}, i)
      moreThanNormal == normalParamsCount < argCount
  IN CASE q.kind \in Keys -> IF key = 0 THEN Unset ELSE args[key]
       [] q.kind = "normal" /\ ~moreThanNormal -> args[Among({"normal"}, i)]
       [] q.kind \in {"normal", "optional"} /\ moreThanNormal ->
            IF nth <= Len(plain) THEN args[plain[nth]] ELSE Unset
       [] q.kind = "splat" /\ moreThanNormal -> ArrayOf(SubSeq(args, i, argCount))
       [] OTHER -> Unset

\* evalMethodCall: a frame for the method with its arguments as first locals.
SendMethod ==
  /\ Fetch("SendMethod") /\ ~WrongCall
  /\ LET block == IF instruction.b = 0 THEN NoFrame ELSE Len(frames) + 1
         locals == [i \in 1..Len(params) |-> Bound(i)]
     IN frames' = Append(WithLiteral, newFrame(compiled.method, NoFrame, block,
                                               FALSE, locals))
  /\ calls' = Append(calls, Activation("method", Len(frames'),
                       Len(stack) - argCount, Len(stack), 0))
  /\ UNCHANGED <<program, compiled, stack, out>>

\* The error takes the receiver's slot and, there being no try, ends all.
ArgumentError ==
  /\ Fetch("SendMethod") /\ WrongCall
  /\ calls' = <<>>
  /\ stack' = Append(DropTop(argCount + 1), Error)
  /\ out' = Append(out, Error)
  /\ UNCHANGED <<program, compiled, frames>>

\* The block that yield calls: in a block of the method, the method's.
BlockToInvoke ==
  IF frames[cf.blockFrame].ep = cf.ep THEN frames[cf.ep].blockFrame
  ELSE cf.blockFrame

InvokeBlock ==
  /\ Fetch("InvokeBlock")
  /\ LET literal == frames[BlockToInvoke]
         c == newFrame(literal.is, literal.ep, BlockToInvoke, TRUE, args)
     IN frames' = Append(WithLiteral, c)
  /\ calls' = Append(calls, Activation("block", Len(frames'),
                       Len(stack) - argCount, Len(stack), 0))
  /\ UNCHANGED <<program, compiled, stack, out>>

\* A frame is done.  The caller takes what is on top of the stack for the
\* value; times leaves it there until it returns.
ReturnFromFrame ==
  /\ calls # <<>> /\ Current.how # "times" /\ cf.pc > Len(code)
  /\ calls' = Front(calls)
  /\ stack' = IF Current.how \in {"method", "block"}
              THEN Append(SubSeq(stack, 1, Current.rp - 1), top)
              ELSE stack
  /\ UNCHANGED <<program, compiled, frames, out>>

-----------------------------------------------------------------------------
Init ==
  /\ program \in Programs
  /\ compiled = GenerateInstructions(program)
  /\ frames = <<newFrame(compiled.program, NoFrame, NoFrame, FALSE, <<>>)>>
  /\ calls = <<Activation("program", 1, 0, 0, 0)>>
  /\ stack = <<>> /\ out = <<>>

Next ==
  \/ Put \/ Dup \/ Pop \/ Arithmetic \/ Branch \/ Jump \/ Leave \/ BreakBlock
  \/ GetLocal \/ SetLocal \/ SetOptional
  \/ SendPuts \/ SendTimes \/ YieldBlock \/ TimesReturns
  \/ SendMethod \/ ArgumentError \/ InvokeBlock \/ ReturnFromFrame

Spec == Init /\ [][Next]_vars

\* The one thread goes on as long as it can.
FairSpec == Spec /\ WF_vars(Next)

-----------------------------------------------------------------------------
(* Properties.                                                             *)

\* What a program prints is what it means: conditionals, loops, break and
\* continue jump where they should, blocks and yield run the right code with
\* the right variables, whatever Generator made of them.
RunsAsWritten ==
  LET meant == Meaning(program)
  IN /\ Len(out) <= Len(meant)
     /\ \A i \in 1..Len(out) : meant[i] \in {out[i], Unknown}
     /\ calls = <<>> => Len(out) = Len(meant)

\* No frame takes from the data stack what its caller put there.
OperandsKept ==
  calls # <<>> => Len(stack) >= Current.base

\* Every program ends, as each of these programs does by its meaning.
Terminates == <>(calls = <<>>)

\* call_frame.go: ep "points to the call frame we want to get locals from".
\* The frame whose local is assigned is the one it will be read from.
WritesWhereItReads ==
  [][SetLocal => LET locals == frames'[EnvAt(Current.f, instruction.a)].locals
                 IN /\ instruction.b < Len(locals)
                    /\ locals[instruction.b + 1] = top]_vars
=============================================================================
