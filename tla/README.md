# A formal model of the Lito interpreter

Lito (`src/`) is a Ruby-like language implemented in Go: a lexer and a parser
turn a file into a syntax tree, a generator turns the tree into bytecode, and a
virtual machine (`src/vm`) executes it. Programs start goroutines, share
objects between them and synchronise with `Channel`, `Lock` and `WaitGroup`.
This directory holds TLA+ modules for the parts of the machine whose
correctness depends on the order of events: how frames, blocks, deferred blocks
and errors nest within one interpreter thread, how several threads use the
synchronisation classes, whether what the generator makes of a program, run by
the opcode loop, does what the program says, how the REPL turns lines into
programs through the lexer and the parser, and how class statements build the
structs that method and constant lookups follow. Each module is checked with
TLC on small instances; for the core ones the invariants are proved with TLAPS
for every value of the constants.

`PROJECT.json` gives, for every definition, the lines of `src/` it stands for.

## 1. Inventory

| Component | State it keeps | Operations | What is hard about it |
|---|---|---|---|
| Interpreter thread (`vm/thread.go`, `call_frame.go`, `stack.go`, `instruction.go`, `error.go`) | `callFrameStack`, the data stack and its pointer, `currentFrame`, flags on frames (`isRemoved`, `pc`) and on errors (`Raised`, `Ignore`) | one opcode loop, `evaluateNormalFrame`, `evaluateGoFrame`, `Yield`, `evalBuiltinMethod`, `reportErrorAndStop`, `try`, `defer`, `break`, `require` | two stacks, Lito's frames and Go's calls, must agree through returns, breaks, panics and recovers; errors travel on the data stack |
| Lock (`vm/lock.go`) | a `sync.Mutex` and a boolean | `lock` (with or without block), `unlock`, `locked?` | three non-atomic steps per operation; blocks that raise |
| Channel (`vm/channel.go`) | a Go channel of pointers, `ChannelState` | `<-`, `receive`, `each`, `close`, `closed?`, `cap` | test-then-block; closing under senders and receivers; pointers followed late |
| WaitGroup and goroutines (`vm/waitgroup.go`, `go` of `vm/class.go`) | a `sync.WaitGroup`: its counter, its waiters, its semaphore | `add`, `done`, `wait`, `wg.go`, `go` | panics of Go that Lito swallows; the counter against goroutines that start and die |
| Locals and lexical scoping (`vm/call_frame.go`, `block.go`, `bytecode/local_table.go`) | `locals` of a frame, chained through `ep` | get, insert (locked or fast), constants | goroutines insert into their creator's frame; arguments alias the creator's data stack |
| Classes and lookup (`vm/class.go`, `base_object.go`, `vm.go`, `instruction.go`) | `superClass`, `pseudoSuperClass`, `metaClass` and `scope` pointers, method and constant tables | `DefClass`, `DefMethod`, `include`, `extend`, `inherits`, `FindMethod`, constant lookup, `is_a?`, `<`, `ancestors` | one pointer serves inheritance and inclusion; five walks along it, each with its own end; lookups that depend on what is left on the data stack |
| Argument binding (`vm/call_object.go`, `method_object.go`) | the index of the argument being bound | normal, optional, keyword and splat parameters | off-by-one at every boundary |
| REPL (`vm/repl.go`, `repl/repl.go`, `fsm/fsm.go`) | lines collected, brace count, FSM state, the generator's local table, the base frame between commands | read a line, interrupt, `.reset`, execute, report | four tests decide whether a line completes a program; a failed command must not damage the next |
| Lexer (`compiler/lexer`) | position, FSM state | next token | what a word or a colon is depends on what was read before |
| Parser (`compiler/parser`, `ast`) | token window, FSM state, `acceptBlock`, the error | recursive descent, Pratt parsing | errors do not stop it; states saved and restored by hand, and kept from one input of the REPL to the next |
| Bytecode generator (`compiler/bytecode`) | instruction sets, anchors, local tables | compile statements and expressions | jumps patched after the fact |
| Collections, numbers, files, JSON, regexps, system (`vm/*.go`) | values | pure computation or calls into Go | few states; range arithmetic, slice aliasing |
| Command line (`cmd/lito`) | none | parse flags, run file or REPL | nothing |

Interactions. The command line and the REPL drive the machine through
`ExecInstructions` and `REPLExec`. A builtin method gets the thread that calls
it and may call back into it (`Yield`, `evalMethodCall`, `require`). `go` and
`wg.go` start goroutines, each with an interpreter thread of its own, that
share objects and enclosing frames with their creator. `Lock`, `Channel` and
`WaitGroup` are builtin methods around Go's types, and their errors are Lito
errors of the calling thread: how one of them ends for the caller (unwinding to
a `try`, ending a goroutine silently, ending the process) is what `Thread`
models in full and the other modules take from it.

What makes each component correct:

* thread: the frame stack names the running code at all times; a call leaves
  its caller's operands alone however it ends; the error that propagates is the
  one that was raised; deferred blocks run once, in reverse, and keep the
  return value; `try` stops what it reports;
* lock: mutual exclusion for programs that unlock what they hold, no crash and
  no starvation for them; no stuck lock for anybody;
* channel: values come out in order and once; a close releases everyone and is
  visible before its effects; errors rather than Go panics;
* wait group: `wait` joins; the deferred `Done` of a goroutine never ends the
  process, unless the program called `done` too often or used the group again
  while Go was still releasing its waiters;
* generator, scoping, binding: a compiled program prints what the program means;
  a parameter gets its argument, or the call is refused; statements leave the
  data stack as it was;
* REPL, lexer, parser: lines are executed when they complete a program and as
  the tree that was written, each once and in order; what failed leaves neither
  lines nor states behind; locals last; every line is answered;
* classes: a class has the superclass it was declared with; a message finds the
  first ancestor that defines it; the lookups end and agree with one another.

The hazards behind these, at the lines where they bite, are in `PROJECT.json`.

## 2. Modules

| Module | What it is |
|---|---|
| `Thread` | one interpreter thread: frames, data stack, errors, `defer`, `break`, builtins that run code |
| `MCThread` | the sets of operations checked by TLC |
| `ThreadProofs` | the inductive invariant of `Thread` and the theorems that follow |
| `ThreadOperands` | what `Thread` keeps on its data stack: the second invariant and its theorems |
| `Mutex` | abstract: at most one thread inside |
| `Lock`, `MCLock` | `vm/lock.go`, step by step |
| `LockProofs` | `Lock` implements `Mutex`, and its safety properties |
| `Fifo` | abstract: a queue that can be closed |
| `Channel`, `MCChannel` | `vm/channel.go` over a model of Go's channel |
| `ChannelProofs` | `Channel` implements `Fifo`, keeps its bounds and delivers no value twice |
| `WaitGroup`, `MCWaitGroup` | `vm/waitgroup.go` and goroutines over a model of `sync.WaitGroup` |
| `WaitGroupProofs` | the counting invariant of `WaitGroup` and what follows |
| `Language` | syntax trees and what they mean when nothing is compiled: the specification |
| `Generator` | `compiler/bytecode`: from syntax trees to instruction sets |
| `Machine` | the opcode loop running them: frames, locals, blocks, calls, arguments |
| `MCMachine` | the programs checked by TLC |
| `FSM` | `fsm/fsm.go`: the state machine that lexer, parser and REPL each have |
| `Lexer` | `compiler/lexer`: from characters to tokens |
| `Parser` | `compiler/parser`: from tokens to trees, one action per parse function |
| `Grammar` | how programs are written: the text of each tree, the specification of `Lexer` and `Parser` |
| `Prompt` | abstract: lines are held, dropped or run |
| `Repl` | `repl/repl.go` and `vm/repl.go`, over `Lexer` and `Parser` |
| `MCRepl` | what is typed in the runs |
| `ReplProofs` | `Repl` implements `Prompt`, runs lines in order and keeps locals; what `Parser` accepts is a tree without nil, and the parser comes back to its state |
| `Hierarchy` | abstract: superclasses, mixed in modules, methods, and which one answers |
| `Classes`, `MCClasses` | `vm/class.go` and the statements that build classes, as a heap of structs |
| `ClassesProofs` | `Classes` implements `Hierarchy`, and keeps its shape |
| `ClassesLookups` | the lookups of `Classes` end, and find what `Hierarchy` says |

### Thread

State. `heap` is every frame allocated so far, a `CallFrame` or a
`goCallFrame`, with the fields that decide control: what kind it is, whether it
is a block, the block frame and the environment it points to, `isRemoved`, and
`stopped` (pc past the end). `callFrames` is `callFrameStack` below its pointer;
`bottom` is its slot 0, which `pop` returns for ever once the stack is empty.
`acts` is Go's stack: one record per running `evaluateNormalFrame` or
`evaluateGoFrame`, holding its Go locals (the frame, `oldFrame`, the receiver's
slot, `deferStack`, and, while `execFrame`'s deferred function runs, the panic
it interrupted). `stack` is the data stack below its pointer, `errs` the two
flags of each `Error`, `panic` the panic in flight.

Actions. One per opcode or builtin that changes frames: `CallMethod` (Send of a
Lito method, with or without a block literal), `CallBuiltin` and `Yield`,
`RunFile`, `ReturnFrom...` (`each` and its kin, `try`, `require`), `CallNew`,
`DefClass`, `InvokeBlock`, `Defer`, `Break`, `Discard`, `LeafBuiltin` (all
builtins that only compute; they may return an error, which the tail of
`evalBuiltinMethod` then raises), `BuiltinPanics` (a Go panic within one).
Leaving a frame is split where Go code of other frames can run: `Leave` or
`Stopped`, `RunDefer` for each deferred block, `FinishFrame`. A panic moves one
Go call per step: `UnwindExec`, `UnwindDefers`, `Rethrow`, `UnwindBuiltin`, and
ends in `TryRecovers`, `RequireRecovers` or `ExecRecovers`.

The program is not fixed: at each point any operation in `Ops` may be next, so
a run of TLC covers all programs up to its bounds. Values are reduced to "an
Error" and "anything else". Locals, constants, self and arithmetic do not
influence frames and are left out; the `while` loop and conditionals are
subsumed by the free choice of the next operation.

### Lock

`Lock` separates each access to the two fields: `lock` is `Lock` (the call),
`Acquire` (`mutex.Lock`), `Mark` (`locked = true`, then return or yield);
`unlock` is `Unlock` or `UnlockRefused` (the test), `Clear`, `Release`; `lock`
with a block goes on to the same tail (`EndBlock`), unless the block raises
(`BlockRaises`: no unlock happens). The variable `program` picks, once, what
programs do: `any` calls anything, `owner` unlocks only what it locked, `calm`
moreover passes no raising blocks. `Mutex` is the abstract lock; the mapping
sends the threads to which `lock` has returned or yielded to `inside`.

### Channel

A `ChannelObject` is modelled together with the Go channel it wraps (`buf`,
`shut`, capacity `cap`; `Put`, `Pass`, `Take`, `TakeNil`, `SendPanics` are Go's,
and external to `src/`). The code's own steps: `Send` (the test), `Box` (the
variable `obj` and its address; `cells` is the memory), `Receive`, `Each`,
`Deref` (following the pointer, then returning or yielding), `EndBlock`,
`BlockRaises`, `Close` (the test), `MarkClosed`, `Shut`. A thread that fails
ends as `Thread` describes: a Lito error unwinds its running `each` loops down
to some `try` or ends the thread; the end of the main thread is the end of the
process; a Go panic is caught by no `try`. `Fifo` is the abstract queue; the
mapping follows the pointers in `buf` and in what was received.

### WaitGroup

The `sync.WaitGroup` is that of Go 1.20, step by step: one word with the counter
(`count`) and the number of `waiters`, and a semaphore (`sema`) they sleep on.
`AddTo` is the first step of its `Add`: it moves the counter, and panics if that
is now negative or was zero under waiters. Who brings it to zero under waiters
looks again (`Check`) and panics if the word has changed, then overwrites the
word and wakes as many as it had seen (`Release`); `Acquire` and `Return` are the
end of `Wait`. The ghost `balance` is what calls of `add` and `done` sum up to,
`overdone` that it was negative once, and `late` that an `add` or `wg.go` found
waiters of a counter that was zero: the last `Done` had yet to release them.
Such an add panics, and so does that `Done` at its second look if it has yet to
take it.

`wg.go` is `Go` (`Add(1)`) and `Spawn` (the go statement), a goroutine ends by
`BlockEnds` or `BlockRaises` and then calls `DeferredDone`. A panic of
`sync.WaitGroup` has a string value: it may be swallowed by a `try`, by the
goroutine's `recover`, or end the program (`Panic`); that of the deferred `Done`
comes after the `recover` and crashes the process. `program` is `any`, or `calm`
for programs that use only `go` and `wait`, and wait outside the group.

### Generator, Machine

`Generator` follows the source function by function: each `compile...` operator
gives the steps that the function of that name takes for a node (append an
instruction, define an anchor, compile a part), and `Generate` takes them, each
part giving way to its own steps. Jumps name an anchor, and
`GenerateInstructions` replaces anchors by places (`Anchored`) and shortens
jumps to jumps (`elide`). An instruction is a record and a place is its number,
where the source counts words. `Machine` is a small interpreter: `frames` is
every frame allocated (`newFrame`; a block literal is a frame that is never
run), with `locals`, `ep`, `blockFrame`, `isRemoved` and `pc` as in `CallFrame`;
`calls` is Go's stack, with an entry for a running `times`; `stack` is the data
stack. There is one action per opcode, with `Send` split by what is called:
`SendPuts` (a builtin without a block), `SendTimes`, `YieldBlock` and
`TimesReturns` (a builtin with one), `SendMethod` (a Lito method; `Bound` is
what `callObject` assigns to each parameter), `ArgumentError`. The operators
`&&`, `||`, `+`, `<` stand for the rest of their kind.

`Language` is written without looking at either: `Meaning(p)` is what program
`p` prints, with scopes that bind names, blocks that remember their context,
and arguments given to parameters by rule. `RunsAsWritten` relates the two.

### Repl, Lexer, Parser

The three are one specification. `Lexer` has the lexer in `l`: the input, the
place, its state machine and the tokens so far; an action reads one token (or
one character of a string). Nothing it does depends on the parser, so the whole
input is read first. `Parser` has the parser in `p`: the token it is at,
`fsm`, `acceptBlock`, `err`, and Go's stack made explicit, `todo` (what the
functions under way have left to do) above `val` (the nodes they have made);
there is an action for each parse function and one for each place to which a
call inside it returns. An error is a field, not an exit: the functions go on
with nil nodes until a statement list looks at it, as in the source. A node holds
the literal of its token, and what it is made of; an integer that
`strconv.ParseInt` refuses is an error (`ParsesAsInt`). `nils`
counts the nil nodes in a tree, which the generator would follow. `Repl` is the
loop: `Read...` takes a line (or
Ctrl-C, with or without text before it, Ctrl-D, `.reset`), the parser judges
the lines collected, and one of `WaitForMore`, `RejectToken`, `StillOpen`,
`ParseAgain`, `Accept`, `Reject`, `AcceptAgain` is what the loop makes of the
error, the braces, the quotes and its state machine. `Exec` and `ExecRaise`
execute a command as the list of the variables its statements assign: slots of
the local table, the locals of the command's frame, and what `REPLExec` copies
back to the base frame; `Crash` is a nil node reaching the generator. Prompts,
indentation, echo and history are left out.

`Grammar` writes programs: each operator makes a phrase, text and tree side by
side, with parentheses where its level calls for them, in the tokens and the
layout of the language and without a look at how they are read. A session of
`MCRepl` is such programs, line by line, with the number of them that each line
completes; or any text at all. `Prompt` is the REPL seen from outside: numbers
of lines held, dropped or run.

### Classes

`heap` is the `RClass` structs, metaclasses and spliced copies of modules
included; 0 is nil. A copy shares the maps of its original, as `*module` does
in Go, so `maps` names the struct that has them (`methods`, `constants`).
`self` is the class whose body is executed, `asked` the ghost of the superclass
a statement named. Statements are compiled as the REPL compiles them, without a
`Pop` after an expression. `stack` is what is on the data stack: while the body
of `class N < S` runs, the outer `self` is below, and `open` counts these; the
statement's two pops take it off when the body ends (`EndOfBody`). `include`
and `extend` leave the class, until the next command. `DefineClass`,
`DefineSubclass` and `Reopen` are the three ways through `DefClass`; `Include`
and `Extend` splice; `DefMethod`, `DefMetaMethod` and `Assign` are their
opcodes; `NextCommand` is `REPLExec` emptying the stack, after a command that
ended or raised. The lookups are operators: `lookupMethod`, `FindMethod`,
`isA`, `alreadyInherit`, `lookupConstantUnderAllScope` and the VM's
`lookupConstant` are walks along one pointer (`Along`), each with its own end.
`Hierarchy` is what is promised; the mapping takes for the parent of a class
the first struct above it that is no copy, and for its mixins the originals of
the copies in between.

## 3. Runs

| Run | Instance | What it shows |
|---|---|---|
| `thread_unwind` | one error, 6 frames, 1 temporary, normal mode; methods, iterators, `try`, `require`, `break` (also after a `defer`), `defer`, `raise` | the propagating error is on top of the data stack wherever `reportErrorAndStop` looks; deferred blocks keep the return value and run in reverse |
| `thread_nest` | one error, 5 frames, every operation, command line mode | the two stacks agree; `currentFrame` is the running frame; callers keep their operands; `try` leaves nothing in flight |
| `lock` | 3 threads, all three kinds of program, with fairness | never stuck; refinement of `Mutex`, holders can unlock and never crash; waiters get the lock |
| `channel` | main thread and 2 goroutines, capacity 0 and 1, 2 values, fairness | refinement of `Fifo`; each value once; the field is set before the close is seen; close releases everyone |
| `waitgroup` | main thread and 2 goroutines, 2 additions, 1 extra `done`, fairness | `wait` joins, unless `done` outnumbers `add` or an add is `late`; a crash needs one of the two; `wait` returns if programs use only `go` and `wait`, unless an add is `late` |
| `machine` | 870 programs, with fairness | compiled and run, each prints what it means; no frame takes its caller's operands; every program ends |
| `repl` | 3,340 sessions in the REPL's mode: 511 programs, with one and two operators and each construct around the kinds of statement; sequences of three programs; three words of any kind, unfinished statements, special characters, and dialogues of up to four lines with errors, Ctrl-C and `.reset` | programs are executed when complete and as the tree they are the text of; lexer and parser states are restored; accepted trees hold no nil; locals last; lines run once and in order (refinement of `Prompt`); every line is answered |
| `classes` | names A, B and M (a module's), at most 3 classes and modules, 2 copies, 2 methods, 1 alias, 4 of all these together (an alias counts twice), 2 slots of the data stack | refinement of `Hierarchy`; messages and `super` find what the ancestors define; lookups end; a subclass gets the class it named; `is_a?` and `<` agree with the ancestors |
| `thread_dropped_defers` | as `thread_unwind`, but no block breaks after a defer | **violated**: a deferred block raises, and the others of its frame never run |
| `lock_race` | 2 threads | **violated**: an unlock race kills the process |
| `channel_send_race` | 3 threads, unbuffered | **violated**: a send racing a close panics in Go |
| `machine_stray_write` | 4 programs | **violated**: a block's assignment to a variable further out overwrites the block's parameter |

Bounds. `MaxFrames` bounds the frames a run may allocate, and with it the depth
of nesting and the number of calls. Six suffice for a program frame, a builtin
with its block literal, the block's frame, and a deferred block's two frames,
the smallest program in which a deferred block, an error and a `try` meet; in
`thread_nest` five do, enough for any two of its operations to nest with a
block. `MaxTemps` is one operand per frame: enough for a caller to have
something to lose. One error object suffices because the flags of different
errors are independent; a second is a theorem's business (the proofs hold for
any set). Three threads for the lock are a holder, a racer and a waiter; in
`channel`, a sender, a receiver and a closer, two values so that order can be
wrong; `MaxNest` lets each thread nest two blocks of `lock`, or one loop of
`each`. In `waitgroup` two goroutines let one of the group start or wait for
the other, and a third thread come between the two looks of a deferred `Done`
while one waits. The runs do not check deadlock (`CHECK_DEADLOCK FALSE`):
programs end, bounds run out, and a program that locks twice really waits for
ever.

The programs of `machine` are families: every way to leave (`break`,
`continue`, `return`, none) under every kind of condition in a loop, a block,
and each of the two in the other or a loop in a loop (`ControlPrograms`);
blocks in blocks that write and read a variable of every level
(`ScopePrograms`); a method that yields, from its body and from a block, to
callers' blocks that assign, nest and return (`CallPrograms`); and up to four
positional and two keyword arguments against every mix of at most two
parameters, two keys and a splat (`BindingPrograms`). Two turns of each loop
are enough for a second one to see what the first left. Programs on which code
and language disagree are excluded, and named in section 5.

In `repl` a session is a single program for every construct, so that each parse
function runs in each state it can be entered in, and dialogues of up to four
lines for what one input leaves to the next: one line that opens or fails, one
or two more, and one that shows the damage. All 1,728 rows of three words bring
the parser to every error it knows, and the unfinished statements to every
place where it expects something else; on them, `NilFree`, `Answered` and the
properties of the lines are checked, for there is no tree to compare with. In
`classes` three classes let one be the superclass, one the subclass and one the
module or the scope around; nesting is as deep as there are classes, and two
slots hold the outer selves of two bodies, or one and what an include left.
With four things declared at most, a case with three classes has one method,
copy or alias, and one with two has two of them: what an include does under an
inheritance, or a method under another, is reached, and so is each of the
exceptions the properties name (checked by leaving them out). Where class
statements are nested, nothing follows the inner one but by opening the outer
class again; a constant that holds no class is not reopened; superclasses are
named by simple constants.

Fairness. Go's scheduler runs every goroutine that can run, so the steps inside
a call are weakly fair. `Acquire` is strongly fair: `sync.Mutex` hands the lock
to a waiter that starved for a millisecond. That blocks end and holders unlock
(`EndBlock`, `Unlock`, `BlockEnds`) is assumed of the programs, and only of
those the liveness properties speak of (`calm`). `WaitReturns` leaves out what
follows a `late` add: a waiter that comes in between `Check` and `Release` is
counted in a word that is then overwritten, and nobody wakes it. For that a
third thread has to call `wg.go`, which panics, and one has to wait after it.
Nothing else is fair: nobody has to send, receive, or close. In `machine` the
one thread takes steps as long as it can. In `repl`, `Answer` is weakly fair:
the loop is sequential code that goes on by itself until it reads the next
line, and nobody has to type one. `Classes` states no fairness.

Each property has a mutant in `PROJECT.json`: a variant of one definition, kept
next to the original and marked "Mutant", with a bug under which TLC finds the
property violated.

## 4. Proofs

`ThreadProofs` (any errors, bounds, operations and mode; assumption:
`BreakWithDefers = FALSE`, that is, no block breaks after it registered a
`defer`; section 5 says what happens otherwise):

* `TypesKept`, `StacksAgree`, `CurrentFrameIsRunning`, `DefersRunReversed`.
* Inductive invariant `IInv`: the types; every frame points to older frames
  (`HeapSound`); every activation refers to a frame of the matching kind, its
  receiver and base slots are ordered with those of the activations above and
  below it, and its pending deferred frames are older than any frame above it
  (`ActsSound`); only the activation on top may have been broken out of
  (`BrokenReturns`); and the two statements `FramesMatch` and
  `CurrentFrameRuns`. `FramesMatch` alone is not inductive: that `stopFrame`
  pops the right frame follows from knowing that the frame of an activation
  under way is not removed, and that `try` restores `currentFrame` from knowing
  what `oldFrame` holds in every activation below. The actions are grouped by
  what they do to the two stacks (push one activation, pop one, touch only the
  top), one lemma per group, one per action on top of it.

`ThreadOperands` (on top of `ThreadProofs`; `BreakWithDefers` may be anything,
for nothing here depends on what `callFrameStack` holds):

* `PropagatingErrorOnTop`, `ReturnValueSurvivesDefers`, `CallersOperandsKept`,
  `TryTakesTheError`. They follow from `OInv`: the slots of what runs inside an
  activation lie above its base (`SlotsAbove`), and above its result while its
  deferred blocks run (`DeferInside`, `Result`); an activation that executes has
  no panic pending; and an error that propagates is on top of the data stack
  (`PanicOnTop`).

`LockProofs` (any set of threads, any nesting):

* `LockNeverStuck`: from `Pending`, that a taken mutex whose flag is clear has
  a call on its way to set the flag or to free the mutex.
* `OwnerUnlocks`, `OwnersKeepRunning`, `LockImplementsMutex`: from `Held`, which
  says who holds the mutex and what each step of `lock` and `unlock` knows of
  it, for the programs that unlock only what they hold.
* `LockTypeCorrect`: from `Nested`, that a call of `lock` with a block left
  room for it and is the only call of its thread in progress.

`ChannelProofs` (any threads, capacity and number of values, from
`ChannelAssumption`):

* `FieldComesFirst` and `ChannelImplementsFifo`. The inductive invariant is the
  shape of the variables, `Pointers` (every pointer in the Go channel or
  received leads to an allocated cell, and a value that was read is still what
  the cell holds), `CallsSound` (what each step inside a call knows of the
  thread's locals) and `FieldFirst`. The mapping follows pointers, so the proof
  is that allocating (`BoxStep`) and dereferencing (`DerefStep`) do not change
  what any pointer leads to, and that the other steps append to or remove from
  the mapped sequences what `Fifo` says.
* `DeliveredOnce`: from `ValuesApart`, that each value given to `<-` waits in one
  thread or is in one cell, and `PointersApart`, that each pointer is with its
  sender, in the Go channel or received, and in one of these places only.
  `NewPointer` is where it depends on the fresh variable of `channel.go`: with
  the address of the loop variable it would fail.
* `ChannelKeepsTypes`: the bounds on cells and pointers, by counting. Distinct
  cells hold distinct values that were sent, so there are no more of them than
  sends; a pointer is above all others when it is made.

`WaitGroupProofs` (any finite set of goroutines, from the assumption on the
constants in `WaitGroup`):

* `TypesKept`, `WaitAlwaysJoins`, `OnlyMisuseCrashes`. They follow from
  `Counted`: unless the program is `overdone` or `late`, the counter is the
  balance of `add` and `done` plus the goroutines of the group that have yet to
  call `Done` or that `wg.go` has yet to start; and whoever is between its first
  look at the word and its release of the waiters is alone there, and finds the
  word as it left it. That is why its second look does not panic.

`ReplProofs` (any sessions and whatever the lexer and the parser make of them):

* `ReplImplementsPrompt`: the lines collected and executed change only as
  `Prompt` allows, from `Collected`, which adds that there are lines to execute
  whenever something is read as a program (`InitCollects`, `StepCollects`).
* `ReplLinesInOrder`: no line runs twice or out of order. The invariant is that
  the lines run followed by the lines held rise and were typed
  (`StepKeepsOrder`, with `PrefixRises` and `AppendRises` on sequences).
* `ProgramsAreTrees`: the parser is Go's recursion with its stack made explicit,
  and this is what Go's types and stack give for free and a stack in a
  specification does not: every function finds the nodes it takes. The invariant
  is `Sound`: what is left to do is `Balanced` for the number of nodes there are.
  Each work has an `Effect` on that number and a `Need`; there are `Heights`, one
  for each work, never below the need; the work of the program is the last, and
  the names of a block's parameters are followed by the works that make the
  block (`Followed`). There is a lemma for each action, on the three kinds of
  works: those that make a node (`Makers`), join two (`Joiners`) or look at one
  (`Lookers`). It holds for any tokens, and in the midst of errors, since the
  functions go on after them.
* `AcceptedHasNoNil`: `Sound` says besides that the parser is `Pure`: every node
  on its stack is `Clean`, and no function is to come that leaves nil without an
  error (`Excluded`: semicolons, and `def`, whose parameters may be given up),
  unless the parser is `Dirty`: it has met an error, or its input holds `;` or
  `def`. An error stays until the input is judged, so a parser once dirty is
  dirty to the end (`Has`), and each way out of a function that puts nil in the
  place of a node has set one. The tokens come from the lexer, which lists one at
  least (`LexerKeepsTokens`): with none, there would be none to be excluded.
* `OnlySlipsLoseTheState`: whenever the kept parser has parsed, `fsm` is
  "normal" and `acceptBlock` set (`StateAtRest`), for any lines and also after
  programs that are refused or incomplete, which `FsmRestored` leaves out. The
  hypothesis is on the steps that the session takes: no `Slip`, of which there
  are four. They are a dot without a name after it, a list of parameters that a
  constant or an instance variable ends, an assignment to a call, and a nil
  pointer followed in the midst of a program. The invariant is that the parser
  `Owes` its state: when `fsm` is not "normal", a work is left that sets it back
  (`Back`); a work that restores another state is followed by one that restores
  "normal" (`Led`); and `acceptBlock` is off only while a work that sets it is
  left (`Openers`). There is a lemma for each parse function (`...Stays`). Since
  the first work decides what a step does, the proof needs `Sound` as well.
* `LocalsSurviveCommands`: from `Scope`. Each name has one slot, the base frame is
  no longer than the table, and each local that was assigned has a slot in the
  frame with its last value, which is not zero. New names get new slots
  (`SlotsForNames`), the frame grows by what the command inserted
  (`InsertWrites`), and `ExecRaise` copies back what was assigned before the
  error. It rests on `ProgramsAreTrees`, since the statements of a command are
  read off its tree.
* `ReplKeepsTypes`: types and bounds, under `BracesCounted`: the prover does not
  know that a string has a length, so that the braces of a text are finitely
  many is a hypothesis there; the other theorems do without it.

`ClassesProofs` (any names, finitely many, since a program names finitely many
constants; any bounds):

* A walk along pointers is a recursive function, `Along`; `WalkUnwinds` derives
  its equation from the existence of its rows, and what follows by induction on
  the length of walks is stated for sets (`Induction`, `Downward`).
* `ClassesKeepTypes`: from `IInv`: the tables have a row for each struct
  (`Rows`), an outer self is on the stack for each body that will pop it (`Left`),
  pointers lead where they should, with each metaclass after its class
  (`Pointers`), values are classes of the program (`Contents`), and a copy that
  leads to a copy leads to an older one (`Chains`), for which reason the copies
  in front of a superclass are a line that ends (`LinesEnd`).
* `SuperclassIsAsNamed`: the second lookup of a superclass differs from the first
  where the new class or a constant of the superclass hides it, and only there.
* `ClassesImplementHierarchy`: each statement is a step of `Hierarchy` or none
  that shows. A splice changes the line of one class (`ClassSpliced`), whose
  structs are walked by the mapping; for all others the walk is shown to be the
  one it was (`LinesKept`).

`ClassesLookups` (on top of `ClassesProofs`; the same assumptions):

* `LookupsAlwaysEnd`: from `LInv`. The structs can be ranked so that the pointer
  to the superclass leads down, but for classes that are their own parents
  (`Ladder`; a splice shifts the ranks above it); the metaclass of a class inherits
  from the metaclass of its parent, or from the metaclasses the program starts
  with (`Lineage`); a class is the value of a constant, and of two if its scope
  is not older than itself (`Bound`). Where no circle is in the way (`Straight`),
  the structs above a class, and those above its metaclass, are sets that
  superclasses do not lead out of (`Closed`, `MetaCloses`), and the walks go down
  to Object.
* `AnswersComeFromAncestors`: what a struct stands for is a list of classes
  (`Line`): the modules whose copies come next, then the ancestors of the class
  below them. A lookup along the structs finds what the first of this list
  defines (`LooksUp`), and the list of a class is its ancestors (`LineIs`).
  `Kinds` adds that what is no module is a class of Class, and that copies have
  the names of their modules.
* `RelationsAlwaysAgree`: the same for `is_a?` and the comparison of classes
  (`WalkFinds`), with the hypothesis that no class of the program is called
  Object. It is needed: `class Object` in the body of another class declares a
  new class, for `DefClass` looks for the name in the enclosing classes only, and
  the walks of `isA`, `ancestors` and `alreadyInherit` end at the first class of
  that name.

Only model-checked: all liveness, which is out of the prover's reach; everything
about `Generator` and `Machine`, which are recursive over syntax trees; and of
`Repl` the property `ParsedAsWritten`: what a program of the grammar is, `Grammar`
says by recursion, and its text character by character. `FsmRestored` has no
hypothesis on steps, as `OnlySlipsLoseTheState` has: without it, that programs of
the grammar give the state back is what the run `repl` shows of its sessions.
Of any program it is not true: after an assignment to a call in parentheses the
parser stays in the state of an assignment, and the tokens before `=` do not
tell.

## 5. Where code and comments disagree

Four disagreements are runs that TLC shows violated (above). Others, visible in
the model but without a run:

* `break` pops the frame on top, and `stopFrame` pops one when the frame's Go call
  ends. Deferred blocks run in between: if one raises, its `stopFrame` has popped
  a frame of the callers (`BreakWithDefers`, under which `FramesMatch` does not
  hold). When none is left, an error made by an instruction follows a nil frame
  (`InitErrorObject`, `vm/error.go:130`). The model does not make such errors: its
  errors are those of builtins, which have a frame of their own on top.
* `vm/class.go:676` says errors of the Go runtime are not caught by `try`. Its
  recover re-panics only Go `error` values; a Go panic with a string value is
  dropped and `try` returns (`Catches`, `TryRecovers`). `sync.WaitGroup` panics
  with strings.
* `vm/thread.go:112` takes an `Error` on top of the data stack for the panic's
  value. A Go panic in a builtin whose last argument is an `Error` therefore
  raises that object, and the panic is lost (`BuiltinPanics`, `Reported`).
* `receive` and `each` refuse a closed channel that still holds values.

`Language` agrees with the code where one may argue: `break` and `continue` of a
`while` that stands in a block leave the block (`compileBreakStatement`), and
`break` in a block called by `yield` does not end the method. The programs of
the run `machine` keep away from these:

* a variable that is named before it is assigned for the first time, and then
  by a block (`insertLocal`; the run `machine_stray_write`);
* `yield` in a block within a block of a method: `InvokeBlock` compares the
  environments of the block and its literal, takes the outer block for the
  method's, and calls it again;
* keyword arguments are counted with the positional ones: `m(k: 2)` is accepted
  for `def m(a, k: 1)` and binds `a` to 2, and a positional argument too many
  is dropped as long as there are as many parameters of any kind;
* a block called with more arguments than it has parameters: they become the
  first values of its other locals;
* a branch of an `if`, a method or a block that ends in a statement (`while`,
  `break`): the other branch leaves a value and this one none, and the caller
  takes what it finds on the stack. Likewise `SetConstant` pops its value, and
  so does the statement it stands in (in a file: the REPL emits no `Pop` there).

What writing `Grammar` against `Lexer` and `Parser` brought up; the programs of
`repl` keep away from it, or the property says so:

* after a float such as `1.5` the lexer stays in its state for names
  (`lexer.go`), so that a keyword that comes next is read as one;
* there is no transition from an assignment to a call in the parser's table, so
  the state of the assignment stays while arguments are parsed: `x = foo(a: 1)`
  is refused;
* `expression_parsing.go:72` says "Restore the original state", but an
  assignment to an index or an attribute keeps it (`AssignsToCall` in
  `FsmRestored`); so do a dot without a name and a parameter that is refused
  (`Slip` in `ReplProofs`, which shows that nothing else does but a nil pointer);
* `a, b += 1` is read as `a, b = 1`, `a[1, 2] += 3` forgets the 2, and `-a.b` is
  `(-a).b`; `Grammar` writes these only as they are read;
* a lone `;` makes a nil expression, and `def f(a = C` at the end of the input a
  nil statement without an error: the generator follows the pointer (`Crash`,
  excepted in `NilFree`);
* the REPL counts braces in strings, and takes an apostrophe in a comment for an
  open quote: such a line is held although it is complete, and after an
  unexpected token, which leaves its state machine waiting, so is one whose
  string holds a brace;
* a variable that a command assigns for the first time before it raises is lost,
  though the generator goes on knowing its name (`ExecRaise`).

`Classes` allows what the code does in these cases, and its properties name
them:

* `class B < S` looks `S` up a second time, with the class `S` on the stack: if
  it holds a constant `S` of its own, that is what B inherits from; and
  `class Foo < Foo` in a class makes the new class its own superclass, so that
  `is_a?`, `ancestors` and `include` on it never end (`SuperclassAsNamed`,
  `Straight`);
* `class Object` within a class makes a second class of that name, at which
  `is_a?`, `ancestors` and the comparison of classes end (`NamedObject`; no name
  of the run is "Object");
* constants are looked up in the class on top of the data stack first, `::` or not
  (`Top`): in the body of `class N < S` that is the outer class, and after an
  `include` the class that includes;
* a class that is assigned to a constant inside itself encloses itself: the
  lookup of a constant that is nowhere overflows the stack (`LookupsEnd`);
* `super` in a method that was inherited or mixed in finds the same method
  (`AnswersFromAncestors`);
* the test whether a module is included already compares the module with its
  copies, and never finds it: a second `include` makes a second copy, and
  `A < M` is nil (`RelationsAgree`);
* `include` in Object makes the chain of superclasses a circle: a method that is
  not defined is looked up for ever (`Straight`);
* a superclass that is refused, for it is a module, leaves the class declared,
  with Object for its superclass; and a class that is opened again is opened
  whatever its kind and whatever superclass it is given (`Reopen`);
* constants of superclasses are not found: the branch for them in
  `lookupConstantUnderAllScope` looks in the class itself once more.

Two things about the data stack that no property covers: each `yield` of a builtin
leaves a value on it until the builtin returns, so that an `each` over a channel
that is never closed grows it without bound (`vm/thread.go:80`), and
`RObject.ToString` (`vm/instance.go:9`) calls Lito code with a slot one above the
receiver's. `InitErrorObject` pops a frame whose `pc` is 0, and unwinding pops it
again (`vm/error.go:121`); the calls known to reach it are outside the modelled
opcodes.

## 6. Not modelled, and why

* Data: instance variables, numbers, strings, collections. They do not influence
  the control that the modules above are about. `Machine` has one thread:
  goroutines that share locals with their creator are not modelled.
* Of classes: calls and constants written with `::`, `get`, `set` and `property`
  (methods that read and write instance variables), `method_missing` with
  `inherits_lookup!`, and the builtin classes other than Object, Class and
  Module. A method is a number; that it is called as found is `Machine`'s
  business.
* Of the lexer: escapes with a character code. `Parser` has the mode in which
  files are parsed (`Mode`), but only the REPL's is run; they differ in what is
  an error at the end of the input.
* The REPL's editor, prompt and echo, and programs executed by it beyond the
  variables they assign.
* Files, sockets of the operating system, JSON, regular expressions: calls into
  Go's library.
* Data races on the words of Go memory (`ChannelState`, `locked`): each access
  is one atomic step, which holds for single words on the platforms Go supports.

## 7. Plan

In this order, each module written so that it can be proved about:

1. `Thread`, `Lock`, `Channel`, `WaitGroup`: done (sections 2 to 4).
2. `Language`, `Generator`, `Machine`: done for the core of the language; to add:
   classes and constants, block objects, multiple assignment, splatted
   arguments, and a second thread that shares frames with the first.
3. `FSM`, `Lexer`, `Parser`, `Grammar`, `Repl`, `Prompt`: done, in the REPL's mode.
4. `Hierarchy`, `Classes`: done for statements and lookups; to add: accessors,
   `method_missing`, and the composition with `Machine`, so that methods found
   are called.
5. `Range`, `Array`, `String` operations whose index arithmetic is intricate,
   against reference definitions over bounded inputs.

One run per module, so that the project asks each question once.
