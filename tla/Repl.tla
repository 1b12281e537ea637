-------------------------------- MODULE Repl --------------------------------
(***************************************************************************)
(* The REPL (repl/repl.go) with the part of the VM that runs its commands   *)
(* (vm/repl.go).  It collects lines until they parse as a program, and then *)
(* executes them.  Whether to wait for more lines is decided from four      *)
(* things that are kept apart: the error of the parser, the count of the    *)
(* braces, the quotes, and the state machine sm.                            *)
(*                                                                         *)
(* A command is executed as the list of the variables its statements        *)
(* assign: what a command does to the locals that later commands read is    *)
(* what the REPL adds to the VM.                                            *)
(***************************************************************************)
EXTENDS Parser, Lexer, FiniteSets, SequencesExt

CONSTANT Sessions  \* what may be typed: see SessionType

\* lines is what is typed, trees the programs that the lines are the text of,
\* and due[i] the number of them whose text is complete with line i.
SessionAssumption ==
  \A s \in Sessions : s.lines \in Seq(STRING) /\ DOMAIN s.due = DOMAIN s.lines

ASSUME ReplAssumption == SessionAssumption /\ Mode = "REPLMode"

VARIABLES session,   \* the session that is typed
          typed,     \* the number of lines read
          phase,     \* what the loop is doing
          sm,        \* the state machine
          cmds,      \* the lines collected, by their numbers
          indent,
          ran,       \* the lines executed, in order
          executed,  \* the programs executed, in order
          table,     \* the generator's local table: names in order of their slots
          locals,    \* the locals of the base frame; 0 is an empty slot
          kept       \* for each name, the last value a command that stands gave it

replVars == <<typed, phase, sm, cmds, indent, ran, executed, table, locals, kept>>
vars == <<session, p, l, replVars>>

-----------------------------------------------------------------------------
(* Text.                                                                   *)

Positions(s, c) == {i \in 1..Len(s) : CharAt(s, i) = c}

\* strings.TrimSpace.
TrimSpace(s) ==
  LET end == CHOOSE i \in 0..Len(s) : /\ i = 0 \/ CharAt(s, i) \notin Whitespace
                                      /\ \A j \in i+1..Len(s) : CharAt(s, j) \in Whitespace
  IN SubSeq(s, After(s, 1, Whitespace), end)

LineText(n) == TrimSpace(session.lines[n])
Join(ns) ==
  IF ns = <<>> THEN ""
  ELSE FoldLeft(LAMBDA s, n : s \o "\n" \o LineText(n), LineText(Head(ns)), Tail(ns))

Braces(s) == Cardinality(Positions(s, "{")) - Cardinality(Positions(s, "}"))

\* Quotes that no backslash takes away.
Quotes(s, c) ==
  {i \in Positions(s, c) :
     LET escape == {j \in 1..i : \A k \in j..i-1 : CharAt(s, k) = "\\"}
     IN Cardinality(escape) % 2 = 1}

\* open comes before any of ignore, and an odd number of times.
checkOpenQuotes(s, open, ignore) ==
  /\ Cardinality(Quotes(s, open)) % 2 = 1
  /\ \E i \in Quotes(s, open) : \A j \in Quotes(s, ignore) : i < j

OpenQuotes(s) == checkOpenQuotes(s, "\"", "'") \/ checkOpenQuotes(s, "'", "\"")

-----------------------------------------------------------------------------
(* The loop.                                                               *)

PromptTransitions ==
  {<<"waitEnded", "waiting">>, <<"readyToExec", "waiting">>,
   <<"waiting", "waitEnded">>,
   <<"waitEnded", "readyToExec">>, <<"readyToExec", "readyToExec">>,
   <<"waiting", "readyToExec">>}
To(s) == Goto(PromptTransitions, sm, s)

\* What stays as it is while lines are read and judged.
vmVars == <<ran, executed, table, locals, kept>>

Init ==
  /\ session \in Sessions
  /\ p = NewParser
  /\ l = NewLexer("")
  /\ typed = 0
  /\ phase = "read"
  /\ sm = "readyToExec"
  /\ cmds = <<>>
  /\ indent = 0
  /\ ran = <<>>
  /\ executed = <<>>
  /\ table = <<>>
  /\ locals = <<>>
  /\ kept = <<>>

\* eraseBuffer.  From waitEnded, readyToExec is reached through waiting.
eraseBuffer ==
  /\ indent' = 0
  /\ sm' = Goto(PromptTransitions, To("waiting"), "readyToExec")
  /\ cmds' = <<>>
  /\ phase' = "read"

ParseLines(ns) ==
  /\ phase' = "lexing"
  /\ l' = NewLexer(Join(ns))
  /\ p' = [p EXCEPT !.outcome = "none"]

Reading1 == phase = "read" /\ typed < Len(session.lines)
line == LineText(typed + 1)

\* Ctrl-C is what a line ends in.
Interrupted == Len(line) > 1 /\ SubSeq(line, Len(line) - 1, Len(line)) = "^C"
Special == {"", ".help", ".reset", "^D"}
IsComment == CharAt(line, 1) = "#"

ReadNothing ==
  /\ Reading1
  /\ ~Interrupted
  /\ line \in {"", ".help"} \/ IsComment
  /\ typed' = typed + 1
  /\ UNCHANGED <<session, p, l, phase, sm, cmds, indent, vmVars>>

\* A new REPL, parser, generator and VM.
ReadReset ==
  /\ Reading1
  /\ line = ".reset"
  /\ typed' = typed + 1
  /\ p' = NewParser
  /\ sm' = "readyToExec"
  /\ cmds' = <<>>
  /\ indent' = 0
  /\ table' = <<>>
  /\ locals' = <<>>
  /\ kept' = <<>>
  /\ UNCHANGED <<session, l, phase, ran, executed>>

\* Ctrl-C, which ends the REPL when the line is empty and no line is kept.
ReadInterrupt ==
  /\ Reading1
  /\ Interrupted
  /\ typed' = typed + 1
  /\ \/ line = "^C" /\ cmds = <<>> /\ phase' = "closed" /\ UNCHANGED <<sm, cmds, indent>>
     \/ (line # "^C" \/ cmds # <<>>) /\ eraseBuffer
  /\ UNCHANGED <<session, p, l, vmVars>>

ReadEOF ==
  /\ Reading1
  /\ line = "^D"
  /\ typed' = typed + 1
  /\ phase' = "closed"
  /\ UNCHANGED <<session, p, l, sm, cmds, indent, vmVars>>

ReadLine ==
  /\ Reading1
  /\ line \notin Special /\ ~IsComment /\ ~Interrupted
  /\ typed' = typed + 1
  /\ LET lines == Append(cmds, typed + 1)
         input == Join(lines)
     IN /\ cmds' = lines
        /\ indent' = Braces(input)
        /\ IF OpenQuotes(input) THEN UNCHANGED <<p, l, phase>> ELSE ParseLines(lines)
  /\ UNCHANGED <<session, sm, vmVars>>

Lex ==
  /\ phase = "lexing"
  /\ \/ NextToken /\ UNCHANGED <<p, phase>>
     \/ /\ l.outcome = "read"
        /\ p' = Begin(p, l.toks)
        /\ phase' = "parsing"
        /\ l' = NewLexer("")
  /\ UNCHANGED <<session, typed, sm, cmds, indent, vmVars>>

Parse ==
  /\ phase = "parsing"
  /\ ParseStep
  /\ UNCHANGED <<session, l, replVars>>

-----------------------------------------------------------------------------
(* What becomes of the lines once they are parsed.  sm tells a first parse  *)
(* from the second one, which is made when sm is waitEnded.                *)

Parsed == phase = "parsing" /\ p.outcome \in {"parsed", "failed"}
First == Parsed /\ sm # "waitEnded"
judged == <<session, typed, p, vmVars>>

\* A switch without its first case, or an input that ends too early.
WaitForMore ==
  /\ First
  /\ p.err \in {"UnexpectedSwitch", "UnexpectedEOF"}
  /\ sm' = To("waiting")
  /\ phase' = "read"
  /\ UNCHANGED <<judged, l, cmds, indent>>

\* Mutant: only the last line is dropped.
RejectLast ==
  /\ First
  /\ p.err = "UnexpectedToken"
  /\ indent' = 0
  /\ cmds' = SubSeq(cmds, 1, Len(cmds) - 1)
  /\ sm' = To("waiting")
  /\ phase' = "read"
  /\ UNCHANGED <<judged, l>>

\* The lines are dropped, but sm is left waiting.
RejectToken ==
  /\ First
  /\ p.err = "UnexpectedToken"
  /\ indent' = 0
  /\ cmds' = <<>>
  /\ sm' = To("waiting")
  /\ phase' = "read"
  /\ UNCHANGED <<judged, l>>

Failures == {"MethodDefinition", "InvalidAssignment", "Syntax", "Argument"}

\* More lines are waited for while a brace is open, whether the lines parse or
\* not.
StillOpen ==
  /\ First
  /\ p.err \in Failures \cup {"none"}
  /\ sm = "waiting" /\ indent > 0
  /\ phase' = "read"
  /\ UNCHANGED <<judged, l, sm, cmds, indent>>

\* The last brace is closed: the lines are parsed once more.
ParseAgain ==
  /\ First
  /\ sm = "waiting"
  /\ \/ p.err = "UnexpectedEnd" /\ indent' = 0
     \/ p.err \in Failures \cup {"none"} /\ indent <= 0 /\ UNCHANGED indent
  /\ sm' = To("waitEnded")
  /\ ParseLines(cmds)
  /\ UNCHANGED <<session, typed, cmds, vmVars>>

Accept ==
  /\ First
  /\ sm = "readyToExec" /\ p.err = "none"
  /\ phase' = "exec"
  /\ UNCHANGED <<judged, l, sm, cmds, indent>>

\* handleParserError: the buffer is erased.
Reject ==
  /\ \/ First /\ sm = "readyToExec" /\ p.err \in Failures \cup {"UnexpectedEnd"}
     \/ Parsed /\ sm = "waitEnded" /\ p.err # "none"
  /\ eraseBuffer
  /\ UNCHANGED <<judged, l>>

AcceptAgain ==
  /\ Parsed
  /\ sm = "waitEnded" /\ p.err = "none"
  /\ sm' = To("readyToExec")
  /\ phase' = "exec"
  /\ UNCHANGED <<judged, l, cmds, indent>>

-----------------------------------------------------------------------------
(* Execution.                                                              *)

program == p.val[1]

\* The variables a statement of the program assigns.
Assigned(stmt) ==
  IF stmt.k = "assign"
  THEN {stmt.kids[i].x : i \in {j \in 1..Len(stmt.kids)-1 : stmt.kids[j].k = "IDENT"}}
  ELSE {}
AssignedBy(n) == UNION {Assigned(program.kids[i]) : i \in 1..n}

\* Mutant: the names are those of a new table.
FreshSlots(names) == table \o SetToSeq(names)

\* The generator gives a slot to each name that has none.
Slots(names) == table \o SetToSeq({x \in names : \A i \in 1..Len(table) : table[i] # x})

SlotOf(slots, x) == CHOOSE i \in 1..Len(slots) : slots[i] = x

\* setLocal for each of names, the frame growing to the last of their slots.
Insert(frame, slots, names, value) ==
  LET written == {SlotOf(slots, x) : x \in names}
      size == CHOOSE n \in {Len(frame)} \cup written :
                \A m \in {Len(frame)} \cup written : m <= n
  IN [i \in 1..size |-> IF i \in written THEN value
                        ELSE IF i <= Len(frame) THEN frame[i] ELSE 0]

\* Mutant: the locals are not copied back to the base frame.
ForgetLocals(frame, slots, names, value) ==
  SubSeq(Insert(frame, slots, names, value), 1, Len(frame))

CopyBack(frame, slots, names, value) == Insert(frame, slots, names, value)

Value == Len(executed) + 1  \* the values of one command are told from others
Standing(x) == \E i \in 1..Len(locals) : table[i] = x /\ locals[i] # 0
Keep(names) ==
  [x \in DOMAIN kept \cup names |-> IF x \in names THEN Value ELSE kept[x]]

\* Mutant: the lines stay in the buffer.
ExecutedAgain ==
  /\ ran' = ran \o cmds
  /\ executed' = Append(executed, program)
  /\ phase' = "read"
  /\ UNCHANGED <<session, typed, p, l, sm, cmds, indent>>

Executed ==
  /\ ran' = ran \o cmds
  /\ executed' = Append(executed, program)
  /\ cmds' = <<>>
  /\ phase' = "read"
  /\ UNCHANGED <<session, typed, p, l, sm, indent>>

Exec ==
  /\ phase = "exec"
  /\ program.nils < 2
  /\ LET names == AssignedBy(Len(program.kids))
     IN /\ table' = Slots(names)
        /\ locals' = CopyBack(locals, table', names, Value)
        /\ kept' = Keep(names)
  /\ Executed

\* The statement after the first n raises an error.  The frame of the command
\* shares with the base frame the variables that were there before it; those
\* that it adds go with it, though the generator knows their names.  What it
\* puts in an empty slot is there if the array of slots has not been copied.
ExecRaise ==
  /\ phase = "exec"
  /\ program.nils < 2
  /\ \E n \in 0..Len(program.kids)-1 :
       LET standing == {x \in AssignedBy(n) : Standing(x)}
       IN \E shared \in SUBSET (AssignedBy(n) \ standing) :
            /\ table' = Slots(AssignedBy(Len(program.kids)))
            /\ locals' = SubSeq(Insert(locals, table', standing \cup shared, Value),
                                1, Len(locals))
            /\ kept' = Keep(standing)
  /\ Executed

\* The generator follows a nil pointer, or the VM misses a value; nothing
\* recovers from that.
Crash ==
  /\ phase = "exec"
  /\ program.nils > 0
  /\ phase' = "crashed"
  /\ UNCHANGED <<session, typed, p, l, sm, cmds, indent, vmVars>>

Read == ReadNothing \/ ReadReset \/ ReadInterrupt \/ ReadEOF \/ ReadLine
Answer == Lex \/ Parse \/ WaitForMore \/ RejectToken \/ StillOpen \/ ParseAgain
          \/ Accept \/ Reject \/ AcceptAgain \/ Exec \/ ExecRaise \/ Crash

Next == Read \/ Answer
Spec == Init /\ [][Next]_vars /\ WF_vars(Answer)

-----------------------------------------------------------------------------
(* Properties.                                                             *)

\* A program that is accepted is a tree: it has finitely many statements, and
\* each of them finitely many children.
ProgramIsTree ==
  phase = "exec" =>
    /\ Len(program.kids) \in Nat
    /\ \A i \in 1..Len(program.kids) : Len(program.kids[i].kids) \in Nat

\* Each name has one slot, the base frame has no more locals than there are
\* slots, what is executed is a tree, and the lines collected are lines that
\* were typed.
TypeOK ==
  /\ typed \in 0..Len(session.lines)
  /\ phase \in {"read", "lexing", "parsing", "exec", "closed", "crashed"}
  /\ sm \in {"readyToExec", "waiting", "waitEnded"}
  /\ indent \in Int
  /\ \A i \in 1..Len(cmds) : cmds[i] \in 1..typed
  /\ \A i \in 1..Len(ran) : ran[i] \in 1..typed
  /\ Cardinality({table[i] : i \in 1..Len(table)}) = Len(table)
  /\ Len(locals) <= Len(table)
  /\ ProgramIsTree

\* The lines that have been answered are executed if they complete a program
\* and held if they do not; and what is executed is the tree of the program
\* that was written, however it was split into lines.  This is about the loop
\* and its four tests, and about every function of the lexer and the parser.
ParsedAsWritten ==
  session.written /\ phase = "read" =>
    executed = SubSeq(session.trees, 1, IF typed = 0 THEN 0 ELSE session.due[typed])

\* The lexer's and the parser's states do not outlive what they were entered
\* for: once a program that was written is parsed, the parser that the REPL
\* keeps reads the next one as a new parser would.  An assignment to a call
\* keeps its state (parseAssignCall), and is excepted.
AssignsToCall ==
  \E i \in 3..Len(p.input) : /\ p.input[i].t \in Assignments
                             /\ p.input[i-1].t = "]" \/ p.input[i-2].t = "."
FsmRestored ==
  session.written /\ phase = "exec" /\ ~AssignsToCall => p.fsm = "normal" /\ p.acceptBlock

\* A program that is accepted holds no nil, which the generator would follow:
\* each function that returns nil sets the error, and no later one clears it.
\* Semicolons on their own and the lists of parameters that parseDefClose
\* gives up without an error are excepted.
NilFree ==
  phase = "exec" /\ (\A i \in 1..Len(p.input) : p.input[i].t \notin {";", "DEF"})
    => program.nils = 0

\* What a command assigned is what later commands read, whatever was executed
\* or failed since, though the frame of each command is another one.
LocalsKept ==
  phase = "read" =>
    \A x \in DOMAIN kept :
      /\ SlotOf(table, x) \in DOMAIN locals
      /\ locals[SlotOf(table, x)] = kept[x]

\* Every line is answered: the parser and the lexer come to an end, and so does
\* the second parse.
Answering == phase \in {"lexing", "parsing", "exec"}
Answered == []<>(~Answering)

\* No line is executed twice, or after it was dropped.
Shell == INSTANCE Prompt WITH held <- cmds
ImplementsPrompt == Shell!Spec
LinesInOrder == Shell!InOrder

=============================================================================
