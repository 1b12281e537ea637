------------------------------ MODULE Generator ------------------------------
(***************************************************************************)
(* The bytecode generator (compiler/bytecode): from syntax trees to        *)
(* instruction sets.                                                       *)
(*                                                                         *)
(* An instruction is a record; a place in the code is the number of an     *)
(* instruction, where the source counts words.  A generator g holds what   *)
(* the source keeps in Generator, scope and the InstructionSet being       *)
(* filled.  What a function of the source does for a node is a sequence of *)
(* steps, in the order of its statements: to append an instruction, to     *)
(* define an anchor, to compile a part of the node.  Generate takes one    *)
(* step after the other.                                                   *)
(***************************************************************************)
EXTENDS Language

\* The anchor of no loop: "scope.anchors[...] != nil" fails.
NoAnchor == 0

\* What newScope and a new InstructionSet start with: the code and its type,
\* local tables innermost first (a table is the sequence of its names), and
\* the anchors of the loop around.
newScope(type) ==
  [code |-> <<>>, type |-> type, tables |-> <<<<>>>>, brk |-> NoAnchor,
   cont |-> NoAnchor]

\* The current scope, those around it, places of all anchors, finished sets.
NewGenerator(type) ==
  [scope |-> newScope(type), outer |-> <<>>, lines |-> <<>>, sets |-> <<>>]

LastAnchor(g) == Len(g.lines)

-----------------------------------------------------------------------------
(* Local tables.                                                           *)

\* getLocal: how many tables further out x is; -1 if none has it.
Depth(g, x) ==
  LET has == {d \in 1..Len(g.scope.tables) : Contains(g.scope.tables[d], x)}
  IN IF has = {} THEN -1 ELSE Min(has) - 1

Index(g, x) ==
  SelectInSeq(g.scope.tables[Depth(g, x) + 1], LAMBDA y : y = x) - 1

\* A name that no table has becomes a local of the innermost.
setLocal(g, x) ==
  IF Depth(g, x) >= 0 THEN g ELSE [g EXCEPT !.scope.tables[1] = Append(@, x)]

-----------------------------------------------------------------------------
(* Steps.                                                                  *)

define(op, a, b) == [do |-> "define", op |-> op, a |-> a, b |-> b]
newAnchor == [do |-> "newAnchor"]
defineAnchor(anchor) == [do |-> "defineAnchor", anchor |-> anchor]
SetAnchors(brk, cont) == [do |-> "setAnchors", brk |-> brk, cont |-> cont]
Expression(e) == [do |-> "expression", e |-> e]
Statement(e, keep) == [do |-> "statement", e |-> e, keep |-> keep]
Declare(x) == [do |-> "declare", x |-> x]
Assigned(x, op) == [do |-> "assigned", x |-> x, op |-> op]
Send(op, e) == [do |-> "send", op |-> op, e |-> e]
OpenBlock(names) == [do |-> "openBlock", names |-> names]
OpenMethod == [do |-> "openMethod"]
Close == [do |-> "close"]

Expressions(es) == [i \in 1..Len(es) |-> Expression(es[i])]

\* compileCodeBlock; KeepLastValue is said of some bodies by the parser.
CodeBlock(es, keep) ==
  [i \in 1..Len(es) |-> Statement(es[i], keep /\ i = Len(es))]

\* A body that must leave a value.
Body(es) == IF es = <<>> THEN <<define("Put", Nil, 0)>> ELSE CodeBlock(es, TRUE)

-----------------------------------------------------------------------------
(* Statements.                                                             *)

compileExpressionStatement(e, keep) ==
  <<Expression(e)>> \o IF keep THEN <<>> ELSE <<define("Pop", 0, 0)>>

compileWhileStmt(e, g) ==
  LET next == LastAnchor(g) + 1    \* anchor1 of the source
      start == LastAnchor(g) + 2   \* anchor2
      brk == LastAnchor(g) + 3     \* breakAnchor
  IN <<newAnchor, newAnchor, newAnchor,
       define("Jump", next, 0), defineAnchor(start), SetAnchors(brk, next)>>
     \o CodeBlock(e.body, FALSE)
     \o <<SetAnchors(g.scope.brk, g.scope.cont), defineAnchor(next),
          Expression(e.kids[1]), define("BranchIf", start, 0), defineAnchor(brk)>>

\* A block leaves itself first; the jump that follows is never reached.
compileContinueStatement(g) ==
  (IF g.scope.cont = NoAnchor \/ g.scope.type = "block"
   THEN <<define("Leave", 0, 0)>> ELSE <<>>)
  \o IF g.scope.cont = NoAnchor THEN <<>> ELSE <<define("Jump", g.scope.cont, 0)>>

compileBreakStatement(g) ==
  (IF g.scope.brk = NoAnchor \/ g.scope.type = "block"
   THEN <<define("Break", 0, 0)>> ELSE <<>>)
  \o IF g.scope.brk = NoAnchor THEN <<>> ELSE <<define("Jump", g.scope.brk, 0)>>

compileStatement(e, keep, g) ==
  CASE e.n = "while" -> compileWhileStmt(e, g)
    [] e.n = "break" -> compileBreakStatement(g)
    [] e.n = "continue" -> compileContinueStatement(g)
    [] e.n = "return" -> <<Expression(e.kids[1]), define("Leave", 0, 0)>>
    [] OTHER -> compileExpressionStatement(e, keep)

\* A parameter becomes a local; a default value is set where the call gave
\* none, that of a splat parameter being the empty array.
compileParameter(p) ==
  CASE p.kind = "splat" ->
         <<Declare(p.x), define("Put", ArrayOf(<<>>), 0), Assigned(p.x, "SetOptional")>>
    [] p.kind # "splat" /\ p.default = <<>> -> <<Declare(p.x)>>
    [] OTHER -> <<define("Put", p.default[1], 0), Assigned(p.x, "SetOptional")>>

\* A method is compiled in a scope of its own.
compileDefStmt(p) ==
  <<OpenMethod>> \o FlattenSeq([i \in 1..Len(p.params) |-> compileParameter(p.params[i])])
  \o Body(p.method) \o <<define("Leave", 0, 0), Close>>

-----------------------------------------------------------------------------
(* Expressions.                                                            *)

compileIdentifier(e, g) == <<define("GetLocal", Depth(g, e.x), Index(g, e.x))>>

compileAssignExpression(e) == <<Expression(e.kids[1]), Assigned(e.x, "SetLocal")>>

\* The block of a call is compiled between its arguments and the call.
compileBlockArgExpression(e) ==
  IF e.body = <<>> THEN <<>>
  ELSE <<OpenBlock(e.params)>> \o CodeBlock(e.body, TRUE)
       \o <<define("Leave", 0, 0), Close>>

compileCallExpression(e, op, receiver) ==
  receiver \o Expressions(e.kids) \o compileBlockArgExpression(e) \o <<Send(op, e)>>

\* The kinds and names of the arguments of a call.
ArgSet(es) ==
  [i \in 1..Len(es) |->
     [x |-> es[i].x, kind |-> IF es[i].n = "key" THEN "optional key" ELSE "normal"]]

compileIfExpression(e, g) ==
  LET no == LastAnchor(g) + 1      \* anchorConditional of the source
      last == LastAnchor(g) + 2    \* anchorLast
  IN <<newAnchor, newAnchor, Expression(e.kids[1]), define("BranchUnless", no, 0)>>
     \o Body(e.body) \o <<define("Jump", last, 0), defineAnchor(no)>>
     \o Body(e.alt) \o <<defineAnchor(last)>>

\* && and || keep the left operand when it decides.
compileShortCircuit(e, branch, g) ==
  LET end == LastAnchor(g) + 1
  IN <<newAnchor, Expression(e.kids[1]), define("Dup", 0, 0), define(branch, end, 0),
       define("Pop", 0, 0), Expression(e.kids[2]), defineAnchor(end)>>

compileExpression(e, g) ==
  LET self == <<define("Put", Self, 0)>>
  IN CASE e.n = "lit" -> <<define("Put", e.v, 0)>>
       [] e.n = "id" -> compileIdentifier(e, g)
       [] e.n = "key" -> Expressions(e.kids)
       [] e.n = "assign" -> compileAssignExpression(e)
       [] e.n \in {"add", "less"} -> Expressions(e.kids) \o <<define(e.n, 0, 0)>>
       [] e.n = "and" -> compileShortCircuit(e, "BranchUnless", g)
       [] e.n = "or" -> compileShortCircuit(e, "BranchIf", g)
       [] e.n = "if" -> compileIfExpression(e, g)
       [] e.n = "times" -> compileCallExpression(e, "SendTimes", <<>>)
       [] e.n = "puts" -> compileCallExpression(e, "SendPuts", self)
       [] e.n = "call" -> compileCallExpression(e, "SendMethod", self)
       [] e.n = "yield" -> compileCallExpression(e, "InvokeBlock", self)

-----------------------------------------------------------------------------
(* Taking the steps.                                                       *)

Instruction(op, a, b, argSet) == [op |-> op, a |-> a, b |-> b, argSet |-> argSet]
Emitted(g, i) == [g EXCEPT !.scope.code = Append(@, i)]

\* A block has a table below the others and keeps the anchors of the loop
\* around the call; a method has neither.
Opened(g, scope) == [g EXCEPT !.scope = scope, !.outer = Append(@, g.scope)]

Closed(g) ==
  [g EXCEPT !.scope = Last(g.outer), !.outer = Front(@),
            !.sets = Append(@, [type |-> g.scope.type, code |-> g.scope.code])]

\* The steps that have no parts.
Taken(s, g) ==
  CASE s.do = "define" -> Emitted(g, Instruction(s.op, s.a, s.b, <<>>))
    [] s.do = "newAnchor" -> [g EXCEPT !.lines = Append(@, 0)]
    [] s.do = "defineAnchor" ->
         [g EXCEPT !.lines[s.anchor] = Len(g.scope.code) + 1]
    [] s.do = "setAnchors" -> [g EXCEPT !.scope.brk = s.brk, !.scope.cont = s.cont]
    [] s.do = "declare" -> setLocal(g, s.x)
    [] s.do = "assigned" ->
         LET h == setLocal(g, s.x)
         IN Emitted(h, Instruction(s.op, Depth(h, s.x), Index(h, s.x), <<>>))
    [] s.do = "send" ->
         LET block == IF s.e.body = <<>> THEN 0 ELSE Len(g.sets)
         IN Emitted(g, Instruction(s.op, Len(s.e.kids), block, ArgSet(s.e.kids)))
    [] s.do = "openBlock" ->
         Opened(g, [g.scope EXCEPT !.code = <<>>, !.type = "block",
                                   !.tables = <<s.names>> \o @])
    [] s.do = "openMethod" -> Opened(g, newScope("method"))
    [] s.do = "close" -> Closed(g)

RECURSIVE Generate(_, _)
Generate(steps, g) ==
  IF steps = <<>> THEN g
  ELSE LET s == Head(steps)
           parts == CASE s.do = "expression" -> compileExpression(s.e, g)
                      [] s.do = "statement" -> compileStatement(s.e, s.keep, g)
                      [] OTHER -> <<>>
       IN Generate(parts \o Tail(steps), IF parts = <<>> THEN Taken(s, g) ELSE g)

-----------------------------------------------------------------------------
(* GenerateInstructions.                                                   *)

Jumps == {"Jump", "BranchIf", "BranchUnless"}

\* The anchors are replaced by their places.
Anchored(code, lines) ==
  [i \in 1..Len(code) |->
     IF code[i].op \in Jumps THEN [code[i] EXCEPT !.a = lines[@]] ELSE code[i]]

\* Jumps to the end or to a Leave become Leave, and jumps to a jump go where
\* that one goes.  The source rewrites in place, from the first instruction
\* on: a jump back sees the jump it leads to already rewritten.
elide(code) ==
  LET rewritten[n \in 0..Len(code)] ==
        IF n = 0 THEN code
        ELSE LET done == rewritten[n - 1]
                 target == done[n].a
             IN IF done[n].op # "Jump" THEN done
                ELSE IF target > Len(code) \/ done[target].op = "Leave"
                THEN [done EXCEPT ![n].op = "Leave"]
                ELSE IF done[target].op = "Jump"
                THEN [done EXCEPT ![n].a = done[target].a]
                ELSE done
  IN rewritten[Len(code)]

\* The method is defined first, then come the statements of the program; the
\* last set is the program's, the one closed by the method's definition its.
GenerateInstructions(p) ==
  LET g1 == Generate(compileDefStmt(p), NewGenerator("program"))
      g2 == Generate(CodeBlock(p.main, FALSE) \o <<define("Leave", 0, 0)>>, g1)
      sets == Append(g2.sets, [type |-> "program", code |-> g2.scope.code])
  IN [method |-> Len(g1.sets), program |-> Len(sets),
      sets |-> [i \in 1..Len(sets) |->
                  [sets[i] EXCEPT !.code = elide(Anchored(@, g2.lines))]]]
=============================================================================
