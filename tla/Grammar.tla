------------------------------ MODULE Grammar ------------------------------
(***************************************************************************)
(* How a Lito program is written: each operator makes a phrase, the text of *)
(* a piece of a program with the tree it stands for.  It knows nothing of   *)
(* how the text is read.  level says how tightly a phrase holds together:   *)
(* a phrase that is looser than its place allows is put in parentheses.     *)
(***************************************************************************)
EXTENDS Parser, FiniteSets, SequencesExt

Phrase(text, tree, level) == [text |-> text, tree |-> tree, level |-> level]

Paren(a, level) == IF a.level >= level THEN a.text ELSE "(" \o a.text \o ")"
Trees(as) == [i \in 1..Len(as) |-> as[i].tree]
Separated(texts, separator) ==
  IF texts = <<>> THEN ""
  ELSE FoldLeft(LAMBDA s, t : s \o separator \o t, Head(texts), Tail(texts))
Listed(as) == Separated([i \in 1..Len(as) |-> as[i].text], ", ")

-----------------------------------------------------------------------------
(* Expressions.                                                            *)

Name(x) == Phrase(x, Leaf("IDENT", x), 14)
InstanceVar(x) == Phrase(x, Leaf("INSTANCE_VAR", x), 14)
Const(x) == Phrase(x, Leaf("CONSTANT", x), 14)
Number(x) == Phrase(x, Leaf("INT", x), 14)
Float(whole, part) ==
  Phrase(whole \o "." \o part, Node("float", whole \o "." \o part, <<Leaf("INT", whole)>>), 12)
Quoted(x) == Phrase("\"" \o x \o "\"", Leaf("STRING", x), 14)
Symbol(x) == Phrase(":" \o x, Leaf("STRING", x), 14)
Keyword(x, type) == Phrase(x, Leaf(type, x), 14)

Levels ==
  << <<"&&", "||">>, <<"..", "...">>, <<"==", "!=", "===">>, <<"<", ">=", "=~">>,
     <<"+", "-", "%">>, <<"*", "/", "**">> >>
LevelOf(op) ==
  3 + CHOOSE i \in 1..Len(Levels) : \E j \in 1..Len(Levels[i]) : Levels[i][j] = op

\* Operators of one level group to the left, && and || to the right.
Infix(op, a, b) ==
  LET n == LevelOf(op)
      logic == op \in {"&&", "||"}
      range == op \in {"..", "..."}
  IN Phrase(Paren(a, IF logic THEN n + 1 ELSE n) \o " " \o op \o " "
              \o Paren(b, IF logic THEN n ELSE n + 1),
            Node(IF range THEN "range" ELSE "infix", op, <<a.tree, b.tree>>), n)

Not(a) == Phrase("!" \o Paren(a, 11), Node("prefix", "!", <<a.tree>>), 10)
Minus(a) == Phrase("-" \o Paren(a, 14), Node("prefix", "-", <<a.tree>>), 13)
Within(a, b) ==
  Phrase(Paren(a, 14) \o "::" \o Paren(b, 14), Node("infix", "::", <<a.tree, b.tree>>), 12)

Index(a, args) ==
  Phrase(Paren(a, 11) \o "[" \o Listed(args) \o "]",
         Node("call", "[]", <<a.tree>> \o Trees(args)), 11)
Array(as) == Phrase("[" \o Listed(as) \o "]", Node("array", "[", Trees(as)), 14)
Hash(keys, as) ==
  LET entries == [i \in 1..Len(as) |-> keys[i] \o ": " \o as[i].text]
  IN Phrase("{ " \o Separated(entries, ", ") \o " }",
            Node("hash", "{", [i \in 1..Len(as) |-> Node("entry", keys[i], <<as[i].tree>>)]),
            14)

-----------------------------------------------------------------------------
(* Calls.                                                                  *)

Send(a, x) == Phrase(Paren(a, 11) \o "." \o x, Node("call", x, <<a.tree>>), 12)
SendWith(a, x, args) ==
  Phrase(Paren(a, 11) \o "." \o x \o "(" \o Listed(args) \o ")",
         Node("call", x, <<a.tree>> \o Trees(args)), 12)
SendBare(a, x, args) ==
  Phrase(Paren(a, 11) \o "." \o x \o " " \o Listed(args),
         Node("call", x, <<a.tree>> \o Trees(args)), 2)
Message(a, x, args) ==
  Phrase(Paren(a, 11) \o " " \o x \o "(" \o Listed(args) \o ")",
         Node("call", x, <<a.tree>> \o Trees(args)), 2)
Invoke(x, args) ==
  Phrase(x \o "(" \o Listed(args) \o ")", Node("call", x, <<SelfNode>> \o Trees(args)), 12)
InvokeBare(x, args) ==
  Phrase(x \o " " \o Listed(args), Node("call", x, <<SelfNode>> \o Trees(args)), 2)
Pair(x, a) == Phrase(x \o ": " \o a.text, Node("pair", "", <<Leaf("IDENT", x), a.tree>>), 3)
Yield(args) == Phrase("yield(" \o Listed(args) \o ")", Node("yield", "yield", Trees(args)), 14)
YieldBare(args) == Phrase("yield " \o Listed(args), Node("yield", "yield", Trees(args)), 2)

Block(stmts) == Node("block", "", Trees(stmts))
BodyText(stmts) ==
  "\n" \o Separated([i \in 1..Len(stmts) |-> stmts[i].text], "\n")
       \o (IF stmts = <<>> THEN "}" ELSE "\n}")
BlockText(stmts) == "{" \o BodyText(stmts)

WithBlock(call, params, stmts) ==
  Phrase(call.text \o " "
           \o (IF params = <<>> THEN "{" ELSE "{ |" \o Listed(params) \o "|")
           \o BodyText(stmts),
         Node("call", call.tree.x,
              Append(call.tree.kids, Node("do", "", Append(Trees(params), Block(stmts))))),
         call.level)

-----------------------------------------------------------------------------
(* Statements.                                                             *)

Assign(x, a) == Phrase(x.text \o " = " \o Paren(a, 3), Node("assign", "", <<x.tree, a.tree>>), 3)
AssignBoth(x, y, a) ==
  Phrase(x.text \o ", " \o y.text \o " = " \o Paren(a, 4),
         Node("assign", "", <<x.tree, y.tree, a.tree>>), 3)
AssignOp(op, x, a) ==
  Phrase(x.text \o " " \o op \o "= " \o Paren(a, 4),
         Node("assign", "", <<x.tree, Node("infix", op, <<x.tree, a.tree>>)>>), 3)
AssignAttribute(a, x, b) ==
  Phrase(Paren(a, 11) \o "." \o x \o " = " \o Paren(b, 4),
         Node("call=", x, <<a.tree, b.tree>>), 3)
AssignIndex(a, i, b) ==
  Phrase(Paren(a, 11) \o "[" \o i.text \o "] = " \o Paren(b, 4),
         Node("call=", "[]", <<a.tree, i.tree, b.tree>>), 3)
AssignIndexOp(op, a, i, b) ==
  Phrase(Paren(a, 11) \o "[" \o i.text \o "] " \o op \o "= " \o Paren(b, 4),
         Node("call=", "[]",
              <<a.tree, i.tree, Node("infix", op, <<Index(a, <<i>>).tree, b.tree>>)>>), 3)

Conditional(c, stmts) == Node("conditional", "", <<c, Block(stmts)>>)
If(c, stmts) ==
  Phrase("if " \o c.text \o " " \o BlockText(stmts),
         Node("if", "if", <<Conditional(c.tree, stmts)>>), 14)
ElsIf(if, c, stmts) ==
  Phrase(if.text \o " elsif " \o c.text \o " " \o BlockText(stmts),
         Node("if", "if", Append(if.tree.kids, Conditional(c.tree, stmts))), 14)
Else(if, stmts) ==
  Phrase(if.text \o " else " \o BlockText(stmts),
         Node("if", "if", Append(if.tree.kids, Block(stmts))), 14)

While(c, stmts) ==
  Phrase("while " \o c.text \o " " \o BlockText(stmts),
         Node("while", "", <<c.tree, Block(stmts)>>), 2)

\* A switch on a (or on true) with a case of one value, a case of two, and a
\* default.
Same(a, b) == Node("infix", "===", <<a, b>>)
Switch(text, a, b, c, d, then, else) ==
  Phrase("switch " \o text \o "{\ncase " \o b.text \o "\n" \o then.text
           \o "\ncase " \o c.text \o ", " \o d.text \o "\n" \o then.text
           \o "\ndefault\n" \o else.text \o "\n}",
         Node("if", "switch",
           <<Conditional(Same(a, b.tree), <<then>>),
             Conditional(Node("infix", "||", <<Same(a, c.tree), Same(a, d.tree)>>), <<then>>),
             Block(<<else>>)>>), 14)
SwitchOn(a, b, c, d, then, else) == Switch(a.text \o " ", a.tree, b, c, d, then, else)
SwitchTrue(b, c, d, then, else) == Switch("", Leaf("TRUE", "true"), b, c, d, then, else)

Optional(x, a) == Assign(Name(x), a)
Splat(x) == Phrase("*" \o x, Node("prefix", "*", <<Leaf("IDENT", x)>>), 13)
Required(x) == Phrase(x \o ":", Node("pair", "", <<Leaf("IDENT", x)>>), 3)
Define(kind, receiver, x, params, stmts) ==
  LET scoped == IF receiver = <<>> THEN "" ELSE receiver[1].text \o "."
      list == IF params = <<>> THEN "" ELSE "(" \o Listed(params) \o ")"
  IN Phrase("def " \o scoped \o x \o (IF kind = "def=" THEN "=" ELSE "") \o list
              \o " " \o BlockText(stmts),
            Node(kind, x, Trees(receiver) \o <<Node("params", "", Trees(params)), Block(stmts)>>),
            2)
Class(x, stmts) ==
  Phrase("class " \o x \o " " \o BlockText(stmts),
         Node("class", "", <<Leaf("CONSTANT", x), Block(stmts)>>), 2)
SubClass(x, a, stmts) ==
  Phrase("class " \o x \o " < " \o a.text \o " " \o BlockText(stmts),
         Node("class", "", <<Leaf("CONSTANT", x), a.tree, Block(stmts)>>), 2)
Module(x, stmts) ==
  Phrase("module " \o x \o " " \o BlockText(stmts),
         Node("module", "", <<Leaf("CONSTANT", x), Block(stmts)>>), 2)
Return(a) == Phrase("return " \o a.text, Node("return", "", <<a.tree>>), 2)
ReturnNil == Phrase("return", Node("return", "", <<Leaf("NIL", "")>>), 2)
Leave(x, type) == Phrase(x, Leaf(type, ""), 2)

-----------------------------------------------------------------------------
(* Sessions.                                                               *)

\* The lines of a text.
Lines(text) ==
  LET ends == {i \in 1..Len(text) : SubSeq(text, i, i) = "\n"} \cup {Len(text) + 1}
      Numbered(n) == CHOOSE i \in ends : Cardinality({j \in ends : j <= i}) = n
  IN [n \in 1..Cardinality(ends) |->
        SubSeq(text, IF n = 1 THEN 1 ELSE Numbered(n - 1) + 1, Numbered(n) - 1)]

Program(stmt) == Node("program", "", <<stmt.tree>>)

\* The statements, each of them a program, typed one after the other.
Written(stmts) ==
  LET texts == [i \in 1..Len(stmts) |-> Lines(stmts[i].text)]
      lines == FlattenSeq(texts)
      ends == [i \in 1..Len(stmts) |-> Len(FlattenSeq(SubSeq(texts, 1, i)))]
  IN [lines |-> lines,
      trees |-> [i \in 1..Len(stmts) |-> Program(stmts[i])],
      due |-> [n \in 1..Len(lines) |->
                 Len(SelectSeq(ends, LAMBDA e : e <= n))],
      written |-> TRUE]

\* Anything.
Typed(lines) ==
  [lines |-> lines, trees |-> <<>>, due |-> [n \in 1..Len(lines) |-> 0],
   written |-> FALSE]

=============================================================================
