------------------------------ MODULE Language ------------------------------
(***************************************************************************)
(* Programs, and what they mean when nothing is compiled: expressions and  *)
(* statements are evaluated directly, a variable is a name in a scope, and *)
(* a call of a block makes a scope inside the one the block was written    *)
(* in.  This is the specification that Generator and Machine are checked   *)
(* against; it models no code.                                             *)
(*                                                                         *)
(* break and continue inside a block concern the block, also where a while *)
(* stands in between; return ends the block or method it stands in; yield  *)
(* calls the block given to the method, from its blocks too.               *)
(***************************************************************************)
EXTENDS Integers, SequencesExt

Nil == -1
False == -2
True == -3
Self == -4
Error == -5    \* printed when an error ends the program
Unknown == -9  \* the value of something that has none: it may be anything

Falsy(v) == v \in {Nil, False}
Bool(b) == IF b THEN True ELSE False

\* An array of digits is the number 9 followed by them.
ArrayOf(vs) == FoldLeft(LAMBDA n, v : 10 * n + v, 9, vs)

-----------------------------------------------------------------------------
(* Syntax trees.  Every node has the same fields, most of them empty.      *)

Node(n, v, x, kids, body, alt, params) ==
  [n |-> n, v |-> v, x |-> x, kids |-> kids, body |-> body, alt |-> alt,
   params |-> params]

Lit(v)          == Node("lit", v, "", <<>>, <<>>, <<>>, <<>>)
Id(x)           == Node("id", 0, x, <<>>, <<>>, <<>>, <<>>)
Assign(x, e)    == Node("assign", 0, x, <<e>>, <<>>, <<>>, <<>>)
Op(o, l, r)     == Node(o, 0, "", <<l, r>>, <<>>, <<>>, <<>>)
If(c, yes, no)  == Node("if", 0, "", <<c>>, yes, no, <<>>)
Puts(e)         == Node("puts", 0, "", <<e>>, <<>>, <<>>, <<>>)
Times(e, ps, b) == Node("times", 0, "", <<e>>, b, <<>>, ps)
Call(es, ps, b) == Node("call", 0, "", es, b, <<>>, ps)
Key(x, e)       == Node("key", 0, x, <<e>>, <<>>, <<>>, <<>>)  \* x: e
Yield(es)       == Node("yield", 0, "", es, <<>>, <<>>, <<>>)
While(c, b)     == Node("while", 0, "", <<c>>, b, <<>>, <<>>)
Break           == Node("break", 0, "", <<>>, <<>>, <<>>, <<>>)
Continue        == Node("continue", 0, "", <<>>, <<>>, <<>>, <<>>)
Return(e)       == Node("return", 0, "", <<e>>, <<>>, <<>>, <<>>)

\* Statements proper; everything else is an expression and has a value.
IsStatement(e) == e.n \in {"while", "break", "continue", "return"}

\* A parameter: its name, its kind and its default value if it has one.
Param(x, kind, default) == [x |-> x, kind |-> kind, default |-> default]
Keys == {"required key", "optional key"}

\* A program: its statements, and the one method that they may call.
Program(main, params, method) ==
  [main |-> main, params |-> params, method |-> method]

-----------------------------------------------------------------------------
(* Meaning.  A state s holds the scopes made so far, each a function from  *)
(* the names it binds, and what was printed.  A context c holds the scopes *)
(* around the code, innermost first, the block given to the method with    *)
(* its context, and whether the code is in a block.  A result r has the    *)
(* new state, the value, and how the code ended: "next", "error", or by the *)
(* statement of that name.                                                 *)

Result(s, v, how) == [s |-> s, v |-> v, how |-> how]

NoNames == [x \in {} |-> Nil]
NoBlock == [given |-> FALSE]

\* The place in c.env of the innermost scope that binds x, 0 if none does.
Binding(x, c, s) ==
  LET bound == {i \in 1..Len(c.env) : x \in DOMAIN s.scopes[c.env[i]]}
  IN IF bound = {} THEN 0 ELSE CHOOSE i \in bound : \A j \in bound : i <= j

Read(x, c, s) ==
  LET i == Binding(x, c, s)
  IN IF i = 0 THEN Nil ELSE s.scopes[c.env[i]][x]

Write(x, v, c, s) ==
  LET i == Binding(x, c, s)
      scope == c.env[IF i = 0 THEN 1 ELSE i]
      old == s.scopes[scope]
  IN [s EXCEPT !.scopes[scope] =
        [y \in DOMAIN old \cup {x} |-> IF y = x THEN v ELSE old[y]]]

NewScope(s, names, vs) ==
  [s EXCEPT !.scopes = Append(@,
     [x \in {names[i] : i \in 1..Len(names)} |->
        LET i == CHOOSE i \in 1..Len(names) : names[i] = x
        IN IF i <= Len(vs) THEN vs[i] ELSE Nil])]

\* The value of parameter i of the method when it is called with es, whose
\* values are vs; <<>> if the call is wrong.  Positional arguments go to the
\* parameters without a key from left to right, the rest of them to the
\* splat parameter, and keys go to the parameters of that name.
Argument(params, i, es, vs) ==
  LET p == params[i]
      plain == SelectSeq(params, LAMBDA q : q.kind \in {"normal", "optional"})
      given == SelectSeq([j \in 1..Len(es) |-> j], LAMBDA j : es[j].n # "key")
      k == SelectInSeq(plain, LAMBDA q : q = p)
      j == SelectLastInSeq(es, LAMBDA e : e.n = "key" /\ e.x = p.x)
  IN IF p.kind \in Keys THEN IF j # 0 THEN <<vs[j]>> ELSE p.default
     ELSE IF p.kind = "splat"
     THEN <<ArrayOf([n \in 1..Len(given) - Len(plain) |->
                       vs[given[Len(plain) + n]]])>>
     ELSE IF k <= Len(given) THEN <<vs[given[k]]>> ELSE p.default

\* No value is missing and none is left over.
CallFits(params, es, vs) ==
  /\ \A i \in 1..Len(params) : Argument(params, i, es, vs) # <<>>
  /\ \A e \in Range(es) : e.n = "key" =>
       \E q \in Range(params) : q.kind \in Keys /\ q.x = e.x
  /\ \/ \E q \in Range(params) : q.kind = "splat"
     \/ Len(SelectSeq(es, LAMBDA e : e.n # "key"))
          <= Len(SelectSeq(params, LAMBDA q : q.kind \notin Keys))

RECURSIVE Eval(_, _, _, _), EvalAll(_, _, _, _), Run(_, _, _, _),
          Loop(_, _, _, _), Repeat(_, _, _, _, _)

\* A call ends normally unless by an error.
Ended(how) == IF how = "error" THEN "error" ELSE "next"

\* A block's code runs in a new scope, around which are the block's.
RunBlock(p, block, vs, s) ==
  LET s1 == NewScope(s, block.params, vs)
      c1 == [env |-> <<Len(s1.scopes)>> \o block.c.env, block |-> block.c.block,
             inBlock |-> TRUE]
  IN Run(p, block.body, c1, s1)

Block(e, c) ==
  IF e.body = <<>> THEN NoBlock
  ELSE [given |-> TRUE, params |-> e.params, body |-> e.body, c |-> c]

\* The values of es from left to right; v is a sequence of them.
EvalAll(p, es, c, s) ==
  IF es = <<>> THEN Result(s, <<>>, "next")
  ELSE LET r == Eval(p, Head(es), c, s)
           rest == EvalAll(p, Tail(es), c, r.s)
       IN IF r.how = "error" THEN r
          ELSE IF rest.how = "error" THEN rest
          ELSE Result(rest.s, <<r.v>> \o rest.v, "next")

\* times: a block is run for i, i + 1, ... up to n - 1, or until it breaks.
Repeat(p, i, n, block, s) ==
  IF i >= n THEN Result(s, n, "next")
  ELSE LET r == RunBlock(p, block, <<i>>, s)
       IN IF r.how \in {"break", "error"} THEN Result(r.s, n, Ended(r.how))
          ELSE Repeat(p, i + 1, n, block, r.s)

Loop(p, e, c, s) ==
  LET test == Eval(p, e.kids[1], c, s)
      body == Run(p, e.body, c, test.s)
      leaves == \/ body.how \in {"return", "error"}
                \/ body.how \in {"break", "continue"} /\ c.inBlock
  IN IF test.how = "error" THEN test
     ELSE IF Falsy(test.v) THEN Result(test.s, Unknown, "next")
     ELSE IF leaves THEN body
     ELSE IF body.how = "break" THEN Result(body.s, Unknown, "next")
     ELSE Loop(p, e, c, body.s)

\* Statements in turn; the value is that of the last expression.
Run(p, es, c, s) ==
  IF es = <<>> THEN Result(s, Nil, "next")
  ELSE LET r == Eval(p, Head(es), c, s)
       IN IF r.how # "next" \/ Len(es) = 1 THEN r ELSE Run(p, Tail(es), c, r.s)

\* A method's code runs in a scope of its own, which binds its parameters.
RunMethod(p, e, vs, c, s) ==
  LET s1 == NewScope(s, [i \in 1..Len(p.params) |-> p.params[i].x],
                     [i \in 1..Len(p.params) |->
                        Argument(p.params, i, e.kids, vs)[1]])
      c1 == [env |-> <<Len(s1.scopes)>>, block |-> Block(e, c), inBlock |-> FALSE]
      r == Run(p, p.method, c1, s1)
  IN IF CallFits(p.params, e.kids, vs) THEN Result(r.s, r.v, Ended(r.how))
     ELSE Result(s, Nil, "error")

\* && and || evaluate their right operand only if the left does not decide.
ShortCircuit(p, e, c, s) ==
  LET left == Eval(p, e.kids[1], c, s)
      decides == left.how = "error" \/ (Falsy(left.v) <=> e.n = "and")
  IN IF decides THEN left ELSE Eval(p, e.kids[2], c, left.s)

\* An expression or statement whose operands have the values vs.
EvalNode(p, e, vs, c, s) ==
  CASE e.n = "lit" -> Result(s, e.v, "next")
    [] e.n = "id" -> Result(s, Read(e.x, c, s), "next")
    [] e.n = "key" -> Result(s, vs[1], "next")
    [] e.n = "assign" -> Result(Write(e.x, vs[1], c, s), vs[1], "next")
    [] e.n = "add" -> Result(s, vs[1] + vs[2], "next")
    [] e.n = "less" -> Result(s, Bool(vs[1] < vs[2]), "next")
    [] e.n = "if" -> Run(p, IF Falsy(vs[1]) THEN e.alt ELSE e.body, c, s)
    [] e.n = "puts" -> Result([s EXCEPT !.out = Append(@, vs[1])], Nil, "next")
    [] e.n = "times" -> Repeat(p, 0, vs[1], Block(e, c), s)
    [] e.n = "call" -> RunMethod(p, e, vs, c, s)
    [] e.n = "yield" ->
         LET r == RunBlock(p, c.block, vs, s)
         IN Result(r.s, IF r.how = "break" THEN Unknown ELSE r.v, Ended(r.how))
    [] e.n \in {"break", "continue"} -> Result(s, Unknown, e.n)
    [] e.n = "return" -> Result(s, vs[1], "return")

Eval(p, e, c, s) ==
  LET kids == EvalAll(p, e.kids, c, s)
  IN IF e.n = "while" THEN Loop(p, e, c, s)
     ELSE IF e.n \in {"and", "or"} THEN ShortCircuit(p, e, c, s)
     ELSE IF kids.how = "error" THEN kids
     ELSE EvalNode(p, e, kids.v, c, kids.s)

\* What the program prints; an error ends it.
Meaning(p) ==
  LET r == Run(p, p.main, [env |-> <<1>>, block |-> NoBlock, inBlock |-> FALSE],
               [scopes |-> <<NoNames>>, out |-> <<>>])
  IN r.s.out \o IF r.how = "error" THEN <<Error>> ELSE <<>>
=============================================================================
