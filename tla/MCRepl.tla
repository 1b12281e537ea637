------------------------------- MODULE MCRepl -------------------------------
(***************************************************************************)
(* Instances of Repl: what is typed, and what is checked of it.             *)
(***************************************************************************)
EXTENDS Repl, Grammar

-----------------------------------------------------------------------------
(* Single programs.                                                        *)

a == Name("a")
b == Name("b")
c == Name("c")
one == Number("1")
two == Number("2")

Operators == {"||", "&&", "..", "==", "<", "+", "-", "*", "**"}

\* Two operators, grouped to the left and to the right.
TwoOperators ==
  {Infix(o1, Infix(o2, a, one), b) : o1, o2 \in Operators}
  \cup {Infix(o1, a, Infix(o2, b, two)) : o1, o2 \in Operators}

Operands ==
  {a, InstanceVar("@a"), Const("C"), one, Quoted("s"), Symbol("a"),
   Keyword("self", "SELF"), Keyword("true", "TRUE"), Keyword("nil", "NIL"),
   Within(Const("C"), Const("D")), Index(a, <<one>>), Send(a, "b"),
   SendWith(a, "b", <<one, b>>), Send(Send(a, "b"), "class"), Invoke("f", <<>>),
   Invoke("f", <<Infix("+", a, one), b>>), Array(<<>>), Array(<<a, one>>),
   Not(a), Minus(a), Send(Minus(one), "b"), Send(Infix("+", a, one), "b"),
   Hash(<<>>, <<>>), Hash(<<"a", "b">>, <<one, Infix("+", a, b)>>),
   Yield(<<one>>), Keyword("block!", "BLOCK"), Keyword("super", "SUPER")}

\* A float with a keyword after it is not read as it is written: see README.
half == Float("1", "5")

Mixed ==
  {Infix("+", x, y) : x \in Operands, y \in {one, Index(a, <<one>>), Send(a, "b"), Not(a),
                                            Invoke("f", <<Infix("+", a, one), b>>)}}
  \cup {Infix("&&", x, Infix("+", y, b)) : x, y \in {a, Not(a), Send(a, "b"), Minus(a)}}
  \cup {Infix("||", a, x) : x \in Operands}
  \cup {Infix("+", x, half) : x \in {a, one, half, Const("C"), Quoted("s")}}
  \cup {Infix("+", half, x) : x \in {a, one, half, Const("C"), Quoted("s")}}

Simple ==
  {a, Assign(a, one), Assign(InstanceVar("@a"), Infix("||", a, b)), Assign(a, Assign(b, one)),
   Assign(Const("C"), one), AssignBoth(a, b, Array(<<one, two>>)),
   AssignOp("+", a, one), AssignOp("-", InstanceVar("@a"), one), AssignOp("||", a, one),
   AssignAttribute(a, "b", one), AssignIndex(a, one, two), AssignIndexOp("+", a, one, two),
   Assign(a, Invoke("f", <<one>>)), Assign(a, SendWith(b, "c", <<one>>)),
   InvokeBare("f", <<one, a>>), SendBare(a, "b", <<one>>), Message(a, "b", <<one>>),
   Invoke("f", <<a, Pair("b", one)>>), SendWith(a, "b", <<Pair("c", one)>>),
   YieldBare(<<one, a>>), Return(a), ReturnNil, Leave("break", "BREAK"),
   Leave("continue", "CONTINUE"), Message(a, "finally", <<>>), Assign(a, If(b, <<c>>))}

\* A statement in each thing that may hold one, with a condition or a value
\* that ends in a call.
Holding(x) ==
  {If(Send(a, "b"), <<x>>), Else(If(a, <<x>>), <<b>>), Else(If(a, <<>>), <<x>>),
   Else(ElsIf(If(a, <<b>>), Infix("==", b, one), <<x>>), <<c>>),
   While(Infix("<", a, one), <<x>>), While(Send(a, "b"), <<x, c>>),
   SwitchOn(a, one, two, c, x, b), SwitchTrue(a, Infix("<", b, one), c, b, x),
   Define("def", <<>>, "f", <<>>, <<x>>),
   Define("def=", <<Keyword("self", "SELF")>>, "f", <<b>>, <<x>>),
   Define("def", <<>>, "f", <<a, Optional("b", one), Required("c"), Pair("d", one), Splat("e")>>, <<x>>),
   Class("C", <<x>>), SubClass("C", Within(Const("D"), Const("E")), <<x>>), Module("M", <<x>>),
   WithBlock(Send(a, "b"), <<b, c>>, <<x>>), WithBlock(Invoke("f", <<one>>), <<>>, <<x, b>>)}

Deep ==
  UNION {{If(Send(b, "c"), <<x>>), While(b, <<x>>), Define("def", <<>>, "f", <<b>>, <<x>>),
          WithBlock(Send(b, "c"), <<a>>, <<x>>)}
         : x \in {If(Send(a, "b"), <<c>>), Else(If(a, <<b>>), <<c>>), While(Send(a, "b"), <<c>>),
                  SwitchOn(a, one, two, c, a, b), WithBlock(Send(a, "b"), <<b, c>>, <<c>>),
                  Class("C", <<Define("def", <<>>, "f", <<>>, <<a>>)>>)}}

Held ==
  {Assign(a, Invoke("f", <<one>>)), InvokeBare("f", <<one, a>>), SendBare(a, "b", <<one>>),
   SendWith(a, "b", <<Pair("c", one)>>), ReturnNil, AssignIndex(a, one, two),
   Assign(a, If(b, <<c>>))}

Programs == TwoOperators \cup Mixed \cup Simple \cup UNION {Holding(x) : x \in Held} \cup Deep

\* Programs typed one after the other.
Sequels ==
  {<<x, y, z>> : x, y, z \in
     {Assign(a, one), If(a, <<b>>), InvokeBare("f", <<one>>),
      Quoted("it's\n{")}}

-----------------------------------------------------------------------------
(* What may be typed otherwise.                                            *)

\* Three words, whatever they are.
Words == {"a", "C", "1", "=", ".", ",", ":", "(", ")", "[", "{", "}"}
Scribbles == {u \o " " \o v \o " " \o w : u, v, w \in Words}

\* A keyword or an operator, and what may stand after it.
Stubs ==
  {v \o " " \o w : w \in {"", "a", "C", "1", "= 1", "< a::b {", "(a", "(@a)", "a {", "a(*", "a(*a)"},
     v \in {"a", "a.", "@a,", "a[1", "a[1,2]", "a[]", "+", "- 1", "!", "*", "a **", "1.5 .6", "{ a", "{ 1",
            "{ a: 1, a:", "f(1, a", "f {", "f { |a", "f { |a,", "a = b =", "a, b =", "1 =", "yield", "yield(1)",
            "if", "if a {", "elsif", "switch", "switch a {", "case", "while", "def", "def a.", "def self.b",
            "def C.d=", "def f(a = C", "def f(a, a)", "def f(a: 1, b)", "def f(1, 1)", "def f(1.5, 2.5)", "def f([1], {})", "def f(*a, *b", "def f(\"a\": 1,",
            "class", "module", "return", "a..", "a ..", ":a", "a:", "super", "nil", "self", "a ? b"}}

\* Characters that the lexer treats apart.
Characters ==
  {"\"a\\n\\\"\" + 'b\\'", "'\\t\\f\\q'", "''", "\"a", "a # b", "$if$", "$C$ + $@a$ + $a$", "$$", "*1.5",
   "@", "@a + @b@", "?", "a? + b!", ":a + a::B", "f(a: :b)", "block!", "a block?", "self.class",
   "a |> b", "a !== b", "a === b", "a -> b", "a <- b", "a =~ b", "1...2", "a ; b", ";", "; a", "a ; ; b", "f(;)", "a.if 1",
   "a * \"*\"", "08", "a = 017", "09.5", "-09.5", "9223372036854775807", "9223372036854775808"}

PromptLines ==
  {"a = 1", "b = 2; c", "def f {", "}", "x.", "} }", "switch a {", "case 1", "^C", "b^C", ".reset",
   "a = \"{", "it\" + 'q'", "# c", "1 +", "f(", ")", "^D"}
Dialogues ==
  {<<x, y>> : x, y \in PromptLines} \cup {<<")", "\"{\"", x>> : x \in {"a", "}", "\"}\"", "^C"}}
  \cup {<<x, y, "}", z>> : x \in {"def f {", "if a {"}, y \in {"b = 1", "if b {", "}", "1 +"},
                           z \in {"a = 1", "}", "x."}}
  \cup {<<x, y, z>> : x, y, z \in {"a = 1", "b = 2; c", "a = 1; b = 2; c", "c, a = b"}}

MCSessions ==
  {Written(<<x>>) : x \in Programs} \cup {Written(s) : s \in Sequels}
  \cup {Typed(<<x>>) : x \in Scribbles \cup Stubs \cup Characters}
  \cup {Typed(d) : d \in Dialogues}

=============================================================================
