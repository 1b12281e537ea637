------------------------------ MODULE MCMachine ------------------------------
(* The programs that TLC runs through Generator and Machine.                *)
EXTENDS Machine

\* x is assigned in the program, y in a block or method, z is a parameter.
X == Id("x")
SetX(e) == Assign("x", e)
Plus1(e) == Op("add", e, Lit(1))

\* `while`, counted by its own variable, running body at most twice.
Twice(i, body) ==
  While(Op("less", Id(i), Lit(2)), <<Assign(i, Plus1(Id(i)))>> \o body)

\* Ways to leave, or not.
Leaves == {Break, Continue, Puts(Lit(7)), Return(Lit(8))}

\* Conditions: computed, constant, and short-circuited.
Conditions ==
  {Op("less", X, Lit(1)), Lit(Nil), Op("and", X, Lit(False)),
   Op("or", Lit(Nil), Op("less", Lit(0), X))}

\* A conditional around a way to leave, between two effects.
Guarded(leave) ==
  {<<Puts(X), If(c, <<leave>>, no), SetX(Plus1(X))>> :
     c \in Conditions, no \in {<<>>, <<SetX(Lit(3))>>, <<Lit(0), Puts(Lit(6))>>}}

LoopBodies == UNION {Guarded(leave) : leave \in Leaves \ {Return(Lit(8))}}
BlockBodies == UNION {Guarded(leave) : leave \in Leaves}

Main(es) ==
  Program(<<SetX(Lit(0)), Assign("i", Lit(0))>> \o es \o <<Puts(X)>>,
          <<>>, <<>>)

\* A loop, a block, a loop in a loop, a block in a loop, a loop in a block.
ControlPrograms ==
  {Main(<<Twice("i", b)>>) : b \in LoopBodies}
  \cup {Main(<<Times(Lit(2), <<"z">>, <<Puts(Id("z"))>> \o b)>>) : b \in BlockBodies}
  \cup {Main(<<Twice("i", <<Assign("j", Lit(0)), Twice("j", b), Puts(X)>>)>>) :
          b \in LoopBodies}
  \cup {Main(<<Twice("i", <<Times(Lit(2), <<"z">>, b), Puts(Id("i"))>>)>>) :
          b \in BlockBodies}
  \cup {Main(<<Times(Lit(2), <<"z">>,
                <<Assign("y", Id("z")), Twice("i", b), Puts(Id("y"))>>)>>) :
          b \in BlockBodies}

\* Blocks in blocks: each writes and reads variables of every level.
Targets == {"x", "y", "z", "w"}
ScopePrograms ==
  {Main(<<Times(Lit(2), <<"z">>,
            <<Assign("y", Plus1(Id("z"))),
              Times(Id("y"), <<"w">>,
                <<Assign(t, Op("add", Id(a), Id(b))), Puts(Id(t))>>),
              Puts(Id("y")), Puts(Id("z"))>>)>>) :
     t \in Targets, a \in Targets, b \in Targets}

\* A method that yields, directly and from a block, with and without its
\* optional argument, and what the caller's block does with it.
MethodBodies ==
  {<<Puts(Op("add", Yield(<<Id("a")>>), Id("b"))), Id("a")>>,
   <<Times(Lit(2), <<"z">>, <<Puts(Yield(<<Id("z")>>)), Id("b")>>), Id("b")>>,
   <<Assign("x", Yield(<<Id("b")>>)), If(X, <<Return(X)>>, <<>>), Lit(5)>>,
   <<Assign("b", Plus1(Id("b"))), Yield(<<Id("b")>>)>>}
YieldedBodies ==
  {<<SetX(Op("add", X, Id("z"))), X>>,
   <<Assign("y", Plus1(Id("z"))), Times(Id("y"), <<"w">>, <<SetX(Plus1(X))>>)>>,
   <<If(Op("less", X, Id("z")), <<Return(Id("z"))>>, <<SetX(Lit(4))>>), Lit(2)>>}
CallPrograms ==
  {Program(<<SetX(Lit(0)),
             Puts(Op("add", Lit(10), Call(es, <<"z">>, body))), Puts(X)>>,
           <<Param("a", "normal", <<>>), Param("b", "optional", <<9>>)>>, method) :
     es \in {<<Lit(1)>>, <<Lit(2), Lit(3)>>}, method \in MethodBodies,
     body \in YieldedBodies}

\* Calls with every mix of parameters that the parser allows, positional or
\* by key, right or wrong.
Digit(x) == IF x \in {"a", "k"} THEN 1 ELSE 2
Params(x, y) ==
  {<<>>, <<Param(x, "normal", <<>>)>>, <<Param(x, "optional", <<Digit(x)>>)>>,
   <<Param(x, "normal", <<>>), Param(y, "normal", <<>>)>>,
   <<Param(x, "normal", <<>>), Param(y, "optional", <<Digit(y)>>)>>,
   <<Param(x, "optional", <<Digit(x)>>), Param(y, "optional", <<Digit(y)>>)>>}
KeyParams ==
  {<<>>, <<Param("k", "required key", <<>>)>>, <<Param("k", "optional key", <<1>>)>>,
   <<Param("k", "required key", <<>>), Param("l", "optional key", <<2>>)>>}
Signatures ==
  {ps \o ks : ps \in Params("a", "b"), ks \in KeyParams}
  \cup {ps \o <<Param("s", "splat", <<>>)>> : ps \in Params("a", "b")}
ShowAll(ps) == [i \in 1..Len(ps) |-> Puts(Id(ps[i].x))] \o <<Lit(0)>>

Positional(n) == SubSeq(<<Lit(3), Lit(4), Lit(5), Lit(6)>>, 1, n)
KeyArguments ==
  {<<>>, <<Key("k", Lit(7))>>, <<Key("l", Lit(8))>>,
   <<Key("k", Lit(7)), Key("l", Lit(8))>>, <<Key("l", Lit(8)), Key("k", Lit(7))>>}

\* The calls whose arguments the code counts right.  It counts keys with the
\* positional arguments: keys stand in for missing ones, and what is left over
\* goes unnoticed up to the number of parameters of every kind.
Countable(ps, n, ks) ==
  LET normal == SelectSeq(ps, LAMBDA q : q.kind = "normal")
      plain == SelectSeq(ps, LAMBDA q : q.kind \in {"normal", "optional"})
  IN \/ \E q \in Range(ps) : q.kind = "splat"
     \/ n \in Len(normal)..Len(plain)
     \/ n < Len(normal) /\ ks = <<>>
     \/ n > Len(ps)

BindingPrograms ==
  {Program(<<Puts(Op("add", Lit(10), Call(c[2], <<>>, <<>>)))>>, c[1], ShowAll(c[1])) :
     c \in UNION {{<<ps, Positional(n) \o ks>> :
                     n \in {n \in 0..4 : Countable(ps, n, ks)}} :
                   ps \in Signatures, ks \in KeyArguments}}

\* A variable that is declared, but never assigned before a block assigns it.
StrayPrograms ==
  {Main(<<If(c, <<Assign("y", Lit(1))>>, <<>>),
          Times(Lit(2), <<"z">>, <<Assign("y", Plus1(X)), Puts(Id("z"))>>)>>) :
     c \in Conditions}

MCPrograms ==
  ControlPrograms \cup ScopePrograms \cup CallPrograms \cup BindingPrograms
=============================================================================
