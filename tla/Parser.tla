------------------------------- MODULE Parser -------------------------------
(***************************************************************************)
(* The parser (compiler/parser): a recursive descent over statements and a *)
(* Pratt parser over expressions.  Each parse function is an action; what   *)
(* the functions under way have left to do is the stack p.todo, and the    *)
(* nodes they have made so far the stack p.val.                            *)
(*                                                                         *)
(* An error does not stop a function: p.err is set, nil takes the place of *)
(* the node, and the functions under way go on from the token they are at  *)
(* until a statement list looks at p.err.  A later error replaces an       *)
(* earlier one.  fsm and acceptBlock are fields of the parser, which the   *)
(* REPL keeps from one input to the next.                                  *)
(***************************************************************************)
EXTENDS Integers, SequencesExt, FSM

CONSTANT Mode  \* "NormalMode" or "REPLMode"

ASSUME ModeAssumption == Mode \in {"NormalMode", "REPLMode"}

VARIABLE p

-----------------------------------------------------------------------------
(* Tokens.                                                                 *)

\* The lexer goes on returning its last token, EOF or an illegal character.
TokenAt(q, i) == q.input[IF i <= Len(q.input) THEN i ELSE Len(q.input)]
curToken(q) == TokenAt(q, q.at)
peekToken(q) == TokenAt(q, q.at + 1)
curTokenIs(q, t) == curToken(q).t = t
peekTokenIs(q, t) == peekToken(q).t = t
nextToken(q) == [q EXCEPT !.at = @ + 1]

peekTokenAtSameLine(q) ==
  curToken(q).line = peekToken(q).line /\ ~peekTokenIs(q, "EOF")

\* What follows can be an argument without parentheses.
ArgumentTokens == {"INT", "STRING", "TRUE", "FALSE", "NIL", "INSTANCE_VAR",
                   "CONSTANT", "{", "SELF", "&"}
peekArgument(q) == peekToken(q).t \in ArgumentTokens /\ peekTokenAtSameLine(q)
peekBlock(q) == peekTokenIs(q, "{") /\ q.acceptBlock /\ peekTokenAtSameLine(q)

KeywordOperators == {"CATCH", "FINALLY", "IDENT", "CLASS"}

\* The precedences, weakest first, and the tokens that have them.
Lowest == 1
Normal == 2
AssignPrec == 3
BangPrefix == 10
CallPrec == 12
MinusPrefix == 13
LookupTable ==
  << {}, {}, {"=", "+=", "-=", "||=", ":"}, {"&&", "||"}, {"..", "..."},
     {"==", "!=", "===", "!=="}, {"=~", "<", "<=", ">", ">="}, {"+", "-", "%"},
     {"/", "*", "**"}, {}, {"["},
     {".", "(", "::", "->", "<-", "|>"} \cup KeywordOperators, {} >>

\* Mutant: * binds as + does.
FlatPrecedence(t) ==
  IF t = "*" THEN 8
  ELSE IF \E i \in 1..Len(LookupTable) : t \in LookupTable[i]
  THEN CHOOSE i \in 1..Len(LookupTable) : t \in LookupTable[i]
  ELSE Normal

precedenceOf(t) ==
  IF \E i \in 1..Len(LookupTable) : t \in LookupTable[i]
  THEN CHOOSE i \in 1..Len(LookupTable) : t \in LookupTable[i]
  ELSE Normal

-----------------------------------------------------------------------------
(* Nodes.  x: the literal of the token a node is made of, or the name that is  *)
(* called.  nils: 1 if a nil expression stands in the tree where a value is  *)
(* needed, for which the generator generates nothing; 2 if a nil statement  *)
(* does, whose pointer it follows.  A nil expression may be a statement.    *)

NilNode == [k |-> "nil", x |-> "", kids |-> <<>>, nils |-> 1]
NilStmt == [k |-> "nilStatement", x |-> "", kids |-> <<>>, nils |-> 2]

Node(k, x, kids) ==
  LET nils == {kids[i].nils : i \in {j \in 1..Len(kids) :
                 ~(k \in {"block", "program"} /\ kids[j] = NilNode)}}
  IN [k |-> k, x |-> x, kids |-> kids,
      nils |-> IF 2 \in nils THEN 2 ELSE IF 1 \in nils THEN 1 ELSE 0]

Leaf(k, x) == Node(k, x, <<>>)
SelfNode == Leaf("SELF", "self")
Variables == {"IDENT", "INSTANCE_VAR", "CONSTANT"}

Push(q, node) == [q EXCEPT !.val = Append(@, node)]
Top(q) == q.val[Len(q.val)]
Drop(q) == [q EXCEPT !.val = SubSeq(@, 1, Len(@) - 1)]

\* The n topmost nodes become the children of a new one.
Build(q, n, k, x) ==
  [q EXCEPT !.val = Append(SubSeq(@, 1, Len(@) - n),
                           Node(k, x, SubSeq(@, Len(@) - n + 1, Len(@))))]

Rename(q, k) == Push(Drop(q), Node(k, Top(q).x, Top(q).kids))

\* The topmost node becomes the last child of the one below it.
AddKid(q) ==
  LET parent == q.val[Len(q.val) - 1]
  IN Push(Drop(Drop(q)), Node(parent.k, parent.x, Append(parent.kids, Top(q))))

-----------------------------------------------------------------------------
(* The parser itself.                                                      *)

Transitions ==
  {<<"normal", "call">>, <<"normal", "param">>, <<"assignment", "param">>,
   <<"normal", "assignment">>, <<"call", "assignment">>, <<"call", "normal">>,
   <<"param", "normal">>, <<"assignment", "normal">>}

State(q, s) == [q EXCEPT !.fsm = Goto(Transitions, @, s)]

\* Work to do, with a number (a precedence) and a name; "build" has the name
\* of a node besides its kind.
Do(what, n, s) == [do |-> what, n |-> n, s |-> s, x |-> ""]
DoBuild(n, k, x) == [do |-> "build", n |-> n, s |-> k, x |-> x]
Expression(n) == Do("expression", n, "")
Then(q, works) == [q EXCEPT !.todo = works \o @]
AcceptBlock(q, b) == [q EXCEPT !.acceptBlock = b]

Error(q, e) == [q EXCEPT !.err = e]
Panic(q) ==
  [q EXCEPT !.err = IF @ = "none" THEN "Syntax" ELSE @,
            !.outcome = "failed", !.todo = <<>>, !.val = <<>>]

peekError(q, t) ==
  Error(q, IF ~peekTokenIs(q, "EOF") THEN "UnexpectedToken"
           ELSE IF t = "CASE" THEN "UnexpectedSwitch" ELSE "UnexpectedEOF")

\* Mutant: only what the REPL waits for is an error.
SilentNoPrefix(q) ==
  IF curTokenIs(q, "}") THEN Error(q, "UnexpectedEnd")
  ELSE IF curTokenIs(q, "EOF") /\ Mode = "REPLMode" THEN Error(q, "UnexpectedEOF") ELSE q

noPrefixParseFnError(q) ==
  Error(q, IF curTokenIs(q, "}") THEN "UnexpectedEnd"
           ELSE IF curTokenIs(q, "EOF") /\ Mode = "REPLMode"
           THEN "UnexpectedEOF" ELSE "UnexpectedToken")

\* expectPeek where the caller goes on whatever it returns.
Expect(q, t) == IF peekTokenIs(q, t) THEN nextToken(q) ELSE peekError(q, t)

NewParser == [input |-> <<>>, at |-> 1, todo |-> <<>>, val |-> <<>>,
              err |-> "none", fsm |-> "normal", acceptBlock |-> TRUE,
              outcome |-> "none"]

\* ParseProgram is called with the lexer at the start of the tokens.
Begin(q, tokens) ==
  [q EXCEPT !.input = tokens, !.at = 1, !.err = "none", !.outcome = "parsing",
            !.todo = <<Do("program", 0, "")>>, !.val = <<Leaf("program", "")>>]

Parsing == p.outcome = "parsing"
work == p.todo[1]
Doing(what) == Parsing /\ work.do = what
q0 == [p EXCEPT !.todo = Tail(@)]  \* the parser once the work is taken up

-----------------------------------------------------------------------------
(* Statements.                                                             *)

\* In the REPL an input without a statement, or with a nil expression as its
\* last one, makes ParseProgram follow a nil pointer.
ParseProgram ==
  /\ Doing("program")
  /\ \/ /\ ~curTokenIs(p, "EOF")
        /\ p' = Then(q0, <<Do("statement", 0, ""), Do("moreProgram", 0, "")>>)
     \/ /\ curTokenIs(p, "EOF")
        /\ LET stmts == Top(p).kids
           IN p' = IF Mode = "REPLMode"
                      /\ (stmts = <<>> \/ stmts[Len(stmts)] = NilNode)
                   THEN Panic(q0) ELSE [q0 EXCEPT !.outcome = "parsed"]

ParseProgramNext ==
  /\ Doing("moreProgram")
  /\ p' = IF p.err # "none"
          THEN [p EXCEPT !.outcome = "failed", !.todo = <<>>, !.val = <<>>]
          ELSE Then(nextToken(AddKid(q0)), <<Do("program", 0, "")>>)

StatementTokens == {"RETURN", "DEF", "WHILE", "CLASS", "MODULE", "CONTINUE", "BREAK"}

parseStatement ==
  /\ Doing("statement")
  /\ LET t == curToken(p).t
     IN \/ /\ t \in {"CONTINUE", "BREAK"}
           /\ p' = Push(q0, Leaf(t, ""))
        \/ /\ t \in StatementTokens \ {"CONTINUE", "BREAK"}
           /\ p' = Then(q0, <<Do(t, 0, "")>>)
        \/ /\ t \notin StatementTokens
           /\ p' = Then(q0, <<Expression(IF t \in {"IDENT", "INSTANCE_VAR"}
                                         THEN Lowest ELSE Normal),
                              Do("mark", 0, "")>>)

\* A MultiVariableExpression has no BaseNode to mark.
markExpression ==
  /\ Doing("mark")
  /\ p' = IF Top(p).k = "multi" THEN Panic(q0) ELSE q0

parseReturnStatement ==
  /\ Doing("RETURN")
  /\ p' = IF peekTokenAtSameLine(p)
          THEN Then(nextToken(q0), <<Expression(Normal), DoBuild(1, "return", "")>>)
          ELSE Push(q0, Node("return", "", <<Leaf("NIL", "")>>))

\* The last step of many functions: the n nodes on top become one.
build ==
  /\ Doing("build")
  /\ p' = Build(q0, work.n, work.s, work.x)

parseWhileStatement ==
  /\ Doing("WHILE")
  /\ p' = Then(State(AcceptBlock(nextToken(q0), FALSE), "call"),
               <<Expression(Normal), Do("whileBody", 0, p.fsm)>>)

parseWhileBody ==
  /\ Doing("whileBody")
  /\ p' = Then(Expect(AcceptBlock(State(q0, work.s), TRUE), "{"),
               <<Do("block", 0, "}"), DoBuild(2, "while", "")>>)

parseModuleStatement ==
  /\ Doing("MODULE")
  /\ LET q == Push(nextToken(q0), Leaf("CONSTANT", peekToken(p).v))
     IN p' = IF peekTokenIs(p, "CONSTANT")
             THEN Then(Expect(q, "{"),
                       <<Do("block", 0, "}"), DoBuild(2, "module", "")>>)
             ELSE Push(peekError(q0, "CONSTANT"), NilStmt)

parseClassStatement ==
  /\ Doing("CLASS")
  /\ LET q == Push(nextToken(q0), Leaf("CONSTANT", peekToken(p).v))
     IN p' = IF ~peekTokenIs(p, "CONSTANT")
             THEN Push(peekError(q0, "CONSTANT"), NilStmt)
             ELSE IF peekTokenIs(q, "<")
             THEN Then(nextToken(nextToken(q)),
                       <<Expression(Normal), Do("superclass", 0, "")>>)
             ELSE Then(Expect(q, "{"),
                       <<Do("block", 0, "}"), DoBuild(2, "class", "")>>)

parseSuperClass ==
  /\ Doing("superclass")
  /\ LET super == Top(p)
     IN p' = IF super.k = "infix" /\ super.kids[2].k # "CONSTANT"
             THEN Panic(q0)
             ELSE Then(Expect(q0, "{"),
                       <<Do("block", 0, "}"), DoBuild(3, "class", "")>>)

-----------------------------------------------------------------------------
(* Blocks: a list of statements up to one of the end tokens.               *)

EndTokens(s) == IF s = "case" THEN {"CASE", "DEFAULT", "}"} ELSE {"}"}

parseBlockStatement ==
  /\ Doing("block")
  /\ LET q == nextToken(AcceptBlock(q0, TRUE))
         body == Do("statements", 0, work.s)
     IN p' = IF curTokenIs(p, "}")
             THEN Push(Error(AcceptBlock(q0, TRUE), "Syntax"), Leaf("block", ""))
             ELSE Then(Push(IF curTokenIs(q, ";") THEN nextToken(q) ELSE q,
                            Leaf("block", "")),
                       <<body>>)

parseBlockStatements ==
  /\ Doing("statements")
  /\ p' = IF curToken(p).t \in EndTokens(work.s) THEN q0
          ELSE IF curTokenIs(p, "EOF") THEN Error(q0, "UnexpectedEOF")
          ELSE Then(q0, <<Do("statement", 0, ""), Do("moreStatements", 0, work.s)>>)

parseBlockNext ==
  /\ Doing("moreStatements")
  /\ p' = IF p.err # "none" THEN Drop(q0)
          ELSE Then(nextToken(AddKid(q0)), <<Do("statements", 0, work.s)>>)

\* KeepLastValue marks the last expression of the block.
KeepLastValue ==
  /\ Doing("keep")
  /\ LET kids == Top(p).kids
     IN p' = IF kids # <<>> /\ kids[Len(kids)] = NilNode THEN Panic(q0) ELSE q0

Body(s) == <<Do("block", 0, s), Do("keep", 0, "")>>

-----------------------------------------------------------------------------
(* Method definitions.                                                     *)

InvalidParams == {"INSTANCE_VAR", "CONSTANT"}

parseDefMethodStatement ==
  /\ Doing("DEF")
  /\ LET q == nextToken(q0)
         receiver == curToken(q)
         scoped == peekTokenIs(q, ".")
         named == IF scoped THEN nextToken(nextToken(q)) ELSE q
         setter == peekTokenIs(named, "=")
         r == Push(IF setter THEN nextToken(named) ELSE named,
                   Node(IF setter THEN "def=" ELSE "def", curToken(named).v,
                        IF scoped THEN <<Leaf(receiver.t, receiver.v)>> ELSE <<>>))
         s == Push(IF peekTokenIs(r, "IDENT") /\ peekTokenAtSameLine(r)
                   THEN Error(r, "MethodDefinition") ELSE r, Leaf("params", ""))
     IN \/ /\ ~curTokenIs(q, "IDENT")
           /\ ~scoped \/ receiver.t \notin InvalidParams \cup {"SELF"}
           /\ p' = Push(Error(q, "MethodDefinition"), NilStmt)
        \/ /\ \/ curTokenIs(q, "IDENT")
              \/ (scoped /\ receiver.t \in InvalidParams \cup {"SELF"})
           /\ p' = IF scoped /\ ~curTokenIs(named, "IDENT")
                   THEN Push(peekError(nextToken(q), "IDENT"), NilStmt)
                   ELSE IF ~(peekTokenIs(s, "(") /\ peekTokenAtSameLine(s))
                   THEN Then(s, <<Do("defBody", 0, "")>>)
                   ELSE IF peekTokenIs(nextToken(s), ")")
                   THEN Then(nextToken(s), <<Do("defClose", 0, "")>>)
                   ELSE Then(nextToken(State(nextToken(s), "param")),
                             <<Do("parameter", 1, ""), Do("defClose", 0, "")>>)

\* Parameter number n.  A constant or an instance variable ends the list,
\* with fsm left as it is.
parseParameter ==
  /\ Doing("parameter")
  /\ p' = IF curToken(p).t \in InvalidParams THEN Error(q0, "MethodDefinition")
          ELSE IF work.n > 1 /\ curTokenIs(p, "*") /\ ~peekTokenIs(p, "IDENT")
          THEN Then(peekError(q0, "IDENT"), <<Do("checkParameters", 0, "")>>)
          ELSE Then(q0, <<Expression(Normal), Do("moreParameters", work.n, "")>>)

parseMoreParameters ==
  /\ Doing("moreParameters")
  /\ p' = LET q == AddKid(q0)
          IN IF peekTokenIs(p, ",")
             THEN Then(nextToken(nextToken(q)), <<Do("parameter", work.n + 1, "")>>)
             ELSE Then(q, <<Do("checkParameters", 0, "")>>)

\* Where a parameter belongs; -1 for what is not one.
Rank(param) ==
  IF param.k = "IDENT" THEN 0
  ELSE IF param.k = "assign" THEN 1
  ELSE IF param.k = "pair" THEN Len(param.kids) + 1
  ELSE IF param.k = "prefix" THEN 4 ELSE -1

Misplaced(params, j) ==
  \E i \in 1..j-1 : /\ Rank(params[j]) >= 0
                    /\ \/ Rank(params[i]) > Rank(params[j])
                       \/ Rank(params[i]) = 4 /\ Rank(params[j]) = 4

\* getArgName follows a nil pointer, or takes a key to be an identifier.
Nameless(param) ==
  param = NilNode \/ (param.k = "pair" /\ param.kids[1].k # "IDENT")
\* An index goes by the name that is called, which is not the literal.
getArgName(param) ==
  IF param.k \in {"assign", "pair"} THEN param.kids[1].x ELSE param.x

paramDuplicated(params, j) ==
  /\ \A i \in 1..j : ~Nameless(params[i])
  /\ \E i \in 1..j-1 : getArgName(params[i]) = getArgName(params[j])

\* Names are compared from the second parameter on.
checkMethodParameters ==
  /\ Doing("checkParameters")
  /\ LET params == Top(p).kids
         bad == {j \in 1..Len(params) :
                   \/ Misplaced(params, j)
                   \/ paramDuplicated(params, j)
                   \/ j > 1 /\ \E i \in 1..j : Nameless(params[i])}
         q == State(q0, "normal")
     IN p' = IF p.err # "none" \/ bad = {} THEN q
             ELSE LET j == CHOOSE j \in bad : \A i \in bad : j <= i
                  IN IF Misplaced(params, j) \/ paramDuplicated(params, j)
                     THEN Error(q, "Argument") ELSE Panic(q0)

\* Whatever is before the parenthesis, a constant gives nil and no error.
parseDefClose ==
  /\ Doing("defClose")
  /\ LET failed(q) == Push(Drop(Drop(q)), NilStmt)
     IN p' = IF curToken(p).t \in InvalidParams THEN failed(q0)
             ELSE IF peekTokenIs(p, ")")
             THEN Then(nextToken(q0), <<Do("defBody", 0, "")>>)
             ELSE failed(peekError(q0, ")"))

parseDefBody ==
  /\ Doing("defBody")
  /\ p' = Then(Expect(AddKid(q0), "{"), Body("}") \o <<Do("adopt", 0, "")>>)

\* The last step of many functions: the node on top is a child of the next.
adopt == Doing("adopt") /\ p' = AddKid(q0)

-----------------------------------------------------------------------------
(* Expressions.                                                            *)

Leaves == {"IDENT", "INSTANCE_VAR", "INT", "STRING", "TRUE", "FALSE", "NIL",
           "SELF", "SUPER", "BLOCK", "HASBLOCK"}
PrefixOperators == {"-", "+", "*", "!", "&", "->", "<-"}
prefixParseFns ==
  [t \in Leaves \cup PrefixOperators
          \cup {"CONSTANT", "(", "IF", "SWITCH", "[", "{", ";", "YIELD"} |->
     CASE t \in Leaves          -> "leaf"
       [] t \in PrefixOperators -> "prefix"
       [] t = "CONSTANT" -> "constant" [] t = "("     -> "group"
       [] t = "IF"       -> "if"       [] t = "SWITCH" -> "switch"
       [] t = "["        -> "array"    [] t = "{"     -> "hash"
       [] t = ";"        -> "semicolon" [] t = "YIELD" -> "yield"]

InfixOperators == {"+", "-", "%", "/", "**", "==", "!=", "===", "!==", "=~", "<",
                   "<=", ">", ">=", "&&", "||", "::", "*", "->", "<-", "|>"}
Assignments == {"=", "+=", "-=", "||="}
infixParseFns ==
  [t \in InfixOperators \cup Assignments \cup KeywordOperators
          \cup {"..", "...", ",", ".", "(", "[", ":"} |->
     CASE t \in InfixOperators   -> "infix"
       [] t \in Assignments      -> "assign"
       [] t \in KeywordOperators -> "operatorCall"
       [] t \in {"..", "..."}    -> "range"
       [] t = "," -> "multi" [] t = "." -> "dotCall" [] t = "(" -> "call"
       [] t = "[" -> "index" [] t = ":" -> "pair"]

\* A name may be followed by arguments without parentheses here.
Plain(q) == q.fsm \in {"normal", "assignment"}
IsBareCall(q) ==
  /\ curTokenIs(q, "IDENT") /\ Plain(q) /\ peekArgument(q)
  /\ peekTokenIs(q, "{") => q.acceptBlock

parseExpression ==
  /\ Doing("expression")
  /\ LET t == curToken(p).t
     IN p' = IF t \notin DOMAIN prefixParseFns
             THEN Push(noPrefixParseFnError(q0), NilNode)
             ELSE IF t = "CONSTANT" /\ Plain(p) /\ peekTokenIs(p, "(")
             THEN Push(Error(q0, "UnexpectedToken"), NilNode)
             ELSE IF IsBareCall(p)
             THEN Then(Push(q0, Leaf("IDENT", curToken(p).v)),
                       <<Do("call", 0, ""), Do("afterBareCall", work.n, "")>>)
             ELSE Then(q0, <<Do(prefixParseFns[t], 0, ""), Do("infixes", work.n, "")>>)

parseAfterBareCall ==
  /\ Doing("afterBareCall")
  /\ p' = IF peekToken(p).t \in KeywordOperators /\ peekTokenAtSameLine(p)
          THEN Then(q0, <<Do("infixes", work.n, "")>>) ELSE q0

\* The next token continues an expression that binds as tightly as prec.
Continues(q, prec) ==
  /\ ~peekTokenIs(q, ";")
  /\ \/ prec < precedenceOf(peekToken(q).t)
     \/ q.fsm = "assignment" /\ peekTokenIs(q, "=")
     \/ peekToken(q).t \in KeywordOperators
  /\ peekTokenAtSameLine(q)

\* "1.5" is read as three tokens.
IsFloat(q) ==
  /\ curTokenIs(q, "INT") /\ peekTokenIs(q, ".")
  /\ peekTokenIs(nextToken(q), "INT")
  /\ curToken(q).line = peekToken(nextToken(q)).line

\* Mutant: what has no infix function is looked at again.
StuckInfixes ==
  /\ Doing("infixes")
  /\ LET t == peekToken(p).t
     IN \/ /\ ~Continues(p, work.n)
           /\ p' = IF t = ";" THEN nextToken(q0) ELSE q0
        \/ /\ Continues(p, work.n)
           /\ p' = IF t \notin DOMAIN infixParseFns THEN p
                   ELSE Then(nextToken(q0),
                             <<Do(IF IsFloat(p) THEN "float" ELSE infixParseFns[t], 0, ""),
                               Do("infixes", work.n, "")>>)

parseInfixes ==
  /\ Doing("infixes")
  /\ LET t == peekToken(p).t
     IN \/ /\ ~Continues(p, work.n)
           /\ p' = IF t = ";" THEN nextToken(q0) ELSE q0
        \/ /\ Continues(p, work.n)
           /\ p' = IF t \notin DOMAIN infixParseFns THEN q0
                   ELSE Then(nextToken(q0),
                             <<Do(IF IsFloat(p) THEN "float" ELSE infixParseFns[t], 0, ""),
                               Do("infixes", work.n, "")>>)

parseFloatLiteral ==
  /\ Doing("float")
  /\ LET whole == Top(p)
         isInteger == \/ whole.k = "INT"
                      \/ /\ whole.k = "prefix" /\ whole.x \in {"-", "+"}
                         /\ whole.kids[1].k = "INT"
         digits == IF whole.k = "INT" THEN whole.x ELSE whole.x \o whole.kids[1].x
         q == nextToken(q0)
     IN p' = IF isInteger THEN Build(q, 1, "float", digits \o "." \o curToken(q).v)
             ELSE IF whole.nils > 0 THEN Panic(q)
             ELSE Push(Error(Drop(q), "Syntax"), NilNode)

\* strconv.ParseInt: digits after a 0 are octal, and there are 63 bits.
Digit(v, i) == CHOOSE d \in 0..9 : SubSeq("0123456789", d + 1, d + 1) = SubSeq(v, i, i)
AtMost(v, w) ==
  \A i \in 1..Len(w) :
    (\A j \in 1..i-1 : Digit(v, j) = Digit(w, j)) => Digit(v, i) <= Digit(w, i)
ParsesAsInt(v) ==
  IF Digit(v, 1) = 0
  THEN \A i \in 1..Len(v) : Digit(v, i) < 8 /\ (i <= Len(v) - 21 => Digit(v, i) = 0)
  ELSE Len(v) < 19 \/ (Len(v) = 19 /\ AtMost(v, "9223372036854775807"))

\* Identifiers, instance variables, literals, self, super and block!.
parseLeaf ==
  /\ Doing("leaf")
  /\ LET leaf == curToken(p)
     IN p' = IF leaf.t = "INT" /\ ~ParsesAsInt(leaf.v)
             THEN Push(Error(q0, "Syntax"), NilNode) ELSE Push(q0, Leaf(leaf.t, leaf.v))

parseSemicolon == Doing("semicolon") /\ p' = Push(q0, NilNode)

parseConstant ==
  /\ Doing("constant")
  /\ LET q == Push(q0, Leaf("CONSTANT", curToken(p).v))
     IN p' = IF peekTokenIs(p, "::")
             THEN Then(nextToken(q), <<Do("infix", 0, "")>>) ELSE q

parsePrefixExpression ==
  /\ Doing("prefix")
  /\ p' = Then(nextToken(q0),
               <<Expression(IF curTokenIs(p, "!") THEN BangPrefix ELSE MinusPrefix),
                 DoBuild(1, "prefix", curToken(p).v)>>)

parseGroupedExpression ==
  /\ Doing("group")
  /\ p' = Then(State(nextToken(q0), "normal"),
               <<Expression(Normal), Do("groupEnd", 0, p.fsm)>>)

parseGroupEnd ==
  /\ Doing("groupEnd")
  /\ LET q == State(q0, work.s)
     IN p' = IF peekTokenIs(p, ")") THEN nextToken(q)
             ELSE Push(peekError(Drop(q), ")"), NilNode)

\* The operand on the right of && and || extends as far as it can.  After * even
\* a string is refused that reads *.
parseInfixExpression ==
  /\ Doing("infix")
  /\ LET op == curToken(p)
         prec == IF op.t \in {"&&", "||"} THEN Normal ELSE precedenceOf(op.t)
     IN p' = IF op.v = "*" /\ peekToken(p).v = "*"
             THEN Push(Error(Drop(q0), "UnexpectedToken"), NilNode)
             ELSE Then(nextToken(q0), <<Expression(prec), DoBuild(2, "infix", op.v)>>)

parseRangeExpression ==
  /\ Doing("range")
  /\ p' = Then(nextToken(q0), <<Expression(precedenceOf(curToken(p).t)),
                                DoBuild(2, "range", curToken(p).v)>>)

\* A keyword argument or parameter.
parseArgumentPairExpression ==
  /\ Doing("pair")
  /\ LET value == Then(nextToken(q0), <<Expression(Normal), DoBuild(2, "pair", "")>>)
     IN \/ /\ p.fsm = "param"
           /\ p' = IF peekToken(p).t \in {",", ")"} THEN Build(q0, 1, "pair", "")
                   ELSE value
        \/ /\ p.fsm = "call"
           /\ p' = value
        \/ /\ p.fsm \in {"normal", "assignment"}
           /\ p' = Push(Error(Drop(q0), "UnexpectedToken"), NilNode)

\* a, b: the variables of an assignment.
parseMultiVariables ==
  /\ Doing("multi")
  /\ p' = LET q == nextToken(q0)
          IN Then(IF Top(p).k \in Variables THEN Build(q, 1, "multi", "")
                  ELSE Push(noPrefixParseFnError(Drop(q)), Leaf("multi", "")),
                  <<Expression(CallPrec), Do("moreVariables", 0, "")>>)

parseMoreVariables ==
  /\ Doing("moreVariables")
  /\ LET q == IF Top(p).k \in Variables THEN AddKid(q0)
              ELSE noPrefixParseFnError(Drop(q0))
     IN p' = IF peekTokenIs(p, ",")
             THEN Then(nextToken(nextToken(q)),
                       <<Expression(CallPrec), Do("moreVariables", 0, "")>>)
             ELSE q

-----------------------------------------------------------------------------
(* Assignments.                                                            *)

CompoundOperators ==
  [op \in Assignments \ {"="} |->
     CASE op = "+=" -> "+" [] op = "-=" -> "-" [] op = "||=" -> "||"]

\* a op= b is a = a op b.
expandAssignmentValue(q, target) ==
  LET op == curToken(q).t
  IN IF op = "=" THEN Then(nextToken(q), <<Expression(AssignPrec)>>)
     ELSE Then(nextToken(Push(q, target)),
               <<Expression(Lowest), DoBuild(2, "infix", CompoundOperators[op])>>)

\* The variables become the first children of the assignment, the value its
\* last.
parseAssignExpression ==
  /\ Doing("assign")
  /\ LET target == Top(p)
         q == State(q0, "assignment")
         end == <<Do("assignEnd", 0, p.fsm)>>
     IN \/ /\ target.k \in Variables
           /\ p' = expandAssignmentValue(Then(q, end), target)
        \/ /\ target.k = "multi"
           /\ p' = Then(nextToken(q), <<Expression(AssignPrec)>> \o end)
        \/ /\ target.k \in {"call", "call="}
           /\ p' = expandAssignmentValue(Then(q, <<Do("assignCall", 0, "")>>), target)
        \/ /\ target.k \notin Variables \cup {"multi", "call", "call="}
           /\ p' = IF target.nils > 0 THEN Panic(q)
                   ELSE Then(nextToken(Error(q, "InvalidAssignment")),
                             <<Expression(AssignPrec)>> \o end)

parseAssignEnd ==
  /\ Doing("assignEnd")
  /\ p' = LET q == State(q0, work.s)
          IN IF p.val[Len(p.val) - 1].k = "multi"
             THEN Rename(AddKid(q), "assign") ELSE Build(q, 2, "assign", "")

\* A call is assigned to by calling the method of that name with "=", and an
\* index by calling []= with the first argument.  fsm stays as it is.
parseAssignCall ==
  /\ Doing("assignCall")
  /\ LET target == p.val[Len(p.val) - 1]
         kids == target.kids
         args == IF kids[Len(kids)].k = "do" THEN SubSeq(kids, 1, Len(kids) - 1) ELSE kids
         kept == IF target.k = "call" /\ target.x = "[]"
                 THEN SubSeq(args, 1, 2) ELSE args
     IN p' = IF target.k = "call" /\ target.x = "[]" /\ Len(args) < 2
             THEN Panic(q0)
             ELSE Push(Drop(Drop(q0)), Node("call=", target.x, Append(kept, Top(p))))

-----------------------------------------------------------------------------
(* Calls.  The receiver is the first child, a block the last.              *)

\* Arguments in parentheses, from the token before them; or without.
ParenthesizedArguments(q) ==
  IF peekTokenIs(q, ")") THEN nextToken(q)
  ELSE Then(nextToken(q), <<Do("arguments", 0, ""), Do("close", 0, ")")>>)

BareArguments(q) ==
  IF peekArgument(q) /\ ~peekBlock(q)
  THEN Then(nextToken(q), <<Do("arguments", 0, "")>>) ELSE q

Call(q, name, receiver) == Push(q, Node("call", name, <<receiver>>))

\* foo(...), and foo ... where the name is the current token.
parseCallExpressionWithoutReceiver ==
  /\ Doing("call")
  /\ LET q == Then(State(Call(Drop(q0), Top(p).x, SelfNode), "call"),
                   <<Do("callEnd", 0, p.fsm)>>)
     IN p' = IF Top(p).k # "IDENT" THEN Panic(q0)
             ELSE IF curTokenIs(p, "(") THEN ParenthesizedArguments(q)
             ELSE BareArguments(q)

\* receiver message ..., with any keyword operator as the message.
parseOperatorMethodCall ==
  /\ Doing("operatorCall")
  /\ LET q == Then(State(Call(Drop(q0), curToken(p).v, Top(p)), "call"),
                   <<Do("callEnd", 0, p.fsm)>>)
     IN p' = IF peekTokenIs(p, "(") THEN ParenthesizedArguments(nextToken(q))
             ELSE BareArguments(q)

\* receiver.message ...  Where the name is missing, fsm stays as it is.
parseCallExpressionWithReceiver ==
  /\ Doing("dotCall")
  /\ LET q == Then(State(Call(nextToken(Drop(q0)), peekToken(p).v, Top(p)), "call"),
                   <<Do("callEnd", 0, p.fsm)>>)
     IN p' = IF ~peekTokenIs(p, "IDENT")
             THEN Push(peekError(State(Drop(q0), "call"), "IDENT"), NilNode)
             ELSE IF ~peekTokenAtSameLine(q) THEN q
             ELSE IF peekTokenIs(q, "(") THEN ParenthesizedArguments(nextToken(q))
             ELSE IF peekTokenIs(q, "=")
             THEN Then(nextToken(nextToken(Rename(q, "call="))),
                       <<Expression(Normal), Do("adopt", 0, "")>>)
             ELSE IF peekTokenIs(q, "{") THEN q ELSE BareArguments(q)

\* Mutant: the state from before the call is not restored.
ForgetfulCallEnd ==
  /\ Doing("callEnd")
  /\ p' = IF peekBlock(p) THEN Then(nextToken(q0), <<Do("blockArgument", 0, "")>>)
          ELSE q0

parseCallEnd ==
  /\ Doing("callEnd")
  /\ LET q == State(q0, work.s)
     IN p' = IF peekBlock(p)
             THEN Then(nextToken(q), <<Do("blockArgument", 0, "")>>) ELSE q

parseCallArguments ==
  /\ Doing("arguments")
  /\ p' = IF curTokenIs(p, "EOF") THEN q0
          ELSE Then(q0, <<Expression(Normal), Do("element", 0, "")>>)

\* One more of a list of expressions separated by commas.
parseElement ==
  /\ Doing("element")
  /\ p' = IF peekTokenIs(p, ",")
          THEN Then(nextToken(nextToken(AddKid(q0))),
                    <<Expression(Normal), Do("element", 0, "")>>)
          ELSE AddKid(q0)

parseClose == Doing("close") /\ p' = Expect(q0, work.s)

\* The block of a call, whose names are whatever tokens stand there.
parseBlockArgument ==
  /\ Doing("blockArgument")
  /\ p' = LET q == Push(q0, Leaf("do", ""))
              body == Body("}") \o <<Do("adopt", 0, ""), Do("adopt", 0, "")>>
          IN IF peekTokenIs(p, "|")
             THEN Then(nextToken(nextToken(q)), <<Do("blockParameter", 0, "")>> \o body)
             ELSE Then(q, body)

\* Without the second bar the call has no block.
parseBlockParameter ==
  /\ Doing("blockParameter")
  /\ p' = LET q == AddKid(Push(q0, Leaf("IDENT", curToken(p).v)))
          IN IF peekTokenIs(p, ",")
             THEN Then(nextToken(nextToken(q)), <<Do("blockParameter", 0, "")>>)
             ELSE IF peekTokenIs(p, "|") THEN nextToken(q)
             ELSE [peekError(Drop(q), "|") EXCEPT !.todo = SubSeq(@, 5, Len(@))]

parseYieldExpression ==
  /\ Doing("yield")
  /\ LET q == Push(q0, Leaf("yield", "yield"))
     IN p' = IF peekTokenIs(p, "(")
             THEN ParenthesizedArguments(Then(nextToken(q), <<Do("yieldBare", 0, "")>>))
             ELSE Then(q, <<Do("yieldBare", 0, "")>>)

\* Arguments without parentheses replace those in parentheses.
parseYieldBare ==
  /\ Doing("yieldBare")
  /\ p' = IF peekArgument(p)
          THEN Then(nextToken(Push(Drop(q0), Leaf("yield", "yield"))), <<Do("arguments", 0, "")>>)
          ELSE q0

\* a[...]; followed by = it is a call of []=.
parseIndexExpression ==
  /\ Doing("index")
  /\ LET q == nextToken(Call(Drop(q0), "[]", Top(p)))
     IN p' = IF peekTokenIs(p, "]") THEN q
             ELSE Then(q, <<Expression(Normal), Do("element", 0, ""),
                            Do("indexEnd", 0, "")>>)

parseIndexEnd ==
  /\ Doing("indexEnd")
  /\ LET q == nextToken(q0)
     IN p' = IF ~peekTokenIs(p, "]") THEN Push(peekError(Drop(q0), "]"), NilNode)
             ELSE IF peekTokenIs(q, "=")
             THEN Then(nextToken(nextToken(Rename(q, "call="))),
                       <<Expression(Normal), Do("adopt", 0, "")>>)
             ELSE q

-----------------------------------------------------------------------------
(* Arrays and hashes.                                                      *)

parseArrayExpression ==
  /\ Doing("array")
  /\ LET q == nextToken(Push(q0, Leaf("array", "[")))
     IN p' = IF peekTokenIs(p, "]") THEN q
             ELSE Then(q, <<Expression(Normal), Do("element", 0, ""), Do("close", 0, "]")>>)

parseHashExpression ==
  /\ Doing("hash")
  /\ LET q == Push(q0, Leaf("hash", "{"))
     IN p' = IF peekTokenIs(p, "}") THEN nextToken(q)
             ELSE Then(q, <<Do("hashPair", 0, ""), Do("morePairs", 0, "")>>)

parseHashPair ==
  /\ Doing("hashPair")
  /\ LET q == nextToken(q0)
     IN p' = IF curToken(q).t \notin {"CONSTANT", "IDENT", "STRING"}
             THEN Error(q, "Syntax")
             ELSE IF peekTokenIs(q, ":")
             THEN Then(nextToken(nextToken(q)),
                       <<Expression(Normal), Do("entry", 0, curToken(q).v)>>)
             ELSE peekError(q, ":")

\* The last value given for a key is the one that counts.
parseHashEntry ==
  /\ Doing("entry")
  /\ LET entry == Node("entry", work.s, <<Top(p)>>)
         hash == p.val[Len(p.val) - 1]
         given == {i \in 1..Len(hash.kids) : hash.kids[i].x = work.s}
         others == IF given = {} THEN hash.kids
                   ELSE RemoveAt(hash.kids, CHOOSE i \in given : TRUE)
     IN p' = Push(Drop(Drop(q0)), Node("hash", "{", Append(others, entry)))

parseMorePairs ==
  /\ Doing("morePairs")
  /\ p' = IF peekTokenIs(p, ",")
          THEN Then(nextToken(q0), <<Do("hashPair", 0, ""), Do("morePairs", 0, "")>>)
          ELSE Expect(q0, "}")

-----------------------------------------------------------------------------
(* if and switch, which make the same node.  A block does not belong to    *)
(* the last call of a condition.                                           *)

Condition(q) ==
  Then(nextToken(AcceptBlock(q, FALSE)), <<Expression(Normal), Do("consequence", 0, "")>>)

parseIfExpression ==
  /\ Doing("if")
  /\ p' = Condition(Push(q0, Leaf("if", "if")))

parseConditionalExpression ==
  /\ Doing("consequence")
  /\ p' = Then(Expect(q0, "{"),
               Body("}") \o <<DoBuild(2, "conditional", ""), Do("adopt", 0, ""),
                              Do("nextCondition", 0, "")>>)

\* The next token, where it is t after the end of a block.
SkipTo(q, t) == IF curTokenIs(q, "}") /\ peekTokenIs(q, t) THEN nextToken(q) ELSE q

parseConditionalExpressions ==
  /\ Doing("nextCondition")
  /\ LET q == SkipTo(q0, "ELSIF")
         r == SkipTo(q, "ELSE")
     IN p' = IF curTokenIs(q, "ELSIF") THEN Condition(q)
             ELSE IF curTokenIs(r, "ELSE")
             THEN Then(Expect(r, "{"), Body("}") \o <<Do("adopt", 0, "")>>) ELSE r

\* Without a value the cases are compared with true.
parseSwitchExpression ==
  /\ Doing("switch")
  /\ LET q == AcceptBlock(Push(q0, Leaf("if", "switch")), FALSE)
         cases == <<Do("cases", 0, "")>>
     IN p' = IF peekTokenIs(p, "{")
             THEN Then(nextToken(Push(q, Leaf("TRUE", "true"))), cases)
             ELSE Then(nextToken(q), <<Expression(Normal), Do("open", 0, "")>> \o cases)

parseSwitchOpen == Doing("open") /\ p' = Expect(q0, "{")

\* The first case is expected, others are looked for.
parseSwitchConditionals ==
  /\ Doing("cases")
  /\ p' = Then(Expect(AcceptBlock(q0, TRUE), "CASE"), <<Do("case", 0, "")>>)

parseSwitchConditional ==
  /\ Doing("case")
  /\ \/ /\ curTokenIs(p, "CASE")
        /\ p' = Then(nextToken(q0), <<Expression(Normal), Do("caseCondition", 1, "")>>)
     \/ /\ ~curTokenIs(p, "CASE")
        /\ p' = IF curTokenIs(p, "DEFAULT")
                THEN Then(Drop(q0), Body("}") \o <<Do("adopt", 0, "")>>) ELSE Drop(q0)

\* Value number n of a case: the base is below it, and the condition made of
\* the ones before it in between.
parseSwitchCondition ==
  /\ Doing("caseCondition")
  /\ LET base == p.val[Len(p.val) - work.n]
         same == Node("infix", "===", <<base, Top(p)>>)
         q == IF work.n = 1 THEN Push(Drop(q0), same)
              ELSE Build(Push(Drop(q0), same), 2, "infix", "||")
     IN p' = IF peekTokenIs(p, ",")
             THEN Then(nextToken(nextToken(q)), <<Expression(Normal), Do("caseCondition", 2, "")>>)
             ELSE Then(q, Body("case") \o <<DoBuild(2, "conditional", ""),
                                           Do("caseEnd", 0, ""), Do("case", 0, "")>>)

\* The case is a child of the switch, which is below the base.
parseSwitchCaseEnd ==
  /\ Doing("caseEnd")
  /\ LET base == p.val[Len(p.val) - 1]
     IN p' = Push(AddKid(Push(Drop(Drop(q0)), Top(p))), base)

-----------------------------------------------------------------------------

ParseStep ==
  \/ ParseProgram \/ ParseProgramNext \/ parseStatement \/ markExpression \/ build
  \/ parseReturnStatement \/ parseWhileStatement \/ parseWhileBody
  \/ parseModuleStatement \/ parseClassStatement \/ parseSuperClass
  \/ parseBlockStatement \/ parseBlockStatements \/ parseBlockNext \/ KeepLastValue
  \/ parseDefMethodStatement \/ parseParameter \/ parseMoreParameters
  \/ checkMethodParameters \/ parseDefClose \/ parseDefBody \/ adopt
  \/ parseExpression \/ parseAfterBareCall \/ parseInfixes \/ parseFloatLiteral
  \/ parseLeaf \/ parseSemicolon \/ parseConstant \/ parsePrefixExpression
  \/ parseGroupedExpression \/ parseGroupEnd \/ parseInfixExpression
  \/ parseRangeExpression \/ parseArgumentPairExpression
  \/ parseMultiVariables \/ parseMoreVariables
  \/ parseAssignExpression \/ parseAssignEnd \/ parseAssignCall
  \/ parseCallExpressionWithoutReceiver \/ parseOperatorMethodCall
  \/ parseCallExpressionWithReceiver \/ parseCallEnd \/ parseCallArguments
  \/ parseElement \/ parseClose \/ parseBlockArgument \/ parseBlockParameter
  \/ parseYieldExpression \/ parseYieldBare \/ parseIndexExpression \/ parseIndexEnd
  \/ parseArrayExpression \/ parseHashExpression \/ parseHashPair
  \/ parseHashEntry \/ parseMorePairs
  \/ parseIfExpression \/ parseConditionalExpression \/ parseConditionalExpressions
  \/ parseSwitchExpression \/ parseSwitchOpen \/ parseSwitchConditionals
  \/ parseSwitchConditional \/ parseSwitchCondition \/ parseSwitchCaseEnd

=============================================================================
