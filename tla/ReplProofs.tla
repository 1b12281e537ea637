----------------------------- MODULE ReplProofs -----------------------------
(***************************************************************************)
(* Of the REPL, for anything that is typed:                                 *)
(* it implements the prompt of module Prompt, and the lines it executes are *)
(* in the order they were typed, each at most once;                         *)
(* every function of the parser finds on the stack the nodes it takes, so   *)
(* that what the parser accepts is a tree;                                  *)
(* that tree has no nil but for semicolons and method definitions;          *)
(* the parser comes back to the state it was in, but for four steps;        *)
(* the locals of the commands executed are found by those that follow;      *)
(* and the variables of the loop have their types.                          *)
(***************************************************************************)
EXTENDS Repl, FiniteSetTheorems, TLAPS

\* The lines collected are a sequence, and one that is not empty while they
\* are read as a program or executed.
Collected ==
  /\ typed \in Nat
  /\ cmds \in Seq(Nat)
  /\ ran \in Seq(Nat)
  /\ Answering => cmds # <<>>

\* What the shell is made of stays as it is.
Quiet == UNCHANGED <<typed, cmds, ran>>

-----------------------------------------------------------------------------

\* Collected is preserved by each step, and each step is one of the shell's.
LEMMA StepCollects ==
  ASSUME Collected, [Next]_vars
  PROVE  Collected' /\ [Shell!Next]_(Shell!promptVars)
<1> USE DEF Collected, Answering, Shell!promptVars, Shell!Next
<1>1. CASE ReadNothing \/ ReadReset \/ ReadInterrupt \/ ReadEOF
  <2>1. /\ typed' = typed + 1 /\ ran' = ran
        /\ cmds' \in {cmds, <<>>}
        /\ phase' \in {"read", "closed"}
    BY <1>1 DEF ReadNothing, ReadReset, ReadInterrupt, ReadEOF, Reading1, eraseBuffer, vmVars
  <2>2. CASE cmds' = cmds
    BY <2>1, <2>2 DEF Shell!PassOver
  <2>3. CASE cmds' = <<>>
    BY <2>1, <2>3 DEF Shell!Drop
  <2> QED BY <2>1, <2>2, <2>3
<1>2. CASE ReadLine
  <2>1. /\ typed' = typed + 1 /\ ran' = ran
        /\ cmds' = Append(cmds, typed + 1)
    BY <1>2 DEF ReadLine, vmVars
  <2>2. cmds' \in Seq(Nat) /\ cmds' # <<>>
    BY <2>1
  <2> QED BY <2>1, <2>2 DEF Shell!Hold
<1>3. CASE Lex \/ Parse
  <2>1. Quiet /\ (Answering' => Answering)
    BY <1>3 DEF Lex, Parse, replVars, vmVars, Quiet
  <2> QED BY <2>1 DEF Quiet
<1>4. CASE WaitForMore \/ StillOpen \/ ParseAgain \/ Accept \/ AcceptAgain \/ Crash
  <2>1. Quiet /\ (Answering' => Answering)
    BY <1>4 DEF WaitForMore, StillOpen, ParseAgain, ParseLines, Accept, AcceptAgain, Crash,
                First, Parsed, judged, vmVars, Quiet
  <2> QED BY <2>1 DEF Quiet
<1>5. CASE RejectToken \/ Reject
  <2>1. typed' = typed /\ ran' = ran /\ cmds' = <<>> /\ phase' = "read"
    BY <1>5 DEF RejectToken, Reject, eraseBuffer, judged, vmVars
  <2> QED BY <2>1 DEF Shell!Drop
<1>6. CASE Exec \/ ExecRaise
  <2>1. /\ phase = "exec" /\ phase' = "read"
        /\ ran' = ran \o cmds /\ cmds' = <<>> /\ typed' = typed
    BY <1>6 DEF Exec, ExecRaise, Executed
  <2>2. ran' \in Seq(Nat)
    BY <2>1
  <2> QED BY <2>1, <2>2 DEF Shell!Run
<1>7. CASE UNCHANGED vars
  BY <1>7 DEF vars, replVars
<1> QED
  BY <1>1, <1>2, <1>3, <1>4, <1>5, <1>6, <1>7 DEF Next, Read, Answer

\* Nothing is typed, held or executed at first.
LEMMA InitCollects ==
  ASSUME Init
  PROVE  Collected /\ Shell!Init
<1>1. typed = 0 /\ cmds = <<>> /\ ran = <<>> /\ phase = "read"
  BY Zenon DEF Init
<1>2. Shell!Init
  BY <1>1 DEF Shell!Init
<1>3. Collected
  BY <1>1 DEF Collected, Answering
<1> QED BY <1>2, <1>3

\* The REPL implements the prompt: lines are held, passed over, dropped
\* together, or executed together in the order they were typed.
THEOREM ReplImplementsPrompt == Spec => ImplementsPrompt
<1>1. Init => Collected /\ Shell!Init
  BY InitCollects
<1>2. Collected /\ [Next]_vars => Collected' /\ [Shell!Next]_(Shell!promptVars)
  BY StepCollects
<1> QED BY <1>1, <1>2, PTL DEF Spec, ImplementsPrompt, Shell!Spec

-----------------------------------------------------------------------------
(* The order of the lines.                                                 *)

\* A sequence of line numbers that grows, with no number above n.
Rising(s, n) ==
  /\ \A i \in 1..Len(s) : s[i] \in 1..n
  /\ \A i, j \in 1..Len(s) : i < j => s[i] < s[j]

\* What was executed is in order, with what is held or without it.
LEMMA PrefixRises ==
  ASSUME NEW s \in Seq(Nat), NEW t \in Seq(Nat), NEW n \in Nat, Rising(s \o t, n)
  PROVE  Rising(s, n)
<1>1. \A i \in 1..Len(s) : i \in 1..Len(s \o t) /\ (s \o t)[i] = s[i]
  OBVIOUS
<1> QED BY <1>1 DEF Rising

\* One more at the end, the greatest so far, and it still rises.
LEMMA AppendRises ==
  ASSUME NEW s \in Seq(Nat), NEW n \in Nat, Rising(s, n)
  PROVE  Rising(Append(s, n + 1), n + 1)
<1> DEFINE r == Append(s, n + 1)
<1>1. /\ r \in Seq(Nat) /\ Len(r) = Len(s) + 1
      /\ r[Len(s) + 1] = n + 1
      /\ \A i \in 1..Len(s) : r[i] = s[i] /\ s[i] \in 1..n
  BY DEF Rising
<1>2. \A i \in 1..Len(r) : i \in 1..Len(s) \/ i = Len(s) + 1
  BY <1>1
<1> HIDE DEF r
<1>3. ASSUME NEW i \in 1..Len(r)
      PROVE  r[i] \in 1..n+1
  <2>1. CASE i \in 1..Len(s)
    <3>1. r[i] \in 1..n
      BY <1>1, <2>1
    <3>2. \A k \in 1..n : k \in 1..n+1
      OBVIOUS
    <3> QED BY <3>1, <3>2
  <2>2. CASE i = Len(s) + 1
    <3>1. r[i] = n + 1 /\ n + 1 \in 1..n+1
      BY <1>1, <2>2
    <3> QED BY <3>1
  <2> QED BY <1>2, <2>1, <2>2
<1>4. ASSUME NEW i \in 1..Len(r), NEW j \in 1..Len(r), i < j
      PROVE  r[i] < r[j]
  <2>1. i \in 1..Len(s)
    BY <1>1, <1>4
  <2>2. CASE j \in 1..Len(s)
    BY <1>1, <1>4, <2>1, <2>2 DEF Rising
  <2>3. CASE j = Len(s) + 1
    <3>1. r[j] = n + 1
      BY <1>1, <2>3
    <3>2. r[i] \in 1..n
      BY <1>1, <2>1
    <3> QED BY <3>1, <3>2
  <2> QED BY <1>2, <2>2, <2>3
<1>5. Rising(r, n + 1)
  BY <1>3, <1>4 DEF Rising
<1> QED BY <1>5 DEF r

\* Each step of the shell keeps the lines in order.
LEMMA StepKeepsOrder ==
  ASSUME Collected, Collected', Rising(ran \o cmds, typed),
         [Shell!Next]_(Shell!promptVars)
  PROVE  Rising(ran \o cmds, typed)'
<1> USE DEF Collected
<1>1. CASE Shell!Hold
  <2>1. ran' \o cmds' = Append(ran \o cmds, typed + 1)
    BY <1>1 DEF Shell!Hold
  <2>2. ran \o cmds \in Seq(Nat)
    OBVIOUS
  <2>3. Rising(Append(ran \o cmds, typed + 1), typed + 1)
    BY <2>2, AppendRises
  <2> QED BY <1>1, <2>1, <2>3 DEF Shell!Hold
<1>2. CASE Shell!PassOver
  <2>1. ran' = ran /\ cmds' = cmds /\ typed' = typed + 1
    BY <1>2 DEF Shell!PassOver
  <2>2. \A k \in 1..typed : k \in 1..typed + 1
    OBVIOUS
  <2>3. Rising(ran \o cmds, typed + 1)
    BY <2>2 DEF Rising
  <2> QED BY <2>1, <2>3
<1>3. CASE Shell!Drop
  <2>1. Rising(ran, typed)
    BY PrefixRises
  <2>2. ran' \o cmds' = ran
    BY <1>3 DEF Shell!Drop
  <2>3. typed' \in {typed, typed + 1}
    BY <1>3 DEF Shell!Drop
  <2>4. Rising(ran, typed')
    <3>1. \A k \in 1..typed : k \in 1..typed'
      BY <2>3
    <3> QED BY <2>1, <3>1 DEF Rising
  <2> QED BY <2>2, <2>4
<1>4. CASE Shell!Run
  <2>1. ran' \o cmds' = ran \o cmds
    BY <1>4 DEF Shell!Run
  <2> QED BY <1>4, <2>1 DEF Shell!Run, Rising
<1>5. CASE UNCHANGED Shell!promptVars
  BY <1>5 DEF Shell!promptVars, Rising
<1> QED BY <1>1, <1>2, <1>3, <1>4, <1>5 DEF Shell!Next

\* No line is executed twice, or before one that was typed earlier, or after
\* it was dropped.
THEOREM ReplLinesInOrder == Spec => []LinesInOrder
<1> DEFINE Order == Rising(ran \o cmds, typed)
<1>1. Init => Collected /\ Order
  <2> SUFFICES ASSUME Init PROVE Order
    BY InitCollects
  <2>1. ran = <<>> /\ cmds = <<>>
    BY Zenon DEF Init
  <2>2. ran \o cmds = <<>>
    BY <2>1
  <2>3. Len(<<>>) = 0
    OBVIOUS
  <2> QED BY <2>2, <2>3 DEF Rising
<1>2. Collected /\ Order /\ [Next]_vars => Collected' /\ Order'
  <2> SUFFICES ASSUME Collected, Order, [Next]_vars PROVE Collected' /\ Order'
    OBVIOUS
  <2>1. Collected' /\ [Shell!Next]_(Shell!promptVars)
    BY StepCollects
  <2> QED BY <2>1, StepKeepsOrder
<1>3. Order => LinesInOrder
  BY DEF Rising, LinesInOrder, Shell!InOrder
<1> QED BY <1>1, <1>2, <1>3, PTL DEF Spec

-----------------------------------------------------------------------------
(* The parser's stack: sequences and their members.                        *)

Members(s) == {s[i] : i \in 1..Len(s)}
IsSequence(s) == s \in Seq(Members(s))

\* A sequence over any set is one over its members.
LEMMA SequenceOf ==
  ASSUME NEW S, NEW s \in Seq(S)
  PROVE  IsSequence(s) /\ Members(s) \subseteq S /\ Len(s) \in Nat
BY DEF IsSequence, Members

\* One more member, the last.
LEMMA AppendMembers ==
  ASSUME NEW s, IsSequence(s), NEW x
  PROVE  /\ IsSequence(Append(s, x))
         /\ Len(Append(s, x)) = Len(s) + 1
         /\ Members(Append(s, x)) = Members(s) \cup {x}
         /\ Append(s, x)[Len(s) + 1] = x
         /\ Len(s) \in Nat
<1> DEFINE S == Members(s) \cup {x}
           r == Append(s, x)
<1>1. s \in Seq(S)
  BY DEF IsSequence
<1>2. /\ r \in Seq(S) /\ Len(r) = Len(s) + 1 /\ Len(s) \in Nat
      /\ r[Len(s) + 1] = x
      /\ \A i \in 1..Len(s) : r[i] = s[i]
  BY <1>1
<1>3. IsSequence(r) /\ Members(r) \subseteq S
  BY <1>2, SequenceOf
<1>4. S \subseteq Members(r)
  <2> HIDE DEF r
  <2>1. x \in Members(r)
    BY <1>2 DEF Members
  <2>2. \A i \in 1..Len(s) : i \in 1..Len(r)
    BY <1>2
  <2>3. \A i \in 1..Len(s) : s[i] \in Members(r)
    BY <1>2, <2>2 DEF Members
  <2> QED BY <2>1, <2>3 DEF Members
<1> QED BY <1>2, <1>3, <1>4

\* A stretch of a sequence has no other members.
LEMMA SubSeqMembers ==
  ASSUME NEW s, IsSequence(s), NEW a \in 1..Len(s) + 1, NEW b \in 0..Len(s), a <= b + 1
  PROVE  /\ IsSequence(SubSeq(s, a, b))
         /\ Len(SubSeq(s, a, b)) = b - a + 1
         /\ Members(SubSeq(s, a, b)) \subseteq Members(s)
<1>1. s \in Seq(Members(s)) /\ Len(s) \in Nat
  BY DEF IsSequence
<1>2. SubSeq(s, a, b) \in Seq(Members(s)) /\ Len(SubSeq(s, a, b)) = b - a + 1
  BY <1>1
<1> QED BY <1>2, SequenceOf

\* Two sequences in a row have the members of both.
LEMMA ConcatMembers ==
  ASSUME NEW s, IsSequence(s), NEW t, IsSequence(t)
  PROVE  /\ IsSequence(s \o t)
         /\ Len(s \o t) = Len(s) + Len(t)
         /\ Members(s \o t) \subseteq Members(s) \cup Members(t)
<1> DEFINE S == Members(s) \cup Members(t)
<1>1. s \in Seq(S) /\ t \in Seq(S)
  BY DEF IsSequence
<1> HIDE DEF S
<1>2. s \o t \in Seq(S) /\ Len(s \o t) = Len(s) + Len(t)
  BY <1>1
<1> QED BY <1>2, SequenceOf DEF S

-----------------------------------------------------------------------------
(* Nodes.                                                                  *)

\* The children of a node are a sequence, and so are theirs.
Listed(s) == IsSequence(s) /\ \A n \in Members(s) : IsSequence(n.kids)
Tree(node) == Listed(node.kids)
Trees(s) == IsSequence(s) /\ \A n \in Members(s) : Tree(n)

\* Trees may become the children of a node.
LEMMA TreesAreLists ==
  ASSUME NEW s, Trees(s)
  PROVE  Listed(s)
BY DEF Trees, Listed, Tree

\* A node is a tree if its children have sequences of children.
LEMMA NodeIsTree ==
  ASSUME NEW kids, Listed(kids), NEW k, NEW x
  PROVE  Tree(Node(k, x, kids))
<1>1. Node(k, x, kids).kids = kids
  BY DEF Node
<1> QED BY <1>1 DEF Tree

\* Up to two trees, and one more, may become the children of a node.
LEMMA FewNodes ==
  /\ Listed(<<>>)
  /\ \A m : Tree(m) => Listed(<<m>>)
  /\ \A m, n : Tree(m) /\ Tree(n) => Listed(<<m, n>>)
  /\ \A s, n : Listed(s) /\ Tree(n) => Listed(Append(s, n))
<1>1. Listed(<<>>)
  <2>1. IsSequence(<<>>) /\ Members(<<>>) = {}
    BY DEF IsSequence, Members
  <2> QED BY <2>1 DEF Listed
<1>2. ASSUME NEW s, Listed(s), NEW n, Tree(n) PROVE Listed(Append(s, n))
  BY <1>2, AppendMembers DEF Listed, Tree
<1>3. ASSUME NEW m, Tree(m) PROVE Listed(<<m>>)
  <2>1. <<m>> = Append(<<>>, m)
    OBVIOUS
  <2> QED BY <1>1, <1>2, <1>3, <2>1
<1>4. ASSUME NEW m, NEW n, Tree(m), Tree(n) PROVE Listed(<<m, n>>)
  <2>1. <<m, n>> = Append(<<m>>, n)
    OBVIOUS
  <2> QED BY <1>2, <1>3, <1>4, <2>1
<1> QED BY <1>1, <1>2, <1>3, <1>4

-----------------------------------------------------------------------------
(* Nodes without nil.                                                      *)

Clean(node) == node.nils = 0 /\ \A m \in Members(node.kids) : m.nils = 0
AllClean(s) == \A m \in Members(s) : Clean(m)

\* What a program must not have for this: semicolons on their own are nil, and so
\* are some lists of parameters.
Spotless(input) == \A i \in 1..Len(input) : input[i].t \notin {";", "DEF"}
Excluded == {"semicolon", "DEF", "defClose"}
Allowed(works) == \A w \in Members(works) : w.do \notin Excluded

\* A parser that has met an error, or a program with such tokens, may have any
\* nodes.
Dirty(q) == q.err # "none" \/ ~Spotless(q.input)
Pure(q) == Dirty(q) \/ (AllClean(q.val) /\ Allowed(q.todo))

\* In the parser as it is, a node without nil if there is to be none.
Whole(node) == Dirty(p) \/ Clean(node)

\* The members of short sequences.
LEMMA FewMembers ==
  /\ Members(<<>>) = {}
  /\ \A m : Members(<<m>>) = {m}
  /\ \A m, n : Members(<<m, n>>) = {m, n}
<1>1. Members(<<>>) = {} /\ IsSequence(<<>>)
  BY DEF Members, IsSequence
<1>2. \A m : Members(<<m>>) = {m} /\ IsSequence(<<m>>)
  <2> SUFFICES ASSUME NEW m PROVE Members(<<m>>) = {m} /\ IsSequence(<<m>>)
    OBVIOUS
  <2>1. <<m>> = Append(<<>>, m)
    OBVIOUS
  <2>2. Members(Append(<<>>, m)) = {} \cup {m} /\ IsSequence(Append(<<>>, m))
    BY Zenon, <1>1, AppendMembers
  <2>3. {} \cup {m} = {m}
    OBVIOUS
  <2> QED BY Zenon, <2>1, <2>2, <2>3
<1>3. \A m, n : Members(<<m, n>>) = {m, n}
  <2> SUFFICES ASSUME NEW m, NEW n PROVE Members(<<m, n>>) = {m, n}
    OBVIOUS
  <2>1. <<m, n>> = Append(<<m>>, n)
    OBVIOUS
  <2>4. Members(<<m>>) = {m} /\ IsSequence(<<m>>)
    BY Zenon, <1>2
  <2>5. Members(Append(<<m>>, n)) = Members(<<m>>) \cup {n}
    BY Zenon, <2>4, AppendMembers
  <2>2. Members(Append(<<m>>, n)) = {m} \cup {n}
    BY Zenon, <2>4, <2>5
  <2>3. {m} \cup {n} = {m, n}
    OBVIOUS
  <2> QED BY Zenon, <2>1, <2>2, <2>3
<1> QED BY <1>1, <1>2, <1>3

\* A node is clean if its children have no nil in them.
LEMMA NodeIsClean ==
  ASSUME NEW kids, \A m \in Members(kids) : m.nils = 0, NEW k, NEW x
  PROVE  Clean(Node(k, x, kids))
<1>1. Node(k, x, kids).kids = kids
  BY DEF Node
<1>2. Node(k, x, kids).nils = 0
  BY DEF Node, Members
<1> QED BY <1>1, <1>2 DEF Clean

\* Leaves are trees, and clean; nil is a tree.
LEMMA SmallTrees ==
  /\ \A k, x : Tree(Leaf(k, x)) /\ Whole(Leaf(k, x))
  /\ Tree(SelfNode) /\ Whole(SelfNode)
  /\ Tree(NilNode) /\ Tree(NilStmt)
<1>1. Listed(<<>>)
  BY FewNodes
<1>2. \A k, x : Tree(Leaf(k, x))
  BY <1>1, NodeIsTree DEF Leaf
<1>3. NilNode.kids = <<>> /\ NilStmt.kids = <<>>
  BY DEF NilNode, NilStmt
<1>4. \A k, x : Clean(Leaf(k, x))
  BY FewMembers, NodeIsClean DEF Leaf
<1> QED BY <1>1, <1>2, <1>3, <1>4 DEF Tree, Whole, SelfNode

\* Nodes with up to two clean children.
LEMMA SmallClean ==
  /\ \A k, x : Whole(Node(k, x, <<>>))
  /\ \A k, x, m : Whole(m) => Whole(Node(k, x, <<m>>))
  /\ \A k, x, m, n : Whole(m) /\ Whole(n) => Whole(Node(k, x, <<m, n>>))
<1>1. \A k, x, m : Clean(m) => Clean(Node(k, x, <<m>>))
  BY FewMembers, NodeIsClean DEF Clean
<1>2. \A k, x, m, n : Clean(m) /\ Clean(n) => Clean(Node(k, x, <<m, n>>))
  BY FewMembers, NodeIsClean DEF Clean
<1>3. \A k, x : Clean(Node(k, x, <<>>))
  BY FewMembers, NodeIsClean
<1> QED BY <1>1, <1>2, <1>3 DEF Whole

-----------------------------------------------------------------------------
(* What each work needs of the stack and does to it.                       *)

Makers == {"statement", "RETURN", "DEF", "WHILE", "CLASS", "MODULE", "block",
           "expression", "leaf", "prefix", "constant", "group", "if", "switch",
           "array", "hash", "semicolon", "yield"}
Joiners == {"moreProgram", "moreStatements", "superclass", "defClose",
            "defBody", "moreParameters", "adopt", "moreVariables",
            "assignEnd", "assignCall", "element", "entry", "consequence",
            "cases", "case", "caseEnd"}
Programs == {"program", "moreProgram"}

\* The nodes there are after w less those before it.
Effect(w) ==
  IF w.do = "build" THEN 1 - w.n
  ELSE IF w.do = "caseCondition" THEN -1 - w.n
  ELSE IF w.do \in Makers THEN 1
  ELSE IF w.do \in Joiners THEN -1 ELSE 0

\* It leaves one at least.
Need(w) == IF w.do = "caseEnd" THEN 3 ELSE 1 - Effect(w)

Works(w) ==
  /\ w.do = "build" => w.n \in 1..3
  /\ w.do = "caseCondition" => w.n \in 1..2

\* What is left to do, for n nodes: h[i] of them are there when work i begins.
Heights(n, todo, h) ==
  /\ h \in [1..Len(todo)+1 -> Nat]
  /\ h[1] = n
  /\ \A i \in 1..Len(todo) : Need(todo[i]) <= h[i] /\ h[i + 1] = h[i] + Effect(todo[i])

\* The names of a block's parameters come before the block.
BlockComes(todo) ==
  /\ 4 < Len(todo)
  /\ todo[1].do = "block" /\ todo[2].do = "keep"
  /\ todo[3].do = "adopt" /\ todo[4].do = "adopt"
Followed(todo, i) ==
  todo[i].do = "blockParameter" =>
    /\ i + 4 < Len(todo)
    /\ todo[i + 1].do = "block" /\ todo[i + 2].do = "keep"
    /\ todo[i + 3].do = "adopt" /\ todo[i + 4].do = "adopt"

Balanced(n, todo) ==
  /\ IsSequence(todo) /\ todo # <<>>
  /\ \A i \in 1..Len(todo) : /\ Works(todo[i])
                             /\ todo[i].do \in Programs <=> i = Len(todo)
                             /\ Followed(todo, i)
  /\ \E h : Heights(n, todo, h)

\* Effect and need are numbers.
LEMMA EffectType ==
  ASSUME NEW w, Works(w)
  PROVE  Effect(w) \in Int /\ Need(w) \in Int
<1>1. Effect(w) \in Int
  BY DEF Effect, Works
<1> QED BY <1>1 DEF Need

\* A work with a program or block to come is put in front of the rest.
LEMMA PushWork ==
  ASSUME NEW n \in Nat, NEW w, NEW todo, Works(w), w.do \notin Programs,
         Balanced(n + Effect(w), todo), Need(w) <= n,
         w.do = "blockParameter" => BlockComes(todo)
  PROVE  Balanced(n, <<w>> \o todo)
<1> DEFINE r == <<w>> \o todo
           L == Len(todo)
<1>1. todo \in Seq(Members(todo)) /\ L \in Nat /\ todo # <<>>
  BY DEF Balanced, IsSequence
<1>2. /\ r \in Seq(Members(todo) \cup {w}) /\ Len(r) = L + 1
      /\ r[1] = w /\ \A i \in 1..L : r[i + 1] = todo[i]
  BY <1>1
<1> HIDE DEF r
<1>3. IsSequence(r) /\ r # <<>>
  <2>1. IsSequence(r)
    BY <1>2, SequenceOf
  <2>2. Len(r) # 0
    BY <1>1, <1>2
  <2>3. Len(<<>>) = 0
    OBVIOUS
  <2> QED BY <2>1, <2>2, <2>3
<1>4. \A i \in 1..Len(r) : i = 1 \/ (i - 1 \in 1..L /\ r[i] = todo[i - 1])
  BY <1>1, <1>2
<1>5. L >= 1
  BY <1>1
<1>6. \A i \in 1..L : /\ Works(todo[i])
                      /\ todo[i].do \in Programs <=> i = L
                      /\ Followed(todo, i)
  BY DEF Balanced
<1>7. ASSUME NEW i \in 1..Len(r)
      PROVE  Works(r[i]) /\ (r[i].do \in Programs <=> i = Len(r))
  <2>1. CASE i = 1
    BY <1>1, <1>2, <1>5, <2>1
  <2>2. CASE i # 1
    <3>1. i - 1 \in 1..L /\ r[i] = todo[i - 1] /\ (i - 1 = L <=> i = Len(r))
      BY <1>1, <1>2, <1>4, <2>2
    <3> QED BY <1>6, <3>1
  <2> QED BY <2>1, <2>2
<1>8. ASSUME NEW i \in 1..Len(r)
      PROVE  Followed(r, i)
  <2>1. CASE i = 1
    <3> SUFFICES ASSUME w.do = "blockParameter" PROVE Followed(r, 1)
      BY <1>2, <2>1 DEF Followed
    <3>1. /\ 1 \in 1..L /\ 2 \in 1..L /\ 3 \in 1..L /\ 4 \in 1..L
      BY <1>1 DEF BlockComes
    <3>2. r[2] = todo[1] /\ r[3] = todo[2] /\ r[4] = todo[3] /\ r[5] = todo[4]
      BY <1>2, <3>1
    <3> QED BY <1>1, <1>2, <3>2 DEF Followed, BlockComes
  <2>2. CASE i # 1
    <3> SUFFICES ASSUME r[i].do = "blockParameter" PROVE Followed(r, i)
      BY DEF Followed
    <3>1. i - 1 \in 1..L /\ r[i] = todo[i - 1]
      BY <1>4, <2>2
    <3> DEFINE j == i - 1
    <3>2. /\ j + 4 < L
          /\ todo[j + 1].do = "block" /\ todo[j + 2].do = "keep"
          /\ todo[j + 3].do = "adopt" /\ todo[j + 4].do = "adopt"
      BY <1>6, <3>1 DEF Followed
    <3>3. /\ i + 1 = (j + 1) + 1 /\ i + 2 = (j + 2) + 1 /\ i + 3 = (j + 3) + 1
          /\ i + 4 = (j + 4) + 1
          /\ j + 1 \in 1..L /\ j + 2 \in 1..L /\ j + 3 \in 1..L /\ j + 4 \in 1..L
      BY <1>1, <3>1, <3>2
    <3>4. /\ r[i + 1] = todo[j + 1] /\ r[i + 2] = todo[j + 2]
          /\ r[i + 3] = todo[j + 3] /\ r[i + 4] = todo[j + 4]
      BY <1>2, <3>3
    <3> QED BY <1>1, <1>2, <3>1, <3>2, <3>4 DEF Followed
  <2> QED BY <2>1, <2>2
<1>9. PICK h : Heights(n + Effect(w), todo, h)
  BY DEF Balanced
<1>10. Effect(w) \in Int /\ Need(w) \in Int
  BY EffectType
<1> DEFINE g == [i \in 1..Len(r)+1 |-> IF i = 1 THEN n ELSE h[i - 1]]
<1>11. \A i \in 2..Len(r)+1 : i - 1 \in 1..L+1 /\ h[i - 1] \in Nat
  <2>1. \A i \in 2..Len(r)+1 : i - 1 \in 1..L+1
    BY <1>1, <1>2
  <2>2. h \in [1..L+1 -> Nat]
    BY <1>9 DEF Heights
  <2> QED BY <2>1, <2>2
<1>12. g \in [1..Len(r)+1 -> Nat]
  BY <1>11, <1>2, <1>1
<1>13. ASSUME NEW i \in 1..Len(r)
       PROVE  Need(r[i]) <= g[i] /\ g[i + 1] = g[i] + Effect(r[i])
  <2>1. CASE i = 1
    BY <1>1, <1>2, <1>9, <2>1 DEF Heights
  <2>2. CASE i # 1
    <3>1. i - 1 \in 1..L /\ r[i] = todo[i - 1] /\ g[i] = h[i - 1] /\ g[i + 1] = h[(i - 1) + 1]
      BY <1>1, <1>2, <1>4, <2>2
    <3> QED BY <1>9, <3>1 DEF Heights
  <2> QED BY <2>1, <2>2
<1>14. Heights(n, r, g)
  <2>1. g[1] = n
    BY <1>1, <1>2
  <2> HIDE DEF g
  <2> QED BY <1>12, <1>13, <2>1 DEF Heights
<1> QED BY <1>3, <1>7, <1>8, <1>14 DEF Balanced, r

\* The first work finds what it needs, and leaves what the others need.
LEMMA PopWork ==
  ASSUME NEW n \in Nat, NEW todo, Balanced(n, todo), todo[1].do \notin Programs
  PROVE  /\ Works(todo[1]) /\ Need(todo[1]) <= n
         /\ n + Effect(todo[1]) \in Nat
         /\ Balanced(n + Effect(todo[1]), Tail(todo))
         /\ todo[1].do = "blockParameter" => BlockComes(Tail(todo))
<1> DEFINE r == Tail(todo)
           L == Len(todo)
<1>1. todo \in Seq(Members(todo)) /\ L \in Nat /\ L >= 1 /\ 1 \in 1..L
  BY DEF Balanced, IsSequence
<1>2. \A i \in 1..L : /\ Works(todo[i])
                      /\ todo[i].do \in Programs <=> i = L
                      /\ Followed(todo, i)
  BY DEF Balanced
<1>3. L # 1
  BY <1>1, <1>2
<1>4. /\ r \in Seq(Members(todo)) /\ Len(r) = L - 1
      /\ \A i \in 1..L-1 : r[i] = todo[i + 1]
  BY <1>1
<1> HIDE DEF r
<1>5. IsSequence(r) /\ r # <<>> /\ Len(r) \in Nat
  <2>1. IsSequence(r) /\ Len(r) \in Nat
    BY <1>4, SequenceOf
  <2>2. Len(r) # 0
    BY <1>1, <1>3, <1>4
  <2>3. Len(<<>>) = 0
    OBVIOUS
  <2> QED BY <2>1, <2>2, <2>3
<1>6. PICK h : Heights(n, todo, h)
  BY DEF Balanced
<1>7. /\ Need(todo[1]) <= n /\ h[2] = n + Effect(todo[1]) /\ h[2] \in Nat
  BY <1>1, <1>3, <1>6 DEF Heights
<1> DEFINE g == [i \in 1..Len(r)+1 |-> h[i + 1]]
<1>8. g \in [1..Len(r)+1 -> Nat] /\ g[1] = h[2]
  BY <1>1, <1>3, <1>4, <1>6 DEF Heights
<1>9. ASSUME NEW i \in 1..Len(r)
      PROVE  /\ i + 1 \in 1..L /\ r[i] = todo[i + 1]
             /\ g[i] = h[i + 1] /\ g[i + 1] = h[(i + 1) + 1]
  BY <1>1, <1>4
<1>10. \A i \in 1..Len(r) : Need(r[i]) <= g[i] /\ g[i + 1] = g[i] + Effect(r[i])
  <2> HIDE DEF g
  <2> QED BY <1>6, <1>9 DEF Heights
<1>11. Heights(n + Effect(todo[1]), r, g)
  <2> HIDE DEF g
  <2> QED BY <1>7, <1>8, <1>10 DEF Heights
<1>12. ASSUME NEW i \in 1..Len(r)
       PROVE  Works(r[i]) /\ (r[i].do \in Programs <=> i = Len(r))
  BY <1>1, <1>2, <1>4, <1>9
<1>13. ASSUME NEW i \in 1..Len(r)
       PROVE  Followed(r, i)
  <2> SUFFICES ASSUME r[i].do = "blockParameter" PROVE Followed(r, i)
    BY DEF Followed
  <2> DEFINE j == i + 1
  <2>1. /\ j \in 1..L /\ j + 4 < L
        /\ todo[j + 1].do = "block" /\ todo[j + 2].do = "keep"
        /\ todo[j + 3].do = "adopt" /\ todo[j + 4].do = "adopt"
    <3>1. j \in 1..L /\ todo[j].do = "blockParameter"
      BY <1>9
    <3> HIDE DEF j
    <3> QED BY <1>2, <3>1 DEF Followed
  <2>2. /\ i + 1 \in 1..L-1 /\ i + 2 \in 1..L-1 /\ i + 3 \in 1..L-1 /\ i + 4 \in 1..L-1
        /\ j + 1 = (i + 1) + 1 /\ j + 2 = (i + 2) + 1 /\ j + 3 = (i + 3) + 1
        /\ j + 4 = (i + 4) + 1 /\ i + 4 < L - 1
    <3>1. i \in Nat /\ 1 <= i
      OBVIOUS
    <3>2. i + 1 + 4 < L
      BY <2>1
    <3> QED BY <1>1, <3>1, <3>2
  <2>3. /\ r[i + 1] = todo[j + 1] /\ r[i + 2] = todo[j + 2]
        /\ r[i + 3] = todo[j + 3] /\ r[i + 4] = todo[j + 4]
    BY <1>4, <2>2
  <2> HIDE DEF j
  <2> QED BY <1>4, <2>1, <2>2, <2>3 DEF Followed
<1>14. ASSUME todo[1].do = "blockParameter"
       PROVE  BlockComes(r)
  <2>1. /\ 5 < L
        /\ todo[2].do = "block" /\ todo[3].do = "keep"
        /\ todo[4].do = "adopt" /\ todo[5].do = "adopt"
    BY <1>1, <1>2, <1>14 DEF Followed
  <2>2. r[1] = todo[2] /\ r[2] = todo[3] /\ r[3] = todo[4] /\ r[4] = todo[5]
    BY <1>1, <1>4, <2>1
  <2> QED BY <1>1, <1>4, <2>1, <2>2 DEF BlockComes
<1>15. Balanced(n + Effect(todo[1]), r)
  BY <1>5, <1>11, <1>12, <1>13 DEF Balanced
<1> QED BY <1>1, <1>2, <1>7, <1>14, <1>15 DEF r

\* The last work is one of a program's.
LEMMA LastWork ==
  ASSUME NEW n \in Nat, NEW todo, Balanced(n, todo), todo[1].do \in Programs
  PROVE  Need(todo[1]) <= n /\ Tail(todo) = <<>>
<1>1. todo \in Seq(Members(todo)) /\ Len(todo) \in Nat /\ 1 \in 1..Len(todo)
  BY DEF Balanced, IsSequence
<1>2. Len(todo) = 1
  BY <1>1 DEF Balanced
<1>3. PICK h : Heights(n, todo, h)
  BY DEF Balanced
<1>4. Tail(todo) = <<>>
  <2>1. Tail(todo) \in Seq(Members(todo)) /\ Len(Tail(todo)) = 0
    BY <1>1, <1>2
  <2>2. ASSUME NEW S, NEW s \in Seq(S), Len(s) = 0 PROVE s = <<>>
    BY <2>2
  <2> QED BY <2>1, <2>2
<1> QED BY <1>1, <1>3, <1>4 DEF Heights

\* The program alone is balanced.
LEMMA OneWork ==
  ASSUME NEW n \in Nat, NEW w, w.do \in Programs, Need(w) <= n
  PROVE  Balanced(n, <<w>>)
<1>1. IsSequence(<<w>>) /\ <<w>> # <<>> /\ Len(<<w>>) = 1 /\ <<w>>[1] = w
  <2>1. <<w>> \in Seq({w})
    OBVIOUS
  <2> QED BY <2>1, SequenceOf
<1>2. Works(w) /\ w.do # "blockParameter"
  BY DEF Works, Programs
<1>3. Effect(w) \in Int
  BY <1>2, EffectType
<1>4. n + Effect(w) \in Nat
  BY <1>3 DEF Need, Programs
<1> DEFINE h == [i \in 1..2 |-> IF i = 1 THEN n ELSE n + Effect(w)]
           s == <<w>>
<1>5. Heights(n, s, h)
  <2>1. h \in [1..2 -> Nat] /\ h[1] = n /\ h[2] = n + Effect(w)
    BY <1>4
  <2> HIDE DEF h, s
  <2>2. s[1] = w /\ Len(s) = 1
    BY <1>1 DEF s
  <2> QED BY <2>1, <2>2 DEF Heights
<1> HIDE DEF h, s
<1>6. \A i \in 1..Len(s) : Works(s[i]) /\ (s[i].do \in Programs <=> i = Len(s)) /\ Followed(s, i)
  BY <1>1, <1>2 DEF Followed, s
<1>7. IsSequence(s) /\ s # <<>>
  BY <1>1 DEF s
<1> QED BY <1>5, <1>6, <1>7 DEF Balanced, s

-----------------------------------------------------------------------------
(* The parser.                                                             *)

Fields == {"input", "at", "todo", "val", "err", "fsm", "acceptBlock", "outcome"}

\* It is at one of the tokens, or after the last.
Input(q) == IsSequence(q.input) /\ q.input # <<>> /\ q.at \in Nat \ {0}

\* q is at work and has n trees; what is left to do is for k of them.
Has(q, n, k) ==
  /\ DOMAIN q = Fields
  /\ q.outcome = "parsing"
  /\ Trees(q.val) /\ Len(q.val) = n
  /\ Balanced(k, q.todo)
  /\ Input(q) /\ q.input = p.input
  /\ Dirty(p) => Dirty(q)
  /\ Pure(q)

\* The functions under way find the nodes they take, and know of no nil but for
\* an error.
Sound(q) ==
  /\ DOMAIN q = Fields
  /\ q.outcome = "parsing" =>
       /\ Trees(q.val) /\ Balanced(Len(q.val), q.todo)
       /\ Input(q)
  /\ Pure(q)
  /\ q.outcome = "parsed" => Trees(q.val) /\ q.val # <<>>
  /\ q.outcome = "failed" => q.err # "none"

\* A parser with as many trees as its works are for is sound.
LEMMA HasIsSound ==
  ASSUME NEW q, NEW n, Has(q, n, n)
  PROVE  Sound(q)
BY DEF Has, Sound

\* A parser that has failed is sound.
LEMMA PanicIsSound ==
  ASSUME NEW q, DOMAIN q = Fields
  PROVE  Sound(Panic(q))
<1>1. DOMAIN Panic(q) = Fields /\ Panic(q).outcome = "failed" /\ Panic(q).err # "none"
  BY DEF Panic, Fields
<1> QED BY <1>1 DEF Sound, Pure, Dirty

\* What moves on, or sets a field, leaves the stacks alone.
LEMMA Moves ==
  ASSUME NEW q, NEW n, NEW k, Has(q, n, k)
  PROVE  /\ Has(nextToken(q), n, k)
         /\ \A s : Has(State(q, s), n, k)
         /\ \A b : Has(AcceptBlock(q, b), n, k)
         /\ \A e : e # "none" => Has(Error(q, e), n, k) /\ Dirty(Error(q, e))
         /\ \A t : Has(peekError(q, t), n, k) /\ Dirty(peekError(q, t))
         /\ \A t : Has(Expect(q, t), n, k)
         /\ Has(noPrefixParseFnError(q), n, k) /\ Dirty(noPrefixParseFnError(q))
<1> USE DEF Pure, Dirty, Input
<1>1. Has(nextToken(q), n, k)
  BY DEF Has, Fields, nextToken
<1>2. \A s : Has(State(q, s), n, k)
  BY DEF Has, Fields, State
<1>3. \A b : Has(AcceptBlock(q, b), n, k)
  BY DEF Has, Fields, AcceptBlock
<1>4. \A e : e # "none" => Has(Error(q, e), n, k) /\ Dirty(Error(q, e))
  BY DEF Has, Fields, Error
<1>5. \A t : Has(peekError(q, t), n, k) /\ Dirty(peekError(q, t))
  BY <1>4 DEF peekError
<1>6. \A t : Has(Expect(q, t), n, k)
  BY <1>1, <1>5 DEF Expect
<1>7. Has(noPrefixParseFnError(q), n, k) /\ Dirty(noPrefixParseFnError(q))
  BY <1>4 DEF noPrefixParseFnError
<1> QED BY <1>1, <1>2, <1>3, <1>4, <1>5, <1>6, <1>7

\* Other trees on the stack, and the works stay.
LEMMA HasVal ==
  ASSUME NEW q, NEW n, NEW k, Has(q, n, k), NEW v, Trees(v), Dirty(q) \/ AllClean(v)
  PROVE  Has([q EXCEPT !.val = v], Len(v), k)
BY DEF Has, Fields, Pure, Dirty, Input

\* What is on the stack, the top included, is a tree.
LEMMA HasTrees ==
  ASSUME NEW q, NEW n, NEW k, Has(q, n, k)
  PROVE  /\ n \in Nat /\ DOMAIN q = Fields
         /\ \A i \in 1..n : Tree(q.val[i]) /\ (Dirty(q) \/ Clean(q.val[i]))
         /\ n >= 1 => Tree(Top(q)) /\ (Dirty(q) \/ Clean(Top(q)))
         /\ Dirty(p) => Dirty(q)
<1>1. q.val \in Seq(Members(q.val)) /\ n \in Nat /\ n = Len(q.val)
  BY DEF Has, Trees, IsSequence
<1>2. \A i \in 1..n : Tree(q.val[i]) /\ (Dirty(q) \/ Clean(q.val[i]))
  BY <1>1 DEF Has, Trees, Members, Pure, AllClean
<1> QED BY <1>1, <1>2 DEF Has, Top

\* A tree is pushed.
LEMMA Pushes ==
  ASSUME NEW q, NEW n, NEW k, Has(q, n, k), NEW node, Tree(node),
         Whole(node) \/ Dirty(q)
  PROVE  Has(Push(q, node), n + 1, k) /\ Top(Push(q, node)) = node
<1> DEFINE v == Append(q.val, node)
<1>1. Trees(v) /\ Len(v) = n + 1 /\ v[n + 1] = node /\ (Dirty(q) \/ AllClean(v))
  BY AppendMembers DEF Has, Trees, Pure, AllClean, Whole, Dirty
<1> HIDE DEF v
<1>2. Has([q EXCEPT !.val = v], n + 1, k)
  BY <1>1, HasVal
<1>3. Push(q, node) = [q EXCEPT !.val = v]
  BY DEF Push, v
<1>4. Push(q, node).val = v
  BY <1>3 DEF Has, Fields
<1> QED BY <1>1, <1>2, <1>3, <1>4 DEF Top

\* The top is dropped.
LEMMA Drops ==
  ASSUME NEW q, NEW n, NEW k, Has(q, n, k), n >= 1
  PROVE  Has(Drop(q), n - 1, k)
<1> DEFINE v == SubSeq(q.val, 1, Len(q.val) - 1)
<1>1. IsSequence(q.val) /\ n = Len(q.val) /\ n \in Nat
  BY HasTrees DEF Has, Trees
<1>2. Trees(v) /\ Len(v) = n - 1 /\ (Dirty(q) \/ AllClean(v))
  BY <1>1, SubSeqMembers DEF Has, Trees, Pure, AllClean
<1> HIDE DEF v
<1>3. Has([q EXCEPT !.val = v], n - 1, k)
  BY <1>2, HasVal
<1> QED BY <1>3 DEF Drop, v

\* It does not become clean by that.
LEMMA DropsDirt ==
  ASSUME NEW q, NEW n, NEW k, Has(q, n, k)
  PROVE  Dirty(q) => Dirty(Drop(q)) /\ Dirty(Drop(Drop(q)))
BY DEF Has, Drop, Dirty, Fields

\* Some trees become the children of a new one.
LEMMA Builds ==
  ASSUME NEW q, NEW n, NEW k, Has(q, n, k), NEW m \in Nat, m <= n, NEW kind, NEW x
  PROVE  Has(Build(q, m, kind, x), n - m + 1, k)
<1> DEFINE rest == SubSeq(q.val, 1, Len(q.val) - m)
           kids == SubSeq(q.val, Len(q.val) - m + 1, Len(q.val))
           v == Append(rest, Node(kind, x, kids))
<1>1. IsSequence(q.val) /\ n = Len(q.val) /\ n \in Nat
  BY HasTrees DEF Has, Trees
<1>2. /\ IsSequence(rest) /\ Len(rest) = n - m
      /\ Members(rest) \subseteq Members(q.val)
  BY <1>1, SubSeqMembers
<1>3. IsSequence(kids) /\ Members(kids) \subseteq Members(q.val)
  <2>1. /\ Len(q.val) - m + 1 \in 1..Len(q.val) + 1
        /\ Len(q.val) \in 0..Len(q.val) /\ Len(q.val) - m + 1 <= Len(q.val) + 1
    BY <1>1
  <2> QED BY <1>1, <2>1, SubSeqMembers
<1> HIDE DEF rest, kids
<1>4. Listed(kids)
  BY <1>3 DEF Listed, Has, Trees, Tree
<1>5. Tree(Node(kind, x, kids))
  BY <1>4, NodeIsTree
<1>8. Dirty(q) \/ Clean(Node(kind, x, kids))
  BY <1>3, NodeIsClean DEF Has, Pure, AllClean, Clean
<1>6. Trees(v) /\ Len(v) = n - m + 1 /\ (Dirty(q) \/ AllClean(v))
  BY <1>2, <1>5, <1>8, AppendMembers DEF Has, Trees, Pure, AllClean
<1> HIDE DEF v
<1>7. Has([q EXCEPT !.val = v], n - m + 1, k)
  BY <1>6, HasVal
<1> QED BY <1>7 DEF Build, v, rest, kids

\* The top changes its kind.
LEMMA Renames ==
  ASSUME NEW q, NEW n, NEW k, Has(q, n, k), n >= 1, NEW kind
  PROVE  Has(Rename(q, kind), n, k)
<1>1. /\ Has(Drop(q), n - 1, k) /\ Tree(Top(q)) /\ n \in Nat
      /\ Dirty(q) \/ Clean(Top(q))
  BY Drops, HasTrees
<1>2. /\ Tree(Node(kind, Top(q).x, Top(q).kids))
      /\ Dirty(q) \/ Clean(Node(kind, Top(q).x, Top(q).kids))
  BY <1>1, NodeIsTree, NodeIsClean DEF Tree, Clean
<1>3. Has(Rename(q, kind), (n - 1) + 1, k)
  BY <1>1, <1>2, DropsDirt, Pushes DEF Rename, Whole
<1> QED BY <1>1, <1>3

\* The top becomes a child of the one below.
LEMMA AddsKid ==
  ASSUME NEW q, NEW n, NEW k, Has(q, n, k), n >= 2
  PROVE  Has(AddKid(q), n - 1, k)
<1> DEFINE parent == q.val[Len(q.val) - 1]
           node == Node(parent.k, parent.x, Append(parent.kids, Top(q)))
<1>1. n \in Nat /\ n = Len(q.val) /\ n - 1 \in 1..n
  BY HasTrees DEF Has
<1>2. Tree(parent) /\ Tree(Top(q))
  BY <1>1, HasTrees
<1>3. Tree(node)
  BY <1>2, FewNodes, NodeIsTree DEF Tree
<1>7. Dirty(q) \/ Clean(node)
  <2>1. Dirty(q) \/ (Clean(parent) /\ Clean(Top(q)))
    BY <1>1, HasTrees
  <2>2. Members(Append(parent.kids, Top(q))) = Members(parent.kids) \cup {Top(q)}
    BY <1>2, AppendMembers DEF Tree, Listed
  <2> QED BY <2>1, <2>2, NodeIsClean DEF Clean
<1>4. Has(Drop(q), n - 1, k)
  BY <1>1, Drops
<1>5. Has(Drop(Drop(q)), n - 1 - 1, k)
  BY <1>1, <1>4, Drops
<1>8. Dirty(q) => Dirty(Drop(Drop(q)))
  BY <1>4, DropsDirt
<1> HIDE DEF node
<1>6. Has(Push(Drop(Drop(q)), node), n - 1 - 1 + 1, k)
  BY <1>3, <1>5, <1>7, <1>8, Pushes DEF Whole
<1> QED BY <1>1, <1>6 DEF AddKid, node

-----------------------------------------------------------------------------
(* What is added to what is left to do.                                    *)

\* ws makes k nodes of j, with what comes before what was left to do.
Balances(ws, j, k) ==
  IsSequence(ws) /\ \A todo : Balanced(k, todo) => Balanced(j, ws \o todo)
Runs(ws, j, k) == Balances(ws, j, k) /\ Allowed(ws)

\* Works are put in front, and the parser has the trees they are for.
LEMMA ThenRuns ==
  ASSUME NEW q, NEW n, NEW k, Has(q, n, k), NEW j, NEW ws,
         Runs(ws, j, k) \/ (Balances(ws, j, k) /\ Dirty(q))
  PROVE  Has(Then(q, ws), n, j)
<1> DEFINE todo == ws \o q.todo
<1>1. Balanced(j, todo) /\ (Dirty(q) \/ Allowed(todo))
  BY ConcatMembers DEF Has, Runs, Balances, Balanced, Allowed, Pure
<1> HIDE DEF todo
<1>2. Then(q, ws) = [q EXCEPT !.todo = todo]
  BY DEF Then, todo
<1> QED BY <1>1, <1>2 DEF Has, Fields, Pure, Dirty, Input

\* One work is a sequence.
LEMMA IsOneWork == \A w : IsSequence(<<w>>)
<1> SUFFICES ASSUME NEW w PROVE IsSequence(<<w>>)
  OBVIOUS
<1>1. <<w>> \in Seq({w})
  OBVIOUS
<1> QED BY <1>1, SequenceOf

\* One work by its effect.
LEMMA RunsWork ==
  ASSUME NEW w, Works(w), w.do \notin Programs \cup {"blockParameter"},
         NEW j \in Nat, Need(w) <= j
  PROVE  /\ Balances(<<w>>, j, j + Effect(w))
         /\ w.do \notin Excluded => Runs(<<w>>, j, j + Effect(w))
BY IsOneWork, FewMembers, PushWork DEF Runs, Balances, Allowed

\* Works after works.
LEMMA BalancesConcat ==
  ASSUME NEW a, NEW b, NEW i, NEW j, NEW k, Balances(a, i, j), Balances(b, j, k)
  PROVE  Balances(a \o b, i, k)
<1>1. IsSequence(a) /\ IsSequence(b)
  BY DEF Balances
<1>2. IsSequence(a \o b)
  BY <1>1, ConcatMembers
<1>3. ASSUME NEW todo, Balanced(k, todo) PROVE Balanced(i, (a \o b) \o todo)
  <2>1. Balanced(i, a \o (b \o todo))
    BY <1>3 DEF Balances
  <2>2. IsSequence(todo)
    BY <1>3 DEF Balanced
  <2> DEFINE T == Members(a) \cup Members(b) \cup Members(todo)
  <2>3. a \in Seq(T) /\ b \in Seq(T) /\ todo \in Seq(T)
    BY <1>1, <2>2 DEF IsSequence
  <2> HIDE DEF T
  <2>4. a \o (b \o todo) = (a \o b) \o todo
    BY <2>3
  <2> QED BY <2>1, <2>4
<1> QED BY <1>2, <1>3 DEF Balances

LEMMA RunsConcat ==
  ASSUME NEW a, NEW b, NEW i, NEW j, NEW k, Runs(a, i, j), Runs(b, j, k)
  PROVE  Runs(a \o b, i, k)
<1>1. Balances(a \o b, i, k)
  BY BalancesConcat DEF Runs
<1>2. Members(a \o b) \subseteq Members(a) \cup Members(b)
  BY ConcatMembers DEF Runs, Balances
<1> QED BY <1>1, <1>2 DEF Runs, Allowed

\* Two or three works, taken apart.
LEMMA Concat ==
  ASSUME NEW a, NEW b, NEW c
  PROVE  <<a, b>> = <<a>> \o <<b>> /\ <<a, b, c>> = <<a>> \o <<b, c>>
<1> DEFINE S == {a, b, c}
<1>1. /\ <<a>> \in Seq(S) /\ <<b>> \in Seq(S) /\ <<a, b>> \in Seq(S)
      /\ <<b, c>> \in Seq(S) /\ <<a, b, c>> \in Seq(S)
  OBVIOUS
<1> HIDE DEF S
<1>2. /\ Len(<<a>> \o <<b>>) = 2 /\ (<<a>> \o <<b>>)[1] = a /\ (<<a>> \o <<b>>)[2] = b
      /\ <<a>> \o <<b>> \in Seq(S)
  BY <1>1
<1>3. /\ Len(<<a>> \o <<b, c>>) = 3 /\ (<<a>> \o <<b, c>>)[1] = a
      /\ (<<a>> \o <<b, c>>)[2] = b /\ (<<a>> \o <<b, c>>)[3] = c
      /\ <<a>> \o <<b, c>> \in Seq(S)
  BY <1>1
<1>4. ASSUME NEW s \in Seq(S), NEW t \in Seq(S), Len(s) = Len(t),
             \A i \in 1..Len(s) : s[i] = t[i]
      PROVE  s = t
  BY <1>4
<1>5. <<a, b>> = <<a>> \o <<b>>
  <2>1. Len(<<a, b>>) = 2 /\ <<a, b>>[1] = a /\ <<a, b>>[2] = b
    OBVIOUS
  <2>2. \A i \in 1..2 : i = 1 \/ i = 2
    OBVIOUS
  <2> QED BY <1>1, <1>2, <1>4, <2>1, <2>2
<1>6. <<a, b, c>> = <<a>> \o <<b, c>>
  <2>1. Len(<<a, b, c>>) = 3 /\ <<a, b, c>>[1] = a /\ <<a, b, c>>[2] = b /\ <<a, b, c>>[3] = c
    OBVIOUS
  <2>2. \A i \in 1..3 : i = 1 \/ i = 2 \/ i = 3
    OBVIOUS
  <2> QED BY <1>1, <1>3, <1>4, <2>1, <2>2
<1> QED BY <1>5, <1>6

\* Two works in a row.
LEMMA RunsTwo ==
  ASSUME NEW a, NEW b, NEW i, NEW j, NEW k, Runs(<<a>>, i, j), Runs(<<b>>, j, k)
  PROVE  Runs(<<a, b>>, i, k)
<1>1. <<a, b>> = <<a>> \o <<b>>
  BY Concat
<1> QED BY <1>1, RunsConcat

\* Three works in a row.
LEMMA RunsThree ==
  ASSUME NEW a, NEW b, NEW c, NEW i, NEW j, NEW k, NEW m,
         Runs(<<a>>, i, j), Runs(<<b>>, j, k), Runs(<<c>>, k, m)
  PROVE  Runs(<<a, b, c>>, i, m)
<1>1. <<a, b, c>> = <<a>> \o <<b, c>>
  BY Concat
<1>2. Runs(<<b, c>>, j, m)
  BY RunsTwo
<1> QED BY <1>1, <1>2, RunsConcat

\* The works by what they do to the stack.
LEMMA Makes ==
  ASSUME NEW d \in Makers, NEW x, NEW s, NEW j \in Nat
  PROVE  /\ Balances(<<Do(d, x, s)>>, j, j + 1)
         /\ d \notin {"semicolon", "DEF"} => Runs(<<Do(d, x, s)>>, j, j + 1)
<1> DEFINE w == Do(d, x, s)
<1>1. w.do = d
  BY DEF Do
<1> HIDE DEF w
<1>2. Works(w) /\ w.do \notin Programs \cup {"blockParameter"} /\ Effect(w) = 1 /\ Need(w) <= j
  BY <1>1 DEF Makers, Works, Programs, Effect, Need
<1>3. /\ Balances(<<w>>, j, j + 1)
      /\ d \notin {"semicolon", "DEF"} => Runs(<<w>>, j, j + 1)
  BY <1>1, <1>2, RunsWork DEF Makers, Excluded
<1> QED BY <1>3 DEF w

\* One that joins what is on top with what is below it.
LEMMA Joins ==
  ASSUME NEW d \in Joiners \ {"moreProgram"}, NEW x, NEW s, NEW j \in Nat,
         j >= 2, d = "caseEnd" => j >= 3
  PROVE  /\ Balances(<<Do(d, x, s)>>, j, j - 1)
         /\ d # "defClose" => Runs(<<Do(d, x, s)>>, j, j - 1)
<1> DEFINE w == Do(d, x, s)
<1>1. w.do = d
  BY DEF Do
<1> HIDE DEF w
<1>2. Works(w) /\ w.do \notin Programs \cup {"blockParameter"} /\ Effect(w) = -1 /\ Need(w) <= j
  BY <1>1 DEF Makers, Joiners, Works, Programs, Effect, Need
<1>3. /\ Balances(<<w>>, j, j + (-1))
      /\ d # "defClose" => Runs(<<w>>, j, j + (-1))
  BY <1>1, <1>2, RunsWork DEF Joiners, Excluded
<1>4. j + (-1) = j - 1
  OBVIOUS
<1> QED BY <1>3, <1>4 DEF w

\* The rest look at what is there.
Lookers == {"mark", "whileBody", "statements", "keep", "parameter",
            "checkParameters", "afterBareCall", "infixes", "call", "infix",
            "range", "float", "assign", "operatorCall", "dotCall", "index",
            "pair", "multi", "groupEnd", "callEnd", "arguments", "close",
            "blockArgument", "yieldBare", "indexEnd", "hashPair", "morePairs",
            "nextCondition", "open"}

\* One that looks at the top and leaves it, or another, there.
LEMMA Looks ==
  ASSUME NEW d \in Lookers, NEW x, NEW s, NEW j \in Nat, j >= 1
  PROVE  Runs(<<Do(d, x, s)>>, j, j)
<1> DEFINE w == Do(d, x, s)
<1>1. w.do = d
  BY DEF Do
<1> HIDE DEF w
<1>2. Works(w) /\ w.do \notin Programs \cup {"blockParameter"} /\ Effect(w) = 0 /\ Need(w) <= j
  BY <1>1 DEF Makers, Joiners, Lookers, Works, Programs, Effect, Need
<1>3. Runs(<<w>>, j, j + 0)
  BY <1>1, <1>2, RunsWork DEF Lookers, Excluded
<1> QED BY <1>3 DEF w

\* One that makes a node of those on top.
LEMMA RunsBuild ==
  ASSUME NEW m \in 1..3, NEW kind, NEW x, NEW j \in Nat, j >= m
  PROVE  Runs(<<DoBuild(m, kind, x)>>, j, j - m + 1)
<1> DEFINE w == DoBuild(m, kind, x)
<1>1. w.do = "build" /\ w.n = m
  BY DEF DoBuild
<1> HIDE DEF w
<1>2. Works(w) /\ w.do \notin Programs \cup {"blockParameter"} /\ Effect(w) = 1 - m /\ Need(w) <= j
  BY <1>1 DEF Works, Programs, Effect, Need
<1>3. Runs(<<w>>, j, j + (1 - m))
  BY <1>1, <1>2, RunsWork DEF Excluded
<1>4. j + (1 - m) = j - m + 1
  OBVIOUS
<1> QED BY <1>3, <1>4 DEF w

\* One that makes one more condition of a case.
LEMMA RunsCondition ==
  ASSUME NEW m \in 1..2, NEW s, NEW j \in Nat, NEW k \in Nat, k >= 1, j = k + m + 1
  PROVE  Runs(<<Do("caseCondition", m, s)>>, j, k)
<1> DEFINE w == Do("caseCondition", m, s)
<1>1. w.do = "caseCondition" /\ w.n = m
  BY DEF Do
<1> HIDE DEF w
<1>2. Works(w) /\ w.do \notin Programs \cup {"blockParameter"} /\ Effect(w) = -1 - m /\ Need(w) <= j
  BY <1>1 DEF Works, Programs, Effect, Need
<1>3. Runs(<<w>>, j, j + (-1 - m))
  BY <1>1, <1>2, RunsWork DEF Excluded
<1>4. j + (-1 - m) = k
  OBVIOUS
<1> QED BY <1>3, <1>4 DEF w

\* An expression is one node.
LEMMA RunsExpression ==
  ASSUME NEW x, NEW j \in Nat
  PROVE  Runs(<<Expression(x)>>, j, j + 1)
BY Makes DEF Expression, Makers

\* A body leaves one node.
LEMMA RunsBody ==
  ASSUME NEW s, NEW j \in Nat
  PROVE  Runs(Body(s), j, j + 1)
<1>1. Runs(<<Do("block", 0, s)>>, j, j + 1)
  BY Makes DEF Makers
<1>2. Runs(<<Do("keep", 0, "")>>, j + 1, j + 1)
  <2>1. j + 1 \in Nat /\ j + 1 >= 1
    OBVIOUS
  <2> QED BY <2>1, Looks DEF Lookers
<1> QED BY <1>1, <1>2, RunsTwo DEF Body

-----------------------------------------------------------------------------
(* A work is taken up.                                                     *)

\* The work on top is taken, with the trees it needs, and leaves what the rest is for.
LEMMA TakeUp ==
  ASSUME Sound(p), Parsing, work.do \notin Programs
  PROVE  /\ Len(p.val) \in Nat
         /\ Need(work) <= Len(p.val) /\ Works(work)
         /\ Has(q0, Len(p.val), Len(p.val) + Effect(work))
         /\ q0.val = p.val
         /\ \A i \in 1..Len(p.val) : Tree(p.val[i]) /\ Whole(p.val[i])
         /\ work.do \in Excluded => Dirty(p)
         /\ work.do = "blockParameter" => BlockComes(q0.todo)
<1>1. /\ DOMAIN p = Fields /\ Trees(p.val) /\ Balanced(Len(p.val), p.todo)
      /\ Len(p.val) \in Nat /\ p.todo[1] = work
  BY SequenceOf DEF Sound, Parsing, work, Trees, IsSequence
<1>2. /\ DOMAIN q0 = Fields /\ q0.val = p.val /\ q0.outcome = p.outcome
      /\ q0.todo = Tail(p.todo)
      /\ q0.input = p.input /\ q0.at = p.at /\ Input(q0) /\ q0.err = p.err
  BY <1>1 DEF q0, Fields, Sound, Parsing, Input
<1>3. \A i \in 1..Len(p.val) : Tree(p.val[i]) /\ Whole(p.val[i])
  BY <1>1 DEF Trees, Members, Whole, Sound, Pure, AllClean
<1>5. (work.do \in Excluded => Dirty(p)) /\ (Dirty(p) \/ Allowed(Tail(p.todo)))
  <2>1. p.todo \in Seq(Members(p.todo)) /\ p.todo # <<>>
    BY <1>1 DEF Balanced, IsSequence
  <2>2. work \in Members(p.todo) /\ Members(Tail(p.todo)) \subseteq Members(p.todo)
    BY <1>1, <2>1 DEF Members
  <2> QED BY <2>2 DEF Sound, Pure, Allowed
<1>6. Pure(q0) /\ (Dirty(p) => Dirty(q0))
  BY <1>2, <1>5 DEF Sound, Pure, Dirty, AllClean
<1>4. /\ Works(work) /\ Need(work) <= Len(p.val)
      /\ Balanced(Len(p.val) + Effect(work), Tail(p.todo))
      /\ work.do = "blockParameter" => BlockComes(Tail(p.todo))
  BY <1>1, PopWork
<1> QED BY <1>1, <1>2, <1>3, <1>4, <1>5, <1>6 DEF Has, Parsing

\* One that makes a node is taken.
LEMMA TakeMaker ==
  ASSUME Sound(p), NEW d \in Makers, Doing(d)
  PROVE  /\ \E n \in Nat : n = Len(p.val) /\ Has(q0, n, n + 1)
         /\ d \in Excluded => Dirty(p)
<1>1. work.do = d /\ Parsing
  BY DEF Doing
<1>2. work.do \notin Programs /\ Effect(work) = 1
  BY <1>1 DEF Makers, Programs, Effect
<1> QED BY <1>1, <1>2, TakeUp

\* One that joins two nodes is taken.
LEMMA TakeJoiner ==
  ASSUME Sound(p), NEW d \in Joiners \ {"moreProgram"}, Doing(d)
  PROVE  \E n \in Nat : /\ n = Len(p.val) /\ Has(q0, n, n - 1) /\ n >= 2
                        /\ d = "caseEnd" => n >= 3
                        /\ Tree(p.val[n]) /\ Tree(p.val[n - 1])
                        /\ Whole(p.val[n]) /\ Whole(p.val[n - 1])
                        /\ d \in Excluded => Dirty(p)
<1>1. work.do = d /\ Parsing
  BY DEF Doing
<1>2. /\ work.do \notin Programs /\ Effect(work) = -1
      /\ Need(work) = IF d = "caseEnd" THEN 3 ELSE 2
  BY <1>1 DEF Makers, Joiners, Programs, Effect, Need
<1>3. /\ Len(p.val) \in Nat /\ Has(q0, Len(p.val), Len(p.val) + (-1))
      /\ Need(work) <= Len(p.val) /\ \A i \in 1..Len(p.val) : Tree(p.val[i]) /\ Whole(p.val[i])
      /\ d \in Excluded => Dirty(p)
  BY <1>1, <1>2, TakeUp
<1>4. Len(p.val) + (-1) = Len(p.val) - 1 /\ Len(p.val) >= 2
  BY <1>2, <1>3
<1>5. /\ Tree(p.val[Len(p.val)]) /\ Tree(p.val[Len(p.val) - 1])
      /\ Whole(p.val[Len(p.val)]) /\ Whole(p.val[Len(p.val) - 1])
  BY <1>3, <1>4
<1> QED BY <1>2, <1>3, <1>4, <1>5

\* One that looks at a node is taken.
LEMMA TakeLooker ==
  ASSUME Sound(p), NEW d \in Lookers, Doing(d)
  PROVE  \E n \in Nat : n = Len(p.val) /\ Has(q0, n, n) /\ n >= 1 /\ Tree(Top(p)) /\ Whole(Top(p))
<1>1. work.do = d /\ Parsing
  BY DEF Doing
<1>2. work.do \notin Programs /\ Effect(work) = 0 /\ Need(work) = 1
  BY <1>1 DEF Makers, Joiners, Lookers, Programs, Effect, Need
<1>3. /\ Len(p.val) \in Nat /\ Has(q0, Len(p.val), Len(p.val) + 0)
      /\ Need(work) <= Len(p.val) /\ \A i \in 1..Len(p.val) : Tree(p.val[i]) /\ Whole(p.val[i])
  BY <1>1, <1>2, TakeUp
<1> QED BY <1>2, <1>3 DEF Top

\* The token the parser is at is one of the program's.
LEMMA TokenIsRead ==
  ASSUME Sound(p), Parsing
  PROVE  curToken(p).t \in {";", "DEF"} => Dirty(p)
<1>1. p.input \in Seq(Members(p.input)) /\ p.input # <<>> /\ p.at \in Nat \ {0}
  BY DEF Sound, Parsing, Input, IsSequence
<1>2. \E i \in 1..Len(p.input) : curToken(p) = p.input[i]
  BY <1>1 DEF curToken, TokenAt
<1> QED BY <1>2 DEF Dirty, Spotless

-----------------------------------------------------------------------------
(* Works in a row.                                                         *)

\* One that looks, for j nodes or one more.
LEMMA LooksOnce ==
  ASSUME NEW j \in Nat, NEW d \in Lookers, NEW x, NEW s
  PROVE  /\ j >= 1 => Runs(<<Do(d, x, s)>>, j, j)
         /\ Runs(<<Do(d, x, s)>>, j + 1, j + 1)
BY Looks

\* One that joins, for j nodes or one more.
LEMMA JoinsOnce ==
  ASSUME NEW j \in Nat, NEW d \in Joiners \ {"moreProgram", "caseEnd", "defClose"}, NEW x, NEW s
  PROVE  /\ j >= 2 => Runs(<<Do(d, x, s)>>, j, j - 1)
         /\ j >= 1 => Runs(<<Do(d, x, s)>>, j + 1, j)
<1>1. j >= 2 => Runs(<<Do(d, x, s)>>, j, j - 1)
  BY Joins
<1>2. ASSUME j >= 1 PROVE Runs(<<Do(d, x, s)>>, j + 1, j)
  <2>1. j + 1 \in Nat /\ j + 1 >= 2 /\ (j + 1) - 1 = j
    BY <1>2
  <2>2. Runs(<<Do(d, x, s)>>, j + 1, (j + 1) - 1)
    BY <2>1, Joins
  <2> QED BY <2>1, <2>2
<1> QED BY <1>1, <1>2

\* One that makes a node, for j nodes and one more.
LEMMA BuildsOnce ==
  ASSUME NEW j \in Nat, NEW kind, NEW x
  PROVE  /\ Runs(<<DoBuild(1, kind, x)>>, j + 1, j + 1)
         /\ j >= 1 => Runs(<<DoBuild(2, kind, x)>>, j + 1, j)
         /\ j >= 2 => Runs(<<DoBuild(3, kind, x)>>, j + 1, j - 1)
<1>1. j + 1 \in Nat /\ (j + 1) - 1 + 1 = j + 1 /\ (j + 1) - 2 + 1 = j /\ (j + 1) - 3 + 1 = j - 1
  OBVIOUS
<1>2. Runs(<<DoBuild(1, kind, x)>>, j + 1, (j + 1) - 1 + 1)
  BY <1>1, RunsBuild
<1>3. j >= 1 => Runs(<<DoBuild(2, kind, x)>>, j + 1, (j + 1) - 2 + 1)
  BY <1>1, RunsBuild
<1>4. j >= 2 => Runs(<<DoBuild(3, kind, x)>>, j + 1, (j + 1) - 3 + 1)
  BY <1>1, RunsBuild
<1> QED BY <1>1, <1>2, <1>3, <1>4

\* An expression and what becomes of it.
LEMMA AfterExpression ==
  ASSUME NEW j \in Nat, NEW prec, NEW x, NEW s, NEW kind
  PROVE  /\ \A d \in Lookers : Runs(<<Expression(prec), Do(d, x, s)>>, j, j + 1)
         /\ \A d \in Joiners \ {"moreProgram", "caseEnd", "defClose"} :
              j >= 1 => Runs(<<Expression(prec), Do(d, x, s)>>, j, j)
         /\ Runs(<<Expression(prec), DoBuild(1, kind, x)>>, j, j + 1)
         /\ j >= 1 => Runs(<<Expression(prec), DoBuild(2, kind, x)>>, j, j)
<1>1. Runs(<<Expression(prec)>>, j, j + 1)
  BY RunsExpression
<1>2. \A d \in Lookers : Runs(<<Expression(prec), Do(d, x, s)>>, j, j + 1)
  BY <1>1, LooksOnce, RunsTwo
<1>3. \A d \in Joiners \ {"moreProgram", "caseEnd", "defClose"} :
        j >= 1 => Runs(<<Expression(prec), Do(d, x, s)>>, j, j)
  BY <1>1, JoinsOnce, RunsTwo
<1>4. Runs(<<Expression(prec), DoBuild(1, kind, x)>>, j, j + 1)
  BY <1>1, BuildsOnce, RunsTwo
<1>5. j >= 1 => Runs(<<Expression(prec), DoBuild(2, kind, x)>>, j, j)
  BY <1>1, BuildsOnce, RunsTwo
<1> QED BY <1>2, <1>3, <1>4, <1>5

\* A block and what becomes of it.
LEMMA AfterBlock ==
  ASSUME NEW j \in Nat, NEW s, NEW kind
  PROVE  /\ j >= 1 => Runs(<<Do("block", 0, s), DoBuild(2, kind, "")>>, j, j)
         /\ j >= 2 => Runs(<<Do("block", 0, s), DoBuild(3, kind, "")>>, j, j - 1)
         /\ j >= 1 => Runs(Body(s) \o <<Do("adopt", 0, "")>>, j, j)
         /\ j >= 2 => Runs(Body(s) \o <<Do("adopt", 0, ""), Do("adopt", 0, "")>>, j, j - 1)
<1>1. Runs(<<Do("block", 0, s)>>, j, j + 1) /\ Runs(Body(s), j, j + 1)
  BY Makes, RunsBody DEF Makers
<1>2. /\ j >= 1 => Runs(<<Do("adopt", 0, "")>>, j + 1, j)
      /\ j >= 2 => Runs(<<Do("adopt", 0, "")>>, j, j - 1)
  BY JoinsOnce DEF Joiners
<1>3. j >= 2 => Runs(<<Do("adopt", 0, ""), Do("adopt", 0, "")>>, j + 1, j - 1)
  <2> SUFFICES ASSUME j >= 2
               PROVE  Runs(<<Do("adopt", 0, ""), Do("adopt", 0, "")>>, j + 1, j - 1)
    OBVIOUS
  <2>1. j >= 1
    OBVIOUS
  <2>2. Runs(<<Do("adopt", 0, "")>>, j + 1, j) /\ Runs(<<Do("adopt", 0, "")>>, j, j - 1)
    BY <1>2, <2>1
  <2> QED BY <2>2, RunsTwo
<1> QED BY <1>1, <1>2, <1>3, BuildsOnce, RunsTwo, RunsConcat

\* The two on top are dropped.
LEMMA DropsTwo ==
  ASSUME NEW q, NEW n, NEW k, Has(q, n, k), n >= 2
  PROVE  Has(Drop(Drop(q)), n - 2, k)
<1>1. n \in Nat
  BY HasTrees
<1>2. Has(Drop(q), n - 1, k)
  BY <1>1, Drops
<1>3. Has(Drop(Drop(q)), (n - 1) - 1, k)
  BY <1>1, <1>2, Drops
<1>4. (n - 1) - 1 = n - 2
  BY <1>1
<1> QED BY <1>3, <1>4

\* The top is replaced.
LEMMA Replaces ==
  ASSUME NEW q, NEW n, NEW k, Has(q, n, k), n >= 1, NEW node, Tree(node),
         Whole(node) \/ Dirty(q)
  PROVE  Has(Push(Drop(q), node), n, k)
<1>1. n \in Nat
  BY HasTrees
<1>2. Has(Drop(q), n - 1, k)
  BY <1>1, Drops
<1>3. Has(Push(Drop(q), node), (n - 1) + 1, k)
  BY <1>2, DropsDirt, Pushes
<1>4. (n - 1) + 1 = n
  BY <1>1
<1> QED BY <1>3, <1>4

\* One or two nodes become the children of a new one.
LEMMA BuildsOne ==
  ASSUME NEW q, NEW n, NEW k, Has(q, n, k), NEW kind, NEW x
  PROVE  /\ n >= 1 => Has(Build(q, 1, kind, x), n, k)
         /\ n >= 2 => Has(Build(q, 2, kind, x), n - 1, k)
<1>1. n \in Nat /\ n - 1 + 1 = n /\ n - 2 + 1 = n - 1
  BY HasTrees
<1>2. n >= 1 => Has(Build(q, 1, kind, x), n - 1 + 1, k)
  BY <1>1, Builds
<1>3. n >= 2 => Has(Build(q, 2, kind, x), n - 2 + 1, k)
  BY <1>1, Builds
<1> QED BY <1>1, <1>2, <1>3

-----------------------------------------------------------------------------
(* Every function keeps the parser sound.  A lemma for each, or for those   *)
(* of a kind: what was on the stack when its work was taken, what each of   *)
(* its ways out leaves there, and that this is what the rest is for.        *)

LEMMA StatementKeeps ==
  ASSUME Sound(p), parseStatement
  PROVE  Sound(p')
<1>1. PICK n \in Nat : Has(q0, n, n + 1)
  BY TakeMaker DEF parseStatement, Makers
<1>2. \A x : Runs(<<Expression(x), Do("mark", 0, "")>>, n, n + 1)
  BY AfterExpression DEF Lookers
<1>3. \A t \in StatementTokens \ {"CONTINUE", "BREAK"} :
        \/ Runs(<<Do(t, 0, "")>>, n, n + 1)
        \/ Balances(<<Do(t, 0, "")>>, n, n + 1) /\ t = "DEF"
  BY Makes DEF StatementTokens, Makers
<1> DEFINE t == curToken(p).t
<1>4. CASE p' = Push(q0, Leaf(t, ""))
  BY <1>1, <1>4, Pushes, SmallTrees, HasIsSound
<1>5. CASE t \in StatementTokens \ {"CONTINUE", "BREAK"} /\ p' = Then(q0, <<Do(t, 0, "")>>)
  <2>1. t = "DEF" => Dirty(q0)
    BY <1>1, TokenIsRead, HasTrees DEF parseStatement, Doing
  <2> QED BY <1>1, <1>3, <1>5, <2>1, ThenRuns, HasIsSound
<1>6. CASE \E x : p' = Then(q0, <<Expression(x), Do("mark", 0, "")>>)
  BY <1>1, <1>2, <1>6, ThenRuns, HasIsSound
<1> QED BY <1>4, <1>5, <1>6 DEF parseStatement

LEMMA MarkKeeps ==
  ASSUME Sound(p), markExpression \/ KeepLastValue
  PROVE  Sound(p')
<1>1. PICK n \in Nat : Has(q0, n, n)
  BY TakeLooker DEF markExpression, KeepLastValue, Lookers
<1>2. DOMAIN q0 = Fields
  BY <1>1, HasTrees
<1>3. p' = Panic(q0) \/ p' = q0
  BY DEF markExpression, KeepLastValue
<1> QED BY <1>1, <1>2, <1>3, PanicIsSound, HasIsSound

LEMMA ReturnKeeps ==
  ASSUME Sound(p), parseReturnStatement
  PROVE  Sound(p')
<1>1. PICK n \in Nat : Has(q0, n, n + 1)
  BY TakeMaker DEF parseReturnStatement, Makers
<1>2. Runs(<<Expression(Normal), DoBuild(1, "return", "")>>, n, n + 1)
  BY AfterExpression
<1>3. Tree(Node("return", "", <<Leaf("NIL", "")>>)) /\ Whole(Node("return", "", <<Leaf("NIL", "")>>))
  BY SmallTrees, SmallClean, FewNodes, NodeIsTree
<1>4. Has(p', n, n) \/ Has(p', n + 1, n + 1)
  BY <1>1, <1>2, <1>3, Moves, ThenRuns, Pushes DEF parseReturnStatement
<1> QED BY <1>4, HasIsSound

LEMMA BuildKeeps ==
  ASSUME Sound(p), build
  PROVE  Sound(p')
<1>1. work.do = "build" /\ Parsing /\ p' = Build(q0, work.n, work.s, work.x)
  BY DEF build, Doing
<1>2. work.do \notin Programs
  BY <1>1 DEF Programs
<1> DEFINE n == Len(p.val)
<1>3. n \in Nat /\ Need(work) <= n /\ Works(work) /\ Has(q0, n, n + Effect(work))
  BY <1>1, <1>2, TakeUp
<1>4. work.n \in 1..3 /\ Effect(work) = 1 - work.n /\ Need(work) = 1 - (1 - work.n)
  BY <1>1, <1>3 DEF Works, Effect, Need
<1>5. work.n \in Nat /\ work.n <= n /\ n + (1 - work.n) = n - work.n + 1
  BY <1>3, <1>4
<1>6. Has(p', n - work.n + 1, n - work.n + 1)
  BY <1>1, <1>3, <1>4, <1>5, Builds
<1> QED BY <1>6, HasIsSound

LEMMA WhileKeeps ==
  ASSUME Sound(p), parseWhileStatement \/ parseWhileBody
  PROVE  Sound(p')
<1>1. CASE parseWhileStatement
  <2>1. PICK n \in Nat : Has(q0, n, n + 1)
    BY <1>1, TakeMaker DEF parseWhileStatement, Makers
  <2>2. Runs(<<Expression(Normal), Do("whileBody", 0, p.fsm)>>, n, n + 1)
    BY AfterExpression DEF Lookers
  <2>3. Has(p', n, n)
    BY <1>1, <2>1, <2>2, Moves, ThenRuns DEF parseWhileStatement
  <2> QED BY <2>3, HasIsSound
<1>2. CASE parseWhileBody
  <2>1. PICK n \in Nat : Has(q0, n, n) /\ n >= 1
    BY <1>2, TakeLooker DEF parseWhileBody, Lookers
  <2>2. Runs(<<Do("block", 0, "}"), DoBuild(2, "while", "")>>, n, n)
    BY <2>1, AfterBlock
  <2>3. Has(p', n, n)
    BY <1>2, <2>1, <2>2, Moves, ThenRuns DEF parseWhileBody
  <2> QED BY <2>3, HasIsSound
<1> QED BY <1>1, <1>2

LEMMA ClassKeeps ==
  ASSUME Sound(p), parseModuleStatement \/ parseClassStatement
  PROVE  Sound(p')
<1>1. PICK n \in Nat : Has(q0, n, n + 1)
  BY TakeMaker DEF parseModuleStatement, parseClassStatement, Makers
<1> DEFINE q == Push(nextToken(q0), Leaf("CONSTANT", peekToken(p).v))
<1>2. Has(q, n + 1, n + 1)
  BY <1>1, Moves, Pushes, SmallTrees
<1>0. n + 1 \in Nat /\ n + 1 >= 1
  OBVIOUS
<1>3. \A k : Runs(<<Do("block", 0, "}"), DoBuild(2, k, "")>>, n + 1, n + 1)
  BY <1>0, AfterBlock
<1>4. Runs(<<Expression(Normal), Do("superclass", 0, "")>>, n + 1, n + 1)
  BY <1>0, AfterExpression DEF Joiners
<1>5. Has(Push(peekError(q0, "CONSTANT"), NilStmt), n + 1, n + 1)
  BY <1>1, Moves, Pushes, SmallTrees
<1> HIDE DEF q
<1>6. CASE p' = Push(peekError(q0, "CONSTANT"), NilStmt)
  BY <1>5, <1>6, HasIsSound
<1>7. CASE \E k : p' = Then(Expect(q, "{"), <<Do("block", 0, "}"), DoBuild(2, k, "")>>)
  BY <1>2, <1>3, <1>7, Moves, ThenRuns, HasIsSound
<1>8. CASE p' = Then(nextToken(nextToken(q)), <<Expression(Normal), Do("superclass", 0, "")>>)
  BY <1>2, <1>4, <1>8, Moves, ThenRuns, HasIsSound
<1> QED BY <1>6, <1>7, <1>8 DEF parseModuleStatement, parseClassStatement, q

LEMMA SuperClassKeeps ==
  ASSUME Sound(p), parseSuperClass
  PROVE  Sound(p')
<1>1. PICK n \in Nat : Has(q0, n, n - 1) /\ n >= 2
  BY TakeJoiner DEF parseSuperClass, Joiners
<1>2. Runs(<<Do("block", 0, "}"), DoBuild(3, "class", "")>>, n, n - 1)
  BY <1>1, AfterBlock
<1>3. DOMAIN q0 = Fields
  BY <1>1, HasTrees
<1>4. p' = Panic(q0) \/ Has(p', n, n)
  BY <1>1, <1>2, Moves, ThenRuns DEF parseSuperClass
<1> QED BY <1>3, <1>4, PanicIsSound, HasIsSound

\* A tree is pushed in place of one that was dropped.
LEMMA PushesBack ==
  ASSUME NEW q, NEW n \in Nat, NEW k, Has(q, n - 1, k), NEW node, Tree(node),
         Whole(node) \/ Dirty(q)
  PROVE  Has(Push(q, node), n, k)
<1>1. Has(Push(q, node), (n - 1) + 1, k)
  BY Pushes
<1> QED BY <1>1

LEMMA BlockKeeps ==
  ASSUME Sound(p), parseBlockStatement
  PROVE  Sound(p')
<1>1. PICK n \in Nat : Has(q0, n, n + 1)
  BY TakeMaker DEF parseBlockStatement, Makers
<1> DEFINE q == nextToken(AcceptBlock(q0, TRUE))
           r == IF curTokenIs(q, ";") THEN nextToken(q) ELSE q
<1>2. Has(r, n, n + 1)
  BY <1>1, Moves
<1>3. Has(Push(r, Leaf("block", "")), n + 1, n + 1)
  BY <1>2, Pushes, SmallTrees
<1>4. Runs(<<Do("statements", 0, work.s)>>, n + 1, n + 1)
  BY LooksOnce DEF Lookers
<1>5. Has(Then(Push(r, Leaf("block", "")), <<Do("statements", 0, work.s)>>), n + 1, n + 1)
  BY <1>3, <1>4, ThenRuns
<1>6. Has(Push(Error(AcceptBlock(q0, TRUE), "Syntax"), Leaf("block", "")), n + 1, n + 1)
  BY <1>1, Moves, Pushes, SmallTrees
<1>7. \/ p' = Push(Error(AcceptBlock(q0, TRUE), "Syntax"), Leaf("block", ""))
      \/ p' = Then(Push(r, Leaf("block", "")), <<Do("statements", 0, work.s)>>)
  BY DEF parseBlockStatement
<1> QED BY <1>5, <1>6, <1>7, HasIsSound

LEMMA BlockStatementsKeep ==
  ASSUME Sound(p), parseBlockStatements
  PROVE  Sound(p')
<1>1. PICK n \in Nat : Has(q0, n, n) /\ n >= 1
  BY TakeLooker DEF parseBlockStatements, Lookers
<1>2. Runs(<<Do("statement", 0, "")>>, n, n + 1)
  BY Makes DEF Makers
<1>3. Runs(<<Do("moreStatements", 0, work.s)>>, n + 1, n)
  BY <1>1, JoinsOnce DEF Joiners
<1>4. Runs(<<Do("statement", 0, ""), Do("moreStatements", 0, work.s)>>, n, n)
  BY <1>2, <1>3, RunsTwo
<1>5. Has(p', n, n)
  BY <1>1, <1>4, Moves, ThenRuns DEF parseBlockStatements
<1> QED BY <1>5, HasIsSound

LEMMA BlockNextKeeps ==
  ASSUME Sound(p), parseBlockNext
  PROVE  Sound(p')
<1>1. PICK n \in Nat : Has(q0, n, n - 1) /\ n >= 2
  BY TakeJoiner DEF parseBlockNext, Joiners
<1>2. n - 1 \in Nat /\ n - 1 >= 1
  BY <1>1
<1>3. Runs(<<Do("statements", 0, work.s)>>, n - 1, n - 1)
  BY <1>2, LooksOnce DEF Lookers
<1>4. Has(Drop(q0), n - 1, n - 1) /\ Has(AddKid(q0), n - 1, n - 1)
  BY <1>1, Drops, AddsKid
<1>5. Has(p', n - 1, n - 1)
  BY <1>3, <1>4, Moves, ThenRuns DEF parseBlockNext
<1> QED BY <1>5, HasIsSound

LEMMA DefKeeps ==
  ASSUME Sound(p), parseDefMethodStatement
  PROVE  Sound(p')
<1>1. PICK n \in Nat : Has(q0, n, n + 1)
  BY TakeMaker DEF parseDefMethodStatement, Makers
<1>0. Dirty(p)
  BY TakeMaker DEF parseDefMethodStatement, Makers, Excluded
<1> DEFINE q == nextToken(q0)
           receiver == curToken(q)
           scoped == peekTokenIs(q, ".")
           named == IF scoped THEN nextToken(nextToken(q)) ELSE q
           setter == peekTokenIs(named, "=")
           method == Node(IF setter THEN "def=" ELSE "def", curToken(named).v,
                          IF scoped THEN <<Leaf(receiver.t, receiver.v)>> ELSE <<>>)
           r == Push(IF setter THEN nextToken(named) ELSE named, method)
           s == Push(IF peekTokenIs(r, "IDENT") /\ peekTokenAtSameLine(r)
                     THEN Error(r, "MethodDefinition") ELSE r, Leaf("params", ""))
<1>2. Has(q, n, n + 1)
  BY <1>1, Moves
<1> HIDE DEF q
<1>3. Has(named, n, n + 1)
  BY <1>2, Moves
<1>4. Has(IF setter THEN nextToken(named) ELSE named, n, n + 1)
  <2> HIDE DEF named
  <2> QED BY <1>3, Moves
<1>5. Tree(method) /\ Whole(method)
  <2>1. Listed(IF scoped THEN <<Leaf(receiver.t, receiver.v)>> ELSE <<>>)
    BY FewNodes, SmallTrees
  <2>2. Whole(method)
    BY SmallTrees, SmallClean
  <2> QED BY <2>1, <2>2, NodeIsTree
<1> HIDE DEF method
<1>6. Has(r, n + 1, n + 1)
  BY <1>4, <1>5, Pushes
<1> HIDE DEF r
<1>7. Has(s, n + 2, n + 1)
  <2>1. Has(IF peekTokenIs(r, "IDENT") /\ peekTokenAtSameLine(r)
            THEN Error(r, "MethodDefinition") ELSE r, n + 1, n + 1)
    BY <1>6, Moves
  <2>2. Has(s, (n + 1) + 1, n + 1)
    BY <2>1, Pushes, SmallTrees
  <2>3. (n + 1) + 1 = n + 2
    OBVIOUS
  <2> QED BY <2>2, <2>3
<1> HIDE DEF s
<1>8. n + 2 \in Nat /\ n + 2 >= 2 /\ (n + 2) - 1 = n + 1
  OBVIOUS
<1>9. /\ Runs(<<Do("defBody", 0, "")>>, n + 2, n + 1)
      /\ Balances(<<Do("defClose", 0, "")>>, n + 2, n + 1)
  <2>1. {"defBody", "defClose"} \subseteq Joiners \ {"moreProgram"}
    BY DEF Joiners
  <2> QED BY <1>8, <2>1, Joins
<1>10. Runs(<<Do("parameter", 1, "")>>, n + 2, n + 2)
  <2>1. n + 2 \in Nat /\ n + 2 >= 1
    OBVIOUS
  <2> QED BY <2>1, LooksOnce DEF Lookers
<1>11. Balances(<<Do("parameter", 1, ""), Do("defClose", 0, "")>>, n + 2, n + 1)
  <2> DEFINE a == Do("parameter", 1, "")
             b == Do("defClose", 0, "")
  <2>1. Balances(<<a>>, n + 2, n + 2) /\ Balances(<<b>>, n + 2, n + 1)
    BY <1>9, <1>10 DEF Runs
  <2> HIDE DEF a, b
  <2>2. Balances(<<a>> \o <<b>>, n + 2, n + 1)
    BY <2>1, BalancesConcat
  <2>3. <<a, b>> = <<a>> \o <<b>>
    BY Concat
  <2>4. Balances(<<a, b>>, n + 2, n + 1)
    BY <2>2, <2>3
  <2> QED BY <2>4 DEF a, b
<1>15. ASSUME NEW t, Has(t, n + 2, n + 1) PROVE Dirty(t)
  BY <1>0, <1>15, HasTrees
<1>12. CASE p' = Push(Error(q, "MethodDefinition"), NilStmt)
            \/ p' = Push(peekError(nextToken(q), "IDENT"), NilStmt)
  <2>2. /\ Has(Error(q, "MethodDefinition"), n, n + 1)
        /\ Dirty(Error(q, "MethodDefinition"))
    BY <1>2, Moves
  <2>3. Has(nextToken(q), n, n + 1)
    BY <1>2, Moves
  <2>4. /\ Has(peekError(nextToken(q), "IDENT"), n, n + 1)
        /\ Dirty(peekError(nextToken(q), "IDENT"))
    BY <2>3, Moves
  <2>1. Has(p', n + 1, n + 1)
    BY <1>12, <2>2, <2>4, Pushes, SmallTrees
  <2> QED BY <2>1, HasIsSound
<1>13. CASE p' = Then(s, <<Do("defBody", 0, "")>>) \/ p' = Then(nextToken(s), <<Do("defClose", 0, "")>>)
  <2>1. Has(p', n + 2, n + 2)
    BY <1>7, <1>9, <1>13, <1>15, Moves, ThenRuns
  <2> QED BY <2>1, HasIsSound
<1>14. CASE p' = Then(nextToken(State(nextToken(s), "param")),
                      <<Do("parameter", 1, ""), Do("defClose", 0, "")>>)
  <2>1. Has(p', n + 2, n + 2)
    BY <1>7, <1>11, <1>14, <1>15, Moves, ThenRuns
  <2> QED BY <2>1, HasIsSound
<1> QED BY Zenon, <1>12, <1>13, <1>14
        DEF parseDefMethodStatement, q, named, method, r, s

LEMMA ParameterKeeps ==
  ASSUME Sound(p), parseParameter
  PROVE  Sound(p')
<1>1. PICK n \in Nat : Has(q0, n, n) /\ n >= 1
  BY TakeLooker DEF parseParameter, Lookers
<1>2. Runs(<<Do("checkParameters", 0, "")>>, n, n)
  BY <1>1, LooksOnce DEF Lookers
<1>3. Runs(<<Expression(Normal), Do("moreParameters", work.n, "")>>, n, n)
  BY <1>1, AfterExpression DEF Joiners
<1>4. Has(p', n, n)
  BY <1>1, <1>2, <1>3, Moves, ThenRuns DEF parseParameter
<1> QED BY <1>4, HasIsSound

LEMMA MoreParametersKeep ==
  ASSUME Sound(p), parseMoreParameters
  PROVE  Sound(p')
<1>1. PICK n \in Nat : Has(q0, n, n - 1) /\ n >= 2
  BY TakeJoiner DEF parseMoreParameters, Joiners
<1>2. n - 1 \in Nat /\ n - 1 >= 1
  BY <1>1
<1>3. /\ Runs(<<Do("checkParameters", 0, "")>>, n - 1, n - 1)
      /\ Runs(<<Do("parameter", work.n + 1, "")>>, n - 1, n - 1)
  BY <1>2, LooksOnce DEF Lookers
<1>4. Has(AddKid(q0), n - 1, n - 1)
  BY <1>1, AddsKid
<1>5. Has(p', n - 1, n - 1)
  BY <1>3, <1>4, Moves, ThenRuns DEF parseMoreParameters
<1> QED BY <1>5, HasIsSound

LEMMA CheckParametersKeeps ==
  ASSUME Sound(p), checkMethodParameters
  PROVE  Sound(p')
<1>1. PICK n \in Nat : Has(q0, n, n)
  BY TakeLooker DEF checkMethodParameters, Lookers
<1> DEFINE q == State(q0, "normal")
<1>2. p' = q \/ p' = Error(q, "Argument") \/ p' = Panic(q0)
  BY DEF checkMethodParameters
<1>3. Has(q, n, n) /\ Has(Error(q, "Argument"), n, n) /\ DOMAIN q0 = Fields
  BY <1>1, Moves, HasTrees
<1> QED BY <1>2, <1>3, PanicIsSound, HasIsSound

LEMMA DefCloseKeeps ==
  ASSUME Sound(p), parseDefClose
  PROVE  Sound(p')
<1>1. PICK n \in Nat : Has(q0, n, n - 1) /\ n >= 2 /\ Dirty(p)
  BY TakeJoiner DEF parseDefClose, Joiners, Excluded
<1>2. Runs(<<Do("defBody", 0, "")>>, n, n - 1)
  BY <1>1, JoinsOnce DEF Joiners
<1>3. ASSUME NEW q, Has(q, n, n - 1) PROVE Has(Push(Drop(Drop(q)), NilStmt), n - 1, n - 1)
  <2>1. Has(Drop(Drop(q)), n - 2, n - 1)
    BY <1>1, <1>3, DropsTwo
  <2>2. (n - 1) - 1 = n - 2 /\ n - 1 \in Nat
    BY <1>1
  <2>3. Has(Drop(Drop(q)), (n - 1) - 1, n - 1)
    BY <2>1, <2>2
  <2>4. Dirty(Drop(Drop(q)))
    BY <1>1, <1>3, HasTrees, DropsDirt
  <2> QED BY <2>2, <2>3, <2>4, PushesBack, SmallTrees
<1>4. Has(p', n - 1, n - 1) \/ Has(p', n, n)
  BY <1>1, <1>2, <1>3, Moves, ThenRuns DEF parseDefClose
<1> QED BY <1>4, HasIsSound

LEMMA DefBodyKeeps ==
  ASSUME Sound(p), parseDefBody \/ adopt
  PROVE  Sound(p')
<1>1. PICK n \in Nat : Has(q0, n, n - 1) /\ n >= 2
  BY TakeJoiner DEF parseDefBody, adopt, Joiners
<1>2. n - 1 \in Nat /\ n - 1 >= 1
  BY <1>1
<1>3. Runs(Body("}") \o <<Do("adopt", 0, "")>>, n - 1, n - 1)
  BY <1>2, AfterBlock
<1>4. Has(AddKid(q0), n - 1, n - 1)
  BY <1>1, AddsKid
<1>5. Has(p', n - 1, n - 1)
  BY <1>3, <1>4, Moves, ThenRuns DEF parseDefBody, adopt
<1> QED BY <1>5, HasIsSound

\* What parses a token at the beginning of an expression makes a node.
LEMMA PrefixFunctions ==
  \A t \in DOMAIN prefixParseFns :
    prefixParseFns[t] \in Makers /\ (prefixParseFns[t] \in Excluded => t = ";")
<1> SUFFICES ASSUME NEW t \in DOMAIN prefixParseFns
             PROVE  prefixParseFns[t] \in Makers /\ (prefixParseFns[t] \in Excluded => t = ";")
  OBVIOUS
<1> DEFINE others == {"CONSTANT", "(", "IF", "SWITCH", "[", "{", ";", "YIELD"}
           f == CASE t \in Leaves          -> "leaf"
                  [] t \in PrefixOperators -> "prefix"
                  [] t = "CONSTANT" -> "constant" [] t = "("     -> "group"
                  [] t = "IF"       -> "if"       [] t = "SWITCH" -> "switch"
                  [] t = "["        -> "array"    [] t = "{"     -> "hash"
                  [] t = ";"        -> "semicolon" [] t = "YIELD" -> "yield"
<1>1. t \in Leaves \cup PrefixOperators \cup others /\ prefixParseFns[t] = f
  BY Zenon DEF prefixParseFns
<1>2. /\ f \in {"leaf", "prefix", "constant", "group", "if", "switch", "array", "hash",
             "semicolon", "yield"}
      /\ f = "semicolon" => t = ";"
  BY <1>1 DEF Leaves, PrefixOperators
<1> QED BY <1>1, <1>2 DEF Makers, Excluded

\* What parses a token after an expression looks at that expression.
LEMMA InfixFunctions ==
  \A t \in DOMAIN infixParseFns : infixParseFns[t] \in Lookers
<1> SUFFICES ASSUME NEW t \in DOMAIN infixParseFns
             PROVE  infixParseFns[t] \in Lookers
  OBVIOUS
<1> DEFINE others == {"..", "...", ",", ".", "(", "[", ":"}
           f == CASE t \in InfixOperators   -> "infix"
                  [] t \in Assignments      -> "assign"
                  [] t \in KeywordOperators -> "operatorCall"
                  [] t \in {"..", "..."}    -> "range"
                  [] t = "," -> "multi" [] t = "." -> "dotCall" [] t = "(" -> "call"
                  [] t = "[" -> "index" [] t = ":" -> "pair"
<1>1. /\ t \in InfixOperators \cup Assignments \cup KeywordOperators \cup others
      /\ infixParseFns[t] = f
  BY Zenon DEF infixParseFns
<1>2. f \in {"infix", "assign", "operatorCall", "range", "multi", "dotCall", "call",
             "index", "pair"}
  BY <1>1
<1> QED BY <1>1, <1>2 DEF Lookers

LEMMA ExpressionKeeps ==
  ASSUME Sound(p), parseExpression
  PROVE  Sound(p')
<1>1. PICK n \in Nat : Has(q0, n, n + 1)
  BY TakeMaker DEF parseExpression, Makers
<1>2. Has(Push(q0, Leaf("IDENT", curToken(p).v)), n + 1, n + 1)
  BY <1>1, Pushes, SmallTrees
<1>3. \A d \in {"call", "afterBareCall", "infixes"} : \A x : Runs(<<Do(d, x, "")>>, n + 1, n + 1)
  BY LooksOnce DEF Lookers
<1>4. Runs(<<Do("call", 0, ""), Do("afterBareCall", work.n, "")>>, n + 1, n + 1)
  BY <1>3, RunsTwo
<1> DEFINE t == curToken(p).t
<1>5. ASSUME t \in DOMAIN prefixParseFns
      PROVE  LET works == <<Do(prefixParseFns[t], 0, ""), Do("infixes", work.n, "")>>
             IN Runs(works, n, n + 1) \/ (Balances(works, n, n + 1) /\ Dirty(q0))
  <2> DEFINE a == Do(prefixParseFns[t], 0, "")
             b == Do("infixes", work.n, "")
  <2>1. Balances(<<a>>, n, n + 1)
    BY <1>5, PrefixFunctions, Makes
  <2>2. t # ";" => Runs(<<a>>, n, n + 1)
    BY <1>5, PrefixFunctions, Makes DEF Excluded
  <2>3. t = ";" => Dirty(q0)
    BY <1>1, TokenIsRead, HasTrees DEF parseExpression, Doing
  <2>4. Runs(<<b>>, n + 1, n + 1)
    BY <1>3
  <2> SUFFICES Runs(<<a, b>>, n, n + 1) \/ (Balances(<<a, b>>, n, n + 1) /\ Dirty(q0))
    OBVIOUS
  <2> HIDE DEF a, b
  <2>5. CASE t # ";"
    BY <2>2, <2>4, <2>5, RunsTwo
  <2>6. CASE t = ";"
    <3>1. Balances(<<b>>, n + 1, n + 1)
      BY <2>4 DEF Runs
    <3>2. Balances(<<a>> \o <<b>>, n, n + 1)
      BY <2>1, <3>1, BalancesConcat
    <3>3. <<a, b>> = <<a>> \o <<b>>
      BY Concat
    <3> QED BY <2>3, <2>6, <3>2, <3>3
  <2> QED BY <2>5, <2>6
<1> HIDE DEF t
<1>6. CASE \/ p' = Push(noPrefixParseFnError(q0), NilNode)
           \/ p' = Push(Error(q0, "UnexpectedToken"), NilNode)
  <2>2. /\ Has(noPrefixParseFnError(q0), n, n + 1)
        /\ Dirty(noPrefixParseFnError(q0))
        /\ Has(Error(q0, "UnexpectedToken"), n, n + 1)
        /\ Dirty(Error(q0, "UnexpectedToken"))
    BY <1>1, Moves
  <2>1. Has(p', n + 1, n + 1)
    BY <1>6, <2>2, Pushes, SmallTrees
  <2> QED BY <2>1, HasIsSound
<1>7. CASE p' = Then(Push(q0, Leaf("IDENT", curToken(p).v)),
                     <<Do("call", 0, ""), Do("afterBareCall", work.n, "")>>)
  BY <1>2, <1>4, <1>7, ThenRuns, HasIsSound
<1>8. CASE /\ t \in DOMAIN prefixParseFns
           /\ p' = Then(q0, <<Do(prefixParseFns[t], 0, ""), Do("infixes", work.n, "")>>)
  BY <1>1, <1>5, <1>8, ThenRuns, HasIsSound
<1> QED BY <1>6, <1>7, <1>8 DEF parseExpression, t

LEMMA AfterBareCallKeeps ==
  ASSUME Sound(p), parseAfterBareCall
  PROVE  Sound(p')
<1>1. PICK n \in Nat : Has(q0, n, n) /\ n >= 1
  BY TakeLooker DEF parseAfterBareCall, Lookers
<1>2. Runs(<<Do("infixes", work.n, "")>>, n, n)
  BY <1>1, LooksOnce DEF Lookers
<1>3. Has(p', n, n)
  BY <1>1, <1>2, ThenRuns DEF parseAfterBareCall
<1> QED BY <1>3, HasIsSound

LEMMA InfixesKeep ==
  ASSUME Sound(p), parseInfixes
  PROVE  Sound(p')
<1>1. PICK n \in Nat : Has(q0, n, n) /\ n >= 1
  BY TakeLooker DEF parseInfixes, Lookers
<1> DEFINE t == peekToken(p).t
           d == IF IsFloat(p) THEN "float" ELSE infixParseFns[t]
<1>2. ASSUME t \in DOMAIN infixParseFns
      PROVE  Runs(<<Do(d, 0, ""), Do("infixes", work.n, "")>>, n, n)
  <2>1. d \in Lookers /\ "infixes" \in Lookers
    BY <1>2, InfixFunctions DEF Lookers
  <2> HIDE DEF d
  <2>2. Runs(<<Do(d, 0, "")>>, n, n) /\ Runs(<<Do("infixes", work.n, "")>>, n, n)
    BY <1>1, <2>1, LooksOnce
  <2> QED BY <2>2, RunsTwo
<1>3. \/ p' = q0 \/ p' = nextToken(q0)
      \/ /\ t \in DOMAIN infixParseFns
         /\ p' = Then(nextToken(q0), <<Do(d, 0, ""), Do("infixes", work.n, "")>>)
  BY DEF parseInfixes
<1> HIDE DEF t, d
<1>4. Has(p', n, n)
  BY <1>1, <1>2, <1>3, Moves, ThenRuns
<1> QED BY <1>4, HasIsSound

LEMMA FloatKeeps ==
  ASSUME Sound(p), parseFloatLiteral
  PROVE  Sound(p')
<1>1. PICK n \in Nat : Has(q0, n, n) /\ n >= 1
  BY TakeLooker DEF parseFloatLiteral, Lookers
<1> DEFINE q == nextToken(q0)
<1>2. Has(q, n, n)
  BY <1>1, Moves
<1>3. Has(Drop(q), n - 1, n)
  BY <1>1, <1>2, Drops
<1>4. Has(Push(Error(Drop(q), "Syntax"), NilNode), n, n)
  BY <1>3, Moves, PushesBack, SmallTrees
<1>5. \A x : Has(Build(q, 1, "float", x), n, n)
  BY <1>1, <1>2, BuildsOne
<1>6. \/ p' = Push(Error(Drop(q), "Syntax"), NilNode)
      \/ \E x : p' = Build(q, 1, "float", x)
      \/ p' = Panic(q)
  BY DEF parseFloatLiteral
<1>7. DOMAIN q = Fields
  BY <1>2, HasTrees
<1> QED BY <1>4, <1>5, <1>6, <1>7, PanicIsSound, HasIsSound

LEMMA LeafKeeps ==
  ASSUME Sound(p), parseLeaf \/ parseSemicolon \/ parseConstant
  PROVE  Sound(p')
<1>1. PICK n \in Nat : Has(q0, n, n + 1)
  BY TakeMaker DEF parseLeaf, parseSemicolon, parseConstant, Makers
<1>2. \A node : Tree(node) /\ (Whole(node) \/ Dirty(q0)) => Has(Push(q0, node), n + 1, n + 1)
  BY <1>1, Pushes
<1>3. Runs(<<Do("infix", 0, "")>>, n + 1, n + 1)
  BY LooksOnce DEF Lookers
<1> DEFINE q == Push(q0, Leaf("CONSTANT", curToken(p).v))
<1>7. parseSemicolon => Dirty(q0)
  BY <1>1, TakeMaker, HasTrees DEF parseSemicolon, Makers, Excluded
<1>4. /\ Dirty(q0) => Has(Push(q0, NilNode), n + 1, n + 1)
      /\ \A k, x : Has(Push(q0, Leaf(k, x)), n + 1, n + 1)
  BY <1>2, SmallTrees
<1>5. Has(Then(nextToken(q), <<Do("infix", 0, "")>>), n + 1, n + 1)
  BY <1>3, <1>4, Moves, ThenRuns
<1>8. Has(Push(Error(q0, "Syntax"), NilNode), n + 1, n + 1)
  <2>1. Has(Error(q0, "Syntax"), n, n + 1) /\ Dirty(Error(q0, "Syntax"))
    BY <1>1, Moves
  <2> QED BY <2>1, Pushes, SmallTrees
<1>6. \/ p' = Push(q0, NilNode) /\ Dirty(q0)
      \/ p' = Push(Error(q0, "Syntax"), NilNode)
      \/ \E k, x : p' = Push(q0, Leaf(k, x))
      \/ p' = Then(nextToken(q), <<Do("infix", 0, "")>>)
  BY <1>7 DEF parseLeaf, parseSemicolon, parseConstant
<1> QED BY <1>4, <1>5, <1>6, <1>8, HasIsSound

LEMMA PrefixKeeps ==
  ASSUME Sound(p), parsePrefixExpression \/ parseGroupedExpression
  PROVE  Sound(p')
<1>1. PICK n \in Nat : Has(q0, n, n + 1)
  BY TakeMaker DEF parsePrefixExpression, parseGroupedExpression, Makers
<1>2. /\ \A prec, x : Runs(<<Expression(prec), DoBuild(1, "prefix", x)>>, n, n + 1)
      /\ Runs(<<Expression(Normal), Do("groupEnd", 0, p.fsm)>>, n, n + 1)
  BY AfterExpression DEF Lookers
<1>3. /\ \A prec, x : Has(Then(nextToken(q0), <<Expression(prec), DoBuild(1, "prefix", x)>>), n, n)
      /\ Has(Then(State(nextToken(q0), "normal"),
                  <<Expression(Normal), Do("groupEnd", 0, p.fsm)>>), n, n)
  BY <1>1, <1>2, Moves, ThenRuns
<1>4. \/ \E prec, x : p' = Then(nextToken(q0), <<Expression(prec), DoBuild(1, "prefix", x)>>)
      \/ p' = Then(State(nextToken(q0), "normal"),
                   <<Expression(Normal), Do("groupEnd", 0, p.fsm)>>)
  BY DEF parsePrefixExpression, parseGroupedExpression
<1> QED BY <1>3, <1>4, HasIsSound

\* nil takes the place of the node on top.
LEMMA GivesUp ==
  ASSUME NEW q, NEW n, NEW k, Has(q, n, k), n >= 1
  PROVE  /\ \A e : e # "none" => Has(Push(Error(Drop(q), e), NilNode), n, k)
         /\ \A t : Has(Push(peekError(Drop(q), t), NilNode), n, k)
<1>1. n \in Nat /\ Has(Drop(q), n - 1, k)
  BY Drops, HasTrees
<1>2. /\ \A e : e # "none" => Has(Error(Drop(q), e), n - 1, k) /\ Dirty(Error(Drop(q), e))
      /\ \A t : Has(peekError(Drop(q), t), n - 1, k) /\ Dirty(peekError(Drop(q), t))
  BY <1>1, Moves
<1> QED BY <1>1, <1>2, PushesBack, SmallTrees

LEMMA GroupEndKeeps ==
  ASSUME Sound(p), parseGroupEnd
  PROVE  Sound(p')
<1>1. PICK n \in Nat : Has(q0, n, n) /\ n >= 1
  BY TakeLooker DEF parseGroupEnd, Lookers
<1> DEFINE q == State(q0, work.s)
<1>2. Has(q, n, n)
  BY <1>1, Moves
<1> HIDE DEF q
<1>3. Has(nextToken(q), n, n) /\ Has(Push(peekError(Drop(q), ")"), NilNode), n, n)
  BY <1>1, <1>2, Moves, GivesUp
<1>4. p' = nextToken(q) \/ p' = Push(peekError(Drop(q), ")"), NilNode)
  BY DEF parseGroupEnd, q
<1> QED BY <1>3, <1>4, HasIsSound

LEMMA InfixKeeps ==
  ASSUME Sound(p), parseInfixExpression \/ parseRangeExpression \/ parseArgumentPairExpression
  PROVE  Sound(p')
<1>1. PICK n \in Nat : Has(q0, n, n) /\ n >= 1
  BY TakeLooker DEF parseInfixExpression, parseRangeExpression,
                    parseArgumentPairExpression, Lookers
<1>2. Has(Push(Error(Drop(q0), "UnexpectedToken"), NilNode), n, n)
  BY <1>1, GivesUp
<1>3. \A prec, kind, x : Runs(<<Expression(prec), DoBuild(2, kind, x)>>, n, n)
  BY <1>1, AfterExpression
<1>4. \A prec, kind, x :
        Has(Then(nextToken(q0), <<Expression(prec), DoBuild(2, kind, x)>>), n, n)
  BY <1>1, <1>3, Moves, ThenRuns
<1>5. Has(Build(q0, 1, "pair", ""), n, n)
  BY <1>1, BuildsOne
<1>6. \/ p' = Push(Error(Drop(q0), "UnexpectedToken"), NilNode)
      \/ \E prec, kind, x : p' = Then(nextToken(q0), <<Expression(prec), DoBuild(2, kind, x)>>)
      \/ p' = Build(q0, 1, "pair", "")
  BY DEF parseInfixExpression, parseRangeExpression, parseArgumentPairExpression
<1> QED BY <1>2, <1>4, <1>5, <1>6, HasIsSound

LEMMA MultiVariablesKeep ==
  ASSUME Sound(p), parseMultiVariables
  PROVE  Sound(p')
<1>1. PICK n \in Nat : Has(q0, n, n) /\ n >= 1
  BY TakeLooker DEF parseMultiVariables, Lookers
<1> DEFINE q == nextToken(q0)
           works == <<Expression(CallPrec), Do("moreVariables", 0, "")>>
<1>2. Runs(works, n, n)
  BY <1>1, AfterExpression DEF Joiners
<1>3. Has(q, n, n)
  BY <1>1, Moves
<1> HIDE DEF q, works
<1>4. Has(Build(q, 1, "multi", ""), n, n)
  BY <1>1, <1>3, BuildsOne
<1>5. Has(noPrefixParseFnError(Drop(q)), n - 1, n)
  BY <1>1, <1>3, Drops, Moves
<1>6. Has(Push(noPrefixParseFnError(Drop(q)), Leaf("multi", "")), n, n)
  BY <1>5, PushesBack, SmallTrees
<1>7. \/ p' = Then(Build(q, 1, "multi", ""), works)
      \/ p' = Then(Push(noPrefixParseFnError(Drop(q)), Leaf("multi", "")), works)
  BY DEF parseMultiVariables, q, works
<1> QED BY <1>2, <1>4, <1>6, <1>7, ThenRuns, HasIsSound

LEMMA MoreVariablesKeep ==
  ASSUME Sound(p), parseMoreVariables
  PROVE  Sound(p')
<1>1. PICK n \in Nat : Has(q0, n, n - 1) /\ n >= 2
  BY TakeJoiner DEF parseMoreVariables, Joiners
<1>2. n - 1 \in Nat /\ n - 1 >= 1
  BY <1>1
<1> DEFINE q == IF Top(p).k \in Variables THEN AddKid(q0)
                ELSE noPrefixParseFnError(Drop(q0))
           works == <<Expression(CallPrec), Do("moreVariables", 0, "")>>
<1>3. Runs(works, n - 1, n - 1)
  BY <1>2, AfterExpression DEF Joiners
<1>4. Has(q, n - 1, n - 1)
  BY <1>1, AddsKid, Drops, Moves
<1> HIDE DEF q, works
<1>5. p' = q \/ p' = Then(nextToken(nextToken(q)), works)
  BY DEF parseMoreVariables, q, works
<1> QED BY <1>3, <1>4, <1>5, Moves, ThenRuns, HasIsSound

\* The value assigned to target is made.
LEMMA ValueKeeps ==
  ASSUME NEW n \in Nat, n >= 1, NEW q, Has(q, n, n + 1), NEW target, Tree(target),
         Whole(target)
  PROVE  Sound(expandAssignmentValue(q, target))
<1> DEFINE op == curToken(q).t
           r == Push(q, target)
<1>1. Runs(<<Expression(AssignPrec)>>, n, n + 1)
  BY RunsExpression
<1>2. Has(Then(nextToken(q), <<Expression(AssignPrec)>>), n, n)
  BY <1>1, Moves, ThenRuns
<1>3. Has(r, n + 1, n + 1)
  BY Pushes
<1>4. n + 1 \in Nat /\ n + 1 >= 1
  OBVIOUS
<1>5. \A x : Runs(<<Expression(Lowest), DoBuild(2, "infix", x)>>, n + 1, n + 1)
  BY <1>4, AfterExpression
<1> HIDE DEF r
<1>6. \A x : Has(Then(nextToken(r), <<Expression(Lowest), DoBuild(2, "infix", x)>>), n + 1, n + 1)
  BY <1>3, <1>5, Moves, ThenRuns
<1>7. \/ expandAssignmentValue(q, target) = Then(nextToken(q), <<Expression(AssignPrec)>>)
      \/ \E x : expandAssignmentValue(q, target)
                  = Then(nextToken(r), <<Expression(Lowest), DoBuild(2, "infix", x)>>)
  BY DEF expandAssignmentValue, r
<1> QED BY <1>2, <1>6, <1>7, HasIsSound

LEMMA AssignKeeps ==
  ASSUME Sound(p), parseAssignExpression
  PROVE  Sound(p')
<1>1. PICK n \in Nat : n = Len(p.val) /\ Has(q0, n, n) /\ n >= 1 /\ Tree(Top(p)) /\ Whole(Top(p))
  BY TakeLooker DEF parseAssignExpression, Lookers
<1> DEFINE target == Top(p)
           q == State(q0, "assignment")
           end == <<Do("assignEnd", 0, p.fsm)>>
           call == <<Do("assignCall", 0, "")>>
           r == nextToken(Error(q, "InvalidAssignment"))
<1>2. Runs(end, n + 1, n) /\ Runs(call, n + 1, n)
  BY <1>1, JoinsOnce DEF Joiners
<1>3. Runs(<<Expression(AssignPrec)>>, n, n + 1)
  BY RunsExpression
<1>4. Runs(<<Expression(AssignPrec)>> \o end, n, n)
  BY <1>2, <1>3, RunsConcat
<1>5. Has(q, n, n)
  BY <1>1, Moves
<1>6. Has(nextToken(q), n, n) /\ Has(r, n, n) /\ DOMAIN q = Fields
  BY <1>5, Moves, HasTrees
<1> HIDE DEF q, end, call, r
<1>7. Has(Then(q, end), n, n + 1) /\ Has(Then(q, call), n, n + 1)
  BY <1>2, <1>5, ThenRuns
<1>8. /\ Sound(expandAssignmentValue(Then(q, end), target))
      /\ Sound(expandAssignmentValue(Then(q, call), target))
  BY <1>1, <1>7, ValueKeeps
<1>9. \/ p' \in {expandAssignmentValue(Then(q, end), target),
                 expandAssignmentValue(Then(q, call), target)}
      \/ p' \in {Then(nextToken(q), <<Expression(AssignPrec)>> \o end),
                 Then(r, <<Expression(AssignPrec)>> \o end)}
      \/ p' = Panic(q)
  BY DEF parseAssignExpression, q, end, call, r
<1>10. /\ Has(Then(nextToken(q), <<Expression(AssignPrec)>> \o end), n, n)
       /\ Has(Then(r, <<Expression(AssignPrec)>> \o end), n, n)
  BY <1>4, <1>6, ThenRuns
<1> HIDE DEF target
<1> QED BY <1>6, <1>8, <1>9, <1>10, PanicIsSound, HasIsSound

LEMMA AssignEndKeeps ==
  ASSUME Sound(p), parseAssignEnd
  PROVE  Sound(p')
<1>1. PICK n \in Nat : Has(q0, n, n - 1) /\ n >= 2
  BY TakeJoiner DEF parseAssignEnd, Joiners
<1> DEFINE q == State(q0, work.s)
<1>2. Has(q, n, n - 1)
  BY <1>1, Moves
<1> HIDE DEF q
<1>3. n - 1 >= 1 /\ Has(AddKid(q), n - 1, n - 1)
  BY <1>1, <1>2, AddsKid
<1>4. Has(Rename(AddKid(q), "assign"), n - 1, n - 1)
  BY <1>3, Renames
<1>5. Has(Build(q, 2, "assign", ""), n - 1, n - 1)
  BY <1>1, <1>2, BuildsOne
<1>6. p' = Rename(AddKid(q), "assign") \/ p' = Build(q, 2, "assign", "")
  BY DEF parseAssignEnd, q
<1> QED BY <1>4, <1>5, <1>6, HasIsSound

\* Two nodes on top become one.
LEMMA JoinsTwo ==
  ASSUME NEW q, NEW n \in Nat, n >= 2, NEW k, Has(q, n, k), NEW node, Tree(node),
         Whole(node)
  PROVE  Has(Push(Drop(Drop(q)), node), n - 1, k)
<1>1. Has(Drop(Drop(q)), n - 2, k)
  BY DropsTwo
<1>2. Has(Push(Drop(Drop(q)), node), (n - 2) + 1, k)
  BY <1>1, Pushes
<1>3. (n - 2) + 1 = n - 1
  OBVIOUS
<1> QED BY <1>2, <1>3

\* Some of the children, and one more.
Part(s, kids) == Listed(s) /\ Members(s) \subseteq Members(kids)

LEMMA PartKids ==
  ASSUME NEW node, Tree(node), Whole(node), NEW s, Part(s, node.kids),
         NEW m, Tree(m), Whole(m), NEW k, NEW x
  PROVE  Tree(Node(k, x, Append(s, m))) /\ Whole(Node(k, x, Append(s, m)))
<1>1. Listed(Append(s, m))
  BY FewNodes DEF Part
<1>2. Members(Append(s, m)) = Members(s) \cup {m}
  BY AppendMembers DEF Part, Listed
<1>3. Clean(node) /\ Clean(m) => \A n \in Members(Append(s, m)) : n.nils = 0
  BY <1>2 DEF Part, Clean
<1>4. Tree(Node(k, x, Append(s, m)))
  BY <1>1, NodeIsTree
<1>5. Clean(node) /\ Clean(m) => Clean(Node(k, x, Append(s, m)))
  BY <1>3, NodeIsClean
<1> QED BY <1>4, <1>5 DEF Whole

\* A part of the children.
LEMMA SomeKids ==
  ASSUME NEW kids, Listed(kids)
  PROVE  /\ Part(SubSeq(kids, 1, Len(kids) - 1), kids)
         /\ Len(kids) >= 2 => Part(SubSeq(kids, 1, 2), kids)
         /\ \A i \in 1..Len(kids) : Part(RemoveAt(kids, i), kids)
<1>1. IsSequence(kids) /\ Len(kids) \in Nat
  BY DEF Listed, IsSequence
<1>2. ASSUME NEW s, IsSequence(s), Members(s) \subseteq Members(kids)
      PROVE  Part(s, kids)
  BY <1>2 DEF Listed, Part
<1>3. Part(SubSeq(kids, 1, Len(kids) - 1), kids)
  <2>1. CASE Len(kids) = 0
    <3>1. SubSeq(kids, 1, Len(kids) - 1) \in Seq(Members(kids))
      BY <1>1, <2>1 DEF IsSequence
    <3> QED BY <1>2, <3>1, SequenceOf
  <2>2. CASE Len(kids) # 0
    <3>1. 1 \in 1..Len(kids) + 1 /\ Len(kids) - 1 \in 0..Len(kids) /\ 1 <= (Len(kids) - 1) + 1
      BY <1>1, <2>2
    <3> QED BY <1>1, <1>2, <3>1, SubSeqMembers
  <2> QED BY <2>1, <2>2
<1>4. ASSUME Len(kids) >= 2 PROVE Part(SubSeq(kids, 1, 2), kids)
  <2>1. 1 \in 1..Len(kids) + 1 /\ 2 \in 0..Len(kids) /\ 1 <= 2 + 1
    BY <1>1, <1>4
  <2> QED BY <1>1, <1>2, <2>1, SubSeqMembers
<1>5. ASSUME NEW i \in 1..Len(kids) PROVE Part(RemoveAt(kids, i), kids)
  <2> DEFINE a == SubSeq(kids, 1, i - 1)
             b == SubSeq(kids, i + 1, Len(kids))
  <2>1. /\ 1 \in 1..Len(kids) + 1 /\ i - 1 \in 0..Len(kids) /\ 1 <= (i - 1) + 1
        /\ i + 1 \in 1..Len(kids) + 1 /\ Len(kids) \in 0..Len(kids)
        /\ i + 1 <= Len(kids) + 1
    BY <1>1
  <2>2. /\ IsSequence(a) /\ Members(a) \subseteq Members(kids)
        /\ IsSequence(b) /\ Members(b) \subseteq Members(kids)
    BY <1>1, <2>1, SubSeqMembers
  <2> HIDE DEF a, b
  <2>3. IsSequence(a \o b) /\ Members(a \o b) \subseteq Members(kids)
    BY <2>2, ConcatMembers
  <2>4. RemoveAt(kids, i) = a \o b
    BY DEF RemoveAt, a, b
  <2> QED BY <1>2, <2>3, <2>4
<1> QED BY <1>3, <1>4, <1>5

LEMMA AssignCallKeeps ==
  ASSUME Sound(p), parseAssignCall
  PROVE  Sound(p')
<1>1. PICK n \in Nat : /\ n = Len(p.val) /\ Has(q0, n, n - 1) /\ n >= 2
                       /\ Tree(p.val[n]) /\ Tree(p.val[n - 1])
                       /\ Whole(p.val[n]) /\ Whole(p.val[n - 1])
  BY TakeJoiner DEF parseAssignCall, Joiners
<1> DEFINE target == p.val[n - 1]
           kids == target.kids
           args == IF kids[Len(kids)].k = "do" THEN SubSeq(kids, 1, Len(kids) - 1) ELSE kids
           rest == IF target.k = "call" /\ target.x = "[]" THEN SubSeq(args, 1, 2) ELSE args
           short == target.k = "call" /\ target.x = "[]" /\ Len(args) < 2
           node == Node("call=", target.x, Append(rest, p.val[n]))
<1>2. Listed(kids)
  BY <1>1 DEF Tree
<1>3. Part(args, kids)
  <2> HIDE DEF kids
  <2> QED BY <1>2, SomeKids DEF Part
<1>4. Len(args) \in Nat
  BY <1>3 DEF Part, Listed, IsSequence
<1>5. ASSUME ~short PROVE Part(rest, kids)
  <2> HIDE DEF args, kids
  <2>1. CASE rest = args
    BY <1>3, <2>1
  <2>2. CASE target.k = "call" /\ target.x = "[]"
    <3>1. Len(args) >= 2
      BY <1>4, <1>5, <2>2
    <3>2. Part(SubSeq(args, 1, 2), args)
      BY <1>3, <3>1, SomeKids DEF Part
    <3> QED BY <1>3, <2>2, <3>2 DEF Part
  <2> QED BY <2>1, <2>2
<1>6. ASSUME ~short PROVE Tree(node) /\ Whole(node)
  <2>1. Part(rest, target.kids)
    BY <1>5, <1>6
  <2> HIDE DEF rest, short
  <2> QED BY <1>1, <2>1, PartKids
<1>7. IF short THEN p' = Panic(q0) ELSE p' = Push(Drop(Drop(q0)), node)
  BY <1>1 DEF parseAssignCall, Top
<1> HIDE DEF short, node
<1>8. DOMAIN q0 = Fields
  BY <1>1, HasTrees
<1>9. ASSUME ~short PROVE Has(p', n - 1, n - 1)
  BY <1>1, <1>6, <1>7, <1>9, JoinsTwo
<1> QED BY <1>7, <1>8, <1>9, PanicIsSound, HasIsSound

LEMMA HashEntryKeeps ==
  ASSUME Sound(p), parseHashEntry
  PROVE  Sound(p')
<1>1. PICK n \in Nat : /\ n = Len(p.val) /\ Has(q0, n, n - 1) /\ n >= 2
                       /\ Tree(p.val[n]) /\ Tree(p.val[n - 1])
                       /\ Whole(p.val[n]) /\ Whole(p.val[n - 1])
  BY TakeJoiner DEF parseHashEntry, Joiners
<1> DEFINE entry == Node("entry", work.s, <<p.val[n]>>)
           hash == p.val[n - 1]
           kids == hash.kids
           given == {i \in 1..Len(kids) : kids[i].x = work.s}
           others == IF given = {} THEN kids
                     ELSE RemoveAt(kids, CHOOSE i \in given : TRUE)
<1>2. Listed(kids) /\ Tree(entry) /\ Whole(entry)
  <2>1. Listed(<<p.val[n]>>)
    BY <1>1, FewNodes
  <2> QED BY <1>1, <2>1, NodeIsTree, SmallClean DEF Tree
<1>3. Part(others, kids)
  <2>1. CASE given = {}
    BY <1>2, <2>1 DEF Part
  <2>2. CASE given # {}
    <3>1. (CHOOSE i \in given : TRUE) \in given
      BY <2>2
    <3>2. (CHOOSE i \in given : TRUE) \in 1..Len(kids)
      BY <3>1
    <3> HIDE DEF given
    <3> QED BY <1>2, <2>2, <3>2, SomeKids
  <2> QED BY <2>1, <2>2
<1>4. p' = Push(Drop(Drop(q0)), Node("hash", "{", Append(others, entry)))
  BY <1>1 DEF parseHashEntry, Top
<1> HIDE DEF entry, others
<1>5. /\ Tree(Node("hash", "{", Append(others, entry)))
      /\ Whole(Node("hash", "{", Append(others, entry)))
  BY <1>1, <1>2, <1>3, PartKids
<1>6. Has(p', n - 1, n - 1)
  BY <1>1, <1>4, <1>5, JoinsTwo
<1> QED BY <1>6, HasIsSound

LEMMA ArgumentsKeep ==
  ASSUME NEW n \in Nat, n >= 1, NEW q, Has(q, n, n)
  PROVE  Has(ParenthesizedArguments(q), n, n) /\ Has(BareArguments(q), n, n)
<1>1. /\ \A s : Runs(<<Do("arguments", 0, s)>>, n, n)
      /\ \A s : Runs(<<Do("close", 0, s)>>, n, n)
  BY LooksOnce DEF Lookers
<1>2. Runs(<<Do("arguments", 0, ""), Do("close", 0, ")")>>, n, n)
  BY <1>1, RunsTwo
<1>3. Has(ParenthesizedArguments(q), n, n)
  BY <1>2, Moves, ThenRuns DEF ParenthesizedArguments
<1>4. Has(BareArguments(q), n, n)
  BY <1>1, Moves, ThenRuns DEF BareArguments
<1> QED BY <1>3, <1>4

\* A call that has its receiver only is a tree.
LEMMA CallIsTree ==
  ASSUME NEW receiver, Tree(receiver), Whole(receiver), NEW name
  PROVE  /\ Tree(Node("call", name, <<receiver>>))
         /\ Whole(Node("call", name, <<receiver>>))
<1>1. Listed(<<receiver>>)
  BY FewNodes
<1> QED BY <1>1, NodeIsTree, SmallClean

\* A call takes the place of its receiver or its name.
LEMMA CallKeeps ==
  ASSUME NEW n \in Nat, n >= 1, NEW q, Has(q, n, n),
         NEW name, NEW receiver, Tree(receiver), Whole(receiver)
  PROVE  /\ Has(Call(Drop(q), name, receiver), n, n)
         /\ Has(Call(nextToken(Drop(q)), name, receiver), n, n)
<1>1. /\ Tree(Node("call", name, <<receiver>>))
      /\ Whole(Node("call", name, <<receiver>>))
  BY CallIsTree
<1>2. Has(Drop(q), n - 1, n)
  BY Drops
<1>3. Has(nextToken(Drop(q)), n - 1, n)
  BY <1>2, Moves
<1> QED BY <1>1, <1>2, <1>3, PushesBack DEF Call

\* A call with its end to come.
LEMMA CallStarts ==
  ASSUME NEW n \in Nat, n >= 1, NEW q, Has(q, n, n), NEW s
  PROVE  Has(Then(State(q, "call"), <<Do("callEnd", 0, s)>>), n, n)
<1>1. Runs(<<Do("callEnd", 0, s)>>, n, n)
  BY LooksOnce DEF Lookers
<1>2. Has(State(q, "call"), n, n)
  BY Moves
<1> QED BY <1>1, <1>2, ThenRuns

LEMMA CallWithoutReceiverKeeps ==
  ASSUME Sound(p), parseCallExpressionWithoutReceiver
  PROVE  Sound(p')
<1>1. PICK n \in Nat : Has(q0, n, n) /\ n >= 1
  BY TakeLooker DEF parseCallExpressionWithoutReceiver, Lookers
<1> DEFINE c == Call(Drop(q0), Top(p).x, SelfNode)
           q == Then(State(c, "call"), <<Do("callEnd", 0, p.fsm)>>)
<1>2. Has(c, n, n)
  BY <1>1, CallKeeps, SmallTrees
<1> HIDE DEF c
<1>3. Has(q, n, n)
  BY <1>1, <1>2, CallStarts
<1> HIDE DEF q
<1>4. p' = Panic(q0) \/ p' = ParenthesizedArguments(q) \/ p' = BareArguments(q)
  BY DEF parseCallExpressionWithoutReceiver, c, q
<1>5. DOMAIN q0 = Fields
  BY <1>1, HasTrees
<1> QED BY <1>1, <1>3, <1>4, <1>5, ArgumentsKeep, PanicIsSound, HasIsSound

LEMMA OperatorCallKeeps ==
  ASSUME Sound(p), parseOperatorMethodCall
  PROVE  Sound(p')
<1>1. PICK n \in Nat : Has(q0, n, n) /\ n >= 1 /\ Tree(Top(p)) /\ Whole(Top(p))
  BY TakeLooker DEF parseOperatorMethodCall, Lookers
<1> DEFINE c == Call(Drop(q0), curToken(p).v, Top(p))
           q == Then(State(c, "call"), <<Do("callEnd", 0, p.fsm)>>)
<1>2. Has(c, n, n)
  BY <1>1, CallKeeps
<1> HIDE DEF c
<1>3. Has(q, n, n)
  BY <1>1, <1>2, CallStarts
<1> HIDE DEF q
<1>4. Has(nextToken(q), n, n)
  BY <1>3, Moves
<1>5. p' = ParenthesizedArguments(nextToken(q)) \/ p' = BareArguments(q)
  BY DEF parseOperatorMethodCall, c, q
<1> QED BY <1>1, <1>3, <1>4, <1>5, ArgumentsKeep, HasIsSound

\* The value assigned becomes the last argument.
LEMMA AssignedArgument ==
  ASSUME NEW n \in Nat, n >= 1, NEW q, Has(q, n, n)
  PROVE  Has(Then(nextToken(nextToken(Rename(q, "call="))),
                  <<Expression(Normal), Do("adopt", 0, "")>>), n, n)
<1>1. Runs(<<Expression(Normal), Do("adopt", 0, "")>>, n, n)
  BY AfterExpression DEF Joiners
<1>2. Has(Rename(q, "call="), n, n)
  BY Renames
<1> QED BY <1>1, <1>2, Moves, ThenRuns

LEMMA CallWithReceiverKeeps ==
  ASSUME Sound(p), parseCallExpressionWithReceiver
  PROVE  Sound(p')
<1>1. PICK n \in Nat : Has(q0, n, n) /\ n >= 1 /\ Tree(Top(p)) /\ Whole(Top(p))
  BY TakeLooker DEF parseCallExpressionWithReceiver, Lookers
<1> DEFINE c == Call(nextToken(Drop(q0)), peekToken(p).v, Top(p))
           q == Then(State(c, "call"), <<Do("callEnd", 0, p.fsm)>>)
           failed == Push(peekError(State(Drop(q0), "call"), "IDENT"), NilNode)
<1>2. Has(c, n, n)
  BY <1>1, CallKeeps
<1> HIDE DEF c
<1>3. Has(q, n, n)
  BY <1>1, <1>2, CallStarts
<1> HIDE DEF q
<1>4. Has(nextToken(q), n, n)
  BY <1>3, Moves
<1>5. Has(failed, n, n)
  <2>1. Has(Drop(q0), n - 1, n)
    BY <1>1, Drops
  <2>2. /\ Has(peekError(State(Drop(q0), "call"), "IDENT"), n - 1, n)
        /\ Dirty(peekError(State(Drop(q0), "call"), "IDENT"))
    BY <2>1, Moves
  <2> QED BY <2>2, PushesBack, SmallTrees
<1> HIDE DEF failed
<1> DEFINE r == Then(nextToken(nextToken(Rename(q, "call="))),
                     <<Expression(Normal), Do("adopt", 0, "")>>)
<1>6. Has(r, n, n)
  BY <1>1, <1>3, AssignedArgument
<1> HIDE DEF r
<1>7. \/ p' = failed \/ p' = q \/ p' = ParenthesizedArguments(nextToken(q))
      \/ p' = r \/ p' = BareArguments(q)
  BY DEF parseCallExpressionWithReceiver, c, q, failed, r
<1> QED BY <1>1, <1>3, <1>4, <1>5, <1>6, <1>7, ArgumentsKeep, HasIsSound

LEMMA CallEndKeeps ==
  ASSUME Sound(p), parseCallEnd \/ parseCallArguments \/ parseClose \/ parseSwitchOpen
  PROVE  Sound(p')
<1>1. PICK n \in Nat : Has(q0, n, n) /\ n >= 1
  BY TakeLooker DEF parseCallEnd, parseCallArguments, parseClose, parseSwitchOpen, Lookers
<1>2. /\ Runs(<<Do("blockArgument", 0, "")>>, n, n)
      /\ Runs(<<Expression(Normal), Do("element", 0, "")>>, n, n)
  BY <1>1, LooksOnce, AfterExpression DEF Lookers, Joiners
<1>3. Has(State(q0, work.s), n, n)
  BY <1>1, Moves
<1>4. /\ Has(Then(nextToken(State(q0, work.s)), <<Do("blockArgument", 0, "")>>), n, n)
      /\ Has(Then(q0, <<Expression(Normal), Do("element", 0, "")>>), n, n)
      /\ \A t : Has(Expect(q0, t), n, n)
  BY <1>1, <1>2, <1>3, Moves, ThenRuns
<1>5. \/ p' = q0 \/ p' = State(q0, work.s)
      \/ p' = Then(nextToken(State(q0, work.s)), <<Do("blockArgument", 0, "")>>)
      \/ p' = Then(q0, <<Expression(Normal), Do("element", 0, "")>>)
      \/ \E t : p' = Expect(q0, t)
  BY DEF parseCallEnd, parseCallArguments, parseClose, parseSwitchOpen
<1> QED BY <1>1, <1>3, <1>4, <1>5, HasIsSound

LEMMA ElementKeeps ==
  ASSUME Sound(p), parseElement
  PROVE  Sound(p')
<1>1. PICK n \in Nat : Has(q0, n, n - 1) /\ n >= 2
  BY TakeJoiner DEF parseElement, Joiners
<1>2. n - 1 \in Nat /\ n - 1 >= 1
  BY <1>1
<1>3. Runs(<<Expression(Normal), Do("element", 0, "")>>, n - 1, n - 1)
  BY <1>2, AfterExpression DEF Joiners
<1>4. Has(AddKid(q0), n - 1, n - 1)
  BY <1>1, AddsKid
<1>5. Has(p', n - 1, n - 1)
  BY <1>3, <1>4, Moves, ThenRuns DEF parseElement
<1> QED BY <1>5, HasIsSound

LEMMA YieldKeeps ==
  ASSUME Sound(p), parseYieldExpression
  PROVE  Sound(p')
<1>1. PICK n \in Nat : Has(q0, n, n + 1)
  BY TakeMaker DEF parseYieldExpression, Makers
<1> DEFINE q == Push(q0, Leaf("yield", "yield"))
           r == Then(nextToken(q), <<Do("yieldBare", 0, "")>>)
<1>2. n + 1 \in Nat /\ n + 1 >= 1
  OBVIOUS
<1>3. Runs(<<Do("yieldBare", 0, "")>>, n + 1, n + 1)
  BY LooksOnce DEF Lookers
<1>4. Has(q, n + 1, n + 1)
  BY <1>1, Pushes, SmallTrees
<1>5. Has(r, n + 1, n + 1) /\ Has(Then(q, <<Do("yieldBare", 0, "")>>), n + 1, n + 1)
  BY <1>3, <1>4, Moves, ThenRuns
<1> HIDE DEF r
<1>6. Has(ParenthesizedArguments(r), n + 1, n + 1)
  BY <1>2, <1>5, ArgumentsKeep
<1>7. p' = ParenthesizedArguments(r) \/ p' = Then(q, <<Do("yieldBare", 0, "")>>)
  BY DEF parseYieldExpression, r
<1> QED BY <1>5, <1>6, <1>7, HasIsSound

LEMMA YieldBareKeeps ==
  ASSUME Sound(p), parseYieldBare
  PROVE  Sound(p')
<1>1. PICK n \in Nat : Has(q0, n, n) /\ n >= 1
  BY TakeLooker DEF parseYieldBare, Lookers
<1>2. Runs(<<Do("arguments", 0, "")>>, n, n)
  BY <1>1, LooksOnce DEF Lookers
<1>3. Has(Push(Drop(q0), Leaf("yield", "yield")), n, n)
  BY <1>1, Replaces, SmallTrees
<1>4. Has(p', n, n)
  BY <1>1, <1>2, <1>3, Moves, ThenRuns DEF parseYieldBare
<1> QED BY <1>4, HasIsSound

LEMMA IndexKeeps ==
  ASSUME Sound(p), parseIndexExpression
  PROVE  Sound(p')
<1>1. PICK n \in Nat : Has(q0, n, n) /\ n >= 1 /\ Tree(Top(p)) /\ Whole(Top(p))
  BY TakeLooker DEF parseIndexExpression, Lookers
<1> DEFINE q == nextToken(Call(Drop(q0), "[]", Top(p)))
           works == <<Expression(Normal), Do("element", 0, ""), Do("indexEnd", 0, "")>>
<1>2. Has(q, n, n)
  <2>1. Has(Call(Drop(q0), "[]", Top(p)), n, n)
    BY <1>1, CallKeeps
  <2> QED BY <2>1, Moves
<1>3. Runs(works, n, n)
  <2>1. Runs(<<Expression(Normal)>>, n, n + 1)
    BY RunsExpression
  <2>2. Runs(<<Do("element", 0, "")>>, n + 1, n)
    BY <1>1, JoinsOnce DEF Joiners
  <2>3. Runs(<<Do("indexEnd", 0, "")>>, n, n)
    BY <1>1, LooksOnce DEF Lookers
  <2> QED BY <2>1, <2>2, <2>3, RunsThree
<1> HIDE DEF q, works
<1>4. p' = q \/ p' = Then(q, works)
  BY DEF parseIndexExpression, q, works
<1> QED BY <1>2, <1>3, <1>4, ThenRuns, HasIsSound

LEMMA IndexEndKeeps ==
  ASSUME Sound(p), parseIndexEnd
  PROVE  Sound(p')
<1>1. PICK n \in Nat : Has(q0, n, n) /\ n >= 1
  BY TakeLooker DEF parseIndexEnd, Lookers
<1> DEFINE q == nextToken(q0)
           r == Then(nextToken(nextToken(Rename(q, "call="))),
                     <<Expression(Normal), Do("adopt", 0, "")>>)
           failed == Push(peekError(Drop(q0), "]"), NilNode)
<1>2. Has(q, n, n) /\ Has(failed, n, n)
  BY <1>1, Moves, GivesUp
<1> HIDE DEF q, failed
<1>3. Has(r, n, n)
  BY <1>1, <1>2, AssignedArgument
<1> HIDE DEF r
<1>4. p' = failed \/ p' = r \/ p' = q
  BY DEF parseIndexEnd, failed, r, q
<1> QED BY <1>2, <1>3, <1>4, HasIsSound

BodyAndNames == Body("}") \o <<Do("adopt", 0, ""), Do("adopt", 0, "")>>

\* Two sequences, member by member.
LEMMA ConcatElements ==
  ASSUME NEW S, NEW s \in Seq(S), NEW t \in Seq(S)
  PROVE  /\ s \o t \in Seq(S) /\ Len(s \o t) = Len(s) + Len(t)
         /\ \A i \in 1..Len(s) : (s \o t)[i] = s[i]
         /\ \A i \in 1..Len(t) : (s \o t)[Len(s) + i] = t[i]
OBVIOUS

\* The four works that follow the names of a block's parameters.
LEMMA FourWorks ==
  ASSUME NEW todo, IsSequence(todo), todo # <<>>
  PROVE  BlockComes(BodyAndNames \o todo) /\ IsSequence(BodyAndNames)
<1> DEFINE a == Do("block", 0, "}")
           b == Do("keep", 0, "")
           c == Do("adopt", 0, "")
           S == {a, b, c} \cup Members(todo)
<1>1. a.do = "block" /\ b.do = "keep" /\ c.do = "adopt"
  BY DEF Do
<1>2. todo \in Seq(Members(todo)) /\ Len(todo) \in Nat /\ Len(todo) # 0
  <2>1. todo \in Seq(Members(todo))
    BY DEF IsSequence
  <2> QED BY <2>1
<1>4. BodyAndNames = <<a, b>> \o <<c, c>>
  BY DEF BodyAndNames, Body
<1> HIDE DEF a, b, c
<1>3. a \in S /\ b \in S /\ c \in S /\ todo \in Seq(S)
  BY <1>2
<1> HIDE DEF S
<1> DEFINE w == <<a, b>> \o <<c, c>>
<1>5. w \in Seq(S) /\ Len(w) = 4 /\ w[1] = a /\ w[2] = b /\ w[3] = c /\ w[4] = c
  <2>1. ASSUME NEW u \in Seq(S), NEW v \in Seq(S), Len(u) = 2, Len(v) = 2
        PROVE  /\ u \o v \in Seq(S) /\ Len(u \o v) = 4
               /\ (u \o v)[1] = u[1] /\ (u \o v)[2] = u[2]
               /\ (u \o v)[3] = v[1] /\ (u \o v)[4] = v[2]
    <3>1. 1 \in 1..2 /\ 2 \in 1..2 /\ 2 + 1 = 3 /\ 2 + 2 = 4
      OBVIOUS
    <3> DEFINE z == u \o v
    <3>2. /\ z \in Seq(S) /\ Len(z) = Len(u) + Len(v)
          /\ \A i \in 1..Len(u) : z[i] = u[i]
          /\ \A i \in 1..Len(v) : z[Len(u) + i] = v[i]
      BY ConcatElements
    <3> HIDE DEF z
    <3>3. z \in Seq(S) /\ Len(z) = 4 /\ z[1] = u[1] /\ z[2] = u[2] /\ z[3] = v[1] /\ z[4] = v[2]
      BY <2>1, <3>1, <3>2
    <3> QED BY <3>3 DEF z
  <2>2. /\ <<a, b>> \in Seq(S) /\ Len(<<a, b>>) = 2 /\ <<a, b>>[1] = a /\ <<a, b>>[2] = b
        /\ <<c, c>> \in Seq(S) /\ Len(<<c, c>>) = 2 /\ <<c, c>>[1] = c /\ <<c, c>>[2] = c
    BY <1>3
  <2> QED BY <2>1, <2>2
<1> HIDE DEF w
<1>6. /\ Len(w \o todo) = 4 + Len(todo)
      /\ (w \o todo)[1] = w[1] /\ (w \o todo)[2] = w[2] /\ (w \o todo)[3] = w[3]
      /\ (w \o todo)[4] = w[4]
  <2>1. 1 \in 1..4 /\ 2 \in 1..4 /\ 3 \in 1..4 /\ 4 \in 1..4
    OBVIOUS
  <2>2. /\ Len(w \o todo) = Len(w) + Len(todo)
        /\ \A i \in 1..Len(w) : (w \o todo)[i] = w[i]
    <3>1. w \in Seq(S) /\ todo \in Seq(S)
      BY <1>3, <1>5
    <3> QED BY Zenon, <3>1, ConcatElements
  <2> QED BY <1>5, <2>1, <2>2
<1>7. BodyAndNames = w
  BY <1>4 DEF w
<1>8. BlockComes(w \o todo)
  BY <1>1, <1>2, <1>5, <1>6 DEF BlockComes
<1> QED BY <1>5, <1>7, <1>8, SequenceOf

LEMMA BlockArgumentKeeps ==
  ASSUME Sound(p), parseBlockArgument
  PROVE  Sound(p')
<1>1. PICK n \in Nat : Has(q0, n, n) /\ n >= 1
  BY TakeLooker DEF parseBlockArgument, Lookers
<1> DEFINE q == Push(q0, Leaf("do", ""))
           w == Do("blockParameter", 0, "")
<1>2. Has(q, n + 1, n)
  BY <1>1, Pushes, SmallTrees
<1>3. Runs(BodyAndNames, n + 1, n)
  <2>1. n + 1 \in Nat /\ n + 1 >= 2 /\ (n + 1) - 1 = n
    BY <1>1
  <2>2. Runs(BodyAndNames, n + 1, (n + 1) - 1)
    BY <2>1, AfterBlock DEF BodyAndNames
  <2> QED BY <2>1, <2>2
<1>4. w.do = "blockParameter"
  BY DEF Do
<1> HIDE DEF w
<1>5. Works(w) /\ w.do \notin Programs /\ Effect(w) = 0 /\ Need(w) <= n + 1
  BY <1>4 DEF Works, Programs, Makers, Joiners, Effect, Need
<1>6. Runs(<<w>> \o BodyAndNames, n + 1, n)
  <2>1. IsSequence(<<w>>) /\ IsSequence(BodyAndNames)
    BY <1>3, IsOneWork DEF Runs, Balances
  <2>2. IsSequence(<<w>> \o BodyAndNames)
    BY <2>1, ConcatMembers
  <2>3. ASSUME NEW todo, Balanced(n, todo)
        PROVE  Balanced(n + 1, (<<w>> \o BodyAndNames) \o todo)
    <3>1. IsSequence(todo) /\ todo # <<>>
      BY <2>3 DEF Balanced
    <3>2. Balanced(n + 1, BodyAndNames \o todo) /\ BlockComes(BodyAndNames \o todo)
      BY <1>3, <2>3, <3>1, FourWorks DEF Runs, Balances
    <3>3. n + 1 \in Nat /\ (n + 1) + Effect(w) = n + 1
      BY <1>5
    <3>4. Balanced(n + 1, <<w>> \o (BodyAndNames \o todo))
      BY <1>5, <3>2, <3>3, PushWork
    <3> DEFINE T == {w} \cup Members(BodyAndNames) \cup Members(todo)
    <3>5. <<w>> \in Seq(T) /\ BodyAndNames \in Seq(T) /\ todo \in Seq(T)
      BY <2>1, <3>1 DEF IsSequence
    <3> HIDE DEF T
    <3>6. <<w>> \o (BodyAndNames \o todo) = (<<w>> \o BodyAndNames) \o todo
      BY <3>5
    <3> QED BY <3>4, <3>6
  <2>4. Allowed(<<w>> \o BodyAndNames)
    <3>1. Members(<<w>> \o BodyAndNames) \subseteq {w} \cup Members(BodyAndNames)
      BY <2>1, ConcatMembers, FewMembers
    <3> QED BY <1>3, <1>4, <3>1 DEF Runs, Allowed, Excluded
  <2> QED BY <2>2, <2>3, <2>4 DEF Runs, Balances
<1> HIDE DEF q
<1>7. p' = Then(nextToken(nextToken(q)), <<w>> \o BodyAndNames) \/ p' = Then(q, BodyAndNames)
  BY DEF parseBlockArgument, q, w, BodyAndNames
<1> QED BY <1>2, <1>3, <1>6, <1>7, Moves, ThenRuns, HasIsSound

\* Without the works of the block, one node is missing.
LEMMA NoBlock ==
  ASSUME NEW n \in Nat, n >= 1, NEW todo, Balanced(n, todo), BlockComes(todo)
  PROVE  Balanced(n - 1, SubSeq(todo, 5, Len(todo)))
<1>1. /\ todo \in Seq(Members(todo)) /\ Len(todo) \in Nat /\ 4 < Len(todo)
      /\ todo[1].do = "block" /\ todo[2].do = "keep"
      /\ todo[3].do = "adopt" /\ todo[4].do = "adopt"
  BY DEF Balanced, IsSequence, BlockComes
<1> DEFINE r1 == Tail(todo)
           r2 == Tail(r1)
           r3 == Tail(r2)
           r4 == Tail(r3)
<1>2. r1 \in Seq(Members(todo)) /\ Len(r1) = Len(todo) - 1 /\ \A i \in 1..Len(r1) : r1[i] = todo[i + 1]
  BY <1>1
<1> HIDE DEF r1
<1>3. r2 \in Seq(Members(todo)) /\ Len(r2) = Len(todo) - 2 /\ \A i \in 1..Len(r2) : r2[i] = todo[i + 2]
  BY <1>1, <1>2
<1> HIDE DEF r2
<1>4. r3 \in Seq(Members(todo)) /\ Len(r3) = Len(todo) - 3 /\ \A i \in 1..Len(r3) : r3[i] = todo[i + 3]
  BY <1>1, <1>3
<1> HIDE DEF r3
<1>5. r4 \in Seq(Members(todo)) /\ Len(r4) = Len(todo) - 4 /\ \A i \in 1..Len(r4) : r4[i] = todo[i + 4]
  BY <1>1, <1>4
<1> HIDE DEF r4
<1>6. r1[1].do = "keep" /\ r2[1].do = "adopt" /\ r3[1].do = "adopt"
  <2>1. 1 \in 1..Len(r1) /\ 1 \in 1..Len(r2) /\ 1 \in 1..Len(r3)
    BY <1>1, <1>2, <1>3, <1>4
  <2>2. r1[1].do = "keep"
    BY <1>1, <1>2, <2>1
  <2>3. r2[1].do = "adopt"
    BY <1>1, <1>3, <2>1
  <2>4. r3[1].do = "adopt"
    BY <1>1, <1>4, <2>1
  <2> QED BY <2>2, <2>3, <2>4
<1>7. /\ \A w : w.do = "block" => Effect(w) = 1 /\ w.do \notin Programs
      /\ \A w : w.do = "keep" => Effect(w) = 0 /\ w.do \notin Programs
      /\ \A w : w.do = "adopt" => Effect(w) = -1 /\ w.do \notin Programs
  BY DEF Effect, Makers, Joiners, Programs
<1>8. n + 1 \in Nat /\ (n + 1) + 0 = n + 1 /\ (n + 1) + (-1) = n /\ n + (-1) = n - 1
  OBVIOUS
<1>9. Balanced(n + 1, r1)
  BY <1>1, <1>7, PopWork DEF r1
<1>10. Balanced(n + 1, r2)
  BY <1>6, <1>7, <1>8, <1>9, PopWork DEF r2
<1>11. Balanced(n, r3)
  BY <1>6, <1>7, <1>8, <1>10, PopWork DEF r3
<1>12. Balanced(n - 1, r4)
  BY <1>6, <1>7, <1>8, <1>11, PopWork DEF r4
<1>13. SubSeq(todo, 5, Len(todo)) = r4
  <2> DEFINE s == SubSeq(todo, 5, Len(todo))
  <2>1. /\ s \in Seq(Members(todo)) /\ Len(s) = Len(todo) - 4
        /\ \A i \in 1..Len(s) : s[i] = todo[i + 4]
    BY <1>1
  <2> HIDE DEF s
  <2>2. ASSUME NEW S, NEW t \in Seq(S), NEW u \in Seq(S), Len(t) = Len(u),
               \A i \in 1..Len(t) : t[i] = u[i]
        PROVE  t = u
    BY <2>2
  <2>3. Len(s) = Len(r4) /\ \A i \in 1..Len(s) : s[i] = r4[i]
    BY <1>5, <2>1
  <2>4. s = r4
    BY <1>5, <2>1, <2>2, <2>3
  <2> QED BY <2>4 DEF s
<1> QED BY <1>12, <1>13

LEMMA BlockParameterKeeps ==
  ASSUME Sound(p), parseBlockParameter
  PROVE  Sound(p')
<1>1. work.do = "blockParameter" /\ Parsing
  BY DEF parseBlockParameter, Doing
<1>2. work.do \notin Programs /\ Effect(work) = 0 /\ Need(work) = 1
  BY <1>1 DEF Makers, Joiners, Programs, Effect, Need
<1> DEFINE n == Len(p.val)
<1>3. n \in Nat /\ n >= 1 /\ Has(q0, n, n + 0) /\ BlockComes(q0.todo)
  BY <1>1, <1>2, TakeUp
<1> HIDE DEF n
<1> DEFINE r == Push(q0, Leaf("IDENT", curToken(p).v))
           q == AddKid(r)
           w == Do("blockParameter", 0, "")
           failed == [peekError(Drop(q), "|") EXCEPT !.todo = SubSeq(@, 5, Len(@))]
<1>4. Has(q0, n, n) /\ Has(r, n + 1, n)
  <2>1. n + 0 = n
    BY <1>3
  <2> QED BY <1>3, <2>1, Pushes, SmallTrees
<1>5. Has(q, n, n)
  <2>1. n + 1 >= 2 /\ (n + 1) - 1 = n
    BY <1>3
  <2> HIDE DEF r
  <2>2. Has(q, (n + 1) - 1, n)
    BY <1>4, <2>1, AddsKid
  <2> QED BY <2>1, <2>2
<1>6. q.todo = q0.todo
  BY <1>4 DEF Has, Fields, AddKid, Push, Drop
<1>7. w.do = "blockParameter"
  BY DEF Do
<1> HIDE DEF q, w
<1>8. Works(w) /\ w.do \notin Programs /\ n + Effect(w) = n /\ Need(w) <= n
  BY <1>3, <1>7 DEF Works, Programs, Makers, Joiners, Effect, Need
<1>9. CASE p' = Then(nextToken(nextToken(q)), <<w>>)
  <2> DEFINE s == nextToken(nextToken(q))
  <2>1. Has(s, n, n)
    BY <1>5, Moves
  <2>2. s.todo = q0.todo
    BY <1>5, <1>6 DEF Has, Fields, nextToken
  <2> HIDE DEF s
  <2>3. Balanced(n, <<w>> \o s.todo)
    BY <1>3, <1>8, <2>1, <2>2, PushWork DEF Has
  <2>4. Has(Then(s, <<w>>), n, n)
    <3>1. Dirty(s) \/ Allowed(<<w>> \o s.todo)
      <4>1. Members(<<w>> \o s.todo) \subseteq {w} \cup Members(s.todo)
        BY <2>1, IsOneWork, ConcatMembers, FewMembers DEF Has, Balanced
      <4> QED BY <1>7, <2>1, <4>1 DEF Has, Pure, Allowed, Excluded
    <3> QED BY <2>1, <2>3, <3>1 DEF Has, Then, Fields, Pure, Dirty, Input
  <2> QED BY <1>9, <2>4, HasIsSound DEF s
<1>10. CASE p' = nextToken(q)
  BY <1>5, <1>10, Moves, HasIsSound
<1>11. CASE p' = failed
  <2> DEFINE s == peekError(Drop(q), "|")
  <2>1. Has(s, n - 1, n)
    <3>1. Has(Drop(q), n - 1, n)
      BY <1>3, <1>5, Drops
    <3> QED BY <3>1, Moves
  <2>2. s.todo = q0.todo
    BY <1>5, <1>6 DEF Has, Fields, Drop, peekError, Error
  <2> HIDE DEF s
  <2>3. Balanced(n - 1, SubSeq(s.todo, 5, Len(s.todo)))
    BY <1>3, <2>1, <2>2, NoBlock DEF Has
  <2>4. Has([s EXCEPT !.todo = SubSeq(@, 5, Len(@))], n - 1, n - 1)
    <3>1. Dirty(s)
      BY <1>3, <1>5, Drops, Moves DEF s
    <3> QED BY <2>1, <2>3, <3>1 DEF Has, Fields, Pure, Dirty, Input
  <2>5. p' = [s EXCEPT !.todo = SubSeq(@, 5, Len(@))]
    BY <1>11 DEF s
  <2> QED BY <2>4, <2>5, HasIsSound
<1>12. p' = Then(nextToken(nextToken(q)), <<w>>) \/ p' = nextToken(q) \/ p' = failed
  BY DEF parseBlockParameter, q, w
<1> HIDE DEF failed
<1> QED BY <1>9, <1>10, <1>11, <1>12

LEMMA ArrayKeeps ==
  ASSUME Sound(p), parseArrayExpression \/ parseHashExpression
  PROVE  Sound(p')
<1>1. PICK n \in Nat : Has(q0, n, n + 1)
  BY TakeMaker DEF parseArrayExpression, parseHashExpression, Makers
<1>2. PICK m \in Nat : m = n + 1 /\ m >= 1
  OBVIOUS
<1>3. \A k, x : Has(Push(q0, Leaf(k, x)), m, m)
  BY <1>1, <1>2, Pushes, SmallTrees
<1> DEFINE array == <<Expression(Normal), Do("element", 0, ""), Do("close", 0, "]")>>
           hash == <<Do("hashPair", 0, ""), Do("morePairs", 0, "")>>
<1>4. Runs(array, m, m)
  <2>1. Runs(<<Expression(Normal)>>, m, m + 1)
    BY RunsExpression
  <2>2. Runs(<<Do("element", 0, "")>>, m + 1, m)
    BY <1>2, JoinsOnce DEF Joiners
  <2>3. Runs(<<Do("close", 0, "]")>>, m, m)
    BY <1>2, LooksOnce DEF Lookers
  <2> QED BY <2>1, <2>2, <2>3, RunsThree
<1>5. Runs(hash, m, m)
  BY <1>2, LooksOnce, RunsTwo DEF Lookers
<1> HIDE DEF array, hash
<1>6. \A k, x : /\ Has(nextToken(Push(q0, Leaf(k, x))), m, m)
                /\ Has(Then(nextToken(Push(q0, Leaf(k, x))), array), m, m)
                /\ Has(Then(Push(q0, Leaf(k, x)), hash), m, m)
  BY <1>3, <1>4, <1>5, Moves, ThenRuns
<1>7. \E k, x : \/ p' = nextToken(Push(q0, Leaf(k, x)))
                \/ p' = Then(nextToken(Push(q0, Leaf(k, x))), array)
                \/ p' = Then(Push(q0, Leaf(k, x)), hash)
  BY DEF parseArrayExpression, parseHashExpression, array, hash
<1> QED BY <1>6, <1>7, HasIsSound

LEMMA HashPairKeeps ==
  ASSUME Sound(p), parseHashPair \/ parseMorePairs
  PROVE  Sound(p')
<1>1. PICK n \in Nat : Has(q0, n, n) /\ n >= 1
  BY TakeLooker DEF parseHashPair, parseMorePairs, Lookers
<1> DEFINE q == nextToken(q0)
<1>2. Has(q, n, n)
  BY <1>1, Moves
<1>3. \A s : Runs(<<Expression(Normal), Do("entry", 0, s)>>, n, n)
  BY <1>1, AfterExpression DEF Joiners
<1>4. Runs(<<Do("hashPair", 0, ""), Do("morePairs", 0, "")>>, n, n)
  BY <1>1, LooksOnce, RunsTwo DEF Lookers
<1> HIDE DEF q
<1>5. /\ \A s : Has(Then(nextToken(nextToken(q)), <<Expression(Normal), Do("entry", 0, s)>>), n, n)
      /\ Has(Then(q, <<Do("hashPair", 0, ""), Do("morePairs", 0, "")>>), n, n)
  BY <1>2, <1>3, <1>4, Moves, ThenRuns
<1>6. Has(Error(q, "Syntax"), n, n) /\ Has(peekError(q, ":"), n, n) /\ Has(Expect(q0, "}"), n, n)
  BY <1>1, <1>2, Moves
<1>7. \/ p' = Error(q, "Syntax") \/ p' = peekError(q, ":") \/ p' = Expect(q0, "}")
      \/ \E s : p' = Then(nextToken(nextToken(q)), <<Expression(Normal), Do("entry", 0, s)>>)
      \/ p' = Then(q, <<Do("hashPair", 0, ""), Do("morePairs", 0, "")>>)
  BY DEF parseHashPair, parseMorePairs, q
<1> QED BY <1>5, <1>6, <1>7, HasIsSound

LEMMA ConditionKeeps ==
  ASSUME NEW n \in Nat, n >= 1, NEW q, Has(q, n, n)
  PROVE  Has(Condition(q), n, n)
<1>1. Runs(<<Expression(Normal), Do("consequence", 0, "")>>, n, n)
  BY AfterExpression DEF Joiners
<1> QED BY <1>1, Moves, ThenRuns DEF Condition

LEMMA IfKeeps ==
  ASSUME Sound(p), parseIfExpression
  PROVE  Sound(p')
<1>1. PICK n \in Nat : Has(q0, n, n + 1)
  BY TakeMaker DEF parseIfExpression, Makers
<1>2. n + 1 \in Nat /\ n + 1 >= 1
  OBVIOUS
<1>3. Has(Push(q0, Leaf("if", "if")), n + 1, n + 1)
  BY <1>1, Pushes, SmallTrees
<1>4. Has(p', n + 1, n + 1)
  BY <1>2, <1>3, ConditionKeeps DEF parseIfExpression
<1> QED BY <1>4, HasIsSound

LEMMA ConditionalKeeps ==
  ASSUME Sound(p), parseConditionalExpression
  PROVE  Sound(p')
<1>1. PICK n \in Nat : Has(q0, n, n - 1) /\ n >= 2
  BY TakeJoiner DEF parseConditionalExpression, Joiners
<1>2. n - 1 \in Nat /\ n - 1 >= 1 /\ n >= 1
  BY <1>1
<1> DEFINE works == <<DoBuild(2, "conditional", ""), Do("adopt", 0, ""),
                      Do("nextCondition", 0, "")>>
<1>3. Runs(works, n + 1, n - 1)
  <2>1. Runs(<<DoBuild(2, "conditional", "")>>, n + 1, n)
    BY <1>2, BuildsOnce
  <2>2. Runs(<<Do("adopt", 0, "")>>, n, n - 1)
    BY <1>1, JoinsOnce DEF Joiners
  <2>3. Runs(<<Do("nextCondition", 0, "")>>, n - 1, n - 1)
    BY <1>2, LooksOnce DEF Lookers
  <2> QED BY <2>1, <2>2, <2>3, RunsThree
<1>4. Runs(Body("}"), n, n + 1)
  BY RunsBody
<1> HIDE DEF works
<1>5. Runs(Body("}") \o works, n, n - 1)
  BY <1>3, <1>4, RunsConcat
<1>6. p' = Then(Expect(q0, "{"), Body("}") \o works)
  BY DEF parseConditionalExpression, works
<1>7. Has(p', n, n)
  BY <1>1, <1>5, <1>6, Moves, ThenRuns
<1> QED BY <1>7, HasIsSound

LEMMA ConditionalsKeep ==
  ASSUME Sound(p), parseConditionalExpressions
  PROVE  Sound(p')
<1>1. PICK n \in Nat : Has(q0, n, n) /\ n >= 1
  BY TakeLooker DEF parseConditionalExpressions, Lookers
<1> DEFINE q == SkipTo(q0, "ELSIF")
           r == SkipTo(q, "ELSE")
           else == Body("}") \o <<Do("adopt", 0, "")>>
<1>2. Runs(else, n, n)
  BY <1>1, AfterBlock
<1>3. Has(q, n, n)
  BY <1>1, Moves DEF SkipTo
<1> HIDE DEF q
<1>4. Has(r, n, n)
  BY <1>3, Moves DEF SkipTo
<1> HIDE DEF r, else
<1>5. Has(Condition(q), n, n) /\ Has(Then(Expect(r, "{"), else), n, n)
  BY <1>1, <1>2, <1>3, <1>4, ConditionKeeps, Moves, ThenRuns
<1>6. p' = Condition(q) \/ p' = Then(Expect(r, "{"), else) \/ p' = r
  BY DEF parseConditionalExpressions, q, r, else
<1> QED BY <1>4, <1>5, <1>6, HasIsSound

LEMMA SwitchKeeps ==
  ASSUME Sound(p), parseSwitchExpression
  PROVE  Sound(p')
<1>1. PICK n \in Nat : Has(q0, n, n + 1)
  BY TakeMaker DEF parseSwitchExpression, Makers
<1>2. PICK m \in Nat : m = n + 1 /\ m >= 1
  OBVIOUS
<1> DEFINE q == AcceptBlock(Push(q0, Leaf("if", "switch")), FALSE)
           cases == <<Do("cases", 0, "")>>
           value == <<Expression(Normal), Do("open", 0, "")>>
<1>3. Has(q, m, m)
  BY <1>1, <1>2, Pushes, Moves, SmallTrees
<1>4. Runs(cases, m + 1, m)
  BY <1>2, JoinsOnce DEF Joiners
<1>5. Runs(value, m, m + 1)
  BY AfterExpression DEF Lookers
<1> HIDE DEF q, cases, value
<1>6. Runs(value \o cases, m, m)
  BY <1>4, <1>5, RunsConcat
<1>7. Has(nextToken(Push(q, Leaf("TRUE", "true"))), m + 1, m) /\ Has(nextToken(q), m, m)
  BY <1>3, Pushes, Moves, SmallTrees
<1>8. \/ p' = Then(nextToken(Push(q, Leaf("TRUE", "true"))), cases)
      \/ p' = Then(nextToken(q), value \o cases)
  BY DEF parseSwitchExpression, q, cases, value
<1>9. Has(p', m + 1, m + 1) \/ Has(p', m, m)
  BY <1>4, <1>6, <1>7, <1>8, ThenRuns
<1> QED BY <1>9, HasIsSound

LEMMA CasesKeep ==
  ASSUME Sound(p), parseSwitchConditionals \/ parseSwitchConditional
  PROVE  Sound(p')
<1>1. PICK n \in Nat : Has(q0, n, n - 1) /\ n >= 2
  BY TakeJoiner DEF parseSwitchConditionals, parseSwitchConditional, Joiners
<1>2. n - 1 \in Nat /\ n - 1 >= 1
  BY <1>1
<1> DEFINE value == <<Expression(Normal), Do("caseCondition", 1, "")>>
           default == Body("}") \o <<Do("adopt", 0, "")>>
           first == <<Do("case", 0, "")>>
           q == AcceptBlock(q0, TRUE)
<1>3. Runs(first, n, n - 1)
  BY <1>1, JoinsOnce DEF Joiners
<1>4. Runs(value, n, n - 1)
  <2>1. Runs(<<Expression(Normal)>>, n, n + 1)
    BY RunsExpression
  <2>2. n + 1 \in Nat /\ n + 1 = (n - 1) + 1 + 1 /\ 1 \in 1..2
    BY <1>1
  <2>3. Runs(<<Do("caseCondition", 1, "")>>, n + 1, n - 1)
    BY <1>2, <2>2, RunsCondition
  <2> QED BY <2>1, <2>3, RunsTwo
<1>5. Runs(default, n - 1, n - 1)
  BY <1>2, AfterBlock
<1>6. Has(Drop(q0), n - 1, n - 1) /\ Has(Expect(q, "CASE"), n, n - 1) /\ Has(nextToken(q0), n, n - 1)
  <2>1. n >= 1
    BY <1>1
  <2>2. Has(Drop(q0), n - 1, n - 1)
    BY <1>1, <2>1, Drops
  <2>3. Has(q, n, n - 1)
    BY <1>1, Moves
  <2> HIDE DEF q
  <2> QED BY <1>1, <2>2, <2>3, Moves
<1> HIDE DEF value, default, first, q
<1>7. \/ p' = Then(Expect(q, "CASE"), first) \/ p' = Then(nextToken(q0), value)
      \/ p' = Then(Drop(q0), default) \/ p' = Drop(q0)
  BY DEF parseSwitchConditionals, parseSwitchConditional, value, default, first, q
<1>8. Has(p', n, n) \/ Has(p', n - 1, n - 1)
  BY <1>3, <1>4, <1>5, <1>6, <1>7, ThenRuns
<1> QED BY <1>8, HasIsSound

LEMMA CaseConditionKeeps ==
  ASSUME Sound(p), parseSwitchCondition
  PROVE  Sound(p')
<1>1. work.do = "caseCondition" /\ Parsing
  BY DEF parseSwitchCondition, Doing
<1> DEFINE n == Len(p.val)
           m == work.n
           same == Node("infix", "===", <<p.val[n - m], Top(p)>>)
           q == IF m = 1 THEN Push(Drop(q0), same)
                ELSE Build(Push(Drop(q0), same), 2, "infix", "||")
<1>2. /\ n \in Nat /\ Has(q0, n, n + Effect(work)) /\ Need(work) <= n /\ Works(work)
      /\ \A i \in 1..n : Tree(p.val[i]) /\ Whole(p.val[i])
  <2>1. work.do \notin Programs
    BY <1>1 DEF Programs
  <2> QED BY <1>1, <2>1, TakeUp
<1>3. m \in 1..2 /\ Effect(work) = -1 - m /\ Need(work) = 1 - (-1 - m)
  BY <1>1, <1>2 DEF Works, Effect, Need
<1>4. n >= m + 2 /\ n + (-1 - m) = n - m - 1 /\ n \in 1..n /\ n - m \in 1..n
  <2>1. n \in Nat /\ m \in 1..2 /\ Need(work) <= n /\ Need(work) = 1 - (-1 - m)
    BY <1>2, <1>3
  <2> HIDE DEF n, m
  <2>2. n \in Nat /\ m \in Nat /\ 1 <= m /\ m + 2 <= n
    BY <2>1
  <2> QED BY <2>2
<1>5. /\ Has(q0, n, n - m - 1) /\ Tree(Top(p)) /\ Tree(p.val[n - m])
      /\ Whole(Top(p)) /\ Whole(p.val[n - m])
  BY <1>2, <1>3, <1>4 DEF Top
<1>6. Tree(same) /\ Whole(same)
  BY <1>5, FewNodes, NodeIsTree, SmallClean
<1> HIDE DEF n, m, same
<1>7. Has(Push(Drop(q0), same), n, n - m - 1)
  BY <1>2, <1>3, <1>4, <1>5, <1>6, Replaces
<1>8. PICK j \in Nat : Has(q, j, j - 2) /\ j >= 3
  <2>1. CASE m = 1
    <3>1. n - m - 1 = n - 2 /\ n >= 3
      BY <1>2, <1>4, <2>1
    <3> QED BY <1>2, <1>7, <2>1, <3>1
  <2>2. CASE m = 2
    <3>1. n - m - 1 = (n - 1) - 2 /\ n - 1 \in Nat /\ n - 1 >= 3 /\ n >= 2
      BY <1>2, <1>4, <2>2
    <3>2. Has(q, n - 1, n - m - 1)
      BY <1>7, <2>2, <3>1, BuildsOne
    <3> QED BY <3>1, <3>2
  <2> QED BY <1>3, <2>1, <2>2
<1> HIDE DEF q
<1> DEFINE another == <<Expression(Normal), Do("caseCondition", 2, "")>>
           ends == <<DoBuild(2, "conditional", ""), Do("caseEnd", 0, ""), Do("case", 0, "")>>
<1>9. Runs(another, j, j - 2)
  <2>1. Runs(<<Expression(Normal)>>, j, j + 1)
    BY RunsExpression
  <2>2. j + 1 \in Nat /\ j - 2 \in Nat /\ j - 2 >= 1 /\ j + 1 = (j - 2) + 2 + 1 /\ 2 \in 1..2
    BY <1>8
  <2>3. Runs(<<Do("caseCondition", 2, "")>>, j + 1, j - 2)
    BY <2>2, RunsCondition
  <2> QED BY <2>1, <2>3, RunsTwo
<1>10. Runs(Body("case") \o ends, j, j - 2)
  <2>1. Runs(Body("case"), j, j + 1)
    BY RunsBody
  <2>0. j >= 1 /\ j >= 2
    BY <1>8
  <2>2. Runs(<<DoBuild(2, "conditional", "")>>, j + 1, j)
    BY <2>0, BuildsOnce
  <2>3. Runs(<<Do("caseEnd", 0, "")>>, j, j - 1)
    BY <1>8, <2>0, Joins DEF Joiners
  <2>4. j - 1 \in Nat /\ j - 1 >= 2 /\ (j - 1) - 1 = j - 2
    BY <1>8
  <2>5. Runs(<<Do("case", 0, "")>>, j - 1, (j - 1) - 1)
    BY <2>4, Joins DEF Joiners
  <2>6. Runs(ends, j + 1, j - 2)
    BY <2>2, <2>3, <2>4, <2>5, RunsThree
  <2> QED BY <2>1, <2>6, RunsConcat
<1> HIDE DEF another, ends
<1>11. p' = Then(nextToken(nextToken(q)), another) \/ p' = Then(q, Body("case") \o ends)
  BY DEF parseSwitchCondition, n, m, same, q, another, ends
<1>12. Has(p', j, j)
  BY <1>8, <1>9, <1>10, <1>11, Moves, ThenRuns
<1> QED BY <1>12, HasIsSound

LEMMA CaseEndKeeps ==
  ASSUME Sound(p), parseSwitchCaseEnd
  PROVE  Sound(p')
<1>1. PICK n \in Nat : /\ n = Len(p.val) /\ Has(q0, n, n - 1) /\ n >= 3
                       /\ Tree(p.val[n]) /\ Tree(p.val[n - 1])
                       /\ Whole(p.val[n]) /\ Whole(p.val[n - 1])
  <2>1. Doing("caseEnd") /\ "caseEnd" \in Joiners \ {"moreProgram"}
    BY DEF parseSwitchCaseEnd, Joiners
  <2> QED BY <2>1, TakeJoiner
<1> DEFINE q == Push(Drop(Drop(q0)), p.val[n])
<1>2. Has(q, n - 1, n - 1)
  <2>1. n >= 2
    BY <1>1
  <2> QED BY <1>1, <2>1, JoinsTwo
<1> HIDE DEF q
<1>3. n - 1 \in Nat /\ n - 1 >= 2 /\ (n - 1) - 1 + 1 = n - 1
  BY <1>1
<1>4. Has(AddKid(q), (n - 1) - 1, n - 1)
  BY <1>2, <1>3, AddsKid
<1>5. Has(Push(AddKid(q), p.val[n - 1]), (n - 1) - 1 + 1, n - 1)
  BY <1>1, <1>4, Pushes
<1>6. p' = Push(AddKid(q), p.val[n - 1])
  BY <1>1 DEF parseSwitchCaseEnd, q, Top
<1> QED BY <1>3, <1>5, <1>6, HasIsSound

LEMMA ProgramKeeps ==
  ASSUME Sound(p), ParseProgram
  PROVE  Sound(p')
<1> DEFINE n == Len(p.val)
           a == Do("statement", 0, "")
           b == Do("moreProgram", 0, "")
<1>1. /\ work.do = "program" /\ p.todo[1] = work /\ p.outcome = "parsing"
      /\ DOMAIN p = Fields /\ Trees(p.val) /\ Balanced(n, p.todo) /\ n \in Nat
  BY SequenceOf DEF ParseProgram, Doing, Parsing, work, Sound, Trees, IsSequence
<1>2. Need(work) <= n /\ Tail(p.todo) = <<>>
  BY <1>1, LastWork DEF Programs
<1>3. Need(work) = 1
  BY <1>1 DEF Need, Effect, Makers, Joiners
<1>4. /\ DOMAIN q0 = Fields /\ q0.val = p.val /\ q0.todo = <<>>
      /\ q0.outcome = "parsing" /\ n >= 1
      /\ q0.input = p.input /\ q0.at = p.at /\ q0.err = p.err
  BY <1>1, <1>2, <1>3 DEF q0, Fields
<1>9. Input(p) /\ (Dirty(p) \/ AllClean(p.val))
  BY <1>1 DEF Sound, Pure
<1>5. Balanced(n, <<a, b>>)
  <2>1. a.do = "statement" /\ b.do = "moreProgram"
    BY DEF Do
  <2> HIDE DEF a, b
  <2>2. /\ Works(a) /\ a.do \notin Programs /\ Effect(a) = 1 /\ Need(a) <= n
        /\ a.do # "blockParameter"
        /\ b.do \in Programs /\ Need(b) = 2
    BY <1>4, <2>1 DEF Works, Programs, Makers, Joiners, Effect, Need
  <2>3. n + 1 \in Nat /\ Need(b) <= n + 1
    BY <1>4, <2>2
  <2>4. Balanced(n + Effect(a), <<b>>)
    BY <2>2, <2>3, OneWork
  <2>5. Balanced(n, <<a>> \o <<b>>)
    BY <1>1, <2>2, <2>4, PushWork
  <2> QED BY <2>5, Concat
<1>6. CASE p' = Then(q0, <<a, b>>)
  <2>1. <<a, b>> \o <<>> = <<a, b>>
    OBVIOUS
  <2>3. Allowed(<<a, b>>)
    <3>1. a.do = "statement" /\ b.do = "moreProgram"
      BY DEF Do
    <3> HIDE DEF a, b
    <3> QED BY <3>1, FewMembers DEF Allowed, Excluded
  <2> HIDE DEF a, b
  <2>4. /\ DOMAIN p' = Fields /\ p'.val = p.val /\ p'.todo = <<a, b>>
        /\ p'.outcome = "parsing" /\ p'.input = p.input /\ p'.at = p.at /\ p'.err = p.err
    BY <1>4, <1>6, <2>1 DEF Then, Fields
  <2>2. Has(p', n, n)
    BY <1>1, <1>5, <1>9, <2>3, <2>4 DEF Has, Pure, Dirty, Input
  <2> QED BY <2>2, HasIsSound
<1>7. CASE p' = Panic(q0)
  BY <1>4, <1>7, PanicIsSound
<1>8. CASE p' = [q0 EXCEPT !.outcome = "parsed"]
  <2>1. p.val # <<>>
    BY <1>1, <1>4
  <2>2. /\ DOMAIN p' = Fields /\ p'.val = p.val /\ p'.todo = <<>>
        /\ p'.outcome = "parsed" /\ p'.input = p.input /\ p'.err = p.err
    BY <1>4, <1>8 DEF Fields
  <2>3. Allowed(<<>>)
    BY FewMembers DEF Allowed
  <2> QED BY <1>1, <1>9, <2>1, <2>2, <2>3 DEF Sound, Pure, Dirty
<1> HIDE DEF a, b
<1> QED BY <1>6, <1>7, <1>8 DEF ParseProgram, a, b

LEMMA ProgramNextKeeps ==
  ASSUME Sound(p), ParseProgramNext
  PROVE  Sound(p')
<1> DEFINE n == Len(p.val)
           w == Do("program", 0, "")
<1>1. /\ work.do = "moreProgram" /\ p.todo[1] = work /\ p.outcome = "parsing"
      /\ DOMAIN p = Fields /\ Trees(p.val) /\ Balanced(n, p.todo) /\ n \in Nat
  BY SequenceOf DEF ParseProgramNext, Doing, Parsing, work, Sound, Trees, IsSequence
<1>2. Need(work) <= n /\ Tail(p.todo) = <<>>
  BY <1>1, LastWork DEF Programs
<1>3. Need(work) = 2
  BY <1>1 DEF Need, Effect, Makers, Joiners
<1>4. /\ DOMAIN q0 = Fields /\ q0.val = p.val /\ q0.todo = <<>>
      /\ q0.outcome = "parsing" /\ n >= 2
      /\ q0.input = p.input /\ q0.at = p.at /\ q0.err = p.err
  BY <1>1, <1>2, <1>3 DEF q0, Fields
<1>12. Input(p) /\ (Dirty(p) \/ AllClean(p.val))
  BY <1>1 DEF Sound, Pure
<1>13. Allowed(<<w>>)
  <2>1. w.do = "program"
    BY DEF Do
  <2> HIDE DEF w
  <2> QED BY <2>1, FewMembers DEF Allowed, Excluded
<1>5. Balanced(n - 1, <<w>>)
  <2>1. w.do = "program"
    BY DEF Do
  <2> HIDE DEF w
  <2>2. w.do \in Programs /\ Need(w) = 1
    BY <2>1 DEF Programs, Makers, Joiners, Effect, Need
  <2>3. n - 1 \in Nat /\ Need(w) <= n - 1
    BY <1>4, <2>2
  <2> QED BY <2>2, <2>3, OneWork
<1> HIDE DEF w
<1> DEFINE q == [q0 EXCEPT !.todo = <<w>>]
<1>6. Has(q, n, n - 1)
  <2>1. /\ DOMAIN q = Fields /\ q.val = p.val /\ q.todo = <<w>>
        /\ q.outcome = "parsing" /\ q.input = p.input /\ q.at = p.at /\ q.err = p.err
    BY <1>4 DEF Fields
  <2> HIDE DEF q
  <2> QED BY <1>1, <1>5, <1>12, <1>13, <2>1 DEF Has, Pure, Dirty, Input
<1>7. Has(AddKid(q), n - 1, n - 1)
  BY <1>4, <1>6, AddsKid
<1>8. AddKid(q).val = AddKid(q0).val
  BY <1>4 DEF AddKid, Push, Drop, Top, Fields
<1>9. /\ DOMAIN AddKid(q0) = Fields /\ AddKid(q0).todo = <<>>
      /\ AddKid(q0).outcome = "parsing"
      /\ AddKid(q0).input = p.input /\ AddKid(q0).at = p.at /\ AddKid(q0).err = p.err
  BY <1>4 DEF AddKid, Push, Drop, Fields
<1>14. Dirty(p) \/ AllClean(AddKid(q).val)
  <2>1. AddKid(q).err = p.err /\ AddKid(q).input = p.input
    BY <1>4 DEF AddKid, Push, Drop, Fields
  <2> QED BY <1>7, <2>1 DEF Has, Pure, Dirty
<1>10. CASE p' = [p EXCEPT !.outcome = "failed", !.todo = <<>>, !.val = <<>>] /\ p.err # "none"
  BY <1>1, <1>10 DEF Sound, Fields, Pure, Dirty
<1>11. CASE p' = Then(nextToken(AddKid(q0)), <<w>>)
  <2>1. <<w>> \o <<>> = <<w>>
    OBVIOUS
  <2> DEFINE r == AddKid(q0)
  <2>2. /\ DOMAIN r = Fields /\ r.todo = <<>> /\ r.outcome = "parsing"
        /\ Trees(r.val) /\ Len(r.val) = n - 1
        /\ r.input = p.input /\ r.at = p.at /\ r.err = p.err
        /\ Dirty(p) \/ AllClean(r.val)
    BY <1>7, <1>8, <1>9, <1>14 DEF Has
  <2> HIDE DEF r
  <2>3. p' = Then(nextToken(r), <<w>>)
    BY <1>11 DEF r
  <2>5. /\ DOMAIN p' = Fields /\ p'.val = r.val /\ p'.todo = <<w>>
        /\ p'.outcome = "parsing" /\ p'.input = p.input /\ p'.at = p.at + 1
        /\ p'.err = p.err
    BY <2>1, <2>2, <2>3 DEF Then, nextToken, Fields
  <2>4. Has(p', n - 1, n - 1)
    BY <1>5, <1>12, <1>13, <2>2, <2>5 DEF Has, Pure, Dirty, Input
  <2> QED BY <2>4, HasIsSound
<1> QED BY <1>10, <1>11 DEF ParseProgramNext, w

\* Whatever the parser does next, it stays sound.
LEMMA StepKeepsSound ==
  ASSUME Sound(p), ParseStep
  PROVE  Sound(p')
BY ProgramKeeps, ProgramNextKeeps, StatementKeeps, MarkKeeps, ReturnKeeps, BuildKeeps,
   WhileKeeps, ClassKeeps, SuperClassKeeps, BlockKeeps, BlockStatementsKeep,
   BlockNextKeeps, DefKeeps, ParameterKeeps, MoreParametersKeep, CheckParametersKeeps,
   DefCloseKeeps, DefBodyKeeps, ExpressionKeeps, AfterBareCallKeeps, InfixesKeep,
   FloatKeeps, LeafKeeps, PrefixKeeps, GroupEndKeeps, InfixKeeps, MultiVariablesKeep,
   MoreVariablesKeep, AssignKeeps, AssignEndKeeps, AssignCallKeeps,
   CallWithoutReceiverKeeps, OperatorCallKeeps, CallWithReceiverKeeps, CallEndKeeps,
   ElementKeeps, BlockArgumentKeeps, BlockParameterKeeps, YieldKeeps, YieldBareKeeps,
   IndexKeeps, IndexEndKeeps, ArrayKeeps, HashPairKeeps, HashEntryKeeps, IfKeeps,
   ConditionalKeeps, ConditionalsKeep, SwitchKeeps, CasesKeep, CaseConditionKeeps,
   CaseEndKeeps DEF ParseStep

\* What the lexer has listed; it ends when it has listed its last token.
LexerFields == {"input", "pos", "line", "fsm", "toks", "quote", "literal", "outcome"}
HasTokens(q) ==
  /\ DOMAIN q = LexerFields
  /\ IsSequence(q.toks)
  /\ q.outcome = "read" => q.toks # <<>>

\* One token more, or none.
LEMMA TokensGrow ==
  ASSUME NEW q, HasTokens(q)
  PROVE  /\ HasTokens(Ready(q)) /\ Ready(q).toks = q.toks
         /\ \A t, v, j : /\ HasTokens(Emit(q, t, v, j))
                         /\ HasTokens([Emit(q, t, v, j) EXCEPT !.outcome = "read"])
                         /\ HasTokens([Emit(q, t, v, j) EXCEPT !.quote = "", !.literal = ""])
         /\ \A t, j : HasTokens(EmitTo(q, t, j))
         /\ \A x : HasTokens(ToState(q, x))
<1>1. HasTokens(Ready(q)) /\ Ready(q).toks = q.toks
  BY DEF HasTokens, LexerFields, Ready
<1>2. ASSUME NEW t, NEW v, NEW j
      PROVE  /\ HasTokens(Emit(q, t, v, j))
             /\ HasTokens([Emit(q, t, v, j) EXCEPT !.outcome = "read"])
             /\ HasTokens([Emit(q, t, v, j) EXCEPT !.quote = "", !.literal = ""])
  <2> DEFINE token == Token(t, v, q.line)
             toks == Append(q.toks, token)
  <2>1. IsSequence(toks) /\ Len(toks) = Len(q.toks) + 1 /\ Len(q.toks) \in Nat
    BY AppendMembers DEF HasTokens
  <2>2. toks # <<>>
    <3>1. Len(toks) # 0
      BY <2>1
    <3>2. Len(<<>>) = 0
      OBVIOUS
    <3> QED BY <3>1, <3>2
  <2>3. Emit(q, t, v, j) = [q EXCEPT !.toks = toks, !.pos = j]
    BY DEF Emit
  <2> HIDE DEF toks
  <2> QED BY <2>1, <2>2, <2>3 DEF HasTokens, LexerFields
<1>3. \A t, j : HasTokens(EmitTo(q, t, j))
  BY <1>2 DEF EmitTo
<1>4. \A x : HasTokens(ToState(q, x))
  BY DEF HasTokens, LexerFields, ToState
<1> QED BY <1>1, <1>2, <1>3, <1>4

\* The lexer lists tokens.
LEMMA LexerKeepsTokens ==
  ASSUME HasTokens(l), NextToken
  PROVE  HasTokens(l')
<1>1. HasTokens(next)
  BY TokensGrow DEF next
<1>2. CASE LexSymbol
  BY <1>1, <1>2, TokensGrow DEF LexSymbol
<1>3. CASE LexColon
  BY <1>1, <1>3, TokensGrow DEF LexColon
<1>4. CASE LexComment
  BY <1>1, <1>4 DEF LexComment, HasTokens, LexerFields
<1>5. CASE LexEOF
  BY <1>1, <1>5, TokensGrow DEF LexEOF
<1>6. \A word, j : HasTokens(Word(next, word, j))
  <2> SUFFICES ASSUME NEW word, NEW j PROVE HasTokens(Word(next, word, j))
    OBVIOUS
  <2> DEFINE t == IF next.fsm = "method" /\ word # "self" THEN "IDENT" ELSE LookupIdent(word)
             r == Emit(next, t, word, j)
             s == IF next.fsm = "method" THEN ToState(r, "initial")
                  ELSE IF word = "def" THEN ToState(r, "method") ELSE r
  <2>1. HasTokens(r)
    BY <1>1, TokensGrow
  <2> HIDE DEF r
  <2>2. HasTokens(s)
    BY <2>1, TokensGrow
  <2> HIDE DEF s
  <2>3. Word(next, word, j) = IF t = "IDENT" THEN ToState(s, "nosymbol") ELSE s
    BY DEF Word, r, s
  <2>4. HasTokens(ToState(s, "nosymbol"))
    BY <2>2, TokensGrow
  <2> QED BY <2>2, <2>3, <2>4
<1>7. CASE LexWord
  <2> DEFINE j == After(next.input, next.pos, Letters \cup Digits)
  <2>1. l' = ToState(EmitTo(next, "CONSTANT", j), "initial")
        \/ \E word, k : l' = Word(next, word, k)
    BY <1>7 DEF LexWord
  <2> HIDE DEF j
  <2>2. HasTokens(ToState(EmitTo(next, "CONSTANT", j), "initial"))
    BY <1>1, TokensGrow
  <2> QED BY <1>6, <2>1, <2>2
<1>8. CASE LexQuotedIdentifier
  <2>1. \E word, t, j : \/ l' = Emit(next, t, word, j)
                        \/ l' = ToState(Emit(next, t, word, j), "initial")
                        \/ l' = Word(next, word, j)
    BY <1>8 DEF LexQuotedIdentifier
  <2>2. \A word, t, j : /\ HasTokens(Emit(next, t, word, j))
                        /\ HasTokens(ToState(Emit(next, t, word, j), "initial"))
    <3> SUFFICES ASSUME NEW word, NEW t, NEW j
                 PROVE  /\ HasTokens(Emit(next, t, word, j))
                        /\ HasTokens(ToState(Emit(next, t, word, j), "initial"))
      OBVIOUS
    <3>1. HasTokens(Emit(next, t, word, j))
      BY <1>1, TokensGrow
    <3> QED BY <3>1, TokensGrow
  <2> QED BY Zenon, <1>6, <2>1, <2>2
<1>9. CASE LexInstanceVariable
  BY <1>1, <1>9, TokensGrow DEF LexInstanceVariable
<1>10. CASE LexNumber
  BY <1>1, <1>10, TokensGrow DEF LexNumber
<1>11. CASE LexIllegal
  BY <1>1, <1>11, TokensGrow DEF LexIllegal
<1>12. CASE readString
  <2>1. \/ \E t, v, j : l' = Emit(next, t, v, j)
        \/ l' = [next EXCEPT !.quote = ch, !.literal = "", !.pos = @ + 1]
    BY <1>12 DEF readString
  <2>2. \A x, y : HasTokens([next EXCEPT !.quote = x, !.literal = "", !.pos = @ + 1])
    BY <1>1 DEF HasTokens, LexerFields
  <2>3. \A t, v, j : HasTokens(Emit(next, t, v, j))
    BY Zenon, <1>1, TokensGrow
  <2>4. CASE \E t, v, j : l' = Emit(next, t, v, j)
    BY Zenon, <2>3, <2>4
  <2>5. CASE l' = [next EXCEPT !.quote = ch, !.literal = "", !.pos = @ + 1]
    BY <2>2, <2>5
  <2> QED BY <2>1, <2>4, <2>5
<1>13. CASE readStringChar
  <2>1. \/ \E v, j : l' = [Emit(l, "STRING", v, j) EXCEPT !.quote = "", !.literal = ""]
        \/ \E v, j : l' = [l EXCEPT !.literal = v, !.pos = j]
    BY <1>13 DEF readStringChar
  <2>2. ASSUME NEW v, NEW j, l' = [Emit(l, "STRING", v, j) EXCEPT !.quote = "", !.literal = ""]
        PROVE  HasTokens(l')
    <3>1. HasTokens([Emit(l, "STRING", v, j) EXCEPT !.quote = "", !.literal = ""])
      BY TokensGrow
    <3> QED BY <2>2, <3>1
  <2>3. ASSUME NEW v, NEW j, l' = [l EXCEPT !.literal = v, !.pos = j]
        PROVE  HasTokens(l')
    BY <2>3 DEF HasTokens, LexerFields
  <2> QED BY <2>1, <2>2, <2>3
<1> QED BY <1>2, <1>3, <1>4, <1>5, <1>7, <1>8, <1>9, <1>10, <1>11, <1>12, <1>13 DEF NextToken

\* A parser that has just been made, or was given the tokens of some lines.
LEMMA BeginsSound ==
  /\ Sound(NewParser)
  /\ \A q, tokens : DOMAIN q = Fields /\ IsSequence(tokens) /\ tokens # <<>>
                      => Sound(Begin(q, tokens))
<1>1. Sound(NewParser)
  BY FewMembers DEF Sound, NewParser, Fields, Pure, AllClean, Allowed
<1>2. ASSUME NEW q, NEW tokens, DOMAIN q = Fields, IsSequence(tokens), tokens # <<>>
      PROVE  Sound(Begin(q, tokens))
  <2> DEFINE w == Do("program", 0, "")
             n == Leaf("program", "")
             r == Begin(q, tokens)
  <2>1. w.do \in Programs /\ Need(w) <= 1 /\ w.do \notin Excluded
    <3>1. w.do = "program"
      BY DEF Do
    <3> HIDE DEF w
    <3> QED BY <3>1 DEF Programs, Need, Effect, Makers, Joiners, Excluded
  <2>2. Tree(n) /\ Clean(n)
    BY SmallTrees, FewMembers, NodeIsClean DEF Leaf
  <2> HIDE DEF w, n
  <2>3. Balanced(1, <<w>>)
    BY <2>1, OneWork
  <2>4. Trees(<<n>>) /\ Len(<<n>>) = 1 /\ AllClean(<<n>>)
    BY <2>2, IsOneWork, FewMembers DEF Trees, AllClean
  <2>5. Allowed(<<w>>)
    BY <2>1, FewMembers DEF Allowed
  <2>6. /\ DOMAIN r = Fields /\ r.outcome = "parsing" /\ r.todo = <<w>> /\ r.val = <<n>>
        /\ r.input = tokens /\ r.at = 1
    BY <1>2 DEF Begin, Fields, w, n
  <2> HIDE DEF r
  <2>7. Sound(r)
    BY <1>2, <2>3, <2>4, <2>5, <2>6 DEF Sound, Pure, Input
  <2> QED BY <2>7 DEF r
<1> QED BY <1>1, <1>2

\* The parser is sound, and what it was given is accepted without an error if it
\* is executed.
Accepted ==
  /\ Sound(p)
  /\ HasTokens(l)
  /\ phase = "exec" => p.outcome = "parsed" /\ p.err = "none"

\* Whatever the REPL does next, what it accepted last is a tree.
LEMMA StepKeepsAccepted ==
  ASSUME Accepted, [Next]_vars
  PROVE  Accepted'
<1> USE DEF Accepted
<1>0. p' = p => Sound(p')
  OBVIOUS
<1>1. l' = l => HasTokens(l')
  OBVIOUS
<1>12. \A x : HasTokens(NewLexer(x))
  <2> SUFFICES ASSUME NEW x PROVE HasTokens(NewLexer(x))
    OBVIOUS
  <2>1. IsSequence(<<>>)
    BY DEF IsSequence
  <2> QED BY <2>1 DEF HasTokens, LexerFields, NewLexer
<1>2. CASE ReadNothing \/ UNCHANGED vars
  BY <1>0, <1>1, <1>2 DEF ReadNothing, vars, replVars
<1>4. CASE ReadInterrupt \/ ReadEOF \/ WaitForMore \/ RejectToken \/ StillOpen \/ Reject
           \/ Exec \/ ExecRaise \/ Crash
  <2>1. p' = p /\ l' = l /\ phase' \in {"read", "closed", "crashed"}
    BY <1>4 DEF ReadInterrupt, ReadEOF, WaitForMore, RejectToken, StillOpen, Reject,
                Exec, ExecRaise, Crash, Executed, eraseBuffer, judged, Reading1
  <2> QED BY <1>0, <1>1, <2>1
<1>5. CASE ReadReset
  <2>1. p' = NewParser /\ l' = l /\ phase' = phase /\ phase = "read"
    BY <1>5 DEF ReadReset, Reading1
  <2>2. Sound(p')
    BY <2>1, BeginsSound
  <2> QED BY <1>1, <2>1, <2>2
<1>6. ASSUME NEW ns, ParseLines(ns)
      PROVE  Accepted'
  <2>1. /\ p' = [p EXCEPT !.outcome = "none"] /\ phase' = "lexing" /\ DOMAIN p = Fields
        /\ HasTokens(l')
    BY <1>6, <1>12 DEF ParseLines, Sound
  <2>2. /\ DOMAIN p' = Fields /\ p'.outcome = "none" /\ p'.err = p.err
        /\ p'.input = p.input /\ p'.val = p.val /\ p'.todo = p.todo
    BY <2>1 DEF Fields
  <2>3. Sound(p')
    BY <2>2 DEF Sound, Pure, Dirty
  <2> QED BY <2>1, <2>3
<1>7. CASE ReadLine
  <2>1. \/ p' = p /\ l' = l /\ phase' = phase /\ phase = "read"
        \/ \E ns : ParseLines(ns)
    BY <1>7 DEF ReadLine, Reading1
  <2> QED BY <1>0, <1>1, <1>6, <2>1
<1>8. CASE ParseAgain
  <2>1. \E ns : ParseLines(ns)
    BY <1>8 DEF ParseAgain
  <2> QED BY <1>6, <2>1
<1>9. CASE Lex
  <2>1. CASE NextToken /\ UNCHANGED <<p, phase>>
    BY <1>0, <2>1, LexerKeepsTokens
  <2>2. CASE l.outcome = "read" /\ p' = Begin(p, l.toks) /\ phase' = "parsing" /\ l' = NewLexer("")
    <3>1. DOMAIN p = Fields /\ IsSequence(l.toks) /\ l.toks # <<>>
      BY <2>2 DEF Sound, HasTokens
    <3>2. Sound(p') /\ HasTokens(l')
      BY <1>12, <2>2, <3>1, BeginsSound
    <3> QED BY <2>2, <3>2
  <2> QED BY <1>9, <2>1, <2>2 DEF Lex
<1>10. CASE Parse
  <2>1. ParseStep /\ phase = "parsing" /\ phase' = phase /\ l' = l
    BY <1>10 DEF Parse, replVars
  <2> QED BY <1>1, <2>1, StepKeepsSound
<1>11. CASE Accept \/ AcceptAgain
  <2>1. p' = p /\ l' = l /\ p.outcome \in {"parsed", "failed"} /\ p.err = "none"
    BY <1>11 DEF Accept, AcceptAgain, First, Parsed, judged
  <2>2. p.outcome = "parsed"
    BY <2>1 DEF Sound
  <2> QED BY <1>0, <1>1, <2>1, <2>2
<1> QED BY <1>2, <1>4, <1>5, <1>7, <1>8, <1>9, <1>10, <1>11 DEF Next, Read, Answer

\* At first nothing has been parsed.
LEMMA InitAccepted == Init => Accepted
<1> SUFFICES ASSUME Init PROVE Accepted
  OBVIOUS
<1>1. p = NewParser /\ phase = "read" /\ l = NewLexer("")
  BY Zenon DEF Init
<1>2. IsSequence(<<>>)
  BY DEF IsSequence
<1>3. HasTokens(l)
  BY <1>1, <1>2 DEF HasTokens, LexerFields, NewLexer
<1>4. Sound(p)
  BY <1>1, BeginsSound
<1> QED BY <1>1, <1>3, <1>4 DEF Accepted

\* What is executed is one of a stack of trees.
LEMMA ProgramOnStack ==
  ASSUME Accepted, phase = "exec"
  PROVE  program \in Members(p.val) /\ Tree(program)
<1>1. Trees(p.val) /\ p.val # <<>>
  BY DEF Accepted, Sound
<1>2. 1 \in 1..Len(p.val)
  <2>1. p.val \in Seq(Members(p.val))
    BY <1>1 DEF Trees, IsSequence
  <2> QED BY <1>1, <2>1
<1> QED BY <1>1, <1>2 DEF Trees, Members, program

\* Every function of the parser finds the nodes that it takes, so what is
\* accepted is a tree.
THEOREM ProgramsAreTrees == Spec => []ProgramIsTree
<1>1. Init => Accepted
  BY InitAccepted
<1>2. Accepted /\ [Next]_vars => Accepted'
  BY StepKeepsAccepted
<1>3. Accepted => ProgramIsTree
  <2> SUFFICES ASSUME Accepted, phase = "exec"
               PROVE  /\ Len(program.kids) \in Nat
                      /\ \A i \in 1..Len(program.kids) : Len(program.kids[i].kids) \in Nat
    BY DEF ProgramIsTree
  <2>1. Tree(program)
    BY ProgramOnStack
  <2>2. IsSequence(program.kids) /\ \A n \in Members(program.kids) : IsSequence(n.kids)
    BY <2>1 DEF Tree, Listed
  <2>3. \A i \in 1..Len(program.kids) : program.kids[i] \in Members(program.kids)
    BY DEF Members
  <2> QED BY <2>2, <2>3, SequenceOf DEF IsSequence
<1> QED BY <1>1, <1>2, <1>3, PTL DEF Spec

\* An error that is met is never forgotten before the program is judged, and
\* without one no function but those of semicolons and method definitions leaves
\* nil in the place of a node: a program that is accepted has no nil where the
\* generator follows it, unless it has one of these tokens.
THEOREM AcceptedHasNoNil == Spec => []NilFree
<1>1. Init => Accepted
  BY InitAccepted
<1>2. Accepted /\ [Next]_vars => Accepted'
  BY StepKeepsAccepted
<1>3. Accepted => NilFree
  <2> SUFFICES ASSUME Accepted, phase = "exec",
                      \A i \in 1..Len(p.input) : p.input[i].t \notin {";", "DEF"}
               PROVE  program.nils = 0
    BY DEF NilFree
  <2>1. ~Dirty(p)
    BY DEF Accepted, Dirty, Spotless
  <2>2. AllClean(p.val)
    BY <2>1 DEF Accepted, Sound, Pure
  <2> QED BY <2>2, ProgramOnStack DEF AllClean, Clean
<1> QED BY <1>1, <1>2, <1>3, PTL DEF Spec

-----------------------------------------------------------------------------
(* What fsm and acceptBlock come back to.                                  *)

\* The works that set fsm to what it was when they were put there, and those of
\* a list of parameters, which leave it "normal" in the end.
Restorers == {"whileBody", "groupEnd", "assignEnd", "callEnd"}
ParameterWorks == {"parameter", "moreParameters", "checkParameters"}
FsmWorks == Restorers \cup ParameterWorks

\* The works that set acceptBlock, or have a block do it at once.
Openers == {"whileBody", "consequence", "cases"}

Back(w) == w.do \in ParameterWorks \/ (w.do \in Restorers /\ w.s = "normal")
Astray(w) == w.do \in Restorers /\ w.s # "normal"
Comes(s) == \E w \in Members(s) : Back(w)

\* What leads elsewhere is followed by what leads back.
Led(s) == \A i \in 1..Len(s) : Astray(s[i]) => \E j \in i+1..Len(s) : Back(s[j])

ParserStates == {"normal", "call", "param", "assignment"}

Loose(q) ==
  /\ DOMAIN q = Fields /\ q.outcome = "parsing"
  /\ IsSequence(q.todo) /\ Led(q.todo)
  /\ q.fsm \in ParserStates
Firm(q) == Loose(q) /\ (q.fsm # "normal" => Comes(q.todo))
Opens(q) == q.acceptBlock = TRUE \/ \E w \in Members(q.todo) : w.do \in Openers
Steady(q) == Firm(q) /\ Opens(q)

\* The works that are left lead back to where a new parser starts, and without
\* any it is there.
Owes(q) ==
  IF q.outcome = "parsing" THEN Firm(q) /\ (Opens(q) \/ q.todo[1].do = "block")
  ELSE q.fsm = "normal" /\ q.acceptBlock = TRUE

\* Works that leave fsm as it is.
Ordinary(ws) == IsSequence(ws) /\ \A w \in Members(ws) : w.do \notin FsmWorks

\* The first of some works.
LEMMA FirstWork ==
  ASSUME NEW s, IsSequence(s), s # <<>>
  PROVE  /\ IsSequence(Tail(s)) /\ s[1] \in Members(s)
         /\ Members(Tail(s)) \subseteq Members(s)
         /\ \A w \in Members(s) : w = s[1] \/ w \in Members(Tail(s))
         /\ Len(s) \in Nat /\ Len(s) >= 1 /\ Len(Tail(s)) = Len(s) - 1
         /\ \A i \in 1..Len(s)-1 : Tail(s)[i] = s[i+1]
<1> DEFINE t == Tail(s)
<1>1. /\ s \in Seq(Members(s)) /\ Len(s) \in Nat /\ Len(s) >= 1
      /\ t \in Seq(Members(s)) /\ Len(t) = Len(s) - 1
      /\ \A i \in 1..Len(s)-1 : t[i] = s[i+1]
  BY DEF IsSequence
<1> HIDE DEF t
<1>2. IsSequence(t) /\ Members(t) \subseteq Members(s)
  BY <1>1, SequenceOf
<1>3. s[1] \in Members(s)
  BY <1>1 DEF Members
<1>4. ASSUME NEW w \in Members(s) PROVE w = s[1] \/ w \in Members(t)
  <2>1. PICK i \in 1..Len(s) : w = s[i]
    BY DEF Members
  <2>2. CASE i = 1
    BY <2>1, <2>2
  <2>3. CASE i # 1
    <3>1. i - 1 \in 1..Len(s)-1 /\ i - 1 + 1 = i /\ i - 1 \in 1..Len(t)
      BY <1>1, <2>3
    <3> QED BY <1>1, <2>1, <3>1 DEF Members
  <2> QED BY <2>2, <2>3
<1> QED BY <1>1, <1>2, <1>3, <1>4 DEF t

\* What is left when it is taken up.
LEMMA FirstLeads ==
  ASSUME NEW s, IsSequence(s), s # <<>>, Led(s)
  PROVE  /\ Led(Tail(s))
         /\ Astray(s[1]) => Comes(Tail(s))
         /\ Comes(s) /\ ~Back(s[1]) => Comes(Tail(s))
<1> DEFINE t == Tail(s)
<1>1. /\ Len(s) \in Nat /\ Len(s) >= 1 /\ Len(t) = Len(s) - 1
      /\ \A i \in 1..Len(s)-1 : t[i] = s[i+1]
      /\ \A w \in Members(s) : w = s[1] \/ w \in Members(t)
  BY FirstWork
<1> HIDE DEF t
<1>2. ASSUME NEW i \in 1..Len(t), Astray(t[i])
      PROVE  \E j \in i+1..Len(t) : Back(t[j])
  <2>1. i + 1 \in 1..Len(s) /\ t[i] = s[i+1]
    BY <1>1
  <2>2. PICK j \in i+1+1..Len(s) : Back(s[j])
    BY <1>2, <2>1 DEF Led
  <2>3. j - 1 \in i+1..Len(t) /\ j - 1 \in 1..Len(s)-1 /\ j - 1 + 1 = j
    BY <1>1, <2>1
  <2> QED BY <1>1, <2>2, <2>3
<1>3. ASSUME Astray(s[1]) PROVE Comes(t)
  <2>1. PICK j \in 1+1..Len(s) : Back(s[j])
    BY <1>1, <1>3 DEF Led
  <2>2. j - 1 \in 1..Len(t) /\ j - 1 \in 1..Len(s)-1 /\ j - 1 + 1 = j
    BY <1>1
  <2> QED BY <1>1, <2>1, <2>2 DEF Comes, Members
<1>4. ASSUME Comes(s), ~Back(s[1]) PROVE Comes(t)
  BY <1>1, <1>4 DEF Comes
<1> QED BY <1>2, <1>3, <1>4 DEF Led, t

\* Works are put in front of others.
LEMMA LedOn ==
  ASSUME NEW ws, IsSequence(ws), NEW s, IsSequence(s), Led(s),
         \A w \in Members(ws) : Astray(w) => Comes(s)
  PROVE  /\ IsSequence(ws \o s) /\ Led(ws \o s)
         /\ Comes(s) \/ Comes(ws) => Comes(ws \o s)
         /\ \A w : w \in Members(ws) \/ w \in Members(s) => w \in Members(ws \o s)
<1> DEFINE r == ws \o s
           S == Members(ws) \cup Members(s)
<1>1. ws \in Seq(S) /\ s \in Seq(S)
  BY DEF IsSequence
<1> HIDE DEF S
<1>2. /\ r \in Seq(S) /\ Len(r) = Len(ws) + Len(s)
      /\ Len(ws) \in Nat /\ Len(s) \in Nat
      /\ \A i \in 1..Len(ws) : r[i] = ws[i]
      /\ \A i \in 1..Len(s) : r[Len(ws) + i] = s[i]
  BY <1>1, ConcatElements
<1> HIDE DEF r
<1>3. IsSequence(r)
  BY <1>2, SequenceOf
<1>4. ASSUME NEW w \in Members(ws) PROVE w \in Members(r)
  <2>1. PICK i \in 1..Len(ws) : w = ws[i]
    BY DEF Members
  <2>2. i \in 1..Len(r)
    BY <1>2
  <2> QED BY <1>2, <2>1, <2>2 DEF Members
<1>5. ASSUME NEW w \in Members(s) PROVE w \in Members(r)
  <2>1. PICK i \in 1..Len(s) : w = s[i]
    BY DEF Members
  <2>2. Len(ws) + i \in 1..Len(r)
    BY <1>2
  <2> QED BY <1>2, <2>1, <2>2 DEF Members
<1>6. Comes(s) \/ Comes(ws) => Comes(r)
  BY <1>4, <1>5 DEF Comes
<1>7. ASSUME NEW i \in 1..Len(r), Astray(r[i])
      PROVE  \E j \in i+1..Len(r) : Back(r[j])
  <2>1. CASE i \in 1..Len(ws)
    <3>1. ws[i] \in Members(ws)
      BY <2>1 DEF Members
    <3>2. PICK k \in 1..Len(s) : Back(s[k])
      BY <1>2, <1>7, <2>1, <3>1 DEF Comes, Members
    <3>3. Len(ws) + k \in i+1..Len(r)
      BY <1>2, <2>1, <3>2
    <3> QED BY <1>2, <3>2, <3>3
  <2>2. CASE i \notin 1..Len(ws)
    <3>1. i - Len(ws) \in 1..Len(s) /\ Len(ws) + (i - Len(ws)) = i
      BY <1>2, <2>2
    <3>2. PICK k \in (i - Len(ws))+1..Len(s) : Back(s[k])
      BY <1>2, <1>7, <3>1 DEF Led
    <3>3. k \in 1..Len(s) /\ Len(ws) + k \in i+1..Len(r)
      BY <1>2, <3>1
    <3> QED BY <1>2, <3>2, <3>3
  <2> QED BY <2>1, <2>2
<1> QED BY <1>3, <1>4, <1>5, <1>6, <1>7 DEF Led, r

\* q goes on where r was, for what concerns fsm and acceptBlock.
Same(q, r) ==
  /\ DOMAIN q = Fields /\ q.outcome = r.outcome
  /\ q.todo = r.todo /\ q.fsm = r.fsm /\ q.acceptBlock = r.acceptBlock

\* What moves on, makes nodes or meets an error leaves them alone.
LEMMA Stays ==
  ASSUME NEW q, DOMAIN q = Fields
  PROVE  /\ Same(nextToken(q), q)
         /\ \A node : Same(Push(q, node), q)
         /\ Same(Drop(q), q)
         /\ \A n, k, x : Same(Build(q, n, k, x), q)
         /\ \A e : Same(Error(q, e), q)
<1>1. Same(nextToken(q), q)
  BY DEF Same, Fields, nextToken
<1>2. \A node : Same(Push(q, node), q)
  BY DEF Same, Fields, Push
<1>3. Same(Drop(q), q)
  BY DEF Same, Fields, Drop
<1>4. \A n, k, x : Same(Build(q, n, k, x), q)
  BY DEF Same, Fields, Build
<1>5. \A e : Same(Error(q, e), q)
  BY DEF Same, Fields, Error
<1> QED BY <1>1, <1>2, <1>3, <1>4, <1>5

\* Nor does what is made of such.
LEMMA StaysStill ==
  ASSUME NEW q, DOMAIN q = Fields
  PROVE  /\ \A k : Same(Rename(q, k), q)
         /\ Same(AddKid(q), q)
         /\ \A t : Same(peekError(q, t), q)
         /\ \A t : Same(Expect(q, t), q)
         /\ Same(noPrefixParseFnError(q), q)
         /\ \A n, r : Same(Call(q, n, r), q)
         /\ \A t : Same(SkipTo(q, t), q)
<1>1. /\ Same(nextToken(q), q) /\ \A node : Same(Push(q, node), q)
      /\ \A e : Same(Error(q, e), q)
  BY Stays
<1>2. Same(Drop(q), q) /\ \A node : Same(Push(Drop(q), node), Drop(q))
  BY Stays DEF Same
<1>3. Same(Drop(Drop(q)), Drop(q)) /\ \A node : Same(Push(Drop(Drop(q)), node), Drop(Drop(q)))
  BY <1>2, Stays DEF Same
<1>4. \A k : Same(Rename(q, k), q)
  BY <1>2 DEF Same, Rename
<1>5. Same(AddKid(q), q)
  BY <1>2, <1>3 DEF Same, AddKid
<1>6. \A t : Same(peekError(q, t), q)
  BY <1>1 DEF peekError
<1>7. \A t : Same(Expect(q, t), q)
  BY <1>1, <1>6 DEF Expect
<1>8. Same(noPrefixParseFnError(q), q)
  BY <1>1 DEF noPrefixParseFnError
<1>9. \A n, r : Same(Call(q, n, r), q)
  BY <1>1 DEF Call
<1>10. Same(q, q)
  BY DEF Same
<1>11. \A t : Same(SkipTo(q, t), q)
  BY <1>1, <1>10 DEF SkipTo
<1> QED BY <1>4, <1>5, <1>6, <1>7, <1>8, <1>9, <1>11

\* What is steady stays so.
LEMMA SameIsSteady ==
  ASSUME NEW q, NEW r, Same(q, r)
  PROVE  /\ Loose(r) => Loose(q)
         /\ Firm(r) => Firm(q)
         /\ Opens(r) => Opens(q)
         /\ Steady(r) => Steady(q)
BY DEF Same, Loose, Firm, Opens, Steady

\* Each of them one by one.
LEMMA SteadyStays ==
  ASSUME NEW q, Steady(q)
  PROVE  /\ Steady(nextToken(q))
         /\ \A node : Steady(Push(q, node))
         /\ Steady(Drop(q))
         /\ \A n, k, x : Steady(Build(q, n, k, x))
         /\ \A e : Steady(Error(q, e))
         /\ \A k : Steady(Rename(q, k))
         /\ Steady(AddKid(q))
         /\ \A t : Steady(peekError(q, t))
         /\ \A t : Steady(Expect(q, t))
         /\ Steady(noPrefixParseFnError(q))
         /\ \A n, r : Steady(Call(q, n, r))
         /\ \A t : Steady(SkipTo(q, t))
<1>1. DOMAIN q = Fields
  BY DEF Steady, Firm, Loose
<1>2. \A r : Same(r, q) => Steady(r)
  BY SameIsSteady
<1> QED BY <1>1, <1>2, Stays, StaysStill

\* Works are put in front, in a state that leads back.
LEMMA Enters ==
  ASSUME NEW q, Loose(q), NEW r, NEW ws, IsSequence(ws),
         DOMAIN r = Fields, r.outcome = "parsing", r.fsm \in ParserStates,
         r.todo = ws \o q.todo,
         \A w \in Members(ws) : Astray(w) => Comes(q.todo),
         r.fsm = "normal" \/ Comes(ws) \/ Comes(q.todo)
  PROVE  /\ Firm(r)
         /\ \/ r.acceptBlock = TRUE
            \/ r.acceptBlock = q.acceptBlock /\ Opens(q)
            \/ \E w \in Members(ws) : w.do \in Openers
            => Opens(r)
<1>1. /\ IsSequence(r.todo) /\ Led(r.todo)
      /\ Comes(q.todo) \/ Comes(ws) => Comes(r.todo)
      /\ \A w : w \in Members(ws) \/ w \in Members(q.todo) => w \in Members(r.todo)
  BY LedOn DEF Loose
<1>2. Firm(r)
  BY <1>1 DEF Firm, Loose
<1>3. Opens(q) => r.acceptBlock # q.acceptBlock \/ Opens(r)
  BY <1>1 DEF Opens
<1>4. (\E w \in Members(ws) : w.do \in Openers) => Opens(r)
  BY <1>1 DEF Opens
<1>5. r.acceptBlock = TRUE => Opens(r)
  BY DEF Opens
<1> QED BY <1>2, <1>3, <1>4, <1>5

\* Works that leave fsm as it is are put in front.
LEMMA ThenSteady ==
  ASSUME NEW q, Firm(q), NEW ws, Ordinary(ws),
         Opens(q) \/ \E w \in Members(ws) : w.do \in Openers
  PROVE  Steady(Then(q, ws))
<1> DEFINE r == Then(q, ws)
<1>1. /\ DOMAIN r = Fields /\ r.outcome = "parsing" /\ r.fsm \in ParserStates
      /\ r.todo = ws \o q.todo /\ r.fsm = q.fsm /\ r.acceptBlock = q.acceptBlock
  BY DEF Then, Firm, Loose, Fields
<1> HIDE DEF r
<1>2. \A w \in Members(ws) : ~Astray(w)
  BY DEF Ordinary, Astray, FsmWorks
<1>3. r.fsm = "normal" \/ Comes(q.todo)
  BY <1>1 DEF Firm
<1> QED BY <1>1, <1>2, <1>3, Enters DEF Ordinary, Firm, Steady, r

\* Any of them.
LEMMA SteadyThen ==
  ASSUME NEW q, Steady(q)
  PROVE  \A ws : Ordinary(ws) => Steady(Then(q, ws))
BY ThenSteady DEF Steady

\* Where a block belongs to a call again.
LEMMA AcceptsBlock ==
  ASSUME NEW q, Firm(q)
  PROVE  Steady(AcceptBlock(q, TRUE)) /\ \A b : Firm(AcceptBlock(q, b))
<1>1. \A b : Firm(AcceptBlock(q, b))
  BY DEF AcceptBlock, Firm, Loose, Fields
<1>2. AcceptBlock(q, TRUE).acceptBlock = TRUE
  BY DEF AcceptBlock, Firm, Loose, Fields
<1> QED BY <1>1, <1>2 DEF Steady, Opens

\* The state goes to one that there is, and to "normal" from any.
LEMMA StateGoes ==
  ASSUME NEW q, DOMAIN q = Fields, q.fsm \in ParserStates, NEW s
  PROVE  /\ DOMAIN State(q, s) = Fields
         /\ State(q, s).outcome = q.outcome /\ State(q, s).todo = q.todo
         /\ State(q, s).acceptBlock = q.acceptBlock
         /\ State(q, s).fsm \in ParserStates
         /\ s = "normal" => State(q, s).fsm = "normal"
<1>1. /\ Goto(Transitions, q.fsm, s) \in ParserStates
      /\ s = "normal" => Goto(Transitions, q.fsm, s) = "normal"
  <2>1. /\ <<"call", "normal">> \in Transitions /\ <<"param", "normal">> \in Transitions
        /\ <<"assignment", "normal">> \in Transitions
    BY DEF Transitions
  <2>2. <<q.fsm, s>> \in Transitions => s \in ParserStates
    BY DEF Transitions, ParserStates
  <2> QED BY <2>1, <2>2 DEF Goto, ParserStates
<1> QED BY <1>1 DEF State, Fields

\* A work is taken up.
LEMMA TakeAny ==
  ASSUME Sound(p), Owes(p), Parsing
  PROVE  /\ Loose(q0) /\ Firm(p)
         /\ q0.fsm = p.fsm /\ q0.acceptBlock = p.acceptBlock /\ q0.todo = Tail(p.todo)
         /\ ~Back(work) /\ p.fsm # "normal" => Comes(q0.todo)
         /\ Astray(work) => Comes(q0.todo)
         /\ work.do \notin Openers \cup {"block"} => Opens(q0)
<1>1. Firm(p) /\ (Opens(p) \/ work.do = "block")
  BY DEF Owes, Parsing, work
<1>2. IsSequence(p.todo) /\ p.todo # <<>>
  BY DEF Sound, Parsing, Balanced
<1>3. /\ DOMAIN q0 = Fields /\ q0.outcome = "parsing" /\ q0.fsm = p.fsm
      /\ q0.acceptBlock = p.acceptBlock /\ q0.todo = Tail(p.todo)
  BY <1>1 DEF q0, Firm, Loose, Fields
<1>4. /\ IsSequence(Tail(p.todo))
      /\ \A w \in Members(p.todo) : w = work \/ w \in Members(Tail(p.todo))
  BY <1>2, FirstWork DEF work
<1>5. /\ Led(Tail(p.todo)) /\ (Astray(work) => Comes(Tail(p.todo)))
      /\ Comes(p.todo) /\ ~Back(work) => Comes(Tail(p.todo))
  BY <1>1, <1>2, FirstLeads DEF work, Firm, Loose
<1>6. Loose(q0)
  BY <1>1, <1>3, <1>4, <1>5 DEF Firm, Loose
<1>7. ASSUME work.do \notin Openers \cup {"block"} PROVE Opens(q0)
  BY <1>1, <1>3, <1>4, <1>7 DEF Opens
<1> QED BY <1>1, <1>3, <1>5, <1>6, <1>7 DEF Firm

\* One that leaves fsm as it is.
LEMMA TakeOrdinary ==
  ASSUME Sound(p), Owes(p), Parsing, work.do \notin FsmWorks
  PROVE  /\ Firm(q0) /\ q0.fsm = p.fsm
         /\ work.do \notin Openers \cup {"block"} => Steady(q0)
<1>1. ~Back(work)
  BY DEF Back, FsmWorks
<1> QED BY <1>1, TakeAny DEF Firm, Steady

\* One that sets it to what it was.
LEMMA TakeRestorer ==
  ASSUME Sound(p), Owes(p), Parsing, work.do \in Restorers
  PROVE  /\ Firm(State(q0, work.s))
         /\ work.do # "whileBody" => Steady(State(q0, work.s))
<1> DEFINE r == State(q0, work.s)
<1>1. /\ Loose(q0) /\ (Astray(work) => Comes(q0.todo))
      /\ work.do \notin Openers \cup {"block"} => Opens(q0)
  BY TakeAny
<1>2. /\ DOMAIN r = Fields /\ r.outcome = "parsing" /\ r.todo = q0.todo
      /\ r.acceptBlock = q0.acceptBlock /\ r.fsm \in ParserStates
      /\ work.s = "normal" => r.fsm = "normal"
  BY <1>1, StateGoes DEF Loose
<1> HIDE DEF r
<1>3. Firm(r)
  BY <1>1, <1>2 DEF Firm, Loose, Astray
<1>4. work.do # "whileBody" => Opens(r)
  BY <1>1, <1>2 DEF Opens, Restorers, Openers
<1> QED BY <1>3, <1>4 DEF Steady, r

\* One of a list of parameters, which leaves fsm "normal" or has another do it.
LEMMA TakeParameter ==
  ASSUME Sound(p), Owes(p), Parsing, work.do \in ParameterWorks
  PROVE  /\ DOMAIN q0 = Fields
         /\ Steady(State(q0, "normal"))
         /\ \A q, ws : /\ Same(q, q0) /\ IsSequence(ws)
                       /\ \A w \in Members(ws) : ~Astray(w)
                       /\ Comes(ws)
                       => Steady(Then(q, ws))
<1>1. Loose(q0) /\ Opens(q0)
  BY TakeAny DEF ParameterWorks, Openers
<1>2. Steady(State(q0, "normal"))
  <2> DEFINE r == State(q0, "normal")
  <2>1. /\ DOMAIN r = Fields /\ r.outcome = "parsing" /\ r.todo = q0.todo
        /\ r.acceptBlock = q0.acceptBlock /\ r.fsm = "normal" /\ r.fsm \in ParserStates
    BY <1>1, StateGoes DEF Loose
  <2> HIDE DEF r
  <2> QED BY <1>1, <2>1 DEF Steady, Firm, Loose, Opens, r
<1>3. ASSUME NEW q, NEW ws, Same(q, q0), IsSequence(ws),
             \A w \in Members(ws) : ~Astray(w), Comes(ws)
      PROVE  Steady(Then(q, ws))
  <2> DEFINE r == Then(q, ws)
  <2>1. Loose(q) /\ Opens(q)
    BY <1>1, <1>3, SameIsSteady
  <2>2. /\ DOMAIN r = Fields /\ r.outcome = "parsing" /\ r.fsm \in ParserStates
        /\ r.todo = ws \o q.todo /\ r.acceptBlock = q.acceptBlock
    BY <2>1 DEF Then, Loose, Fields
  <2> HIDE DEF r
  <2>3. Firm(r) /\ Opens(r)
    BY <1>3, <2>1, <2>2, Enters
  <2> QED BY <2>3 DEF Steady, r
<1> QED BY <1>1, <1>2, <1>3 DEF Loose

-----------------------------------------------------------------------------
(* Works that leave fsm as it is.                                          *)

\* By their names.
Usual(w) == w.do \notin FsmWorks

\* Works that are made by their names, or that stand for an expression.
LEMMA UsualWorks ==
  /\ \A d, n, s : d \notin FsmWorks => Usual(Do(d, n, s))
  /\ \A n : Usual(Expression(n))
  /\ \A n, k, x : Usual(DoBuild(n, k, x))
BY DEF Usual, Do, Expression, DoBuild, FsmWorks, Restorers, ParameterWorks

\* Their members.
LEMMA ShortSequences ==
  /\ \A a : IsSequence(<<a>>) /\ Members(<<a>>) = {a}
  /\ \A a, b : IsSequence(<<a, b>>) /\ Members(<<a, b>>) = {a, b}
<1>1. \A a : IsSequence(<<a>>) /\ Members(<<a>>) = {a}
  BY IsOneWork, FewMembers
<1>2. ASSUME NEW a, NEW b PROVE IsSequence(<<a, b>>) /\ Members(<<a, b>>) = {a, b}
  <2>1. <<a, b>> \in Seq({a, b})
    OBVIOUS
  <2> QED BY <2>1, SequenceOf, FewMembers
<1> QED BY <1>1, <1>2

\* One or two in a row.
LEMMA OrdinaryWorks ==
  /\ \A a : Usual(a) => Ordinary(<<a>>)
  /\ \A a, b : Usual(a) /\ Usual(b) => Ordinary(<<a, b>>)
BY ShortSequences DEF Ordinary, Usual

\* In a row.
LEMMA OrdinaryConcat ==
  ASSUME NEW a, Ordinary(a), NEW b, Ordinary(b)
  PROVE  Ordinary(a \o b)
BY ConcatMembers DEF Ordinary

\* Three in a row.
LEMMA OrdinaryThree ==
  ASSUME NEW a, NEW b, NEW c, Usual(a), Usual(b), Usual(c)
  PROVE  Ordinary(<<a, b, c>>)
<1>1. <<a, b, c>> = <<a>> \o <<b, c>>
  BY Concat
<1> QED BY <1>1, OrdinaryWorks, OrdinaryConcat

\* A block and what keeps its last value.
LEMMA OrdinaryBody ==
  \A s : Ordinary(Body(s))
<1>1. \A s : Usual(Do("block", 0, s)) /\ Usual(Do("keep", 0, ""))
  BY UsualWorks DEF FsmWorks, Restorers, ParameterWorks
<1> QED BY <1>1, OrdinaryWorks DEF Body

\* One that has nothing to do with either field is taken up.
LEMMA TakeUsual ==
  ASSUME Sound(p), Owes(p), NEW d, Doing(d), d \notin FsmWorks \cup Openers \cup {"block"}
  PROVE  Steady(q0) /\ q0.fsm = p.fsm
BY TakeOrdinary DEF Doing

\* All that a function does to what is steady without State or AcceptBlock.
LEMMA KeepsSteady ==
  \A q : Steady(q) =>
    /\ Steady(nextToken(q)) /\ Steady(Drop(q)) /\ Steady(AddKid(q))
    /\ \A node : Steady(Push(q, node))
    /\ \A n, k, x : Steady(Build(q, n, k, x))
    /\ \A e : Steady(Error(q, e))
    /\ \A t : Steady(peekError(q, t)) /\ Steady(Expect(q, t)) /\ Steady(SkipTo(q, t))
    /\ \A k : Steady(Rename(q, k))
    /\ \A n, r : Steady(Call(q, n, r))
    /\ Steady(noPrefixParseFnError(q))
    /\ \A ws : Ordinary(ws) => Steady(Then(q, ws))
BY SteadyStays, SteadyThen

\* That is enough.
LEMMA SteadyOwes ==
  \A q : Steady(q) => Owes(q)
BY DEF Steady, Owes, Firm, Loose

\* Statements and what the functions have in common.
LEMMA StatementStays ==
  ASSUME Sound(p), Owes(p)
  PROVE  /\ parseStatement => Owes(p')
         /\ parseReturnStatement => Owes(p')
         /\ build => Owes(p')
         /\ adopt => Owes(p')
         /\ parseModuleStatement => Owes(p')
         /\ parseClassStatement => Owes(p')
<1> USE DEF FsmWorks, Restorers, ParameterWorks, Openers
<1>1. ASSUME parseStatement PROVE Steady(p')
  <2>1. Steady(q0)
    BY <1>1, TakeUsual DEF parseStatement
  <2>2. /\ \A t \in StatementTokens : Ordinary(<<Do(t, 0, "")>>)
        /\ \A n : Ordinary(<<Expression(n), Do("mark", 0, "")>>)
    BY UsualWorks, OrdinaryWorks DEF StatementTokens
  <2> QED BY <1>1, <2>1, <2>2, KeepsSteady DEF parseStatement
<1>2. ASSUME parseReturnStatement PROVE Steady(p')
  <2>1. Steady(q0)
    BY <1>2, TakeUsual DEF parseReturnStatement
  <2>2. Ordinary(<<Expression(Normal), DoBuild(1, "return", "")>>)
    BY UsualWorks, OrdinaryWorks
  <2> QED BY <1>2, <2>1, <2>2, KeepsSteady DEF parseReturnStatement
<1>3. ASSUME build PROVE Steady(p')
  <2>1. Steady(q0)
    BY <1>3, TakeUsual DEF build
  <2> QED BY <1>3, <2>1, KeepsSteady DEF build
<1>4. ASSUME adopt PROVE Steady(p')
  <2>1. Steady(q0)
    BY <1>4, TakeUsual DEF adopt
  <2> QED BY <1>4, <2>1, KeepsSteady DEF adopt
<1>5. ASSUME parseModuleStatement PROVE Steady(p')
  <2>1. Steady(q0)
    BY <1>5, TakeUsual DEF parseModuleStatement
  <2>2. Ordinary(<<Do("block", 0, "}"), DoBuild(2, "module", "")>>)
    BY UsualWorks, OrdinaryWorks
  <2> QED BY <1>5, <2>1, <2>2, KeepsSteady DEF parseModuleStatement
<1>6. ASSUME parseClassStatement PROVE Steady(p')
  <2>1. Steady(q0)
    BY <1>6, TakeUsual DEF parseClassStatement
  <2>2. /\ Ordinary(<<Do("block", 0, "}"), DoBuild(2, "class", "")>>)
        /\ Ordinary(<<Expression(Normal), Do("superclass", 0, "")>>)
    BY UsualWorks, OrdinaryWorks
  <2> QED BY <1>6, <2>1, <2>2, KeepsSteady DEF parseClassStatement
<1> QED BY <1>1, <1>2, <1>3, <1>4, <1>5, <1>6, SteadyOwes

\* A nil pointer ends the parse.
LEMMA PanicFails ==
  \A q : DOMAIN q = Fields => Panic(q).outcome = "failed"
BY DEF Panic, Fields

\* Functions that follow a nil pointer aside.
LEMMA BlockListStays ==
  ASSUME Sound(p), Owes(p), p'.outcome # "failed"
  PROVE  /\ markExpression => Owes(p')
         /\ parseSuperClass => Owes(p')
         /\ KeepLastValue => Owes(p')
         /\ parseBlockStatements => Owes(p')
         /\ parseBlockNext => Owes(p')
         /\ parseDefClose => Owes(p')
         /\ parseDefBody => Owes(p')
<1> USE DEF FsmWorks, Restorers, ParameterWorks, Openers
<1>0. \A q : Steady(q) => Panic(q) # p'
  BY PanicFails DEF Steady, Firm, Loose
<1>1. ASSUME markExpression PROVE Steady(p')
  <2>1. Steady(q0)
    BY <1>1, TakeUsual DEF markExpression
  <2> QED BY <1>0, <1>1, <2>1 DEF markExpression
<1>2. ASSUME parseSuperClass PROVE Steady(p')
  <2>1. Steady(q0)
    BY <1>2, TakeUsual DEF parseSuperClass
  <2>2. Ordinary(<<Do("block", 0, "}"), DoBuild(3, "class", "")>>)
    BY UsualWorks, OrdinaryWorks
  <2> QED BY <1>0, <1>2, <2>1, <2>2, KeepsSteady DEF parseSuperClass
<1>3. ASSUME KeepLastValue PROVE Steady(p')
  <2>1. Steady(q0)
    BY <1>3, TakeUsual DEF KeepLastValue
  <2> QED BY <1>0, <1>3, <2>1 DEF KeepLastValue
<1>4. ASSUME parseBlockStatements PROVE Steady(p')
  <2>1. Steady(q0)
    BY <1>4, TakeUsual DEF parseBlockStatements
  <2>2. \A s : Ordinary(<<Do("statement", 0, ""), Do("moreStatements", 0, s)>>)
    BY UsualWorks, OrdinaryWorks
  <2> QED BY <1>4, <2>1, <2>2, KeepsSteady DEF parseBlockStatements
<1>5. ASSUME parseBlockNext PROVE Steady(p')
  <2>1. Steady(q0)
    BY <1>5, TakeUsual DEF parseBlockNext
  <2>2. \A s : Ordinary(<<Do("statements", 0, s)>>)
    BY UsualWorks, OrdinaryWorks
  <2> QED BY <1>5, <2>1, <2>2, KeepsSteady DEF parseBlockNext
<1>6. ASSUME parseDefClose PROVE Steady(p')
  <2>1. Steady(q0)
    BY <1>6, TakeUsual DEF parseDefClose
  <2>2. Ordinary(<<Do("defBody", 0, "")>>)
    BY UsualWorks, OrdinaryWorks
  <2> QED BY <1>6, <2>1, <2>2, KeepsSteady DEF parseDefClose
<1>7. ASSUME parseDefBody PROVE Steady(p')
  <2>1. Steady(q0)
    BY <1>7, TakeUsual DEF parseDefBody
  <2>2. Ordinary(Body("}") \o <<Do("adopt", 0, "")>>)
    BY UsualWorks, OrdinaryWorks, OrdinaryBody, OrdinaryConcat
  <2> QED BY <1>7, <2>1, <2>2, KeepsSteady DEF parseDefBody
<1> QED BY <1>1, <1>2, <1>3, <1>4, <1>5, <1>6, <1>7, SteadyOwes

\* The block is accepted again where it begins.
LEMMA BlockStays ==
  ASSUME Sound(p), Owes(p), parseBlockStatement
  PROVE  Owes(p')
<1>1. Firm(q0)
  BY TakeOrdinary DEF parseBlockStatement, Doing, FsmWorks, Restorers, ParameterWorks
<1>2. Steady(AcceptBlock(q0, TRUE))
  BY <1>1, AcceptsBlock
<1>3. \A s : Ordinary(<<Do("statements", 0, s)>>)
  BY UsualWorks, OrdinaryWorks DEF FsmWorks, Restorers, ParameterWorks
<1>4. Steady(p')
  BY <1>2, <1>3, KeepsSteady DEF parseBlockStatement
<1> QED BY <1>4, SteadyOwes

\* A state is entered, with a work that leads back from it.
LEMMA EntersState ==
  ASSUME NEW q, Firm(q), NEW r, NEW ws, IsSequence(ws),
         DOMAIN r = Fields, r.outcome = "parsing", r.fsm \in ParserStates,
         r.todo = ws \o q.todo,
         NEW w \in Members(ws), Back(w) \/ (w.do \in Restorers /\ w.s = q.fsm),
         \A x \in Members(ws) : x = w \/ x.do \notin Restorers,
         \/ r.acceptBlock = q.acceptBlock /\ Opens(q)
         \/ \E x \in Members(ws) : x.do \in Openers
  PROVE  Steady(r)
<1>1. Back(w) \/ Comes(q.todo)
  BY DEF Firm, Back
<1>2. \A x \in Members(ws) : Astray(x) => Comes(q.todo)
  BY DEF Astray, Firm, Back, ParameterWorks, Restorers
<1>3. Comes(ws) \/ Comes(q.todo)
  BY <1>1 DEF Comes
<1> QED BY <1>2, <1>3, Enters DEF Firm, Steady

\* A list of parameters is entered, which leads back.
LEMMA DefStays ==
  ASSUME Sound(p), Owes(p), parseDefMethodStatement
  PROVE  Owes(p')
<1> USE DEF FsmWorks, Restorers, ParameterWorks, Openers
<1>1. Steady(q0)
  BY TakeUsual DEF parseDefMethodStatement
<1>2. Ordinary(<<Do("defBody", 0, "")>>) /\ Ordinary(<<Do("defClose", 0, "")>>)
  BY UsualWorks, OrdinaryWorks
<1> DEFINE ws == <<Do("parameter", 1, ""), Do("defClose", 0, "")>>
<1>3. ASSUME NEW q, Steady(q) PROVE Steady(Then(nextToken(State(q, "param")), ws))
  <2> DEFINE r == State(q, "param")
             n == nextToken(r)
             t == Then(n, ws)
  <2>1. /\ DOMAIN r = Fields /\ r.outcome = "parsing" /\ r.todo = q.todo
        /\ r.acceptBlock = q.acceptBlock /\ r.fsm \in ParserStates
    BY <1>3, StateGoes DEF Steady, Firm, Loose
  <2> HIDE DEF r
  <2>2. Same(n, r)
    BY <2>1, Stays
  <2> HIDE DEF n
  <2>3. /\ DOMAIN t = Fields /\ t.outcome = "parsing" /\ t.todo = ws \o q.todo
        /\ t.acceptBlock = q.acceptBlock /\ t.fsm \in ParserStates
    BY <2>1, <2>2 DEF Same, Then, Fields
  <2> HIDE DEF t
  <2> DEFINE first == Do("parameter", 1, "")
             last == Do("defClose", 0, "")
  <2>4. first.do = "parameter" /\ last.do = "defClose"
    BY DEF Do
  <2> HIDE DEF first, last
  <2>5. IsSequence(ws) /\ Members(ws) = {first, last}
    BY ShortSequences DEF first, last
  <2> HIDE DEF ws
  <2>6. Back(first)
    BY <2>4 DEF Back
  <2>7. Firm(q) /\ Opens(q)
    BY <1>3 DEF Steady
  <2>8. first \in Members(ws) /\ \A x \in Members(ws) : x = first \/ x.do \notin Restorers
    BY <2>4, <2>5
  <2>9. Steady(t)
    BY <2>3, <2>5, <2>6, <2>7, <2>8, EntersState
  <2> QED BY <2>9 DEF t, n, r
<1> HIDE DEF ws
<1>4. Steady(p')
  BY <1>1, <1>2, <1>3, KeepsSteady DEF parseDefMethodStatement, ws
<1> QED BY <1>4, SteadyOwes

\* Each parameter leads back too, unless a constant is in its place.
LEMMA ParametersStay ==
  ASSUME Sound(p), Owes(p), p'.outcome # "failed"
  PROVE  /\ parseParameter /\ curToken(p).t \notin InvalidParams => Owes(p')
         /\ parseMoreParameters => Owes(p')
         /\ checkMethodParameters => Owes(p')
<1>1. ASSUME NEW d \in ParameterWorks, Doing(d)
      PROVE  /\ DOMAIN q0 = Fields
             /\ Steady(State(q0, "normal"))
             /\ \A q, ws : /\ Same(q, q0) /\ IsSequence(ws)
                           /\ \A w \in Members(ws) : ~Astray(w)
                           /\ Comes(ws)
                           => Steady(Then(q, ws))
  BY <1>1, TakeParameter DEF Doing
<1>2. \A d, n, s : /\ Do(d, n, s).do = d
                   /\ d \in ParameterWorks => Back(Do(d, n, s)) /\ ~Astray(Do(d, n, s))
  BY DEF Do, Back, Astray, ParameterWorks, Restorers
<1>3. \A n : ~Astray(Expression(n))
  BY DEF Expression, Do, Astray, Restorers
<1>4. ASSUME NEW d \in ParameterWorks, NEW n, NEW m
      PROVE  /\ IsSequence(<<Do(d, n, "")>>) /\ Comes(<<Do(d, n, "")>>)
             /\ \A w \in Members(<<Do(d, n, "")>>) : ~Astray(w)
             /\ IsSequence(<<Expression(m), Do(d, n, "")>>)
             /\ Comes(<<Expression(m), Do(d, n, "")>>)
             /\ \A w \in Members(<<Expression(m), Do(d, n, "")>>) : ~Astray(w)
  <2> DEFINE w == Do(d, n, "")
             e == Expression(m)
  <2>1. Back(w) /\ ~Astray(w) /\ ~Astray(e)
    BY <1>2, <1>3
  <2> HIDE DEF w, e
  <2>2. /\ IsSequence(<<w>>) /\ Members(<<w>>) = {w}
        /\ IsSequence(<<e, w>>) /\ Members(<<e, w>>) = {e, w}
    BY ShortSequences
  <2>3. Comes(<<w>>) /\ Comes(<<e, w>>)
    BY <2>1, <2>2 DEF Comes
  <2> QED BY <2>1, <2>2, <2>3 DEF w, e
<1>5. /\ "parameter" \in ParameterWorks /\ "moreParameters" \in ParameterWorks
      /\ "checkParameters" \in ParameterWorks
  BY DEF ParameterWorks
<1>6. ASSUME parseParameter, curToken(p).t \notin InvalidParams PROVE Steady(p')
  <2>1. /\ DOMAIN q0 = Fields
        /\ \A q, ws : /\ Same(q, q0) /\ IsSequence(ws)
                      /\ \A w \in Members(ws) : ~Astray(w)
                      /\ Comes(ws)
                      => Steady(Then(q, ws))
    BY <1>1, <1>5, <1>6 DEF parseParameter
  <2>2. Same(q0, q0) /\ Same(peekError(q0, "IDENT"), q0)
    BY <2>1, StaysStill DEF Same
  <2>3. /\ Steady(Then(peekError(q0, "IDENT"), <<Do("checkParameters", 0, "")>>))
        /\ Steady(Then(q0, <<Expression(Normal), Do("moreParameters", work.n, "")>>))
    BY <1>4, <1>5, <2>1, <2>2
  <2> QED BY <1>6, <2>3 DEF parseParameter
<1>7. ASSUME parseMoreParameters PROVE Steady(p')
  <2>1. /\ DOMAIN q0 = Fields
        /\ \A q, ws : /\ Same(q, q0) /\ IsSequence(ws)
                      /\ \A w \in Members(ws) : ~Astray(w)
                      /\ Comes(ws)
                      => Steady(Then(q, ws))
    BY <1>1, <1>5, <1>7 DEF parseMoreParameters
  <2> DEFINE q == AddKid(q0)
             r == nextToken(q)
  <2>2. Same(q, q0)
    BY <2>1, StaysStill
  <2> HIDE DEF q
  <2>3. Same(r, q)
    BY <2>2, Stays DEF Same
  <2> HIDE DEF r
  <2>4. Same(nextToken(r), r)
    BY <2>3, Stays DEF Same
  <2>5. Same(nextToken(r), q0)
    BY <2>2, <2>3, <2>4 DEF Same
  <2>6. /\ Steady(Then(q, <<Do("checkParameters", 0, "")>>))
        /\ Steady(Then(nextToken(r), <<Do("parameter", work.n + 1, "")>>))
    BY <1>4, <1>5, <2>1, <2>2, <2>5
  <2> QED BY <1>7, <2>6 DEF parseMoreParameters, r, q
<1>8. ASSUME checkMethodParameters PROVE Steady(p')
  <2>1. DOMAIN q0 = Fields /\ Steady(State(q0, "normal"))
    BY <1>1, <1>5, <1>8 DEF checkMethodParameters
  <2>2. Steady(Error(State(q0, "normal"), "Argument")) /\ Panic(q0) # p'
    BY <2>1, KeepsSteady, PanicFails
  <2> QED BY <1>8, <2>1, <2>2 DEF checkMethodParameters
<1> QED BY <1>6, <1>7, <1>8, SteadyOwes

\* No parse function is a work that restores.
LEMMA UsualFunctions ==
  /\ \A t \in DOMAIN prefixParseFns : prefixParseFns[t] \notin FsmWorks
  /\ \A t \in DOMAIN infixParseFns : infixParseFns[t] \notin FsmWorks
<1>1. \A t \in DOMAIN prefixParseFns : prefixParseFns[t] \notin FsmWorks
  BY PrefixFunctions DEF Makers, FsmWorks, Restorers, ParameterWorks
<1>2. ASSUME NEW t \in DOMAIN infixParseFns
      PROVE  infixParseFns[t] \notin FsmWorks
  <2> DEFINE others == {"..", "...", ",", ".", "(", "[", ":"}
             f == CASE t \in InfixOperators   -> "infix"
                    [] t \in Assignments      -> "assign"
                    [] t \in KeywordOperators -> "operatorCall"
                    [] t \in {"..", "..."}    -> "range"
                    [] t = "," -> "multi" [] t = "." -> "dotCall" [] t = "(" -> "call"
                    [] t = "[" -> "index" [] t = ":" -> "pair"
  <2>1. /\ t \in InfixOperators \cup Assignments \cup KeywordOperators \cup others
        /\ infixParseFns[t] = f
    BY Zenon DEF infixParseFns
  <2>2. f \in {"infix", "assign", "operatorCall", "range", "multi", "dotCall", "call",
               "index", "pair"}
    BY <2>1
  <2> QED BY <2>1, <2>2 DEF FsmWorks, Restorers, ParameterWorks
<1> QED BY <1>1, <1>2

\* Expressions and their first tokens.
LEMMA ExpressionStays ==
  ASSUME Sound(p), Owes(p)
  PROVE  /\ parseExpression => Owes(p')
         /\ parseAfterBareCall => Owes(p')
         /\ parseInfixes => Owes(p')
         /\ parseFloatLiteral /\ p'.outcome # "failed" => Owes(p')
         /\ parseLeaf => Owes(p')
         /\ parseSemicolon => Owes(p')
         /\ parseConstant => Owes(p')
<1> USE DEF FsmWorks, Restorers, ParameterWorks, Openers
<1>1. ASSUME parseExpression PROVE Steady(p')
  <2>1. Steady(q0)
    BY <1>1, TakeUsual DEF parseExpression
  <2>2. /\ \A n : Ordinary(<<Do("call", 0, ""), Do("afterBareCall", n, "")>>)
        /\ \A t \in DOMAIN prefixParseFns : \A n :
             Ordinary(<<Do(prefixParseFns[t], 0, ""), Do("infixes", n, "")>>)
    BY UsualFunctions, UsualWorks, OrdinaryWorks
  <2> QED BY <1>1, <2>1, <2>2, KeepsSteady DEF parseExpression
<1>2. ASSUME parseAfterBareCall PROVE Steady(p')
  <2>1. Steady(q0)
    BY <1>2, TakeUsual DEF parseAfterBareCall
  <2>2. \A n : Ordinary(<<Do("infixes", n, "")>>)
    BY UsualWorks, OrdinaryWorks
  <2> QED BY <1>2, <2>1, <2>2, KeepsSteady DEF parseAfterBareCall
<1>3. ASSUME parseInfixes PROVE Steady(p')
  <2>1. Steady(q0)
    BY <1>3, TakeUsual DEF parseInfixes
  <2>2. /\ \A t \in DOMAIN infixParseFns : \A n :
             Ordinary(<<Do(infixParseFns[t], 0, ""), Do("infixes", n, "")>>)
        /\ \A n : Ordinary(<<Do("float", 0, ""), Do("infixes", n, "")>>)
    BY UsualFunctions, UsualWorks, OrdinaryWorks
  <2>3. \A t \in DOMAIN infixParseFns : \A n :
          Ordinary(<<Do(IF IsFloat(p) THEN "float" ELSE infixParseFns[t], 0, ""),
                     Do("infixes", n, "")>>)
    BY <2>2
  <2> QED BY <1>3, <2>1, <2>3, KeepsSteady DEF parseInfixes
<1>4. ASSUME parseFloatLiteral, p'.outcome # "failed" PROVE Steady(p')
  <2> DEFINE q == nextToken(q0)
  <2>1. Steady(q)
    BY <1>4, TakeUsual, KeepsSteady DEF parseFloatLiteral
  <2>2. Panic(q) # p'
    BY <1>4, <2>1, PanicFails DEF Steady, Firm, Loose
  <2>3. \/ p' = Push(Error(Drop(q), "Syntax"), NilNode)
        \/ \E x : p' = Build(q, 1, "float", x)
        \/ p' = Panic(q)
    BY <1>4 DEF parseFloatLiteral
  <2> HIDE DEF q
  <2> QED BY <2>1, <2>2, <2>3, KeepsSteady
<1>5. ASSUME parseLeaf PROVE Steady(p')
  <2>1. Steady(q0)
    BY <1>5, TakeUsual DEF parseLeaf
  <2> QED BY <1>5, <2>1, KeepsSteady DEF parseLeaf
<1>6. ASSUME parseSemicolon PROVE Steady(p')
  <2>1. Steady(q0)
    BY <1>6, TakeUsual DEF parseSemicolon
  <2> QED BY <1>6, <2>1, KeepsSteady DEF parseSemicolon
<1>7. ASSUME parseConstant PROVE Steady(p')
  <2>1. Steady(q0)
    BY <1>7, TakeUsual DEF parseConstant
  <2>2. Ordinary(<<Do("infix", 0, "")>>)
    BY UsualWorks, OrdinaryWorks
  <2> QED BY <1>7, <2>1, <2>2, KeepsSteady DEF parseConstant
<1> QED BY <1>1, <1>2, <1>3, <1>4, <1>5, <1>6, <1>7, SteadyOwes

\* Operators.
LEMMA OperatorStays ==
  ASSUME Sound(p), Owes(p)
  PROVE  /\ parsePrefixExpression => Owes(p')
         /\ parseInfixExpression => Owes(p')
         /\ parseRangeExpression => Owes(p')
         /\ parseArgumentPairExpression => Owes(p')
         /\ parseMultiVariables => Owes(p')
         /\ parseMoreVariables => Owes(p')
<1> USE DEF FsmWorks, Restorers, ParameterWorks, Openers
<1>1. ASSUME parsePrefixExpression PROVE Steady(p')
  <2>1. Steady(q0)
    BY <1>1, TakeUsual DEF parsePrefixExpression
  <2>2. \A n, x : Ordinary(<<Expression(n), DoBuild(1, "prefix", x)>>)
    BY UsualWorks, OrdinaryWorks
  <2> QED BY <1>1, <2>1, <2>2, KeepsSteady DEF parsePrefixExpression
<1>2. ASSUME parseInfixExpression PROVE Steady(p')
  <2>1. Steady(q0)
    BY <1>2, TakeUsual DEF parseInfixExpression
  <2>2. \A n, x : Ordinary(<<Expression(n), DoBuild(2, "infix", x)>>)
    BY UsualWorks, OrdinaryWorks
  <2> QED BY <1>2, <2>1, <2>2, KeepsSteady DEF parseInfixExpression
<1>3. ASSUME parseRangeExpression PROVE Steady(p')
  <2>1. Steady(q0)
    BY <1>3, TakeUsual DEF parseRangeExpression
  <2>2. \A n, x : Ordinary(<<Expression(n), DoBuild(2, "range", x)>>)
    BY UsualWorks, OrdinaryWorks
  <2> QED BY <1>3, <2>1, <2>2, KeepsSteady DEF parseRangeExpression
<1>4. ASSUME parseArgumentPairExpression PROVE Steady(p')
  <2>1. Steady(q0)
    BY <1>4, TakeUsual DEF parseArgumentPairExpression
  <2>2. Ordinary(<<Expression(Normal), DoBuild(2, "pair", "")>>)
    BY UsualWorks, OrdinaryWorks
  <2> QED BY <1>4, <2>1, <2>2, KeepsSteady DEF parseArgumentPairExpression
<1>5. ASSUME parseMultiVariables PROVE Steady(p')
  <2>1. Steady(q0)
    BY <1>5, TakeUsual DEF parseMultiVariables
  <2>2. Ordinary(<<Expression(CallPrec), Do("moreVariables", 0, "")>>)
    BY UsualWorks, OrdinaryWorks
  <2> QED BY <1>5, <2>1, <2>2, KeepsSteady DEF parseMultiVariables
<1>6. ASSUME parseMoreVariables PROVE Steady(p')
  <2>1. Steady(q0)
    BY <1>6, TakeUsual DEF parseMoreVariables
  <2>2. Ordinary(<<Expression(CallPrec), Do("moreVariables", 0, "")>>)
    BY UsualWorks, OrdinaryWorks
  <2> QED BY <1>6, <2>1, <2>2, KeepsSteady DEF parseMoreVariables
<1> QED BY <1>1, <1>2, <1>3, <1>4, <1>5, <1>6, SteadyOwes

\* The arguments of a call are put in front of what it has left to do.
LEMMA ArgumentsStay ==
  \A q : Steady(q) => Steady(ParenthesizedArguments(q)) /\ Steady(BareArguments(q))
<1>1. /\ Ordinary(<<Do("arguments", 0, ""), Do("close", 0, ")")>>)
      /\ Ordinary(<<Do("arguments", 0, "")>>)
  BY UsualWorks, OrdinaryWorks DEF FsmWorks, Restorers, ParameterWorks
<1> QED BY <1>1, KeepsSteady DEF ParenthesizedArguments, BareArguments

\* Lists, hashes, and the blocks of calls.
LEMMA ListStays ==
  ASSUME Sound(p), Owes(p)
  PROVE  /\ parseCallArguments => Owes(p')
         /\ parseElement => Owes(p')
         /\ parseClose => Owes(p')
         /\ parseYieldExpression => Owes(p')
         /\ parseYieldBare => Owes(p')
         /\ parseIndexEnd => Owes(p')
         /\ parseHashExpression => Owes(p')
         /\ parseHashPair => Owes(p')
         /\ parseHashEntry => Owes(p')
         /\ parseMorePairs => Owes(p')
         /\ parseBlockArgument => Owes(p')
<1> USE DEF FsmWorks, Restorers, ParameterWorks, Openers
<1>1. ASSUME parseCallArguments PROVE Steady(p')
  <2>1. Steady(q0)
    BY <1>1, TakeUsual DEF parseCallArguments
  <2>2. Ordinary(<<Expression(Normal), Do("element", 0, "")>>)
    BY UsualWorks, OrdinaryWorks
  <2> QED BY <1>1, <2>1, <2>2, KeepsSteady DEF parseCallArguments
<1>2. ASSUME parseElement PROVE Steady(p')
  <2>1. Steady(q0)
    BY <1>2, TakeUsual DEF parseElement
  <2>2. Ordinary(<<Expression(Normal), Do("element", 0, "")>>)
    BY UsualWorks, OrdinaryWorks
  <2> QED BY <1>2, <2>1, <2>2, KeepsSteady DEF parseElement
<1>3. ASSUME parseClose PROVE Steady(p')
  <2>1. Steady(q0)
    BY <1>3, TakeUsual DEF parseClose
  <2> QED BY <1>3, <2>1, KeepsSteady DEF parseClose
<1>4. ASSUME parseYieldExpression PROVE Steady(p')
  <2>1. Steady(q0)
    BY <1>4, TakeUsual DEF parseYieldExpression
  <2>2. Ordinary(<<Do("yieldBare", 0, "")>>)
    BY UsualWorks, OrdinaryWorks
  <2> QED BY <1>4, <2>1, <2>2, KeepsSteady, ArgumentsStay DEF parseYieldExpression
<1>5. ASSUME parseYieldBare PROVE Steady(p')
  <2>1. Steady(q0)
    BY <1>5, TakeUsual DEF parseYieldBare
  <2>2. Ordinary(<<Do("arguments", 0, "")>>)
    BY UsualWorks, OrdinaryWorks
  <2> QED BY <1>5, <2>1, <2>2, KeepsSteady DEF parseYieldBare
<1>6. ASSUME parseIndexEnd PROVE Steady(p')
  <2>1. Steady(q0)
    BY <1>6, TakeUsual DEF parseIndexEnd
  <2>2. Ordinary(<<Expression(Normal), Do("adopt", 0, "")>>)
    BY UsualWorks, OrdinaryWorks
  <2> QED BY <1>6, <2>1, <2>2, KeepsSteady DEF parseIndexEnd
<1>7. ASSUME parseHashExpression PROVE Steady(p')
  <2>1. Steady(q0)
    BY <1>7, TakeUsual DEF parseHashExpression
  <2>2. Ordinary(<<Do("hashPair", 0, ""), Do("morePairs", 0, "")>>)
    BY UsualWorks, OrdinaryWorks
  <2> QED BY <1>7, <2>1, <2>2, KeepsSteady DEF parseHashExpression
<1>8. ASSUME parseHashPair PROVE Steady(p')
  <2>1. Steady(q0)
    BY <1>8, TakeUsual DEF parseHashPair
  <2>2. \A x : Ordinary(<<Expression(Normal), Do("entry", 0, x)>>)
    BY UsualWorks, OrdinaryWorks
  <2> QED BY <1>8, <2>1, <2>2, KeepsSteady DEF parseHashPair
<1>9. ASSUME parseHashEntry PROVE Steady(p')
  <2>1. Steady(q0)
    BY <1>9, TakeUsual DEF parseHashEntry
  <2> QED BY <1>9, <2>1, KeepsSteady DEF parseHashEntry
<1>10. ASSUME parseMorePairs PROVE Steady(p')
  <2>1. Steady(q0)
    BY <1>10, TakeUsual DEF parseMorePairs
  <2>2. Ordinary(<<Do("hashPair", 0, ""), Do("morePairs", 0, "")>>)
    BY UsualWorks, OrdinaryWorks
  <2> QED BY <1>10, <2>1, <2>2, KeepsSteady DEF parseMorePairs
<1>11. ASSUME parseBlockArgument PROVE Steady(p')
  <2>1. Steady(q0)
    BY <1>11, TakeUsual DEF parseBlockArgument
  <2>2. /\ Ordinary(<<Do("blockParameter", 0, "")>>)
        /\ Ordinary(Body("}") \o <<Do("adopt", 0, ""), Do("adopt", 0, "")>>)
        /\ Ordinary(<<Do("blockParameter", 0, "")>> \o (Body("}") \o <<Do("adopt", 0, ""), Do("adopt", 0, "")>>))
    BY UsualWorks, OrdinaryWorks, OrdinaryBody, OrdinaryConcat
  <2> QED BY <1>11, <2>1, <2>2, KeepsSteady DEF parseBlockArgument
<1> QED BY <1>1, <1>2, <1>3, <1>4, <1>5, <1>6, <1>7, <1>8, <1>9, <1>10, <1>11, SteadyOwes

\* Indexes and arrays.
LEMMA IndexStays ==
  ASSUME Sound(p), Owes(p)
  PROVE  /\ parseIndexExpression => Owes(p')
         /\ parseArrayExpression => Owes(p')
<1> USE DEF FsmWorks, Restorers, ParameterWorks, Openers
<1>1. ASSUME NEW w, Usual(w)
      PROVE  Ordinary(<<Expression(Normal), Do("element", 0, ""), w>>)
  BY <1>1, UsualWorks, OrdinaryThree
<1>2. ASSUME parseIndexExpression PROVE Steady(p')
  <2>1. Steady(q0)
    BY <1>2, TakeUsual DEF parseIndexExpression
  <2>2. Ordinary(<<Expression(Normal), Do("element", 0, ""), Do("indexEnd", 0, "")>>)
    BY <1>1, UsualWorks
  <2> QED BY <1>2, <2>1, <2>2, KeepsSteady DEF parseIndexExpression
<1>3. ASSUME parseArrayExpression PROVE Steady(p')
  <2>1. Steady(q0)
    BY <1>3, TakeUsual DEF parseArrayExpression
  <2>2. Ordinary(<<Expression(Normal), Do("element", 0, ""), Do("close", 0, "]")>>)
    BY <1>1, UsualWorks
  <2> QED BY <1>3, <2>1, <2>2, KeepsSteady DEF parseArrayExpression
<1> QED BY <1>2, <1>3, SteadyOwes

\* A block does not belong to a call in a condition, until it is there.
LEMMA ConditionSteady ==
  \A q : Firm(q) => Steady(Condition(q))
<1> SUFFICES ASSUME NEW q, Firm(q) PROVE Steady(Condition(q))
  OBVIOUS
<1> DEFINE ws == <<Expression(Normal), Do("consequence", 0, "")>>
           r == AcceptBlock(q, FALSE)
<1>1. Firm(r)
  BY AcceptsBlock
<1> HIDE DEF r
<1>2. Firm(nextToken(r))
  BY <1>1, Stays, SameIsSteady DEF Firm, Loose
<1>3. Ordinary(ws)
  BY UsualWorks, OrdinaryWorks DEF FsmWorks, Restorers, ParameterWorks
<1>4. \E w \in Members(ws) : w.do \in Openers
  <2> DEFINE a == Expression(Normal)
             w == Do("consequence", 0, "")
  <2>1. w.do \in Openers
    BY DEF Do, Openers
  <2> HIDE DEF a, w
  <2>2. Members(<<a, w>>) = {a, w}
    BY ShortSequences
  <2>3. \E x \in Members(<<a, w>>) : x.do \in Openers
    BY <2>1, <2>2
  <2> QED BY <2>3 DEF a, w
<1> HIDE DEF ws
<1> QED BY <1>2, <1>3, <1>4, ThenSteady DEF Condition, ws, r

\* if, and the cases of switch.
LEMMA ConditionalStays ==
  ASSUME Sound(p), Owes(p)
  PROVE  /\ parseIfExpression => Owes(p')
         /\ parseConditionalExpressions => Owes(p')
         /\ parseSwitchOpen => Owes(p')
         /\ parseSwitchConditional => Owes(p')
         /\ parseSwitchCaseEnd => Owes(p')
<1> USE DEF FsmWorks, Restorers, ParameterWorks, Openers
<1>1. \A q : Steady(q) => Steady(Condition(q))
  BY ConditionSteady DEF Steady
<1>2. Ordinary(Body("}") \o <<Do("adopt", 0, "")>>)
  BY UsualWorks, OrdinaryWorks, OrdinaryBody, OrdinaryConcat
<1>3. ASSUME parseIfExpression PROVE Steady(p')
  <2>1. Steady(q0)
    BY <1>3, TakeUsual DEF parseIfExpression
  <2> QED BY <1>1, <1>3, <2>1, KeepsSteady DEF parseIfExpression
<1>4. ASSUME parseConditionalExpressions PROVE Steady(p')
  <2>1. Steady(q0)
    BY <1>4, TakeUsual DEF parseConditionalExpressions
  <2> QED BY <1>1, <1>2, <1>4, <2>1, KeepsSteady DEF parseConditionalExpressions
<1>5. ASSUME parseSwitchOpen PROVE Steady(p')
  <2>1. Steady(q0)
    BY <1>5, TakeUsual DEF parseSwitchOpen
  <2> QED BY <1>5, <2>1, KeepsSteady DEF parseSwitchOpen
<1>6. ASSUME parseSwitchConditional PROVE Steady(p')
  <2>1. Steady(q0)
    BY <1>6, TakeUsual DEF parseSwitchConditional
  <2>2. Ordinary(<<Expression(Normal), Do("caseCondition", 1, "")>>)
    BY UsualWorks, OrdinaryWorks
  <2> QED BY <1>2, <1>6, <2>1, <2>2, KeepsSteady DEF parseSwitchConditional
<1>7. ASSUME parseSwitchCaseEnd PROVE Steady(p')
  <2>1. Steady(q0)
    BY <1>7, TakeUsual DEF parseSwitchCaseEnd
  <2> QED BY <1>7, <2>1, KeepsSteady DEF parseSwitchCaseEnd
<1> QED BY <1>3, <1>4, <1>5, <1>6, <1>7, SteadyOwes

\* The values of a case.
LEMMA CaseConditionStays ==
  ASSUME Sound(p), Owes(p), parseSwitchCondition
  PROVE  Owes(p')
<1> USE DEF FsmWorks, Restorers, ParameterWorks, Openers
<1>1. Steady(q0)
  BY TakeUsual DEF parseSwitchCondition
<1>2. Ordinary(<<Expression(Normal), Do("caseCondition", 2, "")>>)
  BY UsualWorks, OrdinaryWorks
<1>3. Ordinary(Body("case") \o <<DoBuild(2, "conditional", ""), Do("caseEnd", 0, ""),
                                Do("case", 0, "")>>)
  BY UsualWorks, OrdinaryThree, OrdinaryBody, OrdinaryConcat
<1>4. Steady(p')
  BY <1>1, <1>2, <1>3, KeepsSteady DEF parseSwitchCondition
<1> QED BY <1>4, SteadyOwes

\* A switch without its cases has them accept blocks again.
LEMMA SwitchStays ==
  ASSUME Sound(p), Owes(p)
  PROVE  /\ parseSwitchExpression => Owes(p')
         /\ parseSwitchConditionals => Owes(p')
<1> USE DEF FsmWorks, Restorers, ParameterWorks
<1> DEFINE cases == <<Do("cases", 0, "")>>
           open == <<Expression(Normal), Do("open", 0, "")>>
<1>1. /\ Ordinary(cases) /\ Ordinary(open) /\ Ordinary(<<Do("case", 0, "")>>)
      /\ \E w \in Members(cases) : w.do \in Openers
  <2>1. Do("cases", 0, "").do \in Openers
    BY DEF Do, Openers
  <2>2. \E w \in Members(cases) : w.do \in Openers
    BY <2>1, ShortSequences
  <2> QED BY <2>2, UsualWorks, OrdinaryWorks
<1> HIDE DEF cases, open
<1>2. \A q : Firm(q) => Steady(Then(q, cases)) /\ Steady(Then(q, open \o cases))
  <2>1. Ordinary(open \o cases)
    BY <1>1, OrdinaryConcat
  <2>2. \E w \in Members(open \o cases) : w.do \in Openers
    <3>1. IsSequence(cases) /\ IsSequence(open) /\ Led(cases)
      BY <1>1 DEF Ordinary, Led, Astray, Members
    <3>2. \A w \in Members(open) : ~Astray(w)
      BY <1>1 DEF Ordinary, Astray
    <3> QED BY <1>1, <3>1, <3>2, LedOn
  <2> QED BY <1>1, <2>1, <2>2, ThenSteady
<1>3. \A q : Firm(q) => /\ \A node : Firm(Push(q, node))
                        /\ Firm(nextToken(q)) /\ \A b : Firm(AcceptBlock(q, b))
  BY Stays, SameIsSteady, AcceptsBlock DEF Firm, Loose
<1>4. ASSUME parseSwitchExpression PROVE Steady(p')
  <2>1. Firm(q0)
    BY <1>4, TakeUsual DEF parseSwitchExpression, Steady, Openers
  <2>2. p' = LET q == AcceptBlock(Push(q0, Leaf("if", "switch")), FALSE)
             IN IF peekTokenIs(p, "{")
                THEN Then(nextToken(Push(q, Leaf("TRUE", "true"))), cases)
                ELSE Then(nextToken(q), open \o cases)
    BY <1>4 DEF parseSwitchExpression, cases, open
  <2> QED BY <1>2, <1>3, <2>1, <2>2
<1>5. ASSUME parseSwitchConditionals PROVE Steady(p')
  <2>1. Firm(q0)
    BY <1>5, TakeOrdinary DEF parseSwitchConditionals, Doing
  <2>2. Steady(AcceptBlock(q0, TRUE))
    BY <2>1, AcceptsBlock
  <2> QED BY <1>1, <1>5, <2>2, KeepsSteady DEF parseSwitchConditionals
<1> QED BY <1>4, <1>5, SteadyOwes

\* The block comes next.
LEMMA ConsequenceStays ==
  ASSUME Sound(p), Owes(p), parseConditionalExpression
  PROVE  Owes(p')
<1> USE DEF FsmWorks, Restorers, ParameterWorks
<1> DEFINE body == Body("}")
           rest == <<DoBuild(2, "conditional", ""), Do("adopt", 0, ""),
                     Do("nextCondition", 0, "")>>
           ws == body \o rest
           q == Expect(q0, "{")
           r == Then(q, ws)
<1>1. Firm(q0)
  BY TakeOrdinary DEF parseConditionalExpression, Doing
<1>2. Loose(q) /\ Firm(q)
  BY <1>1, StaysStill, SameIsSteady DEF Firm, Loose
<1>3. Ordinary(ws) /\ Ordinary(body) /\ Ordinary(rest)
  BY UsualWorks, OrdinaryThree, OrdinaryBody, OrdinaryConcat
<1>4. p' = r
  BY DEF parseConditionalExpression
<1>5. Len(body) = 2 /\ body[1].do = "block"
  BY DEF Body, Do
<1> HIDE DEF body, rest, q
<1>6. ASSUME NEW s, IsSequence(s), NEW t, IsSequence(t), Len(s) >= 1
      PROVE  (s \o t)[1] = s[1] /\ Len(s \o t) >= 1
  <2> DEFINE S == Members(s) \cup Members(t)
  <2>1. s \in Seq(S) /\ t \in Seq(S)
    BY <1>6 DEF IsSequence
  <2> HIDE DEF S
  <2> QED BY <1>6, <2>1
<1>7. ws[1] = body[1] /\ Len(ws) >= 1
  BY <1>3, <1>5, <1>6 DEF Ordinary
<1> HIDE DEF ws
<1>8. /\ DOMAIN r = Fields /\ r.outcome = "parsing" /\ r.fsm \in ParserStates
      /\ r.todo = ws \o q.todo /\ r.fsm = q.fsm
  BY <1>2 DEF Then, Loose, Fields
<1> HIDE DEF r
<1>9. \A w \in Members(ws) : ~Astray(w)
  BY <1>3 DEF Ordinary, Astray
<1>10. Firm(r)
  BY <1>2, <1>3, <1>8, <1>9, Enters DEF Ordinary, Firm
<1>11. r.todo[1].do = "block"
  BY <1>2, <1>3, <1>5, <1>6, <1>7, <1>8 DEF Ordinary, Loose
<1>12. Owes(r)
  BY <1>8, <1>10, <1>11 DEF Owes
<1> QED BY <1>4, <1>12

-----------------------------------------------------------------------------
(* Works that enter a state, and leave it.                                 *)

\* A state is entered, with a work that sets fsm to what it was.
LEMMA StateEnters ==
  ASSUME NEW q, Firm(q), NEW s, NEW t, Same(t, State(q, s)),
         NEW d \in Restorers, Opens(q) \/ d = "whileBody"
  PROVE  /\ Steady(Then(t, <<Do(d, 0, q.fsm)>>))
         /\ \A n : Steady(Then(t, <<Expression(n), Do(d, 0, q.fsm)>>))
<1> DEFINE w == Do(d, 0, q.fsm)
<1>1. w.do = d /\ w.s = q.fsm
  BY DEF Do
<1> HIDE DEF w
<1>2. /\ DOMAIN t = Fields /\ t.outcome = "parsing" /\ t.fsm \in ParserStates
      /\ t.todo = q.todo /\ t.acceptBlock = q.acceptBlock
  BY StateGoes DEF Same, Firm, Loose
<1>3. ASSUME NEW ws, IsSequence(ws), w \in Members(ws),
             \A x \in Members(ws) : x = w \/ x.do \notin Restorers
      PROVE  Steady(Then(t, ws))
  <2> DEFINE r == Then(t, ws)
  <2>1. /\ DOMAIN r = Fields /\ r.outcome = "parsing" /\ r.fsm \in ParserStates
        /\ r.todo = ws \o q.todo /\ r.acceptBlock = q.acceptBlock
    BY <1>2 DEF Then, Fields
  <2> HIDE DEF r
  <2>2. (r.acceptBlock = q.acceptBlock /\ Opens(q)) \/ \E x \in Members(ws) : x.do \in Openers
    BY <1>1, <1>3, <2>1 DEF Openers
  <2>3. Steady(r)
    BY <1>1, <1>3, <2>1, <2>2, EntersState
  <2> QED BY <2>3 DEF r
<1>4. Steady(Then(t, <<w>>))
  BY <1>3, ShortSequences
<1>5. ASSUME NEW n PROVE Steady(Then(t, <<Expression(n), w>>))
  <2> DEFINE e == Expression(n)
  <2>1. e.do \notin Restorers
    BY DEF Expression, Do, Restorers
  <2> HIDE DEF e
  <2>2. IsSequence(<<e, w>>) /\ Members(<<e, w>>) = {e, w}
    BY ShortSequences
  <2>3. Steady(Then(t, <<e, w>>))
    BY <1>3, <2>1, <2>2
  <2> QED BY <2>3 DEF e
<1> QED BY <1>4, <1>5 DEF w

\* The condition of a loop is entered and left.
LEMMA WhileStays ==
  ASSUME Sound(p), Owes(p)
  PROVE  /\ parseWhileStatement => Owes(p')
         /\ parseWhileBody => Owes(p')
<1> USE DEF FsmWorks, Restorers, ParameterWorks
<1>1. ASSUME parseWhileStatement PROVE Steady(p')
  <2> DEFINE r == nextToken(q0)
             q == AcceptBlock(r, FALSE)
  <2>1. Steady(q0) /\ q0.fsm = p.fsm
    BY <1>1, TakeUsual DEF parseWhileStatement, Openers
  <2>2. Firm(r) /\ r.fsm = p.fsm
    BY <2>1, Stays, SameIsSteady DEF Steady, Firm, Loose, Same
  <2> HIDE DEF r
  <2>3. Firm(q) /\ q.fsm = p.fsm
    BY <2>2, AcceptsBlock DEF AcceptBlock, Firm, Loose, Fields
  <2> HIDE DEF q
  <2>4. Same(State(q, "call"), State(q, "call"))
    BY <2>3, StateGoes DEF Same, Firm, Loose
  <2>5. Steady(Then(State(q, "call"), <<Expression(Normal), Do("whileBody", 0, p.fsm)>>))
    BY <2>3, <2>4, StateEnters
  <2> QED BY <1>1, <2>5 DEF parseWhileStatement, q, r
<1>2. ASSUME parseWhileBody PROVE Steady(p')
  <2>1. Firm(State(q0, work.s))
    BY <1>2, TakeRestorer DEF parseWhileBody, Doing
  <2>2. Steady(AcceptBlock(State(q0, work.s), TRUE))
    BY <2>1, AcceptsBlock
  <2>3. Ordinary(<<Do("block", 0, "}"), DoBuild(2, "while", "")>>)
    BY UsualWorks, OrdinaryWorks
  <2> QED BY <1>2, <2>2, <2>3, KeepsSteady DEF parseWhileBody
<1> QED BY <1>1, <1>2, SteadyOwes

\* A group is entered, and what was entered is left.
LEMMA GroupStays ==
  ASSUME Sound(p), Owes(p)
  PROVE  /\ parseGroupedExpression => Owes(p')
         /\ parseGroupEnd => Owes(p')
         /\ parseAssignEnd => Owes(p')
         /\ parseCallEnd => Owes(p')
<1> USE DEF FsmWorks, Restorers, ParameterWorks, Openers
<1>1. ASSUME parseGroupedExpression PROVE Steady(p')
  <2> DEFINE q == nextToken(q0)
  <2>1. Steady(q0) /\ q0.fsm = p.fsm
    BY <1>1, TakeUsual DEF parseGroupedExpression
  <2>2. Firm(q) /\ Opens(q) /\ q.fsm = p.fsm
    BY <2>1, Stays, SameIsSteady DEF Steady, Firm, Loose, Same
  <2> HIDE DEF q
  <2>3. Same(State(q, "normal"), State(q, "normal"))
    BY <2>2, StateGoes DEF Same, Firm, Loose
  <2>4. Steady(Then(State(q, "normal"), <<Expression(Normal), Do("groupEnd", 0, p.fsm)>>))
    BY <2>2, <2>3, StateEnters
  <2> QED BY <1>1, <2>4 DEF parseGroupedExpression, q
<1>2. ASSUME parseGroupEnd PROVE Steady(p')
  <2>1. Steady(State(q0, work.s))
    BY <1>2, TakeRestorer DEF parseGroupEnd, Doing
  <2> QED BY <1>2, <2>1, KeepsSteady DEF parseGroupEnd
<1>3. ASSUME parseAssignEnd PROVE Steady(p')
  <2>1. Steady(State(q0, work.s))
    BY <1>3, TakeRestorer DEF parseAssignEnd, Doing
  <2> QED BY <1>3, <2>1, KeepsSteady DEF parseAssignEnd
<1>4. ASSUME parseCallEnd PROVE Steady(p')
  <2>1. Steady(State(q0, work.s))
    BY <1>4, TakeRestorer DEF parseCallEnd, Doing
  <2>2. Ordinary(<<Do("blockArgument", 0, "")>>)
    BY UsualWorks, OrdinaryWorks
  <2> QED BY <1>4, <2>1, <2>2, KeepsSteady DEF parseCallEnd
<1> QED BY <1>1, <1>2, <1>3, <1>4, SteadyOwes

\* To a variable, or with an error.
LEMMA AssignStays ==
  ASSUME Sound(p), Owes(p), p'.outcome # "failed"
  PROVE  /\ parseAssignExpression /\ Top(p).k \notin {"call", "call="} => Owes(p')
         /\ parseAssignCall => Owes(p')
<1> USE DEF FsmWorks, Restorers, ParameterWorks, Openers
<1>1. ASSUME parseAssignExpression, Top(p).k \notin {"call", "call="} PROVE Steady(p')
  <2> DEFINE q == State(q0, "assignment")
             w == Do("assignEnd", 0, p.fsm)
             e == Expression(AssignPrec)
  <2>1. Steady(q0) /\ q0.fsm = p.fsm /\ Firm(q0) /\ Opens(q0)
    BY <1>1, TakeUsual DEF parseAssignExpression, Steady
  <2>2. DOMAIN q = Fields
    BY <2>1, StateGoes DEF Firm, Loose
  <2> HIDE DEF q
  <2>3. ASSUME NEW t, Same(t, q)
        PROVE  Steady(Then(t, <<w>>)) /\ Steady(Then(t, <<e>> \o <<w>>))
    <3>1. Steady(Then(t, <<w>>)) /\ Steady(Then(t, <<e, w>>))
      BY <2>1, <2>3, StateEnters DEF q
    <3> HIDE DEF e, w
    <3> QED BY <3>1, Concat
  <2>4. Same(q, q) /\ Same(nextToken(q), q)
    BY <2>2, Stays DEF Same
  <2>5. \A x : Same(nextToken(Error(q, x)), q)
    <3>1. \A x : Same(Error(q, x), q)
      BY <2>2, Stays
    <3>2. \A x : Same(nextToken(Error(q, x)), Error(q, x))
      BY <3>1, Stays DEF Same
    <3> QED BY <3>1, <3>2 DEF Same
  <2>6. Panic(q) # p'
    BY <2>2, PanicFails
  <2>7. \A r, target : Steady(r) => Steady(expandAssignmentValue(r, target))
    <3>1. /\ \A n : Ordinary(<<Expression(n)>>)
          /\ \A n, x : Ordinary(<<Expression(n), DoBuild(2, "infix", x)>>)
      BY UsualWorks, OrdinaryWorks
    <3> QED BY <3>1, KeepsSteady DEF expandAssignmentValue
  <2>8. /\ Steady(expandAssignmentValue(Then(q, <<w>>), Top(p)))
        /\ Steady(Then(nextToken(q), <<e>> \o <<w>>))
        /\ Steady(Then(nextToken(Error(q, "InvalidAssignment")), <<e>> \o <<w>>))
    BY <2>3, <2>4, <2>5, <2>7
  <2>9. \/ p' = expandAssignmentValue(Then(q, <<w>>), Top(p))
        \/ p' = Then(nextToken(q), <<e>> \o <<w>>)
        \/ p' = Panic(q)
        \/ p' = Then(nextToken(Error(q, "InvalidAssignment")), <<e>> \o <<w>>)
    BY <1>1 DEF parseAssignExpression, q, e, w
  <2> QED BY <2>6, <2>8, <2>9
<1>2. ASSUME parseAssignCall PROVE Steady(p')
  <2>1. Steady(q0)
    BY <1>2, TakeUsual DEF parseAssignCall
  <2>2. Panic(q0) # p'
    BY <2>1, PanicFails DEF Steady, Firm, Loose
  <2> QED BY <1>2, <2>1, <2>2, KeepsSteady DEF parseAssignCall
<1> QED BY <1>1, <1>2, SteadyOwes

\* A call is entered.
LEMMA CallEnters ==
  ASSUME NEW q, Steady(q)
  PROVE  Steady(Then(State(q, "call"), <<Do("callEnd", 0, q.fsm)>>))
<1>1. Same(State(q, "call"), State(q, "call"))
  BY StateGoes DEF Same, Steady, Firm, Loose
<1> QED BY <1>1, StateEnters DEF Steady, Restorers

\* Calls are entered, where a name follows the dot.
LEMMA CallsStay ==
  ASSUME Sound(p), Owes(p), p'.outcome # "failed"
  PROVE  /\ parseCallExpressionWithoutReceiver => Owes(p')
         /\ parseOperatorMethodCall => Owes(p')
         /\ /\ parseCallExpressionWithReceiver
            /\ peekTokenIs(p, "IDENT") \/ p.fsm # "normal"
            => Owes(p')
<1> USE DEF FsmWorks, Restorers, ParameterWorks, Openers
<1>1. \A q : Steady(q) /\ q.fsm = p.fsm
               => Steady(Then(State(q, "call"), <<Do("callEnd", 0, p.fsm)>>))
  BY CallEnters
<1>2. \A q : Steady(q) /\ q.fsm = p.fsm
               => /\ Steady(Drop(q)) /\ Drop(q).fsm = p.fsm
                  /\ Steady(nextToken(q)) /\ nextToken(q).fsm = p.fsm
                  /\ \A n, r : Steady(Call(q, n, r)) /\ Call(q, n, r).fsm = p.fsm
  BY Stays, StaysStill, KeepsSteady DEF Steady, Firm, Loose, Same
<1>3. ASSUME parseCallExpressionWithoutReceiver PROVE Steady(p')
  <2>1. Steady(q0) /\ q0.fsm = p.fsm
    BY <1>3, TakeUsual DEF parseCallExpressionWithoutReceiver
  <2>2. Panic(q0) # p'
    BY <2>1, PanicFails DEF Steady, Firm, Loose
  <2>3. Steady(Then(State(Call(Drop(q0), Top(p).x, SelfNode), "call"),
                    <<Do("callEnd", 0, p.fsm)>>))
    BY <1>1, <1>2, <2>1
  <2> QED BY <1>3, <2>2, <2>3, ArgumentsStay DEF parseCallExpressionWithoutReceiver
<1>4. ASSUME parseOperatorMethodCall PROVE Steady(p')
  <2>1. Steady(q0) /\ q0.fsm = p.fsm
    BY <1>4, TakeUsual DEF parseOperatorMethodCall
  <2>2. Steady(Then(State(Call(Drop(q0), curToken(p).v, Top(p)), "call"),
                    <<Do("callEnd", 0, p.fsm)>>))
    BY <1>1, <1>2, <2>1
  <2> QED BY <1>4, <2>2, ArgumentsStay, KeepsSteady DEF parseOperatorMethodCall
<1>5. ASSUME parseCallExpressionWithReceiver, peekTokenIs(p, "IDENT") \/ p.fsm # "normal"
      PROVE  Steady(p')
  <2>1. Steady(q0) /\ q0.fsm = p.fsm
    BY <1>5, TakeUsual DEF parseCallExpressionWithReceiver
  <2>2. Steady(Then(State(Call(nextToken(Drop(q0)), peekToken(p).v, Top(p)), "call"),
                    <<Do("callEnd", 0, p.fsm)>>))
    BY <1>1, <1>2, <2>1
  <2>3. p.fsm # "normal" => Steady(State(Drop(q0), "call"))
    <3> DEFINE q == Drop(q0)
               r == State(q, "call")
    <3>1. Steady(q) /\ q.fsm = p.fsm
      BY <1>2, <2>1
    <3> HIDE DEF q
    <3>2. /\ DOMAIN r = Fields /\ r.outcome = "parsing" /\ r.todo = q.todo
          /\ r.acceptBlock = q.acceptBlock /\ r.fsm \in ParserStates
      BY <3>1, StateGoes DEF Steady, Firm, Loose
    <3> HIDE DEF r
    <3>3. p.fsm # "normal" => Steady(r)
      BY <3>1, <3>2 DEF Steady, Firm, Loose, Opens
    <3> QED BY <3>3 DEF q, r
  <2>4. Ordinary(<<Expression(Normal), Do("adopt", 0, "")>>)
    BY UsualWorks, OrdinaryWorks
  <2> QED BY <1>5, <2>2, <2>3, <2>4, ArgumentsStay, KeepsSteady
           DEF parseCallExpressionWithReceiver
<1> QED BY <1>3, <1>4, <1>5, SteadyOwes

\* Without the second bar the works of the block are left out, which none of
\* the others counts on.
LEMMA WithoutBlock ==
  ASSUME NEW s, IsSequence(s), Led(s), BlockComes(s)
  PROVE  /\ IsSequence(SubSeq(s, 5, Len(s))) /\ Led(SubSeq(s, 5, Len(s)))
         /\ Comes(s) => Comes(SubSeq(s, 5, Len(s)))
         /\ (\E w \in Members(s) : w.do \in Openers)
              => \E w \in Members(SubSeq(s, 5, Len(s))) : w.do \in Openers
<1> DEFINE t == SubSeq(s, 5, Len(s))
<1>1. s \in Seq(Members(s)) /\ Len(s) \in Nat /\ 4 < Len(s)
  BY DEF IsSequence, BlockComes
<1>2. /\ t \in Seq(Members(s)) /\ Len(t) = Len(s) - 4
      /\ \A i \in 1..Len(s)-4 : t[i] = s[i+4]
  BY <1>1
<1> HIDE DEF t
<1>3. IsSequence(t)
  BY <1>2, SequenceOf
<1>4. \A i \in 1..4 : ~Back(s[i]) /\ s[i].do \notin Openers
  <2>1. /\ s[1].do = "block" /\ s[2].do = "keep" /\ s[3].do = "adopt" /\ s[4].do = "adopt"
        /\ \A i \in 1..4 : i = 1 \/ i = 2 \/ i = 3 \/ i = 4
    BY DEF BlockComes
  <2> QED BY <2>1 DEF Back, Openers, Restorers, ParameterWorks
<1>5. ASSUME NEW i \in 1..Len(s), i \notin 1..4
      PROVE  i - 4 \in 1..Len(t) /\ t[i-4] = s[i] /\ s[i] \in Members(t)
  <2>1. i - 4 \in 1..Len(s)-4 /\ i - 4 + 4 = i
    BY <1>1, <1>5
  <2> QED BY <1>2, <2>1 DEF Members
<1>6. ASSUME NEW i \in 1..Len(t), Astray(t[i])
      PROVE  \E j \in i+1..Len(t) : Back(t[j])
  <2>1. i + 4 \in 1..Len(s) /\ t[i] = s[i+4]
    BY <1>1, <1>2
  <2>2. PICK j \in i+4+1..Len(s) : Back(s[j])
    BY <1>6, <2>1 DEF Led
  <2>3. j \in 1..Len(s) /\ j \notin 1..4 /\ j - 4 \in i+1..Len(t)
    BY <1>1, <1>2, <2>1
  <2> QED BY <1>5, <2>2, <2>3
<1>7. ASSUME Comes(s) PROVE Comes(t)
  <2>1. PICK i \in 1..Len(s) : Back(s[i])
    BY <1>7 DEF Comes, Members
  <2> QED BY <1>4, <1>5, <2>1 DEF Comes
<1>8. ASSUME \E w \in Members(s) : w.do \in Openers PROVE \E w \in Members(t) : w.do \in Openers
  <2>1. PICK i \in 1..Len(s) : s[i].do \in Openers
    BY <1>8 DEF Members
  <2> QED BY <1>4, <1>5, <2>1
<1> QED BY <1>3, <1>6, <1>7, <1>8 DEF Led, t

\* The names of a block's parameters.
LEMMA BlockParameterStays ==
  ASSUME Sound(p), Owes(p), parseBlockParameter
  PROVE  Owes(p')
<1> USE DEF FsmWorks, Restorers, ParameterWorks, Openers
<1> DEFINE q == AddKid(Push(q0, Leaf("IDENT", curToken(p).v)))
           d == Drop(q)
           e == peekError(d, "|")
           r == [e EXCEPT !.todo = SubSeq(@, 5, Len(@))]
<1>1. Steady(q0)
  BY TakeUsual DEF parseBlockParameter
<1>2. Steady(q) /\ Steady(d) /\ Steady(e)
  BY <1>1, KeepsSteady
<1>3. e.todo = q0.todo
  <2> DEFINE u == Push(q0, Leaf("IDENT", curToken(p).v))
  <2>1. Same(u, q0)
    BY <1>1, Stays DEF Steady, Firm, Loose
  <2> HIDE DEF u
  <2>2. Same(AddKid(u), u)
    BY <2>1, StaysStill DEF Same
  <2>3. Same(Drop(AddKid(u)), AddKid(u))
    BY <2>2, Stays DEF Same
  <2>4. Same(peekError(Drop(AddKid(u)), "|"), Drop(AddKid(u)))
    BY <2>3, StaysStill DEF Same
  <2> QED BY <2>1, <2>2, <2>3, <2>4 DEF Same, u
<1>4. BlockComes(e.todo)
  <2>1. Parsing /\ work.do = "blockParameter"
    BY DEF parseBlockParameter, Doing
  <2> QED BY <1>3, <2>1, TakeUp DEF Programs
<1>5. p' = Then(nextToken(nextToken(q)), <<Do("blockParameter", 0, "")>>)
      \/ p' = nextToken(q) \/ p' = r
  BY DEF parseBlockParameter
<1> HIDE DEF q, d, e
<1>6. Ordinary(<<Do("blockParameter", 0, "")>>)
  BY UsualWorks, OrdinaryWorks
<1>7. Steady(r)
  <2> DEFINE t == SubSeq(e.todo, 5, Len(e.todo))
  <2>1. /\ IsSequence(t) /\ Led(t) /\ (Comes(e.todo) => Comes(t))
        /\ (\E w \in Members(e.todo) : w.do \in Openers) => \E w \in Members(t) : w.do \in Openers
    BY <1>2, <1>4, WithoutBlock DEF Steady, Firm, Loose
  <2>2. r = [e EXCEPT !.todo = t]
    BY <1>2 DEF Steady, Firm, Loose, Fields
  <2> HIDE DEF t
  <2>3. /\ DOMAIN r = Fields /\ r.outcome = e.outcome /\ r.todo = t
        /\ r.fsm = e.fsm /\ r.acceptBlock = e.acceptBlock
    BY <1>2, <2>2 DEF Steady, Firm, Loose, Fields
  <2> HIDE DEF r
  <2> QED BY <1>2, <2>1, <2>3 DEF Steady, Firm, Loose, Opens
<1> HIDE DEF r
<1>8. Steady(p')
  BY <1>2, <1>5, <1>6, <1>7, KeepsSteady
<1> QED BY <1>8, SteadyOwes

\* When nothing is left but the program, all is where it was.
LEMMA NothingLeft ==
  ASSUME Sound(p), Owes(p), Parsing, work.do \in Programs
  PROVE  p.fsm = "normal" /\ p.acceptBlock = TRUE
<1>1. IsSequence(p.todo) /\ p.todo # <<>>
  BY DEF Sound, Parsing, Balanced
<1>2. Len(p.todo) = 1
  <2>1. 1 \in 1..Len(p.todo)
    BY <1>1 DEF IsSequence
  <2> QED BY <2>1 DEF Sound, Parsing, Balanced, work
<1>3. Members(p.todo) = {work}
  <2>1. \A i \in 1..Len(p.todo) : i = 1
    BY <1>2
  <2>2. 1 \in 1..Len(p.todo)
    BY <1>2
  <2> QED BY <2>1, <2>2 DEF Members, work
<1>4. ~Comes(p.todo) /\ \A w \in Members(p.todo) : w.do \notin Openers
  BY <1>3 DEF Comes, Back, Programs, Restorers, ParameterWorks, Openers
<1>5. work.do # "block"
  BY DEF Programs
<1> QED BY <1>4, <1>5 DEF Owes, Parsing, Firm, Opens, work

\* The program, and its end.
LEMMA ProgramStays ==
  ASSUME Sound(p), Owes(p)
  PROVE  /\ ParseProgram => Owes(p')
         /\ ParseProgramNext => Owes(p')
<1> USE DEF FsmWorks, Restorers, ParameterWorks, Openers
<1>0. ASSUME Parsing, work.do \in Programs
      PROVE  p.fsm = "normal" /\ p.acceptBlock = TRUE /\ DOMAIN p = Fields /\ DOMAIN q0 = Fields
             /\ q0.fsm = "normal" /\ q0.acceptBlock = TRUE
  BY <1>0, NothingLeft, TakeAny DEF Firm, Loose
<1>1. ASSUME ParseProgram PROVE Owes(p')
  <2>1. Steady(q0)
    BY <1>1, TakeUsual DEF ParseProgram
  <2>2. q0.fsm = "normal" /\ q0.acceptBlock = TRUE /\ DOMAIN q0 = Fields
    BY <1>0, <1>1 DEF ParseProgram, Doing, Programs
  <2>3. Ordinary(<<Do("statement", 0, ""), Do("moreProgram", 0, "")>>)
    BY UsualWorks, OrdinaryWorks
  <2>4. Owes(Panic(q0)) /\ Owes([q0 EXCEPT !.outcome = "parsed"])
    BY <2>2 DEF Owes, Panic, Fields
  <2>5. Owes(Then(q0, <<Do("statement", 0, ""), Do("moreProgram", 0, "")>>))
    BY <2>1, <2>3, KeepsSteady, SteadyOwes
  <2> QED BY <1>1, <2>4, <2>5 DEF ParseProgram
<1>2. ASSUME ParseProgramNext PROVE Owes(p')
  <2>1. Steady(q0)
    BY <1>2, TakeUsual DEF ParseProgramNext
  <2>2. p.fsm = "normal" /\ p.acceptBlock = TRUE /\ DOMAIN p = Fields
    BY <1>0, <1>2 DEF ParseProgramNext, Doing, Programs
  <2>3. Ordinary(<<Do("program", 0, "")>>)
    BY UsualWorks, OrdinaryWorks
  <2>4. Owes([p EXCEPT !.outcome = "failed", !.todo = <<>>, !.val = <<>>])
    BY <2>2 DEF Owes, Fields
  <2>5. Owes(Then(nextToken(AddKid(q0)), <<Do("program", 0, "")>>))
    BY <2>1, <2>3, KeepsSteady, SteadyOwes
  <2> QED BY <1>2, <2>4, <2>5 DEF ParseProgramNext
<1> QED BY <1>1, <1>2

-----------------------------------------------------------------------------
(* The parser's steps, and the REPL's.                                     *)

\* Where the parser loses its state: a dot without a name after it, a list of
\* parameters that a constant ends, an assignment to a call, and a nil pointer
\* that is followed before the end of the program.
Slip ==
  /\ Parse
  /\ \/ Doing("dotCall") /\ ~peekTokenIs(p, "IDENT") /\ p.fsm = "normal"
     \/ Doing("parameter") /\ curToken(p).t \in InvalidParams
     \/ Doing("assign") /\ Top(p).k \in {"call", "call="}
     \/ Parsing /\ work.do \notin Programs /\ p'.outcome = "failed"

\* No other step of the parser does.
LEMMA StepStays ==
  ASSUME Sound(p), Owes(p), Parse, ~Slip
  PROVE  Owes(p')
<1>1. ParseStep
  BY DEF Parse
<1>2. ASSUME NEW d \in {"mark", "superclass", "keep", "statements", "moreStatements", "defClose",
                        "defBody", "parameter", "moreParameters", "checkParameters",
                        "assign", "assignCall", "call", "operatorCall", "dotCall", "float"},
             Doing(d)
      PROVE  p'.outcome # "failed"
  BY <1>2 DEF Slip, Doing, Programs
<1>3. /\ \/ markExpression \/ parseSuperClass \/ KeepLastValue \/ parseBlockStatements
         \/ parseBlockNext \/ parseDefClose \/ parseDefBody
         => p'.outcome # "failed"
      /\ parseParameter => p'.outcome # "failed" /\ curToken(p).t \notin InvalidParams
      /\ parseMoreParameters \/ checkMethodParameters => p'.outcome # "failed"
      /\ parseAssignExpression => p'.outcome # "failed" /\ Top(p).k \notin {"call", "call="}
      /\ parseAssignCall => p'.outcome # "failed"
      /\ parseCallExpressionWithoutReceiver \/ parseOperatorMethodCall \/ parseFloatLiteral
         => p'.outcome # "failed"
      /\ parseCallExpressionWithReceiver
         => p'.outcome # "failed" /\ (peekTokenIs(p, "IDENT") \/ p.fsm # "normal")
  <2>1. /\ markExpression => Doing("mark")
        /\ parseSuperClass => Doing("superclass")
        /\ KeepLastValue => Doing("keep")
        /\ parseBlockStatements => Doing("statements")
        /\ parseBlockNext => Doing("moreStatements")
        /\ parseDefClose => Doing("defClose")
        /\ parseDefBody => Doing("defBody")
    BY DEF markExpression, parseSuperClass, KeepLastValue, parseBlockStatements,
           parseBlockNext, parseDefClose, parseDefBody
  <2>2. /\ parseParameter => Doing("parameter")
        /\ parseMoreParameters => Doing("moreParameters")
        /\ checkMethodParameters => Doing("checkParameters")
        /\ parseAssignExpression => Doing("assign")
        /\ parseAssignCall => Doing("assignCall")
    BY DEF parseParameter, parseMoreParameters, checkMethodParameters,
           parseAssignExpression, parseAssignCall
  <2>3. /\ parseCallExpressionWithoutReceiver => Doing("call")
        /\ parseOperatorMethodCall => Doing("operatorCall")
        /\ parseCallExpressionWithReceiver => Doing("dotCall")
        /\ parseFloatLiteral => Doing("float")
    BY DEF parseCallExpressionWithoutReceiver, parseOperatorMethodCall,
           parseCallExpressionWithReceiver, parseFloatLiteral
  <2>4. /\ Doing("parameter") => curToken(p).t \notin InvalidParams
        /\ Doing("assign") => Top(p).k \notin {"call", "call="}
        /\ Doing("dotCall") => peekTokenIs(p, "IDENT") \/ p.fsm # "normal"
    BY DEF Slip
  <2> QED BY <1>2, <2>1, <2>2, <2>3, <2>4
<1> QED BY <1>1, <1>3, ProgramStays, StatementStays, BlockListStays, BlockStays, DefStays,
           ParametersStay, ExpressionStays, OperatorStays, ListStays, IndexStays,
           ConditionalStays, CaseConditionStays, SwitchStays, ConsequenceStays, WhileStays,
           GroupStays, AssignStays, CallsStay, BlockParameterStays DEF ParseStep

\* While no program is parsed, the parser is as a new one.
StateAtRest == p.outcome # "parsing" => p.fsm = "normal" /\ p.acceptBlock

Resting ==
  /\ Accepted
  /\ Owes(p)
  /\ p.outcome = "parsing" => phase = "parsing"

\* A parser begins at rest, and so does a program.
LEMMA BeginsResting ==
  /\ Owes(NewParser)
  /\ \A tokens : Sound(p) /\ p.outcome # "parsing" /\ Owes(p) => Owes(Begin(p, tokens))
<1>1. Owes(NewParser)
  BY DEF Owes, NewParser
<1>2. ASSUME NEW tokens, Sound(p), p.outcome # "parsing", Owes(p)
      PROVE  Owes(Begin(p, tokens))
  <2> DEFINE r == Begin(p, tokens)
             w == Do("program", 0, "")
  <2>1. /\ DOMAIN r = Fields /\ r.outcome = "parsing" /\ r.todo = <<w>>
        /\ r.fsm = "normal" /\ r.acceptBlock = TRUE
    BY <1>2 DEF Begin, Sound, Owes, Fields
  <2>2. w.do = "program"
    BY DEF Do
  <2> HIDE DEF r, w
  <2>3. IsSequence(<<w>>) /\ Led(<<w>>)
    <3>1. IsSequence(<<w>>) /\ Len(<<w>>) = 1 /\ <<w>>[1] = w
      BY ShortSequences
    <3> QED BY <2>2, <3>1 DEF Led, Astray, Restorers
  <2>4. Owes(r)
    BY <2>1, <2>3 DEF Owes, Firm, Loose, Opens, ParserStates
  <2> QED BY <2>4 DEF r
<1> QED BY <1>1, <1>2

\* Whatever the REPL does next, if it is not a slip.
LEMMA StepKeepsResting ==
  ASSUME Resting, [Next]_vars, [~Slip]_vars
  PROVE  Resting'
<1> USE DEF Resting
<1>1. Accepted'
  BY StepKeepsAccepted
<1>2. SUFFICES Owes(p') /\ (p'.outcome = "parsing" => phase' = "parsing")
  BY <1>1
<1>3. CASE UNCHANGED vars
  BY <1>3 DEF vars, replVars
<1>4. CASE ReadNothing \/ ReadInterrupt \/ ReadEOF
  <2>1. p' = p /\ phase = "read"
    BY <1>4 DEF ReadNothing, ReadInterrupt, ReadEOF, Reading1
  <2> QED BY <2>1
<1>5. CASE ReadReset
  <2>1. p' = NewParser
    BY <1>5 DEF ReadReset
  <2> QED BY <2>1, BeginsResting DEF NewParser
<1>6. ASSUME NEW ns, ParseLines(ns), p.outcome # "parsing"
      PROVE  Owes(p') /\ (p'.outcome = "parsing" => phase' = "parsing")
  <2>1. p' = [p EXCEPT !.outcome = "none"] /\ DOMAIN p = Fields
    BY <1>6 DEF ParseLines, Accepted, Sound
  <2>2. p'.outcome = "none" /\ p'.fsm = p.fsm /\ p'.acceptBlock = p.acceptBlock
    BY <2>1 DEF Fields
  <2> QED BY <1>6, <2>2 DEF Owes
<1>7. CASE ReadLine
  <2>1. phase = "read" /\ (p' = p \/ \E ns : ParseLines(ns))
    BY <1>7 DEF ReadLine, Reading1
  <2>2. p.outcome # "parsing"
    BY <2>1
  <2> QED BY <1>6, <2>1, <2>2
<1>8. CASE ParseAgain
  <2>1. p.outcome # "parsing" /\ \E ns : ParseLines(ns)
    BY <1>8 DEF ParseAgain, First, Parsed
  <2> QED BY <1>6, <2>1
<1>9. CASE Lex
  <2>1. phase = "lexing" /\ (p' = p \/ \E tokens : p' = Begin(p, tokens) /\ phase' = "parsing")
    BY <1>9 DEF Lex
  <2>2. p.outcome # "parsing"
    BY <2>1
  <2> QED BY <2>1, <2>2, BeginsResting DEF Accepted
<1>10. CASE Parse
  <2>1. phase' = "parsing"
    BY <1>10 DEF Parse, replVars
  <2>2. CASE ~Slip
    BY <1>10, <2>1, <2>2, StepStays DEF Accepted
  <2> QED BY <1>3, <2>2
<1>11. CASE WaitForMore \/ RejectToken \/ StillOpen \/ Accept \/ Reject \/ AcceptAgain
  <2>1. p' = p /\ p.outcome \in {"parsed", "failed"}
    BY <1>11 DEF WaitForMore, RejectToken, StillOpen, Accept, Reject, AcceptAgain, First,
                 Parsed, judged
  <2> QED BY <2>1
<1>12. CASE Exec \/ ExecRaise \/ Crash
  <2>1. p' = p /\ phase = "exec"
    BY <1>12 DEF Exec, ExecRaise, Crash, Executed
  <2> QED BY <2>1
<1> QED BY <1>3, <1>4, <1>5, <1>7, <1>8, <1>9, <1>10, <1>11, <1>12 DEF Next, Read, Answer

\* In a session without such a step, whatever its lines and whether they parse,
\* the parser that the REPL keeps is as a new one each time it has parsed.
THEOREM OnlySlipsLoseTheState ==
  Spec /\ [][~Slip]_vars => [](StateAtRest /\ FsmRestored)
<1>1. Init => Resting
  <2> SUFFICES ASSUME Init PROVE Resting
    OBVIOUS
  <2>1. p = NewParser
    BY Zenon DEF Init
  <2>2. p.outcome # "parsing"
    BY <2>1 DEF NewParser
  <2> QED BY <2>1, <2>2, InitAccepted, BeginsResting DEF Resting
<1>2. Resting /\ [Next]_vars /\ [~Slip]_vars => Resting'
  BY StepKeepsResting
<1>3. Resting => StateAtRest /\ FsmRestored
  BY DEF Resting, Accepted, Owes, StateAtRest, FsmRestored
<1> QED BY <1>1, <1>2, <1>3, PTL DEF Spec

-----------------------------------------------------------------------------
(* The local table and the locals.                                         *)

\* A set of numbers that is bounded has a greatest member.
LEMMA GreatestMember ==
  ASSUME NEW T \in SUBSET Nat, T # {}, NEW m \in Nat, \A t \in T : t <= m
  PROVE  \E t \in T : \A u \in T : u <= t
<1> DEFINE D == {k \in Nat : \E t \in T : k = m - t}
<1>1. \A t \in T : m - t \in Nat
  OBVIOUS
<1>2. D # {}
  BY <1>1
<1>3. D \subseteq Nat
  OBVIOUS
<1>4. PICK k \in D : \A d \in D : ~ (<<d, k>> \in OpToRel(<, Nat))
  BY <1>2, <1>3, WFMin, NatLessThanWellFounded
<1>5. \A d \in D : ~ (d < k)
  BY <1>3, <1>4 DEF OpToRel
<1>6. PICK t \in T : k = m - t
  BY <1>4
<1>7. ASSUME NEW u \in T PROVE u <= t
  <2>1. m - u \in D
    BY <1>1
  <2>2. ~ (m - u < m - t)
    BY <1>5, <1>6, <2>1
  <2> QED BY <2>2
<1> QED BY <1>7

\* SetToSeq lists each member of a finite set once.
LEMMA ListOfSet ==
  ASSUME NEW S, IsFiniteSet(S)
  PROVE  /\ SetToSeq(S) \in Seq(S)
         /\ \A i, j \in 1..Len(SetToSeq(S)) : SetToSeq(S)[i] = SetToSeq(S)[j] => i = j
         /\ \A x \in S : \E i \in 1..Len(SetToSeq(S)) : SetToSeq(S)[i] = x
<1> DEFINE n == Cardinality(S)
           Lists == {f \in [1..n -> S] : IsInjective(f)}
           s == SetToSeq(S)
<1>1. n \in Nat /\ ExistsBijection(1..n, S)
  BY FS_CardinalityType
<1>2. PICK f : f \in Bijection(1..n, S)
  BY <1>1 DEF ExistsBijection
<1>3. f \in [1..n -> S] /\ IsInjective(f)
  BY <1>2 DEF Bijection, Injection
<1>4. s \in [1..n -> S] /\ IsInjective(s)
  BY <1>3 DEF SetToSeq
<1> HIDE DEF s
<1>5. s \in Injection(1..n, S)
  BY <1>4 DEF Injection
<1>6. Cardinality(1..n) = n
  BY <1>1, FS_Interval
<1>7. s \in Surjection(1..n, S)
  BY <1>5, <1>6, FS_Injection
<1>8. \A x \in S : \E i \in 1..n : s[i] = x
  BY <1>7 DEF Surjection
<1>9. s \in Seq(S) /\ Len(s) = n
  BY <1>1, <1>4
<1>10. \A i, j \in 1..n : s[i] = s[j] => i = j
  BY <1>4 DEF IsInjective
<1> QED BY <1>8, <1>9, <1>10 DEF s

\* Each name has one slot.
OneSlotEach(slots) ==
  \A i, j \in 1..Len(slots) : slots[i] = slots[j] => i = j

\* Slots keeps the slots there are and gives one to each of names.
LEMMA SlotsForNames ==
  ASSUME NEW T, table \in Seq(T), OneSlotEach(table), NEW names, IsFiniteSet(names)
  PROVE  /\ Slots(names) \in Seq(T \cup names)
         /\ Len(table) <= Len(Slots(names))
         /\ \A i \in 1..Len(table) : Slots(names)[i] = table[i]
         /\ OneSlotEach(Slots(names))
         /\ \A x \in names : \E i \in 1..Len(Slots(names)) : Slots(names)[i] = x
<1> DEFINE new == {x \in names : \A i \in 1..Len(table) : table[i] # x}
           n == Len(table)
           added == SetToSeq(new)
           s == table \o added
<1>1. IsFiniteSet(new)
  BY FS_Subset
<1>2. /\ added \in Seq(new)
      /\ \A i, j \in 1..Len(added) : added[i] = added[j] => i = j
      /\ \A x \in new : \E i \in 1..Len(added) : added[i] = x
  BY <1>1, ListOfSet
<1>3. \A i \in 1..Len(added) : added[i] \in names /\ \A j \in 1..n : table[j] # added[i]
  <2> HIDE DEF new, added
  <2>1. \A i \in 1..Len(added) : added[i] \in new
    BY <1>2
  <2>2. \A x \in new : x \in names /\ \A j \in 1..n : table[j] # x
    BY DEF new
  <2> QED BY <2>1, <2>2
<1>4. \A x \in names : (\E i \in 1..n : table[i] = x) \/ \E i \in 1..Len(added) : added[i] = x
  BY <1>2
<1> HIDE DEF new, added
<1>5. n \in Nat /\ Len(added) \in Nat /\ added \in Seq(names)
  <2>1. new \subseteq names
    BY DEF new
  <2> QED BY <1>2, <2>1
<1>6. /\ s \in Seq(T \cup names) /\ Len(s) = n + Len(added)
      /\ \A i \in 1..n : s[i] = table[i]
      /\ \A i \in 1..Len(added) : s[n + i] = added[i]
  BY <1>5
<1> HIDE DEF s
<1>7. \A i \in 1..Len(s) : i \in 1..n \/ (i - n \in 1..Len(added) /\ s[i] = added[i - n])
  <2> TAKE i \in 1..Len(s)
  <2> SUFFICES ASSUME i \notin 1..n PROVE i - n \in 1..Len(added) /\ s[i] = added[i - n]
    OBVIOUS
  <2>1. i - n \in 1..Len(added) /\ n + (i - n) = i
    BY <1>5, <1>6
  <2> QED BY <1>6, <2>1
<1>8. ASSUME NEW i \in 1..Len(s), NEW j \in 1..Len(s), s[i] = s[j]
      PROVE  i = j
  <2>1. CASE i \in 1..n /\ j \in 1..n
    BY <1>6, <1>8, <2>1 DEF OneSlotEach
  <2>2. CASE i \in 1..n /\ j \notin 1..n
    BY <1>3, <1>6, <1>7, <1>8, <2>2
  <2>3. CASE i \notin 1..n /\ j \in 1..n
    BY <1>3, <1>6, <1>7, <1>8, <2>3
  <2>4. CASE i \notin 1..n /\ j \notin 1..n
    <3>1. added[i - n] = added[j - n] /\ i - n \in 1..Len(added) /\ j - n \in 1..Len(added)
      BY <1>7, <1>8, <2>4
    <3>2. i - n = j - n
      BY <1>2, <3>1
    <3> QED BY <1>5, <3>2
  <2> QED BY <2>1, <2>2, <2>3, <2>4
<1>9. \A x \in names : \E i \in 1..Len(s) : s[i] = x
  <2> TAKE x \in names
  <2>1. CASE \E i \in 1..n : table[i] = x
    <3>1. PICK i \in 1..n : table[i] = x
      BY <2>1
    <3>2. i \in 1..Len(s) /\ s[i] = x
      BY <1>5, <1>6, <3>1
    <3> QED BY <3>2
  <2>2. CASE \E i \in 1..Len(added) : added[i] = x
    <3>1. PICK i \in 1..Len(added) : added[i] = x
      BY <2>2
    <3>2. n + i \in 1..Len(s) /\ s[n + i] = x
      BY <1>5, <1>6, <3>1
    <3> QED BY <3>2
  <2> QED BY <1>4, <2>1, <2>2
<1>10. Slots(names) = s
  BY DEF s, added, new, Slots
<1> QED BY <1>5, <1>6, <1>8, <1>9, <1>10 DEF OneSlotEach

\* Insert writes the slots of names and leaves the others alone.
LEMMA InsertWrites ==
  ASSUME NEW frame \in Seq(Nat), NEW T, NEW slots \in Seq(T), OneSlotEach(slots),
         Len(frame) <= Len(slots), NEW value \in Nat,
         NEW names, \A x \in names : \E i \in 1..Len(slots) : slots[i] = x,
         NEW r, r = Insert(frame, slots, names, value)
  PROVE  /\ r \in Seq(Nat)
         /\ Len(frame) <= Len(r) /\ Len(r) <= Len(slots)
         /\ \A i \in 1..Len(slots) : slots[i] \in names => i <= Len(r) /\ r[i] = value
         /\ \A i \in 1..Len(frame) : slots[i] \notin names => r[i] = frame[i]
<1> DEFINE written == {SlotOf(slots, x) : x \in names}
           ends == {Len(frame)} \cup written
           size == CHOOSE n \in ends : \A m \in ends : m <= n
<1>1. \A x \in names : SlotOf(slots, x) \in 1..Len(slots) /\ slots[SlotOf(slots, x)] = x
  BY DEF SlotOf
<1>2. \A i \in 1..Len(slots) : slots[i] \in names <=> i \in written
  <2> TAKE i \in 1..Len(slots)
  <2>1. ASSUME slots[i] \in names PROVE i \in written
    <3>1. slots[SlotOf(slots, slots[i])] = slots[i] /\ SlotOf(slots, slots[i]) \in 1..Len(slots)
      BY <1>1, <2>1
    <3>2. SlotOf(slots, slots[i]) = i
      BY <3>1 DEF OneSlotEach
    <3> QED BY <2>1, <3>2
  <2>2. ASSUME i \in written PROVE slots[i] \in names
    BY <1>1, <2>2
  <2> QED BY <2>1, <2>2
<1>3. written \subseteq 1..Len(slots)
  BY <1>1
<1> HIDE DEF written
<1>4. ends \in SUBSET Nat /\ ends # {} /\ \A m \in ends : m <= Len(slots)
  <2>1. Len(frame) \in Nat /\ Len(slots) \in Nat
    OBVIOUS
  <2>2. \A m \in written : m \in Nat /\ m <= Len(slots)
    BY <1>3, <2>1
  <2>3. \A m \in ends : m = Len(frame) \/ m \in written
    OBVIOUS
  <2>4. \A m \in ends : m \in Nat /\ m <= Len(slots)
    BY <2>1, <2>2, <2>3
  <2>5. Len(frame) \in ends
    OBVIOUS
  <2> QED BY <2>4, <2>5
<1>5. \E n \in ends : \A m \in ends : m <= n
  <2>1. Len(slots) \in Nat
    OBVIOUS
  <2> HIDE DEF ends
  <2> QED BY <1>4, <2>1, GreatestMember
<1>6. size \in ends /\ \A m \in ends : m <= size
  <2> HIDE DEF ends
  <2> QED BY <1>5
<1> HIDE DEF size
<1>7. size \in Nat /\ Len(frame) <= size /\ size <= Len(slots) /\ \A m \in written : m <= size
  BY <1>4, <1>6
<1>8. r = [i \in 1..size |-> IF i \in written THEN value
                             ELSE IF i <= Len(frame) THEN frame[i] ELSE 0]
  BY DEF Insert, size, written
<1>9. \A i \in 1..size : i <= Len(frame) => frame[i] \in Nat
  BY <1>7
<1>10. r \in [1..size -> Nat]
  BY <1>8, <1>9
<1>11. r \in Seq(Nat) /\ Len(r) = size
  BY <1>7, <1>10
<1>12. ASSUME NEW i \in 1..Len(slots), slots[i] \in names
       PROVE  i <= Len(r) /\ r[i] = value
  <2>1. i \in written /\ i <= size
    BY <1>2, <1>7, <1>12
  <2> QED BY <1>7, <1>8, <1>11, <2>1
<1>13. ASSUME NEW i \in 1..Len(frame), slots[i] \notin names
       PROVE  r[i] = frame[i]
  <2>1. i \in 1..Len(slots) /\ i \in 1..size
    BY <1>7
  <2>2. i \notin written
    BY <1>2, <1>13, <2>1
  <2> QED BY <1>8, <2>1, <2>2
<1> QED BY <1>7, <1>11, <1>12, <1>13

\* What the REPL adds to the VM: each name has one slot, and each name a
\* command assigned has a slot in the base frame that holds its last value.
NamesKept ==
  \A x \in DOMAIN kept :
    \E i \in 1..Len(locals) : table[i] = x /\ locals[i] = kept[x] /\ kept[x] # 0

Scope ==
  /\ executed \in Seq({executed[i] : i \in 1..Len(executed)})
  /\ table \in Seq({table[i] : i \in 1..Len(table)})
  /\ locals \in Seq(Nat)
  /\ OneSlotEach(table)
  /\ Len(locals) <= Len(table)
  /\ NamesKept

\* An executed sequence stays a sequence.
LEMMA ExecutedGrows ==
  ASSUME Scope, executed' = Append(executed, program)
  PROVE  /\ Value \in Nat \ {0}
         /\ (executed \in Seq({executed[i] : i \in 1..Len(executed)}))'
<1> DEFINE E == {executed[i] : i \in 1..Len(executed)}
<1>1. executed \in Seq(E)
  BY DEF Scope
<1>2. Value \in Nat \ {0}
  BY <1>1 DEF Value
<1>3. executed' \in Seq(E \cup {program})
  BY <1>1
<1>4. \A i \in 1..Len(executed') : executed'[i] \in {executed'[j] : j \in 1..Len(executed')}
  OBVIOUS
<1>5. executed' \in Seq({executed'[j] : j \in 1..Len(executed')})
  BY <1>3, <1>4
<1> QED BY <1>2, <1>5

\* The variables that a statement of a tree assigns are finitely many.
LEMMA FinitelyAssigned ==
  ASSUME phase = "exec", ProgramIsTree, NEW n \in 0..Len(program.kids)
  PROVE  IsFiniteSet(AssignedBy(n))
<1> DEFINE Names(i) == Assigned(program.kids[i])
           f == [i \in 1..n |-> Names(i)]
           S == {Names(i) : i \in 1..n}
<1>1. Len(program.kids) \in Nat /\ \A i \in 1..n : Len(program.kids[i].kids) \in Nat
  BY DEF ProgramIsTree
<1>2. ASSUME NEW i \in 1..n PROVE IsFiniteSet(Names(i))
  <2> DEFINE stmt == program.kids[i]
             I == {j \in 1..Len(stmt.kids)-1 : stmt.kids[j].k = "IDENT"}
             g == [j \in I |-> stmt.kids[j].x]
             V == {stmt.kids[j].x : j \in I}
  <2>1. Len(stmt.kids) - 1 \in Int
    BY <1>1
  <2>2. IsFiniteSet(1..Len(stmt.kids)-1)
    <3> DEFINE m == Len(stmt.kids) - 1
    <3> HIDE DEF m, stmt
    <3>1. m \in Int
      BY <2>1 DEF m
    <3>2. IsFiniteSet(1..m)
      BY <3>1, FS_Interval
    <3> QED BY Zenon, <3>2 DEF m
  <2>3. IsFiniteSet(I)
    BY <2>2, FS_Subset
  <2>4. g \in Surjection(I, V)
    <3> HIDE DEF I
    <3> QED BY DEF Surjection
  <2> HIDE DEF g, I, V
  <2>5. IsFiniteSet(V)
    BY <2>3, <2>4, FS_Surjection
  <2>6. Names(i) = IF stmt.k = "assign" THEN V ELSE {}
    BY Zenon DEF Assigned, V, I
  <2>7. CASE stmt.k = "assign"
    BY <2>5, <2>6, <2>7
  <2>8. CASE stmt.k # "assign"
    BY <2>6, <2>8, FS_EmptySet
  <2> QED BY <2>7, <2>8
<1>3. n \in Int
  BY <1>1
<1>4. IsFiniteSet(1..n)
  BY <1>3, FS_Interval
<1> HIDE DEF Names
<1>5. f \in Surjection(1..n, S)
  BY DEF Surjection
<1>6. IsFiniteSet(S)
  <2> HIDE DEF f, S
  <2> QED BY <1>4, <1>5, FS_Surjection
<1>7. \A T \in S : IsFiniteSet(T)
  BY <1>2
<1>8. IsFiniteSet(UNION S)
  <2> HIDE DEF S
  <2> QED BY <1>6, <1>7, FS_UNION
<1>9. AssignedBy(n) = UNION S
  BY Zenon DEF AssignedBy, S, Names
<1> QED BY <1>8, <1>9

\* What the first statements assign the program assigns.
LEMMA AssignedEarly ==
  ASSUME Len(program.kids) \in Nat, NEW n \in 0..Len(program.kids)
  PROVE  AssignedBy(n) \subseteq AssignedBy(Len(program.kids))
<1>1. 1..n \subseteq 1..Len(program.kids)
  OBVIOUS
<1> QED BY <1>1 DEF AssignedBy

\* A command that ends well keeps the scope.
LEMMA ExecKeepsScope ==
  ASSUME Scope, ProgramIsTree, Exec
  PROVE  Scope'
<1> DEFINE names == AssignedBy(Len(program.kids))
           T == {table[i] : i \in 1..Len(table)}
<1>1. /\ phase = "exec"
      /\ table' = Slots(names)
      /\ locals' = Insert(locals, table', names, Value)
      /\ kept' = Keep(names)
      /\ executed' = Append(executed, program)
  BY Zenon DEF Exec, Executed, CopyBack
<1>2. IsFiniteSet(names)
  <2>1. Len(program.kids) \in 0..Len(program.kids)
    BY <1>1 DEF ProgramIsTree
  <2> QED BY <1>1, <2>1, FinitelyAssigned
<1> HIDE DEF names
<1>3. /\ table \in Seq(T) /\ locals \in Seq(Nat) /\ OneSlotEach(table)
      /\ Len(locals) <= Len(table) /\ NamesKept
  BY DEF Scope
<1> HIDE DEF T
<1>4. /\ table' \in Seq(T \cup names)
      /\ Len(table) <= Len(table')
      /\ \A i \in 1..Len(table) : table'[i] = table[i]
      /\ OneSlotEach(table')
      /\ \A x \in names : \E i \in 1..Len(table') : table'[i] = x
  BY <1>1, <1>2, <1>3, SlotsForNames
<1>5. Value \in Nat \ {0} /\ (executed \in Seq({executed[i] : i \in 1..Len(executed)}))'
  BY <1>1, ExecutedGrows
<1>6. Len(table) \in Nat /\ Len(table') \in Nat /\ Len(locals) \in Nat
  BY <1>3, <1>4
<1>7. /\ locals' \in Seq(Nat)
      /\ Len(locals) <= Len(locals') /\ Len(locals') <= Len(table')
      /\ \A i \in 1..Len(table') : table'[i] \in names => i <= Len(locals') /\ locals'[i] = Value
      /\ \A i \in 1..Len(locals) : table'[i] \notin names => locals'[i] = locals[i]
  <2>1. Len(locals) <= Len(table')
    BY <1>3, <1>4, <1>6
  <2>2. locals' = Insert(locals, table', names, Value)
    BY <1>1
  <2>3. /\ locals \in Seq(Nat) /\ table' \in Seq(T \cup names) /\ OneSlotEach(table')
        /\ Value \in Nat /\ \A x \in names : \E i \in 1..Len(table') : table'[i] = x
    <3> HIDE DEF Value
    <3> QED BY <1>3, <1>4, <1>5
  <2>4. ASSUME NEW slots, slots = table', NEW value, value = Value, NEW r, r = locals'
        PROVE  /\ r \in Seq(Nat)
               /\ Len(locals) <= Len(r) /\ Len(r) <= Len(slots)
               /\ \A i \in 1..Len(slots) : slots[i] \in names => i <= Len(r) /\ r[i] = value
               /\ \A i \in 1..Len(locals) : slots[i] \notin names => r[i] = locals[i]
    <3> HIDE DEF Value
    <3>1. /\ slots \in Seq(T \cup names) /\ OneSlotEach(slots) /\ Len(locals) <= Len(slots)
          /\ value \in Nat
      BY <2>1, <2>3, <2>4
    <3>2. \A x \in names : \E i \in 1..Len(slots) : slots[i] = x
      BY <2>3, <2>4
    <3>3. r = Insert(locals, slots, names, value)
      BY <2>2, <2>4
    <3> QED BY <2>3, <3>1, <3>2, <3>3, InsertWrites
  <2> HIDE DEF Value
  <2> QED BY <2>4
<1>8. NamesKept'
  <2> SUFFICES ASSUME NEW x \in DOMAIN kept'
               PROVE  \E i \in 1..Len(locals') :
                        table'[i] = x /\ locals'[i] = kept'[x] /\ kept'[x] # 0
    BY DEF NamesKept
  <2>1. x \in DOMAIN kept \cup names /\ kept'[x] = IF x \in names THEN Value ELSE kept[x]
    BY <1>1 DEF Keep
  <2>2. CASE x \in names
    <3>1. PICK i \in 1..Len(table') : table'[i] = x
      BY <1>4, <2>2
    <3>2. i \in 1..Len(locals') /\ locals'[i] = Value
      BY <1>6, <1>7, <2>2, <3>1
    <3> QED BY <1>5, <2>1, <2>2, <3>1, <3>2
  <2>3. CASE x \notin names
    <3>1. PICK i \in 1..Len(locals) : table[i] = x /\ locals[i] = kept[x] /\ kept[x] # 0
      BY <1>3, <2>1, <2>3 DEF NamesKept
    <3>2. i \in 1..Len(table) /\ i \in 1..Len(locals')
      BY <1>3, <1>6, <1>7
    <3>3. table'[i] = x /\ locals'[i] = locals[i]
      BY <1>4, <1>7, <2>3, <3>1, <3>2
    <3> QED BY <2>1, <2>3, <3>1, <3>2, <3>3
  <2> QED BY <2>2, <2>3
<1>9. (table \in Seq({table[i] : i \in 1..Len(table)}))'
  <2>1. \A i \in 1..Len(table') : table'[i] \in {table'[j] : j \in 1..Len(table')}
    OBVIOUS
  <2> QED BY <1>4, <2>1
<1> QED BY <1>4, <1>5, <1>7, <1>8, <1>9 DEF Scope, OneSlotEach

\* A command that raises an error keeps the scope: what it puts in the base
\* frame for no good is in a slot that nothing stands in.
LEMMA ExecRaiseKeepsScope ==
  ASSUME Scope, ProgramIsTree, ExecRaise
  PROVE  Scope'
<1> DEFINE all == AssignedBy(Len(program.kids))
           T == {table[i] : i \in 1..Len(table)}
<1>1. /\ phase = "exec"
      /\ executed' = Append(executed, program)
  BY Zenon DEF ExecRaise, Executed
<1>2. PICK n \in 0..Len(program.kids)-1 :
        LET standing == {x \in AssignedBy(n) : Standing(x)}
        IN \E shared \in SUBSET (AssignedBy(n) \ standing) :
             /\ table' = Slots(AssignedBy(Len(program.kids)))
             /\ locals' = SubSeq(Insert(locals, table', standing \cup shared, Value),
                                 1, Len(locals))
             /\ kept' = Keep(standing)
  BY Zenon DEF ExecRaise
<1> DEFINE standing == {x \in AssignedBy(n) : Standing(x)}
<1>3. PICK shared \in SUBSET (AssignedBy(n) \ standing) :
        /\ table' = Slots(all)
        /\ locals' = SubSeq(Insert(locals, table', standing \cup shared, Value), 1, Len(locals))
        /\ kept' = Keep(standing)
  BY Zenon, <1>2
<1> DEFINE names == standing \cup shared
           frame == Insert(locals, table', names, Value)
<1>4. /\ Len(program.kids) \in Nat
      /\ n \in 0..Len(program.kids) /\ Len(program.kids) \in 0..Len(program.kids)
  BY <1>1 DEF ProgramIsTree
<1>5. AssignedBy(n) \subseteq all
  BY <1>4, AssignedEarly
<1>6. IsFiniteSet(all)
  BY <1>1, <1>4, FinitelyAssigned
<1>7. names \subseteq all
  BY <1>5
<1>8. \A x : x \in standing <=> x \in AssignedBy(n) /\ Standing(x)
  OBVIOUS
<1>9. \A x \in shared : x \notin standing /\ x \in AssignedBy(n)
  BY <1>3
<1>10. \A x : x \in names <=> x \in standing \/ x \in shared
  OBVIOUS
<1> HIDE DEF all, standing, T
<1>11. /\ table \in Seq(T) /\ locals \in Seq(Nat) /\ OneSlotEach(table)
       /\ Len(locals) <= Len(table) /\ NamesKept
  BY DEF Scope, T
<1>12. /\ table' \in Seq(T \cup all)
       /\ Len(table) <= Len(table')
       /\ \A i \in 1..Len(table) : table'[i] = table[i]
       /\ OneSlotEach(table')
       /\ \A x \in all : \E i \in 1..Len(table') : table'[i] = x
  BY <1>3, <1>6, <1>11, SlotsForNames
<1>13. Value \in Nat \ {0} /\ (executed \in Seq({executed[i] : i \in 1..Len(executed)}))'
  BY <1>1, ExecutedGrows
<1> HIDE DEF names, frame
<1>14. Len(table) \in Nat /\ Len(table') \in Nat /\ Len(locals) \in Nat
  BY <1>11, <1>12
<1>15. /\ frame \in Seq(Nat) /\ Len(locals) <= Len(frame)
       /\ \A i \in 1..Len(table') : table'[i] \in names => i <= Len(frame) /\ frame[i] = Value
       /\ \A i \in 1..Len(locals) : table'[i] \notin names => frame[i] = locals[i]
  <2> HIDE DEF Value
  <2>1. Len(locals) <= Len(table')
    BY <1>11, <1>12, <1>14
  <2>2. ASSUME NEW slots, slots = table', NEW value, value = Value, NEW r, r = frame
        PROVE  /\ r \in Seq(Nat) /\ Len(locals) <= Len(r)
               /\ \A i \in 1..Len(slots) : slots[i] \in names => i <= Len(r) /\ r[i] = value
               /\ \A i \in 1..Len(locals) : slots[i] \notin names => r[i] = locals[i]
    <3>1. /\ slots \in Seq(T \cup all) /\ OneSlotEach(slots) /\ Len(locals) <= Len(slots)
          /\ value \in Nat /\ locals \in Seq(Nat)
      BY <1>11, <1>12, <1>13, <2>1, <2>2
    <3>2. \A x \in names : \E i \in 1..Len(slots) : slots[i] = x
      BY <1>7, <1>12, <2>2
    <3>3. r = Insert(locals, slots, names, value)
      BY <2>2 DEF frame
    <3> QED BY <3>1, <3>2, <3>3, InsertWrites
  <2> QED BY <2>2
<1>16. /\ locals' \in Seq(Nat) /\ Len(locals') = Len(locals)
       /\ \A i \in 1..Len(locals) : locals'[i] = frame[i]
  <2>1. locals' = SubSeq(frame, 1, Len(locals))
    BY <1>3 DEF frame, names
  <2> QED BY <1>14, <1>15, <2>1
<1>17. NamesKept'
  <2> SUFFICES ASSUME NEW x \in DOMAIN kept'
               PROVE  \E i \in 1..Len(locals') :
                        table'[i] = x /\ locals'[i] = kept'[x] /\ kept'[x] # 0
    BY DEF NamesKept
  <2>1. x \in DOMAIN kept \cup standing /\ kept'[x] = IF x \in standing THEN Value ELSE kept[x]
    BY <1>3 DEF Keep
  <2>2. CASE x \in standing
    <3>1. PICK i \in 1..Len(locals) : table[i] = x
      BY <1>8, <2>2 DEF Standing
    <3>2. i \in 1..Len(table) /\ i \in 1..Len(table')
      BY <1>11, <1>12, <1>14
    <3>3. table'[i] = x /\ x \in names
      BY <1>10, <1>12, <2>2, <3>1, <3>2
    <3>4. frame[i] = Value
      BY <1>15, <3>2, <3>3
    <3> QED BY <1>13, <1>16, <2>1, <2>2, <3>1, <3>3, <3>4
  <2>3. CASE x \notin standing
    <3>1. PICK i \in 1..Len(locals) : table[i] = x /\ locals[i] = kept[x] /\ kept[x] # 0
      BY <1>11, <2>1, <2>3 DEF NamesKept
    <3>2. i \in 1..Len(table)
      BY <1>11, <1>14
    <3>3. Standing(x)
      BY <3>1 DEF Standing
    <3>4. x \notin names
      BY <1>8, <1>9, <1>10, <2>3, <3>3
    <3>5. table'[i] = x /\ frame[i] = locals[i]
      BY <1>12, <1>15, <3>1, <3>2, <3>4
    <3> QED BY <1>16, <2>1, <2>3, <3>1, <3>5
  <2> QED BY <2>2, <2>3
<1>18. (table \in Seq({table[i] : i \in 1..Len(table)}))'
  <2>1. IsSequence(table')
    BY <1>12, SequenceOf
  <2> QED BY <2>1 DEF IsSequence, Members
<1>19. Len(locals') <= Len(table')
  BY <1>11, <1>12, <1>14, <1>16
<1> QED BY <1>12, <1>13, <1>16, <1>17, <1>18, <1>19 DEF Scope, OneSlotEach

\* Nothing but execution and .reset touches the scope.
LEMMA StepKeepsScope ==
  ASSUME Scope, ProgramIsTree, [Next]_vars
  PROVE  Scope'
<1>1. CASE Exec
  BY <1>1, ExecKeepsScope
<1>2. CASE ExecRaise
  BY <1>2, ExecRaiseKeepsScope
<1>3. CASE ReadReset
  <2>1. executed' = executed /\ table' = <<>> /\ locals' = <<>> /\ kept' = <<>>
    BY <1>3 DEF ReadReset
  <2>2. DOMAIN kept' = {}
    BY <2>1
  <2> QED BY <2>1, <2>2 DEF Scope, OneSlotEach, NamesKept
<1>4. CASE UNCHANGED <<executed, table, locals, kept>>
  BY <1>4 DEF Scope, OneSlotEach, NamesKept
<1>5. CASE ReadNothing \/ ReadInterrupt \/ ReadEOF \/ ReadLine
  <2>1. UNCHANGED vmVars
    BY <1>5 DEF ReadNothing, ReadInterrupt, ReadEOF, ReadLine
  <2> QED BY <1>4, <2>1 DEF vmVars
<1>6. CASE Lex \/ Parse \/ Crash
  <2>1. UNCHANGED vmVars
    BY <1>6 DEF Lex, Parse, Crash, replVars, vmVars
  <2> QED BY <1>4, <2>1 DEF vmVars
<1>7. CASE WaitForMore \/ RejectToken \/ StillOpen \/ ParseAgain \/ Accept \/ Reject \/ AcceptAgain
  <2>1. UNCHANGED vmVars
    BY <1>7 DEF WaitForMore, RejectToken, StillOpen, ParseAgain, Accept, Reject, AcceptAgain, judged
  <2> QED BY <1>4, <2>1 DEF vmVars
<1>8. CASE UNCHANGED vars
  BY <1>4, <1>8 DEF vars, replVars
<1> QED BY <1>1, <1>2, <1>3, <1>5, <1>6, <1>7, <1>8 DEF Next, Read, Answer

\* Nothing was executed at first.
LEMMA InitScope == Init => Scope
<1> SUFFICES ASSUME Init PROVE Scope
  OBVIOUS
<1>1. executed = <<>> /\ table = <<>> /\ locals = <<>> /\ kept = <<>>
  BY Zenon DEF Init
<1>2. DOMAIN kept = {}
  BY <1>1
<1> QED BY <1>1, <1>2 DEF Scope, OneSlotEach, NamesKept

\* Whatever was typed, executed or failed, a variable that a command assigned
\* has the last value a command that stands gave it.
THEOREM LocalsSurviveCommands == Spec => []LocalsKept
<1>1. Init => Scope
  BY InitScope
<1>2. Scope /\ ProgramIsTree /\ [Next]_vars => Scope'
  BY StepKeepsScope
<1>3. Scope => LocalsKept
  <2> SUFFICES ASSUME Scope, NEW x \in DOMAIN kept
               PROVE  /\ SlotOf(table, x) \in DOMAIN locals
                      /\ locals[SlotOf(table, x)] = kept[x]
    BY DEF LocalsKept
  <2>1. PICK i \in 1..Len(locals) : table[i] = x /\ locals[i] = kept[x]
    BY DEF Scope, NamesKept
  <2>2. i \in 1..Len(table) /\ DOMAIN locals = 1..Len(locals)
    BY DEF Scope
  <2>3. SlotOf(table, x) = i
    BY <2>1, <2>2 DEF SlotOf, Scope, OneSlotEach
  <2> QED BY <2>1, <2>2, <2>3
<1> QED BY <1>1, <1>2, <1>3, ProgramsAreTrees, PTL DEF Spec

-----------------------------------------------------------------------------
(* Types.                                                                  *)

\* The text of any lines has finitely many braces: it is for TLC to know that a
\* string has a length.
BracesCounted ==
  \A ns \in Seq(1..Len(session.lines)) : Braces(Join(ns)) \in Int

\* What the loop is doing.
Loop ==
  /\ session \in Sessions
  /\ typed \in 0..Len(session.lines)
  /\ phase \in {"read", "lexing", "parsing", "exec", "closed", "crashed"}
  /\ sm \in {"readyToExec", "waiting", "waitEnded"}
  /\ indent \in Int

\* Each step leaves the loop with a phase, a state and a number of lines it may
\* have. Only what is read anew counts its braces.
LEMMA StepKeepsLoop ==
  ASSUME Loop, Collected, Rising(ran \o cmds, typed), BracesCounted, [Next]_vars
  PROVE  Loop'
<1> DEFINE States == {"readyToExec", "waiting", "waitEnded"}
           Phases == {"read", "lexing", "parsing", "exec", "closed", "crashed"}
<1>1. Len(session.lines) \in Nat /\ typed \in Nat
  BY ReplAssumption DEF SessionAssumption, Loop
<1>2. \A s \in States, c \in States : Goto(PromptTransitions, c, s) \in States
  BY DEF Goto
<1>3. session' = session
  BY DEF Next, Read, Answer, ReadNothing, ReadReset, ReadInterrupt, ReadEOF, ReadLine,
         Lex, Parse, WaitForMore, RejectToken, StillOpen, ParseAgain, Accept, Reject,
         AcceptAgain, Exec, ExecRaise, Crash, Executed, judged, vars
<1>4. typed' \in 0..Len(session.lines)
  <2>1. typed' = typed \/ (Reading1 /\ typed' = typed + 1)
    BY DEF Next, Read, Answer, ReadNothing, ReadReset, ReadInterrupt, ReadEOF, ReadLine,
         Lex, Parse, WaitForMore, RejectToken, StillOpen, ParseAgain, Accept, Reject,
         AcceptAgain, Exec, ExecRaise, Crash, Executed, judged, vars, replVars
  <2> QED BY <1>1, <2>1 DEF Loop, Reading1
<1>5. phase' \in Phases
  BY DEF Loop, Next, Read, Answer, ReadNothing, ReadReset, ReadInterrupt, ReadEOF, ReadLine,
         Lex, Parse, WaitForMore, RejectToken, StillOpen, ParseAgain, Accept, Reject,
         AcceptAgain, Exec, ExecRaise, Crash, Executed, judged, vars, replVars,
         eraseBuffer, ParseLines
<1>6. sm' \in States
  <2>1. \A s \in States : To(s) \in States
    BY <1>2 DEF To, Loop
  <2>2. eraseBuffer => sm' \in States
    BY <1>2, <2>1 DEF eraseBuffer
  <2>3. \/ sm' = sm \/ eraseBuffer \/ sm' = "readyToExec"
        \/ sm' = To("waiting") \/ sm' = To("waitEnded") \/ sm' = To("readyToExec")
    BY DEF Next, Read, Answer, ReadNothing, ReadReset, ReadInterrupt, ReadEOF, ReadLine,
         Lex, Parse, WaitForMore, RejectToken, StillOpen, ParseAgain, Accept, Reject,
         AcceptAgain, Exec, ExecRaise, Crash, Executed, judged, vars, replVars
  <2> QED BY <2>1, <2>2, <2>3 DEF Loop
<1>7. indent' \in Int
  <2>1. CASE ReadLine
    <3> DEFINE ns == Append(cmds, typed + 1)
    <3>1. \A i \in 1..Len(cmds) : cmds[i] \in 1..typed
      <4>1. \A i \in 1..Len(cmds) : /\ Len(ran) + i \in 1..Len(ran \o cmds)
                                    /\ (ran \o cmds)[Len(ran) + i] = cmds[i]
        BY DEF Collected
      <4> QED BY <4>1 DEF Rising
    <3>2. typed + 1 \in 1..Len(session.lines) /\ 1..typed \subseteq 1..Len(session.lines)
      BY <1>1, <2>1 DEF ReadLine, Reading1
    <3> DEFINE L == 1..Len(session.lines)
    <3>3. cmds \in Seq(L)
      <4>1. \A i \in 1..Len(cmds) : cmds[i] \in L
        BY <3>1, <3>2
      <4> HIDE DEF L
      <4> QED BY <4>1 DEF Collected
    <3>4. ns \in Seq(1..Len(session.lines))
      BY <3>2, <3>3
    <3>5. indent' = Braces(Join(ns))
      BY <2>1 DEF ReadLine
    <3> QED BY <3>4, <3>5 DEF BracesCounted
  <2>2. CASE ~ReadLine
    <3>1. indent' = indent \/ indent' = 0
      BY <2>2 DEF Next, Read, Answer, ReadNothing, ReadReset, ReadInterrupt, ReadEOF,
         Lex, Parse, WaitForMore, RejectToken, StillOpen, ParseAgain, Accept, Reject,
         AcceptAgain, Exec, ExecRaise, Crash, Executed, judged, vars, replVars, eraseBuffer
    <3> QED BY <3>1 DEF Loop
  <2> QED BY <2>1, <2>2
<1> QED BY <1>3, <1>4, <1>5, <1>6, <1>7 DEF Loop

\* Slots that are apart are as many as their names.
LEMMA SlotsCounted ==
  ASSUME Scope
  PROVE  Cardinality({table[i] : i \in 1..Len(table)}) = Len(table)
<1> DEFINE n == Len(table)
           T == {table[i] : i \in 1..n}
<1>1. n \in Nat /\ table \in [1..n -> T] /\ \A i, j \in 1..n : table[i] = table[j] => i = j
  BY DEF Scope, OneSlotEach
<1>2. table \in Bijection(1..n, T)
  BY <1>1 DEF Bijection, Injection, Surjection, IsInjective
<1>3. IsFiniteSet(1..n) /\ Cardinality(1..n) = n
  <2>1. n \in Nat
    BY <1>1
  <2> HIDE DEF n
  <2> QED BY <2>1, FS_Interval
<1> QED BY <1>2, <1>3, FS_Bijection DEF ExistsBijection

\* The variables of the loop and of the scope keep their types, and the lines
\* their numbers, if the braces of any text can be counted.
THEOREM ReplKeepsTypes == Spec /\ []BracesCounted => []TypeOK
<1> DEFINE Order == Rising(ran \o cmds, typed)
           Inv == Loop /\ Collected /\ Order /\ Scope
<1>1. Init => Inv
  <2> SUFFICES ASSUME Init PROVE Inv
    OBVIOUS
  <2>1. /\ session \in Sessions /\ typed = 0 /\ phase = "read" /\ sm = "readyToExec"
        /\ indent = 0 /\ ran = <<>> /\ cmds = <<>>
    BY Zenon DEF Init
  <2>2. session.lines \in Seq(STRING)
    BY <2>1, ReplAssumption DEF SessionAssumption
  <2>3. Loop
    BY <2>1, <2>2 DEF Loop
  <2>4. Order
    <3>1. ran \o cmds = <<>> /\ Len(<<>>) = 0
      BY <2>1
    <3> QED BY <3>1 DEF Rising
  <2> QED BY <2>3, <2>4, InitCollects, InitScope
<1>2. Inv /\ BracesCounted /\ ProgramIsTree /\ [Next]_vars => Inv'
  <2> SUFFICES ASSUME Inv, BracesCounted, ProgramIsTree, [Next]_vars PROVE Inv'
    OBVIOUS
  <2>1. Collected' /\ [Shell!Next]_(Shell!promptVars)
    BY StepCollects
  <2>2. Order'
    BY <2>1, StepKeepsOrder
  <2> QED BY <2>1, <2>2, StepKeepsLoop, StepKeepsScope
<1>3. Inv /\ ProgramIsTree => TypeOK
  <2> SUFFICES ASSUME Inv, ProgramIsTree PROVE TypeOK
    OBVIOUS
  <2>1. ran \in Seq(Nat) /\ cmds \in Seq(Nat) /\ typed \in Nat
    BY DEF Collected
  <2>2. \A i \in 1..Len(ran) : ran[i] \in 1..typed
    BY <2>1, PrefixRises DEF Rising
  <2>3. \A i \in 1..Len(cmds) : cmds[i] \in 1..typed
    <3>1. \A i \in 1..Len(cmds) : /\ Len(ran) + i \in 1..Len(ran \o cmds)
                                  /\ (ran \o cmds)[Len(ran) + i] = cmds[i]
      BY <2>1
    <3> QED BY <3>1 DEF Rising
  <2> QED BY <2>2, <2>3, SlotsCounted DEF TypeOK, Loop, Scope
<1> QED BY <1>1, <1>2, <1>3, ProgramsAreTrees, PTL DEF Spec
=============================================================================
