--------------------------- MODULE ClassesProofs ---------------------------
(* Proofs about Classes.                                                     *)
EXTENDS Classes, TLAPS, WellFoundedInduction

-----------------------------------------------------------------------------
(* Walks.                                                                    *)

\* Induction, for the sets of numbers with a property.
LEMMA Induction ==
  ASSUME NEW T, 0 \in T, \A n \in Nat : n \in T => n + 1 \in T
  PROVE  \A n \in Nat : n \in T
<1>1. SUFFICES ASSUME Nat \ T # {} PROVE FALSE
  OBVIOUS
<1>2. PICK x \in Nat \ T : \A y \in Nat \ T : ~ (<<y, x>> \in OpToRel(<, Nat))
  BY <1>1, WFMin, NatLessThanWellFounded
<1>3. x - 1 \in Nat /\ x - 1 < x
  OBVIOUS
<1>4. <<x - 1, x>> \in OpToRel(<, Nat)
  BY <1>3 DEF OpToRel
<1>5. x - 1 \in T
  BY <1>2, <1>3, <1>4
<1>6. (x - 1) + 1 = x
  OBVIOUS
<1> QED BY Zenon, <1>2, <1>3, <1>5, <1>6

\* What Along follows, as a function of the steps that are left.
Walk(next, stop, fuel) ==
  LET walk[k \in 0..fuel] ==
        [x \in DOMAIN next |->
           IF stop[x] \/ k = 0 THEN <<x>> ELSE <<x>> \o walk[k - 1][next[x]]]
  IN walk

\* The walk of Along, once it has a name.
LEMMA AlongWalk ==
  ASSUME NEW next, NEW c, NEW stop, NEW fuel
  PROVE  Along(next, c, stop, fuel) = Walk(next, stop, fuel)[fuel][c]
BY Zenon DEF Along, Walk

\* One row of a recursive function over numbers of steps, from the row below it:
\* what x has of its own, and what is found from the next one.
Row(own, next, stop, k, below) ==
  [x \in DOMAIN next |->
     IF stop[x] \/ k = 0 THEN own[x] ELSE own[x] \o below[next[x]]]

\* The first row asks for none below it.
LEMMA FirstRow ==
  ASSUME NEW own, NEW next, NEW stop, NEW k, k = 0, NEW a, NEW b
  PROVE  Row(own, next, stop, k, a) = Row(own, next, stop, k, b)
BY Zenon DEF Row

InRows(w, own, next, stop, fuel) ==
  w = [k \in 0..fuel |-> Row(own, next, stop, k, w[k - 1])]

\* There is a function with such rows.
LEMMA RowsExist ==
  ASSUME NEW own, NEW next, NEW stop, NEW fuel \in Nat
  PROVE  \E w : InRows(w, own, next, stop, fuel)
<1> DEFINE T == {n \in Nat : \E w : InRows(w, own, next, stop, n)}
<1>1. 0 \in T
  <2> DEFINE w == [k \in 0..0 |-> Row(own, next, stop, k, k)]
  <2>1. w[0] = Row(own, next, stop, 0, w[0 - 1])
    BY FirstRow
  <2>2. w = [k \in 0..0 |-> Row(own, next, stop, k, w[k - 1])]
    <3>1. ASSUME NEW k \in 0..0
          PROVE  Row(own, next, stop, k, k) = Row(own, next, stop, k, w[k - 1])
      <4>1. k = 0
        OBVIOUS
      <4> HIDE DEF w
      <4> QED BY <4>1, FirstRow
    <3> QED BY Zenon, <3>1
  <2> HIDE DEF w
  <2>3. InRows(w, own, next, stop, 0)
    BY Zenon, <2>2 DEF InRows
  <2> QED BY <2>3
<1>2. ASSUME NEW n \in Nat, n \in T PROVE n + 1 \in T
  <2>1. PICK v : v = [k \in 0..n |-> Row(own, next, stop, k, v[k - 1])]
    BY Zenon, <1>2 DEF InRows
  <2> DEFINE w == [k \in 0..n + 1 |-> Row(own, next, stop, k, v[k - 1])]
  <2>2. ASSUME NEW k \in 0..n + 1
        PROVE  Row(own, next, stop, k, v[k - 1]) = Row(own, next, stop, k, w[k - 1])
    <3>1. CASE k = 0
      <4> HIDE DEF w
      <4> QED BY <3>1, FirstRow
    <3>2. CASE k # 0
      <4>1. k - 1 \in 0..n /\ k - 1 \in 0..n + 1
        BY <3>2
      <4>2. v[k - 1] = Row(own, next, stop, k - 1, v[k - 1 - 1])
        BY Zenon, <2>1, <4>1
      <4>3. w[k - 1] = Row(own, next, stop, k - 1, v[k - 1 - 1])
        BY Zenon, <4>1
      <4> QED BY Zenon, <4>2, <4>3
    <3> QED BY <3>1, <3>2
  <2>3. w = [k \in 0..n + 1 |-> Row(own, next, stop, k, w[k - 1])]
    BY Zenon, <2>2
  <2>4. n + 1 \in Nat
    OBVIOUS
  <2> HIDE DEF w
  <2>5. InRows(w, own, next, stop, n + 1)
    BY Zenon, <2>3 DEF InRows
  <2> QED BY Zenon, <2>4, <2>5
<1> HIDE DEF T
<1>3. fuel \in T
  BY Zenon, <1>1, <1>2, Induction
<1> QED BY Zenon, <1>3 DEF T

Unwinds(w, next, stop, fuel) ==
  w = [k \in 0..fuel |->
         [x \in DOMAIN next |->
            IF stop[x] \/ k = 0 THEN <<x>> ELSE <<x>> \o w[k - 1][next[x]]]]
Self(next) == [x \in DOMAIN next |-> <<x>>]

\* What is as Along says, row by row.
LEMMA UnwindsByRows ==
  ASSUME NEW next, NEW stop, NEW fuel \in Nat, NEW w
  PROVE  Unwinds(w, next, stop, fuel)
           <=> w = [k \in 0..fuel |-> Row(Self(next), next, stop, k, w[k - 1])]
<1>1. ASSUME NEW k \in 0..fuel
      PROVE  Row(Self(next), next, stop, k, w[k - 1])
               = [x \in DOMAIN next |->
                    IF stop[x] \/ k = 0 THEN <<x>> ELSE <<x>> \o w[k - 1][next[x]]]
  <2>1. ASSUME NEW x \in DOMAIN next
        PROVE  (IF stop[x] \/ k = 0 THEN Self(next)[x]
                ELSE Self(next)[x] \o w[k - 1][next[x]])
                 = IF stop[x] \/ k = 0 THEN <<x>> ELSE <<x>> \o w[k - 1][next[x]]
    BY Zenon DEF Self
  <2> QED BY Zenon, <2>1 DEF Row
<1> QED BY Zenon, <1>1 DEF Unwinds

\* Such a function exists.
LEMMA WalkExists ==
  ASSUME NEW next, NEW stop, NEW fuel \in Nat
  PROVE  \E w : Unwinds(w, next, stop, fuel)
<1>1. PICK own : own = Self(next)
  OBVIOUS
<1>2. PICK w : InRows(w, own, next, stop, fuel)
  BY RowsExist
<1>3. w = [k \in 0..fuel |-> Row(Self(next), next, stop, k, w[k - 1])]
  BY Zenon, <1>1, <1>2 DEF InRows
<1> QED BY <1>3, UnwindsByRows

\* Walk is one.
LEMMA WalkUnwinds ==
  ASSUME NEW next, NEW stop, NEW fuel \in Nat
  PROVE  Unwinds(Walk(next, stop, fuel), next, stop, fuel)
<1>1. Walk(next, stop, fuel) = CHOOSE w : Unwinds(w, next, stop, fuel)
  BY Zenon DEF Walk, Unwinds
<1> QED BY Zenon, <1>1, WalkExists

\* Two of them agree as far as both go.
LEMMA WalksAgree ==
  ASSUME NEW next, NEW stop, NEW m \in Nat, NEW n \in Nat, NEW v, NEW w,
         Unwinds(v, next, stop, m), Unwinds(w, next, stop, n)
  PROVE  \A k \in 0..m : k \in 0..n => v[k] = w[k]
<1> DEFINE T == {k \in Nat : k <= m /\ k <= n => v[k] = w[k]}
<1>1. /\ \A k \in 0..m : v[k] = Row(Self(next), next, stop, k, v[k - 1])
      /\ \A k \in 0..n : w[k] = Row(Self(next), next, stop, k, w[k - 1])
  <2>1. /\ v = [k \in 0..m |-> Row(Self(next), next, stop, k, v[k - 1])]
        /\ w = [k \in 0..n |-> Row(Self(next), next, stop, k, w[k - 1])]
    BY UnwindsByRows
  <2> QED BY Zenon, <2>1
<1>2. 0 \in T
  <2>1. 0 \in 0..m /\ 0 \in 0..n
    OBVIOUS
  <2>2. /\ v[0] = Row(Self(next), next, stop, 0, v[0 - 1])
        /\ w[0] = Row(Self(next), next, stop, 0, w[0 - 1])
    BY Zenon, <1>1, <2>1
  <2>3. Row(Self(next), next, stop, 0, v[0 - 1]) = Row(Self(next), next, stop, 0, w[0 - 1])
    BY FirstRow
  <2> QED BY <2>2, <2>3
<1>3. ASSUME NEW k \in Nat, k \in T PROVE k + 1 \in T
  <2> SUFFICES ASSUME k + 1 <= m, k + 1 <= n PROVE v[k + 1] = w[k + 1]
    OBVIOUS
  <2>1. v[k] = w[k]
    BY <1>3
  <2>2. k + 1 \in 0..m /\ k + 1 \in 0..n /\ (k + 1) - 1 = k
    OBVIOUS
  <2> QED BY Zenon, <1>1, <2>1, <2>2
<1> HIDE DEF T
<1>4. \A k \in Nat : k \in T
  BY Zenon, <1>2, <1>3, Induction
<1> QED BY <1>4 DEF T

\* Along is what it would be as a recursive operator.
LEMMA AlongStep ==
  ASSUME NEW next, NEW c \in DOMAIN next, NEW stop, NEW fuel \in Nat
  PROVE  Along(next, c, stop, fuel)
           = IF stop[c] \/ fuel = 0 THEN <<c>>
             ELSE <<c>> \o Along(next, next[c], stop, fuel - 1)
<1> DEFINE w == Walk(next, stop, fuel)
           v == Walk(next, stop, fuel - 1)
<1>1. Unwinds(w, next, stop, fuel)
  BY WalkUnwinds
<1>2. w = [k \in 0..fuel |-> Row(Self(next), next, stop, k, w[k - 1])]
  BY <1>1, UnwindsByRows
<1>3. fuel \in 0..fuel
  OBVIOUS
<1>4. w[fuel] = Row(Self(next), next, stop, fuel, w[fuel - 1])
  BY Zenon, <1>2, <1>3
<1>5. w[fuel][c] = IF stop[c] \/ fuel = 0 THEN <<c>> ELSE <<c>> \o w[fuel - 1][next[c]]
  BY Zenon, <1>4 DEF Row, Self
<1>6. ASSUME fuel # 0 PROVE w[fuel - 1] = v[fuel - 1]
  <2>1. /\ fuel - 1 \in Nat
        /\ fuel - 1 \in 0..fuel /\ fuel - 1 \in 0..fuel - 1
    BY <1>6
  <2>2. Unwinds(v, next, stop, fuel - 1)
    BY <2>1, WalkUnwinds
  <2> HIDE DEF w, v
  <2> QED BY <1>1, <2>1, <2>2, WalksAgree
<1> HIDE DEF w, v
<1>7. /\ Along(next, c, stop, fuel) = w[fuel][c]
      /\ Along(next, next[c], stop, fuel - 1) = v[fuel - 1][next[c]]
  BY AlongWalk DEF w, v
<1> QED BY Zenon, <1>5, <1>6, <1>7

\* The same, one step more.
LEMMA AlongNext ==
  ASSUME NEW next, NEW c \in DOMAIN next, NEW stop, NEW fuel \in Nat
  PROVE  Along(next, c, stop, fuel + 1)
           = IF stop[c] THEN <<c>> ELSE <<c>> \o Along(next, next[c], stop, fuel)
<1>1. PICK m \in Nat : m = fuel + 1
  OBVIOUS
<1>2. m # 0 /\ m - 1 = fuel
  BY <1>1
<1>3. Along(next, c, stop, m)
        = IF stop[c] \/ m = 0 THEN <<c>> ELSE <<c>> \o Along(next, next[c], stop, m - 1)
  BY AlongStep
<1> QED BY Zenon, <1>1, <1>2, <1>3

\* The line that Along returns stays where its steps lead.
LEMMA AlongStays ==
  ASSUME NEW next, NEW stop, NEW S \in SUBSET DOMAIN next,
         \A x \in S : stop[x] \/ next[x] \in S
  PROVE  \A fuel \in Nat : \A c \in S :
           /\ Along(next, c, stop, fuel) \in Seq(S)
           /\ Along(next, c, stop, fuel) # <<>>
<1> DEFINE line(c, n) == Along(next, c, stop, n)
           P(c, n) == line(c, n) \in Seq(S) /\ line(c, n) # <<>>
           T == {n \in Nat : \A c \in S : P(c, n)}
<1>1. ASSUME NEW c \in S PROVE <<c>> \in Seq(S) /\ <<c>> # <<>>
  OBVIOUS
<1>2. 0 \in T
  <2>1. ASSUME NEW c \in S PROVE line(c, 0) = <<c>>
    BY AlongStep
  <2> HIDE DEF line
  <2>2. \A c \in S : P(c, 0)
    BY Zenon, <1>1, <2>1
  <2> QED BY <2>2
<1>3. ASSUME NEW n \in Nat, n \in T PROVE n + 1 \in T
  <2>1. ASSUME NEW c \in S PROVE P(c, n + 1)
    <3>1. line(c, n + 1) = IF stop[c] THEN <<c>> ELSE <<c>> \o line(next[c], n)
      BY ZenonT(30), AlongNext
    <3> HIDE DEF line
    <3>2. CASE stop[c]
      BY Zenon, <1>1, <3>1, <3>2
    <3>3. CASE ~stop[c]
      <4>1. next[c] \in S
        BY <3>3
      <4>2. P(next[c], n)
        BY <1>3, <4>1
      <4>3. <<c>> \o line(next[c], n) \in Seq(S)
            /\ <<c>> \o line(next[c], n) # <<>>
        BY <4>2
      <4> QED BY Zenon, <3>1, <3>3, <4>3
    <3> QED BY <3>2, <3>3
  <2> HIDE DEF P
  <2> QED BY <2>1
<1> HIDE DEF T
<1>4. \A n \in Nat : n \in T
  BY Zenon, <1>2, <1>3, Induction
<1> QED BY <1>4 DEF T

\* So does its end.
LEMMA AlongLast ==
  ASSUME NEW next, NEW stop, NEW S \in SUBSET DOMAIN next,
         \A x \in S : stop[x] \/ next[x] \in S, NEW c \in S, NEW fuel \in Nat
  PROVE  /\ Along(next, c, stop, fuel) \in Seq(S)
         /\ Along(next, c, stop, fuel) # <<>>
         /\ Last(Along(next, c, stop, fuel)) \in S
<1>1. /\ Along(next, c, stop, fuel) \in Seq(S)
      /\ Along(next, c, stop, fuel) # <<>>
  BY Zenon, AlongStays
<1> QED BY <1>1 DEF Last

\* It begins with c.
LEMMA AlongFirst ==
  ASSUME NEW next, NEW stop, NEW S \in SUBSET DOMAIN next,
         \A x \in S : stop[x] \/ next[x] \in S, NEW c \in S, NEW fuel \in Nat
  PROVE  Along(next, c, stop, fuel)[1] = c
<1>1. /\ c \in DOMAIN next /\ <<c>>[1] = c
      /\ stop[c] \/ next[c] \in S
  OBVIOUS
<1>2. CASE stop[c] \/ fuel = 0
  <2>1. Along(next, c, stop, fuel) = <<c>>
    BY <1>1, <1>2, AlongStep
  <2> QED BY Zenon, <1>1, <2>1
<1>3. CASE ~stop[c] /\ fuel # 0
  <2>1. Along(next, c, stop, fuel) = <<c>> \o Along(next, next[c], stop, fuel - 1)
    BY <1>1, <1>3, AlongStep
  <2>2. next[c] \in S /\ fuel - 1 \in Nat
    BY <1>1, <1>3
  <2>3. Along(next, next[c], stop, fuel - 1) \in Seq(S)
    BY <2>2, AlongLast
  <2> QED BY <2>1, <2>3
<1> QED BY <1>2, <1>3

\* Where the steps descend, a walk with fuel enough ends where it should stop,
\* and is the same along any pointers that lead the same way.
LEMMA AlongDescends ==
  ASSUME NEW next, NEW stop, NEW other, NEW same,
         NEW S \in SUBSET (DOMAIN next \cap DOMAIN other), NEW rank \in [S -> Nat],
         \A x \in S : stop[x] = same[x]
                      /\ (stop[x] \/ /\ next[x] = other[x] /\ next[x] \in S
                                     /\ rank[next[x]] < rank[x])
  PROVE  \A c \in S : \A f, g \in Nat : f >= rank[c] /\ g >= rank[c] =>
           /\ Along(next, c, stop, f) = Along(other, c, same, g)
           /\ stop[Last(Along(next, c, stop, f))]
<1> DEFINE one(c, n) == Along(next, c, stop, n)
           two(c, n) == Along(other, c, same, n)
           P(c, f, g) == one(c, f) = two(c, g) /\ stop[Last(one(c, f))]
           T == {n \in Nat : \A c \in S : \A f, g \in Nat :
                               rank[c] <= n /\ f >= rank[c] /\ g >= rank[c] => P(c, f, g)}
<1>1. ASSUME NEW c \in S, NEW f \in Nat, NEW g \in Nat, stop[c] PROVE P(c, f, g)
  <2>1. one(c, f) = <<c>> /\ two(c, g) = <<c>>
    BY <1>1, AlongStep
  <2> HIDE DEF one, two
  <2>2. Last(<<c>>) = c
    BY DEF Last
  <2> QED BY Zenon, <1>1, <2>1, <2>2
<1>2. 0 \in T
  <2>1. ASSUME NEW c \in S, rank[c] <= 0 PROVE stop[c]
    BY <2>1
  <2> HIDE DEF P
  <2> QED BY <1>1, <2>1
<1>3. ASSUME NEW n \in Nat, n \in T PROVE n + 1 \in T
  <2>1. ASSUME NEW c \in S, NEW f \in Nat, NEW g \in Nat,
               rank[c] <= n + 1, f >= rank[c], g >= rank[c], ~stop[c]
        PROVE  P(c, f, g)
    <3>1. /\ next[c] = other[c] /\ next[c] \in S /\ ~same[c]
          /\ rank[next[c]] < rank[c] /\ rank[c] \in Nat /\ rank[next[c]] \in Nat
          /\ c \in DOMAIN next /\ c \in DOMAIN other
      BY <2>1
    <3>2. PICK h \in Nat, k \in Nat : f = h + 1 /\ g = k + 1
      <4>1. f - 1 \in Nat /\ g - 1 \in Nat /\ f = (f - 1) + 1 /\ g = (g - 1) + 1
        BY <2>1, <3>1
      <4> QED BY Zenon, <4>1
    <3>7. rank[next[c]] <= n /\ h >= rank[next[c]] /\ k >= rank[next[c]]
      BY <2>1, <3>1, <3>2
    <3>3. /\ one(c, h + 1) = <<c>> \o one(next[c], h)
          /\ two(c, k + 1) = <<c>> \o two(next[c], k)
      <4>1. one(c, h + 1) = IF stop[c] THEN <<c>> ELSE <<c>> \o one(next[c], h)
        BY <3>1, AlongNext
      <4>2. two(c, k + 1) = IF same[c] THEN <<c>> ELSE <<c>> \o two(other[c], k)
        <5>1. c \in DOMAIN other
          BY <3>1
        <5> QED BY <5>1, AlongNext
      <4> HIDE DEF one, two
      <4> QED BY Zenon, <2>1, <3>1, <4>1, <4>2
    <3>4. one(next[c], h) \in Seq(S) /\ one(next[c], h) # <<>>
      <4>1. S \in SUBSET DOMAIN next /\ \A x \in S : stop[x] \/ next[x] \in S
        OBVIOUS
      <4> QED BY <3>1, <4>1, AlongLast
    <3> HIDE DEF one, two
    <3>5. P(next[c], h, k)
      BY Zenon, <1>3, <3>1, <3>7
    <3>6. Last(<<c>> \o one(next[c], h)) = Last(one(next[c], h))
      BY <3>4 DEF Last
    <3> QED BY Zenon, <3>2, <3>3, <3>5, <3>6
  <2>2. n + 1 \in Nat
    OBVIOUS
  <2> HIDE DEF P
  <2> QED BY <1>1, <2>1, <2>2
<1> HIDE DEF T
<1>4. \A n \in Nat : n \in T
  BY Zenon, <1>2, <1>3, Induction
<1>5. ASSUME NEW c \in S, NEW f \in Nat, NEW g \in Nat, f >= rank[c], g >= rank[c]
      PROVE  P(c, f, g)
  <2>1. rank[c] \in Nat /\ rank[c] <= rank[c]
    OBVIOUS
  <2>2. rank[c] \in T
    BY <1>4, <2>1
  <2> HIDE DEF P
  <2> QED BY <1>5, <2>1, <2>2 DEF T
<1> QED BY Zenon, <1>5

-----------------------------------------------------------------------------
(* The invariant.  The classes of the program are followed by their           *)
(* metaclasses, constants and scopes lead to no other struct, and copies are  *)
(* made of modules and lead to older copies.                                  *)

RClasses ==
  [name : Names \cup {"Object", "Class", "Module", ""}, super : Nat, pseudo : Nat,
   class : {Class, Module}, meta : Nat, isModule : BOOLEAN, scope : Nat, maps : Nat]

Rows ==
  /\ heap \in Seq(RClasses) /\ Builtins <= Len(heap)
  /\ methods \in Seq([MethodNames -> 0..MaxDefs]) /\ Len(methods) = Len(heap)
  /\ constants \in Seq([Names -> Int]) /\ Len(constants) = Len(heap)
  /\ asked \in Seq(Int) /\ Len(asked) = Len(heap)

\* The metaclass of Class is the only struct without a superclass.
Rootless == 4

Pointers ==
  /\ \A c \in Structs :
       /\ IF c = Rootless THEN heap[c].super = 0 ELSE heap[c].super \in Structs
       /\ {heap[c].pseudo, heap[c].meta} \subseteq {0} \cup Structs
       /\ heap[c].scope \in {0} \cup UserClasses
       /\ heap[c].maps \in Originals /\ heap[c].maps <= c
       /\ IsCopy(c) => heap[heap[c].maps].isModule /\ Builtins < c
  /\ \A c \in UserClasses :
       heap[c].meta = c + 1 /\ c + 1 \in Originals /\ heap[c + 1].meta = 0

Values == {Plain, 0} \cup UserClasses
Contents ==
  /\ \A c \in Structs : asked[c] \in Values /\ \A n \in Names : constants[c][n] \in Values
  /\ self \in {Main} \cup UserClasses

\* On the data stack are the main object and classes, and there is one for each
\* body that has its outer self below it.
Left ==
  /\ stack \in Seq({Main} \cup Originals) /\ Len(stack) <= MaxStack
  /\ open \in 0..Len(stack) /\ (self = Main => open = 0)

Chains == \A c \in Structs : IsCopy(c) /\ IsCopy(heap[c].super) => heap[c].super < c

IInv == Rows /\ Pointers /\ Contents /\ Chains /\ Left

-----------------------------------------------------------------------------
(* Lookups.                                                                  *)

\* The class of the code that is executed is a struct.
LEMMA Own ==
  ASSUME Rows, Contents
  PROVE  SelfClass \in Structs /\ Object \in Structs
BY DEF Rows, Contents, SelfClass, Structs, UserClasses, Builtins, Main, Object

\* Scopes lead to structs.
LEMMA HolderIsStruct ==
  ASSUME Rows, Pointers, NEW cs, NEW c \in Structs, NEW n
  PROVE  Holder(cs, c, n) \in Structs
<1> DEFINE stop == [x \in Structs |-> cs[heap[x].maps][n] # 0 \/ Scope[x] = 0]
<1>1. Structs \in SUBSET DOMAIN Scope
  BY DEF Scope
<1>2. ASSUME NEW x \in Structs PROVE stop[x] \/ Scope[x] \in Structs
  <2>1. Scope[x] \in {0} \cup UserClasses
    BY DEF Pointers, Scope
  <2>2. Scope[x] = 0 \/ Scope[x] \in Structs
    BY <2>1 DEF UserClasses, Structs, Builtins
  <2>3. stop[x] <=> cs[heap[x].maps][n] # 0 \/ Scope[x] = 0
    OBVIOUS
  <2> QED BY Zenon, <2>2, <2>3
<1>3. Len(heap) \in Nat
  BY DEF Rows
<1>4. Holder(cs, c, n) = Last(Along(Scope, c, stop, Len(heap)))
  BY DEF Holder
<1> HIDE DEF stop
<1> QED BY <1>1, <1>2, <1>3, <1>4, AlongLast

\* What a lookup returns is in some row.
LEMMA ScopesReturn ==
  ASSUME Rows, Pointers, NEW V, NEW cs, NEW n \in Names, NEW c \in Structs,
         \A x \in Structs : \A m \in Names : cs[x][m] \in V
  PROVE  lookupConstantUnderAllScope(cs, c, n) \in V
<1>1. Holder(cs, c, n) \in Structs
  BY HolderIsStruct
<1>2. heap[Holder(cs, c, n)].maps \in Structs
  BY <1>1 DEF Pointers, Originals
<1> QED BY <1>2 DEF lookupConstantUnderAllScope

\* The same for what the VM returns, which looks in the class on top, in that of
\* the code, and in Object.
LEMMA LookupReturns ==
  ASSUME Rows, Pointers, Contents, NEW V, NEW cs, NEW n \in Names, NEW top,
         \A x \in Structs : \A m \in Names : cs[x][m] \in V
  PROVE  lookupConstant(cs, top, n) \in V
<1>1. ASSUME NEW c \in Structs PROVE lookupConstantUnderAllScope(cs, c, n) \in V
  BY Zenon, <1>1, ScopesReturn
<1>2. cs[Object][n] \in V
  BY Own
<1> QED BY Zenon, <1>1, <1>2, Own DEF lookupConstant

\* Tables that agree on a name answer alike.
LEMMA ScopesAlike ==
  ASSUME Pointers, NEW cs, NEW ds, NEW c, NEW n,
         \A x \in Structs : cs[x][n] = ds[x][n], c \in Structs, Rows
  PROVE  lookupConstantUnderAllScope(cs, c, n) = lookupConstantUnderAllScope(ds, c, n)
<1>1. ASSUME NEW x \in Structs
      PROVE  cs[heap[x].maps][n] = ds[heap[x].maps][n]
  BY DEF Pointers, Originals
<1>2. [x \in Structs |-> cs[heap[x].maps][n] # 0 \/ Scope[x] = 0]
        = [x \in Structs |-> ds[heap[x].maps][n] # 0 \/ Scope[x] = 0]
  BY <1>1
<1>3. Holder(cs, c, n) = Holder(ds, c, n)
  BY Zenon, <1>2 DEF Holder
<1>4. Holder(cs, c, n) \in Structs
  BY HolderIsStruct
<1> QED BY Zenon, <1>1, <1>3, <1>4 DEF lookupConstantUnderAllScope

-----------------------------------------------------------------------------
(* What the statements do to the structs.                                    *)

\* Sequences with one element more, with two, and with another in its place.
LEMMA Appended ==
  ASSUME NEW S, NEW s \in Seq(S), NEW a \in S
  PROVE  /\ s \o <<a>> \in Seq(S) /\ Append(s, a) = s \o <<a>>
         /\ Len(s \o <<a>>) = Len(s) + 1
         /\ \A i \in 1..Len(s) : (s \o <<a>>)[i] = s[i]
         /\ (s \o <<a>>)[Len(s) + 1] = a
OBVIOUS

\* With two.
LEMMA TwoAppended ==
  ASSUME NEW S, NEW s \in Seq(S), NEW a \in S, NEW b \in S
  PROVE  /\ s \o <<a, b>> \in Seq(S)
         /\ Len(s \o <<a, b>>) = Len(s) + 2
         /\ \A i \in 1..Len(s) : (s \o <<a, b>>)[i] = s[i]
         /\ (s \o <<a, b>>)[Len(s) + 1] = a
         /\ (s \o <<a, b>>)[Len(s) + 2] = b
OBVIOUS

\* With another in the place of one.
LEMMA Replaced ==
  ASSUME NEW S, NEW s \in Seq(S), NEW k \in 1..Len(s), NEW a \in S
  PROVE  /\ [s EXCEPT ![k] = a] \in Seq(S)
         /\ Len([s EXCEPT ![k] = a]) = Len(s)
         /\ \A i \in 1..Len(s) : [s EXCEPT ![k] = a][i] = IF i = k THEN a ELSE s[i]
OBVIOUS

\* A class or module that is new, and its metaclass.
Newborn(a, b) ==
  /\ a \in RClasses /\ b \in RClasses
  /\ a.maps = Len(heap) + 1 /\ b.maps = Len(heap) + 2
  /\ a.meta = Len(heap) + 2 /\ b.meta = 0
  /\ a.scope = self /\ b.scope = 0
  /\ a.super \in Originals \cup {Len(heap) + 1}
  /\ b.super \in Originals \cup {Len(heap) + 2}
  /\ \/ b.super \in {2, Module}
     \/ a.super \in UserClasses \cup {Len(heap) + 1} /\ b.super = a.super + 1
  /\ a.pseudo \in Originals \cup {Len(heap) + 1}
  /\ b.pseudo \in Originals \cup {0, Len(heap) + 2}

\* The structs of Object, Class, Module and their metaclasses, and the classes of
\* the program, are no copies.
LEMMA BuiltinStructs ==
  ASSUME Rows, Pointers
  PROVE  /\ 1..Builtins \subseteq Originals /\ UserClasses \subseteq Originals
         /\ Len(heap) \in Nat /\ Builtins <= Len(heap)
<1>1. Len(heap) \in Nat /\ Builtins <= Len(heap)
  BY DEF Rows
<1>2. 1..Builtins \subseteq Structs /\ UserClasses \subseteq Structs
  BY <1>1 DEF Structs, UserClasses, Builtins
<1>3. ASSUME NEW c \in 1..Builtins PROVE ~IsCopy(c)
  BY <1>2 DEF Pointers, Builtins
<1> QED BY <1>1, <1>2, <1>3 DEF Originals, UserClasses

\* InitClass, InitModule and inherits make such pairs.
LEMMA InitsAreNewborn ==
  ASSUME Rows, Pointers, Contents, NEW n \in Names
  PROVE  /\ Newborn(InitClass(n)[1], InitClass(n)[2])
         /\ Newborn(InitModule(n)[1], InitModule(n)[2])
<1>1. /\ {Object, 2, Class, Module} \subseteq Originals
      /\ Len(heap) \in Nat /\ self \in Nat /\ Originals \subseteq Nat
  <2>1. self \in Nat
    BY BuiltinStructs DEF Contents, UserClasses, Main, Builtins
  <2> QED BY <2>1, BuiltinStructs DEF Builtins, Object, Class, Module, Originals, Structs
<1>2. Newborn(InitClass(n)[1], InitClass(n)[2])
  <2> DEFINE a == [name |-> n, super |-> Object, pseudo |-> Object, class |-> Class,
                   meta |-> Len(heap) + 2, isModule |-> FALSE, scope |-> self,
                   maps |-> Len(heap) + 1]
             b == [name |-> "", super |-> 2, pseudo |-> 2, class |-> Class,
                   meta |-> 0, isModule |-> FALSE, scope |-> 0, maps |-> Len(heap) + 2]
  <2>1. InitClass(n)[1] = a /\ InitClass(n)[2] = b
    BY DEF InitClass, RClass
  <2>2. a \in RClasses /\ b \in RClasses
    <3>1. {Object, 2, Module, 0, self, Len(heap) + 1, Len(heap) + 2} \subseteq Nat
      BY <1>1 DEF Object, Module
    <3>2. {n, ""} \subseteq Names \cup {"Object", "Class", "Module", ""}
      OBVIOUS
    <3> QED BY <3>1, <3>2 DEF RClasses
  <2>3. Newborn(a, b)
    BY <1>1, <2>2 DEF Newborn
  <2> HIDE DEF a, b
  <2> QED BY Zenon, <2>1, <2>3
<1>3. Newborn(InitModule(n)[1], InitModule(n)[2])
  <2> DEFINE a == [name |-> n, super |-> Object, pseudo |-> Object, class |-> Module,
                   meta |-> Len(heap) + 2, isModule |-> TRUE, scope |-> self,
                   maps |-> Len(heap) + 1]
             b == [name |-> "", super |-> Module, pseudo |-> Module, class |-> Class,
                   meta |-> 0, isModule |-> FALSE, scope |-> 0, maps |-> Len(heap) + 2]
  <2>1. InitModule(n)[1] = a /\ InitModule(n)[2] = b
    BY DEF InitModule, RClass
  <2>2. a \in RClasses /\ b \in RClasses
    <3>1. {Object, 2, Module, 0, self, Len(heap) + 1, Len(heap) + 2} \subseteq Nat
      BY <1>1 DEF Object, Module
    <3>2. {n, ""} \subseteq Names \cup {"Object", "Class", "Module", ""}
      OBVIOUS
    <3> QED BY <3>1, <3>2 DEF RClasses
  <2>3. Newborn(a, b)
    BY <1>1, <2>2 DEF Newborn
  <2> HIDE DEF a, b
  <2> QED BY Zenon, <2>1, <2>3
<1> QED BY <1>2, <1>3

\* What inherits sets the superclasses to.
LEMMA InheritsIsNewborn ==
  ASSUME Rows, Pointers, Contents, NEW a, NEW b, Newborn(a, b),
         NEW sc \in UserClasses \cup {Len(heap) + 1}
  PROVE  /\ Newborn(inherits(<<a, b>>, Len(heap) + 1, sc)[1],
                    inherits(<<a, b>>, Len(heap) + 1, sc)[2])
         /\ inherits(<<a, b>>, Len(heap) + 1, sc)[1].pseudo = sc
<1> DEFINE meta == IF sc = Len(heap) + 1 THEN Len(heap) + 2 ELSE heap[sc].meta
           c == [a EXCEPT !.super = sc, !.pseudo = sc]
           d == [b EXCEPT !.super = meta, !.pseudo = meta]
<1>1. /\ inherits(<<a, b>>, Len(heap) + 1, sc)[1] = c
      /\ inherits(<<a, b>>, Len(heap) + 1, sc)[2] = d
  BY DEF inherits
<1>2. /\ sc \in Originals \cup {Len(heap) + 1} /\ meta \in Originals \cup {Len(heap) + 2}
      /\ meta = sc + 1
  BY BuiltinStructs DEF Pointers
<1>3. sc \in Nat /\ meta \in Nat
  BY <1>2, BuiltinStructs DEF Originals, Structs
<1> HIDE DEF meta
<1>4. c \in RClasses /\ d \in RClasses
  BY <1>3 DEF Newborn, RClasses
<1>5. /\ c.super = sc /\ c.pseudo = sc /\ d.super = meta /\ d.pseudo = meta
      /\ c.maps = a.maps /\ c.meta = a.meta /\ c.scope = a.scope
      /\ d.maps = b.maps /\ d.meta = b.meta /\ d.scope = b.scope
  BY DEF Newborn, RClasses
<1> HIDE DEF c, d
<1> QED BY <1>1, <1>2, <1>4, <1>5 DEF Newborn

\* With the pair the structs are as they were but for these two.
LEMMA Grown ==
  ASSUME Rows, Pointers, NEW a, NEW b, Newborn(a, b), heap' = heap \o <<a, b>>
  PROVE  /\ heap' \in Seq(RClasses) /\ Len(heap') = Len(heap) + 2
         /\ \A c \in Structs : heap'[c] = heap[c]
         /\ heap'[Len(heap) + 1] = a /\ heap'[Len(heap) + 2] = b
         /\ Structs' = Structs \cup {Len(heap) + 1, Len(heap) + 2}
         /\ Originals' = Originals \cup {Len(heap) + 1, Len(heap) + 2}
         /\ UserClasses' = UserClasses \cup {Len(heap) + 1}
<1> PICK L \in Nat : L = Len(heap) /\ Builtins <= L
  BY BuiltinStructs
<1>1. /\ heap' \in Seq(RClasses) /\ Len(heap') = L + 2
      /\ \A c \in 1..L : heap'[c] = heap[c]
      /\ heap'[L + 1] = a /\ heap'[L + 2] = b
  <2>1. heap \in Seq(RClasses) /\ a \in RClasses /\ b \in RClasses
    BY DEF Rows, Newborn
  <2> QED BY <2>1, TwoAppended
<1>2. Structs = 1..L /\ Structs' = 1..L + 2
  BY <1>1 DEF Structs
<1>3. Structs' = Structs \cup {L + 1, L + 2}
  BY <1>2
<1>4. \A c \in Structs : heap'[c] = heap[c] /\ (IsCopy(c)' <=> IsCopy(c))
  BY <1>1, <1>2 DEF IsCopy
<1>5. ~IsCopy(L + 1)' /\ ~IsCopy(L + 2)'
  <2>1. heap'[L + 1].maps = L + 1 /\ heap'[L + 2].maps = L + 2
    BY <1>1 DEF Newborn
  <2> QED BY <2>1 DEF IsCopy
<1>6. Originals' = Originals \cup {L + 1, L + 2}
  BY Zenon, <1>3, <1>4, <1>5 DEF Originals
<1>7. UserClasses' = UserClasses \cup {L + 1}
  <2>1. /\ Builtins + 1..Len(heap') = (Builtins + 1..L) \cup {L + 1, L + 2}
        /\ Builtins + 1..Len(heap) = Builtins + 1..L
    BY <1>1 DEF Builtins
  <2>2. Builtins + 1..L \subseteq Structs
    BY <1>2 DEF Builtins
  <2>3. heap'[L + 1].meta # 0 /\ heap'[L + 2].meta = 0
    BY <1>1 DEF Newborn
  <2> QED BY Zenon, <1>4, <1>5, <2>1, <2>2, <2>3 DEF UserClasses
<1> QED BY Zenon, <1>1, <1>3, <1>4, <1>6, <1>7

\* The pointers of the two new structs lead to structs, as the others do.
LEMMA GrownPointers ==
  ASSUME Rows, Pointers, Contents, Chains, NEW a, NEW b, Newborn(a, b),
         heap' = heap \o <<a, b>>
  PROVE  Pointers' /\ Chains'
<1> PICK L \in Nat : L = Len(heap) /\ Builtins <= L
  BY BuiltinStructs
<1>1. /\ \A c \in Structs : heap'[c] = heap[c]
      /\ heap'[L + 1] = a /\ heap'[L + 2] = b
      /\ Structs' = Structs \cup {L + 1, L + 2}
      /\ Originals' = Originals \cup {L + 1, L + 2}
      /\ UserClasses' = UserClasses \cup {L + 1}
  BY Grown
<1>2. Structs = 1..L /\ Originals \subseteq Structs
  BY DEF Structs, Originals
<1>3. /\ a.maps = L + 1 /\ b.maps = L + 2 /\ a.meta = L + 2 /\ b.meta = 0
      /\ a.scope = self /\ b.scope = 0
      /\ a.super \in Structs' /\ b.super \in Structs'
      /\ a.pseudo \in Structs' /\ b.pseudo \in {0} \cup Structs'
      /\ self \in {0} \cup UserClasses
  BY <1>1, <1>2 DEF Newborn, Contents, Main
<1>4. ASSUME NEW c \in Structs
      PROVE  /\ IF c = Rootless THEN heap'[c].super = 0 ELSE heap'[c].super \in Structs'
             /\ {heap'[c].pseudo, heap'[c].meta} \subseteq {0} \cup Structs'
             /\ heap'[c].scope \in {0} \cup UserClasses'
             /\ heap'[c].maps \in Originals' /\ heap'[c].maps <= c
             /\ IsCopy(c)' => heap'[heap'[c].maps].isModule /\ Builtins < c
  <2>1. /\ IF c = Rootless THEN heap[c].super = 0 ELSE heap[c].super \in Structs
        /\ {heap[c].pseudo, heap[c].meta} \subseteq {0} \cup Structs
        /\ heap[c].scope \in {0} \cup UserClasses
        /\ heap[c].maps \in Originals /\ heap[c].maps <= c
        /\ IsCopy(c) => heap[heap[c].maps].isModule /\ Builtins < c
    BY Zenon DEF Pointers
  <2>2. heap'[c] = heap[c] /\ heap'[heap[c].maps] = heap[heap[c].maps]
    BY <1>1, <1>2, <2>1
  <2>3. IsCopy(c)' <=> IsCopy(c)
    BY <2>2 DEF IsCopy
  <2>4. /\ IF c = Rootless THEN heap'[c].super = 0 ELSE heap'[c].super \in Structs'
        /\ {heap'[c].pseudo, heap'[c].meta} \subseteq {0} \cup Structs'
        /\ heap'[c].scope \in {0} \cup UserClasses'
        /\ heap'[c].maps \in Originals' /\ heap'[c].maps <= c
    <3>1. /\ Structs \subseteq Structs' /\ Originals \subseteq Originals'
          /\ UserClasses \subseteq UserClasses'
      BY Zenon, <1>1
    <3>2. heap'[c].super = heap[c].super /\ heap'[c].pseudo = heap[c].pseudo
          /\ heap'[c].meta = heap[c].meta /\ heap'[c].scope = heap[c].scope
          /\ heap'[c].maps = heap[c].maps
      BY Zenon, <2>2
    <3>3. IF c = Rootless THEN heap'[c].super = 0 ELSE heap'[c].super \in Structs'
      BY Zenon, <2>1, <3>1, <3>2
    <3>4. {heap'[c].pseudo, heap'[c].meta} \subseteq {0} \cup Structs'
      BY Zenon, <2>1, <3>1, <3>2
    <3>5. /\ heap'[c].scope \in {0} \cup UserClasses'
          /\ heap'[c].maps \in Originals' /\ heap'[c].maps <= c
      BY Zenon, <2>1, <3>1, <3>2
    <3> QED BY Zenon, <3>3, <3>4, <3>5
  <2>5. IsCopy(c)' => heap'[heap'[c].maps].isModule /\ Builtins < c
    BY Zenon, <2>1, <2>2, <2>3
  <2> QED BY Zenon, <2>4, <2>5
<1>5. ASSUME NEW c \in {L + 1, L + 2}
      PROVE  /\ c # Rootless /\ heap'[c].super \in Structs'
             /\ {heap'[c].pseudo, heap'[c].meta} \subseteq {0} \cup Structs'
             /\ heap'[c].scope \in {0} \cup UserClasses'
             /\ heap'[c].maps \in Originals' /\ heap'[c].maps <= c /\ ~IsCopy(c)'
  <2>1. c # Rootless /\ c <= c
    BY DEF Rootless, Builtins
  <2>2. heap'[c].maps = c /\ ~IsCopy(c)'
    BY <1>1, <1>3 DEF IsCopy
  <2>3. heap'[c].super \in Structs' /\ heap'[c].pseudo \in {0} \cup Structs'
    BY Zenon, <1>1, <1>3
  <2>4. heap'[c].meta \in {0} \cup Structs' /\ heap'[c].scope \in {0} \cup UserClasses'
    BY <1>1, <1>3
  <2> QED BY <1>1, <2>1, <2>2, <2>3, <2>4
<1>6. ASSUME NEW c \in UserClasses'
      PROVE  heap'[c].meta = c + 1 /\ c + 1 \in Originals' /\ heap'[c + 1].meta = 0
  <2>1. CASE c = L + 1
    BY <2>1, <1>1, <1>3
  <2>2. CASE c \in UserClasses
    <3>1. /\ heap[c].meta = c + 1 /\ c + 1 \in Originals /\ heap[c + 1].meta = 0
          /\ c \in Structs
      BY <2>2, BuiltinStructs, <1>2 DEF Pointers
    <3>2. heap'[c] = heap[c] /\ heap'[c + 1] = heap[c + 1]
      BY <3>1, <1>1, <1>2
    <3> QED BY Zenon, <3>1, <3>2, <1>1
  <2> QED BY <1>1, <2>1, <2>2
<1>7. Pointers'
  <2>1. ASSUME NEW c \in Structs'
        PROVE  /\ IF c = Rootless THEN heap'[c].super = 0 ELSE heap'[c].super \in Structs'
               /\ {heap'[c].pseudo, heap'[c].meta} \subseteq {0} \cup Structs'
               /\ heap'[c].scope \in {0} \cup UserClasses'
               /\ heap'[c].maps \in Originals' /\ heap'[c].maps <= c
               /\ IsCopy(c)' => heap'[heap'[c].maps].isModule /\ Builtins < c
    <3>1. c \in Structs \/ c \in {L + 1, L + 2}
      BY Zenon, <1>1
    <3> QED BY Zenon, <3>1, <1>4, <1>5
  <2> QED BY Zenon, <2>1, <1>6 DEF Pointers
<1>8. ASSUME NEW c \in Structs', heap'[c].maps # c,
             heap'[heap'[c].super].maps # heap'[c].super
      PROVE  heap'[c].super < c
  <2>1. c \in Structs
    BY <1>1, <1>3, <1>8
  <2>2. heap'[c] = heap[c] /\ IsCopy(c)
    BY <1>1, <1>8, <2>1 DEF IsCopy
  <2>3. heap[c].super \in Structs
    BY <2>1, <2>2 DEF Pointers, Rootless, Builtins
  <2>4. IsCopy(heap[c].super)
    BY <1>1, <1>8, <2>2, <2>3 DEF IsCopy
  <2> QED BY <2>1, <2>2, <2>4 DEF Chains
<1>9. Chains'
  BY Zenon, <1>8 DEF Chains, IsCopy
<1> QED BY <1>7, <1>9

\* A constant that is set, in the table of self.
LEMMA Stored ==
  ASSUME Rows, Contents, NEW n \in Names, NEW v \in Int
  PROVE  /\ [constants EXCEPT ![SelfClass][n] = v] \in Seq([Names -> Int])
         /\ Len([constants EXCEPT ![SelfClass][n] = v]) = Len(heap)
         /\ \A x \in Structs : \A m \in Names :
              [constants EXCEPT ![SelfClass][n] = v][x][m]
                = IF x = SelfClass /\ m = n THEN v ELSE constants[x][m]
<1> DEFINE row == [constants[SelfClass] EXCEPT ![n] = v]
<1>1. /\ SelfClass \in 1..Len(constants) /\ constants \in Seq([Names -> Int])
      /\ Structs = 1..Len(constants) /\ Len(constants) = Len(heap)
  BY Own DEF Rows, Structs
<1>2. constants[SelfClass] \in [Names -> Int]
  BY <1>1
<1>3. row \in [Names -> Int] /\ \A m \in Names : row[m] = IF m = n THEN v ELSE constants[SelfClass][m]
  BY <1>2
<1>4. [constants EXCEPT ![SelfClass][n] = v] = [constants EXCEPT ![SelfClass] = row]
  BY <1>1
<1> HIDE DEF row
<1>5. /\ [constants EXCEPT ![SelfClass] = row] \in Seq([Names -> Int])
      /\ Len([constants EXCEPT ![SelfClass] = row]) = Len(constants)
      /\ \A x \in 1..Len(constants) :
           [constants EXCEPT ![SelfClass] = row][x] = IF x = SelfClass THEN row ELSE constants[x]
  BY <1>1, <1>3, Replaced
<1> QED BY <1>1, <1>3, <1>4, <1>5

\* The table of the constants when a new class has been stored under its name.
LEMMA StoredNew ==
  ASSUME Rows, Contents, NEW n \in Names
  PROVE  /\ storeConstant(n) \in Seq([Names -> Int])
         /\ Len(storeConstant(n)) = Len(heap) + 2
         /\ \A x \in Structs : \A m \in Names :
              storeConstant(n)[x][m]
                = IF x = SelfClass /\ m = n THEN Len(heap) + 1 ELSE constants[x][m]
         /\ \A m \in Names : /\ storeConstant(n)[Len(heap) + 1][m] = 0
                             /\ storeConstant(n)[Len(heap) + 2][m] = 0
<1> DEFINE cs == [constants EXCEPT ![SelfClass][n] = Len(heap) + 1]
<1>1. Len(heap) \in Nat /\ Len(heap) + 1 \in Int
  BY DEF Rows
<1>2. /\ cs \in Seq([Names -> Int]) /\ Len(cs) = Len(heap)
      /\ \A x \in Structs : \A m \in Names :
           cs[x][m] = IF x = SelfClass /\ m = n THEN Len(heap) + 1 ELSE constants[x][m]
  BY <1>1, Stored
<1> HIDE DEF cs
<1>3. NoConstants \in [Names -> Int] /\ \A m \in Names : NoConstants[m] = 0
  BY DEF NoConstants
<1>4. storeConstant(n) = cs \o <<NoConstants, NoConstants>>
  BY DEF storeConstant, cs
<1>5. /\ cs \o <<NoConstants, NoConstants>> \in Seq([Names -> Int])
      /\ Len(cs \o <<NoConstants, NoConstants>>) = Len(cs) + 2
      /\ \A i \in 1..Len(cs) : (cs \o <<NoConstants, NoConstants>>)[i] = cs[i]
      /\ (cs \o <<NoConstants, NoConstants>>)[Len(cs) + 1] = NoConstants
      /\ (cs \o <<NoConstants, NoConstants>>)[Len(cs) + 2] = NoConstants
  BY <1>2, <1>3, TwoAppended
<1>6. \A i \in Structs : storeConstant(n)[i] = cs[i]
  BY <1>2, <1>4, <1>5 DEF Structs
<1>7. /\ storeConstant(n) \in Seq([Names -> Int])
      /\ Len(storeConstant(n)) = Len(heap) + 2
  BY Zenon, <1>2, <1>4, <1>5
<1>8. \A x \in Structs : \A m \in Names :
        storeConstant(n)[x][m]
          = IF x = SelfClass /\ m = n THEN Len(heap) + 1 ELSE constants[x][m]
  BY Zenon, <1>2, <1>6
<1>9. \A m \in Names : /\ storeConstant(n)[Len(heap) + 1][m] = 0
                        /\ storeConstant(n)[Len(heap) + 2][m] = 0
  BY Zenon, <1>2, <1>3, <1>4, <1>5
<1> QED BY Zenon, <1>7, <1>8, <1>9

\* The table of the superclasses asked for, with a class and its metaclass.
LEMMA AskedNew ==
  ASSUME Rows, NEW v \in Int
  PROVE  /\ asked \o <<v, 0>> \in Seq(Int)
         /\ Len(asked \o <<v, 0>>) = Len(heap) + 2
         /\ \A i \in Structs : (asked \o <<v, 0>>)[i] = asked[i]
         /\ (asked \o <<v, 0>>)[Len(heap) + 1] = v
         /\ (asked \o <<v, 0>>)[Len(heap) + 2] = 0
<1>1. PICK s \in Seq(Int) : s = asked /\ Len(s) = Len(heap)
  BY DEF Rows
<1>2. /\ s \o <<v, 0>> \in Seq(Int)
      /\ Len(s \o <<v, 0>>) = Len(s) + 2
      /\ \A i \in 1..Len(s) : (s \o <<v, 0>>)[i] = s[i]
      /\ (s \o <<v, 0>>)[Len(s) + 1] = v
      /\ (s \o <<v, 0>>)[Len(s) + 2] = 0
  OBVIOUS
<1> QED BY Zenon, <1>1, <1>2 DEF Structs

\* A class is declared: what there was is kept, and the class is stored.
LEMMA GrowKeeps ==
  ASSUME IInv, NEW n \in Names, New(n), NEW a, NEW b, Newborn(a, b),
         heap' = heap \o <<a, b>>, NEW v \in Values, asked' = asked \o <<v, 0>>,
         Left', self' \in {Main} \cup UserClasses'
  PROVE  IInv'
<1> PICK L \in Nat : L = Len(heap) /\ Builtins <= L
  BY BuiltinStructs DEF IInv
<1>0. Rows /\ Pointers /\ Contents /\ Chains
  BY DEF IInv
<1>1. Pointers' /\ Chains'
  BY <1>0, GrownPointers
<1>2. /\ heap' \in Seq(RClasses) /\ Len(heap') = L + 2
      /\ Structs' = Structs \cup {L + 1, L + 2}
      /\ UserClasses' = UserClasses \cup {L + 1}
  BY <1>0, Grown
<1>3. Structs = 1..L
  BY DEF Structs
<1>4. Values \subseteq Int /\ Values' = Values \cup {L + 1}
  <2>1. Values \subseteq Int
    BY DEF Values, UserClasses, Plain, Builtins
  <2>2. Values' = Values \cup {L + 1}
    BY Zenon, <1>2 DEF Values
  <2> QED BY <2>1, <2>2
<1>5. /\ constants' \in Seq([Names -> Int]) /\ Len(constants') = L + 2
      /\ \A x \in Structs : \A m \in Names :
           constants'[x][m] = IF x = SelfClass /\ m = n THEN L + 1 ELSE constants[x][m]
      /\ \A m \in Names : constants'[L + 1][m] = 0 /\ constants'[L + 2][m] = 0
  <2>1. constants' = storeConstant(n)
    BY DEF New
  <2>2. /\ storeConstant(n) \in Seq([Names -> Int])
        /\ Len(storeConstant(n)) = Len(heap) + 2
        /\ \A x \in Structs : \A m \in Names :
             storeConstant(n)[x][m]
               = IF x = SelfClass /\ m = n THEN Len(heap) + 1 ELSE constants[x][m]
        /\ \A m \in Names : /\ storeConstant(n)[Len(heap) + 1][m] = 0
                            /\ storeConstant(n)[Len(heap) + 2][m] = 0
    BY <1>0, StoredNew
  <2> QED BY Zenon, <2>1, <2>2
<1>6. methods' \in Seq([MethodNames -> 0..MaxDefs]) /\ Len(methods') = L + 2
  <2>1. NoMethods \in [MethodNames -> 0..MaxDefs]
    BY ClassesAssumption DEF NoMethods
  <2>2. methods' = methods \o <<NoMethods, NoMethods>>
    BY DEF New
  <2> HIDE DEF NoMethods
  <2> QED BY <1>0, <2>1, <2>2, TwoAppended DEF Rows
<1>7. /\ asked' \in Seq(Int) /\ Len(asked') = L + 2
      /\ \A i \in 1..L : asked'[i] = asked[i]
      /\ asked'[L + 1] = v /\ asked'[L + 2] = 0
  <2>1. v \in Int
    BY <1>4
  <2>2. /\ asked \o <<v, 0>> \in Seq(Int)
        /\ Len(asked \o <<v, 0>>) = L + 2
        /\ \A i \in Structs : (asked \o <<v, 0>>)[i] = asked[i]
        /\ (asked \o <<v, 0>>)[L + 1] = v /\ (asked \o <<v, 0>>)[L + 2] = 0
    BY <1>0, <2>1, AskedNew
  <2> QED BY Zenon, <1>3, <2>2
<1>8. Rows'
  <2>1. Builtins <= L + 2
    BY DEF Builtins
  <2> QED BY Zenon, <1>2, <1>5, <1>6, <1>7, <2>1 DEF Rows, RClasses
<1>9. ASSUME NEW c \in Structs'
      PROVE  asked'[c] \in Values' /\ \A m \in Names : constants'[c][m] \in Values'
  <2>1. CASE c \in Structs
    <3>1. asked[c] \in Values /\ \A m \in Names : constants[c][m] \in Values
      BY <1>0, <2>1 DEF Contents
    <3> QED BY ZenonT(30), <1>3, <1>4, <1>5, <1>7, <2>1, <3>1
  <2>2. CASE c \in {L + 1, L + 2}
    <3>1. 0 \in Values
      BY DEF Values
    <3>2. asked'[c] \in {v, 0} /\ \A m \in Names : constants'[c][m] = 0
      BY Zenon, <1>5, <1>7, <2>2
    <3> QED BY Zenon, <1>4, <3>1, <3>2
  <2> QED BY Zenon, <1>2, <2>1, <2>2
<1>10. Contents'
  BY Zenon, <1>9 DEF Contents
<1> QED BY <1>1, <1>8, <1>10 DEF IInv

\* One field of a struct is set.
LEMMA FieldSet ==
  ASSUME NEW r \in RClasses, NEW k \in Nat
  PROVE  /\ [r EXCEPT !.super = k] \in RClasses /\ [r EXCEPT !.super = k].super = k
         /\ [r EXCEPT !.super = k].pseudo = r.pseudo
         /\ [r EXCEPT !.super = k].meta = r.meta
         /\ [r EXCEPT !.super = k].scope = r.scope
         /\ [r EXCEPT !.super = k].maps = r.maps
         /\ [r EXCEPT !.super = k].isModule = r.isModule
         /\ [r EXCEPT !.scope = k] \in RClasses /\ [r EXCEPT !.scope = k].scope = k
         /\ [r EXCEPT !.scope = k].pseudo = r.pseudo
         /\ [r EXCEPT !.scope = k].meta = r.meta
         /\ [r EXCEPT !.scope = k].super = r.super
         /\ [r EXCEPT !.scope = k].maps = r.maps
         /\ [r EXCEPT !.scope = k].isModule = r.isModule
BY DEF RClasses

\* There is a struct with another superclass and nothing else changed.
LEMMA SuperSet ==
  ASSUME NEW was \in RClasses, NEW k \in Nat
  PROVE  \E r \in RClasses :
           /\ r = [was EXCEPT !.super = k] /\ r.super = k /\ r.pseudo = was.pseudo
           /\ r.meta = was.meta /\ r.scope = was.scope
           /\ r.maps = was.maps /\ r.isModule = was.isModule
BY FieldSet

\* A module is mixed in: the class leads to the copy, and the copy to where the
\* class led.
IsSpliced(class, module, L) ==
  /\ heap' \in Seq(RClasses) /\ Len(heap') = L + 1
  /\ \A c \in Structs :
       /\ heap'[c].super = IF c = class THEN L + 1 ELSE heap[c].super
       /\ heap'[c].pseudo = heap[c].pseudo /\ heap'[c].meta = heap[c].meta
       /\ heap'[c].scope = heap[c].scope /\ heap'[c].maps = heap[c].maps
       /\ heap'[c].isModule = heap[c].isModule
  /\ heap'[L + 1].super = heap[class].super
  /\ heap'[L + 1].pseudo = heap[module].pseudo
  /\ heap'[L + 1].meta = heap[module].meta
  /\ heap'[L + 1].scope = heap[module].scope
  /\ heap'[L + 1].maps = module
  /\ Structs' = Structs \cup {L + 1}
  /\ Originals' = Originals /\ UserClasses' = UserClasses

\* Splice does that.
LEMMA Spliced ==
  ASSUME Rows, Pointers, NEW class \in Originals, class # Rootless,
         NEW module \in UserClasses, heap' = Splice(class, module)
  PROVE  IsSpliced(class, module, Len(heap))
<1> PICK L \in Nat : L = Len(heap) /\ Builtins <= L
  BY BuiltinStructs
<1> DEFINE copy == [heap[module] EXCEPT !.super = heap[class].super]
           one == [heap[class] EXCEPT !.super = L + 1]
           h == [heap EXCEPT ![class] = one]
<1>1. /\ heap \in Seq(RClasses) /\ module \in 1..L /\ class \in 1..L
      /\ heap[class] \in RClasses /\ heap[module] \in RClasses
      /\ heap[class].super \in Nat /\ heap[module].maps = module
  <2>1. heap \in Seq(RClasses)
    BY DEF Rows
  <2>2. module \in 1..L /\ class \in 1..L
    BY BuiltinStructs DEF Originals, Structs
  <2>3. heap[class] \in RClasses /\ heap[module] \in RClasses
    BY <2>1, <2>2
  <2>4. heap[class].super \in Nat
    BY <2>3 DEF RClasses
  <2>5. heap[module].maps = module
    BY DEF UserClasses, IsCopy
  <2> QED BY Zenon, <2>1, <2>2, <2>3, <2>4, <2>5
<1>2. /\ copy \in RClasses /\ copy.super = heap[class].super
      /\ copy.pseudo = heap[module].pseudo
      /\ copy.meta = heap[module].meta /\ copy.scope = heap[module].scope
      /\ copy.maps = module
  BY ZenonT(30), <1>1, FieldSet
<1>3. /\ one \in RClasses /\ one.super = L + 1 /\ one.pseudo = heap[class].pseudo
      /\ one.meta = heap[class].meta /\ one.scope = heap[class].scope
      /\ one.maps = heap[class].maps /\ one.isModule = heap[class].isModule
  <2>1. PICK k \in Nat : k = L + 1
    OBVIOUS
  <2> PICK was \in RClasses : was = heap[class]
    BY Zenon, <1>1
  <2>2. PICK r \in RClasses :
          /\ r = [was EXCEPT !.super = k] /\ r.super = k /\ r.pseudo = was.pseudo
          /\ r.meta = was.meta /\ r.scope = was.scope
          /\ r.maps = was.maps /\ r.isModule = was.isModule
    BY SuperSet
  <2>3. r = one
    BY Zenon, <2>1, <2>2
  <2> HIDE DEF one
  <2> QED BY Zenon, <2>1, <2>2, <2>3
<1>4. heap' = h \o <<copy>>
  BY <1>1 DEF Splice
<1> HIDE DEF copy, one
<1>5. /\ h \in Seq(RClasses) /\ Len(h) = L
      /\ \A c \in 1..L : h[c] = IF c = class THEN one ELSE heap[c]
  BY <1>1, <1>3, Replaced
<1> HIDE DEF h
<1>6. /\ heap' \in Seq(RClasses) /\ Len(heap') = L + 1
      /\ \A c \in 1..L : heap'[c] = IF c = class THEN one ELSE heap[c]
      /\ heap'[L + 1] = copy
  <2>1. /\ h \o <<copy>> \in Seq(RClasses) /\ Len(h \o <<copy>>) = Len(h) + 1
        /\ \A i \in 1..Len(h) : (h \o <<copy>>)[i] = h[i]
        /\ (h \o <<copy>>)[Len(h) + 1] = copy
    BY <1>2, <1>5, Appended
  <2> QED BY Zenon, <1>4, <1>5, <2>1
<1>7. Structs = 1..L /\ Structs' = 1..L + 1 /\ Structs' = Structs \cup {L + 1}
  <2>1. Structs = 1..L /\ Structs' = 1..L + 1
    BY <1>6 DEF Structs
  <2> QED BY <2>1
<1>8. \A c \in Structs :
        /\ heap'[c].super = IF c = class THEN L + 1 ELSE heap[c].super
        /\ heap'[c].pseudo = heap[c].pseudo /\ heap'[c].meta = heap[c].meta
        /\ heap'[c].scope = heap[c].scope /\ heap'[c].maps = heap[c].maps
        /\ heap'[c].isModule = heap[c].isModule
  BY Zenon, <1>3, <1>6, <1>7
<1>9. IsCopy(L + 1)' /\ \A c \in Structs : IsCopy(c)' <=> IsCopy(c)
  <2>1. heap'[L + 1].maps = module /\ module # L + 1
    BY <1>1, <1>2, <1>6
  <2> QED BY Zenon, <1>8, <2>1 DEF IsCopy
<1>10. Originals' = Originals
  BY Zenon, <1>7, <1>9 DEF Originals
<1>11. UserClasses' = UserClasses
  <2>1. /\ Builtins + 1..Len(heap') = (Builtins + 1..L) \cup {L + 1}
        /\ Builtins + 1..Len(heap) = Builtins + 1..L
    BY <1>6 DEF Builtins
  <2>2. Builtins + 1..L \subseteq Structs
    BY <1>7 DEF Builtins
  <2> QED BY ZenonT(30), <1>8, <1>9, <2>1, <2>2 DEF UserClasses
<1>12. heap'[L + 1] = copy
  BY Zenon, <1>6
<1>13. /\ heap'[L + 1].super = heap[class].super
       /\ heap'[L + 1].pseudo = heap[module].pseudo
       /\ heap'[L + 1].meta = heap[module].meta
       /\ heap'[L + 1].scope = heap[module].scope
       /\ heap'[L + 1].maps = module
  BY <1>2, <1>12
<1>14. /\ heap' \in Seq(RClasses) /\ Len(heap') = L + 1
       /\ Structs' = Structs \cup {L + 1}
  BY <1>6, <1>7
<1> QED BY <1>8, <1>10, <1>11, <1>13, <1>14 DEF IsSpliced

\* A class is given another scope.
LEMMA Rescoped ==
  ASSUME Rows, Pointers, NEW v \in UserClasses, NEW s \in Nat,
         heap' = [heap EXCEPT ![v].scope = s]
  PROVE  /\ heap' \in Seq(RClasses) /\ Len(heap') = Len(heap)
         /\ \A c \in Structs :
              /\ heap'[c].scope = IF c = v THEN s ELSE heap[c].scope
              /\ heap'[c].super = heap[c].super
              /\ heap'[c].pseudo = heap[c].pseudo /\ heap'[c].meta = heap[c].meta
              /\ heap'[c].maps = heap[c].maps /\ heap'[c].isModule = heap[c].isModule
         /\ Structs' = Structs /\ Originals' = Originals /\ UserClasses' = UserClasses
<1> DEFINE one == [heap[v] EXCEPT !.scope = s]
<1>1. heap \in Seq(RClasses) /\ v \in 1..Len(heap) /\ heap[v] \in RClasses
  <2>1. heap \in Seq(RClasses) /\ v \in 1..Len(heap)
    BY BuiltinStructs DEF Rows, Originals, Structs
  <2> QED BY <2>1
<1>2. /\ one \in RClasses
      /\ one.scope = s /\ one.super = heap[v].super /\ one.pseudo = heap[v].pseudo
      /\ one.meta = heap[v].meta /\ one.maps = heap[v].maps
      /\ one.isModule = heap[v].isModule
  BY Zenon, <1>1, FieldSet
<1>4. heap' = [heap EXCEPT ![v] = one]
  BY <1>1
<1> HIDE DEF one
<1>5. /\ [heap EXCEPT ![v] = one] \in Seq(RClasses)
      /\ Len([heap EXCEPT ![v] = one]) = Len(heap)
      /\ \A c \in 1..Len(heap) : [heap EXCEPT ![v] = one][c] = IF c = v THEN one ELSE heap[c]
  BY <1>1, <1>2, Replaced
<1>6. /\ heap' \in Seq(RClasses) /\ Len(heap') = Len(heap)
      /\ \A c \in Structs : heap'[c] = IF c = v THEN one ELSE heap[c]
  BY Zenon, <1>4, <1>5 DEF Structs
<1>7. \A c \in Structs :
        /\ heap'[c].scope = IF c = v THEN s ELSE heap[c].scope
        /\ heap'[c].super = heap[c].super
        /\ heap'[c].pseudo = heap[c].pseudo /\ heap'[c].meta = heap[c].meta
        /\ heap'[c].maps = heap[c].maps /\ heap'[c].isModule = heap[c].isModule
  <2>1. ASSUME NEW c \in Structs, c = v
        PROVE  /\ heap'[c].scope = s /\ heap'[c].super = heap[c].super
               /\ heap'[c].pseudo = heap[c].pseudo /\ heap'[c].meta = heap[c].meta
               /\ heap'[c].maps = heap[c].maps /\ heap'[c].isModule = heap[c].isModule
    BY Zenon, <1>2, <1>6, <2>1
  <2>2. ASSUME NEW c \in Structs, c # v PROVE heap'[c] = heap[c]
    BY Zenon, <1>6, <2>2
  <2>3. ASSUME NEW c \in Structs
        PROVE  /\ heap'[c].scope = IF c = v THEN s ELSE heap[c].scope
               /\ heap'[c].super = heap[c].super
               /\ heap'[c].pseudo = heap[c].pseudo /\ heap'[c].meta = heap[c].meta
               /\ heap'[c].maps = heap[c].maps /\ heap'[c].isModule = heap[c].isModule
    <3>1. CASE c = v
      BY Zenon, <2>1, <3>1
    <3>2. CASE c # v
      <4>1. heap'[c] = heap[c]
        BY <2>2, <3>2
      <4> QED BY <3>2, <4>1
    <3> QED BY Zenon, <3>1, <3>2
  <2> QED BY Zenon, <2>3
<1>8. Structs' = Structs
  BY Zenon, <1>6 DEF Structs
<1>9. Originals' = Originals
  BY Zenon, <1>7, <1>8 DEF Originals, IsCopy
<1>10. UserClasses' = UserClasses
  <2>1. Builtins + 1..Len(heap) \subseteq Structs
    BY BuiltinStructs DEF Builtins, Structs
  <2> QED BY ZenonT(30), <1>6, <1>7, <2>1 DEF UserClasses, IsCopy
<1> QED BY Zenon, <1>6, <1>7, <1>8, <1>9, <1>10

\* A copy of a module is put into a chain: it leads to what the class led to, and
\* no older copy leads to it.
LEMMA SplicedKeeps ==
  ASSUME IInv, NEW class \in Originals, class # Rootless,
         NEW module \in UserClasses, heap[module].isModule,
         heap' = Splice(class, module), methods' = Append(methods, NoMethods),
         constants' = Append(constants, NoConstants), asked' = Append(asked, 0),
         self' = self, Left'
  PROVE  IInv'
<1> PICK L \in Nat : L = Len(heap) /\ Builtins <= L
  BY BuiltinStructs DEF IInv
<1>0. Rows /\ Pointers /\ Contents /\ Chains
  BY DEF IInv
<1>1. /\ heap' \in Seq(RClasses) /\ Len(heap') = L + 1
      /\ \A c \in Structs :
           /\ heap'[c].super = IF c = class THEN L + 1 ELSE heap[c].super
           /\ heap'[c].pseudo = heap[c].pseudo /\ heap'[c].meta = heap[c].meta
           /\ heap'[c].scope = heap[c].scope /\ heap'[c].maps = heap[c].maps
           /\ heap'[c].isModule = heap[c].isModule
      /\ heap'[L + 1].super = heap[class].super
      /\ heap'[L + 1].pseudo = heap[module].pseudo
      /\ heap'[L + 1].meta = heap[module].meta
      /\ heap'[L + 1].scope = heap[module].scope
      /\ heap'[L + 1].maps = module
      /\ Structs' = Structs \cup {L + 1}
      /\ Originals' = Originals /\ UserClasses' = UserClasses
  <2>1. IsSpliced(class, module, L)
    BY <1>0, Spliced
  <2> QED BY <2>1 DEF IsSpliced
<1>2. /\ Structs = 1..L /\ Originals \subseteq Structs /\ UserClasses \subseteq Structs
      /\ module \in 1..L /\ class \in 1..L
  BY <1>0, BuiltinStructs DEF Originals, Structs
<1>3. heap[class].super \in Structs
  BY <1>0, <1>2 DEF Pointers
<1>4. ASSUME NEW c \in Structs
      PROVE  /\ IF c = Rootless THEN heap'[c].super = 0 ELSE heap'[c].super \in Structs'
             /\ {heap'[c].pseudo, heap'[c].meta} \subseteq {0} \cup Structs'
             /\ heap'[c].scope \in {0} \cup UserClasses'
             /\ heap'[c].maps \in Originals' /\ heap'[c].maps <= c
             /\ IsCopy(c)' => heap'[heap'[c].maps].isModule /\ Builtins < c
  <2>1. /\ IF c = Rootless THEN heap[c].super = 0 ELSE heap[c].super \in Structs
        /\ {heap[c].pseudo, heap[c].meta} \subseteq {0} \cup Structs
        /\ heap[c].scope \in {0} \cup UserClasses
        /\ heap[c].maps \in Originals /\ heap[c].maps <= c
        /\ IsCopy(c) => heap[heap[c].maps].isModule /\ Builtins < c
    BY Zenon, <1>0 DEF Pointers
  <2>2. heap[c].maps \in Structs /\ (IsCopy(c)' <=> IsCopy(c))
    BY Zenon, <1>1, <1>2, <2>1 DEF IsCopy
  <2>3. IsCopy(c)' => heap'[heap'[c].maps].isModule /\ Builtins < c
    BY Zenon, <1>1, <2>1, <2>2
  <2>4. IF c = Rootless THEN heap'[c].super = 0 ELSE heap'[c].super \in Structs'
    <3>1. CASE c = class
      BY <1>1, <3>1
    <3>2. CASE c # class
      BY <1>1, <2>1, <3>2
    <3> QED BY <3>1, <3>2
  <2>5. /\ {heap'[c].pseudo, heap'[c].meta} \subseteq {0} \cup Structs'
        /\ heap'[c].scope \in {0} \cup UserClasses'
        /\ heap'[c].maps \in Originals' /\ heap'[c].maps <= c
    <3>1. /\ heap'[c].pseudo = heap[c].pseudo /\ heap'[c].meta = heap[c].meta
          /\ heap'[c].scope = heap[c].scope /\ heap'[c].maps = heap[c].maps
          /\ Structs \subseteq Structs' /\ UserClasses' = UserClasses /\ Originals' = Originals
      BY Zenon, <1>1
    <3>2. {heap'[c].pseudo, heap'[c].meta} \subseteq {0} \cup Structs'
      BY Zenon, <2>1, <3>1
    <3>3. /\ heap'[c].scope \in {0} \cup UserClasses'
          /\ heap'[c].maps \in Originals' /\ heap'[c].maps <= c
      BY Zenon, <2>1, <3>1
    <3> QED BY Zenon, <3>2, <3>3
  <2> QED BY Zenon, <2>3, <2>4, <2>5
<1>5. /\ L + 1 # Rootless /\ heap'[L + 1].super \in Structs'
      /\ {heap'[L + 1].pseudo, heap'[L + 1].meta} \subseteq {0} \cup Structs'
      /\ heap'[L + 1].scope \in {0} \cup UserClasses'
      /\ heap'[L + 1].maps \in Originals' /\ heap'[L + 1].maps <= L + 1
      /\ heap'[heap'[L + 1].maps].isModule /\ Builtins < L + 1
  <2>1. /\ {heap[module].pseudo, heap[module].meta} \subseteq {0} \cup Structs
        /\ heap[module].scope \in {0} \cup UserClasses
    BY Zenon, <1>0, <1>2 DEF Pointers
  <2>2. module \in Originals /\ module <= L + 1 /\ L + 1 # Rootless /\ Builtins < L + 1
    BY <1>0, <1>2, BuiltinStructs DEF Rootless, Builtins
  <2>3. heap'[L + 1].super \in Structs'
    BY Zenon, <1>1, <1>3
  <2>4. {heap'[L + 1].pseudo, heap'[L + 1].meta} \subseteq {0} \cup Structs'
        /\ heap'[L + 1].scope \in {0} \cup UserClasses'
    <3>1. /\ heap'[L + 1].pseudo = heap[module].pseudo
          /\ heap'[L + 1].meta = heap[module].meta
          /\ heap'[L + 1].scope = heap[module].scope
          /\ Structs \subseteq Structs' /\ UserClasses' = UserClasses
      BY Zenon, <1>1
    <3> QED BY Zenon, <2>1, <3>1
  <2>5. heap'[heap'[L + 1].maps].isModule
    BY Zenon, <1>1, <1>2
  <2> QED BY Zenon, <1>1, <2>2, <2>3, <2>4, <2>5
<1>6. ASSUME NEW c \in UserClasses'
      PROVE  heap'[c].meta = c + 1 /\ c + 1 \in Originals' /\ heap'[c + 1].meta = 0
  <2>1. /\ heap[c].meta = c + 1 /\ c + 1 \in Originals /\ heap[c + 1].meta = 0
        /\ c \in Structs
    BY <1>0, <1>1, <1>2 DEF Pointers
  <2> QED BY Zenon, <1>1, <1>2, <2>1
<1>7. Pointers'
  <2>1. ASSUME NEW c \in Structs'
        PROVE  /\ IF c = Rootless THEN heap'[c].super = 0 ELSE heap'[c].super \in Structs'
               /\ {heap'[c].pseudo, heap'[c].meta} \subseteq {0} \cup Structs'
               /\ heap'[c].scope \in {0} \cup UserClasses'
               /\ heap'[c].maps \in Originals' /\ heap'[c].maps <= c
               /\ IsCopy(c)' => heap'[heap'[c].maps].isModule /\ Builtins < c
    <3>1. CASE c \in Structs
      BY Zenon, <3>1, <1>4
    <3>2. CASE c = L + 1
      BY Zenon, <3>2, <1>5
    <3> QED BY Zenon, <1>1, <3>1, <3>2
  <2> QED BY Zenon, <2>1, <1>6 DEF Pointers
<1>8. ASSUME NEW c \in Structs', heap'[c].maps # c,
             heap'[heap'[c].super].maps # heap'[c].super
      PROVE  heap'[c].super < c
  <2>1. CASE c \in Structs
    <3>1. IsCopy(c) /\ c # class /\ heap'[c].super = heap[c].super
      BY <1>1, <1>8, <2>1 DEF IsCopy, Originals
    <3>2. heap[c].super \in Structs
      BY <1>0, <2>1, <3>1 DEF Pointers, Rootless, Builtins
    <3>3. IsCopy(heap[c].super)
      BY <1>1, <1>8, <3>1, <3>2 DEF IsCopy
    <3> QED BY <1>0, <2>1, <3>1, <3>3 DEF Chains
  <2>2. CASE c = L + 1
    BY <1>1, <1>2, <1>3, <2>2
  <2> QED BY <1>1, <2>1, <2>2
<1>9. Chains'
  BY Zenon, <1>8 DEF Chains, IsCopy
<1>10. /\ constants' \in Seq([Names -> Int]) /\ Len(constants') = L + 1
       /\ \A i \in 1..L : constants'[i] = constants[i]
       /\ constants'[L + 1] = NoConstants
  <2>1. NoConstants \in [Names -> Int]
    BY DEF NoConstants
  <2>2. constants \in Seq([Names -> Int]) /\ Len(constants) = L
    BY <1>0 DEF Rows
  <2> HIDE DEF NoConstants
  <2> QED BY <2>1, <2>2, Appended
<1>11. methods' \in Seq([MethodNames -> 0..MaxDefs]) /\ Len(methods') = L + 1
  <2>1. NoMethods \in [MethodNames -> 0..MaxDefs]
    BY ClassesAssumption DEF NoMethods
  <2>2. methods \in Seq([MethodNames -> 0..MaxDefs]) /\ Len(methods) = L
    BY <1>0 DEF Rows
  <2> HIDE DEF NoMethods
  <2> QED BY <2>1, <2>2, Appended
<1>12. /\ asked' \in Seq(Int) /\ Len(asked') = L + 1
       /\ \A i \in 1..L : asked'[i] = asked[i]
       /\ asked'[L + 1] = 0
  <2>1. PICK s \in Seq(Int) : s = asked /\ Len(s) = L
    BY <1>0 DEF Rows
  <2>2. /\ Append(s, 0) \in Seq(Int) /\ Len(Append(s, 0)) = L + 1
        /\ \A i \in 1..L : Append(s, 0)[i] = s[i]
        /\ Append(s, 0)[L + 1] = 0
    BY <2>1
  <2> QED BY Zenon, <2>1, <2>2
<1>13. Rows'
  <2>1. Builtins <= L + 1
    BY DEF Builtins
  <2> QED BY Zenon, <1>1, <1>10, <1>11, <1>12, <2>1 DEF Rows, RClasses
<1>14. Values' = Values
  BY Zenon, <1>1 DEF Values
<1>15. ASSUME NEW c \in Structs'
       PROVE  asked'[c] \in Values' /\ \A m \in Names : constants'[c][m] \in Values'
  <2>1. CASE c \in Structs
    BY Zenon, <1>0, <1>2, <1>10, <1>12, <1>14, <2>1 DEF Contents
  <2>2. CASE c = L + 1
    <3>1. 0 \in Values /\ \A m \in Names : NoConstants[m] = 0
      BY Zenon DEF Values, NoConstants
    <3> QED BY Zenon, <1>10, <1>12, <1>14, <2>2, <3>1
  <2> QED BY Zenon, <1>1, <2>1, <2>2
<1>16. Contents'
  <2>1. self' \in {Main} \cup UserClasses'
    BY <1>0, <1>1 DEF Contents
  <2> QED BY Zenon, <1>15, <2>1 DEF Contents
<1> QED BY <1>7, <1>9, <1>13, <1>16 DEF IInv

\* A constant is assigned, and the class that is its value is given the scope
\* of the assignment.
LEMMA AssignedKeeps ==
  ASSUME IInv, NEW n \in Names, NEW value \in Values, SetConstant(n, value)
  PROVE  IInv'
<1>0. Rows /\ Pointers /\ Contents /\ Chains
  BY DEF IInv
<1>1. /\ heap' \in Seq(RClasses) /\ Len(heap') = Len(heap)
      /\ \A c \in Structs :
           /\ heap'[c].scope \in {0} \cup UserClasses
           /\ heap'[c].super = heap[c].super
           /\ heap'[c].pseudo = heap[c].pseudo /\ heap'[c].meta = heap[c].meta
           /\ heap'[c].maps = heap[c].maps /\ heap'[c].isModule = heap[c].isModule
      /\ Structs' = Structs /\ Originals' = Originals /\ UserClasses' = UserClasses
  <2>1. CASE value \in Structs /\ self # Main
    <3>1. value \in UserClasses /\ self \in UserClasses /\ self \in Nat
      BY <1>0, <2>1, BuiltinStructs
         DEF Values, Contents, Structs, Plain, UserClasses, Builtins
    <3>2. heap' = [heap EXCEPT ![value].scope = self]
      BY Zenon, <2>1 DEF SetConstant
    <3>3. /\ heap' \in Seq(RClasses) /\ Len(heap') = Len(heap)
          /\ \A c \in Structs :
               /\ heap'[c].scope = IF c = value THEN self ELSE heap[c].scope
               /\ heap'[c].super = heap[c].super
               /\ heap'[c].pseudo = heap[c].pseudo /\ heap'[c].meta = heap[c].meta
               /\ heap'[c].maps = heap[c].maps /\ heap'[c].isModule = heap[c].isModule
          /\ Structs' = Structs /\ Originals' = Originals /\ UserClasses' = UserClasses
      BY Zenon, <1>0, <3>1, <3>2, Rescoped
    <3>4. ASSUME NEW c \in Structs PROVE heap'[c].scope \in {0} \cup UserClasses
      <4>1. heap[c].scope \in {0} \cup UserClasses
        BY <1>0 DEF Pointers
      <4> QED BY Zenon, <3>1, <3>3, <4>1
    <3> QED BY Zenon, <3>3, <3>4
  <2>2. CASE ~(value \in Structs /\ self # Main)
    <3>1. heap' = heap
      BY Zenon, <2>2 DEF SetConstant
    <3>2. Structs' = Structs /\ Originals' = Originals /\ UserClasses' = UserClasses
      BY Zenon, <3>1 DEF Structs, Originals, UserClasses, IsCopy
    <3>3. heap' \in Seq(RClasses) /\ \A c \in Structs : heap[c].scope \in {0} \cup UserClasses
      BY Zenon, <1>0, <3>1 DEF Rows, Pointers
    <3> QED BY Zenon, <3>1, <3>2, <3>3
  <2> QED BY Zenon, <2>1, <2>2
<1>2. \A c \in Structs : IsCopy(c)' <=> IsCopy(c)
  BY Zenon, <1>1 DEF IsCopy
<1>3. Pointers'
  <2>1. ASSUME NEW c \in Structs'
        PROVE  /\ IF c = Rootless THEN heap'[c].super = 0 ELSE heap'[c].super \in Structs'
               /\ {heap'[c].pseudo, heap'[c].meta} \subseteq {0} \cup Structs'
               /\ heap'[c].scope \in {0} \cup UserClasses'
               /\ heap'[c].maps \in Originals' /\ heap'[c].maps <= c
               /\ IsCopy(c)' => heap'[heap'[c].maps].isModule /\ Builtins < c
    <3>1. /\ IF c = Rootless THEN heap[c].super = 0 ELSE heap[c].super \in Structs
          /\ {heap[c].pseudo, heap[c].meta} \subseteq {0} \cup Structs
          /\ heap[c].maps \in Originals /\ heap[c].maps <= c
          /\ IsCopy(c) => heap[heap[c].maps].isModule /\ Builtins < c
          /\ c \in Structs /\ heap[c].maps \in Structs
      BY Zenon, <1>0, <1>1 DEF Pointers, Originals
    <3>2. IsCopy(c)' => heap'[heap'[c].maps].isModule /\ Builtins < c
      BY Zenon, <1>1, <1>2, <3>1
    <3>3. /\ heap'[c].super = heap[c].super /\ heap'[c].pseudo = heap[c].pseudo
          /\ heap'[c].meta = heap[c].meta /\ heap'[c].maps = heap[c].maps
          /\ heap'[c].scope \in {0} \cup UserClasses'
          /\ Structs' = Structs /\ Originals' = Originals
      BY Zenon, <1>1, <3>1
    <3>4. IF c = Rootless THEN heap'[c].super = 0 ELSE heap'[c].super \in Structs'
      BY Zenon, <3>1, <3>3
    <3>5. {heap'[c].pseudo, heap'[c].meta} \subseteq {0} \cup Structs'
      BY Zenon, <3>1, <3>3
    <3> QED BY Zenon, <3>1, <3>2, <3>3, <3>4, <3>5
  <2>2. ASSUME NEW c \in UserClasses'
        PROVE  heap'[c].meta = c + 1 /\ c + 1 \in Originals' /\ heap'[c + 1].meta = 0
    <3>1. /\ heap[c].meta = c + 1 /\ c + 1 \in Originals /\ heap[c + 1].meta = 0
          /\ c \in Structs /\ c + 1 \in Structs
      BY <1>0, <1>1, BuiltinStructs DEF Pointers, Originals
    <3> QED BY Zenon, <1>1, <3>1
  <2> QED BY Zenon, <2>1, <2>2 DEF Pointers
<1>4. Chains'
  <2>1. ASSUME NEW c \in Structs', IsCopy(c)', heap'[heap'[c].super].maps # heap'[c].super
        PROVE  heap'[c].super < c
    <3>1. c \in Structs /\ IsCopy(c) /\ heap'[c].super = heap[c].super
      BY Zenon, <1>1, <1>2, <2>1
    <3>2. heap[c].super \in Structs
      BY <1>0, <3>1 DEF Pointers, Rootless, Builtins
    <3>3. IsCopy(heap[c].super)
      BY Zenon, <1>1, <2>1, <3>1, <3>2 DEF IsCopy
    <3> QED BY <1>0, <3>1, <3>3 DEF Chains
  <2> QED BY Zenon, <2>1 DEF Chains, IsCopy
<1>5. value \in Int /\ Values' = Values
  <2>1. value \in Int
    BY DEF Values, UserClasses, Plain, Builtins
  <2> QED BY Zenon, <1>1, <2>1 DEF Values
<1>6. /\ constants' \in Seq([Names -> Int]) /\ Len(constants') = Len(heap)
      /\ \A x \in Structs : \A m \in Names :
           constants'[x][m] = IF x = SelfClass /\ m = n THEN value ELSE constants[x][m]
  <2>1. constants' = [constants EXCEPT ![SelfClass][n] = value]
    BY DEF SetConstant
  <2>2. /\ [constants EXCEPT ![SelfClass][n] = value] \in Seq([Names -> Int])
        /\ Len([constants EXCEPT ![SelfClass][n] = value]) = Len(heap)
        /\ \A x \in Structs : \A m \in Names :
             [constants EXCEPT ![SelfClass][n] = value][x][m]
               = IF x = SelfClass /\ m = n THEN value ELSE constants[x][m]
    BY <1>0, <1>5, Stored
  <2> QED BY Zenon, <2>1, <2>2
<1>7. UNCHANGED <<methods, asked, self, stack, open>>
  BY DEF SetConstant
<1>8. Left'
  BY Zenon, <1>1, <1>7 DEF IInv, Left
<1>9. Rows'
  BY Zenon, <1>0, <1>1, <1>6, <1>7 DEF Rows, RClasses
<1>10. Contents'
  <2>1. ASSUME NEW c \in Structs' PROVE asked'[c] \in Values'
    BY Zenon, <1>0, <1>1, <1>5, <1>7 DEF Contents
  <2>2. ASSUME NEW c \in Structs', NEW m \in Names PROVE constants'[c][m] \in Values'
    <3>1. c \in Structs /\ constants[c][m] \in Values
      BY Zenon, <1>0, <1>1 DEF Contents
    <3> QED BY Zenon, <1>5, <1>6, <3>1
  <2>3. self' \in {Main} \cup UserClasses'
    BY Zenon, <1>0, <1>1, <1>7 DEF Contents
  <2> QED BY Zenon, <2>1, <2>2, <2>3 DEF Contents
<1> QED BY <1>3, <1>4, <1>8, <1>9, <1>10 DEF IInv

\* The statements that leave the structs and the tables of constants alone.
LEMMA TablesKept ==
  ASSUME IInv, UNCHANGED <<heap, constants, asked>>,
         methods' \in Seq([MethodNames -> 0..MaxDefs]), Len(methods') = Len(methods),
         self' \in {Main} \cup UserClasses, Left'
  PROVE  IInv'
<1>1. UserClasses' = UserClasses /\ Originals' = Originals /\ Structs' = Structs
  BY Zenon DEF UserClasses, Originals, Structs, IsCopy
<1>2. Rows'
  BY DEF IInv, Rows, RClasses
<1>3. Pointers'
  BY Zenon, <1>1 DEF IInv, Pointers, IsCopy
<1>4. Contents'
  BY Zenon, <1>1 DEF IInv, Contents, Values
<1>5. Chains'
  BY Zenon, <1>1 DEF IInv, Chains, IsCopy
<1> QED BY <1>2, <1>3, <1>4, <1>5 DEF IInv

\* What is on the data stack stays what it may be when there are more structs.
LEMMA LeftGrows ==
  ASSUME NEW S, NEW T, S \subseteq T, NEW s \in Seq(S)
  PROVE  s \in Seq(T)
OBVIOUS

\* A class statement leaves what it may on the data stack, and counts it.
LEMMA Entered ==
  ASSUME IInv, Originals \subseteq Originals', NEW c \in UserClasses', NEW left,
         \/ left = <<>>
         \/ left = <<self>> /\ Len(stack) < MaxStack,
         Enter(c, left)
  PROVE  Left' /\ self' = c
<1>1. PICK S : S = {Main} \cup Originals'
  OBVIOUS
<1>2. /\ stack \in Seq(S) /\ Len(stack) <= MaxStack /\ open \in 0..Len(stack)
      /\ MaxStack \in Nat
  BY Zenon, <1>1, LeftGrows, ClassesAssumption DEF IInv, Left
<1>3. self \in S
  <2>1. UserClasses \subseteq Originals
    BY BuiltinStructs DEF IInv
  <2> QED BY <1>1, <2>1 DEF IInv, Contents
<1>4. stack' = stack \o left /\ self' = c /\ open' = open + Len(left)
  BY DEF Enter
<1>5. c # Main
  BY DEF UserClasses, Main, Builtins
<1>6. /\ stack \o left \in Seq(S) /\ Len(stack \o left) <= MaxStack
      /\ open + Len(left) \in 0..Len(stack \o left)
  <2>1. CASE left = <<>>
    BY <1>2, <2>1
  <2>2. CASE left = <<self>> /\ Len(stack) < MaxStack
    <3>1. stack \o <<self>> \in Seq(S) /\ Len(stack \o <<self>>) = Len(stack) + 1
      BY <1>2, <1>3, Appended
    <3>2. Len(<<self>>) = 1
      OBVIOUS
    <3> QED BY <1>2, <2>2, <3>1, <3>2
  <2> QED BY <2>1, <2>2
<1>7. stack' \in Seq({Main} \cup Originals') /\ Len(stack') <= MaxStack
  BY Zenon, <1>1, <1>4, <1>6
<1>8. open' \in 0..Len(stack') /\ (self' = Main => open' = 0)
  BY Zenon, <1>4, <1>5, <1>6
<1> QED BY Zenon, <1>4, <1>7, <1>8 DEF Left

\* A class statement opens a class that is there.
LEMMA ReopenKeeps ==
  ASSUME IInv, NEW n \in Names, Reopen(n)
  PROVE  IInv'
<1> DEFINE class == lookupConstantUnderAllScope(constants, SelfClass, n)
<1>1. class \in Values
  <2>1. \A x \in Structs : \A m \in Names : constants[x][m] \in Values
    BY DEF IInv, Contents
  <2>2. SelfClass \in Structs /\ Rows /\ Pointers
    BY Own DEF IInv
  <2> QED BY Zenon, <2>1, <2>2, ScopesReturn
<1>2. class \in UserClasses
  BY <1>1 DEF Reopen, Values, Structs, Plain
<1>3. PICK left : /\ left = <<>> \/ (left = <<self>> /\ Len(stack) < MaxStack)
                  /\ Enter(class, left)
  BY Zenon DEF Reopen
<1> HIDE DEF class
<1>4. UNCHANGED <<heap, methods, constants, asked>>
  BY DEF Reopen, tables
<1>5. Left' /\ self' = class
  <2>1. Originals' = Originals /\ UserClasses' = UserClasses
    BY Zenon, <1>4 DEF UserClasses, Originals, Structs, IsCopy
  <2> QED BY <1>2, <1>3, <2>1, Entered
<1>6. /\ methods' \in Seq([MethodNames -> 0..MaxDefs]) /\ Len(methods') = Len(methods)
  BY <1>4 DEF IInv, Rows
<1> QED BY <1>2, <1>4, <1>5, <1>6, TablesKept

\* self, its metaclass and their tables are among the structs.
LEMMA Target ==
  ASSUME IInv, NEW class, class = SelfClass \/ (self # Main /\ class = heap[self].meta)
  PROVE  class \in Originals /\ class # Rootless
<1>1. Rows /\ Pointers /\ Contents
  BY DEF IInv
<1>2. SelfClass \in {Object} \cup UserClasses
  BY <1>1 DEF Contents, SelfClass, Main
<1>3. ASSUME NEW c \in UserClasses
      PROVE  c \in Originals /\ c # Rootless /\ heap[c].meta \in Originals
             /\ heap[c].meta # Rootless
  BY <1>1 DEF Pointers, UserClasses, Originals, Structs, Rootless, Builtins
<1>4. Object \in Originals /\ Object # Rootless
  BY <1>1, BuiltinStructs DEF Object, Rootless, Builtins
<1>5. self # Main => self \in UserClasses
  BY <1>1 DEF Contents
<1> QED BY Zenon, <1>2, <1>3, <1>4, <1>5

\* A method is defined: only the table of the methods has changed.
LEMMA DefKeeps ==
  ASSUME IInv, NEW n \in MethodNames, NEW class \in Originals, Def(class, n)
  PROVE  IInv'
<1>1. PICK k \in 1..MaxDefs : methods' = [methods EXCEPT ![heap[class].maps][n] = k]
  BY DEF Def
<1>2. heap[class].maps \in 1..Len(methods)
  BY DEF IInv, Rows, Pointers, Originals, Structs
<1>3. methods \in Seq([MethodNames -> 0..MaxDefs]) /\ k \in 0..MaxDefs
  BY ClassesAssumption DEF IInv, Rows
<1>4. PICK i \in 1..Len(methods) : i = heap[class].maps
  BY <1>2
<1>5. PICK row : row = [methods[i] EXCEPT ![n] = k]
  OBVIOUS
<1>6. row \in [MethodNames -> 0..MaxDefs]
  <2>1. methods[i] \in [MethodNames -> 0..MaxDefs]
    BY <1>3
  <2> QED BY <1>3, <1>5, <2>1
<1>7. methods' = [methods EXCEPT ![i] = row]
  BY <1>1, <1>4, <1>5
<1>8. methods' \in Seq([MethodNames -> 0..MaxDefs]) /\ Len(methods') = Len(methods)
  BY <1>3, <1>6, <1>7, Replaced
<1>9. UNCHANGED <<heap, constants, asked, self, stack, open>>
  BY DEF Def
<1>10. self' \in {Main} \cup UserClasses /\ Left'
  BY Zenon, <1>9 DEF IInv, Contents, Left, Originals, Structs, IsCopy
<1> QED BY <1>8, <1>9, <1>10, TablesKept

\* A body or a command ends: only self and the data stack have changed.
LEMMA LeaveKeeps ==
  ASSUME IInv, EndOfBody \/ NextCommand
  PROVE  IInv'
<1>1. UNCHANGED <<heap, methods, constants, asked>> /\ self' = Main
  BY DEF EndOfBody, NextCommand, tables
<1>2. Left'
  <2>1. Originals' = Originals
    BY Zenon, <1>1 DEF Originals, Structs, IsCopy
  <2>2. PICK S : S = {Main} \cup Originals
    OBVIOUS
  <2>3. /\ stack \in Seq(S) /\ Len(stack) <= MaxStack /\ open \in 0..Len(stack)
        /\ MaxStack \in Nat
    BY Zenon, <2>2, ClassesAssumption DEF IInv, Left
  <2>4. open' = 0
    BY DEF EndOfBody, NextCommand
  <2>5. stack' \in Seq(S) /\ Len(stack') <= MaxStack
    <3>1. CASE EndOfBody
      <4>1. stack' = SubSeq(stack, 1, Len(stack) - open)
        BY <3>1 DEF EndOfBody
      <4> QED BY <2>3, <4>1
    <3>2. CASE NextCommand
      BY <2>3, <3>2 DEF NextCommand
    <3> QED BY <3>1, <3>2
  <2>6. 0 \in 0..Len(stack')
    BY <2>5
  <2> QED BY Zenon, <2>1, <2>2, <2>4, <2>5, <2>6 DEF Left
<1>3. /\ methods' \in Seq([MethodNames -> 0..MaxDefs]) /\ Len(methods') = Len(methods)
  BY <1>1 DEF IInv, Rows
<1> QED BY <1>1, <1>2, <1>3, TablesKept

\* include and extend, whether or not they find the module mixed in already.
LEMMA MixInKeeps ==
  ASSUME IInv, NEW class \in Originals, class # Rootless, NEW module \in Values,
         MixIn(class, module)
  PROVE  IInv'
<1>1. module \in UserClasses /\ heap[module].isModule
  BY DEF MixIn, Values, Structs, Plain
<1>2. self' = self /\ open' = open /\ stack' = Append(stack, class) /\ Len(stack) < MaxStack
  BY DEF MixIn
<1>3. ASSUME Originals' = Originals PROVE Left'
  <2>1. PICK S : S = {Main} \cup Originals
    OBVIOUS
  <2>2. /\ stack \in Seq(S) /\ open \in 0..Len(stack) /\ (self = Main => open = 0)
        /\ MaxStack \in Nat /\ class \in S
    BY Zenon, <2>1, ClassesAssumption DEF IInv, Left
  <2>3. stack' \in Seq(S) /\ Len(stack') = Len(stack) + 1
    BY <1>2, <2>2, Appended
  <2>4. Len(stack') <= MaxStack /\ open \in 0..Len(stack')
    BY <1>2, <2>2, <2>3
  <2> QED BY Zenon, <1>2, <1>3, <2>1, <2>2, <2>3, <2>4 DEF Left
<1>4. CASE UNCHANGED <<heap, methods, constants, asked>>
  <2>1. Originals' = Originals
    BY Zenon, <1>4 DEF Originals, Structs, IsCopy
  <2>2. /\ self' \in {Main} \cup UserClasses
        /\ methods' \in Seq([MethodNames -> 0..MaxDefs]) /\ Len(methods') = Len(methods)
    BY <1>2, <1>4 DEF IInv, Rows, Contents
  <2> QED BY <1>3, <1>4, <2>1, <2>2, TablesKept
<1>5. CASE /\ heap' = Splice(class, module) /\ methods' = Append(methods, NoMethods)
           /\ constants' = Append(constants, NoConstants) /\ asked' = Append(asked, 0)
  <2>1. IsSpliced(class, module, Len(heap))
    BY <1>1, <1>5, Spliced DEF IInv
  <2>2. Originals' = Originals
    BY <2>1 DEF IsSpliced
  <2> QED BY <1>1, <1>2, <1>3, <1>5, <2>2, SplicedKeeps
<1> QED BY <1>4, <1>5 DEF MixIn, tables

\* class N and module N, for a name that is not to be found.
LEMMA DefineClassKeeps ==
  ASSUME IInv, NEW n \in Names, DefineClass(n)
  PROVE  IInv'
<1>0. Rows /\ Pointers /\ Contents
  BY DEF IInv
<1>1. PICK a, b : Newborn(a, b) /\ heap' = heap \o <<a, b>>
  <2>1. /\ Newborn(InitClass(n)[1], InitClass(n)[2])
        /\ Newborn(InitModule(n)[1], InitModule(n)[2])
    BY <1>0, InitsAreNewborn
  <2>2. /\ InitClass(n) = <<InitClass(n)[1], InitClass(n)[2]>>
        /\ InitModule(n) = <<InitModule(n)[1], InitModule(n)[2]>>
    BY DEF InitClass, InitModule
  <2>3. heap' = heap \o InitClass(n) \/ heap' = heap \o InitModule(n)
    BY Zenon DEF DefineClass
  <2> QED BY Zenon, <2>1, <2>2, <2>3
<1>2. New(n) /\ asked' = asked \o <<0, 0>> /\ Enter(Len(heap) + 1, <<>>)
  BY DEF DefineClass
<1>3. /\ UserClasses' = UserClasses \cup {Len(heap) + 1}
      /\ Originals' = Originals \cup {Len(heap) + 1, Len(heap) + 2}
  BY Zenon, <1>0, <1>1, Grown
<1>4. Left' /\ self' = Len(heap) + 1
  BY <1>2, <1>3, Entered
<1>5. 0 \in Values /\ self' \in {Main} \cup UserClasses'
  BY Zenon, <1>3, <1>4 DEF Values
<1> QED BY <1>1, <1>2, <1>4, <1>5, GrowKeeps

\* The values of constants, before and after a class is stored.
LEMMA ValuesFound ==
  ASSUME IInv, NEW s \in Names, NEW top
  PROVE  /\ lookupConstant(constants, top, s) \in Values
         /\ \A n \in Names : lookupConstant(storeConstant(n), top, s)
                               \in Values \cup {Len(heap) + 1}
<1>0. Rows /\ Pointers /\ Contents
  BY DEF IInv
<1>1. lookupConstant(constants, top, s) \in Values
  <2>1. \A x \in Structs : \A m \in Names : constants[x][m] \in Values
    BY <1>0 DEF Contents
  <2> QED BY Zenon, <1>0, <2>1, LookupReturns
<1>2. ASSUME NEW n \in Names
      PROVE  lookupConstant(storeConstant(n), top, s) \in Values \cup {Len(heap) + 1}
  <2> DEFINE V == Values \cup {Len(heap) + 1}
  <2>1. ASSUME NEW x \in Structs, NEW m \in Names PROVE storeConstant(n)[x][m] \in V
    <3>1. constants[x][m] \in Values
      BY <1>0 DEF Contents
    <3>2. storeConstant(n)[x][m]
            = IF x = SelfClass /\ m = n THEN Len(heap) + 1 ELSE constants[x][m]
      BY <1>0, StoredNew
    <3> QED BY Zenon, <3>1, <3>2
  <2> HIDE DEF V
  <2>2. lookupConstant(storeConstant(n), top, s) \in V
    BY Zenon, <1>0, <2>1, LookupReturns
  <2> QED BY <2>2 DEF V
<1> QED BY <1>1, <1>2

\* Whatever its superclass turns out to be, class N < S adds such a pair.
LEMMA SubclassBorn ==
  ASSUME IInv, NEW n \in Names, NEW s \in Names, DefineSubclass(n, s)
  PROVE  \E a, b : Newborn(a, b) /\ heap' = heap \o <<a, b>>
<1>0. Rows /\ Pointers /\ Contents
  BY DEF IInv
<1> DEFINE value == lookupConstant(constants, self, s)
           class == Len(heap) + 1
           super == lookupConstant(constants', value, s)
           accepted == super = class \/ (super \in Structs /\ ~heap[super].isModule)
<1>1. \/ accepted /\ heap' = heap \o inherits(InitClass(n), class, super)
      \/ heap' = heap \o InitClass(n)
  BY Zenon DEF DefineSubclass
<1>2. super \in Values \cup {class}
  <2>1. constants' = storeConstant(n)
    BY DEF DefineSubclass, New
  <2> QED BY Zenon, <2>1, ValuesFound
<1> PICK a, b : a = InitClass(n)[1] /\ b = InitClass(n)[2]
  OBVIOUS
<1>3. Newborn(a, b) /\ InitClass(n) = <<a, b>>
  <2>1. InitClass(n) = <<InitClass(n)[1], InitClass(n)[2]>>
    BY DEF InitClass
  <2> QED BY Zenon, <1>0, <2>1, InitsAreNewborn
<1> HIDE DEF value, super
<1>4. CASE accepted /\ heap' = heap \o inherits(InitClass(n), class, super)
  <2>1. super \in UserClasses \cup {Len(heap) + 1}
    BY <1>2, <1>4 DEF Values, Structs, Plain
  <2>2. Newborn(inherits(<<a, b>>, Len(heap) + 1, super)[1],
                inherits(<<a, b>>, Len(heap) + 1, super)[2])
    BY <1>0, <1>3, <2>1, InheritsIsNewborn
  <2>3. inherits(<<a, b>>, class, super)
          = <<inherits(<<a, b>>, class, super)[1], inherits(<<a, b>>, class, super)[2]>>
    BY DEF inherits
  <2> QED BY Zenon, <1>3, <1>4, <2>2, <2>3
<1> QED BY Zenon, <1>1, <1>3, <1>4

\* class N < S, whether or not S turns out to be a class.
LEMMA DefineSubclassKeeps ==
  ASSUME IInv, NEW n \in Names, NEW s \in Names, DefineSubclass(n, s)
  PROVE  IInv'
<1>0. Rows /\ Pointers /\ Contents
  BY DEF IInv
<1> DEFINE value == lookupConstant(constants, self, s)
           class == Len(heap) + 1
           super == lookupConstant(constants', value, s)
           accepted == \/ super = class
                       \/ super \in Structs /\ ~heap[super].isModule
<1>1. /\ New(n) /\ Len(stack) < MaxStack
      /\ \/ /\ accepted
            /\ heap' = heap \o inherits(InitClass(n), class, super)
            /\ asked' = asked \o <<value, 0>>
            /\ Enter(class, <<self>>)
         \/ /\ ~accepted
            /\ heap' = heap \o InitClass(n)
            /\ asked' = asked \o <<0, 0>>
            /\ self' = Main /\ stack' = <<>> /\ open' = 0
  BY Zenon DEF DefineSubclass
<1>2. value \in Values /\ super \in Values \cup {Len(heap) + 1}
  <2>1. constants' = storeConstant(n)
    BY <1>1 DEF New
  <2> QED BY Zenon, <2>1, ValuesFound
<1> PICK a, b : a = InitClass(n)[1] /\ b = InitClass(n)[2]
  OBVIOUS
<1>3. Newborn(a, b) /\ InitClass(n) = <<a, b>>
  <2>1. InitClass(n) = <<InitClass(n)[1], InitClass(n)[2]>>
    BY DEF InitClass
  <2> QED BY Zenon, <1>0, <2>1, InitsAreNewborn
<1>4. 0 \in Values
  BY DEF Values
<1> HIDE DEF value, super
<1>5. CASE /\ accepted
           /\ heap' = heap \o inherits(InitClass(n), class, super)
           /\ asked' = asked \o <<value, 0>>
           /\ Enter(class, <<self>>)
  <2>1. super \in UserClasses \cup {Len(heap) + 1}
    BY <1>2, <1>5 DEF Values, Structs, Plain
  <2>2. PICK c, d : inherits(<<a, b>>, class, super) = <<c, d>> /\ Newborn(c, d)
    <3>1. Newborn(inherits(<<a, b>>, Len(heap) + 1, super)[1],
                  inherits(<<a, b>>, Len(heap) + 1, super)[2])
      BY <1>0, <1>3, <2>1, InheritsIsNewborn
    <3>2. inherits(<<a, b>>, class, super)
            = <<inherits(<<a, b>>, class, super)[1], inherits(<<a, b>>, class, super)[2]>>
      BY DEF inherits
    <3> QED BY Zenon, <3>1, <3>2
  <2>3. heap' = heap \o <<c, d>>
    BY Zenon, <1>3, <1>5, <2>2
  <2>4. /\ UserClasses' = UserClasses \cup {class}
        /\ Originals' = Originals \cup {class, class + 1}
    <3>1. class + 1 = Len(heap) + 2
      BY <1>0 DEF Rows
    <3> QED BY Zenon, <1>0, <2>2, <2>3, <3>1, Grown
  <2>5. Left' /\ self' = class
    BY <1>1, <1>5, <2>4, Entered
  <2>6. self' \in {Main} \cup UserClasses'
    BY Zenon, <2>4, <2>5
  <2> QED BY <1>1, <1>2, <1>5, <2>2, <2>3, <2>5, <2>6, GrowKeeps
<1>6. CASE /\ heap' = heap \o InitClass(n) /\ asked' = asked \o <<0, 0>>
           /\ self' = Main /\ stack' = <<>> /\ open' = 0
  <2>1. Left'
    BY <1>6, ClassesAssumption DEF Left
  <2>2. heap' = heap \o <<a, b>> /\ self' \in {Main} \cup UserClasses'
    BY Zenon, <1>3, <1>6
  <2> QED BY <1>1, <1>3, <1>4, <1>6, <2>1, <2>2, GrowKeeps
<1> QED BY Zenon, <1>1, <1>5, <1>6

\* The tables at the start, with a row for each of the six structs.
LEMMA SixTimes ==
  ASSUME NEW S, NEW v \in S
  PROVE  [c \in 1..6 |-> v] \in Seq(S) /\ Len([c \in 1..6 |-> v]) = 6
OBVIOUS

\* The elements of the sequence of the six structs.
LEMMA Six ==
  ASSUME NEW a, NEW b, NEW c, NEW d, NEW e, NEW f
  PROVE  /\ <<a, b, c, d, e, f>>[1] = a /\ <<a, b, c, d, e, f>>[2] = b
         /\ <<a, b, c, d, e, f>>[3] = c /\ <<a, b, c, d, e, f>>[4] = d
         /\ <<a, b, c, d, e, f>>[5] = e /\ <<a, b, c, d, e, f>>[6] = f
OBVIOUS

\* The fields of a struct that the invariant is about.
LEMMA Fields ==
  ASSUME NEW n, NEW s, NEW p, NEW c, NEW m, NEW i, NEW o, NEW k, NEW r,
         r = [name |-> n, super |-> s, pseudo |-> p, class |-> c, meta |-> m,
              isModule |-> i, scope |-> o, maps |-> k]
  PROVE  r.super = s /\ r.pseudo = p /\ r.meta = m /\ r.scope = o /\ r.maps = k
OBVIOUS

\* A struct whose superclass for the program is nil.
LEMMA PseudoSet ==
  ASSUME NEW r \in RClasses
  PROVE  /\ [r EXCEPT !.pseudo = 0] \in RClasses /\ [r EXCEPT !.pseudo = 0].pseudo = 0
         /\ [r EXCEPT !.pseudo = 0].super = r.super /\ [r EXCEPT !.pseudo = 0].meta = r.meta
         /\ [r EXCEPT !.pseudo = 0].scope = r.scope /\ [r EXCEPT !.pseudo = 0].maps = r.maps
BY DEF RClasses

\* The structs that initClassClass, initModuleClass and initObjectClass make.
LEMMA IInvInit == Init => IInv
<1> SUFFICES ASSUME Init PROVE IInv
  OBVIOUS
<1>1. /\ heap = << RClass("Object", Object, Class, 2, 1),
                   [RClass("", Class, Class, 0, 2) EXCEPT !.pseudo = 0],
                   RClass("Class", Module, Class, 4, 3), RClass("", 0, Class, 0, 4),
                   RClass("Module", Object, Class, 6, 5), RClass("", 2, Class, 0, 6) >>
      /\ methods = [c \in 1..6 |-> NoMethods]
      /\ constants = [c \in 1..6 |-> NoConstants]
      /\ self = 0 /\ stack = <<>> /\ open = 0 /\ asked = [c \in 1..6 |-> 0]
  BY DEF Init, Builtins, Main
<1>2. Len(heap) = 6
  BY <1>1
<1>3. PICK R1, r, R3, R4, R5, R6 :
        /\ R1 = [name |-> "Object", super |-> 1, pseudo |-> 1, class |-> 3, meta |-> 2,
                 isModule |-> FALSE, scope |-> 0, maps |-> 1]
        /\ r = [name |-> "", super |-> 3, pseudo |-> 3, class |-> 3, meta |-> 0,
                 isModule |-> FALSE, scope |-> 0, maps |-> 2]
        /\ R3 = [name |-> "Class", super |-> 5, pseudo |-> 5, class |-> 3, meta |-> 4,
                 isModule |-> FALSE, scope |-> 0, maps |-> 3]
        /\ R4 = [name |-> "", super |-> 0, pseudo |-> 0, class |-> 3, meta |-> 0,
                 isModule |-> FALSE, scope |-> 0, maps |-> 4]
        /\ R5 = [name |-> "Module", super |-> 1, pseudo |-> 1, class |-> 3, meta |-> 6,
                 isModule |-> FALSE, scope |-> 0, maps |-> 5]
        /\ R6 = [name |-> "", super |-> 2, pseudo |-> 2, class |-> 3, meta |-> 0,
                 isModule |-> FALSE, scope |-> 0, maps |-> 6]
  OBVIOUS
<1> PICK R2 : R2 = [r EXCEPT !.pseudo = 0]
  OBVIOUS
<1>4. heap = <<R1, R2, R3, R4, R5, R6>>
  <2>1. /\ RClass("Object", Object, Class, 2, 1) = R1
        /\ RClass("Class", Module, Class, 4, 3) = R3
        /\ RClass("", 0, Class, 0, 4) = R4
        /\ RClass("Module", Object, Class, 6, 5) = R5
        /\ RClass("", 2, Class, 0, 6) = R6
    BY Zenon, <1>3 DEF RClass, Object, Class, Module
  <2>2. [RClass("", Class, Class, 0, 2) EXCEPT !.pseudo = 0] = R2
    BY Zenon, <1>3 DEF RClass, Class
  <2> QED BY Zenon, <1>1, <2>1, <2>2
<1>5. heap \in Seq(RClasses)
  <2>1. R1 \in RClasses /\ R3 \in RClasses /\ r \in RClasses
    BY <1>3 DEF RClasses, Class, Module
  <2>4. R2 \in RClasses
    BY Zenon, <2>1, PseudoSet
  <2>2. R4 \in RClasses /\ R5 \in RClasses /\ R6 \in RClasses
    BY <1>3 DEF RClasses, Class, Module
  <2>3. <<R1, R2, R3, R4, R5, R6>> \in Seq(RClasses)
    BY <2>1, <2>2, <2>4
  <2> QED BY Zenon, <1>4, <2>3
<1>6. /\ methods \in Seq([MethodNames -> 0..MaxDefs]) /\ Len(methods) = 6
      /\ constants \in Seq([Names -> Int]) /\ Len(constants) = 6
      /\ asked \in Seq(Int) /\ Len(asked) = 6
  <2>1. NoMethods \in [MethodNames -> 0..MaxDefs] /\ NoConstants \in [Names -> Int]
    BY ClassesAssumption DEF NoMethods, NoConstants
  <2>2. methods \in Seq([MethodNames -> 0..MaxDefs]) /\ Len(methods) = 6
    BY Zenon, <1>1, <2>1, SixTimes
  <2>3. constants \in Seq([Names -> Int]) /\ Len(constants) = 6
    BY Zenon, <1>1, <2>1, SixTimes
  <2>4. asked \in Seq(Int) /\ Len(asked) = 6
    <3>1. 0 \in Int
      OBVIOUS
    <3> QED BY Zenon, <1>1, <3>1, SixTimes
  <2> QED BY Zenon, <2>2, <2>3, <2>4
<1>7. Rows
  <2>1. Builtins <= Len(heap)
    BY <1>2 DEF Builtins
  <2> QED BY Zenon, <1>2, <1>5, <1>6, <2>1 DEF Rows
<1>8. Structs = 1..6
  BY <1>2 DEF Structs
<1>9. /\ \A c \in 1..6 : heap[c].maps = c /\ heap[c].scope = 0
      /\ heap[1].super = 1 /\ heap[2].super = 3 /\ heap[3].super = 5
      /\ heap[4].super = 0 /\ heap[5].super = 1 /\ heap[6].super = 2
      /\ \A c \in 1..6 : heap[c].pseudo \in 0..6 /\ heap[c].meta \in 0..6
  <2>1. /\ heap[1] = R1 /\ heap[2] = R2 /\ heap[3] = R3
        /\ heap[4] = R4 /\ heap[5] = R5 /\ heap[6] = R6
    BY Zenon, <1>4, Six
  <2>2. \A c \in 1..6 : c = 1 \/ c = 2 \/ c = 3 \/ c = 4 \/ c = 5 \/ c = 6
    OBVIOUS
  <2>3. /\ R1.super = 1 /\ R1.pseudo = 1 /\ R1.meta = 2 /\ R1.scope = 0 /\ R1.maps = 1
        /\ R2.super = 3 /\ R2.pseudo = 0 /\ R2.meta = 0 /\ R2.scope = 0 /\ R2.maps = 2
        /\ R3.super = 5 /\ R3.pseudo = 5 /\ R3.meta = 4 /\ R3.scope = 0 /\ R3.maps = 3
        /\ R4.super = 0 /\ R4.pseudo = 0 /\ R4.meta = 0 /\ R4.scope = 0 /\ R4.maps = 4
        /\ R5.super = 1 /\ R5.pseudo = 1 /\ R5.meta = 6 /\ R5.scope = 0 /\ R5.maps = 5
        /\ R6.super = 2 /\ R6.pseudo = 2 /\ R6.meta = 0 /\ R6.scope = 0 /\ R6.maps = 6
    <3>1. r.super = 3 /\ r.meta = 0 /\ r.scope = 0 /\ r.maps = 2 /\ r \in RClasses
      <4>1. r \in RClasses
        BY <1>3 DEF RClasses, Class, Module
      <4> QED BY Zenon, <1>3, <4>1, Fields
    <3>2. R2.super = 3 /\ R2.pseudo = 0 /\ R2.meta = 0 /\ R2.scope = 0 /\ R2.maps = 2
      BY Zenon, <3>1, PseudoSet
    <3> QED BY Zenon, <1>3, <3>2, Fields
  <2>4. \A c \in 1..6 : heap[c].maps = c /\ heap[c].scope = 0
    BY Zenon, <2>1, <2>2, <2>3
  <2>5. \A c \in 1..6 : heap[c].pseudo \in {0, 1, 3, 5, 2} /\ heap[c].meta \in {0, 2, 4, 6}
    BY Zenon, <2>1, <2>2, <2>3
  <2>6. {0, 1, 3, 5, 2} \subseteq 0..6 /\ {0, 2, 4, 6} \subseteq 0..6
    OBVIOUS
  <2> QED BY Zenon, <2>1, <2>3, <2>4, <2>5, <2>6
<1>10. Originals = 1..6 /\ UserClasses = {} /\ \A c \in 1..6 : ~IsCopy(c)
  BY <1>2, <1>8, <1>9 DEF Originals, UserClasses, IsCopy, Builtins
<1>11. Pointers
  BY <1>8, <1>9, <1>10 DEF Pointers, Rootless
<1>12. Contents
  <2>1. \A c \in 1..6 : asked[c] = 0 /\ \A n \in Names : constants[c][n] = 0
    BY <1>1 DEF NoConstants
  <2>2. 0 \in Values
    BY DEF Values
  <2> QED BY Zenon, <1>1, <1>8, <2>1, <2>2 DEF Contents, Main
<1>13. Chains
  BY <1>8, <1>10 DEF Chains
<1>14. Left
  <2>1. stack = <<>> /\ open = 0 /\ MaxStack \in Nat
    BY Zenon, <1>1, ClassesAssumption
  <2> QED BY <2>1 DEF Left
<1> QED BY <1>7, <1>11, <1>12, <1>13, <1>14 DEF IInv

\* The invariant is inductive.
LEMMA IInvStep == IInv /\ [Next]_vars => IInv'
<1> SUFFICES ASSUME IInv, [Next]_vars PROVE IInv'
  OBVIOUS
<1>1. CASE UNCHANGED vars
  <2>1. UNCHANGED <<heap, methods, constants, asked, self, stack, open>>
    BY <1>1 DEF vars, tables
  <2>2. /\ self' \in {Main} \cup UserClasses
        /\ methods' \in Seq([MethodNames -> 0..MaxDefs]) /\ Len(methods') = Len(methods)
    BY <2>1 DEF IInv, Rows, Contents
  <2>3. Left'
    BY Zenon, <2>1 DEF IInv, Left, Originals, Structs, IsCopy
  <2> QED BY <2>1, <2>2, <2>3, TablesKept
<1>2. ASSUME NEW n \in Names, DefineClass(n) PROVE IInv'
  BY <1>2, DefineClassKeeps
<1>3. ASSUME NEW n \in Names, Reopen(n) PROVE IInv'
  BY <1>3, ReopenKeeps
<1>4. ASSUME NEW n \in Names, Include(n) \/ Extend(n) PROVE IInv'
  <2>1. lookupConstant(constants, self, n) \in Values
    BY Zenon, ValuesFound
  <2>2. CASE Include(n)
    <3>1. MixIn(SelfClass, lookupConstant(constants, self, n))
      BY Zenon, <2>2 DEF Include
    <3> QED BY <2>1, <3>1, Target, MixInKeeps
  <2>3. CASE Extend(n)
    <3>1. self # Main /\ MixIn(heap[self].meta, lookupConstant(constants, self, n))
      BY Zenon, <2>3 DEF Extend
    <3> QED BY <2>1, <3>1, Target, MixInKeeps
  <2> QED BY <1>4, <2>2, <2>3
<1>5. ASSUME NEW n \in Names, Assign(n) PROVE IInv'
  <2>1. PICK value \in Values : SetConstant(n, value)
    <3>1. CASE SetConstant(n, Plain)
      BY Zenon, <3>1 DEF Values
    <3>2. CASE \E s \in Names : SetConstant(n, lookupConstant(constants, Top, s))
      BY Zenon, <3>2, ValuesFound
    <3> QED BY Zenon, <1>5, <3>1, <3>2 DEF Assign
  <2> QED BY <2>1, AssignedKeeps
<1>6. ASSUME NEW n \in Names, NEW s \in Names, DefineSubclass(n, s) PROVE IInv'
  BY <1>6, DefineSubclassKeeps
<1>7. ASSUME NEW n \in MethodNames, DefMethod(n) \/ DefMetaMethod(n) PROVE IInv'
  <2>1. CASE DefMethod(n)
    BY Zenon, <2>1, Target, DefKeeps DEF DefMethod
  <2>2. CASE DefMetaMethod(n)
    BY Zenon, <2>2, Target, DefKeeps DEF DefMetaMethod
  <2> QED BY <1>7, <2>1, <2>2
<1>8. CASE EndOfBody \/ NextCommand
  BY <1>8, LeaveKeeps
<1> QED BY Zenon, <1>1, <1>2, <1>3, <1>4, <1>5, <1>6, <1>7, <1>8 DEF Next

\* It holds of every state the program reaches.
LEMMA IInvAlways == Spec => []IInv
BY IInvInit, IInvStep, PTL DEF Spec

\* A sequence is a function over its places.
LEMMA AsFunction ==
  ASSUME NEW S, NEW T, NEW s \in Seq(S), \A i \in 1..Len(s) : s[i] \in T
  PROVE  s \in [1..Len(s) -> T]
OBVIOUS

\* It gives the types of the structs and the tables.
LEMMA IInvTypes == IInv => TypeOK
<1> SUFFICES ASSUME IInv PROVE TypeOK
  OBVIOUS
<1>0. Rows /\ Pointers /\ Contents
  BY DEF IInv
<1>1. Structs = 1..Len(heap) /\ UserClasses \subseteq Originals
  BY <1>0, BuiltinStructs DEF Structs
<1>2. Values \subseteq {Plain, 0} \cup Originals
  BY Zenon, <1>1 DEF Values
<1>3. ASSUME NEW c \in Structs
      PROVE  /\ {heap[c].super, heap[c].pseudo, heap[c].meta, heap[c].scope}
                  \subseteq {0} \cup Structs
             /\ heap[c].class \in {Class, Module}
             /\ heap[c].maps <= c /\ (IsCopy(c) => heap[heap[c].maps].isModule)
  <2>1. /\ heap[c].super \in {0} \cup Structs
        /\ {heap[c].pseudo, heap[c].meta} \subseteq {0} \cup Structs
    BY Zenon, <1>0 DEF Pointers
  <2>2. heap[c].scope \in {0} \cup Structs
    BY Zenon, <1>0, <1>1 DEF Pointers, Originals
  <2>3. heap[c] \in RClasses
    BY <1>0, <1>1 DEF Rows
  <2>4. heap[c].class \in {Class, Module}
    BY <2>3 DEF RClasses
  <2>5. heap[c].maps <= c /\ (IsCopy(c) => heap[heap[c].maps].isModule)
    BY Zenon, <1>0 DEF Pointers
  <2> QED BY Zenon, <2>1, <2>2, <2>4, <2>5
<1>4. methods \in [Structs -> [MethodNames -> 0..MaxDefs]]
  BY <1>0, <1>1 DEF Rows
<1>5. constants \in [Structs -> [Names -> {Plain, 0} \cup Originals]]
  <2>1. constants \in Seq([Names -> Int]) /\ Len(constants) = Len(heap)
    BY <1>0 DEF Rows
  <2>2. ASSUME NEW c \in 1..Len(constants)
        PROVE  constants[c] \in [Names -> {Plain, 0} \cup Originals]
    <3>1. constants[c] \in [Names -> Int]
      BY <2>1
    <3>2. \A n \in Names : constants[c][n] \in {Plain, 0} \cup Originals
      BY Zenon, <1>0, <1>1, <1>2, <2>1 DEF Contents
    <3> QED BY <3>1, <3>2
  <2> QED BY Zenon, <1>1, <2>1, <2>2, AsFunction
<1>6. asked \in [Structs -> {Plain, 0} \cup Originals]
  <2>1. PICK s \in Seq(Int) : s = asked /\ Len(s) = Len(heap)
    BY <1>0 DEF Rows
  <2>2. \A c \in 1..Len(s) : s[c] \in {Plain, 0} \cup Originals
    BY Zenon, <1>0, <1>1, <1>2, <2>1 DEF Contents
  <2> QED BY Zenon, <1>1, <2>1, <2>2, AsFunction
<1>7. self \in {Main} \cup {c \in Originals : heap[c].meta # 0}
  <2>1. \A c \in UserClasses : heap[c].meta # 0
    BY Zenon DEF UserClasses
  <2> QED BY Zenon, <1>0, <1>1, <2>1 DEF Contents
<1>8. stack \in UNION {[1..k -> {Main} \cup Originals] : k \in 0..MaxStack}
  <2>1. PICK S : S = {Main} \cup Originals
    OBVIOUS
  <2>2. stack \in Seq(S) /\ Len(stack) <= MaxStack
    BY Zenon, <2>1 DEF IInv, Left
  <2>3. stack \in [1..Len(stack) -> S] /\ Len(stack) \in 0..MaxStack
    BY <2>2, ClassesAssumption
  <2> QED BY Zenon, <2>1, <2>3
<1>9. open \in 0..Len(stack) /\ (self = Main => open = 0)
  BY Zenon DEF IInv, Left
<1> QED BY Zenon, <1>3, <1>4, <1>5, <1>6, <1>7, <1>8, <1>9 DEF TypeOK

\* The pointers of the structs lead to structs, those of copies to modules, and
\* constants and self are classes of the program alone (RClass of class.go:23);
\* and every body with a superclass that is under way finds a value for the second
\* Pop of its statement (statement_generation.go:43).
THEOREM ClassesKeepTypes == Spec => []TypeOK
BY IInvAlways, IInvTypes, PTL

-----------------------------------------------------------------------------
(* The superclass of a class statement.                                      *)

\* A class that was stored under another name changes no lookup of s.
LEMMA LookupAfterStore ==
  ASSUME IInv, NEW n \in Names, NEW s \in Names, n # s, NEW c \in Structs
  PROVE  lookupConstantUnderAllScope(storeConstant(n), c, s)
           = lookupConstantUnderAllScope(constants, c, s)
<1>0. Rows /\ Pointers /\ Contents
  BY DEF IInv
<1>1. \A x \in Structs : storeConstant(n)[x][s] = constants[x][s]
  BY ZenonT(30), <1>0, StoredNew
<1> QED BY <1>0, <1>1, ScopesAlike

\* Looking the name up again, with its value on the stack, can find but what the
\* value holds or sees, or what was found before.
LEMMA LookedUpAgain ==
  ASSUME IInv, NEW n \in Names, NEW s \in Names, n # s, NEW value,
         value = lookupConstant(constants, self, s),
         NEW super, super = lookupConstant(storeConstant(n), value, s)
  PROVE  \/ super = value
         \/ /\ value \in Structs
            /\ lookupConstantUnderAllScope(constants, value, s) \notin {0, value}
<1>0. Rows /\ Pointers /\ Contents
  BY DEF IInv
<1> DEFINE L(c) == lookupConstantUnderAllScope(constants, c, s)
           M(c) == lookupConstantUnderAllScope(storeConstant(n), c, s)
<1>1. \A c \in Structs : M(c) = L(c)
  BY Zenon, LookupAfterStore
<1>2. storeConstant(n)[Object][s] = constants[Object][s]
  BY ZenonT(30), <1>0, StoredNew, Own
<1>3. SelfClass \in Structs
  BY <1>0, Own
<1>4. value = IF L(SelfClass) # 0 THEN L(SelfClass) ELSE constants[Object][s]
  <2>1. value = LET inTop == IF self \in Structs THEN L(self) ELSE 0
                IN IF inTop # 0 THEN inTop
                   ELSE IF L(SelfClass) # 0 THEN L(SelfClass) ELSE constants[Object][s]
    BY Zenon DEF lookupConstant
  <2>2. CASE self = Main
    <3>1. self \notin Structs
      BY <2>2 DEF Main, Structs
    <3> HIDE DEF L
    <3> QED BY Zenon, <2>1, <3>1
  <2>3. CASE self # Main
    <3>1. self = SelfClass
      BY Zenon, <2>3 DEF SelfClass
    <3> HIDE DEF L
    <3> QED BY Zenon, <1>3, <2>1, <3>1
  <2> QED BY Zenon, <2>2, <2>3
<1>5. super = LET inTop == IF value \in Structs THEN M(value) ELSE 0
              IN IF inTop # 0 THEN inTop
                 ELSE IF M(SelfClass) # 0 THEN M(SelfClass)
                      ELSE storeConstant(n)[Object][s]
  BY Zenon DEF lookupConstant
<1> HIDE DEF L, M
<1>6. CASE value \in Structs /\ L(value) # 0
  <2>1. super = L(value)
    BY Zenon, <1>1, <1>5, <1>6
  <2> QED BY Zenon, <1>6, <2>1 DEF L
<1>7. CASE ~(value \in Structs /\ L(value) # 0)
  BY Zenon, <1>1, <1>2, <1>3, <1>4, <1>5, <1>7
<1> QED BY Zenon, <1>6, <1>7

AsNamed(c) ==
  \/ asked'[c] \in {0, heap'[c].pseudo}
  \/ \E n \in Names :
       /\ lookupConstant(constants, self, n) = asked'[c]
       /\ \/ n = heap'[c].name
          \/ /\ asked'[c] \in Structs
             /\ lookupConstantUnderAllScope(constants, asked'[c], n) \notin {0, asked'[c]}

\* Of the two structs of a class only the first was asked for a superclass.
LEMMA PairAsNamed ==
  ASSUME IInv, NEW v \in Values, asked' = asked \o <<v, 0>>,
         v # 0 => AsNamed(Len(heap) + 1)
  PROVE  \A c \in DOMAIN asked' \ DOMAIN asked : AsNamed(c)
<1>1. v \in Int
  BY DEF Values, UserClasses, Plain, Builtins
<1>2. /\ asked' \in Seq(Int) /\ Len(asked') = Len(heap) + 2
      /\ asked'[Len(heap) + 1] = v /\ asked'[Len(heap) + 2] = 0
  <2>1. /\ asked \o <<v, 0>> \in Seq(Int) /\ Len(asked \o <<v, 0>>) = Len(heap) + 2
        /\ (asked \o <<v, 0>>)[Len(heap) + 1] = v /\ (asked \o <<v, 0>>)[Len(heap) + 2] = 0
    BY <1>1, AskedNew DEF IInv
  <2> QED BY Zenon, <2>1
<1>3. DOMAIN asked' \ DOMAIN asked \subseteq {Len(heap) + 1, Len(heap) + 2}
  <2>1. DOMAIN asked = 1..Len(heap) /\ Len(heap) \in Nat
    BY DEF IInv, Rows
  <2>2. DOMAIN asked' = 1..Len(heap) + 2
    BY <1>2
  <2> QED BY <2>1, <2>2
<1> QED BY Zenon, <1>2, <1>3 DEF AsNamed

\* class N < S: the name S, looked up once more with its own value on top, gives
\* another class only in the two cases.
LEMMA SubclassAsNamed ==
  ASSUME IInv, NEW n \in Names, NEW s \in Names, DefineSubclass(n, s)
  PROVE  \A c \in DOMAIN asked' \ DOMAIN asked : AsNamed(c)
<1>0. Rows /\ Pointers /\ Contents
  BY DEF IInv
<1> DEFINE value == lookupConstant(constants, self, s)
           class == Len(heap) + 1
           super == lookupConstant(constants', value, s)
           accepted == \/ super = class
                       \/ super \in Structs /\ ~heap[super].isModule
<1>1. /\ New(n)
      /\ \/ /\ accepted
            /\ heap' = heap \o inherits(InitClass(n), class, super)
            /\ asked' = asked \o <<value, 0>>
         \/ asked' = asked \o <<0, 0>>
  BY Zenon DEF DefineSubclass
<1>2. value \in Values /\ super \in Values \cup {Len(heap) + 1}
      /\ super = lookupConstant(storeConstant(n), value, s)
  <2>1. constants' = storeConstant(n)
    BY <1>1 DEF New
  <2> QED BY Zenon, <2>1, ValuesFound
<1>3. value = lookupConstant(constants, self, s)
  OBVIOUS
<1> PICK a, b : a = InitClass(n)[1] /\ b = InitClass(n)[2]
  OBVIOUS
<1>4. Newborn(a, b) /\ InitClass(n) = <<a, b>> /\ a.name = n
  <2>1. InitClass(n) = <<InitClass(n)[1], InitClass(n)[2]>>
    BY DEF InitClass
  <2>2. InitClass(n)[1].name = n
    BY DEF InitClass, RClass
  <2> QED BY Zenon, <1>0, <2>1, <2>2, InitsAreNewborn
<1> HIDE DEF value, super
<1>5. CASE /\ accepted
           /\ heap' = heap \o inherits(InitClass(n), class, super)
           /\ asked' = asked \o <<value, 0>>
  <2>1. super \in UserClasses \cup {Len(heap) + 1}
    BY <1>2, <1>5 DEF Values, Structs, Plain
  <2>2. PICK c, d : /\ inherits(<<a, b>>, class, super) = <<c, d>> /\ Newborn(c, d)
                    /\ c.pseudo = super /\ c.name = n
    <3>1. /\ Newborn(inherits(<<a, b>>, Len(heap) + 1, super)[1],
                     inherits(<<a, b>>, Len(heap) + 1, super)[2])
          /\ inherits(<<a, b>>, Len(heap) + 1, super)[1].pseudo = super
      BY <1>0, <1>4, <2>1, InheritsIsNewborn
    <3>2. /\ inherits(<<a, b>>, class, super)
               = <<inherits(<<a, b>>, class, super)[1], inherits(<<a, b>>, class, super)[2]>>
          /\ inherits(<<a, b>>, class, super)[1] = [a EXCEPT !.super = super, !.pseudo = super]
      BY DEF inherits
    <3>3. a \in RClasses
      BY <1>4 DEF Newborn
    <3>4. [a EXCEPT !.super = super, !.pseudo = super].name = n
      BY <1>4, <3>3 DEF RClasses
    <3> QED BY Zenon, <3>1, <3>2, <3>4
  <2>3. heap' = heap \o <<c, d>>
    BY Zenon, <1>4, <1>5, <2>2
  <2>4. heap'[Len(heap) + 1] = c
    BY Zenon, <1>0, <2>2, <2>3, Grown
  <2>5. asked'[Len(heap) + 1] = value
    <3>1. value \in Int
      BY <1>2 DEF Values, UserClasses, Plain, Builtins
    <3>2. (asked \o <<value, 0>>)[Len(heap) + 1] = value
      BY <1>0, <3>1, AskedNew
    <3> QED BY Zenon, <1>5, <3>2
  <2>6. AsNamed(Len(heap) + 1)
    <3>1. CASE n = s
      BY Zenon, <1>3, <2>2, <2>4, <2>5, <3>1 DEF AsNamed
    <3>2. CASE n # s
      <4>1. \/ super = value
            \/ /\ value \in Structs
               /\ lookupConstantUnderAllScope(constants, value, s) \notin {0, value}
        BY <1>2, <1>3, <3>2, LookedUpAgain
      <4> QED BY Zenon, <1>3, <2>2, <2>4, <2>5, <4>1 DEF AsNamed
    <3> QED BY <3>1, <3>2
  <2> QED BY <1>2, <1>5, <2>6, PairAsNamed
<1>6. CASE asked' = asked \o <<0, 0>>
  <2>1. 0 \in Values
    BY DEF Values
  <2> QED BY <1>6, <2>1, PairAsNamed
<1> QED BY Zenon, <1>1, <1>5, <1>6

\* Whatever the statement, the structs it adds have the superclass asked for.
LEMMA NewAsNamed ==
  ASSUME IInv, [Next]_vars
  PROVE  \A c \in DOMAIN asked' \ DOMAIN asked : AsNamed(c)
<1>1. 0 \in Values
  BY DEF Values
<1>2. CASE asked' = asked
  BY Zenon, <1>2
<1>3. ASSUME NEW n \in Names, DefineClass(n) PROVE asked' = asked \o <<0, 0>>
  BY Zenon, <1>3 DEF DefineClass
<1>4. ASSUME NEW n \in Names, NEW s \in Names, DefineSubclass(n, s)
      PROVE  \A c \in DOMAIN asked' \ DOMAIN asked : AsNamed(c)
  BY <1>4, SubclassAsNamed
<1>5. CASE asked' = Append(asked, 0)
  <2>1. PICK q \in Seq(Int) : q = asked
    BY DEF IInv, Rows
  <2>2. /\ DOMAIN Append(q, 0) \ DOMAIN q \subseteq {Len(q) + 1}
        /\ Append(q, 0)[Len(q) + 1] = 0
    BY <2>1
  <2> QED BY Zenon, <1>5, <2>1, <2>2 DEF AsNamed
<1>6. \/ asked' = asked \/ asked' = Append(asked, 0)
      \/ \E n \in Names : DefineClass(n)
      \/ \E n, s \in Names : DefineSubclass(n, s)
  <2>1. ASSUME NEW n \in Names, Reopen(n) PROVE asked' = asked
    BY Zenon, <2>1 DEF Reopen, tables
  <2>2. ASSUME NEW class, NEW module, MixIn(class, module)
        PROVE  asked' = asked \/ asked' = Append(asked, 0)
    BY Zenon, <2>2 DEF MixIn, tables
  <2>3. ASSUME NEW n \in Names, Assign(n) PROVE asked' = asked
    BY Zenon, <2>3 DEF Assign, SetConstant
  <2>4. ASSUME NEW class, NEW n, Def(class, n) PROVE asked' = asked
    BY Zenon, <2>4 DEF Def
  <2>5. CASE EndOfBody \/ NextCommand \/ UNCHANGED vars
    BY Zenon, <2>5 DEF EndOfBody, NextCommand, vars, tables
  <2> QED BY Zenon, <2>1, <2>2, <2>3, <2>4, <2>5
          DEF Next, Include, Extend, DefMethod, DefMetaMethod
<1> QED BY Zenon, <1>1, <1>2, <1>3, <1>4, <1>5, <1>6, PairAsNamed

\* class N < S makes a class whose superclass is what S was when it was
\* evaluated, though DefClass looks the name up again, but for the two cases of
\* SuperclassAsNamed (instruction.go:386-406).
THEOREM SuperclassIsAsNamed == Spec => SuperclassAsNamed
<1>1. IInv /\ [Next]_vars
        => [\A c \in DOMAIN asked' \ DOMAIN asked :
              \/ asked'[c] \in {0, heap'[c].pseudo}
              \/ \E n \in Names :
                   /\ lookupConstant(constants, self, n) = asked'[c]
                   /\ \/ n = heap'[c].name
                      \/ /\ asked'[c] \in Structs
                         /\ lookupConstantUnderAllScope(constants, asked'[c], n)
                              \notin {0, asked'[c]}]_vars
  BY Zenon, NewAsNamed DEF AsNamed
<1> QED BY IInvAlways, <1>1, PTL DEF Spec, SuperclassAsNamed

-----------------------------------------------------------------------------
(* The hierarchy.  A line of copies ends at an original, which is the parent, *)
(* and is the same after every statement that leaves the pointers of the       *)
(* copies as they are: all do, for a copy that is new goes in front of them.   *)

Upright == [x \in Structs |-> ~IsCopy(x)]
Up(c) == Along(Super, c, Upright, Len(heap))

\* The line of the copies above a struct is a sequence of structs that begins with
\* it.
LEMMA LinesEnd ==
  ASSUME IInv, NEW c \in Structs
  PROVE  /\ Up(c) \in Seq(Structs) /\ Up(c) # <<>> /\ Up(c)[1] = c
         /\ Last(Up(c)) \in Structs
<1>0. Rows /\ Pointers
  BY DEF IInv
<1>1. Structs \in SUBSET DOMAIN Super /\ Len(heap) \in Nat
  BY <1>0 DEF Super, Rows
<1>2. ASSUME NEW x \in Structs PROVE Upright[x] \/ Super[x] \in Structs
  <2>1. Upright[x] = ~IsCopy(x) /\ Super[x] = heap[x].super
    BY DEF Upright, Super
  <2>2. IsCopy(x) => heap[x].super \in Structs
    BY <1>0 DEF Pointers, Rootless, Builtins
  <2> QED BY Zenon, <2>1, <2>2
<1>3. /\ Up(c) \in Seq(Structs) /\ Up(c) # <<>>
      /\ Last(Up(c)) \in Structs
  BY <1>1, <1>2, AlongLast DEF Up
<1>4. Up(c)[1] = c
  BY <1>1, <1>2, AlongFirst DEF Up
<1> QED BY Zenon, <1>3, <1>4

\* Copies keep their pointers.
CopiesKept ==
  /\ Structs \subseteq Structs'
  /\ \A c \in Structs : /\ heap'[c].maps = heap[c].maps
                        /\ IsCopy(c) => heap'[c].super = heap[c].super

\* The line ends at an original, and stays as it is while the copies keep their
\* pointers, in however many steps it is walked.
LEMMA LinesKept ==
  ASSUME IInv, CopiesKept
  PROVE  \A c \in Structs : \A f \in Nat : f >= Len(heap) =>
           /\ Along(Super', c, Upright', f) = Up(c)
           /\ ~IsCopy(Last(Up(c)))
<1>0. Rows /\ Pointers /\ Chains
  BY DEF IInv
<1> DEFINE rank == [x \in Structs |-> IF IsCopy(x) THEN x ELSE 0]
<1>1. Structs = 1..Len(heap) /\ Len(heap) \in Nat
  BY <1>0 DEF Rows, Structs
<1>2. rank \in [Structs -> Nat]
  BY <1>1
<1>3. Structs \in SUBSET (DOMAIN Super \cap DOMAIN Super')
  BY DEF CopiesKept, Super
<1>4. ASSUME NEW x \in Structs
      PROVE  Upright[x] = Upright'[x]
             /\ (Upright[x] \/ /\ Super[x] = Super'[x] /\ Super[x] \in Structs
                               /\ rank[Super[x]] < rank[x])
  <2>1. Upright[x] = ~IsCopy(x) /\ Super[x] = heap[x].super /\ Super'[x] = heap'[x].super
    BY DEF Upright, Super, CopiesKept
  <2>2. Upright'[x] = ~(heap'[x].maps # x)
    BY DEF Upright, IsCopy, CopiesKept
  <2>3. Upright[x] = Upright'[x]
    BY Zenon, <2>1, <2>2 DEF CopiesKept, IsCopy
  <2>4. CASE IsCopy(x)
    <3>1. heap[x].super \in Structs /\ rank[x] = x
      BY <1>0, <2>4 DEF Pointers, Rootless, Builtins
    <3>2. rank[heap[x].super] < x
      <4>1. CASE IsCopy(heap[x].super)
        BY <1>0, <2>4, <3>1, <4>1 DEF Chains
      <4>2. CASE ~IsCopy(heap[x].super)
        BY <1>1, <3>1, <4>2
      <4> QED BY <4>1, <4>2
    <3>3. heap'[x].super = heap[x].super
      BY <2>4 DEF CopiesKept
    <3> HIDE DEF rank
    <3> QED BY <2>1, <2>3, <3>1, <3>2, <3>3
  <2> QED BY Zenon, <2>1, <2>3, <2>4
<1>5. ASSUME NEW c \in Structs PROVE rank[c] <= Len(heap)
  BY <1>1
<1> HIDE DEF rank
<1>6. \A c \in Structs : \A f, g \in Nat : f >= rank[c] /\ g >= rank[c] =>
        /\ Along(Super, c, Upright, f) = Along(Super', c, Upright', g)
        /\ Upright[Last(Along(Super, c, Upright, f))]
  BY <1>2, <1>3, <1>4, AlongDescends
<1>7. ASSUME NEW c \in Structs, NEW f \in Nat, f >= Len(heap)
      PROVE  Along(Super', c, Upright', f) = Up(c) /\ ~IsCopy(Last(Up(c)))
  <2>1. f >= rank[c] /\ Len(heap) >= rank[c] /\ Len(heap) \in Nat
    BY <1>1, <1>2, <1>5, <1>7
  <2>2. Up(c) = Along(Super', c, Upright', f) /\ Upright[Last(Up(c))]
    BY Zenon, <1>6, <2>1 DEF Up
  <2>3. Last(Up(c)) \in Structs
    BY LinesEnd
  <2> QED BY Zenon, <2>2, <2>3 DEF Upright
<1> QED BY Zenon, <1>7

\* Parent and Mixins, with the line.
LEMMA ParentIs ==
  ASSUME NEW c \in Structs
  PROVE  /\ Super[c] = heap[c].super
         /\ heap[c].super = 0 => Parent(c) = c /\ Mixins(c) = <<>>
         /\ heap[c].super # 0 =>
              /\ Parent(c) = Last(Up(heap[c].super))
              /\ Mixins(c) = [i \in 1..Len(Up(heap[c].super)) - 1 |->
                                heap[Up(heap[c].super)[i]].maps]
<1>1. Super[c] = heap[c].super
  BY DEF Super
<1>2. UpToOriginal(c) = Up(heap[c].super)
  BY Zenon, <1>1 DEF UpToOriginal, Up, Upright
<1>3. CASE heap[c].super = 0
  <2>1. Mixins(c) = [i \in 1..Len(<<c>>) - 1 |-> heap[<<c>>[i]].maps]
    BY Zenon, <1>1, <1>3 DEF Mixins
  <2>2. Len(<<c>>) - 1 = 0
    OBVIOUS
  <2>3. Mixins(c) = <<>>
    BY <2>1, <2>2
  <2> QED BY Zenon, <1>1, <1>3, <2>3 DEF Parent
<1>4. CASE heap[c].super # 0
  BY Zenon, <1>1, <1>2, <1>4 DEF Parent, Mixins
<1> QED BY <1>1, <1>3, <1>4

Shown ==
  \A c \in Structs :
    /\ heap[c].super = 0 => Parent(c) = c /\ Mixins(c) = <<>>
    /\ heap[c].super # 0 =>
         /\ Parent(c) = Last(Up(heap[c].super))
         /\ Mixins(c) = [i \in 1..Len(Up(heap[c].super)) - 1 |->
                           heap[Up(heap[c].super)[i]].maps]

\* The parent and the mixed in modules of every struct, by its line.
LEMMA ShownBefore == Shown
BY ParentIs DEF Shown

\* The same of the next state.
LEMMA ShownAfter == Shown'
BY ShownBefore, PTL

\* A class that keeps its pointer keeps its parent and what is mixed into it.
LEMMA ClassKept ==
  ASSUME IInv, CopiesKept, Len(heap') \in Nat, Len(heap) <= Len(heap'),
         NEW c \in Structs, heap'[c].super = heap[c].super
  PROVE  Parent(c)' = Parent(c) /\ Mixins(c)' = Mixins(c)
<1>1. c \in Structs' /\ (heap[c].super = 0 \/ heap[c].super \in Structs)
  BY DEF IInv, Pointers, CopiesKept
<1>2. CASE heap[c].super = 0
  BY Zenon, <1>1, <1>2, ShownBefore, ShownAfter DEF Shown
<1>3. CASE heap[c].super # 0 /\ heap[c].super \in Structs
  <2> PICK sc \in Structs : sc = heap[c].super /\ sc # 0
    BY <1>3
  <2>1. Up(sc)' = Up(sc)
    <3>1. Len(heap') >= Len(heap)
      BY DEF IInv, Rows
    <3> QED BY <3>1, LinesKept DEF Up
  <2>2. Up(sc) \in Seq(Structs) /\ Up(sc) # <<>>
    BY LinesEnd
  <2>3. /\ Parent(c) = Last(Up(sc))
        /\ Mixins(c) = [i \in 1..Len(Up(sc)) - 1 |-> heap[Up(sc)[i]].maps]
    BY Zenon, ShownBefore DEF Shown
  <2>4. /\ Parent(c)' = Last(Up(sc)')
        /\ Mixins(c)' = [i \in 1..Len(Up(sc)') - 1 |-> heap'[Up(sc)'[i]].maps]
    BY Zenon, <1>1, ShownAfter DEF Shown
  <2>5. ASSUME NEW i \in 1..Len(Up(sc)) - 1 PROVE heap'[Up(sc)[i]].maps = heap[Up(sc)[i]].maps
    <3>1. Up(sc)[i] \in Structs
      BY <2>2
    <3> QED BY Zenon, <3>1 DEF CopiesKept
  <2>6. Parent(c)' = Parent(c)
    BY Zenon, <2>1, <2>3, <2>4
  <2>7. Mixins(c)' = [i \in 1..Len(Up(sc)) - 1 |-> heap'[Up(sc)[i]].maps]
    BY Zenon, <2>1, <2>4
  <2>8. Mixins(c)' = Mixins(c)
    BY Zenon, <2>3, <2>5, <2>7
  <2> QED BY <2>6, <2>8
<1> QED BY Zenon, <1>1, <1>2, <1>3

\* One that leads straight to an original has nothing mixed in.
LEMMA ClassBare ==
  ASSUME IInv', NEW c \in Structs', heap'[c].super \in Originals', heap'[c].super # 0
  PROVE  Mixins(c)' = <<>>
<1> PICK sc \in Originals' : sc = heap'[c].super /\ sc # 0
  OBVIOUS
<1>1. Up(sc)' = <<sc>>
  <2>1. sc \in DOMAIN Super' /\ Upright'[sc] /\ Len(heap') \in Nat
    <3>1. sc \in Structs' /\ ~IsCopy(sc)'
      BY Zenon DEF Originals
    <3>2. DOMAIN Super' = Structs'
      BY DEF Super
    <3>3. Upright'[sc]
      BY Zenon, <3>1 DEF Upright
    <3>4. Len(heap') \in Nat
      BY DEF IInv, Rows
    <3> QED BY Zenon, <3>1, <3>2, <3>3, <3>4
  <2> QED BY <2>1, AlongStep DEF Up
<1>2. Mixins(c)' = [i \in 1..Len(Up(sc)') - 1 |-> heap'[Up(sc)'[i]].maps]
  BY Zenon, ShownAfter DEF Shown
<1>3. Len(<<sc>>) - 1 = 0
  OBVIOUS
<1> QED BY <1>1, <1>2, <1>3

\* A function on the numbers up to n is a sequence.
LEMMA FunctionIsSequence ==
  ASSUME NEW S, NEW n \in Nat, NEW f \in [1..n -> S]
  PROVE  f \in Seq(S) /\ Len(f) = n
OBVIOUS

\* Two sequences with the same elements.
LEMMA Prefixed ==
  ASSUME NEW S, NEW m \in S, NEW g \in Seq(S), NEW n \in Nat, n = Len(g) + 1,
         NEW f \in [1..n -> S], f[1] = m, \A i \in 1..Len(g) : f[i + 1] = g[i]
  PROVE  f = <<m>> \o g
<1>1. <<m>> \o g \in [1..n -> S]
  <2>1. <<m>> \o g \in Seq(S) /\ Len(<<m>> \o g) = n
    OBVIOUS
  <2>2. PICK h \in Seq(S) : h = <<m>> \o g
    BY <2>1
  <2>3. h \in [1..Len(h) -> S]
    OBVIOUS
  <2> QED BY Zenon, <2>1, <2>2, <2>3
<1>2. ASSUME NEW i \in 1..n PROVE f[i] = (<<m>> \o g)[i]
  <2>1. CASE i = 1
    BY <2>1
  <2>2. CASE i # 1
    <3>1. PICK j \in 1..Len(g) : i = j + 1
      <4>1. i - 1 \in 1..Len(g) /\ i = (i - 1) + 1
        BY <2>2
      <4> QED BY Zenon, <4>1
    <3>2. (<<m>> \o g)[j + 1] = g[j]
      OBVIOUS
    <3> QED BY Zenon, <3>1, <3>2
  <2> QED BY <2>1, <2>2
<1> QED BY <1>1, <1>2

\* The class that a module is mixed into keeps its parent, and the module goes
\* in front of those mixed in before.
LEMMA ClassSpliced ==
  ASSUME IInv, NEW class \in Originals, class # Rootless,
         NEW module \in UserClasses, heap' = Splice(class, module)
  PROVE  /\ CopiesKept
         /\ Parent(class)' = Parent(class)
         /\ Mixins(class)' = <<module>> \o Mixins(class)
         /\ Mixins(class) \in Seq(Structs)
<1> PICK L \in Nat : L = Len(heap)
  BY DEF IInv, Rows
<1>0. Rows /\ Pointers
  BY DEF IInv
<1>1. /\ Len(heap') = L + 1
      /\ \A c \in Structs : /\ heap'[c].super = IF c = class THEN L + 1 ELSE heap[c].super
                            /\ heap'[c].maps = heap[c].maps
      /\ heap'[L + 1].super = heap[class].super
      /\ heap'[L + 1].maps = module
      /\ Structs' = Structs \cup {L + 1}
  <2>1. IsSpliced(class, module, L)
    BY <1>0, Spliced
  <2> QED BY <2>1 DEF IsSpliced
<1>2. class \in Structs /\ ~IsCopy(class) /\ module \in Structs /\ Structs = 1..L
  BY <1>0, BuiltinStructs DEF Originals, Structs
<1>3. CopiesKept
  BY Zenon, <1>1, <1>2 DEF CopiesKept
<1>4. PICK sc \in Structs : sc = heap[class].super /\ sc # 0
  BY <1>0, <1>2 DEF Pointers
<1>5. Along(Super', sc, Upright', L) = Up(sc) /\ Up(sc) \in Seq(Structs) /\ Up(sc) # <<>>
  <2>1. L >= Len(heap)
    OBVIOUS
  <2> QED BY <1>3, <2>1, LinesKept, LinesEnd
<1>6. Up(L + 1)' = <<L + 1>> \o Up(sc)
  <2>1. L + 1 \in DOMAIN Super' /\ Super'[L + 1] = sc
    BY <1>1, <1>4 DEF Super
  <2>2. ~Upright'[L + 1]
    <3>1. heap'[L + 1].maps # L + 1 /\ L + 1 \in Structs'
      BY <1>1, <1>2
    <3> QED BY Zenon, <3>1 DEF Upright, IsCopy
  <2>3. Along(Super', L + 1, Upright', L + 1)
          = IF Upright'[L + 1] THEN <<L + 1>>
            ELSE <<L + 1>> \o Along(Super', Super'[L + 1], Upright', L)
    BY <2>1, AlongNext
  <2> QED BY Zenon, <1>1, <1>5, <2>1, <2>2, <2>3 DEF Up
<1>7. PICK u \in Seq(Structs) : u = Up(sc) /\ u # <<>>
  BY <1>5
<1>8. /\ Parent(class) = Last(u)
      /\ Mixins(class) = [i \in 1..Len(u) - 1 |-> heap[u[i]].maps]
  BY Zenon, <1>2, <1>4, <1>7, ShownBefore DEF Shown
<1>9. /\ Parent(class)' = Last(<<L + 1>> \o u)
      /\ Mixins(class)' = [i \in 1..Len(<<L + 1>> \o u) - 1 |-> heap'[(<<L + 1>> \o u)[i]].maps]
  <2>1. heap'[class].super = L + 1 /\ L + 1 # 0 /\ class \in Structs'
    BY <1>1, <1>2
  <2>2. (heap[class].super # 0 =>
           /\ Parent(class) = Last(Up(heap[class].super))
           /\ Mixins(class) = [i \in 1..Len(Up(heap[class].super)) - 1 |->
                                 heap[Up(heap[class].super)[i]].maps])'
    BY Zenon, <2>1, ShownAfter DEF Shown
  <2>3. (Up(heap[class].super))' = <<L + 1>> \o u
    BY Zenon, <1>6, <1>7, <2>1 DEF Up
  <2> QED BY <2>1, <2>2, <2>3
<1>10. Last(<<L + 1>> \o u) = Last(u) /\ Len(<<L + 1>> \o u) - 1 = Len(u) /\ Len(u) \in Nat
       /\ Len(u) - 1 \in Nat
  BY <1>7 DEF Last
<1>11. /\ Mixins(class) \in Seq(Structs) /\ Len(Mixins(class)) = Len(u) - 1
       /\ \A i \in 1..Len(u) - 1 : Mixins(class)[i] = heap[u[i]].maps
  <2>1. ASSUME NEW i \in 1..Len(u) - 1 PROVE heap[u[i]].maps \in Structs
    <3>1. u[i] \in Structs
      BY <1>7
    <3> QED BY Zenon, <1>0, <3>1 DEF Pointers, Originals
  <2>2. Mixins(class) \in [1..Len(u) - 1 -> Structs]
    BY <1>8, <2>1
  <2> QED BY <1>8, <1>10, <2>2, FunctionIsSequence
<1>12. ASSUME NEW i \in 1..Len(u)
       PROVE  heap'[(<<L + 1>> \o u)[i]].maps = IF i = 1 THEN module ELSE heap[u[i - 1]].maps
  <2>1. CASE i = 1
    <3>1. (<<L + 1>> \o u)[i] = L + 1
      BY <2>1
    <3> QED BY Zenon, <1>1, <2>1, <3>1
  <2>2. CASE i # 1
    <3>1. (<<L + 1>> \o u)[i] = u[i - 1] /\ u[i - 1] \in Structs
      BY <1>7, <2>2
    <3> QED BY Zenon, <1>1, <2>2, <3>1
  <2> QED BY <2>1, <2>2
<1>13. PICK f : f = [i \in 1..Len(u) |-> heap'[(<<L + 1>> \o u)[i]].maps]
  OBVIOUS
<1>14. f \in [1..Len(u) -> Structs] /\ f[1] = module
       /\ \A i \in 1..Len(u) - 1 : f[i + 1] = Mixins(class)[i]
  <2>1. 1 \in 1..Len(u)
    BY <1>10
  <2>2. f[1] = module
    BY Zenon, <1>12, <1>13, <2>1
  <2>3. ASSUME NEW i \in 1..Len(u) - 1 PROVE f[i + 1] = Mixins(class)[i]
    <3>1. i + 1 \in 1..Len(u) /\ i + 1 # 1 /\ (i + 1) - 1 = i
      BY <1>10
    <3> QED BY Zenon, <1>11, <1>12, <1>13, <3>1
  <2>4. ASSUME NEW i \in 1..Len(u) PROVE f[i] \in Structs
    <3>1. CASE i = 1
      BY Zenon, <1>2, <2>2, <3>1
    <3>2. CASE i # 1
      <4>1. i - 1 \in 1..Len(u) - 1
        BY <1>10, <3>2
      <4>2. u[i - 1] \in Structs
        BY <1>7, <4>1
      <4>3. heap[u[i - 1]].maps \in Structs
        BY Zenon, <1>0, <4>2 DEF Pointers, Originals
      <4> QED BY Zenon, <1>12, <1>13, <3>2, <4>3
    <3> QED BY <3>1, <3>2
  <2>5. f \in [1..Len(u) -> Structs]
    BY Zenon, <1>13, <2>4
  <2> QED BY Zenon, <2>2, <2>3, <2>5
<1>15. f = <<module>> \o Mixins(class)
  <2>1. Len(u) = Len(Mixins(class)) + 1
    BY <1>10, <1>11
  <2>2. \A i \in 1..Len(Mixins(class)) : f[i + 1] = Mixins(class)[i]
    BY Zenon, <1>11, <1>14
  <2> QED BY SMTT(30), <1>2, <1>10, <1>11, <1>14, <2>1, <2>2, Prefixed
<1>16. Mixins(class)' = f
  BY Zenon, <1>9, <1>10, <1>13
<1> QED BY Zenon, <1>3, <1>8, <1>9, <1>10, <1>11, <1>15, <1>16

\* What the structs stand for in Hierarchy.
parents == [c \in Originals |-> Parent(c)]
mixed == [c \in Originals |-> Mixins(c)]
defined == [c \in Originals |-> methods[c]]

\* At the start nothing is mixed into a class, and no class has a method.
LEMMA HierarchyInit == Init => H!Init
<1> SUFFICES ASSUME Init PROVE H!Init
  OBVIOUS
<1>1. Rows /\ Pointers /\ IInv
  BY IInvInit DEF IInv
<1>2. Len(heap) = 6 /\ methods = [c \in 1..6 |-> NoMethods]
      /\ \A c \in Structs : ~IsCopy(c)
  <2>1. Len(heap) = 6 /\ methods = [c \in 1..6 |-> NoMethods]
    BY DEF Init, Builtins
  <2>2. \A c \in Structs : ~IsCopy(c)
    BY <1>1, <2>1 DEF Pointers, Structs, Builtins
  <2> QED BY <2>1, <2>2
<1>3. Originals = Structs /\ Structs = 1..6
  BY <1>2 DEF Originals, Structs
<1>4. ASSUME NEW c \in Originals PROVE Mixins(c) = <<>>
  <2>1. CASE heap[c].super = 0
    BY Zenon, <1>3, <2>1, ShownBefore DEF Shown
  <2>2. CASE heap[c].super # 0
    <3>1. PICK sc \in Structs : sc = heap[c].super /\ sc # 0
      BY <1>1, <1>3, <2>2 DEF Pointers
    <3>2. Up(sc) = <<sc>>
      <4>1. sc \in DOMAIN Super /\ Upright[sc] /\ Len(heap) \in Nat
        <5>1. DOMAIN Super = Structs /\ Len(heap) \in Nat
          BY <1>2 DEF Super
        <5> QED BY Zenon, <1>2, <3>1, <5>1 DEF Upright
      <4> QED BY <4>1, AlongStep DEF Up
    <3>3. Mixins(c) = [i \in 1..Len(Up(sc)) - 1 |-> heap[Up(sc)[i]].maps]
      BY Zenon, <1>3, <3>1, ShownBefore DEF Shown
    <3>4. Len(<<sc>>) - 1 = 0
      OBVIOUS
    <3> QED BY <3>2, <3>3, <3>4
  <2> QED BY <2>1, <2>2
<1>5. ASSUME NEW c \in Originals
      PROVE  methods[c] = NoMethods
  BY Zenon, <1>2, <1>3
<1>6. \A n \in DOMAIN NoMethods : NoMethods[n] = 0
  BY DEF NoMethods
<1> QED BY Zenon, <1>4, <1>5, <1>6 DEF H!Init, H!Declared, H!Undefined

\* What stays as it is in the structs stays as it is in the hierarchy.
LEMMA HierarchyKept ==
  ASSUME IInv, CopiesKept, Len(heap') \in Nat, Len(heap) <= Len(heap'), Originals' = Originals,
         \A c \in Originals : heap'[c].super = heap[c].super
  PROVE  UNCHANGED <<parents, mixed>>
<1>1. \A c \in Originals : Parent(c)' = Parent(c) /\ Mixins(c)' = Mixins(c)
  BY ClassKept DEF Originals
<1>2. parents' = [c \in Originals |-> Parent(c)']
  BY Zenon DEF parents
<1>3. mixed' = [c \in Originals |-> Mixins(c)']
  BY Zenon DEF mixed
<1> QED BY Zenon, <1>1, <1>2, <1>3 DEF parents, mixed

\* Statements that leave the structs alone leave the hierarchy alone.
LEMMA HeapKept ==
  ASSUME IInv, UNCHANGED heap
  PROVE  UNCHANGED <<parents, mixed>> /\ Originals' = Originals
<1>1. CopiesKept /\ Originals' = Originals
  BY DEF CopiesKept, Structs, Originals, IsCopy
<1>2. Len(heap') \in Nat /\ Len(heap) <= Len(heap')
  BY DEF IInv, Rows
<1>3. \A c \in Originals : heap'[c].super = heap[c].super
  OBVIOUS
<1> QED BY Zenon, <1>1, <1>2, <1>3, HierarchyKept

\* The methods of the two new structs.
LEMMA MethodsGrow ==
  ASSUME Rows, methods' = methods \o <<NoMethods, NoMethods>>, NEW L \in Nat, L = Len(heap)
  PROVE  /\ \A c \in 1..L : methods'[c] = methods[c]
         /\ methods'[L + 1] = NoMethods /\ methods'[L + 2] = NoMethods
<1> PICK S : S = [MethodNames -> 0..MaxDefs]
  OBVIOUS
<1>1. NoMethods \in [MethodNames -> 0..MaxDefs]
  BY ClassesAssumption DEF NoMethods
<1> PICK none \in S : none = NoMethods
  BY Zenon, <1>1
<1> PICK rows \in Seq(S) : rows = methods /\ Len(rows) = L
  BY DEF Rows
<1>2. /\ \A c \in 1..Len(rows) : (rows \o <<none, none>>)[c] = rows[c]
      /\ (rows \o <<none, none>>)[Len(rows) + 1] = none
      /\ (rows \o <<none, none>>)[Len(rows) + 2] = none
  BY TwoAppended
<1> QED BY Zenon, <1>2

\* New structs are declared, and nothing else changes.
LEMMA HierarchyGrows ==
  ASSUME IInv, IInv', NEW a, NEW b, Newborn(a, b), heap' = heap \o <<a, b>>,
         methods' = methods \o <<NoMethods, NoMethods>>
  PROVE  H!Declare
<1> PICK L \in Nat : L = Len(heap)
  BY DEF IInv, Rows
<1>0. Rows /\ Pointers
  BY DEF IInv
<1>1. /\ Len(heap') = L + 2 /\ \A c \in Structs : heap'[c] = heap[c]
      /\ heap'[L + 1] = a /\ heap'[L + 2] = b
      /\ Structs' = Structs \cup {L + 1, L + 2}
      /\ Originals' = Originals \cup {L + 1, L + 2}
  BY <1>0, Grown
<1>2. Structs = 1..L /\ Originals \subseteq Structs
  BY DEF Structs, Originals
<1>3. CopiesKept
  BY Zenon, <1>1 DEF CopiesKept
<1>4. /\ \A c \in Structs : methods'[c] = methods[c]
      /\ methods'[L + 1] = NoMethods /\ methods'[L + 2] = NoMethods
  BY <1>0, <1>2, MethodsGrow
<1>5. ASSUME NEW c \in Originals PROVE Parent(c)' = Parent(c) /\ Mixins(c)' = Mixins(c)
  <2>1. heap'[c].super = heap[c].super /\ c \in Structs
    BY <1>1, <1>2
  <2>2. Len(heap') \in Nat /\ Len(heap) <= Len(heap')
    BY <1>1
  <2> QED BY <1>3, <2>1, <2>2, ClassKept
<1>6. ASSUME NEW c \in {L + 1, L + 2} PROVE Mixins(c)' = <<>>
  <2>1. heap'[c].super \in Originals' /\ c \in Structs'
    BY <1>1 DEF Newborn
  <2>2. heap'[c].super # 0
    <3>1. 0 \notin Structs'
      BY <1>1, <1>2
    <3> QED BY Zenon, <2>1, <3>1 DEF Originals
  <2> QED BY <2>1, <2>2, ClassBare
<1>7. \A n \in DOMAIN NoMethods : NoMethods[n] = 0
  BY DEF NoMethods
<1>8. Originals # Originals' /\ Originals \subseteq Originals'
      /\ Originals' \ Originals \subseteq {L + 1, L + 2}
  BY <1>1, <1>2
<1>9. /\ parents' = [c \in Originals' |-> Parent(c)']
      /\ mixed' = [c \in Originals' |-> Mixins(c)']
      /\ defined' = [c \in Originals' |-> methods'[c]]
  BY Zenon DEF parents, mixed, defined
<1>10. \A c \in Originals : /\ parents'[c] = parents[c] /\ mixed'[c] = mixed[c]
                            /\ defined'[c] = defined[c]
  BY Zenon, <1>2, <1>4, <1>5, <1>8, <1>9 DEF parents, mixed, defined
<1>11. \A c \in Originals' \ Originals :
         mixed'[c] = <<>> /\ \A n \in DOMAIN defined'[c] : defined'[c][n] = 0
  BY Zenon, <1>4, <1>6, <1>7, <1>8, <1>9
<1>12. DOMAIN parents = Originals /\ DOMAIN parents' = Originals'
  BY Zenon, <1>9 DEF parents
<1> HIDE DEF parents, mixed, defined
<1> QED BY Zenon, <1>8, <1>10, <1>11, <1>12
        DEF H!Declare, H!Declared, H!Undefined, parents, mixed, defined

\* include and extend put the module in front of those mixed into the one class;
\* no other class has got it, nor lost one of its own.
LEMMA HierarchyMixes ==
  ASSUME IInv, NEW class \in Originals, class # Rootless,
         NEW module \in UserClasses, heap' = Splice(class, module),
         methods' = Append(methods, NoMethods)
  PROVE  H!Next
<1>0. Rows /\ Pointers
  BY DEF IInv
<1>1. /\ Len(heap') = Len(heap) + 1
      /\ \A c \in Structs :
           heap'[c].super = IF c = class THEN Len(heap) + 1 ELSE heap[c].super
      /\ Originals' = Originals
  BY <1>0, Spliced DEF IsSpliced
<1>2. /\ CopiesKept /\ Parent(class)' = Parent(class)
      /\ Mixins(class)' = <<module>> \o Mixins(class)
  BY ClassSpliced
<1>3. ASSUME NEW c \in Originals, c # class
      PROVE  Parent(c)' = Parent(c) /\ Mixins(c)' = Mixins(c)
  <2>1. Len(heap') \in Nat /\ Len(heap) <= Len(heap')
    BY <1>0, <1>1 DEF Rows
  <2>2. c \in Structs /\ heap'[c].super = heap[c].super
    BY Zenon, <1>1, <1>3 DEF Originals
  <2> QED BY <1>2, <2>1, <2>2, ClassKept
<1>4. /\ parents' = [c \in Originals |-> Parent(c)']
      /\ mixed' = [c \in Originals |-> Mixins(c)']
      /\ defined' = [c \in Originals |-> methods'[c]]
  BY Zenon, <1>1 DEF parents, mixed, defined
<1>5. parents' = parents
  BY Zenon, <1>2, <1>3, <1>4 DEF parents
<1>6. mixed' = [mixed EXCEPT ![class] = <<module>> \o @]
  BY <1>2, <1>3, <1>4 DEF mixed
<1>7. defined' = defined
  <2>1. \A c \in Originals : methods'[c] = methods[c]
    <3>1. NoMethods \in [MethodNames -> 0..MaxDefs]
      BY ClassesAssumption DEF NoMethods
    <3>2. methods \in Seq([MethodNames -> 0..MaxDefs]) /\ Len(methods) = Len(heap)
      BY <1>0 DEF Rows
    <3> HIDE DEF NoMethods
    <3> QED BY <3>1, <3>2, Appended DEF Originals, Structs
  <2> QED BY Zenon, <1>4, <2>1 DEF defined
<1>8. mixed'[class] # mixed[class]
  <2>1. PICK q \in Seq(Structs) : q = Mixins(class)
    BY ClassSpliced
  <2>2. <<module>> \o q # q
    <3>1. Len(<<module>> \o q) = Len(q) + 1
      OBVIOUS
    <3> QED BY <3>1
  <2> QED BY Zenon, <1>2, <1>4, <2>1, <2>2 DEF mixed
<1>9. module \in Originals /\ DOMAIN parents = Originals
  BY <1>0, BuiltinStructs DEF parents
<1>10. mixed # mixed'
  BY <1>8
<1> HIDE DEF parents, mixed, defined
<1> QED BY Zenon, <1>5, <1>6, <1>7, <1>8, <1>9, <1>10
        DEF H!Next, H!MixIn, H!Declared, parents, mixed, defined

\* A method that a class has is one of those defined so far.
LEMMA IsDefined ==
  ASSUME NEW c \in Structs, NEW m \in MethodNames, methods[c][m] # 0
  PROVE  methods[c][m] \in Defined
<1> PICK all : all = {{methods[d][n] : n \in MethodNames} : d \in Structs}
  OBVIOUS
<1>1. methods[c][m] \in {methods[c][n] : n \in MethodNames}
  OBVIOUS
<1>2. {methods[c][n] : n \in MethodNames} \in all
  OBVIOUS
<1>3. methods[c][m] \in UNION all
  BY Zenon, <1>1, <1>2
<1>4. Defined = (UNION all) \ {0}
  BY DEF Defined
<1> QED BY <1>3, <1>4

\* A method definition, of a class or of a metaclass, gives the one class a method
\* that none had before.
LEMMA HierarchyDefines ==
  ASSUME IInv, NEW class \in Originals, NEW n \in MethodNames, Def(class, n)
  PROVE  H!Next
<1>0. Rows /\ Pointers
  BY DEF IInv
<1>1. PICK k \in (1..MaxDefs) \ Defined : methods' = [methods EXCEPT ![class][n] = k]
  <2>1. heap[class].maps = class
    BY Zenon DEF Originals, IsCopy
  <2> QED BY Zenon, <2>1 DEF Def
<1>2. UNCHANGED <<parents, mixed>> /\ Originals' = Originals
  <2>1. UNCHANGED heap
    BY DEF Def
  <2> QED BY Zenon, <2>1, HeapKept
<1>3. class \in Structs /\ Structs = 1..Len(heap) /\ Originals \subseteq Structs
  BY DEF Originals, Structs
<1> PICK S : S = [MethodNames -> 0..MaxDefs]
  OBVIOUS
<1>4. PICK rows \in Seq(S) : rows = methods /\ Len(rows) = Len(heap)
  BY <1>0 DEF Rows
<1>5. class \in 1..Len(rows) /\ k \in 0..MaxDefs /\ k # 0
  BY <1>3, <1>4
<1>6. PICK row \in S : row = [rows[class] EXCEPT ![n] = k] /\ row[n] = k
  <2>1. PICK old \in [MethodNames -> 0..MaxDefs] : old = rows[class]
    BY <1>5
  <2>2. /\ [old EXCEPT ![n] = k] \in [MethodNames -> 0..MaxDefs]
        /\ [old EXCEPT ![n] = k][n] = k
    BY <1>5
  <2> QED BY Zenon, <2>1, <2>2
<1>7. \A c \in 1..Len(rows) : methods'[c] = IF c = class THEN row ELSE rows[c]
  <2>1. methods' = [rows EXCEPT ![class] = row]
    BY <1>1, <1>4, <1>6
  <2>2. \A c \in 1..Len(rows) :
          [rows EXCEPT ![class] = row][c] = IF c = class THEN row ELSE rows[c]
    BY <1>5, Replaced
  <2> QED BY Zenon, <2>1, <2>2
<1>8. rows[class][n] # k
  <2>1. methods[class][n] # 0 => methods[class][n] \in Defined
    BY Zenon, <1>3, IsDefined
  <2>2. k \notin Defined
    BY <1>1
  <2> QED BY Zenon, <1>4, <1>5, <2>1, <2>2
<1>9. /\ defined = [c \in Originals |-> rows[c]]
      /\ defined' = [c \in Originals |-> methods'[c]]
  BY Zenon, <1>2, <1>4 DEF defined
<1>10. /\ \A c \in Originals : defined[c] = rows[c]
       /\ \A c \in Originals : defined'[c] = IF c = class THEN row ELSE rows[c]
  BY Zenon, <1>3, <1>4, <1>7, <1>9
<1>11. n \in DOMAIN defined[class] /\ rows[class] \in [MethodNames -> 0..MaxDefs]
  <2>1. rows[class] \in [MethodNames -> 0..MaxDefs]
    BY <1>5
  <2>2. defined[class] = rows[class]
    BY Zenon, <1>10
  <2> QED BY <2>1, <2>2
<1>12. defined'[class] = row /\ defined'[class][n] = k
  BY Zenon, <1>6, <1>10
<1>13. defined' = [defined EXCEPT ![class][n] = defined'[class][n]]
  <2>1. [defined EXCEPT ![class][n] = k] = [defined EXCEPT ![class] = row]
    BY Zenon, <1>6, <1>9, <1>10
  <2>2. defined' = [defined EXCEPT ![class] = row]
    BY Zenon, <1>9, <1>10
  <2> QED BY Zenon, <1>12, <2>1, <2>2
<1>14. defined'[class] # defined[class]
  BY Zenon, <1>8, <1>10, <1>12
<1>15. defined # defined' /\ DOMAIN parents = Originals
  BY Zenon, <1>14 DEF parents
<1> HIDE DEF parents, mixed, defined
<1> QED BY Zenon, <1>2, <1>5, <1>11, <1>12, <1>13, <1>14, <1>15
        DEF H!Next, H!Define, H!Declared, parents, mixed, defined

\* Statements that leave the pointers between the structs alone.
LEMMA HierarchyStays ==
  ASSUME IInv, UNCHANGED <<heap, methods>>
  PROVE  UNCHANGED H!hierarchyVars
<1>1. UNCHANGED <<parents, mixed>> /\ Originals' = Originals
  BY Zenon, HeapKept
<1>2. UNCHANGED defined
  BY Zenon, <1>1 DEF defined
<1> QED BY Zenon, <1>1, <1>2 DEF H!hierarchyVars, parents, mixed, defined

\* A constant that is set moves a scope, and no class in the hierarchy.
LEMMA HierarchyAssigned ==
  ASSUME IInv, NEW n \in Names, NEW value \in Values, SetConstant(n, value)
  PROVE  UNCHANGED H!hierarchyVars
<1>0. Rows /\ Pointers /\ Contents
  BY DEF IInv
<1>1. CASE UNCHANGED heap
  <2>1. UNCHANGED methods
    BY DEF SetConstant
  <2> QED BY Zenon, <1>1, <2>1, HierarchyStays
<1>2. CASE value \in Structs /\ heap' = [heap EXCEPT ![value].scope = self]
  <2>1. value \in UserClasses /\ self \in Nat
    BY <1>0, <1>2 DEF Values, Structs, Plain, Contents, UserClasses, Main, Builtins
  <2>2. /\ Len(heap') = Len(heap) /\ Structs' = Structs /\ Originals' = Originals
        /\ \A c \in Structs : heap'[c].super = heap[c].super /\ heap'[c].maps = heap[c].maps
    BY <1>0, <1>2, <2>1, Rescoped
  <2>3. CopiesKept /\ \A c \in Originals : heap'[c].super = heap[c].super
    BY Zenon, <2>2 DEF CopiesKept, Originals
  <2>4. Len(heap') \in Nat /\ Len(heap) <= Len(heap')
    BY <1>0, <2>2 DEF Rows
  <2>5. UNCHANGED <<parents, mixed>>
    BY Zenon, <2>2, <2>3, <2>4, HierarchyKept
  <2>6. UNCHANGED defined
    <3>1. UNCHANGED methods
      BY DEF SetConstant
    <3> QED BY Zenon, <2>2, <3>1 DEF defined
  <2> QED BY Zenon, <2>5, <2>6 DEF H!hierarchyVars, parents, mixed, defined
<1>3. heap' = IF value \in Structs /\ self # Main
              THEN [heap EXCEPT ![value].scope = self] ELSE heap
  BY DEF SetConstant
<1> QED BY Zenon, <1>1, <1>2, <1>3

\* A class statement for a name that is not to be found, whether or not its
\* superclass turns out to be a class, declares a class and its metaclass.
LEMMA HierarchyDeclares ==
  ASSUME IInv, IInv', NEW n \in Names,
         DefineClass(n) \/ \E s \in Names : DefineSubclass(n, s)
  PROVE  H!Next
<1>0. Rows /\ Pointers /\ Contents
  BY DEF IInv
<1>1. /\ InitClass(n) = <<InitClass(n)[1], InitClass(n)[2]>>
      /\ InitModule(n) = <<InitModule(n)[1], InitModule(n)[2]>>
      /\ Newborn(InitClass(n)[1], InitClass(n)[2])
      /\ Newborn(InitModule(n)[1], InitModule(n)[2])
  <2>1. /\ InitClass(n) = <<InitClass(n)[1], InitClass(n)[2]>>
        /\ InitModule(n) = <<InitModule(n)[1], InitModule(n)[2]>>
    BY DEF InitClass, InitModule
  <2> QED BY Zenon, <1>0, <2>1, InitsAreNewborn
<1>2. PICK a, b : Newborn(a, b) /\ heap' = heap \o <<a, b>>
  <2>1. CASE DefineClass(n)
    <3>1. heap' = heap \o InitClass(n) \/ heap' = heap \o InitModule(n)
      BY Zenon, <2>1 DEF DefineClass
    <3> QED BY Zenon, <1>1, <3>1
  <2>2. ASSUME NEW s \in Names, DefineSubclass(n, s)
        PROVE  \E a, b : Newborn(a, b) /\ heap' = heap \o <<a, b>>
    BY Zenon, <1>1, <2>2, SubclassBorn
  <2> QED BY Zenon, <2>1, <2>2
<1>3. methods' = methods \o <<NoMethods, NoMethods>>
  BY Zenon DEF DefineClass, DefineSubclass, New
<1> QED BY Zenon, <1>2, <1>3, HierarchyGrows DEF H!Next

\* Each statement is one step of the hierarchy, or none that shows.
LEMMA HierarchyStep == IInv /\ IInv' /\ [Next]_vars => [H!Next]_(H!hierarchyVars)
<1> SUFFICES ASSUME IInv, IInv', [Next]_vars
             PROVE  H!Next \/ UNCHANGED H!hierarchyVars
  OBVIOUS
<1>1. CASE UNCHANGED vars
  <2>1. UNCHANGED <<heap, methods>>
    BY <1>1 DEF vars, tables
  <2> QED BY Zenon, <2>1, HierarchyStays
<1>2. ASSUME NEW n \in Names, DefineClass(n) \/ \E s \in Names : DefineSubclass(n, s)
      PROVE  H!Next
  BY Zenon, <1>2, HierarchyDeclares
<1>3. CASE (\E n \in Names : Reopen(n)) \/ EndOfBody \/ NextCommand
  <2>1. UNCHANGED <<heap, methods>>
    BY Zenon, <1>3 DEF Reopen, EndOfBody, NextCommand, tables
  <2> QED BY Zenon, <2>1, HierarchyStays
<1>4. ASSUME NEW class \in Originals, class # Rootless, NEW module \in Values,
             MixIn(class, module)
      PROVE  H!Next \/ UNCHANGED H!hierarchyVars
  <2>1. module \in UserClasses
    BY <1>4 DEF MixIn, Values, Structs, Plain
  <2>2. CASE UNCHANGED tables
    <3>1. UNCHANGED <<heap, methods>>
      BY <2>2 DEF tables
    <3> QED BY Zenon, <3>1, HierarchyStays
  <2>3. CASE heap' = Splice(class, module) /\ methods' = Append(methods, NoMethods)
    BY Zenon, <1>4, <2>1, <2>3, HierarchyMixes
  <2> QED BY Zenon, <1>4, <2>2, <2>3 DEF MixIn
<1>5. ASSUME NEW n \in Names, Include(n) \/ Extend(n)
      PROVE  H!Next \/ UNCHANGED H!hierarchyVars
  <2>1. lookupConstant(constants, self, n) \in Values
    BY Zenon, ValuesFound
  <2>2. CASE Include(n)
    <3>1. MixIn(SelfClass, lookupConstant(constants, self, n))
      BY Zenon, <2>2 DEF Include
    <3>2. SelfClass \in Originals /\ SelfClass # Rootless
      BY Target
    <3> QED BY Zenon, <1>4, <2>1, <3>1, <3>2
  <2>3. CASE Extend(n)
    <3>1. self # Main /\ MixIn(heap[self].meta, lookupConstant(constants, self, n))
      BY Zenon, <2>3 DEF Extend
    <3>2. heap[self].meta \in Originals /\ heap[self].meta # Rootless
      BY <3>1, Target
    <3> QED BY Zenon, <1>4, <2>1, <3>1, <3>2
  <2> QED BY <1>5, <2>2, <2>3
<1>6. ASSUME NEW n \in Names, Assign(n) PROVE UNCHANGED H!hierarchyVars
  <2>1. PICK value \in Values : SetConstant(n, value)
    <3>1. CASE SetConstant(n, Plain)
      BY Zenon, <3>1 DEF Values
    <3>2. CASE \E s \in Names : SetConstant(n, lookupConstant(constants, Top, s))
      BY Zenon, <3>2, ValuesFound
    <3> QED BY Zenon, <1>6, <3>1, <3>2 DEF Assign
  <2> QED BY Zenon, <2>1, HierarchyAssigned
<1>7. ASSUME NEW n \in MethodNames, DefMethod(n) \/ DefMetaMethod(n) PROVE H!Next
  <2>1. CASE DefMethod(n)
    BY Zenon, <2>1, Target, HierarchyDefines DEF DefMethod
  <2>2. CASE DefMetaMethod(n)
    BY Zenon, <2>2, Target, HierarchyDefines DEF DefMetaMethod
  <2> QED BY <1>7, <2>1, <2>2
<1> QED BY Zenon, <1>1, <1>2, <1>3, <1>5, <1>6, <1>7 DEF Next

\* However class, include, extend, def and the assignment of constants set the
\* pointers between structs, copies and metaclasses (class.go:226-310), a program
\* sees classes that are declared with a superclass they keep, into which one
\* module at a time is mixed, in front of the others, and that get one method at
\* a time: nothing that a statement does to one class shows in another.
THEOREM ClassesImplementHierarchy == Spec => ImplementsHierarchy
BY IInvAlways, HierarchyInit, HierarchyStep, PTL DEF Spec, ImplementsHierarchy, H!Spec

=============================================================================
