--------------------------- MODULE ClassesLookups ---------------------------
(* Proofs about the lookups of Classes: that they end, and what they find.    *)
EXTENDS ClassesProofs, FiniteSetTheorems

-----------------------------------------------------------------------------
(* Lines as sets.                                                            *)

\* The elements of a sequence that another element is put in front of.
LEMMA ElementsPrefixed ==
  ASSUME NEW S, NEW c \in S, NEW s \in Seq(S)
  PROVE  ToSet(<<c>> \o s) = {c} \cup ToSet(s)
<1>1. PICK t : t = <<c>> \o s
  OBVIOUS
<1>2. t \in Seq(S) /\ Len(t) = Len(s) + 1 /\ t[1] = c
      /\ \A i \in 1..Len(s) : t[i + 1] = s[i]
  BY <1>1
<1>3. ASSUME NEW x \in ToSet(t) PROVE x \in {c} \cup ToSet(s)
  <2>1. PICK i \in 1..Len(t) : x = t[i]
    BY <1>2 DEF ToSet
  <2>2. CASE i = 1
    BY <1>2, <2>1, <2>2
  <2>3. CASE i # 1
    <3>1. i - 1 \in 1..Len(s) /\ t[(i - 1) + 1] = s[i - 1] /\ (i - 1) + 1 = i
      BY <1>2, <2>3
    <3>2. s[i - 1] \in ToSet(s)
      BY <3>1 DEF ToSet
    <3> QED BY <2>1, <3>1, <3>2
  <2> QED BY <2>2, <2>3
<1>4. ASSUME NEW x \in {c} \cup ToSet(s) PROVE x \in ToSet(t)
  <2>1. CASE x = c
    <3>1. 1 \in DOMAIN t
      BY <1>2
    <3> QED BY <1>2, <2>1, <3>1 DEF ToSet
  <2>2. CASE x \in ToSet(s)
    <3>1. PICK i \in 1..Len(s) : x = s[i]
      BY <2>2 DEF ToSet
    <3>2. i + 1 \in DOMAIN t /\ t[i + 1] = x
      BY <1>2, <3>1
    <3> QED BY <3>2 DEF ToSet
  <2> QED BY <2>1, <2>2
<1> QED BY <1>1, <1>3, <1>4

\* The only element of a sequence of one.
LEMMA ElementsOne ==
  ASSUME NEW c
  PROVE  ToSet(<<c>>) = {c}
<1>1. DOMAIN <<c>> = {1} /\ <<c>>[1] = c
  OBVIOUS
<1> QED BY <1>1 DEF ToSet

\* A line whose elements are followed by one of a lower rank holds, with each
\* element that it does not stop at, the next one.
LEMMA AlongClosed ==
  ASSUME NEW next, NEW stop, NEW S \in SUBSET DOMAIN next, NEW rank \in [S -> Nat], NEW G,
         \A x \in S : stop[x] \/ next[x] \in S,
         \A x \in S \cap G : stop[x] \/ rank[next[x]] < rank[x]
  PROVE  \A f \in Nat : \A c \in S :
           LET line == ToSet(Along(next, c, stop, f))
           IN rank[c] <= f /\ line \subseteq G =>
                /\ c \in line /\ line \subseteq S
                /\ \A x \in line : stop[x] \/ next[x] \in line
<1> DEFINE line(c, n) == ToSet(Along(next, c, stop, n))
           P(c, n) == rank[c] <= n /\ line(c, n) \subseteq G =>
                        /\ c \in line(c, n) /\ line(c, n) \subseteq S
                        /\ \A x \in line(c, n) : stop[x] \/ next[x] \in line(c, n)
           T == {n \in Nat : \A c \in S : P(c, n)}
<1>1. ASSUME NEW n \in Nat, NEW c \in S, stop[c]
      PROVE  P(c, n)
  <2>1. Along(next, c, stop, n) = <<c>>
    BY <1>1, AlongStep
  <2>2. line(c, n) = {c}
    BY Zenon, <2>1, ElementsOne
  <2> HIDE DEF line
  <2> QED BY <1>1, <2>2
<1>2. 0 \in T
  <2>1. ASSUME NEW c \in S PROVE P(c, 0)
    <3>1. Along(next, c, stop, 0) = <<c>>
      BY AlongStep
    <3>2. line(c, 0) = {c}
      BY Zenon, <3>1, ElementsOne
    <3> HIDE DEF line
    <3>3. CASE rank[c] <= 0 /\ c \in G
      <4>1. rank[c] = 0 /\ (next[c] \in S => rank[next[c]] \in Nat)
        BY <3>3
      <4>2. stop[c]
        BY <3>3, <4>1
      <4> QED BY <1>1, <4>2
    <3> QED BY <3>2, <3>3
  <2> HIDE DEF P
  <2> QED BY <2>1
<1>3. ASSUME NEW n \in Nat, n \in T PROVE n + 1 \in T
  <2>1. ASSUME NEW c \in S, rank[c] <= n + 1, line(c, n + 1) \subseteq G, ~stop[c]
        PROVE  /\ c \in line(c, n + 1) /\ line(c, n + 1) \subseteq S
               /\ \A x \in line(c, n + 1) : stop[x] \/ next[x] \in line(c, n + 1)
    <3>1. Along(next, c, stop, n + 1) = <<c>> \o Along(next, next[c], stop, n)
      BY <2>1, AlongNext
    <3>2. next[c] \in S /\ Along(next, next[c], stop, n) \in Seq(S)
      <4>1. next[c] \in S
        BY <2>1
      <4> QED BY <4>1, AlongLast
    <3>3. line(c, n + 1) = {c} \cup line(next[c], n)
      <4>1. PICK s \in Seq(S) : s = Along(next, next[c], stop, n)
        BY <3>2
      <4>2. ToSet(<<c>> \o s) = {c} \cup ToSet(s)
        BY ElementsPrefixed
      <4> QED BY Zenon, <3>1, <4>1, <4>2
    <3> HIDE DEF line
    <3>4. rank[next[c]] < rank[c] /\ rank[c] \in Nat /\ rank[next[c]] \in Nat
      BY <2>1, <3>2, <3>3
    <3>5. rank[next[c]] <= n /\ line(next[c], n) \subseteq G
      BY <2>1, <3>3, <3>4
    <3>6. /\ next[c] \in line(next[c], n) /\ line(next[c], n) \subseteq S
          /\ \A x \in line(next[c], n) : stop[x] \/ next[x] \in line(next[c], n)
      BY Zenon, <1>3, <3>2, <3>5
    <3> QED BY <3>3, <3>6
  <2>2. n + 1 \in Nat
    OBVIOUS
  <2>3. ASSUME NEW c \in S PROVE P(c, n + 1)
    <3>1. CASE stop[c]
      BY <1>1, <2>2, <3>1
    <3> HIDE DEF line
    <3> QED BY Zenon, <2>1, <3>1
  <2> HIDE DEF P
  <2> QED BY <2>2, <2>3
<1> HIDE DEF T
<1>4. \A n \in Nat : n \in T
  BY Zenon, <1>2, <1>3, Induction
<1> QED BY Zenon, <1>4 DEF T

-----------------------------------------------------------------------------
(* Where the lines of superclasses end.  Every struct that is not its own      *)
(* parent leads to one of a lower rank; the metaclasses follow the classes;    *)
(* each class is held by a constant, and by two if its scope is not older than *)
(* itself.                                                                     *)

Looped(c) == c \in Originals /\ Parent(c) = c
Descends(rank) ==
  \A c \in Structs : /\ rank[c] < Len(heap)
                     /\ Looped(c) \/ rank[heap[c].super] < rank[c]
Ladder == \E rank \in [Structs -> Nat] : Descends(rank)

Lineage ==
  /\ Parent(2) = Class /\ Parent(Class) = Module /\ Parent(Module) = Object
  /\ \A c \in UserClasses :
       \/ Parent(c + 1) \in {2, Module}
       \/ Parent(c) \in UserClasses /\ Parent(c + 1) = Parent(c) + 1

Holds(c, b) == b \in Originals \X Names /\ constants[b[1]][b[2]] = c
Bound ==
  \A c \in UserClasses :
    \E b : /\ Holds(c, b)
           /\ heap[c].scope < c \/ \E d : d # b /\ Holds(c, d)

\* isA and the like stop at a struct of this name.
Named == heap[Object].name = "Object"

LInv == Ladder /\ Lineage /\ Bound /\ Named

ParentsKept == \A c \in Originals : c \in Originals' /\ Parent(c)' = Parent(c)

\* No statement gives a class another parent.
LEMMA ParentsStay ==
  ASSUME IInv, IInv', [Next]_vars
  PROVE  ParentsKept
<1>1. H!Next \/ UNCHANGED H!hierarchyVars
  BY HierarchyStep
<1>2. /\ parents = [c \in Originals |-> Parent(c)]
      /\ parents' = [c \in Originals' |-> Parent(c)']
  BY Zenon DEF parents
<1>3. \/ UNCHANGED parents
      \/ DOMAIN parents \subseteq DOMAIN parents'
         /\ \A c \in DOMAIN parents : parents'[c] = parents[c]
  <2>1. CASE H!Next
    <3>1. H!Declare \/ UNCHANGED parents
      BY Zenon, <2>1 DEF H!Next, H!Define, H!MixIn, parents
    <3> QED BY Zenon, <3>1 DEF H!Declare, H!Declared, parents
  <2>2. CASE UNCHANGED H!hierarchyVars
    BY Zenon, <2>2 DEF H!hierarchyVars, parents
  <2> QED BY <1>1, <2>1, <2>2
<1>4. DOMAIN parents = Originals /\ DOMAIN parents' = Originals'
  BY Zenon, <1>2
<1>5. ASSUME NEW c \in Originals PROVE c \in Originals' /\ parents'[c] = parents[c]
  BY Zenon, <1>3, <1>4
<1> QED BY Zenon, <1>2, <1>5 DEF ParentsKept

\* Statements that leave the structs and the constants alone.
LEMMA QuietStays ==
  ASSUME LInv, UNCHANGED <<heap, constants>>
  PROVE  LInv'
<1>1. /\ Structs' = Structs /\ Originals' = Originals /\ UserClasses' = UserClasses
      /\ \A c : Parent(c)' = Parent(c)
  <2>1. Structs' = Structs /\ Super' = Super /\ \A c : IsCopy(c)' = IsCopy(c)
    BY Zenon DEF Structs, Super, IsCopy
  <2>2. Originals' = Originals /\ UserClasses' = UserClasses
    BY Zenon, <2>1 DEF Originals, UserClasses
  <2>3. ASSUME NEW c PROVE Parent(c)' = Parent(c)
    <3>1. UpToOriginal(c)' = UpToOriginal(c)
      BY Zenon, <2>1 DEF UpToOriginal
    <3> QED BY Zenon, <2>1, <3>1 DEF Parent
  <2> QED BY Zenon, <2>1, <2>2, <2>3
<1>2. Ladder' = Ladder
  BY Zenon, <1>1 DEF Ladder, Descends, Looped
<1>3. Lineage' = Lineage
  BY Zenon, <1>1 DEF Lineage
<1>4. Bound' = Bound
  BY Zenon, <1>1 DEF Bound, Holds
<1>5. Named' = Named
  BY Zenon DEF Named
<1> QED BY Zenon, <1>2, <1>3, <1>4, <1>5 DEF LInv

\* The ladder, where the pointers to superclasses stay.
LEMMA LadderStays ==
  ASSUME Ladder, ParentsKept, Structs' = Structs, Len(heap') = Len(heap),
         \A c \in Structs : heap'[c].super = heap[c].super
  PROVE  Ladder'
<1>1. PICK rank \in [Structs -> Nat] : Descends(rank)
  BY DEF Ladder
<1>2. \A c \in Structs : Looped(c) => Looped(c)'
  BY Zenon DEF Looped, ParentsKept
<1>3. Descends(rank)'
  BY Zenon, <1>1, <1>2 DEF Descends
<1> QED BY Zenon, <1>1, <1>3 DEF Ladder

\* The one struct without a superclass is its own parent.
LEMMA RootlessLoops ==
  ASSUME IInv
  PROVE  Looped(Rootless)
<1>1. Rootless \in Originals /\ heap[Rootless].super = 0
  <2>1. Rows /\ Pointers
    BY DEF IInv
  <2>2. Rootless \in Originals /\ Rootless \in Structs
    BY <2>1, BuiltinStructs DEF Rootless, Builtins, Originals
  <2> QED BY <2>1, <2>2 DEF Pointers
<1>2. Parent(Rootless) = Rootless
  BY Zenon, <1>1, ShownBefore DEF Shown, Originals
<1> QED BY <1>1, <1>2 DEF Looped

\* The parent is what the pointer leads to, if that is an original.
LEMMA StraightUp ==
  ASSUME IInv, NEW c \in Structs, heap[c].super \in Originals
  PROVE  Parent(c) = heap[c].super
<1>1. PICK sc \in Originals : sc = heap[c].super
  OBVIOUS
<1>2. sc \in Structs /\ Upright[sc] /\ sc # 0 /\ Len(heap) \in Nat
  <2>1. sc \in Structs /\ ~IsCopy(sc) /\ Len(heap) \in Nat
    BY DEF Originals, IInv, Rows
  <2>2. Upright[sc]
    BY Zenon, <2>1 DEF Upright
  <2> QED BY <2>1, <2>2 DEF Structs
<1>3. Up(sc) = <<sc>>
  <2>1. DOMAIN Super = Structs
    BY DEF Super
  <2> QED BY <1>2, <2>1, AlongStep DEF Up
<1>4. Parent(c) = Last(Up(sc))
  BY Zenon, <1>1, <1>2, ShownBefore DEF Shown
<1>5. Last(<<sc>>) = sc
  BY DEF Last
<1> QED BY Zenon, <1>1, <1>3, <1>4, <1>5

StraightLines == \A c \in Structs : heap[c].super \in Originals => Parent(c) = heap[c].super

\* The same of every struct.
LEMMA StraightBefore == IInv => StraightLines
BY StraightUp DEF StraightLines

\* The same of the next state.
LEMMA StraightAfter == IInv' => StraightLines'
BY StraightBefore, PTL

\* A class and its metaclass go to the top of it.
LEMMA LadderGrows ==
  ASSUME IInv, IInv', Ladder, ParentsKept, NEW a, NEW b, Newborn(a, b),
         heap' = heap \o <<a, b>>
  PROVE  Ladder'
<1> PICK L \in Nat : L = Len(heap)
  BY DEF IInv, Rows
<1>0. Rows /\ Pointers
  BY DEF IInv
<1>1. /\ Len(heap') = L + 2 /\ \A c \in Structs : heap'[c] = heap[c]
      /\ heap'[L + 1] = a /\ heap'[L + 2] = b
      /\ Structs' = Structs \cup {L + 1, L + 2}
      /\ Originals' = Originals \cup {L + 1, L + 2}
  BY <1>0, Grown
<1>2. Structs = 1..L /\ Originals \subseteq Structs
  BY DEF Structs, Originals
<1>3. PICK rank \in [Structs -> Nat] : Descends(rank)
  BY DEF Ladder
<1>4. PICK new \in [Structs' -> Nat] :
        new = [c \in Structs' |-> IF c \in Structs THEN rank[c] ELSE L]
  OBVIOUS
<1>5. ASSUME NEW c \in Structs
      PROVE  new[c] < L + 2 /\ (Looped(c)' \/ new[heap'[c].super] < new[c])
  <2>1. new[c] = rank[c] /\ rank[c] < L /\ rank[c] \in Nat /\ c \in Structs'
    BY <1>1, <1>3, <1>4 DEF Descends
  <2>2. CASE Looped(c)
    <3>1. Looped(c)'
      BY Zenon, <2>2 DEF Looped, ParentsKept
    <3> QED BY <2>1, <3>1
  <2>3. CASE ~Looped(c)
    <3>1. rank[heap[c].super] < rank[c]
      BY <1>3, <2>3 DEF Descends
    <3>2. heap[c].super \in Structs
      BY <2>3, RootlessLoops, <1>0 DEF Pointers
    <3>3. heap'[c].super = heap[c].super /\ heap[c].super \in Structs'
      BY Zenon, <1>1, <3>2
    <3>4. new[heap'[c].super] = rank[heap[c].super]
      BY Zenon, <1>4, <3>2, <3>3
    <3> QED BY <2>1, <3>1, <3>4
  <2> QED BY <2>2, <2>3
<1>6. ASSUME NEW c \in {L + 1, L + 2}
      PROVE  new[c] < L + 2 /\ (Looped(c)' \/ new[heap'[c].super] < new[c])
  <2>1. c \in Originals' /\ new[c] = L
    BY <1>1, <1>2, <1>4
  <2>2. heap'[c].super \in Originals \cup {c}
    BY <1>1 DEF Newborn
  <2>3. CASE heap'[c].super = c
    <3>1. Parent(c)' = c
      BY <2>1, <2>3, StraightAfter DEF StraightLines, Originals
    <3> QED BY <2>1, <3>1 DEF Looped
  <2>4. CASE heap'[c].super \in Originals
    <3>1. PICK d \in Structs : d = heap'[c].super
      BY <1>2, <2>4
    <3>2. new[d] = rank[d] /\ rank[d] < L
      BY <1>1, <1>3, <1>4 DEF Descends
    <3> QED BY <2>1, <3>1, <3>2
  <2> QED BY <2>2, <2>3, <2>4
<1>7. Descends(new)'
  BY Zenon, <1>1, <1>5, <1>6 DEF Descends
<1> QED BY Zenon, <1>4, <1>7 DEF Ladder

\* A copy goes on the rung above what the class led to, and what was higher goes
\* one up.
LEMMA LadderSpliced ==
  ASSUME IInv, Ladder, ParentsKept, NEW class \in Originals, class # Rootless,
         NEW module \in UserClasses, heap' = Splice(class, module)
  PROVE  Ladder'
<1> PICK L \in Nat : L = Len(heap)
  BY DEF IInv, Rows
<1>0. Rows /\ Pointers
  BY DEF IInv
<1>1. /\ Len(heap') = L + 1 /\ Structs' = Structs \cup {L + 1}
      /\ \A c \in Structs : heap'[c].super = IF c = class THEN L + 1 ELSE heap[c].super
      /\ heap'[L + 1].super = heap[class].super
  <2>1. IsSpliced(class, module, L)
    BY <1>0, Spliced
  <2> QED BY <2>1 DEF IsSpliced
<1>2. Structs = 1..L /\ class \in Structs
  BY DEF Structs, Originals
<1>3. PICK rank \in [Structs -> Nat] : Descends(rank)
  BY DEF Ladder
<1>4. PICK sc \in Structs : sc = heap[class].super
  BY <1>0, <1>2 DEF Pointers
<1>5. PICK r \in Nat : r = rank[sc] /\ r < L
  BY <1>3 DEF Descends
<1> DEFINE lifted(c) == IF rank[c] > r THEN rank[c] + 1 ELSE rank[c]
<1>6. PICK new \in [Structs' -> Nat] :
        /\ \A c \in Structs : new[c] = lifted(c)
        /\ new[L + 1] = r + 1
  <2> DEFINE f == [c \in Structs' |-> IF c \in Structs THEN lifted(c) ELSE r + 1]
  <2>1. f \in [Structs' -> Nat]
    OBVIOUS
  <2>2. /\ \A c \in Structs : f[c] = lifted(c)
        /\ f[L + 1] = r + 1
    <3> HIDE DEF lifted
    <3> QED BY <1>1, <1>2
  <2> HIDE DEF f
  <2> QED BY <2>1, <2>2
<1>7. ASSUME NEW c \in Structs
      PROVE  new[c] < L + 1 /\ (Looped(c)' \/ new[heap'[c].super] < new[c])
  <2>1. new[c] = lifted(c) /\ rank[c] < L /\ rank[c] \in Nat /\ new[c] < L + 1
    BY <1>3, <1>6 DEF Descends
  <2>2. CASE Looped(c)
    <3>1. Looped(c)'
      BY Zenon, <2>2 DEF Looped, ParentsKept
    <3> QED BY <2>1, <3>1
  <2>3. CASE ~Looped(c)
    <3>1. rank[heap[c].super] < rank[c]
      BY <1>3, <2>3 DEF Descends
    <3>2. PICK d \in Structs : d = heap[c].super
      BY <2>3, RootlessLoops, <1>0 DEF Pointers
    <3>3. CASE c = class
      <4>1. new[heap'[c].super] = r + 1 /\ rank[c] > r
        BY <1>1, <1>4, <1>5, <1>6, <3>1, <3>3
      <4> QED BY <2>1, <4>1
    <3>4. CASE c # class
      <4>1. new[heap'[c].super] = lifted(d) /\ rank[d] < rank[c] /\ rank[d] \in Nat
        BY <1>1, <1>6, <3>1, <3>2, <3>4
      <4> QED BY <2>1, <4>1
    <3> QED BY <3>3, <3>4
  <2> QED BY <2>2, <2>3
<1>8. ASSUME NEW c \in {L + 1}
      PROVE  new[c] < L + 1 /\ (Looped(c)' \/ new[heap'[c].super] < new[c])
  <2>1. heap'[c].super = sc /\ new[c] = r + 1 /\ new[sc] = lifted(sc)
    BY <1>1, <1>4, <1>6
  <2>2. new[sc] = r
    BY <1>5, <2>1
  <2> QED BY <1>5, <2>1, <2>2
<1>9. Descends(new)'
  BY Zenon, <1>1, <1>7, <1>8 DEF Descends
<1> QED BY Zenon, <1>9 DEF Ladder

\* The lineage, if the classes that are new belong into it.
LEMMA LineageStays ==
  ASSUME IInv, Lineage, ParentsKept, UserClasses \subseteq UserClasses',
         \A c \in UserClasses' \ UserClasses :
           \/ Parent(c + 1)' \in {2, Module}
           \/ Parent(c)' \in UserClasses' /\ Parent(c + 1)' = Parent(c)' + 1
  PROVE  Lineage'
<1>0. Rows /\ Pointers
  BY DEF IInv
<1>1. {2, Class, Module} \subseteq Originals
  BY <1>0, BuiltinStructs DEF Builtins, Class, Module
<1>2. Parent(2)' = Class /\ Parent(Class)' = Module /\ Parent(Module)' = Object
  BY Zenon, <1>1 DEF Lineage, ParentsKept
<1>3. ASSUME NEW c \in UserClasses
      PROVE  \/ Parent(c + 1)' \in {2, Module}
             \/ Parent(c)' \in UserClasses' /\ Parent(c + 1)' = Parent(c)' + 1
  <2>1. c \in Originals /\ c + 1 \in Originals
    BY <1>0, BuiltinStructs DEF Pointers
  <2>2. Parent(c)' = Parent(c) /\ Parent(c + 1)' = Parent(c + 1)
    BY Zenon, <2>1 DEF ParentsKept
  <2> QED BY Zenon, <2>2 DEF Lineage
<1> QED BY Zenon, <1>2, <1>3 DEF Lineage

\* A class and its metaclass get parents that follow each other as they do.
LEMMA LineageGrows ==
  ASSUME IInv, IInv', Lineage, ParentsKept, NEW a, NEW b, Newborn(a, b),
         heap' = heap \o <<a, b>>
  PROVE  Lineage'
<1> PICK L \in Nat : L = Len(heap)
  BY DEF IInv, Rows
<1>0. Rows /\ Pointers
  BY DEF IInv
<1>1. /\ heap'[L + 1] = a /\ heap'[L + 2] = b
      /\ Structs' = Structs \cup {L + 1, L + 2}
      /\ Originals' = Originals \cup {L + 1, L + 2}
      /\ UserClasses' = UserClasses \cup {L + 1}
  BY <1>0, Grown
<1>2. /\ a.super \in Originals' /\ b.super \in Originals'
      /\ \/ b.super \in {2, Module}
         \/ a.super \in UserClasses' /\ b.super = a.super + 1
  BY <1>1 DEF Newborn
<1>3. Parent(L + 1)' = a.super /\ Parent(L + 2)' = b.super
  <2>1. {L + 1, L + 2} \subseteq Structs'
    BY <1>1
  <2> QED BY <1>1, <1>2, <2>1, StraightAfter DEF StraightLines
<1>4. ASSUME NEW c \in UserClasses' \ UserClasses
      PROVE  \/ Parent(c + 1)' \in {2, Module}
             \/ Parent(c)' \in UserClasses' /\ Parent(c + 1)' = Parent(c)' + 1
  <2>1. c = L + 1 /\ c + 1 = L + 2
    BY <1>1
  <2> QED BY Zenon, <1>2, <1>3, <2>1
<1> QED BY <1>1, <1>4, LineageStays

-----------------------------------------------------------------------------
(* The constants that hold the classes.                                      *)

\* No constant that holds something is set again, nor is it in a copy.
ConstantsKept ==
  \A b \in Originals \X Names :
    constants[b[1]][b[2]] # 0 =>
      b \in Originals' \X Names /\ constants'[b[1]][b[2]] = constants[b[1]][b[2]]

\* A class that is held stays held.
LEMMA HoldsStays ==
  ASSUME ConstantsKept, NEW c \in UserClasses, NEW b, Holds(c, b)
  PROVE  Holds(c, b)'
<1>1. c # 0
  BY DEF UserClasses, Builtins
<1>2. b \in Originals \X Names /\ constants[b[1]][b[2]] = c
  BY DEF Holds
<1>3. b \in Originals' \X Names /\ constants'[b[1]][b[2]] = c
  BY Zenon, <1>1, <1>2 DEF ConstantsKept
<1> QED BY Zenon, <1>3 DEF Holds

BoundOnce(c) == \E b : /\ Holds(c, b)
                       /\ heap[c].scope < c \/ \E d : d # b /\ Holds(c, d)

\* A class that keeps its scope is bound as it was.
LEMMA BoundStays ==
  ASSUME Bound, ConstantsKept, NEW c \in UserClasses, heap'[c].scope = heap[c].scope
  PROVE  BoundOnce(c)'
<1>1. PICK b : /\ Holds(c, b)
               /\ heap[c].scope < c \/ \E d : d # b /\ Holds(c, d)
  BY DEF Bound
<1>2. Holds(c, b)' /\ \A d : Holds(c, d) => Holds(c, d)'
  BY Zenon, <1>1, HoldsStays
<1> QED BY Zenon, <1>1, <1>2 DEF BoundOnce

\* What a class holds itself is what a lookup in it finds.
LEMMA FoundAtOnce ==
  ASSUME IInv, NEW c \in Originals, NEW n \in Names, constants[c][n] # 0
  PROVE  lookupConstantUnderAllScope(constants, c, n) = constants[c][n]
<1> DEFINE stop == [x \in Structs |-> constants[heap[x].maps][n] # 0 \/ Scope[x] = 0]
<1>1. c \in Structs /\ heap[c].maps = c
  BY DEF Originals, IsCopy
<1>2. stop[c] /\ c \in DOMAIN Scope
  BY <1>1 DEF Scope
<1>3. Len(heap) \in Nat
  BY DEF IInv, Rows
<1> HIDE DEF stop
<1>4. Along(Scope, c, stop, Len(heap)) = <<c>>
  BY <1>2, <1>3, AlongStep
<1>5. Last(<<c>>) = c
  BY DEF Last
<1>6. Holder(constants, c, n) = c
  BY Zenon, <1>4, <1>5 DEF Holder, stop
<1> QED BY Zenon, <1>1, <1>6 DEF lookupConstantUnderAllScope

\* A constant and where it is.
LEMMA Placed ==
  ASSUME NEW S, NEW T, NEW c \in S, NEW n \in T
  PROVE  \E p \in S \X T : p[1] = c /\ p[2] = n
<1>1. <<c, n>> \in S \X T /\ <<c, n>>[1] = c /\ <<c, n>>[2] = n
  OBVIOUS
<1> QED BY Zenon, <1>1

\* The class that a class statement declares is stored where nothing was, and it
\* is younger than its scope.
LEMMA BoundGrows ==
  ASSUME IInv, IInv', Bound, NEW n \in Names, New(n), NEW a, NEW b, Newborn(a, b),
         heap' = heap \o <<a, b>>
  PROVE  Bound'
<1> PICK L \in Nat : L = Len(heap)
  BY DEF IInv, Rows
<1>0. Rows /\ Pointers /\ Contents
  BY DEF IInv
<1>1. /\ \A c \in Structs : heap'[c] = heap[c]
      /\ heap'[L + 1] = a
      /\ Structs' = Structs \cup {L + 1, L + 2}
      /\ Originals' = Originals \cup {L + 1, L + 2}
      /\ UserClasses' = UserClasses \cup {L + 1}
  BY <1>0, Grown
<1>2. SelfClass \in Originals /\ Originals \subseteq Structs /\ Structs = 1..L
  BY Target DEF Originals, Structs
<1>3. constants[SelfClass][n] = 0
  BY Zenon, <1>2, FoundAtOnce DEF New
<1>4. \A x \in Structs : \A m \in Names :
        constants'[x][m] = IF x = SelfClass /\ m = n THEN L + 1 ELSE constants[x][m]
  <2>1. constants' = storeConstant(n)
    BY DEF New
  <2>2. \A x \in Structs : \A m \in Names :
          storeConstant(n)[x][m]
            = IF x = SelfClass /\ m = n THEN Len(heap) + 1 ELSE constants[x][m]
    BY <1>0, StoredNew
  <2> QED BY Zenon, <2>1, <2>2
<1>5. ConstantsKept
  BY Zenon, <1>1, <1>2, <1>3, <1>4 DEF ConstantsKept
<1>6. ASSUME NEW c \in UserClasses PROVE BoundOnce(c)'
  <2>1. heap'[c].scope = heap[c].scope
    BY <1>1, <1>2 DEF UserClasses, Originals, Structs, Builtins
  <2> QED BY <1>5, <2>1, BoundStays
<1>7. BoundOnce(L + 1)'
  <2>1. heap'[L + 1].scope < L + 1
    BY <1>0, <1>1 DEF Newborn, Contents, UserClasses, Main
  <2>2. PICK p \in Originals \X Names : p[1] = SelfClass /\ p[2] = n
    BY <1>2, Placed
  <2>3. p \in Originals' \X Names
    BY <1>1, <2>2
  <2>4. constants'[p[1]][p[2]] = L + 1
    BY Zenon, <1>2, <1>4, <2>2
  <2>5. Holds(L + 1, p)'
    BY Zenon, <2>3, <2>4 DEF Holds
  <2> QED BY Zenon, <2>1, <2>5 DEF BoundOnce
<1> QED BY Zenon, <1>1, <1>6, <1>7 DEF Bound, BoundOnce

\* A class that gets another scope gets another constant.
LEMMA BoundAssigned ==
  ASSUME IInv, Bound, NEW n \in Names, NEW value \in Values, SetConstant(n, value)
  PROVE  Bound'
<1>0. Rows /\ Pointers /\ Contents
  BY DEF IInv
<1>1. SelfClass \in Originals /\ Originals \subseteq Structs
  BY Target DEF Originals
<1>2. constants[SelfClass][n] = 0
  BY Zenon DEF SetConstant
<1>3. \A x \in Structs : \A m \in Names :
        constants'[x][m] = IF x = SelfClass /\ m = n THEN value ELSE constants[x][m]
  <2>1. constants' = [constants EXCEPT ![SelfClass][n] = value]
    BY Zenon DEF SetConstant
  <2>2. value \in Int
    BY <1>0 DEF Values, UserClasses, Plain, Builtins
  <2>3. \A x \in Structs : \A m \in Names :
          [constants EXCEPT ![SelfClass][n] = value][x][m]
            = IF x = SelfClass /\ m = n THEN value ELSE constants[x][m]
    BY <1>0, <2>2, Stored
  <2> QED BY Zenon, <2>1, <2>3
<1>4. /\ Originals' = Originals /\ UserClasses' = UserClasses
      /\ \A c \in UserClasses : c # value => heap'[c].scope = heap[c].scope
  <2>1. CASE UNCHANGED heap
    BY Zenon, <2>1 DEF Originals, UserClasses, Structs, IsCopy
  <2>2. CASE value \in Structs /\ heap' = [heap EXCEPT ![value].scope = self]
    <3>1. value \in UserClasses /\ self \in Nat
      BY <1>0, <2>2 DEF Values, Structs, Plain, Contents, UserClasses, Main, Builtins
    <3>2. /\ Originals' = Originals /\ UserClasses' = UserClasses
          /\ \A c \in Structs :
               heap'[c].scope = IF c = value THEN self ELSE heap[c].scope
      <4>1. PICK s \in Nat : s = self
        BY <3>1
      <4>2. heap' = [heap EXCEPT ![value].scope = s]
        BY Zenon, <2>2, <4>1
      <4> QED BY <1>0, <3>1, <4>1, <4>2, Rescoped
    <3>3. UserClasses \subseteq Structs
      BY <1>0, <1>1, BuiltinStructs
    <3> QED BY Zenon, <3>2, <3>3
  <2>3. heap' = IF value \in Structs /\ self # Main
                THEN [heap EXCEPT ![value].scope = self] ELSE heap
    BY DEF SetConstant
  <2> QED BY Zenon, <2>1, <2>2, <2>3
<1>5. ConstantsKept
  BY Zenon, <1>1, <1>2, <1>3, <1>4 DEF ConstantsKept
<1>6. ASSUME NEW c \in UserClasses, c # value PROVE BoundOnce(c)'
  BY Zenon, <1>4, <1>5, <1>6, BoundStays
<1>7. ASSUME value \in UserClasses PROVE BoundOnce(value)'
  <2>1. PICK b : Holds(value, b)
    BY <1>7 DEF Bound
  <2>2. Holds(value, b)'
    BY <1>5, <1>7, <2>1, HoldsStays
  <2>3. PICK p \in Originals \X Names : p[1] = SelfClass /\ p[2] = n
    BY <1>1, Placed
  <2>4. Holds(value, p)'
    <3>1. p \in Originals' \X Names /\ constants'[p[1]][p[2]] = value
      BY Zenon, <1>1, <1>3, <1>4, <2>3
    <3> QED BY Zenon, <3>1 DEF Holds
  <2>5. p # b
    <3>1. value # 0
      BY <1>7 DEF UserClasses, Builtins
    <3> QED BY Zenon, <1>2, <2>1, <2>3, <3>1 DEF Holds
  <2> QED BY Zenon, <2>2, <2>4, <2>5 DEF BoundOnce
<1> QED BY Zenon, <1>4, <1>6, <1>7 DEF Bound, BoundOnce

\* A copy holds no class, and a class that it is put above keeps its scope.
LEMMA BoundSpliced ==
  ASSUME IInv, Bound, NEW class \in Originals, class # Rootless,
         NEW module \in UserClasses, heap' = Splice(class, module),
         constants' = Append(constants, NoConstants)
  PROVE  Bound'
<1> PICK L \in Nat : L = Len(heap)
  BY DEF IInv, Rows
<1>0. Rows /\ Pointers
  BY DEF IInv
<1>1. /\ \A c \in Structs : heap'[c].scope = heap[c].scope
      /\ Originals' = Originals /\ UserClasses' = UserClasses
  <2>1. IsSpliced(class, module, L)
    BY <1>0, Spliced
  <2> QED BY Zenon, <2>1 DEF IsSpliced
<1>2. \A c \in Structs : constants'[c] = constants[c]
  <2>1. NoConstants \in [Names -> Int]
    BY DEF NoConstants
  <2>2. PICK s \in Seq([Names -> Int]) : s = constants /\ Len(s) = L
    BY <1>0 DEF Rows
  <2>3. \A c \in 1..Len(s) : Append(s, NoConstants)[c] = s[c]
    BY <2>1
  <2> QED BY Zenon, <2>2, <2>3 DEF Structs
<1>3. Originals \subseteq Structs /\ UserClasses \subseteq Structs
  BY <1>0, BuiltinStructs DEF Originals
<1>4. ConstantsKept
  BY Zenon, <1>1, <1>2, <1>3 DEF ConstantsKept
<1>5. ASSUME NEW c \in UserClasses PROVE BoundOnce(c)'
  BY Zenon, <1>1, <1>3, <1>4, BoundStays
<1> QED BY Zenon, <1>1, <1>5 DEF Bound, BoundOnce

-----------------------------------------------------------------------------
(* The name of Object.                                                       *)

\* A struct with another superclass has the name it had.
LEMMA NameOfField ==
  ASSUME NEW r \in RClasses, NEW k \in Nat
  PROVE  [r EXCEPT !.super = k] \in RClasses /\ [r EXCEPT !.super = k].name = r.name
BY DEF RClasses

\* Of a class statement.
LEMMA NameGrows ==
  ASSUME IInv, Named, NEW a, NEW b, Newborn(a, b), heap' = heap \o <<a, b>>
  PROVE  Named'
<1>1. \A c \in Structs : heap'[c] = heap[c]
  BY Grown DEF IInv
<1>2. Object \in Structs
  BY Own DEF IInv
<1> QED BY Zenon, <1>1, <1>2 DEF Named

\* Of include and extend, which may mix into Object.
LEMMA NameSpliced ==
  ASSUME IInv, Named, NEW class \in Originals, class # Rootless,
         NEW module \in UserClasses, heap' = Splice(class, module)
  PROVE  Named'
<1> PICK s \in Seq(RClasses) : s = heap /\ Object \in 1..Len(s)
  BY DEF IInv, Rows, Object, Builtins
<1> PICK k \in Nat : k = Len(s) + 1
  OBVIOUS
<1>1. class \in 1..Len(s) /\ s[class] \in RClasses
  BY DEF Originals, Structs
<1> PICK one \in RClasses : one = [s[class] EXCEPT !.super = k] /\ one.name = s[class].name
  BY <1>1, NameOfField
<1> PICK h \in Seq(RClasses) :
      /\ h = [s EXCEPT ![class] = one] /\ Len(h) = Len(s)
      /\ \A i \in 1..Len(s) : h[i] = IF i = class THEN one ELSE s[i]
  <2>1. /\ [s EXCEPT ![class] = one] \in Seq(RClasses)
        /\ Len([s EXCEPT ![class] = one]) = Len(s)
        /\ \A i \in 1..Len(s) : [s EXCEPT ![class] = one][i] = IF i = class THEN one ELSE s[i]
    BY <1>1, Replaced
  <2> QED BY Zenon, <2>1
<1> PICK copy : copy = [s[module] EXCEPT !.super = s[class].super]
  OBVIOUS
<1>2. heap' = h \o <<copy>>
  <2>1. [heap EXCEPT ![class].super = Len(heap) + 1] = h
    BY Zenon
  <2> QED BY Zenon, <2>1 DEF Splice
<1>3. (h \o <<copy>>)[Object] = h[Object]
  OBVIOUS
<1>4. h[Object].name = s[Object].name
  BY Zenon
<1> QED BY Zenon, <1>2, <1>3, <1>4 DEF Named

\* Of the assignment of a constant, which changes a class of the program at most.
LEMMA NameAssigned ==
  ASSUME IInv, Named, NEW n \in Names, NEW value \in Values, SetConstant(n, value)
  PROVE  Named'
<1>1. CASE UNCHANGED heap
  BY Zenon, <1>1 DEF Named
<1>2. CASE value \in Structs /\ heap' = [heap EXCEPT ![value].scope = self]
  <2>1. value # Object
    BY <1>2 DEF Values, Structs, Plain, UserClasses, Object, Builtins
  <2>2. Object \in DOMAIN heap
    BY DEF IInv, Rows, Object, Builtins
  <2>3. heap'[Object] = heap[Object]
    BY <1>2, <2>1, <2>2
  <2> QED BY Zenon, <2>3 DEF Named
<1>3. heap' = IF value \in Structs /\ self # Main
              THEN [heap EXCEPT ![value].scope = self] ELSE heap
  BY DEF SetConstant
<1> QED BY Zenon, <1>1, <1>2, <1>3

-----------------------------------------------------------------------------
(* The invariant, from the first state on.                                    *)

\* Where the superclass pointers lead at the start.
LEMMA InitLines ==
  ASSUME Init
  PROVE  /\ Len(heap) = 6 /\ Structs = 1..6 /\ Originals = Structs /\ UserClasses = {}
         /\ heap[1].super = 1 /\ heap[2].super = 3 /\ heap[3].super = 5
         /\ heap[5].super = 1 /\ heap[6].super = 2
         /\ heap[1].name = "Object"
<1>1. Rows /\ Pointers
  BY IInvInit DEF IInv
<1>2. Len(heap) = 6
  BY DEF Init
<1>3. Structs = 1..6 /\ Originals = Structs /\ UserClasses = {}
  <2>1. Structs = 1..6
    BY <1>2 DEF Structs
  <2>2. 1..Builtins \subseteq Originals /\ Originals \subseteq Structs
    BY <1>1, BuiltinStructs DEF Originals
  <2>3. UserClasses = {}
    BY <1>2 DEF UserClasses, Builtins
  <2> QED BY <2>1, <2>2, <2>3 DEF Builtins
<1> PICK a, b, c, d, e, f :
      /\ heap = <<a, b, c, d, e, f>>
      /\ a = RClass("Object", Object, Class, 2, 1)
      /\ b = [RClass("", Class, Class, 0, 2) EXCEPT !.pseudo = 0]
      /\ c = RClass("Class", Module, Class, 4, 3)
      /\ e = RClass("Module", Object, Class, 6, 5)
      /\ f = RClass("", 2, Class, 0, 6)
  BY Zenon DEF Init
<1>4. /\ heap[1] = a /\ heap[2] = b /\ heap[3] = c /\ heap[5] = e /\ heap[6] = f
  OBVIOUS
<1>5. a.super = 1 /\ a.name = "Object"
  BY DEF RClass, Object
<1>6. b.super = 3
  BY DEF RClass, Class
<1>7. c.super = 5
  BY DEF RClass, Module
<1>8. e.super = 1
  BY DEF RClass, Object
<1>9. f.super = 2
  BY DEF RClass
<1> QED BY Zenon, <1>2, <1>3, <1>4, <1>5, <1>6, <1>7, <1>8, <1>9

\* It holds of the structs the program starts with.
LEMMA LInvInit == Init => LInv
<1> SUFFICES ASSUME Init PROVE LInv
  OBVIOUS
<1>1. IInv
  BY IInvInit
<1>2. /\ Len(heap) = 6 /\ Structs = 1..6 /\ Originals = Structs /\ UserClasses = {}
      /\ heap[1].super = 1 /\ heap[2].super = 3 /\ heap[3].super = 5
      /\ heap[5].super = 1 /\ heap[6].super = 2
  BY InitLines
<1>3. \A c \in {1, 2, 3, 5, 6} : Parent(c) = heap[c].super
  BY <1>1, <1>2, StraightBefore DEF StraightLines
<1>4. Lineage
  BY <1>2, <1>3 DEF Lineage, Object, Class, Module
<1>5. Bound
  BY <1>2 DEF Bound
<1>6. PICK rank \in [Structs -> Nat] :
        /\ \A c \in Structs : rank[c] < 6
        /\ rank[1] = 0 /\ rank[5] = 1 /\ rank[3] = 2 /\ rank[2] = 3 /\ rank[6] = 4
  <2> DEFINE f == [c \in 1..6 |-> IF c = 1 THEN 0 ELSE IF c = 5 THEN 1 ELSE IF c = 3 THEN 2
                                  ELSE IF c = 2 THEN 3 ELSE 4]
  <2>1. f \in [1..6 -> Nat] /\ \A c \in 1..6 : f[c] < 6
    OBVIOUS
  <2>2. f[1] = 0 /\ f[5] = 1 /\ f[3] = 2 /\ f[2] = 3 /\ f[6] = 4
    OBVIOUS
  <2> HIDE DEF f
  <2> QED BY <1>2, <2>1, <2>2
<1>7. Looped(1) /\ Looped(4)
  BY <1>1, <1>2, <1>3, RootlessLoops DEF Looped, Rootless
<1>8. ASSUME NEW c \in Structs
      PROVE  rank[c] < Len(heap) /\ (Looped(c) \/ rank[heap[c].super] < rank[c])
  BY <1>2, <1>6, <1>7
<1>9. Ladder
  BY Zenon, <1>8 DEF Ladder, Descends
<1>10. Named
  BY InitLines DEF Named, Object
<1> QED BY <1>4, <1>5, <1>9, <1>10 DEF LInv

\* class N and module N add such a pair as class N < S does.
LEMMA ClassBorn ==
  ASSUME IInv, NEW n \in Names, DefineClass(n)
  PROVE  \E a, b : Newborn(a, b) /\ heap' = heap \o <<a, b>>
<1>1. /\ Newborn(InitClass(n)[1], InitClass(n)[2])
      /\ Newborn(InitModule(n)[1], InitModule(n)[2])
  BY InitsAreNewborn DEF IInv
<1>2. /\ InitClass(n) = <<InitClass(n)[1], InitClass(n)[2]>>
      /\ InitModule(n) = <<InitModule(n)[1], InitModule(n)[2]>>
  BY DEF InitClass, InitModule
<1>3. heap' = heap \o InitClass(n) \/ heap' = heap \o InitModule(n)
  BY Zenon DEF DefineClass
<1> QED BY Zenon, <1>1, <1>2, <1>3

\* What include and extend mix in, and where.
LEMMA MixedIn ==
  ASSUME IInv, NEW n \in Names, Include(n) \/ Extend(n)
  PROVE  \E class \in Originals, module \in Values :
           class # Rootless /\ MixIn(class, module)
<1>1. lookupConstant(constants, self, n) \in Values
  BY Zenon, ValuesFound
<1>2. CASE Include(n)
  <2>1. MixIn(SelfClass, lookupConstant(constants, self, n))
    BY Zenon, <1>2 DEF Include
  <2>2. SelfClass \in Originals /\ SelfClass # Rootless
    BY Target
  <2> QED BY Zenon, <1>1, <2>1, <2>2
<1>3. CASE Extend(n)
  <2>1. self # Main /\ MixIn(heap[self].meta, lookupConstant(constants, self, n))
    BY Zenon, <1>3 DEF Extend
  <2>2. heap[self].meta \in Originals /\ heap[self].meta # Rootless
    BY <2>1, Target
  <2> QED BY Zenon, <1>1, <2>1, <2>2
<1> QED BY <1>2, <1>3

\* The assignment of a constant leaves the superclasses as they are.
LEMMA AssignedLines ==
  ASSUME IInv, NEW n \in Names, NEW value \in Values, SetConstant(n, value)
  PROVE  /\ Structs' = Structs /\ Len(heap') = Len(heap) /\ UserClasses' = UserClasses
         /\ \A c \in Structs : heap'[c].super = heap[c].super
<1>0. Rows /\ Pointers /\ Contents
  BY DEF IInv
<1>1. CASE UNCHANGED heap
  BY Zenon, <1>1 DEF UserClasses, Structs, IsCopy
<1>2. CASE value \in Structs /\ heap' = [heap EXCEPT ![value].scope = self]
  <2>1. value \in UserClasses /\ self \in Nat
    BY <1>0, <1>2 DEF Values, Structs, Plain, Contents, UserClasses, Main, Builtins
  <2>2. PICK s \in Nat : s = self
    BY <2>1
  <2>3. heap' = [heap EXCEPT ![value].scope = s]
    BY Zenon, <1>2, <2>2
  <2> QED BY <1>0, <2>1, <2>3, Rescoped
<1>3. heap' = IF value \in Structs /\ self # Main
              THEN [heap EXCEPT ![value].scope = self] ELSE heap
  BY DEF SetConstant
<1> QED BY Zenon, <1>1, <1>2, <1>3

\* Each statement keeps it.
LEMMA LInvStep == IInv /\ IInv' /\ LInv /\ [Next]_vars => LInv'
<1> SUFFICES ASSUME IInv, IInv', LInv, [Next]_vars PROVE LInv'
  OBVIOUS
<1>0. Ladder /\ Lineage /\ Bound /\ Named /\ ParentsKept
  BY ParentsStay DEF LInv
<1>1. CASE UNCHANGED vars
  <2>1. UNCHANGED <<heap, constants>>
    BY <1>1 DEF vars, tables
  <2> QED BY Zenon, <2>1, QuietStays
<1>2. ASSUME NEW n \in Names, DefineClass(n) \/ \E s \in Names : DefineSubclass(n, s)
      PROVE  LInv'
  <2>1. PICK a, b : Newborn(a, b) /\ heap' = heap \o <<a, b>>
    BY Zenon, <1>2, ClassBorn, SubclassBorn
  <2>2. New(n)
    BY Zenon, <1>2 DEF DefineClass, DefineSubclass
  <2>3. Ladder'
    BY Zenon, <1>0, <2>1, LadderGrows
  <2>4. Lineage'
    BY Zenon, <1>0, <2>1, LineageGrows
  <2>5. Bound'
    BY Zenon, <1>0, <2>1, <2>2, BoundGrows
  <2>6. Named'
    BY Zenon, <1>0, <2>1, NameGrows
  <2> QED BY Zenon, <2>3, <2>4, <2>5, <2>6 DEF LInv
<1>3. CASE \/ \E n \in Names : Reopen(n)
           \/ \E n \in MethodNames : DefMethod(n) \/ DefMetaMethod(n)
           \/ EndOfBody \/ NextCommand
  <2>1. UNCHANGED <<heap, constants>>
    BY Zenon, <1>3 DEF Reopen, DefMethod, DefMetaMethod, Def, EndOfBody, NextCommand, tables
  <2> QED BY Zenon, <2>1, QuietStays
<1>4. ASSUME NEW class \in Originals, class # Rootless, NEW module \in Values,
             MixIn(class, module)
      PROVE  LInv'
  <2>1. module \in UserClasses
    BY <1>4 DEF MixIn, Values, Structs, Plain
  <2>2. CASE UNCHANGED tables
    <3>1. UNCHANGED <<heap, constants>>
      BY <2>2 DEF tables
    <3> QED BY Zenon, <3>1, QuietStays
  <2>3. CASE heap' = Splice(class, module) /\ constants' = Append(constants, NoConstants)
    <3>1. Ladder'
      BY Zenon, <1>0, <1>4, <2>1, <2>3, LadderSpliced
    <3>2. Lineage'
      <4>1. IsSpliced(class, module, Len(heap))
        BY Zenon, <1>4, <2>1, <2>3, Spliced DEF IInv
      <4>2. UserClasses' = UserClasses
        BY Zenon, <4>1 DEF IsSpliced
      <4> QED BY Zenon, <1>0, <4>2, LineageStays
    <3>3. Bound'
      BY Zenon, <1>0, <1>4, <2>1, <2>3, BoundSpliced
    <3>4. Named'
      BY Zenon, <1>0, <1>4, <2>1, <2>3, NameSpliced
    <3> QED BY Zenon, <3>1, <3>2, <3>3, <3>4 DEF LInv
  <2> QED BY Zenon, <1>4, <2>2, <2>3 DEF MixIn
<1>5. ASSUME NEW n \in Names, Include(n) \/ Extend(n) PROVE LInv'
  <2>1. PICK class \in Originals, module \in Values :
          class # Rootless /\ MixIn(class, module)
    BY Zenon, <1>5, MixedIn
  <2> QED BY Zenon, <1>4, <2>1
<1>6. ASSUME NEW n \in Names, Assign(n) PROVE LInv'
  <2>1. PICK value \in Values : SetConstant(n, value)
    <3>1. CASE SetConstant(n, Plain)
      BY Zenon, <3>1 DEF Values
    <3>2. CASE \E s \in Names : SetConstant(n, lookupConstant(constants, Top, s))
      BY Zenon, <3>2, ValuesFound
    <3> QED BY Zenon, <1>6, <3>1, <3>2 DEF Assign
  <2>2. /\ Structs' = Structs /\ Len(heap') = Len(heap) /\ UserClasses' = UserClasses
        /\ \A c \in Structs : heap'[c].super = heap[c].super
    BY Zenon, <2>1, AssignedLines
  <2>3. Ladder'
    BY Zenon, <1>0, <2>2, LadderStays
  <2>4. Lineage'
    BY Zenon, <1>0, <2>2, LineageStays
  <2>5. Bound'
    BY Zenon, <1>0, <2>1, BoundAssigned
  <2>6. Named'
    BY Zenon, <1>0, <2>1, NameAssigned
  <2> QED BY Zenon, <2>3, <2>4, <2>5, <2>6 DEF LInv
<1> QED BY Zenon, <1>1, <1>2, <1>3, <1>5, <1>6 DEF Next

\* It holds always.
LEMMA LInvAlways == Spec => []LInv
BY IInvAlways, LInvInit, LInvStep, PTL DEF Spec

-----------------------------------------------------------------------------
(* Lookups end.                                                              *)

Outermost == [x \in Structs |-> Scope[x] = 0]
Outward(c, n) == Along(Scope, c, Outermost, n)
Twice(c) == c \in UserClasses /\ \E b, d : b # d /\ Holds(c, b) /\ Holds(c, d)

\* The scopes of a class grow older from one to the next, up to one that two
\* constants hold.
LEMMA ScopesLeadOut ==
  ASSUME IInv, LInv
  PROVE  \A n \in Nat : \A c \in UserClasses : c <= n =>
           \/ Scope[Last(Outward(c, n))] = 0
           \/ \E x \in ToSet(Outward(c, n)) : Twice(x)
<1>0. Rows /\ Pointers /\ Bound
  BY DEF IInv, LInv
<1>1. Structs \in SUBSET DOMAIN Scope /\ UserClasses \subseteq Structs /\ Structs \subseteq Nat
  BY <1>0, BuiltinStructs DEF Scope, Originals, Structs
<1>2. ASSUME NEW c \in Structs
      PROVE  Scope[c] = heap[c].scope /\ Scope[c] \in {0} \cup UserClasses
             /\ (Outermost[c] <=> Scope[c] = 0)
  BY <1>0 DEF Scope, Outermost, Pointers
<1> DEFINE P(c, n) == \/ Scope[Last(Outward(c, n))] = 0
                      \/ \E x \in ToSet(Outward(c, n)) : Twice(x)
           T == {n \in Nat : \A c \in UserClasses : c <= n => P(c, n)}
<1>3. ASSUME NEW n \in Nat, NEW c \in UserClasses
      PROVE  Outward(c, n + 1)
               = IF Scope[c] = 0 THEN <<c>> ELSE <<c>> \o Outward(Scope[c], n)
  <2>1. Along(Scope, c, Outermost, n + 1)
          = IF Outermost[c] THEN <<c>> ELSE <<c>> \o Along(Scope, Scope[c], Outermost, n)
    BY <1>1, AlongNext
  <2>2. Outermost[c] <=> Scope[c] = 0
    BY <1>1, <1>2
  <2> QED BY Zenon, <2>1, <2>2 DEF Outward
<1>4. ASSUME NEW n \in Nat, NEW c \in UserClasses
      PROVE  Outward(c, n) \in Seq(Structs) /\ Outward(c, n) # <<>>
  <2>1. \A x \in Structs : Outermost[x] \/ Scope[x] \in Structs
    BY <1>1, <1>2
  <2>2. c \in Structs
    BY <1>1
  <2> QED BY <1>1, <2>1, <2>2, AlongLast DEF Outward
<1>5. 0 \in T
  <2>1. ASSUME NEW c \in UserClasses PROVE ~(c <= 0)
    BY DEF UserClasses, Builtins
  <2> QED BY <2>1
<1>6. ASSUME NEW n \in Nat, n \in T PROVE n + 1 \in T
  <2>1. ASSUME NEW c \in UserClasses, c <= n + 1 PROVE P(c, n + 1)
    <3>1. CASE Scope[c] = 0
      <4>1. Outward(c, n + 1) = <<c>> /\ Last(<<c>>) = c
        BY <1>3, <3>1 DEF Last
      <4> QED BY Zenon, <3>1, <4>1
    <3>2. CASE Scope[c] # 0
      <4>1. Scope[c] \in UserClasses /\ c \in Structs
        BY <1>1, <1>2, <3>2
      <4>2. PICK s \in Seq(Structs) : s = Outward(Scope[c], n) /\ s # <<>>
        BY <1>4, <4>1
      <4>3. Outward(c, n + 1) = <<c>> \o s
        BY Zenon, <1>3, <3>2, <4>2
      <4>4. Last(<<c>> \o s) = Last(s)
        BY <4>2 DEF Last
      <4>5. ToSet(<<c>> \o s) = {c} \cup ToSet(s)
        BY <4>1, ElementsPrefixed
      <4>6. CASE Twice(c)
        <5>1. c \in ToSet(Outward(c, n + 1))
          BY Zenon, <4>3, <4>5
        <5> QED BY Zenon, <4>6, <5>1
      <4>7. CASE ~Twice(c)
        <5>1. heap[c].scope < c
          BY Zenon, <1>0, <4>7 DEF Bound, Twice
        <5>2. Scope[c] <= n /\ Scope[c] \in Nat
          BY <1>1, <1>2, <2>1, <4>1, <5>1
        <5>3. P(Scope[c], n)
          BY <1>6, <4>1, <5>2
        <5> QED BY Zenon, <4>2, <4>3, <4>4, <4>5, <5>3
      <4> QED BY <4>6, <4>7
    <3> QED BY <3>1, <3>2
  <2>2. n + 1 \in Nat
    OBVIOUS
  <2> HIDE DEF P
  <2> QED BY <2>1, <2>2
<1> HIDE DEF T
<1>7. \A n \in Nat : n \in T
  BY Zenon, <1>5, <1>6, Induction
<1> QED BY Zenon, <1>7 DEF T

\* Two constants that hold a class are counted as two.
LEMMA TwiceCounts ==
  ASSUME IInv, NEW x, Twice(x)
  PROVE  Cardinality({b \in Bindings : constants[b[1]][b[2]] = x}) > 1
<1> DEFINE B == {b \in Bindings : constants[b[1]][b[2]] = x}
<1>1. PICK b, d : b # d /\ Holds(x, b) /\ Holds(x, d)
  BY DEF Twice
<1>2. x # 0
  BY DEF Twice, UserClasses, Builtins
<1>3. b \in B /\ d \in B
  BY Zenon, <1>1, <1>2 DEF Holds, Bindings
<1>4. IsFiniteSet(B)
  <2>1. Len(heap) \in Nat
    BY DEF IInv, Rows
  <2>2. IsFiniteSet(Structs)
    BY <2>1, FS_Interval DEF Structs
  <2>3. IsFiniteSet(Originals)
    BY <2>2, FS_Subset DEF Originals
  <2>4. IsFiniteSet(Originals \X Names)
    BY <2>3, FS_Product, ClassesAssumption
  <2>5. B \subseteq Originals \X Names
    BY DEF Bindings
  <2> HIDE DEF B
  <2> QED BY <2>4, <2>5, FS_Subset
<1>5. Cardinality({b} \cup {d}) = 2
  <2>1. IsFiniteSet({b}) /\ Cardinality({b}) = 1
    BY FS_Singleton
  <2>2. d \notin {b}
    BY <1>1
  <2> QED BY <2>1, <2>2, FS_AddElement
<1> HIDE DEF B
<1>6. Cardinality({b} \cup {d}) <= Cardinality(B) /\ Cardinality(B) \in Nat
  <2>1. {b} \cup {d} \in SUBSET B
    BY <1>3
  <2> QED BY <1>4, <2>1, FS_Subset, FS_CardinalityType
<1>7. Cardinality(B) > 1
  BY <1>5, <1>6
<1> QED BY <1>7 DEF B

-----------------------------------------------------------------------------
(* Chains of superclasses.                                                   *)

\* Object is its own superclass, where nothing is between it and its parent.
LEMMA ObjectOnTop ==
  ASSUME IInv, Parent(Object) = Object, Mixins(Object) = <<>>
  PROVE  Super[Object] = Object
<1>0. Rows /\ Pointers
  BY DEF IInv
<1>1. Object \in Structs /\ Object # Rootless
  BY <1>0, BuiltinStructs DEF Originals, Object, Rootless, Builtins
<1>2. PICK sc \in Structs : sc = heap[Object].super /\ sc # 0
  BY <1>0, <1>1 DEF Pointers, Structs
<1>3. PICK u \in Seq(Structs) : u = Up(sc) /\ u # <<>> /\ u[1] = sc
  BY LinesEnd
<1>4. /\ Parent(Object) = Last(u)
      /\ Mixins(Object) = [i \in 1..Len(u) - 1 |-> heap[u[i]].maps]
  BY Zenon, <1>1, <1>2, <1>3, ShownBefore DEF Shown
<1>5. Len(u) = 1
  <2>1. PICK n \in Nat : n = Len(u) /\ n # 0
    BY <1>3
  <2>2. DOMAIN Mixins(Object) = 1..n - 1 /\ DOMAIN Mixins(Object) = {}
    BY <1>4, <2>1
  <2>3. ~(n > 1)
    <3>1. n > 1 => 1 \in 1..n - 1
      OBVIOUS
    <3> QED BY <2>2, <3>1
  <2>4. n = 1
    BY <2>1, <2>3
  <2> QED BY <2>1, <2>4
<1>6. sc = Object
  BY <1>3, <1>4, <1>5 DEF Last
<1> QED BY <1>1, <1>2, <1>6 DEF Super

\* A copy leads where the struct above it leads, for the copies above it are older.
LEMMA CopyLeads ==
  ASSUME IInv, NEW c \in Structs, IsCopy(c)
  PROVE  /\ heap[c].super \in Structs
         /\ Up(c) = <<c>> \o Up(heap[c].super)
         /\ Last(Up(c)) = Last(Up(heap[c].super))
<1>0. Rows /\ Pointers /\ Chains
  BY DEF IInv
<1> DEFINE rank == [x \in Structs |-> IF IsCopy(x) THEN x ELSE 0]
<1>1. Structs = 1..Len(heap) /\ Len(heap) \in Nat
  BY <1>0 DEF Rows, Structs
<1>2. rank \in [Structs -> Nat] /\ \A x \in Structs : rank[x] <= Len(heap)
  BY <1>1
<1>3. Structs \in SUBSET (DOMAIN Super \cap DOMAIN Super)
  BY DEF Super
<1>4. ASSUME NEW x \in Structs
      PROVE  Upright[x] \/ (Super[x] \in Structs /\ rank[Super[x]] < rank[x])
  <2>1. Upright[x] = ~IsCopy(x) /\ Super[x] = heap[x].super
    BY DEF Upright, Super
  <2>2. CASE IsCopy(x)
    <3>1. heap[x].super \in Structs /\ rank[x] = x
      BY <1>0, <2>2 DEF Pointers, Rootless, Builtins
    <3>2. rank[heap[x].super] < x
      <4>1. CASE IsCopy(heap[x].super)
        BY <1>0, <2>2, <3>1, <4>1 DEF Chains
      <4>2. CASE ~IsCopy(heap[x].super)
        BY <1>1, <3>1, <4>2
      <4> QED BY <4>1, <4>2
    <3> HIDE DEF rank
    <3> QED BY <2>1, <3>1, <3>2
  <2> QED BY Zenon, <2>1, <2>2
<1> HIDE DEF rank
<1>5. \A x \in Structs : \A f, g \in Nat : f >= rank[x] /\ g >= rank[x] =>
        /\ Along(Super, x, Upright, f) = Along(Super, x, Upright, g)
        /\ Upright[Last(Along(Super, x, Upright, f))]
  BY <1>2, <1>3, <1>4, AlongDescends
<1>6. PICK L \in Nat : L = Len(heap) /\ L + 1 \in Nat /\ rank[c] <= L /\ rank[c] <= L + 1
  BY <1>1, <1>2
<1>7. /\ Super[c] = heap[c].super /\ ~Upright[c] /\ heap[c].super \in Structs
  <2>1. ~Upright[c] /\ Super[c] = heap[c].super
    BY DEF Upright, Super
  <2> QED BY Zenon, <1>4, <2>1
<1>8. Along(Super, c, Upright, L + 1) = Up(c)
  BY Zenon, <1>5, <1>6 DEF Up
<1>9. Along(Super, c, Upright, L + 1) = <<c>> \o Up(heap[c].super)
  <2>1. Along(Super, c, Upright, L + 1)
          = IF Upright[c] THEN <<c>> ELSE <<c>> \o Along(Super, Super[c], Upright, L)
    BY <1>3, AlongNext
  <2> QED BY Zenon, <1>6, <1>7, <2>1 DEF Up
<1>10. PICK u \in Seq(Structs) : u = Up(heap[c].super) /\ u # <<>>
  BY <1>7, LinesEnd
<1>11. Last(<<c>> \o u) = Last(u)
  BY <1>10 DEF Last
<1> QED BY Zenon, <1>7, <1>8, <1>9, <1>10, <1>11

\* Where the pointers stay, and nothing but Object is its own parent, they lead to
\* Object.
LEMMA LeadsToObject ==
  ASSUME IInv, LInv, NEW D \in SUBSET Structs, Super[Object] = Object,
         \A x \in D : Super[x] \in D /\ (x = Object \/ ~Looped(x)), NEW c \in D
  PROVE  ReachesObject(c)
<1>0. Rows /\ Pointers /\ Ladder /\ Named
  BY DEF IInv, LInv
<1>1. PICK rank \in [Structs -> Nat] : Descends(rank)
  BY <1>0 DEF Ladder
<1>2. PICK r \in [D -> Nat] : \A x \in D : r[x] = rank[x]
  <2> DEFINE r == [x \in D |-> rank[x]]
  <2>1. r \in [D -> Nat] /\ \A x \in D : r[x] = rank[x]
    OBVIOUS
  <2> QED BY <2>1
<1>3. D \in SUBSET (DOMAIN Super \cap DOMAIN Super) /\ Len(heap) \in Nat
  BY <1>0 DEF Super, Rows
<1>4. ASSUME NEW x \in D
      PROVE  NamedObject[x] \/ (Super[x] \in D /\ r[Super[x]] < r[x])
  <2>1. CASE x = Object
    <3>1. x \in Structs
      OBVIOUS
    <3> QED BY Zenon, <1>0, <2>1, <3>1 DEF NamedObject, Named
  <2>2. CASE x # Object
    <3>1. rank[heap[x].super] < rank[x] /\ Super[x] = heap[x].super
      BY <1>1, <2>2 DEF Descends, Super
    <3> QED BY <1>2, <3>1
  <2> QED BY <2>1, <2>2
<1>5. \A x \in D : \A f, g \in Nat : f >= r[x] /\ g >= r[x] =>
        /\ Along(Super, x, NamedObject, f) = Along(Super, x, NamedObject, g)
        /\ NamedObject[Last(Along(Super, x, NamedObject, f))]
  BY <1>2, <1>3, <1>4, AlongDescends
<1>6. Len(heap) >= r[c]
  <2>1. r[c] = rank[c] /\ rank[c] < Len(heap) /\ rank[c] \in Nat
    BY <1>1, <1>2 DEF Descends
  <2> QED BY <1>3, <2>1
<1> QED BY Zenon, <1>3, <1>5, <1>6 DEF ReachesObject

\* The chain of a class whose superclasses are straight is closed: it holds, with
\* each struct, the one that it leads to.
Closed(D) ==
  /\ D \subseteq Structs
  /\ \A x \in D : Super[x] \in D /\ (x = Object \/ ~Looped(x))

\* Up to where it would go round, the chain only passes structs that have another
\* parent, and it would go round at Object.
LEMMA StraightCloses ==
  ASSUME IInv, LInv, NEW c \in Structs, Straight(c)
  PROVE  Super[Object] = Object /\ \E D : c \in D /\ Closed(D)
<1>0. Rows /\ Pointers /\ Ladder
  BY DEF IInv, LInv
<1>1. Super[Object] = Object
  BY ObjectOnTop DEF Straight
<1> DEFINE stop == [x \in Structs |-> Super[x] \in {0, x}]
<1>2. PICK line : line = ToSet(Along(Super, c, stop, Len(heap)))
  OBVIOUS
<1>3. \A x \in line : x # Object /\ ~IsCopy(x) => Parent(x) # x
  BY Zenon, <1>2 DEF Straight
<1>4. Structs \in SUBSET DOMAIN Super /\ Len(heap) \in Nat
  BY <1>0 DEF Super, Rows
<1>5. ASSUME NEW x \in Structs
      PROVE  /\ Super[x] = heap[x].super
             /\ stop[x] <=> Super[x] \in {0, x}
             /\ stop[x] \/ Super[x] \in Structs
  <2>1. Super[x] = heap[x].super /\ (Super[x] = 0 \/ Super[x] \in Structs)
    BY <1>0 DEF Super, Pointers
  <2>2. stop[x] <=> Super[x] \in {0, x}
    BY Zenon
  <2> QED BY Zenon, <2>1, <2>2
<1> HIDE DEF stop
<1>6. line \subseteq Structs
  <2>1. Along(Super, c, stop, Len(heap)) \in Seq(Structs)
    BY <1>4, <1>5, AlongLast
  <2> QED BY <1>2, <2>1 DEF ToSet
<1> DEFINE G == {x \in Structs : x = Object \/ ~Looped(x)}
<1>7. line \subseteq G
  BY Zenon, <1>3, <1>6 DEF Looped, Originals
<1>8. PICK rank \in [Structs -> Nat] : Descends(rank)
  BY <1>0 DEF Ladder
<1>9. ASSUME NEW x \in Structs \cap G PROVE stop[x] \/ rank[Super[x]] < rank[x]
  <2>1. CASE x = Object
    BY <1>1, <1>5, <2>1
  <2>2. CASE x # Object
    BY <1>5, <1>8, <2>2 DEF Descends
  <2> QED BY <2>1, <2>2
<1>10. rank[c] <= Len(heap)
  BY <1>4, <1>8 DEF Descends
<1> HIDE DEF G
<1>11. /\ c \in line
       /\ \A x \in line : stop[x] \/ Super[x] \in line
  <2>1. \A f \in Nat : \A d \in Structs :
          LET L == ToSet(Along(Super, d, stop, f))
          IN rank[d] <= f /\ L \subseteq G =>
               /\ d \in L /\ L \subseteq Structs
               /\ \A x \in L : stop[x] \/ Super[x] \in L
    BY <1>4, <1>5, <1>9, AlongClosed
  <2> QED BY Zenon, <1>2, <1>4, <1>7, <1>10, <2>1
<1>12. ASSUME NEW x \in line PROVE Super[x] \in line /\ (x = Object \/ ~Looped(x))
  <2>1. x \in Structs /\ (x = Object \/ ~Looped(x))
    BY <1>7 DEF G
  <2>2. x # Rootless
    BY <2>1, RootlessLoops DEF Object, Rootless
  <2>3. Super[x] # 0
    <3>1. heap[x].super \in Structs
      BY Zenon, <1>0, <2>1, <2>2 DEF Pointers
    <3>2. 0 \notin Structs /\ Super[x] = heap[x].super
      BY <1>5, <2>1 DEF Structs
    <3> QED BY Zenon, <3>1, <3>2
  <2> QED BY <1>5, <1>11, <2>1, <2>3
<1> QED BY Zenon, <1>1, <1>6, <1>11, <1>12 DEF Closed

\* It holds the parents.
LEMMA ParentsInside ==
  ASSUME IInv, NEW D, Closed(D), NEW c \in D
  PROVE  Parent(c) \in D
<1>0. Rows /\ Pointers
  BY DEF IInv
<1>1. D \in SUBSET DOMAIN Super /\ Len(heap) \in Nat /\ \A x \in D : Upright[x] \/ Super[x] \in D
  <2>1. D \in SUBSET Structs /\ \A x \in D : Super[x] \in D
    BY Zenon DEF Closed
  <2>2. DOMAIN Super = Structs /\ Len(heap) \in Nat
    BY <1>0 DEF Super, Rows
  <2> QED BY <2>1, <2>2
<1>2. CASE heap[c].super = 0
  BY <1>2, ShownBefore DEF Shown, Closed
<1>3. CASE heap[c].super # 0
  <2>1. PICK sc \in D : sc = heap[c].super
    BY DEF Closed, Super
  <2>2. Last(Along(Super, sc, Upright, Len(heap))) \in D
    BY <1>1, AlongLast
  <2>3. Parent(c) = Last(Up(heap[c].super))
    BY Zenon, <1>3, ShownBefore DEF Shown, Closed
  <2> QED BY Zenon, <2>1, <2>2, <2>3 DEF Up
<1> QED BY <1>2, <1>3

\* The metaclasses of a straight chain, with those above them.
Above(D) == {2, Class, Module, Object} \cup {x \in Originals : \E k \in D \cap UserClasses : x = k + 1}
MetaChain(D) == {x \in Structs : x \in Above(D) \/ (IsCopy(x) /\ Parent(x) \in Above(D))}

\* They are closed as well, for the metaclass of a class leads to that of its parent,
\* or to those the program starts with.
LEMMA MetaCloses ==
  ASSUME IInv, LInv, NEW D, Closed(D), Super[Object] = Object
  PROVE  Closed(MetaChain(D))
<1>0. Rows /\ Pointers /\ Lineage
  BY DEF IInv, LInv
<1>1. PICK T : T = Above(D)
  OBVIOUS
<1>2. /\ {2, Class, Module, Object} \subseteq T /\ T \subseteq Originals
      /\ \A k \in D \cap UserClasses : k + 1 \in T
      /\ \A x \in T : x \in {2, Class, Module, Object} \/ \E k \in D \cap UserClasses : x = k + 1
      /\ 0 \notin T /\ Rootless \notin T
  <2>1. {2, Class, Module, Object} \subseteq Originals
    BY <1>0, BuiltinStructs DEF Builtins, Class, Module, Object
  <2>2. \A k \in UserClasses : k + 1 \in Originals
    BY <1>0 DEF Pointers
  <2>3. \A k \in UserClasses : k \in Nat /\ k > 6
    BY DEF UserClasses, Builtins
  <2>4. Rootless \notin T /\ 0 \notin T
    BY <1>1, <2>3 DEF Above, Rootless, Class, Module, Object
  <2> QED BY <1>1, <2>1, <2>2, <2>4 DEF Above
<1>3. ASSUME NEW x \in T, x # Object
      PROVE  Parent(x) \in T /\ Parent(x) # x
  <2>1. CASE x \in {2, Class, Module}
    BY <1>0, <1>2, <2>1 DEF Lineage, Class, Module, Object
  <2>2. CASE x \notin {2, Class, Module}
    <3>1. PICK k \in D \cap UserClasses : x = k + 1
      BY <1>2, <1>3, <2>2
    <3>2. k \in Nat /\ k > 6 /\ k \in Originals
      BY <1>0, BuiltinStructs DEF UserClasses, Builtins
    <3>3. CASE Parent(k + 1) \in {2, Module}
      BY <1>2, <3>1, <3>2, <3>3 DEF Module
    <3>4. CASE Parent(k) \in UserClasses /\ Parent(k + 1) = Parent(k) + 1
      <4>1. Parent(k) \in D /\ Parent(k) \in Nat
        BY <3>4, ParentsInside DEF UserClasses, Builtins
      <4>2. Parent(k) # k
        <5>1. k # Object
          BY <3>2 DEF Object
        <5> QED BY Zenon, <3>1, <3>2, <5>1 DEF Closed, Looped
      <4>3. Parent(k) + 1 \in T
        BY <1>2, <3>4, <4>1
      <4> QED BY <3>1, <3>2, <3>4, <4>1, <4>2, <4>3
    <3> QED BY <1>0, <3>1, <3>3, <3>4 DEF Lineage
  <2> QED BY <2>1, <2>2
<1>4. ASSUME NEW x \in Structs, Parent(x) \in T, x # Rootless
      PROVE  heap[x].super \in MetaChain(D)
  <2>1. PICK y \in Structs : y = heap[x].super /\ y # 0
    BY <1>0, <1>4 DEF Pointers, Structs
  <2>2. Parent(x) = Last(Up(y))
    BY Zenon, <2>1, ShownBefore DEF Shown
  <2>3. CASE IsCopy(y)
    <3>1. heap[y].super \in Structs /\ Last(Up(y)) = Last(Up(heap[y].super))
      BY <2>3, CopyLeads
    <3>2. heap[y].super # 0
      BY <3>1 DEF Structs
    <3>3. Parent(y) = Last(Up(heap[y].super))
      BY Zenon, <3>2, ShownBefore DEF Shown
    <3> QED BY Zenon, <1>1, <1>4, <2>1, <2>2, <2>3, <3>1, <3>3 DEF MetaChain
  <2>4. CASE ~IsCopy(y)
    <3>1. Parent(x) = y
      BY Zenon, <2>1, <2>4, StraightUp DEF Originals
    <3> QED BY Zenon, <1>1, <1>4, <2>1, <3>1 DEF MetaChain
  <2> QED BY <2>3, <2>4
<1>5. ASSUME NEW x \in MetaChain(D)
      PROVE  Super[x] \in MetaChain(D) /\ (x = Object \/ ~Looped(x))
  <2>1. x \in Structs /\ Super[x] = heap[x].super
    BY DEF MetaChain, Super
  <2>2. CASE IsCopy(x)
    <3>1. Parent(x) \in T /\ x # Rootless /\ ~Looped(x)
      <4>1. x \notin Originals
        BY Zenon, <2>2 DEF Originals
      <4>2. Parent(x) \in T
        BY Zenon, <1>1, <1>2, <4>1 DEF MetaChain
      <4>3. Rootless \in Originals
        BY RootlessLoops DEF Looped
      <4> QED BY Zenon, <4>1, <4>2, <4>3 DEF Looped
    <3> QED BY <1>4, <2>1, <3>1
  <2>3. CASE ~IsCopy(x)
    <3>1. x \in T /\ x # Rootless
      BY Zenon, <1>1, <1>2, <2>3 DEF MetaChain
    <3>2. CASE x = Object
      BY Zenon, <2>1, <3>1, <3>2
    <3>3. CASE x # Object
      BY Zenon, <1>3, <1>4, <2>1, <3>1, <3>3 DEF Looped
    <3> QED BY <3>2, <3>3
  <2> QED BY <2>2, <2>3
<1> QED BY Zenon, <1>5 DEF Closed, MetaChain

\* The three kinds of lookups.
LEMMA LInvLookupsEnd == IInv /\ LInv => LookupsEnd
<1> SUFFICES ASSUME IInv, LInv PROVE LookupsEnd
  OBVIOUS
<1>0. Rows /\ Pointers
  BY DEF IInv
<1>1. UserClasses \subseteq Structs /\ Len(heap) \in Nat /\ Structs = 1..Len(heap)
  BY <1>0, BuiltinStructs DEF Originals, Structs
<1>2. ASSUME NEW c \in UserClasses, Straight(c)
      PROVE  ReachesObject(c) /\ ReachesObject(heap[c].meta)
  <2>1. c \in Structs
    BY <1>1
  <2>2. PICK D : Super[Object] = Object /\ c \in D /\ Closed(D)
    BY <1>2, <2>1, StraightCloses
  <2>3. ReachesObject(c)
    BY <2>2, LeadsToObject DEF Closed
  <2>4. c + 1 \in MetaChain(D) /\ Closed(MetaChain(D)) /\ heap[c].meta = c + 1
    <3>1. heap[c].meta = c + 1 /\ c + 1 \in Originals /\ c + 1 \in Structs
      BY <1>0 DEF Pointers, Originals
    <3>2. c + 1 \in Above(D)
      BY <2>2, <3>1 DEF Above
    <3> QED BY <2>2, <3>1, <3>2, MetaCloses DEF MetaChain
  <2>5. PICK E : E = MetaChain(D)
    OBVIOUS
  <2>6. ReachesObject(c + 1)
    <3>1. c + 1 \in E /\ E \in SUBSET Structs
          /\ \A x \in E : Super[x] \in E /\ (x = Object \/ ~Looped(x))
      BY Zenon, <2>4, <2>5 DEF Closed
    <3> QED BY <2>2, <3>1, LeadsToObject
  <2> QED BY Zenon, <2>3, <2>4, <2>6
<1>3. ASSUME NEW c \in UserClasses
      PROVE  LET scopes == Along(Scope, c, [x \in Structs |-> Scope[x] = 0], Len(heap))
             IN \/ Scope[Last(scopes)] = 0
                \/ \E x \in ToSet(scopes) :
                     Cardinality({b \in Bindings : constants[b[1]][b[2]] = x}) > 1
  <2>1. c <= Len(heap)
    BY <1>1
  <2>2. \/ Scope[Last(Outward(c, Len(heap)))] = 0
        \/ \E x \in ToSet(Outward(c, Len(heap))) : Twice(x)
    BY <1>1, <2>1, ScopesLeadOut
  <2>3. PICK scopes : scopes = Outward(c, Len(heap))
    OBVIOUS
  <2>4. \/ Scope[Last(scopes)] = 0
        \/ \E x \in ToSet(scopes) :
             Cardinality({b \in Bindings : constants[b[1]][b[2]] = x}) > 1
    BY Zenon, <2>2, <2>3, TwiceCounts
  <2>5. scopes = Along(Scope, c, [x \in Structs |-> Scope[x] = 0], Len(heap))
    BY Zenon, <2>3 DEF Outward, Outermost
  <2> QED BY Zenon, <2>4, <2>5
<1> QED BY Zenon, <1>2, <1>3 DEF LookupsEnd

\* Whatever classes a program declares, opens again, mixes modules into and assigns
\* to constants, the lookups of methods, is_a? and ancestors reach Object from each
\* class and each metaclass whose superclasses are straight, and a lookup of a
\* constant gets to the outermost scope or to a class with two names.
THEOREM LookupsAlwaysEnd == Spec => []LookupsEnd
BY IInvAlways, LInvAlways, LInvLookupsEnd, PTL

-----------------------------------------------------------------------------
(* Functions that are computed by going down.                                *)

\* Where each step of a set leads down in rank, what follows from what is below
\* holds everywhere.
LEMMA Downward ==
  ASSUME NEW S, NEW rank \in [S -> Nat], NEW T,
         \A x \in S : (\A y \in S : rank[y] < rank[x] => y \in T) => x \in T
  PROVE  S \subseteq T
<1> DEFINE U == {n \in Nat : \A x \in S : rank[x] < n => x \in T}
<1>1. 0 \in U
  OBVIOUS
<1>2. ASSUME NEW n \in Nat, n \in U PROVE n + 1 \in U
  <2>1. ASSUME NEW x \in S, rank[x] < n + 1 PROVE x \in T
    <3>1. ASSUME NEW y \in S, rank[y] < rank[x] PROVE y \in T
      <4>1. rank[y] < n
        BY <2>1, <3>1
      <4> QED BY <1>2, <4>1
    <3> QED BY <3>1
  <2>2. n + 1 \in Nat
    OBVIOUS
  <2> QED BY <2>1, <2>2
<1> HIDE DEF U
<1>3. \A n \in Nat : n \in U
  BY Zenon, <1>1, <1>2, Induction
<1>4. ASSUME NEW x \in S PROVE x \in T
  <2>1. rank[x] + 1 \in Nat /\ rank[x] < rank[x] + 1
    OBVIOUS
  <2>2. rank[x] + 1 \in U
    BY <1>3, <2>1
  <2> QED BY <2>1, <2>2 DEF U
<1> QED BY <1>4

Falls(next, stop, S, rank, N) ==
  \A x \in S : rank[x] <= N /\ (stop[x] \/ (next[x] \in S /\ rank[next[x]] < rank[x]))

EndsAlong(next, stop, S, N) ==
  \A x \in S :
    LET end == Last(Along(next, x, stop, N))
    IN /\ end \in S /\ stop[end]
       /\ end = IF stop[x] THEN x ELSE Last(Along(next, next[x], stop, N))

\* Where a walk ends, for one that goes down: at the first struct that it stops at.
LEMMA EndOfWalk ==
  ASSUME NEW next, NEW stop, NEW S \in SUBSET DOMAIN next, NEW rank \in [S -> Nat],
         NEW N \in Nat,
         Falls(next, stop, S, rank, N)
  PROVE  EndsAlong(next, stop, S, N)
<1> USE DEF Falls
<1>1. \A x \in S : \A f, g \in Nat : f >= rank[x] /\ g >= rank[x] =>
        /\ Along(next, x, stop, f) = Along(next, x, stop, g)
        /\ stop[Last(Along(next, x, stop, f))]
  <2>1. S \in SUBSET (DOMAIN next \cap DOMAIN next)
    OBVIOUS
  <2> QED BY <2>1, AlongDescends
<1>2. N + 1 \in Nat /\ N + 1 >= N
  OBVIOUS
<1> SUFFICES ASSUME NEW x \in S
             PROVE  LET end == Last(Along(next, x, stop, N))
                    IN /\ end \in S /\ stop[end]
                       /\ end = IF stop[x] THEN x ELSE Last(Along(next, next[x], stop, N))
  BY Zenon DEF EndsAlong
<1>3. N >= rank[x] /\ N + 1 >= rank[x] /\ rank[x] \in Nat
  OBVIOUS
<1>4. PICK line : line = Along(next, x, stop, N)
  OBVIOUS
<1>5. line = Along(next, x, stop, N + 1) /\ stop[Last(line)]
  BY Zenon, <1>1, <1>2, <1>3, <1>4
<1>6. \A y \in S : stop[y] \/ next[y] \in S
  OBVIOUS
<1>7. Last(line) \in S
  BY <1>4, <1>6, AlongLast
<1>8. line = IF stop[x] THEN <<x>> ELSE <<x>> \o Along(next, next[x], stop, N)
  BY <1>5, AlongNext
<1>9. CASE stop[x]
  <2>1. Last(<<x>>) = x
    BY DEF Last
  <2> QED BY Zenon, <1>4, <1>5, <1>7, <1>8, <1>9, <2>1
<1>10. CASE ~stop[x]
  <2>1. next[x] \in S
    BY <1>10
  <2>2. PICK s \in Seq(S) : s = Along(next, next[x], stop, N) /\ s # <<>>
    BY <1>6, <2>1, AlongLast
  <2>3. Last(<<x>> \o s) = Last(s)
    BY <2>2 DEF Last
  <2> QED BY Zenon, <1>4, <1>5, <1>7, <1>8, <1>10, <2>2, <2>3
<1> QED BY <1>9, <1>10

Unrolled(f, own, next, stop, S) ==
  \A x \in S : f[x] = IF stop[x] THEN own[x] ELSE own[x] \o f[next[x]]

\* The rows of such a function, for an element that is not too high.
LEMMA RowsAlike ==
  ASSUME NEW own, NEW next, NEW stop, NEW S \in SUBSET DOMAIN next, NEW rank \in [S -> Nat],
         NEW N \in Nat, NEW w, InRows(w, own, next, stop, N),
         Falls(next, stop, S, rank, N)
  PROVE  Unrolled(w[N], own, next, stop, S)
<1> USE DEF Falls, Unrolled
<1>1. \A k \in 0..N : w[k] = Row(own, next, stop, k, w[k - 1])
  BY Zenon DEF InRows
<1>2. ASSUME NEW k \in 0..N, NEW x \in S
      PROVE  w[k][x] = IF stop[x] \/ k = 0 THEN own[x] ELSE own[x] \o w[k - 1][next[x]]
  <2>1. x \in DOMAIN next
    OBVIOUS
  <2> QED BY Zenon, <1>1, <2>1 DEF Row
<1> DEFINE T == {x \in S : \A k \in 0..N : rank[x] <= k => w[k][x] = w[N][x]}
<1>3. ASSUME NEW x \in S, \A y \in S : rank[y] < rank[x] => y \in T
      PROVE  x \in T
  <2> SUFFICES ASSUME NEW k \in 0..N, rank[x] <= k PROVE w[k][x] = w[N][x]
    OBVIOUS
  <2> HIDE DEF T
  <2>0. N \in 0..N
    OBVIOUS
  <2>1. CASE stop[x]
    BY Zenon, <1>2, <2>0, <2>1
  <2>2. CASE ~stop[x]
    <3>1. PICK y \in S : y = next[x] /\ rank[y] < rank[x]
      BY <2>2
    <3>2. /\ k - 1 \in 0..N /\ rank[y] <= k - 1 /\ k # 0
          /\ N - 1 \in 0..N /\ rank[y] <= N - 1 /\ N # 0
      <4>1. rank[y] \in Nat /\ rank[x] \in Nat
        OBVIOUS
      <4> QED BY <3>1, <4>1
    <3>3. w[k - 1][y] = w[N][y] /\ w[N - 1][y] = w[N][y]
      <4>1. y \in T
        BY <1>3, <3>1
      <4> QED BY <3>2, <4>1 DEF T
    <3>4. w[k][x] = own[x] \o w[k - 1][y]
      BY Zenon, <1>2, <2>2, <3>1, <3>2
    <3>5. w[N][x] = own[x] \o w[N - 1][y]
      BY Zenon, <1>2, <2>0, <2>2, <3>1, <3>2
    <3> QED BY Zenon, <3>3, <3>4, <3>5
  <2> QED BY <2>1, <2>2
<1> HIDE DEF T
<1>4. S \subseteq T
  BY <1>3, Downward
<1>5. ASSUME NEW x \in S
      PROVE  w[N][x] = IF stop[x] THEN own[x] ELSE own[x] \o w[N][next[x]]
  <2>0. N \in 0..N
    OBVIOUS
  <2>1. CASE stop[x]
    BY Zenon, <1>2, <2>0, <2>1
  <2>2. CASE ~stop[x]
    <3>1. PICK y \in S : y = next[x] /\ rank[y] < rank[x]
      BY <2>2
    <3>2. N - 1 \in 0..N /\ rank[y] <= N - 1 /\ N # 0
      <4>1. rank[y] \in Nat /\ rank[x] \in Nat
        OBVIOUS
      <4> QED BY <3>1, <4>1
    <3>3. w[N - 1][y] = w[N][y]
      BY <1>4, <3>2 DEF T
    <3> QED BY Zenon, <1>2, <2>0, <2>2, <3>1, <3>2, <3>3
  <2> QED BY <2>1, <2>2
<1> QED BY <1>5

-----------------------------------------------------------------------------
(* The first of a list of classes that defines a method.                     *)

\* A set of numbers has a least one.
LEMMA Least ==
  ASSUME NEW S \in SUBSET Nat, S # {}
  PROVE  \E i \in S : \A j \in S : i <= j
<1>1. PICK i \in S : \A j \in S : ~(<<j, i>> \in OpToRel(<, Nat))
  BY WFMin, NatLessThanWellFounded
<1>2. ASSUME NEW j \in S PROVE i <= j
  <2>1. ~(j < i)
    BY <1>1 DEF OpToRel
  <2> QED BY <2>1
<1> QED BY <1>2

Definers(d, cs, n) == {i \in 1..Len(cs) : d[cs[i]][n] # 0}
Found(d, cs, n) ==
  IF Definers(d, cs, n) = {} THEN 0
  ELSE d[cs[CHOOSE i \in Definers(d, cs, n) : \A j \in Definers(d, cs, n) : i <= j]][n]

\* What the first definer defines is found.
LEMMA FoundFirst ==
  ASSUME NEW d, NEW cs, NEW n, NEW i \in Definers(d, cs, n), Len(cs) \in Nat,
         \A j \in Definers(d, cs, n) : i <= j
  PROVE  Found(d, cs, n) = d[cs[i]][n]
<1>1. PICK k : k = CHOOSE m \in Definers(d, cs, n) : \A j \in Definers(d, cs, n) : m <= j
  OBVIOUS
<1>2. k \in Definers(d, cs, n) /\ \A j \in Definers(d, cs, n) : k <= j
  BY Zenon, <1>1
<1>3. k = i
  <2>1. k <= i /\ i <= k /\ k \in Nat /\ i \in Nat
    BY <1>2 DEF Definers
  <2> QED BY <2>1
<1>4. Definers(d, cs, n) # {}
  OBVIOUS
<1> QED BY Zenon, <1>1, <1>3, <1>4 DEF Found

\* In two lists, one after the other.
LEMMA FoundAppended ==
  ASSUME NEW S, NEW d, NEW s \in Seq(S), NEW t \in Seq(S), NEW n
  PROVE  Found(d, s \o t, n) = IF Found(d, s, n) # 0 THEN Found(d, s, n) ELSE Found(d, t, n)
<1>1. PICK u \in Seq(S), p \in Nat, q \in Nat :
        /\ u = s \o t /\ p = Len(s) /\ q = Len(t) /\ Len(u) = p + q
        /\ \A i \in 1..p : u[i] = s[i]
        /\ \A i \in 1..q : u[p + i] = t[i]
  <2>1. /\ s \o t \in Seq(S) /\ Len(s) \in Nat /\ Len(t) \in Nat
        /\ Len(s \o t) = Len(s) + Len(t)
        /\ \A i \in 1..Len(s) : (s \o t)[i] = s[i]
        /\ \A i \in 1..Len(t) : (s \o t)[Len(s) + i] = t[i]
    OBVIOUS
  <2> QED BY <2>1
<1>2. PICK D, E, F : D = Definers(d, s, n) /\ E = Definers(d, t, n) /\ F = Definers(d, u, n)
  OBVIOUS
<1>3. /\ D = {i \in 1..p : d[s[i]][n] # 0} /\ E = {i \in 1..q : d[t[i]][n] # 0}
      /\ F = {i \in 1..p + q : d[u[i]][n] # 0}
  BY <1>1, <1>2 DEF Definers
<1>4. CASE D # {}
  <2>1. PICK i \in D : \A j \in D : i <= j
    <3>1. D \in SUBSET Nat
      BY <1>3
    <3> QED BY <1>4, <3>1, Least
  <2>2. i \in F /\ i \in 1..p
    BY <1>1, <1>3
  <2>3. ASSUME NEW j \in F PROVE i <= j
    <3>1. CASE j \in 1..p
      <4>1. j \in D
        BY <1>1, <1>3, <2>3, <3>1
      <4> QED BY <2>1, <4>1
    <3>2. CASE j \notin 1..p
      BY <1>3, <2>2, <2>3, <3>2
    <3> QED BY <3>1, <3>2
  <2>4. Found(d, s, n) = d[s[i]][n] /\ Found(d, u, n) = d[u[i]][n]
    <3>1. i \in Definers(d, s, n) /\ \A j \in Definers(d, s, n) : i <= j
      BY Zenon, <1>2, <2>1
    <3>2. i \in Definers(d, u, n) /\ \A j \in Definers(d, u, n) : i <= j
      BY Zenon, <1>2, <2>2, <2>3
    <3>3. Len(s) \in Nat /\ Len(u) \in Nat
      BY <1>1
    <3>4. Found(d, s, n) = d[s[i]][n]
      BY <3>1, <3>3, FoundFirst
    <3>5. Found(d, u, n) = d[u[i]][n]
      BY <3>2, <3>3, FoundFirst
    <3> QED BY Zenon, <3>4, <3>5
  <2>5. d[s[i]][n] # 0 /\ u[i] = s[i]
    BY <1>1, <1>3, <2>1
  <2> QED BY Zenon, <1>1, <2>4, <2>5
<1>5. CASE D = {} /\ E # {}
  <2>1. PICK i \in E : \A j \in E : i <= j
    <3>1. E \in SUBSET Nat
      BY <1>3
    <3> QED BY <1>5, <3>1, Least
  <2>2. p + i \in F /\ i \in 1..q
    BY <1>1, <1>3
  <2>3. ASSUME NEW j \in F PROVE p + i <= j
    <3>1. j \notin 1..p
      BY <1>1, <1>3, <1>5, <2>3
    <3>2. j - p \in 1..q /\ p + (j - p) = j
      BY <1>3, <2>3, <3>1
    <3>3. j - p \in E
      BY <1>1, <1>3, <2>3, <3>2
    <3>4. i <= j - p
      BY <2>1, <3>3
    <3> QED BY <2>2, <3>2, <3>4
  <2>4. Found(d, t, n) = d[t[i]][n] /\ Found(d, u, n) = d[u[p + i]][n]
    <3>1. i \in Definers(d, t, n) /\ \A j \in Definers(d, t, n) : i <= j
      BY Zenon, <1>2, <2>1
    <3>2. p + i \in Definers(d, u, n) /\ \A j \in Definers(d, u, n) : p + i <= j
      BY Zenon, <1>2, <2>2, <2>3
    <3>3. Len(t) \in Nat /\ Len(u) \in Nat
      BY <1>1
    <3>4. Found(d, t, n) = d[t[i]][n]
      BY <3>1, <3>3, FoundFirst
    <3>5. PICK k : k = p + i
      OBVIOUS
    <3>6. Found(d, u, n) = d[u[k]][n]
      BY <3>2, <3>3, <3>5, FoundFirst
    <3> QED BY Zenon, <3>4, <3>5, <3>6
  <2>5. Found(d, s, n) = 0
    BY Zenon, <1>2, <1>5 DEF Found
  <2> QED BY Zenon, <1>1, <2>2, <2>4, <2>5
<1>6. CASE D = {} /\ E = {}
  <2>1. F = {}
    <3>1. ASSUME NEW j \in F PROVE FALSE
      <4>1. j \notin 1..p
        BY <1>1, <1>3, <1>6, <3>1
      <4>2. PICK i \in 1..q : p + i = j
        <5>1. j - p \in 1..q /\ p + (j - p) = j
          BY <1>3, <3>1, <4>1
        <5> QED BY <5>1
      <4>3. u[j] = t[i] /\ d[u[j]][n] # 0
        BY <1>1, <1>3, <3>1, <4>2
      <4>4. i \in E
        BY Zenon, <1>3, <4>3
      <4> QED BY <1>6, <4>4
    <3> QED BY <3>1
  <2> QED BY Zenon, <1>1, <1>2, <1>6, <2>1 DEF Found
<1> QED BY <1>4, <1>5, <1>6

\* In a list of one.
LEMMA FoundOne ==
  ASSUME NEW d, NEW m, NEW n
  PROVE  Found(d, <<m>>, n) = d[m][n]
<1>1. Len(<<m>>) = 1 /\ <<m>>[1] = m
  OBVIOUS
<1>2. CASE d[m][n] # 0
  <2>1. Definers(d, <<m>>, n) = {1}
    BY <1>1, <1>2 DEF Definers
  <2>2. 1 \in Definers(d, <<m>>, n) /\ \A j \in Definers(d, <<m>>, n) : 1 <= j
    BY <2>1
  <2>3. Found(d, <<m>>, n) = d[<<m>>[1]][n]
    BY <1>1, <2>2, FoundFirst
  <2> QED BY Zenon, <1>1, <2>3
<1>3. CASE d[m][n] = 0
  <2>1. Definers(d, <<m>>, n) = {}
    BY <1>1, <1>3 DEF Definers
  <2> QED BY Zenon, <1>3, <2>1 DEF Found
<1> QED BY <1>2, <1>3

-----------------------------------------------------------------------------
(* The ancestors of Hierarchy, by the structs.                               *)

\* Hierarchy counts as this module does.
LEMMA SameCardinality ==
  ASSUME NEW S
  PROVE  H!Cardinality(S) = Cardinality(S)
BY Zenon DEF H!Cardinality, Cardinality

AncestorRows ==
  LET line[k \in 0..H!Cardinality(H!Declared)] ==
        [d \in H!Declared |->
           IF parents[d] = d \/ k = 0 THEN <<d>> \o mixed[d]
           ELSE <<d>> \o mixed[d] \o line[k - 1][parents[d]]]
  IN line
AncestorsUnwind(w) ==
  w = [k \in 0..H!Cardinality(H!Declared) |->
         [d \in H!Declared |->
            IF parents[d] = d \/ k = 0 THEN <<d>> \o mixed[d]
            ELSE <<d>> \o mixed[d] \o w[k - 1][parents[d]]]]
Alone == [d \in Originals |-> parents[d] = d]
WithMixins == [d \in Originals |-> <<d>> \o mixed[d]]

\* There are finitely many classes.
LEMMA FinitelyMany ==
  ASSUME Rows
  PROVE  IsFiniteSet(Originals) /\ Cardinality(Originals) \in Nat
<1>1. Len(heap) \in Nat
  BY DEF Rows
<1>2. IsFiniteSet(Structs)
  BY <1>1, FS_Interval DEF Structs
<1>3. IsFiniteSet(Originals)
  BY <1>2, FS_Subset DEF Originals
<1> QED BY <1>3, FS_CardinalityType

\* The rows of the ancestors.
LEMMA AncestorsByRows ==
  ASSUME NEW w
  PROVE  AncestorsUnwind(w)
           <=> InRows(w, WithMixins, parents, Alone, Cardinality(Originals))
<1>1. H!Declared = Originals /\ DOMAIN parents = Originals
      /\ H!Cardinality(H!Declared) = Cardinality(Originals)
  BY Zenon, SameCardinality DEF H!Declared, parents
<1>2. ASSUME NEW k \in 0..Cardinality(Originals)
      PROVE  Row(WithMixins, parents, Alone, k, w[k - 1])
               = [d \in Originals |->
                    IF parents[d] = d \/ k = 0 THEN <<d>> \o mixed[d]
                    ELSE <<d>> \o mixed[d] \o w[k - 1][parents[d]]]
  <2>1. ASSUME NEW d \in Originals
        PROVE  (IF Alone[d] \/ k = 0 THEN WithMixins[d]
                ELSE WithMixins[d] \o w[k - 1][parents[d]])
                 = IF parents[d] = d \/ k = 0 THEN <<d>> \o mixed[d]
                   ELSE <<d>> \o mixed[d] \o w[k - 1][parents[d]]
    <3>1. Alone[d] = (parents[d] = d) /\ WithMixins[d] = <<d>> \o mixed[d]
      BY Zenon DEF Alone, WithMixins
    <3> QED BY Zenon, <3>1
  <2> QED BY Zenon, <1>1, <2>1 DEF Row
<1>3. [k \in 0..Cardinality(Originals) |->
         Row(WithMixins, parents, Alone, k, w[k - 1])]
        = [k \in 0..H!Cardinality(H!Declared) |->
             [d \in H!Declared |->
                IF parents[d] = d \/ k = 0 THEN <<d>> \o mixed[d]
                ELSE <<d>> \o mixed[d] \o w[k - 1][parents[d]]]]
  BY Zenon, <1>1, <1>2
<1> QED BY Zenon, <1>3 DEF AncestorsUnwind, InRows

\* The ancestors are in the last row.
LEMMA AncestorsInRows ==
  ASSUME Rows
  PROVE  /\ InRows(AncestorRows, WithMixins, parents, Alone, Cardinality(Originals))
         /\ \A c : H!Ancestors(c) = AncestorRows[Cardinality(Originals)][c]
<1>1. AncestorRows = CHOOSE w : AncestorsUnwind(w)
  BY Zenon DEF AncestorRows, AncestorsUnwind
<1>2. \E w : AncestorsUnwind(w)
  BY FinitelyMany, RowsExist, AncestorsByRows
<1>3. AncestorsUnwind(AncestorRows)
  BY Zenon, <1>1, <1>2
<1>4. H!Cardinality(H!Declared) = Cardinality(Originals)
  BY Zenon, SameCardinality DEF H!Declared
<1>5. \A c : H!Ancestors(c) = AncestorRows[H!Cardinality(H!Declared)][c]
  BY Zenon DEF H!Ancestors, AncestorRows, parents, mixed
<1> QED BY Zenon, <1>3, <1>4, <1>5, AncestorsByRows

\* Of an original there is nothing else in the line.
LEMMA UpOriginal ==
  ASSUME IInv, NEW c \in Originals
  PROVE  Up(c) = <<c>>
<1>1. c \in DOMAIN Super /\ Upright[c] /\ Len(heap) \in Nat
  <2>1. c \in Structs /\ ~IsCopy(c) /\ Len(heap) \in Nat
    BY DEF Originals, IInv, Rows
  <2>2. Upright[c]
    BY Zenon, <2>1 DEF Upright
  <2> QED BY <2>1, <2>2 DEF Super
<1> QED BY <1>1, AlongStep DEF Up

\* The line of the copies above a struct ends at an original.
LEMMA UpEnds ==
  ASSUME IInv
  PROVE  \A c \in Structs : Last(Up(c)) \in Originals
<1>0. Rows /\ Pointers /\ Chains
  BY DEF IInv
<1>1. PICK rank \in [Structs -> Nat] : \A x \in Structs : rank[x] = IF IsCopy(x) THEN x ELSE 0
  <2> DEFINE f == [x \in Structs |-> IF IsCopy(x) THEN x ELSE 0]
  <2>1. f \in [Structs -> Nat]
    BY DEF Structs
  <2> QED BY <2>1
<1> DEFINE T == {x \in Structs : Last(Up(x)) \in Originals}
<1>2. ASSUME NEW x \in Structs, \A y \in Structs : rank[y] < rank[x] => y \in T
      PROVE  x \in T
  <2>1. CASE IsCopy(x)
    <3>1. PICK y \in Structs : y = heap[x].super /\ Last(Up(x)) = Last(Up(y))
      BY <2>1, CopyLeads
    <3>2. rank[y] < rank[x]
      BY <1>0, <1>1, <2>1, <3>1 DEF Chains, Structs
    <3>3. Last(Up(y)) \in Originals
      BY <1>2, <3>2
    <3> QED BY <3>1, <3>3
  <2>2. CASE ~IsCopy(x)
    <3>1. Up(x) = <<x>> /\ x \in Originals
      BY <2>2, UpOriginal DEF Originals
    <3>2. Last(<<x>>) = x
      BY DEF Last
    <3> QED BY Zenon, <3>1, <3>2
  <2> QED BY <2>1, <2>2
<1> HIDE DEF T
<1>3. Structs \subseteq T
  BY <1>2, Downward
<1> QED BY <1>3 DEF T

\* The parent of a class is lower than the class, unless it is the class itself.
LEMMA ParentBelow ==
  ASSUME IInv, NEW rank \in [Structs -> Nat], Descends(rank), NEW c \in Structs, ~Looped(c)
  PROVE  Parent(c) \in Originals /\ rank[Parent(c)] < rank[c]
<1>0. Rows /\ Pointers
  BY DEF IInv
<1>1. PICK sc \in Structs : sc = heap[c].super /\ sc # 0
  BY <1>0, RootlessLoops DEF Pointers, Structs
<1>2. rank[sc] < rank[c]
  BY <1>1 DEF Descends
<1>3. Parent(c) = Last(Up(sc)) /\ ~IsCopy(Last(Up(sc)))
  <2>1. Parent(c) = Last(Up(sc))
    BY Zenon, <1>1, ShownBefore DEF Shown
  <2>2. ~IsCopy(Last(Up(sc)))
    BY UpEnds DEF Originals
  <2> QED BY <2>1, <2>2
<1> DEFINE B == {x \in Structs : rank[x] <= rank[sc]}
<1>4. ASSUME NEW x \in B PROVE Upright[x] \/ Super[x] \in B
  <2>1. CASE IsCopy(x)
    <3>1. heap[x].super \in Structs /\ Super[x] = heap[x].super
      BY <1>0, <2>1 DEF Pointers, Rootless, Builtins, Super
    <3>2. rank[heap[x].super] < rank[x]
      BY <2>1 DEF Descends, Looped, Originals
    <3> QED BY <3>1, <3>2
  <2>2. CASE ~IsCopy(x)
    BY Zenon, <2>2 DEF Upright
  <2> QED BY <2>1, <2>2
<1>5. B \in SUBSET DOMAIN Super /\ sc \in B /\ Len(heap) \in Nat
  BY <1>0 DEF Super, Rows
<1>6. Last(Up(sc)) \in B
  <2> HIDE DEF B
  <2> QED BY <1>4, <1>5, AlongLast DEF Up
<1> QED BY <1>1, <1>2, <1>3, <1>6 DEF Originals

\* Where Object is its own superclass, nothing is mixed into it.
LEMMA ObjectBare ==
  ASSUME IInv, Super[Object] = Object
  PROVE  Object \in Originals /\ Parent(Object) = Object /\ Mixins(Object) = <<>>
<1>1. Object \in Originals
  BY BuiltinStructs DEF IInv, Object, Builtins
<1>2. heap[Object].super = Object /\ Object # 0 /\ Object \in Structs
  BY <1>1 DEF Super, Object, Originals
<1>3. /\ Parent(Object) = Last(Up(Object))
      /\ Mixins(Object) = [i \in 1..Len(Up(Object)) - 1 |-> heap[Up(Object)[i]].maps]
  BY Zenon, <1>2, ShownBefore DEF Shown
<1>4. Up(Object) = <<Object>>
  BY <1>1, UpOriginal
<1>5. Last(<<Object>>) = Object /\ Len(<<Object>>) - 1 = 0
  BY DEF Last
<1>6. Mixins(Object) = <<>>
  BY <1>3, <1>4, <1>5
<1> QED BY Zenon, <1>1, <1>3, <1>4, <1>5, <1>6

\* The ancestors of a class, by those of its parent.
LEMMA AncestorsOf ==
  ASSUME IInv, LInv, NEW D, Closed(D), Super[Object] = Object
  PROVE  \A c \in D \cap Originals :
           H!Ancestors(c) = IF c = Object THEN <<c>> \o Mixins(c)
                            ELSE <<c>> \o Mixins(c) \o H!Ancestors(Parent(c))
<1>0. Rows /\ Pointers /\ Ladder
  BY DEF IInv, LInv
<1>1. PICK S : S = D \cap Originals
  OBVIOUS
<1>2. PICK rank \in [Structs -> Nat] : Descends(rank)
  BY <1>0 DEF Ladder
<1>3. S \in SUBSET Structs /\ S \in SUBSET Originals /\ IsFiniteSet(S)
      /\ Cardinality(S) <= Cardinality(Originals) /\ Cardinality(Originals) \in Nat
      /\ Cardinality(S) \in Nat
  BY <1>0, <1>1, FinitelyMany, FS_Subset, FS_CardinalityType DEF Originals
<1> DEFINE below(x) == {y \in S : rank[y] < rank[x]}
<1>4. ASSUME NEW x \in S
      PROVE  /\ IsFiniteSet(below(x)) /\ Cardinality(below(x)) \in Nat
             /\ Cardinality(below(x)) <= Cardinality(Originals)
  <2>1. below(x) \in SUBSET S
    OBVIOUS
  <2> HIDE DEF below
  <2>2. IsFiniteSet(below(x)) /\ Cardinality(below(x)) <= Cardinality(S)
        /\ Cardinality(below(x)) \in Nat
    BY <1>3, <2>1, FS_Subset, FS_CardinalityType
  <2> QED BY <1>3, <2>2
<1>5. ASSUME NEW x \in S, NEW y \in S, rank[y] < rank[x]
      PROVE  Cardinality(below(y)) < Cardinality(below(x))
  <2>1. below(y) \in SUBSET below(x) /\ y \in below(x) /\ y \notin below(y)
    <3>1. rank[x] \in Nat /\ rank[y] \in Nat /\ \A z \in S : rank[z] \in Nat
      BY <1>3
    <3> QED BY <1>5, <3>1
  <2> HIDE DEF below
  <2>2. Cardinality(below(y)) <= Cardinality(below(x))
        /\ (Cardinality(below(x)) = Cardinality(below(y)) => below(x) = below(y))
    BY <1>4, <2>1, FS_Subset
  <2>3. below(x) # below(y)
    BY <2>1
  <2> QED BY <1>4, <2>2, <2>3
<1>6. PICK r \in [S -> Nat] : \A x \in S : r[x] = Cardinality(below(x))
  <2> DEFINE f == [x \in S |-> Cardinality(below(x))]
  <2>1. f \in [S -> Nat] /\ \A x \in S : f[x] = Cardinality(below(x))
    BY <1>4
  <2> QED BY <2>1
<1>7. ASSUME NEW x \in S
      PROVE  /\ Alone[x] <=> x = Object
             /\ Alone[x] \/ (parents[x] \in S /\ r[parents[x]] < r[x])
             /\ parents[x] = Parent(x) /\ mixed[x] = Mixins(x)
             /\ WithMixins[x] = <<x>> \o Mixins(x)
  <2>1. x \in Originals /\ x \in D /\ x \in Structs
    BY <1>1, <1>3
  <2>2. /\ parents[x] = Parent(x) /\ mixed[x] = Mixins(x)
        /\ Alone[x] = (parents[x] = x)
        /\ WithMixins[x] = <<x>> \o mixed[x]
    BY Zenon, <2>1 DEF parents, mixed, Alone, WithMixins
  <2>3. CASE x = Object
    BY <2>2, <2>3, ObjectBare
  <2>4. CASE x # Object
    <3>1. ~Looped(x)
      BY <2>1, <2>4 DEF Closed
    <3>2. Parent(x) \in Originals /\ rank[Parent(x)] < rank[x]
      BY <1>2, <2>1, <3>1, ParentBelow
    <3>3. Parent(x) \in S
      BY <1>1, <2>1, <3>2, ParentsInside
    <3>4. Cardinality(below(Parent(x))) < Cardinality(below(x))
      BY <1>5, <3>2, <3>3
    <3>5. Parent(x) # x
      BY Zenon, <2>1, <3>1 DEF Looped
    <3> HIDE DEF below
    <3>6. r[Parent(x)] < r[x]
      BY <1>6, <3>3, <3>4
    <3> QED BY Zenon, <2>2, <2>4, <3>3, <3>5, <3>6
  <2> QED BY <2>3, <2>4
<1> PICK N \in Nat : N = Cardinality(Originals)
  BY <1>3
<1>8. PICK w : w = AncestorRows
  OBVIOUS
<1>9. InRows(w, WithMixins, parents, Alone, N) /\ \A c : H!Ancestors(c) = w[N][c]
  BY Zenon, <1>0, <1>8, AncestorsInRows
<1>10. ASSUME NEW x \in S
       PROVE  r[x] <= N /\ (Alone[x] \/ (parents[x] \in S /\ r[parents[x]] < r[x]))
  <2> HIDE DEF below
  <2> QED BY <1>4, <1>6, <1>7
<1>11. S \in SUBSET DOMAIN parents
  BY <1>3 DEF parents
<1>12. \A x \in S : w[N][x] = IF Alone[x] THEN WithMixins[x]
                              ELSE WithMixins[x] \o w[N][parents[x]]
  <2> HIDE DEF below
  <2>1. PICK own, next, stop : own = WithMixins /\ next = parents /\ stop = Alone
    OBVIOUS
  <2>2. InRows(w, own, next, stop, N) /\ S \in SUBSET DOMAIN next
        /\ Falls(next, stop, S, r, N)
    BY Zenon, <1>9, <1>10, <1>11, <2>1 DEF Falls
  <2>3. \A x \in S : w[N][x] = IF stop[x] THEN own[x] ELSE own[x] \o w[N][next[x]]
    <3>1. r \in [S -> Nat] /\ N \in Nat
      OBVIOUS
    <3>2. Unrolled(w[N], own, next, stop, S)
      BY Zenon, <2>2, <3>1, RowsAlike
    <3> QED BY Zenon, <3>2 DEF Unrolled
  <2> QED BY Zenon, <2>1, <2>3
<1>13. ASSUME NEW c \in S
       PROVE  H!Ancestors(c) = IF c = Object THEN <<c>> \o Mixins(c)
                               ELSE <<c>> \o Mixins(c) \o H!Ancestors(Parent(c))
  <2>1. /\ Alone[c] <=> c = Object
        /\ parents[c] = Parent(c) /\ WithMixins[c] = <<c>> \o Mixins(c)
    BY <1>7
  <2>2. w[N][c] = IF Alone[c] THEN WithMixins[c] ELSE WithMixins[c] \o w[N][parents[c]]
    BY <1>12
  <2> HIDE DEF below
  <2> QED BY Zenon, <1>9, <2>1, <2>2
<1> QED BY Zenon, <1>1, <1>13

-----------------------------------------------------------------------------
(* What a chain of superclasses stands for.                                  *)

\* The modules that the copies of a line are made of, and with them the ancestors
\* of the class it ends at.
Copied(x) == [i \in 1..Len(Up(x)) - 1 |-> heap[Up(x)[i]].maps]
Line(x) == Copied(x) \o H!Ancestors(Last(Up(x)))

\* The first is a list of classes.
LEMMA CopiedIsList ==
  ASSUME IInv, NEW x \in Structs
  PROVE  Copied(x) \in Seq(Originals)
<1>1. PICK u \in Seq(Structs) : u = Up(x) /\ u # <<>>
  BY LinesEnd
<1>2. PICK n \in Nat : n = Len(u) - 1
  BY <1>1
<1>3. ASSUME NEW i \in 1..n PROVE heap[u[i]].maps \in Originals
  <2>1. u[i] \in Structs
    BY <1>1, <1>2
  <2> QED BY Zenon, <2>1 DEF IInv, Pointers
<1>4. PICK f : f = [i \in 1..n |-> heap[u[i]].maps]
  OBVIOUS
<1>5. f \in [1..n -> Originals]
  BY Zenon, <1>3, <1>4
<1>6. Copied(x) = f
  BY Zenon, <1>1, <1>2, <1>4 DEF Copied
<1> QED BY <1>5, <1>6, FunctionIsSequence

\* It is empty for an original, and starts with the module of a copy.
LEMMA CopiedIs ==
  ASSUME IInv, NEW x \in Structs
  PROVE  IF IsCopy(x) THEN Copied(x) = <<heap[x].maps>> \o Copied(heap[x].super)
         ELSE Copied(x) = <<>>
<1>1. CASE ~IsCopy(x)
  <2>1. Up(x) = <<x>>
    BY <1>1, UpOriginal DEF Originals
  <2>2. Len(<<x>>) - 1 = 0
    OBVIOUS
  <2>3. Copied(x) = [i \in 1..0 |-> heap[Up(x)[i]].maps]
    BY Zenon, <2>1, <2>2 DEF Copied
  <2> QED BY <1>1, <2>3
<1>2. CASE IsCopy(x)
  <2>1. PICK y \in Structs : y = heap[x].super /\ Up(x) = <<x>> \o Up(y)
    BY <1>2, CopyLeads
  <2>2. PICK u \in Seq(Structs) : u = Up(y) /\ u # <<>>
    BY LinesEnd
  <2>3. PICK v \in Seq(Structs), n \in Nat :
          /\ v = Up(x) /\ n = Len(u) - 1 /\ Len(v) - 1 = n + 1 /\ v[1] = x
          /\ \A i \in 1..n : v[i + 1] = u[i]
    <3>1. PICK v : v = <<x>> \o u
      OBVIOUS
    <3>2. /\ v \in Seq(Structs) /\ Len(u) - 1 \in Nat /\ Len(v) - 1 = Len(u) - 1 + 1
          /\ v[1] = x /\ \A i \in 1..Len(u) - 1 : v[i + 1] = u[i]
      BY <2>2, <3>1
    <3> QED BY <2>1, <2>2, <3>1, <3>2
  <2>4. PICK f, g : /\ f = [i \in 1..n + 1 |-> heap[v[i]].maps]
                    /\ g = [i \in 1..n |-> heap[u[i]].maps]
    OBVIOUS
  <2>5. Copied(x) = f /\ Copied(y) = g
    BY Zenon, <2>2, <2>3, <2>4 DEF Copied
  <2>6. f \in Seq(Originals) /\ g \in Seq(Originals)
    BY <2>5, CopiedIsList
  <2>7. heap[x].maps \in Originals
    BY DEF IInv, Pointers
  <2>8. Len(g) = n /\ f \in [1..n + 1 -> Originals]
    <3>1. DOMAIN f = 1..n + 1 /\ DOMAIN g = 1..n
      BY <2>4
    <3> QED BY <2>6, <3>1
  <2>9. f[1] = heap[x].maps
    BY <2>3, <2>4
  <2>10. ASSUME NEW i \in 1..Len(g) PROVE f[i + 1] = g[i]
    <3>1. i \in 1..n /\ i + 1 \in 1..n + 1
      BY <2>8
    <3> QED BY Zenon, <2>3, <2>4, <3>1
  <2>11. f = <<heap[x].maps>> \o g
    <3>1. PICK m \in Originals, k \in Nat : m = heap[x].maps /\ k = n + 1
      BY <2>7
    <3>2. k = Len(g) + 1 /\ f \in [1..k -> Originals] /\ f[1] = m
          /\ \A i \in 1..Len(g) : f[i + 1] = g[i]
      BY <2>8, <2>9, <2>10, <3>1
    <3> QED BY <2>6, <3>1, <3>2, Prefixed
  <2> QED BY Zenon, <1>2, <2>1, <2>5, <2>11
<1> QED BY <1>1, <1>2

\* The ancestors are a list of classes.
LEMMA AncestorsAreList ==
  ASSUME IInv, LInv, NEW D, Closed(D), Super[Object] = Object
  PROVE  \A c \in D \cap Originals : Mixins(c) \in Seq(Originals) /\ H!Ancestors(c) \in Seq(Originals)
<1>0. Rows /\ Pointers /\ Ladder
  BY DEF IInv, LInv
<1>1. PICK rank \in [Structs -> Nat] : Descends(rank)
  BY <1>0 DEF Ladder
<1>2. PICK S : S = D \cap Originals /\ S \subseteq Structs
  BY DEF Originals
<1>3. ASSUME NEW c \in S PROVE Mixins(c) \in Seq(Originals)
  <2>1. c \in Structs
    BY <1>2
  <2>2. CASE heap[c].super = 0
    <3>1. Mixins(c) = <<>>
      BY Zenon, <2>1, <2>2, ShownBefore DEF Shown
    <3> QED BY <3>1
  <2>3. CASE heap[c].super # 0
    <3>1. PICK sc \in Structs : sc = heap[c].super
      BY <1>0, <2>1, <2>3 DEF Pointers
    <3>2. Mixins(c) = Copied(sc)
      BY Zenon, <2>1, <2>3, <3>1, ShownBefore DEF Shown, Copied
    <3> QED BY <3>2, CopiedIsList
  <2> QED BY <2>2, <2>3
<1>4. PICK r \in [S -> Nat] : \A x \in S : r[x] = rank[x]
  <2> DEFINE f == [x \in S |-> rank[x]]
  <2>1. f \in [S -> Nat] /\ \A x \in S : f[x] = rank[x]
    BY <1>2
  <2> QED BY <2>1
<1> DEFINE T == {c \in S : H!Ancestors(c) \in Seq(Originals)}
<1>5. ASSUME NEW x \in S, \A y \in S : r[y] < r[x] => y \in T
      PROVE  x \in T
  <2>1. <<x>> \o Mixins(x) \in Seq(Originals)
    BY <1>2, <1>3
  <2>2. H!Ancestors(x) = IF x = Object THEN <<x>> \o Mixins(x)
                         ELSE <<x>> \o Mixins(x) \o H!Ancestors(Parent(x))
    BY <1>2, AncestorsOf
  <2>3. CASE x = Object
    BY Zenon, <2>1, <2>2, <2>3
  <2>4. CASE x # Object
    <3>1. ~Looped(x) /\ x \in D /\ x \in Structs
      BY <1>2, <2>4 DEF Closed
    <3>2. PICK p \in S : p = Parent(x) /\ rank[p] < rank[x]
      BY <1>1, <1>2, <3>1, ParentBelow, ParentsInside
    <3>3. H!Ancestors(p) \in Seq(Originals)
      BY <1>4, <1>5, <3>2
    <3>4. PICK s \in Seq(Originals), t \in Seq(Originals) :
            s = <<x>> \o Mixins(x) /\ t = H!Ancestors(p)
      BY Zenon, <2>1, <3>3
    <3>5. s \o t \in Seq(Originals)
      OBVIOUS
    <3> QED BY Zenon, <2>2, <2>4, <3>2, <3>4, <3>5
  <2> QED BY <2>3, <2>4
<1> HIDE DEF T
<1>6. S \subseteq T
  BY <1>5, Downward
<1> QED BY Zenon, <1>2, <1>3, <1>6 DEF T

\* Where a line of copies ends the chain is as well.
LEMMA UpInside ==
  ASSUME IInv, NEW D, Closed(D), NEW x \in D
  PROVE  Last(Up(x)) \in D \cap Originals
<1>1. D \in SUBSET DOMAIN Super /\ Len(heap) \in Nat /\ \A y \in D : Upright[y] \/ Super[y] \in D
  <2>1. D \in SUBSET Structs /\ \A y \in D : Super[y] \in D
    BY Zenon DEF Closed
  <2>2. DOMAIN Super = Structs /\ Len(heap) \in Nat
    BY DEF Super, IInv, Rows
  <2> QED BY <2>1, <2>2
<1>2. Last(Up(x)) \in D
  BY <1>1, AlongLast DEF Up
<1>3. x \in Structs
  BY DEF Closed
<1> QED BY <1>2, <1>3, UpEnds

\* What a struct stands for, by the one that it leads to.
LEMMA LineIs ==
  ASSUME IInv, LInv, NEW D, Closed(D), Super[Object] = Object, NEW x \in D
  PROVE  /\ Line(x) \in Seq(Originals)
         /\ Line(x) = IF x = Object THEN <<Object>> ELSE <<heap[x].maps>> \o Line(heap[x].super)
         /\ ~IsCopy(x) => Line(x) = H!Ancestors(x)
         /\ ~IsCopy(x) => Tail(Line(x)) \in Seq(Originals)
                          /\ Line(x) = <<x>> \o Tail(Line(x))
<1>0. Rows /\ Pointers
  BY DEF IInv
<1>1. x \in Structs /\ Super[x] = heap[x].super /\ heap[x].super \in D
  BY DEF Closed, Super
<1>2. ASSUME NEW y \in D
      PROVE  /\ Copied(y) \in Seq(Originals)
             /\ H!Ancestors(Last(Up(y))) \in Seq(Originals)
             /\ Line(y) \in Seq(Originals)
  <2>1. Copied(y) \in Seq(Originals)
    BY CopiedIsList DEF Closed
  <2>2. H!Ancestors(Last(Up(y))) \in Seq(Originals)
    BY UpInside, AncestorsAreList
  <2>3. PICK s \in Seq(Originals), t \in Seq(Originals) :
          s = Copied(y) /\ t = H!Ancestors(Last(Up(y)))
    BY Zenon, <2>1, <2>2
  <2>4. s \o t \in Seq(Originals)
    OBVIOUS
  <2> QED BY Zenon, <2>1, <2>2, <2>3, <2>4 DEF Line
<1>3. CASE IsCopy(x)
  <2>1. PICK y \in D : y = heap[x].super
    BY <1>1
  <2>2. PICK m \in Originals, s \in Seq(Originals), t \in Seq(Originals) :
          m = heap[x].maps /\ s = Copied(y) /\ t = H!Ancestors(Last(Up(y)))
    <3>1. heap[x].maps \in Originals
      BY <1>0, <1>1 DEF Pointers
    <3> QED BY Zenon, <1>2, <3>1
  <2>3. Copied(x) = <<m>> \o s
    BY Zenon, <1>1, <1>3, <2>1, <2>2, CopiedIs
  <2>4. H!Ancestors(Last(Up(x))) = t
    BY Zenon, <1>1, <1>3, <2>1, <2>2, CopyLeads
  <2>5. (<<m>> \o s) \o t = <<m>> \o (s \o t)
    OBVIOUS
  <2>6. Line(x) = <<m>> \o Line(y)
    BY Zenon, <2>2, <2>3, <2>4, <2>5 DEF Line
  <2>7. x # Object
    BY <1>3, ObjectBare DEF Originals
  <2> QED BY Zenon, <1>2, <1>3, <2>1, <2>2, <2>6, <2>7
<1>4. CASE ~IsCopy(x)
  <2>1. x \in Originals /\ heap[x].maps = x
    BY <1>1, <1>4 DEF Originals, IsCopy
  <2>2. Line(x) = H!Ancestors(x)
    <3>1. Up(x) = <<x>> /\ Last(<<x>>) = x
      BY <2>1, UpOriginal DEF Last
    <3>2. Copied(x) = <<>>
      BY <1>1, <1>4, CopiedIs
    <3>3. PICK t \in Seq(Originals) : t = H!Ancestors(x)
      BY Zenon, <1>2, <3>1
    <3>4. <<>> \o t = t
      OBVIOUS
    <3> QED BY Zenon, <3>1, <3>2, <3>3, <3>4 DEF Line
  <2>3. H!Ancestors(x) = IF x = Object THEN <<x>> \o Mixins(x)
                         ELSE <<x>> \o Mixins(x) \o H!Ancestors(Parent(x))
    BY <2>1, AncestorsOf
  <2>4. CASE x = Object
    <3>1. <<x>> \o <<>> = <<x>> /\ Tail(<<x>>) = <<>> /\ <<x>> = <<x>> \o <<>>
          /\ <<>> \in Seq(Originals)
      OBVIOUS
    <3>2. Line(x) = <<x>>
      BY Zenon, <2>2, <2>3, <2>4, <3>1, ObjectBare
    <3> QED BY Zenon, <1>2, <1>4, <2>2, <2>4, <3>1, <3>2
  <2>5. CASE x # Object
    <3>1. PICK y \in D : y = heap[x].super
      BY <1>1
    <3>2. y # 0
      BY DEF Closed, Structs
    <3>3. Mixins(x) = Copied(y) /\ Parent(x) = Last(Up(y))
      BY Zenon, <1>1, <3>1, <3>2, ShownBefore DEF Shown, Copied
    <3>4. PICK s \in Seq(Originals), t \in Seq(Originals) :
            s = Copied(y) /\ t = H!Ancestors(Last(Up(y)))
      BY Zenon, <1>2
    <3>5. (<<x>> \o s) \o t = <<x>> \o (s \o t) /\ s \o t \in Seq(Originals)
          /\ Tail(<<x>> \o (s \o t)) = s \o t
      BY <2>1
    <3>6. Line(x) = <<x>> \o (s \o t)
      BY Zenon, <2>2, <2>3, <2>5, <3>3, <3>4, <3>5
    <3>7. Line(y) = s \o t
      BY Zenon, <3>4 DEF Line
    <3> QED BY Zenon, <1>2, <1>4, <2>1, <2>2, <2>5, <3>1, <3>5, <3>6, <3>7
  <2> QED BY <2>4, <2>5
<1> QED BY <1>3, <1>4

-----------------------------------------------------------------------------
(* Walks along a closed chain.                                               *)

\* Object is where a closed chain goes no further.
LEMMA ObjectStops ==
  ASSUME IInv, LInv, NEW D, Closed(D), Super[Object] = Object
  PROVE  /\ \A x \in D : Super[x] \in {0, x} <=> x = Object
         /\ \E rank \in [D -> Nat] : Falls(Super, [x \in D |-> x = Object], D, rank, Len(heap))
         /\ D \in SUBSET DOMAIN Super /\ Len(heap) \in Nat
<1>0. Rows /\ Pointers /\ Ladder
  BY DEF IInv, LInv
<1>1. PICK rank \in [Structs -> Nat] : Descends(rank)
  BY <1>0 DEF Ladder
<1>2. D \subseteq Structs /\ DOMAIN Super = Structs /\ Len(heap) \in Nat
  BY <1>0 DEF Closed, Super, Rows
<1>3. PICK r \in [D -> Nat] : \A x \in D : r[x] = rank[x]
  <2> DEFINE f == [x \in D |-> rank[x]]
  <2>1. f \in [D -> Nat] /\ \A x \in D : f[x] = rank[x]
    BY <1>2
  <2> QED BY <2>1
<1>4. ASSUME NEW x \in D
      PROVE  r[x] <= Len(heap) /\ Super[x] \in D /\ Super[x] # 0
             /\ (x = Object \/ r[Super[x]] < r[x])
  <2>1. x \in Structs /\ Super[x] = heap[x].super /\ Super[x] \in D /\ (x = Object \/ ~Looped(x))
    BY <1>2 DEF Closed, Super
  <2>2. r[x] <= Len(heap)
    BY <1>1, <1>2, <1>3, <2>1 DEF Descends
  <2>3. x = Object \/ r[Super[x]] < r[x]
    BY <1>1, <1>3, <2>1 DEF Descends
  <2>4. Super[x] # 0
    BY <1>2, <2>1 DEF Structs
  <2> QED BY <2>1, <2>2, <2>3, <2>4
<1>5. \A x \in D : Super[x] \in {0, x} <=> x = Object
  BY <1>4
<1>6. Falls(Super, [x \in D |-> x = Object], D, r, Len(heap))
  BY <1>4 DEF Falls
<1> QED BY <1>2, <1>5, <1>6

\* Such walks end, whatever else they stop at, and end as the next one does.
LEMMA WalksEnd ==
  ASSUME IInv, LInv, NEW D, Closed(D), Super[Object] = Object,
         NEW stop, Object \in D => stop[Object]
  PROVE  EndsAlong(Super, stop, D, Len(heap))
<1>1. PICK rank \in [D -> Nat] : Falls(Super, [x \in D |-> x = Object], D, rank, Len(heap))
  BY ObjectStops
<1>2. Len(heap) \in Nat /\ D \in SUBSET DOMAIN Super
  BY ObjectStops
<1>3. Falls(Super, stop, D, rank, Len(heap))
  BY <1>1 DEF Falls
<1>4. PICK N \in Nat : N = Len(heap)
  BY <1>2
<1>5. PICK next : next = Super
  OBVIOUS
<1>6. D \in SUBSET DOMAIN next /\ rank \in [D -> Nat] /\ Falls(next, stop, D, rank, N)
  BY Zenon, <1>2, <1>3, <1>4, <1>5
<1>7. EndsAlong(next, stop, D, N)
  BY Zenon, <1>6, EndOfWalk
<1> QED BY Zenon, <1>4, <1>5, <1>7

\* First is what was called Found above.
LEMMA FirstIsFound ==
  ASSUME NEW cs, NEW n
  PROVE  H!First(cs, n) = Found(defined, cs, n)
BY Zenon DEF H!First, Found, Definers, defined

\* A method is looked up along the line that the structs stand for.
LEMMA LooksUp ==
  ASSUME IInv, LInv, NEW D, Closed(D), Super[Object] = Object, NEW n \in MethodNames
  PROVE  \A x \in D : lookupMethod(x, n) = Found(defined, Line(x), n)
<1> DEFINE stop == [x \in Structs |-> methods[heap[x].maps][n] # 0 \/ Super[x] \in {0, x}]
           end(x) == Last(Along(Super, x, stop, Len(heap)))
           value(x) == methods[heap[x].maps][n]
<1>0. Rows /\ Pointers
  BY DEF IInv
<1>1. ASSUME NEW x \in D
      PROVE  x \in Structs /\ stop[x] = (value(x) # 0 \/ x = Object)
             /\ Super[x] \in D /\ Super[x] = heap[x].super
             /\ heap[x].maps \in Originals
  <2>1. x \in Structs /\ Super[x] \in D /\ Super[x] = heap[x].super
    BY DEF Closed, Super
  <2>2. Super[x] \in {0, x} <=> x = Object
    BY ObjectStops
  <2>3. heap[x].maps \in Originals
    BY Zenon, <1>0, <2>1 DEF Pointers
  <2> QED BY Zenon, <2>1, <2>2, <2>3
<1>2. \A x : lookupMethod(x, n) = value(end(x))
  BY Zenon DEF lookupMethod
<1>3. ASSUME NEW x \in D PROVE end(x) = IF stop[x] THEN x ELSE end(Super[x])
  <2>1. Object \in D => stop[Object]
    BY <1>1
  <2> HIDE DEF stop
  <2>2. EndsAlong(Super, stop, D, Len(heap))
    BY Zenon, <2>1, WalksEnd
  <2> QED BY Zenon, <2>2 DEF EndsAlong
<1>4. ASSUME NEW x \in D, x # Object
      PROVE  lookupMethod(x, n) = IF value(x) # 0 THEN value(x) ELSE lookupMethod(Super[x], n)
  <2>1. stop[x] = (value(x) # 0)
    BY <1>1, <1>4
  <2> HIDE DEF stop, end, value
  <2> QED BY Zenon, <1>2, <1>3, <2>1
<1>5. Object \in D => lookupMethod(Object, n) = value(Object)
  <2>1. Object \in D => stop[Object]
    BY <1>1
  <2> HIDE DEF stop, end, value
  <2> QED BY Zenon, <1>2, <1>3, <2>1
<1>6. ASSUME NEW m \in Originals PROVE Found(defined, <<m>>, n) = methods[m][n]
  <2>1. defined[m] = methods[m]
    BY Zenon DEF defined
  <2> QED BY <2>1, FoundOne
<1>7. PICK rank \in [D -> Nat] : Falls(Super, [x \in D |-> x = Object], D, rank, Len(heap))
  BY ObjectStops
<1> DEFINE T == {x \in D : lookupMethod(x, n) = Found(defined, Line(x), n)}
<1>8. ASSUME NEW x \in D, \A y \in D : rank[y] < rank[x] => y \in T
      PROVE  x \in T
  <2>1. CASE x = Object
    <3>1. Line(x) = <<Object>> /\ heap[Object].maps = Object /\ Object \in Originals
      <4>1. Object \in Originals
        BY ObjectBare
      <4> QED BY <2>1, <4>1, LineIs DEF Originals, IsCopy
    <3> HIDE DEF stop, end
    <3>2. value(Object) = methods[Object][n]
      BY Zenon, <3>1
    <3> QED BY Zenon, <1>5, <1>6, <2>1, <3>1, <3>2
  <2>2. CASE x # Object
    <3>1. PICK y \in D : y = Super[x] /\ y = heap[x].super /\ rank[y] < rank[x]
      BY <1>1, <1>7, <2>2 DEF Falls
    <3>2. lookupMethod(y, n) = Found(defined, Line(y), n)
      BY <1>8, <3>1
    <3>3. PICK m \in Originals, s \in Seq(Originals) : m = heap[x].maps /\ s = Line(y)
      BY Zenon, <1>1, LineIs
    <3>4. Line(x) = <<m>> \o s
      BY Zenon, <2>2, <3>1, <3>3, LineIs
    <3>5. <<m>> \in Seq(Originals)
      OBVIOUS
    <3>6. Found(defined, <<m>> \o s, n)
            = IF Found(defined, <<m>>, n) # 0 THEN Found(defined, <<m>>, n)
              ELSE Found(defined, s, n)
      <4>1. PICK o \in Seq(Originals) : o = <<m>>
        BY <3>5
      <4>2. Found(defined, o \o s, n)
              = IF Found(defined, o, n) # 0 THEN Found(defined, o, n) ELSE Found(defined, s, n)
        BY FoundAppended
      <4> QED BY Zenon, <4>1, <4>2
    <3>7. Found(defined, <<m>>, n) = value(x)
      BY Zenon, <1>6, <3>3
    <3> HIDE DEF stop, end, value
    <3> QED BY Zenon, <1>4, <2>2, <3>1, <3>2, <3>3, <3>4, <3>6, <3>7
  <2> QED BY <2>1, <2>2
<1> HIDE DEF T
<1>9. D \subseteq T
  BY <1>8, Downward
<1> QED BY <1>9 DEF T

-----------------------------------------------------------------------------
(* What kind of class each struct is.                                        *)

\* A class of the program has a name of the program; what is no module is a class
\* of Class, and its superclass is a class of the program or Object.
Kind(c) ==
  /\ heap[c].name \in Names
  /\ heap[c].isModule \/ heap[c].class = Class
  /\ \/ Parent(c) \in {c, Object}
     \/ Parent(c) \in UserClasses /\ ~heap[Parent(c)].isModule

\* A copy has the name of its module.
Mirror(c) ==
  IsCopy(c) => heap[c].maps \in UserClasses /\ heap[c].name = heap[heap[c].maps].name

Kinds == (\A c \in UserClasses : Kind(c)) /\ (\A c \in Structs : Mirror(c))

Alike(r, t) ==
  r.name = t.name /\ r.class = t.class /\ r.isModule = t.isModule /\ r.maps = t.maps
MarksKept == \A c \in Structs : c \in Structs' /\ Alike(heap'[c], heap[c])

\* Another superclass or scope makes no other kind of class.
LEMMA FieldAlike ==
  ASSUME NEW r \in RClasses, NEW k \in Nat
  PROVE  /\ [r EXCEPT !.super = k] \in RClasses /\ Alike([r EXCEPT !.super = k], r)
         /\ [r EXCEPT !.scope = k] \in RClasses /\ Alike([r EXCEPT !.scope = k], r)
BY DEF RClasses, Alike

\* What the statements must show of the structs they add.
LEMMA KindsStay ==
  ASSUME IInv, Kinds, ParentsKept, MarksKept, UserClasses \subseteq UserClasses',
         \A c \in UserClasses' \ UserClasses : Kind(c)',
         \A c \in Structs' \ Structs : Mirror(c)'
  PROVE  Kinds'
<1>1. UserClasses \subseteq Originals /\ Originals \subseteq Structs
  BY BuiltinStructs DEF IInv, Originals
<1>2. ASSUME NEW c \in UserClasses PROVE Kind(c)'
  <2>1. Kind(c) /\ Parent(c)' = Parent(c) /\ c \in Structs
    BY Zenon, <1>1 DEF Kinds, ParentsKept
  <2>2. heap'[c].name \in Names /\ (heap'[c].isModule \/ heap'[c].class = Class)
    BY Zenon, <2>1 DEF MarksKept, Alike, Kind
  <2>3. CASE Parent(c) \in {c, Object}
    BY Zenon, <2>1, <2>2, <2>3 DEF Kind
  <2>4. CASE Parent(c) \in UserClasses /\ ~heap[Parent(c)].isModule
    <3>1. Parent(c) \in Structs /\ Parent(c) \in UserClasses'
      BY Zenon, <1>1, <2>4
    <3>2. ~heap'[Parent(c)].isModule
      BY Zenon, <2>4, <3>1 DEF MarksKept, Alike
    <3> QED BY Zenon, <2>1, <2>2, <3>1, <3>2 DEF Kind
  <2> QED BY Zenon, <2>1, <2>3, <2>4 DEF Kind
<1>3. ASSUME NEW c \in Structs PROVE Mirror(c)'
  <2> SUFFICES ASSUME heap'[c].maps # c
               PROVE  heap'[c].maps \in UserClasses' /\ heap'[c].name = heap'[heap'[c].maps].name
    BY Zenon DEF Mirror, IsCopy
  <2>1. heap'[c].maps = heap[c].maps /\ heap'[c].name = heap[c].name
    BY Zenon DEF MarksKept, Alike
  <2>2. heap[c].maps \in UserClasses /\ heap[c].name = heap[heap[c].maps].name
    BY Zenon, <2>1 DEF Kinds, Mirror, IsCopy
  <2>3. heap'[heap[c].maps].name = heap[heap[c].maps].name
    BY Zenon, <1>1, <2>2 DEF MarksKept, Alike
  <2> QED BY Zenon, <2>1, <2>2, <2>3
<1> QED BY Zenon, <1>2, <1>3 DEF Kinds

\* What a class statement makes.
NewKind(a) ==
  /\ a.name \in Names /\ (a.isModule \/ a.class = Class)
  /\ \/ a.super \in {Object, Len(heap) + 1}
     \/ a.super \in UserClasses /\ ~heap[a.super].isModule

\* Whether or not S is accepted as a superclass.
LEMMA KindBorn ==
  ASSUME IInv, NEW n \in Names, DefineClass(n) \/ \E s \in Names : DefineSubclass(n, s)
  PROVE  \E a, b : Newborn(a, b) /\ heap' = heap \o <<a, b>> /\ NewKind(a)
<1>0. Rows /\ Pointers /\ Contents
  BY DEF IInv
<1> PICK a, b, d, e : /\ a = InitClass(n)[1] /\ b = InitClass(n)[2]
                      /\ d = InitModule(n)[1] /\ e = InitModule(n)[2]
  OBVIOUS
<1>1. /\ Newborn(a, b) /\ InitClass(n) = <<a, b>>
      /\ Newborn(d, e) /\ InitModule(n) = <<d, e>>
  <2>1. /\ InitClass(n) = <<InitClass(n)[1], InitClass(n)[2]>>
        /\ InitModule(n) = <<InitModule(n)[1], InitModule(n)[2]>>
    BY DEF InitClass, InitModule
  <2> QED BY Zenon, <1>0, <2>1, InitsAreNewborn
<1>2. /\ a.name = n /\ a.class = Class /\ a.super = Object
      /\ d.name = n /\ d.isModule /\ d.super = Object
  BY DEF InitClass, InitModule, RClass
<1>3. CASE DefineClass(n)
  <2>1. heap' = heap \o <<a, b>> \/ heap' = heap \o <<d, e>>
    BY Zenon, <1>1, <1>3 DEF DefineClass
  <2>2. NewKind(a) /\ NewKind(d)
    BY <1>2 DEF NewKind
  <2> QED BY Zenon, <1>1, <2>1, <2>2
<1>4. ASSUME NEW s \in Names, DefineSubclass(n, s)
      PROVE  \E x, y : Newborn(x, y) /\ heap' = heap \o <<x, y>> /\ NewKind(x)
  <2> DEFINE value == lookupConstant(constants, self, s)
             class == Len(heap) + 1
             super == lookupConstant(constants', value, s)
             accepted == super = class \/ (super \in Structs /\ ~heap[super].isModule)
  <2>1. \/ accepted /\ heap' = heap \o inherits(InitClass(n), class, super)
        \/ heap' = heap \o InitClass(n)
    BY Zenon, <1>4 DEF DefineSubclass
  <2>2. super \in Values \cup {class}
    <3>1. constants' = storeConstant(n)
      BY <1>4 DEF DefineSubclass, New
    <3> QED BY Zenon, <3>1, ValuesFound
  <2> HIDE DEF value, super
  <2>3. CASE accepted /\ heap' = heap \o inherits(InitClass(n), class, super)
    <3>1. super \in UserClasses \cup {Len(heap) + 1}
      BY <2>2, <2>3 DEF Values, Structs, Plain
    <3> PICK x, y : /\ x = inherits(<<a, b>>, Len(heap) + 1, super)[1]
                    /\ y = inherits(<<a, b>>, Len(heap) + 1, super)[2]
      OBVIOUS
    <3>2. Newborn(x, y)
      BY <1>0, <1>1, <3>1, InheritsIsNewborn
    <3>3. inherits(<<a, b>>, Len(heap) + 1, super) = <<x, y>>
      BY DEF inherits
    <3>4. x.name = n /\ x.class = Class /\ x.super = super
      <4>1. x = [a EXCEPT !.super = super, !.pseudo = super]
        BY DEF inherits
      <4>2. a \in RClasses
        BY <1>1 DEF Newborn
      <4>3. PICK k : k = super
        OBVIOUS
      <4>4. LET made == [a EXCEPT !.super = k, !.pseudo = k]
            IN made.name = a.name /\ made.class = a.class /\ made.super = k
        BY <4>2 DEF RClasses
      <4> QED BY Zenon, <1>2, <4>1, <4>3, <4>4
    <3>5. NewKind(x)
      <4>1. super = Len(heap) + 1 \/ (super \in UserClasses /\ ~heap[super].isModule)
        <5>1. CASE super = Len(heap) + 1
          BY <5>1
        <5>2. CASE super \in UserClasses /\ super # Len(heap) + 1
          BY <2>3, <5>2
        <5> QED BY Zenon, <3>1, <5>1, <5>2
      <4> QED BY Zenon, <3>4, <4>1 DEF NewKind
    <3> QED BY Zenon, <1>1, <2>3, <3>2, <3>3, <3>5
  <2>4. CASE heap' = heap \o InitClass(n)
    <3>1. NewKind(a)
      BY <1>2 DEF NewKind
    <3> QED BY Zenon, <1>1, <2>4, <3>1
  <2> QED BY Zenon, <2>1, <2>3, <2>4
<1> QED BY Zenon, <1>3, <1>4

\* Of the new class, its superclass is the one its struct points to.
LEMMA KindsGrow ==
  ASSUME IInv, IInv', Kinds, ParentsKept, NEW a, NEW b, Newborn(a, b), NewKind(a),
         heap' = heap \o <<a, b>>
  PROVE  Kinds'
<1>0. Rows /\ Pointers
  BY DEF IInv
<1> PICK L \in Nat : L = Len(heap)
  BY <1>0 DEF Rows
<1>1. /\ \A c \in Structs : heap'[c] = heap[c]
      /\ heap'[L + 1] = a /\ heap'[L + 2] = b
      /\ Structs' = Structs \cup {L + 1, L + 2}
      /\ Originals' = Originals \cup {L + 1, L + 2}
      /\ UserClasses' = UserClasses \cup {L + 1}
  BY <1>0, Grown
<1>2. MarksKept
  BY Zenon, <1>1 DEF MarksKept, Alike
<1>3. Kind(L + 1)'
  <2>1. a.super \in Originals'
    BY <1>1 DEF Newborn
  <2>2. L + 1 \in Structs'
    BY <1>1
  <2>3. Parent(L + 1)' = a.super
    BY Zenon, <1>1, <2>1, <2>2, StraightAfter DEF StraightLines
  <2>4. a.super \in {Object, L + 1} \/ (a.super \in UserClasses' /\ ~heap'[a.super].isModule)
    <3>1. UserClasses \subseteq Structs
      BY <1>0, BuiltinStructs DEF Originals
    <3> QED BY Zenon, <1>1, <3>1 DEF NewKind
  <2> QED BY Zenon, <1>1, <2>3, <2>4 DEF Kind, NewKind
<1>4. ASSUME NEW c \in {L + 1, L + 2} PROVE Mirror(c)'
  <2>1. heap'[c].maps = c
    BY <1>1 DEF Newborn
  <2> QED BY Zenon, <2>1 DEF Mirror, IsCopy
<1>5. UserClasses \subseteq UserClasses' /\ \A c \in UserClasses' \ UserClasses : Kind(c)'
  BY Zenon, <1>1, <1>3
<1>6. \A c \in Structs' \ Structs : Mirror(c)'
  BY Zenon, <1>1, <1>4
<1> QED BY Zenon, <1>2, <1>5, <1>6, KindsStay

\* A copy of a module has what the module has but for the superclass.
LEMMA MarksSpliced ==
  ASSUME Rows, Pointers, NEW class \in Originals, class # Rootless, NEW module \in UserClasses,
         heap' = Splice(class, module)
  PROVE  MarksKept /\ Alike(heap'[Len(heap) + 1], heap[module])
<1> PICK s \in Seq(RClasses), k \in Nat : s = heap /\ k = Len(s) + 1
  BY DEF Rows
<1>1. /\ class \in 1..Len(s) /\ module \in 1..Len(s)
      /\ s[class] \in RClasses /\ s[module] \in RClasses /\ s[class].super \in Nat
  <2>1. class \in 1..Len(s) /\ module \in 1..Len(s)
    BY BuiltinStructs DEF Originals, Structs
  <2>2. s[class] \in RClasses /\ s[module] \in RClasses
    BY <2>1
  <2> QED BY <2>1, <2>2 DEF RClasses
<1> PICK one \in RClasses : one = [s[class] EXCEPT !.super = k] /\ Alike(one, s[class])
  BY <1>1, FieldAlike
<1> PICK copy \in RClasses :
      copy = [s[module] EXCEPT !.super = s[class].super] /\ Alike(copy, s[module])
  BY <1>1, FieldAlike
<1> PICK h \in Seq(RClasses) :
      /\ h = [s EXCEPT ![class] = one] /\ Len(h) = Len(s)
      /\ \A i \in 1..Len(s) : h[i] = IF i = class THEN one ELSE s[i]
  <2>1. /\ [s EXCEPT ![class] = one] \in Seq(RClasses)
        /\ Len([s EXCEPT ![class] = one]) = Len(s)
        /\ \A i \in 1..Len(s) : [s EXCEPT ![class] = one][i] = IF i = class THEN one ELSE s[i]
    BY <1>1, Replaced
  <2> QED BY Zenon, <2>1
<1>2. heap' = h \o <<copy>>
  <2>1. one = [heap[class] EXCEPT !.super = Len(heap) + 1] /\ h = [heap EXCEPT ![class] = one]
    BY Zenon
  <2>2. [heap EXCEPT ![class].super = Len(heap) + 1] = h
    BY Zenon, <2>1
  <2>3. copy = [heap[module] EXCEPT !.super = heap[class].super]
    BY Zenon
  <2> QED BY Zenon, <2>2, <2>3 DEF Splice
<1>3. /\ \A i \in 1..Len(s) : (h \o <<copy>>)[i] = h[i]
      /\ (h \o <<copy>>)[k] = copy
  OBVIOUS
<1>4. ASSUME NEW c \in Structs PROVE c \in Structs' /\ Alike(heap'[c], heap[c])
  <2>1. c \in 1..Len(s)
    BY DEF Structs
  <2>2. heap'[c] = IF c = class THEN one ELSE s[c]
    <3>1. heap'[c] = h[c]
      BY Zenon, <1>2, <1>3, <2>1
    <3>2. h[c] = IF c = class THEN one ELSE s[c]
      BY Zenon, <2>1
    <3> QED BY Zenon, <3>1, <3>2
  <2>3. Alike(heap'[c], heap[c])
    <3>1. CASE c = class
      BY Zenon, <2>2, <3>1
    <3>2. CASE c # class
      BY Zenon, <2>2, <3>2 DEF Alike
    <3> QED BY Zenon, <3>1, <3>2
  <2>4. c \in Structs'
    <3>1. IsSpliced(class, module, Len(heap))
      BY Zenon, Spliced
    <3> QED BY Zenon, <3>1 DEF IsSpliced
  <2> QED BY Zenon, <2>3, <2>4
<1>5. heap'[Len(heap) + 1] = copy
  <2>1. heap'[k] = copy
    BY Zenon, <1>2, <1>3
  <2>2. k = Len(heap) + 1
    OBVIOUS
  <2> QED BY Zenon, <2>1, <2>2
<1>6. Alike(copy, heap[module])
  BY Zenon
<1> QED BY Zenon, <1>4, <1>5, <1>6 DEF MarksKept

\* Of include and extend.
LEMMA KindsSpliced ==
  ASSUME IInv, Kinds, ParentsKept, NEW class \in Originals, class # Rootless,
         NEW module \in UserClasses, heap' = Splice(class, module)
  PROVE  Kinds'
<1>0. Rows /\ Pointers
  BY DEF IInv
<1> PICK k : k = Len(heap) + 1
  OBVIOUS
<1>1. MarksKept /\ Alike(heap'[k], heap[module])
  BY Zenon, <1>0, MarksSpliced
<1>2. /\ UserClasses' = UserClasses /\ Structs' = Structs \cup {k}
      /\ heap'[k].maps = module
  <2>1. IsSpliced(class, module, Len(heap))
    BY Zenon, <1>0, Spliced
  <2> QED BY Zenon, <2>1 DEF IsSpliced
<1>3. Mirror(k)'
  <2>1. heap'[k].maps \in UserClasses' /\ heap'[k].name = heap'[heap'[k].maps].name
    <3>1. heap'[k].name = heap[module].name
      BY Zenon, <1>1 DEF Alike
    <3>2. heap'[module].name = heap[module].name
      <4>1. module \in Structs
        BY <1>0, BuiltinStructs DEF Originals
      <4> QED BY Zenon, <1>1, <4>1 DEF MarksKept, Alike
    <3> QED BY Zenon, <1>2, <3>1, <3>2
  <2> QED BY Zenon, <2>1 DEF Mirror
<1>4. UserClasses \subseteq UserClasses' /\ (\A c \in UserClasses' \ UserClasses : Kind(c)')
  BY Zenon, <1>2
<1>5. ASSUME NEW c \in Structs', c \notin Structs PROVE Mirror(c)'
  <2>1. c = k
    BY Zenon, <1>2, <1>5
  <2> QED BY Zenon, <1>3, <2>1
<1>6. \A c \in Structs' \ Structs : Mirror(c)'
  BY Zenon, <1>5
<1> QED BY Zenon, <1>1, <1>4, <1>6, KindsStay

\* Of the assignment of a constant.
LEMMA KindsAssigned ==
  ASSUME IInv, Kinds, ParentsKept, NEW n \in Names, NEW value \in Values, SetConstant(n, value)
  PROVE  Kinds'
<1>0. Rows /\ Pointers /\ Contents
  BY DEF IInv
<1>1. /\ Structs' = Structs /\ UserClasses' = UserClasses
  BY Zenon, AssignedLines
<1>2. MarksKept
  <2>1. CASE UNCHANGED heap
    BY Zenon, <1>1, <2>1 DEF MarksKept, Alike
  <2>2. CASE value \in Structs /\ heap' = [heap EXCEPT ![value].scope = self]
    <3>1. value \in UserClasses /\ self \in Nat
      BY <1>0, <2>2 DEF Values, Structs, Plain, Contents, UserClasses, Main, Builtins
    <3> PICK s \in Seq(RClasses), k \in Nat : s = heap /\ k = self
      BY <1>0, <3>1 DEF Rows
    <3>2. value \in 1..Len(s) /\ s[value] \in RClasses
      BY <2>2 DEF Structs
    <3> PICK one \in RClasses : one = [s[value] EXCEPT !.scope = k] /\ Alike(one, s[value])
      BY <3>2, FieldAlike
    <3>3. heap' = [s EXCEPT ![value] = one]
      BY Zenon, <2>2
    <3>4. \A i \in 1..Len(s) : [s EXCEPT ![value] = one][i] = IF i = value THEN one ELSE s[i]
      BY <3>2, Replaced
    <3>5. ASSUME NEW c \in Structs PROVE Alike(heap'[c], heap[c])
      <4>1. c \in 1..Len(s)
        BY DEF Structs
      <4>2. heap'[c] = IF c = value THEN one ELSE s[c]
        BY Zenon, <3>3, <3>4, <4>1
      <4>3. CASE c = value
        BY Zenon, <4>2, <4>3
      <4>4. CASE c # value
        BY Zenon, <4>2, <4>4 DEF Alike
      <4> QED BY Zenon, <4>3, <4>4
    <3> QED BY Zenon, <1>1, <3>5 DEF MarksKept
  <2>3. heap' = IF value \in Structs /\ self # Main
                THEN [heap EXCEPT ![value].scope = self] ELSE heap
    BY DEF SetConstant
  <2> QED BY Zenon, <2>1, <2>2, <2>3
<1> QED BY Zenon, <1>1, <1>2, KindsStay

\* At the start there are no classes of the program, and no copies.
LEMMA KindsInit == Init => Kinds
<1> SUFFICES ASSUME Init PROVE Kinds
  OBVIOUS
<1>1. Originals = Structs /\ UserClasses = {}
  BY InitLines
<1> QED BY <1>1 DEF Kinds, Mirror, Originals

\* Each statement keeps the kinds.
LEMMA KindsStep == IInv /\ IInv' /\ Kinds /\ [Next]_vars => Kinds'
<1> SUFFICES ASSUME IInv, IInv', Kinds, [Next]_vars PROVE Kinds'
  OBVIOUS
<1>0. ParentsKept
  BY ParentsStay
<1>1. ASSUME UNCHANGED heap PROVE Kinds'
  <2>1. /\ Structs' = Structs /\ UserClasses' = UserClasses
    BY Zenon, <1>1 DEF UserClasses, Structs, IsCopy
  <2>2. MarksKept
    BY Zenon, <1>1, <2>1 DEF MarksKept, Alike
  <2> QED BY Zenon, <1>0, <2>1, <2>2, KindsStay
<1>2. CASE UNCHANGED vars
  <2>1. UNCHANGED heap
    BY <1>2 DEF vars, tables
  <2> QED BY <1>1, <2>1
<1>3. ASSUME NEW n \in Names, DefineClass(n) \/ \E s \in Names : DefineSubclass(n, s)
      PROVE  Kinds'
  BY Zenon, <1>0, <1>3, KindBorn, KindsGrow
<1>4. CASE \/ \E n \in Names : Reopen(n)
           \/ \E n \in MethodNames : DefMethod(n) \/ DefMetaMethod(n)
           \/ EndOfBody \/ NextCommand
  <2>1. UNCHANGED heap
    BY Zenon, <1>4 DEF Reopen, DefMethod, DefMetaMethod, Def, EndOfBody, NextCommand, tables
  <2> QED BY Zenon, <1>1, <2>1
<1>5. ASSUME NEW n \in Names, Include(n) \/ Extend(n) PROVE Kinds'
  <2>1. PICK class \in Originals, module \in Values :
          class # Rootless /\ MixIn(class, module)
    BY Zenon, <1>5, MixedIn
  <2>2. module \in UserClasses
    BY <2>1 DEF MixIn, Values, Structs, Plain
  <2>3. CASE UNCHANGED tables
    <3>1. UNCHANGED heap
      BY <2>3 DEF tables
    <3> QED BY Zenon, <1>1, <3>1
  <2>4. CASE heap' = Splice(class, module)
    BY Zenon, <1>0, <2>1, <2>2, <2>4, KindsSpliced
  <2> QED BY Zenon, <2>1, <2>3, <2>4 DEF MixIn
<1>6. ASSUME NEW n \in Names, Assign(n) PROVE Kinds'
  <2>1. PICK value \in Values : SetConstant(n, value)
    <3>1. CASE SetConstant(n, Plain)
      BY Zenon, <3>1 DEF Values
    <3>2. CASE \E s \in Names : SetConstant(n, lookupConstant(constants, Top, s))
      BY Zenon, <3>2, ValuesFound
    <3> QED BY Zenon, <1>6, <3>1, <3>2 DEF Assign
  <2> QED BY Zenon, <1>0, <2>1, KindsAssigned
<1> QED BY Zenon, <1>2, <1>3, <1>4, <1>5, <1>6 DEF Next

\* They hold always.
LEMMA KindsAlways == Spec => []Kinds
BY IInvAlways, KindsInit, KindsStep, PTL DEF Spec

-----------------------------------------------------------------------------
(* Messages.                                                                 *)

\* A method of a class of the program, looked up in whichever way.
LEMMA Answers ==
  ASSUME IInv, LInv, Kinds, NEW c \in UserClasses, NEW n \in MethodNames,
         Straight(c), ~heap[c].isModule
  PROVE  LET ancestors == H!Ancestors(c)
             found == H!First(ancestors, n)
         IN /\ FindMethod(c, n, FALSE) = found
            /\ FindMethod(c, n, TRUE)
                 = IF methods[c][n] = 0 THEN found ELSE H!First(Tail(ancestors), n)
            /\ FindClassMethod(c, n)
                 = H!First(H!Ancestors(heap[c].meta) \o H!Ancestors(Class), n)
<1>0. Rows /\ Pointers
  BY DEF IInv
<1>1. c \in Structs /\ c \in Originals /\ ~IsCopy(c) /\ c # Object
  BY <1>0, BuiltinStructs DEF Originals, UserClasses, Builtins, Object
<1>2. PICK D : Super[Object] = Object /\ c \in D /\ Closed(D)
  BY <1>1, StraightCloses
<1>3. PICK sc \in D : sc = Super[c] /\ sc = heap[c].super
  BY <1>1, <1>2 DEF Closed, Super
<1>4. PICK s \in Seq(Originals) : s = Line(sc)
  BY Zenon, <1>2, <1>3, LineIs
<1>5. H!Ancestors(c) = <<c>> \o s /\ Line(c) = H!Ancestors(c)
  <2>1. heap[c].maps = c
    BY <1>1 DEF IsCopy
  <2>2. Line(c) = <<heap[c].maps>> \o Line(heap[c].super) /\ Line(c) = H!Ancestors(c)
    BY Zenon, <1>1, <1>2, LineIs
  <2> QED BY Zenon, <1>3, <1>4, <2>1, <2>2
<1>6. /\ lookupMethod(c, n) = Found(defined, <<c>> \o s, n)
      /\ lookupMethod(sc, n) = Found(defined, s, n)
  BY Zenon, <1>2, <1>3, <1>4, <1>5, LooksUp
<1>7. Tail(<<c>> \o s) = s
  BY <1>1
<1>8. FindMethod(c, n, FALSE) = lookupMethod(c, n) /\ FindMethod(c, n, TRUE) = lookupMethod(sc, n)
  BY Zenon, <1>3 DEF FindMethod
<1>9. methods[c][n] = 0 => Found(defined, <<c>> \o s, n) = Found(defined, s, n)
  <2>1. Found(defined, <<c>>, n) = methods[c][n]
    <3>1. defined[c] = methods[c]
      BY Zenon, <1>1 DEF defined
    <3>2. Found(defined, <<c>>, n) = defined[c][n]
      BY FoundOne
    <3> QED BY Zenon, <3>1, <3>2
  <2>2. PICK o \in Seq(Originals) : o = <<c>>
    <3>1. <<c>> \in Seq(Originals)
      BY <1>1
    <3> QED BY Zenon, <3>1
  <2>3. Found(defined, o \o s, n)
          = IF Found(defined, o, n) # 0 THEN Found(defined, o, n) ELSE Found(defined, s, n)
    BY FoundAppended
  <2> QED BY Zenon, <2>1, <2>2, <2>3
<1>10. FindClassMethod(c, n) = H!First(H!Ancestors(heap[c].meta) \o H!Ancestors(Class), n)
  <2>1. PICK m \in Originals : m = heap[c].meta /\ m = c + 1
    BY <1>0 DEF Pointers
  <2>2. PICK E : E = MetaChain(D) /\ Closed(E) /\ m \in E /\ Class \in E
    <3>1. m \in Above(D) /\ Class \in Above(D) /\ m \in Structs /\ Class \in Structs
      BY <1>0, <1>2, <2>1, BuiltinStructs DEF Above, Class, Builtins, Originals
    <3> QED BY <1>2, <3>1, MetaCloses DEF MetaChain
  <2>3. Class \in Originals /\ ~IsCopy(Class) /\ ~IsCopy(m)
    BY <1>0, BuiltinStructs DEF Class, Builtins, Originals
  <2>4. PICK s1 \in Seq(Originals), s2 \in Seq(Originals) :
          s1 = H!Ancestors(m) /\ s1 = Line(m) /\ s2 = H!Ancestors(Class) /\ s2 = Line(Class)
    BY Zenon, <1>2, <2>2, <2>3, LineIs
  <2>5. lookupMethod(m, n) = Found(defined, s1, n) /\ lookupMethod(Class, n) = Found(defined, s2, n)
    BY Zenon, <1>2, <2>2, <2>4, LooksUp
  <2>6. heap[c].class = Class
    BY DEF Kinds, Kind
  <2>7. FindClassMethod(c, n)
          = IF Found(defined, s1, n) # 0 THEN Found(defined, s1, n) ELSE Found(defined, s2, n)
    BY Zenon, <2>1, <2>5, <2>6 DEF FindClassMethod
  <2>8. Found(defined, s1 \o s2, n)
          = IF Found(defined, s1, n) # 0 THEN Found(defined, s1, n) ELSE Found(defined, s2, n)
    BY FoundAppended
  <2> QED BY Zenon, <2>1, <2>4, <2>7, <2>8, FirstIsFound
<1> QED BY Zenon, <1>5, <1>6, <1>7, <1>8, <1>9, <1>10, FirstIsFound

\* Whatever has been mixed in where, a message to an instance or to a class, and
\* super, find the method of the first of the ancestors that defines one, in the
\* order the program mixed modules in and classes inherit.
THEOREM AnswersComeFromAncestors == Spec => []AnswersFromAncestors
<1>1. IInv /\ LInv /\ Kinds => AnswersFromAncestors
  BY Zenon, Answers DEF AnswersFromAncestors
<1> QED BY IInvAlways, LInvAlways, KindsAlways, <1>1, PTL

-----------------------------------------------------------------------------
(* Relations between classes.                                                *)

\* The structs of a chain that lead to a class that may be inherited from.
Inheritable == {x \in UserClasses : ~heap[x].isModule} \cup {Object}
Proper(D) == {x \in D : Last(Up(x)) \in Inheritable}

\* They lead to such structs only, and so do all the classes of the program.
LEMMA ProperCloses ==
  ASSUME IInv, LInv, Kinds, NEW D, Closed(D), Super[Object] = Object
  PROVE  Closed(Proper(D)) /\ \A c \in D \cap UserClasses : Super[c] \in Proper(D)
<1>0. Rows /\ Pointers
  BY DEF IInv
<1>1. ASSUME NEW x \in D
      PROVE  x \in Structs /\ (x = Object \/ ~Looped(x)) /\ Super[x] \in D
             /\ Super[x] = heap[x].super /\ heap[x].super # 0
  BY DEF Closed, Super, Structs
<1>2. ASSUME NEW c \in D, c \in UserClasses PROVE Super[c] \in Proper(D)
  <2>1. Parent(c) = Last(Up(heap[c].super))
    BY Zenon, <1>1, <1>2, ShownBefore DEF Shown
  <2>2. Parent(c) # c
    <3>1. c # Object /\ c \in Originals
      BY <1>0, <1>2, BuiltinStructs DEF UserClasses, Builtins, Object
    <3> QED BY Zenon, <1>1, <1>2, <3>1 DEF Looped
  <2>3. Parent(c) = Object \/ (Parent(c) \in UserClasses /\ ~heap[Parent(c)].isModule)
    BY <1>2, <2>2 DEF Kinds, Kind
  <2>4. Parent(c) \in Inheritable
    BY <2>3 DEF Inheritable
  <2> QED BY Zenon, <1>1, <1>2, <2>1, <2>4 DEF Proper
<1>3. ASSUME NEW x \in Proper(D) PROVE Super[x] \in Proper(D)
  <2>0. x \in D /\ Last(Up(x)) \in Inheritable
    BY DEF Proper
  <2>1. CASE IsCopy(x)
    <3>1. Last(Up(x)) = Last(Up(heap[x].super))
      BY Zenon, <1>1, <2>0, <2>1, CopyLeads
    <3> QED BY Zenon, <1>1, <2>0, <3>1 DEF Proper
  <2>2. CASE ~IsCopy(x)
    <3>1. Up(x) = <<x>>
      BY <1>1, <2>0, <2>2, UpOriginal DEF Originals
    <3>2. Last(<<x>>) = x
      BY DEF Last
    <3>3. x \in Inheritable
      BY Zenon, <2>0, <3>1, <3>2
    <3>4. CASE x = Object
      BY Zenon, <3>4
    <3>5. CASE x \in UserClasses
      BY Zenon, <1>2, <2>0, <3>5
    <3> QED BY <3>3, <3>4, <3>5 DEF Inheritable
  <2> QED BY <2>1, <2>2
<1>4. Proper(D) \subseteq D
  BY DEF Proper
<1> QED BY <1>1, <1>2, <1>3, <1>4 DEF Closed

\* The name of a struct tells which class it is of, where names do.
LEMMA NamesTell ==
  ASSUME IInv, LInv, Kinds, "Object" \notin Names, NEW d \in UserClasses,
         \A x \in UserClasses \ {d} : heap[x].name # heap[d].name,
         NEW x \in Structs, IsCopy(x) \/ x \in UserClasses
  PROVE  ~NamedObject[x] /\ (heap[x].name = heap[d].name <=> heap[x].maps = d)
<1>1. PICK m \in UserClasses : m = heap[x].maps /\ heap[m].name = heap[x].name
  <2>1. CASE IsCopy(x)
    BY Zenon, <2>1 DEF Kinds, Mirror
  <2>2. CASE ~IsCopy(x)
    BY Zenon, <2>2 DEF IsCopy
  <2> QED BY <2>1, <2>2
<1>2. heap[m].name \in Names
  BY DEF Kinds, Kind
<1>3. NamedObject[x] = (heap[x].name = "Object")
  BY Zenon DEF NamedObject
<1>4. ~NamedObject[x]
  BY <1>1, <1>2, <1>3
<1>5. heap[x].name = heap[d].name <=> m = d
  BY Zenon, <1>1
<1> QED BY Zenon, <1>1, <1>4, <1>5

\* What a walk looks for: the structs that stand for d, if Q.
LooksFor(E, stop, Hit, d, Q) ==
  \A x \in E : /\ stop[x] <=> x \in Hit \/ x = Object
               /\ x \in Hit <=> x # Object /\ heap[x].maps = d /\ Q

\* It finds one where d is in the line.
LEMMA WalkFinds ==
  ASSUME IInv, LInv, NEW E, Closed(E), Super[Object] = Object,
         NEW stop, NEW Hit, NEW d, d # Object, NEW Q \in BOOLEAN, LooksFor(E, stop, Hit, d, Q)
  PROVE  \A x \in E : Last(Along(Super, x, stop, Len(heap))) \in Hit
                        <=> d \in ToSet(Line(x)) /\ Q
<1> DEFINE end(x) == Last(Along(Super, x, stop, Len(heap)))
<1>1. EndsAlong(Super, stop, E, Len(heap))
  <2>1. Object \in E => stop[Object]
    BY DEF LooksFor
  <2> QED BY Zenon, <2>1, WalksEnd
<1>2. \A x \in E : end(x) = IF stop[x] THEN x ELSE end(Super[x])
  BY Zenon, <1>1 DEF EndsAlong
<1> HIDE DEF end
<1>3. PICK rank \in [E -> Nat] : Falls(Super, [x \in E |-> x = Object], E, rank, Len(heap))
  BY ObjectStops
<1> DEFINE T == {x \in E : end(x) \in Hit <=> d \in ToSet(Line(x)) /\ Q}
<1>4. ASSUME NEW x \in E, \A y \in E : rank[y] < rank[x] => y \in T
      PROVE  x \in T
  <2>1. CASE x = Object
    <3>1. end(x) = x /\ x \notin Hit
      BY Zenon, <1>2, <2>1 DEF LooksFor
    <3>2. Line(x) = <<Object>>
      BY Zenon, <2>1, LineIs
    <3>3. d \notin ToSet(Line(x))
      BY Zenon, <3>2, ElementsOne
    <3> QED BY Zenon, <3>1, <3>3
  <2>2. CASE x # Object
    <3>1. PICK y \in E : y = Super[x] /\ y = heap[x].super /\ rank[y] < rank[x]
      <4>1. Super[x] \in E /\ Super[x] = heap[x].super
        BY DEF Closed, Super
      <4>2. rank[Super[x]] < rank[x]
        BY <1>3, <2>2 DEF Falls
      <4> QED BY <4>1, <4>2
    <3>2. end(y) \in Hit <=> d \in ToSet(Line(y)) /\ Q
      BY <1>4, <3>1
    <3>3. PICK m \in Originals, s \in Seq(Originals) : m = heap[x].maps /\ s = Line(y)
      <4>1. heap[x].maps \in Originals
        BY DEF Closed, IInv, Pointers
      <4> QED BY Zenon, <4>1, LineIs
    <3>4. Line(x) = <<m>> \o s
      BY Zenon, <2>2, <3>1, <3>3, LineIs
    <3>5. ToSet(<<m>> \o s) = {m} \cup ToSet(s)
      BY ElementsPrefixed
    <3>6. d \in ToSet(Line(x)) <=> m = d \/ d \in ToSet(Line(y))
      BY Zenon, <3>3, <3>4, <3>5
    <3>7. (stop[x] <=> x \in Hit) /\ (x \in Hit <=> m = d /\ Q)
      BY Zenon, <2>2, <3>3 DEF LooksFor
    <3>8. end(x) = IF stop[x] THEN x ELSE end(y)
      BY Zenon, <1>2, <3>1
    <3>9. CASE x \in Hit
      BY Zenon, <3>6, <3>7, <3>8, <3>9
    <3>10. CASE x \notin Hit
      <4>1. end(x) = end(y) /\ ~(m = d /\ Q)
        BY Zenon, <3>7, <3>8, <3>10
      <4> QED BY Zenon, <3>2, <3>6, <4>1
    <3> QED BY <3>9, <3>10
  <2> QED BY <2>1, <2>2
<1> HIDE DEF T
<1>5. E \subseteq T
  BY <1>4, Downward
<1>6. ASSUME NEW x \in E PROVE end(x) \in Hit <=> d \in ToSet(Line(x)) /\ Q
  BY Zenon, <1>5 DEF T
<1> QED BY Zenon, <1>6 DEF end

\* is_a? and the test for a superclass, of a class whose superclasses are straight.
LEMMA Relations ==
  ASSUME IInv, LInv, Kinds, "Object" \notin Names, NEW c \in UserClasses, Straight(c),
         NEW d \in UserClasses, \A x \in UserClasses \ {d} : heap[x].name # heap[d].name
  PROVE  LET above == ToSet(Tail(H!Ancestors(c)))
         IN /\ isA(c, d) <=> d \in above \cup {c}
            /\ alreadyInherit(c, d) <=> d \in above /\ ~heap[d].isModule
<1>0. Rows /\ Pointers /\ Named
  BY DEF IInv, LInv
<1>1. /\ c \in Structs /\ c \in Originals /\ ~IsCopy(c) /\ c # Object
      /\ d \in Structs /\ d # Object /\ ~IsCopy(d)
  BY <1>0, BuiltinStructs DEF Originals, UserClasses, Builtins, Object
<1>2. PICK D : Super[Object] = Object /\ c \in D /\ Closed(D)
  BY <1>1, StraightCloses
<1>3. PICK E : E = Proper(D) /\ Closed(E) /\ Super[c] \in E
  BY <1>1, <1>2, ProperCloses
<1>4. PICK sc \in E : sc = Super[c] /\ sc = heap[c].super
  BY <1>1, <1>3 DEF Super
<1>5. PICK above : above = ToSet(Line(sc)) /\ above = ToSet(Tail(H!Ancestors(c)))
  <2>1. sc \in D
    BY <1>2, <1>4 DEF Closed
  <2>2. PICK s \in Seq(Originals) : s = Line(sc)
    BY Zenon, <1>2, <2>1, LineIs
  <2>3. H!Ancestors(c) = <<c>> \o s
    <3>1. heap[c].maps = c
      BY <1>1 DEF IsCopy
    <3>2. Line(c) = <<heap[c].maps>> \o Line(heap[c].super) /\ Line(c) = H!Ancestors(c)
      BY Zenon, <1>1, <1>2, LineIs
    <3> QED BY Zenon, <1>4, <2>2, <3>1, <3>2
  <2>4. Tail(<<c>> \o s) = s
    BY <1>1
  <2> QED BY Zenon, <2>2, <2>3, <2>4
<1>6. ASSUME NEW x \in E
      PROVE  x \in Structs /\ (x = Object \/ IsCopy(x) \/ (x \in UserClasses /\ ~heap[x].isModule))
  <2>1. x \in Structs /\ Last(Up(x)) \in Inheritable
    BY <1>3 DEF Proper, Closed
  <2>2. CASE ~IsCopy(x)
    <3>1. Up(x) = <<x>> /\ Last(<<x>>) = x
      BY <2>1, <2>2, UpOriginal DEF Originals, Last
    <3> QED BY Zenon, <2>1, <3>1 DEF Inheritable
  <2> QED BY <2>1, <2>2
<1>7. NamedObject[Object] /\ heap[Object].name # heap[d].name
  <2>1. heap[d].name \in Names /\ heap[Object].name = "Object" /\ Object \in Structs
    BY <1>0, BuiltinStructs DEF Kinds, Kind, Named, Builtins, Object, Originals
  <2>2. NamedObject[Object] = (heap[Object].name = "Object")
    BY Zenon, <2>1 DEF NamedObject
  <2> QED BY <2>1, <2>2
<1>8. \A x \in Structs : IsCopy(x) \/ x \in UserClasses =>
        ~NamedObject[x] /\ (heap[x].name = heap[d].name <=> heap[x].maps = d)
  BY Zenon, NamesTell
<1>9. isA(c, d) <=> d \in above \cup {c}
  <2> DEFINE stop == [x \in Structs |-> heap[x].name = heap[d].name \/ NamedObject[x]]
             Hit == {x \in Structs : heap[x].name = heap[d].name}
             end(x) == Last(Along(Super, x, stop, Len(heap)))
  <2>1. \A x \in Structs : stop[x] <=> x \in Hit \/ NamedObject[x]
    BY Zenon
  <2>2. isA(c, d) <=> heap[end(c)].name = heap[d].name
    BY Zenon DEF isA
  <2>3. ASSUME NEW x \in E
        PROVE  /\ stop[x] <=> x \in Hit \/ x = Object
               /\ x \in Hit <=> x # Object /\ heap[x].maps = d /\ TRUE
    <3>1. x \in Structs /\ (x \in Hit <=> heap[x].name = heap[d].name)
      BY <1>6
    <3>2. stop[x] <=> x \in Hit \/ NamedObject[x]
      BY Zenon, <2>1, <3>1
    <3>3. CASE x = Object
      BY Zenon, <1>7, <3>1, <3>2, <3>3
    <3>4. CASE x # Object
      <4>1. ~NamedObject[x] /\ (heap[x].name = heap[d].name <=> heap[x].maps = d)
        BY Zenon, <1>6, <1>8, <3>4
      <4> HIDE DEF stop, Hit
      <4> QED BY Zenon, <3>1, <3>2, <3>4, <4>1
    <3> QED BY <3>3, <3>4
  <2>4. Object \in D => stop[Object]
    <3>1. Object \in Structs
      BY <1>0, BuiltinStructs DEF Originals, Builtins, Object
    <3> HIDE DEF stop
    <3> QED BY Zenon, <1>7, <2>1, <3>1
  <2>5. c \in Hit <=> c = d
    BY Zenon, <1>1, <1>8 DEF IsCopy
  <2>6. stop[c] <=> c \in Hit
    BY Zenon, <1>1, <1>8, <2>1
  <2>7. ASSUME NEW x \in D
        PROVE  end(x) \in Structs /\ end(x) = IF stop[x] THEN x ELSE end(Super[x])
    <3> HIDE DEF stop
    <3>1. EndsAlong(Super, stop, D, Len(heap))
      BY Zenon, <1>2, <2>4, WalksEnd
    <3> QED BY Zenon, <1>2, <3>1 DEF EndsAlong, Closed
  <2>8. isA(c, d) <=> end(c) \in Hit
    <3>1. end(c) \in Structs
      BY <1>2, <2>7
    <3> HIDE DEF end
    <3> QED BY <2>2, <3>1
  <2>9. LooksFor(E, stop, Hit, d, TRUE)
    <3> HIDE DEF stop, Hit
    <3> QED BY Zenon, <2>3 DEF LooksFor
  <2> HIDE DEF stop, Hit
  <2>10. end(sc) \in Hit <=> d \in above
    <3>1. \A x \in E : Last(Along(Super, x, stop, Len(heap))) \in Hit
                         <=> d \in ToSet(Line(x)) /\ TRUE
      <4>1. PICK Q \in BOOLEAN : Q = TRUE
        OBVIOUS
      <4>2. LooksFor(E, stop, Hit, d, Q)
        BY Zenon, <2>9, <4>1
      <4>3. \A x \in E : Last(Along(Super, x, stop, Len(heap))) \in Hit
                           <=> d \in ToSet(Line(x)) /\ Q
        BY <1>1, <1>2, <1>3, <4>2, WalkFinds
      <4> QED BY Zenon, <4>1, <4>3
    <3> QED BY Zenon, <1>5, <3>1
  <2> HIDE DEF end
  <2>11. end(c) = IF stop[c] THEN c ELSE end(sc)
    BY Zenon, <1>2, <1>4, <2>7
  <2> QED BY <2>5, <2>6, <2>8, <2>10, <2>11
<1>10. alreadyInherit(c, d) <=> d \in above /\ ~heap[d].isModule
  <2> DEFINE stop == [x \in Structs |-> x = d \/ NamedObject[x]]
             Hit == {d}
  <2>1. \A x \in Structs : stop[x] <=> x = d \/ NamedObject[x]
    BY Zenon
  <2>2. alreadyInherit(c, d) <=> d = Last(Along(Super, sc, stop, Len(heap)))
    BY Zenon, <1>4 DEF alreadyInherit
  <2>3. PICK Q \in BOOLEAN : Q <=> ~heap[d].isModule
    OBVIOUS
  <2>4. ASSUME NEW x \in E
        PROVE  /\ stop[x] <=> x \in Hit \/ x = Object
               /\ x \in Hit <=> x # Object /\ heap[x].maps = d /\ Q
    <3>1. x \in Structs /\ (stop[x] <=> x = d \/ NamedObject[x])
      BY Zenon, <1>6, <2>1
    <3> HIDE DEF stop
    <3>2. CASE x = Object
      BY <1>1, <1>7, <3>1, <3>2
    <3>3. CASE IsCopy(x)
      <4>1. x # d /\ x # Object /\ ~NamedObject[x]
        <5>1. ~IsCopy(Object)
          BY <1>0, BuiltinStructs DEF Originals, Builtins, Object
        <5> QED BY Zenon, <1>1, <1>8, <3>1, <3>3, <5>1
      <4>2. heap[x].maps = d => ~Q
        <5>1. heap[heap[x].maps].isModule
          BY <1>0, <3>1, <3>3 DEF Pointers
        <5> QED BY Zenon, <2>3, <5>1
      <4> QED BY <3>1, <4>1, <4>2
    <3>4. CASE x \in UserClasses /\ ~heap[x].isModule /\ x # Object
      <4>1. ~NamedObject[x] /\ heap[x].maps = x
        BY Zenon, <1>8, <3>1, <3>4 DEF UserClasses, IsCopy
      <4>2. x = d => Q
        BY Zenon, <2>3, <3>4
      <4> QED BY <3>1, <3>4, <4>1, <4>2
    <3> QED BY <1>6, <3>2, <3>3, <3>4
  <2> HIDE DEF stop, Hit
  <2>5. LooksFor(E, stop, Hit, d, Q)
    BY Zenon, <2>4 DEF LooksFor
  <2>6. \A x \in E : Last(Along(Super, x, stop, Len(heap))) \in Hit
                       <=> d \in ToSet(Line(x)) /\ Q
    BY <1>1, <1>2, <1>3, <2>5, WalkFinds
  <2>7. Last(Along(Super, sc, stop, Len(heap))) \in Hit <=> d \in above /\ Q
    BY Zenon, <1>5, <2>6
  <2>8. PICK e : e = Last(Along(Super, sc, stop, Len(heap)))
    OBVIOUS
  <2>9. e \in Hit <=> d = e
    BY DEF Hit
  <2> QED BY Zenon, <2>2, <2>3, <2>7, <2>8, <2>9
<1> QED BY Zenon, <1>5, <1>9, <1>10

\* Of a program none of whose own classes is called Object, for that name ends the
\* walks: is_a? and the comparison of classes, which go by names and by pointers,
\* say the same as the order of the ancestors does.
THEOREM RelationsAlwaysAgree ==
  ASSUME "Object" \notin Names
  PROVE  Spec => []RelationsAgree
<1>1. IInv /\ LInv /\ Kinds => RelationsAgree
  BY Zenon, Relations DEF RelationsAgree
<1> QED BY IInvAlways, LInvAlways, KindsAlways, <1>1, PTL
=============================================================================
