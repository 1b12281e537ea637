------------------------------ MODULE Hierarchy ------------------------------
(***************************************************************************)
(* What the classes of Lito promise to who writes a program: each class has *)
(* the superclass it was declared with, modules are mixed in in front of    *)
(* those mixed in before, and a message is answered by the first ancestor   *)
(* that defines it.  Metaclasses are classes here.                          *)
(***************************************************************************)
EXTENDS Integers, Sequences, FiniteSets, SequencesExt

VARIABLES parent,  \* the superclass of each class, or itself
          mixins,  \* the modules mixed into each class, the last one first
          defs     \* the method of each name that each class defines, or 0

hierarchyVars == <<parent, mixins, defs>>
Declared == DOMAIN parent

Undefined(c) == mixins[c] = <<>> /\ \A n \in DOMAIN defs[c] : defs[c][n] = 0

Init == \A c \in Declared : Undefined(c)

\* New classes come with nothing of their own, and what was there stays.
Declare ==
  /\ Declared # Declared' /\ Declared \subseteq Declared'
  /\ \A c \in Declared : /\ parent'[c] = parent[c]
                         /\ mixins'[c] = mixins[c]
                         /\ defs'[c] = defs[c]
  /\ \A c \in Declared' \ Declared : Undefined(c)'

MixIn(c) ==
  /\ mixins'[c] # mixins[c]
  /\ \E m \in Declared : mixins' = [mixins EXCEPT ![c] = <<m>> \o @]
  /\ UNCHANGED <<parent, defs>>

Define(c) ==
  /\ defs'[c] # defs[c]
  /\ \E n \in DOMAIN defs[c] :
       /\ defs'[c][n] # 0
       /\ defs' = [defs EXCEPT ![c][n] = defs'[c][n]]
  /\ UNCHANGED <<parent, mixins>>

Next ==
  \/ Declare
  \/ defs # defs' /\ \E c \in Declared : Define(c)
  \/ mixins # mixins' /\ \E c \in Declared : MixIn(c)

Spec == Init /\ [][Next]_hierarchyVars

-----------------------------------------------------------------------------
\* A class, what is mixed into it, its superclass, and so on up.
Ancestors(c) ==
  LET line[k \in 0..Cardinality(Declared)] ==
        [d \in Declared |->
           IF parent[d] = d \/ k = 0 THEN <<d>> \o mixins[d]
           ELSE <<d>> \o mixins[d] \o line[k - 1][parent[d]]]
  IN line[Cardinality(Declared)][c]

\* The first method named n in a list of classes, or 0.
First(cs, n) ==
  LET those == {i \in 1..Len(cs) : defs[cs[i]][n] # 0}
  IN IF those = {} THEN 0
     ELSE defs[cs[CHOOSE i \in those : \A j \in those : i <= j]][n]

=============================================================================
