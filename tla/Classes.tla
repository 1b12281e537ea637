------------------------------- MODULE Classes -------------------------------
(***************************************************************************)
(* Classes and modules (vm/class.go) and the constants that name them: the  *)
(* statements of a program that build them, and the lookups of methods and  *)
(* constants, which follow pointers from class to class.                    *)
(*                                                                         *)
(* heap is the RClass structs, metaclasses and copies of modules included.  *)
(* A copy shares the maps of its original: maps is the struct whose methods *)
(* and constants a struct has.  Of the data stack there is what statements  *)
(* leave on it, for a constant is looked up in the class that happens to be *)
(* on top.                                                                  *)
(*                                                                         *)
(* The program is typed into the REPL in any number of commands (REPLExec of *)
(* vm/repl.go): a command begins with an empty data stack, what its          *)
(* expressions return stays there (statement_generation.go:36), and if it    *)
(* raises the next one goes on with what it has declared.  Where class       *)
(* statements are nested, nothing follows the inner one: what there is still *)
(* to say in the outer body is said after it has been opened again.  A       *)
(* lookup that does not end overflows the stack of the process, which is the *)
(* end: it is no step here.                                                  *)
(***************************************************************************)
EXTENDS Integers, Sequences, FiniteSets, SequencesExt

CONSTANTS Names,       \* the constants of the program
          ModuleNames,   \* those that name modules where they are declared
          MethodNames,
          MaxClasses, MaxCopies, MaxDefs, MaxAliases, MaxParts, MaxStack

ASSUME ClassesAssumption ==
  /\ IsFiniteSet(Names)
  /\ ModuleNames \subseteq Names
  /\ {MaxClasses, MaxCopies, MaxDefs, MaxAliases, MaxParts, MaxStack} \subseteq Nat

VARIABLES heap, methods, constants,
          self,     \* the class whose body is executed, or Main
          stack,    \* what is on the data stack
          open,     \* the bodies under way that have their outer self below them
          asked,    \* for a class, the superclass the program named, or 0
          parts     \* what the program has declared so far, for the bound

tables == <<heap, methods, constants, asked>>
vars == <<tables, self, stack, open, parts>>

-----------------------------------------------------------------------------
(* Structs.  Values of constants are structs, or Plain; 0 is nil.  The names *)
(* of metaclasses are left out.                                            *)

Object == 1
Class == 3
Module == 5
Builtins == 6
Plain == -1
Main == 0  \* the main object, as self

RClass(name, super, class, meta, maps) ==
  [name |-> name, super |-> super, pseudo |-> super, class |-> class,
   meta |-> meta, isModule |-> FALSE, scope |-> 0, maps |-> maps]

Structs == 1..Len(heap)
IsCopy(c) == heap[c].maps # c
Originals == {c \in Structs : ~IsCopy(c)}

NoMethods == [n \in MethodNames |-> 0]
NoConstants == [n \in Names |-> 0]

\* initClassClass, initModuleClass and initObjectClass: each class is followed
\* by its metaclass.
Init ==
  /\ heap = << RClass("Object", Object, Class, 2, 1),
               [RClass("", Class, Class, 0, 2) EXCEPT !.pseudo = 0],
               RClass("Class", Module, Class, 4, 3), RClass("", 0, Class, 0, 4),
               RClass("Module", Object, Class, 6, 5), RClass("", 2, Class, 0, 6) >>
  /\ methods = [c \in 1..Builtins |-> NoMethods]
  /\ constants = [c \in 1..Builtins |-> NoConstants]
  /\ self = Main
  /\ stack = <<>>
  /\ open = 0
  /\ parts = 0
  /\ asked = [c \in 1..Builtins |-> 0]

-----------------------------------------------------------------------------
(* Walks along the pointers, to the first struct that stop holds for, or as *)
(* many steps as there are structs if the walk goes in circles.            *)

Along(next, c, stop, fuel) ==
  LET walk[k \in 0..fuel] ==
        [x \in DOMAIN next |->
           IF stop[x] \/ k = 0 THEN <<x>> ELSE <<x>> \o walk[k - 1][next[x]]]
  IN walk[fuel][c]

Super == [x \in Structs |-> heap[x].super]
Scope == [x \in Structs |-> heap[x].scope]
NamedObject == [x \in Structs |-> heap[x].name = "Object"]

\* Mutant: what a superclass defines goes before what the class itself does.
LookupInherited(c, n) ==
  LET above == Last(Along(Super, Super[c],
        [x \in Structs |-> methods[heap[x].maps][n] # 0 \/ Super[x] \in {0, x}], Len(heap)))
  IN IF methods[heap[above].maps][n] # 0 THEN methods[heap[above].maps][n]
     ELSE methods[heap[c].maps][n]

\* superClass: nil and a class that is its own superclass end the walk.
lookupMethod(c, n) ==
  LET holder == Last(Along(Super, c,
        [x \in Structs |-> methods[heap[x].maps][n] # 0 \/ Super[x] \in {0, x}], Len(heap)))
  IN methods[heap[holder].maps][n]

\* Of an instance of c; with super it starts from the superclass of c, whichever
\* method says super.
FindMethod(c, n, super) == lookupMethod(IF super THEN Super[c] ELSE c, n)

\* Of the class c itself.
FindClassMethod(c, n) ==
  LET m == lookupMethod(heap[c].meta, n)
  IN IF m # 0 THEN m ELSE lookupMethod(heap[c].class, n)

\* Nothing but a class named Object ends the walks of isA, ancestors and
\* alreadyInherit where they find nothing.
ReachesObject(c) == NamedObject[Last(Along(Super, c, NamedObject, Len(heap)))]

isA(c, super) ==
  LET x == Last(Along(Super, c,
        [x \in Structs |-> heap[x].name = heap[super].name \/ NamedObject[x]], Len(heap)))
  IN heap[x].name = heap[super].name

alreadyInherit(c, super) ==
  super = Last(Along(Super, Super[c],
    [x \in Structs |-> x = super \/ NamedObject[x]], Len(heap)))

\* Where the name n is found from c, or the outermost scope.  cs is constants,
\* or what constants is about to be.
Holder(cs, c, n) ==
  Last(Along(Scope, c, [x \in Structs |-> cs[heap[x].maps][n] # 0 \/ Scope[x] = 0], Len(heap)))
lookupConstantUnderAllScope(cs, c, n) == cs[heap[Holder(cs, c, n)].maps][n]

\* A scope that encloses itself is searched for ever for what it has not got.
Ends(c, n) ==
  LET x == Holder(constants, c, n) IN constants[heap[x].maps][n] # 0 \/ Scope[x] = 0

SelfClass == IF self = Main THEN Object ELSE self
Top == IF stack = <<>> THEN Main ELSE stack[Len(stack)]

\* Of the VM, with top on the stack: whether or not it was written before ::,
\* a class on top is searched first.
lookupConstant(cs, top, n) ==
  LET inTop == IF top \in Structs THEN lookupConstantUnderAllScope(cs, top, n) ELSE 0
      inSelf == lookupConstantUnderAllScope(cs, SelfClass, n)
  IN IF inTop # 0 THEN inTop
     ELSE IF inSelf # 0 THEN inSelf ELSE cs[Object][n]
LookupEnds(top, n) ==
  /\ top \in Structs => Ends(top, n)
  /\ Ends(SelfClass, n)

-----------------------------------------------------------------------------
(* Statements.                                                             *)

UserClasses == {c \in Builtins+1..Len(heap) : ~IsCopy(c) /\ heap[c].meta # 0}
Bindings == {b \in Originals \X Names : constants[b[1]][b[2]] # 0}
Aliases == Cardinality(Bindings) - Cardinality(UserClasses)
Defined == (UNION {{methods[c][n] : n \in MethodNames} : c \in Structs}) \ {0}

\* One more class, copy or method, or an alias, which counts for two.
Count(k) == parts + k <= MaxParts /\ parts' = parts + k

\* The body of a class begins, with what the statement has left on the stack.
Enter(c, left) ==
  /\ self' = c
  /\ stack' = stack \o left
  /\ open' = open + Len(left)

\* InitClass and InitModule: the class is the next struct, its metaclass the
\* one after.
InitClass(n) ==
  << [RClass(n, Object, Class, Len(heap) + 2, Len(heap) + 1) EXCEPT !.scope = self],
     RClass("", 2, Class, 0, Len(heap) + 2) >>
InitModule(n) ==
  << [RClass(n, Object, Module, Len(heap) + 2, Len(heap) + 1)
        EXCEPT !.scope = self, !.isModule = TRUE],
     RClass("", Module, Class, 0, Len(heap) + 2) >>

\* Mutant: the superclass is set, but not where superclass reads it.
InheritsSuper(new, c, sc) ==
  << [new[1] EXCEPT !.super = sc],
     LET meta == IF sc = c THEN Len(heap) + 2 ELSE heap[sc].meta
     IN [new[2] EXCEPT !.super = meta, !.pseudo = meta] >>

inherits(new, c, sc) ==
  << [new[1] EXCEPT !.super = sc, !.pseudo = sc],
     LET meta == IF sc = c THEN Len(heap) + 2 ELSE heap[sc].meta
     IN [new[2] EXCEPT !.super = meta, !.pseudo = meta] >>

\* storeConstant, for a class that is new.
storeConstant(n) ==
  [constants EXCEPT ![SelfClass][n] = Len(heap) + 1] \o <<NoConstants, NoConstants>>

Room == Count(1) /\ Cardinality(UserClasses) < MaxClasses
New(n) ==
  /\ Ends(SelfClass, n)
  /\ lookupConstantUnderAllScope(constants, SelfClass, n) = 0
  /\ constants' = storeConstant(n)
  /\ methods' = methods \o <<NoMethods, NoMethods>>

\* class N or module N, where N is not to be found.
DefineClass(n) ==
  /\ Room
  /\ New(n)
  /\ heap' = heap \o IF n \in ModuleNames THEN InitModule(n) ELSE InitClass(n)
  /\ asked' = asked \o <<0, 0>>
  /\ Enter(Len(heap) + 1, <<>>)

\* class N < S.  S is evaluated, then looked up by its name once more, with its
\* value on top of the stack and after N has been stored.  The body is executed on
\* top of self, which the second Pop of the statement is for.
DefineSubclass(n, s) ==
  /\ n \notin ModuleNames
  /\ Len(stack) < MaxStack /\ Room
  /\ LookupEnds(self, s)
  /\ LET value == lookupConstant(constants, self, s)
         class == Len(heap) + 1
     IN /\ value # 0
        /\ value \in Structs => Ends(value, s)
        /\ New(n)
        /\ LET super == lookupConstant(constants', value, s)
               accepted == \/ super = class
                           \/ super \in Structs /\ ~heap[super].isModule
           IN \/ /\ accepted
                 /\ heap' = heap \o inherits(InitClass(n), class, super)
                 /\ asked' = asked \o <<value, 0>>
                 /\ Enter(class, <<self>>)
              \/ /\ ~accepted
                 /\ heap' = heap \o InitClass(n)
                 /\ asked' = asked \o <<0, 0>>
                 /\ self' = Main /\ stack' = <<>> /\ open' = 0

\* class N, class N < S or module N, where a class or module is found, whichever
\* it is and whatever its superclass.
Reopen(n) ==
  /\ Ends(SelfClass, n)
  /\ LET class == lookupConstantUnderAllScope(constants, SelfClass, n)
     IN /\ class \in Structs
        /\ \/ Enter(class, <<>>)
           \/ Len(stack) < MaxStack /\ Enter(class, <<self>>)
  /\ UNCHANGED <<tables, parts>>

\* Of the statement, with all the bodies it is in: one with a superclass pops
\* twice, the class and what is below it.
EndOfBody ==
  /\ self # Main
  /\ self' = Main
  /\ stack' = SubSeq(stack, 1, Len(stack) - open)
  /\ open' = 0
  /\ UNCHANGED <<tables, parts>>

\* The last command is done or has raised an error: names are undefined, modules
\* are no modules, constants are already initialised.
NextCommand ==
  /\ self' = Main /\ stack' = <<>> /\ open' = 0
  /\ <<self, stack>> # <<Main, <<>>>>
  /\ UNCHANGED <<tables, parts>>

\* Mutant: the two assignments are swapped.
SpliceSwapped(class, module) ==
  [heap EXCEPT ![class].super = Len(heap) + 1]
    \o <<[heap[module] EXCEPT !.super = Len(heap) + 1]>>

\* Mutant: the copy keeps the superclass of the module.
SpliceKeepsSuper(class, module) ==
  [heap EXCEPT ![class].super = Len(heap) + 1] \o <<heap[module]>>

\* Mutant: the module itself is put there, and the copy nowhere.
SpliceOriginal(class, module) ==
  [heap EXCEPT ![class].super = module, ![module].super = heap[class].super]
    \o <<heap[module]>>

\* A copy of the module goes between the class and its superclass.
Splice(class, module) ==
  LET copy == Len(heap) + 1
  IN [heap EXCEPT ![class].super = copy]
       \o <<[heap[module] EXCEPT !.super = heap[class].super]>>

\* The test for the module itself never finds it, for only copies are put into
\* the chains.  The class is returned.
MixIn(class, module) ==
  /\ module \in Structs
  /\ heap[module].isModule
  /\ Len(stack) < MaxStack
  /\ ReachesObject(heap[class].super)
  /\ IF alreadyInherit(class, module) THEN UNCHANGED <<tables, parts>>
     ELSE /\ Count(1) /\ Cardinality({x \in Structs : IsCopy(x)}) < MaxCopies
          /\ heap' = Splice(class, module)
          /\ methods' = Append(methods, NoMethods)
          /\ constants' = Append(constants, NoConstants)
          /\ asked' = Append(asked, 0)
  /\ stack' = Append(stack, class)
  /\ UNCHANGED <<self, open>>

\* In the body of a class, or in that of Object.
Include(n) ==
  LET module == lookupConstant(constants, self, n)
  IN LookupEnds(self, n) /\ MixIn(SelfClass, module)

Extend(n) ==
  LET module == lookupConstant(constants, self, n)
  IN self # Main /\ LookupEnds(self, n) /\ MixIn(heap[self].meta, module)

\* DefMethod and DefMetaMethod.
Def(class, n) ==
  /\ Count(1)
  /\ LET k == Cardinality(Defined) + 1
     IN /\ k \in (1..MaxDefs) \ Defined
        /\ methods' = [methods EXCEPT ![heap[class].maps][n] = k]
  /\ UNCHANGED <<heap, constants, asked, self, stack, open>>
DefMethod(n) == Def(SelfClass, n)
DefMetaMethod(n) == self # Main /\ Def(heap[self].meta, n)

\* Mutant: the expression statement pops the value once more, as in a file.
SetConstantTwice(n, value) ==
  /\ Count(2) /\ Aliases < MaxAliases
  /\ constants[SelfClass][n] = 0
  /\ constants' = [constants EXCEPT ![SelfClass][n] = value]
  /\ heap' = IF value \in Structs /\ self # Main
             THEN [heap EXCEPT ![value].scope = self] ELSE heap
  /\ stack' = SubSeq(stack, 1, Len(stack) - 1)
  /\ UNCHANGED <<methods, asked, self, open>>

\* N = S, or a value that is not a class, which is popped.
SetConstant(n, value) ==
  /\ Count(2) /\ Aliases < MaxAliases
  /\ constants[SelfClass][n] = 0
  /\ constants' = [constants EXCEPT ![SelfClass][n] = value]
  /\ heap' = IF value \in Structs /\ self # Main
             THEN [heap EXCEPT ![value].scope = self] ELSE heap
  /\ UNCHANGED <<methods, asked, self, stack, open>>

Assign(n) ==
  \/ SetConstant(n, Plain)
  \/ \E s \in Names : LET value == lookupConstant(constants, Top, s)
                      IN LookupEnds(Top, s) /\ value # 0 /\ SetConstant(n, value)

Next ==
  \/ \E n \in Names : DefineClass(n) \/ Reopen(n) \/ Include(n) \/ Extend(n) \/ Assign(n)
  \/ \E n, s \in Names : DefineSubclass(n, s)
  \/ \E n \in MethodNames : DefMethod(n) \/ DefMetaMethod(n)
  \/ EndOfBody \/ NextCommand

Spec == Init /\ [][Next]_vars

-----------------------------------------------------------------------------
(* Properties.                                                             *)

\* The pointers lead to structs and each struct has its row in the tables;
\* the modules' structs are the only ones that are copied; and each body
\* under way that has a superclass finds on the data stack a value for the
\* second Pop of its statement (statement_generation.go:43), whatever its
\* statements push and pop.
TypeOK ==
  /\ \A c \in Structs :
       /\ {heap[c].super, heap[c].pseudo, heap[c].meta, heap[c].scope} \subseteq {0} \cup Structs
       /\ heap[c].class \in {Class, Module}
       /\ heap[c].maps <= c /\ (IsCopy(c) => heap[heap[c].maps].isModule)
  /\ methods \in [Structs -> [MethodNames -> 0..MaxDefs]]
  /\ constants \in [Structs -> [Names -> {Plain, 0} \cup Originals]]
  /\ asked \in [Structs -> {Plain, 0} \cup Originals]
  /\ self \in {Main} \cup {c \in Originals : heap[c].meta # 0}
  /\ stack \in UNION {[1..k -> {Main} \cup Originals] : k \in 0..MaxStack}
  /\ open \in 0..Len(stack) /\ (self = Main => open = 0)

\* Whoever uses a class has in mind its superclass, and the modules it includes
\* as belonging to it; the structs are chained by one pointer only.
UpToOriginal(c) == Along(Super, Super[c], [x \in Structs |-> ~IsCopy(x)], Len(heap))
Parent(c) == IF Super[c] = 0 THEN c ELSE Last(UpToOriginal(c))
Mixins(c) ==
  LET line == IF Super[c] = 0 THEN <<c>> ELSE UpToOriginal(c)
  IN [i \in 1..Len(line) - 1 |-> heap[line[i]].maps]

H == INSTANCE Hierarchy WITH parent <- [c \in Originals |-> Parent(c)],
                             mixins <- [c \in Originals |-> Mixins(c)],
                             defs <- [c \in Originals |-> methods[c]]

\* Each statement changes what the classes promise in one way: it declares a
\* class, mixes one module into one class, or defines one method, and leaves
\* every other class and what was declared before as it was, however
\* DefClass, include and extend set the pointers (class.go:226-310).
ImplementsHierarchy == H!Spec

\* A chain of superclasses is a circle in two cases only: Object includes a
\* module, or a class is its own superclass.
Straight(c) ==
  /\ Parent(Object) = Object /\ Mixins(Object) = <<>>
  /\ LET line == Along(Super, c, [x \in Structs |-> Super[x] \in {0, x} ], Len(heap))
     IN \A x \in ToSet(line) : x # Object /\ ~IsCopy(x) => Parent(x) # x

\* A message to an instance finds the method of the first of the ancestors of
\* its class, and one to a class that of the first ancestor of its metaclass
\* and then of Class.  super finds the next one if the receiver's own class
\* defines the method that says super; if that one was inherited or mixed in,
\* it finds the very same (class.go:1045-1097, base_object.go:57).
AnswersFromAncestors ==
  \A c \in UserClasses, n \in MethodNames :
    (Straight(c) /\ ~heap[c].isModule) =>
      LET ancestors == H!Ancestors(c)
          found == H!First(ancestors, n)
      IN /\ FindMethod(c, n, FALSE) = found
         /\ FindMethod(c, n, TRUE)
              = IF methods[c][n] = 0 THEN found ELSE H!First(Tail(ancestors), n)
         /\ FindClassMethod(c, n)
              = H!First(H!Ancestors(heap[c].meta) \o H!Ancestors(Class), n)

\* Every lookup of a method, is_a? and ancestors end at Object, in spite of the
\* copies that are put into the chains, but for the two kinds of circle; and
\* every lookup of a constant ends, unless a class of its scopes has been
\* assigned to a second constant, which may be inside it (call_frame.go:194).
LookupsEnd ==
  /\ \A c \in UserClasses : Straight(c) => ReachesObject(c) /\ ReachesObject(heap[c].meta)
  /\ \A c \in UserClasses :
       LET scopes == Along(Scope, c, [x \in Structs |-> Scope[x] = 0], Len(heap))
       IN \/ Scope[Last(scopes)] = 0
          \/ \E x \in ToSet(scopes) : Cardinality({b \in Bindings : constants[b[1]][b[2]] = x}) > 1

\* class N < S makes a class whose superclass is what S was when it was
\* evaluated, though DefClass looks the name up again: unless that class holds
\* or sees a constant of this name, or the new class has just taken the name
\* (instruction.go:386-406).
SuperclassAsNamed ==
  [][\A c \in DOMAIN asked' \ DOMAIN asked :
       \/ asked'[c] \in {0, heap'[c].pseudo}
       \/ \E n \in Names :
            /\ lookupConstant(constants, self, n) = asked'[c]
            /\ \/ n = heap'[c].name
               \/ /\ asked'[c] \in Structs
                  /\ lookupConstantUnderAllScope(constants, asked'[c], n)
                       \notin {0, asked'[c]}]_vars

\* Where no other class has the same name, is_a? says that d is among the
\* ancestors of c, and so does c < d if d is a class; of a module that c includes
\* it never does (class.go:150-172, 1160-1170, 1221).
RelationsAgree ==
  \A c \in {x \in UserClasses : Straight(x)} :
    LET above == ToSet(Tail(H!Ancestors(c)))
    IN \A d \in UserClasses :
         (\A x \in UserClasses \ {d} : heap[x].name # heap[d].name) =>
           /\ isA(c, d) <=> d \in above \cup {c}
           /\ alreadyInherit(c, d) <=> d \in above /\ ~heap[d].isModule

=============================================================================
