----------------------------- MODULE LockProofs -----------------------------
(* Proofs about Lock, for any set of threads.                                *)
EXTENDS Lock, TLAPS

\* The type invariant but for the bound of open, which takes Nested.
Shape ==
  /\ program \in {"any", "owner", "calm"}
  /\ mutex \in BOOLEAN /\ locked \in BOOLEAN /\ crashed \in BOOLEAN
  /\ pc \in [Threads -> {"idle", "acquire", "mark", "clear", "release"}]
  /\ block \in [Threads -> BOOLEAN]
  /\ open \in [Threads -> Nat]
  /\ owner \in Threads \cup {None}
  /\ inside \subseteq Threads

-----------------------------------------------------------------------------
(* Any program.                                                              *)

\* A taken mutex whose flag is not set has a call of lock or of unlock on its
\* way that will set the flag or free the mutex.
Pending ==
  mutex /\ ~locked => \E t \in Threads : pc[t] \in {"mark", "release"}

\* The initial state has that shape.
LEMMA ShapeInit == Init => Shape
<1> SUFFICES ASSUME Init PROVE Shape
  OBVIOUS
<1>1. pc \in [Threads -> {"idle", "acquire", "mark", "clear", "release"}]
  BY DEF Init
<1>2. open \in [Threads -> Nat] /\ block \in [Threads -> BOOLEAN]
  BY DEF Init
<1> QED BY <1>1, <1>2 DEF Init, Shape

\* Every step keeps the shape of the variables.
LEMMA ShapeStep == Shape /\ [Next]_vars => Shape'
<1> SUFFICES ASSUME Shape, [Next]_vars PROVE Shape'
  OBVIOUS
<1> USE DEF Shape
<1>1. CASE UNCHANGED vars
  BY <1>1 DEF vars
<1>2. CASE Next
  <2>1. PICK t \in Threads : Step(t)
    BY <1>2 DEF Next
  <2>2. CASE Lock(t)
    BY <2>2 DEF Lock, Goto
  <2>3. CASE Acquire(t)
    BY <2>3 DEF Acquire, Goto
  <2>4. CASE Mark(t)
    <3>1. open' \in [Threads -> Nat]
      BY <2>4 DEF Mark
    <3> QED BY <2>4, <3>1 DEF Mark, Goto
  <2>5. CASE EndBlock(t)
    <3>1. open' \in [Threads -> Nat]
      BY <2>5 DEF EndBlock
    <3> QED BY <2>5, <3>1 DEF EndBlock, Goto
  <2>6. CASE BlockRaises(t)
    <3>1. PICK n \in 0..open[t]-1 : Unwind(t, n)
      BY <2>6 DEF BlockRaises
    <3>2. open' \in [Threads -> Nat] /\ inside' \subseteq Threads
      BY <3>1 DEF Unwind
    <3> QED BY <2>6, <3>2 DEF BlockRaises
  <2>7. CASE Unlock(t)
    BY <2>7 DEF Unlock, Goto
  <2>8. CASE UnlockRefused(t)
    <3>1. PICK n \in 0..open[t] : Unwind(t, n)
      BY <2>8 DEF UnlockRefused
    <3>2. open' \in [Threads -> Nat] /\ inside' \subseteq Threads
      BY <3>1 DEF Unwind
    <3> QED BY <2>8, <3>2 DEF UnlockRefused
  <2>9. CASE Clear(t)
    BY <2>9 DEF Clear, Goto
  <2>10. CASE Release(t)
    BY <2>10 DEF Release, Goto
  <2> QED
    BY <2>1, <2>2, <2>3, <2>4, <2>5, <2>6, <2>7, <2>8, <2>9, <2>10 DEF Step
<1> QED BY <1>1, <1>2

\* Every step keeps Pending: the flag is cleared before the mutex is freed.
LEMMA PendingStep == Shape /\ Pending /\ [Next]_vars => Pending'
<1> SUFFICES ASSUME Shape, Pending, [Next]_vars PROVE Pending'
  OBVIOUS
<1> USE DEF Shape, Pending, Goto
<1>1. CASE UNCHANGED vars
  BY <1>1 DEF vars
<1>2. CASE Next
  <2>1. PICK t \in Threads : Step(t)
    BY <1>2 DEF Next
  <2>2. CASE Lock(t)
    BY <2>2 DEF Lock, Idle
  <2>3. CASE Acquire(t)
    BY <2>3 DEF Acquire
  <2>4. CASE Mark(t)
    BY <2>4 DEF Mark
  <2>5. CASE EndBlock(t)
    BY <2>5 DEF EndBlock, Idle
  <2>6. CASE BlockRaises(t)
    BY <2>6 DEF BlockRaises
  <2>7. CASE Unlock(t)
    BY <2>7 DEF Unlock, Idle
  <2>8. CASE UnlockRefused(t)
    BY <2>8 DEF UnlockRefused
  <2>9. CASE Clear(t)
    BY <2>9 DEF Clear
  <2>10. CASE Release(t)
    BY <2>10 DEF Release
  <2> QED
    BY <2>1, <2>2, <2>3, <2>4, <2>5, <2>6, <2>7, <2>8, <2>9, <2>10 DEF Step
<1> QED BY <1>1, <1>2

\* Whatever the threads call, in whatever order, the lock never gets stuck:
\* lock.go clears the flag before it frees the mutex, and sets it after.
THEOREM LockNeverStuck == Spec => []NeverStuck
<1>1. Init => Shape /\ Pending
  BY ShapeInit DEF Init, Pending
<1>2. Shape /\ Pending /\ [Next]_vars => (Shape /\ Pending)'
  BY ShapeStep, PendingStep
<1>3. Shape /\ Pending => NeverStuck
  BY DEF Shape, Pending, NeverStuck
<1> QED BY <1>1, <1>2, <1>3, PTL DEF Spec

-----------------------------------------------------------------------------
(* The bound of open.                                                        *)

\* A call of lock that has a block left room for it when it began, and a
\* thread has one call in progress at a time.
Nested ==
  \A t \in Threads :
    /\ open[t] <= MaxNest
    /\ block[t] => open[t] < MaxNest /\ pc[t] \in {"acquire", "mark"}

\* Every step keeps Nested: no block starts before the call that has it.
LEMMA NestedStep == Shape /\ Nested /\ [Next]_vars => Nested'
<1> SUFFICES ASSUME Shape, Nested, [Next]_vars PROVE Nested'
  OBVIOUS
<1> USE LockAssumption DEF Shape, Nested, Goto
<1>1. CASE UNCHANGED vars
  BY <1>1 DEF vars
<1>2. CASE Next
  <2>1. PICK t \in Threads : Step(t)
    BY <1>2 DEF Next
  <2>2. CASE Lock(t)
    BY <2>2 DEF Lock, Idle
  <2>3. CASE Acquire(t)
    BY <2>3 DEF Acquire
  <2>4. CASE Mark(t)
    BY <2>4 DEF Mark
  <2>5. CASE EndBlock(t)
    BY <2>5 DEF EndBlock, Idle
  <2>6. CASE BlockRaises(t)
    <3>1. PICK n \in 0..open[t]-1 : Unwind(t, n)
      BY <2>6 DEF BlockRaises
    <3> QED BY <2>6, <3>1 DEF BlockRaises, Unwind, Idle
  <2>7. CASE Unlock(t)
    BY <2>7 DEF Unlock, Idle
  <2>8. CASE UnlockRefused(t)
    <3>1. PICK n \in 0..open[t] : Unwind(t, n)
      BY <2>8 DEF UnlockRefused
    <3> QED BY <2>8, <3>1 DEF UnlockRefused, Unwind, Idle
  <2>9. CASE Clear(t)
    BY <2>9 DEF Clear
  <2>10. CASE Release(t)
    BY <2>10 DEF Release
  <2> QED
    BY <2>1, <2>2, <2>3, <2>4, <2>5, <2>6, <2>7, <2>8, <2>9, <2>10 DEF Step
<1> QED BY <1>1, <1>2

\* Every variable of the Lock class keeps its shape, whatever errors unwind.
THEOREM LockTypeCorrect == Spec => []TypeOK
<1>1. Init => Shape /\ Nested
  BY ShapeInit, LockAssumption DEF Init, Nested
<1>2. Shape /\ Nested /\ [Next]_vars => (Shape /\ Nested)'
  BY ShapeStep, NestedStep
<1>3. Shape /\ Nested => TypeOK
  <2> SUFFICES ASSUME Shape, Nested PROVE open \in [Threads -> 0..MaxNest]
    BY DEF Shape, TypeOK
  <2> QED BY LockAssumption DEF Shape, Nested
<1> QED BY <1>1, <1>2, <1>3, PTL DEF Spec

-----------------------------------------------------------------------------
(* Programs whose threads unlock only what they hold.                        *)

\* Who holds the mutex and what each step of lock and unlock knows of it.
Held ==
  /\ ~crashed
  /\ mutex <=> owner # None
  /\ \A t \in Threads :
       /\ pc[t] \in {"mark", "clear", "release"} => owner = t
       /\ pc[t] = "acquire" => owner # t
       /\ owner = t /\ pc[t] = "idle" => locked
       /\ open[t] > 0 => t \in inside /\ open[t] = 1
       /\ t \in inside => owner = t /\ pc[t] = "idle"

\* Every step keeps Held, and enters or leaves the lock as a mutex allows.
LEMMA HeldStep ==
  ASSUME program # "any", Shape, Held, [Next]_vars
  PROVE  /\ program' = program /\ Held'
         /\ inside' = inside \/ Abstract!Next
<1> USE LockAssumption DEF Shape, Held, Goto
<1>1. CASE UNCHANGED vars
  BY <1>1 DEF vars
<1>2. CASE Next
  <2>1. PICK t \in Threads : Step(t)
    BY <1>2 DEF Next
  <2>2. CASE Lock(t)
    BY <2>2 DEF Lock, MayLock, Idle
  <2>3. CASE Acquire(t)
    BY <2>3 DEF Acquire
  <2>4. CASE Mark(t)
    <3>1. inside = {}
      BY <2>4 DEF Mark
    <3>2. Abstract!Enter(t)
      BY <2>4, <3>1 DEF Mark, Abstract!Enter
    <3>3. Held'
      BY <2>4, <3>1 DEF Mark
    <3> QED BY <2>4, <3>2, <3>3 DEF Mark, Abstract!Next
  <2>5. CASE EndBlock(t)
    <3>1. t \in inside
      BY <2>5 DEF EndBlock
    <3>2. Abstract!Leave(t)
      BY <2>5, <3>1 DEF EndBlock, Abstract!Leave
    <3>3. Held'
      BY <2>5, <3>1 DEF EndBlock
    <3> QED BY <2>5, <3>2, <3>3 DEF EndBlock, Abstract!Next
  <2>6. CASE BlockRaises(t)
    BY <2>6 DEF BlockRaises, Unwind, Abstract!Next, Abstract!Leave, Idle
  <2>7. CASE Unlock(t)
    <3>1. owner = t /\ open[t] = 0
      BY <2>7 DEF Unlock, MayUnlock
    <3>2. Held'
      BY <2>7, <3>1 DEF Unlock, Idle
    <3>3. inside' = inside \/ Abstract!Next
      BY <2>7 DEF Unlock, Abstract!Next, Abstract!Leave
    <3> QED BY <2>7, <3>2, <3>3 DEF Unlock
  <2>8. CASE UnlockRefused(t)
    BY <2>8 DEF UnlockRefused, MayUnlock, Idle
  <2>9. CASE Clear(t)
    BY <2>9 DEF Clear
  <2>10. CASE Release(t)
    BY <2>10 DEF Release
  <2> QED
    BY <2>1, <2>2, <2>3, <2>4, <2>5, <2>6, <2>7, <2>8, <2>9, <2>10 DEF Step
<1> QED BY <1>1, <1>2

\* The invariant of every program: it restricts those that only unlock what
\* they hold.
OwnersHold == program # "any" => Held

\* The shape and OwnersHold are inductive, and every step is one of Mutex.
LEMMA OwnersHoldInvariant ==
  Spec => [](Shape /\ OwnersHold) /\ Excludes
<1>1. Init => Shape /\ OwnersHold /\ Abstract!Init
  BY ShapeInit, LockAssumption DEF Init, OwnersHold, Held, Abstract!Init
<1>2. ASSUME Shape, OwnersHold, [Next]_vars
      PROVE  /\ OwnersHold'
             /\ [Abstract!Next]_(IF program = "any" THEN {} ELSE inside)
  <2>1. program' = program
    BY <1>2 DEF Next, vars, Step, Lock, Acquire, Mark, EndBlock, BlockRaises,
                Unlock, UnlockRefused, Clear, Release
  <2>2. CASE program = "any"
    BY <2>1, <2>2 DEF OwnersHold
  <2>3. CASE program # "any"
    <3>1. Held' /\ (inside' = inside \/ Abstract!Next)
      BY <1>2, <2>3, HeldStep DEF OwnersHold
    <3> QED BY <2>1, <2>3, <3>1 DEF OwnersHold
  <2> QED BY <2>2, <2>3
<1>3. Shape /\ OwnersHold /\ [Next]_vars => (Shape /\ OwnersHold)'
  BY <1>2, ShapeStep
<1> QED BY <1>1, <1>2, <1>3, PTL DEF Spec, Excludes, Abstract!Spec

\* When threads unlock only what they hold, whoever holds the lock finds it
\* locked: its unlock is not refused, even after its block raised an error.
THEOREM OwnerUnlocks == Spec => []OwnerCanUnlock
<1>1. Shape /\ OwnersHold => OwnerCanUnlock
  BY LockAssumption DEF Shape, OwnersHold, Held, OwnerCanUnlock, Idle
<1> QED BY <1>1, OwnersHoldInvariant, PTL

\* Such programs never unlock a free Go mutex, which would end the process.
THEOREM OwnersKeepRunning == Spec => []OwnersNeverCrash
<1>1. Shape /\ OwnersHold => OwnersNeverCrash
  BY DEF OwnersHold, Held, OwnersNeverCrash
<1> QED BY <1>1, OwnersHoldInvariant, PTL

\* lock.go implements a mutex for them: the abstract specification holds of
\* the threads that are inside, every step of the code being a step of it.
THEOREM LockImplementsMutex == Spec => Excludes
BY OwnersHoldInvariant, PTL
=============================================================================
