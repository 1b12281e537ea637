--------------------------- MODULE WaitGroupProofs ---------------------------
(* Proofs about WaitGroup, for any finite set of goroutines.                 *)
EXTENDS WaitGroup, FiniteSetTheorems, TLAPS

\* The goroutines that the deferred Done has yet to count off, and the threads
\* between the Add and the go statement of wg.go.
Alive == {g \in inGroup : Running(g)}
Spawning == {t \in Threads : pc[t] = "spawn"}

\* A thread that brought the counter to zero and has yet to wake the waiters.
Releasing(t) == pc[t] \in {"checking", "resetting"}

\* Which threads can be where.
Placed ==
  /\ \A g \in inGroup : pc[g] # "none"
  /\ \A t \in Threads :
       /\ pc[t] = "ending" => t \in inGroup
       /\ Releasing(t) <=> call[t].by # "none"
       /\ call[t].by = "done" => t \in inGroup

\* What the counter stands for: and while a thread is about to wake the
\* waiters nobody else is, and the word is as that thread saw it.
Counted ==
  /\ balance >= 0
  /\ count = balance + Cardinality(Alive) + Cardinality(Spawning)
  /\ missed = {} /\ outcome # "crashed"
  /\ \A t \in Threads : Releasing(t) =>
       /\ count = 0 /\ waiters # 0 /\ waiters = call[t].seen
       /\ call[t].by \in {"add", "done"}
       /\ \A u \in Threads : Releasing(u) => u = t

IInv ==
  /\ TypeOK /\ Placed
  /\ \A t \in Threads : before[t] \subseteq inGroup
  /\ overdone \/ late \/ Counted

-----------------------------------------------------------------------------
\* Only finitely many threads are counted.
LEMMA Finite ==
  ASSUME TypeOK
  PROVE  /\ IsFiniteSet(Alive) /\ IsFiniteSet(Spawning)
         /\ Cardinality(Alive) \in Nat /\ Cardinality(Spawning) \in Nat
<1>1. IsFiniteSet(Goroutines)
  BY WaitGroupAssumption
<1>2. IsFiniteSet(Goroutines \cup {Main})
  BY <1>1, FS_AddElement
<1>3. Alive \in SUBSET Goroutines /\ Spawning \in SUBSET (Goroutines \cup {Main})
  BY DEF TypeOK, Alive, Spawning, Threads
<1>4. IsFiniteSet(Alive) /\ IsFiniteSet(Spawning)
  BY <1>1, <1>2, <1>3, FS_Subset
<1> QED BY <1>4, FS_CardinalityType

\* No goroutine of the group is left when its counter is zero.
LEMMA ZeroJoins ==
  ASSUME TypeOK, Counted, count = 0
  PROVE  Alive = {}
<1>1. Cardinality(Alive) = 0
  BY Finite DEF TypeOK, Counted
<1> QED BY <1>1, Finite, FS_EmptySet

\* What one thread may do without leaving its place in the group.
Moves(t) ==
  /\ inGroup' = inGroup
  /\ pc' \in [Threads -> Steps]
  /\ call' \in [Threads -> [by : {"none", "add", "go", "done"}, seen : Nat]]
  /\ \A u \in Threads : u # t => pc'[u] = pc[u] /\ call'[u] = call[u]
  /\ pc'[t] # "none"
  /\ pc'[t] = "ending" => t \in inGroup
  /\ Releasing(t)' <=> call'[t].by # "none"
  /\ call'[t].by = "done" => t \in inGroup

LEMMA MoveKeepsPlaces ==
  ASSUME TypeOK, Placed, NEW t \in Threads, Moves(t)
  PROVE  Placed'
<1>1. \A g \in inGroup' : pc'[g] # "none"
  BY DEF TypeOK, Placed, Moves, Threads
<1>2. ASSUME NEW u \in Threads
      PROVE  /\ pc'[u] = "ending" => u \in inGroup'
             /\ Releasing(u)' <=> call'[u].by # "none"
             /\ call'[u].by = "done" => u \in inGroup'
  <2>1. CASE u = t
    BY <2>1 DEF Moves
  <2>2. CASE u # t
    BY <2>2 DEF Moves, Placed, Releasing
  <2> QED BY <2>1, <2>2
<1> QED BY <1>1, <1>2 DEF Placed

\* A step that starts and ends nobody changes no count.
LEMMA MoveKeepsCounts ==
  ASSUME TypeOK, NEW t \in Threads, Moves(t),
         pc[t] = "spawn" <=> pc'[t] = "spawn",
         t \in inGroup => (Running(t)' <=> Running(t))
  PROVE  Alive' = Alive /\ Spawning' = Spawning
<1>1. inGroup \subseteq Threads
  BY DEF TypeOK, Threads
<1>2. \A u \in Threads : /\ pc[u] = "spawn" <=> pc'[u] = "spawn"
                         /\ u \in inGroup => (Running(u)' <=> Running(u))
  BY DEF Moves, Running
<1> QED BY <1>1, <1>2 DEF Alive, Spawning, Moves

\* A panic of sync.WaitGroup ends no goroutine of the group: it calls Done.
LEMMA PanicMoves ==
  ASSUME TypeOK, Placed, NEW t \in Threads, NEW by, Panic(t, by),
         inGroup' = inGroup
  PROVE  /\ Moves(t) /\ ~Releasing(t)' /\ pc'[t] # "spawn"
         /\ outcome' \in {"running", "ended", "crashed"}
         /\ by # "done" => /\ outcome' \in {outcome, "ended"}
                           /\ t \in inGroup => Running(t)'
         /\ by = "done" => ~Running(t)'
<1>1. Main \notin inGroup /\ NoCall \in [by : {"none"}, seen : Nat]
  BY WaitGroupAssumption DEF TypeOK, NoCall
<1>2. PICK step \in {"idle", "dead", "ending"} :
        /\ Leave(t, step)
        /\ step = "ending" => t \in inGroup
        /\ by # "done" /\ t \in inGroup => step # "dead"
        /\ by = "done" => step = "dead"
        /\ outcome' \in {outcome, "ended", "crashed"}
        /\ by # "done" => outcome' \in {outcome, "ended"}
  BY <1>1 DEF Panic, Ending
<1>3. /\ pc' = [pc EXCEPT ![t] = step] /\ call' = [call EXCEPT ![t] = NoCall]
      /\ pc'[t] = step /\ call'[t] = NoCall
  BY <1>2 DEF Leave, TypeOK
<1>4. Moves(t)
  BY <1>1, <1>2, <1>3 DEF Moves, TypeOK, Steps, Releasing
<1> QED BY <1>1, <1>2, <1>3, <1>4 DEF Running, Releasing, TypeOK

\* Add returns: to Lito, to the go statement, or at the end of a goroutine.
LEMMA ProceedMoves ==
  ASSUME TypeOK, Placed, NEW t \in Threads, NEW by \in {"add", "go", "done"},
         Proceed(t, by), inGroup' = inGroup
  PROVE  /\ Moves(t) /\ ~Releasing(t)' /\ outcome' = outcome
         /\ pc'[t] = "spawn" <=> by = "go"
         /\ Running(t)' <=> by # "done"
<1>1. NoCall \in [by : {"none"}, seen : Nat]
  BY DEF NoCall
<1>2. PICK step \in {"idle", "spawn", "dead"} :
        /\ Leave(t, step) /\ UNCHANGED outcome
        /\ step = "spawn" <=> by = "go"
        /\ step = "dead" <=> by = "done"
  BY DEF Proceed
<1>3. /\ pc' = [pc EXCEPT ![t] = step] /\ call' = [call EXCEPT ![t] = NoCall]
      /\ pc'[t] = step /\ call'[t] = NoCall
  BY <1>2 DEF Leave, TypeOK
<1>4. Moves(t)
  BY <1>1, <1>2, <1>3 DEF Moves, TypeOK, Steps, Releasing
<1> QED BY <1>1, <1>2, <1>3, <1>4 DEF Running, Releasing

\* What the first step of Add does to its thread.
LEMMA AddMoves ==
  ASSUME TypeOK, Placed, NEW t \in Threads, NEW n \in Int,
         NEW by \in {"add", "go", "done"}, AddTo(t, n, by), inGroup' = inGroup,
         by = "done" => t \in inGroup
  PROVE  /\ Moves(t) /\ count' = count + n /\ waiters' = waiters /\ sema' = sema
         /\ late' \in BOOLEAN /\ outcome' \in {"running", "ended", "crashed"}
         /\ (late => late') /\ (Late(n) => late')
         /\ by # "done" => outcome' \in {outcome, "ended"}
         /\ by = "done" => ~Running(t)'
         /\ by # "done" /\ t \in inGroup => Running(t)'
         /\ by # "go" => pc'[t] # "spawn"
         /\ Releasing(t)' => /\ count' = 0 /\ waiters # 0
                             /\ call'[t] = [by |-> by, seen |-> waiters]
         /\ ~late' /\ count' >= 0 =>
              /\ outcome' = outcome
              /\ (by = "go" /\ count' # 0 => pc'[t] = "spawn")
<1>1. /\ count' = count + n /\ waiters' = waiters /\ sema' = sema
      /\ count' \in Int /\ (late => late') /\ (Late(n) => late')
  <2>1. late' = (late \/ Late(n))
    BY DEF AddTo
  <2>2. (late => late') /\ (Late(n) => late')
    BY <2>1, Zenon
  <2> QED BY <2>2 DEF AddTo, TypeOK
<1>2. late' \in BOOLEAN
  <2>1. late' = (late \/ Late(n))
    BY DEF AddTo
  <2> QED BY <2>1, Zenon
<1>3. CASE (count' < 0 \/ Late(n)) /\ Panic(t, by)
  <2>1. late' \/ count' < 0
    BY <1>1, <1>3
  <2> QED BY <1>1, <1>2, <1>3, <2>1, PanicMoves
<1>4. CASE /\ count' = 0 /\ waiters # 0 /\ outcome' = outcome
           /\ pc' = [pc EXCEPT ![t] = "checking"]
           /\ call' = [call EXCEPT ![t] = [by |-> by, seen |-> waiters]]
  <2>1. pc'[t] = "checking" /\ call'[t] = [by |-> by, seen |-> waiters]
    BY <1>4 DEF TypeOK
  <2>2. [by |-> by, seen |-> waiters]
          \in [by : {"none", "add", "go", "done"}, seen : Nat]
    BY DEF TypeOK
  <2>3. Moves(t)
    BY <1>4, <2>1, <2>2 DEF Moves, TypeOK, Steps, Releasing
  <2> QED BY <1>1, <1>2, <1>4, <2>1, <2>3 DEF Running, TypeOK
<1>5. CASE Proceed(t, by)
  BY <1>1, <1>2, <1>5, ProceedMoves DEF TypeOK
<1> QED BY <1>3, <1>4, <1>5 DEF AddTo

\* The initial state satisfies the invariant.
LEMMA InitInv == Init => IInv
<1> SUFFICES ASSUME Init PROVE IInv
  OBVIOUS
<1>1. TypeOK
  <2>1. pc \in [Threads -> Steps] /\ NoCall \in [by : {"none"}, seen : Nat]
    BY DEF Init, Steps, NoCall
  <2>2. call \in [Threads -> [by : {"none", "add", "go", "done"}, seen : Nat]]
    BY <2>1 DEF Init, NoCall
  <2>3. before \in [Threads -> SUBSET Goroutines]
    BY DEF Init
  <2>4. 0 \in 0..MaxAdds
    BY WaitGroupAssumption
  <2>5. inGroup \subseteq Goroutines /\ missed \subseteq Goroutines
    BY DEF Init
  <2>6. /\ program \in {"any", "calm"} /\ count = 0 /\ waiters = 0 /\ sema = 0
        /\ balance = 0 /\ added = 0 /\ outcome = "running"
    BY DEF Init
  <2>7. overdone \in BOOLEAN /\ late \in BOOLEAN
    BY Zenon DEF Init
  <2> QED BY <2>1, <2>2, <2>3, <2>4, <2>5, <2>6, <2>7 DEF TypeOK
<1>2. Alive = {} /\ Spawning = {}
  BY DEF Init, Alive, Spawning
<1>3. \A t \in Threads : ~Releasing(t) /\ pc[t] # "ending" /\ call[t].by = "none"
  BY DEF Init, Releasing, NoCall
<1>4. Placed
  BY <1>3 DEF Placed, Init
<1>5. Counted
  BY <1>2, <1>3, FS_EmptySet DEF Init, Counted
<1> QED BY <1>1, <1>4, <1>5 DEF Init, IInv

-----------------------------------------------------------------------------
\* add and done: the counter moves with the balance, until it is overdone.
LEMMA AddInv ==
  ASSUME IInv, NEW t \in Threads, NEW n \in {1, 2, -1}, Add(t, n)
  PROVE  IInv'
<1>1. /\ TypeOK /\ Placed /\ pc[t] = "idle" /\ n \in Int
      /\ inGroup' = inGroup /\ before' = before /\ missed' = missed
      /\ AddTo(t, n, "add") /\ program' = program
      /\ balance' = balance + n /\ overdone' = (overdone \/ balance' < 0)
  BY DEF IInv, Add, Idle
<1>2. /\ Moves(t) /\ count' = count + n /\ waiters' = waiters /\ sema' = sema
      /\ late' \in BOOLEAN /\ outcome' \in {"running", "ended", "crashed"}
      /\ (late => late') /\ (Late(n) => late') /\ outcome' \in {outcome, "ended"}
      /\ (t \in inGroup => Running(t)') /\ pc'[t] # "spawn"
      /\ Releasing(t)' => /\ count' = 0 /\ waiters # 0
                          /\ call'[t] = [by |-> "add", seen |-> waiters]
  BY <1>1, AddMoves
<1>3. Placed'
  BY <1>1, <1>2, MoveKeepsPlaces
<1>4. ~Releasing(t) /\ call[t].by = "none" /\ Running(t)
  BY <1>1 DEF Placed, Releasing, Running
<1>5. Alive' = Alive /\ Spawning' = Spawning
  BY <1>1, <1>2, <1>4, MoveKeepsCounts
<1>6. added' \in 0..MaxAdds
  BY WaitGroupAssumption DEF Add, IInv, TypeOK
<1>7. TypeOK'
  <2>1. count' \in Int /\ balance' \in Int /\ overdone' \in BOOLEAN
    BY <1>1, <1>2 DEF TypeOK
  <2> QED BY <1>1, <1>2, <1>6, <2>1 DEF TypeOK, Moves
<1>8. overdone' \/ late' \/ Counted'
  <2>1. CASE overdone \/ late
    BY <1>1, <1>2, <2>1
  <2>2. CASE balance' < 0
    BY <1>1, <2>2
  <2>3. CASE Counted /\ balance' >= 0 /\ ~late'
    <3>1. /\ missed' = {} /\ outcome' # "crashed"
          /\ count' = balance' + Cardinality(Alive') + Cardinality(Spawning')
      BY <1>1, <1>2, <1>5, <2>3, Finite DEF Counted, TypeOK
    <3>2. \A u \in Threads : Releasing(u) => FALSE
      <4>1. n > 0 /\ count = 0 /\ waiters # 0 => late'
        BY <1>2 DEF Late
      <4>2. count + n >= 0
        BY <1>1, <1>2, <1>5, <2>3, <3>1, Finite DEF TypeOK
      <4> QED BY <1>1, <2>3, <4>1, <4>2 DEF Counted
    <3>3. \A u \in Threads : Releasing(u)' => u = t
      BY <1>2, <3>2 DEF Moves, Releasing
    <3>4. \A u \in Threads : Releasing(u)' =>
            /\ count' = 0 /\ waiters' # 0 /\ waiters' = call'[u].seen
            /\ call'[u].by \in {"add", "done"}
      BY <1>2, <3>3
    <3> QED BY <2>3, <3>1, <3>3, <3>4 DEF Counted
  <2> QED BY <1>1, <2>1, <2>2, <2>3 DEF IInv, TypeOK
<1>9. \A u \in Threads : before'[u] \subseteq inGroup'
  BY <1>1 DEF IInv
<1> QED BY <1>3, <1>7, <1>8, <1>9 DEF IInv

\* wait looks at the group once; it misses nobody when the counter is zero.
LEMMA WaitInv ==
  ASSUME IInv, NEW t \in Threads, Wait(t)
  PROVE  IInv'
<1>1. /\ TypeOK /\ Placed /\ pc[t] = "idle" /\ ~Releasing(t)
      /\ call' = call /\ inGroup' = inGroup /\ count' = count
      /\ before' = [before EXCEPT ![t] = Alive]
  BY DEF IInv, Wait, Idle, Alive, Releasing
<1>2. /\ pc' \in [Threads -> Steps] /\ pc'[t] \in {"idle", "waiting"}
      /\ \A u \in Threads : u # t => pc'[u] = pc[u]
  BY <1>1 DEF TypeOK, Wait, Steps
<1>3. Moves(t) /\ (Running(t)' <=> Running(t))
  BY <1>1, <1>2 DEF TypeOK, Placed, Moves, Releasing, Running
<1>4. Placed'
  BY <1>1, <1>3, MoveKeepsPlaces
<1>5. Alive' = Alive /\ Spawning' = Spawning
  BY <1>1, <1>2, <1>3, MoveKeepsCounts
<1>6. /\ before' \in [Threads -> SUBSET Goroutines] /\ before'[t] = Alive
      /\ \A u \in Threads : before'[u] \subseteq inGroup
  BY <1>1 DEF TypeOK, Alive, IInv
<1>7. missed' \subseteq Goroutines /\ (overdone \/ late \/ missed' = {})
  <2>1. CASE count = 0 /\ missed' = missed \cup Alive
    BY <1>1, <2>1, ZeroJoins DEF IInv, Counted, TypeOK, Alive
  <2>2. CASE count # 0 /\ missed' = missed
    BY <1>1, <2>2 DEF IInv, Counted, TypeOK
  <2> QED BY <1>6, <2>1, <2>2 DEF Wait
<1>8. TypeOK'
  <2>1. waiters' \in Nat
    BY <1>1 DEF Wait, TypeOK
  <2> QED BY <1>1, <1>2, <1>6, <1>7, <2>1 DEF TypeOK, Wait
<1>9. overdone' \/ late' \/ Counted'
  <2>1. CASE overdone \/ late
    BY <2>1 DEF Wait
  <2>2. CASE Counted /\ missed' = {}
    <3>1. /\ balance' >= 0 /\ outcome' # "crashed"
          /\ count' = balance' + Cardinality(Alive') + Cardinality(Spawning')
      BY <1>5, <2>2 DEF Counted, Wait
    <3>2. \A u \in Threads : Releasing(u)' => Releasing(u) /\ call'[u] = call[u]
      BY <1>1, <1>2 DEF Releasing
    <3>3. \A u \in Threads : Releasing(u) => waiters' = waiters
      BY <2>2 DEF Wait, Counted
    <3> QED BY <1>1, <2>2, <3>1, <3>2, <3>3 DEF Counted
  <2> QED BY <1>7, <2>1, <2>2 DEF IInv
<1> QED BY <1>1, <1>4, <1>6, <1>8, <1>9 DEF IInv

\* A waiter that was woken returns only to a counter that is zero.
LEMMA ReturnInv ==
  ASSUME IInv, NEW t \in Threads, Return(t)
  PROVE  IInv'
<1>1. /\ TypeOK /\ Placed /\ pc[t] = "woken" /\ ~Releasing(t)
      /\ inGroup' = inGroup /\ before' = before /\ count' = count
  BY DEF IInv, Return, Releasing, word
<1>2. /\ Moves(t) /\ ~Releasing(t)' /\ pc'[t] # "spawn"
      /\ outcome' \in {outcome, "ended"} /\ (t \in inGroup => Running(t)')
  <2>1. CASE Panic(t, "wait")
    BY <1>1, <2>1, PanicMoves
  <2>2. CASE pc' = [pc EXCEPT ![t] = "idle"] /\ call' = call /\ outcome' = outcome
    <3>1. pc'[t] = "idle" /\ call'[t].by = "none"
      BY <1>1, <2>2 DEF TypeOK, Placed
    <3> QED BY <1>1, <2>2, <3>1
            DEF TypeOK, Placed, Moves, Steps, Releasing, Running
  <2> QED BY <2>1, <2>2 DEF Return
<1>3. Placed'
  BY <1>1, <1>2, MoveKeepsPlaces
<1>4. Running(t)
  BY <1>1 DEF Placed, Running
<1>5. Alive' = Alive /\ Spawning' = Spawning
  BY <1>1, <1>2, <1>4, MoveKeepsCounts
<1>6. missed' \subseteq Goroutines /\ (overdone \/ late \/ missed' = {})
  <2>1. CASE missed' = missed
    BY <1>1, <2>1 DEF IInv, TypeOK, Counted
  <2>2. CASE count = 0 /\ missed' = missed \cup {g \in before[t] : Running(g)}
    <3>1. {g \in before[t] : Running(g)} \subseteq Alive
      BY DEF IInv, Alive
    <3> QED BY <1>1, <2>2, <3>1, ZeroJoins DEF IInv, Counted, TypeOK, Alive
  <2> QED BY <2>1, <2>2 DEF Return
<1>7. TypeOK'
  BY <1>1, <1>2, <1>6 DEF TypeOK, Return, Moves, word
<1>8. overdone' \/ late' \/ Counted'
  <2>1. \A u \in Threads : Releasing(u)' => Releasing(u) /\ call'[u] = call[u]
    BY <1>1, <1>2 DEF Moves, Releasing
  <2> QED BY <1>1, <1>2, <1>5, <1>6, <2>1 DEF Return, IInv, Counted, word
<1> QED BY <1>1, <1>3, <1>7, <1>8 DEF IInv

-----------------------------------------------------------------------------
\* wg.go counts the goroutine before the go statement.
LEMMA GoInv ==
  ASSUME IInv, NEW t \in Threads, Go(t)
  PROVE  IInv'
<1>1. /\ TypeOK /\ Placed /\ pc[t] = "idle" /\ AddTo(t, 1, "go")
      /\ inGroup' = inGroup /\ before' = before /\ missed' = missed
      /\ balance' = balance /\ overdone' = overdone
  BY DEF IInv, Go, Idle
<1>2. /\ Moves(t) /\ count' = count + 1 /\ waiters' = waiters /\ sema' = sema
      /\ late' \in BOOLEAN /\ outcome' \in {"running", "ended", "crashed"}
      /\ (late => late') /\ (Late(1) => late') /\ (t \in inGroup => Running(t)')
      /\ (Releasing(t)' => count' = 0)
      /\ ~late' /\ count' >= 0 =>
           /\ outcome' = outcome
           /\ (count' # 0 => pc'[t] = "spawn")
  BY <1>1, AddMoves
<1>3. Placed'
  BY <1>1, <1>2, MoveKeepsPlaces
<1>4. TypeOK'
  BY <1>1, <1>2 DEF TypeOK, Moves, Go
<1>5. overdone' \/ late' \/ Counted'
  <2>1. CASE overdone \/ late
    BY <1>1, <1>2, <2>1
  <2>2. CASE Counted /\ ~late'
    <3>1. count \in Nat /\ count' > 0
      BY <1>1, <1>2, <2>2, Finite DEF Counted, TypeOK
    <3>2. pc'[t] = "spawn" /\ outcome' = outcome
      BY <1>2, <2>2, <3>1
    <3>3. Alive' = Alive
      BY <1>1, <1>2, <3>2 DEF Alive, Moves, Running, TypeOK, Threads, Placed, Releasing
    <3>4. Spawning' = Spawning \cup {t} /\ t \notin Spawning
      BY <1>1, <1>2, <3>2 DEF Spawning, Moves
    <3>5. Cardinality(Spawning') = Cardinality(Spawning) + 1
      BY <1>1, <3>4, Finite, FS_AddElement
    <3>6. count' = balance' + Cardinality(Alive') + Cardinality(Spawning')
      BY <1>1, <1>2, <2>2, <3>3, <3>5, Finite DEF Counted, TypeOK
    <3>7. \A u \in Threads : Releasing(u) => FALSE
      <4>1. count = 0 /\ waiters # 0 => late'
        BY <1>2 DEF Late
      <4> QED BY <2>2, <4>1 DEF Counted
    <3>8. \A u \in Threads : ~Releasing(u)'
      BY <1>2, <3>2, <3>7 DEF Moves, Releasing
    <3> QED BY <1>1, <2>2, <3>2, <3>6, <3>8 DEF Counted
  <2> QED BY <1>1, <2>1, <2>2 DEF IInv, TypeOK
<1>6. \A u \in Threads : before'[u] \subseteq inGroup'
  BY <1>1 DEF IInv
<1> QED BY <1>3, <1>4, <1>5, <1>6 DEF IInv

\* The go statement turns a thread between the two into a goroutine.
LEMMA SpawnInv ==
  ASSUME IInv, NEW t \in Threads, Spawn(t)
  PROVE  IInv'
<1>1. PICK g \in Goroutines :
        /\ pc[g] = "none" /\ pc' = [pc EXCEPT ![t] = "idle", ![g] = "idle"]
        /\ inGroup' = inGroup \cup {g}
  BY DEF Spawn
<1>2. /\ TypeOK /\ Placed /\ pc[t] = "spawn" /\ g \in Threads /\ g # t
      /\ g \notin inGroup /\ program' = program /\ word' = word
      /\ call' = call /\ ghosts' = ghosts /\ outcome' = outcome
  BY <1>1 DEF IInv, Spawn, Threads, Placed
<1>3. /\ pc' \in [Threads -> Steps] /\ pc'[t] = "idle" /\ pc'[g] = "idle"
      /\ \A u \in Threads : u # t /\ u # g => pc'[u] = pc[u]
  BY <1>1, <1>2 DEF TypeOK, Steps
<1>4. ~Releasing(t) /\ ~Releasing(g) /\ call[t].by = "none" /\ call[g].by = "none"
  BY <1>1, <1>2 DEF Placed, Releasing
<1>5. \A u \in Threads : Releasing(u)' <=> Releasing(u)
  BY <1>3, <1>4 DEF Releasing
<1>6. Alive' = Alive \cup {g} /\ g \notin Alive
  BY <1>1, <1>2, <1>3, <1>4 DEF Alive, Running, TypeOK, Threads
<1>7. Spawning' = Spawning \ {t} /\ t \in Spawning
  BY <1>1, <1>2, <1>3 DEF Spawning
<1>8. /\ Cardinality(Alive') = Cardinality(Alive) + 1
      /\ Cardinality(Spawning') = Cardinality(Spawning) - 1
  BY <1>2, <1>6, <1>7, Finite, FS_AddElement, FS_RemoveElement
<1>9. TypeOK'
  BY <1>1, <1>2, <1>3 DEF TypeOK, word, ghosts
<1>10. overdone' \/ late' \/ Counted'
  <2>1. CASE overdone \/ late
    BY <1>2, <2>1 DEF ghosts
  <2>2. CASE Counted
    <3>1. count' = balance' + Cardinality(Alive') + Cardinality(Spawning')
      BY <1>2, <1>8, <2>2, Finite DEF Counted, TypeOK, word, ghosts
    <3> QED BY <1>2, <1>5, <2>2, <3>1 DEF Counted, word, ghosts
  <2> QED BY <2>1, <2>2 DEF IInv
<1>11. Placed'
  <2>1. \A u \in inGroup' : pc'[u] # "none"
    BY <1>1, <1>2, <1>3 DEF Placed, TypeOK, Threads
  <2>2. \A u \in Threads : pc'[u] = "ending" => u \in inGroup'
    BY <1>1, <1>2, <1>3 DEF Placed
  <2> QED BY <1>1, <1>2, <1>5, <2>1, <2>2 DEF Placed
<1>12. \A u \in Threads : before'[u] \subseteq inGroup'
  BY <1>1, <1>2 DEF IInv, ghosts
<1> QED BY <1>9, <1>10, <1>11, <1>12 DEF IInv

\* Steps of goroutines that the group does not count, or does not uncount yet.
LEMMA UncountedInv ==
  ASSUME IInv,
         \/ MainEnds
         \/ \E t \in Threads :
              GoPlain(t) \/ BlockEnds(t) \/ BlockRaises(t) \/ Acquire(t)
  PROVE  IInv'
<1>1. /\ TypeOK /\ Placed /\ Main \notin inGroup /\ call' = call
      /\ ghosts' = ghosts /\ inGroup' = inGroup /\ program' = program
      /\ count' = count /\ waiters' = waiters /\ sema' \in Nat
      /\ outcome' \in {outcome, "ended"}
  BY WaitGroupAssumption
     DEF IInv, TypeOK, MainEnds, GoPlain, BlockEnds, BlockRaises, Acquire, word
<1>2. PICK v \in Threads, step \in {"idle", "ending", "dead", "woken"} :
        /\ pc' = [pc EXCEPT ![v] = step]
        /\ \/ pc[v] = "none" /\ step = "idle"
           \/ pc[v] = "idle" /\ step \in {"ending", "dead"}
           \/ pc[v] = "waiting" /\ step = "woken"
        /\ step = "ending" => v \in inGroup
        /\ step = "dead" => v \notin inGroup
  <2>1. CASE MainEnds
    BY <1>1, <2>1 DEF MainEnds, Idle, Threads
  <2>2. CASE \E t \in Threads : GoPlain(t)
    BY <2>2 DEF GoPlain, Threads
  <2>3. CASE \E t \in Threads : BlockEnds(t) \/ BlockRaises(t)
    BY <2>3 DEF BlockEnds, BlockRaises, Idle, Ending
  <2>4. CASE \E t \in Threads : Acquire(t)
    BY <2>4 DEF Acquire
  <2> QED BY <2>1, <2>2, <2>3, <2>4
<1>3. /\ pc' \in [Threads -> Steps] /\ pc'[v] = step
      /\ \A u \in Threads : u # v => pc'[u] = pc[u]
  BY <1>1, <1>2 DEF TypeOK, Steps
<1>4. ~Releasing(v) /\ ~Releasing(v)' /\ call[v].by = "none"
  BY <1>1, <1>2, <1>3 DEF Placed, Releasing
<1>5. Moves(v)
  BY <1>1, <1>2, <1>3, <1>4 DEF Moves, TypeOK
<1>6. Placed'
  BY <1>1, <1>5, MoveKeepsPlaces
<1>7. v \in inGroup => (Running(v)' <=> Running(v))
  BY <1>1, <1>2, <1>3, <1>4 DEF Running, Placed
<1>8. Alive' = Alive /\ Spawning' = Spawning
  BY <1>1, <1>2, <1>3, <1>5, <1>7, MoveKeepsCounts
<1>9. TypeOK'
  BY <1>1, <1>3 DEF TypeOK, ghosts
<1>10. overdone' \/ late' \/ Counted'
  <2>1. \A u \in Threads : Releasing(u)' <=> Releasing(u)
    BY <1>3, <1>4 DEF Releasing
  <2> QED BY <1>1, <1>8, <2>1 DEF IInv, Counted, ghosts
<1>11. \A u \in Threads : before'[u] \subseteq inGroup'
  BY <1>1 DEF IInv, ghosts
<1> QED BY <1>6, <1>9, <1>10, <1>11 DEF IInv

-----------------------------------------------------------------------------
\* The deferred Done of a goroutine that was counted.
LEMMA DeferredDoneInv ==
  ASSUME IInv, outcome = "running", NEW g \in Threads, DeferredDone(g)
  PROVE  IInv'
<1>1. /\ TypeOK /\ Placed /\ pc[g] = "ending" /\ g \in inGroup
      /\ AddTo(g, -1, "done") /\ inGroup' = inGroup /\ before' = before
      /\ missed' = missed /\ balance' = balance /\ overdone' = overdone
  BY DEF IInv, Placed, DeferredDone
<1>2. /\ Moves(g) /\ count' = count + -1 /\ waiters' = waiters /\ sema' = sema
      /\ late' \in BOOLEAN /\ outcome' \in {"running", "ended", "crashed"}
      /\ (late => late') /\ ~Running(g)' /\ pc'[g] # "spawn"
      /\ Releasing(g)' => /\ count' = 0 /\ waiters # 0
                          /\ call'[g] = [by |-> "done", seen |-> waiters]
      /\ ~late' /\ count' >= 0 => outcome' = outcome
  BY <1>1, AddMoves
<1>3. Placed'
  BY <1>1, <1>2, MoveKeepsPlaces
<1>4. TypeOK'
  BY <1>1, <1>2 DEF TypeOK, Moves, DeferredDone
<1>5. overdone' \/ late' \/ Counted'
  <2>1. CASE overdone \/ late
    BY <1>1, <1>2, <2>1
  <2>2. CASE Counted /\ ~late'
    <3>1. Alive' = Alive \ {g} /\ g \in Alive
      BY <1>1, <1>2 DEF Alive, Moves, Running, TypeOK, Threads, Placed, Releasing
    <3>2. Spawning' = Spawning
      BY <1>1, <1>2 DEF Spawning, Moves
    <3>3. Cardinality(Alive') = Cardinality(Alive) - 1 /\ Cardinality(Alive') \in Nat
      BY <1>1, <3>1, Finite, FS_RemoveElement, FS_CardinalityType
    <3>4. /\ count' = balance' + Cardinality(Alive') + Cardinality(Spawning')
          /\ count' >= 0 /\ count > 0
      BY <1>1, <1>2, <2>2, <3>2, <3>3, Finite DEF Counted, TypeOK
    <3>5. outcome' # "crashed"
      BY <1>2, <2>2, <3>4
    <3>6. \A u \in Threads : Releasing(u) => FALSE
      BY <2>2, <3>4 DEF Counted
    <3>7. \A u \in Threads : Releasing(u)' => u = g
      BY <1>2, <3>6 DEF Moves, Releasing
    <3>8. \A u \in Threads : Releasing(u)' =>
            /\ count' = 0 /\ waiters' # 0 /\ waiters' = call'[u].seen
            /\ call'[u].by \in {"add", "done"}
      BY <1>2, <3>7
    <3> QED BY <1>1, <2>2, <3>4, <3>5, <3>7, <3>8 DEF Counted
  <2> QED BY <1>1, <2>1, <2>2 DEF IInv, TypeOK
<1>6. \A u \in Threads : before'[u] \subseteq inGroup'
  BY <1>1 DEF IInv
<1> QED BY <1>3, <1>4, <1>5, <1>6 DEF IInv

\* The second look at the word finds it as it was.
LEMMA CheckInv ==
  ASSUME IInv, outcome = "running", NEW t \in Threads, Check(t)
  PROVE  IInv'
<1>1. /\ TypeOK /\ Placed /\ Releasing(t) /\ pc[t] # "spawn"
      /\ program' = program /\ word' = word /\ inGroup' = inGroup
      /\ ghosts' = ghosts
      /\ call[t].by \in {"add", "go", "done"}
      /\ (call[t].by = "done" => t \in inGroup)
  BY DEF IInv, TypeOK, Placed, Check, Releasing
<1>2. CASE /\ pc' = [pc EXCEPT ![t] = "resetting"] /\ call' = call
           /\ outcome' = outcome
  <2>1. /\ pc' \in [Threads -> Steps] /\ pc'[t] = "resetting"
        /\ \A u \in Threads : u # t => pc'[u] = pc[u]
    BY <1>1, <1>2 DEF TypeOK, Steps
  <2>2. Moves(t) /\ (Running(t)' <=> Running(t))
    BY <1>1, <1>2, <2>1 DEF Moves, TypeOK, Placed, Releasing, Running
  <2>3. Placed'
    BY <1>1, <2>2, MoveKeepsPlaces
  <2>4. Alive' = Alive /\ Spawning' = Spawning
    BY <1>1, <2>1, <2>2, MoveKeepsCounts
  <2>5. \A u \in Threads : Releasing(u)' <=> Releasing(u)
    BY <1>1, <2>1 DEF Releasing
  <2>6. TypeOK'
    BY <1>1, <1>2, <2>1 DEF TypeOK, word, ghosts
  <2>7. overdone' \/ late' \/ Counted'
    BY <1>1, <1>2, <2>4, <2>5 DEF IInv, Counted, word, ghosts
  <2>8. \A u \in Threads : before'[u] \subseteq inGroup'
    BY <1>1 DEF IInv, ghosts
  <2> QED BY <2>3, <2>6, <2>7, <2>8 DEF IInv
<1>3. CASE /\ ~(count = 0 /\ waiters = call[t].seen)
           /\ Panic(t, call[t].by)
  <2>1. Moves(t) /\ outcome' \in {"running", "ended", "crashed"}
    BY <1>1, <1>3, PanicMoves
  <2>2. Placed'
    BY <1>1, <2>1, MoveKeepsPlaces
  <2>3. TypeOK'
    BY <1>1, <2>1 DEF TypeOK, Moves, word, ghosts
  <2>4. overdone' \/ late'
    BY <1>1, <1>3 DEF IInv, Counted, ghosts
  <2>5. \A u \in Threads : before'[u] \subseteq inGroup'
    BY <1>1 DEF IInv, ghosts
  <2> QED BY <2>2, <2>3, <2>4, <2>5 DEF IInv
<1> QED BY <1>2, <1>3 DEF Check

\* The waiters are woken, and nobody has lost count.
LEMMA ReleaseInv ==
  ASSUME IInv, NEW t \in Threads, Release(t)
  PROVE  IInv'
<1>1. /\ TypeOK /\ Placed /\ Releasing(t) /\ Proceed(t, call[t].by)
      /\ count' = 0 /\ waiters' = 0 /\ sema' = sema + call[t].seen
      /\ program' = program /\ inGroup' = inGroup /\ ghosts' = ghosts
      /\ call[t].by \in {"add", "go", "done"} /\ call[t].seen \in Nat
  BY DEF IInv, TypeOK, Placed, Release, Releasing
<1>2. /\ Moves(t) /\ ~Releasing(t)' /\ outcome' = outcome
      /\ (pc'[t] = "spawn" <=> call[t].by = "go")
      /\ (Running(t)' <=> call[t].by # "done")
  BY <1>1, ProceedMoves
<1>3. Placed'
  BY <1>1, <1>2, MoveKeepsPlaces
<1>4. TypeOK'
  BY <1>1, <1>2 DEF TypeOK, Moves, ghosts
<1>5. overdone' \/ late' \/ Counted'
  <2>1. CASE overdone \/ late
    BY <1>1, <2>1 DEF ghosts
  <2>2. CASE Counted
    <3>1. /\ count = 0 /\ pc[t] # "spawn" /\ pc'[t] # "spawn"
          /\ (Running(t)' <=> Running(t))
      BY <1>1, <1>2, <2>2 DEF Counted, Releasing, Running
    <3>2. Alive' = Alive /\ Spawning' = Spawning
      BY <1>1, <1>2, <3>1, MoveKeepsCounts
    <3>3. \A u \in Threads : ~Releasing(u)'
      BY <1>1, <1>2, <2>2 DEF Counted, Moves, Releasing
    <3> QED BY <1>1, <1>2, <2>2, <3>1, <3>2, <3>3 DEF Counted, ghosts
  <2> QED BY <2>1, <2>2 DEF IInv
<1>6. \A u \in Threads : before'[u] \subseteq inGroup'
  BY <1>1 DEF IInv, ghosts
<1> QED BY <1>3, <1>4, <1>5, <1>6 DEF IInv

-----------------------------------------------------------------------------
\* Every step keeps the invariant.
LEMMA StepInv == IInv /\ [Next]_vars => IInv'
<1> SUFFICES ASSUME IInv, [Next]_vars PROVE IInv'
  OBVIOUS
<1>1. CASE UNCHANGED vars
  BY <1>1 DEF vars, word, ghosts, IInv, TypeOK, Placed, Counted, Alive, Spawning,
              Running, Releasing
<1>2. CASE Next
  <2>1. outcome = "running"
    BY <1>2 DEF Next
  <2>2. CASE MainEnds
    BY <2>2, UncountedInv
  <2>3. ASSUME NEW t \in Threads, Step(t) PROVE IInv'
    <3>1. CASE \E n \in {1, 2, -1} : Add(t, n)
      BY <3>1, AddInv
    <3>2. CASE Wait(t)
      BY <3>2, WaitInv
    <3>3. CASE Return(t)
      BY <3>3, ReturnInv
    <3>4. CASE Go(t)
      BY <3>4, GoInv
    <3>5. CASE Spawn(t)
      BY <3>5, SpawnInv
    <3>6. CASE GoPlain(t) \/ BlockEnds(t) \/ BlockRaises(t) \/ Acquire(t)
      BY <3>6, UncountedInv
    <3>7. CASE DeferredDone(t)
      BY <2>1, <3>7, DeferredDoneInv
    <3>8. CASE Check(t)
      BY <2>1, <3>8, CheckInv
    <3>9. CASE Release(t)
      BY <3>9, ReleaseInv
    <3> QED BY <2>3, <3>1, <3>2, <3>3, <3>4, <3>5, <3>6, <3>7, <3>8, <3>9 DEF Step
  <2> QED BY <1>2, <2>2, <2>3 DEF Next
<1> QED BY <1>1, <1>2

\* The invariant holds in every run.
LEMMA Invariant == Spec => []IInv
BY InitInv, StepInv, PTL DEF Spec

\* The variables keep their shape, however many goroutines are started.
THEOREM TypesKept == Spec => []TypeOK
<1>1. IInv => TypeOK
  BY DEF IInv
<1> QED BY <1>1, Invariant, PTL

\* wait joins every goroutine that wg.go had started, whatever threads call in
\* between, unless done outnumbered add or an add came before the release.
THEOREM WaitAlwaysJoins == Spec => []WaitJoins
<1>1. IInv => WaitJoins
  BY DEF IInv, Counted, WaitJoins
<1> QED BY <1>1, Invariant, PTL

\* The deferred Done of a goroutine finds the counter positive, and the word
\* unchanged at its second look, unless the program did one of the two.
THEOREM OnlyMisuseCrashes == Spec => []CrashNeedsMisuse
<1>1. IInv => CrashNeedsMisuse
  BY DEF IInv, Counted, CrashNeedsMisuse
<1> QED BY <1>1, Invariant, PTL
=============================================================================
