------------------------------ MODULE WaitGroup ------------------------------
(***************************************************************************)
(* The WaitGroup class (vm/waitgroup.go) and the goroutines that wg.go and *)
(* Object#go (vm/class.go) start.  Lito's methods wrap Go's sync.WaitGroup *)
(* which is modelled here too: one word with a counter and the number of   *)
(* waiters, and a semaphore that they sleep on.  Who brings the counter to *)
(* zero looks at the word again before it resets it and wakes them; it     *)
(* panics if the word has changed.                                         *)
(*                                                                         *)
(* The program is one of two: with "any", threads call every method as     *)
(* they like; with "calm", they never call add and done, and goroutines of *)
(* the group do not wait for it.                                           *)
(***************************************************************************)
EXTENDS Integers, FiniteSets

CONSTANTS
  Main,
  Goroutines,  \* bound: the goroutines a run may start
  MaxAdds,     \* bound: the sum of the positive arguments of add
  MaxExtra     \* bound: how far done may outnumber add

Threads == {Main} \cup Goroutines

ASSUME WaitGroupAssumption ==
  /\ Main \notin Goroutines /\ IsFiniteSet(Goroutines)
  /\ MaxAdds \in Nat /\ MaxExtra \in Nat

VARIABLES
  program,   \* what the threads' programs do: "any" or "calm"
  count,     \* the counter of the sync.WaitGroup
  waiters,   \* the waiters in the same word
  sema,      \* its semaphore
  pc,        \* the step each thread is at; "idle" is Lito code
  call,      \* the call of sync.WaitGroup.Add that a thread is about to end
  inGroup,   \* the goroutines that wg.go started
  before,    \* ghost: those that were running when a thread called wait
  missed,    \* ghost: those of them still running when wait returned
  added,     \* ghost: the sum of the positive arguments of add
  balance,   \* ghost: what calls of add and done sum up to
  overdone,  \* ghost: balance was negative once
  late,      \* ghost: an add found waiters of a counter that was zero
  outcome    \* what became of the process

word == <<count, waiters, sema>>
ghosts == <<before, missed, added, balance, overdone, late>>
vars == <<program, word, pc, call, inGroup, ghosts, outcome>>

NoCall == [by |-> "none", seen |-> 0]

Idle(t) == pc[t] = "idle"

\* A goroutine until its deferred Done has counted it off.
Running(g) == pc[g] \notin {"none", "dead"} /\ call[g].by # "done"

\* Where a goroutine goes when its block ends: the deferred Done of wg.go.
Ending(g) == IF g \in inGroup THEN "ending" ELSE "dead"

-----------------------------------------------------------------------------
(* sync.WaitGroup.                                                         *)

Leave(t, step) ==
  /\ pc' = [pc EXCEPT ![t] = step]
  /\ call' = [call EXCEPT ![t] = NoCall]

\* A panic, whose value is a string.  A try swallows it; if there is none it
\* ends the goroutine, which recovers it, or the program.  The deferred Done
\* runs after that recover: its panic ends the process.
Panic(t, by) ==
  \/ by # "done" /\ Leave(t, "idle") /\ UNCHANGED outcome
  \/ by # "done" /\ t # Main /\ Leave(t, Ending(t)) /\ UNCHANGED outcome
  \/ by # "done" /\ t = Main /\ Leave(t, "dead") /\ outcome' = "ended"
  \/ by = "done" /\ Leave(t, "dead") /\ outcome' = "crashed"

\* Add returns to the method of Lito that called it.
Proceed(t, by) ==
  /\ Leave(t, CASE by = "add" -> "idle" [] by = "go" -> "spawn" [] by = "done" -> "dead")
  /\ UNCHANGED outcome

\* A panic of Add: it comes between the last done and the waiters' release.
Late(n) == n > 0 /\ count = 0 /\ waiters # 0

\* The first step of Add: the counter moves, whatever comes of it.
AddTo(t, n, by) ==
  /\ count' = count + n
  /\ late' = (late \/ Late(n))
  /\ LET fails == count' < 0 \/ Late(n)
         frees == count' = 0 /\ waiters # 0
     IN \/ fails /\ Panic(t, by)
        \/ /\ frees
           /\ pc' = [pc EXCEPT ![t] = "checking"]
           /\ call' = [call EXCEPT ![t] = [by |-> by, seen |-> waiters]]
           /\ UNCHANGED outcome
        \/ ~fails /\ ~frees /\ Proceed(t, by)
  /\ UNCHANGED <<waiters, sema>>

\* It was zero, with waiters: is it still?
Check(t) ==
  /\ pc[t] = "checking"
  /\ IF count = 0 /\ waiters = call[t].seen
     THEN pc' = [pc EXCEPT ![t] = "resetting"] /\ UNCHANGED <<call, outcome>>
     ELSE Panic(t, call[t].by)
  /\ UNCHANGED <<program, word, inGroup, ghosts>>

\* The word is overwritten, and as many are woken as were seen waiting.
Release(t) ==
  /\ pc[t] = "resetting"
  /\ count' = 0 /\ waiters' = 0 /\ sema' = sema + call[t].seen
  /\ Proceed(t, call[t].by)
  /\ UNCHANGED <<program, inGroup, ghosts>>

\* Whoever sleeps on the semaphore may be the next that is woken.
Acquire(t) ==
  /\ pc[t] = "waiting" /\ sema > 0
  /\ sema' = sema - 1
  /\ pc' = [pc EXCEPT ![t] = "woken"]
  /\ UNCHANGED <<program, count, waiters, call, inGroup, ghosts, outcome>>

-----------------------------------------------------------------------------
(* add, done and wait                                                      *)

\* wg.add(n); done is add(-1).
Add(t, n) ==
  /\ program = "any" /\ Idle(t)
  /\ n > 0 => added + n <= MaxAdds
  /\ n < 0 => balance > -MaxExtra
  /\ AddTo(t, n, "add")
  /\ added' = IF n > 0 THEN added + n ELSE added
  /\ balance' = balance + n
  /\ overdone' = (overdone \/ balance' < 0)
  /\ UNCHANGED <<program, inGroup, before, missed>>

\* Mutant: the main thread joins itself.
WaitAny(t) ==
  /\ Idle(t)
  /\ before' = [before EXCEPT ![t] = {g \in Threads : Running(g)}]
  /\ waiters' = waiters + 1
  /\ pc' = [pc EXCEPT ![t] = "waiting"]
  /\ UNCHANGED <<program, count, sema, call, inGroup, missed, added, balance,
                 overdone, late, outcome>>

Wait(t) ==
  /\ Idle(t) /\ (program = "calm" => t \notin inGroup)
  /\ before' = [before EXCEPT ![t] = {g \in inGroup : Running(g)}]
  /\ \/ count = 0 /\ missed' = missed \cup before'[t] /\ UNCHANGED <<waiters, pc>>
     \/ /\ count # 0 /\ UNCHANGED missed
        /\ waiters' = waiters + 1
        /\ pc' = [pc EXCEPT ![t] = "waiting"]
  /\ UNCHANGED <<program, count, sema, call, inGroup, added, balance, overdone,
                 late, outcome>>

\* A waiter that was woken finds the group unused, or panics.
Return(t) ==
  /\ pc[t] = "woken"
  /\ IF count = 0 /\ waiters = 0
     THEN /\ pc' = [pc EXCEPT ![t] = "idle"]
          /\ missed' = missed \cup {g \in before[t] : Running(g)}
          /\ UNCHANGED <<call, outcome>>
     ELSE Panic(t, "wait") /\ UNCHANGED missed
  /\ UNCHANGED <<program, word, inGroup, before, added, balance, overdone, late>>

-----------------------------------------------------------------------------
(* Goroutines                                                              *)

\* One of the bounded goroutines is left for each thread that starts one.
Starting(t) == pc[t] = "spawn" \/ call[t].by = "go"
CanStart ==
  Cardinality({g \in Goroutines : pc[g] = "none"})
    > Cardinality({u \in Threads : Starting(u)})

\* Mutant: the goroutine is not counted before it runs.
GoUncounted(t) ==
  /\ Idle(t) /\ CanStart
  /\ pc' = [pc EXCEPT ![t] = "spawn"]
  /\ UNCHANGED <<program, word, call, inGroup, ghosts, outcome>>

\* wg.go: WaitGroup.Add(1), and then the go statement.
Go(t) ==
  /\ Idle(t) /\ CanStart
  /\ AddTo(t, 1, "go")
  /\ UNCHANGED <<program, inGroup, before, missed, added, balance, overdone>>

Spawn(t) ==
  /\ pc[t] = "spawn"
  /\ \E g \in Goroutines :
       /\ pc[g] = "none"
       /\ pc' = [pc EXCEPT ![t] = "idle", ![g] = "idle"]
       /\ inGroup' = inGroup \cup {g}
  /\ UNCHANGED <<program, word, call, ghosts, outcome>>

\* Object#go.
GoPlain(t) ==
  /\ Idle(t) /\ CanStart
  /\ \E g \in Goroutines : pc[g] = "none" /\ pc' = [pc EXCEPT ![g] = "idle"]
  /\ UNCHANGED <<program, word, call, inGroup, ghosts, outcome>>

\* The block of a goroutine returns.
BlockEnds(g) ==
  /\ g # Main /\ Idle(g)
  /\ pc' = [pc EXCEPT ![g] = Ending(g)]
  /\ UNCHANGED <<program, word, call, inGroup, ghosts, outcome>>

\* Mutant: Done is called after the block, not deferred.
BlockRaisesPastDone(g) ==
  /\ g # Main /\ Idle(g)
  /\ pc' = [pc EXCEPT ![g] = "dead"]
  /\ UNCHANGED <<program, word, call, inGroup, ghosts, outcome>>

\* The block of a goroutine raises: recover() drops the error.
BlockRaises(g) ==
  /\ g # Main /\ Idle(g)
  /\ pc' = [pc EXCEPT ![g] = Ending(g)]
  /\ UNCHANGED <<program, word, call, inGroup, ghosts, outcome>>

\* Mutant: Done is called twice, by the block's end and deferred.
DeferredDoneTwice(g) ==
  /\ pc[g] = "ending"
  /\ AddTo(g, -2, "done")
  /\ UNCHANGED <<program, inGroup, before, missed, added, balance, overdone>>

\* The deferred Done.
DeferredDone(g) ==
  /\ pc[g] = "ending"
  /\ AddTo(g, -1, "done")
  /\ UNCHANGED <<program, inGroup, before, missed, added, balance, overdone>>

MainEnds ==
  /\ Idle(Main)
  /\ pc' = [pc EXCEPT ![Main] = "dead"]
  /\ outcome' = "ended"
  /\ UNCHANGED <<program, word, call, inGroup, ghosts>>

-----------------------------------------------------------------------------
Init ==
  /\ program \in {"any", "calm"}
  /\ count = 0 /\ waiters = 0 /\ sema = 0 /\ inGroup = {} /\ missed = {}
  /\ added = 0 /\ balance = 0 /\ overdone = FALSE /\ late = FALSE
  /\ pc = [t \in Threads |-> IF t = Main THEN "idle" ELSE "none"]
  /\ call = [t \in Threads |-> NoCall]
  /\ before = [t \in Threads |-> {}]
  /\ outcome = "running"

Step(t) ==
  \/ Add(t, 1) \/ Add(t, 2) \/ Add(t, -1) \/ Wait(t) \/ Return(t)
  \/ Go(t) \/ Spawn(t) \/ GoPlain(t) \/ BlockEnds(t) \/ BlockRaises(t)
  \/ DeferredDone(t) \/ Check(t) \/ Release(t) \/ Acquire(t)

Next == outcome = "running" /\ (MainEnds \/ \E t \in Threads : Step(t))

Spec == Init /\ [][Next]_vars

\* Go runs every goroutine that can run; and the blocks of goroutines end, one
\* way or the other.
FairSpec ==
  /\ Spec
  /\ \A t \in Threads :
       /\ WF_vars(outcome = "running" /\ (\/ Return(t) \/ Spawn(t) \/ DeferredDone(t)
                                         \/ Check(t) \/ Release(t) \/ Acquire(t)))
       /\ WF_vars(outcome = "running" /\ (BlockEnds(t) \/ BlockRaises(t)))

-----------------------------------------------------------------------------
(* Properties.                                                             *)

Steps == {"none", "idle", "waiting", "woken", "spawn", "ending", "dead",
          "checking", "resetting"}

\* Every variable keeps the shape the code gives it.
TypeOK ==
  /\ program \in {"any", "calm"}
  /\ count \in Int /\ waiters \in Nat /\ sema \in Nat
  /\ balance \in Int /\ added \in 0..MaxAdds
  /\ pc \in [Threads -> Steps]
  /\ call \in [Threads -> [by : {"none", "add", "go", "done"}, seen : Nat]]
  /\ inGroup \subseteq Goroutines /\ missed \subseteq Goroutines
  /\ before \in [Threads -> SUBSET Goroutines]
  /\ overdone \in BOOLEAN /\ late \in BOOLEAN
  /\ outcome \in {"running", "ended", "crashed"}

\* wait returns only when every goroutine that wg.go had started when it was
\* called has ended, also the ones whose block raised: unless the program
\* called done more often than it added, or added while waiters of a counter
\* that is zero had yet to be released.
WaitJoins == overdone \/ late \/ missed = {}

\* Nothing else ends the process: only then does the deferred Done of some
\* goroutine panic, for a counter below zero or a word that has changed
\* (waitgroup.go:96), which comes after the recover.
CrashNeedsMisuse == outcome = "crashed" => overdone \/ late

\* In a calm program a wait for goroutines ends when their blocks have returned
\* or raised, unless the group is used again too early.
WaitReturns ==
  \A t \in Threads :
    program = "calm" /\ pc[t] = "waiting"
      ~> pc[t] \notin {"waiting", "woken"} \/ outcome # "running" \/ late
=============================================================================
