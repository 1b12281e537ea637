-------------------------------- MODULE Lock --------------------------------
(***************************************************************************)
(* The Lock class (vm/lock.go) used by several interpreter threads at      *)
(* once.  A LockObject is a Go mutex and a plain boolean `locked`; lock    *)
(* and unlock touch them one after the other, so every access is a step.   *)
(*                                                                         *)
(* The program is one of three: with "any" a thread calls anything at any  *)
(* time; with "owner" it unlocks only what it locked and never locks       *)
(* twice; with "calm" moreover the blocks it passes to lock do not raise.  *)
(***************************************************************************)
EXTENDS Integers

CONSTANTS
  Threads,
  None,     \* not a thread
  MaxNest   \* bound: calls of lock with a block that one thread nests

ASSUME LockAssumption ==
  /\ None \notin Threads
  /\ MaxNest \in Nat \ {0}

VARIABLES
  program,  \* what the threads' programs do: "any", "owner" or "calm"
  mutex,    \* the Go mutex is taken
  locked,   \* the field LockObject.locked
  pc,       \* the step each thread is at; "idle" is Lito code
  block,    \* the call of lock in progress was given a block
  open,     \* calls of lock whose block is running, per thread
  owner,    \* ghost: the thread that took the mutex last, until it is freed
  inside,   \* ghost: threads to which lock returned, or yielded, the lock
  crashed   \* the Go runtime stopped the process

vars == <<program, mutex, locked, pc, block, open, owner, inside, crashed>>

Goto(t, step) == pc' = [pc EXCEPT ![t] = step]
Idle(t) == pc[t] = "idle"

\* What the program is allowed to call.
MayLock(t) == program # "any" => owner # t
MayUnlock(t) == program # "any" => owner = t /\ open[t] = 0

-----------------------------------------------------------------------------
(* lock                                                                    *)

Lock(t) ==
  /\ Idle(t) /\ MayLock(t)
  /\ Goto(t, "acquire")
  /\ \E b \in BOOLEAN :
       (b => open[t] < MaxNest) /\ block' = [block EXCEPT ![t] = b]
  /\ UNCHANGED <<program, mutex, locked, open, owner, inside, crashed>>

\* Mutant: the flag, not the mutex, is waited for.
AcquireByFlag(t) ==
  /\ pc[t] = "acquire" /\ ~locked
  /\ mutex' = TRUE /\ owner' = t
  /\ Goto(t, "mark")
  /\ UNCHANGED <<program, locked, block, open, inside, crashed>>

\* mutex.Lock() blocks until the mutex is free.
Acquire(t) ==
  /\ pc[t] = "acquire" /\ ~mutex
  /\ mutex' = TRUE /\ owner' = t
  /\ Goto(t, "mark")
  /\ UNCHANGED <<program, locked, block, open, inside, crashed>>

\* Mutant: only a plain lock sets the flag.
MarkPlain(t) ==
  /\ pc[t] = "mark"
  /\ locked' = (locked \/ ~block[t])
  /\ Goto(t, "idle")
  /\ open' = [open EXCEPT ![t] = IF block[t] THEN @ + 1 ELSE @]
  /\ block' = [block EXCEPT ![t] = FALSE]
  /\ inside' = inside \cup {t}
  /\ UNCHANGED <<program, mutex, owner, crashed>>

\* locked = true; then lock returns or yields to its block.
Mark(t) ==
  /\ pc[t] = "mark"
  /\ locked' = TRUE
  /\ Goto(t, "idle")
  /\ open' = [open EXCEPT ![t] = IF block[t] THEN @ + 1 ELSE @]
  /\ block' = [block EXCEPT ![t] = FALSE]
  /\ inside' = inside \cup {t}
  /\ UNCHANGED <<program, mutex, owner, crashed>>

\* The block returns to lock, which goes on to unlock.
EndBlock(t) ==
  /\ Idle(t) /\ open[t] > 0
  /\ open' = [open EXCEPT ![t] = @ - 1]
  /\ inside' = inside \ {t}
  /\ Goto(t, "clear")
  /\ UNCHANGED <<program, mutex, locked, block, owner, crashed>>

\* Mutant: the error unwinds one call too many.
UnwindPast(t, n) ==
  /\ open' = [open EXCEPT ![t] = n - 1]
  /\ inside' = IF n = 0 THEN inside \ {t} ELSE inside

\* An error unwinds the calls of lock down to a try; none of them unlocks.
Unwind(t, n) ==
  /\ open' = [open EXCEPT ![t] = n]
  /\ inside' = IF n = 0 THEN inside \ {t} ELSE inside

BlockRaises(t) ==
  /\ program # "calm" /\ Idle(t) /\ open[t] > 0
  /\ \E n \in 0..open[t]-1 : Unwind(t, n)
  /\ UNCHANGED <<program, mutex, locked, pc, block, owner, crashed>>

-----------------------------------------------------------------------------
(* unlock, and the tail it shares with lock                                *)

Unlock(t) ==
  /\ Idle(t) /\ MayUnlock(t) /\ locked
  /\ Goto(t, "clear")
  /\ inside' = inside \ {t}
  /\ UNCHANGED <<program, mutex, locked, block, open, owner, crashed>>

\* "Trying to unlock already unlocked lock"
UnlockRefused(t) ==
  /\ Idle(t) /\ MayUnlock(t) /\ ~locked
  /\ \E n \in 0..open[t] : Unwind(t, n)
  /\ UNCHANGED <<program, mutex, locked, pc, block, owner, crashed>>

\* Mutant: the call returns without unlocking the mutex.
ClearReturns(t) ==
  /\ pc[t] = "clear"
  /\ locked' = FALSE
  /\ Goto(t, "idle")
  /\ UNCHANGED <<program, mutex, block, open, owner, inside, crashed>>

Clear(t) ==
  /\ pc[t] = "clear"
  /\ locked' = FALSE
  /\ Goto(t, "release")
  /\ UNCHANGED <<program, mutex, block, open, owner, inside, crashed>>

\* mutex.Unlock(); Go kills a process that unlocks a free mutex.
Release(t) ==
  /\ pc[t] = "release"
  /\ crashed' = ~mutex
  /\ mutex' = FALSE /\ owner' = None
  /\ Goto(t, "idle")
  /\ UNCHANGED <<program, locked, block, open, inside>>

-----------------------------------------------------------------------------
Init ==
  /\ program \in {"any", "owner", "calm"}
  /\ mutex = FALSE /\ locked = FALSE /\ crashed = FALSE
  /\ pc = [t \in Threads |-> "idle"]
  /\ block = [t \in Threads |-> FALSE]
  /\ open = [t \in Threads |-> 0]
  /\ owner = None /\ inside = {}

Step(t) ==
  \/ Lock(t) \/ Acquire(t) \/ Mark(t) \/ EndBlock(t) \/ BlockRaises(t)
  \/ Unlock(t) \/ UnlockRefused(t) \/ Clear(t) \/ Release(t)

Next == ~crashed /\ \E t \in Threads : Step(t)

Spec == Init /\ [][Next]_vars

\* Go runs every goroutine that can run; its mutex hands over to a waiter
\* that starves; and the programs end their blocks and unlock what they lock.
Fairness ==
  \A t \in Threads :
    /\ WF_vars(~crashed /\ (Mark(t) \/ Clear(t) \/ Release(t)))
    /\ WF_vars(~crashed /\ (EndBlock(t) \/ Unlock(t)))
    /\ SF_vars(~crashed /\ Acquire(t))

FairSpec == Spec /\ Fairness

-----------------------------------------------------------------------------
(* Properties.                                                             *)

\* Every variable keeps the shape the code gives it.
TypeOK ==
  /\ program \in {"any", "owner", "calm"}
  /\ mutex \in BOOLEAN /\ locked \in BOOLEAN /\ crashed \in BOOLEAN
  /\ pc \in [Threads -> {"idle", "acquire", "mark", "clear", "release"}]
  /\ block \in [Threads -> BOOLEAN]
  /\ open \in [Threads -> 0..MaxNest]
  /\ owner \in Threads \cup {None}
  /\ inside \subseteq Threads

\* When threads unlock only what they hold: between lock and unlock, or
\* inside the block, a thread is alone, although the flag and the mutex change
\* in separate steps.
Abstract == INSTANCE Mutex
  WITH inside <- IF program = "any" THEN {} ELSE inside
Excludes == Abstract!Spec

\* The thread that holds the lock always finds it locked when it runs Lito
\* code, so its unlock is never refused, even after its block raised.
OwnerCanUnlock ==
  program # "any" =>
    \A t \in Threads : owner = t /\ Idle(t) => locked /\ mutex

\* An unlock by the thread that holds the lock never stops the process.
OwnersNeverCrash == program # "any" => ~crashed

\* Whatever threads call, a taken lock on which no call is in progress is
\* marked as locked, so that an unlock can free it: a race of unlocks may
\* free a lock too early, it never leaves it taken for good.
NeverStuck ==
  mutex /\ (\A t \in Threads : pc[t] \in {"idle", "acquire"}) => locked

\* A thread that waits for the lock gets it, in programs whose blocks end and
\* whose holders unlock.
Acquires ==
  \A t \in Threads :
    program = "calm" /\ pc[t] = "acquire" ~> t \in inside

-----------------------------------------------------------------------------
(* What the code's error message says and the code does not do.            *)

\* unlock never stops the process: unlocking an unlocked lock is an error the
\* program can catch ("Trying to unlock already unlocked lock").
UnlockReported == ~crashed
=============================================================================
