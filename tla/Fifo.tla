-------------------------------- MODULE Fifo --------------------------------
(* What a channel promises: values come out in the order in which they went  *)
(* in, each of them once, and none goes in after it is closed.               *)
EXTENDS Sequences

CONSTANT Values

VARIABLES
  queue,    \* values that went in and have not come out
  taken,    \* values that came out, in order
  closed

vars == <<queue, taken, closed>>

Init == queue = <<>> /\ taken = <<>> /\ closed = FALSE

Put(v) ==
  /\ ~closed
  /\ queue' = Append(queue, v)
  /\ UNCHANGED <<taken, closed>>

Take ==
  /\ queue # <<>>
  /\ queue' = Tail(queue)
  /\ taken' = Append(taken, Head(queue))
  /\ UNCHANGED closed

\* A value goes straight to a thread that waits for it.
Pass(v) ==
  /\ ~closed /\ queue = <<>>
  /\ taken' = Append(taken, v)
  /\ UNCHANGED <<queue, closed>>

Close ==
  /\ ~closed
  /\ closed' = TRUE
  /\ UNCHANGED <<queue, taken>>

Next == Take \/ Close \/ \E v \in Values : Put(v) \/ Pass(v)

Spec == Init /\ [][Next]_vars
=============================================================================
