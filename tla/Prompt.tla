------------------------------- MODULE Prompt -------------------------------
(***************************************************************************)
(* What the REPL promises about the lines typed at it.  A line is held with *)
(* the ones before it, or passed over; the lines held are run together, in  *)
(* the order they were typed, or dropped together.  No line is run twice,   *)
(* and none is run after it was dropped.                                    *)
(***************************************************************************)
EXTENDS Integers, Sequences

VARIABLES typed,  \* the number of lines typed
          held,   \* the lines held, by their numbers
          ran     \* the lines run so far, in the order they were run

promptVars == <<typed, held, ran>>

Init ==
  /\ typed = 0
  /\ held = <<>>
  /\ ran = <<>>

Hold ==
  /\ typed' = typed + 1
  /\ held' = Append(held, typed + 1)
  /\ UNCHANGED ran

PassOver ==
  /\ typed' = typed + 1
  /\ UNCHANGED <<held, ran>>

\* The lines are dropped on their own account, or because of what is typed.
Drop ==
  /\ held' = <<>>
  /\ typed' \in {typed, typed + 1}
  /\ UNCHANGED ran

Run ==
  /\ held # <<>>
  /\ ran' = ran \o held
  /\ held' = <<>>
  /\ UNCHANGED typed

Next == Hold \/ PassOver \/ Drop \/ Run

Spec == Init /\ [][Next]_promptVars

\* Each line is run at most once and the lines are run in the order they were
\* typed; a line that is held comes after all that were run.
InOrder ==
  LET lines == ran \o held
  IN /\ \A i \in 1..Len(lines) : lines[i] \in 1..typed
     /\ \A i, j \in 1..Len(lines) : i < j => lines[i] < lines[j]

=============================================================================
