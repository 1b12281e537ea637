-------------------------------- MODULE FSM --------------------------------
(***************************************************************************)
(* The state machine (fsm/fsm.go) that the lexer, the parser and the REPL   *)
(* each keep one of: a current state and a table of transitions.            *)
(***************************************************************************)

\* The state after State(s): a transition that is not in the table is
\* ignored, without a word.
Goto(transitions, current, s) ==
  IF <<current, s>> \in transitions THEN s ELSE current

=============================================================================
