---------------------------- MODULE MCWaitGroup ----------------------------
(* WaitGroup for TLC: the cfg file gives the goroutines.                     *)
EXTENDS WaitGroup
=============================================================================
