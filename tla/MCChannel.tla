----------------------------- MODULE MCChannel -----------------------------
(* Channel for TLC: the cfg files give the threads.                          *)
EXTENDS Channel
=============================================================================
