------------------------------- MODULE MCLock -------------------------------
(* Lock for TLC: the cfg files give the threads.                             *)
EXTENDS Lock
=============================================================================
