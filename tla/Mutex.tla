-------------------------------- MODULE Mutex --------------------------------
(* What a lock promises: at most one thread at a time is between having      *)
(* taken the lock and giving it back.                                        *)
CONSTANT Threads

VARIABLE inside   \* the threads between taking the lock and giving it back

Init == inside = {}

Enter(t) == inside = {} /\ inside' = {t}
Leave(t) == t \in inside /\ inside' = inside \ {t}

Next == \E t \in Threads : Enter(t) \/ Leave(t)

Spec == Init /\ [][Next]_inside
=============================================================================
