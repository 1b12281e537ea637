----------------------------- MODULE MCClasses -----------------------------
EXTENDS Classes, TLC

CONSTANTS A, B, M
Symmetry == Permutations({A, B})
=============================================================================
