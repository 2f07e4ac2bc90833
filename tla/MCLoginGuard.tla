----------------------------- MODULE MCLoginGuard -----------------------------
EXTENDS LoginGuard, TLC

CONSTANTS t1, t2

Symmetry == Permutations(Tasks)
===============================================================================
