--------------------------- MODULE MCCredentialPool ---------------------------
(* The pool on small instances.  Tasks are alike; ids are too, except for the *)
(* order in which they are added.                                            *)
EXTENDS CredentialPool, TLC

Symmetry == Permutations(Tasks) \cup Permutations(Ids)
===============================================================================
