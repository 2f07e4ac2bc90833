----------------------------- MODULE MCTokenStore -----------------------------
(* The credential store on small instances.                                  *)
EXTENDS TokenStore, TLC

Symmetry == Permutations(Ids) \cup Permutations(Workers)
===============================================================================
