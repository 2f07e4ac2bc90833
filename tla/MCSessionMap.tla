----------------------------- MODULE MCSessionMap -----------------------------
(* The session map on small instances.  Keys, models and tasks are model     *)
(* values and the specification treats the members of each set alike.        *)
EXTENDS SessionMap, TLC

Symmetry ==
    Permutations(Keys) \cup Permutations(Models) \cup Permutations(Tasks)

(* When SplitKeys tells the keys apart. *)
SplitSymmetry == Permutations(Models) \cup Permutations(Tasks)
===============================================================================
