------------------------------- MODULE Selection -------------------------------
(***************************************************************************)
(* The choice of a credential in WebCookiePool::pick (web_pool.rs): one    *)
(* pass over the credentials in pool order, the best healthy one, or else  *)
(* the best of the fallback pool.  A credential is given by its position;  *)
(* health is a fraction of One.                                            *)
(***************************************************************************)
EXTENDS Integers, Sequences

CONSTANT One  \* health 1.0

ASSUME OneAssumption == One \in Int /\ One >= 1000

Tolerance == One \div 1000         \* 0.001
LowHealth == (3 * One) \div 10     \* 0.3
NoOne     == 0                     \* no position in the pool

Near(a, b) == a.score - b.score <= Tolerance /\ b.score - a.score <= Tolerance

(* Mutant of Better: the tolerance is forgotten and ties keep the first. *)
BetterByScoreOnly(a, b) == a.score > b.score

(* Mutant of Better: the age decides before the health. *)
BetterByAgeOnly(a, b) == a.last < b.last

Better(a, b) ==
    \/ a.score > b.score + Tolerance
    \/ Near(a, b) /\ a.last < b.last

(* What the loop makes of the credential at i, when best was the best so far. *)
Leader(cands, group, best, i) ==
    IF i \in group /\ (best = NoOne \/ Better(cands[i], cands[best])) THEN i ELSE best

(* The best of a group: where the loop leaves best, or fallback. *)
Winner(cands, group) ==
    LET best[i \in 0..Len(cands)] ==
            IF i = 0 THEN NoOne ELSE Leader(cands, group, best[i - 1], i)
    IN  best[Len(cands)]

Usable(cands)  == {i \in DOMAIN cands : ~cands[i].cooling}
Healthy(cands) == {i \in Usable(cands) : cands[i].score >= LowHealth}

(* Mutant of Pick: no fallback pool (the defect its comment remembers). *)
PickHealthyOnly(cands) == Winner(cands, Healthy(cands))

(* Fallback candidates compete only when no healthy one is usable. *)
Pick(cands) ==
    LET best     == Winner(cands, Healthy(cands))
        fallback == Winner(cands, Usable(cands) \ Healthy(cands))
    IN  IF best # NoOne THEN best ELSE fallback
===============================================================================
