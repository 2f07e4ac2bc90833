---------------------------- MODULE SelectionProofs ----------------------------
(***************************************************************************)
(* What the pass of WebCookiePool::pick over the pool leaves in best or    *)
(* fallback, for pools of any length and any healths: induction over the   *)
(* pass, by the set of the positions up to which a statement holds.        *)
(***************************************************************************)
EXTENDS Selection, SequenceTheorems, WellFoundedInduction, TLAPS

Candidate == [score : Int, last : Int, cooling : BOOLEAN]

-------------------------------------------------------------------------------
(* A set of numbers has a least one. *)
LEMMA Least ==
    ASSUME NEW T, T \subseteq Nat, T # {}
    PROVE  \E m \in T : \A n \in T : m <= n
<1> DEFINE R == OpToRel(<, Nat)
<1>1. \E m \in T : \A n \in T : ~ (<<n, m>> \in R)
  <2> HIDE DEF R
  <2>1. IsWellFoundedOn(R, Nat)
    BY NatLessThanWellFounded DEF R
  <2> QED BY <2>1, WFMin
<1>2. PICK m \in T : \A n \in T : ~ (<<n, m>> \in R)
  BY <1>1
<1>3. ASSUME NEW n \in T PROVE m <= n
  <2>1. m \in Nat /\ n \in Nat /\ ~ (<<n, m>> \in R)
    BY <1>2
  <2>2. ~ (n < m)
    BY <2>1 DEF OpToRel
  <2> HIDE DEF R
  <2> QED BY <2>1, <2>2
<1> QED BY <1>3

(* A set that holds 0 and, up to n, the successor of what it holds, holds all *)
(* numbers up to n.                                                          *)
LEMMA Counting ==
    ASSUME NEW S, NEW n \in Nat, 0 \in S, \A i \in 1..n : i - 1 \in S => i \in S
    PROVE  0..n \subseteq S
<1> DEFINE T == {i \in 0..n : i \notin S}
<1> SUFFICES ASSUME T # {} PROVE FALSE
  OBVIOUS
<1>1. PICK m \in T : \A i \in T : m <= i
  <2>1. T \subseteq Nat
    OBVIOUS
  <2> HIDE DEF T
  <2> QED BY <2>1, Least
<1>2. m \in 1..n /\ m - 1 \in 0..n /\ m - 1 \notin T
  BY <1>1
<1> QED BY <1>1, <1>2

-------------------------------------------------------------------------------
(* best is what the loop has after each credential up to n. *)
Pass(best, cands, group, n) ==
    best = [i \in 0..n |-> IF i = 0 THEN NoOne ELSE Leader(cands, group, best[i - 1], i)]

(* The pass can be made, however long the pool. *)
LEMMA PassExists ==
    ASSUME NEW cands, NEW group, NEW n \in Nat
    PROVE  \E best : Pass(best, cands, group, n)
<1> DEFINE S == {k \in Nat : \E best : Pass(best, cands, group, k)}
<1>1. 0 \in S
  <2> DEFINE b == [i \in 0..0 |-> NoOne]
  <2>1. b = [i \in 0..0 |-> IF i = 0 THEN NoOne ELSE Leader(cands, group, b[i - 1], i)]
    OBVIOUS
  <2> HIDE DEF b
  <2> QED BY <2>1 DEF Pass
<1>2. ASSUME NEW k \in 1..n, k - 1 \in S PROVE k \in S
  <2>1. PICK a : Pass(a, cands, group, k - 1)
    BY <1>2
  <2> DEFINE b == [i \in 0..k |-> IF i = k THEN Leader(cands, group, a[k - 1], k) ELSE a[i]]
  <2>2. ASSUME NEW i \in 0..k
        PROVE  b[i] = IF i = 0 THEN NoOne ELSE Leader(cands, group, b[i - 1], i)
    <3>1. CASE i = k
      <4>1. b[i - 1] = a[k - 1]
        BY <3>1
      <4> QED BY <3>1, <4>1
    <3>2. CASE i # k
      <4>1. i \in 0..(k - 1) /\ b[i] = a[i]
        BY <3>2
      <4>2. a[i] = IF i = 0 THEN NoOne ELSE Leader(cands, group, a[i - 1], i)
        BY <2>1, <4>1 DEF Pass
      <4>3. i # 0 => b[i - 1] = a[i - 1]
        BY <3>2
      <4> QED BY <4>1, <4>2, <4>3
    <3> QED BY <3>1, <3>2
  <2>3. b = [i \in 0..k |-> IF i = 0 THEN NoOne ELSE Leader(cands, group, b[i - 1], i)]
    <3>1. b = [i \in 0..k |-> b[i]]
      OBVIOUS
    <3> HIDE DEF b
    <3> QED BY <2>2, <3>1
  <2> HIDE DEF b
  <2> QED BY <2>3 DEF Pass
<1>3. 0..n \subseteq S
  <2> HIDE DEF S
  <2> QED BY <1>1, <1>2, Counting
<1> QED BY <1>3

(* Winner is where the pass ends. *)
LEMMA WinnerIsLast ==
    ASSUME NEW cands, NEW group, Len(cands) \in Nat
    PROVE  \E best : /\ Pass(best, cands, group, Len(cands))
                     /\ Winner(cands, group) = best[Len(cands)]
<1> DEFINE best == CHOOSE best : best =
                     [i \in 0..Len(cands) |->
                        IF i = 0 THEN NoOne ELSE Leader(cands, group, best[i - 1], i)]
<1>1. Winner(cands, group) = best[Len(cands)]
  BY DEF Winner
<1>2. \E b : Pass(b, cands, group, Len(cands))
  BY PassExists
<1>3. Pass(best, cands, group, Len(cands))
  BY <1>2 DEF Pass
<1> QED BY <1>1, <1>3

LEMMA Numbers == Tolerance \in Nat /\ LowHealth \in Int /\ NoOne \notin Nat \ {0}
BY OneAssumption DEF Tolerance, LowHealth, NoOne

-------------------------------------------------------------------------------
(* Somebody wins exactly when somebody competes, and it is one who does. *)
LEMMA WinnerCompetes ==
    ASSUME NEW cands \in Seq(Candidate), NEW group \in SUBSET DOMAIN cands
    PROVE  /\ Winner(cands, group) \in group \cup {NoOne}
           /\ Winner(cands, group) = NoOne <=> group = {}
<1> DEFINE n == Len(cands)
<1>1. n \in Nat /\ DOMAIN cands = 1..n
  BY LenProperties
<1>2. PICK best : Pass(best, cands, group, n) /\ Winner(cands, group) = best[n]
  BY <1>1, WinnerIsLast
<1> DEFINE S == {i \in 0..n : /\ best[i] \in group \cup {NoOne}
                              /\ best[i] = NoOne => \A j \in group : j > i}
<1>3. 0 \in S
  <2>1. best[0] = NoOne
    BY <1>1, <1>2 DEF Pass
  <2> QED BY <1>1, <2>1
<1>4. ASSUME NEW i \in 1..n, i - 1 \in S PROVE i \in S
  <2>1. best[i] = Leader(cands, group, best[i - 1], i)
    BY <1>1, <1>2 DEF Pass
  <2>2. CASE best[i] = i /\ i \in group
    BY <1>1, <2>2, Numbers
  <2>3. CASE best[i] = best[i - 1] /\ (i \notin group \/ best[i - 1] # NoOne)
    BY <1>1, <1>4, <2>3
  <2> QED BY <2>1, <2>2, <2>3 DEF Leader
<1>5. n \in S
  <2> HIDE DEF S, n
  <2>1. 0..n \subseteq S
    BY <1>1, <1>3, <1>4, Counting
  <2> QED BY <1>1, <2>1
<1>6. group = {} \/ best[n] # NoOne
  BY <1>1, <1>5
<1>7. NoOne \notin group
  BY <1>1, Numbers
<1> QED BY <1>2, <1>5, <1>6, <1>7

(* The winner may be less healthy than another, by at most one tolerance per  *)
(* credential of the pool.                                                   *)
LEMMA WinnerIsNearlyBest ==
    ASSUME NEW cands \in Seq(Candidate), NEW group \in SUBSET DOMAIN cands,
           NEW j \in group
    PROVE  cands[j].score - cands[Winner(cands, group)].score <= Tolerance * Len(cands)
<1> DEFINE n == Len(cands)
<1>1. n \in Nat /\ DOMAIN cands = 1..n
      /\ \A i \in 1..n : cands[i] \in Candidate
  BY LenProperties, ElementOfSeq
<1>2. PICK best : Pass(best, cands, group, n) /\ Winner(cands, group) = best[n]
  BY <1>1, WinnerIsLast
<1> DEFINE S == {i \in 0..n : 
                   /\ best[i] \in group \cup {NoOne}
                   /\ j <= i => /\ best[i] # NoOne
                                /\ cands[j].score - cands[best[i]].score <= Tolerance * i}
<1>3. 0 \in S
  <2>1. best[0] = NoOne
    BY <1>1, <1>2 DEF Pass
  <2> QED BY <1>1, <2>1
<1>4. ASSUME NEW i \in 1..n, i - 1 \in S PROVE i \in S
  <2>1. best[i] = Leader(cands, group, best[i - 1], i)
    BY <1>1, <1>2 DEF Pass
  <2>2. /\ Tolerance * (i - 1) \in Nat /\ Tolerance * i \in Nat
        /\ Tolerance * i = Tolerance * (i - 1) + Tolerance
    <3>1. ASSUME NEW a \in Nat, NEW b \in Nat
          PROVE  a * b \in Nat /\ a * (b + 1) = a * b + a
      OBVIOUS
    <3>2. i - 1 \in Nat /\ i = (i - 1) + 1
      OBVIOUS
    <3> QED BY <3>1, <3>2, Numbers
  <2> DEFINE before == Tolerance * (i - 1)
             after  == Tolerance * i
  <2>3. /\ before \in Nat /\ after \in Nat /\ after = before + Tolerance
        /\ best[i - 1] \in group \cup {NoOne}
        /\ j <= i - 1 => /\ best[i - 1] # NoOne
                         /\ cands[j].score - cands[best[i - 1]].score <= before
    BY <1>4, <2>2
  <2> HIDE DEF before, after
  <2>4. ASSUME NEW k \in group PROVE k \in 1..n /\ cands[k].score \in Int
    BY <1>1 DEF Candidate
  <2>5. CASE best[i] = i /\ i \in group
             /\ (best[i - 1] = NoOne \/ Better(cands[i], cands[best[i - 1]]))
    <3>1. CASE j = i
      BY <2>3, <2>4, <2>5, <3>1, Numbers DEF after
    <3>2. CASE j <= i - 1
      <4>1. best[i - 1] \in group /\ Better(cands[i], cands[best[i - 1]])
        BY <2>3, <2>5, <3>2
      <4>2. cands[i].score >= cands[best[i - 1]].score - Tolerance
        BY <2>4, <2>5, <4>1, Numbers DEF Better, Near
      <4>3. cands[j].score - cands[i].score <= after
        <5>1. cands[j].score - cands[best[i - 1]].score <= before
          BY <2>3, <3>2, <4>1
        <5>2. /\ cands[j].score \in Int /\ cands[i].score \in Int
              /\ cands[best[i - 1]].score \in Int
          BY <2>4, <2>5, <4>1
        <5>3. \A x, y, z, t, u \in Int :
                 x - y <= u /\ z >= y - t => x - z <= u + t
          OBVIOUS
        <5> QED BY <2>3, <4>2, <5>1, <5>2, <5>3, Numbers
      <4> QED BY <1>1, <2>5, <4>3, Numbers DEF after
    <3>3. CASE j > i
      BY <2>4, <2>5, <3>3
    <3> QED BY <2>4, <3>1, <3>2, <3>3
  <2>6. CASE best[i] = best[i - 1]
             /\ (i \notin group
                 \/ (best[i - 1] # NoOne /\ ~Better(cands[i], cands[best[i - 1]])))
    <3>1. CASE j = i
      <4>1. cands[j].score - cands[best[i]].score <= after
        BY <2>3, <2>4, <2>6, <3>1, Numbers DEF Better
      <4> QED BY <2>3, <2>6, <3>1, <4>1 DEF after
    <3>2. CASE j <= i - 1
      <4>1. cands[j].score - cands[best[i]].score <= after
        BY <2>3, <2>4, <2>6, <3>2, Numbers
      <4> QED BY <2>3, <2>6, <3>2, <4>1 DEF after
    <3>3. CASE j > i
      BY <2>3, <2>4, <2>6, <3>3
    <3> QED BY <2>4, <3>1, <3>2, <3>3
  <2> QED BY <2>1, <2>5, <2>6 DEF Leader
<1>5. n \in S
  <2> HIDE DEF S, n
  <2>1. 0..n \subseteq S
    BY <1>1, <1>3, <1>4, Counting
  <2> QED BY <1>1, <2>1
<1>6. j <= n
  BY <1>1
<1> QED BY <1>2, <1>5, <1>6

(* Of a part of the group whose members are near each other and near no other *)
(* the longest unused wins, if one of that part wins.                        *)
LEMMA WinnerIsLongestUnused ==
    ASSUME NEW cands \in Seq(Candidate), NEW group \in SUBSET DOMAIN cands,
           NEW part \in SUBSET group,
           \A i \in part, j \in group : Near(cands[i], cands[j]) <=> j \in part,
           Winner(cands, group) \in part, NEW c \in part
    PROVE  cands[Winner(cands, group)].last <= cands[c].last
<1> DEFINE n == Len(cands)
           Ahead(k, i) == \/ k \in part /\ cands[k].last <= cands[i].last
                          \/ cands[k].score > cands[i].score + Tolerance
<1>1. n \in Nat /\ DOMAIN cands = 1..n
      /\ \A i \in 1..n : cands[i] \in Candidate
  BY LenProperties, ElementOfSeq
<1>2. PICK best : Pass(best, cands, group, n) /\ Winner(cands, group) = best[n]
  BY <1>1, WinnerIsLast
<1>3. ASSUME NEW k \in group
      PROVE  k \in 1..n /\ cands[k].score \in Int /\ cands[k].last \in Int
  BY <1>1 DEF Candidate
(* Whoever leads after c is ahead of c: as long as that is so, nobody who is  *)
(* not ahead of c beats the leader.                                          *)
<1>4. ASSUME NEW k \in group, NEW i \in group, Ahead(k, c), Better(cands[i], cands[k])
      PROVE  Ahead(i, c)
  <2>1. CASE k \in part /\ cands[k].last <= cands[c].last
    <3>1. CASE Near(cands[i], cands[k])
      <4>1. Near(cands[k], cands[i]) /\ i \in part
        BY <2>1, <3>1 DEF Near
      <4>2. cands[i].last < cands[k].last
        BY <1>3, <1>4, <3>1, Numbers DEF Better, Near
      <4> QED BY <1>3, <2>1, <4>1, <4>2
    <3>2. CASE cands[i].score > cands[k].score + Tolerance
      <4>1. ~Near(cands[k], cands[i])
        BY <1>3, <3>2, Numbers DEF Near
      <4>2. i \notin part /\ ~Near(cands[c], cands[i]) /\ Near(cands[c], cands[k])
        BY <2>1, <4>1
      <4> QED BY <1>3, <3>2, <4>2, Numbers DEF Near
    <3> QED BY <1>4, <3>1, <3>2 DEF Better
  <2>2. CASE cands[k].score > cands[c].score + Tolerance
    <3>1. CASE cands[i].score > cands[k].score + Tolerance
      BY <1>3, <2>2, <3>1, Numbers
    <3>2. CASE Near(cands[i], cands[k])
      <4>1. k \notin part
        BY <1>3, <2>2, Numbers DEF Near
      <4>2. i \notin part /\ ~Near(cands[c], cands[i])
        BY <3>2, <4>1
      <4> QED BY <1>3, <2>2, <3>2, <4>2, Numbers DEF Near
    <3> QED BY <1>4, <3>1, <3>2 DEF Better
  <2> QED BY <1>4, <2>1, <2>2
<1>5. ASSUME NEW k \in group, ~Better(cands[c], cands[k])
      PROVE  Ahead(k, c)
  <2>1. CASE Near(cands[c], cands[k])
    BY <1>3, <1>5, <2>1 DEF Better
  <2>2. CASE ~Near(cands[c], cands[k])
    BY <1>3, <1>5, <2>2, Numbers DEF Better, Near
  <2> QED BY <2>1, <2>2
<1>6. Ahead(c, c)
  BY <1>3
<1> DEFINE S == {i \in 0..n : /\ best[i] \in group \cup {NoOne}
                              /\ c <= i => best[i] \in group /\ Ahead(best[i], c)}
<1>7. 0 \in S
  <2>1. best[0] = NoOne
    BY <1>1, <1>2 DEF Pass
  <2> QED BY <1>1, <2>1
<1>8. ASSUME NEW i \in 1..n, i - 1 \in S PROVE i \in S
  <2>1. best[i] = Leader(cands, group, best[i - 1], i)
    BY <1>1, <1>2 DEF Pass
  <2>2. /\ best[i - 1] \in group \cup {NoOne}
        /\ c <= i - 1 => best[i - 1] \in group /\ Ahead(best[i - 1], c)
    BY <1>8
  <2>3. NoOne \notin group /\ c \in 1..n
    BY <1>1, Numbers
  <2> HIDE DEF Ahead
  <2>4. CASE best[i] = i /\ i \in group
             /\ (best[i - 1] = NoOne \/ Better(cands[i], cands[best[i - 1]]))
    BY <1>4, <1>6, <2>2, <2>3, <2>4
  <2>5. CASE best[i] = best[i - 1]
             /\ (i \notin group
                 \/ (best[i - 1] # NoOne /\ ~Better(cands[i], cands[best[i - 1]])))
    BY <1>5, <2>2, <2>3, <2>5
  <2> QED BY <2>1, <2>4, <2>5 DEF Leader
<1>9. n \in S
  <2> HIDE DEF S, n
  <2>1. 0..n \subseteq S
    BY <1>1, <1>7, <1>8, Counting
  <2> QED BY <1>1, <2>1
<1>10. Ahead(best[n], c)
  BY <1>1, <1>9
<1>11. ~(cands[best[n]].score > cands[c].score + Tolerance)
  <2>1. Near(cands[c], cands[best[n]])
    BY <1>2
  <2> QED BY <1>2, <1>3, <2>1, Numbers DEF Near
<1> QED BY <1>2, <1>10, <1>11

-------------------------------------------------------------------------------
(* Those the choice is made from. *)
Contest(cands) == IF Healthy(cands) # {} THEN Healthy(cands) ELSE Usable(cands)

(* best and fallback come to one pass over the right group. *)
LEMMA PickWins ==
    ASSUME NEW cands \in Seq(Candidate)
    PROVE  /\ Contest(cands) \in SUBSET DOMAIN cands
           /\ Contest(cands) = {} <=> Usable(cands) = {}
           /\ Pick(cands) = Winner(cands, Contest(cands))
<1>1. Usable(cands) \in SUBSET DOMAIN cands /\ Healthy(cands) \in SUBSET Usable(cands)
  BY DEF Usable, Healthy
<1>2. CASE Healthy(cands) # {}
  <2>1. Winner(cands, Healthy(cands)) # NoOne
    BY <1>1, <1>2, WinnerCompetes
  <2> QED BY <1>1, <1>2, <2>1 DEF Pick, Contest
<1>3. CASE Healthy(cands) = {}
  <2>1. Winner(cands, Healthy(cands)) = NoOne
    BY <1>1, <1>3, WinnerCompetes
  <2>2. Usable(cands) \ Healthy(cands) = Usable(cands)
    BY <1>3
  <2> QED BY <1>1, <1>3, <2>1, <2>2 DEF Pick, Contest
<1> QED BY <1>2, <1>3
===============================================================================
