--------------------------- MODULE AlgorithmsProofs ---------------------------
(***************************************************************************)
(* Proofs about the pure parts: for pools, catalogues and cookies of any   *)
(* length, any healths, times of use and free windows.                     *)
(***************************************************************************)
EXTENDS Algorithms, SelectionProofs, FiniteSetTheorems

-------------------------------------------------------------------------------
(* The pool only holds candidates. *)
PoolInv == pool \in Seq(Candidate)

LEMMA PoolHolds == Spec => []PoolInv
<1>1. Init => PoolInv
  BY DEF Init, PoolInv
<1>2. PoolInv /\ [Next]_vars => PoolInv'
  <2> SUFFICES ASSUME PoolInv, [Next]_vars PROVE PoolInv'
    OBVIOUS
  <2>1. CASE Grow
    <3>1. PICK s \in Scores, l \in Lasts, c \in BOOLEAN :
             pool' = Append(pool, [score |-> s, last |-> l, cooling |-> c])
      BY <2>1 DEF Grow
    <3>2. [score |-> s, last |-> l, cooling |-> c] \in Candidate
      BY AlgorithmsAssumption DEF Candidate
    <3> QED BY <3>1, <3>2, AppendProperties DEF PoolInv
  <2>2. CASE pool' = pool
    BY <2>2 DEF PoolInv
  <2> QED BY <2>1, <2>2 DEF Next, Ask, SetCookie, Paste, vars
<1> QED BY <1>1, <1>2, PTL DEF Spec

LEMMA ChosenWins ==
    ASSUME PoolInv
    PROVE  /\ Group \in SUBSET DOMAIN pool
           /\ Chosen = Winner(pool, Group)
           /\ Chosen \in Group \cup {NoOne}
           /\ Chosen = NoOne <=> Group = {}
<1>1. Group = Contest(pool)
  BY DEF Group, Fit, Warm, Contest, Healthy, Usable
<1>2. pool \in Seq(Candidate)
  BY DEF PoolInv
<1>3. Group \in SUBSET DOMAIN pool /\ Chosen = Winner(pool, Group)
  BY <1>1, <1>2, PickWins DEF Chosen
<1> QED BY <1>2, <1>3, WinnerCompetes

(* pick finds a credential exactly when one is not cooling, and a healthy one *)
(* when there is one, in pools of any length (web_pool.rs, the fallback pool). *)
THEOREM RightGroup == Spec => []PickFromTheRightGroup
<1>1. PoolInv => PickFromTheRightGroup
  BY ChosenWins DEF PickFromTheRightGroup
<1> QED BY <1>1, PoolHolds, PTL

(* The intransitive tolerance costs at most one tolerance per credential      *)
(* (web_pool.rs, better).                                                    *)
THEOREM NearlyBest == Spec => []NearlyTheHealthiest
<1>1. PoolInv => NearlyTheHealthiest
  BY ChosenWins, WinnerIsNearlyBest DEF NearlyTheHealthiest, PoolInv
<1> QED BY <1>1, PoolHolds, PTL

(* Equals take turns: of credentials that are of the same health, and of no   *)
(* other's, the one used longest ago is chosen (web_pool.rs:124).            *)
THEOREM LongestUnused == Spec => []LongestUnusedOfEquals
<1>1. ASSUME PoolInv PROVE LongestUnusedOfEquals
  <2> DEFINE close == {i \in Group : Near(pool[Chosen], pool[i])}
  <2> SUFFICES ASSUME \A i \in close, j \in Group : Near(pool[i], pool[j]) <=> j \in close,
                      NEW i \in close
               PROVE  pool[Chosen].last <= pool[i].last
    BY Zenon DEF LongestUnusedOfEquals
  <2>1. Chosen \in Group
    BY <1>1, ChosenWins
  <2>2. Near(pool[Chosen], pool[Chosen])
    <3>1. pool[Chosen] \in Candidate
      BY <1>1, <2>1, ChosenWins, ElementOfSeq DEF PoolInv
    <3>2. pool[Chosen].score \in Int
      BY <3>1 DEF Candidate
    <3> QED BY <3>2, Numbers DEF Near
  <2>3. Chosen \in close /\ close \in SUBSET Group
    BY <2>1, <2>2
  <2> HIDE DEF close
  <2> QED BY <1>1, <2>3, ChosenWins, WinnerIsLongestUnused DEF PoolInv
<1> QED BY <1>1, PoolHolds, PTL

-------------------------------------------------------------------------------
(* Models *)

(* What is asked for is a name, or none. *)
AskedInv == asked.name \in Asked

LEMMA AskedHolds == Spec => []AskedInv
<1>1. Init => AskedInv
  BY DEF Init, AskedInv, NotAsked, Asked
<1>2. AskedInv /\ [Next]_vars => AskedInv'
  <2> SUFFICES ASSUME AskedInv, [Next]_vars PROVE AskedInv'
    OBVIOUS
  <2>1. CASE Ask
    BY <2>1 DEF Ask, AskedInv, Asked
  <2>2. CASE asked' = asked
    BY <2>2 DEF AskedInv, Asked
  <2> QED BY <2>1, <2>2 DEF Next, Grow, SetCookie, Paste, vars
<1> QED BY <1>1, <1>2, PTL DEF Spec

(* The first of a sequence in a set is that, with none of the set before it.  *)
LEMMA FirstInIs ==
    ASSUME NEW T, NEW seq \in Seq(T), NEW S, NEW else
    PROVE  \/ /\ FirstIn(seq, S, else) = else
              /\ \A i \in 1..Len(seq) : seq[i] \notin S
           \/ \E i \in 1..Len(seq) : /\ FirstIn(seq, S, else) = seq[i]
                                     /\ seq[i] \in S
                                     /\ \A j \in 1..(i - 1) : seq[j] \notin S
<1> DEFINE hits == {i \in DOMAIN seq : seq[i] \in S}
<1>1. Len(seq) \in Nat /\ DOMAIN seq = 1..Len(seq)
  BY LenProperties
<1>2. CASE hits = {}
  BY <1>1, <1>2 DEF FirstIn
<1>3. CASE hits # {}
  <2>1. \E m \in hits : \A i \in hits : m <= i
    <3>1. hits \subseteq Nat
      BY <1>1
    <3> HIDE DEF hits
    <3> QED BY <1>3, <3>1, Least
  <2>2. Min(hits) \in hits /\ \A i \in hits : Min(hits) <= i
    BY <2>1 DEF Min
  <2>3. FirstIn(seq, S, else) = seq[Min(hits)]
    BY <1>3 DEF FirstIn
  <2>4. PICK m : m = Min(hits)
    OBVIOUS
  <2>5. m \in 1..Len(seq) /\ seq[m] \in S /\ \A i \in hits : m <= i
    BY <1>1, <2>2, <2>4
  <2>6. \A j \in 1..(m - 1) : seq[j] \notin S
    BY <1>1, <2>5
  <2> QED BY <2>3, <2>4, <2>5, <2>6
<1> QED BY <1>2, <1>3

(* A function on the numbers up to n is a sequence. *)
LEMMA IsSequence ==
    ASSUME NEW T, NEW n \in Nat, NEW f \in [1..n -> T]
    PROVE  f \in Seq(T) /\ Len(f) = n
<1>1. f \in Seq(T)
  BY SeqDef
<1>2. Len(f) \in Nat /\ 1..Len(f) = 1..n
  BY <1>1, LenProperties
<1> QED BY <1>1, <1>2

(* A sequence with one more at its end, or its beginning. *)
LEMMA OneMore ==
    ASSUME NEW T, NEW q \in Seq(T), NEW x \in T
    PROVE  /\ q \o <<x>> \in Seq(T) /\ <<x>> \o q \in Seq(T)
           /\ Len(q \o <<x>>) = Len(q) + 1 /\ Len(<<x>> \o q) = Len(q) + 1
           /\ \A i \in 1..Len(q) : (q \o <<x>>)[i] = q[i] /\ (<<x>> \o q)[i + 1] = q[i]
           /\ (q \o <<x>>)[Len(q) + 1] = x /\ (<<x>> \o q)[1] = x
<1>1. <<x>> \in Seq(T) /\ Len(<<x>>) = 1 /\ <<x>>[1] = x
  OBVIOUS
<1> DEFINE one == <<x>>
<1> HIDE DEF one
<1>2. one \in Seq(T) /\ Len(one) = 1 /\ one[1] = x
  BY <1>1 DEF one
<1>3. Len(q) \in Nat
  BY LenProperties
<1>4. /\ q \o one \in Seq(T) /\ Len(q \o one) = Len(q) + 1
      /\ \A i \in 1..(Len(q) + 1) :
            (q \o one)[i] = IF i <= Len(q) THEN q[i] ELSE one[i - Len(q)]
  <2>1. /\ q \o one \in Seq(T) /\ Len(q \o one) = Len(q) + Len(one)
        /\ \A i \in 1..(Len(q) + Len(one)) :
              (q \o one)[i] = IF i <= Len(q) THEN q[i] ELSE one[i - Len(q)]
    BY <1>2, ConcatProperties
  <2> QED BY <1>2, <2>1
<1>5. /\ one \o q \in Seq(T) /\ Len(one \o q) = Len(q) + 1
      /\ \A i \in 1..(1 + Len(q)) : (one \o q)[i] = IF i <= 1 THEN one[i] ELSE q[i - 1]
  BY <1>2, <1>3, ConcatProperties
<1>6. \A i \in 1..Len(q) : (q \o one)[i] = q[i]
  BY <1>3, <1>4
<1>7. ASSUME NEW i \in 1..Len(q) PROVE (one \o q)[i + 1] = q[i]
  <2>1. i + 1 \in 1..(1 + Len(q)) /\ ~ (i + 1 <= 1) /\ (i + 1) - 1 = i
    BY <1>3
  <2> QED BY <1>5, <2>1
<1>8. (q \o one)[Len(q) + 1] = x
  <2>1. Len(q) + 1 \in 1..(Len(q) + 1) /\ ~ (Len(q) + 1 <= Len(q))
        /\ (Len(q) + 1) - Len(q) = 1
    BY <1>3
  <2> QED BY <1>2, <1>4, <2>1
<1>9. (one \o q)[1] = x
  <2>1. 1 \in 1..(1 + Len(q))
    BY <1>3
  <2> QED BY <1>2, <1>5, <2>1
<1> QED BY <1>4, <1>5, <1>6, <1>7, <1>8, <1>9 DEF one

(* The free models, in order, end with the default. *)
LEMMA FreeIdsAre ==
    /\ FreeIds \in Seq(Catalogue)
    /\ \A i \in 1..Len(FreeIds) : FreeIds[i].free
    /\ \A m \in ToSet(FreeIds) : m = DefaultModel \/ \E s : m = UpstreamId(s, TRUE)
    /\ \A s \in ToSet(FreeSurfaces) : UpstreamId(s, TRUE) \in Catalogue
    /\ DefaultModel \in Catalogue
<1> DEFINE n   == Len(FreeSurfaces)
           ids == [i \in 1..n |-> UpstreamId(FreeSurfaces[i], TRUE)]
           T   == {ids[i] : i \in 1..n} \cup {DefaultModel}
<1>1. n \in Nat /\ DOMAIN FreeSurfaces = 1..n
  BY RegistryAssumption, LenProperties
<1>2. FreeIds = ids \o <<DefaultModel>>
  BY <1>1 DEF FreeIds
<1>3. ids \in Seq(T) /\ Len(ids) = n
  <2>1. ids \in [1..n -> T]
    OBVIOUS
  <2> HIDE DEF ids, T, n
  <2> QED BY <1>1, <2>1, IsSequence
<1>4. /\ FreeIds \in Seq(T) /\ Len(FreeIds) = n + 1
      /\ \A i \in 1..n : FreeIds[i] = ids[i]
      /\ FreeIds[n + 1] = DefaultModel
  <2>1. DefaultModel \in T
    OBVIOUS
  <2> HIDE DEF ids, T, n
  <2> QED BY <1>2, <1>3, <2>1, OneMore
<1>5. \A i \in 1..n : ids[i] = UpstreamId(FreeSurfaces[i], TRUE)
  OBVIOUS
<1>6. T \subseteq ToSet(FreeIds)
  <2>1. DOMAIN FreeIds = 1..(n + 1)
    BY <1>4, LenProperties
  <2>2. n + 1 \in 1..(n + 1) /\ \A i \in 1..n : i \in 1..(n + 1)
    BY <1>1
  <2> HIDE DEF ids, n
  <2> QED BY <1>4, <2>1, <2>2 DEF ToSet
<1>7. FreeIds \in Seq(Catalogue) /\ T \subseteq Catalogue
  <2> HIDE DEF T
  <2>1. T \subseteq Catalogue
    BY <1>6 DEF Catalogue
  <2> QED BY <1>4, <2>1, SeqMonotonic
<1>8. ASSUME NEW i \in 1..Len(FreeIds) PROVE FreeIds[i].free
  <2>1. i \in 1..n \/ i = n + 1
    BY <1>1, <1>4
  <2>2. DefaultModel.free /\ \A s : UpstreamId(s, TRUE).free
    BY DEF UpstreamId, Name, DefaultModel
  <2> HIDE DEF ids, T, n
  <2> QED BY <1>4, <1>5, <2>1, <2>2
<1>9. ASSUME NEW s \in ToSet(FreeSurfaces) PROVE UpstreamId(s, TRUE) \in Catalogue
  <2>1. PICK i \in 1..n : s = FreeSurfaces[i]
    BY <1>1 DEF ToSet
  <2>2. ids[i] \in T
    OBVIOUS
  <2> HIDE DEF ids, T
  <2> QED BY <1>5, <1>7, <2>1, <2>2
<1>10. DefaultModel \in Catalogue
  BY <1>7
<1>11. ASSUME NEW m \in ToSet(FreeIds)
       PROVE  m = DefaultModel \/ \E s : m = UpstreamId(s, TRUE)
  <2>1. DOMAIN FreeIds = 1..(n + 1)
    BY <1>4, LenProperties
  <2>2. PICK i \in 1..(n + 1) : m = FreeIds[i]
    BY <2>1 DEF ToSet
  <2>3. i \in 1..n \/ i = n + 1
    BY <1>1
  <2> HIDE DEF ids, T, n
  <2> QED BY <1>4, <1>5, <2>2, <2>3
<1> QED BY <1>7, <1>8, <1>9, <1>10, <1>11

LEMMA MinAvailable ==
    ASSUME NEW now
    PROVE  Available(now) \subseteq Catalogue /\ DefaultModel \in Available(now)
<1>1. DefaultModel.surface \notin DOMAIN FreeUntil
  BY RegistryAssumption DEF DefaultModel, Name
<1> QED BY <1>1, FreeIdsAre DEF Available

(* What is served is the model meant, if it can be had, or else a free one.   *)
LEMMA ResolveIs ==
    ASSUME NEW name, NEW now
    PROVE  /\ Resolve(name, now) \in Available(now)
           /\ Resolve(name, now) = Normalize(name) \/ Resolve(name, now).free
<1> DEFINE meant == Normalize(name)
           T     == Catalogue \cup {meant}
           seq   == <<meant>> \o FreeIds
<1>1. Resolve(name, now) = FirstIn(seq, Available(now), DefaultModel)
  BY DEF Resolve
<1>2. /\ seq \in Seq(T) /\ Len(seq) = Len(FreeIds) + 1 /\ Len(FreeIds) \in Nat
      /\ seq[1] = meant /\ \A i \in 1..Len(FreeIds) : seq[i + 1] = FreeIds[i]
  <2>1. FreeIds \in Seq(T) /\ meant \in T
    BY FreeIdsAre, SeqMonotonic
  <2> HIDE DEF meant, T
  <2> QED BY <2>1, OneMore, LenProperties
<1>3. ASSUME NEW i \in 1..Len(seq) PROVE seq[i] = meant \/ seq[i].free
  <2>1. i = 1 \/ (i - 1 \in 1..Len(FreeIds) /\ i = (i - 1) + 1)
    BY <1>2
  <2> HIDE DEF meant, seq
  <2> QED BY <1>2, <2>1, FreeIdsAre
<1>4. DefaultModel.free
  BY DEF DefaultModel, Name
<1> HIDE DEF meant, seq, T
<1>5. CASE Resolve(name, now) = DefaultModel
  BY <1>4, <1>5, MinAvailable
<1>6. CASE \E i \in 1..Len(seq) :
             Resolve(name, now) = seq[i] /\ seq[i] \in Available(now)
  BY <1>3, <1>6 DEF meant
<1> QED BY <1>1, <1>2, <1>5, <1>6, FirstInIs

(* What is asked of the upstream is a model of the catalogue whose free       *)
(* window has not ended, for any catalogue, windows and times.               *)
THEOREM AlwaysServed == Spec => []ResolvedIsServed
<1>1. ResolvedIsServed
  BY ResolveIs DEF ResolvedIsServed, Served, Available
<1> QED BY <1>1, PTL

-------------------------------------------------------------------------------
(* The meaning of a name: itself, its free route or its paid one.            *)
LEMMA NormalizeIs ==
    ASSUME NEW name, name # NoName
    PROVE  \/ /\ Normalize(name) = name
              /\ \/ name.provider # NoProvider \/ name \in Catalogue
                 \/ UpstreamId(name.surface, TRUE) \notin Catalogue
           \/ /\ name.provider = NoProvider
              /\ name \notin Catalogue
              /\ \/ Normalize(name) = UpstreamId(name.surface, TRUE)
                 \/ /\ Normalize(name) = UpstreamId(name.surface, name.free)
                    /\ UpstreamId(name.surface, TRUE) \notin Catalogue
<1>1. Normalize(name) = FirstIn(Readings(name), Catalogue, name)
  BY DEF Normalize
<1>2. CASE name.provider # NoProvider
  <2>1. PICK seq : seq = <<name>>
    OBVIOUS
  <2>2. seq \in Seq({name}) /\ Len(seq) = 1 /\ seq[1] = name
    BY <2>1
  <2>3. Normalize(name) = FirstIn(seq, Catalogue, name)
    BY <1>1, <1>2, <2>1 DEF Readings
  <2>4. Normalize(name) = name \/ \E i \in 1..1 : Normalize(name) = seq[i]
    <3>1. \/ FirstIn(seq, Catalogue, name) = name
          \/ \E i \in 1..Len(seq) : FirstIn(seq, Catalogue, name) = seq[i]
      BY <2>2, FirstInIs
    <3> QED BY <2>2, <2>3, <3>1
  <2>5. Normalize(name) = name
    <3>1. \A i \in 1..1 : i = 1
      OBVIOUS
    <3> QED BY <2>2, <2>4, <3>1
  <2> QED BY <1>2, <2>5
<1>3. CASE name.provider = NoProvider
  <2> DEFINE free == UpstreamId(name.surface, TRUE)
             same == UpstreamId(name.surface, name.free)
  <2>1. PICK seq : seq = <<name, free, same>>
    OBVIOUS
  <2>2. Normalize(name) = FirstIn(seq, Catalogue, name)
    BY <1>1, <1>3, <2>1 DEF Readings
  <2> HIDE DEF free, same
  <2>3. /\ seq \in Seq({name, free, same}) /\ Len(seq) = 3
        /\ seq[1] = name /\ seq[2] = free /\ seq[3] = same
    BY <2>1
  <2>4. \/ Normalize(name) = name /\ free \notin Catalogue
        \/ \E i \in 1..3 : /\ Normalize(name) = seq[i] /\ seq[i] \in Catalogue
                           /\ \A j \in 1..(i - 1) : seq[j] \notin Catalogue
    <3>1. \/ /\ FirstIn(seq, Catalogue, name) = name
             /\ \A i \in 1..Len(seq) : seq[i] \notin Catalogue
          \/ \E i \in 1..Len(seq) : /\ FirstIn(seq, Catalogue, name) = seq[i]
                                    /\ seq[i] \in Catalogue
                                    /\ \A j \in 1..(i - 1) : seq[j] \notin Catalogue
      BY <2>3, FirstInIs
    <3>2. 2 \in 1..Len(seq) /\ 1..Len(seq) = 1..3
      BY <2>3
    <3> QED BY <2>2, <2>3, <3>1, <3>2
  <2>5. ASSUME NEW i \in 1..3, Normalize(name) = seq[i], seq[i] \in Catalogue,
               \A j \in 1..(i - 1) : seq[j] \notin Catalogue
        PROVE  \/ Normalize(name) = name /\ name \in Catalogue
               \/ name \notin Catalogue /\ Normalize(name) = free
               \/ name \notin Catalogue /\ Normalize(name) = same /\ free \notin Catalogue
    <3>1. CASE i = 1
      BY <2>3, <2>5, <3>1
    <3>2. CASE i = 2
      <4>1. seq[1] \notin Catalogue
        BY <2>5, <3>2
      <4> QED BY <2>3, <2>5, <3>2, <4>1
    <3>3. CASE i = 3
      <4>1. seq[1] \notin Catalogue /\ seq[2] \notin Catalogue
        BY <2>5, <3>3
      <4> QED BY <2>3, <2>5, <3>3, <4>1
    <3> QED BY <3>1, <3>2, <3>3
  <2> QED BY <1>3, <2>4, <2>5 DEF free, same
<1> QED BY <1>2, <1>3

(* A paid model is served only to a client that named it in full, or named    *)
(* the surface of one that has no free route (models.rs).                    *)
THEOREM NeverPaid == Spec => []NeverPaidUnasked
<1>1. ASSUME AskedInv PROVE NeverPaidUnasked
  <2> DEFINE name == asked.name
  <2> SUFFICES ASSUME ~Served.free
               PROVE  \/ name = Served
                      \/ /\ name = Name(NoProvider, Served.surface, FALSE)
                         /\ Served.surface \notin ToSet(FreeSurfaces)
    BY DEF NeverPaidUnasked
  <2>1. Served = Normalize(name)
    BY ResolveIs DEF Served
  <2>2. name # NoName
    BY <2>1 DEF Normalize, DefaultModel, Name
  <2>3. \A s : UpstreamId(s, TRUE).free
    BY DEF UpstreamId, Name
  <2>4. \A s, f : UpstreamId(s, f).free = f /\ UpstreamId(s, f).surface = s
    BY DEF UpstreamId, Name
  <2>5. \A s \in ToSet(FreeSurfaces) : UpstreamId(s, TRUE) \in Catalogue
    BY FreeIdsAre
  <2>6. ASSUME name.provider = NoProvider, UpstreamId(name.surface, TRUE) \notin Catalogue,
               Served = UpstreamId(name.surface, name.free)
        PROVE  /\ name = Name(NoProvider, Served.surface, FALSE)
               /\ Served.surface \notin ToSet(FreeSurfaces)
    <3>1. Served.surface = name.surface /\ name.free # TRUE
      BY <2>4, <2>6
    <3>2. name = Name(NoProvider, name.surface, FALSE)
      BY <1>1, <2>2, <2>6, <3>1 DEF AskedInv, Asked, Name
    <3> QED BY <2>5, <2>6, <3>1, <3>2
  <2> HIDE DEF name
  <2> QED BY <2>1, <2>2, <2>3, <2>6, NormalizeIs
<1> QED BY <1>1, AskedHolds, PTL

(* A bare surface that has a free route is no name of the catalogue.         *)
LEMMA BareIsNoId ==
    ASSUME NEW s \in ToSet(FreeSurfaces), NEW f
    PROVE  Name(NoProvider, s, f) \notin Catalogue
<1>1. /\ s \in DOMAIN SurfaceProvider /\ s # Rudder
      /\ SurfaceProvider[s] # NoProvider
  BY RegistryAssumption
<1>2. \A r, g : UpstreamId(r, g) # Name(NoProvider, s, f)
  BY <1>1 DEF UpstreamId, Name
<1>3. DefaultModel # Name(NoProvider, s, f)
  BY <1>1 DEF DefaultModel, Name
<1>4. \A m \in ToSet(PaidIds) : \E r : m = UpstreamId(r, FALSE)
  BY DEF ToSet, PaidIds
<1>5. ASSUME NEW m \in ToSet(FreeIds)
      PROVE  m = DefaultModel \/ \E r : m = UpstreamId(r, TRUE)
  BY FreeIdsAre
<1> QED BY <1>2, <1>3, <1>4, <1>5 DEF Catalogue

(* The bare surface, the surface with ":free" and the full id of a free route *)
(* are names of one model, at any time (models.rs, normalize and resolve).    *)
THEOREM OneModel == Spec => []SpellingsAgree
<1>1. SpellingsAgree
  <2> SUFFICES ASSUME asked.name \in [provider : {NoProvider},
                                     surface : ToSet(FreeSurfaces), free : BOOLEAN]
               PROVE  Served = Resolve(UpstreamId(asked.name.surface, TRUE), asked.now)
    BY DEF SpellingsAgree
  <2>1. PICK s \in ToSet(FreeSurfaces), f \in BOOLEAN : asked.name = Name(NoProvider, s, f)
    BY DEF Name
  <2>2. asked.name.surface = s /\ asked.name.provider = NoProvider
    BY <2>1 DEF Name
  <2> DEFINE full == UpstreamId(s, TRUE)
  <2>3. full \in Catalogue
    BY FreeIdsAre
  <2>4. full # NoName /\ asked.name # NoName
    BY <2>1, <2>3, RegistryAssumption
  <2>5. Normalize(full) = full
    BY <2>3, <2>4, NormalizeIs
  <2>6. Normalize(asked.name) = full
    <3>1. asked.name \notin Catalogue
      BY <2>1, BareIsNoId
    <3> QED BY <2>2, <2>3, <2>4, <3>1, NormalizeIs
  <2>7. Normalize(full) = Normalize(asked.name)
    BY <2>5, <2>6
  <2> QED BY <2>2, <2>7 DEF Served, Resolve
<1> QED BY <1>1, PTL

-------------------------------------------------------------------------------
(* kept is what is left of the first n pieces. *)
Filtering(kept, pieces, names, n) ==
    kept = [i \in 0..n |->
              IF i = 0 THEN <<>>
              ELSE IF pieces[i].name \in names THEN kept[i - 1]
                   ELSE Append(kept[i - 1], pieces[i])]

LEMMA FilteringExists ==
    ASSUME NEW pieces, NEW names, NEW n \in Nat
    PROVE  \E kept : Filtering(kept, pieces, names, n)
<1> DEFINE S == {k \in Nat : \E kept : Filtering(kept, pieces, names, k)}
<1>1. 0 \in S
  <2> DEFINE b == [i \in 0..0 |-> <<>>]
  <2>1. b = [i \in 0..0 |-> IF i = 0 THEN <<>>
                            ELSE IF pieces[i].name \in names THEN b[i - 1]
                                 ELSE Append(b[i - 1], pieces[i])]
    OBVIOUS
  <2> HIDE DEF b
  <2> QED BY <2>1 DEF Filtering
<1>2. ASSUME NEW k \in 1..n, k - 1 \in S PROVE k \in S
  <2>1. PICK a : Filtering(a, pieces, names, k - 1)
    BY <1>2
  <2> DEFINE last == IF pieces[k].name \in names THEN a[k - 1]
                     ELSE Append(a[k - 1], pieces[k])
             b == [i \in 0..k |-> IF i = k THEN last ELSE a[i]]
  <2>2. ASSUME NEW i \in 0..k
        PROVE  b[i] = IF i = 0 THEN <<>>
                      ELSE IF pieces[i].name \in names THEN b[i - 1]
                           ELSE Append(b[i - 1], pieces[i])
    <3>1. CASE i = k
      <4>1. b[i - 1] = a[k - 1] /\ b[i] = last
        BY <3>1
      <4> QED BY <3>1, <4>1
    <3>2. CASE i # k
      <4>1. i \in 0..(k - 1) /\ b[i] = a[i]
        BY <3>2
      <4>2. a[i] = IF i = 0 THEN <<>>
                   ELSE IF pieces[i].name \in names THEN a[i - 1]
                        ELSE Append(a[i - 1], pieces[i])
        BY <2>1, <4>1 DEF Filtering
      <4>3. i # 0 => b[i - 1] = a[i - 1]
        BY <3>2
      <4> QED BY <4>1, <4>2, <4>3
    <3> QED BY <3>1, <3>2
  <2>3. b = [i \in 0..k |-> IF i = 0 THEN <<>>
                            ELSE IF pieces[i].name \in names THEN b[i - 1]
                                 ELSE Append(b[i - 1], pieces[i])]
    <3>1. b = [i \in 0..k |-> b[i]]
      OBVIOUS
    <3> HIDE DEF b
    <3> QED BY <2>2, <3>1
  <2> HIDE DEF b
  <2> QED BY <2>3 DEF Filtering
<1>3. 0..n \subseteq S
  <2> HIDE DEF S
  <2> QED BY <1>1, <1>2, Counting
<1> QED BY <1>3

LEMMA WithoutIsLast ==
    ASSUME NEW pieces, NEW names, Len(pieces) \in Nat
    PROVE  \E kept : /\ Without(pieces, names) = kept[Len(pieces)]
                     /\ kept[0] = <<>>
                     /\ \A i \in 1..Len(pieces) :
                          kept[i] = IF pieces[i].name \in names THEN kept[i - 1]
                                    ELSE Append(kept[i - 1], pieces[i])
<1> DEFINE n == Len(pieces)
           kept == CHOOSE kept : kept =
                     [i \in 0..n |->
                        IF i = 0 THEN <<>>
                        ELSE IF pieces[i].name \in names THEN kept[i - 1]
                             ELSE Append(kept[i - 1], pieces[i])]
<1>1. Without(pieces, names) = kept[n]
  BY DEF Without
<1>2. Filtering(kept, pieces, names, n)
  <2>1. \E k : Filtering(k, pieces, names, n)
    BY FilteringExists
  <2> QED BY <2>1 DEF Filtering
<1> HIDE DEF kept
<1>3. kept[0] = <<>>
  BY <1>2 DEF Filtering
<1>4. ASSUME NEW i \in 1..n
      PROVE  kept[i] = IF pieces[i].name \in names THEN kept[i - 1]
                       ELSE Append(kept[i - 1], pieces[i])
  <2>1. i \in 0..n /\ i # 0
    OBVIOUS
  <2> QED BY <1>2, <2>1 DEF Filtering
<1> QED BY <1>1, <1>3, <1>4

(* The place of i among some positions. *)
Place(positions, i) == Cardinality({j \in positions : j <= i})

(* Those at some positions, in order. *)
InOrder(rest, pieces, positions) ==
    /\ Len(rest) = Cardinality(positions)
    /\ \A i \in positions : rest[Place(positions, i)] = pieces[i]

(* What is left has the others in order: each at the place that is the number *)
(* of the others up to it.                                                   *)
LEMMA WithoutIs ==
    ASSUME NEW T, NEW pieces \in Seq(T), NEW names, NEW others, NEW rest,
           \A i : i \in others <=> i \in 1..Len(pieces) /\ pieces[i].name \notin names,
           \A p : p \in rest <=> p \in T /\ p.name \notin names
    PROVE  /\ Without(pieces, names) \in Seq(rest)
           /\ InOrder(Without(pieces, names), pieces, others)
<1> DEFINE n == Len(pieces)
           R == {p \in T : p.name \notin names}
           before(i) == {j \in 1..i : pieces[j].name \notin names}
<1>1. n \in Nat
  BY LenProperties
<1>2. PICK kept : /\ Without(pieces, names) = kept[n]
                  /\ kept[0] = <<>>
                  /\ \A i \in 1..n : kept[i] = IF pieces[i].name \in names
                                             THEN kept[i - 1]
                                             ELSE Append(kept[i - 1], pieces[i])
  BY <1>1, WithoutIsLast
<1> HIDE DEF n
<1> DEFINE S == {i \in 0..n : /\ kept[i] \in Seq(R)
                              /\ IsFiniteSet(before(i))
                              /\ Len(kept[i]) = Cardinality(before(i))
                              /\ \A j \in before(i) :
                                   /\ Cardinality(before(j)) \in 1..Len(kept[i])
                                   /\ kept[i][Cardinality(before(j))] = pieces[j]}
<1>4. 0 \in S
  <2>1. kept[0] = <<>>
    BY <1>2
  <2>2. before(0) = {}
    OBVIOUS
  <2>3. IsFiniteSet({}) /\ Cardinality({}) = 0
    BY FS_EmptySet
  <2>4. <<>> \in Seq(R) /\ Len(<<>>) = 0
    OBVIOUS
  <2> HIDE DEF before, R
  <2>5. /\ kept[0] \in Seq(R) /\ IsFiniteSet(before(0))
        /\ Len(kept[0]) = Cardinality(before(0)) /\ \A j : j \notin before(0)
    BY <2>1, <2>2, <2>3, <2>4
  <2> QED BY <1>1, <2>5
<1>5. ASSUME NEW i \in 1..n, i - 1 \in S PROVE i \in S
  <2>1. kept[i] = IF pieces[i].name \in names THEN kept[i - 1]
                  ELSE Append(kept[i - 1], pieces[i])
    BY <1>2
  <2>2. CASE pieces[i].name \in names
    <3>1. before(i) = before(i - 1)
      BY <2>2
    <3>2. kept[i] = kept[i - 1]
      BY <2>1, <2>2
    <3> HIDE DEF before
    <3> QED BY <1>5, <3>1, <3>2
  <2>3. CASE pieces[i].name \notin names
    <3>1. before(i) = before(i - 1) \cup {i} /\ i \notin before(i - 1)
      BY <2>3
    <3>2. kept[i] = Append(kept[i - 1], pieces[i])
      BY <2>1, <2>3
    <3>3. pieces[i] \in R
      BY <1>1, <2>3, ElementOfSeq DEF n
    <3>4. IsFiniteSet(before(i - 1)) /\ Cardinality(before(i - 1)) = Len(kept[i - 1])
          /\ kept[i - 1] \in Seq(R)
      BY <1>5
    <3>5. IsFiniteSet(before(i)) /\ Cardinality(before(i)) = Len(kept[i - 1]) + 1
      <4>1. PICK B : B = before(i - 1)
        OBVIOUS
      <4>2. before(i) = B \cup {i} /\ i \notin B
        BY <3>1, <4>1
      <4>3. IsFiniteSet(B) /\ Cardinality(B) = Len(kept[i - 1])
        BY <3>4, <4>1
      <4> HIDE DEF before
      <4>4. IsFiniteSet(B \cup {i}) /\ Cardinality(B \cup {i}) = Cardinality(B) + 1
        BY <4>2, <4>3, FS_AddElement
      <4> QED BY <4>2, <4>3, <4>4
    <3>6. /\ kept[i] \in Seq(R) /\ Len(kept[i]) = Len(kept[i - 1]) + 1
          /\ \A j \in 1..Len(kept[i - 1]) : kept[i][j] = kept[i - 1][j]
          /\ kept[i][Len(kept[i - 1]) + 1] = pieces[i]
          /\ Len(kept[i - 1]) \in Nat
      <4> HIDE DEF R
      <4> QED BY <3>2, <3>3, <3>4, AppendProperties, LenProperties
    <3>7. ASSUME NEW j \in before(i)
          PROVE  /\ Cardinality(before(j)) \in 1..Len(kept[i])
                 /\ kept[i][Cardinality(before(j))] = pieces[j]
      <4>1. CASE j = i
        <5>1. before(j) = before(i)
          BY <4>1
        <5> HIDE DEF before
        <5> QED BY <3>5, <3>6, <4>1, <5>1
      <4>2. CASE j # i
        <5>1. j \in before(i - 1)
          BY <4>2
        <5>2. Cardinality(before(j)) \in 1..Len(kept[i - 1])
              /\ kept[i - 1][Cardinality(before(j))] = pieces[j]
          BY <1>5, <5>1
        <5> HIDE DEF before
        <5> QED BY <3>6, <5>2
      <4> QED BY <4>1, <4>2
    <3> HIDE DEF before, R
    <3> QED BY <1>1, <3>5, <3>6, <3>7
  <2> QED BY <2>2, <2>3
<1>6. n \in S
  <2>1. 0..n \subseteq S
    <3> HIDE DEF S
    <3> QED BY <1>1, <1>4, <1>5, Counting
  <2> HIDE DEF S
  <2> QED BY <1>1, <2>1
<1>7. ASSUME NEW i \in before(n) PROVE Place(before(n), i) = Cardinality(before(i))
  <2>1. {j \in before(n) : j <= i} = before(i)
    BY <1>1
  <2> QED BY <2>1 DEF Place
<1>8. others = before(n) /\ rest = R
  BY DEF n
<1> HIDE DEF before, R
<1>9. InOrder(kept[n], pieces, before(n))
  BY <1>6, <1>7 DEF InOrder
<1> QED BY <1>2, <1>6, <1>8, <1>9

(* When those dropped are the first and the last, what is left is the part    *)
(* between.                                                                  *)
LEMMA WithoutEnds ==
    ASSUME NEW T, NEW pieces \in Seq(T), NEW names,
           NEW a \in 0..Len(pieces), NEW b \in a..Len(pieces),
           \A i \in 1..Len(pieces) :
               pieces[i].name \in names <=> i \notin (a + 1)..b
    PROVE  Without(pieces, names) = SubSeq(pieces, a + 1, b)
<1> DEFINE n == Len(pieces)
           upTo(i) == IF i <= b THEN i ELSE b
<1>1. n \in Nat /\ a \in Int /\ b \in Int /\ a <= b /\ b <= n /\ 0 <= a
  BY LenProperties
<1>2. PICK kept : /\ Without(pieces, names) = kept[n]
                  /\ kept[0] = <<>>
                  /\ \A i \in 1..n : kept[i] = IF pieces[i].name \in names
                                             THEN kept[i - 1]
                                             ELSE Append(kept[i - 1], pieces[i])
  BY <1>1, WithoutIsLast
<1>3. ASSUME NEW i \in Int, i <= a PROVE SubSeq(pieces, a + 1, i) = <<>>
  BY <1>1, <1>3, SubSeqEmpty
<1> DEFINE S == {i \in 0..n : kept[i] = SubSeq(pieces, a + 1, upTo(i))}
<1>8. \A i \in 0..n : kept[i] = SubSeq(pieces, a + 1, upTo(i)) => i \in S
  OBVIOUS
<1>4. 0 \in S
  <2>1. upTo(0) = 0
    BY <1>1
  <2>2. SubSeq(pieces, a + 1, 0) = <<>>
    BY <1>1, <1>3
  <2> HIDE DEF upTo
  <2>3. kept[0] = SubSeq(pieces, a + 1, upTo(0))
    BY <1>2, <2>1, <2>2
  <2> QED BY <1>1, <2>3
<1>5. ASSUME NEW i \in 1..n, i - 1 \in S PROVE i \in S
  <2>1. CASE i \in (a + 1)..b
    <3>1. upTo(i) = i /\ upTo(i - 1) = i - 1
      BY <1>1, <2>1
    <3>2. kept[i] = Append(kept[i - 1], pieces[i])
      BY <1>2, <2>1
    <3>3. kept[i] = Append(SubSeq(pieces, a + 1, i - 1), pieces[i])
      BY <1>5, <3>1, <3>2
    <3>4. PICK before : before = SubSeq(pieces, a + 1, i - 1)
      OBVIOUS
    <3>5. before \in Seq(T) /\ pieces[i] \in T
      <4>1. \A j \in (a + 1)..(i - 1) : pieces[j] \in T
        BY <1>1, ElementOfSeq
      <4>2. a + 1 \in Int /\ i - 1 \in Int
        BY <1>1
      <4> QED BY <3>4, <4>1, <4>2, SubSeqProperties, ElementOfSeq
    <3>6. Append(before, pieces[i]) = before \o <<pieces[i]>>
      BY <3>5
    <3>7. SubSeq(pieces, a + 1, i) = before \o <<pieces[i]>>
      BY <1>1, <2>1, <3>4, SubSeqRecursiveSecond
    <3>8. kept[i] = SubSeq(pieces, a + 1, i)
      BY <3>3, <3>4, <3>6, <3>7
    <3> HIDE DEF upTo
    <3> QED BY <3>1, <3>8
  <2>2. CASE i \notin (a + 1)..b
    <3>1. kept[i] = kept[i - 1]
      BY <1>2, <2>2
    <3>2. CASE i <= a
      <4>1. upTo(i) = i /\ upTo(i - 1) = i - 1
        BY <1>1, <3>2
      <4>2. SubSeq(pieces, a + 1, i) = <<>> /\ SubSeq(pieces, a + 1, i - 1) = <<>>
        BY <1>1, <1>3, <3>2
      <4> HIDE DEF upTo
      <4>3. kept[i - 1] = SubSeq(pieces, a + 1, i - 1)
        BY <1>5, <4>1
      <4>4. kept[i] = SubSeq(pieces, a + 1, upTo(i))
        BY <3>1, <4>1, <4>2, <4>3
      <4>5. i \in 0..n
        BY <1>1
      <4> HIDE DEF n, S
      <4> QED BY <1>8, <4>4, <4>5
    <3>3. CASE i > b
      <4>1. upTo(i) = b /\ upTo(i - 1) = b
        BY <1>1, <3>3
      <4> HIDE DEF upTo
      <4>2. kept[i - 1] = SubSeq(pieces, a + 1, b)
        BY <1>5, <4>1
      <4>3. kept[i] = SubSeq(pieces, a + 1, upTo(i))
        BY <3>1, <4>1, <4>2
      <4>4. i \in 0..n
        BY <1>1
      <4> HIDE DEF n, S
      <4> QED BY <1>8, <4>3, <4>4
    <3> QED BY <1>1, <2>2, <3>2, <3>3
  <2> QED BY <2>1, <2>2
<1>6. n \in S
  <2>1. 0..n \subseteq S
    <3> HIDE DEF S
    <3> QED BY <1>1, <1>4, <1>5, Counting
  <2> HIDE DEF S
  <2> QED BY <1>1, <2>1
<1>7. upTo(n) = b
  BY <1>1
<1> QED BY <1>2, <1>6, <1>7

(* Nothing is dropped, or only the last, or the first. *)
LEMMA WithoutSome ==
    ASSUME NEW T, NEW q \in Seq(T), NEW names, NEW x,
           \A i \in 1..Len(q) : q[i].name \notin names
    PROVE  /\ Without(q, names) = q
           /\ x.name \in names => /\ Without(Append(q, x), names) = q
                                 /\ Without(<<x>> \o q, names) = q
<1> DEFINE n == Len(q)
           U == T \cup {x}
<1>1. n \in Nat /\ q \in Seq(U) /\ x \in U /\ 0 \in 0..n /\ n \in 0..n
  <2>1. n \in Nat /\ T \subseteq U /\ x \in U
    BY LenProperties
  <2> HIDE DEF n, U
  <2> QED BY <2>1, SeqMonotonic
<1> HIDE DEF U
<1>2. Without(q, names) = q
  <2>1. Without(q, names) = SubSeq(q, 0 + 1, n)
    <3>1. \A i \in 1..Len(q) : q[i].name \in names <=> i \notin (0 + 1)..n
      BY <1>1 DEF n
    <3>2. 0 \in 0..Len(q) /\ n \in 0..Len(q)
      BY <1>1 DEF n
    <3> HIDE DEF n
    <3> QED BY <3>1, <3>2, WithoutEnds
  <2>2. SubSeq(q, 1, n) = q
    BY SubSeqFull
  <2>3. 0 + 1 = 1
    OBVIOUS
  <2> HIDE DEF n
  <2> QED BY <2>1, <2>2, <2>3
<1>3. ASSUME x.name \in names PROVE Without(Append(q, x), names) = q
  <2>1. PICK p : p = Append(q, x)
    OBVIOUS
  <2>2. /\ p \in Seq(U) /\ Len(p) = n + 1 /\ p[n + 1] = x
        /\ \A i \in 1..n : p[i] = q[i]
    BY <1>1, <2>1, AppendProperties
  <2>3. \A i \in 1..(n + 1) : p[i].name \in names <=> i \notin (0 + 1)..n
    BY <1>1, <1>3, <2>2
  <2>4. Without(p, names) = SubSeq(p, 0 + 1, n)
    <3>1. 0 \in 0..Len(p) /\ n \in 0..Len(p)
      BY <1>1, <2>2
    <3> QED BY <2>2, <2>3, <3>1, WithoutEnds
  <2>5. SubSeq(p, 1, n) = q
    BY <1>1, <2>2
  <2> QED BY <2>1, <2>4, <2>5
<1>4. ASSUME x.name \in names PROVE Without(<<x>> \o q, names) = q
  <2>1. PICK p : p = <<x>> \o q
    OBVIOUS
  <2>2. /\ p \in Seq(U) /\ Len(p) = n + 1 /\ p[1] = x
        /\ \A i \in 1..n : p[i + 1] = q[i]
    BY <1>1, <2>1, OneMore
  <2>3. \A i \in 1..(n + 1) : p[i].name \in names <=> i \notin (1 + 1)..(n + 1)
    <3>1. \A i \in (1 + 1)..(n + 1) : p[i] = q[i - 1] /\ i - 1 \in 1..n
      BY <1>1, <2>2
    <3> QED BY <1>1, <1>4, <2>2, <3>1
  <2>4. Without(p, names) = SubSeq(p, 1 + 1, n + 1)
    <3>1. 1 \in 0..Len(p) /\ n + 1 \in 1..Len(p)
      BY <1>1, <2>2
    <3> QED BY <2>2, <2>3, <3>1, WithoutEnds
  <2>5. SubSeq(p, 2, n + 1) = q
    BY <1>1, <2>2
  <2>6. 1 + 1 = 2
    OBVIOUS
  <2>7. Without(p, names) = q
    BY <2>4, <2>5, <2>6
  <2> QED BY <2>1, <2>7
<1> QED BY <1>2, <1>3, <1>4

-------------------------------------------------------------------------------
(* The cookies of a browser, and what is pasted of them. *)
Pair == [name : Auth \cup {"th_sid", "other"}, value : Tokens \cup {NoToken, Undecodable}]

CookieInv ==
    /\ browser \in Seq(Pair)
    /\ pasted = Nothing \/ pasted \in Writings(browser)

LEMMA CookieHolds == Spec => []CookieInv
<1>1. Init => CookieInv
  BY DEF Init, CookieInv
<1>2. CookieInv /\ [Next]_vars => CookieInv'
  <2> SUFFICES ASSUME CookieInv, [Next]_vars PROVE CookieInv'
    OBVIOUS
  <2>1. CASE SetCookie
    <3>1. PICK p \in Pair : browser' = Append(browser, p) /\ pasted' = Nothing
      <4>1. PICK name \in Auth \cup {"th_sid", "other"},
                 value \in Tokens \cup {NoToken, Undecodable} :
                   browser' = Append(browser, [name |-> name, value |-> value])
        BY <2>1 DEF SetCookie
      <4>2. [name |-> name, value |-> value] \in Pair
        BY DEF Pair
      <4> QED BY <2>1, <4>1, <4>2 DEF SetCookie
    <3> QED BY <3>1, AppendProperties DEF CookieInv, Nothing
  <2>2. CASE Paste
    <3>1. PICK c : c = browser
      OBVIOUS
    <3>2. browser' = c /\ c \in Seq(Pair) /\ pasted' \in Writings(c)
      BY <2>2, <3>1 DEF Paste, CookieInv
    <3> QED BY <3>2 DEF CookieInv
  <2>3. CASE UNCHANGED <<browser, pasted>>
    <3>1. PICK c : c = browser
      OBVIOUS
    <3>2. browser' = c /\ c \in Seq(Pair) /\ (pasted' = Nothing \/ pasted' \in Writings(c))
      BY <2>3, <3>1 DEF CookieInv
    <3> QED BY <3>2 DEF CookieInv, Nothing
  <2> QED BY <2>1, <2>2, <2>3 DEF Next, Grow, Ask, vars
<1> QED BY <1>1, <1>2, PTL DEF Spec

(* The new token is the first that can be read, when no other login is left.  *)
LEMMA NewestIsRead ==
    ASSUME NEW T, NEW q \in Seq(T), NEW t \in Tokens,
           \A i \in 1..Len(q) : q[i].name \notin Auth
    PROVE  RefreshToken(Append(q, [name |-> "auth0", value |-> t])) = t
<1> DEFINE n == Len(q)
           x == [name |-> "auth0", value |-> t]
           U == T \cup {x}
<1>1. n \in Nat /\ q \in Seq(U) /\ x \in U
  <2>1. T \subseteq U /\ x \in U
    OBVIOUS
  <2> HIDE DEF U
  <2> QED BY <2>1, SeqMonotonic, LenProperties
<1>2. PICK p : p = Append(q, x)
  OBVIOUS
<1>3. x.name = "auth0" /\ x.value = t /\ t # Undecodable
  BY AlgorithmsAssumption
<1> HIDE DEF U, x
<1>4. /\ DOMAIN p = 1..(n + 1) /\ p[n + 1] = x
      /\ \A i \in 1..n : p[i] = q[i]
  <2>1. p \in Seq(U) /\ Len(p) = n + 1 /\ p[n + 1] = x /\ \A i \in 1..n : p[i] = q[i]
    BY <1>1, <1>2, AppendProperties
  <2> QED BY <2>1, LenProperties
<1> DEFINE decoded == {i \in DOMAIN p : p[i].name = "auth0" /\ p[i].value # Undecodable}
<1>5. decoded = {n + 1}
  <2>1. \A i \in 1..n : p[i].name # "auth0"
    BY <1>4 DEF Auth
  <2> QED BY <1>1, <1>3, <1>4, <2>1
<1>6. Min({n + 1}) = n + 1
  BY <1>1 DEF Min
<1>7. RefreshToken(p) = p[Min(decoded)].value
  <2>1. decoded # {}
    BY <1>5
  <2> QED BY <2>1 DEF RefreshToken
<1> HIDE DEF decoded
<1> QED BY <1>2, <1>3, <1>4, <1>5, <1>6, <1>7 DEF x

(* However often an account is refreshed, the next refresh uses the newest    *)
(* token, the cookie does not grow, and what it holds beside the login stays  *)
(* in order; for cookies of any length (refresh.rs).                         *)
THEOREM RefreshesGoOn == Spec => []RefreshGoesOn
<1>1. ASSUME CookieInv PROVE RefreshGoesOn
  <2> SUFFICES ASSUME NEW t \in Tokens, NEW u \in Tokens
               PROVE  LET once   == Rebuild(browser, t)
                          others == {i \in DOMAIN browser : browser[i].name \notin Auth}
                      IN  /\ RefreshToken(once) = t
                          /\ Rebuild(once, u) = Rebuild(browser, u)
                          /\ Len(once) = Cardinality(others) + 1
                          /\ \A i \in others :
                                once[Cardinality({j \in others : j <= i})] = browser[i]
    BY Zenon DEF RefreshGoesOn
  <2> DEFINE new(v) == [name |-> "auth0", value |-> v]
             once   == Rebuild(browser, t)
             kept   == Without(browser, Auth)
             others == {i \in DOMAIN browser : browser[i].name \notin Auth}
             R      == {p \in Pair : p.name \notin Auth}
  <2>1. browser \in Seq(Pair) /\ DOMAIN browser = 1..Len(browser)
    BY <1>1, LenProperties DEF CookieInv
  <2>2. /\ kept \in Seq(R)
        /\ Len(kept) = Cardinality(others)
        /\ \A i \in others : kept[Place(others, i)] = browser[i]
    <3>1. \A i : i \in others <=> i \in 1..Len(browser) /\ browser[i].name \notin Auth
      BY <2>1
    <3>2. \A p : p \in R <=> p \in Pair /\ p.name \notin Auth
      OBVIOUS
    <3> HIDE DEF others, R
    <3>3. Without(browser, Auth) \in Seq(R)
      BY <2>1, <3>1, <3>2, WithoutIs
    <3>4. InOrder(Without(browser, Auth), browser, others)
      BY <2>1, <3>1, <3>2, WithoutIs
    <3> QED BY <3>3, <3>4 DEF InOrder
  <2>3. once = Append(kept, new(t)) /\ new(t).name \in Auth
    BY DEF Rebuild, Auth
  <2>4. \A i \in 1..Len(kept) : kept[i].name \notin Auth
    <3>1. \A i \in 1..Len(kept) : kept[i] \in R
      <4> HIDE DEF kept, R
      <4> QED BY <2>2, ElementOfSeq
    <3> QED BY <3>1
  <2>5. RefreshToken(once) = t
    <3> HIDE DEF kept, R
    <3> QED BY <2>2, <2>3, <2>4, NewestIsRead
  <2>6. Without(once, Auth) = kept
    <3>1. PICK x : x = new(t)
      OBVIOUS
    <3>2. x.name \in Auth /\ once = Append(kept, x)
      BY <2>3, <3>1
    <3> HIDE DEF kept, R, new, once
    <3>3. Without(Append(kept, x), Auth) = kept
      BY <2>2, <2>4, <3>2, WithoutSome
    <3> QED BY <3>2, <3>3
  <2>7. Rebuild(once, u) = Rebuild(browser, u)
    BY <2>6 DEF Rebuild
  <2>8. Len(once) = Cardinality(others) + 1 /\ \A k \in 1..Len(kept) : once[k] = kept[k]
    <3>1. new(t) \in R \cup {new(t)} /\ kept \in Seq(R \cup {new(t)})
      BY <2>2, SeqMonotonic
    <3> HIDE DEF kept, R, new, others
    <3> QED BY <2>2, <2>3, <3>1, AppendProperties
  <2>9. ASSUME NEW i \in others
        PROVE  Place(others, i) \in 1..Len(kept)
    <3>1. IsFiniteSet(others)
      <4>1. IsFiniteSet(1..Len(browser))
        BY <2>1, FS_Interval, LenProperties
      <4>2. others \subseteq 1..Len(browser)
        BY <2>1
      <4> QED BY <4>1, <4>2, FS_Subset
    <3> DEFINE C == {j \in others : j <= i}
    <3>2. C \subseteq others /\ i \in C
      BY <2>1
    <3> HIDE DEF C, others, kept
    <3>3. IsFiniteSet(C) /\ Cardinality(C) <= Cardinality(others)
      BY <3>1, <3>2, FS_Subset
    <3>4. Cardinality(C) \in Nat /\ Cardinality(others) \in Nat
      BY <3>1, <3>3, FS_CardinalityType
    <3>5. Cardinality(C) # 0
      BY <3>2, <3>3, FS_EmptySet
    <3> QED BY <2>2, <3>3, <3>4, <3>5 DEF C, Place
  <2> HIDE DEF kept, others, once
  <2>10. \A i \in others : once[Cardinality({j \in others : j <= i})] = browser[i]
    BY <2>2, <2>8, <2>9 DEF Place
  <2> QED BY <2>5, <2>7, <2>8, <2>10 DEF once, others
<1> QED BY <1>1, CookieHolds, PTL

-------------------------------------------------------------------------------
(* What a pasted text is read as. *)

(* One group of pieces, or two. *)
LEMMA FlattenFew ==
    ASSUME NEW a, NEW b
    PROVE  FlattenSeq(<<a>>) = a /\ FlattenSeq(<<a, b>>) = a \o b
<1>1. FlattenSeq(<<a>>) = a
  <2> DEFINE s == <<a>>
             f == CHOOSE f : f = [i \in 1..1 |-> IF i = 1 THEN s[i] ELSE f[i - 1] \o s[i]]
             g == [i \in 1..1 |-> a]
  <2>1. FlattenSeq(s) = f[1]
    BY DEF FlattenSeq
  <2>2. g = [i \in 1..1 |-> IF i = 1 THEN s[i] ELSE g[i - 1] \o s[i]]
    OBVIOUS
  <2>3. f = [i \in 1..1 |-> IF i = 1 THEN s[i] ELSE f[i - 1] \o s[i]]
    <3> HIDE DEF g, s
    <3> QED BY <2>2
  <2>4. f[1] = s[1] /\ s[1] = a
    <3> HIDE DEF f
    <3> QED BY <2>3
  <2> QED BY <2>1, <2>4
<1>2. FlattenSeq(<<a, b>>) = a \o b
  <2> DEFINE s == <<a, b>>
             f == CHOOSE f : f = [i \in 1..2 |-> IF i = 1 THEN s[i] ELSE f[i - 1] \o s[i]]
             g == [i \in 1..2 |-> IF i = 1 THEN a ELSE a \o b]
  <2>1. FlattenSeq(s) = f[2]
    BY DEF FlattenSeq
  <2>2. g = [i \in 1..2 |-> IF i = 1 THEN s[i] ELSE g[i - 1] \o s[i]]
    <3>1. ASSUME NEW i \in 1..2 PROVE g[i] = IF i = 1 THEN s[i] ELSE g[i - 1] \o s[i]
      <4>1. i = 1 \/ i = 2
        OBVIOUS
      <4>2. g[1] = a /\ g[2] = a \o b /\ s[1] = a /\ s[2] = b /\ 2 - 1 = 1
        OBVIOUS
      <4> HIDE DEF g, s
      <4> QED BY <4>1, <4>2
    <3>2. g = [i \in 1..2 |-> g[i]]
      OBVIOUS
    <3> HIDE DEF g, s
    <3> QED BY <3>1, <3>2
  <2>3. f = [i \in 1..2 |-> IF i = 1 THEN s[i] ELSE f[i - 1] \o s[i]]
    <3> HIDE DEF g, s
    <3> QED BY <2>2
  <2>4. f[1] = s[1] /\ f[2] = f[2 - 1] \o s[2]
    <3>1. 1 \in 1..2 /\ 2 \in 1..2 /\ 2 # 1
      OBVIOUS
    <3> HIDE DEF f, s, g
    <3>2. f[1] = IF 1 = 1 THEN s[1] ELSE f[1 - 1] \o s[1]
      BY <2>3, <3>1
    <3>3. f[2] = IF 2 = 1 THEN s[2] ELSE f[2 - 1] \o s[2]
      BY <2>3, <3>1
    <3> QED BY <3>1, <3>2, <3>3
  <2>5. s[1] = a /\ s[2] = b /\ 2 - 1 = 1
    OBVIOUS
  <2> HIDE DEF f
  <2> QED BY <2>1, <2>4, <2>5
<1> QED BY <1>1, <1>2

LEMMA AllFew ==
    ASSUME NEW g, NEW h
    PROVE  /\ AllPieces(<<g>>) = g.pieces
           /\ AllPieces(<<g, h>>) = g.pieces \o h.pieces
<1>1. [i \in DOMAIN <<g>> |-> <<g>>[i].pieces] = <<g.pieces>>
  OBVIOUS
<1>2. [i \in DOMAIN <<g, h>> |-> <<g, h>>[i].pieces] = <<g.pieces, h.pieces>>
  OBVIOUS
<1> QED BY <1>1, <1>2, FlattenFew DEF AllPieces

LEMMA NamesAre ==
    ASSUME NEW p \in Pair
    PROVE  p.name \notin NotPair
BY DEF Pair, NotPair, Auth

(* The pairs of a cookie, with and without text before them. *)
LEMMA PairsAre ==
    ASSUME NEW c \in Seq(Pair)
    PROVE  /\ Pairs(c) = c
           /\ Pairs(c \o c) = c \o c
           /\ Pairs(<<Empty>> \o c) = c
           /\ Pairs(<<Text>> \o c) = c
           /\ Pairs(<<Text>>) = <<>>
<1>1. \A i \in 1..Len(c) : c[i].name \notin NotPair
  BY ElementOfSeq, NamesAre
<1>2. Pairs(c) = c
  BY <1>1, WithoutSome DEF Pairs
<1>3. Pairs(c \o c) = c \o c
  <2>1. PICK d : d = c \o c
    OBVIOUS
  <2>2. d \in Seq(Pair)
    BY <2>1, ConcatProperties
  <2>3. \A i \in 1..Len(d) : d[i].name \notin NotPair
    BY <2>2, ElementOfSeq, NamesAre
  <2> QED BY <2>1, <2>2, <2>3, WithoutSome DEF Pairs
<1>4. ASSUME NEW x, x.name \in NotPair PROVE Pairs(<<x>> \o c) = c
  BY <1>1, <1>4, WithoutSome DEF Pairs
<1>5. Text.name \in NotPair /\ Empty.name \in NotPair
  BY DEF Text, Empty, NotPair
<1>6. ASSUME NEW x, x.name \in NotPair PROVE Pairs(<<x>>) = <<>>
  <2>0. <<>> \in Seq(Pair)
    BY EmptySeq
  <2>1. PICK q \in Seq(Pair) : q = <<>>
    BY <2>0
  <2>2. Without(Append(q, x), NotPair) = q
    <3>1. \A i \in 1..Len(q) : q[i].name \notin NotPair
      BY <2>1
    <3> QED BY <1>6, <3>1, WithoutSome
  <2>3. Append(q, x) = <<x>>
    BY <2>1
  <2> QED BY <2>1, <2>2, <2>3 DEF Pairs
<1> QED BY <1>2, <1>3, <1>4, <1>5, <1>6

(* A cookie written twice is read as it is. *)
LEMMA TwiceAsOnce ==
    ASSUME NEW c \in Seq(Pair)
    PROVE  /\ RefreshToken(c \o c) = RefreshToken(c)
           /\ Admitted(c, TRUE) => Admitted(c \o c, TRUE)
<1> DEFINE n == Len(c)
<1>1. PICK d : d = c \o c
  OBVIOUS
<1>2. /\ n \in Nat /\ DOMAIN c = 1..n /\ DOMAIN d = 1..(n + n)
      /\ \A i \in 1..n : d[i] = c[i]
      /\ \A i \in 1..(n + n) : i > n => d[i] = c[i - n]
  <2>1. /\ d \in Seq(Pair) /\ Len(d) = n + n /\ n \in Nat
        /\ \A i \in 1..(n + n) : d[i] = IF i <= n THEN c[i] ELSE c[i - n]
    BY <1>1, ConcatProperties, LenProperties
  <2> HIDE DEF n
  <2>2. DOMAIN d = 1..(n + n) /\ DOMAIN c = 1..n
    BY <2>1, LenProperties DEF n
  <2> QED BY <2>1, <2>2
<1> HIDE DEF n
<1> DEFINE inC == {i \in DOMAIN c : c[i].name = "auth0" /\ c[i].value # Undecodable}
           inD == {i \in DOMAIN d : d[i].name = "auth0" /\ d[i].value # Undecodable}
<1>3. inC = {} => inD = {}
  <2> SUFFICES ASSUME inC = {}, NEW i \in inD PROVE FALSE
    OBVIOUS
  <2>1. CASE i <= n
    BY <1>2, <2>1
  <2>2. CASE i > n
    <3>1. i \in 1..(n + n) /\ i - n \in 1..n
      BY <1>2, <2>2
    <3>2. d[i] = c[i - n]
      BY <1>2, <2>2, <3>1
    <3> QED BY <1>2, <3>1, <3>2
  <2>3. i \in Nat
    BY <1>2
  <2> QED BY <1>2, <2>1, <2>2, <2>3
<1>4. ASSUME inC # {}
      PROVE  Min(inC) \in inC /\ Min(inD) = Min(inC) /\ inD # {}
  <2>1. PICK m \in inC : \A i \in inC : m <= i
    <3>1. inC \subseteq Nat
      BY <1>2
    <3> HIDE DEF inC
    <3> QED BY <1>4, <3>1, Least
  <2>2. m \in inD /\ \A i \in inD : m <= i
    <3>1. m \in inD
      BY <1>2, <2>1
    <3>2. ASSUME NEW i \in inD PROVE m <= i
      <4>1. CASE i <= n
        <5>1. i \in inC
          BY <1>2, <4>1
        <5> QED BY <2>1, <5>1
      <4>2. CASE i > n
        BY <1>2, <2>1, <4>2
      <4>3. i \in Nat
        BY <1>2
      <4> QED BY <1>2, <4>1, <4>2, <4>3
    <3> QED BY <3>1, <3>2
  <2>3. inC \subseteq Nat /\ inD \subseteq Nat
    BY <1>2
  <2> HIDE DEF inC, inD
  <2>4. ASSUME NEW S, S \subseteq Nat, m \in S, \A i \in S : m <= i PROVE Min(S) = m
    <3>1. \A k \in S : (\A i \in S : k <= i) => k = m
      BY <2>4
    <3> QED BY <2>4, <3>1 DEF Min
  <2>5. Min(inC) = m /\ Min(inD) = m
    BY <2>1, <2>2, <2>3, <2>4
  <2> QED BY <2>1, <2>2, <2>5
<1>5. RefreshToken(d) = RefreshToken(c)
  <2>1. RefreshToken(c) = IF inC = {} THEN NoToken ELSE c[Min(inC)].value
    BY DEF RefreshToken
  <2>2. RefreshToken(d) = IF inD = {} THEN NoToken ELSE d[Min(inD)].value
    BY DEF RefreshToken
  <2>3. CASE inC = {}
    <3> HIDE DEF inC, inD
    <3> QED BY <1>3, <2>1, <2>2, <2>3
  <2>4. CASE inC # {}
    <3>1. Min(inC) \in 1..n
      BY <1>2, <1>4, <2>4
    <3>2. d[Min(inC)] = c[Min(inC)]
      BY <1>2, <3>1
    <3> HIDE DEF inC, inD
    <3> QED BY <1>4, <2>1, <2>2, <2>4, <3>2
  <2> QED BY <2>3, <2>4
<1>6. Admitted(c, TRUE) => Admitted(d, TRUE)
  <2> SUFFICES ASSUME Admitted(c, TRUE) PROVE Admitted(d, TRUE)
    OBVIOUS
  <2>1. PICK i \in DOMAIN c : c[i].name = "auth0"
    BY DEF Admitted
  <2>2. i \in DOMAIN d /\ d[i] = c[i]
    BY <1>2
  <2> QED BY <2>1, <2>2 DEF Admitted
<1> QED BY <1>1, <1>5, <1>6

LEMMA JoinFew ==
    ASSUME NEW a, NEW b, NEW c
    PROVE  <<a>> \o <<b>> = <<a, b>> /\ <<a, b>> \o <<c>> = <<a, b, c>>
<1>1. PICK S : a \in S /\ b \in S /\ c \in S
  <2> WITNESS {a, b, c}
  <2> QED OBVIOUS
<1>2. <<a>> \o <<b>> = <<a, b>>
  <2>1. <<a>> \in Seq(S) /\ <<b>> \in Seq(S) /\ <<a, b>> \in Seq(S)
    BY <1>1
  <2>2. Append(<<a>>, b) = <<a, b>>
    <3>1. PICK d : d = Append(<<a>>, b)
      OBVIOUS
    <3>2. d \in Seq(S) /\ Len(d) = 2 /\ d[1] = a /\ d[2] = b
      BY <1>1, <2>1, <3>1, AppendProperties
    <3>3. <<a, b>> \in Seq(S) /\ Len(<<a, b>>) = 2
      BY <2>1
    <3>4. \A i \in 1..2 : d[i] = <<a, b>>[i]
      BY <3>2
    <3> QED BY <3>1, <3>2, <3>3, <3>4, SeqEqual
  <2>3. <<a>> \o <<b>> = Append(<<a>>, b)
    BY <1>1, <2>1, AppendIsConcat
  <2> QED BY <2>2, <2>3
<1>3. <<a, b>> \o <<c>> = <<a, b, c>>
  <2>1. <<a, b>> \in Seq(S) /\ <<c>> \in Seq(S)
    BY <1>1
  <2>2. Append(<<a, b>>, c) = <<a, b, c>>
    <3>1. PICK d : d = Append(<<a, b>>, c)
      OBVIOUS
    <3>2. d \in Seq(S) /\ Len(d) = 3 /\ d[1] = a /\ d[2] = b /\ d[3] = c
      BY <1>1, <2>1, <3>1, AppendProperties
    <3>3. <<a, b, c>> \in Seq(S) /\ Len(<<a, b, c>>) = 3
      BY <1>1
    <3>4. \A i \in 1..3 : d[i] = <<a, b, c>>[i]
      BY <3>2
    <3> QED BY <3>1, <3>2, <3>3, <3>4, SeqEqual
  <2>3. <<a, b>> \o <<c>> = Append(<<a, b>>, c)
    BY <1>1, <2>1, AppendIsConcat
  <2> QED BY <2>2, <2>3
<1> QED BY <1>2, <1>3

(* A cookie with a login is not empty, and neither is it written twice. *)
LEMMA AdmittedIsSome ==
    ASSUME NEW c \in Seq(Pair), Admitted(c, TRUE)
    PROVE  c # <<>> /\ c \o c # <<>>
<1>1. PICK i \in DOMAIN c : c[i].name = "auth0"
  BY DEF Admitted
<1>2. c # <<>>
  BY <1>1
<1>3. PICK d : d = c \o c
  OBVIOUS
<1>4. d \in Seq(Pair) /\ Len(d) = Len(c) + Len(c)
  BY <1>3, ConcatProperties
<1>5. Len(c) \in Nat /\ Len(c) # 0
  BY <1>2, EmptySeq
<1>6. d # <<>>
  BY <1>4, <1>5
<1> QED BY <1>2, <1>3, <1>6

(* The quoted part of a curl command that is taken for the cookie is the       *)
(* cookie: it is named so, or looks like one as nothing before it does.        *)
LEMMA CurlIsRead ==
    ASSUME NEW c \in Seq(Pair), Admitted(c, TRUE),
           NEW before \in {<<Url>>, <<UrlQuery>>, <<UrlQuery, Parameters>>},
           NEW p \in {"none", "Cookie:"},
           p = "none" => before # <<UrlQuery, Parameters>>
    PROVE  Extract("curl", before \o <<Part(p, c)>>) = c
<1> DEFINE n == Len(before)
<1>1. PICK groups : groups = before \o <<Part(p, c)>>
  OBVIOUS
<1>2. /\ n \in {1, 2} /\ DOMAIN groups = 1..(n + 1)
      /\ groups[n + 1] = Part(p, c)
      /\ \A i \in 1..n : groups[i] \in {Url, UrlQuery, Parameters}
      /\ p = "none" => \A i \in 1..n : groups[i] \in {Url, UrlQuery}
  <2>0. PICK q : q = Part(p, c)
    OBVIOUS
  <2>1. CASE before = <<Url>>
    <3>1. PICK u : u = Url
      OBVIOUS
    <3>2. before = <<u>> /\ groups = <<u, q>>
      BY <1>1, <2>0, <2>1, <3>1, JoinFew
    <3>3. n = 1 /\ DOMAIN groups = 1..2 /\ groups[1] = u /\ groups[2] = q
      BY <3>2
    <3> HIDE DEF n
    <3> QED BY <2>0, <3>1, <3>3
  <2>2. CASE before = <<UrlQuery>>
    <3>1. PICK u : u = UrlQuery
      OBVIOUS
    <3>2. before = <<u>> /\ groups = <<u, q>>
      BY <1>1, <2>0, <2>2, <3>1, JoinFew
    <3>3. n = 1 /\ DOMAIN groups = 1..2 /\ groups[1] = u /\ groups[2] = q
      BY <3>2
    <3> HIDE DEF n
    <3> QED BY <2>0, <3>1, <3>3
  <2>3. CASE before = <<UrlQuery, Parameters>>
    <3>1. PICK u : u = UrlQuery
      OBVIOUS
    <3>2. PICK v : v = Parameters
      OBVIOUS
    <3>3. before = <<u, v>> /\ groups = <<u, v, q>>
      BY <1>1, <2>0, <2>3, <3>1, <3>2, JoinFew
    <3>4. /\ n = 2 /\ DOMAIN groups = 1..3
          /\ groups[1] = u /\ groups[2] = v /\ groups[3] = q
      BY <3>3
    <3>5. p # "none"
      BY <2>3
    <3> HIDE DEF n
    <3> QED BY <2>0, <3>1, <3>2, <3>4, <3>5
  <2> QED BY <2>1, <2>2, <2>3
<1> HIDE DEF n
<1>3. /\ Part(p, c).prefix = p /\ Part(p, c).pieces = c
      /\ \A i \in 1..n : groups[i].prefix = "none"
  BY <1>2 DEF Part, Url, UrlQuery, Parameters
<1>4. Fragment(groups) = n + 1
  <2> DEFINE named  == {i \in DOMAIN groups : groups[i].prefix = "Cookie:"}
             likely == {i \in DOMAIN groups : LikeCookie(groups[i].pieces)}
  <2>1. Fragment(groups) = First(IF named # {} THEN named ELSE likely)
    BY DEF Fragment
  <2>2. CASE p = "Cookie:"
    <3>1. named = {n + 1}
      BY <1>2, <1>3, <2>2
    <3>2. First({n + 1}) = n + 1
      <4>1. Min({n + 1}) = n + 1
        BY <1>2 DEF Min
      <4> QED BY <4>1 DEF First
    <3> HIDE DEF named, likely
    <3> QED BY <2>1, <3>1, <3>2
  <2>3. CASE p = "none"
    <3>1. named = {}
      BY <1>2, <1>3, <2>3
    <3>2. LikeCookie(c)
      <4>1. PICK i \in DOMAIN c : c[i].name = "auth0"
        BY DEF Admitted
      <4>2. c # <<>>
        BY <4>1
      <4> QED BY <4>1, <4>2, PairsAre DEF LikeCookie, Auth
    <3>3. ~LikeCookie(Url.pieces)
      <4>1. Url.pieces = <<Text>>
        BY DEF Url, Part
      <4> QED BY <4>1, PairsAre DEF LikeCookie
    <3>4. ~LikeCookie(UrlQuery.pieces)
      <4>1. UrlQuery.pieces = <<Other>> /\ Other.name = "other"
        BY DEF UrlQuery, Part, Other
      <4>2. Len(<<Other>>) = 1 /\ \A i \in DOMAIN <<Other>> : <<Other>>[i] = Other
        OBVIOUS
      <4> QED BY <4>1, <4>2 DEF LikeCookie, Auth
    <3>5. likely = {n + 1}
      <4>1. \A i \in 1..n : ~LikeCookie(groups[i].pieces)
        BY <1>2, <2>3, <3>3, <3>4
      <4>2. LikeCookie(groups[n + 1].pieces)
        BY <1>2, <1>3, <3>2
      <4> QED BY <1>2, <4>1, <4>2
    <3>6. First({n + 1}) = n + 1
      <4>1. Min({n + 1}) = n + 1
        BY <1>2 DEF Min
      <4> QED BY <4>1 DEF First
    <3> HIDE DEF named, likely
    <3> QED BY <2>1, <3>1, <3>5, <3>6
  <2> QED BY <2>2, <2>3
<1>5. Header(p, c) = c
  BY PairsAre DEF Header
<1>6. n + 1 # NoPart
  BY <1>2 DEF NoPart
<1>7. Quoted("curl", groups) = c
  BY <1>2, <1>3, <1>4, <1>5, <1>6 DEF Quoted
<1>8. Joined("curl", groups) = <<>>
  BY DEF Joined
<1>9. c # <<>>
  BY AdmittedIsSome
<1> QED BY <1>1, <1>7, <1>8, <1>9 DEF Extract

(* A cookie is read as it was set, or, from a HAR file, as often as it is     *)
(* there.                                                                    *)
LEMMA WritingIsRead ==
    ASSUME NEW c \in Seq(Pair), Admitted(c, TRUE), NEW w \in Writings(c),
           \A i \in DOMAIN w.groups : w.groups[i].prefix # "cookie:",
           w.form = "curl" =>
              \A i \in DOMAIN w.groups : w.groups[i] = Parameters =>
                 \E j \in DOMAIN w.groups : w.groups[j].prefix = "Cookie:"
    PROVE  \/ Extract(w.form, w.groups) = c
           \/ w.form = "har" /\ Extract(w.form, w.groups) = c \o c
<1>0. c # <<>> /\ c \o c # <<>>
  BY AdmittedIsSome
<1>1. ASSUME NEW read, read # <<>>, w.form \in {"har", "json", "jar"},
             Pairs(AllPieces(w.groups)) = read
      PROVE  Extract(w.form, w.groups) = read
  BY <1>1 DEF Extract, Joined
<1>2. Part("none", c).pieces = c /\ Part("none", <<Empty>>).pieces = <<Empty>>
      /\ Part("none", <<Text>> \o c).pieces = <<Text>> \o c
  BY DEF Part
<1>3. CASE w.form = "har" /\ w.groups = <<Part("none", c), Part("none", c)>>
  <2>1. AllPieces(w.groups) = c \o c
    <3>1. PICK g, h, k : /\ g = Part("none", c) /\ h = Part("none", <<Empty>>)
                         /\ k = Part("none", <<Text>> \o c)
      OBVIOUS
    <3>2. /\ g.pieces = c /\ h.pieces = <<Empty>>
          /\ k.pieces = <<Text>> \o c
      BY <1>2, <3>1
    <3>3. w.groups = <<g, g>>
      BY <1>3, <3>1
    <3> QED BY <3>2, <3>3, AllFew
  <2>2. Pairs(AllPieces(w.groups)) = c \o c
    BY <2>1, PairsAre
  <2> QED BY <1>0, <1>1, <1>3, <2>2
<1>4. CASE w.form \in {"har", "json", "jar"} /\ w.groups = <<Part("none", c)>>
  <2>1. AllPieces(w.groups) = c
    <3>1. PICK g, h, k : /\ g = Part("none", c) /\ h = Part("none", <<Empty>>)
                         /\ k = Part("none", <<Text>> \o c)
      OBVIOUS
    <3>2. /\ g.pieces = c /\ h.pieces = <<Empty>>
          /\ k.pieces = <<Text>> \o c
      BY <1>2, <3>1
    <3>3. w.groups = <<g>>
      BY <1>4, <3>1
    <3> QED BY <3>2, <3>3, AllFew
  <2>2. Pairs(AllPieces(w.groups)) = c
    BY <2>1, PairsAre
  <2> QED BY <1>0, <1>1, <1>4, <2>2
<1>5. CASE /\ w.form \in {"har", "json", "jar"}
           /\ w.groups = <<Part("none", <<Empty>>), Part("none", c)>>
  <2>1. AllPieces(w.groups) = <<Empty>> \o c
    <3>1. PICK g, h, k : /\ g = Part("none", c) /\ h = Part("none", <<Empty>>)
                         /\ k = Part("none", <<Text>> \o c)
      OBVIOUS
    <3>2. /\ g.pieces = c /\ h.pieces = <<Empty>>
          /\ k.pieces = <<Text>> \o c
      BY <1>2, <3>1
    <3>3. w.groups = <<h, g>>
      BY <1>5, <3>1
    <3> QED BY <3>2, <3>3, AllFew
  <2>2. Pairs(AllPieces(w.groups)) = c
    BY <2>1, PairsAre
  <2> QED BY <1>0, <1>1, <1>5, <2>2
<1>6. CASE w.form = "jar" /\ w.groups = <<Part("none", <<Text>> \o c)>>
  <2>1. AllPieces(w.groups) = <<Text>> \o c
    <3>1. PICK g, h, k : /\ g = Part("none", c) /\ h = Part("none", <<Empty>>)
                         /\ k = Part("none", <<Text>> \o c)
      OBVIOUS
    <3>2. /\ g.pieces = c /\ h.pieces = <<Empty>>
          /\ k.pieces = <<Text>> \o c
      BY <1>2, <3>1
    <3>3. w.groups = <<k>>
      BY <1>6, <3>1
    <3> QED BY <3>2, <3>3, AllFew
  <2>2. Pairs(AllPieces(w.groups)) = c
    BY <2>1, PairsAre
  <2> QED BY <1>0, <1>1, <1>6, <2>2
<1>7. ASSUME w.form = "header", NEW p \in HeaderPrefixes, w.groups = <<Part(p, c)>>
      PROVE  Extract(w.form, w.groups) = c
  <2>1. PICK q : q = Part(p, c)
    OBVIOUS
  <2>2. q.prefix = p /\ q.pieces = c
    BY <2>1 DEF Part
  <2>3. 1 \in DOMAIN w.groups /\ w.groups[1] = q
    BY <1>7, <2>1
  <2>4. p # "cookie:"
    BY <2>2, <2>3
  <2>5. Header(p, c) = c
    BY <2>4, PairsAre DEF Header
  <2>6. Joined(w.form, w.groups) = <<>> /\ Quoted(w.form, w.groups) = <<>>
    BY <1>7 DEF Joined, Quoted, NoPart
  <2>7. RawHeader(w.form, w.groups) = c
    BY <1>7, <2>2, <2>3, <2>5 DEF RawHeader
  <2> QED BY <2>6, <2>7 DEF Extract
<1>8. ASSUME w.form = "curl", NEW p \in HeaderPrefixes,
             NEW before \in {<<Url>>, <<UrlQuery>>, <<UrlQuery, Parameters>>},
             w.groups = before \o <<Part(p, c)>>
      PROVE  Extract(w.form, w.groups) = c
  <2>1. PICK q : q = Part(p, c)
    OBVIOUS
  <2>2. q.prefix = p
    BY <2>1 DEF Part
  <2>3. \E i \in DOMAIN w.groups : w.groups[i] = q
    <3>1. PICK u : u = Url
      OBVIOUS
    <3>2. PICK v : v = UrlQuery
      OBVIOUS
    <3>3. PICK z : z = Parameters
      OBVIOUS
    <3>4. w.groups \in {<<u, q>>, <<v, q>>, <<v, z, q>>}
      BY <1>8, <2>1, <3>1, <3>2, <3>3, JoinFew
    <3>5. CASE w.groups = <<u, q>> \/ w.groups = <<v, q>>
      <4>1. 2 \in DOMAIN w.groups /\ w.groups[2] = q
        BY <3>5
      <4> QED BY <4>1
    <3>6. CASE w.groups = <<v, z, q>>
      <4>1. 3 \in DOMAIN w.groups /\ w.groups[3] = q
        BY <3>6
      <4> QED BY <4>1
    <3> QED BY <3>4, <3>5, <3>6
  <2>4. p \in {"none", "Cookie:"}
    BY <2>2, <2>3 DEF HeaderPrefixes
  <2>5. ASSUME p = "none" PROVE before # <<UrlQuery, Parameters>>
    <3> SUFFICES ASSUME before = <<UrlQuery, Parameters>> PROVE FALSE
      OBVIOUS
    <3>1. PICK v : v = UrlQuery
      OBVIOUS
    <3>2. PICK z : z = Parameters
      OBVIOUS
    <3>3. w.groups = <<v, z, q>>
      BY <1>8, <2>1, <3>1, <3>2, JoinFew
    <3>4. v.prefix = "none" /\ z.prefix = "none" /\ q.prefix = "none"
      BY <2>2, <2>5, <3>1, <3>2 DEF UrlQuery, Parameters, Part
    <3>5. /\ 2 \in DOMAIN w.groups /\ w.groups[2] = Parameters
          /\ \A j \in DOMAIN w.groups : w.groups[j].prefix # "Cookie:"
      BY <3>2, <3>3, <3>4
    <3> QED BY <1>8, <3>5
  <2> QED BY <1>8, <2>4, <2>5, CurlIsRead
<1>9. \/ w.form = "har" /\ w.groups = <<Part("none", c), Part("none", c)>>
      \/ /\ w.form \in {"har", "json", "jar"}
         /\ \/ w.groups = <<Part("none", c)>>
            \/ w.groups = <<Part("none", <<Empty>>), Part("none", c)>>
      \/ w.form = "jar" /\ w.groups = <<Part("none", <<Text>> \o c)>>
      \/ w.form = "header" /\ \E p \in HeaderPrefixes : w.groups = <<Part(p, c)>>
      \/ /\ w.form = "curl"
         /\ \E before \in {<<Url>>, <<UrlQuery>>, <<UrlQuery, Parameters>>},
               p \in HeaderPrefixes : w.groups = before \o <<Part(p, c)>>
  BY DEF Writings
<1> QED BY <1>3, <1>4, <1>5, <1>6, <1>7, <1>8, <1>9

(* Whichever way a cookie is written down, unless it is misread, the account  *)
(* is admitted and refreshed as if the cookie had come from the browser, and  *)
(* but for the repetitions of a HAR file with the same pairs, so that it is   *)
(* known again (import_parse.rs, extract_cookie; README:53-56).              *)
THEOREM AnyFormServes == Spec => []FormsAgree
<1>1. ASSUME CookieInv PROVE FormsAgree
  <2> SUFFICES ASSUME pasted # Nothing, ~Misread, Admitted(browser, TRUE)
               PROVE  /\ Admitted(Imported, TRUE)
                      /\ RefreshToken(Imported) = RefreshToken(browser)
                      /\ pasted.form # "har" => Imported = browser
    BY DEF FormsAgree
  <2>1. PICK c : c = browser
    OBVIOUS
  <2>2. PICK w : w = pasted
    OBVIOUS
  <2>3. c \in Seq(Pair) /\ w \in Writings(c) /\ Admitted(c, TRUE)
    BY <1>1, <2>1, <2>2 DEF CookieInv
  <2>4. /\ \A i \in DOMAIN w.groups : w.groups[i].prefix # "cookie:"
        /\ w.form = "curl" =>
              \A i \in DOMAIN w.groups : w.groups[i] = Parameters =>
                 \E j \in DOMAIN w.groups : w.groups[j].prefix = "Cookie:"
    BY <2>2 DEF Misread
  <2>5. \/ Imported = c
        \/ w.form = "har" /\ Imported = c \o c
    BY <2>2, <2>3, <2>4, WritingIsRead DEF Imported
  <2> QED BY <2>1, <2>2, <2>3, <2>5, TwiceAsOnce
<1> QED BY <1>1, CookieHolds, PTL
===============================================================================
