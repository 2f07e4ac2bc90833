----------------------------- MODULE GatewayProofs -----------------------------
(***************************************************************************)
(* Theorems about the gateway's handlers, for every number of requests,    *)
(* credentials and slots and whatever the upstream and the clients do.     *)
(***************************************************************************)
EXTENDS Gateway, SequenceTheorems, FiniteSetTheorems, TLAPS

(* A queue as the set of those who wait in it. *)
LEMMA AppendSet ==
    ASSUME NEW T, NEW q \in Seq(T), NEW t \in T, t \notin ToSet(q), IsInjective(q)
    PROVE  /\ Append(q, t) \in Seq(T)
           /\ ToSet(Append(q, t)) = ToSet(q) \cup {t}
           /\ IsInjective(Append(q, t))
<1>1. /\ Append(q, t) \in Seq(T)
      /\ Len(Append(q, t)) = Len(q) + 1
      /\ \A i \in 1..Len(q) : Append(q, t)[i] = q[i]
      /\ Append(q, t)[Len(q) + 1] = t
  BY AppendProperties
<1>2. /\ DOMAIN q = 1..Len(q) /\ Len(q) \in Nat
      /\ DOMAIN Append(q, t) = 1..(Len(q) + 1)
  BY <1>1, LenProperties
<1> QED BY <1>1, <1>2 DEF ToSet, IsInjective

LEMMA TailSet ==
    ASSUME NEW T, NEW q \in Seq(T), q # <<>>, IsInjective(q)
    PROVE  /\ Head(q) \in T /\ Head(q) \in ToSet(q)
           /\ Tail(q) \in Seq(T)
           /\ ToSet(Tail(q)) = ToSet(q) \ {Head(q)}
           /\ IsInjective(Tail(q))
<1>1. /\ Head(q) \in T
      /\ Tail(q) \in Seq(T)
      /\ Len(Tail(q)) = Len(q) - 1
      /\ \A i \in 1..Len(Tail(q)) : Tail(q)[i] = q[i + 1]
  BY HeadTailProperties
<1>2. /\ DOMAIN q = 1..Len(q) /\ Len(q) \in Nat \ {0}
      /\ DOMAIN Tail(q) = 1..(Len(q) - 1)
  BY <1>1, LenProperties, EmptySeq
<1>3. Head(q) = q[1]
  BY <1>2
<1>4. \A i \in 1..(Len(q) - 1) : Tail(q)[i] = q[i + 1] /\ i + 1 \in 1..Len(q)
  BY <1>1, <1>2
<1>5. \A i \in 1..Len(q) : i = 1 \/ (i - 1 \in 1..(Len(q) - 1) /\ (i - 1) + 1 = i)
  BY <1>2
<1>6. ToSet(Tail(q)) \subseteq ToSet(q) \ {Head(q)}
  BY <1>2, <1>3, <1>4 DEF ToSet, IsInjective
<1>7. ASSUME NEW i \in 1..Len(q), q[i] # Head(q) PROVE q[i] \in ToSet(Tail(q))
  <2>1. i - 1 \in 1..(Len(q) - 1) /\ (i - 1) + 1 = i
    BY <1>3, <1>5, <1>7
  <2>2. Tail(q)[i - 1] = q[i]
    BY <1>4, <2>1
  <2> QED BY <1>2, <2>1, <2>2 DEF ToSet
<1>8. ToSet(q) \ {Head(q)} \subseteq ToSet(Tail(q))
  BY <1>2, <1>7 DEF ToSet
<1>9. IsInjective(Tail(q))
  <2> SUFFICES ASSUME NEW i \in 1..(Len(q) - 1), NEW j \in 1..(Len(q) - 1),
                      Tail(q)[i] = Tail(q)[j]
               PROVE  i = j
    BY <1>2 DEF IsInjective
  <2>1. q[i + 1] = q[j + 1]
    BY <1>4
  <2>2. i + 1 = j + 1
    BY <1>2, <1>4, <2>1 DEF IsInjective
  <2> QED BY <2>2, <1>2
<1>10. Head(q) \in ToSet(q)
  BY <1>2, <1>3 DEF ToSet
<1> QED BY <1>1, <1>6, <1>8, <1>9, <1>10

LEMMA RemoveSet ==
    ASSUME NEW T, NEW q \in Seq(T), IsInjective(q), NEW i \in DOMAIN q
    PROVE  /\ RemoveAt(q, i) \in Seq(T)
           /\ ToSet(RemoveAt(q, i)) = ToSet(q) \ {q[i]}
           /\ IsInjective(RemoveAt(q, i))
<1> DEFINE n == Len(q)
           r == RemoveAt(q, i)
           a == SubSeq(q, 1, i - 1)
           b == SubSeq(q, i + 1, n)
<1>1. n \in Nat /\ DOMAIN q = 1..n /\ i \in 1..n /\ \A j \in 1..n : q[j] \in T
  BY LenProperties, ElementOfSeq
<1>2. /\ a \in Seq(T) /\ Len(a) = i - 1
      /\ \A j \in 1..(i - 1) : a[j] = q[j]
  <2>1. i - 1 \in Int /\ 1 \in Int /\ \A j \in 1..(i - 1) : q[j] \in T
    BY <1>1
  <2>2. /\ a \in Seq(T)
        /\ Len(a) = IF 1 <= i - 1 THEN (i - 1) - 1 + 1 ELSE 0
        /\ \A j \in 1..((i - 1) - 1 + 1) : a[j] = q[1 + j - 1]
    BY ONLY <2>1, SubSeqProperties
  <2>3. (i - 1) - 1 + 1 = i - 1 /\ \A j \in 1..(i - 1) : 1 + j - 1 = j
    BY <1>1
  <2>4. Len(a) = i - 1
    BY <2>2, <1>1
  <2> QED BY <2>2, <2>3, <2>4
<1>3. /\ b \in Seq(T) /\ Len(b) = n - i
      /\ \A j \in 1..(n - i) : b[j] = q[i + j]
  <2>1. i + 1 \in Int /\ n \in Int /\ \A j \in (i + 1)..n : q[j] \in T
    BY <1>1
  <2>2. /\ b \in Seq(T)
        /\ Len(b) = IF i + 1 <= n THEN n - (i + 1) + 1 ELSE 0
        /\ \A j \in 1..(n - (i + 1) + 1) : b[j] = q[(i + 1) + j - 1]
    BY ONLY <2>1, SubSeqProperties
  <2>3. n - (i + 1) + 1 = n - i /\ \A j \in 1..(n - i) : (i + 1) + j - 1 = i + j
    BY <1>1
  <2>4. Len(b) = n - i
    BY <2>2, <1>1
  <2> QED BY <2>2, <2>3, <2>4
<1>4. r = a \o b
  BY DEF RemoveAt
<1> HIDE DEF a, b, r
<1>5. /\ r \in Seq(T)
      /\ Len(r) = n - 1
      /\ \A j \in 1..(i - 1) : r[j] = q[j]
      /\ \A j \in i..(n - 1) : r[j] = q[j + 1]
  <2>1. /\ r \in Seq(T)
        /\ Len(r) = Len(a) + Len(b)
        /\ \A j \in 1..(Len(a) + Len(b)) :
              r[j] = IF j <= Len(a) THEN a[j] ELSE b[j - Len(a)]
    BY <1>2, <1>3, <1>4, ConcatProperties
  <2>2. Len(a) + Len(b) = n - 1
    BY <1>1, <1>2, <1>3
  <2>3. ASSUME NEW j \in 1..(i - 1) PROVE r[j] = q[j]
    <3>1. j \in 1..(Len(a) + Len(b)) /\ j <= Len(a)
      BY <1>1, <1>2, <2>2
    <3> QED BY <2>1, <3>1, <1>2
  <2>4. ASSUME NEW j \in i..(n - 1) PROVE r[j] = q[j + 1]
    <3>1. /\ j \in 1..(Len(a) + Len(b)) /\ ~(j <= Len(a))
          /\ j - Len(a) \in 1..(n - i) /\ i + (j - Len(a)) = j + 1
      BY <1>1, <1>2, <2>2
    <3> QED BY <2>1, <3>1, <1>3
  <2> QED BY <2>1, <2>2, <2>3, <2>4
<1>6. DOMAIN r = 1..(n - 1)
  BY <1>5, LenProperties
<1> DEFINE from(j) == IF j < i THEN j ELSE j + 1
<1>7. ASSUME NEW j \in 1..(n - 1)
      PROVE  r[j] = q[from(j)] /\ from(j) \in 1..n /\ from(j) # i
  <2>1. CASE j < i
    <3>1. j \in 1..(i - 1) /\ j \in 1..n /\ from(j) = j
      BY <1>1, <2>1
    <3> QED BY <3>1, <2>1, <1>5, <1>1
  <2>2. CASE ~(j < i)
    <3>1. j \in i..(n - 1) /\ from(j) = j + 1 /\ j + 1 \in 1..n /\ j + 1 # i
      BY <1>1, <2>2
    <3> QED BY <3>1, <1>5
  <2> QED BY <2>1, <2>2
<1>8. \A j, k \in 1..(n - 1) : from(j) = from(k) => j = k
  BY <1>1
<1>9. \A j \in 1..n : j # i => \E k \in 1..(n - 1) : from(k) = j
  <2> TAKE j \in 1..n
  <2> HAVE j # i
  <2> DEFINE k == IF j < i THEN j ELSE j - 1
  <2>1. k \in 1..(n - 1) /\ from(k) = j
    BY <1>1
  <2> QED BY <2>1
<1> HIDE DEF from
<1>10. ToSet(r) = ToSet(q) \ {q[i]}
  <2>1. ASSUME NEW j \in 1..(n - 1) PROVE r[j] \in ToSet(q) \ {q[i]}
    <3>1. q[from(j)] # q[i]
      BY <1>1, <1>7 DEF IsInjective
    <3> QED BY <1>1, <1>7, <3>1 DEF ToSet
  <2>2. ASSUME NEW j \in 1..n, q[j] # q[i] PROVE q[j] \in ToSet(r)
    BY <1>6, <1>7, <1>9, <2>2 DEF ToSet
  <2> QED BY <1>1, <1>6, <2>1, <2>2 DEF ToSet
<1>11. IsInjective(r)
  BY <1>1, <1>6, <1>7, <1>8 DEF IsInjective
<1> QED BY <1>5, <1>10, <1>11 DEF r

-------------------------------------------------------------------------------
(* The semaphore. *)

Held(s) == {t \in permits : tier[t] = s}

(* The semaphore by itself: the permits taken and free make up the capacity,  *)
(* a queue holds requests of its tier, each once and without a permit.       *)
SemInv ==
    /\ free \in [Tiers -> Nat]
    /\ queue \in [Tiers -> Seq(Tasks)]
    /\ permits \subseteq Tasks
    /\ tier \in [Tasks -> Tiers]
    /\ \A s \in Tiers :
        /\ IsFiniteSet(Held(s))
        /\ free[s] + Cardinality(Held(s)) = Capacity[s]
        /\ free[s] > 0 => queue[s] = <<>>
        /\ IsInjective(queue[s])
        /\ \A t \in ToSet(queue[s]) : t \in Tasks /\ tier[t] = s /\ t \notin permits

(* Who waits and who holds a permit is the same but for one request. *)
SameFor(u) ==
    /\ u \in permits' <=> u \in permits
    /\ \A s \in Tiers : u \in ToSet(queue'[s]) <=> u \in ToSet(queue[s])

LEMMA EmptyQueue == ToSet(<<>>) = {} /\ IsInjective(<<>>)
BY DEF ToSet, IsInjective

(* A permit more, or a permit fewer. *)
LEMMA HeldMore ==
    ASSUME NEW S, IsFiniteSet(S), NEW t, t \notin S,
           NEW n \in Int, NEW c, n + Cardinality(S) = c
    PROVE  IsFiniteSet(S \cup {t}) /\ (n - 1) + Cardinality(S \cup {t}) = c
<1>1. IsFiniteSet(S \cup {t}) /\ Cardinality(S \cup {t}) = Cardinality(S) + 1
  BY FS_AddElement
<1>2. Cardinality(S) \in Nat
  BY FS_CardinalityType
<1> QED BY <1>1, <1>2

LEMMA HeldFewer ==
    ASSUME NEW S, IsFiniteSet(S), NEW t, t \in S,
           NEW n \in Int, NEW c, n + Cardinality(S) = c
    PROVE  IsFiniteSet(S \ {t}) /\ (n + 1) + Cardinality(S \ {t}) = c
<1>1. IsFiniteSet(S \ {t}) /\ Cardinality(S \ {t}) = Cardinality(S) - 1
  BY FS_RemoveElement
<1>2. Cardinality(S) \in Nat
  BY FS_CardinalityType
<1> QED BY <1>1, <1>2

LEMMA TakeStep ==
    ASSUME SemInv, NEW t \in Tasks, TakeOrQueue(t), tier' = tier,
           t \notin permits, t \notin ToSet(queue[tier[t]])
    PROVE  /\ SemInv'
           /\ t \in permits' <=> t \notin ToSet(queue'[tier[t]])
           /\ \A s \in Tiers \ {tier[t]} : t \notin ToSet(queue'[s])
           /\ \A u \in Tasks \ {t} : SameFor(u)
<1> DEFINE k == tier[t]
<1>0. k \in Tiers
  BY DEF SemInv
<1>1. CASE free[k] > 0 /\ free' = [free EXCEPT ![k] = @ - 1]
           /\ permits' = permits \cup {t} /\ UNCHANGED queue
  <2>1. free' \in [Tiers -> Nat] /\ permits' \subseteq Tasks
    BY <1>0, <1>1 DEF SemInv
  <2>2. ASSUME NEW s \in Tiers
        PROVE  /\ IsFiniteSet(Held(s))'
               /\ (free[s] + Cardinality(Held(s)) = Capacity[s])'
    <3>1. Held(s)' = IF s = k THEN Held(s) \cup {t} ELSE Held(s)
      BY <1>1 DEF Held
    <3>2. t \notin Held(s)
      BY DEF Held
    <3>3. free'[s] = (IF s = k THEN free[s] - 1 ELSE free[s]) /\ free[s] \in Int
      BY <1>0, <1>1 DEF SemInv
    <3>4. IsFiniteSet(Held(s)) /\ free[s] + Cardinality(Held(s)) = Capacity[s]
      BY DEF SemInv
    <3>5. Capacity' = Capacity
      BY DEF Capacity
    <3>6. /\ IsFiniteSet(Held(s) \cup {t})
          /\ (free[s] - 1) + Cardinality(Held(s) \cup {t}) = Capacity[s]
      BY <3>2, <3>3, <3>4, HeldMore
    <3> QED BY <3>1, <3>3, <3>4, <3>5, <3>6
  <2>3. ASSUME NEW s \in Tiers, free'[s] > 0 PROVE queue'[s] = <<>>
    BY <1>0, <1>1, <2>3 DEF SemInv
  <2>4. ASSUME NEW s \in Tiers PROVE t \notin ToSet(queue[s])
    BY <2>4 DEF SemInv
  <2> QED BY <1>0, <1>1, <2>1, <2>2, <2>3, <2>4 DEF SemInv, SameFor
<1>2. CASE free[k] = 0 /\ queue' = [queue EXCEPT ![k] = Append(@, t)]
           /\ UNCHANGED <<free, permits>>
  <2>1. /\ Append(queue[k], t) \in Seq(Tasks)
        /\ ToSet(Append(queue[k], t)) = ToSet(queue[k]) \cup {t}
        /\ IsInjective(Append(queue[k], t))
    BY <1>0, AppendSet DEF SemInv
  <2>2. queue' \in [Tiers -> Seq(Tasks)]
    BY <1>0, <1>2, <2>1 DEF SemInv
  <2>3. ASSUME NEW s \in Tiers
        PROVE  /\ IsInjective(queue'[s])
               /\ ToSet(queue'[s]) = ToSet(queue[s]) \cup (IF s = k THEN {t} ELSE {})
    BY <1>0, <1>2, <2>1 DEF SemInv
  <2>4. \A s \in Tiers : Held(s)' = Held(s)
    BY <1>2 DEF Held
  <2>5. Capacity' = Capacity
    BY DEF Capacity
  <2>6. ASSUME NEW s \in Tiers, free'[s] > 0 PROVE queue'[s] = <<>>
    BY <1>0, <1>2, <2>6 DEF SemInv
  <2>7. ASSUME NEW s \in Tiers, s # k PROVE t \notin ToSet(queue[s])
    BY <2>7 DEF SemInv
  <2>8. SemInv'
    BY <1>0, <1>2, <2>2, <2>3, <2>4, <2>5, <2>6 DEF SemInv
  <2> QED BY <1>0, <1>2, <2>3, <2>7, <2>8 DEF SameFor
<1> QED BY <1>1, <1>2 DEF TakeOrQueue

LEMMA GiveStep ==
    ASSUME SemInv, NEW t \in Tasks, GiveBack(t), tier' = tier
    PROVE  /\ SemInv'
           /\ t \in permits /\ t \notin permits'
           /\ \A s \in Tiers : t \notin ToSet(queue'[s])
           /\ \A u \in Tasks \ {t} :
                \/ SameFor(u)
                \/ /\ u \in permits' /\ u \in ToSet(queue[tier[u]])
                   /\ \A s \in Tiers : u \notin ToSet(queue'[s])
<1> DEFINE k == tier[t]
           h == Head(queue[k])
<1>0. k \in Tiers /\ t \in permits
  BY DEF SemInv, GiveBack
<1>q. ASSUME NEW s \in Tiers PROVE t \notin ToSet(queue[s])
  BY <1>0, <1>q DEF SemInv
<1>c. Capacity' = Capacity
  BY DEF Capacity
<1>1. CASE queue[k] = <<>> /\ free' = [free EXCEPT ![k] = @ + 1]
           /\ permits' = permits \ {t} /\ UNCHANGED queue
  <2>1. free' \in [Tiers -> Nat] /\ permits' \subseteq Tasks
    BY <1>0, <1>1 DEF SemInv
  <2>2. ASSUME NEW s \in Tiers
        PROVE  /\ IsFiniteSet(Held(s))'
               /\ (free[s] + Cardinality(Held(s)) = Capacity[s])'
    <3>1. Held(s)' = IF s = k THEN Held(s) \ {t} ELSE Held(s)
      BY <1>1 DEF Held
    <3>2. s = k => t \in Held(s)
      BY <1>0 DEF Held
    <3>3. free'[s] = (IF s = k THEN free[s] + 1 ELSE free[s]) /\ free[s] \in Int
      BY <1>0, <1>1 DEF SemInv
    <3>4. IsFiniteSet(Held(s)) /\ free[s] + Cardinality(Held(s)) = Capacity[s]
      BY DEF SemInv
    <3>5. CASE s = k
      <4>1. /\ IsFiniteSet(Held(s) \ {t})
            /\ (free[s] + 1) + Cardinality(Held(s) \ {t}) = Capacity[s]
        <5>1. t \in Held(s) /\ free[s] \in Int
          BY <3>2, <3>3, <3>5
        <5> HIDE DEF k, h
        <5> QED BY ONLY <5>1, <3>4, HeldFewer
      <4> QED BY <3>1, <3>3, <3>5, <4>1, <1>c
    <3>6. CASE s # k
      BY <3>1, <3>3, <3>4, <3>6, <1>c
    <3> QED BY <3>5, <3>6
  <2>3. ASSUME NEW s \in Tiers, free'[s] > 0 PROVE queue'[s] = <<>>
    BY <1>0, <1>1, <2>3 DEF SemInv
  <2> QED BY <1>0, <1>1, <1>q, <2>1, <2>2, <2>3 DEF SemInv, SameFor
<1>2. CASE queue[k] # <<>> /\ permits' = (permits \ {t}) \cup {h}
           /\ queue' = [queue EXCEPT ![k] = Tail(@)] /\ UNCHANGED free
  <2>1. /\ h \in Tasks /\ h \in ToSet(queue[k])
        /\ Tail(queue[k]) \in Seq(Tasks)
        /\ ToSet(Tail(queue[k])) = ToSet(queue[k]) \ {h}
        /\ IsInjective(Tail(queue[k]))
    BY <1>0, <1>2, TailSet DEF SemInv
  <2>2. h # t /\ h \notin permits /\ tier[h] = k
    BY <1>0, <2>1 DEF SemInv
  <2>3. queue' \in [Tiers -> Seq(Tasks)] /\ permits' \subseteq Tasks
    BY <1>0, <1>2, <2>1 DEF SemInv
  <2>4. ASSUME NEW s \in Tiers
        PROVE  /\ IsInjective(queue'[s])
               /\ ToSet(queue'[s]) = ToSet(queue[s]) \ (IF s = k THEN {h} ELSE {})
    BY <1>0, <1>2, <2>1 DEF SemInv
  <2>5. ASSUME NEW s \in Tiers
        PROVE  /\ IsFiniteSet(Held(s))'
               /\ (free[s] + Cardinality(Held(s)) = Capacity[s])'
    <3>1. Held(s)' = IF s = k THEN (Held(s) \ {t}) \cup {h} ELSE Held(s)
      BY <1>0, <1>2, <2>1, <2>2 DEF Held
    <3>2. (s = k => t \in Held(s)) /\ h \notin Held(s) \ {t}
      BY <1>0, <2>2 DEF Held
    <3>3. free'[s] = free[s] /\ free[s] \in Int
      BY <1>2 DEF SemInv
    <3>4. IsFiniteSet(Held(s)) /\ free[s] + Cardinality(Held(s)) = Capacity[s]
      BY DEF SemInv
    <3> DEFINE S == Held(s) \ {t}
    <3>5. CASE s = k
      <4>1. IsFiniteSet(S) /\ (free[s] + 1) + Cardinality(S) = Capacity[s]
        <5>1. t \in Held(s) /\ free[s] \in Int
          BY <3>2, <3>3, <3>5
        <5> HIDE DEF k, h
        <5> QED BY ONLY <5>1, <3>4, HeldFewer
      <4>2. h \notin S /\ free[s] + 1 \in Int
        BY <3>2, <3>3
      <4> HIDE DEF S
      <4>3. /\ IsFiniteSet(S \cup {h})
            /\ ((free[s] + 1) - 1) + Cardinality(S \cup {h}) = Capacity[s]
        BY <4>1, <4>2, HeldMore
      <4>4. Held(s)' = S \cup {h} /\ (free[s] + 1) - 1 = free[s]
        BY <3>1, <3>3, <3>5 DEF S
      <4> QED BY <3>3, <4>3, <4>4, <1>c
    <3>6. CASE s # k
      BY <3>1, <3>3, <3>4, <3>6, <1>c
    <3> QED BY <3>5, <3>6
  <2>6. ASSUME NEW s \in Tiers, free'[s] > 0 PROVE queue'[s] = <<>>
    BY <1>0, <1>2, <2>6 DEF SemInv
  <2>7. ASSUME NEW s \in Tiers, NEW u \in ToSet(queue'[s])
        PROVE  u \in Tasks /\ tier'[u] = s /\ u \notin permits'
    <3>1. u \in ToSet(queue[s]) /\ u # h
      BY <2>1, <2>2, <2>4, <2>7 DEF SemInv
    <3> QED BY <1>2, <3>1 DEF SemInv
  <2>8. SemInv'
    BY <1>2, <2>3, <2>4, <2>5, <2>6, <2>7 DEF SemInv
  <2>9. t \notin permits' /\ \A s \in Tiers : t \notin ToSet(queue'[s])
    BY <1>2, <1>q, <2>2, <2>4
  <2>10. \A u \in Tasks \ {t, h} : SameFor(u)
    BY <1>2, <2>4 DEF SameFor
  <2>11. /\ h \in permits' /\ h \in ToSet(queue[tier[h]])
         /\ \A s \in Tiers : h \notin ToSet(queue'[s])
    BY <1>2, <2>1, <2>2, <2>8 DEF SemInv
  <2> QED BY <1>0, <2>8, <2>9, <2>10, <2>11
<1> QED BY <1>1, <1>2 DEF GiveBack

LEMMA LeaveStep ==
    ASSUME SemInv, NEW t \in Tasks, LeaveQueue(t), tier' = tier
    PROVE  /\ SemInv'
           /\ t \notin permits /\ t \notin permits'
           /\ \A s \in Tiers : t \notin ToSet(queue'[s])
           /\ \A u \in Tasks \ {t} : SameFor(u)
<1> DEFINE k == tier[t]
<1>0. k \in Tiers /\ t \notin permits /\ UNCHANGED <<free, permits>>
  BY DEF SemInv, LeaveQueue
<1>q. ASSUME NEW s \in Tiers \ {k} PROVE t \notin ToSet(queue[s])
  BY <1>q DEF SemInv
<1>1. CASE t \notin ToSet(queue[k]) /\ UNCHANGED queue
  <2>1. \A s \in Tiers : Held(s)' = Held(s)
    BY <1>0 DEF Held
  <2>2. Capacity' = Capacity
    BY DEF Capacity
  <2>3. SemInv'
    BY <1>0, <1>1, <2>1, <2>2 DEF SemInv
  <2> QED BY <1>0, <1>1, <1>q, <2>3 DEF SameFor
<1>2. CASE \E i \in DOMAIN queue[k] :
              queue[k][i] = t /\ queue' = [queue EXCEPT ![k] = RemoveAt(@, i)]
  <2>1. PICK i \in DOMAIN queue[k] :
              queue[k][i] = t /\ queue' = [queue EXCEPT ![k] = RemoveAt(@, i)]
    BY <1>2
  <2>2. /\ RemoveAt(queue[k], i) \in Seq(Tasks)
        /\ ToSet(RemoveAt(queue[k], i)) = ToSet(queue[k]) \ {t}
        /\ IsInjective(RemoveAt(queue[k], i))
    BY <1>0, <2>1, RemoveSet DEF SemInv
  <2>3. queue' \in [Tiers -> Seq(Tasks)]
    BY <1>0, <2>1, <2>2 DEF SemInv
  <2>4. ASSUME NEW s \in Tiers
        PROVE  /\ IsInjective(queue'[s])
               /\ ToSet(queue'[s]) = ToSet(queue[s]) \ (IF s = k THEN {t} ELSE {})
    BY <1>0, <2>1, <2>2 DEF SemInv
  <2>5. ASSUME NEW s \in Tiers, free'[s] > 0 PROVE queue'[s] = <<>>
    <3>1. queue[s] = <<>>
      BY <1>0, <2>5 DEF SemInv
    <3>2. t \in ToSet(queue[k])
      BY <2>1 DEF ToSet
    <3>3. s # k
      BY <3>1, <3>2, EmptyQueue
    <3> QED BY <1>0, <2>1, <3>1, <3>3 DEF SemInv
  <2>6. \A s \in Tiers : Held(s)' = Held(s)
    BY <1>0 DEF Held
  <2>7. Capacity' = Capacity
    BY DEF Capacity
  <2>8. SemInv'
    BY <1>0, <2>3, <2>4, <2>5, <2>6, <2>7 DEF SemInv
  <2> QED BY <1>0, <1>q, <2>4, <2>8 DEF SameFor
<1> QED BY <1>1, <1>2 DEF LeaveQueue
-------------------------------------------------------------------------------
(* The requests and the semaphore together. *)

Labels  == {"idle", "picking", "refused", "acquire", "queued", "body"} \cup Inside
Whats   == {"success", "401", "429", "502"}
Results == {<<>>, <<"success">>, <<"401">>, <<"429">>, <<"502">>}

(* The variables that are the requests' own. *)
Typed ==
    /\ cooling \subseteq Creds
    /\ pc \in [Tasks -> Labels]
    /\ tier \in [Tasks -> Tiers]
    /\ cred \in [Tasks -> Creds \cup {NoCred}]
    /\ retried \in [Tasks -> BOOLEAN]
    /\ calls \in [Tasks -> 0..2]
    /\ records \in [Tasks -> Results]
    /\ told \in [Tasks -> {0, 200, 400, 401, 429, 502}]
    /\ \A t \in Tasks : (cred[t] = NoCred) <=> (pc[t] \in {"idle", "picking", "refused"})

(* Where a request is says who has its permit; only a request at the acquire  *)
(* waits for one.                                                            *)
Link(t) ==
    /\ t \in permits <=>
          \/ pc[t] \in Inside
          \/ pc[t] = "queued" /\ t \notin ToSet(queue[tier[t]])
    /\ \A s \in Tiers : t \in ToSet(queue[s]) => pc[t] = "queued"

LinkInv == SemInv /\ \A t \in Tasks : Link(t)

LEMMA SameSemaphore ==
    ASSUME SemInv, UNCHANGED <<bucket, tier>>
    PROVE  SemInv'
<1>1. \A s \in Tiers : Held(s)' = Held(s)
  BY DEF bucket, Held
<1>2. Capacity' = Capacity
  BY DEF Capacity
<1> QED BY <1>1, <1>2 DEF SemInv, bucket

(* A request goes on, inside or outside of its permit. *)
LEMMA GoOn ==
    ASSUME Typed, LinkInv, NEW t \in Tasks, NEW l \in Labels \ {"queued"},
           Go(t, l), UNCHANGED <<bucket, tier>>,
           pc[t] # "queued" \/ t \in permits,
           (l \in Inside) <=> (t \in permits)
    PROVE  LinkInv'
<1>1. SemInv'
  BY SameSemaphore DEF LinkInv
<1>2. ASSUME NEW u \in Tasks PROVE Link(u)'
  <2>1. CASE u = t
    <3>1. pc'[u] = l
      BY <2>1 DEF Go, Typed
    <3>2. ASSUME NEW s \in Tiers PROVE u \notin ToSet(queue[s])
      BY <2>1 DEF LinkInv, Link, SemInv
    <3> QED BY <2>1, <3>1, <3>2 DEF Link, bucket
  <2>2. CASE u # t
    <3>1. pc'[u] = pc[u]
      BY <2>2 DEF Go, Typed
    <3> QED BY <3>1 DEF LinkInv, Link, bucket
  <2> QED BY <2>1, <2>2
<1> QED BY <1>1, <1>2 DEF LinkInv

(* A request leaves with its permit given back, or leaves the queue. *)
LEMMA GoAway ==
    ASSUME Typed, LinkInv, NEW t \in Tasks, NEW l \in {"idle", "body"},
           Go(t, l), GiveBack(t) \/ LeaveQueue(t), tier' = tier
    PROVE  LinkInv'
<1>1. /\ SemInv'
      /\ t \notin permits'
      /\ \A s \in Tiers : t \notin ToSet(queue'[s])
      /\ \A u \in Tasks \ {t} :
           \/ SameFor(u)
           \/ /\ u \in permits' /\ u \in ToSet(queue[tier[u]])
              /\ \A s \in Tiers : u \notin ToSet(queue'[s])
  <2>1. CASE GiveBack(t)
    BY <2>1, GiveStep DEF LinkInv
  <2>2. CASE LeaveQueue(t)
    BY <2>2, LeaveStep DEF LinkInv
  <2> QED BY <2>1, <2>2
<1>2. ASSUME NEW u \in Tasks PROVE Link(u)'
  <2>0. tier[u] \in Tiers
    BY DEF Typed
  <2>1. CASE u = t
    <3>1. pc'[u] = l
      BY <2>1 DEF Go, Typed
    <3> QED BY <2>1, <3>1, <1>1 DEF Link, Inside
  <2>2. CASE u # t /\ SameFor(u)
    <3>1. pc'[u] = pc[u]
      BY <2>2 DEF Go, Typed
    <3> QED BY <2>0, <2>2, <3>1 DEF LinkInv, Link, SameFor
  <2>3. CASE u # t /\ ~SameFor(u)
    <3>1. pc'[u] = pc[u]
      BY <2>3 DEF Go, Typed
    <3>2. /\ u \in permits' /\ u \in ToSet(queue[tier[u]])
          /\ \A s \in Tiers : u \notin ToSet(queue'[s])
      BY <1>1, <2>3
    <3>3. pc[u] = "queued"
      BY <2>0, <3>2 DEF LinkInv, Link
    <3> QED BY <2>0, <3>1, <3>2, <3>3 DEF Link
  <2> QED BY <2>1, <2>2, <2>3
<1> QED BY <1>1, <1>2 DEF LinkInv

LEMMA Arrives ==
    ASSUME Typed, LinkInv, NEW t \in Tasks, Arrive(t)
    PROVE  LinkInv'
<1>1. PICK k \in Tiers : tier' = [tier EXCEPT ![t] = k]
  BY DEF Arrive
<1>2. /\ pc[t] = "idle" /\ pc' = [pc EXCEPT ![t] = "picking"]
      /\ UNCHANGED <<free, queue, permits>>
  BY DEF Arrive, Go, bucket
<1>3. t \notin permits /\ \A s \in Tiers : t \notin ToSet(queue[s])
  BY <1>2 DEF LinkInv, Link, Inside
<1>4. /\ tier' \in [Tasks -> Tiers] /\ tier'[t] = k
      /\ \A u \in Tasks \ {t} : tier'[u] = tier[u] /\ pc'[u] = pc[u]
      /\ pc'[t] = "picking"
  BY <1>1, <1>2 DEF Typed
<1>5. ASSUME NEW s \in Tiers PROVE Held(s)' = Held(s)
  BY <1>2, <1>3, <1>4 DEF Held, LinkInv, SemInv
<1>6. Capacity' = Capacity
  BY DEF Capacity
<1>7. SemInv'
  BY <1>2, <1>3, <1>4, <1>5, <1>6 DEF LinkInv, SemInv
<1>8. ASSUME NEW u \in Tasks PROVE Link(u)'
  <2>1. CASE u = t
    BY <1>2, <1>3, <1>4, <2>1 DEF Link, Inside
  <2>2. CASE u # t
    BY <1>2, <1>4, <2>2 DEF LinkInv, Link
  <2> QED BY <2>1, <2>2
<1> QED BY <1>7, <1>8 DEF LinkInv

LEMMA Acquires ==
    ASSUME Typed, LinkInv, NEW t \in Tasks, Acquire(t)
    PROVE  LinkInv'
<1>1. /\ pc[t] = "acquire" /\ pc' = [pc EXCEPT ![t] = "queued"]
      /\ TakeOrQueue(t) /\ tier' = tier
  BY DEF Acquire, Go, request
<1>2. tier[t] \in Tiers /\ t \notin permits /\ t \notin ToSet(queue[tier[t]])
  BY <1>1 DEF Typed, LinkInv, Link, Inside
<1>3. /\ SemInv'
      /\ t \in permits' <=> t \notin ToSet(queue'[tier[t]])
      /\ \A s \in Tiers \ {tier[t]} : t \notin ToSet(queue'[s])
      /\ \A u \in Tasks \ {t} : SameFor(u)
  BY <1>1, <1>2, TakeStep DEF LinkInv
<1>4. pc'[t] = "queued" /\ \A u \in Tasks \ {t} : pc'[u] = pc[u]
  BY <1>1 DEF Typed
<1>5. ASSUME NEW u \in Tasks PROVE Link(u)'
  <2>0. tier[u] \in Tiers
    BY DEF Typed
  <2>1. CASE u = t
    BY <1>1, <1>3, <1>4, <2>1 DEF Link, Inside
  <2>2. CASE u # t
    BY <1>1, <1>3, <1>4, <2>0, <2>2 DEF LinkInv, Link, SameFor
  <2> QED BY <2>1, <2>2
<1> QED BY <1>3, <1>5 DEF LinkInv

(* No step of a handler, of a client or of the clock takes the semaphore and  *)
(* the requests apart.                                                       *)
LEMMA LinkStep ==
    ASSUME Typed, LinkInv, [Next]_vars
    PROVE  LinkInv'
<1>1. ASSUME NEW t \in Tasks, pc[t] \notin Inside, pc[t] # "queued" PROVE t \notin permits
  BY <1>1 DEF LinkInv, Link
<1>2. ASSUME NEW t \in Tasks, pc[t] \in Inside PROVE t \in permits
  BY <1>2 DEF LinkInv, Link
<1>3. ASSUME NEW t \in Tasks, Pick(t) \/ PickNone(t) \/ Refuse(t) \/ BodyEnds(t) PROVE LinkInv'
  <2>1. /\ pc[t] \in {"picking", "refused", "body"}
        /\ Go(t, "acquire") \/ Go(t, "refused") \/ Go(t, "idle")
        /\ UNCHANGED <<bucket, tier>>
    BY <1>3 DEF Pick, PickNone, Refuse, BodyEnds, request
  <2>2. t \notin permits /\ pc[t] # "queued"
    BY <1>1, <2>1 DEF Inside
  <2> QED BY <2>1, <2>2, GoOn DEF Labels, Inside
<1>4. ASSUME NEW t \in Tasks, Admit(t) PROVE LinkInv'
  <2>1. t \in permits /\ Go(t, "check") /\ UNCHANGED <<bucket, tier>>
    BY <1>4 DEF Admit, request
  <2> QED BY <2>1, GoOn DEF Labels, Inside
<1>5. ASSUME NEW t \in Tasks, pc[t] \in Inside, UNCHANGED <<bucket, tier>>,
             NEW l \in Inside, Go(t, l)
      PROVE  LinkInv'
  <2>1. l \in Labels \ {"queued"}
    BY DEF Labels, Inside
  <2> QED BY <1>2, <1>5, <2>1, GoOn
<1>6. ASSUME NEW t \in Tasks, NEW l \in {"idle", "body"}, Go(t, l),
             GiveBack(t) \/ LeaveQueue(t), tier' = tier
      PROVE  LinkInv'
  BY <1>6, GoAway
<1>7. ASSUME NEW t \in Tasks, NEW status, Answer(t, status), tier' = tier PROVE LinkInv'
  BY <1>6, <1>7 DEF Answer
<1>8. ASSUME NEW t \in Tasks, Check(t) PROVE LinkInv'
  BY <1>5, <1>7, <1>8 DEF Check, request, Inside
<1>9. ASSUME NEW t \in Tasks, Ensured(t) PROVE LinkInv'
  BY <1>5, <1>9 DEF Ensured, Inside
<1>10. ASSUME NEW t \in Tasks, EnsureFails(t) \/ EnsureFailsAgain(t) \/ Fails(t) \/ Collected(t)
       PROVE  LinkInv'
  BY <1>7, <1>10 DEF EnsureFails, EnsureFailsAgain, Fails, Collected
<1>11. ASSUME NEW t \in Tasks, Limited(t) PROVE LinkInv'
  BY <1>5, <1>7, <1>11 DEF Limited, Inside
<1>12. ASSUME NEW t \in Tasks, Opened(t) PROVE LinkInv'
  BY <1>5, <1>6, <1>12 DEF Opened, Inside
<1>13. ASSUME NEW t \in Tasks, Disconnect(t) PROVE LinkInv'
  BY <1>6, <1>13 DEF Disconnect
<1>14. ASSUME UNCHANGED <<bucket, pc, request>> PROVE LinkInv'
  <2>1. SemInv'
    BY <1>14, SameSemaphore DEF LinkInv, request
  <2> QED BY <1>14, <2>1 DEF LinkInv, Link, bucket, request
<1>15. ASSUME NEW c \in Creds, CoolEnd(c) PROVE LinkInv'
  BY <1>14, <1>15 DEF CoolEnd
<1>16. CASE UNCHANGED vars
  BY <1>14, <1>16 DEF vars
<1> QED
  BY <1>3, <1>4, <1>8, <1>9, <1>10, <1>11, <1>12, <1>13, <1>15, <1>16, Arrives, Acquires
     DEF Next, Handle
-------------------------------------------------------------------------------
(* The requests by themselves. *)

(* What a request has done by the time it is where it is: it was asked once   *)
(* for each session it got, and recorded what came of it and no more.        *)
Fits(label, again, asked, recs, status) ==
    /\ label \in {"picking", "refused", "acquire", "queued", "check"}
          => again = FALSE /\ asked = 0 /\ recs = <<>> /\ status = 0
    /\ label = "ensure"
          => asked = (IF again THEN 1 ELSE 0) /\ recs = <<>> /\ status = 0
    /\ label = "call"
          => asked = (IF again THEN 2 ELSE 1) /\ recs = <<>> /\ status = 0
    /\ label \in {"collect", "body"} => recs = <<"success">> /\ status = 0
    /\ asked = 2 => again = TRUE
    /\ status # 0 => recs \in RecordFor(status)
    /\ status = 429 => (recs = <<>> <=> asked = 0)
    /\ status = 429 /\ asked > 0 => again = TRUE

Progress(t) == Fits(pc[t], retried[t], calls[t], records[t], told[t])

RequestInv == Typed /\ \A t \in Tasks : Progress(t)

(* One request has changed: the others are as they were. *)
Frame(t) ==
    /\ cooling' \subseteq Creds
    /\ pc' \in [Tasks -> Labels] /\ tier' \in [Tasks -> Tiers]
    /\ cred' \in [Tasks -> Creds \cup {NoCred}]
    /\ retried' \in [Tasks -> BOOLEAN] /\ calls' \in [Tasks -> 0..2]
    /\ records' \in [Tasks -> Results]
    /\ told' \in [Tasks -> {0, 200, 400, 401, 429, 502}]
    /\ (cred'[t] = NoCred) <=> (pc'[t] \in {"idle", "picking", "refused"})
    /\ \A u \in Tasks \ {t} :
        /\ pc'[u] = pc[u] /\ cred'[u] = cred[u] /\ retried'[u] = retried[u]
        /\ calls'[u] = calls[u] /\ records'[u] = records[u] /\ told'[u] = told[u]

LEMMA OnlyOne ==
    ASSUME RequestInv, NEW t \in Tasks, Frame(t), Progress(t)'
    PROVE  RequestInv'
<1>1. ASSUME NEW u \in Tasks
      PROVE  /\ (cred'[u] = NoCred) <=> (pc'[u] \in {"idle", "picking", "refused"})
             /\ Progress(u)'
  <2>1. CASE u = t
    BY <2>1 DEF Frame
  <2>2. CASE u # t
    BY <2>2 DEF Frame, RequestInv, Typed, Progress
  <2> QED BY <2>1, <2>2
<1> QED BY <1>1 DEF RequestInv, Typed, Frame

LEMMA NoneRecorded == \A x \in Whats : Append(<<>>, x) = <<x>> /\ <<x>> \in Results
BY DEF Whats, Results

(* What a record changes. *)
LEMMA Records ==
    ASSUME RequestInv, NEW t \in Tasks, NEW what \in Whats,
           Record(t, what), records[t] = <<>>, pc[t] \in {"ensure", "call"}
    PROVE  /\ cooling' \subseteq Creds
           /\ records' = [records EXCEPT ![t] = <<what>>]
           /\ records' \in [Tasks -> Results]
<1>1. records' = [records EXCEPT ![t] = <<what>>]
  BY NoneRecorded DEF Record, RequestInv, Typed
<1>2. cred[t] \in Creds
  BY DEF RequestInv, Typed
<1>3. cooling' \in {cooling \ {cred[t]}, cooling \cup {cred[t]}, cooling}
  BY DEF Record, Whats
<1>4. records' \in [Tasks -> Results]
  BY <1>1, NoneRecorded DEF RequestInv, Typed
<1> QED BY <1>1, <1>2, <1>3, <1>4 DEF RequestInv, Typed

LEMMA RequestStep ==
    ASSUME RequestInv, [Next]_vars
    PROVE  RequestInv'
<1> USE DEF Go, Labels, Inside
<1>1. ASSUME NEW t \in Tasks, Arrive(t) PROVE RequestInv'
  <2>1. Frame(t)
    BY <1>1 DEF Arrive, RequestInv, Typed, Frame, Results
  <2>2. Progress(t)'
    BY <1>1 DEF Arrive, RequestInv, Typed, Progress, Fits
  <2> QED BY <2>1, <2>2, OnlyOne
<1>2. ASSUME NEW t \in Tasks, Pick(t) PROVE RequestInv'
  <2>1. Frame(t)
    BY <1>2, GatewayAssumption DEF Pick, RequestInv, Typed, Frame
  <2>2. Progress(t)'
    BY <1>2 DEF Pick, RequestInv, Typed, Progress, Fits
  <2> QED BY <2>1, <2>2, OnlyOne
<1>3. ASSUME NEW t \in Tasks, PickNone(t) PROVE RequestInv'
  <2>1. Frame(t)
    BY <1>3 DEF PickNone, RequestInv, Typed, Frame, request
  <2>2. Progress(t)'
    BY <1>3 DEF PickNone, RequestInv, Typed, Progress, Fits, request
  <2> QED BY <2>1, <2>2, OnlyOne
<1>4. ASSUME NEW t \in Tasks, Refuse(t) PROVE RequestInv'
  <2>1. Frame(t)
    BY <1>4 DEF Refuse, RequestInv, Typed, Frame, request
  <2>2. Progress(t)'
    BY <1>4 DEF Refuse, RequestInv, Typed, Progress, Fits, RecordFor, request
  <2> QED BY <2>1, <2>2, OnlyOne
<1>5. ASSUME NEW t \in Tasks, Acquire(t) \/ Admit(t) PROVE RequestInv'
  <2>1. Frame(t)
    BY <1>5 DEF Acquire, Admit, RequestInv, Typed, Frame, request
  <2>2. Progress(t)'
    BY <1>5 DEF Acquire, Admit, RequestInv, Typed, Progress, Fits, request
  <2> QED BY <2>1, <2>2, OnlyOne
<1>6. ASSUME NEW t \in Tasks, Check(t) PROVE RequestInv'
  <2>1. Frame(t)
    BY <1>6 DEF Check, Answer, RequestInv, Typed, Frame, request
  <2>2. Progress(t)'
    BY <1>6 DEF Check, Answer, RequestInv, Typed, Progress, Fits, RecordFor, request
  <2> QED BY <2>1, <2>2, OnlyOne
<1>7. ASSUME NEW t \in Tasks, Ensured(t) PROVE RequestInv'
  <2>0. calls[t] = (IF retried[t] THEN 1 ELSE 0) /\ pc[t] = "ensure"
    BY <1>7 DEF Ensured, RequestInv, Progress, Fits
  <2>1. Frame(t)
    BY <1>7, <2>0 DEF Ensured, RequestInv, Typed, Frame
  <2>2. Progress(t)'
    BY <1>7, <2>0 DEF Ensured, RequestInv, Typed, Progress, Fits
  <2> QED BY <2>1, <2>2, OnlyOne
<1>8. ASSUME NEW t \in Tasks, EnsureFails(t) \/ EnsureFailsAgain(t) \/ Fails(t)
      PROVE  RequestInv'
  <2>0. records[t] = <<>> /\ pc[t] \in {"ensure", "call"}
    BY <1>8 DEF EnsureFails, EnsureFailsAgain, Fails, RequestInv, Progress, Fits
  <2>1. PICK what \in {"401", "429", "502"} :
          /\ Record(t, what)
          /\ Answer(t, IF what = "429" THEN 429 ELSE 502)
          /\ what = "429" => pc[t] = "ensure" /\ retried[t]
    BY <1>8 DEF EnsureFails, EnsureFailsAgain, Fails
  <2>2. /\ cooling' \subseteq Creds
        /\ records' = [records EXCEPT ![t] = <<what>>]
        /\ records' \in [Tasks -> Results]
    BY <2>0, <2>1, Records DEF Whats
  <2>3. UNCHANGED <<tier, retried, calls>>
    BY <1>8 DEF EnsureFails, EnsureFailsAgain, Fails
  <2>4. Frame(t)
    BY <2>1, <2>2, <2>3 DEF Answer, RequestInv, Typed, Frame
  <2>5. /\ pc'[t] = "idle" /\ retried'[t] = retried[t] /\ calls'[t] = calls[t]
        /\ records'[t] = <<what>> /\ told'[t] = IF what = "429" THEN 429 ELSE 502
    BY <2>1, <2>2, <2>3 DEF Answer, RequestInv, Typed
  <2>6. calls[t] = 2 => retried[t]
    BY DEF RequestInv, Progress, Fits
  <2>7. what = "429" => retried[t] /\ calls[t] = 1
    BY <2>1 DEF RequestInv, Progress, Fits
  <2>8. <<what>> # <<>>
    OBVIOUS
  <2>9. Progress(t)'
    BY <2>1, <2>5, <2>6, <2>7, <2>8 DEF Progress, Fits, RecordFor
  <2> QED BY <2>4, <2>9, OnlyOne
<1>9. ASSUME NEW t \in Tasks, Limited(t) PROVE RequestInv'
  <2>0. /\ records[t] = <<>> /\ pc[t] = "call"
        /\ calls[t] = (IF retried[t] THEN 2 ELSE 1) /\ told[t] = 0
        /\ tier' = tier /\ calls' = calls
    BY <1>9 DEF Limited, RequestInv, Progress, Fits
  <2>1. CASE /\ ~retried[t]
             /\ retried' = [retried EXCEPT ![t] = TRUE]
             /\ Go(t, "ensure")
             /\ UNCHANGED <<bucket, cooling, cred, records, told>>
    <3>1. Frame(t)
      BY <2>0, <2>1 DEF RequestInv, Typed, Frame
    <3>2. Progress(t)'
      BY <2>0, <2>1 DEF RequestInv, Typed, Progress, Fits
    <3> QED BY <3>1, <3>2, OnlyOne
  <2>2. CASE /\ retried[t]
             /\ Record(t, "429")
             /\ Answer(t, 429)
             /\ UNCHANGED retried
    <3>1. /\ cooling' \subseteq Creds
          /\ records' = [records EXCEPT ![t] = <<"429">>]
          /\ records' \in [Tasks -> Results]
      BY <2>0, <2>2, Records DEF Whats
    <3>2. Frame(t)
      BY <2>0, <2>2, <3>1 DEF Answer, RequestInv, Typed, Frame
    <3>3. /\ pc'[t] = "idle" /\ retried'[t] = TRUE /\ calls'[t] = 2
          /\ records'[t] = <<"429">> /\ told'[t] = 429
      BY <2>0, <2>2, <3>1 DEF Answer, RequestInv, Typed
    <3>4. <<"429">> # <<>>
      OBVIOUS
    <3>5. Progress(t)'
      BY <3>3, <3>4 DEF Progress, Fits, RecordFor
    <3> QED BY <3>2, <3>5, OnlyOne
  <2> QED BY <1>9, <2>1, <2>2 DEF Limited
<1>10. ASSUME NEW t \in Tasks, Opened(t) PROVE RequestInv'
  <2>0. /\ records[t] = <<>> /\ pc[t] = "call" /\ told[t] = 0
        /\ calls[t] = 2 => retried[t] = TRUE
    BY <1>10 DEF Opened, RequestInv, Progress, Fits
  <2>1. /\ cooling' \subseteq Creds
        /\ records' = [records EXCEPT ![t] = <<"success">>]
        /\ records' \in [Tasks -> Results]
    BY <1>10, <2>0, Records DEF Opened, Whats
  <2>2. PICK l \in {"body", "collect"} : pc' = [pc EXCEPT ![t] = l]
    BY <1>10 DEF Opened
  <2>3. Frame(t)
    BY <1>10, <2>0, <2>1, <2>2 DEF Opened, RequestInv, Typed, Frame
  <2>4. /\ pc'[t] = l /\ retried'[t] = retried[t] /\ calls'[t] = calls[t]
        /\ records'[t] = <<"success">> /\ told'[t] = 0
    BY <1>10, <2>0, <2>1, <2>2 DEF Opened, RequestInv, Typed
  <2>5. Progress(t)'
    BY <2>0, <2>4 DEF Progress, Fits
  <2> QED BY <2>3, <2>5, OnlyOne
<1>11. ASSUME NEW t \in Tasks, Collected(t) \/ BodyEnds(t) PROVE RequestInv'
  <2>0. /\ records[t] = <<"success">> /\ pc[t] \in {"collect", "body"}
        /\ calls[t] = 2 => retried[t] = TRUE
    BY <1>11 DEF Collected, BodyEnds, RequestInv, Progress, Fits
  <2>1. /\ pc' = [pc EXCEPT ![t] = "idle"] /\ told' = [told EXCEPT ![t] = 200]
        /\ cred' = [cred EXCEPT ![t] = NoCred]
        /\ UNCHANGED <<cooling, tier, retried, calls, records>>
    BY <1>11 DEF Collected, BodyEnds, Answer
  <2>2. Frame(t)
    BY <2>1 DEF RequestInv, Typed, Frame
  <2>3. /\ pc'[t] = "idle" /\ retried'[t] = retried[t] /\ calls'[t] = calls[t]
        /\ records'[t] = <<"success">> /\ told'[t] = 200
    BY <2>0, <2>1 DEF RequestInv, Typed
  <2>4. Progress(t)'
    BY <2>0, <2>3 DEF Progress, Fits, RecordFor
  <2> QED BY <2>2, <2>4, OnlyOne
<1>12. ASSUME NEW t \in Tasks, Disconnect(t) PROVE RequestInv'
  <2>0. told[t] = 0 /\ (calls[t] = 2 => retried[t] = TRUE)
    BY <1>12 DEF Disconnect, RequestInv, Typed, Progress, Fits
  <2>1. Frame(t)
    BY <1>12 DEF Disconnect, RequestInv, Typed, Frame
  <2>2. Progress(t)'
    BY <1>12, <2>0 DEF Disconnect, RequestInv, Typed, Progress, Fits
  <2> QED BY <2>1, <2>2, OnlyOne
<1>13. ASSUME cooling' \subseteq cooling, UNCHANGED <<pc, request, told>> PROVE RequestInv'
  BY <1>13 DEF RequestInv, Typed, Progress, request
<1>14. ASSUME NEW c \in Creds, CoolEnd(c) PROVE RequestInv'
  BY <1>13, <1>14 DEF CoolEnd
<1>15. CASE UNCHANGED vars
  BY <1>13, <1>15 DEF vars
<1> QED
  BY <1>1, <1>2, <1>3, <1>4, <1>5, <1>6, <1>7, <1>8, <1>9, <1>10, <1>11, <1>12,
     <1>14, <1>15 DEF Next, Handle

-------------------------------------------------------------------------------
(* The theorems. *)

GatewayInv == RequestInv /\ LinkInv

LEMMA GatewayInit ==
    ASSUME Init
    PROVE  GatewayInv
<1>1. RequestInv
  <2>1. Typed
    BY DEF Init, Typed, Labels, Results, Inside
  <2>2. ASSUME NEW t \in Tasks PROVE Progress(t)
    <3>1. /\ pc[t] = "idle" /\ retried[t] = FALSE /\ calls[t] = 0
          /\ records[t] = <<>> /\ told[t] = 0
      BY DEF Init
    <3> QED BY <3>1 DEF Progress, Fits
  <2> QED BY <2>1, <2>2 DEF RequestInv
<1>2. ASSUME NEW s \in Tiers
      PROVE  /\ free[s] \in Nat /\ free[s] = Capacity[s]
             /\ queue[s] = <<>> /\ Held(s) = {}
  BY GatewayAssumption DEF Init, Capacity, Held
<1>3. free \in [Tiers -> Nat] /\ queue \in [Tiers -> Seq(Tasks)]
  <2>1. Capacity \in [Tiers -> Nat]
    BY GatewayAssumption DEF Capacity
  <2> QED BY <2>1 DEF Init
<1>4. IsFiniteSet({}) /\ Cardinality({}) = 0
  BY FS_EmptySet
<1>5. SemInv
  <2>1. ASSUME NEW s \in Tiers
        PROVE  /\ IsFiniteSet(Held(s)) /\ free[s] + Cardinality(Held(s)) = Capacity[s]
               /\ queue[s] = <<>> /\ IsInjective(queue[s]) /\ ToSet(queue[s]) = {}
    <3>1. IsFiniteSet(Held(s)) /\ Cardinality(Held(s)) = 0
      BY <1>2, <1>4
    <3>2. free[s] + 0 = Capacity[s]
      BY <1>2
    <3>3. queue[s] = <<>> /\ IsInjective(queue[s]) /\ ToSet(queue[s]) = {}
      BY <1>2, EmptyQueue
    <3> QED BY <3>1, <3>2, <3>3
  <2> QED BY <1>3, <2>1 DEF Init, SemInv
<1>6. ASSUME NEW t \in Tasks PROVE Link(t)
  BY <1>2, EmptyQueue DEF Init, Link, Inside
<1> QED BY <1>1, <1>5, <1>6 DEF GatewayInv, LinkInv

LEMMA GatewayStep == GatewayInv /\ [Next]_vars => GatewayInv'
BY RequestStep, LinkStep DEF GatewayInv, RequestInv

LEMMA GatewayInvariant == Spec => []GatewayInv
BY GatewayInit, GatewayStep, PTL DEF Spec

(* Every variable keeps its type, and a permit is held by a request in the    *)
(* handler or about to go on and by no other.                                *)
THEOREM GatewayTypes == Spec => []TypeOK
<1>1. ASSUME GatewayInv PROVE TypeOK
  <2>1. calls \in [Tasks -> Nat]
    BY <1>1 DEF GatewayInv, RequestInv, Typed
  <2>2. Results \subseteq Seq(Whats)
    BY DEF Results, Whats
  <2>3. records \in [Tasks -> Seq(Whats)]
    BY <1>1, <2>2 DEF GatewayInv, RequestInv, Typed
  <2> QED BY <1>1, <2>1, <2>3
          DEF GatewayInv, RequestInv, LinkInv, Typed, SemInv, Link, TypeOK, Labels, Whats
<1> QED BY <1>1, GatewayInvariant, PTL

(* Permits taken and free make up the capacity at every step, whoever leaves  *)
(* from where, and none is free while a request waits for it.                *)
THEOREM PermitsKept == Spec => []PermitsConserved
<1>1. ASSUME GatewayInv PROVE PermitsConserved
  <2> SUFFICES ASSUME NEW s \in Tiers
               PROVE  /\ free[s] + Cardinality({t \in permits : tier[t] = s}) = Capacity[s]
                      /\ free[s] > 0 => queue[s] = <<>>
                      /\ \A t \in ToSet(queue[s]) : pc[t] = "queued" /\ tier[t] = s
                      /\ IsInjective(queue[s])
    BY DEF PermitsConserved
  <2> QED BY <1>1 DEF GatewayInv, LinkInv, SemInv, Link, Held
<1> QED BY <1>1, GatewayInvariant, PTL

(* What is recorded on the credential is what the client is told, once.       *)
THEOREM OneRecordPerRequest == Spec => []OneRecord
<1>1. ASSUME GatewayInv PROVE OneRecord
  <2> SUFFICES ASSUME NEW t \in Tasks
               PROVE  /\ Len(records[t]) <= 1
                      /\ told[t] # 0 => records[t] \in RecordFor(told[t])
                      /\ told[t] = 429 => (records[t] = <<>> <=> calls[t] = 0)
                      /\ pc[t] \in {"picking", "acquire", "queued"} \cup (Inside \ {"collect"})
                            => records[t] = <<>>
    BY DEF OneRecord
  <2>1. \A r \in Results : Len(r) <= 1
    <3>1. Len(<<>>) = 0 /\ \A x \in Whats : Len(<<x>>) = 1
      OBVIOUS
    <3>2. \A r \in Results : r = <<>> \/ \E x \in Whats : r = <<x>>
      BY DEF Results, Whats
    <3> TAKE r \in Results
    <3>3. CASE r = <<>>
      BY <3>1, <3>3
    <3>4. CASE \E x \in Whats : r = <<x>>
      BY <3>1, <3>4
    <3> QED BY <3>2, <3>3, <3>4
  <2>2. Len(records[t]) <= 1
    BY <1>1, <2>1 DEF GatewayInv, RequestInv, Typed
  <2> QED BY <1>1, <2>2 DEF GatewayInv, RequestInv, Progress, Fits, Inside
<1> QED BY <1>1, GatewayInvariant, PTL

(* The upstream is asked twice at most, and the second time after a limit.    *)
THEOREM AtMostTwoAttempts == Spec => []TwoAttempts
<1>1. ASSUME GatewayInv PROVE TwoAttempts
  <2> SUFFICES ASSUME NEW t \in Tasks
               PROVE  /\ calls[t] <= 2
                      /\ calls[t] = 2 => retried[t]
                      /\ told[t] = 429 /\ calls[t] > 0 => retried[t]
    BY DEF TwoAttempts
  <2>1. calls[t] \in 0..2
    BY <1>1 DEF GatewayInv, RequestInv, Typed
  <2> QED BY <1>1, <2>1 DEF GatewayInv, RequestInv, Progress, Fits
<1> QED BY <1>1, GatewayInvariant, PTL

-------------------------------------------------------------------------------
(* The gateway keeps the promise the pool relies on. *)

(* What the promise sees of a request, and of all. *)
Uses(t)    == IF records[t] = <<>> THEN cred[t] ELSE NoCred
Picked     == [t \in Tasks |-> IF records[t] = <<>> THEN cred[t] ELSE NoCred]
RefusedSet == {t \in Tasks : pc[t] = "refused"}

OnlyChange(t) ==
    \A u \in Tasks \ {t} : pc'[u] = pc[u] /\ cred'[u] = cred[u] /\ records'[u] = records[u]

LEMMA ViewOf ==
    ASSUME NEW t \in Tasks, OnlyChange(t)
    PROVE  /\ Picked' = [Picked EXCEPT ![t] = Uses(t)']
           /\ RefusedSet' = IF pc'[t] = "refused" THEN RefusedSet \cup {t}
                                                  ELSE RefusedSet \ {t}
<1>1. \A u \in Tasks : Picked[u] = Uses(u) /\ Picked'[u] = Uses(u)'
  BY DEF Picked, Uses
<1>2. \A u \in Tasks \ {t} : Uses(u)' = Uses(u)
  BY DEF OnlyChange, Uses
<1>3. Picked' = [Picked EXCEPT ![t] = Uses(t)']
  <2> DEFINE P == [Picked EXCEPT ![t] = Uses(t)']
  <2>1. DOMAIN Picked' = Tasks /\ DOMAIN P = Tasks
    BY DEF Picked
  <2>2. \A u \in Tasks : Picked'[u] = P[u]
    BY <1>1, <1>2 DEF Picked
  <2>3. Picked' = [u \in Tasks |-> Picked'[u]] /\ P = [u \in Tasks |-> P[u]]
    BY DEF Picked
  <2> QED BY <2>2, <2>3
<1>4. RefusedSet' = IF pc'[t] = "refused" THEN RefusedSet \cup {t} ELSE RefusedSet \ {t}
  BY DEF RefusedSet, OnlyChange
<1> QED BY <1>3, <1>4

LEMMA UsesIs ==
    ASSUME GatewayInv, NEW t \in Tasks
    PROVE  /\ pc[t] \in {"idle", "picking", "refused", "collect", "body"} => Uses(t) = NoCred
           /\ pc[t] \in {"acquire", "queued", "check", "ensure", "call"}
                => /\ records[t] = <<>> /\ Uses(t) = cred[t]
                   /\ cred[t] \in Creds /\ cred[t] # NoCred
<1>1. <<"success">> # <<>>
  OBVIOUS
<1>2. (cred[t] = NoCred) <=> (pc[t] \in {"idle", "picking", "refused"})
  BY DEF GatewayInv, RequestInv, Typed
<1>p. Fits(pc[t], retried[t], calls[t], records[t], told[t])
  BY DEF GatewayInv, RequestInv, Progress
<1>4. pc[t] \in {"collect", "body"} => records[t] # <<>>
  BY <1>1, <1>p DEF Fits
<1>5. pc[t] \in {"acquire", "queued", "check", "ensure", "call"} => records[t] = <<>>
  BY <1>p DEF Fits
<1>3. cred[t] \in Creds \cup {NoCred}
  BY DEF GatewayInv, RequestInv, Typed
<1> QED BY <1>2, <1>3, <1>4, <1>5 DEF Uses

Seen == <<Creds, cooling, Picked, [t \in Tasks |-> NoCred], RefusedSet>>

LEMMA SeenIs == Seen = Promise!vars /\ (Seen' = Promise!vars')
BY DEF Seen, Picked, RefusedSet, Promise!vars

(* A step of a request that the promise does not see. *)
LEMMA Stutters ==
    ASSUME NEW t \in Tasks, OnlyChange(t), Uses(t)' = Uses(t), cooling' = cooling,
           pc[t] # "refused", pc'[t] # "refused"
    PROVE  UNCHANGED Seen
<1>1. Picked' = [Picked EXCEPT ![t] = Picked[t]] /\ RefusedSet' = RefusedSet \ {t}
  BY ViewOf DEF Picked, Uses
<1>2. Picked' = Picked
  BY <1>1 DEF Picked
<1>3. RefusedSet' = RefusedSet
  BY <1>1 DEF RefusedSet
<1> QED BY <1>2, <1>3 DEF Seen

(* A request that has used its credential, or gives it up. *)
LEMMA UsesUp ==
    ASSUME GatewayInv, NEW t \in Tasks, OnlyChange(t),
           pc[t] \in {"acquire", "queued", "check", "ensure", "call"},
           pc'[t] # "refused", Uses(t)' = NoCred,
           cooling' \in {cooling, cooling \cup {cred[t]}, cooling \ {cred[t]}}
    PROVE  Promise!Next
<1>1. Uses(t) = cred[t] /\ cred[t] \in Creds /\ cred[t] # NoCred
  BY UsesIs
<1>2. /\ Picked' = [Picked EXCEPT ![t] = NoCred]
      /\ RefusedSet' = RefusedSet
      /\ Picked[t] = cred[t]
  BY <1>1, ViewOf DEF RefusedSet, Picked, Uses
<1>3. PICK c \in Creds : c = cred[t]
  BY <1>1
<1>4. Promise!Record(t, c)
  BY <1>1, <1>2, <1>3 DEF Promise!Record, Picked, RefusedSet
<1> QED BY <1>4 DEF Promise!Next

(* A request that was refused leaves. *)
LEMMA Leaves ==
    ASSUME GatewayInv, NEW t \in Tasks, OnlyChange(t), pc[t] = "refused", pc'[t] = "idle",
           Uses(t)' = NoCred, cooling' = cooling
    PROVE  Promise!Next
<1>1. Uses(t) = NoCred
  BY UsesIs
<1>2. /\ Picked' = [Picked EXCEPT ![t] = NoCred] /\ Picked[t] = NoCred
      /\ RefusedSet' = RefusedSet \ {t} /\ t \in RefusedSet
  BY <1>1, ViewOf DEF RefusedSet, Picked, Uses
<1>3. Picked' = Picked
  BY <1>2 DEF Picked
<1>4. Promise!Answer(t)
  BY <1>2, <1>3 DEF Promise!Answer, Picked, RefusedSet
<1> QED BY <1>4 DEF Promise!Next

LEMMA PromiseStep ==
    ASSUME GatewayInv, [Next]_vars
    PROVE  Promise!Next \/ UNCHANGED Seen
<1> DEFINE Goal == Promise!Next \/ UNCHANGED Seen
<1> USE DEF Go
<1>0. Typed /\ NoCred \notin Creds
  BY GatewayAssumption DEF GatewayInv, RequestInv
<1>1. ASSUME NEW t \in Tasks, NEW status, Answer(t, status), UNCHANGED records,
             pc[t] = "check", cooling' = cooling
      PROVE  Goal
  <2>1. OnlyChange(t) /\ pc'[t] = "idle" /\ Uses(t)' = NoCred
    BY <1>0, <1>1 DEF Answer, Typed, OnlyChange, Uses
  <2> QED BY <1>1, <2>1, UsesUp
<1>2. ASSUME NEW t \in Tasks, NEW what \in Whats, Record(t, what),
             pc[t] \in {"ensure", "call"}, NEW l \in {"idle", "body", "collect"},
             pc' = [pc EXCEPT ![t] = l],
             cred' = cred \/ cred' = [cred EXCEPT ![t] = NoCred]
      PROVE  Goal
  <2>1. records[t] = <<>>
    BY <1>2, UsesIs
  <2>2. records' = [records EXCEPT ![t] = <<what>>]
    BY <1>2, <2>1, Records DEF GatewayInv
  <2>3. <<what>> # <<>>
    OBVIOUS
  <2>4. OnlyChange(t) /\ pc'[t] # "refused" /\ Uses(t)' = NoCred
    BY <1>0, <1>2, <2>2, <2>3 DEF Typed, OnlyChange, Uses
  <2>5. cooling' \in {cooling, cooling \cup {cred[t]}, cooling \ {cred[t]}}
    BY <1>2 DEF Record, Whats
  <2> QED BY <1>2, <2>4, <2>5, UsesUp
<1>3. ASSUME NEW t \in Tasks, pc[t] # "refused",
             NEW l \in Labels \ {"refused"}, pc' = [pc EXCEPT ![t] = l],
             UNCHANGED <<cooling, cred, records>>
      PROVE  Goal
  <2>1. OnlyChange(t) /\ pc'[t] # "refused" /\ Uses(t)' = Uses(t)
    BY <1>0, <1>3 DEF Typed, OnlyChange, Uses
  <2> QED BY <1>3, <2>1, Stutters
<1>4. ASSUME NEW t \in Tasks, Arrive(t) PROVE Goal
  <2>1. /\ pc[t] = "idle" /\ pc' = [pc EXCEPT ![t] = "picking"]
        /\ records' = [records EXCEPT ![t] = <<>>] /\ UNCHANGED <<cooling, cred>>
    BY <1>4 DEF Arrive
  <2>2. Uses(t) = NoCred /\ cred[t] = NoCred
    BY <1>0, <2>1, UsesIs DEF Typed
  <2>3. OnlyChange(t) /\ pc'[t] # "refused" /\ Uses(t)' = NoCred
    BY <1>0, <2>1, <2>2 DEF Typed, OnlyChange, Uses
  <2> QED BY <2>1, <2>2, <2>3, Stutters
<1>5. ASSUME NEW t \in Tasks, Pick(t) PROVE Goal
  <2>1. PICK c \in Creds \ cooling : cred' = [cred EXCEPT ![t] = c]
    BY <1>5 DEF Pick
  <2>2. /\ pc[t] = "picking" /\ pc' = [pc EXCEPT ![t] = "acquire"]
        /\ UNCHANGED <<cooling, records>>
    BY <1>5 DEF Pick
  <2>3. Uses(t) = NoCred /\ records[t] = <<>>
    BY <2>2, UsesIs DEF GatewayInv, RequestInv, Progress, Fits
  <2>4. OnlyChange(t) /\ pc'[t] = "acquire" /\ Uses(t)' = c
    BY <1>0, <2>1, <2>2, <2>3 DEF Typed, OnlyChange, Uses
  <2>5. /\ Picked' = [Picked EXCEPT ![t] = c] /\ Picked[t] = NoCred
        /\ RefusedSet' = RefusedSet /\ t \notin RefusedSet
    BY <2>2, <2>3, <2>4, ViewOf DEF RefusedSet, Picked, Uses
  <2>6. Promise!Pick(t)
    BY <2>1, <2>2, <2>5 DEF Promise!Pick, Promise!Idle, Picked, RefusedSet
  <2> QED BY <2>6 DEF Promise!Next
<1>6. ASSUME NEW t \in Tasks, PickNone(t) PROVE Goal
  <2>1. /\ pc[t] = "picking" /\ pc' = [pc EXCEPT ![t] = "refused"]
        /\ Creds \subseteq cooling /\ UNCHANGED <<cooling, cred, records>>
    BY <1>6 DEF PickNone, request
  <2>2. Uses(t) = NoCred
    BY <2>1, UsesIs
  <2>3. OnlyChange(t) /\ pc'[t] = "refused"
    BY <1>0, <2>1 DEF Typed, OnlyChange
  <2>4. /\ Picked' = Picked /\ Picked[t] = NoCred
        /\ RefusedSet' = RefusedSet \cup {t} /\ t \notin RefusedSet
    BY <2>1, <2>2, <2>3, ViewOf DEF RefusedSet, Picked, Uses
  <2>5. Promise!Refuse(t)
    BY <2>1, <2>4 DEF Promise!Refuse, Promise!Idle, Picked, RefusedSet
  <2> QED BY <2>5 DEF Promise!Next
<1>7. ASSUME NEW t \in Tasks, Refuse(t) PROVE Goal
  <2>1. /\ pc[t] = "refused" /\ pc' = [pc EXCEPT ![t] = "idle"]
        /\ UNCHANGED <<cooling, cred, records>>
    BY <1>7 DEF Refuse, request
  <2>2. Uses(t) = NoCred
    BY <2>1, UsesIs
  <2>3. OnlyChange(t) /\ pc'[t] = "idle" /\ Uses(t)' = NoCred
    BY <1>0, <2>1, <2>2 DEF Typed, OnlyChange, Uses
  <2> QED BY <2>1, <2>3, Leaves
<1>8. ASSUME NEW t \in Tasks, Acquire(t) \/ Admit(t) \/ Ensured(t) PROVE Goal
  BY <1>3, <1>8 DEF Acquire, Admit, Ensured, request, Labels, Inside
<1>9. ASSUME NEW t \in Tasks, Check(t) PROVE Goal
  <2>1. CASE Go(t, "ensure") /\ UNCHANGED <<bucket, request, told>>
    BY <1>3, <1>9, <2>1 DEF Check, request, Labels, Inside
  <2>2. CASE Answer(t, 400) /\ UNCHANGED <<tier, retried, calls, records>>
    BY <1>1, <1>9, <2>2 DEF Check
  <2> QED BY <1>9, <2>1, <2>2 DEF Check
<1>10. ASSUME NEW t \in Tasks, EnsureFails(t) \/ EnsureFailsAgain(t) \/ Fails(t) PROVE Goal
  BY <1>2, <1>10 DEF EnsureFails, EnsureFailsAgain, Fails, Answer, Whats
<1>11. ASSUME NEW t \in Tasks, Limited(t) PROVE Goal
  <2>1. CASE Go(t, "ensure") /\ UNCHANGED <<bucket, cooling, cred, records, told>>
    BY <1>3, <1>11, <2>1 DEF Limited, Labels, Inside
  <2>2. CASE Record(t, "429") /\ Answer(t, 429)
    BY <1>2, <1>11, <2>2 DEF Limited, Answer, Whats
  <2> QED BY <1>11, <2>1, <2>2 DEF Limited
<1>12. ASSUME NEW t \in Tasks, Opened(t) PROVE Goal
  BY <1>2, <1>12 DEF Opened, Whats
<1>13. ASSUME NEW t \in Tasks, pc[t] \in {"picking", "collect", "body"},
              pc' = [pc EXCEPT ![t] = "idle"], cred' = [cred EXCEPT ![t] = NoCred],
              UNCHANGED <<cooling, records>>
       PROVE  Goal
  <2>1. Uses(t) = NoCred
    BY <1>13, UsesIs
  <2>2. OnlyChange(t) /\ pc'[t] = "idle" /\ Uses(t)' = NoCred
    BY <1>0, <1>13 DEF Typed, OnlyChange, Uses
  <2> QED BY <1>13, <2>1, <2>2, Stutters
<1>14. ASSUME NEW t \in Tasks, Collected(t) \/ BodyEnds(t) PROVE Goal
  BY <1>13, <1>14 DEF Collected, BodyEnds, Answer
<1>15. ASSUME NEW t \in Tasks, Disconnect(t) PROVE Goal
  <2>1. /\ pc[t] # "idle" /\ pc' = [pc EXCEPT ![t] = "idle"]
        /\ cred' = [cred EXCEPT ![t] = NoCred] /\ UNCHANGED <<cooling, records>>
    BY <1>15 DEF Disconnect
  <2>2. OnlyChange(t) /\ pc'[t] = "idle" /\ Uses(t)' = NoCred
    BY <1>0, <2>1 DEF Typed, OnlyChange, Uses
  <2>3. CASE pc[t] \in {"picking", "collect", "body"}
    BY <1>13, <2>1, <2>3
  <2>4. CASE pc[t] = "refused"
    BY <2>1, <2>2, <2>4, Leaves
  <2>5. CASE pc[t] \in {"acquire", "queued", "check", "ensure", "call"}
    BY <2>1, <2>2, <2>5, UsesUp
  <2> QED BY <1>0, <2>1, <2>3, <2>4, <2>5 DEF Typed, Labels, Inside
<1>16. ASSUME NEW c \in Creds, CoolEnd(c) PROVE Goal
  <2>1. /\ cooling' \in SUBSET cooling
        /\ UNCHANGED <<pc, cred, records>>
    BY <1>16 DEF CoolEnd, request
  <2>2. Picked' = Picked /\ RefusedSet' = RefusedSet
    BY <2>1 DEF Picked, RefusedSet
  <2>3. Promise!CoolEnd
    BY <2>1, <2>2 DEF Promise!CoolEnd, Picked, RefusedSet
  <2> QED BY <2>3 DEF Promise!Next
<1>17. CASE UNCHANGED vars
  <2>1. UNCHANGED <<cooling, pc, cred, records>>
    BY <1>17 DEF vars, request
  <2>2. Picked' = Picked /\ RefusedSet' = RefusedSet
    BY <2>1 DEF Picked, RefusedSet
  <2> QED BY <2>1, <2>2 DEF Seen
<1> QED
  BY <1>4, <1>5, <1>6, <1>7, <1>8, <1>9, <1>10, <1>11, <1>12, <1>14, <1>15, <1>16, <1>17
     DEF Next, Handle

(* A request that is picked a credential records once, on that credential and *)
(* on no other, or not at all, and nothing but a record begins a cooldown:   *)
(* every behaviour of the gateway is one of PoolPromise.                     *)
THEOREM GatewayImplementsPromise == Spec => ImplementsPromise
<1>1. Init => Promise!Init
  BY DEF Init, Promise!Init
<1>2. GatewayInv /\ [Next]_vars => [Promise!Next]_(Promise!vars)
  BY PromiseStep, SeenIs
<1> QED BY <1>1, <1>2, GatewayInvariant, PTL DEF Spec, ImplementsPromise, Promise!Spec
===============================================================================
