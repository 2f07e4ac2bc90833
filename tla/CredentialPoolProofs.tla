------------------------- MODULE CredentialPoolProofs -------------------------
(***************************************************************************)
(* Proofs about CredentialPool, for every number of credentials and users  *)
(* and all cooldowns: the time a refused client is told suffices, one that *)
(* is refused because all cool is told to come back whatever fails or is   *)
(* deleted meanwhile, equals take turns, and the pool keeps what           *)
(* PoolPromise says.                                                       *)
(***************************************************************************)
EXTENDS CredentialPool, SequenceTheorems, WellFoundedInduction, TLAPS

(* A set of numbers with a bound has a greatest one. *)
LEMMA Greatest ==
    ASSUME NEW S, S # {}, NEW bound \in Nat,
           \A v \in S : v \in Nat /\ v <= bound
    PROVE  \E m \in S : \A v \in S : v <= m
<1> DEFINE T == {bound - v : v \in S}
           R == OpToRel(<, Nat)
<1>1. T \subseteq Nat /\ T # {}
  OBVIOUS
<1>2. \E x \in T : \A y \in T : ~ (<<y, x>> \in R)
  <2> HIDE DEF T, R
  <2>1. IsWellFoundedOn(R, Nat)
    BY NatLessThanWellFounded DEF R
  <2> QED BY <1>1, <2>1, WFMin
<1>3. PICK x \in T : \A y \in T : ~ (<<y, x>> \in R)
  BY <1>2
<1>4. PICK m \in S : x = bound - m
  BY <1>3
<1>5. ASSUME NEW v \in S PROVE v <= m
  <2>1. bound - v \in T /\ bound - v \in Nat /\ bound - m \in Nat
    BY <1>1
  <2>2. ~ (bound - v < bound - m)
    BY <1>3, <1>4, <2>1 DEF OpToRel
  <2> QED BY <1>4, <2>1, <2>2
<1> QED BY <1>5

(* Deleting takes no other credential in. *)
LEMMA Removing ==
    ASSUME NEW T, NEW q \in Seq(T), NEW i \in DOMAIN q
    PROVE  RemoveAt(q, i) \in Seq(T)
<1> DEFINE a == SubSeq(q, 1, i - 1)
           b == SubSeq(q, i + 1, Len(q))
<1>1. Len(q) \in Nat /\ DOMAIN q = 1..Len(q) /\ i \in 1..Len(q)
      /\ \A j \in 1..Len(q) : q[j] \in T
  BY LenProperties, ElementOfSeq
<1>2. a \in Seq(T)
  <2>1. i - 1 \in Int /\ 1 \in Int /\ \A j \in 1..(i - 1) : q[j] \in T
    BY <1>1
  <2> QED BY ONLY <2>1, SubSeqProperties
<1>3. b \in Seq(T)
  <2>1. i + 1 \in Int /\ Len(q) \in Int /\ \A j \in (i + 1)..Len(q) : q[j] \in T
    BY <1>1
  <2> QED BY ONLY <2>1, SubSeqProperties
<1>4. RemoveAt(q, i) = a \o b
  BY DEF RemoveAt
<1> HIDE DEF a, b
<1> QED BY <1>2, <1>3, <1>4, ConcatProperties

-------------------------------------------------------------------------------
State == [auth : Nat, limit : Nat, other : Nat, until : Nat, last : Int]

(* No cooldown is longer than both limits together. *)
Longest == AuthCap + LimitCap

(* Every running cooldown is short, and ends by the time a client was told.  *)
CoolInv ==
    /\ creds \in Seq(Ids)
    /\ states \in [Ids -> State]
    /\ now \in Nat
    /\ retryAt \in Nat \cup {NoRetry}
    /\ \A c \in Ids : /\ states[c].until <= now + Longest
                      /\ retryAt # NoRetry => states[c].until <= retryAt

LEMMA Constants ==
    /\ AuthStep \in Nat /\ AuthCap \in Nat /\ LimitStep \in Nat /\ LimitCap \in Nat
    /\ MaxFactor \in Nat /\ Longest \in Nat
BY PoolAssumption DEF Longest

LEMMA DefaultState == Default \in State /\ Default.until = 0
BY DEF Default, State, Warm, Never

LEMMA CooldownIs ==
    ASSUME NEW kind \in Kinds, NEW n \in Nat
    PROVE  Cooldown(kind, n) \in 0..Longest
<1>1. \A a, b \in Nat : AtMost(a, b) \in Nat /\ AtMost(a, b) <= b
  BY DEF AtMost
<1>2. AtMost(n, MaxFactor) \in Nat
  BY <1>1, Constants
<1>3. \A a, b \in Nat : a * b \in Nat
  OBVIOUS
<1>4. /\ AuthStep * AtMost(n, MaxFactor) \in Nat
      /\ LimitStep * AtMost(n, MaxFactor) \in Nat
  BY <1>2, <1>3, Constants
<1>5. /\ AtMost(AuthStep * AtMost(n, MaxFactor), AuthCap) \in 0..AuthCap
      /\ AtMost(LimitStep * AtMost(n, MaxFactor), LimitCap) \in 0..LimitCap
  <2> DEFINE a == AuthStep * AtMost(n, MaxFactor)
             b == LimitStep * AtMost(n, MaxFactor)
  <2>1. a \in Nat /\ b \in Nat
    BY <1>4
  <2> HIDE DEF a, b
  <2>2. AtMost(a, AuthCap) \in 0..AuthCap /\ AtMost(b, LimitCap) \in 0..LimitCap
    <3>1. ASSUME NEW x \in Nat, NEW y \in Nat PROVE AtMost(x, y) \in 0..y
      BY DEF AtMost
    <3> QED BY <2>1, <3>1, Constants
  <2> QED BY <2>2 DEF a, b
<1> QED BY <1>5, Constants DEF Cooldown, Kinds, Longest

(* What a failure makes of a state. *)
LEMMA FailedIs ==
    ASSUME NEW st \in State, NEW kind \in Kinds, now \in Nat
    PROVE  /\ Failed(st, kind) \in State
           /\ \/ Failed(st, kind).until = st.until
              \/ Failed(st, kind).until <= now + Longest
           /\ st.until > now => Failed(st, kind).until > now
<1> DEFINE wait == Cooldown(kind, Failures(st) + 1)
           until == IF wait > 0 THEN now + wait ELSE st.until
<1>1. Failures(st) + 1 \in Nat
  BY DEF State, Failures
<1>2. wait \in 0..Longest
  BY <1>1, CooldownIs
<1>3. /\ until \in Nat /\ (until = st.until \/ until <= now + Longest)
      /\ st.until > now => until > now
  BY <1>2, Constants DEF State
<1>4. Failed(st, kind) = [st EXCEPT ![kind] = @ + 1, !.last = now, !.until = until]
  BY DEF Failed
<1> HIDE DEF wait, until
<1>5. CASE kind = "auth"
  <2>1. Failed(st, kind) = [auth |-> st.auth + 1, limit |-> st.limit, other |-> st.other,
                            until |-> until, last |-> now]
    BY <1>4, <1>5 DEF State
  <2> QED BY <1>3, <2>1 DEF State
<1>6. CASE kind = "limit"
  <2>1. Failed(st, kind) = [auth |-> st.auth, limit |-> st.limit + 1, other |-> st.other,
                            until |-> until, last |-> now]
    BY <1>4, <1>6 DEF State
  <2> QED BY <1>3, <2>1 DEF State
<1>7. CASE kind = "other"
  <2>1. Failed(st, kind) = [auth |-> st.auth, limit |-> st.limit, other |-> st.other + 1,
                            until |-> until, last |-> now]
    BY <1>4, <1>7 DEF State
  <2> QED BY <1>3, <2>1 DEF State
<1> QED BY <1>5, <1>6, <1>7 DEF Kinds

(* The longest wait is as long as any. *)
LEMMA MaxWaitIs ==
    ASSUME CoolInv
    PROVE  /\ MaxWait \in Nat
           /\ \A c \in Ids : states[c].until <= now + MaxWait
           /\ MaxWait = 0 => \A c \in Ids : ~Cooling(states[c])
<1> DEFINE S == Waits \cup {0}
<1>0. now \in Nat /\ Longest \in Nat
      /\ \A c \in Ids : states[c].until \in Nat /\ states[c].until <= now + Longest
  BY Constants DEF CoolInv, State
<1>1. \A v \in S : v \in Nat /\ v <= Longest
  BY <1>0 DEF Waits, Cooling
<1>2. \E m \in S : \A v \in S : v <= m
  <2> HIDE DEF S
  <2>1. S # {}
    BY DEF S
  <2> QED BY <1>0, <1>1, <2>1, Greatest
<1>3. MaxWait \in S /\ \A v \in S : v <= MaxWait
  <2>1. MaxWait \in S /\ \A v \in Waits : v <= MaxWait
    <3>1. \E m \in Waits \cup {0} : \A v \in Waits : v <= m
      BY <1>2
    <3> QED BY <3>1 DEF MaxWait
  <2>2. MaxWait \in Nat
    BY <1>1, <2>1
  <2> HIDE DEF MaxWait
  <2>3. ASSUME NEW v \in S PROVE v <= MaxWait
    <3>1. v \in Waits \/ v = 0
      OBVIOUS
    <3> QED BY <2>1, <2>2, <3>1
  <2> QED BY <2>1, <2>3
<1>4. MaxWait \in Nat
  BY <1>1, <1>3
<1>5. ASSUME NEW c \in Ids, Cooling(states[c])
      PROVE  states[c].until - now <= MaxWait /\ states[c].until - now > 0
  <2>1. states[c].until - now \in S
    BY <1>5 DEF Waits
  <2> QED BY <1>0, <1>3, <1>5, <2>1 DEF Cooling
<1>6. ASSUME NEW c \in Ids PROVE states[c].until <= now + MaxWait
  BY <1>0, <1>4, <1>5 DEF Cooling
<1>7. ASSUME NEW c \in Ids, MaxWait = 0 PROVE ~Cooling(states[c])
  BY <1>0, <1>5, <1>7
<1> QED BY <1>4, <1>6, <1>7

-------------------------------------------------------------------------------
LEMMA InitCool == Init => CoolInv
BY DefaultState, Constants DEF Init, CoolInv, NoRetry

(* The states, the clock and what was told stay. *)
LEMMA NothingCools ==
    ASSUME CoolInv, UNCHANGED <<states, retryAt, now>>, creds' \in Seq(Ids)
    PROVE  CoolInv'
<1>1. Longest' = Longest
  BY DEF Longest
<1> QED BY <1>1 DEF CoolInv

(* One state is forgotten, or begins anew. *)
LEMMA OneCools ==
    ASSUME CoolInv, NEW c, NEW st \in State, st.until = 0,
           states' = [states EXCEPT ![c] = st], UNCHANGED <<creds, retryAt, now>>
    PROVE  CoolInv'
<1>1. Longest' = Longest
  BY DEF Longest
<1>2. \A d \in Ids : states'[d] = states[d] \/ states'[d] = st
  BY DEF CoolInv
<1>3. states' \in [Ids -> State]
  BY DEF CoolInv
<1>4. ASSUME NEW d \in Ids
      PROVE  /\ states'[d].until <= now + Longest
             /\ retryAt # NoRetry => states'[d].until <= retryAt
  <2>1. CASE states'[d] = states[d]
    BY <2>1 DEF CoolInv
  <2>2. CASE states'[d] = st
    BY <2>2, Constants DEF CoolInv
  <2> QED BY <1>2, <2>1, <2>2
<1> QED BY <1>1, <1>3, <1>4 DEF CoolInv

LEMMA CoolStep ==
    ASSUME CoolInv, [Next]_vars
    PROVE  CoolInv'
<1>0. creds \in Seq(Ids) /\ now \in Nat /\ Longest' = Longest /\ Longest \in Nat
  BY Constants DEF CoolInv, Longest
<1>1. ASSUME NEW c \in Ids, Add(c) PROVE CoolInv'
  <2>1. creds' \in Seq(Ids)
    BY <1>0, <1>1 DEF Add
  <2> QED BY <1>1, <2>1, NothingCools DEF Add
<1>2. ASSUME NEW c \in Ids, Delete(c) PROVE CoolInv'
  <2>1. PICK i \in DOMAIN creds : creds' = RemoveAt(creds, i)
    BY <1>2 DEF Delete
  <2>2. creds' \in Seq(Ids)
    BY <1>0, <2>1, Removing
  <2> QED BY <1>2, <2>2, NothingCools DEF Delete
<1>3. ASSUME NEW c \in Ids, Forget(c) PROVE CoolInv'
  BY <1>3, DefaultState, OneCools DEF Forget
<1>4. ASSUME UNCHANGED <<creds, states, retryAt, now>> PROVE CoolInv'
  BY <1>0, <1>4, NothingCools
<1>5. ASSUME NEW t \in Tasks,
             \/ PickOne(t) \/ PickNone(t) \/ Answer401(t) \/ Finish(t) \/ Disconnect(t)
             \/ \E c \in Ids : UseNamed(t, c)
      PROVE  CoolInv'
  BY <1>4, <1>5 DEF PickOne, PickNone, Answer401, Finish, Disconnect, UseNamed
<1>6. ASSUME NEW t \in Tasks, Answer429(t) PROVE CoolInv'
  <2>1. /\ retryAt' = now + MaxWait
        /\ UNCHANGED <<creds, states, now>>
    BY <1>6 DEF Answer429
  <2>2. MaxWait \in Nat /\ \A c \in Ids : states[c].until <= now + MaxWait
    BY MaxWaitIs
  <2> HIDE DEF MaxWait
  <2>3. retryAt' \in Nat
    BY <1>0, <2>1, <2>2
  <2> QED BY <1>0, <2>1, <2>2, <2>3 DEF CoolInv
<1>7. ASSUME NEW t \in Tasks, Success(t) PROVE CoolInv'
  <2> DEFINE st == [Default EXCEPT !.last = now]
  <2>1. st \in State /\ st.until = 0
    BY <1>0 DEF Default, State, Warm, Never
  <2> HIDE DEF st
  <2>2. states' = [states EXCEPT ![cred[t]] = st] /\ UNCHANGED <<creds, retryAt, now>>
    BY <1>7 DEF Success, st
  <2> QED BY <2>1, <2>2, OneCools
<1>8. ASSUME NEW t \in Tasks, NEW kind \in Kinds, Failure(t, kind) PROVE CoolInv'
  <2>1. /\ states' = [states EXCEPT ![cred[t]] = Failed(@, kind)]
        /\ retryAt' = NoRetry /\ UNCHANGED <<creds, now>>
    BY <1>8 DEF Failure
  <2>2. ASSUME NEW d \in Ids
        PROVE  /\ states'[d] = states[d] \/ states'[d] = Failed(states[d], kind)
               /\ states'[d] \in State
               /\ states'[d].until <= now + Longest
    <3>1. states[d] \in State /\ states[d].until <= now + Longest
      BY DEF CoolInv
    <3>2. states'[d] = states[d] \/ states'[d] = Failed(states[d], kind)
      BY <2>1 DEF CoolInv
    <3> QED BY <1>0, <3>1, <3>2, FailedIs
  <2>3. states' \in [Ids -> State]
    <3>1. states' = [d \in Ids |-> states'[d]]
      BY <2>1 DEF CoolInv
    <3> QED BY <2>2, <3>1
  <2> QED BY <1>0, <2>1, <2>2, <2>3 DEF CoolInv
<1>9. ASSUME Tick PROVE CoolInv'
  <2>1. now' = now + 1 /\ UNCHANGED <<creds, states, retryAt>>
    BY <1>9 DEF Tick
  <2>2. \A c \in Ids : states[c].until \in Nat
    BY DEF CoolInv, State
  <2> QED BY <1>0, <2>1, <2>2 DEF CoolInv
<1>10. CASE UNCHANGED vars
  BY <1>4, <1>10 DEF vars
<1> QED BY <1>1, <1>2, <1>3, <1>5, <1>6, <1>7, <1>8, <1>9, <1>10 DEF Next

LEMMA CoolHolds == Spec => []CoolInv
<1>1. Init => CoolInv
  BY InitCool
<1>2. CoolInv /\ [Next]_vars => CoolInv'
  BY CoolStep
<1> QED BY <1>1, <1>2, PTL DEF Spec

(* When nothing is cooling, what is stored is usable. *)
LEMMA AllUsable ==
    ASSUME CoolInv, \A c \in Ids : ~Cooling(states[c])
    PROVE  creds = <<>> \/ Usable # {}
<1> SUFFICES ASSUME creds # <<>> PROVE Usable # {}
  OBVIOUS
<1>1. creds \in Seq(Ids)
  BY DEF CoolInv
<1>2. 1 \in DOMAIN creds /\ creds[1] \in Ids
  BY <1>1
<1>3. creds[1] \in Stored
  BY <1>2 DEF Stored
<1> QED BY <1>2, <1>3 DEF Usable

(* A client that comes back when it was told finds a credential, unless one   *)
(* failed again meanwhile or all were deleted, for any number of credentials, *)
(* any cooldowns and whatever is recorded by the others (web_pool.rs,         *)
(* cooling_until_max, and the answer of api.rs).                             *)
THEOREM RetryAfterIsEnough == Spec => []RetryAfterSuffices
<1>1. CoolInv => RetryAfterSuffices
  <2> SUFFICES ASSUME CoolInv, retryAt # NoRetry, now >= retryAt
               PROVE  creds = <<>> \/ Usable # {}
    BY DEF RetryAfterSuffices
  <2>1. ASSUME NEW c \in Ids PROVE ~Cooling(states[c])
    <3>1. states[c].until \in Nat /\ states[c].until <= retryAt
      BY DEF CoolInv, State
    <3>2. retryAt \in Nat /\ now \in Nat
      BY DEF CoolInv
    <3> QED BY <3>1, <3>2 DEF Cooling
  <2> QED BY <2>1, AllUsable
<1> QED BY <1>1, CoolHolds, PTL

-------------------------------------------------------------------------------
(* What is proved of the choice, for this pool. *)
Passes == INSTANCE SelectionProofs

(* The healths are fractions of a whole that is fine enough for the tolerance. *)
LEMMA WholeIs == One \in Int /\ One >= 1000
<1>1. 100 ^ MaxFailures \in Int /\ 100 ^ MaxFailures >= 1000
  BY PoolAssumption
<1> QED BY <1>1 DEF One

LEMMA HealthIs ==
    ASSUME NEW st \in State
    PROVE  Health(st) \in Int
<1>0. MaxFailures \in Int
  BY PoolAssumption
<1>1. ASSUME NEW b \in Nat \ {0}, NEW n \in Int PROVE b ^ n \in Int
  OBVIOUS
<1>2. 60 ^ st.auth \in Int /\ 90 ^ st.limit \in Int /\ 95 ^ st.other \in Int
      /\ 100 ^ (MaxFailures - Failures(st)) \in Int
  BY <1>0 DEF State, Failures
<1>3. \A a, b \in Int : a * b \in Int
  OBVIOUS
<1> QED BY <1>2, <1>3 DEF Health

LEMMA CandidatesAre ==
    ASSUME CoolInv
    PROVE  /\ Candidates \in Seq(Passes!Candidate)
           /\ DOMAIN Candidates = DOMAIN creds
           /\ \A i \in DOMAIN creds : Candidates[i] = Candidate(creds[i])
<1>1. Len(creds) \in Nat /\ DOMAIN creds = 1..Len(creds)
      /\ \A i \in DOMAIN creds : creds[i] \in Ids
  BY LenProperties, ElementOfSeq DEF CoolInv
<1>2. ASSUME NEW c \in Ids PROVE Candidate(c) \in Passes!Candidate
  <2>1. states[c] \in State /\ now \in Nat
    BY DEF CoolInv
  <2>2. Health(states[c]) \in Int /\ states[c].last \in Int /\ states[c].until \in Nat
    BY <2>1, HealthIs DEF State
  <2>3. Cooling(states[c]) \in BOOLEAN
    BY DEF Cooling
  <2> QED BY <2>2, <2>3 DEF Candidate, Passes!Candidate
<1>3. Candidates \in [1..Len(creds) -> Passes!Candidate]
  BY <1>1, <1>2 DEF Candidates
<1>4. Candidates \in Seq(Passes!Candidate)
  BY <1>1, <1>3, SeqDef
<1> QED BY <1>1, <1>4 DEF Candidates

(* The two instances of Selection are one. *)
LEMMA ChosenWins ==
    ASSUME CoolInv
    PROVE  /\ Passes!Contest(Candidates) \in SUBSET DOMAIN creds
           /\ Passes!Contest(Candidates) = {} <=> Passes!Usable(Candidates) = {}
           /\ Chosen = Passes!Winner(Candidates, Passes!Contest(Candidates))
           /\ Chosen \in Passes!Contest(Candidates) \cup {Choice!NoOne}
           /\ Chosen = Choice!NoOne <=> Passes!Contest(Candidates) = {}
<1>1. Candidates \in Seq(Passes!Candidate) /\ DOMAIN Candidates = DOMAIN creds
  BY CandidatesAre
<1>2. One \in Int /\ One >= 1000
  BY WholeIs
<1>3. Choice!Pick(Candidates) = Passes!Pick(Candidates)
  BY DEF Choice!Pick, Passes!Pick, Choice!Winner, Passes!Winner, Choice!Leader, Passes!Leader,
         Choice!Better, Passes!Better, Choice!Near, Passes!Near, Choice!NoOne, Passes!NoOne,
         Choice!Healthy, Passes!Healthy, Choice!Usable, Passes!Usable,
         Choice!LowHealth, Passes!LowHealth, Choice!Tolerance, Passes!Tolerance
<1>4. /\ Passes!Contest(Candidates) \in SUBSET DOMAIN Candidates
      /\ Passes!Contest(Candidates) = {} <=> Passes!Usable(Candidates) = {}
      /\ Passes!Pick(Candidates) = Passes!Winner(Candidates, Passes!Contest(Candidates))
  BY <1>1, <1>2, Passes!PickWins
<1>5. /\ Passes!Winner(Candidates, Passes!Contest(Candidates))
            \in Passes!Contest(Candidates) \cup {Passes!NoOne}
      /\ Passes!Winner(Candidates, Passes!Contest(Candidates)) = Passes!NoOne
           <=> Passes!Contest(Candidates) = {}
  BY <1>1, <1>2, <1>4, Passes!WinnerCompetes
<1>6. Passes!NoOne = Choice!NoOne
  BY DEF Choice!NoOne, Passes!NoOne
<1> QED BY <1>1, <1>3, <1>4, <1>5, <1>6 DEF Chosen

(* What pick gives out is stored and not cooling, and it gives out nothing    *)
(* only when nothing is.                                                     *)
LEMMA ChosenIs ==
    ASSUME CoolInv
    PROVE  /\ Chosen # Choice!NoOne => Chosen \in DOMAIN creds /\ creds[Chosen] \in Usable
           /\ Chosen = Choice!NoOne => Usable = {}
<1>1. /\ DOMAIN Candidates = DOMAIN creds
      /\ \A i \in DOMAIN creds : Candidates[i] = Candidate(creds[i])
  BY CandidatesAre
<1>2. ASSUME NEW i \in DOMAIN creds
      PROVE  i \in Passes!Usable(Candidates) <=> creds[i] \in Usable
  BY <1>1 DEF Passes!Usable, Usable, Candidate, Stored
<1>3. Passes!Contest(Candidates) \subseteq Passes!Usable(Candidates)
  BY DEF Passes!Contest, Passes!Healthy
<1>4. Usable # {} => Passes!Usable(Candidates) # {}
  BY <1>2 DEF Usable, Stored
<1> QED BY <1>2, <1>3, <1>4, ChosenWins

(* Deleting leaves the others in order. *)
LEMMA Remaining ==
    ASSUME NEW T, NEW q \in Seq(T), NEW i \in DOMAIN q
    PROVE  /\ Len(RemoveAt(q, i)) = Len(q) - 1
           /\ \A j \in 1..(Len(q) - 1) :
                 RemoveAt(q, i)[j] = IF j < i THEN q[j] ELSE q[j + 1]
<1> DEFINE a == SubSeq(q, 1, i - 1)
           b == SubSeq(q, i + 1, Len(q))
<1>1. Len(q) \in Nat /\ i \in 1..Len(q) /\ \A j \in 1..Len(q) : q[j] \in T
  BY LenProperties, ElementOfSeq
<1>2. a \in Seq(T) /\ Len(a) = i - 1 /\ \A j \in 1..(i - 1) : a[j] = q[j]
  <2>1. i - 1 \in Int /\ 1 \in Int /\ \A j \in 1..(i - 1) : q[j] \in T
    BY <1>1
  <2>2. Len(SubSeq(q, 1, i - 1)) = IF 1 <= i - 1 THEN (i - 1) - 1 + 1 ELSE 0
    BY <2>1, SubSeqProperties
  <2>3. \A j \in 1..((i - 1) - 1 + 1) : SubSeq(q, 1, i - 1)[j] = q[1 + j - 1]
    BY <2>1, SubSeqProperties
  <2>4. SubSeq(q, 1, i - 1) \in Seq(T)
    BY <2>1, SubSeqProperties
  <2> QED BY <1>1, <2>2, <2>3, <2>4
<1>3. b \in Seq(T) /\ Len(b) = Len(q) - i /\ \A j \in 1..(Len(q) - i) : b[j] = q[i + j]
  <2>1. i + 1 \in Int /\ Len(q) \in Int /\ \A j \in (i + 1)..Len(q) : q[j] \in T
    BY <1>1
  <2>2. Len(SubSeq(q, i + 1, Len(q)))
          = IF i + 1 <= Len(q) THEN Len(q) - (i + 1) + 1 ELSE 0
    BY <2>1, SubSeqProperties
  <2>3. \A j \in 1..(Len(q) - (i + 1) + 1) :
           SubSeq(q, i + 1, Len(q))[j] = q[(i + 1) + j - 1]
    BY <2>1, SubSeqProperties
  <2>4. SubSeq(q, i + 1, Len(q)) \in Seq(T)
    BY <2>1, SubSeqProperties
  <2> QED BY <1>1, <2>2, <2>3, <2>4
<1>4. RemoveAt(q, i) = a \o b
  BY DEF RemoveAt
<1> HIDE DEF a, b
<1>5. /\ Len(a \o b) = Len(a) + Len(b)
      /\ \A j \in 1..(Len(a) + Len(b)) :
            (a \o b)[j] = IF j <= Len(a) THEN a[j] ELSE b[j - Len(a)]
  BY <1>2, <1>3, ConcatProperties
<1>6. Len(a) + Len(b) = Len(q) - 1
  BY <1>1, <1>2, <1>3
<1>7. ASSUME NEW j \in 1..(Len(q) - 1)
      PROVE  (a \o b)[j] = IF j < i THEN q[j] ELSE q[j + 1]
  <2>1. CASE j < i
    <3>1. j <= Len(a) /\ j \in 1..(i - 1)
      BY <1>1, <1>2, <2>1
    <3> QED BY <1>2, <1>5, <1>6, <2>1, <3>1
  <2>2. CASE ~ (j < i)
    <3>1. ~ (j <= Len(a)) /\ j - Len(a) = j - i + 1 /\ j - i + 1 \in 1..(Len(q) - i)
          /\ i + (j - i + 1) = j + 1
      BY <1>1, <1>2, <2>2
    <3> QED BY <1>3, <1>5, <1>6, <2>2, <3>1
  <2> QED BY <2>1, <2>2
<1> QED BY <1>4, <1>5, <1>6, <1>7

(* A longer row of failures never shortens the cooldown. *)
LEMMA CooldownGrows ==
    ASSUME NEW kind \in Kinds, NEW n \in Nat
    PROVE  Cooldown(kind, n) <= Cooldown(kind, n + 1)
<1> DEFINE f == AtMost(n, MaxFactor)
           g == AtMost(n + 1, MaxFactor)
<1>1. f \in Nat /\ g \in Nat /\ (g = f \/ g = f + 1)
  BY Constants DEF AtMost
<1> HIDE DEF f, g
<1>2. \A s \in Nat : s * f \in Nat /\ s * g \in Nat /\ s * f <= s * g
  <2> TAKE s \in Nat
  <2>1. s * f \in Nat /\ s * (f + 1) = s * f + s
    BY <1>1
  <2> QED BY <1>1, <2>1
<1>3. \A a, b, m \in Nat : a <= b => AtMost(a, m) <= AtMost(b, m)
  BY DEF AtMost
<1>4. /\ AtMost(AuthStep * f, AuthCap) <= AtMost(AuthStep * g, AuthCap)
      /\ AtMost(LimitStep * f, LimitCap) <= AtMost(LimitStep * g, LimitCap)
  BY <1>2, <1>3, Constants
<1> QED BY <1>4 DEF Cooldown, Kinds, f, g

-------------------------------------------------------------------------------
(* What is known of a credential's state: the time of its last use is not in  *)
(* the future, and its failures account for its cooldown.                    *)
Accounted(st, time) ==
    /\ Failures(st) <= MaxFailures
    /\ \E kind \in Kinds : st.until <= time + Cooldown(kind, Failures(st))
    /\ st.last = Never \/ st.last \in 0..time

TaskInv ==
    /\ pc \in [Tasks -> {"idle", "using", "checking", "refused"}]
    /\ cred \in [Tasks -> Ids \cup {NoCred}]
    /\ \A t \in Tasks : cred[t] # NoCred <=> pc[t] \in {"using", "checking"}

(* An id nobody had is nowhere: nothing was recorded on it, and nothing will  *)
(* be before it is added.                                                    *)
IdInv ==
    /\ \A i, j \in DOMAIN creds : creds[i] = creds[j] => i = j
    /\ forgetting \subseteq Ids /\ forgetting \cap Stored = {}
    /\ unused \subseteq Ids
    /\ \A c \in unused : /\ c \notin Stored /\ c \notin forgetting
                         /\ states[c] = Default
                         /\ \A t \in Tasks : cred[t] # c

StateInv ==
    /\ now \in 0..MaxNow
    /\ \A c \in Ids : Accounted(states[c], now)

(* While a client's refusal is fresh, everything stored cools. *)
FreshInv ==
    /\ fresh \subseteq {t \in Tasks : pc[t] = "refused"}
    /\ fresh # {} => \A c \in Stored : Cooling(states[c])

PoolInv == CoolInv /\ TaskInv /\ IdInv /\ StateInv /\ FreshInv

LEMMA Ranges ==
    ASSUME CoolInv
    PROVE  /\ Len(creds) \in Nat /\ DOMAIN creds = 1..Len(creds)
           /\ \A i \in DOMAIN creds : creds[i] \in Ids
           /\ Stored \subseteq Ids /\ Usable \subseteq Stored
           /\ NoCred \notin Ids
BY PoolAssumption, LenProperties, ElementOfSeq DEF CoolInv, Stored, Usable

(* A credential that is new, or works again, has nothing to account for. *)
LEMMA NothingToAccount ==
    ASSUME now \in Nat
    PROVE  /\ Accounted(Default, now)
           /\ Accounted([Default EXCEPT !.last = now], now)
<1>1. MaxFailures \in Nat
  BY PoolAssumption
<1>2. Cooldown("other", 0) = 0 /\ "other" \in Kinds
  BY DEF Cooldown, Kinds
<1>3. /\ Failures(Default) = 0 /\ Default.until = 0 /\ Default.last = Never
      /\ Failures([Default EXCEPT !.last = now]) = 0
      /\ [Default EXCEPT !.last = now].until = 0 /\ [Default EXCEPT !.last = now].last = now
  BY DEF Failures, Default, Warm
<1> QED BY <1>1, <1>2, <1>3 DEF Accounted

LEMMA FailureAccounted ==
    ASSUME NEW st \in State, now \in Nat, Accounted(st, now), NEW kind \in Kinds,
           Failures(st) < MaxFailures
    PROVE  Accounted(Failed(st, kind), now)
<1> DEFINE n == Failures(st)
           wait == Cooldown(kind, n + 1)
           until == IF wait > 0 THEN now + wait ELSE st.until
<1>1. n \in Nat /\ MaxFailures \in Nat
  BY PoolAssumption DEF State, Failures
<1>2. wait \in Nat
  BY <1>1, CooldownIs, Constants
<1>3. /\ Failures(Failed(st, kind)) = n + 1
      /\ Failed(st, kind).until = until
      /\ Failed(st, kind).last = now
  <2>1. Failed(st, kind) = [st EXCEPT ![kind] = @ + 1, !.last = now, !.until = until]
    BY DEF Failed
  <2>5. st.auth \in Nat /\ st.limit \in Nat /\ st.other \in Nat
        /\ n = st.auth + st.limit + st.other
    BY DEF State, Failures
  <2> HIDE DEF until, n
  <2>2. CASE kind = "auth"
    <3>1. Failed(st, kind) = [auth |-> st.auth + 1, limit |-> st.limit, other |-> st.other,
                              until |-> until, last |-> now]
      BY <2>1, <2>2 DEF State
    <3> QED BY <2>5, <3>1 DEF Failures
  <2>3. CASE kind = "limit"
    <3>1. Failed(st, kind) = [auth |-> st.auth, limit |-> st.limit + 1, other |-> st.other,
                              until |-> until, last |-> now]
      BY <2>1, <2>3 DEF State
    <3> QED BY <2>5, <3>1 DEF Failures
  <2>4. CASE kind = "other"
    <3>1. Failed(st, kind) = [auth |-> st.auth, limit |-> st.limit, other |-> st.other + 1,
                              until |-> until, last |-> now]
      BY <2>1, <2>4 DEF State
    <3> QED BY <2>5, <3>1 DEF Failures
  <2> QED BY <2>2, <2>3, <2>4 DEF Kinds
<1>4. \E k \in Kinds : until <= now + Cooldown(k, n + 1)
  <2>1. CASE wait > 0
    BY <1>2, <2>1
  <2>2. CASE ~ (wait > 0)
    <3>1. PICK k \in Kinds : st.until <= now + Cooldown(k, n)
      BY DEF Accounted
    <3>2. Cooldown(k, n) <= Cooldown(k, n + 1)
      BY <1>1, CooldownGrows
    <3>3. Cooldown(k, n) \in Nat /\ Cooldown(k, n + 1) \in Nat
      BY <1>1, CooldownIs, Constants
    <3>4. st.until \in Nat
      BY DEF State
    <3> HIDE DEF wait, n
    <3>5. st.until <= now + Cooldown(k, n + 1)
      BY <3>1, <3>2, <3>3, <3>4
    <3> QED BY <2>2, <3>5
  <2> QED BY <2>1, <2>2
<1> HIDE DEF n, until, wait
<1>5. Failures(st) < MaxFailures /\ n = Failures(st)
  BY DEF n
<1> QED BY <1>1, <1>3, <1>4, <1>5 DEF Accounted

-------------------------------------------------------------------------------
LEMMA InitPool == Init => PoolInv
<1> SUFFICES ASSUME Init PROVE PoolInv
  OBVIOUS
<1>1. CoolInv
  BY InitCool
<1>2. TaskInv
  BY DEF Init, TaskInv
<1>3. IdInv
  BY PoolAssumption DEF Init, IdInv, Stored
<1>4. StateInv
  <2>1. now \in Nat /\ now \in 0..MaxNow /\ \A c \in Ids : states[c] = Default
    BY PoolAssumption DEF Init
  <2> QED BY <2>1, NothingToAccount DEF StateInv
<1>5. FreshInv
  BY DEF Init, FreshInv
<1> QED BY <1>1, <1>2, <1>3, <1>4, <1>5 DEF PoolInv

LEMMA TaskStep ==
    ASSUME PoolInv, [Next]_vars
    PROVE  TaskInv'
<1>1. TaskInv /\ NoCred \notin Ids
  BY PoolAssumption DEF PoolInv
<1>2. ASSUME UNCHANGED <<pc, cred>> PROVE TaskInv'
  BY <1>1, <1>2 DEF TaskInv
<1>3. ASSUME NEW t \in Tasks, Release(t) PROVE TaskInv'
  BY <1>1, <1>3 DEF TaskInv, Release, Go
<1>4. ASSUME NEW t \in Tasks, NEW c \in Ids, NEW label \in {"using", "checking"},
             Go(t, label), cred' = [cred EXCEPT ![t] = c]
      PROVE  TaskInv'
  BY <1>1, <1>4 DEF TaskInv, Go
<1>5. ASSUME NEW t \in Tasks, PickOne(t) PROVE TaskInv'
  <2>1. Chosen \in DOMAIN creds /\ creds[Chosen] \in Ids
    BY <1>5, ChosenIs, Ranges DEF PickOne, PoolInv
  <2> QED BY <1>4, <1>5, <2>1 DEF PickOne
<1>6. ASSUME NEW t \in Tasks, NEW c \in Ids, UseNamed(t, c) PROVE TaskInv'
  BY <1>4, <1>6 DEF UseNamed
<1>7. ASSUME NEW t \in Tasks, PickNone(t) PROVE TaskInv'
  BY <1>1, <1>7 DEF TaskInv, PickNone, Go
<1>8. ASSUME NEW t \in Tasks,
             \/ Answer429(t) \/ Answer401(t) \/ Success(t) \/ Finish(t) \/ Disconnect(t)
             \/ \E kind \in Kinds : Failure(t, kind)
      PROVE  TaskInv'
  BY <1>3, <1>8 DEF Answered, Answer429, Answer401, Success, Finish, Disconnect, Failure
<1>9. ASSUME \/ \E c \in Ids : Add(c) \/ Delete(c) \/ Forget(c)
             \/ Tick \/ UNCHANGED vars
      PROVE  TaskInv'
  BY <1>2, <1>9 DEF Add, Delete, Forget, Tick, vars
<1> QED BY <1>5, <1>6, <1>7, <1>8, <1>9 DEF Next

LEMMA StateStep ==
    ASSUME PoolInv, [Next]_vars
    PROVE  StateInv'
<1>1. /\ now \in Nat /\ now \in 0..MaxNow /\ MaxNow \in Nat
      /\ states \in [Ids -> State] /\ \A c \in Ids : Accounted(states[c], now)
  BY PoolAssumption DEF PoolInv, CoolInv, StateInv
<1>2. ASSUME UNCHANGED <<states, now>> PROVE StateInv'
  BY <1>2 DEF PoolInv, StateInv, Accounted
<1>3. ASSUME NEW c, NEW st, states' = [states EXCEPT ![c] = st], now' = now,
             c \in Ids => Accounted(st, now)
      PROVE  StateInv'
  <2>1. ASSUME NEW d \in Ids PROVE Accounted(states'[d], now)
    BY <1>1, <1>3
  <2> QED BY <1>1, <1>3, <2>1 DEF StateInv
<1>4. ASSUME NEW c \in Ids, Forget(c) PROVE StateInv'
  BY <1>1, <1>3, <1>4, NothingToAccount DEF Forget
<1>5. ASSUME NEW t \in Tasks, Success(t) PROVE StateInv'
  <2>1. Accounted([Default EXCEPT !.last = now], now)
    BY <1>1, NothingToAccount
  <2> QED BY <1>3, <1>5, <2>1 DEF Success
<1>6. ASSUME NEW t \in Tasks, NEW kind \in Kinds, Failure(t, kind) PROVE StateInv'
  <2>1. /\ states' = [states EXCEPT ![cred[t]] = Failed(states[cred[t]], kind)]
        /\ now' = now /\ Failures(states[cred[t]]) < MaxFailures
    BY <1>6 DEF Failure
  <2>2. cred[t] \in Ids => Accounted(Failed(states[cred[t]], kind), now)
    BY <1>1, <2>1, FailureAccounted
  <2> QED BY <1>3, <2>1, <2>2
<1>7. ASSUME Tick PROVE StateInv'
  <2>1. now' = now + 1 /\ states' = states /\ now' \in 0..MaxNow
    BY <1>1, <1>7 DEF Tick
  <2>2. ASSUME NEW c \in Ids PROVE Accounted(states[c], now + 1)
    <3>1. PICK kind \in Kinds : states[c].until <= now + Cooldown(kind, Failures(states[c]))
      BY <1>1 DEF Accounted
    <3>2. Failures(states[c]) \in Nat /\ states[c].until \in Nat
      BY <1>1 DEF State, Failures
    <3>3. Cooldown(kind, Failures(states[c])) \in Nat
      BY <3>2, CooldownIs, Constants
    <3>4. states[c].until <= now + 1 + Cooldown(kind, Failures(states[c]))
      BY <1>1, <3>1, <3>2, <3>3
    <3>5. states[c].last = Never \/ states[c].last \in 0..now
      BY <1>1 DEF Accounted
    <3>6. Failures(states[c]) <= MaxFailures
      BY <1>1 DEF Accounted
    <3> QED BY <1>1, <3>4, <3>5, <3>6 DEF Accounted
  <2> QED BY <2>1, <2>2 DEF StateInv
<1>8. ASSUME UNCHANGED <<states, now>> PROVE StateInv'
  BY <1>2, <1>8
<1>9. ASSUME NEW t \in Tasks,
             \/ PickOne(t) \/ PickNone(t) \/ Answer429(t) \/ Answer401(t)
             \/ Finish(t) \/ Disconnect(t) \/ \E c \in Ids : UseNamed(t, c)
      PROVE  StateInv'
  BY <1>8, <1>9 DEF PickOne, PickNone, Answer429, Answer401, Finish, Disconnect, UseNamed
<1>10. ASSUME (\E c \in Ids : Add(c) \/ Delete(c)) \/ UNCHANGED vars PROVE StateInv'
  BY <1>8, <1>10 DEF Add, Delete, vars
<1> QED BY <1>4, <1>5, <1>6, <1>7, <1>9, <1>10 DEF Next

(* Deleting takes the credential out and no other. *)
LEMMA DeleteTakes ==
    ASSUME CoolInv, IdInv, NEW c \in Ids, Delete(c)
    PROVE  Stored' = Stored \ {c} /\ c \in Stored
<1>0. /\ creds \in Seq(Ids) /\ Len(creds) \in Nat /\ DOMAIN creds = 1..Len(creds)
      /\ \A i, j \in DOMAIN creds : creds[i] = creds[j] => i = j
  BY Ranges DEF CoolInv, IdInv
<1>1. PICK i \in DOMAIN creds : creds[i] = c /\ creds' = RemoveAt(creds, i)
  BY DEF Delete
<1>3. /\ DOMAIN creds' = 1..(Len(creds) - 1)
      /\ \A j \in 1..(Len(creds) - 1) :
            creds'[j] = IF j < i THEN creds[j] ELSE creds[j + 1]
  <2>1. PICK q \in Seq(Ids) : q = creds
    BY <1>0
  <2>2. PICK r : r = RemoveAt(q, i)
    OBVIOUS
  <2>3. q \in Seq(Ids) /\ i \in DOMAIN q
    BY <2>1
  <2>4. r \in Seq(Ids)
    BY <2>2, <2>3, Removing
  <2>5. /\ Len(r) = Len(q) - 1
        /\ \A j \in 1..(Len(q) - 1) : r[j] = IF j < i THEN q[j] ELSE q[j + 1]
    BY <2>2, <2>3, Remaining
  <2>6. DOMAIN r = 1..Len(r)
    BY <2>4, LenProperties
  <2>7. creds' = r
    BY <1>1, <2>1, <2>2
  <2> QED BY <2>1, <2>5, <2>6, <2>7
<1>4. ASSUME NEW d PROVE d \in Stored' <=> d \in Stored \ {c}
  <2>1. ASSUME NEW j \in DOMAIN creds, creds[j] # c PROVE creds[j] \in Stored'
    <3>1. j < i \/ (j - 1 \in 1..(Len(creds) - 1) /\ ~ (j - 1 < i) /\ (j - 1) + 1 = j)
      BY <1>0, <1>1, <2>1
    <3>2. CASE j < i
      <4>1. j \in DOMAIN creds' /\ creds'[j] = creds[j]
        BY <1>0, <1>3, <3>2
      <4> QED BY <4>1 DEF Stored
    <3>3. CASE j - 1 \in 1..(Len(creds) - 1) /\ ~ (j - 1 < i) /\ (j - 1) + 1 = j
      <4>1. j - 1 \in DOMAIN creds' /\ creds'[j - 1] = creds[j]
        BY <1>3, <3>3
      <4> QED BY <4>1 DEF Stored
    <3> QED BY <3>1, <3>2, <3>3
  <2>2. ASSUME NEW j \in DOMAIN creds' PROVE creds'[j] \in Stored \ {c}
    <3>1. CASE j < i
      <4>1. j \in DOMAIN creds /\ creds'[j] = creds[j] /\ j # i
        BY <1>0, <1>3, <2>2, <3>1
      <4> QED BY <1>0, <1>1, <4>1 DEF Stored, IdInv
    <3>2. CASE ~ (j < i)
      <4>1. j + 1 \in DOMAIN creds /\ creds'[j] = creds[j + 1] /\ j + 1 # i
        BY <1>0, <1>3, <2>2, <3>2
      <4> QED BY <1>0, <1>1, <4>1 DEF Stored, IdInv
    <3> QED BY <3>1, <3>2
  <2>3. d \in Stored' => d \in Stored \ {c}
    <3> SUFFICES ASSUME d \in Stored' PROVE d \in Stored \ {c}
      OBVIOUS
    <3>1. PICK j \in DOMAIN creds' : d = creds'[j]
      BY DEF Stored
    <3> QED BY <2>2, <3>1
  <2>4. d \in Stored \ {c} => d \in Stored'
    <3> SUFFICES ASSUME d \in Stored, d # c PROVE d \in Stored'
      OBVIOUS
    <3>1. PICK j \in DOMAIN creds : d = creds[j]
      BY DEF Stored
    <3> QED BY <2>1, <3>1
  <2> QED BY <2>3, <2>4
<1>5. Stored' = Stored \ {c} /\ c \in Stored
  <2>1. c \in Stored
    BY <1>1 DEF Stored
  <2> QED BY <1>4, <2>1
<1> QED BY <1>5

LEMMA IdStep ==
    ASSUME PoolInv, [Next]_vars
    PROVE  IdInv'
<1>1. /\ IdInv /\ creds \in Seq(Ids) /\ NoCred \notin Ids
      /\ Len(creds) \in Nat /\ DOMAIN creds = 1..Len(creds)
      /\ states \in [Ids -> State] /\ cred \in [Tasks -> Ids \cup {NoCred}]
  BY Ranges DEF PoolInv, CoolInv, TaskInv
(* Only a credential that is stored, or was, is used, forgotten or recorded on. *)
<1>2. ASSUME UNCHANGED <<creds, unused, forgetting>>,
             \A c \in unused : states'[c] = states[c] /\ \A t \in Tasks : cred'[t] # c
      PROVE  IdInv'
  BY <1>1, <1>2 DEF IdInv, Stored
<1>3. ASSUME NEW c \in Ids, Add(c) PROVE IdInv'
  <2>1. /\ c \in unused /\ unused' = unused \ {c} /\ creds' = Append(creds, c)
        /\ UNCHANGED <<states, forgetting, cred>>
    BY <1>3 DEF Add
  <2>2. /\ DOMAIN creds' = 1..(Len(creds) + 1) /\ creds'[Len(creds) + 1] = c
        /\ \A i \in 1..Len(creds) : creds'[i] = creds[i]
    <3>1. /\ creds' \in Seq(Ids) /\ Len(creds') = Len(creds) + 1
          /\ creds'[Len(creds) + 1] = c /\ \A i \in 1..Len(creds) : creds'[i] = creds[i]
      BY <1>1, <2>1, AppendProperties
    <3> QED BY <3>1, LenProperties
  <2>3. \A i \in 1..Len(creds) : creds[i] # c
    BY <1>1, <2>1 DEF IdInv, Stored
  <2>4. \A i, j \in DOMAIN creds' : creds'[i] = creds'[j] => i = j
    BY <1>1, <2>2, <2>3 DEF IdInv
  <2>5. \A d \in unused' : d \notin Stored'
    BY <1>1, <2>1, <2>2 DEF IdInv, Stored
  <2>6. Stored' \subseteq Stored \cup {c} /\ c \notin forgetting
    BY <1>1, <2>1, <2>2 DEF IdInv, Stored
  <2> QED BY <1>1, <2>1, <2>4, <2>5, <2>6 DEF IdInv
<1>4. ASSUME NEW c \in Ids, Delete(c) PROVE IdInv'
  <2>1. PICK i \in DOMAIN creds : creds[i] = c /\ creds' = RemoveAt(creds, i)
    BY <1>4 DEF Delete
  <2>2. /\ forgetting' = forgetting \cup {c} /\ UNCHANGED <<unused, states, cred>>
    BY <1>4 DEF Delete
  <2>3. /\ DOMAIN creds' = 1..(Len(creds) - 1)
        /\ \A j \in 1..(Len(creds) - 1) :
              creds'[j] = IF j < i THEN creds[j] ELSE creds[j + 1]
    <3>1. creds' \in Seq(Ids) /\ Len(creds') = Len(creds) - 1
      BY <1>1, <2>1, Removing, Remaining
    <3> QED BY <1>1, <2>1, <3>1, Remaining, LenProperties
  <2>4. ASSUME NEW j \in DOMAIN creds', NEW k \in DOMAIN creds', creds'[j] = creds'[k]
        PROVE  j = k
    <3> DEFINE before(m) == IF m < i THEN m ELSE m + 1
    <3>1. /\ creds'[j] = creds[before(j)] /\ before(j) \in DOMAIN creds
          /\ creds'[k] = creds[before(k)] /\ before(k) \in DOMAIN creds
      BY <1>1, <2>3
    <3>2. before(j) = before(k)
      <4> HIDE DEF before
      <4> QED BY <1>1, <2>4, <3>1 DEF IdInv
    <3> QED BY <1>1, <2>3, <3>2
  <2>5. Stored' = Stored \ {c} /\ c \in Stored
    BY <1>4, DeleteTakes DEF PoolInv
  <2> QED BY <1>1, <2>2, <2>4, <2>5 DEF IdInv
<1>5. ASSUME NEW c \in Ids, Forget(c) PROVE IdInv'
  <2>1. /\ states' = [states EXCEPT ![c] = Default] /\ forgetting' = forgetting \ {c}
        /\ UNCHANGED <<creds, unused, cred>>
    BY <1>5 DEF Forget
  <2> QED BY <1>1, <2>1 DEF IdInv, Stored
<1>6. ASSUME NEW t \in Tasks, Release(t), UNCHANGED <<creds, unused, forgetting>>,
             \A c \in unused : states'[c] = states[c]
      PROVE  IdInv'
  <2>1. ASSUME NEW c \in unused, NEW u \in Tasks PROVE cred'[u] # c
    BY <1>1, <1>6 DEF IdInv, Release
  <2> QED BY <1>2, <1>6, <2>1
<1>7. ASSUME NEW t \in Tasks, NEW c \in Stored, cred' = [cred EXCEPT ![t] = c],
             UNCHANGED <<creds, unused, forgetting, states>>
      PROVE  IdInv'
  <2>1. ASSUME NEW d \in unused, NEW u \in Tasks PROVE cred'[u] # d
    BY <1>1, <1>7 DEF IdInv
  <2> QED BY <1>2, <1>7, <2>1
<1>8. ASSUME NEW t \in Tasks, PickOne(t) PROVE IdInv'
  <2>1. creds[Chosen] \in Stored
    BY <1>8, ChosenIs, Ranges DEF PickOne, PoolInv
  <2> QED BY <1>7, <1>8, <2>1 DEF PickOne
<1>9. ASSUME NEW t \in Tasks, NEW c \in Ids, UseNamed(t, c) PROVE IdInv'
  BY <1>7, <1>9 DEF UseNamed
<1>10. ASSUME NEW t \in Tasks,
              \/ Answer429(t) \/ Answer401(t) \/ Finish(t) \/ Disconnect(t)
       PROVE  IdInv'
  BY <1>6, <1>10 DEF Answered, Answer429, Answer401, Finish, Disconnect
<1>11. ASSUME NEW t \in Tasks, NEW st, states' = [states EXCEPT ![cred[t]] = st],
              Release(t), UNCHANGED <<creds, unused, forgetting>>
       PROVE  IdInv'
  <2>1. ASSUME NEW c \in unused PROVE states'[c] = states[c]
    BY <1>1, <1>11 DEF IdInv
  <2> QED BY <1>6, <1>11, <2>1
<1>12. ASSUME NEW t \in Tasks, Success(t) \/ \E kind \in Kinds : Failure(t, kind) PROVE IdInv'
  BY <1>11, <1>12 DEF Success, Failure
<1>13. ASSUME (\E t \in Tasks : PickNone(t)) \/ Tick \/ UNCHANGED vars PROVE IdInv'
  <2>1. UNCHANGED <<creds, unused, forgetting, states, cred>>
    BY <1>13 DEF PickNone, Tick, vars
  <2> QED BY <1>1, <2>1 DEF IdInv, Stored
<1> QED BY <1>3, <1>4, <1>5, <1>8, <1>9, <1>10, <1>12, <1>13 DEF Next

(* Nothing but time and a success ends a cooldown of what is stored. *)
LEMMA FreshStep ==
    ASSUME PoolInv, [Next]_vars
    PROVE  FreshInv'
<1>1. /\ CoolInv /\ IdInv /\ FreshInv /\ now \in Nat /\ states \in [Ids -> State]
      /\ Stored \subseteq Ids /\ pc \in [Tasks -> {"idle", "using", "checking", "refused"}]
  BY Ranges DEF PoolInv, CoolInv, TaskInv
<1>2. ASSUME fresh' = {} PROVE FreshInv'
  BY <1>2 DEF FreshInv
<1>3. ASSUME (\E c \in Ids : Add(c)) \/ (\E t \in Tasks : Success(t)) \/ Tick
      PROVE  FreshInv'
  BY <1>2, <1>3 DEF Add, Success, Tick, Stale
<1>4. ASSUME UNCHANGED <<states, now>>, Stored' \subseteq Stored,
             \A t \in fresh' : t \in fresh /\ pc'[t] = pc[t]
      PROVE  FreshInv'
  BY <1>1, <1>4 DEF FreshInv, Cooling
<1>5. ASSUME UNCHANGED <<creds, states, now>>,
             \A t \in fresh' : t \in fresh /\ pc'[t] = pc[t]
      PROVE  FreshInv'
  BY <1>4, <1>5 DEF Stored
<1>6. ASSUME NEW t \in Tasks, Answer429(t) \/ Answer401(t) \/ Disconnect(t)
      PROVE  FreshInv'
  <2>1. UNCHANGED <<creds, states, now>> /\ fresh' = fresh \ {t}
        /\ pc' = [pc EXCEPT ![t] = "idle"]
    BY <1>6 DEF Answer429, Answer401, Disconnect, Answered, Release, Go
  <2> QED BY <1>1, <1>5, <2>1 DEF FreshInv
<1>7. ASSUME NEW t \in Tasks, PickOne(t) \/ Finish(t) \/ \E c \in Ids : UseNamed(t, c)
      PROVE  FreshInv'
  <2>1. /\ UNCHANGED <<creds, states, now, fresh>>
        /\ \E label : pc' = [pc EXCEPT ![t] = label]
        /\ pc[t] # "refused"
    BY <1>7 DEF PickOne, Finish, UseNamed, Release, Go
  <2> QED BY <1>1, <1>5, <2>1 DEF FreshInv
<1>8. ASSUME NEW t \in Tasks, PickNone(t) PROVE FreshInv'
  <2>1. /\ UNCHANGED <<creds, states, now>> /\ fresh' = fresh \cup {t}
        /\ pc' = [pc EXCEPT ![t] = "refused"]
    BY <1>8 DEF PickNone, Go
  <2>2. \A c \in Stored : Cooling(states[c])
    BY <1>1, <1>8, ChosenIs DEF PickNone, Usable
  <2>3. \A c \in Stored' : Cooling(states[c])'
    BY <2>1, <2>2 DEF Stored, Cooling
  <2> QED BY <1>1, <2>1, <2>3 DEF FreshInv
<1>9. ASSUME NEW t \in Tasks, NEW kind \in Kinds, Failure(t, kind) PROVE FreshInv'
  <2>1. /\ states' = [states EXCEPT ![cred[t]] = Failed(states[cred[t]], kind)]
        /\ UNCHANGED <<creds, now, fresh>> /\ pc[t] # "refused"
        /\ pc' = [pc EXCEPT ![t] = "idle"]
    BY <1>9 DEF Failure, Release, Go
  <2>2. ASSUME NEW c \in Stored, Cooling(states[c]) PROVE Cooling(states[c])'
    <3>1. states[c] \in State /\ states[c].until > now
      BY <1>1, <2>2 DEF Cooling
    <3>2. Failed(states[c], kind).until > now
      BY <1>1, <3>1, FailedIs
    <3>3. states'[c] \in {states[c], Failed(states[c], kind)}
      BY <1>1, <2>1
    <3> QED BY <2>1, <3>1, <3>2, <3>3 DEF Cooling
  <2>3. Stored' = Stored /\ \A u \in fresh : pc'[u] = "refused" /\ u \in Tasks
    BY <1>1, <2>1 DEF Stored, FreshInv
  <2> QED BY <1>1, <2>1, <2>2, <2>3 DEF FreshInv, Cooling
<1>10. ASSUME NEW c \in Ids, Delete(c) PROVE FreshInv'
  <2>1. UNCHANGED <<states, now, pc, fresh>> /\ Stored' \subseteq Stored
    BY <1>1, <1>10, DeleteTakes DEF Delete
  <2> QED BY <1>4, <2>1
<1>11. ASSUME NEW c \in Ids, Forget(c) PROVE FreshInv'
  <2>1. /\ UNCHANGED <<creds, now, pc, fresh>> /\ c \notin Stored
        /\ \A d \in Stored : states'[d] = states[d]
    BY <1>1, <1>11 DEF Forget, IdInv
  <2>2. Stored' = Stored
    BY <2>1 DEF Stored
  <2> QED BY <1>1, <2>1, <2>2 DEF FreshInv, Cooling
<1>12. CASE UNCHANGED vars
  BY <1>5, <1>12 DEF vars
<1> QED BY <1>3, <1>6, <1>7, <1>8, <1>9, <1>10, <1>11, <1>12 DEF Next

LEMMA PoolHolds == Spec => []PoolInv
<1>1. Init => PoolInv
  BY InitPool
<1>2. PoolInv /\ [Next]_vars => PoolInv'
  BY CoolStep, TaskStep, StateStep, IdStep, FreshStep DEF PoolInv
<1> QED BY <1>1, <1>2, PTL DEF Spec

(* Types hold, a task has a credential exactly while it uses one, an id comes  *)
(* into use once, and what is left of a cooldown never exceeds what the       *)
(* failures since the last success account for (web_pool.rs, record_failure). *)
THEOREM PoolTypes == Spec => []TypeOK
<1>1. PoolInv => TypeOK
  <2> SUFFICES ASSUME PoolInv PROVE TypeOK
    OBVIOUS
  <2>1. creds \in Seq(Ids) /\ unused \subseteq Ids /\ Stored \cap unused = {}
        /\ forgetting \subseteq Ids /\ now \in 0..MaxNow
        /\ fresh \subseteq {t \in Tasks : pc[t] = "refused"}
    BY DEF PoolInv, CoolInv, IdInv, StateInv, FreshInv
  <2>2. retryAt \in {NoRetry} \cup Nat
    BY DEF PoolInv, CoolInv
  <2>3. ASSUME NEW c \in Ids
        PROVE  /\ Failures(states[c]) \in 0..MaxFailures
               /\ states[c].until \in Nat
               /\ \E kind \in Kinds :
                     states[c].until <= now + Cooldown(kind, Failures(states[c]))
               /\ states[c].last \in {Never} \cup 0..now
    <3>1. states[c] \in State /\ Accounted(states[c], now) /\ MaxFailures \in Nat
      BY PoolAssumption DEF PoolInv, CoolInv, StateInv
    <3>2. Failures(states[c]) \in Nat /\ states[c].until \in Nat
      BY <3>1 DEF State, Failures
    <3> QED BY <3>1, <3>2 DEF Accounted
  <2>4. ASSUME NEW t \in Tasks
        PROVE  /\ pc[t] \in {"idle", "using", "checking", "refused"}
               /\ (cred[t] # NoCred) <=> (pc[t] \in {"using", "checking"})
               /\ cred[t] \in Ids \cup {NoCred}
    BY DEF PoolInv, TaskInv
  <2> QED BY <2>1, <2>2, <2>3, <2>4 DEF TypeOK
<1> QED BY <1>1, PoolHolds, PTL

(* A client refused because every credential cools is told to come back, and  *)
(* not that none is imported, whatever failures the requests still under way  *)
(* record and whatever is deleted between its pick and its answer, for any    *)
(* number of credentials and users and all cooldowns; said of an answer with  *)
(* no import, no success and no second between (api.rs looks at the states a  *)
(* second time).                                                             *)
THEOREM ToldToComeBack == Spec => CoolingIsTold
<1>1. PoolInv /\ [Next]_vars =>
        [\A t \in fresh : Answer401(t) => creds = <<>>]_vars
  <2> SUFFICES ASSUME PoolInv, NEW t \in fresh, Answer401(t) PROVE creds = <<>>
    OBVIOUS
  <2>1. \A c \in Stored : Cooling(states[c])
    BY DEF PoolInv, FreshInv
  <2>2. \A c \in Ids : ~Cooling(states[c])
    BY MaxWaitIs DEF Answer401, PoolInv
  <2>3. creds = <<>> \/ Usable # {}
    BY <2>2, AllUsable DEF PoolInv
  <2> QED BY <2>1, <2>3 DEF Usable
<1> QED BY <1>1, PoolHolds, PTL DEF Spec, CoolingIsTold

(* Of equals the one used longest ago is picked, whatever the health and      *)
(* however many credentials there are.                                       *)
THEOREM EqualsTakeTurns == Spec => TakesTurns
<1> DEFINE Turns(t) ==
             LET c == cred'[t]
                 close == {d \in Usable : Choice!Near(Candidate(c), Candidate(d))}
             IN  (\A d \in close : Health(states[d]) = Health(states[c])) =>
                    \A d \in close : states[c].last <= states[d].last
<1>1. ASSUME CoolInv, NEW t \in Tasks, PickOne(t), TaskInv
      PROVE  Turns(t)
  <2> DEFINE w == Chosen
             c == creds[w]
             group == Passes!Contest(Candidates)
             close == {d \in Usable : Choice!Near(Candidate(c), Candidate(d))}
             part == {i \in group : Passes!Near(Candidates[w], Candidates[i])}
  <2>1. cred'[t] = c /\ w # Choice!NoOne
    BY <1>1 DEF PickOne, TaskInv
  <2>2. /\ w \in group /\ w \in DOMAIN creds
        /\ w = Passes!Winner(Candidates, group)
        /\ group \in SUBSET DOMAIN creds
    BY <1>1, <2>1, ChosenWins
  <2>3. /\ Candidates \in Seq(Passes!Candidate) /\ DOMAIN Candidates = DOMAIN creds
        /\ \A i \in DOMAIN creds : Candidates[i] = Candidate(creds[i])
    BY <1>1, CandidatesAre
  <2>4. \A a, b : Choice!Near(a, b) <=> Passes!Near(a, b)
    BY DEF Choice!Near, Passes!Near, Choice!Tolerance, Passes!Tolerance
  <2>5. group \subseteq Passes!Usable(Candidates)
    BY DEF Passes!Contest, Passes!Healthy
  <2>6. ASSUME NEW i \in DOMAIN creds
        PROVE  i \in Passes!Usable(Candidates) <=> creds[i] \in Usable
    BY <2>3 DEF Passes!Usable, Usable, Candidate, Stored
  <2> SUFFICES ASSUME \A d \in close : Health(states[d]) = Health(states[c]),
                      NEW d \in close
               PROVE  states[c].last <= states[d].last
    BY <2>1
  <2>7. PICK k \in DOMAIN creds : creds[k] = d
    BY DEF Usable, Stored
  <2>8. ASSUME NEW i \in part PROVE Candidates[i].score = Candidates[w].score
    <3>1. creds[i] \in close
      BY <2>2, <2>3, <2>4, <2>5, <2>6
    <3> QED BY <2>2, <2>3, <3>1 DEF Candidate
  <2>9. \A i \in part, j \in group :
           Passes!Near(Candidates[i], Candidates[j]) <=> j \in part
    BY <2>8 DEF Passes!Near
  <2>10. k \in Passes!Usable(Candidates) /\ Candidates[k].score = Candidates[w].score
    BY <2>2, <2>3, <2>6, <2>7 DEF Candidate
  <2>11. k \in group
    BY <2>2, <2>10 DEF Passes!Contest, Passes!Healthy, Passes!Usable
  <2>12. Candidates[w].score \in Int /\ One \in Int /\ One >= 1000
    <3>1. Candidates[w] \in Passes!Candidate
      BY <2>2, <2>3, ElementOfSeq
    <3> QED BY <3>1, WholeIs DEF Passes!Candidate
  <2>13. Passes!Near(Candidates[w], Candidates[w]) /\ Passes!Near(Candidates[w], Candidates[k])
    BY <2>10, <2>12 DEF Passes!Near, Passes!Tolerance
  <2>14. w \in part /\ k \in part /\ part \in SUBSET group
    BY <2>2, <2>11, <2>13
  <2>15. Candidates[w].last <= Candidates[k].last
    <3> HIDE DEF part, group, w
    <3> QED BY <2>2, <2>3, <2>9, <2>12, <2>14, Passes!WinnerIsLongestUnused
  <2> QED BY <2>2, <2>3, <2>7, <2>15 DEF Candidate
<1>2. PoolInv /\ [Next]_vars => [\A t \in Tasks : PickOne(t) => Turns(t)]_vars
  BY <1>1 DEF PoolInv
<1> QED BY <1>2, PoolHolds, PTL DEF Spec, TakesTurns

-------------------------------------------------------------------------------
(* The promise: what PoolPromise sees of the pool. *)
CoolingIds == {c \in Ids : Cooling(states[c])}
Picked     == [t \in Tasks |-> IF pc[t] = "using" THEN cred[t] ELSE NoCred]
Named      == [t \in Tasks |-> IF pc[t] = "checking" THEN cred[t] ELSE NoCred]
RefusedSet == {t \in Tasks : pc[t] = "refused"}
Seen       == <<Stored, CoolingIds, Picked, Named, RefusedSet>>

LEMMA SeenIs == Seen = Promise!vars /\ (Seen' = Promise!vars')
BY DEF Seen, CoolingIds, Picked, Named, RefusedSet, Promise!vars

(* What a user that is done leaves behind. *)
LEMMA Released ==
    ASSUME TaskInv, NEW t \in Tasks, Release(t)
    PROVE  /\ Picked' = [Picked EXCEPT ![t] = NoCred]
           /\ Named' = [Named EXCEPT ![t] = NoCred]
           /\ RefusedSet' = RefusedSet \ {t}
<1>1. /\ pc' = [pc EXCEPT ![t] = "idle"] /\ cred' = [cred EXCEPT ![t] = NoCred]
      /\ pc \in [Tasks -> {"idle", "using", "checking", "refused"}]
      /\ cred \in [Tasks -> Ids \cup {NoCred}]
  BY DEF TaskInv, Release, Go
<1> QED BY <1>1 DEF Picked, Named, RefusedSet

LEMMA Takes ==
    ASSUME TaskInv, NEW t \in Tasks, pc[t] = "idle", NEW c,
           NEW label \in {"using", "checking"}, Go(t, label),
           cred' = [cred EXCEPT ![t] = c]
    PROVE  /\ label = "using" => Picked' = [Picked EXCEPT ![t] = c] /\ Named' = Named
           /\ label = "checking" => Named' = [Named EXCEPT ![t] = c] /\ Picked' = Picked
           /\ RefusedSet' = RefusedSet
           /\ Promise!Idle(t)
<1>1. /\ pc' = [pc EXCEPT ![t] = label]
      /\ pc \in [Tasks -> {"idle", "using", "checking", "refused"}]
      /\ cred \in [Tasks -> Ids \cup {NoCred}]
  BY DEF TaskInv, Go
<1>2. Promise!Idle(t)
  BY DEF Promise!Idle, Picked, Named, RefusedSet
<1>3. CASE label = "using"
  BY <1>1, <1>2, <1>3 DEF Picked, Named, RefusedSet
<1>4. CASE label = "checking"
  BY <1>1, <1>2, <1>4 DEF Picked, Named, RefusedSet
<1> QED BY <1>3, <1>4

(* A record on c begins or ends a cooldown of c, or neither. *)
LEMMA Recorded ==
    ASSUME PoolInv, NEW t \in Tasks, pc[t] \in {"using", "checking"}, Release(t),
           states' = states \/ (\E st : states' = [states EXCEPT ![cred[t]] = st]),
           UNCHANGED <<creds, now>>
    PROVE  Promise!Next
<1>0. PICK c : c = cred[t]
  OBVIOUS
<1>1. /\ c \in Ids /\ c # NoCred /\ states \in [Ids -> State]
      /\ \A u \in Tasks : cred[u] # NoCred <=> pc[u] \in {"using", "checking"}
  BY <1>0, Ranges DEF PoolInv, TaskInv, CoolInv
<1>2. c \in {Picked[t], Named[t]} \ {NoCred}
  BY <1>0, <1>1 DEF Picked, Named
<1>3. \A d \in Ids : d # c => (d \in CoolingIds' <=> d \in CoolingIds)
  BY <1>0, <1>1 DEF CoolingIds, Cooling
<1>4. CoolingIds' \in {CoolingIds, CoolingIds \cup {c}, CoolingIds \ {c}}
  <2>1. CoolingIds \subseteq Ids /\ CoolingIds' \subseteq Ids
    BY DEF CoolingIds
  <2>2. CASE c \in CoolingIds'
    <3>1. CoolingIds' = CoolingIds \cup {c}
      BY <1>3, <2>1, <2>2
    <3> QED BY <3>1
  <2>3. CASE c \notin CoolingIds'
    <3>1. CoolingIds' = CoolingIds \ {c}
      BY <1>3, <2>1, <2>3
    <3> QED BY <3>1
  <2> QED BY <2>2, <2>3
<1>5. /\ Picked' = [Picked EXCEPT ![t] = NoCred] /\ Named' = [Named EXCEPT ![t] = NoCred]
      /\ RefusedSet' = RefusedSet
  <2>1. RefusedSet' = RefusedSet \ {t} /\ t \notin RefusedSet
    BY Released DEF PoolInv, RefusedSet
  <2> QED BY <2>1, Released DEF PoolInv
<1>6. Stored' = Stored
  BY DEF Stored
<1>7. Promise!Record(t, c)
  BY <1>2, <1>4, <1>5, <1>6 DEF Promise!Record, Picked, Named, RefusedSet, CoolingIds
<1> QED BY <1>1, <1>7 DEF Promise!Next

LEMMA PromiseStep ==
    ASSUME PoolInv, [Next]_vars
    PROVE  Promise!Next \/ UNCHANGED Seen
<1> DEFINE Goal == Promise!Next \/ UNCHANGED Seen
<1>1. /\ CoolInv /\ TaskInv /\ IdInv /\ now \in Nat
      /\ Len(creds) \in Nat /\ DOMAIN creds = 1..Len(creds) /\ creds \in Seq(Ids)
      /\ states \in [Ids -> State]
  BY Ranges DEF PoolInv, CoolInv
(* Users, and what is not cooling, stay what they are. *)
<1>2. ASSUME UNCHANGED <<pc, cred>>
      PROVE  Picked' = Picked /\ Named' = Named /\ RefusedSet' = RefusedSet
  BY <1>2 DEF Picked, Named, RefusedSet
<1>3. ASSUME UNCHANGED <<states, now>> PROVE CoolingIds' = CoolingIds
  BY <1>3 DEF CoolingIds, Cooling
<1>4. ASSUME UNCHANGED creds PROVE Stored' = Stored
  BY <1>4 DEF Stored
<1>5. ASSUME UNCHANGED <<creds, pc, cred>>, CoolingIds' \subseteq CoolingIds PROVE Goal
  <2>1. Promise!CoolEnd
    BY <1>2, <1>4, <1>5
       DEF Promise!CoolEnd, Picked, Named, RefusedSet, CoolingIds
  <2> QED BY <2>1 DEF Promise!Next
<1>6. ASSUME NEW c \in Ids, Add(c) PROVE Goal
  <2>1. c \in unused /\ creds' = Append(creds, c) /\ UNCHANGED <<states, now, pc, cred>>
    BY <1>6 DEF Add
  <2>2. c \notin Stored \cup CoolingIds
    <3>1. c \notin Stored /\ states[c] = Default
      BY <1>1, <2>1 DEF IdInv
    <3>2. ~Cooling(states[c])
      BY <1>1, <3>1, DefaultState DEF Cooling
    <3> QED BY <3>1, <3>2 DEF CoolingIds
  <2>3. Stored' = Stored \cup {c}
    <3>1. /\ DOMAIN creds' = 1..(Len(creds) + 1) /\ creds'[Len(creds) + 1] = c
          /\ \A i \in 1..Len(creds) : creds'[i] = creds[i]
      <4>1. /\ creds' \in Seq(Ids) /\ Len(creds') = Len(creds) + 1
            /\ creds'[Len(creds) + 1] = c /\ \A i \in 1..Len(creds) : creds'[i] = creds[i]
        BY <1>1, <2>1, AppendProperties
      <4> QED BY <4>1, LenProperties
    <3> QED BY <1>1, <3>1 DEF Stored
  <2>4. Promise!Add(c)
    BY <1>2, <1>3, <2>1, <2>2, <2>3
       DEF Promise!Add, Picked, Named, RefusedSet, CoolingIds
  <2> QED BY <2>4 DEF Promise!Next
<1>7. ASSUME NEW c \in Ids, Delete(c) PROVE Goal
  <2>2. UNCHANGED <<states, now, pc, cred>>
    BY <1>7 DEF Delete
  <2>5. Stored' = Stored \ {c} /\ c \in Stored
    BY <1>1, <1>7, DeleteTakes
  <2>6. Promise!Delete(c)
    BY <1>2, <1>3, <2>2, <2>5
       DEF Promise!Delete, Picked, Named, RefusedSet, CoolingIds
  <2> QED BY <2>6 DEF Promise!Next
<1>8. ASSUME NEW c \in Ids, Forget(c) PROVE Goal
  <2>1. states' = [states EXCEPT ![c] = Default]
        /\ UNCHANGED <<creds, pc, cred, now>>
    BY <1>8 DEF Forget
  <2>2. ASSUME NEW d \in Ids, states'[d].until > now PROVE states[d].until > now
    BY <1>1, <2>1, <2>2, DefaultState
  <2>3. CoolingIds' \subseteq CoolingIds
    BY <2>1, <2>2 DEF CoolingIds, Cooling
  <2> QED BY <1>5, <2>1, <2>3
<1>9. ASSUME Tick PROVE Goal
  <2>1. now' = now + 1 /\ UNCHANGED <<creds, pc, cred, states>>
    BY <1>9 DEF Tick
  <2>2. \A c \in Ids : states[c].until \in Nat
    BY <1>1 DEF State
  <2>3. CoolingIds' \subseteq CoolingIds
    BY <1>1, <2>1, <2>2 DEF CoolingIds, Cooling
  <2> QED BY <1>5, <2>1, <2>3
<1>10. ASSUME NEW t \in Tasks, PickOne(t) PROVE Goal
  <2> DEFINE c == creds[Chosen]
  <2>1. /\ pc[t] = "idle" /\ cred' = [cred EXCEPT ![t] = c] /\ Go(t, "using")
        /\ UNCHANGED <<creds, states, now>>
    BY <1>10 DEF PickOne
  <2>2. c \in Stored \ CoolingIds
    <3>1. c \in Usable
      BY <1>1, <1>10, ChosenIs DEF PickOne
    <3> HIDE DEF c
    <3> QED BY <3>1 DEF Usable, CoolingIds
  <2> HIDE DEF c
  <2>3. /\ Picked' = [Picked EXCEPT ![t] = c] /\ Named' = Named
        /\ RefusedSet' = RefusedSet /\ Promise!Idle(t)
    BY <1>1, <2>1, Takes
  <2>4. Promise!Pick(t)
    BY <1>3, <1>4, <2>1, <2>2, <2>3
       DEF Promise!Pick, Picked, Named, RefusedSet, CoolingIds
  <2> QED BY <2>4 DEF Promise!Next
<1>11. ASSUME NEW t \in Tasks, PickNone(t) PROVE Goal
  <2>1. /\ pc[t] = "idle" /\ pc' = [pc EXCEPT ![t] = "refused"]
        /\ UNCHANGED <<creds, states, now, cred>>
    BY <1>11 DEF PickNone, Go
  <2>2. Stored \subseteq CoolingIds
    <3>1. Usable = {} /\ Stored \subseteq Ids
      BY <1>1, <1>11, ChosenIs, Ranges DEF PickNone
    <3> QED BY <3>1 DEF Usable, CoolingIds
  <2>3. /\ Picked' = Picked /\ Named' = Named /\ RefusedSet' = RefusedSet \cup {t}
        /\ Promise!Idle(t)
    <3>1. pc \in [Tasks -> {"idle", "using", "checking", "refused"}]
      BY <1>1 DEF TaskInv
    <3>2. Promise!Idle(t)
      BY <2>1 DEF Promise!Idle
    <3> QED BY <2>1, <3>1, <3>2 DEF Picked, Named, RefusedSet
  <2>4. Promise!Refuse(t)
    BY <1>3, <1>4, <2>1, <2>2, <2>3
       DEF Promise!Refuse, Picked, Named, RefusedSet, CoolingIds
  <2> QED BY <2>4 DEF Promise!Next
<1>12. ASSUME NEW t \in Tasks, NEW c \in Ids, UseNamed(t, c) PROVE Goal
  <2>1. /\ pc[t] = "idle" /\ c \in Stored /\ cred' = [cred EXCEPT ![t] = c]
        /\ Go(t, "checking") /\ UNCHANGED <<creds, states, now>>
    BY <1>12 DEF UseNamed
  <2>2. /\ Named' = [Named EXCEPT ![t] = c] /\ Picked' = Picked
        /\ RefusedSet' = RefusedSet /\ Promise!Idle(t)
    BY <1>1, <2>1, Takes
  <2>3. Promise!Check(t)
    BY <1>3, <1>4, <2>1, <2>2
       DEF Promise!Check, Picked, Named, RefusedSet, CoolingIds
  <2> QED BY <2>3 DEF Promise!Next
<1>13. ASSUME NEW t \in Tasks, pc[t] = "refused", Release(t), UNCHANGED <<creds, states, now>>
       PROVE  Goal
  <2>1. Picked[t] = NoCred /\ Named[t] = NoCred /\ t \in RefusedSet
    BY <1>13 DEF Picked, Named, RefusedSet
  <2>2. Picked' = Picked /\ Named' = Named /\ RefusedSet' = RefusedSet \ {t}
    <3>1. /\ Picked' = [Picked EXCEPT ![t] = NoCred]
          /\ Named' = [Named EXCEPT ![t] = NoCred]
          /\ RefusedSet' = RefusedSet \ {t}
      BY <1>1, <1>13, Released
    <3> QED BY <2>1, <3>1 DEF Picked, Named
  <2>3. Promise!Answer(t)
    BY <1>3, <1>4, <1>13, <2>1, <2>2
       DEF Promise!Answer, Picked, Named, RefusedSet, CoolingIds
  <2> QED BY <2>3 DEF Promise!Next
<1>14. ASSUME NEW t \in Tasks, Answer429(t) \/ Answer401(t) PROVE Goal
  BY <1>13, <1>14 DEF Answered, Answer429, Answer401
<1>15. ASSUME NEW t \in Tasks, Success(t) \/ \E kind \in Kinds : Failure(t, kind) PROVE Goal
  <2>1. \E st : states' = [states EXCEPT ![cred[t]] = st]
    BY <1>15 DEF Success, Failure
  <2>2. pc[t] \in {"using", "checking"} /\ Release(t) /\ UNCHANGED <<creds, now>>
    BY <1>15 DEF Success, Failure
  <2> QED BY <2>1, <2>2, Recorded
<1>16. ASSUME NEW t \in Tasks, Finish(t) PROVE Goal
  BY <1>16, Recorded DEF Finish
<1>17. ASSUME NEW t \in Tasks, Disconnect(t) PROVE Goal
  <2>1. pc[t] \in {"using", "checking", "refused"}
    BY <1>1, <1>17 DEF Disconnect, TaskInv
  <2>2. Release(t) /\ UNCHANGED <<creds, states, now>>
    BY <1>17 DEF Disconnect, Answered
  <2> QED BY <1>13, <2>1, <2>2, Recorded
<1>18. CASE UNCHANGED vars
  BY <1>2, <1>3, <1>4, <1>18 DEF vars, Seen
<1> QED BY <1>6, <1>7, <1>8, <1>9, <1>10, <1>11, <1>12, <1>14, <1>15, <1>16, <1>17, <1>18
     DEF Next

(* The pool keeps its promise: every behaviour of it is one of PoolPromise,   *)
(* so low health alone never leaves a request without a credential, no        *)
(* cooling one is given out, and nobody's record cools a credential but the   *)
(* one used (web_pool.rs).                                                   *)
THEOREM PoolKeepsPromise == Spec => ImplementsPromise
<1>1. Init => Promise!Init
  <2> SUFFICES ASSUME Init PROVE Promise!Init
    OBVIOUS
  <2>1. Stored \subseteq Ids /\ CoolingIds = {}
    BY DefaultState DEF Init, Stored, CoolingIds, Cooling
  <2>2. Picked = [t \in Tasks |-> NoCred] /\ Named = [t \in Tasks |-> NoCred]
        /\ RefusedSet = {}
    BY DEF Init, Picked, Named, RefusedSet
  <2> QED BY <2>1, <2>2 DEF Promise!Init, CoolingIds, Picked, Named, RefusedSet
<1>2. PoolInv /\ [Next]_vars => [Promise!Next]_(Promise!vars)
  BY PromiseStep, SeenIs
<1> QED BY <1>1, <1>2, PoolHolds, PTL DEF Spec, ImplementsPromise, Promise!Spec
===============================================================================
