--------------------------- MODULE LoginGuardProofs ---------------------------
(***************************************************************************)
(* Proofs about LoginGuard, for every number of attempts, every window and *)
(* every limit of a lock: types, that a lock is kept while its window      *)
(* lasts, and how many failures a window counts.                           *)
(***************************************************************************)
EXTENDS LoginGuard, FiniteSetTheorems, TLAPS

(* Locks are a second at least, MaxLock at most, and grow. *)
LEMMA Locks ==
    ASSUME NEW n \in Nat \ {0}
    PROVE  /\ Lock(n) \in 1..MaxLock
           /\ Lock(n) <= Lock(n + 1)
<1>1. Least(n, 6) \in 1..6 /\ Least(n + 1, 6) \in 1..6
  BY DEF Least
<1>2. Least(n, 6) <= Least(n + 1, 6)
  BY DEF Least
<1>3. \A i \in 1..6 : Shifted[i] \in Nat \ {0}
  BY DEF Shifted
<1>4. \A i, j \in 1..6 : i <= j => Shifted[i] <= Shifted[j]
  BY DEF Shifted
<1>5. Shifted[Least(n, 6)] <= Shifted[Least(n + 1, 6)]
  BY <1>1, <1>2, <1>4
<1>6. Shifted[Least(n, 6)] \in Nat \ {0} /\ Shifted[Least(n + 1, 6)] \in Nat \ {0}
  BY <1>1, <1>3
<1>7. MaxLock \in Nat \ {0}
  BY GuardAssumption
<1> DEFINE a == Shifted[Least(n, 6)]
           b == Shifted[Least(n + 1, 6)]
<1>8. Lock(n) = Least(a, MaxLock) /\ Lock(n + 1) = Least(b, MaxLock)
  BY DEF Lock
<1> HIDE DEF a, b
<1> QED BY <1>5, <1>6, <1>7, <1>8 DEF Least, a, b

-------------------------------------------------------------------------------
(* The lock that ends last is the entry's, or is over, or its window is. *)
PromiseInv ==
    /\ entry = NoEntry => promise = NoPromise
    /\ entry # NoEntry =>
        /\ entry.failures = 0 => entry.until = NoLock
        /\ entry.failures > 0 => entry.until <= now + Lock(entry.failures)
        /\ now < promise.until =>
            \/ now - promise.start > Window
            \/ promise = [until |-> entry.until, start |-> entry.start]

GuardInv == TypeOK /\ PromiseInv

LEMMA InitGuard == Init => GuardInv
<1> SUFFICES ASSUME Init PROVE GuardInv
  OBVIOUS
<1>1. NoPromise \in [until : Nat, start : 0..now]
  BY DEF Init, NoPromise
<1>2. cookie \in {NoCookie} \cup Nat
  BY GuardAssumption DEF Init
<1> QED BY <1>1, <1>2, GuardAssumption
        DEF Init, GuardInv, TypeOK, PromiseInv, NoPromise

(* The entry after the reset is one, and no lock of it is longer. *)
LEMMA CurrentIs ==
    ASSUME GuardInv, entry # NoEntry
    PROVE  /\ entry \in Entry /\ Fresh \in Entry /\ Current \in Entry
           /\ now \in Nat /\ Window \in Nat
           /\ Current \in {entry, Fresh}
           /\ Current # entry => Expired(entry)
<1>1. now \in Nat /\ entry \in Entry /\ Window \in Nat
  BY GuardAssumption DEF GuardInv, TypeOK
<1>2. Fresh \in Entry
  BY <1>1 DEF Fresh, Entry, NoLock
<1> QED BY <1>1, <1>2 DEF Current

(* A failure's entry and lock. *)
LEMMA FailStep ==
    ASSUME GuardInv, NEW t \in Tasks, Fail(t)
    PROVE  /\ TypeOK'
           /\ PromiseInv'
<1> DEFINE e == IF entry = NoEntry THEN Fresh ELSE Current
           n == e.failures + 1
           until == now + Lock(n)
<1>1. now \in 0..MaxNow /\ now \in Nat /\ now' = now /\ MaxLock \in Nat
  BY GuardAssumption DEF GuardInv, TypeOK, Fail
<1>2. e \in Entry /\ e.start <= now
  <2>1. Fresh \in Entry /\ Fresh.start = now
    BY <1>1 DEF Fresh, Entry, NoLock
  <2>2. CASE entry = NoEntry
    BY <2>1, <2>2, <1>1
  <2>3. CASE entry # NoEntry
    BY <2>1, <2>3, <1>1, CurrentIs DEF GuardInv, TypeOK
  <2> QED BY <2>2, <2>3
<1>3. n \in Nat \ {0}
  BY <1>2 DEF Entry
<1>4. Lock(n) \in 1..MaxLock
  BY <1>3, Locks
<1>5. until \in Nat /\ until <= now + MaxLock /\ until > now
  BY <1>1, <1>4
<1>6. /\ entry' = [failures |-> n, start |-> e.start, until |-> until]
      /\ promise' = Longer([until |-> until, start |-> e.start])
      /\ pc' = [pc EXCEPT ![t] = "idle"]
      /\ UNCHANGED <<endpoint, config, cookie>>
  BY DEF Fail, Go
<1> HIDE DEF n, until
<1>7. entry' \in Entry /\ entry' # NoEntry
  BY <1>2, <1>3, <1>5, <1>6, GuardAssumption DEF Entry
<1>8. promise \in [until : Nat, start : 0..now]
  BY DEF GuardInv, TypeOK
<1>9. /\ promise' \in [until : Nat, start : 0..now]
      /\ until <= promise'.until
      /\ \/ promise' = [until |-> until, start |-> e.start]
         \/ promise' = promise /\ until <= promise.until
  <2>1. [until |-> until, start |-> e.start] \in [until : Nat, start : 0..now]
    BY <1>1, <1>2, <1>5 DEF Entry
  <2> QED BY <2>1, <1>5, <1>6, <1>8 DEF Longer
<1>10. TypeOK'
  BY <1>1, <1>2, <1>5, <1>6, <1>7, <1>9 DEF GuardInv, TypeOK, Entry
<1>11. ASSUME promise' = promise, until <= promise.until
       PROVE  \/ now - promise.start > Window
              \/ promise = [until |-> until, start |-> e.start]
  <2>1. now < promise.until
    BY <1>1, <1>5, <1>8, <1>11
  <2>2. entry # NoEntry
    BY <1>1, <2>1 DEF GuardInv, PromiseInv, NoPromise
  <2>3. CASE now - promise.start > Window
    BY <2>3
  <2>4. CASE promise = [until |-> entry.until, start |-> entry.start]
    <3>1. CASE Expired(entry)
      BY <2>4, <3>1 DEF Expired
    <3>2. CASE ~Expired(entry)
      <4>1. e = entry /\ entry \in Entry
        BY <2>2, <3>2, CurrentIs DEF Current
      <4>2. entry.failures \in Nat \ {0}
        BY <2>1, <2>2, <2>4, <1>1, <4>1 DEF GuardInv, PromiseInv, NoLock, Entry
      <4>3. entry.until <= now + Lock(entry.failures)
        BY <2>2, <4>2 DEF GuardInv, PromiseInv
      <4>4. Lock(entry.failures) <= Lock(n) /\ Lock(entry.failures) \in Nat
        BY <4>1, <4>2, Locks DEF n
      <4>5. entry.until <= until
        <5>1. entry.until \in Nat /\ Lock(n) \in Nat
          BY <1>4, <4>1 DEF Entry
        <5> QED BY <1>1, <4>3, <4>4, <5>1 DEF until
      <4>6. entry.until = until
        BY <1>5, <1>11, <2>4, <4>1, <4>5 DEF Entry
      <4> QED BY <2>4, <4>1, <4>6
    <3> QED BY <3>1, <3>2
  <2> QED BY <2>1, <2>2, <2>3, <2>4 DEF GuardInv, PromiseInv
<1>12. PromiseInv'
  <2>1. entry'.failures = n /\ entry'.until = until /\ entry'.start = e.start
    BY <1>6
  <2>2. entry'.failures > 0 /\ entry'.until <= now' + Lock(entry'.failures)
    BY <1>1, <1>3, <1>4, <2>1 DEF until
  <2>3. \/ now' - promise'.start > Window
        \/ promise' = [until |-> entry'.until, start |-> entry'.start]
    BY <1>1, <1>9, <1>11, <2>1
  <2> QED BY <1>3, <1>7, <2>1, <2>2, <2>3 DEF PromiseInv
<1> QED BY <1>10, <1>12

(* A check that lets an attempt through. *)
LEMMA LetTryStep ==
    ASSUME GuardInv, NEW t \in Tasks, LetTry(t)
    PROVE  /\ TypeOK'
           /\ PromiseInv'
           /\ now < promise.until => now - promise.start > Window
<1>1. /\ now \in 0..MaxNow /\ now \in Nat /\ now' = now /\ promise' = promise
      /\ pc' = [pc EXCEPT ![t] = "admit"]
      /\ UNCHANGED <<endpoint, config, cookie>>
  BY DEF GuardInv, TypeOK, LetTry, Go
<1>2. promise \in [until : Nat, start : 0..now]
  BY DEF GuardInv, TypeOK
<1>3. CASE entry = NoEntry /\ entry' = entry
  BY <1>1, <1>2, <1>3 DEF GuardInv, TypeOK, PromiseInv, NoPromise
<1>4. CASE entry # NoEntry /\ now >= Current.until
           /\ entry' = [Current EXCEPT !.until = NoLock]
  <2>1. /\ entry \in Entry /\ Current \in Entry /\ Window \in Nat
        /\ Current \in {entry, Fresh}
        /\ Current # entry => Expired(entry)
    BY <1>4, CurrentIs
  <2>2. /\ entry' \in Entry /\ entry' # NoEntry
        /\ entry'.until = NoLock /\ entry'.start = Current.start
        /\ entry'.failures = Current.failures
    BY <1>4, <2>1, GuardAssumption DEF Entry, NoLock
  <2>3. Current.start <= now /\ Current.start \in Nat
    BY <1>1, <1>4, <2>1 DEF GuardInv, TypeOK, Fresh, Entry
  <2>4. TypeOK'
    <3>1. entry'.until <= now' + MaxLock /\ entry'.until <= promise'.until
      BY <1>1, <1>2, <2>2, GuardAssumption DEF NoLock
    <3> QED BY <1>1, <1>2, <2>2, <2>3, <3>1 DEF GuardInv, TypeOK
  <2>5. now < promise.until => now - promise.start > Window
    <3> SUFFICES ASSUME now < promise.until PROVE now - promise.start > Window
      OBVIOUS
    <3>1. CASE promise = [until |-> entry.until, start |-> entry.start]
      <4>1. Current # entry
        BY <1>1, <1>4, <2>1, <3>1 DEF Entry
      <4> QED BY <2>1, <3>1, <4>1 DEF Expired
    <3> QED BY <1>4, <3>1 DEF GuardInv, PromiseInv
  <2>6. PromiseInv'
    <3>1. entry'.failures > 0 => entry'.until <= now' + Lock(entry'.failures)
      <4> SUFFICES ASSUME entry'.failures > 0
                   PROVE  entry'.until <= now' + Lock(entry'.failures)
        OBVIOUS
      <4>1. Lock(entry'.failures) \in Nat
        BY <2>2, Locks DEF Entry
      <4> QED BY <1>1, <2>2, <4>1 DEF NoLock
    <3> QED BY <1>1, <2>2, <2>5, <3>1 DEF PromiseInv
  <2> QED BY <2>4, <2>5, <2>6
<1> QED BY <1>3, <1>4 DEF LetTry

LEMMA GuardStep ==
    ASSUME GuardInv, [Next]_vars
    PROVE  GuardInv'
<1>1. ASSUME NEW t \in Tasks, Refused(t) PROVE GuardInv'
  BY <1>1 DEF Refused, vars, GuardInv, TypeOK, PromiseInv
<1>2. ASSUME NEW t \in Tasks, LetTry(t) PROVE GuardInv'
  BY <1>2, LetTryStep DEF GuardInv
<1>3. ASSUME NEW t \in Tasks, Fail(t) PROVE GuardInv'
  BY <1>3, FailStep DEF GuardInv
<1>4. ASSUME NEW t \in Tasks, NEW label \in {"idle", "admit", "try"}, Go(t, label),
             UNCHANGED <<endpoint, config, entry, cookie, promise, now>>
      PROVE  GuardInv'
  BY <1>4 DEF Go, GuardInv, TypeOK, PromiseInv
<1>5. ASSUME NEW t \in Tasks, Admitted(t) PROVE GuardInv'
  BY <1>4, <1>5 DEF Admitted
<1>6. ASSUME NEW t \in Tasks, TurnedAway(t) PROVE GuardInv'
  BY <1>4, <1>6 DEF TurnedAway
<1>7. ASSUME NEW t \in Tasks, Disconnect(t) PROVE GuardInv'
  BY <1>4, <1>7 DEF Disconnect
<1>8. ASSUME NEW t \in Tasks, Succeed(t) PROVE GuardInv'
  <2>1. CASE endpoint = "ui" /\ entry' = NoEntry /\ promise' = NoPromise
             /\ cookie' = now + TTL
    <3>1. cookie' \in Nat /\ NoPromise \in [until : Nat, start : 0..now]
      BY <2>1, GuardAssumption DEF GuardInv, TypeOK, NoPromise
    <3> QED BY <1>8, <2>1, <3>1 DEF Succeed, Go, GuardInv, TypeOK, PromiseInv
  <2>2. CASE endpoint = "login" /\ UNCHANGED <<entry, promise, cookie>>
    BY <1>4, <1>8, <2>2 DEF Succeed
  <2> QED BY <1>8, <2>1, <2>2 DEF Succeed
<1>9. ASSUME Tick PROVE GuardInv'
  <2>1. /\ now' = now + 1 /\ now \in Nat /\ now' \in 0..MaxNow
        /\ UNCHANGED <<endpoint, config, entry, pc, cookie, promise>>
    BY <1>9, GuardAssumption DEF Tick, GuardInv, TypeOK
  <2>2. promise' \in [until : Nat, start : 0..now']
    BY <2>1 DEF GuardInv, TypeOK
  <2>3. ASSUME entry # NoEntry
        PROVE  /\ entry.start <= now' /\ entry.until <= now' + MaxLock
               /\ entry.failures > 0 => entry.until <= now' + Lock(entry.failures)
    <3>1. entry \in Entry /\ MaxLock \in Nat
      BY <2>3, GuardAssumption DEF GuardInv, TypeOK
    <3>2. entry.failures > 0 => Lock(entry.failures) \in Nat
      BY <3>1, Locks DEF Entry
    <3> QED BY <2>1, <2>3, <3>1, <3>2 DEF GuardInv, TypeOK, PromiseInv, Entry
  <2>4. TypeOK'
    BY <2>1, <2>2, <2>3 DEF GuardInv, TypeOK
  <2>5. now' < promise.until => now < promise.until
    BY <2>1 DEF GuardInv, TypeOK
  <2>6. now - promise.start > Window => now' - promise.start > Window
    BY <2>1, GuardAssumption DEF GuardInv, TypeOK
  <2>7. PromiseInv'
    BY <2>1, <2>3, <2>5, <2>6 DEF GuardInv, PromiseInv
  <2> QED BY <2>4, <2>7 DEF GuardInv
<1>10. CASE UNCHANGED vars
  BY <1>10 DEF vars, GuardInv, TypeOK, PromiseInv
<1> QED BY <1>1, <1>2, <1>3, <1>5, <1>6, <1>7, <1>8, <1>9, <1>10 DEF Next

LEMMA GuardHolds == Spec => []GuardInv
<1>1. Init => GuardInv
  BY InitGuard
<1>2. GuardInv /\ [Next]_vars => GuardInv'
  BY GuardStep
<1> QED BY <1>1, <1>2, PTL DEF Spec

(* Types: windows have begun, locks end within MaxLock and not after the one  *)
(* that ends last (ratelimit.rs, record_failure).                            *)
THEOREM GuardTypes == Spec => []TypeOK
<1>1. GuardInv => TypeOK
  BY DEF GuardInv
<1> QED BY <1>1, GuardHolds, PTL

(* No attempt begins during a lock while the lock's window lasts, however     *)
(* attempts overlap and fail, unless one succeeds on the panel's endpoint,    *)
(* which clears the lock (ratelimit.rs, check, record_failure and clear).     *)
THEOREM LocksAreKept == Spec => LockKeptInWindow
<1>1. GuardInv /\ [Next]_vars =>
        [\A t \in Tasks : LetTry(t) /\ now < promise.until
           => now - promise.start > Window]_vars
  BY LetTryStep
<1> QED BY <1>1, GuardHolds, PTL DEF Spec, LockKeptInWindow

-------------------------------------------------------------------------------
(* A lock that is running, or was not looked at since, is as long as the      *)
(* failures say; an entry without one has few of them.                       *)
BackoffInv ==
    /\ entry # NoEntry =>
        /\ entry.until = NoLock => entry.failures <= Survivable
        /\ entry.until # NoLock => /\ entry.failures > 0
                                   /\ entry.start + Lock(entry.failures) <= entry.until
    /\ FailuresPerWindow

Few == Window < MaxLock /\ Window < 64

LEMMA SurvivableIs ==
    ASSUME Few
    PROVE  /\ Survivable \in 0..6
           /\ \A n \in Nat \ {0} : Lock(n) <= Window => n <= Survivable
<1>0. Window \in 1..63 /\ MaxLock \in Nat
  BY GuardAssumption DEF Few
<1> DEFINE Fits(n) == /\ n > 0 => Shifted[n] <= Window
                      /\ n < 6 => Shifted[n + 1] > Window
<1>1. \E n \in 0..6 : Fits(n)
  <2>1. CASE Window < 2
    <3>1. Fits(0)
      BY <1>0, <2>1 DEF Shifted
    <3> QED BY <3>1
  <2>2. CASE Window >= 2 /\ Window < 4
    <3>1. Fits(1)
      BY <1>0, <2>2 DEF Shifted
    <3> QED BY <3>1
  <2>3. CASE Window >= 4 /\ Window < 8
    <3>1. Fits(2)
      BY <1>0, <2>3 DEF Shifted
    <3> QED BY <3>1
  <2>4. CASE Window >= 8 /\ Window < 16
    <3>1. Fits(3)
      BY <1>0, <2>4 DEF Shifted
    <3> QED BY <3>1
  <2>5. CASE Window >= 16 /\ Window < 32
    <3>1. Fits(4)
      BY <1>0, <2>5 DEF Shifted
    <3> QED BY <3>1
  <2>6. CASE Window >= 32
    <3>1. Fits(5)
      BY <1>0, <2>6 DEF Shifted
    <3> QED BY <3>1
  <2> QED BY <1>0, <2>1, <2>2, <2>3, <2>4, <2>5, <2>6
<1>2. Survivable \in 0..6 /\ Fits(Survivable)
  <2> HIDE DEF Fits
  <2>1. Survivable = CHOOSE n \in 0..6 : Fits(n)
    BY DEF Survivable, Fits
  <2> QED BY <1>1, <2>1
<1>3. ASSUME NEW n \in Nat \ {0}, Lock(n) <= Window PROVE n <= Survivable
  <2>1. Least(n, 6) \in 1..6 /\ (n > 6 => Least(n, 6) = 6) /\ (n <= 6 => Least(n, 6) = n)
    BY DEF Least
  <2>2. \A i \in 1..6 : Shifted[i] \in Nat
    BY DEF Shifted
  <2>3. Shifted[Least(n, 6)] <= Window
    BY <1>0, <1>3, <2>1, <2>2 DEF Lock, Least, Few
  <2>4. Shifted[6] = 64
    BY DEF Shifted
  <2>5. n < 6 /\ Shifted[n] <= Window
    BY <1>0, <2>1, <2>3, <2>4
  <2>6. \A i, j \in 1..6 : i <= j => Shifted[i] <= Shifted[j]
    BY DEF Shifted
  <2>7. SUFFICES ASSUME n > Survivable PROVE FALSE
    BY <1>2
  <2>8. Survivable + 1 \in 1..6 /\ Survivable + 1 <= n
    BY <1>2, <2>5, <2>7
  <2>9. Shifted[Survivable + 1] > Window
    BY <1>2, <2>8
  <2>10. Shifted[Survivable + 1] <= Shifted[n]
    BY <2>5, <2>6, <2>8
  <2> QED BY <1>0, <2>2, <2>5, <2>8, <2>9, <2>10
<1> QED BY <1>2, <1>3

(* Attempts under way are no more than all, and fewer when one has ended. *)
LEMMA InFlightIs ==
    ASSUME IsFiniteSet(Tasks)
    PROVE  /\ Cardinality(Tasks) \in Nat /\ Cardinality(InFlight) \in Nat
           /\ Cardinality(InFlight) <= Cardinality(Tasks)
<1>1. InFlight \subseteq Tasks
  BY DEF InFlight
<1> QED BY <1>1, FS_Subset, FS_CardinalityType

LEMMA OneEnds ==
    ASSUME IsFiniteSet(Tasks), TypeOK, NEW t \in Tasks, pc[t] # "idle", Go(t, "idle")
    PROVE  Cardinality(InFlight)' = Cardinality(InFlight) - 1
<1>1. InFlight \subseteq Tasks /\ t \in InFlight
  BY DEF InFlight
<1>2. InFlight' = InFlight \ {t}
  BY DEF InFlight, Go, TypeOK
<1>3. IsFiniteSet(InFlight)
  BY <1>1, FS_Subset
<1> QED BY <1>1, <1>2, <1>3, FS_RemoveElement

LEMMA BackoffStep ==
    ASSUME Few, IsFiniteSet(Tasks), GuardInv, GuardInv', BackoffInv, [Next]_vars
    PROVE  BackoffInv'
<1> DEFINE flying == Cardinality(InFlight)
           all    == Cardinality(Tasks)
<1>0. /\ all \in Nat /\ flying \in Nat /\ flying <= all
      /\ flying' \in Nat /\ flying' <= all
  <2>1. InFlight' \subseteq Tasks
    BY DEF InFlight
  <2> QED BY <2>1, InFlightIs, FS_Subset, FS_CardinalityType
<1>s. Survivable \in 0..6 /\ Survivable' = Survivable
  BY SurvivableIs DEF Survivable
<1>n. now \in Nat /\ Window \in Nat /\ entry \in Entry \cup {NoEntry}
  BY GuardAssumption DEF GuardInv, TypeOK
<1>f. FailuresPerWindow <=> (entry # NoEntry => entry.failures + flying <= Survivable + all)
  BY DEF FailuresPerWindow
<1>g. FailuresPerWindow' <=> (entry' # NoEntry => entry'.failures + flying' <= Survivable + all)
  BY <1>s DEF FailuresPerWindow
<1> HIDE DEF flying, all
(* The entry stays, and no attempt begins. *)
<1>1. ASSUME entry' = entry, flying' <= flying PROVE BackoffInv'
  <2>1. FailuresPerWindow'
    <3>1. entry # NoEntry => entry.failures \in Nat
      BY <1>n DEF Entry
    <3> QED BY <1>0, <1>1, <1>f, <1>g, <1>s, <3>1 DEF BackoffInv
  <2> QED BY <1>1, <1>s, <2>1 DEF BackoffInv
<1>2. ASSUME NEW t \in Tasks, Refused(t) PROVE BackoffInv'
  <2>1. flying' = flying
    BY <1>2 DEF Refused, vars, InFlight, flying
  <2> QED BY <1>0, <1>1, <1>2, <2>1 DEF Refused, vars
<1>3. ASSUME NEW t \in Tasks, LetTry(t) PROVE BackoffInv'
  <2>1. CASE entry = NoEntry /\ entry' = entry
    BY <1>g, <2>1 DEF BackoffInv
  <2>2. CASE entry # NoEntry /\ now >= Current.until
             /\ entry' = [Current EXCEPT !.until = NoLock]
    <3>1. /\ entry \in Entry /\ Current \in Entry /\ Current \in {entry, Fresh}
      BY <2>2, CurrentIs
    <3>2. entry'.until = NoLock /\ entry'.failures = Current.failures
      BY <2>2, <3>1 DEF Entry
    <3>3. Current.failures <= Survivable /\ Current.failures \in Nat
      <4>1. CASE Expired(entry)
        BY <1>s, <4>1 DEF Current, Fresh
      <4>2. CASE ~Expired(entry) /\ entry.until = NoLock
        BY <2>2, <3>1, <4>2 DEF Current, BackoffInv, Entry
      <4>3. CASE ~Expired(entry) /\ entry.until # NoLock
        <5>1. entry.failures > 0 /\ entry.start + Lock(entry.failures) <= entry.until
          BY <2>2, <4>3 DEF BackoffInv
        <5>2. entry.failures \in Nat \ {0} /\ entry.start \in Nat /\ entry.until \in Nat
          BY <3>1, <5>1 DEF Entry
        <5>3. now >= entry.until /\ now - entry.start <= Window
          BY <1>n, <2>2, <4>3, <5>2 DEF Current, Expired
        <5>4. Lock(entry.failures) \in Nat
          BY <5>2, Locks
        <5>5. Lock(entry.failures) <= Window
          BY <1>n, <5>1, <5>2, <5>3, <5>4
        <5> QED BY <4>3, <5>2, <5>5, SurvivableIs DEF Current
      <4> QED BY <4>1, <4>2, <4>3
    <3>4. FailuresPerWindow'
      BY <1>0, <1>g, <1>s, <3>2, <3>3
    <3> QED BY <1>s, <3>2, <3>3, <3>4 DEF BackoffInv
  <2> QED BY <1>3, <2>1, <2>2 DEF LetTry
<1>4. ASSUME NEW t \in Tasks, pc[t] # "idle", Go(t, "idle") PROVE flying' = flying - 1
  BY <1>4, OneEnds DEF GuardInv, flying
<1>5. ASSUME NEW t \in Tasks, Admitted(t) PROVE BackoffInv'
  <2>1. InFlight' = InFlight
    BY <1>5 DEF Admitted, Go, InFlight, GuardInv, TypeOK
  <2> QED BY <1>0, <1>1, <1>5, <2>1 DEF Admitted, flying
<1>6. ASSUME NEW t \in Tasks, TurnedAway(t) \/ Disconnect(t) PROVE BackoffInv'
  <2>1. flying' = flying - 1
    BY <1>4, <1>6 DEF TurnedAway, Disconnect
  <2> QED BY <1>0, <1>1, <1>6, <2>1 DEF TurnedAway, Disconnect
<1>7. ASSUME NEW t \in Tasks, Succeed(t) PROVE BackoffInv'
  <2>1. flying' = flying - 1
    BY <1>4, <1>7 DEF Succeed
  <2>2. CASE entry' = NoEntry
    BY <1>g, <2>2 DEF BackoffInv
  <2>3. CASE entry' = entry
    BY <1>0, <1>1, <2>1, <2>3
  <2> QED BY <1>7, <2>2, <2>3 DEF Succeed
<1>8. ASSUME NEW t \in Tasks, Fail(t) PROVE BackoffInv'
  <2> DEFINE e == IF entry = NoEntry THEN Fresh ELSE Current
             n == e.failures + 1
  <2>1. /\ entry' = [failures |-> n, start |-> e.start, until |-> now + Lock(n)]
        /\ pc[t] # "idle" /\ Go(t, "idle")
    BY <1>8 DEF Fail
  <2>2. flying' = flying - 1
    BY <1>4, <2>1
  <2>3. e \in Entry /\ e.start <= now /\ (e = Fresh \/ (entry # NoEntry /\ e = entry))
    <3>1. Fresh \in Entry /\ Fresh.start = now
      BY <1>n DEF Fresh, Entry, NoLock
    <3>2. entry # NoEntry => entry.start <= now
      BY DEF GuardInv, TypeOK
    <3> QED BY <1>n, <3>1, <3>2, CurrentIs
  <2>4. n \in Nat \ {0} /\ e.start \in Nat
    BY <2>3 DEF Entry
  <2>5. Lock(n) \in Nat \ {0}
    BY <2>4, Locks
  <2>6. n + flying' <= Survivable + all
    <3>1. CASE e = Fresh
      BY <1>0, <1>s, <2>2, <3>1 DEF Fresh
    <3>2. CASE entry # NoEntry /\ e = entry
      <4>1. e.failures + flying <= Survivable + all
        BY <1>f, <3>2 DEF BackoffInv
      <4>2. e.failures \in Nat
        BY <2>3 DEF Entry
      <4> QED BY <1>0, <1>s, <2>2, <4>1, <4>2
    <3> QED BY <2>3, <3>1, <3>2
  <2> HIDE DEF n, e
  <2>7. /\ entry'.failures = n /\ entry'.start = e.start
        /\ entry'.until = now + Lock(n) /\ entry'.until # NoLock
    BY <1>n, <2>1, <2>5 DEF NoLock
  <2>8. FailuresPerWindow'
    BY <1>g, <2>6, <2>7
  <2> QED BY <1>n, <2>3, <2>4, <2>5, <2>7, <2>8 DEF BackoffInv
<1>9. ASSUME Tick PROVE BackoffInv'
  <2>1. InFlight' = InFlight /\ entry' = entry
    BY <1>9 DEF Tick, InFlight
  <2> QED BY <1>0, <1>1, <2>1 DEF flying
<1>10. CASE UNCHANGED vars
  <2>1. InFlight' = InFlight /\ entry' = entry
    BY <1>10 DEF vars, InFlight
  <2> QED BY <1>0, <1>1, <2>1 DEF flying
<1> QED BY <1>2, <1>3, <1>5, <1>6, <1>7, <1>8, <1>9, <1>10 DEF Next

(* A window counts no more failures than those after which an attempt may     *)
(* still begin, and the attempts then under way, when a lock can outlast the  *)
(* window as it does in the code, 60 s against 30 s (ratelimit.rs).           *)
THEOREM FewFailures ==
    ASSUME Few, IsFiniteSet(Tasks)
    PROVE  Spec => []FailuresPerWindow
<1>1. Init => BackoffInv
  BY DEF Init, BackoffInv, FailuresPerWindow
<1>2. GuardInv /\ GuardInv' /\ BackoffInv /\ [Next]_vars => BackoffInv'
  BY BackoffStep
<1>3. BackoffInv => FailuresPerWindow
  BY DEF BackoffInv
<1> QED BY <1>1, <1>2, <1>3, GuardHolds, PTL DEF Spec
===============================================================================
