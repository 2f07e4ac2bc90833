--------------------------- MODULE SessionMapProofs ---------------------------
(* Theorems about the session map, for every number of keys, models, tasks,  *)
(* sessions and hours.                                                       *)
EXTENDS SessionMap, TLAPS

Moves(t) == Arrive(t) \/ Work(t) \/ Acquire(t) \/ Disconnect(t)

LEMMA NewLockIsNew ==
    ASSUME \E l \in LockIds : ~Alive(l)
    PROVE  NewLock \in LockIds /\ ~Alive(NewLock)
BY DEF NewLock

LEMMA RequestType ==
    ASSUME TypeOK, NEW t \in Tasks
    PROVE  KeyOf(t) \in Keys /\ req[t].model \in Models
BY DEF TypeOK, Request, KeyOf

LEMMA TouchedBinding ==
    ASSUME NEW b \in Binding, NEW n \in Nat
    PROVE  [b EXCEPT !.last = n] \in Binding
BY DEF Binding

-------------------------------------------------------------------------------
(* Type correctness: every variable keeps its type, and a task refers to a   *)
(* mutex object, a binding and a victim exactly where ensure has one.        *)
LEMMA TypeInit == Init => TypeOK
BY BoundsAssumption, NullAssumption
   DEF Init, TypeOK, Labels, Waiting, Critical, Served, NoLock, LockIds

(* ensure returns a binding: every way out of it that succeeds.               *)
LEMMA ReturnType ==
    ASSUME TypeOK, NEW t \in Tasks, NEW b \in Binding, Return(t, b),
           inner' \in [Keys -> Binding \cup {NoBinding}],
           UNCHANGED <<locks, created, janVars, clock>>
    PROVE  TypeOK'
<1>1. /\ pc' = [pc EXCEPT ![t] = "stream"]
      /\ got' = [got EXCEPT ![t] = b]
      /\ mutex' = [mutex EXCEPT ![t] = NoLock]
      /\ victim' = [victim EXCEPT ![t] = NoKey]
      /\ UNCHANGED <<req, limited>>
  BY DEF Return, Go
<1>2. ASSUME NEW u \in Tasks
      PROVE  /\ (mutex'[u] # NoLock) <=> (pc'[u] \in Waiting \cup Critical)
             /\ (got'[u] # NoBinding) <=> (pc'[u] \in Served \cup {"insert"})
             /\ (victim'[u] # NoKey) <=> (pc'[u] = "evict")
             /\ pc'[u] = "idle" => limited'[u] = 0
  BY <1>1, NullAssumption DEF TypeOK, Waiting, Critical, Served
<1>3. /\ pc' \in [Tasks -> Labels]
      /\ got' \in [Tasks -> Binding \cup {NoBinding}]
      /\ mutex' \in [Tasks -> LockIds \cup {NoLock}]
      /\ victim' \in [Tasks -> Keys \cup {NoKey}]
  BY <1>1 DEF TypeOK, Labels, Served
<1> QED BY <1>1, <1>2, <1>3 DEF TypeOK, janVars

(* A step from one place under the mutex object to another.                  *)
LEMMA StayType ==
    ASSUME TypeOK, NEW t \in Tasks, NEW label, Stay(t, label),
           {pc[t], label} \subseteq
               {"acquire", "recheck", "drop", "cap", "victim", "create"},
           inner' \in [Keys -> Binding \cup {NoBinding}],
           UNCHANGED <<locks, created, janVars, clock>>
    PROVE  TypeOK'
<1>1. /\ pc' = [pc EXCEPT ![t] = label]
      /\ UNCHANGED <<req, mutex, got, victim, limited>>
  BY DEF Stay, Go
<1>2. ASSUME NEW u \in Tasks
      PROVE  /\ (mutex'[u] # NoLock) <=> (pc'[u] \in Waiting \cup Critical)
             /\ (got'[u] # NoBinding) <=> (pc'[u] \in Served \cup {"insert"})
             /\ (victim'[u] # NoKey) <=> (pc'[u] = "evict")
             /\ pc'[u] = "idle" => limited'[u] = 0
  BY <1>1 DEF TypeOK, Waiting, Critical, Served
<1>3. pc' \in [Tasks -> Labels]
  BY <1>1 DEF TypeOK, Labels, Waiting, Critical
<1> QED BY <1>1, <1>2, <1>3 DEF TypeOK, janVars

LEMMA TypeNext == TypeOK /\ [Next]_vars => TypeOK'
<1> SUFFICES ASSUME TypeOK, [Next]_vars PROVE TypeOK'
  OBVIOUS
<1> USE BoundsAssumption, NullAssumption
    DEF TypeOK, Labels, Waiting, Critical, Served, NoLock, LockIds,
        mapVars, taskVars, janVars
<1>key. \A t \in Tasks : KeyOf(t) \in Keys
  BY RequestType
<1>1. ASSUME NEW t \in Tasks, Arrive(t) PROVE TypeOK'
  BY <1>1 DEF Arrive, Go
<1>2. ASSUME NEW t \in Tasks, Lookup(t) PROVE TypeOK'
  <2>1. CASE Matches(KeyOf(t), req[t].model)
    <3>1. inner[KeyOf(t)] \in Binding
      BY <1>key, <2>1 DEF Matches
    <3>2. /\ Return(t, inner[KeyOf(t)])
          /\ UNCHANGED <<inner, locks, created, janVars, clock>>
      BY ONLY <1>2, <2>1 DEF Lookup, Matches, mapVars
    <3> QED BY <3>1, <3>2, ReturnType
  <2>2. CASE ~Matches(KeyOf(t), req[t].model)
    BY <1>2, <2>2 DEF Lookup, Stay, Go
  <2> QED BY <2>1, <2>2
<1>3. ASSUME NEW t \in Tasks, GetLock(t) PROVE TypeOK'
  <2>1. \E l \in LockIds : mutex' = [mutex EXCEPT ![t] = l]
    BY <1>3, <1>key, NewLockIsNew DEF GetLock
  <2>2. locks' \in [Keys -> LockIds \cup {NoLock}]
    <3>1. CASE UNCHANGED locks
      BY <3>1
    <3>2. ASSUME NEW l \in LockIds, locks' = [locks EXCEPT ![KeyOf(t)] = l]
          PROVE  locks' \in [Keys -> LockIds \cup {NoLock}]
      BY <1>key, <3>2
    <3> QED BY <1>3, <3>1, <3>2, NewLockIsNew DEF GetLock
  <2> QED BY <1>3, <2>1, <2>2 DEF GetLock, Go
<1>4. ASSUME NEW t \in Tasks, Acquire(t) PROVE TypeOK'
  BY <1>4 DEF Acquire, Stay, Go
<1>5. ASSUME NEW t \in Tasks, Recheck(t) PROVE TypeOK'
  <2>1. CASE Matches(KeyOf(t), req[t].model)
    <3>1. inner[KeyOf(t)] \in Binding
      BY <1>key, <2>1 DEF Matches
    <3>2. /\ Return(t, inner[KeyOf(t)])
          /\ UNCHANGED <<inner, locks, created, janVars, clock>>
      BY ONLY <1>5, <2>1 DEF Recheck, Matches, mapVars
    <3> QED BY <3>1, <3>2, ReturnType
  <2>2. CASE ~Matches(KeyOf(t), req[t].model)
    <3>1. \/ Stay(t, "drop")
          \/ Stay(t, "cap")
      BY ONLY <1>5, <2>2 DEF Recheck
    <3>2. pc[t] = "recheck" /\ UNCHANGED <<inner, locks, created, janVars, clock>>
      BY ONLY <1>5 DEF Recheck, mapVars
    <3> QED BY <3>1, <3>2, StayType
  <2> QED BY <2>1, <2>2
<1>6. ASSUME NEW t \in Tasks, DropOtherModel(t) PROVE TypeOK'
  BY <1>6 DEF DropOtherModel, Stay, Go
<1>7. ASSUME NEW t \in Tasks, CheckCap(t) PROVE TypeOK'
  <2>1. Stay(t, "victim") \/ Stay(t, "create")
    BY ONLY <1>7 DEF CheckCap
  <2>2. pc[t] = "cap" /\ UNCHANGED <<inner, locks, created, janVars, clock>>
    BY ONLY <1>7 DEF CheckCap, mapVars
  <2> QED BY <2>1, <2>2, StayType
<1>8. ASSUME NEW t \in Tasks, ChooseVictim(t) PROVE TypeOK'
  <2>1. CASE Go(t, "create") /\ UNCHANGED victim
    BY <1>8, <2>1 DEF ChooseVictim, Go
  <2>2. ASSUME NEW k \in Oldest, victim' = [victim EXCEPT ![t] = k], Go(t, "evict")
        PROVE  TypeOK'
    <3>1. k \in Keys
      BY DEF Oldest, Bound
    <3> QED BY <1>8, <2>2, <3>1 DEF ChooseVictim, Go
  <2> QED BY <1>8, <2>1, <2>2 DEF ChooseVictim
<1>9. ASSUME NEW t \in Tasks, Evict(t) PROVE TypeOK'
  BY <1>9 DEF Evict, Go
<1>10. ASSUME NEW t \in Tasks, Create(t) PROVE TypeOK'
  BY <1>10 DEF Create, Go, Request, Binding
<1>11. ASSUME NEW t \in Tasks, CreateFail(t) PROVE TypeOK'
  BY <1>11 DEF CreateFail, Leave, Go
<1>12. ASSUME NEW t \in Tasks, Insert(t) PROVE TypeOK'
  BY <1>12 DEF Insert, Return, Go
<1>13. ASSUME NEW t \in Tasks, StreamOk(t) PROVE TypeOK'
  BY <1>13 DEF StreamOk, Stay, Go
<1>14. ASSUME NEW t \in Tasks, StreamLimited(t) PROVE TypeOK'
  BY <1>14 DEF StreamLimited, Go, Binding
<1>15. ASSUME NEW t \in Tasks, StreamFail(t) PROVE TypeOK'
  BY <1>15 DEF StreamFail, Leave, Go
<1>16. ASSUME NEW t \in Tasks, Touch(t) PROVE TypeOK'
  <2>1. inner' \in [Keys -> Binding \cup {NoBinding}]
    <3>1. CASE inner[KeyOf(t)] # NoBinding
      <4>1. inner[KeyOf(t)] \in Binding
        BY <1>key, <3>1
      <4>2. [inner[KeyOf(t)] EXCEPT !.last = clock] \in Binding
        BY <4>1, TouchedBinding
      <4> QED BY <1>16, <3>1, <4>2 DEF Touch
    <3>2. CASE inner[KeyOf(t)] = NoBinding
      BY <1>16, <3>2 DEF Touch
    <3> QED BY <3>1, <3>2
  <2> QED BY <1>16, <2>1 DEF Touch, Leave, Go
<1>17. ASSUME NEW t \in Tasks, RemoveBinding(t) PROVE TypeOK'
  BY <1>17 DEF RemoveBinding, Stay, Go
<1>18. ASSUME NEW t \in Tasks, RemoveLock(t) PROVE TypeOK'
  BY <1>18 DEF RemoveLock, Stay, Go
<1>19. ASSUME NEW t \in Tasks, Disconnect(t) PROVE TypeOK'
  BY <1>19 DEF Disconnect, Leave, Go
<1>20. ASSUME JanitorScan PROVE TypeOK'
  BY <1>20 DEF JanitorScan, IdleKeys, Bound
<1>21. ASSUME NEW k \in Keys, JanitorRemove(k) PROVE TypeOK'
  BY <1>21 DEF JanitorRemove
<1>22. ASSUME JanitorUnmap PROVE TypeOK'
  BY <1>22 DEF JanitorUnmap
<1>23. ASSUME Tick PROVE TypeOK'
  BY <1>23 DEF Tick
<1>24. ASSUME JanitorPanic PROVE TypeOK'
  BY <1>24 DEF JanitorPanic
<1>25. CASE UNCHANGED vars
  BY <1>25 DEF vars
<1> QED
  BY <1>1, <1>2, <1>3, <1>4, <1>5, <1>6, <1>7, <1>8, <1>9, <1>10, <1>11, <1>12,
     <1>13, <1>14, <1>15, <1>16, <1>17, <1>18, <1>19, <1>20, <1>21, <1>22,
     <1>23, <1>24, <1>25 DEF Next, Work, Janitor

THEOREM TypeCorrect == Spec => []TypeOK
<1>1. Init => TypeOK                   BY TypeInit
<1>2. TypeOK /\ [Next]_vars => TypeOK' BY TypeNext
<1> QED BY <1>1, <1>2, PTL DEF Spec

-------------------------------------------------------------------------------
(* Thread isolation.  MadeFor depends on created only, and created grows.    *)
LEMMA MadeForStable ==
    ASSUME TypeOK, UNCHANGED created \/ \E t \in Tasks : Create(t),
           NEW b, NEW k, NEW m, MadeFor(b, k, m)
    PROVE  /\ b.id \in DOMAIN created'
           /\ created'[b.id] = [key |-> k, model |-> m]
           /\ b.model = m
<1>1. CASE UNCHANGED created
  BY <1>1 DEF MadeFor
<1>2. ASSUME NEW t \in Tasks, Create(t)
      PROVE  b.id \in DOMAIN created' /\ created'[b.id] = created[b.id]
  <2>1. created \in Seq(Request) /\ req[t] \in Request
    BY DEF TypeOK
  <2>2. created' = Append(created, req[t])
    BY <1>2 DEF Create
  <2>3. b.id \in 1..Len(created)
    BY <2>1 DEF MadeFor
  <2> QED BY <2>1, <2>2, <2>3
<1> QED BY <1>1, <1>2 DEF MadeFor

(* How one step changes the map: an entry is kept (its last_active may       *)
(* move), cleared, or filled by the task that inserts.                       *)
LEMMA MapStep ==
    ASSUME TypeOK, [Next]_vars, NEW k \in Keys, inner'[k] # NoBinding
    PROVE  \/ /\ inner[k] # NoBinding
              /\ inner'[k].id = inner[k].id
              /\ inner'[k].model = inner[k].model
           \/ \E t \in Tasks : Insert(t) /\ KeyOf(t) = k /\ inner'[k] = got[t]
<1>1. CASE inner'[k] = inner[k]
  BY <1>1
<1>2. ASSUME NEW t \in Tasks, Insert(t), inner'[k] # inner[k]
      PROVE  KeyOf(t) = k /\ inner'[k] = got[t]
  BY <1>2, RequestType DEF Insert, TypeOK
<1>3. ASSUME NEW t \in Tasks, Touch(t), inner'[k] # inner[k]
      PROVE  /\ inner[k] # NoBinding
             /\ inner'[k].id = inner[k].id
             /\ inner'[k].model = inner[k].model
  <2>1. KeyOf(t) = k /\ inner[k] # NoBinding
    BY <1>3, RequestType DEF Touch, TypeOK
  <2>2. inner[k] \in Binding
    BY <2>1 DEF TypeOK
  <2>3. inner'[k] = [inner[k] EXCEPT !.last = clock]
    BY <1>3, <2>1 DEF Touch, TypeOK
  <2> QED BY <2>1, <2>2, <2>3 DEF Binding
<1>4. ASSUME NEW t \in Tasks, DropOtherModel(t) \/ Evict(t) \/ RemoveBinding(t)
      PROVE  inner'[k] = inner[k]
  BY <1>4 DEF DropOtherModel, Evict, RemoveBinding, TypeOK
<1>5. ASSUME NEW j \in Keys, JanitorRemove(j)
      PROVE  inner'[k] = inner[k]
  BY <1>5 DEF JanitorRemove, TypeOK
<1>6. \/ UNCHANGED inner
      \/ \E t \in Tasks : \/ Insert(t) \/ Touch(t)
                         \/ DropOtherModel(t) \/ Evict(t) \/ RemoveBinding(t)
      \/ \E j \in Keys : JanitorRemove(j)
  BY DEF Next, Work, Janitor, Arrive, Acquire, Disconnect, Lookup, GetLock,
         Recheck, CheckCap, ChooseVictim, Create, CreateFail, StreamOk,
         StreamLimited, StreamFail, RemoveLock, JanitorScan, JanitorUnmap, JanitorPanic,
         Tick, vars, mapVars
<1> QED BY <1>1, <1>2, <1>3, <1>4, <1>5, <1>6

(* How one step changes what a task has in hand.                             *)
LEMMA HandStep ==
    ASSUME TypeOK, [Next]_vars, NEW t \in Tasks, got'[t] # NoBinding
    PROVE  /\ req'[t] = req[t]
           /\ \/ got'[t] = got[t]
              \/ /\ Lookup(t) \/ Recheck(t)
                 /\ Matches(KeyOf(t), req[t].model)
                 /\ got'[t] = inner[KeyOf(t)]
              \/ Create(t)
<1>1. ASSUME NEW u \in Tasks, Arrive(u)
      PROVE  req'[t] = req[t] /\ got'[t] = got[t]
  BY <1>1 DEF Arrive, TypeOK, Served
<1>2. ASSUME NEW u \in Tasks, Lookup(u) \/ Recheck(u)
      PROVE  /\ req'[t] = req[t]
             /\ \/ got'[t] = got[t]
                \/ /\ u = t
                   /\ Matches(KeyOf(t), req[t].model)
                   /\ got'[t] = inner[KeyOf(t)]
  BY <1>2 DEF Lookup, Recheck, Return, Stay, TypeOK
<1>3. ASSUME NEW u \in Tasks, Create(u)
      PROVE  req'[t] = req[t] /\ (u = t \/ got'[t] = got[t])
  BY <1>3 DEF Create, TypeOK
<1>4. ASSUME NEW u \in Tasks, Insert(u)
      PROVE  req'[t] = req[t] /\ got'[t] = got[t]
  BY <1>4 DEF Insert, Return, TypeOK
<1>5. ASSUME NEW u \in Tasks,
             CreateFail(u) \/ StreamFail(u) \/ Touch(u) \/ Disconnect(u)
      PROVE  req'[t] = req[t] /\ got'[t] = got[t]
  BY <1>5 DEF CreateFail, StreamFail, Touch, Disconnect, Leave, TypeOK
<1>6. ASSUME NEW u \in Tasks, StreamLimited(u)
      PROVE  req'[t] = req[t] /\ got'[t] = got[t]
  BY <1>6 DEF StreamLimited, TypeOK
<1>7. \/ UNCHANGED <<req, got>>
      \/ \E u \in Tasks : \/ Arrive(u) \/ Lookup(u) \/ Recheck(u) \/ Create(u)
                         \/ Insert(u) \/ CreateFail(u) \/ StreamFail(u)
                         \/ Touch(u) \/ Disconnect(u) \/ StreamLimited(u)
  BY DEF Next, Work, Janitor, Acquire, GetLock, DropOtherModel, CheckCap, Stay,
         ChooseVictim, Evict, StreamOk, RemoveBinding, RemoveLock, JanitorScan,
         JanitorRemove, JanitorUnmap, JanitorPanic, Tick, vars, taskVars
<1> QED BY <1>1, <1>2, <1>3, <1>4, <1>5, <1>6, <1>7

LEMMA CreatedStep ==
    [Next]_vars => UNCHANGED created \/ \E t \in Tasks : Create(t)
BY DEF Next, Work, Janitor, Arrive, Acquire, Disconnect, Lookup, GetLock,
       Recheck, DropOtherModel, CheckCap, ChooseVictim, Evict, CreateFail,
       Insert, StreamOk, StreamLimited, StreamFail, Touch, RemoveBinding,
       RemoveLock, JanitorScan, JanitorRemove, JanitorUnmap, JanitorPanic, Tick, vars

LEMMA IsolationInit == Init => ThreadIsolation
BY DEF Init, ThreadIsolation, Bound

LEMMA IsolationNext ==
    TypeOK /\ ThreadIsolation /\ [Next]_vars => ThreadIsolation'
<1> SUFFICES ASSUME TypeOK, ThreadIsolation, [Next]_vars PROVE ThreadIsolation'
  OBVIOUS
<1>1. \A b, k, m : MadeFor(b, k, m) =>
          /\ b.id \in DOMAIN created'
          /\ created'[b.id] = [key |-> k, model |-> m]
          /\ b.model = m
  BY CreatedStep, MadeForStable
<1>2. ASSUME NEW k \in Keys, inner'[k] # NoBinding
      PROVE  /\ inner'[k].id \in DOMAIN created'
             /\ created'[inner'[k].id] = [key |-> k, model |-> inner'[k].model]
  <2>1. CASE /\ inner[k] # NoBinding
             /\ inner'[k].id = inner[k].id
             /\ inner'[k].model = inner[k].model
    <3>1. MadeFor(inner[k], k, inner[k].model)
      BY <2>1 DEF ThreadIsolation, Bound
    <3> QED BY <1>1, <2>1, <3>1
  <2>2. ASSUME NEW t \in Tasks, Insert(t), KeyOf(t) = k, inner'[k] = got[t]
        PROVE  /\ inner'[k].id \in DOMAIN created'
               /\ created'[inner'[k].id] = [key |-> k, model |-> inner'[k].model]
    <3>1. got[t] # NoBinding
      BY <2>2 DEF Insert, TypeOK, Served
    <3>2. MadeFor(got[t], k, req[t].model)
      BY <2>2, <3>1 DEF ThreadIsolation
    <3>3. req[t].model = got[t].model
      BY <3>2 DEF MadeFor
    <3> QED BY <1>1, <2>2, <3>2, <3>3
  <2> QED BY <1>2, <2>1, <2>2, MapStep
<1>3. ASSUME NEW t \in Tasks, got'[t] # NoBinding
      PROVE  /\ got'[t].id \in DOMAIN created'
             /\ created'[got'[t].id] = [key |-> KeyOf(t)', model |-> req'[t].model]
             /\ got'[t].model = req'[t].model
  <2>1. req'[t] = req[t] /\ KeyOf(t)' = KeyOf(t)
    BY <1>3, HandStep DEF KeyOf
  <2>2. CASE got'[t] = got[t]
    <3>1. MadeFor(got[t], KeyOf(t), req[t].model)
      BY <1>3, <2>2 DEF ThreadIsolation
    <3> QED BY <1>1, <2>1, <2>2, <3>1
  <2>3. CASE Matches(KeyOf(t), req[t].model) /\ got'[t] = inner[KeyOf(t)]
    <3>1. MadeFor(inner[KeyOf(t)], KeyOf(t), req[t].model)
      BY <2>3, RequestType DEF ThreadIsolation, Bound, Matches
    <3> QED BY <1>1, <2>1, <2>3, <3>1
  <2>4. CASE Create(t)
    <3>1. created \in Seq(Request) /\ req[t] \in Request
      BY DEF TypeOK
    <3>2. created' = Append(created, req[t])
      BY <2>4 DEF Create
    <3>3. got'[t] = [id |-> Len(created) + 1, model |-> req[t].model, last |-> clock]
      BY <2>4 DEF Create, TypeOK
    <3>4. /\ got'[t].id = Len(created) + 1
          /\ got'[t].model = req[t].model
      BY <3>3
    <3>5. /\ Len(created) + 1 \in DOMAIN created'
          /\ created'[Len(created) + 1] = req[t]
      BY <3>1, <3>2
    <3>6. req[t] = [key |-> KeyOf(t), model |-> req[t].model]
      BY <3>1 DEF Request, KeyOf
    <3> QED BY <2>1, <3>4, <3>5, <3>6
  <2> QED BY <1>3, <2>2, <2>3, <2>4, HandStep
<1> QED BY <1>2, <1>3 DEF ThreadIsolation, MadeFor, Bound

(* Every upstream session serves the one thread and the one model it was     *)
(* created for: in the map, and in the hands of every request.               *)
THEOREM Isolation == Spec => []ThreadIsolation
<1>1. Init => ThreadIsolation
  BY IsolationInit
<1>2. TypeOK /\ ThreadIsolation /\ [Next]_vars => ThreadIsolation'
  BY IsolationNext
<1> QED BY <1>1, <1>2, TypeCorrect, PTL DEF Spec

-------------------------------------------------------------------------------
(* The per-key mutex.  A mutex object has at most one task inside it, always; *)
(* and while no lock entry is ever removed, all the tasks of a key use the    *)
(* one object the map has for it.                                             *)
NoRemovals == ~RateLimits /\ MaxClock <= IdleHours

ObjectExclusive ==
    \A t, u \in Tasks :
        t # u /\ {pc[t], pc[u]} \subseteq Critical => mutex[t] # mutex[u]

OneObjectPerKey ==
    /\ stale = {} /\ unmap = NoKey
    /\ \A t \in Tasks :
        /\ pc[t] \notin {"remove", "unmap"}
        /\ mutex[t] # NoLock => mutex[t] = locks[KeyOf(t)]

MutexInv == ObjectExclusive /\ OneObjectPerKey /\ InsertOverwritesNothing

LEMMA MutexInit == Init => MutexInv
BY DEF Init, MutexInv, ObjectExclusive, OneObjectPerKey,
       InsertOverwritesNothing, Critical

(* The steps that leave mutex objects, lock entries and requests alone and    *)
(* do not put a task inside.                                                  *)
LEMMA ObjectExclusiveNext ==
    TypeOK /\ ObjectExclusive /\ [Next]_vars => ObjectExclusive'
<1> SUFFICES ASSUME TypeOK, ObjectExclusive, [Next]_vars,
                    NEW t \in Tasks, NEW u \in Tasks, t # u,
                    pc'[t] \in Critical, pc'[u] \in Critical
             PROVE  mutex'[t] # mutex'[u]
  BY DEF ObjectExclusive
<1>1. ASSUME NEW v \in Tasks, pc'[v] \in Critical
      PROVE  mutex'[v] = mutex[v] /\ (pc[v] \in Critical \/ Acquire(v))
  <2>1. ASSUME NEW w \in Tasks,
               Arrive(w) \/ GetLock(w) \/ CreateFail(w) \/ StreamFail(w) \/ Touch(w)
               \/ Disconnect(w) \/ StreamOk(w) \/ StreamLimited(w)
               \/ RemoveBinding(w) \/ RemoveLock(w) \/ Insert(w) \/ Lookup(w)
        PROVE  w # v
    BY <1>1, <2>1 DEF Arrive, GetLock, CreateFail, StreamFail, Touch, Disconnect,
          StreamOk, StreamLimited, RemoveBinding, RemoveLock, Insert, Lookup,
          Leave, Return, Stay, Go, TypeOK, Critical
  <2>2. ASSUME NEW w \in Tasks,
               Arrive(w) \/ GetLock(w) \/ CreateFail(w) \/ StreamFail(w) \/ Touch(w)
               \/ Disconnect(w) \/ StreamOk(w) \/ StreamLimited(w)
               \/ RemoveBinding(w) \/ RemoveLock(w) \/ Insert(w) \/ Lookup(w)
        PROVE  mutex'[v] = mutex[v] /\ pc'[v] = pc[v]
    BY <2>1, <2>2 DEF Arrive, GetLock, CreateFail, StreamFail, Touch, Disconnect,
          StreamOk, StreamLimited, RemoveBinding, RemoveLock, Insert, Lookup,
          Leave, Return, Stay, Go, TypeOK
  <2>3. ASSUME NEW w \in Tasks,
               DropOtherModel(w) \/ CheckCap(w) \/ ChooseVictim(w) \/ Evict(w)
               \/ Create(w)
        PROVE  mutex'[v] = mutex[v] /\ pc[v] \in Critical
    BY <1>1, <2>3 DEF DropOtherModel, CheckCap, ChooseVictim, Evict, Create,
          Stay, Go, TypeOK, Critical
  <2>4. ASSUME NEW w \in Tasks, Recheck(w)
        PROVE  mutex'[v] = mutex[v] /\ pc[v] \in Critical
    BY <1>1, <2>4 DEF Recheck, Return, Stay, Go, TypeOK, Critical
  <2>5. ASSUME NEW w \in Tasks, Acquire(w)
        PROVE  mutex'[v] = mutex[v] /\ (pc[v] \in Critical \/ w = v)
    BY <1>1, <2>5 DEF Acquire, Stay, Go, TypeOK, Critical
  <2>6. CASE UNCHANGED <<pc, mutex>>
    BY <1>1, <2>6
  <2>7. \/ UNCHANGED <<pc, mutex>>
        \/ \E w \in Tasks : Arrive(w) \/ Work(w) \/ Acquire(w) \/ Disconnect(w)
    BY DEF Next, Janitor, JanitorScan, JanitorRemove, JanitorUnmap, JanitorPanic, Tick, vars,
           taskVars
  <2> QED BY <1>1, <2>2, <2>3, <2>4, <2>5, <2>6, <2>7 DEF Work
<1>2. CASE pc[t] \in Critical /\ pc[u] \in Critical
  BY <1>1, <1>2 DEF ObjectExclusive
<1>3. ASSUME NEW v \in Tasks, Acquire(v), NEW w \in Tasks, w # v, pc[w] \in Critical
      PROVE  mutex[w] # mutex[v]
  BY <1>3 DEF Acquire, Held
<1>4. ASSUME Acquire(t), Acquire(u)
      PROVE  FALSE
  BY <1>4 DEF Acquire, Stay, Go, TypeOK
<1> QED BY <1>1, <1>2, <1>3, <1>4

LEMMA OneObjectNext ==
    NoRemovals /\ TypeOK /\ OneObjectPerKey /\ [Next]_vars => OneObjectPerKey'
<1> SUFFICES ASSUME NoRemovals, TypeOK, OneObjectPerKey, [Next]_vars
             PROVE  OneObjectPerKey'
  OBVIOUS
<1>idle. IdleKeys(IdleHours) = {}
  <2> SUFFICES ASSUME NEW k \in Keys, inner[k] # NoBinding
               PROVE  ~(clock - inner[k].last > IdleHours)
    BY DEF IdleKeys, Bound
  <2>1. inner[k] \in Binding
    BY DEF TypeOK
  <2>2. inner[k].last \in Nat /\ clock \in Int /\ clock <= MaxClock
    BY <2>1, BoundsAssumption DEF Binding, TypeOK
  <2> QED BY <2>2, BoundsAssumption DEF NoRemovals
<1>1. ASSUME NEW u \in Tasks, Arrive(u)
      PROVE  OneObjectPerKey'
  BY <1>1 DEF Arrive, Go, OneObjectPerKey, TypeOK, KeyOf, Waiting, Critical,
        mapVars, janVars
<1>2. ASSUME NEW u \in Tasks, GetLock(u)
      PROVE  OneObjectPerKey'
  <2>1. KeyOf(u) \in Keys
    BY RequestType
  <2>2. locks'[KeyOf(u)] = mutex'[u]
    BY <1>2, <2>1 DEF GetLock, TypeOK
  <2>3. \A k \in Keys : locks[k] # NoLock => locks'[k] = locks[k]
    BY <1>2, <2>1 DEF GetLock, TypeOK
  <2>4. \A t \in Tasks \ {u} : mutex'[t] = mutex[t]
    BY <1>2 DEF GetLock, TypeOK
  <2>5. \A t \in Tasks : KeyOf(t)' = KeyOf(t)
    BY <1>2 DEF GetLock, KeyOf
  <2>6. stale' = {} /\ unmap' = NoKey
    BY <1>2 DEF GetLock, janVars, OneObjectPerKey
  <2>7. \A t \in Tasks : pc'[t] \notin {"remove", "unmap"}
    BY <1>2 DEF GetLock, Go, OneObjectPerKey, TypeOK
  <2>8. \A t \in Tasks : mutex'[t] # NoLock => mutex'[t] = locks'[KeyOf(t)]
    BY <2>2, <2>3, <2>4, RequestType DEF OneObjectPerKey
  <2> QED BY <2>5, <2>6, <2>7, <2>8 DEF OneObjectPerKey
<1>3. ASSUME NEW u \in Tasks,
             Lookup(u) \/ Recheck(u) \/ Insert(u)
      PROVE  OneObjectPerKey'
  BY <1>3 DEF Lookup, Recheck, Insert, Return, Stay, Go, OneObjectPerKey,
        TypeOK, KeyOf, mapVars, janVars
<1>4. ASSUME NEW u \in Tasks,
             CreateFail(u) \/ StreamFail(u) \/ Touch(u) \/ Disconnect(u)
      PROVE  OneObjectPerKey'
  BY <1>4 DEF CreateFail, StreamFail, Touch, Disconnect, Leave, Go,
        OneObjectPerKey, TypeOK, KeyOf, mapVars, janVars
<1>5. ASSUME NEW u \in Tasks,
             \/ Acquire(u) \/ DropOtherModel(u) \/ CheckCap(u) \/ ChooseVictim(u)
             \/ Evict(u) \/ Create(u) \/ StreamOk(u)
      PROVE  OneObjectPerKey'
  BY <1>5 DEF Acquire, DropOtherModel, CheckCap, ChooseVictim, Evict, Create,
        StreamOk, Stay, Go, OneObjectPerKey, TypeOK, KeyOf, mapVars, janVars
<1>6. ASSUME NEW u \in Tasks,
             StreamLimited(u) \/ RemoveBinding(u) \/ RemoveLock(u)
      PROVE  FALSE
  BY <1>6 DEF StreamLimited, RemoveBinding, RemoveLock, NoRemovals,
        OneObjectPerKey
<1>7. ASSUME Janitor PROVE FALSE
  BY <1>7, <1>idle DEF Janitor, JanitorScan, JanitorRemove, JanitorUnmap,
        JanitorPanic, OneObjectPerKey
<1>8. CASE Tick \/ UNCHANGED vars
  BY <1>8 DEF Tick, vars, OneObjectPerKey, KeyOf, mapVars, taskVars, janVars
<1> QED BY <1>1, <1>2, <1>3, <1>4, <1>5, <1>6, <1>7, <1>8 DEF Next, Work

(* Two tasks past the second look for one key would share its mutex object.  *)
LEMMA SameKeyExcluded ==
    ASSUME TypeOK, ObjectExclusive, OneObjectPerKey,
           NEW t \in Tasks, NEW u \in Tasks, t # u,
           pc[t] \in Critical, pc[u] \in Critical
    PROVE  KeyOf(t) # KeyOf(u)
<1>1. mutex[t] # NoLock /\ mutex[u] # NoLock
  BY DEF TypeOK
<1>2. mutex[t] # mutex[u]
  BY DEF ObjectExclusive
<1> QED BY <1>1, <1>2 DEF OneObjectPerKey

LEMMA InsertOverwritesNext ==
    TypeOK /\ ObjectExclusive /\ OneObjectPerKey /\ InsertOverwritesNothing
        /\ [Next]_vars => InsertOverwritesNothing'
<1> SUFFICES ASSUME TypeOK, ObjectExclusive, OneObjectPerKey,
                    InsertOverwritesNothing, [Next]_vars, NEW t \in Tasks,
                    pc'[t] \in {"cap", "victim", "evict", "create", "insert"}
             PROVE  inner'[KeyOf(t)'] = NoBinding
  BY DEF InsertOverwritesNothing
<1> DEFINE After == {"cap", "victim", "evict", "create", "insert"}
<1>1. KeyOf(t)' = KeyOf(t) /\ KeyOf(t) \in Keys
  <2>1. ASSUME NEW u \in Tasks, Arrive(u) PROVE KeyOf(t)' = KeyOf(t)
    BY <2>1 DEF Arrive, Go, TypeOK, KeyOf
  <2>2. CASE UNCHANGED req
    BY <2>2, RequestType DEF KeyOf
  <2>3. UNCHANGED req \/ \E u \in Tasks : Arrive(u)
    BY DEF Next, Work, Janitor, Acquire, Disconnect, Lookup, GetLock, Recheck,
           DropOtherModel, CheckCap, ChooseVictim, Evict, Create, CreateFail,
           Insert, StreamOk, StreamLimited, StreamFail, Touch, RemoveBinding,
           RemoveLock, JanitorScan, JanitorRemove, JanitorUnmap, JanitorPanic, Tick, vars,
           taskVars, Leave, Return, Stay
  <2> QED BY <2>1, <2>2, <2>3, RequestType
<1>2. \/ (pc[t] \in After /\ inner[KeyOf(t)] = NoBinding)
      \/ (pc[t] = "recheck" /\ Recheck(t) /\ inner[KeyOf(t)] = NoBinding)
      \/ DropOtherModel(t)
  <2>1. ASSUME NEW u \in Tasks, Recheck(u)
        PROVE  \/ pc'[t] = pc[t]
               \/ u = t /\ inner[KeyOf(t)] = NoBinding
    BY <2>1 DEF Recheck, Return, Stay, Go, TypeOK
  <2>2. ASSUME NEW u \in Tasks,
               \/ CheckCap(u) \/ ChooseVictim(u) \/ Evict(u) \/ Create(u)
               \/ CreateFail(u) \/ Insert(u) \/ StreamOk(u) \/ StreamLimited(u)
               \/ StreamFail(u) \/ Touch(u) \/ RemoveBinding(u) \/ RemoveLock(u)
               \/ Arrive(u) \/ Lookup(u) \/ GetLock(u) \/ Acquire(u) \/ Disconnect(u)
        PROVE  pc'[t] = pc[t] \/ pc[t] \in After
    BY <2>2 DEF CheckCap, ChooseVictim, Evict, Create, CreateFail, Insert,
          StreamOk, StreamLimited, StreamFail, Touch, RemoveBinding, RemoveLock,
          Arrive, Lookup, GetLock, Acquire, Disconnect, Leave, Return, Stay, Go,
          TypeOK
  <2>3. ASSUME NEW u \in Tasks, DropOtherModel(u)
        PROVE  pc'[t] = pc[t] \/ u = t
    BY <2>3 DEF DropOtherModel, Stay, Go, TypeOK
  <2>4. UNCHANGED pc \/ \E u \in Tasks : Arrive(u) \/ Work(u) \/ Acquire(u) \/ Disconnect(u)
    BY DEF Next, Janitor, JanitorScan, JanitorRemove, JanitorUnmap, JanitorPanic, Tick, vars,
           taskVars
  <2> QED BY <2>1, <2>2, <2>3, <2>4 DEF Work, InsertOverwritesNothing, Recheck
<1>3. CASE DropOtherModel(t)
  BY <1>1, <1>3 DEF DropOtherModel, TypeOK
<1>4. CASE inner[KeyOf(t)] = NoBinding /\ pc[t] \in Critical
  <2>1. SUFFICES ASSUME inner'[KeyOf(t)] # NoBinding PROVE FALSE
    BY <1>1
  <2>2. PICK u \in Tasks : Insert(u) /\ KeyOf(u) = KeyOf(t)
    BY <1>1, <1>4, <2>1, MapStep
  <2>3. u # t
    BY <2>2 DEF Insert, Return, Go, TypeOK
  <2>4. pc[u] \in Critical
    BY <2>2 DEF Insert, Critical
  <2> QED BY <1>4, <2>2, <2>3, <2>4, SameKeyExcluded
<1> QED BY <1>2, <1>3, <1>4 DEF Critical

(* While the upstream never answers 429 and no session gets old enough for   *)
(* the janitor, the per-key mutex does its work: one task at a time creates  *)
(* a session for a key, and only for a key that has none.                    *)
THEOREM MutexWorks ==
    ASSUME NoRemovals
    PROVE  Spec => [](OneCreator /\ InsertOverwritesNothing)
<1>1. Init => MutexInv
  BY MutexInit
<1>2. TypeOK /\ MutexInv /\ [Next]_vars => MutexInv'
  BY ObjectExclusiveNext, OneObjectNext, InsertOverwritesNext, NoRemovals
     DEF MutexInv
<1>3. TypeOK /\ MutexInv => OneCreator /\ InsertOverwritesNothing
  BY SameKeyExcluded DEF MutexInv, OneCreator, Critical
<1> QED BY <1>1, <1>2, <1>3, TypeCorrect, PTL DEF Spec

-------------------------------------------------------------------------------
(* A session enters the map at most once, so one that was removed after a 429 *)
(* never comes back.                                                          *)
LEMMA CreatedGrows ==
    ASSUME TypeOK, [Next]_vars, NEW i \in DOMAIN created
    PROVE  i \in DOMAIN created' /\ created'[i] = created[i]
<1>1. created \in Seq(Request)
  BY DEF TypeOK
<1>2. ASSUME NEW t \in Tasks, Create(t)
      PROVE  i \in DOMAIN created' /\ created'[i] = created[i]
  <2>1. created' = Append(created, req[t]) /\ req[t] \in Request
    BY <1>2 DEF Create, TypeOK
  <2> QED BY <1>1, <2>1
<1> QED BY <1>2, CreatedStep

LEMMA CreatedFresh ==
    ASSUME TypeOK, NEW t \in Tasks, Create(t)
    PROVE  /\ got'[t].id = Len(created) + 1
           /\ got'[t].id \notin DOMAIN created
           /\ UNCHANGED inner
           /\ \A u \in Tasks \ {t} : got'[u] = got[u] /\ pc'[u] = pc[u]
<1>1. created \in Seq(Request)
  BY DEF TypeOK
<1>2. got'[t] = [id |-> Len(created) + 1, model |-> req[t].model, last |-> clock]
  BY DEF Create, TypeOK
<1>3. UNCHANGED inner /\ \A u \in Tasks \ {t} : got'[u] = got[u] /\ pc'[u] = pc[u]
  BY DEF Create, mapVars, Go, TypeOK
<1> QED BY <1>1, <1>2, <1>3

LEMMA InHand ==
    ASSUME TypeOK, ThreadIsolation
    PROVE  /\ \A k \in Bound : /\ inner[k].id \in DOMAIN created
                               /\ created[inner[k].id].key = k
           /\ \A t \in Tasks : got[t] # NoBinding =>
                 got[t].id \in DOMAIN created /\ created[got[t].id].key = KeyOf(t)
<1>1. ASSUME NEW b, NEW k, NEW m, MadeFor(b, k, m)
      PROVE  b.id \in DOMAIN created /\ created[b.id].key = k
  BY <1>1 DEF MadeFor
<1>2. \A k \in Bound : MadeFor(inner[k], k, inner[k].model)
  BY DEF ThreadIsolation
<1>3. \A t \in Tasks : got[t] # NoBinding => MadeFor(got[t], KeyOf(t), req[t].model)
  BY DEF ThreadIsolation
<1> QED BY <1>1, <1>2, <1>3

LEMMA InsertLabel ==
    ASSUME TypeOK, [Next]_vars, NEW t \in Tasks, pc'[t] = "insert"
    PROVE  (pc[t] = "insert" /\ ~Insert(t) /\ got'[t] = got[t]) \/ Create(t)
<1>1. pc[t] = "insert" \/ Create(t)
  <2>1. ASSUME NEW u \in Tasks, Recheck(u) \/ Insert(u) \/ Lookup(u)
        PROVE  pc'[t] = pc[t] \/ (u = t /\ FALSE)
    BY <2>1 DEF Recheck, Insert, Lookup, Return, Stay, Go, TypeOK
  <2>2. ASSUME NEW u \in Tasks,
               \/ CheckCap(u) \/ ChooseVictim(u) \/ Evict(u) \/ DropOtherModel(u)
               \/ CreateFail(u) \/ StreamOk(u) \/ StreamLimited(u)
               \/ StreamFail(u) \/ Touch(u) \/ RemoveBinding(u) \/ RemoveLock(u)
               \/ Arrive(u) \/ GetLock(u) \/ Acquire(u) \/ Disconnect(u)
        PROVE  pc'[t] = pc[t]
    BY <2>2 DEF CheckCap, ChooseVictim, Evict, DropOtherModel, CreateFail,
          StreamOk, StreamLimited, StreamFail, Touch, RemoveBinding, RemoveLock,
          Arrive, GetLock, Acquire, Disconnect, Leave, Stay, Go, TypeOK
  <2>3. ASSUME NEW u \in Tasks, Create(u)
        PROVE  pc'[t] = pc[t] \/ u = t
    BY <2>3 DEF Create, Go, TypeOK
  <2>4. UNCHANGED pc \/ \E u \in Tasks : Arrive(u) \/ Work(u) \/ Acquire(u) \/ Disconnect(u)
    BY DEF Next, Janitor, JanitorScan, JanitorRemove, JanitorUnmap, JanitorPanic, Tick, vars,
           taskVars
  <2> QED BY <2>1, <2>2, <2>3, <2>4 DEF Work
<1>2. ~Insert(t)
  BY DEF Insert, Return, Go, TypeOK
<1>3. CASE pc[t] = "insert"
  <2>1. got'[t] # NoBinding => got'[t] = got[t] \/ Create(t)
    BY <1>3, HandStep DEF Lookup, Recheck
  <2>2. got'[t] # NoBinding
    BY TypeNext DEF TypeOK
  <2> QED BY <1>2, <1>3, <2>1, <2>2
<1> QED BY <1>1, <1>3

LEMMA BoundOnceNext ==
    TypeOK /\ ThreadIsolation /\ BoundOnce /\ [Next]_vars => BoundOnce'
<1> SUFFICES ASSUME TypeOK, ThreadIsolation, BoundOnce, [Next]_vars,
                    NEW t \in Tasks, pc'[t] = "insert"
             PROVE  /\ \A k \in Keys : inner'[k] # NoBinding => inner'[k].id # got'[t].id
                    /\ \A u \in Tasks \ {t} : got'[u] # NoBinding => got'[u].id # got'[t].id
  BY DEF BoundOnce, Bound
<1>1. CASE Create(t)
  BY <1>1, CreatedFresh, InHand DEF Bound
<1>2. CASE pc[t] = "insert" /\ ~Insert(t) /\ got'[t] = got[t]
  <2>0. got[t] # NoBinding
    BY <1>2 DEF TypeOK
  <2>1. ASSUME NEW k \in Keys, inner'[k] # NoBinding
        PROVE  inner'[k].id # got[t].id
    <3>1. CASE inner[k] # NoBinding /\ inner'[k].id = inner[k].id
      BY <1>2, <3>1 DEF BoundOnce, Bound
    <3>2. ASSUME NEW u \in Tasks, Insert(u), inner'[k] = got[u]
          PROVE  inner'[k].id # got[t].id
      <4>1. u # t /\ got[u] # NoBinding
        BY <1>2, <3>2 DEF Insert, TypeOK
      <4> QED BY <1>2, <3>2, <4>1 DEF BoundOnce
    <3> QED BY <2>1, <3>1, <3>2, MapStep
  <2>2. ASSUME NEW u \in Tasks \ {t}, got'[u] # NoBinding
        PROVE  got'[u].id # got[t].id
    <3>1. CASE got'[u] = got[u]
      BY <1>2, <2>2, <3>1 DEF BoundOnce
    <3>2. CASE got'[u] = inner[KeyOf(u)] /\ Matches(KeyOf(u), req[u].model)
      BY <1>2, <3>2, RequestType DEF BoundOnce, Bound, Matches
    <3>3. CASE Create(u)
      BY <2>0, <3>3, CreatedFresh, InHand
    <3> QED BY <2>2, <3>1, <3>2, <3>3, HandStep
  <2> QED BY <1>2, <2>1, <2>2
<1> QED BY <1>1, <1>2, InsertLabel

LEMMA LimitedStep ==
    ASSUME TypeOK, [Next]_vars, NEW t \in Tasks, limited'[t] # 0
    PROVE  /\ KeyOf(t)' = KeyOf(t)
           /\ \/ StreamLimited(t)
              \/ /\ limited'[t] = limited[t]
                 /\ pc[t] = "remove" => pc'[t] = "remove" \/ RemoveBinding(t)
<1>0. TypeOK'
  BY TypeNext
<1>1. ASSUME NEW u \in Tasks,
             CreateFail(u) \/ StreamFail(u) \/ Touch(u) \/ Disconnect(u)
      PROVE  /\ u # t /\ limited'[t] = limited[t] /\ pc'[t] = pc[t]
             /\ UNCHANGED req
  BY <1>1 DEF CreateFail, StreamFail, Touch, Disconnect, Leave, Go, TypeOK
<1>2. ASSUME NEW u \in Tasks, Arrive(u)
      PROVE  /\ u # t /\ limited'[t] = limited[t]
             /\ req'[t] = req[t] /\ pc'[t] = pc[t]
  BY <1>2 DEF Arrive, Go, TypeOK
<1>3. ASSUME NEW u \in Tasks, StreamLimited(u)
      PROVE  /\ u # t => limited'[t] = limited[t] /\ pc'[t] = pc[t]
             /\ UNCHANGED req
  BY <1>3 DEF StreamLimited, Go, TypeOK
<1>4. ASSUME NEW u \in Tasks,
             \/ Lookup(u) \/ GetLock(u) \/ Recheck(u) \/ DropOtherModel(u)
             \/ CheckCap(u) \/ ChooseVictim(u) \/ Evict(u) \/ Create(u)
             \/ Insert(u) \/ StreamOk(u) \/ RemoveLock(u) \/ Acquire(u)
      PROVE  /\ UNCHANGED <<req, limited>>
             /\ pc[t] = "remove" => pc'[t] = pc[t]
  BY <1>4 DEF Lookup, GetLock, Recheck, DropOtherModel, CheckCap, ChooseVictim,
        Evict, Create, Insert, StreamOk, RemoveLock, Acquire, Return, Stay, Go,
        TypeOK
<1>5. ASSUME NEW u \in Tasks, RemoveBinding(u)
      PROVE  UNCHANGED <<req, limited>> /\ (u = t \/ pc'[t] = pc[t])
  BY <1>5 DEF RemoveBinding, Stay, Go, TypeOK
<1>6. \/ UNCHANGED <<req, limited, pc>>
      \/ \E u \in Tasks : Arrive(u) \/ Work(u) \/ Acquire(u) \/ Disconnect(u)
  BY DEF Next, Janitor, JanitorScan, JanitorRemove, JanitorUnmap, JanitorPanic, Tick, vars,
         taskVars
<1> QED BY <1>1, <1>2, <1>3, <1>4, <1>5, <1>6 DEF Work, KeyOf

LEMMA LimitedNext ==
    TypeOK /\ ThreadIsolation /\ BoundOnce /\ LimitedSessionGone /\ [Next]_vars
        => LimitedSessionGone'
<1> SUFFICES ASSUME TypeOK, ThreadIsolation, BoundOnce, LimitedSessionGone,
                    [Next]_vars, NEW t \in Tasks, limited'[t] # 0
             PROVE  /\ limited'[t] \in DOMAIN created'
                    /\ created'[limited'[t]].key = KeyOf(t)'
                    /\ \A u \in Tasks : pc'[u] = "insert" => got'[u].id # limited'[t]
                    /\ got'[t] # NoBinding => got'[t].id # limited'[t]
                    /\ pc'[t] # "remove" =>
                          \A k \in Keys : inner'[k] # NoBinding => inner'[k].id # limited'[t]
  BY DEF LimitedSessionGone, Bound
<1>1. CASE StreamLimited(t)
  <2>1. /\ limited'[t] = got[t].id
        /\ got'[t] = NoBinding
        /\ pc'[t] = "remove"
        /\ got[t] # NoBinding
        /\ UNCHANGED created
    BY <1>1 DEF StreamLimited, Go, TypeOK, Served
  <2>2. ASSUME NEW u \in Tasks, pc'[u] = "insert"
        PROVE  got'[u].id # got[t].id
    <3>1. u # t /\ pc[u] = "insert" /\ got'[u] = got[u]
      BY <1>1, <2>1, <2>2 DEF StreamLimited, Go, TypeOK
    <3> QED BY <2>1, <3>1 DEF BoundOnce
  <2> QED BY <2>1, <2>2, InHand, LimitedStep
<1>2. CASE limited'[t] = limited[t] /\ (pc[t] = "remove" => pc'[t] = "remove" \/ RemoveBinding(t))
  <2>1. /\ limited[t] # 0
        /\ limited[t] \in DOMAIN created
        /\ created[limited[t]].key = KeyOf(t)
        /\ \A u \in Tasks : pc[u] = "insert" => got[u].id # limited[t]
        /\ got[t] # NoBinding => got[t].id # limited[t]
        /\ pc[t] # "remove" => \A k \in Bound : inner[k].id # limited[t]
    BY <1>2 DEF LimitedSessionGone
  <2>2. limited[t] \in DOMAIN created' /\ created'[limited[t]].key = KeyOf(t)'
    BY <2>1, CreatedGrows, LimitedStep
  <2>3. ASSUME NEW u \in Tasks, pc'[u] = "insert"
        PROVE  got'[u].id # limited[t]
    BY <2>1, <2>3, InsertLabel, CreatedFresh
  <2>4. ASSUME got'[t] # NoBinding
        PROVE  got'[t].id # limited[t]
    <3>1. CASE got'[t] = got[t]
      BY <2>1, <2>4, <3>1
    <3>2. CASE /\ Lookup(t) \/ Recheck(t)
               /\ Matches(KeyOf(t), req[t].model)
               /\ got'[t] = inner[KeyOf(t)]
      <4>1. pc[t] # "remove" /\ KeyOf(t) \in Bound
        BY <3>2, RequestType DEF Lookup, Recheck, Matches, Bound
      <4> QED BY <2>1, <3>2, <4>1
    <3>3. CASE Create(t)
      BY <2>1, <3>3, CreatedFresh
    <3> QED BY <2>4, <3>1, <3>2, <3>3, HandStep
  <2>5. ASSUME pc'[t] # "remove", NEW k \in Keys, inner'[k] # NoBinding
        PROVE  inner'[k].id # limited[t]
    <3>1. CASE pc[t] = "remove"
      <4>1. RemoveBinding(t)
        BY <1>2, <2>5, <3>1
      <4>2. k # KeyOf(t) /\ inner'[k] = inner[k]
        BY <2>5, <4>1, RequestType DEF RemoveBinding, TypeOK
      <4>3. created[inner[k].id].key = k
        BY <2>5, <4>2, InHand DEF Bound
      <4> QED BY <2>1, <4>2, <4>3
    <3>2. CASE pc[t] # "remove" /\ inner[k] # NoBinding /\ inner'[k].id = inner[k].id
      BY <2>1, <3>2 DEF Bound
    <3>3. ASSUME NEW u \in Tasks, Insert(u), inner'[k] = got[u]
          PROVE  inner'[k].id # limited[t]
      BY <2>1, <3>3 DEF Insert
    <3> QED BY <2>5, <3>1, <3>2, <3>3, MapStep
  <2> QED BY <1>2, <2>2, <2>3, <2>4, <2>5
<1> QED BY <1>1, <1>2, LimitedStep

OnceInv == ThreadIsolation /\ BoundOnce /\ LimitedSessionGone

LEMMA OnceInvariant == Spec => []OnceInv
<1>1. Init => OnceInv
  BY IsolationInit DEF Init, OnceInv, BoundOnce, LimitedSessionGone
<1>2. TypeOK /\ OnceInv /\ [Next]_vars => OnceInv'
  BY IsolationNext, BoundOnceNext, LimitedNext DEF OnceInv
<1> QED BY <1>1, <1>2, TypeCorrect, PTL DEF Spec

(* A session enters the map at most once.                                    *)
THEOREM EverySessionBoundOnce == Spec => []BoundOnce
BY OnceInvariant, PTL DEF OnceInv

(* The retry after a 429 never meets the rate-limited session again.         *)
THEOREM RetryOnAnotherSession == Spec => []LimitedSessionGone
BY OnceInvariant, PTL DEF OnceInv

-------------------------------------------------------------------------------
(* The session map implements SessionOwnership.                              *)
Fresh    == {got[t].id : t \in {u \in Tasks : pc[u] = "insert"}}
BoundIds == [k \in Keys |-> IF inner[k] = NoBinding THEN 0 ELSE inner[k].id]

LEMMA FreshKept ==
    ASSUME \A t \in Tasks : /\ pc'[t] = "insert" <=> pc[t] = "insert"
                            /\ pc[t] = "insert" => got'[t] = got[t]
    PROVE  Fresh' = Fresh
BY DEF Fresh

LEMMA FreshDropped ==
    ASSUME TypeOK, BoundOnce, NEW t \in Tasks, pc[t] = "insert", pc'[t] # "insert",
           \A u \in Tasks \ {t} : pc'[u] = pc[u] /\ got'[u] = got[u]
    PROVE  got[t].id \in Fresh /\ Fresh' = Fresh \ {got[t].id}
<1>1. \A u \in Tasks \ {t} : pc[u] = "insert" => got[u].id # got[t].id
  BY DEF BoundOnce, TypeOK
<1> QED BY <1>1 DEF Fresh

LEMMA RefinesInit == Init => Ownership!Init
BY DEF Init, Ownership!Init

LEMMA OpenRefined ==
    ASSUME TypeOK, [Next]_vars, NEW t \in Tasks, Create(t)
    PROVE  /\ req[t] \in Request
           /\ created' = Append(created, req[t])
           /\ Fresh' = Fresh \cup {Len(created) + 1}
           /\ BoundIds' = BoundIds
<1>1. pc[t] = "create" /\ pc'[t] = "insert"
  BY DEF Create, Go, TypeOK
<1>2. /\ got'[t].id = Len(created) + 1
      /\ UNCHANGED inner
      /\ \A u \in Tasks \ {t} : got'[u] = got[u] /\ pc'[u] = pc[u]
  BY CreatedFresh
<1>3. Fresh' = Fresh \cup {Len(created) + 1}
  BY <1>1, <1>2 DEF Fresh
<1> QED BY <1>2, <1>3 DEF Create, BoundIds, TypeOK

LEMMA BindRefined ==
    ASSUME TypeOK, ThreadIsolation, BoundOnce, NEW t \in Tasks, Insert(t)
    PROVE  /\ got[t].id \in Fresh
           /\ Fresh' = Fresh \ {got[t].id}
           /\ BoundIds' = [BoundIds EXCEPT ![created[got[t].id].key] = got[t].id]
           /\ UNCHANGED created
<1>1. /\ pc[t] = "insert" /\ pc'[t] = "stream" /\ UNCHANGED created
      /\ inner' = [inner EXCEPT ![KeyOf(t)] = got[t]]
      /\ \A u \in Tasks \ {t} : pc'[u] = pc[u] /\ got'[u] = got[u]
  BY DEF Insert, Return, Go, TypeOK
<1>2. got[t] # NoBinding /\ created[got[t].id].key = KeyOf(t)
  BY <1>1, InHand DEF TypeOK
<1>3. BoundIds' = [BoundIds EXCEPT ![KeyOf(t)] = got[t].id]
  BY <1>1, <1>2, RequestType DEF BoundIds, TypeOK
<1> QED BY <1>1, <1>2, <1>3, FreshDropped

LEMMA ReleaseRefined ==
    ASSUME TypeOK, NEW k \in Keys, inner' = [inner EXCEPT ![k] = NoBinding]
    PROVE  BoundIds' = [BoundIds EXCEPT ![k] = 0]
BY DEF BoundIds, TypeOK

LEMMA RefinesNext ==
    TypeOK /\ OnceInv /\ [Next]_vars
        => [Ownership!Next]_<<created, Fresh, BoundIds>>
<1> SUFFICES ASSUME TypeOK, OnceInv, [Next]_vars
             PROVE  [Ownership!Next]_<<created, Fresh, BoundIds>>
  OBVIOUS
<1> DEFINE Stutters == UNCHANGED <<created, Fresh, BoundIds>>
           Opens    == \E r \in Request : /\ created' = Append(created, r)
                                          /\ Fresh' = Fresh \cup {Len(created) + 1}
                                          /\ UNCHANGED BoundIds
           Binds    == \E i \in Fresh : /\ Fresh' = Fresh \ {i}
                                        /\ BoundIds' = [BoundIds EXCEPT ![created[i].key] = i]
                                        /\ UNCHANGED created
           GivesUp  == \E i \in Fresh : Fresh' = Fresh \ {i} /\ UNCHANGED <<created, BoundIds>>
           Releases == \E k \in Keys : /\ BoundIds' = [BoundIds EXCEPT ![k] = 0]
                                       /\ UNCHANGED <<created, Fresh>>
<1>1. ASSUME NEW t \in Tasks, Create(t) PROVE Opens
  BY <1>1, OpenRefined
<1>2. ASSUME NEW t \in Tasks, Insert(t) PROVE Binds
  BY <1>2, BindRefined DEF OnceInv
<1>3. ASSUME NEW t \in Tasks, CreateFail(t) \/ StreamFail(t) \/ Disconnect(t)
      PROVE  Stutters \/ GivesUp
  <2>1. /\ UNCHANGED <<created, inner>>
        /\ pc'[t] = "idle"
        /\ \A u \in Tasks \ {t} : pc'[u] = pc[u] /\ got'[u] = got[u]
    BY <1>3 DEF CreateFail, StreamFail, Disconnect, Leave, Go, mapVars, TypeOK
  <2>2. UNCHANGED BoundIds
    BY <2>1 DEF BoundIds
  <2>3. CASE pc[t] = "insert"
    BY <2>1, <2>2, <2>3, FreshDropped DEF OnceInv
  <2>4. CASE pc[t] # "insert"
    BY <2>1, <2>2, <2>4, FreshKept
  <2> QED BY <2>3, <2>4
<1>4. ASSUME NEW t \in Tasks, Touch(t) PROVE Stutters
  <2>1. \A u \in Tasks : /\ pc'[u] = "insert" <=> pc[u] = "insert"
                         /\ pc[u] = "insert" => got'[u] = got[u]
    BY <1>4 DEF Touch, Leave, Go, TypeOK
  <2>2. \A k \in Keys : /\ inner'[k] = NoBinding <=> inner[k] = NoBinding
                        /\ inner[k] # NoBinding => inner'[k].id = inner[k].id
    <3>0. ASSUME NEW k \in Keys, inner'[k] # inner[k]
          PROVE  /\ inner'[k] = NoBinding <=> inner[k] = NoBinding
                 /\ inner[k] # NoBinding => inner'[k].id = inner[k].id
      <4>1. KeyOf(t) = k /\ inner[k] # NoBinding
        BY <1>4, <3>0, RequestType DEF Touch, TypeOK
      <4>2. inner[k] \in Binding
        BY <4>1 DEF TypeOK
      <4>3. inner'[k] = [inner[k] EXCEPT !.last = clock]
        BY <1>4, <4>1 DEF Touch, TypeOK
      <4>4. inner'[k] # NoBinding
        BY <4>2, <4>3, TouchedBinding, NullAssumption, BoundsAssumption DEF TypeOK
      <4> QED BY <4>1, <4>2, <4>3, <4>4 DEF Binding
    <3> QED BY <3>0
  <2>3. UNCHANGED BoundIds
    BY <2>2 DEF BoundIds
  <2> QED BY <1>4, <2>1, <2>3, FreshKept DEF Touch
<1>5. ASSUME NEW t \in Tasks, DropOtherModel(t) \/ Evict(t) \/ RemoveBinding(t)
      PROVE  Releases
  <2>1. \E k \in Keys : inner' = [inner EXCEPT ![k] = NoBinding]
    BY <1>5, RequestType DEF DropOtherModel, Evict, RemoveBinding, TypeOK
  <2>2. \A u \in Tasks : /\ pc'[u] = "insert" <=> pc[u] = "insert"
                         /\ got'[u] = got[u]
    BY <1>5 DEF DropOtherModel, Evict, RemoveBinding, Stay, Go, TypeOK
  <2>3. UNCHANGED created
    BY <1>5 DEF DropOtherModel, Evict, RemoveBinding
  <2> QED BY <2>1, <2>2, <2>3, FreshKept, ReleaseRefined
<1>6. ASSUME NEW k \in Keys, JanitorRemove(k) PROVE Releases
  <2>1. /\ inner' = [inner EXCEPT ![k] = NoBinding]
        /\ UNCHANGED <<created, pc, got>>
    BY <1>6 DEF JanitorRemove, taskVars
  <2> QED BY <2>1, FreshKept, ReleaseRefined
<1>7. ASSUME NEW t \in Tasks, Lookup(t) \/ Recheck(t)
      PROVE  Stutters
  <2>1. /\ UNCHANGED <<created, inner>>
        /\ \A u \in Tasks : /\ pc'[u] = "insert" <=> pc[u] = "insert"
                            /\ pc[u] = "insert" => got'[u] = got[u]
    BY <1>7 DEF Lookup, Recheck, Return, Stay, Go, mapVars, TypeOK
  <2> QED BY <2>1, FreshKept DEF BoundIds
<1>8. ASSUME NEW t \in Tasks,
             \/ Arrive(t) \/ GetLock(t) \/ Acquire(t) \/ CheckCap(t) \/ ChooseVictim(t)
             \/ StreamOk(t) \/ StreamLimited(t) \/ RemoveLock(t)
      PROVE  Stutters
  <2>1. /\ UNCHANGED <<created, inner>>
        /\ \A u \in Tasks : /\ pc'[u] = "insert" <=> pc[u] = "insert"
                            /\ pc[u] = "insert" => got'[u] = got[u]
    BY <1>8 DEF Arrive, GetLock, Acquire, CheckCap, ChooseVictim, StreamOk,
          StreamLimited, RemoveLock, Stay, Go, mapVars, TypeOK
  <2> QED BY <2>1, FreshKept DEF BoundIds
<1>9. ASSUME UNCHANGED <<created, inner, pc, got>> PROVE Stutters
  BY <1>9, FreshKept DEF BoundIds
<1>10. Stutters \/ Opens \/ Binds \/ GivesUp \/ Releases
  <2>1. \/ UNCHANGED <<created, inner, pc, got>>
        \/ \E t \in Tasks : Arrive(t) \/ Work(t) \/ Acquire(t) \/ Disconnect(t)
        \/ \E k \in Keys : JanitorRemove(k)
    BY DEF Next, Janitor, JanitorScan, JanitorUnmap, JanitorPanic, Tick, vars, taskVars, mapVars
  <2> HIDE DEF Stutters, Opens, Binds, GivesUp, Releases
  <2>2. ASSUME NEW t \in Tasks, Work(t)
        PROVE  Stutters \/ Opens \/ Binds \/ GivesUp \/ Releases
    BY <1>1, <1>2, <1>3, <1>4, <1>5, <1>7, <1>8, <2>2 DEF Work
  <2>3. ASSUME NEW t \in Tasks, Arrive(t) \/ Acquire(t) \/ Disconnect(t)
        PROVE  Stutters \/ GivesUp
    BY <1>3, <1>8, <2>3
  <2>4. UNCHANGED <<created, inner, pc, got>> => Stutters
    BY <1>9
  <2> QED BY <1>6, <2>1, <2>2, <2>3, <2>4
<1> QED
  BY <1>10 DEF Ownership!Next, Ownership!Open, Ownership!Bind, Ownership!GiveUp,
       Ownership!Release, Ownership!Opening, Request, Fresh, BoundIds

(* Every behaviour of the session map, with its locks, tasks, clock and       *)
(* janitor, is a behaviour of SessionOwnership.                               *)
THEOREM MapImplementsOwnership == Spec => ImplementsOwnership
<1>1. Init => Ownership!Init
  BY RefinesInit
<1>2. TypeOK /\ OnceInv /\ [Next]_vars
        => [Ownership!Next]_<<created, Fresh, BoundIds>>
  BY RefinesNext
<1> QED
  BY <1>1, <1>2, TypeCorrect, OnceInvariant, PTL
     DEF Spec, ImplementsOwnership, Ownership!Spec, Fresh, BoundIds
===============================================================================
