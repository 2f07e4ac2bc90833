------------------------------ MODULE SessionMap ------------------------------
(***************************************************************************)
(* The session map of session.rs, with the tasks that use it: the chat     *)
(* handlers of api.rs (which ensure a session, stream on it, replace it    *)
(* once when the upstream rate-limits it, and touch it) and the janitor of *)
(* main.rs.  Every .await of the source at which another task can run is a *)
(* boundary between two actions here.                                      *)
(*                                                                         *)
(* A task is a request that holds a permit of the concurrency semaphore,   *)
(* so Tasks has at most free_slots + sub_slots members (4 by default).     *)
(* Time counts hours: the code compares whole hours (num_hours).           *)
(* tokio's Mutex and RwLock and the upstream service are external.         *)
(***************************************************************************)
EXTENDS Integers, Sequences, FiniteSets

CONSTANTS
    Keys,         \* downstream thread ids (the "user" field)
    Models,       \* upstream model ids
    Tasks,        \* concurrent requests
    MaxSessions,  \* MAX_SESSIONS
    IdleHours,    \* SESSION_IDLE_HOURS
    SplitKeys,    \* keys whose 16th byte is not the end of a character
    RateLimits,   \* does the upstream ever answer 429?
    NoBinding,    \* the absent entry of the map
    NoKey,        \* "no victim chosen"
    MaxClock,     \* bound: the clock stops here
    MaxCreates,   \* bound: sessions the upstream ever creates
    MaxLocks      \* bound: mutex objects alive at once

VARIABLES
    inner,    \* inner: the binding of each key, or NoBinding
    locks,    \* locks: the mutex object of each key, or NoLock
    created,  \* upstream: session i was made for request created[i]
    pc,       \* where each task is
    req,      \* the request each task serves
    mutex,    \* the mutex object a task waits for or holds
    got,      \* the binding a task built or was given
    victim,   \* the key a task is about to evict
    limited,  \* the session a task saw rate-limited (retried_429 = it is not 0)
    stale,    \* janitor: keys of its snapshot still to remove
    unmap,    \* janitor: the key whose lock entry it removes next
    running,  \* janitor: it has not panicked
    clock

mapVars  == <<inner, locks>>
taskVars == <<pc, req, mutex, got, victim, limited>>
janVars  == <<stale, unmap, running>>
vars     == <<inner, locks, created, pc, req, mutex, got, victim, limited,
              stale, unmap, running, clock>>

LockIds  == 1..MaxLocks
NoLock   == 0
Request  == [key : Keys, model : Models]
Binding  == [id : Nat \ {0}, model : Models, last : Nat]

ASSUME BoundsAssumption ==
    /\ MaxSessions \in Nat \ {0}
    /\ IdleHours \in Nat \ {0}
    /\ SplitKeys \subseteq Keys
    /\ MaxClock \in Nat
    /\ MaxCreates \in Nat
    /\ MaxLocks \in Nat
    /\ RateLimits \in BOOLEAN

ASSUME NullAssumption ==
    /\ NoBinding \notin Binding
    /\ NoKey \notin Keys

-------------------------------------------------------------------------------
(* The places a task can be in: one per await of ensure and of the handler. *)

Waiting  == {"acquire"}
Critical == {"recheck", "drop", "cap", "victim", "evict", "create", "insert"}
Served   == {"stream", "touch"}
Labels   == {"idle", "lookup", "lockmap", "remove", "unmap"}
                \cup Waiting \cup Critical \cup Served

Bound       == {k \in Keys : inner[k] # NoBinding}
Matches(k, m) == inner[k] # NoBinding /\ inner[k].model = m
KeyOf(t)    == req[t].key

(* A mutex object is held by the task that is inside the critical section. *)
Held(l)  == \E t \in Tasks : mutex[t] = l /\ pc[t] \in Critical
(* An object is alive while the map or a task refers to it (Arc). *)
Alive(l) == \/ \E k \in Keys : locks[k] = l
            \/ \E t \in Tasks : mutex[t] = l
NewLock  == CHOOSE l \in LockIds : ~Alive(l)

Go(t, label) == pc' = [pc EXCEPT ![t] = label]

(* Mutant of Leave: an error path that forgets the guard. *)
LeaveKeepingGuard(t) ==
    /\ Go(t, "idle")
    /\ got' = [got EXCEPT ![t] = NoBinding]
    /\ victim' = [victim EXCEPT ![t] = NoKey]
    /\ limited' = [limited EXCEPT ![t] = 0]
    /\ UNCHANGED <<req, mutex>>

(* The handler returns, or its future is dropped: the guard is released. *)
Leave(t) ==
    /\ Go(t, "idle")
    /\ mutex' = [mutex EXCEPT ![t] = NoLock]
    /\ got' = [got EXCEPT ![t] = NoBinding]
    /\ victim' = [victim EXCEPT ![t] = NoKey]
    /\ limited' = [limited EXCEPT ![t] = 0]
    /\ UNCHANGED req

(* ensure returns a binding to the handler, which streams on it. *)
Return(t, b) ==
    /\ Go(t, "stream")
    /\ got' = [got EXCEPT ![t] = b]
    /\ mutex' = [mutex EXCEPT ![t] = NoLock]
    /\ victim' = [victim EXCEPT ![t] = NoKey]
    /\ UNCHANGED <<req, limited>>

Stay(t, label) ==
    /\ Go(t, label)
    /\ UNCHANGED <<req, mutex, got, victim, limited>>

-------------------------------------------------------------------------------
Init ==
    /\ inner = [k \in Keys |-> NoBinding]
    /\ locks = [k \in Keys |-> NoLock]
    /\ created = <<>>
    /\ pc = [t \in Tasks |-> "idle"]
    /\ req \in [Tasks -> Request]
    /\ mutex = [t \in Tasks |-> NoLock]
    /\ got = [t \in Tasks |-> NoBinding]
    /\ victim = [t \in Tasks |-> NoKey]
    /\ limited = [t \in Tasks |-> 0]
    /\ stale = {}
    /\ unmap = NoKey
    /\ running = TRUE
    /\ clock = 0

(* A request with a permit and a credential calls ensure. *)
Arrive(t) ==
    /\ pc[t] = "idle"
    /\ \E r \in Request : req' = [req EXCEPT ![t] = r]
    /\ Go(t, "lookup")
    /\ UNCHANGED <<mapVars, created, mutex, got, victim, limited, janVars, clock>>

(* Mutant of Lookup: the fast path forgets to compare the model. *)
LookupAnyModel(t) ==
    /\ pc[t] = "lookup"
    /\ \/ /\ inner[KeyOf(t)] # NoBinding
          /\ Return(t, inner[KeyOf(t)])
       \/ /\ inner[KeyOf(t)] = NoBinding
          /\ Stay(t, "lockmap")
    /\ UNCHANGED <<mapVars, created, janVars, clock>>

(* The fast path of ensure: an existing session of the same model. *)
Lookup(t) ==
    /\ pc[t] = "lookup"
    /\ \/ /\ Matches(KeyOf(t), req[t].model)
          /\ Return(t, inner[KeyOf(t)])
       \/ /\ ~Matches(KeyOf(t), req[t].model)
          /\ Stay(t, "lockmap")
    /\ UNCHANGED <<mapVars, created, janVars, clock>>

(* locks.entry(key).or_insert_with(..).clone() *)
GetLock(t) ==
    /\ pc[t] = "lockmap"
    /\ \/ /\ locks[KeyOf(t)] # NoLock
          /\ mutex' = [mutex EXCEPT ![t] = locks[KeyOf(t)]]
          /\ UNCHANGED locks
       \/ /\ locks[KeyOf(t)] = NoLock
          /\ \E l \in LockIds : ~Alive(l)
          /\ mutex' = [mutex EXCEPT ![t] = NewLock]
          /\ locks' = [locks EXCEPT ![KeyOf(t)] = NewLock]
    /\ Go(t, "acquire")
    /\ UNCHANGED <<inner, created, req, got, victim, limited, janVars, clock>>

(* lock.lock().await *)
Acquire(t) ==
    /\ pc[t] = "acquire"
    /\ ~Held(mutex[t])
    /\ Stay(t, "recheck")
    /\ UNCHANGED <<mapVars, created, janVars, clock>>

(* The second look, under the guard. *)
Recheck(t) ==
    /\ pc[t] = "recheck"
    /\ \/ /\ Matches(KeyOf(t), req[t].model)
          /\ Return(t, inner[KeyOf(t)])
       \/ /\ inner[KeyOf(t)] # NoBinding
          /\ ~Matches(KeyOf(t), req[t].model)
          /\ Stay(t, "drop")
       \/ /\ inner[KeyOf(t)] = NoBinding
          /\ Stay(t, "cap")
    /\ UNCHANGED <<mapVars, created, janVars, clock>>

(* The binding is of another model: remove_inner(key). *)
DropOtherModel(t) ==
    /\ pc[t] = "drop"
    /\ inner' = [inner EXCEPT ![KeyOf(t)] = NoBinding]
    /\ Stay(t, "cap")
    /\ UNCHANGED <<locks, created, janVars, clock>>

(* len() >= MAX_SESSIONS *)
CheckCap(t) ==
    /\ pc[t] = "cap"
    /\ \/ Cardinality(Bound) >= MaxSessions /\ Stay(t, "victim")
       \/ Cardinality(Bound) < MaxSessions /\ Stay(t, "create")
    /\ UNCHANGED <<mapVars, created, janVars, clock>>

(* The keys stale(0) may put first: least last_active, ties in any order. *)
Oldest == {k \in Bound : \A j \in Bound : inner[k].last <= inner[j].last}

(* stale(0): a snapshot; the map is unlocked again when it returns. *)
ChooseVictim(t) ==
    /\ pc[t] = "victim"
    /\ \/ /\ \E k \in Oldest : victim' = [victim EXCEPT ![t] = k]
          /\ Go(t, "evict")
       \/ /\ Bound = {}
          /\ Go(t, "create")
          /\ UNCHANGED victim
    /\ UNCHANGED <<mapVars, created, req, mutex, got, limited, janVars, clock>>

(* remove_inner(old_key) *)
Evict(t) ==
    /\ pc[t] = "evict"
    /\ inner' = [inner EXCEPT ![victim[t]] = NoBinding]
    /\ victim' = [victim EXCEPT ![t] = NoKey]
    /\ Go(t, "create")
    /\ UNCHANGED <<locks, created, req, mutex, got, limited, janVars, clock>>

(* client.create_session(..)? returned an id. *)
Create(t) ==
    /\ pc[t] = "create"
    /\ Len(created) < MaxCreates
    /\ created' = Append(created, req[t])
    /\ got' = [got EXCEPT ![t] = [id |-> Len(created) + 1,
                                  model |-> req[t].model, last |-> clock]]
    /\ Go(t, "insert")
    /\ UNCHANGED <<mapVars, req, mutex, victim, limited, janVars, clock>>

(* Mutant of CreateFail: try again for ever. *)
CreateFailRetried(t) ==
    /\ pc[t] = "create"
    /\ Stay(t, "create")
    /\ UNCHANGED <<mapVars, created, janVars, clock>>

(* create_session failed or timed out.  A session the upstream made all the *)
(* same has an id nobody here learns.  The handler answers the error.       *)
CreateFail(t) ==
    /\ pc[t] = "create"
    /\ Leave(t)
    /\ UNCHANGED <<mapVars, created, janVars, clock>>

(* self.insert(key, binding); the guard is dropped when ensure returns. *)
Insert(t) ==
    /\ pc[t] = "insert"
    /\ inner' = [inner EXCEPT ![KeyOf(t)] = got[t]]
    /\ Return(t, got[t])
    /\ UNCHANGED <<locks, created, janVars, clock>>

-------------------------------------------------------------------------------
(* The handler, once it has a session. *)

StreamOk(t) ==
    /\ pc[t] = "stream"
    /\ Stay(t, "touch")
    /\ UNCHANGED <<mapVars, created, janVars, clock>>

(* 429 and not yet retried: replace the session and stream again. *)
StreamLimited(t) ==
    /\ RateLimits
    /\ pc[t] = "stream"
    /\ limited[t] = 0
    /\ limited' = [limited EXCEPT ![t] = got[t].id]
    /\ got' = [got EXCEPT ![t] = NoBinding]
    /\ Go(t, "remove")
    /\ UNCHANGED <<mapVars, created, req, mutex, victim, janVars, clock>>

(* Any other error, a second 429 included. *)
StreamFail(t) ==
    /\ pc[t] = "stream"
    /\ Leave(t)
    /\ UNCHANGED <<mapVars, created, janVars, clock>>

(* Mutant of Touch: insert the request's own binding when the entry is gone. *)
TouchUpserts(t) ==
    /\ pc[t] = "touch"
    /\ \/ /\ inner[KeyOf(t)] # NoBinding
          /\ inner' = [inner EXCEPT ![KeyOf(t)].last = clock]
       \/ /\ inner[KeyOf(t)] = NoBinding
          /\ inner' = [inner EXCEPT ![KeyOf(t)] = got[t]]
    /\ Leave(t)
    /\ UNCHANGED <<locks, created, janVars, clock>>

(* touch(key): by key, whatever is bound to it now. *)
Touch(t) ==
    /\ pc[t] = "touch"
    /\ \/ /\ inner[KeyOf(t)] # NoBinding
          /\ inner' = [inner EXCEPT ![KeyOf(t)].last = clock]
       \/ /\ inner[KeyOf(t)] = NoBinding
          /\ UNCHANGED inner
    /\ Leave(t)
    /\ UNCHANGED <<locks, created, janVars, clock>>

(* Mutant of RemoveBinding: the rate-limited session stays in the map. *)
RemoveBindingSkipped(t) ==
    /\ pc[t] = "remove"
    /\ Stay(t, "unmap")
    /\ UNCHANGED <<mapVars, created, janVars, clock>>

(* sessions.remove(key), first half: the binding. *)
RemoveBinding(t) ==
    /\ pc[t] = "remove"
    /\ inner' = [inner EXCEPT ![KeyOf(t)] = NoBinding]
    /\ Stay(t, "unmap")
    /\ UNCHANGED <<locks, created, janVars, clock>>

(* ... second half: the lock entry; then ensure is called again. *)
RemoveLock(t) ==
    /\ pc[t] = "unmap"
    /\ locks' = [locks EXCEPT ![KeyOf(t)] = NoLock]
    /\ Stay(t, "lookup")
    /\ UNCHANGED <<inner, created, janVars, clock>>

(* The client goes away: the handler's future is dropped where it waits. *)
Disconnect(t) ==
    /\ pc[t] # "idle"
    /\ Leave(t)
    /\ UNCHANGED <<mapVars, created, janVars, clock>>

-------------------------------------------------------------------------------
(* The janitor: every ten minutes a snapshot, then one remove per key. *)

(* Mutant of IdleKeys: num_days for num_hours. *)
IdleKeysInDays(h) == {k \in Bound : (clock - inner[k].last) \div 24 > h}

IdleKeys(h) == {k \in Bound : clock - inner[k].last > h}

JanitorScan ==
    /\ running
    /\ stale = {} /\ unmap = NoKey
    /\ IdleKeys(IdleHours) # {}
    /\ stale' = IdleKeys(IdleHours)
    /\ UNCHANGED <<mapVars, created, taskVars, unmap, running, clock>>

JanitorRemove(k) ==
    /\ unmap = NoKey
    /\ k \in stale \ SplitKeys
    /\ stale' = stale \ {k}
    /\ inner' = [inner EXCEPT ![k] = NoBinding]
    /\ unmap' = k
    /\ UNCHANGED <<locks, created, taskVars, running, clock>>

JanitorUnmap ==
    /\ unmap # NoKey
    /\ locks' = [locks EXCEPT ![unmap] = NoLock]
    /\ unmap' = NoKey
    /\ UNCHANGED <<inner, created, taskVars, stale, running, clock>>

(* The log line slices the key at byte 16, &key[..16], which panics inside a *)
(* character and ends the janitor's task.                                    *)
JanitorPanic ==
    /\ unmap = NoKey
    /\ stale \cap SplitKeys # {}
    /\ stale' = {}
    /\ running' = FALSE
    /\ UNCHANGED <<mapVars, created, taskVars, unmap, clock>>

Tick ==
    /\ clock < MaxClock
    /\ clock' = clock + 1
    /\ UNCHANGED <<mapVars, created, taskVars, janVars>>

-------------------------------------------------------------------------------
(* What a task does by itself once it has arrived, other than waiting. *)
Work(t) ==
    \/ Lookup(t) \/ GetLock(t)
    \/ Recheck(t) \/ DropOtherModel(t) \/ CheckCap(t) \/ ChooseVictim(t) \/ Evict(t)
    \/ Create(t) \/ CreateFail(t) \/ Insert(t)
    \/ StreamOk(t) \/ StreamLimited(t) \/ StreamFail(t) \/ Touch(t)
    \/ RemoveBinding(t) \/ RemoveLock(t)

Janitor ==
    \/ JanitorScan \/ JanitorUnmap \/ JanitorPanic
    \/ \E k \in Keys : JanitorRemove(k)

Next ==
    \/ \E t \in Tasks : Arrive(t) \/ Work(t) \/ Acquire(t) \/ Disconnect(t)
    \/ Janitor
    \/ Tick

Spec == Init /\ [][Next]_vars

(* Every await inside a request ends: the locks of the map are held for a   *)
(* few statements, the upstream client has a connect and a read timeout.    *)
(* tokio's Mutex is first come, first served: a task that finds the object  *)
(* free again and again gets it (SF).  Nothing makes requests arrive, the   *)
(* client disconnect or hours pass.                                         *)
Fairness ==
    /\ \A t \in Tasks : WF_vars(Work(t)) /\ SF_vars(Acquire(t))
    /\ WF_vars(Janitor)

LiveSpec == Spec /\ Fairness

-------------------------------------------------------------------------------
(* Properties. *)

(* Types, and what each place in ensure implies about the task's own state:  *)
(* a mutex object is referred to from the lock-map step until ensure ends    *)
(* and not longer, a victim is chosen only between its two steps.            *)
TypeOK ==
    /\ inner \in [Keys -> Binding \cup {NoBinding}]
    /\ locks \in [Keys -> LockIds \cup {NoLock}]
    /\ created \in Seq(Request)
    /\ pc \in [Tasks -> Labels]
    /\ req \in [Tasks -> Request]
    /\ mutex \in [Tasks -> LockIds \cup {NoLock}]
    /\ got \in [Tasks -> Binding \cup {NoBinding}]
    /\ victim \in [Tasks -> Keys \cup {NoKey}]
    /\ limited \in [Tasks -> Nat]
    /\ stale \subseteq Keys
    /\ unmap \in Keys \cup {NoKey}
    /\ running \in BOOLEAN
    /\ clock \in 0..MaxClock
    /\ \A t \in Tasks :
        /\ (mutex[t] # NoLock) <=> (pc[t] \in Waiting \cup Critical)
        /\ (got[t] # NoBinding) <=> (pc[t] \in Served \cup {"insert"})
        /\ (victim[t] # NoKey) <=> (pc[t] = "evict")
        /\ pc[t] = "idle" => limited[t] = 0

(* A thread's messages never reach another thread's upstream session, and a  *)
(* request never streams on a session of another model, whatever the order   *)
(* of lookups, replacements, evictions and clean-ups (session.rs ensure).    *)
MadeFor(b, k, m) ==
    /\ b.id \in DOMAIN created
    /\ created[b.id] = [key |-> k, model |-> m]
    /\ b.model = m

ThreadIsolation ==
    /\ \A k \in Bound : MadeFor(inner[k], k, inner[k].model)
    /\ \A t \in Tasks :
        got[t] # NoBinding => MadeFor(got[t], KeyOf(t), req[t].model)

(* A session about to be inserted is bound nowhere, and no other task has it *)
(* in hand: every upstream session enters the map at most once.              *)
BoundOnce ==
    \A t \in Tasks : pc[t] = "insert" =>
        /\ \A k \in Bound : inner[k].id # got[t].id
        /\ \A u \in Tasks \ {t} : got[u] # NoBinding => got[u].id # got[t].id

(* Once its binding is removed, the session a task saw rate-limited is not   *)
(* bound, not in the task's hands and in no other task's to insert: the      *)
(* second attempt is never made on it (api.rs: switch to a new session and   *)
(* retry once).                                                              *)
LimitedSessionGone ==
    \A t \in Tasks : limited[t] # 0 =>
        /\ limited[t] \in DOMAIN created
        /\ created[limited[t]].key = KeyOf(t)
        /\ \A u \in Tasks : pc[u] = "insert" => got[u].id # limited[t]
        /\ got[t] # NoBinding => got[t].id # limited[t]
        /\ pc[t] # "remove" => \A k \in Bound : inner[k].id # limited[t]

(* The per-key mutex: at most one task at a time creates a session for a key *)
(* (session.rs:74, "only one create_session, the others wait and reuse").    *)
OneCreator ==
    \A t, u \in Tasks :
        t # u /\ {pc[t], pc[u]} \subseteq {"create", "insert"}
            => KeyOf(t) # KeyOf(u)

(* From the second look to the insert the key stays unbound, so a session    *)
(* is created only for a key that has none and insert overwrites nothing.    *)
InsertOverwritesNothing ==
    \A t \in Tasks :
        pc[t] \in {"cap", "victim", "evict", "create", "insert"}
            => inner[KeyOf(t)] = NoBinding

(* Every request that calls ensure ends: nobody waits for ever for a mutex   *)
(* object, however often lock entries are removed and made again.            *)
RequestsEnd == \A t \in Tasks : pc[t] # "idle" ~> pc[t] = "idle"

(* A session idle for more than IdleHours is removed or used again.          *)
Overdue(k) == inner[k] # NoBinding /\ clock - inner[k].last > IdleHours
IdleSessionsRemoved == \A k \in Keys : Overdue(k) ~> ~Overdue(k)

(* The map keeps the promise of SessionOwnership. *)
Ownership == INSTANCE SessionOwnership WITH
    opened <- created,
    fresh  <- {got[t].id : t \in {u \in Tasks : pc[u] = "insert"}},
    bound  <- [k \in Keys |-> IF inner[k] = NoBinding THEN 0 ELSE inner[k].id]

(* The detailed map implements SessionOwnership: a session is bound once, to *)
(* the thread it was made for, and never again after it is removed.          *)
ImplementsOwnership == Ownership!Spec
===============================================================================
