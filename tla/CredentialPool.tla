---------------------------- MODULE CredentialPool ----------------------------
(***************************************************************************)
(* The states of the credential pool of web_pool.rs: health, failures,     *)
(* cooldown and last use, and the tasks that use it: requests that pick a  *)
(* credential and record how it went, the checks and refreshes that record *)
(* on a credential they name, and the deletion of credentials.  Every lock *)
(* of the pool is taken once per action.                                   *)
(*                                                                         *)
(* Health starts at 1 and is multiplied by 0.6, 0.9 or 0.95 per failure    *)
(* since the last success, so the failures of each kind determine it.      *)
(***************************************************************************)
EXTENDS Integers, Sequences, SequencesExt

CONSTANTS
    Ids,          \* credential ids (UUIDs: never used twice)
    Tasks,        \* concurrent users of the pool
    AuthStep,     \* cooldown per consecutive failure after a 401 or 403 (600 s)
    AuthCap,      \* ... at most (3600 s)
    LimitStep,    \* cooldown per consecutive failure after a 429 (30 s)
    LimitCap,     \* ... at most (180 s)
    MaxFactor,    \* failures counted in a cooldown (6)
    MaxFailures,  \* bound: consecutive failures of a credential
    MaxNow,       \* bound: the clock stops here
    NoCred

ASSUME PoolAssumption ==
    /\ {AuthStep, AuthCap, LimitStep, LimitCap, MaxFactor} \subseteq Nat \ {0}
    /\ MaxFailures \in Nat \ {0}
    /\ MaxNow \in Nat
    /\ NoCred \notin Ids
    /\ 100 ^ MaxFailures >= 1000  \* fine enough to show the tolerance of pick

VARIABLES
    creds,       \* the stored credentials, in order
    unused,      \* ids no credential ever had
    states,      \* the state of each id; an id without an entry has Default
    forgetting,  \* the deleted ids whose states are not removed yet
    pc, cred,    \* where each task is, and the credential it uses
    retryAt,     \* when the last refused client was told to come back
    now,
    fresh        \* refused tasks since whose pick no time has passed, nothing
                 \* was imported and no success was recorded

vars == <<creds, unused, states, forgetting, pc, cred, retryAt, now, fresh>>

Kinds   == {"auth", "limit", "other"}
Never   == -1   \* last_used of a credential never used
Warm    == 0    \* cooling_until of a credential not cooling
NoRetry == -1   \* nobody was told, or a failure came after it
Default == [auth |-> 0, limit |-> 0, other |-> 0, until |-> Warm, last |-> Never]

One == 100 ^ MaxFailures
Choice == INSTANCE Selection

Failures(st) == st.auth + st.limit + st.other
Health(st) ==
    60 ^ st.auth * 90 ^ st.limit * 95 ^ st.other * 100 ^ (MaxFailures - Failures(st))
Cooling(st) == st.until > now

Stored    == {creds[i] : i \in DOMAIN creds}
Candidate(c) ==
    [score |-> Health(states[c]), last |-> states[c].last, cooling |-> Cooling(states[c])]
Candidates == [i \in DOMAIN creds |-> Candidate(creds[i])]
Chosen     == Choice!Pick(Candidates)

Go(t, label) == pc' = [pc EXCEPT ![t] = label]
Release(t)   == Go(t, "idle") /\ cred' = [cred EXCEPT ![t] = NoCred]
Stale        == fresh' = {}
Answered(t)  == Release(t) /\ fresh' = fresh \ {t}

Init ==
    /\ creds = <<>>
    /\ unused = Ids
    /\ states = [c \in Ids |-> Default]
    /\ forgetting = {}
    /\ pc = [t \in Tasks |-> "idle"]
    /\ cred = [t \in Tasks |-> NoCred]
    /\ retryAt = NoRetry
    /\ now = 0
    /\ fresh = {}

(* add_raw, of a cookie that is new. *)
Add(c) ==
    /\ c \in unused
    /\ unused' = unused \ {c}
    /\ creds' = Append(creds, c)
    /\ Stale
    /\ UNCHANGED <<states, forgetting, pc, cred, retryAt, now>>

(* delete: first the credential, *)
Delete(c) ==
    /\ \E i \in DOMAIN creds : creds[i] = c /\ creds' = RemoveAt(creds, i)
    /\ forgetting' = forgetting \cup {c}
    /\ UNCHANGED <<unused, states, pc, cred, retryAt, now, fresh>>

(* ... then its state.  When the client is gone before the handler has the   *)
(* lock this never happens: nothing obliges it to.                           *)
Forget(c) ==
    /\ c \in forgetting
    /\ states' = [states EXCEPT ![c] = Default]
    /\ forgetting' = forgetting \ {c}
    /\ UNCHANGED <<creds, unused, pc, cred, retryAt, now, fresh>>

(* A request: pool.pick(None) *)
PickOne(t) ==
    /\ pc[t] = "idle"
    /\ Go(t, "using")
    /\ Chosen # Choice!NoOne
    /\ cred' = [cred EXCEPT ![t] = creds[Chosen]]
    /\ UNCHANGED <<creds, unused, states, forgetting, retryAt, now, fresh>>

PickNone(t) ==
    /\ pc[t] = "idle"
    /\ Chosen = Choice!NoOne
    /\ Go(t, "refused")
    /\ fresh' = fresh \cup {t}
    /\ UNCHANGED <<creds, unused, states, forgetting, cred, retryAt, now>>

(* cooling_until_max: over the states, whatever credentials are stored. *)
Waits == {states[c].until - now : c \in {d \in Ids : Cooling(states[d])}}

(* Mutant of MaxWait: the soonest end of a cooldown. *)
MinWait == CHOOSE w \in Waits \cup {0} :
    Waits # {} => w \in Waits /\ \A v \in Waits : w <= v

MaxWait == CHOOSE w \in Waits \cup {0} : \A v \in Waits : v <= w

(* Nothing was picked: 429 with Retry-After, *)
Answer429(t) ==
    /\ pc[t] = "refused"
    /\ MaxWait > 0
    /\ retryAt' = now + MaxWait
    /\ Answered(t)
    /\ UNCHANGED <<creds, unused, states, forgetting, now>>

(* ... or 401, "no credential imported". *)
Answer401(t) ==
    /\ pc[t] = "refused"
    /\ MaxWait = 0
    /\ Answered(t)
    /\ UNCHANGED <<creds, unused, states, forgetting, retryAt, now>>

(* tokens_check, login and refresh_creds name a stored credential. *)
UseNamed(t, c) ==
    /\ pc[t] = "idle"
    /\ c \in Stored
    /\ cred' = [cred EXCEPT ![t] = c]
    /\ Go(t, "checking")
    /\ UNCHANGED <<creds, unused, states, forgetting, retryAt, now, fresh>>

(* record_success: after a stream, a check, a login or a refresh *)
Success(t) ==
    /\ pc[t] \in {"using", "checking"}
    /\ states' = [states EXCEPT ![cred[t]] = [Default EXCEPT !.last = now]]
    /\ Release(t)
    /\ Stale
    /\ UNCHANGED <<creds, unused, forgetting, retryAt, now>>

AtMost(a, b) == IF a < b THEN a ELSE b

(* The cooldown of the n-th consecutive failure. *)
Cooldown(kind, n) ==
    CASE kind = "auth"  -> AtMost(AuthStep * AtMost(n, MaxFactor), AuthCap)
      [] kind = "limit" -> AtMost(LimitStep * AtMost(n, MaxFactor), LimitCap)
      [] kind = "other" -> 0

(* Mutant of Failed: a failure without a cooldown ends the one that is running. *)
FailedEndsCooldown(st, kind) ==
    LET wait == Cooldown(kind, Failures(st) + 1)
    IN  [st EXCEPT ![kind] = @ + 1,
                   !.last = now,
                   !.until = IF wait > 0 THEN now + wait ELSE Warm]

(* Mutant of Failed: the cooldown is added to the one that is running. *)
FailedAccumulates(st, kind) ==
    LET wait == Cooldown(kind, Failures(st) + 1)
    IN  [st EXCEPT ![kind] = @ + 1,
                   !.last = now,
                   !.until = IF @ > now THEN @ + wait
                             ELSE IF wait > 0 THEN now + wait ELSE @]

Failed(st, kind) ==
    LET wait == Cooldown(kind, Failures(st) + 1)
    IN  [st EXCEPT ![kind] = @ + 1,
                   !.last = now,
                   !.until = IF wait > 0 THEN now + wait ELSE @]

(* record_failure: 401 or 403, 429, anything else; a check that fails for     *)
(* whatever reason is recorded as a 401.                                     *)
Failure(t, kind) ==
    /\ pc[t] = "using" \/ (pc[t] = "checking" /\ kind = "auth")
    /\ Failures(states[cred[t]]) < MaxFailures
    /\ states' = [states EXCEPT ![cred[t]] = Failed(@, kind)]
    /\ retryAt' = NoRetry
    /\ Release(t)
    /\ UNCHANGED <<creds, unused, forgetting, now, fresh>>

(* The requests of the panel (free tier, quotas, a session, an upload) record *)
(* nothing on the credential they picked, nor does a refresh that failed or a *)
(* chat message the gateway itself refuses.                                  *)
Finish(t) ==
    /\ pc[t] \in {"using", "checking"}
    /\ Release(t)
    /\ UNCHANGED <<creds, unused, states, forgetting, retryAt, now, fresh>>

(* The client goes away: nothing is recorded. *)
Disconnect(t) ==
    /\ pc[t] # "idle"
    /\ Answered(t)
    /\ UNCHANGED <<creds, unused, states, forgetting, retryAt, now>>

Tick ==
    /\ now < MaxNow
    /\ now' = now + 1
    /\ Stale
    /\ UNCHANGED <<creds, unused, states, forgetting, pc, cred, retryAt>>

Next ==
    \/ \E c \in Ids : Add(c) \/ Delete(c) \/ Forget(c)
    \/ \E t \in Tasks :
        \/ PickOne(t) \/ PickNone(t) \/ Answer429(t) \/ Answer401(t)
        \/ \E c \in Ids : UseNamed(t, c)
        \/ Success(t) \/ Finish(t) \/ Disconnect(t)
        \/ \E kind \in Kinds : Failure(t, kind)
    \/ Tick

Spec == Init /\ [][Next]_vars

-------------------------------------------------------------------------------
(* Properties. *)

(* Types; a task has a credential exactly while it uses one, a stored id was  *)
(* taken, and what is left of a cooldown never exceeds what the failures      *)
(* since the last success account for.                                       *)
TypeOK ==
    /\ creds \in Seq(Ids)
    /\ unused \subseteq Ids
    /\ Stored \cap unused = {}
    /\ \A c \in Ids :
        /\ Failures(states[c]) \in 0..MaxFailures
        /\ states[c].until \in Nat
        /\ \E kind \in Kinds :
              states[c].until <= now + Cooldown(kind, Failures(states[c]))
        /\ states[c].last \in {Never} \cup 0..now
    /\ forgetting \subseteq Ids
    /\ \A t \in Tasks :
        /\ pc[t] \in {"idle", "using", "checking", "refused"}
        /\ (cred[t] # NoCred) <=> (pc[t] \in {"using", "checking"})
        /\ cred[t] \in Ids \cup {NoCred}
    /\ retryAt \in {NoRetry} \cup Nat
    /\ now \in 0..MaxNow
    /\ fresh \subseteq {t \in Tasks : pc[t] = "refused"}

Usable == {c \in Stored : ~Cooling(states[c])}

(* The pool keeps what PoolPromise says, whatever is imported, deleted and     *)
(* recorded meanwhile: low health alone never leaves the gateway without a    *)
(* credential (web_pool.rs, the fallback pool), no cooling one is given out,  *)
(* and nobody's record cools a credential but the one used.                   *)
Promise == INSTANCE PoolPromise WITH
    stored  <- Stored,
    cooling <- {c \in Ids : Cooling(states[c])},
    picked  <- [t \in Tasks |-> IF pc[t] = "using" THEN cred[t] ELSE NoCred],
    named   <- [t \in Tasks |-> IF pc[t] = "checking" THEN cred[t] ELSE NoCred],
    refused <- {t \in Tasks : pc[t] = "refused"}

ImplementsPromise == Promise!Spec

(* Of two usable credentials of the same health the one used longer ago is    *)
(* picked (README, weighted rotation), unless another differs from them in    *)
(* health by no more than the tolerance, which is not transitive.            *)
TakesTurns ==
    [][\A t \in Tasks : PickOne(t) =>
          LET c == cred'[t]
              close == {d \in Usable : Choice!Near(Candidate(c), Candidate(d))}
          IN  (\A d \in close : Health(states[d]) = Health(states[c])) =>
                 \A d \in close : states[c].last <= states[d].last]_vars

(* A client refused because every credential cools is told to come back, not  *)
(* that none is imported, whatever is deleted and whatever failures requests  *)
(* still under way record between its pick and its answer: none of them ends  *)
(* a cooldown (README:226).  The answer looks at the states again (api.rs), so *)
(* this is said of an answer in the second of the pick, with no import and no *)
(* success recorded in between; after one of those the client may be told     *)
(* that none is imported although one is, and usable.                         *)
CoolingIsTold ==
    [][\A t \in fresh : Answer401(t) => creds = <<>>]_vars

(* A client that comes back when Retry-After said finds a credential, unless  *)
(* one failed again meanwhile or all were deleted.                           *)
RetryAfterSuffices ==
    retryAt # NoRetry /\ now >= retryAt => creds = <<>> \/ Usable # {}

===============================================================================
