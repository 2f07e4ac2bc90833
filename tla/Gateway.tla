-------------------------------- MODULE Gateway --------------------------------
(***************************************************************************)
(* A request through the gateway: the three handlers of api.rs (chat,      *)
(* responses, claude), which take the same steps, with the tiered          *)
(* semaphore they wait for, the credentials they pick and record on, and   *)
(* the upstream calls they make.  SessionMap and CredentialPool have the   *)
(* details of a session and of a credential; here a session is got or not, *)
(* and a credential is cooling or not.                                     *)
(*                                                                         *)
(* What a request asks for besides its tier is drawn where a handler first *)
(* looks at it.  tokio's semaphore is external: first come, first served,  *)
(* a permit given back goes to the first in the queue.                     *)
(***************************************************************************)
EXTENDS Integers, Sequences, FiniteSets, SequencesExt

CONSTANTS
    Tasks,  \* requests
    Creds,  \* the stored credentials
    Slots,  \* concurrency_free_slots and concurrency_sub_slots, by tier
    NoCred

Tiers == {"free", "sub"}

ASSUME GatewayAssumption ==
    /\ Slots \in [Tiers -> Nat]
    /\ NoCred \notin Creds

VARIABLES
    free,     \* permits to take
    queue,    \* requests in wait for a permit
    permits,  \* requests that have one, given to them or taken
    cooling,  \* credentials in their cooldown
    pc,
    tier,     \* model.contains(":free")
    cred,     \* cred
    retried,  \* retried_429
    calls,    \* how often the upstream was asked to stream
    records,  \* what was recorded on the credential
    told      \* the status the client was answered

bucket  == <<free, queue, permits>>
request == <<tier, cred, retried, calls, records>>
vars    == <<bucket, cooling, pc, request, told>>

Go(t, label) == pc' = [pc EXCEPT ![t] = label]

(* TieredSemaphore::new: slots.max(1) *)
Capacity == [s \in Tiers |-> IF Slots[s] = 0 THEN 1 ELSE Slots[s]]

Init ==
    /\ free = Capacity
    /\ queue = [s \in Tiers |-> <<>>]
    /\ permits = {}
    /\ cooling = {}
    /\ pc = [t \in Tasks |-> "idle"]
    /\ tier \in [Tasks -> Tiers]
    /\ cred = [t \in Tasks |-> NoCred]
    /\ retried = [t \in Tasks |-> FALSE]
    /\ calls = [t \in Tasks |-> 0]
    /\ records = [t \in Tasks |-> <<>>]
    /\ told = [t \in Tasks |-> 0]

-------------------------------------------------------------------------------
(* The semaphore. *)

(* acquire_owned: a permit, or a place in the queue. *)
TakeOrQueue(t) ==
    \/ /\ free[tier[t]] > 0
       /\ free' = [free EXCEPT ![tier[t]] = @ - 1]
       /\ permits' = permits \cup {t}
       /\ UNCHANGED queue
    \/ /\ free[tier[t]] = 0
       /\ queue' = [queue EXCEPT ![tier[t]] = Append(@, t)]
       /\ UNCHANGED <<free, permits>>

(* Mutant of GiveBack: the last in the queue comes first. *)
GiveBackToLast(t) ==
    LET waiting == queue[tier[t]] IN
    /\ t \in permits
    /\ \/ /\ waiting = <<>>
          /\ free' = [free EXCEPT ![tier[t]] = @ + 1]
          /\ permits' = permits \ {t}
          /\ UNCHANGED queue
       \/ /\ waiting # <<>>
          /\ permits' = (permits \ {t}) \cup {Last(waiting)}
          /\ queue' = [queue EXCEPT ![tier[t]] = Front(@)]
          /\ UNCHANGED free

(* The permit is dropped. *)
GiveBack(t) ==
    LET waiting == queue[tier[t]] IN
    /\ t \in permits
    /\ \/ /\ waiting = <<>>
          /\ free' = [free EXCEPT ![tier[t]] = @ + 1]
          /\ permits' = permits \ {t}
          /\ UNCHANGED queue
       \/ /\ waiting # <<>>
          /\ permits' = (permits \ {t}) \cup {Head(waiting)}
          /\ queue' = [queue EXCEPT ![tier[t]] = Tail(@)]
          /\ UNCHANGED free

(* acquire_owned is dropped: the place in the queue goes. *)
LeaveQueue(t) ==
    /\ t \notin permits
    /\ \/ /\ t \notin ToSet(queue[tier[t]])
          /\ UNCHANGED queue
       \/ \E i \in DOMAIN queue[tier[t]] :
            /\ queue[tier[t]][i] = t
            /\ queue' = [queue EXCEPT ![tier[t]] = RemoveAt(@, i)]
    /\ UNCHANGED <<free, permits>>

-------------------------------------------------------------------------------
(* The credential pool. *)

(* What a record makes of the cooldown: 401 and 429 begin one. *)
Record(t, what) ==
    /\ records' = [records EXCEPT ![t] = Append(@, what)]
    /\ cooling' = CASE what = "success"      -> cooling \ {cred[t]}
                    [] what \in {"401", "429"} -> cooling \cup {cred[t]}
                    [] what = "502"          -> cooling

(* A cooldown ends. *)
CoolEnd(c) ==
    /\ c \in cooling
    /\ cooling' = cooling \ {c}
    /\ UNCHANGED <<bucket, pc, request, told>>

-------------------------------------------------------------------------------
(* The handler. *)

Arrive(t) ==
    /\ pc[t] = "idle"
    /\ \E s \in Tiers : tier' = [tier EXCEPT ![t] = s]
    /\ Go(t, "picking")
    /\ retried' = [retried EXCEPT ![t] = FALSE]
    /\ calls' = [calls EXCEPT ![t] = 0]
    /\ records' = [records EXCEPT ![t] = <<>>]
    /\ told' = [told EXCEPT ![t] = 0]
    /\ UNCHANGED <<bucket, cooling, cred>>

(* Mutant of Pick: a cooling credential is used again. *)
PickAny(t) ==
    /\ pc[t] = "picking"
    /\ \E c \in Creds : cred' = [cred EXCEPT ![t] = c]
    /\ Go(t, "acquire")
    /\ UNCHANGED <<bucket, cooling, tier, retried, calls, records, told>>

Pick(t) ==
    /\ pc[t] = "picking"
    /\ \E c \in Creds \ cooling : cred' = [cred EXCEPT ![t] = c]
    /\ Go(t, "acquire")
    /\ UNCHANGED <<bucket, cooling, tier, retried, calls, records, told>>

(* Nothing to pick; the cooldowns are read again for the answer. *)
PickNone(t) ==
    /\ pc[t] = "picking"
    /\ Creds \subseteq cooling
    /\ Go(t, "refused")
    /\ UNCHANGED <<bucket, cooling, request, told>>

(* The handler returns without a permit. *)
Refuse(t) ==
    /\ pc[t] = "refused"
    /\ told' = [told EXCEPT ![t] = IF cooling # {} THEN 429 ELSE 401]
    /\ Go(t, "idle")
    /\ UNCHANGED <<bucket, cooling, request>>

(* state.semaphore.acquire(is_free, false).await *)
Acquire(t) ==
    /\ pc[t] = "acquire"
    /\ TakeOrQueue(t)
    /\ Go(t, "queued")
    /\ UNCHANGED <<cooling, request, told>>

(* Mutant of Admit: a queued request goes on without a permit. *)
AdmitAtOnce(t) ==
    /\ pc[t] = "queued"
    /\ Go(t, "check")
    /\ UNCHANGED <<bucket, cooling, request, told>>

(* The permit has come. *)
Admit(t) ==
    /\ pc[t] = "queued"
    /\ t \in permits
    /\ Go(t, "check")
    /\ UNCHANGED <<bucket, cooling, request, told>>

(* The handler returns with an answer and drops its permit. *)
Answer(t, status) ==
    /\ told' = [told EXCEPT ![t] = status]
    /\ GiveBack(t)
    /\ Go(t, "idle")
    /\ cred' = [cred EXCEPT ![t] = NoCred]

(* A message is too long for the model, is text, or files only, or nothing. *)
Contents == {"too long", "text", "files", "nothing"}
Apis     == {"chat", "responses", "claude"}
Admits(api, content) ==
    \/ content = "text"
    \/ content = "files" /\ api # "claude"

Check(t) ==
    /\ pc[t] = "check"
    /\ \E api \in Apis, content \in Contents :
        \/ /\ Admits(api, content)
           /\ Go(t, "ensure")
           /\ UNCHANGED <<bucket, request, told>>
        \/ /\ ~Admits(api, content)
           /\ Answer(t, 400)
           /\ UNCHANGED <<tier, retried, calls, records>>
    /\ UNCHANGED cooling

(* sessions.ensure found or made a session: the upstream is asked to stream. *)
Ensured(t) ==
    /\ pc[t] = "ensure"
    /\ Go(t, "call")
    /\ calls' = [calls EXCEPT ![t] = @ + 1]
    /\ UNCHANGED <<bucket, cooling, tier, cred, retried, records, told>>

(* The first ensure failed: recorded as a 401, answered as a 502. *)
EnsureFails(t) ==
    /\ pc[t] = "ensure" /\ ~retried[t]
    /\ Record(t, "401")
    /\ Answer(t, 502)
    /\ UNCHANGED <<tier, retried, calls>>

(* The second failed: "429 ..." is the text of its error, so it is a limit.   *)
EnsureFailsAgain(t) ==
    /\ pc[t] = "ensure" /\ retried[t]
    /\ Record(t, "429")
    /\ Answer(t, 429)
    /\ UNCHANGED <<tier, retried, calls>>

(* Mutant of Limited: the first limit is recorded on the credential too. *)
LimitedRecords(t) ==
    /\ pc[t] = "call"
    /\ \/ /\ ~retried[t]
          /\ retried' = [retried EXCEPT ![t] = TRUE]
          /\ Record(t, "429")
          /\ Go(t, "ensure")
          /\ UNCHANGED <<bucket, cred, told>>
       \/ /\ retried[t]
          /\ Record(t, "429")
          /\ Answer(t, 429)
          /\ UNCHANGED retried
    /\ UNCHANGED <<tier, calls>>

(* Mutant of Limited: retried_429 is never set. *)
LimitedForEver(t) ==
    /\ pc[t] = "call"
    /\ calls[t] < 3
    /\ Go(t, "ensure")
    /\ UNCHANGED <<bucket, cooling, request, told>>

(* The upstream limits the rate: another session once, then the answer 429.   *)
Limited(t) ==
    /\ pc[t] = "call"
    /\ \/ /\ ~retried[t]
          /\ retried' = [retried EXCEPT ![t] = TRUE]
          /\ Go(t, "ensure")
          /\ UNCHANGED <<bucket, cooling, cred, records, told>>
       \/ /\ retried[t]
          /\ Record(t, "429")
          /\ Answer(t, 429)
          /\ UNCHANGED retried
    /\ UNCHANGED <<tier, calls>>

(* The upstream fails otherwise. *)
Fails(t) ==
    /\ pc[t] = "call"
    /\ Record(t, "502")
    /\ Answer(t, 502)
    /\ UNCHANGED <<tier, retried, calls>>

(* Mutant of Opened: the permit of a streaming request is forgotten, so that  *)
(* its return does not end it, and the body never gives it back.             *)
OpenedForgetsPermit(t) ==
    /\ pc[t] = "call"
    /\ Record(t, "success")
    /\ \/ Go(t, "body") /\ permits' = permits \ {t} /\ UNCHANGED <<free, queue>>
       \/ Go(t, "collect") /\ UNCHANGED bucket
    /\ UNCHANGED <<tier, cred, retried, calls, told>>

(* The upstream streams.  A streaming handler returns here, with a body that  *)
(* will read the upstream; the other one reads it before it returns.         *)
Opened(t) ==
    /\ pc[t] = "call"
    /\ Record(t, "success")
    /\ \/ Go(t, "body") /\ GiveBack(t)
       \/ Go(t, "collect") /\ UNCHANGED bucket
    /\ UNCHANGED <<tier, cred, retried, calls, told>>

(* collect_nonstream_text came to its end. *)
Collected(t) ==
    /\ pc[t] = "collect"
    /\ Answer(t, 200)
    /\ UNCHANGED <<cooling, tier, retried, calls, records>>

(* The streamed body came to its end. *)
BodyEnds(t) ==
    /\ pc[t] = "body"
    /\ told' = [told EXCEPT ![t] = 200]
    /\ Go(t, "idle")
    /\ cred' = [cred EXCEPT ![t] = NoCred]
    /\ UNCHANGED <<bucket, cooling, tier, retried, calls, records>>

(* The client goes away, or the handler panics: its future is dropped.        *)
Disconnect(t) ==
    /\ pc[t] # "idle"
    /\ Go(t, "idle")
    /\ cred' = [cred EXCEPT ![t] = NoCred]
    /\ GiveBack(t) \/ LeaveQueue(t)
    /\ UNCHANGED <<cooling, tier, retried, calls, records, told>>

-------------------------------------------------------------------------------
(* What a handler does by itself. *)
Handle(t) ==
    \/ Pick(t) \/ PickNone(t) \/ Refuse(t) \/ Acquire(t) \/ Admit(t) \/ Check(t)
    \/ Ensured(t) \/ EnsureFails(t) \/ EnsureFailsAgain(t)
    \/ Limited(t) \/ Fails(t) \/ Opened(t) \/ Collected(t) \/ BodyEnds(t)

Next ==
    \/ \E t \in Tasks : Arrive(t) \/ Handle(t) \/ Disconnect(t)
    \/ \E c \in Creds : CoolEnd(c)

(* Every await of a handler but the one for a permit ends by itself: the      *)
(* upstream client has a connect and a read timeout, an answer has an end.   *)
Spec == Init /\ [][Next]_vars /\ \A t \in Tasks : WF_vars(Handle(t))

-------------------------------------------------------------------------------
(* Properties. *)

Inside == {"check", "ensure", "call", "collect"}  \* after the permit, before the answer
Open   == {"call", "body", "collect"}             \* the upstream streams, or is asked to

(* Types; a request has its credential from the pick to its end, and a permit *)
(* is held by a request in the handler or by one about to go on.             *)
TypeOK ==
    /\ free \in [Tiers -> Nat]
    /\ queue \in [Tiers -> Seq(Tasks)]
    /\ permits \subseteq Tasks
    /\ cooling \subseteq Creds
    /\ pc \in [Tasks -> {"idle", "picking", "refused", "acquire", "queued", "body"} \cup Inside]
    /\ tier \in [Tasks -> Tiers]
    /\ cred \in [Tasks -> Creds \cup {NoCred}]
    /\ retried \in [Tasks -> BOOLEAN]
    /\ calls \in [Tasks -> Nat]
    /\ records \in [Tasks -> Seq({"success", "401", "429", "502"})]
    /\ told \in [Tasks -> {0, 200, 400, 401, 429, 502}]
    /\ \A t \in Tasks :
        /\ (cred[t] = NoCred) <=> (pc[t] \in {"idle", "picking", "refused"})
        /\ t \in permits <=>
              pc[t] \in Inside \/ (pc[t] = "queued" /\ t \notin ToSet(queue[tier[t]]))

(* No permit is lost or made, whatever requests are dropped, in the queue, in *)
(* the handler or with a permit they were just given; and none is free while *)
(* a request waits for it (semaphore.rs).                                    *)
PermitsConserved ==
    \A s \in Tiers :
        /\ free[s] + Cardinality({t \in permits : tier[t] = s}) = Capacity[s]
        /\ free[s] > 0 => queue[s] = <<>>
        /\ \A t \in ToSet(queue[s]) : pc[t] = "queued" /\ tier[t] = s
        /\ IsInjective(queue[s])

(* What is recorded on the credential is what came of the request, and it is  *)
(* recorded once: a client told 200 used a credential that was a success, a  *)
(* client told 429 after a pick one that cools for it, and a message refused *)
(* by the gateway counts for nothing.                                        *)
RecordFor(status) ==
    CASE status = 200 -> {<<"success">>}
      [] status = 400 -> {<<>>}
      [] status = 401 -> {<<>>}
      [] status = 429 -> {<<>>, <<"429">>}
      [] status = 502 -> {<<"401">>, <<"502">>}

OneRecord ==
    \A t \in Tasks :
        /\ Len(records[t]) <= 1
        /\ told[t] # 0 => records[t] \in RecordFor(told[t])
        /\ told[t] = 429 => (records[t] = <<>> <=> calls[t] = 0)
        /\ pc[t] \in {"picking", "acquire", "queued"} \cup (Inside \ {"collect"})
              => records[t] = <<>>

(* The upstream is asked twice at most, the second time only after a limit,   *)
(* and no client is told 429 before another session was tried (api.rs).      *)
TwoAttempts ==
    \A t \in Tasks :
        /\ calls[t] <= 2
        /\ calls[t] = 2 => retried[t]
        /\ told[t] = 429 /\ calls[t] > 0 => retried[t]

(* Requests use the pool as PoolPromise lets them, whatever retries, limits    *)
(* and disconnects happen: one record at most per credential picked, on that  *)
(* credential, and none after a message the gateway refused.                  *)
Promise == INSTANCE PoolPromise WITH
    Ids     <- Creds,
    stored  <- Creds,
    picked  <- [t \in Tasks |-> IF records[t] = <<>> THEN cred[t] ELSE NoCred],
    named   <- [t \in Tasks |-> NoCred],
    refused <- {t \in Tasks : pc[t] = "refused"}

ImplementsPromise == Promise!Spec

(* Every request ends: nobody waits for ever for a permit, whatever others do *)
(* with theirs.                                                              *)
RequestsAnswered == \A t \in Tasks : pc[t] # "idle" ~> pc[t] = "idle"

(* README:227, one conversation at a time on free models and three on paid    *)
(* ones: so many streams are open upstream at most.                          *)
StreamsWithinSlots ==
    \A s \in Tiers :
        Cardinality({t \in Tasks : tier[t] = s /\ pc[t] \in Open})
            <= Capacity[s]
===============================================================================
