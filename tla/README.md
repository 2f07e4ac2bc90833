# Verification of TokenHarbor2API

TLA+ models of the gateway in `src/` (an axum service in front of TokenHarbor that speaks the OpenAI,
Anthropic and Responses APIs), the TLC runs that check them on small instances, and TLAPS proofs about all of
them: each invariant, action property and refinement that a passing run checks is also a theorem, for every
value of the constants (one under two hypotheses on them that the code meets); only liveness is model-checked
alone. `PROJECT.json` lists the components, runs, mutants, hazards and theorems, and maps every definition to
the lines it models.

## 1. The system

One process, tokio tasks, no database. A request to a chat endpoint goes through

    check_api_key → registry.resolve → pool.pick → semaphore.acquire → length and emptiness checks
      → sessions.ensure (upstream create_session) → client.stream (upstream)
          → on 429, once: sessions.remove, sessions.ensure, client.stream
      → pool.record_success / record_failure, sessions.touch → the body

| Component | State | Operations | What makes it correct |
|---|---|---|---|
| session map (`session.rs`) | thread key → upstream session, model, last use; thread key → mutex object | `ensure`, `touch`, `remove`, `stale`, `insert` | a session serves one thread and one model, is bound once, and is not used again after it is given up; one creator per thread; the cap; nobody waits for ever |
| clean-up task (`main.rs`) | a snapshot of idle sessions | scan every 10 minutes, one `remove` per key | every idle session goes; it never stops |
| credential pool (`web_pool.rs`) | ordered credentials; per id health, failures, cooldown, last use | `pick`, `record_success`, `record_failure`, `cooling_until_max`, `add_raw`, `delete` | never a cooling credential, never nothing while one is usable, turns among equals, `Retry-After` that suffices |
| credential store (`web_pool.rs`, `refresh.rs`) | list in memory, `tokens.json`, one-time refresh tokens of the auth service | `load`, `save`, `add_raw`, `delete`, `refresh_creds` (startup, every 50 minutes, on request) | the newest token of a login is not lost, no token is spent twice |
| handlers (`api.rs`) | one task per request | chat, responses, claude; import, login, refresh, delete, check | one outcome recorded per request and it is the one the client is told; two attempts at most |
| semaphore (`semaphore.rs`) | permits per tier, FIFO queues | `acquire`, drop | no permit lost; the bound on concurrent upstream streams |
| SSE translation (`protocol/`) | the line being read, event name, text so far | three `poll_next`, `collect_nonstream_text` | everything is relayed, in order, with one start and one end |
| login guard (`ratelimit.rs`) | per address failures, window, lock | `check`, `record_failure`, `clear` | a lock is kept; few attempts per window |
| model registry (`models.rs`) | a static catalogue | `normalize`, `available_at`, `resolve` | the model served is in the catalogue and its free window has not ended; a paid one is never served unasked; all spellings of a name mean one model |
| cookies (`import_parse.rs`, `refresh.rs`) | none | `extract_cookie`, `refresh_token_from_cookie`, `rebuild_cookie` | an account is found in whatever form it is pasted; a refreshed cookie can be refreshed again |
| API keys, panel sessions (`api.rs`, `ui_auth.rs`) | key list, signed cookies | `check_api_key`, `check_admin_auth`, `check_session` | decision tables, expiry |
| upstream client, redaction, panel HTML, configuration, errors | none | I/O and text | – |

How they interact: the handlers call the pool, the semaphore, the map and the upstream client, one
after the other, and hold nothing but a permit and a cloned credential between those calls. The
pool, the map and the guard each protect their tables by tokio locks held for a few statements;
every `.await` between two of these is a point at which other requests, the clean-up task, a
refresh or a deletion run. The file is written outside the lock.

Hard behaviours: interleavings at every `.await`; a handler's future dropped at any of them when
the client goes away; snapshots used after the lock is given up; the retry after 429; answers of
the auth service that are lost after the token is spent; restarts between the steps of a save;
lines of the upstream's stream that arrive in pieces; cooldowns and locks that end between two
looks at the clock.

## 2. Modules

| Module | Models | Checked by | Proved in |
|---|---|---|---|
| `SessionOwnership` | the abstract promise of the session map: sessions are opened for a thread, bound once, released for good | refinement in `session_safety` | `SessionMapProofs` |
| `SessionMap` | `session.rs`, its use by the handlers, the clean-up task | `MCSessionMap` | `SessionMapProofs` |
| `PoolPromise` | the abstract promise between the pool and its users: what is given out is stored and not cooling, one record per pick, only a record begins a cooldown | refinements in `pool_safety` and `gateway` | `CredentialPoolProofs`, `GatewayProofs` |
| `Selection` | `pick` as a pure function (one pass over the pool) | `MCAlgorithms` | `SelectionProofs`, `AlgorithmsProofs` |
| `CredentialPool` | credential states and their users; uses `Selection` | `MCCredentialPool` | `CredentialPoolProofs`, with `SelectionProofs` |
| `TokenStore` | credential list, file, start of the process, refresh and one-time tokens | `MCTokenStore` | `TokenStoreProofs` |
| `Gateway` | a request from `pick` to the end of its answer, with the semaphore | `MCGateway` | `GatewayProofs` |
| `SseRelay` | the three translators and the collector | `MCSseRelay` | `SseRelayProofs` |
| `LoginGuard` | the guard and the two password handlers | `MCLoginGuard` | `LoginGuardProofs` |
| `ModelRegistry`, `ModelCatalogue` | the functions of `models.rs`, and its tables | `MCAlgorithms` | `AlgorithmsProofs`, for any tables |
| `Cookies` | a cookie from the pasted text to its refresh | `MCAlgorithms` | `AlgorithmsProofs` |
| `Algorithms` | the inputs of the three above and what is asked of them; takes the tables as constants, so that the theorems hold for any | `MCAlgorithms`, with the real tables | `AlgorithmsProofs` |

The components are composed by contract. `Gateway` and `CredentialPool` see the same pool from its two
sides – one has the requests and only knows which credentials cool, the other has health, failures and
times and only knows that somebody picks and records – and each implements `PoolPromise`, with
`picked`, `named` and `refused` read off its own `pc`. `Gateway` likewise knows a session only as
got or not; what it gets is `SessionMap`'s promise, `SessionOwnership`.

### How a model corresponds to the code

**SessionMap.** `inner` and `locks` are the two tables. `pc[t]` is the await at which a request
is: `lookup` (fast path, session.rs:82-87), `lockmap` (entry().or_insert_with, 88-95), `acquire`
(lock().await, 96), then under the guard `recheck`, `drop`, `cap`, `victim`, `evict`, `create`,
`insert` (97-120), then in the handler `stream` and `touch`, and for the retry `remove`, `unmap`.
The mutex objects are numbered, because `remove` takes the entry away from tasks that hold or
wait for the object. `created` is the upstream's record of the request each session was made for.
`Disconnect` drops a handler anywhere. The clean-up task takes a snapshot (`stale`) and removes
key by key; its log line slices the key at byte 16 and panics inside a character (`SplitKeys`).

**Selection, CredentialPool.** Health starts at 1 and is multiplied by 0.6, 0.9 or 0.95 per
failure since the last success, so three counters determine it exactly; `pick` is the one
pass `Winner` over the healthy candidates or else over the fallback pool, with the tolerance 0.001: `Leader` is what
an iteration makes of the best so far.
`pick` and `cooling_until_max` are two steps of a request (`PickNone`, then `Answer429` or
`Answer401`), a check or a refresh names its credential (`UseNamed`, "checking") and may record nothing
(`Finish`), as may the panel's requests; deletion is two steps (credential, then its state, `Forget`), any number of
deletions overlap, and the second step never comes when the handler is dropped before it; a failure may be
recorded on a credential already deleted. The history variable `fresh` holds the refused tasks since whose pick no
second has passed, nothing was imported and no success was recorded.

**TokenStore.** A cookie is the refresh token in it; token *g* of a login's chain buys token *g*+1
once. A refresh works through a copy of the list (`list`), trades (`Refreshed`), stores the new
token under the write lock (`Update`), and saves: copy under the read lock (`SaveRead`), open and
truncate, write. A save may fail at its opening (the file stays as it was) or at its writing (half a list stays,
`Torn`); `save` drops the result of `fs::write`, so whoever called it goes on (`SaveFails`). The auth service may
spend a token and lose the answer, a client may leave, the process may die, and a browser tab that was not
closed (`Tabs`) trades the same tokens for itself (`BrowserTrades`, src/README.md:73-82); a cookie imported later is
the one the tab has by then (`Exported`). A start loads what is in the file and then imports, one by one and before anything else
runs, each configured cookie that is not in the list (`boot`, `BootImport`, `Booted`); after a refresh the
list has another cookie for that login, so the spent one is imported again. The history variable
`spoilt` says that since a save last began alone, or the process started, a save overlapped, failed or was skipped.

**Gateway.** `pc` follows a handler; the three handlers take the same steps and differ in what
they admit (`Admits`: the Anthropic handler refuses a message of files only). A permit is a member
of `permits` from the moment the semaphore gives it; dropping it hands it to the first in the
queue. The history variables `calls`, `records` and `told` say what the upstream was asked, what
was recorded on the credential and what the client was told. Credentials are only cooling or not;
their details are CredentialPool's. Sessions are got or not; their details are SessionMap's.

**SseRelay.** An event is two lines; the network delivers a line whole or in two parts with a
pause. `ReadLine`, `Abandon`, `ReadRest` and `ReadEnd` are the outcomes of one
`read_line` future: the translators build a new one in every `poll_next` and drop it when it is
pending, together with what it had read; the collector awaits its own. `Shown` gives the frames of
an event name per protocol, `Collected` the text kept for the last frame.

**LoginGuard.** One address on one endpoint, seconds as integers. `LetTry` and `Refused` are the
two results of `check`, with the window's reset; `Fail` is `record_failure`, `Succeed` clears on
the panel's endpoint only. An attempt that was let through may fail any time later.

**ModelRegistry.** A name is split where the code looks: the provider before the last "/", the surface,
the suffix ":free". `Readings` are the names `normalize` tries, in its order, `Normalize` the first in the
catalogue or else the name itself; `Resolve` goes on to the free models that are available. The
catalogue is the real one; time is before, at and after the end of the one free window it lists.

**Cookies.** A cookie is a sequence of pairs, of which only the refresh token in `auth0` has a value that
matters (one, none, undecodable). What is pasted is a form and groups of pieces – HAR entries, lines
of a jar, the quoted parts of a curl command – each with the prefix somebody wrote before it. `Extract` is
`extract_cookie`: the pairs of a HAR file, an export or a jar, else the quoted part of a command, else the raw text
read as a header, the next attempt when one finds no pair. The form is an input: how the code guesses it from the text
(`{`, tabs, "curl", quotes) is left out, so text of one form that passes for another is not in the model.
`RefreshToken` and `Rebuild` are `refresh.rs`, `Admitted` is
what the import demands.

External, modelled from their use: tokio's Mutex, RwLock and Semaphore, Arc, the upstream, the auth
service, the network, the file system, and axum's dropping of a handler's future.

## 3. Runs

Passing:

| Run | Question and answer | Instance |
|---|---|---|
| `session_safety` | Does a message ever reach a session of another thread or model (`ThreadIsolation`), is a second attempt made on the limited session (`LimitedSessionGone`), is every behaviour one of `SessionOwnership`? No, no, yes – with eviction, clean-up, retries and disconnects | 2 threads, 2 models, 2 requests, cap 1, 2 creations |
| `session_liveness` | Does every request end although lock entries come and go (`RequestsEnd`), does every idle session go while the clean-up task lives (`IdleSessionsRemoved`)? Yes | 1 thread, 2 requests |
| `algorithms` | Is the pick from the right group, close to the healthiest, the longest unused of equals (`PickFromTheRightGroup`, `NearlyTheHealthiest`, `LongestUnusedOfEquals`)? Is the model served always one that can be had, never a paid one unasked, the same for every spelling (`ResolvedIsServed`, `NeverPaidUnasked`, `SpellingsAgree`)? Is an account the same in whatever form it is pasted, and does its refresh go on (`FormsAgree`, `RefreshGoesOn`)? Yes; the intransitive tolerance costs at most one tolerance per candidate, and the texts that are misread are named by `Misread` | all pools of up to 3 with scores at and around 0.3 and within and beyond the tolerance; the real catalogue; cookies of up to 3 pairs |
| `pool_safety` | Is the cooldown what the failures account for (`TypeOK`), does a client that waits as told find a credential (`RetryAfterSuffices`), do equals take turns (`TakesTurns`), is a client that is refused because every credential cools told to come back, whatever failures and deletions come between the pick and the answer (`CoolingIsTold`; said of an answer in the second of the pick, without an import or a success between: see section 5), is every behaviour one of `PoolPromise`? Yes | 2 credentials, 2 users, 3 failures (1,515,296 states) |
| `store_safety` | Is a traded token anywhere else before it is stored (`TradedTokenIsNew`), does anything but a deletion, a lost answer, a dropped handler, the browser's tab or a restart lose a chain (`ChainsStayAlive`), is the file behind the list when no save is due, although none overlapped, failed or was skipped since one began alone (`QuietFileCurrent`)? No, no, no | 3 ids, 2 chains of which one is configured, 2 workers, 2 trades per chain and 3 in all (1,957,724 states) |
| `gateway` | Is a permit lost or given twice (`PermitsConserved`), does the record match the answer (`OneRecord`), how many attempts (`TwoAttempts`), is the pool used as `PoolPromise` says (`ImplementsPromise`), does every request end (`RequestsAnswered`)? No; yes; two; yes; yes | 3 requests, 1 credential, 1 slot per tier (282,716 states) |
| `relay` | Are frames in the client's order with one start and one end, is the completed text the text sent, is anything lost but abandoned lines, does every stream end? Yes, yes, no, yes | 4 readers, all kinds, 3 events |
| `login_guard` | How many failures can a window count when attempts overlap (`FailuresPerWindow`: those after which an attempt may still begin, and those under way), is a lock kept while its window lasts? Yes | 2 attempts, the real 30 s and 60 s, 34 s |

Violations, each a disagreement between the code and what it says of itself (`findings`):

| Run | Property | What happens |
|---|---|---|
| `session_two_creators` | `OneCreator` | A limited request's `remove` drops the lock entry while another request holds its mutex; the next `ensure` makes a new mutex and both create a session for the thread. |
| `session_cleanup_dies` | `IdleSessionsRemoved` | A thread id with a character across byte 16 panics the log line; the task ends and idle sessions stay. |
| `gateway_streams` | `StreamsWithinSlots` | The permit goes when the handler returns its body; the next request streams while the first body is still read. |
| `relay_lost_line` | `EveryChunkRelayed` | A line in two pieces: the poll that got the first piece drops it with its future; the chunk never arrives. |

### Bounds, and why they are enough

- `IdleHours` 1 (24 in the code), `MaxSessions` 1 (200): only the comparisons matter; with a cap of 1 and
  two threads every insertion evicts, and two threads can exceed the cap together. `MaxCreates`,
  `MaxLocks` bound the sessions made and the mutex objects alive at once: two creations are the first
  session and its replacement, three objects let a stale object, a current one and another thread's exist.
- Two threads, two models and two requests: each isolation, mutual exclusion and eviction conflict is between
  two requests; the theorems remove the bound.
- Cooldowns are scaled (`AuthStep` 1, `AuthCap` 2, `LimitStep` 1, `LimitCap` 1; 600, 3600, 30, 180 in
  the code) and `MaxFactor` is 2 (6): both caps and the factor's limit are reached within `MaxFailures` 3. The
  health thresholds are the code's.
- `MaxGen` 2 lets a token be traded, traded again and an old one be refused; `MaxTrades` 3 lets one chain do that
  beside a trade of the other; two workers are the two
  refreshes, or the refresh and the deletion or import, that race; three ids let a credential be
  deleted and imported again; one of the two chains is configured and has a browser tab, the other comes by import only and has none (the
theorems are for any `Configured` and `Tabs`).
- Three pairs make a cookie with the login, its second half and another pair, or with two logins, in any
  order; two tokens are an old and a new one. Times 0 to 2 are before, at and after the end of the free window.
- Three requests with one slot per tier: one inside, two in the queue, so that a disconnect in the queue's
  head, its tail and in the handler are all there. `Slots` of the free tier is 0, which
  `TieredSemaphore::new` takes for 1.
- `MaxUnread` 3 parts of lines: a whole line beside a split one. Three events are a thought, a chunk and an end,
  or two chunks and an end (four events are more states than a run of minutes allows; the order of the frames is
  proved for any number).
- `MaxNow` 34 seconds passes the end of the first window and the start of the second.

`CHECK_DEADLOCK FALSE` is used by `algorithms` (one step per question) and by `relay` and
`relay_lost_line` (a finished stream does nothing more). Elsewhere requests keep arriving.

### Fairness

- `SessionMap!LiveSpec`: weak fairness of what a request does by itself (the locks of the map are held for a
  few statements; the upstream client has a 15 s connect and a 300 s read timeout,
  upstream.rs:115-117), weak fairness of the clean-up task (an interval timer) and strong fairness of
  `Acquire`, because tokio's Mutex is first come, first served. Nothing makes requests arrive or disconnect.
- `Gateway!Spec`: weak fairness of each handler, which waits by itself only for the upstream (timeouts as
  above, answers end) and for its permit. No fairness is assumed of the semaphore: its queue is modelled.
- `SseRelay!Spec`: weak fairness of the reader (the connection polls the body when it can go on) and of
  `Close` (the read timeout cuts off a silent upstream). The upstream need not send anything.

## 4. Proofs

For every value of the constants, TLAPS checks:

**SessionMapProofs** (any numbers of threads, models, requests, sessions and locks)

- `TypeCorrect`: `TypeOK`, inductive as it stands; it says where a request has a mutex, a binding and a victim.
- `Isolation`: `ThreadIsolation`. Every session in the map or in a request's hands is one `created` records
  for this thread and model; `created` only grows, and a request's key and model change only when it arrives.
- `EverySessionBoundOnce`, `RetryOnAnotherSession`: the invariant `OnceInv` is
  `ThreadIsolation ∧ BoundOnce ∧ LimitedSessionGone`. `LimitedSessionGone` alone is not inductive: an insert
  could bring the limited session back, unless it is known that nobody is about to insert it, which is
  what `BoundOnce` keeps, and that sessions of other threads are other sessions, which is `ThreadIsolation`.
- `MapImplementsOwnership`: each step is a step of `SessionOwnership` or a stutter, under
  `TypeOK ∧ OnceInv`.
- `MutexWorks`: `OneCreator ∧ InsertOverwritesNothing`, under the hypothesis that no lock entry is ever removed
  (no rate limit, the clock within `IdleHours`). The invariant `MutexInv` adds that an object is
  held by one task and that tasks of one key have the key's object; the latter is what
  `remove` breaks, as `session_two_creators` shows. The hypothesis is needed.

**TokenStoreProofs** (any numbers of credentials, chains, workers; all events)

- `StoreTypes`: `TypeOK`.
- `TradedIsNew`: `TradedTokenIsNew`. The invariant `NewInv` adds `NothingAhead`: no token in memory, in the file, in
  a list, in hand or in a copy about to be written is ahead of the auth service. Without the file and
  the copies it is not inductive: a restart loads the one, a save writes the other.

- `FileKeepsUp`: `QuietFileCurrent`. `FileInv` says what the file is while saves go on: unless `spoilt`, one
  worker saves at a time, its copy is the list unless another save is due, and the file is torn exactly while
  it is written. The property alone speaks of quiet states only, so no step could be proved from it. A save that begins alone
  makes good whatever failed, overlapped or was skipped before it, once it is written.
- `ChainsGoOn`: `ChainsStayAlive`, an action property, from `TypeOK ∧ NewInv ∧ ChainInv`. `ChainInv` is that all
  tokens that ever stood under one id – in the list, the file, a refresh's list, a hand, a copy – are of one
  chain (`OneChain`), that an unused id has none, and that a push is under an id nobody else has
  (`PushFresh`). Without it an `Update` by id might overwrite another login's newest token.

**GatewayProofs** (any numbers of requests, credentials and slots)

- `GatewayTypes`, `PermitsKept`: the semaphore's own lemmas say what taking, queueing, giving back and leaving
  the queue do to `SemInv`: permits held and free make up the capacity of each tier, a queue has nobody
  twice and nobody with a permit, and none is free while somebody waits. `LinkInv` ties that to the
  requests: `pc` determines who holds a permit and who waits. Neither is inductive without the other, because
  a request gives back what its `pc` says it holds.
- `OneRecordPerRequest`, `AtMostTwoAttempts`: `RequestInv` says of each request, by its `pc`, what it has
  asked, recorded and been told so far (`Fits`, a table of the handler); both properties are read off it.
- `GatewayImplementsPromise`: each step is one of `PoolPromise` or a stutter, under the invariant. A
  request uses its credential until it records (`Fits` says that nothing is recorded before), so every
  record is on a credential that was given out and not yet recorded on.

**CredentialPoolProofs** (any numbers of credentials and requests, any cooldowns)

- `PoolTypes`: `TypeOK`, of which the hard part is that a cooldown is within what the failures since the last
  success account for. The invariant `PoolInv` adds that an id nobody had yet is nowhere – not stored, not in a
  request's hands, not about to be forgotten – and has the state of a new credential (`IdInv`): without it an
  import could start with another's failures. A success leaves the failures at 0 and no cooldown; a longer
  cooldown by one more failure is a lemma about `Cooldown`.
- `EqualsTakeTurns`: `TakesTurns`, from `SelectionProofs` by instantiation. An earlier form, without `close`, is
  false when many failures are counted: the tolerance is not transitive, so a chain of neighbours can win the
  pass one by one.
- `PoolKeepsPromise`: `ImplementsPromise`. A step is one of `PoolPromise` or a stutter, under `PoolInv`. The
  steps that need it are the pick (it is in the group, so it is stored and not cooling; when there is none,
  every credential cools) and a record, which touches the state of the request's own credential only.

- `RetryAfterIsEnough`: `RetryAfterSuffices`. `CoolInv` is that every cooldown, of a deleted credential too, is
  over by the time a client was told, as long as nothing failed since (a failure takes the promise back), and
  that no cooldown is longer than the two caps allow. That the longest of the waits exists, for any number of
  states, is a lemma of its own (`Greatest`).
- `ToldToComeBack`: `CoolingIsTold`, an action property. `FreshInv` is that while a refused task is fresh every
  stored credential cools: the pick found none, a failure only ever sets a cooldown that ends later than now, and a
  deletion takes the credential away before its state. The answer then finds a wait, or an empty pool.

**LoginGuardProofs** (any number of attempts, any window, any cap)

- `GuardTypes`: `TypeOK`. `LocksAreKept`: `LockKeptInWindow`. `PromiseInv` says which lock the client was told
  of: the entry's, unless it is over or its window is. A success on the panel's endpoint clears the entry and ends the
  promise in the same step, so the theorem is about attempts that fail. That a later failure never shortens a lock needs that the
  entry's lock is at most the one its count of failures gives from now on.
- `FewFailures`: `FailuresPerWindow`, under the hypotheses `Window < MaxLock` and `Window < 64`, as in the code
  (30 and 60 s): with a longer window no lock outlasts it, and attempts go on for ever. `BackoffInv` is that an
  entry without a lock is within the survivable failures and that one with a lock is locked from its start on
  for at least what its count of failures gives.

**SseRelayProofs** (answers of any length, lines split anywhere, a connection that ends anywhere)

- `RelayTypes`: `TypeOK`. `FramesKeepOrder`: `FramesInOrder`. What the client has got is in order because what is
  still on its way is: `OrderInv` says that the data that has arrived is in the order of the events and later than
  everything shown – except the two parts of one line, which are read as one – and `HeadsInv` that a first part is
  followed by its rest or is the last to have arrived. Once the stream is finished, `OutInv` alone is kept:
  what arrives then is not read.

- `CompletedIsSent`: `CompletedText`. `TextInv` is that the text kept for the last frame is the text shown, and
  that the last frame carries it. Only chunks that are shown are kept, in the same step; the proof is that what
  a frame adds to the texts shown is what it adds to the text kept.
- `OnlyAbandonedLost`: `LosesOnlyAbandoned`. Finished answers say nothing about how they became complete.
  `CompleteInv` therefore says of an answer that goes on, and of which no line was abandoned, that its first *r*
  events are told in full (`ToldTo`), that the event name pending, if any, is the next one's (`Progress`), and
  that the lines still on their way follow one another without a gap from there to what the upstream sends next
  (`Chain`). Lines are numbered for this, 2*n*−1 and 2*n* for event *n*; a gap is possible only at the very end,
  where the connection ended in the middle of a line.

**SelectionProofs** (lemmas on `pick`, for pools of any length)

- A pool of *n* is decided after *n* iterations; each lemma looks at the first iteration after which the claim
  fails (`Least`). `PassExists` is that the pass is defined, `WinnerCompetes` that it finds one of the group
  exactly when there is one, `WinnerIsNearlyBest` that each iteration gives away at most one tolerance,
  `WinnerIsLongestUnused` that the last change of the best was to the one unused longest of its equals.
  `PickWins` is that the two variables of the loop, `best` and `fallback`, come to one pass over the healthy or
  over all usable.

**AlgorithmsProofs** (pools, catalogues and cookies of any length)

- `RightGroup`, `NearlyBest`, `LongestUnused`: the three properties of `pick`, from the lemmas above and that a
  pool only holds candidates.
- `AlwaysServed`: `ResolvedIsServed`, because the last free model has no window. `NeverPaid`:
  `NeverPaidUnasked`; `OneModel`: `SpellingsAgree`. They rest on `RegistryAssumption` – ids are listed once, the
  surfaces with a free route have a provider, the model that is always free has no window – which TLC evaluates
  on the tables of `models.rs`.
- `RefreshesGoOn`: `RefreshGoesOn`. What is left when some pairs are dropped (`Without`) is determined by its
  order: the *k*-th that stays is the one before which *k*−1 stay (`WithoutIs`, `WithoutEnds`).
- `AnyFormServes`: `FormsAgree`. A cookie has no nameless pair, so dropping those leaves it as it is, alone,
  behind other text, or twice (`PairsAre`); of a cookie written twice the first half is read (`TwiceAsOnce`); of
  the quoted parts of a curl command the cookie is taken, as it is named so or nothing before it looks like one
  (`CurlIsRead`), which is where `~Misread` is needed. It has a pair, so no later attempt is made (`AdmittedIsSome`).

The assumptions are the named `ASSUME`s of the modules (bounds are naturals, null values are not values, the
tables are as said), evaluated by TLC on every run. `PoolAssumption` asks that health is counted in at least
thousandths, so that the tolerance is not 0.

What a fold or a recursive definition computes is proved without an induction principle, which would need an
operator as a parameter: that the function it chooses exists, and each claim about its values, is shown by
looking at the least position where it fails (`Least`, `Counting`: every set of naturals but the empty one has a
least element).

Only model-checked is liveness (`RequestsEnd`, `IdleSessionsRemoved`, `RequestsAnswered`, `StreamEnds`), which
is out of TLAPS's reach.

## 5. Behaviours the models show that no run denies

These are what the code does; no property of a run says otherwise.

- Session map: requests of different threads pass the cap together and choose the same session to evict; each such
  pair leaves one session more than the cap of 200 (src/README.md:228), and as later creations evict one for one, the
  excess stays and can grow. A session in use is evicted or removed by an
  out-of-date snapshot (its thread then gets a new one); lock entries without a session stay; the binding does not
  know the account that made it, so after a rotation the next account's cookie is sent with it.
- Pool: the wait is linear in the failures, where documents say exponential; requests that arrive together pick
  the same account; a late 429 replaces a 401's longer cooldown by its shorter one; the wait told is
  the longest of all cooldowns, of deleted credentials too, also of one that only has a state because a failure was
  recorded after its deletion, or because the deletion was dropped between its two steps.
- The wrong 401: src/README.md:226 ("冷却期返回 429（不再误报 401）") and src/CHANGELOG.md:13 say that a client refused
  during a cooldown is no longer told that nothing is imported. It still can be: when the cooldown ends, a success is
  recorded or a cookie is imported between `pick` and `cooling_until_max`, the wait is 0 and `Answer401` is taken
  with a stored and usable credential. `CoolingIsTold` says only that nothing else brings this about; that the
  documents' sentence does not hold is seen by dropping `Stale` from `Tick`, `Success` or `Add`.
- Store: two imports of one cookie at once store it twice; of two saves the one with the older copy may write last;
  a failed save is ignored: the import or deletion is answered as done, and the file keeps the old list, or half of
  one, until another save succeeds; a restart while the file is truncated loads nothing; a deletion, a disconnect or a
  restart between a trade and its storing loses the chain, as does an answer that is lost. None of these losses is
  denied by a property: `ChainsStayAlive` names them.
- Browser tab: a tab left open spends the token the gateway holds, or the other way round (src/README.md:73-82 tells the
  user to close it); the gateway's refresh of that account then fails for good, and a new import is a second account.
- Start: a configured account that was refreshed is stored a second time with its spent cookie at every start,
  and the refresh of that copy fails until it is deleted. The first configured cookie is also sent in front of every picked
  one (upstream.rs:142-153), so two accounts may share a request.
- Fall-back: src/README.md:91 says that when the request for any paid model fails the gateway falls back to
  th-rudder:free by itself. Nothing does: the handlers retry once, after a 429, with the same model, and then answer
  with the error (`Fails`, `Limited`, as in the code); `fallback_models` of the configuration is never read.
- Handlers: any failure of `create_session` is recorded as a 401 and answered as a 502; when the second session
  cannot be had, the error text itself begins with "429" and counts as a limit; the credential picked before
  the wait for a permit may be cooling when it is used; error texts cut at a byte inside a character panic
  (upstream.rs `truncate`), which ends the handler without a record (`Disconnect`).
- Relay: after an abandoned name line a chunk is shown under the name before it; a rest that is not UTF-8 ends
  the stream; the Responses stream completes after an error without showing it.
- Guard: a lock of 32 or 60 s ends with the window of 30 s, before the `Retry-After` the client was told; the first
  failure locks 2 s, where the comment (ratelimit.rs:69) says 1 s; entries are never swept.
- Models: "th-rudder" without ":free" is not in the catalogue under its provider and is served by the first free
  model; an unknown name never reaches the upstream, although the comment on `normalize` says it is passed
  on; `default_model` of the configuration is not read either.
- Cookies: README:53 says to copy the whole `cookie:` line, but only "Cookie:" is stripped, so the prefix in lower
  case spoils the name of the first pair; a curl command whose `accept-language` header has parameters and comes
  before `-b` is misread; a HAR file repeats the cookies per request, so its account is stored as another
  one, and the older of two logins in it is the one refreshed; a cookie that is not ASCII panics where it is
  cut for display.

## 6. Not modelled

Redaction, the HTML of the panel, configuration and error types (text and data, no state); the HTTP of
the upstream client (pure I/O, seen as its outcomes); the conversion of messages and the JSON of frames
(abstracted to kind and payload); `check_api_key` and the list of runtime keys (a guard, and a set that
grows); the scanning of quotes, tabs and JSON in pasted text and the guess of its form (`Cookies` starts from the form
and the pieces).

## 7. Plan

Done, in this order: SessionMap with its promise and proofs; Selection and CredentialPool; TokenStore, its start
and its proofs; SseRelay; Gateway and its proofs; LoginGuard; ModelRegistry and Cookies; PoolPromise and
its two refinements; the proofs about CredentialPool, LoginGuard and SseRelay.

Since then: Selection as one pass over positions, Algorithms with its constants, and the proofs about Selection, the pool's
picks and promise, the registry, the cookies and the texts of a relay.

Next:

1. `SseRelay`: an abstract stream (told so far, ended or not) that the four readers implement, with `LosesOnlyAbandoned` as
   its consequence.
2. `SessionMap` with `Gateway`: the handler's calls of the map refine the `got` of `Gateway`.
