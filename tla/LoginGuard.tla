------------------------------ MODULE LoginGuard ------------------------------
(***************************************************************************)
(* The guard of the two password endpoints (ratelimit.rs), for the         *)
(* attempts of one address on one endpoint, and the handlers around it:    *)
(* handle_ui_login, which issues the session cookie of the panel, and      *)
(* handle_tokens_login, which wants an API key or that cookie and asks the *)
(* auth service.  Entries of other addresses and of the other endpoint are *)
(* apart.  Time counts seconds.                                            *)
(*                                                                         *)
(* A password is right or wrong; the signature of a cookie is abstracted   *)
(* to the gateway having issued it.  LoginGuard::sweep is never called.    *)
(***************************************************************************)
EXTENDS Integers, FiniteSets

CONSTANTS
    Tasks,    \* attempts at the same time
    Window,   \* seconds a count of failures lasts (30)
    MaxLock,  \* seconds a lock lasts at most (60)
    TTL,      \* seconds a cookie is good for (SESSION_TTL_SECS, 7 days)
    MaxNow,   \* bound: the clock stops here
    NoEntry

Endpoints == {"ui", "login"}
NoLock    == 0   \* locked_until = None: a lock never ends at 0
NoCookie  == -1
Entry     == [failures : Nat, start : Nat, until : Nat]

ASSUME GuardAssumption ==
    /\ {Window, MaxLock, TTL} \subseteq Nat \ {0}
    /\ MaxNow \in Nat
    /\ NoEntry \notin Entry

VARIABLES
    endpoint,  \* the endpoint the attempts are made on
    config,    \* has_keys, has_ui
    entry,     \* the entry of the address
    pc,
    cookie,    \* expiry of the cookie of the client
    promise,   \* the lock that ends last of all since the entry was made: its
               \* end, and the start of the window it was made in
    now

vars == <<endpoint, config, entry, pc, cookie, promise, now>>

NoPromise == [until |-> 0, start |-> 0]

Go(t, label) == pc' = [pc EXCEPT ![t] = label]

Init ==
    /\ endpoint \in Endpoints
    /\ config \in [keys : BOOLEAN, ui : BOOLEAN]
    /\ entry = NoEntry
    /\ pc = [t \in Tasks |-> "idle"]
    /\ cookie \in {NoCookie} \cup (IF config.ui THEN {TTL} ELSE {})
    /\ promise = NoPromise
    /\ now = 0

-------------------------------------------------------------------------------
(* Mutant of Expired: a window is over when it is as old as it may be. *)
ExpiredAtWindow(e) == now - e.start >= Window

Expired(e) == now - e.start > Window

Fresh      == [failures |-> 0, start |-> now, until |-> NoLock]

(* The entry after the reset that check and record_failure begin with. *)
Current == IF Expired(entry) THEN Fresh ELSE entry

(* check: 429, Retry-After one second after the end of the lock. *)
Refused(t) ==
    /\ pc[t] = "idle"
    /\ entry # NoEntry
    /\ now < Current.until
    /\ UNCHANGED vars

(* check: None; a lock that is over is taken out. *)
LetTry(t) ==
    /\ pc[t] = "idle"
    /\ \/ /\ entry = NoEntry
          /\ UNCHANGED entry
       \/ /\ entry # NoEntry
          /\ now >= Current.until
          /\ entry' = [Current EXCEPT !.until = NoLock]
    /\ Go(t, "admit")
    /\ UNCHANGED <<endpoint, config, cookie, promise, now>>

(* check_session: not after the expiry. *)
CookieGood == cookie # NoCookie /\ now <= cookie

(* check_admin_auth, of a request with a key of the gateway or without. *)
AdminAuth(key) ==
    \/ ~config.keys /\ ~config.ui
    \/ config.keys /\ key
    \/ config.ui /\ CookieGood

Admitted(t) ==
    /\ pc[t] = "admit"
    /\ \/ endpoint = "ui" /\ config.ui
       \/ endpoint = "login" /\ \E key \in BOOLEAN : AdminAuth(key)
    /\ Go(t, "try")
    /\ UNCHANGED <<endpoint, config, entry, cookie, promise, now>>

(* 400 or 401: no password to compare, no right to log in, an empty field.    *)
TurnedAway(t) ==
    /\ pc[t] = "admit"
    /\ \/ endpoint = "ui" /\ ~config.ui
       \/ endpoint = "login"
    /\ Go(t, "idle")
    /\ UNCHANGED <<endpoint, config, entry, cookie, promise, now>>

Least(a, b) == IF a < b THEN a ELSE b

(* Mutant of Lock: the seconds grow by two. *)
LockLinear(n) == Least(2 * n, MaxLock)

(* 1 << n, for n in 1..6 *)
Shifted == <<2, 4, 8, 16, 32, 64>>

(* Mutant of Lock: the lock has no limit of its own. *)
LockUncapped(n) == Shifted[Least(n, 6)]

(* Seconds the n-th failure locks. *)
Lock(n) == Least(Shifted[Least(n, 6)], MaxLock)

Longer(lock) == IF lock.until > promise.until THEN lock ELSE promise

(* A wrong password, or an auth service that fails: record_failure. *)
Fail(t) ==
    LET e == IF entry = NoEntry THEN Fresh ELSE Current
        n == e.failures + 1
    IN  /\ pc[t] = "try"
        /\ entry' = [failures |-> n, start |-> e.start, until |-> now + Lock(n)]
        /\ promise' = Longer([until |-> now + Lock(n), start |-> e.start])
        /\ Go(t, "idle")
        /\ UNCHANGED <<endpoint, config, cookie, now>>

(* The right password.  Only the panel's endpoint clears the entry. *)
Succeed(t) ==
    /\ pc[t] = "try"
    /\ \/ /\ endpoint = "ui"
          /\ entry' = NoEntry
          /\ promise' = NoPromise
          /\ cookie' = now + TTL
       \/ /\ endpoint = "login"
          /\ UNCHANGED <<entry, promise, cookie>>
    /\ Go(t, "idle")
    /\ UNCHANGED <<endpoint, config, now>>

(* The client goes away before its password was tried. *)
Disconnect(t) ==
    /\ pc[t] # "idle"
    /\ Go(t, "idle")
    /\ UNCHANGED <<endpoint, config, entry, cookie, promise, now>>

Tick ==
    /\ now < MaxNow
    /\ now' = now + 1
    /\ UNCHANGED <<endpoint, config, entry, pc, cookie, promise>>

Next ==
    \/ \E t \in Tasks :
        \/ Refused(t) \/ LetTry(t) \/ Admitted(t) \/ TurnedAway(t)
        \/ Fail(t) \/ Succeed(t) \/ Disconnect(t)
    \/ Tick

Spec == Init /\ [][Next]_vars
-------------------------------------------------------------------------------
(* Properties. *)

InFlight == {t \in Tasks : pc[t] # "idle"}

(* Types; a window has begun, a lock lasts no longer than MaxLock.            *)
TypeOK ==
    /\ endpoint \in Endpoints
    /\ config \in [keys : BOOLEAN, ui : BOOLEAN]
    /\ entry \in Entry \cup {NoEntry}
    /\ entry # NoEntry =>
        /\ entry.start <= now
        /\ entry.until <= now + MaxLock
        /\ entry.until <= promise.until
    /\ pc \in [Tasks -> {"idle", "admit", "try"}]
    /\ promise \in [until : Nat, start : 0..now]
    /\ cookie \in {NoCookie} \cup Nat
    /\ now \in 0..MaxNow

(* The last number of failures after which a lock can end in its window.      *)
Survivable == CHOOSE n \in 0..6 :
    /\ n > 0 => Shifted[n] <= Window
    /\ n < 6 => Shifted[n + 1] > Window

(* However attempts overlap, a window counts few failures: those after which  *)
(* an attempt may still begin in it, and the attempts then under way         *)
(* (ratelimit.rs, the backoff).                                              *)
FailuresPerWindow ==
    entry # NoEntry =>
        entry.failures + Cardinality(InFlight) <= Survivable + Cardinality(Tasks)

(* No attempt begins during a lock while the window in which the lock was     *)
(* made lasts, whatever attempts under way fail meanwhile: a later failure   *)
(* never shortens it.  A success on the panel's endpoint ends the lock with   *)
(* the entry (api.rs, clear), and what was promised with it.                  *)
LockKeptInWindow ==
    [][\A t \in Tasks : LetTry(t) /\ now < promise.until
          => now - promise.start > Window]_vars
===============================================================================
