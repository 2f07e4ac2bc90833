------------------------------ MODULE PoolPromise ------------------------------
(***************************************************************************)
(* What the credential pool and those who use it may rely on of each       *)
(* other: the pool gives a request a stored credential that is not         *)
(* cooling, or none when all are; a request records once, on the           *)
(* credential it was given, or not at all; and nothing but a record begins *)
(* a cooldown.  CredentialPool, with health and times, and Gateway, with   *)
(* the requests, both implement it.                                        *)
(***************************************************************************)
CONSTANTS Tasks, Ids, NoCred

VARIABLES
    stored,   \* the credentials one may be given
    cooling,  \* those in a cooldown, stored or not
    picked,   \* the credential each request was given and has not recorded on
    named,    \* ... each check or refresh named
    refused   \* the requests that were given none

vars == <<stored, cooling, picked, named, refused>>

Idle(t) == picked[t] = NoCred /\ named[t] = NoCred /\ t \notin refused

Init ==
    /\ stored \subseteq Ids
    /\ cooling = {}
    /\ picked = [t \in Tasks |-> NoCred]
    /\ named = [t \in Tasks |-> NoCred]
    /\ refused = {}

(* A credential joins, fit for use, or goes. *)
Add(c) ==
    /\ c \notin stored
    /\ c \notin cooling
    /\ stored' = stored \cup {c}
    /\ UNCHANGED <<cooling, picked, named, refused>>

Delete(c) ==
    /\ c \in stored
    /\ stored' = stored \ {c}
    /\ UNCHANGED <<cooling, picked, named, refused>>

(* Cooldowns end by themselves, several at once. *)
CoolEnd ==
    /\ cooling' \in SUBSET cooling
    /\ UNCHANGED <<stored, picked, named, refused>>

Pick(t) ==
    /\ Idle(t)
    /\ \E c \in stored \ cooling : picked' = [picked EXCEPT ![t] = c]
    /\ UNCHANGED <<stored, cooling, named, refused>>

Refuse(t) ==
    /\ Idle(t)
    /\ stored \subseteq cooling
    /\ refused' = refused \cup {t}
    /\ UNCHANGED <<stored, cooling, picked, named>>

Check(t) ==
    /\ Idle(t)
    /\ \E c \in stored : named' = [named EXCEPT ![t] = c]
    /\ UNCHANGED <<stored, cooling, picked, refused>>

(* The user of a credential is done with it, and may have recorded on it.     *)
Record(t, c) ==
    /\ c \in {picked[t], named[t]} \ {NoCred}
    /\ picked' = [picked EXCEPT ![t] = NoCred]
    /\ named' = [named EXCEPT ![t] = NoCred]
    /\ cooling' \in {cooling, cooling \cup {c}, cooling \ {c}}
    /\ UNCHANGED <<stored, refused>>

(* The refused client has its answer, or is gone. *)
Answer(t) ==
    /\ t \in refused
    /\ refused' = refused \ {t}
    /\ UNCHANGED <<stored, cooling, picked, named>>

Next ==
    \/ \E c \in Ids : Add(c) \/ Delete(c)
    \/ CoolEnd
    \/ \E t \in Tasks :
        \/ Pick(t) \/ Refuse(t) \/ Check(t) \/ Answer(t)
        \/ \E c \in Ids : Record(t, c)

Spec == Init /\ [][Next]_vars
===============================================================================
