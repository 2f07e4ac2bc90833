--------------------------- MODULE SessionOwnership ---------------------------
(***************************************************************************)
(* What the session map promises, without its locks, tasks or clock: the   *)
(* upstream opens numbered sessions, each for one request; a session is    *)
(* bound at most once, to the thread it was opened for; a thread has at    *)
(* most one session; and a session that is released never comes back.      *)
(***************************************************************************)
EXTENDS Naturals, Sequences

CONSTANTS Keys, Models

VARIABLES
    opened,  \* the sessions ever opened: session i was opened for opened[i]
    fresh,   \* sessions opened and not yet bound or given up
    bound    \* the session of each thread, 0 when it has none

Opening == [key : Keys, model : Models]

Init ==
    /\ opened = <<>>
    /\ fresh = {}
    /\ bound = [k \in Keys |-> 0]

Open(r) ==
    /\ opened' = Append(opened, r)
    /\ fresh' = fresh \cup {Len(opened) + 1}
    /\ UNCHANGED bound

Bind(i) ==
    /\ i \in fresh
    /\ fresh' = fresh \ {i}
    /\ bound' = [bound EXCEPT ![opened[i].key] = i]
    /\ UNCHANGED opened

GiveUp(i) ==
    /\ i \in fresh
    /\ fresh' = fresh \ {i}
    /\ UNCHANGED <<opened, bound>>

Release(k) ==
    /\ bound' = [bound EXCEPT ![k] = 0]
    /\ UNCHANGED <<opened, fresh>>

Next ==
    \/ \E r \in Opening : Open(r)
    \/ \E i \in fresh : Bind(i) \/ GiveUp(i)
    \/ \E k \in Keys : Release(k)

Spec == Init /\ [][Next]_<<opened, fresh, bound>>
===============================================================================
