------------------------------ MODULE MCSseRelay ------------------------------
(* The four readers on short answers.  Every protocol is an initial state; no *)
(* two of the kinds are alike for all of them, so there is no symmetry.       *)
EXTENDS SseRelay
===============================================================================
