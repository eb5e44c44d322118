---------------------------- MODULE MCEventState ----------------------------
(* A small instance of EventState for TLC. *)
EXTENDS EventState, TLC

CONSTANTS c1, c2, e1, e2

Symmetric == Permutations(Cores)
=============================================================================
