---------------------------- MODULE MCEventGroup ----------------------------
(* Instances of EventGroup for TLC. *)
EXTENDS EventGroup, TLC

CONSTANTS c1, c2, e1, e2, g1

MCCore == {c1, c2}
MCGroup == {g1}
MCEvent == {e1, e2}
MCRecoverers == {c2}
MCNone == {}

Symmetry == Permutations(MCEvent)
=============================================================================
