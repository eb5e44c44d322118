---------------------------- MODULE MCQueueGroup ----------------------------
(* Instances of QueueGroup for TLC. *)
EXTENDS QueueGroup

(* The single-core queue groups take the numbers of the core groups. *)
MCCoreGroup == [c \in Core |-> c]
=============================================================================
