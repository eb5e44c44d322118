---------------------------- MODULE MCLifecycle ----------------------------
(***************************************************************************)
(* Operations of queue groups and terminations that must end, and the      *)
(* events in the scheduler when cores and EM terminate, for TLC.  The two  *)
(* modules share no state: the steps of one are taken while the other is   *)
(* in its initial state.                                                   *)
(***************************************************************************)
EXTENDS MCQueueGroup, Lifecycle

LiveInit == Init /\ LifecycleInit
LiveNext == \/ LifecycleInit /\ Next /\ UNCHANGED lvars
            \/ Init /\ LifecycleNext /\ UNCHANGED vars
LiveSpec ==
  /\ LiveInit /\ [][LiveNext]_<<vars, lvars>>
  /\ \A c \in Core : WF_<<vars, lvars>>(LifecycleInit /\ Works(c) /\ UNCHANGED lvars)
  /\ LifecycleFairness
=============================================================================
