----------------------------- MODULE MCDispatch -----------------------------
(***************************************************************************)
(* The dispatch loop, the callback tables and output queues for TLC.  The  *)
(* three modules share no state: the steps of one are taken while the      *)
(* others are in their initial state.                                      *)
(***************************************************************************)
EXTENDS Dispatch, Hooks, Output

MCPrio   == [q \in LocalQ |-> IF q = "l1" THEN 1 ELSE 2]
MCBudget == [g \in Tags |-> IF g = NoGrp THEN 1 ELSE 2]
MCOpts   == {[sel |-> {"rounds"}, n |-> 1, burst |-> 2, pause |-> FALSE],
             [sel |-> {"events", "noev"}, n |-> 2, burst |-> 1, pause |-> TRUE],
             [sel |-> {"ns", "noev_ns"}, n |-> 1, burst |-> 1, pause |-> TRUE]}

OutputIdle == OutputInit /\ ~immediate

vars == <<dvars, hvars, ovars>>
Init == DispatchInit /\ HooksInit /\ OutputInit
Next == \/ HooksInit /\ OutputIdle /\ DispatchNext /\ UNCHANGED <<hvars, ovars>>
        \/ DispatchInit /\ OutputIdle /\ HooksNext /\ UNCHANGED <<dvars, ovars>>
        \/ DispatchInit /\ HooksInit /\ OutputNext /\ UNCHANGED <<dvars, hvars>>
Spec == Init /\ [][Next]_vars /\ DispatchFairness
=============================================================================
