------------------------------ MODULE ForkJoin ------------------------------
(***************************************************************************)
(* What an event group promises (event_machine_event_group.h), without     *)
(* cores, generations, counters or notification tables.  A group goes      *)
(* through cycles: apply starts one with a number of events, handling      *)
(* events and abort end it, and the end by handling is notified once.      *)
(***************************************************************************)
EXTENDS Integers

CONSTANT Group

VARIABLES
    cyc,       \* [Group -> number of the latest cycle]
    status,    \* [Group -> "none", "active", "completed" or "aborted"]
    left,      \* [Group -> events the running cycle still waits for]
    pending,   \* {<<group, cycle>>} completed, its notification to be sent
    notified   \* {<<group, cycle>>} notification sent

fjVars == <<cyc, status, left, pending, notified>>

Init ==
    /\ cyc = [g \in Group |-> 0]
    /\ status = [g \in Group |-> "none"]
    /\ left = [g \in Group |-> 0]
    /\ pending = {} /\ notified = {}

Apply(g) ==
    /\ status[g] # "active"
    /\ cyc' = [cyc EXCEPT ![g] = @ + 1]
    /\ status' = [status EXCEPT ![g] = "active"]
    /\ left'[g] > 0 /\ left' = [left EXCEPT ![g] = left'[g]]
    /\ UNCHANGED <<pending, notified>>

Increment(g) ==
    /\ status[g] = "active"
    /\ left'[g] > left[g] /\ left' = [left EXCEPT ![g] = left'[g]]
    /\ UNCHANGED <<cyc, status, pending, notified>>

(* Some, but not all, of the remaining events were handled. *)
Handle(g) ==
    /\ status[g] = "active"
    /\ 0 < left'[g] /\ left'[g] < left[g] /\ left' = [left EXCEPT ![g] = left'[g]]
    /\ UNCHANGED <<cyc, status, pending, notified>>

(* The last events were handled: notify, unless there is nothing to send. *)
Complete(g) ==
    /\ status[g] = "active"
    /\ status' = [status EXCEPT ![g] = "completed"]
    /\ left' = [left EXCEPT ![g] = 0]
    /\ <<g, cyc[g]>> \notin pending \cup notified
    /\ pending' \in {pending, pending \cup {<<g, cyc[g]>>}}
    /\ UNCHANGED <<cyc, notified>>

Abort(g) ==
    /\ status[g] = "active"
    /\ status' = [status EXCEPT ![g] = "aborted"]
    /\ UNCHANGED <<cyc, left, pending, notified>>

Notify(p) ==
    /\ p \in pending /\ p \notin notified
    /\ pending' = pending \ {p}
    /\ notified' = notified \cup {p}
    /\ UNCHANGED <<cyc, status, left>>

Next ==
    \/ \E g \in Group : Apply(g) \/ Increment(g) \/ Handle(g) \/ Complete(g) \/ Abort(g)
    \/ \E p \in pending : Notify(p)

Spec == Init /\ [][Next]_fjVars
=============================================================================
