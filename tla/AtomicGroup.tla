---------------------------- MODULE AtomicGroup ----------------------------
(***************************************************************************)
(* Atomic groups and the dispatch of bursts (em_atomic_group.c,            *)
(* event_machine_atomic_group.c, em_dispatcher_inline.h,                   *)
(* em_atomic_processing_end()).                                            *)
(*                                                                         *)
(* The ODP scheduler gives a core a burst of events of one atomic queue    *)
(* and with it the queue's atomic context.  A queue of an atomic group     *)
(* shares one dispatch lock with the other queues of the group: the core   *)
(* that holds the lock runs the receive functions, the others leave their  *)
(* events in the group's two stashes and go on.  The lock and the number   *)
(* of stashed events share one 64-bit word, so that "no events left" and   *)
(* "unlock" are decided by one compare-and-swap.                           *)
(*                                                                         *)
(* em_atomic_processing_end() lets a receive function give up the atomic   *)
(* context early; that is allowed only for the last call of a burst, which *)
(* the core recognises by event_burst_cnt = 0.                             *)
(***************************************************************************)
EXTENDS Integers, Sequences, FiniteSets, FiniteSetsExt

CONSTANTS
  Cores,        \* EM cores
  Queues,       \* atomic queues
  Group,        \* the queues of the atomic group
  Hi,           \* queues of priority EM_QUEUE_PRIO_HIGHEST
  Multi,        \* queues of EOs with a multi-event receive function
  MaxEvents,    \* q_elem->max_events of those queues
  Tags,         \* event groups (with generation) an event may carry
  MaxBurst,     \* EM_SCHED_MULTI_MAX_BURST
  AgMaxBurst,   \* EM_SCHED_AG_MULTI_MAX_BURST
  StashSize,    \* objects that fit into one stash
  NumEvents,    \* bound: events sent
  Stoppable,    \* sets of queues the application takes into and out of use
                \* together: the queues of an EO, or one removed queue
  None          \* no core, no queue

ASSUME GroupAssumption ==
  /\ Group \subseteq Queues /\ Hi \subseteq Queues /\ Multi \subseteq Queues
  /\ {MaxEvents, MaxBurst, AgMaxBurst, StashSize} \subseteq Nat \ {0}
  /\ NumEvents \in Nat
  /\ Stoppable \subseteq SUBSET Queues
  /\ None \notin Cores \cup Queues
  /\ IsFiniteSet(Cores)

VARIABLES
  lock, evcnt,  \* ag_elem->dispatch_lock.parts
  stash,        \* ag_elem->stashes, "hi" and "lo"
  alive,        \* the atomic group is allocated
  attached,     \* queues on the group's list (num_hi_prio_queues counts Hi)
  state,        \* q_elem->state and the progress of stopping the queue
  acked,        \* cores that have handled the stop request of the queue
  odpq,         \* ODP queue: events waiting to be scheduled
  ctx,          \* ODP atomic context of the queue: the core that holds it
  pc,           \* where each core is
  burst,        \* events the core has in hand, not yet given to a receive call
  bcnt,         \* locm->event_burst_cnt
  cur,          \* locm->current.sched_q_elem
  atomic,       \* locm->current.sched_context_type = ATOMIC
  mid,          \* inside a run of one event group of a multi-receive burst
  released,     \* locm->atomic_group_released
  ended,        \* history: this receive call has called processing_end
  sent,         \* history: number of events sent
  rcvd,         \* history: events given to a receive function
  dropped       \* history: events freed by EM

agvars == <<lock, evcnt, stash, alive, attached>>
qvars == <<state, acked, odpq, ctx>>
corevars == <<pc, burst, bcnt, cur, atomic, mid, released, ended>>
history == <<sent, rcvd, dropped>>
vars == <<agvars, qvars, corevars, history>>

Levels == {"hi", "lo"}
Steps == {"idle", "acquire", "count", "put", "uncount", "trylock", "deq",
          "sub", "run", "rcv", "unlock"}
QStates == {"ready", "stopping", "stopped", "deleted"}
Event == [n : 1..NumEvents, q : Queues, g : Tags]

PrioOf(q) == IF q \in Hi THEN "hi" ELSE "lo"

Init ==
  /\ lock = 0 /\ evcnt = 0
  /\ stash = [l \in Levels |-> <<>>]
  /\ alive = TRUE
  /\ attached = Group
  /\ state = [q \in Queues |-> "ready"]
  /\ acked = [q \in Queues |-> {}]
  /\ odpq = [q \in Queues |-> <<>>]
  /\ ctx = [q \in Queues |-> None]
  /\ pc = [c \in Cores |-> "idle"]
  /\ burst = [c \in Cores |-> <<>>]
  /\ bcnt = [c \in Cores |-> 0]
  /\ cur = [c \in Cores |-> None]
  /\ atomic = [c \in Cores |-> FALSE]
  /\ mid = [c \in Cores |-> FALSE]
  /\ released = [c \in Cores |-> FALSE]
  /\ ended = [c \in Cores |-> FALSE]
  /\ sent = 0
  /\ rcvd = {}
  /\ dropped = {}

----------------------------------------------------------------------------
(* The environment and the ODP scheduler.                                  *)

\* An event is sent to a queue.
Send(q, g) ==
  /\ sent < NumEvents
  /\ state[q] # "deleted"
  /\ sent' = sent + 1
  /\ odpq' = [odpq EXCEPT ![q] = Append(@, [n |-> sent + 1, q |-> q, g |-> g])]
  /\ UNCHANGED <<agvars, state, acked, ctx, corevars, rcvd, dropped>>

\* odp_schedule_release_atomic(), also part of the next odp_schedule_multi().
ReleaseCtx(c) == [q \in Queues |-> IF ctx[q] = c THEN None ELSE ctx[q]]

\* odp_schedule_multi() finds no events: the core only loses its old context.
ScheduleNone(c) ==
  /\ pc[c] = "idle"
  /\ \E q \in Queues : ctx[q] = c
  /\ ctx' = ReleaseCtx(c)
  /\ UNCHANGED <<agvars, state, acked, odpq, corevars, history>>

\* Mutant: the state of the queue is not looked at.
DispatchRound_AnyState(c, q, n) ==
  /\ pc[c] = "idle"
  /\ ctx[q] \in {None, c}
  /\ n \in 1..Len(odpq[q]) /\ n <= MaxBurst
  /\ odpq' = [odpq EXCEPT ![q] = SubSeq(@, n + 1, Len(@))]
  /\ ctx' = [ReleaseCtx(c) EXCEPT ![q] = c]
  /\ burst' = [burst EXCEPT ![c] = SubSeq(odpq[q], 1, n)]
  /\ IF q \in Group
     THEN pc' = [pc EXCEPT ![c] = "acquire"] /\ UNCHANGED bcnt
     ELSE pc' = [pc EXCEPT ![c] = "run"] /\ bcnt' = [bcnt EXCEPT ![c] = n]
  /\ UNCHANGED <<agvars, state, acked, cur, atomic, mid, released, ended, history>>

\* dispatch_round(): n events of q with the atomic context of q; events of a
\* queue that is not ready are freed, a queue outside an atomic group is
\* dispatched directly.
DispatchRound(c, q, n) ==
  LET evs == SubSeq(odpq[q], 1, n) IN
  /\ pc[c] = "idle"
  /\ ctx[q] \in {None, c}
  /\ n \in 1..Len(odpq[q]) /\ n <= MaxBurst
  /\ odpq' = [odpq EXCEPT ![q] = SubSeq(@, n + 1, Len(@))]
  /\ ctx' = [ReleaseCtx(c) EXCEPT ![q] = c]
  /\ IF state[q] # "ready"
     THEN /\ dropped' = dropped \cup {evs[i].n : i \in 1..n}
          /\ UNCHANGED <<pc, burst, bcnt>>
     ELSE /\ burst' = [burst EXCEPT ![c] = evs]
          /\ IF q \in Group
             THEN pc' = [pc EXCEPT ![c] = "acquire"] /\ UNCHANGED bcnt
             ELSE pc' = [pc EXCEPT ![c] = "run"] /\ bcnt' = [bcnt EXCEPT ![c] = n]
          /\ UNCHANGED dropped
  /\ UNCHANGED <<agvars, state, acked, cur, atomic, mid, released, ended,
                 sent, rcvd>>

----------------------------------------------------------------------------
(* atomic_group_dispatch().                                                *)

\* Mutant: takes the free lock although events wait in the stash.
AcquireIfIdle_NoCount(c) ==
  /\ pc[c] = "acquire"
  /\ IF lock = 0
     THEN /\ lock' = 1
          /\ ctx' = ReleaseCtx(c)
          /\ bcnt' = [bcnt EXCEPT ![c] = Len(burst[c])]
          /\ pc' = [pc EXCEPT ![c] = "run"]
     ELSE /\ pc' = [pc EXCEPT ![c] = "count"]
          /\ UNCHANGED <<lock, ctx, bcnt>>
  /\ UNCHANGED <<evcnt, stash, alive, attached, state, acked, odpq, burst, cur, atomic,
                 mid, released, ended, history>>

\* ag_acquire_if_idle(): one compare-and-swap of "unlocked and no events".  On
\* success the burst is dispatched without a round through the stash.
AcquireIfIdle(c) ==
  /\ pc[c] = "acquire"
  /\ IF lock = 0 /\ evcnt = 0
     THEN /\ lock' = 1
          /\ ctx' = ReleaseCtx(c)
          /\ bcnt' = [bcnt EXCEPT ![c] = Len(burst[c])]
          /\ pc' = [pc EXCEPT ![c] = "run"]
     ELSE /\ pc' = [pc EXCEPT ![c] = "count"]
          /\ UNCHANGED <<lock, ctx, bcnt>>
  /\ UNCHANGED <<evcnt, stash, alive, attached, state, acked, odpq, burst, cur, atomic,
                 mid, released, ended, history>>

\* Mutant: the count is raised by one for a whole burst.
EnqCount_One(c) ==
  /\ pc[c] = "count"
  /\ evcnt' = evcnt + 1
  /\ pc' = [pc EXCEPT ![c] = "put"]
  /\ UNCHANGED <<lock, stash, alive, attached, qvars, burst, bcnt, cur, atomic, mid,
                 released, ended, history>>

\* ag_internal_enq(): the count is raised before the events are in the stash.
EnqCount(c) ==
  /\ pc[c] = "count"
  /\ evcnt' = evcnt + Len(burst[c])
  /\ pc' = [pc EXCEPT ![c] = "put"]
  /\ UNCHANGED <<lock, stash, alive, attached, qvars, burst, bcnt, cur, atomic, mid,
                 released, ended, history>>

\* Mutant: after a partial put the whole burst is treated as not stashed.
EnqPut_FreesAll(c) ==
  LET l == PrioOf(Head(burst[c]).q)
      k == Min({Len(burst[c]), StashSize - Len(stash[l])})
  IN
  /\ pc[c] = "put"
  /\ stash' = [stash EXCEPT ![l] = @ \o SubSeq(burst[c], 1, k)]
  /\ burst' = [burst EXCEPT ![c] = IF k < Len(@) THEN @ ELSE <<>>]
  /\ pc' = [pc EXCEPT ![c] = IF k < Len(burst[c]) THEN "uncount" ELSE "trylock"]
  /\ UNCHANGED <<lock, evcnt, alive, attached, qvars, bcnt, cur, atomic, mid, released,
                 ended, history>>

\* ... odp_stash_put_u64() takes as many as fit.
EnqPut(c) ==
  LET l == PrioOf(Head(burst[c]).q)
      k == Min({Len(burst[c]), StashSize - Len(stash[l])})
  IN
  /\ pc[c] = "put"
  /\ stash' = [stash EXCEPT ![l] = @ \o SubSeq(burst[c], 1, k)]
  /\ burst' = [burst EXCEPT ![c] = SubSeq(@, k + 1, Len(@))]
  /\ pc' = [pc EXCEPT ![c] = IF k < Len(burst[c]) THEN "uncount" ELSE "trylock"]
  /\ UNCHANGED <<lock, evcnt, alive, attached, qvars, bcnt, cur, atomic, mid, released,
                 ended, history>>

\* Mutant: events that did not fit are freed and stay in the count.
EnqError_StillCounted(c) ==
  /\ pc[c] = "uncount"
  /\ dropped' = dropped \cup {burst[c][i].n : i \in DOMAIN burst[c]}
  /\ burst' = [burst EXCEPT ![c] = <<>>]
  /\ pc' = [pc EXCEPT ![c] = "trylock"]
  /\ UNCHANGED <<lock, evcnt, stash, alive, attached, qvars, bcnt, cur, atomic, mid, released,
                 ended, sent, rcvd>>

\* ... and the rest is taken off the count and freed, ag_internal_enq_error().
EnqError(c) ==
  /\ pc[c] = "uncount"
  /\ evcnt' = evcnt - Len(burst[c])
  /\ dropped' = dropped \cup {burst[c][i].n : i \in DOMAIN burst[c]}
  /\ burst' = [burst EXCEPT ![c] = <<>>]
  /\ pc' = [pc EXCEPT ![c] = "trylock"]
  /\ UNCHANGED <<lock, stash, alive, attached, qvars, bcnt, cur, atomic, mid, released,
                 ended, sent, rcvd>>

\* ag_trylock(): become the dispatching core, or leave it to the one that is.
Trylock(c) ==
  /\ pc[c] = "trylock"
  /\ lock' = 1
  /\ IF lock = 0
     THEN ctx' = ReleaseCtx(c) /\ pc' = [pc EXCEPT ![c] = "deq"]
     ELSE pc' = [pc EXCEPT ![c] = "idle"] /\ UNCHANGED ctx
  /\ UNCHANGED <<evcnt, stash, alive, attached, state, acked, odpq, burst, bcnt, cur,
                 atomic, mid, released, ended, history>>

\* ag_internal_deq(): first the high priority stash, if the group has a queue
\* of that priority, then the low priority one.
Deq(c) ==
  LET h == IF attached \cap Hi # {} THEN Min({AgMaxBurst, Len(stash["hi"])}) ELSE 0
      k == Min({AgMaxBurst - h, Len(stash["lo"])})
  IN
  /\ pc[c] = "deq"
  /\ burst' = [burst EXCEPT ![c] = SubSeq(stash["hi"], 1, h) \o SubSeq(stash["lo"], 1, k)]
  /\ stash' = [l \in Levels |->
                 SubSeq(stash[l], 1 + (IF l = "hi" THEN h ELSE k), Len(stash[l]))]
  /\ pc' = [pc EXCEPT ![c] = "sub"]
  /\ UNCHANGED <<lock, evcnt, alive, attached, qvars, bcnt, cur, atomic, mid, released,
                 ended, history>>

\* ... the count is lowered after the events are out of the stash;
\* ag_dispatch_batches() starts with all of them ahead.
DeqCount(c) ==
  /\ pc[c] = "sub"
  /\ evcnt' = evcnt - Len(burst[c])
  /\ bcnt' = [bcnt EXCEPT ![c] = IF burst[c] = <<>> THEN @ ELSE Len(burst[c])]
  /\ pc' = [pc EXCEPT ![c] = IF burst[c] = <<>> THEN "unlock" ELSE "run"]
  /\ UNCHANGED <<lock, stash, alive, attached, qvars, burst, cur, atomic, mid, released,
                 ended, history>>

\* Mutant: unlocks whenever it holds the lock, events or no events.
Unlock_IgnoresEvents(c) ==
  /\ pc[c] = "unlock"
  /\ released' = [released EXCEPT ![c] = FALSE]
  /\ lock' = IF released[c] THEN lock ELSE 0
  /\ pc' = [pc EXCEPT ![c] = "idle"]
  /\ UNCHANGED <<evcnt, stash, alive, attached, qvars, burst, bcnt, cur, atomic, mid,
                 ended, history>>

\* Mutant: a core that has given the lock away does not look for events again.
Unlock_NoReacquire(c) ==
  /\ pc[c] = "unlock"
  /\ released' = [released EXCEPT ![c] = FALSE]
  /\ LET done == released[c] \/ evcnt = 0 IN
     /\ lock' = IF done /\ ~released[c] THEN 0 ELSE lock
     /\ pc' = [pc EXCEPT ![c] = IF done THEN "idle" ELSE "deq"]
  /\ UNCHANGED <<evcnt, stash, alive, attached, qvars, burst, bcnt, cur, atomic, mid,
                 ended, history>>

\* Mutant: a core that gave the lock away goes on although another has it.
Unlock_Takes(c) ==
  /\ pc[c] = "unlock"
  /\ released' = [released EXCEPT ![c] = FALSE]
  /\ lock' = IF evcnt = 0 THEN (IF released[c] THEN lock ELSE 0) ELSE 1
  /\ pc' = [pc EXCEPT ![c] = IF evcnt = 0 THEN "idle" ELSE "deq"]
  /\ UNCHANGED <<evcnt, stash, alive, attached, qvars, burst, bcnt, cur, atomic, mid,
                 ended, history>>

\* ag_unlock(): with the lock, one compare-and-swap of "locked and no events";
\* after a release, done if another core has the lock or nothing is left, and
\* the lock is taken again otherwise.
Unlock(c) ==
  /\ pc[c] = "unlock"
  /\ released' = [released EXCEPT ![c] = FALSE]
  /\ LET done == IF released[c] THEN lock = 1 \/ evcnt = 0 ELSE evcnt = 0 IN
     /\ lock' = IF done THEN (IF released[c] THEN lock ELSE 0) ELSE 1
     /\ pc' = [pc EXCEPT ![c] = IF done THEN "idle" ELSE "deq"]
  /\ UNCHANGED <<evcnt, stash, alive, attached, qvars, burst, bcnt, cur, atomic, mid,
                 ended, history>>

----------------------------------------------------------------------------
(* dispatch_events() and the receive functions.                            *)

\* Leading events of one queue that belong to one event group,
\* count_same_evgroup().
CountSame(s) ==
  Max({k \in 1..Len(s) : \A i \in 1..k : s[i].q = s[1].q /\ s[i].g = s[1].g})

\* Events of the next receive call: one, or for a multi-event receive function
\* up to MaxEvents of one event group.
BatchSize(s) == IF s[1].q \in Multi THEN Min({CountSame(s), MaxEvents}) ELSE 1

\* Mutant: the count runs one event ahead of the burst.
BurstLeft_OneAhead(c) == bcnt[c] - BatchSize(burst[c]) - 1

\* event_burst_cnt seen by that call: full batches subtract their size, a
\* trailing partial batch of an event group sets it to zero.
BurstLeft(c) ==
  LET s == burst[c] IN
  IF s[1].q \in Multi /\ mid[c] /\ CountSame(s) < MaxEvents
  THEN 0 ELSE bcnt[c] - BatchSize(s)

\* A receive function is called with the next batch.  dispatch_events() sets
\* the scheduling context when it starts with a queue.
Receive(c) ==
  LET s == burst[c]
      q == s[1].q
      n == BatchSize(s)
  IN
  /\ pc[c] = "run"
  /\ pc' = [pc EXCEPT ![c] = "rcv"]
  /\ bcnt' = [bcnt EXCEPT ![c] = BurstLeft(c)]
  /\ burst' = [burst EXCEPT ![c] = SubSeq(@, n + 1, Len(@))]
  /\ cur' = [cur EXCEPT ![c] = q]
  /\ atomic' = [atomic EXCEPT ![c] = (cur[c] # q) \/ @]
  /\ mid' = [mid EXCEPT ![c] = q \in Multi /\ n < CountSame(s)]
  /\ ended' = [ended EXCEPT ![c] = FALSE]
  /\ rcvd' = rcvd \cup {s[i] : i \in 1..n}
  /\ UNCHANGED <<agvars, qvars, released, sent, dropped>>

\* Mutant: gives the context away with any call of a burst.
ProcessingEnd_AnyTime(c) ==
  /\ pc[c] = "rcv"
  /\ atomic[c]
  /\ IF cur[c] \in Group
     THEN /\ lock' = IF released[c] THEN lock ELSE 0
          /\ released' = [released EXCEPT ![c] = TRUE]
          /\ UNCHANGED ctx
     ELSE ctx' = ReleaseCtx(c) /\ UNCHANGED <<lock, released>>
  /\ atomic' = [atomic EXCEPT ![c] = FALSE]
  /\ ended' = [ended EXCEPT ![c] = TRUE]
  /\ UNCHANGED <<evcnt, stash, alive, attached, state, acked, odpq, pc, burst, bcnt, cur,
                 mid, history>>

\* em_atomic_processing_end(), atomic_group_release().
ProcessingEnd(c) ==
  /\ pc[c] = "rcv"
  /\ atomic[c] /\ bcnt[c] = 0
  /\ IF cur[c] \in Group
     THEN /\ lock' = IF released[c] THEN lock ELSE 0
          /\ released' = [released EXCEPT ![c] = TRUE]
          /\ UNCHANGED ctx
     ELSE ctx' = ReleaseCtx(c) /\ UNCHANGED <<lock, released>>
  /\ atomic' = [atomic EXCEPT ![c] = FALSE]
  /\ ended' = [ended EXCEPT ![c] = TRUE]
  /\ UNCHANGED <<evcnt, stash, alive, attached, state, acked, odpq, pc, burst, bcnt, cur,
                 mid, history>>

\* The receive function returns; after the last one dispatch_events() is done.
ReceiveDone(c) ==
  LET over == burst[c] = <<>> IN
  /\ pc[c] = "rcv"
  /\ pc' = [pc EXCEPT ![c] = IF ~over THEN "run"
                             ELSE IF cur[c] \in Group THEN "unlock" ELSE "idle"]
  /\ cur' = [cur EXCEPT ![c] = IF over THEN None ELSE @]
  /\ atomic' = [atomic EXCEPT ![c] = ~over /\ @]
  /\ ended' = [ended EXCEPT ![c] = FALSE]
  /\ UNCHANGED <<agvars, qvars, burst, bcnt, mid, released, history>>

----------------------------------------------------------------------------
(* Stopping a queue and deleting the group.                                *)

\* em_eo_stop() or em_eo_remove_queue(): the queues are no longer ready, every
\* core is asked to confirm.
StopQueues(Q) ==
  /\ \A q \in Q : state[q] = "ready"
  /\ state' = [q \in Queues |-> IF q \in Q THEN "stopping" ELSE state[q]]
  /\ UNCHANGED <<agvars, acked, odpq, ctx, corevars, history>>

\* A core confirms between two dispatch rounds, the last one completes.
AckStop(c, Q) ==
  /\ pc[c] = "idle"
  /\ \A q \in Q : state[q] = "stopping" /\ c \notin acked[q]
  /\ acked' = [q \in Queues |-> acked[q] \cup (IF q \in Q THEN {c} ELSE {})]
  /\ state' = [q \in Queues |-> IF q \in Q /\ acked'[q] = Cores THEN "stopped"
                                ELSE state[q]]
  /\ UNCHANGED <<agvars, odpq, ctx, corevars, history>>

\* Mutant: deletes a queue that not every core has confirmed as stopped.
QueueDelete_NotStopped(q) ==
  /\ state[q] \in {"stopping", "stopped"} /\ odpq[q] = <<>>
  /\ state' = [state EXCEPT ![q] = "deleted"]
  /\ attached' = attached \ {q}
  /\ UNCHANGED <<lock, evcnt, stash, alive, acked, odpq, ctx, corevars, history>>

\* em_queue_delete(): the stopped queue leaves the group's list.
QueueDelete(q) ==
  /\ state[q] = "stopped" /\ odpq[q] = <<>>
  /\ state' = [state EXCEPT ![q] = "deleted"]
  /\ attached' = attached \ {q}
  /\ UNCHANGED <<lock, evcnt, stash, alive, acked, odpq, ctx, corevars, history>>

\* em_atomic_group_delete(): only without queues; events left in the stashes
\* are freed and the element goes back to the pool.
GroupDelete ==
  /\ alive /\ attached = {}
  /\ alive' = FALSE
  /\ stash' = [l \in Levels |-> <<>>]
  /\ dropped' = dropped \cup UNION {{stash[l][i].n : i \in DOMAIN stash[l]} : l \in Levels}
  /\ UNCHANGED <<lock, evcnt, attached, qvars, corevars, sent, rcvd>>

----------------------------------------------------------------------------
CoreStep(c) ==
  \/ \E q \in Queues, n \in 1..MaxBurst : DispatchRound(c, q, n)
  \/ ScheduleNone(c)
  \/ AcquireIfIdle(c)
  \/ EnqCount(c) \/ EnqPut(c) \/ EnqError(c)
  \/ Trylock(c) \/ Deq(c) \/ DeqCount(c)
  \/ Receive(c) \/ ReceiveDone(c)
  \/ Unlock(c)

Next ==
  \/ \E q \in Queues, g \in Tags : Send(q, g)
  \/ \E c \in Cores : CoreStep(c) \/ ProcessingEnd(c)
  \/ \E Q \in Stoppable : StopQueues(Q) \/ \E c \in Cores : AckStop(c, Q)
  \/ \E q \in Queues : QueueDelete(q)
  \/ GroupDelete

\* Every core keeps running its dispatch loop and receive functions return;
\* nobody has to send, to end the atomic processing or to stop anything.
Spec == Init /\ [][Next]_vars /\ \A c \in Cores : WF_vars(CoreStep(c))

----------------------------------------------------------------------------
\* Types of the word, the stashes and the cores; the event count of the word is
\* never negative
TypeOK ==
  /\ lock \in 0..1
  /\ evcnt \in Nat
  /\ stash \in [Levels -> Seq(Event)]
  /\ \A l \in Levels : Len(stash[l]) <= StashSize
  /\ alive \in BOOLEAN
  /\ attached \subseteq Group
  /\ state \in [Queues -> QStates]
  /\ acked \in [Queues -> SUBSET Cores]
  /\ odpq \in [Queues -> Seq(Event)]
  /\ ctx \in [Queues -> Cores \cup {None}]
  /\ pc \in [Cores -> Steps]
  /\ burst \in [Cores -> Seq(Event)]
  /\ bcnt \in [Cores -> Int]
  /\ cur \in [Cores -> Queues \cup {None}]
  /\ {atomic, mid, released, ended} \subseteq [Cores -> BOOLEAN]
  /\ sent \in 0..NumEvents
  /\ rcvd \subseteq Event
  /\ dropped \subseteq 1..NumEvents

\* The core runs receive functions of the group, or is about to look for more
\* of its events, and has not given the lock away.
HoldsLock(c) ==
  /\ \/ pc[c] \in {"deq", "sub", "unlock"}
     \/ pc[c] \in {"run", "rcv"} /\ (IF pc[c] = "rcv" THEN cur[c] ELSE burst[c][1].q) \in Group
  /\ ~released[c]

\* The lock bit is set exactly when one core believes to hold it: nobody
\* unlocks for another, nobody dequeues (single-consumer stash) without it.
LockHasOneHolder ==
  Cardinality({c \in Cores : HoldsLock(c)}) = lock

\* Receive calls of one atomic queue, or of one atomic group, that have not
\* called em_atomic_processing_end() themselves never overlap.
ExclusiveReceive ==
  \A c, d \in Cores :
    (c # d /\ pc[c] = "rcv" /\ pc[d] = "rcv" /\ ~ended[c] /\ ~ended[d])
      => cur[c] # cur[d] /\ ~({cur[c], cur[d]} \subseteq Group)

\* Events of the cores of H that have len[c] events in hand, as <<core, index>>.
Slots(H, len) == UNION {{c} \X (1..len[c]) : c \in H}

\* Cores whose burst is counted in evcnt and not in a stash.
Counting == {c \in Cores : pc[c] \in {"put", "uncount", "sub"}}

Lens == [c \in Cores |-> Len(burst[c])]

\* The event count never lags behind the stash: it counts the stashed events
\* and those of bursts between counting and stashing or unstashing.
CountCoversStash ==
  evcnt = Len(stash["hi"]) + Len(stash["lo"]) + Cardinality(Slots(Counting, Lens))

\* When no core is at work on the group nothing is left in its stashes and the
\* lock is free: ag_unlock() never strands events another core left behind.
NothingStranded ==
  (\A c \in Cores : pc[c] = "idle")
    => lock = 0 /\ evcnt = 0 /\ stash = [l \in Levels |-> <<>>]

\* No core still works on the group when its element is freed.
FreedGroupUnused ==
  ~alive => \A c \in Cores : pc[c] = "idle" \/ cur[c] \in Queues \ Group
                               \/ (burst[c] # <<>> /\ burst[c][1].q \notin Group)

InSeq(s) == {s[i].n : i \in DOMAIN s}
Distinct(s) == \A i, j \in DOMAIN s : s[i].n = s[j].n => i = j

\* Where an event can be: waiting in an ODP queue, in a stash, in the hands of
\* a core, with the application, or freed.
Places == ({"odpq"} \X Queues) \cup ({"stash"} \X Levels) \cup ({"burst"} \X Cores)
            \cup ({"out"} \X {"rcvd", "dropped"})

At(p) == CASE p[1] = "odpq"  -> InSeq(odpq[p[2]])
           [] p[1] = "stash" -> InSeq(stash[p[2]])
           [] p[1] = "burst" -> InSeq(burst[p[2]])
           [] p[1] = "out"   -> IF p[2] = "rcvd" THEN {e.n : e \in rcvd} ELSE dropped

\* Every event sent is in exactly one place, and there once.
EachEventOnce ==
  /\ UNION {At(p) : p \in Places} = 1..sent
  /\ \A p, r \in Places : p # r => At(p) \cap At(r) = {}
  /\ \A q \in Queues : Distinct(odpq[q])
  /\ \A l \in Levels : Distinct(stash[l])
  /\ \A c \in Cores : Distinct(burst[c])

\* Receive functions get the events of an atomic queue in the order in which
\* they were sent, whichever cores and stashes they pass.
InOrder ==
  [][\A e \in rcvd' \ rcvd : \A f \in rcvd : f.q = e.q => f.n < e.n]_vars

\* Once every core has confirmed that a queue is stopped, and the EO's stop
\* function may run, no receive function is called with its events.
QuietWhenStopped ==
  [][\A e \in rcvd' \ rcvd : state[e.q] \in {"ready", "stopping"}]_vars

\* Every event that is sent is received or freed.
Delivered == <>[](Cardinality(rcvd) + Cardinality(dropped) = sent)

\* The word, the stashes and the cores agree: one holder of the lock, a count
\* that covers the stashes, no event stranded, lost or doubled, and nobody at
\* work on a group that was freed.
AtomicGroupInv ==
  /\ TypeOK /\ LockHasOneHolder /\ CountCoversStash /\ NothingStranded /\ EachEventOnce
  /\ FreedGroupUnused

\* Receive functions get the events of a queue in order, and none once the
\* queue is stopped.
ReceivesInOrder == InOrder /\ QuietWhenStopped
=============================================================================
