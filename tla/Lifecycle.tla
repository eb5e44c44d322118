----------------------------- MODULE Lifecycle -----------------------------
(***************************************************************************)
(* Starting and ending EM and its cores (event_machine_init.c, em_init.c,  *)
(* queue_group_join_all() and queue_group_leave_all()): what becomes of    *)
(* the events in the scheduler, in local queues and in control queues, of  *)
(* the locks of the queue groups, and of what em_init() has taken.         *)
(*                                                                         *)
(* Every queue group has one atomic queue at most.  The ODP scheduler is   *)
(* external: a thread prefetches events of a queue of its schedule groups  *)
(* and keeps the atomic context of the queue until a later schedule call   *)
(* finds nothing prefetched; a paused thread gets what it has prefetched   *)
(* and no more.  The handshake of terminating cores is in QueueGroup.tla.  *)
(***************************************************************************)
EXTENDS Integers, Sequences, SequencesExt, FiniteSets, FiniteSetsExt

CONSTANTS
  Thr,          \* the threads that become EM-cores
  MainThr,      \* the thread that calls em_init() and em_term()
  NoThr,
  QGroups,      \* queue groups, numbered in the order of their elements
  DefaultGrp,   \* EM_QUEUE_GROUP_DEFAULT
  WithQueues,   \* the groups that have a queue
  Evs,          \* events
  MaxTaken,     \* bound: events that a schedule call takes from a queue
  FlushOrphans, \* opt.queue_group.term_local_flush_orphans
  SameThread,   \* a thread goes on after em_term_local(): as a core, or to em_term()
  QuietMoves,   \* a core is taken out of a group while it has no event of it
  InitFails,    \* em_init() may fail
  TermFails,    \* the steps of em_term() that may fail
  MaxStarts, MaxInits  \* bounds: starts of cores, calls of em_init()

\* What em_init() takes from ODP and the system, in order, besides em_shm
InitSteps == <<"libconfig", "pool", "event_group", "queue", "queue_group", "ctrl">>
\* What em_term() gives back, in order
TermSteps == <<"ctrl", "libconfig", "pool", "queue", "event_group", "queue_group", "shm">>

ASSUME LifecycleAssumption ==
  /\ Thr \subseteq Nat
  /\ IsFiniteSet(QGroups) /\ QGroups = 1..Cardinality(QGroups) /\ DefaultGrp \in QGroups
  /\ MainThr \in Nat \ Thr /\ NoThr \notin Thr \cup {MainThr}
  /\ WithQueues \subseteq QGroups
  /\ {FlushOrphans, SameThread, QuietMoves, InitFails} \subseteq BOOLEAN
  /\ TermFails \subseteq {"pool", "event_group", "shm"}
  /\ {MaxTaken, MaxStarts, MaxInits} \subseteq Nat \ {0}

VARIABLES
  em,         \* em_shm is set, em_shm->is_init, and what em_init() has taken
  life,       \* where each thread is between em_init_local() and em_term_local()
  gi,         \* the next group that queue_group_leave_all() looks at
  qmask,      \* queue_group_elem_t::core_mask
  qmem,       \* the members of the ODP schedule group
  qlock,      \* queue_group_elem_t::lock
  flag,       \* em_locm_t::is_sched_paused
  odpPaused,  \* odp_schedule_pause() is in effect for the thread
  at,         \* where each event is
  actx,       \* the thread that has the atomic context of the group's queue
  due,        \* history: events of orphan groups that their last core shall flush
  leaked,     \* history: em_term() found events that were not returned
  twice,      \* history: em_term() used or gave back what was not there any more
  starts, inits

lvars == <<em, life, gi, qmask, qmem, qlock, flag, odpPaused, at, actx, due, leaked, twice,
           starts, inits>>
grpvars == <<qmask, qmem, qlock>>
history == <<leaked, twice, starts, inits>>

InPool     == <<"pool", 0>>
InQueue(g) == <<"queue", g>>
Prefetched(t) == <<"pre", t>>
Local(t)   == <<"local", t>>
Ctrl(t)    == <<"ctrl", t>>

Found(p)   == {e \in Evs : at[e] = p}
AllDown    == \A t \in Thr : life[t] = "down"
Moved(B, p) == [e \in Evs |-> IF e \in B THEN p ELSE at[e]]
Returned(B) == Moved(B, InPool)

\* A schedule call that finds nothing prefetched releases the context of before
CtxReleased(t) == [g \in QGroups |-> IF actx[g] = t THEN NoThr ELSE actx[g]]

\* The groups whose events a schedule call of the thread may get
Schedulable(t) ==
  {g \in QGroups : /\ ~odpPaused[t] /\ t \in qmem[g]
                   /\ actx[g] \in {NoThr, t} /\ Found(InQueue(g)) # {}}

LifecycleInit ==
  /\ em = [shm |-> FALSE, init |-> FALSE, held |-> {}]
  /\ life = [t \in Thr |-> "down"] /\ gi = [t \in Thr |-> 0]
  /\ qmask = [g \in QGroups |-> {}] /\ qmem = [g \in QGroups |-> {}]
  /\ qlock = [g \in QGroups |-> NoThr]
  /\ flag = [t \in Thr \cup {MainThr} |-> FALSE] /\ odpPaused = flag
  /\ at = [e \in Evs |-> InPool] /\ actx = [g \in QGroups |-> NoThr]
  /\ due = {} /\ leaked = FALSE /\ twice = FALSE /\ starts = 0 /\ inits = 0

-----------------------------------------------------------------------------
(* em_init() and the life of a core *)

\* em_init(): the steps before the one that fails are not undone
EmInit(n) ==
  /\ ~em.shm /\ inits < MaxInits
  /\ n = Len(InitSteps) \/ InitFails
  /\ em' = [shm |-> TRUE, init |-> n = Len(InitSteps),
            held |-> ToSet(SubSeq(InitSteps, 1, n))]
  /\ inits' = inits + 1
  /\ UNCHANGED <<life, gi, grpvars, flag, odpPaused, at, actx, due, leaked, twice, starts>>

\* init_local(): core-local memory from scratch, default_queue_group_join().
\* Scheduling is not paused for a thread that was no core before.  Nobody
\* goes on after an em_term() that failed.
Start(t) ==
  /\ em.init /\ "ctrl" \in em.held /\ life[t] = "down" /\ starts < MaxStarts
  /\ qlock[DefaultGrp] = NoThr
  /\ life' = [life EXCEPT ![t] = "up"]
  /\ qmask' = [qmask EXCEPT ![DefaultGrp] = @ \cup {t}]
  /\ qmem' = [qmem EXCEPT ![DefaultGrp] = @ \cup {t}]
  /\ flag' = [flag EXCEPT ![t] = FALSE]
  /\ odpPaused' = IF SameThread THEN odpPaused ELSE [odpPaused EXCEPT ![t] = FALSE]
  /\ starts' = starts + 1
  /\ UNCHANGED <<em, gi, qlock, at, actx, due, leaked, twice, inits>>

\* A completed em_queue_group_modify(), see QueueGroup.tla: the application
\* modifies groups while no core terminates
Assign(g, m) ==
  /\ g # DefaultGrp /\ m # qmask[g] /\ \E t \in Thr : life[t] = "up"
  /\ \A t \in Thr : life[t] \in {"up", "down"}
  /\ \A t \in m : life[t] = "up"
  /\ QuietMoves => actx[g] \notin qmask[g] \ m
  /\ qmask' = [qmask EXCEPT ![g] = m] /\ qmem' = [qmem EXCEPT ![g] = m]
  /\ UNCHANGED <<em, life, gi, qlock, flag, odpPaused, at, actx, due, history>>

\* An event is sent by a core that is up: to a queue, to a local queue of its
\* own, or as a control event to a thread that has a control queue
Send_to(t, e) ==
  /\ life[t] = "up" /\ at[e] = InPool
  /\ \E p \in {InQueue(g) : g \in WithQueues} \cup {Local(t)} \cup {Ctrl(u) : u \in Thr} :
       at' = Moved({e}, p)
  /\ UNCHANGED <<em, life, gi, grpvars, flag, odpPaused, actx, due, history>>

\* A schedule call of the dispatch loop takes events from one queue
Prefetch(t, g, B) ==
  /\ life[t] = "up" /\ ~flag[t] /\ Found(Prefetched(t)) = {}
  /\ g \in Schedulable(t)
  /\ B # {} /\ B \subseteq Found(InQueue(g)) /\ Cardinality(B) <= MaxTaken
  /\ at' = Moved(B, Prefetched(t))
  /\ actx' = [CtxReleased(t) EXCEPT ![g] = t]
  /\ due' = due \ B
  /\ UNCHANGED <<em, life, gi, grpvars, flag, odpPaused, history>>

\* The dispatch loop gives an event to a receive function, which frees it, or
\* a local or control event is handled; or the schedule call finds nothing
Handle(t) ==
  /\ life[t] = "up"
  /\ \/ \E e \in Found(Prefetched(t)) \cup Found(Local(t)) \cup Found(Ctrl(t)) :
          at' = Returned({e}) /\ UNCHANGED actx
     \/ /\ Found(Prefetched(t)) = {} /\ Schedulable(t) = {}
        /\ actx' = CtxReleased(t) /\ UNCHANGED at
  /\ UNCHANGED <<em, life, gi, grpvars, flag, odpPaused, due, history>>

\* dispatch.sched_pause: scheduling is paused after em_dispatch(), resumed
\* when it is called again
PauseDispatch(t) ==
  /\ life[t] = "up" /\ ~flag[t] /\ Found(Prefetched(t)) = {}
  /\ flag' = [flag EXCEPT ![t] = TRUE] /\ odpPaused' = [odpPaused EXCEPT ![t] = TRUE]
  /\ actx' = CtxReleased(t)
  /\ UNCHANGED <<em, life, gi, grpvars, at, due, history>>

\* Mutant: only the flag is cleared
ResumeDispatch_Flag(t) ==
  /\ life[t] = "up" /\ flag[t]
  /\ flag' = [flag EXCEPT ![t] = FALSE]
  /\ UNCHANGED <<em, life, gi, grpvars, odpPaused, at, actx, due, history>>

ResumeDispatch(t) ==
  /\ life[t] = "up" /\ flag[t]
  /\ flag' = [flag EXCEPT ![t] = FALSE] /\ odpPaused' = [odpPaused EXCEPT ![t] = FALSE]
  /\ UNCHANGED <<em, life, gi, grpvars, at, actx, due, history>>

-----------------------------------------------------------------------------
(* em_term_local() of a core *)

\* Mutant: the scheduler is flushed without being paused
term_core_Running(t) ==
  /\ life[t] = "up"
  /\ life' = [life EXCEPT ![t] = "flush"]
  /\ UNCHANGED <<em, gi, grpvars, flag, odpPaused, at, actx, due, history>>

\* term_core() up to the flush, the handshake left out
term_core(t) ==
  /\ life[t] = "up"
  /\ life' = [life EXCEPT ![t] = "flush"]
  /\ flag' = [flag EXCEPT ![t] = TRUE] /\ odpPaused' = [odpPaused EXCEPT ![t] = TRUE]
  /\ UNCHANGED <<em, gi, grpvars, at, actx, due, history>>

\* Mutant: term_core() ends after the second flush of the orphans
AfterFlush_End == [flush |-> "local", orphans |-> "pause", again |-> "end"]

\* What follows the flush in each of the three places it is called from
AfterFlush == [flush |-> "local", orphans |-> "pause", again |-> "unlock"]

\* Mutant: the loop ends when a call returns something
flush_Once(t) ==
  /\ life[t] \in DOMAIN AfterFlush
  /\ at' = Returned(Found(Prefetched(t)))
  /\ life' = [life EXCEPT ![t] = AfterFlush[@]]
  /\ UNCHANGED <<em, gi, grpvars, flag, odpPaused, actx, due, history>>

\* flush_scheduler_events(): one schedule call; the loop ends with the first
\* one that returns nothing
flush_scheduler_events(t) ==
  /\ life[t] \in DOMAIN AfterFlush
  /\ IF Found(Prefetched(t)) # {}
     THEN at' = Returned(Found(Prefetched(t))) /\ UNCHANGED <<life, actx, due>>
     ELSE IF Schedulable(t) # {}
     THEN \E g \in Schedulable(t), B \in SUBSET Evs :
            /\ B # {} /\ B \subseteq Found(InQueue(g)) /\ Cardinality(B) <= MaxTaken
            /\ at' = Returned(B) /\ actx' = [CtxReleased(t) EXCEPT ![g] = t]
            /\ due' = due \ B /\ UNCHANGED life
     ELSE /\ actx' = CtxReleased(t)
          /\ life' = [life EXCEPT ![t] = AfterFlush[@]] /\ UNCHANGED <<at, due>>
  /\ UNCHANGED <<em, gi, grpvars, flag, odpPaused, history>>

\* queue_term_local(), then queue_group_leave_all() begins
queue_term_local(t) ==
  /\ life[t] = "local"
  /\ at' = Returned(Found(Local(t)))
  /\ life' = [life EXCEPT ![t] = "leave"] /\ gi' = [gi EXCEPT ![t] = 1]
  /\ UNCHANGED <<em, grpvars, flag, odpPaused, actx, due, history>>

LeavesGroup(t, g) ==
  /\ qmask' = [qmask EXCEPT ![g] = @ \ {t}]
  /\ qmem' = [qmem EXCEPT ![g] = @ \ {t}]

\* Only this core is in the mask, and there are queues
Orphan(t, g) == FlushOrphans /\ qmask[g] = {t} /\ g \in WithQueues

\* queue_group_leave_all(), the loop over the groups: an orphan stays locked
LeaveNext(t) ==
  LET g == gi[t] IN
  /\ life[t] = "leave" /\ g \in QGroups
  /\ qlock[g] = NoThr
  /\ IF t \in qmask[g] /\ Orphan(t, g)
     THEN qlock' = [qlock EXCEPT ![g] = t] /\ UNCHANGED <<qmask, qmem>>
     ELSE /\ IF t \in qmask[g] THEN LeavesGroup(t, g) ELSE UNCHANGED <<qmask, qmem>>
          /\ UNCHANGED qlock
  /\ gi' = [gi EXCEPT ![t] = g + 1]
  /\ UNCHANGED <<em, life, flag, odpPaused, at, actx, due, history>>

Locked(t) == {g \in QGroups : qlock[g] = t}

\* term_core() returns and em_term_local() resets the core-local memory
TermDone(t) ==
  /\ life' = [life EXCEPT ![t] = "down"] /\ gi' = [gi EXCEPT ![t] = 0]
  /\ flag' = [flag EXCEPT ![t] = FALSE]

\* Mutant: scheduling is not resumed for the orphans
EndLeave_Paused(t) ==
  /\ life[t] = "leave" /\ gi[t] \notin QGroups
  /\ IF Locked(t) = {} THEN TermDone(t) /\ UNCHANGED due
     ELSE /\ life' = [life EXCEPT ![t] = "orphans"] /\ UNCHANGED <<gi, flag>>
          /\ due' = due \cup UNION {Found(InQueue(g)) : g \in Locked(t)}
  /\ UNCHANGED <<em, grpvars, odpPaused, at, actx, history>>

\* The loop has ended: with orphans, scheduling is resumed to flush them
EndLeave(t) ==
  /\ life[t] = "leave" /\ gi[t] \notin QGroups
  /\ IF Locked(t) = {} THEN TermDone(t) /\ UNCHANGED <<odpPaused, due>>
     ELSE /\ life' = [life EXCEPT ![t] = "orphans"] /\ UNCHANGED gi
          /\ flag' = [flag EXCEPT ![t] = FALSE] /\ odpPaused' = [odpPaused EXCEPT ![t] = FALSE]
          /\ due' = due \cup UNION {Found(InQueue(g)) : g \in Locked(t)}
  /\ UNCHANGED <<em, grpvars, at, actx, history>>

PauseAgain(t) ==
  /\ life[t] = "pause"
  /\ life' = [life EXCEPT ![t] = "again"]
  /\ flag' = [flag EXCEPT ![t] = TRUE] /\ odpPaused' = [odpPaused EXCEPT ![t] = TRUE]
  /\ UNCHANGED <<em, gi, grpvars, at, actx, due, history>>

\* Mutant: a group is left and stays locked
UnlockOrphan_Keep(t) ==
  /\ life[t] = "unlock"
  /\ \E g \in Locked(t) : LeavesGroup(t, g)
  /\ TermDone(t)
  /\ due' = {} /\ UNCHANGED <<em, qlock, odpPaused, at, actx, history>>

\* The list of orphans is drained: leave one and unlock it
UnlockOrphan(t) ==
  LET g == Min(Locked(t)) IN
  /\ life[t] = "unlock"
  /\ LeavesGroup(t, g) /\ qlock' = [qlock EXCEPT ![g] = NoThr]
  /\ due' = due \ Found(InQueue(g))
  /\ IF Locked(t) = {g} THEN TermDone(t) ELSE UNCHANGED <<life, gi, flag>>
  /\ UNCHANGED <<em, odpPaused, at, actx, history>>

TermStep(t) ==
  \/ flush_scheduler_events(t) \/ queue_term_local(t) \/ LeaveNext(t) \/ EndLeave(t)
  \/ PauseAgain(t) \/ UnlockOrphan(t)

-----------------------------------------------------------------------------
(* em_term() *)

\* queue_group_join_all() and the flush that follows, on thread t: all that
\* is in the scheduler, unless the thread is paused without the flag saying so
FlushedBy(t) ==
  IF odpPaused[t] /\ ~flag[t] THEN {}
  ELSE UNION {Found(InQueue(g)) : g \in {h \in QGroups : actx[h] = NoThr}}

\* delete_ctrl_queues() frees the events in the control queues
CtrlFreed == IF "ctrl" \in em.held THEN UNION {Found(Ctrl(u)) : u \in Thr} ELSE {}

\* Mutant: a failing delete_ctrl_queues() does not stop em_term()
TermStepOk_Go(i, left) == TermSteps[i] = "pool" => left = {}

\* A second em_term() fails where it deletes the control queues; pool_term()
\* fails if an event has not been returned
TermStepOk(i, left) ==
  CASE TermSteps[i] = "ctrl" -> "ctrl" \in em.held
    [] TermSteps[i] = "pool" -> left = {}
    [] OTHER                 -> TRUE

\* em_term() on thread t, after em_term_local() of all cores.  It returns at
\* the first step that fails and keeps em_shm.
em_term(t) ==
  LET freed_ == FlushedBy(t) \cup CtrlFreed
      left   == {e \in Evs \ freed_ : at[e] # InPool}
  IN
  /\ em.init /\ AllDown
  /\ \E n \in 0..Len(TermSteps) :
       /\ \A i \in 1..n : TermStepOk(i, left)
       /\ n < Len(TermSteps) => ~TermStepOk(n + 1, left) \/ TermSteps[n + 1] \in TermFails
       /\ em' = IF n = Len(TermSteps) THEN [shm |-> FALSE, init |-> FALSE, held |-> {}]
                ELSE [em EXCEPT !.held = @ \ ToSet(SubSeq(TermSteps, 1, n))]
       /\ twice' = (twice \/ "queue" \notin em.held
                          \/ \E i \in 1..n : TermSteps[i] \notin em.held \cup {"shm"})
       /\ leaked' = (leaked \/ left # {})
  /\ at' = Returned(freed_)
  /\ qmask' = [g \in QGroups |-> {}] /\ qmem' = [g \in QGroups |-> {}]
  /\ flag' = [flag EXCEPT ![t] = TRUE] /\ odpPaused' = [odpPaused EXCEPT ![t] = TRUE]
  /\ due' = {}
  /\ UNCHANGED <<life, gi, qlock, actx, starts, inits>>

LifecycleNext ==
  \/ \E n \in 0..Len(InitSteps) : EmInit(n)
  \/ \E t \in Thr :
       \/ Start(t) \/ Handle(t) \/ PauseDispatch(t) \/ ResumeDispatch(t) \/ term_core(t)
       \/ TermStep(t)
       \/ \E e \in Evs : Send_to(t, e)
       \/ \E g \in QGroups, B \in SUBSET Evs : Prefetch(t, g, B)
  \/ \E g \in QGroups, m \in SUBSET Thr : Assign(g, m)
  \/ \E t \in {MainThr} \cup (IF SameThread THEN Thr ELSE {}) : em_term(t)

LifecycleSpec == LifecycleInit /\ [][LifecycleNext]_lvars

LifecycleFairness == \A t \in Thr : WF_lvars(TermStep(t))
-----------------------------------------------------------------------------
(* Properties *)

\* Types: what em_init() holds, where each core is in em_term_local(), the
\* masks, members, locks and atomic contexts of the groups, and the events
LifecycleTypeOK ==
  /\ em \in [shm : BOOLEAN, init : BOOLEAN, held : SUBSET ToSet(InitSteps)]
  /\ life \in [Thr -> {"down", "up", "local", "leave", "pause", "unlock"} \cup DOMAIN AfterFlush]
  /\ gi \in [Thr -> 0..Cardinality(QGroups) + 1]
  /\ qmask \in [QGroups -> SUBSET Thr] /\ qmem \in [QGroups -> SUBSET Thr]
  /\ qlock \in [QGroups -> Thr \cup {NoThr}] /\ actx \in [QGroups -> Thr \cup {NoThr}]
  /\ DOMAIN at = Evs /\ due \subseteq Evs

(* em_term() is called when all cores have run em_term_local(), and "flushes
   the rest of the events": it must find none that it cannot reach, in a local
   queue, prefetched by a thread that will not schedule again, or in a queue
   whose atomic context such a thread has kept. *)
TermReachesAllEvents == ~leaked

(* em_term() that failed may be called again: it neither frees what it has
   freed before nor uses the queue table after freeing it. *)
TermTouchesOnlyHeld == ~twice

(* A core that is dispatching gets events from the scheduler: when EM takes
   the core for not paused (is_sched_paused), so does ODP. *)
DispatchingSchedules ==
  \A t \in Thr : life[t] = "up" /\ ~flag[t] => ~odpPaused[t]

(* term_core() and queue_group_leave_all() free only events that the core has
   prefetched or that no other core could handle: never events in the queues
   of a group that has other cores. *)
FlushSparesServed ==
  [][\A e \in Evs, g \in QGroups, t \in Thr :
       /\ at[e] = InQueue(g) /\ at'[e] = InPool /\ life[t] \notin {"up", "down"}
       /\ actx'[g] = t
       => qmask[g] = {t}]_lvars

(* The events that were in the queues of a group when its last core started
   to flush them are gone when that core unlocks the group. *)
OrphansFlushed ==
  [][\A g \in QGroups : qlock[g] # NoThr /\ qlock'[g] = NoThr
                        => due \cap Found(InQueue(g)) = {}]_lvars

(* A core that terminates gets through, although it and others keep groups
   locked while they flush the scheduler; unless other cores go on sending
   events for ever, which the flush of an orphan would have to keep up with. *)
TerminationEnds ==
  \/ []<><<\E t \in Thr, e \in Evs : Send_to(t, e)>>_lvars
  \/ \A t \in Thr : life[t] = "flush" ~> life[t] \in {"down", "up"}

(* What EM believes of the scheduler and of what it holds is true: a core that
   dispatches is not paused, and em_term() gives back what it has. *)
LifecycleInv == LifecycleTypeOK /\ DispatchingSchedules /\ TermTouchesOnlyHeld

(* A core that terminates frees the events of the groups it was the last core
   of, and of no group that others serve. *)
FlushTakesItsOwn == FlushSparesServed /\ OrphansFlushed
=============================================================================
