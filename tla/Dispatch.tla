------------------------------ MODULE Dispatch ------------------------------
(***************************************************************************)
(* The dispatch loop of one EM core (em_dispatcher_inline.h and            *)
(* event_machine_dispatcher.c): polling the control queues, asking the     *)
(* scheduler for a burst, calling the EO receive functions batch by batch, *)
(* emptying the core's local queues between batches, the idle state, the   *)
(* duration of a dispatch call and the pause of the scheduler at its end.  *)
(*                                                                         *)
(* An event is represented by the event group it was sent with.  A group   *)
(* is its post count only: EventGroup.tla has the counters in full.  The   *)
(* other cores appear as senders to the scheduled queues and as the one    *)
(* who takes a queue out of use.                                           *)
(***************************************************************************)
EXTENDS Integers, Sequences, FiniteSets, FiniteSetsExt

CONSTANTS
  SchedQ,       \* the scheduled queues
  LocalQ,       \* the queues of type EM_QUEUE_TYPE_LOCAL
  NoQ,
  Prio,         \* the priority of each local queue
  MultiRcv,     \* the queues whose EO has a multi-event receive function
  MaxEvents,    \* queue_elem_t::max_events of those
  Groups, NoGrp,
  Budget,       \* bound: events sent with each group, and with none
  LocalBurst,   \* EM_QUEUE_LOCAL_MULTI_MAX_BURST
  MaxPrefetch,  \* bound: events the scheduler takes for a core at a time
  Opts,         \* the durations and options of the dispatch calls
  UserFn,       \* an input-poll function is configured
  CallbackDrops,\* a dispatch enter-callback may drop events
  MayStop,      \* the queues that another core may take out of use
  SyncInGroup,  \* synchronous calls are also made while in an event group
  MaxCalls, MaxCtrl  \* bounds: dispatch calls, control events

Queues == SchedQ \cup LocalQ
Tags   == Groups \cup {NoGrp}
Prios  == {Prio[q] : q \in LocalQ}

ASSUME DispatchAssumption ==
  /\ IsFiniteSet(Queues) /\ NoQ \notin Queues /\ NoGrp \notin Groups /\ SchedQ \cap LocalQ = {}
  /\ Prio \in [LocalQ -> Nat] /\ MultiRcv \subseteq Queues /\ MayStop \subseteq Queues
  /\ Budget \in [Tags -> Nat]
  /\ {MaxEvents, LocalBurst, MaxPrefetch} \subseteq Nat \ {0}
  /\ \A o \in Opts : o.burst \in Nat \ {0} /\ o.n \in Nat \ {0}
  /\ {UserFn, CallbackDrops, SyncInGroup} \subseteq BOOLEAN

VARIABLES
  pc,         \* where the core is: "app" is outside of dispatch
  queued,     \* what each scheduled queue holds
  pre,        \* what the scheduler has already taken for this core
  local,      \* local_queues.prio[].stash
  empty,      \* local_queues.empty
  emptyPrio,  \* local_queues.prio[].empty_prio
  cur,        \* current.q_elem, .sched_q_elem and .egrp_elem
  burst,      \* the rest of the scheduled burst
  entries,    \* the rest of the burst taken from the local queues
  lbatch,     \* of those, the rest of the ones for the local queue served now
  run,        \* num_events of the receive call under way, and how many it got
  idle,       \* idle_state = IDLE_STATE_IDLE
  paused,     \* is_sched_paused
  opt,        \* the dispatch call under way
  tot,        \* its rounds, events, noev_rounds and local_event_cnt
  got,        \* round_events
  post,       \* the post count of each event group
  ready,      \* the queues in EM_QUEUE_STATE_READY
  ctrl,       \* the core's unscheduled control queue
  unsent,     \* events not sent yet
  freed,      \* events of a group that were freed without being dispatched
  handled,    \* events handed out or freed by the dispatch call under way
  calls, ctrls

queues == <<queued, pre, local, empty, emptyPrio>>
work   == <<burst, entries, lbatch, run>>
call   == <<paused, opt, tot, got, calls>>
env    == <<ready, unsent>>
dvars  == <<pc, queues, cur, work, idle, call, post, ctrl, freed, handled, env, ctrls>>

NoRun  == [num |-> 0, kept |-> 0]
NoCur  == [q |-> NoQ, sq |-> NoQ, egrp |-> NoGrp]
NoPre  == [q |-> NoQ, evs |-> <<>>]
NoTot  == [rounds |-> 0, events |-> 0, noev |-> 0, local |-> 0]

\* dispatch_init_local() and queue_init_local()
DispatchInit ==
  /\ pc = "app" /\ cur = NoCur /\ idle = FALSE
  /\ queued = [q \in SchedQ |-> <<>>] /\ pre = NoPre
  /\ local = [p \in Prios |-> <<>>] /\ empty = TRUE /\ emptyPrio = [p \in Prios |-> TRUE]
  /\ burst = <<>> /\ entries = <<>> /\ lbatch = <<>> /\ run = NoRun
  /\ paused = FALSE /\ opt = (CHOOSE o \in Opts : TRUE) /\ tot = NoTot /\ got = 0 /\ calls = 0
  /\ post = [g \in Groups |-> Budget[g]]
  /\ ready = Queues /\ ctrl = <<>> /\ unsent = Budget
  /\ freed = [g \in Tags |-> 0] /\ handled = 0 /\ ctrls = 0

Count(s, g) == Cardinality({i \in DOMAIN s : s[i] = g})
AddCounts(f, s) == [g \in DOMAIN f |-> f[g] + Count(s, g)]

-----------------------------------------------------------------------------
(* Sending *)

\* The code that may send to a local queue of this core: the application
\* outside of dispatch, the input-poll function and an EO receive function
SenderRuns ==
  \/ pc = "app"
  \/ pc = "poll" /\ UserFn
  \/ pc = "rcv" /\ run.kept > 0

\* Mutant: the priority is only marked when the core had no local events
send_local_Flag(q, g) ==
  /\ SenderRuns /\ q \in ready
  /\ local' = [local EXCEPT ![Prio[q]] = Append(@, [q |-> q, g |-> g])]
  /\ empty' = FALSE
  /\ emptyPrio' = IF empty THEN [emptyPrio EXCEPT ![Prio[q]] = FALSE] ELSE emptyPrio
  /\ UNCHANGED <<queued, pre>>

\* send_local() and send_local_multi(): the stash of the queue's priority
send_local(q, g) ==
  /\ SenderRuns /\ q \in ready
  /\ local' = [local EXCEPT ![Prio[q]] = Append(@, [q |-> q, g |-> g])]
  /\ empty' = FALSE /\ emptyPrio' = [emptyPrio EXCEPT ![Prio[q]] = FALSE]
  /\ UNCHANGED <<queued, pre>>

\* A send to a scheduled queue, from this core or another.  The core looks at
\* these queues in one place, so that other cores' sends can be taken there
send_sched(q, g) ==
  /\ pc \in {"sched", "rcv"} /\ q \in ready
  /\ queued' = [queued EXCEPT ![q] = Append(@, g)]
  /\ UNCHANGED <<pre, local, empty, emptyPrio>>

Send(g) ==
  /\ unsent[g] > 0
  /\ unsent' = [unsent EXCEPT ![g] = @ - 1]
  /\ (\E q \in LocalQ : send_local(q, g)) \/ (\E q \in SchedQ : send_sched(q, g))
  /\ UNCHANGED <<pc, cur, work, idle, call, post, ready, ctrl, freed, handled, ctrls>>

\* Another core takes a queue out of use, at a time when it makes a difference
StopQueue(q) ==
  /\ pc \in {"sched", "rcv", "entry"}
  /\ q \in MayStop \cap ready
  /\ ready' = ready \ {q}
  /\ UNCHANGED <<pc, queues, cur, work, idle, call, post, ctrl, unsent, freed, handled, ctrls>>

-----------------------------------------------------------------------------
(* Event groups and control events *)

\* handle_ctrl_events(): the group that the i-th control event is counted to.
\* event_group_set_local() leaves current.egrp_elem alone for an event without
\* a group, and egrp_elem is reset to NULL after each event
CtrlGroup(i) == IF ctrl[i] # NoGrp THEN ctrl[i] ELSE IF i = 1 THEN cur.egrp ELSE NoGrp

\* Mutant: counted twice, and without the check
Minus_Twice(n, k) == n - 2 * k

\* event_group_count_decrement(): nothing when the count is too small
Minus(n, k) == IF k <= n THEN n - k ELSE n

\* poll_unsched_ctrl_queue(): current is saved before and restored after
poll_unsched_ctrl_queue ==
  /\ post' = [g \in Groups |->
                Minus(post[g], Cardinality({i \in DOMAIN ctrl : CtrlGroup(i) = g}))]
  /\ ctrl' = <<>>

\* A request of another core (or of this one) for this core
CtrlArrives(g) ==
  /\ pc \in {"ctrl", "rcv"} /\ ctrls < MaxCtrl /\ ctrls' = ctrls + 1
  /\ g = NoGrp \/ unsent[g] > 0
  /\ unsent' = IF g = NoGrp THEN unsent ELSE [unsent EXCEPT ![g] = @ - 1]
  /\ ctrl' = Append(ctrl, g)
  /\ UNCHANGED <<pc, queues, cur, work, idle, call, post, ready, freed, handled>>

\* A synchronous API call made by an EO receive function polls the control
\* queues while it waits for the other cores
SyncCall ==
  /\ pc = "rcv" /\ run.kept > 0 /\ ctrl # <<>>
  /\ SyncInGroup \/ cur.egrp = NoGrp
  /\ poll_unsched_ctrl_queue
  /\ UNCHANGED <<pc, queues, cur, work, idle, call, freed, handled, env, ctrls>>

-----------------------------------------------------------------------------
(* Calling EO receive functions *)

\* count_same_evgroup()
SameGroup(evs) ==
  Max({n \in 1..Len(evs) : \A i \in 1..n : evs[i] = evs[1]})

\* dispatch_eo_rcv_single(), _burst(), dispatch_eo_multircv_single(), _burst():
\* the length of the next batch for queue q
BatchLen(q, evs) == IF q \in MultiRcv THEN Min({SameGroup(evs), MaxEvents}) ELSE 1

Rest(s, n) == SubSeq(s, n + 1, Len(s))

\* call_eo_rcv_fn(), call_eo_multircv_fn() and their _no_cb forms up to the
\* EO receive function: a dispatch enter-callback may drop events
call_eo_rcv_fn(q, evs) ==
  LET n == BatchLen(q, evs)
  IN  /\ \E kept \in (IF CallbackDrops THEN 0..n ELSE {n}) : run' = [num |-> n, kept |-> kept]
      /\ cur' = IF evs[1] = NoGrp THEN cur ELSE [cur EXCEPT !.egrp = evs[1]]
      /\ handled' = handled + n

\* Mutant: only the events that the callbacks let through are counted
event_group_done_Kept ==
  /\ cur' = [cur EXCEPT !.egrp = NoGrp]
  /\ post' = IF cur.egrp = NoGrp THEN post ELSE [post EXCEPT ![cur.egrp] = Minus(@, run.kept)]

\* ... and from its return: the group's count is decremented
event_group_done ==
  /\ cur' = [cur EXCEPT !.egrp = NoGrp]
  /\ post' = IF cur.egrp = NoGrp THEN post ELSE [post EXCEPT ![cur.egrp] = Minus(@, run.num)]

\* Mutant: the local queues wait for the end of the burst
EndReceive_Burst ==
  /\ pc = "rcv"
  /\ event_group_done /\ run' = NoRun
  /\ pc' = IF cur.q \in LocalQ THEN "lbatch" ELSE IF empty \/ burst # <<>> THEN "batch" ELSE "local"
  /\ UNCHANGED <<queues, burst, entries, lbatch, idle, call, ctrl, freed, handled, env, ctrls>>

EndReceive ==
  /\ pc = "rcv"
  /\ event_group_done /\ run' = NoRun
  /\ pc' = IF cur.q \in LocalQ THEN "lbatch" ELSE IF empty THEN "batch" ELSE "local"
  /\ UNCHANGED <<queues, burst, entries, lbatch, idle, call, ctrl, freed, handled, env, ctrls>>

\* dispatch_events(): the next batch, or the end of the burst
dispatch_events ==
  /\ pc = "batch"
  /\ IF burst = <<>>
     THEN /\ cur' = NoCur /\ pc' = "end"
          /\ UNCHANGED <<work, handled>>
     ELSE /\ call_eo_rcv_fn(cur.q, burst)
          /\ burst' = Rest(burst, run'.num) /\ pc' = "rcv"
          /\ UNCHANGED <<entries, lbatch>>
  /\ UNCHANGED <<queues, idle, call, post, ctrl, freed, env, ctrls>>

-----------------------------------------------------------------------------
(* The local queues *)

\* next_local_queue_events(): the highest priority that has events; the ones
\* above it that are found empty are marked
Marked      == {p \in Prios : ~emptyPrio[p]}
Occupied    == {p \in Marked : local[p] # <<>>}
NextPrio    == Max(Occupied)
MarkEmpty   == [p \in Prios |-> emptyPrio[p] \/ Occupied = {} \/ p > NextPrio]

\* Mutant: current.q_elem stays that of the last local queue
check_local_queues_Restore ==
  /\ pc = "local"
  /\ emptyPrio' = MarkEmpty
  /\ IF Occupied # {}
     THEN LET n == Min({LocalBurst, Len(local[NextPrio])})
          IN  /\ entries' = SubSeq(local[NextPrio], 1, n)
              /\ local' = [local EXCEPT ![NextPrio] = Rest(@, n)]
              /\ tot' = [tot EXCEPT !.local = @ + n]
              /\ pc' = "entry" /\ UNCHANGED <<empty, cur>>
     ELSE /\ empty' = TRUE
          /\ pc' = IF cur.sq = NoQ THEN "end" ELSE "batch"
          /\ UNCHANGED <<entries, local, tot, cur>>
  /\ UNCHANGED <<queued, pre, burst, lbatch, run, idle, paused, opt, got, calls,
                 post, ctrl, freed, handled, env, ctrls>>

\* check_local_queues(): burst by burst until there is nothing left
check_local_queues ==
  /\ pc = "local"
  /\ emptyPrio' = MarkEmpty
  /\ IF Occupied # {}
     THEN LET n == Min({LocalBurst, Len(local[NextPrio])})
          IN  /\ entries' = SubSeq(local[NextPrio], 1, n)
              /\ local' = [local EXCEPT ![NextPrio] = Rest(@, n)]
              /\ tot' = [tot EXCEPT !.local = @ + n]
              /\ pc' = "entry" /\ UNCHANGED <<empty, cur>>
     ELSE /\ empty' = TRUE /\ cur' = [cur EXCEPT !.q = cur.sq]
          /\ pc' = IF cur.sq = NoQ THEN "end" ELSE "batch"
          /\ UNCHANGED <<entries, local, tot>>
  /\ UNCHANGED <<queued, pre, burst, lbatch, run, idle, paused, opt, got, calls,
                 post, ctrl, freed, handled, env, ctrls>>

\* Mutant: one burst from the local queues and back
dispatch_local_burst_Once ==
  /\ pc = "entry"
  /\ IF entries = <<>>
     THEN /\ cur' = [cur EXCEPT !.q = cur.sq]
          /\ pc' = (IF cur.sq = NoQ THEN "end" ELSE "batch")
          /\ UNCHANGED <<entries, lbatch, freed, handled>>
     ELSE LET q    == entries[1].q
              n    == Max({k \in 1..Len(entries) : \A i \in 1..k : entries[i].q = q})
              evs  == [i \in 1..n |-> entries[i].g]
          IN  /\ cur' = [cur EXCEPT !.q = q]
              /\ entries' = Rest(entries, n)
              /\ IF q \in ready
                 THEN lbatch' = evs /\ pc' = "lbatch" /\ UNCHANGED <<freed, handled>>
                 ELSE /\ freed' = AddCounts(freed, evs) /\ handled' = handled + n
                      /\ UNCHANGED <<pc, lbatch>>
  /\ UNCHANGED <<queues, burst, run, idle, call, post, ctrl, env, ctrls>>

\* dispatch_local_single() and dispatch_local_burst(): the entries for one
\* local queue, which are freed when the queue is not ready
dispatch_local_burst ==
  /\ pc = "entry"
  /\ IF entries = <<>>
     THEN pc' = "local" /\ UNCHANGED <<cur, entries, lbatch, freed, handled>>
     ELSE LET q    == entries[1].q
              n    == Max({k \in 1..Len(entries) : \A i \in 1..k : entries[i].q = q})
              evs  == [i \in 1..n |-> entries[i].g]
          IN  /\ cur' = [cur EXCEPT !.q = q]
              /\ entries' = Rest(entries, n)
              /\ IF q \in ready
                 THEN lbatch' = evs /\ pc' = "lbatch" /\ UNCHANGED <<freed, handled>>
                 ELSE /\ freed' = AddCounts(freed, evs) /\ handled' = handled + n
                      /\ UNCHANGED <<pc, lbatch>>
  /\ UNCHANGED <<queues, burst, run, idle, call, post, ctrl, env, ctrls>>

\* The batches of one local queue
dispatch_local_batch ==
  /\ pc = "lbatch"
  /\ IF lbatch = <<>>
     THEN pc' = "entry" /\ UNCHANGED <<cur, work, handled>>
     ELSE /\ call_eo_rcv_fn(cur.q, lbatch)
          /\ lbatch' = Rest(lbatch, run'.num) /\ pc' = "rcv"
          /\ UNCHANGED <<burst, entries>>
  /\ UNCHANGED <<queues, idle, call, post, ctrl, freed, env, ctrls>>

-----------------------------------------------------------------------------
(* A dispatch round *)

\* dispatch_poll_ctrl_queue(): rate limited
dispatch_poll_ctrl_queue ==
  /\ pc = "ctrl" /\ pc' = "sched"
  /\ poll_unsched_ctrl_queue \/ UNCHANGED <<post, ctrl>>
  /\ UNCHANGED <<queues, cur, work, idle, call, freed, handled, env, ctrls>>

\* odp_schedule_multi(): the events of one queue, first those taken already;
\* a paused core gets no others
Scheduled(b) ==
  IF pre.evs # <<>>
  THEN {[q |-> pre.q, evs |-> SubSeq(pre.evs, 1, Min({b, Len(pre.evs)})),
         pre |-> [pre EXCEPT !.evs = Rest(@, Min({b, Len(pre.evs)}))], queued |-> queued]}
  ELSE IF paused THEN {}
  ELSE {LET q == qk[1]  taken == SubSeq(queued[q], 1, qk[2])  n == Min({b, qk[2]})
        IN  [q |-> q, evs |-> SubSeq(taken, 1, n), pre |-> [q |-> q, evs |-> Rest(taken, n)],
             queued |-> [queued EXCEPT ![q] = Rest(@, qk[2])]] :
        qk \in {x \in SchedQ \X (1..MaxPrefetch) : x[2] <= Len(queued[x[1]])}}

\* dispatch_round() with events from a queue in use
dispatch_round ==
  /\ pc = "sched"
  /\ \E s \in Scheduled(opt.burst) :
       /\ s.q \in ready
       /\ pre' = s.pre /\ queued' = s.queued
       /\ idle' = FALSE  \* to_active()
       /\ cur' = [q |-> s.q, sq |-> s.q, egrp |-> cur.egrp]
       /\ burst' = s.evs /\ got' = Len(s.evs)
  /\ pc' = "batch"
  /\ UNCHANGED <<local, empty, emptyPrio, entries, lbatch, run, paused, opt, tot, calls,
                 post, ctrl, freed, handled, env, ctrls>>

\* is_invalid_queue() and free_invalid_events()
free_invalid_events ==
  /\ pc = "sched"
  /\ \E s \in Scheduled(opt.burst) :
       /\ s.q \notin ready
       /\ pre' = s.pre /\ queued' = s.queued
       /\ freed' = AddCounts(freed, s.evs)
  /\ got' = 0 /\ pc' = "end"
  /\ UNCHANGED <<local, empty, emptyPrio, cur, work, idle, paused, opt, tot, calls,
                 post, ctrl, handled, env, ctrls>>

\* Mutant: the core is not made active for its local queues
NoEvents_Idle ==
  /\ pc = "sched" /\ Scheduled(opt.burst) = {}
  /\ idle' = (idle \/ empty) /\ got' = 0
  /\ pc' = IF empty THEN "end" ELSE "local"
  /\ UNCHANGED <<queues, cur, work, paused, opt, tot, calls, post, ctrl, freed,
                 handled, env, ctrls>>

\* dispatch_round() without events: to_idle(), or to_active() and the local
\* queues, which something outside of dispatch may have sent to
NoEvents ==
  /\ pc = "sched" /\ Scheduled(opt.burst) = {}
  /\ idle' = empty /\ got' = 0
  /\ pc' = IF empty THEN "end" ELSE "local"
  /\ UNCHANGED <<queues, cur, work, paused, opt, tot, calls, post, ctrl, freed,
                 handled, env, ctrls>>

-----------------------------------------------------------------------------
(* A dispatch call *)

\* Mutant: local_event_cnt is not reset
em_dispatch_Reset(o) ==
  /\ pc = "app" /\ calls < MaxCalls /\ calls' = calls + 1
  /\ opt' = o /\ paused' = FALSE /\ tot' = [NoTot EXCEPT !.local = tot.local] /\ handled' = 0
  /\ pc' = "check"
  /\ UNCHANGED <<queues, cur, work, idle, got, post, ctrl, freed, env, ctrls>>

\* em_dispatch(), em_dispatch_duration(), _ns(), _events() and _rounds()
em_dispatch(o) ==
  /\ pc = "app" /\ calls < MaxCalls /\ calls' = calls + 1
  /\ opt' = o /\ paused' = FALSE /\ tot' = NoTot /\ handled' = 0
  /\ pc' = "check"
  /\ UNCHANGED <<queues, cur, work, idle, got, post, ctrl, freed, env, ctrls>>

\* dispatch_no_userfn(), dispatch_with_userfn() and the _duration_ forms: the
\* condition of the loop.  Time may be up in any round; the time without
\* events starts again in a round that had some
Continues ==
  /\ "rounds" \in opt.sel => tot.rounds < opt.n
  /\ "events" \in opt.sel => tot.events + tot.local < opt.n
  /\ "noev" \in opt.sel   => tot.noev < opt.n
TimeUp == tot.rounds > 0 /\ ("ns" \in opt.sel \/ ("noev_ns" \in opt.sel /\ got = 0))

CheckDuration ==
  /\ pc = "check"
  /\ \/ Continues /\ pc' = "poll" /\ UNCHANGED paused
     \/ /\ ~Continues \/ TimeUp
        /\ paused' = opt.pause
        /\ pc' = IF opt.pause THEN "ctrl" ELSE "app"
  /\ UNCHANGED <<queues, cur, work, idle, opt, tot, got, calls, post, ctrl, freed,
                 handled, env, ctrls>>

\* The input-poll function, which may have sent events (Send), returns
InputPolled ==
  /\ pc = "poll" /\ pc' = "ctrl"
  /\ UNCHANGED <<queues, cur, work, idle, call, post, ctrl, freed, handled, env, ctrls>>

\* bound: the numbers of rounds are only compared with the requested one
Capped(n) == Min({n, opt.n})

\* Mutant: the rounds that empty the scheduler stop after the first
EndRound_Once ==
  /\ pc = "end"
  /\ tot' = [tot EXCEPT !.rounds = Capped(@ + 1), !.events = @ + got,
                        !.noev = IF got = 0 THEN Capped(@ + 1) ELSE 0]
  /\ pc' = IF paused THEN "app" ELSE "check"
  /\ UNCHANGED <<queues, cur, work, idle, paused, opt, got, calls, post, ctrl,
                 freed, handled, env, ctrls>>

\* The results of a round; once the scheduler is paused the rounds go on for
\* as long as they dispatch something
EndRound ==
  /\ pc = "end"
  /\ tot' = [tot EXCEPT !.rounds = Capped(@ + 1), !.events = @ + got,
                        !.noev = IF got = 0 THEN Capped(@ + 1) ELSE 0]
  /\ pc' = IF ~paused THEN "check" ELSE IF got > 0 THEN "ctrl" ELSE "app"
  /\ UNCHANGED <<queues, cur, work, idle, paused, opt, got, calls, post, ctrl,
                 freed, handled, env, ctrls>>

CoreStep ==
  \/ CheckDuration \/ InputPolled \/ dispatch_poll_ctrl_queue
  \/ dispatch_round \/ free_invalid_events \/ NoEvents
  \/ dispatch_events \/ EndReceive
  \/ check_local_queues \/ dispatch_local_burst \/ dispatch_local_batch
  \/ EndRound

DispatchNext ==
  \/ CoreStep
  \/ SyncCall
  \/ \E o \in Opts : em_dispatch(o)
  \/ \E g \in Tags : Send(g) \/ CtrlArrives(g)
  \/ \E q \in Queues : StopQueue(q)

DispatchSpec == DispatchInit /\ [][DispatchNext]_dvars

DispatchFairness == WF_dvars(CoreStep)

-----------------------------------------------------------------------------
(* Properties *)

\* Types of the core-local memory that the dispatch loop uses, and of the queues
DispatchTypeOK ==
  /\ pc \in {"app", "check", "poll", "ctrl", "sched", "batch", "rcv", "local",
             "entry", "lbatch", "end"}
  /\ queued \in [SchedQ -> Seq(Tags)] /\ pre.evs \in Seq(Tags)
  /\ local \in [Prios -> Seq([q : LocalQ, g : Tags])]
  /\ empty \in BOOLEAN /\ emptyPrio \in [Prios -> BOOLEAN]
  /\ cur \in [q : Queues \cup {NoQ}, sq : SchedQ \cup {NoQ}, egrp : Tags]
  /\ burst \in Seq(Tags) /\ lbatch \in Seq(Tags) /\ ctrl \in Seq(Tags)
  /\ run.kept <= run.num
  /\ post \in [Groups -> Nat] /\ ready \subseteq Queues

\* Events of group g that are on their way on this core
TagsOf(s)   == [i \in DOMAIN s |-> s[i].g]
Total(f, g) == Cardinality({x \in UNION {{q} \X DOMAIN f[q] : q \in DOMAIN f} : f[x[1]][x[2]] = g})
OnTheWay(g) ==
  Total(queued, g) + Total([p \in Prios |-> TagsOf(local[p])], g) + Count(pre.evs, g)
    + Count(burst, g) + Count(TagsOf(entries), g) + Count(lbatch, g) + Count(ctrl, g)

\* An event of a group is counted exactly once: the group's count is what has
\* not been sent, is on its way, was freed unhandled, or is being received now
\* (call_eo_rcv_fn(), call_eo_multircv_fn(), handle_ctrl_events()).  Dropped
\* events count, and so do the ones of control events handled in between
GroupCountedOnce ==
  \A g \in Groups :
    post[g] = unsent[g] + freed[g] + OnTheWay(g) + (IF cur.egrp = g THEN run.num ELSE 0)

\* em_queue_current() and the scheduling context belong to the event that is
\* being received, also after the local queues were served in the middle of a
\* burst, and nothing of them is left after dispatch_events()
CurrentIsServed ==
  /\ pc \in {"batch", "rcv"} => \/ cur.q = cur.sq /\ cur.sq \in SchedQ
                                \/ pc = "rcv" /\ cur.q \in LocalQ
  /\ pc \in {"app", "check", "poll", "ctrl", "sched"} => cur = NoCur
  /\ pc # "rcv" => cur.egrp = NoGrp

\* The flags that let the dispatcher skip the local queues never hide an event:
\* one that is sent to a local queue is found (next_local_queue_events())
FlagsCoverLocal ==
  /\ empty => \A p \in Prios : local[p] = <<>>
  /\ \A p \in Prios : emptyPrio[p] => local[p] = <<>>

\* EO receive functions only run on a core that is active: the to-active hooks
\* were called since the last to-idle hook (to_idle(), to_active())
ReceivesActive == pc = "rcv" => ~idle

\* The count a dispatch call returns is that of the events it dispatched (or
\* freed from a local queue out of use), none of them twice and none of an
\* earlier call
CountIsHandled == pc = "app" => tot.events + tot.local = handled

\* A core that paused its scheduler on leaving dispatch has dispatched what the
\* scheduler had taken for it, but for the events of a queue out of use: a burst
\* of them is freed and counts for nothing, and em_dispatch() returns after it
PausedCoreEmptied == pc = "app" /\ paused /\ pre.evs # <<>> => pre.q \notin ready

\* Once the EO receive function that sent to local queues returns, the events
\* are dispatched before the next batch of the scheduled burst
LocalBeforeNextBatch ==
  [][pc = "batch" /\ pc' = "rcv" /\ Len(burst) < got => empty]_dvars

\* What an EO receive function finds in or adds to the local queues is served
\* to the last event (check_local_queues()), provided that EO receive functions
\* return and do not send to local queues for ever
LocalServed == (pc = "rcv" /\ ~empty) ~> empty

\* The core-local memory agrees with what the dispatch loop does: the current
\* context, the flags of the local queues, the idle state, the counts and what
\* the scheduler has prefetched.
DispatchInv ==
  /\ DispatchTypeOK /\ CurrentIsServed /\ FlagsCoverLocal /\ ReceivesActive
  /\ CountIsHandled /\ PausedCoreEmptied

\* Events for local queues are dispatched before the next batch of a scheduled
\* burst, to the last one.
LocalInTime == LocalBeforeNextBatch /\ LocalServed
=============================================================================
