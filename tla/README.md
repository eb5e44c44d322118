# Specifications of EM-ODP

TLA+ models of the Event Machine on ODP (`src/`, implementation in `src/src/`,
API documentation in `src/include/event_machine/api/`): modules, TLC
configurations and TLAPS proofs. `PROJECT.json` lists components, runs, mutants,
the map from definitions to source lines, findings, hazards and theorems.

    tlc -config MCEventGroup.cfg MCEventGroup      # a run
    tlapm EventGroupProofs.tla                     # proofs

## 1. The system

EM runs one dispatch loop per core (an ODP thread). A core asks the ODP
scheduler for events, and hands each to the receive function of the execution
object (EO) that owns the event's queue. State shared by the cores lives in
shared memory (`em_shm`), state of a core in `em_locm`. There is no central
thread: every control operation is carried out by the cores themselves.

| component | state | operations | hard behaviour |
|---|---|---|---|
| event groups | one 64-bit counter word per group (pre-count, post-count, applied, generation), a notification table outside that word, the current group of each core, the tag in an event header | create, apply, increment, assign, processing_end, abort, notif, delete, send with a group, counting in the dispatcher | lock-free loops on one word with a table beside it; events of old cycles; wrap-around |
| queue groups | core mask, ODP schedule group, ongoing_delete, queue list, lock, per group | create, modify, delete, each with a synchronous variant; join at core start, leave at termination | a thread joins and leaves only by itself, so an operation is a distributed one |
| internal control events | a control queue per thread, a shared one; event group and DONE event per operation; `sync_api.in_progress` | send requests, poll, handle, done callback, abort on error | nested polling, unordered completion, partial failure |
| core map, core life cycle | logic masks, thread table, `ongoing_term_reqs`, a read-write lock; what em_init() holds; the pause flag of a core | em_init, em_term, em_init_local, em_term_local, for EM-cores and external threads | cores that come and go during operations; handshake of terminating cores; flushing the scheduler under group locks; failing terminations |
| execution objects | EO state, start/stop return values, buffered events, queue list | create, start, stop, delete, add/remove queue, local start/stop on every core | multi-core state machine, failures of single cores, buffering |
| queues | element pools, queue state, owner EO, group list, aggregators, output indexes, priority map | create, delete, enable, disable, send, dequeue | creates that fail half way on several cores; queue and aggregators changing state one by one; order of output |
| atomic groups | lock and event count in one word, two stashes, list of queues | create, delete, add/remove queue, dispatch, processing_end | one core at a time although events leave through several queues; unlock against stashing |
| event state verification | counters in the event header, generation in the handle | transitions between user and EM, allocation, free, references, mark and unmark | generation wraps with a second atomic step; no false alarms, no misuse overlooked |
| timers | timeout state, ODP timer, tags in event headers, reservations of timeout handles | set, cancel, ack, delete, rings, create and delete timers | cancel racing expiry and acknowledgement; late and repeated acknowledgements |
| hooks | a ring of callback tables per type | register, unregister, call | tables replaced while they are read |
| dispatcher | dispatch options, rounds, the current event context, local queues, idle and pause states of a core | em_dispatch with options, enter/exit callbacks, pause | nesting of local and control events in a burst |
| pools, events, object pools | free lists, subpools, mapping from ODP pools | create, delete, alloc, free | index reuse between cores, failures half way |
| errors, CLI, configuration, information, chaining, ODP extension | | | input/output and conversions |

Interaction: queue group, EO and termination operations all send control events
and count them with an event group, whose notification is the DONE event; the
dispatcher polls the control queues between events and the synchronous calls
poll them while they wait; the core map lock keeps cores from coming and going
while requests are sent.

What makes them correct: a group completes when exactly its own events were
handled, and is notified once; the schedule group equals the mask whenever no
operation runs; a completed delete leaves nobody behind; each waiting caller is
released by its own operation; a core that terminates takes part in nothing
afterwards; everything that was begun ends.

## 2. Modules

| module | models |
|---|---|
| `EventGroup` | `em_event_group.[ch]`, `event_machine_event_group.c` and the counting parts of the dispatcher |
| `ForkJoin` | what an event group promises: cycles that start, end and are notified (abstract specification) |
| `EventGroupProofs` | TLAPS proofs about `EventGroup`, and that it implements `ForkJoin` |
| `AtomicGroupProofs` | TLAPS proofs about `AtomicGroup` |
| `QueueGroupProofs` | TLAPS proofs about `QueueGroup`: requests, counts, callers, core map lock, members of groups, terminated cores |
| `TimeoutProofs` | TLAPS proofs about `Timeout` and `Timers` |
| `DispatchProofs` | TLAPS proofs about `Dispatch`, `Hooks` and `Output` |
| `ResourceProofs` | TLAPS proofs about `Pool` and `Queue` |
| `LifecycleProofs` | TLAPS proofs about `Lifecycle` |
| `EventStateProofs` | TLAPS proofs about `EventState` |
| `QueueGroup` | `em_queue_group.c`, `em_internal_event.c`, the core map of `em_core.c` and the handshake of the local init/term of `em_init.c` |
| `Lifecycle` | em_init(), em_term(), em_term_local() in `event_machine_init.c` and `em_init.c`, joining and leaving all queue groups: events, locks and the pause of the scheduler |
| `Eo` | `event_machine_eo.c`, `em_eo.c`, the binding of queues, the part of the dispatcher that enters receive functions |
| `AtomicGroup` | `em_atomic_group.c`, `event_machine_atomic_group.c`, bursts in `em_dispatcher_inline.h`, em_atomic_processing_end() |
| `Dispatch` | `event_machine_dispatcher.c`, `em_dispatcher_inline.h`: one core's dispatch loop with local queues and control events |
| `Hooks` | `em_hooks.[ch]`, `event_machine_hooks.c`: the callback tables |
| `Output` | output queues: sending, draining, ordered contexts (`em_event.c`, `em_event.h`, `em_queue.c`) |
| `EventState` | `em_event_state.[ch]` and its callers in `event_machine_event.c`, `em_event_inline.h` |
| `Timeout` | timeouts in `event_machine_timer.c`: set, cancel, acknowledge, delete against expiry |
| `Timers` | creation and deletion of timers in `event_machine_timer.c`, `em_timer.c` |
| `Pool` | `em_pool.c`, `event_machine_pool.c`, `misc/objpool.c`, the choice of a subpool in the allocations |
| `Queue` | `em_queue.c`, `event_machine_queue.c`, packet input queues of `event_machine_odp_ext.c` |
| `MCEventGroup`, `MCQueueGroup`, `MCEo`, `MCEventState`, `MCAtomicGroup` | instances for TLC |
| `MCLifecycle` | `QueueGroup` and `Lifecycle` for TLC |
| `MCDispatch` | `Dispatch`, `Hooks` and `Output` for TLC |
| `MCResources` | `Pool`, `Queue`, `Timers` and `Timeout` for TLC |

Where an MC module holds several specifications they share no state, and the
steps of one are taken while the others are in their initial state: the
reachable states are the union, not the product. Fairness in `MCLifecycle` is
stated of the steps that this leaves possible. In `MCDispatch` and `MCResources`
it is stated of the one module that has a liveness property, `Dispatch` and
`Timeout`: a behaviour in which another of their modules moves does not count
as fair, and the liveness properties say nothing of those.

### EventGroup

`counts[g]` is the 64-bit word, `notif[g]` the table, `ev[e]` the tag in an
event header, `cur[c]` and `rcv_multi_cnt[c]` are `locm->current`, `pc[c]` and
`op[c]` the call in progress on core `c`. Loops without another shared access
between load and compare-and-swap are one step; `em_event_group_apply()` and
`post_count_decrement()` are split at each access of the word and of the table,
and a copy of the table that overlaps its writing may return `Torn`. Tables are
named by the cycle they were given to. The history variables (`cyc`, `status`,
`left`, `registered`, `sent`, `aborted`, `freed`) record what really happened
and are never read by an action except to bound the behaviour.

Assumed of the application, as documented: apply and delete are not called on a
group at the same time (`OwnerFree`), and events as old as the whole generation
range have been drained (`NoAncientTags`). Without the second guard TLC finds
`StaleNeverCounts` and `NotifsRight` violated with the constants of
`MCEventGroup.cfg`: the wrapped generation makes such events look current.

### QueueGroup

`grp[g]` is a group element and its schedule group, `ops` the operations
(callback arguments and event group; `left` is the count of the event group,
used at the level of `ForkJoin`), `ctrlq`, `shared` and `batch` the control
events, `ph[c]` where a thread is in `poll_unsched_ctrl_queue()`, `call[c]` its
API call, `logic`, `odpThr`, `rwcnt`, `treqs` the core map, `st[c]` the life
cycle of a thread, `tleft`, `tdone` the termination handshake.

A call takes the core map lock for reading, changes mask and own membership in
one step (the code holds the group lock), then sends its requests one by one
and releases the lock. `rwcnt` counts readers as the ODP lock does, so that one
unlock too many is visible. A failing allocation or send is `SendFail` for a
queue group operation and a disjunct of `TermBegin` for a termination (see
`MayFail`). Core `c` runs on thread `c`, and a terminating core's entry in the
thread table becomes 0, as in the code. Control queues are dequeued completely
(the code takes 16 events at a time, more than can be in flight here).

`Synchronized` restricts the application to one operation of a group at a time
("The application may need to synchronize group modifications",
`event_machine_queue_group.h:260`), `TermExcl` to operations that do not overlap
a termination; the runs show what holds with and without them.

### Eo

`eo[e]` is an EO element (state, whether it has local functions, stash, buffered
events, queue list), `que[q]` a scheduled queue with its state, EO and events,
`ops` the local-function requests (`loc_func_retval_t` and event group), `ctrlq`
and `shared` the control queues, `starting[t]` and `inprog[t]` are
`locm->start_eo_elem` and `locm->sync_api.in_progress`. User functions call the
API and synchronous calls poll control queues whose handlers run user functions,
so a thread is a stack of frames (`stack[t]`); the frames are listed at the head
of the module. `ran[c]` and `que[q].rem` are history: the EOs whose local start
ran on core `c`, and queues a remove operation has disabled.

An operation sends its requests one by one under the core map lock (`SendReq`),
each core answers when it polls, and the last answer sends the DONE event to the
caller or to the shared queue, where any core may take it. `SendFail` is a
failing allocation or send. A start is split where another core can see the
difference: queues enabled, state RUNNING, buffered events sent.
`em_eo_add_queue()` is split between linking the queue and testing the state.
These are one step: test and change of the EO state at the start of a call,
dequeuing own and shared control queue in a poll, a local stop function (it runs
on no other thread's data), a callback and the notifications after it. Local
functions run at core start and termination, as with
`EM_EO_START_LOCAL_MODE_INIT_RUN` and `EM_EO_STOP_LOCAL_MODE_TERM_RUN`, and error
handlers do not change error codes.

`Orderly` restricts the application to one operation of an EO at a time, and to
cores that do not come and go during one; an EO's stop function may still remove
its queues and delete it. `AsyncIn` and `SyncIn` tell from which functions the
two kinds of calls are made.

### Lifecycle

`em` is `em_shm` and what em_init() has taken, `life[t]` the place of a thread
in em_term_local(), `qmask`, `qmem` and `qlock` mask, schedule group and lock of
each queue group, `flag[t]` is `is_sched_paused` and `odpPaused[t]` what ODP has
been told. An event is in its pool, in a queue, prefetched by a thread, in a
local queue or in a control queue (`at`), and `actx[g]` is the thread with the
atomic context of the group's queue. term_core() goes through "flush", "local",
"leave" (group by group, orphans stay locked), "orphans", "pause", "again" and
"unlock"; the flush is one step per schedule call. em_init() and em_term() run
while no core is up and are one step each, with the place where they fail.
`due`, `leaked` and `twice` are history.

The handshake is in `QueueGroup`; a modify of a group is one step (`Assign`)
here, made while no core terminates. `SameThread` lets a thread go on after
em_term_local(), `QuietMoves` restricts modifies to cores that have no event of
the group, `TermFails` names the steps of em_term() that may fail.

### AtomicGroup

`lock` and `evcnt` are the word, `stash` the stashes of both priorities, `odpq`
and `ctx` the ODP queue and atomic context of each queue, `burst[c]`, `bcnt[c]`,
`cur[c]` and the flags what a core has in hand and in `locm`. The steps of
atomic_group_dispatch() are those between two accesses of the word or of a
stash. Stopping a queue (`state`, `acked`) is what `Eo` has in detail: state,
then an answer of each core, then removal. Events are numbered in the order they
are sent.

### Dispatch, Hooks, Output

`Dispatch` is one core; the others send to the scheduled queues and take queues
out of use. An event is its event group, and a group its post count. `pre` is
what the scheduler has prefetched, `burst`, `entries` and `lbatch` what is left
of a scheduled burst, of a burst from the local queues and of its part for one
queue. `tot`, `got` and `opt` are the counts and options of em_dispatch().

`Hooks` has one of the eight kinds of hooks. `tbl` is the ring of tables, `active`
the index of the one in use; an update copies, changes and switches in separate
steps, and a reader goes through its table entry by entry. `registered` is what
the API promises.

`Output` has one output queue fed from an ordered queue: `held` is what ODP keeps
of a context until its turn, `outLock` the drain lock, `output` what the user's
function was called with.

### EventState

`cnt` is the counter word with three fields, `hdl` the generation of the handle
given to the application, `at` how many references are at each place, `call[c]`
the call a core is in, between its atomic operations. A transition is an atomic
add, a check of the value it returned and, at the limit of the generation, a
second add. `Word` reads the fields as the code does, with the borrow of a
generation below zero. The application of the model is correct; `stale` keeps the handles an
incorrect one could still use.

### Timeout, Timers

`tmo[t]` is `em_timer_timeout_t`, `timer[t]` the ODP timer, `hdr[e]` the timer
fields of an event header, `call[c]` the API call of a core, split between the
load and the store of the state and the ODP call. `idle[t]` is what the
application knows: it sets or deletes a timeout only when it was told that it is
inactive. Kinds are one-shot, periodic with and without skipping, and ring.
`Timers` has create and delete, under `timer_lock`, with the point where each
fails, and the reservations of the shared pool of handles.

### Pool, Queue

`Pool`: `free`, `pool`, `odp`, `odp2em` are the free list, the table, the ODP
pools and the mapping; `pcall[c]` is where create or delete is on core `c`, split
at each access others can see; `boot` goes through pool_init() with startup pools
and pool_term(). `Queue`: `qelem` is the table, `qpool` the three element pools,
`listed` and `numQueues` the list of the queue group, `qcall[c]` the stage of a
create, delete or state change. A create undoes its stages when one fails
(`QFails`). ODP gives every pool it creates a valid index, so the error returns for
a negative odp_pool_index() (`em_pool.c:1977`, `2139`) are not taken. `output.idx`
shares memory with the aggregator fields; `Setup` keeps its value, which is used
only after a create that failed with `"output"`.

## 3. Runs

| run | bounds | checks |
|---|---|---|
| `event_group` | 2 cores, 2 events, 1 group, counts up to 2, batches of 2, 2 cycles, 1-bit generation, recovery on any core | counters, completion, stale events, notifications, refinement of `ForkJoin` |
| `event_group_live` | the same without abort | a group with all its events queued completes |
| `queue_group` | 2 threads as cores or external threads, 1 group, 4 operations, 2 terminations, failing termination requests | requests and counts, members and mask, deletion, leaving groups, nothing left behind, core map |
| `queue_group_unordered` | 2 cores, 3 unordered operations, failing sends | counts and release of waiting callers, also after aborts |
| `queue_group_live` | `QueueGroup` with 2 cores, 3 operations, 2 terminations; `Lifecycle` with 2 cores, 2 groups with a queue each, 2 events, 3 core starts, em_init() failing anywhere, em_term() failing at the pools; fairness | operations complete, synchronous calls return, terminations end, also over the locks of orphan groups; no event is left behind or taken from a group that is served; em_term() can be retried |
| `eo` | 2 cores and an external thread, 1 EO with 1 queue, running to begin with, 3 operations, 1 event, 2 joins or leaves, failing stash, start functions and remove requests, asynchronous calls from receive functions, fairness | receive functions only on started cores and for bound queues, global stop last and alone, start events held back, queues settled between operations, removal effective, operations end |
| `event_state` | 2 cores, a packet with up to 2 references and a buffer, 3 generations before the wrap | no false alarms, counters right, every misuse of a recent handle reported |
| `atomic_group` | 3 cores, a group of two queues of different priority and a plain atomic queue, 3 events, bursts of 2, stashes for 1, the group stopped as a whole | one holder, exclusive and ordered receive calls, nothing stranded, lost or doubled, quiet after a stop, delivery |
| `resources` | pools: 2 cores, 3 elements, 4 ODP pools, up to 2 subpools, 2 creates; queues: 2 cores, 3 elements, 2 aggregators, 3 operations, failing calls; timers: 3 slots, 4 shared handles; timeouts: 2 cores, 1 timeout, 2 events, 6 ticks, 2 sets | mapping, no lost ODP pools or queues, counts, lists, indexes, aggregators, priority map, reservations, quiet after cancel, one outstanding timeout, slots accounted, cancel settles |
| `dispatch` | 1 core with 2 scheduled and 2 local queues, 2 events of a group and 1 without, 2 dispatch calls with three sets of options; 3 tables, 2 readers, 4 updates; 3 ordered contexts on 2 cores with 2 outputs each | counting, current context, local queues served in time, counts returned, pause; snapshots of hooks; order of output |

A run lists one property per idea, and each is a conjunction of named parts that
are stated and explained one by one in its module: `PoolInv`, say, is
`PoolTypeOK`, `MappingMatchesPools`, `NoOdpPoolLost`, `EventsFit`,
`DefaultIsDefault` and `TermLeavesOnlyBusy`. `PROJECT.json` has a mutant of the
model for each part, so that every one of them is known to be broken by some
plausible mistake in the code it is about.

Two cores and two events are enough for every pair of steps to be interleaved,
a batch of two and a single event for batches that are rejected as a whole, two
cycles for every confusion of a cycle with the one before. The proofs of section
5 hold for every bound. In `QueueGroup` three operations give a create, a modify
and a delete of the same group, four one of them again on the reused element;
two terminations give two cores that terminate at once, and one that terminates,
starts again and terminates.

In `Lifecycle` two groups make two orphans of one core, or one of each core with
the other's lock in the way; three starts let a core start again while the other
one is dispatching. In `Eo` three operations take the running EO through a stop,
a removal and a new start, or through delete and recreation and a start; two
moves let one core leave and join again, or both leave so that the external
thread finds no cores to ask. Calls come from one core and the external thread:
the two cores differ only in their number and each executes all requests.

In `AtomicGroup` the third core unlocks while one stashes and one tries the
lock; a stash of one fills up with a burst of two. In `EventState` three
generations and two references let a core come between the two steps of the
wrap at every value, and failing sends step below the start. In `Timeout` six
ticks are three periods: an acknowledgement can be one and two slots late.
`Queue` has one aggregator less than two creates ask for. `Dispatch` nests a
burst of local events in a scheduled one with an event of the same group in each,
and takes a multi-event receive function for one queue of each type. In `Hooks`
four updates go once round the ring of three tables.

Deadlock is checked in `event_group`, `event_group_live`, `queue_group` and
`queue_group_unordered`; elsewhere an application may have used up its operations
or EM has stopped.

### Violated on purpose

Each of these states what a comment or the API documentation says and finds an
execution of the code that does otherwise; `PROJECT.json` quotes the lines.

* `atomic_group_burst`: two cores, one queue with a multi-event receive function,
  events of two event groups. The trailing partial batch of the first event group
  of a burst sets `event_burst_cnt` to 0, em_atomic_processing_end() in it
  releases the context, and the rest of the burst is received without it. A burst
  of an atomic group is dispatched queue by queue, so there one event group and
  two queues are enough.
* `dispatch_sync_group`: a control event without an event group that is handled
  in a synchronous call made by a receive function is counted to the event group
  of the event being received.

### Where properties stop holding

Several properties hold only for applications or environments that keep to a
restriction, which is a constant of the module; they say nothing of the case it
excludes, and the notes of the hazards in `PROJECT.json` say which part of them no
property covers for that reason. Setting the constants as follows
in the cfg of the run makes TLC show the execution that the restriction excludes.
The properties named here are the parts.

| property | constants | what happens |
|---|---|---|
| `EventGroup!SavedNotifsReusable` | those of `MCEventGroup.cfg` | the group completes and is applied again between saving the notifications and the abort: they are reused although they were sent |
| `QueueGroup!CoreMapStable` | `MaxOps = 3`, `MaxTerms = 1`, `MayFail = {"op"}`, `Synchronized`, `TermExcl`, `External` FALSE | a synchronous modify whose sends fail unlocks the core map twice |
| `QueueGroup!LeavesAllGroups` | `TermExcl = FALSE` | a modify during a termination sends the request to thread 0 |
| `QueueGroup!LeavesAllGroups` | `CoreGroups = TRUE` | a restarted core does not leave the single-core group of its earlier life |
| `QueueGroup!TermCompletes` | `External = TRUE`, three terminations | a thread id that an external thread used before keeps a termination count |
| `Lifecycle!DispatchingSchedules`, `TermReachesAllEvents` | `SameThread = TRUE` | em_term_local() resets `is_sched_paused` while ODP stays paused: a core started again on that thread gets no events, and em_term() on it flushes nothing |
| `Lifecycle!OrphansFlushed` | `QuietMoves = FALSE` | a core taken out of the group keeps the atomic context, and the last core cannot get at the events |
| `Lifecycle!TermTouchesOnlyHeld` | `"event_group"` or `"shm"` in `TermFails` | em_term() called again uses the queue table that was freed |
| `Eo!StartEventsHeld` | `EOs = {e1, e2}`, `Up = {}`, `SyncIn = {"main", "start"}` | after a nested em_eo_start_sync() the events of the outer start are no longer buffered |
| `Eo!StopQuiet` | `EOs = {e1, e2}`, `SyncIn = {"main", "rcv"}` | a core answers the stop request of the EO whose receive function it is in |
| `Eo!Settled` | `Orderly = FALSE` | a queue added while a start ends stays disabled |
| `Dispatch!PausedCoreEmptied` | those of `MCDispatch.cfg`, without its exemption of queues out of use | a prefetched burst of a queue that is not ready is freed and counts for nothing: em_dispatch() returns with the rest of the prefetched events still there |
| `Output!NothingLeftToDrain` | those of `MCDispatch.cfg` | a core that finds the drain lock taken leaves events that the drainer no longer sees |
| `Queue!OutputIndexes` | `"output"` in `QFails` | the index of a failed create is lost, a later queue shares one |
| `Queue!GroupListMatches` | `DeletePktin = TRUE`, or `DeleteAgain = TRUE` with `MaxQueueOps = 4` | a queue is taken from the list twice or without having been on it |
| `Timers!ReservationHonoured` | `RingWithin = FALSE` | a ring takes more handles than it reserved |
| `Timers!ReservedByTimers` | `"start"` in `MayFail` | a failed create keeps its reservation |
| `Pool!MappingMatchesPools` | `Exclusive = FALSE` | a delete clears the mapping of a pool that reuses the index |
| `Pool!MappingMatchesPools`, `NoOdpPoolLost` | a startup configuration with `<<MCPool(1, MCOne), MCPool(1, MCOne)>>` | two startup pools that are the default pool: the second takes the element of the first (`em_pool.c:1421`), whose ODP pool belongs to no pool any more |
| `EventState!NoFalseAlarm` | `RefsInVectors = TRUE` | a reference in a user's vector is reported |
| `EventState!CountersMatchHolders` | `RevertRace = TRUE` | a revert of a send inside the wrap of another leaves the counters wrong |
| `AtomicGroup!QuietWhenStopped` | `Stoppable = {{q1}}` | events of one removed queue are still dispatched from the stash |
| `Hooks!CallsSnapshot` | `ReadersKeepUp = FALSE` | a slow reader sees a table being rewritten |

Smaller differences from the documentation that the models follow: a new core
mask can be read before the modify completes (`em_queue_group.c:1310`);
em_queue_group_create_sync() does not wait for the other cores
(`em_queue_group.c:920`); `queue_group_flush` of `em_term_local_t` is ignored
(`em_init.c:427`, `event_machine_init.h:495`); a local start function that fails
leaves its EO STARTING for good (`em_eo.c:430`), and some error paths of
em_eo_start() keep the stash; an acknowledgement that has tried too often calls
the error handler; `skip_input_poll` and `skip_output_drain` have no effect
(`event_machine_dispatcher.c:149`); an em_init() that failed leaves em_shm set, so
that neither it nor em_term() can be called again, and an em_term() that failed can
never be completed, because the retry stops at delete_ctrl_queues(); the flush of
an orphan group lasts as long as other cores send to it, which is why
`TerminationEnds` excludes endless sending.

`QueueGroup!OpsComplete` allows for one operation that never ends: a create_sync whose
caller terminates before the other cores have joined, because its DONE event is
sent to the control queue of a thread that no longer polls.

## 4. Fairness

`EventGroup!Fairness`: a core finishes the call it is in (weak), an EO-receive
function returns (strong: it makes finitely many calls), and the scheduler
eventually delivers each queued event (strong: ODP queues are served from a
non-empty queue as long as cores dispatch). `QueueGroup`: a core keeps doing its own
next step: sending what its call has to send, polling and handling control
events, terminating. The dispatch loop polls the control queues regularly and
the synchronous calls and terminations poll in loops
(`em_dispatcher_inline.h:967`, `em_queue_group.c:1508`, `em_init.c:386`); the
API demands that the other cores dispatch while one waits. `Lifecycle`: a core
inside em_term_local() goes on; the group locks are ticket locks. `Eo!Fairness`
is weak fairness of each thread's own next step: cores dispatch in a loop, user
functions return, waiting calls poll. `AtomicGroup` and `Dispatch`: weak fairness
of a core's next step, which includes asking the scheduler. `Timeout`: time
passes, an armed timer expires, an event in a queue is received, and a call that
was entered goes on; the application acknowledges periodic events as the API
demands. Nothing forces an application to start an operation or a termination,
or a start function to succeed.

## 5. Proofs

Each property below is an invariant or an action property of the runs, where TLC
checks it on a small instance; the theorems state it for every value of the
constants. The assumptions on constants are those of the modules
(`ConstAssumption`, `GroupAssumption`, `TmoAssumption`, `LifecycleAssumption`,
`EsvAssumption`, `HooksAssumption`, `DispatchAssumption`, `OutputAssumption`,
`TimersAssumption`, `PoolAssumption`, `QueueAssumption`: finite sets, positive
limits). Where a theorem needs more, its ASSUME says so, and the last column what
the condition means in the code.

| theorem | property | condition |
|---|---|---|
| `EventGroupProofs!TypeCorrect`, `CountersCorrect`, `CompletionCorrect`, `StaleCorrect`, `NotifsCorrect` | `TypeOK`, `CountersMatchHolders`, `CompletesWhenAllHandled`, `StaleNeverCounts`, `NotifsRight` | |
| `EventGroupProofs!Refinement` | `ImplementsForkJoin` | |
| `AtomicGroupProofs!AtomicGroupCorrect` | `AtomicGroupInv` | |
| `AtomicGroupProofs!ExclusiveReceiveHolds` | `ExclusiveReceive` | `NoPartialBatch`: no queue has a multi-event receive function, or `max_events` is at least the burst sizes |
| `AtomicGroupProofs!ReceivesInOrderHolds` | `ReceivesInOrder` | `NoPartialBatch`; `WholeGroup`: the queues of the group are stopped together |
| `QueueGroupProofs!OwnRequests` | `OwnRequestsOnly` | `TermExcl`: operations do not overlap a termination |
| `QueueGroupProofs!CoreMapStableHolds` | `CoreMapStable` | sends of operations do not fail |
| `QueueGroupProofs!GroupsSettledHolds`, `TerminatedIsGoneHolds` | `GroupsSettled`, `TerminatedIsGone` | `Synchronized`, `TermExcl`, sends of operations do not fail, no single-core groups |
| `TimeoutProofs!TimeoutCorrect` | `TimeoutInv` | |
| `TimeoutProofs!ArmsNextSlotHolds` | `ArmsNextSlot` | |
| `TimeoutProofs!TimersCorrect` | `TimersInv` | starting a pool of timeouts does not fail, and rings stay within their `num_tmo` (`RingWithin`) |
| `DispatchProofs!DispatchCorrect` | `DispatchInv` | |
| `DispatchProofs!LocalBefore` | `LocalBeforeNextBatch`, the safety half of `LocalInTime` | |
| `DispatchProofs!GroupCountedOnceHolds` | `GroupCountedOnce` | `~SyncInGroup`: synchronous calls are not made from the receive function of an event of a group |
| `DispatchProofs!HooksCorrect` | `HooksInv` | `ReadersKeepUp`: a caller is done with its table before the ring of tables comes round to it |
| `DispatchProofs!OutputCorrect` | `OutputInv` | |
| `ResourceProofs!PoolCorrect` | `PoolInv` | `Exclusive`: no pool is made while another is deleted or taken back; `OneDefault`: at most one startup pool is the default pool |
| `ResourceProofs!QueueCorrect` | `QueueInv` | no storage of an output function fails, a failed delete is not tried again (`DeleteAgain`), packet input queues are not deleted (`DeletePktin`) |
| `LifecycleProofs!LifecycleCorrect`, `ReachesAllEvents` | `LifecycleInv`, `TermReachesAllEvents` | `Orderly`: a core is not started again on a thread that was one, and em_term() is on none; of the steps of em_term() only pool_term() fails |
| `LifecycleProofs!FlushTakesItsOwnHolds` | `FlushTakesItsOwn` | `Orderly` and `QuietMoves`: no core is taken out of a group while it has an atomic context of it |
| `EventStateProofs!EsvInvHolds`, `NoFalseAlarmHolds`, `MisuseReportedHolds` | `EsvInv`, `NoFalseAlarm`, `MisuseReported` | `Regular`: no revert of a failed send comes inside the wrap of another, no references in vectors of the application |

The conditions are needed: the tables of section 3 have the executions that TLC
finds without them. None of the properties is inductive alone; each module begins
with the strengthening, in named parts.

### EventGroupProofs

`IInv` adds to the properties

* `GenInv`: a group's generation is its cycle number modulo `GenMod` and every
  tag in use is less than `GenMod` cycles old. This turns "same generation" into
  "same cycle" and yields `StaleNeverCounts`.
* `CoreInv`: where a core is determines whether it has a current group, and a
  post-count loop works on that group with the batch size it received.
* `OwnerInv`: apply and delete exclude each other, and a free group is not
  applied.
* `TableInv`: while a cycle runs, the table is the one it was applied with, and a
  copy that could still win its compare-and-swap equals it. A compare-and-swap
  that succeeds proves that the word, hence the cycle, is unchanged since the
  load; this is why a table outside the word is safe.
* `EndedInv`: cycles that were notified, aborted or are about to be notified have
  ended, in that way.

The counting argument is a lemma about the set `Held(g)` of received and
uncounted events: a receive adds exactly the batch, a count-down removes it. The
refinement maps each step that moves the counter word to the step of `ForkJoin`
for its cycle, by the same invariant: a word that says "last event" belongs to a
cycle that is running with nothing left.

### AtomicGroupProofs

* `BurstInv`: where a core is determines what it has in hand, and bursts, queues
  and stashes hold events of the right queues.
* `LockInv`: the lock bit is set exactly while one core believes to hold it.
* `SomebodyComes`: if events are counted and the lock is free, some core is on its
  way to ag_trylock(), or has released the lock early and looks at the count
  again in ag_unlock(). With `CountCoversStash` this is why no stashed event is
  stranded between an unlock and a stashing core.
* `StopInv`: a core that has confirmed the stop of every queue of the group is not
  at work on it, and a queue is deleted only when all have: why a group is not
  used after it was freed.
* `EachEventOnce` in terms of the places an event can be.

`ExclInv` adds to these what `event_burst_cnt` means: without partial batches it is
the number of events still in hand, so a core ends its atomic processing only with
its last receive call, and holds the lock or the context of its queue until then.

`OrderInv` orders the places an event can be in. For every queue, what was received is
older than what a core is going to receive, that is older than what is in the stashes,
that older than what a core has fetched and not yet stashed, and that older than what
waits in the ODP queue. A core that has fetched from a queue of the group keeps the
queue's context until it has stashed the events or found the group idle with empty
stashes (`CountCoversStash`), so nobody fetches newer ones meanwhile; the lock keeps two
cores from having stashed events of one queue in hand (`ExclInv`, `LockInv`). The rest of
a burst that does not fit is freed: later events may arrive, never earlier ones.
`QuietInv` says who may still receive when a queue is being stopped: a core that has
events of it in hand has not confirmed. With `StopInv` no receive call gets an event of a
queue that every core has confirmed. `WholeGroup` is needed because stashes mix the
queues of the group.

### QueueGroupProofs

An operation ends when the count of its event group reaches zero. Its inductive
meaning is `RequestsMatchCount`: the count is the number of requests that are
unsent, unread or being handled. That is preserved because of

* `MailInv` and `CallInv`: where requests and DONE events of an operation can be,
  which core sends them, and that a caller waits exactly while its operation runs;
* `DeleteInv`: one delete of a group at a time;
* `MapInv` and `TermInv`: a core leaves the core map first, and its termination
  ends when every other thread has read its request.

The proofs hold for any `MayFail`, so an operation may be aborted at any of its
sends, and for operations of one group in any order.

The second half of the module first shows that the lock counts the cores that send (`LockInv`).
Then `SettledInv` adds

* `MemberInv`: the schedule group is the core mask but for the requests of the
  running operation that are not handled;
* `OneOpInv`: one operation of a group runs, and requests belong to running ones;
* `QuietInv`: no request is on its way to a thread outside the core map, and a core
  that stops polling has handled those it had;
* `FreeInv`: a free element is unused, and one marked for deletion is being deleted.

When the operation is done it has no requests left, and what remains of
`MemberInv` is `MembersMatchMask`; for a core outside the map, `QuietInv` gives
`TerminatedIsGone`. A restarted core joins the schedule group of the single-core
group it had before without being added to its mask, so `MemberInv` is false with
`CoreGroups`; an abort leaves cores without their request, so it is false with
failing sends.

### TimeoutProofs

A timeout that is not a ring has one event (`Live`): in the call that sets or
acknowledges it, in the ODP timer, in a queue, or received and not acknowledged.
`CallInv`, `EventInv` and `TimerInv` say that it is unique, that the ODP timer is
armed exactly while it has it, and that the application believes the timeout to
be active exactly while there is one, whatever cancels and expirations come
between the steps of a call. `SlotInv` says which slot is next from where the
event is, and that the slot before it could not be armed any more: the step that
arms it is then `ArmsNextSlot`, and `SlotsAccounted` a case of it.

`TmInv`, for `Timers`, says slot by slot what a timer has while it exists and what
may be left of one that is deleted or was not completed, and that the counter of
rings and the shared reservation are sums over the timers that exist. A create
takes a free slot and fails at one of its steps or not (`FailureIs`), so both
sums change by what one slot has. If the start of the pool fails the reservation
stays with a slot that is free; if a ring takes more than it reserved the sum of
the handles in use is not that of the reservations.

### DispatchProofs

`HInv`, for the hooks: the tables that readers go through have not changed since
they began, the active table holds what is registered and an update in progress
has it but for its change. A reader that began `n` updates ago reads a table that
is not written before `n` reaches the number of tables: `ReadersKeepUp`.

`DInv`, for the dispatch loop, says what is in the core-local memory at each point of
it: where the loop is determines which of the three levels of bursts are
in hand and for which queue the current context is; the flags that let
em_dispatch() skip the local queues are set only if these are empty; what is
counted is at most what options allow. `GroupCountedOnce` then is the sum over all
places an event of a group can be (`OnTheWay`): every step moves events from one
place to another, or takes them out and counts them.

`OInv`, for output queues: contexts are released in the order in which the
scheduler opened them, what is in the queue is in that order, and so is what the
output function was called with; a lock holder has the front of the queue in hand.

### ResourceProofs

Creating and deleting a pool or a queue take several steps that other cores can
observe, so an element is described by how far the call that works on it has come.

`PInv`, for pools: two calls are never on the same pool, and none creates while
another deletes (`OnePoolCall`); every ODP pool that exists is one subpool of one
pool (`OdpInv`), which is `NoOdpPoolLost`; `pool_odp2em` names that subpool, but for
the one step between odp_pool_create() and the store (`At("map", x)`), and names
nothing for other ODP pools, but for the step between odp_pool_destroy() and the
reset (`MapInv`). In pool_init() every ordinary startup pool has taken at most
one element, so there is one left for the default pool (`InitOK`). The sorting of
subpools is any order of ascending size, as no caller depends on which of two
equal ones comes first.

`QInv`, for queues: `QueueOK` says for each stage of a call which parts of the
element are in place and which list it is in. `TreeInv`: a queue and its
aggregators know each other, and an aggregator that is in use but not known to a
queue is in the hands of one call. The three counters are cardinalities: of the
elements that have been set up (`CountInv`), of the list of the queue group
(`ListInv`), and of the output queues, of which those with an index and those that
wait for one are never more than there are indexes (`OutInv`): this is why
the search in queue_setup_output() finds one.

### LifecycleProofs

* `ThreadInv`: after the first flush a core has no prefetched event, after
  queue_term_local() none in its local queues, and it is paused in ODP but for the
  flush of its orphans.
* `CtxInv`: an atomic context belongs to a core that schedules or flushes, so a core
  that has ended keeps none, and the flush in em_term() can get at all queues.
* `GroupInv`: a group is locked by its last core only, and a core that has passed a
  group in queue_group_leave_all() is in it only if it has it locked. The flush of
  the orphans therefore finds no queue but those of its locked groups.
* `DueInv`: events to be flushed are in queues of locked groups, none after the
  second flush. A context that another core keeps would hide them: `QuietMoves`.
* `EmInv`: em_init() holds everything, or what is left when em_term() has failed at
  the pools after a first flush, when all events are in their pools. The second
  em_term() then stops at the control queues, before it uses what is gone.

### EventStateProofs

`NoFalseAlarm` compares words, and a word is only right if the events of every call
in progress are accounted for. Where a call is determines whether the event it
holds has been added to its counters (`Before`, `After`), and

* `CountOK`: the references of an event are those at each place and those of the
  cores in a call with it; `ref` misses the ones being freed, `send` counts the ones
  on their way. The sums are over sets of cores, whose cardinalities change by one
  with each atomic add;
* `GenOK`: an event without references has the generation of its handle while the
  application has it and the next one afterwards, through both steps of the
  set-back at the limit and of its undoing;
* `LowOK`: with references the generation is any number, but falls below the range
  only between the two steps of one revert, and is at the limit until the one core
  that took it there takes it back. A revert inside that wrap makes the second step go
  too far: `Regular` excludes it, with `RevertRace`;
* `FlagOK`: `aggr_sent` is set exactly while the event is with an aggregator. References
  never have the flag, so one in a vector of the application is reported
  (`RefsInVectors`);
* `StaleOK`: the handles given away in the last round of generations are the ones
  before that of now, each once. None is the generation a check compares with, so
  their use is reported.

### Only model-checked

All liveness properties (`PopulatedCompletes`, `CallsComplete`, `TerminationEnds`,
`OpsComplete`, `Delivered`, `CancelSettles`, `LocalInTime`): the prover supports neither
fairness nor ENABLED.
The safety properties of `Eo`: their proofs are not written.

## 6. Plan

What is left is the proofs of `StopIsLast`, `ReceiveAllowed` and `EoSettled` of `Eo`. They
need what is known of an operation on each core (its request in the control queue,
being handled, or done) to be related to the state of the EO and its queues, as
`QueueGroupProofs` does for the requests of a queue group.

## 7. Not modelled

Configuration parsing, CLI, information printing, version and helper functions,
memory layout and the ODP implementation itself (queues are FIFO, schedule
groups are sets, locks are locks). Error handling: an error is routed to the
handler of the EO or to the global one, read once, and changes nothing else.
Event chaining: the option that would create its ordered output queues is
refused when the configuration is read, and what is left calls a user function.
Payload, packet, vector and user-area functions of events work on one event of
their caller. The choice of core ids and the affinity checks at core start.

The mode without EM_EVENT_GROUP_SAFE_MODE drops the checks the properties are
about. Memory ordering: atomic accesses are sequentially consistent in the
model; the release/acquire pairs of the event group word are taken to order the
notification table as the comments in the code say.

More than half of the repository's C code is example, test and benchmark
programs (`src/programs/`) and their common setup: they use EM and are not part of
it. The other large unmapped parts are declarations and API documentation,
attribute checks before an operation begins, statistics, and the printing functions that most components have.
