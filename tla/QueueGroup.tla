----------------------------- MODULE QueueGroup -----------------------------
(***************************************************************************)
(* The control plane of EM: queue groups (em_queue_group.c), the core map  *)
(* (em_core.c), the internal control events that cores exchange through    *)
(* unscheduled control queues (em_internal_event.c) and the life cycle of  *)
(* an EM-core or external thread (em_init.c).                              *)
(*                                                                         *)
(* A queue group is a core mask kept in shared memory (core_mask) and an   *)
(* ODP schedule group, the set of threads that really get its events.  A   *)
(* thread can only join and leave the schedule group itself, so an         *)
(* operation updates the mask at once, sends an ADD or REM request to the  *)
(* control queue of every other core concerned and counts the handled      *)
(* requests with an event group; the last one sends a DONE event, whose    *)
(* handler ends the operation.  Event groups are taken here at the level   *)
(* of ForkJoin, which EventGroup implements: a count, and one notification *)
(* when it reaches zero.                                                   *)
(*                                                                         *)
(* Core c always runs on ODP thread c.  The code clears the thread of a    *)
(* core that terminates to 0, the number of a real thread: the model keeps *)
(* that value.                                                             *)
(***************************************************************************)
EXTENDS Integers, Sequences, SequencesExt, FiniteSets, FiniteSetsExt

CONSTANTS
  NumCores,     \* EM-core ids and ODP thread ids are 0 .. NumCores - 1
  Dyn,          \* queue groups the application creates and deletes
  Default,      \* EM_QUEUE_GROUP_DEFAULT
  CoreGroup,    \* [Core -> group]: the single-core groups, see CoreGroups
  CoreGroups,   \* config option queue_group.create_core_queue_groups
  MaxOps,       \* bound: queue group operations in a behaviour
  MaxTerms,     \* bound: local terminations in a behaviour
  MayFail,      \* the control events whose allocation or sending may fail
  Synchronized, \* the application runs one operation of a group at a time
  TermExcl,     \* ... and starts none while a core is terminating
  External      \* threads may also be initialised as EM_CORE_TYPE_EXTERNAL

Core == 0 .. NumCores - 1
Group == Dyn \cup {Default} \cup (IF CoreGroups THEN {CoreGroup[c] : c \in Core} ELSE {})
OpId == 1 .. MaxOps

ASSUME ConstAssumption ==
  /\ NumCores \in Nat \ {0}
  /\ MaxOps \in Nat /\ MaxTerms \in Nat
  /\ MayFail \subseteq {"op", "term"} /\ Synchronized \in BOOLEAN /\ TermExcl \in BOOLEAN
  /\ External \in BOOLEAN /\ CoreGroups \in BOOLEAN
  /\ Default \notin Dyn
  /\ \A c \in Core : CoreGroup[c] \notin Dyn \cup {Default}
  /\ \A c, d \in Core : c # d => CoreGroup[c] # CoreGroup[d]

VARIABLES
  grp,      \* the queue group table
  ops,      \* queue group operations: callback arguments and event group
  nops,     \* operations started so far
  logic,    \* core_map.rwlocked.logic_mask
  odpThr,   \* core_map.rwlocked.thr_vs_logic.odp_thr
  rwcnt,    \* core_map.rwlock: the number of readers it counts
  ctrlq,    \* core-local control queues, by thread
  shared,   \* the shared control queue
  st,       \* life cycle of each thread
  ph,       \* where each thread is in poll_unsched_ctrl_queue()
  batch,    \* control events it dequeued and has not handled
  call,     \* its queue group API call
  inprog,   \* locm->sync_api.in_progress
  tleft,    \* TERM_THREAD_REQs of this thread not handled yet
  treqs,    \* core_map.ongoing_term_reqs
  tdone,    \* locm->is_term_thread_done
  todo,     \* groups queue_group_leave_all() has not visited
  nterms    \* terminations so far

vars == <<grp, ops, nops, logic, odpThr, rwcnt, ctrlq, shared, st, ph, batch,
          call, inprog, tleft, treqs, tdone, todo, nterms>>

opVars   == <<grp, ops, nops, call, inprog>>
mapVars  == <<logic, odpThr, tleft, treqs, tdone, todo, nterms>>
pollVars == <<ph, batch>>

NoCall == [pc |-> "idle", op |-> 0, rem |-> {}, add |-> {}]

(* An ADD, REM or DONE event carries its operation, a TERM event and its
   DONE event ("TDONE") the terminating thread. *)
Msg == [t : {"ADD", "REM", "DONE"}, id : OpId] \cup [t : {"TERM", "TDONE"}, id : Core]

FreeGroup == [alloc |-> FALSE, mask |-> {}, sched |-> {}, del |-> FALSE, queues |-> 0]

(* After em_init() and em_init_local() on every core: each core has joined
   the default group and its own single-core group. *)
Init ==
  /\ grp = [g \in Group |->
              IF g \in Dyn THEN FreeGroup
              ELSE LET m == IF g = Default THEN Core
                            ELSE {c \in Core : CoreGroup[c] = g}
                   IN  [FreeGroup EXCEPT !.alloc = TRUE, !.mask = m, !.sched = m]]
  /\ ops = <<>>
  /\ nops = 0
  /\ logic = Core
  /\ odpThr = [c \in Core |-> c]
  /\ rwcnt = 0
  /\ ctrlq = [c \in Core |-> <<>>]
  /\ shared = <<>>
  /\ st = [c \in Core |-> "up"]
  /\ ph = [c \in Core |-> "out"]
  /\ batch = [c \in Core |-> <<>>]
  /\ call = [c \in Core |-> NoCall]
  /\ inprog = [c \in Core |-> FALSE]
  /\ tleft = [c \in Core |-> 0]
  /\ treqs = [c \in Core |-> 0]
  /\ tdone = [c \in Core |-> FALSE]
  /\ todo = [c \in Core |-> {}]
  /\ nterms = 0
-----------------------------------------------------------------------------
(* Queue group operations *)

Pending(g) == \E o \in DOMAIN ops : ops[o].g = g /\ ops[o].st = "run"
Terminating == \E c \in Core : st[c] \in {"term", "leave"}

(* The order the application keeps: see Synchronized and TermExcl. *)
Orderly(g) ==
  /\ Synchronized => ~Pending(g)
  /\ TermExcl => ~Terminating

(* An EM-core calls the API from outside of the control queue polling; the
   core map lock is free for reading; queue_group_check_mask() accepts m. *)
MayCall(c, g, m) ==
  /\ st[c] = "up" /\ ph[c] = "out" /\ call[c].pc = "idle"
  /\ nops < MaxOps
  /\ Orderly(g)
  /\ rwcnt >= 0
  /\ m \subseteq logic

(* The threads send_addrem_events() sends to: mask_em2odp__rwlocked(). *)
Threads(m) == {odpThr[c] : c \in m}

(* What is left of an operation when its callback arguments are freed. *)
Finished(p) == [p EXCEPT !.st = "done", !.new = {}, !.caller = 0, !.sync = FALSE]

(* The operation ends without requests: the done function runs at once. *)
DoneNow(kind, g) ==
  /\ ops' = Append(ops, [kind |-> kind, g |-> g, new |-> {}, left |-> 0,
                         caller |-> 0, sync |-> FALSE, st |-> "done"])
  /\ UNCHANGED <<call, rwcnt, inprog>>

(* The event group count of an operation: one event for every core concerned. *)
ReqCount_AddsOnly(add, rem) == Cardinality(add)
ReqCount(add, rem) == Cardinality(add) + Cardinality(rem)

(* odp_rwlock_read_lock(): held until the last request is sent. *)
ReadLock_Early == rwcnt
ReadLock == rwcnt + 1

(* queue_group_modify_sync(): the operations whose caller polls until
   locm->sync_api.in_progress is cleared. *)
Waits(p) == p.sync /\ p.kind # "create"

(* send_qgrp_addrem_reqs() up to the first send: the callback arguments and
   the event group. *)
StartReqs(c, kind, g, m, add, rem, sync) ==
  LET p == [kind |-> kind, g |-> g, new |-> m, left |-> ReqCount(add, rem),
            caller |-> c, sync |-> sync, st |-> "run"]
  IN
  /\ ops' = Append(ops, p)
  /\ call' = [call EXCEPT ![c] = [pc |-> "send", op |-> nops + 1,
                                  rem |-> Threads(rem), add |-> Threads(add)]]
  /\ rwcnt' = ReadLock
  /\ inprog' = [inprog EXCEPT ![c] = @ \/ Waits(p)]

(* queue_group_create() and queue_group_create_sync(): the caller adds
   itself, the other cores get a request each.  Neither waits. *)
Create(c, g, m, sync) ==
  LET add == m \ {c} IN
  /\ MayCall(c, g, m)
  /\ ~grp[g].alloc
  /\ grp' = [grp EXCEPT ![g] = [FreeGroup EXCEPT !.alloc = TRUE, !.mask = m,
                                                 !.sched = m \cap {c}]]
  /\ nops' = nops + 1
  /\ IF add = {} THEN DoneNow("create", g)
                 ELSE StartReqs(c, "create", g, m, add, {}, sync)
  /\ UNCHANGED <<mapVars, pollVars, ctrlq, shared, st>>

(* check_qgrp_state() *)
StateOk_NoQueues(g, kind) == grp[g].alloc /\ ~grp[g].del
StateOk(g, kind) ==
  /\ grp[g].alloc
  /\ ~grp[g].del
  /\ kind = "delete" => grp[g].queues = 0

(* q_grp_delete_done(): the schedule group is destroyed, the element freed. *)
Freed(e) == [e EXCEPT !.alloc = FALSE, !.del = FALSE]

(* count_qgrp_adds(), count_qgrp_rems() *)
Added(old, m) == m \ old
Removed(old, m) == old \ m

(* q_grp_add_core(), q_grp_rem_core(): the calling thread joins or leaves the
   schedule group, for itself only. *)
Joins_Never(e, c) == e
Joins(e, c) == [e EXCEPT !.sched = @ \cup {c}]
Leaves(e, c) == [e EXCEPT !.sched = @ \ {c}]

(* queue_group_modify(): the caller adds itself to the schedule group but
   removes itself through a request, like every other core. *)
ModifyAsync(c, g, m, kind) ==
  LET old == grp[g].mask
      rem == Removed(old, m)
      add == Added(old, m) \ {c}
      n   == [grp[g] EXCEPT !.mask = m]
      e   == IF c \in Added(old, m) THEN Joins(n, c) ELSE n
  IN
  /\ MayCall(c, g, m)
  /\ StateOk(g, kind)
  /\ nops' = nops + 1
  /\ IF add = {} /\ rem = {}
     THEN /\ grp' = [grp EXCEPT ![g] = IF kind = "delete" THEN Freed(e) ELSE e]
          /\ DoneNow(kind, g)
     ELSE /\ grp' = [grp EXCEPT ![g] = [e EXCEPT !.del = (kind = "delete")]]
          /\ StartReqs(c, kind, g, m, add, rem, FALSE)
  /\ UNCHANGED <<mapVars, pollVars, ctrlq, shared, st>>

(* queue_group_modify_sync(): the caller adds and removes itself. *)
ModifySync(c, g, m, kind) ==
  LET old == grp[g].mask
      rem == Removed(old, m) \ {c}
      add == Added(old, m) \ {c}
      n   == [grp[g] EXCEPT !.mask = m]
      e   == IF c \in Added(old, m) THEN Joins(n, c)
             ELSE IF c \in Removed(old, m) THEN Leaves(n, c) ELSE n
  IN
  /\ MayCall(c, g, m)
  /\ StateOk(g, kind)
  /\ nops' = nops + 1
  /\ IF add = {} /\ rem = {}
     THEN /\ grp' = [grp EXCEPT ![g] = IF kind = "delete" THEN Freed(e) ELSE e]
          /\ DoneNow(kind, g)
     ELSE /\ grp' = [grp EXCEPT ![g] = [e EXCEPT !.del = (kind = "delete")]]
          /\ StartReqs(c, kind, g, m, add, rem, TRUE)
  /\ UNCHANGED <<mapVars, pollVars, ctrlq, shared, st>>

(* The call returns, or a synchronous modify or delete starts to poll. *)
AfterSend(o) ==
  IF Waits(ops[o])
  THEN [NoCall EXCEPT !.pc = "wait", !.op = o] ELSE NoCall

(* send_addrem_events(): the next request, REMs first, threads in ascending
   order; after the last one the core map lock is released. *)
SendReq(c) ==
  LET k    == call[c]
      rems == k.rem # {}
      t    == Min(IF rems THEN k.rem ELSE k.add)
      k2   == [k EXCEPT !.rem = @ \ {t}, !.add = IF rems THEN @ ELSE @ \ {t}]
      last == k2.rem = {} /\ k2.add = {}
  IN
  /\ k.pc = "send"
  /\ ctrlq' = [ctrlq EXCEPT ![t] =
                 Append(@, [t |-> IF rems THEN "REM" ELSE "ADD", id |-> k.op])]
  /\ call' = [call EXCEPT ![c] = IF last THEN AfterSend(k.op) ELSE k2]
  /\ rwcnt' = IF last THEN rwcnt - 1 ELSE rwcnt
  /\ UNCHANGED <<grp, ops, nops, inprog, mapVars, pollVars, shared, st>>

(* An allocation or a send fails: err_free_resources frees what was not sent
   and aborts and deletes the event group.  The core mask keeps its new
   value.  queue_group_modify_sync() releases the lock after the failed call
   and once more at its error label. *)
SendFail(c) ==
  LET o == call[c].op IN
  /\ "op" \in MayFail
  /\ call[c].pc = "send"
  /\ ops' = [ops EXCEPT ![o].st = "aborted"]
  /\ IF Waits(ops[o])
     THEN /\ rwcnt' = rwcnt - 2
          /\ inprog' = [inprog EXCEPT ![c] = FALSE]
     ELSE /\ rwcnt' = rwcnt - 1
          /\ UNCHANGED inprog
  /\ call' = [call EXCEPT ![c] = NoCall]
  /\ UNCHANGED <<grp, nops, mapVars, pollVars, ctrlq, shared, st>>

(* while (locm->sync_api.in_progress) poll_unsched_ctrl_queue(); *)
SyncReturn(c) ==
  /\ call[c].pc = "wait" /\ ph[c] = "out"
  /\ ~inprog[c]
  /\ call' = [call EXCEPT ![c] = NoCall]
  /\ UNCHANGED <<grp, ops, nops, inprog, rwcnt, mapVars, pollVars, ctrlq, shared, st>>

(* em_queue_create() and em_queue_delete(), as far as the group sees them. *)
QueueCreate(g) ==
  /\ grp[g].alloc /\ grp[g].queues = 0
  /\ Synchronized => ~Pending(g)
  /\ grp' = [grp EXCEPT ![g].queues = 1]
  /\ UNCHANGED <<ops, nops, call, inprog, rwcnt, mapVars, pollVars, ctrlq, shared, st>>

QueueDelete(g) ==
  /\ grp[g].queues = 1
  /\ grp' = [grp EXCEPT ![g].queues = 0]
  /\ UNCHANGED <<ops, nops, call, inprog, rwcnt, mapVars, pollVars, ctrlq, shared, st>>
-----------------------------------------------------------------------------
(* Control events *)

(* The condition that ends the polling loop of term_core(). *)
TermLoopDone_Always(c) == TRUE
TermLoopDone(c) == tdone[c] /\ treqs[c] = 0

(* Who starts a polling round: the dispatch loop, a synchronous call until it
   is released, a termination until the condition of its loop is false. *)
Polls(c) ==
  \/ st[c] = "up" /\ call[c].pc = "idle"
  \/ st[c] = "up" /\ call[c].pc = "wait" /\ inprog[c]
  \/ st[c] = "term" /\ ~TermLoopDone(c)
  \/ st[c] = "extterm" /\ ~tdone[c]

(* poll_unsched_ctrl_queue(): a round dequeues the own queue, then the
   shared one, handles what it got and starts over; it ends when both
   dequeues return nothing. *)
PollThr(c) ==
  /\ \/ ph[c] = "out" /\ Polls(c)
     \/ ph[c] = "ev" /\ batch[c] = <<>>
  /\ batch' = [batch EXCEPT ![c] = ctrlq[c]]
  /\ ctrlq' = [ctrlq EXCEPT ![c] = <<>>]
  /\ ph' = [ph EXCEPT ![c] = "thr"]
  /\ UNCHANGED <<opVars, mapVars, rwcnt, shared, st>>

PollShared(c) ==
  /\ ph[c] = "thr"
  /\ batch' = [batch EXCEPT ![c] = @ \o shared]
  /\ shared' = <<>>
  /\ ph' = [ph EXCEPT ![c] = IF batch'[c] = <<>> THEN "out" ELSE "ev"]
  /\ UNCHANGED <<opVars, mapVars, rwcnt, ctrlq, st>>

(* handle_ctrl_events() with the next event of the batch, of type t. *)
Takes(c, t) ==
  /\ ph[c] = "ev" /\ batch[c] # <<>>
  /\ Head(batch[c]).t = t
  /\ batch' = [batch EXCEPT ![c] = Tail(@)]
  /\ UNCHANGED <<ph, rwcnt, st>>

LastReq_Zero(o) == ops[o].left = 0
LastReq(o) == ops[o].left = 1

(* event_group_count_decrement() after the handler of a request: the last
   request sends the DONE event, to the caller of a synchronous operation or
   to the shared queue.  An aborted event group counts nothing. *)
Decrement(o) ==
  LET done == [t |-> "DONE", id |-> o] IN
  IF ops[o].st # "run" THEN UNCHANGED <<ops, ctrlq, shared>>
  ELSE /\ ops' = [ops EXCEPT ![o].left = @ - 1]
       /\ IF ~LastReq(o) THEN UNCHANGED <<ctrlq, shared>>
          ELSE IF ops[o].sync
          THEN /\ ctrlq' = [ctrlq EXCEPT ![ops[o].caller] = Append(@, done)]
               /\ UNCHANGED shared
          ELSE /\ shared' = Append(shared, done)
               /\ UNCHANGED ctrlq

(* i_event__qgrp_add_core_req(); joining a destroyed group fails. *)
HandleAdd(c) ==
  LET o == Head(batch[c]).id
      g == ops[o].g
  IN
  /\ Takes(c, "ADD")
  /\ grp' = [grp EXCEPT ![g] = IF @.alloc THEN Joins(@, c) ELSE @]
  /\ Decrement(o)
  /\ UNCHANGED <<nops, call, inprog, mapVars>>

(* i_event__qgrp_rem_core_req() *)
HandleRem(c) ==
  LET o == Head(batch[c]).id
      g == ops[o].g
  IN
  /\ Takes(c, "REM")
  /\ grp' = [grp EXCEPT ![g] = IF @.alloc THEN Leaves(@, c) ELSE @]
  /\ Decrement(o)
  /\ UNCHANGED <<nops, call, inprog, mapVars>>

(* q_grp_modify_sync_done_callback(), q_grp_delete_sync_done_callback(): the
   callbacks that clear in_progress; q_grp_create_sync_done_callback() does
   not. *)
Releases_AnySync(p) == p.sync
Releases_Never(p) == FALSE
Releases(p) == p.sync /\ p.kind \in {"modify", "delete"}

(* i_event__internal_done(): the event group is deleted, the callback runs
   (it frees the group after a delete and releases the caller of a
   synchronous modify or delete), the notifications are sent. *)
HandleDone(c) ==
  LET o == Head(batch[c]).id
      p == ops[o]
  IN
  /\ Takes(c, "DONE")
  /\ ops' = [ops EXCEPT ![o] = Finished(p)]
  /\ grp' = [grp EXCEPT ![p.g] = IF p.kind = "delete" THEN Freed(@) ELSE @]
  /\ inprog' = [inprog EXCEPT ![c] = @ /\ ~Releases(p)]
  /\ UNCHANGED <<nops, call, mapVars, ctrlq, shared>>

(* i_event__term_thread_req() *)
ReqHandled_Uncounted(c) == treqs
ReqHandled(c) == [treqs EXCEPT ![c] = @ - 1]

HandleTerm(c) ==
  LET x == Head(batch[c]).id IN
  /\ Takes(c, "TERM")
  /\ treqs' = ReqHandled(c)
  /\ tleft' = [tleft EXCEPT ![x] = @ - 1]
  /\ ctrlq' = IF tleft[x] # 1 THEN ctrlq
              ELSE [ctrlq EXCEPT ![x] = Append(@, [t |-> "TDONE", id |-> x])]
  /\ UNCHANGED <<opVars, logic, odpThr, tdone, todo, nterms, shared>>

(* term_thread_req_done_callback() *)
HandleTermDone(c) ==
  /\ Takes(c, "TDONE")
  /\ tdone' = [tdone EXCEPT ![c] = TRUE]
  /\ UNCHANGED <<opVars, logic, odpThr, tleft, treqs, todo, nterms, ctrlq, shared>>
-----------------------------------------------------------------------------
(* Life cycle of a thread *)

(* term_thread_req(): one TERM request to every remaining core. *)
TermReqs(c, remain) ==
  /\ tleft' = [tleft EXCEPT ![c] = Cardinality(remain)]
  /\ ctrlq' = [d \in Core |-> IF d \in remain
                              THEN Append(ctrlq[d], [t |-> "TERM", id |-> c])
                              ELSE ctrlq[d]]

(* ongoing_term_reqs of the threads that get a request. *)
CountReqs_None(ts) == treqs
CountReqs(ts) == [d \in Core |-> IF d \in ts THEN treqs[d] + 1 ELSE treqs[d]]

(* core_map_term_local(), with the core map locked for writing.  The core is
   still in the masks of its groups when it leaves the core map. *)
TermBegin(c) ==
  LET remain == logic \ {c} IN
  /\ st[c] = "up" /\ ph[c] = "out" /\ call[c].pc = "idle"
  /\ nterms < MaxTerms
  /\ rwcnt = 0
  /\ nterms' = nterms + 1
  /\ logic' = remain
  /\ odpThr' = [odpThr EXCEPT ![c] = 0]
  /\ treqs' = CountReqs(remain)
  /\ tdone' = [tdone EXCEPT ![c] = remain = {}]
  /\ \/ TermReqs(c, remain)
     \/ "term" \in MayFail /\ remain # {} /\ UNCHANGED <<tleft, ctrlq>>
  /\ st' = [st EXCEPT ![c] = "term"]
  /\ ph' = [ph EXCEPT ![c] = "ev"]
  /\ UNCHANGED <<opVars, rwcnt, shared, batch, todo>>

(* The polling loop of term_core() ends. *)
TermPolled(c) ==
  /\ st[c] = "term" /\ ph[c] = "out"
  /\ TermLoopDone(c)
  /\ st' = [st EXCEPT ![c] = "leave"]
  /\ todo' = [todo EXCEPT ![c] = Group]
  /\ UNCHANGED <<opVars, logic, odpThr, tleft, treqs, tdone, nterms, pollVars,
                 rwcnt, ctrlq, shared>>

(* q_grp_rem_core() and em_core_mask_clr() of queue_group_leave_all() *)
LeavesMask_Only(e, c) == [e EXCEPT !.mask = @ \ {c}]
LeavesMask(e, c) == [Leaves(e, c) EXCEPT !.mask = @ \ {c}]

(* queue_group_leave_all(): one group, under its lock; after the last one
   term_core() returns. *)
LeaveGroup(c, g) ==
  LET e    == grp[g]
      mine == e.alloc /\ ~e.del /\ c \in e.mask
  IN
  /\ st[c] = "leave" /\ g \in todo[c]
  /\ grp' = [grp EXCEPT ![g] = IF mine THEN LeavesMask(e, c) ELSE e]
  /\ todo' = [todo EXCEPT ![c] = @ \ {g}]
  /\ st' = [st EXCEPT ![c] = IF todo'[c] = {} THEN "down" ELSE @]
  /\ UNCHANGED <<ops, nops, call, inprog, logic, odpThr, tleft, treqs, tdone,
                 nterms, pollVars, rwcnt, ctrlq, shared>>

(* init_local(): fresh core-local memory, then core_map_init_local(). *)
InitCore(c) ==
  /\ st[c] = "down"
  /\ rwcnt = 0
  /\ logic' = logic \cup {c}
  /\ odpThr' = [odpThr EXCEPT ![c] = c]
  /\ st' = [st EXCEPT ![c] = "init"]
  /\ tdone' = [tdone EXCEPT ![c] = FALSE]
  /\ inprog' = [inprog EXCEPT ![c] = FALSE]
  /\ UNCHANGED <<grp, ops, nops, call, tleft, treqs, todo, nterms, pollVars,
                 rwcnt, ctrlq, shared>>

(* default_queue_group_join() *)
JoinsMask(e, c) == [Joins(e, c) EXCEPT !.mask = @ \cup {c}]

(* queue_group_init_local(): default_queue_group_join() sets the core in the
   mask and joins; core_queue_group_create() finds the group of an earlier
   life and reuses it, core_queue_group_join() joins it. *)
JoinGroups(c) ==
  /\ st[c] = "init"
  /\ grp' = [g \in Group |->
               IF g = Default THEN JoinsMask(grp[g], c)
               ELSE IF CoreGroups /\ g = CoreGroup[c] THEN Joins(grp[g], c)
               ELSE grp[g]]
  /\ st' = [st EXCEPT ![c] = "up"]
  /\ UNCHANGED <<ops, nops, call, inprog, mapVars, pollVars, rwcnt, ctrlq, shared>>

(* init_extthr(): an external thread has a control queue but no core id.
   The termination that ends its life counts in nterms when it starts. *)
InitExt(c) ==
  /\ External
  /\ st[c] = "down"
  /\ nterms < MaxTerms
  /\ rwcnt = 0
  /\ nterms' = nterms + 1
  /\ st' = [st EXCEPT ![c] = "ext"]
  /\ tdone' = [tdone EXCEPT ![c] = FALSE]
  /\ inprog' = [inprog EXCEPT ![c] = FALSE]
  /\ UNCHANGED <<grp, ops, nops, call, logic, odpThr, tleft, treqs, todo,
                 pollVars, rwcnt, ctrlq, shared>>

(* core_map_term_extthr(): also counts a request of its own thread, which
   only EM-cores are sent. *)
TermExt(c) ==
  /\ st[c] = "ext" /\ ph[c] = "out"
  /\ rwcnt = 0
  /\ treqs' = CountReqs(logic \cup {c})
  /\ tdone' = [tdone EXCEPT ![c] = logic = {}]
  /\ TermReqs(c, logic)
  /\ st' = [st EXCEPT ![c] = "extterm"]
  /\ ph' = [ph EXCEPT ![c] = "ev"]
  /\ UNCHANGED <<opVars, logic, odpThr, rwcnt, shared, batch, todo, nterms>>

TermExtPolled(c) ==
  /\ st[c] = "extterm" /\ ph[c] = "out"
  /\ tdone[c]
  /\ st' = [st EXCEPT ![c] = "down"]
  /\ UNCHANGED <<opVars, mapVars, pollVars, rwcnt, ctrlq, shared>>
-----------------------------------------------------------------------------
Calls(c) ==
  \E g \in Dyn, m \in SUBSET Core, sync \in BOOLEAN :
     \/ Create(c, g, m, sync)
     \/ IF sync THEN ModifySync(c, g, m, "modify") ELSE ModifyAsync(c, g, m, "modify")
     \/ m = {} /\ IF sync THEN ModifySync(c, g, m, "delete")
                          ELSE ModifyAsync(c, g, m, "delete")

(* The steps a core takes by itself: it sends what it has to send and polls. *)
Works(c) ==
  \/ SendReq(c) \/ SyncReturn(c)
  \/ PollThr(c) \/ PollShared(c)
  \/ HandleAdd(c) \/ HandleRem(c) \/ HandleDone(c)
  \/ HandleTerm(c) \/ HandleTermDone(c)
  \/ TermPolled(c) \/ TermExtPolled(c)
  \/ JoinGroups(c)
  \/ \E g \in Group : LeaveGroup(c, g)

Next ==
  \/ \E c \in Core : Calls(c) \/ Works(c) \/ SendFail(c)
                     \/ TermBegin(c) \/ InitCore(c) \/ InitExt(c) \/ TermExt(c)
  \/ \E g \in Dyn : QueueCreate(g) \/ QueueDelete(g)

Spec == Init /\ [][Next]_vars

(* A core that has work to do goes on with it. *)
FairSpec == Spec /\ \A c \in Core : WF_vars(Works(c))
-----------------------------------------------------------------------------
(* Properties *)

Element == [alloc : BOOLEAN, mask : SUBSET Core, sched : SUBSET Core, del : BOOLEAN,
            queues : 0 .. 1]
Operation == [kind : {"create", "modify", "delete"}, g : Dyn, new : SUBSET Core,
              left : 0 .. 2 * NumCores, caller : Core, sync : BOOLEAN,
              st : {"run", "done", "aborted"}]

(* The variables have their types. *)
TypeOK ==
  /\ grp \in [Group -> Element]
  /\ nops \in 0 .. MaxOps
  /\ ops \in Seq(Operation) /\ Len(ops) = nops
  /\ logic \subseteq Core
  /\ odpThr \in [Core -> Core]
  /\ rwcnt \in Int
  /\ ctrlq \in [Core -> Seq(Msg)] /\ batch \in [Core -> Seq(Msg)] /\ shared \in Seq(Msg)
  /\ st \in [Core -> {"init", "up", "term", "leave", "down", "ext", "extterm"}]
  /\ ph \in [Core -> {"out", "thr", "ev"}]
  /\ call \in [Core -> [pc : {"idle", "send", "wait"}, op : 0 .. MaxOps,
                        rem : SUBSET Core, add : SUBSET Core]]
  /\ inprog \in [Core -> BOOLEAN] /\ tdone \in [Core -> BOOLEAN]
  /\ tleft \in [Core -> Nat] /\ treqs \in [Core -> Nat]
  /\ todo \in [Core -> SUBSET Group]
  /\ nterms \in 0 .. MaxTerms

(* The control events of thread c that are queued, or dequeued and not handled. *)
Mail(c) == ToSet(ctrlq[c]) \cup ToSet(batch[c])

(* The request of kind k of operation o to thread d is not sent yet. *)
Unsent(o, k, d) ==
  \E c \in Core : /\ call[c].pc = "send" /\ call[c].op = o
                  /\ d \in (IF k = "REM" THEN call[c].rem ELSE call[c].add)

(* The requests of o that are not handled: their kind and their thread. *)
Open(o) ==
  {r \in {"ADD", "REM"} \X Core : \/ Unsent(o, r[1], r[2])
                                  \/ [t |-> r[1], id |-> o] \in Mail(r[2])}

(* The DONE event of o is under way. *)
DoneEvent(o) == [t |-> "DONE", id |-> o]
DoneSent(o) == \/ DoneEvent(o) \in ToSet(shared)
               \/ \E c \in Core : DoneEvent(o) \in Mail(c)

(* No control event is in two places: a request is sent once to a thread, a
   DONE event is in one queue or with one core, which has dequeued it. *)
EachEventOnce ==
  /\ IsInjective(shared)
  /\ \A c \in Core :
       /\ IsInjective(ctrlq[c]) /\ IsInjective(batch[c])
       /\ ToSet(ctrlq[c]) \cap ToSet(batch[c]) = {}
       /\ ToSet(shared) \cap Mail(c) = {}
  /\ \A c, d \in Core : \A o \in OpId : DoneEvent(o) \in Mail(c) \cap Mail(d) => c = d
  /\ \A o \in OpId, k \in {"ADD", "REM"}, d \in Core :
       Unsent(o, k, d) => [t |-> k, id |-> o] \notin Mail(d)

(* The event group of a running operation counts exactly its requests that
   are not handled yet (send_qgrp_addrem_reqs() and handle_ctrl_events()),
   and there is one DONE event once, and only once, none is left: whatever
   the order in which cores send, poll and terminate.  A finished or aborted
   operation has none. *)
RequestsMatchCount ==
  /\ EachEventOnce
  /\ \A o \in DOMAIN ops :
       LET run == ops[o].st = "run" IN
       /\ run => ops[o].left = Cardinality(Open(o))
       /\ DoneSent(o) <=> run /\ ops[o].left = 0

(* When no operation of an allocated group is running, the threads in its
   ODP schedule group are exactly the cores of its core mask: what a modify
   or create promised is in place when its notifications are sent, also if
   cores terminated or started meanwhile. *)
MembersMatchMask ==
  \A g \in Group : grp[g].alloc /\ ~Pending(g) => grp[g].sched = grp[g].mask

(* q_grp_delete_done() destroys a schedule group that no thread is left in,
   of a group that no queue is in and no operation works on: the sanity
   checks of that function never fire. *)
FreedGroupIsIdle ==
  \A g \in Dyn : ~grp[g].alloc =>
    grp[g].sched = {} /\ grp[g].queues = 0 /\ ~Pending(g)

(* A core is released from its synchronous modify or delete by the DONE event
   of that operation and of no other one, although create_sync leaves DONE
   events in the same control queue; the flag is down outside of such a
   call, so that the next one starts from a clean state. *)
ReleasedByOwnOp ==
  \A c \in Core :
    /\ call[c].pc = "wait" /\ ~inprog[c] => ops[call[c].op].st = "done"
    /\ inprog[c] => call[c].pc \in {"send", "wait"}

(* "The core ctrl events should be sent before releasing the lock to prevent
   add/rem-core actions while sending these ctrl events": the core map does
   not change while a core is between queue_group_check_mask() and the last
   send of its requests. *)
CoreMapStable ==
  [][logic' # logic => \A c \in Core : call[c].pc # "send"]_vars

(* "The EM worker and control cores will leave all queue groups before
   returning" from em_term_local(). *)
LeavesAllGroups ==
  \A c \in Core : st[c] = "down" => \A g \in Group : c \notin grp[g].sched

(* A terminated core is in no core mask and no request waits for it in its
   control queue, where nobody would handle it before the thread starts
   again: the TERM_THREAD_REQ handshake of term_core() flushes them. *)
NothingLeftBehind ==
  \A c \in Core : st[c] = "down" =>
    /\ \A g \in Group : c \notin grp[g].mask
    /\ \A i \in DOMAIN ctrlq[c] : ctrlq[c][i].t = "DONE"

(* "EM will send notifications when the operation has completed": it does
   complete.  The exception is a create_sync, which does not wait: if its
   caller terminates first, the DONE event stays in the control queue of a
   thread that no longer polls. *)
OpsComplete ==
  \A o \in OpId :
    (o \in DOMAIN ops /\ ops[o].st = "run") ~>
    (o \in DOMAIN ops /\ (\/ ops[o].st # "run"
                          \/ /\ ops[o].kind = "create" /\ ops[o].sync
                             /\ st[ops[o].caller] \notin {"init", "up", "term"}))

(* A synchronous modify or delete returns. *)
SyncCallsReturn ==
  \A c \in Core : (call[c].pc = "wait") ~> (call[c].pc # "wait")

(* em_term_local() returns: the threads that wait for each other's
   TERM_THREAD_REQs all get out of their polling loops. *)
TermCompletes ==
  \A c \in Core : (st[c] \in {"term", "extterm"}) ~> (st[c] = "down")

(* Between operations the schedule group of a queue group is what its core
   mask says, and a group that was deleted is empty and idle. *)
GroupsSettled == TypeOK /\ MembersMatchMask /\ FreedGroupIsIdle

(* An operation is counted down, completed and its caller released by its own
   requests and its own DONE event, whatever else is going on or fails. *)
OwnRequestsOnly == RequestsMatchCount /\ ReleasedByOwnOp

(* A core that has returned from em_term_local() is in no schedule group and
   no core mask, and no request waits for it. *)
TerminatedIsGone == LeavesAllGroups /\ NothingLeftBehind

(* Operations complete, synchronous calls return and cores terminate,
   although all of them wait for control events that the others handle. *)
CallsComplete == OpsComplete /\ SyncCallsReturn /\ TermCompletes
=============================================================================
