--------------------------------- MODULE Eo ---------------------------------
(***************************************************************************)
(* Execution objects: the life cycle of an EO and of the queues bound to   *)
(* it (event_machine_eo.c, em_eo.c, the queue states of em_queue.c), the   *)
(* EO-local functions that run on every EM-core on request, and the        *)
(* dispatcher as far as it enters an EO-receive function.                  *)
(*                                                                         *)
(* The user's start, stop and receive functions may call the EM API, and a *)
(* synchronous call polls the control queues of its core, whose handlers   *)
(* may run other user functions.  A thread is therefore a stack of frames, *)
(* Head(stack[t]) being the running one; an empty stack is the dispatch    *)
(* loop (or, for an external thread, its own main function).               *)
(*                                                                         *)
(* Frames:  rcv      in the receive function of EO e, event from queue q   *)
(*          start    in the global start function                          *)
(*          stop     in the global stop function                           *)
(*          send     sending a local-function request to the cores in to   *)
(*          wait     in the polling loop of a synchronous call             *)
(*          poll     in poll_unsched_ctrl_queue(), batch b left to handle  *)
(*          local    in the local start function, on behalf of request o   *)
(*          addq     in em_eo_add_queue(), queue bound, not yet enabled    *)
(*          enable   about to queue_enable_all()                           *)
(*          running  about to set the state RUNNING                        *)
(*          flush    about to send the events buffered during the start    *)
(***************************************************************************)
EXTENDS Integers, Sequences, FiniteSets, FiniteSetsExt

CONSTANTS
  NumCores,   \* EM-core ids are 0 .. NumCores - 1
  Ext,        \* threads of EM_CORE_TYPE_EXTERNAL
  EOs,        \* elements of the EO pool
  Queues,     \* scheduled queues
  NoEo, NoQ,  \* EM_EO_UNDEF and EM_QUEUE_UNDEF
  Up,         \* EOs that are running to begin with, each with its queue
  AsyncIn,    \* where asynchronous operations are called from
  SyncIn,     \* where synchronous operations are called from
  Orderly,    \* the application runs one operation of an EO at a time
  Callers,    \* threads that call the operations
  MayFail,    \* what may fail: a function, or the requests of an operation
  MaxOps,     \* bound: operations on EOs in a behaviour
  MaxSends,   \* bound: events the application sends
  MaxMoves    \* bound: cores that join or leave

Core   == 0 .. NumCores - 1
Thread == Core \cup Ext
OpId   == 1 .. MaxOps
Places == {"main", "rcv", "start", "stop"}

ASSUME ConstAssumption ==
  /\ NumCores \in Nat \ {0} /\ Ext \cap Core = {}
  /\ NoEo \notin EOs /\ NoQ \notin Queues
  /\ AsyncIn \subseteq Places /\ SyncIn \subseteq Places
  /\ Orderly \in BOOLEAN
  /\ Callers \subseteq Thread
  /\ MayFail \subseteq {"stash", "global", "local"} \cup {"start", "stop", "remq", "remall"}
  /\ MaxOps \in Nat /\ MaxSends \in Nat /\ MaxMoves \in Nat
  /\ \E qOf \in [Up -> Queues] : \A e, d \in Up : e # d => qOf[e] # qOf[d]

VARIABLES
  eo,       \* the EO table
  que,      \* the queue table
  ops,      \* local-function requests: loc_func_retval_t and event group
  ctrlq,    \* core-local control queues
  shared,   \* the shared control queue
  emcores,  \* core_map.rwlocked.logic_mask
  life,     \* "up", "out", or in em_init_local() / em_term_local()
  stack,    \* what each thread is doing
  starting, \* locm->start_eo_elem
  inprog,   \* locm->sync_api.in_progress
  ran,      \* EOs whose local start ran on a core, and local stop has not
  nops, nsent, nmoves

vars == <<eo, que, ops, ctrlq, shared, emcores, life, stack, starting, inprog, ran,
          nops, nsent, nmoves>>

tabVars  == <<eo, que>>
msgVars  == <<ops, ctrlq, shared>>
coreVars == <<emcores, life, nmoves>>

UndefEo == [st |-> "UNDEF", loc |-> FALSE, stash |-> FALSE, buf |-> <<>>, qs |-> <<>>]
FreeQ   == [st |-> "INVALID", eo |-> NoEo, evs |-> <<>>,
            rem |-> FALSE] \* history: a remove operation has disabled it
NoOp    == [kind |-> "none", e |-> NoEo, q |-> NoQ, del |-> FALSE, sync |-> FALSE,
            caller |-> 0, left |-> 0, fail |-> FALSE, st |-> "free"]
Frame(f, e) == [f |-> f, e |-> e, o |-> 0, q |-> NoQ, kind |-> "none", sync |-> FALSE,
                to |-> {}, b |-> <<>>]

(* em_init() and em_init_local() have run on every core.  The EOs of Up have
   been created with local functions, given a queue each and started. *)
Init ==
  \E qOf \in [Up -> Queues] :
    /\ \A e, d \in Up : e # d => qOf[e] # qOf[d]
    /\ eo = [e \in EOs |-> IF e \in Up
                           THEN [UndefEo EXCEPT !.st = "RUNNING", !.loc = TRUE, !.qs = <<qOf[e]>>]
                           ELSE UndefEo]
    /\ que = [q \in Queues |->
                IF \E e \in Up : qOf[e] = q
                THEN [FreeQ EXCEPT !.st = "READY", !.eo = CHOOSE e \in Up : qOf[e] = q]
                ELSE FreeQ]
    /\ ops = [o \in OpId |-> NoOp]
    /\ ctrlq = [t \in Thread |-> <<>>]
    /\ shared = <<>>
    /\ emcores = Core
    /\ life = [t \in Thread |-> "up"]
    /\ stack = [t \in Thread |-> <<>>]
    /\ starting = [t \in Thread |-> NoEo]
    /\ inprog = [t \in Thread |-> FALSE]
    /\ ran = [c \in Core |-> Up]
    /\ nops = 0 /\ nsent = 0 /\ nmoves = 0
-----------------------------------------------------------------------------
(* Threads and their stacks *)

Idle(t) == stack[t] = <<>>
Top(t)  == Head(stack[t])
In(t, f) == ~Idle(t) /\ Top(t).f = f
Place(t) == IF Idle(t) THEN "main" ELSE Top(t).f

Push(t, fr) == stack' = [stack EXCEPT ![t] = <<fr>> \o @]
Pop(t)      == stack' = [stack EXCEPT ![t] = Tail(@)]
Goto(t, fr) == stack' = [stack EXCEPT ![t] = <<fr>> \o Tail(@)]

Frames(t) == {stack[t][i] : i \in 1 .. Len(stack[t])}

(* An operation of e is under way, other than a global stop function that a
   thread of own is running. *)
Busy(e, own) ==
  \/ \E o \in OpId : ops[o].e = e /\ ops[o].st = "run"
  \/ \E t \in Thread : \E i \in 1 .. Len(stack[t]) :
       /\ stack[t][i].e = e /\ stack[t][i].f # "rcv"
       /\ ~(t \in own /\ i = 1 /\ stack[t][i].f = "stop")

Moving == \E c \in Core : life[c] \notin {"up", "out"}

(* The order the application keeps: an EO is operated on when the previous
   operation has ended; its stop function may remove its queues and delete it. *)
Ordered(e, own) == Orderly => ~Busy(e, own) /\ ~Moving

MayCall(t, e, sync, own) ==
  /\ t \in Callers /\ life[t] = "up"
  /\ Place(t) \in (IF sync THEN SyncIn ELSE AsyncIn)
  /\ nops < MaxOps
  /\ Ordered(e, own)
-----------------------------------------------------------------------------
(* Queues of an EO *)

(* queue_state_change_all(): every queue of the list is BIND or READY, so no
   transition is refused. *)
AllQueues(e, s) ==
  [q \in Queues |-> IF \E i \in 1 .. Len(eo[e].qs) : eo[e].qs[i] = q
                    THEN [que[q] EXCEPT !.st = s, !.rem = @ /\ s = "BIND"] ELSE que[q]]

(* queue_state_change__check() for a teardown to INIT: READY is refused.
   tbl is the queue table the caller has arrived at. *)
CanUnbind(tbl, q) == tbl[q].st = "BIND"

(* odp_queue_destroy() refuses a queue that still has events. *)
CanDelete(tbl, q) == CanUnbind(tbl, q) /\ tbl[q].evs = <<>>

(* The place in the list at which a loop over it stops, when it succeeds for
   the queues of ok only. *)
StopsAt(e, ok) ==
  Min({i \in 1 .. Len(eo[e].qs) : eo[e].qs[i] \notin ok} \cup {Len(eo[e].qs) + 1})

Unbound(r) == [r EXCEPT !.st = "INIT", !.eo = NoEo, !.rem = FALSE]

(* eo_rem_queue(): the list node is unlinked from whichever list it is in. *)
RemQueue(tbl, q) ==
  IF CanUnbind(tbl, q)
  THEN /\ que' = [tbl EXCEPT ![q] = Unbound(@)]
       /\ eo' = [eo EXCEPT ![tbl[q].eo].qs = SelectSeq(@, LAMBDA x : x # q)]
  ELSE que' = tbl /\ UNCHANGED eo

(* eo_rem_queue_all() *)
RemQueueAll(tbl, e) ==
  LET k == StopsAt(e, {q \in Queues : CanUnbind(tbl, q)})
      gone == {eo[e].qs[i] : i \in 1 .. k - 1}
  IN
  /\ que' = [q \in Queues |-> IF q \in gone THEN Unbound(tbl[q]) ELSE tbl[q]]
  /\ eo' = [eo EXCEPT ![e].qs = SubSeq(@, k, Len(@))]

(* eo_delete_queue_all(): the queue at which the loop stops may have been
   removed from the EO already.  If all are gone the EO is freed as well,
   when free says so. *)
DeleteQueueAll(tbl, e, free) ==
  LET n == Len(eo[e].qs)
      k == StopsAt(e, {q \in Queues : CanDelete(tbl, q)})
      half == k <= n /\ CanUnbind(tbl, eo[e].qs[k])
      gone == {eo[e].qs[i] : i \in 1 .. k - 1}
  IN
  /\ que' = [q \in Queues |-> IF q \in gone THEN FreeQ
                              ELSE IF half /\ q = eo[e].qs[k] THEN Unbound(tbl[q])
                              ELSE tbl[q]]
  /\ eo' = [eo EXCEPT ![e] =
              IF k > n /\ free THEN UndefEo
              ELSE [@ EXCEPT !.qs = SubSeq(@, IF half THEN k + 1 ELSE k, n)]]

(* em_queue_create(), em_queue_delete() *)
QueueCreate(q) ==
  /\ que[q].st = "INVALID"
  /\ que' = [que EXCEPT ![q].st = "INIT"]
  /\ UNCHANGED <<eo, msgVars, coreVars, stack, starting, inprog, ran, nops, nsent>>

QueueDelete(q) ==
  /\ que[q].st = "INIT" /\ que[q].evs = <<>>
  /\ que' = [que EXCEPT ![q] = FreeQ]
  /\ UNCHANGED <<eo, msgVars, coreVars, stack, starting, inprog, ran, nops, nsent>>

(* eo_create(): loc tells whether the EO has local start and stop functions. *)
EoCreate(e, loc) ==
  /\ eo[e].st = "UNDEF"
  /\ eo' = [eo EXCEPT ![e] = [UndefEo EXCEPT !.st = "CREATED", !.loc = loc]]
  /\ ran' = [c \in Core |-> ran[c] \ {e}]
  /\ UNCHANGED <<que, msgVars, coreVars, stack, starting, inprog, nops, nsent>>

(* em_eo_delete() *)
DeletableStates_All == {"CREATED", "ERROR", "STARTING", "RUNNING", "STOPPING"}
DeletableStates == {"CREATED", "ERROR"}
EoDelete(t, e) ==
  /\ t \in Callers /\ life[t] = "up" /\ Place(t) \in AsyncIn \cup SyncIn
  /\ Ordered(e, {t})
  /\ eo[e].st \in DeletableStates
  /\ DeleteQueueAll(que, e, TRUE)
  /\ UNCHANGED <<msgVars, coreVars, stack, starting, inprog, ran, nops, nsent>>

(* eo_add_queue_escope(): the queue is linked first, and enabled only if the
   EO is found to be running after that. *)
AddQueue(t, e, q) ==
  /\ MayCall(t, e, FALSE, {})
  /\ eo[e].st # "UNDEF" /\ que[q].st = "INIT"
  /\ que' = [que EXCEPT ![q].st = "BIND", ![q].eo = e]
  /\ eo' = [eo EXCEPT ![e].qs = Append(@, q)]
  /\ nops' = nops + 1
  /\ Push(t, [Frame("addq", e) EXCEPT !.q = q])
  /\ UNCHANGED <<msgVars, coreVars, starting, inprog, ran, nsent>>

EnablesNow_Never(e) == FALSE
EnablesNow(e) == eo[e].st = "RUNNING"
AddQueueEnable(t) ==
  LET q == Top(t).q IN
  /\ In(t, "addq")
  /\ que' = IF EnablesNow(Top(t).e) /\ que[q].st = "BIND"
            THEN [que EXCEPT ![q].st = "READY"] ELSE que
  /\ Pop(t)
  /\ UNCHANGED <<eo, msgVars, coreVars, starting, inprog, ran, nops, nsent>>
-----------------------------------------------------------------------------
(* Local-function requests: eo_local_func_call_req() *)

FreeOp == Min({o \in OpId : ops[o].st = "free"})

(* The event group counts one request for every core of the core map, which
   cannot change until the last one is sent.  fr replaces the top frame of t
   (base = Tail of its stack) or is pushed. *)
ReqCount_Others(t) == Cardinality(emcores \ {t})
ReqCount(t) == Cardinality(emcores)
BeginReqs(t, kind, e, q, del, sync, base) ==
  /\ ops' = [ops EXCEPT ![FreeOp] =
               [kind |-> kind, e |-> e, q |-> q, del |-> del, sync |-> sync,
                caller |-> t, left |-> ReqCount(t), fail |-> FALSE, st |-> "run"]]
  /\ stack' = [stack EXCEPT ![t] =
                 <<[Frame("send", e) EXCEPT !.o = FreeOp, !.kind = kind, !.sync = sync,
                                            !.to = emcores]>> \o base]
  /\ inprog' = [inprog EXCEPT ![t] = @ \/ sync]
  /\ UNCHANGED <<ctrlq, shared>>

(* send_core_ctrl_events(): one request, threads in ascending order.  After
   the last one an asynchronous call returns, a synchronous one polls. *)
SendReq(t) ==
  LET fr == Top(t)
      c  == Min(fr.to)
      rest == fr.to \ {c}
  IN
  /\ In(t, "send")
  /\ ctrlq' = [ctrlq EXCEPT ![c] = Append(@, [t |-> "REQ", o |-> fr.o])]
  /\ IF rest # {} THEN Goto(t, [fr EXCEPT !.to = rest])
     ELSE IF fr.sync THEN Goto(t, [fr EXCEPT !.f = "wait", !.to = {}])
     ELSE Pop(t)
  /\ UNCHANGED <<tabVars, ops, shared, coreVars, starting, inprog, ran, nops, nsent>>

(* An allocation or a send fails: the event group is aborted, the requests
   already sent run all the same, a start or stop leaves the EO in ERROR. *)
SendFail(t) ==
  LET fr == Top(t)
      p  == ops[fr.o]
      n  == p.left - Cardinality(fr.to)
  IN
  /\ In(t, "send")
  /\ p.kind \in MayFail
  /\ ops' = [ops EXCEPT ![fr.o] = IF n = 0 THEN NoOp ELSE [p EXCEPT !.left = n, !.st = "aborted"]]
  /\ eo' = IF p.kind \in {"start", "stop"} THEN [eo EXCEPT ![p.e].st = "ERROR"] ELSE eo
  /\ inprog' = [inprog EXCEPT ![t] = @ /\ ~fr.sync]
  /\ Pop(t)
  /\ UNCHANGED <<que, ctrlq, shared, coreVars, starting, ran, nops, nsent>>
-----------------------------------------------------------------------------
(* Operations *)

(* em_eo_start(), em_eo_start_sync() up to the global start function *)
EoStart(t, e, sync) ==
  /\ MayCall(t, e, sync, {})
  /\ eo[e].st = "CREATED"
  /\ nops' = nops + 1
  /\ \/ /\ eo' = [eo EXCEPT ![e].st = "STARTING", ![e].stash = TRUE]
        /\ starting' = [starting EXCEPT ![t] = e]
        /\ Push(t, [Frame("start", e) EXCEPT !.sync = sync])
     \/ /\ "stash" \in MayFail
        /\ eo' = [eo EXCEPT ![e].st = "ERROR"]
        /\ UNCHANGED <<starting, stack>>
  /\ UNCHANGED <<que, msgVars, coreVars, inprog, ran, nsent>>

(* The global start function returns.  Local start functions, if any, run on
   the cores of the core map before the queues are enabled. *)
NeedsLocals(e) == eo[e].loc /\ emcores # {}
StartReturn(t, ok) ==
  LET e == Top(t).e IN
  /\ In(t, "start")
  /\ starting' = [starting EXCEPT ![t] = NoEo]
  /\ IF ~ok
     THEN /\ eo' = [eo EXCEPT ![e].st = "ERROR"]
          /\ Pop(t)
          /\ UNCHANGED <<msgVars, inprog>>
     ELSE /\ UNCHANGED eo
          /\ IF NeedsLocals(e)
             THEN BeginReqs(t, "start", e, NoQ, FALSE, Top(t).sync, Tail(stack[t]))
             ELSE Goto(t, Frame("enable", e)) /\ UNCHANGED <<msgVars, inprog>>
  /\ UNCHANGED <<que, coreVars, ran, nops, nsent>>

(* queue_enable_all(), then the state, then the buffered events: in the API
   function itself, or in the callback when the local functions are done.
   The callback of a synchronous start leaves the events to its caller. *)
Enable(t) ==
  /\ In(t, "enable")
  /\ que' = AllQueues(Top(t).e, "READY")
  /\ Goto(t, [Top(t) EXCEPT !.f = "running"])
  /\ UNCHANGED <<eo, msgVars, coreVars, starting, inprog, ran, nops, nsent>>

Running(t) ==
  /\ In(t, "running")
  /\ eo' = [eo EXCEPT ![Top(t).e].st = "RUNNING"]
  /\ IF Top(t).sync
     THEN inprog' = [inprog EXCEPT ![t] = FALSE] /\ Pop(t)
     ELSE Goto(t, [Top(t) EXCEPT !.f = "flush"]) /\ UNCHANGED inprog
  /\ UNCHANGED <<que, msgVars, coreVars, starting, ran, nops, nsent>>

(* eo_start_send_buffered_events(), and the notifications.  An event for a
   queue that no longer exists is freed. *)
Delivered(q, buf) == SelectSeq(buf, LAMBDA x : x.q = q)
Flush(t) ==
  LET e == Top(t).e IN
  /\ In(t, "flush")
  /\ que' = [q \in Queues |->
               IF que[q].st = "INVALID" THEN que[q]
               ELSE LET d == Delivered(q, eo[e].buf)
                    IN  [que[q] EXCEPT !.evs = @ \o [i \in 1 .. Len(d) |-> d[i].src]]]
  /\ eo' = [eo EXCEPT ![e].stash = FALSE, ![e].buf = <<>>]
  /\ Pop(t)
  /\ UNCHANGED <<msgVars, coreVars, starting, inprog, ran, nops, nsent>>

(* eo_stop_done(): CREATED already while the global stop function runs. *)
StopDone(e) == [eo EXCEPT ![e].st = "CREATED"]

(* em_eo_stop(), em_eo_stop_sync() *)
EoStop(t, e, sync) ==
  /\ MayCall(t, e, sync, {})
  /\ eo[e].st = "RUNNING"
  /\ nops' = nops + 1
  /\ que' = AllQueues(e, "BIND")
  /\ IF emcores # {}
     THEN /\ eo' = [eo EXCEPT ![e].st = "STOPPING"]
          /\ BeginReqs(t, "stop", e, NoQ, FALSE, sync, stack[t])
     ELSE /\ eo' = StopDone(e)
          /\ Push(t, Frame("stop", e))
          /\ inprog' = [inprog EXCEPT ![t] = @ \/ sync]
          /\ UNCHANGED msgVars
  /\ UNCHANGED <<coreVars, starting, ran, nsent>>

StopReturn(t) ==
  /\ In(t, "stop")
  /\ Pop(t)
  /\ UNCHANGED <<tabVars, msgVars, coreVars, starting, inprog, ran, nops, nsent>>

(* The end of a remove operation: in its callback, or at once if there are
   no cores to ask. *)
RemoveNow(tbl, kind, e, q, del) ==
  CASE kind = "remq" -> RemQueue(tbl, q)
    [] kind = "remall" /\ del -> DeleteQueueAll(tbl, e, FALSE)
    [] kind = "remall" /\ ~del -> RemQueueAll(tbl, e)

RemoveOk(tbl, e, del) == del => StopsAt(e, {q \in Queues : CanDelete(tbl, q)}) > Len(eo[e].qs)

(* em_eo_remove_queue(), em_eo_remove_queue_all() and their synchronous
   forms: the queues are disabled, then the cores are asked. *)
Disabled_Not(e, q) == que
Disabled(e, q) ==
  [x \in Queues |-> IF x = q \/ (q = NoQ /\ que[x].eo = e)
                    THEN [que[x] EXCEPT !.st = "BIND", !.rem = TRUE] ELSE que[x]]
Remove(t, kind, e, q, del, sync) ==
  /\ MayCall(t, e, sync, {t})
  /\ eo[e].st # "UNDEF"
  /\ nops' = nops + 1
  /\ IF emcores # {}
     THEN /\ que' = Disabled(e, q)
          /\ BeginReqs(t, kind, e, q, del, sync, stack[t])
          /\ UNCHANGED eo
     ELSE /\ RemoveNow(Disabled(e, q), kind, e, q, del)
          /\ inprog' = IF sync THEN [inprog EXCEPT ![t] = RemoveOk(Disabled(e, q), e, del)]
                       ELSE inprog \* stays set when a synchronous call succeeds
          /\ UNCHANGED <<msgVars, stack>>
  /\ UNCHANGED <<coreVars, starting, ran, nsent>>

EoRemoveQueue(t, e, q, sync) == que[q].eo = e /\ Remove(t, "remq", e, q, FALSE, sync)
EoRemoveQueueAll(t, e, del, sync) == Remove(t, "remall", e, NoQ, del, sync)
-----------------------------------------------------------------------------
(* Control events *)

(* Who polls: the dispatch loop, a synchronous call that is not released yet,
   a terminating core until its control queue is drained. *)
Polls(t) ==
  \/ Idle(t) /\ t \in Core /\ life[t] \in {"up", "drain"}
  \/ In(t, "wait") /\ inprog[t]
  \/ In(t, "poll") /\ Top(t).b = <<>>

(* poll_unsched_ctrl_queue(): rounds that dequeue the own queue and the
   shared one and handle what they got, until both are empty. *)
Poll(t) ==
  LET new == [Frame("poll", NoEo) EXCEPT !.b = ctrlq[t] \o shared] IN
  /\ Polls(t)
  /\ ctrlq[t] # <<>> \/ shared # <<>>
  /\ IF In(t, "poll") THEN Goto(t, new) ELSE Push(t, new)
  /\ ctrlq' = [ctrlq EXCEPT ![t] = <<>>]
  /\ shared' = <<>>
  /\ UNCHANGED <<tabVars, ops, coreVars, starting, inprog, ran, nops, nsent>>

PollEnd(t) ==
  /\ In(t, "poll") /\ Top(t).b = <<>>
  /\ ctrlq[t] = <<>> /\ shared = <<>>
  /\ Pop(t)
  /\ UNCHANGED <<tabVars, msgVars, coreVars, starting, inprog, ran, nops, nsent>>

Next1(t) == Head(Top(t).b)
Rest(t)  == <<[Top(t) EXCEPT !.b = Tail(@)]>> \o Tail(stack[t])

(* event_group_count_decrement() after a request was handled: the last one
   sends the DONE event, to the caller of a synchronous operation or to the
   shared queue.  An aborted operation has no event group any more. *)
DoneQueue_Shared(p) == FALSE
DoneQueue(p) == p.sync
Count(o, fail) ==
  LET p == ops[o]
      r == [p EXCEPT !.left = @ - 1, !.fail = @ \/ fail]
      done == [t |-> "DONE", o |-> o]
  IN
  /\ ops' = [ops EXCEPT ![o] = IF p.st = "aborted" /\ r.left = 0 THEN NoOp ELSE r]
  /\ IF p.st = "run" /\ r.left = 0
     THEN IF DoneQueue(p)
          THEN ctrlq' = [ctrlq EXCEPT ![p.caller] = Append(@, done)] /\ UNCHANGED shared
          ELSE shared' = Append(shared, done) /\ UNCHANGED ctrlq
     ELSE UNCHANGED <<ctrlq, shared>>

(* i_event__eo_local_func_call_req() *)
LocalStart(t) ==
  LET o == Next1(t).o IN
  /\ In(t, "poll") /\ Top(t).b # <<>> /\ Next1(t).t = "REQ"
  /\ ops[o].kind = "start"
  /\ starting' = [starting EXCEPT ![t] = ops[o].e]
  /\ stack' = [stack EXCEPT ![t] =
                 <<[Frame("local", ops[o].e) EXCEPT !.o = o]>> \o Rest(t)]
  /\ UNCHANGED <<tabVars, msgVars, coreVars, inprog, ran, nops, nsent>>

LocalStartReturn(t, ok) ==
  LET fr == Top(t) IN
  /\ In(t, "local")
  /\ starting' = [starting EXCEPT ![t] = NoEo]
  /\ ran' = IF ok THEN [ran EXCEPT ![t] = @ \cup {fr.e}] ELSE ran
  /\ Count(fr.o, ~ok)
  /\ Pop(t)
  /\ UNCHANGED <<tabVars, coreVars, inprog, nops, nsent>>

LocalOther(t) ==
  LET o == Next1(t).o IN
  /\ In(t, "poll") /\ Top(t).b # <<>> /\ Next1(t).t = "REQ"
  /\ ops[o].kind # "start"
  /\ ran' = IF ops[o].kind = "stop" THEN [ran EXCEPT ![t] = @ \ {ops[o].e}] ELSE ran
  /\ Count(o, FALSE)
  /\ stack' = [stack EXCEPT ![t] = Rest(t)]
  /\ UNCHANGED <<tabVars, coreVars, starting, inprog, nops, nsent>>

(* i_event__internal_done() and the done callbacks: what the callback pushes
   on the stack, if anything. *)
IsDone(t, kinds) ==
  /\ In(t, "poll") /\ Top(t).b # <<>> /\ Next1(t).t = "DONE"
  /\ ops[Next1(t).o].kind \in kinds
Freed(t) == ops' = [ops EXCEPT ![Next1(t).o] = NoOp]
Release(t, p) == inprog' = [inprog EXCEPT ![t] = @ /\ ~p.sync]

(* check_eo_local_status() *)
LocalsOk(p) == ~p.fail

(* eo_start_done_callback(), eo_start_sync_done_callback() *)
StartDone(t) ==
  LET p == ops[Next1(t).o] IN
  /\ IsDone(t, {"start"})
  /\ Freed(t)
  /\ IF LocalsOk(p)
     THEN /\ stack' = [stack EXCEPT ![t] =
                         <<[Frame("enable", p.e) EXCEPT !.sync = p.sync]>> \o Rest(t)]
          /\ UNCHANGED inprog
     ELSE /\ stack' = [stack EXCEPT ![t] =
                         IF p.sync THEN Rest(t) ELSE <<Frame("flush", p.e)>> \o Rest(t)]
          /\ Release(t, p)
  /\ UNCHANGED <<tabVars, ctrlq, shared, coreVars, starting, ran, nops, nsent>>

(* eo_stop_done_callback(), eo_stop_sync_done_callback() *)
StopDoneCallback(t) ==
  LET p == ops[Next1(t).o] IN
  /\ IsDone(t, {"stop"})
  /\ Freed(t)
  /\ IF p.sync THEN /\ stack' = [stack EXCEPT ![t] = Rest(t)]
                    /\ UNCHANGED eo
     ELSE /\ stack' = [stack EXCEPT ![t] = <<Frame("stop", p.e)>> \o Rest(t)]
          /\ eo' = StopDone(p.e)
  /\ Release(t, p)
  /\ UNCHANGED <<que, ctrlq, shared, coreVars, starting, ran, nops, nsent>>

(* eo_remove_queue_done_callback(), eo_remove_queue_all_done_callback() and
   their synchronous forms *)
RemoveDone(t) ==
  LET p == ops[Next1(t).o] IN
  /\ IsDone(t, {"remq", "remall"})
  /\ Freed(t)
  /\ RemoveNow(que, p.kind, p.e, p.q, p.del)
  /\ Release(t, p)
  /\ stack' = [stack EXCEPT ![t] = Rest(t)]
  /\ UNCHANGED <<ctrlq, shared, coreVars, starting, ran, nops, nsent>>

(* while (locm->sync_api.in_progress) poll_unsched_ctrl_queue(); and what
   the synchronous calls do after it. *)
WaitReturn(t) ==
  LET e == Top(t).e IN
  /\ In(t, "wait") /\ ~inprog[t]
  /\ CASE Top(t).kind = "start" -> Goto(t, Frame("flush", e)) /\ UNCHANGED eo
       [] Top(t).kind = "stop" -> Goto(t, Frame("stop", e)) /\ eo' = StopDone(e)
       [] Top(t).kind \in {"remq", "remall"} -> Pop(t) /\ UNCHANGED eo
  /\ UNCHANGED <<que, msgVars, coreVars, starting, inprog, ran, nops, nsent>>
-----------------------------------------------------------------------------
(* Events *)

(* The EO whose start functions the thread is in. *)
Source(t) ==
  IF In(t, "start") \/ In(t, "local") THEN Top(t).e ELSE NoEo

(* em_send() to a scheduled queue: buffered while locm->start_eo_elem is set. *)
Buffers_Never(t) == FALSE
Buffers(t) == starting[t] # NoEo
Send(t, q) ==
  /\ life[t] = "up"
  /\ Place(t) \in {"rcv", "start", "local"} \/ (Place(t) = "main" /\ t \in Callers)
  /\ nsent < MaxSends
  /\ que[q].st # "INVALID"
  /\ nsent' = nsent + 1
  /\ IF Buffers(t)
     THEN /\ eo' = [eo EXCEPT ![starting[t]].buf = Append(@, [q |-> q, src |-> Source(t)])]
          /\ UNCHANGED que
     ELSE /\ que' = [que EXCEPT ![q].evs = Append(@, Source(t))]
          /\ UNCHANGED eo
  /\ UNCHANGED <<msgVars, coreVars, stack, starting, inprog, ran, nops>>

(* dispatch_round(): is_invalid_queue() drops the events of a queue that is
   not enabled, otherwise the receive function is entered. *)
Valid_Allocated(q) == que[q].st # "INVALID"
Valid(q) == que[q].st = "READY"
Dispatch(c, q) ==
  /\ Idle(c) /\ life[c] = "up"
  /\ que[q].evs # <<>>
  /\ que' = [que EXCEPT ![q].evs = Tail(@)]
  /\ IF Valid(q) THEN Push(c, [Frame("rcv", que[q].eo) EXCEPT !.q = q])
                 ELSE UNCHANGED stack
  /\ UNCHANGED <<eo, msgVars, coreVars, starting, inprog, ran, nops, nsent>>

ReceiveReturn(c) ==
  /\ In(c, "rcv")
  /\ Pop(c)
  /\ UNCHANGED <<tabVars, msgVars, coreVars, starting, inprog, ran, nops, nsent>>
-----------------------------------------------------------------------------
(* Cores that join and leave: init_core() and term_core().  The core map lock
   is held for reading while requests are sent. *)

MapLocked == \E t \in Thread : In(t, "send")
MayMove == Orderly => /\ \A e \in EOs : ~Busy(e, {})
                      /\ ~Moving

Join(c) ==
  /\ life[c] = "out" /\ ~MapLocked
  /\ nmoves < MaxMoves
  /\ MayMove
  /\ emcores' = emcores \cup {c}
  /\ life' = [life EXCEPT ![c] = "init"]
  /\ nmoves' = nmoves + 1
  /\ UNCHANGED <<tabVars, msgVars, stack, starting, inprog, ran, nops, nsent>>

(* EOs whose local function a core runs on its own. *)
RunningLocal == {e \in EOs : eo[e].loc /\ eo[e].st = "RUNNING"}

(* eo_start_local_fn_at_init() *)
StartsAtInit_None == {}
StartsAtInit == RunningLocal
JoinStart(c) ==
  /\ life[c] = "init"
  /\ ran' = [ran EXCEPT ![c] = @ \cup StartsAtInit]
  /\ life' = [life EXCEPT ![c] = "up"]
  /\ UNCHANGED <<tabVars, msgVars, emcores, nmoves, stack, starting, inprog, nops, nsent>>

(* eo_stop_local_fn_at_term() *)
Leave(c) ==
  /\ c \in Core /\ life[c] = "up" /\ Idle(c)
  /\ nmoves < MaxMoves
  /\ MayMove
  /\ ran' = [ran EXCEPT ![c] = @ \ RunningLocal]
  /\ life' = [life EXCEPT ![c] = "term"]
  /\ nmoves' = nmoves + 1
  /\ UNCHANGED <<tabVars, msgVars, emcores, stack, starting, inprog, nops, nsent>>

(* core_map_term_local() *)
LeaveMap(c) ==
  /\ life[c] = "term" /\ ~MapLocked
  /\ emcores' = emcores \ {c}
  /\ life' = [life EXCEPT ![c] = "drain"]
  /\ UNCHANGED <<tabVars, msgVars, nmoves, stack, starting, inprog, ran, nops, nsent>>

(* The polling loop of term_core() ends once the control queue is drained. *)
Left(c) ==
  /\ life[c] = "drain" /\ Idle(c) /\ ctrlq[c] = <<>>
  /\ life' = [life EXCEPT ![c] = "out"]
  /\ ran' = [ran EXCEPT ![c] = {}]
  /\ UNCHANGED <<tabVars, msgVars, emcores, nmoves, stack, starting, inprog, nops, nsent>>
-----------------------------------------------------------------------------
Outcomes(what) == IF what \in MayFail THEN BOOLEAN ELSE {TRUE}

ApplicationCall ==
  \/ \E q \in Queues : QueueCreate(q) \/ QueueDelete(q)
  \/ \E e \in EOs, loc \in BOOLEAN : EoCreate(e, loc)
  \/ \E t \in Thread, e \in EOs :
       \/ EoDelete(t, e)
       \/ \E sync \in BOOLEAN :
            \/ EoStart(t, e, sync)
            \/ EoStop(t, e, sync)
            \/ \E q \in Queues : EoRemoveQueue(t, e, q, sync)
            \/ \E del \in BOOLEAN : EoRemoveQueueAll(t, e, del, sync)
       \/ \E q \in Queues : AddQueue(t, e, q)
  \/ \E t \in Thread, q \in Queues : Send(t, q)
  \/ \E c \in Core : Join(c) \/ Leave(c)

(* What a thread does once it has been started on something. *)
Step(t) ==
  \/ AddQueueEnable(t) \/ SendReq(t) \/ SendFail(t)
  \/ \E ok \in Outcomes("global") : StartReturn(t, ok)
  \/ Enable(t) \/ Running(t) \/ Flush(t) \/ StopReturn(t)
  \/ Poll(t) \/ PollEnd(t)
  \/ LocalStart(t) \/ LocalOther(t)
  \/ \E ok \in Outcomes("local") : LocalStartReturn(t, ok)
  \/ StartDone(t) \/ StopDoneCallback(t) \/ RemoveDone(t)
  \/ WaitReturn(t)
  \/ t \in Core /\ \/ \E q \in Queues : Dispatch(t, q)
                    \/ ReceiveReturn(t)
                    \/ JoinStart(t) \/ LeaveMap(t) \/ Left(t)

Next == ApplicationCall \/ \E t \in Thread : Step(t)

Spec == Init /\ [][Next]_vars

(* Every thread keeps running: cores call em_dispatch() in a loop and the
   user's functions return. *)
Fairness == \A t \in Thread : WF_vars(Step(t))
FairSpec == Spec /\ Fairness
-----------------------------------------------------------------------------
FrameKinds == {"rcv", "start", "stop", "send", "wait", "poll", "local", "addq",
               "enable", "running", "flush"}

(* The tables, control queues and stacks have their types, a queue is BIND or
   READY exactly when it is in the list of its EO, and an event group never
   counts below zero. *)
TypeOK ==
  /\ \A e \in EOs :
       /\ eo[e].st \in {"UNDEF", "CREATED", "STARTING", "RUNNING", "STOPPING", "ERROR"}
       /\ eo[e].loc \in BOOLEAN /\ eo[e].stash \in BOOLEAN
       /\ eo[e].qs \in Seq(Queues)
  /\ \A q \in Queues :
       /\ que[q].st \in {"INVALID", "INIT", "BIND", "READY"}
       /\ que[q].st \in {"BIND", "READY"} <=> que[q].eo \in EOs
       /\ \A e \in EOs : que[q].eo = e <=> \E i \in 1 .. Len(eo[e].qs) : eo[e].qs[i] = q
  /\ \A o \in OpId : ops[o].left \in 0 .. NumCores /\ ops[o].st \in {"free", "run", "aborted"}
  /\ \A t \in Thread : \A fr \in Frames(t) : fr.f \in FrameKinds
  /\ emcores \subseteq Core
  /\ starting \in [Thread -> EOs \cup {NoEo}]
  /\ inprog \in [Thread -> BOOLEAN]
  /\ ran \in [Core -> SUBSET EOs]

(* The EO functions a thread is in, or has been interrupted in. *)
InStop(t, e) == \E fr \in Frames(t) : fr.f = "stop" /\ fr.e = e
InReceive(t, e) == \E fr \in Frames(t) : fr.f = "rcv" /\ fr.e = e

(* em_eo_stop(): the global stop function runs after the local stop function
   has run on every EM-core that had run the local start function. *)
GlobalStopLast ==
  \A e \in EOs, t \in Thread, c \in Core : InStop(t, e) => e \notin ran[c]

(* em_eo_stop(): no other core is in the receive function of the EO while
   its global stop function runs. *)
StopQuiet ==
  \A e \in EOs, t, c \in Thread : InStop(t, e) /\ InReceive(c, e) => c = t

(* A core receives events for an EO with local functions only after it has
   run the local start function, and until it runs the local stop function:
   core-local data of the EO exists whenever its receive function runs. *)
ReceiveStarted ==
  \A c \in Core, e \in EOs : InReceive(c, e) /\ eo[e].loc => e \in ran[c]

(* eo_remove_queue_done_callback(): a queue leaves its EO, or is deleted, only
   when no core processes an event of it any more. *)
ReceiveOwned ==
  \A c \in Core : \A fr \in Frames(c) : fr.f = "rcv" => que[fr.q].eo = fr.e

(* em_eo_remove_queue(), em_eo_remove_queue_all() without delete: when the
   operation has gone round all cores, and its caller is released or its
   notifications are sent, the queues are no longer the EO's. *)
RemovedWhenDone ==
  [][\A o \in OpId :
       LET p == ops[o] IN
       /\ p.kind \in {"remq", "remall"} /\ ~p.del
       /\ p.st = "run" /\ p.left = 0 /\ ops'[o].st = "free"
       => \A q \in Queues : (p.kind = "remall" \/ q = p.q) => que'[q].eo # p.e]_vars

(* A start function of e is running, or has not run yet on some core. *)
StartFnsRunning(e) ==
  \/ \E t \in Thread : \E fr \in Frames(t) : fr.f = "start" /\ fr.e = e
  \/ \E o \in OpId : /\ ops[o].kind = "start" /\ ops[o].st = "run"
                     /\ ops[o].e = e /\ ops[o].left > 0

(* Events sent from start functions are held back until the start functions
   have all returned: none reaches a queue before that. *)
FromStart(q, e) == Cardinality({i \in 1 .. Len(que[q].evs) : que[q].evs[i] = e})
StartEventsHeld ==
  [][\A e \in EOs, q \in Queues :
       StartFnsRunning(e) /\ StartFnsRunning(e)' => FromStart(q, e)' <= FromStart(q, e)]_vars

(* Between operations all queues of a running EO are enabled, unless a remove
   operation failed half-way, those of a stopped EO are not, and nothing is
   left in the start buffer. *)
Settled ==
  \A e \in EOs : ~Busy(e, {}) =>
    /\ eo[e].st \notin {"STOPPING"}
    /\ eo[e].st = "RUNNING" =>
         /\ ~eo[e].stash
         /\ \A q \in Queues : que[q].eo = e => que[q].st = "READY" \/ que[q].rem
    /\ eo[e].st = "CREATED" =>
         /\ ~eo[e].stash
         /\ \A q \in Queues : que[q].eo = e => que[q].st = "BIND"

(* Every operation that has sent its requests comes to an end, whichever
   functions fail and whichever cores leave. *)
OpsComplete ==
  \A e \in EOs : Busy(e, {}) ~> ~Busy(e, {})

(* The tables agree with each other at all times, and between operations the
   queues of an EO are in the state that goes with its own. *)
EoSettled == TypeOK /\ Settled

(* em_eo_stop(): the global stop function comes after all local ones and
   while no other core is in the receive function. *)
StopIsLast == GlobalStopLast /\ StopQuiet

(* A core is in a receive function only between its local start and stop, and
   with an event of a queue that is still the EO's. *)
ReceiveAllowed == ReceiveStarted /\ ReceiveOwned

(* Events of start functions reach no queue before the EO has started, and a
   removal is not reported done before the queues are removed. *)
NothingTooEarly == StartEventsHeld /\ RemovedWhenDone
=============================================================================
